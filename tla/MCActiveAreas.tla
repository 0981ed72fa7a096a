---------------------------- MODULE MCActiveAreas ----------------------------
(* Four overlapping rectangles on a small grid and three slots: enough for *)
(* holes, duplicates, shadows and a full table.                            *)
EXTENDS ActiveAreas

MCRects == {<<0, 0, 2, 2>>, <<1, 1, 2, 2>>, <<1, 0, 1, 3>>, <<0, 2, 3, 1>>}
MCPoints == (0 .. 3) \X (0 .. 3)
==============================================================================
