------------------------------ MODULE AreaTable ------------------------------
(***************************************************************************)
(* The table of active (clickable) areas of a slideshow, sld/actarea.c:    *)
(* MAX_AREAS slots, each with a rectangle and a tag.  A slot whose tag is  *)
(* zero is free, but it keeps its rectangle.  The operators below are what *)
(* the A entry of a script and the hit test of a waiting script do to it.  *)
(*                                                                         *)
(* A rectangle is <<left, top, width, height>>, a point <<x, y>>.          *)
(***************************************************************************)
EXTENDS Integers, FiniteSetsExt

CONSTANTS
  MaxAreas,   \* MAX_AREAS, 16 in the code
  Rects,      \* the rectangles the script uses
  Points,     \* the pointer positions
  Tags        \* the tags the script uses, zero excluded

ZeroRect == <<0, 0, 0, 0>>

ASSUME MaxAreasAssumption == MaxAreas \in Nat \ {0}

ASSUME TagsAssumption == \A g \in Tags : g \in Nat /\ 0 < g /\ g <= 65535

ASSUME RectsAssumption ==
  /\ Rects \subseteq Nat \X Nat \X Nat \X Nat
  /\ Points \subseteq Nat \X Nat

Slots == 1 .. MaxAreas
Area == [rect : Rects \union {ZeroRect}, tag : Tags \union {0}]
Tables == [Slots -> Area]

(* The table is a static array: every field starts as zero. *)
EmptyTable == [i \in Slots |-> [rect |-> ZeroRect, tag |-> 0]]

(* The half-open rectangle test of __sld_retrieve_active_area_tag. *)
Covers(r, p) ==
  /\ r[1] <= p[1] /\ p[1] - r[1] < r[3]
  /\ r[2] <= p[2] /\ p[2] - r[2] < r[4]

(* Mutant: the scan looks for a free slot only. *)
CandidatesFreeOnly(t, r) == {i \in Slots : t[i].tag = 0}

(* The slots at which the scan of _add_area stops: the first one that has  *)
(* the rectangle, whatever its tag, or that is free.                       *)
Candidates(t, r) == {i \in Slots : t[i].rect = r \/ t[i].tag = 0}

HasRoom(t, r) == Candidates(t, r) # {}

(* Mutants: the last candidate is taken; the far corner is stored, not the size. *)
AddAreaLast(t, r, g) == [t EXCEPT ![Max(Candidates(t, r))] = [rect |-> r, tag |-> g]]
AddAreaCorners(t, r, g) ==
  [t EXCEPT ![Min(Candidates(t, r))] =
     [rect |-> <<r[1], r[2], r[1] + r[3], r[2] + r[4]>>, tag |-> g]]

AddArea(t, r, g) == [t EXCEPT ![Min(Candidates(t, r))] = [rect |-> r, tag |-> g]]

(* Mutant: the loop misses the last slot. *)
ClearAreasShort(t) == [i \in Slots |-> IF i = MaxAreas THEN t[i] ELSE [t[i] EXCEPT !.tag = 0]]

(* The "A 0 0 0 0 0" entry zeroes the tags and leaves the rectangles. *)
ClearAreas(t) == [i \in Slots |-> [t[i] EXCEPT !.tag = 0]]

(* The tag of the first slot whose rectangle covers the point, zero or not. *)
Retrieve(t, p) ==
  LET hits == {i \in Slots : Covers(t[i].rect, p)}
  IN  IF hits = {} THEN 0 ELSE t[Min(hits)].tag
==============================================================================
