----------------------------- MODULE ActiveAreas -----------------------------
(***************************************************************************)
(* The life of the active-area table under any sequence of A entries, next *)
(* to what slides.md promises the author of a script: a map from the       *)
(* rectangles defined and not removed to their tags.                       *)
(***************************************************************************)
EXTENDS AreaTable

VARIABLES
  areas,      \* _areas
  declared,   \* the promise: the tag the script last gave each rectangle, or 0
  given,      \* every <<rectangle, tag>> defined since the last "A 0 0 0 0 0"
  holed,      \* some area was removed by itself since then
  refused     \* "too many areas": the script ended with an error

vars == <<areas, declared, given, holed, refused>>

Init ==
  /\ areas = EmptyTable
  /\ declared = [r \in Rects |-> 0]
  /\ given = {}
  /\ holed = FALSE
  /\ refused = FALSE

(* An A entry with a rectangle: a nonzero tag defines or retags the area,  *)
(* zero removes it.  The scan does not tell these apart.                   *)
SetArea(r, g) ==
  /\ ~refused
  /\ IF HasRoom(areas, r)
       THEN /\ areas' = AddArea(areas, r, g)
            /\ declared' = [declared EXCEPT ![r] = g]
            /\ given' = IF g = 0 THEN given ELSE given \union {<<r, g>>}
            /\ holed' = (holed \/ g = 0)
            /\ UNCHANGED refused
       ELSE /\ refused' = TRUE
            /\ UNCHANGED <<areas, declared, given, holed>>

RemoveAll ==
  /\ ~refused
  /\ areas' = ClearAreas(areas)
  /\ declared' = [r \in Rects |-> 0]
  /\ given' = {}
  /\ holed' = FALSE
  /\ UNCHANGED refused

Next ==
  \/ \E r \in Rects, g \in Tags \union {0} : SetArea(r, g)
  \/ RemoveAll

Spec == Init /\ [][Next]_vars

------------------------------------------------------------------------------
Live == {r \in Rects : declared[r] # 0}

(* The table, the promise and the flags have their types (actarea.c:10-19). *)
TypeOK ==
  /\ areas \in Tables
  /\ declared \in [Rects -> Tags \union {0}]
  /\ given \subseteq Rects \X Tags
  /\ holed \in BOOLEAN
  /\ refused \in BOOLEAN

(* While no area was removed by itself, the used slots precede the free    *)
(* ones and no two hold one rectangle: the scan of _add_area relies on     *)
(* both to find an area before a free slot (actarea.c:26-44).              *)
UsedSlotsFirst ==
  ~holed => \A i, j \in Slots :
              areas[j].tag # 0 /\ i < j =>
                /\ areas[i].tag # 0
                /\ areas[i].rect # areas[j].rect

(* Even a script that removes areas one by one never sees a tag from an    *)
(* earlier page: what the hit test answers was given, since the last       *)
(* "A 0 0 0 0 0", to a rectangle under the point (actarea.c:109-139).      *)
HitWasGiven ==
  \A p \in Points :
    Retrieve(areas, p) # 0 =>
      \E r \in Rects : Covers(r, p) /\ <<r, Retrieve(areas, p)>> \in given

(* A nonzero answer is the latest tag of a live rectangle under the point. *)
AnswersAreLive ==
  \A p \in Points :
    Retrieve(areas, p) # 0 =>
      \E r \in Live : Covers(r, p) /\ declared[r] = Retrieve(areas, p)

(* A point inside some live area always gets an answer: no slot that is    *)
(* not in use hides an area behind it.                                     *)
LiveAreasAnswer ==
  \A p \in Points : (\E r \in Live : Covers(r, p)) => Retrieve(areas, p) # 0

(* While no area was removed by itself, the table is the map slides.md     *)
(* promises: it answers with the latest tag of a live area, and misses     *)
(* none, however areas were retagged, replaced and cleared before.         *)
MapIsKept == ~holed => AnswersAreLive /\ LiveAreasAnswer

(* And it refuses an area only when MAX_AREAS areas are live, none of them *)
(* twice in the table (actarea.c:80-84).                                   *)
RefusedOnlyWhenFull == ~holed /\ refused => Cardinality(Live) >= MaxAreas

(* slides.md:66: "In order to remove an area, set its <tag> to zero".  The *)
(* code finds the area only if no free slot precedes it: a removed area    *)
(* may go on answering, and a removed one hides those behind it.           *)
RemovalKeepsMap == AnswersAreLive /\ LiveAreasAnswer
==============================================================================
