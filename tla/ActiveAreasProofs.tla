-------------------------- MODULE ActiveAreasProofs --------------------------
(***************************************************************************)
(* For every number of slots and every set of rectangles and tags: while   *)
(* no area was removed by itself, the table is the map slides.md promises; *)
(* and whatever the script does, the hit test answers no tag from an       *)
(* earlier page.  UsedSlotsFirst is not inductive: retagging is right only *)
(* because the table also agrees with what was declared.                   *)
(***************************************************************************)
EXTENDS ActiveAreas, AreaTableProofs, FiniteSetTheorems

(* Each used slot holds a pair that was given, ...                         *)
SlotsWereGiven ==
  \A i \in Slots : areas[i].tag # 0 =>
    areas[i].rect \in Rects /\ <<areas[i].rect, areas[i].tag>> \in given

(* ... the latest tag of its rectangle, and each live rectangle has a      *)
(* slot; a table that refused is full.                                     *)
TableIsDeclared ==
  ~holed =>
    /\ \A i \in Slots : areas[i].tag # 0 => declared[areas[i].rect] = areas[i].tag
    /\ \A r \in Rects : declared[r] # 0 =>
         \E i \in Slots : areas[i].rect = r /\ areas[i].tag # 0
    /\ refused => \A i \in Slots : areas[i].tag # 0

IInv == TypeOK /\ SlotsWereGiven /\ UsedSlotsFirst /\ TableIsDeclared

LEMMA SlotsAreNumbers == /\ \A i \in Slots : i \in Int
                         /\ \A i, j \in Slots : i < j \/ i = j \/ j < i
BY MaxAreasAssumption DEF MaxAreasAssumption, Slots

LEMMA InitIInv == Init => IInv
<1> SUFFICES ASSUME Init PROVE IInv
  OBVIOUS
<1>1. \A i \in Slots : areas[i] = [rect |-> ZeroRect, tag |-> 0]
  BY DEF Init, EmptyTable
<1>2. TypeOK
  BY DEF Init, TypeOK, EmptyTable, Tables, Area
<1>3. SlotsWereGiven /\ UsedSlotsFirst /\ TableIsDeclared
  BY <1>1 DEF Init, SlotsWereGiven, UsedSlotsFirst, TableIsDeclared
<1>4. QED BY <1>2, <1>3 DEF IInv

(* A defined area takes its own slot or the first free one.                *)
LEMMA SetAreaIInv ==
  ASSUME IInv, NEW r \in Rects, NEW g \in Tags \union {0}, SetArea(r, g)
  PROVE  IInv'
<1>0. /\ areas \in Tables
      /\ declared \in [Rects -> Tags \union {0}]
      /\ given \subseteq Rects \X Tags
      /\ holed \in BOOLEAN /\ refused \in BOOLEAN
  BY DEF IInv, TypeOK
<1>1. CASE ~HasRoom(areas, r)
  <2>1. UNCHANGED <<areas, declared, given, holed>> /\ refused' = TRUE
    BY <1>1 DEF SetArea
  <2>2. \A i \in Slots : areas[i].tag # 0
    BY <1>1 DEF HasRoom, Candidates
  <2>3. QED BY <2>1, <2>2 DEF IInv, TypeOK, SlotsWereGiven, UsedSlotsFirst, TableIsDeclared
<1>2. CASE HasRoom(areas, r)
  <2> DEFINE k == Min(Candidates(areas, r))
  <2>1. /\ areas' = [areas EXCEPT ![k] = [rect |-> r, tag |-> g]]
        /\ declared' = [declared EXCEPT ![r] = g]
        /\ given' = IF g = 0 THEN given ELSE given \union {<<r, g>>}
        /\ holed' = (holed \/ g = 0)
        /\ refused' = refused /\ refused = FALSE
    BY <1>2 DEF SetArea, AddArea, IInv, TypeOK
  <2>2. /\ k \in Slots
        /\ areas[k].rect = r \/ areas[k].tag = 0
        /\ \A i \in Slots : i < k => areas[i].rect # r /\ areas[i].tag # 0
    BY <1>0, <1>2, AddAreaSlot DEF Candidates
  <2> HIDE DEF k
  <2>3. /\ areas'[k].rect = r /\ areas'[k].tag = g
        /\ \A i \in Slots : i # k => areas'[i] = areas[i]
    BY <1>0, <2>1, <2>2 DEF Tables
  <2>4. TypeOK'
    <3>1. areas' \in Tables
      BY <1>0, <1>2, AddAreaType DEF SetArea
    <3>2. declared' \in [Rects -> Tags \union {0}]
      BY <1>0, <2>1
    <3>3. given' \subseteq Rects \X Tags
      BY <1>0, <2>1
    <3>4. QED BY <1>0, <2>1, <3>1, <3>2, <3>3 DEF TypeOK
  <2>5. SlotsWereGiven'
    <3> SUFFICES ASSUME NEW i \in Slots, areas'[i].tag # 0
                 PROVE  areas'[i].rect \in Rects /\ <<areas'[i].rect, areas'[i].tag>> \in given'
      BY DEF SlotsWereGiven
    <3>1. CASE i = k
      BY <2>1, <2>3, <3>1
    <3>2. CASE i # k
      BY <2>1, <2>3, <3>2 DEF IInv, SlotsWereGiven
    <3>3. QED BY <3>1, <3>2
  <2>6. CASE holed'
    BY <2>4, <2>5, <2>6 DEF IInv, UsedSlotsFirst, TableIsDeclared
  <2>7. CASE ~holed'
    <3>1. ~holed /\ g # 0
      BY <2>1, <2>7
    <3>2. /\ \A i, j \in Slots : areas[j].tag # 0 /\ i < j =>
               areas[i].tag # 0 /\ areas[i].rect # areas[j].rect
          /\ \A i \in Slots : areas[i].tag # 0 =>
               areas[i].rect \in Rects /\ declared[areas[i].rect] = areas[i].tag
          /\ \A q \in Rects : declared[q] # 0 =>
               \E i \in Slots : areas[i].rect = q /\ areas[i].tag # 0
      BY <3>1 DEF IInv, UsedSlotsFirst, TableIsDeclared, SlotsWereGiven
    <3>3. ASSUME NEW i \in Slots, i # k, areas[i].tag # 0
          PROVE  areas[i].rect # r
      <4>1. CASE i < k
        BY <2>2, <4>1
      <4>2. CASE k < i
        BY <2>2, <3>2, <3>3, <4>2
      <4>3. QED BY <2>2, <3>3, <4>1, <4>2, SlotsAreNumbers
    <3>4. UsedSlotsFirst'
      <4> SUFFICES ASSUME NEW i \in Slots, NEW j \in Slots, areas'[j].tag # 0, i < j
                   PROVE  areas'[i].tag # 0 /\ areas'[i].rect # areas'[j].rect
        BY DEF UsedSlotsFirst
      <4>1. CASE j = k
        <5>1. i # k /\ areas'[i] = areas[i]
          BY <2>2, <2>3, <4>1, SlotsAreNumbers
        <5>2. QED BY <2>2, <2>3, <4>1, <5>1
      <4>2. CASE i = k
        <5>1. j # k /\ areas'[j] = areas[j]
          BY <2>2, <2>3, <4>2, SlotsAreNumbers
        <5>2. QED BY <2>3, <3>1, <3>3, <4>2, <5>1
      <4>3. CASE i # k /\ j # k
        BY <2>3, <3>2, <4>3
      <4>4. QED BY <4>1, <4>2, <4>3
    <3>5. ASSUME NEW i \in Slots, areas'[i].tag # 0
          PROVE  declared'[areas'[i].rect] = areas'[i].tag
      <4>1. CASE i = k
        BY <1>0, <2>1, <2>3, <4>1
      <4>2. CASE i # k
        <5>1. areas[i].tag # 0 /\ areas'[i] = areas[i]
          BY <2>3, <3>5, <4>2
        <5>2. areas[i].rect \in Rects /\ areas[i].rect # r
          BY <3>2, <3>3, <4>2, <5>1
        <5>3. QED BY <1>0, <2>1, <3>2, <5>1, <5>2
      <4>3. QED BY <4>1, <4>2
    <3>6. ASSUME NEW q \in Rects, declared'[q] # 0
          PROVE  \E i \in Slots : areas'[i].rect = q /\ areas'[i].tag # 0
      <4>1. CASE q = r
        BY <2>2, <2>3, <3>1, <4>1
      <4>2. CASE q # r
        <5>1. declared[q] # 0
          BY <1>0, <2>1, <3>6, <4>2
        <5>2. PICK i \in Slots : areas[i].rect = q /\ areas[i].tag # 0
          BY <3>2, <5>1
        <5>3. i # k
          BY <2>2, <4>2, <5>2
        <5>4. QED BY <2>3, <5>2, <5>3
      <4>3. QED BY <4>1, <4>2
    <3>7. TableIsDeclared'
      BY <2>1, <3>5, <3>6 DEF TableIsDeclared
    <3>8. QED BY <2>4, <2>5, <3>4, <3>7 DEF IInv
  <2>8. QED BY <2>6, <2>7
<1>3. QED BY <1>1, <1>2

LEMMA RemoveAllIInv == ASSUME IInv, RemoveAll PROVE IInv'
<1>1. /\ areas \in Tables
      /\ areas' = ClearAreas(areas)
      /\ declared' = [r \in Rects |-> 0]
      /\ given' = {} /\ holed' = FALSE
      /\ refused' = refused /\ refused = FALSE
  BY DEF IInv, TypeOK, RemoveAll
<1>2. \A i \in Slots : areas'[i].tag = 0
  BY <1>1 DEF ClearAreas, Tables, Area
<1>3. TypeOK'
  BY <1>1, ClearAreasType DEF IInv, TypeOK
<1>4. SlotsWereGiven' /\ UsedSlotsFirst' /\ TableIsDeclared'
  BY <1>1, <1>2 DEF SlotsWereGiven, UsedSlotsFirst, TableIsDeclared
<1>5. QED BY <1>3, <1>4 DEF IInv

LEMMA NextIInv == IInv /\ [Next]_vars => IInv'
<1> SUFFICES ASSUME IInv, [Next]_vars PROVE IInv'
  OBVIOUS
<1>1. CASE \E r \in Rects, g \in Tags \union {0} : SetArea(r, g)
  BY <1>1, SetAreaIInv
<1>2. CASE RemoveAll
  BY <1>2, RemoveAllIInv
<1>3. CASE UNCHANGED vars
  BY <1>3 DEF vars, IInv, TypeOK, SlotsWereGiven, UsedSlotsFirst, TableIsDeclared
<1>4. QED BY <1>1, <1>2, <1>3 DEF Next

LEMMA Invariance == Spec => []IInv
BY InitIInv, NextIInv, PTL DEF Spec

------------------------------------------------------------------------------
(* The table, the promise and the flags keep their types.                  *)
THEOREM AreasTypeOK == Spec => []TypeOK
<1>1. IInv => TypeOK
  BY DEF IInv
<1>2. QED BY <1>1, Invariance, PTL

(* Until an area is removed by itself, the used slots are a prefix of the  *)
(* table without duplicates (actarea.c:21-47).                             *)
THEOREM AreasUsedFirst == Spec => []UsedSlotsFirst
<1>1. IInv => UsedSlotsFirst
  BY DEF IInv
<1>2. QED BY <1>1, Invariance, PTL

(* Also a script that removes areas one by one never gets a tag from an    *)
(* earlier page: every answer was given to a rectangle under the point.    *)
THEOREM AreasHitWasGiven == Spec => []HitWasGiven
<1>1. ASSUME IInv PROVE HitWasGiven
  <2> SUFFICES ASSUME NEW p \in Points, Retrieve(areas, p) # 0
               PROVE  \E r \in Rects : Covers(r, p) /\ <<r, Retrieve(areas, p)>> \in given
    BY DEF HitWasGiven
  <2>1. areas \in Tables
    BY <1>1 DEF IInv, TypeOK
  <2>2. PICK i \in Slots : Covers(areas[i].rect, p) /\ Retrieve(areas, p) = areas[i].tag
    BY <2>1, RetrieveProperty
  <2>3. QED BY <1>1, <2>2 DEF IInv, SlotsWereGiven
<1>2. QED BY <1>1, Invariance, PTL

(* The first slot over a point decides, so it matters that no free slot    *)
(* precedes a used one.                                                    *)
LEMMA IInvMeansMap == IInv => MapIsKept
<1> SUFFICES ASSUME IInv, ~holed, NEW p \in Points
             PROVE  /\ Retrieve(areas, p) # 0 =>
                         \E r \in Live : Covers(r, p) /\ declared[r] = Retrieve(areas, p)
                    /\ (\E r \in Live : Covers(r, p)) => Retrieve(areas, p) # 0
  BY DEF MapIsKept, AnswersAreLive, LiveAreasAnswer
<1>0. /\ areas \in Tables
      /\ \A i, j \in Slots : areas[j].tag # 0 /\ i < j => areas[i].tag # 0
      /\ \A i \in Slots : areas[i].tag # 0 =>
           areas[i].rect \in Rects /\ declared[areas[i].rect] = areas[i].tag
      /\ \A q \in Rects : declared[q] # 0 =>
           \E i \in Slots : areas[i].rect = q /\ areas[i].tag # 0
  BY DEF IInv, TypeOK, UsedSlotsFirst, TableIsDeclared, SlotsWereGiven
<1>1. CASE /\ \A i \in Slots : ~Covers(areas[i].rect, p)
           /\ Retrieve(areas, p) = 0
  <2>1. ASSUME NEW r \in Live, Covers(r, p) PROVE FALSE
    BY <1>0, <1>1, <2>1 DEF Live
  <2>2. QED BY <1>1, <2>1
<1>2. CASE \E i \in Slots :
             /\ Covers(areas[i].rect, p)
             /\ \A j \in Slots : j < i => ~Covers(areas[j].rect, p)
             /\ Retrieve(areas, p) = areas[i].tag
  <2>1. PICK i \in Slots :
             /\ Covers(areas[i].rect, p)
             /\ \A j \in Slots : j < i => ~Covers(areas[j].rect, p)
             /\ Retrieve(areas, p) = areas[i].tag
    BY <1>2
  <2>2. CASE areas[i].tag # 0
    BY <1>0, <2>1, <2>2 DEF Live
  <2>3. CASE areas[i].tag = 0
    <3>1. ASSUME NEW r \in Live, Covers(r, p) PROVE FALSE
      <4>1. PICK j \in Slots : areas[j].rect = r /\ areas[j].tag # 0
        BY <1>0 DEF Live
      <4>2. i < j
        BY <2>1, <2>3, <3>1, <4>1, SlotsAreNumbers
      <4>3. QED BY <1>0, <2>3, <4>1, <4>2
    <3>2. QED BY <2>1, <2>3, <3>1
  <2>4. QED BY <2>2, <2>3
<1>3. QED BY <1>0, <1>1, <1>2, RetrieveProperty

(* Until an area is removed by itself the hit test reports live areas with *)
(* their latest tags, and misses none (actarea.c:109-139).                 *)
THEOREM AreasMapIsKept == Spec => []MapIsKept
BY IInvMeansMap, Invariance, PTL

(* A table that refuses an area is full of different live rectangles.      *)
LEMMA FullMeansLive == IInv => RefusedOnlyWhenFull
<1> SUFFICES ASSUME IInv, ~holed, refused PROVE Cardinality(Live) >= MaxAreas
  BY DEF RefusedOnlyWhenFull
<1> DEFINE f == [i \in Slots |-> areas[i].rect]
<1>1. /\ \A i \in Slots : areas[i].tag # 0
      /\ \A i, j \in Slots : i < j => areas[i].rect # areas[j].rect
      /\ \A i \in Slots : areas[i].rect \in Rects /\ declared[areas[i].rect] = areas[i].tag
      /\ \A q \in Rects : declared[q] # 0 => \E i \in Slots : areas[i].rect = q
  BY DEF IInv, UsedSlotsFirst, TableIsDeclared, SlotsWereGiven
<1>2. f \in [Slots -> Live]
  BY <1>1 DEF Live
<1>3. \A q \in Live : \E i \in Slots : f[i] = q
  BY <1>1 DEF Live
<1>4. \A i, j \in Slots : f[i] = f[j] => i = j
  BY <1>1, SlotsAreNumbers
<1> HIDE DEF f
<1>5. f \in Bijection(Slots, Live)
  BY <1>2, <1>3, <1>4 DEF Bijection, Injection, Surjection, IsInjective
<1>6. IsFiniteSet(Slots) /\ Cardinality(Slots) = MaxAreas
  BY FS_Interval, MaxAreasAssumption DEF MaxAreasAssumption, Slots
<1>7. Cardinality(Live) = MaxAreas
  BY <1>5, <1>6, FS_Bijection DEF ExistsBijection
<1>8. QED BY <1>7, MaxAreasAssumption DEF MaxAreasAssumption

(* An area is refused only when MAX_AREAS areas are live (actarea.c:80-84). *)
THEOREM AreasRefusedWhenFull == Spec => []RefusedOnlyWhenFull
BY FullMeansLive, Invariance, PTL
==============================================================================
