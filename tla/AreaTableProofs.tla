--------------------------- MODULE AreaTableProofs ---------------------------
(* Facts about the operators of AreaTable, for every table size. *)
EXTENDS AreaTable, TLAPS, WellFoundedInduction

(* A nonempty set of naturals has the least element that Min denotes. *)
LEMMA MinProperty ==
  ASSUME NEW S, S \subseteq Nat, S # {}
  PROVE  /\ Min(S) \in S
         /\ \A y \in S : Min(S) <= y
<1>1. PICK x \in S : \A y \in S : ~(<<y, x>> \in OpToRel(<, Nat))
  BY NatLessThanWellFounded, WFMin
<1>2. ASSUME NEW y \in S PROVE ~(y < x)
  <2>1. y \in Nat /\ x \in Nat
    OBVIOUS
  <2>2. y < x => <<y, x>> \in OpToRel(<, Nat)
    BY <2>1, Zenon DEF OpToRel
  <2>3. QED BY <1>1, <2>2
<1>3. \A y \in S : x <= y
  BY <1>2
<1>4. QED BY <1>3 DEF Min

(* The slot that the scan of _add_area stops at (actarea.c:26-44). *)
LEMMA AddAreaSlot ==
  ASSUME NEW t \in Tables, NEW r, HasRoom(t, r)
  PROVE  /\ Min(Candidates(t, r)) \in Candidates(t, r)
         /\ Min(Candidates(t, r)) \in Slots
         /\ \A i \in Slots : i < Min(Candidates(t, r)) => i \notin Candidates(t, r)
<1>1. /\ Candidates(t, r) \subseteq Slots
      /\ \A i \in Slots : i \in Nat
  BY MaxAreasAssumption DEF MaxAreasAssumption, Candidates, Slots
<1>2. Candidates(t, r) # {} /\ Candidates(t, r) \subseteq Nat
  BY <1>1 DEF HasRoom
<1>3. /\ Min(Candidates(t, r)) \in Candidates(t, r)
      /\ \A y \in Candidates(t, r) : Min(Candidates(t, r)) <= y
  BY <1>2, MinProperty
<1>4. Min(Candidates(t, r)) \in Nat
  BY <1>2, <1>3
<1>5. ASSUME NEW i \in Slots, i < Min(Candidates(t, r)), i \in Candidates(t, r)
      PROVE  FALSE
  <2>1. Min(Candidates(t, r)) <= i /\ i \in Nat
    BY <1>1, <1>3, <1>5
  <2>2. QED BY <2>1, <1>4, <1>5
<1>6. QED BY <1>1, <1>3, <1>5

(* Defining an area keeps the table a table (actarea.c:21-47). *)
LEMMA AddAreaType ==
  ASSUME NEW t \in Tables, NEW r \in Rects, NEW g \in Tags \union {0}, HasRoom(t, r)
  PROVE  AddArea(t, r, g) \in Tables
BY AddAreaSlot DEF AddArea, Tables, Area

(* Zeroing the tags keeps the table a table (actarea.c:54-64). *)
LEMMA ClearAreasType ==
  ASSUME NEW t \in Tables
  PROVE  ClearAreas(t) \in Tables
BY DEF ClearAreas, Tables, Area

(* What the hit test answers (actarea.c:109-139). *)
LEMMA RetrieveProperty ==
  ASSUME NEW t \in Tables, NEW p
  PROVE  \/ /\ \A i \in Slots : ~Covers(t[i].rect, p)
            /\ Retrieve(t, p) = 0
         \/ \E i \in Slots :
              /\ Covers(t[i].rect, p)
              /\ \A j \in Slots : j < i => ~Covers(t[j].rect, p)
              /\ Retrieve(t, p) = t[i].tag
<1> DEFINE hits == {i \in Slots : Covers(t[i].rect, p)}
<1>1. CASE hits = {}
  BY <1>1 DEF Retrieve
<1>2. CASE hits # {}
  <2>1. /\ \A i \in Slots : i \in Nat
        /\ hits \subseteq Slots
    BY MaxAreasAssumption DEF MaxAreasAssumption, Slots
  <2>2. hits \subseteq Nat
    BY <2>1
  <2>3. Min(hits) \in hits /\ \A y \in hits : Min(hits) <= y
    BY <1>2, <2>2, MinProperty
  <2>4. Retrieve(t, p) = t[Min(hits)].tag
    BY <1>2 DEF Retrieve
  <2>5. ASSUME NEW j \in Slots, j < Min(hits), Covers(t[j].rect, p)
        PROVE  FALSE
    <3>1. j \in hits
      BY <2>5
    <3>2. Min(hits) <= j /\ j \in Nat /\ Min(hits) \in Nat
      BY <3>1, <2>1, <2>2, <2>3
    <3>3. QED BY <3>2, <2>5
  <2>6. Min(hits) \in Slots /\ Covers(t[Min(hits)].rect, p)
    BY <2>3
  <2>7. QED BY <2>4, <2>5, <2>6
<1>3. QED BY <1>1, <1>2
==============================================================================
