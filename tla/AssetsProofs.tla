---------------------------- MODULE AssetsProofs ----------------------------
(***************************************************************************)
(* For any archive, any number of slots and buffers, any platform and any  *)
(* size of its cache: what has been decrypted stays, every user keeps its  *)
(* slot, every reader is given its own file, and the uses of every block   *)
(* are counted.                                                            *)
(*                                                                         *)
(* There are two invariants.  AInv is about the slots and their users, and *)
(* takes the caches for granted: whatever handles they give out, it holds. *)
(* CInv is about the caches and the readers of their blocks (Counts) and   *)
(* what every entry of the table looks like (EntryOK).  The lemmas follow  *)
(* the calls: XmsCache, MappedCache, the functions on assets, the actions. *)
(***************************************************************************)
EXTENDS Assets, FiniteSetTheorems, WellFoundedInduction, TLAPS

------------------------------------------------------------------------------
(* What the functions on assets work on, as far as AInv is concerned: the  *)
(* values of the caches, and the handles they give out, may be anything.   *)
IsAsset(x) ==
  /\ x = [file |-> x.file, rdwr |-> x.rdwr, cached |-> x.cached, ref |-> x.ref]
  /\ x.file \in Files \union {NoFile} /\ x.rdwr \in BOOLEAN /\ x.cached \in BOOLEAN
IsTable(t) == t = [q \in Slots |-> t[q]] /\ \A q \in Slots : IsAsset(t[q])
IsAssets(a) ==
  /\ a = [table |-> a.table, readable |-> a.readable, heap |-> a.heap,
          xms |-> a.xms, mapped |-> a.mapped, spoilt |-> a.spoilt]
  /\ IsTable(a.table) /\ a.spoilt \in BOOLEAN

(* What is loaded into a slot that will be written to stays as it is, and  *)
(* the slots other than s do.                                              *)
Pinned(x) == x.rdwr /\ x.ref # 0 /\ x.file # NoFile
OnlyAt(a, b, s) ==
  /\ IsAssets(b)
  /\ a.spoilt => b.spoilt
  /\ \A q \in Slots : q # s \/ (Pinned(a.table[q]) /\ a.table[q].file \in Sealed) => b.table[q] = a.table[q]

LEMMA SlotsAreNumbers == Slots \subseteq Nat /\ NoSlot \notin Slots
BY BoundsAssumption DEF Slots, NoSlot

LEMMA DiscardKeeps ==
  ASSUME NEW a, IsAssets(a), NEW h
  PROVE  /\ IsAssets(Discarded(a, h))
         /\ Discarded(a, h).table = a.table /\ Discarded(a, h).spoilt = a.spoilt
<1>1. CASE platform = "xms"
  <2> DEFINE x == Xms!DiscardXms(a.xms, h)
  <2>1. Discarded(a, h) = [a EXCEPT !.xms = x]
    BY <1>1 DEF Discarded
  <2> HIDE DEF x
  <2> QED BY <2>1 DEF IsAssets
<1>2. CASE platform = "far"
  <2> DEFINE x == Xms!DiscardFar(a.xms, h)
  <2>1. Discarded(a, h) = [a EXCEPT !.xms = x]
    BY <1>2 DEF Discarded
  <2> HIDE DEF x
  <2> QED BY <2>1 DEF IsAssets
<1>3. CASE platform \notin {"xms", "far"}
  <2> DEFINE m == Mapped!DiscardMapped(a.mapped, h, platform = "windows", release)
  <2>1. Discarded(a, h) = [a EXCEPT !.mapped = m]
    BY <1>3 DEF Discarded
  <2> HIDE DEF m
  <2> QED BY <2>1 DEF IsAssets
<1> QED BY <1>1, <1>2, <1>3

LEMMA AssetFields ==
  ASSUME NEW x, IsAsset(x)
  PROVE  /\ \A f \in Files \union {NoFile} :
              /\ IsAsset([x EXCEPT !.file = f]) /\ [x EXCEPT !.file = f].file = f
              /\ [x EXCEPT !.file = f].rdwr = x.rdwr
         /\ \A r : /\ IsAsset([x EXCEPT !.ref = r]) /\ [x EXCEPT !.ref = r].ref = r
                   /\ [x EXCEPT !.ref = r].file = x.file
                   /\ [x EXCEPT !.ref = r].rdwr = x.rdwr
                   /\ [x EXCEPT !.ref = r].cached = x.cached
BY DEF IsAsset

LEMMA CachedFields ==
  ASSUME NEW x, IsAsset(x), NEW v \in BOOLEAN
  PROVE  /\ IsAsset([x EXCEPT !.cached = v]) /\ [x EXCEPT !.cached = v].file = x.file
         /\ [x EXCEPT !.cached = v].rdwr = x.rdwr
BY DEF IsAsset

LEMMA EntryIsAsset ==
  ASSUME NEW a, IsAssets(a), NEW s \in Slots PROVE IsAsset(a.table[s])
BY DEF IsAssets, IsTable

(* One slot is given another value, or one of its fields is.               *)
Put(a, s, x) == [a EXCEPT !.table = [@ EXCEPT ![s] = x]]

LEMMA SlotChanges ==
  ASSUME NEW a, IsAssets(a), NEW s \in Slots, NEW x, IsAsset(x)
  PROVE  /\ IsAssets(Put(a, s, x)) /\ Put(a, s, x).spoilt = a.spoilt
         /\ Put(a, s, x).table[s] = x
         /\ \A q \in Slots : q # s => Put(a, s, x).table[q] = a.table[q]
<1> DEFINE b == Put(a, s, x)
           t == [a.table EXCEPT ![s] = x]
<1>1. IsTable(t) /\ t[s] = x /\ \A q \in Slots : q # s => t[q] = a.table[q]
  BY DEF IsAssets, IsTable
<1>2. b = [a EXCEPT !.table = t]
  BY DEF Put
<1> HIDE DEF b, t
<1>3. b = [table |-> t, readable |-> a.readable, heap |-> a.heap,
           xms |-> a.xms, mapped |-> a.mapped, spoilt |-> a.spoilt]
  BY <1>2 DEF IsAssets
<1>4. b.table = t /\ b.spoilt = a.spoilt
  BY <1>3
<1>5. IsAssets(b)
  BY <1>1, <1>3 DEF IsAssets
<1> QED BY <1>1, <1>4, <1>5 DEF b

(* pal_close_asset() touches its own slot only, and not what is writable.  *)
LEMMA ClosedKeeps ==
  ASSUME NEW a, IsAssets(a), NEW s \in Slots \union {NoSlot}
  PROVE  /\ OnlyAt(a, Closed(a, s), s)
         /\ Closed(a, s).spoilt = a.spoilt
         /\ s \in Slots => Closed(a, s).table[s].file = NoFile \/ (Closed(a, s) = a /\ a.table[s].rdwr)
         /\ s \in Slots => Closed(a, s).table[s].file \in {NoFile, a.table[s].file}
         /\ s = NoSlot => Closed(a, s) = a
<1>1. CASE s = NoSlot \/ ~Released(a, s)
  <2>1. Closed(a, s) = a
    BY <1>1 DEF Closed
  <2>2. s \in Slots => a.table[s].file = NoFile \/ a.table[s].rdwr
    BY <1>1, SlotsAreNumbers DEF Released
  <2> QED BY <2>1, <2>2 DEF OnlyAt
<1>2. CASE s # NoSlot /\ Released(a, s)
  <2> DEFINE b == [a EXCEPT !.table[s].file = NoFile]
             d == Discarded(b, a.table[s].ref)
             c == [d EXCEPT !.table[s].ref = 0]
  <2>0. s \in Slots /\ ~a.table[s].rdwr
    BY <1>2 DEF Released
  <2>1. /\ IsAssets(b) /\ b.spoilt = a.spoilt /\ b.table[s].file = NoFile
        /\ \A q \in Slots : q # s => b.table[q] = a.table[q]
    <3> DEFINE x == [a.table[s] EXCEPT !.file = NoFile]
    <3>1. IsAsset(x) /\ x.file = NoFile
      BY <2>0, EntryIsAsset, AssetFields
    <3>2. b = Put(a, s, x)
      BY DEF Put
    <3> HIDE DEF b, x
    <3>3. /\ IsAssets(b) /\ b.spoilt = a.spoilt /\ b.table[s] = x
          /\ \A q \in Slots : q # s => b.table[q] = a.table[q]
      BY <2>0, <3>1, <3>2, SlotChanges
    <3> QED BY <3>1, <3>3
  <2>2. IsAssets(d) /\ d.table = b.table /\ d.spoilt = b.spoilt
    BY <2>1, DiscardKeeps
  <2>3. /\ IsAssets(c) /\ c.spoilt = a.spoilt /\ c.table[s].file = NoFile
        /\ \A q \in Slots : q # s => c.table[q] = a.table[q]
    <3> HIDE DEF b, d
    <3> DEFINE x == [d.table[s] EXCEPT !.ref = 0]
    <3>1. IsAsset(x) /\ x.file = NoFile
      BY <2>0, <2>1, <2>2, EntryIsAsset, AssetFields
    <3>2. c = Put(d, s, x)
      BY DEF Put
    <3> HIDE DEF c, x
    <3>3. /\ IsAssets(c) /\ c.spoilt = d.spoilt /\ c.table[s] = x
          /\ \A q \in Slots : q # s => c.table[q] = d.table[q]
      BY <2>0, <2>2, <3>1, <3>2, SlotChanges
    <3> QED BY <2>1, <2>2, <3>1, <3>3
  <2>4. Closed(a, s) = b \/ Closed(a, s) = c
    BY <1>2 DEF Closed
  <2> HIDE DEF b, c, d
  <2> QED BY <2>0, <2>1, <2>3, <2>4, SlotsAreNumbers DEF OnlyAt, Pinned
<1> QED BY <1>1, <1>2

(* The rest of the assets may change, the table stays.                     *)
SameTable(a, b) == IsAssets(b) /\ b.table = a.table /\ (a.spoilt => b.spoilt)

LEMMA FieldsKeep ==
  ASSUME NEW a, IsAssets(a), NEW v
  PROVE  /\ SameTable(a, [a EXCEPT !.xms = v]) /\ [a EXCEPT !.xms = v].spoilt = a.spoilt
         /\ SameTable(a, [a EXCEPT !.mapped = v]) /\ [a EXCEPT !.mapped = v].spoilt = a.spoilt
         /\ v \in BOOLEAN => /\ IsAssets([a EXCEPT !.spoilt = v])
                             /\ [a EXCEPT !.spoilt = v].table = a.table
                             /\ [a EXCEPT !.spoilt = v].spoilt = v
<1>1. IsAssets([a EXCEPT !.xms = v]) /\ [a EXCEPT !.xms = v].table = a.table
      /\ [a EXCEPT !.xms = v].spoilt = a.spoilt
  BY DEF IsAssets
<1>2. IsAssets([a EXCEPT !.mapped = v]) /\ [a EXCEPT !.mapped = v].table = a.table
      /\ [a EXCEPT !.mapped = v].spoilt = a.spoilt
  BY DEF IsAssets
<1>3. ASSUME v \in BOOLEAN
      PROVE  /\ IsAssets([a EXCEPT !.spoilt = v]) /\ [a EXCEPT !.spoilt = v].table = a.table
             /\ [a EXCEPT !.spoilt = v].spoilt = v
  BY <1>3 DEF IsAssets
<1> QED BY <1>1, <1>2, <1>3 DEF SameTable

LEMMA LostKeeps ==
  ASSUME NEW a, IsAssets(a) PROVE SameTable(a, Lost(a)) /\ Lost(a).spoilt = a.spoilt
<1>1. Lost(a) = [a EXCEPT !.readable = FALSE]
  BY DEF Lost
<1>2. IsAssets(Lost(a)) /\ Lost(a).table = a.table /\ Lost(a).spoilt = a.spoilt
  BY <1>1 DEF IsAssets
<1> QED BY <1>2 DEF SameTable

LEMMA LeastNumber ==
  ASSUME NEW S, S \subseteq Nat, S # {}
  PROVE  \E x \in S : \A y \in S : x <= y
<1>1. PICK x \in S : \A y \in S : ~(<<y, x>> \in OpToRel(<, Nat))
  BY NatLessThanWellFounded, WFMin
<1>2. ASSUME NEW y \in S PROVE x <= y
  <2>1. y \in Nat /\ x \in Nat
    OBVIOUS
  <2>2. y < x => <<y, x>> \in OpToRel(<, Nat)
    BY <2>1, Zenon DEF OpToRel
  <2>3. ~(y < x)
    BY <1>1, <2>2
  <2> QED BY <2>1, <2>3
<1> QED BY <1>2

LEMMA LeastSlot == ASSUME NEW S, S \subseteq Slots, S # {} PROVE Min(S) \in S
<1>1. \E x \in S : \A y \in S : x <= y
  BY SlotsAreNumbers, LeastNumber
<1> QED BY <1>1 DEF Min

LEMMA OpenSlotIs ==
  ASSUME NEW a, IsAssets(a), NEW f \in Files
  PROVE  /\ OpenSlot(a, f) \in Slots \union {NoSlot}
         /\ OpenSlot(a, f) \in Slots => a.table[OpenSlot(a, f)].file \in {f, NoFile}
<1>1. CASE MatchedSlots(a, f) = {}
  BY <1>1, SlotsAreNumbers DEF OpenSlot
<1>2. CASE MatchedSlots(a, f) # {}
  <2>1. OpenSlot(a, f) \in MatchedSlots(a, f)
    BY <1>2, LeastSlot DEF OpenSlot, MatchedSlots
  <2> QED BY <2>1 DEF MatchedSlots
<1> QED BY <1>1, <1>2

(* pal_open_asset() takes a slot that is free or has the file already.     *)
LEMMA OpenedKeeps ==
  ASSUME NEW a, IsAssets(a), NEW f \in Files, NEW w \in BOOLEAN
  PROVE  LET s == OpenSlot(a, f)
             b == Opened(a, f, w)
         IN  /\ OnlyAt(a, b, s) /\ b.spoilt = a.spoilt
             /\ s = NoSlot => b = a
             /\ s \in Slots =>
                  /\ b.table[s].file = f /\ (w => b.table[s].rdwr)
                  /\ a.table[s].file = f => /\ b.table[s].ref = a.table[s].ref
                                            /\ b.table[s].cached = a.table[s].cached
                                            /\ a.table[s].rdwr => b.table[s].rdwr
<1> DEFINE s == OpenSlot(a, f)
           b == Opened(a, f, w)
<1>0. s \in Slots \union {NoSlot} /\ (s \in Slots => a.table[s].file \in {f, NoFile})
  BY OpenSlotIs
<1>1. CASE s = NoSlot
  <2>1. b = a
    BY <1>1 DEF Opened
  <2> QED BY <1>1, <2>1, SlotsAreNumbers DEF OnlyAt
<1>2. CASE s \in Slots /\ a.table[s].file = f
  <2> DEFINE x == [a.table[s] EXCEPT !.rdwr = @ \/ w]
  <2>1. IsAsset(a.table[s])
    BY <1>2, EntryIsAsset
  <2>2. /\ IsAsset(x) /\ x.file = f /\ (w => x.rdwr) /\ (a.table[s].rdwr => x = a.table[s])
        /\ x.ref = a.table[s].ref /\ x.cached = a.table[s].cached
        /\ (a.table[s].rdwr => x.rdwr)
    BY <1>2, <2>1 DEF IsAsset
  <2>3. b = Put(a, s, x)
    BY <1>2, SlotsAreNumbers DEF Put, Opened
  <2> HIDE DEF b, s, x
  <2>4. /\ IsAssets(b) /\ b.spoilt = a.spoilt /\ b.table[s] = x
        /\ \A q \in Slots : q # s => b.table[q] = a.table[q]
    BY <1>2, <2>2, <2>3, SlotChanges
  <2>5. OnlyAt(a, b, s)
    BY <2>2, <2>4 DEF OnlyAt, Pinned
  <2>6. s # NoSlot
    BY <1>2, SlotsAreNumbers
  <2>7. b.table[s].file = f /\ (w => b.table[s].rdwr)
    BY <2>2, <2>4
  <2>8. /\ b.table[s].ref = a.table[s].ref /\ b.table[s].cached = a.table[s].cached
        /\ (a.table[s].rdwr => b.table[s].rdwr)
    BY <2>2, <2>4
  <2> QED BY <2>4, <2>5, <2>6, <2>7, <2>8 DEF s, b
<1>3. CASE s \in Slots /\ a.table[s].file # f
  <2> DEFINE x == [FreeAsset EXCEPT !.file = f, !.rdwr = w]
  <2>1. a.table[s].file = NoFile /\ f # NoFile
    BY <1>0, <1>3
  <2>2. IsAsset(x) /\ x.file = f /\ (w => x.rdwr)
    <3>1. IsAsset(FreeAsset)
      BY DEF FreeAsset, IsAsset
    <3> DEFINE y == [FreeAsset EXCEPT !.file = f]
    <3>2. IsAsset(y) /\ y.file = f
      BY <3>1, AssetFields
    <3>3. x = [y EXCEPT !.rdwr = w]
      OBVIOUS
    <3> HIDE DEF x, y
    <3> QED BY <3>2, <3>3 DEF IsAsset
  <2>3. b = Put(a, s, x)
    BY <1>3, SlotsAreNumbers DEF Put, Opened
  <2> HIDE DEF b, s, x
  <2>4. /\ IsAssets(b) /\ b.spoilt = a.spoilt /\ b.table[s] = x
        /\ \A q \in Slots : q # s => b.table[q] = a.table[q]
    BY <1>3, <2>2, <2>3, SlotChanges
  <2>5. OnlyAt(a, b, s)
    BY <2>1, <2>4 DEF OnlyAt, Pinned
  <2>6. s # NoSlot
    BY <1>3, SlotsAreNumbers
  <2>7. b.table[s].file = f /\ (w => b.table[s].rdwr)
    BY <2>2, <2>4
  <2> QED BY <1>3, <2>4, <2>5, <2>6, <2>7 DEF s, b
<1> QED BY <1>0, <1>1, <1>2, <1>3

(* pal_load_asset() gives what is loaded already.                          *)
LEMMA LoadsKeep ==
  ASSUME NEW a, IsAssets(a), NEW s \in Slots, NEW o \in Loads(a, s)
  PROVE  /\ OnlyAt(a, o[1], s) /\ o[1].spoilt = a.spoilt
         /\ o[1].table[s].file = a.table[s].file /\ o[1].table[s].rdwr = a.table[s].rdwr
         /\ o[2] # 0 => /\ o[1].table[s].ref = o[2] /\ ~o[1].table[s].cached
         /\ a.table[s].file # NoFile /\ a.table[s].ref # 0 /\ ~a.table[s].cached => o[2] # 0
<1>1. CASE o = <<a, 0>> /\ (a.table[s].file = NoFile \/ a.table[s].cached \/ a.table[s].ref = 0)
  BY <1>1 DEF OnlyAt
<1>2. CASE o = <<a, a.table[s].ref>> /\ ~a.table[s].cached /\ a.table[s].ref # 0
  BY <1>2 DEF OnlyAt
<1>3. CASE o = <<Lost(a), 0>> /\ a.table[s].ref = 0
  BY <1>3, LostKeeps DEF OnlyAt, SameTable
<1>4. CASE ~a.table[s].cached /\ a.table[s].ref = 0
           /\ \E b \in Allocated(a) :
                o = <<[a EXCEPT !.table[s].ref = b, !.heap = @ \union {b}], b>>
  <2> PICK b \in Allocated(a) : o = <<[a EXCEPT !.table[s].ref = b, !.heap = @ \union {b}], b>>
    BY <1>4
  <2> DEFINE x == [a.table[s] EXCEPT !.ref = b]
             p == Put(a, s, x)
             h == p.heap \union {b}
             c == [p EXCEPT !.heap = h]
  <2>1. /\ IsAsset(x) /\ x.file = a.table[s].file /\ x.rdwr = a.table[s].rdwr
        /\ x.cached = a.table[s].cached /\ x.ref = b
    BY EntryIsAsset, AssetFields
  <2>2. o[1] = c /\ o[2] = b
    <3>1. p.heap = a.heap
      BY DEF Put, IsAssets
    <3>2. o[1] = [p EXCEPT !.heap = a.heap \union {b}]
      BY DEF Put, IsAssets
    <3> QED BY <3>1, <3>2
  <2> HIDE DEF x
  <2>3. /\ IsAssets(p) /\ p.spoilt = a.spoilt /\ p.table[s] = x
        /\ \A q \in Slots : q # s => p.table[q] = a.table[q]
    BY <2>1, SlotChanges
  <2> HIDE DEF p, h
  <2>4. IsAssets(c) /\ c.table = p.table /\ c.spoilt = p.spoilt
    BY <2>3 DEF IsAssets
  <2> HIDE DEF c
  <2>5. OnlyAt(a, c, s)
    BY <1>4, <2>3, <2>4 DEF OnlyAt, Pinned
  <2> QED BY <1>4, <2>1, <2>2, <2>3, <2>4, <2>5
<1> QED BY <1>1, <1>2, <1>3, <1>4 DEF Loads, LoadsData

(* zip_cache() leaves the table alone, whatever the cache does.            *)
LEMMA CachesKeep ==
  ASSUME NEW a, IsAssets(a), NEW f, NEW o \in Caches(a, f)
  PROVE  SameTable(a, o[1])
<1> DEFINE lost == [Lost(a) EXCEPT !.spoilt = TRUE]
<1>1. IsAssets(lost) /\ lost.table = a.table /\ lost.spoilt = TRUE
  <2>1. IsAssets(Lost(a)) /\ Lost(a).table = a.table
    BY LostKeeps DEF SameTable
  <2>2. TRUE \in BOOLEAN
    OBVIOUS
  <2> QED BY <2>1, <2>2, FieldsKeep
<1>2. ASSUME NEW x PROVE SameTable(a, [lost EXCEPT !.xms = x])
  <2> HIDE DEF lost
  <2>1. IsAssets(lost)
    BY <1>1
  <2>2. SameTable(lost, [lost EXCEPT !.xms = x])
    BY <2>1, FieldsKeep, Zenon
  <2>3. [lost EXCEPT !.xms = x].spoilt = lost.spoilt
    BY <2>1, FieldsKeep, Zenon
  <2> QED BY <1>1, <2>2, <2>3 DEF SameTable
<1>3. ASSUME NEW x, NEW more PROVE SameTable(a, [a EXCEPT !.xms = x, !.spoilt = @ \/ more])
  <2> DEFINE b == [a EXCEPT !.xms = x]
             both == b.spoilt \/ more
             c == [b EXCEPT !.spoilt = both]
  <2>1. SameTable(a, b) /\ b.spoilt = a.spoilt
    BY FieldsKeep
  <2> HIDE DEF b
  <2>2. both \in BOOLEAN
    OBVIOUS
  <2>3. a.spoilt => both
    BY <2>1
  <2> HIDE DEF both
  <2>4. IsAssets(c) /\ c.table = b.table /\ c.spoilt = both
    BY <2>1, <2>2, FieldsKeep DEF SameTable
  <2>5. [a EXCEPT !.xms = x, !.spoilt = @ \/ more] = c
    BY DEF b, both
  <2> HIDE DEF c
  <2> QED BY <2>1, <2>3, <2>4, <2>5 DEF SameTable
<1>4. ASSUME NEW m PROVE SameTable(a, [a EXCEPT !.mapped = m])
  BY FieldsKeep
<1>5. SameTable(a, lost)
  BY <1>1 DEF SameTable
<1>11. ASSUME NEW m PROVE SameTable(a, [lost EXCEPT !.mapped = m])
  <2> HIDE DEF lost
  <2>1. SameTable(lost, [lost EXCEPT !.mapped = m])
    BY <1>1, FieldsKeep, Zenon
  <2>2. [lost EXCEPT !.mapped = m].spoilt = lost.spoilt
    BY <1>1, FieldsKeep, Zenon
  <2> QED BY <1>1, <2>1, <2>2 DEF SameTable
<1>6. \/ o[1] = lost
      \/ \E x : o[1] = [lost EXCEPT !.xms = x]
      \/ \E x, more : o[1] = [a EXCEPT !.xms = x, !.spoilt = @ \/ more]
      \/ \E m : o[1] = [a EXCEPT !.mapped = m]
      \/ \E m : o[1] = [lost EXCEPT !.mapped = m]
  <2>1. CASE IsDos
    <3> DEFINE X == XmsCalls(a.xms, NoFile, FALSE)
               Y == IF a.readable THEN XmsCalls(a.xms, f, TRUE) ELSE {}
    <3>1. \/ o \in {<<[lost EXCEPT !.xms = c.xms], 0>> : c \in X}
          \/ o \in {<<[a EXCEPT !.xms = c.xms, !.spoilt = @ \/ c.spoilt], c.handle>> : c \in Y}
      BY <2>1 DEF Caches
    <3> HIDE DEF lost, X, Y
    <3>2. CASE o \in {<<[lost EXCEPT !.xms = c.xms], 0>> : c \in X}
      <4> PICK c \in X : o = <<[lost EXCEPT !.xms = c.xms], 0>>
        BY <3>2
      <4> QED OBVIOUS
    <3>3. CASE o \in {<<[a EXCEPT !.xms = c.xms, !.spoilt = @ \/ c.spoilt], c.handle>> : c \in Y}
      <4> PICK c \in Y : o = <<[a EXCEPT !.xms = c.xms, !.spoilt = @ \/ c.spoilt], c.handle>>
        BY <3>3
      <4> QED OBVIOUS
    <3> QED BY <3>1, <3>2, <3>3
  <2>2. CASE ~IsDos
    <3> DEFINE Y == IF a.readable
                    THEN Mapped!CacheMapped(a.mapped, f, TRUE, platform = "windows") ELSE {}
               W == IF StillMapped(a)
                    THEN Mapped!CacheMapped(a.mapped, Root, TRUE, platform = "windows") ELSE {}
    <3>1. \/ o = <<lost, 0>>
          \/ o \in {<<[lost EXCEPT !.mapped = c[1]], c[2]>> : c \in W}
          \/ o \in {<<[a EXCEPT !.mapped = c[1]], c[2]>> : c \in Y}
      BY <2>2 DEF Caches
    <3> HIDE DEF lost, Y, W
    <3>4. CASE o \in {<<[lost EXCEPT !.mapped = c[1]], c[2]>> : c \in W}
      <4> PICK c \in W : o = <<[lost EXCEPT !.mapped = c[1]], c[2]>>
        BY <3>4
      <4> QED OBVIOUS
    <3>2. CASE o = <<lost, 0>>
      BY <3>2
    <3>3. CASE o \in {<<[a EXCEPT !.mapped = c[1]], c[2]>> : c \in Y}
      <4> PICK c \in Y : o = <<[a EXCEPT !.mapped = c[1]], c[2]>>
        BY <3>3
      <4> QED OBVIOUS
    <3> QED BY <3>1, <3>2, <3>3, <3>4
  <2> QED BY <2>1, <2>2
<1>7. CASE o[1] = lost
  BY <1>5, <1>7
<1>8. CASE \E x : o[1] = [lost EXCEPT !.xms = x]
  <2> PICK x : o[1] = [lost EXCEPT !.xms = x]
    BY <1>8
  <2> QED BY <1>2
<1>9. CASE \E x, more : o[1] = [a EXCEPT !.xms = x, !.spoilt = @ \/ more]
  <2> PICK x, more : o[1] = [a EXCEPT !.xms = x, !.spoilt = @ \/ more]
    BY <1>9
  <2> QED BY <1>3
<1>10. CASE \E m : o[1] = [a EXCEPT !.mapped = m]
  <2> PICK m : o[1] = [a EXCEPT !.mapped = m]
    BY <1>10
  <2> QED BY <1>4
<1>12. CASE \E m : o[1] = [lost EXCEPT !.mapped = m]
  <2> PICK m : o[1] = [lost EXCEPT !.mapped = m]
    BY <1>12
  <2> QED BY <1>11
<1> HIDE DEF lost
<1> QED BY <1>6, <1>7, <1>8, <1>9, <1>10, <1>12

(* pal_read_asset() does not touch what is writable, and spoils what is    *)
(* loaded.                                                                 *)
LEMMA ReadsKeep ==
  ASSUME NEW a, IsAssets(a), NEW s \in Slots, NEW o \in Reads(a, s)
  PROVE  /\ OnlyAt(a, o[1], s)
         /\ o[1].table[s].file = a.table[s].file /\ o[1].table[s].rdwr = a.table[s].rdwr
         /\ a.table[s].rdwr => o[1] = a
         /\ a.table[s].file # NoFile /\ ~a.table[s].rdwr /\ a.table[s].ref # 0
              /\ ~a.table[s].cached => o[1].spoilt
<1>0. IsAsset(a.table[s])
  BY EntryIsAsset
<1>1. CASE a.table[s].file = NoFile \/ a.table[s].rdwr
  <2>1. o = <<a, FALSE>>
    BY <1>1 DEF Reads
  <2> QED BY <1>1, <2>1 DEF OnlyAt
<1>2. CASE a.table[s].file # NoFile /\ ~a.table[s].rdwr /\ a.table[s].ref # 0
  <2> DEFINE e == a.table[s]
             x == [e EXCEPT !.cached = TRUE]
             b == Put(a, s, x)
             more == b.spoilt \/ ~a.table[s].cached
  <2>1. IsAsset(x) /\ x.file = a.table[s].file /\ x.rdwr = a.table[s].rdwr
    <3>1. TRUE \in BOOLEAN
      OBVIOUS
    <3>0. IsAsset(e)
      BY <1>0
    <3> HIDE DEF e
    <3>2. IsAsset(x) /\ x.file = e.file /\ x.rdwr = e.rdwr
      BY <3>0, <3>1, CachedFields
    <3> QED BY <3>2 DEF e
  <2>2. o[1] = [b EXCEPT !.spoilt = more]
    <3>1. o = <<[a EXCEPT !.table[s].cached = TRUE, !.spoilt = @ \/ ~a.table[s].cached], TRUE>>
      BY <1>2 DEF Reads
    <3>2. [a EXCEPT !.table[s].cached = TRUE, !.spoilt = @ \/ ~a.table[s].cached]
            = [b EXCEPT !.spoilt = more]
      BY DEF Put
    <3> HIDE DEF b, more
    <3> QED BY <3>1, <3>2
  <2> HIDE DEF x
  <2>3. /\ IsAssets(b) /\ b.spoilt = a.spoilt /\ b.table[s] = x
        /\ \A q \in Slots : q # s => b.table[q] = a.table[q]
    BY <2>1, SlotChanges
  <2> HIDE DEF b
  <2>4. more \in BOOLEAN
    OBVIOUS
  <2>5. (a.spoilt => more) /\ (~a.table[s].cached => more)
    BY <2>3
  <2> HIDE DEF more
  <2>6. IsAssets(o[1]) /\ o[1].table = b.table /\ o[1].spoilt = more
    <3> DEFINE c == [b EXCEPT !.spoilt = more]
    <3>1. IsAssets(c) /\ c.table = b.table /\ c.spoilt = more
      BY <2>3, <2>4, FieldsKeep
    <3> HIDE DEF c
    <3>2. o[1] = c
      BY <2>2 DEF c
    <3> QED BY <3>1, <3>2
  <2>7. OnlyAt(a, o[1], s)
    BY <1>2, <2>3, <2>5, <2>6 DEF OnlyAt, Pinned
  <2> QED BY <1>2, <2>1, <2>3, <2>5, <2>6, <2>7
<1>3. CASE a.table[s].file # NoFile /\ ~a.table[s].rdwr /\ a.table[s].ref = 0
  <2>1. PICK c \in Caches(a, a.table[s].file) :
          o = IF c[2] = 0 THEN <<c[1], FALSE>>
              ELSE <<[c[1] EXCEPT !.table[s].ref = c[2], !.table[s].cached = TRUE], TRUE>>
    <3> DEFINE C == Caches(a, a.table[s].file)
    <3>1. o \in {IF c[2] = 0 THEN <<c[1], FALSE>>
                 ELSE <<[c[1] EXCEPT !.table[s].ref = c[2], !.table[s].cached = TRUE], TRUE>>
                   : c \in C}
      BY <1>3 DEF Reads
    <3> HIDE DEF C
    <3>2. \E c \in C :
            o = IF c[2] = 0 THEN <<c[1], FALSE>>
                ELSE <<[c[1] EXCEPT !.table[s].ref = c[2], !.table[s].cached = TRUE], TRUE>>
      BY <3>1, Zenon
    <3> QED BY <3>2, Zenon DEF C
  <2> DEFINE d == c[1]
  <2>2. SameTable(a, d)
    BY CachesKeep
  <2>3. CASE c[2] = 0
    <3>1. o[1] = d
      BY <2>1, <2>3
    <3> QED BY <1>3, <2>2, <3>1 DEF SameTable, OnlyAt
  <2>4. CASE c[2] # 0
    <3> DEFINE y == [d.table[s] EXCEPT !.ref = c[2]]
               x == [y EXCEPT !.cached = TRUE]
               b == Put(d, s, x)
    <3>1. o[1] = [d EXCEPT !.table[s].ref = c[2], !.table[s].cached = TRUE]
      BY <2>1, <2>4
    <3> HIDE DEF d
    <3>2. IsAssets(d) /\ IsAsset(d.table[s])
      BY <2>2, EntryIsAsset DEF SameTable
    <3>3. IsAsset(y) /\ y.file = d.table[s].file /\ y.rdwr = d.table[s].rdwr
      BY <3>2, AssetFields
    <3>4. o[1] = b
      BY <3>1, <3>2 DEF Put, IsAssets, IsTable
    <3> HIDE DEF y
    <3>5. IsAsset(x) /\ x.file = y.file /\ x.rdwr = y.rdwr
      <4>1. TRUE \in BOOLEAN
        OBVIOUS
      <4> QED BY <3>3, <4>1, CachedFields
    <3> HIDE DEF x
    <3>6. /\ IsAssets(b) /\ b.spoilt = d.spoilt /\ b.table[s] = x
          /\ \A q \in Slots : q # s => b.table[q] = d.table[q]
      BY <3>2, <3>5, SlotChanges
    <3> HIDE DEF b
    <3>7. OnlyAt(a, b, s)
      BY <1>3, <2>2, <3>6 DEF OnlyAt, Pinned, SameTable
    <3> QED BY <1>3, <2>2, <3>3, <3>4, <3>5, <3>6, <3>7 DEF SameTable
  <2> QED BY <2>3, <2>4
<1> QED BY <1>1, <1>2, <1>3

------------------------------------------------------------------------------
(* The search for a bitmap is a function of how many choices it has seen.  *)
IsSearch(g, p, m) ==
  g = [n \in 0 .. m |-> IF n = 0 THEN Unfound ELSE Better(g[n - 1], p[n])]

LEMMA SearchExists == ASSUME NEW p, NEW m \in Nat PROVE \E g : IsSearch(g, p, m)
<1> DEFINE Bad == {n \in Nat : ~\E g : IsSearch(g, p, n)}
<1> SUFFICES ASSUME m \in Bad PROVE FALSE
  OBVIOUS
<1>1. PICK n \in Bad : \A k \in Bad : n <= k
  BY LeastNumber
<1>2. n # 0
  <2> DEFINE g == [k \in 0 .. 0 |-> Unfound]
  <2>1. IsSearch(g, p, 0)
    BY DEF IsSearch
  <2> QED BY <2>1, <1>1
<1>3. n - 1 \in Nat /\ n - 1 \notin Bad
  BY <1>1, <1>2
<1>4. PICK g : IsSearch(g, p, n - 1)
  BY <1>3
<1> DEFINE h == [k \in 0 .. n |-> IF k = n THEN Better(g[n - 1], p[n]) ELSE g[k]]
<1>5. \A k \in 0 .. n - 1 : h[k] = g[k]
  BY <1>3
<1>6. \A k \in 0 .. n : h[k] = IF k = 0 THEN Unfound ELSE Better(h[k - 1], p[k])
  <2> SUFFICES ASSUME NEW k \in 0 .. n
               PROVE  h[k] = IF k = 0 THEN Unfound ELSE Better(h[k - 1], p[k])
    OBVIOUS
  <2>1. CASE k = n
    <3>1. h[k] = Better(g[n - 1], p[n])
      BY <2>1, <1>3
    <3>2. h[n - 1] = g[n - 1]
      BY <1>3, <1>5
    <3> QED BY <2>1, <1>2, <3>1, <3>2
  <2>2. CASE k # n
    <3>1. k \in 0 .. n - 1 /\ h[k] = g[k]
      BY <2>2, <1>3, <1>5
    <3>2. g[k] = IF k = 0 THEN Unfound ELSE Better(g[k - 1], p[k])
      BY <1>4, <3>1 DEF IsSearch
    <3>3. k # 0 => h[k - 1] = g[k - 1]
      BY <1>3, <1>5, <3>1
    <3> HIDE DEF h
    <3> QED BY <3>1, <3>2, <3>3
  <2> QED BY <2>1, <2>2
<1>7. IsSearch(h, p, n)
  <2>1. h = [k \in 0 .. n |-> h[k]]
    OBVIOUS
  <2> HIDE DEF h
  <2> QED BY <1>6, <2>1, Zenon DEF IsSearch
<1> QED BY <1>1, <1>7

(* What has been found so far is open, and what was found before is closed.*)
GoodSearch(r, p, m) ==
  /\ IsAssets(r.assets) /\ r.assets.spoilt = spoilt
  /\ r.slot \in Slots \union {NoSlot}
  /\ r.slot \in Slots => /\ r.assets.table[r.slot].file = r.file
                         /\ \E k \in 1 .. m : r.file = p[k]
  /\ \A q \in Slots : table[q].file \notin Pictures \union {NoFile}
                        => r.assets.table[q] = table[q]
  /\ \A q \in Slots \ {r.slot} : \/ r.assets.table[q] = table[q]
                                 \/ r.assets.table[q].file = NoFile
                                 \/ r.assets.table[q].rdwr

LEMMA BetterIsGood ==
  ASSUME NEW p \in Patterns, NEW m \in 0 .. Len(p) - 1, NEW r, GoodSearch(r, p, m)
  PROVE  GoodSearch(Better(r, p[m + 1]), p, m + 1)
<1> DEFINE f == p[m + 1]
           s == OpenSlot(r.assets, f)
           b == Opened(r.assets, f, FALSE)
           c == Closed(b, r.slot)
<1>1. f \in Pictures /\ f \in Files /\ f # NoFile /\ m + 1 \in DOMAIN p
  BY PatternsAssumption, KindsAssumption DEF PatternsAssumption, KindsAssumption, Files
<1>2. CASE s = NoSlot
  <2>1. Better(r, f) = r
    BY <1>2 DEF Better
  <2>2. \A k \in 1 .. m : k \in 1 .. m + 1
    OBVIOUS
  <2>3. GoodSearch(r, p, m + 1)
    BY <2>2 DEF GoodSearch
  <2> QED BY <2>1, <2>3
<1>3. CASE s # NoSlot
  <2>0. s \in Slots /\ r.assets.table[s].file \in {f, NoFile}
    BY <1>1, <1>3, OpenSlotIs DEF GoodSearch
  <2>1. /\ OnlyAt(r.assets, b, s) /\ b.spoilt = spoilt /\ b.table[s].file = f
    <3>1. FALSE \in BOOLEAN
      OBVIOUS
    <3> QED BY <1>1, <2>0, <3>1, OpenedKeeps DEF GoodSearch
  <2>2. r.slot \in Slots => r.slot # s
    <3> SUFFICES ASSUME r.slot \in Slots PROVE r.slot # s
      OBVIOUS
    <3>1. PICK k \in 1 .. m : r.file = p[k]
      BY DEF GoodSearch
    <3>2. k \in DOMAIN p /\ k # m + 1
      BY <1>1, PatternsAssumption DEF PatternsAssumption
    <3>3. r.file # f /\ r.file # NoFile
      BY <1>1, <3>1, <3>2, PatternsAssumption, KindsAssumption DEF PatternsAssumption, KindsAssumption, Files
    <3> HIDE DEF f, s
    <3> QED BY <2>0, <3>3 DEF GoodSearch
  <2>3. /\ IsAssets(b) /\ r.slot \in Slots \union {NoSlot}
    BY <2>1 DEF OnlyAt, GoodSearch
  <2>4. /\ OnlyAt(b, c, r.slot) /\ c.spoilt = spoilt
        /\ r.slot \in Slots => c.table[r.slot].file = NoFile \/ c.table[r.slot].rdwr
    <3> HIDE DEF b
    <3> QED BY <2>1, <2>3, ClosedKeeps
  <2>5. Better(r, f) = [slot |-> s, file |-> f, assets |-> c]
    BY <1>3 DEF Better
  <2>6. \A q \in Slots : q # s /\ q # r.slot => c.table[q] = r.assets.table[q]
    <3> HIDE DEF b, c, s
    <3> QED BY <2>1, <2>4 DEF OnlyAt
  <2>7. c.table[s].file = f /\ IsAssets(c)
    <3> HIDE DEF b, c, s, f
    <3> QED BY <2>0, <2>1, <2>2, <2>4 DEF OnlyAt
  <2>8. ASSUME NEW q \in Slots, table[q].file \notin Pictures \union {NoFile}
        PROVE  c.table[q] = table[q]
    <3>1. r.assets.table[q] = table[q]
      BY <2>8 DEF GoodSearch
    <3>2. q # s
      BY <1>1, <2>0, <2>8, <3>1
    <3>3. q # r.slot
      <4> SUFFICES ASSUME q = r.slot PROVE FALSE
        OBVIOUS
      <4>1. PICK k \in 1 .. m : table[q].file = p[k]
        BY <3>1 DEF GoodSearch
      <4>2. p[k] \in Pictures
        BY PatternsAssumption DEF PatternsAssumption
      <4> QED BY <2>8, <4>1, <4>2
    <3> QED BY <2>6, <3>1, <3>2, <3>3
  <2>9. ASSUME NEW q \in Slots \ {s}
        PROVE c.table[q] = table[q] \/ c.table[q].file = NoFile \/ c.table[q].rdwr
    <3>1. CASE q = r.slot
      BY <2>4, <3>1
    <3>2. CASE q # r.slot
      BY <2>6, <2>9, <3>2 DEF GoodSearch
    <3> QED BY <3>1, <3>2
  <2>10. \E k \in 1 .. m + 1 : f = p[k]
    OBVIOUS
  <2> DEFINE z == Better(r, f)
  <2>11. z.slot = s /\ z.file = f /\ z.assets = c
    BY <2>5
  <2> HIDE DEF b, c, s, f, z
  <2>12. GoodSearch(z, p, m + 1)
    BY <2>0, <2>4, <2>7, <2>8, <2>9, <2>10, <2>11 DEF GoodSearch
  <2> QED BY <2>12 DEF z, f
<1> QED BY <1>2, <1>3

LEMMA SearchIsGood ==
  ASSUME IsTable(table), spoilt \in BOOLEAN, NEW p \in Patterns
  PROVE  GoodSearch(FindBestBitmap(p), p, Len(p))
<1>0. Len(p) \in Nat
  BY PatternsAssumption DEF PatternsAssumption
<1> DEFINE g == CHOOSE g : IsSearch(g, p, Len(p))
<1>1. IsSearch(g, p, Len(p))
  BY <1>0, SearchExists
<1>2. FindBestBitmap(p) = g[Len(p)]
  BY Zenon DEF FindBestBitmap, IsSearch
<1> HIDE DEF g
<1> DEFINE Bad == {n \in 0 .. Len(p) : ~GoodSearch(g[n], p, n)}
<1> SUFFICES ASSUME Len(p) \in Bad PROVE FALSE
  BY <1>0, <1>2
<1>3. PICK n \in Bad : \A k \in Bad : n <= k
  <2>1. Bad \subseteq Nat /\ Bad # {}
    BY <1>0
  <2> HIDE DEF Bad
  <2> QED BY <2>1, LeastNumber
<1>4. n # 0
  <2>1. g[0] = Unfound
    BY <1>0, <1>1 DEF IsSearch
  <2>2. IsAssets(Now) /\ Now.spoilt = spoilt /\ Now.table = table
    BY DEF IsAssets, Now
  <2>3. Unfound.assets = Now /\ Unfound.slot = NoSlot
    BY DEF Unfound
  <2>4. GoodSearch(Unfound, p, 0)
    BY <2>2, <2>3, SlotsAreNumbers DEF GoodSearch
  <2> QED BY <1>3, <2>1, <2>4
<1>5. n - 1 \in 0 .. Len(p) - 1 /\ n - 1 \notin Bad /\ (n - 1) + 1 = n
  BY <1>0, <1>3, <1>4
<1>6. GoodSearch(g[n - 1], p, n - 1)
  BY <1>0, <1>5
<1>7. g[n] = Better(g[n - 1], p[n])
  BY <1>0, <1>1, <1>3, <1>4 DEF IsSearch
<1>8. GoodSearch(Better(g[n - 1], p[n]), p, n)
  <2> DEFINE m == n - 1
  <2>1. m \in 0 .. Len(p) - 1 /\ m + 1 = n
    BY <1>5
  <2> HIDE DEF m
  <2>2. GoodSearch(g[m], p, m)
    BY <1>6 DEF m
  <2>3. GoodSearch(Better(g[m], p[m + 1]), p, m + 1)
    BY <2>1, <2>2, BetterIsGood
  <2> QED BY <2>1, <2>3 DEF m
<1> QED BY <1>3, <1>7, <1>8

------------------------------------------------------------------------------
(* How the steps of a call compose: what a call makes of the assets keeps  *)
(* what has been decrypted, and a sealed script is only open for writing.  *)
SealedAt(t) == \A q \in Slots : t[q].file \in Sealed => t[q].rdwr
Sound(a) == IsAssets(a) /\ SealedAt(a.table)
Kept(t, u) == \A q \in Slots : Pinned(t[q]) /\ t[q].file \in Sealed => u[q] = t[q]
Keeps(a, b) == Sound(b) /\ (a.spoilt => b.spoilt) /\ Kept(a.table, b.table)

(* A script's slot has its buffer, and is not read as if it were cached.   *)
Loaded(x, f) == x.file = f /\ x.ref # 0 /\ ~x.cached
SameFiles(t, u) == \A q \in Slots : u[q].file = t[q].file /\ u[q].rdwr = t[q].rdwr

LEMMA KeepsIsTransitive ==
  ASSUME NEW a, NEW b, NEW c, Keeps(a, b), Keeps(b, c) PROVE Keeps(a, c)
BY DEF Keeps, Kept

LEMMA SealedAreFiles ==
  /\ Sealed \subseteq Files /\ NoFile \notin Files
  /\ Scripts \intersect (Pictures \union Songs \union {Icon, NoFile}) = {}
  /\ Sealed \subseteq Scripts /\ Stored \subseteq Scripts /\ Root \in Scripts /\ Root \notin Sealed
  /\ Stored \intersect Sealed = {} /\ Songs \intersect Pictures = {}
  /\ Scripts \subseteq Files /\ Songs \subseteq Files /\ Pictures \subseteq Files /\ Icon \in Files
BY KindsAssumption DEF KindsAssumption, Files, Scripts

LEMMA ClosingKeeps ==
  ASSUME NEW a, Sound(a), NEW s \in Slots \union {NoSlot}
  PROVE  /\ Keeps(a, Closed(a, s)) /\ Closed(a, s).spoilt = a.spoilt
         /\ \A q \in Slots : q # s => Closed(a, s).table[q] = a.table[q]
         /\ s \in Slots => Closed(a, s).table[s].file = NoFile \/ Closed(a, s).table[s].rdwr
<1> DEFINE b == Closed(a, s)
<1>1. OnlyAt(a, b, s) /\ b.spoilt = a.spoilt
  BY ClosedKeeps DEF Sound
<1>2. s \in Slots => b.table[s].file = NoFile \/ (b = a /\ a.table[s].rdwr)
  BY ClosedKeeps DEF Sound
<1> HIDE DEF b
<1>3. SealedAt(b.table)
  BY <1>1, <1>2, SealedAreFiles DEF OnlyAt, SealedAt, Sound
<1> QED BY <1>1, <1>2, <1>3 DEF OnlyAt, Sound, Keeps, Kept, b

LEMMA OpeningKeeps ==
  ASSUME NEW a, Sound(a), NEW f \in Files, NEW w \in BOOLEAN, f \in Sealed => w
  PROVE  LET s == OpenSlot(a, f)
             b == Opened(a, f, w)
         IN  /\ Keeps(a, b) /\ b.spoilt = a.spoilt
             /\ s \in Slots \union {NoSlot}
             /\ \A q \in Slots : q # s => b.table[q] = a.table[q]
             /\ s = NoSlot => b = a
             /\ s \in Slots =>
                  /\ a.table[s].file \in {f, NoFile}
                  /\ b.table[s].file = f
                  /\ Loaded(a.table[s], f) => Loaded(b.table[s], f)
<1> DEFINE s == OpenSlot(a, f)
           b == Opened(a, f, w)
<1>1. /\ s \in Slots \union {NoSlot}
      /\ s \in Slots => a.table[s].file \in {f, NoFile}
  BY OpenSlotIs DEF Sound
<1>2. /\ OnlyAt(a, b, s) /\ b.spoilt = a.spoilt
      /\ s = NoSlot => b = a
      /\ s \in Slots =>
           /\ b.table[s].file = f /\ (w => b.table[s].rdwr)
           /\ a.table[s].file = f => b.table[s].ref = a.table[s].ref
                                     /\ b.table[s].cached = a.table[s].cached
  BY OpenedKeeps DEF Sound
<1> HIDE DEF s, b
<1>3. SealedAt(b.table)
  BY <1>1, <1>2 DEF OnlyAt, SealedAt, Sound
<1>4. s \in Slots /\ Loaded(a.table[s], f) => Loaded(b.table[s], f)
  BY <1>2 DEF Loaded
<1>5. Keeps(a, b)
  BY <1>2, <1>3 DEF OnlyAt, Sound, Keeps, Kept
<1>6. \A q \in Slots : q # s => b.table[q] = a.table[q]
  BY <1>2 DEF OnlyAt
<1> QED BY <1>1, <1>2, <1>4, <1>5, <1>6 DEF s, b

LEMMA LoadingKeeps ==
  ASSUME NEW a, Sound(a), NEW s \in Slots, NEW o \in Loads(a, s)
  PROVE  /\ Keeps(a, o[1]) /\ o[1].spoilt = a.spoilt
         /\ \A q \in Slots : q # s => o[1].table[q] = a.table[q]
         /\ o[1].table[s].file = a.table[s].file
         /\ o[2] # 0 => Loaded(o[1].table[s], a.table[s].file)
         /\ a.table[s].file # NoFile /\ Loaded(a.table[s], a.table[s].file) => o[2] # 0
<1>1. /\ OnlyAt(a, o[1], s) /\ o[1].spoilt = a.spoilt
      /\ o[1].table[s].file = a.table[s].file /\ o[1].table[s].rdwr = a.table[s].rdwr
      /\ o[2] # 0 => /\ o[1].table[s].ref = o[2] /\ ~o[1].table[s].cached
      /\ a.table[s].file # NoFile /\ a.table[s].ref # 0 /\ ~a.table[s].cached => o[2] # 0
  BY LoadsKeep DEF Sound
<1>2. SealedAt(o[1].table)
  BY <1>1 DEF OnlyAt, SealedAt, Sound
<1>3. o[2] # 0 => Loaded(o[1].table[s], a.table[s].file)
  BY <1>1 DEF Loaded
<1>4. a.table[s].file # NoFile /\ Loaded(a.table[s], a.table[s].file) => o[2] # 0
  BY <1>1 DEF Loaded
<1> QED BY <1>1, <1>2, <1>3, <1>4 DEF OnlyAt, Sound, Keeps, Kept

LEMMA ReadingKeeps ==
  ASSUME NEW a, Sound(a), NEW s \in Slots, NEW o \in Reads(a, s)
  PROVE  /\ Keeps(a, o[1]) /\ SameFiles(a.table, o[1].table)
         /\ o[1].spoilt \/ \A q \in Slots, f \in Files :
                             Loaded(a.table[q], f) => Loaded(o[1].table[q], f)
<1>1. /\ OnlyAt(a, o[1], s)
      /\ o[1].table[s].file = a.table[s].file /\ o[1].table[s].rdwr = a.table[s].rdwr
      /\ a.table[s].rdwr => o[1] = a
      /\ a.table[s].file # NoFile /\ ~a.table[s].rdwr /\ a.table[s].ref # 0
           /\ ~a.table[s].cached => o[1].spoilt
  BY ReadsKeep DEF Sound
<1>2. SameFiles(a.table, o[1].table)
  BY <1>1 DEF OnlyAt, SameFiles
<1>3. SealedAt(o[1].table)
  BY <1>2 DEF SameFiles, SealedAt, Sound
<1>4. ASSUME ~o[1].spoilt, NEW q \in Slots, NEW f \in Files, Loaded(a.table[q], f)
      PROVE  Loaded(o[1].table[q], f)
  <2>1. CASE q # s
    BY <1>1, <1>4, <2>1 DEF OnlyAt
  <2>2. CASE q = s
    <3>1. a.table[s].rdwr
      BY <1>1, <1>4, <2>2, SealedAreFiles DEF Loaded
    <3> QED BY <1>1, <1>4, <2>2, <3>1
  <2> QED BY <2>1, <2>2
<1> QED BY <1>1, <1>2, <1>3, <1>4 DEF OnlyAt, Sound, Keeps, Kept

------------------------------------------------------------------------------
(* The block cache of extended memory, as far as its types go, whatever    *)
(* has become of the blocks.  Ages have a lower bound.                     *)
Items == Xms!ItemIndexes
Blocks == Xms!Handles
XmsItem == [file : Files \union {NoFile}, handle : {0} \union Blocks,
            locks : (0 - MaxAge) .. MaxLocks]
XmsTyped(x) == x \in [items : [Items -> XmsItem], blocks : [Blocks -> Xms!Block]]

LEMMA CacheNumbers ==
  /\ Items \subseteq Nat \ {0} /\ Blocks \subseteq Nat \ {0} /\ Items # {}
  /\ MaxAge \in Nat \ {0} /\ MaxLocks \in Nat /\ MaxLocks > MaxOpen /\ MaxOpen \in Nat \ {0}
  /\ XmsHandles \in Nat /\ MaxCache \in Nat \ {0} /\ MaxViews \in Nat /\ MaxBuffers \in Nat
  /\ NoFile \notin Files
  /\ \A f \in Files : Size[f] \in Nat \ {0} /\ Size[f] <= 64 /\ Xms!Kb(f) = Size[f]
  /\ Xms!Kb(NoFile) = 0
<1>1. /\ XmsItems \in Nat \ {0} /\ XmsHandles \in Nat /\ MaxAge \in Nat \ {0} /\ MaxLocks \in Nat
      /\ MaxLocks > MaxOpen /\ MaxCache \in Nat \ {0} /\ MaxViews \in Nat
      /\ Size \in [Files -> 1 .. 64]
  BY CacheAssumption DEF CacheAssumption
<1>2. MaxOpen \in Nat \ {0} /\ MaxBuffers \in Nat /\ NoFile \notin Files
  BY BoundsAssumption, KindsAssumption DEF BoundsAssumption, KindsAssumption
<1>3. /\ Items \subseteq Nat \ {0} /\ Blocks \subseteq Nat \ {0} /\ Items # {}
  <2>1. 1 \in Items
    BY <1>1 DEF Items, Xms!ItemIndexes
  <2> QED BY <1>1, <2>1 DEF Items, Blocks, Xms!ItemIndexes, Xms!Handles
<1>4. \A f \in Files : Size[f] \in Nat \ {0} /\ Size[f] <= 64 /\ Xms!Kb(f) = Size[f]
  BY <1>1, <1>2 DEF Xms!Kb
<1>5. Xms!Kb(NoFile) = 0
  BY DEF Xms!Kb
<1> QED
  BY <1>1, <1>2, <1>3, <1>4, <1>5

LEMMA KbIsSize == ASSUME NEW f \in Files \union {NoFile} PROVE Xms!Kb(f) \in 0 .. 64
BY CacheNumbers

LEMMA XmsMinIs == \A S : Xms!Min(S) = Min(S)
BY DEF Xms!Min, Min

LEMMA LeastOf ==
  ASSUME NEW S, S \subseteq Nat, S # {} PROVE Xms!Min(S) \in S
<1>1. \E x \in S : \A y \in S : x <= y
  BY LeastNumber
<1> QED BY <1>1 DEF Xms!Min

LEMMA XmsParts ==
  ASSUME NEW x, XmsTyped(x)
  PROVE  /\ x.items \in [Items -> XmsItem] /\ x.blocks \in [Blocks -> Xms!Block]
         /\ \A i \in Items : /\ x.items[i] \in XmsItem
                             /\ x.items[i].file \in Files \union {NoFile}
                             /\ x.items[i].handle \in {0} \union Blocks
                             /\ x.items[i].locks \in (0 - MaxAge) .. MaxLocks
                             /\ x.items[i].locks \in Int
         /\ \A h \in Blocks : /\ x.blocks[h] \in Xms!Block
                              /\ x.blocks[h].kb \in -1 .. 64 /\ x.blocks[h].kb \in Int
BY CacheNumbers DEF XmsTyped, XmsItem, Xms!Block, Xms!Unsized

LEMMA ItemChanged ==
  ASSUME NEW x, XmsTyped(x), NEW i \in Items, NEW e \in XmsItem
  PROVE  LET y == [x EXCEPT !.items[i] = e]
         IN  /\ XmsTyped(y) /\ y.blocks = x.blocks /\ y.items[i] = e
             /\ \A j \in Items : j # i => y.items[j] = x.items[j]
<1> HIDE DEF XmsItem
<1> QED BY DEF XmsTyped

LEMMA BlockChanged ==
  ASSUME NEW x, XmsTyped(x), NEW h \in Blocks, NEW b \in Xms!Block
  PROVE  LET y == [x EXCEPT !.blocks[h] = b]
         IN  /\ XmsTyped(y) /\ y.items = x.items /\ y.blocks[h] = b
             /\ \A k \in Blocks : k # h => y.blocks[k] = x.blocks[k]
<1> HIDE DEF Xms!Block, XmsItem
<1> QED BY DEF XmsTyped

LEMMA FindCacheFinds ==
  ASSUME NEW x, XmsTyped(x), NEW handle
  PROVE  LET i == Xms!FindCache(x, handle)
         IN  \/ i \in Items /\ x.items[i].handle = handle
             \/ i = 0 /\ \A j \in Items : x.items[j].handle # handle
<1> DEFINE found == {i \in Items : x.items[i].handle = handle}
<1>1. Xms!FindCache(x, handle) = IF found = {} THEN 0 ELSE Xms!Min(found)
  BY DEF Xms!FindCache, Items
<1>2. found \subseteq Nat
  BY CacheNumbers
<1>3. found # {} => Xms!Min(found) \in found
  <2> HIDE DEF found
  <2> QED BY <1>2, LeastOf
<1> QED BY <1>1, <1>3

LEMMA RetrieveFinds ==
  ASSUME NEW x, XmsTyped(x), NEW f, Xms!RetrieveCache(x, f) # 0
  PROVE  \E i \in Items : x.items[i].file = f /\ x.items[i].handle = Xms!RetrieveCache(x, f)
<1> DEFINE found == Xms!Matches(x, f)
<1>1. found = {i \in Items : x.items[i].file = f /\ x.items[i].handle # 0}
  BY DEF Xms!Matches, Items, Xms!NoHandle
<1>2. found \subseteq Nat
  BY <1>1, CacheNumbers
<1>3. found # {} => Xms!Min(found) \in found
  <2> HIDE DEF found
  <2> QED BY <1>2, LeastOf
<1>4. found # {} /\ Xms!RetrieveCache(x, f) = x.items[Xms!Min(found)].handle
  BY DEF Xms!RetrieveCache, Xms!NoHandle
<1> HIDE DEF found
<1> QED BY <1>1, <1>3, <1>4

(* The items as before, but those nobody uses may have grown older.        *)
SameItems(x, y) ==
  /\ y.blocks = x.blocks
  /\ \A i \in Items : /\ y.items[i].handle = x.items[i].handle /\ y.items[i].file = x.items[i].file
                      /\ x.items[i].locks > 0 => y.items[i].locks = x.items[i].locks
                      /\ x.items[i].locks <= 0 => y.items[i].locks <= 0

LEMMA AgedAre ==
  ASSUME NEW x, XmsTyped(x) PROVE XmsTyped(Xms!Aged(x)) /\ SameItems(x, Xms!Aged(x))
<1> DEFINE y == Xms!Aged(x)
           older(i) == IF x.items[i].handle # 0 /\ x.items[i].locks \in (1 - MaxAge) .. 0
                       THEN [x.items[i] EXCEPT !.locks = @ - 1] ELSE x.items[i]
<1>1. y = [x EXCEPT !.items = [i \in Items |-> older(i)]]
  BY DEF Xms!Aged, Items, Xms!NoHandle
<1>2. ASSUME NEW i \in Items
      PROVE  /\ older(i) \in XmsItem
             /\ older(i).handle = x.items[i].handle /\ older(i).file = x.items[i].file
             /\ x.items[i].locks > 0 => older(i).locks = x.items[i].locks
             /\ x.items[i].locks <= 0 => older(i).locks <= 0
  BY XmsParts, CacheNumbers DEF XmsItem
<1> HIDE DEF older, y
<1>3. /\ y.blocks = x.blocks /\ y.items = [i \in Items |-> older(i)]
      /\ y = [items |-> y.items, blocks |-> y.blocks]
  BY <1>1 DEF XmsTyped
<1>4. XmsTyped(y)
  <2> HIDE DEF XmsItem
  <2>1. y.items \in [Items -> XmsItem]
    BY <1>2, <1>3
  <2>2. y.blocks \in [Blocks -> Xms!Block]
    BY <1>3, XmsParts
  <2> QED BY <1>3, <2>1, <2>2 DEF XmsTyped
<1>5. SameItems(x, y)
  BY <1>2, <1>3 DEF SameItems
<1> QED BY <1>4, <1>5 DEF y

(* What lock_cache() and unlock_cache() do to the item that has the handle.*)
LocksAt(x, y, i, n) ==
  /\ XmsTyped(y) /\ y.blocks = x.blocks
  /\ y.items[i].handle = x.items[i].handle /\ y.items[i].file = x.items[i].file
  /\ y.items[i].locks = n
  /\ \A j \in Items : j # i => y.items[j] = x.items[j]

LEMMA LocksChanged ==
  ASSUME NEW x, XmsTyped(x), NEW i \in Items, NEW n \in (0 - MaxAge) .. MaxLocks
  PROVE  LocksAt(x, [x EXCEPT !.items[i].locks = n], i, n)
<1> DEFINE e == [x.items[i] EXCEPT !.locks = n]
           y == [x EXCEPT !.items[i] = e]
<1>1. e \in XmsItem /\ e.handle = x.items[i].handle /\ e.file = x.items[i].file /\ e.locks = n
  BY XmsParts DEF XmsItem
<1> HIDE DEF e
<1>2. /\ XmsTyped(y) /\ y.blocks = x.blocks /\ y.items[i] = e
      /\ \A j \in Items : j # i => y.items[j] = x.items[j]
  BY <1>1, ItemChanged
<1>3. [x EXCEPT !.items[i].locks = n] = y
  BY DEF e
<1> HIDE DEF y
<1> QED BY <1>1, <1>2, <1>3 DEF LocksAt

More(n) == IF n < 0 THEN 1 ELSE IF n + 1 <= MaxLocks THEN n + 1 ELSE MaxLocks
Unknown(x, handle) == handle = 0 \/ \A i \in Items : x.items[i].handle # handle
LockedIn(x, y, handle) ==
  \/ y = x /\ Unknown(x, handle)
  \/ \E i \in Items : /\ handle # 0 /\ x.items[i].handle = handle
                      /\ LocksAt(x, y, i, More(x.items[i].locks))
UnlockedIn(x, y, handle) ==
  \/ y = x /\ (Unknown(x, handle)
               \/ \E i \in Items : x.items[i].handle = handle /\ x.items[i].locks <= 0)
  \/ \E i \in Items : /\ handle # 0 /\ x.items[i].handle = handle /\ x.items[i].locks > 0
                      /\ LocksAt(x, y, i, x.items[i].locks - 1)

LEMMA LockCacheLocks ==
  ASSUME NEW x, XmsTyped(x), NEW handle
  PROVE  LockedIn(x, Xms!LockCache(x, handle), handle)
<1> DEFINE i == Xms!FindCache(x, handle)
           y == Xms!LockCache(x, handle)
<1>1. \/ i \in Items /\ x.items[i].handle = handle
      \/ i = 0 /\ \A j \in Items : x.items[j].handle # handle
  BY FindCacheFinds
<1>2. CASE handle = 0 \/ i = 0
  <2>1. y = x
    BY <1>2 DEF Xms!LockCache, Xms!NoHandle
  <2>2. i = 0 => \A j \in Items : x.items[j].handle # handle
    BY <1>1, CacheNumbers
  <2> HIDE DEF i, y
  <2>3. LockedIn(x, y, handle)
    BY <1>2, <2>1, <2>2 DEF LockedIn, Unknown
  <2> QED BY <2>3 DEF y
<1>3. CASE ~(handle = 0 \/ i = 0)
  <2> DEFINE n == IF x.items[i].locks < 0 THEN 1 ELSE Xms!Min({x.items[i].locks + 1, MaxLocks})
  <2>1. y = [x EXCEPT !.items[i].locks = n]
    BY <1>3 DEF Xms!LockCache, Xms!NoHandle
  <2>2. i \in Items /\ x.items[i].handle = handle
    BY <1>1, <1>3
  <2>3. n = More(x.items[i].locks) /\ n \in (0 - MaxAge) .. MaxLocks
    <3> DEFINE k == x.items[i].locks
    <3>1. k \in (0 - MaxAge) .. MaxLocks
      BY <2>2, XmsParts
    <3>2. ASSUME k >= 0
          PROVE  Xms!Min({k + 1, MaxLocks}) = IF k + 1 <= MaxLocks THEN k + 1 ELSE MaxLocks
      <4>1. {k + 1, MaxLocks} \subseteq Nat /\ {k + 1, MaxLocks} # {}
        BY <3>1, <3>2, CacheNumbers
      <4>2. \E a \in {k + 1, MaxLocks} : \A b \in {k + 1, MaxLocks} : a <= b
        BY <4>1, LeastNumber
      <4>3. /\ Xms!Min({k + 1, MaxLocks}) \in {k + 1, MaxLocks}
            /\ \A b \in {k + 1, MaxLocks} : Xms!Min({k + 1, MaxLocks}) <= b
        BY <4>2 DEF Xms!Min
      <4> QED BY <3>1, <4>3, CacheNumbers
    <3> QED BY <3>1, <3>2, CacheNumbers DEF More
  <2>4. LocksAt(x, y, i, n)
    <3> HIDE DEF n, y, i
    <3> QED BY <2>1, <2>2, <2>3, LocksChanged
  <2> HIDE DEF n, y, i
  <2>5. LocksAt(x, y, i, More(x.items[i].locks))
    BY <2>3, <2>4
  <2>6. LockedIn(x, y, handle)
    BY <1>3, <2>2, <2>5, Zenon DEF LockedIn
  <2> QED BY <2>6 DEF y
<1> QED BY <1>2, <1>3

LEMMA UnlockCacheUnlocks ==
  ASSUME NEW x, XmsTyped(x), NEW handle
  PROVE  UnlockedIn(x, Xms!UnlockCache(x, handle), handle)
<1> DEFINE i == Xms!FindCache(x, handle)
           y == Xms!UnlockCache(x, handle)
<1>1. \/ i \in Items /\ x.items[i].handle = handle
      \/ i = 0 /\ \A j \in Items : x.items[j].handle # handle
  BY FindCacheFinds
<1>2. i = 0 => \A j \in Items : x.items[j].handle # handle
  BY <1>1, CacheNumbers
<1>3. CASE handle = 0 \/ i = 0 \/ x.items[i].locks <= 0
  <2>1. y = x
    BY <1>3 DEF Xms!UnlockCache, Xms!NoHandle
  <2> HIDE DEF i, y
  <2>2. Unknown(x, handle) => UnlockedIn(x, y, handle)
    BY <2>1, Zenon DEF UnlockedIn
  <2>3. i \in Items /\ x.items[i].handle = handle /\ x.items[i].locks <= 0
          => UnlockedIn(x, y, handle)
    BY <2>1, Zenon DEF UnlockedIn
  <2>4. UnlockedIn(x, y, handle)
    BY <1>1, <1>2, <1>3, <2>2, <2>3 DEF Unknown
  <2> QED BY <2>4 DEF y
<1>4. CASE ~(handle = 0 \/ i = 0 \/ x.items[i].locks <= 0)
  <2>1. y = [x EXCEPT !.items[i].locks = @ - 1]
    BY <1>4 DEF Xms!UnlockCache, Xms!NoHandle
  <2>2. i \in Items /\ x.items[i].handle = handle
    BY <1>1, <1>4
  <2>3. x.items[i].locks > 0 /\ x.items[i].locks - 1 \in (0 - MaxAge) .. MaxLocks
    <3> DEFINE k == x.items[i].locks
    <3>1. k \in (0 - MaxAge) .. MaxLocks
      BY <2>2, XmsParts
    <3>2. ~(k <= 0)
      BY <1>4
    <3> HIDE DEF k
    <3>3. k > 0 /\ k - 1 \in (0 - MaxAge) .. MaxLocks
      BY <3>1, <3>2, CacheNumbers
    <3> QED BY <3>3 DEF k
  <2>4. LocksAt(x, y, i, x.items[i].locks - 1)
    <3> HIDE DEF y, i
    <3>1. y = [x EXCEPT !.items[i].locks = x.items[i].locks - 1]
      BY <2>1, <2>2
    <3> QED BY <2>2, <2>3, <3>1, LocksChanged
  <2> HIDE DEF y, i
  <2>5. UnlockedIn(x, y, handle)
    BY <1>4, <2>2, <2>3, <2>4, Zenon DEF UnlockedIn
  <2> QED BY <2>5 DEF y
<1> QED BY <1>3, <1>4

------------------------------------------------------------------------------
(* What the driver does to one block.                                      *)
OthersStay(x, y, h) ==
  XmsTyped(y) /\ y.items = x.items /\ \A k \in Blocks : k # h => y.blocks[k] = x.blocks[k]
FreedAt(x, y, h) == OthersStay(x, y, h) /\ (h \in Blocks => y.blocks[h].kb = -1)
StoredAt(x, y, h, f) ==
  /\ OthersStay(x, y, h)
  /\ h \in Blocks => /\ y.blocks[h].kb = x.blocks[h].kb
                     /\ x.blocks[h].kb >= 0 /\ x.blocks[h].kb >= Xms!Kb(f) => y.blocks[h].data = f
TakenAt(x, y, h, kb) ==
  /\ OthersStay(x, y, h)
  /\ h \in Blocks /\ x.blocks[h].kb = -1 /\ y.blocks[h] = [kb |-> kb, data |-> NoFile]

LEMMA OthersAre ==
  ASSUME NEW x, XmsTyped(x), NEW h \in Blocks, NEW b \in Xms!Block
  PROVE  LET y == [x EXCEPT !.blocks[h] = b] IN OthersStay(x, y, h) /\ y.blocks[h] = b
<1> DEFINE y == [x EXCEPT !.blocks[h] = b]
<1>1. /\ XmsTyped(y) /\ y.items = x.items /\ y.blocks[h] = b
      /\ \A k \in Blocks : k # h => y.blocks[k] = x.blocks[k]
  BY BlockChanged
<1> QED BY <1>1 DEF OthersStay

LEMMA FreeXmsFrees ==
  ASSUME NEW x, XmsTyped(x), NEW h PROVE FreedAt(x, Xms!FreeXms(x, h), h)
<1>1. CASE Xms!IsGivenOut(x, h)
  <2> DEFINE b == Xms!FreeBlock
             y == [x EXCEPT !.blocks[h] = b]
  <2>1. h \in Blocks /\ Xms!FreeXms(x, h) = y
    BY <1>1 DEF Xms!IsGivenOut, Xms!FreeXms, Blocks
  <2>2. b \in Xms!Block /\ b.kb = -1
    BY DEF Xms!FreeBlock, Xms!Block, Xms!Unsized
  <2> HIDE DEF b
  <2>3. OthersStay(x, y, h) /\ y.blocks[h] = b
    BY <2>1, <2>2, OthersAre
  <2> QED BY <2>1, <2>2, <2>3 DEF FreedAt
<1>2. CASE ~Xms!IsGivenOut(x, h)
  <2>1. Xms!FreeXms(x, h) = x
    BY <1>2 DEF Xms!FreeXms
  <2>2. h \in Blocks => x.blocks[h].kb = -1
    BY <1>2, XmsParts DEF Xms!IsGivenOut, Blocks
  <2> QED BY <2>1, <2>2 DEF FreedAt, OthersStay
<1> QED BY <1>1, <1>2

LEMMA StoreXmsStores ==
  ASSUME NEW x, XmsTyped(x), NEW h, NEW f \in Files \union {NoFile}
  PROVE  StoredAt(x, Xms!StoreXms(x, h, f), h, f)
<1>1. CASE Xms!IsGivenOut(x, h)
  <2> DEFINE d == IF x.blocks[h].kb < Xms!Kb(f) THEN NoFile ELSE f
             b == [x.blocks[h] EXCEPT !.data = d]
             y == [x EXCEPT !.blocks[h] = b]
  <2>1. h \in Blocks
    BY <1>1 DEF Xms!IsGivenOut, Blocks
  <2>2. x.blocks[h] \in Xms!Block /\ x.blocks[h].kb \in Int /\ Xms!Kb(f) \in 0 .. 64
    BY <2>1, XmsParts, KbIsSize
  <2>3. d \in Files \union {NoFile} /\ (x.blocks[h].kb >= Xms!Kb(f) => d = f)
    BY <2>2
  <2>4. Xms!StoreXms(x, h, f) = y
    BY <1>1 DEF Xms!StoreXms
  <2> HIDE DEF d
  <2>5. b \in Xms!Block /\ b.kb = x.blocks[h].kb /\ b.data = d
    BY <2>2, <2>3 DEF Xms!Block
  <2> HIDE DEF b
  <2>6. OthersStay(x, y, h) /\ y.blocks[h] = b
    BY <2>1, <2>5, OthersAre
  <2> QED BY <2>3, <2>4, <2>5, <2>6 DEF StoredAt
<1>2. CASE ~Xms!IsGivenOut(x, h)
  <2>1. Xms!StoreXms(x, h, f) = x
    BY <1>2 DEF Xms!StoreXms
  <2>2. h \in Blocks => ~(x.blocks[h].kb >= 0)
    BY <1>2 DEF Xms!IsGivenOut, Blocks
  <2> QED BY <2>1, <2>2 DEF StoredAt, OthersStay
<1> QED BY <1>1, <1>2

LEMMA TakeTakes ==
  ASSUME NEW x, XmsTyped(x), NEW kb \in 0 .. 64, NEW a \in Xms!Take(x, kb)
  PROVE  TakenAt(x, a[1], a[2], kb)
<1> DEFINE b == [kb |-> kb, data |-> NoFile]
<1>1. PICK h \in Xms!AllocXms(x, kb) : a = <<[x EXCEPT !.blocks[h] = b], h>>
  BY DEF Xms!Take
<1>2. h \in Blocks /\ x.blocks[h].kb = -1
  BY <1>1 DEF Xms!AllocXms, Xms!Unsized, Blocks
<1>3. b \in Xms!Block
  BY DEF Xms!Block, Xms!Unsized
<1>4. OthersStay(x, [x EXCEPT !.blocks[h] = b], h) /\ [x EXCEPT !.blocks[h] = b].blocks[h] = b
  BY <1>2, <1>3, OthersAre
<1>5. a[1] = [x EXCEPT !.blocks[h] = b] /\ a[2] = h
  BY <1>1
<1> QED BY <1>2, <1>4, <1>5 DEF TakenAt

------------------------------------------------------------------------------
(* The victim of an eviction exists: ages have a least, of those sizes     *)
(* have, and of those the numbers of the items.                            *)
LEMMA VictimIs ==
  ASSUME NEW x, XmsTyped(x), NEW kb, Xms!Evictable(x, kb) # {}
  PROVE  Xms!Victim(x, kb) \in Xms!Evictable(x, kb)
<1> DEFINE E == Xms!Evictable(x, kb)
           age(i) == x.items[i].locks + MaxAge
           size(i) == Xms!Kb(x.items[i].file)
<1>1. E \subseteq Items
  BY DEF Xms!Evictable, Items
<1> HIDE DEF E
<1>2. ASSUME NEW i \in E
      PROVE  age(i) \in Nat /\ x.items[i].locks \in Int /\ size(i) \in Nat /\ i \in Nat
  <2>1. i \in Items /\ i \in Nat
    BY <1>1, CacheNumbers
  <2>2. x.items[i].locks \in (0 - MaxAge) .. MaxLocks /\ x.items[i].file \in Files \union {NoFile}
    BY <2>1, XmsParts
  <2>3. size(i) \in 0 .. 64
    BY <2>2, KbIsSize
  <2> QED BY <2>1, <2>2, <2>3, CacheNumbers
<1>3. PICK a \in {age(i) : i \in E} : \A b \in {age(i) : i \in E} : a <= b
  <2> HIDE DEF age
  <2>1. {age(i) : i \in E} \subseteq Nat /\ {age(i) : i \in E} # {}
    BY <1>2 DEF E
  <2> QED BY <2>1, LeastNumber
<1> DEFINE E1 == {i \in E : age(i) = a}
<1>4. PICK c \in {size(i) : i \in E1} : \A b \in {size(i) : i \in E1} : c <= b
  <2> HIDE DEF age, size
  <2>1. {size(i) : i \in E1} \subseteq Nat /\ {size(i) : i \in E1} # {}
    BY <1>2, <1>3
  <2> QED BY <2>1, LeastNumber
<1> DEFINE E2 == {i \in E1 : size(i) = c}
<1>5. PICK i \in E2 : \A j \in E2 : i <= j
  <2> HIDE DEF age, size
  <2>1. E2 \subseteq Nat /\ E2 # {}
    BY <1>2, <1>4
  <2> HIDE DEF E2
  <2> QED BY <2>1, LeastNumber
<1>6. ASSUME NEW j \in E PROVE Xms!Better(x, i, j)
  <2> HIDE DEF age, size
  <2>1. age(i) = a /\ a <= age(j) /\ i \in E /\ size(i) = c
    BY <1>3, <1>5
  <2>2. age(j) = a => c <= size(j)
    BY <1>4
  <2>3. age(j) = a /\ size(j) = c => i <= j
    BY <1>5
  <2>4. age(i) < age(j) \/ (age(i) = age(j) /\ (size(i) < size(j) \/ (size(i) = size(j) /\ i <= j)))
    <3>1. age(i) \in Nat /\ age(j) \in Nat /\ size(i) \in Nat /\ size(j) \in Nat
      BY <1>2, <2>1
    <3> QED BY <2>1, <2>2, <2>3, <3>1
  <2>5. x.items[i].locks \in Int /\ x.items[j].locks \in Int /\ MaxAge \in Nat
    BY <1>2, <2>1, CacheNumbers
  <2> QED BY <2>4, <2>5 DEF Xms!Better, age, size
<1>7. i \in E
  BY <1>5
<1> QED BY <1>6, <1>7 DEF Xms!Victim, E

(* An item that nobody uses has lost its block.                            *)
EvictedAt(x, y, i) ==
  /\ XmsTyped(y) /\ i \in Items /\ x.items[i].handle \in Blocks /\ x.items[i].locks <= 0
  /\ y.items[i].handle = 0 /\ \A j \in Items : j # i => y.items[j] = x.items[j]
  /\ y.blocks[x.items[i].handle].kb = -1
  /\ \A k \in Blocks : k # x.items[i].handle => y.blocks[k] = x.blocks[k]
Evicted(x, y) == y = x \/ \E i \in Items : EvictedAt(x, y, i)

LEMMA EvictEvicts ==
  ASSUME NEW x, XmsTyped(x), NEW kb, Xms!CanEvict(x, kb)
  PROVE  Evicted(x, Xms!Evict(x, kb))
<1> DEFINE i == Xms!Victim(x, kb)
           h == x.items[i].handle
           z == Xms!FreeXms(x, h)
           e == [z.items[i] EXCEPT !.handle = 0]
           y == [z EXCEPT !.items[i] = e]
<1>1. i \in Xms!Evictable(x, kb)
  BY VictimIs DEF Xms!CanEvict
<1>2. i \in Items /\ h # 0 /\ x.items[i].locks <= 0
  BY <1>1 DEF Xms!Evictable, Xms!Idle, Xms!NoHandle, Items
<1>3. h \in Blocks
  BY <1>2, XmsParts
<1>4. Xms!Evict(x, kb) = y
  BY DEF Xms!Evict, Xms!NoHandle
<1> HIDE DEF i, h
<1>5. FreedAt(x, z, h)
  BY FreeXmsFrees
<1> HIDE DEF z
<1>6. z.items[i] \in XmsItem
  BY <1>2, <1>5, XmsParts DEF FreedAt, OthersStay
<1>7. e \in XmsItem /\ e.handle = 0
  BY <1>6 DEF XmsItem
<1> HIDE DEF e
<1>8. /\ XmsTyped(y) /\ y.blocks = z.blocks /\ y.items[i] = e
      /\ \A j \in Items : j # i => y.items[j] = z.items[j]
  BY <1>2, <1>5, <1>7, ItemChanged DEF FreedAt, OthersStay
<1> HIDE DEF y
<1>9. EvictedAt(x, y, i)
  BY <1>2, <1>3, <1>5, <1>7, <1>8 DEF EvictedAt, FreedAt, OthersStay, h
<1>10. Evicted(x, y)
  BY <1>2, <1>9 DEF Evicted
<1> QED BY <1>4, <1>10

LEMMA EvictedIsTyped ==
  ASSUME NEW x, XmsTyped(x), NEW y, Evicted(x, y) PROVE XmsTyped(y)
BY DEF Evicted, EvictedAt

AllocatedIn(x, a, kb) ==
  \E y : Evicted(x, y) /\ XmsTyped(y) /\ (TakenAt(y, a[1], a[2], kb) \/ (a[1] = y /\ a[2] = 0))

(* The size that is asked for is the file's unless it overflows.           *)
LEMMA AskedIs ==
  ASSUME NEW kb \in 0 .. 64 PROVE Xms!Asked(kb) \in 0 .. 63 /\ (Xms!Asked(kb) = kb <=> kb # 64)
BY DEF Xms!Asked

LEMMA AllocateAllocates ==
  ASSUME NEW x, XmsTyped(x), NEW kb \in 0 .. 64, NEW a \in Xms!AllocateCache(x, kb)
  PROVE  AllocatedIn(x, a, Xms!Asked(kb))
<1> DEFINE ask == Xms!Asked(kb)
<1>0. ask \in 0 .. 64
  BY AskedIs
<1> HIDE DEF ask
<1>1. CASE Xms!AllocXms(x, ask) # {}
  <2>1. a \in Xms!Take(x, ask)
    BY <1>1 DEF Xms!AllocateCache, ask
  <2>2. TakenAt(x, a[1], a[2], ask)
    BY <1>0, <2>1, TakeTakes
  <2> QED BY <2>2 DEF AllocatedIn, Evicted, ask
<1>2. CASE Xms!AllocXms(x, ask) = {} /\ ~Xms!CanEvict(x, kb)
  <2>1. a = <<x, 0>>
    BY <1>2 DEF Xms!AllocateCache, Xms!NoHandle, ask
  <2>2. a[1] = x /\ a[2] = 0
    BY <2>1
  <2> QED BY <2>2 DEF AllocatedIn, Evicted
<1>3. CASE Xms!AllocXms(x, ask) = {} /\ Xms!CanEvict(x, kb)
  <2> DEFINE y == Xms!Evict(x, kb)
  <2>1. Evicted(x, y) /\ XmsTyped(y)
    BY <1>3, EvictEvicts, EvictedIsTyped
  <2>2. a \in IF Xms!AllocXms(y, ask) # {} THEN Xms!Take(y, ask) ELSE {<<y, 0>>}
    BY <1>3 DEF Xms!AllocateCache, Xms!NoHandle, ask
  <2> HIDE DEF y
  <2>3. TakenAt(y, a[1], a[2], ask) \/ (a[1] = y /\ a[2] = 0)
    <3>1. CASE a \in Xms!Take(y, ask)
      BY <1>0, <2>1, <3>1, TakeTakes
    <3>2. CASE a = <<y, 0>>
      BY <3>2
    <3> QED BY <2>2, <3>1, <3>2
  <2> QED BY <2>1, <2>3 DEF AllocatedIn, ask
<1> QED BY <1>1, <1>2, <1>3

(* A block is put into a free item and locked, or is given back.           *)
PlacedAt(x, y, i, f, handle) ==
  /\ XmsTyped(y) /\ y.blocks = x.blocks /\ x.items[i].handle = 0
  /\ y.items[i] = [file |-> f, handle |-> handle, locks |-> 0]
  /\ \A j \in Items : j # i => y.items[j] = x.items[j]
RememberedIn(x, r, f, handle) ==
  \E y : /\ Evicted(x, y) /\ XmsTyped(y)
         /\ \/ r[2] = 0 /\ FreedAt(y, r[1], handle)
            \/ r[2] = handle /\ \E z : \E i \in Items : PlacedAt(y, z, i, f, handle)
                                                        /\ LockedIn(z, r[1], handle)

LEMMA RememberRemembers ==
  ASSUME NEW x, XmsTyped(x), NEW f \in Files \union {NoFile}, NEW handle \in Blocks
  PROVE  RememberedIn(x, Xms!Remember(x, f, handle), f, handle)
<1> DEFINE full == Xms!FindCache(x, 0) = 0
           y == IF full /\ Xms!CanEvict(x, 0) THEN Xms!Evict(x, 0) ELSE x
           slot == Xms!FindCache(y, 0)
           item == [file |-> f, handle |-> handle, locks |-> 0]
           z == [y EXCEPT !.items[slot] = item]
           r == Xms!Remember(x, f, handle)
<1>1. r = IF slot = 0 THEN <<Xms!FreeXms(y, handle), 0>> ELSE <<Xms!LockCache(z, handle), handle>>
  BY DEF Xms!Remember, Xms!NoHandle
<1>2. Evicted(x, y) /\ XmsTyped(y)
  <2>1. CASE full /\ Xms!CanEvict(x, 0)
    BY <2>1, EvictEvicts, EvictedIsTyped
  <2>2. CASE ~(full /\ Xms!CanEvict(x, 0))
    BY <2>2 DEF Evicted
  <2> QED BY <2>1, <2>2
<1> HIDE DEF y
<1>3. \/ slot \in Items /\ y.items[slot].handle = 0
      \/ slot = 0
  BY <1>2, FindCacheFinds
<1>4. item \in XmsItem
  BY CacheNumbers DEF XmsItem
<1> HIDE DEF slot, item
<1>5. CASE slot = 0
  <2>1. r[2] = 0 /\ r[1] = Xms!FreeXms(y, handle)
    BY <1>1, <1>5
  <2> HIDE DEF r
  <2>2. FreedAt(y, r[1], handle)
    BY <1>2, <2>1, FreeXmsFrees
  <2>3. RememberedIn(x, r, f, handle)
    BY <1>2, <2>1, <2>2 DEF RememberedIn
  <2> QED BY <2>3 DEF r
<1>6. CASE slot \in Items /\ slot # 0
  <2>1. r[2] = handle /\ r[1] = Xms!LockCache(z, handle)
    BY <1>1, <1>6
  <2>2. /\ XmsTyped(z) /\ z.blocks = y.blocks /\ z.items[slot] = item
        /\ \A j \in Items : j # slot => z.items[j] = y.items[j]
    BY <1>2, <1>4, <1>6, ItemChanged
  <2> HIDE DEF r, z
  <2>3. PlacedAt(y, z, slot, f, handle)
    BY <1>3, <1>6, <2>2 DEF PlacedAt, item
  <2>4. LockedIn(z, r[1], handle)
    BY <2>1, <2>2, LockCacheLocks
  <2>5. RememberedIn(x, r, f, handle)
    BY <1>2, <1>6, <2>1, <2>3, <2>4 DEF RememberedIn
  <2> QED BY <2>5 DEF r
<1>7. slot \in Items => slot # 0
  BY CacheNumbers
<1> QED BY <1>3, <1>5, <1>6, <1>7

LEMMA LockedIsTyped ==
  ASSUME NEW x, XmsTyped(x), NEW handle, NEW y, LockedIn(x, y, handle) PROVE XmsTyped(y)
BY DEF LockedIn, LocksAt

(* Of the outcomes of loading only the one that has filled the block is    *)
(* not spoilt, and only for a file whose size did not overflow.            *)
LoadedIn(x, c, f, handle) ==
  /\ XmsTyped(c.xms) /\ c.handle \in {0, handle} /\ c.spoilt \in BOOLEAN
  /\ ~c.spoilt => c.handle = handle /\ StoredAt(x, c.xms, handle, f) /\ Xms!Kb(f) # 64

LEMMA LoadDataLoads ==
  ASSUME NEW x, XmsTyped(x), NEW f \in Files \union {NoFile}, NEW handle, NEW open,
         NEW c \in Xms!LoadData(x, f, handle, open)
  PROVE  LoadedIn(x, c, f, handle)
<1> DEFINE overflowed == Xms!Asked(Xms!Kb(f)) # Xms!Kb(f)
<1>0. overflowed \in BOOLEAN /\ (~overflowed => Xms!Kb(f) # 64)
  BY KbIsSize, AskedIs
<1>1. \/ c = [xms |-> Xms!FreeXms(x, handle), handle |-> 0, spoilt |-> TRUE]
      \/ c = [xms |-> Xms!StoreXms(x, handle, f), handle |-> handle, spoilt |-> overflowed]
      \/ c = [xms |-> x, handle |-> handle, spoilt |-> TRUE]
  BY DEF Xms!LoadData, Xms!NoHandle
<1>2. FreedAt(x, Xms!FreeXms(x, handle), handle)
  BY FreeXmsFrees
<1>3. StoredAt(x, Xms!StoreXms(x, handle, f), handle, f)
  BY StoreXmsStores
<1>4. CASE c = [xms |-> Xms!FreeXms(x, handle), handle |-> 0, spoilt |-> TRUE]
  BY <1>2, <1>4 DEF LoadedIn, FreedAt, OthersStay
<1>5. CASE c = [xms |-> Xms!StoreXms(x, handle, f), handle |-> handle, spoilt |-> overflowed]
  <2> HIDE DEF overflowed
  <2>1. c.xms = Xms!StoreXms(x, handle, f) /\ c.handle = handle /\ c.spoilt = overflowed
    BY <1>5
  <2> QED BY <1>0, <1>3, <2>1 DEF LoadedIn, StoredAt, OthersStay
<1>6. CASE c = [xms |-> x, handle |-> handle, spoilt |-> TRUE]
  BY <1>6 DEF LoadedIn
<1> HIDE DEF overflowed
<1> QED BY <1>1, <1>4, <1>5, <1>6

------------------------------------------------------------------------------
(* The readers of a block in a table of assets.                            *)
ReadAt(t, s) == t[s].file # NoFile /\ t[s].cached
ReadersOf(t, h) == {s \in Slots : ReadAt(t, s) /\ t[s].ref = h}
Uses(n) == IF n > 0 THEN n ELSE 0

SameAt(t, u, s) ==
  ReadAt(u, s) = ReadAt(t, s) /\ (ReadAt(t, s) => u[s].ref = t[s].ref /\ u[s].file = t[s].file)
SameReaders(t, u) == \A s \in Slots : SameAt(t, u, s)
(* A slot begins to read a file's block, or stops.                         *)
Gains(t, u, s, f, g) ==
  /\ ~ReadAt(t, s) /\ ReadAt(u, s) /\ u[s].file = f /\ u[s].ref = g
  /\ \A q \in Slots : q # s => SameAt(t, u, q)
Drops(t, u, s) ==
  /\ ReadAt(t, s) /\ ~ReadAt(u, s)
  /\ \A q \in Slots : q # s => SameAt(t, u, q)

LEMMA SlotsAreFinite ==
  ASSUME NEW S, S \subseteq Slots
  PROVE  IsFiniteSet(S) /\ Cardinality(S) \in Nat /\ Cardinality(S) <= MaxOpen
<1>1. 1 \in Int /\ MaxOpen \in Int /\ MaxOpen \in Nat
  BY CacheNumbers
<1>2. IsFiniteSet(1 .. MaxOpen)
      /\ Cardinality(1 .. MaxOpen) = IF 1 > MaxOpen THEN 0 ELSE MaxOpen - 1 + 1
  BY <1>1, FS_Interval, Zenon
<1>3. IsFiniteSet(Slots) /\ Cardinality(Slots) = MaxOpen
  BY <1>2, CacheNumbers DEF Slots
<1>4. IsFiniteSet(S) /\ Cardinality(S) <= Cardinality(Slots)
  BY <1>3, FS_Subset
<1> QED BY <1>3, <1>4, FS_CardinalityType

LEMMA ReadersAre ==
  ASSUME NEW t, NEW h
  PROVE  /\ Cardinality(ReadersOf(t, h)) \in 0 .. MaxOpen
         /\ Cardinality(ReadersOf(t, h)) = 0 <=> \A s \in Slots : ~(ReadAt(t, s) /\ t[s].ref = h)
<1> DEFINE S == ReadersOf(t, h)
<1>1. S \subseteq Slots
  BY DEF ReadersOf
<1>2. IsFiniteSet(S) /\ Cardinality(S) \in Nat /\ Cardinality(S) <= MaxOpen
  BY <1>1, SlotsAreFinite
<1>3. Cardinality(S) = 0 <=> S = {}
  BY <1>2, FS_EmptySet
<1>4. S = {} <=> \A s \in Slots : ~(ReadAt(t, s) /\ t[s].ref = h)
  BY DEF ReadersOf
<1> QED BY <1>2, <1>3, <1>4, CacheNumbers

LEMMA ReadersStay ==
  ASSUME NEW t, NEW u, NEW h, NEW s, \A q \in Slots : q # s => SameAt(t, u, q),
         ReadAt(t, s) => t[s].ref # h, ReadAt(u, s) => u[s].ref # h
  PROVE  ReadersOf(u, h) = ReadersOf(t, h)
BY DEF ReadersOf, SameAt

LEMMA ReaderAdded ==
  ASSUME NEW t, NEW u, NEW s \in Slots, NEW f, NEW g, Gains(t, u, s, f, g)
  PROVE  Cardinality(ReadersOf(u, g)) = Cardinality(ReadersOf(t, g)) + 1
<1>1. ReadersOf(u, g) = ReadersOf(t, g) \union {s} /\ s \notin ReadersOf(t, g)
  BY DEF Gains, ReadersOf, SameAt
<1>2. IsFiniteSet(ReadersOf(t, g))
  BY SlotsAreFinite DEF ReadersOf
<1> QED BY <1>1, <1>2, FS_AddElement

LEMMA ReaderRemoved ==
  ASSUME NEW t, NEW u, NEW s \in Slots, Drops(t, u, s)
  PROVE  Cardinality(ReadersOf(u, t[s].ref)) = Cardinality(ReadersOf(t, t[s].ref)) - 1
<1> DEFINE h == t[s].ref
<1>1. ReadersOf(u, h) = ReadersOf(t, h) \ {s} /\ s \in ReadersOf(t, h)
  BY DEF Drops, ReadersOf, SameAt
<1>2. IsFiniteSet(ReadersOf(t, h))
  BY SlotsAreFinite DEF ReadersOf
<1> HIDE DEF h
<1>3. Cardinality(ReadersOf(t, h) \ {s}) = Cardinality(ReadersOf(t, h)) - 1
  BY <1>1, <1>2, FS_RemoveElement
<1> QED BY <1>1, <1>3 DEF h

------------------------------------------------------------------------------
(* The cache of extended memory when no block was spoilt: every item has a *)
(* block of its own, filled with its file, and as many locks as readers;   *)
(* every block that is given out has an item; every reader has one of its  *)
(* file.  On the way, block h has no item yet, and block g is not filled.  *)
ItemOK(x, t, h, g, i) ==
  LET item == x.items[i]
  IN  item.handle # 0 =>
        /\ item.file \in Files /\ item.handle # h
        /\ x.blocks[item.handle].kb = Size[item.file]
        /\ item.handle # g => x.blocks[item.handle].data = item.file
        /\ Cardinality(ReadersOf(t, item.handle)) = Uses(item.locks)
HasItem(x, k) == \E i \in Items : x.items[i].handle = k
HasItemOf(x, k, f) == k # 0 /\ \E i \in Items : x.items[i].handle = k /\ x.items[i].file = f
OwnBlocks(x) ==
  \A i, j \in Items : x.items[i].handle # 0 /\ x.items[i].handle = x.items[j].handle => i = j
ReadersServed(x, t) == \A s \in Slots : ReadAt(t, s) => HasItemOf(x, t[s].ref, t[s].file)

Remembered(x, t, h, g) ==
  /\ OwnBlocks(x)
  /\ \A i \in Items : ItemOK(x, t, h, g, i)
  /\ \A k \in Blocks : k # h /\ x.blocks[k].kb >= 0 => HasItem(x, k)
  /\ ReadersServed(x, t)

(* Nobody reads a block that has no item.                                  *)
LEMMA NoItemNoReader ==
  ASSUME NEW x, NEW t, ReadersServed(x, t), NEW k, ~HasItem(x, k)
  PROVE  Cardinality(ReadersOf(t, k)) = 0
<1>1. \A s \in Slots : ~(ReadAt(t, s) /\ t[s].ref = k)
  BY DEF ReadersServed, HasItemOf, HasItem
<1> QED BY <1>1, ReadersAre

LEMMA AgedRemembers ==
  ASSUME NEW x, XmsTyped(x), NEW y, XmsTyped(y), SameItems(x, y), NEW t, NEW h, NEW g,
         Remembered(x, t, h, g)
  PROVE  Remembered(y, t, h, g)
<1>1. /\ y.blocks = x.blocks
      /\ \A i \in Items : y.items[i].handle = x.items[i].handle /\ y.items[i].file = x.items[i].file
  BY DEF SameItems
<1>2. ASSUME NEW i \in Items PROVE ItemOK(y, t, h, g, i)
  <2>1. Uses(y.items[i].locks) = Uses(x.items[i].locks)
    <3>1. x.items[i].locks \in Int /\ y.items[i].locks \in Int
      BY XmsParts
    <3> QED BY <3>1 DEF SameItems, Uses
  <2> QED BY <1>1, <2>1 DEF Remembered, ItemOK
<1>3. OwnBlocks(y) /\ ReadersServed(y, t)
  BY <1>1 DEF Remembered, OwnBlocks, ReadersServed, HasItemOf
<1>4. \A k \in Blocks : k # h /\ y.blocks[k].kb >= 0 => HasItem(y, k)
  BY <1>1 DEF Remembered, HasItem
<1> QED BY <1>2, <1>3, <1>4 DEF Remembered

LEMMA EvictedRemembers ==
  ASSUME NEW x, XmsTyped(x), NEW y, Evicted(x, y), NEW t, NEW h, Remembered(x, t, h, 0)
  PROVE  Remembered(y, t, h, 0)
<1> SUFFICES ASSUME NEW i \in Items, EvictedAt(x, y, i) PROVE Remembered(y, t, h, 0)
  BY DEF Evicted
<1> DEFINE k == x.items[i].handle
<1>1. /\ k \in Blocks /\ k # 0 /\ y.items[i].handle = 0 /\ y.blocks[k].kb = -1
      /\ \A j \in Items : j # i => y.items[j] = x.items[j] /\ x.items[j].handle # k
      /\ \A m \in Blocks : m # k => y.blocks[m] = x.blocks[m]
  BY CacheNumbers DEF EvictedAt, Remembered, OwnBlocks
<1>2. Cardinality(ReadersOf(t, k)) = 0
  <2>1. Uses(x.items[i].locks) = 0
    BY XmsParts DEF EvictedAt, Uses
  <2> QED BY <1>1, <2>1 DEF Remembered, ItemOK
<1>3. \A s \in Slots : ~(ReadAt(t, s) /\ t[s].ref = k)
  BY <1>2, ReadersAre
<1>4. \A j \in Items : x.items[j].handle \in {0} \union Blocks
  BY XmsParts
<1> HIDE DEF k
<1>5. ASSUME NEW j \in Items PROVE ItemOK(y, t, h, 0, j)
  <2>1. CASE j = i
    BY <1>1, <2>1 DEF ItemOK
  <2>2. CASE j # i
    <3>1. ItemOK(x, t, h, 0, j) /\ y.items[j] = x.items[j]
      BY <1>1, <2>2 DEF Remembered
    <3>2. x.items[j].handle # 0 => y.blocks[x.items[j].handle] = x.blocks[x.items[j].handle]
      BY <1>1, <1>4, <2>2
    <3> QED BY <3>1, <3>2 DEF ItemOK
  <2> QED BY <2>1, <2>2
<1>6. OwnBlocks(y)
  BY <1>1 DEF Remembered, OwnBlocks
<1>7. ReadersServed(y, t)
  <2> SUFFICES ASSUME NEW s \in Slots, ReadAt(t, s) PROVE HasItemOf(y, t[s].ref, t[s].file)
    BY DEF ReadersServed
  <2>1. PICK j \in Items : t[s].ref # 0 /\ x.items[j].handle = t[s].ref /\ x.items[j].file = t[s].file
    BY DEF Remembered, ReadersServed, HasItemOf
  <2>2. j # i
    BY <1>3, <2>1 DEF k
  <2> QED BY <1>1, <2>1, <2>2 DEF HasItemOf
<1>8. ASSUME NEW m \in Blocks, m # h, y.blocks[m].kb >= 0 PROVE HasItem(y, m)
  <2>1. m # k /\ x.blocks[m].kb >= 0
    BY <1>1, <1>8
  <2>2. PICK j \in Items : x.items[j].handle = m
    BY <1>8, <2>1 DEF Remembered, HasItem
  <2>3. j # i
    BY <2>1, <2>2 DEF k
  <2> QED BY <1>1, <2>2, <2>3 DEF HasItem
<1> QED BY <1>5, <1>6, <1>7, <1>8 DEF Remembered

LEMMA TakenRemembers ==
  ASSUME NEW x, XmsTyped(x), NEW y, NEW h, NEW kb, TakenAt(x, y, h, kb),
         NEW t, Remembered(x, t, 0, 0)
  PROVE  Remembered(y, t, h, 0) /\ y.blocks[h].kb = kb
<1>1. /\ h \in Blocks /\ x.blocks[h].kb = -1 /\ y.blocks[h].kb = kb /\ y.items = x.items
      /\ \A k \in Blocks : k # h => y.blocks[k] = x.blocks[k]
  BY DEF TakenAt, OthersStay
<1>2. ASSUME NEW i \in Items PROVE ItemOK(y, t, h, 0, i)
  <2>1. ItemOK(x, t, 0, 0, i) /\ x.items[i].handle \in {0} \union Blocks
    BY XmsParts DEF Remembered
  <2>2. \A f \in Files : Size[f] # -1
    BY CacheNumbers
  <2> QED BY <1>1, <2>1, <2>2 DEF ItemOK
<1>3. OwnBlocks(y) /\ ReadersServed(y, t)
  BY <1>1 DEF Remembered, OwnBlocks, ReadersServed, HasItemOf
<1>4. \A k \in Blocks : k # h /\ y.blocks[k].kb >= 0 => HasItem(y, k)
  <2>1. \A k \in Blocks : k # 0
    BY CacheNumbers
  <2> QED BY <1>1, <2>1 DEF Remembered, HasItem
<1> QED BY <1>1, <1>2, <1>3, <1>4 DEF Remembered

LEMMA FreedRemembers ==
  ASSUME NEW x, XmsTyped(x), NEW y, NEW h \in Blocks, FreedAt(x, y, h),
         NEW t, Remembered(x, t, h, 0)
  PROVE  Remembered(y, t, 0, 0)
<1>1. /\ y.blocks[h].kb = -1 /\ y.items = x.items
      /\ \A k \in Blocks : k # h => y.blocks[k] = x.blocks[k]
  BY DEF FreedAt, OthersStay
<1>2. ASSUME NEW i \in Items PROVE ItemOK(y, t, 0, 0, i)
  <2>1. ItemOK(x, t, h, 0, i) /\ x.items[i].handle \in {0} \union Blocks
    BY XmsParts DEF Remembered
  <2> QED BY <1>1, <2>1 DEF ItemOK
<1>3. OwnBlocks(y) /\ ReadersServed(y, t)
  BY <1>1 DEF Remembered, OwnBlocks, ReadersServed, HasItemOf
<1>4. \A k \in Blocks : y.blocks[k].kb >= 0 => HasItem(y, k)
  <2>1. ~(-1 >= 0)
    OBVIOUS
  <2> QED BY <1>1, <2>1 DEF Remembered, HasItem
<1> QED BY <1>2, <1>3, <1>4 DEF Remembered

LEMMA PlacedRemembers ==
  ASSUME NEW x, XmsTyped(x), NEW y, NEW i \in Items, NEW f \in Files, NEW h \in Blocks,
         PlacedAt(x, y, i, f, h), x.blocks[h].kb = Size[f],
         NEW t, Remembered(x, t, h, 0)
  PROVE  Remembered(y, t, 0, h) /\ HasItemOf(y, h, f)
<1>1. /\ y.blocks = x.blocks /\ x.items[i].handle = 0 /\ y.items[i].file = f
      /\ y.items[i].handle = h /\ y.items[i].locks = 0 /\ h # 0
      /\ \A j \in Items : j # i => y.items[j] = x.items[j]
  BY CacheNumbers DEF PlacedAt
<1>2. \A j \in Items : x.items[j].handle # h
  BY <1>1 DEF Remembered, ItemOK
<1>3. Cardinality(ReadersOf(t, h)) = 0
  BY <1>2, NoItemNoReader DEF Remembered, HasItem
<1>4. ASSUME NEW j \in Items PROVE ItemOK(y, t, 0, h, j)
  <2>1. CASE j = i
    <3>1. Uses(0) = 0
      BY DEF Uses
    <3> QED BY <1>1, <1>3, <2>1, <3>1 DEF ItemOK
  <2>2. CASE j # i
    <3>1. ItemOK(x, t, h, 0, j) /\ y.items[j] = x.items[j]
      BY <1>1, <2>2 DEF Remembered
    <3> QED BY <1>1, <3>1 DEF ItemOK
  <2> QED BY <2>1, <2>2
<1>5. OwnBlocks(y)
  BY <1>1, <1>2 DEF Remembered, OwnBlocks
<1>6. ReadersServed(y, t)
  <2> SUFFICES ASSUME NEW s \in Slots, ReadAt(t, s) PROVE HasItemOf(y, t[s].ref, t[s].file)
    BY DEF ReadersServed
  <2>1. PICK j \in Items : t[s].ref # 0 /\ x.items[j].handle = t[s].ref /\ x.items[j].file = t[s].file
    BY DEF Remembered, ReadersServed, HasItemOf
  <2>2. j # i
    BY <1>1, <2>1
  <2> QED BY <1>1, <2>1, <2>2 DEF HasItemOf
<1>7. ASSUME NEW k \in Blocks, y.blocks[k].kb >= 0 PROVE HasItem(y, k)
  <2>1. CASE k = h
    BY <1>1, <2>1 DEF HasItem
  <2>2. CASE k # h
    <3>1. PICK j \in Items : x.items[j].handle = k
      BY <1>1, <1>7, <2>2 DEF Remembered, HasItem
    <3>2. j # i
      BY <1>1, <3>1, CacheNumbers
    <3> QED BY <1>1, <3>1, <3>2 DEF HasItem
  <2> QED BY <2>1, <2>2
<1>8. HasItemOf(y, h, f)
  BY <1>1 DEF HasItemOf
<1> QED BY <1>4, <1>5, <1>6, <1>7, <1>8 DEF Remembered

(* Locks change with the readers of their block.                           *)
LEMMA RelockedRemembers ==
  ASSUME NEW x, XmsTyped(x), NEW y, NEW i \in Items, NEW n, LocksAt(x, y, i, n),
         x.items[i].handle # 0,
         NEW t, NEW u, NEW g, Remembered(x, t, 0, g),
         Cardinality(ReadersOf(u, x.items[i].handle)) = Uses(n),
         \A h : h # x.items[i].handle => ReadersOf(u, h) = ReadersOf(t, h),
         ReadersServed(x, u)
  PROVE  Remembered(y, u, 0, g)
<1>1. /\ y.blocks = x.blocks /\ y.items[i].locks = n
      /\ \A j \in Items : y.items[j].handle = x.items[j].handle /\ y.items[j].file = x.items[j].file
      /\ \A j \in Items : j # i => y.items[j].locks = x.items[j].locks
  BY DEF LocksAt
<1>2. ASSUME NEW j \in Items PROVE ItemOK(y, u, 0, g, j)
  <2>1. ItemOK(x, t, 0, g, j)
    BY DEF Remembered
  <2>2. CASE j = i
    BY <1>1, <2>1, <2>2 DEF ItemOK
  <2>3. CASE j # i
    <3>1. x.items[j].handle # 0 => x.items[j].handle # x.items[i].handle
      BY <2>3 DEF Remembered, OwnBlocks
    <3>2. x.items[j].handle # 0 => ReadersOf(u, x.items[j].handle) = ReadersOf(t, x.items[j].handle)
      BY <3>1
    <3> QED BY <1>1, <2>1, <2>3, <3>2 DEF ItemOK
  <2> QED BY <2>2, <2>3
<1>3. OwnBlocks(y) /\ ReadersServed(y, u)
  BY <1>1 DEF Remembered, OwnBlocks, ReadersServed, HasItemOf
<1>4. \A k \in Blocks : k # 0 /\ y.blocks[k].kb >= 0 => HasItem(y, k)
  BY <1>1 DEF Remembered, HasItem
<1> QED BY <1>2, <1>3, <1>4 DEF Remembered

LEMMA LockedRemembers ==
  ASSUME NEW x, XmsTyped(x), NEW y, NEW g, LockedIn(x, y, g), NEW f, HasItemOf(x, g, f),
         NEW t, NEW u, NEW s \in Slots, Gains(t, u, s, f, g), NEW e, Remembered(x, t, 0, e)
  PROVE  Remembered(y, u, 0, e) /\ HasItemOf(y, g, f)
<1>1. PICK i \in Items : /\ g # 0 /\ x.items[i].handle = g
                         /\ LocksAt(x, y, i, More(x.items[i].locks))
  BY DEF LockedIn, Unknown, HasItemOf
<1> DEFINE k == x.items[i].locks
<1>2. k \in (0 - MaxAge) .. MaxLocks /\ k \in Int
  BY XmsParts
<1>3. Cardinality(ReadersOf(t, g)) = Uses(k) /\ Cardinality(ReadersOf(t, g)) \in 0 .. MaxOpen
  BY <1>1, ReadersAre DEF Remembered, ItemOK
<1> HIDE DEF k
<1>4. Uses(More(k)) = Uses(k) + 1
  <2>1. k < MaxLocks
    BY <1>2, <1>3, CacheNumbers DEF Uses
  <2> QED BY <1>2, <2>1, CacheNumbers DEF More, Uses
<1>5. Cardinality(ReadersOf(u, g)) = Uses(More(k))
  BY <1>3, <1>4, ReaderAdded
<1>6. \A h : h # g => ReadersOf(u, h) = ReadersOf(t, h)
  BY ReadersStay DEF Gains
<1>7. ReadersServed(x, u)
  BY DEF Remembered, ReadersServed, Gains, SameAt
<1>8. Remembered(y, u, 0, e)
  BY <1>1, <1>5, <1>6, <1>7, RelockedRemembers DEF k
<1>9. HasItemOf(y, g, f)
  BY <1>1 DEF LocksAt, HasItemOf
<1> QED BY <1>8, <1>9

LEMMA StoredRemembers ==
  ASSUME NEW x, XmsTyped(x), NEW y, NEW g, NEW f \in Files, StoredAt(x, y, g, f),
         HasItemOf(x, g, f), NEW t, Remembered(x, t, 0, g)
  PROVE  Remembered(y, t, 0, 0)
<1>1. PICK i \in Items : g # 0 /\ x.items[i].handle = g /\ x.items[i].file = f
  BY DEF HasItemOf
<1>2. g \in Blocks /\ x.blocks[g].kb = Size[f]
  BY <1>1, XmsParts DEF Remembered, ItemOK
<1>3. /\ y.items = x.items /\ y.blocks[g].kb = x.blocks[g].kb /\ y.blocks[g].data = f
      /\ \A k \in Blocks : k # g => y.blocks[k] = x.blocks[k]
  <2>1. Size[f] >= 0 /\ Size[f] >= Xms!Kb(f)
    BY CacheNumbers
  <2> QED BY <1>2, <2>1 DEF StoredAt, OthersStay
<1>4. ASSUME NEW j \in Items PROVE ItemOK(y, t, 0, 0, j)
  <2>1. ItemOK(x, t, 0, g, j) /\ x.items[j].handle \in {0} \union Blocks
    BY XmsParts DEF Remembered
  <2>2. x.items[j].handle = g => j = i
    BY <1>1 DEF Remembered, OwnBlocks
  <2> QED BY <1>1, <1>3, <2>1, <2>2 DEF ItemOK
<1>5. OwnBlocks(y) /\ ReadersServed(y, t)
  BY <1>3 DEF Remembered, OwnBlocks, ReadersServed, HasItemOf
<1>6. \A k \in Blocks : k # 0 /\ y.blocks[k].kb >= 0 => HasItem(y, k)
  BY <1>3 DEF Remembered, HasItem
<1> QED BY <1>4, <1>5, <1>6 DEF Remembered

LEMMA UnfilledRemembers ==
  ASSUME NEW x, NEW t, NEW h, NEW g, Remembered(x, t, h, 0) PROVE Remembered(x, t, h, g)
BY DEF Remembered, ItemOK

LEMMA SameRemembers ==
  ASSUME NEW x, NEW t, NEW u, SameReaders(t, u), Remembered(x, t, 0, 0)
  PROVE  Remembered(x, u, 0, 0)
<1>1. \A h : ReadersOf(u, h) = ReadersOf(t, h)
  BY DEF SameReaders, SameAt, ReadersOf
<1>2. ReadersServed(x, u)
  BY DEF SameReaders, SameAt, Remembered, ReadersServed
<1> QED BY <1>1, <1>2 DEF Remembered, ItemOK

(* pal_discard() of a reader.                                              *)
LEMMA DiscardRemembers ==
  ASSUME NEW x, XmsTyped(x), NEW t, Remembered(x, t, 0, 0), NEW u, NEW s \in Slots, Drops(t, u, s)
  PROVE  Remembered(Xms!DiscardXms(x, t[s].ref), u, 0, 0)
<1> DEFINE g == t[s].ref
           y == Xms!UnlockCache(x, g)
<1>1. UnlockedIn(x, y, g)
  BY UnlockCacheUnlocks
<1>2. HasItemOf(x, g, t[s].file)
  BY DEF Drops, Remembered, ReadersServed
<1>3. s \in ReadersOf(t, g)
  BY DEF Drops, ReadersOf
<1>4. Cardinality(ReadersOf(u, g)) = Cardinality(ReadersOf(t, g)) - 1
  BY ReaderRemoved
<1>5. \A h : h # g => ReadersOf(u, h) = ReadersOf(t, h)
  BY ReadersStay DEF Drops
<1>6. Cardinality(ReadersOf(t, g)) \in 0 .. MaxOpen /\ Cardinality(ReadersOf(t, g)) # 0
  BY <1>3, ReadersAre DEF ReadersOf
<1>7. Xms!DiscardXms(x, t[s].ref) = y
  BY DEF Xms!DiscardXms
<1>8. ReadersServed(x, u)
  BY DEF Remembered, ReadersServed, Drops, SameAt
<1> HIDE DEF g, y
<1>9. ASSUME NEW i \in Items, x.items[i].handle = g
      PROVE  /\ Cardinality(ReadersOf(t, g)) = Uses(x.items[i].locks) /\ x.items[i].locks \in Int
             /\ x.items[i].locks > 0
  <2>1. Cardinality(ReadersOf(t, g)) = Uses(x.items[i].locks) /\ x.items[i].locks \in Int
    BY <1>2, <1>9, XmsParts DEF Remembered, ItemOK, HasItemOf
  <2> QED BY <1>6, <2>1 DEF Uses
<1>10. PICK i \in Items : /\ g # 0 /\ x.items[i].handle = g
                          /\ LocksAt(x, y, i, x.items[i].locks - 1)
  <2>1. ~Unknown(x, g)
    BY <1>2 DEF Unknown, HasItemOf
  <2>2. \A i \in Items : x.items[i].handle = g => ~(x.items[i].locks <= 0)
    BY <1>9
  <2> QED BY <1>1, <2>1, <2>2 DEF UnlockedIn
<1>11. Uses(x.items[i].locks - 1) = Uses(x.items[i].locks) - 1
  BY <1>9, <1>10 DEF Uses
<1>12. Remembered(y, u, 0, 0)
  BY <1>4, <1>5, <1>8, <1>9, <1>10, <1>11, RelockedRemembers
<1> QED BY <1>7, <1>12

(* A slot that wants to read the block of a file has got it, or none.      *)
Served(t, u, s, f, h) == IF h = 0 THEN SameReaders(t, u) ELSE Gains(t, u, s, f, h)

CacheOutcome(c) == XmsTyped(c.xms) /\ c.handle \in {0} \union Blocks /\ c.spoilt \in BOOLEAN

(* What allocate_cache() and remember_cache() lead to.                     *)
MissesIn(x, c, f, open) ==
  \E a \in Xms!AllocateCache(x, Xms!Kb(f)) : \E r :
    /\ r = (IF a[2] = 0 THEN a ELSE Xms!Remember(a[1], f, a[2]))
    /\ IF r[2] = 0 THEN c = [xms |-> r[1], handle |-> 0, spoilt |-> FALSE]
       ELSE c \in Xms!LoadData(r[1], f, r[2], open)

LEMMA CacheXmsIs ==
  ASSUME NEW x, XmsTyped(x), NEW f, NEW open, NEW c \in Xms!CacheXms(x, f, open)
  PROVE  \/ \E i \in Items : \E hit : /\ hit # 0 /\ x.items[i].file = f /\ x.items[i].handle = hit
                             /\ c \in Xms!LoadData(Xms!LockCache(Xms!Aged(x), hit), f, hit, open)
         \/ MissesIn(Xms!Aged(x), c, f, open)
<1> DEFINE hit == Xms!RetrieveCache(x, f)
           y == Xms!Aged(x)
<1>1. CASE hit # 0
  <2>1. c \in Xms!LoadData(Xms!LockCache(y, hit), f, hit, open)
    BY <1>1 DEF Xms!CacheXms, Xms!NoHandle
  <2>2. \E i \in Items : x.items[i].file = f /\ x.items[i].handle = hit
    BY <1>1, RetrieveFinds
  <2> HIDE DEF hit, y
  <2> QED BY <1>1, <2>1, <2>2 DEF y
<1>2. CASE hit = 0
  <2>1. c \in UNION {LET r == IF a[2] = 0 THEN a ELSE Xms!Remember(a[1], f, a[2])
                     IN  IF r[2] = 0 THEN {[xms |-> r[1], handle |-> 0, spoilt |-> FALSE]}
                         ELSE Xms!LoadData(r[1], f, r[2], open)
                     : a \in Xms!AllocateCache(y, Xms!Kb(f))}
    BY <1>2 DEF Xms!CacheXms, Xms!NoHandle
  <2> HIDE DEF y
  <2>2. PICK a \in Xms!AllocateCache(y, Xms!Kb(f)) :
          c \in LET r == IF a[2] = 0 THEN a ELSE Xms!Remember(a[1], f, a[2])
                IN  IF r[2] = 0 THEN {[xms |-> r[1], handle |-> 0, spoilt |-> FALSE]}
                    ELSE Xms!LoadData(r[1], f, r[2], open)
    BY <2>1
  <2> DEFINE r == IF a[2] = 0 THEN a ELSE Xms!Remember(a[1], f, a[2])
  <2>3. IF r[2] = 0 THEN c = [xms |-> r[1], handle |-> 0, spoilt |-> FALSE]
        ELSE c \in Xms!LoadData(r[1], f, r[2], open)
    <3>1. c \in IF r[2] = 0 THEN {[xms |-> r[1], handle |-> 0, spoilt |-> FALSE]}
                ELSE Xms!LoadData(r[1], f, r[2], open)
      BY <2>2
    <3> HIDE DEF r
    <3> QED BY <3>1
  <2>4. MissesIn(y, c, f, open)
    BY <2>3 DEF MissesIn
  <2> QED BY <2>4 DEF y
<1> QED BY <1>1, <1>2

LEMMA HitsAreServed ==
  ASSUME NEW x, XmsTyped(x), NEW f \in Files \union {NoFile}, NEW open, NEW i \in Items, NEW hit,
         hit # 0, x.items[i].file = f, x.items[i].handle = hit,
         NEW c \in Xms!LoadData(Xms!LockCache(x, hit), f, hit, open)
  PROVE  /\ CacheOutcome(c)
         /\ \A t, u : \A s \in Slots :
              f \in Files /\ ~c.spoilt /\ Remembered(x, t, 0, 0) /\ Served(t, u, s, f, c.handle)
                => Remembered(c.xms, u, 0, 0)
<1> DEFINE y == Xms!LockCache(x, hit)
<1>1. LockedIn(x, y, hit) /\ XmsTyped(y)
  BY LockCacheLocks, LockedIsTyped
<1> HIDE DEF y
<1>2. LoadedIn(y, c, f, hit)
  BY <1>1, LoadDataLoads DEF y
<1>3. hit \in Blocks
  BY XmsParts
<1>4. CacheOutcome(c)
  BY <1>2, <1>3 DEF LoadedIn, CacheOutcome
<1>5. ASSUME NEW t, NEW u, NEW s \in Slots, f \in Files, ~c.spoilt, Remembered(x, t, 0, 0),
             Served(t, u, s, f, c.handle)
      PROVE  Remembered(c.xms, u, 0, 0)
  <2>1. c.handle = hit /\ StoredAt(y, c.xms, hit, f)
    BY <1>2, <1>5 DEF LoadedIn
  <2>2. Gains(t, u, s, f, hit) /\ HasItemOf(x, hit, f)
    BY <1>5, <2>1 DEF Served, HasItemOf
  <2>3. Remembered(x, t, 0, hit)
    BY <1>5, UnfilledRemembers
  <2>4. Remembered(y, u, 0, hit) /\ HasItemOf(y, hit, f)
    BY <1>1, <2>2, <2>3, LockedRemembers
  <2> QED BY <1>1, <1>5, <2>1, <2>4, StoredRemembers
<1> QED BY <1>4, <1>5

(* A block has been allocated for the file, and an item of it is locked.   *)
NewlyServed(x, r, f) ==
  /\ XmsTyped(r[1]) /\ r[2] \in {0} \union Blocks
  /\ \A t, u : \A s \in Slots :
       f \in Files /\ Remembered(x, t, 0, 0) /\ Served(t, u, s, f, r[2])
         => IF r[2] = 0 THEN Remembered(r[1], u, 0, 0)
            ELSE Size[f] # 64 => Remembered(r[1], u, 0, r[2]) /\ HasItemOf(r[1], r[2], f)

LEMMA RememberServes ==
  ASSUME NEW x, XmsTyped(x), NEW f \in Files \union {NoFile},
         NEW z, XmsTyped(z), NEW h \in Blocks,
         \A t : f \in Files /\ Remembered(x, t, 0, 0)
                  => Remembered(z, t, h, 0) /\ (Size[f] # 64 => z.blocks[h].kb = Size[f])
  PROVE  NewlyServed(x, Xms!Remember(z, f, h), f)
<1> DEFINE r == Xms!Remember(z, f, h)
<1>1. RememberedIn(z, r, f, h)
  BY RememberRemembers
<1> HIDE DEF r
<1>2. PICK y : /\ Evicted(z, y) /\ XmsTyped(y)
               /\ \/ r[2] = 0 /\ FreedAt(y, r[1], h)
                  \/ r[2] = h /\ \E w : \E i \in Items : PlacedAt(y, w, i, f, h)
                                                        /\ LockedIn(w, r[1], h)
  BY <1>1 DEF RememberedIn
<1>0. h # 0
  BY CacheNumbers
<1>3. ASSUME NEW t, f \in Files, Remembered(x, t, 0, 0)
      PROVE  Remembered(y, t, h, 0) /\ (Size[f] # 64 => y.blocks[h].kb = Size[f])
  <2>1. Remembered(z, t, h, 0) /\ (Size[f] # 64 => z.blocks[h].kb = Size[f])
    BY <1>3
  <2>2. y.blocks[h] = z.blocks[h]
    <3>1. \A i \in Items : z.items[i].handle # h
      BY <1>0, <2>1 DEF Remembered, ItemOK
    <3> QED BY <1>2, <3>1 DEF Evicted, EvictedAt
  <2> QED BY <1>2, <2>1, <2>2, EvictedRemembers
<1>4. CASE r[2] = 0 /\ FreedAt(y, r[1], h)
  <2>1. ASSUME NEW t, NEW u, NEW s \in Slots, f \in Files, Remembered(x, t, 0, 0),
               Served(t, u, s, f, r[2])
        PROVE  Remembered(r[1], u, 0, 0)
    <3>1. SameReaders(t, u)
      BY <1>4, <2>1 DEF Served
    <3>2. Remembered(r[1], t, 0, 0)
      BY <1>2, <1>3, <1>4, <2>1, FreedRemembers
    <3> QED BY <3>1, <3>2, SameRemembers
  <2>2. XmsTyped(r[1])
    BY <1>4 DEF FreedAt, OthersStay
  <2>3. NewlyServed(x, r, f)
    BY <1>4, <2>1, <2>2 DEF NewlyServed
  <2> QED BY <2>3 DEF r
<1>5. ASSUME r[2] = h, NEW w, NEW i \in Items, PlacedAt(y, w, i, f, h), LockedIn(w, r[1], h)
      PROVE  NewlyServed(x, r, f)
  <2>0. XmsTyped(w) /\ XmsTyped(r[1])
    BY <1>5, LockedIsTyped DEF PlacedAt
  <2>1. ASSUME NEW t, NEW u, NEW s \in Slots, f \in Files, Remembered(x, t, 0, 0),
               Served(t, u, s, f, r[2]), Size[f] # 64
        PROVE  Remembered(r[1], u, 0, r[2]) /\ HasItemOf(r[1], r[2], f)
    <3>1. Gains(t, u, s, f, h)
      BY <1>0, <1>5, <2>1 DEF Served
    <3>2. Remembered(y, t, h, 0) /\ y.blocks[h].kb = Size[f]
      BY <1>3, <2>1
    <3>3. Remembered(w, t, 0, h) /\ HasItemOf(w, h, f)
      BY <1>2, <1>5, <2>1, <3>2, PlacedRemembers
    <3>4. Remembered(r[1], u, 0, h) /\ HasItemOf(r[1], h, f)
      BY <1>5, <2>0, <3>1, <3>3, LockedRemembers
    <3> QED BY <1>5, <3>4
  <2> QED BY <1>0, <1>5, <2>0, <2>1 DEF NewlyServed
<1>6. NewlyServed(x, r, f)
  BY <1>2, <1>4, <1>5 DEF r
<1> QED BY <1>6 DEF r

LEMMA MissesAreServed ==
  ASSUME NEW x, XmsTyped(x), NEW f \in Files \union {NoFile}, NEW open, NEW c,
         MissesIn(x, c, f, open)
  PROVE  /\ CacheOutcome(c)
         /\ \A t, u : \A s \in Slots :
              f \in Files /\ ~c.spoilt /\ Remembered(x, t, 0, 0) /\ Served(t, u, s, f, c.handle)
                => Remembered(c.xms, u, 0, 0)
<1> DEFINE kb == Xms!Kb(f)
<1> DEFINE ask == Xms!Asked(kb)
<1>1. kb \in 0 .. 64 /\ (f \in Files => kb = Size[f]) /\ (kb # 64 => ask = kb)
  BY KbIsSize, AskedIs, CacheNumbers
<1>0. PICK a \in Xms!AllocateCache(x, kb) :
        \E r : /\ r = (IF a[2] = 0 THEN a ELSE Xms!Remember(a[1], f, a[2]))
               /\ IF r[2] = 0 THEN c = [xms |-> r[1], handle |-> 0, spoilt |-> FALSE]
                  ELSE c \in Xms!LoadData(r[1], f, r[2], open)
  BY DEF MissesIn
<1>2. PICK r : /\ r = (IF a[2] = 0 THEN a ELSE Xms!Remember(a[1], f, a[2]))
               /\ IF r[2] = 0 THEN c = [xms |-> r[1], handle |-> 0, spoilt |-> FALSE]
                  ELSE c \in Xms!LoadData(r[1], f, r[2], open)
  BY <1>0
<1> HIDE DEF kb
<1>3. AllocatedIn(x, a, ask)
  BY <1>1, <1>2, AllocateAllocates
<1> HIDE DEF ask
<1>4. PICK y : Evicted(x, y) /\ XmsTyped(y)
               /\ (TakenAt(y, a[1], a[2], ask) \/ (a[1] = y /\ a[2] = 0))
  BY <1>3 DEF AllocatedIn
<1>5. NewlyServed(x, r, f)
  <2>1. CASE a[1] = y /\ a[2] = 0
    <3>1. r = a
      BY <1>2, <2>1
    <3>2. ASSUME NEW t, NEW u, NEW s \in Slots, f \in Files, Remembered(x, t, 0, 0),
                 Served(t, u, s, f, 0)
          PROVE  Remembered(y, u, 0, 0)
      <4>1. SameReaders(t, u)
        BY <3>2 DEF Served
      <4>2. Remembered(y, t, 0, 0)
        BY <1>4, <3>2, EvictedRemembers
      <4> QED BY <4>1, <4>2, SameRemembers
    <3> QED BY <1>4, <2>1, <3>1, <3>2 DEF NewlyServed
  <2>2. CASE TakenAt(y, a[1], a[2], ask)
    <3>1. a[2] \in Blocks /\ a[2] # 0 /\ XmsTyped(a[1])
      BY <2>2, CacheNumbers DEF TakenAt, OthersStay
    <3>2. r = Xms!Remember(a[1], f, a[2])
      BY <1>2, <3>1
    <3>3. ASSUME NEW t, f \in Files, Remembered(x, t, 0, 0)
          PROVE  Remembered(a[1], t, a[2], 0) /\ (Size[f] # 64 => a[1].blocks[a[2]].kb = Size[f])
      <4>1. Remembered(y, t, 0, 0)
        BY <1>4, <3>3, EvictedRemembers
      <4>2. Remembered(a[1], t, a[2], 0) /\ a[1].blocks[a[2]].kb = ask
        BY <1>4, <2>2, <4>1, TakenRemembers
      <4> QED BY <1>1, <3>3, <4>2
    <3> QED BY <3>1, <3>2, <3>3, RememberServes
  <2> QED BY <1>4, <2>1, <2>2
<1>6. CASE r[2] = 0
  <2>1. c = [xms |-> r[1], handle |-> 0, spoilt |-> FALSE]
    BY <1>2, <1>6
  <2>2. c.xms = r[1] /\ c.handle = 0 /\ c.spoilt = FALSE
    BY <2>1
  <2> QED BY <1>5, <1>6, <2>2 DEF NewlyServed, CacheOutcome
<1>7. CASE r[2] # 0
  <2> DEFINE h == r[2]
  <2>1. c \in Xms!LoadData(r[1], f, h, open) /\ XmsTyped(r[1]) /\ h \in Blocks
    BY <1>2, <1>5, <1>7 DEF NewlyServed
  <2>2. LoadedIn(r[1], c, f, h)
    BY <2>1, LoadDataLoads
  <2>3. CacheOutcome(c)
    BY <2>1, <2>2 DEF LoadedIn, CacheOutcome
  <2>4. ASSUME NEW t, NEW u, NEW s \in Slots, f \in Files, ~c.spoilt, Remembered(x, t, 0, 0),
               Served(t, u, s, f, c.handle)
        PROVE  Remembered(c.xms, u, 0, 0)
    <3>1. c.handle = h /\ StoredAt(r[1], c.xms, h, f) /\ Size[f] # 64
      BY <2>2, <2>4, CacheNumbers DEF LoadedIn
    <3>2. Remembered(r[1], u, 0, h) /\ HasItemOf(r[1], h, f)
      BY <1>5, <1>7, <2>4, <3>1 DEF NewlyServed
    <3> QED BY <2>1, <2>4, <3>1, <3>2, StoredRemembers
  <2> QED BY <2>3, <2>4
<1> QED BY <1>6, <1>7

(* pal_cache() of DOS: whoever is served gets its own file, counted.       *)
LEMMA CacheXmsCaches ==
  ASSUME NEW x, XmsTyped(x), NEW f \in Files \union {NoFile}, NEW open,
         NEW c \in Xms!CacheXms(x, f, open)
  PROVE  /\ CacheOutcome(c)
         /\ \A t, u : \A s \in Slots :
              f \in Files /\ ~c.spoilt /\ Remembered(x, t, 0, 0) /\ Served(t, u, s, f, c.handle)
                => Remembered(c.xms, u, 0, 0)
<1> DEFINE y == Xms!Aged(x)
<1>1. XmsTyped(y) /\ SameItems(x, y)
  BY AgedAre
<1>2. \A t : Remembered(x, t, 0, 0) => Remembered(y, t, 0, 0)
  BY <1>1, AgedRemembers
<1>3. \/ \E i \in Items : \E hit : /\ hit # 0 /\ x.items[i].file = f /\ x.items[i].handle = hit
                             /\ c \in Xms!LoadData(Xms!LockCache(y, hit), f, hit, open)
      \/ MissesIn(y, c, f, open)
  BY CacheXmsIs
<1> HIDE DEF y
<1>4. ASSUME NEW i \in Items, NEW hit, hit # 0, x.items[i].file = f, x.items[i].handle = hit,
             c \in Xms!LoadData(Xms!LockCache(y, hit), f, hit, open)
      PROVE  /\ CacheOutcome(c)
             /\ \A t, u : \A s \in Slots :
                  f \in Files /\ ~c.spoilt /\ Remembered(y, t, 0, 0) /\ Served(t, u, s, f, c.handle)
                    => Remembered(c.xms, u, 0, 0)
  <2>1. y.items[i].file = f /\ y.items[i].handle = hit
    BY <1>1, <1>4 DEF SameItems
  <2> QED BY <1>1, <1>4, <2>1, HitsAreServed
<1>5. /\ CacheOutcome(c)
      /\ \A t, u : \A s \in Slots :
           f \in Files /\ ~c.spoilt /\ Remembered(y, t, 0, 0) /\ Served(t, u, s, f, c.handle)
             => Remembered(c.xms, u, 0, 0)
  BY <1>1, <1>3, <1>4, MissesAreServed
<1> QED BY <1>2, <1>5

------------------------------------------------------------------------------
(* The cache of conventional memory when no block was spoilt: whoever reads*)
(* has a block of its own, filled with its file, and no other is given out.*)
ReadsOwn(x, t, s) ==
  /\ t[s].ref \in Blocks
  /\ x.blocks[t[s].ref].kb >= 0 /\ x.blocks[t[s].ref].data = t[s].file
FarHeld(x, t) ==
  /\ \A s \in Slots : ReadAt(t, s) => ReadsOwn(x, t, s)
  /\ \A r, s \in Slots : ReadAt(t, r) /\ ReadAt(t, s) /\ t[r].ref = t[s].ref => r = s
  /\ \A h \in Blocks : x.blocks[h].kb >= 0 => \E s \in Slots : ReadAt(t, s) /\ t[s].ref = h

(* The stores into conventional memory, and the outcomes of loading.       *)
StoredFar(x, y, h, f) == OthersStay(x, y, h) /\ y.blocks[h].kb = x.blocks[h].kb /\ y.blocks[h].data = f
LoadedFar(x, c, f, h) ==
  /\ XmsTyped(c.xms) /\ c.handle \in {0, h} /\ c.spoilt \in BOOLEAN
  /\ ~c.spoilt => c.handle = h /\ StoredFar(x, c.xms, h, f) /\ f \notin SpillingFiles

LEMMA DataChanged ==
  ASSUME NEW x, XmsTyped(x), NEW h \in Blocks, NEW d \in Files \union {NoFile}
  PROVE  StoredFar(x, [x EXCEPT !.blocks[h].data = d], h, d)
<1> DEFINE b == [x.blocks[h] EXCEPT !.data = d]
           y == [x EXCEPT !.blocks[h] = b]
<1>1. x.blocks[h] \in Xms!Block
  BY XmsParts
<1>2. b \in Xms!Block /\ b.kb = x.blocks[h].kb /\ b.data = d
  BY <1>1 DEF Xms!Block
<1>3. [x EXCEPT !.blocks[h].data = d] = y
  OBVIOUS
<1> HIDE DEF b
<1>4. OthersStay(x, y, h) /\ y.blocks[h] = b
  BY <1>2, OthersAre
<1> QED BY <1>2, <1>3, <1>4 DEF StoredFar

LEMMA StoreFarStores ==
  ASSUME NEW x, XmsTyped(x), NEW h \in Blocks, NEW f \in Files \union {NoFile},
         NEW y \in Xms!StoreFar(x, h, f)
  PROVE  XmsTyped(y) /\ (f \notin SpillingFiles => StoredFar(x, y, h, f))
<1> DEFINE z == [x EXCEPT !.blocks[h].data = f]
           behind == {k \in Blocks \ {h} : f \in SpillingFiles /\ Xms!IsGivenOut(x, k)}
<1>1. StoredFar(x, z, h, f)
  BY DataChanged
<1>2. y = z \/ \E k \in behind : y = [z EXCEPT !.blocks[k].data = NoFile]
  BY DEF Xms!StoreFar, Blocks
<1>3. behind \subseteq Blocks /\ (behind # {} => f \in SpillingFiles)
  OBVIOUS
<1> HIDE DEF z, behind
<1>4. XmsTyped(z)
  BY <1>1 DEF StoredFar, OthersStay
<1>5. ASSUME NEW k \in behind, y = [z EXCEPT !.blocks[k].data = NoFile] PROVE XmsTyped(y)
  <2>1. k \in Blocks /\ NoFile \in Files \union {NoFile}
    BY <1>3
  <2>2. StoredFar(z, y, k, NoFile)
    BY <1>4, <1>5, <2>1, DataChanged
  <2> QED BY <2>2 DEF StoredFar, OthersStay
<1> QED BY <1>1, <1>2, <1>3, <1>4, <1>5

LEMMA LoadFarLoads ==
  ASSUME NEW x, XmsTyped(x), NEW f \in Files \union {NoFile}, NEW h \in Blocks, NEW open,
         NEW c \in Xms!LoadFar(x, f, h, open)
  PROVE  LoadedFar(x, c, f, h)
<1> DEFINE spills == f \in SpillingFiles
<1>1. \/ c = [xms |-> Xms!FreeXms(x, h), handle |-> 0, spoilt |-> TRUE]
      \/ \E y \in Xms!StoreFar(x, h, f) : c = [xms |-> y, handle |-> h, spoilt |-> spills]
      \/ c = [xms |-> x, handle |-> h, spoilt |-> TRUE]
  BY DEF Xms!LoadFar, Xms!NoHandle
<1>2. spills \in BOOLEAN /\ (~spills => f \notin SpillingFiles)
  OBVIOUS
<1> HIDE DEF spills
<1>3. FreedAt(x, Xms!FreeXms(x, h), h)
  BY FreeXmsFrees
<1>4. CASE c = [xms |-> Xms!FreeXms(x, h), handle |-> 0, spoilt |-> TRUE]
  BY <1>3, <1>4 DEF LoadedFar, FreedAt, OthersStay
<1>5. ASSUME NEW y \in Xms!StoreFar(x, h, f), c = [xms |-> y, handle |-> h, spoilt |-> spills]
      PROVE  LoadedFar(x, c, f, h)
  <2>1. c.xms = y /\ c.handle = h /\ c.spoilt = spills
    BY <1>5
  <2>2. XmsTyped(y) /\ (f \notin SpillingFiles => StoredFar(x, y, h, f))
    BY StoreFarStores
  <2> QED BY <1>2, <2>1, <2>2 DEF LoadedFar
<1>6. CASE c = [xms |-> x, handle |-> h, spoilt |-> TRUE]
  BY <1>6 DEF LoadedFar
<1> QED BY <1>1, <1>4, <1>5, <1>6

LEMMA CacheFarCaches ==
  ASSUME NEW x, XmsTyped(x), NEW f \in Files \union {NoFile}, NEW open,
         NEW c \in Xms!CacheFar(x, f, open)
  PROVE  /\ CacheOutcome(c)
         /\ \A t, u : \A s \in Slots :
              f \in Files /\ ~c.spoilt /\ FarHeld(x, t) /\ Served(t, u, s, f, c.handle)
                => FarHeld(c.xms, u)
<1> DEFINE kb == Xms!FarKb(f)
<1>1. kb \in 0 .. 64
  BY KbIsSize, AskedIs DEF Xms!FarKb
<1>0. \/ c = [xms |-> x, handle |-> 0, spoilt |-> FALSE]
      \/ \E a \in Xms!Take(x, kb) : c \in Xms!LoadFar(a[1], f, a[2], open)
  BY DEF Xms!CacheFar, Xms!NoHandle
<1> HIDE DEF kb
<1>2. CASE c = [xms |-> x, handle |-> 0, spoilt |-> FALSE]
  <2>2. c.xms = x /\ c.handle = 0 /\ c.spoilt = FALSE
    BY <1>2
  <2>3. ASSUME NEW t, NEW u, SameReaders(t, u), FarHeld(x, t) PROVE FarHeld(x, u)
    BY <2>3 DEF SameReaders, SameAt, FarHeld, ReadsOwn
  <2> QED BY <2>2, <2>3 DEF CacheOutcome, Served
<1>3. ASSUME NEW a \in Xms!Take(x, kb), c \in Xms!LoadFar(a[1], f, a[2], open)
      PROVE  /\ CacheOutcome(c)
             /\ \A t, u : \A s \in Slots :
                  f \in Files /\ ~c.spoilt /\ FarHeld(x, t) /\ Served(t, u, s, f, c.handle)
                    => FarHeld(c.xms, u)
  <2> DEFINE y == a[1]
             h == a[2]
  <2>2. TakenAt(x, y, h, kb)
    BY <1>1, TakeTakes
  <2>3. XmsTyped(y) /\ h \in Blocks /\ h # 0
    BY <2>2, CacheNumbers DEF TakenAt, OthersStay
  <2>4. LoadedFar(y, c, f, h)
    BY <1>3, <2>3, LoadFarLoads
  <2> HIDE DEF y, h
  <2>5. CacheOutcome(c)
    BY <2>3, <2>4 DEF LoadedFar, CacheOutcome
  <2>6. ASSUME NEW t, NEW u, NEW s \in Slots, f \in Files, ~c.spoilt, FarHeld(x, t),
               Served(t, u, s, f, c.handle)
        PROVE  FarHeld(c.xms, u)
    <3> DEFINE z == c.xms
    <3>1. c.handle = h /\ StoredFar(y, z, h, f)
      BY <2>4, <2>6 DEF LoadedFar
    <3>2. Gains(t, u, s, f, h)
      BY <2>3, <2>6, <3>1 DEF Served
    <3>3. /\ z.blocks[h].kb = kb /\ z.blocks[h].data = f
          /\ \A k \in Blocks : k # h => z.blocks[k] = x.blocks[k]
      <4>1. y.blocks[h].kb = kb
        BY <2>2, <2>3 DEF TakenAt
      <4> QED BY <2>2, <2>3, <3>1, <4>1 DEF TakenAt, OthersStay, StoredFar
    <3>4. \A q \in Slots : ReadAt(t, q) => t[q].ref # h
      BY <2>2, <2>6 DEF TakenAt, FarHeld, ReadsOwn
    <3> HIDE DEF z
    <3>5. ASSUME NEW q \in Slots, ReadAt(u, q) PROVE ReadsOwn(z, u, q)
      <4>1. CASE q = s
        BY <1>1, <2>3, <2>6, <3>2, <3>3, <4>1 DEF Gains, ReadsOwn
      <4>2. CASE q # s
        BY <2>6, <3>2, <3>3, <3>4, <3>5, <4>2 DEF Gains, SameAt, FarHeld, ReadsOwn
      <4> QED BY <4>1, <4>2
    <3>6. \A q, r \in Slots : ReadAt(u, r) /\ ReadAt(u, q) /\ u[r].ref = u[q].ref => r = q
      BY <2>6, <3>2, <3>4 DEF Gains, SameAt, FarHeld
    <3>7. ASSUME NEW k \in Blocks, z.blocks[k].kb >= 0
          PROVE  \E q \in Slots : ReadAt(u, q) /\ u[q].ref = k
      <4>1. CASE k = h
        BY <3>2, <4>1 DEF Gains
      <4>2. CASE k # h
        <5>1. PICK q \in Slots : ReadAt(t, q) /\ t[q].ref = k
          BY <2>6, <3>3, <3>7, <4>2 DEF FarHeld
        <5>2. q # s
          BY <3>2, <5>1 DEF Gains
        <5> QED BY <3>2, <5>1, <5>2 DEF Gains, SameAt
      <4> QED BY <4>1, <4>2
    <3>8. FarHeld(z, u)
      BY <3>5, <3>6, <3>7 DEF FarHeld
    <3> QED BY <3>8 DEF z
  <2> QED BY <2>5, <2>6
<1> QED BY <1>0, <1>2, <1>3

LEMMA DiscardFarHolds ==
  ASSUME NEW x, XmsTyped(x), NEW t, FarHeld(x, t), NEW u, NEW s \in Slots, Drops(t, u, s)
  PROVE  FarHeld(Xms!DiscardFar(x, t[s].ref), u)
<1> DEFINE h == t[s].ref
           y == Xms!FreeXms(x, h)
<1>1. FreedAt(x, y, h)
  BY FreeXmsFrees
<1>2. Xms!DiscardFar(x, t[s].ref) = y
  BY DEF Xms!DiscardFar
<1>3. ReadAt(t, s) /\ h \in Blocks
  BY DEF Drops, FarHeld, ReadsOwn
<1>4. ~(-1 >= 0)
  OBVIOUS
<1> HIDE DEF y
<1>5. \A q \in Slots : ReadAt(u, q) =>
        q # s /\ ReadAt(t, q) /\ u[q].ref = t[q].ref /\ u[q].file = t[q].file /\ t[q].ref # h
  BY <1>3 DEF Drops, SameAt, FarHeld
<1>6. \A q \in Slots : ReadAt(u, q) => ReadsOwn(y, u, q)
  BY <1>1, <1>5 DEF FreedAt, OthersStay, FarHeld, ReadsOwn
<1>7. \A q, r \in Slots : ReadAt(u, r) /\ ReadAt(u, q) /\ u[r].ref = u[q].ref => r = q
  BY <1>5 DEF FarHeld
<1>8. ASSUME NEW k \in Blocks, y.blocks[k].kb >= 0
      PROVE  \E q \in Slots : ReadAt(u, q) /\ u[q].ref = k
  <2>1. k # h /\ x.blocks[k].kb >= 0
    BY <1>1, <1>3, <1>4, <1>8 DEF FreedAt, OthersStay
  <2>2. PICK q \in Slots : ReadAt(t, q) /\ t[q].ref = k
    BY <2>1 DEF FarHeld
  <2> QED BY <2>1, <2>2 DEF Drops, SameAt
<1>9. FarHeld(y, u)
  BY <1>6, <1>7, <1>8 DEF FarHeld
<1> QED BY <1>2, <1>9

------------------------------------------------------------------------------
(* The caches of Linux and Windows: an item is a view for one slot, and    *)
(* there are as many views, and uses of the mapping, as items.  A slot may *)
(* also read a buffer, as if it were a view, once something was spoilt.    *)
Views == 1 .. MaxCache
UsedOf(m) == {i \in Views : m.items[i] # NoFile}
ViewsCounted(m) ==
  /\ m.mapped = IF platform = "windows" THEN Cardinality(UsedOf(m)) ELSE 0
  /\ ~release => m.views = Cardinality(UsedOf(m))
MapHeld(m, t) ==
  /\ \A s \in Slots : ReadAt(t, s) =>
       t[s].ref \in Views \union Buffers /\ (t[s].ref \in Views => m.items[t[s].ref] # NoFile)
  /\ \A r, s \in Slots : ReadAt(t, r) /\ ReadAt(t, s) /\ t[r].ref = t[s].ref /\ t[s].ref \in Views
                           => r = s
  /\ \A i \in UsedOf(m) : \E s \in Slots : ReadAt(t, s) /\ t[s].ref = i
  /\ ViewsCounted(m)
(* As long as nothing was spoilt, everybody's view is of its own file.     *)
ViewsOwn(m, t) ==
  \A s \in Slots : ReadAt(t, s) => t[s].ref \in Views /\ m.items[t[s].ref] = t[s].file

LEMMA ViewsAreNumbers ==
  /\ Views \subseteq Nat \ {0} /\ Buffers \subseteq Nat \ {0}
  /\ Views \intersect Buffers = {} /\ Blocks \intersect Buffers = {}
BY CacheNumbers DEF Views, Buffers, Blocks, Xms!Handles

LEMMA UsedAre ==
  ASSUME NEW m
  PROVE  /\ IsFiniteSet(UsedOf(m)) /\ Cardinality(UsedOf(m)) \in Nat
         /\ Cardinality(UsedOf(m)) = 0 <=> UsedOf(m) = {}
<1>1. 1 \in Int /\ MaxCache \in Int
  BY CacheNumbers
<1>2. IsFiniteSet(1 .. MaxCache)
  BY <1>1, FS_Interval, Zenon
<1>3. IsFiniteSet(UsedOf(m))
  BY <1>2, FS_Subset DEF UsedOf, Views
<1> QED BY <1>3, FS_CardinalityType, FS_EmptySet

(* An item is taken, or given up.                                          *)
LEMMA MappedParts ==
  ASSUME NEW m \in Mapped!MappedState
  PROVE  /\ m = [items |-> m.items, views |-> m.views, mapped |-> m.mapped]
         /\ m.items \in [Views -> Files \union {NoFile}]
         /\ m.views \in 0 .. MaxViews /\ m.views \in Nat /\ m.mapped \in Nat
BY CacheNumbers DEF Mapped!MappedState, Views

ViewTaken(m, n, i, f) ==
  /\ n.items = [m.items EXCEPT ![i] = f] /\ n.views = m.views + 1
  /\ n.mapped = IF platform = "windows" THEN m.mapped + 1 ELSE m.mapped
  /\ n = [items |-> n.items, views |-> n.views, mapped |-> n.mapped]
ViewLeft(m, n, i) ==
  /\ n.items = [m.items EXCEPT ![i] = NoFile]
  /\ n.views = IF release THEN m.views ELSE m.views - 1
  /\ n.mapped = IF platform = "windows" THEN m.mapped - 1 ELSE m.mapped
  /\ n = [items |-> n.items, views |-> n.views, mapped |-> n.mapped]

LEMMA CacheMappedMaps ==
  ASSUME NEW m \in Mapped!MappedState, NEW f \in Files,
         NEW c \in Mapped!CacheMapped(m, f, TRUE, platform = "windows")
  PROVE  \/ c[1] = m /\ c[2] = 0
         \/ /\ c[2] \in Views /\ m.items[c[2]] = NoFile /\ m.views < MaxViews
            /\ ViewTaken(m, c[1], c[2], f)
<1> DEFINE w == platform = "windows"
           took(i) == [Mapped!Acquire(m, w) EXCEPT !.items[i] = f, !.views = @ + 1]
<1>1. \/ c = <<m, 0>>
      \/ \E i \in Mapped!FreeItems(m) : m.views < MaxViews /\ c = <<took(i), i>>
  BY DEF Mapped!CacheMapped
<1>2. ASSUME NEW i \in Mapped!FreeItems(m) PROVE ViewTaken(m, took(i), i, f)
  <2> DEFINE b == Mapped!Acquire(m, w)
             p == IF w THEN m.mapped + 1 ELSE m.mapped
             l == [b EXCEPT !.items[i] = f, !.views = @ + 1]
  <2>1. b = [items |-> m.items, views |-> m.views, mapped |-> p]
    <3>1. CASE w
      BY <3>1, MappedParts DEF Mapped!Acquire
    <3>2. CASE ~w
      BY <3>2, MappedParts DEF Mapped!Acquire
    <3> QED BY <3>1, <3>2
  <2>2. took(i) = l
    OBVIOUS
  <2> HIDE DEF b, p
  <2>3. l = [items |-> [m.items EXCEPT ![i] = f], views |-> m.views + 1, mapped |-> p]
    <3> DEFINE k == [b EXCEPT !.items[i] = f]
    <3>1. k = [items |-> [m.items EXCEPT ![i] = f], views |-> m.views, mapped |-> p]
      BY <2>1
    <3>2. l = [k EXCEPT !.views = @ + 1]
      OBVIOUS
    <3> HIDE DEF k, l
    <3> QED BY <3>1, <3>2
  <2> HIDE DEF took, l
  <2>4. /\ l.items = [m.items EXCEPT ![i] = f] /\ l.views = m.views + 1 /\ l.mapped = p
        /\ l = [items |-> l.items, views |-> l.views, mapped |-> l.mapped]
    BY <2>3
  <2> QED BY <2>2, <2>4 DEF ViewTaken, p
<1> HIDE DEF took
<1>3. CASE c = <<m, 0>>
  BY <1>3
<1>4. ASSUME NEW i \in Mapped!FreeItems(m), m.views < MaxViews, c = <<took(i), i>>
      PROVE  /\ c[2] \in Views /\ m.items[c[2]] = NoFile /\ m.views < MaxViews
             /\ ViewTaken(m, c[1], c[2], f)
  <2>1. i \in Views /\ m.items[i] = NoFile
    BY DEF Mapped!FreeItems, Views
  <2>2. c[1] = took(i) /\ c[2] = i
    BY <1>4
  <2> QED BY <1>2, <1>4, <2>1, <2>2
<1> QED BY <1>1, <1>3, <1>4

LEMMA DiscardMappedUnmaps ==
  ASSUME NEW m \in Mapped!MappedState, NEW h
  PROVE  LET n == Mapped!DiscardMapped(m, h, platform = "windows", release)
         IN  IF h \in Views THEN ViewLeft(m, n, h) ELSE n = m
<1> DEFINE w == platform = "windows"
           n == Mapped!DiscardMapped(m, h, w, release)
<1>1. CASE h \notin Views
  BY <1>1 DEF Mapped!DiscardMapped, Views
<1>2. CASE h \in Views
  <2> DEFINE v == IF release THEN m.views ELSE m.views - 1
             p == IF w THEN m.mapped - 1 ELSE m.mapped
             b == Mapped!Release(m, w)
             l == [b EXCEPT !.items[h] = NoFile]
  <2>1. n = IF release THEN l ELSE [l EXCEPT !.views = @ - 1]
    BY <1>2 DEF Mapped!DiscardMapped, Views
  <2>2. b = [items |-> m.items, views |-> m.views, mapped |-> p]
    <3>1. CASE w
      BY <3>1, MappedParts DEF Mapped!Release
    <3>2. CASE ~w
      BY <3>2, MappedParts DEF Mapped!Release
    <3> QED BY <3>1, <3>2
  <2> HIDE DEF b, p, n
  <2>3. l = [items |-> [m.items EXCEPT ![h] = NoFile], views |-> m.views, mapped |-> p]
    BY <2>2
  <2> HIDE DEF l
  <2>4. n = [items |-> [m.items EXCEPT ![h] = NoFile], views |-> v, mapped |-> p]
    <3>1. CASE release
      BY <2>1, <2>3, <3>1
    <3>2. CASE ~release
      BY <2>1, <2>3, <3>2
    <3> QED BY <3>1, <3>2
  <2> HIDE DEF v
  <2>5. /\ n.items = [m.items EXCEPT ![h] = NoFile] /\ n.views = v /\ n.mapped = p
        /\ n = [items |-> n.items, views |-> n.views, mapped |-> n.mapped]
    BY <2>4
  <2>6. ViewLeft(m, n, h)
    BY <2>5 DEF ViewLeft, v, p
  <2> QED BY <1>2, <2>6 DEF n
<1> QED BY <1>1, <1>2

LEMMA ViewsChange ==
  ASSUME NEW m \in Mapped!MappedState, NEW n, NEW i \in Views
  PROVE  /\ \A f \in Files : m.items[i] = NoFile /\ n.items = [m.items EXCEPT ![i] = f]
                => /\ UsedOf(n) = UsedOf(m) \union {i} /\ i \notin UsedOf(m)
                   /\ Cardinality(UsedOf(n)) = Cardinality(UsedOf(m)) + 1
         /\ m.items[i] # NoFile /\ n.items = [m.items EXCEPT ![i] = NoFile]
                => /\ UsedOf(n) = UsedOf(m) \ {i} /\ i \in UsedOf(m)
                   /\ Cardinality(UsedOf(n)) = Cardinality(UsedOf(m)) - 1
<1>1. m.items \in [Views -> Files \union {NoFile}]
  BY MappedParts
<1>2. ASSUME NEW f \in Files, m.items[i] = NoFile, n.items = [m.items EXCEPT ![i] = f]
      PROVE  /\ UsedOf(n) = UsedOf(m) \union {i} /\ i \notin UsedOf(m)
             /\ Cardinality(UsedOf(n)) = Cardinality(UsedOf(m)) + 1
  <2>1. UsedOf(n) = UsedOf(m) \union {i} /\ i \notin UsedOf(m)
    BY <1>1, <1>2, CacheNumbers DEF UsedOf
  <2> QED BY <2>1, UsedAre, FS_AddElement
<1>3. ASSUME m.items[i] # NoFile, n.items = [m.items EXCEPT ![i] = NoFile]
      PROVE  /\ UsedOf(n) = UsedOf(m) \ {i} /\ i \in UsedOf(m)
             /\ Cardinality(UsedOf(n)) = Cardinality(UsedOf(m)) - 1
  <2>1. UsedOf(n) = UsedOf(m) \ {i} /\ i \in UsedOf(m)
    BY <1>1, <1>3 DEF UsedOf
  <2> QED BY <2>1, UsedAre, FS_RemoveElement
<1> QED BY <1>2, <1>3

(* The view that is made is of file e, whoever asked for it.               *)
LEMMA CacheMappedHolds ==
  ASSUME NEW m \in Mapped!MappedState, NEW e \in Files, NEW f \in Files,
         NEW c \in Mapped!CacheMapped(m, e, TRUE, platform = "windows")
  PROVE  /\ c[1] \in Mapped!MappedState /\ c[2] \in {0} \union Views
         /\ \A t, u : \A s \in Slots :
              MapHeld(m, t) /\ Served(t, u, s, f, c[2])
                => MapHeld(c[1], u) /\ (e = f /\ ViewsOwn(m, t) => ViewsOwn(c[1], u))
<1> DEFINE n == c[1]
           i == c[2]
<1>1. \/ n = m /\ i = 0
      \/ i \in Views /\ m.items[i] = NoFile /\ m.views < MaxViews /\ ViewTaken(m, n, i, e)
  BY CacheMappedMaps
<1> HIDE DEF n, i
<1>2. CASE n = m /\ i = 0
  <2>1. ASSUME NEW t, NEW u, SameReaders(t, u), MapHeld(m, t)
        PROVE  MapHeld(m, u) /\ (ViewsOwn(m, t) => ViewsOwn(m, u))
    BY <2>1 DEF SameReaders, SameAt, MapHeld, ViewsOwn
  <2> QED BY <1>2, <2>1 DEF Served, n, i
<1>3. CASE i \in Views /\ m.items[i] = NoFile /\ m.views < MaxViews /\ ViewTaken(m, n, i, e)
  <2>1. n \in Mapped!MappedState
    <3>1. n.items \in [Views -> Files \union {NoFile}]
      BY <1>3, MappedParts DEF ViewTaken
    <3>2. n.views \in 0 .. MaxViews /\ n.mapped \in Nat
      BY <1>3, MappedParts, CacheNumbers DEF ViewTaken
    <3>3. n = [items |-> n.items, views |-> n.views, mapped |-> n.mapped]
      BY <1>3 DEF ViewTaken
    <3> QED BY <3>1, <3>2, <3>3 DEF Mapped!MappedState, Views
  <2>2. /\ UsedOf(n) = UsedOf(m) \union {i} /\ i \notin UsedOf(m)
        /\ Cardinality(UsedOf(n)) = Cardinality(UsedOf(m)) + 1
    <3>1. i \in Views /\ m.items[i] = NoFile /\ n.items = [m.items EXCEPT ![i] = e]
      BY <1>3 DEF ViewTaken
    <3>2. \A g \in Files : m.items[i] = NoFile /\ n.items = [m.items EXCEPT ![i] = g]
            => /\ UsedOf(n) = UsedOf(m) \union {i} /\ i \notin UsedOf(m)
               /\ Cardinality(UsedOf(n)) = Cardinality(UsedOf(m)) + 1
      BY <3>1, ViewsChange
    <3> QED BY <3>1, <3>2
  <2>3. /\ n.items[i] = e /\ e # NoFile /\ \A j \in Views : j # i => n.items[j] = m.items[j]
    BY <1>3, MappedParts, CacheNumbers DEF ViewTaken
  <2>4. ASSUME NEW t, NEW u, NEW s \in Slots, MapHeld(m, t), Served(t, u, s, f, i)
        PROVE  MapHeld(n, u) /\ (e = f /\ ViewsOwn(m, t) => ViewsOwn(n, u))
    <3>1. Gains(t, u, s, f, i)
      BY <1>3, <2>4, ViewsAreNumbers DEF Served
    <3>2. \A q \in Slots : ReadAt(t, q) => t[q].ref # i /\ t[q].file # NoFile
      BY <1>3, <2>4 DEF MapHeld, ReadAt
    <3>3. \A q \in Slots : ReadAt(u, q) =>
            /\ u[q].ref \in Views \union Buffers
            /\ u[q].ref \in Views => n.items[u[q].ref] # NoFile
      BY <1>3, <2>3, <2>4, <3>1, <3>2 DEF Gains, SameAt, MapHeld
    <3>4. \A q, r \in Slots : ReadAt(u, r) /\ ReadAt(u, q) /\ u[r].ref = u[q].ref
                                /\ u[q].ref \in Views => r = q
      BY <2>4, <3>1, <3>2 DEF Gains, SameAt, MapHeld
    <3>5. ASSUME NEW j \in UsedOf(n) PROVE \E q \in Slots : ReadAt(u, q) /\ u[q].ref = j
      <4>1. CASE j = i
        BY <3>1, <4>1 DEF Gains
      <4>2. CASE j # i
        <5>1. PICK q \in Slots : ReadAt(t, q) /\ t[q].ref = j
          BY <2>2, <2>4, <4>2 DEF MapHeld
        <5>2. q # s
          BY <3>1, <5>1 DEF Gains
        <5> QED BY <3>1, <5>1, <5>2 DEF Gains, SameAt
      <4> QED BY <4>1, <4>2
    <3>6. ViewsCounted(n)
      <4>1. ViewsCounted(m) /\ Cardinality(UsedOf(m)) \in Nat
        BY <2>4, UsedAre DEF MapHeld
      <4> QED BY <1>3, <2>2, <4>1, MappedParts DEF ViewTaken, ViewsCounted
    <3>7. e = f /\ ViewsOwn(m, t) => ViewsOwn(n, u)
      BY <1>3, <2>3, <3>1, <3>2 DEF Gains, SameAt, ViewsOwn
    <3> QED BY <3>3, <3>4, <3>5, <3>6, <3>7 DEF MapHeld
  <2> QED BY <1>3, <2>1, <2>4 DEF n, i
<1> QED BY <1>1, <1>2, <1>3

LEMMA DiscardMappedHolds ==
  ASSUME NEW m \in Mapped!MappedState, NEW t, MapHeld(m, t), NEW u, NEW s \in Slots, Drops(t, u, s)
  PROVE  LET n == Mapped!DiscardMapped(m, t[s].ref, platform = "windows", release)
         IN  n \in Mapped!MappedState /\ MapHeld(n, u) /\ (ViewsOwn(m, t) => ViewsOwn(n, u))
<1> DEFINE h == t[s].ref
           n == Mapped!DiscardMapped(m, h, platform = "windows", release)
<1>1. IF h \in Views THEN ViewLeft(m, n, h) ELSE n = m
  BY DiscardMappedUnmaps
<1>2. /\ ReadAt(t, s) /\ t[s].file # NoFile
      /\ h \in Views => m.items[h] # NoFile
  BY DEF Drops, MapHeld, ReadAt
<1> HIDE DEF n
<1>3. \A q \in Slots : ReadAt(u, q) =>
        /\ q # s /\ ReadAt(t, q) /\ u[q].ref = t[q].ref /\ u[q].file = t[q].file
        /\ h \in Views => t[q].ref # h
  BY <1>2 DEF Drops, SameAt, MapHeld
<1>4. \A q, r \in Slots : ReadAt(u, r) /\ ReadAt(u, q) /\ u[r].ref = u[q].ref
                            /\ u[q].ref \in Views => r = q
  BY <1>3 DEF MapHeld
<1>5. CASE h \notin Views
  <2>1. n = m
    BY <1>1, <1>5
  <2>2. \A i \in UsedOf(m) : \E q \in Slots : ReadAt(u, q) /\ u[q].ref = i
    <3> SUFFICES ASSUME NEW i \in UsedOf(m) PROVE \E q \in Slots : ReadAt(u, q) /\ u[q].ref = i
      OBVIOUS
    <3>1. PICK q \in Slots : ReadAt(t, q) /\ t[q].ref = i
      BY DEF MapHeld
    <3>2. q # s
      BY <1>5, <3>1 DEF UsedOf
    <3> QED BY <3>1, <3>2 DEF Drops, SameAt
  <2>3. MapHeld(m, u)
    BY <1>3, <1>4, <2>2 DEF MapHeld
  <2>4. ViewsOwn(m, t) => ViewsOwn(m, u)
    BY <1>3 DEF ViewsOwn
  <2> QED BY <2>1, <2>3, <2>4 DEF n
<1>6. CASE h \in Views
  <2>1. ViewLeft(m, n, h) /\ m.items[h] # NoFile
    BY <1>1, <1>2, <1>6
  <2>2. /\ UsedOf(n) = UsedOf(m) \ {h} /\ h \in UsedOf(m)
        /\ Cardinality(UsedOf(n)) = Cardinality(UsedOf(m)) - 1
    <3> HIDE DEF h
    <3> QED BY <1>6, <2>1, ViewsChange DEF ViewLeft
  <2>3. /\ ViewsCounted(m) /\ Cardinality(UsedOf(m)) \in Nat
        /\ Cardinality(UsedOf(m)) # 0
    BY <2>2, UsedAre DEF MapHeld
  <2>4. \A j \in Views : j # h => n.items[j] = m.items[j]
    BY <1>6, <2>1, MappedParts DEF ViewLeft
  <2>5. n \in Mapped!MappedState
    <3>1. n.items \in [Views -> Files \union {NoFile}]
      BY <1>6, <2>1, MappedParts DEF ViewLeft
    <3>2. n.views \in 0 .. MaxViews
      <4>1. CASE release
        BY <2>1, <4>1, MappedParts DEF ViewLeft
      <4>2. CASE ~release
        BY <2>1, <2>3, <4>2, MappedParts, CacheNumbers DEF ViewLeft, ViewsCounted
      <4> QED BY <4>1, <4>2
    <3>3. n.mapped \in Nat
      BY <2>1, <2>3, MappedParts DEF ViewLeft, ViewsCounted
    <3>4. n = [items |-> n.items, views |-> n.views, mapped |-> n.mapped]
      BY <2>1 DEF ViewLeft
    <3> QED BY <3>1, <3>2, <3>3, <3>4 DEF Mapped!MappedState, Views
  <2>6. ViewsCounted(n)
    BY <2>1, <2>2, <2>3, MappedParts DEF ViewLeft, ViewsCounted
  <2>7. \A q \in Slots : ReadAt(u, q) =>
          /\ u[q].ref \in Views \union Buffers
          /\ u[q].ref \in Views => n.items[u[q].ref] # NoFile
    BY <1>3, <1>6, <2>4 DEF MapHeld
  <2>8. ASSUME NEW i \in UsedOf(n) PROVE \E q \in Slots : ReadAt(u, q) /\ u[q].ref = i
    <3>1. PICK q \in Slots : ReadAt(t, q) /\ t[q].ref = i
      BY <2>2 DEF MapHeld
    <3>2. q # s
      BY <2>2, <3>1
    <3> QED BY <3>1, <3>2 DEF Drops, SameAt
  <2>9. MapHeld(n, u)
    BY <1>4, <2>6, <2>7, <2>8 DEF MapHeld
  <2>10. ViewsOwn(m, t) => ViewsOwn(n, u)
    BY <1>3, <1>6, <2>4 DEF ViewsOwn
  <2> QED BY <2>5, <2>9, <2>10 DEF n
<1> QED BY <1>5, <1>6

------------------------------------------------------------------------------
(* The cache that was built, whatever it is, for the readers in a table:   *)
(* the blocks are only counted as long as none was spoilt, views always.   *)
Counts(x, m, sp, t) ==
  /\ XmsTyped(x) /\ m \in Mapped!MappedState
  /\ platform = "xms" /\ ~sp => Remembered(x, t, 0, 0)
  /\ platform = "far" /\ ~sp => FarHeld(x, t)
  /\ IsDos => UsedOf(m) = {}
  /\ ~IsDos => /\ MapHeld(m, t) /\ \A h \in Blocks : x.blocks[h].kb = -1
               /\ ~sp => ViewsOwn(m, t)

LEMMA SpoiltCounts ==
  ASSUME NEW x, NEW m, NEW t, NEW sp, Counts(x, m, sp, t) PROVE Counts(x, m, TRUE, t)
BY DEF Counts

LEMMA SameCounts ==
  ASSUME NEW x, NEW m, NEW sp, NEW t, Counts(x, m, sp, t), NEW u, SameReaders(t, u)
  PROVE  Counts(x, m, sp, u)
<1>1. Remembered(x, t, 0, 0) => Remembered(x, u, 0, 0)
  BY SameRemembers
<1>2. FarHeld(x, t) => FarHeld(x, u)
  BY DEF SameReaders, SameAt, FarHeld, ReadsOwn
<1>3. MapHeld(m, t) => MapHeld(m, u)
  BY DEF SameReaders, SameAt, MapHeld
<1>4. ViewsOwn(m, t) => ViewsOwn(m, u)
  BY DEF SameReaders, SameAt, ViewsOwn
<1> QED BY <1>1, <1>2, <1>3, <1>4 DEF Counts

(* A buffer is read as if it were a block.                                 *)
LEMMA BufferCounts ==
  ASSUME NEW x, NEW m, NEW sp, NEW t, Counts(x, m, sp, t), NEW u, NEW s \in Slots, NEW f,
         NEW b \in Buffers, Gains(t, u, s, f, b)
  PROVE  Counts(x, m, TRUE, u)
<1>1. ASSUME MapHeld(m, t) PROVE MapHeld(m, u)
  <2>1. b \notin Views
    BY ViewsAreNumbers
  <2>2. \A q \in Slots : ReadAt(u, q) =>
          /\ u[q].ref \in Views \union Buffers
          /\ u[q].ref \in Views => m.items[u[q].ref] # NoFile
    BY <1>1, <2>1 DEF Gains, SameAt, MapHeld
  <2>3. \A q, r \in Slots : ReadAt(u, r) /\ ReadAt(u, q) /\ u[r].ref = u[q].ref
                              /\ u[q].ref \in Views => r = q
    BY <1>1, <2>1 DEF Gains, SameAt, MapHeld
  <2>4. \A i \in UsedOf(m) : \E q \in Slots : ReadAt(u, q) /\ u[q].ref = i
    <3> SUFFICES ASSUME NEW i \in UsedOf(m) PROVE \E q \in Slots : ReadAt(u, q) /\ u[q].ref = i
      OBVIOUS
    <3>1. PICK q \in Slots : ReadAt(t, q) /\ t[q].ref = i
      BY <1>1 DEF MapHeld
    <3>2. q # s
      BY <3>1 DEF Gains
    <3> QED BY <3>1, <3>2 DEF Gains, SameAt
  <2> QED BY <1>1, <2>2, <2>3, <2>4 DEF MapHeld
<1> QED BY <1>1 DEF Counts

------------------------------------------------------------------------------
(* What a record of assets is made of, and what changes in it.             *)
FieldsAre(b, t, r, h, x, m, sp) ==
  b = [table |-> t, readable |-> r, heap |-> h, xms |-> x, mapped |-> m, spoilt |-> sp]

LEMMA FieldsOf ==
  ASSUME NEW b, NEW t, NEW r, NEW h, NEW x, NEW m, NEW sp, FieldsAre(b, t, r, h, x, m, sp)
  PROVE  /\ b.table = t /\ b.readable = r /\ b.heap = h /\ b.xms = x /\ b.mapped = m /\ b.spoilt = sp
         /\ IsTable(t) /\ sp \in BOOLEAN => IsAssets(b)
<1>1. b.table = t /\ b.readable = r /\ b.heap = h /\ b.xms = x /\ b.mapped = m /\ b.spoilt = sp
  BY DEF FieldsAre
<1> QED BY <1>1 DEF FieldsAre, IsAssets

LEMMA WithFields ==
  ASSUME NEW b, NEW t, NEW r, NEW h, NEW x, NEW m, NEW sp, FieldsAre(b, t, r, h, x, m, sp), NEW v
  PROVE  /\ FieldsAre([b EXCEPT !.table = v], v, r, h, x, m, sp)
         /\ FieldsAre([b EXCEPT !.readable = v], t, v, h, x, m, sp)
         /\ FieldsAre([b EXCEPT !.heap = v], t, r, v, x, m, sp)
         /\ FieldsAre([b EXCEPT !.xms = v], t, r, h, v, m, sp)
         /\ FieldsAre([b EXCEPT !.mapped = v], t, r, h, x, v, sp)
         /\ FieldsAre([b EXCEPT !.spoilt = v], t, r, h, x, m, v)
BY DEF FieldsAre

LEMMA AssetsAre ==
  ASSUME NEW a, IsAssets(a)
  PROVE  /\ FieldsAre(a, a.table, a.readable, a.heap, a.xms, a.mapped, a.spoilt)
         /\ IsTable(a.table) /\ a.spoilt \in BOOLEAN
BY DEF IsAssets, FieldsAre

(* Only the table changes, and only at one slot.                           *)
SlotSet(a, b, s, x) ==
  /\ IsAssets(b) /\ b.readable = a.readable /\ b.heap = a.heap /\ b.xms = a.xms
  /\ b.mapped = a.mapped /\ b.spoilt = a.spoilt
  /\ b.table[s] = x /\ \A q \in Slots : q # s => b.table[q] = a.table[q]

LEMMA PutSets ==
  ASSUME NEW a, IsAssets(a), NEW s \in Slots, NEW x, IsAsset(x)
  PROVE  SlotSet(a, Put(a, s, x), s, x)
<1> DEFINE t == [a.table EXCEPT ![s] = x]
           b == Put(a, s, x)
<1>1. /\ IsAssets(b) /\ b.table[s] = x
      /\ \A q \in Slots : q # s => b.table[q] = a.table[q]
  BY SlotChanges
<1>2. b = [a EXCEPT !.table = t]
  BY DEF Put
<1> HIDE DEF t, b
<1>3. FieldsAre(b, t, a.readable, a.heap, a.xms, a.mapped, a.spoilt)
  BY <1>2, AssetsAre, WithFields
<1>4. /\ b.readable = a.readable /\ b.heap = a.heap /\ b.xms = a.xms
      /\ b.mapped = a.mapped /\ b.spoilt = a.spoilt
  BY <1>3, FieldsOf
<1> QED BY <1>1, <1>4 DEF SlotSet, b

------------------------------------------------------------------------------
(* pal_discard(): one reader less.                                         *)
DiscardedFrom(a, d, h) ==
  /\ IsAssets(d) /\ d.table = a.table /\ d.readable = a.readable /\ d.heap = a.heap
  /\ d.spoilt = a.spoilt
  /\ platform = "xms" => d.xms = Xms!DiscardXms(a.xms, h) /\ d.mapped = a.mapped
  /\ platform = "far" => d.xms = Xms!DiscardFar(a.xms, h) /\ d.mapped = a.mapped
  /\ ~IsDos => /\ d.xms = a.xms
               /\ d.mapped = Mapped!DiscardMapped(a.mapped, h, platform = "windows", release)

LEMMA DiscardedIs == ASSUME NEW a, IsAssets(a), NEW h PROVE DiscardedFrom(a, Discarded(a, h), h)
<1> DEFINE d == Discarded(a, h)
<1>1. IsAssets(d) /\ d.table = a.table /\ d.spoilt = a.spoilt
  BY DiscardKeeps
<1>2. CASE platform = "xms"
  <2> DEFINE x == Xms!DiscardXms(a.xms, h)
  <2>1. d = [a EXCEPT !.xms = x]
    BY <1>2 DEF Discarded
  <2> HIDE DEF x, d
  <2>2. FieldsAre(d, a.table, a.readable, a.heap, x, a.mapped, a.spoilt)
    BY <2>1, AssetsAre, WithFields
  <2>3. d.readable = a.readable /\ d.heap = a.heap /\ d.xms = x /\ d.mapped = a.mapped
    BY <2>2, FieldsOf
  <2> QED BY <1>1, <1>2, <2>3 DEF DiscardedFrom, IsDos, d, x
<1>3. CASE platform = "far"
  <2> DEFINE x == Xms!DiscardFar(a.xms, h)
  <2>1. d = [a EXCEPT !.xms = x]
    BY <1>3 DEF Discarded
  <2> HIDE DEF x, d
  <2>2. FieldsAre(d, a.table, a.readable, a.heap, x, a.mapped, a.spoilt)
    BY <2>1, AssetsAre, WithFields
  <2>3. d.readable = a.readable /\ d.heap = a.heap /\ d.xms = x /\ d.mapped = a.mapped
    BY <2>2, FieldsOf
  <2> QED BY <1>1, <1>3, <2>3 DEF DiscardedFrom, IsDos, d, x
<1>4. CASE ~IsDos
  <2> DEFINE m == Mapped!DiscardMapped(a.mapped, h, platform = "windows", release)
  <2>0. platform # "xms" /\ platform # "far"
    BY <1>4 DEF IsDos
  <2>1. d = [a EXCEPT !.mapped = m]
    BY <2>0 DEF Discarded
  <2> HIDE DEF m, d
  <2>2. FieldsAre(d, a.table, a.readable, a.heap, a.xms, m, a.spoilt)
    BY <2>1, AssetsAre, WithFields
  <2>3. d.readable = a.readable /\ d.heap = a.heap /\ d.xms = a.xms /\ d.mapped = m
    BY <2>2, FieldsOf
  <2> QED BY <1>1, <2>0, <2>3 DEF DiscardedFrom, d, m
<1> QED BY <1>2, <1>3, <1>4 DEF IsDos

LEMMA DiscardIsTyped ==
  ASSUME NEW x, XmsTyped(x), NEW h
  PROVE  XmsTyped(Xms!DiscardXms(x, h)) /\ XmsTyped(Xms!DiscardFar(x, h))
<1>1. UnlockedIn(x, Xms!UnlockCache(x, h), h) /\ FreedAt(x, Xms!FreeXms(x, h), h)
  BY UnlockCacheUnlocks, FreeXmsFrees
<1>2. \A y : UnlockedIn(x, y, h) => XmsTyped(y)
  BY DEF UnlockedIn, LocksAt
<1>3. \A y : FreedAt(x, y, h) => XmsTyped(y)
  BY DEF FreedAt, OthersStay
<1> QED BY <1>1, <1>2, <1>3 DEF Xms!DiscardXms, Xms!DiscardFar

LEMMA DiscardCounts ==
  ASSUME NEW a, NEW d, NEW t, NEW u, NEW s \in Slots, Drops(t, u, s), DiscardedFrom(a, d, t[s].ref),
         Counts(a.xms, a.mapped, a.spoilt, t)
  PROVE  Counts(d.xms, d.mapped, d.spoilt, u)
<1> DEFINE h == t[s].ref
<1>1. d.spoilt = a.spoilt /\ XmsTyped(a.xms) /\ a.mapped \in Mapped!MappedState
  BY DEF DiscardedFrom, Counts
<1>2. CASE platform = "xms"
  <2>1. d.xms = Xms!DiscardXms(a.xms, h) /\ d.mapped = a.mapped /\ XmsTyped(d.xms)
    BY <1>1, <1>2, DiscardIsTyped DEF DiscardedFrom
  <2>2. ~a.spoilt => Remembered(d.xms, u, 0, 0)
    BY <1>1, <1>2, <2>1, DiscardRemembers DEF Counts
  <2> QED BY <1>1, <1>2, <2>1, <2>2 DEF Counts, IsDos
<1>3. CASE platform = "far"
  <2>1. d.xms = Xms!DiscardFar(a.xms, h) /\ d.mapped = a.mapped /\ XmsTyped(d.xms)
    BY <1>1, <1>3, DiscardIsTyped DEF DiscardedFrom
  <2>2. ~a.spoilt => FarHeld(d.xms, u)
    BY <1>1, <1>3, <2>1, DiscardFarHolds DEF Counts
  <2> QED BY <1>1, <1>3, <2>1, <2>2 DEF Counts, IsDos
<1>4. CASE ~IsDos
  <2>1. /\ d.xms = a.xms
        /\ d.mapped = Mapped!DiscardMapped(a.mapped, h, platform = "windows", release)
    BY <1>4 DEF DiscardedFrom
  <2>2. MapHeld(a.mapped, t) /\ (~a.spoilt => ViewsOwn(a.mapped, t))
    BY <1>4 DEF Counts
  <2>3. /\ d.mapped \in Mapped!MappedState /\ MapHeld(d.mapped, u)
        /\ ViewsOwn(a.mapped, t) => ViewsOwn(d.mapped, u)
    BY <1>1, <2>1, <2>2, DiscardMappedHolds
  <2>4. ~a.spoilt => ViewsOwn(d.mapped, u)
    BY <2>2, <2>3
  <2>5. platform # "xms" /\ platform # "far"
    BY <1>4 DEF IsDos
  <2> QED BY <1>1, <1>4, <2>1, <2>3, <2>4, <2>5 DEF Counts
<1> QED BY <1>2, <1>3, <1>4 DEF IsDos

------------------------------------------------------------------------------
(* What the functions on assets work on when handles are handles: a slot's *)
(* is a block's, or the buffer of what was loaded, or none.                *)
EntryOK(e, hp) ==
  /\ e.ref \in Nat
  /\ e.cached => (e.ref # 0 <=> e.file # NoFile)
  /\ e.file # NoFile /\ ~e.cached => e.ref \in {0} \union hp
Good(a) ==
  /\ IsAssets(a) /\ a.readable \in BOOLEAN /\ a.heap \subseteq Buffers
  /\ \A s \in Slots : EntryOK(a.table[s], a.heap)
  /\ Counts(a.xms, a.mapped, a.spoilt, a.table)
(* No loaded buffer is given back.                                         *)
Stays(a, b) == Good(b) /\ b.heap = a.heap

LEMMA AssetTests ==
  ASSUME NEW e, IsAsset(e)
  PROVE  /\ e.file \in Files \union {NoFile} /\ e.rdwr \in BOOLEAN /\ e.cached \in BOOLEAN
BY DEF IsAsset

(* A slot is changed whose readers, before and after, are none or the same.*)
LEMMA SetStays ==
  ASSUME NEW a, Good(a), NEW s \in Slots, NEW x, NEW b, SlotSet(a, b, s, x),
         EntryOK(x, a.heap), SameAt(a.table, b.table, s)
  PROVE  Stays(a, b)
<1>1. SameReaders(a.table, b.table)
  BY DEF SlotSet, SameReaders, SameAt, ReadAt
<1>2. Counts(b.xms, b.mapped, b.spoilt, b.table)
  BY <1>1, SameCounts DEF Good, SlotSet
<1>3. \A q \in Slots : EntryOK(b.table[q], b.heap)
  BY DEF Good, SlotSet
<1> QED BY <1>2, <1>3 DEF Good, SlotSet, Stays

LEMMA ClosedStays ==
  ASSUME NEW a, Good(a), NEW s \in Slots \union {NoSlot} PROVE Stays(a, Closed(a, s))
<1>1. CASE s = NoSlot \/ ~Released(a, s)
  BY <1>1 DEF Closed, Stays
<1>2. CASE s # NoSlot /\ Released(a, s)
  <2> DEFINE e == a.table[s]
             x == [e EXCEPT !.file = NoFile]
             b == Put(a, s, x)
             h == e.ref
             d == Discarded(b, h)
             y == [d.table[s] EXCEPT !.ref = 0]
             c == Put(d, s, y)
  <2>0. s \in Slots /\ e.file # NoFile /\ EntryOK(e, a.heap) /\ IsAssets(a) /\ IsAsset(e)
    BY <1>2, EntryIsAsset DEF Released, Good
  <2>1. IsAsset(x) /\ x.file = NoFile /\ x.ref = h /\ x.cached = e.cached
    BY <2>0 DEF IsAsset
  <2>2. Closed(a, s) = IF ~e.cached \/ h = 0 THEN b ELSE c
    BY <1>2 DEF Closed, Put
  <2> HIDE DEF x, e
  <2>3. SlotSet(a, b, s, x)
    BY <2>0, <2>1, PutSets
  <2> HIDE DEF b
  <2>4. CASE ~e.cached \/ h = 0
    <3>1. ~e.cached
      BY <2>0, <2>4 DEF EntryOK
    <3>2. EntryOK(x, a.heap)
      BY <2>0, <2>1, <3>1 DEF EntryOK
    <3>3. SameAt(a.table, b.table, s)
      BY <2>1, <2>3, <3>1 DEF SlotSet, SameAt, ReadAt, e
    <3>4. Stays(a, b)
      BY <2>0, <2>3, <3>2, <3>3, SetStays
    <3> QED BY <2>2, <2>4, <3>4
  <2>5. CASE e.cached /\ h # 0
    <3>1. DiscardedFrom(b, d, h)
      BY <2>3, DiscardedIs DEF SlotSet
    <3> HIDE DEF d
    <3>2. IsAsset(d.table[s]) /\ d.table[s] = x /\ IsAssets(d)
      BY <2>0, <2>1, <2>3, <3>1 DEF SlotSet, DiscardedFrom
    <3>3. IsAsset(y) /\ y.file = NoFile /\ y.ref = 0
      BY <2>1, <3>2, AssetFields
    <3> HIDE DEF y
    <3>4. SlotSet(d, c, s, y)
      BY <2>0, <3>2, <3>3, PutSets
    <3> HIDE DEF c
    <3>5. Drops(a.table, c.table, s)
      <4>1. \A q \in Slots : q # s => c.table[q] = a.table[q]
        BY <2>3, <3>1, <3>4 DEF SlotSet, DiscardedFrom
      <4>2. c.table[s] = y
        BY <3>4 DEF SlotSet
      <4> QED BY <2>0, <2>5, <3>3, <4>1, <4>2 DEF Drops, ReadAt, SameAt, e
    <3>6. Counts(b.xms, b.mapped, b.spoilt, a.table)
      BY <2>3 DEF Good, SlotSet
    <3>7. Counts(d.xms, d.mapped, d.spoilt, c.table)
      BY <2>0, <3>1, <3>5, <3>6, DiscardCounts DEF h, e
    <3>8. Counts(c.xms, c.mapped, c.spoilt, c.table)
      BY <3>4, <3>7 DEF SlotSet
    <3>9. IsAssets(c) /\ c.readable = a.readable /\ c.heap = a.heap
      BY <2>3, <3>1, <3>4 DEF SlotSet, DiscardedFrom
    <3>10. ASSUME NEW q \in Slots PROVE EntryOK(c.table[q], c.heap)
      <4>1. CASE q = s
        <5>1. c.table[q] = y
          BY <3>4, <4>1 DEF SlotSet
        <5> QED BY <3>3, <5>1 DEF EntryOK
      <4>2. CASE q # s
        <5>1. c.table[q] = a.table[q]
          BY <2>3, <3>1, <3>4, <4>2 DEF SlotSet, DiscardedFrom
        <5> QED BY <3>9, <5>1 DEF Good
      <4> QED BY <4>1, <4>2
    <3>11. Stays(a, c)
      BY <3>8, <3>9, <3>10 DEF Good, Stays
    <3> QED BY <2>2, <2>5, <3>11
  <2> QED BY <2>4, <2>5
<1> QED BY <1>1, <1>2

LEMMA OpenedStays ==
  ASSUME NEW a, Good(a), NEW f \in Files, NEW w \in BOOLEAN
  PROVE  Stays(a, Opened(a, f, w))
<1> DEFINE s == OpenSlot(a, f)
           b == Opened(a, f, w)
           e == a.table[s]
<1>0. IsAssets(a) /\ s \in Slots \union {NoSlot} /\ (s \in Slots => e.file \in {f, NoFile})
  BY OpenSlotIs DEF Good
<1>1. CASE s = NoSlot
  BY <1>1 DEF Opened, Stays
<1>2. CASE s \in Slots /\ e.file = f
  <2> DEFINE x == [e EXCEPT !.rdwr = @ \/ w]
  <2>1. IsAsset(e) /\ EntryOK(e, a.heap)
    BY <1>0, <1>2, EntryIsAsset DEF Good
  <2>2. IsAsset(x) /\ x.file = e.file /\ x.ref = e.ref /\ x.cached = e.cached
    BY <2>1 DEF IsAsset
  <2>3. b = Put(a, s, x)
    BY <1>2, SlotsAreNumbers DEF Put, Opened
  <2> HIDE DEF b, s, x
  <2>4. SlotSet(a, b, s, x)
    BY <1>0, <1>2, <2>2, <2>3, PutSets
  <2>5. EntryOK(x, a.heap)
    BY <2>1, <2>2 DEF EntryOK
  <2>6. SameAt(a.table, b.table, s)
    BY <2>2, <2>4 DEF SlotSet, SameAt, ReadAt
  <2>7. Stays(a, b)
    BY <1>2, <2>4, <2>5, <2>6, SetStays
  <2> QED BY <2>7 DEF b
<1>3. CASE s \in Slots /\ e.file # f
  <2> DEFINE x == [FreeAsset EXCEPT !.file = f, !.rdwr = w]
  <2>1. e.file = NoFile
    BY <1>0, <1>3
  <2>2. IsAsset(x) /\ x.file = f /\ x.ref = 0 /\ ~x.cached
    <3> DEFINE y == [FreeAsset EXCEPT !.file = f]
    <3>1. IsAsset(FreeAsset) /\ FreeAsset.ref = 0 /\ ~FreeAsset.cached
      BY DEF FreeAsset, IsAsset
    <3>2. IsAsset(y) /\ y.file = f /\ y.ref = 0 /\ ~y.cached
      BY <3>1 DEF IsAsset
    <3>3. x = [y EXCEPT !.rdwr = w]
      OBVIOUS
    <3> HIDE DEF x, y
    <3> QED BY <3>2, <3>3 DEF IsAsset
  <2>3. b = Put(a, s, x)
    BY <1>3, SlotsAreNumbers DEF Put, Opened
  <2> HIDE DEF b, s, x
  <2>4. EntryOK(x, a.heap)
    BY <2>2 DEF EntryOK
  <2>5. SlotSet(a, b, s, x)
    BY <1>0, <1>3, <2>2, <2>3, PutSets
  <2>6. SameAt(a.table, b.table, s)
    BY <2>1, <2>2, <2>5 DEF SlotSet, SameAt, ReadAt
  <2>7. Stays(a, b)
    BY <1>3, <2>4, <2>5, <2>6, SetStays
  <2> QED BY <2>7 DEF b
<1> QED BY <1>0, <1>1, <1>2, <1>3

LEMMA LostIs ==
  ASSUME NEW a, IsAssets(a)
  PROVE  LET b == Lost(a)
         IN  /\ IsAssets(b) /\ b.table = a.table /\ b.readable \in BOOLEAN /\ b.heap = a.heap
             /\ b.xms = a.xms /\ b.mapped = a.mapped /\ b.spoilt = a.spoilt
<1>1. Lost(a) = [a EXCEPT !.readable = FALSE]
  BY DEF Lost
<1>2. /\ Lost(a).table = a.table /\ Lost(a).heap = a.heap
      /\ Lost(a).xms = a.xms /\ Lost(a).mapped = a.mapped
  BY <1>1 DEF IsAssets
<1>3. Lost(a).readable \in BOOLEAN
  BY <1>1 DEF IsAssets
<1> QED BY <1>2, <1>3, LostKeeps DEF SameTable

(* Loading gives a buffer that is live, a new one or the slot's.           *)
LoadedFrom(a, o) ==
  /\ Good(o[1]) /\ a.heap \subseteq o[1].heap
  /\ o[2] \in {0} \union o[1].heap

LEMMA LoadsStay ==
  ASSUME NEW a, Good(a), NEW s \in Slots, NEW o \in Loads(a, s) PROVE LoadedFrom(a, o)
<1> DEFINE e == a.table[s]
<1>0. IsAssets(a) /\ IsAsset(e) /\ EntryOK(e, a.heap)
  BY EntryIsAsset DEF Good
<1>1. CASE o = <<a, 0>>
  <2>1. o[1] = a /\ o[2] = 0
    BY <1>1
  <2> QED BY <2>1 DEF LoadedFrom
<1>2. CASE o = <<a, e.ref>> /\ ~e.cached /\ e.file # NoFile
  <2>1. o[1] = a /\ o[2] = e.ref
    BY <1>2
  <2> QED BY <1>0, <1>2, <2>1 DEF EntryOK, LoadedFrom
<1>3. CASE o = <<Lost(a), 0>>
  <2> DEFINE b == Lost(a)
  <2>1. /\ IsAssets(b) /\ b.table = a.table /\ b.readable \in BOOLEAN /\ b.heap = a.heap
        /\ b.xms = a.xms /\ b.mapped = a.mapped /\ b.spoilt = a.spoilt
    BY <1>0, LostIs
  <2>2. o[1] = b /\ o[2] = 0
    BY <1>3
  <2> HIDE DEF b
  <2>3. Good(b)
    BY <2>1 DEF Good
  <2> QED BY <2>1, <2>2, <2>3 DEF LoadedFrom
<1>4. CASE ~e.cached /\ e.file # NoFile
           /\ \E b \in Allocated(a) :
                o = <<[a EXCEPT !.table[s].ref = b, !.heap = @ \union {b}], b>>
  <2> PICK b \in Allocated(a) : o = <<[a EXCEPT !.table[s].ref = b, !.heap = @ \union {b}], b>>
    BY <1>4
  <2> DEFINE x == [e EXCEPT !.ref = b]
             p == Put(a, s, x)
             h == p.heap \union {b}
             c == [p EXCEPT !.heap = h]
  <2>1. IsAsset(x) /\ x.file = e.file /\ x.cached = e.cached /\ x.ref = b
    BY <1>0 DEF IsAsset
  <2>2. o[1] = c /\ o[2] = b
    <3>1. p.heap = a.heap
      BY <1>0 DEF Put, IsAssets
    <3>2. o[1] = [p EXCEPT !.heap = a.heap \union {b}]
      BY <1>0 DEF Put, IsAssets
    <3> QED BY <3>1, <3>2
  <2> HIDE DEF x
  <2>3. SlotSet(a, p, s, x)
    BY <1>0, <2>1, PutSets
  <2> HIDE DEF p
  <2>4. h = a.heap \union {b}
    BY <2>3 DEF SlotSet
  <2> HIDE DEF h
  <2>5. FieldsAre(c, p.table, p.readable, h, p.xms, p.mapped, p.spoilt)
        /\ IsTable(p.table) /\ p.spoilt \in BOOLEAN
    BY <2>3, AssetsAre, WithFields DEF SlotSet
  <2> HIDE DEF c
  <2>6. /\ IsAssets(c) /\ c.table = p.table /\ c.readable = a.readable /\ c.heap = h
        /\ c.xms = a.xms /\ c.mapped = a.mapped /\ c.spoilt = a.spoilt
    BY <2>3, <2>5, FieldsOf DEF SlotSet
  <2>7. SameReaders(a.table, c.table)
    BY <1>4, <2>1, <2>3, <2>6 DEF SlotSet, SameReaders, SameAt, ReadAt
  <2>8. Counts(c.xms, c.mapped, c.spoilt, c.table)
    BY <2>6, <2>7, SameCounts DEF Good
  <2>9. b \in Buffers /\ b \in Nat
    BY ViewsAreNumbers DEF Allocated
  <2>10. ASSUME NEW q \in Slots PROVE EntryOK(c.table[q], h)
    <3>1. CASE q = s
      <4>1. c.table[q] = x
        BY <2>3, <2>6, <3>1 DEF SlotSet
      <4> QED BY <1>4, <2>1, <2>4, <2>9, <4>1 DEF EntryOK
    <3>2. CASE q # s
      <4>1. c.table[q] = a.table[q] /\ EntryOK(a.table[q], a.heap)
        BY <2>3, <2>6, <3>2 DEF SlotSet, Good
      <4> QED BY <2>4, <4>1 DEF EntryOK
    <3> QED BY <3>1, <3>2
  <2>11. Good(c)
    BY <2>4, <2>6, <2>8, <2>9, <2>10 DEF Good
  <2> QED BY <2>2, <2>4, <2>6, <2>11 DEF LoadedFrom
<1> QED BY <1>1, <1>2, <1>3, <1>4 DEF Loads, LoadsData

------------------------------------------------------------------------------
(* zip_cache() gives a block, or none, and leaves everybody else's alone.  *)
CachedFrom(a, o, f) ==
  /\ IsAssets(o[1]) /\ o[1].table = a.table /\ o[1].readable \in BOOLEAN /\ o[1].heap = a.heap
  /\ o[2] \in Nat
  /\ \A t, u : \A s \in Slots :
       Counts(a.xms, a.mapped, a.spoilt, t) /\ Served(t, u, s, f, o[2])
         => Counts(o[1].xms, o[1].mapped, o[1].spoilt, u)

LEMMA XmsCallsServe ==
  ASSUME NEW x, XmsTyped(x), NEW f \in Files \union {NoFile}, NEW open, IsDos,
         NEW c \in XmsCalls(x, f, open)
  PROVE  /\ CacheOutcome(c)
         /\ \A t, u : \A s \in Slots :
              f \in Files /\ ~c.spoilt /\ Served(t, u, s, f, c.handle)
                => /\ platform = "xms" /\ Remembered(x, t, 0, 0) => Remembered(c.xms, u, 0, 0)
                   /\ platform = "far" /\ FarHeld(x, t) => FarHeld(c.xms, u)
<1>1. CASE platform = "xms"
  <2>1. c \in Xms!CacheXms(x, f, open)
    BY <1>1 DEF XmsCalls
  <2> QED BY <1>1, <2>1, CacheXmsCaches
<1>2. CASE platform = "far"
  <2>1. c \in Xms!CacheFar(x, f, open)
    BY <1>2 DEF XmsCalls
  <2> QED BY <1>2, <2>1, CacheFarCaches
<1> QED BY <1>1, <1>2 DEF IsDos

(* The archive is closed, and a block is not filled.                       *)
Spoilt(a) == [Lost(a) EXCEPT !.spoilt = TRUE]

LEMMA SpoiltIs ==
  ASSUME NEW a, IsAssets(a)
  PROVE  LET b == Spoilt(a)
         IN  /\ IsAssets(b) /\ b.table = a.table /\ b.readable \in BOOLEAN /\ b.heap = a.heap
             /\ b.xms = a.xms /\ b.mapped = a.mapped /\ b.spoilt = TRUE
<1> DEFINE l == Lost(a)
           b == Spoilt(a)
<1>1. /\ IsAssets(l) /\ l.table = a.table /\ l.readable \in BOOLEAN /\ l.heap = a.heap
      /\ l.xms = a.xms /\ l.mapped = a.mapped
  BY LostIs
<1>2. b = [l EXCEPT !.spoilt = TRUE]
  BY DEF Spoilt
<1>3. IsAssets(b) /\ b.table = l.table /\ b.spoilt = TRUE
  <2>1. TRUE \in BOOLEAN
    OBVIOUS
  <2> HIDE DEF l, b
  <2> QED BY <1>1, <1>2, <2>1, FieldsKeep
<1> HIDE DEF l, b
<1>4. b.readable = l.readable /\ b.heap = l.heap /\ b.xms = l.xms /\ b.mapped = l.mapped
  BY <1>1, <1>2 DEF IsAssets
<1>5. b.readable \in BOOLEAN
  BY <1>1, <1>4
<1> QED BY <1>1, <1>3, <1>4, <1>5 DEF b

LEMMA HandlesAreNumbers == ASSUME NEW h \in {0} \union Blocks PROVE h \in Nat
<1>1. 0 \in Nat
  OBVIOUS
<1> QED BY <1>1, CacheNumbers

LEMMA CachesServe ==
  ASSUME NEW a, Good(a), NEW f \in Files, NEW o \in Caches(a, f) PROVE CachedFrom(a, o, f)
<1> DEFINE lost == Spoilt(a)
<1>0. /\ IsAssets(a) /\ a.readable \in BOOLEAN /\ a.spoilt \in BOOLEAN
      /\ XmsTyped(a.xms) /\ a.mapped \in Mapped!MappedState
      /\ NoFile \in Files \union {NoFile} /\ f \in Files \union {NoFile}
  BY DEF Good, Counts, IsAssets
<1>1. /\ IsAssets(lost) /\ lost.table = a.table /\ lost.readable \in BOOLEAN
      /\ lost.heap = a.heap /\ lost.xms = a.xms /\ lost.mapped = a.mapped /\ lost.spoilt = TRUE
  BY <1>0, SpoiltIs
<1>2. lost = [Lost(a) EXCEPT !.spoilt = TRUE]
  BY DEF Spoilt
<1>3. ASSUME IsDos, NEW c \in XmsCalls(a.xms, NoFile, FALSE), o = <<[lost EXCEPT !.xms = c.xms], 0>>
      PROVE  CachedFrom(a, o, f)
  <2> DEFINE w == c.xms
             b == [lost EXCEPT !.xms = w]
  <2>1. XmsTyped(w)
    BY <1>0, <1>3, XmsCallsServe DEF CacheOutcome
  <2>2. o[1] = b /\ o[2] = 0
    BY <1>3
  <2> HIDE DEF lost, w
  <2>7. IsAssets(lost)
    BY <1>1
  <2>8. FieldsAre(lost, lost.table, lost.readable, lost.heap, lost.xms, lost.mapped, lost.spoilt)
    BY <2>7, AssetsAre
  <2>9. IsTable(lost.table) /\ lost.spoilt \in BOOLEAN
    BY <2>7, AssetsAre
  <2>3. FieldsAre(b, lost.table, lost.readable, lost.heap, w, lost.mapped, lost.spoilt)
    BY <2>8, WithFields
  <2> HIDE DEF b
  <2>4. /\ IsAssets(b) /\ b.table = a.table /\ b.readable = lost.readable /\ b.heap = a.heap
        /\ b.xms = w /\ b.mapped = a.mapped /\ b.spoilt = TRUE
    BY <1>1, <2>3, <2>9, FieldsOf
  <2>5. \A t, u : \A s \in Slots :
          Counts(a.xms, a.mapped, a.spoilt, t) => Counts(b.xms, b.mapped, b.spoilt, u)
    BY <1>3, <2>1, <2>4 DEF Counts
  <2>6. b.readable \in BOOLEAN
    BY <1>1, <2>4
  <2> QED BY <2>2, <2>4, <2>5, <2>6 DEF CachedFrom
<1>4. ASSUME IsDos, NEW c \in XmsCalls(a.xms, f, TRUE),
             o = <<[a EXCEPT !.xms = c.xms, !.spoilt = @ \/ c.spoilt], c.handle>>
      PROVE  CachedFrom(a, o, f)
  <2> DEFINE w == c.xms
             b == [a EXCEPT !.xms = w]
             more == b.spoilt \/ c.spoilt
             d == [b EXCEPT !.spoilt = more]
  <2>1. CacheOutcome(c)
    BY <1>0, <1>4, XmsCallsServe
  <2>2. XmsTyped(w) /\ c.handle \in {0} \union Blocks /\ c.spoilt \in BOOLEAN
    BY <2>1 DEF CacheOutcome
  <2>3. o[1] = d /\ o[2] = c.handle
    BY <1>4
  <2> HIDE DEF w
  <2>4. FieldsAre(b, a.table, a.readable, a.heap, w, a.mapped, a.spoilt)
    BY <1>0, AssetsAre, WithFields
  <2> HIDE DEF b
  <2>5. b.spoilt = a.spoilt
    BY <2>4, FieldsOf
  <2>6. more \in BOOLEAN
    OBVIOUS
  <2>7. ~more => ~a.spoilt /\ ~c.spoilt
    BY <2>5
  <2> HIDE DEF more
  <2>8. FieldsAre(d, a.table, a.readable, a.heap, w, a.mapped, more)
    BY <2>4, WithFields
  <2> HIDE DEF d
  <2>9. /\ IsAssets(d) /\ d.table = a.table /\ d.readable = a.readable /\ d.heap = a.heap
        /\ d.xms = w /\ d.mapped = a.mapped /\ d.spoilt = more
    BY <1>0, <2>6, <2>8, FieldsOf, AssetsAre
  <2>10. c.handle \in Nat
    <3> DEFINE h == c.handle
    <3>1. h \in {0} \union Blocks
      BY <2>2
    <3> HIDE DEF h
    <3>2. h \in Nat
      BY <3>1, HandlesAreNumbers
    <3> QED BY <3>2 DEF h
  <2>11. ASSUME NEW t, NEW u, NEW s \in Slots, Counts(a.xms, a.mapped, a.spoilt, t),
                Served(t, u, s, f, c.handle)
         PROVE  Counts(w, a.mapped, more, u)
    <3>1. ASSUME ~more
          PROVE  /\ platform = "xms" => Remembered(w, u, 0, 0)
                 /\ platform = "far" => FarHeld(w, u)
      <4>1. ~a.spoilt /\ ~c.spoilt
        BY <2>7, <3>1
      <4> QED BY <1>0, <1>4, <2>11, <4>1, XmsCallsServe DEF Counts, w
    <3> QED BY <1>4, <2>2, <2>11, <3>1 DEF Counts
  <2>12. d.readable \in BOOLEAN
    BY <1>0, <2>9
  <2> QED BY <2>3, <2>9, <2>10, <2>11, <2>12 DEF CachedFrom
<1>5. ASSUME ~IsDos, o = <<lost, 0>> PROVE CachedFrom(a, o, f)
  <2>1. o[1] = lost /\ o[2] = 0
    BY <1>5
  <2> HIDE DEF lost
  <2>2. ASSUME NEW t, NEW u, NEW s \in Slots, Counts(a.xms, a.mapped, a.spoilt, t),
               Served(t, u, s, f, 0)
        PROVE  Counts(a.xms, a.mapped, TRUE, u)
    <3>1. SameReaders(t, u)
      BY <2>2 DEF Served
    <3>2. Counts(a.xms, a.mapped, a.spoilt, u)
      BY <2>2, <3>1, SameCounts
    <3> QED BY <3>2, SpoiltCounts
  <2>3. \A t, u : \A s \in Slots :
          Counts(a.xms, a.mapped, a.spoilt, t) /\ Served(t, u, s, f, 0)
            => Counts(lost.xms, lost.mapped, lost.spoilt, u)
    BY <1>1, <2>2
  <2>4. IsAssets(lost) /\ lost.table = a.table /\ lost.heap = a.heap
    BY <1>1
  <2>5. lost.readable \in BOOLEAN
    BY <1>1
  <2> QED BY <2>1, <2>3, <2>4, <2>5 DEF CachedFrom
<1>6. ASSUME ~IsDos, NEW c \in Mapped!CacheMapped(a.mapped, f, TRUE, platform = "windows"),
             o = <<[a EXCEPT !.mapped = c[1]], c[2]>>
      PROVE  CachedFrom(a, o, f)
  <2> DEFINE w == c[1]
             h == c[2]
             b == [a EXCEPT !.mapped = w]
  <2>1. /\ w \in Mapped!MappedState /\ h \in {0} \union Views
        /\ \A t, u : \A s \in Slots :
             MapHeld(a.mapped, t) /\ Served(t, u, s, f, h)
               => MapHeld(w, u) /\ (ViewsOwn(a.mapped, t) => ViewsOwn(w, u))
    BY <1>0, <1>6, CacheMappedHolds
  <2>2. o[1] = b /\ o[2] = h
    BY <1>6
  <2> HIDE DEF w, h
  <2>3. FieldsAre(b, a.table, a.readable, a.heap, a.xms, w, a.spoilt)
    BY <1>0, AssetsAre, WithFields
  <2> HIDE DEF b
  <2>4. /\ IsAssets(b) /\ b.table = a.table /\ b.readable = a.readable /\ b.heap = a.heap
        /\ b.xms = a.xms /\ b.mapped = w /\ b.spoilt = a.spoilt
    BY <1>0, <2>3, FieldsOf, AssetsAre
  <2>5. h \in Nat
    BY <2>1, ViewsAreNumbers
  <2>6. ASSUME NEW t, NEW u, NEW s \in Slots, Counts(a.xms, a.mapped, a.spoilt, t),
               Served(t, u, s, f, h)
        PROVE  Counts(a.xms, w, a.spoilt, u)
    <3>1. MapHeld(w, u)
      BY <1>6, <2>1, <2>6 DEF Counts
    <3>2. ~a.spoilt => ViewsOwn(w, u)
      BY <1>6, <2>1, <2>6 DEF Counts
    <3>3. platform # "xms" /\ platform # "far"
      BY <1>6 DEF IsDos
    <3> QED BY <1>6, <2>1, <2>6, <3>1, <3>2, <3>3 DEF Counts
  <2>7. b.readable \in BOOLEAN
    BY <1>0, <2>4
  <2> QED BY <2>2, <2>4, <2>5, <2>6, <2>7 DEF CachedFrom
<1>9. ASSUME ~IsDos, NEW c \in Mapped!CacheMapped(a.mapped, Root, TRUE, platform = "windows"),
             o = <<[lost EXCEPT !.mapped = c[1]], c[2]>>
      PROVE  CachedFrom(a, o, f)
  <2> DEFINE w == c[1]
             h == c[2]
             b == [lost EXCEPT !.mapped = w]
  <2>0. Root \in Files
    BY DEF Files, Scripts
  <2>1. /\ w \in Mapped!MappedState /\ h \in {0} \union Views
        /\ \A t, u : \A s \in Slots :
             MapHeld(a.mapped, t) /\ Served(t, u, s, f, h) => MapHeld(w, u)
    BY <1>0, <1>9, <2>0, CacheMappedHolds
  <2>2. o[1] = b /\ o[2] = h
    BY <1>9
  <2> HIDE DEF w, h, lost
  <2>3. FieldsAre(b, lost.table, lost.readable, lost.heap, lost.xms, w, lost.spoilt)
    BY <1>1, AssetsAre, WithFields
  <2> HIDE DEF b
  <2>4. /\ IsAssets(b) /\ b.table = a.table /\ b.readable = lost.readable /\ b.heap = a.heap
        /\ b.xms = a.xms /\ b.mapped = w /\ b.spoilt = TRUE
    BY <1>1, <2>3, FieldsOf, AssetsAre
  <2>5. h \in Nat
    BY <2>1, ViewsAreNumbers
  <2>6. ASSUME NEW t, NEW u, NEW s \in Slots, Counts(a.xms, a.mapped, a.spoilt, t),
               Served(t, u, s, f, h)
        PROVE  Counts(a.xms, w, TRUE, u)
    <3>1. MapHeld(w, u)
      BY <1>9, <2>1, <2>6 DEF Counts
    <3> QED BY <1>9, <2>1, <2>6, <3>1 DEF Counts
  <2>7. b.readable \in BOOLEAN
    BY <1>1, <2>4
  <2> QED BY <2>2, <2>4, <2>5, <2>6, <2>7 DEF CachedFrom
<1>7. CASE IsDos
  <2> DEFINE X == XmsCalls(a.xms, NoFile, FALSE)
             Y == IF a.readable THEN XmsCalls(a.xms, f, TRUE) ELSE {}
  <2>1. \/ o \in {<<[lost EXCEPT !.xms = c.xms], 0>> : c \in X}
        \/ o \in {<<[a EXCEPT !.xms = c.xms, !.spoilt = @ \/ c.spoilt], c.handle>> : c \in Y}
    BY <1>2, <1>7 DEF Caches
  <2>2. Y \subseteq XmsCalls(a.xms, f, TRUE)
    OBVIOUS
  <2> HIDE DEF lost, Y
  <2>3. CASE o \in {<<[lost EXCEPT !.xms = c.xms], 0>> : c \in X}
    BY <1>3, <1>7, <2>3
  <2>4. CASE o \in {<<[a EXCEPT !.xms = c.xms, !.spoilt = @ \/ c.spoilt], c.handle>> : c \in Y}
    BY <1>4, <1>7, <2>2, <2>4
  <2> QED BY <2>1, <2>3, <2>4
<1>8. CASE ~IsDos
  <2> DEFINE Z == Mapped!CacheMapped(a.mapped, f, TRUE, platform = "windows")
             Y == IF a.readable THEN Z ELSE {}
             V == Mapped!CacheMapped(a.mapped, Root, TRUE, platform = "windows")
             W == IF StillMapped(a) THEN V ELSE {}
  <2>1. \/ o = <<lost, 0>>
        \/ o \in {<<[lost EXCEPT !.mapped = c[1]], c[2]>> : c \in W}
        \/ o \in {<<[a EXCEPT !.mapped = c[1]], c[2]>> : c \in Y}
    BY <1>2, <1>8 DEF Caches
  <2>2. Y \subseteq Z /\ W \subseteq V
    OBVIOUS
  <2> HIDE DEF lost, Y, W
  <2>4. CASE o \in {<<[lost EXCEPT !.mapped = c[1]], c[2]>> : c \in W}
    BY <1>8, <1>9, <2>2, <2>4
  <2>3. CASE o \in {<<[a EXCEPT !.mapped = c[1]], c[2]>> : c \in Y}
    BY <1>6, <1>8, <2>2, <2>3
  <2> QED BY <1>5, <1>8, <2>1, <2>3, <2>4
<1> QED BY <1>7, <1>8

LEMMA CachedIs ==
  ASSUME NEW e, IsAsset(e), NEW v \in BOOLEAN
  PROVE  /\ IsAsset([e EXCEPT !.cached = v]) /\ [e EXCEPT !.cached = v].file = e.file
         /\ [e EXCEPT !.cached = v].ref = e.ref /\ [e EXCEPT !.cached = v].cached = v
BY DEF IsAsset

(* pal_read_asset() makes its slot a reader, at most.                      *)
LEMMA ReadsStay ==
  ASSUME NEW a, Good(a), NEW s \in Slots, NEW o \in Reads(a, s) PROVE Stays(a, o[1])
<1> DEFINE e == a.table[s]
<1>0. IsAssets(a) /\ IsAsset(e) /\ EntryOK(e, a.heap) /\ e.file \in Files \union {NoFile}
  BY EntryIsAsset DEF Good, IsAsset
<1>1. CASE o = <<a, FALSE>>
  <2>1. o[1] = a
    BY <1>1
  <2> QED BY <2>1 DEF Stays
<1>2. CASE /\ e.file # NoFile /\ e.ref # 0
           /\ o = <<[a EXCEPT !.table[s].cached = TRUE, !.spoilt = @ \/ ~a.table[s].cached], TRUE>>
  <2> DEFINE x == [e EXCEPT !.cached = TRUE]
             b == Put(a, s, x)
             more == b.spoilt \/ ~e.cached
             d == [b EXCEPT !.spoilt = more]
  <2>1. IsAsset(x) /\ x.file = e.file /\ x.ref = e.ref /\ x.cached
    <3> DEFINE v == TRUE
    <3>1. x = [e EXCEPT !.cached = v] /\ v \in BOOLEAN /\ IsAsset(e)
      BY <1>0
    <3> HIDE DEF v, x, e
    <3>2. IsAsset(x) /\ x.file = e.file /\ x.ref = e.ref /\ x.cached = v
      BY <3>1, CachedIs
    <3> QED BY <3>2 DEF v
  <2>2. o[1] = d
    <3>1. [a EXCEPT !.table[s].cached = TRUE, !.spoilt = @ \/ ~a.table[s].cached] = d
      BY DEF Put
    <3> HIDE DEF d
    <3> QED BY <1>2, <3>1
  <2> HIDE DEF x
  <2>3. SlotSet(a, b, s, x)
    BY <1>0, <2>1, PutSets
  <2> HIDE DEF b
  <2>4. more \in BOOLEAN
    OBVIOUS
  <2>5. e.cached /\ ~more => ~a.spoilt
    BY <2>3 DEF SlotSet
  <2>6. ~e.cached => more
    OBVIOUS
  <2>7. a.spoilt => more
    BY <2>3 DEF SlotSet
  <2> HIDE DEF more
  <2>8. FieldsAre(b, b.table, b.readable, b.heap, b.xms, b.mapped, b.spoilt) /\ IsTable(b.table)
    BY <2>3, AssetsAre DEF SlotSet
  <2>9. FieldsAre(d, b.table, b.readable, b.heap, b.xms, b.mapped, more)
    BY <2>8, WithFields
  <2> HIDE DEF d
  <2>10. /\ IsAssets(d) /\ d.table = b.table /\ d.readable = a.readable /\ d.heap = a.heap
         /\ d.xms = a.xms /\ d.mapped = a.mapped /\ d.spoilt = more
    BY <2>3, <2>4, <2>8, <2>9, FieldsOf DEF SlotSet
  <2>11. EntryOK(x, a.heap)
    BY <1>0, <1>2, <2>1 DEF EntryOK
  <2>12. \A q \in Slots : EntryOK(d.table[q], d.heap)
    BY <2>3, <2>10, <2>11 DEF Good, SlotSet
  <2>13. Counts(a.xms, a.mapped, a.spoilt, a.table)
    BY DEF Good
  <2>14. Counts(a.xms, a.mapped, more, d.table)
    <3>1. CASE e.cached
      <4>1. SameReaders(a.table, d.table)
        BY <2>1, <2>3, <2>10, <3>1 DEF SlotSet, SameReaders, SameAt, ReadAt, e
      <4>2. Counts(a.xms, a.mapped, a.spoilt, d.table)
        BY <2>13, <4>1, SameCounts
      <4> QED BY <2>5, <2>7, <3>1, <4>2 DEF Counts
    <3>2. CASE ~e.cached
      <4>1. e.ref \in Buffers
        BY <1>0, <1>2, <3>2 DEF EntryOK, Good
      <4>2. \A q \in Slots : q # s => SameAt(a.table, d.table, q)
        BY <2>3, <2>10 DEF SlotSet, SameAt, ReadAt
      <4>3. Gains(a.table, d.table, s, e.file, e.ref)
        BY <1>2, <2>1, <2>3, <2>10, <3>2, <4>2 DEF SlotSet, Gains, ReadAt, e
      <4> HIDE DEF e
      <4>4. Counts(a.xms, a.mapped, TRUE, d.table)
        BY <2>13, <4>1, <4>3, BufferCounts
      <4> QED BY <2>6, <3>2, <4>4 DEF Counts
    <3> QED BY <3>1, <3>2
  <2>15. d.readable \in BOOLEAN
    BY <2>10 DEF Good
  <2>16. Stays(a, d)
    BY <2>10, <2>12, <2>14, <2>15 DEF Good, Stays
  <2> QED BY <2>2, <2>16
<1>3. CASE e.file # NoFile /\ e.ref = 0
           /\ \E c \in Caches(a, e.file) :
                o = IF c[2] = 0 THEN <<c[1], FALSE>>
                    ELSE <<[c[1] EXCEPT !.table[s].ref = c[2], !.table[s].cached = TRUE], TRUE>>
  <2> PICK c \in Caches(a, e.file) :
          o = IF c[2] = 0 THEN <<c[1], FALSE>>
              ELSE <<[c[1] EXCEPT !.table[s].ref = c[2], !.table[s].cached = TRUE], TRUE>>
    BY <1>3
  <2> DEFINE d == c[1]
             h == c[2]
  <2>0. e.file \in Files /\ ~e.cached
    BY <1>0, <1>3 DEF EntryOK
  <2>1. CachedFrom(a, c, e.file)
    BY <2>0, CachesServe
  <2>2. /\ IsAssets(d) /\ d.table = a.table /\ d.readable \in BOOLEAN /\ d.heap = a.heap /\ h \in Nat
        /\ \A t, u : \A q \in Slots :
             Counts(a.xms, a.mapped, a.spoilt, t) /\ Served(t, u, q, e.file, h)
               => Counts(d.xms, d.mapped, d.spoilt, u)
    BY <2>1 DEF CachedFrom
  <2>3. Counts(a.xms, a.mapped, a.spoilt, a.table)
    BY DEF Good
  <2>4. CASE h = 0
    <3>1. o[1] = d
      BY <2>4
    <3> HIDE DEF d, h
    <3>2. Served(a.table, a.table, s, e.file, h)
      BY <2>4 DEF Served, SameReaders, SameAt
    <3>3. Counts(d.xms, d.mapped, d.spoilt, d.table)
      BY <2>2, <2>3, <3>2
    <3>4. \A q \in Slots : EntryOK(d.table[q], d.heap)
      BY <2>2 DEF Good
    <3> QED BY <2>2, <3>1, <3>3, <3>4 DEF Good, Stays
  <2>5. CASE h # 0
    <3> DEFINE y == [d.table[s] EXCEPT !.ref = h]
               x == [y EXCEPT !.cached = TRUE]
               b == Put(d, s, x)
    <3>1. o[1] = [d EXCEPT !.table[s].ref = h, !.table[s].cached = TRUE]
      BY <2>5
    <3> HIDE DEF d, h
    <3>2. IsAssets(d) /\ IsAsset(d.table[s])
      BY <1>0, <2>2
    <3>4. o[1] = b
      <4> DEFINE p == [d EXCEPT !.table[s].ref = h, !.table[s].cached = TRUE]
      <4>1. o[1] = p
        BY <3>1
      <4>2. p = b
        BY <3>2 DEF Put, IsAssets, IsTable
      <4> HIDE DEF p, b
      <4> QED BY <4>1, <4>2
    <3>13. d.table[s] = e
      BY <2>2
    <3>3. IsAsset(y) /\ y.file = e.file /\ y.ref = h
      BY <3>2, <3>13, AssetFields
    <3> HIDE DEF y
    <3>5. IsAsset(x) /\ x.file = e.file /\ x.ref = h /\ x.cached
      <4> DEFINE v == TRUE
      <4>1. x = [y EXCEPT !.cached = v] /\ v \in BOOLEAN
        OBVIOUS
      <4> HIDE DEF v, x
      <4>2. IsAsset(x) /\ x.file = y.file /\ x.ref = y.ref /\ x.cached = v
        BY <3>3, <4>1, CachedIs
      <4> QED BY <3>3, <4>2 DEF v
    <3> HIDE DEF x
    <3>6. SlotSet(d, b, s, x)
      BY <3>2, <3>5, PutSets
    <3> HIDE DEF b
    <3>7. Gains(a.table, b.table, s, e.file, h)
      <4>1. \A q \in Slots : q # s => SameAt(a.table, b.table, q)
        BY <2>2, <3>6 DEF SlotSet, SameAt, ReadAt
      <4> QED BY <1>3, <2>0, <3>5, <3>6, <4>1 DEF SlotSet, Gains, ReadAt, e
    <3>8. Counts(d.xms, d.mapped, d.spoilt, b.table)
      BY <2>2, <2>3, <2>5, <3>7 DEF Served
    <3>9. EntryOK(x, a.heap)
      BY <1>3, <2>2, <2>5, <3>5 DEF EntryOK
    <3>10. \A q \in Slots : EntryOK(b.table[q], b.heap)
      BY <2>2, <3>6, <3>9 DEF Good, SlotSet
    <3>11. b.readable \in BOOLEAN
      BY <2>2, <3>6 DEF SlotSet
    <3>12. Stays(a, b)
      BY <2>2, <3>6, <3>8, <3>10, <3>11 DEF SlotSet, Good, Stays
    <3> QED BY <3>4, <3>12
  <2> QED BY <2>4, <2>5
<1>4. \/ o = <<a, FALSE>>
      \/ /\ e.file # NoFile /\ e.ref # 0
         /\ o = <<[a EXCEPT !.table[s].cached = TRUE, !.spoilt = @ \/ ~a.table[s].cached], TRUE>>
      \/ /\ e.file # NoFile /\ e.ref = 0
         /\ \E c \in Caches(a, e.file) :
              o = IF c[2] = 0 THEN <<c[1], FALSE>>
                  ELSE <<[c[1] EXCEPT !.table[s].ref = c[2], !.table[s].cached = TRUE], TRUE>>
  <2>1. CASE e.file = NoFile \/ e.rdwr
    BY <2>1 DEF Reads
  <2>2. CASE ~(e.file = NoFile \/ e.rdwr) /\ e.ref # 0
    BY <2>2 DEF Reads
  <2>3. CASE ~(e.file = NoFile \/ e.rdwr) /\ e.ref = 0
    <3> DEFINE C == Caches(a, e.file)
    <3>1. o \in {IF c[2] = 0 THEN <<c[1], FALSE>>
                 ELSE <<[c[1] EXCEPT !.table[s].ref = c[2], !.table[s].cached = TRUE], TRUE>>
                   : c \in C}
      BY <2>3 DEF Reads
    <3> HIDE DEF C
    <3>2. \E c \in C :
            o = IF c[2] = 0 THEN <<c[1], FALSE>>
                ELSE <<[c[1] EXCEPT !.table[s].ref = c[2], !.table[s].cached = TRUE], TRUE>>
      BY <3>1, Zenon
    <3>3. \E c \in Caches(a, e.file) :
            o = IF c[2] = 0 THEN <<c[1], FALSE>>
                ELSE <<[c[1] EXCEPT !.table[s].ref = c[2], !.table[s].cached = TRUE], TRUE>>
      BY <3>2, Zenon DEF C
    <3>4. e.file # NoFile /\ e.ref = 0
      BY <2>3
    <3> QED BY <3>3, <3>4, Zenon
  <2> QED BY <2>1, <2>2, <2>3
<1> QED BY <1>1, <1>2, <1>3, <1>4

------------------------------------------------------------------------------
(* The search for a bitmap only opens and closes.                          *)
StaysFound(r) ==
  /\ Stays(Now, r.assets) /\ r.slot \in Slots \union {NoSlot}
  /\ r.slot \in Slots => r.file \in Pictures

LEMMA StaysOn == ASSUME NEW a, NEW b, NEW c, Stays(a, b), Stays(b, c) PROVE Stays(a, c)
BY DEF Stays

LEMMA BetterStays ==
  ASSUME NEW r, StaysFound(r), NEW f \in Pictures PROVE StaysFound(Better(r, f))
<1> DEFINE a == r.assets
           s == OpenSlot(a, f)
           w == FALSE
           b == Opened(a, f, w)
           c == Closed(b, r.slot)
           z == Better(r, f)
<1>1. f \in Files /\ Good(a) /\ IsAssets(a) /\ w \in BOOLEAN
  BY DEF Files, StaysFound, Stays, Good
<1>2. s \in Slots \union {NoSlot}
  BY <1>1, OpenSlotIs
<1>3. CASE s = NoSlot
  BY <1>3 DEF Better
<1>4. CASE s # NoSlot
  <2>1. z = [slot |-> s, file |-> f, assets |-> c]
    BY <1>4 DEF Better
  <2>2. z.slot = s /\ z.file = f /\ z.assets = c
    BY <2>1
  <2> HIDE DEF z, c, w, s
  <2>3. Stays(a, b)
    BY <1>1, OpenedStays
  <2> HIDE DEF b
  <2>4. Stays(b, c)
    BY <2>3, ClosedStays DEF Stays, StaysFound, c
  <2>5. Stays(Now, a)
    BY DEF StaysFound
  <2> HIDE DEF a
  <2>6. Stays(Now, c)
    BY <2>3, <2>4, <2>5, StaysOn
  <2> QED BY <1>2, <2>2, <2>6 DEF StaysFound, z
<1> QED BY <1>3, <1>4

LEMMA SearchStays ==
  ASSUME Good(Now), NEW p \in Patterns PROVE StaysFound(FindBestBitmap(p))
<1>0. Len(p) \in Nat /\ \A n \in 1 .. Len(p) : p[n] \in Pictures
  BY PatternsAssumption DEF PatternsAssumption
<1> DEFINE g == CHOOSE g : IsSearch(g, p, Len(p))
<1>1. IsSearch(g, p, Len(p))
  BY <1>0, SearchExists
<1>2. FindBestBitmap(p) = g[Len(p)]
  BY Zenon DEF FindBestBitmap, IsSearch
<1> HIDE DEF g
<1> DEFINE Bad == {n \in 0 .. Len(p) : ~StaysFound(g[n])}
<1> SUFFICES ASSUME Len(p) \in Bad PROVE FALSE
  BY <1>0, <1>2
<1>3. PICK n \in Bad : \A k \in Bad : n <= k
  <2>1. Bad \subseteq Nat /\ Bad # {}
    BY <1>0
  <2> HIDE DEF Bad
  <2> QED BY <2>1, LeastNumber
<1>4. n # 0
  <2>1. g[0] = Unfound
    BY <1>0, <1>1 DEF IsSearch
  <2>2. Unfound.assets = Now /\ Unfound.slot = NoSlot
    BY DEF Unfound
  <2>3. StaysFound(Unfound)
    BY <2>2, SlotsAreNumbers DEF StaysFound, Stays
  <2> QED BY <1>3, <2>1, <2>3
<1>5. n - 1 \in 0 .. Len(p) /\ n - 1 \notin Bad /\ n \in 1 .. Len(p)
  BY <1>0, <1>3, <1>4
<1>6. StaysFound(g[n - 1])
  BY <1>5
<1>7. g[n] = Better(g[n - 1], p[n])
  BY <1>0, <1>1, <1>3, <1>4 DEF IsSearch
<1> QED BY <1>0, <1>3, <1>5, <1>6, <1>7, BetterStays

LEMMA LoadBitmapStays ==
  ASSUME NEW a, Good(a), NEW s \in Slots, NEW o \in LoadBitmap(a, s) PROVE Stays(a, o[1])
<1>1. CASE o = <<a, FALSE>>
  <2>1. o[1] = a
    BY <1>1
  <2> QED BY <2>1 DEF Stays
<1>2. CASE o \in Reads(a, s)
  BY <1>2, ReadsStay
<1>3. CASE o \in {<<c[1], FALSE>> : c \in Reads(a, s)}
  <2> PICK c \in Reads(a, s) : o = <<c[1], FALSE>>
    BY <1>3
  <2>1. o[1] = c[1]
    OBVIOUS
  <2>2. Stays(a, c[1])
    BY ReadsStay
  <2> QED BY <2>1, <2>2
<1> QED BY <1>1, <1>2, <1>3 DEF LoadBitmap

------------------------------------------------------------------------------
(* Cleaning up is a function of how many slots it has passed: those have no*)
(* readers any more.                                                       *)
Passed(a, n) ==
  IF table[n].cached /\ table[n].ref # 0 THEN Discarded(a, table[n].ref) ELSE a
IsCleaning(g, m) == g = [n \in 0 .. m |-> IF n = 0 THEN Now ELSE Passed(g[n - 1], n)]

LEMMA CleaningExists == ASSUME NEW m \in Nat PROVE \E g : IsCleaning(g, m)
<1> DEFINE Bad == {n \in Nat : ~\E g : IsCleaning(g, n)}
<1> SUFFICES ASSUME m \in Bad PROVE FALSE
  OBVIOUS
<1>1. PICK n \in Bad : \A k \in Bad : n <= k
  BY LeastNumber
<1>2. n # 0
  <2> DEFINE g == [k \in 0 .. 0 |-> Now]
  <2>1. IsCleaning(g, 0)
    BY DEF IsCleaning
  <2> QED BY <2>1, <1>1
<1>3. n - 1 \in Nat /\ n - 1 \notin Bad
  BY <1>1, <1>2
<1>4. PICK g : IsCleaning(g, n - 1)
  BY <1>3
<1> DEFINE h == [k \in 0 .. n |-> IF k = n THEN Passed(g[n - 1], n) ELSE g[k]]
<1>5. \A k \in 0 .. n - 1 : h[k] = g[k]
  BY <1>3
<1>6. \A k \in 0 .. n : h[k] = IF k = 0 THEN Now ELSE Passed(h[k - 1], k)
  <2> SUFFICES ASSUME NEW k \in 0 .. n
               PROVE  h[k] = IF k = 0 THEN Now ELSE Passed(h[k - 1], k)
    OBVIOUS
  <2>1. CASE k = n
    <3>1. h[k] = Passed(g[n - 1], n)
      BY <2>1, <1>3
    <3>2. h[n - 1] = g[n - 1]
      BY <1>3, <1>5
    <3> QED BY <2>1, <1>2, <3>1, <3>2
  <2>2. CASE k # n
    <3>1. k \in 0 .. n - 1 /\ h[k] = g[k]
      BY <2>2, <1>3, <1>5
    <3>2. g[k] = IF k = 0 THEN Now ELSE Passed(g[k - 1], k)
      BY <1>4, <3>1 DEF IsCleaning
    <3>3. k # 0 => h[k - 1] = g[k - 1]
      BY <1>3, <1>5, <3>1
    <3> HIDE DEF h
    <3> QED BY <3>1, <3>2, <3>3
  <2> QED BY <2>1, <2>2
<1>7. IsCleaning(h, n)
  <2>1. h = [k \in 0 .. n |-> h[k]]
    OBVIOUS
  <2> HIDE DEF h
  <2> QED BY <1>6, <2>1, Zenon DEF IsCleaning
<1> QED BY <1>1, <1>7

Left(n) == [q \in Slots |-> IF q <= n THEN FreeAsset ELSE table[q]]
CleanedTo(a, n) ==
  /\ IsAssets(a) /\ a.table = table /\ a.readable = readable /\ a.heap = heap
  /\ a.spoilt = spoilt
  /\ Good(Now) => Counts(a.xms, a.mapped, a.spoilt, Left(n))

LEMMA LeftAfter ==
  ASSUME NEW n \in 1 .. MaxOpen
  PROVE  /\ n \in Slots /\ ~ReadAt(Left(n), n) /\ Left(n - 1)[n] = table[n]
         /\ \A q \in Slots : q # n => Left(n)[q] = Left(n - 1)[q]
<1>1. n \in Slots /\ \A q \in Slots : q # n => (q <= n <=> q <= n - 1)
  BY CacheNumbers DEF Slots
<1>2. ~(n <= n - 1) /\ n <= n
  BY CacheNumbers
<1>3. ~FreeAsset.cached
  BY DEF FreeAsset
<1> HIDE DEF FreeAsset
<1> QED BY <1>1, <1>2, <1>3 DEF Left, ReadAt

LEMMA PassedIsClean ==
  ASSUME NEW n \in 1 .. MaxOpen, NEW a, CleanedTo(a, n - 1) PROVE CleanedTo(Passed(a, n), n)
<1> DEFINE t == Left(n - 1)
           u == Left(n)
           e == table[n]
           h == e.ref
           d == Passed(a, n)
<1>1. n \in Slots /\ ~ReadAt(u, n) /\ t[n] = e /\ \A q \in Slots : q # n => SameAt(t, u, q)
  BY LeftAfter DEF SameAt, ReadAt
<1> HIDE DEF t, u
<1>2. Good(Now) => EntryOK(e, heap) /\ Counts(a.xms, a.mapped, a.spoilt, t)
  BY <1>1 DEF CleanedTo, Good, Now, t
<1>3. CASE e.cached /\ h # 0
  <2>1. d = Discarded(a, h)
    BY <1>3 DEF Passed
  <2> HIDE DEF d
  <2>2. DiscardedFrom(a, d, h)
    BY <2>1, DiscardedIs DEF CleanedTo
  <2>3. ASSUME Good(Now) PROVE Counts(d.xms, d.mapped, d.spoilt, u)
    <3>1. Drops(t, u, n)
      BY <1>1, <1>2, <1>3, <2>3 DEF Drops, ReadAt, EntryOK
    <3> QED BY <1>1, <1>2, <2>2, <2>3, <3>1, DiscardCounts
  <2> QED BY <2>2, <2>3 DEF CleanedTo, DiscardedFrom, d, u
<1>4. CASE ~(e.cached /\ h # 0)
  <2>1. d = a
    BY <1>4 DEF Passed
  <2> HIDE DEF d
  <2>2. ASSUME Good(Now) PROVE Counts(a.xms, a.mapped, a.spoilt, u)
    <3>1. ~ReadAt(t, n)
      BY <1>1, <1>2, <1>4, <2>2 DEF ReadAt, EntryOK
    <3>2. SameAt(t, u, n)
      BY <1>1, <3>1 DEF SameAt, ReadAt
    <3>3. \A q \in Slots : SameAt(t, u, q)
      BY <1>1, <3>2
    <3>4. SameReaders(t, u)
      BY <3>3 DEF SameReaders
    <3> QED BY <1>2, <2>2, <3>4, SameCounts
  <2> QED BY <2>1, <2>2 DEF CleanedTo, d, u
<1> QED BY <1>3, <1>4

LEMMA CleanedUpIs == ASSUME IsAssets(Now) PROVE CleanedTo(CleanedUp, MaxOpen)
<1>0. MaxOpen \in Nat
  BY CacheNumbers
<1> DEFINE g == CHOOSE g : IsCleaning(g, MaxOpen)
<1>1. IsCleaning(g, MaxOpen)
  BY <1>0, CleaningExists
<1>2. CleanedUp = g[MaxOpen]
  BY Zenon DEF CleanedUp, IsCleaning, Passed
<1> HIDE DEF g
<1> DEFINE Bad == {n \in 0 .. MaxOpen : ~CleanedTo(g[n], n)}
<1> SUFFICES ASSUME MaxOpen \in Bad PROVE FALSE
  BY <1>0, <1>2
<1>3. PICK n \in Bad : \A k \in Bad : n <= k
  <2>1. Bad \subseteq Nat /\ Bad # {}
    BY <1>0
  <2> HIDE DEF Bad
  <2> QED BY <2>1, LeastNumber
<1>4. n # 0
  <2>1. g[0] = Now
    BY <1>0, <1>1 DEF IsCleaning
  <2>2. SameReaders(table, Left(0))
    <3>1. \A q \in Slots : ~(q <= 0)
      BY CacheNumbers DEF Slots
    <3>2. \A q \in Slots : Left(0)[q] = table[q]
      BY <3>1 DEF Left
    <3> QED BY <3>2 DEF SameReaders, SameAt, ReadAt
  <2>3. /\ Now.table = table /\ Now.readable = readable /\ Now.heap = heap
        /\ Now.spoilt = spoilt
    BY DEF Now
  <2>4. Good(Now) => Counts(Now.xms, Now.mapped, Now.spoilt, Left(0))
    BY <2>2, <2>3, SameCounts DEF Good
  <2>5. CleanedTo(Now, 0)
    BY <2>3, <2>4 DEF CleanedTo
  <2> QED BY <1>3, <2>1, <2>5
<1>5. n - 1 \in 0 .. MaxOpen /\ n - 1 \notin Bad /\ n \in 1 .. MaxOpen
  BY <1>0, <1>3, <1>4
<1>6. CleanedTo(g[n - 1], n - 1)
  BY <1>5
<1>7. g[n] = Passed(g[n - 1], n)
  BY <1>0, <1>1, <1>3, <1>4 DEF IsCleaning
<1>8. CleanedTo(Passed(g[n - 1], n), n)
  BY <1>5, <1>6, PassedIsClean
<1> QED BY <1>3, <1>7, <1>8

------------------------------------------------------------------------------
(* The inductive invariant of the slots.                                   *)
Contexts(D) == [slot : Slots, file : Scripts, data : D]
StackOK(st) == \E D : 0 \notin D /\ st \in Seq(Contexts(D))
PictureOK(pic) == pic \in {NoPicture} \union [slot : Slots, file : Pictures, left : Int]

HeldBy(t, st, pic, sg) ==
  /\ \A i, j \in DOMAIN st : st[i].slot = st[j].slot => i = j
  /\ \A i \in DOMAIN st : Loaded(t[st[i].slot], st[i].file)
  /\ pic # NoPicture => t[pic.slot].file = pic.file
  /\ sg # NoSlot => t[sg].file \in Songs

NoneLost(t, st, pic, sg, dr) ==
  \A q \in Slots : \/ t[q].file = NoFile \/ t[q].rdwr
                   \/ \E i \in DOMAIN st : st[i].slot = q
                   \/ q = pic.slot \/ q = sg \/ q \in dr

Typed ==
  /\ IsTable(table) /\ SealedAt(table) /\ spoilt \in BOOLEAN /\ shared \in BOOLEAN
  /\ 0 \notin plain /\ StackOK(stack) /\ PictureOK(picture)
  /\ song \in Slots \union {NoSlot} /\ music \in Slots \union {NoSlot}

AInv ==
  /\ Typed
  /\ ~shared /\ ~spoilt => HeldBy(table, stack, picture, song)
  /\ NoneLost(table, stack, picture, song, dropped)

LEMMA NowIsSound ==
  ASSUME Typed
  PROVE  Sound(Now) /\ Now.table = table /\ Now.spoilt = spoilt
BY DEF Typed, Now, Sound, IsAssets

LEMMA Became ==
  ASSUME Typed, NEW b, Keeps(Now, b), Becomes(b)
  PROVE  /\ table' = b.table /\ spoilt' = b.spoilt
         /\ IsTable(table') /\ SealedAt(table') /\ spoilt' \in BOOLEAN
         /\ Kept(table, table') /\ (spoilt => spoilt')
BY NowIsSound DEF Keeps, Becomes, Sound, IsAssets

LEMMA ContextFields ==
  ASSUME NEW D, NEW st \in Seq(Contexts(D)), NEW i \in DOMAIN st
  PROVE  st[i].slot \in Slots /\ st[i].file \in Scripts /\ st[i].data \in D
<1>1. st[i] \in Contexts(D)
  OBVIOUS
<1> QED BY <1>1 DEF Contexts

LEMMA StackFields ==
  ASSUME NEW st, StackOK(st), NEW i \in DOMAIN st
  PROVE  st[i].slot \in Slots /\ st[i].file \in Scripts /\ st[i].data # 0
<1> PICK D : 0 \notin D /\ st \in Seq(Contexts(D))
  BY DEF StackOK
<1> QED BY ContextFields

LEMMA Appended ==
  ASSUME NEW st, StackOK(st), NEW s \in Slots, NEW f \in Scripts, NEW d, d # 0
  PROVE  LET e == [slot |-> s, file |-> f, data |-> d]
         IN  /\ StackOK(Append(st, e))
             /\ DOMAIN Append(st, e) = DOMAIN st \union {Len(st) + 1}
             /\ Len(st) + 1 \notin DOMAIN st
             /\ Append(st, e)[Len(st) + 1] = e
             /\ \A i \in DOMAIN st : Append(st, e)[i] = st[i]
<1> DEFINE e == [slot |-> s, file |-> f, data |-> d]
<1> PICK D : 0 \notin D /\ st \in Seq(Contexts(D))
  BY DEF StackOK
<1> DEFINE E == D \union {d}
<1>1. e \in Contexts(E) /\ Contexts(D) \subseteq Contexts(E) /\ 0 \notin E
  BY DEF Contexts
<1> HIDE DEF e, E
<1>2. st \in Seq(Contexts(E))
  BY <1>1
<1>3. Append(st, e) \in Seq(Contexts(E))
  BY <1>1, <1>2
<1>4. StackOK(Append(st, e))
  BY <1>1, <1>3 DEF StackOK
<1>5. /\ DOMAIN Append(st, e) = DOMAIN st \union {Len(st) + 1}
      /\ Len(st) + 1 \notin DOMAIN st /\ Append(st, e)[Len(st) + 1] = e
      /\ \A i \in DOMAIN st : Append(st, e)[i] = st[i]
  BY <1>1, <1>2
<1> QED BY <1>4, <1>5 DEF e

LEMMA Fronted ==
  ASSUME NEW st, StackOK(st), st # <<>>
  PROVE  /\ StackOK(Front(st)) /\ DOMAIN Front(st) = DOMAIN st \ {Len(st)}
         /\ Len(st) \in DOMAIN st /\ Last(st) = st[Len(st)]
         /\ \A i \in DOMAIN Front(st) : Front(st)[i] = st[i]
<1> PICK D : 0 \notin D /\ st \in Seq(Contexts(D))
  BY DEF StackOK
<1> DEFINE C == Contexts(D)
<1>1. st \in Seq(C)
  OBVIOUS
<1> HIDE DEF C
<1>2. Len(st) \in Nat \ {0} /\ DOMAIN st = 1 .. Len(st)
  BY <1>1
<1>3. Front(st) = SubSeq(st, 1, Len(st) - 1)
  BY DEF Front
<1>4. Front(st) \in Seq(C) /\ Len(Front(st)) = Len(st) - 1
      /\ \A i \in 1 .. Len(st) - 1 : Front(st)[i] = st[i]
  BY <1>1, <1>2, <1>3
<1>5. DOMAIN Front(st) = 1 .. Len(st) - 1
  BY <1>4
<1>6. StackOK(Front(st))
  BY <1>4 DEF StackOK, C
<1> QED BY <1>2, <1>4, <1>5, <1>6 DEF Last

(* Reading changes no slot's file, and who holds it still does.            *)
LEMMA ReadingIsHeld ==
  ASSUME NEW st, StackOK(st), NEW pic, PictureOK(pic), NEW sg \in Slots \union {NoSlot},
         NEW t, NEW u, SameFiles(t, u)
  PROVE  /\ \A dr : NoneLost(t, st, pic, sg, dr) => NoneLost(u, st, pic, sg, dr)
         /\ HeldBy(t, st, pic, sg)
              /\ (\A q \in Slots, f \in Files : Loaded(t[q], f) => Loaded(u[q], f))
              => HeldBy(u, st, pic, sg)
<1>1. \A dr : NoneLost(t, st, pic, sg, dr) => NoneLost(u, st, pic, sg, dr)
  BY DEF SameFiles, NoneLost
<1>2. ASSUME HeldBy(t, st, pic, sg),
             \A q \in Slots, f \in Files : Loaded(t[q], f) => Loaded(u[q], f)
      PROVE  HeldBy(u, st, pic, sg)
  <2>1. \A i \in DOMAIN st : Loaded(u[st[i].slot], st[i].file)
    BY <1>2, StackFields, SealedAreFiles DEF HeldBy
  <2>2. pic # NoPicture => pic.slot \in Slots
    BY DEF PictureOK
  <2>3. sg # NoSlot => sg \in Slots
    OBVIOUS
  <2> QED BY <1>2, <2>1, <2>2, <2>3 DEF HeldBy, SameFiles
<1> QED BY <1>1, <1>2

LEMMA CreatePreserves ==
  ASSUME AInv, NEW f \in Scripts, NEW w \in BOOLEAN, f \in Sealed => w, Create(f, w)
  PROVE  AInv' /\ Kept(table, table')
<1> DEFINE s == OpenSlot(Now, f)
           a == Opened(Now, f, w)
<1>1. Sound(Now) /\ Now.table = table /\ Now.spoilt = spoilt /\ f \in Files /\ Typed
  BY NowIsSound, SealedAreFiles DEF AInv
<1>2. /\ Keeps(Now, a) /\ a.spoilt = spoilt
      /\ s \in Slots \union {NoSlot}
      /\ \A q \in Slots : q # s => a.table[q] = table[q]
      /\ s = NoSlot => a = Now
      /\ s \in Slots => /\ table[s].file \in {f, NoFile}
                        /\ a.table[s].file = f
                        /\ Loaded(table[s], f) => Loaded(a.table[s], f)
  BY <1>1, OpeningKeeps
<1>3. PICK o \in IF s = NoSlot THEN {<<a, 0>>} ELSE Loads(a, s) :
           IF o[2] = 0 THEN Becomes(Closed(o[1], s)) /\ UNCHANGED <<stack, shared>>
           ELSE /\ Becomes(o[1])
                /\ stack' = Append(stack, [slot |-> s, file |-> f, data |-> o[2]])
                /\ shared' = (shared \/ \E i \in DOMAIN stack : stack[i].slot = s)
  BY DEF Create
<1>4. UNCHANGED <<plain, picture, song, music, dropped>>
  BY DEF Create
<1> HIDE DEF s, a
<1>5. \A i \in DOMAIN stack : stack[i].slot \in Slots /\ stack[i].file \in Scripts
  BY <1>1, StackFields DEF Typed
<1>6. /\ picture # NoPicture => picture.slot \in Slots /\ picture.file \in Pictures
      /\ song # NoSlot => song \in Slots
  BY <1>1 DEF Typed, PictureOK
<1>7. /\ Keeps(Now, o[1]) /\ o[1].spoilt = spoilt
      /\ \A q \in Slots : q # s => o[1].table[q] = table[q]
      /\ s \in Slots /\ o[2] # 0 => Loaded(o[1].table[s], f)
      /\ s \in Slots /\ Loaded(table[s], f) => o[2] # 0
      /\ o[2] # 0 => s \in Slots
  <2>1. CASE s = NoSlot
    BY <1>2, <1>3, <2>1, SlotsAreNumbers
  <2>2. CASE s # NoSlot
    <3>1. s \in Slots /\ o \in Loads(a, s) /\ Sound(a)
      BY <1>2, <1>3, <2>2 DEF Keeps
    <3>2. /\ Keeps(a, o[1]) /\ o[1].spoilt = a.spoilt
          /\ \A q \in Slots : q # s => o[1].table[q] = a.table[q]
          /\ o[2] # 0 => Loaded(o[1].table[s], a.table[s].file)
          /\ a.table[s].file # NoFile /\ Loaded(a.table[s], a.table[s].file) => o[2] # 0
      BY <3>1, LoadingKeeps
    <3>3. f # NoFile
      BY <1>1, SealedAreFiles
    <3>4. Keeps(Now, o[1])
      BY <1>2, <3>2, KeepsIsTransitive
    <3> QED BY <1>2, <3>1, <3>2, <3>3, <3>4
  <2> QED BY <2>1, <2>2
<1>8. CASE o[2] = 0
  <2> DEFINE b == Closed(o[1], s)
  <2>1. Becomes(b) /\ UNCHANGED <<stack, shared>>
    BY <1>3, <1>8
  <2>2. /\ Keeps(o[1], b) /\ b.spoilt = spoilt
        /\ \A q \in Slots : q # s => b.table[q] = o[1].table[q]
        /\ s \in Slots => b.table[s].file = NoFile \/ b.table[s].rdwr
    BY <1>2, <1>7, ClosingKeeps DEF Keeps
  <2> HIDE DEF b
  <2>3. Keeps(Now, b)
    BY <1>7, <2>2, KeepsIsTransitive
  <2>4. /\ table' = b.table /\ spoilt' = b.spoilt
        /\ IsTable(table') /\ SealedAt(table') /\ spoilt' \in BOOLEAN /\ Kept(table, table')
    BY <1>1, <2>1, <2>3, Became
  <2>5. Typed'
    BY <1>1, <1>4, <2>1, <2>4 DEF Typed
  <2>6. \A q \in Slots : q # s => table'[q] = table[q]
    BY <1>7, <2>2, <2>4
  <2>7. NoneLost(table', stack', picture', song', dropped')
    <3>1. ASSUME NEW q \in Slots
          PROVE  \/ table'[q].file = NoFile \/ table'[q].rdwr
                 \/ \E i \in DOMAIN stack : stack[i].slot = q
                 \/ q = picture.slot \/ q = song \/ q \in dropped
      <4>1. CASE q = s
        BY <2>2, <2>4, <4>1
      <4>2. CASE q # s
        BY <2>6, <4>2 DEF AInv, NoneLost
      <4> QED BY <4>1, <4>2
    <3> QED BY <1>4, <2>1, <3>1 DEF NoneLost
  <2>8. ASSUME ~shared', ~spoilt' PROVE HeldBy(table', stack', picture', song')
    <3>1. HeldBy(table, stack, picture, song)
      BY <2>1, <2>2, <2>4, <2>8 DEF AInv
    <3>2. \A i \in DOMAIN stack : stack[i].slot # s
      <4> SUFFICES ASSUME NEW i \in DOMAIN stack, stack[i].slot = s PROVE FALSE
        OBVIOUS
      <4>1. s \in Slots /\ Loaded(table[s], stack[i].file)
        BY <1>5, <3>1 DEF HeldBy
      <4>2. table[s].file = f
        BY <1>2, <1>5, <4>1, SealedAreFiles DEF Loaded
      <4> QED BY <1>7, <1>8, <4>1, <4>2 DEF Loaded
    <3>3. picture # NoPicture => picture.slot # s
      BY <1>2, <1>6, <3>1, SealedAreFiles DEF HeldBy
    <3>4. song # NoSlot => song # s
      BY <1>2, <1>6, <3>1, SealedAreFiles DEF HeldBy
    <3>5. HeldBy(table', stack, picture, song)
      BY <1>5, <1>6, <2>6, <3>1, <3>2, <3>3, <3>4 DEF HeldBy
    <3> QED BY <1>4, <2>1, <3>5
  <2> QED BY <2>4, <2>5, <2>7, <2>8 DEF AInv
<1>9. CASE o[2] # 0
  <2> DEFINE e == [slot |-> s, file |-> f, data |-> o[2]]
             st == Append(stack, e)
  <2>1. /\ Becomes(o[1]) /\ stack' = st
        /\ shared' = (shared \/ \E i \in DOMAIN stack : stack[i].slot = s)
    BY <1>3, <1>9
  <2>2. s \in Slots /\ Loaded(o[1].table[s], f)
    BY <1>7, <1>9
  <2>3. /\ table' = o[1].table /\ spoilt' = spoilt
        /\ IsTable(table') /\ SealedAt(table') /\ spoilt' \in BOOLEAN /\ Kept(table, table')
    BY <1>1, <1>7, <2>1, Became
  <2>4. /\ StackOK(st) /\ DOMAIN st = DOMAIN stack \union {Len(stack) + 1}
        /\ Len(stack) + 1 \notin DOMAIN stack
        /\ st[Len(stack) + 1] = e /\ \A i \in DOMAIN stack : st[i] = stack[i]
    BY <1>1, <1>9, <2>2, Appended DEF Typed
  <2>5. e.slot = s /\ e.file = f
    OBVIOUS
  <2> DEFINE n == Len(stack) + 1
  <2>6. shared' \in BOOLEAN
    BY <1>1, <2>1 DEF Typed
  <2> HIDE DEF e, st, n
  <2>7. Typed'
    BY <1>1, <1>4, <2>1, <2>3, <2>4, <2>6 DEF Typed
  <2>8. \A q \in Slots : q # s => table'[q] = table[q]
    BY <1>7, <2>3
  <2>9. NoneLost(table', stack', picture', song', dropped')
    <3>1. ASSUME NEW q \in Slots
          PROVE  \/ table'[q].file = NoFile \/ table'[q].rdwr
                 \/ \E i \in DOMAIN st : st[i].slot = q
                 \/ q = picture.slot \/ q = song \/ q \in dropped
      <4>1. CASE q = s
        BY <2>4, <2>5, <4>1 DEF n
      <4>2. CASE q # s
        <5>1. CASE \E i \in DOMAIN stack : stack[i].slot = q
          BY <2>4, <5>1
        <5>2. CASE ~\E i \in DOMAIN stack : stack[i].slot = q
          BY <2>8, <4>2, <5>2 DEF AInv, NoneLost
        <5> QED BY <5>1, <5>2
      <4> QED BY <4>1, <4>2
    <3> QED BY <1>4, <2>1, <3>1 DEF NoneLost
  <2>10. ASSUME ~shared', ~spoilt' PROVE HeldBy(table', stack', picture', song')
    <3>1. HeldBy(table, stack, picture, song)
      BY <2>1, <2>3, <2>10 DEF AInv
    <3>2. \A i \in DOMAIN stack : stack[i].slot # s
      BY <2>1, <2>10
    <3>3. picture # NoPicture => picture.slot # s
      BY <1>2, <1>6, <3>1, SealedAreFiles DEF HeldBy
    <3>4. song # NoSlot => song # s
      BY <1>2, <1>6, <3>1, SealedAreFiles DEF HeldBy
    <3>5. \A i, j \in DOMAIN st : st[i].slot = st[j].slot => i = j
      BY <2>4, <2>5, <3>1, <3>2 DEF HeldBy, n
    <3>6. \A i \in DOMAIN st : Loaded(table'[st[i].slot], st[i].file)
      <4> SUFFICES ASSUME NEW i \in DOMAIN st PROVE Loaded(table'[st[i].slot], st[i].file)
        OBVIOUS
      <4>1. CASE i \in DOMAIN stack
        BY <1>5, <2>4, <2>8, <3>1, <3>2, <4>1 DEF HeldBy
      <4>2. CASE i = n
        BY <2>2, <2>3, <2>4, <2>5, <4>2 DEF n
      <4> QED BY <2>4, <4>1, <4>2 DEF n
    <3>7. /\ picture # NoPicture => table'[picture.slot].file = picture.file
          /\ song # NoSlot => table'[song].file \in Songs
      BY <1>6, <2>8, <3>1, <3>3, <3>4 DEF HeldBy
    <3> QED BY <1>4, <2>1, <3>5, <3>6, <3>7 DEF HeldBy
  <2> QED BY <2>3, <2>7, <2>9, <2>10 DEF AInv
<1> QED BY <1>8, <1>9

(* A step that closes the slot s of a user who is leaving, after which the *)
(* users are st, pic and sg.                                               *)
LEMMA ClosingPreserves ==
  ASSUME Typed, NEW a, Sound(a), NEW s \in Slots \union {NoSlot},
         NEW st, StackOK(st), NEW pic, PictureOK(pic), NEW sg \in Slots \union {NoSlot},
         NEW dr
  PROVE  LET u == Closed(a, s).table
         IN  /\ (\A q \in Slots : \/ a.table[q].file = NoFile \/ a.table[q].rdwr
                                  \/ \E i \in DOMAIN st : st[i].slot = q
                                  \/ q = s \/ q = pic.slot \/ q = sg \/ q \in dr)
                  => NoneLost(u, st, pic, sg, dr)
             /\ /\ HeldBy(a.table, st, pic, sg)
                /\ \A i \in DOMAIN st : st[i].slot # s
                /\ pic # NoPicture => pic.slot # s
                /\ sg # NoSlot => sg # s
                => HeldBy(u, st, pic, sg)
<1> DEFINE u == Closed(a, s).table
<1>1. /\ \A q \in Slots : q # s => u[q] = a.table[q]
      /\ s \in Slots => u[s].file = NoFile \/ u[s].rdwr
  BY ClosingKeeps
<1> HIDE DEF u
<1>2. \A i \in DOMAIN st : st[i].slot \in Slots
  BY StackFields
<1>3. pic # NoPicture => pic.slot \in Slots
  BY DEF PictureOK
<1>4. ASSUME \A q \in Slots : \/ a.table[q].file = NoFile \/ a.table[q].rdwr
                              \/ \E i \in DOMAIN st : st[i].slot = q
                              \/ q = s \/ q = pic.slot \/ q = sg \/ q \in dr
      PROVE  NoneLost(u, st, pic, sg, dr)
  BY <1>1, <1>4 DEF NoneLost
<1>5. ASSUME HeldBy(a.table, st, pic, sg), \A i \in DOMAIN st : st[i].slot # s,
             pic # NoPicture => pic.slot # s, sg # NoSlot => sg # s
      PROVE  HeldBy(u, st, pic, sg)
  BY <1>1, <1>2, <1>3, <1>5 DEF HeldBy
<1> QED BY <1>4, <1>5 DEF u

LEMMA UsersAreTyped ==
  ASSUME Typed
  PROVE  /\ \A i \in DOMAIN stack : stack[i].slot \in Slots /\ stack[i].file \in Scripts
                                    /\ stack[i].data # 0
         /\ picture # NoPicture => picture.slot \in Slots /\ picture.file \in Pictures
         /\ picture.slot \in Slots \union {NoSlot}
         /\ NoPicture.slot = NoSlot
<1>1. NoPicture.slot = NoSlot
  BY DEF NoPicture
<1>2. picture # NoPicture => picture.slot \in Slots /\ picture.file \in Pictures
  BY DEF Typed, PictureOK
<1>3. \A i \in DOMAIN stack : stack[i].slot \in Slots /\ stack[i].file \in Scripts
                              /\ stack[i].data # 0
  BY StackFields DEF Typed
<1> QED BY <1>1, <1>2, <1>3

(* The invariant after a step, by its parts.                               *)
LEMMA Preserved ==
  ASSUME Typed, NEW b, Keeps(Now, b), Becomes(b),
         shared' \in BOOLEAN, 0 \notin plain', StackOK(stack'), PictureOK(picture'),
         song' \in Slots \union {NoSlot}, music' \in Slots \union {NoSlot},
         NoneLost(b.table, stack', picture', song', dropped'),
         ~shared' /\ ~b.spoilt => HeldBy(b.table, stack', picture', song')
  PROVE  AInv' /\ Kept(table, table')
<1>1. /\ table' = b.table /\ spoilt' = b.spoilt
      /\ IsTable(table') /\ SealedAt(table') /\ spoilt' \in BOOLEAN
      /\ Kept(table, table')
  BY Became
<1>2. Typed'
  BY <1>1 DEF Typed
<1> QED BY <1>1, <1>2 DEF AInv

LEMMA LoadIconPreserves ==
  ASSUME AInv, LoadIcon PROVE AInv' /\ Kept(table, table')
<1> DEFINE s == OpenSlot(Now, Icon)
           a == Opened(Now, Icon, FALSE)
<1>1. Sound(Now) /\ Now.table = table /\ Now.spoilt = spoilt /\ Typed
  BY NowIsSound DEF AInv
<1>2. s # NoSlot /\ \E o \in Loads(a, s) : o[2] # 0 /\ Becomes(Closed(o[1], s))
  BY DEF LoadIcon
<1>3. /\ Keeps(Now, a) /\ a.spoilt = spoilt
      /\ s \in Slots \union {NoSlot}
      /\ \A q \in Slots : q # s => a.table[q] = table[q]
      /\ s \in Slots => table[s].file \in {Icon, NoFile}
  <2> DEFINE w == FALSE
  <2>1. w \in BOOLEAN /\ Icon \in Files /\ (Icon \in Sealed => w) /\ Sound(Now)
    BY <1>1, SealedAreFiles
  <2>2. a = Opened(Now, Icon, w)
    OBVIOUS
  <2> HIDE DEF w, a, s
  <2> QED BY <1>1, <2>1, <2>2, OpeningKeeps DEF s
<1>4. UNCHANGED <<plain, stack, picture, song, music, dropped, shared>>
  BY DEF LoadIcon, users
<1> HIDE DEF s, a
<1>5. PICK o \in Loads(a, s) : o[2] # 0 /\ Becomes(Closed(o[1], s))
  BY <1>2
<1>6. s \in Slots /\ Sound(a)
  BY <1>2, <1>3 DEF Keeps
<1>7. /\ Keeps(a, o[1]) /\ o[1].spoilt = a.spoilt
      /\ \A q \in Slots : q # s => o[1].table[q] = a.table[q]
  BY <1>5, <1>6, LoadingKeeps
<1> DEFINE b == Closed(o[1], s)
<1>8. /\ Keeps(o[1], b) /\ b.spoilt = spoilt
      /\ \A q \in Slots : q # s => b.table[q] = o[1].table[q]
      /\ b.table[s].file = NoFile \/ b.table[s].rdwr
  BY <1>3, <1>6, <1>7, ClosingKeeps DEF Keeps
<1>9. Becomes(b)
  BY <1>5
<1> HIDE DEF b
<1>10. Keeps(Now, b)
  BY <1>3, <1>7, <1>8, KeepsIsTransitive
<1>11. \A q \in Slots : q # s => b.table[q] = table[q]
  BY <1>3, <1>7, <1>8
<1>12. NoneLost(b.table, stack, picture, song, dropped)
  BY <1>8, <1>11 DEF AInv, NoneLost
<1>13. ASSUME ~shared, ~b.spoilt PROVE HeldBy(b.table, stack, picture, song)
  <2>1. HeldBy(table, stack, picture, song)
    BY <1>8, <1>13 DEF AInv
  <2>2. \A i \in DOMAIN stack : stack[i].slot # s
    BY <1>1, <1>3, <1>6, <2>1, UsersAreTyped, SealedAreFiles DEF HeldBy, Loaded
  <2>3. picture # NoPicture => picture.slot # s
    <3> SUFFICES ASSUME picture # NoPicture, picture.slot = s PROVE FALSE
      OBVIOUS
    <3>1. table[s].file \in Pictures
      BY <1>1, <2>1, UsersAreTyped DEF HeldBy
    <3> QED BY <1>3, <1>6, <3>1, KindsAssumption DEF KindsAssumption, Files
  <2>4. song # NoSlot => song # s
    BY <1>3, <1>6, <2>1, KindsAssumption DEF HeldBy, KindsAssumption, Files
  <2> QED BY <1>1, <1>11, <2>1, <2>2, <2>3, <2>4, UsersAreTyped DEF HeldBy, Typed
<1> QED BY <1>1, <1>4, <1>9, <1>10, <1>12, <1>13, Preserved DEF Typed

LEMMA UnlockPreserves ==
  ASSUME AInv, Unlock PROVE AInv' /\ Kept(table, table')
<1>1. Typed /\ stack # <<>> /\ plain' = plain \union {Top.data}
  BY DEF AInv, Unlock
<1>2. UNCHANGED <<table, spoilt, stack, picture, song, music, dropped, shared>>
  BY DEF Unlock, assets, users
<1>3. Top.data # 0
  <2>1. StackOK(stack)
    BY <1>1 DEF Typed
  <2>2. Len(stack) \in DOMAIN stack /\ Last(stack) = stack[Len(stack)]
    BY <1>1, <2>1, Fronted
  <2> QED BY <1>1, <2>2, UsersAreTyped DEF Top
<1>4. Typed'
  BY <1>1, <1>2, <1>3 DEF Typed
<1> QED BY <1>2, <1>4 DEF AInv, Kept

LEMMA LeavePreserves ==
  ASSUME AInv, Leave PROVE AInv' /\ Kept(table, table')
<1> DEFINE s == Top.slot
           b == Closed(Now, s)
           n == Len(stack)
           st == Front(stack)
<1>1. Sound(Now) /\ Now.table = table /\ Now.spoilt = spoilt /\ Typed
  BY NowIsSound DEF AInv
<1>2. stack # <<>> /\ stack' = st /\ Becomes(b)
  BY DEF Leave
<1>3. UNCHANGED <<plain, picture, song, music, dropped, shared>>
  BY DEF Leave
<1>4. /\ StackOK(st) /\ DOMAIN st = DOMAIN stack \ {n} /\ n \in DOMAIN stack
      /\ Top = stack[n] /\ \A i \in DOMAIN st : st[i] = stack[i]
  BY <1>1, <1>2, Fronted DEF Typed, Top
<1>5. s \in Slots
  BY <1>1, <1>4, UsersAreTyped
<1>6. Keeps(Now, b) /\ b.spoilt = spoilt
  BY <1>1, <1>5, ClosingKeeps
<1>7. NoneLost(b.table, st, picture, song, dropped)
  <2>1. ASSUME NEW q \in Slots
        PROVE  \/ Now.table[q].file = NoFile \/ Now.table[q].rdwr
               \/ \E i \in DOMAIN st : st[i].slot = q
               \/ q = s \/ q = picture.slot \/ q = song \/ q \in dropped
    <3>1. CASE \E i \in DOMAIN stack : stack[i].slot = q
      <4> PICK i \in DOMAIN stack : stack[i].slot = q
        BY <3>1
      <4> HIDE DEF st, n
      <4> QED BY <1>4
    <3>2. CASE ~\E i \in DOMAIN stack : stack[i].slot = q
      BY <1>1, <3>2 DEF AInv, NoneLost
    <3> QED BY <3>1, <3>2
  <2> HIDE DEF s, st, n
  <2> QED BY <1>1, <1>4, <1>5, <2>1, ClosingPreserves DEF Typed
<1>8. ASSUME ~shared, ~b.spoilt PROVE HeldBy(b.table, st, picture, song)
  <2>1. HeldBy(table, stack, picture, song)
    BY <1>6, <1>8 DEF AInv
  <2> HIDE DEF st, n
  <2>2. \A i \in DOMAIN st : st[i].slot # s
    BY <1>4, <2>1 DEF HeldBy
  <2>3. table[s].file \in Scripts
    BY <1>1, <1>4, <2>1, UsersAreTyped DEF HeldBy, Loaded
  <2>4. picture # NoPicture => picture.slot # s
    BY <1>1, <2>1, <2>3, UsersAreTyped, SealedAreFiles DEF HeldBy
  <2>5. song # NoSlot => song # s
    BY <2>1, <2>3, SealedAreFiles DEF HeldBy
  <2>6. HeldBy(table, st, picture, song)
    BY <1>4, <2>1 DEF HeldBy
  <2> HIDE DEF s
  <2> QED BY <1>1, <1>4, <1>5, <2>2, <2>4, <2>5, <2>6, ClosingPreserves DEF Typed
<1> HIDE DEF b, st
<1> QED BY <1>1, <1>2, <1>3, <1>4, <1>6, <1>7, <1>8, Preserved DEF Typed

LEMMA StartPicturePreserves ==
  ASSUME AInv, StartPicture PROVE AInv' /\ Kept(table, table')
<1>1. Sound(Now) /\ Now.table = table /\ Now.spoilt = spoilt /\ Typed
  BY NowIsSound DEF AInv
<1>2. UNCHANGED <<plain, stack, song, music, shared>> /\ picture = NoPicture
  BY DEF StartPicture, Acts
<1>3. PICK p \in Patterns :
        LET best == FindBestBitmap(p)
        IN  IF best.slot = NoSlot
            THEN Becomes(best.assets) /\ UNCHANGED <<picture, dropped>>
            ELSE \E o \in LoadBitmap(best.assets, best.slot) :
                   /\ Becomes(o[1])
                   /\ \/ /\ o[2]
                         /\ picture' \in {[slot |-> best.slot, file |-> best.file, left |-> n]
                                            : n \in 1 .. MaxChunks}
                         /\ dropped' = dropped \ {best.slot}
                      \/ /\ ~o[2] /\ dropped' = dropped \union {best.slot}
                         /\ UNCHANGED picture
  BY DEF StartPicture
<1> DEFINE r == FindBestBitmap(p)
           s == r.slot
           a == r.assets
<1>4. GoodSearch(r, p, Len(p))
  BY <1>1, SearchIsGood DEF Typed
<1> HIDE DEF r
<1>5. s \in Slots => a.table[s].file = r.file /\ r.file \in Pictures
  <2> SUFFICES ASSUME s \in Slots PROVE a.table[s].file = r.file /\ r.file \in Pictures
    OBVIOUS
  <2>1. PICK k \in 1 .. Len(p) : r.file = p[k]
    BY <1>4 DEF GoodSearch
  <2>2. p[k] \in Pictures
    BY PatternsAssumption DEF PatternsAssumption
  <2> QED BY <1>4, <2>1, <2>2 DEF GoodSearch
<1>6. /\ IsAssets(a) /\ a.spoilt = spoilt /\ s \in Slots \union {NoSlot}
      /\ \A q \in Slots : table[q].file \notin Pictures \union {NoFile} => a.table[q] = table[q]
      /\ \A q \in Slots \ {s} : \/ a.table[q] = table[q]
                                \/ a.table[q].file = NoFile \/ a.table[q].rdwr
  BY <1>4 DEF GoodSearch
<1>7. Keeps(Now, a)
  <2>1. \A q \in Slots : table[q].file \in Sealed => a.table[q] = table[q]
    BY <1>6, SealedAreFiles
  <2>2. ASSUME NEW q \in Slots, a.table[q].file \in Sealed PROVE a.table[q].rdwr
    <3>1. q # s
      BY <1>5, <2>2, SealedAreFiles
    <3>2. a.table[q].file # NoFile
      BY <2>2, SealedAreFiles
    <3> QED BY <1>1, <1>6, <2>2, <3>1, <3>2 DEF Typed, SealedAt
  <2> QED BY <1>1, <1>6, <2>1, <2>2 DEF Keeps, Kept, Sound, SealedAt
<1>8. ASSUME NEW q \in Slots, q # s
      PROVE  \/ a.table[q].file = NoFile \/ a.table[q].rdwr
             \/ \E i \in DOMAIN stack : stack[i].slot = q
             \/ q = song \/ q \in dropped \ {s}
  <2>1. q # picture.slot
    BY <1>1, <1>2, UsersAreTyped, SlotsAreNumbers
  <2> HIDE DEF s
  <2> QED BY <1>6, <1>8, <2>1 DEF AInv, NoneLost
<1>9. ASSUME ~shared, ~spoilt
      PROVE  /\ HeldBy(a.table, stack, NoPicture, song)
             /\ \A i, j \in DOMAIN stack : stack[i].slot = stack[j].slot => i = j
  <2>1. HeldBy(table, stack, picture, song)
    BY <1>9 DEF AInv
  <2>2. ASSUME NEW i \in DOMAIN stack PROVE a.table[stack[i].slot] = table[stack[i].slot]
    <3>1. stack[i].slot \in Slots /\ table[stack[i].slot].file \in Scripts
      BY <1>1, <2>1, UsersAreTyped DEF HeldBy, Loaded
    <3> QED BY <1>6, <3>1, SealedAreFiles
  <2>3. song # NoSlot => a.table[song] = table[song]
    <3> SUFFICES ASSUME song # NoSlot PROVE a.table[song] = table[song]
      OBVIOUS
    <3>1. song \in Slots /\ table[song].file \in Songs
      BY <1>1, <2>1 DEF HeldBy, Typed
    <3>2. table[song].file \notin Pictures \union {NoFile}
      BY <3>1, SealedAreFiles
    <3> QED BY <1>6, <3>1, <3>2
  <2> HIDE DEF a
  <2> QED BY <2>1, <2>2, <2>3 DEF HeldBy
<1>10. CASE s = NoSlot
  <2>1. Becomes(a) /\ UNCHANGED <<picture, dropped>>
    BY <1>3, <1>10 DEF r
  <2>2. \A q \in Slots : q # s
    BY <1>10, SlotsAreNumbers
  <2> HIDE DEF s, a
  <2>3. NoneLost(a.table, stack, picture, song, dropped)
    BY <1>8, <2>2 DEF NoneLost
  <2> QED BY <1>1, <1>2, <1>6, <1>7, <1>9, <2>1, <2>3, Preserved DEF Typed
<1>11. CASE s # NoSlot
  <2>1. PICK o \in LoadBitmap(a, s) :
           /\ Becomes(o[1])
           /\ \/ /\ o[2]
                 /\ picture' \in {[slot |-> s, file |-> r.file, left |-> n] : n \in 1 .. MaxChunks}
                 /\ dropped' = dropped \ {s}
              \/ ~o[2] /\ dropped' = dropped \union {s} /\ UNCHANGED picture
    BY <1>3, <1>11 DEF r
  <2>2. s \in Slots /\ Sound(a)
    BY <1>6, <1>7, <1>11 DEF Keeps
  <2> HIDE DEF s, a
  <2>3. /\ Keeps(a, o[1]) /\ SameFiles(a.table, o[1].table)
        /\ o[1].spoilt \/ \A q \in Slots, f \in Files :
                            Loaded(a.table[q], f) => Loaded(o[1].table[q], f)
    <3>1. CASE o[1] = a
      BY <2>2, <3>1 DEF Keeps, Kept, SameFiles
    <3>2. ASSUME NEW c \in Reads(a, s), o[1] = c[1]
          PROVE  /\ Keeps(a, o[1]) /\ SameFiles(a.table, o[1].table)
                 /\ o[1].spoilt \/ \A q \in Slots, f \in Files :
                                     Loaded(a.table[q], f) => Loaded(o[1].table[q], f)
      BY <2>2, <3>2, ReadingKeeps
    <3>3. o[1] = a \/ \E c \in Reads(a, s) : o[1] = c[1]
      <4>1. o = <<a, FALSE>> \/ o \in Reads(a, s) \/ o \in {<<c[1], FALSE>> : c \in Reads(a, s)}
        BY DEF LoadBitmap
      <4>2. CASE o \in {<<c[1], FALSE>> : c \in Reads(a, s)}
        <5> PICK c \in Reads(a, s) : o = <<c[1], FALSE>>
          BY <4>2
        <5>1. o[1] = c[1]
          OBVIOUS
        <5> QED BY <5>1
      <4>3. CASE o = <<a, FALSE>>
        BY <4>3
      <4>4. CASE o \in Reads(a, s)
        BY <4>4
      <4> QED BY <4>1, <4>2, <4>3, <4>4
    <3> QED BY <3>1, <3>2, <3>3
  <2>4. Keeps(Now, o[1]) /\ StackOK(stack) /\ song \in Slots \union {NoSlot}
    BY <1>1, <1>7, <2>3, KeepsIsTransitive DEF Typed
  <2>5. o[1].spoilt \/ spoilt = FALSE
    BY <1>1, <2>4 DEF Keeps, Typed
  <2>6. CASE /\ picture' \in {[slot |-> s, file |-> r.file, left |-> n] : n \in 1 .. MaxChunks}
             /\ dropped' = dropped \ {s}
    <3>1. PictureOK(picture') /\ picture'.slot = s /\ picture'.file = r.file
      <4> PICK n \in 1 .. MaxChunks : picture' = [slot |-> s, file |-> r.file, left |-> n]
        BY <2>6
      <4>1. n \in Int
        BY BoundsAssumption
      <4> QED BY <1>5, <2>2, <4>1 DEF PictureOK, s, a
    <3>2. NoneLost(a.table, stack, picture', song, dropped')
      BY <1>8, <2>6, <3>1 DEF NoneLost
    <3>3. NoneLost(o[1].table, stack, picture', song, dropped')
      BY <2>3, <2>4, <3>1, <3>2, ReadingIsHeld
    <3>4. ASSUME ~shared, ~o[1].spoilt PROVE HeldBy(o[1].table, stack, picture', song)
      <4>1. HeldBy(a.table, stack, NoPicture, song)
        BY <1>9, <2>5, <3>4
      <4>2. a.table[picture'.slot].file = picture'.file
        BY <1>5, <2>2, <3>1 DEF s, a
      <4>3. HeldBy(a.table, stack, picture', song)
        BY <4>1, <4>2 DEF HeldBy
      <4> QED BY <2>3, <2>4, <3>1, <3>4, <4>3, ReadingIsHeld
    <3> QED BY <1>1, <1>2, <2>1, <2>4, <3>1, <3>3, <3>4, Preserved DEF Typed
  <2>7. CASE dropped' = dropped \union {s} /\ UNCHANGED picture
    <3>1. NoneLost(a.table, stack, picture, song, dropped')
      BY <1>8, <2>7 DEF NoneLost
    <3>2. PictureOK(picture)
      BY <1>1 DEF Typed
    <3>3. NoneLost(o[1].table, stack, picture, song, dropped')
      BY <2>3, <2>4, <3>1, <3>2, ReadingIsHeld
    <3>4. ASSUME ~shared, ~o[1].spoilt PROVE HeldBy(o[1].table, stack, picture, song)
      <4>1. HeldBy(a.table, stack, picture, song)
        BY <1>2, <1>9, <2>5, <3>4
      <4> QED BY <2>3, <2>4, <3>2, <3>4, <4>1, ReadingIsHeld
    <3> QED BY <1>1, <1>2, <2>1, <2>4, <2>7, <3>2, <3>3, <3>4, Preserved DEF Typed
  <2> QED BY <2>1, <2>6, <2>7
<1> QED BY <1>10, <1>11

(* A read at any slot, the users staying who they are.                     *)
LEMMA ReadPreserves ==
  ASSUME AInv, NEW s \in Slots, NEW o \in Reads(Now, s)
  PROVE  /\ Keeps(Now, o[1])
         /\ NoneLost(o[1].table, stack, picture, song, dropped)
         /\ ~shared /\ ~o[1].spoilt => HeldBy(o[1].table, stack, picture, song)
<1>1. Sound(Now) /\ Now.table = table /\ Now.spoilt = spoilt /\ Typed
  BY NowIsSound DEF AInv
<1>2. /\ Keeps(Now, o[1]) /\ SameFiles(table, o[1].table)
      /\ o[1].spoilt \/ \A q \in Slots, f \in Files :
                          Loaded(table[q], f) => Loaded(o[1].table[q], f)
  BY <1>1, ReadingKeeps
<1>3. StackOK(stack) /\ PictureOK(picture) /\ song \in Slots \union {NoSlot}
  BY <1>1 DEF Typed
<1>4. NoneLost(o[1].table, stack, picture, song, dropped)
  BY <1>2, <1>3, ReadingIsHeld DEF AInv
<1>5. ASSUME ~shared, ~o[1].spoilt PROVE HeldBy(o[1].table, stack, picture, song)
  <2>1. HeldBy(table, stack, picture, song)
    BY <1>1, <1>2, <1>5 DEF AInv, Keeps
  <2> QED BY <1>2, <1>3, <1>5, <2>1, ReadingIsHeld
<1> QED BY <1>2, <1>4, <1>5

LEMMA DrawChunkPreserves ==
  ASSUME AInv, DrawChunk PROVE AInv' /\ Kept(table, table')
<1>1. Typed /\ picture # NoPicture
  BY DEF AInv, DrawChunk
<1>2. PICK o \in Reads(Now, picture.slot) : Becomes(o[1])
  BY DEF DrawChunk
<1>3. UNCHANGED <<plain, stack, song, music, dropped, shared>>
  BY DEF DrawChunk
<1>4. PictureOK(picture') /\ picture'.slot = picture.slot /\ picture'.file = picture.file
  <2>1. picture \in [slot : Slots, file : Pictures, left : Int]
    BY <1>1 DEF Typed, PictureOK
  <2>2. picture' = [picture EXCEPT !.left = @ - 1]
    BY DEF DrawChunk
  <2> QED BY <2>1, <2>2 DEF PictureOK
<1>5. picture.slot \in Slots
  BY <1>1, UsersAreTyped
<1>6. /\ Keeps(Now, o[1])
      /\ NoneLost(o[1].table, stack, picture, song, dropped)
      /\ ~shared /\ ~o[1].spoilt => HeldBy(o[1].table, stack, picture, song)
  BY <1>2, <1>5, ReadPreserves
<1>7. /\ NoneLost(o[1].table, stack, picture', song, dropped)
      /\ ~shared /\ ~o[1].spoilt => HeldBy(o[1].table, stack, picture', song)
  BY <1>1, <1>4, <1>6 DEF NoneLost, HeldBy
<1> QED BY <1>1, <1>2, <1>3, <1>4, <1>6, <1>7, Preserved DEF Typed

LEMMA CompletePreserves ==
  ASSUME AInv, Complete PROVE AInv' /\ Kept(table, table')
<1> DEFINE s == picture.slot
           b == Closed(Now, s)
<1>1. Sound(Now) /\ Now.table = table /\ Now.spoilt = spoilt /\ Typed
  BY NowIsSound DEF AInv
<1>2. picture # NoPicture /\ Becomes(b) /\ picture' = NoPicture
  BY DEF Complete
<1>3. UNCHANGED <<plain, stack, song, music, dropped, shared>>
  BY DEF Complete
<1>4. s \in Slots /\ PictureOK(NoPicture) /\ StackOK(stack) /\ song \in Slots \union {NoSlot}
  BY <1>1, <1>2, UsersAreTyped DEF Typed, PictureOK
<1>5. Keeps(Now, b) /\ b.spoilt = spoilt
  BY <1>1, <1>4, ClosingKeeps
<1>6. NoneLost(b.table, stack, NoPicture, song, dropped)
  <2>1. \A q \in Slots : \/ Now.table[q].file = NoFile \/ Now.table[q].rdwr
                         \/ \E i \in DOMAIN stack : stack[i].slot = q
                         \/ q = s \/ q = NoPicture.slot \/ q = song \/ q \in dropped
    BY <1>1 DEF AInv, NoneLost
  <2> HIDE DEF s
  <2> QED BY <1>1, <1>4, <2>1, ClosingPreserves
<1>7. ASSUME ~shared, ~b.spoilt PROVE HeldBy(b.table, stack, NoPicture, song)
  <2>1. HeldBy(table, stack, picture, song)
    BY <1>5, <1>7 DEF AInv
  <2>2. table[s].file \in Pictures
    BY <1>1, <1>2, <2>1, UsersAreTyped DEF HeldBy
  <2>3. \A i \in DOMAIN stack : stack[i].slot # s
    BY <1>1, <2>1, <2>2, UsersAreTyped, SealedAreFiles DEF HeldBy, Loaded
  <2>4. song # NoSlot => song # s
    BY <2>1, <2>2, SealedAreFiles DEF HeldBy
  <2>5. HeldBy(table, stack, NoPicture, song)
    BY <2>1 DEF HeldBy
  <2> HIDE DEF s
  <2> QED BY <1>1, <1>4, <2>3, <2>4, <2>5, ClosingPreserves
<1> HIDE DEF b
<1> QED BY <1>1, <1>2, <1>3, <1>4, <1>5, <1>6, <1>7, Preserved DEF Typed

(* The song's asset is closed, perhaps after a read: nobody holds its slot *)
(* then, and the others hold theirs.                                       *)
LEMMA SongClosed ==
  ASSUME AInv, NEW a, Keeps(Now, a),
         NoneLost(a.table, stack, picture, song, dropped),
         ~shared /\ ~a.spoilt => HeldBy(a.table, stack, picture, song)
  PROVE  LET b == Closed(a, song)
         IN  /\ Keeps(Now, b)
             /\ NoneLost(b.table, stack, picture, NoSlot, dropped)
             /\ ~shared /\ ~b.spoilt => HeldBy(b.table, stack, picture, NoSlot)
<1> DEFINE b == Closed(a, song)
<1>1. /\ Typed /\ StackOK(stack) /\ PictureOK(picture) /\ song \in Slots \union {NoSlot}
      /\ Sound(a) /\ NoSlot \in Slots \union {NoSlot}
  BY DEF AInv, Typed, Keeps
<1>2. Keeps(a, b) /\ b.spoilt = a.spoilt
  BY <1>1, ClosingKeeps
<1>3. Keeps(Now, b)
  BY <1>2, KeepsIsTransitive
<1>4. NoneLost(b.table, stack, picture, NoSlot, dropped)
  <2>1. \A q \in Slots : \/ a.table[q].file = NoFile \/ a.table[q].rdwr
                         \/ \E i \in DOMAIN stack : stack[i].slot = q
                         \/ q = song \/ q = picture.slot \/ q = NoSlot \/ q \in dropped
    BY DEF NoneLost
  <2> QED BY <1>1, <2>1, ClosingPreserves
<1>5. ASSUME ~shared, ~b.spoilt PROVE HeldBy(b.table, stack, picture, NoSlot)
  <2>1. HeldBy(a.table, stack, picture, song)
    BY <1>2, <1>5
  <2>2. \A i \in DOMAIN stack : stack[i].slot # song
    <3> SUFFICES ASSUME NEW i \in DOMAIN stack, stack[i].slot = song PROVE FALSE
      OBVIOUS
    <3>1. song # NoSlot
      BY <1>1, UsersAreTyped, SlotsAreNumbers
    <3>2. a.table[song].file \in Songs /\ a.table[song].file \in Scripts
      BY <1>1, <2>1, <3>1, UsersAreTyped DEF HeldBy, Loaded
    <3> QED BY <3>2, SealedAreFiles
  <2>3. picture # NoPicture => picture.slot # song
    <3> SUFFICES ASSUME picture # NoPicture, picture.slot = song PROVE FALSE
      OBVIOUS
    <3>1. song # NoSlot
      BY <1>1, UsersAreTyped, SlotsAreNumbers
    <3>2. a.table[song].file \in Songs /\ a.table[song].file \in Pictures
      BY <1>1, <2>1, <3>1, UsersAreTyped DEF HeldBy
    <3> QED BY <3>2, SealedAreFiles
  <2>4. HeldBy(a.table, stack, picture, NoSlot)
    BY <2>1 DEF HeldBy
  <2> QED BY <1>1, <2>2, <2>3, <2>4, ClosingPreserves
<1> QED BY <1>3, <1>4, <1>5

LEMMA NowIsHeld ==
  ASSUME AInv
  PROVE  /\ Keeps(Now, Now) /\ NoneLost(Now.table, stack, picture, song, dropped)
         /\ ~shared /\ ~Now.spoilt => HeldBy(Now.table, stack, picture, song)
<1>1. Sound(Now) /\ Now.table = table /\ Now.spoilt = spoilt
  BY NowIsSound DEF AInv
<1> QED BY <1>1 DEF Keeps, Kept, AInv

LEMMA PlayPreserves ==
  ASSUME AInv, NEW f \in Songs, Play(f) PROVE AInv' /\ Kept(table, table')
<1> DEFINE a == Closed(Now, song)
           s == OpenSlot(a, f)
           w == FALSE
           b == Opened(a, f, w)
<1>1. Typed
  BY DEF AInv
<1>2. Becomes(b) /\ song' = s /\ music' = IF song' = NoSlot THEN music ELSE song'
  BY DEF Play
<1>3. UNCHANGED <<plain, stack, picture, dropped, shared>>
  BY DEF Play
<1>4. /\ Keeps(Now, a)
      /\ NoneLost(a.table, stack, picture, NoSlot, dropped)
      /\ ~shared /\ ~a.spoilt => HeldBy(a.table, stack, picture, NoSlot)
  BY NowIsHeld, SongClosed
<1> HIDE DEF a, w
<1>5. w \in BOOLEAN /\ f \in Files /\ (f \in Sealed => w) /\ Sound(a) /\ f # NoFile
  BY <1>4, SealedAreFiles DEF Keeps, w
<1>6. /\ Keeps(a, b) /\ b.spoilt = a.spoilt
      /\ s \in Slots \union {NoSlot}
      /\ \A q \in Slots : q # s => b.table[q] = a.table[q]
      /\ s \in Slots => /\ a.table[s].file \in {f, NoFile}
                        /\ b.table[s].file = f
  BY <1>5, OpeningKeeps
<1> HIDE DEF b, s
<1>7. Keeps(Now, b)
  BY <1>4, <1>6, KeepsIsTransitive
<1>8. NoneLost(b.table, stack, picture, s, dropped)
  BY <1>4, <1>6, SlotsAreNumbers DEF NoneLost
<1>9. ASSUME ~shared, ~b.spoilt PROVE HeldBy(b.table, stack, picture, s)
  <2>1. HeldBy(a.table, stack, picture, NoSlot)
    BY <1>4, <1>6, <1>9
  <2>2. ASSUME NEW i \in DOMAIN stack PROVE stack[i].slot \in Slots /\ stack[i].slot # s
    <3>1. stack[i].slot \in Slots /\ a.table[stack[i].slot].file \in Scripts
      BY <1>1, <2>1, UsersAreTyped DEF HeldBy, Loaded
    <3> QED BY <1>6, <3>1, SealedAreFiles
  <2>3. picture # NoPicture => picture.slot \in Slots /\ picture.slot # s
    <3> SUFFICES ASSUME picture # NoPicture
                 PROVE  picture.slot \in Slots /\ picture.slot # s
      OBVIOUS
    <3>1. picture.slot \in Slots /\ a.table[picture.slot].file \in Pictures
      BY <1>1, <2>1, UsersAreTyped DEF HeldBy
    <3> QED BY <1>6, <3>1, SealedAreFiles
  <2>4. s # NoSlot => b.table[s].file \in Songs
    BY <1>6
  <2> QED BY <1>6, <2>1, <2>2, <2>3, <2>4 DEF HeldBy
<1> QED BY <1>1, <1>2, <1>3, <1>6, <1>7, <1>8, <1>9, Preserved DEF Typed

LEMMA PlayMissingPreserves ==
  ASSUME AInv, PlayMissing PROVE AInv' /\ Kept(table, table')
<1> DEFINE b == Closed(Now, song)
<1>1. Typed /\ NoSlot \in Slots \union {NoSlot}
  BY DEF AInv
<1>2. Becomes(b) /\ song' = NoSlot
      /\ UNCHANGED <<plain, stack, picture, music, dropped, shared>>
  BY DEF PlayMissing
<1>3. /\ Keeps(Now, b)
      /\ NoneLost(b.table, stack, picture, NoSlot, dropped)
      /\ ~shared /\ ~b.spoilt => HeldBy(b.table, stack, picture, NoSlot)
  BY NowIsHeld, SongClosed
<1> HIDE DEF b
<1> QED BY <1>1, <1>2, <1>3, Preserved DEF Typed

LEMMA FeedPreserves ==
  ASSUME AInv, Feed PROVE AInv' /\ Kept(table, table')
<1>1. Typed /\ music # NoSlot
  BY DEF AInv, Feed
<1>2. PICK o \in Reads(Now, music) : Becomes(o[1])
  BY DEF Feed
<1>3. UNCHANGED <<plain, stack, picture, song, music, dropped, shared>>
  BY DEF Feed, users
<1>4. music \in Slots
  BY <1>1 DEF Typed
<1> QED BY <1>1, <1>2, <1>3, <1>4, ReadPreserves, Preserved DEF Typed

LEMMA EndSongPreserves ==
  ASSUME AInv, EndSong PROVE AInv' /\ Kept(table, table')
<1>1. Typed /\ NoSlot \in Slots \union {NoSlot} /\ music \in Slots
  BY DEF AInv, EndSong, Typed
<1>2. /\ song' = NoSlot /\ music' = NoSlot
      /\ UNCHANGED <<plain, stack, picture, dropped, shared>>
  BY DEF EndSong
<1>3. PICK a : /\ Becomes(Closed(a, song))
               /\ a = Now \/ \E o \in Reads(Now, music) : a = o[1]
  BY DEF EndSong, EndedSong
<1>4. /\ Keeps(Now, a)
      /\ NoneLost(a.table, stack, picture, song, dropped)
      /\ ~shared /\ ~a.spoilt => HeldBy(a.table, stack, picture, song)
  BY <1>1, <1>3, NowIsHeld, ReadPreserves
<1> DEFINE b == Closed(a, song)
<1>5. /\ Keeps(Now, b)
      /\ NoneLost(b.table, stack, picture, NoSlot, dropped)
      /\ ~shared /\ ~b.spoilt => HeldBy(b.table, stack, picture, NoSlot)
  BY <1>4, SongClosed
<1>6. Becomes(b)
  BY <1>3
<1> HIDE DEF b
<1> QED BY <1>1, <1>2, <1>5, <1>6, Preserved DEF Typed

(* Steps after which the table is as it was.                               *)
LEMMA OtherStepsPreserve ==
  ASSUME AInv,
         ExtractDriverFails \/ Quit \/ Cleanup \/ UNCHANGED vars
  PROVE  AInv' /\ Kept(table, table')
<1>1. UNCHANGED <<table, spoilt, plain, stack, picture, song, music, dropped, shared>>
  <2>1. CASE ExtractDriverFails
    BY <2>1 DEF ExtractDriverFails, users
  <2>2. CASE Quit
    BY <2>2 DEF Quit, assets, users
  <2>3. CASE Cleanup
    <3>1. UNCHANGED <<plain, stack, picture, song, music, dropped, shared>>
      BY <2>3 DEF Cleanup, users
    <3> DEFINE c == CleanedUp
    <3>2. CleanedTo(c, MaxOpen)
      BY NowIsSound, CleanedUpIs DEF AInv, Sound
    <3>4. Becomes([c EXCEPT !.readable = FALSE,
                            !.xms = IF platform = "xms" THEN Xms!CleanupXms(@) ELSE @])
      BY <2>3 DEF Cleanup
    <3> HIDE DEF c
    <3>5. table' = c.table /\ spoilt' = c.spoilt
      BY <3>2, <3>4 DEF Becomes, CleanedTo, IsAssets
    <3>3. table' = table /\ spoilt' = spoilt
      BY <3>2, <3>5 DEF CleanedTo
    <3> QED BY <3>1, <3>3
  <2>4. CASE UNCHANGED vars
    BY <2>4 DEF vars, assets, users
  <2> QED BY <2>1, <2>2, <2>3, <2>4
<1>2. Typed'
  BY <1>1 DEF AInv, Typed
<1> QED BY <1>1, <1>2 DEF AInv, Kept

LEMMA InitIsHeld == Init => AInv
<1> SUFFICES ASSUME Init PROVE AInv
  OBVIOUS
<1>1. IsAsset(FreeAsset) /\ FreeAsset.file = NoFile
  BY DEF IsAsset, FreeAsset
<1>2. table = [q \in Slots |-> FreeAsset]
  BY DEF Init
<1> HIDE DEF FreeAsset
<1>3. IsTable(table) /\ \A q \in Slots : table[q].file = NoFile
  BY <1>1, <1>2 DEF IsTable
<1>4. SealedAt(table)
  BY <1>3, SealedAreFiles DEF SealedAt
<1>5. /\ spoilt = FALSE /\ shared = FALSE /\ plain = {} /\ stack = <<>> /\ picture = NoPicture
      /\ song = NoSlot /\ music = NoSlot
  BY DEF Init
<1>6. StackOK(stack)
  <2>1. 0 \notin {} /\ stack \in Seq(Contexts({}))
    BY <1>5
  <2> QED BY <2>1 DEF StackOK
<1>7. Typed
  BY <1>3, <1>4, <1>5, <1>6 DEF Typed, PictureOK
<1>8. NoneLost(table, stack, picture, song, dropped)
  BY <1>3 DEF NoneLost
<1>9. HeldBy(table, stack, picture, song)
  BY <1>5 DEF HeldBy
<1> QED BY <1>7, <1>8, <1>9 DEF AInv

LEMMA CreatesPreserve ==
  ASSUME AInv, Main \/ \E f \in Stored \union Sealed : Call(f)
  PROVE  AInv' /\ Kept(table, table')
<1>1. CASE Main
  <2> DEFINE w == FALSE
  <2>1. Root \in Scripts /\ w \in BOOLEAN /\ (Root \in Sealed => w) /\ Create(Root, w)
    BY <1>1, SealedAreFiles DEF Main
  <2> HIDE DEF w
  <2> QED BY <2>1, CreatePreserves
<1>2. CASE \E f \in Stored \union Sealed : Call(f)
  <2> PICK f \in Stored \union Sealed : Call(f)
    BY <1>2
  <2> DEFINE w == f \in Sealed
  <2>1. f \in Scripts /\ w \in BOOLEAN /\ (f \in Sealed => w) /\ Create(f, w)
    BY SealedAreFiles DEF Call
  <2> HIDE DEF w
  <2> QED BY <2>1, CreatePreserves
<1> QED BY <1>1, <1>2

LEMMA AssetsStep == AInv /\ [Next]_vars => AInv' /\ Kept(table, table')
<1> SUFFICES ASSUME AInv, [Next]_vars PROVE AInv' /\ Kept(table, table')
  OBVIOUS
<1>1. CASE Main \/ \E f \in Stored \union Sealed : Call(f)
  BY <1>1, CreatesPreserve
<1>2. CASE LoadIcon
  BY <1>2, LoadIconPreserves
<1>3. CASE Unlock
  BY <1>3, UnlockPreserves
<1>4. CASE Leave
  BY <1>4, LeavePreserves
<1>5. CASE StartPicture
  BY <1>5, StartPicturePreserves
<1>6. CASE DrawChunk
  BY <1>6, DrawChunkPreserves
<1>7. CASE Complete
  BY <1>7, CompletePreserves
<1>8. CASE \E f \in Songs : Play(f)
  BY <1>8, PlayPreserves
<1>9. CASE PlayMissing
  BY <1>9, PlayMissingPreserves
<1>10. CASE Feed
  BY <1>10, FeedPreserves
<1>11. CASE EndSong
  BY <1>11, EndSongPreserves
<1>12. CASE ExtractDriverFails \/ Quit \/ Cleanup \/ UNCHANGED vars
  BY <1>12, OtherStepsPreserve
<1> QED
  BY <1>1, <1>2, <1>3, <1>4, <1>5, <1>6, <1>7, <1>8, <1>9, <1>10, <1>11, <1>12 DEF Next

(* A buffer once decrypted counts as decrypted from then on.               *)
LEMMA PlainGrows == Next => plain \subseteq plain'
<1> SUFFICES ASSUME Next PROVE plain \subseteq plain'
  OBVIOUS
<1>1. plain' = plain \/ Unlock
  BY DEF Next, LoadIcon, ExtractDriverFails, Main, Call, Create, Leave, StartPicture,
         DrawChunk, Complete, Play, PlayMissing, Feed, EndSong, Quit, Cleanup
<1>2. Unlock => plain \subseteq plain'
  BY DEF Unlock
<1> QED BY <1>1, <1>2

(* The invariant holds in every state of every run.                        *)
LEMMA AlwaysHeld == Spec => []AInv
<1>1. AInv /\ [Next]_vars => AInv'
  BY AssetsStep
<1> QED BY <1>1, InitIsHeld, PTL DEF Spec

(* No user's slot is taken from it, and no slot stays open for nobody,     *)
(* except for what pa-open.c and pa-close.c keep on purpose and what a     *)
(* bitmap that failed has left: pa-open.c, pa-close.c, sld/context.c,      *)
(* sld/bitmap.c, snd/seq.c.                                                *)
THEOREM AssetsSlotsMatchUsers == Spec => []SlotsMatchUsers
<1>1. AInv => SlotsMatchUsers
  <2> SUFFICES ASSUME AInv PROVE SlotsMatchUsers
    OBVIOUS
  <2>1. Typed /\ NoneLost(table, stack, picture, song, dropped)
        /\ (~shared /\ ~spoilt => HeldBy(table, stack, picture, song))
    BY DEF AInv
  <2>2. \A q \in Slots : \/ table[q].file = NoFile \/ table[q].rdwr
                         \/ q \in HeldSlots \/ q \in dropped
    BY <2>1 DEF NoneLost, HeldSlots
  <2>3. ASSUME ~shared, ~spoilt
        PROVE  /\ \A i \in DOMAIN stack : table[stack[i].slot].file = stack[i].file
               /\ picture # NoPicture => table[picture.slot].file = picture.file
               /\ song # NoSlot => table[song].file \in Songs
    BY <2>1, <2>3 DEF HeldBy, Loaded
  <2> QED BY <2>2, <2>3 DEF SlotsMatchUsers
<1> QED BY <1>1, AlwaysHeld, PTL

(* What has been decrypted in place is never released, loaded again or     *)
(* forgotten, whoever opens and closes its file: pa-close.c, "Do not       *)
(* release modified assets".                                               *)
THEOREM AssetsDecryptedStays == Spec => DecryptedStays
<1>1. AInv /\ [Next]_vars =>
        [\A s \in Slots : table[s].file \in Sealed /\ table[s].ref \in plain
                            => table'[s] = table[s] /\ plain \subseteq plain']_vars
  <2> SUFFICES ASSUME AInv, Next, NEW s \in Slots, table[s].file \in Sealed, table[s].ref \in plain
               PROVE  table'[s] = table[s] /\ plain \subseteq plain'
    OBVIOUS
  <2>1. Kept(table, table')
    BY AssetsStep
  <2>2. Pinned(table[s])
    BY SealedAreFiles DEF Pinned, AInv, Typed, SealedAt
  <2> QED BY <2>1, <2>2, PlainGrows DEF Kept
<1> QED BY <1>1, AlwaysHeld, PTL DEF DecryptedStays, Spec

------------------------------------------------------------------------------
(* The inductive invariant of the caches.                                  *)
BuildOK == \E b \in Builds : platform = b[1] /\ release = b[2]
Shaped(a) ==
  /\ IsAssets(a) /\ a.readable \in BOOLEAN /\ a.heap \subseteq Buffers
  /\ \A s \in Slots : EntryOK(a.table[s], a.heap)
  /\ XmsTyped(a.xms) /\ a.mapped \in Mapped!MappedState
AllFreed(x, m, sp) ==
  /\ ~sp => \A h \in Blocks : x.blocks[h].kb = -1
  /\ UsedOf(m) = {} /\ (~IsDos => ViewsCounted(m))
UsersOK(ph, hp, pl, st, pic, dr) ==
  /\ pl \subseteq hp /\ st \in Seq(Contexts(hp)) /\ Len(st) <= MaxDepth
  /\ ph = "start" => st = <<>>
  /\ pic \in {NoPicture} \union [slot : Slots, file : Pictures, left : 0 .. MaxChunks]
  /\ dr \subseteq Slots

CInv ==
  /\ BuildOK /\ phase \in {"start", "run", "quit", "over"}
  /\ phase # "over" => Good(Now)
  /\ phase = "over" => Shaped(Now) /\ AllFreed(xms, mapped, spoilt)
  /\ UsersOK(phase, heap, plain, stack, picture, dropped)

NowFields ==
  /\ Now.table = table /\ Now.readable = readable /\ Now.heap = heap
  /\ Now.xms = xms /\ Now.mapped = mapped /\ Now.spoilt = spoilt

LEMMA NowIs == NowFields
BY DEF Now, NowFields

LEMMA NowIsNext == NowFields'
BY DEF Now, NowFields

LEMMA GoodIsShaped == ASSUME NEW a, Good(a) PROVE Shaped(a)
BY DEF Good, Shaped, Counts

LEMMA UsersStay ==
  ASSUME NEW ph, NEW hp, NEW pl, NEW st, NEW pic, NEW dr, UsersOK(ph, hp, pl, st, pic, dr),
         NEW hq, hp \subseteq hq, NEW pj, pj # "start" \/ pj = ph
  PROVE  UsersOK(pj, hq, pl, st, pic, dr)
<1>1. Contexts(hp) \subseteq Contexts(hq)
  BY DEF Contexts
<1>2. st \in Seq(Contexts(hq))
  <2> DEFINE C == Contexts(hp)
             D == Contexts(hq)
  <2>1. st \in Seq(C) /\ C \subseteq D
    BY <1>1 DEF UsersOK
  <2> HIDE DEF C, D
  <2>2. st \in Seq(D)
    BY <2>1
  <2> QED BY <2>2 DEF D
<1> QED BY <1>2 DEF UsersOK

(* The assets after a step, and then the invariant.                        *)
LEMMA CountsNext ==
  ASSUME NEW x, NEW m, NEW sp, NEW t, Counts(x, m, sp, t), UNCHANGED build,
         xms' = x, mapped' = m, spoilt' = sp, table' = t
  PROVE  Counts(xms, mapped, spoilt, table)'
BY DEF Counts, MapHeld, ViewsCounted, IsDos, build

LEMMA Stepped ==
  ASSUME CInv, NEW a, Good(a), Becomes(a), UNCHANGED build,
         phase' \in {"start", "run", "quit"},
         UsersOK(phase', a.heap, plain', stack', picture', dropped')
  PROVE  CInv'
<1>1. /\ table' = a.table /\ readable' = a.readable /\ heap' = a.heap
      /\ xms' = a.xms /\ mapped' = a.mapped /\ spoilt' = a.spoilt
  BY DEF Becomes
<1>2. Counts(xms, mapped, spoilt, table)'
  BY <1>1, CountsNext DEF Good
<1>3. IsTable(table') /\ spoilt' \in BOOLEAN /\ readable' \in BOOLEAN /\ heap' \subseteq Buffers
      /\ \A s \in Slots : EntryOK(table'[s], heap')
  BY <1>1 DEF Good, IsAssets
<1>4. IsAssets(Now)'
  BY <1>3 DEF IsAssets, Now
<1>5. Good(Now)'
  BY <1>2, <1>3, <1>4, NowIsNext DEF Good, NowFields
<1>6. BuildOK'
  BY DEF CInv, BuildOK, build
<1>7. UsersOK(phase, heap, plain, stack, picture, dropped)'
  BY <1>1
<1> QED BY <1>5, <1>6, <1>7 DEF CInv

(* The users stay who they are.                                            *)
LEMMA SteppedAlone ==
  ASSUME CInv, phase # "over", NEW a, Good(a), heap \subseteq a.heap, Becomes(a), UNCHANGED build,
         phase' \in {phase, "run", "quit"}, UNCHANGED <<plain, stack, picture, dropped>>
  PROVE  CInv'
<1>1. phase' \in {"start", "run", "quit"}
  BY DEF CInv
<1>2. UsersOK(phase, heap, plain, stack, picture, dropped)
  BY DEF CInv
<1>3. phase' # "start" \/ phase' = phase
  OBVIOUS
<1>4. UsersOK(phase', a.heap, plain, stack, picture, dropped)
  BY <1>2, <1>3, UsersStay
<1>5. UsersOK(phase', a.heap, plain', stack', picture', dropped')
  BY <1>4
<1> QED BY <1>1, <1>5, Stepped

(* What is unchanged becomes what it is.                                   *)
LEMMA Unchanged == ASSUME UNCHANGED assets PROVE Becomes(Now)
BY DEF assets, Becomes, Now

------------------------------------------------------------------------------
LEMMA CreateCounts ==
  ASSUME CInv, phase \in {"start", "run"}, phase' = "run", Len(stack) < MaxDepth,
         NEW f \in Scripts, NEW w \in BOOLEAN, Create(f, w)
  PROVE  CInv'
<1> DEFINE s == OpenSlot(Now, f)
           a == Opened(Now, f, w)
<1>1. Good(Now) /\ IsAssets(Now) /\ f \in Files /\ UNCHANGED <<plain, picture, dropped, build>>
  BY DEF CInv, Good, Files, Create, build
<1>2. Stays(Now, a) /\ s \in Slots \union {NoSlot}
  BY <1>1, OpenedStays, OpenSlotIs
<1>3. PICK o \in IF s = NoSlot THEN {<<a, 0>>} ELSE Loads(a, s) :
           IF o[2] = 0 THEN Becomes(Closed(o[1], s)) /\ UNCHANGED <<stack, shared>>
           ELSE /\ Becomes(o[1])
                /\ stack' = Append(stack, [slot |-> s, file |-> f, data |-> o[2]])
                /\ shared' = (shared \/ \E i \in DOMAIN stack : stack[i].slot = s)
  BY DEF Create
<1> HIDE DEF s, a
<1>4. LoadedFrom(a, o) /\ (s = NoSlot => o[2] = 0)
  <2>1. CASE s = NoSlot
    <3>1. o = <<a, 0>>
      BY <1>3, <2>1
    <3>2. o[1] = a /\ o[2] = 0
      BY <3>1
    <3> QED BY <1>2, <3>2 DEF LoadedFrom, Stays
  <2>2. CASE s # NoSlot
    <3>1. o \in Loads(a, s) /\ s \in Slots /\ Good(a)
      BY <1>2, <1>3, <2>2 DEF Stays
    <3> QED BY <2>2, <3>1, LoadsStay
  <2> QED BY <2>1, <2>2
<1>5. heap \subseteq o[1].heap /\ Good(o[1])
  BY <1>2, <1>4, NowIs DEF Stays, LoadedFrom, NowFields
<1>6. CASE o[2] = 0
  <2> DEFINE b == Closed(o[1], s)
  <2>1. Becomes(b) /\ UNCHANGED stack
    BY <1>3, <1>6
  <2>2. Stays(o[1], b)
    BY <1>2, <1>5, ClosedStays
  <2> HIDE DEF b
  <2>3. Good(b) /\ heap \subseteq b.heap
    BY <1>5, <2>2 DEF Stays
  <2> QED BY <1>1, <2>1, <2>3, SteppedAlone
<1>7. CASE o[2] # 0
  <2> DEFINE e == [slot |-> s, file |-> f, data |-> o[2]]
             b == o[1]
             C == Contexts(b.heap)
  <2>1. Becomes(b) /\ stack' = Append(stack, e)
    BY <1>3, <1>7
  <2>2. o[2] \in b.heap /\ s \in Slots
    BY <1>2, <1>4, <1>7 DEF LoadedFrom
  <2>3. e \in C
    BY <2>2 DEF Contexts
  <2>4. UsersOK("run", b.heap, plain, stack, picture, dropped)
    <3>1. UsersOK(phase, heap, plain, stack, picture, dropped) /\ "run" # "start"
      BY DEF CInv
    <3> QED BY <1>5, <3>1, UsersStay
  <2>5. stack \in Seq(C) /\ Len(stack) \in Nat
    BY <2>4 DEF UsersOK
  <2> HIDE DEF e, C
  <2>6. stack' \in Seq(C) /\ Len(stack') = Len(stack) + 1
    BY <2>1, <2>3, <2>5
  <2>7. MaxDepth \in Nat
    BY BoundsAssumption DEF BoundsAssumption
  <2>8. Len(stack') <= MaxDepth
    BY <2>5, <2>6, <2>7
  <2>9. UsersOK("run", b.heap, plain, stack', picture, dropped)
    BY <2>4, <2>6, <2>8 DEF UsersOK, C
  <2>10. UsersOK(phase', b.heap, plain', stack', picture', dropped')
    BY <1>1, <2>9
  <2> HIDE DEF b
  <2>11. Good(b) /\ UNCHANGED build /\ phase' \in {"start", "run", "quit"}
    BY <1>1, <1>5 DEF b
  <2> QED BY <2>1, <2>10, <2>11, Stepped
<1> QED BY <1>6, <1>7

LEMMA CreatesCount ==
  ASSUME CInv, Main \/ \E f \in Stored \union Sealed : Call(f) PROVE CInv'
<1>1. CASE Main
  <2> DEFINE w == FALSE
  <2>1. Root \in Scripts /\ w \in BOOLEAN /\ Create(Root, w) /\ phase \in {"start", "run"}
        /\ phase' = "run"
    BY <1>1 DEF Main, Scripts
  <2>2. Len(stack) < MaxDepth
    <3>1. stack = <<>>
      BY <1>1 DEF Main, CInv, UsersOK
    <3>2. MaxDepth \in Nat \ {0}
      BY BoundsAssumption DEF BoundsAssumption
    <3> QED BY <3>1, <3>2
  <2> HIDE DEF w
  <2> QED BY <2>1, <2>2, CreateCounts
<1>2. CASE \E f \in Stored \union Sealed : Call(f)
  <2> PICK f \in Stored \union Sealed : Call(f)
    BY <1>2
  <2> DEFINE w == f \in Sealed
  <2>1. f \in Scripts /\ w \in BOOLEAN /\ Create(f, w) /\ phase \in {"start", "run"}
        /\ phase' = "run" /\ Len(stack) < MaxDepth
    BY DEF Call, Acts, Scripts
  <2> HIDE DEF w
  <2> QED BY <2>1, CreateCounts
<1> QED BY <1>1, <1>2

LEMMA LoadIconCounts == ASSUME CInv, LoadIcon PROVE CInv'
<1> DEFINE s == OpenSlot(Now, Icon)
           w == FALSE
           a == Opened(Now, Icon, w)
<1>1. /\ phase # "over" /\ phase' = phase /\ UNCHANGED build
      /\ UNCHANGED <<plain, stack, picture, dropped>>
  BY DEF LoadIcon, users, build
<1>2. Good(Now) /\ IsAssets(Now) /\ Icon \in Files /\ w \in BOOLEAN
  BY <1>1 DEF CInv, Good, Files
<1>3. s # NoSlot /\ \E o \in Loads(a, s) : o[2] # 0 /\ Becomes(Closed(o[1], s))
  BY DEF LoadIcon
<1> HIDE DEF w
<1>4. Stays(Now, a) /\ s \in Slots
  BY <1>2, <1>3, OpenedStays, OpenSlotIs
<1> HIDE DEF s, a
<1> PICK o \in Loads(a, s) : Becomes(Closed(o[1], s))
  BY <1>3
<1>5. LoadedFrom(a, o)
  BY <1>4, LoadsStay DEF Stays
<1> DEFINE b == Closed(o[1], s)
<1>6. Stays(o[1], b)
  BY <1>4, <1>5, ClosedStays DEF LoadedFrom
<1>7. Becomes(b)
  OBVIOUS
<1> HIDE DEF b
<1>8. Good(b) /\ heap \subseteq b.heap
  BY <1>4, <1>5, <1>6, NowIs DEF Stays, LoadedFrom, NowFields
<1> QED BY <1>1, <1>7, <1>8, SteppedAlone

LEMMA UnlockCounts == ASSUME CInv, Unlock PROVE CInv'
<1>1. /\ phase = "run" /\ phase' = phase /\ UNCHANGED build /\ UNCHANGED assets
      /\ UNCHANGED <<stack, picture, dropped>> /\ plain' = plain \union {Top.data}
      /\ stack # <<>>
  BY DEF Unlock, users, build
<1>2. Good(Now) /\ Becomes(Now)
  BY <1>1, Unchanged DEF CInv
<1>3. UsersOK(phase, heap, plain, stack, picture, dropped)
  BY DEF CInv
<1>4. Top.data \in heap
  <2>1. stack \in Seq(Contexts(heap))
    BY <1>3 DEF UsersOK
  <2>2. Len(stack) \in DOMAIN stack
    <3> DEFINE C == Contexts(heap)
    <3>1. stack \in Seq(C)
      BY <2>1
    <3> HIDE DEF C
    <3> QED BY <1>1, <3>1
  <2>3. Top = stack[Len(stack)]
    BY DEF Top, Last
  <2> QED BY <2>1, <2>2, <2>3, ContextFields
<1>5. UsersOK(phase', heap, plain', stack', picture', dropped')
  BY <1>1, <1>3, <1>4 DEF UsersOK
<1>6. Now.heap = heap
  BY NowIs DEF NowFields
<1>7. phase' \in {"start", "run", "quit"}
  BY <1>1
<1> QED BY <1>1, <1>2, <1>5, <1>6, <1>7, Stepped

LEMMA LeaveCounts == ASSUME AInv, CInv, Leave PROVE CInv'
<1> DEFINE s == Top.slot
           b == Closed(Now, s)
           C == Contexts(heap)
<1>1. /\ phase \in {"run", "quit"} /\ phase' = phase /\ UNCHANGED build
      /\ UNCHANGED <<plain, picture, dropped>> /\ stack # <<>> /\ stack' = Front(stack)
      /\ Becomes(b)
  BY DEF Leave, build
<1>2. UsersOK(phase, heap, plain, stack, picture, dropped) /\ Good(Now)
  BY <1>1 DEF CInv
<1>3. stack \in Seq(C)
  BY <1>2 DEF UsersOK
<1>4. s \in Slots
  <2>1. Len(stack) \in DOMAIN stack /\ Top = stack[Len(stack)]
    <3> HIDE DEF C
    <3> QED BY <1>1, <1>3 DEF Top, Last
  <2> QED BY <1>3, <2>1, ContextFields
<1>5. Front(stack) \in Seq(C) /\ Len(Front(stack)) <= Len(stack)
  <2> HIDE DEF C
  <2>1. Front(stack) = SubSeq(stack, 1, Len(stack) - 1)
    BY DEF Front
  <2>2. Len(stack) \in Nat \ {0}
    BY <1>1, <1>3
  <2> QED BY <1>3, <2>1, <2>2
<1>6. Stays(Now, b)
  BY <1>2, <1>4, ClosedStays
<1> HIDE DEF b, s
<1>7. Good(b) /\ b.heap = heap
  BY <1>6, NowIs DEF Stays, NowFields
<1>8. Len(Front(stack)) <= MaxDepth
  <2>1. MaxDepth \in Nat /\ Len(stack) \in Nat /\ Len(stack) <= MaxDepth /\ Len(Front(stack)) \in Nat
    <3>1. Len(stack) <= MaxDepth
      BY <1>2 DEF UsersOK
    <3>2. MaxDepth \in Nat
      BY BoundsAssumption DEF BoundsAssumption
    <3> HIDE DEF C
    <3> QED BY <1>3, <1>5, <3>1, <3>2
  <2> QED BY <1>5, <2>1
<1>9. UsersOK(phase', b.heap, plain', stack', picture', dropped')
  BY <1>1, <1>2, <1>5, <1>7, <1>8 DEF UsersOK, C
<1>10. phase' \in {"start", "run", "quit"}
  BY <1>1
<1> QED BY <1>1, <1>7, <1>9, <1>10, Stepped

LEMMA RunsGood == ASSUME CInv, phase \in {"start", "run", "quit"} PROVE Good(Now) /\ Now.heap = heap
BY NowIs DEF CInv, NowFields

LEMMA StartPictureCounts == ASSUME CInv, StartPicture PROVE CInv'
<1>1. phase = "run" /\ phase' = phase /\ UNCHANGED build /\ UNCHANGED <<plain, stack>>
  BY DEF StartPicture, Acts, build
<1>2. Good(Now) /\ Now.heap = heap /\ UsersOK(phase, heap, plain, stack, picture, dropped)
  BY <1>1, RunsGood DEF CInv
<1>3. PICK p \in Patterns :
        LET best == FindBestBitmap(p)
        IN  IF best.slot = NoSlot
            THEN Becomes(best.assets) /\ UNCHANGED <<picture, dropped>>
            ELSE \E o \in LoadBitmap(best.assets, best.slot) :
                   /\ Becomes(o[1])
                   /\ \/ /\ o[2]
                         /\ picture' \in {[slot |-> best.slot, file |-> best.file, left |-> n]
                                            : n \in 1 .. MaxChunks}
                         /\ dropped' = dropped \ {best.slot}
                      \/ /\ ~o[2] /\ dropped' = dropped \union {best.slot}
                         /\ UNCHANGED picture
  BY DEF StartPicture
<1> DEFINE r == FindBestBitmap(p)
           s == r.slot
           a == r.assets
<1>4. StaysFound(r)
  BY <1>2, SearchStays
<1> HIDE DEF r
<1>5. Good(a) /\ a.heap = heap /\ s \in Slots \union {NoSlot}
      /\ (s \in Slots => r.file \in Pictures)
  BY <1>2, <1>4 DEF StaysFound, Stays
<1>6. CASE s = NoSlot
  <2>1. Becomes(a) /\ UNCHANGED <<picture, dropped>>
    BY <1>3, <1>6 DEF r
  <2> HIDE DEF s, a
  <2> QED BY <1>1, <1>5, <2>1, SteppedAlone
<1>7. CASE s # NoSlot
  <2>1. PICK o \in LoadBitmap(a, s) :
           /\ Becomes(o[1])
           /\ \/ /\ picture' \in {[slot |-> s, file |-> r.file, left |-> n] : n \in 1 .. MaxChunks}
                 /\ dropped' = dropped \ {s}
              \/ dropped' = dropped \union {s} /\ UNCHANGED picture
    BY <1>3, <1>7 DEF r
  <2>2. s \in Slots /\ r.file \in Pictures
    BY <1>5, <1>7
  <2>3. \/ UNCHANGED picture
        \/ picture' \in [slot : Slots, file : Pictures, left : 0 .. MaxChunks]
    <3> SUFFICES ASSUME picture' \in {[slot |-> s, file |-> r.file, left |-> n]
                                        : n \in 1 .. MaxChunks}
                 PROVE  picture' \in [slot : Slots, file : Pictures, left : 0 .. MaxChunks]
      BY <2>1
    <3> PICK n \in 1 .. MaxChunks : picture' = [slot |-> s, file |-> r.file, left |-> n]
      OBVIOUS
    <3>1. n \in 0 .. MaxChunks
      BY BoundsAssumption DEF BoundsAssumption
    <3> HIDE DEF s
    <3> QED BY <2>2, <3>1
  <2>4. dropped' \subseteq Slots
    BY <1>2, <2>1, <2>2 DEF UsersOK
  <2> HIDE DEF s, a
  <2>5. Stays(a, o[1])
    BY <1>5, <2>1, <2>2, LoadBitmapStays
  <2> DEFINE b == o[1]
  <2>6. Good(b) /\ b.heap = heap /\ Becomes(b)
    BY <1>5, <2>1, <2>5 DEF Stays
  <2> HIDE DEF b
  <2>7. UsersOK(phase', b.heap, plain', stack', picture', dropped')
    BY <1>1, <1>2, <2>3, <2>4, <2>6 DEF UsersOK
  <2>8. phase' \in {"start", "run", "quit"}
    BY <1>1
  <2> QED BY <1>1, <2>6, <2>7, <2>8, Stepped
<1> QED BY <1>6, <1>7

LEMMA PictureSlot ==
  ASSUME CInv, picture # NoPicture
  PROVE  picture \in [slot : Slots, file : Pictures, left : 0 .. MaxChunks] /\ picture.slot \in Slots
BY DEF CInv, UsersOK

LEMMA DrawChunkCounts == ASSUME CInv, DrawChunk PROVE CInv'
<1>1. /\ phase = "run" /\ phase' = phase /\ UNCHANGED build /\ UNCHANGED <<plain, stack, dropped>>
      /\ picture # NoPicture /\ picture.left > 0
      /\ picture' = [picture EXCEPT !.left = @ - 1]
  BY DEF DrawChunk, build
<1>2. Good(Now) /\ Now.heap = heap /\ UsersOK(phase, heap, plain, stack, picture, dropped)
  BY <1>1, RunsGood DEF CInv
<1>3. PICK o \in Reads(Now, picture.slot) : Becomes(o[1])
  BY DEF DrawChunk
<1>4. Stays(Now, o[1])
  BY <1>1, <1>2, <1>3, PictureSlot, ReadsStay
<1> DEFINE b == o[1]
<1>5. Good(b) /\ b.heap = heap /\ Becomes(b)
  BY <1>2, <1>3, <1>4 DEF Stays
<1> HIDE DEF b
<1>6. picture' \in [slot : Slots, file : Pictures, left : 0 .. MaxChunks]
  <2>1. picture \in [slot : Slots, file : Pictures, left : 0 .. MaxChunks]
    BY <1>1, PictureSlot
  <2>2. picture.left - 1 \in 0 .. MaxChunks
    BY <1>1, <2>1, BoundsAssumption DEF BoundsAssumption
  <2> QED BY <1>1, <2>1, <2>2
<1>7. UsersOK(phase', b.heap, plain', stack', picture', dropped')
  BY <1>1, <1>2, <1>5, <1>6 DEF UsersOK
<1>8. phase' \in {"start", "run", "quit"}
  BY <1>1
<1> QED BY <1>1, <1>5, <1>7, <1>8, Stepped

LEMMA CompleteCounts == ASSUME CInv, Complete PROVE CInv'
<1> DEFINE b == Closed(Now, picture.slot)
<1>1. /\ phase = "run" /\ phase' = phase /\ UNCHANGED build /\ UNCHANGED <<plain, stack, dropped>>
      /\ picture # NoPicture /\ picture' = NoPicture /\ Becomes(b)
  BY DEF Complete, build
<1>2. Good(Now) /\ Now.heap = heap /\ UsersOK(phase, heap, plain, stack, picture, dropped)
  BY <1>1, RunsGood DEF CInv
<1>3. Stays(Now, b)
  BY <1>1, <1>2, PictureSlot, ClosedStays
<1> HIDE DEF b
<1>4. Good(b) /\ b.heap = heap
  BY <1>2, <1>3 DEF Stays
<1>5. UsersOK(phase', b.heap, plain', stack', picture', dropped')
  BY <1>1, <1>2, <1>4 DEF UsersOK
<1>6. phase' \in {"start", "run", "quit"}
  BY <1>1
<1> QED BY <1>1, <1>4, <1>5, <1>6, Stepped

LEMMA PlayCounts == ASSUME AInv, CInv, NEW f \in Songs, Play(f) PROVE CInv'
<1> DEFINE a == Closed(Now, song)
           w == FALSE
           b == Opened(a, f, w)
<1>1. /\ phase = "run" /\ phase' = phase /\ UNCHANGED build
      /\ UNCHANGED <<plain, stack, picture, dropped>> /\ Becomes(b)
  BY DEF Play, Acts, build
<1>2. Good(Now) /\ Now.heap = heap /\ song \in Slots \union {NoSlot} /\ f \in Files /\ w \in BOOLEAN
  BY <1>1, RunsGood DEF AInv, Typed, Files
<1> HIDE DEF w
<1>3. Stays(Now, a)
  BY <1>2, ClosedStays
<1> HIDE DEF a
<1>4. Stays(a, b)
  BY <1>2, <1>3, OpenedStays DEF Stays
<1> HIDE DEF b
<1>5. Good(b) /\ heap \subseteq b.heap /\ phase # "over" /\ phase' \in {phase, "run", "quit"}
  BY <1>1, <1>2, <1>3, <1>4 DEF Stays
<1> QED BY <1>1, <1>5, SteppedAlone

LEMMA PlayMissingCounts == ASSUME AInv, CInv, PlayMissing PROVE CInv'
<1> DEFINE b == Closed(Now, song)
<1>1. /\ phase = "run" /\ phase' = phase /\ UNCHANGED build
      /\ UNCHANGED <<plain, stack, picture, dropped>> /\ Becomes(b)
  BY DEF PlayMissing, Acts, build
<1>2. Good(Now) /\ Now.heap = heap /\ song \in Slots \union {NoSlot}
  BY <1>1, RunsGood DEF AInv, Typed
<1>3. Stays(Now, b)
  BY <1>2, ClosedStays
<1> HIDE DEF b
<1>4. Good(b) /\ heap \subseteq b.heap /\ phase # "over" /\ phase' \in {phase, "run", "quit"}
  BY <1>1, <1>2, <1>3 DEF Stays
<1> QED BY <1>1, <1>4, SteppedAlone

LEMMA FeedCounts == ASSUME AInv, CInv, Feed PROVE CInv'
<1>1. /\ phase = "run" /\ phase' = phase /\ UNCHANGED build
      /\ UNCHANGED <<plain, stack, picture, dropped>>
  BY DEF Feed, users, build
<1>2. Good(Now) /\ Now.heap = heap /\ music \in Slots
  BY <1>1, RunsGood DEF AInv, Typed, Feed
<1>3. PICK o \in Reads(Now, music) : Becomes(o[1])
  BY DEF Feed
<1>4. Stays(Now, o[1])
  BY <1>2, <1>3, ReadsStay
<1> DEFINE b == o[1]
<1>5. /\ Good(b) /\ heap \subseteq b.heap /\ Becomes(b) /\ phase # "over"
      /\ phase' \in {phase, "run", "quit"}
  BY <1>1, <1>2, <1>3, <1>4 DEF Stays
<1> HIDE DEF b
<1> QED BY <1>1, <1>5, SteppedAlone

LEMMA EndSongCounts == ASSUME AInv, CInv, EndSong PROVE CInv'
<1>1. /\ phase = "run" /\ phase' = phase /\ UNCHANGED build
      /\ UNCHANGED <<plain, stack, picture, dropped>>
  BY DEF EndSong, build
<1>2. Good(Now) /\ Now.heap = heap /\ music \in Slots /\ song \in Slots \union {NoSlot}
  BY <1>1, RunsGood DEF AInv, Typed, EndSong
<1>3. PICK a : /\ Becomes(Closed(a, song))
               /\ a = Now \/ \E o \in Reads(Now, music) : a = o[1]
  BY DEF EndSong, EndedSong
<1>4. Stays(Now, a)
  <2>1. CASE a = Now
    BY <1>2, <2>1 DEF Stays
  <2>2. CASE \E o \in Reads(Now, music) : a = o[1]
    BY <1>2, <2>2, ReadsStay
  <2> QED BY <1>3, <2>1, <2>2
<1> DEFINE b == Closed(a, song)
<1>5. Stays(a, b) /\ Becomes(b)
  BY <1>2, <1>3, <1>4, ClosedStays DEF Stays
<1> HIDE DEF b
<1>6. Good(b) /\ heap \subseteq b.heap /\ phase # "over" /\ phase' \in {phase, "run", "quit"}
  BY <1>1, <1>2, <1>4, <1>5 DEF Stays
<1> QED BY <1>1, <1>5, <1>6, SteppedAlone

LEMMA QuitCounts == ASSUME CInv, ExtractDriverFails \/ Quit PROVE CInv'
<1>1. CASE ExtractDriverFails
  <2> DEFINE b == Lost(Now)
  <2>1. /\ phase = "start" /\ phase' = phase /\ UNCHANGED build
        /\ UNCHANGED <<plain, stack, picture, dropped>>
    BY <1>1 DEF ExtractDriverFails, users, build
  <2>2. Good(Now) /\ Now.heap = heap /\ IsAssets(Now)
    BY <2>1, RunsGood DEF Good
  <2>3. Becomes(b)
    BY <1>1 DEF ExtractDriverFails, Becomes, Lost, Now
  <2>4. /\ IsAssets(b) /\ b.table = Now.table /\ b.readable \in BOOLEAN /\ b.heap = Now.heap
        /\ b.xms = Now.xms /\ b.mapped = Now.mapped /\ b.spoilt = Now.spoilt
    BY <2>2, LostIs
  <2> HIDE DEF b
  <2>5. Good(b) /\ heap \subseteq b.heap /\ phase # "over" /\ phase' \in {phase, "run", "quit"}
    BY <2>1, <2>2, <2>4 DEF Good
  <2> QED BY <2>1, <2>3, <2>5, SteppedAlone
<1>2. CASE Quit
  <2>1. /\ phase = "run" /\ phase' = "quit" /\ UNCHANGED build /\ UNCHANGED assets
        /\ UNCHANGED <<plain, stack, picture, dropped>>
    BY <1>2 DEF Quit, users, build
  <2>2. Good(Now) /\ Now.heap = heap /\ Becomes(Now)
    BY <2>1, RunsGood, Unchanged
  <2>3. heap \subseteq Now.heap /\ phase # "over" /\ phase' \in {phase, "run", "quit"}
    BY <2>1, <2>2
  <2> QED BY <2>1, <2>2, <2>3, SteppedAlone
<1> QED BY <1>1, <1>2

------------------------------------------------------------------------------
(* After cleaning up nothing is given out any more.                        *)
LEMMA CleanupXmsFrees ==
  ASSUME NEW x, XmsTyped(x)
  PROVE  LET y == Xms!CleanupXms(x)
         IN  /\ XmsTyped(y) /\ y.items = x.items
             /\ \A h \in Blocks : HasItem(x, h) => y.blocks[h].kb = -1
             /\ \A h \in Blocks : y.blocks[h].kb >= 0 => x.blocks[h].kb >= 0
<1> DEFINE free == Xms!FreeBlock
           B == [h \in Blocks |-> IF HasItem(x, h) THEN free ELSE x.blocks[h]]
           y == Xms!CleanupXms(x)
<1>1. y = [x EXCEPT !.blocks = B]
  <2>1. \A h : h \in {x.items[i].handle : i \in Items} <=> HasItem(x, h)
    BY DEF HasItem
  <2>2. y = [x EXCEPT !.blocks =
               [h \in Blocks |-> IF h \in {x.items[i].handle : i \in Items} THEN free
                                 ELSE x.blocks[h]]]
    BY DEF Xms!CleanupXms, Items, Blocks
  <2> HIDE DEF free, y
  <2> QED BY <2>1, <2>2
<1>2. free \in Xms!Block /\ free.kb = -1
  BY DEF Xms!FreeBlock, Xms!Block, Xms!Unsized
<1>3. x.blocks \in [Blocks -> Xms!Block]
  BY XmsParts
<1> HIDE DEF free
<1>4. /\ B \in [Blocks -> Xms!Block] /\ \A h \in Blocks : HasItem(x, h) => B[h].kb = -1
      /\ \A h \in Blocks : B[h].kb >= 0 => x.blocks[h].kb >= 0
  BY <1>2, <1>3
<1> HIDE DEF B, y
<1>5. y.blocks = B /\ y.items = x.items /\ XmsTyped(y)
  BY <1>1, <1>4 DEF XmsTyped
<1> QED BY <1>4, <1>5 DEF y

LEMMA NoneLeft ==
  ASSUME NEW x, NEW m, NEW sp, Counts(x, m, sp, Left(MaxOpen))
  PROVE  /\ XmsTyped(x) /\ UsedOf(m) = {} /\ (~IsDos => ViewsCounted(m))
         /\ platform # "xms" /\ ~sp => \A h \in Blocks : x.blocks[h].kb = -1
         /\ platform = "xms" /\ ~sp => \A h \in Blocks : Xms!CleanupXms(x).blocks[h].kb = -1
<1> DEFINE t == Left(MaxOpen)
<1>1. \A s \in Slots : ~ReadAt(t, s)
  <2>1. \A s \in Slots : s <= MaxOpen
    BY CacheNumbers DEF Slots
  <2>2. \A s \in Slots : t[s] = FreeAsset
    BY <2>1 DEF Left
  <2> QED BY <2>2 DEF ReadAt, FreeAsset
<1> HIDE DEF t
<1>2. Counts(x, m, sp, t)
  BY DEF t
<1>3. \A h \in Blocks : x.blocks[h].kb \in -1 .. 64
  <2>1. x.blocks \in [Blocks -> Xms!Block]
    BY <1>2, XmsParts DEF Counts
  <2> QED BY <2>1 DEF Xms!Block, Xms!Unsized
<1>4. CASE platform = "xms"
  <2>1. UsedOf(m) = {} /\ IsDos /\ XmsTyped(x)
    BY <1>2, <1>4 DEF Counts, IsDos
  <2>2. ASSUME ~sp, NEW h \in Blocks PROVE Xms!CleanupXms(x).blocks[h].kb = -1
    <3> DEFINE y == Xms!CleanupXms(x)
    <3>1. /\ XmsTyped(y) /\ \A k \in Blocks : HasItem(x, k) => y.blocks[k].kb = -1
          /\ \A k \in Blocks : y.blocks[k].kb >= 0 => x.blocks[k].kb >= 0
      BY <2>1, CleanupXmsFrees
    <3> HIDE DEF y
    <3>2. y.blocks[h].kb \in -1 .. 64
      <4>1. y.blocks \in [Blocks -> Xms!Block]
        BY <3>1, XmsParts
      <4> QED BY <4>1 DEF Xms!Block, Xms!Unsized
    <3>3. h # 0
      BY CacheNumbers
    <3>4. x.blocks[h].kb >= 0 => HasItem(x, h)
      BY <1>2, <1>4, <2>2, <3>3 DEF Counts, Remembered
    <3> QED BY <3>1, <3>2, <3>4 DEF y
  <2> QED BY <1>4, <2>1, <2>2
<1>5. CASE platform = "far"
  <2>1. UsedOf(m) = {} /\ IsDos /\ XmsTyped(x)
    BY <1>2, <1>5 DEF Counts, IsDos
  <2>2. ASSUME ~sp, NEW h \in Blocks PROVE x.blocks[h].kb = -1
    <3>1. ~(x.blocks[h].kb >= 0)
      BY <1>1, <1>2, <1>5, <2>2 DEF Counts, FarHeld
    <3> QED BY <1>3, <3>1
  <2> QED BY <1>5, <2>1, <2>2
<1>6. CASE ~IsDos
  <2>1. MapHeld(m, t) /\ XmsTyped(x) /\ \A h \in Blocks : x.blocks[h].kb = -1
    BY <1>2, <1>6 DEF Counts
  <2>2. UsedOf(m) = {} /\ ViewsCounted(m)
    BY <1>1, <2>1 DEF MapHeld
  <2>3. platform # "xms"
    BY <1>6 DEF IsDos
  <2> QED BY <2>1, <2>2, <2>3
<1> QED BY <1>4, <1>5, <1>6 DEF IsDos

LEMMA CleanupCounts == ASSUME CInv, Cleanup PROVE CInv'
<1>1. /\ phase \in {"run", "quit"} /\ phase' = "over" /\ UNCHANGED build
      /\ UNCHANGED <<plain, stack, picture, dropped>>
  BY DEF Cleanup, users, build
<1>2. Good(Now) /\ IsAssets(Now) /\ NowFields /\ UsersOK(phase, heap, plain, stack, picture, dropped)
  BY <1>1, RunsGood, NowIs DEF CInv, Good
<1> DEFINE c == CleanedUp
           x == IF platform = "xms" THEN Xms!CleanupXms(c.xms) ELSE c.xms
<1>3. CleanedTo(c, MaxOpen)
  BY <1>2, CleanedUpIs
<1>4. Becomes([c EXCEPT !.readable = FALSE,
                        !.xms = IF platform = "xms" THEN Xms!CleanupXms(@) ELSE @])
  BY DEF Cleanup
<1> HIDE DEF c
<1>5. /\ table' = c.table /\ heap' = c.heap /\ mapped' = c.mapped /\ spoilt' = c.spoilt /\ xms' = x
  BY <1>3, <1>4 DEF Becomes, CleanedTo, IsAssets
<1>6. readable' \in BOOLEAN
  <2>1. readable' = FALSE
    BY <1>3, <1>4 DEF Becomes, CleanedTo, IsAssets
  <2> QED BY <2>1
<1>7. /\ table' = table /\ heap' = heap /\ spoilt' = spoilt
      /\ Counts(c.xms, c.mapped, c.spoilt, Left(MaxOpen))
  BY <1>2, <1>3, <1>5 DEF CleanedTo
<1>8. XmsTyped(x) /\ c.mapped \in Mapped!MappedState
  BY <1>7, CleanupXmsFrees DEF Counts
<1>9. AllFreed(x, c.mapped, c.spoilt)
  BY <1>7, NoneLeft DEF AllFreed
<1> HIDE DEF x
<1>10. AllFreed(xms, mapped, spoilt)'
  BY <1>1, <1>5, <1>9 DEF AllFreed, IsDos, ViewsCounted, build
<1>11. /\ IsTable(table) /\ spoilt \in BOOLEAN /\ heap \subseteq Buffers
       /\ \A s \in Slots : EntryOK(table[s], heap)
  BY <1>2 DEF Good, IsAssets, NowFields
<1>12. IsAssets(Now)'
  BY <1>7, <1>11 DEF IsAssets, Now
<1>13. Shaped(Now)'
  BY <1>5, <1>6, <1>7, <1>8, <1>11, <1>12, NowIsNext DEF Shaped, NowFields
<1>14. BuildOK'
  BY <1>1 DEF CInv, BuildOK, build
<1>15. UsersOK(phase, heap, plain, stack, picture, dropped)'
  BY <1>1, <1>2, <1>7 DEF UsersOK
<1> QED BY <1>1, <1>10, <1>13, <1>14, <1>15 DEF CInv

LEMMA StutterCounts == ASSUME CInv, UNCHANGED vars PROVE CInv'
<1>1. /\ phase' = phase /\ UNCHANGED build /\ UNCHANGED assets
      /\ UNCHANGED <<plain, stack, picture, dropped>>
  BY DEF vars, users
<1>2. CASE phase # "over"
  <2>1. Good(Now) /\ Becomes(Now) /\ heap \subseteq Now.heap /\ phase' \in {phase, "run", "quit"}
    BY <1>1, <1>2, Unchanged, NowIs DEF CInv, NowFields
  <2> QED BY <1>1, <1>2, <2>1, SteppedAlone
<1>3. CASE phase = "over"
  <2>1. Shaped(Now) /\ AllFreed(xms, mapped, spoilt)
    BY <1>3 DEF CInv
  <2>2. AllFreed(xms, mapped, spoilt)'
    BY <1>1, <2>1 DEF AllFreed, IsDos, ViewsCounted, build, assets
  <2>3. Now' = Now
    BY <1>1 DEF Now, assets
  <2>4. Shaped(Now)'
    BY <2>1, <2>3 DEF Shaped
  <2>5. BuildOK'
    BY <1>1 DEF CInv, BuildOK, build
  <2>6. UsersOK(phase, heap, plain, stack, picture, dropped)'
    BY <1>1 DEF CInv, assets
  <2> QED BY <1>1, <1>3, <2>2, <2>4, <2>5, <2>6 DEF CInv
<1> QED BY <1>2, <1>3

LEMMA InitCounts == Init => CInv
<1> SUFFICES ASSUME Init PROVE CInv
  OBVIOUS
<1>1. /\ phase = "start" /\ heap = {} /\ plain = {} /\ stack = <<>> /\ picture = NoPicture
      /\ dropped = {} /\ table = [s \in Slots |-> FreeAsset]
      /\ xms = Xms!XmsInit /\ mapped = Mapped!MappedInit
  BY DEF Init
<1>2. readable \in BOOLEAN /\ spoilt \in BOOLEAN
  <2>1. readable = TRUE /\ spoilt = FALSE
    BY DEF Init
  <2> QED BY <2>1
<1>3. BuildOK
  BY DEF Init, BuildOK
<1>4. IsAsset(FreeAsset) /\ EntryOK(FreeAsset, heap) /\ FreeAsset.file = NoFile
  BY DEF FreeAsset, IsAsset, EntryOK
<1> HIDE DEF FreeAsset
<1>5. IsTable(table) /\ \A s \in Slots : EntryOK(table[s], heap) /\ ~ReadAt(table, s)
  BY <1>1, <1>4 DEF IsTable, ReadAt
<1>6. IsAssets(Now)
  BY <1>2, <1>5 DEF IsAssets, Now
<1>7. /\ XmsTyped(xms) /\ \A i \in Items : xms.items[i].handle = 0
      /\ \A h \in Blocks : xms.blocks[h].kb = -1
  <2>1. Xms!NoItem \in XmsItem /\ Xms!NoItem.handle = 0
    BY CacheNumbers DEF Xms!NoItem, Xms!NoHandle, XmsItem
  <2>2. Xms!FreeBlock \in Xms!Block /\ Xms!FreeBlock.kb = -1
    BY DEF Xms!FreeBlock, Xms!Block, Xms!Unsized
  <2>3. xms = [items |-> [i \in Items |-> Xms!NoItem], blocks |-> [h \in Blocks |-> Xms!FreeBlock]]
    BY <1>1 DEF Xms!XmsInit, Items, Blocks
  <2> QED BY <2>1, <2>2, <2>3 DEF XmsTyped
<1>8. mapped \in Mapped!MappedState /\ UsedOf(mapped) = {} /\ mapped.mapped = 0 /\ mapped.views = 0
  <2>1. mapped = [items |-> [i \in 1 .. MaxCache |-> NoFile], views |-> 0, mapped |-> 0]
    BY <1>1 DEF Mapped!MappedInit
  <2> QED BY <2>1, CacheNumbers DEF Mapped!MappedState, UsedOf, Views
<1>9. Remembered(xms, table, 0, 0)
  BY <1>5, <1>7 DEF Remembered, OwnBlocks, ItemOK, ReadersServed
<1>10. FarHeld(xms, table)
  BY <1>5, <1>7 DEF FarHeld
<1>11. MapHeld(mapped, table)
  BY <1>5, <1>8, UsedAre DEF MapHeld, ViewsCounted
<1>12. Counts(xms, mapped, spoilt, table)
  BY <1>5, <1>7, <1>8, <1>9, <1>10, <1>11 DEF Counts, ViewsOwn
<1>13. Good(Now)
  BY <1>1, <1>2, <1>5, <1>6, <1>12, NowIs DEF Good, NowFields
<1>14. UsersOK(phase, heap, plain, stack, picture, dropped)
  <2>1. stack \in Seq(Contexts(heap)) /\ Len(stack) = 0
    BY <1>1
  <2>2. MaxDepth \in Nat
    BY BoundsAssumption DEF BoundsAssumption
  <2> QED BY <1>1, <2>1, <2>2 DEF UsersOK
<1> QED BY <1>1, <1>3, <1>13, <1>14 DEF CInv

LEMMA CountsStep == AInv /\ CInv /\ [Next]_vars => CInv'
<1> SUFFICES ASSUME AInv, CInv, [Next]_vars PROVE CInv'
  OBVIOUS
<1>1. CASE Main \/ \E f \in Stored \union Sealed : Call(f)
  BY <1>1, CreatesCount
<1>2. CASE LoadIcon
  BY <1>2, LoadIconCounts
<1>3. CASE Unlock
  BY <1>3, UnlockCounts
<1>4. CASE Leave
  BY <1>4, LeaveCounts
<1>5. CASE StartPicture
  BY <1>5, StartPictureCounts
<1>6. CASE DrawChunk
  BY <1>6, DrawChunkCounts
<1>7. CASE Complete
  BY <1>7, CompleteCounts
<1>8. CASE \E f \in Songs : Play(f)
  BY <1>8, PlayCounts
<1>9. CASE PlayMissing
  BY <1>9, PlayMissingCounts
<1>10. CASE Feed
  BY <1>10, FeedCounts
<1>11. CASE EndSong
  BY <1>11, EndSongCounts
<1>12. CASE ExtractDriverFails \/ Quit
  BY <1>12, QuitCounts
<1>13. CASE Cleanup
  BY <1>13, CleanupCounts
<1>14. CASE UNCHANGED vars
  BY <1>14, StutterCounts
<1> QED
  BY <1>1, <1>2, <1>3, <1>4, <1>5, <1>6, <1>7, <1>8, <1>9, <1>10, <1>11, <1>12, <1>13, <1>14
  DEF Next

LEMMA AlwaysCounted == Spec => []CInv
<1>1. CInv /\ AInv /\ [Next]_vars => CInv'
  BY CountsStep
<1> QED BY <1>1, InitCounts, AlwaysHeld, PTL DEF Spec

LEMMA CountedIsShaped == ASSUME CInv PROVE Shaped(Now) /\ NowFields
BY GoodIsShaped, NowIs DEF CInv

(* The fields are what their types say: the table has its slots, a handle  *)
(* is a number, a context has a buffer that is live, what was decrypted is *)
(* live, and the scripts nest no deeper than the model follows them:       *)
(* pa-open.c to pa-close.c over the three p-cache.c.                       *)
THEOREM AssetsTypeOK == Spec => []TypeOK
<1>1. AInv /\ CInv => TypeOK
  <2> SUFFICES ASSUME AInv, CInv PROVE TypeOK
    OBVIOUS
  <2>1. Shaped(Now) /\ NowFields /\ UsersOK(phase, heap, plain, stack, picture, dropped)
    BY CountedIsShaped DEF CInv
  <2>2. /\ IsTable(table) /\ readable \in BOOLEAN /\ spoilt \in BOOLEAN /\ heap \subseteq Buffers
        /\ \A s \in Slots : EntryOK(table[s], heap)
        /\ XmsTyped(xms) /\ mapped \in Mapped!MappedState
    BY <2>1 DEF Shaped, NowFields, IsAssets
  <2>3. table \in [Slots -> Asset]
    <3>1. \A s \in Slots : table[s] \in Asset
      BY <2>2 DEF IsTable, IsAsset, EntryOK, Asset
    <3> QED BY <2>2, <3>1 DEF IsTable
  <2>4. xms \in Xms!XmsState
    <3>1. XmsItem \subseteq Xms!Item
      BY CacheNumbers DEF XmsItem, Xms!Item, Xms!NoHandle, Blocks
    <3> QED BY <2>2, <3>1 DEF XmsTyped, Xms!XmsState, Items, Blocks
  <2>5. stack \in Seq(Context)
    <3> DEFINE C == Contexts(heap)
    <3>1. C \subseteq Context /\ stack \in Seq(C)
      BY <2>1, <2>2 DEF Contexts, Context, UsersOK
    <3> HIDE DEF C
    <3>2. \A S, T : S \subseteq T => Seq(S) \subseteq Seq(T)
      OBVIOUS
    <3> QED BY <3>1, <3>2
  <2>6. /\ plain \subseteq heap /\ Len(stack) <= MaxDepth /\ dropped \subseteq Slots
        /\ picture \in {NoPicture} \union [slot : Slots, file : Pictures, left : 0 .. MaxChunks]
    BY <2>1 DEF UsersOK
  <2>7. song \in Slots \union {NoSlot} /\ music \in Slots \union {NoSlot} /\ shared \in BOOLEAN
    BY DEF AInv, Typed
  <2> QED BY <2>2, <2>3, <2>4, <2>5, <2>6, <2>7 DEF TypeOK, CInv, BuildOK
<1> QED BY <1>1, AlwaysHeld, AlwaysCounted, PTL

LEMMA ReadingIsReadAt == ASSUME NEW s PROVE Reading(s) <=> ReadAt(table, s)
BY DEF Reading, ReadAt

LEMMA GoodNow ==
  ASSUME CInv, phase # "over"
  PROVE  /\ Counts(xms, mapped, spoilt, table)
         /\ \A s \in Slots : EntryOK(table[s], heap) /\ IsAsset(table[s])
BY NowIs DEF CInv, Good, NowFields, IsAssets, IsTable

(* Whoever reads an asset is given the bytes of the file it has opened,    *)
(* whatever blocks have been evicted, filled again and given to others, as *)
(* long as every block was filled, or none where a read in extended memory *)
(* passes the end of its block: pa-read.c over the three p-cache.c.        *)
THEOREM AssetsReadOwnBytes == Spec => []ReadsOwnBytes
<1>1. CInv => ReadsOwnBytes
  <2> SUFFICES ASSUME CInv, ~spoilt, phase # "over", NEW s \in Slots, Reading(s)
               PROVE  Given(s) \subseteq {table[s].file} \union Unread(s)
    BY DEF ReadsOwnBytes
  <2> DEFINE h == table[s].ref
             f == table[s].file
  <2>1. Counts(xms, mapped, spoilt, table) /\ ReadAt(table, s)
    BY GoodNow, ReadingIsReadAt
  <2>2. CASE platform = "xms"
    <3>1. Remembered(xms, table, 0, 0) /\ XmsTyped(xms)
      BY <2>1, <2>2 DEF Counts
    <3>2. HasItemOf(xms, h, f)
      BY <2>1, <3>1 DEF Remembered, ReadersServed
    <3>3. PICK i \in Items : xms.items[i].handle = h /\ xms.items[i].file = f
      BY <3>2 DEF HasItemOf
    <3>4. h # 0
      BY <3>2 DEF HasItemOf
    <3>5. f \in Files /\ xms.blocks[h].kb = Size[f] /\ xms.blocks[h].data = f
      BY <3>1, <3>3, <3>4 DEF Remembered, ItemOK
    <3>6. h \in Blocks
      <4>1. xms.items[i] \in XmsItem
        BY <3>1 DEF XmsTyped
      <4>2. xms.items[i].handle \in {0} \union Blocks
        BY <4>1 DEF XmsItem
      <4> QED BY <3>3, <3>4, <4>2
    <3>7. Size[f] >= 0
      BY <3>5, CacheNumbers
    <3> HIDE DEF h, f
    <3>8. Xms!Contents(xms, h) = f
      BY <3>5, <3>6, <3>7 DEF Xms!Contents, Xms!IsGivenOut, Blocks
    <3>9. Given(s) = {f} \union Xms!Uncopied(f)
      BY <2>2, <3>8 DEF Given, Xms!ReadXms, h, f
    <3> QED BY <2>2, <3>9 DEF Unread, f
  <2>3. CASE platform = "far"
    <3>1. ReadsOwn(xms, table, s)
      BY <2>1, <2>3 DEF Counts, FarHeld
    <3>2. Xms!Contents(xms, h) = f
      BY <3>1 DEF ReadsOwn, Xms!Contents, Xms!IsGivenOut, Blocks
    <3> HIDE DEF h, f
    <3>3. Given(s) = {f}
      BY <2>3, <3>2 DEF Given, h
    <3> QED BY <3>3 DEF f
  <2>4. CASE ~IsDos
    <3>1. ViewsOwn(mapped, table)
      BY <2>1, <2>4 DEF Counts
    <3>2. h \in Views /\ mapped.items[h] = f
      BY <2>1, <3>1 DEF ViewsOwn
    <3>3. Mapped!ReadMapped(mapped, h) = f
      BY <3>2 DEF Mapped!ReadMapped, Views
    <3>4. platform # "xms" /\ platform # "far"
      BY <2>4 DEF IsDos
    <3> HIDE DEF h, f
    <3>5. Given(s) = {f}
      BY <3>3, <3>4 DEF Given, h
    <3> QED BY <3>5 DEF f
  <2> QED BY <2>2, <2>3, <2>4 DEF IsDos
<1> QED BY <1>1, AlwaysCounted, PTL

LEMMA ReadersCounted == ASSUME NEW h PROVE Readers(h) = Cardinality(ReadersOf(table, h))
BY DEF Readers, ReadersOf, Reading, ReadAt

LEMMA OneReader ==
  ASSUME NEW h, NEW s \in Slots, ReadAt(table, s), table[s].ref = h,
         \A r \in Slots : ReadAt(table, r) /\ table[r].ref = h => r = s
  PROVE  Readers(h) = 1
<1>1. ReadersOf(table, h) = {s}
  BY DEF ReadersOf
<1>2. Cardinality({s}) = 1
  BY FS_Singleton
<1> QED BY <1>1, <1>2, ReadersCounted

LEMMA UsedItemsAre ==
  ASSUME Shaped(Now)
  PROVE  /\ UsedItems = UsedOf(mapped) /\ DOMAIN xms.items = Items /\ DOMAIN xms.blocks = Blocks
         /\ GivenOut = {h \in Blocks : xms.blocks[h].kb >= 0}
<1>1. mapped \in Mapped!MappedState /\ XmsTyped(xms)
  BY NowIs DEF Shaped, NowFields
<1>2. DOMAIN mapped.items = Views
  BY <1>1, MappedParts
<1>3. DOMAIN xms.items = Items /\ DOMAIN xms.blocks = Blocks
  BY <1>1 DEF XmsTyped
<1>4. UsedItems = UsedOf(mapped)
  BY <1>2 DEF UsedItems, UsedOf
<1> QED BY <1>3, <1>4 DEF GivenOut, Xms!IsGivenOut, Blocks

(* The uses of every block are counted: a block of extended memory has as  *)
(* many locks as open assets that read it, a view and a block of           *)
(* conventional memory belong to one asset, the archive is mapped for as   *)
(* many as there are, and after cleaning up nothing is held: pa-read.c and *)
(* pa-close.c over the three p-cache.c, z-init.c.                          *)
THEOREM AssetsUsesAreCounted == Spec => []UsesAreCounted
<1>1. CInv => UsesAreCounted
  <2> SUFFICES ASSUME CInv, ~spoilt PROVE UsesAreCounted
    BY DEF UsesAreCounted
  <2>0. Shaped(Now)
    BY CountedIsShaped
  <2>1. /\ UsedItems = UsedOf(mapped) /\ DOMAIN xms.items = Items /\ DOMAIN xms.blocks = Blocks
        /\ GivenOut = {h \in Blocks : xms.blocks[h].kb >= 0}
    BY <2>0, UsedItemsAre
  <2>2. CASE phase = "over"
    <3>1. AllFreed(xms, mapped, spoilt)
      BY <2>2 DEF CInv
    <3>2. UsedItems = {} /\ \A h \in Blocks : xms.blocks[h].kb = -1
      BY <2>1, <3>1 DEF AllFreed
    <3>3. GivenOut = {}
      BY <2>1, <3>2
    <3>4. ~IsDos => ViewsCounted(mapped)
      BY <3>1 DEF AllFreed
    <3>5. platform = "windows" => ~IsDos /\ platform # "far" /\ platform # "xms"
      BY DEF IsDos
    <3>6. platform = "windows" => mapped.mapped = Cardinality(UsedItems)
      BY <2>1, <3>4, <3>5 DEF ViewsCounted
    <3>7. ~IsDos /\ ~release => mapped.views = Cardinality(UsedItems)
      BY <2>1, <3>4 DEF ViewsCounted
    <3> QED BY <2>2, <3>2, <3>3, <3>6, <3>7 DEF UsesAreCounted
  <2>3. CASE phase # "over"
    <3>0. Counts(xms, mapped, spoilt, table)
      BY <2>3, GoodNow
    <3>1. ASSUME platform = "xms", NEW i \in DOMAIN xms.items, xms.items[i].handle # 0
          PROVE  Readers(xms.items[i].handle) = IF xms.items[i].locks > 0 THEN xms.items[i].locks ELSE 0
      <4>1. ItemOK(xms, table, 0, 0, i)
        BY <2>1, <3>0, <3>1 DEF Counts, Remembered
      <4>2. Cardinality(ReadersOf(table, xms.items[i].handle)) = Uses(xms.items[i].locks)
        BY <3>1, <4>1 DEF ItemOK
      <4> QED BY <4>2, ReadersCounted DEF Uses
    <3>2. ASSUME platform = "far", NEW h \in GivenOut PROVE Readers(h) = 1
      <4>1. FarHeld(xms, table) /\ h \in Blocks /\ xms.blocks[h].kb >= 0
        BY <2>1, <3>0, <3>2 DEF Counts
      <4>2. PICK s \in Slots : ReadAt(table, s) /\ table[s].ref = h
        BY <4>1 DEF FarHeld
      <4>3. \A r \in Slots : ReadAt(table, r) /\ table[r].ref = h => r = s
        BY <4>1, <4>2 DEF FarHeld
      <4> QED BY <4>2, <4>3, OneReader
    <3>3. ASSUME ~IsDos, NEW h \in UsedItems PROVE Readers(h) = 1
      <4>1. MapHeld(mapped, table) /\ h \in UsedOf(mapped) /\ h \in Views
        BY <2>1, <3>0, <3>3 DEF Counts, UsedOf
      <4>2. PICK s \in Slots : ReadAt(table, s) /\ table[s].ref = h
        BY <4>1 DEF MapHeld
      <4>3. \A r \in Slots : ReadAt(table, r) /\ table[r].ref = h => r = s
        BY <4>1, <4>2 DEF MapHeld
      <4> QED BY <4>2, <4>3, OneReader
    <3>4. ~IsDos => ViewsCounted(mapped)
      BY <3>0 DEF Counts, MapHeld
    <3>5. platform = "windows" => ~IsDos
      BY DEF IsDos
    <3>6. platform = "windows" => mapped.mapped = Cardinality(UsedItems)
      BY <2>1, <3>4, <3>5 DEF ViewsCounted
    <3>7. ~IsDos /\ ~release => mapped.views = Cardinality(UsedItems)
      BY <2>1, <3>4 DEF ViewsCounted
    <3> QED BY <2>3, <3>1, <3>2, <3>3, <3>6, <3>7 DEF UsesAreCounted
  <2> QED BY <2>2, <2>3
<1> QED BY <1>1, AlwaysCounted, PTL

==============================================================================
