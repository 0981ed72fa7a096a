------------------------------ MODULE XmsCache ------------------------------
(***************************************************************************)
(* The block cache of DOS in extended memory: pal/dos/p-cache.c over the   *)
(* XMS driver of pal/dos/d-xm.c.                                           *)
(*                                                                         *)
(* A state of it is a record: items are cache_[], blocks what the driver   *)
(* has given out.  An item is of a file of the archive, which stands for   *)
(* its descriptor, base and size.  A call takes a state to the set of its  *)
(* outcomes, since the driver chooses handles and reading may fail.        *)
(* Sizes are in kilobytes, rounded up as the driver wants them.            *)
(***************************************************************************)
EXTENDS Integers, FiniteSets, FiniteSetsExt

CONSTANTS
  Files, NoFile,
  Size,           \* size of each file in kilobytes, 1 to 64
  ShortFiles,     \* files so near the end of the archive that their first
                  \* read, up to the next border of 512 bytes, comes short
  OverreadFiles,  \* files of which more is read than their blocks hold, as
                  \* sndseq_start() reads the first 4096 bytes of any song
  SpillingFiles,  \* files that do not fit the memory asked for in paragraphs:
                  \* the first store, of up to 512 bytes, passes the end of a
                  \* small one, and near 64 KB the arithmetic overflows
  XmsItems,       \* MAX_CACHE_ITEMS
  XmsHandles,     \* how many handles the driver has
  XmsMemory,      \* how much extended memory there is
  MaxAge,         \* -INT_MIN
  MaxLocks        \* bound: locks are counted no further


NoHandle == 0
ItemIndexes == 1 .. XmsItems
Handles == 1 .. XmsHandles
(* What is asked for when the local header could not be read: no bytes.    *)
Kb(f) == IF f = NoFile THEN 0 ELSE Size[f]
Item == [file : Files \union {NoFile}, handle : {NoHandle} \union Handles,
         locks : Int]
(* A block that is not given out has no size, not even zero.               *)
Unsized == -1
Block == [kb : Unsized .. 64, data : Files \union {NoFile}]
XmsState == [items : [ItemIndexes -> Item], blocks : [Handles -> Block]]

FreeBlock == [kb |-> Unsized, data |-> NoFile]
NoItem == [file |-> NoFile, handle |-> NoHandle, locks |-> 0]

(* dos_initialize_cache()                                                  *)
XmsInit == [items |-> [i \in ItemIndexes |-> NoItem],
            blocks |-> [h \in Handles |-> FreeBlock]]

------------------------------------------------------------------------------
(* The driver: dosxm_alloc(), dosxm_free(), dosxm_store().                 *)
Used(x) == MapThenSumSet(LAMBDA h : Max({0, x.blocks[h].kb}), Handles)

AllocXms(x, kb) ==
  IF Used(x) + kb > XmsMemory THEN {} ELSE {h \in Handles : x.blocks[h].kb = Unsized}

IsGivenOut(x, h) == h \in Handles /\ x.blocks[h].kb >= 0

FreeXms(x, h) ==
  IF IsGivenOut(x, h) THEN [x EXCEPT !.blocks[h] = FreeBlock] ELSE x

(* A block that is too small takes the beginning only.                     *)
StoreXms(x, h, f) ==
  IF ~IsGivenOut(x, h) THEN x
  ELSE [x EXCEPT !.blocks[h].data = IF x.blocks[h].kb < Kb(f) THEN NoFile ELSE f]

------------------------------------------------------------------------------
(* find_cache(): the first item with the handle, zero if there is none.    *)
FindCache(x, handle) ==
  LET found == {i \in ItemIndexes : x.items[i].handle = handle}
  IN  IF found = {} THEN 0 ELSE Min(found)

Matches(x, f) == {i \in ItemIndexes : x.items[i].file = f /\ x.items[i].handle # NoHandle}
RetrieveCache(x, f) ==
  IF Matches(x, f) = {} THEN NoHandle ELSE x.items[Min(Matches(x, f))].handle

(* What retrieve_cache() does to the items: those nobody uses grow older.  *)
Aged(x) ==
  [x EXCEPT !.items = [i \in ItemIndexes |->
     IF x.items[i].handle # NoHandle /\ x.items[i].locks \in (1 - MaxAge) .. 0
     THEN [x.items[i] EXCEPT !.locks = @ - 1] ELSE x.items[i]]]

(* Mutant of LockCache: a flag instead of a count.                         *)
LockCacheOnce(x, handle) ==
  LET i == FindCache(x, handle)
  IN  IF handle = NoHandle \/ i = 0 THEN x ELSE [x EXCEPT !.items[i].locks = 1]

LockCache(x, handle) ==
  LET i == FindCache(x, handle)
  IN  IF handle = NoHandle \/ i = 0 THEN x
      ELSE [x EXCEPT !.items[i].locks = IF @ < 0 THEN 1 ELSE Min({@ + 1, MaxLocks})]

UnlockCache(x, handle) ==
  LET i == FindCache(x, handle)
  IN  IF handle = NoHandle \/ i = 0 \/ x.items[i].locks <= 0 THEN x
      ELSE [x EXCEPT !.items[i].locks = @ - 1]

------------------------------------------------------------------------------
(* evict(): the oldest block that is large enough, of these the smallest,  *)
(* of these the first.  One that has just been given up and is so large    *)
(* that its rounded size overflows (64 here) is never better than none.    *)
(* Mutant: a block in use is taken as well.                                *)
AnyItem(x, i) == TRUE
Idle(x, i) == x.items[i].locks <= 0

Evictable(x, kb) ==
  {i \in ItemIndexes : /\ x.items[i].handle # NoHandle /\ Idle(x, i)
                       /\ kb <= Kb(x.items[i].file)
                       /\ ~(x.items[i].locks = 0 /\ Kb(x.items[i].file) = 64)}

Better(x, i, j) ==
  \/ x.items[i].locks < x.items[j].locks
  \/ /\ x.items[i].locks = x.items[j].locks
     /\ \/ Kb(x.items[i].file) < Kb(x.items[j].file)
        \/ Kb(x.items[i].file) = Kb(x.items[j].file) /\ i <= j

Victim(x, kb) == CHOOSE i \in Evictable(x, kb) : \A j \in Evictable(x, kb) : Better(x, i, j)

CanEvict(x, kb) ==
  /\ Evictable(x, kb) # {}
  /\ IsGivenOut(x, x.items[Victim(x, kb)].handle)

Evict(x, kb) ==
  LET i == Victim(x, kb)
  IN  [FreeXms(x, x.items[i].handle) EXCEPT !.items[i].handle = NoHandle]

(* allocate_cache(): a second attempt follows an eviction.  The outcomes   *)
(* are pairs of a state and a handle, zero for a failure.                  *)
Take(x, kb) == {<<[x EXCEPT !.blocks[h] = [kb |-> kb, data |-> NoFile]], h>>
                  : h \in AllocXms(x, kb)}

(* (length + 1023) / 1024 in the 16 bits of a size_t: nothing is asked for *)
(* what takes 64.                                                          *)
Asked(kb) == kb % 64

AllocateCache(x, kb) ==
  IF AllocXms(x, Asked(kb)) # {} THEN Take(x, Asked(kb))
  ELSE IF ~CanEvict(x, kb) THEN {<<x, NoHandle>>}
  ELSE LET y == Evict(x, kb)
       IN  IF AllocXms(y, Asked(kb)) # {} THEN Take(y, Asked(kb)) ELSE {<<y, NoHandle>>}

(* remember_cache() and the lock that follows: the block goes into a free  *)
(* item, or one that can be evicted, or is given back.                     *)
Remember(x, f, handle) ==
  LET full == FindCache(x, NoHandle) = 0
      y == IF full /\ CanEvict(x, 0) THEN Evict(x, 0) ELSE x
      slot == FindCache(y, NoHandle)
      item == [file |-> f, handle |-> handle, locks |-> 0]
  IN  IF slot = 0 THEN <<FreeXms(y, handle), NoHandle>>
      ELSE <<LockCache([y EXCEPT !.items[slot] = item], handle), handle>>

------------------------------------------------------------------------------
(* load_data(): any read may fail.  One that comes short answers minus     *)
(* errno, which the driver has set to zero: success, with a block that was *)
(* not filled.  On a hit errno may be an older error, which is a failure   *)
(* like others.  The driver's answers to the stores are not looked at, and *)
(* so a block that was asked for with a size that had overflowed counts as *)
(* loaded, with the bytes nowhere.                                         *)
LoadData(x, f, handle, readable) ==
  LET filled == [xms |-> StoreXms(x, handle, f), handle |-> handle,
                 spoilt |-> Asked(Kb(f)) # Kb(f)]
      unfilled == [xms |-> x, handle |-> handle, spoilt |-> TRUE]
      failed == [xms |-> FreeXms(x, handle), handle |-> NoHandle, spoilt |-> TRUE]
  IN  {failed}
      \union (IF readable /\ f \notin ShortFiles THEN {filled} ELSE {})
      \union (IF readable /\ f \in ShortFiles THEN {unfilled} ELSE {})

(* pal_cache(): a hit is filled again, as a new block is.                  *)
CacheXms(x, f, readable) ==
  LET hit == RetrieveCache(x, f)
      y == Aged(x)
  IN  IF hit # NoHandle THEN LoadData(LockCache(y, hit), f, hit, readable)
      ELSE UNION {LET r == IF a[2] = NoHandle THEN a ELSE Remember(a[1], f, a[2])
                  IN  IF r[2] = NoHandle
                      THEN {[xms |-> r[1], handle |-> NoHandle, spoilt |-> FALSE]}
                      ELSE LoadData(r[1], f, r[2], readable)
                  : a \in AllocateCache(y, Kb(f))}

(* pal_discard() and pal_read(): of which file the bytes are that a reader *)
(* of f may be given.  A read that passes the end of the block is refused  *)
(* by the driver, which nobody learns of: nothing is copied.               *)
DiscardXms(x, handle) == UnlockCache(x, handle)

Contents(x, handle) == IF IsGivenOut(x, handle) THEN x.blocks[handle].data ELSE NoFile
Uncopied(f) == IF f \in OverreadFiles THEN {"nothing"} ELSE {}
ReadXms(x, handle, f) == {Contents(x, handle)} \union Uncopied(f)

(* dos_cleanup_cache(): all remembered blocks are given back.              *)
CleanupXms(x) ==
  LET remembered == {x.items[i].handle : i \in ItemIndexes}
  IN  [x EXCEPT !.blocks = [h \in Handles |->
         IF h \in remembered THEN FreeBlock ELSE x.blocks[h]]]

------------------------------------------------------------------------------
(* Without CONFIG_XMS every handle has a block of its own in conventional  *)
(* memory, which goes with it, and which the heap and other programs share *)
(* in, so that there may be none at any time; errno is then whatever it    *)
(* was.  A kilobyte stands for paragraphs here.  The stores go where they  *)
(* go: a file that spills is in its block, what fits of it, and may be     *)
(* over the beginning of another.  (What it does to the memory that is not *)
(* the cache's is not followed.)                                           *)
FarKb(f) == IF f \in SpillingFiles THEN Asked(Kb(f)) ELSE Kb(f)

StoreFar(x, handle, f) ==
  LET y == [x EXCEPT !.blocks[handle].data = f]
      behind == {h \in Handles \ {handle} : f \in SpillingFiles /\ IsGivenOut(x, h)}
  IN  {y} \union {[y EXCEPT !.blocks[h].data = NoFile] : h \in behind}

LoadFar(x, f, handle, readable) ==
  {[xms |-> FreeXms(x, handle), handle |-> NoHandle, spoilt |-> TRUE]}
    \union (IF readable /\ f \notin ShortFiles
            THEN {[xms |-> y, handle |-> handle, spoilt |-> f \in SpillingFiles]
                    : y \in StoreFar(x, handle, f)} ELSE {})
    \union (IF readable /\ f \in ShortFiles
            THEN {[xms |-> x, handle |-> handle, spoilt |-> TRUE]} ELSE {})

CacheFar(x, f, readable) ==
  {[xms |-> x, handle |-> NoHandle, spoilt |-> FALSE]}
    \union UNION {LoadFar(a[1], f, a[2], readable) : a \in Take(x, FarKb(f))}

DiscardFar(x, handle) == FreeXms(x, handle)

==============================================================================
