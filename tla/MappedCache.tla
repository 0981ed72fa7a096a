---------------------------- MODULE MappedCache ----------------------------
(***************************************************************************)
(* The caches of Linux and Windows: pal/linux/p-cache.c and                *)
(* pal/windows/p-cache.c, where a block is a view of the archive's file.   *)
(*                                                                         *)
(* A state is a record of cache_[] (items, by the file they are a view     *)
(* of), the number of views that exist, and on Windows how many items use  *)
(* the mapping of the archive's descriptor in files_[] (mapped), which     *)
(* exists while there is one.  release() is called with the views alive or *)
(* not: in a release build the assertion that contains the call of munmap  *)
(* or UnmapViewOfFile does not exist, nor does the call.                   *)
(***************************************************************************)
EXTENDS Naturals, FiniteSetsExt

CONSTANTS
  Files, NoFile,
  MaxCache,       \* MAX_CACHE, MAX_CACHE_ITEMS
  MaxViews        \* bound: how many views the address space holds

MappedState == [items : [1 .. MaxCache -> Files \union {NoFile}],
                views : 0 .. MaxViews, mapped : Nat]

MappedInit == [items |-> [i \in 1 .. MaxCache |-> NoFile], views |-> 0, mapped |-> 0]

FreeItems(m) == {i \in 1 .. MaxCache : m.items[i] = NoFile}

(* acquire(), on Windows: the archive is mapped once for all its views.    *)
Acquire(m, windows) == IF windows THEN [m EXCEPT !.mapped = @ + 1] ELSE m

(* release(): the last item closes the mapping.                            *)
Release(m, windows) == IF windows THEN [m EXCEPT !.mapped = @ - 1] ELSE m

(* pal_cache(): the handle is the number of the item.  The file is not     *)
(* mapped when it has been closed, or when memory runs out.                *)
(* Mutant: the answer of mmap is not looked at.                            *)
CacheUnchecked(m, f, readable, windows) ==
  {<<[Acquire(m, windows) EXCEPT !.items[i] = f, !.views = @ + 1], i>>
     : i \in {j \in FreeItems(m) : j = Min(FreeItems(m))}}

CacheMapped(m, f, readable, windows) ==
  {<<m, 0>>}
    \union {<<[Acquire(m, windows) EXCEPT !.items[i] = f, !.views = @ + 1], i>>
              : i \in {j \in FreeItems(m) : /\ j = Min(FreeItems(m))
                                            /\ readable /\ m.views < MaxViews}}

(* pal_discard()                                                           *)
DiscardMapped(m, handle, windows, release) ==
  IF handle \notin 1 .. MaxCache THEN m ELSE
  LET n == [Release(m, windows) EXCEPT !.items[handle] = NoFile]
  IN  IF release THEN n ELSE [n EXCEPT !.views = @ - 1]

(* pal_read()                                                              *)
ReadMapped(m, handle) == IF handle \in 1 .. MaxCache THEN m.items[handle] ELSE NoFile

==============================================================================
