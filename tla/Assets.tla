------------------------------- MODULE Assets -------------------------------
(***************************************************************************)
(* The archive's assets and who uses them: the handles of pal/_zip/pa-*.c, *)
(* the reader zip.c, one of the block caches under it, and above it the    *)
(* contexts of sld/context.c, the bitmap in work of sld/bitmap.c and       *)
(* bmp.c, and the song of snd/seq.c, which use the handles without knowing *)
(* of each other.                                                          *)
(*                                                                         *)
(* A file stands for its local header's offset.  All files are stored and  *)
(* well-formed; a file that is not in the archive changes nothing and is   *)
(* left out, except for a song, whose predecessor is closed all the same.  *)
(* Every call is made by the main thread, so that each is one step.  What  *)
(* may fail at any time: reading the archive, and allocating memory.  A    *)
(* read that fails closes the archive's descriptor (_seek_read), and from  *)
(* then on every read fails.                                               *)
(***************************************************************************)
EXTENDS Naturals, Sequences, FiniteSets, FiniteSetsExt, SequencesExt

CONSTANTS
  Root,           \* slides.txt
  Stored, Sealed, \* scripts called in plain text and encrypted ones
  Pictures, Songs,
  Icon,           \* windows.ico
  NoFile,
  Patterns,       \* for a name pattern: the pictures it finds, each with a
                  \* better aspect ratio than the one before it
  Builds,         \* pairs of a platform and whether assertions are left out
  MaxOpen,        \* MAX_OPEN_ASSETS
  MaxDepth,       \* bound: scripts that call each other
  MaxBuffers,     \* how many loaded assets the heap holds
  MaxChunks,      \* bound: how many chunks a bitmap takes
  \* the caches
  Size, ShortFiles, OverreadFiles, SpillingFiles,
  XmsItems, XmsHandles, XmsMemory, MaxAge, MaxLocks, MaxCache, MaxViews

Scripts == {Root} \union Stored \union Sealed
Files == Scripts \union Pictures \union Songs \union {Icon}

ASSUME KindsAssumption ==
  /\ Root \notin Stored \union Sealed /\ Stored \intersect Sealed = {}
  /\ Scripts \intersect (Pictures \union Songs \union {Icon}) = {}
  /\ Pictures \intersect Songs = {} /\ Icon \notin Pictures \union Songs
  /\ NoFile \notin Files
ASSUME BuildsAssumption == Builds \subseteq {"xms", "far", "linux", "windows"} \X BOOLEAN
ASSUME PatternsAssumption ==
  \A p \in Patterns : /\ p \in Seq(Pictures) /\ p # <<>>
                      /\ \A i, j \in DOMAIN p : p[i] = p[j] => i = j
ASSUME BoundsAssumption ==
  MaxOpen \in Nat \ {0} /\ MaxDepth \in Nat \ {0} /\ MaxBuffers \in Nat /\ MaxChunks \in Nat \ {0}
ASSUME CacheAssumption ==
  /\ Size \in [Files -> 1 .. 64]
  /\ ShortFiles \subseteq Files /\ OverreadFiles \subseteq Files /\ SpillingFiles \subseteq Files
  /\ XmsItems \in Nat \ {0} /\ XmsHandles \in Nat /\ XmsMemory \in Nat
  /\ MaxAge \in Nat \ {0} /\ MaxLocks \in Nat /\ MaxLocks > MaxOpen
  /\ MaxCache \in Nat \ {0} /\ MaxViews \in Nat

VARIABLES
  platform,       \* which cache was built
  release,        \* whether assertions are left out
  phase,          \* "start", "run", "quit" or "over"
  readable,       \* whether _fd is open
  table,          \* pal_assets
  heap,           \* the buffers that zip_load_data() has allocated and are live
  plain,          \* those that have been decrypted in place
  xms, mapped,    \* the cache
  stack,          \* the contexts, the running one last
  picture,        \* the bitmap in work
  song, music,    \* _asset of seq.c, and the asset of its _iff while playing
  dropped,        \* history: slots that a bitmap that failed has left open
  shared,         \* history: two contexts have held the same slot
  spoilt          \* history: a block was not filled as it should have been (a
                  \* read failed or came short, a size had overflowed, a store
                  \* passed its end), or a loaded buffer was read as if it were
                  \* a cache handle

build == <<platform, release>>
assets == <<readable, table, heap, xms, mapped, spoilt>>
users == <<stack, picture, song, music>>
vars == <<build, phase, assets, plain, users, dropped, shared>>

Xms == INSTANCE XmsCache
Mapped == INSTANCE MappedCache

------------------------------------------------------------------------------
IsDos == platform \in {"xms", "far"}
Slots == 1 .. MaxOpen
NoSlot == 0
(* The pointer to a loaded buffer and the handle of a block share a field; *)
(* no buffer's address is a handle.                                        *)
Buffers == (XmsHandles + MaxCache + 1) .. (XmsHandles + MaxCache + MaxBuffers)

Asset == [file : Files \union {NoFile}, rdwr : BOOLEAN, cached : BOOLEAN, ref : Nat]
FreeAsset == [file |-> NoFile, rdwr |-> FALSE, cached |-> FALSE, ref |-> 0]
Context == [slot : Slots, file : Scripts, data : Buffers]
NoPicture == [slot |-> NoSlot, file |-> NoFile, left |-> 0]

(* ziparch_initialize()                                                    *)
Init ==
  /\ \E b \in Builds : platform = b[1] /\ release = b[2]
  /\ phase = "start" /\ readable = TRUE
  /\ table = [s \in Slots |-> FreeAsset] /\ heap = {} /\ plain = {}
  /\ xms = Xms!XmsInit /\ mapped = Mapped!MappedInit
  /\ stack = <<>> /\ picture = NoPicture /\ song = NoSlot /\ music = NoSlot
  /\ dropped = {} /\ shared = FALSE /\ spoilt = FALSE

(* What the functions on assets work on, and the end of a step of theirs.  *)
Now == [table |-> table, readable |-> readable, heap |-> heap,
        xms |-> xms, mapped |-> mapped, spoilt |-> spoilt]
Becomes(a) ==
  /\ table' = a.table /\ readable' = a.readable /\ heap' = a.heap
  /\ xms' = a.xms /\ mapped' = a.mapped /\ spoilt' = a.spoilt

------------------------------------------------------------------------------
(* pal_open_asset(): the scan ends at the file or at the first free slot,  *)
(* whichever comes first; a handle for writing makes the asset writable.   *)
MatchedSlots(a, f) == {s \in Slots : a.table[s].file \in {f, NoFile}}
OpenSlot(a, f) == IF MatchedSlots(a, f) = {} THEN NoSlot ELSE Min(MatchedSlots(a, f))

Opened(a, f, rdwr) ==
  LET s == OpenSlot(a, f)
  IN  IF s = NoSlot THEN a
      ELSE IF a.table[s].file = f THEN [a EXCEPT !.table[s].rdwr = @ \/ rdwr]
      ELSE [a EXCEPT !.table[s] = [FreeAsset EXCEPT !.file = f, !.rdwr = rdwr]]

(* zip_discard(), pal_discard()                                            *)
Discarded(a, handle) ==
  CASE platform = "xms" -> [a EXCEPT !.xms = Xms!DiscardXms(@, handle)]
    [] platform = "far" -> [a EXCEPT !.xms = Xms!DiscardFar(@, handle)]
    [] OTHER -> [a EXCEPT !.mapped =
                   Mapped!DiscardMapped(@, handle, platform = "windows", release)]

(* pal_close_asset(): a writable asset is not released, and neither is a   *)
(* loaded buffer, since PALOPT_LOCAL is never set.                         *)
(* Mutant: a writable asset is released too.                               *)
ReleasedAll(a, s) == a.table[s].file # NoFile
Released(a, s) == a.table[s].file # NoFile /\ ~a.table[s].rdwr

Closed(a, s) ==
  IF s = NoSlot \/ ~Released(a, s) THEN a
  ELSE LET b == [a EXCEPT !.table[s].file = NoFile]
       IN  IF ~a.table[s].cached \/ a.table[s].ref = 0 THEN b
           ELSE [Discarded(b, a.table[s].ref) EXCEPT !.table[s].ref = 0]

(* _seek_read() when it fails: the descriptor is closed.                   *)
Lost(a) == [a EXCEPT !.readable = FALSE]

(* zip_load_data(): out of memory, a read that fails, or a buffer that     *)
(* holds the file.  The outcomes are pairs of assets and a buffer, zero    *)
(* for none.                                                               *)
Allocated(a) == {b \in Buffers \ a.heap : a.readable /\ \A c \in Buffers \ a.heap : b <= c}
LoadsData(a, s) ==
  {<<a, 0>>, <<Lost(a), 0>>}
    \union {<<[a EXCEPT !.table[s].ref = b, !.heap = @ \union {b}], b>> : b \in Allocated(a)}

(* pal_load_asset(): what was loaded is not loaded again.                  *)
Loads(a, s) ==
  IF a.table[s].file = NoFile \/ a.table[s].cached THEN {<<a, 0>>}
  ELSE IF a.table[s].ref # 0 THEN {<<a, a.table[s].ref>>}
  ELSE LoadsData(a, s)

------------------------------------------------------------------------------
(* zip_cache() and pal_cache(): the outcomes are assets and a handle.  The *)
(* local header is read first; when that fails, the archive is closed, and *)
(* pal_cache() is called all the same, for no bytes.  As long as Windows   *)
(* has the archive mapped, it is found by the descriptor's number, which   *)
(* zip.c keeps: the answer is then a view of the archive's beginning, for  *)
(* which Root stands here, whatever was asked for.                         *)
XmsCalls(x, f, open) ==
  IF platform = "xms" THEN Xms!CacheXms(x, f, open) ELSE Xms!CacheFar(x, f, open)

StillMapped(a) == platform = "windows" /\ a.mapped.mapped > 0

Caches(a, f) ==
  LET lost == [Lost(a) EXCEPT !.spoilt = TRUE]
  IN  IF IsDos
      THEN {<<[lost EXCEPT !.xms = c.xms], 0>> : c \in XmsCalls(a.xms, NoFile, FALSE)}
             \union {<<[a EXCEPT !.xms = c.xms, !.spoilt = @ \/ c.spoilt], c.handle>>
                       : c \in IF a.readable THEN XmsCalls(a.xms, f, TRUE) ELSE {}}
      ELSE {<<lost, 0>>}
             \union {<<[lost EXCEPT !.mapped = c[1]], c[2]>>
                       : c \in IF StillMapped(a)
                               THEN Mapped!CacheMapped(a.mapped, Root, TRUE, platform = "windows")
                               ELSE {}}
             \union {<<[a EXCEPT !.mapped = c[1]], c[2]>>
                       : c \in IF a.readable
                               THEN Mapped!CacheMapped(a.mapped, f, TRUE, platform = "windows")
                               ELSE {}}

(* pal_read_asset(): the first read makes the block.  The outcomes are     *)
(* assets and whether the answer is true.                                  *)
Reads(a, s) ==
  IF a.table[s].file = NoFile \/ a.table[s].rdwr THEN {<<a, FALSE>>}
  ELSE IF a.table[s].ref # 0
  THEN {<<[a EXCEPT !.table[s].cached = TRUE, !.spoilt = @ \/ ~a.table[s].cached], TRUE>>}
  ELSE {IF c[2] = 0 THEN <<c[1], FALSE>>
        ELSE <<[c[1] EXCEPT !.table[s].ref = c[2], !.table[s].cached = TRUE], TRUE>>
          : c \in Caches(a, a.table[s].file)}

(* Of which file the bytes are that a reader of a slot may be given.       *)
Given(s) ==
  CASE platform = "xms" -> Xms!ReadXms(xms, table[s].ref, table[s].file)
    [] platform = "far" -> {Xms!Contents(xms, table[s].ref)}
    [] OTHER -> {Mapped!ReadMapped(mapped, table[s].ref)}

------------------------------------------------------------------------------
(* sld_create_context(): when loading fails the asset is closed again.     *)
Create(f, rdwr) ==
  LET s == OpenSlot(Now, f)
      a == Opened(Now, f, rdwr)
  IN  /\ \E o \in IF s = NoSlot THEN {<<a, 0>>} ELSE Loads(a, s) :
           IF o[2] = 0 THEN Becomes(Closed(o[1], s)) /\ UNCHANGED <<stack, shared>>
           ELSE /\ Becomes(o[1])
                /\ stack' = Append(stack, [slot |-> s, file |-> f, data |-> o[2]])
                /\ shared' = (shared \/ \E i \in DOMAIN stack : stack[i].slot = s)
      /\ UNCHANGED <<plain, picture, song, music, dropped, build>>

Top == Last(stack)
RunsPlain == Top.file \notin Sealed \/ Top.data \in plain
Acts == phase = "run" /\ stack # <<>> /\ picture = NoPicture /\ RunsPlain

(* The window's icon, on Windows: loaded and closed.                       *)
LoadIcon ==
  /\ phase = "start" /\ platform = "windows" /\ heap = {}
  /\ LET s == OpenSlot(Now, Icon)
     IN  /\ s # NoSlot
         /\ \E o \in Loads(Opened(Now, Icon, FALSE), s) :
              o[2] # 0 /\ Becomes(Closed(o[1], s))
  /\ UNCHANGED <<plain, phase, users, dropped, shared, build>>

(* pal_extract_asset() of a driver, on DOS, in which a read fails.         *)
ExtractDriverFails ==
  /\ phase = "start" /\ IsDos /\ readable
  /\ readable' = FALSE
  /\ UNCHANGED <<table, heap, xms, mapped, spoilt, plain, phase, users, dropped, shared,
                 build>>

(* main() and a script call                                                *)
Main ==
  /\ phase = "start"
  /\ phase' = "run"
  /\ Create(Root, FALSE)

Call(f) ==
  /\ Acts /\ Len(stack) < MaxDepth
  /\ Create(f, f \in Sealed)
  /\ UNCHANGED phase

(* enc_handle() of a sealed script: decrypted in place.                    *)
Unlock ==
  /\ phase = "run" /\ stack # <<>> /\ ~RunsPlain
  /\ plain' = plain \union {Top.data}
  /\ UNCHANGED <<assets, phase, users, dropped, shared, build>>

(* sld_close_context(), also when a key was refused: the slot is closed,   *)
(* whoever has it by now.                                                  *)
Leave ==
  /\ phase \in {"run", "quit"} /\ stack # <<>>
  /\ phase = "run" => picture = NoPicture
  /\ stack' = Front(stack)
  /\ Becomes(Closed(Now, Top.slot))
  /\ UNCHANGED <<plain, phase, picture, song, music, dropped, shared, build>>

------------------------------------------------------------------------------
(* _find_best_bitmap(): each choice is opened before the last one is       *)
(* closed; one that cannot be opened is passed over.                       *)
Better(r, f) ==
  LET s == OpenSlot(r.assets, f)
  IN  IF s = NoSlot THEN r
      ELSE [slot |-> s, file |-> f, assets |-> Closed(Opened(r.assets, f, FALSE), r.slot)]

Unfound == [slot |-> NoSlot, file |-> NoFile, assets |-> Now]
FindBestBitmap(pattern) ==
  LET found[n \in 0 .. Len(pattern)] ==
        IF n = 0 THEN Unfound ELSE Better(found[n - 1], pattern[n])
  IN  found[Len(pattern)]

(* bmp_load_bitmap() for the first time: no memory for a chunk, a file     *)
(* that cannot be read or is not a bitmap, or its headers and the first    *)
(* chunk, whose answer nobody looks at.                                    *)
LoadBitmap(a, s) ==
  {<<a, FALSE>>} \union Reads(a, s) \union {<<o[1], FALSE>> : o \in Reads(a, s)}

(* execute_start() of a bitmap: when loading fails its asset stays open.   *)
StartPicture ==
  /\ Acts
  /\ \E p \in Patterns :
       LET best == FindBestBitmap(p)
       IN  IF best.slot = NoSlot
           THEN Becomes(best.assets) /\ UNCHANGED <<picture, dropped>>
           ELSE \E o \in LoadBitmap(best.assets, best.slot) :
                  /\ Becomes(o[1])
                  /\ \/ /\ o[2]
                        /\ picture' \in {[slot |-> best.slot, file |-> best.file, left |-> n]
                                           : n \in 1 .. MaxChunks}
                        /\ dropped' = dropped \ {best.slot}
                     \/ /\ ~o[2] /\ dropped' = dropped \union {best.slot}
                        /\ UNCHANGED picture
  /\ UNCHANGED <<plain, phase, stack, song, music, shared, build>>

(* execute_read(): a chunk is drawn and the next one read.                 *)
DrawChunk ==
  /\ phase = "run" /\ picture # NoPicture /\ picture.left > 0
  /\ \E o \in Reads(Now, picture.slot) : Becomes(o[1])
  /\ picture' = [picture EXCEPT !.left = @ - 1]
  /\ UNCHANGED <<plain, phase, stack, song, music, dropped, shared, build>>

(* execute_complete(), after the last chunk or when one cannot be drawn.   *)
Complete ==
  /\ phase = "run" /\ picture # NoPicture
  /\ Becomes(Closed(Now, picture.slot))
  /\ picture' = NoPicture
  /\ UNCHANGED <<plain, phase, stack, song, music, dropped, shared, build>>

------------------------------------------------------------------------------
(* sndseq_open(): the last song's asset is closed in any case.             *)
Play(f) ==
  /\ Acts
  /\ LET silenced == Closed(Now, song)
     IN  Becomes(Opened(silenced, f, FALSE)) /\ song' = OpenSlot(silenced, f)
  /\ music' = IF song' = NoSlot THEN music ELSE song'
  /\ UNCHANGED <<plain, phase, stack, picture, dropped, shared, build>>

PlayMissing ==
  /\ Acts /\ song # NoSlot
  /\ Becomes(Closed(Now, song))
  /\ song' = NoSlot
  /\ UNCHANGED <<plain, phase, stack, picture, music, dropped, shared, build>>

(* sndseq_start() and sndseq_feed(): the song's asset is read; when it     *)
(* cannot be, or the song ends, sndseq_close().                            *)
(* Mutant: what is closed is the asset that was read.                      *)
ClosedSong(a) == Closed(a, music)
EndedSong(a) == Closed(a, song)

Feed ==
  /\ phase = "run" /\ music # NoSlot
  /\ \E o \in Reads(Now, music) : o[2] /\ Becomes(o[1])
  /\ UNCHANGED <<plain, phase, users, dropped, shared, build>>

EndSong ==
  /\ phase = "run" /\ music # NoSlot
  /\ \/ Becomes(EndedSong(Now))
     \/ \E o \in Reads(Now, music) : ~o[2] /\ Becomes(EndedSong(o[1]))
  /\ music' = NoSlot /\ song' = NoSlot
  /\ UNCHANGED <<plain, phase, stack, picture, dropped, shared, build>>

------------------------------------------------------------------------------
(* The window is closed: all contexts are left, a bitmap in work is not.   *)
Quit ==
  /\ phase = "run"
  /\ phase' = "quit"
  /\ UNCHANGED <<assets, plain, users, dropped, shared, build>>

(* pal_cleanup(): ziparch_cleanup(), slot by slot, and                     *)
(* dos_cleanup_cache().                                                    *)
CleanedUp ==
  LET cleaned[s \in 0 .. MaxOpen] ==
        IF s = 0 THEN Now
        ELSE IF table[s].cached /\ table[s].ref # 0 THEN Discarded(cleaned[s - 1], table[s].ref)
        ELSE cleaned[s - 1]
  IN  cleaned[MaxOpen]

Cleanup ==
  /\ phase \in {"run", "quit"} /\ stack = <<>>
  /\ phase' = "over"
  /\ LET a == CleanedUp
     IN  Becomes([a EXCEPT !.readable = FALSE,
                           !.xms = IF platform = "xms" THEN Xms!CleanupXms(@) ELSE @])
  /\ UNCHANGED <<plain, users, dropped, shared, build>>

Next ==
  \/ LoadIcon \/ ExtractDriverFails \/ Main
  \/ \E f \in Stored \union Sealed : Call(f)
  \/ Unlock \/ Leave
  \/ StartPicture \/ DrawChunk \/ Complete
  \/ \E f \in Songs : Play(f)
  \/ PlayMissing \/ Feed \/ EndSong
  \/ Quit \/ Cleanup

Spec == Init /\ [][Next]_vars

------------------------------------------------------------------------------
TypeOK ==
  /\ \E b \in Builds : platform = b[1] /\ release = b[2]
  /\ phase \in {"start", "run", "quit", "over"} /\ readable \in BOOLEAN
  /\ table \in [Slots -> Asset]
  /\ heap \subseteq Buffers /\ plain \subseteq heap
  /\ xms \in Xms!XmsState /\ mapped \in Mapped!MappedState
  /\ stack \in Seq(Context) /\ Len(stack) <= MaxDepth
  /\ picture \in {NoPicture} \union [slot : Slots, file : Pictures, left : 0 .. MaxChunks]
  /\ song \in Slots \union {NoSlot} /\ music \in Slots \union {NoSlot}
  /\ dropped \subseteq Slots /\ shared \in BOOLEAN /\ spoilt \in BOOLEAN

Reading(s) == table[s].file # NoFile /\ table[s].cached

(* A reader is given the bytes of the file it has opened, whatever blocks  *)
(* have been evicted, filled again and given to other files since, as long *)
(* as every block was filled; or none, where a read in extended memory     *)
(* passes the end of its block (pa-read.c over the three p-cache.c).       *)
Unread(s) == IF platform = "xms" THEN Xms!Uncopied(table[s].file) ELSE {}
ReadsOwnBytes ==
  ~spoilt /\ phase # "over" =>
    \A s \in Slots : Reading(s) => Given(s) \subseteq {table[s].file} \union Unread(s)

(* The uses of every block are counted: a block of extended memory has as  *)
(* many locks as there are open assets that read it, a view belongs to one *)
(* asset, the archive is mapped for as many as there are, and after        *)
(* cleaning up nothing is held (pa-close.c over the three p-cache.c).      *)
Readers(handle) == Cardinality({s \in Slots : Reading(s) /\ table[s].ref = handle})
UsedItems == {i \in DOMAIN mapped.items : mapped.items[i] # NoFile}
GivenOut == {h \in DOMAIN xms.blocks : Xms!IsGivenOut(xms, h)}

UsesAreCounted ==
  ~spoilt =>
    /\ platform = "xms" /\ phase # "over" =>
         \A i \in DOMAIN xms.items :
           LET item == xms.items[i]
           IN  item.handle # 0 => Readers(item.handle) = IF item.locks > 0 THEN item.locks ELSE 0
    /\ platform = "far" => \A h \in GivenOut : Readers(h) = 1
    /\ ~IsDos /\ phase # "over" => \A i \in UsedItems : Readers(i) = 1
    /\ platform = "windows" => mapped.mapped = Cardinality(UsedItems)
    /\ ~IsDos /\ ~release => mapped.views = Cardinality(UsedItems)
    /\ phase = "over" => GivenOut = {} /\ UsedItems = {}

(* Each user's handle is its own for as long as it has it, unless a script *)
(* calls itself; and a slot is open only for a user, for what was decrypted*)
(* in place, or because a bitmap failed: the eight slots do not fill up    *)
(* otherwise (pa-open.c, with sld/context.c, sld/bitmap.c, snd/seq.c).     *)
HeldSlots == {stack[i].slot : i \in DOMAIN stack} \union {picture.slot, song}
SlotsMatchUsers ==
  /\ ~shared /\ ~spoilt =>
       /\ \A i \in DOMAIN stack : table[stack[i].slot].file = stack[i].file
       /\ picture # NoPicture => table[picture.slot].file = picture.file
       /\ song # NoSlot => table[song].file \in Songs
  /\ \A s \in Slots : \/ table[s].file = NoFile \/ table[s].rdwr
                      \/ s \in HeldSlots \/ s \in dropped

(* What has been decrypted in place is found again, decrypted, whoever has *)
(* opened, closed or loaded it in between, and the key is asked for once   *)
(* (pa-close.c, "Do not release modified assets").                         *)
DecryptedStays ==
  [][\A s \in Slots : table[s].file \in Sealed /\ table[s].ref \in plain
                        => table'[s] = table[s] /\ plain \subseteq plain']_vars

==============================================================================
