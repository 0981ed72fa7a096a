# Lavender in TLA+

[Lavender](../src/README.md) plays slideshows: a ZIP archive with scripts,
pictures and music, glued to an interpreter that runs on DOS, Windows and Linux.
Parts of an archive may be encrypted and are unlocked by a key, a passcode or a
remote server. LARD, its launcher, installs what the player misses and starts it.

The modules here model the parts of this program that keep state and have rules
about it, TLC checks them on small instances, and the TLA+ proof system proves
the main invariants for all instances.

## The system

| component (under `src/`) | state | operations | talks to |
|---|---|---|---|
| interpreter: `player/src/main.c`, `sld/runner.c`, `context.c`, `call.c`, `loader.c`, `jump.c`, `query.c`, `text.c`, `shape.c`, `play.c` | stack of contexts (script, offset, state, entry in work), accumulator | `sld_handle` called in a loop by `main` | all others |
| active areas: `sld/actarea.c` | 16 slots of rectangle and tag | define, remove, remove all, hit test | interpreter |
| mouse: `pal/shared/p-mouse.c` | enabled flag, position, buttons | enable, disable, get; events | interpreter, dialog, window |
| bitmaps: `sld/bitmap.c`, `bmp.c` | position in a picture read in chunks | start, read, complete | assets, graphics |
| asset table: `pal/_zip/pa-*.c` | 8 handles with flags and data or cache block | open, load, read, size, close | interpreter, bitmaps, sequencer, ZIP, caches |
| ZIP reader: `pal/_zip/zip.c` | file descriptor, central directory | search, load, cache, read, discard | asset table, caches |
| block caches: `pal/{dos,linux,windows}/p-cache.c`, `pal/dos/d-xm.c` | items with locks and ages; mapped views | cache, read, discard, evict | ZIP |
| sequencer: `snd/snd.c`, `seq.c`, `buf.c`, `midi.c`, `iff.c` | ring of two packets, pending event, clock | play; tick (timer); feed (main loop) | assets, devices, clock |
| sound devices: `snd/snd.c`, `drivers.c`, `d*.c`, `beepemu.c`, `pal/dos/d-driver.c` | registry of 4 devices, the loaded driver; registers, voices, time-outs | register, try, open, write, tick, close | sequencer |
| content unlock: `enc/enc.c`, `encui.c`, `provider/*.c` | key, dialog page, content decrypted in place | access, handle, save and load key | interpreter, key store |
| remote unlock: `enc/provider/remote/*` | request, response, pages | pages of the dialog, network messages | unlock, network |
| network: `net/curl.c`, `net/wininet.c` | connection, request | connect, request, close; callbacks | remote unlock |
| key store: `pal/*/p-state.c` | one file or value per key | load, save | unlock |
| clock: `pal/dos/p-time.c`, `pit.c` | 32-bit counter | get, sleep; interrupt | interpreter, sequencer |
| graphics: `gfx/*.c`; platforms: `pal/*/p-init.c`, `wndproc.c`; strings: `pal/utf8.c` | screen, window | drawing, events | interpreter |
| LARD: `ard/src/*.c` | dependencies, sources, installer in work | check, choose sources, install, run | - |

The player has one main thread. It calls `sld_handle`, which handles one step of
the script on top of the stack and returns. Concurrent with it run the timer
interrupt or timer thread that plays music, the callbacks of WinINet, and the
user, who presses keys, moves the mouse and closes the window between any two
steps. A library callback of curl runs on the same thread, inside the request.

What is hard, and where:

- *nesting*: a script calls others, also itself, waits and asks for keys in
  between, and a quit has to unwind all of it;
- *sharing*: one asset handle, one active-area table, one accumulator, one mouse
  flag, one ring buffer with several users who do not know of each other;
- *interleaving*: timer against main loop, WinINet against dialog, interrupt
  against the read of a 32-bit counter on a 16-bit machine;
- *failure in the middle*: short reads, failed allocations, errors inside
  callbacks, a wrong or abandoned key, an installer that fails, a crash between
  truncating and writing a key file;
- *limits*: 16 areas, 8 assets, 8 or 16 cache items, a ring of 4096 bytes,
  counters of 16 and 32 bits.

`PROJECT.json` lists each of these at its line, with the properties that cover
it or why none does yet.

What makes each component correct: the interpreter returns to where it called
from, runs no ciphertext, ends when told to, and does not stall; the area table
is the map the manual promises; an asset's data stays what its holder loaded
until the holder gives it up; a cache block in use is never evicted or refilled
by another's data; the sequencer's bytes arrive in order and once, however the
timer and the loop interleave; a wrong key leaves the content intact, and a
stored key is never a partial one; a response is used for the request it
answers; the launcher starts the application only with all dependencies met.

## Modules

### AreaTable, ActiveAreas

`AreaTable` holds the operators on `_areas` of `actarea.c`: `Candidates` and
`AddArea` are the scan of `_add_area` (the first slot that has the rectangle *or*
is free), `ClearAreas` the entry `A 0 0 0 0 0`, `Retrieve` the hit test, which
stops at the first rectangle over the point even if its tag is zero. `ActiveAreas`
puts the table under any sequence of area entries, next to two history
variables: `declared`, the map from rectangles to tags that `docs/slides.md`
promises the script's author, and `given`, all pairs since the last removal of
all areas. `holed` tells whether an area was removed by itself since then.

The state that matters is the used prefix: without single removals the used
slots precede the free ones and hold different rectangles (`UsedSlotsFirst`), and
that is why the scan finds an area before a free slot, why the table answers like
the map (`MapIsKept`) and why it is full only when it should be
(`RefusedOnlyWhenFull`). `HitWasGiven` holds even with holes: no tag of an earlier
page is ever answered. With holes the map is lost, which contradicts the manual;
run `areas_removal` shows how.

Positions are numbers: the alignment keywords (left, centre, right) are resolved
before the table is asked. The reserved coordinates of an area at the top left
with zero width and tag, which the code takes for "remove all", are `RemoveAll`.

### Slideshow

One action per step of `sld_handle`:

| action | code |
|---|---|
| `Close` | `pal_handle` answers false (`runner.c:130`) |
| `Leave` | `SLD_STATE_STOP`, `SLD_QUIT`: the context is popped, a quit handed over |
| `PressKey`, `PointAt` | `SLD_STATE_WAIT`: key; pointer, click, hover, unhover |
| `Load` | `SLD_STATE_LOAD` with `sld_load_entry`: end, error, delay, execute |
| `DelayElapsed` | `SLD_STATE_DELAY` |
| `ExecuteNothing` ... `ExecuteJumpIfEqual` | `_execute_entry`, one action per kind |
| `PrepareCall`, `DecodeCall`, `EnterCall` | the three states of a call entry (`call.c`) |
| `Flounder` | a nested context in an error state executes the entry its message overwrote |
| `Finish`, `Finished` | `main` after its loop |

A script is a sequence of entries; `offset` counts those consumed. `program` is
the archive, chosen from `Programs` in the initial state. `frames` is the stack,
`frames[depth]` is `__sld_ctx`. `unlocked` holds the scripts that some asset holds
in plain text: decryption happens in place, and a decrypted asset is never
released, so that a later call may find it; it may also get a second, encrypted
copy (`pa-open.c` stops at the first free slot), so `PrepareCall` allows both for
a sealed script (`Copies`), and a frame says with `plain` which one it has.
`DecodeCall` is a call of `enc_handle` that answers something else than CONTINUE:
success, no access, or an error.

A script that is called without a method is entered as it is, without any check
(`AfterPrepare`, `call.c:61-65`). If it is encrypted its ciphertext is taken for
lines, as which it reads as the constant `Noise`: any entries, of which it is only
assumed that they do not call a file of the archive (`NoiseAssumption`).
`OnlyPlainTextRuns` speaks therefore of the calls with a method; that a call
without one names a plain script is left to the author of the archive.

A step that changes none of this (a wait without input, a scaling key, a chunk
of a bitmap, a dialog still open) is a stuttering step. An output entry succeeds
or fails. The quit of a window is possible before every step, as in the code.

`MCSlideshow` gives `Programs`: every root script of up to two entries out of
fourteen, or three out of the seven that steer control, with five nested scripts
(a plain wait, an unlock in a nested script, an error, recursion, a jump without
label) and two encrypted ones, called with their method and without, and five longer shows: a menu with hovers and clicks, a
detour across a malformed line, a retry of an unlock, a loop that never rests,
and one with too many areas.

### Sequencer

Music is played by two actors. `sndseq_step`, called by `snd_tick`, takes events
that are due out of the ring; `sndseq_feed`, called by `snd_handle`, fills the half
that is not being read. On Windows the ticks come from a timer thread
(`dmme.c`), elsewhere `snd_handle` does a tick and then a feed. The variable `timer`
is chosen in the initial state, so that one model covers both builds; `tick` and
`loop` say where each actor is.

| actions | code |
|---|---|
| `PlayMissing`, `PlayOpen`, `StartFails`, `StartOutOfMemory`, `Start`, `PlayOn` | `snd_play`: `sndseq_open`, `sndseq_start` |
| `Handle`, `Tick`, `Stop` | `snd_handle`, `snd_tick` |
| `StepGone`, `StepEnd`, `StepWait`, `StepDue` | the returns of `sndseq_step` and the write of the pending event |
| `ReadByte`, `Request`, `UnderrunInDelta` | `sndbuf_read`, `request_packet`, seen from `midi_read_event` |
| `EventNow`, `EventLater`, `EventFails` | the loop over events without delta, and what ends it |
| `FeedNothing` ... `FeedFails` | `sndseq_feed`, cut where it looks at the position again |
| `ReadFreed`, `FeedFreed` | use of memory that has been freed; the behaviour ends there |

A position is a pair of whole packets and an offset, because the code only ever
divides it by the size of a packet. Bytes are not modelled, only which packet of
which song each half of the ring holds. `ReadByte` and `Request` are two steps, as
the position moves before the request is made: a feeder that looks in between
answers the late request with the packet after the one that was asked for, and
the player takes old bytes without noticing. The history variable `skew` marks
this race, an underrun that went unnoticed, and a song that was started over a playing timer;
`ReadsInOrder` and `HalvesApart` hold whenever it is empty, which without a timer
is always the case unless an underrun hit a delta time. `cut` records which songs
were broken off and why, `entry` where the current step began.

Of the chunks of the file only this matters: there is a track or there is none
(`Start`, `StartFails`). An event is a number of bytes of its delta time and of its
body, chosen freely; one that runs over the end of the track takes one more byte
of each. The wrap of the 32-bit position is out of reach of any file.

### Assets, XmsCache, MappedCache

`Assets` puts the eight handles of `pal/_zip/pa-*.c` under all who use them at
once: the contexts of scripts, which load, the bitmap in work and the song, which
read, and before them the window's icon or a driver. A state of the functions
below (the table, the archive's descriptor, the heap and the cache) is a record;
`Opened`, `Closed`, `Loads` and `Reads` take it to the outcomes of
`pal_open_asset` and so on, and an action composes what one call of the player
does to it.

| action | code |
|---|---|
| `LoadIcon`, `ExtractDriverFails` | `pal_initialize` of Windows; `pal_extract_asset` for a driver |
| `Main`, `Call`, `Leave` | `sld_create_context`, `sld_close_context` |
| `Unlock` | decryption in place; how a key is found is in `Unlock` |
| `StartPicture`, `DrawChunk`, `Complete` | `sld/bitmap.c` over `bmp.c`; `FindBestBitmap` is the enumeration of choices |
| `Play`, `PlayMissing`, `Feed`, `EndSong` | the asset of `seq.c` |
| `Quit`, `Cleanup` | the window is closed; `pal_cleanup` |

`XmsCache` is `pal/dos/p-cache.c` over `d-xm.c` (items with locks and ages,
eviction, a driver that runs out of memory or handles) and its fallback to far
memory; `MappedCache` has the views of Linux and Windows. Both are libraries of
operators on a record, and `platform` says which one is in use. Files are stored
and well-formed, so that of a file's bytes it only matters whose they are; how
they are parsed is not modelled.

The caches of DOS fail in ways that nobody is told of, and these are outcomes of
the model:

- `(length + 1023) / 1024` overflows for what takes 64 KB, and no memory is asked
  for (`Asked`, `p-cache.c:203`); the stores are then refused by the driver, and
  their answers not looked at, so that the block counts as loaded (`LoadData`);
- a read that passes the end of its block is refused by the driver and counts as
  read, with nothing copied (`Uncopied`, `p-cache.c:343`): `OverreadFiles` are the
  songs shorter than the 4096 bytes that `seq.c:131` reads at first;
- in far memory the first store has up to 512 bytes and a small block has fewer,
  and near 64 KB the paragraphs overflow as the kilobytes do: what is stored of
  `SpillingFiles` passes the end of its block, and may lie over the beginning of
  another one (`StoreFar`, `p-cache.c:212`, `:260-265`).

A kilobyte stands for paragraphs in far memory. What spills over memory that is
not the cache's, such as the control blocks of the heap, is not followed, and
neither are reads past the end of a mapped view. On Windows the archive stays
mapped when its descriptor has been closed, and is found again by the descriptor's
number: the answer to a request is then a view of the archive's beginning
(`StillMapped`).

Three history variables say where the promises end. `shared`: a script called
itself, and two contexts hold one slot without a count. `spoilt`: a block was not
filled or was overrun and stays in use all the same (`p-cache.c:323`, `:263`, and
the cases above), the header of a file could not be read, or a loaded
buffer was read as if it were a handle (`pa-read.c:34`). `dropped`: a bitmap
failed, and its slot stays open. Up to these a reader gets the bytes of its own
file, or none where it reads too far, whatever was evicted in between
(`ReadsOwnBytes`), every block's uses are
counted (`UsesAreCounted`), each user keeps its slot (`SlotsMatchUsers`), and
without any of these exceptions what is decrypted in place stays
(`DecryptedStays`). What `spoilt` marks is what the code gets wrong: the model has
these cases, and no property forbids them.

### UnlockPromise, Unlock, RemoteUnlock

`UnlockPromise` is the abstract specification of a protected call: a key is tried,
only the script's own key opens it, only what is open runs, and what is kept for
the next time is the key of something that was opened. `Unlock` is the code:

| actions | code |
|---|---|
| `Prepare`, `Enter`, `Return`, `Refuse`, `Fail` | `call.c` around `enc_handle`; `Fail` ends in the error state of the caller |
| `UseStoredKey`, `NoStoredKey` with `CallerInitialize`, `PromptInitialize`, `SplitInitialize`, `DiskIdInitialize` | `ENCS_INITIALIZE` of `enc.c` and each provider's `ENCM_INITIALIZE` |
| `Verify` | `ENCS_VERIFY`, with the key that the call brings |
| `EnterDsn`, `BackToDsn`, `EnterPasscode`, `Cancel` | the pages of `encui.c` and the providers |
| `Saved`, `LoadedKey` | `pal_save_state`, `pal_load_state` of Linux (a file, truncated and then written) and Windows (a value of the registry) |

`RemoteUnlock` extends it by the provider that exchanges codes: the pages
(`EnterAccessCode`, `SelectMethod`, `Back`, `EnterConfirmation`, `EnterAnswer`),
the notifications of the online page (`StartNet`, `ConnectCurl`, `ConnectWininet`),
the request of libcurl, which is answered within one call (`CurlAnswers` and its
failures), and of WinInet, whose callbacks run on threads of their own (below), while the
user may leave the page, change the request and start another. `Stop` and
`StopWhileSaving` are the crashes: memory is lost, the key store stays, also
half written. `CurlDies` and `CallbackDies` are where the code calls or parses a
null pointer; the next state is that of a program started again.

Nothing in `inet.c` or `wininet.c` waits for a callback or keeps it apart from the
dialog by a lock. There are therefore several `Callbacks`, one for each request
that was sent, and each has a `stage`, between any two of which everything else
may happen:

| stage | next in `inet_callback` and `_verify_inet_proc` |
|---|---|
| `pending`, `again` | the completion arrives: `CallbackCancelled`, `CallbackFails`, `CallbackQueries` |
| `response`, `rest` | `NETM_RESPONSE` allocates the response: `CallbackResponse` |
| `reading` | `InternetReadFile` and the check of `NETM_RECEIVED`: `CallbackCannotRead`, `CallbackReceives`, `CallbackEnds` |
| `copying` | the copy of `NETM_RECEIVED`: `CallbackCopies` |
| `ended`, `parsed` | `NETM_COMPLETE`, up to where the answer is parsed and from there: `CallbackParses`, `CallbackDies`, `CallbackCompletes` |
| `closing` | the handles are closed: `CallbackCloses` |

`left` counts the pieces a callback has to read, and `own` says whether it runs for
the attempt that stands: leaving the online page to where a method is chosen
(`Cleanup`, `encr_inet_cleanup`) takes that away, and the callback goes on with the
variables of the client as it finds them, which may be the next attempt's. A piece
that is still to come (`ERROR_IO_PENDING` on the asynchronous session) counts as a
failure, and the completion that follows takes the rest for the whole (`again`,
`rest`). Reading a piece and checking its size are one step, since what lies
between them is local to the callback.

The history variable `stray` is set where a callback touches what is a later
attempt's (`Strays`), where one is about to close while a connection is made, and
where a cleaning up may fall into a handler that works on the response. From
there on memory may have been freed twice or be used after that: the program stops
(`Stop` is always possible) or goes on with anything in its response (`Parsed`).
What holds through all of it is `KeepsPromise`, the types, and that no attempt
leaves a connection to the next. Until it happens, also with callbacks of earlier
attempts still running in any order, an answer is for the request that stands
(`OwnAnswer`), there is one response at most, freed once (`NothingLeftOver`), and
the page does not work for ever (`InetSettles`). That the code lets it happen is
its own defect; no property claims otherwise.

A key is a pair of parts, so that a split key, a product key of two numbers and
the halves of a TDES key look alike; decoding a text gives the key it was made
from, with the request it was made for and no other. The ciphers are functions:
another key gives noise. `Unlock` implements `UnlockPromise` by the mapping

| abstract | of the code |
|---|---|
| `opened` | scripts of the archive whose text is plain in memory |
| `runs` | the called script, while it runs |
| `offered` | `enc->key` |
| `kept` | scripts whose entry of the key store is their whole key |

and this is what `DecodeCall` of `Slideshow` assumes: `enc_handle` answers
success only for a script that is plain.

Assumed of libraries: the wizard calls a page's Next for well-formed input only,
and forgets a notification when its page is left; WinInet's request is always
pending first, and the network libraries give up in the end.

### LardSystem, LardConfig, Lard

`LardSystem` is `ard/src/version`, what the launcher finds out about a machine
(Windows, service pack, processor, files' versions, Internet Explorer), with the
packing of versions into words that the code compares. `LardConfig` is
`config.c` and `deps.c`: what `lard.ini` says, globally and for a locale, the
tables of dependencies and sources, and the choice of a source for each library
that is missing, with its counters. `Lard` is the program:

| actions | code |
|---|---|
| `LoadFails`, `Load` | `ardc_load` |
| `DieOfSystem`, `DieOfDependencies`, `Run`, `Select` | the checks of `WinMain` in their order, and what each leads to |
| `ClickInstall`, `ClickLaunch`, `CloseWindow`, `OtherMessage` | `action/select.c`, each followed by `arda_instredist_handle` |
| `InstallerSucceeds`, `InstallerFails`, `BoxClosed` | `action/instredist.c` |
| `Exit` | `WM_QUIT` and the cleaning up |

`RunsOnlyWhenMet` compares part by part what the code compares in packed words.
`InstallsInOrder` relates the list, the installer that runs and what this
attempt has installed, through clicks, failures and the message box behind
which the window goes on.

### SoundDevices with SoundEvents, Mpu401, Opl2, Beep, Mme, Fluid

`SoundDevices` is the registry of `snd.c`: `SkipDriver`, `StrandDriver`,
`LoadDriver`, `DropDriver` and `KeepDriver` load the drivers of DOS one after the
other until a device of theirs opens; one that has no `drv_init` (`broken`) is
passed by and stays in memory (`StrandDriver`, `d-driver.c:29-33`). `LoadInbox`
registers what is built in, `PassBy` and `TryOpen` are `_try_open`, `Write`, `Tick`
and `Cleanup` what the sequencer and the end of the program do with the open device. Each driver is a module of its own with its
state and `Open`, `Write`, `Close`: `Mpu401` gives the port up at the first
missed deadline; `Opl2` has a voice for each channel and the drums' register;
`Beep` sweeps over the voices and picks the one to sound a sweep ahead; `Mme`
takes a port, a period and a timer of Windows; `Fluid` builds its objects one by
one and passes everything on to the speaker's emulation if there is one.
`SoundEvents` says what the drivers tell of a message.

Left out are patches, levels and the sound itself. A deadline is met or missed
and a sweep happens by chance; a message to `Mme` leaves no state; closing a
handle of Windows a second time is an error without effect.

## Runs

| run | bounds | shows |
|---|---|---|
| `areas` | 3 slots, 4 overlapping rectangles, 4x4 points, 2 tags; all entry sequences (no bound on their length) | the table against its promise |
| `slideshow` | archives above, 2 slots, 3 rectangles, 2 keys, depth 3 | the interpreter's invariants, action properties, and liveness |
| `sequencer` | 2 songs, packets of 2 bytes, tracks of 1, 4 and 7 bytes; any number of failing starts | bytes in order, songs that end and only at their end, with and without a timer |
| `assets` | 3 scripts, 3 pictures, a song and an icon; 3 slots, 2 buffers, 2 blocks in 3 KB, contexts 3 deep; one picture is short at the end of the archive, one has 64 KB that overflow and stores that spill, the song is read past its end; XMS, far memory, Linux in release and Windows in debug builds | who holds which slot, block and buffer, with reads and allocations that fail |
| `unlock` | 9 scripts, one for each source of a key, in 6 archives; 3 platforms; keys of two parts, requests in 2 seconds, answers in at most 2 pieces, 2 callbacks at once, codes made of one key, 3 lists of drives; any number of attempts, crashes and restarts | the unlock implements its promise; the online exchange leaves no connection over and, until a callback meets with what is not its own, mixes nothing up and settles |
| `lard` | 8 machines, 8 configurations | what the launcher offers, installs and starts |
| `devices` | 5 builds, one with a broken driver, 4 names on the command line, 5 notes of which at most 4 are held, 5 ports of Windows for 4 slots | what did not open leaves nothing behind (but for a driver without `drv_init`), released keys fall silent, the speaker sounds only what was held |
| `areas_removal`, `slideshow_unhover`, `slideshow_label`, `slideshow_nested`, `sequencer_underrun` | smaller or the same instances | five places where the code does not do what the manual, its messages or its comments say |

Why the bounds are enough: a hole, a duplicate behind it and a shadow need three
slots; four rectangles fill them and are refused; sixteen slots add nothing but
symmetry, and the theorems hold for any number. A depth of three has a caller
that is itself called; a fourth context is refused for lack of memory, which is
the failing branch of `sld_create_context`. Three steering entries make every
loop, jump and call pattern of one script, and the longer shows add the ones
that take more.

A track of seven bytes fills each half of the ring twice, one of four ends with a
whole packet, where the last request has an empty answer, one of a single byte
ends in the first packet. A packet of two bytes has an inside and a border. A second song
finds the flags, the event and the freed memory of the first.

In `assets` three slots are one too few for a script, its caller, a picture and a
song, two buffers too few for three scripts, two blocks for three readers, and
3 KB hold two files only if one is small, so that eviction has to choose. A pattern finds
two pictures, so that one is opened before the other is closed. Once a block in
extended memory was not filled, the run does not go on (`Followed`): nothing is
promised of it any more, except for what the other three builds check
without this bound. Two
locks and ages show what counting does. In `unlock` two scripts share the
checksum under which a key is kept but not the key, one call brings a wrong
key, one has a parameter that means nothing; two seconds tell an old request from the
new one, two pieces are the first number at which libcurl's length is wrong. Two
callbacks are an earlier attempt's and the one that stands, the least with which
they meet; a request waits while both run. Followed are (`Followed` of `MCUnlock`)
the exchange over WinInet with one state of the key store only, which it has
nothing to do with, and once a callback has strayed, the attempt that it met as long as its
page is shown. The proofs have neither bound. The run has about 316,000 states
and takes two minutes, most of them for liveness. In
`lard` each check is met on some machine and fails on another, with versions
that differ in each part; two libraries share a source, one source is unknown
and one is unknown only as a second. In `devices` two notes share a channel and
two a key, one is a drum and one is too low for the speaker.

Fairness: in `Slideshow`, `FairSpec` is weak fairness of `Step`, what the program does by itself,
because `main` calls `sld_handle` in a loop and every such call that finds its
state ready acts. Nothing is assumed of the user (keys, pointer, closing, the
unlock dialog): `ShowProgresses` says that the show waits for somebody or
loops in its own script, and `QuitEnds` needs the user only once. A delay is
assumed to end, that is, the clock to run. In `Sequencer` the timer's ticks, the
clock and what the main loop has begun are weakly fair; `snd_handle` is strongly
fair, since the loop calls it in every round, however many songs it fails to
start in between. Starting a song is never assumed. In `RemoteUnlock` the
notifications of the online page are delivered (weak fairness of `NetNext`), as
the wizard's message loop does, and WinInet gives up in the end (of
`CallbackNext`), as its time-outs make it; nothing is assumed of the user.
`InetSettles` has the one exception that the code has: libcurl gives no handle
(`curl.c:112`), and nobody is told. `Assets`, `Lard` and `SoundDevices` state
safety only.

Deadlock is checked in `slideshow`: before the program has ended some step is
always possible. `areas` ends when an area is refused, as the script does,
`sequencer` when the last song is over, `assets` and `devices` after the cleaning
up, `unlock` when a call failed for want of memory and nobody stops the program,
`lard` when the launcher has exited, or waits for a message that never comes
(see below).

## Proofs

The proof modules extend the modelled ones and prove, for all values of the
constants that satisfy the named assumptions:

- `ActiveAreasProofs`: all five properties of run `areas`. The inductive invariant
  adds to the type that every slot in use holds a pair of `given`
  (`SlotsWereGiven`), and that without holes a slot's tag is what was declared for
  its rectangle and each live rectangle has a slot (`TableIsDeclared`); with the
  used prefix this yields the map. `AreaTableProofs` has the lemmas on the scan
  (which slot `AddArea` changes), on clearing and on the hit test.
  `RefusedOnlyWhenFull` counts: a full table maps its slots one to one to live
  rectangles.
- `SlideshowProofs`: type correctness, `CallersWaitAtTheirCall`,
  `OnlyPlainTextRuns`, `WaitingShowsPointer`, `EndsAtRoot`, and the action
  properties `CallerKeepsItsPlace` and `QuitOnlyUnwinds`. The inductive invariant
  adds what each state of the top context says of its entry: that an executing
  context stands behind an entry, that a call ready to enter has its script
  verified, if it has a method, and room on the stack. Most actions change only the
  top frame, which the lemmas `TopStep` and `StateStep` settle once.

- `SequencerProofs`: all safety properties of run `sequencer` for any size of a
  packet, any lengths and any number of songs. The heart is `RingInOrder`: relative
  to the packet in which the last request was due (`Asking`, one behind the player
  between `ReadByte` and `Request`), an answered request means that the next half
  holds the next packet, and what the feeder has in hand is that very packet and
  half. `TurnsAlternate` says that without a timer a step begins with nothing asked
  for; `EventIsNext` that the pending event was read at the position the player
  still has; `EndsInOrder` that a song without a buffer has ended or was broken
  off. None of the properties is inductive without them.

- `AssetsProofs`: all five properties of run `assets`, for any archive, any number of
  slots and buffers, any platform and any size of its cache. There are two
  invariants. `AInv` is about the slots and their users and gives `SlotsMatchUsers`
  and `DecryptedStays`. Of the caches it uses only that they leave the table
  alone. The lemmas say of each function which slots it touches (`Keeps`,
  `OnlyAt`), in particular that none touches a slot that is writable and
  loaded; they compose, as the calls do. `AInv` adds that a sealed script is only
  ever open for writing, that contexts have slots of their own, loaded and not
  read as blocks, and that kinds of files tell the users' slots apart.
  `CInv` is about the caches and gives the types, `ReadsOwnBytes` and
  `UsesAreCounted`. It says what an entry of the table looks like (`EntryOK`: one that
  is marked as cached has a handle exactly while it has a file) and, for the
  readers in the table, what the cache that was built holds (`Counts`): in
  extended memory (`Remembered`) every item has a block of its own, filled with its
  file and locked once for each reader, every block that is given out has an item,
  and every reader an item of its file; in conventional memory (`FarHeld`) every
  reader has a block for itself and every block a reader; of the views (`MapHeld`)
  likewise, and there are as many views and uses of the mapping as items. None of
  the properties is inductive without the rest: that readers get their bytes needs
  that only blocks without locks are evicted, and with it that locks count the
  readers. A caching call passes through states in which a block is not filled
  yet, or has no item yet, which `Remembered` names. The search for a bitmap and
  the cleaning up are recursive functions, about which induction goes by the
  least number for which they fail (`SearchIsGood`, `SearchStays`, `CleanedUpIs`).
- `UnlockProofs`: that the unlock implements `UnlockPromise` (`UnlockKeepsPromise`:
  the initial states map to initial states, each kind of step to a step of the
  promise or to a stutter), `RunsWhole` and `KeptKeyIsNotAsked`, for all scripts, keys,
  drives, stamps and answers, under both clients. The invariant `IInv` adds to the
  types that a padded text that is plain has its size behind it (`PlainIsSized`;
  otherwise it would be taken for a sealed one and deciphered again), and where a
  call is by what has become of its text (`CallInOrder`).
  Of `RemoteUnlock` the same module proves `OwnAnswer` and `NothingLeftOver`, for all
  scripts, services, numbers of pieces and numbers of callbacks, under both clients.
  The invariant `NetInv` says whose request is under way on which page (`OwnRequest`:
  where a method is chosen none, and no callback counts as the attempt's own; on the
  online page none or the page's own), that the page starts unconnected and that every
  callback is an earlier attempt's until its request is sent (`InTurn`), that at most
  one is not (`OneRuns`), and, unless a callback has strayed, that a response exists only
  while the attempt's own callback works on a request that is still open
  (`OneResponse`) and that this request is there when its headers have been read
  (`Headed`). A callback that is the attempt's own ends what it has begun; one that is
  not either leaves everything alone or strays. Connections need no exception: the
  cleaning up before a method is chosen closes them, and only the online page opens
  them.
  `RemoteTypeOK` is proved apart.
- `LardProofs`: `InstallsInOrder`, `RunsOnlyWhenMet` and `OffersWhatIsMissing`, for all
  machines and configurations. The first adds that nothing has been begun before the
  window is there and that no installer runs under the box about a failure
  (`OneAtATime`). The second rests on lemmas on the words in which versions are
  compared: swapping and packing them keeps the order of their parts. The third
  adds that the sources come from the configuration and that no window shows
  before the check (`SourcesLoaded`, `NoWindowYet`), and follows the counting
  of what is missing, a recursive function, by its least counterexample.
- `SoundDevicesProofs`: `NothingLeftBehind`, `ReleasedKeysFallSilent` and `ToneWasHeld`,
  for any drivers, devices and events. The invariant `IInv` adds to the types that the
  registry's list and what is loaded, but for broken drivers, go together
  (`RegistryInStep`), that only the
  device that is open holds anything (`OnlyOpenIsHeld`), that what each synthesizer
  sounds is what the keys that are pressed want of it (`SoundIsHeld`), and that a
  divisor in the speaker belongs to a voice of the last sweep (`DivisorsAreRecent`).

Assumptions on constants (`ASSUME` in the modules, evaluated by TLC): tags are
16-bit and not zero, rectangles and points are natural, at least one slot, the
root script is not encrypted (`main` opens it without the unlock module), area
and call entries have the arguments their loader gives them, keystrokes are
16-bit codes other than zero, ciphertext that is taken for a script holds no call of
a file of the archive, a packet has at least one byte; in `Assets` the
kinds of files are disjoint, a pattern finds a picture once, locks are counted beyond
the number of slots and scripts nest at least once (the root is a context); in `Unlock`
scripts have the parameters that a call can have; in `Lard` the first two parts of a
version are bytes (what is larger is cut, see below) and `lard.ini` has one service pack per
version of Windows, as keys of a section are unique.

Only model-checked: liveness (`QuitEnds`, `ShowProgresses`, `SongEnds`,
`InetSettles`), which is out of the prover's reach. Every invariant and every
action property that a run checks has its theorem.

## Where the code differs from what is said of it

- `areas_removal`: setting a tag to zero removes an area only if no free slot
  precedes it, and a removed slot still hides areas behind it
  (`actarea.c:35`, `slides.md:66`).
- `slideshow_unhover`: a wait over nothing ends with 10000 whenever the
  accumulator is greater than 10000, whatever put it there
  (`runner.c:190`, `slides.md:65`).
- `slideshow_label`: a jump to a missing label ends the script silently
  (`runner.c:280`, message composed at `runner.c:96`).
- `slideshow_nested`: an error in a called script keeps the program running for
  ever on that script (`runner.c:146`, reporting code at `main.c:36`).
- `sequencer_underrun`: an underrun inside a delta time is not noticed, because
  `midi_read_vlq` answers zero where `midi_read_event` expects a negative number
  (`midi.c:41`, message at `buf.c:17`).

Found on the way, and bounded by properties instead of runs of their own: the
request made after the move (`buf.c:38`, see `skew`), the last event of a song that
only the next song plays (`seq.c:151`, `OldEventIsLast`), and a feed after the tick
that closed the song (`snd.c:205`, `EndedSongIsNotFed`).

Seen while modelling, and not a matter of any property here:

- Unlock: `split.c:61` returns before its page is set up for the XOR cipher.
  `slides.md:133` documents the remote delivery for DES, `call.c` maps it for TDES
  only, and the source is then the caller with no data. `remote.c:302` words an
  error by the status of a response that may be older.
- Network: `curl.c:156` passes on the bytes downloaded so far as the content
  length, so that an answer in two pieces is too long, the client is closed inside its callback
  and a null handler called. `curl.c:112` returns false silently, although
  `inet.c:307` says that errors are handled in `_verify_inet_proc`. `inet.c:180` to
  `197` points a label at a text that has been freed.
- LARD: `deps.c:111` counts at the index -1 when the first source of a missing
  library is unknown. `winmain.c:43`: after the refused offer to run under DOS,
  or when the window cannot be created, the process waits for messages for ever.
  `select.c:380` compares the installation's answer with zero, which it never is,
  so that the application is not run after it. `instredist.c:80` returns minus the
  exit code, so that codes of 2^31 and above do not end the launcher. Parts of
  versions above 255 compare as 255.
- Sound: the programs that `mpu401_open` sets are dropped, as the device is not
  good yet (`dmpu401.c:144`). A program change for the drums' channel of the OPL2 lands
  outside of the tables (`dopl2.c:337`), keys below 19 sound an octave too
  high (`dopl2.c:86`), and releasing a key silences a newer one of its channel. A
  failing `fluid_open` leaves the settings and SDL's audio. The speaker's
  emulation of Linux is not stopped if the registry's own device is closed.
  `dmme.c` never clears its variables.
- Start-up: the file of a driver that fails is not removed (`d-driver.c:30`); `p-init.c`
  of DOS goes on after `gfx_initialize` has failed.

What the models have, but no property forbids, since it is what the code does; the
properties named except it, mostly by a history variable:

| the code | in the model | excepted by |
|---|---|---|
| runs ciphertext that is called without a method (`call.c:61`) | `AfterPrepare` | `OnlyPlainTextRuns` |
| reads a loaded buffer as a handle (`pa-read.c:34`) | `Reads` | `spoilt` |
| keeps the item of a block that was not filled and freed (`dos/p-cache.c:323`) | `LoadData`, `LoadFar` | `spoilt` |
| takes a short read for a success (`dos/p-cache.c:263`) | `ShortFiles` | `spoilt` |
| allocates too little for sizes near 64 KB, and small blocks in far memory (`dos/p-cache.c:203`, `:212`) | `Asked`, `StoreFar` | `spoilt` |
| ignores that nothing was copied (`dos/p-cache.c:343`) | `Uncopied` | `ReadsOwnBytes` |
| releases no mapping in a release build (`linux/p-cache.c:66`) | `release` | `UsesAreCounted` |
| lets callbacks of earlier attempts work on the handles and the response of the next (`wininet.c:174`) | `Strays`, `Cleanup` | `stray` |
| closes the client inside its own callback (`curl.c:220`) | `CurlDies` | the program dies |
| counts at index -1 where the first source is unknown (`deps.c:111`) | `Changed` of `LardConfig` | `FirstSourcesKnown` |
| leaves a driver without `drv_init` in memory (`d-driver.c:29`) | `StrandDriver` | `Kept` |

## What is left

The components that keep state have a module. What could be added:

1. An abstract player of a track's bytes in order, which `Sequencer` implements
   while `skew` is empty, and one interpreter of nested scripts for `Slideshow`.
2. The counter of the clock, torn and wrapping, under `DelayElapsed` and the
   sequencer's time. The models allow a delay to end at any time, which is
   what a wrong counter does to them.
3. Pure algorithms against reference definitions: colour search, key formats,
   variable-length quantities, the records of a ZIP archive.

## Not modelled

Drawing, fonts, a patch's registers and the DES computation have no protocol that
a model could say more about than the code. The parsing of lines, ZIP headers,
JSON and MIDI is abstracted to its results. Strings and their conversion are
names. The start-up of the platforms is a sequence of calls of the operating
system, of which `SoundDevices` has the drivers' part. Build files and tools do
nothing at run time.
