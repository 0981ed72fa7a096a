---------------------------- MODULE SoundDevices ----------------------------
(***************************************************************************)
(* The registry of sound devices (snd/snd.c, drivers.c), the drivers that  *)
(* DOS loads from the archive (pal/dos/d-driver.c), and the devices' own   *)
(* modules under them.  snd_initialize() loads the drivers one by one      *)
(* until a device of theirs opens, and after them those that are built in; *)
(* the device that is asked for by name is the only one tried.  The song's *)
(* events and the ticks then go to the open device until snd_cleanup().    *)
(***************************************************************************)
EXTENDS SoundEvents, Sequences, FiniteSets, SequencesExt, FiniteSetsExt

CONSTANTS
  Builds,         \* what is built: the names of the drivers in the archive,
                  \* in its order, those of them without a drv_init, the
                  \* devices built in, and the platform
  Arguments,      \* names given on the command line, or None
  Ports,          \* the devices of Windows among the names
  MaxHeld,        \* bound: how often notes are pressed and not released
  None

MAX_DEVICES == 4
Slots == 1 .. MAX_DEVICES

(* Every driver has one device and goes by its name; it is built in or in  *)
(* the archive (add_sound_driver() of CMakeLists.txt).                     *)
Names == {"mpu", "opl", "beep", "fluid"} \union Ports

ASSUME BuildsAssumption ==
  \A b \in Builds :
    /\ b.platform \in {"dos", "linux", "windows"}
    /\ b.drivers \in Seq(Names) /\ b.inbox \in Seq(Names)
    /\ b.broken \subseteq ToSet(b.drivers)
    /\ ToSet(b.drivers) \intersect ToSet(b.inbox) = {}
ASSUME NoneAssumption == None \notin Names /\ None \notin Slots
ASSUME NotesAssumption == Notes \subseteq Channels \X (0 .. 127)
ASSUME HeldAssumption == MaxHeld \in Nat

VARIABLES
  build, argument,    \* what is fixed: the build, and the name asked for
  stage,              \* where pal_initialize() or what follows it is
  todo,               \* the drivers that have not been tried
  slots,              \* _devices: names, or None
  device,             \* _device: a slot, or None
  module, driver,     \* the driver being tried, and _driver, or None
  next,               \* the slot that _try_open() is called for
  loaded,             \* external: the drivers in memory
  held,               \* history: how often each note is pressed, not released
  good, sounding,                                   \* Mpu401
  pitch, drums, rhythm,                             \* Opl2
  open, keys, divs, voice, tone, recent,            \* Beep
  out, period, timer, ports, periods, timers,       \* Mme
  objects, beeps                                    \* Fluid

Mpu == INSTANCE Mpu401
Opl == INSTANCE Opl2
Speaker == INSTANCE Beep
Winmm == INSTANCE Mme
Synth == INSTANCE Fluid

given == <<build, argument>>
registry == <<stage, todo, slots, device, module, driver, next, loaded>>
mpu == <<good, sounding>>
opl == <<pitch, drums, rhythm>>
speaker == <<open, keys, divs, voice, tone, recent>>
winmm == <<out, period, timer, ports, periods, timers>>
synth == <<objects, beeps>>
devices == <<mpu, opl, speaker, winmm, synth>>
vars == <<given, registry, held, devices>>

Init ==
  /\ build \in Builds /\ argument \in Arguments
  /\ stage = "drivers" /\ todo = build.drivers
  /\ slots = [i \in Slots |-> None] /\ device = None
  /\ module = None /\ driver = None /\ next = 1 /\ loaded = {}
  /\ held = [n \in Notes |-> 0]
  /\ Mpu!Init /\ Opl!Init /\ Speaker!Init /\ Winmm!Init /\ Synth!Init

------------------------------------------------------------------------------
(* One device's operation, by its driver.  FluidSynth passes each on to    *)
(* the speaker's device, if it has it, and stops the speaker when closed.  *)
HasSpeaker(name) == name = "beep" \/ (name = "fluid" /\ beeps)

OpenDevice(name, opened) ==
  /\ IF name = "mpu" THEN Mpu!Open(opened) ELSE UNCHANGED mpu
  /\ IF name = "opl" THEN Opl!Open(opened) ELSE UNCHANGED opl
  /\ IF name \in Ports THEN Winmm!Open(name, opened) ELSE UNCHANGED winmm
  /\ IF name = "fluid" THEN Synth!Open(opened) ELSE UNCHANGED synth
  /\ IF opened /\ HasSpeaker(name) THEN Speaker!Open(name = "beep" \/ beeps')
     ELSE UNCHANGED speaker

WriteDevice(name, event) ==
  /\ IF name = "mpu" THEN Mpu!Write(event) ELSE UNCHANGED mpu
  /\ IF name = "opl" THEN Opl!Write(event) ELSE UNCHANGED opl
  /\ IF HasSpeaker(name) THEN Speaker!Write(event) ELSE UNCHANGED speaker
  /\ UNCHANGED <<winmm, synth>>

CloseDevice(name) ==
  /\ IF name = "mpu" THEN Mpu!Close ELSE UNCHANGED mpu
  /\ IF name = "opl" THEN Opl!Close ELSE UNCHANGED opl
  /\ IF name \in Ports THEN Winmm!Close ELSE UNCHANGED winmm
  /\ IF name = "fluid" THEN Synth!Close ELSE UNCHANGED synth
  /\ IF HasSpeaker(name) THEN Speaker!Close(build.platform = "dos" \/ name = "fluid")
     ELSE UNCHANGED speaker

------------------------------------------------------------------------------
(* snd_register_device() and snd_unregister_devices().                     *)
FreeSlots(table) == {i \in Slots : table[i] = None}
Register(table, name) ==
  IF FreeSlots(table) = {} THEN table ELSE [table EXCEPT ![Min(FreeSlots(table))] = name]
Unregister(table, name) == [i \in Slots |-> IF table[i] = name THEN None ELSE table[i]]

RegisterAll(table, names) ==
  LET after[n \in 0 .. Len(names)] ==
        IF n = 0 THEN table ELSE Register(after[n - 1], names[n])
  IN  after[Len(names)]

(* dos_load_driver() for the next file; extracting or loading it may fail, *)
(* and so may its drv_init(), after which it is freed again.               *)
SkipDriver ==
  /\ stage = "drivers" /\ todo # <<>>
  /\ todo' = Tail(todo)
  /\ UNCHANGED <<given, stage, slots, device, module, driver, next, loaded, held, devices>>

(* A driver without a drv_init is passed by, and stays in memory.          *)
StrandDriver ==
  /\ stage = "drivers" /\ todo # <<>> /\ Head(todo) \in build.broken
  /\ todo' = Tail(todo) /\ loaded' = loaded \union {Head(todo)}
  /\ UNCHANGED <<given, stage, slots, device, module, driver, next, held, devices>>

LoadDriver ==
  /\ stage = "drivers" /\ todo # <<>> /\ Head(todo) \notin build.broken
  /\ FreeSlots(slots) # {}
  /\ todo' = Tail(todo) /\ module' = Head(todo) /\ loaded' = loaded \union {Head(todo)}
  /\ slots' = Register(slots, Head(todo))
  /\ IF Head(todo) = "mpu" THEN Mpu!Registered ELSE UNCHANGED mpu
  /\ stage' = "trying" /\ next' = 1
  /\ UNCHANGED <<given, device, driver, held,
                 opl, speaker, winmm, synth>>

(* snd_load_inbox_drivers(): what finds no slot is left out.               *)
LoadInbox ==
  /\ stage = "drivers" /\ todo = <<>>
  /\ slots' = RegisterAll(slots, build.inbox)
  /\ IF Contains(build.inbox, "mpu") THEN Mpu!Registered ELSE UNCHANGED mpu
  /\ IF Contains(build.inbox, "fluid") THEN \E emulation \in BOOLEAN : Synth!Registered(emulation)
     ELSE UNCHANGED synth
  /\ stage' = "opening" /\ next' = 1
  /\ UNCHANGED <<given, todo, device, module, driver, loaded, held,
                 opl, speaker, winmm>>

(* _try_open() for the slots in turn: a slot is passed by when it is empty *)
(* or not the one asked for, and one that was asked for ends the search.   *)
Trying == stage \in {"trying", "opening"}
AskedFor(i) == slots[i] # None /\ argument \in {None, slots[i]}
Finished == MAX_DEVICES + 1

PassBy ==
  /\ Trying /\ next \in Slots /\ ~AskedFor(next)
  /\ next' = next + 1
  /\ UNCHANGED <<given, stage, todo, slots, device, module, driver, loaded, held, devices>>

TryOpen(opened) ==
  /\ Trying /\ next \in Slots /\ AskedFor(next)
  /\ OpenDevice(slots[next], opened)
  /\ device' = IF opened THEN next ELSE device
  /\ next' = IF opened \/ argument # None THEN Finished ELSE next + 1
  /\ UNCHANGED <<given, stage, todo, slots, module, driver, loaded, held>>

(* The rest of _try_driver(), with dos_unload_driver().                    *)
KeepDriver ==
  /\ stage = "trying" /\ next = Finished /\ device # None
  /\ driver' = module /\ stage' = "playing"
  /\ UNCHANGED <<given, todo, slots, device, module, next, loaded, held, devices>>

Unload(name) == loaded' = loaded \ {name} /\ slots' = Unregister(slots, name)

DropDriver ==
  /\ stage = "trying" /\ next = Finished /\ device = None
  /\ Unload(module)
  /\ stage' = "drivers"
  /\ UNCHANGED <<given, todo, device, module, driver, next, held, devices>>

Initialized ==
  /\ stage = "opening" /\ next = Finished
  /\ stage' = "playing"
  /\ UNCHANGED <<given, todo, slots, device, module, driver, next, loaded, held, devices>>

------------------------------------------------------------------------------
Playing == stage = "playing" /\ device # None

HowOftenHeld(notes) == MapThenSumSet(LAMBDA n : held[n], notes)

(* The sequencer's events, of whatever song; notes may be released that    *)
(* were not pressed.                                                       *)
Write(event) ==
  /\ Playing
  /\ Presses(event) => HowOftenHeld(Notes) < MaxHeld
  /\ held' = [held EXCEPT ![event.note] =
                IF Presses(event) THEN @ + 1 ELSE IF Releases(event) /\ @ > 0 THEN @ - 1 ELSE @]
  /\ WriteDevice(slots[device], event)
  /\ UNCHANGED <<given, registry>>

(* snd_tick(), after the events that were due: only these have a tick.     *)
Tick ==
  /\ Playing /\ HasSpeaker(slots[device])
  /\ Speaker!Tick
  /\ UNCHANGED <<given, registry, held, mpu, opl, winmm, synth>>

(* snd_cleanup(); nothing is played any more.                              *)
Cleanup ==
  /\ stage = "playing"
  /\ IF device = None THEN UNCHANGED devices ELSE CloseDevice(slots[device])
  /\ IF driver = None THEN UNCHANGED <<loaded, slots>> ELSE Unload(driver)
  /\ stage' = "done" /\ held' = [n \in Notes |-> 0]
  /\ UNCHANGED <<given, todo, device, module, driver, next>>

Next ==
  \/ SkipDriver \/ StrandDriver \/ LoadDriver \/ LoadInbox
  \/ PassBy \/ \E opened \in BOOLEAN : TryOpen(opened)
  \/ KeepDriver \/ DropDriver \/ Initialized
  \/ \E event \in Events : Write(event)
  \/ Tick \/ Cleanup

Spec == Init /\ [][Next]_vars

------------------------------------------------------------------------------
Held(n) == held[n] > 0

(* How often a key is pressed on the channels that the speaker plays.      *)
HeldOn(c, key) == IF <<c, key>> \in Notes THEN held[<<c, key>>] ELSE 0
HowOftenHeldKey(key) == HeldOn(0, key) + HeldOn(1, key) + HeldOn(2, key)

(* A device plays no key that was released as often as it was pressed, and *)
(* after the cleanup none at all: not the MPU-401's synthesizer as long as *)
(* it has met every deadline (dmpu401.c), none of the voices and drums of  *)
(* the OPL2 (dopl2.c), and no voice of the speaker (dbeep.c), where one    *)
(* key may have several voices.                                            *)
ReleasedKeysFallSilent ==
  /\ good => \A n \in sounding : Held(n)
  /\ \A v \in Opl!Voices : pitch[v] # Opl!Off =>
       \E n \in Notes : Held(n) /\ n[1] = v /\ pitch[v] = Opl!BlockFnum(n[2])
  /\ rhythm \subseteq UNION {Opl!Drum(n[2]) : n \in {m \in Notes : Held(m) /\ m[1] = DrumsChannel}}
  /\ \A v \in Speaker!Playing :
       Cardinality(Speaker!With(keys[v])) <= HowOftenHeldKey(keys[v])

(* A device that did not open leaves nothing behind, and neither does the  *)
(* one that did after the cleanup: a driver that was initialized is in     *)
(* memory, and its devices are registered, only for the open device, and   *)
(* only that has a port, a period or a timer of Windows, a synthesizer or  *)
(* an audio driver (snd.c, d-driver.c, dmme.c, dfluid.c).  What else is in *)
(* memory is a file of the archive without a drv_init, which d-driver.c    *)
(* does not free.                                                          *)
OpenName == IF Playing THEN {slots[device]} ELSE {}
Kept == loaded \ build.broken
NothingLeftBehind ==
  stage \in {"playing", "done"} =>
    /\ Kept = OpenName \intersect ToSet(build.drivers)
    /\ ToSet(slots) \subseteq ToSet(build.inbox) \union Kept \union {None}
    /\ ports \union periods \union timers \subseteq OpenName
    /\ objects \intersect {"synth", "audio"} # {} => "fluid" \in OpenName

(* The speaker never sounds a note that ended before the last sweep, nor   *)
(* one that was never played, although the voice to sound is chosen one    *)
(* sweep ahead and keeps its divisor (beep_tick() with beep_write()); and  *)
(* the divisor it sounds is that of the key, not what 16 bits leave of it. *)
ToneWasHeld ==
  [][Playing /\ Speaker!Playing # {} /\ Speaker!Sweep
       => tone' \in {Speaker!Divisor(k) : k \in recent}]_vars

==============================================================================
