------------------------- MODULE SoundDevicesProofs -------------------------
(***************************************************************************)
(* For any build, any ports and any notes: a device that is not open holds *)
(* nothing, what sounds is held, and the speaker sounds only keys that     *)
(* were played.  None of these is inductive by itself: that a closed       *)
(* device is silent is what makes opening one safe, and that every playing *)
(* voice has its key's divisor and a recent key is what makes a sweep so.  *)
(***************************************************************************)
EXTENDS SoundDevices, FiniteSetTheorems, WellFoundedInduction, TLAPS

------------------------------------------------------------------------------
(* The divisor of every key that a voice can have fits into 16 bits.       *)
LEMMA RatioIs ==
  ASSUME NEW n \in 0 .. 11
  PROVE  /\ Speaker!Ratio(n) \in 256 .. 483
         /\ n \in 0 .. 7 => Speaker!Ratio(n) \in 256 .. 384
BY DEF Speaker!Ratio, Speaker!KEY_MULTIPLIERS

LEMMA RatioRepeats ==
  ASSUME NEW n \in Nat PROVE Speaker!Ratio(n) = Speaker!Ratio(n % 12) /\ n % 12 \in 0 .. 11
<1>1. n % 12 \in 0 .. 11 /\ (n % 12) % 12 = n % 12
  OBVIOUS
<1> QED BY <1>1 DEF Speaker!Ratio

LEMMA OctavesAre ==
  ASSUME NEW n \in 0 .. 58
  PROVE  /\ Speaker!Octaves(n) \in {1, 2, 4, 8, 16}
         /\ Speaker!Octaves(n) = 16 => n >= 48
<1>1. n \div 12 \in 0 .. 4 /\ (n \div 12 = 4 => n >= 48)
  OBVIOUS
<1> DEFINE o == n \div 12
<1>2. Speaker!Octaves(n) = 2 ^ o
  BY DEF Speaker!Octaves
<1>3. o \in 0 .. 4 /\ (o = 4 => n >= 48)
  BY <1>1
<1> HIDE DEF o
<1>4. 2 ^ 0 = 1 /\ 2 ^ 1 = 2 /\ 2 ^ 2 = 4 /\ 2 ^ 3 = 8 /\ 2 ^ 4 = 16
  OBVIOUS
<1>5. o = 0 \/ o = 1 \/ o = 2 \/ o = 3 \/ o = 4
  BY <1>3
<1>6. \/ Speaker!Octaves(n) \in {1, 2, 4, 8}
      \/ Speaker!Octaves(n) = 16 /\ o = 4
  BY <1>2, <1>4, <1>5
<1> QED BY <1>3, <1>6

LEMMA Quotients ==
  ASSUME NEW p \in {1, 2, 4, 8, 16}, NEW r \in 256 .. 483, p = 16 => r <= 384
  PROVE  LET f == ((Speaker!FREQ_A4 * 65536) \div p) \div r
         IN  f \in Nat /\ f >= 4662
<1> DEFINE q == (Speaker!FREQ_A4 * 65536) \div p
<1>1. q \in {28835840, 14417920, 7208960, 3604480} \/ (q = 1802240 /\ r <= 384)
  BY SMT DEF Speaker!FREQ_A4
<1> HIDE DEF q
<1>2. q \div r \in Nat /\ q \div r >= 4662
  BY <1>1, SMT
<1> QED BY <1>2, SMT DEF q

LEMMA LowFrequency ==
  ASSUME NEW n \in 0 .. 55
  PROVE  LET f == ((Speaker!FREQ_A4 * 65536) \div Speaker!Octaves(n)) \div Speaker!Ratio(n)
         IN  f \in Nat /\ f >= 4662
<1>1. /\ Speaker!Octaves(n) \in {1, 2, 4, 8, 16}
      /\ Speaker!Octaves(n) = 16 => n >= 48
  BY OctavesAre
<1>2. Speaker!Ratio(n) \in 256 .. 483 /\ (n % 12 \in 0 .. 7 => Speaker!Ratio(n) <= 384)
  BY RatioRepeats, RatioIs
<1>3. n >= 48 => n % 12 \in 0 .. 7
  OBVIOUS
<1> QED BY <1>1, <1>2, <1>3, Quotients

LEMMA HighFrequency ==
  ASSUME NEW n \in 1 .. 58
  PROVE  LET f == Speaker!FREQ_A4 * Speaker!Octaves(n) * Speaker!Ratio(n)
         IN  f \in Nat /\ f >= 4662
<1>1. Speaker!Octaves(n) \in {1, 2, 4, 8, 16}
  BY OctavesAre
<1>2. Speaker!Ratio(n) \in 256 .. 483
  BY RatioRepeats, RatioIs
<1> QED BY <1>1, <1>2, SMT DEF Speaker!FREQ_A4

LEMMA DivisorFits ==
  ASSUME NEW key \in Speaker!KEY_MIN .. 127
  PROVE  Speaker!Divisor(key) \in Nat /\ Speaker!Divisor(key) % 65536 = Speaker!Divisor(key)
<1> DEFINE f == Speaker!Frequency(key)
<1>1. f \in Nat /\ f >= 4662
  <2>1. CASE Speaker!KEY_A4 < key
    <3> DEFINE n == key - Speaker!KEY_A4
    <3>1. n \in 1 .. 58
      BY <2>1, SMT DEF Speaker!KEY_MIN, Speaker!KEY_A4
    <3>2. f = Speaker!FREQ_A4 * Speaker!Octaves(n) * Speaker!Ratio(n)
      BY <2>1 DEF Speaker!Frequency
    <3> HIDE DEF f, n
    <3> QED BY <3>1, <3>2, HighFrequency
  <2>2. CASE ~(Speaker!KEY_A4 < key)
    <3> DEFINE n == Speaker!KEY_A4 - key
    <3>1. n \in 0 .. 55
      BY <2>2, SMT DEF Speaker!KEY_MIN, Speaker!KEY_A4
    <3>2. f = ((Speaker!FREQ_A4 * 65536) \div Speaker!Octaves(n)) \div Speaker!Ratio(n)
      BY <2>2 DEF Speaker!Frequency
    <3> HIDE DEF f, n
    <3> QED BY <3>1, <3>2, LowFrequency
  <2> QED BY <2>1, <2>2
<1> HIDE DEF f
<1>2. Speaker!INPUT_FREQ_U32F8 \div f \in Nat /\ Speaker!INPUT_FREQ_U32F8 \div f < 65536
  BY <1>1, SMT DEF Speaker!INPUT_FREQ_U32F8
<1>3. Speaker!Divisor(key) = Speaker!INPUT_FREQ_U32F8 \div f
  BY DEF Speaker!Divisor, f
<1> HIDE DEF Speaker!INPUT_FREQ_U32F8
<1> QED BY <1>2, <1>3, SMT
------------------------------------------------------------------------------
(* Where pal_initialize() is, and the names in the table.                  *)
InSlots(names) == \A i \in Slots : slots[i] \in names \union {None}
Opened == IF device = None \/ stage = "done" THEN {} ELSE {slots[device]}
SpeakerOpen == Playing /\ HasSpeaker(slots[device])

TypeOK ==
  /\ build \in Builds
  /\ stage \in {"drivers", "trying", "opening", "playing", "done"}
  /\ todo \in Seq(ToSet(build.drivers))
  /\ slots \in [Slots -> Names \union {None}]
  /\ device \in Slots \union {None} /\ next \in 1 .. Finished
  /\ held \in [Notes -> Nat]
  /\ sounding \subseteq Notes
  /\ keys \in [Speaker!Voices -> {Speaker!KEY_NONE} \union (Speaker!KEY_MIN .. 127)]
  /\ divs \in [Speaker!Voices -> Nat] /\ voice \in Speaker!Voices
  /\ pitch \in [Opl!Voices -> {Opl!Off} \union {Opl!BlockFnum(k) : k \in 0 .. 127}]
  /\ objects \subseteq {"settings", "synth", "audio"} /\ beeps \in BOOLEAN

(* A driver is in memory while its device is tried or open, and only then  *)
(* is the table its own; the search ends when a device opens.              *)
RegistryInStep ==
  /\ device # None => next = Finished /\ (stage # "done" => slots[device] # None)
  /\ stage = "drivers" => InSlots({}) /\ Kept = {} /\ device = None
  /\ stage = "trying" =>
       /\ module \in ToSet(build.drivers) /\ Kept = {module} /\ InSlots({module})
  /\ stage \in {"drivers", "trying", "opening"} => driver = None
  /\ stage = "opening" => InSlots(ToSet(build.inbox)) /\ Kept = {}
  /\ stage = "playing" =>
       \/ driver = None /\ InSlots(ToSet(build.inbox)) /\ Kept = {}
       \/ /\ driver \in ToSet(build.drivers) /\ Kept = {driver} /\ InSlots({driver})
          /\ device # None
  /\ stage = "done" => InSlots(ToSet(build.inbox)) /\ Kept = {}

(* What is not open is silent and holds nothing.                           *)
OnlyOpenIsHeld ==
  /\ ports \union periods \union timers \subseteq Opened \intersect Ports
  /\ Opened \intersect Ports # {} => {out, period, timer} \subseteq Opened
  /\ objects \intersect {"synth", "audio"} # {} => "fluid" \in Opened
  /\ "mpu" \notin Opened => (good => stage = "done") /\ (good \/ stage # "done" => sounding = {})
  /\ "opl" \notin Opened => pitch = Opl!Silence /\ rhythm = {} /\ (stage # "done" => drums = {})
  /\ ~SpeakerOpen => keys = Speaker!NoKeys
  /\ stage \notin {"playing", "done"} =>
       held = [n \in Notes |-> 0] /\ sounding = {} /\ pitch = Opl!Silence /\ drums = {} /\ rhythm = {}

(* What sounds is held.                                                    *)
SoundIsHeld ==
  /\ good => \A n \in sounding : Held(n)
  /\ \A v \in Opl!Voices : pitch[v] # Opl!Off =>
       \E n \in Notes : Held(n) /\ n[1] = v /\ pitch[v] = Opl!BlockFnum(n[2])
  /\ rhythm \subseteq UNION {Opl!Drum(n[2]) : n \in {m \in Notes : Held(m) /\ m[1] = DrumsChannel}}
  /\ "opl" \in Opened => drums = rhythm
  /\ \A key \in 0 .. 127 : Cardinality(Speaker!With(key)) <= HowOftenHeldKey(key)

(* A voice that plays has its key's divisor, and so has the one that is    *)
(* sounded next unless there is none.                                      *)
DivisorsAreRecent ==
  /\ \A v \in Speaker!Playing : keys[v] \in recent /\ divs[v] = Speaker!Divisor(keys[v])
  /\ \/ Speaker!Playing = {} /\ voice = 0
     \/ \E key \in recent : divs[voice] = Speaker!Divisor(key)

IInv == TypeOK /\ RegistryInStep /\ OnlyOpenIsHeld /\ SoundIsHeld /\ DivisorsAreRecent

------------------------------------------------------------------------------
(* What is known of the constants, and of a build.                         *)
LEMMA BuildNames ==
  ASSUME TypeOK
  PROVE  /\ build.drivers \in Seq(Names) /\ build.inbox \in Seq(Names)
         /\ ToSet(build.drivers) \subseteq Names /\ ToSet(build.inbox) \subseteq Names
         /\ ToSet(build.drivers) \intersect ToSet(build.inbox) = {}
         /\ None \notin Names
<1>1. /\ build.drivers \in Seq(Names) /\ build.inbox \in Seq(Names)
      /\ ToSet(build.drivers) \intersect ToSet(build.inbox) = {}
  BY BuildsAssumption DEF TypeOK
<1>2. ASSUME NEW s \in Seq(Names) PROVE ToSet(s) \subseteq Names
  BY DEF ToSet
<1> QED BY <1>1, <1>2, NoneAssumption

LEMMA RegisterIs ==
  ASSUME NEW table \in [Slots -> Names \union {None}], NEW name \in Names
  PROVE  /\ Register(table, name) \in [Slots -> Names \union {None}]
         /\ \A i \in Slots : Register(table, name)[i] \in {table[i], name}
BY DEF Register

(* RegisterAll() as a function of how many names it has seen.              *)
IsRegistering(g, table, names, m) ==
  g = [n \in 0 .. m |-> IF n = 0 THEN table ELSE Register(g[n - 1], names[n])]

LEMMA LeastNumber ==
  ASSUME NEW S, S \subseteq Nat, S # {}
  PROVE  \E x \in S : \A y \in S : x <= y
<1>1. PICK x \in S : \A y \in S : ~(<<y, x>> \in OpToRel(<, Nat))
  BY NatLessThanWellFounded, WFMin
<1>2. ASSUME NEW y \in S PROVE x <= y
  <2>1. y \in Nat /\ x \in Nat
    OBVIOUS
  <2>2. y < x => <<y, x>> \in OpToRel(<, Nat)
    BY <2>1, Zenon DEF OpToRel
  <2>3. ~(y < x)
    BY <1>1, <2>2
  <2> QED BY <2>1, <2>3
<1> QED BY <1>2

LEMMA RegisteringExists ==
  ASSUME NEW table, NEW names, NEW m \in Nat
  PROVE  \E g : IsRegistering(g, table, names, m)
<1> DEFINE Bad == {n \in Nat : ~\E g : IsRegistering(g, table, names, n)}
<1> SUFFICES ASSUME m \in Bad PROVE FALSE
  OBVIOUS
<1>1. PICK n \in Bad : \A k \in Bad : n <= k
  BY LeastNumber
<1>2. n # 0
  <2> DEFINE g == [k \in 0 .. 0 |-> table]
  <2>1. IsRegistering(g, table, names, 0)
    BY DEF IsRegistering
  <2> QED BY <2>1, <1>1
<1>3. n - 1 \in Nat /\ n - 1 \notin Bad
  BY <1>1, <1>2
<1>4. PICK g : IsRegistering(g, table, names, n - 1)
  BY <1>3
<1> DEFINE h == [k \in 0 .. n |-> IF k = n THEN Register(g[n - 1], names[n]) ELSE g[k]]
<1>5. \A k \in 0 .. n - 1 : h[k] = g[k]
  BY <1>3
<1>6. \A k \in 0 .. n : h[k] = IF k = 0 THEN table ELSE Register(h[k - 1], names[k])
  <2> SUFFICES ASSUME NEW k \in 0 .. n
               PROVE  h[k] = IF k = 0 THEN table ELSE Register(h[k - 1], names[k])
    OBVIOUS
  <2>1. CASE k = n
    <3>1. h[k] = Register(g[n - 1], names[n])
      BY <2>1, <1>3
    <3>2. h[n - 1] = g[n - 1]
      BY <1>3, <1>5
    <3> QED BY <2>1, <1>2, <3>1, <3>2
  <2>2. CASE k # n
    <3>1. k \in 0 .. n - 1 /\ h[k] = g[k]
      BY <2>2, <1>3, <1>5
    <3>2. g[k] = IF k = 0 THEN table ELSE Register(g[k - 1], names[k])
      BY <1>4, <3>1 DEF IsRegistering
    <3>3. k # 0 => h[k - 1] = g[k - 1]
      BY <1>3, <1>5, <3>1
    <3> HIDE DEF h
    <3> QED BY <3>1, <3>2, <3>3
  <2> QED BY <2>1, <2>2
<1>7. IsRegistering(h, table, names, n)
  <2>1. h = [k \in 0 .. n |-> h[k]]
    OBVIOUS
  <2> HIDE DEF h
  <2> QED BY <1>6, <2>1, Zenon DEF IsRegistering
<1> QED BY <1>1, <1>7

LEMMA RegisterAllIs ==
  ASSUME NEW table \in [Slots -> Names \union {None}], NEW names \in Seq(Names)
  PROVE  /\ RegisterAll(table, names) \in [Slots -> Names \union {None}]
         /\ \A i \in Slots : RegisterAll(table, names)[i] \in {table[i]} \union ToSet(names)
<1> DEFINE g == CHOOSE g : IsRegistering(g, table, names, Len(names))
           Good(t) == /\ t \in [Slots -> Names \union {None}]
                      /\ \A i \in Slots : t[i] \in {table[i]} \union ToSet(names)
           Bad == {n \in 0 .. Len(names) : ~Good(g[n])}
<1>1. RegisterAll(table, names) = g[Len(names)]
  BY Zenon DEF RegisterAll, IsRegistering
<1>2. Len(names) \in Nat
  OBVIOUS
<1>3. IsRegistering(g, table, names, Len(names))
  BY <1>2, RegisteringExists, Zenon
<1> HIDE DEF g
<1> SUFFICES ASSUME Len(names) \in Bad PROVE FALSE
  BY <1>1, <1>2
<1>4. PICK n \in Bad : \A k \in Bad : n <= k
  <2>1. Bad \subseteq Nat /\ Bad # {}
    BY <1>2
  <2> HIDE DEF Bad
  <2> QED BY <2>1, LeastNumber
<1>5. n # 0
  <2>1. g[0] = table
    BY <1>2, <1>3 DEF IsRegistering
  <2> QED BY <2>1, <1>4
<1>6. n - 1 \in 0 .. Len(names) /\ n - 1 \notin Bad /\ n \in 1 .. Len(names)
  BY <1>2, <1>4, <1>5
<1>7. Good(g[n - 1])
  BY <1>6
<1>8. g[n] = Register(g[n - 1], names[n])
  BY <1>3, <1>6 DEF IsRegistering
<1>9. names[n] \in Names /\ names[n] \in ToSet(names)
  BY <1>6 DEF ToSet
<1>10. Good(Register(g[n - 1], names[n]))
  <2> DEFINE t == g[n - 1]
  <2>1. Good(t)
    BY <1>7
  <2> HIDE DEF t
  <2>2. /\ Register(t, names[n]) \in [Slots -> Names \union {None}]
        /\ \A i \in Slots : Register(t, names[n])[i] \in {t[i], names[n]}
    BY <2>1, <1>9, RegisterIs
  <2>3. Good(Register(t, names[n]))
    BY <2>1, <2>2, <1>9
  <2> QED BY <2>3 DEF t
<1> QED BY <1>4, <1>8, <1>10

------------------------------------------------------------------------------
(* A speaker without keys plays none.                                      *)
LEMMA KeysHeld ==
  ASSUME held \in [Notes -> Nat]
  PROVE  /\ \A c, key : HeldOn(c, key) \in Nat
         /\ \A key : HowOftenHeldKey(key) \in Nat
BY DEF HeldOn, HowOftenHeldKey

LEMMA SilentKeys ==
  ASSUME keys = Speaker!NoKeys, held \in [Notes -> Nat]
  PROVE  \A key \in 0 .. 127 : Cardinality(Speaker!With(key)) <= HowOftenHeldKey(key)
<1> SUFFICES ASSUME NEW key \in 0 .. 127
             PROVE  Cardinality(Speaker!With(key)) <= HowOftenHeldKey(key)
  OBVIOUS
<1>1. Speaker!With(key) = {}
  BY DEF Speaker!With, Speaker!NoKeys, Speaker!KEY_NONE
<1>2. Cardinality(Speaker!With(key)) = 0
  BY <1>1, FS_EmptySet
<1> QED BY <1>2, KeysHeld

------------------------------------------------------------------------------
LEMMA InitIInv == Init => IInv
<1> SUFFICES ASSUME Init PROVE IInv
  OBVIOUS
<1>1. /\ build \in Builds /\ stage = "drivers" /\ todo = build.drivers
      /\ slots = [i \in Slots |-> None] /\ device = None /\ driver = None
      /\ next = 1 /\ loaded = {} /\ held = [n \in Notes |-> 0]
  BY DEF Init
<1>2. /\ good = FALSE /\ sounding = {}
      /\ pitch = Opl!Silence /\ drums = {} /\ rhythm = {}
      /\ keys = Speaker!NoKeys /\ divs = Speaker!Zeros /\ voice = 0 /\ recent = {}
      /\ ports = {} /\ periods = {} /\ timers = {} /\ objects = {} /\ beeps = FALSE
  BY DEF Init, Mpu!Init, Opl!Init, Speaker!Init, Winmm!Init, Synth!Init
<1>3. TypeOK
  <2>1. todo \in Seq(ToSet(build.drivers))
    <3>1. build.drivers \in Seq(Names)
      BY <1>1, BuildsAssumption
    <3> QED BY <1>1, <3>1 DEF ToSet
  <2>2. /\ pitch \in [Opl!Voices -> {Opl!Off} \union {Opl!BlockFnum(k) : k \in 0 .. 127}]
        /\ keys \in [Speaker!Voices -> {Speaker!KEY_NONE} \union (Speaker!KEY_MIN .. 127)]
        /\ divs \in [Speaker!Voices -> Nat] /\ voice \in Speaker!Voices
    BY <1>2 DEF Opl!Silence, Speaker!NoKeys, Speaker!Zeros, Speaker!Voices
  <2>3. /\ held \in [Notes -> Nat] /\ slots \in [Slots -> Names \union {None}]
        /\ next \in 1 .. Finished
    BY <1>1 DEF Finished, MAX_DEVICES
  <2> QED BY <1>1, <1>2, <2>1, <2>2, <2>3 DEF TypeOK
<1>4. RegistryInStep
  BY <1>1 DEF RegistryInStep, InSlots, Kept
<1>5. OnlyOpenIsHeld
  BY <1>1, <1>2 DEF OnlyOpenIsHeld, Opened
<1>6. \A key \in 0 .. 127 : Cardinality(Speaker!With(key)) <= HowOftenHeldKey(key)
  BY <1>1, <1>2, <1>3, SilentKeys DEF TypeOK
<1>7. SoundIsHeld
  BY <1>2, <1>6 DEF SoundIsHeld, Opl!Silence
<1>8. DivisorsAreRecent
  BY <1>2 DEF DivisorsAreRecent, Speaker!Playing, Speaker!NoKeys
<1> QED BY <1>3, <1>4, <1>5, <1>7, <1>8 DEF IInv

------------------------------------------------------------------------------
(* What the devices' operations keep.                                      *)
Keyed ==
  /\ keys \in [Speaker!Voices -> {Speaker!KEY_NONE} \union (Speaker!KEY_MIN .. 127)]
  /\ divs \in [Speaker!Voices -> Nat] /\ voice \in Speaker!Voices
Pitched == pitch \in [Opl!Voices -> {Opl!Off} \union {Opl!BlockFnum(k) : k \in 0 .. 127}]

LEMMA FirstIs ==
  ASSUME NEW S, S \subseteq Speaker!Voices, S # {}
  PROVE  Speaker!FirstOf(S) \in S /\ \A w \in S : Speaker!FirstOf(S) <= w
<1>0. S \subseteq {0, 1, 2}
  BY DEF Speaker!Voices
<1>1. \E v \in S : \A w \in S : v <= w
  <2>1. CASE 0 \in S
    BY <1>0, <2>1
  <2>2. CASE 0 \notin S /\ 1 \in S
    BY <1>0, <2>2
  <2>3. CASE 0 \notin S /\ 1 \notin S
    <3>1. S = {2}
      BY <1>0, <2>3
    <3> QED BY <3>1
  <2> QED BY <2>1, <2>2, <2>3
<1> QED BY <1>1 DEF Speaker!FirstOf

LEMMA EventIs ==
  ASSUME NEW event \in Events
  PROVE  /\ event.note \in Notes /\ event.note = <<Channel(event), Key(event)>>
         /\ Channel(event) \in Channels /\ Key(event) \in 0 .. 127
         /\ ~(Presses(event) /\ Releases(event))
         /\ Presses(event) => event.status # "meta"
         /\ Releases(event) => event.status # "meta"
<1>1. event.note \in Notes
  BY DEF Events
<1>2. event.note \in Channels \X (0 .. 127)
  BY <1>1, NotesAssumption
<1> QED BY <1>1, <1>2 DEF Channel, Key, Presses, Releases

(* Every device's module has its own reading of an event.                  *)
LEMMA SameEvent ==
  ASSUME NEW event
  PROVE  /\ Speaker!Channel(event) = Channel(event) /\ Speaker!Key(event) = Key(event)
         /\ Speaker!Presses(event) <=> Presses(event)
         /\ Speaker!Releases(event) <=> Releases(event)
         /\ Opl!Channel(event) = Channel(event) /\ Opl!Key(event) = Key(event)
         /\ Opl!Presses(event) <=> Presses(event)
         /\ Opl!Releases(event) <=> Releases(event)
         /\ Opl!DrumsChannel = DrumsChannel
         /\ Mpu!Presses(event) <=> Presses(event)
         /\ Mpu!Releases(event) <=> Releases(event)
BY Zenon DEF Channel, Key, Presses, Releases, DrumsChannel, Opl!DrumsChannel,
             Speaker!Channel, Speaker!Key, Speaker!Presses, Speaker!Releases,
             Opl!Channel, Opl!Key, Opl!Presses, Opl!Releases, Mpu!Presses, Mpu!Releases

LEMMA PressIs ==
  ASSUME Keyed, NEW key \in 0 .. 127, Speaker!Press(key), ~UNCHANGED Speaker!vars
  PROVE  /\ key \in Speaker!KEY_MIN .. 127 /\ Speaker!Divisor(key) \in Nat
         /\ \E v \in Speaker!Voices :
              /\ keys[v] = Speaker!KEY_NONE
              /\ keys' = [keys EXCEPT ![v] = key]
              /\ divs' = [divs EXCEPT ![v] = Speaker!Divisor(key)]
              /\ \A w \in Speaker!Voices : keys[w] = Speaker!KEY_NONE => v <= w
         /\ recent' = recent \union {key} /\ UNCHANGED <<voice, tone>>
<1> DEFINE free == Speaker!With(Speaker!KEY_NONE)
           v == Speaker!FirstOf(free)
           d == Speaker!Divisor(key)
           e == d % 65536
<1>1. Speaker!Audible(key) /\ free # {}
  BY DEF Speaker!Press
<1>2. v \in free /\ \A w \in free : v <= w
  <2>1. free \subseteq Speaker!Voices
    BY DEF Speaker!With
  <2> QED BY <1>1, <2>1, FirstIs
<1>3. key \in Speaker!KEY_MIN .. 127
  BY <1>1 DEF Speaker!Audible, Speaker!KEY_MIN
<1>4. d \in Nat /\ e = d
  BY <1>3, DivisorFits
<1>5. /\ keys' = [keys EXCEPT ![v] = key]
      /\ divs' = [divs EXCEPT ![v] = e]
      /\ recent' = recent \union {key} /\ UNCHANGED <<voice, tone>>
  BY <1>1 DEF Speaker!Press
<1>6. v \in Speaker!Voices /\ keys[v] = Speaker!KEY_NONE
      /\ \A w \in Speaker!Voices : keys[w] = Speaker!KEY_NONE => v <= w
  BY <1>2 DEF Speaker!With
<1> HIDE DEF v, d, e
<1>7. divs' = [divs EXCEPT ![v] = d]
  BY <1>4, <1>5
<1>8. \E u \in Speaker!Voices :
        /\ keys[u] = Speaker!KEY_NONE
        /\ keys' = [keys EXCEPT ![u] = key]
        /\ divs' = [divs EXCEPT ![u] = d]
        /\ \A w \in Speaker!Voices : keys[w] = Speaker!KEY_NONE => u <= w
  BY <1>5, <1>6, <1>7, Zenon
<1> QED BY <1>3, <1>4, <1>5, <1>8, Zenon DEF d

LEMMA ReleaseIs ==
  ASSUME Keyed, NEW key \in 0 .. 127, Speaker!Release(key)
  PROVE  \/ Speaker!With(key) = {} /\ UNCHANGED <<keys, divs, voice, tone, recent>>
         \/ \E v \in Speaker!With(key) :
              /\ v \in Speaker!Voices /\ keys[v] = key
              /\ keys' = [keys EXCEPT ![v] = Speaker!KEY_NONE]
              /\ UNCHANGED <<divs, voice, tone, recent>>
<1>1. CASE Speaker!With(key) = {}
  BY <1>1 DEF Speaker!Release, Speaker!vars
<1>2. CASE Speaker!With(key) # {}
  <2> DEFINE v == Speaker!FirstOf(Speaker!With(key))
  <2>1. Speaker!With(key) \subseteq Speaker!Voices
    BY DEF Speaker!With
  <2>2. v \in Speaker!With(key)
    BY <1>2, <2>1, FirstIs
  <2>3. keys' = [keys EXCEPT ![v] = Speaker!KEY_NONE] /\ UNCHANGED <<divs, voice, tone, recent>>
    BY <1>2 DEF Speaker!Release
  <2> HIDE DEF v
  <2>4. v \in Speaker!Voices /\ keys[v] = key
    BY <2>2 DEF Speaker!With
  <2> QED BY <2>2, <2>3, <2>4
<1> QED BY <1>1, <1>2

LEMMA SpeakerWriteKeyed ==
  ASSUME Keyed, NEW event \in Events, Speaker!Write(event) PROVE Keyed'
<1> DEFINE key == Key(event)
           d == Speaker!Divisor(key)
<1>1. key \in 0 .. 127
  BY EventIs
<1>2. CASE UNCHANGED Speaker!vars
  BY <1>2 DEF Keyed, Speaker!vars
<1>3. CASE Speaker!Press(key) /\ ~UNCHANGED Speaker!vars
  <2>1. /\ key \in Speaker!KEY_MIN .. 127 /\ d \in Nat
        /\ \E v \in Speaker!Voices :
             /\ keys' = [keys EXCEPT ![v] = key]
             /\ divs' = [divs EXCEPT ![v] = d]
        /\ voice' = voice
    <3> HIDE DEF key
    <3> QED BY <1>1, <1>3, PressIs
  <2>2. PICK v \in Speaker!Voices : /\ keys' = [keys EXCEPT ![v] = key]
                                    /\ divs' = [divs EXCEPT ![v] = d]
    BY <2>1
  <2> HIDE DEF key, d
  <2>3. keys' \in [Speaker!Voices -> {Speaker!KEY_NONE} \union (Speaker!KEY_MIN .. 127)]
    BY <2>1, <2>2 DEF Keyed
  <2>4. divs' \in [Speaker!Voices -> Nat]
    BY <2>1, <2>2 DEF Keyed
  <2> QED BY <2>1, <2>3, <2>4 DEF Keyed
<1>4. CASE Speaker!Release(key)
  <2>1. \/ UNCHANGED <<keys, divs, voice>>
        \/ \E v \in Speaker!Voices :
             /\ keys' = [keys EXCEPT ![v] = Speaker!KEY_NONE]
             /\ UNCHANGED <<divs, voice>>
    <3> HIDE DEF key
    <3> QED BY <1>1, <1>4, ReleaseIs
  <2> QED BY <2>1 DEF Keyed
<1>5. \/ UNCHANGED Speaker!vars
      \/ Speaker!Press(key)
      \/ Speaker!Release(key)
  BY SameEvent, Zenon DEF Speaker!Write
<1> QED BY <1>2, <1>3, <1>4, <1>5

LEMMA AfterIs ==
  ASSUME Keyed
  PROVE  /\ Speaker!After(voice) \in Speaker!Voices
         /\ Speaker!Playing # {} => Speaker!After(voice) \in Speaker!Playing
<1> DEFINE a == (voice + 1) % 3
           b == (voice + 2) % 3
<1>1. Speaker!Voices = {a, b, voice}
  <2>1. voice \in {0, 1, 2} /\ Speaker!Voices = {0, 1, 2}
    BY DEF Keyed, Speaker!Voices
  <2>2. voice = 0 => a = 1 /\ b = 2
    OBVIOUS
  <2>3. voice = 1 => a = 2 /\ b = 0
    OBVIOUS
  <2>4. voice = 2 => a = 0 /\ b = 1
    OBVIOUS
  <2> HIDE DEF a, b
  <2> QED BY <2>1, <2>2, <2>3, <2>4
<1>2. Speaker!Playing \subseteq Speaker!Voices
  BY DEF Speaker!Playing
<1>3. Speaker!After(voice) =
        IF a \in Speaker!Playing THEN a ELSE IF b \in Speaker!Playing THEN b ELSE voice
  BY DEF Speaker!After
<1> HIDE DEF a, b
<1> QED BY <1>1, <1>2, <1>3

LEMMA SpeakerTickKeyed == ASSUME Keyed, Speaker!Tick PROVE Keyed'
<1>1. CASE UNCHANGED Speaker!vars
  BY <1>1 DEF Keyed, Speaker!vars
<1>2. CASE Speaker!Quiet
  BY <1>2 DEF Keyed, Speaker!Quiet, Speaker!Voices
<1>3. CASE Speaker!Sweep
  BY <1>3, AfterIs DEF Keyed, Speaker!Sweep
<1> QED BY <1>1, <1>2, <1>3 DEF Speaker!Tick

LEMMA SpeakerOpenKeyed ==
  ASSUME Keyed, NEW o \in BOOLEAN, Speaker!Open(o) \/ Speaker!Close(o) PROVE Keyed'
<1>1. /\ Speaker!NoKeys \in [Speaker!Voices -> {Speaker!KEY_NONE}]
      /\ Speaker!Zeros \in [Speaker!Voices -> Nat] /\ 0 \in Speaker!Voices
  BY DEF Speaker!NoKeys, Speaker!Zeros, Speaker!Voices
<1>2. \/ keys' = Speaker!NoKeys /\ divs' = Speaker!Zeros /\ voice' = 0
      \/ UNCHANGED <<keys, divs, voice>>
  BY DEF Speaker!Open, Speaker!Close, Speaker!vars
<1> QED BY <1>1, <1>2 DEF Keyed

LEMMA OplWritePitched ==
  ASSUME Pitched, NEW event \in Events, Opl!Write(event) PROVE Pitched'
<1>1. \/ UNCHANGED pitch
      \/ \E p \in {Opl!Off, Opl!BlockFnum(Key(event))}, v \in Opl!Voices :
           pitch' = [pitch EXCEPT ![v] = p]
  BY SameEvent DEF Opl!Write, Opl!Set, Opl!SetDrums, Opl!vars
<1>2. Key(event) \in 0 .. 127
  BY EventIs
<1> DEFINE Pitches == {Opl!Off} \union {Opl!BlockFnum(k) : k \in 0 .. 127}
<1>3. {Opl!Off, Opl!BlockFnum(Key(event))} \subseteq Pitches
  BY <1>2
<1>4. pitch \in [Opl!Voices -> Pitches]
  BY DEF Pitched
<1> HIDE DEF Pitches
<1>5. pitch' \in [Opl!Voices -> Pitches]
  BY <1>1, <1>3, <1>4
<1> QED BY <1>5 DEF Pitched, Pitches

LEMMA OplResetPitched == ASSUME Opl!Reset PROVE Pitched'
BY DEF Pitched, Opl!Reset, Opl!Silence

(* An event changes how often its own note is pressed.                     *)
LEMMA WrittenHeld ==
  ASSUME held \in [Notes -> Nat], NEW event \in Events, Write(event)
  PROVE  /\ held' \in [Notes -> Nat]
         /\ \A n \in Notes : n # event.note => held'[n] = held[n]
         /\ Presses(event) => held'[event.note] = held[event.note] + 1
         /\ Releases(event) => held'[event.note] >= held[event.note] - 1
         /\ ~Presses(event) /\ ~Releases(event) => held' = held
<1> DEFINE m == IF Presses(event) THEN held[event.note] + 1
                ELSE IF Releases(event) /\ held[event.note] > 0 THEN held[event.note] - 1
                     ELSE held[event.note]
<1>1. held' = [held EXCEPT ![event.note] = m]
  BY DEF Write
<1>2. event.note \in Notes /\ ~(Presses(event) /\ Releases(event))
  BY EventIs
<1>3. /\ m \in Nat
      /\ Presses(event) => m = held[event.note] + 1
      /\ Releases(event) => m >= held[event.note] - 1
      /\ ~Presses(event) /\ ~Releases(event) => m = held[event.note]
  BY <1>2
<1> HIDE DEF m
<1> QED BY <1>1, <1>2, <1>3

(* What an action on the devices does to what they are made of.            *)
LEMMA WriteTypes ==
  ASSUME TypeOK, NEW event \in Events, NEW name, WriteDevice(name, event)
  PROVE  Keyed' /\ Pitched' /\ sounding' \subseteq Notes /\ UNCHANGED <<winmm, synth>>
<1>0. Keyed /\ Pitched /\ sounding \subseteq Notes
  BY DEF TypeOK, Keyed, Pitched
<1>1. Keyed'
  <2>1. Speaker!Write(event) \/ UNCHANGED speaker
    BY DEF WriteDevice
  <2>2. UNCHANGED speaker => Keyed'
    BY <1>0 DEF Keyed, speaker
  <2> QED BY <1>0, <2>1, <2>2, SpeakerWriteKeyed
<1>2. Pitched'
  <2>1. Opl!Write(event) \/ UNCHANGED opl
    BY DEF WriteDevice
  <2>2. UNCHANGED opl => Pitched'
    BY <1>0 DEF Pitched, opl
  <2> QED BY <1>0, <2>1, <2>2, OplWritePitched
<1>3. sounding' \subseteq Notes
  <2>1. Mpu!Write(event) \/ UNCHANGED mpu
    BY DEF WriteDevice
  <2>2. event.note \in Notes
    BY EventIs
  <2> QED BY <1>0, <2>1, <2>2 DEF Mpu!Write, Mpu!Played, Mpu!GiveUp, Mpu!vars, mpu
<1> QED BY <1>1, <1>2, <1>3 DEF WriteDevice

LEMMA OpenTypes ==
  ASSUME TypeOK, NEW name, NEW opened \in BOOLEAN, OpenDevice(name, opened)
  PROVE  /\ Keyed' /\ Pitched' /\ UNCHANGED sounding
         /\ objects' \subseteq {"settings", "synth", "audio"} /\ beeps' \in BOOLEAN
<1>0. Keyed /\ Pitched /\ beeps \in BOOLEAN /\ objects \subseteq {"settings", "synth", "audio"}
  BY DEF TypeOK, Keyed, Pitched
<1>1. beeps' \in BOOLEAN /\ objects' \subseteq {"settings", "synth", "audio"}
  <2>1. Synth!Open(opened) \/ UNCHANGED synth
    BY DEF OpenDevice
  <2> QED BY <1>0, <2>1 DEF Synth!Open, Synth!Opens, Synth!Fails, synth
<1>2. Keyed'
  <2> DEFINE o == name = "beep" \/ beeps'
  <2>1. (o \in BOOLEAN /\ Speaker!Open(o)) \/ UNCHANGED speaker
    BY <1>1 DEF OpenDevice
  <2>2. UNCHANGED speaker => Keyed'
    BY <1>0 DEF Keyed, speaker
  <2> HIDE DEF o
  <2> QED BY <1>0, <2>1, <2>2, SpeakerOpenKeyed
<1>3. Pitched'
  <2>1. Opl!Reset \/ UNCHANGED pitch
    BY DEF OpenDevice, Opl!Open, Opl!vars, opl
  <2>2. UNCHANGED pitch => Pitched'
    BY <1>0 DEF Pitched
  <2> QED BY <2>1, <2>2, OplResetPitched
<1>4. UNCHANGED sounding
  BY DEF OpenDevice, Mpu!Open, mpu
<1> QED BY <1>1, <1>2, <1>3, <1>4

LEMMA CloseTypes ==
  ASSUME TypeOK, NEW name, CloseDevice(name)
  PROVE  /\ Keyed' /\ Pitched' /\ sounding' \subseteq sounding
         /\ objects' \subseteq objects /\ UNCHANGED beeps
<1>0. Keyed /\ Pitched
  BY DEF TypeOK, Keyed, Pitched
<1>1. objects' \subseteq objects /\ UNCHANGED beeps
  <2>1. Synth!Close \/ UNCHANGED synth
    BY DEF CloseDevice
  <2> QED BY <2>1 DEF Synth!Close, synth
<1>2. Keyed'
  <2> DEFINE o == build.platform = "dos" \/ name = "fluid"
  <2>1. (o \in BOOLEAN /\ Speaker!Close(o)) \/ UNCHANGED speaker
    BY DEF CloseDevice
  <2>2. UNCHANGED speaker => Keyed'
    BY <1>0 DEF Keyed, speaker
  <2> HIDE DEF o
  <2> QED BY <1>0, <2>1, <2>2, SpeakerOpenKeyed
<1>3. Pitched'
  <2>1. Opl!Reset \/ UNCHANGED pitch
    BY DEF CloseDevice, Opl!Close, opl
  <2>2. UNCHANGED pitch => Pitched'
    BY <1>0 DEF Pitched
  <2> QED BY <2>1, <2>2, OplResetPitched
<1>4. sounding' \subseteq sounding
  <2>1. Mpu!Close \/ UNCHANGED mpu
    BY DEF CloseDevice
  <2> QED BY <2>1 DEF Mpu!Close, Mpu!vars, mpu
<1> QED BY <1>1, <1>2, <1>3, <1>4

------------------------------------------------------------------------------
(* The type and the registry, action by action.                            *)
LEMMA HeadIs ==
  ASSUME TypeOK, todo # <<>>
  PROVE  /\ Head(todo) \in ToSet(build.drivers) /\ Head(todo) \in Names
         /\ Tail(todo) \in Seq(ToSet(build.drivers))
<1>1. todo \in Seq(ToSet(build.drivers))
  BY DEF TypeOK
<1> DEFINE S == ToSet(build.drivers)
<1>2. S \subseteq Names
  BY BuildNames
<1> HIDE DEF S
<1>3. todo \in Seq(S)
  BY <1>1 DEF S
<1>4. Head(todo) \in S /\ Tail(todo) \in Seq(S)
  BY <1>3
<1> QED BY <1>2, <1>4 DEF S

LEMMA NextSlot ==
  ASSUME TypeOK, next \in Slots
  PROVE  next + 1 \in 1 .. Finished /\ Finished \in 1 .. Finished /\ next # Finished /\ 1 \in 1 .. Finished
BY DEF Finished, Slots, MAX_DEVICES

LEMMA FinishedIsNoSlot == Finished \notin Slots /\ 1 \in 1 .. Finished /\ Finished \in 1 .. Finished
BY DEF Finished, Slots, MAX_DEVICES

LEMMA UnregisterIs ==
  ASSUME NEW table \in [Slots -> Names \union {None}], NEW name
  PROVE  /\ Unregister(table, name) \in [Slots -> Names \union {None}]
         /\ \A i \in Slots : /\ table[i] = name => Unregister(table, name)[i] = None
                            /\ Unregister(table, name)[i] \in {table[i], None}
BY DEF Unregister

LEMMA TypeStep == ASSUME TypeOK, [Next]_vars PROVE TypeOK'
<1>1. CASE UNCHANGED vars
  BY <1>1 DEF TypeOK, vars, given, registry, devices, mpu, opl, speaker, winmm, synth
<1>2. CASE SkipDriver
  BY <1>2, HeadIs DEF SkipDriver, TypeOK, given, devices, mpu, opl, speaker, winmm, synth
<1>2a. CASE StrandDriver
  BY <1>2a, HeadIs DEF StrandDriver, TypeOK, given, devices, mpu, opl, speaker, winmm, synth
<1>3. CASE LoadDriver
  <2>1. slots' \in [Slots -> Names \union {None}] /\ todo' \in Seq(ToSet(build.drivers))
    <3>1. /\ slots' = Register(slots, Head(todo)) /\ todo' = Tail(todo) /\ todo # <<>>
          /\ slots \in [Slots -> Names \union {None}]
      BY <1>3 DEF LoadDriver, TypeOK
    <3> QED BY <3>1, HeadIs, RegisterIs
  <2>2. UNCHANGED <<sounding, build, device, held, opl, speaker, synth>>
    BY <1>3 DEF LoadDriver, Mpu!Registered, given, mpu
  <2>3. stage' = "trying" /\ next' = 1
    BY <1>3 DEF LoadDriver
  <2> QED BY <2>1, <2>2, <2>3, FinishedIsNoSlot DEF TypeOK, opl, speaker, synth
<1>4. CASE LoadInbox
  <2>1. slots' \in [Slots -> Names \union {None}]
    <3>1. slots' = RegisterAll(slots, build.inbox) /\ slots \in [Slots -> Names \union {None}]
      BY <1>4 DEF LoadInbox, TypeOK
    <3> QED BY <3>1, BuildNames, RegisterAllIs
  <2>2. UNCHANGED <<todo, sounding, build, device, held, opl, speaker, objects>>
    BY <1>4 DEF LoadInbox, Mpu!Registered, Synth!Registered, given, mpu, synth
  <2>3. stage' = "opening" /\ next' = 1 /\ (beeps' \in BOOLEAN \/ beeps' = beeps)
    BY <1>4 DEF LoadInbox, Synth!Registered, synth
  <2> QED BY <2>1, <2>2, <2>3, FinishedIsNoSlot DEF TypeOK, opl, speaker
<1>5. CASE PassBy
  BY <1>5, NextSlot DEF PassBy, TypeOK, given, devices, mpu, opl, speaker, winmm, synth
<1>6. ASSUME NEW opened \in BOOLEAN, TryOpen(opened) PROVE TypeOK'
  <2>1. /\ Keyed' /\ Pitched' /\ UNCHANGED sounding
        /\ objects' \subseteq {"settings", "synth", "audio"} /\ beeps' \in BOOLEAN
    BY <1>6, OpenTypes DEF TryOpen
  <2>2. /\ UNCHANGED <<build, stage, todo, slots, held>> /\ next \in Slots
        /\ device' \in {next, device} /\ next' \in {Finished, next + 1}
    BY <1>6 DEF TryOpen, given
  <2> QED BY <2>1, <2>2, NextSlot DEF TypeOK, Keyed, Pitched
<1>7. CASE KeepDriver
  BY <1>7 DEF KeepDriver, TypeOK, given, devices, mpu, opl, speaker, winmm, synth
<1>8. CASE DropDriver
  <2>1. slots' \in [Slots -> Names \union {None}]
    BY <1>8, UnregisterIs DEF DropDriver, Unload, TypeOK
  <2> QED BY <1>8, <2>1 DEF DropDriver, TypeOK, given, devices, mpu, opl, speaker, winmm, synth
<1>9. CASE Initialized
  BY <1>9 DEF Initialized, TypeOK, given, devices, mpu, opl, speaker, winmm, synth
<1>10. ASSUME NEW event \in Events, Write(event) PROVE TypeOK'
  <2>1. Keyed' /\ Pitched' /\ sounding' \subseteq Notes /\ UNCHANGED synth
    BY <1>10, WriteTypes DEF Write
  <2>2. held' \in [Notes -> Nat]
    BY <1>10, WrittenHeld DEF TypeOK
  <2>3. UNCHANGED <<given, registry>>
    BY <1>10 DEF Write
  <2> QED BY <2>1, <2>2, <2>3 DEF TypeOK, Keyed, Pitched, given, registry, synth
<1>11. CASE Tick
  <2>1. Keyed'
    BY <1>11, SpeakerTickKeyed DEF Tick, TypeOK, Keyed
  <2> QED BY <1>11, <2>1 DEF Tick, TypeOK, Keyed, given, registry, mpu, opl, synth
<1>12. CASE Cleanup
  <2>1. Keyed' /\ Pitched' /\ sounding' \subseteq sounding /\ objects' \subseteq objects /\ UNCHANGED beeps
    <3>1. CASE UNCHANGED devices
      BY <3>1 DEF TypeOK, Keyed, Pitched, devices, mpu, opl, speaker, synth
    <3>2. CASE CloseDevice(slots[device])
      BY <3>2, CloseTypes
    <3> QED BY <1>12, <3>1, <3>2 DEF Cleanup
  <2>2. slots' \in [Slots -> Names \union {None}]
    <3>1. slots' = slots \/ slots' = Unregister(slots, driver)
      BY <1>12 DEF Cleanup, Unload
    <3> QED BY <3>1, UnregisterIs DEF TypeOK
  <2>3. UNCHANGED <<build, todo, device, next>> /\ stage' = "done" /\ held' = [n \in Notes |-> 0]
    BY <1>12 DEF Cleanup, given
  <2> QED BY <2>1, <2>2, <2>3 DEF TypeOK, Keyed, Pitched
<1> QED BY <1>1, <1>2, <1>2a, <1>3, <1>4, <1>5, <1>6, <1>7, <1>8, <1>9, <1>10, <1>11, <1>12 DEF Next

LEMMA RegistryStep == ASSUME TypeOK, RegistryInStep, [Next]_vars PROVE RegistryInStep'
<1>0. /\ slots \in [Slots -> Names \union {None}]
      /\ None \notin ToSet(build.drivers) /\ Finished \notin Slots
  BY BuildNames, FinishedIsNoSlot DEF TypeOK
<1>1. CASE UNCHANGED <<build, registry>>
  BY <1>1 DEF RegistryInStep, InSlots, Kept, registry
<1>2. CASE SkipDriver
  BY <1>2 DEF SkipDriver, RegistryInStep, InSlots, Kept, given
<1>2a. CASE StrandDriver
  <2>1. /\ UNCHANGED <<build, stage, slots, device, module, driver, next>>
        /\ Head(todo) \in build.broken /\ loaded' = loaded \union {Head(todo)}
    BY <1>2a DEF StrandDriver, given
  <2>2. Kept' = Kept
    BY <2>1 DEF Kept
  <2> QED BY <2>1, <2>2 DEF RegistryInStep, InSlots
<1>3. CASE LoadDriver
  <2> DEFINE d == Head(todo)
  <2>1. d \in ToSet(build.drivers) /\ d \in Names
    BY <1>3, HeadIs DEF LoadDriver
  <2>2. /\ slots' = Register(slots, d) /\ module' = d /\ loaded' = loaded \union {d}
        /\ stage = "drivers" /\ stage' = "trying" /\ UNCHANGED <<build, device, driver>>
        /\ d \notin build.broken
    BY <1>3 DEF LoadDriver, given
  <2> HIDE DEF d
  <2>3. \A i \in Slots : slots'[i] \in {d, None}
    BY <1>0, <2>1, <2>2, RegisterIs DEF RegistryInStep, InSlots
  <2>4. device = None /\ Kept = {} /\ driver = None
    BY <2>2 DEF RegistryInStep
  <2>5. Kept' = {d}
    BY <2>2, <2>4 DEF Kept
  <2> QED BY <2>1, <2>2, <2>3, <2>4, <2>5 DEF RegistryInStep, InSlots
<1>4. CASE LoadInbox
  <2>1. /\ slots' = RegisterAll(slots, build.inbox)
        /\ stage = "drivers" /\ stage' = "opening" /\ UNCHANGED <<build, device, driver, loaded>>
    BY <1>4 DEF LoadInbox, given
  <2>2. \A i \in Slots : slots'[i] \in {slots[i]} \union ToSet(build.inbox)
    BY <1>0, <2>1, BuildNames, RegisterAllIs
  <2>3. device = None /\ Kept = {} /\ driver = None /\ InSlots({})
    BY <2>1 DEF RegistryInStep
  <2> QED BY <2>1, <2>2, <2>3 DEF Kept, RegistryInStep, InSlots
<1>5. CASE PassBy
  <2>1. device = None
    BY <1>0, <1>5 DEF PassBy, RegistryInStep
  <2> QED BY <1>5, <2>1 DEF PassBy, RegistryInStep, Kept, InSlots, given
<1>6. ASSUME NEW opened \in BOOLEAN, TryOpen(opened) PROVE RegistryInStep'
  <2>1. /\ UNCHANGED <<build, stage, slots, module, driver, loaded>>
        /\ Trying /\ next \in Slots /\ slots[next] # None
        /\ device' # None => device' = device \/ (device' = next /\ next' = Finished)
    BY <1>6 DEF TryOpen, AskedFor, given
  <2>2. device = None
    BY <1>0, <2>1 DEF RegistryInStep
  <2>3. device' # None => next' = Finished /\ slots[device'] # None
    BY <2>1, <2>2
  <2> QED BY <2>1, <2>2, <2>3 DEF RegistryInStep, InSlots, Kept, Trying
<1>7. CASE KeepDriver
  BY <1>0, <1>7 DEF KeepDriver, RegistryInStep, Kept, InSlots, given
<1>8. CASE DropDriver
  <2>1. /\ slots' = Unregister(slots, module) /\ loaded' = loaded \ {module}
        /\ stage = "trying" /\ stage' = "drivers" /\ device = None
        /\ UNCHANGED <<build, device, module, driver, next>>
    BY <1>8 DEF DropDriver, Unload, given
  <2>2. InSlots({module}) /\ Kept = {module} /\ driver = None
    BY <2>1 DEF RegistryInStep
  <2>2a. Kept' = {}
    BY <2>1, <2>2 DEF Kept
  <2>3. \A i \in Slots : slots'[i] = None
    BY <1>0, <2>1, <2>2, UnregisterIs DEF InSlots
  <2> QED BY <2>1, <2>2, <2>2a, <2>3 DEF RegistryInStep, InSlots
<1>9. CASE Initialized
  BY <1>9 DEF Initialized, RegistryInStep, Kept, InSlots, given
<1>10. CASE Cleanup
  <2>1. /\ stage = "playing" /\ stage' = "done" /\ UNCHANGED <<build, device, driver, next>>
        /\ IF driver = None THEN UNCHANGED <<loaded, slots>>
           ELSE loaded' = loaded \ {driver} /\ slots' = Unregister(slots, driver)
    BY <1>10 DEF Cleanup, Unload, given
  <2>2. device # None => next = Finished
    BY DEF RegistryInStep
  <2>3. CASE driver = None
    <3>1. InSlots(ToSet(build.inbox)) /\ Kept = {}
      BY <1>0, <2>1, <2>3 DEF RegistryInStep
    <3> QED BY <2>1, <2>2, <2>3, <3>1 DEF RegistryInStep, InSlots, Kept
  <2>4. CASE driver # None
    <3>1. InSlots({driver}) /\ Kept = {driver}
      BY <2>1, <2>4 DEF RegistryInStep
    <3>1a. Kept' = {}
      BY <2>1, <2>4, <3>1 DEF Kept
    <3>2. \A i \in Slots : slots'[i] = None
      BY <1>0, <2>1, <2>4, <3>1, UnregisterIs DEF InSlots
    <3> QED BY <2>1, <2>2, <2>4, <3>1, <3>1a, <3>2 DEF RegistryInStep, InSlots
  <2> QED BY <2>3, <2>4
<1>11. ASSUME NEW event \in Events, Write(event) PROVE RegistryInStep'
  BY <1>1, <1>11 DEF Write, given
<1>12. CASE Tick
  BY <1>1, <1>12 DEF Tick, given
<1> QED BY <1>1, <1>2, <1>2a, <1>3, <1>4, <1>5, <1>6, <1>7, <1>8, <1>9, <1>10, <1>11, <1>12
        DEF Next, vars, given

------------------------------------------------------------------------------
(* Before a device opens, none holds anything.                             *)
LEMMA NothingOpen ==
  ASSUME OnlyOpenIsHeld, device = None, stage \notin {"playing", "done"}
  PROVE  /\ Opened = {} /\ ~SpeakerOpen
         /\ ports = {} /\ periods = {} /\ timers = {} /\ objects \intersect {"synth", "audio"} = {}
         /\ ~good /\ sounding = {} /\ keys = Speaker!NoKeys
         /\ pitch = Opl!Silence /\ rhythm = {} /\ drums = {} /\ held = [n \in Notes |-> 0]
<1>1. Opened = {} /\ ~SpeakerOpen
  BY DEF Opened, SpeakerOpen, Playing
<1> QED BY <1>1 DEF OnlyOpenIsHeld

LEMMA OpenOnlyOpen ==
  ASSUME TypeOK, RegistryInStep, OnlyOpenIsHeld, NEW opened \in BOOLEAN, TryOpen(opened)
  PROVE  OnlyOpenIsHeld'
<1> DEFINE name == slots[next]
<1>1. /\ next \in Slots /\ stage \in {"trying", "opening"} /\ UNCHANGED <<stage, slots, held>>
      /\ OpenDevice(name, opened) /\ device' = IF opened THEN next ELSE device
  BY DEF TryOpen, Trying
<1>2. device = None
  BY <1>1, FinishedIsNoSlot DEF RegistryInStep
<1>3. /\ ports = {} /\ periods = {} /\ timers = {} /\ objects \intersect {"synth", "audio"} = {}
      /\ ~good /\ sounding = {} /\ keys = Speaker!NoKeys
      /\ pitch = Opl!Silence /\ rhythm = {} /\ drums = {} /\ held = [n \in Notes |-> 0]
  BY <1>1, <1>2, NothingOpen
<1>4. Opened' = IF opened THEN {name} ELSE {}
  BY <1>1, <1>2, NoneAssumption DEF Opened
<1> HIDE DEF name
<1>5. /\ ports' \union periods' \union timers' \subseteq Opened' \intersect Ports
      /\ Opened' \intersect Ports # {} => {out', period', timer'} \subseteq Opened'
  <2>1. CASE name \in Ports /\ opened
    BY <1>1, <1>3, <1>4, <2>1 DEF OpenDevice, Winmm!Open, Winmm!Opens
  <2>2. CASE name \in Ports /\ ~opened
    BY <1>1, <1>3, <1>4, <2>2 DEF OpenDevice, Winmm!Open, Winmm!PortFails, Winmm!PeriodFails,
       Winmm!TimerFails, Winmm!Free, Winmm!vars, Winmm!handles, Winmm!held
  <2>3. CASE name \notin Ports
    BY <1>1, <1>3, <1>4, <2>3 DEF OpenDevice, winmm
  <2> QED BY <2>1, <2>2, <2>3
<1>6. objects' \intersect {"synth", "audio"} # {} => "fluid" \in Opened'
  BY <1>1, <1>3, <1>4 DEF OpenDevice, Synth!Open, Synth!Fails, synth
<1>7. "mpu" \notin Opened' => ~good'
  BY <1>1, <1>3, <1>4 DEF OpenDevice, Mpu!Open, mpu
<1>8. sounding' = {}
  BY <1>1, <1>3 DEF OpenDevice, Mpu!Open, mpu
<1>9. pitch' = Opl!Silence /\ rhythm' = {} /\ drums' = {}
  BY <1>1, <1>3 DEF OpenDevice, Opl!Open, Opl!Reset, Opl!vars, opl
<1>10. keys' = Speaker!NoKeys
  BY <1>1, <1>3 DEF OpenDevice, Speaker!Open, Speaker!vars, speaker
<1> QED BY <1>1, <1>3, <1>5, <1>6, <1>7, <1>8, <1>9, <1>10 DEF OnlyOpenIsHeld

LEMMA CloseOnlyOpen ==
  ASSUME TypeOK, RegistryInStep, OnlyOpenIsHeld, Cleanup PROVE OnlyOpenIsHeld'
<1>1. stage = "playing" /\ stage' = "done" /\ held' = [n \in Notes |-> 0]
  BY DEF Cleanup
<1>2. Opened' = {} /\ ~SpeakerOpen'
  BY <1>1 DEF Opened, SpeakerOpen, Playing
<1>3. CASE device = None
  <2>1. Opened = {} /\ ~SpeakerOpen /\ UNCHANGED devices
    BY <1>1, <1>3 DEF Opened, SpeakerOpen, Playing, Cleanup
  <2> QED BY <1>1, <1>2, <2>1
          DEF OnlyOpenIsHeld, devices, mpu, opl, speaker, winmm, synth
<1>4. CASE device # None
  <2> DEFINE name == slots[device]
  <2>1. Opened = {name} /\ (SpeakerOpen <=> HasSpeaker(name)) /\ CloseDevice(name)
    BY <1>1, <1>4 DEF Opened, SpeakerOpen, Playing, Cleanup
  <2> HIDE DEF name
  <2>2. ports' = {} /\ periods' = {} /\ timers' = {}
    <3>1. CASE name \in Ports
      <4>1. /\ ports \subseteq {name} /\ periods \subseteq {name} /\ timers \subseteq {name}
            /\ out = name /\ period = name /\ timer = name
        BY <2>1, <3>1 DEF OnlyOpenIsHeld
      <4> QED BY <2>1, <3>1, <4>1 DEF CloseDevice, Winmm!Close, Winmm!Free
    <3>2. CASE name \notin Ports
      BY <2>1, <3>2 DEF CloseDevice, OnlyOpenIsHeld, winmm
    <3> QED BY <3>1, <3>2
  <2>3. objects' \intersect {"synth", "audio"} = {}
    BY <2>1 DEF CloseDevice, OnlyOpenIsHeld, Synth!Close, synth
  <2>4. good' => sounding' = {}
    <3>1. CASE name = "mpu"
      <4>1. ~good' \/ sounding' = {n \in sounding : n[1] >= 16}
        BY <2>1, <3>1 DEF CloseDevice, Mpu!Close, Mpu!vars
      <4>2. \A n \in sounding : ~(n[1] >= 16)
        <5>1. \A n \in Notes : n[1] \in Channels
          BY NotesAssumption
        <5>2. \A c \in Channels : ~(c >= 16)
          BY DEF Channels
        <5> QED BY <5>1, <5>2 DEF TypeOK
      <4> QED BY <4>1, <4>2
    <3>2. CASE name # "mpu"
      BY <2>1, <3>2 DEF CloseDevice, OnlyOpenIsHeld, mpu
    <3> QED BY <3>1, <3>2
  <2>5. pitch' = Opl!Silence /\ rhythm' = {}
    BY <2>1 DEF CloseDevice, OnlyOpenIsHeld, Opl!Close, Opl!Reset, opl
  <2>6. keys' = Speaker!NoKeys
    BY <2>1 DEF CloseDevice, OnlyOpenIsHeld, Speaker!Close, speaker
  <2> QED BY <1>1, <1>2, <2>2, <2>3, <2>4, <2>5, <2>6 DEF OnlyOpenIsHeld
<1> QED BY <1>3, <1>4

LEMMA PlayOnlyOpen ==
  ASSUME TypeOK, RegistryInStep, OnlyOpenIsHeld,
         Tick \/ \E event \in Events : Write(event)
  PROVE  OnlyOpenIsHeld'
<1> DEFINE name == slots[device]
<1>1. Playing /\ UNCHANGED <<given, registry, winmm, synth>>
  BY DEF Tick, Write, WriteDevice
<1>2. Opened' = Opened /\ Opened = {name} /\ (SpeakerOpen <=> HasSpeaker(name))
  BY <1>1 DEF Opened, SpeakerOpen, Playing, registry
<1>3. SpeakerOpen' <=> SpeakerOpen
  BY <1>1 DEF SpeakerOpen, Playing, HasSpeaker, registry, synth
<1>4. name # "mpu" => UNCHANGED mpu
  BY DEF Tick, Write, WriteDevice
<1>5. name # "opl" => UNCHANGED opl
  BY DEF Tick, Write, WriteDevice
<1>6. ~HasSpeaker(name) => UNCHANGED speaker
  BY DEF Tick, Write, WriteDevice
<1> HIDE DEF name
<1>7. /\ "mpu" \notin Opened' => UNCHANGED <<good, sounding>>
      /\ "opl" \notin Opened' => UNCHANGED <<pitch, drums, rhythm>>
      /\ ~SpeakerOpen' => UNCHANGED keys
  BY <1>2, <1>3, <1>4, <1>5, <1>6 DEF mpu, opl, speaker
<1>8. stage = "playing" /\ stage' = "playing" /\ UNCHANGED <<out, period, timer, ports, periods, timers, objects>>
  BY <1>1 DEF Playing, registry, winmm, synth
<1> QED BY <1>2, <1>3, <1>7, <1>8 DEF OnlyOpenIsHeld

LEMMA OnlyOpenStep ==
  ASSUME TypeOK, RegistryInStep, OnlyOpenIsHeld, [Next]_vars PROVE OnlyOpenIsHeld'
<1>1. CASE UNCHANGED vars
  BY <1>1 DEF OnlyOpenIsHeld, Opened, SpeakerOpen, Playing, HasSpeaker,
     vars, given, registry, devices, mpu, opl, speaker, winmm, synth
<1>2. CASE SkipDriver \/ StrandDriver \/ PassBy \/ KeepDriver \/ DropDriver \/ Initialized
  <2>1. /\ UNCHANGED <<held, devices, device>> /\ stage \notin {"playing", "done"} /\ stage' # "done"
        /\ device = None \/ UNCHANGED slots
    BY <1>2 DEF SkipDriver, StrandDriver, PassBy, KeepDriver, DropDriver, Initialized, Trying
  <2>2. Opened' = Opened /\ ~SpeakerOpen
    BY <2>1 DEF Opened, SpeakerOpen, Playing
  <2> QED BY <2>1, <2>2 DEF OnlyOpenIsHeld, devices, mpu, opl, speaker, winmm, synth
<1>3. CASE LoadDriver \/ LoadInbox
  <2>1. /\ stage = "drivers" /\ stage' \in {"trying", "opening"} /\ UNCHANGED <<device, held, opl, speaker, winmm>>
        /\ UNCHANGED <<sounding, objects>> /\ (good' => good)
    BY <1>3 DEF LoadDriver, LoadInbox, Mpu!Registered, Synth!Registered, mpu, synth
  <2>2. device = None
    BY <2>1 DEF RegistryInStep
  <2>3. Opened' = {}
    BY <2>1, <2>2 DEF Opened
  <2>4. /\ ports = {} /\ periods = {} /\ timers = {} /\ objects \intersect {"synth", "audio"} = {}
        /\ ~good /\ sounding = {} /\ keys = Speaker!NoKeys
        /\ pitch = Opl!Silence /\ rhythm = {} /\ drums = {} /\ held = [n \in Notes |-> 0]
    BY <2>1, <2>2, NothingOpen
  <2>5. /\ ports' = {} /\ periods' = {} /\ timers' = {} /\ objects' = objects
        /\ ~good' /\ sounding' = {} /\ keys' = Speaker!NoKeys
        /\ pitch' = Opl!Silence /\ rhythm' = {} /\ drums' = {} /\ held' = held
    BY <2>1, <2>4 DEF opl, speaker, winmm
  <2> QED BY <2>1, <2>3, <2>4, <2>5 DEF OnlyOpenIsHeld
<1>4. CASE \E opened \in BOOLEAN : TryOpen(opened)
  BY <1>4, OpenOnlyOpen
<1>5. CASE Tick \/ \E event \in Events : Write(event)
  BY <1>5, PlayOnlyOpen
<1>6. CASE Cleanup
  BY <1>6, CloseOnlyOpen
<1> QED BY <1>1, <1>2, <1>3, <1>4, <1>5, <1>6 DEF Next

------------------------------------------------------------------------------
(* Unless something is played, nothing sounds.                             *)
LEMMA QuietIsHeld ==
  ASSUME TypeOK', OnlyOpenIsHeld', stage' # "playing" PROVE SoundIsHeld'
<1>1. /\ good' => sounding' = {}
      /\ pitch' = Opl!Silence /\ rhythm' = {}
      /\ "opl" \in Opened' => drums' = {}
      /\ keys' = Speaker!NoKeys
  <2>1. ~SpeakerOpen' /\ (stage' = "done" => Opened' = {})
    BY DEF SpeakerOpen, Playing, Opened
  <2> QED BY <2>1 DEF OnlyOpenIsHeld
<1>2. \A key \in 0 .. 127 : Cardinality(Speaker!With(key)') <= HowOftenHeldKey(key)'
  <2> SUFFICES ASSUME NEW key \in 0 .. 127
               PROVE  Cardinality(Speaker!With(key)') <= HowOftenHeldKey(key)'
    OBVIOUS
  <2>1. Speaker!With(key)' = {}
    BY <1>1 DEF Speaker!With, Speaker!NoKeys, Speaker!KEY_NONE
  <2>2. HowOftenHeldKey(key)' \in Nat
    BY DEF TypeOK, HowOftenHeldKey, HeldOn
  <2> QED BY <2>1, <2>2, FS_EmptySet
<1>3. \A v \in Opl!Voices : pitch'[v] = Opl!Off
  BY <1>1 DEF Opl!Silence
<1> QED BY <1>1, <1>2, <1>3 DEF SoundIsHeld

(* What the synthesizer of the MPU-401 plays is what was pressed, ...      *)
LEMMA MpuIsHeld ==
  ASSUME TypeOK, OnlyOpenIsHeld, SoundIsHeld, NEW event \in Events, Write(event)
  PROVE  good' => \A n \in sounding' : Held(n)'
<1> SUFFICES ASSUME good', NEW n \in sounding' PROVE Held(n)'
  OBVIOUS
<1>1. /\ event.note \in Notes
      /\ held' \in [Notes -> Nat]
      /\ \A m \in Notes : m # event.note => held'[m] = held[m]
      /\ Presses(event) => held'[event.note] = held[event.note] + 1
      /\ ~Presses(event) /\ ~Releases(event) => held' = held
      /\ Presses(event) => event.status # "meta"
      /\ Releases(event) => event.status # "meta"
  BY EventIs, WrittenHeld DEF TypeOK
<1>2. held \in [Notes -> Nat] /\ sounding \subseteq Notes
  BY DEF TypeOK
<1>3. CASE good /\ sounding' = Mpu!Played(event)
  <2>1. CASE n \in sounding /\ ~Releases(event)
    BY <1>1, <1>2, <1>3, <2>1 DEF SoundIsHeld, Held
  <2>2. CASE n \in sounding /\ Releases(event)
    <3>1. n # event.note
      BY <1>3, <2>2, EventIs, SameEvent DEF Mpu!Played
    <3> QED BY <1>1, <1>2, <1>3, <2>2, <3>1 DEF SoundIsHeld, Held
  <2>3. CASE n \notin sounding
    <3>1. Presses(event) /\ n = event.note
      BY <1>3, <2>3, SameEvent DEF Mpu!Played
    <3> QED BY <1>1, <1>2, <3>1 DEF Held
  <2> QED BY <2>1, <2>2, <2>3
<1>4. CASE good /\ event.status = "meta" /\ sounding' = sounding
  BY <1>1, <1>4 DEF SoundIsHeld, Held
<1>5. CASE ~good /\ UNCHANGED <<good, sounding>>
  BY <1>5
<1>6. CASE "mpu" \notin Opened
  <2>1. UNCHANGED mpu
    <3>1. slots[device] # "mpu"
      BY <1>6 DEF Opened, Write, Playing
    <3> QED BY <3>1 DEF Write, WriteDevice
  <2>2. ~good
    BY <1>6 DEF OnlyOpenIsHeld, Write, Playing
  <2> QED BY <2>1, <2>2 DEF mpu
<1>7. CASE "mpu" \in Opened
  <2>1. Mpu!Write(event)
    <3>1. slots[device] = "mpu"
      BY <1>7 DEF Opened, Write, Playing
    <3> QED BY <3>1 DEF Write, WriteDevice
  <2> QED BY <2>1, <1>3, <1>4, <1>5 DEF Mpu!Write, Mpu!GiveUp, Mpu!vars
<1> QED BY <1>6, <1>7

(* ... and so are the voices and drums of the OPL2.                        *)
LEMMA OplIsHeld ==
  ASSUME TypeOK, OnlyOpenIsHeld, SoundIsHeld, NEW event \in Events, Write(event)
  PROVE  /\ \A v \in Opl!Voices : pitch'[v] # Opl!Off =>
              \E n \in Notes : Held(n)' /\ n[1] = v /\ pitch'[v] = Opl!BlockFnum(n[2])
         /\ \A d \in rhythm' :
              \E n \in Notes : Held(n)' /\ n[1] = DrumsChannel /\ d \in Opl!Drum(n[2])
         /\ "opl" \in Opened' => drums' = rhythm'
<1> DEFINE note == event.note
           c == Channel(event)
           k == Key(event)
<1>1. /\ note \in Notes /\ note[1] = c /\ note[2] = k
      /\ held \in [Notes -> Nat] /\ held' \in [Notes -> Nat]
      /\ \A m \in Notes : m # note => held'[m] = held[m]
      /\ Presses(event) => held'[note] = held[note] + 1
      /\ ~Presses(event) /\ ~Releases(event) => held' = held
      /\ ~(Presses(event) /\ Releases(event))
  BY EventIs, WrittenHeld DEF TypeOK, Channel, Key
<1>2. /\ \A v \in Opl!Voices : pitch[v] # Opl!Off =>
           \E n \in Notes : Held(n) /\ n[1] = v /\ pitch[v] = Opl!BlockFnum(n[2])
      /\ \A d \in rhythm : \E n \in Notes : Held(n) /\ n[1] = DrumsChannel /\ d \in Opl!Drum(n[2])
      /\ "opl" \in Opened => drums = rhythm
  BY DEF SoundIsHeld
<1>3. Opened' = Opened /\ (slots[device] = "opl" <=> "opl" \in Opened) /\ stage = "playing"
  BY DEF Opened, Write, Playing, registry
<1>4. ~Releases(event) => \A n \in Notes : Held(n) => Held(n)'
  BY <1>1 DEF Held
<1>5. \A n \in Notes : n # note /\ Held(n) => Held(n)'
  BY <1>1 DEF Held
<1>6. Presses(event) => Held(note)'
  BY <1>1 DEF Held
<1>7. pitch \in [Opl!Voices -> {Opl!Off} \union {Opl!BlockFnum(n) : n \in 0 .. 127}]
  BY DEF TypeOK
<1>8. Opl!Voices = 0 .. 5 /\ DrumsChannel \notin Opl!Voices
  BY DEF Opl!Voices, DrumsChannel
<1> HIDE DEF note, c, k
<1>9. CASE "opl" \notin Opened
  <2>1. pitch = Opl!Silence /\ rhythm = {}
    BY <1>9 DEF OnlyOpenIsHeld
  <2>2. UNCHANGED <<pitch, drums, rhythm>>
    BY <1>3, <1>9 DEF Write, WriteDevice, opl
  <2> QED BY <1>3, <1>9, <2>1, <2>2 DEF Opl!Silence
<1>10. CASE "opl" \in Opened
  <2>0. Opl!Write(event) /\ drums = rhythm
    BY <1>2, <1>3, <1>10 DEF Write, WriteDevice
  <2>1. CASE c = DrumsChannel /\ Presses(event)
    <3>1. drums' = rhythm \union Opl!Drum(k) /\ rhythm' = rhythm \union Opl!Drum(k) /\ UNCHANGED pitch
      BY <1>1, <1>8, <2>0, <2>1, SameEvent DEF Opl!Write, Opl!SetDrums, c, k
    <3>2. \A d \in rhythm' :
            \E n \in Notes : Held(n)' /\ n[1] = DrumsChannel /\ d \in Opl!Drum(n[2])
      BY <1>1, <1>2, <1>4, <1>6, <2>1, <3>1
    <3> QED BY <1>1, <1>2, <1>4, <2>1, <3>1, <3>2
  <2>2. CASE c = DrumsChannel /\ Releases(event)
    <3>1. drums' = rhythm \ Opl!Drum(k) /\ rhythm' = rhythm \ Opl!Drum(k) /\ UNCHANGED pitch
      BY <1>1, <1>8, <2>0, <2>2, SameEvent DEF Opl!Write, Opl!SetDrums, c, k
    <3>2. \A d \in rhythm' :
            \E n \in Notes : Held(n)' /\ n[1] = DrumsChannel /\ d \in Opl!Drum(n[2])
      BY <1>1, <1>2, <1>5, <3>1
    <3>3. \A v \in Opl!Voices : pitch'[v] # Opl!Off =>
            \E n \in Notes : Held(n)' /\ n[1] = v /\ pitch'[v] = Opl!BlockFnum(n[2])
      BY <1>1, <1>2, <1>5, <1>8, <2>2, <3>1
    <3> QED BY <3>1, <3>2, <3>3
  <2>3. CASE c # DrumsChannel /\ c \in Opl!Voices /\ Presses(event)
    <3>1. /\ pitch' = [pitch EXCEPT ![c] = Opl!BlockFnum(k)] /\ UNCHANGED <<drums, rhythm>>
      BY <1>1, <2>0, <2>3, SameEvent DEF Opl!Write, Opl!Set, c, k
    <3>2. \A v \in Opl!Voices : pitch'[v] # Opl!Off =>
            \E n \in Notes : Held(n)' /\ n[1] = v /\ pitch'[v] = Opl!BlockFnum(n[2])
      <4> SUFFICES ASSUME NEW v \in Opl!Voices, pitch'[v] # Opl!Off
                   PROVE  \E n \in Notes : Held(n)' /\ n[1] = v /\ pitch'[v] = Opl!BlockFnum(n[2])
        OBVIOUS
      <4>1. CASE v = c
        BY <1>1, <1>6, <1>7, <2>3, <3>1, <4>1
      <4>2. CASE v # c
        BY <1>1, <1>2, <1>4, <1>7, <2>3, <3>1, <4>2
      <4> QED BY <4>1, <4>2
    <3> QED BY <1>1, <1>2, <1>4, <2>0, <2>3, <3>1, <3>2
  <2>4. CASE c # DrumsChannel /\ c \in Opl!Voices /\ Releases(event)
    <3>1. /\ pitch' = [pitch EXCEPT ![c] = Opl!Off] /\ UNCHANGED <<drums, rhythm>>
      BY <1>1, <2>0, <2>4, SameEvent DEF Opl!Write, Opl!Set, c, k
    <3>2. \A v \in Opl!Voices : pitch'[v] # Opl!Off =>
            \E n \in Notes : Held(n)' /\ n[1] = v /\ pitch'[v] = Opl!BlockFnum(n[2])
      <4> SUFFICES ASSUME NEW v \in Opl!Voices, pitch'[v] # Opl!Off
                   PROVE  \E n \in Notes : Held(n)' /\ n[1] = v /\ pitch'[v] = Opl!BlockFnum(n[2])
        OBVIOUS
      <4>1. v # c /\ pitch'[v] = pitch[v]
        BY <1>7, <3>1
      <4> QED BY <1>1, <1>2, <1>5, <4>1
    <3> QED BY <1>1, <1>2, <1>5, <2>0, <2>4, <3>1, <3>2
  <2>5. CASE c \notin Opl!Voices \union {DrumsChannel} \/ (~Presses(event) /\ ~Releases(event))
    <3>1. UNCHANGED <<pitch, drums, rhythm>>
      BY <1>1, <2>0, <2>5, SameEvent DEF Opl!Write, Opl!vars, c
    <3>2. \A n \in Notes : n[1] \in Opl!Voices \union {DrumsChannel} /\ Held(n) => Held(n)'
      BY <1>1, <1>4, <1>5, <2>5
    <3> QED BY <1>1, <1>2, <2>0, <3>1, <3>2
  <2> QED BY <2>1, <2>2, <2>3, <2>4, <2>5
<1> QED BY <1>9, <1>10

(* A key has at most as many voices of the speaker as it is pressed.       *)
LEMMA VoicesAreFinite == \A key : IsFiniteSet(Speaker!With(key)) /\ IsFiniteSet(Speaker!With(key)')
<1>1. IsFiniteSet(0 .. 2)
  <2>1. 0 \in Int /\ 2 \in Int
    OBVIOUS
  <2> QED BY <2>1, FS_Interval, Zenon
<1>2. \A key : Speaker!With(key) \subseteq 0 .. 2 /\ Speaker!With(key)' \subseteq 0 .. 2
  BY DEF Speaker!With, Speaker!Voices
<1> QED BY <1>1, <1>2, FS_Subset

LEMMA SpeakerIsHeld ==
  ASSUME TypeOK, OnlyOpenIsHeld, SoundIsHeld, NEW event \in Events, Write(event),
         NEW key \in 0 .. 127
  PROVE  Cardinality(Speaker!With(key)') <= HowOftenHeldKey(key)'
<1> DEFINE note == event.note
           c == Channel(event)
           k == Key(event)
           old == Speaker!With(key)
           new == Speaker!With(key)'
<1>1. /\ note \in Notes /\ note = <<c, k>> /\ k \in 0 .. 127
      /\ held \in [Notes -> Nat] /\ held' \in [Notes -> Nat]
      /\ \A m \in Notes : m # note => held'[m] = held[m]
      /\ Presses(event) => held'[note] = held[note] + 1
      /\ Releases(event) => held'[note] >= held[note] - 1
      /\ ~Presses(event) /\ ~Releases(event) => held' = held
      /\ ~(Presses(event) /\ Releases(event))
  BY EventIs, WrittenHeld DEF TypeOK
<1>2. /\ Cardinality(old) \in Nat /\ Cardinality(new) \in Nat
      /\ IsFiniteSet(old) /\ IsFiniteSet(new)
  BY VoicesAreFinite, FS_CardinalityType
<1>3. Cardinality(old) <= HowOftenHeldKey(key)
  BY DEF SoundIsHeld
<1>4. /\ HowOftenHeldKey(key) = HeldOn(0, key) + HeldOn(1, key) + HeldOn(2, key)
      /\ HowOftenHeldKey(key)' = HeldOn(0, key)' + HeldOn(1, key)' + HeldOn(2, key)'
      /\ \A d \in 0 .. 2 : HeldOn(d, key) \in Nat /\ HeldOn(d, key)' \in Nat
  BY <1>1 DEF HowOftenHeldKey, HeldOn
<1>5. \A d \in 0 .. 2 : <<d, key>> # note => HeldOn(d, key)' = HeldOn(d, key)
  BY <1>1 DEF HeldOn
<1>6. \A d \in 0 .. 2 : <<d, key>> = note =>
        /\ Presses(event) => HeldOn(d, key)' = HeldOn(d, key) + 1
        /\ Releases(event) => HeldOn(d, key)' >= HeldOn(d, key) - 1
        /\ ~Presses(event) /\ ~Releases(event) => HeldOn(d, key)' = HeldOn(d, key)
  BY <1>1 DEF HeldOn
<1>7. Keyed
  BY DEF TypeOK, Keyed
<1>8. key # Speaker!KEY_NONE
  BY DEF Speaker!KEY_NONE
<1> DEFINE was == HowOftenHeldKey(key)
           is == HowOftenHeldKey(key)'
<1>9. was \in Nat /\ is \in Nat
  BY <1>4
<1>10. key # k \/ c \notin 0 .. 2 \/ (~Presses(event) /\ ~Releases(event)) => is = was
  <2>1. SUFFICES ASSUME key # k \/ c \notin 0 .. 2 \/ (~Presses(event) /\ ~Releases(event))
                 PROVE  \A d \in 0 .. 2 : HeldOn(d, key)' = HeldOn(d, key)
    BY <1>4
  <2> SUFFICES ASSUME NEW d \in 0 .. 2 PROVE HeldOn(d, key)' = HeldOn(d, key)
    OBVIOUS
  <2>2. CASE <<d, key>> # note
    BY <1>5, <2>2
  <2>3. CASE <<d, key>> = note
    <3>1. c = d /\ k = key
      BY <1>1, <2>3
    <3> QED BY <1>6, <2>1, <2>3, <3>1
  <2> QED BY <2>2, <2>3
<1>11. key = k /\ c \in 0 .. 2 =>
         (Presses(event) => is = was + 1) /\ (Releases(event) => is >= was - 1)
  <2>1. SUFFICES ASSUME key = k, c \in 0 .. 2
                 PROVE  (Presses(event) => is = was + 1) /\ (Releases(event) => is >= was - 1)
    OBVIOUS
  <2>2. /\ Presses(event) => HeldOn(c, key)' = HeldOn(c, key) + 1
        /\ Releases(event) => HeldOn(c, key)' >= HeldOn(c, key) - 1
    BY <1>1, <1>6, <2>1
  <2>3. \A d \in 0 .. 2 : d # c => HeldOn(d, key)' = HeldOn(d, key)
    <3> SUFFICES ASSUME NEW d \in 0 .. 2, d # c PROVE HeldOn(d, key)' = HeldOn(d, key)
      OBVIOUS
    <3>1. <<d, key>> # note
      BY <1>1
    <3> QED BY <1>5, <3>1
  <2>4. c = 0 \/ c = 1 \/ c = 2
    BY <2>1
  <2>5. CASE c = 0
    BY <1>4, <2>2, <2>3, <2>5
  <2>6. CASE c = 1
    BY <1>4, <2>2, <2>3, <2>6
  <2>7. CASE c = 2
    BY <1>4, <2>2, <2>3, <2>7
  <2> QED BY <2>4, <2>5, <2>6, <2>7
<1>12. Cardinality(old) <= was
  BY <1>3
<1> SUFFICES Cardinality(new) <= is
  OBVIOUS
<1> HIDE DEF note, c, k, was, is, old, new
<1>13. CASE UNCHANGED keys
  <2>1. new = old
    BY <1>13 DEF Speaker!With, old, new
  <2>2. CASE ~(key = k /\ c \in 0 .. 2 /\ Releases(event))
    <3>1. is >= was
      BY <1>1, <1>9, <1>10, <1>11, <2>2
    <3> QED BY <1>2, <1>9, <1>12, <2>1, <3>1
  <2>3. CASE key = k /\ c \in 0 .. 2 /\ Releases(event)
    <3>1. CASE old = {}
      <4>1. Cardinality(new) = 0
        BY <2>1, <3>1, FS_EmptySet
      <4> QED BY <1>9, <4>1
    <3>2. CASE ~SpeakerOpen
      <4>1. keys = Speaker!NoKeys
        BY <3>2 DEF OnlyOpenIsHeld
      <4>2. old = {}
        BY <1>8, <4>1 DEF Speaker!With, Speaker!NoKeys, old
      <4> QED BY <3>1, <4>2
    <3>3. CASE SpeakerOpen /\ old # {}
      <4>1. Speaker!Write(event)
        BY <3>3 DEF SpeakerOpen, Write, WriteDevice
      <4>2. Speaker!Release(key)
        BY <1>1, <2>3, <4>1, SameEvent DEF Speaker!Write, Speaker!Voices, c, k
      <4>3. PICK v \in old :
              /\ v \in Speaker!Voices /\ keys[v] = key
              /\ keys' = [keys EXCEPT ![v] = Speaker!KEY_NONE]
        BY <1>7, <3>3, <4>2, ReleaseIs DEF old
      <4>4. keys'[v] = Speaker!KEY_NONE
        BY <1>7, <4>3 DEF Keyed
      <4> QED BY <1>8, <1>13, <4>3, <4>4
    <3> QED BY <3>1, <3>2, <3>3
  <2> QED BY <2>2, <2>3
<1>14. CASE ~UNCHANGED keys
  <2>1. Speaker!Write(event)
    BY <1>14 DEF Write, WriteDevice, speaker
  <2>2. /\ c \in 0 .. 2
        /\ (Presses(event) /\ Speaker!Press(k)) \/ (Releases(event) /\ Speaker!Release(k))
    <3>1. ~UNCHANGED Speaker!vars
      BY <1>14 DEF Speaker!vars
    <3> QED BY <2>1, <3>1, SameEvent, Zenon DEF Speaker!Write, Speaker!Voices, c, k
  <2>3. CASE Presses(event) /\ Speaker!Press(k)
    <3>1. PICK v \in Speaker!Voices :
            keys[v] = Speaker!KEY_NONE /\ keys' = [keys EXCEPT ![v] = k]
      <4>1. ~UNCHANGED Speaker!vars
        BY <1>14 DEF Speaker!vars
      <4> QED BY <1>1, <1>7, <2>3, <4>1, PressIs
    <3>2. CASE key # k
      <4>1. new = old
        BY <1>7, <1>8, <3>1, <3>2 DEF Speaker!With, Keyed, old, new
      <4>2. is = was
        BY <1>10, <3>2
      <4> QED BY <1>12, <4>1, <4>2
    <3>3. CASE key = k
      <4>1. new = old \union {v} /\ v \notin old
        BY <1>7, <1>8, <3>1, <3>3 DEF Speaker!With, Keyed, old, new
      <4>2. Cardinality(new) = Cardinality(old) + 1
        <5> QED BY <1>2, <4>1, FS_AddElement
      <4>3. is = was + 1
        BY <1>11, <2>2, <2>3, <3>3
      <4> QED BY <1>2, <1>9, <1>12, <4>2, <4>3
    <3> QED BY <3>2, <3>3
  <2>4. CASE Releases(event) /\ Speaker!Release(k)
    <3>1. PICK v \in Speaker!Voices :
            keys[v] = k /\ keys' = [keys EXCEPT ![v] = Speaker!KEY_NONE]
      BY <1>1, <1>7, <1>14, <2>4, ReleaseIs
    <3>2. CASE key # k
      <4>1. new = old
        BY <1>7, <1>8, <3>1, <3>2 DEF Speaker!With, Keyed, old, new
      <4>2. is = was
        BY <1>10, <3>2
      <4> QED BY <1>12, <4>1, <4>2
    <3>3. CASE key = k
      <4>1. new = old \ {v} /\ v \in old
        BY <1>7, <1>8, <3>1, <3>3 DEF Speaker!With, Keyed, old, new
      <4>2. Cardinality(new) = Cardinality(old) - 1
        <5> QED BY <1>2, <4>1, FS_RemoveElement
      <4>3. is >= was - 1
        BY <1>11, <2>2, <2>4, <3>3
      <4> QED BY <1>2, <1>9, <1>12, <4>2, <4>3
    <3> QED BY <3>2, <3>3
  <2> QED BY <2>2, <2>3, <2>4
<1> QED BY <1>13, <1>14

LEMMA SoundStep ==
  ASSUME TypeOK, RegistryInStep, OnlyOpenIsHeld, SoundIsHeld, [Next]_vars PROVE SoundIsHeld'
<1>0. TypeOK' /\ OnlyOpenIsHeld'
  BY TypeStep, OnlyOpenStep
<1>1. CASE stage' # "playing"
  BY <1>0, <1>1, QuietIsHeld
<1>2. CASE stage' = "playing" /\ UNCHANGED <<held, mpu, opl, keys, Opened>>
  <2>1. \A key : /\ Speaker!With(key)' = Speaker!With(key)
                 /\ HowOftenHeldKey(key)' = HowOftenHeldKey(key)
    BY <1>2 DEF Speaker!With, HowOftenHeldKey, HeldOn
  <2>2. \A n \in Notes : Held(n)' = Held(n)
    BY <1>2 DEF Held
  <2>3. /\ UNCHANGED <<good, sounding, pitch, drums, rhythm>> /\ sounding \subseteq Notes
    BY <1>2 DEF mpu, opl, TypeOK
  <2>4. good' => \A n \in sounding' : Held(n)'
    BY <2>2, <2>3 DEF SoundIsHeld
  <2>5. \A v \in Opl!Voices : pitch'[v] # Opl!Off =>
          \E n \in Notes : Held(n)' /\ n[1] = v /\ pitch'[v] = Opl!BlockFnum(n[2])
    BY <2>2, <2>3 DEF SoundIsHeld
  <2>6. rhythm' \subseteq UNION {Opl!Drum(n[2]) : n \in {m \in Notes : Held(m)' /\ m[1] = DrumsChannel}}
    BY <2>2, <2>3 DEF SoundIsHeld
  <2>7. \A key \in 0 .. 127 : Cardinality(Speaker!With(key)') <= HowOftenHeldKey(key)'
    BY <2>1 DEF SoundIsHeld
  <2> QED BY <1>2, <2>3, <2>4, <2>5, <2>6, <2>7 DEF SoundIsHeld
<1>3. ASSUME NEW event \in Events, Write(event) PROVE SoundIsHeld'
  <2>1. good' => \A n \in sounding' : Held(n)'
    BY <1>3, MpuIsHeld
  <2>2. /\ \A v \in Opl!Voices : pitch'[v] # Opl!Off =>
             \E n \in Notes : Held(n)' /\ n[1] = v /\ pitch'[v] = Opl!BlockFnum(n[2])
        /\ \A d \in rhythm' :
             \E n \in Notes : Held(n)' /\ n[1] = DrumsChannel /\ d \in Opl!Drum(n[2])
        /\ "opl" \in Opened' => drums' = rhythm'
    BY <1>3, OplIsHeld
  <2>3. \A key \in 0 .. 127 : Cardinality(Speaker!With(key)') <= HowOftenHeldKey(key)'
    BY <1>3, SpeakerIsHeld
  <2>4. rhythm' \subseteq UNION {Opl!Drum(n[2]) : n \in {m \in Notes : Held(m)' /\ m[1] = DrumsChannel}}
    BY <2>2
  <2> QED BY <2>1, <2>2, <2>3, <2>4 DEF SoundIsHeld
<1>4. CASE Tick
  <2>1. UNCHANGED <<held, mpu, opl>> /\ UNCHANGED <<given, registry>>
    BY <1>4 DEF Tick
  <2>2. UNCHANGED keys
    BY <1>4 DEF Tick, Speaker!Tick, Speaker!Quiet, Speaker!Sweep, Speaker!vars
  <2>3. UNCHANGED Opened /\ stage' = "playing"
    BY <1>4, <2>1 DEF Opened, Tick, Playing, registry
  <2> QED BY <1>2, <2>1, <2>2, <2>3
<1>5. CASE KeepDriver \/ Initialized \/ UNCHANGED vars
  <2>1. UNCHANGED <<held, devices, device, slots>> /\ (stage' = "playing" => stage # "done")
    BY <1>5 DEF KeepDriver, Initialized, vars, registry
  <2>2. CASE stage' = "playing"
    <3>1. UNCHANGED Opened
      BY <2>1, <2>2 DEF Opened
    <3>2. UNCHANGED <<mpu, opl, keys>>
      BY <2>1 DEF devices, speaker
    <3> QED BY <1>2, <2>1, <2>2, <3>1, <3>2
  <2> QED BY <1>1, <2>2
<1>6. CASE SkipDriver \/ StrandDriver \/ LoadDriver \/ LoadInbox \/ PassBy \/ DropDriver \/ Cleanup
  BY <1>1, <1>6 DEF SkipDriver, StrandDriver, LoadDriver, LoadInbox, PassBy, DropDriver, Cleanup, Trying
<1>7. CASE \E opened \in BOOLEAN : TryOpen(opened)
  BY <1>1, <1>7 DEF TryOpen, Trying
<1> QED BY <1>3, <1>4, <1>5, <1>6, <1>7 DEF Next

------------------------------------------------------------------------------
(* The speaker's voices.                                                   *)
LEMMA DivisorsStep ==
  ASSUME TypeOK, DivisorsAreRecent, [Next]_vars PROVE DivisorsAreRecent'
<1>1. Keyed
  BY DEF TypeOK, Keyed
<1>2. /\ \A v \in Speaker!Voices : keys[v] # Speaker!KEY_NONE =>
           keys[v] \in recent /\ divs[v] = Speaker!Divisor(keys[v])
      /\ \/ voice = 0 /\ \A v \in Speaker!Voices : keys[v] = Speaker!KEY_NONE
         \/ \E key \in recent : divs[voice] = Speaker!Divisor(key)
  BY DEF DivisorsAreRecent, Speaker!Playing
<1> SUFFICES
      /\ \A v \in Speaker!Voices : keys'[v] # Speaker!KEY_NONE =>
           keys'[v] \in recent' /\ divs'[v] = Speaker!Divisor(keys'[v])
      /\ \/ voice' = 0 /\ \A v \in Speaker!Voices : keys'[v] = Speaker!KEY_NONE
         \/ \E key \in recent' : divs'[voice'] = Speaker!Divisor(key)
  BY DEF DivisorsAreRecent, Speaker!Playing
<1>3. CASE UNCHANGED <<keys, divs, voice, recent>>
  BY <1>2, <1>3
<1>4. CASE keys' = Speaker!NoKeys /\ voice' = 0
  BY <1>4 DEF Speaker!NoKeys
<1>5. ASSUME NEW key \in 0 .. 127, Speaker!Press(key), ~UNCHANGED Speaker!vars
      PROVE  DivisorsAreRecent'
  <2> DEFINE d == Speaker!Divisor(key)
  <2>1. PICK v \in Speaker!Voices :
          /\ keys[v] = Speaker!KEY_NONE
          /\ keys' = [keys EXCEPT ![v] = key]
          /\ divs' = [divs EXCEPT ![v] = d]
          /\ \A w \in Speaker!Voices : keys[w] = Speaker!KEY_NONE => v <= w
    BY <1>1, <1>5, PressIs
  <2>2. recent' = recent \union {key} /\ voice' = voice
    BY <1>1, <1>5, PressIs
  <2> HIDE DEF d
  <2>3. /\ keys \in [Speaker!Voices -> {Speaker!KEY_NONE} \union (Speaker!KEY_MIN .. 127)]
        /\ divs \in [Speaker!Voices -> Nat] /\ voice \in Speaker!Voices
    BY <1>1 DEF Keyed
  <2>4. keys'[v] = key /\ divs'[v] = d
    BY <2>1, <2>3
  <2>5. \A w \in Speaker!Voices : w # v => keys'[w] = keys[w] /\ divs'[w] = divs[w]
    BY <2>1, <2>3
  <2>6. \A w \in Speaker!Voices : keys'[w] # Speaker!KEY_NONE =>
          keys'[w] \in recent' /\ divs'[w] = Speaker!Divisor(keys'[w])
    BY <1>2, <2>2, <2>4, <2>5 DEF d
  <2>7. voice = v => \E k \in recent' : divs'[voice'] = Speaker!Divisor(k)
    BY <2>2, <2>4 DEF d
  <2>8. CASE voice = 0 /\ \A w \in Speaker!Voices : keys[w] = Speaker!KEY_NONE
    <3>1. voice = v
      BY <2>1, <2>3, <2>8 DEF Speaker!Voices
    <3> QED BY <2>6, <2>7, <3>1 DEF DivisorsAreRecent, Speaker!Playing
  <2>9. CASE \E k \in recent : divs[voice] = Speaker!Divisor(k)
    <3>1. voice # v => divs'[voice'] = divs[voice]
      BY <2>2, <2>3, <2>5
    <3> QED BY <2>2, <2>6, <2>7, <2>9, <3>1 DEF DivisorsAreRecent, Speaker!Playing
  <2> QED BY <1>2, <2>8, <2>9
<1>6. ASSUME NEW key \in 0 .. 127, Speaker!Release(key) PROVE DivisorsAreRecent'
  <2>1. CASE UNCHANGED <<keys, divs, voice, recent>>
    BY <1>3, <2>1 DEF DivisorsAreRecent, Speaker!Playing
  <2>2. CASE ~UNCHANGED <<keys, divs, voice, recent>>
    <3>1. PICK v \in Speaker!Voices :
            keys' = [keys EXCEPT ![v] = Speaker!KEY_NONE] /\ UNCHANGED <<divs, voice, recent>>
      BY <1>1, <1>6, <2>2, ReleaseIs
    <3>2. \A w \in Speaker!Voices : keys'[w] \in {keys[w], Speaker!KEY_NONE}
      BY <1>1, <3>1 DEF Keyed
    <3> QED BY <1>2, <3>1, <3>2 DEF DivisorsAreRecent, Speaker!Playing
  <2> QED BY <2>1, <2>2
<1>7. CASE Speaker!Quiet /\ Speaker!Playing = {}
  BY <1>7 DEF Speaker!Quiet, Speaker!Playing
<1>8. CASE Speaker!Sweep /\ Speaker!Playing # {}
  <2>1. /\ voice' = Speaker!After(voice) /\ recent' = {keys[v] : v \in Speaker!Playing}
        /\ UNCHANGED <<keys, divs>>
    BY <1>8 DEF Speaker!Sweep
  <2>2. voice' \in Speaker!Playing
    BY <1>1, <1>8, <2>1, AfterIs
  <2>3. voice' \in Speaker!Voices /\ keys[voice'] # Speaker!KEY_NONE /\ keys[voice'] \in recent'
    BY <2>1, <2>2 DEF Speaker!Playing
  <2>4. \A v \in Speaker!Voices : keys[v] # Speaker!KEY_NONE => keys[v] \in recent'
    BY <2>1 DEF Speaker!Playing
  <2> QED BY <1>2, <2>1, <2>3, <2>4
<1>9. CASE UNCHANGED speaker
  BY <1>3, <1>9 DEF speaker
<1>10. ASSUME NEW event \in Events, Write(event) PROVE DivisorsAreRecent'
  <2>1. CASE UNCHANGED Speaker!vars
    BY <1>3, <2>1 DEF Speaker!vars, DivisorsAreRecent, Speaker!Playing
  <2>2. CASE ~UNCHANGED Speaker!vars
    <3>1. Speaker!Write(event)
      BY <1>10, <2>2 DEF Write, WriteDevice, Speaker!vars, speaker
    <3>2. Speaker!Press(Key(event)) \/ Speaker!Release(Key(event))
      BY <2>2, <3>1, SameEvent, Zenon DEF Speaker!Write
    <3> QED BY <1>5, <1>6, <2>2, <3>2, EventIs
  <2> QED BY <2>1, <2>2
<1>11. CASE Tick
  BY <1>3, <1>7, <1>8, <1>11 DEF Tick, Speaker!Tick, Speaker!vars
<1>12. CASE \E opened \in BOOLEAN : TryOpen(opened)
  <2>1. UNCHANGED speaker \/ \E o : Speaker!Open(o)
    BY <1>12 DEF TryOpen, OpenDevice
  <2> QED BY <1>3, <1>4, <1>9, <2>1 DEF Speaker!Open, Speaker!vars
<1>13. CASE Cleanup
  <2>1. UNCHANGED speaker \/ \E o : Speaker!Close(o)
    BY <1>13 DEF Cleanup, CloseDevice, devices
  <2> QED BY <1>4, <1>9, <2>1 DEF Speaker!Close
<1>14. CASE SkipDriver \/ StrandDriver \/ LoadDriver \/ LoadInbox \/ PassBy \/ KeepDriver \/ DropDriver \/ Initialized
  BY <1>9, <1>14 DEF SkipDriver, StrandDriver, LoadDriver, LoadInbox, PassBy, KeepDriver, DropDriver, Initialized, devices
<1>15. CASE UNCHANGED vars
  BY <1>9, <1>15 DEF vars, devices
<1> QED BY <1>10, <1>11, <1>12, <1>13, <1>14, <1>15 DEF Next, DivisorsAreRecent, Speaker!Playing

------------------------------------------------------------------------------
(* The registry and the drivers move in step, only an open device has      *)
(* anything, and what sounds is a key that is held (snd.c, d-driver.c).    *)
THEOREM SoundDevicesInvariant == Spec => []IInv
<1>1. IInv /\ [Next]_vars => IInv'
  BY TypeStep, RegistryStep, OnlyOpenStep, SoundStep, DivisorsStep DEF IInv
<1>2. QED BY InitIInv, <1>1, PTL DEF Spec

(* Whatever fails or is closed gives back its driver, its ports, periods   *)
(* and timers, and its synthesizer (snd.c, d-driver.c, dmme.c, dfluid.c).  *)
THEOREM SoundDevicesLeaveNothing == Spec => []NothingLeftBehind
<1>1. ASSUME IInv, stage \in {"playing", "done"} PROVE NothingLeftBehind
  <2>0. TypeOK /\ RegistryInStep /\ OnlyOpenIsHeld
    BY <1>1 DEF IInv
  <2>1. OpenName = Opened
    BY <1>1 DEF OpenName, Opened, Playing
  <2>2. /\ ports \union periods \union timers \subseteq OpenName
        /\ objects \intersect {"synth", "audio"} # {} => "fluid" \in OpenName
    BY <2>0, <2>1 DEF OnlyOpenIsHeld
  <2>3. slots \in [Slots -> Names \union {None}] /\ device \in Slots \union {None}
    BY <2>0 DEF TypeOK
  <2>4. None \notin ToSet(build.drivers)
        /\ ToSet(build.drivers) \intersect ToSet(build.inbox) = {}
    BY <2>0, BuildNames
  <2>5. ToSet(slots) \subseteq {slots[i] : i \in Slots}
    BY <2>3 DEF ToSet
  <2>6. CASE Kept = {} /\ InSlots(ToSet(build.inbox))
    <3>1. device # None /\ stage = "playing" => slots[device] \in ToSet(build.inbox)
      BY <2>0, <2>3, <2>6 DEF RegistryInStep, InSlots
    <3>2. OpenName \intersect ToSet(build.drivers) = {}
      BY <2>4, <3>1 DEF OpenName, Playing
    <3> QED BY <2>2, <2>5, <2>6, <3>2 DEF NothingLeftBehind, InSlots
  <2>7. CASE /\ stage = "playing" /\ driver \in ToSet(build.drivers) /\ Kept = {driver}
             /\ InSlots({driver}) /\ device # None
    <3>1. slots[device] = driver
      BY <2>0, <2>3, <2>7 DEF RegistryInStep, InSlots
    <3>2. OpenName \intersect ToSet(build.drivers) = {driver}
      BY <2>7, <3>1 DEF OpenName, Playing
    <3> QED BY <2>2, <2>5, <2>7, <3>2 DEF NothingLeftBehind, InSlots
  <2> QED BY <1>1, <2>0, <2>6, <2>7 DEF RegistryInStep
<1>2. IInv => NothingLeftBehind
  BY <1>1 DEF NothingLeftBehind
<1>3. QED BY <1>2, SoundDevicesInvariant, PTL

(* No device plays a key that was released as often as it was pressed, and *)
(* none plays anything after the cleanup (dmpu401.c, dopl2.c, dbeep.c).    *)
THEOREM SoundDevicesFallSilent == Spec => []ReleasedKeysFallSilent
<1>1. ASSUME IInv PROVE ReleasedKeysFallSilent
  <2>1. TypeOK /\ SoundIsHeld
    BY <1>1 DEF IInv
  <2>2. \A v \in Speaker!Playing : keys[v] \in 0 .. 127
    BY <2>1 DEF TypeOK, Speaker!Playing, Speaker!KEY_MIN
  <2>3. \A v \in Speaker!Playing : Cardinality(Speaker!With(keys[v])) <= HowOftenHeldKey(keys[v])
    BY <2>1, <2>2 DEF SoundIsHeld
  <2> QED BY <2>1, <2>3 DEF ReleasedKeysFallSilent, SoundIsHeld
<1>2. QED BY <1>1, SoundDevicesInvariant, PTL

(* The speaker sounds the divisor of a key that had a voice since the last *)
(* sweep, and all of it (dbeep.c).                                         *)
THEOREM SoundDevicesToneWasHeld == Spec => ToneWasHeld
<1>1. ASSUME IInv, Playing, Speaker!Playing # {}, Speaker!Sweep
      PROVE  tone' \in {Speaker!Divisor(k) : k \in recent}
  <2>1. DivisorsAreRecent
    BY <1>1 DEF IInv
  <2>2. \E key \in recent : divs[voice] = Speaker!Divisor(key)
    BY <1>1, <2>1 DEF DivisorsAreRecent
  <2> QED BY <1>1, <2>2 DEF Speaker!Sweep
<1>2. IInv /\ [Next]_vars
        => [Playing /\ Speaker!Playing # {} /\ Speaker!Sweep
              => tone' \in {Speaker!Divisor(k) : k \in recent}]_vars
  BY <1>1
<1>3. QED BY <1>2, SoundDevicesInvariant, PTL DEF ToneWasHeld, Spec
==============================================================================
