-------------------------------- MODULE Beep --------------------------------
(***************************************************************************)
(* snd/dbeep.c: the notes of the first three channels share three voices,  *)
(* which the one speaker sounds in turn, each for a sweep.  A voice        *)
(* remembers its divisor when its key is released, and the voice that is   *)
(* next is chosen one sweep ahead.                                         *)
(***************************************************************************)
EXTENDS SoundEvents

VARIABLES
  open,           \* whether dev->data is allocated
  keys,           \* key of each voice, or KEY_NONE
  divs,           \* div: the divisor of each voice, 0 at first
  voice,          \* the voice to sound next
  tone,           \* external: the divisor that the speaker sounds, or Silent
  recent          \* history: the keys that had a voice since the last sweep

vars == <<open, keys, divs, voice, tone, recent>>
Voices == 0 .. 2
KEY_NONE == 255
KEY_MIN == 14
Silent == 65536         \* no divisor of 16 bits
NoKeys == [v \in Voices |-> KEY_NONE]
Zeros == [v \in Voices |-> 0]
Init ==
  /\ open = FALSE /\ keys = NoKeys /\ divs = Zeros /\ voice = 0
  /\ tone = Silent /\ recent = {}

(* Memory may be short.                                                    *)
Open(opened) ==
  IF opened
  THEN /\ open' = TRUE /\ keys' = NoKeys /\ divs' = Zeros /\ voice' = 0
       /\ recent' = {} /\ UNCHANGED tone
  ELSE UNCHANGED vars

(* The speaker goes on with what it sounds, unless the platform stops it.  *)
Close(stopped) ==
  /\ open' = FALSE /\ keys' = NoKeys /\ divs' = Zeros /\ voice' = 0
  /\ recent' = {} /\ tone' = IF stopped THEN Silent ELSE tone

(* The fractions of an octave above A, in 256ths, and the divisor of a key *)
(* in whole numbers, of which 16 bits are kept.                            *)
KEY_MULTIPLIERS == <<0, 15, 31, 48, 67, 86, 106, 128, 150, 175, 200, 227>>
KEY_A4 == 69
FREQ_A4 == 440
INPUT_FREQ_U32F8 == 305454507
Octaves(semitones) == 2 ^ (semitones \div 12)
Ratio(semitones) == 256 + KEY_MULTIPLIERS[1 + (semitones % 12)]
Frequency(key) ==
  IF KEY_A4 < key THEN FREQ_A4 * Octaves(key - KEY_A4) * Ratio(key - KEY_A4)
  ELSE ((FREQ_A4 * 65536) \div Octaves(KEY_A4 - key)) \div Ratio(KEY_A4 - key)
Divisor(key) == INPUT_FREQ_U32F8 \div Frequency(key)

(* _find_slot(): the first voice with a key.                               *)
With(key) == {v \in Voices : keys[v] = key}
FirstOf(voices) == CHOOSE v \in voices : \A w \in voices : v <= w

(* Mutant: there is no lowest key.                                         *)
AnyAudible(key) == TRUE
Audible(key) == KEY_MIN <= key

Press(key) ==
  IF Audible(key) /\ With(KEY_NONE) # {}
  THEN LET v == FirstOf(With(KEY_NONE))
       IN  /\ keys' = [keys EXCEPT ![v] = key]
           /\ divs' = [divs EXCEPT ![v] = Divisor(key) % 65536]
           /\ recent' = recent \union {key}
           /\ UNCHANGED <<open, voice, tone>>
  ELSE UNCHANGED vars

Release(key) ==
  IF With(key) # {}
  THEN keys' = [keys EXCEPT ![FirstOf(With(key))] = KEY_NONE]
       /\ UNCHANGED <<open, divs, voice, tone, recent>>
  ELSE UNCHANGED vars

Write(event) ==
  CASE Channel(event) \in Voices /\ Presses(event)  -> Press(Key(event))
    [] Channel(event) \in Voices /\ Releases(event) -> Release(Key(event))
    [] OTHER                                        -> UNCHANGED vars

(* Whether a sweep has passed is left to chance.                           *)
Playing == {v \in Voices : keys[v] # KEY_NONE}
After(v) == IF (v + 1) % 3 \in Playing THEN (v + 1) % 3
            ELSE IF (v + 2) % 3 \in Playing THEN (v + 2) % 3 ELSE v

Quiet == tone' = Silent /\ voice' = 0 /\ recent' = {} /\ UNCHANGED <<open, keys, divs>>
Sweep ==
  /\ tone' = divs[voice] /\ voice' = After(voice)
  /\ recent' = {keys[v] : v \in Playing}
  /\ UNCHANGED <<open, keys, divs>>

Tick == IF Playing = {} THEN Quiet ELSE Sweep \/ UNCHANGED vars
==============================================================================
