-------------------------------- MODULE Opl2 --------------------------------
(***************************************************************************)
(* snd/dopl2.c: six voices, one for each of the first channels, and five   *)
(* drums that share a register of which the driver keeps a copy.  A voice  *)
(* holds the block and the number that the driver computes for a key; the  *)
(* patches' registers are left out, and with them the programs, of which   *)
(* one for the drums' channel lands outside of the driver's tables.        *)
(***************************************************************************)
EXTENDS SoundEvents

VARIABLES
  pitch,          \* of each voice: <<block, number>> with the key on, or Off
  drums,          \* _drums
  rhythm          \* the drums in OPL2_REG_DEPTH_RHYTHM

vars == <<pitch, drums, rhythm>>
Voices == 0 .. 5
Off == <<>>
Silence == [v \in Voices |-> Off]
Init == pitch = Silence /\ drums = {} /\ rhythm = {}

OPL2_MIDI_FNUM ==
  <<345, 365, 387, 410, 435, 460, 488, 517, 547, 580, 615, 651,
    690, 731, 774, 820, 869, 921, 975, 517, 547, 580, 615, 651>>

(* _get_block_fnum()                                                       *)
BlockFnum(key) ==
  LET octaves == IF key > 19 THEN (key - 19) \div 12 ELSE 0
  IN  <<IF octaves > 7 THEN 7 ELSE octaves,
        OPL2_MIDI_FNUM[1 + (IF key < 12 THEN key ELSE 12 + (key % 12))]>>

(* _get_drum()                                                             *)
Drum(key) ==
  CASE key \in {35, 36}                 -> {"bass drum"}
    [] key \in {38, 39, 40}             -> {"snare drum"}
    [] key \in {41, 43, 45, 47, 50}     -> {"tom-tom"}
    [] key \in {42, 44, 46}             -> {"hi-hat"}
    [] key \in {49, 51, 52, 55, 57, 59} -> {"cymbal"}
    [] OTHER                            -> {}

(* _reset() clears every register, but not the driver's copy.              *)
Reset == pitch' = Silence /\ rhythm' = {} /\ UNCHANGED drums

(* The timer's flags tell whether the chip is there.                       *)
Open(opened) == IF opened THEN Reset ELSE UNCHANGED vars
Close == Reset

Set(voice, what) == pitch' = [pitch EXCEPT ![voice] = what] /\ UNCHANGED <<drums, rhythm>>
SetDrums(which) == drums' = which /\ rhythm' = which /\ UNCHANGED pitch

Write(event) ==
  LET channel == Channel(event)
      key == Key(event)
  IN  CASE channel = DrumsChannel /\ Presses(event)  -> SetDrums(drums \union Drum(key))
        [] channel = DrumsChannel /\ Releases(event) -> SetDrums(drums \ Drum(key))
        [] channel \in Voices /\ Presses(event)      -> Set(channel, BlockFnum(key))
        [] channel \in Voices /\ Releases(event)     -> Set(channel, Off)
        [] OTHER                                     -> UNCHANGED vars
==============================================================================
