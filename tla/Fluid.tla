-------------------------------- MODULE Fluid --------------------------------
(***************************************************************************)
(* snd/dfluid.c: FluidSynth, and beside it, when it is asked for, a device *)
(* that emulates the speaker and gets the same messages and ticks.  What   *)
(* the synthesizer plays is left to it, and how often SDL's audio was      *)
(* started is left out.                                                    *)
(***************************************************************************)
VARIABLES
  objects,        \* which of _settings, _synth and _audio exist
  beeps           \* whether _beep.ops is set

vars == <<objects, beeps>>
Init == objects = {} /\ beeps = FALSE

(* __fluid_init(): linux_beepemu_enabled().                                *)
Registered(emulation) == beeps' = emulation /\ UNCHANGED objects

(* What there is when opening fails: the synthesizer is deleted when no    *)
(* SoundFont or no audio driver is found, the settings are not.            *)
Fails == objects' \in {objects, {"settings"}} /\ UNCHANGED beeps

(* The speaker is done without when its device does not open.              *)
Opens == objects' = {"settings", "synth", "audio"} /\ beeps' \in {FALSE, beeps}

Open(opened) == IF opened THEN Opens ELSE Fails

Close == objects' = {} /\ UNCHANGED beeps
==============================================================================
