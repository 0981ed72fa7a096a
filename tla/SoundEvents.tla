---------------------------- MODULE SoundEvents ----------------------------
(* A MIDI message as the sound drivers of snd/ tell messages apart: its    *)
(* status, the note it is about, and whether its velocity is above zero.   *)
(* The sequencer reads a status as it stands, and a key below 128.         *)
EXTENDS Naturals

CONSTANTS Notes         \* pairs of a channel and a key
DrumsChannel == 9       \* MIDI_DRUMS_CHANNEL
Channels == 0 .. 15

Events ==
  [status : {"on", "off"}, note : Notes, loud : BOOLEAN]
    \union [status : {"other", "meta"}, note : Notes, loud : {FALSE}]

IsNote(event) == event.status \in {"on", "off"}
Releases(event) == event.status = "off" \/ (event.status = "on" /\ ~event.loud)
Presses(event) == event.status = "on" /\ event.loud
Channel(event) == event.note[1]
Key(event) == event.note[2]
==============================================================================
