------------------------------- MODULE Mpu401 -------------------------------
(***************************************************************************)
(* snd/dmpu401.c: a synthesizer behind a port that takes one byte at a     *)
(* time, each of them within a deadline.  The first deadline that is       *)
(* missed gives the device up: what follows is not written any more.       *)
(* Whether a deadline is missed, and what the port answers, is left to     *)
(* chance.  The synthesizer plays a message when it has all of it.         *)
(***************************************************************************)
EXTENDS SoundEvents

VARIABLES
  good,           \* is_good
  sounding        \* external: the notes that the synthesizer plays

vars == <<good, sounding>>
Init == good = FALSE /\ sounding = {}

(* __mpu401_init(), for the copy of the device that gets registered.       *)
Registered == good' = FALSE /\ UNCHANGED sounding

(* The reset is acknowledged in time, even if it had to be written late,   *)
(* and the UART mode can be entered.  The programs that are then set       *)
(* never leave: the device is not good yet.                                *)
Open(opened) == good' = (opened \/ good) /\ UNCHANGED sounding

Played(event) ==
  CASE Presses(event)  -> sounding \union {event.note}
    [] Releases(event) -> sounding \ {event.note}
    [] OTHER           -> sounding

(* The deadline of one of its bytes is missed: the rest stays unwritten.   *)
(* Mutant: what comes after a missed deadline is tried all the same.       *)
KeepTrying == UNCHANGED vars
GiveUp == good' = FALSE /\ UNCHANGED sounding

Write(event) ==
  IF good /\ event.status # "meta"
  THEN (good' = TRUE /\ sounding' = Played(event)) \/ GiveUp
  ELSE UNCHANGED vars

(* The notes of one channel after the other are turned off, with two more  *)
(* messages that may miss a deadline, then the port is reset, whatever     *)
(* comes of it.                                                            *)
Close ==
  IF good
  THEN \E silenced \in 0 .. 16, met \in BOOLEAN :
         /\ good' = (met /\ silenced = 16)
         /\ sounding' = {note \in sounding : note[1] >= silenced}
  ELSE UNCHANGED vars
==============================================================================
