---------------------------- MODULE MCSequencer ----------------------------
(* Two songs over packets of two bytes: one ends in the first packet, one  *)
(* at the border of the second, one after the ring has gone round.         *)
EXTENDS Sequencer

MCLengths == {<<0, 1>>, <<2, 0>>, <<3, 1>>}
=============================================================================
