------------------------------ MODULE MCAssets ------------------------------
(* Three scripts, of which one calls for a key, two pictures that a        *)
(* pattern finds, one of a size that overflows, and a song, with three     *)
(* slots, two buffers and two blocks, so that slots, buffers, memory and   *)
(* handles all run out.                                                    *)
EXTENDS Assets

CONSTANTS root, stored, sealed, low, high, odd, tune, ico

MCBuilds == {<<"xms", TRUE>>, <<"far", TRUE>>, <<"linux", TRUE>>, <<"windows", FALSE>>}
MCPatterns == {<<high>>, <<low, high>>, <<odd>>}
MCSize == [f \in Files |-> IF f = odd THEN 64 ELSE IF f \in {high, tune} THEN 2 ELSE 1]

(* A bound: once a block in extended memory was not filled, what the users *)
(* do is not followed; the other builds follow it.                         *)
Followed == platform = "xms" => ~spoilt

=============================================================================
