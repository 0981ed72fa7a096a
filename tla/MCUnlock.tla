------------------------------ MODULE MCUnlock ------------------------------
(* One script for each source of a key; some presentations have two of     *)
(* them, of which two share the id of their plain text but not the key.    *)
EXTENDS RemoteUnlock

Script(name, cipher, parameter, online, its, brings, id) ==
  [file |-> name, method |-> cipher, parameter |-> parameter, online |-> online,
   key |-> its, data |-> brings, crc |-> id]

Inline == Script("inline", "xor", 0, FALSE, <<1, 1>>, <<1, 1>>, 1)
Mistyped == Script("mistyped", "des", 0, FALSE, <<1, 1>>, <<1, 2>>, 1)
Strange == Script("strange", "des", 9, FALSE, <<1, 1>>, <<1, 1>>, 1)
Asked == Script("asked", "xor", 1, FALSE, <<1, 2>>, <<1, 1>>, 1)
Product == Script("product", "des", 8, FALSE, <<2, 1>>, <<1, 1>>, 1)
Split == Script("split", "xor", 8, FALSE, <<2, 1>>, <<2, 2>>, 1)
Disk == Script("disk", "xor", 9, FALSE, <<2, 1>>, <<1, 1>>, 1)
Online == Script("online", "tdes", 9, TRUE, <<1, 2>>, <<1, 1>>, 1)
Offline == Script("offline", "tdes", 9, FALSE, <<1, 2>>, <<1, 1>>, 1)

MCScripts == {Inline, Mistyped, Strange, Asked, Product, Split, Disk, Online, Offline}
MCArchives == {{Inline, Mistyped}, {Strange, Split}, {Asked, Product}, {Disk}, {Online}, {Offline}}
MCDriveLists ==
  {<<>>,
   <<[faults |-> 2, label |-> TRUE, serial |-> 2]>>,
   <<[faults |-> 3, label |-> TRUE, serial |-> 2], [faults |-> 0, label |-> TRUE, serial |-> 1]>>}
MCCodes == {<<1, 2>>}
MCAnswers == {[status |-> 200, text |-> "code", key |-> <<1, 2>>],
              [status |-> 403, text |-> "detail", key |-> <<1, 1>>]}

(* Bounds of what is followed.  WinInet's exchange is with one state of    *)
(* the store, which it has nothing to do with; and once a callback has met *)
(* with what was not its own, the attempt that it met is followed as long  *)
(* as its page is shown, and no other one.                                 *)
Followed ==
  /\ page = "inet" /\ build = "windows" => ~machine /\ \A c \in Crcs : store[c] = NoEntry
  /\ stray => page = "inet"

=============================================================================
