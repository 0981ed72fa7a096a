--------------------------- MODULE UnlockPromise ---------------------------
(***************************************************************************)
(* What unlocking promises to the presentation, whatever asks for the key, *)
(* however often it was wrong and whenever the program is stopped: a       *)
(* script is opened by its own key and by nothing else, it runs only once  *)
(* it is open, and a key that is kept is the key of what it opens.         *)
(* A script is a record of which the promise knows the key.                *)
(***************************************************************************)
CONSTANTS Scripts, Keys, NoKey, NoScript

VARIABLES
  opened,         \* scripts whose text is plain in memory
  runs,           \* the script that runs, if any
  offered,        \* the key that was tried last, NoKey if it is none
  kept            \* scripts whose key has been kept for the next time

promise == <<opened, runs, offered, kept>>

OpenedBy(k) == {s \in Scripts : s.key = k}

PromiseInit ==
  /\ opened = {} /\ runs = NoScript /\ offered = NoKey
  /\ kept \subseteq Scripts

(* A key is tried on a script.  Only its own opens it, and only then may   *)
(* it be kept, also for others that have the same; keeping it may also     *)
(* fail and cost another one that was.                                     *)
Try(s, k) ==
  /\ runs = NoScript /\ s \notin opened
  /\ offered' = k
  /\ \/ UNCHANGED <<opened, kept>>
     \/ k = s.key /\ opened' = opened \union {s} /\ kept' \subseteq kept \union OpenedBy(k)
  /\ UNCHANGED runs

Run(s) ==
  /\ runs = NoScript /\ s \in opened
  /\ runs' = s /\ offered' = NoKey
  /\ UNCHANGED <<opened, kept>>

Return ==
  /\ runs # NoScript
  /\ runs' = NoScript
  /\ UNCHANGED <<opened, offered, kept>>

Forget ==
  /\ runs = NoScript
  /\ offered' = NoKey
  /\ UNCHANGED <<opened, runs, kept>>

(* The program is stopped, perhaps while it keeps a key.                   *)
Restart ==
  /\ opened' = {} /\ runs' = NoScript /\ offered' = NoKey
  /\ \E k \in Keys \union {NoKey} : kept' \subseteq kept \union OpenedBy(k)

PromiseNext ==
  \/ \E s \in Scripts, k \in Keys \union {NoKey} : Try(s, k)
  \/ \E s \in Scripts : Run(s)
  \/ Return \/ Forget \/ Restart

PromiseSpec == PromiseInit /\ [][PromiseNext]_promise

==============================================================================
