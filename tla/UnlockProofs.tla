---------------------------- MODULE UnlockProofs ----------------------------
(***************************************************************************)
(* Whatever brings the key, the unlock implements its promise, and what    *)
(* runs is plain to its last byte: for all scripts, keys and services.     *)
(***************************************************************************)
EXTENDS RemoteUnlock, WellFoundedInduction, TLAPS

------------------------------------------------------------------------------
(* The state as far as it is proved about: what is in memory and in the    *)
(* key store, ...                                                          *)
MemoryTypeOK ==
  /\ archive \in Archives
  /\ content \in [Scripts -> [plain : BOOLEAN, sized : BOOLEAN]]
  /\ store \in [Crcs -> Entry]
  /\ key \in Keys \union {NoKey}
  /\ phase \in {"idle", "unlock", "run", "failed"}
  /\ phase # "idle" => call \in archive

(* ... and where the parts of a key come from.                             *)
Heard == Answers \union {Broken(a) : a \in Answers} \union {NoAnswer}
SourcesTypeOK ==
  /\ local \in Parts \union {NoPart}
  /\ response \in Keys \union {NoKey}
  /\ incoming \in Heard

(* A padded text that is plain has its size behind it: else it would be    *)
(* taken for a sealed one and deciphered again.                            *)
PlainIsSized == \A s \in Scripts : content[s].plain => content[s].sized = Padded(s)

(* Where a call is, by what has become of its text.                        *)
CallInOrder ==
  /\ phase = "unlock" /\ enc # "complete" => ~content[call].plain
  /\ phase = "run" \/ (phase = "unlock" /\ enc = "complete")
       => content[call].plain /\ size = PlainSize(call)

IInv == MemoryTypeOK /\ PlainIsSized /\ CallInOrder

(* What steps of the dialogs and the network leave alone.                  *)
Quiet == UNCHANGED <<platform, content, store, call, phase, enc, key, size, starved>>

(* A key is asked for, after one from the store has been tried or not.     *)
Asks ==
  /\ NoStoredKey
  /\ phase' = phase /\ enc' \in {"read", "verify"}

Tries ==
  /\ Reading
  /\ \E k \in Keys \union {NoKey}, save \in BOOLEAN : Attempt(k, save)

Refuses == Reading /\ Refuse /\ UNCHANGED <<platform, content, store, starved>>

Stops ==
  /\ Restarted
  /\ \/ UNCHANGED store
     \/ Reading /\ store' \in Saved(call, call.key)

Kinds ==
  \/ Quiet \/ \E s \in archive : Prepare(s)
  \/ Enter \/ Return \/ UseStoredKey \/ Asks \/ Verify \/ Tries \/ Refuses \/ Stops

USE DEF platform

------------------------------------------------------------------------------
LEMMA ScriptsAre ==
  ASSUME NEW s \in Scripts
  PROVE  /\ s.key \in Keys /\ s.data \in Keys /\ s.crc \in Crcs /\ s # NoScript
BY ScriptsAssumption DEF ScriptsAssumption, Crcs

LEMMA ArchiveIsOfScripts ==
  ASSUME archive \in Archives
  PROVE  archive \subseteq Scripts /\ NoScript \notin archive
BY ScriptsAssumption DEF ScriptsAssumption

LEMMA LeastNumber ==
  ASSUME NEW S, S \subseteq Nat, S # {}
  PROVE  \E x \in S : \A y \in S : x <= y
<1>1. PICK x \in S : \A y \in S : ~(<<y, x>> \in OpToRel(<, Nat))
  BY NatLessThanWellFounded, WFMin
<1>2. ASSUME NEW y \in S PROVE x <= y
  <2>1. y \in Nat /\ x \in Nat
    OBVIOUS
  <2>2. y < x => <<y, x>> \in OpToRel(<, Nat)
    BY <2>1, Zenon DEF OpToRel
  <2>3. ~(y < x)
    BY <1>1, <2>2
  <2> QED
    BY <2>1, <2>3
<1> QED
  BY <1>2

LEMMA MediumHasParts ==
  ASSUME NEW drives \in DriveLists
  PROVE  MediumId(drives) \in Parts \union {NoPart}
<1>1. /\ drives \in Seq([faults : 0 .. 3, label : BOOLEAN, serial : Parts \union {NoPart}])
  BY PlatformAssumption DEF PlatformAssumption
<1>2. ASSUME NEW i \in DOMAIN drives PROVE drives[i].serial \in Parts \union {NoPart}
  <2>1. ASSUME NEW D, NEW s \in Seq(D), NEW j \in DOMAIN s PROVE s[j] \in D
    OBVIOUS
  <2>2. drives[i] \in [faults : 0 .. 3, label : BOOLEAN, serial : Parts \union {NoPart}]
    BY <1>1, <2>1, Zenon
  <2> QED
    BY <2>2
<1>3. FirstMediumId(drives) \in Parts \union {NoPart}
  <2> DEFINE named == {i \in DOMAIN drives : CopyInfo(drives[i])}
  <2>1. CASE named = {}
    BY <2>1 DEF FirstMediumId
  <2>2. CASE named # {}
    <3>1. ASSUME NEW i \in named, \A j \in named : i <= j
          PROVE  drives[i].serial \in Parts \union {NoPart}
      BY <1>2
    <3>2. (CHOOSE i \in named : \A j \in named : i <= j) \in named
      <4>1. named \subseteq Nat /\ named # {}
        BY <1>1, <2>2
      <4>2. \E i \in named : \A j \in named : i <= j
        BY <4>1, LeastNumber
      <4> QED
        BY <4>2
    <3> QED
      BY <1>2, <2>2, <3>2 DEF FirstMediumId
  <2> QED
    BY <2>1, <2>2
<1>4. OwnMediumId(drives) \in Parts \union {NoPart}
  <2>1. drives # <<>> => 1 \in DOMAIN drives
    BY <1>1
  <2> QED
    BY <1>2, <2>1 DEF OwnMediumId
<1> QED
  BY <1>3, <1>4 DEF MediumId

(* Every source of a key gives a key, or what is none.                     *)
LEMMA TransformedIsKey ==
  ASSUME SourcesTypeOK, NEW typed \in Keys
  PROVE  Transformed(typed) \in Keys \union {NoKey}
<1>1. local \in Parts \union {NoPart} /\ typed[2] \in Parts
  BY DEF SourcesTypeOK, Keys
<1>2. JoinedKey(typed) \in Keys \union {NoKey}
  BY <1>1 DEF JoinedKey, Keys
<1> QED
  BY <1>2 DEF Transformed

LEMMA DecodedIsKey ==
  ASSUME NEW r, NEW k \in Keys
  PROVE  Decoded(r, k) \in Keys \union {NoKey}
BY DEF Decoded

LEMMA CodesAreKeys ==
  ASSUME NEW a \in Heard, IsCode(a)
  PROVE  a.key \in Keys
<1>1. ASSUME NEW b \in Answers PROVE Broken(b).text = "junk"
  <2>1. DOMAIN b = {"status", "text", "key"}
    BY RemoteAssumption DEF RemoteAssumption
  <2> QED
    BY <2>1 DEF Broken
<1>2. a.text = "code"
  BY DEF IsCode
<1>3. a \in Answers
  BY <1>1, <1>2 DEF Heard, NoAnswer
<1> QED
  BY <1>3, RemoteAssumption DEF RemoteAssumption

LEMMA CompletedGivesKey ==
  ASSUME SourcesTypeOK, NEW a \in Heard, NEW for, Completed(a, for)
  PROVE  response' \in Keys \union {NoKey}
<1>1. CASE IsCode(a)
  BY <1>1, CodesAreKeys, DecodedIsKey DEF Completed, Answered
<1>2. CASE ~IsCode(a)
  BY <1>2 DEF Completed, SourcesTypeOK
<1> QED
  BY <1>1, <1>2

LEMMA InitEstablishes == RemoteInit => IInv /\ SourcesTypeOK
<1> SUFFICES ASSUME RemoteInit PROVE IInv /\ SourcesTypeOK
  OBVIOUS
<1>1. /\ archive \in Archives
      /\ content = [s \in Scripts |-> Sealed]
      /\ store \in [Crcs -> {NoEntry, [size |-> 3, key |-> NoKey]}]
      /\ phase = "idle" /\ key = NoKey /\ local = NoPart
  BY DEF RemoteInit, Init
<1>2. response = NoKey /\ incoming = NoAnswer
  BY DEF RemoteInit
<1>3. {NoEntry, [size |-> 3, key |-> NoKey]} \subseteq Entry
  BY DEF Entry, NoEntry
<1>4. store \in [Crcs -> Entry]
  BY <1>1, <1>3
<1>5. MemoryTypeOK
  BY <1>1, <1>4 DEF MemoryTypeOK, Sealed
<1>6. PlainIsSized /\ CallInOrder
  BY <1>1 DEF PlainIsSized, CallInOrder, Sealed
<1>7. SourcesTypeOK
  BY <1>1, <1>2 DEF SourcesTypeOK, Heard
<1> QED
  BY <1>5, <1>6, <1>7 DEF IInv

------------------------------------------------------------------------------
(* Each kind of step keeps the invariant.                                  *)
LEMMA QuietKeeps == ASSUME IInv, Quiet PROVE IInv'
BY DEF Quiet, IInv, MemoryTypeOK, PlainIsSized, CallInOrder, PlainSize, Padded

LEMMA PrepareKeeps == ASSUME IInv, NEW s \in archive, Prepare(s) PROVE IInv'
<1>1. s \in Scripts
  BY ArchiveIsOfScripts DEF IInv, MemoryTypeOK
<1>2. MemoryTypeOK' /\ PlainIsSized'
  BY DEF IInv, MemoryTypeOK, PlainIsSized, Prepare, Padded
<1>3. IsDecrypted(s) = content[s].plain
  <2>1. content[s].plain \in BOOLEAN /\ content[s].sized \in BOOLEAN
    BY <1>1 DEF IInv, MemoryTypeOK
  <2> QED
    BY <1>1, <2>1 DEF IsDecrypted, IInv, PlainIsSized
<1>4. CallInOrder'
  BY <1>3 DEF Prepare, CallInOrder, PlainSize, Padded
<1> QED
  BY <1>2, <1>4 DEF IInv

LEMMA EnterKeeps == ASSUME IInv, Enter PROVE IInv'
BY DEF Enter, Exited, IInv, MemoryTypeOK, PlainIsSized, CallInOrder, PlainSize, Padded

LEMMA ReturnKeeps == ASSUME IInv, Return PROVE IInv'
BY DEF Return, IInv, MemoryTypeOK, PlainIsSized, CallInOrder, PlainSize, Padded

LEMMA LoadedIsKey ==
  ASSUME IInv, NEW s \in Scripts
  PROVE  LoadedKey(s) \in Keys \union {NoKey}
<1>1. store[s.crc] \in Entry
  BY ScriptsAre DEF IInv, MemoryTypeOK
<1> QED
  BY <1>1 DEF LoadedKey, Entry

LEMMA AsksKeeps == ASSUME IInv, Asks PROVE IInv'
<1>1. /\ phase = "unlock" /\ enc = "initialize" /\ phase' = "unlock" /\ enc' \in {"read", "verify"}
      /\ UNCHANGED <<archive, content, store, call, size>>
      /\ key' \in {key, LoadedKey(call)}
  BY DEF Asks, NoStoredKey
<1>2. call \in archive /\ call \in Scripts
  BY <1>1, ArchiveIsOfScripts DEF IInv, MemoryTypeOK
<1>3. key' \in Keys \union {NoKey}
  BY <1>1, <1>2, LoadedIsKey DEF IInv, MemoryTypeOK
<1> QED
  BY <1>1, <1>2, <1>3 DEF IInv, MemoryTypeOK, PlainIsSized, CallInOrder, Padded

(* What may have been saved is an entry, and of this key if of any.        *)
LEMMA SavedIsEntry ==
  ASSUME MemoryTypeOK, NEW s \in Scripts, NEW new \in Saved(s, s.key)
  PROVE  /\ new \in [Crcs -> Entry]
         /\ \A t \in Scripts :
              new[t.crc] = [size |-> KeySize(t), key |-> t.key]
                => store[t.crc] = new[t.crc] \/ t.key = s.key
<1>1. s.key \in Keys /\ s.crc \in Crcs /\ store \in [Crcs -> Entry]
  BY ScriptsAre DEF MemoryTypeOK
<1>2. PICK e \in {NoEntry, [size |-> 3, key |-> NoKey], [size |-> KeySize(s), key |-> s.key]} :
        new = store \/ new = [store EXCEPT ![s.crc] = e]
  BY DEF Saved, SavedFile, SavedValue
<1>3. e \in Entry
  BY <1>1 DEF Entry, NoEntry, KeySize
<1>4. new \in [Crcs -> Entry]
  BY <1>1, <1>2, <1>3
<1>5. ASSUME NEW t \in Scripts, new[t.crc] = [size |-> KeySize(t), key |-> t.key],
             store[t.crc] # new[t.crc]
      PROVE  t.key = s.key
  <2>1. t.crc \in Crcs
    BY ScriptsAre
  <2>2. t.crc = s.crc /\ new[t.crc] = e
    BY <1>1, <1>2, <1>5, <2>1
  <2>3. KeySize(t) \in {6, 8, 16}
    BY DEF KeySize
  <2>4. e.size = KeySize(t) /\ e.key = t.key
    BY <1>5, <2>2
  <2> QED
    BY <2>3, <2>4 DEF NoEntry
<1> QED
  BY <1>4, <1>5

(* The right key: the text becomes plain, and its size is known.           *)
LEMMA RightKeyKeeps ==
  ASSUME IInv, phase = "unlock", phase' = "unlock", enc' = "complete",
         UNCHANGED <<archive, call>>,
         NEW k, NEW save, RightKey(call, k, save), key' = k
  PROVE  IInv'
<1>1. call \in archive /\ call \in Scripts /\ k = call.key /\ k \in Keys
  BY ArchiveIsOfScripts, ScriptsAre DEF IInv, MemoryTypeOK, RightKey, Verifies
<1>2. store' \in {store} \union Saved(call, call.key)
  BY <1>1 DEF RightKey
<1>3. store' \in [Crcs -> Entry]
  BY <1>1, <1>2, SavedIsEntry DEF IInv, MemoryTypeOK
<1>4. /\ content' = [content EXCEPT ![call] = [plain |-> TRUE, sized |-> Padded(call)]]
      /\ size' = PlainSize(call)
  BY DEF RightKey, Decrypted
<1>5. Padded(call) \in BOOLEAN
  BY DEF Padded
<1>6. content \in [Scripts -> [plain : BOOLEAN, sized : BOOLEAN]]
  BY DEF IInv, MemoryTypeOK
<1>7. content' \in [Scripts -> [plain : BOOLEAN, sized : BOOLEAN]]
  BY <1>1, <1>4, <1>5, <1>6
<1>8. MemoryTypeOK'
  BY <1>1, <1>3, <1>7 DEF IInv, MemoryTypeOK
<1>9. PlainIsSized'
  <2> SUFFICES ASSUME NEW s \in Scripts, content'[s].plain
               PROVE  content'[s].sized = Padded(s)
    BY DEF PlainIsSized, Padded
  <2>1. CASE s = call
    BY <1>1, <1>4, <1>6, <2>1
  <2>2. CASE s # call
    BY <1>1, <1>4, <1>6, <2>2 DEF IInv, PlainIsSized
  <2> QED
    BY <2>1, <2>2
<1>10. CallInOrder'
  <2>1. content'[call].plain = TRUE
    BY <1>1, <1>4, <1>6
  <2> QED
    BY <1>4, <2>1 DEF CallInOrder, PlainSize, Padded
<1> QED
  BY <1>8, <1>9, <1>10 DEF IInv

LEMMA UseStoredKeyKeeps == ASSUME IInv, UseStoredKey PROVE IInv'
BY RightKeyKeeps DEF UseStoredKey

(* Nothing is left of a call that has been refused, has failed, or is over.*)
LEMMA RefuseKeeps ==
  ASSUME IInv, UNCHANGED <<archive, content, store>>, key' = NoKey,
         phase' \in {"idle", "failed"}, phase' # "idle" => call' \in archive
  PROVE  IInv'
BY DEF IInv, MemoryTypeOK, PlainIsSized, CallInOrder, PlainSize, Padded

LEMMA VerifyKeeps == ASSUME IInv, Verify PROVE IInv'
<1>1. phase = "unlock" /\ UNCHANGED archive /\ call \in archive
  BY DEF Verify, IInv, MemoryTypeOK
<1>2. PICK k \in CallerKeys(call) :
        \/ /\ RightKey(call, k, FALSE) /\ key' = k /\ enc' = "complete"
           /\ UNCHANGED <<call, phase, page, local>>
        \/ ~Verifies(call, k) /\ Refuse /\ UNCHANGED <<content, store>>
        \/ Unprepared(call) /\ Fail
  BY DEF Verify
<1>3. CASE RightKey(call, k, FALSE) /\ key' = k /\ enc' = "complete" /\ UNCHANGED <<call, phase>>
  BY <1>1, <1>3, RightKeyKeeps
<1>4. CASE Refuse /\ UNCHANGED <<content, store>>
  BY <1>1, <1>4, RefuseKeeps DEF Refuse, Exited
<1>5. CASE Unprepared(call) /\ Fail
  BY <1>1, <1>5, RefuseKeeps DEF Unprepared, Fail, Exited
<1> QED
  BY <1>2, <1>3, <1>4, <1>5

LEMMA TriesKeeps == ASSUME IInv, Tries PROVE IInv'
<1>1. PICK k \in Keys \union {NoKey}, save \in BOOLEAN : Attempt(k, save)
  BY DEF Tries
<1>2. phase = "unlock" /\ enc = "read" /\ UNCHANGED <<archive, call, phase>> /\ key' = k
  BY <1>1 DEF Tries, Reading, Attempt
<1>3. CASE RightKey(call, k, save) /\ enc' = "complete"
  BY <1>2, <1>3, RightKeyKeeps
<1>4. CASE UNCHANGED <<content, store, size, enc>>
  BY <1>2, <1>4 DEF IInv, MemoryTypeOK, PlainIsSized, CallInOrder, PlainSize, Padded
<1> QED
  BY <1>1, <1>3, <1>4 DEF Attempt, WrongKey, Unprepared

LEMMA RefusesKeeps == ASSUME IInv, Refuses PROVE IInv'
BY RefuseKeeps DEF Refuses, Refuse, Exited

LEMMA StopsKeeps == ASSUME IInv, Stops PROVE IInv'
<1>1. /\ content' = [s \in Scripts |-> Sealed] /\ phase' = "idle" /\ key' = NoKey
      /\ UNCHANGED archive
  BY DEF Stops, Restarted
<1>2. store' \in [Crcs -> Entry]
  <2>1. CASE UNCHANGED store
    BY <2>1 DEF IInv, MemoryTypeOK
  <2>2. CASE Reading /\ store' \in Saved(call, call.key)
    BY <2>2, ArchiveIsOfScripts, SavedIsEntry DEF IInv, MemoryTypeOK, Reading
  <2> QED
    BY <2>1, <2>2 DEF Stops
<1>3. content' \in [Scripts -> [plain : BOOLEAN, sized : BOOLEAN]]
  BY <1>1 DEF Sealed
<1> QED
  BY <1>1, <1>2, <1>3 DEF IInv, MemoryTypeOK, PlainIsSized, CallInOrder, Sealed, Padded

LEMMA KindsKeep == ASSUME IInv, Kinds PROVE IInv'
BY QuietKeeps, PrepareKeeps, EnterKeeps, ReturnKeeps, UseStoredKeyKeeps, AsksKeeps,
   VerifyKeeps, TriesKeeps, RefusesKeeps, StopsKeeps DEF Kinds

------------------------------------------------------------------------------
(* Every step is of one of these kinds, whoever makes it.                  *)
LEMMA LocalStepsAre == ASSUME IInv, SourcesTypeOK, LocalNext PROVE Kinds
<1>1. ASSUME NEW s \in archive, Prepare(s) PROVE Kinds
  BY <1>1 DEF Kinds
<1>2. CASE Enter \/ Return \/ UseStoredKey \/ Verify
  BY <1>2 DEF Kinds
<1>3. CASE CallerInitialize \/ PromptInitialize \/ SplitInitialize \/ DiskIdInitialize
  <2>1. Asks
    BY <1>3 DEF CallerInitialize, PromptInitialize, SplitInitialize, DiskIdInitialize, Asks
  <2> QED
    BY <2>1 DEF Kinds
<1>4. CASE Cancel
  BY <1>4 DEF Cancel, Refuses, Kinds
<1>5. ASSUME NEW part \in Parts, EnterDsn(part) PROVE Kinds
  BY <1>5 DEF EnterDsn, Quiet, Kinds
<1>6. CASE BackToDsn
  BY <1>6 DEF BackToDsn, Quiet, Kinds
<1>7. ASSUME NEW typed \in Keys, NEW checked \in BOOLEAN, EnterPasscode(typed, checked)
      PROVE  Kinds
  <2>1. MaySave(checked) \in BOOLEAN
    BY DEF MaySave
  <2>2. Tries
    BY <1>7, <2>1, TransformedIsKey DEF EnterPasscode, Tries
  <2> QED
    BY <2>2 DEF Kinds
<1> QED
  BY <1>1, <1>2, <1>3, <1>4, <1>5, <1>6, <1>7 DEF LocalNext

LEMMA DialogStepsAre == ASSUME IInv, SourcesTypeOK, DialogNext PROVE Kinds
<1>1. CASE RemoteInitialize
  <2>1. Asks
    BY <1>1 DEF RemoteInitialize, Asks
  <2> QED
    BY <2>1 DEF Kinds
<1>2. CASE EnterAccessCode \/ Back
  BY <1>2 DEF EnterAccessCode, Back, Stays, Quiet, Kinds
<1>3. ASSUME NEW method \in {"rcode", "qr", "inet"}, SelectMethod(method) PROVE Kinds
  BY <1>3 DEF SelectMethod, Stays, Quiet, Kinds
<1>0. Codes \subseteq Keys
  BY RemoteAssumption DEF RemoteAssumption
<1>4. ASSUME NEW r, NEW k \in Codes, NEW checked \in BOOLEAN, EnterConfirmation(r, k, checked)
      PROVE  Kinds
  <2>1. MaySave(checked) \in BOOLEAN /\ Decoded(r, k) \in Keys \union {NoKey}
    BY <1>0, DecodedIsKey DEF MaySave
  <2>2. Tries
    BY <1>4, <2>1 DEF EnterConfirmation, Tries
  <2> QED
    BY <2>2 DEF Kinds
<1>5. CASE EnterBrokenConfirmation
  BY <1>5 DEF EnterBrokenConfirmation, unlockVars, memory, Quiet, Kinds
<1>6. ASSUME NEW checked \in BOOLEAN, EnterAnswer(checked) PROVE Kinds
  <2>1. MaySave(checked) \in BOOLEAN /\ response \in Keys \union {NoKey}
    BY DEF MaySave, SourcesTypeOK
  <2>2. Tries
    BY <1>6, <2>1 DEF EnterAnswer, Tries
  <2> QED
    BY <2>2 DEF Kinds
<1> QED
  BY <1>1, <1>2, <1>3, <1>4, <1>5, <1>6 DEF DialogNext

LEMMA CallbacksLeave == CallbackNext => UNCHANGED unlockVars \/ Dies
<1> SUFFICES ASSUME NEW c \in Callbacks,
               \/ CallbackCancelled(c) \/ CallbackFails(c) \/ CallbackQueries(c)
               \/ \E a \in Answers : CallbackResponse(c, a)
               \/ CallbackCannotRead(c) \/ CallbackReceives(c) \/ CallbackCopies(c)
               \/ CallbackEnds(c) \/ CallbackParses(c) \/ CallbackDies(c)
               \/ CallbackCompletes(c) \/ CallbackCloses(c)
             PROVE UNCHANGED unlockVars \/ Dies
  BY DEF CallbackNext
<1> QED
  BY DEF CallbackLeaves, CallbackCancelled, CallbackFails, CallbackQueries, CallbackResponse,
         CallbackCannotRead, CallbackReceives, CallbackCopies, CallbackEnds, CallbackParses,
         CallbackDies, CallbackCompletes, CallbackCloses

LEMMA NetStepsAre == ASSUME NetNext \/ CallbackNext PROVE Kinds
<1>1. CASE UNCHANGED unlockVars
  BY <1>1 DEF unlockVars, memory, Quiet, Kinds
<1>2. CASE Dies
  BY <1>2 DEF Dies, RemoteRestarted, Stops, Kinds
<1>3. NetNext => UNCHANGED unlockVars \/ Dies
  BY DEF NetNext, StartNet, ConnectCurl, ConnectWininet, CurlFails, CurlAnswersNothing, CurlDies,
         SendWininet, SendUnconnected, CurlAnswers
<1>4. CallbackNext => UNCHANGED unlockVars \/ Dies
  BY CallbacksLeave
<1> QED
  BY <1>1, <1>2, <1>3, <1>4

LEMMA StepsAre == ASSUME IInv, SourcesTypeOK, [Next]_vars PROVE Kinds
<1>1. CASE LocalNext
  BY <1>1, LocalStepsAre
<1>2. CASE DialogNext
  BY <1>2, DialogStepsAre
<1>3. CASE NetNext \/ CallbackNext
  BY <1>3, NetStepsAre
<1>4. CASE Stop \/ StopWhileSaving
  BY <1>4 DEF Stop, StopWhileSaving, RemoteRestarted, Stops, Kinds
<1>5. CASE UNCHANGED vars
  BY <1>5 DEF vars, unlockVars, memory, Quiet, Kinds
<1> QED
  BY <1>1, <1>2, <1>3, <1>4, <1>5 DEF Next

(* The parts of a key keep their types.                                    *)
LEMMA HeardStays == Heard' = Heard
BY DEF Heard, Broken, NoAnswer

LEMMA LocalKeepsSources ==
  ASSUME IInv, SourcesTypeOK, LocalNext, Forgets
  PROVE  SourcesTypeOK'
<1>1. response' = response /\ incoming' = incoming
  BY DEF Forgets, exchange, client, received
<1>2. local' \in Parts \union {NoPart}
  <2>0. local \in Parts \union {NoPart}
    BY DEF SourcesTypeOK
  <2>1. CASE \/ \E s \in archive : Prepare(s)
             \/ Return \/ UseStoredKey \/ CallerInitialize \/ PromptInitialize \/ BackToDsn
    BY <2>0, <2>1 DEF Prepare, Return, UseStoredKey, CallerInitialize, PromptInitialize, BackToDsn
  <2>2. CASE Enter \/ Cancel
    BY <2>2 DEF Enter, Cancel, Refuse, Exited
  <2>3. CASE SplitInitialize
    <3>1. call \in Scripts
      BY <2>3, ArchiveIsOfScripts DEF SplitInitialize, NoStoredKey, IInv, MemoryTypeOK
    <3>2. call.data[1] \in Parts
      BY <3>1, ScriptsAre DEF Keys
    <3> QED
      BY <2>3, <3>2 DEF SplitInitialize
  <2>4. CASE DiskIdInitialize
    BY <2>4, MediumHasParts DEF DiskIdInitialize
  <2>5. CASE Verify
    BY <2>0, <2>5 DEF Verify, Refuse, Fail, Exited
  <2>6. ASSUME NEW part \in Parts, EnterDsn(part) PROVE local' \in Parts \union {NoPart}
    BY <2>6 DEF EnterDsn
  <2>7. ASSUME NEW typed \in Keys, NEW checked \in BOOLEAN, EnterPasscode(typed, checked)
        PROVE  local' \in Parts \union {NoPart}
    BY <2>0, <2>7 DEF EnterPasscode, Attempt
  <2> QED
    BY <2>1, <2>2, <2>3, <2>4, <2>5, <2>6, <2>7 DEF LocalNext
<1> QED
  BY <1>1, <1>2, HeardStays DEF SourcesTypeOK

LEMMA DialogKeepsSources == ASSUME SourcesTypeOK, DialogNext PROVE SourcesTypeOK'
<1>0. /\ local \in Parts \union {NoPart} /\ response \in Keys \union {NoKey}
      /\ incoming \in Heard /\ Heard' = Heard /\ NoAnswer \in Heard
  BY HeardStays DEF SourcesTypeOK, Heard
<1>1. CASE RemoteInitialize
  BY <1>0, <1>1 DEF RemoteInitialize, remoteVars, exchange, client, received, SourcesTypeOK
<1>2. CASE EnterAccessCode
  BY <1>0, <1>2 DEF EnterAccessCode, NoCleanup, Cleanup, Freed, received, Stays, SourcesTypeOK
<1>3. CASE Back
  BY <1>0, <1>3 DEF Back, NoCleanup, Cleanup, Freed, received, Stays, exchange, SourcesTypeOK
<1>4. ASSUME NEW method \in {"rcode", "qr", "inet"}, SelectMethod(method) PROVE SourcesTypeOK'
  BY <1>0, <1>4 DEF SelectMethod, Stays, client, received, SourcesTypeOK
<1>5. ASSUME NEW r, NEW k \in Codes, NEW checked \in BOOLEAN, EnterConfirmation(r, k, checked)
      PROVE  SourcesTypeOK'
  <2>1. response' \in Keys \union {NoKey}
    BY <1>5, DecodedIsKey, RemoteAssumption DEF EnterConfirmation, Answered, RemoteAssumption
  <2> QED
    BY <1>0, <1>5, <2>1 DEF EnterConfirmation, Attempt, client, received, SourcesTypeOK
<1>6. CASE EnterBrokenConfirmation
  BY <1>0, <1>6 DEF EnterBrokenConfirmation, unlockVars, memory, client, received, SourcesTypeOK
<1>7. ASSUME NEW checked \in BOOLEAN, EnterAnswer(checked) PROVE SourcesTypeOK'
  BY <1>0, <1>7 DEF EnterAnswer, Attempt, remoteVars, exchange, client, received, SourcesTypeOK
<1> QED
  BY <1>1, <1>2, <1>3, <1>4, <1>5, <1>6, <1>7 DEF DialogNext

LEMMA StopKeepsSources == RemoteRestarted => SourcesTypeOK'
BY HeardStays DEF RemoteRestarted, Restarted, SourcesTypeOK, Heard

LEMMA NetKeepsSources == ASSUME SourcesTypeOK, NetNext PROVE SourcesTypeOK'
<1>0. /\ local \in Parts \union {NoPart} /\ response \in Keys \union {NoKey}
      /\ incoming \in Heard /\ Heard' = Heard /\ NoAnswer \in Heard
  BY HeardStays DEF SourcesTypeOK, Heard
<1>1. ASSUME UNCHANGED <<local, response>>, incoming' \in {incoming, NoAnswer} PROVE SourcesTypeOK'
  BY <1>0, <1>1 DEF SourcesTypeOK
<1>2. CASE StartNet \/ SendUnconnected
  BY <1>1, <1>2 DEF StartNet, SendUnconnected, unlockVars, memory, exchange, client, received
<1>3. CASE ConnectCurl \/ ConnectWininet
  BY <1>1, <1>3 DEF ConnectCurl, ConnectWininet, Failed, Freed, received, unlockVars, memory,
                    exchange
<1>4. CASE CurlFails \/ CurlAnswersNothing \/ SendWininet
  BY <1>1, <1>4 DEF CurlFails, CurlAnswersNothing, SendWininet, Failed, Freed, received, unlockVars,
                    memory, exchange
<1>5. CASE CurlDies
  BY <1>5, StopKeepsSources DEF CurlDies, Dies
<1>6. ASSUME NEW a \in Answers, CurlAnswers(a) PROVE SourcesTypeOK'
  <2>1. response' \in Keys \union {NoKey}
    BY <1>6, CompletedGivesKey DEF CurlAnswers, Heard
  <2> QED
    BY <1>0, <1>6, <2>1 DEF CurlAnswers, Freed, unlockVars, memory, SourcesTypeOK
<1> QED
  BY <1>2, <1>3, <1>4, <1>5, <1>6 DEF NetNext

LEMMA CallbackKeepsSources == ASSUME SourcesTypeOK, CallbackNext PROVE SourcesTypeOK'
<1>0. /\ local \in Parts \union {NoPart} /\ response \in Keys \union {NoKey}
      /\ incoming \in Heard /\ Heard' = Heard /\ NoAnswer \in Heard
  BY HeardStays DEF SourcesTypeOK, Heard
<1>1. ASSUME UNCHANGED <<unlockVars, response>>, incoming' \in Heard PROVE SourcesTypeOK'
  BY <1>0, <1>1 DEF SourcesTypeOK, unlockVars, memory
<1> SUFFICES ASSUME NEW c \in Callbacks,
               \/ CallbackCancelled(c) \/ CallbackFails(c) \/ CallbackQueries(c)
               \/ \E a \in Answers : CallbackResponse(c, a)
               \/ CallbackCannotRead(c) \/ CallbackReceives(c) \/ CallbackCopies(c)
               \/ CallbackEnds(c) \/ CallbackParses(c) \/ CallbackDies(c)
               \/ CallbackCompletes(c) \/ CallbackCloses(c)
             PROVE SourcesTypeOK'
  BY DEF CallbackNext
<1>2. CASE CallbackCancelled(c) \/ CallbackCopies(c) \/ CallbackEnds(c) \/ CallbackParses(c)
           \/ CallbackCloses(c)
  BY <1>0, <1>1, <1>2 DEF CallbackCancelled, CallbackCopies, CallbackEnds, CallbackParses,
                          CallbackCloses, received, exchange
<1>3. CASE CallbackFails(c) \/ CallbackQueries(c) \/ CallbackCannotRead(c) \/ CallbackReceives(c)
  BY <1>0, <1>1, <1>3 DEF CallbackFails, CallbackQueries, CallbackCannotRead, CallbackReceives,
                          CallbackFailed, CallbackLeaves, Failed, Freed, received
<1>4. ASSUME NEW a \in Answers, CallbackResponse(c, a) PROVE SourcesTypeOK'
  <2>1. incoming' \in {NoAnswer, a, Broken(a)}
    BY <1>4 DEF CallbackResponse
  <2> QED
    BY <1>0, <1>1, <1>4, <2>1 DEF CallbackResponse, CallbackLeaves, Heard
<1>5. CASE CallbackCompletes(c)
  <2>1. PICK parsed \in Parsed(c) : Completed(parsed[1], parsed[2])
    BY <1>5 DEF CallbackCompletes
  <2>2. parsed[1] \in Heard
    BY <1>0 DEF Parsed, Heard
  <2>3. response' \in Keys \union {NoKey}
    BY <2>1, <2>2, CompletedGivesKey
  <2> QED
    BY <1>0, <1>5, <2>3 DEF CallbackCompletes, CallbackLeaves, Freed, unlockVars, memory,
                            SourcesTypeOK
<1>6. CASE CallbackDies(c)
  BY <1>6, StopKeepsSources DEF CallbackDies, Dies
<1> QED
  BY <1>2, <1>3, <1>4, <1>5, <1>6

LEMMA NextKeeps == IInv /\ SourcesTypeOK /\ [Next]_vars => IInv' /\ SourcesTypeOK'
<1> SUFFICES ASSUME IInv, SourcesTypeOK, [Next]_vars PROVE IInv' /\ SourcesTypeOK'
  OBVIOUS
<1>1. IInv'
  BY StepsAre, KindsKeep
<1>2. SourcesTypeOK'
  <2>1. CASE UNCHANGED vars
    BY <2>1, HeardStays DEF vars, unlockVars, memory, remoteVars, exchange, client, received,
                            SourcesTypeOK
  <2>2. CASE Stop \/ StopWhileSaving
    BY <2>2, StopKeepsSources DEF Stop, StopWhileSaving
  <2> QED
    BY <2>1, <2>2, LocalKeepsSources, DialogKeepsSources, NetKeepsSources, CallbackKeepsSources
       DEF Next
<1> QED
  BY <1>1, <1>2

------------------------------------------------------------------------------
(* A script that runs is plain to its last byte and no further (enc.c with *)
(* the sizes of call.c), for all scripts and whatever brings the key.      *)
THEOREM UnlockRunsWhole == Spec => []RunsWhole
<1>1. IInv => RunsWhole
  BY DEF IInv, CallInOrder, RunsWhole, PlainSize, Padded
<1> QED
  BY InitEstablishes, NextKeeps, <1>1, PTL DEF Spec

------------------------------------------------------------------------------
(* A key in the store is asked for only if there was no memory to try it.  *)
(* Only what is asked for is of concern: the answer is known by then.      *)
LEMMA KindsKeepAsking ==
  ASSUME IInv, KeptKeyIsNotAsked, Kinds
  PROVE  KeptKeyIsNotAsked'
<1>1. CASE Quiet
  BY <1>1 DEF Quiet, KeptKeyIsNotAsked, Reading, CanLoad, HasKeyStore, LoadedSize, LoadedKey,
              KeySize
<1>2. CASE Asks
  <2>1. ~Verifies(call, LoadedKey(call)) /\ ~content[call].plain => LoadedKey(call) # call.key
    BY DEF Verifies
  <2>2. ~content[call].plain
    BY <1>2 DEF Asks, NoStoredKey, IInv, CallInOrder
  <2>3. /\ UNCHANGED <<platform, content, store, call>>
        /\ ~CanLoad(call) \/ LoadedKey(call) # call.key \/ starved'
    BY <1>2, <2>1, <2>2 DEF Asks, NoStoredKey
  <2>4. CanLoad(call)' = CanLoad(call) /\ LoadedKey(call)' = LoadedKey(call)
    BY <2>3 DEF CanLoad, HasKeyStore, LoadedSize, LoadedKey, KeySize
  <2> QED
    BY <2>2, <2>3, <2>4 DEF KeptKeyIsNotAsked
<1>3. CASE Tries
  <2>1. PICK k \in Keys \union {NoKey}, save \in BOOLEAN : Attempt(k, save)
    BY <1>3 DEF Tries
  <2>2. CASE enc' = "complete"
    BY <2>2 DEF KeptKeyIsNotAsked, Reading
  <2>3. CASE UNCHANGED <<content, store, enc>>
    BY <1>3, <2>1, <2>3 DEF Tries, Attempt, KeptKeyIsNotAsked, Reading, CanLoad, HasKeyStore,
                            LoadedSize, LoadedKey, KeySize
  <2> QED
    BY <2>1, <2>2, <2>3 DEF Attempt, WrongKey, Unprepared
<1>4. CASE \/ \E s \in archive : Prepare(s)
           \/ Enter \/ Return \/ UseStoredKey \/ Verify \/ Refuses \/ Stops
  <2>1. ~Reading'
    BY <1>4 DEF Prepare, Enter, Return, UseStoredKey, Verify, Refuses, Refuse, Fail, Stops,
                Restarted, Reading
  <2> QED
    BY <2>1 DEF KeptKeyIsNotAsked
<1> QED
  BY <1>1, <1>2, <1>3, <1>4 DEF Kinds

(* The user is not asked for a key that the store has (enc_handle()).      *)
THEOREM UnlockAsksForNoKeptKey == Spec => []KeptKeyIsNotAsked
<1> DEFINE Inv == IInv /\ SourcesTypeOK /\ KeptKeyIsNotAsked
<1>1. RemoteInit => Inv
  BY InitEstablishes DEF RemoteInit, Init, KeptKeyIsNotAsked, Reading
<1>2. Inv /\ [Next]_vars => Inv'
  BY NextKeeps, StepsAre, KindsKeepAsking
<1>3. Inv => KeptKeyIsNotAsked
  OBVIOUS
<1> QED
  BY <1>1, <1>2, <1>3, PTL DEF Spec

------------------------------------------------------------------------------
(* The unlock implements its promise: each kind of step is one of the      *)
(* promise's steps, or none.                                               *)
Opened == {s \in archive : content[s].plain}
Runs == IF phase = "run" THEN call ELSE NoScript
Kept == {s \in archive : store[s.crc] = [size |-> KeySize(s), key |-> s.key]}

PromisedTry(s, k) ==
  /\ Runs = NoScript /\ s \notin Opened
  /\ key' = k
  /\ \/ Opened' = Opened /\ Kept' = Kept
     \/ /\ k = s.key /\ Opened' = Opened \union {s}
        /\ Kept' \subseteq Kept \union {t \in Scripts : t.key = k}
  /\ Runs' = Runs
PromisedRun(s) ==
  /\ Runs = NoScript /\ s \in Opened
  /\ Runs' = s /\ key' = NoKey
  /\ Opened' = Opened /\ Kept' = Kept
PromisedReturn ==
  /\ Runs # NoScript /\ Runs' = NoScript
  /\ Opened' = Opened /\ key' = key /\ Kept' = Kept
PromisedForget ==
  /\ Runs = NoScript /\ key' = NoKey
  /\ Opened' = Opened /\ Runs' = Runs /\ Kept' = Kept
PromisedRestart ==
  /\ Opened' = {} /\ Runs' = NoScript /\ key' = NoKey
  /\ \E k \in Keys \union {NoKey} : Kept' \subseteq Kept \union {t \in Scripts : t.key = k}
PromisedStutter ==
  Opened' = Opened /\ Runs' = Runs /\ key' = key /\ Kept' = Kept

Promised ==
  \/ \E s \in Scripts, k \in Keys \union {NoKey} : PromisedTry(s, k)
  \/ \E s \in Scripts : PromisedRun(s)
  \/ PromisedReturn \/ PromisedForget \/ PromisedRestart \/ PromisedStutter

LEMMA SameMemory ==
  ASSUME UNCHANGED <<archive, content, store>>
  PROVE  Opened' = Opened /\ Kept' = Kept
BY DEF Opened, Kept, KeySize

LEMMA SavedIsKept ==
  ASSUME IInv, UNCHANGED archive, NEW s \in Scripts,
         store' \in {store} \union Saved(s, s.key)
  PROVE  Kept' \subseteq Kept \union {t \in Scripts : t.key = s.key}
<1>1. archive \subseteq Scripts /\ MemoryTypeOK
  BY ArchiveIsOfScripts DEF IInv, MemoryTypeOK
<1>2. CASE store' = store
  BY <1>2 DEF Kept, KeySize
<1>3. CASE store' \in Saved(s, s.key)
  <2>1. \A t \in Scripts : store'[t.crc] = [size |-> KeySize(t), key |-> t.key]
                             => store[t.crc] = store'[t.crc] \/ t.key = s.key
    BY <1>1, <1>3, SavedIsEntry
  <2>2. \A t : KeySize(t)' = KeySize(t)
    BY DEF KeySize
  <2> QED
    BY <1>1, <2>1, <2>2 DEF Kept
<1> QED
  BY <1>2, <1>3

LEMMA RightKeyIsPromised ==
  ASSUME IInv, phase = "unlock", phase' = "unlock", UNCHANGED <<archive, call>>,
         NEW k, NEW save, RightKey(call, k, save), key' = k
  PROVE  Promised
<1>1. call \in archive /\ call \in Scripts /\ k = call.key /\ k \in Keys /\ ~content[call].plain
  BY ArchiveIsOfScripts, ScriptsAre DEF IInv, MemoryTypeOK, RightKey, Verifies
<1>2. Runs = NoScript /\ Runs' = NoScript
  BY DEF Runs
<1>3. call \notin Opened
  BY <1>1 DEF Opened
<1>4. Opened' = Opened \union {call}
  <2>1. /\ content' = [content EXCEPT ![call] = [plain |-> TRUE, sized |-> Padded(call)]]
        /\ content \in [Scripts -> [plain : BOOLEAN, sized : BOOLEAN]]
        /\ archive \subseteq Scripts
    BY ArchiveIsOfScripts DEF RightKey, Decrypted, IInv, MemoryTypeOK
  <2>2. content'[call].plain = TRUE /\ \A t \in archive : t # call => content'[t] = content[t]
    BY <1>1, <2>1
  <2> QED
    BY <1>1, <2>2 DEF Opened
<1>5. Kept' \subseteq Kept \union {t \in Scripts : t.key = call.key}
  BY <1>1, SavedIsKept DEF RightKey
<1>6. PromisedTry(call, k)
  BY <1>1, <1>2, <1>3, <1>4, <1>5 DEF PromisedTry
<1> QED
  BY <1>1, <1>6 DEF Promised

LEMMA KindsArePromised == ASSUME IInv, Kinds PROVE Promised
<1>1. CASE Quiet
  <2>1. Opened' = Opened /\ Kept' = Kept
    BY <1>1, SameMemory DEF Quiet
  <2>2. Runs' = Runs /\ key' = key
    BY <1>1 DEF Quiet, Runs
  <2> QED
    BY <2>1, <2>2 DEF PromisedStutter, Promised
<1>2. ASSUME NEW s \in archive, Prepare(s) PROVE Promised
  <2>1. Opened' = Opened /\ Kept' = Kept
    BY <1>2, SameMemory DEF Prepare
  <2>2. Runs' = Runs /\ key' = key
    BY <1>2 DEF Prepare, Runs
  <2> QED
    BY <2>1, <2>2 DEF PromisedStutter, Promised
<1>3. CASE Enter
  <2>1. Opened' = Opened /\ Kept' = Kept
    BY <1>3, SameMemory DEF Enter
  <2>2. call \in Opened /\ call \in Scripts
    BY <1>3, ArchiveIsOfScripts DEF Enter, IInv, MemoryTypeOK, CallInOrder, Opened
  <2>3. Runs = NoScript /\ Runs' = call /\ key' = NoKey
    BY <1>3 DEF Enter, Exited, Runs
  <2> QED
    BY <2>1, <2>2, <2>3 DEF PromisedRun, Promised
<1>4. CASE Return
  <2>1. Opened' = Opened /\ Kept' = Kept
    BY <1>4, SameMemory DEF Return
  <2>2. call \in archive /\ NoScript \notin archive
    BY <1>4, ArchiveIsOfScripts DEF Return, IInv, MemoryTypeOK
  <2>3. Runs # NoScript /\ Runs' = NoScript /\ key' = key
    BY <1>4, <2>2 DEF Return, Runs
  <2> QED
    BY <2>1, <2>3 DEF PromisedReturn, Promised
<1>5. CASE UseStoredKey
  BY <1>5, RightKeyIsPromised DEF UseStoredKey
<1>6. CASE Asks
  <2>1. /\ phase = "unlock" /\ enc = "initialize" /\ phase' = "unlock"
        /\ UNCHANGED <<archive, content, store, call>>
        /\ key' \in {key, LoadedKey(call)}
    BY <1>6 DEF Asks, NoStoredKey
  <2>2. call \in Scripts /\ ~content[call].plain
    BY <2>1, ArchiveIsOfScripts DEF IInv, MemoryTypeOK, CallInOrder
  <2>3. key' \in Keys \union {NoKey}
    BY <2>1, <2>2, LoadedIsKey DEF IInv, MemoryTypeOK
  <2>4. Opened' = Opened /\ Kept' = Kept /\ Runs = NoScript /\ Runs' = NoScript /\ call \notin Opened
    BY <2>1, <2>2, SameMemory DEF Runs, Opened
  <2>5. PromisedTry(call, key')
    BY <2>4 DEF PromisedTry
  <2> QED
    BY <2>2, <2>3, <2>5 DEF Promised
<1>7. CASE Verify
  <2>1. phase = "unlock" /\ UNCHANGED archive
    BY <1>7 DEF Verify
  <2>2. PICK k \in CallerKeys(call) :
          \/ /\ RightKey(call, k, FALSE) /\ key' = k /\ enc' = "complete"
             /\ UNCHANGED <<call, phase, page, local>>
          \/ ~Verifies(call, k) /\ Refuse /\ UNCHANGED <<content, store>>
          \/ Unprepared(call) /\ Fail
    BY <1>7 DEF Verify
  <2>3. CASE RightKey(call, k, FALSE) /\ key' = k /\ UNCHANGED <<call, phase>>
    BY <2>1, <2>3, RightKeyIsPromised
  <2>4. CASE Refuse /\ UNCHANGED <<content, store>>
    BY <2>1, <2>4, SameMemory DEF Refuse, Exited, Runs, PromisedForget, Promised
  <2>5. CASE Unprepared(call) /\ Fail
    BY <2>1, <2>5, SameMemory DEF Unprepared, Fail, Exited, Runs, PromisedForget, Promised
  <2> QED
    BY <2>2, <2>3, <2>4, <2>5
<1>8. CASE Tries
  <2>1. PICK k \in Keys \union {NoKey}, save \in BOOLEAN : Attempt(k, save)
    BY <1>8 DEF Tries
  <2>2. phase = "unlock" /\ enc = "read" /\ UNCHANGED <<archive, call, phase>> /\ key' = k
    BY <1>8, <2>1 DEF Tries, Reading, Attempt
  <2>3. CASE RightKey(call, k, save)
    BY <2>2, <2>3, RightKeyIsPromised
  <2>4. CASE UNCHANGED <<content, store>>
    <3>1. call \in Scripts /\ ~content[call].plain
      BY <2>2, ArchiveIsOfScripts DEF IInv, MemoryTypeOK, CallInOrder
    <3>2. Opened' = Opened /\ Kept' = Kept /\ Runs = NoScript /\ Runs' = NoScript
          /\ call \notin Opened
      BY <2>2, <2>4, <3>1, SameMemory DEF Runs, Opened
    <3>3. PromisedTry(call, k)
      BY <2>2, <3>2 DEF PromisedTry
    <3> QED
      BY <3>1, <3>3 DEF Promised
  <2> QED
    BY <2>1, <2>3, <2>4 DEF Attempt, WrongKey, Unprepared
<1>9. CASE Refuses
  BY <1>9, SameMemory DEF Refuses, Refuse, Exited, Reading, Runs, PromisedForget, Promised
<1>10. CASE Stops
  <2>1. Opened' = {} /\ Runs' = NoScript /\ key' = NoKey
    <3>1. archive \subseteq Scripts /\ archive' = archive
      BY <1>10, ArchiveIsOfScripts DEF IInv, MemoryTypeOK, Stops, Restarted
    <3> QED
      BY <1>10, <3>1 DEF Stops, Restarted, Opened, Runs, Sealed
  <2>2. CASE UNCHANGED store
    <3>1. Kept' = Kept
      BY <1>10, <2>2 DEF Stops, Restarted, Kept, KeySize
    <3> QED
      BY <2>1, <3>1 DEF PromisedRestart, Promised
  <2>3. CASE Reading /\ store' \in Saved(call, call.key)
    <3>1. call \in Scripts /\ UNCHANGED archive
      BY <1>10, <2>3, ArchiveIsOfScripts DEF Reading, IInv, MemoryTypeOK, Stops, Restarted
    <3>2. Kept' \subseteq Kept \union {t \in Scripts : t.key = call.key}
      BY <2>3, <3>1, SavedIsKept
    <3>3. call.key \in Keys
      BY <3>1, ScriptsAre
    <3> QED
      BY <2>1, <3>2, <3>3 DEF PromisedRestart, Promised
  <2> QED
    BY <1>10, <2>2, <2>3 DEF Stops
<1> QED
  BY <1>1, <1>2, <1>3, <1>4, <1>5, <1>6, <1>7, <1>8, <1>9, <1>10 DEF Kinds

(* The promise of UnlockPromise is kept: every step of the unlock is a     *)
(* step of it, or changes nothing that it speaks of.                       *)
THEOREM UnlockKeepsPromise == Spec => KeepsPromise
<1>1. RemoteInit => Promise!PromiseInit
  <2> SUFFICES ASSUME RemoteInit PROVE Promise!PromiseInit
    OBVIOUS
  <2>1. /\ archive \in Archives /\ content = [s \in Scripts |-> Sealed]
        /\ phase = "idle" /\ key = NoKey
    BY DEF RemoteInit, Init
  <2>2. archive \subseteq Scripts
    BY <2>1, ArchiveIsOfScripts
  <2> QED
    BY <2>1, <2>2 DEF Promise!PromiseInit, Sealed
<1>2. Promised => [Promise!PromiseNext]_(Promise!promise)
  BY DEF Promised, PromisedTry, PromisedRun, PromisedReturn, PromisedForget, PromisedRestart,
         PromisedStutter, Opened, Runs, Kept, Promise!PromiseNext, Promise!promise, Promise!Try,
         Promise!Run, Promise!Return, Promise!Forget, Promise!Restart, Promise!OpenedBy
<1>3. IInv /\ SourcesTypeOK /\ [Next]_vars => [Promise!PromiseNext]_(Promise!promise)
  BY <1>2, StepsAre, KindsArePromised
<1> QED
  BY <1>1, <1>3, InitEstablishes, NextKeeps, PTL DEF Spec, KeepsPromise, Promise!PromiseSpec

------------------------------------------------------------------------------
(* The online exchange.  However callbacks, the user and the next attempt  *)
(* interleave: until a callback of an earlier attempt has met with what is *)
(* not its own, the page is only ever settled by an answer to its own      *)
(* request, and an attempt leaves no response to the next.                 *)

(* Where a method is chosen nothing is open and no callback is that of an  *)
(* attempt that stands, and the online page has only its own request under *)
(* way.                                                                    *)
OwnRequest ==
  /\ page = "method" => ~connected /\ sent = NoRequest /\ \A c \in Callbacks : ~own[c]
  /\ page = "inet" => sent \in {NoRequest, request}

(* The page connects after it has started, and while it is on the way to   *)
(* its request every callback is an earlier attempt's; later there is one  *)
(* that is not.                                                            *)
InTurn ==
  /\ page = "inet" /\ notify = "start" => ~connected
  /\ page = "inet" /\ notify \in {"start", "connect", "request"}
       => \A c \in Callbacks : ~own[c]
OneRuns == \A c, d \in Callbacks : own[c] /\ own[d] => c = d

(* There is a response only while the callback of its request works on it, *)
(* and a request while its callback takes the headers for read.            *)
Working == {"reading", "copying", "ended", "parsed"}
OneResponse ==
  /\ ~data => incoming = NoAnswer
  /\ ~stray => /\ data => sent # NoRequest /\ \E c \in Callbacks : own[c] /\ stage[c] \in Working
               /\ buffers = (IF data THEN 1 ELSE 0)
Headed ==
  ~stray => \A c \in Callbacks : own[c] /\ stage[c] \in {"response", "rest"} => sent # NoRequest

CallbacksTypeOK ==
  /\ stage \in [Callbacks -> Stages] /\ left \in [Callbacks -> 0 .. MaxPieces]
  /\ own \in [Callbacks -> BOOLEAN]

NetInv == OwnRequest /\ InTurn /\ OneRuns /\ OneResponse /\ Headed /\ OwnAnswer /\ CallbacksTypeOK

LEMMA NetInvSuffices == NetInv => OwnAnswer /\ NothingLeftOver
<1> SUFFICES ASSUME NetInv PROVE OwnAnswer /\ NothingLeftOver
  OBVIOUS
<1>1. Notified("start") => ~connected /\ \A c \in Callbacks : ~own[c]
  BY DEF Notified, NetInv, InTurn
<1>2. ~stray => /\ data => \E c \in Callbacks : own[c]
                /\ buffers = (IF data THEN 1 ELSE 0)
  BY DEF NetInv, OneResponse
<1> QED
  BY <1>1, <1>2 DEF NothingLeftOver, NetInv

LEMMA PiecesAre == MaxPieces \in Nat \ {0} /\ 0 \in 0 .. MaxPieces /\ 1 \in 0 .. MaxPieces
BY RemoteAssumption DEF RemoteAssumption

LEMMA RestartEstablishes == RemoteRestarted => NetInv'
<1> SUFFICES ASSUME RemoteRestarted PROVE NetInv'
  OBVIOUS
<1>1. CallbacksTypeOK'
  BY PiecesAre DEF RemoteRestarted, CallbacksTypeOK, Stages
<1>2. \A c \in Callbacks : ~own'[c]
  BY DEF RemoteRestarted
<1> QED
  BY <1>1, <1>2 DEF RemoteRestarted, Restarted, NetInv, OwnRequest, InTurn, OneRuns, OneResponse,
                    Headed, OwnAnswer, NoAnswer

LEMMA InitHasNetInv == RemoteInit => NetInv
<1> SUFFICES ASSUME RemoteInit PROVE NetInv
  OBVIOUS
<1>1. CallbacksTypeOK
  BY PiecesAre DEF RemoteInit, CallbacksTypeOK, Stages
<1>2. \A c \in Callbacks : ~own[c]
  BY DEF RemoteInit
<1> QED
  BY <1>1, <1>2 DEF RemoteInit, Init, NetInv, OwnRequest, InTurn, OneRuns, OneResponse, Headed,
                    OwnAnswer

(* A freed response is gone, and its buffer with it.                       *)
LEMMA FreedLeavesNothing ==
  ASSUME OneResponse, Freed, stray => stray'
  PROVE  OneResponse'
<1>1. /\ data' = FALSE /\ incoming' = NoAnswer
      /\ buffers' = (IF data /\ ~stray THEN buffers - 1 ELSE buffers)
  BY DEF Freed
<1>2. ~stray => buffers = (IF data THEN 1 ELSE 0)
  BY DEF OneResponse
<1>3. ASSUME ~stray' PROVE buffers' = 0
  <2>1. CASE data
    BY <1>1, <1>2, <1>3, <2>1
  <2>2. CASE ~data
    BY <1>1, <1>2, <1>3, <2>2
  <2> QED
    BY <2>1, <2>2
<1> QED
  BY <1>1, <1>3 DEF OneResponse, NoAnswer

LEMMA NoneIsOwn ==
  ASSUME \A c \in Callbacks : ~own'[c]
  PROVE  OneRuns' /\ Headed'
BY DEF OneRuns, Headed

(* What the program does elsewhere only moves the page, and never to those *)
(* of the online exchange.                                                 *)
LEMMA ElsewhereKeeps ==
  ASSUME NetInv, UNCHANGED <<exchange, ready, client>>, notify' \in {notify, "none"},
         page' \in {page, "none", "unset", "dsn", "passcode"}
  PROVE  NetInv'
BY DEF NetInv, OwnRequest, InTurn, OneRuns, OneResponse, Headed, OwnAnswer, CallbacksTypeOK,
       exchange, client, received, callbacks, NoAnswer, NoRequest

LEMMA LocalKeepsNet ==
  ASSUME NetInv, LocalNext, Forgets
  PROVE  NetInv'
<1>1. page' \in {page, "none", "unset", "dsn", "passcode"}
  <2>1. CASE (\E s \in archive : Prepare(s)) \/ Enter \/ Return \/ UseStoredKey
    BY <2>1 DEF Prepare, Enter, Exited, Return, UseStoredKey
  <2>2. CASE CallerInitialize \/ PromptInitialize \/ SplitInitialize \/ DiskIdInitialize
    BY <2>2 DEF CallerInitialize, PromptInitialize, SplitInitialize, DiskIdInitialize
  <2>3. CASE Verify \/ Cancel
    BY <2>3 DEF Verify, Cancel, Refuse, Fail, Exited
  <2>4. CASE BackToDsn \/ \E part \in Parts : EnterDsn(part)
    BY <2>4 DEF BackToDsn, EnterDsn
  <2>5. CASE \E typed \in Keys, checked \in BOOLEAN : EnterPasscode(typed, checked)
    BY <2>5 DEF EnterPasscode, Attempt
  <2> QED
    BY <2>1, <2>2, <2>3, <2>4, <2>5 DEF LocalNext
<1> QED
  BY <1>1, ElsewhereKeeps DEF Forgets

------------------------------------------------------------------------------
(* The user's steps.                                                       *)

(* The cleaning up before a method is chosen: what runs on is an earlier   *)
(* attempt's from there.                                                   *)
LEMMA CleanupKeeps ==
  ASSUME NetInv, Cleanup, page' = "method", UNCHANGED <<stage, left>>
  PROVE  NetInv'
<1>1. OneResponse'
  BY FreedLeavesNothing DEF Cleanup, NetInv
<1>2. /\ own' = [c \in Callbacks |-> FALSE] /\ ~connected' /\ sent' = NoRequest
  BY DEF Cleanup, Closed
<1>3. OneRuns' /\ Headed'
  BY <1>2, NoneIsOwn
<1>4. CallbacksTypeOK'
  BY <1>2 DEF NetInv, CallbacksTypeOK
<1>5. OwnRequest' /\ InTurn' /\ OwnAnswer'
  BY <1>2 DEF OwnRequest, InTurn, OwnAnswer, NoRequest
<1> QED
  BY <1>1, <1>3, <1>4, <1>5 DEF NetInv

(* Away from the online page only the response and the callbacks matter.   *)
LEMMA AwayKeeps ==
  ASSUME NetInv, page' \notin {"method", "inet"}, UNCHANGED <<received, sent, callbacks, stray>>
  PROVE  NetInv'
BY DEF NetInv, OwnRequest, InTurn, OneRuns, OneResponse, Headed, OwnAnswer, CallbacksTypeOK,
       received, callbacks, NoAnswer, NoRequest

LEMMA DialogKeepsNet == ASSUME NetInv, DialogNext PROVE NetInv'
<1>1. CASE RemoteInitialize
  <2>1. page' = "pkey" /\ UNCHANGED <<received, sent, callbacks, stray>>
    BY <1>1 DEF RemoteInitialize, remoteVars, client
  <2> QED
    BY <2>1, AwayKeeps
<1>2. CASE EnterAccessCode
  <2>1. CASE OnlyByTelephone(call)
    <3>1. page' = "rcode" /\ UNCHANGED <<received, sent, callbacks, stray>>
      BY <1>2, <2>1 DEF EnterAccessCode, NoCleanup, callbacks
    <3> QED
      BY <3>1, AwayKeeps
  <2>2. CASE ~OnlyByTelephone(call)
    <3>1. page' = "method" /\ Cleanup /\ UNCHANGED <<stage, left>>
      BY <1>2, <2>2 DEF EnterAccessCode
    <3> QED
      BY <3>1, CleanupKeeps
  <2> QED
    BY <2>1, <2>2
<1>3. CASE Back
  <2>1. CASE page' = "method" /\ Cleanup
    BY <1>3, <2>1, CleanupKeeps DEF Back
  <2>2. CASE page' = "pkey" /\ NoCleanup
    BY <1>3, <2>2, AwayKeeps DEF Back, NoCleanup, callbacks
  <2> QED
    BY <1>3, <2>1, <2>2 DEF Back
<1>4. ASSUME NEW method \in {"rcode", "qr", "inet"}, SelectMethod(method) PROVE NetInv'
  <2>1. /\ page = "method" /\ page' = method
        /\ UNCHANGED <<received, connected, sent, callbacks, stray>>
    BY <1>4 DEF SelectMethod, client
  <2>2. CASE method # "inet"
    BY <1>4, <2>1, <2>2, AwayKeeps
  <2>3. CASE method = "inet"
    <3>1. ready' = FALSE /\ notify' = "start"
      BY <1>4, <2>3 DEF SelectMethod
    <3>2. ~connected /\ sent = NoRequest /\ \A c \in Callbacks : ~own[c]
      BY <2>1 DEF NetInv, OwnRequest
    <3>3. OneResponse' /\ OneRuns' /\ Headed' /\ CallbacksTypeOK'
      BY <2>1 DEF NetInv, OneResponse, OneRuns, Headed, CallbacksTypeOK, received, callbacks,
                  NoAnswer, NoRequest
    <3> QED
      BY <2>1, <2>3, <3>1, <3>2, <3>3 DEF NetInv, OwnRequest, InTurn, OwnAnswer, NoRequest,
                                          callbacks
  <2> QED
    BY <2>2, <2>3
<1>5. ASSUME NEW r, NEW k, NEW checked, EnterConfirmation(r, k, checked) PROVE NetInv'
  <2>1. page' = page /\ page \in {"rcode", "qr"} /\ UNCHANGED <<received, sent, callbacks, stray>>
    BY <1>5 DEF EnterConfirmation, Attempt, client
  <2> QED
    BY <2>1, AwayKeeps
<1>6. CASE EnterBrokenConfirmation
  <2>1. page' = page /\ page \in {"rcode", "qr"} /\ UNCHANGED <<received, sent, callbacks, stray>>
    BY <1>6 DEF EnterBrokenConfirmation, unlockVars, memory, client
  <2> QED
    BY <2>1, AwayKeeps
<1>7. ASSUME NEW checked, EnterAnswer(checked) PROVE NetInv'
  BY <1>7, ElsewhereKeeps DEF EnterAnswer, Attempt, remoteVars, screen
<1> QED
  BY <1>1, <1>2, <1>3, <1>4, <1>5, <1>6, <1>7 DEF DialogNext

------------------------------------------------------------------------------
(* The notifications of the online page, which come while no callback is   *)
(* its own, and leave them so until the request has been sent.             *)
Notifies ==
  /\ page = "inet" /\ notify \in {"start", "connect", "request"}
  /\ UNCHANGED <<page, request, callbacks>> /\ (stray => stray')
  /\ notify' \in {"none", "connect", "request"} /\ sent' \in {sent, NoRequest}
  /\ Freed \/ UNCHANGED received

LEMMA NotifiesKeeps ==
  ASSUME NetInv, Notifies, OwnAnswer'
  PROVE  NetInv'
<1>1. \A c \in Callbacks : ~own[c] /\ ~own'[c]
  BY DEF Notifies, NetInv, InTurn, callbacks
<1>2. OneRuns' /\ Headed'
  BY <1>1, NoneIsOwn
<1>3. CallbacksTypeOK'
  BY DEF NetInv, CallbacksTypeOK, Notifies, callbacks
<1>4. OneResponse'
  <2>1. CASE Freed
    BY <2>1, FreedLeavesNothing DEF Notifies, NetInv
  <2>2. CASE UNCHANGED received
    BY <1>1, <2>2 DEF NetInv, OneResponse, received, Notifies, NoAnswer
  <2> QED
    BY <2>1, <2>2 DEF Notifies
<1>5. OwnRequest' /\ InTurn'
  BY <1>1 DEF NetInv, OwnRequest, InTurn, Notifies, NoRequest
<1> QED
  BY <1>2, <1>3, <1>4, <1>5 DEF NetInv

LEMMA NetKeepsNet == ASSUME NetInv, NetNext PROVE NetInv'
<1>0. ASSUME UNCHANGED <<page, exchange, ready>>, stray => stray' PROVE OwnAnswer'
  BY <1>0 DEF NetInv, OwnAnswer, exchange
<1>1. CASE StartNet \/ SendUnconnected
  <2>1. Notifies /\ UNCHANGED <<page, exchange, ready>> /\ (stray => stray')
    BY <1>1 DEF StartNet, SendUnconnected, Requesting, Notified, unlockVars, memory, client, Notifies,
                exchange
  <2> QED
    BY <1>0, <2>1, NotifiesKeeps
<1>2. CASE ConnectCurl \/ ConnectWininet
  <2>1. Notifies /\ UNCHANGED <<page, exchange, ready>> /\ (stray => stray')
    <3>1. stray => stray'
      BY <1>2 DEF ConnectCurl, ConnectWininet
    <3>2. CASE ConnectCurl
      BY <3>1, <3>2 DEF ConnectCurl, Notified, Failed, unlockVars, memory, Notifies, exchange
    <3>3. CASE ConnectWininet
      BY <3>1, <3>3 DEF ConnectWininet, Notified, Failed, unlockVars, memory, Notifies, exchange
    <3> QED
      BY <1>2, <3>2, <3>3
  <2> QED
    BY <1>0, <2>1, NotifiesKeeps
<1>3. CASE CurlFails \/ CurlAnswersNothing
  <2>1. Notifies /\ UNCHANGED <<page, exchange, ready>> /\ (stray => stray')
    BY <1>3 DEF CurlFails, CurlAnswersNothing, Requesting, Notified, Failed, Closed, unlockVars,
                memory, Notifies, exchange
  <2> QED
    BY <1>0, <2>1, NotifiesKeeps
<1>4. ASSUME NEW a, CurlAnswers(a) PROVE NetInv'
  <2>1. Notifies /\ page' = "inet" /\ UNCHANGED <<request, stray>>
    BY <1>4 DEF CurlAnswers, Requesting, Notified, Completed, Closed, unlockVars, memory, Notifies
  <2>2. OwnAnswer'
    <3>1. CASE IsCode(a)
      BY <1>4, <2>1, <3>1 DEF CurlAnswers, Completed, Answered, OwnAnswer
    <3>2. CASE ~IsCode(a)
      BY <1>4, <2>1, <3>2 DEF CurlAnswers, Completed, NetInv, OwnAnswer, Notifies
    <3> QED
      BY <3>1, <3>2
  <2> QED
    BY <2>1, <2>2, NotifiesKeeps
<1>5. CASE SendWininet
  <2>1. /\ page = "inet" /\ notify = "request" /\ notify' = "none"
        /\ UNCHANGED <<page, exchange, ready, stray>>
    BY <1>5 DEF SendWininet, Requesting, Notified, unlockVars, memory
  <2>2. OwnAnswer' /\ \A c \in Callbacks : ~own[c]
    BY <1>0, <2>1 DEF NetInv, InTurn
  <2>3. CASE Failed /\ (Closed \/ UNCHANGED <<connected, sent>>) /\ UNCHANGED callbacks
    <3>1. Notifies
      BY <2>1, <2>3 DEF Notifies, Failed, Closed, exchange
    <3> QED
      BY <2>2, <3>1, NotifiesKeeps
  <2>4. ASSUME sent' = request, UNCHANGED <<connected, received, left>>,
               NEW c \in Callbacks,
               \/ /\ stage' = [stage EXCEPT ![c] = "pending"]
                  /\ own' = [own EXCEPT ![c] = TRUE]
               \/ UNCHANGED <<stage, own>> /\ stray
        PROVE  NetInv'
    <3>1. CallbacksTypeOK'
      BY <2>4 DEF NetInv, CallbacksTypeOK, Stages
    <3>2. \A d \in Callbacks : own'[d] => d = c /\ stage'[d] = "pending"
      BY <2>2, <2>4 DEF NetInv, CallbacksTypeOK
    <3>3. OneRuns' /\ Headed'
      BY <3>2 DEF OneRuns, Headed
    <3>4. OneResponse'
      BY <2>1, <2>2, <2>4 DEF NetInv, OneResponse, received, NoAnswer
    <3>5. OwnRequest' /\ InTurn'
      BY <2>1, <2>4 DEF OwnRequest, InTurn, NoRequest, exchange
    <3> QED
      BY <2>2, <3>1, <3>3, <3>4, <3>5 DEF NetInv
  <2>5. 1 \in Callbacks
    BY RemoteAssumption DEF RemoteAssumption, Callbacks
  <2>6. CASE stray /\ sent' = request /\ UNCHANGED <<progress, connected, received, callbacks>>
    BY <2>4, <2>5, <2>6 DEF callbacks
  <2> QED
    BY <1>5, <2>3, <2>4, <2>6 DEF SendWininet
<1>6. CASE CurlDies
  BY <1>6, RestartEstablishes DEF CurlDies, Dies
<1> QED
  BY <1>1, <1>2, <1>3, <1>4, <1>5, <1>6 DEF NetNext

------------------------------------------------------------------------------
(* The callbacks' threads.  Their steps move neither the page nor its      *)
(* notifications, and start nothing on the way to a request.               *)
CallbackSteps(c) ==
  /\ UNCHANGED <<page, request, notify>> /\ (stray => stray')
  /\ UNCHANGED <<connected, sent>> \/ Closed
  /\ \E to \in Stages, pieces \in 0 .. MaxPieces : Goes(c, to, pieces)

LEMMA GoesOn ==
  ASSUME CallbacksTypeOK, NEW c \in Callbacks, NEW to \in Stages, NEW pieces \in 0 .. MaxPieces,
         Goes(c, to, pieces)
  PROVE  /\ CallbacksTypeOK'
         /\ stage'[c] = to /\ own'[c] = (own[c] /\ to # "idle")
         /\ \A d \in Callbacks : d # c => stage'[d] = stage[d] /\ own'[d] = own[d]
<1>1. /\ stage' = [stage EXCEPT ![c] = to] /\ left' = [left EXCEPT ![c] = pieces]
      /\ own' = [own EXCEPT ![c] = own[c] /\ to # "idle"]
  BY DEF Goes
<1>2. own'[c] = (own[c] /\ to # "idle") /\ \A d \in Callbacks : d # c => own'[d] = own[d]
  BY <1>1 DEF CallbacksTypeOK
<1>3. own' \in [Callbacks -> BOOLEAN]
  <2>1. (own[c] /\ to # "idle") \in BOOLEAN
    OBVIOUS
  <2> QED
    BY <1>1, <2>1 DEF CallbacksTypeOK
<1>4. /\ stage' \in [Callbacks -> Stages] /\ left' \in [Callbacks -> 0 .. MaxPieces]
      /\ stage'[c] = to /\ \A d \in Callbacks : d # c => stage'[d] = stage[d]
  BY <1>1 DEF CallbacksTypeOK
<1> QED
  BY <1>2, <1>3, <1>4 DEF CallbacksTypeOK

LEMMA CallbackKeepsPage ==
  ASSUME NetInv, NEW c \in Callbacks, CallbackSteps(c)
  PROVE  OwnRequest' /\ InTurn' /\ OneRuns' /\ CallbacksTypeOK'
<1>1. PICK to \in Stages, pieces \in 0 .. MaxPieces : Goes(c, to, pieces)
  BY DEF CallbackSteps
<1>2. CallbacksTypeOK' /\ \A d \in Callbacks : own'[d] => own[d]
  BY <1>1, GoesOn DEF NetInv
<1>3. /\ UNCHANGED <<page, request, notify>>
      /\ (connected' => connected) /\ sent' \in {sent, NoRequest}
  BY DEF CallbackSteps, Closed
<1>4. OwnRequest'
  BY <1>2, <1>3 DEF NetInv, OwnRequest, NoRequest
<1>5. InTurn'
  BY <1>2, <1>3 DEF NetInv, InTurn
<1>6. OneRuns'
  BY <1>2 DEF NetInv, OneRuns
<1> QED
  BY <1>2, <1>4, <1>5, <1>6

(* As long as nothing has strayed there is no response before the headers  *)
(* of the own request were read.                                           *)
LEMMA NoResponseYet ==
  ASSUME NetInv, NEW c \in Callbacks, own[c], stage[c] \notin Working, ~stray
  PROVE  ~data /\ buffers = 0
BY DEF NetInv, OneRuns, OneResponse

(* A callback works on: the response stays as it is.                       *)
LEMMA WorksOn ==
  ASSUME NetInv, NEW c \in Callbacks, NEW to \in Stages, NEW pieces \in 0 .. MaxPieces,
         Goes(c, to, pieces), UNCHANGED <<received, sent>>, stray => stray',
         stage[c] \in Working => to \in Working
  PROVE  OneResponse'
<1>1. /\ stage'[c] = to /\ own'[c] = (own[c] /\ to # "idle")
      /\ \A d \in Callbacks : d # c => stage'[d] = stage[d] /\ own'[d] = own[d]
  BY GoesOn DEF NetInv
<1>2. ASSUME ~stray, data
      PROVE  \E d \in Callbacks : own'[d] /\ stage'[d] \in Working
  <2>1. PICK d \in Callbacks : own[d] /\ stage[d] \in Working
    BY <1>2 DEF NetInv, OneResponse
  <2>2. CASE d = c
    BY <1>1, <2>1, <2>2 DEF Working
  <2>3. CASE d # c
    BY <1>1, <2>1, <2>3
  <2> QED
    BY <2>2, <2>3
<1> QED
  BY <1>2 DEF NetInv, OneResponse, received, NoAnswer, NoRequest

(* The request is there as long as it is needed for the headers.           *)
LEMMA StaysHeaded ==
  ASSUME NetInv, NEW c \in Callbacks, NEW to \in Stages, NEW pieces \in 0 .. MaxPieces,
         Goes(c, to, pieces), stray => stray',
         to \in {"response", "rest"} => stray' \/ sent' # NoRequest,
         sent' = sent \/ stray' \/ own[c]
  PROVE  Headed'
<1>1. /\ stage'[c] = to /\ own'[c] = (own[c] /\ to # "idle")
      /\ \A d \in Callbacks : d # c => stage'[d] = stage[d] /\ own'[d] = own[d]
  BY GoesOn DEF NetInv
<1> SUFFICES ASSUME ~stray', NEW d \in Callbacks, own'[d], stage'[d] \in {"response", "rest"}
             PROVE  sent' # NoRequest
  BY DEF Headed, NoRequest
<1>2. CASE d = c
  BY <1>1, <1>2
<1>3. CASE d # c
  <2>1. own[d] /\ stage[d] \in {"response", "rest"}
    BY <1>1, <1>3
  <2>2. sent' = sent
    BY <1>3, <2>1 DEF NetInv, OneRuns
  <2> QED
    BY <2>1, <2>2 DEF NetInv, Headed
<1> QED
  BY <1>2, <1>3

(* What both need of a step that ends in such a stage.                     *)
LEMMA StepKeeps ==
  ASSUME NetInv, NEW c \in Callbacks, CallbackSteps(c), OneResponse', Headed', OwnAnswer'
  PROVE  NetInv'
BY CallbackKeepsPage DEF NetInv

LEMMA SameAnswer ==
  ASSUME NetInv, UNCHANGED <<page, request, answers, ready>>, stray => stray'
  PROVE  OwnAnswer'
BY DEF NetInv, OwnAnswer

(* An answer is taken for the request that it was sent for.                *)
LEMMA CompletedIsOwn ==
  ASSUME NetInv, ~stray, UNCHANGED <<page, request>>, Completed(incoming, sent)
  PROVE  OwnAnswer'
<1>1. CASE IsCode(incoming)
  <2>1. data
    BY <1>1 DEF IsCode, NoAnswer, NetInv, OneResponse
  <2>2. page = "inet" => sent = request
    BY <2>1 DEF NetInv, OwnRequest, OneResponse
  <2>3. page = "inet" => answers' = request
    BY <1>1, <2>2 DEF Completed, Answered
  <2> QED
    BY <2>3 DEF OwnAnswer
<1>2. CASE ~IsCode(incoming)
  BY <1>2, SameAnswer DEF Completed
<1> QED
  BY <1>1, <1>2

LEMMA StagesAre ==
  /\ Stages = {"idle", "pending", "again", "response", "rest", "reading", "copying", "ended",
               "parsed", "closing"}
  /\ Working \subseteq Stages
BY DEF Stages, Working

(* An error frees the response.                                            *)
LEMMA FailedKeeps ==
  ASSUME NetInv, NEW c \in Callbacks, NEW to \in {"idle", "closing", "again"},
         CallbackFailed(c, to), UNCHANGED <<page, request, notify, answers, ready, connected, sent>>
  PROVE  NetInv'
<1>1. /\ Freed /\ Goes(c, to, 0) /\ (stray => stray') /\ to \in Stages /\ 0 \in 0 .. MaxPieces
  BY StagesAre, PiecesAre DEF CallbackFailed, Failed, Strays
<1>2. CallbackSteps(c)
  BY <1>1 DEF CallbackSteps
<1>3. OneResponse'
  BY <1>1, FreedLeavesNothing DEF NetInv
<1>4. Headed'
  BY <1>1, StaysHeaded
<1> QED
  BY <1>1, <1>2, <1>3, <1>4, SameAnswer, StepKeeps

(* So does whatever else ends an attempt and closes its request.           *)
LEMMA ClosedKeeps ==
  ASSUME NetInv, NEW c \in Callbacks, NEW to \in {"reading", "closing"}, NEW n \in 0 .. MaxPieces,
         Goes(c, to, n), Freed, Closed, Strays(Earlier(c)), UNCHANGED <<page, request, notify>>,
         OwnAnswer'
  PROVE  NetInv'
<1>1. (stray => stray') /\ to \in Stages /\ (stray' \/ own[c])
  BY StagesAre DEF Strays, Earlier
<1>2. CallbackSteps(c)
  BY <1>1 DEF CallbackSteps
<1>3. OneResponse'
  BY <1>1, FreedLeavesNothing DEF NetInv
<1>4. Headed'
  BY <1>1, StaysHeaded
<1> QED
  BY <1>2, <1>3, <1>4, StepKeeps

(* A callback that works on, with or without a response of its own.        *)
LEMMA OnKeeps ==
  ASSUME NetInv, NEW c \in Callbacks, NEW to \in Stages, NEW n \in 0 .. MaxPieces,
         Goes(c, to, n), stray => stray', stage[c] \in Working => to \in Working,
         to \in {"response", "rest"} => sent # NoRequest,
         UNCHANGED <<received, connected, sent, page, request, notify, answers, ready>>
  PROVE  NetInv'
<1>1. CallbackSteps(c)
  BY DEF CallbackSteps
<1>2. OneResponse'
  BY WorksOn
<1>3. Headed'
  BY StaysHeaded
<1> QED
  BY <1>1, <1>2, <1>3, SameAnswer, StepKeeps

LEMMA CallbackKeepsNet == ASSUME NetInv, CallbackNext PROVE NetInv'
<1> SUFFICES ASSUME NEW c \in Callbacks,
               \/ CallbackCancelled(c) \/ CallbackFails(c) \/ CallbackQueries(c)
               \/ \E a \in Answers : CallbackResponse(c, a)
               \/ CallbackCannotRead(c) \/ CallbackReceives(c) \/ CallbackCopies(c)
               \/ CallbackEnds(c) \/ CallbackParses(c) \/ CallbackDies(c)
               \/ CallbackCompletes(c) \/ CallbackCloses(c)
             PROVE NetInv'
  BY DEF CallbackNext
<1>0. /\ 0 \in 0 .. MaxPieces /\ 1 \in 0 .. MaxPieces /\ left[c] \in 0 .. MaxPieces
      /\ MaxPieces \in Nat /\ stage[c] \in Stages /\ own[c] \in BOOLEAN
  BY PiecesAre DEF NetInv, CallbacksTypeOK
<1>1. CASE CallbackCancelled(c)
  BY <1>0, <1>1, OnKeeps, StagesAre DEF CallbackCancelled, Waits, Working, unlockVars, memory,
                                       exchange, screen
<1>2. CASE CallbackFails(c) \/ CallbackCannotRead(c)
  BY <1>2, FailedKeeps DEF CallbackFails, CallbackCannotRead, CallbackLeaves, unlockVars, memory
<1>3. CASE CallbackQueries(c)
  <2>1. UNCHANGED <<page, request, notify, answers, ready, connected, sent>>
    BY <1>3 DEF CallbackQueries, CallbackLeaves, unlockVars, memory
  <2>2. CASE CallbackFailed(c, "idle")
    BY <2>1, <2>2, FailedKeeps
  <2>3. CASE /\ sent # NoRequest
             /\ Goes(c, IF stage[c] = "again" THEN "rest" ELSE "response", 0)
             /\ Strays(Earlier(c)) /\ UNCHANGED received
    <3>1. (stray => stray') /\ stage[c] \notin Working
      BY <1>3, <2>3 DEF Strays, CallbackQueries, Waits, Working
    <3> QED
      BY <1>0, <2>1, <2>3, <3>1, OnKeeps, StagesAre
  <2> QED
    BY <1>3, <2>2, <2>3 DEF CallbackQueries
<1>4. ASSUME NEW a \in Answers, CallbackResponse(c, a) PROVE NetInv'
  <2>1. /\ UNCHANGED <<page, request, notify, answers, ready>>
        /\ stage[c] \in {"response", "rest"} /\ stage[c] \notin Working
        /\ (stray => stray') /\ (stray' \/ (own[c] /\ ~stray))
    BY <1>4 DEF CallbackResponse, CallbackLeaves, unlockVars, memory, Working, Strays, Earlier
  <2>2. PICK pieces \in 0 .. MaxPieces : Goes(c, "reading", pieces)
    BY <1>0, <1>4 DEF CallbackResponse
  <2>3. "reading" \in Stages /\ "reading" \in Working
    BY DEF Stages, Working
  <2>4. UNCHANGED <<connected, sent>> \/ Closed
    BY <1>4 DEF CallbackResponse
  <2>5. CallbackSteps(c)
    BY <2>1, <2>2, <2>3, <2>4 DEF CallbackSteps
  <2>6. Headed'
    BY <2>1, <2>2, <2>3, StaysHeaded
  <2>7. stage'[c] = "reading" /\ own'[c] = own[c]
    BY <1>0, <2>2, <2>3, GoesOn DEF NetInv
  <2>8. own[c] /\ ~stray => ~data /\ buffers = 0 /\ sent # NoRequest
    BY <2>1, NoResponseYet DEF NetInv, Headed
  <2>9. OneResponse'
    <3>1. CASE data' = FALSE /\ incoming' = NoAnswer /\ UNCHANGED buffers
      BY <2>1, <2>8, <3>1 DEF OneResponse, NoAnswer
    <3>2. CASE /\ data' = TRUE /\ buffers' = (IF stray THEN buffers ELSE buffers + 1)
               /\ UNCHANGED sent
      BY <2>1, <2>3, <2>7, <2>8, <3>2 DEF OneResponse, NoRequest
    <3> QED
      BY <1>4, <3>1, <3>2 DEF CallbackResponse
  <2> QED
    BY <2>1, <2>5, <2>6, <2>9, SameAnswer, StepKeeps
<1>5. CASE CallbackReceives(c)
  <2>1. /\ UNCHANGED <<page, request, notify, answers, ready>>
        /\ stage[c] = "reading" /\ left[c] - 1 \in 0 .. MaxPieces
        /\ (stray => stray') /\ Strays(Earlier(c))
    <3>1. left[c] - 1 \in 0 .. MaxPieces
      BY <1>0, <1>5 DEF CallbackReceives
    <3>2. Strays(Earlier(c)) /\ stage[c] = "reading" /\ CallbackLeaves
          /\ UNCHANGED <<answers, ready>>
      BY <1>5 DEF CallbackReceives
    <3>3. stray => stray'
      BY <3>2 DEF Strays
    <3> QED
      BY <3>1, <3>2, <3>3 DEF CallbackLeaves, unlockVars, memory
  <2>2. CASE /\ Goes(c, "reading", left[c] - 1) \/ Goes(c, "copying", left[c] - 1)
             /\ UNCHANGED <<connected, sent, received>>
    <3>1. "reading" \in Stages /\ "copying" \in Stages /\ {"reading", "copying"} \subseteq Working
      BY DEF Stages, Working
    <3> QED
      BY <2>1, <2>2, <3>1, OnKeeps
  <2>3. CASE Goes(c, "reading", left[c] - 1) /\ Closed /\ Freed
    <3>1. OwnAnswer'
      BY <2>1, SameAnswer
    <3> QED
      BY <2>1, <2>3, <3>1, ClosedKeeps
  <2> QED
    BY <1>5, <2>2, <2>3 DEF CallbackReceives
<1>6. CASE CallbackCopies(c) \/ CallbackEnds(c) \/ CallbackParses(c)
  <2>1. /\ UNCHANGED <<page, request, notify, answers, ready, connected, sent, received>>
        /\ stray => stray'
    <3>1. stray => stray'
      BY <1>6 DEF CallbackCopies, CallbackEnds, CallbackParses, Strays
    <3> QED
      BY <1>6, <3>1 DEF CallbackCopies, CallbackEnds, CallbackParses, unlockVars, memory, exchange,
                        screen
  <2>2. \E to \in {"reading", "ended", "parsed"}, n \in 0 .. MaxPieces : Goes(c, to, n)
    BY <1>0, <1>6 DEF CallbackCopies, CallbackEnds, CallbackParses
  <2>3. {"reading", "ended", "parsed"} \subseteq Stages /\ {"reading", "ended", "parsed"} \subseteq Working
    BY DEF Stages, Working
  <2> QED
    BY <2>1, <2>2, <2>3, OnKeeps
<1>7. CASE CallbackCompletes(c)
  <2>1. PICK parsed \in Parsed(c) : Completed(parsed[1], parsed[2])
    BY <1>7 DEF CallbackCompletes
  <2>2. /\ Closed /\ Freed /\ Goes(c, "closing", 0) /\ Strays(Earlier(c))
        /\ UNCHANGED <<page, request, notify>>
    BY <1>7, <2>1 DEF CallbackCompletes, CallbackLeaves, Completed, unlockVars, memory
  <2>3. OwnAnswer'
    <3>1. CASE own[c] /\ ~stray
      <4>1. parsed = <<incoming, sent>>
        BY <2>1, <3>1 DEF Parsed
      <4>2. Completed(incoming, sent)
        BY <2>1, <4>1
      <4> QED
        BY <2>2, <3>1, <4>2, CompletedIsOwn
    <3>2. CASE ~(own[c] /\ ~stray)
      BY <2>2, <3>2 DEF Strays, Earlier, OwnAnswer
    <3> QED
      BY <3>1, <3>2
  <2> QED
    BY <1>0, <2>2, <2>3, ClosedKeeps
<1>8. CASE CallbackCloses(c)
  <2>1. /\ UNCHANGED <<page, request, notify, answers, ready, received>> /\ stage[c] = "closing"
        /\ Closed /\ Goes(c, "idle", 0) /\ (stray => stray') /\ "idle" \in Stages
        /\ stray' \/ own[c] \/ sent' = sent
    BY <1>8 DEF CallbackCloses, unlockVars, memory, exchange, screen, Strays, Earlier, Closed, Stages
  <2>2. CallbackSteps(c)
    BY <1>0, <2>1 DEF CallbackSteps
  <2>3. Headed'
    BY <1>0, <2>1, StaysHeaded
  <2>4. OneResponse'
    <3>1. CASE own[c] /\ ~stray
      <4>1. ~data /\ buffers = 0
        BY <2>1, <3>1, NoResponseYet DEF Working
      <4> QED
        BY <2>1, <4>1 DEF NetInv, OneResponse, received, NoAnswer
    <3>2. CASE stray'
      BY <2>1, <3>2 DEF NetInv, OneResponse, received, NoAnswer
    <3>3. CASE ~own[c] /\ sent' = sent
      BY <1>0, <2>1, <3>3, WorksOn DEF Working
    <3> QED
      BY <2>1, <3>1, <3>2, <3>3
  <2> QED
    BY <2>1, <2>2, <2>3, <2>4, SameAnswer, StepKeeps
<1>9. CASE CallbackDies(c)
  BY <1>9, RestartEstablishes DEF CallbackDies, Dies
<1> QED
  BY <1>1, <1>2, <1>3, <1>4, <1>5, <1>6, <1>7, <1>8, <1>9

------------------------------------------------------------------------------
LEMMA NextKeepsNet == NetInv /\ [Next]_vars => NetInv'
<1> SUFFICES ASSUME NetInv, [Next]_vars PROVE NetInv'
  OBVIOUS
<1>1. CASE UNCHANGED vars
  BY <1>1, ElsewhereKeeps DEF vars, unlockVars, memory, remoteVars, screen
<1>2. CASE Stop \/ StopWhileSaving
  BY <1>2, RestartEstablishes DEF Stop, StopWhileSaving
<1> QED
  BY <1>1, <1>2, LocalKeepsNet, DialogKeepsNet, NetKeepsNet, CallbackKeepsNet DEF Next

(* The online page lets the user go on only with an answer to the request  *)
(* that stands (inet.c with the cleaning up of remote.c), however many     *)
(* callbacks of earlier attempts run on and in whatever order, until one   *)
(* of them meets with what is not its own.                                 *)
THEOREM RemoteAnswerIsOwn == Spec => []OwnAnswer
BY InitHasNetInv, NextKeepsNet, NetInvSuffices, PTL DEF Spec

(* No attempt leaves a connection to the next (inet.c over curl.c and      *)
(* wininet.c), whatever callbacks run on; and until one of them meets with *)
(* what is not its own, no response either, which is freed exactly once.   *)
THEOREM RemoteLeavesNothing == Spec => []NothingLeftOver
BY InitHasNetInv, NextKeepsNet, NetInvSuffices, PTL DEF Spec

------------------------------------------------------------------------------
(* The types of the rest.  Where the dialog is, which is open while a key  *)
(* is read, ...                                                            *)
DialogTypeOK ==
  /\ build \in Builds /\ machine \in BOOLEAN /\ starved \in BOOLEAN
  /\ phase \in {"idle", "unlock", "run", "failed"}
  /\ call \in Scripts \union {NoScript}
  /\ (phase = "idle") = (call = NoScript)
  /\ enc \in {"none", "initialize", "read", "verify", "complete"}
  /\ (enc = "none") = (phase # "unlock")
  /\ size \in {"full", "plain"}
  /\ page \in {"none", "unset", "dsn", "passcode", "pkey", "method", "rcode", "qr", "inet"}
  /\ enc = "read" => page # "none"

(* ... and what the client works on.                                       *)
ExchangeTypeOK ==
  /\ request \in Requests /\ answers \in Requests /\ sent \in Requests
  /\ ready \in BOOLEAN /\ mute \in BOOLEAN /\ connected \in BOOLEAN /\ data \in BOOLEAN
  /\ notify \in {"none", "start", "connect", "request"}
  /\ progress \in {"empty", "working", "settled"}
  /\ done \in BOOLEAN /\ stray \in BOOLEAN /\ buffers \in Nat

LEMMA BuildsAre == ASSUME build \in Builds PROVE build \in {"dos", "linux", "windows"}
BY PlatformAssumption DEF PlatformAssumption

LEMMA StampedAre ==
  ASSUME NEW r \in Requests, NEW new \in Stamped(r) PROVE new \in Requests
BY DEF Stamped, Requests

LEMMA NoRequestIs == NoRequest \in Requests
BY DEF NoRequest, Requests

------------------------------------------------------------------------------
(* A call moves on, ends, or stays where it is while the user types.       *)
LEMMA DialogStays ==
  ASSUME DialogTypeOK, UNCHANGED <<platform, call, phase>>,
         starved' \in BOOLEAN, size' \in {"full", "plain"},
         \/ UNCHANGED <<enc, page>>
         \/ phase = "unlock" /\ enc' = "complete" /\ UNCHANGED page
         \/ phase = "unlock" /\ enc' = "verify" /\ UNCHANGED page
         \/ /\ phase = "unlock" /\ enc' = "read"
            /\ page' \in {"unset", "dsn", "passcode", "pkey", "method", "rcode", "qr", "inet"}
  PROVE  DialogTypeOK'
BY DEF DialogTypeOK

LEMMA DialogEnds ==
  ASSUME DialogTypeOK, UNCHANGED platform, enc' = "none", page' = "none", starved' \in BOOLEAN,
         size' \in {"full", "plain"},
         \/ phase' = "idle" /\ call' = NoScript
         \/ phase' \in {"run", "failed"} /\ call' = call /\ phase # "idle"
  PROVE  DialogTypeOK'
BY DEF DialogTypeOK

LEMMA SizesAre == ASSUME NEW s PROVE PlainSize(s) \in {"full", "plain"}
BY DEF PlainSize

LEMMA AttemptsStay ==
  ASSUME DialogTypeOK, Reading, NEW k, NEW save, Attempt(k, save)
  PROVE  DialogTypeOK'
<1>1. /\ UNCHANGED <<platform, call, phase, page, starved>> /\ phase = "unlock"
      /\ enc' \in {"complete", enc} /\ size' \in {size, PlainSize(call)}
  BY DEF Attempt, RightKey, WrongKey, Unprepared, Reading
<1>2. starved' \in BOOLEAN /\ size' \in {"full", "plain"}
  BY <1>1, SizesAre DEF DialogTypeOK
<1> QED
  BY <1>1, <1>2, DialogStays

LEMMA NoKeyStays ==
  ASSUME DialogTypeOK, NoStoredKey, phase' = phase,
         \/ enc' = "verify" /\ UNCHANGED page
         \/ enc' = "read" /\ page' \in {"unset", "dsn", "passcode", "pkey"}
  PROVE  DialogTypeOK'
<1>1. UNCHANGED <<platform, call, size>> /\ starved' \in {starved, TRUE} /\ phase = "unlock"
  BY DEF NoStoredKey
<1>2. starved' \in BOOLEAN /\ size' \in {"full", "plain"}
  BY <1>1 DEF DialogTypeOK
<1> QED
  BY <1>1, <1>2, DialogStays

LEMMA LocalKeepsDialog == ASSUME IInv, DialogTypeOK, LocalNext PROVE DialogTypeOK'
<1>1. ASSUME NEW s \in archive, Prepare(s) PROVE DialogTypeOK'
  <2>1. s \in Scripts /\ s # NoScript
    BY ArchiveIsOfScripts, ScriptsAre DEF IInv, MemoryTypeOK
  <2>2. /\ UNCHANGED <<build, machine, page>> /\ call' = s /\ phase' = "unlock"
        /\ starved' = FALSE /\ enc' \in {"complete", "initialize"}
        /\ size' \in {"full", PlainSize(s)}
    BY <1>1 DEF Prepare
  <2> QED
    BY <2>1, <2>2, SizesAre DEF DialogTypeOK
<1>2. CASE Enter
  BY <1>2, DialogEnds DEF Enter, Exited, DialogTypeOK
<1>3. CASE Return
  BY <1>3 DEF Return, DialogTypeOK
<1>4. CASE UseStoredKey
  BY <1>4, DialogStays, SizesAre DEF UseStoredKey, RightKey, DialogTypeOK
<1>5. CASE CallerInitialize \/ PromptInitialize \/ SplitInitialize \/ DiskIdInitialize
  BY <1>5, NoKeyStays DEF CallerInitialize, PromptInitialize, SplitInitialize, DiskIdInitialize
<1>6. CASE Verify
  <2>1. PICK k \in CallerKeys(call) :
        \/ /\ RightKey(call, k, FALSE) /\ key' = k /\ enc' = "complete"
           /\ UNCHANGED <<call, phase, page, local>>
        \/ ~Verifies(call, k) /\ Refuse /\ UNCHANGED <<content, store>>
        \/ Unprepared(call) /\ Fail
    BY <1>6 DEF Verify
  <2>2. phase = "unlock" /\ UNCHANGED <<platform, starved>> /\ starved \in BOOLEAN
    BY <1>6 DEF Verify, DialogTypeOK
  <2>3. CASE RightKey(call, k, FALSE) /\ enc' = "complete" /\ UNCHANGED <<call, phase, page>>
    BY <2>2, <2>3, DialogStays, SizesAre DEF RightKey
  <2>4. CASE Refuse
    BY <2>2, <2>4, DialogEnds DEF Refuse, Exited
  <2>5. CASE Fail
    BY <2>2, <2>5, DialogEnds DEF Fail, Exited, DialogTypeOK
  <2> QED
    BY <2>1, <2>3, <2>4, <2>5
<1>7. CASE Cancel
  BY <1>7, DialogEnds DEF Cancel, Refuse, Exited, DialogTypeOK
<1>8. ASSUME NEW part \in Parts, EnterDsn(part) PROVE DialogTypeOK'
  BY <1>8, DialogStays DEF EnterDsn, Reading, DialogTypeOK
<1>9. CASE BackToDsn
  BY <1>9, DialogStays DEF BackToDsn, Reading, DialogTypeOK
<1>10. ASSUME NEW typed \in Keys, NEW checked \in BOOLEAN, EnterPasscode(typed, checked)
       PROVE  DialogTypeOK'
  BY <1>10, AttemptsStay DEF EnterPasscode
<1> QED
  BY <1>1, <1>2, <1>3, <1>4, <1>5, <1>6, <1>7, <1>8, <1>9, <1>10 DEF LocalNext

LEMMA DialogKeepsDialog == ASSUME DialogTypeOK, DialogNext PROVE DialogTypeOK'
<1>0. starved \in BOOLEAN /\ size \in {"full", "plain"}
  BY DEF DialogTypeOK
<1>1. CASE RemoteInitialize
  BY <1>1, NoKeyStays DEF RemoteInitialize
<1>2. CASE EnterAccessCode
  <2>1. page' \in {"rcode", "method"}
    BY <1>2 DEF EnterAccessCode
  <2> QED
    BY <1>0, <1>2, <2>1, DialogStays DEF EnterAccessCode, Stays, Reading
<1>3. CASE Back
  <2>1. page' \in {"pkey", "method"}
    BY <1>3 DEF Back
  <2> QED
    BY <1>0, <1>3, <2>1, DialogStays DEF Back, Stays, Reading
<1>4. ASSUME NEW method \in {"rcode", "qr", "inet"}, SelectMethod(method) PROVE DialogTypeOK'
  BY <1>0, <1>4, DialogStays DEF SelectMethod, Stays, Reading
<1>5. ASSUME NEW r, NEW k \in Codes, NEW checked \in BOOLEAN, EnterConfirmation(r, k, checked)
      PROVE  DialogTypeOK'
  BY <1>5, AttemptsStay DEF EnterConfirmation
<1>6. CASE EnterBrokenConfirmation
  BY <1>0, <1>6, DialogStays DEF EnterBrokenConfirmation, unlockVars, memory
<1>7. ASSUME NEW checked \in BOOLEAN, EnterAnswer(checked) PROVE DialogTypeOK'
  BY <1>7, AttemptsStay DEF EnterAnswer
<1> QED
  BY <1>1, <1>2, <1>3, <1>4, <1>5, <1>6, <1>7 DEF DialogNext

LEMMA RestartKeepsDialog == ASSUME DialogTypeOK, Restarted PROVE DialogTypeOK'
BY DialogEnds DEF Restarted

LEMMA NextKeepsDialog == ASSUME IInv, DialogTypeOK, [Next]_vars PROVE DialogTypeOK'
<1>1. CASE UNCHANGED unlockVars
  BY <1>1, DialogStays DEF unlockVars, memory, DialogTypeOK
<1>2. NetNext => UNCHANGED unlockVars \/ Restarted
  BY DEF NetNext, StartNet, ConnectCurl, ConnectWininet, CurlFails, CurlAnswersNothing, CurlDies,
         SendWininet, SendUnconnected, CurlAnswers, Dies, RemoteRestarted
<1>3. CallbackNext => UNCHANGED unlockVars \/ Restarted
  BY CallbacksLeave DEF Dies, RemoteRestarted
<1>4. Stop \/ StopWhileSaving => Restarted
  BY DEF Stop, StopWhileSaving, RemoteRestarted
<1>5. UNCHANGED vars => UNCHANGED unlockVars
  BY DEF vars
<1>6. CASE Restarted
  BY <1>6, RestartKeepsDialog
<1>7. CASE LocalNext \/ DialogNext
  BY <1>7, LocalKeepsDialog, DialogKeepsDialog
<1> QED
  BY <1>1, <1>2, <1>3, <1>4, <1>5, <1>6, <1>7 DEF Next

------------------------------------------------------------------------------
LEMMA RestartTypesExchange == RemoteRestarted => ExchangeTypeOK'
<1> SUFFICES ASSUME RemoteRestarted PROVE ExchangeTypeOK'
  OBVIOUS
<1>1. buffers' \in Nat
  BY DEF RemoteRestarted
<1>2. /\ request' \in Requests /\ answers' \in Requests /\ sent' \in Requests
  BY NoRequestIs DEF RemoteRestarted
<1> QED
  BY <1>1, <1>2, Zenon DEF RemoteRestarted, ExchangeTypeOK

LEMMA AnsweredIs ==
  ASSUME ExchangeTypeOK, NEW r, NEW k, Answered(r, k), r \in {request, sent, NoRequest}
  PROVE  answers' \in Requests
BY NoRequestIs DEF Answered, ExchangeTypeOK

LEMMA ClosedIs ==
  ASSUME ExchangeTypeOK, Closed \/ UNCHANGED <<connected, sent>>
  PROVE  connected' \in BOOLEAN /\ sent' \in Requests
BY NoRequestIs DEF Closed, ExchangeTypeOK

LEMMA FreedIs ==
  ASSUME NetInv, ExchangeTypeOK, Freed \/ UNCHANGED received
  PROVE  data' \in BOOLEAN /\ buffers' \in Nat
<1>1. data /\ ~stray => buffers = 1
  BY DEF NetInv, OneResponse
<1>2. buffers' \in {buffers, IF data /\ ~stray THEN buffers - 1 ELSE buffers} /\ data' \in {data, FALSE}
  BY DEF Freed, received
<1>3. buffers \in Nat /\ data \in BOOLEAN
  BY DEF ExchangeTypeOK
<1>4. buffers' \in Nat
  <2>1. CASE data /\ ~stray
    BY <1>1, <1>2, <1>3, <2>1
  <2>2. CASE ~(data /\ ~stray)
    BY <1>2, <1>3, <2>2
  <2> QED
    BY <2>1, <2>2
<1> QED
  BY <1>2, <1>3, <1>4

LEMMA CompletedIs ==
  ASSUME ExchangeTypeOK, NEW a, NEW r, Completed(a, r), r \in {request, sent, NoRequest}
  PROVE  /\ answers' \in Requests /\ progress' = "settled" /\ ready' \in BOOLEAN
         /\ connected' \in BOOLEAN /\ sent' \in Requests
<1>1. answers' \in Requests
  BY AnsweredIs DEF Completed, ExchangeTypeOK
<1>2. ready' \in BOOLEAN
  BY DEF Completed, ExchangeTypeOK
<1> QED
  BY <1>1, <1>2, ClosedIs DEF Completed, Says

LEMMA DialogKeepsExchange ==
  ASSUME IInv, NetInv, ExchangeTypeOK, DialogNext
  PROVE  ExchangeTypeOK'
<1>1. CASE UNCHANGED remoteVars
  BY <1>1 DEF remoteVars, exchange, screen, client, received, ExchangeTypeOK
<1>2. CASE EnterAccessCode
  <2>1. call \in Scripts
    BY <1>2, ArchiveIsOfScripts DEF EnterAccessCode, Reading, IInv, MemoryTypeOK
  <2> DEFINE r == [request EXCEPT !.id = call.crc]
  <2>2. r \in Requests
    BY <2>1, ScriptsAre DEF ExchangeTypeOK, Requests
  <2> HIDE DEF r
  <2>3. request' \in Stamped(r) \/ request' = r
    BY <1>2 DEF EnterAccessCode, r
  <2>4. request' \in Requests
    BY <2>2, <2>3, StampedAre
  <2>5. /\ UNCHANGED <<answers, screen, done>> /\ stray' \in {stray, TRUE}
        /\ Closed \/ UNCHANGED <<connected, sent>>
        /\ Freed \/ UNCHANGED received
    BY <1>2 DEF EnterAccessCode, Cleanup, NoCleanup
  <2>6. connected' \in BOOLEAN /\ sent' \in Requests /\ data' \in BOOLEAN /\ buffers' \in Nat
    BY <2>5, ClosedIs, FreedIs
  <2> QED
    BY <2>4, <2>5, <2>6 DEF ExchangeTypeOK, screen
<1>3. CASE Back
  <2>1. /\ UNCHANGED <<exchange, ready, progress, mute, done>> /\ notify' = "none"
        /\ stray' \in {stray, TRUE}
        /\ Closed \/ UNCHANGED <<connected, sent>>
        /\ Freed \/ UNCHANGED received
    BY <1>3 DEF Back, Cleanup, NoCleanup
  <2>2. connected' \in BOOLEAN /\ sent' \in Requests /\ data' \in BOOLEAN /\ buffers' \in Nat
    BY <2>1, ClosedIs, FreedIs
  <2> QED
    BY <2>1, <2>2 DEF ExchangeTypeOK, exchange
<1>4. ASSUME NEW method \in {"rcode", "qr", "inet"}, SelectMethod(method)
      PROVE  ExchangeTypeOK'
  <2>1. request' \in Requests
    BY <1>4, StampedAre DEF SelectMethod, ExchangeTypeOK
  <2>2. UNCHANGED <<answers, client>>
    BY <1>4 DEF SelectMethod
  <2>3. /\ ready' \in BOOLEAN /\ mute' \in BOOLEAN /\ notify' \in {notify, "start"}
        /\ progress' \in {progress, "empty"}
    BY <1>4 DEF SelectMethod, screen, ExchangeTypeOK
  <2> QED
    BY <2>1, <2>2, <2>3 DEF ExchangeTypeOK, client, received
<1>5. ASSUME NEW r \in {request, NoRequest}, NEW k \in Codes, NEW checked \in BOOLEAN,
             EnterConfirmation(r, k, checked)
      PROVE  ExchangeTypeOK'
  <2>1. answers' \in Requests /\ UNCHANGED <<request, screen, client>>
    BY <1>5, AnsweredIs DEF EnterConfirmation
  <2> QED
    BY <2>1 DEF ExchangeTypeOK, screen, client, received
<1>6. CASE EnterBrokenConfirmation
  <2>1. answers' = NoRequest /\ UNCHANGED <<request, screen, client>>
    BY <1>6 DEF EnterBrokenConfirmation
  <2> QED
    BY <2>1, NoRequestIs DEF ExchangeTypeOK, screen, client, received
<1>7. RemoteInitialize \/ (\E checked \in BOOLEAN : EnterAnswer(checked)) => UNCHANGED remoteVars
  BY DEF RemoteInitialize, EnterAnswer
<1> QED
  BY <1>1, <1>2, <1>3, <1>4, <1>5, <1>6, <1>7 DEF DialogNext

LEMMA NetKeepsExchange ==
  ASSUME NetInv, ExchangeTypeOK, NetNext
  PROVE  ExchangeTypeOK'
<1>1. CASE StartNet \/ SendUnconnected
  <2>1. /\ UNCHANGED <<exchange, ready, mute, client>> /\ progress' \in {progress, "working", "settled"}
        /\ notify' \in {"connect", "none"}
    BY <1>1 DEF StartNet, SendUnconnected, Requesting, Says
  <2> QED
    BY <2>1 DEF ExchangeTypeOK, exchange, client, received
<1>2. CASE ConnectCurl \/ ConnectWininet
  <2>1. /\ UNCHANGED <<exchange, ready, sent, done>>
        /\ mute' \in {TRUE, mute} /\ notify' \in {"none", "request"}
        /\ progress' \in {progress, "settled", "working"}
        /\ connected' \in {TRUE, FALSE, connected}
        /\ Freed \/ UNCHANGED received
    BY <1>2 DEF ConnectCurl, ConnectWininet, Failed, Says
  <2>2. stray' \in BOOLEAN
    BY <1>2 DEF ConnectCurl, ConnectWininet, ExchangeTypeOK
  <2>3. data' \in BOOLEAN /\ buffers' \in Nat
    BY <2>1, FreedIs
  <2> QED
    BY <2>1, <2>2, <2>3 DEF ExchangeTypeOK, exchange
<1>3. CASE CurlFails \/ CurlAnswersNothing
  <2>1. /\ UNCHANGED <<exchange, ready, mute, done, stray>> /\ notify' = "none"
        /\ progress' = "settled" /\ Freed
        /\ Closed \/ UNCHANGED <<connected, sent>>
    BY <1>3 DEF CurlFails, CurlAnswersNothing, Requesting, Failed, Says
  <2>2. connected' \in BOOLEAN /\ sent' \in Requests /\ data' \in BOOLEAN /\ buffers' \in Nat
    BY <2>1, ClosedIs, FreedIs
  <2> QED
    BY <2>1, <2>2 DEF ExchangeTypeOK, exchange
<1>4. ASSUME NEW a \in Answers, CurlAnswers(a) PROVE ExchangeTypeOK'
  <2>1. /\ answers' \in Requests /\ progress' = "settled" /\ ready' \in BOOLEAN
        /\ connected' \in BOOLEAN /\ sent' \in Requests
    BY <1>4, CompletedIs DEF CurlAnswers
  <2>2. UNCHANGED <<request, mute, stray>> /\ notify' = "none" /\ done' = TRUE
    BY <1>4 DEF CurlAnswers, Requesting
  <2>3. data' \in BOOLEAN /\ buffers' \in Nat
    BY <1>4, FreedIs DEF CurlAnswers
  <2> QED
    BY <2>1, <2>2, <2>3 DEF ExchangeTypeOK
<1>5. CASE SendWininet
  <2>1. /\ UNCHANGED <<exchange, ready, mute, done, stray>> /\ notify' = "none"
        /\ progress' \in {progress, "settled"}
        /\ Freed \/ UNCHANGED received
        /\ Closed \/ UNCHANGED <<connected, sent>> \/ (UNCHANGED connected /\ sent' = request)
    BY <1>5 DEF SendWininet, Requesting, Failed, Says
  <2>2. data' \in BOOLEAN /\ buffers' \in Nat
    BY <2>1, FreedIs
  <2>3. connected' \in BOOLEAN /\ sent' \in Requests
    BY <2>1, ClosedIs DEF ExchangeTypeOK
  <2> QED
    BY <2>1, <2>2, <2>3 DEF ExchangeTypeOK, exchange
<1>6. CASE CurlDies
  BY <1>6, RestartTypesExchange DEF CurlDies, Dies
<1> QED
  BY <1>1, <1>2, <1>3, <1>4, <1>5, <1>6 DEF NetNext

(* A callback's step that is not the completion, and not the beginning of  *)
(* a response.                                                             *)
CallbackMoves ==
  /\ UNCHANGED <<exchange, ready, notify, mute>> /\ stray' \in BOOLEAN
  /\ progress' \in {progress, "settled"} /\ done' \in {done, TRUE}
  /\ Freed \/ UNCHANGED received
  /\ Closed \/ UNCHANGED <<connected, sent>>

LEMMA MovesKeepsExchange ==
  ASSUME NetInv, ExchangeTypeOK, CallbackMoves
  PROVE  ExchangeTypeOK'
<1>1. connected' \in BOOLEAN /\ sent' \in Requests /\ data' \in BOOLEAN /\ buffers' \in Nat
  BY ClosedIs, FreedIs DEF CallbackMoves
<1> QED
  BY <1>1 DEF CallbackMoves, ExchangeTypeOK, exchange

LEMMA CallbackKeepsExchange ==
  ASSUME NetInv, ExchangeTypeOK, CallbackNext
  PROVE  ExchangeTypeOK'
<1> SUFFICES ASSUME NEW c \in Callbacks,
               \/ CallbackCancelled(c) \/ CallbackFails(c) \/ CallbackQueries(c)
               \/ \E a \in Answers : CallbackResponse(c, a)
               \/ CallbackCannotRead(c) \/ CallbackReceives(c) \/ CallbackCopies(c)
               \/ CallbackEnds(c) \/ CallbackParses(c) \/ CallbackDies(c)
               \/ CallbackCompletes(c) \/ CallbackCloses(c)
             PROVE ExchangeTypeOK'
  BY DEF CallbackNext
<1>0. stray \in BOOLEAN /\ \A met \in BOOLEAN : Strays(met) => stray' \in BOOLEAN
  BY DEF ExchangeTypeOK, Strays
<1>1. CASE CallbackFails(c) \/ CallbackCannotRead(c) \/ CallbackQueries(c)
  <2>1. stray' \in BOOLEAN
    BY <1>1 DEF CallbackFails, CallbackCannotRead, CallbackQueries, CallbackFailed, Strays
  <2>2. CallbackMoves
    BY <1>1, <2>1 DEF CallbackFails, CallbackCannotRead, CallbackQueries, CallbackFailed, Failed,
                      Says, CallbackLeaves, CallbackMoves, exchange
  <2> QED
    BY <2>2, MovesKeepsExchange
<1>2. CASE CallbackCancelled(c) \/ CallbackCopies(c) \/ CallbackEnds(c) \/ CallbackParses(c)
           \/ CallbackCloses(c)
  <2>1. stray' \in BOOLEAN
    BY <1>0, <1>2 DEF CallbackCancelled, CallbackCopies, CallbackEnds, CallbackParses,
                      CallbackCloses, Strays
  <2>2. CallbackMoves
    BY <1>2, <2>1 DEF CallbackCancelled, CallbackCopies, CallbackEnds, CallbackParses,
                      CallbackCloses, CallbackMoves, screen
  <2> QED
    BY <2>2, MovesKeepsExchange
<1>3. CASE CallbackReceives(c)
  <2>1. stray' \in BOOLEAN
    BY <1>3 DEF CallbackReceives, Strays
  <2>2. CallbackMoves
    BY <1>3, <2>1 DEF CallbackReceives, Says, CallbackLeaves, CallbackMoves, exchange
  <2> QED
    BY <2>2, MovesKeepsExchange
<1>4. ASSUME NEW a \in Answers, CallbackResponse(c, a) PROVE ExchangeTypeOK'
  <2>1. /\ UNCHANGED <<exchange, ready, notify, mute>> /\ stray' \in BOOLEAN
        /\ progress' \in {"settled", "working"} /\ data' \in {TRUE, FALSE}
        /\ done' \in {done, FALSE} /\ buffers' \in {buffers, buffers + 1}
        /\ Closed \/ UNCHANGED <<connected, sent>>
    BY <1>4 DEF CallbackResponse, CallbackLeaves, Says, Strays, exchange
  <2>2. connected' \in BOOLEAN /\ sent' \in Requests
    BY <2>1, ClosedIs
  <2>3. buffers' \in Nat
    BY <2>1 DEF ExchangeTypeOK
  <2> QED
    BY <2>1, <2>2, <2>3 DEF ExchangeTypeOK, exchange
<1>5. CASE CallbackCompletes(c)
  <2>1. PICK parsed \in Parsed(c) : Completed(parsed[1], parsed[2])
    BY <1>5 DEF CallbackCompletes
  <2>2. parsed[2] \in {request, sent, NoRequest}
    BY DEF Parsed
  <2>3. /\ answers' \in Requests /\ progress' = "settled" /\ ready' \in BOOLEAN
        /\ connected' \in BOOLEAN /\ sent' \in Requests
    BY <2>1, <2>2, CompletedIs
  <2>4. UNCHANGED <<request, notify, mute, done>> /\ stray' \in BOOLEAN
    BY <1>5 DEF CallbackCompletes, CallbackLeaves, Strays
  <2>5. data' \in BOOLEAN /\ buffers' \in Nat
    BY <1>5, FreedIs DEF CallbackCompletes
  <2> QED
    BY <2>3, <2>4, <2>5 DEF ExchangeTypeOK
<1>6. CASE CallbackDies(c)
  BY <1>6, RestartTypesExchange DEF CallbackDies, Dies
<1> QED
  BY <1>1, <1>2, <1>3, <1>4, <1>5, <1>6

LEMMA NextKeepsExchange ==
  ASSUME IInv, NetInv, ExchangeTypeOK, [Next]_vars
  PROVE  ExchangeTypeOK'
<1>1. CASE UNCHANGED remoteVars
  BY <1>1 DEF remoteVars, exchange, screen, client, received, ExchangeTypeOK
<1>2. CASE LocalNext /\ Forgets
  <2>1. notify' \in {notify, "none"} /\ UNCHANGED <<exchange, ready, progress, mute, client>>
    BY <1>2 DEF Forgets
  <2> QED
    BY <2>1 DEF ExchangeTypeOK, exchange, client, received
<1>3. CASE Stop \/ StopWhileSaving
  BY <1>3, RestartTypesExchange DEF Stop, StopWhileSaving
<1> QED
  BY <1>1, <1>2, <1>3, DialogKeepsExchange, NetKeepsExchange, CallbackKeepsExchange DEF Next, vars

(* Every variable keeps its type through every interleaving: a callback    *)
(* reads no more pieces than came (wininet.c), and a dialog has a page as  *)
(* long as a key is read (encui.c).                                        *)
THEOREM RemoteIsTyped == Spec => []RemoteTypeOK
<1> DEFINE Inv == IInv /\ SourcesTypeOK /\ NetInv /\ DialogTypeOK /\ ExchangeTypeOK
<1>1. RemoteInit => Inv
  <2>1. RemoteInit => DialogTypeOK
    BY DEF RemoteInit, Init, DialogTypeOK
  <2>2. RemoteInit => ExchangeTypeOK
    <3> SUFFICES ASSUME RemoteInit PROVE ExchangeTypeOK
      OBVIOUS
    <3>1. buffers \in Nat
      BY DEF RemoteInit
    <3>2. /\ request \in Requests /\ answers \in Requests /\ sent \in Requests
      BY NoRequestIs DEF RemoteInit
    <3> QED
      BY <3>1, <3>2, Zenon DEF RemoteInit, ExchangeTypeOK
  <2> QED
    BY <2>1, <2>2, InitEstablishes, InitHasNetInv
<1>2. Inv /\ [Next]_vars => Inv'
  BY NextKeeps, NextKeepsNet, NextKeepsDialog, NextKeepsExchange
<1>3. Inv => RemoteTypeOK
  <2> SUFFICES ASSUME Inv PROVE RemoteTypeOK
    OBVIOUS
  <2>1. TypeOK
    BY DEF IInv, MemoryTypeOK, SourcesTypeOK, DialogTypeOK, TypeOK
  <2> QED
    BY <2>1 DEF SourcesTypeOK, Heard, ExchangeTypeOK, NetInv, CallbacksTypeOK, RemoteTypeOK
<1> QED
  BY <1>1, <1>2, <1>3, PTL DEF Spec

=============================================================================
