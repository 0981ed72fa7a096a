------------------------------- MODULE Unlock -------------------------------
(***************************************************************************)
(* Calling an encrypted script: sld/call.c, the state machine of enc/enc.c *)
(* and the dialog of enc/encui.c, with the local sources of a key under    *)
(* enc/provider/, the ciphers, and the key store of pal/*/p-state.c, which *)
(* survives the program.                                                   *)
(*                                                                         *)
(* A script is a record: the parameters of its call, the key it has been   *)
(* encrypted with and crc, which identifies its plain text.  A key is a    *)
(* pair of parts, as a split key, the two parts of a product key and the   *)
(* halves of a TDES key are; decoding a well-formed text gives the pair    *)
(* that the text was made from.  Deciphering with another key gives noise, *)
(* whose checksum does not match; a cipher text is long enough, and its    *)
(* padding is right.                                                       *)
(*                                                                         *)
(* The wizard that shows the pages is a library: it calls a page's Next    *)
(* for a well-formed input only, shows the page again when the answer is   *)
(* not zero, goes back a page, or is cancelled at any time.                *)
(***************************************************************************)
EXTENDS Naturals, Sequences, FiniteSets

CONSTANTS
  Scripts,        \* all scripts
  Archives,       \* which of them are in a presentation
  Parts, NoPart,  \* parts of keys
  NoKey,          \* no key, or a noise that is the key of nothing
  NoScript,
  Builds,         \* "dos", "linux", "windows"
  DriveLists      \* what may be in the drives

Keys == Parts \X Parts

Methods == {"xor", "des", "tdes"}
ScriptFields == {"file", "method", "parameter", "online", "key", "data", "crc"}
ASSUME ScriptsAssumption ==
  /\ \A s \in Scripts : /\ DOMAIN s = ScriptFields
                        /\ s.method \in Methods /\ s.parameter \in 0 .. 9
                        /\ s.online \in BOOLEAN /\ s.key \in Keys /\ s.data \in Keys
  /\ NoScript \notin Scripts /\ NoKey \notin Keys /\ NoPart \notin Parts
  /\ Archives \subseteq SUBSET Scripts
ASSUME PlatformAssumption ==
  /\ Builds \subseteq {"dos", "linux", "windows"}
  /\ \A d \in DriveLists : d \in Seq([faults : 0 .. 3, label : BOOLEAN,
                                      serial : Parts \union {NoPart}])

VARIABLES
  build, machine, \* the platform, and whether it tells a machine's id
  archive,        \* the scripts of the presentation
  content,        \* the text of each script in memory
  store,          \* the key store, by the id of the plain text
  call,           \* the script being called or run
  phase,          \* "idle", "unlock", "run" or "failed", and of "unlock" in
  enc,            \* enc->state
  key,            \* enc->key
  local,          \* enc->data.split.local_part
  size,           \* what the size of the called context says: "full", "plain"
  page,           \* the wizard's page, "none" without a dialog
  starved         \* history: a kept key could not be tried for want of memory

platform == <<build, machine, archive>>
memory == <<content, call, phase, enc, key, local, size, page, starved>>
unlockVars == <<platform, memory, store>>

------------------------------------------------------------------------------
(* _handle_prepare(): the source of the key and the cipher.  A parameter   *)
(* that means nothing for the method leaves the caller as the source, and  *)
(* its data unset.                                                         *)
Provider(s) ==
  CASE s.parameter = 1 -> "prompt"
    [] s.method = "xor" /\ s.parameter = 8 -> "split"
    [] s.method = "xor" /\ s.parameter = 9 -> "diskid"
    [] s.method # "xor" /\ s.parameter = 8 -> "prompt"
    [] s.method = "tdes" /\ s.parameter = 9 -> "remote"
    [] OTHER -> "caller"
HasData(s) == s.parameter = 0

Padded(s) == s.method # "xor"
KeySize(s) == CASE s.method = "xor" -> 6 [] s.method = "des" -> 8 [] OTHER -> 16

------------------------------------------------------------------------------
(* The text of a script in memory: sealed or plain, and whether its last   *)
(* bytes tell the size of the plain text.                                  *)
Sealed == [plain |-> FALSE, sized |-> FALSE]

(* enc_verify(): the text is not deciphered yet, but as if it were.        *)
(* Mutant: the checksum is not compared.                                   *)
VerifiesAnything(s, k) == ~content[s].plain
Verifies(s, k) == ~content[s].plain /\ k = s.key

(* enc_decrypt() and what follows: in place, and a padded text leaves room *)
(* for its size.                                                           *)
(* Mutant: the size is not stored.                                         *)
DecryptedUnsized(s) == [content EXCEPT ![s] = [plain |-> TRUE, sized |-> FALSE]]
Decrypted(s) == [content EXCEPT ![s] = [plain |-> TRUE, sized |-> Padded(s)]]

(* Mutant: the padding is taken for text.                                  *)
WholeSize(s) == "full"
PlainSize(s) == IF Padded(s) THEN "plain" ELSE "full"

(* enc_access_content(): whether the text is found to be plain already.    *)
IsDecrypted(s) == content[s].plain /\ (Padded(s) => content[s].sized)

------------------------------------------------------------------------------
(* The key store: an entry is how many bytes there are, and of which key.  *)
Entry == [size : {0, 3, 6, 8, 16}, key : Keys \union {NoKey}]
NoEntry == [size |-> 0, key |-> NoKey]
Crcs == {s.crc : s \in Scripts}

(* enc_has_key_store(), which is pal_get_machine_id(), never under DOS.    *)
HasKeyStore == machine

(* pal_load_state(): a file that is longer than the key is read as far as  *)
(* the key goes, a value that is longer is not read at all.                *)
LoadedSize(s) ==
  LET have == store[s.crc].size
  IN  CASE build = "linux" -> IF have > KeySize(s) THEN KeySize(s) ELSE have
        [] build = "windows" -> IF have > KeySize(s) THEN 0 ELSE have
        [] OTHER -> 0

(* enc_load_key(): what was stored, undone with the machine's id.          *)
CanLoad(s) == HasKeyStore /\ LoadedSize(s) = KeySize(s)
LoadedKey(s) == IF store[s.crc].size = KeySize(s) THEN store[s.crc].key ELSE NoKey

(* pal_save_state(): a file is emptied first and then written, perhaps not *)
(* to the end; a value of the registry is set or not.                      *)
SavedFile(s, k) ==
  {store, [store EXCEPT ![s.crc] = NoEntry], [store EXCEPT ![s.crc] = [size |-> 3, key |-> NoKey]],
   [store EXCEPT ![s.crc] = [size |-> KeySize(s), key |-> k]]}
SavedValue(s, k) ==
  {store, [store EXCEPT ![s.crc] = [size |-> KeySize(s), key |-> k]]}

(* enc_save_key(), whose answer nobody looks at.                           *)
Saved(s, k) ==
  CASE ~HasKeyStore -> {store}
    [] build = "linux" -> SavedFile(s, k)
    [] OTHER -> SavedValue(s, k)

------------------------------------------------------------------------------
Init ==
  /\ build \in Builds /\ machine \in (IF build = "dos" THEN {FALSE} ELSE BOOLEAN)
  /\ archive \in Archives
  /\ content = [s \in Scripts |-> Sealed]
  /\ store \in [Crcs -> {NoEntry, [size |-> 3, key |-> NoKey]}]
  /\ call = NoScript /\ phase = "idle" /\ enc = "none" /\ key = NoKey
  /\ local = NoPart /\ size = "full" /\ page = "none"
  /\ starved = FALSE

(* The dialog ends (encui_exit()), and with the call its context.          *)
Exited == page' = "none" /\ key' = NoKey /\ local' = NoPart

(* _handle_prepare(): the context is made anew, with the whole text's size.*)
Prepare(s) ==
  /\ phase = "idle" /\ s \in archive
  /\ call' = s
  /\ phase' = "unlock" /\ starved' = FALSE
  /\ IF IsDecrypted(s)
     THEN enc' = "complete" /\ size' = PlainSize(s)
     ELSE enc' = "initialize" /\ size' = "full"
  /\ UNCHANGED <<platform, content, store, key, local, page>>

(* _handle_enter() after enc_access_content() has found the text plain, or *)
(* ENCS_COMPLETE and _handle_decode(), which take the size over.           *)
Enter ==
  /\ phase = "unlock" /\ enc = "complete"
  /\ phase' = "run" /\ enc' = "none"
  /\ Exited
  /\ UNCHANGED <<platform, content, store, call, size, starved>>

(* A script that has run, or been refused, returns.                        *)
Return ==
  /\ phase = "run"
  /\ phase' = "idle" /\ call' = NoScript /\ size' = "full"
  /\ UNCHANGED <<platform, content, store, enc, key, local, page, starved>>

(* Mutant: the script stays the one that is called.                        *)
RefuseOpen ==
  /\ phase' = "idle" /\ enc' = "none" /\ size' = "full"
  /\ Exited /\ UNCHANGED call
(* _handle_decode() of an answer other than zero: -EACCES leaves 65535 in  *)
(* the accumulator, another error stops the calling script.                *)
Refuse ==
  /\ phase' = "idle" /\ enc' = "none" /\ call' = NoScript /\ size' = "full"
  /\ Exited
Fail ==
  /\ phase' = "failed" /\ enc' = "none"
  /\ Exited
  /\ UNCHANGED <<call, size>>

------------------------------------------------------------------------------
(* _decrypt_content() once the key is there: the stream may not be         *)
(* prepared for want of memory, the key may be wrong, or it is saved if    *)
(* that is the policy, and the text deciphered.                            *)
Unprepared(s) == Padded(s) /\ UNCHANGED <<content, store, size>>
WrongKey(s, k) == ~Verifies(s, k) /\ UNCHANGED <<content, store, size>>
RightKey(s, k, save) ==
  /\ Verifies(s, k)
  /\ store' \in (IF save THEN Saved(s, k) ELSE {store})
  /\ content' = Decrypted(s)
  /\ size' = PlainSize(s)

(* ENCS_INITIALIZE with a key from the store.                              *)
UseStoredKey ==
  /\ phase = "unlock" /\ enc = "initialize" /\ CanLoad(call)
  /\ key' = LoadedKey(call)
  /\ RightKey(call, LoadedKey(call), FALSE)
  /\ enc' = "complete"
  /\ UNCHANGED <<platform, call, phase, local, page, starved>>

(* ENCS_INITIALIZE without: the source of the key opens its dialog at its  *)
(* first page.                                                             *)
NoStoredKey ==
  /\ phase = "unlock" /\ enc = "initialize"
  /\ \/ ~CanLoad(call) /\ UNCHANGED <<key, starved>>
     \/ /\ CanLoad(call) /\ ~Verifies(call, LoadedKey(call))
        /\ key' = LoadedKey(call) /\ UNCHANGED starved
     \/ CanLoad(call) /\ Padded(call) /\ key' = LoadedKey(call) /\ starved' = TRUE
  /\ UNCHANGED <<platform, content, store, call, size>>

(* ENCM_INITIALIZE of caller.c                                             *)
CallerInitialize ==
  /\ NoStoredKey /\ Provider(call) = "caller"
  /\ enc' = "verify"
  /\ UNCHANGED <<phase, local, page>>

(* ENCM_INITIALIZE of prompt.c                                             *)
PromptInitialize ==
  /\ NoStoredKey /\ Provider(call) = "prompt"
  /\ enc' = "read" /\ page' = "passcode"
  /\ UNCHANGED <<phase, local>>

(* ENCM_INITIALIZE of split.c: the page is left without data and fields.   *)
SplitInitialize ==
  /\ NoStoredKey /\ Provider(call) = "split"
  /\ enc' = "read" /\ page' = "unset" /\ local' = call.data[1]
  /\ UNCHANGED phase

(* read_sector(): three attempts.                                          *)
ReadSector(drive) == drive.faults < 3
(* copy_info(): the boot sector and the label in the root directory.       *)
CopyInfo(drive) == ReadSector(drive) /\ drive.label
(* pal_get_medium_id() of DOS: the first drive with the label; a volume    *)
(* may have no serial number.                                              *)
FirstMediumId(drives) ==
  LET named == {i \in DOMAIN drives : CopyInfo(drives[i])}
  IN  IF named = {} THEN NoPart
      ELSE drives[CHOOSE i \in named : \A j \in named : i <= j].serial
(* The same of Linux and Windows: only the drive that the program is on.   *)
OwnMediumId(drives) ==
  IF drives = <<>> \/ ~drives[1].label THEN NoPart ELSE drives[1].serial
MediumId(drives) == IF build = "dos" THEN FirstMediumId(drives) ELSE OwnMediumId(drives)

(* ENCM_INITIALIZE of diskid.c: with a serial number its page is skipped.  *)
DiskIdInitialize ==
  /\ NoStoredKey /\ Provider(call) = "diskid"
  /\ enc' = "read"
  /\ \E drives \in DriveLists :
       /\ local' = MediumId(drives)
       /\ page' = IF MediumId(drives) = NoPart THEN "dsn" ELSE "passcode"
  /\ UNCHANGED phase

------------------------------------------------------------------------------
(* ENCS_VERIFY with the key that the call brings.  With no data the code   *)
(* reads from a null pointer, which gives any key where it can be read.    *)
CallerKeys(s) == IF HasData(s) THEN {s.data} ELSE Keys

Verify ==
  /\ phase = "unlock" /\ enc = "verify"
  /\ \E k \in CallerKeys(call) :
       \/ /\ RightKey(call, k, FALSE) /\ key' = k /\ enc' = "complete"
          /\ UNCHANGED <<call, phase, page, local>>
       \/ ~Verifies(call, k) /\ Refuse /\ UNCHANGED <<content, store>>
       \/ Unprepared(call) /\ Fail
  /\ UNCHANGED <<platform, starved>>

Reading == phase = "unlock" /\ enc = "read"

(* ENCS_READ: the user cancels.                                            *)
Cancel ==
  /\ Reading
  /\ Refuse
  /\ UNCHANGED <<platform, content, store, starved>>

(* SHIZM_NEXT of the page for a disk's serial number, and the way back.    *)
EnterDsn(part) ==
  /\ Reading /\ page = "dsn"
  /\ local' = part /\ page' = "passcode"
  /\ UNCHANGED <<platform, content, store, call, phase, enc, key, size, starved>>

BackToDsn ==
  /\ Reading /\ page = "passcode" /\ Provider(call) = "diskid"
  /\ page' = "dsn"
  /\ UNCHANGED <<platform, content, store, call, phase, enc, key, local, size, starved>>

(* ENCM_TRANSFORM of diskid.c: of what was typed, one part.                *)
JoinedKey(typed) == IF local = NoPart THEN NoKey ELSE <<local, typed[2]>>
(* ENCM_TRANSFORM of prompt.c: the key that the text was made from.        *)
Transformed(typed) == IF Provider(call) = "diskid" THEN JoinedKey(typed) ELSE typed

(* ENCM_GET_STORAGE_POLICY: there is a box to check with a key store only. *)
MaySave(checked) == checked /\ HasKeyStore

(* __enc_decrypt_content(), from a page's Next: with the right key the     *)
(* last page is left and the dialog ends, else the page stays.             *)
Attempt(k, save) ==
  /\ key' = k
  /\ \/ RightKey(call, k, save) /\ enc' = "complete"
     \/ WrongKey(call, k) /\ UNCHANGED enc
     \/ Unprepared(call) /\ UNCHANGED enc
  /\ UNCHANGED <<platform, call, phase, local, page, starved>>

EnterPasscode(typed, checked) ==
  /\ Reading /\ page = "passcode"
  /\ Attempt(Transformed(typed), MaySave(checked))

(* What is lost when the program stops, or dies in the middle of saving.   *)
Restarted ==
  /\ content' = [s \in Scripts |-> Sealed]
  /\ call' = NoScript /\ phase' = "idle" /\ enc' = "none" /\ key' = NoKey
  /\ local' = NoPart /\ size' = "full" /\ page' = "none"
  /\ starved' = FALSE
  /\ UNCHANGED platform

LocalNext ==
  \/ \E s \in archive : Prepare(s)
  \/ Enter \/ Return \/ UseStoredKey
  \/ CallerInitialize \/ PromptInitialize \/ SplitInitialize \/ DiskIdInitialize
  \/ Verify \/ Cancel
  \/ \E part \in Parts : EnterDsn(part)
  \/ BackToDsn
  \/ \E typed \in Keys, checked \in BOOLEAN : EnterPasscode(typed, checked)

------------------------------------------------------------------------------
TypeOK ==
  /\ build \in Builds /\ machine \in BOOLEAN /\ archive \in Archives
  /\ content \in [Scripts -> [plain : BOOLEAN, sized : BOOLEAN]]
  /\ store \in [Crcs -> Entry]
  /\ call \in Scripts \union {NoScript}
  /\ phase \in {"idle", "unlock", "run", "failed"}
  /\ enc \in {"none", "initialize", "read", "verify", "complete"}
  /\ (enc = "none") = (phase # "unlock") /\ (phase = "idle") = (call = NoScript)
  /\ key \in Keys \union {NoKey} /\ local \in Parts \union {NoPart}
  /\ size \in {"full", "plain"}
  /\ page \in {"none", "unset", "dsn", "passcode", "pkey", "method", "rcode", "qr", "inet"}
  /\ enc = "read" => page # "none"
  /\ starved \in BOOLEAN

(* What unlocking promises, whoever brings the key (see UnlockPromise).    *)
Promise == INSTANCE UnlockPromise WITH
  opened <- {s \in archive : content[s].plain},
  runs <- IF phase = "run" THEN call ELSE NoScript,
  offered <- key,
  kept <- {s \in archive : store[s.crc] = [size |-> KeySize(s), key |-> s.key]}

KeepsPromise == Promise!PromiseSpec

(* A script that runs is plain to its last byte and no further: its        *)
(* context has the size of the plain text, also when it was found plain.   *)
RunsWhole == phase = "run" => content[call].plain /\ (size = "plain") = Padded(call)

(* A key that is in the store is not asked for, and what is plain in       *)
(* memory even less, as long as there is memory to decipher it.            *)
KeptKeyIsNotAsked ==
  Reading => ~content[call].plain
             /\ (CanLoad(call) /\ LoadedKey(call) = call.key => starved)

==============================================================================
