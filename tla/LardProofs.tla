----------------------------- MODULE LardProofs -----------------------------
(***************************************************************************)
(* The order of an installation, what the application is launched for, and *)
(* what the window offers, for every machine, configuration and list of    *)
(* sources.                                                                *)
(***************************************************************************)
EXTENDS Lard, FiniteSetTheorems, WellFoundedInduction, TLAPS

------------------------------------------------------------------------------
(* InstallsInOrder is not inductive.  That a box about a failure is open   *)
(* only when no installer runs, and that an attempt has not begun before   *)
(* the window is there, is what it rests on: otherwise another installer   *)
(* could be started under the box, or be taken for the attempt's first.    *)
Offer == {sources[i] : i \in DOMAIN sources}

InstallTypeOK ==
  /\ next \in Nat
  /\ started \in BOOLEAN
  /\ phase \in {"load", "check", "pump", "exited"}

NothingInstalledYet ==
  phase \in {"load", "check"} => ~started /\ child = None /\ installed = <<>> /\ box = "none"

InstalledIsOffered == phase = "pump" => installed \in Seq(Offer)

OneAtATime == phase = "pump" /\ box # "none" => child = None

IInv ==
  /\ InstallTypeOK
  /\ NothingInstalledYet
  /\ InstalledIsOffered
  /\ OneAtATime
  /\ InstallsInOrder

LEMMA InitEstablishesOrder == Init => IInv
<1> SUFFICES ASSUME Init PROVE IInv
  OBVIOUS
<1>1. /\ phase = "load" /\ started = FALSE /\ next = 0 /\ child = None /\ box = "none"
      /\ installed = <<>>
  BY DEF Init
<1>2. InstallTypeOK /\ NothingInstalledYet
  BY <1>1 DEF InstallTypeOK, NothingInstalledYet
<1>3. InstalledIsOffered /\ OneAtATime /\ InstallsInOrder
  BY <1>1 DEF InstalledIsOffered, OneAtATime, InstallsInOrder
<1> QED
  BY <1>2, <1>3 DEF IInv

(* What instredist.c does after a message keeps the order, if the attempt  *)
(* goes on from where it is, or begins anew.                               *)
LEMMA HandledKeepsOrder ==
  ASSUME NEW begun \in BOOLEAN, NEW at \in Nat, NEW posted,
         InstallTypeOK, phase = "pump", phase' = phase, box = "none",
         UNCHANGED sources,
         Handled(begun, at, posted),
         installed' \in Seq(Offer),
         child # None => begun /\ at = next /\ next \in DOMAIN sources /\ child = sources[next],
         begun => /\ Len(installed') = at - 1
                  /\ \A i \in DOMAIN installed' : installed'[i] = sources[i]
  PROVE  IInv'
<1>1. /\ next' = at /\ box' = "none"
      /\ started' \in BOOLEAN
  BY DEF Handled
<1>2. InstallTypeOK' /\ NothingInstalledYet' /\ InstalledIsOffered' /\ OneAtATime'
  BY <1>1 DEF InstallTypeOK, NothingInstalledYet, InstalledIsOffered, OneAtATime, Offer
<1>3. InstallsInOrder'
  <2>1. CASE ~begun \/ at \notin DOMAIN sources
    BY <2>1, <1>1 DEF Handled, InstallsInOrder
  <2>2. CASE begun /\ at \in DOMAIN sources /\ child # None
    BY <2>2, <1>1 DEF Handled, InstallsInOrder
  <2>3. CASE begun /\ at \in DOMAIN sources /\ child = None
    BY <2>3, <1>1 DEF Handled, InstallsInOrder
  <2> QED
    BY <2>1, <2>2, <2>3
<1> QED
  BY <1>2, <1>3 DEF IInv

(* The installation has an attempt at most, and goes on from where it is.  *)
LEMMA OrderInPump ==
  ASSUME IInv, phase = "pump"
  PROVE  /\ child # None => started /\ next \in DOMAIN sources /\ child = sources[next]
         /\ started => /\ Len(installed) = next - 1
                       /\ \A i \in DOMAIN installed : installed[i] = sources[i]
         /\ ~started => child = None
         /\ installed \in Seq(Offer)
BY DEF IInv, InstallsInOrder, InstalledIsOffered

(* Any message, except for the click on "Install".                         *)
LEMMA MessageKeepsOrder ==
  ASSUME IInv, NEW posted, Idle, Handled(started, next, posted),
         UNCHANGED <<phase, sources, installed>>
  PROVE  IInv'
<1>1. InstallTypeOK /\ phase = "pump" /\ box = "none"
  BY DEF IInv, Idle, Dispatching
<1>2. started \in BOOLEAN /\ next \in Nat
  BY <1>1 DEF InstallTypeOK
<1>3. installed' \in Seq(Offer)
  BY <1>1, OrderInPump
<1> QED
  BY <1>1, <1>2, <1>3, OrderInPump, HandledKeepsOrder

(* A step of which the installation knows nothing.                         *)
LEMMA RestKeepsOrder ==
  ASSUME IInv, phase' = phase, UNCHANGED <<sources, started, next, child, box, installed>>
  PROVE  IInv'
BY DEF IInv, InstallTypeOK, NothingInstalledYet, InstalledIsOffered, OneAtATime,
       InstallsInOrder, Offer

(* The installation begins with nothing, when the window opens.            *)
LEMMA PumpBeginsInOrder ==
  ASSUME IInv, phase \in {"load", "check"}, phase' \in {"check", "pump"},
         UNCHANGED <<started, next, child, box, installed>>
  PROVE  IInv'
<1>1. /\ started = FALSE /\ child = None /\ installed = <<>> /\ box = "none"
      /\ next \in Nat
  BY DEF IInv, NothingInstalledYet, InstallTypeOK
<1>2. InstallTypeOK' /\ NothingInstalledYet'
  BY <1>1 DEF InstallTypeOK, NothingInstalledYet
<1>3. InstalledIsOffered' /\ OneAtATime' /\ InstallsInOrder'
  BY <1>1 DEF InstalledIsOffered, OneAtATime, InstallsInOrder
<1> QED
  BY <1>2, <1>3 DEF IInv

LEMMA InstallKeepsOrder == ASSUME IInv, ClickInstall PROVE IInv'
<1>1. /\ InstallTypeOK /\ phase = "pump" /\ box = "none"
      /\ UNCHANGED <<phase, sources>>
  BY DEF IInv, Idle, Dispatching, ClickInstall, model
<1>0. started \in BOOLEAN
  BY <1>1 DEF InstallTypeOK
<1>2. CASE started
  <2>1. Idle /\ Handled(started, next, quit) /\ installed' = installed
    BY <1>2 DEF ClickInstall, MayInstall
  <2> QED
    BY <1>1, <2>1, MessageKeepsOrder
<1>3. CASE ~started
  <2>1. Handled(TRUE, 1, quit) /\ installed' = <<>>
    BY <1>3 DEF ClickInstall, MayInstall
  <2>2. child = None
    BY <1>1, <1>3, OrderInPump
  <2>3. /\ installed' \in Seq(Offer) /\ Len(installed') = 1 - 1
        /\ \A i \in DOMAIN installed' : installed'[i] = sources[i]
    BY <2>1
  <2>4. UNCHANGED sources /\ phase' = phase /\ 1 \in Nat /\ TRUE \in BOOLEAN
    BY <1>1
  <2> QED
    BY <1>1, <2>1, <2>2, <2>3, <2>4, HandledKeepsOrder, Zenon
<1> QED
  BY <1>2, <1>3

LEMMA LaunchKeepsOrder ==
  ASSUME IInv, NEW posted, Dispatching, HandledOrNot(posted),
         UNCHANGED <<phase, sources, installed>>
  PROVE  IInv'
<1>1. CASE box = "none"
  BY <1>1, MessageKeepsOrder DEF HandledOrNot, Idle
<1>2. CASE box # "none"
  BY <1>2, RestKeepsOrder DEF HandledOrNot
<1> QED
  BY <1>1, <1>2

(* An installer ends: the next one's turn comes, or the attempt is stuck   *)
(* until its box is closed.                                                *)
LEMMA SuccessKeepsOrder == ASSUME IInv, InstallerSucceeds PROVE IInv'
<1>1. /\ phase = "pump" /\ phase' = "pump" /\ child # None
      /\ child' = None /\ next' = next + 1 /\ installed' = Append(installed, child)
      /\ UNCHANGED <<sources, started, box>>
  BY DEF InstallerSucceeds, model
<1>2. /\ started /\ next \in DOMAIN sources /\ child = sources[next]
      /\ Len(installed) = next - 1 /\ \A i \in DOMAIN installed : installed[i] = sources[i]
      /\ installed \in Seq(Offer) /\ next \in Nat /\ started \in BOOLEAN
  BY <1>1, OrderInPump DEF IInv, InstallTypeOK
<1>3. child \in Offer
  BY <1>2 DEF Offer
<1>4. /\ installed' \in Seq(Offer) /\ Len(installed') = next' - 1
      /\ \A i \in DOMAIN installed' : installed'[i] = sources[i]
  BY <1>1, <1>2, <1>3
<1>5. InstallTypeOK' /\ NothingInstalledYet' /\ OneAtATime'
  BY <1>1, <1>2 DEF InstallTypeOK, NothingInstalledYet, OneAtATime
<1>6. InstalledIsOffered' /\ InstallsInOrder'
  BY <1>1, <1>2, <1>4 DEF InstalledIsOffered, InstallsInOrder, Offer
<1> QED
  BY <1>5, <1>6 DEF IInv

LEMMA FailureKeepsOrder == ASSUME IInv, InstallerFails PROVE IInv'
<1>1. /\ phase' = "pump" /\ phase = "pump" /\ child' = None /\ child # None
      /\ UNCHANGED <<sources, started, next, installed>>
  BY DEF InstallerFails, model
<1> QED
  BY <1>1 DEF IInv, InstallTypeOK, NothingInstalledYet, InstalledIsOffered, OneAtATime,
              InstallsInOrder, Offer

LEMMA BoxKeepsOrder == ASSUME IInv, BoxClosed PROVE IInv'
<1>1. /\ phase = "pump" /\ phase' = "pump" /\ box # "none" /\ box' = "none" /\ started' = FALSE
      /\ UNCHANGED <<sources, next, child, installed>>
  BY DEF BoxClosed, model
<1>2. child = None
  BY <1>1 DEF IInv, OneAtATime
<1> QED
  BY <1>1, <1>2 DEF IInv, InstallTypeOK, NothingInstalledYet, InstalledIsOffered, OneAtATime,
                    InstallsInOrder, Offer

(* Nothing is said of an installation that the launcher no longer watches. *)
LEMMA ExitKeepsOrder ==
  ASSUME IInv, phase' = "exited", UNCHANGED <<started, next, child, box, installed>>
  PROVE  IInv'
BY DEF IInv, InstallTypeOK, NothingInstalledYet, InstalledIsOffered, OneAtATime,
       InstallsInOrder

LEMMA NextKeepsOrder == IInv /\ [Next]_vars => IInv'
<1> SUFFICES ASSUME IInv, [Next]_vars PROVE IInv'
  OBVIOUS
<1>1. CASE LoadFails \/ Exit
  BY <1>1, ExitKeepsOrder DEF LoadFails, Exit, install
<1>2. CASE Load
  BY <1>2, PumpBeginsInOrder DEF Load, install
<1>3. CASE DieOfSystem \/ DieOfDependencies
  <2>1. /\ phase \in {"load", "check"} /\ phase' \in {"check", "pump"}
        /\ UNCHANGED <<started, next, child, box, installed>>
    BY <1>3 DEF DieOfSystem, DieOfDependencies, CheckDependencies, Check, Die, install
  <2> QED
    BY <2>1, PumpBeginsInOrder
<1>4. CASE Run
  <2>1. /\ phase \in {"load", "check"} /\ phase' \in {"check", "pump"}
        /\ UNCHANGED <<started, next, child, box, installed>>
    BY <1>4 DEF Run, CheckDependencies, Check, install
  <2> QED
    BY <2>1, PumpBeginsInOrder
<1>5. CASE Select
  <2>1. /\ phase \in {"load", "check"} /\ phase' \in {"check", "pump"}
        /\ UNCHANGED <<started, next, child, box, installed>>
    BY <1>5 DEF Select, Check, install
  <2> QED
    BY <2>1, PumpBeginsInOrder
<1>6. CASE ClickInstall
  BY <1>6, InstallKeepsOrder
<1>7. CASE CloseWindow
  BY <1>7, LaunchKeepsOrder DEF CloseWindow, model
<1>8. CASE OtherMessage
  BY <1>8, MessageKeepsOrder DEF OtherMessage, model
<1>9. ASSUME NEW button \in {"rundos", "ie"}, ClickLaunch(button) PROVE IInv'
  <2>1. PICK ok \in BOOLEAN : HandledOrNot(Posted(ok))
    BY <1>9 DEF ClickLaunch
  <2>2. Dispatching /\ UNCHANGED <<phase, sources, installed>>
    BY <1>9 DEF ClickLaunch, model
  <2> QED
    BY <2>1, <2>2, LaunchKeepsOrder
<1>10. CASE InstallerSucceeds
  BY <1>10, SuccessKeepsOrder
<1>11. CASE InstallerFails
  BY <1>11, FailureKeepsOrder
<1>12. CASE BoxClosed
  BY <1>12, BoxKeepsOrder
<1>13. CASE UNCHANGED vars
  BY <1>13, RestKeepsOrder DEF vars, model, install
<1> QED
  BY <1>1, <1>2, <1>3, <1>4, <1>5, <1>6, <1>7, <1>8, <1>9, <1>10, <1>11, <1>12, <1>13 DEF Next

(* Installers run one at a time and in the order of the list, each after   *)
(* all before it have succeeded in the same attempt (instredist.c with the *)
(* message loop of winmain.c).                                             *)
THEOREM InstallationIsInOrder == Spec => []InstallsInOrder
<1>1. IInv => InstallsInOrder
  BY DEF IInv
<1> QED
  BY InitEstablishesOrder, NextKeepsOrder, <1>1, PTL DEF Spec

------------------------------------------------------------------------------
(* Arithmetic of words, over integers.                                     *)
LEMMA WordBounds ==
  ASSUME NEW a \in Int, NEW b \in Int, 0 <= a, a <= 255, 0 <= b, b <= 255
  PROVE  0 <= a * 256 + b /\ a * 256 + b <= 65535
OBVIOUS

LEMMA WordOrder ==
  ASSUME NEW p \in Int, NEW q \in Int, NEW h \in Int, NEW g \in Int,
         0 <= p, q <= 65535, h * 65536 + p <= g * 65536 + q
  PROVE  h <= g
OBVIOUS

LEMMA LastWord == MAXWORD = 65535
BY DEF MAXWORD

LEMMA WordsAreIntegers == \A w \in Words : w \in Int /\ 0 <= w /\ w <= 65535
<1>1. MAXWORD \in Int
  BY LastWord
<1>2. \A w \in Words : w \in Int /\ 0 <= w /\ w <= MAXWORD
  BY <1>1 DEF Words
<1> QED
  BY <1>2, LastWord

LEMMA WordInRange ==
  ASSUME NEW w \in Int, 0 <= w, w <= 65535
  PROVE  w \in Words
<1>1. w <= MAXWORD /\ MAXWORD \in Int
  BY LastWord
<1> QED
  BY <1>1 DEF Words

LEMMA BytesAre == \A a \in Bytes : a \in Int /\ 0 <= a /\ a <= 255
BY DEF Bytes, MAXBYTE

(* Comparing versions as numbers is comparing their parts.                 *)
LEMMA WordsCompare ==
  ASSUME NEW a \in Bytes, NEW b \in Bytes, NEW c \in Bytes, NEW d \in Bytes,
         MAKEWORD(a, b) <= MAKEWORD(c, d)
  PROVE  c - a > 0 \/ (c - a = 0 /\ d - b >= 0)
BY DEF MAKEWORD, Bytes, MAXBYTE

LEMMA SameWord ==
  ASSUME NEW a \in Bytes, NEW b \in Bytes, NEW c \in Bytes, NEW d \in Bytes,
         MAKEWORD(a, b) = MAKEWORD(c, d)
  PROVE  a = c /\ b = d
BY DEF MAKEWORD, Bytes, MAXBYTE

LEMMA WordIsWord ==
  ASSUME NEW a \in Bytes, NEW b \in Bytes
  PROVE  MAKEWORD(a, b) \in Words
<1>1. /\ a \in Int /\ 0 <= a /\ a <= 255
      /\ b \in Int /\ 0 <= b /\ b <= 255
  BY BytesAre
<1>2. 0 <= a * 256 + b /\ a * 256 + b <= 65535
  BY <1>1, WordBounds
<1>3. a * 256 + b \in Int
  BY <1>1
<1> QED
  BY <1>2, <1>3, WordInRange DEF MAKEWORD

LEMMA SwappedBack ==
  ASSUME NEW a \in Bytes, NEW b \in Bytes
  PROVE  Swapped(MAKEWORD(b, a)) = MAKEWORD(a, b)
<1>1. /\ a \in Int /\ b \in Int /\ 0 <= a /\ a < 256
  BY DEF Bytes, MAXBYTE
<1>2. (b * 256 + a) % 256 = a
  BY <1>1
<1>3. (b * 256 + a) \div 256 = b
  BY <1>1
<1> QED
  BY <1>2, <1>3 DEF Swapped, MAKEWORD

LEMMA WordParts ==
  ASSUME NEW w \in Words
  PROVE  /\ w \div 256 \in Bytes /\ w % 256 \in Bytes
         /\ MAKEWORD(w \div 256, w % 256) = w
<1>1. w \in Int /\ 0 <= w /\ w <= 65535
  BY WordsAreIntegers
<1>2. w % 256 \in 0 .. 255 /\ w \div 256 \in 0 .. 255
  BY <1>1
<1>3. (w \div 256) * 256 + (w % 256) = w
  BY <1>1
<1>4. MAKEWORD(w \div 256, w % 256) = w
  BY <1>3 DEF MAKEWORD
<1> QED
  BY <1>2, <1>4 DEF Bytes, MAXBYTE

(* A high word is the parts that are compared, and a version with a third  *)
(* part is no larger than another one if its high word is not.             *)
LEMMA HiWordParts ==
  ASSUME NEW v \in Version
  PROVE  /\ Part(v, 1) \in Bytes /\ Part(v, 2) \in Bytes
         /\ HiWord(v) = MAKEWORD(Part(v, 1), Part(v, 2))
         /\ HiWord(v) \in Words
<1>1. Part(v, 1) \in Bytes /\ Part(v, 2) \in Bytes
  BY DEF Version
<1>2. Smaller(MAXBYTE, Part(v, 1)) = Part(v, 1) /\ Smaller(MAXBYTE, Part(v, 2)) = Part(v, 2)
  BY <1>1 DEF Smaller, Bytes, MAXBYTE
<1>3. HiWord(v) = MAKEWORD(Part(v, 1), Part(v, 2))
  BY <1>2 DEF HiWord
<1> QED
  BY <1>1, <1>3, WordIsWord

LEMMA HiWordsCompare ==
  ASSUME NEW p \in Words, NEW q \in Words, NEW h \in Words, NEW g \in Words,
         h * (MAXWORD + 1) + p <= g * (MAXWORD + 1) + q
  PROVE  h <= g
<1>1. MAXWORD + 1 = 65536
  BY LastWord
<1>2. /\ p \in Int /\ q \in Int /\ h \in Int /\ g \in Int
      /\ 0 <= p /\ q <= 65535
  BY WordsAreIntegers
<1>3. h * 65536 + p <= g * 65536 + q
  BY <1>1
<1> QED
  BY <1>2, <1>3, WordOrder

LEMMA FileParts ==
  ASSUME NEW file \in FileInfo
  PROVE  /\ Part(file, 1) \in Bytes /\ Part(file, 2) \in Bytes
         /\ DllVersion(file) = MAKEWORD(Part(file, 1), Part(file, 2))
<1>0. file \in Seq(Words) /\ Len(file) \in {0, 4} /\ Part(file, 1) \in Bytes /\ Part(file, 2) \in Bytes
  BY DEF FileInfo, Version
<1>1. CASE file = <<>>
  <2>1. Part(file, 1) = 0 /\ Part(file, 2) = 0
    BY <1>1 DEF Part
  <2> QED
    BY <1>0, <1>1, <2>1 DEF DllVersion, HasInfo, MAKEWORD
<1>2. CASE file # <<>>
  <2>0. Len(file) = 4
    BY <1>0, <1>2
  <2>1. file[1] \in Bytes /\ file[2] \in Bytes
    BY <1>0, <2>0 DEF Part
  <2>2. Smaller(MAXBYTE, file[1]) = file[1] /\ Smaller(MAXBYTE, file[2]) = file[2]
    BY <2>1 DEF Smaller, Bytes, MAXBYTE
  <2> QED
    BY <1>0, <1>2, <2>0, <2>1, <2>2 DEF Part, DllVersion, HasInfo, Info
<1> QED
  BY <1>1, <1>2

LEMMA LibraryCompares ==
  ASSUME NEW file \in FileInfo, NEW v \in Version, ~(HiWord(v) > DllVersion(file))
  PROVE  AtLeast(file, v)
<1>1. /\ Part(file, 1) \in Bytes /\ Part(file, 2) \in Bytes
      /\ Part(v, 1) \in Bytes /\ Part(v, 2) \in Bytes
  BY FileParts, HiWordParts
<1>2. MAKEWORD(Part(v, 1), Part(v, 2)) <= MAKEWORD(Part(file, 1), Part(file, 2))
  <2>1. ~(MAKEWORD(Part(v, 1), Part(v, 2)) > MAKEWORD(Part(file, 1), Part(file, 2)))
    <3>1. HiWord(v) = MAKEWORD(Part(v, 1), Part(v, 2))
      BY HiWordParts
    <3>2. DllVersion(file) = MAKEWORD(Part(file, 1), Part(file, 2))
      BY FileParts
    <3> QED
      BY <3>1, <3>2
  <2>2. /\ MAKEWORD(Part(v, 1), Part(v, 2)) \in Int
        /\ MAKEWORD(Part(file, 1), Part(file, 2)) \in Int
    BY <1>1, WordIsWord DEF Words
  <2> QED
    BY <2>1, <2>2
<1> QED
  BY <1>1, <1>2, WordsCompare DEF AtLeast

------------------------------------------------------------------------------
(* What the launcher demands of a machine, as RunsOnlyWhenMet states it.   *)
MeetsCpu == LevelOf(config.cpu) <= CpuLevel(machine)
MeetsIe ==
  /\ Setting(config.complete) # <<>> /\ machine.registered
  /\ AtLeast(machine.url, Setting(config.complete))
MeetsWindows ==
  \A s \in {IF machine.nt THEN config.winnt ELSE config.win} :
    AtLeast(machine.windows, IF Setting(s) = <<>> THEN <<4, 0>> ELSE Setting(s))
MeetsServicePack ==
  \A p \in config.packs :
    p.nt = machine.nt /\ p.windows = machine.windows
      => AtLeast(<<ServicePack(machine) \div 256, ServicePack(machine) % 256>>, p.pack)
MeetsDependencies ==
  \A i \in DOMAIN config.deps :
    AtLeast(machine.libraries[config.deps[i].name], config.deps[i].version)
Met == MeetsCpu /\ (MeetsIe \/ (MeetsWindows /\ MeetsServicePack /\ MeetsDependencies))

(* What is known of the dependencies when they are checked: they are those *)
(* of the configuration, in its order.                                     *)
DependenciesLoaded ==
  phase = "check" => \E memory \in BOOLEAN : deps = LoadDependencies(config, memory)

RunInv ==
  /\ machine \in Machines /\ config \in Configs
  /\ phase \in {"load", "check"} => "run" \notin launched
  /\ DependenciesLoaded
  /\ "run" \in launched => Met

USE DEF given

LEMMA SettingIsVersion ==
  ASSUME NEW s \in SettingOf(Version)
  PROVE  Setting(s) \in Version
BY DEF SettingOf, Setting

LEMMA IeMeets ==
  ASSUME machine \in Machines, config \in Configs, Complete
  PROVE  MeetsIe
<1> DEFINE v == Setting(config.complete)
           u == machine.url
<1>1. /\ LongVersion(config.complete, 0) # 0 /\ machine.registered
      /\ LongVersion(config.complete, 0) <= IeVersion(machine)
  BY DEF Complete, IeAvailable
<1>2. v # <<>>
  BY <1>1 DEF LongVersion
<1>3. v \in Version /\ u \in FileInfo
  BY VersionsAssumption, SettingIsVersion DEF VersionsAssumption
<1>4. LongVersion(config.complete, 0) = HiWord(v) * (MAXWORD + 1) + Smaller(MAXWORD, Part(v, 3))
  BY <1>2 DEF LongVersion, ParseVersion
<1>5. HiWord(v) \in Words /\ DllVersion(u) \in Words
  BY <1>3, HiWordParts, FileParts, WordIsWord
<1>6. Smaller(MAXWORD, Part(v, 3)) \in Words
  <2>1. Part(v, 3) \in Words
    <3>1. v \in Seq(Words) /\ 0 \in Words
      BY <1>3, WordInRange DEF Version
    <3> QED
      BY <3>1 DEF Part
  <2>2. MAXWORD \in Words
    BY WordInRange, LastWord
  <2> QED
    BY <2>1, <2>2 DEF Smaller
<1>7. PICK q \in Words : IeVersion(machine) = DllVersion(u) * (MAXWORD + 1) + q
  <2>1. CASE HasInfo(u)
    <3>1. Len(u) = 4 /\ u \in Seq(Words)
      BY <1>3, <2>1 DEF FileInfo, Version, HasInfo
    <3>2. Info(u).build \in Words /\ Info(u).patch \in Words
      BY <3>1 DEF Info
    <3> QED
      BY <2>1, <3>2 DEF IeVersion, DllVersion
  <2>2. CASE ~HasInfo(u)
    <3>1. IeVersion(machine) = 0 /\ DllVersion(u) = 0
      BY <2>2 DEF IeVersion, DllVersion
    <3>2. 0 \in Words /\ 0 = 0 * (MAXWORD + 1) + 0
      BY WordInRange, LastWord
    <3> QED
      BY <3>1, <3>2
  <2> QED
    BY <2>1, <2>2
<1>8. HiWord(v) <= DllVersion(u)
  BY <1>1, <1>4, <1>5, <1>6, <1>7, HiWordsCompare
<1>9. ~(HiWord(v) > DllVersion(u))
  <2>1. HiWord(v) \in Int /\ DllVersion(u) \in Int
    BY <1>5, WordsAreIntegers
  <2> QED
    BY <1>8, <2>1
<1> QED
  BY <1>1, <1>2, <1>3, <1>9, LibraryCompares DEF MeetsIe

LEMMA WindowsMeets ==
  ASSUME machine \in Machines, config \in Configs, ~OldWindows
  PROVE  MeetsWindows
<1> DEFINE s == IF machine.nt THEN config.winnt ELSE config.win
           v == IF Setting(s) = <<>> THEN <<4, 0>> ELSE Setting(s)
           w == machine.windows
<1>1. s \in SettingOf(Version) /\ w \in Short
  BY VersionsAssumption DEF VersionsAssumption
<1>2. /\ w \in Version /\ Len(w) = 2
      /\ Part(w, 1) = w[1] /\ Part(w, 2) = w[2]
  BY <1>1 DEF Short, Part
<1>3. WindowsVersion(machine) = MAKEWORD(w[1], w[2]) /\ w[1] \in Bytes /\ w[2] \in Bytes
  <2>1. w[1] \in Bytes /\ w[2] \in Bytes
    BY <1>2 DEF Version
  <2> QED
    BY <2>1, SwappedBack DEF WindowsVersion, GetVersion
<1>4. /\ Part(v, 1) \in Bytes /\ Part(v, 2) \in Bytes
      /\ ShortVersion(s, MAKEWORD(4, 0)) = MAKEWORD(Part(v, 1), Part(v, 2))
  <2>1. CASE Setting(s) = <<>>
    <3>1. Part(v, 1) = 4 /\ Part(v, 2) = 0
      BY <2>1 DEF Part
    <3>2. 4 \in Bytes /\ 0 \in Bytes
      BY DEF Bytes, MAXBYTE
    <3> QED
      BY <2>1, <3>1, <3>2 DEF ShortVersion
  <2>2. CASE Setting(s) # <<>>
    <3>1. v \in Version /\ v = Setting(s)
      BY <1>1, <2>2, SettingIsVersion
    <3> QED
      BY <2>2, <3>1, HiWordParts DEF ShortVersion
  <2> QED
    BY <2>1, <2>2
<1>5. MAKEWORD(Part(v, 1), Part(v, 2)) <= MAKEWORD(Part(w, 1), Part(w, 2))
  <2>1. ~(MAKEWORD(Part(v, 1), Part(v, 2)) > MAKEWORD(Part(w, 1), Part(w, 2)))
    BY <1>2, <1>3, <1>4 DEF OldWindows
  <2>2. /\ MAKEWORD(Part(v, 1), Part(v, 2)) \in Int
        /\ MAKEWORD(Part(w, 1), Part(w, 2)) \in Int
    BY <1>2, <1>3, <1>4, WordIsWord, WordsAreIntegers
  <2> QED
    BY <2>1, <2>2
<1>6. AtLeast(w, v)
  BY <1>2, <1>3, <1>4, <1>5, WordsCompare DEF AtLeast
<1> QED
  BY <1>6 DEF MeetsWindows

LEMMA ShortParts ==
  ASSUME NEW q \in Short
  PROVE  q[1] \in Bytes /\ q[2] \in Bytes /\ Len(q) = 2 /\ q \in Seq(Words)
<1>1. Len(q) = 2 /\ q \in Seq(Words)
  BY DEF Short, Version
<1>2. Part(q, 1) = q[1] /\ Part(q, 2) = q[2]
  BY <1>1 DEF Part
<1>3. Part(q, 1) \in Bytes /\ Part(q, 2) \in Bytes
  BY DEF Short, Version
<1> QED
  BY <1>1, <1>2, <1>3

LEMMA PackIsWord == ASSUME NEW m \in Machines PROVE ServicePack(m) \in Words
<1>1. m.pack[1] \in Bytes /\ m.pack[2] \in Bytes
  <2>1. m.pack \in Short
    BY VersionsAssumption DEF VersionsAssumption
  <2> QED
    BY <2>1, ShortParts
<1>2. 0 \in Bytes /\ 1 \in Bytes /\ 2 \in Bytes /\ 5 \in Bytes /\ 0 \in Words
  BY WordInRange DEF Bytes, MAXBYTE
<1>3. m.versionEx \in {"none", "short", "long"}
  BY VersionsAssumption DEF VersionsAssumption
<1>4. CASE m.versionEx = "none"
  BY <1>2, <1>4 DEF ServicePack
<1>5. CASE m.versionEx = "long"
  BY <1>1, <1>5, WordIsWord DEF ServicePack
<1>6. CASE m.versionEx = "short"
  BY <1>1, <1>2, <1>6, WordIsWord DEF ServicePack
<1> QED
  BY <1>3, <1>4, <1>5, <1>6

LEMMA ServicePackMeets ==
  ASSUME machine \in Machines, config \in Configs, ~OldServicePack
  PROVE  MeetsServicePack
<1> SUFFICES ASSUME NEW p \in config.packs, p.nt = machine.nt, p.windows = machine.windows
             PROVE  AtLeast(<<ServicePack(machine) \div 256, ServicePack(machine) % 256>>, p.pack)
  BY DEF MeetsServicePack
<1> DEFINE sp == ServicePack(machine)
           w == machine.windows
           mine == {q \in config.packs : q.nt = machine.nt
                       /\ MAKEWORD(q.windows[1], q.windows[2]) = WindowsVersion(machine)}
<1>1. /\ w \in Short /\ p.pack \in Version
      /\ \A q \in config.packs : q.windows \in Short
      /\ \A q \in config.packs : q.nt = p.nt /\ q.windows = p.windows => q = p
  BY VersionsAssumption DEF VersionsAssumption
<1>2. ASSUME NEW q \in Short PROVE q[1] \in Bytes /\ q[2] \in Bytes /\ Len(q) = 2 /\ q \in Seq(Words)
  BY ShortParts
<1>3. WindowsVersion(machine) = MAKEWORD(w[1], w[2])
  BY <1>1, <1>2, SwappedBack DEF WindowsVersion, GetVersion
<1>4. p \in mine
  BY <1>3
<1>5. ASSUME NEW q \in mine PROVE q = p
  <2>1. q.windows \in Short
    BY <1>1
  <2>2. MAKEWORD(q.windows[1], q.windows[2]) = MAKEWORD(w[1], w[2])
    BY <1>3
  <2>3. q.windows[1] = w[1] /\ q.windows[2] = w[2]
    BY <1>1, <1>2, <2>1, <2>2, SameWord
  <2>4. q.windows = w
    BY <1>1, <1>2, <2>1, <2>3
  <2> QED
    BY <1>1, <2>4
<1>6. Ossp(config, machine) = HiWord(p.pack)
  <2>1. (CHOOSE q \in mine : TRUE) = p
    BY <1>4, <1>5
  <2> QED
    BY <1>4, <2>1 DEF Ossp
<1>7. sp \in Words
  BY PackIsWord
<1>8. sp \div 256 \in Bytes /\ sp % 256 \in Bytes /\ MAKEWORD(sp \div 256, sp % 256) = sp
  BY <1>7, WordParts
<1>9. /\ Part(p.pack, 1) \in Bytes /\ Part(p.pack, 2) \in Bytes
      /\ HiWord(p.pack) = MAKEWORD(Part(p.pack, 1), Part(p.pack, 2))
  BY <1>1, HiWordParts
<1>10. MAKEWORD(Part(p.pack, 1), Part(p.pack, 2)) <= MAKEWORD(sp \div 256, sp % 256)
  <2>1. ~(MAKEWORD(Part(p.pack, 1), Part(p.pack, 2)) > MAKEWORD(sp \div 256, sp % 256))
    BY <1>6, <1>8, <1>9 DEF OldServicePack
  <2>2. /\ MAKEWORD(Part(p.pack, 1), Part(p.pack, 2)) \in Int
        /\ MAKEWORD(sp \div 256, sp % 256) \in Int
    BY <1>8, <1>9, WordIsWord, WordsAreIntegers
  <2> QED
    BY <2>1, <2>2
<1>11. /\ Part(<<sp \div 256, sp % 256>>, 1) = sp \div 256
       /\ Part(<<sp \div 256, sp % 256>>, 2) = sp % 256
  BY DEF Part
<1> QED
  BY <1>8, <1>9, <1>10, <1>11, WordsCompare DEF AtLeast

LEMMA DependenciesMeet ==
  ASSUME machine \in Machines, config \in Configs, phase = "check", DependenciesLoaded,
         Missing(CheckedDependencies(machine, deps)) = {}
  PROVE  MeetsDependencies
<1> SUFFICES ASSUME NEW i \in DOMAIN config.deps
             PROVE  AtLeast(machine.libraries[config.deps[i].name], config.deps[i].version)
  BY DEF MeetsDependencies
<1> DEFINE file == machine.libraries[config.deps[i].name]
           v == config.deps[i].version
<1>1. PICK memory \in BOOLEAN : deps = LoadDependencies(config, memory)
  BY DEF DependenciesLoaded
<1>2. /\ i \in DOMAIN deps /\ DOMAIN deps = DOMAIN config.deps
      /\ deps[i].name = config.deps[i].name /\ deps[i].version = HiWord(v)
      /\ deps[i] = [name |-> deps[i].name, version |-> deps[i].version, resolved |-> FALSE,
                    srcs |-> deps[i].srcs, chosen |-> deps[i].chosen]
  BY <1>1 DEF LoadDependencies
<1>3. CheckedDependencies(machine, deps)[i].resolved = ~(deps[i].version > DllVersion(file))
  BY <1>2 DEF CheckedDependencies
<1>4. DOMAIN CheckedDependencies(machine, deps) = DOMAIN deps
  BY DEF CheckedDependencies
<1>5. ~(HiWord(v) > DllVersion(file))
  BY <1>2, <1>3, <1>4 DEF Missing
<1>6. v \in Version
  <2>1. config.deps \in Seq([name : STRING, version : Version, offers : Seq(STRING)])
    BY VersionsAssumption DEF VersionsAssumption
  <2>2. ASSUME NEW D, NEW s \in Seq(D), NEW j \in DOMAIN s PROVE s[j] \in D
    OBVIOUS
  <2>3. config.deps[i] \in [name : STRING, version : Version, offers : Seq(STRING)]
    BY <2>1, <2>2, Zenon
  <2> QED
    BY <2>3
<1>7. file \in FileInfo
  <2>1. config.deps[i].name \in DOMAIN machine.libraries
    BY MachinesAssumption DEF MachinesAssumption
  <2>2. \A name \in DOMAIN machine.libraries : machine.libraries[name] \in FileInfo
    BY VersionsAssumption DEF VersionsAssumption
  <2> QED
    BY <2>1, <2>2
<1> QED
  BY <1>5, <1>6, <1>7, LibraryCompares

LEMMA InitEstablishesRun == Init => RunInv
BY DEF Init, RunInv, DependenciesLoaded

(* What launches anything else, or nothing, leaves the application alone.  *)
LEMMA LaunchKeepsRun ==
  ASSUME RunInv, UNCHANGED given, phase' \in {"pump", "exited"},
         "run" \in launched' => "run" \in launched
  PROVE  RunInv'
BY DEF RunInv, DependenciesLoaded, Met, MeetsCpu, MeetsIe, MeetsWindows, MeetsServicePack,
       MeetsDependencies

LEMMA LoadKeepsRun == ASSUME RunInv, Load PROVE RunInv'
BY DEF RunInv, DependenciesLoaded, Load

LEMMA LevelsAreNumbers == LevelOf(config.cpu) \in Int /\ CpuLevel(machine) \in Int
<1>1. LevelOf(config.cpu) \in Int
  BY DEF LevelOf, Levels
<1>2. CpuLevel(machine) \in Int
  BY DEF CpuLevel
<1> QED
  BY <1>1, <1>2

LEMMA RunMeets == ASSUME RunInv, Run PROVE Met
<1>1. machine \in Machines /\ config \in Configs /\ phase = "check" /\ Suits
  BY DEF Run, RunInv, CheckDependencies, Check
<1>2. MeetsCpu
  <2>1. LevelOf(config.cpu) \in Int /\ CpuLevel(machine) \in Int
    BY LevelsAreNumbers
  <2> QED
    BY <1>1, <2>1 DEF Suits, OldCpu, MeetsCpu
<1>3. CASE Complete
  BY <1>1, <1>2, <1>3, IeMeets DEF Met
<1>4. CASE ~Complete
  <2>1. MeetsWindows /\ MeetsServicePack
    BY <1>1, <1>4, WindowsMeets, ServicePackMeets DEF Suits
  <2>2. Missing(CheckedDependencies(machine, deps)) = {}
    BY <1>4 DEF Run, CheckDependencies
  <2>3. MeetsDependencies
    BY <1>1, <2>2, DependenciesMeet DEF RunInv
  <2> QED
    BY <1>2, <2>1, <2>3 DEF Met
<1> QED
  BY <1>3, <1>4

LEMMA NextKeepsRun == RunInv /\ [Next]_vars => RunInv'
<1> SUFFICES ASSUME RunInv, [Next]_vars PROVE RunInv'
  OBVIOUS
<1>1. CASE LoadFails
  BY <1>1, LaunchKeepsRun DEF LoadFails
<1>2. CASE Load
  BY <1>2, LoadKeepsRun
<1>3. CASE DieOfSystem \/ DieOfDependencies
  <2>1. UNCHANGED given /\ phase' = "pump" /\ ("run" \in launched' => "run" \in launched)
    BY <1>3 DEF DieOfSystem, DieOfDependencies, Die, Exec
  <2> QED
    BY <2>1, LaunchKeepsRun
<1>4. CASE Run
  <2>1. Met
    BY <1>4, RunMeets
  <2>2. UNCHANGED given /\ phase' = "pump"
    BY <1>4 DEF Run
  <2> QED
    BY <2>1, <2>2 DEF RunInv, DependenciesLoaded, Met, MeetsCpu, MeetsIe, MeetsWindows,
                      MeetsServicePack, MeetsDependencies
<1>5. CASE Select
  BY <1>5, LaunchKeepsRun DEF Select
<1>6. CASE ClickInstall \/ CloseWindow \/ OtherMessage
  <2>1. UNCHANGED <<given, launched, phase>> /\ phase = "pump"
    BY <1>6 DEF ClickInstall, CloseWindow, OtherMessage, Idle, Dispatching
  <2> QED
    BY <2>1, LaunchKeepsRun
<1>7. ASSUME NEW button \in {"rundos", "ie"}, ClickLaunch(button) PROVE RunInv'
  <2>1. UNCHANGED <<given, phase>> /\ phase = "pump" /\ ("run" \in launched' => "run" \in launched)
    BY <1>7 DEF ClickLaunch, Dispatching, Exec
  <2> QED
    BY <2>1, LaunchKeepsRun
<1>8. CASE InstallerSucceeds \/ InstallerFails \/ BoxClosed \/ Exit
  <2>1. UNCHANGED <<given, launched>> /\ phase' \in {"pump", "exited"}
    BY <1>8 DEF InstallerSucceeds, InstallerFails, BoxClosed, Exit
  <2> QED
    BY <2>1, LaunchKeepsRun
<1>9. CASE UNCHANGED vars
  BY <1>9 DEF RunInv, DependenciesLoaded, Met, MeetsCpu, MeetsIe, MeetsWindows,
              MeetsServicePack, MeetsDependencies, vars, model
<1> QED
  BY <1>1, <1>2, <1>3, <1>4, <1>5, <1>6, <1>7, <1>8, <1>9 DEF Next

(* The application is launched only where everything is there that the     *)
(* configuration asks for (winmain.c over version/, config.c and deps.c).  *)
THEOREM LaunchedOnlyWhereMet == Spec => []RunsOnlyWhenMet
<1>1. RunInv => RunsOnlyWhenMet
  BY DEF RunInv, RunsOnlyWhenMet, Met, MeetsCpu, MeetsIe, MeetsWindows, MeetsServicePack,
         MeetsDependencies
<1> QED
  BY InitEstablishesRun, NextKeepsRun, <1>1, PTL DEF Spec

------------------------------------------------------------------------------
(* What the recursive functions of LardConfig compute: a list or a count   *)
(* that is gone through exists, and what a step keeps, the end of it has.  *)
LEMMA LeastNumber ==
  ASSUME NEW S, S \subseteq Nat, S # {}
  PROVE  \E x \in S : \A y \in S : x <= y
<1>1. PICK x \in S : \A y \in S : ~(<<y, x>> \in OpToRel(<, Nat))
  BY NatLessThanWellFounded, WFMin
<1>2. ASSUME NEW y \in S PROVE x <= y
  <2>1. y \in Nat /\ x \in Nat
    OBVIOUS
  <2>2. y < x => <<y, x>> \in OpToRel(<, Nat)
    BY <2>1, Zenon DEF OpToRel
  <2>3. ~(y < x)
    BY <1>1, <2>2
  <2> QED BY <2>1, <2>3
<1> QED BY <1>2

LEMMA Induction ==
  ASSUME NEW m \in Nat, NEW S, 0 \in S, \A k \in 1 .. m : k - 1 \in S => k \in S
  PROVE  \A k \in 0 .. m : k \in S
<1> SUFFICES ASSUME NEW i \in 0 .. m, i \notin S PROVE FALSE
  OBVIOUS
<1> DEFINE Bad == {k \in 0 .. m : k \notin S}
<1>1. PICK k \in Bad : \A j \in Bad : k <= j
  <2>1. Bad \subseteq Nat /\ Bad # {}
    OBVIOUS
  <2> HIDE DEF Bad
  <2> QED BY <2>1, LeastNumber
<1>2. k \in 1 .. m
  OBVIOUS
<1>3. k - 1 \in 0 .. m /\ k - 1 \notin Bad
  BY <1>1, <1>2
<1> QED
  BY <1>2, <1>3

Recurses(g, m, X, x, step) ==
  /\ g \in [0 .. m -> X] /\ g[0] = x
  /\ \A k \in 1 .. m : g[k] = step[k][g[k - 1]]

LEMMA Recursion ==
  ASSUME NEW m \in Nat, NEW X, NEW x \in X, NEW step \in [1 .. m -> [X -> X]]
  PROVE  \E g : Recurses(g, m, X, x, step)
<1> DEFINE Is(g, n) == Recurses(g, n, X, x, step)
           S == {n \in 0 .. m : \E g : Is(g, n)}
<1>1. 0 \in S
  <2> DEFINE g == [k \in 0 .. 0 |-> x]
  <2>1. Is(g, 0)
    BY DEF Recurses
  <2>2. \E f : Is(f, 0)
    BY <2>1
  <2> HIDE DEF Is
  <2> QED BY <2>2
<1>2. ASSUME NEW n \in 1 .. m, n - 1 \in S PROVE n \in S
  <2>0. PICK g : Is(g, n - 1)
    BY <1>2
  <2>1. /\ g \in [0 .. n - 1 -> X] /\ g[0] = x
        /\ \A k \in 1 .. n - 1 : g[k] = step[k][g[k - 1]]
    BY <2>0 DEF Recurses
  <2> DEFINE last == step[n][g[n - 1]]
             h == [k \in 0 .. n |-> IF k = n THEN last ELSE g[k]]
  <2>2. last \in X
    <3>1. n - 1 \in 0 .. n - 1
      OBVIOUS
    <3>2. g[n - 1] \in X
      BY <2>1, <3>1
    <3> QED BY <3>2
  <2>3. h \in [0 .. n -> X] /\ h[0] = x
    BY <2>1, <2>2
  <2>4. ASSUME NEW k \in 1 .. n PROVE h[k] = step[k][h[k - 1]]
    <3>1. k - 1 \in 0 .. n - 1 /\ h[k - 1] = g[k - 1]
      OBVIOUS
    <3>2. CASE k = n
      <4>1. h[k] = last
        BY <3>2
      <4>2. last = step[k][h[k - 1]]
        BY <3>1, <3>2
      <4> QED BY <4>1, <4>2
    <3>3. CASE k # n
      <4>1. k \in 1 .. n - 1
        BY <3>3
      <4>2. h[k] = g[k]
        BY <3>3
      <4> QED BY <2>1, <3>1, <4>1, <4>2
    <3> QED BY <3>2, <3>3
  <2>5. Is(h, n)
    BY <2>3, <2>4 DEF Recurses
  <2>6. \E f : Is(f, n)
    BY <2>5
  <2> HIDE DEF Is
  <2> QED BY <2>6
<1>3. m \in S
  <2> HIDE DEF S
  <2>1. \A k \in 0 .. m : k \in S
    BY <1>1, <1>2, Induction
  <2> QED BY <2>1
<1> QED
  BY <1>3

------------------------------------------------------------------------------
(* The tables of sources, load_sources(), and the list ard_get_sources()   *)
(* makes of one.                                                           *)
LEMMA AppendAdds ==
  ASSUME NEW V, NEW s \in Seq(V), NEW e \in V
  PROVE  Append(s, e) \in Seq(V) /\ ToSet(Append(s, e)) = ToSet(s) \union {e}
<1>1. /\ Append(s, e) \in Seq(V) /\ DOMAIN Append(s, e) = 1 .. Len(s) + 1
      /\ \A i \in 1 .. Len(s) : Append(s, e)[i] = s[i]
      /\ Append(s, e)[Len(s) + 1] = e
      /\ DOMAIN s = 1 .. Len(s) /\ Len(s) \in Nat
  OBVIOUS
<1>2. \A i \in 1 .. Len(s) + 1 : i \in 1 .. Len(s) \/ i = Len(s) + 1
  BY <1>1
<1>3. \A i \in 1 .. Len(s) : i \in 1 .. Len(s) + 1
  BY <1>1
<1>4. Len(s) + 1 \in 1 .. Len(s) + 1
  BY <1>1
<1> QED
  BY <1>1, <1>2, <1>3, <1>4, Zenon DEF ToSet

Known(srcs) == ToSet(srcs) \ {Unknown}

IsAdded(g, list, srcs) ==
  g = [n \in 0 .. Len(srcs) |-> IF n = 0 THEN list ELSE AddSource(g[n - 1], srcs[n])]

LEMMA AddSourceAdds ==
  ASSUME NEW V, NEW list \in Seq(V), NEW src \in V \union {Unknown}
  PROVE  /\ AddSource(list, src) \in Seq(V)
         /\ ToSet(AddSource(list, src)) = ToSet(list) \union ({src} \ {Unknown})
<1>1. CASE src = Unknown \/ src \in ToSet(list)
  BY <1>1 DEF AddSource
<1>2. CASE ~(src = Unknown \/ src \in ToSet(list))
  BY <1>2, AppendAdds DEF AddSource
<1> QED
  BY <1>1, <1>2

LEMMA AddSourcesAdds ==
  ASSUME NEW V, NEW list \in Seq(V), NEW srcs \in Seq(V \union {Unknown})
  PROVE  /\ AddSources(list, srcs) \in Seq(V)
         /\ ToSet(AddSources(list, srcs)) = ToSet(list) \union Known(srcs)
<1> DEFINE m == Len(srcs)
           step == [k \in 1 .. m |-> [l \in Seq(V) |-> AddSource(l, srcs[k])]]
           g == CHOOSE f : IsAdded(f, list, srcs)
           To(k) == {srcs[j] : j \in 1 .. k} \ {Unknown}
           S == {k \in 0 .. m : g[k] \in Seq(V) /\ ToSet(g[k]) = ToSet(list) \union To(k)}
<1>1. m \in Nat /\ DOMAIN srcs = 1 .. m /\ \A k \in 1 .. m : srcs[k] \in V \union {Unknown}
  OBVIOUS
<1>2. step \in [1 .. m -> [Seq(V) -> Seq(V)]]
  <2> SUFFICES ASSUME NEW k \in 1 .. m, NEW l \in Seq(V) PROVE AddSource(l, srcs[k]) \in Seq(V)
    OBVIOUS
  <2> QED BY <1>1, AddSourceAdds
<1>3. IsAdded(g, list, srcs)
  <2> HIDE DEF step
  <2>1. PICK f : Recurses(f, m, Seq(V), list, step)
    BY <1>1, <1>2, Recursion
  <2>2. ASSUME NEW k \in 1 .. m PROVE f[k] = AddSource(f[k - 1], srcs[k])
    <3>1. k - 1 \in 0 .. m
      BY <1>1
    <3> QED BY <2>1, <3>1 DEF step, Recurses
  <2>3. \A k \in 0 .. m : f[k] = IF k = 0 THEN list ELSE AddSource(f[k - 1], srcs[k])
    <3>1. \A k \in 0 .. m : k # 0 => k \in 1 .. m
      BY <1>1
    <3> QED BY <2>1, <2>2, <3>1 DEF Recurses
  <2>4. IsAdded(f, list, srcs)
    BY <2>1, <2>3 DEF IsAdded, Recurses
  <2> QED BY <2>4
<1>4. AddSources(list, srcs) = g[m]
  BY Zenon DEF AddSources, IsAdded
<1>5. \A k \in 0 .. m : g[k] = IF k = 0 THEN list ELSE AddSource(g[k - 1], srcs[k])
  <2> HIDE DEF g
  <2> QED BY <1>3 DEF IsAdded
<1> HIDE DEF g
<1>6. 0 \in S
  <2>1. g[0] = list
    BY <1>1, <1>5
  <2>2. To(0) = {}
    OBVIOUS
  <2> QED BY <1>1, <2>1, <2>2
<1>7. ASSUME NEW k \in 1 .. m, k - 1 \in S PROVE k \in S
  <2>1. g[k] = AddSource(g[k - 1], srcs[k])
    BY <1>5
  <2>2. /\ g[k] \in Seq(V)
        /\ ToSet(g[k]) = ToSet(g[k - 1]) \union ({srcs[k]} \ {Unknown})
    <3>1. g[k - 1] \in Seq(V) /\ srcs[k] \in V \union {Unknown}
      BY <1>1, <1>7
    <3>2. ASSUME NEW l \in Seq(V), NEW s \in V \union {Unknown}
          PROVE  /\ AddSource(l, s) \in Seq(V)
                 /\ ToSet(AddSource(l, s)) = ToSet(l) \union ({s} \ {Unknown})
      BY AddSourceAdds
    <3> QED BY <2>1, <3>1, <3>2
  <2>3. To(k) = To(k - 1) \union ({srcs[k]} \ {Unknown})
    BY <1>1
  <2> QED BY <1>7, <2>2, <2>3
<1>8. m \in S
  <2> HIDE DEF S
  <2>1. \A k \in 0 .. m : k \in S
    BY <1>1, <1>6, <1>7, Induction
  <2> QED BY <1>1, <2>1
<1>9. To(m) = Known(srcs)
  BY <1>1 DEF Known, ToSet
<1> QED
  BY <1>4, <1>8, <1>9

IsLoaded(g, ds) ==
  g = [n \in 0 .. Len(ds) |-> IF n = 0 THEN <<>> ELSE AddSources(g[n - 1], ds[n].srcs)]

LEMMA LoadSourcesLoads ==
  ASSUME NEW V, NEW ds, Len(ds) \in Nat,
         \A i \in 1 .. Len(ds) : ds[i].srcs \in Seq(V \union {Unknown})
  PROVE  /\ LoadSources(ds) \in Seq(V)
         /\ \A i \in 1 .. Len(ds) : Known(ds[i].srcs) \subseteq ToSet(LoadSources(ds))
<1> DEFINE m == Len(ds)
           step == [k \in 1 .. m |-> [l \in Seq(V) |-> AddSources(l, ds[k].srcs)]]
           g == CHOOSE f : IsLoaded(f, ds)
           S == {k \in 0 .. m : /\ g[k] \in Seq(V)
                                /\ \A i \in 1 .. k : Known(ds[i].srcs) \subseteq ToSet(g[k])}
<1>1. m \in Nat
  OBVIOUS
<1>2. step \in [1 .. m -> [Seq(V) -> Seq(V)]]
  <2> SUFFICES ASSUME NEW k \in 1 .. m, NEW l \in Seq(V)
               PROVE  AddSources(l, ds[k].srcs) \in Seq(V)
    OBVIOUS
  <2>1. ds[k].srcs \in Seq(V \union {Unknown})
    OBVIOUS
  <2> QED BY <2>1, AddSourcesAdds
<1>3. IsLoaded(g, ds)
  <2> HIDE DEF step
  <2>0. <<>> \in Seq(V)
    OBVIOUS
  <2>1. PICK f : Recurses(f, m, Seq(V), <<>>, step)
    BY <1>1, <1>2, <2>0, Recursion
  <2>2. ASSUME NEW k \in 1 .. m PROVE f[k] = AddSources(f[k - 1], ds[k].srcs)
    <3>1. k - 1 \in 0 .. m
      BY <1>1
    <3> QED BY <2>1, <3>1 DEF step, Recurses
  <2>3. \A k \in 0 .. m : f[k] = IF k = 0 THEN <<>> ELSE AddSources(f[k - 1], ds[k].srcs)
    <3>1. \A k \in 0 .. m : k # 0 => k \in 1 .. m
      BY <1>1
    <3> QED BY <2>1, <2>2, <3>1 DEF Recurses
  <2>4. IsLoaded(f, ds)
    BY <2>1, <2>3 DEF IsLoaded, Recurses
  <2> QED BY <2>4
<1>4. LoadSources(ds) = g[m]
  BY Zenon DEF LoadSources, IsLoaded
<1>5. \A k \in 0 .. m : g[k] = IF k = 0 THEN <<>> ELSE AddSources(g[k - 1], ds[k].srcs)
  <2> HIDE DEF g
  <2> QED BY <1>3 DEF IsLoaded
<1> HIDE DEF g
<1>6. 0 \in S
  <2>1. g[0] = <<>> /\ 0 \in 0 .. m /\ <<>> \in Seq(V)
    BY <1>1, <1>5
  <2>2. \A i \in 1 .. 0 : FALSE
    OBVIOUS
  <2> QED BY <2>1, <2>2
<1>7. ASSUME NEW k \in 1 .. m, k - 1 \in S PROVE k \in S
  <2>1. g[k] = AddSources(g[k - 1], ds[k].srcs)
    BY <1>5
  <2>2. ds[k].srcs \in Seq(V \union {Unknown})
    OBVIOUS
  <2>3. /\ g[k] \in Seq(V)
        /\ ToSet(g[k]) = ToSet(g[k - 1]) \union Known(ds[k].srcs)
    <3>1. g[k - 1] \in Seq(V)
      BY <1>7
    <3>2. ASSUME NEW l \in Seq(V), NEW s \in Seq(V \union {Unknown})
          PROVE  /\ AddSources(l, s) \in Seq(V)
                 /\ ToSet(AddSources(l, s)) = ToSet(l) \union Known(s)
      BY AddSourcesAdds
    <3> QED BY <2>1, <2>2, <3>1, <3>2
  <2>4. \A i \in 1 .. k : i \in 1 .. k - 1 \/ i = k
    OBVIOUS
  <2> QED BY <1>7, <2>3, <2>4
<1>8. m \in S
  <2> HIDE DEF S
  <2>1. \A k \in 0 .. m : k \in S
    BY <1>1, <1>6, <1>7, Induction
  <2> QED BY <1>1, <2>1
<1> QED
  BY <1>4, <1>8

IsListed(g, list, counters) ==
  g = [n \in 0 .. Len(list) |->
        IF n = 0 THEN <<>>
        ELSE IF counters[list[n]] > 0 THEN Append(g[n - 1], list[n]) ELSE g[n - 1]]

LEMMA ListedAre ==
  ASSUME NEW V, NEW list \in Seq(V), NEW counters
  PROVE  ToSet(Listed(list, counters)) = {s \in ToSet(list) : counters[s] > 0}
<1> DEFINE m == Len(list)
           After(l, k) == IF counters[list[k]] > 0 THEN Append(l, list[k]) ELSE l
           step == [k \in 1 .. m |-> [l \in Seq(V) |-> After(l, k)]]
           g == CHOOSE f : IsListed(f, list, counters)
           To(k) == {s \in {list[j] : j \in 1 .. k} : counters[s] > 0}
           S == {k \in 0 .. m : g[k] \in Seq(V) /\ ToSet(g[k]) = To(k)}
<1>1. m \in Nat /\ DOMAIN list = 1 .. m /\ \A k \in 1 .. m : list[k] \in V
  OBVIOUS
<1>2. step \in [1 .. m -> [Seq(V) -> Seq(V)]]
  <2> SUFFICES ASSUME NEW k \in 1 .. m, NEW l \in Seq(V) PROVE After(l, k) \in Seq(V)
    OBVIOUS
  <2>1. list[k] \in V
    BY <1>1
  <2> QED BY <2>1, AppendAdds
<1>3. IsListed(g, list, counters)
  <2> HIDE DEF step
  <2>0. <<>> \in Seq(V)
    OBVIOUS
  <2>1. PICK f : Recurses(f, m, Seq(V), <<>>, step)
    BY <1>1, <1>2, <2>0, Recursion
  <2>2. ASSUME NEW k \in 1 .. m PROVE f[k] = After(f[k - 1], k)
    <3>1. k - 1 \in 0 .. m
      BY <1>1
    <3> QED BY <2>1, <3>1 DEF step, Recurses
  <2>3. \A k \in 0 .. m : f[k] = IF k = 0 THEN <<>> ELSE After(f[k - 1], k)
    <3>1. \A k \in 0 .. m : k # 0 => k \in 1 .. m
      BY <1>1
    <3> HIDE DEF After
    <3> QED BY <2>1, <2>2, <3>1 DEF Recurses
  <2>4. IsListed(f, list, counters)
    BY <2>1, <2>3 DEF IsListed, Recurses
  <2> QED BY <2>4
<1>4. Listed(list, counters) = g[m]
  BY Zenon DEF Listed, IsListed
<1>5. \A k \in 0 .. m : g[k] = IF k = 0 THEN <<>> ELSE After(g[k - 1], k)
  <2> HIDE DEF g
  <2> QED BY <1>3 DEF IsListed
<1> HIDE DEF g
<1>6. 0 \in S
  <2>1. g[0] = <<>> /\ 0 \in 0 .. m /\ <<>> \in Seq(V)
    BY <1>1, <1>5
  <2>2. ToSet(<<>>) = {} /\ To(0) = {}
    BY DEF ToSet
  <2> HIDE DEF To
  <2> QED BY <2>1, <2>2
<1>7. ASSUME NEW k \in 1 .. m, k - 1 \in S PROVE k \in S
  <2>1. g[k] = After(g[k - 1], k)
    BY <1>5
  <2>2. list[k] \in V /\ g[k - 1] \in Seq(V)
    BY <1>1, <1>7
  <2>3. To(k) = To(k - 1) \union {s \in {list[k]} : counters[s] > 0}
    <3>1. \A j \in 1 .. k : j \in 1 .. k - 1 \/ j = k
      OBVIOUS
    <3>2. k \in 1 .. k /\ \A j \in 1 .. k - 1 : j \in 1 .. k
      OBVIOUS
    <3> QED BY <3>1, <3>2, Zenon
  <2>4. CASE counters[list[k]] > 0
    <3>1. g[k] = Append(g[k - 1], list[k])
      BY <2>1, <2>4
    <3>2. g[k] \in Seq(V) /\ ToSet(g[k]) = ToSet(g[k - 1]) \union {list[k]}
      BY <2>2, <3>1, AppendAdds
    <3>3. To(k) = To(k - 1) \union {list[k]}
      BY <2>3, <2>4
    <3>4. ToSet(g[k - 1]) = To(k - 1) /\ k \in 0 .. m
      BY <1>7
    <3> HIDE DEF To
    <3> QED BY <3>2, <3>3, <3>4
  <2>5. CASE ~(counters[list[k]] > 0)
    <3>1. g[k] = g[k - 1]
      BY <2>1, <2>5
    <3>2. To(k) = To(k - 1)
      BY <2>3, <2>5
    <3> HIDE DEF To
    <3> QED BY <1>7, <3>1, <3>2
  <2> QED BY <2>4, <2>5
<1>8. m \in S
  <2> HIDE DEF S
  <2>1. \A k \in 0 .. m : k \in S
    BY <1>1, <1>6, <1>7, Induction
  <2> QED BY <1>1, <2>1
<1>9. To(m) = {s \in ToSet(list) : counters[s] > 0}
  BY <1>1 DEF ToSet
<1> QED
  BY <1>4, <1>8, <1>9

------------------------------------------------------------------------------
(* What the counters say of the dependencies G that have got a source.     *)
Uses(ds, T) == [chosen : [DOMAIN ds -> T \union {Unknown}], counters : [T -> Int]]
Users(used, G, s) == {d \in G : used.chosen[d] = s}
Fits(used, ds, T, G) ==
  /\ used \in Uses(ds, T)
  /\ \A d \in G : used.chosen[d] \in Known(ds[d].srcs)
  /\ \A s \in T : used.counters[s] = Cardinality(Users(used, G, s))

(* Every missing dependency has a first source that is known, and the      *)
(* table T has what is known.                                              *)
Solvable(ds, T) ==
  /\ Len(ds) \in Nat /\ DOMAIN ds = 1 .. Len(ds)
  /\ Unknown \notin T
  /\ \A d \in Missing(ds) : /\ ds[d].srcs[1] \in Known(ds[d].srcs)
                            /\ Known(ds[d].srcs) \subseteq T

LEMMA UseFits ==
  ASSUME NEW ds, NEW T, Solvable(ds, T), NEW used, NEW G, IsFiniteSet(G), G \subseteq Missing(ds),
         Fits(used, ds, T, G), NEW d \in Missing(ds) \ G, NEW src \in Known(ds[d].srcs)
  PROVE  Fits(Use(used, d, src), ds, T, G \union {d})
<1> DEFINE new == Use(used, d, src)
<1>1. d \in DOMAIN ds /\ src \in T /\ src # Unknown /\ \A e \in G : e \in DOMAIN ds
  BY DEF Solvable, Missing, Known
<1>2. /\ used.chosen \in [DOMAIN ds -> T \union {Unknown}] /\ used.counters \in [T -> Int]
      /\ \A e \in G : used.chosen[e] \in Known(ds[e].srcs)
      /\ \A s \in T : used.counters[s] = Cardinality(Users(used, G, s))
  BY DEF Fits, Uses
<1>3. /\ new = [chosen |-> new.chosen, counters |-> new.counters]
      /\ new.chosen = [used.chosen EXCEPT ![d] = src]
      /\ new.counters = [used.counters EXCEPT ![src] = @ + 1]
  BY <1>1 DEF Use, Counted
<1> HIDE DEF new
<1>4. /\ new.chosen[d] = src /\ \A e \in G : new.chosen[e] = used.chosen[e]
      /\ new.chosen \in [DOMAIN ds -> T \union {Unknown}]
  BY <1>1, <1>2, <1>3
<1>5. /\ new.counters \in [T -> Int] /\ new.counters[src] = used.counters[src] + 1
      /\ \A s \in T : s # src => new.counters[s] = used.counters[s]
  BY <1>1, <1>2, <1>3
<1>6. new \in Uses(ds, T)
  BY <1>3, <1>4, <1>5 DEF Uses
<1>7. \A e \in G \union {d} : new.chosen[e] \in Known(ds[e].srcs)
  BY <1>2, <1>4
<1>8. ASSUME NEW s \in T PROVE new.counters[s] = Cardinality(Users(new, G \union {d}, s))
  <2>1. CASE s = src
    <3>1. Users(new, G \union {d}, s) = Users(used, G, s) \union {d}
      BY <1>4, <2>1 DEF Users
    <3>2. IsFiniteSet(Users(used, G, s)) /\ d \notin Users(used, G, s)
      <4>1. Users(used, G, s) \subseteq G
        BY DEF Users
      <4> QED BY <4>1, FS_Subset
    <3>3. Cardinality(Users(used, G, s) \union {d}) = Cardinality(Users(used, G, s)) + 1
      BY <3>2, FS_AddElement
    <3> QED BY <1>2, <1>5, <2>1, <3>1, <3>3
  <2>2. CASE s # src
    <3>1. Users(new, G \union {d}, s) = Users(used, G, s)
      BY <1>4, <2>2 DEF Users
    <3> QED BY <1>2, <1>5, <2>2, <3>1
  <2> QED BY <2>1, <2>2
<1> QED
  BY <1>6, <1>7, <1>8 DEF Fits, new

LEMMA ChangedFits ==
  ASSUME NEW ds, NEW T, Solvable(ds, T), NEW used, NEW G, IsFiniteSet(G), G \subseteq Missing(ds),
         Fits(used, ds, T, G), NEW d \in G, NEW src \in Known(ds[d].srcs)
  PROVE  Fits(Changed(used, d, src), ds, T, G)
<1> DEFINE new == Changed(used, d, src)
           old == used.chosen[d]
<1>1. d \in DOMAIN ds /\ src \in T /\ src # Unknown /\ \A e \in G : e \in DOMAIN ds
  BY DEF Solvable, Missing, Known
<1>2. /\ used.chosen \in [DOMAIN ds -> T \union {Unknown}] /\ used.counters \in [T -> Int]
      /\ \A e \in G : used.chosen[e] \in Known(ds[e].srcs)
      /\ \A s \in T : used.counters[s] = Cardinality(Users(used, G, s))
      /\ used = [chosen |-> used.chosen, counters |-> used.counters]
  BY DEF Fits, Uses
<1>3. old \in T /\ old # Unknown
  BY <1>2 DEF Solvable, Missing, Known
<1>4. /\ new = [chosen |-> new.chosen, counters |-> new.counters]
      /\ new.chosen = [used.chosen EXCEPT ![d] = src]
      /\ new.counters = [[used.counters EXCEPT ![old] = @ + (-1)] EXCEPT ![src] = @ + 1]
  BY <1>1, <1>2, <1>3 DEF Changed, Use, Counted
<1> HIDE DEF new
<1>5. /\ new.chosen[d] = src /\ \A e \in G : e # d => new.chosen[e] = used.chosen[e]
      /\ new.chosen \in [DOMAIN ds -> T \union {Unknown}]
  BY <1>1, <1>2, <1>4
<1>6. /\ new.counters \in [T -> Int]
      /\ old = src => \A s \in T : new.counters[s] = used.counters[s]
      /\ old # src => /\ new.counters[src] = used.counters[src] + 1
                      /\ new.counters[old] = used.counters[old] - 1
                      /\ \A s \in T : s \notin {src, old} => new.counters[s] = used.counters[s]
  BY <1>1, <1>2, <1>3, <1>4
<1>7. new \in Uses(ds, T)
  BY <1>4, <1>5, <1>6 DEF Uses
<1>8. \A e \in G : new.chosen[e] \in Known(ds[e].srcs)
  BY <1>2, <1>5
<1>9. ASSUME NEW s \in T PROVE new.counters[s] = Cardinality(Users(new, G, s))
  <2>1. IsFiniteSet(Users(used, G, s))
    <3>1. Users(used, G, s) \subseteq G
      BY DEF Users
    <3> QED BY <3>1, FS_Subset
  <2>2. CASE old = src \/ s \notin {src, old}
    <3>1. Users(new, G, s) = Users(used, G, s)
      BY <1>5, <2>2 DEF Users
    <3> QED BY <1>2, <1>6, <2>2, <3>1
  <2>3. CASE old # src /\ s = src
    <3>1. Users(new, G, s) = Users(used, G, s) \union {d} /\ d \notin Users(used, G, s)
      BY <1>5, <2>3 DEF Users
    <3>2. Cardinality(Users(used, G, s) \union {d}) = Cardinality(Users(used, G, s)) + 1
      BY <2>1, <3>1, FS_AddElement
    <3> QED BY <1>2, <1>6, <2>3, <3>1, <3>2
  <2>4. CASE old # src /\ s = old
    <3>1. Users(new, G, s) = Users(used, G, s) \ {d} /\ d \in Users(used, G, s)
      BY <1>5, <2>4 DEF Users
    <3>2. Cardinality(Users(used, G, s) \ {d}) = Cardinality(Users(used, G, s)) - 1
      BY <2>1, <3>1, FS_RemoveElement
    <3> QED BY <1>2, <1>6, <2>4, <3>1, <3>2
  <2> QED BY <2>2, <2>3, <2>4
<1> QED
  BY <1>7, <1>8, <1>9 DEF Fits, new

(* The dependencies from the top to the i-th one that are missing.         *)
MissingTo(ds, i) == {d \in Missing(ds) : d <= i}

LEMMA MissingToIsFinite ==
  ASSUME NEW ds, NEW T, Solvable(ds, T), NEW i \in Nat
  PROVE  IsFiniteSet(MissingTo(ds, i)) /\ MissingTo(ds, i) \subseteq Missing(ds)
<1>1. MissingTo(ds, i) \subseteq 1 .. i /\ MissingTo(ds, i) \subseteq Missing(ds)
  BY DEF MissingTo, Missing, Solvable
<1>2. IsFiniteSet(1 .. i)
  <2>1. 1 \in Int /\ i \in Int
    OBVIOUS
  <2> QED BY <2>1, FS_Interval, Zenon
<1> QED
  BY <1>1, <1>2, FS_Subset

Above(ds, used, j, src) == IF MightUse(ds[j], src) THEN Changed(used, j, src) ELSE used
IsAbove(g, ds, used, i) ==
  g = [j \in 0 .. i - 1 |->
        IF j = 0 THEN Use(used, i, ds[i].srcs[1])
        ELSE IF MightUse(ds[j], ds[i].srcs[1]) THEN Changed(g[j - 1], j, ds[i].srcs[1])
        ELSE g[j - 1]]

LEMMA UsedFits ==
  ASSUME NEW ds, NEW T, Solvable(ds, T), NEW i \in 1 .. Len(ds), NEW used,
         Fits(used, ds, T, MissingTo(ds, i - 1))
  PROVE  Fits(Used(ds, used, i), ds, T, MissingTo(ds, i))
<1> DEFINE src == ds[i].srcs[1]
           G == MissingTo(ds, i)
           m == i - 1
           X == {u \in Uses(ds, T) : Fits(u, ds, T, G)}
<1>0. Len(ds) \in Nat /\ DOMAIN ds = 1 .. Len(ds) /\ i \in Nat /\ m \in Nat
  BY DEF Solvable
<1>1. CASE i \notin Missing(ds)
  <2>1. MissingTo(ds, i) = MissingTo(ds, i - 1)
    BY <1>0, <1>1 DEF MissingTo, Missing
  <2>2. Used(ds, used, i) = used
    BY <1>0, <1>1, Zenon DEF Used, Missing
  <2> QED BY <2>1, <2>2
<1>2. CASE i \in Missing(ds)
  <2> DEFINE first == Use(used, i, src)
             step == [j \in 1 .. m |-> [u \in X |-> Above(ds, u, j, src)]]
             g == CHOOSE f : IsAbove(f, ds, used, i)
             S == {j \in 0 .. m : g[j] \in X}
  <2>1. IsFiniteSet(G) /\ G \subseteq Missing(ds)
    BY <1>0, MissingToIsFinite
  <2>2. src \in Known(ds[i].srcs)
    BY <1>2 DEF Solvable
  <2>3. first \in X
    <3>1. IsFiniteSet(MissingTo(ds, i - 1)) /\ MissingTo(ds, i - 1) \subseteq Missing(ds)
      BY <1>0, MissingToIsFinite
    <3>2. i \notin MissingTo(ds, i - 1) /\ G = MissingTo(ds, i - 1) \union {i}
      BY <1>0, <1>2 DEF MissingTo, Missing
    <3>3. Fits(first, ds, T, G)
      <4> HIDE DEF G, src
      <4> QED BY <1>2, <2>2, <3>1, <3>2, UseFits
    <3> QED BY <3>3 DEF Fits
  <2>4. ASSUME NEW j \in 1 .. m, NEW u \in X PROVE Above(ds, u, j, src) \in X
    <3>1. CASE MightUse(ds[j], src)
      <4>1. j \in G /\ src \in Known(ds[j].srcs)
        BY <1>0, <2>2, <3>1 DEF MightUse, MissingTo, Missing, Known
      <4>2. Fits(Changed(u, j, src), ds, T, G)
        <5> HIDE DEF G, src
        <5> QED BY <2>1, <4>1, ChangedFits
      <4> QED BY <3>1, <4>2 DEF Fits, Above
    <3>2. CASE ~MightUse(ds[j], src)
      BY <3>2 DEF Above
    <3> QED BY <3>1, <3>2
  <2>5. step \in [1 .. m -> [X -> X]]
    <3> HIDE DEF X, src
    <3> QED BY <2>4
  <2> HIDE DEF X, first
  <2>6. IsAbove(g, ds, used, i)
    <3> HIDE DEF step
    <3>1. PICK f : Recurses(f, m, X, first, step)
      BY <1>0, <2>3, <2>5, Recursion
    <3>2. ASSUME NEW j \in 1 .. m PROVE f[j] = Above(ds, f[j - 1], j, src)
      <4>1. j - 1 \in 0 .. m
        BY <1>0
      <4> HIDE DEF src
      <4> QED BY <3>1, <4>1 DEF step, Recurses
    <3>3. \A j \in 0 .. m : f[j] = IF j = 0 THEN first ELSE Above(ds, f[j - 1], j, src)
      <4>1. \A j \in 0 .. m : j # 0 => j \in 1 .. m
        BY <1>0
      <4> HIDE DEF src
      <4> QED BY <3>1, <3>2, <4>1 DEF Recurses
    <3>4. IsAbove(f, ds, used, i)
      BY <3>1, <3>3 DEF IsAbove, Recurses, Above, first
    <3> QED BY <3>4
  <2>7. Used(ds, used, i) = g[m]
    <3>1. ~ds[i].resolved
      BY <1>2 DEF Missing
    <3> QED BY <3>1, Zenon DEF Used, IsAbove
  <2>8. \A j \in 0 .. m : g[j] = IF j = 0 THEN first ELSE Above(ds, g[j - 1], j, src)
    <3> HIDE DEF g
    <3> QED BY <2>6 DEF IsAbove, Above, first
  <2> HIDE DEF g
  <2>9. 0 \in S
    BY <1>0, <2>3, <2>8
  <2>10. ASSUME NEW j \in 1 .. m, j - 1 \in S PROVE j \in S
    <3>1. g[j - 1] \in X /\ g[j] = Above(ds, g[j - 1], j, src)
      BY <2>8, <2>10
    <3>2. g[j] \in X
      <4> HIDE DEF src, m
      <4> QED BY <2>4, <3>1
    <3> QED BY <3>2
  <2>11. m \in S
    <3> HIDE DEF S, m
    <3>1. \A j \in 0 .. m : j \in S
      BY <1>0, <2>9, <2>10, Induction
    <3> QED BY <1>0, <3>1
  <2>12. g[m] \in X
    BY <2>11
  <2> QED BY <2>7, <2>12 DEF X
<1> QED
  BY <1>1, <1>2

IsAllUsed(g, ds, list) ==
  g = [i \in 0 .. Len(ds) |-> IF i = 0 THEN Unused(ds, list) ELSE Used(ds, g[i - 1], i)]

LEMMA AllUsedFits ==
  ASSUME NEW ds, NEW list, Solvable(ds, ToSet(list)), \A d \in DOMAIN ds : ds[d].chosen = Unknown
  PROVE  Fits(AllUsed(ds, list), ds, ToSet(list), Missing(ds))
<1> DEFINE T == ToSet(list)
           m == Len(ds)
           X == Uses(ds, T)
           x == Unused(ds, list)
           Or(u, k) == IF Fits(u, ds, T, MissingTo(ds, k - 1)) THEN Used(ds, u, k) ELSE u
           step == [k \in 1 .. m |-> [u \in X |-> Or(u, k)]]
           Step(g, k) == Fits(g[k], ds, T, MissingTo(ds, k))
<1>1. m \in Nat /\ DOMAIN ds = 1 .. m
  BY DEF Solvable
<1>2. x \in X /\ Fits(x, ds, T, MissingTo(ds, 0))
  <2>1. MissingTo(ds, 0) = {}
    BY <1>1 DEF MissingTo, Missing
  <2>2. x \in X /\ x.counters = [s \in T |-> 0]
    BY DEF Unused, Uses
  <2>3. \A s \in T : Users(x, {}, s) = {}
    BY DEF Users
  <2>4. Cardinality({}) = 0
    BY FS_EmptySet
  <2> HIDE DEF x, T
  <2> QED BY <2>1, <2>2, <2>3, <2>4 DEF Fits
<1> HIDE DEF T, x
<1>3. ASSUME NEW k \in 1 .. m, NEW u, Fits(u, ds, T, MissingTo(ds, k - 1))
      PROVE  Fits(Used(ds, u, k), ds, T, MissingTo(ds, k))
  BY <1>3, UsedFits DEF T
<1>4. step \in [1 .. m -> [X -> X]]
  <2> SUFFICES ASSUME NEW k \in 1 .. m, NEW u \in X PROVE Or(u, k) \in X
    OBVIOUS
  <2> QED BY <1>3 DEF Fits
<1>5. PICK f : Recurses(f, m, X, x, step)
  <2> HIDE DEF step, m, X
  <2> QED BY <1>1, <1>2, <1>4, Recursion
<1>6. \A k \in 0 .. m : Step(f, k)
  <2> DEFINE S == {k \in 0 .. m : Step(f, k)}
  <2>1. 0 \in S
    BY <1>1, <1>2, <1>5 DEF Recurses
  <2>2. ASSUME NEW k \in 1 .. m, k - 1 \in S PROVE k \in S
    <3>1. k - 1 \in 0 .. m /\ f[k - 1] \in X
      BY <1>1, <1>5 DEF Recurses
    <3>2. f[k] = Or(f[k - 1], k)
      BY <1>5, <3>1 DEF Recurses
    <3>3. f[k] = Used(ds, f[k - 1], k)
      BY <2>2, <3>2
    <3> QED BY <1>3, <2>2, <3>3
  <2> HIDE DEF S
  <2>3. \A k \in 0 .. m : k \in S
    BY <1>1, <2>1, <2>2, Induction
  <2> QED BY <2>3 DEF S
<1> DEFINE g == CHOOSE h : IsAllUsed(h, ds, list)
<1>7. IsAllUsed(g, ds, list)
  <2>1. ASSUME NEW k \in 1 .. m PROVE f[k] = Used(ds, f[k - 1], k)
    <3>1. k - 1 \in 0 .. m /\ f[k - 1] \in X
      BY <1>1, <1>5 DEF Recurses
    <3>2. f[k] = Or(f[k - 1], k)
      BY <1>5, <3>1 DEF Recurses
    <3> QED BY <1>6, <3>1, <3>2
  <2>2. \A k \in 0 .. m : f[k] = IF k = 0 THEN x ELSE Used(ds, f[k - 1], k)
    <3>1. \A k \in 0 .. m : k # 0 => k \in 1 .. m
      BY <1>1
    <3> QED BY <1>5, <2>1, <3>1 DEF Recurses
  <2>3. IsAllUsed(f, ds, list)
    BY <1>5, <2>2 DEF IsAllUsed, Recurses, x
  <2> QED BY <2>3
<1>8. AllUsed(ds, list) = g[m]
  BY Zenon DEF AllUsed, IsAllUsed
<1> HIDE DEF g
<1>9. \A k \in 0 .. m : g[k] = IF k = 0 THEN x ELSE Used(ds, g[k - 1], k)
  BY <1>7 DEF IsAllUsed, x
<1> DEFINE S == {k \in 0 .. m : Step(g, k)}
<1>10. 0 \in S
  BY <1>1, <1>2, <1>9
<1>11. ASSUME NEW k \in 1 .. m, k - 1 \in S PROVE k \in S
  <2>1. g[k] = Used(ds, g[k - 1], k)
    BY <1>9
  <2> QED BY <1>3, <1>11, <2>1
<1>12. Step(g, m)
  <2> HIDE DEF S
  <2>1. \A k \in 0 .. m : k \in S
    BY <1>1, <1>10, <1>11, Induction
  <2> QED BY <1>1, <2>1 DEF S
<1>13. MissingTo(ds, m) = Missing(ds)
  BY <1>1 DEF MissingTo, Missing
<1> QED
  BY <1>8, <1>12, <1>13 DEF T

------------------------------------------------------------------------------
LEMMA OfferedAre ==
  ASSUME NEW c, NEW d, d.offers \in Seq(STRING)
  PROVE  Offered(c, d) \in Seq(c.paths \union {Unknown})
<1> DEFINE V == c.paths \union {Unknown}
           s == [i \in DOMAIN d.offers |-> LoadSource(c, d.offers[i])]
           n == Smaller(Len(d.offers), ARDC_DEPENDENCY_MAX_SOURCES)
<1>1. Len(d.offers) \in Nat /\ DOMAIN d.offers = 1 .. Len(d.offers)
  OBVIOUS
<1>2. \A name : LoadSource(c, name) \in V
  BY DEF LoadSource
<1>3. s \in [1 .. Len(d.offers) -> V]
  BY <1>1, <1>2
<1>4. s \in Seq(V) /\ Len(s) = Len(d.offers)
  <2> HIDE DEF s, V
  <2>1. \A k \in Nat : \A f \in [1 .. k -> V] : f \in Seq(V) /\ Len(f) = k
    OBVIOUS
  <2> QED BY <1>1, <1>3, <2>1
<1>5. n \in 0 .. Len(d.offers)
  BY <1>1 DEF Smaller, ARDC_DEPENDENCY_MAX_SOURCES
<1>6. SubSeq(s, 1, n) \in Seq(V)
  <2> HIDE DEF s, V, n
  <2>1. \A f \in Seq(V) : \A k \in 0 .. Len(f) : SubSeq(f, 1, k) \in Seq(V)
    OBVIOUS
  <2> QED BY <1>4, <1>5, <2>1
<1> QED
  BY <1>6 DEF Offered

(* What has been loaded, in which nothing is resolved or chosen yet.       *)
AsLoaded(c, ds) ==
  /\ Len(ds) \in Nat /\ DOMAIN ds = 1 .. Len(ds)
  /\ \A i \in DOMAIN ds :
       /\ ds[i].srcs \in Seq(c.paths \union {Unknown}) /\ ds[i].chosen = Unknown
       /\ ds[i] = [name |-> ds[i].name, version |-> ds[i].version, resolved |-> FALSE,
                   srcs |-> ds[i].srcs, chosen |-> Unknown]

LEMMA LoadedAre ==
  ASSUME NEW c \in Configs, NEW memory \in BOOLEAN PROVE AsLoaded(c, LoadDependencies(c, memory))
<1> DEFINE ds == LoadDependencies(c, memory)
<1>1. c.deps \in Seq([name : STRING, version : Version, offers : Seq(STRING)])
  BY VersionsAssumption DEF VersionsAssumption
<1>2. Len(c.deps) \in Nat /\ DOMAIN c.deps = 1 .. Len(c.deps)
  BY <1>1
<1>3. ASSUME NEW i \in DOMAIN c.deps PROVE c.deps[i].offers \in Seq(STRING)
  <2>1. ASSUME NEW D, NEW s \in Seq(D), NEW j \in DOMAIN s PROVE s[j] \in D
    OBVIOUS
  <2>2. c.deps[i] \in [name : STRING, version : Version, offers : Seq(STRING)]
    BY <1>1, <2>1, Zenon
  <2> QED BY <2>2
<1>4. DOMAIN ds = 1 .. Len(c.deps)
  BY <1>2 DEF LoadDependencies
<1>5. Len(ds) = Len(c.deps)
  <2>1. \A k \in Nat : \A D : \A f \in [1 .. k -> D] : Len(f) = k
    OBVIOUS
  <2>2. ds \in [1 .. Len(c.deps) -> {ds[i] : i \in 1 .. Len(c.deps)}]
    BY <1>4 DEF LoadDependencies
  <2> HIDE DEF LoadDependencies
  <2> QED BY <1>2, <2>1, <2>2
<1>6. ASSUME NEW i \in DOMAIN ds
      PROVE  /\ ds[i].srcs \in Seq(c.paths \union {Unknown}) /\ ds[i].chosen = Unknown
             /\ ds[i] = [name |-> ds[i].name, version |-> ds[i].version, resolved |-> FALSE,
                         srcs |-> ds[i].srcs, chosen |-> Unknown]
  <2>1. i \in DOMAIN c.deps
    BY <1>2, <1>4
  <2>2. ds[i] = [name |-> c.deps[i].name, version |-> HiWord(c.deps[i].version), resolved |-> FALSE,
                 srcs |-> IF memory THEN Offered(c, c.deps[i]) ELSE <<>>, chosen |-> Unknown]
    BY <2>1 DEF LoadDependencies
  <2>3. Offered(c, c.deps[i]) \in Seq(c.paths \union {Unknown})
    BY <1>3, <2>1, OfferedAre
  <2>4. <<>> \in Seq(c.paths \union {Unknown})
    OBVIOUS
  <2>5. ds[i].srcs \in Seq(c.paths \union {Unknown})
    BY <2>2, <2>3, <2>4
  <2> QED BY <2>2, <2>5
<1> HIDE DEF ds
<1> QED
  BY <1>2, <1>4, <1>5, <1>6, Zenon DEF AsLoaded, ds

LEMMA CheckedAreSolvable ==
  ASSUME NEW c \in Configs, NEW m, NEW memory \in BOOLEAN,
         NEW ds, ds = LoadDependencies(c, memory),
         NEW checked, checked = CheckedDependencies(m, ds),
         Unsolvable(checked) = {}, \A i \in Missing(checked) : checked[i].srcs[1] # Unknown
  PROVE  Solvable(checked, ToSet(LoadSources(ds))) /\ LoadSources(ds) \in Seq(c.paths)
<1> DEFINE V == c.paths
           T == ToSet(LoadSources(ds))
<1>1. /\ Len(ds) \in Nat /\ DOMAIN ds = 1 .. Len(ds)
      /\ \A i \in DOMAIN ds :
           /\ ds[i].srcs \in Seq(V \union {Unknown}) /\ ds[i].chosen = Unknown
           /\ ds[i] = [name |-> ds[i].name, version |-> ds[i].version, resolved |-> FALSE,
                       srcs |-> ds[i].srcs, chosen |-> Unknown]
  <2>1. AsLoaded(c, ds)
    BY LoadedAre
  <2> QED BY <2>1, Zenon DEF AsLoaded
<1>2. DOMAIN checked = DOMAIN ds /\ \A i \in DOMAIN ds : checked[i].srcs = ds[i].srcs
  <2> SUFFICES ASSUME NEW i \in DOMAIN ds PROVE checked[i].srcs = ds[i].srcs
    BY DEF CheckedDependencies
  <2>1. ds[i] = [name |-> ds[i].name, version |-> ds[i].version, resolved |-> FALSE,
                 srcs |-> ds[i].srcs, chosen |-> Unknown]
    BY <1>1
  <2>2. checked[i] = [ds[i] EXCEPT !.resolved = ~(ds[i].version > DllVersion(m.libraries[ds[i].name]))]
    BY DEF CheckedDependencies
  <2> QED BY <2>1, <2>2
<1>3. Len(checked) = Len(ds)
  <2>1. \A k \in Nat : \A D : \A f \in [1 .. k -> D] : Len(f) = k
    OBVIOUS
  <2>2. checked \in [1 .. Len(ds) -> {checked[i] : i \in 1 .. Len(ds)}]
    BY <1>1, <1>2 DEF CheckedDependencies
  <2> HIDE DEF CheckedDependencies
  <2> QED BY <1>1, <2>1, <2>2
<1>4. /\ LoadSources(ds) \in Seq(V)
      /\ \A i \in 1 .. Len(ds) : Known(ds[i].srcs) \subseteq T
  <2> HIDE DEF V
  <2> QED BY <1>1, LoadSourcesLoads
<1>5. Unknown \notin T
  <2>1. T \subseteq V
    BY <1>4 DEF ToSet
  <2> QED BY <2>1, NamesAssumption DEF NamesAssumption
<1>6. ASSUME NEW d \in Missing(checked)
      PROVE  checked[d].srcs[1] \in Known(checked[d].srcs) /\ Known(checked[d].srcs) \subseteq T
  <2>1. d \in DOMAIN ds /\ checked[d].srcs = ds[d].srcs
    BY <1>2 DEF Missing
  <2>2. checked[d].srcs \in Seq(V \union {Unknown})
    BY <1>1, <2>1
  <2>3. ~(ToSet(checked[d].srcs) \subseteq {Unknown})
    BY DEF Unsolvable
  <2>4. 1 \in DOMAIN checked[d].srcs
    <3>1. PICK j \in DOMAIN checked[d].srcs : TRUE
      BY <2>3 DEF ToSet
    <3> QED BY <2>2, <3>1
  <2>5. Known(checked[d].srcs) \subseteq T
    BY <1>1, <1>4, <2>1
  <2> QED BY <2>4, <2>5 DEF Known, ToSet
<1> QED
  BY <1>1, <1>2, <1>3, <1>4, <1>5, <1>6 DEF Solvable

Got(got, ds) ==
  /\ Missing(got.deps) = Missing(ds)
  /\ \A d \in Missing(ds) : /\ got.deps[d].srcs = ds[d].srcs
                            /\ got.deps[d].chosen \in ToSet(ds[d].srcs)
  /\ ToSet(got.list) = {got.deps[d].chosen : d \in Missing(ds)}

(* ard_get_sources() lists the sources that the missing dependencies use.  *)
LEMMA GotIsChosen ==
  ASSUME NEW V, NEW ds, NEW list \in Seq(V), Solvable(ds, ToSet(list)),
         \A d \in DOMAIN ds :
           ds[d] = [name |-> ds[d].name, version |-> ds[d].version, resolved |-> ds[d].resolved,
                    srcs |-> ds[d].srcs, chosen |-> Unknown]
  PROVE  Got(GetSources(ds, list), ds)
<1> DEFINE T == ToSet(list)
           all == AllUsed(ds, list)
           after == [d \in DOMAIN ds |-> [ds[d] EXCEPT !.chosen = all.chosen[d]]]
           M == Missing(ds)
<1>1. Fits(all, ds, T, M)
  <2>1. \A d \in DOMAIN ds : ds[d].chosen = Unknown
    OBVIOUS
  <2> QED BY <2>1, AllUsedFits
<1> HIDE DEF all
<1>2. \A d \in DOMAIN ds : /\ after[d].resolved = ds[d].resolved /\ after[d].srcs = ds[d].srcs
                           /\ after[d].chosen = all.chosen[d]
  <2> SUFFICES ASSUME NEW d \in DOMAIN ds
               PROVE  /\ after[d].resolved = ds[d].resolved /\ after[d].srcs = ds[d].srcs
                      /\ after[d].chosen = all.chosen[d]
    BY Zenon
  <2>1. ds[d] = [name |-> ds[d].name, version |-> ds[d].version, resolved |-> ds[d].resolved,
                 srcs |-> ds[d].srcs, chosen |-> Unknown]
    OBVIOUS
  <2>2. after[d] = [ds[d] EXCEPT !.chosen = all.chosen[d]]
    OBVIOUS
  <2> QED BY <2>1, <2>2
<1>3. DOMAIN after = DOMAIN ds
  OBVIOUS
<1>4. GetSources(ds, list).deps = after /\ GetSources(ds, list).list = Listed(list, all.counters)
  BY DEF GetSources, all
<1> HIDE DEF after
<1>5. Missing(after) = M
  BY <1>2, <1>3 DEF Missing
<1>6. \A d \in M : d \in DOMAIN ds
  BY DEF Missing
<1>7. /\ \A d \in M : all.chosen[d] \in Known(ds[d].srcs)
      /\ all.counters \in [T -> Int]
      /\ \A s \in T : all.counters[s] = Cardinality(Users(all, M, s))
  BY <1>1 DEF Fits, Uses
<1>8. \A d \in M : all.chosen[d] \in ToSet(ds[d].srcs) /\ all.chosen[d] \in T
  BY <1>7 DEF Known, Solvable
<1>9. ToSet(Listed(list, all.counters)) = {s \in T : all.counters[s] > 0}
  BY ListedAre
<1>10. ASSUME NEW s \in T PROVE all.counters[s] > 0 <=> \E d \in M : all.chosen[d] = s
  <2>1. IsFiniteSet(Users(all, M, s))
    <3>1. Len(ds) \in Nat
      BY DEF Solvable
    <3>2. IsFiniteSet(MissingTo(ds, Len(ds)))
      BY <3>1, MissingToIsFinite
    <3>3. MissingTo(ds, Len(ds)) = M
      BY <3>1 DEF MissingTo, Missing, Solvable
    <3>4. Users(all, M, s) \subseteq M
      BY DEF Users
    <3> QED BY <3>2, <3>3, <3>4, FS_Subset
  <2>2. /\ Cardinality(Users(all, M, s)) \in Nat
        /\ Cardinality(Users(all, M, s)) = 0 <=> Users(all, M, s) = {}
    BY <2>1, FS_CardinalityType, FS_EmptySet
  <2>3. all.counters[s] > 0 <=> Users(all, M, s) # {}
    BY <1>7, <2>2
  <2> QED BY <2>3 DEF Users
<1>11. {s \in T : all.counters[s] > 0} = {after[d].chosen : d \in M}
  <2> HIDE DEF T, M
  <2> QED BY <1>2, <1>6, <1>8, <1>10
<1>12. /\ \A d \in M : after[d].srcs = ds[d].srcs /\ after[d].chosen \in ToSet(ds[d].srcs)
       /\ ToSet(Listed(list, all.counters)) = {after[d].chosen : d \in M}
  BY <1>2, <1>6, <1>8, <1>9, <1>11
<1> QED
  BY <1>4, <1>5, <1>12 DEF Got

------------------------------------------------------------------------------
(* What the offer rests on until it is made: the table has the sources of  *)
(* the dependencies, which have not been chosen among yet.  Nothing is     *)
(* offered before.                                                         *)
SourcesLoaded ==
  phase = "check" =>
    \E memory \in BOOLEAN : deps = LoadDependencies(config, memory) /\ table = LoadSources(deps)

NoWindowYet == phase \in {"load", "check"} => window = "none"

OfferInv == config \in Configs /\ SourcesLoaded /\ NoWindowYet /\ OffersWhatIsMissing

LEMMA InitEstablishesOffer == Init => OfferInv
BY DEF Init, OfferInv, SourcesLoaded, NoWindowYet, OffersWhatIsMissing

LEMMA SelectOffers == ASSUME OfferInv, Select PROVE OffersWhatIsMissing'
<1> SUFFICES ASSUME FirstSourcesKnown'
             PROVE  /\ \A i \in Missing(deps') : deps'[i].chosen \in ToSet(deps'[i].srcs)
                    /\ ToSet(sources') = {deps'[i].chosen : i \in Missing(deps')}
  BY DEF OffersWhatIsMissing, ToSet
<1> DEFINE checked == CheckedDependencies(machine, deps)
           got == GetSources(checked, table)
<1>1. Missing(checked) # {} /\ Unsolvable(checked) = {} /\ deps' = got.deps /\ sources' = got.list
  BY DEF Select
<1>2. PICK memory \in BOOLEAN : deps = LoadDependencies(config, memory) /\ table = LoadSources(deps)
  BY DEF OfferInv, SourcesLoaded, Select, Check
<1>3. config \in Configs
  BY DEF OfferInv
<1>4. ASSUME NEW d \in DOMAIN checked
      PROVE  checked[d] = [name |-> checked[d].name, version |-> checked[d].version,
                           resolved |-> checked[d].resolved,
                           srcs |-> checked[d].srcs, chosen |-> Unknown]
  <2>1. d \in DOMAIN deps
    BY DEF CheckedDependencies
  <2>2. deps[d] = [name |-> deps[d].name, version |-> deps[d].version, resolved |-> FALSE,
                   srcs |-> deps[d].srcs, chosen |-> Unknown]
    <3>1. AsLoaded(config, deps)
      BY <1>2, <1>3, LoadedAre
    <3> QED BY <2>1, <3>1, Zenon DEF AsLoaded
  <2>3. checked[d] = [deps[d] EXCEPT !.resolved =
                        ~(deps[d].version > DllVersion(machine.libraries[deps[d].name]))]
    BY <2>1 DEF CheckedDependencies
  <2> QED BY <2>2, <2>3
<1>5. \A d \in DOMAIN checked : got.deps[d].srcs = checked[d].srcs
                                /\ got.deps[d].resolved = checked[d].resolved
  <2> SUFFICES ASSUME NEW d \in DOMAIN checked
               PROVE  got.deps[d].srcs = checked[d].srcs /\ got.deps[d].resolved = checked[d].resolved
    OBVIOUS
  <2>1. checked[d] = [name |-> checked[d].name, version |-> checked[d].version,
                      resolved |-> checked[d].resolved,
                      srcs |-> checked[d].srcs, chosen |-> Unknown]
    BY <1>4
  <2> HIDE DEF checked
  <2>2. \E c : got.deps[d] = [checked[d] EXCEPT !.chosen = c]
    BY DEF GetSources
  <2> QED BY <2>1, <2>2
<1>6. \A d \in Missing(checked) : checked[d].srcs[1] # Unknown
  <2>1. DOMAIN got.deps = DOMAIN checked
    BY DEF GetSources
  <2> HIDE DEF got, checked
  <2> QED BY <1>1, <1>5, <2>1 DEF FirstSourcesKnown, Missing
<1>7. Solvable(checked, ToSet(table)) /\ table \in Seq(config.paths)
  <2> HIDE DEF got
  <2> QED BY <1>1, <1>2, <1>3, <1>6, CheckedAreSolvable
<1> HIDE DEF checked
<1>8. /\ Missing(got.deps) = Missing(checked)
      /\ \A d \in Missing(checked) : /\ got.deps[d].srcs = checked[d].srcs
                                     /\ got.deps[d].chosen \in ToSet(checked[d].srcs)
      /\ ToSet(got.list) = {got.deps[d].chosen : d \in Missing(checked)}
  <2>1. Got(got, checked)
    BY <1>4, <1>7, GotIsChosen
  <2> QED BY <2>1 DEF Got
<1> QED
  BY <1>1, <1>8

(* What leaves the dependencies and the list alone, or closes the window.  *)
LEMMA StepKeepsOffer ==
  ASSUME OfferInv, UNCHANGED given, phase' # "load", phase' # "check",
         \/ UNCHANGED <<deps, sources, window>>
         \/ window' # "open"
  PROVE  OfferInv'
BY DEF OfferInv, SourcesLoaded, NoWindowYet, OffersWhatIsMissing, FirstSourcesKnown

LEMMA NextKeepsOffer == OfferInv /\ [Next]_vars => OfferInv'
<1> SUFFICES ASSUME OfferInv, [Next]_vars PROVE OfferInv'
  OBVIOUS
<1> USE DEF model
<1>1. CASE LoadFails
  BY <1>1, StepKeepsOffer DEF LoadFails
<1>2. CASE Load
  BY <1>2 DEF Load, OfferInv, SourcesLoaded, NoWindowYet, OffersWhatIsMissing
<1>3. CASE DieOfSystem \/ DieOfDependencies \/ Run
  <2>1. phase = "check"
    BY <1>3 DEF DieOfSystem, DieOfDependencies, Run, CheckDependencies, Check
  <2>2. window' # "open" /\ UNCHANGED given /\ phase' = "pump"
    BY <1>3, <2>1 DEF DieOfSystem, DieOfDependencies, Die, Run, OfferInv, NoWindowYet
  <2> QED BY <2>2, StepKeepsOffer
<1>4. CASE Select
  BY <1>4, SelectOffers DEF Select, OfferInv, SourcesLoaded, NoWindowYet
<1>5. CASE ClickInstall \/ OtherMessage \/ CloseWindow
  <2>1. UNCHANGED <<given, phase, model>> /\ phase = "pump" /\ (UNCHANGED window \/ window' # "open")
    BY <1>5 DEF ClickInstall, OtherMessage, CloseWindow, Idle, Dispatching
  <2> QED BY <2>1, StepKeepsOffer
<1>6. ASSUME NEW button \in {"rundos", "ie"}, ClickLaunch(button) PROVE OfferInv'
  BY <1>6, StepKeepsOffer DEF ClickLaunch, Dispatching
<1>7. CASE InstallerSucceeds \/ InstallerFails \/ BoxClosed
  BY <1>7, StepKeepsOffer DEF InstallerSucceeds, InstallerFails, BoxClosed
<1>8. CASE Exit
  <2>1. UNCHANGED given /\ phase' = "exited" /\ window' # "open"
    BY <1>8 DEF Exit
  <2> QED BY <2>1, StepKeepsOffer
<1>9. CASE UNCHANGED vars
  BY <1>9 DEF vars, OfferInv, SourcesLoaded, NoWindowYet, OffersWhatIsMissing, FirstSourcesKnown
<1> QED
  BY <1>1, <1>2, <1>3, <1>4, <1>5, <1>6, <1>7, <1>8, <1>9 DEF Next

(* The window offers exactly the sources that the missing dependencies     *)
(* name and use, whichever they share (ard_get_sources() of deps.c).       *)
THEOREM OfferIsWhatIsMissing == Spec => []OffersWhatIsMissing
<1>1. OfferInv => OffersWhatIsMissing
  BY DEF OfferInv
<1> QED
  BY InitEstablishesOffer, NextKeepsOffer, <1>1, PTL DEF Spec

==============================================================================
