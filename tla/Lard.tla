-------------------------------- MODULE Lard --------------------------------
(***************************************************************************)
(* The launcher, which checks what the application needs and installs what *)
(* is missing: ard/src/winmain.c with the actions of ard/src/action.  Its  *)
(* only thread takes a message at a time, and after each looks after the   *)
(* installation, in which it waits for an installer to end or for the next *)
(* message.                                                                *)
(*                                                                         *)
(* A message box is answered before anything else happens, except for the  *)
(* one about a failed installation, behind which the window goes on: it    *)
(* has no owner.  WM_QUIT is taken before any input.                       *)
(***************************************************************************)
EXTENDS LardConfig

CONSTANTS
  Machines, Configs,
  None            \* no installer

ASSUME MachinesAssumption ==
  \A m \in Machines, c \in Configs :
    /\ \A i \in DOMAIN c.deps : c.deps[i].name \in DOMAIN m.libraries
    /\ m.registered \in BOOLEAN /\ m.nt \in BOOLEAN /\ m.emulates \in BOOLEAN
(* Versions are words whose first two parts are bytes: what lard.ini says  *)
(* beyond that is cut, and compares as if it were 255.                     *)
Words == 0 .. MAXWORD
Bytes == 0 .. MAXBYTE
Version == {v \in Seq(Words) : Part(v, 1) \in Bytes /\ Part(v, 2) \in Bytes}
Short == {v \in Version : Len(v) = 2}
FileInfo == {v \in Version : Len(v) \in {0, 4}}
SettingOf(values) == [local : values, global : values]
ASSUME VersionsAssumption ==
  /\ \A m \in Machines :
       /\ m.windows \in Short /\ m.pack \in Short
       /\ m.versionEx \in {"none", "short", "long"}
       /\ m.url \in FileInfo
       /\ \A name \in DOMAIN m.libraries : m.libraries[name] \in FileInfo
  /\ \A c \in Configs :
       /\ {c.win, c.winnt, c.complete} \subseteq SettingOf(Version)
       /\ c.deps \in Seq([name : STRING, version : Version, offers : Seq(STRING)])
       /\ \A p \in c.packs : p.windows \in Short /\ p.pack \in Version
       /\ \A p, q \in c.packs : p.nt = q.nt /\ p.windows = q.windows => p = q
ASSUME NamesAssumption == \A c \in Configs : None \notin c.paths /\ Unknown \notin c.paths

VARIABLES
  machine, config,
  phase,          \* "load", "check", "pump" or "exited"
  deps, table,    \* cfg->deps, cfg->srcs
  sources,        \* sources_, the list to install
  window,         \* "none", "open" or "destroyed"
  quit,           \* the message WM_QUIT: "none", or posted, "ok" or "bad"
  started, next,  \* has_started_, and src_ as an index of sources, or zero
  child,          \* child_, the source whose installer runs
  box,            \* the exit code that the box about a failure is open for
  launched,       \* history: what has been launched
  installed       \* history: what this attempt has installed so far

given == <<machine, config>>
model == <<deps, table, sources>>
install == <<started, next, child, box, installed>>
vars == <<given, phase, model, window, quit, install, launched>>

------------------------------------------------------------------------------
Init ==
  /\ machine \in Machines /\ config \in Configs
  /\ phase = "load" /\ deps = <<>> /\ table = <<>> /\ sources = <<>>
  /\ window = "none" /\ quit = "none"
  /\ started = FALSE /\ next = 0 /\ child = None /\ box = "none"
  /\ launched = {} /\ installed = <<>>

(* ardc_load(): the dependencies are too many, or there is no memory.      *)
LoadFails ==
  /\ phase = "load"
  /\ phase' = "exited" /\ quit' = "bad"
  /\ UNCHANGED <<given, model, window, install, launched>>

Load ==
  /\ phase = "load"
  /\ \E memory \in BOOLEAN : deps' = LoadDependencies(config, memory)
  /\ table' = LoadSources(deps')
  /\ phase' = "check"
  /\ UNCHANGED <<given, sources, window, quit, install, launched>>

------------------------------------------------------------------------------
(* arda_rundos_available(): not in a 64-bit build, and not on a 64-bit     *)
(* system, which emulates the launcher itself.                             *)
RunDosAvailable ==
  /\ machine.arch # "x64" /\ Setting(config.rundos) # <<>>
  /\ machine.arch = "x86" => ~machine.emulates

(* arda_exec(), which arda_run() and arda_rundos() use, and arda_instie(): *)
(* the program is launched or not, and the launcher is to end.             *)
Posted(ok) == IF ok THEN "ok" ELSE "bad"
Exec(what, ok) == launched' = (IF ok THEN launched \union {what} ELSE launched)

(* die_with_rundos(): nothing ends the launcher when the offer is refused. *)
Die ==
  /\ phase' = "pump"
  /\ \/ RunDosAvailable /\ \E ok \in BOOLEAN : Exec("rundos", ok) /\ quit' = Posted(ok)
     \/ UNCHANGED <<launched, quit>>
  /\ UNCHANGED <<given, table, sources, window, install>>

(* What WinMain() finds wrong, in this order.                              *)
OldCpu == LevelOf(config.cpu) > CpuLevel(machine)
(* Mutant: a version of IE that is not configured counts, too.             *)
AnyIe ==
  IeAvailable(machine) /\ LongVersion(config.complete, 0) <= IeVersion(machine)
Complete ==
  /\ LongVersion(config.complete, 0) # 0
  /\ IeAvailable(machine)
  /\ LongVersion(config.complete, 0) <= IeVersion(machine)
OldWindows ==
  ShortVersion(IF machine.nt THEN config.winnt ELSE config.win, MAKEWORD(4, 0))
    > WindowsVersion(machine)
OldServicePack == Ossp(config, machine) > ServicePack(machine)

Check == phase = "check"
Suits == ~OldCpu /\ (Complete \/ (~OldWindows /\ ~OldServicePack))

DieOfSystem ==
  /\ Check /\ ~Suits
  /\ Die
  /\ UNCHANGED deps

CheckDependencies == Check /\ Suits /\ ~Complete /\ deps' = CheckedDependencies(machine, deps)

(* No known source installs what is missing, or there is no memory to make *)
(* the list.                                                               *)
DieOfDependencies ==
  /\ CheckDependencies /\ Missing(deps') # {}
  /\ Die

(* Nothing is missing, or a version of IE comes with everything.           *)
Run ==
  /\ \/ Check /\ Suits /\ Complete /\ UNCHANGED deps
     \/ CheckDependencies /\ Missing(deps') = {}
  /\ phase' = "pump"
  /\ \E ok \in BOOLEAN : Exec("run", ok) /\ quit' = Posted(ok)
  /\ UNCHANGED <<given, table, sources, window, install>>

(* arda_select(): the window opens, or there is no memory for its text, or *)
(* it cannot be created, which nobody is told.                             *)
Select ==
  /\ Check /\ Suits /\ ~Complete
  /\ LET checked == CheckedDependencies(machine, deps)
         got == GetSources(checked, table)
     IN  /\ Missing(checked) # {} /\ Unsolvable(checked) = {}
         /\ deps' = got.deps /\ sources' = got.list
  /\ phase' = "pump"
  /\ \/ window' = "open" /\ UNCHANGED quit
     \/ window' = "none" /\ quit' \in {"ok", "none"}
  /\ UNCHANGED <<given, table, install, launched>>

------------------------------------------------------------------------------
(* arda_instredist_handle() after a message has been dispatched, which has *)
(* posted WM_QUIT or not: the next installer is started if none runs, or   *)
(* it is waited for.                                                       *)
Handled(begun, at, posted) ==
  /\ next' = at
  /\ IF ~begun \/ at \notin DOMAIN sources
     THEN started' = FALSE /\ quit' = posted /\ UNCHANGED child
     ELSE IF child # None THEN started' = TRUE /\ quit' = posted /\ UNCHANGED child
     ELSE \/ child' = sources[at] /\ started' = TRUE /\ quit' = posted
          \/ started' = FALSE /\ quit' = "bad" /\ UNCHANGED child
  /\ UNCHANGED box

(* The messages of the window.  The loop of a box does not look after the  *)
(* installation.                                                           *)
Dispatching == phase = "pump" /\ window = "open" /\ quit = "none"
Idle == Dispatching /\ box = "none"
HandledOrNot(posted) ==
  IF box = "none" THEN Handled(started, next, posted)
  ELSE quit' = posted /\ UNCHANGED <<started, next, child, box>>

(* arda_instredist(): it is not begun while it runs.  What it answers is   *)
(* never zero, so that the application is not run after it.                *)
(* Mutant: it can be begun at any time.                                    *)
AnyTime == TRUE
MayInstall == ~started

ClickInstall ==
  /\ Idle
  /\ IF MayInstall THEN Handled(TRUE, 1, quit) /\ installed' = <<>>
     ELSE Handled(started, next, quit) /\ UNCHANGED installed
  /\ UNCHANGED <<given, phase, model, window, launched>>

(* The other buttons, of which a started installation goes on.             *)
Offers(button) ==
  CASE button = "rundos" -> RunDosAvailable
    [] button = "ie" -> LongVersion(config.offer, 0) > IeVersion(machine)

ClickLaunch(button) ==
  /\ Dispatching /\ Offers(button)
  /\ \E ok \in BOOLEAN : Exec(button, ok) /\ HandledOrNot(Posted(ok))
  /\ UNCHANGED <<given, phase, model, window, installed>>

(* WM_DESTROY                                                              *)
CloseWindow ==
  /\ Dispatching
  /\ window' = "destroyed" /\ HandledOrNot("ok")
  /\ UNCHANGED <<given, phase, model, installed, launched>>

(* Any other message.                                                      *)
OtherMessage ==
  /\ Idle
  /\ Handled(started, next, quit)
  /\ UNCHANGED <<given, phase, model, window, installed, launched>>

(* The installer that is waited for ends.  The one after it is started     *)
(* after the next message only.                                            *)
InstallerSucceeds ==
  /\ phase = "pump" /\ child # None
  /\ child' = None /\ next' = next + 1 /\ installed' = Append(installed, child)
  /\ UNCHANGED <<given, phase, model, window, quit, started, box, launched>>

InstallerFails ==
  /\ phase = "pump" /\ child # None
  /\ child' = None /\ box' \in {"error", "crash"}
  /\ UNCHANGED <<given, phase, model, window, quit, started, next, installed, launched>>

(* The answer is minus the exit code, which is negative and ends the       *)
(* launcher unless the code is 2^31 or more, as of an unhandled exception. *)
BoxClosed ==
  /\ phase = "pump" /\ box # "none"
  /\ box' = "none" /\ started' = FALSE
  /\ quit' = IF box = "error" THEN "bad" ELSE quit
  /\ UNCHANGED <<given, phase, model, window, next, child, installed, launched>>

(* WM_QUIT, and what WinMain() cleans up.  An installer may go on.         *)
Exit ==
  /\ phase = "pump" /\ quit # "none" /\ box = "none"
  /\ phase' = "exited" /\ sources' = <<>>
  /\ window' = IF window = "open" THEN "destroyed" ELSE window
  /\ UNCHANGED <<given, deps, table, quit, install, launched>>

Next ==
  \/ LoadFails \/ Load
  \/ DieOfSystem \/ DieOfDependencies \/ Run \/ Select
  \/ ClickInstall \/ CloseWindow \/ OtherMessage
  \/ \E button \in {"rundos", "ie"} : ClickLaunch(button)
  \/ InstallerSucceeds \/ InstallerFails \/ BoxClosed \/ Exit

Spec == Init /\ [][Next]_vars

------------------------------------------------------------------------------
AtLeast(v, w) ==
  LET part(i) == Part(v, i) - Part(w, i)
  IN  part(1) > 0 \/ (part(1) = 0 /\ part(2) >= 0)

(* The application itself is launched only where everything is there that  *)
(* lard.ini and its documentation ask for (winmain.c over version/ and     *)
(* config.c): the processor, and either a version of IE that brings the    *)
(* rest or the version of Windows, its service pack and every library,     *)
(* compared part by part.                                                  *)
RunsOnlyWhenMet ==
  "run" \in launched =>
    /\ LevelOf(config.cpu) <= CpuLevel(machine)
    /\ \/ /\ Setting(config.complete) # <<>> /\ machine.registered
          /\ AtLeast(machine.url, Setting(config.complete))
       \/ /\ \A s \in {IF machine.nt THEN config.winnt ELSE config.win} :
               AtLeast(machine.windows, IF Setting(s) = <<>> THEN <<4, 0>> ELSE Setting(s))
          /\ \A p \in config.packs :
               p.nt = machine.nt /\ p.windows = machine.windows
                 => AtLeast(<<ServicePack(machine) \div 256, ServicePack(machine) % 256>>, p.pack)
          /\ \A i \in DOMAIN config.deps :
               AtLeast(machine.libraries[config.deps[i].name], config.deps[i].version)

(* What the window offers to install is what the missing libraries need:   *)
(* of each one a source that it names, and nothing that none of them uses  *)
(* any more (ard_get_sources()).  A library whose first source is not      *)
(* known makes the code count outside of its counters.                     *)
FirstSourcesKnown == \A i \in Missing(deps) : deps[i].srcs[1] # Unknown
OffersWhatIsMissing ==
  window = "open" /\ FirstSourcesKnown =>
    /\ \A i \in Missing(deps) : deps[i].chosen \in {deps[i].srcs[j] : j \in DOMAIN deps[i].srcs}
    /\ {sources[i] : i \in DOMAIN sources} = {deps[i].chosen : i \in Missing(deps)}

(* Installers run one at a time and in the order of the list, each one     *)
(* only after all before it have succeeded in the same attempt, whatever   *)
(* is clicked in between (instredist.c with the loop of winmain.c).        *)
InstallsInOrder ==
  phase = "pump" =>
    /\ child # None => started /\ next \in DOMAIN sources /\ child = sources[next]
    /\ started => /\ Len(installed) = next - 1
                  /\ \A i \in DOMAIN installed : installed[i] = sources[i]
    /\ ~started => child = None

==============================================================================
