----------------------------- MODULE LardSystem -----------------------------
(***************************************************************************)
(* What the launcher finds out about the machine: ard/src/version.  A      *)
(* machine is a record of what Windows answers: a version is a sequence of *)
(* its parts, an absent library or function a part of zeros.               *)
(***************************************************************************)
EXTENDS Naturals, Sequences

MAXBYTE == 255
MAXWORD == 65535

Smaller(a, b) == IF a < b THEN a ELSE b

MAKEWORD(major, minor) == major * 256 + minor
Swapped(word) == MAKEWORD(word % 256, word \div 256)

------------------------------------------------------------------------------
(* ardv_windows_get_version(): the low word of GetVersion(), which has the *)
(* major version in its low byte.                                          *)
GetVersion(m) == MAKEWORD(m.windows[2], m.windows[1])
WindowsVersion(m) == Swapped(GetVersion(m))

(* ardv_windows_get_servicepack(): which of the forms of GetVersionEx() is *)
(* there; the short one has a letter for an edition of Windows 9x and the  *)
(* number of a service pack of NT.                                         *)
ServicePack(m) ==
  CASE m.versionEx = "none" -> 0
    [] m.versionEx = "long" -> MAKEWORD(m.pack[1], m.pack[2])
    [] m.versionEx = "short" ->
         CASE m.csd = " A" -> MAKEWORD(1, 0)
           [] m.csd = " B" -> MAKEWORD(2, 0)
           [] m.csd = " C" -> MAKEWORD(2, 5)
           [] m.csd = "Service Pack" -> MAKEWORD(m.pack[1], 0)
           [] OTHER -> 0

(* ardv_cpu_get_level(), of an IA-32 build, and of the others.             *)
Levels == <<"i386", "i486", "p5", "p6", "sse", "sse2", "x64">>
LevelOf(name) ==
  IF \E i \in DOMAIN Levels : Levels[i] = name
  THEN CHOOSE i \in DOMAIN Levels : Levels[i] = name
  ELSE 2      \* ardv_cpu_from_string(), ARDV_CPU_I486 by default

CpuLevel(m) ==
  CASE m.arch = "x64" -> 7
    [] m.arch = "alpha" -> 2
    [] m.processor = "386" -> 1
    [] m.processor = "486" -> 2
    [] m.processor = "pentium" /\ (~m.nt \/ m.level < 6) -> 3
    [] m.processor = "later" /\ m.level < 6 -> 3
    [] OTHER -> CASE m.features = "sse2" -> 6
                  [] m.features = "sse" -> 5
                  [] OTHER -> 4

------------------------------------------------------------------------------
(* ardv_dll_get_version_info(): a version has four words, of which the     *)
(* first two are cut to a byte.  A library that cannot be found, or read   *)
(* for want of memory, has none.                                           *)
HasInfo(file) == file # <<>>
Info(file) ==
  [major |-> Smaller(MAXBYTE, file[1]), minor |-> Smaller(MAXBYTE, file[2]),
   build |-> file[3], patch |-> file[4]]

DllVersion(file) == IF HasInfo(file) THEN MAKEWORD(Info(file).major, Info(file).minor) ELSE 0

(* ardv_ie_get_version() and ardv_ie_available()                           *)
IeVersion(m) ==
  LET info == Info(m.url)
  IN  IF ~HasInfo(m.url) THEN 0
      ELSE MAKEWORD(info.major, info.minor) * (MAXWORD + 1)
           + (IF info.build # 0 THEN info.build ELSE info.patch)
IeAvailable(m) == m.registered

==============================================================================
