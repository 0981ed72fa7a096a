----------------------------- MODULE LardConfig -----------------------------
(***************************************************************************)
(* The launcher's configuration, ard/src/config.c, and how it finds what   *)
(* to install, ard/src/deps.c.  A configuration is a record of what        *)
(* lard.ini says, globally and for a locale; a setting that is absent is   *)
(* an empty sequence.  The index of a source is that source's name.        *)
(***************************************************************************)
EXTENDS LardSystem, Integers, SequencesExt

CONSTANTS
  Unknown         \* the index -1

ARDC_DEPENDENCY_MAX_SOURCES == 3

(* get_profile_string(): the localized file comes first.                   *)
Setting(s) == IF s.local # <<>> THEN s.local ELSE s.global

(* ardc_parse_version(): a missing part is zero, a large one is cut.       *)
Part(v, i) == IF i <= Len(v) THEN v[i] ELSE 0
HiWord(v) == MAKEWORD(Smaller(MAXBYTE, Part(v, 1)), Smaller(MAXBYTE, Part(v, 2)))
ParseVersion(v) == HiWord(v) * (MAXWORD + 1) + Smaller(MAXWORD, Part(v, 3))

(* load_long_version() and load_short_version()                            *)
LongVersion(s, default) == IF Setting(s) = <<>> THEN default ELSE ParseVersion(Setting(s))
ShortVersion(s, default) == IF Setting(s) = <<>> THEN default ELSE HiWord(Setting(s))

(* The service pack that is asked for of this version of Windows: the key  *)
(* has its name, and whether it is NT.                                     *)
Ossp(c, m) ==
  LET mine == {p \in c.packs : p.nt = m.nt /\ MAKEWORD(p.windows[1], p.windows[2])
                                              = WindowsVersion(m)}
  IN  IF mine = {} THEN 0 ELSE HiWord((CHOOSE p \in mine : TRUE).pack)

------------------------------------------------------------------------------
(* load_source(): a source without a path is not known.                    *)
LoadSource(c, name) == IF name \in c.paths THEN name ELSE Unknown

(* load_dependencies() and load_sources(): every dependency gets the first *)
(* of its sources, in the table in the order in which they are met.  The   *)
(* sources may find no memory, and then there are none.                    *)
Offered(c, d) ==
  SubSeq([i \in DOMAIN d.offers |-> LoadSource(c, d.offers[i])],
         1, Smaller(Len(d.offers), ARDC_DEPENDENCY_MAX_SOURCES))

LoadDependencies(c, memory) ==
  [i \in DOMAIN c.deps |->
     [name |-> c.deps[i].name, version |-> HiWord(c.deps[i].version), resolved |-> FALSE,
      srcs |-> IF memory THEN Offered(c, c.deps[i]) ELSE <<>>, chosen |-> Unknown]]

AddSource(table, src) ==
  IF src = Unknown \/ src \in ToSet(table) THEN table ELSE Append(table, src)

AddSources(table, srcs) ==
  LET added[n \in 0 .. Len(srcs)] ==
        IF n = 0 THEN table ELSE AddSource(added[n - 1], srcs[n])
  IN  added[Len(srcs)]

LoadSources(deps) ==
  LET loaded[n \in 0 .. Len(deps)] ==
        IF n = 0 THEN <<>> ELSE AddSources(loaded[n - 1], deps[n].srcs)
  IN  loaded[Len(deps)]

------------------------------------------------------------------------------
(* ard_check_dependencies()                                                *)
CheckedDependencies(m, deps) ==
  [i \in DOMAIN deps |->
     [deps[i] EXCEPT !.resolved = ~(deps[i].version > DllVersion(m.libraries[deps[i].name]))]]

Missing(deps) == {i \in DOMAIN deps : ~deps[i].resolved}

(* ard_check_sources(): whether something is missing for good.             *)
Unsolvable(deps) == {i \in Missing(deps) : ToSet(deps[i].srcs) \subseteq {Unknown}}

MightUse(dep, src) == ~dep.resolved /\ src \in ToSet(dep.srcs)

(* ard_get_sources(): from top to bottom, a dependency uses its first      *)
(* source, and those above change to it if they can.  Counting at -1 hits  *)
(* what is before the counters; what comes of it is left out.              *)
Counted(counters, src, n) ==
  IF src = Unknown THEN counters ELSE [counters EXCEPT ![src] = @ + n]

Use(used, i, src) ==
  [chosen |-> [used.chosen EXCEPT ![i] = src], counters |-> Counted(used.counters, src, 1)]

(* Mutant: the source that is changed from is not counted down.            *)
UsedTwice(used, j, src) == Use(used, j, src)
Changed(used, j, src) ==
  Use([used EXCEPT !.counters = Counted(@, used.chosen[j], -1)], j, src)

Used(deps, used, i) ==
  LET src == deps[i].srcs[1]
      above[j \in 0 .. i - 1] ==
        IF j = 0 THEN Use(used, i, src)
        ELSE IF MightUse(deps[j], src) THEN Changed(above[j - 1], j, src) ELSE above[j - 1]
  IN  IF deps[i].resolved THEN used ELSE above[i - 1]

Unused(deps, table) ==
  [chosen |-> [i \in DOMAIN deps |-> deps[i].chosen], counters |-> [s \in ToSet(table) |-> 0]]
AllUsed(deps, table) ==
  LET used[i \in 0 .. Len(deps)] ==
        IF i = 0 THEN Unused(deps, table) ELSE Used(deps, used[i - 1], i)
  IN  used[Len(deps)]

(* The sources in the order of the table that are counted at all.          *)
Listed(table, counters) ==
  LET list[n \in 0 .. Len(table)] ==
        IF n = 0 THEN <<>>
        ELSE IF counters[table[n]] > 0 THEN Append(list[n - 1], table[n]) ELSE list[n - 1]
  IN  list[Len(table)]

GetSources(deps, table) ==
  LET all == AllUsed(deps, table)
  IN  [deps |-> [i \in DOMAIN deps |-> [deps[i] EXCEPT !.chosen = all.chosen[i]]],
       list |-> Listed(table, all.counters)]

==============================================================================
