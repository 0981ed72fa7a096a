------------------------------- MODULE MCLard -------------------------------
(* Machines from a 386 to one that runs the launcher emulated, and         *)
(* configurations of every kind: with nothing to install, with sources     *)
(* that serve two libraries, that are not known, or known second.          *)
EXTENDS Lard

Machine(cpu, lvl, feat, isNt, win, ex, csd, pack, a, b, url) ==
  [arch |-> "x86", processor |-> cpu, level |-> lvl, features |-> feat, nt |-> isNt,
   windows |-> win, versionEx |-> ex, csd |-> csd, pack |-> pack,
   libraries |-> [a |-> a, b |-> b, c |-> <<>>], url |-> url, registered |-> url # <<>>,
   emulates |-> FALSE]

Nt4 == Machine("pentium", 5, "none", TRUE, <<4, 0>>, "short", "Service Pack", <<3, 0>>,
               <<4, 70, 0, 1300>>, <<4, 20, 0, 0>>, <<4, 70, 0, 1300>>)
MCMachines ==
  {Machine("386", 3, "none", TRUE, <<3, 51>>, "none", "", <<0, 0>>, <<>>, <<>>, <<>>),
   Machine("486", 4, "none", FALSE, <<4, 0>>, "short", " B", <<0, 0>>,
           <<4, 0, 0, 950>>, <<>>, <<4, 40, 0, 308>>),
   Machine("pentium", 5, "none", FALSE, <<4, 10>>, "short", " A", <<0, 0>>,
           <<4, 72, 3110, 0>>, <<6, 0, 8168, 0>>, <<5, 0, 2614, 3500>>),
   Nt4,
   Machine("later", 6, "sse2", TRUE, <<5, 1>>, "long", "", <<2, 0>>,
           <<5, 82, 2900, 2180>>, <<7, 0, 2600, 2180>>, <<6, 0, 2900, 2180>>),
   [Machine("later", 6, "sse", TRUE, <<6, 1>>, "long", "", <<1, 0>>,
            <<5, 82, 7601, 0>>, <<7, 0, 7601, 0>>, <<8, 0, 7601, 0>>) EXCEPT !.emulates = TRUE],
   [Nt4 EXCEPT !.arch = "alpha"],
   [Nt4 EXCEPT !.arch = "x64"]}

No == [local |-> <<>>, global |-> <<>>]
Yes(v) == [local |-> <<>>, global |-> v]
Dep(n, v, offers) == [name |-> n, version |-> v, offers |-> offers]
Plain ==
  [cpu |-> "i486", win |-> No, winnt |-> [local |-> <<3, 51>>, global |-> <<4, 0>>],
   packs |-> {}, complete |-> No, offer |-> No, rundos |-> Yes(<<1>>), paths |-> {"x", "y", "z"},
   deps |-> <<>>]

MCConfigs ==
  {Plain,
   [Plain EXCEPT !.cpu = "sse"],
   [Plain EXCEPT !.cpu = "i386", !.winnt = Yes(<<5, 0>>), !.complete = Yes(<<5>>)],
   [Plain EXCEPT !.win = Yes(<<4, 10>>), !.packs =
      {[nt |-> FALSE, windows |-> <<4, 10>>, pack |-> <<1, 0>>],
       [nt |-> TRUE, windows |-> <<4, 0>>, pack |-> <<4>>],
       [nt |-> FALSE, windows |-> <<4, 0>>, pack |-> <<2, 5>>]}],
   [Plain EXCEPT !.deps = <<Dep("a", <<5, 80>>, <<"x", "y">>), Dep("b", <<4, 20>>, <<"y">>),
                            Dep("c", <<1>>, <<"z", "x">>)>>],
   [Plain EXCEPT !.deps = <<Dep("a", <<4, 71>>, <<"x">>), Dep("b", <<4, 20>>, <<"x", "y">>),
                            Dep("c", <<1>>, <<"y", "u">>)>>, !.offer = Yes(<<5, 50, 4807>>)],
   [Plain EXCEPT !.deps = <<Dep("a", <<5, 80>>, <<"u", "y">>), Dep("b", <<6>>, <<"y", "z", "u", "x">>)>>],
   [Plain EXCEPT !.deps = <<Dep("b", <<4, 20>>, <<"u">>), Dep("c", <<>>, <<>>)>>,
                 !.rundos = No]}

=============================================================================
