---------------------------- MODULE MCSlideshow ----------------------------
(* All archives whose root script has at most MainLength entries of any    *)
(* kind, or one more that steers, with a nested script and an encrypted    *)
(* one, called with its method or without, out of a few shapes, and some   *)
(* longer shows.                                                           *)
EXTENDS Slideshow, SequencesExt

CONSTANT MainLength

MCRects == {<<0, 0, 1, 1>>, <<0, 0, 2, 1>>, <<1, 0, 1, 1>>}
MCPoints == {<<0, 0>>, <<1, 0>>, <<2, 0>>}

E(kind) == [kind |-> kind, delayed |-> FALSE, arg |-> "a", value |-> 0, rect |-> ZeroRect]
Late(e) == [e EXCEPT !.delayed = TRUE]
Define(r, g) == [E("area") EXCEPT !.rect = r, !.value = g]
If(v) == [E("jumpe") EXCEPT !.value = v]
Call(f) == [E("call") EXCEPT !.arg = f]
Unlock(f) == [E("call") EXCEPT !.arg = f, !.value = 1]
MCNoise == <<E("malformed")>>
Unknown == [E("query") EXCEPT !.value = UINT16_MAX]

MainEntries ==
  {Late(E("output")), E("wait"), Define(<<0, 0, 1, 1>>, 7), E("clear"), E("query"),
   Unknown, If(7), If(UINT16_MAX), E("label"), E("jump"), Call("sub"), Unlock("vault"),
   Call("vault"), E("malformed")}

Steering == {E("wait"), Unknown, If(UINT16_MAX), E("label"), E("jump"), Call("sub"), Unlock("vault")}

SubScripts == {<<E("blank"), E("wait")>>, <<Unlock("vault")>>, <<E("malformed")>>,
               <<E("wait"), Call("sub")>>, <<E("jump"), E("output")>>}
VaultScripts == {<<E("wait")>>, <<Unknown, Call("sub")>>}

Archive(main, sub, vault) ==
  [f \in {"main", "sub", "vault"} |->
     CASE f = "main" -> main [] f = "sub" -> sub [] f = "vault" -> vault]

(* A menu: two areas, a loop around the wait, hovers and clicks told apart. *)
Menu == <<Define(<<0, 0, 1, 1>>, 7), Define(<<0, 0, 2, 1>>, 9), E("label"), E("wait"),
          If(HOVER), If(HOVER + 7), If(HOVER + 9), Call("sub"), Define(<<0, 0, 2, 1>>, 0)>>
(* Jumps across a malformed line, to a missing label and past the end. *)
Detour == <<If(0), E("output"), E("label"), Unlock("sub"), E("malformed"), E("label")>>
(* A loop around an unlock, and one that never rests. *)
Retry == <<E("label"), Unlock("vault"), If(UINT16_MAX), E("wait")>>
Spin == <<Late(E("output")), E("label"), E("query"), E("jump")>>
(* More areas than the table has slots. *)
Crowd == <<Define(<<0, 0, 1, 1>>, 7), Define(<<0, 0, 2, 1>>, 0), Define(<<0, 0, 2, 1>>, 9), Define(<<1, 0, 1, 1>>, 7)>>

Shows ==
  LET mains == SeqOf(MainEntries, MainLength) \union SeqOf(Steering, MainLength + 1)
                 \union {Menu, Detour, Retry, Spin, Crowd}
  IN  {Archive(m, s, v) : m \in mains, s \in SubScripts, v \in VaultScripts}
==============================================================================
