------------------------------ MODULE Slideshow ------------------------------
(***************************************************************************)
(* The slideshow interpreter: main.c, sld/runner.c, sld/context.c and the  *)
(* control of sld/call.c, jump.c, query.c, text.c, shape.c and play.c.     *)
(*                                                                         *)
(* main() runs sld_handle() until the root script stops or fails.  Each    *)
(* call handles one step of the script on top of the context stack, and is *)
(* one action here.  A script is a sequence of entries (lines); an offset  *)
(* counts the entries already consumed.                                    *)
(*                                                                         *)
(* Abstracted: pixels, sound and the bytes of a line.  enc_handle(), the   *)
(* module that decrypts a called script, is here the choice of its result. *)
(* A call of sld_handle() that changes nothing (an entry that answers      *)
(* CONTINUE, a wait without input) is a stuttering step.                   *)
(***************************************************************************)
EXTENDS AreaTable, Sequences

CONSTANTS
  Files, Root,    \* the scripts of the archive; Root is slides.txt
  Sealed,         \* the scripts stored encrypted
  Noise,          \* what ciphertext reads as when it is taken for a script
  Labels,
  Programs,       \* the archives considered: what each script contains
  Keystrokes,     \* what pal_get_keystroke answers for a pressed key
  MousePresent,   \* whether the platform has a pointer
  Closable,       \* whether pal_handle can answer false (not on plain DOS)
  MaxDepth        \* how many contexts fit in memory

HOVER == 10000    \* SLD_ACTAREA_HOVER
METHOD_STORE == 0 \* SLD_METHOD_STORE
UINT16_MAX == 65535

Kinds == {"blank", "label", "output", "wait", "area", "clear", "query",
          "jump", "jumpe", "call", "malformed"}

(* A line of a script.  "output" stands for text, bitmaps, rectangles and  *)
(* music, "clear" for the A entry of zeroes, "malformed" for a line that   *)
(* sld_load_entry refuses.  The value of a call is its method.             *)
Entry == [kind : Kinds, delayed : BOOLEAN, arg : Labels \union Files,
          value : 0 .. UINT16_MAX, rect : Rects \union {ZeroRect}]

(* slides.txt is opened without the unlock module: it is never encrypted.  *)
ASSUME ArchiveAssumption == Root \in Files /\ Sealed \subseteq Files \ {Root}

ASSUME ProgramsAssumption == Programs \subseteq [Files -> Seq(Entry)]

WellFormed(e) ==
  /\ e.kind = "area" => e.rect \in Rects /\ e.value \in Tags \union {0}
  /\ e.kind = "call" => e.arg \in Files
ASSUME EntriesAssumption ==
  \A prog \in Programs, f \in Files : \A i \in 1 .. Len(prog[f]) : WellFormed(prog[f][i])

(* Ciphertext does not happen to hold a call of a file of the archive.     *)
ASSUME NoiseAssumption ==
  /\ Noise \in Seq(Entry)
  /\ \A i \in 1 .. Len(Noise) : WellFormed(Noise[i]) /\ Noise[i].kind # "call"

ASSUME InputAssumption ==
  Keystrokes \subseteq 1 .. 511 /\ MousePresent \in BOOLEAN /\ Closable \in BOOLEAN

ASSUME DepthAssumption == MaxDepth \in Nat \ {0}

VARIABLES
  program,      \* the archive's scripts; never changes
  depth,        \* number of contexts on the stack
  frames,       \* the stack: frames[1] is the root, frames[depth] __sld_ctx
  accumulator,  \* __sld_accumulator
  mouse,        \* enabled_ of p-mouse.c
  areas,        \* _areas of actarea.c
  unlocked,     \* the scripts of which some asset holds plain text
  phase         \* "running", then what main() returns

vars == <<program, depth, frames, accumulator, mouse, areas, unlocked, phase>>

------------------------------------------------------------------------------
Errors == {"SYSERR", "ARGERR", "ERRNO"}   \* ERRNO: a status of enc_handle
Negative == Errors \union {"QUIT"}
States == {"LOAD", "EXECUTE", "DELAY", "WAIT", "STOP"} \union Negative

(* A context: script, whether its data is plain text, offset, state, and   *)
(* the state of the call entry in its entry (prepare, decode, enter) with  *)
(* whether the data of the context that it created is plain text.          *)
Frame == [file : Files, plain : BOOLEAN, offset : Nat, state : States,
          call : {"prepare", "decode", "enter"}, callee : BOOLEAN]

(* sld_create_context followed by sld_run. *)
Fresh(f, plain) == [file |-> f, plain |-> plain, offset |-> 0, state |-> "LOAD",
                    call |-> "prepare", callee |-> FALSE]

(* An unused place of the stack. *)
Unused == Fresh(Root, TRUE)

(* What a context reads. *)
TextOf(frame) == IF frame.plain THEN program[frame.file] ELSE Noise

Top == frames[depth]
Script == TextOf(Top)
Current == Script[Top.offset]

SetTop(frame) == frames' = [frames EXCEPT ![depth] = frame]
SetState(s) == SetTop([Top EXCEPT !.state = s])

(* Mutant: the loop looks at the script on top. *)
TopRuns == Top.state \notin Negative \union {"STOP"}

(* The loop condition of main(): the root neither stopped nor failed. *)
RootRuns == frames[1].state \notin Negative \union {"STOP"}
Running == phase = "running" /\ RootRuns

Executing(kind) ==
  /\ Running
  /\ Top.state = "EXECUTE"
  /\ Current.kind = kind

(* Mutant: the label is consumed once more. *)
JumpOffsetLate(l) ==
  LET stops == {i \in DOMAIN Script :
                  \/ Script[i].kind = "malformed"
                  \/ Script[i].kind = "label" /\ Script[i].arg = l}
  IN  IF stops = {} THEN Len(Script)
      ELSE IF Script[Min(stops)].kind = "label" THEN Min(stops) + 1
      ELSE Min(stops) - 1

(* Where _goto_label leaves the offset: after the first such label, or in  *)
(* front of the first malformed line if that comes earlier, or at the end. *)
JumpOffset(l) ==
  LET stops == {i \in DOMAIN Script :
                  \/ Script[i].kind = "malformed"
                  \/ Script[i].kind = "label" /\ Script[i].arg = l}
  IN  IF stops = {} THEN Len(Script)
      ELSE IF Script[Min(stops)].kind = "label" THEN Min(stops)
      ELSE Min(stops) - 1

------------------------------------------------------------------------------
Init ==
  /\ program \in Programs
  /\ depth = 1
  /\ frames = [i \in 1 .. MaxDepth |-> IF i = 1 THEN Fresh(Root, TRUE) ELSE Unused]
  /\ accumulator = 0
  /\ mouse = FALSE
  /\ areas = EmptyTable
  /\ unlocked = Files \ Sealed
  /\ phase = "running"

(* pal_handle answers false: the user closed the window. *)
Close ==
  /\ Running /\ Closable
  /\ Top.state # "QUIT"
  /\ SetState("QUIT")
  /\ UNCHANGED <<program, depth, accumulator, mouse, areas, unlocked, phase>>

(* Mutants: the quit is not handed over; the caller repeats its call; the  *)
(* context of a quit script is not left.                                   *)
LeaveForgetsQuit ==
  /\ Running
  /\ Top.state \in {"STOP", "QUIT"}
  /\ depth' = depth - 1
  /\ frames' = [frames EXCEPT ![depth] = Unused]
  /\ UNCHANGED <<program, accumulator, mouse, areas, unlocked, phase>>

LeaveRepeatsCall ==
  /\ Running
  /\ Top.state \in {"STOP", "QUIT"}
  /\ depth' = depth - 1
  /\ frames' = [frames EXCEPT
                  ![depth] = Unused,
                  ![depth - 1].offset = @ - 1,
                  ![depth - 1].state = IF Top.state = "QUIT" THEN "QUIT" ELSE @]
  /\ UNCHANGED <<program, accumulator, mouse, areas, unlocked, phase>>

LeaveStoppedOnly ==
  /\ Running
  /\ Top.state = "STOP"
  /\ depth' = depth - 1
  /\ frames' = [frames EXCEPT ![depth] = Unused]
  /\ UNCHANGED <<program, accumulator, mouse, areas, unlocked, phase>>

(* A script that stopped returns to its caller; a quit is handed over. *)
Leave ==
  /\ Running
  /\ Top.state \in {"STOP", "QUIT"}
  /\ depth' = depth - 1
  /\ frames' = [frames EXCEPT
                  ![depth] = Unused,
                  ![depth - 1].state = IF Top.state = "QUIT" THEN "QUIT" ELSE @]
  /\ UNCHANGED <<program, accumulator, mouse, areas, unlocked, phase>>

PressKey ==
  /\ Running
  /\ Top.state = "WAIT"
  /\ accumulator' \in Keystrokes
  /\ SetState("LOAD")
  /\ UNCHANGED <<program, depth, mouse, areas, unlocked, phase>>

(* No key: the pointer is asked.  Without a mouse pal_get_mouse leaves the *)
(* coordinates as they were on the C stack, that is, anywhere.             *)
PointAt(p, pressed) ==
  LET tag == Retrieve(areas, p)
  IN  /\ Running
      /\ Top.state = "WAIT"
      /\ pressed => MousePresent
      /\ \/ /\ tag # 0
            /\ accumulator' = IF pressed THEN tag
                              ELSE (HOVER + tag) % (UINT16_MAX + 1)
         \/ /\ tag = 0 /\ accumulator > HOVER
            /\ accumulator' = HOVER
      /\ SetState("LOAD")
      /\ UNCHANGED <<program, depth, mouse, areas, unlocked, phase>>

(* A label has no delay.  A blank line sets none: it is delayed like the   *)
(* entry before it, or by what the memory of a new context holds.          *)
AfterLoad(e) ==
  CASE e.kind = "label" -> {"EXECUTE"}
    [] e.kind = "blank" -> {"EXECUTE", "DELAY"}
    [] OTHER -> {IF e.delayed THEN "DELAY" ELSE "EXECUTE"}

Load ==
  /\ Running
  /\ Top.state = "LOAD"
  /\ LET next == Script[Top.offset + 1]
     IN  \/ /\ Top.offset >= Len(Script)
            /\ SetState("STOP")
         \/ /\ Top.offset < Len(Script)
            /\ next.kind = "malformed"
            /\ SetState("ARGERR")
         \/ /\ Top.offset < Len(Script)
            /\ next.kind # "malformed"
            /\ \E s \in AfterLoad(next) :
                 SetTop([Top EXCEPT !.offset = @ + 1, !.state = s, !.call = "prepare", !.callee = FALSE])
  /\ UNCHANGED <<program, depth, accumulator, mouse, areas, unlocked, phase>>

DelayElapsed ==
  /\ Running
  /\ Top.state = "DELAY"
  /\ SetState("EXECUTE")
  /\ UNCHANGED <<program, depth, accumulator, mouse, areas, unlocked, phase>>

(* Mutant: the state machine is not moved on. *)
ExecuteNothingStays ==
  /\ Executing("blank") \/ Executing("label")
  /\ UNCHANGED vars

ExecuteNothing ==
  /\ Executing("blank") \/ Executing("label")
  /\ SetState("LOAD")
  /\ UNCHANGED <<program, depth, accumulator, mouse, areas, unlocked, phase>>

ExecuteOutput ==
  /\ Executing("output")
  /\ SetState("LOAD") \/ SetState("SYSERR")
  /\ UNCHANGED <<program, depth, accumulator, mouse, areas, unlocked, phase>>

(* Mutant: the pointer is shown only while the accumulator is clear. *)
ExecuteWaitOnce ==
  /\ Executing("wait")
  /\ mouse' = (mouse \/ accumulator = 0)
  /\ SetState("WAIT")
  /\ UNCHANGED <<program, depth, accumulator, areas, unlocked, phase>>

ExecuteWait ==
  /\ Executing("wait")
  /\ mouse' = TRUE
  /\ SetState("WAIT")
  /\ UNCHANGED <<program, depth, accumulator, areas, unlocked, phase>>

ExecuteArea ==
  /\ Executing("area")
  /\ \/ /\ HasRoom(areas, Current.rect)
        /\ areas' = AddArea(areas, Current.rect, Current.value)
        /\ SetState("LOAD")
     \/ /\ ~HasRoom(areas, Current.rect)
        /\ SetState("ARGERR")
        /\ UNCHANGED areas
  /\ UNCHANGED <<program, depth, accumulator, mouse, unlocked, phase>>

ExecuteClear ==
  /\ Executing("clear")
  /\ areas' = ClearAreas(areas)
  /\ SetState("LOAD")
  /\ UNCHANGED <<program, depth, accumulator, mouse, unlocked, phase>>

(* A known query answers 0 or 1, an unknown one UINT16_MAX. *)
ExecuteQuery ==
  /\ Executing("query")
  /\ accumulator' \in IF Current.value = UINT16_MAX THEN {UINT16_MAX} ELSE {0, 1}
  /\ SetState("LOAD")
  /\ UNCHANGED <<program, depth, mouse, areas, unlocked, phase>>

(* The caller ignores what _goto_label returns. *)
TakeJump == SetTop([Top EXCEPT !.offset = JumpOffset(Current.arg), !.state = "LOAD"])

ExecuteJump ==
  /\ Executing("jump")
  /\ TakeJump
  /\ UNCHANGED <<program, depth, accumulator, mouse, areas, unlocked, phase>>

ExecuteJumpIfEqual ==
  /\ Executing("jumpe")
  /\ \/ /\ accumulator = Current.value
        /\ mouse' = (mouse /\ accumulator >= HOVER)
        /\ TakeJump
     \/ /\ accumulator # Current.value
        /\ SetState("LOAD")
        /\ UNCHANGED mouse
  /\ UNCHANGED <<program, depth, accumulator, areas, unlocked, phase>>

(* The first step of a call: the callee's context is created, which fails  *)
(* when the asset cannot be opened or there is no memory for one more.  A  *)
(* decrypted asset stays open, so a later call finds the plain text; but   *)
(* pal_open_asset stops at the first free slot, and then the call gets a   *)
(* second copy, which is encrypted.                                        *)
Copies(f) == {plain \in BOOLEAN : IF plain THEN f \in unlocked ELSE f \in Sealed}

(* Called without a method the data is taken for plain text unchecked;     *)
(* otherwise it is entered at once if its checksum is right, which only    *)
(* plain text has (and has not if the entry gives a wrong one).            *)
AfterPrepare(plain) ==
  IF Current.value = METHOD_STORE THEN {"enter"}
  ELSE {"decode"} \union (IF plain THEN {"enter"} ELSE {})

PrepareCall ==
  /\ Executing("call") /\ Top.call = "prepare"
  /\ \/ /\ depth < MaxDepth
        /\ accumulator' = 0
        /\ \E plain \in Copies(Current.arg) : \E step \in AfterPrepare(plain) :
             SetTop([Top EXCEPT !.call = step, !.callee = plain])
     \/ /\ SetState("SYSERR")
        /\ UNCHANGED accumulator
  /\ UNCHANGED <<program, depth, mouse, areas, unlocked, phase>>

(* Mutant: a denied script is entered. *)
DecodeCallDenied ==
  /\ Executing("call") /\ Top.call = "decode"
  /\ mouse' \in {mouse, FALSE}
  /\ \/ /\ unlocked' = unlocked \union {Current.arg}
        /\ SetTop([Top EXCEPT !.call = "enter", !.callee = TRUE])
     \/ /\ SetTop([Top EXCEPT !.call = "enter"])
        /\ UNCHANGED unlocked
  /\ UNCHANGED <<program, depth, accumulator, areas, phase>>

(* A result of enc_handle.  The unlock dialog hides the pointer on its way *)
(* out, where it draws on the same canvas.                                 *)
DecodeCall ==
  /\ Executing("call") /\ Top.call = "decode"
  /\ mouse' \in {mouse, FALSE}
  /\ \/ /\ unlocked' = unlocked \union {Current.arg}
        /\ SetTop([Top EXCEPT !.call = "enter", !.callee = TRUE])
        /\ UNCHANGED accumulator
     \/ /\ accumulator' = UINT16_MAX       \* -EACCES: no key, skip the script
        /\ SetState("LOAD")
        /\ UNCHANGED unlocked
     \/ /\ SetState("ERRNO")
        /\ UNCHANGED <<accumulator, unlocked>>
  /\ UNCHANGED <<program, depth, areas, phase>>

(* Mutant: the caller is left in the state of its call entry. *)
EnterCallExecuting ==
  /\ Executing("call") /\ Top.call = "enter"
  /\ depth' = depth + 1
  /\ frames' = [frames EXCEPT ![depth + 1] = Fresh(Current.arg, Top.callee)]
  /\ UNCHANGED <<program, accumulator, mouse, areas, unlocked, phase>>

EnterCall ==
  /\ Executing("call") /\ Top.call = "enter"
  /\ depth' = depth + 1
  /\ frames' = [frames EXCEPT
                  ![depth] = [@ EXCEPT !.state = "LOAD", !.call = "prepare", !.callee = FALSE],
                  ![depth + 1] = Fresh(Current.arg, Top.callee)]
  /\ UNCHANGED <<program, accumulator, mouse, areas, unlocked, phase>>

(* A nested script that failed stays on top of the stack.  Its entry was   *)
(* overwritten by the error message (they share a union), so that each     *)
(* further call executes an entry of no known type.                        *)
Flounder ==
  /\ Running
  /\ Top.state \in Errors
  /\ SetState("ARGERR")
  /\ UNCHANGED <<program, depth, accumulator, mouse, areas, unlocked, phase>>

(* main() after its loop. *)
Finish ==
  /\ phase = "running" /\ ~RootRuns
  /\ phase' = IF frames[1].state \in Errors THEN "failure" ELSE "success"
  /\ UNCHANGED <<program, depth, frames, accumulator, mouse, areas, unlocked>>

Finished ==
  /\ phase # "running"
  /\ UNCHANGED vars

Execute ==
  \/ ExecuteNothing \/ ExecuteOutput \/ ExecuteWait
  \/ ExecuteArea \/ ExecuteClear \/ ExecuteQuery
  \/ ExecuteJump \/ ExecuteJumpIfEqual
  \/ PrepareCall \/ EnterCall

(* What the program does by itself, and what takes a user. *)
Step == Leave \/ Load \/ DelayElapsed \/ Execute \/ Flounder \/ Finish

User ==
  \/ Close \/ PressKey \/ DecodeCall
  \/ \E p \in Points, pressed \in BOOLEAN : PointAt(p, pressed)

Next == Step \/ User \/ Finished

Spec == Init /\ [][Next]_vars

(* main() calls sld_handle() again and again; nothing makes the user act. *)
FairSpec == Spec /\ WF_vars(Step)

------------------------------------------------------------------------------
(* Every variable has its type: the stack is never empty nor too deep, and *)
(* the offset never leaves its script (runner.c, context.c).               *)
TypeOK ==
  /\ program \in [Files -> Seq(Entry)]
  /\ depth \in 1 .. MaxDepth
  /\ frames \in [1 .. MaxDepth -> Frame]
  /\ \A i \in 1 .. MaxDepth : frames[i].offset <= Len(TextOf(frames[i]))
  /\ accumulator \in 0 .. UINT16_MAX
  /\ mouse \in BOOLEAN
  /\ areas \in Tables
  /\ unlocked \subseteq Files
  /\ phase \in {"running", "success", "failure"}

(* The call entry a suspended context stands at. *)
CallOf(i) == TextOf(frames[i])[frames[i].offset]

(* Whatever the nested script did - jumps, waits, areas, calls of its own, *)
(* a quit -, each suspended caller is about to load the entry that follows *)
(* the call of exactly the script above it (call.c:190-197, runner.c:272). *)
CallersWaitAtTheirCall ==
  \A i \in 1 .. depth - 1 :
    /\ frames[i].state = "LOAD"
    /\ frames[i].offset >= 1
    /\ CallOf(i).kind = "call"
    /\ CallOf(i).arg = frames[i + 1].file

(* A script called with a method runs only as plain text: on each of the   *)
(* paths into its context, over the dialog and in a later call as well,    *)
(* its content was verified first (call.c:136-150, 160-171).  A call       *)
(* without a method is the author's word that there is nothing to decrypt; *)
(* call.c:61-65 takes it, so that ciphertext called that way is run.       *)
OnlyPlainTextRuns ==
  \A i \in 1 .. depth - 1 : CallOf(i).value # METHOD_STORE => frames[i + 1].plain

(* A script waits only with the pointer shown: a dialog or a conditional   *)
(* jump that hid it never leaves a wait without it (runner.c:35-41, 53).   *)
WaitingShowsPointer == Top.state = "WAIT" => mouse

(* The program ends only from the root script: no nested context is left   *)
(* open on the stack when main() returns (main.c:31-42).                   *)
EndsAtRoot == phase # "running" => depth = 1

(* Once the window is closed no entry of any script runs any more: each    *)
(* step gives up one context, or ends the program (runner.c:146-155).      *)
QuitOnlyUnwinds ==
  [][Top.state = "QUIT" =>
       /\ UNCHANGED <<accumulator, mouse, areas, unlocked>>
       /\ \/ depth' = depth - 1 /\ Top'.state = "QUIT"
          \/ depth' = depth /\ phase' = "success"]_vars

(* Between the call of a script and the return from it, the caller's place *)
(* does not move: it resumes after its call, whatever ran above it.        *)
CallerKeepsItsPlace ==
  [][\A i \in 1 .. depth - 1 :
       /\ frames'[i].file = frames[i].file
       /\ frames'[i].offset = frames[i].offset
       /\ frames'[i].state = "QUIT" => Top.state = "QUIT"]_vars

(* A closed window ends the program, without an error, however deep the    *)
(* script that ran was nested (runner.c:130-155, main.c:36).               *)
QuitEnds == Top.state = "QUIT" ~> phase = "success"

(* The show never stalls on its own: again and again it waits for the user *)
(* or the unlock dialog, or fails, or ends - or its scripts go round in a  *)
(* loop, that is, jump or call for ever (runner.c:199-282).                *)
Rests ==
  \/ phase # "running"
  \/ Top.state \in {"WAIT"} \union Errors
  \/ Top.state = "EXECUTE" /\ Top.call = "decode"

JumpsBack == (ExecuteJump \/ ExecuteJumpIfEqual) /\ Top'.offset <= Top.offset

ShowProgresses == []<>Rests \/ []<><<JumpsBack \/ EnterCall>>_vars

------------------------------------------------------------------------------
(* What the documentation and the messages of the code say, and the code   *)
(* does not do.  Each is refuted by a run of its own.                      *)

(* slides.md:64-65: 10000 is stored when a hovered area is being left.  So *)
(* only a hover reported before may end a wait this way.                   *)
HoverCodes == {(HOVER + g) % (UINT16_MAX + 1) : g \in Tags}
UnhoverFollowsHover ==
  [][Top.state = "WAIT" /\ Top'.state = "LOAD" /\ accumulator' = HOVER
       => accumulator \in HoverCodes]_vars

(* runner.c:96-98 composes "label not found" and returns SLD_ARGERR: a     *)
(* jump to a label the script lacks is an error of that script.            *)
MissingLabelIsError ==
  [][ExecuteJump /\ ~(\E i \in DOMAIN Script : /\ Script[i].kind = "label"
                                              /\ Script[i].arg = Current.arg)
       => Top'.state \in Errors]_vars

(* runner.c:149-152 hands a negative state to the caller, and main.c:36-40 *)
(* reports it: a script that fails ends the program with an error.         *)
ScriptErrorEnds == Top.state \in Errors ~> phase = "failure"
==============================================================================
