--------------------------- MODULE SlideshowProofs ---------------------------
(***************************************************************************)
(* The interpreter's safety for every archive, every table size and every  *)
(* depth of the stack.  Almost every action replaces the top frame of the  *)
(* stack and leaves the frames below alone: TopStep proves once that such  *)
(* a step keeps the invariant.                                             *)
(***************************************************************************)
EXTENDS Slideshow, AreaTableProofs

(* The frame stands at an entry, and if this is a call that was prepared,  *)
(* there is room for the callee and, before it is entered, plain text in   *)
(* it unless the call has no method.                                       *)
Ready(f) ==
  /\ f.offset >= 1
  /\ f.call # "prepare" =>
       /\ f.state = "EXECUTE"
       /\ TextOf(f)[f.offset].kind = "call"
       /\ depth < MaxDepth
       /\ f.call = "enter" /\ TextOf(f)[f.offset].value # METHOD_STORE => f.callee

TopReady == Top.state \in {"EXECUTE", "DELAY"} => Ready(Top)

IInv ==
  /\ program \in Programs
  /\ TypeOK
  /\ CallersWaitAtTheirCall
  /\ OnlyPlainTextRuns
  /\ WaitingShowsPointer
  /\ EndsAtRoot
  /\ TopReady

LEMMA TextIs ==
  ASSUME program \in [Files -> Seq(Entry)], NEW f \in Frame
  PROVE  TextOf(f) \in Seq(Entry) /\ Len(TextOf(f)) \in Nat
<1>1. TextOf(f) \in Seq(Entry)
  BY NoiseAssumption DEF TextOf, Frame
<1>2. QED BY <1>1

LEMMA TopFrame ==
  ASSUME IInv
  PROVE  /\ depth \in 1 .. MaxDepth
         /\ Top \in Frame
         /\ Top.file \in Files
         /\ Top.offset \in Nat
         /\ Top.offset <= Len(Script)
         /\ Script \in Seq(Entry)
         /\ Len(Script) \in Nat
<1>1. /\ depth \in 1 .. MaxDepth
      /\ frames \in [1 .. MaxDepth -> Frame]
      /\ Top.offset <= Len(Script)
      /\ program \in [Files -> Seq(Entry)]
  BY DEF IInv, TypeOK, Top, Script
<1>2. Top \in Frame
  BY <1>1 DEF Top
<1>3. Top.file \in Files /\ Top.offset \in Nat
  BY <1>2 DEF Frame
<1>4. Script \in Seq(Entry)
  BY <1>1, <1>2, TextIs DEF Script
<1>5. Len(Script) \in Nat
  BY <1>4
<1>6. QED BY <1>1, <1>2, <1>3, <1>4, <1>5

(* The entry under execution is an entry of the script.                    *)
LEMMA CurrentEntry ==
  ASSUME IInv, Top.state = "EXECUTE"
  PROVE  /\ Current \in Entry
         /\ Current.kind = "area" => Current.rect \in Rects /\ Current.value \in Tags \union {0}
         /\ Current.kind = "call" => Current.arg \in Files
<1>1. Top.offset \in 1 .. Len(Script)
  BY TopFrame DEF IInv, TopReady, Ready
<1>2. Current \in Entry
  BY <1>1, TopFrame DEF Current
<1>3. program \in Programs /\ Top.file \in Files
  BY TopFrame DEF IInv
<1>4. WellFormed(Current)
  <2>1. CASE Top.plain
    BY <1>1, <1>3, <2>1, EntriesAssumption DEF EntriesAssumption, Current, Script, TextOf
  <2>2. CASE ~Top.plain
    BY <1>1, <2>2, NoiseAssumption DEF NoiseAssumption, Current, Script, TextOf
  <2>3. QED BY <2>1, <2>2
<1>5. QED BY <1>2, <1>4 DEF WellFormed

(* A step that replaces the top frame and leaves the stack below alone.    *)
LEMMA TopStep ==
  ASSUME IInv, Running, NEW f \in Frame,
         frames' = [frames EXCEPT ![depth] = f],
         f.file = Top.file, f.plain = Top.plain, f.offset <= Len(Script),
         UNCHANGED <<program, depth, phase>>,
         accumulator' \in 0 .. UINT16_MAX, mouse' \in BOOLEAN, areas' \in Tables,
         unlocked \subseteq unlocked', unlocked' \subseteq Files,
         f.state = "WAIT" => mouse',
         f.state \in {"EXECUTE", "DELAY"} => Ready(f)
  PROVE  IInv'
<1>1. /\ frames \in [1 .. MaxDepth -> Frame]
      /\ depth \in 1 .. MaxDepth
      /\ \A i \in 1 .. MaxDepth : frames[i].offset <= Len(TextOf(frames[i]))
  BY DEF IInv, TypeOK
<1>2. /\ frames'[depth] = f
      /\ \A i \in 1 .. MaxDepth : i # depth => frames'[i] = frames[i]
      /\ frames' \in [1 .. MaxDepth -> Frame]
  BY <1>1
<1>3. Top' = f
  BY <1>2 DEF Top
<1>4. program' \in Programs
  BY DEF IInv
<1>5. TypeOK'
  <2>1. \A i \in 1 .. MaxDepth : frames'[i].offset <= Len(TextOf(frames[i])')
    BY <1>1, <1>2 DEF Script, Top, TextOf
  <2>2. QED BY <1>1, <1>2, <2>1 DEF IInv, TypeOK
<1>6. CallersWaitAtTheirCall'
  <2> SUFFICES ASSUME NEW i \in 1 .. depth - 1
               PROVE  /\ frames'[i].state = "LOAD"
                      /\ frames'[i].offset >= 1
                      /\ CallOf(i)'.kind = "call"
                      /\ CallOf(i)'.arg = frames'[i + 1].file
    BY DEF CallersWaitAtTheirCall
  <2>1. i \in 1 .. MaxDepth /\ i + 1 \in 1 .. MaxDepth /\ i # depth
    BY <1>1, DepthAssumption DEF DepthAssumption
  <2>2. frames'[i] = frames[i] /\ frames'[i + 1].file = frames[i + 1].file
    BY <1>2, <2>1 DEF Top
  <2>3. CallOf(i)' = CallOf(i)
    BY <2>2 DEF CallOf, TextOf
  <2>4. QED BY <2>2, <2>3 DEF IInv, CallersWaitAtTheirCall
<1>7. OnlyPlainTextRuns'
  <2> SUFFICES ASSUME NEW i \in 1 .. depth - 1, CallOf(i)'.value # METHOD_STORE
               PROVE  frames'[i + 1].plain
    BY DEF OnlyPlainTextRuns
  <2>1. i \in 1 .. MaxDepth /\ i + 1 \in 1 .. MaxDepth /\ i # depth
    BY <1>1, DepthAssumption DEF DepthAssumption
  <2>2. frames'[i] = frames[i] /\ frames'[i + 1].plain = frames[i + 1].plain
    BY <1>2, <2>1 DEF Top
  <2>3. CallOf(i)' = CallOf(i)
    BY <2>2 DEF CallOf, TextOf
  <2>4. QED BY <2>2, <2>3 DEF IInv, OnlyPlainTextRuns
<1>8. WaitingShowsPointer'
  BY <1>3 DEF WaitingShowsPointer
<1>9. EndsAtRoot'
  BY DEF IInv, EndsAtRoot
<1>10. TopReady'
  <2>1. Ready(Top)' <=> Ready(f)
    BY <1>3 DEF Ready, TextOf
  <2>2. QED BY <1>3, <2>1 DEF TopReady
<1>11. QED BY <1>4, <1>5, <1>6, <1>7, <1>8, <1>9, <1>10 DEF IInv

(* The common case: only the state of the top frame changes, to one that   *)
(* does not execute.                                                       *)
LEMMA StateStep ==
  ASSUME IInv, Running, NEW s \in States \ {"EXECUTE", "DELAY"}, SetState(s),
         UNCHANGED <<program, depth, phase>>,
         accumulator' \in 0 .. UINT16_MAX, mouse' \in BOOLEAN, areas' \in Tables,
         unlocked' = unlocked, s = "WAIT" => mouse'
  PROVE  IInv'
<1> DEFINE f == [Top EXCEPT !.state = s]
<1>1. f \in Frame /\ f.file = Top.file /\ f.plain = Top.plain /\ f.offset = Top.offset /\ f.state = s
  BY TopFrame DEF Frame
<1>2. frames' = [frames EXCEPT ![depth] = f]
  BY DEF SetState, SetTop
<1>3. f.offset <= Len(Script) /\ unlocked \subseteq Files
  BY <1>1, TopFrame DEF IInv, TypeOK
<1> HIDE DEF f
<1>4. QED BY <1>1, <1>2, <1>3, TopStep

(* The root runs, so a frame above it stays, and nothing has ended yet.    *)
LEMMA RunningPhase == Running => phase = "running"
BY DEF Running

LEMMA InitIInv == Init => IInv
<1> SUFFICES ASSUME Init PROVE IInv
  OBVIOUS
<1>1. /\ program \in Programs /\ depth = 1 /\ mouse = FALSE /\ accumulator = 0
      /\ areas = EmptyTable /\ unlocked = Files \ Sealed /\ phase = "running"
      /\ frames = [i \in 1 .. MaxDepth |-> IF i = 1 THEN Fresh(Root, TRUE) ELSE Unused]
  BY DEF Init
<1>2. /\ Root \in Files /\ Root \notin Sealed
      /\ MaxDepth \in Nat \ {0}
  BY ArchiveAssumption, DepthAssumption DEF ArchiveAssumption, DepthAssumption
<1>3. Unused \in Frame /\ Unused.offset = 0 /\ Unused.file = Root /\ Unused.plain
      /\ Unused.state = "LOAD"
  BY <1>2 DEF Unused, Fresh, Frame, States
<1>4. /\ frames \in [1 .. MaxDepth -> Frame]
      /\ \A i \in 1 .. MaxDepth : frames[i] = Unused
  BY <1>1, <1>3 DEF Unused
<1>5. program \in [Files -> Seq(Entry)]
  BY <1>1, ProgramsAssumption DEF ProgramsAssumption
<1>6. Len(program[Root]) \in Nat
  BY <1>2, <1>5
<1>7. areas \in Tables
  BY <1>1 DEF EmptyTable, Tables, Area
<1>8. TypeOK
  <2>1. \A i \in 1 .. MaxDepth : frames[i].offset <= Len(TextOf(frames[i]))
    BY <1>3, <1>4, <1>6 DEF TextOf
  <2>2. accumulator \in 0 .. UINT16_MAX
    BY <1>1 DEF UINT16_MAX
  <2>3. depth \in 1 .. MaxDepth
    BY <1>1, <1>2
  <2>4. QED BY <1>1, <1>4, <1>5, <1>7, <2>1, <2>2, <2>3 DEF TypeOK
<1>9. Top = Unused
  <2>1. depth \in 1 .. MaxDepth
    BY <1>1, <1>2
  <2>2. QED BY <1>4, <2>1 DEF Top
<1>10. CallersWaitAtTheirCall
  BY <1>1 DEF CallersWaitAtTheirCall
<1>11. OnlyPlainTextRuns
  BY <1>1 DEF OnlyPlainTextRuns
<1>12. WaitingShowsPointer /\ TopReady /\ EndsAtRoot
  BY <1>1, <1>3, <1>9 DEF WaitingShowsPointer, TopReady, EndsAtRoot
<1>13. QED BY <1>1, <1>8, <1>10, <1>11, <1>12 DEF IInv

LEMMA Words == /\ UINT16_MAX \in Nat /\ HOVER \in Nat
               /\ 511 <= UINT16_MAX /\ HOVER <= UINT16_MAX
               /\ \A g \in Tags : g \in Nat /\ g <= UINT16_MAX
BY TagsAssumption DEF TagsAssumption, UINT16_MAX, HOVER

(* Arithmetic of a uint16_t stays in its range.                            *)
LEMMA WordRange == ASSUME NEW a \in Int PROVE a % (UINT16_MAX + 1) \in 0 .. UINT16_MAX
<1>1. ASSUME NEW n \in Nat PROVE a % (n + 1) \in 0 .. n
  OBVIOUS
<1>2. QED BY <1>1, Words

LEMMA AccumulatorValues ==
  /\ 0 \in 0 .. UINT16_MAX /\ 1 \in 0 .. UINT16_MAX /\ UINT16_MAX \in 0 .. UINT16_MAX
  /\ HOVER \in 0 .. UINT16_MAX
  /\ \A k \in Keystrokes : k \in 0 .. UINT16_MAX
  /\ \A g \in Tags \union {0} : /\ g \in 0 .. UINT16_MAX
                                /\ (HOVER + g) % (UINT16_MAX + 1) \in 0 .. UINT16_MAX
<1>1. ASSUME NEW k \in Keystrokes PROVE k \in 0 .. UINT16_MAX
  BY Words, InputAssumption DEF InputAssumption
<1>2. ASSUME NEW g \in Tags PROVE g \in 0 .. UINT16_MAX
  BY Words
<1>3. /\ 0 \in 0 .. UINT16_MAX /\ 1 \in 0 .. UINT16_MAX /\ UINT16_MAX \in 0 .. UINT16_MAX
      /\ HOVER \in 0 .. UINT16_MAX
  BY Words
<1>4. ASSUME NEW g \in 0 .. UINT16_MAX
      PROVE  (HOVER + g) % (UINT16_MAX + 1) \in 0 .. UINT16_MAX
  BY Words, WordRange
<1>5. \A g \in Tags \union {0} : g \in 0 .. UINT16_MAX
  BY <1>2, <1>3, Zenon
<1>6. QED BY <1>1, <1>3, <1>4, <1>5, Zenon

LEMMA CloseIInv == ASSUME IInv, Close PROVE IInv'
BY StateStep DEF Close, States, Negative, IInv, TypeOK

LEMMA FlounderIInv == ASSUME IInv, Flounder PROVE IInv'
BY StateStep DEF Flounder, States, Negative, Errors, IInv, TypeOK

LEMMA PressKeyIInv == ASSUME IInv, PressKey PROVE IInv'
BY StateStep, AccumulatorValues DEF PressKey, States, IInv, TypeOK

LEMMA PointAtIInv ==
  ASSUME IInv, NEW p \in Points, NEW pressed \in BOOLEAN, PointAt(p, pressed)
  PROVE  IInv'
<1>1. areas \in Tables /\ mouse \in BOOLEAN
  BY DEF IInv, TypeOK
<1>2. Retrieve(areas, p) \in Tags \union {0}
  <2>1. \A i \in Slots : areas[i].tag \in Tags \union {0}
    BY <1>1 DEF Tables, Area
  <2>2. QED BY <1>1, <2>1, RetrieveProperty
<1>3. accumulator' \in 0 .. UINT16_MAX
  BY <1>2, AccumulatorValues DEF PointAt
<1>4. Running /\ SetState("LOAD") /\ UNCHANGED <<program, depth, mouse, areas, unlocked, phase>>
  BY DEF PointAt
<1>5. QED BY <1>1, <1>3, <1>4, StateStep DEF States

LEMMA LoadIInv == ASSUME IInv, Load PROVE IInv'
<1> DEFINE next == Script[Top.offset + 1]
<1>1. /\ Running
      /\ UNCHANGED <<program, depth, accumulator, mouse, areas, unlocked, phase>>
  BY DEF Load
<1>2. /\ accumulator \in 0 .. UINT16_MAX /\ mouse \in BOOLEAN
      /\ areas \in Tables /\ unlocked \subseteq Files
  BY DEF IInv, TypeOK
<1>3. CASE SetState("STOP") \/ SetState("ARGERR")
  BY <1>1, <1>2, <1>3, StateStep DEF States, Negative, Errors
<1>4. ASSUME NEW s \in AfterLoad(next), Top.offset < Len(Script),
             SetTop([Top EXCEPT !.offset = @ + 1, !.state = s, !.call = "prepare", !.callee = FALSE])
      PROVE  IInv'
  <2> DEFINE f == [Top EXCEPT !.offset = @ + 1, !.state = s, !.call = "prepare", !.callee = FALSE]
  <2>1. s \in {"EXECUTE", "DELAY"} /\ s \in States /\ Top.offset + 1 \in Nat
    BY TopFrame DEF AfterLoad, States
  <2>2. /\ f \in Frame /\ f.file = Top.file /\ f.plain = Top.plain /\ f.offset = Top.offset + 1
        /\ f.call = "prepare" /\ f.state # "WAIT"
    BY <2>1, TopFrame DEF Frame
  <2>3. f.offset <= Len(Script) /\ f.offset >= 1
    BY <1>4, <2>2, TopFrame
  <2>4. frames' = [frames EXCEPT ![depth] = f]
    BY <1>4 DEF SetTop
  <2> HIDE DEF f
  <2>5. Ready(f)
    BY <2>2, <2>3 DEF Ready
  <2>6. QED BY <1>1, <1>2, <2>2, <2>3, <2>4, <2>5, TopStep
<1>5. QED BY <1>3, <1>4 DEF Load

LEMMA DelayElapsedIInv == ASSUME IInv, DelayElapsed PROVE IInv'
<1> DEFINE f == [Top EXCEPT !.state = "EXECUTE"]
<1>1. /\ Running /\ Top.state = "DELAY"
      /\ UNCHANGED <<program, depth, accumulator, mouse, areas, unlocked, phase>>
      /\ frames' = [frames EXCEPT ![depth] = f]
  BY DEF DelayElapsed, SetState, SetTop
<1>2. /\ f \in Frame /\ f.file = Top.file /\ f.plain = Top.plain /\ f.offset = Top.offset
      /\ f.call = Top.call /\ f.callee = Top.callee /\ f.state = "EXECUTE"
  BY TopFrame DEF Frame, States
<1>3. f.offset <= Len(Script)
  BY <1>2, TopFrame
<1> HIDE DEF f
<1>4. Ready(f)
  <2>1. Ready(Top)
    BY <1>1 DEF IInv, TopReady
  <2>2. QED BY <1>1, <1>2, <2>1 DEF Ready, TextOf
<1>5. /\ accumulator \in 0 .. UINT16_MAX /\ mouse \in BOOLEAN
      /\ areas \in Tables /\ unlocked \subseteq Files
  BY DEF IInv, TypeOK
<1>6. QED BY <1>1, <1>2, <1>3, <1>4, <1>5, TopStep

(* The entries that do no more than go on, fail, or touch one variable.    *)
LEMMA ExecuteSimpleIInv ==
  ASSUME IInv, ExecuteNothing \/ ExecuteOutput \/ ExecuteQuery \/ ExecuteClear
  PROVE  IInv'
<1>1. /\ accumulator \in 0 .. UINT16_MAX /\ mouse \in BOOLEAN
      /\ areas \in Tables /\ ClearAreas(areas) \in Tables
  BY ClearAreasType DEF IInv, TypeOK
<1>2. "LOAD" \in States /\ "SYSERR" \in States
  BY DEF States, Negative, Errors
<1>3. Running /\ UNCHANGED <<program, depth, phase>> /\ unlocked' = unlocked
  BY DEF ExecuteNothing, ExecuteOutput, ExecuteQuery, ExecuteClear, Executing
<1>4. accumulator' \in 0 .. UINT16_MAX /\ mouse' \in BOOLEAN /\ areas' \in Tables
  <2>1. CASE ExecuteQuery
    BY <1>1, <2>1, AccumulatorValues DEF ExecuteQuery
  <2>2. CASE ExecuteNothing \/ ExecuteOutput \/ ExecuteClear
    BY <1>1, <2>2 DEF ExecuteNothing, ExecuteOutput, ExecuteClear
  <2>3. QED BY <2>1, <2>2
<1>5. SetState("LOAD") \/ SetState("SYSERR")
  BY DEF ExecuteNothing, ExecuteOutput, ExecuteQuery, ExecuteClear
<1>6. QED BY <1>2, <1>3, <1>4, <1>5, StateStep

LEMMA ExecuteWaitIInv == ASSUME IInv, ExecuteWait PROVE IInv'
BY StateStep DEF ExecuteWait, Executing, States, IInv, TypeOK

LEMMA ExecuteAreaIInv == ASSUME IInv, ExecuteArea PROVE IInv'
<1>1. /\ Running /\ Top.state = "EXECUTE" /\ Current.kind = "area"
      /\ UNCHANGED <<program, depth, accumulator, mouse, unlocked, phase>>
  BY DEF ExecuteArea, Executing
<1>2. /\ accumulator \in 0 .. UINT16_MAX /\ mouse \in BOOLEAN /\ areas \in Tables
  BY DEF IInv, TypeOK
<1>3. Current.rect \in Rects /\ Current.value \in Tags \union {0}
  BY <1>1, CurrentEntry
<1>4. areas' \in Tables
  BY <1>2, <1>3, AddAreaType DEF ExecuteArea
<1>5. SetState("LOAD") \/ SetState("ARGERR")
  BY DEF ExecuteArea
<1>6. QED BY <1>1, <1>2, <1>4, <1>5, StateStep DEF States, Negative, Errors

(* A jump stays inside its script (runner.c:69-99).                        *)
LEMMA JumpStaysInside ==
  ASSUME IInv, NEW l
  PROVE  JumpOffset(l) \in Nat /\ JumpOffset(l) <= Len(Script)
<1> DEFINE stops == {i \in DOMAIN Script : \/ Script[i].kind = "malformed"
                                           \/ Script[i].kind = "label" /\ Script[i].arg = l}
<1>1. Len(Script) \in Nat /\ DOMAIN Script = 1 .. Len(Script)
  BY TopFrame
<1>2. CASE stops = {}
  BY <1>1, <1>2 DEF JumpOffset
<1>3. CASE stops # {}
  <2>1. stops \subseteq Nat /\ \A i \in stops : 1 <= i /\ i <= Len(Script)
    BY <1>1
  <2>2. Min(stops) \in stops
    BY <1>3, <2>1, MinProperty
  <2>3. JumpOffset(l) = Min(stops) \/ JumpOffset(l) = Min(stops) - 1
    BY <1>3 DEF JumpOffset
  <2>4. Min(stops) \in Nat /\ 1 <= Min(stops) /\ Min(stops) <= Len(Script)
    BY <2>1, <2>2
  <2> HIDE DEF stops
  <2>5. CASE JumpOffset(l) = Min(stops)
    BY <2>4, <2>5
  <2>6. CASE JumpOffset(l) = Min(stops) - 1
    BY <1>1, <2>4, <2>6
  <2>7. QED BY <2>3, <2>5, <2>6
<1>4. QED BY <1>2, <1>3

LEMMA TakeJumpIInv ==
  ASSUME IInv, Running, TakeJump, mouse' \in BOOLEAN,
         UNCHANGED <<program, depth, accumulator, areas, unlocked, phase>>
  PROVE  IInv'
<1> DEFINE o == JumpOffset(Current.arg)
           f == [Top EXCEPT !.offset = o, !.state = "LOAD"]
<1>1. o \in Nat /\ o <= Len(Script)
  BY JumpStaysInside
<1>2. frames' = [frames EXCEPT ![depth] = f]
  BY DEF TakeJump, SetTop
<1> HIDE DEF o
<1>3. f \in Frame /\ f.file = Top.file /\ f.plain = Top.plain /\ f.offset = o /\ f.state = "LOAD"
  BY <1>1, TopFrame DEF Frame, States
<1> HIDE DEF f
<1>4. /\ accumulator \in 0 .. UINT16_MAX /\ areas \in Tables /\ unlocked \subseteq Files
  BY DEF IInv, TypeOK
<1>5. QED BY <1>1, <1>2, <1>3, <1>4, TopStep

LEMMA ExecuteJumpsIInv == ASSUME IInv, ExecuteJump \/ ExecuteJumpIfEqual PROVE IInv'
<1>1. /\ Running /\ UNCHANGED <<program, depth, accumulator, areas, unlocked, phase>>
      /\ mouse \in BOOLEAN /\ areas \in Tables /\ accumulator \in 0 .. UINT16_MAX
  BY DEF ExecuteJump, ExecuteJumpIfEqual, Executing, IInv, TypeOK
<1>2. mouse' \in BOOLEAN
  BY <1>1 DEF ExecuteJump, ExecuteJumpIfEqual
<1>3. CASE TakeJump
  BY <1>1, <1>2, <1>3, TakeJumpIInv
<1>4. CASE SetState("LOAD")
  BY <1>1, <1>2, <1>4, StateStep DEF States
<1>5. QED BY <1>3, <1>4 DEF ExecuteJump, ExecuteJumpIfEqual

LEMMA PrepareCallIInv == ASSUME IInv, PrepareCall PROVE IInv'
<1>1. /\ Running /\ Top.state = "EXECUTE" /\ Current.kind = "call"
      /\ UNCHANGED <<program, depth, mouse, areas, unlocked, phase>>
  BY DEF PrepareCall, Executing
<1>2. /\ accumulator \in 0 .. UINT16_MAX /\ mouse \in BOOLEAN
      /\ areas \in Tables /\ unlocked \subseteq Files
  BY DEF IInv, TypeOK
<1>3. ASSUME depth < MaxDepth, accumulator' = 0,
             NEW plain \in Copies(Current.arg), NEW c \in AfterPrepare(plain),
             SetTop([Top EXCEPT !.call = c, !.callee = plain])
      PROVE  IInv'
  <2> DEFINE f == [Top EXCEPT !.call = c, !.callee = plain]
  <2>0. /\ plain \in BOOLEAN /\ c \in {"enter", "decode"}
        /\ c = "enter" /\ Current.value # METHOD_STORE => plain
    BY DEF Copies, AfterPrepare
  <2>1. /\ f \in Frame /\ f.file = Top.file /\ f.plain = Top.plain /\ f.offset = Top.offset
        /\ f.state = "EXECUTE" /\ f.call = c /\ f.callee = plain
    BY <1>1, <2>0, TopFrame DEF Frame
  <2>2. frames' = [frames EXCEPT ![depth] = f]
    BY <1>3 DEF SetTop
  <2> HIDE DEF f
  <2>3. Ready(f)
    <3>1. f.offset >= 1
      BY <1>1, <2>1 DEF IInv, TopReady, Ready
    <3>2. TextOf(f)[f.offset] = Current
      BY <2>1 DEF Current, Script, TextOf
    <3>3. QED BY <1>1, <1>3, <2>0, <2>1, <3>1, <3>2 DEF Ready
  <2>4. f.offset <= Len(Script) /\ accumulator' \in 0 .. UINT16_MAX
    BY <1>3, <2>1, TopFrame, Words
  <2>5. QED BY <1>1, <1>2, <2>1, <2>2, <2>3, <2>4, TopStep
<1>4. CASE SetState("SYSERR") /\ UNCHANGED accumulator
  BY <1>1, <1>2, <1>4, StateStep DEF States, Negative, Errors
<1>5. QED BY <1>3, <1>4 DEF PrepareCall

LEMMA DecodeCallIInv == ASSUME IInv, DecodeCall PROVE IInv'
<1> DEFINE f == [Top EXCEPT !.call = "enter", !.callee = TRUE]
<1>1. /\ Running /\ Top.state = "EXECUTE" /\ Current.kind = "call" /\ Top.call = "decode"
      /\ UNCHANGED <<program, depth, areas, phase>>
  BY DEF DecodeCall, Executing
<1>2. /\ accumulator \in 0 .. UINT16_MAX /\ mouse \in BOOLEAN
      /\ areas \in Tables /\ unlocked \subseteq Files
  BY DEF IInv, TypeOK
<1>3. mouse' \in BOOLEAN
  BY <1>2 DEF DecodeCall
<1>4. CASE /\ unlocked' = unlocked \union {Current.arg} /\ SetTop(f) /\ UNCHANGED accumulator
  <2>1. /\ f \in Frame /\ f.file = Top.file /\ f.plain = Top.plain /\ f.offset = Top.offset
        /\ f.state = "EXECUTE" /\ f.call = "enter" /\ f.callee
    BY <1>1, TopFrame DEF Frame
  <2>2. frames' = [frames EXCEPT ![depth] = f]
    BY <1>4 DEF SetTop
  <2> HIDE DEF f
  <2>3. Current.arg \in Files
    BY <1>1, CurrentEntry
  <2>4. Ready(f)
    <3>1. Ready(Top)
      BY <1>1 DEF IInv, TopReady
    <3>2. TextOf(f)[f.offset] = Current
      BY <2>1 DEF Current, Script, TextOf
    <3>3. QED BY <1>1, <1>4, <2>1, <3>1, <3>2 DEF Ready
  <2>5. f.offset <= Len(Script)
    BY <2>1, TopFrame
  <2>6. QED BY <1>1, <1>2, <1>3, <1>4, <2>1, <2>2, <2>3, <2>4, <2>5, TopStep
<1>5. CASE accumulator' = UINT16_MAX /\ SetState("LOAD") /\ UNCHANGED unlocked
  BY <1>1, <1>2, <1>3, <1>5, StateStep, AccumulatorValues DEF States
<1>6. CASE SetState("ERRNO") /\ UNCHANGED <<accumulator, unlocked>>
  BY <1>1, <1>2, <1>3, <1>6, StateStep DEF States, Negative, Errors
<1>7. QED BY <1>4, <1>5, <1>6 DEF DecodeCall

(* The callee's context goes on top of a caller that has consumed its call. *)
LEMMA EnterCallIInv == ASSUME IInv, EnterCall PROVE IInv'
<1> DEFINE caller == [Top EXCEPT !.state = "LOAD", !.call = "prepare", !.callee = FALSE]
           callee == Fresh(Current.arg, Top.callee)
<1>1. /\ Running /\ Top.state = "EXECUTE" /\ Current.kind = "call" /\ Top.call = "enter"
      /\ depth' = depth + 1
      /\ UNCHANGED <<program, accumulator, mouse, areas, unlocked, phase>>
  BY DEF EnterCall, Executing
<1>2. /\ frames' = [frames EXCEPT ![depth] = caller, ![depth + 1] = callee]
  BY DEF EnterCall, Top
<1>3. /\ Top.offset >= 1 /\ depth < MaxDepth
      /\ Current.value # METHOD_STORE => Top.callee
  BY <1>1 DEF IInv, TopReady, Ready, Current, Script
<1>4. /\ depth \in Nat /\ MaxDepth \in Nat /\ 1 <= depth /\ depth + 1 <= MaxDepth
      /\ frames \in [1 .. MaxDepth -> Frame]
      /\ program \in Programs /\ program \in [Files -> Seq(Entry)]
      /\ \A i \in 1 .. MaxDepth : frames[i].offset <= Len(TextOf(frames[i]))
  BY <1>3, DepthAssumption DEF DepthAssumption, IInv, TypeOK
<1>5. /\ caller \in Frame /\ caller.file = Top.file /\ caller.offset = Top.offset
      /\ caller.plain = Top.plain /\ caller.state = "LOAD"
  BY TopFrame DEF Frame, States
<1>6. /\ Current.arg \in Files
      /\ callee \in Frame /\ callee.file = Current.arg /\ callee.offset = 0
      /\ callee.plain = Top.callee /\ callee.state = "LOAD"
  BY <1>1, TopFrame, CurrentEntry DEF Fresh, Frame, States
<1>7. Len(TextOf(callee)) \in Nat
  BY <1>4, <1>6, TextIs
<1> HIDE DEF caller, callee
<1>8. /\ frames'[depth] = caller
      /\ frames'[depth + 1] = callee
      /\ \A i \in 1 .. MaxDepth : i # depth /\ i # depth + 1 => frames'[i] = frames[i]
      /\ frames' \in [1 .. MaxDepth -> Frame]
  <2>1. depth \in 1 .. MaxDepth /\ depth + 1 \in 1 .. MaxDepth /\ depth # depth + 1
    BY <1>4
  <2>2. QED BY <1>2, <1>4, <1>5, <1>6, <2>1
<1>9. Top' = callee
  BY <1>1, <1>8 DEF Top
<1>10. TypeOK'
  <2>1. \A i \in 1 .. MaxDepth : frames'[i].offset <= Len(TextOf(frames[i])')
    <3> SUFFICES ASSUME NEW i \in 1 .. MaxDepth
                 PROVE  frames'[i].offset <= Len(TextOf(frames[i])')
      BY <1>1
    <3>1. CASE i = depth
      BY <1>1, <1>5, <1>8, <3>1, TopFrame DEF Script, TextOf
    <3>2. CASE i = depth + 1
      BY <1>1, <1>6, <1>7, <1>8, <3>2 DEF TextOf
    <3>3. CASE i # depth /\ i # depth + 1
      BY <1>1, <1>4, <1>8, <3>3 DEF TextOf
    <3>4. QED BY <3>1, <3>2, <3>3
  <2>2. depth' \in 1 .. MaxDepth
    BY <1>1, <1>4
  <2>3. QED BY <1>1, <1>8, <2>1, <2>2 DEF IInv, TypeOK
<1>11. CallersWaitAtTheirCall'
  <2> SUFFICES ASSUME NEW i \in 1 .. depth
               PROVE  /\ frames'[i].state = "LOAD"
                      /\ frames'[i].offset >= 1
                      /\ CallOf(i)'.kind = "call"
                      /\ CallOf(i)'.arg = frames'[i + 1].file
    BY <1>1, <1>4 DEF CallersWaitAtTheirCall
  <2>1. CASE i = depth
    <3>1. CallOf(i)' = Current
      BY <1>1, <1>5, <1>8, <2>1 DEF CallOf, Current, Script, TextOf
    <3>2. QED BY <1>1, <1>3, <1>5, <1>6, <1>8, <2>1, <3>1
  <2>2. CASE i # depth
    <3>1. i \in 1 .. depth - 1 /\ i \in 1 .. MaxDepth /\ i + 1 \in 1 .. MaxDepth
          /\ i # depth + 1 /\ i + 1 # depth + 1
      BY <1>4, <2>2
    <3>2. frames'[i] = frames[i] /\ frames'[i + 1].file = frames[i + 1].file
      BY <1>5, <1>8, <2>2, <3>1 DEF Top
    <3>3. CallOf(i)' = CallOf(i)
      BY <1>1, <3>2 DEF CallOf, TextOf
    <3>4. QED BY <3>1, <3>2, <3>3 DEF IInv, CallersWaitAtTheirCall
  <2>3. QED BY <2>1, <2>2
<1>12. OnlyPlainTextRuns'
  <2> SUFFICES ASSUME NEW i \in 1 .. depth, CallOf(i)'.value # METHOD_STORE
               PROVE  frames'[i + 1].plain
    BY <1>1, <1>4 DEF OnlyPlainTextRuns
  <2>1. CASE i = depth
    <3>1. CallOf(i)' = Current
      BY <1>1, <1>5, <1>8, <2>1 DEF CallOf, Current, Script, TextOf
    <3>2. QED BY <1>3, <1>6, <1>8, <2>1, <3>1
  <2>2. CASE i # depth
    <3>1. i \in 1 .. depth - 1 /\ i \in 1 .. MaxDepth /\ i + 1 \in 1 .. MaxDepth
          /\ i # depth + 1 /\ i + 1 # depth + 1
      BY <1>4, <2>2
    <3>2. frames'[i] = frames[i] /\ frames'[i + 1].plain = frames[i + 1].plain
      BY <1>5, <1>8, <2>2, <3>1 DEF Top
    <3>3. CallOf(i)' = CallOf(i)
      BY <1>1, <3>2 DEF CallOf, TextOf
    <3>4. QED BY <3>1, <3>2, <3>3 DEF IInv, OnlyPlainTextRuns
  <2>3. QED BY <2>1, <2>2
<1>13. WaitingShowsPointer' /\ TopReady'
  BY <1>6, <1>9 DEF WaitingShowsPointer, TopReady
<1>14. EndsAtRoot'
  BY <1>1 DEF Running, EndsAtRoot
<1>15. QED BY <1>1, <1>4, <1>10, <1>11, <1>12, <1>13, <1>14 DEF IInv

(* The caller is on top again, as it was left: about to load.              *)
LEMMA LeaveIInv == ASSUME IInv, Leave PROVE IInv'
<1>1. /\ Running /\ Top.state \in {"STOP", "QUIT"}
      /\ depth' = depth - 1
      /\ UNCHANGED <<program, accumulator, mouse, areas, unlocked, phase>>
  BY DEF Leave
<1>2. /\ depth \in Nat /\ MaxDepth \in Nat /\ 1 <= depth /\ depth <= MaxDepth
      /\ frames \in [1 .. MaxDepth -> Frame]
      /\ program \in Programs /\ program \in [Files -> Seq(Entry)]
      /\ \A i \in 1 .. MaxDepth : frames[i].offset <= Len(TextOf(frames[i]))
  BY DepthAssumption DEF DepthAssumption, IInv, TypeOK
<1>3. depth # 1
  BY <1>1 DEF Running, RootRuns, Negative, Top
<1> DEFINE below == frames[depth - 1]
           caller == [below EXCEPT !.state = IF Top.state = "QUIT" THEN "QUIT" ELSE @]
<1>4. /\ depth \in 1 .. MaxDepth /\ depth - 1 \in 1 .. MaxDepth
      /\ depth - 1 \in 1 .. depth - 1 /\ depth - 1 # depth
  BY <1>2, <1>3
<1>5. frames' = [frames EXCEPT ![depth] = Unused, ![depth - 1] = caller]
  BY <1>2, <1>4 DEF Leave
<1>6. below \in Frame /\ below.state = "LOAD"
  BY <1>2, <1>4 DEF IInv, CallersWaitAtTheirCall
<1> HIDE DEF below
<1>7. /\ caller \in Frame /\ caller.file = below.file /\ caller.offset = below.offset
      /\ caller.plain = below.plain
      /\ caller.state \in {"LOAD", "QUIT"}
  BY <1>6 DEF Frame, States, Negative
<1>8. Root \in Files /\ Unused \in Frame /\ Unused.offset = 0 /\ Unused.file = Root
      /\ Unused.plain
  BY ArchiveAssumption DEF ArchiveAssumption, Unused, Fresh, Frame, States
<1> HIDE DEF caller
<1>9. /\ frames'[depth] = Unused
      /\ frames'[depth - 1] = caller
      /\ \A i \in 1 .. MaxDepth : i # depth /\ i # depth - 1 => frames'[i] = frames[i]
      /\ frames' \in [1 .. MaxDepth -> Frame]
  BY <1>2, <1>4, <1>5, <1>7, <1>8, Zenon
<1>10. Top' = caller
  BY <1>1, <1>9 DEF Top
<1>11. TypeOK'
  <2>1. \A i \in 1 .. MaxDepth : frames'[i].offset <= Len(TextOf(frames[i])')
    <3> SUFFICES ASSUME NEW i \in 1 .. MaxDepth
                 PROVE  frames'[i].offset <= Len(TextOf(frames[i])')
      BY <1>1
    <3>1. CASE i = depth
      <4>1. Len(program[Root]) \in Nat
        BY <1>2, <1>8
      <4>2. QED BY <1>1, <1>8, <1>9, <3>1, <4>1 DEF TextOf
    <3>2. CASE i = depth - 1
      BY <1>1, <1>2, <1>7, <1>9, <3>2 DEF below, TextOf
    <3>3. CASE i # depth /\ i # depth - 1
      BY <1>1, <1>2, <1>9, <3>3 DEF TextOf
    <3>4. QED BY <3>1, <3>2, <3>3
  <2>2. depth' \in 1 .. MaxDepth
    BY <1>1, <1>4
  <2>3. QED BY <1>1, <1>9, <2>1, <2>2 DEF IInv, TypeOK
<1>12. \A i \in 1 .. depth - 1 : /\ frames'[i].file = frames[i].file
                                /\ frames'[i].offset = frames[i].offset
                                /\ frames'[i].plain = frames[i].plain
  <2> SUFFICES ASSUME NEW i \in 1 .. depth - 1
               PROVE  /\ frames'[i].file = frames[i].file
                      /\ frames'[i].offset = frames[i].offset
                      /\ frames'[i].plain = frames[i].plain
    OBVIOUS
  <2>1. CASE i = depth - 1
    BY <1>7, <1>9, <2>1 DEF below
  <2>2. CASE i # depth - 1
    <3>1. i \in 1 .. MaxDepth /\ i # depth
      BY <1>2
    <3>2. QED BY <1>9, <2>2, <3>1
  <2>3. QED BY <2>1, <2>2
<1>13. CallersWaitAtTheirCall'
  <2> SUFFICES ASSUME NEW i \in 1 .. depth - 2
               PROVE  /\ frames'[i].state = "LOAD"
                      /\ frames'[i].offset >= 1
                      /\ CallOf(i)'.kind = "call"
                      /\ CallOf(i)'.arg = frames'[i + 1].file
    <3>1. depth' - 1 = depth - 2
      BY <1>1, <1>2
    <3>2. QED BY <3>1 DEF CallersWaitAtTheirCall
  <2>1. i \in 1 .. depth - 1 /\ i + 1 \in 1 .. depth - 1 /\ i \in 1 .. MaxDepth
        /\ i # depth /\ i # depth - 1
    BY <1>2
  <2>2. frames'[i] = frames[i] /\ frames'[i + 1].file = frames[i + 1].file
    BY <1>9, <1>12, <2>1
  <2>3. CallOf(i)' = CallOf(i)
    BY <1>1, <2>2 DEF CallOf, TextOf
  <2>4. QED BY <2>1, <2>2, <2>3 DEF IInv, CallersWaitAtTheirCall
<1>14. OnlyPlainTextRuns'
  <2> SUFFICES ASSUME NEW i \in 1 .. depth - 2, CallOf(i)'.value # METHOD_STORE
               PROVE  frames'[i + 1].plain
    <3>1. depth' - 1 = depth - 2
      BY <1>1, <1>2
    <3>2. QED BY <3>1 DEF OnlyPlainTextRuns
  <2>1. i \in 1 .. depth - 1 /\ i + 1 \in 1 .. depth - 1
    BY <1>2
  <2>2. /\ frames'[i].file = frames[i].file /\ frames'[i].offset = frames[i].offset
        /\ frames'[i].plain = frames[i].plain /\ frames'[i + 1].plain = frames[i + 1].plain
    BY <1>12, <2>1
  <2>3. CallOf(i)' = CallOf(i)
    BY <1>1, <2>2 DEF CallOf, TextOf
  <2>4. QED BY <2>1, <2>2, <2>3 DEF IInv, OnlyPlainTextRuns
<1>15. WaitingShowsPointer' /\ TopReady'
  BY <1>7, <1>10 DEF WaitingShowsPointer, TopReady
<1>16. EndsAtRoot'
  BY <1>1 DEF Running, EndsAtRoot
<1>17. QED BY <1>1, <1>2, <1>11, <1>13, <1>14, <1>15, <1>16 DEF IInv

(* main() ends from the root alone: a suspended root is about to load.     *)
LEMMA FinishAtRoot == ASSUME IInv, Finish PROVE depth = 1
<1>1. depth \in Nat /\ 1 <= depth
  BY TopFrame, DepthAssumption DEF DepthAssumption
<1>2. SUFFICES ASSUME depth # 1 PROVE FALSE
  OBVIOUS
<1>3. 1 \in 1 .. depth - 1
  BY <1>1, <1>2
<1>4. frames[1].state = "LOAD"
  BY <1>3 DEF IInv, CallersWaitAtTheirCall
<1>5. QED BY <1>4 DEF Finish, RootRuns, Negative, Errors

LEMMA FinishIInv == ASSUME IInv, Finish PROVE IInv'
<1>1. /\ UNCHANGED <<program, depth, frames, accumulator, mouse, areas, unlocked>>
      /\ phase' \in {"running", "success", "failure"}
      /\ ~RootRuns
  BY DEF Finish
<1>2. depth = 1
  BY FinishAtRoot
<1>3. TypeOK' /\ EndsAtRoot'
  BY <1>1, <1>2 DEF IInv, TypeOK, TextOf, EndsAtRoot
<1>4. CallersWaitAtTheirCall' /\ OnlyPlainTextRuns'
  BY <1>1 DEF IInv, CallersWaitAtTheirCall, CallOf, TextOf, OnlyPlainTextRuns
<1>5. WaitingShowsPointer' /\ TopReady'
  BY <1>1 DEF IInv, WaitingShowsPointer, TopReady, Ready, TextOf, Top
<1>6. QED BY <1>1, <1>3, <1>4, <1>5 DEF IInv

LEMMA StutterIInv == ASSUME IInv, UNCHANGED vars PROVE IInv'
<1>1. TypeOK' /\ CallersWaitAtTheirCall' /\ OnlyPlainTextRuns' /\ EndsAtRoot'
  BY DEF vars, IInv, TypeOK, CallersWaitAtTheirCall, CallOf, TextOf, OnlyPlainTextRuns, EndsAtRoot
<1>2. WaitingShowsPointer' /\ TopReady'
  BY DEF vars, IInv, WaitingShowsPointer, TopReady, Ready, TextOf, Top
<1>3. QED BY <1>1, <1>2 DEF IInv, vars

LEMMA NextIInv == IInv /\ [Next]_vars => IInv'
<1> SUFFICES ASSUME IInv, [Next]_vars PROVE IInv'
  OBVIOUS
<1>1. CASE Step
  <2>1. CASE Execute
    BY <2>1, ExecuteSimpleIInv, ExecuteWaitIInv, ExecuteAreaIInv, ExecuteJumpsIInv,
       PrepareCallIInv, EnterCallIInv DEF Execute
  <2>2. CASE Leave \/ Load \/ DelayElapsed \/ Flounder \/ Finish
    BY <2>2, LeaveIInv, LoadIInv, DelayElapsedIInv, FlounderIInv, FinishIInv
  <2>3. QED BY <1>1, <2>1, <2>2 DEF Step
<1>2. CASE User
  BY <1>2, CloseIInv, PressKeyIInv, DecodeCallIInv, PointAtIInv DEF User
<1>3. CASE Finished \/ UNCHANGED vars
  BY <1>3, StutterIInv DEF Finished
<1>4. QED BY <1>1, <1>2, <1>3 DEF Next

LEMMA Invariance == Spec => []IInv
BY InitIInv, NextIInv, PTL DEF Spec

(* The variables of the interpreter have their types: the stack is never   *)
(* empty nor too deep and no offset leaves its script.                     *)
THEOREM SlideshowTypeOK == Spec => []TypeOK
<1>1. IInv => TypeOK
  BY DEF IInv
<1>2. QED BY <1>1, Invariance, PTL

(* Each suspended script resumes right after its call, whatever the script *)
(* it called did (call.c:190-197, runner.c:272).                           *)
THEOREM SlideshowCallers == Spec => []CallersWaitAtTheirCall
<1>1. IInv => CallersWaitAtTheirCall
  BY DEF IInv
<1>2. QED BY <1>1, Invariance, PTL

(* What a call with a method brings to run is plain text, whichever copy   *)
(* of the script it opened: its checksum was right, or enc_handle decrypted *)
(* it (call.c:136-171).  Nothing is said of a call without a method, which *)
(* enters whatever it finds (call.c:61-65).                                *)
THEOREM SlideshowPlainText == Spec => []OnlyPlainTextRuns
<1>1. IInv => OnlyPlainTextRuns
  BY DEF IInv
<1>2. QED BY <1>1, Invariance, PTL

(* A script waits only with the pointer shown (runner.c:35-41).            *)
THEOREM SlideshowShowsPointer == Spec => []WaitingShowsPointer
<1>1. IInv => WaitingShowsPointer
  BY DEF IInv
<1>2. QED BY <1>1, Invariance, PTL

(* The program ends only from the root script (main.c:31-42).              *)
THEOREM SlideshowEndsAtRoot == Spec => []EndsAtRoot
<1>1. IInv => EndsAtRoot
  BY DEF IInv
<1>2. QED BY <1>1, Invariance, PTL

------------------------------------------------------------------------------
(* What a single step may do to the frames below the top.                  *)
OnlyTopChanges == \E f : frames' = [frames EXCEPT ![depth] = f]

LEMMA MostStepsChangeTop ==
  ASSUME Next
  PROVE  OnlyTopChanges \/ EnterCall \/ Leave \/ UNCHANGED frames
<1>1. ASSUME NEW s, SetState(s) PROVE OnlyTopChanges
  BY <1>1, Zenon DEF OnlyTopChanges, SetState, SetTop
<1>2. ASSUME NEW f, SetTop(f) PROVE OnlyTopChanges
  BY <1>2, Zenon DEF OnlyTopChanges, SetTop
<1>3. CASE Execute
  <2>1. CASE ExecuteNothing \/ ExecuteOutput \/ ExecuteWait \/ ExecuteArea
             \/ ExecuteClear \/ ExecuteQuery
    BY <1>1, <2>1 DEF ExecuteNothing, ExecuteOutput, ExecuteWait, ExecuteArea,
                      ExecuteClear, ExecuteQuery
  <2>2. CASE ExecuteJump \/ ExecuteJumpIfEqual
    BY <1>1, <1>2, <2>2 DEF ExecuteJump, ExecuteJumpIfEqual, TakeJump
  <2>3. CASE PrepareCall
    BY <1>1, <1>2, <2>3 DEF PrepareCall
  <2>4. QED BY <1>3, <2>1, <2>2, <2>3 DEF Execute
<1>4. CASE Load
  BY <1>1, <1>2, <1>4 DEF Load
<1>5. CASE DelayElapsed \/ Flounder \/ Close \/ PressKey
           \/ \E p \in Points, pressed \in BOOLEAN : PointAt(p, pressed)
  BY <1>1, <1>5 DEF DelayElapsed, Flounder, Close, PressKey, PointAt
<1>6. CASE DecodeCall
  BY <1>1, <1>2, <1>6 DEF DecodeCall
<1>7. CASE Finish \/ Finished
  BY <1>7 DEF Finish, Finished, vars
<1>8. QED BY <1>3, <1>4, <1>5, <1>6, <1>7 DEF Next, Step, User

(* From the call of a script to the return from it, its caller's place     *)
(* does not move (call.c:190-197, context.c:47-60).                        *)
THEOREM SlideshowKeepsPlaces == Spec => CallerKeepsItsPlace
<1> DEFINE Keeps == \A i \in 1 .. depth - 1 :
                      /\ frames'[i].file = frames[i].file
                      /\ frames'[i].offset = frames[i].offset
                      /\ frames'[i].state = "QUIT" => Top.state = "QUIT"
<1>1. ASSUME IInv, Next PROVE Keeps
  <2> SUFFICES ASSUME NEW i \in 1 .. depth - 1
               PROVE  /\ frames'[i].file = frames[i].file
                      /\ frames'[i].offset = frames[i].offset
                      /\ frames'[i].state = "QUIT" => Top.state = "QUIT"
    OBVIOUS
  <2>1. /\ frames \in [1 .. MaxDepth -> Frame]
        /\ depth \in 1 .. MaxDepth /\ i \in 1 .. MaxDepth /\ i # depth /\ i # depth + 1
        /\ depth - 1 \in 1 .. MaxDepth
    BY <1>1, DepthAssumption DEF DepthAssumption, IInv, TypeOK
  <2>2. frames[i].state = "LOAD"
    BY <1>1 DEF IInv, CallersWaitAtTheirCall
  <2>3. CASE OnlyTopChanges \/ UNCHANGED frames
    BY <2>1, <2>2, <2>3 DEF OnlyTopChanges
  <2>4. CASE EnterCall
    BY <2>1, <2>2, <2>4 DEF EnterCall
  <2>5. CASE Leave
    <3>1. frames[i] \in Frame /\ depth - 1 # depth
      BY <2>1
    <3>2. CASE i = depth - 1
      BY <2>1, <2>2, <2>5, <3>1, <3>2 DEF Leave, Frame
    <3>3. CASE i # depth - 1
      BY <2>1, <2>2, <2>5, <3>1, <3>3 DEF Leave
    <3>4. QED BY <3>2, <3>3
  <2>6. QED BY <1>1, <2>3, <2>4, <2>5, MostStepsChangeTop
<1>2. IInv /\ [Next]_vars => [Keeps]_vars
  BY <1>1
<1>3. QED BY <1>2, Invariance, PTL DEF Spec, CallerKeepsItsPlace

(* After the window was closed each step gives up a context or ends the    *)
(* program, and no entry runs (runner.c:130-155).                          *)
THEOREM SlideshowQuits == Spec => QuitOnlyUnwinds
<1> DEFINE Unwinds == Top.state = "QUIT" =>
                        /\ UNCHANGED <<accumulator, mouse, areas, unlocked>>
                        /\ \/ depth' = depth - 1 /\ Top'.state = "QUIT"
                           \/ depth' = depth /\ phase' = "success"
<1>1. ASSUME IInv, Next, Top.state = "QUIT", ~UNCHANGED vars
      PROVE  Leave \/ Finish
  BY <1>1, Zenon DEF Next, Step, User, Execute, ExecuteNothing, ExecuteOutput, ExecuteWait,
     ExecuteArea, ExecuteClear, ExecuteQuery, ExecuteJump, ExecuteJumpIfEqual,
     PrepareCall, EnterCall, DecodeCall, Executing, Load, DelayElapsed, Flounder,
     Close, PressKey, PointAt, Finished, Errors
<1>2. ASSUME IInv, Leave, Top.state = "QUIT" PROVE Unwinds
  <2>1. /\ frames \in [1 .. MaxDepth -> Frame]
        /\ depth \in 1 .. MaxDepth
    BY <1>2 DEF IInv, TypeOK
  <2>2. depth # 1
    BY <1>2 DEF Leave, Running, RootRuns, Negative, Top
  <2>3. depth - 1 \in 1 .. MaxDepth /\ depth - 1 # depth
    BY <2>1, <2>2, DepthAssumption DEF DepthAssumption
  <2>4. frames[depth - 1] \in Frame
    BY <2>1, <2>3
  <2>5. frames'[depth - 1].state = "QUIT"
    BY <1>2, <2>1, <2>3, <2>4 DEF Leave, Frame
  <2>6. QED BY <1>2, <2>5 DEF Leave, Top
<1>3. ASSUME IInv, Finish, Top.state = "QUIT" PROVE Unwinds
  <2>1. frames[1].state = "QUIT"
    BY <1>3, FinishAtRoot DEF Top
  <2>2. QED BY <1>3, <2>1 DEF Finish, Errors
<1>4. IInv /\ [Next]_vars => [Unwinds]_vars
  BY <1>1, <1>2, <1>3
<1>5. QED BY <1>4, Invariance, PTL DEF Spec, QuitOnlyUnwinds
==============================================================================
