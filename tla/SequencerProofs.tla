-------------------------- MODULE SequencerProofs --------------------------
(***************************************************************************)
(* The sequencer's safety for every size of a packet, every length of a    *)
(* track and any number of songs, with and without a timer.                *)
(***************************************************************************)
EXTENDS Sequencer, Integers, TLAPS

InStep == tick \in Reading \union Requesting \union {"event"}

(* The packet in which the last request was due: the one before the        *)
(* player's while it is between two packets.                               *)
Asking == IF tick \in Requesting THEN packet - 1 ELSE packet

(* The half that comes next is filled, and nobody is filling it.           *)
Answered == \/ "NOMORE" \notin flags /\ ("REQPKT" \notin flags \/ "ACKPKT" \in flags)
            \/ loop = "ack"

Holds(p) == ring[p % 2] = [song |-> song, packet |-> p]

(* Who is where: without a timer one thing at a time.                      *)
Places ==
  /\ tick = "lost" <=> loop = "lost"
  /\ ~timer => (tick \notin {"idle", "lost"} <=> loop = "tick")
  /\ loop = "start" => song < MaxSongs
  /\ live => context = "open"
  /\ loop \in {"aim", "copy", "ack"} => flags = {"REQPKT"}

(* The ring, the request and what the feeder has in hand belong to the     *)
(* same packet.                                                            *)
RingInOrder ==
  live /\ skew = {} =>
    /\ tick \notin Requesting /\ packet <= length[1] => Holds(packet)
    /\ Answered => Holds(Asking + 1)
    /\ "NOMORE" \in flags => length[1] <= Asking
    /\ loop \in {"aim", "copy"} => start = Asking + 1
    /\ loop = "copy" => half = 1 - (Asking % 2)

(* Without a timer a step begins with nothing asked for.                   *)
TurnsAlternate ==
  ~timer =>
    /\ loop = "on" \/ (playing /\ loop \in {"idle", "start"}) \/ tick = "step" => ~Underrun
    /\ loop = "tick" => playing
    /\ InStep => live /\ entry <= Asking /\ (Underrun => entry < Asking)
    /\ tick = "stop" \/ (loop \in {"feed", "aim", "copy"} /\ ~live)
         => ~Underrun \/ <<song, "unreadable">> \in cut
    /\ loop = "lost" => <<song, "unreadable">> \in cut

(* The pending event was read at the position where the player still is.   *)
EventIsNext ==
  /\ event.song <= song
  /\ InStep => event.song = 0 /\ (live \/ BrokenOff(song, cut))
  /\ live /\ event.song = song /\ song # 0 => (AtEnd => event.last)
  /\ ~live /\ event.song = song /\ song # 0 => event.last \/ BrokenOff(song, cut)
  /\ tick = "stop" /\ live /\ song # 0 => event.song # song
  /\ live /\ ~playing => loop = "on"
  /\ OldEventIsLast

(* A song without a buffer has ended or was broken off.                    *)
EndsInOrder ==
  skew = {} =>
    /\ loop = "on" => live /\ ~playing /\ tick = "idle"
    /\ playing /\ (~live \/ tick = "stop") => AtEnd \/ BrokenOff(song, cut)

IInv == TypeOK /\ Places /\ RingInOrder /\ TurnsAlternate /\ EventIsNext /\ EndsInOrder

USE DEF life, position, clock, feed, history

LEMMA MayCut ==
  ASSUME TypeOK
  PROVE  /\ Replaced \subseteq Songs \X Causes
         /\ cut \union {<<song, "unreadable">>} \subseteq Songs \X Causes
         /\ cut \union {<<song, "unfed">>} \subseteq Songs \X Causes
<1>1. song \in Songs /\ cut \subseteq Songs \X Causes
  BY DEF TypeOK
<1>2. QED BY <1>1 DEF Replaced, Causes

LEMMA MaySkew ==
  ASSUME TypeOK
  PROVE  /\ Raced \subseteq {"race", "underrun"}
         /\ skew \union {"underrun"} \subseteq {"race", "underrun"}
<1>1. skew \subseteq {"race", "underrun"}
  BY DEF TypeOK
<1>2. QED BY <1>1 DEF Raced

LEMMA TypeStep ==
  ASSUME IInv, [Next]_vars PROVE TypeOK'
<1>1. TypeOK /\ Places
  BY DEF IInv
<1>2. CASE PlayMissing
  BY <1>1, <1>2 DEF PlayMissing, TypeOK
<1>3. CASE PlayOpen
  BY <1>1, <1>3 DEF PlayOpen, TypeOK
<1>4. CASE StartFails
  BY <1>1, MayCut, <1>4 DEF StartFails, TypeOK
<1>5. CASE StartOutOfMemory
  <2>1. 0 \in 0 .. PacketSize - 1
    BY PacketAssumption DEF PacketAssumption
  <2>2. cut' \subseteq Songs \X Causes
    BY <1>1, MayCut, <1>5 DEF StartOutOfMemory
  <2>3. QED BY <1>1, <2>1, <2>2, <1>5 DEF StartOutOfMemory, TypeOK
<1>6. CASE Start
  <2>1. 0 \in 0 .. PacketSize - 1
    BY PacketAssumption DEF PacketAssumption
  <2>2. cut' \subseteq Songs \X Causes
    BY <1>1, MayCut, <1>6 DEF Start
  <2>3. length' \in Nat \X (0 .. PacketSize - 1)
    BY LengthsAssumption, <1>6 DEF Start, LengthsAssumption
  <2>4. song' \in Songs
    <3>1. song \in 0 .. MaxSongs /\ song < MaxSongs
      BY <1>1, <1>6 DEF Start, TypeOK, Places, Songs
    <3>2. QED BY <3>1, SongsAssumption, <1>6 DEF Start, Songs, SongsAssumption
  <2>5. ring' \in [0 .. 1 -> Content]
    <3>1. ASSUME NEW h \in 0 .. 1
          PROVE  [song |-> song + 1, packet |-> h] \in Content
      BY <2>4, <1>6 DEF Start, Content
    <3>2. QED BY <3>1, <1>6 DEF Start
  <2>6. skew' \subseteq {"race", "underrun"}
    BY <1>6 DEF Start
  <2>7. QED BY <1>1, <2>1, <2>2, <2>3, <2>4, <2>5, <2>6, <1>6 DEF Start, TypeOK
<1>7. CASE PlayOn
  BY <1>1, <1>7 DEF PlayOn, TypeOK
<1>8. CASE Handle
  BY <1>1, <1>8 DEF Handle, TypeOK
<1>9. CASE Tick
  BY <1>1, <1>9 DEF Tick, TypeOK
<1>10. CASE StepGone
  BY <1>1, <1>10 DEF StepGone, TypeOK
<1>11. CASE StepEnd
  BY <1>1, <1>11 DEF StepEnd, Return, TypeOK
<1>12. CASE StepWait
  BY <1>1, <1>12 DEF StepWait, Return, TypeOK
<1>13. CASE StepDue
  BY <1>1, SongsAssumption, <1>13 DEF StepDue, TypeOK, Reading, Songs, SongsAssumption
<1>14. ASSUME NEW part \in Reading, ReadByte(part) PROVE TypeOK'
  <2>1. packet' \in Nat /\ offset' \in 0 .. PacketSize - 1
    <3>1. packet \in Nat /\ offset \in Nat /\ PacketSize \in Nat /\ offset < PacketSize
      BY <1>1, PacketAssumption DEF TypeOK, PacketAssumption
    <3>2. \/ packet' = packet + 1 /\ offset' = 0
          \/ packet' = packet /\ offset' = offset + 1 /\ offset + 1 # PacketSize
      BY <1>14 DEF ReadByte
    <3>3. QED BY <3>1, <3>2
  <2>2. tick' \in {"event"} \union Reading \union Requesting
    BY <1>14 DEF ReadByte, After, Reading, Requesting
  <2>3. QED BY <1>1, <2>1, <2>2, <1>14 DEF ReadByte, TypeOK
<1>15. CASE ReadFreed
  BY <1>1, <1>15 DEF ReadFreed, Lose, TypeOK
<1>16. CASE Request
  <2>1. flags' \subseteq Flags
    BY <1>1, <1>16 DEF Request, TypeOK, Flags
  <2>2. tick' \in {"event"} \union Reading
    BY <1>16 DEF Request, After, PartAsked, Reading
  <2>3. QED BY <1>1, <2>1, <2>2, <1>16 DEF Request, TypeOK
<1>17. CASE UnderrunInDelta
  <2>1. skew' \subseteq {"race", "underrun"}
    BY <1>1, <1>17 DEF UnderrunInDelta, TypeOK
  <2>2. tick' \in Reading
    BY <1>17 DEF UnderrunInDelta, Reading
  <2>3. QED BY <1>1, <2>1, <2>2, <1>17 DEF UnderrunInDelta, TypeOK
<1>18. CASE EventFails
  BY <1>1, MayCut, <1>18 DEF EventFails, TypeOK
<1>19. CASE EventNow
  BY <1>1, <1>19 DEF EventNow, TypeOK, Reading
<1>20. CASE EventLater
  <2>1. AtEnd \in BOOLEAN
    BY DEF AtEnd, PastEnd
  <2>2. event' \in [song : Songs, last : BOOLEAN]
    BY <1>1, <2>1, <1>20 DEF EventLater, TypeOK
  <2>3. QED BY <1>1, <2>2, <1>20 DEF EventLater, Return, TypeOK
<1>21. CASE Stop
  BY <1>1, <1>21 DEF Stop, Return, TypeOK
<1>22. CASE Clock
  BY <1>1, <1>22 DEF Clock, TypeOK
<1>23. CASE FeedNothing
  BY <1>1, <1>23 DEF FeedNothing, TypeOK
<1>24. CASE FeedEnd
  BY <1>1, MaySkew, <1>24 DEF FeedEnd, TypeOK, Flags
<1>25. CASE FeedStart
  BY <1>1, MaySkew, <1>25 DEF FeedStart, TypeOK
<1>26. CASE FeedAim
  BY <1>1, MaySkew, <1>26 DEF FeedAim, TypeOK
<1>27. CASE FeedCopy
  BY <1>1, <1>27 DEF FeedCopy, TypeOK, Content
<1>28. CASE FeedAck
  BY <1>1, <1>28 DEF FeedAck, TypeOK, Flags
<1>29. CASE FeedFails
  BY <1>1, MayCut, <1>29 DEF FeedFails, TypeOK
<1>30. CASE FeedFreed
  BY <1>1, <1>30 DEF FeedFreed, Lose, TypeOK
<1>31. CASE UNCHANGED vars
  BY <1>1, <1>31 DEF vars, TypeOK
<1>32. QED
  BY <1>2, <1>3, <1>4, <1>5, <1>6, <1>7, <1>8, <1>9, <1>10, <1>11, <1>12, <1>13, <1>14,
     <1>15, <1>16, <1>17, <1>18, <1>19, <1>20, <1>21, <1>22, <1>23, <1>24, <1>25, <1>26,
     <1>27, <1>28, <1>29, <1>30, <1>31
  DEF Next, Play, Step, Feed

LEMMA PlacesStep ==
  ASSUME IInv, [Next]_vars PROVE Places'
<1>1. TypeOK /\ Places
  BY DEF IInv
<1>2. CASE PlayMissing
  BY <1>1, <1>2 DEF PlayMissing, Places
<1>3. CASE PlayOpen
  BY <1>1, <1>3 DEF PlayOpen, Places
<1>4. CASE StartFails
  BY <1>1, <1>4 DEF StartFails, Places
<1>5. CASE StartOutOfMemory
  BY <1>1, <1>5 DEF StartOutOfMemory, Places
<1>6. CASE Start
  BY <1>1, <1>6 DEF Start, Places
<1>7. CASE PlayOn
  BY <1>1, <1>7 DEF PlayOn, Places
<1>8. CASE Handle
  BY <1>1, <1>8 DEF Handle, Places
<1>9. CASE Tick
  BY <1>1, <1>9 DEF Tick, Places
<1>10. CASE StepGone
  BY <1>1, <1>10 DEF StepGone, Places
<1>11. CASE StepEnd
  BY <1>1, <1>11 DEF StepEnd, Return, Places
<1>12. CASE StepWait
  BY <1>1, <1>12 DEF StepWait, Return, Places
<1>13. CASE StepDue
  BY <1>1, <1>13 DEF StepDue, Places
<1>14. ASSUME NEW part \in Reading, ReadByte(part) PROVE Places'
  BY <1>1, <1>14 DEF ReadByte, After, Places, Reading
<1>15. CASE ReadFreed
  BY <1>1, <1>15 DEF ReadFreed, Lose, Places
<1>16. CASE Request
  BY <1>1, <1>16 DEF Request, After, PartAsked, Places, Requesting
<1>17. CASE UnderrunInDelta
  BY <1>1, <1>17 DEF UnderrunInDelta, Places
<1>18. CASE EventFails
  BY <1>1, <1>18 DEF EventFails, Places
<1>19. CASE EventNow
  BY <1>1, <1>19 DEF EventNow, Places
<1>20. CASE EventLater
  BY <1>1, <1>20 DEF EventLater, Return, Places
<1>21. CASE Stop
  BY <1>1, <1>21 DEF Stop, Return, Places
<1>22. CASE Clock
  BY <1>1, <1>22 DEF Clock, Places
<1>23. CASE FeedNothing
  BY <1>1, <1>23 DEF FeedNothing, Places
<1>24. CASE FeedEnd
  BY <1>1, <1>24 DEF FeedEnd, Places
<1>25. CASE FeedStart
  BY <1>1, <1>25 DEF FeedStart, Asked, Places
<1>26. CASE FeedAim
  BY <1>1, <1>26 DEF FeedAim, Places
<1>27. CASE FeedCopy
  BY <1>1, <1>27 DEF FeedCopy, Places
<1>28. CASE FeedAck
  BY <1>1, <1>28 DEF FeedAck, Places
<1>29. CASE FeedFails
  BY <1>1, <1>29 DEF FeedFails, Places
<1>30. CASE FeedFreed
  BY <1>1, <1>30 DEF FeedFreed, Lose, Places
<1>31. CASE UNCHANGED vars
  BY <1>1, <1>31 DEF vars, Places
<1>32. QED
  BY <1>2, <1>3, <1>4, <1>5, <1>6, <1>7, <1>8, <1>9, <1>10, <1>11, <1>12, <1>13, <1>14,
     <1>15, <1>16, <1>17, <1>18, <1>19, <1>20, <1>21, <1>22, <1>23, <1>24, <1>25, <1>26,
     <1>27, <1>28, <1>29, <1>30, <1>31
  DEF Next, Play, Step, Feed

LEMMA RingStep ==
  ASSUME IInv, [Next]_vars PROVE RingInOrder'
<1>1. TypeOK /\ Places /\ RingInOrder
  BY DEF IInv
<1>2. CASE PlayMissing
  BY <1>1, <1>2 DEF PlayMissing, RingInOrder, Holds, Answered, Asking
<1>3. CASE PlayOpen
  BY <1>1, <1>3 DEF PlayOpen, RingInOrder, Holds, Answered, Asking
<1>4. CASE StartFails
  BY <1>1, <1>4 DEF StartFails, RingInOrder
<1>5. CASE StartOutOfMemory
  BY <1>1, <1>5 DEF StartOutOfMemory, RingInOrder
<1>6. CASE Start
  <2>1. SUFFICES ASSUME skew' = {}
                 PROVE  RingInOrder'
    BY DEF RingInOrder
  <2>2. tick' = "idle"
    BY <2>1, <1>6 DEF Start
  <2>3. Holds(0)' /\ Holds(1)'
    BY <1>6 DEF Start, Holds
  <2>4. packet' = 0 /\ Asking' + 1 = 1
    BY <2>2, <1>6 DEF Start, Asking, Requesting
  <2>5. Holds(packet)' /\ Holds(Asking + 1)'
    BY <2>3, <2>4 DEF Holds
  <2>6. QED BY <2>5, <1>6 DEF Start, RingInOrder
<1>7. CASE PlayOn
  BY <1>1, <1>7 DEF PlayOn, RingInOrder, Holds, Answered, Asking
<1>8. CASE Handle
  BY <1>1, <1>8 DEF Handle, Places, RingInOrder, Requesting, Holds, Answered, Asking
<1>9. CASE Tick
  BY <1>1, <1>9 DEF Tick, RingInOrder, Requesting, Holds, Answered, Asking
<1>10. CASE StepGone
  BY <1>1, <1>10 DEF StepGone, RingInOrder
<1>11. CASE StepEnd
  BY <1>1, <1>11 DEF StepEnd, RingInOrder
<1>12. CASE StepWait
  BY <1>1, <1>12 DEF StepWait, Return, RingInOrder, Requesting, Holds, Answered, Asking
<1>13. CASE StepDue
  BY <1>1, <1>13 DEF StepDue, RingInOrder, Requesting, Holds, Answered, Asking
<1>14. ASSUME NEW part \in Reading, ReadByte(part) PROVE RingInOrder'
  <2>1. tick \notin Requesting /\ Asking' = Asking
    <3>1. packet \in Nat
      BY <1>1 DEF TypeOK
    <3>2. CASE offset + 1 = PacketSize
      <4>1. tick \notin Requesting /\ tick' \in Requesting /\ packet' = packet + 1
        BY <3>2, <1>14 DEF ReadByte, Reading, Requesting
      <4>2. QED BY <3>1, <4>1 DEF Asking
    <3>3. CASE offset + 1 # PacketSize
      BY <3>1, <3>3, <1>14 DEF ReadByte, After, Asking, Reading, Requesting
    <3>4. QED BY <3>2, <3>3
  <2>2. tick' \notin Requesting => packet' = packet
    BY <1>14 DEF ReadByte, Requesting
  <2>3. Answered' <=> Answered
    BY <1>14 DEF ReadByte, Answered
  <2>5. Holds(Asking + 1)' <=> Holds(Asking + 1)
    BY <2>1, <1>14 DEF ReadByte, Holds
  <2>6. tick' \notin Requesting => (Holds(packet)' <=> Holds(packet))
    BY <2>2, <1>14 DEF ReadByte, Holds
  <2>7. QED BY <1>1, <2>1, <2>2, <2>3, <2>5, <2>6, <1>14 DEF ReadByte, RingInOrder
<1>15. CASE ReadFreed
  BY <1>1, <1>15 DEF ReadFreed, Lose, RingInOrder
<1>16. CASE Request
  <2>1. SUFFICES ASSUME live, skew = {}
                 PROVE  RingInOrder'
    BY <1>16 DEF Request, RingInOrder
  <2>2. Asking + 1 = packet /\ Asking' = packet /\ packet' = packet
    <3>1. packet \in Nat
      BY <1>1 DEF TypeOK
    <3>2. tick \in Requesting /\ tick' \notin Requesting /\ packet' = packet
      BY <1>16 DEF Request, After, PartAsked, Requesting
    <3>3. QED BY <3>1, <3>2 DEF Asking
  <2>3. loop \notin {"aim", "copy", "ack"}
    BY <1>1, <1>16 DEF Request, Underrun, Places
  <2>4. "NOMORE" \notin flags => Holds(packet)
    BY <1>1, <2>1, <2>2, <1>16 DEF Request, Underrun, Answered, RingInOrder
  <2>5. "NOMORE" \in flags => length[1] < packet
    <3>1. length[1] \in Nat /\ packet \in Nat /\ Asking \in Int
      BY <1>1 DEF TypeOK, Asking
    <3>2. "NOMORE" \in flags => length[1] <= Asking
      BY <1>1, <2>1 DEF RingInOrder
    <3>3. QED BY <2>2, <3>1, <3>2
  <2>6. Holds(packet)' <=> Holds(packet)
    BY <2>2, <1>16 DEF Request, Holds
  <2>7. ~Answered'
    BY <2>3, <1>16 DEF Request, Answered
  <2>8. "NOMORE" \in flags' <=> "NOMORE" \in flags
    BY <1>16 DEF Request
  <2>9. QED
    BY <1>1, <2>2, <2>3, <2>4, <2>5, <2>6, <2>7, <2>8, <1>16
    DEF Request, RingInOrder, TypeOK
<1>17. CASE UnderrunInDelta
  BY <1>1, <1>17 DEF UnderrunInDelta, RingInOrder
<1>18. CASE EventFails
  BY <1>1, <1>18 DEF EventFails, RingInOrder
<1>19. CASE EventNow
  BY <1>1, <1>19 DEF EventNow, RingInOrder, Requesting, Holds, Answered, Asking
<1>20. CASE EventLater
  BY <1>1, <1>20 DEF EventLater, Return, RingInOrder, Requesting, Holds, Answered, Asking
<1>21. CASE Stop
  BY <1>1, <1>21 DEF Stop, RingInOrder
<1>22. CASE Clock
  BY <1>1, <1>22 DEF Clock, RingInOrder, Holds, Answered, Asking
<1>23. CASE FeedNothing
  BY <1>1, <1>23 DEF FeedNothing, RingInOrder, Holds, Answered, Asking
<1>24. CASE FeedEnd
  <2>1. SUFFICES ASSUME live, skew' = {}
                 PROVE  RingInOrder'
    BY <1>24 DEF FeedEnd, RingInOrder
  <2>2. skew = {} /\ tick \notin Requesting
    BY <2>1, <1>24 DEF FeedEnd, Raced
  <2>3. Asking' = packet /\ length[1] <= packet
    BY <1>1, <2>2, <1>24 DEF FeedEnd, Asking, TypeOK
  <2>4. Holds(packet)' <=> Holds(packet)
    BY <1>24 DEF FeedEnd, Holds
  <2>5. ~Answered'
    BY <1>24 DEF FeedEnd, Answered
  <2>6. QED BY <1>1, <2>1, <2>2, <2>3, <2>4, <2>5, <1>24 DEF FeedEnd, RingInOrder
<1>25. CASE FeedStart
  BY <1>1, <1>25 DEF FeedStart, Raced, RingInOrder, Holds, Answered, Asking
<1>26. CASE FeedAim
  BY <1>1, <1>26 DEF FeedAim, Raced, RingInOrder, Holds, Answered, Asking
<1>27. CASE FeedCopy
  <2>1. SUFFICES ASSUME live, skew = {}
                 PROVE  RingInOrder'
    BY <1>27 DEF FeedCopy, RingInOrder
  <2>2. start = Asking + 1 /\ half = 1 - (Asking % 2) /\ Asking \in Int
    BY <1>1, <2>1, <1>27 DEF FeedCopy, RingInOrder, Asking, TypeOK
  <2>3. Asking' = Asking
    BY <1>27 DEF FeedCopy, Asking
  <2>4. half = (Asking + 1) % 2
    BY <2>2
  <2>5. Holds(Asking + 1)'
    BY <1>1, <2>2, <2>3, <2>4, <1>27 DEF FeedCopy, Holds, TypeOK
  <2>6. tick \notin Requesting => (Holds(packet)' <=> Holds(packet))
    <3>1. SUFFICES ASSUME tick \notin Requesting PROVE Holds(packet)' <=> Holds(packet)
      OBVIOUS
    <3>2. packet % 2 \in 0 .. 1 /\ packet % 2 # half
      BY <1>1, <2>2, <3>1 DEF Asking, TypeOK
    <3>3. QED BY <1>1, <3>2, <1>27 DEF FeedCopy, Holds, TypeOK
  <2>7. flags = {"REQPKT"}
    BY <1>1, <1>27 DEF FeedCopy, Places
  <2>8. QED BY <1>1, <2>1, <2>3, <2>5, <2>6, <2>7, <1>27 DEF FeedCopy, RingInOrder
<1>28. CASE FeedAck
  BY <1>1, <1>28 DEF FeedAck, RingInOrder, Holds, Answered, Asking
<1>29. CASE FeedFails
  BY <1>1, <1>29 DEF FeedFails, RingInOrder
<1>30. CASE FeedFreed
  BY <1>1, <1>30 DEF FeedFreed, Lose, Places, RingInOrder
<1>31. CASE UNCHANGED vars
  BY <1>1, <1>31 DEF vars, RingInOrder, Holds, Answered, Asking
<1>32. QED
  BY <1>2, <1>3, <1>4, <1>5, <1>6, <1>7, <1>8, <1>9, <1>10, <1>11, <1>12, <1>13, <1>14,
     <1>15, <1>16, <1>17, <1>18, <1>19, <1>20, <1>21, <1>22, <1>23, <1>24, <1>25, <1>26,
     <1>27, <1>28, <1>29, <1>30, <1>31
  DEF Next, Play, Step, Feed

LEMMA TurnsStep ==
  ASSUME IInv, [Next]_vars PROVE TurnsAlternate'
<1>1. TypeOK /\ Places /\ TurnsAlternate
  BY DEF IInv
<1>2. CASE PlayMissing
  BY <1>1, <1>2 DEF PlayMissing, TurnsAlternate, InStep, Underrun, Asking
<1>3. CASE PlayOpen
  BY <1>1, <1>3 DEF PlayOpen, TurnsAlternate, InStep, Underrun, Asking
<1>4. CASE StartFails
  BY <1>1, <1>4
  DEF StartFails, Places, TurnsAlternate, InStep, Reading, Requesting, Underrun
<1>5. CASE StartOutOfMemory
  BY <1>1, <1>5
  DEF StartOutOfMemory, Places, TurnsAlternate, InStep, Reading, Requesting, Underrun
<1>6. CASE Start
  BY <1>1, <1>6 DEF Start, Places, TurnsAlternate, InStep, Reading, Requesting, Underrun
<1>7. CASE PlayOn
  BY <1>1, <1>7 DEF PlayOn, TurnsAlternate, InStep, Underrun, Asking
<1>8. CASE Handle
  BY <1>1, <1>8 DEF Handle, TurnsAlternate, InStep, Reading, Requesting, Underrun
<1>9. CASE Tick
  BY <1>1, <1>9 DEF Tick, TurnsAlternate
<1>10. CASE StepGone
  BY <1>1, <1>10 DEF StepGone, TurnsAlternate, InStep, Reading, Requesting, Underrun
<1>11. CASE StepEnd
  BY <1>1, <1>11 DEF StepEnd, Return, TurnsAlternate, InStep, Reading, Requesting, Underrun
<1>12. CASE StepWait
  BY <1>1, <1>12 DEF StepWait, Return, TurnsAlternate, InStep, Reading, Requesting
<1>13. CASE StepDue
  BY <1>1, <1>13 DEF StepDue, TypeOK, TurnsAlternate, Requesting, Underrun, Asking
<1>14. ASSUME NEW part \in Reading, ReadByte(part) PROVE TurnsAlternate'
  <2>1. /\ packet \in Nat /\ entry \in Nat
        /\ tick \in Reading /\ tick' \in {"event"} \union Reading \union Requesting
    BY <1>1, <1>14 DEF ReadByte, After, Reading, Requesting, TypeOK
  <2>2. Asking' = Asking
    <3>1. CASE offset + 1 = PacketSize
      <4>1. tick \notin Requesting /\ tick' \in Requesting /\ packet' = packet + 1
        BY <3>1, <1>14 DEF ReadByte, Reading, Requesting
      <4>2. QED BY <2>1, <4>1 DEF Asking
    <3>2. CASE offset + 1 # PacketSize
      BY <2>1, <3>2, <1>14 DEF ReadByte, After, Asking, Reading, Requesting
    <3>3. QED BY <3>1, <3>2
  <2>3. (Underrun' <=> Underrun) /\ InStep /\ tick' \notin {"step", "stop", "lost"}
    BY <2>1, <1>14 DEF ReadByte, Underrun, InStep, Reading, Requesting
  <2>4. QED BY <1>1, <2>2, <2>3, <1>14 DEF ReadByte, Places, TurnsAlternate
<1>15. CASE ReadFreed
  BY <1>1, <1>15 DEF ReadFreed, Lose, TurnsAlternate, InStep
<1>16. CASE Request
  <2>1. /\ packet \in Nat /\ entry \in Nat
        /\ tick \in Requesting /\ tick' \in {"event"} \union Reading
    BY <1>1, <1>16 DEF Request, After, PartAsked, Reading, TypeOK
  <2>2. Asking + 1 = packet /\ Asking' = packet /\ Asking \in Int
    <3>1. tick' \notin Requesting /\ packet' = packet
      BY <2>1, <1>16 DEF Request, Reading, Requesting
    <3>2. QED BY <2>1, <3>1 DEF Asking
  <2>3. InStep /\ tick' \notin {"step", "stop", "lost"}
    BY <2>1 DEF InStep, Reading
  <2>4. ~timer => entry < Asking'
    BY <1>1, <2>1, <2>2, <2>3 DEF TurnsAlternate
  <2>5. ~timer => loop = "tick"
    BY <1>1, <2>1 DEF Places, Requesting
  <2>6. QED
    BY <1>1, <2>1, <2>2, <2>3, <2>4, <2>5, <1>16 DEF Request, TurnsAlternate
<1>17. CASE UnderrunInDelta
  <2>1. /\ packet \in Nat /\ entry \in Nat
        /\ tick \in Requesting /\ tick' = "body"
    BY <1>1, <1>17 DEF UnderrunInDelta, Requesting, TypeOK
  <2>2. Asking + 1 = packet /\ Asking' = packet /\ Asking \in Int
    <3>1. tick' \notin Requesting /\ packet' = packet
      BY <2>1, <1>17 DEF UnderrunInDelta, Requesting
    <3>2. QED BY <2>1, <3>1 DEF Asking
  <2>3. InStep /\ (Underrun' <=> Underrun)
    BY <2>1, <1>17 DEF UnderrunInDelta, Underrun, InStep
  <2>4. ~timer => entry < Asking'
    BY <1>1, <2>1, <2>2, <2>3 DEF TurnsAlternate
  <2>5. ~timer => loop = "tick"
    BY <1>1, <2>1 DEF Places, Requesting
  <2>6. QED
    <3>1. live' = live /\ playing' = playing /\ timer' = timer /\ loop' = loop /\ entry' = entry
      BY <1>17 DEF UnderrunInDelta
    <3>2. ~timer => live /\ playing
      BY <1>1, <2>3, <2>5 DEF TurnsAlternate
    <3>3. QED BY <2>1, <2>2, <2>4, <2>5, <3>1, <3>2 DEF TurnsAlternate
<1>18. CASE EventFails
  BY <1>1, <1>18 DEF EventFails, Underrun, TurnsAlternate, InStep, Reading, Requesting
<1>19. CASE EventNow
  BY <1>1, <1>19 DEF EventNow, TurnsAlternate, InStep, Requesting, Underrun, Asking
<1>20. CASE EventLater
  BY <1>1, <1>20
  DEF EventLater, Return, TurnsAlternate, InStep, Requesting, Underrun, Asking
<1>21. CASE Stop
  BY <1>1, <1>21 DEF Stop, Return, TurnsAlternate, InStep, Reading, Requesting, Underrun
<1>22. CASE Clock
  BY <1>1, <1>22 DEF Clock, TurnsAlternate, InStep, Underrun, Asking
<1>23. CASE FeedNothing
  BY <1>1, <1>23
  DEF FeedNothing, Asked, TypeOK, TurnsAlternate, InStep, Flags, Underrun, Asking
<1>24. CASE FeedEnd
  BY <1>1, <1>24 DEF FeedEnd, TurnsAlternate, InStep, Underrun, Asking
<1>25. CASE FeedStart
  BY <1>1, <1>25 DEF FeedStart, TurnsAlternate, InStep, Underrun, Asking
<1>26. CASE FeedAim
  BY <1>1, <1>26 DEF FeedAim, TurnsAlternate, InStep, Underrun, Asking
<1>27. CASE FeedCopy
  BY <1>1, <1>27 DEF FeedCopy, TurnsAlternate, InStep, Underrun, Asking
<1>28. CASE FeedAck
  BY <1>1, <1>28 DEF FeedAck, TurnsAlternate, InStep, Underrun, Asking
<1>29. CASE FeedFails
  BY <1>1, <1>29 DEF FeedFails, Places, TurnsAlternate, InStep, Reading, Requesting
<1>30. CASE FeedFreed
  BY <1>1, <1>30
  DEF FeedFreed, Lose, Places, TurnsAlternate, InStep, Reading, Requesting, Underrun
<1>31. CASE UNCHANGED vars
  BY <1>1, <1>31 DEF vars, TurnsAlternate, InStep, Underrun, Asking
<1>32. QED
  BY <1>2, <1>3, <1>4, <1>5, <1>6, <1>7, <1>8, <1>9, <1>10, <1>11, <1>12, <1>13, <1>14,
     <1>15, <1>16, <1>17, <1>18, <1>19, <1>20, <1>21, <1>22, <1>23, <1>24, <1>25, <1>26,
     <1>27, <1>28, <1>29, <1>30, <1>31
  DEF Next, Play, Step, Feed

LEMMA EventStep ==
  ASSUME IInv, [Next]_vars PROVE EventIsNext'
<1>1. TypeOK /\ Places /\ EventIsNext
  BY DEF IInv
<1>2. CASE PlayMissing
  BY <1>1, <1>2 DEF PlayMissing, EventIsNext, OldEventIsLast, InStep, AtEnd, PastEnd
<1>3. CASE PlayOpen
  BY <1>1, <1>3 DEF PlayOpen, EventIsNext, OldEventIsLast, InStep, AtEnd, PastEnd
<1>4. CASE StartFails
  BY <1>1, <1>4
  DEF StartFails, Replaced, EventIsNext, OldEventIsLast, InStep, BrokenOff, Causes
<1>5. CASE StartOutOfMemory
  BY <1>1, <1>5
  DEF StartOutOfMemory, Replaced, EventIsNext, OldEventIsLast, InStep, BrokenOff, Causes
<1>6. CASE Start
  <2>1. song \in Nat /\ song' = song + 1 /\ event.song \in Nat /\ event' = event /\ tick' = tick
    BY <1>1, <1>6 DEF Start, TypeOK, Songs
  <2>2. event.song = song /\ song # 0 => event.last \/ BrokenOff(song, cut')
    BY <1>1, <1>6 DEF Start, Replaced, EventIsNext, BrokenOff, Causes
  <2>3. cut \subseteq cut'
    BY <1>6 DEF Start, Replaced
  <2>4. ASSUME NEW s, BrokenOff(s, cut) PROVE BrokenOff(s, cut')
    BY <2>3, <2>4 DEF BrokenOff
  <2>5. event.song \in {0, song} \/ event.last \/ BrokenOff(event.song, cut')
    BY <1>1, <2>4 DEF EventIsNext, OldEventIsLast
  <2>6. OldEventIsLast'
    BY <2>1, <2>2, <2>5 DEF OldEventIsLast
  <2>7. InStep' <=> InStep
    BY <2>1 DEF InStep
  <2>8. QED BY <1>1, <2>1, <2>6, <2>7, <1>6 DEF Start, EventIsNext
<1>7. CASE PlayOn
  BY <1>1, <1>7 DEF PlayOn, EventIsNext, OldEventIsLast, InStep, AtEnd, PastEnd
<1>8. CASE Handle
  BY <1>1, <1>8
  DEF Handle, EventIsNext, OldEventIsLast, InStep, Reading, Requesting, AtEnd, PastEnd
<1>9. CASE Tick
  BY <1>1, <1>9
  DEF Tick, EventIsNext, OldEventIsLast, InStep, Reading, Requesting, AtEnd, PastEnd
<1>10. CASE StepGone
  BY <1>1, <1>10 DEF StepGone, EventIsNext, OldEventIsLast, InStep, Reading, Requesting
<1>11. CASE StepEnd
  BY <1>1, <1>11
  DEF StepEnd, Return, EventIsNext, OldEventIsLast, InStep, Reading, Requesting
<1>12. CASE StepWait
  BY <1>1, <1>12
  DEF StepWait, Return, Places, EventIsNext, OldEventIsLast, InStep, Reading, Requesting,
      AtEnd, PastEnd
<1>13. CASE StepDue
  BY <1>1, <1>13 DEF StepDue, TypeOK, Songs, EventIsNext, OldEventIsLast
<1>14. ASSUME NEW part \in Reading, ReadByte(part) PROVE EventIsNext'
  BY <1>1, <1>14 DEF ReadByte, EventIsNext, OldEventIsLast, InStep
<1>15. CASE ReadFreed
  BY <1>1, <1>15 DEF ReadFreed, Lose, EventIsNext, OldEventIsLast, InStep
<1>16. CASE Request
  BY <1>1, <1>16 DEF Request, EventIsNext, OldEventIsLast, InStep
<1>17. CASE UnderrunInDelta
  BY <1>1, <1>17 DEF UnderrunInDelta, TypeOK, EventIsNext, OldEventIsLast, InStep
<1>18. CASE EventFails
  BY <1>1, <1>18 DEF EventFails, EventIsNext, OldEventIsLast, InStep, Reading, Requesting
<1>19. CASE EventNow
  BY <1>1, <1>19 DEF EventNow, EventIsNext, OldEventIsLast, InStep
<1>20. CASE EventLater
  <2>1. AtEnd' <=> AtEnd
    BY <1>20 DEF EventLater, AtEnd, PastEnd
  <2>2. event'.song = song /\ (AtEnd => event'.last)
    BY <1>20 DEF EventLater
  <2>3. ~InStep' /\ tick' = "idle"
    BY <1>20 DEF EventLater, Return, InStep, Reading, Requesting
  <2>4. song \in Nat /\ song' = song
    BY <1>1, <1>20 DEF EventLater, TypeOK, Songs
  <2>5. live' => live /\ (~playing => loop' = "on")
    BY <1>1, <1>20 DEF EventLater, Return, Places, EventIsNext
  <2>6. live \/ BrokenOff(song, cut')
    BY <1>1, <1>20 DEF EventLater, EventIsNext, InStep, BrokenOff
  <2>7. OldEventIsLast'
    BY <2>2, <2>4 DEF OldEventIsLast
  <2>8. QED
    BY <2>1, <2>2, <2>3, <2>4, <2>5, <2>6, <2>7, <1>20 DEF EventLater, EventIsNext
<1>21. CASE Stop
  BY <1>1, <1>21 DEF Stop, Return, EventIsNext, OldEventIsLast, InStep, Reading, Requesting
<1>22. CASE Clock
  BY <1>1, <1>22 DEF Clock, EventIsNext, OldEventIsLast, InStep, AtEnd, PastEnd
<1>23. CASE FeedNothing
  BY <1>1, <1>23 DEF FeedNothing, EventIsNext, OldEventIsLast, InStep, AtEnd, PastEnd
<1>24. CASE FeedEnd
  BY <1>1, <1>24 DEF FeedEnd, EventIsNext, OldEventIsLast, InStep, AtEnd, PastEnd
<1>25. CASE FeedStart
  BY <1>1, <1>25 DEF FeedStart, EventIsNext, OldEventIsLast, InStep, AtEnd, PastEnd
<1>26. CASE FeedAim
  BY <1>1, <1>26 DEF FeedAim, EventIsNext, OldEventIsLast, InStep, AtEnd, PastEnd
<1>27. CASE FeedCopy
  BY <1>1, <1>27 DEF FeedCopy, EventIsNext, OldEventIsLast, InStep, AtEnd, PastEnd
<1>28. CASE FeedAck
  BY <1>1, <1>28 DEF FeedAck, EventIsNext, OldEventIsLast, InStep, AtEnd, PastEnd
<1>29. CASE FeedFails
  BY <1>1, <1>29 DEF FeedFails, EventIsNext, OldEventIsLast, InStep, BrokenOff, Causes
<1>30. CASE FeedFreed
  BY <1>1, <1>30
  DEF FeedFreed, Lose, EventIsNext, OldEventIsLast, InStep, Reading, Requesting, AtEnd,
      PastEnd
<1>31. CASE UNCHANGED vars
  BY <1>1, <1>31 DEF vars, EventIsNext, OldEventIsLast, InStep, AtEnd, PastEnd
<1>32. QED
  BY <1>2, <1>3, <1>4, <1>5, <1>6, <1>7, <1>8, <1>9, <1>10, <1>11, <1>12, <1>13, <1>14,
     <1>15, <1>16, <1>17, <1>18, <1>19, <1>20, <1>21, <1>22, <1>23, <1>24, <1>25, <1>26,
     <1>27, <1>28, <1>29, <1>30, <1>31
  DEF Next, Play, Step, Feed

LEMMA EndsStep ==
  ASSUME IInv, [Next]_vars PROVE EndsInOrder'
<1>1. TypeOK /\ Places /\ EventIsNext /\ EndsInOrder
  BY DEF IInv
<1>2. CASE PlayMissing
  BY <1>1, <1>2 DEF PlayMissing, EndsInOrder, AtEnd, PastEnd
<1>3. CASE PlayOpen
  BY <1>1, <1>3 DEF PlayOpen, EndsInOrder, AtEnd, PastEnd
<1>4. CASE StartFails
  BY <1>1, <1>4 DEF StartFails, Replaced, EndsInOrder, BrokenOff, Causes
<1>5. CASE StartOutOfMemory
  BY <1>1, <1>5 DEF StartOutOfMemory, Replaced, EndsInOrder, BrokenOff, Causes
<1>6. CASE Start
  BY <1>1, <1>6 DEF Start, EndsInOrder
<1>7. CASE PlayOn
  BY <1>1, <1>7 DEF PlayOn, EndsInOrder
<1>8. CASE Handle
  BY <1>1, <1>8 DEF Handle, EndsInOrder, AtEnd, PastEnd
<1>9. CASE Tick
  BY <1>1, <1>9 DEF Tick, EndsInOrder, AtEnd, PastEnd
<1>10. CASE StepGone
  BY <1>1, <1>10 DEF StepGone, EndsInOrder, AtEnd, PastEnd
<1>11. CASE StepEnd
  BY <1>1, <1>11 DEF StepEnd, Return, EndsInOrder, AtEnd, PastEnd
<1>12. CASE StepWait
  BY <1>1, <1>12 DEF StepWait, Return, EndsInOrder
<1>13. CASE StepDue
  BY <1>1, <1>13 DEF StepDue, EndsInOrder
<1>14. ASSUME NEW part \in Reading, ReadByte(part) PROVE EndsInOrder'
  BY <1>1, <1>14 DEF ReadByte, After, EndsInOrder, Reading
<1>15. CASE ReadFreed
  BY <1>1, <1>15 DEF ReadFreed, Lose, EndsInOrder, AtEnd, PastEnd
<1>16. CASE Request
  BY <1>1, <1>16 DEF Request, After, PartAsked, EndsInOrder, Requesting, AtEnd, PastEnd
<1>17. CASE UnderrunInDelta
  BY <1>1, <1>17 DEF UnderrunInDelta, EndsInOrder
<1>18. CASE EventFails
  BY <1>1, <1>18 DEF EventFails, EndsInOrder, BrokenOff, Causes
<1>19. CASE EventNow
  BY <1>1, <1>19 DEF EventNow, EndsInOrder
<1>20. CASE EventLater
  BY <1>1, <1>20 DEF EventLater, Return, EndsInOrder, AtEnd, PastEnd
<1>21. CASE Stop
  BY <1>1, <1>21 DEF Stop, Return, EndsInOrder
<1>22. CASE Clock
  BY <1>1, <1>22 DEF Clock, EndsInOrder, AtEnd, PastEnd
<1>23. CASE FeedNothing
  BY <1>1, <1>23 DEF FeedNothing, EndsInOrder, AtEnd, PastEnd
<1>24. CASE FeedEnd
  BY <1>1, <1>24 DEF FeedEnd, Raced, EndsInOrder, AtEnd, PastEnd
<1>25. CASE FeedStart
  BY <1>1, <1>25 DEF FeedStart, Raced, EndsInOrder, AtEnd, PastEnd
<1>26. CASE FeedAim
  BY <1>1, <1>26 DEF FeedAim, Raced, EndsInOrder, AtEnd, PastEnd
<1>27. CASE FeedCopy
  BY <1>1, <1>27 DEF FeedCopy, EndsInOrder, AtEnd, PastEnd
<1>28. CASE FeedAck
  BY <1>1, <1>28 DEF FeedAck, EndsInOrder, AtEnd, PastEnd
<1>29. CASE FeedFails
  BY <1>1, <1>29 DEF FeedFails, EndsInOrder
<1>30. CASE FeedFreed
  BY <1>1, <1>30 DEF FeedFreed, Lose, EndsInOrder, AtEnd, PastEnd
<1>31. CASE UNCHANGED vars
  BY <1>1, <1>31 DEF vars, EndsInOrder, AtEnd, PastEnd
<1>32. QED
  BY <1>2, <1>3, <1>4, <1>5, <1>6, <1>7, <1>8, <1>9, <1>10, <1>11, <1>12, <1>13, <1>14,
     <1>15, <1>16, <1>17, <1>18, <1>19, <1>20, <1>21, <1>22, <1>23, <1>24, <1>25, <1>26,
     <1>27, <1>28, <1>29, <1>30, <1>31
  DEF Next, Play, Step, Feed

LEMMA InvInit == Init => IInv
<1>1. Init => TypeOK
  <2>1. 0 \in Songs /\ 0 \in 0 .. PacketSize - 1
    BY PacketAssumption, SongsAssumption DEF Songs, PacketAssumption, SongsAssumption
  <2>2. [h \in 0 .. 1 |-> [song |-> 0, packet |-> 0]] \in [0 .. 1 -> Content]
    BY <2>1 DEF Content
  <2>3. <<0, 0>> \in Nat \X (0 .. PacketSize - 1)
    BY <2>1
  <2>4. [song |-> 0, last |-> FALSE] \in [song : Songs, last : BOOLEAN]
    BY <2>1
  <2>5. Init => ring \in [0 .. 1 -> Content] /\ length \in Nat \X (0 .. PacketSize - 1)
    BY <2>2, <2>3 DEF Init
  <2>6. Init => event \in [song : Songs, last : BOOLEAN]
    BY <2>4 DEF Init
  <2>7. Init => /\ flags \subseteq Flags /\ skew \subseteq {"race", "underrun"}
                /\ cut \subseteq Songs \X Causes
    BY DEF Init
  <2>8. Init => half \in 0 .. 1 /\ song \in Songs /\ offset \in 0 .. PacketSize - 1
    BY <2>1 DEF Init
  <2>9. Init => /\ timer \in BOOLEAN /\ playing \in BOOLEAN /\ asset \in BOOLEAN
                /\ live \in BOOLEAN /\ due \in BOOLEAN
    BY Zenon DEF Init
  <2>10. Init => packet \in Nat /\ start \in Nat /\ entry \in Nat
    BY DEF Init
  <2>11. Init => context = "none" /\ tick = "idle" /\ loop = "idle"
    BY DEF Init
  <2>12. QED BY <2>5, <2>6, <2>7, <2>8, <2>9, <2>10, <2>11 DEF TypeOK
<1>2. Init => Places /\ RingInOrder /\ TurnsAlternate /\ EventIsNext /\ EndsInOrder
  BY DEF Init, Places, RingInOrder, TurnsAlternate, EventIsNext, EndsInOrder,
         OldEventIsLast, InStep, Reading, Requesting, Underrun
<1>3. QED BY <1>1, <1>2 DEF IInv

LEMMA InvStep == IInv /\ [Next]_vars => IInv'
  BY TypeStep, PlacesStep, RingStep, TurnsStep, EventStep, EndsStep DEF IInv

THEOREM SequencerInvariant == Spec => []IInv
  BY InvInit, InvStep, PTL DEF Spec

(* Every variable stays within its type, the position within a packet.     *)
THEOREM SequencerTypeOK == Spec => []TypeOK
<1>1. IInv => TypeOK
  BY DEF IInv
<1>2. QED BY <1>1, SequencerInvariant, PTL

(* The player takes the bytes of a track in order from the half that holds *)
(* them, whenever ticks and feeding interleave (seq.c:228, buf.c:21).      *)
THEOREM SequencerReadsInOrder == Spec => []ReadsInOrder
<1>1. IInv => ReadsInOrder
  <2>1. SUFFICES ASSUME IInv, tick \in Reading, live, ~AtEnd, skew = {}
                 PROVE  Holds(packet)
    BY DEF ReadsInOrder, Holds
  <2>2. packet <= length[1]
    BY <2>1 DEF IInv, TypeOK, AtEnd, PastEnd
  <2>3. tick \notin Requesting
    BY <2>1 DEF Reading, Requesting
  <2>4. QED BY <2>1, <2>2, <2>3 DEF IInv, RingInOrder
<1>2. QED BY <1>1, SequencerInvariant, PTL

(* No byte is taken from the half that is being filled (buf.c:82).         *)
THEOREM SequencerHalvesApart == Spec => []HalvesApart
<1>1. IInv => HalvesApart
  <2>1. SUFFICES ASSUME IInv, loop = "copy", live, tick \in Reading, skew = {}
                 PROVE  half # packet % 2
    BY DEF HalvesApart
  <2>2. half = 1 - (packet % 2) /\ packet \in Nat
    BY <2>1 DEF IInv, TypeOK, RingInOrder, Asking, Reading, Requesting
  <2>3. QED BY <2>2
<1>2. QED BY <1>1, SequencerInvariant, PTL

(* Without a timer an underrun takes a step longer than a packet           *)
(* (snd.c:202-209).                                                        *)
THEOREM SequencerUnderrunNeedsBurst == Spec => []UnderrunNeedsBurst
<1>1. IInv => UnderrunNeedsBurst
  <2>1. SUFFICES ASSUME IInv, ~timer, tick \in Requesting, Underrun
                 PROVE  packet >= entry + 2
    BY DEF UnderrunNeedsBurst
  <2>2. entry < Asking /\ Asking = packet - 1
    BY <2>1 DEF IInv, TurnsAlternate, InStep, Asking
  <2>3. entry \in Nat /\ packet \in Nat
    BY <2>1 DEF IInv, TypeOK
  <2>4. QED BY <2>2, <2>3
<1>2. QED BY <1>1, SequencerInvariant, PTL

(* Without a timer only an unreadable event makes the feeder use freed     *)
(* memory (snd.c:205).                                                     *)
THEOREM SequencerEndedSongIsNotFed == Spec => []EndedSongIsNotFed
<1>1. IInv => EndedSongIsNotFed
  BY DEF IInv, TurnsAlternate, EndedSongIsNotFed
<1>2. QED BY <1>1, SequencerInvariant, PTL

(* Of an earlier song only its last event is played, unless it was broken  *)
(* off (seq.c:151, seq.c:168).                                             *)
THEOREM SequencerOldEventIsLast == Spec => []OldEventIsLast
<1>1. IInv => OldEventIsLast
  BY DEF IInv, EventIsNext
<1>2. QED BY <1>1, SequencerInvariant, PTL

(* A song plays to its end unless it is broken off (snd.c:176).            *)
THEOREM SequencerPlaysToTheEnd == Spec => PlaysToTheEnd
<1> DEFINE Ends == playing /\ ~playing' => AtEnd \/ BrokenOff(song, cut') \/ skew # {}
<1>1. ASSUME IInv, Stop, playing, skew = {} PROVE AtEnd \/ BrokenOff(song, cut')
  BY <1>1 DEF IInv, EndsInOrder, Stop, BrokenOff
<1>2. ASSUME FeedFails PROVE BrokenOff(song, cut')
  BY <1>2 DEF FeedFails, BrokenOff, Causes
<1>3. ASSUME Next, playing, ~playing' PROVE Stop \/ FeedFails
  BY <1>3
  DEF Next, Play, Step, Feed, PlayMissing, PlayOpen, StartFails, StartOutOfMemory, Start, PlayOn,
      Handle, Tick, StepGone, StepEnd, StepWait, StepDue, ReadByte, ReadFreed, Lose, Request,
      UnderrunInDelta, EventFails, EventNow, EventLater, Clock, FeedNothing, FeedEnd, FeedStart,
      FeedAim, FeedCopy, FeedAck, FeedFreed
<1>4. IInv /\ [Next]_vars => [Ends]_vars
  BY <1>1, <1>2, <1>3
<1>5. QED BY <1>4, SequencerInvariant, PTL DEF Spec, PlaysToTheEnd
============================================================================
