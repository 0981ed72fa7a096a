----------------------------- MODULE Sequencer -----------------------------
(***************************************************************************)
(* Music: snd/snd.c, seq.c, buf.c, midi.c and the chunks of iff.c.         *)
(*                                                                         *)
(* snd_tick() plays what is due, taking bytes of the track out of a ring   *)
(* of two packets; sndseq_feed() reads the next packet into the half that  *)
(* is not being played.  Where there is a timer (Windows), the ticks run   *)
(* on a thread of their own and interleave with the main loop, which feeds *)
(* and starts songs; elsewhere the main loop does all of it, a tick and    *)
(* then a feed.  The flags pass a request (REQPKT) to the feeder and its   *)
(* answer (ACKPKT, NOMORE) back.                                           *)
(*                                                                         *)
(* A position is a number of whole packets and an offset into the next, as *)
(* every use of it divides by the size of a packet.  The bytes of an event *)
(* are those of its delta time and those of its body; which values they    *)
(* have, and what the device makes of them, is left out.                   *)
(***************************************************************************)
EXTENDS Naturals

CONSTANTS
  PacketSize,     \* SND_PACKET_SIZE
  Lengths,        \* lengths of tracks: <<whole packets, remaining bytes>>
  MaxSongs        \* bound: how many songs are started

ASSUME PacketAssumption == PacketSize \in Nat \ {0}
ASSUME LengthsAssumption == Lengths \subseteq Nat \X (0 .. PacketSize - 1)
ASSUME SongsAssumption == MaxSongs \in Nat

VARIABLES
  timer,          \* CONFIG_HAVE_TIMER; never changes
  playing,        \* _playing
  song,           \* number of songs started; the last one is in the buffer
  asset,          \* whether _asset is an open handle
  context,        \* _iff: "none", "open", or "freed" while still pointed to
  live,           \* whether _buffer.data is allocated
  length,         \* _track_length
  packet, offset, \* _buffer.position
  ring,           \* _buffer.data: which packet of which song is in each half
  flags,          \* _buffer.flags
  event, due,     \* _event, not yet written, and whether _next_event has come
  tick,           \* where snd_tick() is
  loop,           \* where the main loop is
  start, half,    \* packet_start and the destination, in sndseq_feed()
  entry,          \* history: the packet in which this step began
  skew,           \* history: what has upset the order of bytes in this song
  cut             \* history: the songs that were broken off, and why

life == <<playing, song, asset, context, live, length>>
position == <<packet, offset>>
clock == <<event, due>>
feed == <<start, half>>
history == <<entry, skew, cut>>
vars == <<timer, life, position, ring, flags, clock, tick, loop, feed, history>>

------------------------------------------------------------------------------
Songs == 0 .. MaxSongs          \* 0: none
Causes == {"replaced", "unreadable", "unfed"}
BrokenOff(s, broken) == \E cause \in Causes : <<s, cause>> \in broken
Content == [song : Songs, packet : Nat]
Requesting == {"delta request", "body request"}
Reading == {"delta", "body"}
Flags == {"REQPKT", "ACKPKT", "NOMORE"}

PastEnd(p, o) == length[1] < p \/ (length[1] = p /\ length[2] <= o)
AtEnd == PastEnd(packet, offset)

(* What follows a byte: another one of the same kind, or the next part.    *)
(* An event that runs across the end of the track stops soon after it.     *)
After(part, ended) ==
  LET next == IF part = "delta" THEN "body" ELSE "event"
  IN  IF ended THEN {next} ELSE {part, next}

(* The program uses memory it has freed; nothing more is said of it.       *)
Lose == /\ tick' = "lost" /\ loop' = "lost"
        /\ UNCHANGED <<timer, life, position, ring, flags, clock, feed, history>>

Init ==
  /\ timer \in BOOLEAN
  /\ playing = FALSE /\ song = 0 /\ asset = FALSE /\ context = "none" /\ live = FALSE
  /\ length = <<0, 0>> /\ packet = 0 /\ offset = 0
  /\ ring = [h \in 0 .. 1 |-> [song |-> 0, packet |-> 0]] /\ flags = {}
  /\ event = [song |-> 0, last |-> FALSE] /\ due = TRUE
  /\ tick = "idle" /\ loop = "idle" /\ start = 0 /\ half = 0
  /\ entry = 0 /\ skew = {} /\ cut = {}

------------------------------------------------------------------------------
(* snd_play(): the old song's asset is closed before the new one's opens,  *)
(* and it goes on playing from its buffer if there is none.                *)
PlayMissing ==
  /\ loop = "idle" /\ song < MaxSongs
  /\ asset' = FALSE
  /\ UNCHANGED <<timer, playing, song, context, live, length, position, ring, flags,
                 clock, tick, loop, feed, history>>

PlayOpen ==
  /\ loop = "idle" /\ song < MaxSongs
  /\ asset' = TRUE /\ loop' = "start"
  /\ UNCHANGED <<timer, playing, song, context, live, length, position, ring, flags,
                 clock, tick, feed, history>>

Replaced == IF playing THEN cut \union {<<song, "replaced">>} ELSE cut

(* No song in the file: its context and the buffer are freed.              *)
StartFails ==
  /\ loop = "start"
  /\ asset' = FALSE /\ context' = "freed" /\ live' = FALSE /\ loop' = "idle"
  /\ cut' = Replaced
  /\ UNCHANGED <<timer, playing, song, length, position, ring, flags, clock, tick,
                 feed, entry, skew>>

(* No memory for the buffer: sndseq_start() has reset it already.          *)
StartOutOfMemory ==
  /\ loop = "start"
  /\ asset' = FALSE /\ context' = "open" /\ live' = FALSE /\ loop' = "idle"
  /\ packet' = 0 /\ offset' = 0 /\ flags' = {}
  /\ cut' = Replaced
  /\ UNCHANGED <<timer, playing, song, length, ring, clock, tick, feed, entry, skew>>

(* The buffer starts with the first two packets.  A timer that is playing  *)
(* meanwhile sees the buffer change under it.                              *)
Start ==
  /\ loop = "start"
  /\ song' = song + 1
  /\ length' \in Lengths
  /\ context' = "open" /\ live' = TRUE
  /\ packet' = 0 /\ offset' = 0 /\ flags' = {}
  /\ ring' = [h \in 0 .. 1 |-> [song |-> song + 1, packet |-> h]]
  /\ skew' = IF playing \/ tick # "idle" THEN {"race"} ELSE {}
  /\ cut' = Replaced
  /\ loop' = "on"
  /\ UNCHANGED <<timer, playing, asset, clock, tick, feed, entry>>

PlayOn ==
  /\ loop = "on"
  /\ playing' = TRUE /\ loop' = "idle"
  /\ UNCHANGED <<timer, song, asset, context, live, length, position, ring, flags,
                 clock, tick, feed, history>>

------------------------------------------------------------------------------
(* snd_handle() in the main loop: a tick of its own if there is no timer.  *)
Handle ==
  /\ loop = "idle" /\ playing
  /\ IF timer THEN loop' = "feed" /\ UNCHANGED tick
              ELSE loop' = "tick" /\ tick' = "step"
  /\ UNCHANGED <<timer, life, position, ring, flags, clock, feed, history>>

Tick ==
  /\ timer /\ tick = "idle" /\ playing
  /\ tick' = "step"
  /\ UNCHANGED <<timer, life, position, ring, flags, clock, loop, feed, history>>

(* The end of snd_tick(); without a timer sndseq_feed() comes next.        *)
Return == /\ tick' = "idle"
          /\ loop' = IF timer THEN loop ELSE "feed"

(* Mutant: no buffer is taken for nothing to do.                           *)
StepGoneIdle ==
  /\ tick = "step" /\ ~live
  /\ Return
  /\ UNCHANGED <<timer, life, position, ring, flags, clock, feed, history>>

(* sndseq_step() without a buffer: the song has ended, or never began.     *)
StepGone ==
  /\ tick = "step" /\ ~live
  /\ tick' = "stop"
  /\ UNCHANGED <<timer, life, position, ring, flags, clock, loop, feed, history>>

(* Mutant: the track ends with its last whole packet.                      *)
StepEndWholePackets ==
  /\ tick = "step" /\ live /\ length[1] <= packet
  /\ live' = FALSE /\ context' = "freed"
  /\ Return
  /\ UNCHANGED <<timer, playing, song, asset, length, position, ring, flags, clock,
                 feed, history>>

StepEnd ==
  /\ tick = "step" /\ live /\ AtEnd
  /\ live' = FALSE /\ context' = "freed"
  /\ Return
  /\ UNCHANGED <<timer, playing, song, asset, length, position, ring, flags, clock,
                 feed, history>>

(* Mutant: an event that is not due is taken for a failure.                *)
StepWaitFails ==
  /\ tick = "step" /\ live /\ ~AtEnd /\ ~due
  /\ tick' = "stop"
  /\ UNCHANGED <<timer, life, position, ring, flags, clock, loop, feed, history>>

StepWait ==
  /\ tick = "step" /\ live /\ ~AtEnd /\ ~due
  /\ Return
  /\ UNCHANGED <<timer, life, position, ring, flags, clock, feed, history>>

(* The pending event, of whatever song, is written and the next one read.  *)
StepDue ==
  /\ tick = "step" /\ live /\ ~AtEnd /\ due
  /\ event' = [song |-> 0, last |-> FALSE]
  /\ tick' = "delta"
  /\ entry' = packet
  /\ UNCHANGED <<timer, life, position, ring, flags, due, loop, feed, skew, cut>>

(* sndbuf_read(): a byte is taken and the position moves on; at the end of *)
(* a half the next packet is still to be requested.                        *)
ReadByte(part) ==
  /\ tick = part /\ live
  /\ IF offset + 1 = PacketSize
       THEN /\ packet' = packet + 1 /\ offset' = 0
            /\ tick' = IF part = "delta" THEN "delta request" ELSE "body request"
       ELSE /\ packet' = packet /\ offset' = offset + 1
            /\ tick' \in After(part, PastEnd(packet, offset + 1))
  /\ UNCHANGED <<timer, life, ring, flags, clock, loop, feed, history>>

ReadFreed == tick \in Reading /\ ~live /\ Lose

PartAsked == IF tick = "delta request" THEN "delta" ELSE "body"

Underrun == "NOMORE" \notin flags /\ "REQPKT" \in flags /\ "ACKPKT" \notin flags

(* Mutant: the last answer is left standing.                               *)
RequestKeepsAnswer ==
  /\ tick \in Requesting /\ ~Underrun
  /\ flags' = IF "NOMORE" \in flags THEN flags ELSE flags \union {"REQPKT"}
  /\ tick' \in After(PartAsked, AtEnd)
  /\ UNCHANGED <<timer, life, position, ring, clock, loop, feed, history>>

(* request_packet() *)
Request ==
  /\ tick \in Requesting /\ ~Underrun
  /\ flags' = IF "NOMORE" \in flags THEN flags ELSE (flags \ {"ACKPKT"}) \union {"REQPKT"}
  /\ tick' \in After(PartAsked, AtEnd)
  /\ UNCHANGED <<timer, life, position, ring, clock, loop, feed, history>>

(* midi_read_vlq() answers 0 for a byte it could not get, and              *)
(* midi_read_event() takes only a negative answer for a failure: an        *)
(* underrun inside a delta time goes unnoticed.                            *)
UnderrunInDelta ==
  /\ tick = "delta request" /\ Underrun
  /\ skew' = skew \union {"underrun"}
  /\ tick' = "body"
  /\ UNCHANGED <<timer, life, position, ring, flags, clock, loop, feed, entry, cut>>

(* An event that cannot be read, for an underrun or for its contents: the  *)
(* step frees buffer and context and fails.                                *)
EventFails ==
  /\ (tick = "body request" /\ Underrun) \/ tick = "body"
  /\ live' = FALSE /\ context' = "freed"
  /\ cut' = cut \union {<<song, "unreadable">>}
  /\ tick' = "stop"
  /\ UNCHANGED <<timer, playing, song, asset, length, position, ring, flags, clock,
                 loop, feed, entry, skew>>

(* An event without delta is written at once, unless it is the last one.   *)
EventNow ==
  /\ tick = "event" /\ ~AtEnd
  /\ tick' = "delta"
  /\ UNCHANGED <<timer, life, position, ring, flags, clock, loop, feed, history>>

EventLater ==
  /\ tick = "event"
  /\ event' = [song |-> song, last |-> AtEnd]
  /\ due' \in BOOLEAN
  /\ Return
  /\ UNCHANGED <<timer, life, position, ring, flags, feed, history>>

(* snd_tick() after a step that failed: sndseq_close().                    *)
Stop ==
  /\ tick = "stop"
  /\ playing' = FALSE /\ live' = FALSE /\ asset' = FALSE
  /\ Return
  /\ UNCHANGED <<timer, song, context, length, position, ring, flags, clock, feed, history>>

Clock ==
  /\ ~due
  /\ due' = TRUE
  /\ UNCHANGED <<timer, life, position, ring, flags, event, tick, loop, feed, history>>

------------------------------------------------------------------------------
(* Mutant: the answer is not looked at.                                    *)
AskedEver == "REQPKT" \in flags

(* sndseq_feed() *)
Asked == flags = {"REQPKT"}

(* The feeder looks at the position where the player has moved it, but not *)
(* yet asked for the packet after the one it enters.                       *)
Raced == IF tick \in Requesting THEN skew \union {"race"} ELSE skew

FeedNothing ==
  /\ loop = "feed" /\ ~Asked
  /\ loop' = "idle"
  /\ UNCHANGED <<timer, life, position, ring, flags, clock, tick, feed, history>>

FeedEnd ==
  /\ loop = "feed" /\ Asked /\ length[1] < packet + 1
  /\ flags' = flags \union {"NOMORE"}
  /\ skew' = Raced
  /\ loop' = "idle"
  /\ UNCHANGED <<timer, life, position, ring, clock, tick, feed, entry, cut>>

FeedStart ==
  /\ loop = "feed" /\ Asked /\ length[1] >= packet + 1
  /\ start' = packet + 1
  /\ skew' = Raced
  /\ loop' = "aim"
  /\ UNCHANGED <<timer, life, position, ring, flags, clock, tick, half, entry, cut>>

(* Mutants: the half that is being played; the half after the other one.   *)
FeedAimSame ==
  /\ loop = "aim"
  /\ half' = packet % 2
  /\ skew' = Raced
  /\ loop' = "copy"
  /\ UNCHANGED <<timer, life, position, ring, flags, clock, tick, start, entry, cut>>

FeedAimBeyond ==
  /\ loop = "aim"
  /\ half' = 1 + (packet % 2)
  /\ skew' = Raced
  /\ loop' = "copy"
  /\ UNCHANGED <<timer, life, position, ring, flags, clock, tick, start, entry, cut>>

(* sndbuf_next_packet() *)
FeedAim ==
  /\ loop = "aim"
  /\ half' = 1 - (packet % 2)
  /\ skew' = Raced
  /\ loop' = "copy"
  /\ UNCHANGED <<timer, life, position, ring, flags, clock, tick, start, entry, cut>>

FeedCopy ==
  /\ loop = "copy" /\ context = "open" /\ live /\ asset
  /\ ring' = [ring EXCEPT ![half] = [song |-> song, packet |-> start]]
  /\ loop' = "ack"
  /\ UNCHANGED <<timer, life, position, flags, clock, tick, feed, history>>

(* Mutant: the packet comes without an answer.                             *)
FeedAckSilent ==
  /\ loop = "ack"
  /\ loop' = "idle"
  /\ UNCHANGED <<timer, life, position, ring, flags, clock, tick, feed, history>>

FeedAck ==
  /\ loop = "ack"
  /\ flags' = flags \union {"ACKPKT"}
  /\ loop' = "idle"
  /\ UNCHANGED <<timer, life, position, ring, clock, tick, feed, history>>

(* The asset has been closed for a song that could not be opened.          *)
FeedFails ==
  /\ loop = "copy" /\ context = "open" /\ live /\ ~asset
  /\ playing' = FALSE /\ live' = FALSE
  /\ cut' = cut \union {<<song, "unfed">>}
  /\ loop' = "idle"
  /\ UNCHANGED <<timer, song, asset, context, length, position, ring, flags, clock, tick,
                 feed, entry, skew>>

FeedFreed == loop = "copy" /\ (context # "open" \/ ~live) /\ Lose

------------------------------------------------------------------------------
Step == \/ StepGone \/ StepEnd \/ StepWait \/ StepDue \/ (\E part \in Reading : ReadByte(part))
        \/ ReadFreed \/ Request \/ UnderrunInDelta \/ EventFails \/ EventNow \/ EventLater \/ Stop

Feed == \/ FeedNothing \/ FeedEnd \/ FeedStart \/ FeedAim \/ FeedCopy \/ FeedAck
        \/ FeedFails \/ FeedFreed

Play == PlayMissing \/ PlayOpen \/ StartFails \/ StartOutOfMemory \/ Start \/ PlayOn

Next == Play \/ Handle \/ Tick \/ Step \/ Clock \/ Feed

Spec == Init /\ [][Next]_vars

(* The system calls the timer's callback, time passes, and the main loop   *)
(* finishes what it began.  It may start songs as often as it likes, but   *)
(* it calls snd_handle() in every round (runner.c:137, wndproc.c:418).     *)
Starting == loop \in {"start", "on"} /\ Play
FairSpec == /\ Spec
            /\ WF_vars(Tick \/ Step) /\ WF_vars(Clock)
            /\ WF_vars(Feed \/ Starting) /\ SF_vars(Handle)

------------------------------------------------------------------------------
TypeOK ==
  /\ timer \in BOOLEAN /\ playing \in BOOLEAN /\ song \in Songs /\ asset \in BOOLEAN
  /\ context \in {"none", "open", "freed"} /\ live \in BOOLEAN
  /\ length \in Nat \X (0 .. PacketSize - 1)
  /\ packet \in Nat /\ offset \in 0 .. PacketSize - 1
  /\ ring \in [0 .. 1 -> Content] /\ flags \subseteq Flags
  /\ event \in [song : Songs, last : BOOLEAN] /\ due \in BOOLEAN
  /\ tick \in {"idle", "step", "event", "stop", "lost"} \union Reading \union Requesting
  /\ loop \in {"idle", "start", "on", "tick", "feed", "aim", "copy", "ack", "lost"}
  /\ start \in Nat /\ half \in 0 .. 1
  /\ entry \in Nat /\ skew \subseteq {"race", "underrun"} /\ cut \subseteq Songs \X Causes

(* The player takes the bytes of the track in their order: the half it     *)
(* reads holds the packet its position is in, however ticks and feeding    *)
(* interleave (seq.c:228, buf.c:21, buf.c:82), as long as the feeder does  *)
(* not look at the position in the middle of a request.                    *)
ReadsInOrder ==
  tick \in Reading /\ live /\ ~AtEnd /\ skew = {}
    => ring[packet % 2] = [song |-> song, packet |-> packet]

(* While a packet is being copied, the player is in the other half         *)
(* (buf.c:82): no byte is taken out of a half that is being filled.        *)
HalvesApart ==
  loop = "copy" /\ live /\ tick \in Reading /\ skew = {} => half # packet % 2

(* Without a timer, an underrun takes a single step that reads more than a *)
(* whole packet: every other one is fed in time (snd.c:202, buf.c:15).     *)
UnderrunNeedsBurst ==
  ~timer /\ tick \in Requesting /\ Underrun => packet >= entry + 2

(* Without a timer, freed memory is used only after an event that could    *)
(* not be read: a song that ended, was replaced or failed to start leaves  *)
(* no request behind it (snd.c:205, seq.c:156).                            *)
EndedSongIsNotFed == loop = "lost" => timer \/ <<song, "unreadable">> \in cut

(* The event that is still pending when the next song starts, and is       *)
(* played by it (seq.c:168), is the last one of a song, which its own song *)
(* never plays (seq.c:151), or one of a song that was broken off.          *)
OldEventIsLast ==
  event.song \in {0, song} \/ event.last \/ BrokenOff(event.song, cut)

(* Playing stops at the end of the track, unless the song could not be     *)
(* read or fed, was broken off, or was started over a playing timer.       *)
PlaysToTheEnd ==
  [][playing /\ ~playing' => AtEnd \/ BrokenOff(song, cut') \/ skew # {}]_vars

(* An event that could not be read stops the song (seq.c:194, which logs   *)
(* "cannot read event", after buf.c:17 logged "underrun").                 *)
UnderrunStops ==
  [][Underrun /\ tick \in Requesting /\ tick # tick' => tick' \in {"stop", "lost"}]_vars

(* A song comes to its end: no interleaving of requests and answers leaves *)
(* the player and the feeder waiting for each other.                       *)
SongEnds == playing ~> ~playing \/ loop = "lost"
=============================================================================
