---------------------------- MODULE RemoteUnlock ----------------------------
(***************************************************************************)
(* The unlock with its fifth source of a key, enc/provider/remote/: an     *)
(* access code is exchanged for a confirmation code, over the telephone    *)
(* (rcode.c), with a QR code (qr.c) or online (inet.c), with the client of *)
(* net/curl.c, which answers within the call, or of net/wininet.c, whose   *)
(* callback runs on a thread of its own.                                   *)
(*                                                                         *)
(* A request is the id of a text and the second it was made in.  A         *)
(* confirmation decodes to the key it was made of with the request it was  *)
(* made for, to noise with any other.  The program dies where the code     *)
(* calls or reads a null pointer.                                          *)
(*                                                                         *)
(* There is no lock between the threads, and nothing waits for a callback: *)
(* the user may leave the page and start the next attempt while callbacks  *)
(* of earlier ones run, between any two of their steps, and these go on    *)
(* with the client's variables as they find them.  Where such a callback   *)
(* touches what is a later attempt's, or a cleaning up falls into one of   *)
(* its handlers, memory may have been freed twice or used after that: the  *)
(* history variable stray tells, and the program stops (Stop) or goes on.  *)
(*                                                                         *)
(* Assumed of the network libraries: they give up in the end, and a        *)
(* request of WinInet is always pending first.  Assumed of the wizard: it  *)
(* forgets a notification when its page is left.                           *)
(***************************************************************************)
EXTENDS Unlock

CONSTANTS
  Stamps,         \* bound: the seconds in which requests are made
  Codes,          \* bound: the keys that confirmation codes are made of
  Answers,        \* what the service may answer
  MaxPieces,      \* bound: in how many pieces
  MaxCallbacks    \* bound: how many callbacks of WinInet run at once

ASSUME RemoteAssumption ==
  /\ Stamps \subseteq Nat /\ Stamps # {} /\ Codes \subseteq Keys
  /\ MaxPieces \in Nat \ {0} /\ MaxCallbacks \in Nat \ {0}
  /\ \A a \in Answers : /\ DOMAIN a = {"status", "text", "key"}
                        /\ a.status \in {200, 403, 500}
                        /\ a.text \in {"code", "detail", "junk"} /\ a.key \in Keys

VARIABLES
  request,        \* encr_request
  response,       \* the key that encr_response is decoded to
  answers,        \* history: the request that it answers
  ready,          \* whether the page lets the user go on
  notify,         \* the notification that is pending for the page
  progress,       \* what the page says: "empty", "working" or "settled"
  connected,      \* connection_ of WinInet, curl_
  sent,           \* request_ of WinInet
  data, done,     \* whether there is a _response_data, a _response_processed
  buffers,        \* history: how many there are, counted until stray
  incoming,       \* what is in it: the answer, NoAnswer without one
  stage,          \* where each callback is
  left,           \* how many pieces it has to read
  own,            \* whether it runs for the attempt that stands
  mute,           \* history: libcurl gave no handle, which nobody is told
  stray           \* history: a callback met with what was not its own

NoRequest == [id |-> NoScript, stamp |-> 0]
Requests == [id : Crcs \union {NoScript}, stamp : Stamps \union {0}]
NoAnswer == [status |-> 0, text |-> "junk", key |-> NoKey]
(* An answer of which some is lost or in disorder.                         *)
Broken(a) == [a EXCEPT !.text = "junk"]

Callbacks == 1 .. MaxCallbacks
Stages ==
  {"idle", "pending", "again", "response", "rest", "reading", "copying", "ended", "parsed",
   "closing"}

exchange == <<request, response, answers>>
screen == <<ready, notify, progress, mute>>
received == <<data, incoming, buffers>>
callbacks == <<stage, left, own>>
client == <<connected, sent, received, done, callbacks, stray>>
remoteVars == <<exchange, screen, client>>
vars == <<unlockVars, remoteVars>>

------------------------------------------------------------------------------
HasInternet == build # "dos"
(* encr_inet_init(), encr_qr_init(), encr_rcode_init(): the methods that   *)
(* are offered.                                                            *)
OffersInet(s) == HasInternet /\ s.online
OffersQr(s) == s.online
Offered(s) ==
  {"rcode"} \union (IF OffersQr(s) THEN {"qr"} ELSE {})
            \union (IF OffersInet(s) THEN {"inet"} ELSE {})
OnlyByTelephone(s) == Offered(s) = {"rcode"}

RemoteInit ==
  /\ Init
  /\ request = NoRequest /\ response = NoKey /\ answers = NoRequest
  /\ ready = FALSE /\ notify = "none" /\ progress = "empty" /\ mute = FALSE
  /\ connected = FALSE /\ sent = NoRequest /\ data = FALSE /\ done = FALSE /\ buffers = 0
  /\ incoming = NoAnswer /\ stray = FALSE
  /\ stage = [c \in Callbacks |-> "idle"] /\ left = [c \in Callbacks |-> 0]
  /\ own = [c \in Callbacks |-> FALSE]

RemoteRestarted ==
  /\ Restarted
  /\ request' = NoRequest /\ response' = NoKey /\ answers' = NoRequest
  /\ ready' = FALSE /\ notify' = "none" /\ progress' = "empty" /\ mute' = FALSE
  /\ connected' = FALSE /\ sent' = NoRequest /\ data' = FALSE /\ done' = FALSE /\ buffers' = 0
  /\ incoming' = NoAnswer /\ stray' = FALSE
  /\ stage' = [c \in Callbacks |-> "idle"] /\ left' = [c \in Callbacks |-> 0]
  /\ own' = [c \in Callbacks |-> FALSE]
Dies == RemoteRestarted /\ UNCHANGED store

(* encr_decimal_complement() and encr_encode_request(): what a code for a  *)
(* request is worth when it is decoded with the present one.               *)
Decoded(r, k) == IF r = request THEN k ELSE NoKey

Answered(r, k) ==
  response' = Decoded(r, k) /\ answers' = (IF r = request THEN r ELSE NoRequest)

(* _stamp_request(): time has passed or not.                               *)
Stamped(r) == {[r EXCEPT !.stamp = n] : n \in {m \in Stamps : m >= r.stamp}}

(* net_close()                                                             *)
Closed == connected' = FALSE /\ sent' = NoRequest
Freed ==
  /\ data' = FALSE /\ incoming' = NoAnswer
  /\ buffers' = (IF data /\ ~stray THEN buffers - 1 ELSE buffers)

(* encr_inet_cleanup(), on the page where a method is chosen: "in case     *)
(* when navigated back from PAGE_INET".                                    *)
(* It waits for no callback, and may free what a handler just works on.    *)
(* Mutant: nothing is cleaned up, as on the way to other pages.            *)
NoCleanup == UNCHANGED <<connected, sent, received, own, stray>>
Cleanup ==
  /\ Closed /\ Freed
  /\ own' = [c \in Callbacks |-> FALSE]
  /\ \/ UNCHANGED stray
     \/ data /\ (\E c \in Callbacks : own[c]) /\ stray' = TRUE

------------------------------------------------------------------------------
(* ENCM_INITIALIZE of remote.c                                             *)
RemoteInitialize ==
  /\ NoStoredKey /\ Provider(call) = "remote"
  /\ enc' = "read" /\ page' = "pkey"
  /\ UNCHANGED <<phase, local, remoteVars>>

Stays ==
  UNCHANGED <<platform, content, store, call, phase, enc, key, local, size, starved>>

(* SHIZM_NEXT of the access code, when it is one, and of this text.        *)
EnterAccessCode ==
  /\ Reading /\ page = "pkey"
  /\ LET r == [request EXCEPT !.id = call.crc]
     IN  IF OnlyByTelephone(call)
         THEN request' \in Stamped(r) /\ page' = "rcode"
              /\ NoCleanup
         ELSE request' = r /\ page' = "method" /\ Cleanup
  /\ Stays
  /\ UNCHANGED <<response, answers, screen, done, stage, left>>

(* SHIZM_NEXT of the method, and what the page that follows does first.    *)
SelectMethod(method) ==
  /\ Reading /\ page = "method" /\ method \in Offered(call)
  /\ request' \in Stamped(request) /\ page' = method
  /\ IF method = "inet"
     THEN ready' = FALSE /\ notify' = "start" /\ progress' = "empty" /\ mute' = FALSE
     ELSE UNCHANGED screen
  /\ Stays
  /\ UNCHANGED <<response, answers, client>>

(* The way back: to the page that the gap before a page names.             *)
Back ==
  /\ Reading
  /\ \/ page = "method" /\ page' = "pkey"
        /\ NoCleanup
     \/ /\ page \in {"qr", "inet", "rcode"} /\ (page = "rcode" => ~OnlyByTelephone(call))
        /\ page' = "method" /\ Cleanup
     \/ page = "rcode" /\ OnlyByTelephone(call) /\ page' = "pkey"
        /\ NoCleanup
  /\ notify' = "none"
  /\ Stays
  /\ UNCHANGED <<exchange, ready, progress, mute, done, stage, left>>

(* SHIZM_NEXT of a confirmation code, made for the request or another one. *)
EnterConfirmation(r, k, checked) ==
  /\ Reading /\ page \in {"rcode", "qr"}
  /\ Answered(r, k)
  /\ Attempt(Decoded(r, k), MaySave(checked))
  /\ UNCHANGED <<request, screen, client>>

(* The same when a group of the code is wrong: those before it are written.*)
EnterBrokenConfirmation ==
  /\ Reading /\ page \in {"rcode", "qr"}
  /\ response' = NoKey /\ answers' = NoRequest
  /\ UNCHANGED <<unlockVars, request, screen, client>>

(* SHIZM_NEXT of the online page.                                          *)
EnterAnswer(checked) ==
  /\ Reading /\ page = "inet" /\ ready
  /\ Attempt(response, MaySave(checked))
  /\ UNCHANGED remoteVars

------------------------------------------------------------------------------
Notified(n) == Reading /\ page = "inet" /\ notify = n
Says(text) == progress' = text

(* NOTIFY_START: net_start().                                              *)
StartNet ==
  /\ Notified("start")
  /\ \/ Says("working") /\ notify' = "connect"
     \/ Says("settled") /\ notify' = "none"
  /\ UNCHANGED <<unlockVars, exchange, ready, mute, client>>

(* NETM_ERROR of _verify_inet_proc().                                      *)
(* Mutant: the response is forgotten and not freed.                        *)
FailedUnfreed ==
  Says("settled") /\ data' = FALSE /\ incoming' = NoAnswer /\ UNCHANGED buffers
(* Mutant: nothing is said.                                                *)
FailedSilently == UNCHANGED progress /\ Freed
Failed == Says("settled") /\ Freed

(* NOTIFY_CONNECT: net_connect() of curl.c.  When there is no handle       *)
(* nobody says so; without the user agent it stays open.                   *)
ConnectCurl ==
  /\ Notified("connect") /\ build = "linux"
  /\ \/ notify' = "none" /\ mute' = TRUE /\ connected' = FALSE
        /\ UNCHANGED <<progress, received>>
     \/ notify' = "none" /\ connected' = TRUE /\ Failed /\ UNCHANGED mute
     \/ notify' = "request" /\ connected' = TRUE /\ UNCHANGED <<progress, mute, received>>
  /\ UNCHANGED <<unlockVars, exchange, ready, sent, done, callbacks, stray>>

(* NOTIFY_CONNECT: net_connect() of wininet.c.  What it does when it is    *)
(* connected already never happens (NothingLeftOver).  An earlier callback *)
(* that is closing may take the new connection's callback away.            *)
ConnectWininet ==
  /\ Notified("connect") /\ build = "windows" /\ ~connected
  /\ \/ notify' = "none" /\ Failed /\ UNCHANGED <<connected, stray>>
     \/ /\ notify' = "request" /\ connected' = TRUE /\ Says("working")
        /\ stray' = (stray \/ \E c \in Callbacks : stage[c] = "closing")
        /\ UNCHANGED received
  /\ UNCHANGED <<unlockVars, exchange, ready, mute, sent, done, callbacks>>

(* NETM_COMPLETE of _verify_inet_proc() for an answer to a request; the    *)
(* page is told whether or not it is shown.  It ends as _inet_error() does.*)
IsCode(a) == a.status = 200 /\ a.text = "code"
Completed(a, for) ==
  /\ Says("settled") /\ Closed
  /\ IF IsCode(a)
     THEN /\ Answered(for, a.key)
          /\ ready' = (ready \/ page = "inet")
     ELSE UNCHANGED <<response, answers, ready>>

------------------------------------------------------------------------------
(* NOTIFY_REQUEST: net_request() of curl.c, with the write callback inside.*)
Requesting == Notified("request") /\ notify' = "none"

(* An option or the transfer fails, at once or in the middle.              *)
CurlFails ==
  /\ Requesting /\ build = "linux"
  /\ Failed
  /\ UNCHANGED <<unlockVars, exchange, ready, mute, connected, sent, done, callbacks, stray>>

(* The answer comes in one piece: the content length is what has come.     *)
CurlAnswers(a) ==
  /\ Requesting /\ build = "linux"
  /\ Completed(a, request)
  /\ done' = TRUE /\ Freed
  /\ UNCHANGED <<unlockVars, request, mute, callbacks, stray>>

(* The answer has no body, so that the last one's status stands and there  *)
(* is no buffer; if the last one had a body, a null pointer is parsed.     *)
CurlAnswersNothing ==
  /\ Requesting /\ build = "linux"
  /\ ~done
  /\ Says("settled") /\ Closed /\ Freed
  /\ UNCHANGED <<unlockVars, exchange, ready, mute, done, callbacks, stray>>

(* A second piece is more than the content length, or there is no memory:  *)
(* the error closes the client under the transfer, and the null pointer to *)
(* the handler is called.                                                  *)
CurlDies ==
  /\ Notified("request") /\ build = "linux"
  /\ Dies

------------------------------------------------------------------------------
(* A callback goes on to another stage, with so many pieces to read.       *)
Goes(c, to, pieces) ==
  /\ stage' = [stage EXCEPT ![c] = to] /\ left' = [left EXCEPT ![c] = pieces]
  /\ own' = [own EXCEPT ![c] = @ /\ to # "idle"]

(* net_request() of wininet.c                                              *)
(* It fails, or is pending; or its callback was taken away (ConnectWininet)*)
(* and it is never heard of.                                               *)
(* Bound: a request waits until there may be one more callback.            *)
Free(c) == stage[c] = "idle" /\ \A d \in Callbacks : stage[d] = "idle" => c <= d
SendWininet ==
  /\ Requesting /\ build = "windows" /\ connected
  /\ \/ /\ Failed /\ (Closed \/ UNCHANGED <<connected, sent>>)
        /\ UNCHANGED callbacks
     \/ \E c \in Callbacks :
          /\ Free(c) /\ sent' = request
          /\ stage' = [stage EXCEPT ![c] = "pending"] /\ own' = [own EXCEPT ![c] = TRUE]
          /\ UNCHANGED <<progress, connected, received, left>>
     \/ stray /\ sent' = request /\ UNCHANGED <<progress, connected, received, callbacks>>
  /\ UNCHANGED <<unlockVars, exchange, ready, mute, done, stray>>

(* The connection was closed by an earlier callback, and nobody is told.   *)
SendUnconnected ==
  /\ Requesting /\ build = "windows" /\ ~connected
  /\ UNCHANGED <<unlockVars, exchange, ready, progress, mute, client>>

------------------------------------------------------------------------------
(* inet_callback(), which works on whatever the client's variables hold.   *)
Strays(met) == stray' = (stray \/ met)
Earlier(c) == ~own[c]
Waits(c) == stage[c] \in {"pending", "again"}

(* NETM_ERROR, which frees the response, whosever it is.                   *)
CallbackFailed(c, to) == Failed /\ Goes(c, to, 0) /\ Strays(Earlier(c) /\ data)

CallbackLeaves == UNCHANGED <<unlockVars, request, notify, mute>>

(* The request was cancelled by closing it.                                *)
CallbackCancelled(c) ==
  /\ Waits(c) /\ (Earlier(c) \/ sent = NoRequest)
  /\ Goes(c, "idle", 0)
  /\ UNCHANGED <<unlockVars, exchange, screen, connected, sent, received, done, stray>>

(* The request failed, and the callback is to close what is open.          *)
CallbackFails(c) ==
  /\ Waits(c) /\ CallbackFailed(c, "closing")
  /\ CallbackLeaves /\ UNCHANGED <<response, answers, ready, connected, sent, done>>

(* The headers cannot be read, since they lack a length or the request was *)
(* closed in between; or they are, of whatever request there is.           *)
CallbackQueries(c) ==
  /\ Waits(c)
  /\ \/ CallbackFailed(c, "idle")
     \/ /\ sent # NoRequest
        /\ Goes(c, IF stage[c] = "again" THEN "rest" ELSE "response", 0)
        /\ Strays(Earlier(c))
        /\ UNCHANGED <<progress, received>>
  /\ CallbackLeaves /\ UNCHANGED <<response, answers, ready, connected, sent, done>>

(* NETM_RESPONSE: no buffer can be had, or it is.                          *)
CallbackResponse(c, a) ==
  /\ stage[c] \in {"response", "rest"}
  /\ \/ /\ Says("settled") /\ Closed /\ data' = FALSE /\ incoming' = NoAnswer
        /\ Goes(c, "reading", 1)
        /\ UNCHANGED <<done, buffers>>
     \/ /\ data' = TRUE /\ incoming' = (IF stage[c] = "rest" THEN Broken(a) ELSE a)
        /\ done' = FALSE /\ buffers' = (IF stray THEN buffers ELSE buffers + 1)
        /\ \E pieces \in 1 .. MaxPieces : Goes(c, "reading", pieces)
        /\ Says("working")
        /\ UNCHANGED <<connected, sent>>
  /\ Strays(Earlier(c))
  /\ CallbackLeaves /\ UNCHANGED <<response, answers, ready>>

(* Reading fails, as it does once the request is closed; or the piece is   *)
(* still to come, which counts as a failure, too.  When it has come, to    *)
(* where the callback's buffer was on the stack, the request completes     *)
(* once again, and the rest is taken for the whole.                        *)
CallbackCannotRead(c) ==
  /\ stage[c] = "reading"
  /\ \/ CallbackFailed(c, "idle")
     \/ sent # NoRequest /\ CallbackFailed(c, "again")
  /\ CallbackLeaves /\ UNCHANGED <<response, answers, ready, connected, sent, done>>

(* A piece is read, and NETM_RECEIVED: without a response nothing happens; *)
(* the piece may be more than was announced, or else is going to be copied.*)
CallbackReceives(c) ==
  /\ stage[c] = "reading" /\ sent # NoRequest /\ left[c] > 0
  /\ \/ /\ ~data /\ Goes(c, "reading", left[c] - 1)
        /\ UNCHANGED <<progress, connected, sent, received>>
     \/ /\ data /\ Goes(c, "reading", left[c] - 1)
        /\ Says("settled") /\ Closed /\ Freed
     \/ /\ data /\ Goes(c, "copying", left[c] - 1)
        /\ UNCHANGED <<progress, connected, sent, received>>
  /\ Strays(Earlier(c))
  /\ CallbackLeaves /\ UNCHANGED <<response, answers, ready, done>>

CallbackCopies(c) ==
  /\ stage[c] = "copying"
  /\ done' = TRUE /\ Goes(c, "reading", left[c]) /\ Strays(Earlier(c))
  /\ UNCHANGED <<unlockVars, exchange, screen, connected, sent, received>>

(* There is no piece left.                                                 *)
CallbackEnds(c) ==
  /\ stage[c] = "reading" /\ sent # NoRequest /\ left[c] = 0
  /\ Goes(c, "ended", 0) /\ Strays(Earlier(c))
  /\ UNCHANGED <<unlockVars, exchange, screen, connected, sent, received, done>>

(* NETM_COMPLETE: the response is parsed, and the page told.               *)
CallbackParses(c) ==
  /\ stage[c] = "ended" /\ (data \/ ~done)
  /\ Goes(c, "parsed", 0)
  /\ UNCHANGED <<unlockVars, exchange, screen, connected, sent, received, done, stray>>

(* The response is gone, after the page was left.                          *)
CallbackDies(c) ==
  /\ stage[c] = "ended" /\ ~data /\ done
  /\ Dies

(* What a callback has parsed, and for which request that was.  Among what *)
(* is not its own it may be anything.                                      *)
Parsed(c) ==
  IF own[c] /\ ~stray THEN {<<incoming, sent>>}
  ELSE (Answers \union {NoAnswer}) \X {request, NoRequest}

CallbackCompletes(c) ==
  /\ stage[c] = "parsed"
  /\ \E parsed \in Parsed(c) : Completed(parsed[1], parsed[2])
  /\ Freed /\ Goes(c, "closing", 0) /\ Strays(Earlier(c))
  /\ CallbackLeaves /\ UNCHANGED done

(* The callback closes what is open, whosever it is.                       *)
CallbackCloses(c) ==
  /\ stage[c] = "closing"
  /\ Closed /\ Goes(c, "idle", 0)
  /\ Strays(Earlier(c) /\ (connected \/ sent # NoRequest))
  /\ UNCHANGED <<unlockVars, exchange, screen, received, done>>

CallbackNext ==
  \E c \in Callbacks :
    \/ CallbackCancelled(c) \/ CallbackFails(c) \/ CallbackQueries(c)
    \/ \E a \in Answers : CallbackResponse(c, a)
    \/ CallbackCannotRead(c) \/ CallbackReceives(c) \/ CallbackCopies(c) \/ CallbackEnds(c)
    \/ CallbackParses(c) \/ CallbackDies(c) \/ CallbackCompletes(c) \/ CallbackCloses(c)

------------------------------------------------------------------------------
(* The program is stopped, or dies in the middle of saving a key.          *)
Stop == RemoteRestarted /\ UNCHANGED store
StopWhileSaving ==
  /\ Reading /\ HasKeyStore /\ Verifies(call, call.key)
  /\ store' \in Saved(call, call.key)
  /\ RemoteRestarted

DialogNext ==
  \/ RemoteInitialize \/ EnterAccessCode \/ Back
  \/ \E method \in {"rcode", "qr", "inet"} : SelectMethod(method)
  \/ \E r \in {request, NoRequest}, k \in Codes, checked \in BOOLEAN : EnterConfirmation(r, k, checked)
  \/ EnterBrokenConfirmation
  \/ \E checked \in BOOLEAN : EnterAnswer(checked)

NetNext ==
  \/ StartNet \/ ConnectCurl \/ ConnectWininet
  \/ CurlFails \/ CurlAnswersNothing \/ CurlDies \/ SendWininet \/ SendUnconnected
  \/ \E a \in Answers : CurlAnswers(a)

(* A notification for a page that is left is forgotten.                    *)
Forgets ==
  /\ notify' = IF page' = page THEN notify ELSE "none"
  /\ UNCHANGED <<exchange, ready, progress, mute, client>>

Next ==
  \/ LocalNext /\ Forgets
  \/ DialogNext \/ NetNext \/ CallbackNext \/ Stop \/ StopWhileSaving

(* The wizard delivers its notifications, and WinInet gives up in the end. *)
Spec ==
  RemoteInit /\ [][Next]_vars /\ WF_vars(NetNext) /\ WF_vars(CallbackNext)

------------------------------------------------------------------------------
RemoteTypeOK ==
  /\ TypeOK
  /\ request \in Requests /\ answers \in Requests /\ sent \in Requests
  /\ response \in Keys \union {NoKey}
  /\ ready \in BOOLEAN /\ mute \in BOOLEAN /\ stray \in BOOLEAN
  /\ connected \in BOOLEAN /\ data \in BOOLEAN /\ done \in BOOLEAN /\ buffers \in Nat
  /\ notify \in {"none", "start", "connect", "request"}
  /\ progress \in {"empty", "working", "settled"}
  /\ incoming \in Answers \union {Broken(a) : a \in Answers} \union {NoAnswer}
  /\ stage \in [Callbacks -> Stages] /\ left \in [Callbacks -> 0 .. MaxPieces]
  /\ own \in [Callbacks -> BOOLEAN]

(* The online page lets the user go on only with an answer to the request  *)
(* that stands, also while callbacks of earlier attempts run on and find   *)
(* their request closed (inet.c, with the cleaning up of remote.c).  Once  *)
(* one of them has met with what was not its own, this may be wrong: the   *)
(* code does not prevent it.                                               *)
OwnAnswer == page = "inet" /\ ready => answers = request \/ stray

(* No attempt leaves a connection to the next, whatever runs on.  And of a *)
(* response there is one buffer at most, which is freed once, by the       *)
(* handler that ends it or by leaving the page, so that none is left when  *)
(* the next attempt begins, unless a callback has met with what was not    *)
(* its own (inet.c over the clients).                                      *)
NothingLeftOver ==
  /\ Notified("start") => ~connected
  /\ ~stray => /\ buffers = (IF data THEN 1 ELSE 0)
               /\ Notified("start") => ~data

(* The online page does not work for ever: in the end it says what has     *)
(* become of the attempt, unless libcurl had no handle for it, or an       *)
(* earlier callback has met with what was not its own and may have closed  *)
(* the request under it.                                                   *)
InetSettles ==
  (page = "inet" /\ progress # "settled")
    ~> (page # "inet" \/ progress = "settled" \/ mute \/ stray)

==============================================================================
