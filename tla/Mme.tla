--------------------------------- MODULE Mme ---------------------------------
(***************************************************************************)
(* snd/dmme.c: the devices of Windows, all of which share one set of       *)
(* variables.  Opening takes a MIDI port, a period of the timer and the    *)
(* timer, and what fails on the way gives back what came before, through   *)
(* a close that goes by variables which nothing ever clears.  What a       *)
(* message sounds like is left to the port.                                *)
(***************************************************************************)
EXTENDS Naturals

CONSTANTS None

VARIABLES
  out, period, timer,           \* _out, _period and _timer, as handles or None
  ports, periods, timers        \* external: what Windows holds for the program

handles == <<out, period, timer>>
held == <<ports, periods, timers>>
vars == <<handles, held>>
Init ==
  /\ out = None /\ period = None /\ timer = None
  /\ ports = {} /\ periods = {} /\ timers = {}

(* Ends what the handles name and Windows still holds.                     *)
Free(o, p, t) == ports' = ports \ {o} /\ periods' = periods \ {p} /\ timers' = timers \ {t}

Close == Free(out, period, timer) /\ UNCHANGED handles

(* The steps of opening, at each of which it may fail.                     *)
PortFails == UNCHANGED vars

(* Mutant: the port stays open.                                            *)
KeepPort(port) ==
  /\ out' = port /\ UNCHANGED <<period, timer>>
  /\ ports' = ports \union {port} /\ UNCHANGED <<periods, timers>>
PeriodFails(port) ==
  out' = port /\ UNCHANGED <<period, timer>> /\ Free(port, period, timer)

TimerFails(port) ==
  out' = port /\ period' = port /\ timer' = None /\ Free(port, port, None)

Opens(port) ==
  /\ out' = port /\ period' = port /\ timer' = port
  /\ ports' = ports \union {port} /\ periods' = periods \union {port}
  /\ timers' = timers \union {port}

Open(port, opened) ==
  IF opened THEN Opens(port) ELSE PortFails \/ PeriodFails(port) \/ TimerFails(port)
==============================================================================
