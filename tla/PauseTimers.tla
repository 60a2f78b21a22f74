----------------------------- MODULE PauseTimers -----------------------------
(***************************************************************************)
(* The timers of PauseStream and of the finish list that waits for it      *)
(* (src/service/agent.go), on a clock in steps of, say, five seconds.      *)
(* StreamControl lets a timer run out at any time; this module is about    *)
(* which of them can.  The ID token of a stop is fetched outside of every  *)
(* timer and takes as long as it takes (src/service/agent_stream.go:491).  *)
(***************************************************************************)
EXTENDS Naturals

CONSTANTS
  PauseWait,  \* pauseWaitTimeout, 5 s
  RemoteStop, \* remoteStopTimeout, 10 s
  MaxClock    \* bound on the clock

ASSUME TimersAreNat ==
  PauseWait \in Nat \ {0} /\ RemoteStop \in Nat /\ MaxClock \in Nat

VARIABLES
  clock,
  phase,      \* of the pause
  arrived,    \* when it began,
  since,      \* when its phase began,
  stopSince,  \* and when its stopCtx was made
  pausing,    \* the stream's handle is marked
  finish,     \* the stream: "reading", "waiting" in waitForStop, "listed", or "gaveup"
  waitSince

timerVars == <<clock, phase, arrived, since, stopSince, pausing, finish, waitSince>>

PauseAnswer_OneStop == PauseWait + RemoteStop  \* mutant: the lookup is forgotten

PauseAnswer == PauseWait + 2 * RemoteStop

TimerInit ==
  /\ clock = 0 /\ phase = "idle" /\ arrived = 0 /\ since = 0 /\ stopSince = 0
  /\ pausing = FALSE /\ finish = "reading" /\ waitSince = 0

\* The last moment at which a phase ends.
Deadline ==
  CASE phase = "waitrun" -> since + PauseWait
    [] phase = "lookup" -> since + RemoteStop
    [] phase = "stop" -> stopSince + RemoteStop
    [] OTHER -> MaxClock

Pausing == phase \in {"waitrun", "lookup", "token", "stop"}

-----------------------------------------------------------------------------
\* Timers fire before the clock passes them.
Tick ==
  /\ clock < MaxClock
  /\ Pausing => clock < Deadline
  /\ finish = "waiting" => clock < waitSince + PauseAnswer
  /\ clock' = clock + 1
  /\ UNCHANGED <<phase, arrived, since, stopSince, pausing, finish, waitSince>>

\* localStream, then the wait for its run id, or the lookup.
Arrive ==
  /\ phase = "idle"
  /\ phase' \in {"waitrun", "lookup"}
  /\ arrived' = clock /\ since' = clock
  /\ UNCHANGED <<clock, stopSince, pausing, finish, waitSince>>

\* pauseTarget returns, now or at its deadline, and a local stream is marked;
\* with a run to stop, stopCtx is made before the token is asked for.
TargetFound ==
  /\ phase \in {"waitrun", "lookup"}
  /\ pausing' = (phase = "waitrun")
  /\ phase' \in {"token", "over"}
  /\ since' = clock /\ stopSince' = clock
  /\ UNCHANGED <<clock, arrived, finish, waitSince>>

TokenFetched_FreshContext ==  \* mutant: stopCtx begins when the token is there
  /\ phase = "token"
  /\ phase' = "stop"
  /\ since' = clock /\ stopSince' = clock
  /\ UNCHANGED <<clock, arrived, pausing, finish, waitSince>>

\* The request goes out, or fails at once when stopCtx is over.
TokenFetched ==
  /\ phase = "token"
  /\ phase' = IF clock < stopSince + RemoteStop THEN "stop" ELSE "over"
  /\ since' = clock
  /\ UNCHANGED <<clock, arrived, stopSince, pausing, finish, waitSince>>

\* pen-gpt answers, or stopCtx is over.
StopAnswered ==
  /\ phase = "stop"
  /\ phase' = "over"
  /\ UNCHANGED <<clock, arrived, since, stopSince, pausing, finish, waitSince>>

\* doUpstreamStream returns, and waitForStop begins.
StreamEnds ==
  /\ finish = "reading"
  /\ finish' = IF pausing THEN "waiting" ELSE "listed"
  /\ waitSince' = clock
  /\ UNCHANGED <<clock, phase, arrived, since, stopSince, pausing>>

StopSeen ==
  /\ finish = "waiting" /\ phase = "over"
  /\ finish' = "listed"
  /\ UNCHANGED <<clock, phase, arrived, since, stopSince, pausing, waitSince>>

GiveUp ==
  /\ finish = "waiting" /\ clock = waitSince + PauseAnswer
  /\ finish' = "gaveup"
  /\ UNCHANGED <<clock, phase, arrived, since, stopSince, pausing, waitSince>>

TimerNext ==
  \/ Tick \/ Arrive \/ TargetFound \/ TokenFetched \/ StopAnswered
  \/ StreamEnds \/ StopSeen \/ GiveUp

TimerSpec == TimerInit /\ [][TimerNext]_timerVars

-----------------------------------------------------------------------------
\* A pause lasts no longer than pauseAnswerTimeout, unless it is still without
\* its ID token: the token's time is taken off the stop's, and a token that
\* comes too late ends the pause (src/service/agent.go:812-816, 842-844).
OnlyTokensTakeLonger ==
  Pausing /\ phase # "token" => clock - arrived <= PauseAnswer

\* The finish list gives up its wait only on a pause whose stop has not left and
\* will not: a stop that may still be recorded is waited for (waitForStop,
\* src/service/agent.go:64-77).
NoStopGivenUp == finish = "gaveup" => phase \in {"token", "over"}
=============================================================================
