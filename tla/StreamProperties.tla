-------------------------- MODULE StreamProperties --------------------------
(***************************************************************************)
(* What StreamChat and PauseStream promise each other and their callers.   *)
(***************************************************************************)
EXTENDS StreamControl

-----------------------------------------------------------------------------
(***************************************************************************)
(* The registry.                                                           *)
(***************************************************************************)

\* A stream that still streams can be reached: its handle is in the registry
\* until the stream has been cancelled or has returned.  "so its cancel handle
\* is never silently lost" (src/service/agent_stream.go:74-76).
NoLostHandle ==
  \A s \in Streams : Running(s) /\ ctx[s] = "live" => active[slot[s]] = s

\* An entry of the registry is a stream of that slot that has not returned: a
\* pause never binds a stream whose finish and done events have been sent and
\* whose call is over.
RegistryIsLive ==
  \A k \in Slots : active[k] # None => Running(active[k]) /\ slot[active[k]] = k

\* The registry implements one live turn per thread and instance.
Turn(s) ==
  IF pc[s] = "idle" THEN "new"
  ELSE IF pc[s] = "returned" THEN "done"
  ELSE IF ctx[s] = "live" THEN "live" ELSE "cancelled"

TurnsBegunIn(k) == {s \in Streams : slot[s] = k}

TurnSlots == INSTANCE Turns WITH
  Turns <- Streams,
  phase <- [s \in Streams |-> Turn(s)],
  home <- [k \in Slots |-> TurnsBegunIn(k)]

\* StreamChat and PauseStream implement Turns: however starts, supersessions,
\* pauses and returns interleave, a slot's turns succeed one another.
ImplementsTurns == TurnSlots!TurnsSpec

-----------------------------------------------------------------------------
(***************************************************************************)
(* What a pause reaches.                                                   *)
(***************************************************************************)

\* A pause reaches no turn that began after it fixed its run, neither with its
\* cancel nor with its stop: "a stream that replaces the bound one is never
\* stopped or cancelled" (src/service/agent.go:784-786).  The run is fixed when
\* the pause arrives or, without a local stream, when stream_runs is read.
PauseSparesNewerTurns ==
  \A p \in Pauses, s \in Streams :
    cancelledBy[s] = p \/ stoppedBy[s] = p => s \in seen[p]

\* A pause reaches only its own thread, on whatever instance it arrives.
PauseKeepsToItsThread ==
  \A p \in Pauses, s \in Streams :
    cancelledBy[s] = p \/ stoppedBy[s] = p => slot[s][2] = pslot[p][2]

\* A stream whose run is known is cancelled only once pen-gpt has recorded its
\* stop; when the remote stop fails, the local stream keeps running
\* (src/service/agent.go:777-780).
StopPrecedesCancel ==
  \A p \in Pauses, s \in Streams :
    cancelledBy[s] = p /\ runID[p] # None => stoppedBy[s] = p

\* A pause that returns nil has done something: its stop ended the run it
\* named, or, with no run to name, its cancel ended the stream it was bound to.
PauseOkHasActed ==
  \A p \in Pauses :
    outcome[p] = "ok" =>
      IF runID[p] # None THEN stoppedBy[runID[p]] = p ELSE cancelledBy[target[p]] = p

\* "not found" is said only of a turn that is over for its user: the stream
\* has returned or was cancelled, or its run is no longer running
\* (src/service/agent.go:826-831 and the cancelLocalStream test).
NotFoundMeansOver ==
  \A p \in Pauses, s \in Streams :
    outcome[p] = "notfound" /\ target[p] = s =>
      pc[s] = "returned" \/ ctx[s] # "live" \/ status[s] \notin {"none", "running"}

-----------------------------------------------------------------------------
(***************************************************************************)
(* What the finish event shows.                                            *)
(***************************************************************************)

\* Stream s ran to the end of its body, or to its pause, and its finish list
\* was read without giving up the wait for the pause's answer.
ListedInTime(s) == view[s] # "none" /\ s \in timely

\* Pause p names run s in its stop.
Names(p, s) == target[p] = s \/ runID[p] = s

StoppedOk(p, s) == outcome[p] = "ok" /\ runID[p] = s

\* The finish list of a stream with a single pause shows the run as stopped
\* when the pause's stop was recorded, even if pen-gpt broke the body off
\* before it recorded the stop: the list waits for the pause's answer
\* (src/service/agent_stream.go:112-116).
FinishAgreesWithLoneStop ==
  \A p \in Pauses, s \in Streams :
    /\ StoppedOk(p, s) /\ target[p] = s /\ ListedInTime(s)
    /\ \A q \in Pauses \ {p} : ~ Names(q, s)
    => view[s] = "stopped"

\* The same whichever instance the pause arrives on, and however many others
\* there were before it.
FinishAgreesWithStop ==
  \A p \in Pauses, s \in Streams :
    StoppedOk(p, s) /\ ListedInTime(s) => view[s] = "stopped"

-----------------------------------------------------------------------------
(***************************************************************************)
(* What the comment of PauseStream says beyond the above.                  *)
(***************************************************************************)

\* "PauseStream stops the thread's running turn" (src/service/agent.go:769):
\* after a pause that returned nil, the run of the stream it was bound to does
\* not complete.
PausedTurnNeverCompletes ==
  \A p \in Pauses, s \in Streams :
    outcome[p] = "ok" /\ target[p] = s => status[s] # "completed"

-----------------------------------------------------------------------------
(***************************************************************************)
(* Liveness, under FairSpec.                                               *)
(***************************************************************************)

\* Every StreamChat call returns, whatever pen-gpt, the callers and the pauses
\* bound to it do.
StreamsReturn == \A s \in Streams : pc[s] # "idle" ~> pc[s] = "returned"

\* Every PauseStream call returns, also when its stream never settles its
\* handle because the start event could not be sent.
PausesReturn == \A p \in Pauses : ppc[p] # "idle" ~> ppc[p] = "returned"
=============================================================================
