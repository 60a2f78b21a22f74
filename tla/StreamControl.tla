---------------------------- MODULE StreamControl ----------------------------
(***************************************************************************)
(* StreamChat and PauseStream of agentService (src/service/agent.go and    *)
(* src/service/agent_stream.go): the registry of active streams, the       *)
(* handles that a stream and the pauses bound to it share, and the two     *)
(* calls as concurrent processes, on one or more BFF instances, with       *)
(* pen-gpt (module PenGptRuns) as their environment.                       *)
(*                                                                         *)
(* A slot is a thread on an instance: the registry activeStreams of        *)
(* instance i maps thread t to the stream of slot <<i, t>>.                *)
(***************************************************************************)
EXTENDS PenGptRuns

CONSTANTS
  Instances,  \* BFF processes, each with its own registry
  Threads     \* chat threads

Slots == Instances \X Threads

ASSUME SlotsAssumption == None \notin Slots

VARIABLES
  active,        \* activeStreams of every instance
  \* StreamChat, per stream
  pc,            \* where the call is
  slot,          \* its instance and thread
  ctx,           \* streamCtx: live, or why it ended
  \* streamHandle, per stream
  ready,         \* "open" until settled, then whether a run id came with it
  pausing,
  stopAnswered,
  \* how each stream ended
  timely,        \* history: streams that ended with their body or by their
                 \* pause, and did not give up waiting for its answer
  view,          \* what the finish list showed of the run
  cancelledBy,   \* history: the pause that cancelled the stream
  \* PauseStream, per pause
  ppc,           \* where the call is
  pslot,         \* its instance and thread
  target,        \* the handle it is bound to
  runID,         \* the run it stops
  outcome,       \* what it returns
  seen           \* history: the streams called before the pause fixed its run

streamVars == <<pc, slot, ctx, ready, timely, view>>
pauseVars == <<ppc, pslot, target, runID, outcome, seen>>
vars == <<penVars, active, streamVars, pausing, stopAnswered, cancelledBy, pauseVars>>

StreamPC == {"idle", "start", "await", "reading", "ended",
             "waiting", "listing", "returning", "returned"}

PausePC == {"idle", "lookup", "waitrun", "mark", "stop", "stopping",
            "cancel", "returning", "returned"}

TypeOK ==
  /\ PenTypeOK
  /\ active \in [Slots -> Streams \cup {None}]
  /\ pc \in [Streams -> StreamPC]
  /\ slot \in [Streams -> Slots \cup {None}]
  /\ ctx \in [Streams -> {"live", "stopped", "paused"}]
  /\ ready \in [Streams -> {"open", "norun", "run"}]
  /\ pausing \in [Streams -> BOOLEAN]
  /\ stopAnswered \in [Streams -> BOOLEAN]
  /\ timely \in SUBSET Streams
  /\ view \in [Streams -> {"none", "stopped", "other"}]
  /\ cancelledBy \in [Streams -> Pauses \cup {None}]
  /\ ppc \in [Pauses -> PausePC]
  /\ pslot \in [Pauses -> Slots \cup {None}]
  /\ target \in [Pauses -> Streams \cup {None}]
  /\ runID \in [Pauses -> Streams \cup {None}]
  /\ outcome \in [Pauses -> {"none", "ok", "notfound", "error"}]
  /\ seen \in [Pauses -> SUBSET Streams]
  \* where a call is tells which of its variables are set
  /\ \A s \in Streams : pc[s] = "idle" <=> slot[s] = None
  /\ \A p \in Pauses :
       /\ ppc[p] = "idle" <=> pslot[p] = None
       /\ ppc[p] \in {"waitrun", "mark", "cancel"} => target[p] # None
       /\ ppc[p] = "stop" => runID[p] # None
       /\ ppc[p] = "stopping" => stopCall[p] # "none"
       /\ stopCall[p] # "none" =>
            ppc[p] \in {"stopping", "cancel", "returning", "returned"} /\ runID[p] # None

Init ==
  /\ PenInit
  /\ active = [k \in Slots |-> None]
  /\ pc = [s \in Streams |-> "idle"]
  /\ slot = [s \in Streams |-> None]
  /\ ctx = [s \in Streams |-> "live"]
  /\ ready = [s \in Streams |-> "open"]
  /\ pausing = [s \in Streams |-> FALSE]
  /\ stopAnswered = [s \in Streams |-> FALSE]
  /\ timely = {}
  /\ view = [s \in Streams |-> "none"]
  /\ cancelledBy = [s \in Streams |-> None]
  /\ ppc = [p \in Pauses |-> "idle"]
  /\ pslot = [p \in Pauses |-> None]
  /\ target = [p \in Pauses |-> None]
  /\ runID = [p \in Pauses |-> None]
  /\ outcome = [p \in Pauses |-> "none"]
  /\ seen = [p \in Pauses |-> {}]

Running(s) == pc[s] \notin {"idle", "returned"}

-----------------------------------------------------------------------------
(***************************************************************************)
(* Registry and handle operations.                                         *)
(***************************************************************************)

\* A context keeps its first cause: cancelling it again changes nothing.
Cancelled(s, why) == IF ctx[s] = "live" THEN why ELSE ctx[s]

Deregistered_Any(s) ==  \* mutant: the entry is deleted whoever owns it
  [active EXCEPT ![slot[s]] = None]

Deregistered_Never(s) == active  \* mutant: the entry stays behind

\* The entry a finishing stream leaves in its slot: only its own is deleted.
Deregistered(s) ==
  [active EXCEPT ![slot[s]] = IF @ = s THEN None ELSE @]

\* cancelLocalStream's test: has a newer stream replaced h on the thread?
StillRegistered(k, h) == active[k] = h

\* settle: only the first call counts.
Settled(s, answer) ==
  [ready EXCEPT ![s] = IF @ = "open" THEN answer ELSE @]

RunningOn_AnyThread(t) == {s \in Streams : status[s] = "running"}  \* mutant: no thread filter

\* The run FindRunningRunID returns: the only running one of the thread.
RunningOn(t) == {s \in Streams : status[s] = "running" /\ slot[s][2] = t}

FoundRun(t, r) ==
  \/ r \in Streams /\ RunningOn(t) = {r}
  \/ r = None /\ \A x \in Streams : RunningOn(t) # {x}

-----------------------------------------------------------------------------
(***************************************************************************)
(* StreamChat.                                                             *)
(***************************************************************************)

Register_KeepsOld(s, k) ==  \* mutant: the superseded stream is not cancelled
  /\ pc[s] = "idle"
  /\ pc' = [pc EXCEPT ![s] = "start"]
  /\ slot' = [slot EXCEPT ![s] = k]
  /\ active' = [active EXCEPT ![k] = s]
  /\ UNCHANGED <<penVars, ctx, ready, pausing, stopAnswered, timely, view,
                 cancelledBy, pauseVars>>

\* Register the handle; a stream still running on the thread is cancelled.
Register(s, k) ==
  /\ pc[s] = "idle"
  /\ pc' = [pc EXCEPT ![s] = "start"]
  /\ slot' = [slot EXCEPT ![s] = k]
  /\ ctx' = [x \in Streams |-> IF x = active[k] THEN Cancelled(x, "stopped") ELSE ctx[x]]
  /\ active' = [active EXCEPT ![k] = s]
  /\ UNCHANGED <<penVars, ready, pausing, stopAnswered, timely, view,
                 cancelledBy, pauseVars>>

\* The start event; StreamChat returns at once when the client is not there.
\* After it the request is built and sent.
SendStart(s) ==
  /\ pc[s] = "start"
  /\ \/ /\ pc' = [pc EXCEPT ![s] = "await"]
        /\ conn' = [conn EXCEPT ![s] = "requested"]
     \/ /\ pc' = [pc EXCEPT ![s] = "returning"]
        /\ UNCHANGED conn
  /\ UNCHANGED <<status, aborted, stopCall, stoppedBy, active, slot, ctx, ready, pausing,
                 stopAnswered, timely, view, cancelledBy, pauseVars>>

\* A request or read that fails is ended by its pause if the context says so.
Failed(s) == IF ctx[s] = "paused" THEN timely \cup {s} ELSE timely

RequestFails_NoTimeout(s) ==  \* mutant: an HTTP client without its timeout
  /\ pc[s] = "await" /\ ctx[s] # "live"
  /\ pc' = [pc EXCEPT ![s] = "ended"]
  /\ ready' = Settled(s, "norun")
  /\ timely' = Failed(s)
  /\ conn' = Abandoned(s)
  /\ UNCHANGED <<status, aborted, stopCall, stoppedBy, active, slot, ctx, pausing,
                 stopAnswered, view, cancelledBy, pauseVars>>

\* No response: the request could not be built or sent, timed out or was
\* cancelled.  The deferred settle tells a waiting pause that no run came.
RequestFails(s) ==
  /\ pc[s] = "await"
  /\ pc' = [pc EXCEPT ![s] = "ended"]
  /\ ready' = Settled(s, "norun")
  /\ timely' = Failed(s)
  /\ conn' = Abandoned(s)
  /\ UNCHANGED <<status, aborted, stopCall, stoppedBy, active, slot, ctx, pausing,
                 stopAnswered, view, cancelledBy, pauseVars>>

\* The response headers: 200 settles the handle with the run id.
ReceiveResponse(s) ==
  /\ pc[s] = "await"
  /\ \/ /\ conn[s] \in {"open", "closed"}
        /\ pc' = [pc EXCEPT ![s] = "reading"]
        /\ ready' = Settled(s, "run")
        /\ UNCHANGED <<conn, timely>>
     \/ /\ conn[s] = "refused"
        /\ pc' = [pc EXCEPT ![s] = "ended"]
        /\ ready' = Settled(s, "norun")
        /\ timely' = timely \cup {s}
        /\ conn' = Abandoned(s)
  /\ UNCHANGED <<status, aborted, stopCall, stoppedBy, active, slot, ctx, pausing,
                 stopAnswered, view, cancelledBy, pauseVars>>

\* The scan loop ends: at the end of the body, or with a read error (the
\* context's end, a broken connection, an oversized line, the client timeout).
EndRead(s) ==
  /\ pc[s] = "reading"
  /\ pc' = [pc EXCEPT ![s] = "ended"]
  /\ \/ /\ conn[s] = "closed"
        /\ timely' = timely \cup {s}
     \/ timely' = Failed(s)
  /\ conn' = Abandoned(s)
  /\ UNCHANGED <<status, aborted, stopCall, stoppedBy, active, slot, ctx, ready, pausing,
                 stopAnswered, view, cancelledBy, pauseVars>>

CheckPausing_Never(s) ==  \* mutant: the finish does not wait for a stop
  /\ pc[s] = "ended"
  /\ pc' = [pc EXCEPT ![s] = "listing"]
  /\ UNCHANGED <<penVars, active, slot, ctx, ready, pausing, stopAnswered, timely, view,
                 cancelledBy, pauseVars>>

\* waitForStop: at once when the stream is not being paused.
CheckPausing(s) ==
  /\ pc[s] = "ended"
  /\ pc' = [pc EXCEPT ![s] = IF pausing[s] THEN "waiting" ELSE "listing"]
  /\ UNCHANGED <<penVars, active, slot, ctx, ready, pausing, stopAnswered, timely, view,
                 cancelledBy, pauseVars>>

\* waitForStop's select: the pause's answer, or the timer.
EndWaitForStop(s) ==
  /\ pc[s] = "waiting"
  /\ pc' = [pc EXCEPT ![s] = "listing"]
  /\ timely' = IF stopAnswered[s] THEN timely ELSE timely \ {s}
  /\ UNCHANGED <<penVars, active, slot, ctx, ready, pausing, stopAnswered, view,
                 cancelledBy, pauseVars>>

\* The message list of the finish event, read from the database, shows the run
\* as stopped or not; the read may fail.
ListForFinish(s) ==
  /\ pc[s] = "listing"
  /\ pc' = [pc EXCEPT ![s] = "returning"]
  /\ \/ view' = [view EXCEPT ![s] = IF status[s] = "stopped" THEN "stopped" ELSE "other"]
     \/ UNCHANGED view
  /\ UNCHANGED <<penVars, active, slot, ctx, ready, pausing, stopAnswered, timely,
                 cancelledBy, pauseVars>>

\* The deferred calls: deregister the stream's own entry, cancel its context.
Return(s) ==
  /\ pc[s] = "returning"
  /\ pc' = [pc EXCEPT ![s] = "returned"]
  /\ active' = Deregistered(s)
  /\ ctx' = [ctx EXCEPT ![s] = Cancelled(s, "stopped")]
  /\ UNCHANGED <<penVars, slot, ready, pausing, stopAnswered, timely, view,
                 cancelledBy, pauseVars>>

\* The caller's context ends, whatever the cause; after the read nobody looks.
CallerCancels(s) ==
  /\ pc[s] \in {"await", "reading"} /\ ctx[s] = "live"
  /\ ctx' = [ctx EXCEPT ![s] = "stopped"]
  /\ UNCHANGED <<penVars, active, pc, slot, ready, pausing, stopAnswered, timely, view,
                 cancelledBy, pauseVars>>

-----------------------------------------------------------------------------
(***************************************************************************)
(* PauseStream.                                                            *)
(***************************************************************************)

\* pauseTarget binds the slot's stream as it is when the pause arrives.
Arrive(p, k) ==
  /\ ppc[p] = "idle"
  /\ pslot' = [pslot EXCEPT ![p] = k]
  /\ target' = [target EXCEPT ![p] = active[k]]
  /\ seen' = [seen EXCEPT ![p] = {s \in Streams : pc[s] # "idle"}]
  /\ ppc' = [ppc EXCEPT ![p] = IF active[k] = None THEN "lookup" ELSE "waitrun"]
  /\ UNCHANGED <<penVars, active, streamVars, pausing, stopAnswered, cancelledBy, runID, outcome>>

\* Without a local stream: the thread's running run in stream_runs, or an error.
LookupRun(p) ==
  /\ ppc[p] = "lookup"
  /\ seen' = [seen EXCEPT ![p] = IF target[p] = None THEN {s \in Streams : pc[s] # "idle"} ELSE @]
  /\ \/ \E r \in Streams \cup {None} :
          /\ FoundRun(pslot[p][2], r)
          /\ runID' = [runID EXCEPT ![p] = r]
          /\ ppc' = [ppc EXCEPT ![p] = IF r = None THEN "returning" ELSE "stop"]
          /\ outcome' = [outcome EXCEPT ![p] = IF r = None THEN "notfound" ELSE @]
     \/ /\ ppc' = [ppc EXCEPT ![p] = "returning"]
        /\ outcome' = [outcome EXCEPT ![p] = "error"]
        /\ UNCHANGED runID
  /\ UNCHANGED <<penVars, active, streamVars, pausing, stopAnswered, cancelledBy,
                 pslot, target>>

WaitOver_NoTimer(h) == ready[h] # "open"  \* mutant: no pauseWait timer

\* The select on ready and pauseWait may return at any time: when ready is
\* closed, and by the timer before that.
WaitOver(h) == TRUE

EndRunWait_FallsBack(p) ==  \* mutant: without a run id, ask stream_runs
  /\ ppc[p] = "waitrun"
  /\ runID' = [runID EXCEPT ![p] = IF ready[target[p]] = "run" THEN target[p] ELSE None]
  /\ ppc' = [ppc EXCEPT ![p] = IF ready[target[p]] = "run" THEN "mark" ELSE "lookup"]
  /\ UNCHANGED <<penVars, active, streamVars, pausing, stopAnswered, cancelledBy,
                 pslot, target, outcome, seen>>

\* With a local stream: its run id, or "" when there is none or none came.
EndRunWait(p) ==
  /\ ppc[p] = "waitrun"
  /\ WaitOver(target[p])
  /\ runID' = [runID EXCEPT ![p] = IF ready[target[p]] = "run" THEN target[p] ELSE None]
  /\ ppc' = [ppc EXCEPT ![p] = "mark"]
  /\ UNCHANGED <<penVars, active, streamVars, pausing, stopAnswered, cancelledBy,
                 pslot, target, outcome, seen>>

MarkPausing_AlwaysStops(p) ==  \* mutant: a stop is sent without a run
  /\ ppc[p] = "mark"
  /\ pausing' = [pausing EXCEPT ![target[p]] = TRUE]
  /\ ppc' = [ppc EXCEPT ![p] = "stop"]
  /\ UNCHANGED <<penVars, active, streamVars, stopAnswered, cancelledBy,
                 pslot, target, runID, outcome, seen>>

MarkPausing(p) ==
  /\ ppc[p] = "mark"
  /\ pausing' = [pausing EXCEPT ![target[p]] = TRUE]
  /\ ppc' = [ppc EXCEPT ![p] = IF runID[p] = None THEN "cancel" ELSE "stop"]
  /\ UNCHANGED <<penVars, active, streamVars, stopAnswered, cancelledBy,
                 pslot, target, runID, outcome, seen>>

\* callRemoteStop sends the stop of exactly this run.
SendStop(p) ==
  /\ ppc[p] = "stop"
  /\ ppc' = [ppc EXCEPT ![p] = "stopping"]
  /\ stopCall' = [stopCall EXCEPT ![p] = "sent"]
  /\ UNCHANGED <<conn, status, aborted, stoppedBy, active, streamVars, pausing, stopAnswered,
                 cancelledBy, pslot, target, runID, outcome, seen>>

Answers_ErrorIsNotFound(p) ==  \* mutant: a failed stop reads as "nothing to stop"
  {"notfound"} \cup IF stopCall[p] = "ok" THEN {"ok"} ELSE {}

\* What callRemoteStop can return: pen-gpt's answer, or an error (transport,
\* timeout, non-200, bad body), which may hide a stop that was recorded or
\* still will be.
Answers(p) ==
  {"error"} \cup CASE stopCall[p] = "ok" -> {"ok"}
                  [] stopCall[p] = "no" -> {"notfound"}
                  [] OTHER -> {}

AfterStop_Anyway(p, answer) ==  \* mutant: cancel locally whatever the answer
  IF target[p] # None THEN "cancel" ELSE "returning"

\* Only a recorded stop of a local stream goes on to the local cancel.
AfterStop(p, answer) ==
  IF answer = "ok" /\ target[p] # None THEN "cancel" ELSE "returning"

EndStop(p) ==
  /\ ppc[p] = "stopping"
  /\ \E answer \in Answers(p) :
       /\ ppc' = [ppc EXCEPT ![p] = AfterStop(p, answer)]
       /\ outcome' = [outcome EXCEPT ![p] =
            IF AfterStop(p, answer) = "returning" THEN answer ELSE @]
  /\ UNCHANGED <<penVars, active, streamVars, pausing, stopAnswered, cancelledBy,
                 pslot, target, runID, seen>>

\* cancelLocalStream, under the registry's lock.  After a recorded stop the
\* pause succeeds either way; without a run only if it cancelled the stream.
CancelLocal(p) ==
  LET h == target[p]
      mine == StillRegistered(pslot[p], h)
  IN
  /\ ppc[p] = "cancel"
  /\ ppc' = [ppc EXCEPT ![p] = "returning"]
  /\ outcome' = [outcome EXCEPT ![p] = IF mine \/ runID[p] # None THEN "ok" ELSE "notfound"]
  /\ IF mine
       THEN /\ ctx' = [ctx EXCEPT ![h] = Cancelled(h, "paused")]
            /\ active' = [active EXCEPT ![pslot[p]] = None]
            /\ cancelledBy' = [cancelledBy EXCEPT ![h] = p]
       ELSE UNCHANGED <<ctx, active, cancelledBy>>
  /\ UNCHANGED <<penVars, pc, slot, ready, timely, view, pausing, stopAnswered,
                 pslot, target, runID, seen>>

\* The deferred endPause; only the first one closes stopAnswered.
ReturnPause(p) ==
  /\ ppc[p] = "returning"
  /\ ppc' = [ppc EXCEPT ![p] = "returned"]
  /\ stopAnswered' = [s \in Streams |-> stopAnswered[s] \/ s = target[p]]
  /\ UNCHANGED <<penVars, active, streamVars, pausing, cancelledBy,
                 pslot, target, runID, outcome, seen>>

-----------------------------------------------------------------------------
(***************************************************************************)
(* The system.                                                             *)
(***************************************************************************)

ChatStep(s) ==
  \/ SendStart(s) \/ RequestFails(s) \/ ReceiveResponse(s) \/ EndRead(s)
  \/ CheckPausing(s) \/ EndWaitForStop(s) \/ ListForFinish(s) \/ Return(s)

PauseStep(p) ==
  \/ LookupRun(p) \/ EndRunWait(p) \/ MarkPausing(p) \/ SendStop(p) \/ EndStop(p)
  \/ CancelLocal(p) \/ ReturnPause(p)

\* The streams of s's thread, on whatever instance.
TurnsOf(s) == {x \in Streams : slot[x] # None /\ slot[x][2] = slot[s][2]}

PenGptStep ==
  /\ \/ \E s \in Streams :
          \/ AdmitRun(s, TurnsOf(s)) \/ RefuseRequest(s) \/ AnswerRequest(s)
          \/ CloseStream(s) \/ AdvanceRun(s)
     \/ \E p \in Pauses : AbortRun(p, runID[p]) \/ RecordStop(p, runID[p])
  /\ UNCHANGED <<active, streamVars, pausing, stopAnswered, cancelledBy, pauseVars>>

\* Every call has returned.
Finished ==
  /\ \A s \in Streams : pc[s] = "returned"
  /\ \A p \in Pauses : ppc[p] = "returned"
  /\ UNCHANGED vars

Next ==
  \/ \E s \in Streams : \E k \in Slots : Register(s, k)
  \/ \E s \in Streams : ChatStep(s) \/ CallerCancels(s)
  \/ \E p \in Pauses : \E k \in Slots : Arrive(p, k)
  \/ \E p \in Pauses : PauseStep(p)
  \/ PenGptStep
  \/ Finished

Spec == Init /\ [][Next]_vars

\* The goroutines of the service keep running: each wait of theirs has a
\* timer or an HTTP timeout.  Nothing is assumed of callers or of pen-gpt.
Fairness ==
  /\ \A s \in Streams : WF_vars(ChatStep(s))
  /\ \A p \in Pauses : WF_vars(PauseStep(p))

FairSpec == Spec /\ Fairness

=============================================================================
