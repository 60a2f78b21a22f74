----------------------------- MODULE PenGptRuns -----------------------------
(***************************************************************************)
(* pen-gpt as the SDK sees it: the stream endpoint, the stop endpoint and  *)
(* the stream_runs table.  pen-gpt is not part of the repository; this     *)
(* module is the environment that src/service/agent_stream.go,             *)
(* src/service/agent.go and internal/testdb/fixture.sql describe, with     *)
(* every order of events they allow.  No step of it is assumed fair.       *)
(*                                                                         *)
(* A StreamChat call sends at most one stream request and a request opens  *)
(* at most one run, so a run is named by the stream that opened it.  A     *)
(* PauseStream call sends at most one stop, named by the pause.            *)
(***************************************************************************)
EXTENDS Naturals

CONSTANTS
  Streams,   \* StreamChat calls, and the runs they open
  Pauses,    \* PauseStream calls, and the stops they send
  None       \* no stream, no pause, no slot

ASSUME NoneAssumption == None \notin Streams /\ None \notin Pauses

VARIABLES
  conn,      \* the exchange of each stream request with pen-gpt
  status,    \* stream_runs.status, "none" before the row exists
  aborted,   \* runs whose agent.stream() pen-gpt has aborted
  stopCall,  \* the exchange of each stop with pen-gpt
  stoppedBy  \* history: the stop that a stopped run recorded

penVars == <<conn, status, aborted, stopCall, stoppedBy>>

RunStatus == {"running", "completing", "completed", "stopped", "superseded", "failed"}

\* "orphaned": the caller has given up on a request that may still arrive.
ConnState == {"none", "requested", "orphaned", "admitted", "refused", "open", "closed"}

PenTypeOK ==
  /\ conn \in [Streams -> ConnState]
  /\ status \in [Streams -> RunStatus \cup {"none"}]
  /\ aborted \in SUBSET Streams
  /\ stopCall \in [Pauses -> {"none", "sent", "ok", "no"}]
  /\ stoppedBy \in [Streams -> Pauses \cup {None}]

PenInit ==
  /\ conn = [s \in Streams |-> "none"]
  /\ status = [s \in Streams |-> "none"]
  /\ aborted = {}
  /\ stopCall = [p \in Pauses |-> "none"]
  /\ stoppedBy = [s \in Streams |-> None]

(***************************************************************************)
(* The stream endpoint.  `turns' is the set of streams of the same thread. *)
(***************************************************************************)

\* Admission opens the run and supersedes the thread's running one: pen-gpt
\* keeps one active run per thread, and answers 409 while it is completing.
AdmitRun(s, turns) ==
  /\ conn[s] \in {"requested", "orphaned"}
  /\ \A x \in turns : status[x] # "completing"
  /\ conn' = [conn EXCEPT ![s] = IF @ = "requested" THEN "admitted" ELSE "closed"]
  /\ status' = [x \in Streams |->
       IF x = s THEN "running"
       ELSE IF x \in turns /\ status[x] = "running" THEN "superseded"
       ELSE status[x]]
  /\ UNCHANGED <<aborted, stopCall, stoppedBy>>

\* 403, 409 RUN_FINALIZING, 5xx: no run is opened.
RefuseRequest(s) ==
  /\ conn[s] = "requested"
  /\ conn' = [conn EXCEPT ![s] = "refused"]
  /\ UNCHANGED <<status, aborted, stopCall, stoppedBy>>

\* The response headers: 200 with the run id while the run runs; 204 (or an
\* error answer) when it ended before its stream existed.
AnswerRequest(s) ==
  /\ conn[s] = "admitted"
  /\ conn' = [conn EXCEPT ![s] = IF status[s] = "running" THEN "open" ELSE "refused"]
  /\ UNCHANGED <<status, aborted, stopCall, stoppedBy>>

\* The body ends when the run has ended or its generation was aborted.
CloseStream(s) ==
  /\ conn[s] = "open"
  /\ status[s] # "running" \/ s \in aborted
  /\ conn' = [conn EXCEPT ![s] = "closed"]
  /\ UNCHANGED <<status, aborted, stopCall, stoppedBy>>

\* What the end of the caller's side leaves: the close of its connection is
\* not propagated to pen-gpt, where the request may yet open a run.
Abandoned(s) == [conn EXCEPT ![s] = IF @ = "requested" THEN "orphaned" ELSE "closed"]

(***************************************************************************)
(* The life of a run: running, completing while the answer is saved, then  *)
(* completed; or failed.                                                   *)
(***************************************************************************)
AdvanceRun(s) ==
  /\ \/ /\ status[s] = "running" /\ s \notin aborted
        /\ status' = [status EXCEPT ![s] = "completing"]
     \/ /\ status[s] = "completing"
        /\ status' = [status EXCEPT ![s] = "completed"]
     \/ /\ status[s] = "running"
        /\ status' = [status EXCEPT ![s] = "failed"]
  /\ UNCHANGED <<conn, aborted, stopCall, stoppedBy>>

(***************************************************************************)
(* The stop endpoint, for stop p naming run r.  The upstream may break off *)
(* before the stop is recorded, and a stop whose caller has given up may   *)
(* still be recorded.                                                      *)
(***************************************************************************)
AbortRun(p, r) ==
  /\ stopCall[p] = "sent" /\ status[r] = "running"
  /\ aborted' = aborted \cup {r}
  /\ UNCHANGED <<conn, status, stopCall, stoppedBy>>

RecordStop(p, r) ==
  /\ stopCall[p] = "sent"
  /\ IF status[r] = "running"
       THEN /\ status' = [status EXCEPT ![r] = "stopped"]
            /\ stoppedBy' = [stoppedBy EXCEPT ![r] = p]
            /\ aborted' = aborted \cup {r}
            /\ stopCall' = [stopCall EXCEPT ![p] = "ok"]
       ELSE /\ stopCall' = [stopCall EXCEPT ![p] = "no"]
            /\ UNCHANGED <<status, stoppedBy, aborted>>
  /\ UNCHANGED conn

=============================================================================
