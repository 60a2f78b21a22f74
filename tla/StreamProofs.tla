---------------------------- MODULE StreamProofs ----------------------------
(***************************************************************************)
(* Proofs about StreamControl for any number of streams, pauses, instances *)
(* and threads.  IInv strengthens the safety properties of                 *)
(* StreamProperties to an invariant that every step of Next preserves; it  *)
(* is a conjunction of parts, each with a lemma of its own.                *)
(***************************************************************************)
EXTENDS StreamProperties, TLAPS

USE NoneAssumption, SlotsAssumption

-----------------------------------------------------------------------------
(***************************************************************************)
(* The inductive invariant, by parts.                                      *)
(***************************************************************************)

\* The registry, the streams and their contexts.
Registry ==
  /\ NoLostHandle
  /\ RegistryIsLive
  /\ \A s \in Streams : pc[s] = "idle" => ctx[s] = "live"
  /\ \A s \in Streams : pc[s] = "returned" => ctx[s] # "live"

\* A request is sent after the start event, and opens the run.
Requests ==
  \A s \in Streams :
    /\ pc[s] \in {"idle", "start"} => conn[s] = "none"
    /\ conn[s] \in {"none", "requested", "orphaned"} => status[s] = "none"
    /\ pc[s] = "await" /\ conn[s] \in {"admitted", "open", "closed"} => status[s] # "none"
    /\ ready[s] = "run" => status[s] # "none"

\* What a pause is bound to when it arrives is a stream of its slot, and its
\* run that stream's; the run had begun when the pause fixed it.
Bindings ==
  \A p \in Pauses :
    /\ ppc[p] \in {"idle", "lookup"} => target[p] = None
    /\ ppc[p] \in {"idle", "lookup", "waitrun"} => runID[p] = None
    /\ \A s \in seen[p] : pc[s] # "idle"
    /\ target[p] # None =>
         /\ target[p] \in seen[p]
         /\ slot[target[p]] = pslot[p]
         /\ runID[p] \in {None, target[p]}
    /\ runID[p] # None =>
         /\ runID[p] \in seen[p]
         /\ status[runID[p]] # "none"
         /\ slot[runID[p]][2] = pslot[p][2]

\* A stop is recorded for one run, which stays stopped.
Stops ==
  /\ \A p \in Pauses :
       /\ stopCall[p] = "ok" => stoppedBy[runID[p]] = p
       /\ stopCall[p] = "no" => status[runID[p]] \notin {"none", "running"}
       /\ ppc[p] = "cancel" /\ runID[p] # None => stopCall[p] = "ok"
  /\ \A p \in Pauses, s \in Streams :
       stoppedBy[s] = p => runID[p] = s /\ stopCall[p] = "ok"
  /\ \A s \in Streams : stoppedBy[s] # None => status[s] = "stopped"

\* A stream is cancelled by the pause bound to it, at the end of that pause,
\* and leaves the registry for good.
Cancels ==
  /\ \A p \in Pauses, s \in Streams :
       cancelledBy[s] = p =>
         /\ target[p] = s
         /\ ppc[p] \in {"returning", "returned"}
         /\ runID[p] # None => stopCall[p] = "ok"
  /\ \A s \in Streams :
       cancelledBy[s] # None => /\ pc[s] # "idle" /\ ctx[s] # "live"
                                /\ \A k \in Slots : active[k] # s

\* A pause's outcome, once it has one, is what it did or found.
Outcomes ==
  \A p \in Pauses :
    /\ outcome[p] # "none" => ppc[p] \in {"returning", "returned"}
    /\ outcome[p] = "ok" =>
         IF runID[p] # None THEN stopCall[p] = "ok"
         ELSE target[p] # None /\ cancelledBy[target[p]] = p
    /\ outcome[p] = "notfound" /\ target[p] # None =>
         ctx[target[p]] # "live" \/ stopCall[p] = "no"

IInv == TypeOK /\ Registry /\ Requests /\ Bindings /\ Stops /\ Cancels /\ Outcomes

-----------------------------------------------------------------------------
\* Every call starts with its variables unset.
LEMMA InitType == Init => TypeOK
BY DEF Init, PenInit, TypeOK, PenTypeOK, StreamPC, PausePC, ConnState, RunStatus

\* Every step of StreamChat, PauseStream and pen-gpt keeps the types, and keeps
\* a call's place in step with the variables it has set.
LEMMA NextType == TypeOK /\ [Next]_vars => TypeOK'
<1> SUFFICES ASSUME TypeOK, [Next]_vars
             PROVE  TypeOK'
  OBVIOUS
<1> USE DEF TypeOK, PenTypeOK, StreamPC, PausePC, ConnState, RunStatus,
            vars, penVars, streamVars, pauseVars
<1>1. ASSUME NEW s \in Streams, NEW k \in Slots, Register(s, k)
      PROVE  TypeOK'
  BY <1>1, SMTT(30) DEF Register, Cancelled
<1>2. ASSUME NEW s \in Streams, SendStart(s)
      PROVE  TypeOK'
  BY <1>2, SMTT(30) DEF SendStart
<1>3. ASSUME NEW s \in Streams, RequestFails(s)
      PROVE  TypeOK'
  BY <1>3, SMTT(30) DEF RequestFails, Settled, Failed, Abandoned
<1>4. ASSUME NEW s \in Streams, ReceiveResponse(s)
      PROVE  TypeOK'
  <2>1. CASE conn[s] = "refused"
    BY <1>4, <2>1, SMTT(60) DEF ReceiveResponse, Settled, Abandoned
  <2>2. CASE conn[s] # "refused"
    BY <1>4, <2>2, SMTT(60) DEF ReceiveResponse, Settled
  <2> QED
    BY <2>1, <2>2
<1>5. ASSUME NEW s \in Streams, EndRead(s)
      PROVE  TypeOK'
  BY <1>5, SMTT(30) DEF EndRead, Failed, Abandoned
<1>6. ASSUME NEW s \in Streams, CheckPausing(s)
      PROVE  TypeOK'
  BY <1>6, SMTT(30) DEF CheckPausing
<1>7. ASSUME NEW s \in Streams, EndWaitForStop(s)
      PROVE  TypeOK'
  BY <1>7, SMTT(30) DEF EndWaitForStop
<1>8. ASSUME NEW s \in Streams, ListForFinish(s)
      PROVE  TypeOK'
  BY <1>8, SMTT(30) DEF ListForFinish
<1>9. ASSUME NEW s \in Streams, Return(s)
      PROVE  TypeOK'
  BY <1>9, SMTT(30) DEF Return, Deregistered, Cancelled
<1>10. ASSUME NEW s \in Streams, CallerCancels(s)
       PROVE  TypeOK'
  BY <1>10, SMTT(30) DEF CallerCancels
<1>11. ASSUME NEW p \in Pauses, NEW k \in Slots, Arrive(p, k)
       PROVE  TypeOK'
  BY <1>11, SMTT(30) DEF Arrive
<1>12. ASSUME NEW p \in Pauses, LookupRun(p)
       PROVE  TypeOK'
  <2>1. ASSUME ppc' = [ppc EXCEPT ![p] = "returning"],
               outcome' = [outcome EXCEPT ![p] = "error"],
               UNCHANGED runID
        PROVE  TypeOK'
    BY <1>12, <2>1, SMTT(60) DEF LookupRun
  <2>2. ASSUME NEW r \in Streams \cup {None},
               runID' = [runID EXCEPT ![p] = r],
               ppc' = [ppc EXCEPT ![p] = IF r = None THEN "returning" ELSE "stop"],
               outcome' = [outcome EXCEPT ![p] = IF r = None THEN "notfound" ELSE @]
        PROVE  TypeOK'
    BY <1>12, <2>2, SMTT(60) DEF LookupRun
  <2> HIDE DEF TypeOK
  <2> QED
    BY <1>12, <2>1, <2>2 DEF LookupRun
<1>13. ASSUME NEW p \in Pauses, EndRunWait(p)
       PROVE  TypeOK'
  BY <1>13, SMTT(30) DEF EndRunWait
<1>14. ASSUME NEW p \in Pauses, MarkPausing(p)
       PROVE  TypeOK'
  BY <1>14, SMTT(30) DEF MarkPausing
<1>15. ASSUME NEW p \in Pauses, SendStop(p)
       PROVE  TypeOK'
  BY <1>15, SMTT(30) DEF SendStop
<1>16. ASSUME NEW p \in Pauses, EndStop(p)
       PROVE  TypeOK'
  BY <1>16, SMTT(30) DEF EndStop, Answers, AfterStop
<1>17. ASSUME NEW p \in Pauses, CancelLocal(p)
       PROVE  TypeOK'
  <2>1. CASE StillRegistered(pslot[p], target[p])
    <3>1. target[p] \in Streams /\ pslot[p] \in Slots
      BY <1>17 DEF CancelLocal
    <3>2. ctx' \in [Streams -> {"live", "stopped", "paused"}]
      BY <1>17, <2>1, <3>1 DEF CancelLocal, Cancelled
    <3>3. active' \in [Slots -> Streams \cup {None}]
      BY <1>17, <2>1, <3>1 DEF CancelLocal
    <3>4. cancelledBy' \in [Streams -> Pauses \cup {None}]
      BY <1>17, <2>1, <3>1 DEF CancelLocal
    <3>5. outcome' \in [Pauses -> {"none", "ok", "notfound", "error"}]
      BY <1>17 DEF CancelLocal
    <3>6. ppc' \in [Pauses -> PausePC] /\ ppc' = [ppc EXCEPT ![p] = "returning"]
      BY <1>17 DEF CancelLocal
    <3>7. UNCHANGED <<penVars, pc, slot, ready, timely, view, pausing, stopAnswered,
                      pslot, target, runID, seen>>
      BY <1>17 DEF CancelLocal
    <3>8. ppc[p] = "cancel"
      BY <1>17 DEF CancelLocal
    <3> QED
      BY <3>2, <3>3, <3>4, <3>5, <3>6, <3>7, <3>8, SMTT(30)
  <2>2. CASE ~ StillRegistered(pslot[p], target[p])
    BY <1>17, <2>2, SMTT(30) DEF CancelLocal
  <2> QED
    BY <2>1, <2>2
<1>18. ASSUME NEW p \in Pauses, ReturnPause(p)
       PROVE  TypeOK'
  BY <1>18, SMTT(30) DEF ReturnPause
<1>19. ASSUME PenGptStep
       PROVE  TypeOK'
  <2>1. ASSUME NEW s \in Streams, AdmitRun(s, TurnsOf(s))
        PROVE  TypeOK'
    BY <1>19, <2>1, SMTT(30) DEF PenGptStep, AdmitRun
  <2>4. ASSUME NEW s \in Streams,
               RefuseRequest(s) \/ AnswerRequest(s) \/ CloseStream(s)
        PROVE  TypeOK'
    BY <1>19, <2>4, SMTT(30) DEF PenGptStep, RefuseRequest, AnswerRequest, CloseStream
  <2>5. ASSUME NEW s \in Streams, AdvanceRun(s)
        PROVE  TypeOK'
    BY <1>19, <2>5, SMTT(30) DEF PenGptStep, AdvanceRun
  <2>2. ASSUME NEW p \in Pauses, AbortRun(p, runID[p])
        PROVE  TypeOK'
    BY <1>19, <2>2, SMTT(30) DEF PenGptStep, AbortRun
  <2>3. ASSUME NEW p \in Pauses, RecordStop(p, runID[p])
        PROVE  TypeOK'
    BY <1>19, <2>3, SMTT(30) DEF PenGptStep, RecordStop
  <2> HIDE DEF TypeOK
  <2> QED
    BY <1>19, <2>1, <2>2, <2>3, <2>4, <2>5 DEF PenGptStep
<1>20. CASE UNCHANGED vars
  BY <1>20
<1> QED
  BY <1>1, <1>2, <1>3, <1>4, <1>5, <1>6, <1>7, <1>8, <1>9, <1>10, <1>11, <1>12, <1>13,
     <1>14, <1>15, <1>16, <1>17, <1>18, <1>19, <1>20
     DEF Next, ChatStep, PauseStep, Finished

-----------------------------------------------------------------------------
(***************************************************************************)
(* The registry.                                                           *)
(***************************************************************************)

\* The registry is kept by registration, local cancel and deregistration, the
\* only three places of the code that write activeStreams.
LEMMA NextRegistry == IInv /\ [Next]_vars => Registry'
<1> SUFFICES ASSUME IInv, [Next]_vars
             PROVE  Registry'
  OBVIOUS
<1> USE DEF Registry, NoLostHandle, RegistryIsLive, Running
<1>t. /\ active \in [Slots -> Streams \cup {None}]
      /\ pc \in [Streams -> StreamPC]
      /\ slot \in [Streams -> Slots \cup {None}]
      /\ ctx \in [Streams -> {"live", "stopped", "paused"}]
      /\ \A s \in Streams : pc[s] = "idle" <=> slot[s] = None
      /\ Registry
  BY DEF IInv, TypeOK
<1>c. \A p \in Pauses : ppc[p] = "cancel" =>
        target[p] \in Streams /\ pslot[p] \in Slots /\ slot[target[p]] = pslot[p]
  BY DEF IInv, TypeOK, Bindings
<1>1. ASSUME NEW s \in Streams, NEW k \in Slots, Register(s, k)
      PROVE  Registry'
  BY <1>1, <1>t DEF Register, Cancelled
<1>2. ASSUME NEW s \in Streams, SendStart(s)
      PROVE  Registry'
  BY <1>2, <1>t DEF SendStart, streamVars
<1>3. ASSUME NEW s \in Streams, RequestFails(s)
      PROVE  Registry'
  BY <1>3, <1>t DEF RequestFails
<1>4. ASSUME NEW s \in Streams, ReceiveResponse(s)
      PROVE  Registry'
  BY <1>4, <1>t DEF ReceiveResponse
<1>5. ASSUME NEW s \in Streams, EndRead(s)
      PROVE  Registry'
  BY <1>5, <1>t DEF EndRead
<1>6. ASSUME NEW s \in Streams, CheckPausing(s)
      PROVE  Registry'
  BY <1>6, <1>t DEF CheckPausing
<1>7. ASSUME NEW s \in Streams, EndWaitForStop(s)
      PROVE  Registry'
  BY <1>7, <1>t DEF EndWaitForStop
<1>8. ASSUME NEW s \in Streams, ListForFinish(s)
      PROVE  Registry'
  BY <1>8, <1>t DEF ListForFinish
<1>9. ASSUME NEW s \in Streams, Return(s)
      PROVE  Registry'
  BY <1>9, <1>t DEF Return, Deregistered, Cancelled
<1>10. ASSUME NEW s \in Streams, CallerCancels(s)
       PROVE  Registry'
  BY <1>10, <1>t DEF CallerCancels
<1>11. ASSUME NEW p \in Pauses, CancelLocal(p)
       PROVE  Registry'
  BY <1>11, <1>t, <1>c DEF CancelLocal, Cancelled, StillRegistered
<1>12. ASSUME UNCHANGED <<active, pc, slot, ctx>>
       PROVE  Registry'
  BY <1>12, <1>t
<1>13. ASSUME NEW p \in Pauses,
              \/ LookupRun(p) \/ EndRunWait(p) \/ MarkPausing(p) \/ SendStop(p) \/ EndStop(p)
              \/ ReturnPause(p) \/ \E k \in Slots : Arrive(p, k)
       PROVE  UNCHANGED <<active, pc, slot, ctx>>
  BY <1>13 DEF LookupRun, EndRunWait, MarkPausing, SendStop, EndStop, ReturnPause, Arrive, streamVars
<1>14. CASE PenGptStep \/ UNCHANGED vars
  BY <1>14, <1>12 DEF PenGptStep, vars, streamVars
<1> HIDE DEF Registry
<1> QED
  BY <1>1, <1>2, <1>3, <1>4, <1>5, <1>6, <1>7, <1>8, <1>9, <1>10, <1>11, <1>12, <1>13, <1>14
     DEF Next, ChatStep, PauseStep, Finished

-----------------------------------------------------------------------------
(***************************************************************************)
(* Requests and the runs they open.                                        *)
(***************************************************************************)

\* A run is opened by an admitted request only, and a handle is settled with a
\* run id only once the run exists.
LEMMA NextRequests == IInv /\ [Next]_vars => Requests'
<1> SUFFICES ASSUME IInv, [Next]_vars
             PROVE  Requests'
  OBVIOUS
<1> USE DEF Requests
<1>t. /\ pc \in [Streams -> StreamPC]
      /\ conn \in [Streams -> ConnState]
      /\ status \in [Streams -> RunStatus \cup {"none"}]
      /\ ready \in [Streams -> {"open", "norun", "run"}]
      /\ Requests
  BY DEF IInv, TypeOK, PenTypeOK
<1>1. ASSUME NEW s \in Streams, NEW k \in Slots, Register(s, k)
      PROVE  Requests'
  BY <1>1, <1>t DEF Register, penVars
<1>2. ASSUME NEW s \in Streams, SendStart(s)
      PROVE  Requests'
  BY <1>2, <1>t DEF SendStart
<1>3. ASSUME NEW s \in Streams, RequestFails(s)
      PROVE  Requests'
  BY <1>3, <1>t DEF RequestFails, Settled, Abandoned, ConnState
<1>4. ASSUME NEW s \in Streams, ReceiveResponse(s)
      PROVE  Requests'
  BY <1>4, <1>t DEF ReceiveResponse, Settled, Abandoned, ConnState
<1>5. ASSUME NEW s \in Streams, EndRead(s)
      PROVE  Requests'
  BY <1>5, <1>t DEF EndRead, Abandoned, ConnState
<1>6. ASSUME NEW s \in Streams,
             \/ CheckPausing(s) \/ EndWaitForStop(s) \/ ListForFinish(s) \/ Return(s)
      PROVE  Requests'
  BY <1>6, <1>t DEF CheckPausing, EndWaitForStop, ListForFinish, Return, penVars
<1>7. ASSUME NEW s \in Streams, AdmitRun(s, TurnsOf(s)), PenGptStep
      PROVE  Requests'
  BY <1>7, <1>t DEF AdmitRun, PenGptStep, streamVars
<1>8. ASSUME NEW s \in Streams,
             RefuseRequest(s) \/ AnswerRequest(s) \/ CloseStream(s) \/ AdvanceRun(s), PenGptStep
      PROVE  Requests'
  BY <1>8, <1>t
     DEF RefuseRequest, AnswerRequest, CloseStream, AdvanceRun, PenGptStep, streamVars
<1>9. ASSUME NEW p \in Pauses, AbortRun(p, runID[p]) \/ RecordStop(p, runID[p]), PenGptStep
      PROVE  Requests'
  BY <1>9, <1>t DEF AbortRun, RecordStop, PenGptStep, streamVars
<1>10. ASSUME UNCHANGED <<pc, conn, status, ready>>
       PROVE  Requests'
  BY <1>10, <1>t
<1>11. ASSUME NEW p \in Pauses, PauseStep(p) \/ \E k \in Slots : Arrive(p, k)
       PROVE  UNCHANGED <<pc, conn, status, ready>>
  BY <1>11 DEF PauseStep, LookupRun, EndRunWait, MarkPausing, SendStop, EndStop, CancelLocal,
               ReturnPause, Arrive, streamVars, penVars
<1>12. ASSUME NEW s \in Streams, CallerCancels(s)
       PROVE  UNCHANGED <<pc, conn, status, ready>>
  BY <1>12 DEF CallerCancels, penVars
<1>13. CASE PenGptStep
  <2> HIDE DEF Requests
  <2> QED
    BY <1>7, <1>8, <1>9, <1>13 DEF PenGptStep
<1>14. CASE UNCHANGED vars
  BY <1>14, <1>10 DEF vars, streamVars, penVars
<1> HIDE DEF Requests
<1> QED
  BY <1>1, <1>2, <1>3, <1>4, <1>5, <1>6, <1>10, <1>11, <1>12, <1>13, <1>14
     DEF Next, ChatStep, Finished

-----------------------------------------------------------------------------
(***************************************************************************)
(* What a pause is bound to.                                               *)
(***************************************************************************)

\* A pause stays bound to the stream of its slot that it found on arrival, and
\* names no other run.
LEMMA NextBindings == IInv /\ [Next]_vars => Bindings'
<1> SUFFICES ASSUME IInv, [Next]_vars
             PROVE  Bindings'
  OBVIOUS
<1> USE DEF Bindings
<1>t. /\ pc \in [Streams -> StreamPC]
      /\ slot \in [Streams -> Slots \cup {None}]
      /\ status \in [Streams -> RunStatus \cup {"none"}]
      /\ active \in [Slots -> Streams \cup {None}]
      /\ ready \in [Streams -> {"open", "norun", "run"}]
      /\ ppc \in [Pauses -> PausePC]
      /\ pslot \in [Pauses -> Slots \cup {None}]
      /\ target \in [Pauses -> Streams \cup {None}]
      /\ runID \in [Pauses -> Streams \cup {None}]
      /\ seen \in [Pauses -> SUBSET Streams]
      /\ \A s \in Streams : pc[s] = "idle" <=> slot[s] = None
      /\ \A p \in Pauses : ppc[p] = "waitrun" => target[p] # None
      /\ Bindings
  BY DEF IInv, TypeOK, PenTypeOK
<1>r. /\ \A s \in Streams : status[s] # "none" => pc[s] # "idle"
      /\ \A s \in Streams : ready[s] = "run" => status[s] # "none"
  BY DEF IInv, Requests
<1>1. ASSUME NEW s \in Streams, NEW k \in Slots, Register(s, k)
      PROVE  Bindings'
  BY <1>1, <1>t, <1>r DEF Register, penVars, pauseVars
<1>2. ASSUME NEW s \in Streams, ChatStep(s)
      PROVE  /\ UNCHANGED <<slot, status, pauseVars>>
             /\ pc[s] # "idle" /\ \E x \in StreamPC \ {"idle"} : pc' = [pc EXCEPT ![s] = x]
  BY <1>2, <1>t DEF ChatStep, SendStart, RequestFails, ReceiveResponse, EndRead, CheckPausing,
                    EndWaitForStop, ListForFinish, Return, penVars, StreamPC
<1>3. ASSUME NEW s \in Streams, ChatStep(s)
      PROVE  Bindings'
  BY <1>2, <1>3, <1>t DEF pauseVars
<1>4. ASSUME NEW p \in Pauses, NEW k \in Slots, Arrive(p, k)
      PROVE  Bindings'
  <2>1. active[k] # None => pc[active[k]] # "idle" /\ slot[active[k]] = k
    BY <1>t DEF IInv, Registry, RegistryIsLive, Running
  <2> QED
    BY <1>4, <1>t, <2>1 DEF Arrive, streamVars, penVars
<1>5. ASSUME NEW p \in Pauses, LookupRun(p)
      PROVE  Bindings'
  <2>1. ASSUME NEW r \in Streams \cup {None}, FoundRun(pslot[p][2], r),
               runID' = [runID EXCEPT ![p] = r],
               ppc' = [ppc EXCEPT ![p] = IF r = None THEN "returning" ELSE "stop"]
        PROVE  Bindings'
    <3>1. r # None => r \in Streams /\ status[r] = "running" /\ slot[r][2] = pslot[p][2]
      BY <2>1, <1>t DEF FoundRun, RunningOn
    <3>2. r # None => pc[r] # "idle"
      BY <3>1, <1>r
    <3>3. seen' = [seen EXCEPT ![p] = {s \in Streams : pc[s] # "idle"}]
      BY <1>5, <1>t DEF LookupRun
    <3> QED
      BY <1>5, <2>1, <3>1, <3>2, <3>3, <1>t DEF LookupRun, streamVars, penVars
  <2>2. ASSUME ppc' = [ppc EXCEPT ![p] = "returning"], UNCHANGED runID
        PROVE  Bindings'
    <3>1. seen' = [seen EXCEPT ![p] = {s \in Streams : pc[s] # "idle"}]
      BY <1>5, <1>t DEF LookupRun
    <3> QED
      BY <1>5, <2>2, <3>1, <1>t DEF LookupRun, streamVars, penVars
  <2> HIDE DEF Bindings
  <2> QED
    BY <1>5, <2>1, <2>2 DEF LookupRun
<1>6. ASSUME NEW p \in Pauses, EndRunWait(p)
      PROVE  Bindings'
  BY <1>6, <1>t, <1>r DEF EndRunWait, streamVars, penVars
<1>7. ASSUME NEW p \in Pauses,
             \/ MarkPausing(p) \/ SendStop(p) \/ EndStop(p) \/ CancelLocal(p) \/ ReturnPause(p)
      PROVE  /\ UNCHANGED <<pc, slot, status, pslot, target, runID, seen>>
             /\ \E x \in {"stop", "stopping", "cancel", "returning", "returned"} :
                  ppc' = [ppc EXCEPT ![p] = x]
  BY <1>7 DEF MarkPausing, SendStop, EndStop, AfterStop, CancelLocal, ReturnPause,
              streamVars, penVars
<1>8. ASSUME NEW p \in Pauses,
             \/ MarkPausing(p) \/ SendStop(p) \/ EndStop(p) \/ CancelLocal(p) \/ ReturnPause(p)
      PROVE  Bindings'
  BY <1>7, <1>8, <1>t
<1>9. CASE PenGptStep
  <2>1. UNCHANGED <<pc, slot, pauseVars>>
    BY <1>9 DEF PenGptStep, streamVars
  <2>2. \A s \in Streams : status[s] # "none" => status'[s] # "none"
    BY <1>9, <1>t DEF PenGptStep, AdmitRun, RefuseRequest, AnswerRequest, CloseStream, AdvanceRun,
                      AbortRun, RecordStop
  <2> QED
    BY <2>1, <2>2, <1>t DEF pauseVars
<1>10. ASSUME UNCHANGED <<pc, slot, status, pauseVars>>
       PROVE  Bindings'
  BY <1>10, <1>t DEF pauseVars
<1>11. ASSUME NEW s \in Streams, CallerCancels(s)
       PROVE  UNCHANGED <<pc, slot, status, pauseVars>>
  BY <1>11 DEF CallerCancels, penVars
<1>12. CASE UNCHANGED vars
  BY <1>12, <1>10 DEF vars, streamVars, penVars
<1> HIDE DEF Bindings
<1> QED
  BY <1>1, <1>3, <1>4, <1>5, <1>6, <1>8, <1>9, <1>10, <1>11, <1>12
     DEF Next, PauseStep, Finished

-----------------------------------------------------------------------------
(***************************************************************************)
(* Stops, cancels and outcomes.                                            *)
(***************************************************************************)

\* What the steps of a pause after it is bound leave alone.
BindingsKept ==
  \A p \in Pauses :
    /\ runID[p] # None \/ ppc[p] \in {"cancel", "returning", "returned"} => runID'[p] = runID[p]
    /\ ppc[p] # "idle" => target'[p] = target[p]

\* PauseStream writes its target and run id once.
LEMMA BindingsAreKept == IInv /\ [Next]_vars => BindingsKept
<1> SUFFICES ASSUME IInv, [Next]_vars
             PROVE  BindingsKept
  OBVIOUS
<1>t. /\ runID \in [Pauses -> Streams \cup {None}]
      /\ target \in [Pauses -> Streams \cup {None}]
      /\ \A p \in Pauses :
           /\ ppc[p] \in {"idle", "lookup"} => target[p] = None
           /\ ppc[p] \in {"idle", "lookup", "waitrun"} => runID[p] = None
  BY DEF IInv, TypeOK, Bindings
<1>1. ASSUME NEW s \in Streams, ChatStep(s) \/ CallerCancels(s) \/ \E k \in Slots : Register(s, k)
      PROVE  UNCHANGED <<target, runID>>
  BY <1>1 DEF ChatStep, SendStart, RequestFails, ReceiveResponse, EndRead, CheckPausing,
              EndWaitForStop, ListForFinish, Return, CallerCancels, Register, pauseVars
<1>2. ASSUME NEW p \in Pauses, NEW k \in Slots, Arrive(p, k)
      PROVE  ppc[p] = "idle" /\ UNCHANGED runID /\ target' = [target EXCEPT ![p] = active[k]]
  BY <1>2 DEF Arrive
<1>3. ASSUME NEW p \in Pauses, LookupRun(p) \/ EndRunWait(p)
      PROVE  /\ ppc[p] \in {"lookup", "waitrun"} /\ UNCHANGED target
             /\ UNCHANGED runID \/ \E r : runID' = [runID EXCEPT ![p] = r]
  BY <1>3 DEF LookupRun, EndRunWait
<1>4. ASSUME NEW p \in Pauses,
             \/ MarkPausing(p) \/ SendStop(p) \/ EndStop(p) \/ CancelLocal(p) \/ ReturnPause(p)
      PROVE  UNCHANGED <<target, runID>>
  BY <1>4 DEF MarkPausing, SendStop, EndStop, CancelLocal, ReturnPause
<1>5. CASE PenGptStep \/ UNCHANGED vars
  BY <1>5 DEF PenGptStep, vars, pauseVars, BindingsKept
<1> QED
  BY <1>t, <1>1, <1>2, <1>3, <1>4, <1>5 DEF Next, PauseStep, Finished, BindingsKept

\* A run never leaves the states it ends in, and a stop call that has its
\* answer keeps it.
EndsKept ==
  /\ \A s \in Streams :
       /\ status[s] \notin {"none", "running"} => status'[s] \notin {"none", "running"}
       /\ status[s] = "stopped" => status'[s] = "stopped"
       /\ stoppedBy[s] # None => stoppedBy'[s] = stoppedBy[s]
  /\ \A p \in Pauses : stopCall[p] \in {"ok", "no"} => stopCall'[p] = stopCall[p]

\* A run that has stopped running does not start again, and what stopped it
\* does not change: pen-gpt's compare-and-set on stream_runs.status.
LEMMA EndsAreKept == IInv /\ [Next]_vars => EndsKept
<1> SUFFICES ASSUME IInv, [Next]_vars
             PROVE  EndsKept
  OBVIOUS
<1>t. /\ status \in [Streams -> RunStatus \cup {"none"}]
      /\ stoppedBy \in [Streams -> Pauses \cup {None}]
      /\ stopCall \in [Pauses -> {"none", "sent", "ok", "no"}]
      /\ \A s \in Streams : conn[s] \in {"requested", "orphaned"} => status[s] = "none"
      /\ \A s \in Streams : stoppedBy[s] # None => status[s] = "stopped"
      /\ \A p \in Pauses : ppc[p] = "stop" => stopCall[p] = "none"
  BY DEF IInv, TypeOK, PenTypeOK, Requests, Stops
<1>1. ASSUME NEW s \in Streams, ChatStep(s) \/ CallerCancels(s) \/ \E k \in Slots : Register(s, k)
      PROVE  UNCHANGED <<status, stoppedBy, stopCall>>
  BY <1>1 DEF ChatStep, SendStart, RequestFails, ReceiveResponse, EndRead, CheckPausing,
              EndWaitForStop, ListForFinish, Return, CallerCancels, Register, penVars
<1>2. ASSUME NEW p \in Pauses, SendStop(p)
      PROVE  ppc[p] = "stop" /\ UNCHANGED <<status, stoppedBy>>
             /\ stopCall' = [stopCall EXCEPT ![p] = "sent"]
  BY <1>2 DEF SendStop
<1>3. ASSUME NEW p \in Pauses,
             \/ LookupRun(p) \/ EndRunWait(p) \/ MarkPausing(p) \/ EndStop(p) \/ CancelLocal(p)
             \/ ReturnPause(p) \/ \E k \in Slots : Arrive(p, k)
      PROVE  UNCHANGED <<status, stoppedBy, stopCall>>
  BY <1>3 DEF LookupRun, EndRunWait, MarkPausing, EndStop, CancelLocal, ReturnPause, Arrive, penVars
<1>4. ASSUME NEW s \in Streams, AdmitRun(s, TurnsOf(s))
      PROVE  /\ status[s] = "none" /\ UNCHANGED <<stoppedBy, stopCall>>
             /\ \A x \in Streams \ {s} : status'[x] = status[x]
                                         \/ (status[x] = "running" /\ status'[x] = "superseded")
  BY <1>4, <1>t DEF AdmitRun
<1>5. ASSUME NEW s \in Streams,
             RefuseRequest(s) \/ AnswerRequest(s) \/ CloseStream(s) \/ AdvanceRun(s)
      PROVE  /\ UNCHANGED <<stoppedBy, stopCall>>
             /\ \/ UNCHANGED status
                \/ /\ status[s] \in {"running", "completing"}
                   /\ \E x \in {"completing", "completed", "failed"} :
                        status' = [status EXCEPT ![s] = x]
  BY <1>5 DEF RefuseRequest, AnswerRequest, CloseStream, AdvanceRun
<1>6. ASSUME NEW p \in Pauses, AbortRun(p, runID[p])
      PROVE  UNCHANGED <<status, stoppedBy, stopCall>>
  BY <1>6 DEF AbortRun
<1>7. ASSUME NEW p \in Pauses, RecordStop(p, runID[p])
      PROVE  /\ stopCall[p] = "sent" /\ \E x : stopCall' = [stopCall EXCEPT ![p] = x]
             /\ \/ UNCHANGED <<status, stoppedBy>>
                \/ /\ status[runID[p]] = "running"
                   /\ status' = [status EXCEPT ![runID[p]] = "stopped"]
                   /\ stoppedBy' = [stoppedBy EXCEPT ![runID[p]] = p]
  BY <1>7 DEF RecordStop
<1>8. CASE UNCHANGED vars
  BY <1>8 DEF vars, penVars, EndsKept
<1> QED
  BY <1>t, <1>1, <1>2, <1>3, <1>4, <1>5, <1>6, <1>7, <1>8
     DEF Next, PauseStep, Finished, PenGptStep, EndsKept

\* A stop that was answered "ok" is recorded for the run it named.
LEMMA NextStops == IInv /\ [Next]_vars => Stops'
<1> SUFFICES ASSUME IInv, [Next]_vars
             PROVE  Stops'
  OBVIOUS
<1>t. /\ runID \in [Pauses -> Streams \cup {None}]
      /\ stoppedBy \in [Streams -> Pauses \cup {None}]
      /\ status \in [Streams -> RunStatus \cup {"none"}]
      /\ stopCall \in [Pauses -> {"none", "sent", "ok", "no"}]
      /\ ppc \in [Pauses -> PausePC]
      /\ \A p \in Pauses : stopCall[p] # "none" => runID[p] # None
      /\ \A p \in Pauses : runID[p] # None => status[runID[p]] # "none"
      /\ TypeOK'
  BY NextType DEF IInv, TypeOK, PenTypeOK, Bindings
<1>s. Stops
  BY DEF IInv
<1>f. BindingsKept /\ EndsKept
  BY BindingsAreKept, EndsAreKept
\* Only the recording of a stop gives an answer or marks a run as stopped.
<1>1. ASSUME NEW p \in Pauses, RecordStop(p, runID[p]), PenGptStep
      PROVE  Stops'
  <2>1. runID[p] \in Streams /\ status[runID[p]] # "none" /\ stopCall[p] = "sent"
    BY <1>1, <1>t DEF RecordStop
  <2>2. UNCHANGED <<runID, ppc>>
    BY <1>1 DEF PenGptStep, pauseVars
  <2>3. CASE status[runID[p]] = "running"
    BY <1>1, <1>t, <1>s, <1>f, <2>1, <2>2, <2>3, SMTT(30) DEF BindingsKept, EndsKept, RecordStop, Stops
  <2>4. CASE status[runID[p]] # "running"
    BY <1>1, <1>t, <1>s, <1>f, <2>1, <2>2, <2>4, SMTT(30) DEF BindingsKept, EndsKept, RecordStop, Stops
  <2> QED
    BY <2>3, <2>4
<1>2. ASSUME NEW p \in Pauses, EndStop(p)
      PROVE  Stops'
  <2>1. /\ UNCHANGED <<runID, stopCall, stoppedBy, status>>
        /\ \E answer \in Answers(p) : ppc' = [ppc EXCEPT ![p] = AfterStop(p, answer)]
    BY <1>2 DEF EndStop, penVars
  <2>2. PICK answer \in Answers(p) : ppc' = [ppc EXCEPT ![p] = AfterStop(p, answer)]
    BY <2>1
  <2>3. AfterStop(p, answer) = "cancel" => stopCall[p] = "ok"
    BY <2>2, <1>t DEF Answers, AfterStop
  <2> QED
    BY <2>1, <2>2, <2>3, <1>t, <1>s DEF Stops
<1>3. ASSUME NEW p \in Pauses, SendStop(p)
      PROVE  Stops'
  BY <1>3, <1>t, <1>s, <1>f DEF BindingsKept, EndsKept, SendStop, Stops
<1>4. ASSUME NEW p \in Pauses, MarkPausing(p)
      PROVE  Stops'
  BY <1>4, <1>t, <1>s DEF MarkPausing, Stops, penVars
<1>5. ASSUME NEW p \in Pauses, LookupRun(p) \/ EndRunWait(p) \/ CancelLocal(p) \/ ReturnPause(p)
      PROVE  /\ UNCHANGED <<stopCall, stoppedBy, status>>
             /\ \E x \in {"stop", "mark", "returning", "returned"} : ppc' = [ppc EXCEPT ![p] = x]
  BY <1>5 DEF LookupRun, EndRunWait, CancelLocal, ReturnPause, penVars
<1>6. ASSUME NEW p \in Pauses, NEW k \in Slots, Arrive(p, k)
      PROVE  /\ UNCHANGED <<stopCall, stoppedBy, status>>
             /\ \E x \in {"lookup", "waitrun"} : ppc' = [ppc EXCEPT ![p] = x]
  BY <1>6 DEF Arrive, penVars
<1>7. ASSUME NEW s \in Streams, ChatStep(s) \/ CallerCancels(s) \/ \E k \in Slots : Register(s, k)
      PROVE  UNCHANGED <<stopCall, stoppedBy, status, ppc>>
  BY <1>7 DEF ChatStep, SendStart, RequestFails, ReceiveResponse, EndRead, CheckPausing,
              EndWaitForStop, ListForFinish, Return, CallerCancels, Register, pauseVars, penVars
<1>8. ASSUME NEW s \in Streams,
             \/ AdmitRun(s, TurnsOf(s)) \/ RefuseRequest(s) \/ AnswerRequest(s)
             \/ CloseStream(s) \/ AdvanceRun(s),
             PenGptStep
      PROVE  UNCHANGED <<stopCall, stoppedBy, ppc>>
  BY <1>8 DEF AdmitRun, RefuseRequest, AnswerRequest, CloseStream, AdvanceRun, PenGptStep, pauseVars
<1>9. ASSUME NEW p \in Pauses, AbortRun(p, runID[p]), PenGptStep
      PROVE  UNCHANGED <<stopCall, stoppedBy, ppc>>
  BY <1>9 DEF AbortRun, PenGptStep, pauseVars
<1>10. CASE UNCHANGED vars
  BY <1>10, <1>s DEF vars, penVars, pauseVars, Stops
<1>11. ASSUME UNCHANGED <<stopCall, stoppedBy>>,
              \/ UNCHANGED ppc
              \/ \E p \in Pauses, x \in PausePC \ {"cancel"} : ppc' = [ppc EXCEPT ![p] = x]
       PROVE  Stops'
  BY <1>11, <1>t, <1>s, <1>f DEF BindingsKept, EndsKept, Stops
<1>12. \A x \in {"stop", "mark", "returning", "returned", "lookup", "waitrun"} :
         x \in PausePC \ {"cancel"}
  BY DEF PausePC
<1> QED
  <2>1. CASE \E p \in Pauses : \/ LookupRun(p) \/ EndRunWait(p) \/ CancelLocal(p) \/ ReturnPause(p)
                               \/ \E k \in Slots : Arrive(p, k)
    BY <2>1, <1>5, <1>6, <1>11, <1>12
  <2>2. CASE \E s \in Streams : ChatStep(s) \/ CallerCancels(s) \/ \E k \in Slots : Register(s, k)
    BY <2>2, <1>7, <1>11
  <2>3. CASE PenGptStep
    BY <2>3, <1>1, <1>8, <1>9, <1>11 DEF PenGptStep
  <2> QED
    BY <1>2, <1>3, <1>4, <1>10, <2>1, <2>2, <2>3 DEF Next, PauseStep, Finished

\* A stream's context never comes back to life, and a call never starts again.
CallsKept ==
  \A s \in Streams :
    pc[s] # "idle" => pc'[s] # "idle" /\ (ctx[s] # "live" => ctx'[s] # "live")

\* A StreamChat call does not begin twice, and a context never comes back.
LEMMA CallsAreKept == IInv /\ [Next]_vars => CallsKept
<1> SUFFICES ASSUME IInv, [Next]_vars
             PROVE  CallsKept
  OBVIOUS
<1>t. /\ pc \in [Streams -> StreamPC]
      /\ ctx \in [Streams -> {"live", "stopped", "paused"}]
  BY DEF IInv, TypeOK
<1>1. ASSUME NEW s \in Streams, NEW k \in Slots, Register(s, k)
      PROVE  pc' = [pc EXCEPT ![s] = "start"]
             /\ \A x \in Streams : ctx[x] # "live" => ctx'[x] # "live"
  BY <1>1, <1>t DEF Register, Cancelled
<1>2. ASSUME NEW s \in Streams, ChatStep(s)
      PROVE  /\ \E x \in StreamPC \ {"idle"} : pc' = [pc EXCEPT ![s] = x]
             /\ ctx' = ctx \/ ctx' = [ctx EXCEPT ![s] = Cancelled(s, "stopped")]
  BY <1>2 DEF ChatStep, SendStart, RequestFails, ReceiveResponse, EndRead, CheckPausing,
              EndWaitForStop, ListForFinish, Return, StreamPC
<1>3. ASSUME NEW s \in Streams, CallerCancels(s)
      PROVE  UNCHANGED pc /\ ctx' = [ctx EXCEPT ![s] = "stopped"]
  BY <1>3 DEF CallerCancels
<1>4. ASSUME NEW p \in Pauses, CancelLocal(p)
      PROVE  UNCHANGED pc /\ (ctx' = ctx \/ ctx' = [ctx EXCEPT ![target[p]] = Cancelled(target[p], "paused")])
  BY <1>4 DEF CancelLocal
<1>5. ASSUME NEW p \in Pauses,
             \/ LookupRun(p) \/ EndRunWait(p) \/ MarkPausing(p) \/ SendStop(p) \/ EndStop(p)
             \/ ReturnPause(p) \/ \E k \in Slots : Arrive(p, k)
      PROVE  UNCHANGED <<pc, ctx>>
  BY <1>5 DEF LookupRun, EndRunWait, MarkPausing, SendStop, EndStop, ReturnPause, Arrive, streamVars
<1>6. CASE PenGptStep \/ UNCHANGED vars
  BY <1>6 DEF PenGptStep, vars, streamVars, CallsKept
<1>7. CASE \E s \in Streams : ChatStep(s)
  BY <1>2, <1>7, <1>t DEF Cancelled, CallsKept
<1>8. CASE \E p \in Pauses : CancelLocal(p)
  BY <1>4, <1>8, <1>t DEF Cancelled, CallsKept
<1> QED
  BY <1>t, <1>1, <1>3, <1>5, <1>6, <1>7, <1>8 DEF Next, PauseStep, Finished, CallsKept

\* cancelLocalStream reaches the stream its pause is bound to and, when that
\* pause has a run id, only after the stop of the run.
LEMMA NextCancels == IInv /\ [Next]_vars => Cancels'
<1> SUFFICES ASSUME IInv, [Next]_vars
             PROVE  Cancels'
  OBVIOUS
<1>t. /\ active \in [Slots -> Streams \cup {None}]
      /\ ctx \in [Streams -> {"live", "stopped", "paused"}]
      /\ cancelledBy \in [Streams -> Pauses \cup {None}]
      /\ ppc \in [Pauses -> PausePC]
      /\ target \in [Pauses -> Streams \cup {None}]
      /\ pslot \in [Pauses -> Slots \cup {None}]
      /\ TypeOK'
  BY NextType DEF IInv, TypeOK, PenTypeOK
<1>s. Cancels
  BY DEF IInv
<1>f. BindingsKept /\ EndsKept /\ CallsKept
  BY BindingsAreKept, EndsAreKept, CallsAreKept
\* Cancels is kept by a step that cancels nothing, registers nothing old and
\* takes no pause back from its end.
<1>1. ASSUME UNCHANGED cancelledBy,
             \A k \in Slots, s \in Streams : active'[k] = s => active[k] = s \/ pc[s] = "idle",
             \A p \in Pauses : ppc[p] \in {"returning", "returned"} =>
                                 ppc'[p] \in {"returning", "returned"}
      PROVE  Cancels'
  BY <1>1, <1>t, <1>s, <1>f DEF BindingsKept, EndsKept, CallsKept, Cancels
<1>2. ASSUME NEW s \in Streams, ChatStep(s) \/ CallerCancels(s)
      PROVE  /\ UNCHANGED <<cancelledBy, ppc>>
             /\ active' = active \/ active' = [active EXCEPT ![slot[s]] = IF @ = s THEN None ELSE @]
  BY <1>2 DEF ChatStep, SendStart, RequestFails, ReceiveResponse, EndRead, CheckPausing,
              EndWaitForStop, ListForFinish, Return, Deregistered, CallerCancels, pauseVars
<1>3. ASSUME NEW s \in Streams, NEW k \in Slots, Register(s, k)
      PROVE  UNCHANGED <<cancelledBy, ppc>> /\ pc[s] = "idle" /\ active' = [active EXCEPT ![k] = s]
  BY <1>3 DEF Register, pauseVars
<1>4. ASSUME NEW p \in Pauses,
             \/ LookupRun(p) \/ EndRunWait(p) \/ MarkPausing(p) \/ SendStop(p) \/ EndStop(p)
             \/ ReturnPause(p) \/ \E k \in Slots : Arrive(p, k)
      PROVE  /\ UNCHANGED <<cancelledBy, active>>
             /\ ppc[p] # "returned"
             /\ \E x : ppc' = [ppc EXCEPT ![p] = x] /\ (ppc[p] = "returning" => x = "returned")
  BY <1>4 DEF LookupRun, EndRunWait, MarkPausing, SendStop, EndStop, ReturnPause, Arrive
<1>5. CASE PenGptStep \/ UNCHANGED vars
  BY <1>5, <1>1 DEF PenGptStep, vars, pauseVars
<1>6. ASSUME NEW p \in Pauses, CancelLocal(p), StillRegistered(pslot[p], target[p])
      PROVE  Cancels'
  <2>1. /\ target[p] \in Streams /\ pslot[p] \in Slots
        /\ slot[target[p]] = pslot[p]
        /\ active[pslot[p]] = target[p]
        /\ pc[target[p]] # "idle"
        /\ runID[p] # None => stopCall[p] = "ok"
    BY <1>6, <1>t DEF IInv, TypeOK, Bindings, Stops, CancelLocal, StillRegistered
  <2>2. \A k \in Slots : active[k] = target[p] => k = pslot[p]
    BY <2>1, <1>t DEF IInv, Registry, RegistryIsLive
  <2>3. /\ ppc[p] = "cancel" /\ ppc' = [ppc EXCEPT ![p] = "returning"]
        /\ cancelledBy' = [cancelledBy EXCEPT ![target[p]] = p]
        /\ active' = [active EXCEPT ![pslot[p]] = None]
        /\ ctx'[target[p]] # "live"
        /\ UNCHANGED <<target, runID, stopCall, pc>>
    BY <1>6, <1>t, <2>1 DEF CancelLocal, Cancelled, penVars
  <2> QED
    BY <2>1, <2>2, <2>3, <1>t, <1>s, <1>f, SMTT(30) DEF BindingsKept, EndsKept, CallsKept, Cancels
<1>7. ASSUME NEW p \in Pauses, CancelLocal(p), ~ StillRegistered(pslot[p], target[p])
      PROVE  Cancels'
  BY <1>7, <1>1, <1>t DEF CancelLocal
<1>8. CASE \E s \in Streams : ChatStep(s) \/ CallerCancels(s)
  BY <1>8, <1>1, <1>2, <1>t
<1>9. CASE \E s \in Streams : \E k \in Slots : Register(s, k)
  BY <1>9, <1>1, <1>3, <1>t
<1>10. CASE \E p \in Pauses :
              \/ LookupRun(p) \/ EndRunWait(p) \/ MarkPausing(p) \/ SendStop(p) \/ EndStop(p)
              \/ ReturnPause(p) \/ \E k \in Slots : Arrive(p, k)
  BY <1>10, <1>1, <1>4, <1>t
<1> QED
  BY <1>5, <1>6, <1>7, <1>8, <1>9, <1>10 DEF Next, PauseStep, Finished

\* What a pause has decided to return stays true until it returns.
LEMMA NextOutcomes == IInv /\ [Next]_vars => Outcomes'
<1> SUFFICES ASSUME IInv, [Next]_vars
             PROVE  Outcomes'
  OBVIOUS
<1>t. /\ ppc \in [Pauses -> PausePC]
      /\ target \in [Pauses -> Streams \cup {None}]
      /\ outcome \in [Pauses -> {"none", "ok", "notfound", "error"}]
      /\ cancelledBy \in [Streams -> Pauses \cup {None}]
      /\ TypeOK'
  BY NextType DEF IInv, TypeOK
<1>s. Outcomes
  BY DEF IInv
<1>b. \A p \in Pauses : target[p] # None => target[p] \in Streams /\ pc[target[p]] # "idle"
  BY <1>t DEF IInv, TypeOK, Bindings
<1>f. BindingsKept /\ EndsKept /\ CallsKept
  BY BindingsAreKept, EndsAreKept, CallsAreKept
\* The pauses that bind, look up or wait have no outcome yet.
<1>n. \A p \in Pauses : ppc[p] \notin {"returning", "returned"} => outcome[p] = "none"
  BY <1>s, <1>t DEF Outcomes
<1>c. ASSUME NEW p \in Pauses, CancelLocal(p)
      PROVE  \A q \in Pauses \ {p} :
               outcome[q] = "ok" /\ runID[q] = None => cancelledBy'[target[q]] = q
  <2>1. ASSUME NEW q \in Pauses \ {p}, outcome[q] = "ok", runID[q] = None
        PROVE  cancelledBy'[target[q]] = q
    <3>1. target[q] \in Streams /\ cancelledBy[target[q]] = q
      BY <2>1, <1>s, <1>t DEF Outcomes
    <3>2. \A k \in Slots : active[k] # target[q]
      BY <3>1, <2>1, <1>t, NoneAssumption DEF IInv, Cancels
    <3>3. target[q] = target[p] => ~ StillRegistered(pslot[p], target[p])
      BY <3>2, <1>c DEF StillRegistered, CancelLocal, IInv, TypeOK
    <3>4. \/ UNCHANGED cancelledBy
          \/ cancelledBy' = [cancelledBy EXCEPT ![target[p]] = p] /\ target[q] # target[p]
      BY <1>c, <3>3 DEF CancelLocal
    <3> QED
      BY <3>1, <3>4, <1>t
  <2> QED
    BY <2>1
<1>1. ASSUME NEW p \in Pauses, CancelLocal(p)
      PROVE  Outcomes'
  <2>1. /\ ppc[p] = "cancel" /\ ppc' = [ppc EXCEPT ![p] = "returning"]
        /\ UNCHANGED <<runID, target, stopCall, pc>>
        /\ outcome' = [outcome EXCEPT ![p] =
             IF StillRegistered(pslot[p], target[p]) \/ runID[p] # None THEN "ok" ELSE "notfound"]
        /\ StillRegistered(pslot[p], target[p]) => cancelledBy' = [cancelledBy EXCEPT ![target[p]] = p]
    BY <1>1 DEF CancelLocal, penVars
  <2>2. target[p] \in Streams /\ pslot[p] \in Slots /\ slot[target[p]] = pslot[p]
    BY <2>1, <1>t DEF IInv, TypeOK, Bindings
  <2>3. runID[p] # None => stopCall[p] = "ok"
    BY <2>1 DEF IInv, Stops
  <2>4. ~ StillRegistered(pslot[p], target[p]) => ctx[target[p]] # "live"
    BY <2>2, <1>b DEF StillRegistered, IInv, TypeOK, Registry, NoLostHandle, Running
  <2> QED
    BY <2>1, <2>2, <2>3, <2>4, <1>c, <1>1, <1>t, <1>s, <1>f, <1>b, SMTT(30) DEF BindingsKept, EndsKept, CallsKept, Outcomes
<1>2. ASSUME NEW p \in Pauses, LookupRun(p)
      PROVE  Outcomes'
  <2>1. /\ ppc[p] = "lookup" /\ UNCHANGED <<cancelledBy, ctx, stopCall, target>>
        /\ \E x, o : /\ ppc' = [ppc EXCEPT ![p] = x] /\ outcome' = [outcome EXCEPT ![p] = o]
                     /\ o # outcome[p] => x = "returning" /\ o # "ok"
    BY <1>2 DEF LookupRun, streamVars, penVars
  <2>2. target[p] = None
    BY <2>1 DEF IInv, Bindings
  <2> QED
    BY <2>1, <2>2, <1>t, <1>s, <1>f, <1>b, <1>n, SMTT(30) DEF BindingsKept, EndsKept, CallsKept, Outcomes
<1>3. ASSUME NEW p \in Pauses, EndStop(p)
      PROVE  Outcomes'
  <2>1. /\ ppc[p] = "stopping"
        /\ UNCHANGED <<cancelledBy, ctx, stopCall, target, runID>>
    BY <1>3 DEF EndStop, streamVars, penVars
  <2>2. PICK answer \in Answers(p) :
               /\ ppc' = [ppc EXCEPT ![p] = AfterStop(p, answer)]
               /\ outcome' = [outcome EXCEPT ![p] =
                    IF AfterStop(p, answer) = "returning" THEN answer ELSE @]
    BY <1>3 DEF EndStop
  <2>3. /\ answer = "ok" => stopCall[p] = "ok"
        /\ answer = "notfound" => stopCall[p] = "no"
        /\ AfterStop(p, answer) \in {"cancel", "returning"}
    BY <2>2, <1>t DEF Answers, AfterStop
  <2>4. runID[p] # None
    BY <2>1 DEF IInv, TypeOK
  <2> QED
    BY <2>1, <2>2, <2>3, <2>4, <1>t, <1>s, <1>n, SMTT(30) DEF Outcomes
\* The steps that give no pause an outcome.
<1>4. ASSUME UNCHANGED <<outcome, cancelledBy>>,
             \A p \in Pauses : ppc[p] \in {"returning", "returned"} =>
                                 ppc'[p] \in {"returning", "returned"}
      PROVE  Outcomes'
  BY <1>4, <1>t, <1>s, <1>f, <1>b DEF Outcomes, BindingsKept, EndsKept, CallsKept
<1>5. ASSUME NEW p \in Pauses,
             \/ EndRunWait(p) \/ MarkPausing(p) \/ SendStop(p) \/ ReturnPause(p)
             \/ \E k \in Slots : Arrive(p, k)
      PROVE  /\ UNCHANGED <<outcome, cancelledBy>>
             /\ ppc[p] # "returned"
             /\ \E x : ppc' = [ppc EXCEPT ![p] = x] /\ (ppc[p] = "returning" => x = "returned")
  BY <1>5 DEF EndRunWait, MarkPausing, SendStop, ReturnPause, Arrive
<1>6. CASE \E p \in Pauses :
             \/ EndRunWait(p) \/ MarkPausing(p) \/ SendStop(p) \/ ReturnPause(p)
             \/ \E k \in Slots : Arrive(p, k)
  BY <1>6, <1>4, <1>5, <1>t
<1>7. ASSUME NEW s \in Streams, ChatStep(s) \/ CallerCancels(s) \/ \E k \in Slots : Register(s, k)
      PROVE  UNCHANGED <<outcome, cancelledBy, ppc>>
  BY <1>7 DEF ChatStep, SendStart, RequestFails, ReceiveResponse, EndRead, CheckPausing,
              EndWaitForStop, ListForFinish, Return, CallerCancels, Register, pauseVars
<1>8. CASE PenGptStep \/ UNCHANGED vars
  BY <1>8, <1>4 DEF PenGptStep, vars, pauseVars
<1> QED
  BY <1>1, <1>2, <1>3, <1>4, <1>6, <1>7, <1>8 DEF Next, PauseStep, Finished

-----------------------------------------------------------------------------
(***************************************************************************)
(* The theorems.                                                           *)
(***************************************************************************)

\* The inductive invariant holds before the first call.
LEMMA InitIInv == Init => IInv
  BY InitType
     DEF Init, PenInit, IInv, Registry, NoLostHandle, RegistryIsLive, Running, Requests,
         Bindings, Stops, Cancels, Outcomes

\* The inductive invariant is preserved by every step.
LEMMA NextIInv == IInv /\ [Next]_vars => IInv'
  BY NextType, NextRegistry, NextRequests, NextBindings, NextStops, NextCancels, NextOutcomes
     DEF IInv

\* The inductive invariant of the registry, the handles and the pauses holds in
\* every state that StreamChat, PauseStream and pen-gpt reach together.
THEOREM Invariant == Spec => []IInv
  BY InitIInv, NextIInv, PTL DEF Spec

\* Every variable keeps its type, and a call's place tells which are set.
THEOREM TypeCorrect == Spec => []TypeOK
  BY Invariant, PTL DEF IInv

\* No stream on any thread or instance is ever out of reach of a pause while
\* it still streams (src/service/agent_stream.go:74-93).
THEOREM RegistryCorrect == Spec => []NoLostHandle
<1>1. IInv => NoLostHandle
  BY DEF IInv, Registry
<1> QED
  BY Invariant, <1>1, PTL

\* No entry outlives its stream, whatever order registrations, supersessions
\* and deferred deregistrations come in (src/service/agent_stream.go:87-93).
THEOREM EntriesLive == Spec => []RegistryIsLive
<1>1. IInv => RegistryIsLive
  BY DEF IInv, Registry
<1> QED
  BY Invariant, <1>1, PTL

\* However many streams and pauses race, a pause reaches no turn begun after it
\* fixed its run (src/service/agent.go:782-786).
THEOREM NewerTurnsSpared == Spec => []PauseSparesNewerTurns
<1>1. IInv => PauseSparesNewerTurns
  BY DEF IInv, TypeOK, PenTypeOK, Bindings, Stops, Cancels, PauseSparesNewerTurns
<1> QED
  BY Invariant, <1>1, PTL

\* A pause stays on its thread, also when it goes through stream_runs.
THEOREM PausesKeepToTheirThreads == Spec => []PauseKeepsToItsThread
<1>1. IInv => PauseKeepsToItsThread
  BY DEF IInv, TypeOK, PenTypeOK, Bindings, Stops, Cancels, PauseKeepsToItsThread
<1> QED
  BY Invariant, <1>1, PTL

\* The local cancel comes after the recorded stop, and never instead of it
\* (src/service/agent.go:769-780).
THEOREM StopsPrecedeCancels == Spec => []StopPrecedesCancel
<1>1. IInv => StopPrecedesCancel
  BY DEF IInv, TypeOK, PenTypeOK, Bindings, Stops, Cancels, StopPrecedesCancel
<1> QED
  BY Invariant, <1>1, PTL

\* PauseStream returns nil only after a recorded stop, or a local cancel of a
\* turn without a run (src/service/agent.go:806-836).
THEOREM OutcomesAreTrue == Spec => []PauseOkHasActed
<1>1. IInv => PauseOkHasActed
  BY DEF IInv, Stops, Outcomes, PauseOkHasActed
<1> QED
  BY Invariant, <1>1, PTL

\* A turn of which a pause says "not found" is over, however late a stop's
\* answer is (src/service/agent.go:826-831).
THEOREM NotFoundIsTrue == Spec => []NotFoundMeansOver
<1>1. IInv => NotFoundMeansOver
  BY DEF IInv, TypeOK, PenTypeOK, Bindings, Stops, Outcomes, NotFoundMeansOver
<1> QED
  BY Invariant, <1>1, PTL

-----------------------------------------------------------------------------
(***************************************************************************)
(* The registry implements Turns.                                          *)
(***************************************************************************)

\* Every step is a step of Turns or leaves its turns alone.
LEMMA TurnsStep == IInv /\ [Next]_vars => [TurnSlots!TurnsNext]_TurnSlots!turnVars
<1> SUFFICES ASSUME IInv, [Next]_vars
             PROVE  [TurnSlots!TurnsNext]_TurnSlots!turnVars
  OBVIOUS
<1> DEFINE ph == [s \in Streams |-> Turn(s)]
           hm == [k \in Slots |-> TurnsBegunIn(k)]
<1> USE DEF Turn, TurnsBegunIn
<1>t. /\ pc \in [Streams -> StreamPC]
      /\ slot \in [Streams -> Slots \cup {None}]
      /\ ctx \in [Streams -> {"live", "stopped", "paused"}]
      /\ \A s \in Streams : pc[s] = "idle" <=> slot[s] = None
      /\ \A s \in Streams : pc[s] = "idle" => ctx[s] = "live"
      /\ \A s \in Streams : pc[s] \notin {"idle", "returned"} /\ ctx[s] = "live" =>
           active[slot[s]] = s
      /\ \A s \in Streams : pc[s] = "returned" => ctx[s] # "live"
      /\ \A k \in Slots : active[k] # None => pc[active[k]] \notin {"idle", "returned"}
                                              /\ slot[active[k]] = k
  BY DEF IInv, TypeOK, Registry, NoLostHandle, RegistryIsLive, Running
<1>1. ASSUME NEW s \in Streams, NEW k \in Slots, Register(s, k)
      PROVE  TurnSlots!Begin(s, k)
  <2>1. ph[s] = "new"
    BY <1>1 DEF Register
  <2>2. hm' = [hm EXCEPT ![k] = @ \cup {s}]
    <3>1. slot[s] = None /\ slot' = [slot EXCEPT ![s] = k]
      BY <1>1, <1>t DEF Register
    <3>2. ASSUME NEW l \in Slots
          PROVE  TurnsBegunIn(l)' = IF l = k THEN TurnsBegunIn(l) \cup {s} ELSE TurnsBegunIn(l)
      BY <3>1, <1>t
    <3> HIDE DEF TurnsBegunIn
    <3> QED
      BY <3>2
  <2>3. ASSUME NEW y \in Streams
        PROVE  ph'[y] = IF y = s THEN "live"
                        ELSE IF y \in TurnSlots!LiveIn(k) THEN "cancelled" ELSE ph[y]
    <3>1. y \in TurnSlots!LiveIn(k) <=> slot[y] = k /\ Turn(y) = "live"
      BY DEF TurnSlots!LiveIn
    <3>2. slot[y] = k /\ Turn(y) = "live" <=> y = active[k] /\ ctx[y] = "live"
      BY <1>t
    <3>3. /\ pc[s] = "idle" /\ pc' = [pc EXCEPT ![s] = "start"]
          /\ ctx' = [x \in Streams |-> IF x = active[k] THEN Cancelled(x, "stopped") ELSE ctx[x]]
      BY <1>1 DEF Register
    <3>4. ctx[s] = "live"
      BY <3>3, <1>t
    <3> QED
      BY <3>1, <3>2, <3>3, <3>4, <1>t DEF Cancelled
  <2> QED
    BY <2>1, <2>2, <2>3 DEF TurnSlots!Begin
<1>2. ASSUME NEW s \in Streams, Return(s)
      PROVE  TurnSlots!End(s)
  <2>1. ph[s] \in {"live", "cancelled"} /\ UNCHANGED hm
    BY <1>2, <1>t DEF Return
  <2>2. ASSUME NEW y \in Streams
        PROVE  ph'[y] = IF y = s THEN "done" ELSE ph[y]
    BY <1>2, <1>t DEF Return
  <2> QED
    BY <2>1, <2>2 DEF TurnSlots!End
\* A context that ends while its call goes on cancels the turn.
<1>3. ASSUME NEW s \in Streams, pc[s] \notin {"idle", "returned"}, UNCHANGED <<pc, slot>>,
             NEW why \in {"stopped", "paused"},
             ctx' = [ctx EXCEPT ![s] = Cancelled(s, why)]
      PROVE  TurnSlots!Cancel(s) \/ UNCHANGED <<ph, hm>>
  <2>1. UNCHANGED hm
    BY <1>3
  <2>2. CASE ctx[s] = "live"
    <3>1. ASSUME NEW y \in Streams
          PROVE  ph'[y] = IF y = s THEN "cancelled" ELSE ph[y]
      BY <1>3, <1>t, <2>2 DEF Cancelled
    <3> QED
      BY <2>1, <2>2, <3>1, <1>3 DEF TurnSlots!Cancel
  <2>3. CASE ctx[s] # "live"
    <3>1. UNCHANGED ctx
      BY <1>3, <1>t, <2>3 DEF Cancelled
    <3> QED
      BY <2>1, <3>1, <1>3
  <2> QED
    BY <2>2, <2>3
<1>4. ASSUME NEW s \in Streams, CallerCancels(s)
      PROVE  TurnSlots!Cancel(s) \/ UNCHANGED <<ph, hm>>
  BY <1>3, <1>4 DEF CallerCancels, Cancelled
<1>5. ASSUME NEW p \in Pauses, CancelLocal(p)
      PROVE  (\E h \in Streams : TurnSlots!Cancel(h)) \/ UNCHANGED <<ph, hm>>
  <2>1. CASE StillRegistered(pslot[p], target[p])
    <3>1. PICK h \in Streams : h = target[p] /\ pc[h] \notin {"idle", "returned"}
      BY <1>5, <2>1, <1>t DEF CancelLocal, StillRegistered, IInv, TypeOK
    <3>2. UNCHANGED <<pc, slot>> /\ ctx' = [ctx EXCEPT ![h] = Cancelled(h, "paused")]
      BY <1>5, <2>1, <3>1 DEF CancelLocal
    <3> QED
      BY <3>1, <3>2, <1>3
  <2>2. CASE ~ StillRegistered(pslot[p], target[p])
    BY <1>5, <2>2 DEF CancelLocal
  <2> QED
    BY <2>1, <2>2
\* The other steps move a call from one running state to another, or no call.
<1>6. ASSUME UNCHANGED <<slot, ctx>>,
             \/ UNCHANGED pc
             \/ \E s \in Streams, x \in StreamPC \ {"idle", "returned"} :
                  pc[s] \notin {"idle", "returned"} /\ pc' = [pc EXCEPT ![s] = x]
      PROVE  UNCHANGED <<ph, hm>>
  BY <1>6, <1>t
<1>7. ASSUME NEW s \in Streams,
             \/ SendStart(s) \/ RequestFails(s) \/ ReceiveResponse(s) \/ EndRead(s)
             \/ CheckPausing(s) \/ EndWaitForStop(s) \/ ListForFinish(s)
      PROVE  /\ UNCHANGED <<slot, ctx>>
             /\ \E x \in StreamPC \ {"idle", "returned"} :
                  pc[s] \notin {"idle", "returned"} /\ pc' = [pc EXCEPT ![s] = x]
  BY <1>7 DEF SendStart, RequestFails, ReceiveResponse, EndRead, CheckPausing, EndWaitForStop,
              ListForFinish, StreamPC
<1>8. ASSUME NEW p \in Pauses,
             \/ LookupRun(p) \/ EndRunWait(p) \/ MarkPausing(p) \/ SendStop(p) \/ EndStop(p)
             \/ ReturnPause(p) \/ \E k \in Slots : Arrive(p, k)
      PROVE  UNCHANGED <<slot, ctx, pc>>
  BY <1>8 DEF LookupRun, EndRunWait, MarkPausing, SendStop, EndStop, ReturnPause, Arrive, streamVars
<1>9. CASE PenGptStep \/ UNCHANGED vars
  <2>1. UNCHANGED <<slot, ctx, pc>>
    BY <1>9 DEF PenGptStep, vars, streamVars
  <2> QED
    BY <2>1, <1>6 DEF TurnSlots!turnVars
<1>10. UNCHANGED <<ph, hm>> => UNCHANGED TurnSlots!turnVars
  BY DEF TurnSlots!turnVars
<1> HIDE DEF ph, hm
<1>11. CASE \E s \in Streams : \/ SendStart(s) \/ RequestFails(s) \/ ReceiveResponse(s) \/ EndRead(s)
                               \/ CheckPausing(s) \/ EndWaitForStop(s) \/ ListForFinish(s)
  BY <1>6, <1>7, <1>10, <1>11
<1>12. CASE \E p \in Pauses :
              \/ LookupRun(p) \/ EndRunWait(p) \/ MarkPausing(p) \/ SendStop(p) \/ EndStop(p)
              \/ ReturnPause(p) \/ \E k \in Slots : Arrive(p, k)
  BY <1>6, <1>8, <1>10, <1>12
<1>13. CASE \E s \in Streams : CallerCancels(s)
  BY <1>4, <1>10, <1>13 DEF TurnSlots!TurnsNext
<1>14. CASE \E p \in Pauses : CancelLocal(p)
  BY <1>5, <1>10, <1>14 DEF TurnSlots!TurnsNext
<1>15. CASE \E s \in Streams : Return(s) \/ \E k \in Slots : Register(s, k)
  BY <1>1, <1>2, <1>15 DEF TurnSlots!TurnsNext
<1> QED
  BY <1>9, <1>11, <1>12, <1>13, <1>14, <1>15 DEF Next, ChatStep, PauseStep, Finished

\* Whatever the interleaving, the turns of a thread on an instance succeed one
\* another: the registry implements the registry-free specification.
THEOREM TurnsImplemented == Spec => ImplementsTurns
<1>1. Init => TurnSlots!TurnsInit
  BY DEF Init, TurnSlots!TurnsInit, Turn, TurnsBegunIn
<1> QED
  BY <1>1, Invariant, TurnsStep, PTL DEF Spec, ImplementsTurns, TurnSlots!TurnsSpec

-----------------------------------------------------------------------------
(***************************************************************************)
(* The finish event of a stream with a single pause.                       *)
(***************************************************************************)

\* Where the exchange with pen-gpt is while a stream waits or reads; a body that
\* closes under a running run was broken off by a stop of that run.
Connections ==
  \A s \in Streams :
    /\ pc[s] = "await" => conn[s] \notin {"none", "orphaned"}
    /\ pc[s] = "reading" => conn[s] \in {"open", "closed"}
    /\ conn[s] = "refused" => status[s] # "running"
    /\ pc[s] \in {"await", "reading"} /\ conn[s] = "closed" =>
         status[s] # "running" \/ s \in aborted
    /\ s \in aborted =>
         /\ status[s] # "none"
         /\ status[s] # "running" \/ \E p \in Pauses : runID[p] = s /\ stopCall[p] # "none"

\* What a stream's handle says of the pauses bound to it: a pause marks it
\* before its stop, and answers once it has returned.
Handles ==
  /\ \A s \in Streams :
       /\ ctx[s] = "paused" => cancelledBy[s] # None
       /\ stopAnswered[s] => \E p \in Pauses : target[p] = s /\ ppc[p] = "returned"
       /\ s \in timely => pc[s] \notin {"idle", "start", "await", "reading"}
       /\ view[s] # "none" => pc[s] \in {"returning", "returned"}
  /\ \A p \in Pauses :
       target[p] # None /\ ppc[p] \in {"stop", "stopping", "cancel", "returning", "returned"} =>
         pausing[target[p]]

\* The run of s has ended, or will never begin.
RunOver(s) == status[s] # "running" /\ conn[s] \notin {"none", "requested", "orphaned"}

StopsOwn(p, s) == target[p] = s /\ runID[p] = s

\* Something else than the stop of a single pause bound to s may have ended it.
NotLone(s) ==
  \/ \E p, q \in Pauses : p # q /\ Names(p, s) /\ Names(q, s)
  \/ \E p \in Pauses : runID[p] = s /\ target[p] # s
  \/ \E p \in Pauses : runID[p] = None /\ cancelledBy[s] = p

\* The stop of a pause broke the body off, and the finish waits for the pause.
BrokenOff(s) ==
  \E p \in Pauses :
    /\ StopsOwn(p, s) /\ stopCall[p] # "none"
    /\ pc[s] \in {"ended", "waiting"} \/ ppc[p] = "returned"

\* The pause of s has returned, and not with nil.
Denied(s) == \E p \in Pauses : StopsOwn(p, s) /\ ppc[p] = "returned" /\ outcome[p] # "ok"

FinishOf(s) ==
  s \in timely =>
    /\ RunOver(s) \/ BrokenOff(s) \/ NotLone(s)
    /\ view[s] # "none" =>
         view[s] = "stopped" \/ (RunOver(s) /\ status[s] # "stopped") \/ Denied(s) \/ NotLone(s)

FinishInv == Connections /\ Handles /\ \A s \in Streams : FinishOf(s)

\* A stream's connection is kept by pen-gpt and by the stream's own call.
LEMMA NextConnections == IInv /\ Connections /\ [Next]_vars => Connections'
<1> SUFFICES ASSUME IInv, Connections, [Next]_vars
             PROVE  Connections'
  OBVIOUS
<1>t. /\ pc \in [Streams -> StreamPC]
      /\ conn \in [Streams -> ConnState]
      /\ status \in [Streams -> RunStatus \cup {"none"}]
      /\ stopCall \in [Pauses -> {"none", "sent", "ok", "no"}]
      /\ runID \in [Pauses -> Streams \cup {None}]
      /\ aborted \in SUBSET Streams
      /\ \A p \in Pauses : stopCall[p] # "none" => runID[p] # None
  BY DEF IInv, TypeOK, PenTypeOK
<1>r. Requests /\ BindingsKept
  BY BindingsAreKept DEF IInv
<1>1. ASSUME NEW s \in Streams, NEW k \in Slots, Register(s, k)
      PROVE  Connections'
  BY <1>1, <1>t DEF Register, penVars, pauseVars, Connections
<1>2. ASSUME NEW s \in Streams, SendStart(s)
      PROVE  Connections'
  BY <1>2, <1>t DEF SendStart, pauseVars, Connections
<1>3. ASSUME NEW s \in Streams, RequestFails(s) \/ ReceiveResponse(s) \/ EndRead(s)
      PROVE  Connections'
  BY <1>3, <1>t, SMTT(30) DEF RequestFails, ReceiveResponse, EndRead, Abandoned, pauseVars, Connections, ConnState
<1>4. ASSUME NEW s \in Streams,
             CheckPausing(s) \/ EndWaitForStop(s) \/ ListForFinish(s) \/ Return(s) \/ CallerCancels(s)
      PROVE  Connections'
  BY <1>4, <1>t DEF CheckPausing, EndWaitForStop, ListForFinish, Return, CallerCancels, penVars, pauseVars, Connections
<1>5. ASSUME NEW p \in Pauses, PauseStep(p) \/ \E k \in Slots : Arrive(p, k)
      PROVE  Connections'
  <2>1. UNCHANGED <<pc, conn, status, aborted>>
    BY <1>5 DEF PauseStep, LookupRun, EndRunWait, MarkPausing, SendStop, EndStop, CancelLocal,
                ReturnPause, Arrive, streamVars, penVars
  <2>2. \A q \in Pauses : stopCall[q] # "none" => stopCall'[q] # "none"
    BY <1>5, <1>t DEF PauseStep, LookupRun, EndRunWait, MarkPausing, SendStop, EndStop, CancelLocal,
                ReturnPause, Arrive, penVars
  <2>3. \A q \in Pauses : runID[q] # None => runID'[q] = runID[q]
    BY <1>r DEF BindingsKept
  <2> QED
    BY <2>1, <2>2, <2>3, <1>t, NoneAssumption DEF Connections
<1>6. ASSUME NEW s \in Streams, AdmitRun(s, TurnsOf(s)), PenGptStep
      PROVE  Connections'
  BY <1>6, <1>t, <1>r, SMTT(30) DEF AdmitRun, PenGptStep, streamVars, pauseVars, Connections, ConnState, Requests
<1>7. ASSUME NEW s \in Streams,
             RefuseRequest(s) \/ AnswerRequest(s) \/ CloseStream(s) \/ AdvanceRun(s), PenGptStep
      PROVE  Connections'
  BY <1>7, <1>t, <1>r, SMTT(30)
     DEF RefuseRequest, AnswerRequest, CloseStream, AdvanceRun, PenGptStep, streamVars, pauseVars,
         Connections, ConnState, Requests
<1>8. ASSUME NEW p \in Pauses, AbortRun(p, runID[p]) \/ RecordStop(p, runID[p]), PenGptStep
      PROVE  Connections'
  BY <1>8, <1>t, SMTT(30) DEF AbortRun, RecordStop, PenGptStep, streamVars, pauseVars, Connections
<1>9. CASE UNCHANGED vars
  BY <1>9, <1>t DEF vars, penVars, streamVars, pauseVars, Connections
<1> QED
  BY <1>1, <1>2, <1>3, <1>4, <1>5, <1>6, <1>7, <1>8, <1>9 DEF Next, ChatStep, PenGptStep, Finished

\* A stream is cancelled by one pause only.
LEMMA CancelledOnce ==
  ASSUME IInv, [Next]_vars, NEW s \in Streams, cancelledBy[s] # None
  PROVE  cancelledBy'[s] = cancelledBy[s]
<1>1. ASSUME NEW p \in Pauses, CancelLocal(p), StillRegistered(pslot[p], target[p])
      PROVE  cancelledBy'[s] = cancelledBy[s]
  <2>1. \A k \in Slots : active[k] # s
    BY DEF IInv, Cancels
  <2>2. target[p] # s
    BY <1>1, <2>1 DEF StillRegistered, CancelLocal, IInv, TypeOK
  <2> QED
    BY <1>1, <2>2 DEF CancelLocal, IInv, TypeOK
<1>2. CASE UNCHANGED cancelledBy
  BY <1>2
<1> QED
  BY <1>1, <1>2 DEF Next, ChatStep, SendStart, RequestFails, ReceiveResponse, EndRead, CheckPausing,
     EndWaitForStop, ListForFinish, Return, CallerCancels, Register, PauseStep, LookupRun, EndRunWait,
     MarkPausing, SendStop, EndStop, CancelLocal, ReturnPause, Arrive, PenGptStep, Finished, vars

\* A pause that has returned is over.
LEMMA ReturnedForGood ==
  ASSUME IInv, [Next]_vars, NEW p \in Pauses, ppc[p] = "returned"
  PROVE  ppc'[p] = "returned" /\ outcome'[p] = outcome[p]
<1>t. ppc \in [Pauses -> PausePC] /\ outcome \in [Pauses -> {"none", "ok", "notfound", "error"}]
  BY DEF IInv, TypeOK
<1>1. ASSUME NEW q \in Pauses, PauseStep(q) \/ \E k \in Slots : Arrive(q, k)
      PROVE  /\ q # p
             /\ \E x : ppc' = [ppc EXCEPT ![q] = x]
             /\ UNCHANGED outcome \/ \E o : outcome' = [outcome EXCEPT ![q] = o]
  BY <1>1 DEF PauseStep, LookupRun, EndRunWait, MarkPausing, SendStop, EndStop, CancelLocal,
              ReturnPause, Arrive
<1>2. CASE UNCHANGED <<ppc, outcome>>
  BY <1>2
<1> QED
  BY <1>t, <1>1, <1>2
     DEF Next, ChatStep, SendStart, RequestFails, ReceiveResponse, EndRead, CheckPausing,
         EndWaitForStop, ListForFinish, Return, CallerCancels, Register, PenGptStep, Finished, vars, pauseVars

\* A handle is written by the stream's own call and by the pauses bound to it.
LEMMA NextHandles == IInv /\ Handles /\ [Next]_vars => Handles'
<1> SUFFICES ASSUME IInv, Handles, [Next]_vars
             PROVE  Handles'
  OBVIOUS
<1>t. /\ pc \in [Streams -> StreamPC]
      /\ ctx \in [Streams -> {"live", "stopped", "paused"}]
      /\ pausing \in [Streams -> BOOLEAN]
      /\ stopAnswered \in [Streams -> BOOLEAN]
      /\ view \in [Streams -> {"none", "stopped", "other"}]
      /\ timely \in SUBSET Streams
      /\ cancelledBy \in [Streams -> Pauses \cup {None}]
      /\ ppc \in [Pauses -> PausePC]
      /\ target \in [Pauses -> Streams \cup {None}]
      /\ \A p \in Pauses : ppc[p] \in {"waitrun", "mark", "cancel"} => target[p] # None
      /\ \A p \in Pauses : ppc[p] \in {"idle", "lookup"} => target[p] = None
  BY DEF IInv, TypeOK, Bindings
<1>1. ASSUME NEW s \in Streams, NEW k \in Slots, Register(s, k)
      PROVE  Handles'
  BY <1>1, <1>t DEF Register, Cancelled, pauseVars, Handles
<1>2. ASSUME NEW s \in Streams, SendStart(s) \/ CallerCancels(s)
      PROVE  Handles'
  BY <1>2, <1>t DEF SendStart, CallerCancels, pauseVars, Handles
<1>3. ASSUME NEW s \in Streams, RequestFails(s) \/ ReceiveResponse(s) \/ EndRead(s)
      PROVE  Handles'
  BY <1>3, <1>t DEF RequestFails, ReceiveResponse, EndRead, Failed, pauseVars, Handles
<1>4. ASSUME NEW s \in Streams, CheckPausing(s) \/ EndWaitForStop(s) \/ ListForFinish(s)
      PROVE  Handles'
  BY <1>4, <1>t DEF CheckPausing, EndWaitForStop, ListForFinish, pauseVars, Handles
<1>5. ASSUME NEW s \in Streams, Return(s)
      PROVE  Handles'
  BY <1>5, <1>t DEF Return, Cancelled, pauseVars, Handles
<1>6. ASSUME NEW p \in Pauses, NEW k \in Slots, Arrive(p, k)
      PROVE  Handles'
  BY <1>6, <1>t DEF Arrive, streamVars, Handles
<1>7. ASSUME NEW p \in Pauses, LookupRun(p) \/ EndRunWait(p) \/ SendStop(p) \/ EndStop(p)
      PROVE  Handles'
  <2>1. /\ UNCHANGED <<streamVars, pausing, stopAnswered, cancelledBy, target>>
        /\ ppc[p] # "returned"
        /\ \E x : /\ ppc' = [ppc EXCEPT ![p] = x]
                  /\ x \in {"stop", "stopping", "cancel", "returning", "returned"} =>
                       ppc[p] \in {"lookup", "stop", "stopping"}
    BY <1>7 DEF LookupRun, EndRunWait, SendStop, EndStop
  <2> QED
    BY <2>1, <1>t DEF streamVars, Handles
<1>8. ASSUME NEW p \in Pauses, MarkPausing(p)
      PROVE  Handles'
  BY <1>8, <1>t DEF MarkPausing, streamVars, Handles
<1>9. ASSUME NEW p \in Pauses, CancelLocal(p)
      PROVE  Handles'
  <2>1. target[p] \in Streams /\ ppc[p] = "cancel" /\ pslot[p] \in Slots
    BY <1>9, <1>t DEF CancelLocal, IInv, TypeOK
  <2>2. CASE StillRegistered(pslot[p], target[p])
    <3>1. /\ ctx' = [ctx EXCEPT ![target[p]] = Cancelled(target[p], "paused")]
          /\ cancelledBy' = [cancelledBy EXCEPT ![target[p]] = p]
          /\ ppc' = [ppc EXCEPT ![p] = "returning"]
          /\ UNCHANGED <<pc, timely, view, pausing, stopAnswered, target>>
      BY <1>9, <2>2 DEF CancelLocal
    <3> QED
      BY <2>1, <3>1, <1>t, NoneAssumption DEF Handles, Cancelled
  <2>3. CASE ~ StillRegistered(pslot[p], target[p])
    BY <1>9, <2>1, <2>3, <1>t DEF CancelLocal, Handles
  <2> QED
    BY <2>2, <2>3
<1>10. ASSUME NEW p \in Pauses, ReturnPause(p)
       PROVE  Handles'
  BY <1>10, <1>t DEF ReturnPause, streamVars, Handles
<1>11. CASE PenGptStep \/ UNCHANGED vars
  BY <1>11, <1>t DEF PenGptStep, vars, streamVars, pauseVars, Handles
<1> QED
  BY <1>1, <1>2, <1>3, <1>4, <1>5, <1>6, <1>7, <1>8, <1>9, <1>10, <1>11
     DEF Next, ChatStep, PauseStep, Finished

\* What has once excused the finish list keeps excusing it.
LEMMA ExcusesKept ==
  ASSUME IInv, Connections, Handles, [Next]_vars, NEW s \in Streams
  PROVE  /\ RunOver(s) => RunOver(s)' /\ (status'[s] = "stopped" => status[s] = "stopped")
         /\ NotLone(s) => NotLone(s)'
         /\ Denied(s) => Denied(s)'
         /\ BrokenOff(s) /\ (pc[s] \in {"ended", "waiting"} => pc'[s] \in {"ended", "waiting"})
              => BrokenOff(s)'
<1>t. /\ conn \in [Streams -> ConnState]
      /\ status \in [Streams -> RunStatus \cup {"none"}]
      /\ stopCall \in [Pauses -> {"none", "sent", "ok", "no"}]
      /\ runID \in [Pauses -> Streams \cup {None}]
      /\ target \in [Pauses -> Streams \cup {None}]
      /\ cancelledBy \in [Streams -> Pauses \cup {None}]
      /\ pc \in [Streams -> StreamPC]
      /\ \A p \in Pauses : ppc[p] = "idle" => target[p] = None
      /\ \A p \in Pauses : cancelledBy[s] = p => ppc[p] \in {"returning", "returned"}
  BY DEF IInv, TypeOK, PenTypeOK, Bindings, Cancels
<1>b. \A p \in Pauses :
        /\ runID[p] # None \/ ppc[p] \in {"cancel", "returning", "returned"} => runID'[p] = runID[p]
        /\ target[p] # None => target'[p] = target[p]
        /\ Names(p, s) => Names(p, s)'
        /\ StopsOwn(p, s) => StopsOwn(p, s)'
  BY BindingsAreKept, <1>t, NoneAssumption DEF BindingsKept, Names, StopsOwn
<1>1. ASSUME RunOver(s)
      PROVE  RunOver(s)' /\ (status'[s] = "stopped" => status[s] = "stopped")
  <2>1. ASSUME NEW x \in Streams, ChatStep(x) \/ CallerCancels(x) \/ \E k \in Slots : Register(x, k)
        PROVE  UNCHANGED status /\ conn'[s] \notin {"none", "requested", "orphaned"}
    <3>1. x = s => pc[x] # "start"
      BY <1>1 DEF RunOver, IInv, Requests
    <3> QED
      BY <2>1, <3>1, <1>1, <1>t
         DEF RunOver, ChatStep, SendStart, RequestFails, ReceiveResponse, EndRead, CheckPausing, EndWaitForStop,
             ListForFinish, Return, CallerCancels, Register, Abandoned, penVars
  <2>2. ASSUME NEW p \in Pauses, PauseStep(p) \/ \E k \in Slots : Arrive(p, k)
        PROVE  UNCHANGED <<conn, status>>
    BY <2>2 DEF PauseStep, LookupRun, EndRunWait, MarkPausing, SendStop, EndStop, CancelLocal, ReturnPause, Arrive,
                penVars
  <2>3. ASSUME NEW x \in Streams, AdmitRun(x, TurnsOf(x))
        PROVE  RunOver(s)' /\ (status'[s] = "stopped" => status[s] = "stopped")
    BY <2>3, <1>1, <1>t DEF AdmitRun, RunOver
  <2>4. ASSUME NEW x \in Streams,
               RefuseRequest(x) \/ AnswerRequest(x) \/ CloseStream(x) \/ AdvanceRun(x)
        PROVE  RunOver(s)' /\ (status'[s] = "stopped" => status[s] = "stopped")
    BY <2>4, <1>1, <1>t DEF RefuseRequest, AnswerRequest, CloseStream, AdvanceRun, RunOver
  <2>5. ASSUME NEW p \in Pauses, AbortRun(p, runID[p]) \/ RecordStop(p, runID[p])
        PROVE  RunOver(s)' /\ (status'[s] = "stopped" => status[s] = "stopped")
    BY <2>5, <1>1, <1>t DEF AbortRun, RecordStop, RunOver
  <2>6. CASE UNCHANGED vars
    BY <2>6, <1>1 DEF vars, penVars, RunOver
  <2>7. \/ RunOver(s)' /\ (status'[s] = "stopped" => status[s] = "stopped")
        \/ UNCHANGED status /\ conn'[s] \notin {"none", "requested", "orphaned"}
    BY <2>1, <2>2, <2>3, <2>4, <2>5, <2>6, <1>1 DEF Next, PenGptStep, Finished, RunOver
  <2> QED
    BY <2>7, <1>1 DEF RunOver
<1>2. NotLone(s) => NotLone(s)'
  <2>1. ASSUME NEW p \in Pauses, runID[p] = None, cancelledBy[s] = p
        PROVE  runID'[p] = None /\ cancelledBy'[s] = p
    BY <2>1, <1>t, <1>b, CancelledOnce, NoneAssumption
  <2>2. ASSUME NEW p \in Pauses, runID[p] = s, target[p] # s
        PROVE  NotLone(s)'
    <3>1. runID'[p] = s /\ target[p] = None
      BY <2>2, <1>b, NoneAssumption DEF IInv, Bindings
    <3>2. ppc[p] # "idle"
      BY <2>2, NoneAssumption DEF IInv, Bindings
    <3>3. target'[p] = target[p]
      BY <3>2, BindingsAreKept DEF BindingsKept
    <3> QED
      BY <2>2, <3>1, <3>3 DEF NotLone
  <2> QED
    BY <2>1, <2>2, <1>b DEF NotLone
<1>3. Denied(s) => Denied(s)'
  BY <1>b, ReturnedForGood DEF Denied
<1>4. ASSUME BrokenOff(s), pc[s] \in {"ended", "waiting"} => pc'[s] \in {"ended", "waiting"}
      PROVE  BrokenOff(s)'
  <2>1. PICK p \in Pauses : /\ StopsOwn(p, s) /\ stopCall[p] # "none"
                            /\ pc[s] \in {"ended", "waiting"} \/ ppc[p] = "returned"
    BY <1>4 DEF BrokenOff
  <2>2. stopCall'[p] # "none"
    BY <2>1, <1>t
       DEF Next, ChatStep, SendStart, RequestFails, ReceiveResponse, EndRead, CheckPausing, EndWaitForStop,
           ListForFinish, Return, CallerCancels, Register, PauseStep, LookupRun, EndRunWait, MarkPausing,
           SendStop, EndStop, CancelLocal, ReturnPause, Arrive, PenGptStep, AdmitRun, RefuseRequest,
           AnswerRequest, CloseStream, AdvanceRun, AbortRun, RecordStop, Finished, vars, penVars
  <2> QED
    BY <2>1, <2>2, <1>4, <1>b, ReturnedForGood DEF BrokenOff
<1> QED
  BY <1>1, <1>2, <1>3, <1>4

\* The ways in which the body of a stream ends in time: the run was over, or a
\* stop broke it off, or the stream's pause had cancelled it.
LEMMA TimelyEnd ==
  ASSUME IInv, Connections, Handles, [Next]_vars, NEW s \in Streams, s \notin timely, s \in timely'
  PROVE  /\ pc'[s] = "ended" /\ view'[s] = "none"
         /\ RunOver(s)' \/ BrokenOff(s)' \/ NotLone(s)'
<1>t. /\ conn \in [Streams -> ConnState]
      /\ pc \in [Streams -> StreamPC]
      /\ view \in [Streams -> {"none", "stopped", "other"}]
      /\ runID \in [Pauses -> Streams \cup {None}]
      /\ target \in [Pauses -> Streams \cup {None}]
      /\ cancelledBy \in [Streams -> Pauses \cup {None}]
  BY DEF IInv, TypeOK, PenTypeOK
<1>1. RequestFails(s) \/ ReceiveResponse(s) \/ EndRead(s)
  BY DEF Next, ChatStep, SendStart, RequestFails, ReceiveResponse, EndRead, Failed, CheckPausing, EndWaitForStop,
         ListForFinish, Return, CallerCancels, Register, PauseStep, LookupRun, EndRunWait, MarkPausing,
         SendStop, EndStop, CancelLocal, ReturnPause, Arrive, PenGptStep, Finished, vars, streamVars
<1>2. /\ pc[s] \in {"await", "reading"} /\ pc'[s] = "ended"
      /\ conn' = Abandoned(s)
      /\ UNCHANGED <<status, aborted, stopCall, view, cancelledBy, pauseVars>>
      /\ ctx[s] = "paused" \/ (pc[s] = "await" /\ conn[s] = "refused")
           \/ (pc[s] = "reading" /\ conn[s] = "closed")
  BY <1>1, <1>t DEF RequestFails, ReceiveResponse, EndRead, Failed, Abandoned
<1>3. view'[s] = "none"
  BY <1>2, <1>t DEF Handles
<1>4. RunOver(s)' \/ BrokenOff(s)' \/ NotLone(s)'
  <2>1. CASE pc[s] = "await" /\ conn[s] = "refused"
    BY <1>2, <2>1, <1>t DEF Connections, RunOver, Abandoned
  <2>2. CASE pc[s] = "reading" /\ conn[s] = "closed" /\ status[s] # "running"
    <3>1. conn'[s] = "closed"
      BY <1>2, <2>2, <1>t DEF Abandoned
    <3> QED
      BY <1>2, <2>2, <3>1 DEF RunOver
  <2>3. CASE pc[s] = "reading" /\ conn[s] = "closed" /\ status[s] = "running"
    <3>1. PICK p \in Pauses : runID[p] = s /\ stopCall[p] # "none"
      BY <2>3 DEF Connections
    <3>2. CASE target[p] = s
      BY <1>2, <3>1, <3>2 DEF BrokenOff, StopsOwn, pauseVars
    <3>3. CASE target[p] # s
      BY <1>2, <3>1, <3>3 DEF NotLone, pauseVars
    <3> QED
      BY <3>2, <3>3
  <2>4. CASE ctx[s] = "paused"
    <3>1. PICK p \in Pauses : cancelledBy[s] = p
      BY <2>4, <1>t DEF Handles
    <3>2. CASE runID[p] = None
      BY <1>2, <3>1, <3>2 DEF NotLone, pauseVars
    <3>3. CASE runID[p] # None
      <4>1. runID[p] = s /\ stopCall[p] = "ok"
        BY <3>1, <3>3, <1>t, NoneAssumption DEF IInv, Cancels, Bindings
      <4>2. status[s] = "stopped"
        BY <4>1, NoneAssumption DEF IInv, Stops
      <4>3. conn[s] \notin {"none", "requested", "orphaned"}
        BY <4>2 DEF IInv, Requests
      <4> QED
        BY <1>2, <4>2, <4>3, <1>t DEF RunOver, Abandoned
    <3> QED
      BY <3>2, <3>3
  <2> QED
    BY <1>2, <2>1, <2>2, <2>3, <2>4
<1> QED
  BY <1>2, <1>3, <1>4

\* A stream that is being paused is listed once its pause has answered.
LEMMA ListedAfterPause ==
  ASSUME IInv, Handles, [Next]_vars, NEW s \in Streams, s \in timely', BrokenOff(s),
         pc[s] \in {"ended", "waiting"}, pc'[s] \notin {"ended", "waiting"}
  PROVE  BrokenOff(s)' \/ NotLone(s)'
<1>t. pc \in [Streams -> StreamPC] /\ timely \in SUBSET Streams
  BY DEF IInv, TypeOK
<1>1. CheckPausing(s) \/ EndWaitForStop(s)
  BY <1>t
     DEF Next, ChatStep, SendStart, RequestFails, ReceiveResponse, EndRead, CheckPausing, EndWaitForStop,
         ListForFinish, Return, CallerCancels, Register, PauseStep, LookupRun, EndRunWait, MarkPausing,
         SendStop, EndStop, CancelLocal, ReturnPause, Arrive, PenGptStep, Finished, vars, streamVars
<1>2. UNCHANGED <<stopCall, pauseVars>>
  BY <1>1 DEF CheckPausing, EndWaitForStop, penVars
<1>3. PICK p \in Pauses : StopsOwn(p, s) /\ stopCall[p] # "none"
  BY DEF BrokenOff
<1>4. CASE CheckPausing(s)
  <2>1. ~ pausing[s]
    BY <1>4, <1>t DEF CheckPausing
  <2>2. ppc[p] \in {"stopping", "cancel", "returning", "returned"}
    BY <1>3 DEF IInv, TypeOK
  <2> QED
    BY <1>3, <2>1, <2>2, NoneAssumption DEF Handles, StopsOwn
<1>5. CASE EndWaitForStop(s)
  <2>1. stopAnswered[s]
    BY <1>5, <1>t DEF EndWaitForStop
  <2>2. PICK q \in Pauses : target[q] = s /\ ppc[q] = "returned"
    BY <2>1 DEF Handles
  <2>3. CASE q = p
    BY <1>2, <1>3, <2>2, <2>3 DEF BrokenOff, StopsOwn, pauseVars
  <2>4. CASE q # p
    BY <1>2, <1>3, <2>2, <2>4 DEF NotLone, Names, StopsOwn, pauseVars
  <2> QED
    BY <2>3, <2>4
<1> QED
  BY <1>1, <1>4, <1>5

\* The finish list of a stream that ended in time shows its run's end, unless a
\* pause of it failed or did not come alone.
LEMMA ListedEnd ==
  ASSUME IInv, Connections, Handles, [Next]_vars, NEW s \in Streams, FinishOf(s), s \in timely,
         view'[s] # "none", view[s] = "none"
  PROVE  view'[s] = "stopped" \/ (RunOver(s)' /\ status'[s] # "stopped") \/ Denied(s)' \/ NotLone(s)'
<1>t. /\ pc \in [Streams -> StreamPC]
      /\ view \in [Streams -> {"none", "stopped", "other"}]
  BY DEF IInv, TypeOK
<1>1. ListForFinish(s)
  BY <1>t
     DEF Next, ChatStep, SendStart, RequestFails, ReceiveResponse, EndRead, CheckPausing, EndWaitForStop,
         ListForFinish, Return, CallerCancels, Register, PauseStep, LookupRun, EndRunWait, MarkPausing,
         SendStop, EndStop, CancelLocal, ReturnPause, Arrive, PenGptStep, Finished, vars, streamVars
<1>2. /\ pc[s] = "listing"
      /\ view'[s] = "stopped" \/ status[s] # "stopped"
      /\ UNCHANGED <<penVars, cancelledBy, pauseVars>>
  BY <1>1, <1>t DEF ListForFinish
<1>3. CASE view'[s] # "stopped" /\ BrokenOff(s)
  <2>1. PICK p \in Pauses : StopsOwn(p, s) /\ stopCall[p] # "none" /\ ppc[p] = "returned"
    BY <1>2, <1>3 DEF BrokenOff
  <2>2. outcome[p] # "ok"
    <3>1. outcome[p] = "ok" => status[s] = "stopped"
      BY <2>1, NoneAssumption DEF IInv, Outcomes, Stops, StopsOwn
    <3> QED
      BY <1>2, <1>3, <3>1
  <2> QED
    BY <1>2, <2>1, <2>2 DEF Denied, StopsOwn, pauseVars
<1> QED
  BY <1>2, <1>3, ExcusesKept DEF FinishOf, penVars

\* Every step keeps them together.
LEMMA NextFinish ==
  IInv /\ FinishInv /\ [Next]_vars => \A s \in Streams : FinishOf(s)'
<1> SUFFICES ASSUME IInv, FinishInv, [Next]_vars, NEW s \in Streams, s \in timely'
             PROVE  /\ RunOver(s)' \/ BrokenOff(s)' \/ NotLone(s)'
                    /\ view'[s] # "none" =>
                         \/ view'[s] = "stopped" \/ (RunOver(s)' /\ status'[s] # "stopped")
                         \/ Denied(s)' \/ NotLone(s)'
  BY DEF FinishOf
<1>t. Connections /\ Handles /\ FinishOf(s) /\ Handles'
  BY NextHandles DEF FinishInv
<1>1. CASE s \notin timely
  BY <1>1, <1>t, TimelyEnd
<1>2. CASE s \in timely
  <2>1. RunOver(s) \/ BrokenOff(s) \/ NotLone(s)
    BY <1>2, <1>t DEF FinishOf
  <2>2. BrokenOff(s) => BrokenOff(s)' \/ NotLone(s)'
    BY <1>t, ExcusesKept, ListedAfterPause
  <2>3. RunOver(s)' \/ BrokenOff(s)' \/ NotLone(s)'
    BY <2>1, <2>2, <1>t, ExcusesKept
  <2>4. CASE view[s] = "none"
    BY <1>2, <2>3, <2>4, <1>t, ListedEnd
  <2>5. CASE view[s] # "none"
    <3>1. view'[s] = view[s]
      <4>1. pc[s] \in {"returning", "returned"}
        BY <2>5, <1>t DEF Handles
      <4> QED
        BY <4>1
           DEF IInv, TypeOK, Next, ChatStep, SendStart, RequestFails, ReceiveResponse, EndRead, CheckPausing,
               EndWaitForStop, ListForFinish, Return, CallerCancels, Register, PauseStep, LookupRun,
               EndRunWait, MarkPausing, SendStop, EndStop, CancelLocal, ReturnPause, Arrive, PenGptStep,
               Finished, vars, streamVars
    <3>2. view[s] = "stopped" \/ (RunOver(s) /\ status[s] # "stopped") \/ Denied(s) \/ NotLone(s)
      BY <1>2, <1>t, <2>5 DEF FinishOf
    <3> QED
      BY <2>3, <3>1, <3>2, <1>t, ExcusesKept
  <2> QED
    BY <2>3, <2>4, <2>5
<1> QED
  BY <1>1, <1>2

\* Nothing is connected, and nothing has been read.
LEMMA InitFinish == Init => FinishInv
<1> SUFFICES ASSUME Init PROVE FinishInv
  OBVIOUS
<1>1. Connections
  BY DEF Init, PenInit, Connections
<1>2. Handles
  BY NoneAssumption DEF Init, Handles
<1>3. ASSUME NEW s \in Streams PROVE FinishOf(s)
  BY DEF Init, FinishOf
<1> QED
  BY <1>1, <1>2, <1>3 DEF FinishInv

\* What a stream's finish list read, its connection and its handle tell of one
\* another throughout.
THEOREM FinishInvariant == Spec => []FinishInv
<1>1. IInv /\ FinishInv /\ [Next]_vars => FinishInv'
  BY NextConnections, NextHandles, NextFinish DEF FinishInv
<1> QED
  BY <1>1, InitFinish, Invariant, PTL DEF Spec

\* The finish list of a stream with a single pause shows the run as stopped
\* when the pause's stop was recorded: a body that ended while the run still
\* ran was broken off by that stop, and then the list waits for the pause.
THEOREM FinishAgreesWithALoneStop == Spec => []FinishAgreesWithLoneStop
<1>1. ASSUME IInv, FinishInv PROVE FinishAgreesWithLoneStop
  <2> SUFFICES ASSUME NEW p \in Pauses, NEW s \in Streams,
                      StoppedOk(p, s), target[p] = s, ListedInTime(s),
                      \A q \in Pauses \ {p} : ~ Names(q, s)
               PROVE  view[s] = "stopped"
    BY DEF FinishAgreesWithLoneStop
  <2>1. status[s] = "stopped"
    BY <1>1, NoneAssumption DEF StoppedOk, IInv, Outcomes, Stops
  <2>2. ~ Denied(s)
    BY DEF Denied, StopsOwn, StoppedOk, Names
  <2>3. ~ NotLone(s)
    <3>1. ASSUME NEW q \in Pauses, runID[q] = None, cancelledBy[s] = q
          PROVE  FALSE
      <4>1. target[q] = s
        BY <1>1, <3>1 DEF IInv, Cancels
      <4> QED
        BY <3>1, <4>1, NoneAssumption DEF Names, StoppedOk
    <3> QED
      BY <3>1 DEF NotLone, Names, StoppedOk
  <2> QED
    BY <1>1, <2>1, <2>2, <2>3 DEF FinishInv, FinishOf, ListedInTime
<1> QED
  BY <1>1, FinishInvariant, Invariant, PTL
=============================================================================
