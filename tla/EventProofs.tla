----------------------------- MODULE EventProofs -----------------------------
(***************************************************************************)
(* Proofs about ChatEvents: a StreamChat call reads any number of chunks,  *)
(* and whatever fails its client sees the protocol of ClientView.          *)
(***************************************************************************)
EXTENDS ChatEvents, TLAPS

Streaming == View!Content \cup {"error"}

\* Where the call is tells what its client has seen.
Progress ==
  /\ pc = "idle" => last = "none" /\ sent = {}
  /\ pc \in {"build", "await"} => last = "start"
  /\ pc \in {"reading", "refs"} => last \in Streaming
  /\ pc = "recs" => last \in Streaming \cup {"references"}
  /\ pc = "list" => last \in Streaming \cup View!Closing
  /\ pc = "done" =>
       \/ last = "finish" /\ "finish" \in sent
       \/ errors = 1 /\ last \in View!Closing \cup {"error"}
  /\ pc \in {"returning", "returned"} /\ result # "unwritable" =>
       last = "done" /\ (errors = 0 => "finish" \in sent)

\* An error event is written exactly when the call will say so.
Errors ==
  /\ errors = 0 => last # "error"
  /\ errors = 1 => last \notin View!Content
  /\ pc \in {"idle", "build", "await"} => errors = 0 /\ streamErr = "nil" /\ upstreamErr = "nil"
  /\ pc = "reading" => streamErr = "nil" /\ (errors = 1 <=> upstreamErr = "error")
  /\ pc \notin {"idle", "build", "await", "reading"} => (errors = 1 <=> streamErr = "error")
  /\ result = "unwritable" => errors = 0 /\ sent = {}
  /\ result = "notified" => streamErr = "error"
  /\ result = "nil" => streamErr = "nil"

\* What was gathered is kept until it is written.
Gathering ==
  /\ gathered \subseteq collected
  /\ result = "unwritable" => gathered = {}
  /\ pc \in {"idle", "build", "await"} => gathered = {}
  /\ pc \in {"recs", "list", "done", "returning", "returned"} /\ result # "unwritable" =>
       ("references" \in gathered => "references" \in sent)
  /\ pc \in {"list", "done", "returning", "returned"} /\ result # "unwritable" =>
       ("recommendations" \in gathered => "recommendations" \in sent)

EInv == TypeOK /\ Progress /\ Errors /\ Gathering

-----------------------------------------------------------------------------
\* StreamChat begins with nothing written, gathered or failed.
LEMMA InitEInv == Init => EInv
  BY DEF Init, EInv, TypeOK, Progress, Errors, Gathering, View!Events, View!Content, View!Closing

\* Every step keeps the types, and writes at most one error event.
LEMMA NextType == EInv /\ [Next]_vars => TypeOK'
<1> SUFFICES ASSUME TypeOK, Errors, [Next]_vars PROVE TypeOK'
  BY DEF EInv
<1> USE DEF TypeOK, Errors, Write, Silent, Fail, Stopped, clientVars,
            View!Events, View!Content, View!Closing
<1>1. CASE EndContext
  BY <1>1 DEF EndContext
<1>2. CASE Start
  BY <1>2 DEF Start
<1>3. CASE Build
  <2> USE <1>3 DEF Build
  <2>1. last' \in View!Events \cup {"none"} /\ sent' \subseteq View!Events
    OBVIOUS
  <2>2. errors' \in 0 .. 1
    OBVIOUS
  <2> QED
    BY <2>1, <2>2
<1>4. CASE Response
  <2> USE <1>4 DEF Response
  <2>1. last' \in View!Events \cup {"none"} /\ sent' \subseteq View!Events
    OBVIOUS
  <2>2. errors' \in 0 .. 1
    OBVIOUS
  <2> QED
    BY <2>1, <2>2
<1>5. CASE ContentChunk
  BY <1>5 DEF ContentChunk
<1>6. CASE ToolResult
  BY <1>6 DEF ToolResult
<1>7. CASE ErrorChunk
  <2> USE <1>7 DEF ErrorChunk
  <2>1. last' \in View!Events \cup {"none"} /\ sent' \subseteq View!Events
    OBVIOUS
  <2>2. errors' \in 0 .. 1
    OBVIOUS
  <2> QED
    BY <2>1, <2>2
<1>8. CASE EndRead
  <2> USE <1>8 DEF EndRead
  <2>1. last' \in View!Events \cup {"none"} /\ sent' \subseteq View!Events
    OBVIOUS
  <2>2. errors' \in 0 .. 1
    OBVIOUS
  <2> QED
    BY <2>1, <2>2
<1>9. CASE SendReferences
  BY <1>9 DEF SendReferences
<1>10. CASE SendRecommendations
  BY <1>10 DEF SendRecommendations
<1>11. CASE SendFinish
  <2> USE <1>11 DEF SendFinish
  <2>1. last' \in View!Events \cup {"none"} /\ sent' \subseteq View!Events
    OBVIOUS
  <2>2. errors' \in 0 .. 1
    OBVIOUS
  <2> QED
    BY <2>1, <2>2
<1>12. CASE SendDone
  BY <1>12 DEF SendDone
<1>13. CASE Return
  BY <1>13 DEF Return
<1>14. CASE UNCHANGED vars
  BY <1>14 DEF vars
<1> QED
  BY <1>1, <1>2, <1>3, <1>4, <1>5, <1>6, <1>7, <1>8, <1>9, <1>10, <1>11, <1>12, <1>13, <1>14
     DEF Next, Finished

\* Every step keeps the call's place in step with what its client has seen.
LEMMA NextProgress == EInv /\ [Next]_vars => Progress'
<1> SUFFICES ASSUME TypeOK, Errors, Progress, [Next]_vars PROVE Progress'
  BY DEF EInv
<1> USE DEF TypeOK, Errors, Progress, Streaming, Write, Silent, Fail, Stopped, clientVars,
            View!Events, View!Content, View!Closing
<1>1. CASE EndContext
  BY <1>1 DEF EndContext
<1>2. CASE Start
  BY <1>2 DEF Start
<1>3. CASE Build
  BY <1>3 DEF Build
<1>4. CASE Response
  BY <1>4 DEF Response
<1>5. CASE ContentChunk
  BY <1>5 DEF ContentChunk
<1>6. CASE ToolResult
  BY <1>6 DEF ToolResult
<1>7. CASE ErrorChunk
  BY <1>7 DEF ErrorChunk
<1>8. CASE EndRead
  BY <1>8 DEF EndRead
<1>9. CASE SendReferences
  BY <1>9 DEF SendReferences
<1>10. CASE SendRecommendations
  BY <1>10 DEF SendRecommendations
<1>11. CASE SendFinish
  <2>1. CASE Write("finish")
    BY <1>11, <2>1 DEF SendFinish
  <2>2. CASE ~ Write("finish")
    BY <1>11, <2>2 DEF SendFinish
  <2> QED
    BY <2>1, <2>2
<1>12. CASE SendDone
  BY <1>12 DEF SendDone
<1>13. CASE Return
  BY <1>13 DEF Return
<1>14. CASE UNCHANGED vars
  BY <1>14 DEF vars
<1> QED
  BY <1>1, <1>2, <1>3, <1>4, <1>5, <1>6, <1>7, <1>8, <1>9, <1>10, <1>11, <1>12, <1>13, <1>14
     DEF Next, Finished

\* Every failure that is written is the one that will be returned.
LEMMA NextErrors == EInv /\ [Next]_vars => Errors'
<1> SUFFICES ASSUME TypeOK, Progress, Errors, [Next]_vars PROVE Errors'
  BY DEF EInv
<1> USE DEF TypeOK, Errors, Write, Silent, Fail, Stopped, clientVars, View!Content
<1>1. CASE EndContext
  BY <1>1 DEF EndContext
<1>2. CASE Start
  <2>1. CASE pc' = "build"
    BY <1>2, <2>1 DEF Start
  <2>2. CASE pc' = "returned"
    BY <1>2, <2>2 DEF Start, Progress
  <2> QED
    BY <1>2, <2>1, <2>2 DEF Start
<1>3. CASE Build
  BY <1>3 DEF Build
<1>4. CASE Response
  BY <1>4 DEF Response
<1>5. CASE ContentChunk
  BY <1>5 DEF ContentChunk
<1>6. CASE ToolResult
  BY <1>6 DEF ToolResult
<1>7. CASE ErrorChunk
  BY <1>7 DEF ErrorChunk
<1>8. CASE EndRead
  BY <1>8 DEF EndRead
<1>9. CASE SendReferences
  BY <1>9 DEF SendReferences
<1>10. CASE SendRecommendations
  BY <1>10 DEF SendRecommendations
<1>11. CASE SendFinish
  BY <1>11 DEF SendFinish
<1>12. CASE SendDone
  BY <1>12 DEF SendDone
<1>13. CASE Return
  BY <1>13 DEF Return
<1>14. CASE UNCHANGED vars
  BY <1>14 DEF vars
<1> QED
  BY <1>1, <1>2, <1>3, <1>4, <1>5, <1>6, <1>7, <1>8, <1>9, <1>10, <1>11, <1>12, <1>13, <1>14
     DEF Next, Finished

\* What is gathered stays until SendReferences and SendRecommendations write it.
LEMMA NextGathering == EInv /\ [Next]_vars => Gathering'
<1> SUFFICES ASSUME TypeOK, Gathering, [Next]_vars PROVE Gathering'
  BY DEF EInv
<1> USE DEF TypeOK, Gathering, Write, Silent, Fail, Stopped, clientVars
<1>1. CASE EndContext
  BY <1>1 DEF EndContext
<1>2. CASE Start
  BY <1>2 DEF Start
<1>3. CASE Build
  BY <1>3 DEF Build
<1>4. CASE Response
  BY <1>4 DEF Response
<1>5. CASE ContentChunk
  BY <1>5 DEF ContentChunk
<1>6. CASE ToolResult
  BY <1>6 DEF ToolResult
<1>7. CASE ErrorChunk
  BY <1>7 DEF ErrorChunk
<1>8. CASE EndRead
  BY <1>8 DEF EndRead
<1>9. CASE SendReferences
  BY <1>9 DEF SendReferences
<1>10. CASE SendRecommendations
  BY <1>10 DEF SendRecommendations
<1>11. CASE SendFinish
  BY <1>11 DEF SendFinish
<1>12. CASE SendDone
  BY <1>12 DEF SendDone
<1>13. CASE Return
  BY <1>13 DEF Return
<1>14. CASE UNCHANGED vars
  BY <1>14 DEF vars
<1> QED
  BY <1>1, <1>2, <1>3, <1>4, <1>5, <1>6, <1>7, <1>8, <1>9, <1>10, <1>11, <1>12, <1>13, <1>14
     DEF Next, Finished

\* The invariant is preserved by every step of StreamChat.
LEMMA NextEInv == EInv /\ [Next]_vars => EInv'
  BY NextType, NextProgress, NextErrors, NextGathering DEF EInv

\* The invariant that ties a call's place to its events holds throughout.
THEOREM EventInvariant == Spec => []EInv
  BY InitEInv, NextEInv, PTL DEF Spec

\* Every variable of a call keeps its type, for answers of any length.
THEOREM TypeCorrect == Spec => []TypeOK
  BY EventInvariant, PTL DEF EInv

-----------------------------------------------------------------------------
\* Every event that StreamChat writes may come at that point.
LEMMA EventsInOrder == EInv /\ [Next]_vars => [View!ViewNext]_View!viewVars
<1> SUFFICES ASSUME EInv, [Next]_vars PROVE View!ViewNext \/ UNCHANGED View!viewVars
  OBVIOUS
<1>w. ASSUME NEW e \in View!Events, Write(e), View!May(e)
      PROVE  View!ViewNext
  BY <1>w DEF Write, View!ViewNext, View!Receive
<1> USE DEF EInv, TypeOK, Progress, Errors, Streaming, Fail, Stopped, View!Events, View!Content,
            View!Closing
<1>s. ASSUME Silent
      PROVE  UNCHANGED View!viewVars
  BY <1>s DEF Silent, clientVars, View!viewVars
<1>2. CASE Start
  BY <1>2, <1>s, <1>w DEF Start, View!May
<1>3. CASE Build
  BY <1>3, <1>s, <1>w DEF Build, View!May
<1>4. CASE Response
  BY <1>4, <1>s, <1>w DEF Response, View!May
<1>5. CASE ContentChunk
  BY <1>5, <1>s, <1>w DEF ContentChunk, View!May
<1>7. CASE ErrorChunk
  BY <1>7, <1>s, <1>w DEF ErrorChunk, View!May
<1>8. CASE EndRead
  BY <1>8, <1>s, <1>w DEF EndRead, View!May
<1>9. CASE SendReferences
  BY <1>9, <1>s, <1>w DEF SendReferences, View!May
<1>10. CASE SendRecommendations
  BY <1>10, <1>s, <1>w DEF SendRecommendations, View!May
<1>11. CASE SendFinish
  BY <1>11, <1>s, <1>w DEF SendFinish, View!May
<1>12. CASE SendDone
  BY <1>12, <1>w DEF SendDone, View!May
<1>14. CASE UNCHANGED clientVars
  BY <1>14 DEF clientVars, View!viewVars
<1> QED
  BY <1>2, <1>3, <1>4, <1>5, <1>7, <1>8, <1>9, <1>10, <1>11, <1>12, <1>14
     DEF Next, Finished, EndContext, ToolResult, Return, vars

\* StreamChat implements the protocol its client relies on, for answers of any
\* length (src/service/agent_stream.go:64-138, 157-377).
THEOREM ClientViewImplemented == Spec => ImplementsClientView
<1>1. Init => View!ViewInit
  BY DEF Init, View!ViewInit
<1> QED
  BY <1>1, EventInvariant, EventsInOrder, PTL DEF Spec, ImplementsClientView, View!ViewSpec

\* The error StreamChat returns, and what its client was told, agree.
THEOREM ResultsAreTrue == Spec => []ResultMatchesEvents
<1>1. EInv => ResultMatchesEvents
  BY DEF EInv, TypeOK, Progress, Errors, ResultMatchesEvents
<1> QED
  BY EventInvariant, <1>1, PTL

\* Nothing that pen-gpt's tools returned is lost to a failure or a stop.
THEOREM GatheredReachesClient == Spec => []GatheredIsSent
<1>1. EInv => GatheredIsSent
  BY DEF EInv, TypeOK, Gathering, GatheredIsSent
<1> QED
  BY EventInvariant, <1>1, PTL
=============================================================================
