----------------------------- MODULE ChatEvents -----------------------------
(***************************************************************************)
(* The events StreamChat writes to its client and what it returns          *)
(* (src/service/agent_stream.go): the request to pen-gpt, the scan loop    *)
(* over the chunks of its answer, and the closing events.  One call; its   *)
(* context may end at any time, and every exchange may fail.  How the call *)
(* relates to pauses and other streams is module StreamControl's part.     *)
(***************************************************************************)
EXTENDS Naturals

VARIABLES
  pc,           \* where the call is
  ctx,          \* streamCtx: live, stopped (cancelled), expired (ended with another cause)
  collected,    \* refs and recs: "references", "recommendations" when not empty
  upstreamErr,  \* "error" once an error chunk has been read, or "nil"
  streamErr,    \* the error the call will wrap in ErrClientNotified, or "nil"
  result,       \* what it returns: nil, ErrClientNotified or the writer's error
  gathered,     \* history: "references", "recommendations" that pen-gpt sent
  last, errors, \* the last event written, the number of error events
  sent          \* the kinds of events written

clientVars == <<last, errors, sent>>
vars == <<pc, ctx, collected, upstreamErr, streamErr, result, gathered, clientVars>>

View == INSTANCE ClientView

TypeOK ==
  /\ pc \in {"idle", "build", "await", "reading", "refs", "recs", "list", "done",
             "returning", "returned"}
  /\ ctx \in {"live", "stopped", "expired"}
  /\ collected \subseteq {"references", "recommendations"}
  /\ upstreamErr \in {"nil", "error"} /\ streamErr \in {"nil", "error"}
  /\ result \in {"none", "nil", "notified", "unwritable"}
  /\ gathered \subseteq {"references", "recommendations"}
  /\ last \in View!Events \cup {"none"}
  /\ errors \in 0 .. 1
  /\ sent \subseteq View!Events
  /\ pc = "returned" <=> result # "none"

Init ==
  /\ pc = "idle" /\ ctx = "live"
  /\ collected = {} /\ upstreamErr = "nil" /\ streamErr = "nil"
  /\ result = "none" /\ gathered = {}
  /\ last = "none" /\ errors = 0 /\ sent = {}

-----------------------------------------------------------------------------
\* The writer's error is looked at for the start event only.
Write(e) ==
  /\ last' = e
  /\ sent' = sent \cup {e}
  /\ errors' = IF e = "error" THEN errors + 1 ELSE errors

Silent == UNCHANGED clientVars

Stopped == ctx = "stopped"

\* The context ends: a pause, a newer stream or the client; or a deadline or
\* another cause the caller has set.
EndContext ==
  /\ pc \notin {"idle", "returned"} /\ ctx = "live"
  /\ ctx' \in {"stopped", "expired"}
  /\ UNCHANGED <<pc, collected, upstreamErr, streamErr, result, gathered, clientVars>>

Start ==
  /\ pc = "idle"
  /\ \/ pc' = "build" /\ result' = result /\ Write("start")
     \/ pc' = "returned" /\ result' = "unwritable" /\ Silent
  /\ UNCHANGED <<ctx, collected, upstreamErr, streamErr, gathered>>

Fail == Write("error") /\ streamErr' = "error"

\* Marshalling the body or creating the request may fail.
Build ==
  /\ pc = "build"
  /\ \/ pc' = "await" /\ Silent /\ UNCHANGED streamErr
     \/ pc' = "refs" /\ Fail
  /\ UNCHANGED <<ctx, collected, upstreamErr, result, gathered>>

\* No response, 204 or a refusal, or 200 and the chunks.
Response ==
  /\ pc = "await"
  /\ \/ pc' = "refs" /\ IF Stopped THEN Silent /\ UNCHANGED streamErr ELSE Fail
     \/ pc' = "refs" /\ Silent /\ UNCHANGED streamErr
     \/ pc' = "refs" /\ Fail
     \/ pc' = "reading" /\ Silent /\ UNCHANGED streamErr
  /\ UNCHANGED <<ctx, collected, upstreamErr, result, gathered>>

ContentChunk_AfterError ==  \* mutant: content is still passed on after an error chunk
  /\ pc = "reading"
  /\ \E e \in {"text_delta", "workflow_step"} : Write(e)
  /\ UNCHANGED <<pc, ctx, collected, upstreamErr, streamErr, result, gathered>>

\* text-delta outside a thought, tool-call, workflow-step-start: passed on,
\* but not after an error chunk.
ContentChunk ==
  /\ pc = "reading" /\ upstreamErr = "nil"
  /\ \E e \in {"text_delta", "workflow_step"} : Write(e)
  /\ UNCHANGED <<pc, ctx, collected, upstreamErr, streamErr, result, gathered>>

\* tool-result: its references and recommendations are kept for the end.
ToolResult ==
  /\ pc = "reading" /\ upstreamErr = "nil"
  /\ \E kind \in {"references", "recommendations"} :
       /\ collected' = collected \cup {kind}
       /\ gathered' = gathered \cup {kind}
  /\ UNCHANGED <<pc, ctx, upstreamErr, streamErr, result, clientVars>>

ErrorChunk_Each ==  \* mutant: every error chunk is reported
  /\ pc = "reading"
  /\ upstreamErr' = "error"
  /\ Write("error")
  /\ UNCHANGED <<pc, ctx, collected, streamErr, result, gathered>>

\* Only the first one is reported; reading goes on until pen-gpt closes.
ErrorChunk ==
  /\ pc = "reading"
  /\ upstreamErr' = "error"
  /\ IF upstreamErr = "error" THEN Silent ELSE Write("error")
  /\ UNCHANGED <<pc, ctx, collected, streamErr, result, gathered>>

EndRead_DropsCollected ==  \* mutant: a read failure returns nil, nil, err
  /\ pc = "reading"
  /\ pc' = "refs"
  /\ \/ Silent /\ streamErr' = upstreamErr /\ UNCHANGED collected
     \/ /\ IF upstreamErr = "error" \/ Stopped THEN Silent /\ streamErr' = upstreamErr ELSE Fail
        /\ collected' = {}
  /\ UNCHANGED <<ctx, upstreamErr, result, gathered>>

\* The end of the body, or a read failure: reported unless an error chunk was,
\* or the stream was stopped.
EndRead ==
  /\ pc = "reading"
  /\ pc' = "refs"
  /\ \/ Silent /\ streamErr' = upstreamErr
     \/ IF upstreamErr = "error" \/ Stopped THEN Silent /\ streamErr' = upstreamErr ELSE Fail
  /\ UNCHANGED <<ctx, collected, upstreamErr, result, gathered>>

SendReferences ==
  /\ pc = "refs"
  /\ pc' = "recs"
  /\ IF "references" \in collected THEN Write("references") ELSE Silent
  /\ UNCHANGED <<ctx, collected, upstreamErr, streamErr, result, gathered>>

SendRecommendations ==
  /\ pc = "recs"
  /\ pc' = "list"
  /\ IF "recommendations" \in collected THEN Write("recommendations") ELSE Silent
  /\ UNCHANGED <<ctx, collected, upstreamErr, streamErr, result, gathered>>

SendFinish_ReturnsNil ==  \* mutant: the failed list is reported to the client only
  /\ pc = "list"
  /\ pc' = "done"
  /\ Write("finish") \/ (IF streamErr = "error" THEN Silent ELSE Write("error"))
  /\ UNCHANGED <<ctx, collected, upstreamErr, streamErr, result, gathered>>

\* The message list, whatever became of the context; its failure is reported
\* unless an error was.
SendFinish ==
  /\ pc = "list"
  /\ pc' = "done"
  /\ \/ Write("finish") /\ UNCHANGED streamErr
     \/ IF streamErr = "error" THEN Silent /\ UNCHANGED streamErr ELSE Fail
  /\ UNCHANGED <<ctx, collected, upstreamErr, result, gathered>>

SendDone ==
  /\ pc = "done"
  /\ pc' = "returning"
  /\ Write("done")
  /\ UNCHANGED <<ctx, collected, upstreamErr, streamErr, result, gathered>>

Return ==
  /\ pc = "returning"
  /\ pc' = "returned"
  /\ result' = IF streamErr = "error" THEN "notified" ELSE "nil"
  /\ UNCHANGED <<ctx, collected, upstreamErr, streamErr, gathered, clientVars>>

Finished == pc = "returned" /\ UNCHANGED vars

Next ==
  \/ EndContext \/ Start \/ Build \/ Response
  \/ ContentChunk \/ ToolResult \/ ErrorChunk \/ EndRead
  \/ SendReferences \/ SendRecommendations \/ SendFinish \/ SendDone \/ Return
  \/ Finished

Spec == Init /\ [][Next]_vars

-----------------------------------------------------------------------------
\* On every path, whatever fails and whenever the context ends, the client
\* sees a well-formed stream of events.
ImplementsClientView == View!ViewSpec

\* What the caller is told is what the client was told: ErrClientNotified is
\* returned exactly when an error event was written, nil only after finish,
\* and a plain error only when nothing was written
\* (src/service/agent_stream.go:43-45, 67-68).
ResultMatchesEvents ==
  /\ result = "notified" <=> errors = 1 /\ pc = "returned"
  /\ result = "nil" => "finish" \in sent
  /\ result = "unwritable" => sent = {}
  /\ result \in {"nil", "notified"} => last = "done"

\* What pen-gpt's tools returned before the stream failed or was stopped
\* reaches the client: "Always send accumulated references, recommendations
\* ... even on error" (src/service/agent_stream.go:103-104).
GatheredIsSent ==
  result \in {"nil", "notified"} => gathered \subseteq sent
=============================================================================
