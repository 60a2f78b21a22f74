------------------------------- MODULE Answers -------------------------------
(***************************************************************************)
(* What an answer's tools contribute, told twice: by doUpstreamStream while *)
(* they run (src/service/agent_stream.go), and by parseMessage from the    *)
(* message that pen-gpt stores (src/service/agent.go).  Both extract from  *)
(* the same results; the steps are told from different data.  Wording,     *)
(* query texts and the fields of a reference that decide nothing are left  *)
(* out.  Tools run side by side, and their results come in any order.      *)
(***************************************************************************)
EXTENDS Naturals, Sequences, SequencesExt, FiniteSets, Functions

CONSTANT NumTools   \* how many tools the answer calls at most
ASSUME NumToolsAssumption == NumTools \in Nat

Tools == 1 .. NumTools   \* in the order in which the answer calls them

VARIABLES
  tool,       \* each call: its kind, flags, the steps it started, its result
  stepsSent, refsSent, recsSent,  \* what the stream has told, or gathered
  failed      \* an error chunk has come

answerVars == <<tool, stepsSent, refsSent, recsSent, failed>>

-----------------------------------------------------------------------------
(***************************************************************************)
(* References.                                                             *)
(***************************************************************************)
Ref(url, id, post) == [url |-> url, id |-> id, post |-> post]

Key_UrlOnly(r) == r.url  \* mutant: no key for what has no URL

Key(r) == IF r.url # "" THEN r.url ELSE IF r.id # "" THEN r.id ELSE r.post

\* The raw references that are kept: each key's first.
Keep(refs, r) ==
  IF Key(r) = "" \/ \E i \in DOMAIN refs : Key(refs[i]) = Key(r) THEN refs ELSE Append(refs, r)

DeduplicateRefs(raw) == FoldLeft(Keep, <<>>, raw)

\* The references of the query steps, in the order in which Go happens to
\* range over the map of steps.
Collected(steps, order) == FlattenSeq([i \in DOMAIN order |-> steps[order[i]]])

QuerySteps == {"query-medical-step", "query-drug-step"}

Orders(steps) == SetToSeqs(DOMAIN steps \cap QuerySteps)

ExtractReferences_OneStep(result, order) ==  \* mutant: one query step will do
  IF result.nested # <<>> THEN DeduplicateRefs(result.nested)
  ELSE IF result.direct # <<>> THEN DeduplicateRefs(result.direct)
  ELSE IF result.summary # <<>> THEN DeduplicateRefs(result.summary)
  ELSE IF order = <<>> THEN <<>>
  ELSE DeduplicateRefs(result.steps[order[1]])

\* result.final_references, final_references at the top, the summary step's,
\* or all of the query steps'.
ExtractReferences(result, order) ==
  IF result.nested # <<>> THEN DeduplicateRefs(result.nested)
  ELSE IF result.direct # <<>> THEN DeduplicateRefs(result.direct)
  ELSE IF result.summary # <<>> THEN DeduplicateRefs(result.summary)
  ELSE DeduplicateRefs(Collected(result.steps, order))

\* At the top, or within result.
ExtractRecommendations(recs) == IF recs.direct # <<>> THEN recs.direct ELSE recs.nested

-----------------------------------------------------------------------------
(***************************************************************************)
(* Steps.                                                                  *)
(***************************************************************************)

\* workflowStepDefs; a workflow has other steps too.
StepDefs == QuerySteps \cup {"summary-step"}

ExtractWorkflowSteps_NoFlags(flags, result) ==  \* mutant: the execute flags are not looked at
  {s \in StepDefs : result.hasResults \/ ~ result.hasSteps \/ s \in DOMAIN result.steps}

\* Without a map of steps, or with hasResults, the flags alone decide.
ExtractWorkflowSteps(flags, result) ==
  {s \in StepDefs :
    /\ s \in QuerySteps => s \in flags
    /\ result.hasResults \/ ~ result.hasSteps \/ s \in DOMAIN result.steps}

-----------------------------------------------------------------------------
(***************************************************************************)
(* What tools return.                                                      *)
(***************************************************************************)
R1 == Ref("u", "i", "")
R2 == Ref("u", "j", "")    \* the same document under another id
R3 == Ref("", "i", "")
R4 == Ref("", "", "i")     \* a post with the id of R3
R5 == Ref("", "", "")

RefLists == {<<>>, <<R1, R2, R3>>, <<R4, R5, R2>>}

NoRecs == [direct |-> <<>>, nested |-> <<>>]
Recs == [direct : {<<>>, <<"rec">>}, nested : {<<>>, <<"rec", "rec">>}]

Plain(refs, recs) ==
  [nested |-> <<>>, direct |-> refs, summary |-> <<>>, steps |-> <<>>,
   hasSteps |-> FALSE, hasResults |-> FALSE, recs |-> recs]

\* A workflow in its old format returns its steps, in its new one the final
\* references, with hasResults when there is something.
Workflow(started) ==
  [nested : {<<>>}, direct : {<<>>}, summary : {<<>>, <<R1, R4>>},
   steps : {[s \in started \cup {"prepare-step"} |-> IF s \in QuerySteps THEN lists[s] ELSE <<>>] :
              lists \in [started \cap QuerySteps -> RefLists]}, hasSteps : {TRUE}, hasResults : {FALSE}, recs : {NoRecs}]
    \cup
  [nested : RefLists, direct : {<<>>}, summary : {<<>>}, steps : {<<>>},
   hasSteps : {FALSE}, hasResults : BOOLEAN, recs : {NoRecs}]

Results(t) ==
  IF t.kind = "plain" THEN {Plain(refs, recs) : refs \in RefLists, recs \in Recs}
  ELSE Workflow(t.started)

\* The steps a workflow runs before it returns.
Required(t) == t.flags \cup {"summary-step"}

-----------------------------------------------------------------------------
(***************************************************************************)
(* The answer, as it is streamed.                                          *)
(***************************************************************************)
NotCalled == [kind |-> "none", flags |-> {}, started |-> {}, result |-> <<>>]

AnswerInit ==
  /\ tool = [i \in Tools |-> NotCalled]
  /\ stepsSent = {} /\ refsSent = <<>> /\ recsSent = <<>> /\ failed = FALSE

Running(i) == tool[i].kind # "none" /\ tool[i].result = <<>>

\* tool-call: a workflow tells its steps itself.
ToolCall(i) ==
  /\ tool[i] = NotCalled
  /\ i > 1 => tool[i - 1] # NotCalled
  /\ \/ /\ tool' = [tool EXCEPT ![i].kind = "plain"]
        /\ stepsSent' = IF failed THEN stepsSent ELSE stepsSent \cup {<<i, "call">>}
     \/ /\ \E flags \in SUBSET QuerySteps :
             tool' = [tool EXCEPT ![i].kind = "workflow", ![i].flags = flags]
        /\ UNCHANGED stepsSent
  /\ UNCHANGED <<refsSent, recsSent, failed>>

\* tool-output with workflow-step-start: a known step is told, another leaves
\* no trace.
StepStart(i, s) ==
  /\ Running(i) /\ tool[i].kind = "workflow"
  /\ s \in Required(tool[i]) \ tool[i].started
  /\ tool' = [tool EXCEPT ![i].started = @ \cup {s}]
  /\ stepsSent' = IF failed THEN stepsSent ELSE stepsSent \cup {<<i, s>>}
  /\ UNCHANGED <<refsSent, recsSent, failed>>

\* tool-result: references and recommendations are gathered for the end.
ToolResult(i) ==
  /\ Running(i)
  /\ tool[i].kind = "workflow" => Required(tool[i]) \subseteq tool[i].started
  /\ \E result \in Results(tool[i]) :
       /\ tool' = [tool EXCEPT ![i].result = <<result>>]
       /\ recsSent' = IF failed THEN recsSent ELSE recsSent \o ExtractRecommendations(result.recs)
       /\ \E order \in Orders(result.steps) :
            refsSent' = IF failed THEN refsSent ELSE refsSent \o ExtractReferences(result, order)
  /\ UNCHANGED <<stepsSent, failed>>

\* Nothing that comes after an error chunk is told.
ErrorChunk ==
  /\ failed' = TRUE
  /\ UNCHANGED <<tool, stepsSent, refsSent, recsSent>>

AnswerNext ==
  \/ \E i \in Tools : ToolCall(i) \/ ToolResult(i) \/ \E s \in StepDefs : StepStart(i, s)
  \/ ErrorChunk

AnswerSpec == AnswerInit /\ [][AnswerNext]_answerVars

-----------------------------------------------------------------------------
(***************************************************************************)
(* parseMessage, of the parts that are stored: the calls in their order,   *)
(* those with a result.                                                    *)
(***************************************************************************)
Finished == {i \in Tools : tool[i].result # <<>>}
ResultOf(i) == tool[i].result[1]

ListedSteps ==
  UNION {IF tool[i].kind = "plain" THEN {<<i, "call">>}
         ELSE {<<i, s>> : s \in ExtractWorkflowSteps(tool[i].flags, ResultOf(i))} : i \in Finished}

ListedRefs(order) ==
  FlattenSeq([i \in Tools |-> IF i \in Finished THEN ExtractReferences(ResultOf(i), order[i]) ELSE <<>>])

ListedRecs ==
  FlattenSeq([i \in Tools |-> IF i \in Finished THEN ExtractRecommendations(ResultOf(i).recs) ELSE <<>>])

\* How often a key occurs among references.
Count(refs, key) == Cardinality({i \in DOMAIN refs : Key(refs[i]) = key})

-----------------------------------------------------------------------------
\* The documents that are streamed and listed, in whatever order Go ranges
\* over the steps of either.
SameDocuments ==
  \A order \in [Finished -> UNION {Orders(ResultOf(i).steps) : i \in Finished}] :
    (\A i \in Finished : order[i] \in Orders(ResultOf(i).steps)) =>
      LET listed == ListedRefs(order) IN
      \A key \in {"u", "i"} :
        IF failed THEN Count(refsSent, key) <= Count(listed, key)
        ELSE Count(refsSent, key) = Count(listed, key)

SameRecommendations ==
  IF failed THEN Len(recsSent) <= Len(ListedRecs) ELSE Len(recsSent) = Len(ListedRecs)

\* A client sees the same documents and recommendations while an answer streams
\* and when it lists the messages again, in whatever order tools end; after an
\* error chunk it may see fewer, until it lists the messages
\* (extractReferences, deduplicateRefs, extractRecommendations, agent.go:575-720).
StreamAndListAgree == SameDocuments /\ SameRecommendations

\* Every document that a tool has returned is listed, and once for that tool:
\* those of its aggregated list, or of every one of its query steps.
DocumentsOnce ==
  \A i \in Finished : \A order \in Orders(ResultOf(i).steps) :
    LET result == ResultOf(i)
        refs == ExtractReferences(result, order)
        lists == <<result.nested, result.direct, result.summary, Collected(result.steps, order)>>
    IN \A n \in 1 .. 4 : (\A m \in 1 .. n - 1 : lists[m] = <<>>) =>
         \A r \in ToSet(lists[n]) \ {R5} : Count(refs, Key(r)) = 1

\* A step that a listed message shows was shown while it ran: the execute
\* flags and the result say together what was executed (agent.go:436-563).
ListedStepsWereStreamed == ~ failed => ListedSteps \subseteq stepsSent
=============================================================================
