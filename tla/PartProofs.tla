------------------------------ MODULE PartProofs ------------------------------
(***************************************************************************)
(* Proofs about three of the parts that Parts checks together: what an     *)
(* answer's tools contribute (Answers, for any number of tools), the       *)
(* pause's timers (PauseTimers, for timers of any length) and feedback     *)
(* (Feedback, for any users and messages).                                 *)
(***************************************************************************)
EXTENDS Parts, Recursion

-----------------------------------------------------------------------------
(***************************************************************************)
(* Answers.                                                                *)
(***************************************************************************)

\* Whatever a tool may return; the steps are told apart without looking inside.
AllResults == UNION {Results(t) : t \in [kind : {"plain", "workflow"}, started : SUBSET StepDefs]}

AnswerTypeOK ==
  /\ tool \in [Tools -> [kind : {"none", "plain", "workflow"}, flags : SUBSET QuerySteps,
                         started : SUBSET StepDefs, result : {<<>>} \cup {<<r>> : r \in AllResults}]]
  /\ failed \in BOOLEAN

\* A call ends when its steps have run, and what it did so far has been told.
ToolState(i) ==
  /\ tool[i].kind = "none" => tool[i].result = <<>>
  /\ tool[i].kind = "workflow" /\ tool[i].result # <<>> => Required(tool[i]) \subseteq tool[i].started
  /\ ~ failed =>
       /\ tool[i].kind = "plain" => <<i, "call">> \in stepsSent
       /\ \A s \in tool[i].started : <<i, s>> \in stepsSent

AnswerInv == AnswerTypeOK /\ \A i \in Tools : ToolState(i)

-----------------------------------------------------------------------------
\* A tool returns one of them.
LEMMA ResultsTyped ==
  ASSUME NEW t, t.kind \in {"plain", "workflow"}, t.started \in SUBSET StepDefs
  PROVE  Results(t) \subseteq AllResults
<1> DEFINE u == [kind |-> t.kind, started |-> t.started]
<1>1. u \in [kind : {"plain", "workflow"}, started : SUBSET StepDefs]
  OBVIOUS
<1>2. Results(u) = Results(t)
  BY DEF Results
<1> QED
  BY <1>1, <1>2 DEF AllResults

\* No tool has been called.
LEMMA InitAnswer == AnswerInit => AnswerInv
<1> SUFFICES ASSUME AnswerInit PROVE AnswerInv
  OBVIOUS
<1>1. NotCalled \in [kind : {"none", "plain", "workflow"}, flags : SUBSET QuerySteps,
                     started : SUBSET StepDefs, result : {<<>>} \cup {<<r>> : r \in AllResults}]
  BY DEF NotCalled
<1>2. AnswerTypeOK
  BY <1>1 DEF AnswerInit, AnswerTypeOK
<1>3. ASSUME NEW i \in Tools PROVE ToolState(i)
  BY DEF AnswerInit, NotCalled, ToolState
<1> QED
  BY <1>2, <1>3 DEF AnswerInv

\* A call starts, runs a step or ends, and leaves every other call alone.
LEMMA NextAnswer == AnswerInv /\ [AnswerNext]_answerVars => AnswerInv'
<1> SUFFICES ASSUME AnswerInv, [AnswerNext]_answerVars
             PROVE  AnswerInv'
  OBVIOUS
<1> USE DEF AnswerInv, AnswerTypeOK
<1>1. ASSUME NEW i \in Tools, ToolCall(i)
      PROVE  AnswerInv'
  <2>1. PICK k \in {"plain", "workflow"}, flags \in SUBSET QuerySteps :
          /\ tool' = [tool EXCEPT ![i] =
               [kind |-> k, flags |-> flags, started |-> {}, result |-> <<>>]]
          /\ stepsSent \subseteq stepsSent'
          /\ k = "plain" /\ ~ failed => <<i, "call">> \in stepsSent'
          /\ UNCHANGED failed
    <3>1. tool[i] = [kind |-> "none", flags |-> {}, started |-> {}, result |-> <<>>]
      BY <1>1 DEF ToolCall, NotCalled
    <3> QED
      BY <1>1, <3>1 DEF ToolCall
  <2>2. AnswerTypeOK'
    BY <2>1
  <2>3. ASSUME NEW j \in Tools PROVE ToolState(j)'
    BY <2>1 DEF ToolState
  <2> QED
    BY <2>2, <2>3
<1>2. ASSUME NEW i \in Tools, NEW s \in StepDefs, StepStart(i, s)
      PROVE  AnswerInv'
  <2>1. /\ tool' = [tool EXCEPT ![i].started = @ \cup {s}]
        /\ tool[i].result = <<>> /\ tool[i].kind = "workflow"
        /\ stepsSent \subseteq stepsSent'
        /\ ~ failed => <<i, s>> \in stepsSent'
        /\ UNCHANGED failed
    BY <1>2 DEF StepStart, Running
  <2>2. AnswerTypeOK'
    BY <2>1
  <2>3. ASSUME NEW j \in Tools PROVE ToolState(j)'
    BY <2>1 DEF ToolState
  <2> QED
    BY <2>2, <2>3
<1>3. ASSUME NEW i \in Tools, ToolResult(i)
      PROVE  AnswerInv'
  <2>1. PICK result \in Results(tool[i]) : tool' = [tool EXCEPT ![i].result = <<result>>]
    BY <1>3 DEF ToolResult
  <2>2. /\ tool[i].kind \in {"plain", "workflow"}
        /\ tool[i].kind = "workflow" => Required(tool[i]) \subseteq tool[i].started
        /\ UNCHANGED <<stepsSent, failed>>
    BY <1>3 DEF ToolResult, Running
  <2>3. result \in AllResults
    BY <2>2, ResultsTyped
  <2>4. AnswerTypeOK'
    BY <2>1, <2>2, <2>3
  <2>5. ASSUME NEW j \in Tools PROVE ToolState(j)'
    BY <2>1, <2>2 DEF ToolState, Required
  <2> QED
    BY <2>4, <2>5
<1>4. CASE ErrorChunk \/ UNCHANGED answerVars
  BY <1>4 DEF ErrorChunk, answerVars, ToolState, Required
<1> QED
  BY <1>1, <1>2, <1>3, <1>4 DEF AnswerNext

\* Every call of an answer is in one of the states above.
THEOREM AnswerInvariant == AnswerSpec => []AnswerInv
  BY InitAnswer, NextAnswer, PTL DEF AnswerSpec

\* A step that a listed message shows was shown while it ran, although the list
\* reads it off the execute flags and the result (agent.go:436-563).
THEOREM StepsWereStreamed == AnswerSpec => []ListedStepsWereStreamed
<1>1. ASSUME AnswerInv, ~ failed PROVE ListedSteps \subseteq stepsSent
  <2> SUFFICES ASSUME NEW i \in Finished,
                      NEW x \in IF tool[i].kind = "plain" THEN {<<i, "call">>}
                                ELSE {<<i, s>> : s \in ExtractWorkflowSteps(tool[i].flags, ResultOf(i))}
               PROVE  x \in stepsSent
    BY DEF ListedSteps
  <2>1. /\ i \in Tools /\ tool[i].result # <<>> /\ ToolState(i)
        /\ tool[i].kind \in {"plain", "workflow"}
    BY <1>1 DEF AnswerInv, AnswerTypeOK, ToolState, Finished
  <2>2. CASE tool[i].kind = "plain"
    BY <1>1, <2>1, <2>2 DEF ToolState
  <2>3. CASE tool[i].kind = "workflow"
    <3>1. PICK s \in ExtractWorkflowSteps(tool[i].flags, ResultOf(i)) : x = <<i, s>>
      BY <2>3
    <3>2. s \in Required(tool[i])
      BY <3>1 DEF ExtractWorkflowSteps, StepDefs, Required
    <3> QED
      BY <1>1, <2>1, <2>3, <3>1, <3>2 DEF ToolState
  <2> QED
    BY <2>1, <2>2, <2>3
<1>2. AnswerInv => ListedStepsWereStreamed
  BY <1>1 DEF ListedStepsWereStreamed
<1> QED
  BY <1>2, AnswerInvariant, PTL

\* DeduplicateRefs looks at one raw reference after the other.
LEMMA DeduplicateIsFold ==
  ASSUME NEW R, NEW raw \in Seq(R)
  PROVE  \E acc \in [0 .. Len(raw) -> Seq(R)] :
           /\ acc[0] = <<>> /\ acc[Len(raw)] = DeduplicateRefs(raw)
           /\ \A k \in 1 .. Len(raw) : acc[k] = Keep(acc[k - 1], raw[k])
<1> DEFINE N == Len(raw)
           step == [x \in Seq(R) \X (1 .. N) |-> Keep(x[1], raw[x[2]])]
<1>1. N \in Nat /\ DOMAIN raw = 1 .. N
  OBVIOUS
<1>2. ASSUME NEW refs \in Seq(R), NEW k \in 1 .. N
      PROVE  Keep(refs, raw[k]) \in Seq(R)
  <2>1. raw[k] \in R
    BY ElementOfSeq
  <2>2. Append(refs, raw[k]) \in Seq(R)
    BY <2>1
  <2> QED
    BY <2>2, Zenon DEF Keep
<1>3. step \in [Seq(R) \X (1 .. N) -> Seq(R)] /\ <<>> \in Seq(R)
  BY <1>2
<1>4. PICK f : IsFold(f, Seq(R), <<>>, N, step)
  <2> HIDE DEF N, step
  <2> QED
    BY <1>1, <1>3, FoldExists, Zenon
<1>5. /\ f \in [SUBSET (1 .. N) -> Seq(R)]
      /\ \A d \in SUBSET (1 .. N) : f[d] = IF d = {} THEN <<>> ELSE step[<<f[d \ {Max(d)}], Max(d)>>]
  <2> HIDE DEF N, step
  <2> QED
    BY <1>4, Zenon DEF IsFold
<1>6. f = [d \in SUBSET (1 .. N) |-> IF d = {} THEN <<>> ELSE Keep(f[d \ {Max(d)}], raw[Max(d)])]
  <2> SUFFICES ASSUME NEW d \in SUBSET (1 .. N), d # {}
               PROVE  step[<<f[d \ {Max(d)}], Max(d)>>] = Keep(f[d \ {Max(d)}], raw[Max(d)])
    BY <1>5
  <2>1. Max(d) \in 1 .. N
    BY <1>1, MaxOfSome
  <2> QED
    BY <1>5, <2>1
<1> DEFINE iter == CHOOSE g : g = [d \in SUBSET DOMAIN raw |->
                                  IF d = {} THEN <<>> ELSE Keep(g[d \ {Max(d)}], raw[Max(d)])]
<1>7. iter = [d \in SUBSET DOMAIN raw |-> IF d = {} THEN <<>> ELSE Keep(iter[d \ {Max(d)}], raw[Max(d)])]
  <2> HIDE DEF N, step
  <2> QED
    BY <1>1, <1>6
<1>8. DeduplicateRefs(raw) = iter[DOMAIN raw]
  BY DEF DeduplicateRefs, FoldLeft, MapThenFoldSet
<1> DEFINE acc == [k \in 0 .. N |-> iter[1 .. k]]
<1>9. /\ acc = [k \in 0 .. N |-> acc[k]]
      /\ acc[0] = <<>> /\ acc[N] = DeduplicateRefs(raw)
  <2> HIDE DEF iter
  <2>1. 1 .. 0 = {} /\ 0 \in 0 .. N /\ N \in 0 .. N
    BY <1>1
  <2> QED
    BY <1>1, <1>7, <1>8, <2>1
<1>10. ASSUME NEW k \in 1 .. N
       PROVE  acc[k] = Keep(acc[k - 1], raw[k])
  <2>1. Max(1 .. k) = k /\ (1 .. k) \ {k} = 1 .. k - 1
    BY FirstNumbers
  <2>2. 1 .. k \in SUBSET DOMAIN raw /\ 1 .. k # {} /\ k \in 0 .. N /\ k - 1 \in 0 .. N
    <3> HIDE DEF N
    <3>1. k \in 1 .. k /\ \A j \in 1 .. k : j \in 1 .. N
      BY <1>1
    <3> QED
      BY <1>1, <3>1
  <2> HIDE DEF iter
  <2> QED
    BY <1>7, <2>1, <2>2
<1>11. IsRun(acc, Seq(R), <<>>, N, step)
  <2>1. \A k \in 1 .. N : acc[k - 1] \in Seq(R) => acc[k] = step[<<acc[k - 1], k>>]
    <3> HIDE DEF acc
    <3> QED
      BY <1>10
  <2> HIDE DEF acc, N, step
  <2> QED
    BY <1>1, <1>3, <1>9, <2>1, StepsAreRun
<1> HIDE DEF acc
<1> QED
  BY <1>1, <1>9, <1>10, <1>11 DEF IsRun

\* Each key is kept once, every key but the empty one is kept, and no other is.
LEMMA KeysKeptOnce ==
  ASSUME NEW R, NEW raw \in Seq(R)
  PROVE  LET refs == DeduplicateRefs(raw) IN
         /\ refs \in Seq(R)
         /\ \A i, j \in DOMAIN refs : Key(refs[i]) = Key(refs[j]) => i = j
         /\ \A n \in DOMAIN raw : Key(raw[n]) # "" => \E i \in DOMAIN refs : Key(refs[i]) = Key(raw[n])
         /\ \A i \in DOMAIN refs : \E n \in DOMAIN raw : refs[i] = raw[n]
<1> DEFINE N == Len(raw)
           Good(refs, k) ==
             /\ refs \in Seq(R)
             /\ \A i, j \in DOMAIN refs : Key(refs[i]) = Key(refs[j]) => i = j
             /\ \A n \in 1 .. k : Key(raw[n]) # "" => \E i \in DOMAIN refs : Key(refs[i]) = Key(raw[n])
             /\ \A i \in DOMAIN refs : \E n \in DOMAIN raw : refs[i] = raw[n]
<1>1. N \in Nat /\ DOMAIN raw = 1 .. N
  OBVIOUS
<1>2. PICK acc \in [0 .. N -> Seq(R)] :
        /\ acc[0] = <<>> /\ acc[N] = DeduplicateRefs(raw)
        /\ \A k \in 1 .. N : acc[k] = Keep(acc[k - 1], raw[k])
  BY DeduplicateIsFold
<1>3. ASSUME NEW k \in 1 .. N, NEW refs, Good(refs, k - 1)
      PROVE  Good(Keep(refs, raw[k]), k)
  <2>0. raw[k] \in R /\ \A n \in 1 .. k : n = k \/ n \in 1 .. k - 1
    BY <1>1
  <2>1. CASE Key(raw[k]) = "" \/ \E i \in DOMAIN refs : Key(refs[i]) = Key(raw[k])
    <3>1. Keep(refs, raw[k]) = refs
      BY <2>1 DEF Keep
    <3> QED
      BY <1>3, <2>0, <2>1, <3>1
  <2>2. CASE ~ (Key(raw[k]) = "" \/ \E i \in DOMAIN refs : Key(refs[i]) = Key(raw[k]))
    <3> DEFINE more == Append(refs, raw[k])
    <3>1. Keep(refs, raw[k]) = more
      BY <2>2 DEF Keep
    <3>2. /\ more \in Seq(R) /\ DOMAIN refs = 1 .. Len(refs) /\ DOMAIN more = 1 .. Len(refs) + 1
          /\ Len(refs) \in Nat
          /\ more[Len(refs) + 1] = raw[k] /\ \A i \in DOMAIN refs : more[i] = refs[i]
      <4>1. refs \in Seq(R)
        BY <1>3
      <4> QED
        BY <2>0, <4>1, AppendProperties
    <3> HIDE DEF more
    <3>3. ASSUME NEW i \in DOMAIN more, NEW j \in DOMAIN more, Key(more[i]) = Key(more[j])
          PROVE  i = j
      <4>1. \A h \in DOMAIN more : h = Len(refs) + 1 \/ h \in DOMAIN refs
        BY <3>2
      <4>2. CASE i \in DOMAIN refs /\ j \in DOMAIN refs
        BY <1>3, <3>2, <3>3, <4>2
      <4>3. CASE i \in DOMAIN refs /\ j = Len(refs) + 1
        BY <2>2, <3>2, <3>3, <4>3
      <4>4. CASE i = Len(refs) + 1 /\ j \in DOMAIN refs
        BY <2>2, <3>2, <3>3, <4>4
      <4> QED
        BY <4>1, <4>2, <4>3, <4>4
    <3>4. ASSUME NEW n \in 1 .. k, Key(raw[n]) # ""
          PROVE  \E i \in DOMAIN more : Key(more[i]) = Key(raw[n])
      <4>1. CASE n = k
        <5>1. Len(refs) + 1 \in DOMAIN more
          BY <3>2
        <5> QED
          BY <3>2, <4>1, <5>1
      <4>2. CASE n \in 1 .. k - 1
        <5>1. PICK i \in DOMAIN refs : Key(refs[i]) = Key(raw[n])
          BY <1>3, <3>4, <4>2
        <5>2. i \in DOMAIN more /\ more[i] = refs[i]
          BY <3>2
        <5> QED
          BY <5>1, <5>2
      <4> QED
        BY <2>0, <4>1, <4>2
    <3>6. ASSUME NEW i \in DOMAIN more PROVE \E n \in DOMAIN raw : more[i] = raw[n]
      <4>1. k \in DOMAIN raw /\ (i = Len(refs) + 1 \/ i \in DOMAIN refs)
        BY <1>1, <3>2
      <4>2. CASE i = Len(refs) + 1
        BY <3>2, <4>1, <4>2
      <4>3. CASE i \in DOMAIN refs
        <5>1. PICK n \in DOMAIN raw : refs[i] = raw[n]
          BY <1>3, <4>3
        <5> QED
          BY <3>2, <4>3, <5>1
      <4> QED
        BY <4>1, <4>2, <4>3
    <3>5. Good(more, k)
      BY <3>2, <3>3, <3>4, <3>6
    <3> HIDE DEF Good
    <3> QED
      BY <3>1, <3>5
  <2> QED
    BY <2>1, <2>2
<1> DEFINE P == {k \in Nat : k <= N => Good(acc[k], k)}
<1>4. 0 \in P
  <2>1. acc[0] = <<>> /\ DOMAIN acc[0] = {} /\ 1 .. 0 = {} /\ acc[0] \in Seq(R)
    BY <1>2
  <2>2. Good(acc[0], 0)
    BY <2>1
  <2> HIDE DEF Good
  <2> QED
    BY <2>2
<1> HIDE DEF Good
<1>5. ASSUME NEW k \in Nat, k \in P PROVE k + 1 \in P
  <2> SUFFICES ASSUME k + 1 <= N PROVE Good(acc[k + 1], k + 1)
    OBVIOUS
  <2>1. k + 1 \in 1 .. N /\ (k + 1) - 1 = k /\ k <= N
    BY <1>1
  <2>2. Good(acc[k], k)
    BY <1>5, <2>1
  <2>3. acc[k + 1] = Keep(acc[k], raw[k + 1])
    BY <1>2, <2>1
  <2> QED
    BY <1>3, <2>1, <2>2, <2>3
<1>6. Good(acc[N], N)
  <2> HIDE DEF P
  <2>1. N \in P
    BY <1>1, <1>4, <1>5, Induction
  <2> QED
    BY <1>1, <2>1 DEF P
<1> QED
  BY <1>1, <1>2, <1>6 DEF Good

\* So a key counts once among the kept references if a raw one has it, and
\* otherwise not at all.
LEMMA CountedOnce ==
  ASSUME NEW R, NEW raw \in Seq(R), NEW key, key # ""
  PROVE  /\ DeduplicateRefs(raw) \in Seq(R)
         /\ Count(DeduplicateRefs(raw), key) = IF \E r \in ToSet(raw) : Key(r) = key THEN 1 ELSE 0
<1> DEFINE refs == DeduplicateRefs(raw)
<1>1. /\ refs \in Seq(R)
      /\ \A i, j \in DOMAIN refs : Key(refs[i]) = Key(refs[j]) => i = j
      /\ \A n \in DOMAIN raw : Key(raw[n]) # "" => \E i \in DOMAIN refs : Key(refs[i]) = Key(raw[n])
      /\ \A i \in DOMAIN refs : \E n \in DOMAIN raw : refs[i] = raw[n]
  BY KeysKeptOnce
<1> HIDE DEF refs
<1>2. CASE \E r \in ToSet(raw) : Key(r) = key
  <2>1. PICK n \in DOMAIN raw : Key(raw[n]) = key
    BY <1>2 DEF ToSet
  <2>2. PICK i \in DOMAIN refs : Key(refs[i]) = key
    BY <1>1, <2>1
  <2>3. {j \in DOMAIN refs : Key(refs[j]) = key} = {i}
    BY <1>1, <2>2
  <2>4. Cardinality({i}) = 1
    BY FS_Singleton
  <2> QED
    BY <1>1, <1>2, <2>3, <2>4 DEF Count, refs
<1>3. CASE ~ \E r \in ToSet(raw) : Key(r) = key
  <2>1. ASSUME NEW j \in DOMAIN refs, Key(refs[j]) = key PROVE FALSE
    <3>1. PICK n \in DOMAIN raw : refs[j] = raw[n]
      BY <1>1
    <3> QED
      BY <1>3, <2>1, <3>1 DEF ToSet
  <2>2. {j \in DOMAIN refs : Key(refs[j]) = key} = {}
    BY <2>1
  <2> QED
    BY <1>1, <1>3, <2>2, FS_EmptySet DEF Count, refs
<1> QED
  BY <1>2, <1>3

\* Every reference a tool returns.
RefSet == {R1, R2, R3, R4, R5}

\* The lists of a result hold nothing else.
LEMMA ResultFields ==
  ASSUME NEW r \in AllResults
  PROVE  /\ r.nested \in Seq(RefSet) /\ r.direct \in Seq(RefSet) /\ r.summary \in Seq(RefSet)
         /\ \A s \in DOMAIN r.steps \cap QuerySteps : r.steps[s] \in Seq(RefSet)
<1>0. RefLists \subseteq Seq(RefSet) /\ <<>> \in Seq(RefSet) /\ <<R1, R4>> \in Seq(RefSet)
  BY DEF RefLists, RefSet
<1>1. PICK t \in [kind : {"plain", "workflow"}, started : SUBSET StepDefs] : r \in Results(t)
  BY DEF AllResults
<1>2. CASE t.kind = "plain"
  <2>1. PICK refs \in RefLists, recs \in Recs : r = Plain(refs, recs)
    BY <1>1, <1>2 DEF Results
  <2> QED
    BY <1>0, <2>1 DEF Plain
<1>3. CASE t.kind # "plain"
  <2>1. r \in Workflow(t.started)
    BY <1>1, <1>3 DEF Results
  <2>2. \/ /\ r.nested = <<>> /\ r.direct = <<>> /\ r.summary \in {<<>>, <<R1, R4>>}
           /\ \E lists \in [t.started \cap QuerySteps -> RefLists] :
                r.steps = [s \in t.started \cup {"prepare-step"} |-> IF s \in QuerySteps THEN lists[s] ELSE <<>>]
        \/ r.nested \in RefLists /\ r.direct = <<>> /\ r.summary = <<>> /\ r.steps = <<>>
    BY <2>1 DEF Workflow
  <2>3. CASE r.nested \in RefLists /\ r.direct = <<>> /\ r.summary = <<>> /\ r.steps = <<>>
    BY <1>0, <2>3
  <2>4. ASSUME r.nested = <<>>, r.direct = <<>>, r.summary \in {<<>>, <<R1, R4>>},
               NEW lists \in [t.started \cap QuerySteps -> RefLists],
               r.steps = [s \in t.started \cup {"prepare-step"} |-> IF s \in QuerySteps THEN lists[s] ELSE <<>>]
        PROVE  /\ r.nested \in Seq(RefSet) /\ r.direct \in Seq(RefSet) /\ r.summary \in Seq(RefSet)
               /\ \A s \in DOMAIN r.steps \cap QuerySteps : r.steps[s] \in Seq(RefSet)
    <3>1. \A s \in DOMAIN r.steps \cap QuerySteps : s \in t.started \/ s = "prepare-step"
      BY <2>4
    <3>2. "prepare-step" \notin QuerySteps
      BY DEF QuerySteps
    <3> QED
      BY <1>0, <2>4, <3>1, <3>2
  <2> QED
    BY <2>2, <2>3, <2>4
<1> QED
  BY <1>2, <1>3

\* What is collected from query steps is all of theirs, in any order.
LEMMA OrdersTyped ==
  ASSUME NEW steps, NEW order \in Orders(steps),
         \A s \in DOMAIN steps \cap QuerySteps : steps[s] \in Seq(RefSet)
  PROVE  /\ Collected(steps, order) \in Seq(RefSet)
         /\ ToSet(Collected(steps, order)) = UNION {ToSet(steps[s]) : s \in DOMAIN steps \cap QuerySteps}
<1> DEFINE S == DOMAIN steps \cap QuerySteps
           N == Cardinality(S)
<1>1. IsFiniteSet(QuerySteps)
  <2>1. QuerySteps = ({} \cup {"query-medical-step"}) \cup {"query-drug-step"}
    BY DEF QuerySteps
  <2> QED
    BY <2>1, FS_EmptySet, FS_AddElement
<1>2. IsFiniteSet(S) /\ N \in Nat
  <2>1. IsFiniteSet(S)
    BY <1>1, FS_Subset
  <2> QED
    BY <2>1, FS_CardinalityType
<1>3. order \in [1 .. N -> S] /\ \A i, j \in 1 .. N : i # j => order[i] # order[j]
  BY DEF Orders, SetToSeqs
<1> DEFINE seqs == [i \in DOMAIN order |-> steps[order[i]]]
<1>4. seqs \in [1 .. N -> Seq(RefSet)] /\ Collected(steps, order) = FlattenSeq(seqs)
  BY <1>3 DEF Collected
<1>5. ASSUME NEW s \in S PROVE \E i \in 1 .. N : order[i] = s
  <2> SUFFICES ASSUME \A i \in 1 .. N : order[i] # s PROVE FALSE
    OBVIOUS
  <2> HIDE DEF S, N
  <2>1. order \in Injection(1 .. N, S \ {s})
    BY <1>3 DEF Injection, IsInjective
  <2>2. IsFiniteSet(S \ {s}) /\ Cardinality(S \ {s}) = N - 1
    BY <1>2, FS_RemoveElement DEF N
  <2>3. Cardinality(1 .. N) <= Cardinality(S \ {s})
    BY <2>1, <2>2, FS_Injection
  <2>4. Cardinality(1 .. N) = N
    <3>1. 1 \in Int /\ N \in Int
      BY <1>2
    <3>2. Cardinality(1 .. N) = IF 1 > N THEN 0 ELSE N - 1 + 1
      BY <3>1, FS_Interval
    <3> QED
      BY <1>2, <3>2
  <2> QED
    BY <1>2, <2>2, <2>3, <2>4
<1>6. ToSet(FlattenSeq(seqs)) = UNION {ToSet(seqs[i]) : i \in 1 .. N} /\ FlattenSeq(seqs) \in Seq(RefSet)
  <2> HIDE DEF seqs, N
  <2> QED
    BY <1>2, <1>4, FlattenTyped
<1>7. {ToSet(seqs[i]) : i \in 1 .. N} = {ToSet(steps[s]) : s \in S}
  <2>1. \A i \in 1 .. N : order[i] \in S /\ seqs[i] = steps[order[i]]
    BY <1>3
  <2> HIDE DEF S, N, seqs
  <2> QED
    BY <1>5, <2>1
<1> QED
  BY <1>4, <1>6, <1>7

\* A document is listed for the tool that returned it, and once.
THEOREM DocumentsListedOnce == AnswerSpec => []DocumentsOnce
<1>1. ASSUME AnswerInv, NEW i \in Finished, NEW order \in Orders(ResultOf(i).steps), NEW n \in 1 .. 4
      PROVE  LET result == ResultOf(i)
                 refs == ExtractReferences(result, order)
                 lists == <<result.nested, result.direct, result.summary, Collected(result.steps, order)>>
             IN (\A m \in 1 .. n - 1 : lists[m] = <<>>) =>
                  \A r \in ToSet(lists[n]) \ {R5} : Count(refs, Key(r)) = 1
  <2> DEFINE result == ResultOf(i)
             lists == <<result.nested, result.direct, result.summary, Collected(result.steps, order)>>
  <2> SUFFICES ASSUME \A m \in 1 .. n - 1 : lists[m] = <<>>, NEW r \in ToSet(lists[n]), r # R5
               PROVE  Count(ExtractReferences(result, order), Key(r)) = 1
    OBVIOUS
  <2>1. result \in AllResults
    BY <1>1 DEF AnswerInv, AnswerTypeOK, Finished, ResultOf
  <2> HIDE DEF result
  <2>2. lists \in Seq(Seq(RefSet)) /\ Len(lists) = 4
    <3>1. /\ result.nested \in Seq(RefSet) /\ result.direct \in Seq(RefSet) /\ result.summary \in Seq(RefSet)
          /\ Collected(result.steps, order) \in Seq(RefSet)
      BY <2>1, ResultFields, OrdersTyped DEF result
    <3> QED
      BY <3>1
  <2>3. lists[n] \in Seq(RefSet) /\ lists[n] # <<>>
    BY <2>2 DEF ToSet
  <2>4. ExtractReferences(result, order) = DeduplicateRefs(lists[n])
    BY <2>2, <2>3 DEF ExtractReferences
  <2>5. r \in RefSet
    BY <2>3, ElementOfSeq DEF ToSet
  <2>6. Key(r) # ""
    <3>1. Key(R1) # "" /\ Key(R2) # "" /\ Key(R3) # "" /\ Key(R4) # ""
      BY DEF R1, R2, R3, R4, Ref, Key
    <3> QED
      BY <2>5, <3>1 DEF RefSet
  <2> QED
    <3>1. Count(DeduplicateRefs(lists[n]), Key(r)) = 1
      BY <2>3, <2>6, CountedOnce
    <3> QED
      BY <2>4, <3>1
<1>2. AnswerInv => DocumentsOnce
  BY <1>1, Zenon DEF DocumentsOnce
<1> QED
  BY <1>2, AnswerInvariant, PTL

\* The documents of a result, in no order.
Documents(result) ==
  IF result.nested # <<>> THEN ToSet(result.nested)
  ELSE IF result.direct # <<>> THEN ToSet(result.direct)
  ELSE IF result.summary # <<>> THEN ToSet(result.summary)
  ELSE UNION {ToSet(result.steps[s]) : s \in DOMAIN result.steps \cap QuerySteps}

\* What each tool that has ended adds to the list: one reference with this key
\* or none, and its recommendations by their places.
RefsAdded(key) ==
  [i \in Tools |-> IF i \in Finished /\ \E r \in Documents(ResultOf(i)) : Key(r) = key THEN {1} ELSE {}]
RecsAdded ==
  [i \in Tools |-> IF i \in Finished THEN 1 .. Len(ExtractRecommendations(ResultOf(i).recs)) ELSE {}]

\* n things were told of m.
Told(n, m) == IF failed THEN n <= m ELSE n = m

\* What the stream has gathered is what the tools that have ended add, until
\* an error chunk comes.
SentInv ==
  /\ refsSent \in Seq(RefSet) /\ recsSent \in Seq({"rec"})
  /\ \A key \in {"u", "i"} : Told(Count(refsSent, key), Cardinality(PairsOf(RefsAdded(key), NumTools)))
  /\ Told(Len(recsSent), Cardinality(PairsOf(RecsAdded, NumTools)))

\* What is extracted has each key of the documents once, in whatever order Go
\* ranges over the steps.
LEMMA ExtractedOnce ==
  ASSUME NEW result \in AllResults, NEW order \in Orders(result.steps), NEW key, key # ""
  PROVE  /\ ExtractReferences(result, order) \in Seq(RefSet)
         /\ Count(ExtractReferences(result, order), key) =
              IF \E r \in Documents(result) : Key(r) = key THEN 1 ELSE 0
<1> DEFINE collected == Collected(result.steps, order)
<1>1. /\ result.nested \in Seq(RefSet) /\ result.direct \in Seq(RefSet) /\ result.summary \in Seq(RefSet)
      /\ collected \in Seq(RefSet)
      /\ ToSet(collected) = UNION {ToSet(result.steps[s]) : s \in DOMAIN result.steps \cap QuerySteps}
  BY ResultFields, OrdersTyped
<1>2. PICK raw \in Seq(RefSet) :
        ExtractReferences(result, order) = DeduplicateRefs(raw) /\ Documents(result) = ToSet(raw)
  <2> HIDE DEF collected
  <2>1. CASE result.nested # <<>>
    BY <1>1, <2>1, Zenon DEF ExtractReferences, Documents
  <2>2. CASE result.nested = <<>> /\ result.direct # <<>>
    BY <1>1, <2>2, Zenon DEF ExtractReferences, Documents
  <2>3. CASE result.nested = <<>> /\ result.direct = <<>> /\ result.summary # <<>>
    BY <1>1, <2>3, Zenon DEF ExtractReferences, Documents
  <2>4. CASE result.nested = <<>> /\ result.direct = <<>> /\ result.summary = <<>>
    <3>1. ExtractReferences(result, order) = DeduplicateRefs(collected)
      BY <2>4 DEF ExtractReferences, collected
    <3>2. Documents(result) = ToSet(collected)
      BY <1>1, <2>4 DEF Documents
    <3> QED
      BY <1>1, <3>1, <3>2
  <2> QED
    BY <2>1, <2>2, <2>3, <2>4
<1> QED
  BY <1>2, CountedOnce

\* Count is about what a sequence of references has.
LEMMA CountOccurs ==
  ASSUME NEW refs \in Seq(RefSet), NEW key
  PROVE  Count(refs, key) = Occurs(refs, {r \in RefSet : Key(r) = key})
<1>1. {j \in DOMAIN refs : refs[j] \in {r \in RefSet : Key(r) = key}} = {j \in DOMAIN refs : Key(refs[j]) = key}
  BY ElementOfSeq
<1> QED
  BY <1>1 DEF Count, Occurs

\* A tool gives a sequence of recommendations.
LEMMA RecsTyped ==
  ASSUME NEW result \in AllResults
  PROVE  ExtractRecommendations(result.recs) \in Seq({"rec"})
<1>1. PICK t \in [kind : {"plain", "workflow"}, started : SUBSET StepDefs] : result \in Results(t)
  BY DEF AllResults
<1>2. result.recs \in Recs
  <2>0. NoRecs \in Recs
    BY DEF NoRecs, Recs
  <2>1. CASE t.kind = "plain"
    <3>1. PICK refs \in RefLists, recs \in Recs : result = Plain(refs, recs)
      BY <1>1, <2>1 DEF Results
    <3> QED
      BY <3>1 DEF Plain
  <2>2. CASE t.kind # "plain"
    <3>1. result \in Workflow(t.started)
      BY <1>1, <2>2 DEF Results
    <3> QED
      BY <2>0, <3>1 DEF Workflow
  <2> QED
    BY <2>1, <2>2
<1>3. <<>> \in Seq({"rec"}) /\ <<"rec">> \in Seq({"rec"}) /\ <<"rec", "rec">> \in Seq({"rec"})
  OBVIOUS
<1>4. result.recs.direct \in {<<>>, <<"rec">>} /\ result.recs.nested \in {<<>>, <<"rec", "rec">>}
  BY <1>2 DEF Recs
<1> QED
  BY <1>3, <1>4, Zenon DEF ExtractRecommendations

\* The list, told by what each tool adds.
LEMMA ListedCounts ==
  ASSUME AnswerInv
  PROVE  /\ \A order : (\A i \in Finished : order[i] \in Orders(ResultOf(i).steps)) =>
              \A key \in {"u", "i"} : Count(ListedRefs(order), key) = Cardinality(PairsOf(RefsAdded(key), NumTools))
         /\ Len(ListedRecs) = Cardinality(PairsOf(RecsAdded, NumTools))
<1>0. \A i \in Finished : i \in Tools /\ ResultOf(i) \in AllResults
  BY DEF AnswerInv, AnswerTypeOK, Finished, ResultOf
<1>1. ASSUME NEW order, \A i \in Finished : order[i] \in Orders(ResultOf(i).steps),
             NEW key \in {"u", "i"}
      PROVE  Count(ListedRefs(order), key) = Cardinality(PairsOf(RefsAdded(key), NumTools))
  <2> DEFINE seqs == [i \in Tools |-> IF i \in Finished THEN ExtractReferences(ResultOf(i), order[i]) ELSE <<>>]
             K == {r \in RefSet : Key(r) = key}
             W == RefsAdded(key)
  <2>1. ASSUME NEW i \in Tools
        PROVE  seqs[i] \in Seq(RefSet) /\ IsFiniteSet(W[i]) /\ Cardinality(W[i]) = Occurs(seqs[i], K)
    <3>1. CASE i \in Finished
      <4>1. /\ seqs[i] = ExtractReferences(ResultOf(i), order[i])
            /\ W[i] = IF \E r \in Documents(ResultOf(i)) : Key(r) = key THEN {1} ELSE {}
        BY <3>1 DEF RefsAdded
      <4>2. /\ ExtractReferences(ResultOf(i), order[i]) \in Seq(RefSet)
            /\ Count(ExtractReferences(ResultOf(i), order[i]), key) =
                 IF \E r \in Documents(ResultOf(i)) : Key(r) = key THEN 1 ELSE 0
        <5>1. key # ""
          OBVIOUS
        <5> QED
          BY <1>0, <1>1, <3>1, <5>1, ExtractedOnce
      <4>3. Occurs(ExtractReferences(ResultOf(i), order[i]), K) = Count(ExtractReferences(ResultOf(i), order[i]), key)
        BY <4>2, CountOccurs
      <4>4. IsFiniteSet(W[i]) /\ Cardinality(W[i]) = IF \E r \in Documents(ResultOf(i)) : Key(r) = key THEN 1 ELSE 0
        <5>1. IsFiniteSet({}) /\ Cardinality({}) = 0 /\ IsFiniteSet({1}) /\ Cardinality({1}) = 1
          BY FS_EmptySet, FS_Singleton
        <5> HIDE DEF W, seqs, K
        <5>2. CASE \E r \in Documents(ResultOf(i)) : Key(r) = key
          BY <4>1, <5>1, <5>2
        <5>3. CASE ~ \E r \in Documents(ResultOf(i)) : Key(r) = key
          BY <4>1, <5>1, <5>3
        <5> QED
          BY <5>2, <5>3
      <4> HIDE DEF seqs, W, K
      <4> QED
        BY <4>1, <4>2, <4>3, <4>4
    <3>2. CASE i \notin Finished
      <4>1. seqs[i] = <<>> /\ W[i] = {}
        BY <3>2 DEF RefsAdded
      <4>2. {j \in DOMAIN <<>> : <<>>[j] \in K} = {}
        OBVIOUS
      <4> HIDE DEF seqs, W, K
      <4> QED
        BY <4>1, <4>2, FS_EmptySet DEF Occurs
    <3> QED
      BY <3>1, <3>2
  <2>2. seqs \in [1 .. NumTools -> Seq(RefSet)] /\ NumTools \in Nat
    BY <2>1, NumToolsAssumption DEF Tools
  <2>3. ListedRefs(order) = FlattenSeq(seqs)
    BY DEF ListedRefs
  <2>4. Weighs(W, NumTools, seqs, K)
    <3> HIDE DEF seqs, W, K
    <3> QED
      BY <2>1 DEF Tools, Weighs
  <2> HIDE DEF seqs, W
  <2>5. Occurs(FlattenSeq(seqs), K) = Cardinality(PairsOf(W, NumTools))
    <3> HIDE DEF K
    <3> QED
      BY <2>2, <2>4, FlattenOccurs, Zenon
  <2>6. FlattenSeq(seqs) \in Seq(RefSet)
    BY <2>2, FlattenTyped
  <2>7. Count(FlattenSeq(seqs), key) = Occurs(FlattenSeq(seqs), K)
    BY <2>6, CountOccurs
  <2> QED
    BY <2>3, <2>5, <2>7 DEF W
<1>2. Len(ListedRecs) = Cardinality(PairsOf(RecsAdded, NumTools))
  <2> DEFINE seqs == [i \in Tools |-> IF i \in Finished THEN ExtractRecommendations(ResultOf(i).recs) ELSE <<>>]
             R == {"rec"}
  <2>1. ASSUME NEW i \in Tools
        PROVE  /\ seqs[i] \in Seq(R)
               /\ IsFiniteSet(RecsAdded[i]) /\ Cardinality(RecsAdded[i]) = Occurs(seqs[i], R)
    <3>1. CASE i \in Finished
      <4>1. seqs[i] = ExtractRecommendations(ResultOf(i).recs) /\ RecsAdded[i] = 1 .. Len(seqs[i])
        BY <3>1 DEF RecsAdded
      <4>2. seqs[i] \in Seq(R)
        BY <1>0, <3>1, <4>1, RecsTyped
      <4> HIDE DEF seqs
      <4> QED
        BY <4>1, <4>2, OccursAll
    <3>2. CASE i \notin Finished
      <4>1. seqs[i] = <<>> /\ RecsAdded[i] = {}
        BY <3>2 DEF RecsAdded
      <4>2. {j \in DOMAIN <<>> : <<>>[j] \in R} = {}
        OBVIOUS
      <4> HIDE DEF seqs
      <4> QED
        BY <4>1, <4>2, FS_EmptySet DEF Occurs
    <3> QED
      BY <3>1, <3>2
  <2>2. seqs \in [1 .. NumTools -> Seq(R)] /\ NumTools \in Nat
    BY <2>1, NumToolsAssumption DEF Tools
  <2>3. ListedRecs = FlattenSeq(seqs)
    BY DEF ListedRecs
  <2>4. Weighs(RecsAdded, NumTools, seqs, R)
    <3> HIDE DEF seqs, R
    <3> QED
      BY <2>1 DEF Tools, Weighs
  <2> HIDE DEF seqs, R
  <2>5. Occurs(FlattenSeq(seqs), R) = Cardinality(PairsOf(RecsAdded, NumTools))
    BY <2>2, <2>4, FlattenOccurs, Zenon
  <2>6. FlattenSeq(seqs) \in Seq(R)
    BY <2>2, FlattenTyped
  <2>7. Occurs(FlattenSeq(seqs), R) = Len(FlattenSeq(seqs))
    BY <2>6, OccursAll
  <2> QED
    BY <2>3, <2>5, <2>7
<1> QED
  BY <1>1, <1>2

\* What tools add is finite.
LEMMA AddedFinite ==
  ASSUME AnswerInv, NEW key
  PROVE  /\ IsFiniteSet(PairsOf(RefsAdded(key), NumTools)) /\ IsFiniteSet(PairsOf(RecsAdded, NumTools))
         /\ \A i \in Tools : IsFiniteSet(RefsAdded(key)[i]) /\ IsFiniteSet(RecsAdded[i])
<1>1. ASSUME NEW i \in Tools
      PROVE  IsFiniteSet(RefsAdded(key)[i]) /\ IsFiniteSet(RecsAdded[i])
  <2>1. IsFiniteSet({}) /\ IsFiniteSet({1}) /\ RefsAdded(key)[i] \in {{}, {1}}
    BY FS_EmptySet, FS_Singleton DEF RefsAdded
  <2>2. CASE i \in Finished
    <3>1. ExtractRecommendations(ResultOf(i).recs) \in Seq({"rec"})
      BY <2>2, RecsTyped DEF AnswerInv, AnswerTypeOK, Finished, ResultOf
    <3>2. RecsAdded[i] = 1 .. Len(ExtractRecommendations(ResultOf(i).recs))
      BY <2>2 DEF RecsAdded
    <3> QED
      BY <2>1, <3>1, <3>2, OccursAll
  <2>3. CASE i \notin Finished
    <3>1. RecsAdded[i] = {}
      BY <2>3 DEF RecsAdded
    <3> QED
      BY <2>1, <3>1
  <2> QED
    BY <2>2, <2>3
<1>2. NumTools \in Nat /\ Tools = 1 .. NumTools
  BY NumToolsAssumption DEF Tools
<1> QED
  BY <1>1, <1>2, PairsFinite

\* Nothing is added while no tool ends.
LEMMA AddedKept ==
  ASSUME AnswerInv, \A i \in Tools : tool'[i].result = tool[i].result
  PROVE  /\ \A key : RefsAdded(key)' = RefsAdded(key)
         /\ RecsAdded' = RecsAdded
<1>1. Finished' = Finished
  BY DEF Finished
<1>2. \A i \in Finished : ResultOf(i)' = ResultOf(i) /\ i \in Tools
  BY DEF ResultOf, Finished
<1>3. \A key : \A i \in Tools : RefsAdded(key)'[i] = RefsAdded(key)[i]
  BY <1>1, <1>2 DEF RefsAdded
<1>4. \A i \in Tools : RecsAdded'[i] = RecsAdded[i]
  BY <1>1, <1>2 DEF RecsAdded
<1>5. \A key : RefsAdded(key)' = RefsAdded(key)
  BY <1>1, <1>2 DEF RefsAdded
<1>6. RecsAdded' = RecsAdded
  BY <1>1, <1>2 DEF RecsAdded
<1> QED
  BY <1>5, <1>6

\* A tool that ends adds its own, and changes no other's.
LEMMA AddedByResult ==
  ASSUME AnswerInv, NEW i \in Tools, tool[i].result = <<>>, NEW result \in AllResults,
         tool' = [tool EXCEPT ![i].result = <<result>>]
  PROVE  /\ \A key : PairsOf(RefsAdded(key)', NumTools) =
              PairsOf(RefsAdded(key), NumTools) \cup
                ({i} \X (IF \E r \in Documents(result) : Key(r) = key THEN {1} ELSE {}))
         /\ PairsOf(RecsAdded', NumTools) =
              PairsOf(RecsAdded, NumTools) \cup ({i} \X (1 .. Len(ExtractRecommendations(result.recs))))
         /\ \A key, x : <<i, x>> \notin PairsOf(RefsAdded(key), NumTools) /\ <<i, x>> \notin PairsOf(RecsAdded, NumTools)
<1>1. /\ i \notin Finished /\ Finished' = Finished \cup {i}
      /\ ResultOf(i)' = result /\ \A j \in Finished : j \in Tools /\ ResultOf(j)' = ResultOf(j)
  <2>1. tool'[i].result = <<result>> /\ \A j \in Tools \ {i} : tool'[j] = tool[j]
    BY DEF AnswerInv, AnswerTypeOK
  <2> QED
    BY <2>1 DEF Finished, ResultOf
<1>2. Tools = 1 .. NumTools
  BY DEF Tools
<1>3. ASSUME NEW key
      PROVE  /\ RefsAdded(key)' =
                  [RefsAdded(key) EXCEPT ![i] = IF \E r \in Documents(result) : Key(r) = key THEN {1} ELSE {}]
             /\ RefsAdded(key)[i] = {} /\ DOMAIN RefsAdded(key) = Tools
  <2>1. \A j \in Tools : RefsAdded(key)'[j] =
          IF j = i THEN IF \E r \in Documents(result) : Key(r) = key THEN {1} ELSE {} ELSE RefsAdded(key)[j]
    BY <1>1 DEF RefsAdded
  <2> QED
    BY <1>1, <2>1 DEF RefsAdded
<1>4. /\ RecsAdded' = [RecsAdded EXCEPT ![i] = 1 .. Len(ExtractRecommendations(result.recs))]
      /\ RecsAdded[i] = {} /\ DOMAIN RecsAdded = Tools
  <2>1. \A j \in Tools : RecsAdded'[j] =
          IF j = i THEN 1 .. Len(ExtractRecommendations(result.recs)) ELSE RecsAdded[j]
    BY <1>1 DEF RecsAdded
  <2> QED
    BY <1>1, <2>1 DEF RecsAdded
<1>6. ASSUME NEW key
      PROVE  /\ PairsOf(RefsAdded(key)', NumTools) =
                  PairsOf(RefsAdded(key), NumTools) \cup
                    ({i} \X (IF \E r \in Documents(result) : Key(r) = key THEN {1} ELSE {}))
             /\ \A x : <<i, x>> \notin PairsOf(RefsAdded(key), NumTools)
  <2> DEFINE V == RefsAdded(key)
             W == RefsAdded(key)'
             S == IF \E r \in Documents(result) : Key(r) = key THEN {1} ELSE {}
  <2>1. OneMore(V, W, NumTools, i, S)
    BY <1>2, <1>3 DEF OneMore
  <2> HIDE DEF V, W, S
  <2>2. PairsOf(W, NumTools) = PairsOf(V, NumTools) \cup ({i} \X S) /\ \A x : <<i, x>> \notin PairsOf(V, NumTools)
    BY <2>1, PairsOneMore
  <2> QED
    BY <2>2 DEF V, W, S
<1>7. /\ PairsOf(RecsAdded', NumTools) =
           PairsOf(RecsAdded, NumTools) \cup ({i} \X (1 .. Len(ExtractRecommendations(result.recs))))
      /\ \A x : <<i, x>> \notin PairsOf(RecsAdded, NumTools)
  <2> DEFINE V == RecsAdded
             W == RecsAdded'
             S == 1 .. Len(ExtractRecommendations(result.recs))
  <2>1. OneMore(V, W, NumTools, i, S)
    BY <1>2, <1>4 DEF OneMore
  <2> HIDE DEF V, W, S
  <2>2. PairsOf(W, NumTools) = PairsOf(V, NumTools) \cup ({i} \X S) /\ \A x : <<i, x>> \notin PairsOf(V, NumTools)
    BY <2>1, PairsOneMore
  <2> QED
    BY <2>2 DEF V, W, S
<1> QED
  BY <1>6, <1>7, Zenon

\* n and c are added to what was told and to what it was told of.
LEMMA ToldMore ==
  ASSUME NEW n \in Nat, NEW m \in Nat, NEW c \in Nat, Told(n, m), failed \in BOOLEAN, failed' = failed
  PROVE  Told(IF failed THEN n ELSE n + c, m + c)'
  BY DEF Told

\* No tool has ended.
LEMMA InitSent == AnswerInit => SentInv
<1> SUFFICES ASSUME AnswerInit PROVE SentInv
  OBVIOUS
<1>1. refsSent = <<>> /\ recsSent = <<>> /\ Finished = {}
  BY DEF AnswerInit, Finished, NotCalled
<1>2. \A key : PairsOf(RefsAdded(key), NumTools) = {}
  BY <1>1 DEF PairsOf, RefsAdded, Tools
<1>3. PairsOf(RecsAdded, NumTools) = {}
  BY <1>1 DEF PairsOf, RecsAdded, Tools
<1>4. \A key : Count(refsSent, key) = 0
  <2>1. \A key : {j \in DOMAIN refsSent : Key(refsSent[j]) = key} = {}
    BY <1>1
  <2> QED
    BY <2>1, FS_EmptySet DEF Count
<1>5. Len(recsSent) = 0 /\ refsSent \in Seq(RefSet) /\ recsSent \in Seq({"rec"})
  BY <1>1
<1>6. Cardinality({}) = 0 /\ Told(0, 0)
  BY FS_EmptySet DEF Told
<1>7. Told(Len(recsSent), Cardinality(PairsOf(RecsAdded, NumTools)))
  BY <1>3, <1>5, <1>6
<1>8. \A key : Told(Count(refsSent, key), Cardinality(PairsOf(RefsAdded(key), NumTools)))
  BY <1>2, <1>4, <1>6
<1> QED
  BY <1>5, <1>7, <1>8 DEF SentInv

\* The stream gathers what a tool adds when it ends.
LEMMA NextSent == AnswerInv /\ SentInv /\ [AnswerNext]_answerVars => SentInv'
<1> SUFFICES ASSUME AnswerInv, SentInv, [AnswerNext]_answerVars
             PROVE  SentInv'
  OBVIOUS
<1>0. failed \in BOOLEAN
  BY DEF AnswerInv, AnswerTypeOK
<1>1. ASSUME \A i \in Tools : tool'[i].result = tool[i].result, UNCHANGED <<refsSent, recsSent>>,
             failed' = failed \/ failed'
      PROVE  SentInv'
  <2>1. /\ \A key : RefsAdded(key)' = RefsAdded(key)
        /\ RecsAdded' = RecsAdded
    BY <1>1, AddedKept
  <2>2. \A key : Cardinality(PairsOf(RefsAdded(key), NumTools)) \in Nat
    BY AddedFinite, FS_CardinalityType
  <2>3. Cardinality(PairsOf(RecsAdded, NumTools)) \in Nat
    BY AddedFinite, FS_CardinalityType
  <2>4. refsSent \in Seq(RefSet) /\ recsSent \in Seq({"rec"})
    BY DEF SentInv
  <2>5. ASSUME NEW key \in {"u", "i"}
        PROVE  Told(Count(refsSent, key), Cardinality(PairsOf(RefsAdded(key), NumTools)))'
    <3>1. Told(Count(refsSent, key), Cardinality(PairsOf(RefsAdded(key), NumTools)))
      BY DEF SentInv
    <3> QED
      BY <1>0, <1>1, <2>1, <2>2, <3>1 DEF Told, Count
  <2>6. Told(Len(recsSent), Cardinality(PairsOf(RecsAdded, NumTools)))'
    BY <1>0, <1>1, <2>1, <2>3 DEF Told, SentInv
  <2> QED
    BY <1>1, <2>4, <2>5, <2>6 DEF SentInv
<1>2. ASSUME NEW i \in Tools, ToolCall(i) PROVE SentInv'
  <2>1. \A j \in Tools : tool'[j].result = tool[j].result
    BY <1>2 DEF ToolCall, AnswerInv, AnswerTypeOK
  <2> QED
    BY <1>1, <1>2, <2>1 DEF ToolCall
<1>3. ASSUME NEW i \in Tools, NEW s \in StepDefs, StepStart(i, s) PROVE SentInv'
  <2>1. \A j \in Tools : tool'[j].result = tool[j].result
    BY <1>3 DEF StepStart, AnswerInv, AnswerTypeOK
  <2> QED
    BY <1>1, <1>3, <2>1 DEF StepStart
<1>4. ASSUME NEW i \in Tools, ToolResult(i) PROVE SentInv'
  <2>1. PICK result \in Results(tool[i]) :
          /\ tool' = [tool EXCEPT ![i].result = <<result>>]
          /\ recsSent' = IF failed THEN recsSent ELSE recsSent \o ExtractRecommendations(result.recs)
          /\ \E order \in Orders(result.steps) :
               refsSent' = IF failed THEN refsSent ELSE refsSent \o ExtractReferences(result, order)
    BY <1>4 DEF ToolResult
  <2>2. PICK order \in Orders(result.steps) :
          refsSent' = IF failed THEN refsSent ELSE refsSent \o ExtractReferences(result, order)
    BY <2>1
  <2>3. result \in AllResults /\ tool[i].result = <<>> /\ failed' = failed
    BY <1>4, ResultsTyped DEF ToolResult, Running, AnswerInv, AnswerTypeOK
  <2> DEFINE refs == ExtractReferences(result, order)
             recs == ExtractRecommendations(result.recs)
  <2>4. recs \in Seq({"rec"}) /\ refsSent \in Seq(RefSet) /\ recsSent \in Seq({"rec"})
    BY <2>3, RecsTyped DEF SentInv
  <2>7. /\ \A key : PairsOf(RefsAdded(key)', NumTools) =
              PairsOf(RefsAdded(key), NumTools) \cup
                ({i} \X (IF \E r \in Documents(result) : Key(r) = key THEN {1} ELSE {}))
        /\ PairsOf(RecsAdded', NumTools) =
              PairsOf(RecsAdded, NumTools) \cup ({i} \X (1 .. Len(ExtractRecommendations(result.recs))))
        /\ \A key, x : <<i, x>> \notin PairsOf(RefsAdded(key), NumTools) /\ <<i, x>> \notin PairsOf(RecsAdded, NumTools)
    BY <2>1, <2>3, AddedByResult, Zenon
  <2>5. ASSUME NEW key \in {"u", "i"}
        PROVE  Told(Count(refsSent, key), Cardinality(PairsOf(RefsAdded(key), NumTools)))' /\ refsSent' \in Seq(RefSet)
    <3> DEFINE S == IF \E r \in Documents(result) : Key(r) = key THEN {1} ELSE {}
               K == {r \in RefSet : Key(r) = key}
               m == Cardinality(PairsOf(RefsAdded(key), NumTools))
               n == Count(refsSent, key)
               c == Count(refs, key)
    <3>1. refs \in Seq(RefSet) /\ c = IF \E r \in Documents(result) : Key(r) = key THEN 1 ELSE 0
      <4>1. key # ""
        OBVIOUS
      <4> QED
        BY <2>3, <4>1, ExtractedOnce
    <3>2. IsFiniteSet(S) /\ Cardinality(S) = c
      <4>1. IsFiniteSet({}) /\ Cardinality({}) = 0 /\ IsFiniteSet({1}) /\ Cardinality({1}) = 1
        BY FS_EmptySet, FS_Singleton
      <4>2. CASE \E r \in Documents(result) : Key(r) = key
        BY <3>1, <4>1, <4>2
      <4>3. CASE ~ \E r \in Documents(result) : Key(r) = key
        BY <3>1, <4>1, <4>3
      <4> QED
        BY <4>2, <4>3
    <3>3. /\ PairsOf(RefsAdded(key)', NumTools) = PairsOf(RefsAdded(key), NumTools) \cup ({i} \X S)
          /\ \A x : <<i, x>> \notin PairsOf(RefsAdded(key), NumTools)
      BY <2>7
    <3> HIDE DEF S
    <3>4. IsFiniteSet(PairsOf(RefsAdded(key), NumTools))
      BY AddedFinite
    <3>5. m \in Nat /\ Cardinality(PairsOf(RefsAdded(key), NumTools) \cup ({i} \X S)) = m + Cardinality(S)
      BY <3>2, <3>3, <3>4, PairsAdded
    <3> HIDE DEF refs
    <3>6. refsSent \o refs \in Seq(RefSet) /\ n \in Nat /\ c \in Nat /\ Count(refsSent \o refs, key) = n + c
      <4>1. refsSent \o refs \in Seq(RefSet)
        BY <2>4, <3>1
      <4>2. Occurs(refsSent, K) \in Nat /\ Occurs(refs, K) \in Nat /\ Occurs(refsSent \o refs, K) = Occurs(refsSent, K) + Occurs(refs, K)
        <5> HIDE DEF K
        <5> QED
          BY <2>4, <3>1, OccursConcat
      <4>3. n = Occurs(refsSent, K) /\ c = Occurs(refs, K) /\ Count(refsSent \o refs, key) = Occurs(refsSent \o refs, K)
        BY <2>4, <3>1, <4>1, CountOccurs
      <4> QED
        BY <4>1, <4>2, <4>3
    <3>7. refsSent' \in Seq(RefSet) /\ Count(refsSent', key) = IF failed THEN n ELSE n + c
      BY <2>2, <2>4, <3>6 DEF refs
    <3>8. Told(n, m)
      BY DEF SentInv
    <3>9. Count(refsSent, key)' = Count(refsSent', key)
      BY DEF Count, Key
    <3>10. Cardinality(PairsOf(RefsAdded(key), NumTools))' = m + c
      BY <3>2, <3>3, <3>5 DEF PairsOf
    <3> HIDE DEF n, m, c
    <3> QED
      BY <1>0, <2>3, <3>5, <3>6, <3>7, <3>8, <3>9, <3>10 DEF Told
  <2>6. recsSent' \in Seq({"rec"}) /\ Told(Len(recsSent), Cardinality(PairsOf(RecsAdded, NumTools)))'
    <3> DEFINE S == 1 .. Len(recs)
               m == Cardinality(PairsOf(RecsAdded, NumTools))
               n == Len(recsSent)
               c == Len(recs)
    <3>2. IsFiniteSet(S) /\ Cardinality(S) = c
      BY <2>4, OccursAll
    <3>3. /\ PairsOf(RecsAdded', NumTools) = PairsOf(RecsAdded, NumTools) \cup ({i} \X S)
          /\ \A x : <<i, x>> \notin PairsOf(RecsAdded, NumTools)
      BY <2>7
    <3> HIDE DEF S
    <3>4. IsFiniteSet(PairsOf(RecsAdded, NumTools))
      BY AddedFinite
    <3>5. m \in Nat /\ Cardinality(PairsOf(RecsAdded, NumTools) \cup ({i} \X S)) = m + Cardinality(S)
      BY <3>2, <3>3, <3>4, PairsAdded
    <3> HIDE DEF recs
    <3>6. /\ n \in Nat /\ c \in Nat /\ recsSent' \in Seq({"rec"})
          /\ Len(recsSent') = IF failed THEN n ELSE n + c
      BY <2>1, <2>4 DEF recs
    <3>8. Told(n, m)
      BY DEF SentInv
    <3>10. Cardinality(PairsOf(RecsAdded, NumTools))' = m + c
      BY <3>2, <3>3, <3>5 DEF PairsOf
    <3>11. Told(Len(recsSent'), m + c)
      <4> HIDE DEF n, m, c
      <4>1. CASE failed
        BY <1>0, <2>3, <3>5, <3>6, <3>8, <4>1 DEF Told
      <4>2. CASE ~ failed
        BY <1>0, <2>3, <3>5, <3>6, <3>8, <4>2 DEF Told
      <4> QED
        BY <4>1, <4>2
    <3> QED
      BY <1>0, <2>3, <3>6, <3>10, <3>11 DEF Told
  <2> QED
    BY <2>5, <2>6 DEF SentInv
<1>5. CASE ErrorChunk
  BY <1>1, <1>5 DEF ErrorChunk
<1>6. CASE UNCHANGED answerVars
  BY <1>1, <1>6 DEF answerVars
<1> QED
  BY <1>2, <1>3, <1>4, <1>5, <1>6 DEF AnswerNext

\* What the stream has gathered is what the tools add, throughout.
THEOREM SentInvariant == AnswerSpec => []SentInv
<1>1. AnswerInit => AnswerInv /\ SentInv
  BY InitAnswer, InitSent
<1>2. AnswerInv /\ SentInv /\ [AnswerNext]_answerVars => (AnswerInv /\ SentInv)'
  BY NextAnswer, NextSent
<1> QED
  BY <1>1, <1>2, PTL DEF AnswerSpec

\* A client sees the same documents and recommendations while an answer streams
\* and when it lists the messages again (agent.go:575-720).
THEOREM StreamAgreesWithList == AnswerSpec => []StreamAndListAgree
<1>1. AnswerInv /\ SentInv => StreamAndListAgree
  <2> SUFFICES ASSUME AnswerInv, SentInv PROVE SameDocuments /\ SameRecommendations
    BY DEF StreamAndListAgree
  <2>1. SameRecommendations
    BY ListedCounts DEF SameRecommendations, SentInv, Told
  <2>2. ASSUME NEW order, \A i \in Finished : order[i] \in Orders(ResultOf(i).steps), NEW key \in {"u", "i"}
        PROVE  IF failed THEN Count(refsSent, key) <= Count(ListedRefs(order), key)
               ELSE Count(refsSent, key) = Count(ListedRefs(order), key)
    <3>1. Count(ListedRefs(order), key) = Cardinality(PairsOf(RefsAdded(key), NumTools))
      BY <2>2, ListedCounts
    <3>2. Told(Count(refsSent, key), Cardinality(PairsOf(RefsAdded(key), NumTools)))
      BY DEF SentInv
    <3> QED
      BY <3>1, <3>2 DEF Told
  <2>3. SameDocuments
    BY <2>2, Zenon DEF SameDocuments
  <2> QED
    BY <2>1, <2>3
<1> QED
  BY <1>1, AnswerInvariant, SentInvariant, PTL

-----------------------------------------------------------------------------
(***************************************************************************)
(* PauseTimers: pauseAnswerTimeout is long enough for everything but an ID *)
(* token, and a pause whose token comes too late sends no stop.            *)
(***************************************************************************)

TimerTypeOK ==
  /\ clock \in Nat /\ arrived \in Nat /\ since \in Nat /\ stopSince \in Nat /\ waitSince \in Nat
  /\ phase \in {"idle", "waitrun", "lookup", "token", "stop", "over"}
  /\ pausing \in BOOLEAN
  /\ finish \in {"reading", "waiting", "listed", "gaveup"}

\* How long pauseTarget may have taken.
Target == IF pausing THEN PauseWait ELSE RemoteStop

\* No phase is older than its timer allows.
Phases ==
  /\ phase = "waitrun" => since = arrived /\ clock <= arrived + PauseWait
  /\ phase = "lookup" => since = arrived /\ clock <= arrived + RemoteStop
  /\ phase = "token" => since = stopSince
  /\ phase = "stop" => clock <= stopSince + RemoteStop
  /\ phase \in {"token", "stop"} => stopSince <= arrived + Target

\* A stream waits only for a pause that has marked it, and only once it has.
Waits ==
  /\ pausing => phase \in {"token", "stop", "over"}
  /\ phase \in {"token", "stop"} => stopSince <= clock
  /\ finish \in {"waiting", "gaveup"} =>
       pausing /\ (phase \in {"token", "stop"} => stopSince <= waitSince)
  /\ finish = "gaveup" /\ phase = "token" => stopSince + RemoteStop < clock
  /\ NoStopGivenUp

TimerInv == TimerTypeOK /\ Phases /\ Waits

-----------------------------------------------------------------------------
\* Nothing runs before the pause arrives.
LEMMA TimerInitInv == TimerInit => TimerInv
<1> SUFFICES ASSUME TimerInit PROVE TimerInv
  OBVIOUS
<1>1. pausing \in BOOLEAN /\ ~ pausing
  BY Zenon DEF TimerInit
<1> QED
  BY <1>1 DEF TimerInit, TimerInv, TimerTypeOK, Phases, Waits, NoStopGivenUp

\* When the wait for a pause ends its stop has been answered, or is too late.
LEMMA StopEndsFirst ==
  ASSUME TimerInv, finish = "waiting", clock = waitSince + PauseAnswer
  PROVE  \/ phase = "over"
         \/ phase = "token" /\ stopSince + RemoteStop < clock
<1> USE TimersAreNat DEF TimerInv, TimerTypeOK, Phases, Waits, PauseAnswer
<1>1. phase \in {"token", "stop", "over"}
  OBVIOUS
<1>2. ASSUME phase \in {"token", "stop"} PROVE stopSince + RemoteStop < clock
  <2>1. stopSince <= waitSince
    BY <1>2
  <2> QED
    BY <2>1
<1>3. phase = "stop" => clock <= stopSince + RemoteStop
  OBVIOUS
<1> QED
  BY <1>1, <1>2, <1>3

\* Every step keeps the timers' bounds.
LEMMA TimerNextInv == TimerInv /\ [TimerNext]_timerVars => TimerInv'
<1> SUFFICES ASSUME TimerInv, [TimerNext]_timerVars PROVE TimerInv'
  OBVIOUS
<1> USE TimersAreNat DEF TimerInv, TimerTypeOK, Phases, Waits, NoStopGivenUp, Target
<1>1. CASE Tick
  BY <1>1 DEF Tick, Pausing, Deadline
<1>2. CASE Arrive
  BY <1>2 DEF Arrive
<1>3. CASE TargetFound
  <2>1. phase \in {"waitrun", "lookup"} /\ pausing' \in BOOLEAN
    BY <1>3, Zenon DEF TargetFound
  <2>2. pausing' <=> phase = "waitrun"
    BY <1>3, Zenon DEF TargetFound
  <2>3. phase' \in {"token", "over"} /\ finish \notin {"waiting", "gaveup"}
    BY <1>3, <2>1 DEF TargetFound
  <2> QED
    BY <1>3, <2>1, <2>2, <2>3 DEF TargetFound
<1>4. CASE TokenFetched
  BY <1>4 DEF TokenFetched
<1>5. CASE StopAnswered
  BY <1>5 DEF StopAnswered
<1>6. CASE StreamEnds
  BY <1>6 DEF StreamEnds
<1>7. CASE StopSeen
  BY <1>7 DEF StopSeen
<1>8. CASE GiveUp
  BY <1>8, StopEndsFirst DEF GiveUp
<1>9. CASE UNCHANGED timerVars
  BY <1>9 DEF timerVars
<1> QED
  BY <1>1, <1>2, <1>3, <1>4, <1>5, <1>6, <1>7, <1>8, <1>9 DEF TimerNext

\* Clock, deadlines and the wait of the finish list hold together throughout.
THEOREM TimersInvariant == TimerSpec => []TimerInv
  BY TimerInitInv, TimerNextInv, PTL DEF TimerSpec

\* pauseAnswerTimeout covers the wait for the run id or the lookup, and the stop
\* (agent.go:842-844), however long a token takes.
THEOREM PauseBounded == TimerSpec => []OnlyTokensTakeLonger
<1>1. TimerInv => OnlyTokensTakeLonger
  <2> SUFFICES ASSUME TimerInv, Pausing, phase # "token" PROVE clock - arrived <= PauseAnswer
    BY DEF OnlyTokensTakeLonger
  <2> USE TimersAreNat DEF TimerInv, TimerTypeOK, Phases, PauseAnswer, Target
  <2>1. CASE phase \in {"waitrun", "lookup"}
    BY <2>1
  <2>2. CASE phase = "stop"
    BY <2>2
  <2> QED
    BY <2>1, <2>2 DEF Pausing
<1> QED
  BY <1>1, TimersInvariant, PTL

\* The finish list never gives up on a stop that may still be recorded
\* (agent.go:64-77), however long a token takes.
THEOREM WaitIsLongEnough == TimerSpec => []NoStopGivenUp
<1>1. TimerInv => NoStopGivenUp
  BY DEF TimerInv, Waits
<1> QED
  BY <1>1, TimersInvariant, PTL

-----------------------------------------------------------------------------
(***************************************************************************)
(* Feedback.                                                               *)
(***************************************************************************)

\* Rows of feedback, and what each user was told.
FeedbackTypeOK ==
  /\ written \in SUBSET Said
  /\ feedback \in [People \X Said -> Feedbacks \cup {"none"}]
  /\ lastGiven \in [People \X Said -> Feedbacks \cup {"none", "unknown"}]

\* A row is its user's alone, and belongs to a reply.
RowState(u, m) ==
  /\ m \in Questions => feedback[u, m] = "none"
  /\ lastGiven[u, m] \in {feedback[u, m], "unknown"}

FeedbackInv == FeedbackTypeOK /\ \A u \in People, m \in Said : RowState(u, m)

\* Nobody has given any.
LEMMA InitFeedback == FeedbackInit => FeedbackInv
  BY DEF FeedbackInit, FeedbackInv, FeedbackTypeOK, RowState

\* An upsert writes one row, whether or not its answer reaches the user.
LEMMA NextFeedback == FeedbackInv /\ [FeedbackNext]_feedbackVars => FeedbackInv'
<1> SUFFICES ASSUME FeedbackInv, [FeedbackNext]_feedbackVars
             PROVE  FeedbackInv'
  OBVIOUS
<1> USE DEF FeedbackInv, FeedbackTypeOK
<1>1. ASSUME NEW u \in People, NEW m \in Said, NEW f \in Feedbacks,
             UpsertFeedback(u, m, f) \/ UpsertUnanswered(u, m, f)
      PROVE  FeedbackInv'
  <2>1. m \notin Questions
    BY <1>1, SaidAssumption DEF UpsertFeedback, UpsertUnanswered, Matched
  <2>2. /\ feedback' = [feedback EXCEPT ![<<u, m>>] = f]
        /\ lastGiven' = [lastGiven EXCEPT ![<<u, m>>] = f] \/ lastGiven' = [lastGiven EXCEPT ![<<u, m>>] = "unknown"]
        /\ UNCHANGED written
    BY <1>1 DEF UpsertFeedback, UpsertUnanswered, Conflicting
  <2>3. FeedbackTypeOK'
    BY <2>2
  <2>4. ASSUME NEW v \in People, NEW n \in Said PROVE RowState(v, n)'
    BY <2>1, <2>2 DEF RowState
  <2> QED
    BY <2>3, <2>4
<1>2. ASSUME NEW m \in Said, StoreMessage(m) \/ RemoveMessage(m)
      PROVE  FeedbackInv'
  BY <1>2 DEF StoreMessage, RemoveMessage, RowState
<1>3. CASE UNCHANGED feedbackVars
  BY <1>3 DEF feedbackVars, RowState
<1> QED
  BY <1>1, <1>2, <1>3 DEF FeedbackNext

\* The rows and what users were told agree throughout.
THEOREM FeedbackInvariant == FeedbackSpec => []FeedbackInv
  BY InitFeedback, NextFeedback, PTL DEF FeedbackSpec

\* A list shows each user the feedback that user was last told is saved
\* (store/agent.go:320-362).
THEOREM FeedbackIsOnesOwn == FeedbackSpec => []FeedbackIsOwn
<1>1. FeedbackInv => FeedbackIsOwn
  BY SaidAssumption DEF FeedbackInv, FeedbackTypeOK, RowState, FeedbackIsOwn, Shown
<1> QED
  BY <1>1, FeedbackInvariant, PTL

-----------------------------------------------------------------------------
(***************************************************************************)
(* The parts together.                                                     *)
(***************************************************************************)

\* Each part goes on as if it were alone, so that what is proved of a part, here
\* and in TextProofs, holds of the behaviours of Parts that are checked.
THEOREM PartsAreIndependent ==
  PartsSpec => Spec /\ AnswerSpec /\ TokenSpec /\ TimerSpec /\ FeedbackSpec
<1>1. PartsInit => Init /\ AnswerInit /\ TokenInit /\ TimerInit /\ FeedbackInit
  BY DEF PartsInit
<1>2. [PartsNext]_partVars =>
        [Next]_vars /\ [AnswerNext]_answerVars /\ [TokenNext]_tokenVars
        /\ [TimerNext]_timerVars /\ [FeedbackNext]_feedbackVars
  BY DEF PartsNext, partVars
<1> QED
  BY <1>1, <1>2, PTL DEF PartsSpec, Spec, AnswerSpec, TokenSpec, TimerSpec, FeedbackSpec
=============================================================================
