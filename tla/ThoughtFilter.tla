---------------------------- MODULE ThoughtFilter ----------------------------
(***************************************************************************)
(* filterThought (src/service/agent_stream.go): the text deltas of an      *)
(* answer are stripped of <think>...</think> one by one, inThought being   *)
(* carried from each to the next.  pen-gpt cuts the answer into deltas     *)
(* where it likes, also within a tag: a tag is two halves here, and        *)
(* anything else is "text".                                                *)
(***************************************************************************)
EXTENDS Naturals, Sequences, SequencesExt

CONSTANT MaxLength  \* bound on the length of an answer
ASSUME LengthAssumption == MaxLength \in Nat

VARIABLES
  whole,      \* what pen-gpt has sent
  shown,      \* what the client was sent
  inThought,
  intact      \* history: no delta has ended within a tag

vars == <<whole, shown, inThought, intact>>

Opening == <<"<th", "ink>">>
Closing == <<"</th", "ink>">>
Atoms == {"text", "<th", "</th", "ink>"}

-----------------------------------------------------------------------------
\* strings.Index, 0 for -1.
Index(text, tag) ==
  LET at == {i \in 1 .. Len(text) - 1 : SubSeq(text, i, i + 1) = tag}
  IN IF at = {} THEN 0 ELSE Min(at)

Rest(text, i) == SubSeq(text, i + 2, Len(text))

FilterThought_Once(text, in) ==  \* mutant: what follows the first tag is not scanned again
  LET i == Index(text, IF in THEN Closing ELSE Opening) IN
  IF i = 0 THEN [text |-> IF in THEN <<>> ELSE text, inThought |-> in]
  ELSE IF in THEN [text |-> Rest(text, i), inThought |-> FALSE]
  ELSE [text |-> SubSeq(text, 1, i - 1), inThought |-> TRUE]

Deltas == [text : Seq(Atoms), inThought : BOOLEAN]

\* The loop, from what is left of a delta.
Filtered[left \in Deltas] ==
  LET in == left.inThought
      i == Index(left.text, IF in THEN Closing ELSE Opening)
      rest == Filtered[[text |-> Rest(left.text, i), inThought |-> ~ in]]
  IN
  IF i = 0 THEN [text |-> IF in THEN <<>> ELSE left.text, inThought |-> in]
  ELSE [text |-> (IF in THEN <<>> ELSE SubSeq(left.text, 1, i - 1)) \o rest.text,
        inThought |-> rest.inThought]

FilterThought(text, in) == Filtered[[text |-> text, inThought |-> in]]

-----------------------------------------------------------------------------
Init == whole = <<>> /\ shown = <<>> /\ inThought = FALSE /\ intact = TRUE

\* The delta ends a tag that an earlier one began.
Cuts(text) ==
  /\ whole # <<>>
  /\ <<Last(whole), Head(text)>> \in {Opening, Closing}

\* One text-delta chunk that is not empty.
TextDelta(text) ==
  LET filtered == FilterThought(text, inThought) IN
  /\ whole' = whole \o text
  /\ shown' = shown \o filtered.text
  /\ inThought' = filtered.inThought
  /\ intact' = (intact /\ ~ Cuts(text))

Done == Len(whole) = MaxLength /\ UNCHANGED vars

Next == (\E n \in 1 .. MaxLength - Len(whole) : \E text \in [1 .. n -> Atoms] : TextDelta(text)) \/ Done

Spec == Init /\ [][Next]_vars

-----------------------------------------------------------------------------
(***************************************************************************)
(* The reference: the answer as a whole, position by position.             *)
(***************************************************************************)

\* The k-th atom ends a tag.
After(text, k, in) ==
  IF k > 1 /\ SubSeq(text, k - 1, k) = (IF in THEN Closing ELSE Opening) THEN ~ in ELSE in

\* Whether a text is within a thought after its first k atoms, when it begins
\* within one or not.
Inside(text, begins) ==
  LET in[k \in 0 .. Len(text)] == IF k = 0 THEN begins ELSE After(text, k, in[k - 1])
  IN in

\* The k-th atom is outside of thoughts, and not of a tag.
Kept(text, k, in) == ~ in[k - 1] /\ ~ in[k] /\ (k < Len(text) => ~ in[k + 1])

Stripped(text, begins) ==
  LET in == Inside(text, begins)
      kept[k \in 0 .. Len(text)] ==
        IF k = 0 THEN <<>> ELSE IF Kept(text, k, in) THEN Append(kept[k - 1], text[k]) ELSE kept[k - 1]
  IN kept[Len(text)]

\* Filtered delta by delta, the answer shows what it would show filtered as a
\* whole, wherever it is cut but within a tag; and the carried inThought is
\* where the answer stands.
FilterIsExact ==
  intact => shown = Stripped(whole, FALSE) /\ inThought = Inside(whole, FALSE)[Len(whole)]

\* "strips <think>...</think> content from text deltas"
\* (src/service/agent_stream.go:432): the text between the tags is not shown,
\* however the answer is cut.
ThoughtsAreStripped ==
  LET Text(s) == SelectSeq(s, LAMBDA x : x = "text")
  IN Text(shown) = Text(Stripped(whole, FALSE))
=============================================================================
