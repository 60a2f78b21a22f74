------------------------------- MODULE Feedback -------------------------------
(***************************************************************************)
(* UpsertFeedback and the feedback that ListMessages shows (src/service/   *)
(* agent.go, src/store/agent.go).  A row is keyed by message, thread and   *)
(* user; anyone who knows a message's id may give feedback on it.  The     *)
(* message's thread is a function of the message and left out.             *)
(***************************************************************************)
CONSTANTS People, Questions, Replies
ASSUME SaidAssumption == Questions \cap Replies = {}

Said == Questions \cup Replies
Feedbacks == {"like", "unlike"}

VARIABLES
  written,    \* messages that pen-gpt has stored and not removed
  feedback,   \* response_feedback: a row's feedback_type, or "none" without one
  lastGiven   \* history: what each user was last told is saved

feedbackVars == <<written, feedback, lastGiven>>

FeedbackInit ==
  /\ written = {}
  /\ feedback = [k \in People \X Said |-> "none"]
  /\ lastGiven = feedback

\* The rows that the INSERT ... SELECT finds: the message, if an assistant's.
Matched_AnyRole(m) == {m} \cap written  \* mutant: the role is not checked

Matched(m) == {m} \cap written \cap Replies

Conflicting_AnyUser(u, m) == {<<v, m>> : v \in People}  \* mutant: the key has no user

\* The rows that ON CONFLICT updates, next to the one that is inserted.
Conflicting(u, m) == {<<u, m>>}

\* Without a row the call is 404 and nothing is saved.
UpsertFeedback(u, m, f) ==
  /\ Matched(m) # {}
  /\ feedback' = [k \in People \X Said |->
                    IF k \in Conflicting(u, m) /\ (k = <<u, m>> \/ feedback[k] # "none") THEN f
                    ELSE feedback[k]]
  /\ lastGiven' = [lastGiven EXCEPT ![<<u, m>>] = f]
  /\ UNCHANGED written

\* The statement is committed and its answer lost: the user is told nothing.
UpsertUnanswered(u, m, f) ==
  /\ Matched(m) # {}
  /\ feedback' = [feedback EXCEPT ![<<u, m>>] = f]
  /\ lastGiven' = [lastGiven EXCEPT ![<<u, m>>] = "unknown"]
  /\ UNCHANGED written

StoreMessage(m) ==
  /\ m \notin written
  /\ written' = written \cup {m}
  /\ UNCHANGED <<feedback, lastGiven>>

\* Of an ended run; its feedback rows stay.
RemoveMessage(m) ==
  /\ m \in written
  /\ written' = written \ {m}
  /\ UNCHANGED <<feedback, lastGiven>>

FeedbackNext ==
  \/ \E m \in Said : StoreMessage(m) \/ RemoveMessage(m)
  \/ \E u \in People, m \in Said, f \in Feedbacks : UpsertFeedback(u, m, f) \/ UpsertUnanswered(u, m, f)

FeedbackSpec == FeedbackInit /\ [][FeedbackNext]_feedbackVars

\* What u's list shows next to m: parseMessage says "none" of an answer
\* without a row, and nothing of a question.
Shown(u, m) == IF m \in Questions /\ feedback[u, m] = "none" THEN "" ELSE feedback[u, m]

-----------------------------------------------------------------------------
\* A list shows each user the feedback that user was last told is saved,
\* whatever others gave on the same message; a question has none
\* (store/agent.go:320-362 and the join of ListMessages, :288).
FeedbackIsOwn ==
  \A u \in People, m \in written :
    /\ m \in Questions => Shown(u, m) = ""
    /\ m \in Replies => lastGiven[u, m] \in {Shown(u, m), "unknown"}
=============================================================================
