-------------------------------- MODULE Parts --------------------------------
(***************************************************************************)
(* The parts of the SDK that need no other: the thought filter, what an    *)
(* answer's tools contribute, the pagination token, the pause's timers and *)
(* feedback.  A behaviour exercises one and leaves the others untouched.   *)
(***************************************************************************)
EXTENDS ThoughtFilter, Answers, PageToken, PauseTimers, Feedback

VARIABLE part

PartsInit ==
  /\ Init /\ AnswerInit /\ TokenInit /\ TimerInit /\ FeedbackInit
  /\ part \in {"filter", "answer", "token", "timers", "feedback"}

partVars == <<vars, answerVars, tokenVars, timerVars, feedbackVars, part>>

PartsNext ==
  /\ \/ part = "filter" /\ Next /\ UNCHANGED <<answerVars, tokenVars, timerVars, feedbackVars>>
     \/ part = "answer" /\ AnswerNext /\ UNCHANGED <<vars, tokenVars, timerVars, feedbackVars>>
     \/ part = "token" /\ TokenNext /\ UNCHANGED <<vars, answerVars, timerVars, feedbackVars>>
     \/ part = "timers" /\ TimerNext /\ UNCHANGED <<vars, answerVars, tokenVars, feedbackVars>>
     \/ part = "feedback" /\ FeedbackNext /\ UNCHANGED <<vars, answerVars, tokenVars, timerVars>>
  /\ UNCHANGED part

PartsSpec == PartsInit /\ [][PartsNext]_partVars
=============================================================================
