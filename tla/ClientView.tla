----------------------------- MODULE ClientView -----------------------------
(***************************************************************************)
(* The event stream of one StreamChat call as its client may rely on it:   *)
(* start comes first, done comes last and only after finish or an error,   *)
(* there is at most one error, and no content follows it.                  *)
(***************************************************************************)
EXTENDS Naturals

VARIABLES
  last,    \* the last event received, "none" before the first
  errors   \* the error events received

viewVars == <<last, errors>>

Content == {"start", "text_delta", "workflow_step"}
Closing == {"references", "recommendations"}

ViewInit == last = "none" /\ errors = 0

\* Event e arrives; which may come when.
May(e) ==
  \/ e = "start" /\ last = "none"
  \/ e \in {"text_delta", "workflow_step"} /\ last \in Content /\ errors = 0
  \/ e = "references" /\ last \in Content \cup {"error"}
  \/ e = "recommendations" /\ last \in Content \cup {"error", "references"}
  \/ e = "error" /\ last \in Content \cup Closing /\ errors = 0
  \/ e = "finish" /\ last \in Content \cup Closing \cup {"error"}
  \/ e = "done" /\ (last = "finish" \/ (errors = 1 /\ last \in Closing \cup {"error"}))

Events == Content \cup Closing \cup {"error", "finish", "done"}

Receive(e) ==
  /\ May(e)
  /\ last' = e
  /\ errors' = IF e = "error" THEN errors + 1 ELSE errors

ViewNext == \E e \in Events : Receive(e)

ViewSpec == ViewInit /\ [][ViewNext]_viewVars
=============================================================================
