-------------------------------- MODULE Turns --------------------------------
(***************************************************************************)
(* What the stream registry promises, without a registry: the turns of a   *)
(* slot (a thread on an instance) come one after the other.  A new turn    *)
(* ends the life of the slot's live one, a turn that has been cancelled    *)
(* never comes back, and at any time a slot has at most one live turn.     *)
(***************************************************************************)
CONSTANTS
  Turns,
  Slots

VARIABLES
  phase,   \* "new", "live", "cancelled" or "done", per turn
  home     \* the turns that began in each slot

turnVars == <<phase, home>>

LiveIn(k) == {x \in home[k] : phase[x] = "live"}

TurnsInit ==
  /\ phase = [x \in Turns |-> "new"]
  /\ home = [k \in Slots |-> {}]

Begin(x, k) ==
  /\ phase[x] = "new"
  /\ phase' = [y \in Turns |->
       IF y = x THEN "live" ELSE IF y \in LiveIn(k) THEN "cancelled" ELSE phase[y]]
  /\ home' = [home EXCEPT ![k] = @ \cup {x}]

Cancel(x) ==
  /\ phase[x] = "live"
  /\ phase' = [phase EXCEPT ![x] = "cancelled"]
  /\ UNCHANGED home

End(x) ==
  /\ phase[x] \in {"live", "cancelled"}
  /\ phase' = [phase EXCEPT ![x] = "done"]
  /\ UNCHANGED home

TurnsNext ==
  \E x \in Turns : Cancel(x) \/ End(x) \/ \E k \in Slots : Begin(x, k)

TurnsSpec == TurnsInit /\ [][TurnsNext]_turnVars
=============================================================================
