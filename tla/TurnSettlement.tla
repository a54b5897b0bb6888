--------------------------- MODULE TurnSettlement ---------------------------
(***************************************************************************)
(* What the game promises about the charge of a turn: it is taken once, it *)
(* is settled at most once, either kept for a turn that entered the world  *)
(* or given back, and the player hears at most one final answer, which     *)
(* never contradicts the settlement and after which nothing is settled.    *)
(***************************************************************************)
CONSTANT Turns

VARIABLES
    fate,   \* what became of the charge
    told    \* the final answer the player was sent

settlement == <<fate, told>>

Init ==
    /\ fate = [k \in Turns |-> "none"]
    /\ told = [k \in Turns |-> "none"]

Charge(k) ==
    /\ fate[k] = "none"
    /\ fate' = [fate EXCEPT ![k] = "charged"]
    /\ UNCHANGED told

Settle(k) ==
    /\ fate[k] = "charged"
    /\ told[k] = "none"
    /\ \E f \in {"kept", "refunded"} : fate' = [fate EXCEPT ![k] = f]
    /\ UNCHANGED told

\* "error" promises nothing: the charge may be pending for ever, or the outcome
\* unknown to the one who answers.
Truthful(f) ==
    CASE f = "kept"     -> {"resolved", "error"}
      [] f = "refunded" -> {"refunded", "error"}
      [] f = "charged"  -> {"error"}
      [] OTHER          -> {}

Tell(k) ==
    /\ told[k] = "none"
    /\ \E answer \in Truthful(fate[k]) : told' = [told EXCEPT ![k] = answer]
    /\ UNCHANGED fate

Next == \E k \in Turns : Charge(k) \/ Settle(k) \/ Tell(k)

Spec == Init /\ [][Next]_settlement
=============================================================================
