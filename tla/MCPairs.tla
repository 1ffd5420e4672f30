------------------------------ MODULE MCPairs -------------------------------
(***************************************************************************)
(* What a run waits for: another Bot, by a message between two, and a      *)
(* person, by a form.  The components share no state and stand side by     *)
(* side in one run; a behaviour is of one of them.                         *)
(***************************************************************************)
EXTENDS Pairs, Forms, TLC

VARIABLE part   \* the component this behaviour is of

parts == <<part, vars, formVars>>

\* The other components stand where they began.
OthersStand(p) ==
    /\ UNCHANGED part
    /\ IF p = "Pairs" THEN TRUE ELSE UNCHANGED vars
    /\ IF p = "Forms" THEN TRUE ELSE UNCHANGED formVars

WaitsInit ==
    /\ part \in {"Pairs", "Forms"}
    /\ Init
    /\ FormInit

WaitsNext ==
    \/ part = "Pairs" /\ OthersStand("Pairs") /\ Next
    \/ part = "Forms" /\ OthersStand("Forms") /\ FormNext

WaitsSpec == WaitsInit /\ [][WaitsNext]_parts /\ (part = "Pairs" => Fairness) /\ FormFairness
=============================================================================
