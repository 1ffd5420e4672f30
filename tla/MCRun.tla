------------------------------- MODULE MCRun --------------------------------
(***************************************************************************)
(* A run as RunProtocol has it and, beside it, the computer of a scope.    *)
(* They share no state; a behaviour is of one of them.                     *)
(***************************************************************************)
EXTENDS RunProtocol, Computers

VARIABLE part   \* what this behaviour is of

MCInit ==
    /\ part \in {"run", "computer"}
    /\ Init
    /\ BoxInit

MCNext ==
    /\ UNCHANGED part
    /\ \/ part = "run" /\ Next /\ UNCHANGED boxVars
       \/ part = "computer" /\ BoxNext /\ UNCHANGED vars

MCSpec == MCInit /\ [][MCNext]_<<part, vars, boxVars>>
=============================================================================
