------------------------------ MODULE RunContract ------------------------------
(***************************************************************************)
(* What a run promises the person it works for, with no log, no lease, no  *)
(* retry and no crash in sight: a call acts at most once, never after a no *)
(* and only once the run has launched it; a card is answered once; and     *)
(* when the run has ended it stays ended and launches nothing more.        *)
(* RunProtocol is shown to implement this.                                 *)
(***************************************************************************)
CONSTANTS Call, NoCall

VARIABLES
    phase,    \* "none", "working", "waiting" on a card, "ended"
    card,     \* the call a person is asked about while waiting
    refused,  \* calls a person said no to
    flight,   \* calls launched whose outcome is not settled
    acted     \* calls that have acted on the world

cvars == <<phase, card, refused, flight, acted>>

Init ==
    /\ phase = "none"
    /\ card = NoCall
    /\ refused = {}
    /\ flight = {}
    /\ acted = {}

Begin ==
    /\ phase = "none"
    /\ phase' = "working"
    /\ UNCHANGED <<card, refused, flight, acted>>

\* Nothing is launched that has acted, that was refused, or by a run that is not working.
Launch(calls) ==
    /\ phase = "working"
    /\ calls \cap (acted \cup refused) = {}
    /\ flight' = flight \cup calls
    /\ UNCHANGED <<phase, card, refused, acted>>

\* A launched call acts, also when the run was ended under it.
Act(calls) ==
    /\ calls \subseteq flight \ acted
    /\ acted' = acted \cup calls
    /\ UNCHANGED <<phase, card, refused, flight>>

Settle(calls) ==
    /\ phase # "none"
    /\ flight' = flight \ calls
    /\ UNCHANGED <<phase, card, refused, acted>>

\* A call that waits on a person has not acted.
Wait(c, calls) ==
    /\ phase = "working"
    /\ c \in calls \ acted
    /\ phase' = "waiting"
    /\ card' = c
    /\ flight' = flight \ calls
    /\ UNCHANGED <<refused, acted>>

Answer(yes) ==
    /\ phase = "waiting"
    /\ phase' = "working"
    /\ refused' = IF yes THEN refused ELSE refused \cup {card}
    /\ card' = NoCall
    /\ UNCHANGED <<flight, acted>>

End(calls) ==
    /\ phase \in {"working", "waiting"}
    /\ phase' = "ended"
    /\ card' = NoCall
    /\ flight' = flight \ calls
    /\ UNCHANGED <<refused, acted>>

Next ==
    \/ Begin
    \/ \E calls \in SUBSET Call :
          \/ Launch(calls) \/ Act(calls) \/ Settle(calls) \/ End(calls)
          \/ \E c \in calls : Wait(c, calls)
    \/ \E yes \in BOOLEAN : Answer(yes)

Spec == Init /\ [][Next]_cvars
=============================================================================
