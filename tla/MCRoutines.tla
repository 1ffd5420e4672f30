----------------------------- MODULE MCRoutines -----------------------------
(***************************************************************************)
(* Two instances of Routines in one run: one where people edit, hand over  *)
(* and rotate while a replica fires, with the constants of the             *)
(* configuration, and one where two replicas race on the clock.  A         *)
(* behaviour is of one of them.                                            *)
(***************************************************************************)
EXTENDS Routines, TLC

CONSTANTS c1, p1, w1, w2   \* a coworker, a person; and two writers: people in one, replicas in the other

VARIABLE part   \* the instance this behaviour is of

\* Two clocks that share a slot, one of them with a single slot, so that an edit can
\* bring a claimed slot back.
MCCrons == {{1, 2}, {2}}
MCOneCron == {{1}}

Clock == INSTANCE Routines WITH
    Crons <- MCCrons, Coworkers <- {c1}, Keys <- {}, People <- {p1}, Replicas <- {w1, w2},
    Asking <- {"update", "pause", "resume", "manual"}, MaxTime <- 2, MaxLog <- 2, MaxFaults <- 0

MCInit ==
    \/ part = "people" /\ Init
    \/ part = "clock" /\ Clock!Init

MCNext ==
    /\ UNCHANGED part
    /\ \/ part = "people" /\ Next
       \/ part = "clock" /\ Clock!Next

MCSpec == MCInit /\ [][MCNext]_<<part, vars>>

Alike == UNION {Permutations(s) : s \in {{w1, w2}, Coworkers, Keys}}

\* On the clock: the row the sweep goes by is the log's, no slot fires twice however two
\* replicas race, and nothing missed is caught up (Routines!ClockHolds).
ClockFiresRightly == part = "clock" => Clock!ClockHolds

\* Among people: no firing while paused, on a dead key or for a coworker the routine was
\* handed over from (Routines!FiringsHold).
PeopleAreHeeded == part = "people" => FiringsHold
=============================================================================
