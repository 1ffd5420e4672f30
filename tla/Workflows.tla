----------------------------- MODULE Workflows ------------------------------
(***************************************************************************)
(* A workflow: a tree of steps a person writes, linted when it is saved    *)
(* and again when it is run, and walked on a bot's computer with budgets,  *)
(* with Jev to answer its questions or with the fallbacks of its own.      *)
(***************************************************************************)
EXTENDS Naturals, FiniteSets

CONSTANTS StepBudget,       \* Budget::steps
          SamePlaceAllowed  \* SAME_PLACE_ALLOWED

ASSUME WorkflowsAssumption == StepBudget \in Nat /\ SamePlaceAllowed \in Nat

VARIABLES
    flow,       \* the workflow as written: start and steps
    walk,       \* its walk: where, what is known, how it ended
    visits      \* marks of places and facts, and how often each was reached

flowVars == <<flow, walk, visits>>

StepNames == {1, 2, 3}
Nowhere == 0            \* a name no step has
Unsaid == 9             \* an exit the step does not give
Targets == StepNames \cup {Nowhere}
Exit == Targets \cup {Unsaid}

\* Act: the exits by name. A question is yes-or-no, or goes by its labels;
\* "a" stands for the first or middle label, which is the fallback.
Acts ==
    [act : {"run"}, yes : Targets, no : Exit]
        \cup [act : {"observe"}, yes : Targets, no : {Unsaid}]
        \cup [act : {"when"}, yes : Targets, no : Targets]
        \cup [act : {"noul", "choice"}, yes : Exit, no : Exit]
        \cup [act : {"stop"}, yes : {Unsaid}, no : {Unsaid}]
ActExits(a) == {a.yes, a.no} \ {Unsaid}

NoWalk == [at |-> 0, seen |-> "", taken |-> 0, fell |-> 0, ending |-> "none"]

\* Any two steps, from the first, and a third that stops or goes back.
FlowInit ==
    /\ \E one, two \in Acts, three \in {a \in Acts : a.act = "stop" \/ (a.act = "observe" /\ a.yes = 1)},
          start \in {1, Nowhere} :
         flow = [start |-> start, steps |-> <<one, two, three>>]
    /\ walk = NoWalk /\ visits = [p \in {} |-> 0]

-----------------------------------------------------------------------------
\* lint_act, lint_ask: a question says where each of its answers goes.
LintAsk(a) == Unsaid \notin {a.yes, a.no}
LintAct(a) == a.act \in {"noul", "choice"} => LintAsk(a)

\* lint over the exits, the bug of linting only what a step says of itself.
LintExitsBlind(f) == TRUE
LintExits(f) == \A s \in StepNames : ActExits(f.steps[s]) \subseteq StepNames

\* reaches_a_stop: the steps reached from the start, of three.
Onward(f, from) == from \cup UNION {ActExits(f.steps[s]) : s \in from \cap StepNames}
ReachesAStop(f) ==
    \E s \in Onward(f, Onward(f, {f.start})) \cap StepNames : f.steps[s].act = "stop"

Lint(f) ==
    /\ f.start \in StepNames
    /\ LintExits(f)
    /\ \A s \in StepNames : LintAct(f.steps[s])
    /\ ReachesAStop(f)

-----------------------------------------------------------------------------
\* create and add_version parse, and run parses again before begin_run.
WalkBegins ==
    /\ walk.ending = "none" /\ walk.at = 0 /\ Lint(flow)
    /\ walk' = [walk EXCEPT !.at = flow.start]
    /\ UNCHANGED <<flow, visits>>

Here == <<walk.at, walk.seen>>
Times == IF Here \in DOMAIN visits THEN visits[Here] ELSE 0
Marked == [p \in DOMAIN visits \cup {Here} |-> IF p = Here THEN Times + 1 ELSE visits[p]]
Walking == walk.ending = "none" /\ walk.at # 0

\* The checks at the head of the loop, in their order.
OutOfBudget ==
    /\ Walking
    /\ \/ walk.taken >= StepBudget /\ walk' = [walk EXCEPT !.ending = "out of steps"]
       \/ walk.taken < StepBudget /\ walk' = [walk EXCEPT !.ending = "out of time"]
    /\ UNCHANGED <<flow, visits>>
InCircles ==
    /\ Walking /\ walk.taken < StepBudget /\ Times >= SamePlaceAllowed
    /\ walk' = [walk EXCEPT !.ending = "circles"] /\ visits' = Marked
    /\ UNCHANGED flow

MayStep == Walking /\ walk.taken < StepBudget /\ Times < SamePlaceAllowed
Act == flow.steps[walk.at]
Steps(exit, seen, fell) ==
    /\ visits' = Marked
    /\ walk' = [walk EXCEPT !.at = exit, !.taken = @ + 1, !.seen = seen, !.fell = @ + fell,
                            !.ending = IF exit \in StepNames THEN "none" ELSE "lost"]
    /\ UNCHANGED flow
Breaks ==
    /\ visits' = Marked
    /\ walk' = [walk EXCEPT !.taken = @ + 1, !.ending = "broken"]
    /\ UNCHANGED flow

FlowStops ==
    /\ MayStep /\ Act.act = "stop"
    /\ visits' = Marked /\ walk' = [walk EXCEPT !.taken = @ + 1, !.ending = "stopped"]
    /\ UNCHANGED flow

\* Observe: a command on the box; what it prints is a fact.
Observes ==
    /\ MayStep /\ Act.act = "observe"
    /\ (\E seen \in {"x", "y"} : Steps(Act.yes, seen, 0)) \/ Breaks

\* When: a fact tested.
Tests == MayStep /\ Act.act = "when" /\ Steps(IF walk.seen = "x" THEN Act.yes ELSE Act.no, walk.seen, 0)

\* Run: a recipe this run may play; how it went is a fact, and a stop short
\* goes where the step says or ends the walk.
PlaysRecipe ==
    /\ MayStep /\ Act.act = "run"
    /\ \/ Steps(Act.yes, "x", 0)
       \/ Act.no # Unsaid /\ Steps(Act.no, "y", 0)
       \/ /\ Act.no = Unsaid /\ visits' = Marked /\ UNCHANGED flow
          /\ walk' = [walk EXCEPT !.taken = @ + 1, !.seen = "y", !.ending = "recipe failed"]
       \/ Breaks

\* Ask: Jev's answer, or where Jev is off, does not answer or answers what was
\* not offered, the fallback: no, or the first or middle label.
Fallback == IF Act.act = "noul" THEN Act.no ELSE Act.yes
FlowAsks ==
    /\ MayStep /\ Act.act \in {"noul", "choice"}
    /\ \/ \E exit \in {Act.yes, Act.no} : Steps(exit, walk.seen, 0)
       \/ Steps(Fallback, walk.seen, 1)
       \/ Breaks

FlowNext ==
    \/ WalkBegins \/ OutOfBudget \/ InCircles \/ FlowStops \/ Observes \/ Tests \/ PlaysRecipe \/ FlowAsks

FlowSpec == FlowInit /\ [][FlowNext]_flowVars

-----------------------------------------------------------------------------
\* A workflow that was accepted never loses its way: whatever the box shows,
\* the recipes do and Jev answers or fails to, no step and no fallback leads
\* where there is no step ("Broken: there is no step called", "does not say
\* where the answer goes").
NeverLost == walk.ending # "lost"
=============================================================================
