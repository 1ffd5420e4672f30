--------------------------- MODULE Machines_proof ---------------------------
(***************************************************************************)
(* Proofs about what a turn works with, each component on its own: a       *)
(* recipe is played once on a screen and by nobody whose hold went; a      *)
(* computer switched off stays off its owner's plan, and a call is         *)
(* cancelled once; a call that ran passed its gates; a workflow that was   *)
(* accepted does not lose its way; no box of a scope's computer is left    *)
(* with nobody to answer for it, and the files stay; a cap that was used   *)
(* up stops the turn, and a key minted anew is not retired for the old;    *)
(* what was accepted into a document outlives the upload it came from.     *)
(***************************************************************************)
EXTENDS Recipes, Relay, Gates, Workflows, Computers, Spend, Attachments, TLAPS

-----------------------------------------------------------------------------
(* Workflows *)

(* The walk is a record of these five, whatever it says. *)
IsWalk(w) == w = [at |-> w.at, seen |-> w.seen, taken |-> w.taken, fell |-> w.fell, ending |-> w.ending]

(* A walk that has begun is of a workflow that passed the lint, and stands at a step. *)
WalkInv ==
    /\ flow.steps \in [StepNames -> Acts]
    /\ IsWalk(walk)
    /\ walk.at # 0 => walk.at \in StepNames /\ Lint(flow)
    /\ walk.ending # "lost"

LEMMA FlowStarts == FlowInit => WalkInv
<1> SUFFICES ASSUME FlowInit PROVE WalkInv OBVIOUS
<1>1. PICK one \in Acts, two \in Acts, three \in Acts, start \in {1, Nowhere} :
          flow = [start |-> start, steps |-> <<one, two, three>>]
    BY DEF FlowInit
<1>2. <<one, two, three>> \in [{1, 2, 3} -> Acts]
    OBVIOUS
<1>3. walk = [at |-> 0, seen |-> "", taken |-> 0, fell |-> 0, ending |-> "none"]
    BY DEF FlowInit, NoWalk
<1> QED BY <1>1, <1>2, <1>3 DEF WalkInv, StepNames, IsWalk

(* A step that passed the lint leads to a step by every exit it says. *)
LEMMA ExitsAreSteps ==
    ASSUME WalkInv, Walking
    PROVE  /\ Act \in Acts
           /\ walk.at \in StepNames
           /\ Act.act \in {"observe", "when", "run"} => Act.yes \in StepNames
           /\ Act.act = "when" => Act.no \in StepNames
           /\ Act.act = "run" /\ Act.no # Unsaid => Act.no \in StepNames
           /\ Act.act \in {"noul", "choice"} => Act.yes \in StepNames /\ Act.no \in StepNames
<1>1. walk.at \in StepNames /\ Lint(flow) /\ Act \in Acts
    BY DEF WalkInv, Walking, Act
<1>2. ActExits(Act) \subseteq StepNames /\ LintAct(Act)
    BY <1>1 DEF Lint, LintExits, Act
<1>3. \/ Act \in [act : {"run"}, yes : Targets, no : Exit]
      \/ Act \in [act : {"observe"}, yes : Targets, no : {Unsaid}]
      \/ Act \in [act : {"when"}, yes : Targets, no : Targets]
      \/ Act \in [act : {"noul", "choice"}, yes : Exit, no : Exit]
      \/ Act \in [act : {"stop"}, yes : {Unsaid}, no : {Unsaid}]
    BY <1>1 DEF Acts
<1>4. Act.act \in {"observe", "when", "run"} => Act.yes # Unsaid
    BY <1>3 DEF Targets, StepNames, Nowhere, Unsaid
<1>5. Act.act = "when" => Act.no # Unsaid
    BY <1>3 DEF Targets, StepNames, Nowhere, Unsaid
<1>6. Act.act \in {"noul", "choice"} => Act.yes # Unsaid /\ Act.no # Unsaid
    BY <1>2 DEF LintAct, LintAsk
<1>7. \A e \in {Act.yes, Act.no} : e # Unsaid => e \in StepNames
    BY <1>2 DEF ActExits
<1> QED BY <1>1, <1>4, <1>5, <1>6, <1>7

(* A step to where there is one keeps the walk. *)
LEMMA StepKeeps ==
    ASSUME WalkInv, Walking, NEW e, NEW seen, NEW fell, e \in StepNames, Steps(e, seen, fell)
    PROVE  WalkInv'
<1>1. /\ walk' = [walk EXCEPT !.at = e, !.taken = @ + 1, !.seen = seen, !.fell = @ + fell,
                              !.ending = IF e \in StepNames THEN "none" ELSE "lost"]
      /\ flow' = flow
    BY DEF Steps
<1>2. /\ IsWalk(walk') /\ walk'.at = e /\ walk'.ending = "none"
    BY <1>1 DEF WalkInv, IsWalk
<1>3. Lint(flow)
    BY DEF WalkInv, Walking
<1> QED BY <1>1, <1>2, <1>3 DEF WalkInv, IsWalk, Lint, LintExits, ReachesAStop, Onward

(* An end that is not a loss keeps it too. *)
LEMMA EndKeeps ==
    ASSUME WalkInv, flow' = flow, IsWalk(walk)', walk'.at = walk.at, walk'.ending # "lost"
    PROVE  WalkInv'
BY DEF WalkInv, Lint, LintExits, ReachesAStop, Onward

LEMMA FlowGoesOn == WalkInv /\ [FlowNext]_flowVars => WalkInv'
<1> SUFFICES ASSUME WalkInv, [FlowNext]_flowVars PROVE WalkInv' OBVIOUS
<1> DEFINE w == walk
<1>w. IsWalk(walk) BY DEF WalkInv
<1>1. CASE WalkBegins
    <2>1. walk' = [walk EXCEPT !.at = flow.start] /\ flow' = flow /\ Lint(flow)
        BY <1>1 DEF WalkBegins
    <2>2. IsWalk(walk') /\ walk'.at = flow.start /\ walk'.ending = walk.ending
        BY <2>1, <1>w DEF IsWalk
    <2> QED BY <2>1, <2>2 DEF WalkInv, IsWalk, Lint, LintExits, ReachesAStop, Onward
<1>2. CASE OutOfBudget
    <2>1. PICK s \in {"out of steps", "out of time"} : walk' = [walk EXCEPT !.ending = s]
        BY <1>2 DEF OutOfBudget
    <2>2. flow' = flow BY <1>2 DEF OutOfBudget
    <2>3. IsWalk(walk') /\ walk'.at = walk.at /\ walk'.ending = s
        BY <2>1, <1>w DEF IsWalk
    <2> QED BY <2>2, <2>3, EndKeeps DEF IsWalk
<1>3. CASE InCircles
    <2>1. walk' = [walk EXCEPT !.ending = "circles"] /\ flow' = flow
        BY <1>3 DEF InCircles
    <2>2. IsWalk(walk') /\ walk'.at = walk.at /\ walk'.ending = "circles"
        BY <2>1, <1>w DEF IsWalk
    <2> QED BY <2>1, <2>2, EndKeeps DEF IsWalk
<1>4. ASSUME MayStep, Breaks PROVE WalkInv'
    <2>1. walk' = [walk EXCEPT !.taken = @ + 1, !.ending = "broken"] /\ flow' = flow
        BY <1>4 DEF Breaks
    <2>2. IsWalk(walk') /\ walk'.at = walk.at /\ walk'.ending = "broken"
        BY <2>1, <1>w DEF IsWalk
    <2> QED BY <2>1, <2>2, EndKeeps DEF IsWalk
<1>5. CASE FlowStops
    <2>1. walk' = [walk EXCEPT !.taken = @ + 1, !.ending = "stopped"] /\ flow' = flow
        BY <1>5 DEF FlowStops
    <2>2. IsWalk(walk') /\ walk'.at = walk.at /\ walk'.ending = "stopped"
        BY <2>1, <1>w DEF IsWalk
    <2> QED BY <2>1, <2>2, EndKeeps DEF IsWalk
<1>6. CASE Observes
    <2>1. Walking /\ MayStep /\ Act.act = "observe" BY <1>6 DEF Observes, MayStep
    <2>2. Act.yes \in StepNames BY <2>1, ExitsAreSteps
    <2>3. CASE Breaks BY <2>3, <2>1, <1>4
    <2>4. CASE \E seen \in {"x", "y"} : Steps(Act.yes, seen, 0)
        BY <2>4, <2>1, <2>2, StepKeeps
    <2> QED BY <2>3, <2>4, <1>6 DEF Observes
<1>7. CASE Tests
    <2>1. Walking /\ Act.act = "when" BY <1>7 DEF Tests, MayStep
    <2>2. Act.yes \in StepNames /\ Act.no \in StepNames BY <2>1, ExitsAreSteps
    <2> DEFINE e == IF walk.seen = "x" THEN Act.yes ELSE Act.no
    <2>3. Steps(e, walk.seen, 0) BY <1>7 DEF Tests
    <2>4. e \in StepNames BY <2>2
    <2> HIDE DEF e
    <2> QED BY <2>1, <2>3, <2>4, StepKeeps
<1>8. CASE PlaysRecipe
    <2>1. Walking /\ MayStep /\ Act.act = "run" BY <1>8 DEF PlaysRecipe, MayStep
    <2>2. Act.yes \in StepNames BY <2>1, ExitsAreSteps
    <2>3. CASE Breaks BY <2>3, <2>1, <1>4
    <2>4. CASE Steps(Act.yes, "x", 0) BY <2>4, <2>1, <2>2, StepKeeps
    <2>5. CASE Act.no # Unsaid /\ Steps(Act.no, "y", 0)
        <3>1. Act.no \in StepNames BY <2>1, <2>5, ExitsAreSteps
        <3> QED BY <2>5, <2>1, <3>1, StepKeeps
    <2>6. CASE flow' = flow /\ walk' = [walk EXCEPT !.taken = @ + 1, !.seen = "y", !.ending = "recipe failed"]
        <3>1. IsWalk(walk') /\ walk'.at = walk.at /\ walk'.ending = "recipe failed"
            BY <2>6, <1>w DEF IsWalk
        <3> QED BY <2>6, <3>1, EndKeeps DEF IsWalk
    <2> QED BY <2>3, <2>4, <2>5, <2>6, <1>8 DEF PlaysRecipe
<1>9. CASE FlowAsks
    <2>1. Walking /\ MayStep /\ Act.act \in {"noul", "choice"} BY <1>9 DEF FlowAsks, MayStep
    <2>2. Act.yes \in StepNames /\ Act.no \in StepNames BY <2>1, ExitsAreSteps
    <2>3. CASE Breaks BY <2>3, <2>1, <1>4
    <2>4. CASE \E e \in {Act.yes, Act.no} : Steps(e, walk.seen, 0)
        BY <2>4, <2>1, <2>2, StepKeeps
    <2>5. CASE Steps(Fallback, walk.seen, 1)
        <3>1. Fallback \in StepNames BY <2>2 DEF Fallback
        <3> QED BY <2>5, <2>1, <3>1, StepKeeps
    <2> QED BY <2>3, <2>4, <2>5, <1>9 DEF FlowAsks
<1>10. CASE UNCHANGED flowVars
    BY <1>10 DEF flowVars, WalkInv, IsWalk, Lint, LintExits, ReachesAStop, Onward
<1> QED BY <1>1, <1>2, <1>3, <1>5, <1>6, <1>7, <1>8, <1>9, <1>10 DEF FlowNext

(* A workflow that was accepted never loses its way (lint_act, lint, run): no answer and no
   fallback leads where there is no step. *)
THEOREM WalksAreNeverLost == FlowSpec => []NeverLost
<1>1. WalkInv => NeverLost BY DEF WalkInv, NeverLost
<1> QED BY <1>1, FlowStarts, FlowGoesOn, PTL DEF FlowSpec

-----------------------------------------------------------------------------
(* Gates *)

(* The intersection of two sets of rules, seen from one tool. *)
LEMMA KeptOne ==
    ASSUME NEW names, NEW other, NEW tool
    PROVE  /\ Not(tool) \in KeptBy(names, other) <=> Not(tool) \in names
           /\ Named(tool) \in KeptBy(names, other) <=> Named(tool) \in names /\ Allows(other, tool)
           /\ Whole(tool) \in KeptBy(names, other) <=> Whole(tool) \in names /\ AllowsAllOf(other, tool)
<1>1. Not(tool)[1] = "-" BY DEF Not
<1>2. Named(tool)[1] = "+" /\ Named(tool)[2] = tool BY DEF Named
<1>3. Whole(tool)[1] = "*" /\ Whole(tool)[2] = tool BY DEF Whole
<1>4. Not(tool) \in KeptBy(names, other) <=> Not(tool) \in names
    BY <1>1 DEF KeptBy
<1>5. Named(tool) \in KeptBy(names, other) <=> Named(tool) \in names /\ Allows(other, tool)
    BY <1>2 DEF KeptBy
<1>6. Whole(tool) \in KeptBy(names, other) <=> Whole(tool) \in names /\ AllowsAllOf(other, tool)
    BY <1>3 DEF KeptBy
<1> QED BY <1>4, <1>5, <1>6

IsRules(s) == s = AllTools \/ s = NoTools \/ \E names : s = Only(names)

LEMMA MeetOfNames ==
    ASSUME NEW a, NEW b, NEW tool
    PROVE  Allows(Intersect(Only(a), Only(b)), tool) <=> Allows(Only(a), tool) /\ Allows(Only(b), tool)
<1> DEFINE both == KeptBy(a, Only(b)) \cup KeptBy(b, Only(a))
           p == PluginOf[tool]
           g == GroupOf[tool]
<1>1. /\ Only(a).kind = "only" /\ Only(a).names = a /\ Only(a) # AllTools /\ Only(a) # NoTools
      /\ Only(b).kind = "only" /\ Only(b).names = b /\ Only(b) # AllTools /\ Only(b) # NoTools
    BY DEF Only, AllTools, NoTools
<1>2. Intersect(Only(a), Only(b)) = IF both = {} THEN NoTools ELSE Only(both)
    BY <1>1 DEF Intersect
<1>3. NoTools.kind = "none" /\ NoTools # AllTools
    BY DEF NoTools, AllTools
<1>4. Only(both).kind = "only" /\ Only(both).names = both /\ Only(both) # AllTools
    BY DEF Only, AllTools
<1>5. Not(tool) \in both <=> Not(tool) \in a \/ Not(tool) \in b
    BY KeptOne
<1>6. Not(g) \in both <=> Not(g) \in a \/ Not(g) \in b
    BY KeptOne
<1>7. Named(tool) \in both <=> \/ Named(tool) \in a /\ Allows(Only(b), tool)
                               \/ Named(tool) \in b /\ Allows(Only(a), tool)
    BY KeptOne
<1>8. Whole(p) \in both <=> \/ Whole(p) \in a /\ AllowsAllOf(Only(b), p)
                            \/ Whole(p) \in b /\ AllowsAllOf(Only(a), p)
    BY KeptOne
<1>9. /\ AllowsAllOf(Only(a), p) <=> Whole(p) \in a
      /\ AllowsAllOf(Only(b), p) <=> Whole(p) \in b
      /\ AllowsAllOf(Only(both), p) <=> Whole(p) \in both
    BY <1>1, <1>4 DEF AllowsAllOf
<1>10. /\ GroupOff(Only(a), g) <=> Not(g) \in a
       /\ GroupOff(Only(b), g) <=> Not(g) \in b
       /\ GroupOff(Only(both), g) <=> Not(g) \in both
    BY <1>1, <1>4 DEF GroupOff
<1> DEFINE Ok(names, whole) == /\ Not(tool) \notin names
                               /\ Named(tool) \in names \/ (p # "none" /\ whole)
                               /\ g # "none" => Not(g) \notin names
<1>11. Allows(Only(a), tool) <=> Ok(a, Whole(p) \in a)
    BY <1>1, <1>9, <1>10 DEF Allows, AllowsAlone
<1>12. Allows(Only(b), tool) <=> Ok(b, Whole(p) \in b)
    BY <1>1, <1>9, <1>10 DEF Allows, AllowsAlone
<1>13. Allows(Only(both), tool) <=> Ok(both, Whole(p) \in both)
    BY <1>4, <1>9, <1>10 DEF Allows, AllowsAlone
<1>14. Ok(both, Whole(p) \in both) <=> Ok(a, Whole(p) \in a) /\ Ok(b, Whole(p) \in b)
    <2> HIDE DEF both, p, g
    <2> QED BY <1>5, <1>6, <1>7, <1>8, <1>9, <1>11, <1>12
<1>15. both = {} => ~Ok(both, Whole(p) \in both)
    OBVIOUS
<1>16. ~Allows(NoTools, tool)
    BY <1>3 DEF Allows, AllowsAlone
<1> HIDE DEF both, Ok
<1> QED BY <1>2, <1>11, <1>12, <1>13, <1>14, <1>15, <1>16

(* Two sets of rules meet exactly. *)
LEMMA Meets ==
    ASSUME NEW a, NEW b, NEW tool, IsRules(a), IsRules(b)
    PROVE  Allows(Intersect(a, b), tool) <=> Allows(a, tool) /\ Allows(b, tool)
<1>1. /\ \A x : Only(x) # AllTools /\ Only(x) # NoTools
      /\ AllTools # NoTools /\ AllTools.kind = "all" /\ NoTools.kind = "none"
    BY DEF Only, AllTools, NoTools
<1>2. Allows(AllTools, tool) /\ ~Allows(NoTools, tool)
    BY <1>1 DEF Allows, AllowsAlone, GroupOff
<1>3. CASE a = NoTools \/ b = NoTools
    BY <1>3, <1>2 DEF Intersect
<1>4. CASE a = AllTools /\ b # NoTools
    BY <1>4, <1>1, <1>2 DEF Intersect
<1>5. CASE b = AllTools /\ a # NoTools /\ a # AllTools
    BY <1>5, <1>1, <1>2 DEF Intersect
<1>6. CASE \E x, y : a = Only(x) /\ b = Only(y)
    BY <1>6, MeetOfNames
<1> QED BY <1>3, <1>4, <1>5, <1>6 DEF IsRules

IsGateTurn(t) ==
    /\ t = [review |-> t.review, tunnel |-> t.tunnel, egress |-> t.egress, hold |-> t.hold,
            gate |-> t.gate, yes |-> t.yes, consented |-> t.consented]
    /\ t.gate \in {"deny", "ask", "allow"}
    /\ t.yes \in {"none", "gate", "review"}
    /\ t.consented => t.yes = "review"

IsAsk(q) == q = [tool |-> q.tool, pc |-> q.pc, card |-> q.card]

(* A call that is past the gates, on its way to the box or running. *)
Admitted ==
    /\ turn.gate # "deny"
    /\ (turn.gate = "ask" \/ AskByRule(ask.tool)) => turn.yes = "gate"
    /\ turn.review # "off" => (turn.yes # "none" \/ "judge" \in passed)
    /\ ask.tool = "computer" => ~turn.hold
    /\ turn.tunnel = "on" /\ ask.tool = "computer" =>
         /\ turn.egress # "never"
         /\ turn.egress = "always" \/ turn.yes # "none" \/ turn.review # "off"

GateInv ==
    /\ IsRules(rules.ceiling) /\ IsRules(rules.profile)
    /\ rules = [ceiling |-> rules.ceiling, profile |-> rules.profile,
                approvals |-> rules.approvals, revoked |-> rules.revoked]
    /\ IsAsk(ask) /\ IsGateTurn(turn)
    /\ ask.pc \in {"box", "awake", "ran"} => Admitted
    /\ "tunnel" \in passed => ask.pc = "ran" /\ EveryGatePassed

LEMMA GatesStart == GateInit => GateInv
<1> SUFFICES ASSUME GateInit PROVE GateInv OBVIOUS
<1>1. PICK tool \in GateTools : rules \in RulesOn(tool) /\ ask = [tool |-> tool, pc |-> "called", card |-> "none"]
    BY DEF GateInit
<1>2. rules.ceiling \in SetsOn(tool) /\ rules.profile \in SetsOn(tool)
    BY <1>1 DEF RulesOn
<1>3. \A s \in SetsOn(tool) : IsRules(s)
    BY DEF SetsOn, IsRules
<1>4. rules = [ceiling |-> rules.ceiling, profile |-> rules.profile,
               approvals |-> rules.approvals, revoked |-> rules.revoked]
    BY <1>1 DEF RulesOn
<1>5. IsGateTurn(turn) /\ passed = {}
    BY DEF GateInit, NoGateTurn, IsGateTurn
<1> QED BY <1>1, <1>2, <1>3, <1>4, <1>5 DEF GateInv, IsAsk

(* Leaves that decide nothing of a call that is not past the gates. *)
LEMMA GateStill ==
    ASSUME GateInv, rules' = rules, IsGateTurn(turn)', IsAsk(ask)', passed' \in {passed, passed \cup {"judge"}},
           ask.pc # "ran", ask'.pc \in {"parked", "refused", "gates"}
    PROVE  GateInv'
<1>1. "tunnel" \notin passed'
    BY DEF GateInv
<1> QED BY <1>1 DEF GateInv

(* The outcome of the two judgements: past the gates only if each was passed. *)
LEMMA OutcomeKeeps ==
    ASSUME GateInv, ask.pc = "gates", NEW outcome \in {"refuse", "gate", "review", "run"}, Goes(outcome),
           rules' = rules, turn' = turn, passed' \in {passed, passed \cup {"judge"}},
           outcome = "run" => /\ turn.gate # "deny"
                              /\ (turn.gate = "ask" \/ AskByRule(ask.tool)) => turn.yes = "gate"
                              /\ turn.review # "off" => (turn.yes # "none" \/ "judge" \in passed')
                              /\ ask.tool = "computer" => ~turn.hold
                              /\ turn.tunnel = "on" /\ ask.tool = "computer" =>
                                   /\ turn.egress # "never"
                                   /\ turn.egress = "always" \/ turn.yes # "none" \/ turn.review # "off"
    PROVE  GateInv'
<1>0. IsAsk(ask) /\ IsGateTurn(turn) /\ IsGateTurn(turn)' /\ "tunnel" \notin passed /\ "tunnel" \notin passed'
    BY DEF GateInv, IsGateTurn
<1>1. CASE outcome = "refuse"
    <2>1. ask' = [ask EXCEPT !.pc = "refused"] BY <1>1 DEF Goes, GateRefuses
    <2>2. IsAsk(ask') /\ ask'.pc = "refused" BY <2>1, <1>0 DEF IsAsk
    <2> QED BY <2>2, <1>0, GateStill DEF IsAsk
<1>2. CASE outcome \in {"gate", "review"}
    <2>1. ask' = [ask EXCEPT !.pc = "parked", !.card = outcome] BY <1>2 DEF Goes, Parks
    <2>2. IsAsk(ask') /\ ask'.pc = "parked" BY <2>1, <1>0 DEF IsAsk
    <2> QED BY <2>2, <1>0, GateStill DEF IsAsk
<1>3. CASE outcome = "run"
    <2>1. ask' = [ask EXCEPT !.pc = "box"] BY <1>3 DEF Goes
    <2>2. IsAsk(ask') /\ ask'.pc = "box" /\ ask'.tool = ask.tool BY <2>1, <1>0 DEF IsAsk
    <2>3. Admitted' BY <1>3, <2>2 DEF Admitted, AskByRule
    <2>4. IsRules(rules'.ceiling) /\ IsRules(rules'.profile) BY DEF GateInv
    <2> QED BY <2>2, <2>3, <2>4, <1>0 DEF GateInv, IsAsk, IsGateTurn
<1> QED BY <1>1, <1>2, <1>3

(* Past the tunnel's card a call of the screen has its leave of the network. *)
LEMMA PastTunnelHolds ==
    ASSUME GateInv, PastTunnel, Gate # "deny", Gate = "ask" => GateYes
    PROVE  /\ turn.gate # "deny"
           /\ (turn.gate = "ask" \/ AskByRule(ask.tool)) => turn.yes = "gate"
           /\ ask.tool = "computer" => ~turn.hold
           /\ turn.tunnel = "on" /\ ask.tool = "computer" =>
                /\ turn.egress # "never"
                /\ turn.egress = "always" \/ turn.yes # "none" \/ turn.review # "off"
<1>0. IsGateTurn(turn) BY DEF GateInv
<1>1. turn.gate # "deny" /\ ((turn.gate = "ask" \/ AskByRule(ask.tool)) => turn.yes = "gate")
    BY <1>0 DEF Gate, GateYes, IsGateTurn
<1>2. ask.tool = "computer" => ~turn.hold
    BY DEF PastTunnel, PastEarly, OnComputer
<1>3. turn.tunnel = "on" /\ ask.tool = "computer" => turn.egress # "never"
    BY DEF PastTunnel, PastEarly, OnComputer, NetworkOff
<1>4. Gate \in {"ask", "allow", "deny"}
    BY <1>0 DEF Gate, IsGateTurn
<1>5. turn.tunnel = "on" /\ ask.tool = "computer" => turn.egress = "always" \/ turn.yes # "none" \/ turn.review # "off"
    <2> SUFFICES ASSUME turn.tunnel = "on", ask.tool = "computer"
                 PROVE turn.egress = "always" \/ turn.yes # "none" \/ turn.review # "off" OBVIOUS
    <2>1. CASE GateYes BY <2>1 DEF GateYes
    <2>2. CASE ~GateYes
        <3>1. Gate = "allow" BY <2>2, <1>4
        <3>2. ~TunnelAsks BY <3>1, <2>2 DEF PastTunnel
        <3>3. ReviewYes \/ Consented \/ ReviewActive BY <3>2 DEF TunnelAsks, OnComputer
        <3> QED BY <3>3, <1>0 DEF ReviewYes, Consented, ReviewActive, IsGateTurn
    <2> QED BY <2>1, <2>2
<1> QED BY <1>1, <1>2, <1>3, <1>5

LEMMA GatesGoOn == GateInv /\ [GateNext]_gateVars => GateInv'
<1> SUFFICES ASSUME GateInv, [GateNext]_gateVars PROVE GateInv' OBVIOUS
<1>0. /\ IsAsk(ask) /\ IsGateTurn(turn) /\ IsRules(rules.ceiling) /\ IsRules(rules.profile)
      /\ ask.pc # "ran" => "tunnel" \notin passed
    BY DEF GateInv
<1>1. CASE TurnBuilt
    <2>1. PICK t \in Turns, yes \in {"none", "review", "gate"} :
              turn' = [review |-> t.review, tunnel |-> t.tunnel, egress |-> t.egress,
                       hold |-> t.hold, gate |-> Decide(rules, ask.tool), yes |-> yes,
                       consented |-> yes = "review" /\ OnComputer(ask.tool)]
        <3> DEFINE y == IF ask.pc = "called" THEN "none" ELSE IF ask.card = "review" THEN "review" ELSE "gate"
        <3>1. y \in {"none", "review", "gate"} OBVIOUS
        <3> QED BY <3>1, <1>1 DEF TurnBuilt
    <2>2. Decide(rules, ask.tool) \in {"deny", "ask", "allow"} BY DEF Decide
    <2>3. IsGateTurn(turn') BY <2>1, <2>2 DEF IsGateTurn
    <2>4. ask' = [ask EXCEPT !.pc = "gates"] /\ ask.pc \in {"called", "parked"} /\ rules' = rules /\ passed' = passed
        BY <1>1 DEF TurnBuilt
    <2>5. IsAsk(ask') /\ ask'.pc = "gates" BY <2>4, <1>0 DEF IsAsk
    <2> QED BY <2>3, <2>4, <2>5, GateStill DEF IsAsk, IsGateTurn
<1>2. CASE RulesEdited
    <2>1. /\ ask.pc = "parked" /\ turn' = turn /\ ask' = ask /\ passed' = passed
          /\ rules' \in {[rules EXCEPT !.ceiling = NoTools], [rules EXCEPT !.revoked = TRUE],
                   [rules EXCEPT !.ceiling = AllTools, !.profile = AllTools,
                                 !.revoked = FALSE, !.approvals = Only({Named(ask.tool)})]}
        BY <1>2 DEF RulesEdited
    <2>2. rules = [ceiling |-> rules.ceiling, profile |-> rules.profile,
                   approvals |-> rules.approvals, revoked |-> rules.revoked]
        BY DEF GateInv
    <2>3. \E c \in {rules.ceiling, NoTools, AllTools}, p \in {rules.profile, AllTools} : \E a, r :
              rules' = [ceiling |-> c, profile |-> p, approvals |-> a, revoked |-> r]
        <3>1. CASE rules' = [rules EXCEPT !.ceiling = NoTools]
            <4>1. rules' = [ceiling |-> NoTools, profile |-> rules.profile,
                            approvals |-> rules.approvals, revoked |-> rules.revoked]
                BY <3>1, <2>2
            <4> QED BY <4>1
        <3>2. CASE rules' = [rules EXCEPT !.revoked = TRUE]
            <4>1. rules' = [ceiling |-> rules.ceiling, profile |-> rules.profile,
                            approvals |-> rules.approvals, revoked |-> TRUE]
                BY <3>2, <2>2
            <4> QED BY <4>1
        <3>3. CASE rules' = [rules EXCEPT !.ceiling = AllTools, !.profile = AllTools,
                                          !.revoked = FALSE, !.approvals = Only({Named(ask.tool)})]
            <4>1. rules' = [ceiling |-> AllTools, profile |-> AllTools,
                            approvals |-> Only({Named(ask.tool)}), revoked |-> FALSE]
                BY <3>3, <2>2
            <4> QED BY <4>1
        <3> QED BY <2>1, <3>1, <3>2, <3>3
    <2>4. /\ IsRules(rules'.ceiling) /\ IsRules(rules'.profile)
          /\ rules' = [ceiling |-> rules'.ceiling, profile |-> rules'.profile,
                       approvals |-> rules'.approvals, revoked |-> rules'.revoked]
        BY <2>3, <1>0 DEF IsRules
    <2> QED BY <2>1, <2>4, <1>0 DEF GateInv, IsAsk, IsGateTurn, IsRules
<1>3. CASE EarlyRefusal
    <2>1. ask.pc = "gates" /\ ask' = [ask EXCEPT !.pc = "refused"] /\ rules' = rules /\ turn' = turn /\ passed' = passed
        BY <1>3 DEF EarlyRefusal, GateRefuses
    <2>2. IsAsk(ask') /\ ask'.pc = "refused" BY <2>1, <1>0 DEF IsAsk
    <2> QED BY <2>1, <2>2, <1>0, GateStill DEF IsAsk, IsGateTurn
<1>4. CASE TunnelCard
    <2>1. ask.pc = "gates" /\ rules' = rules /\ turn' = turn /\ passed' = passed
        BY <1>4 DEF TunnelCard, PastEarly
    <2>2. ask' = [ask EXCEPT !.pc = "refused"] \/ ask' = [ask EXCEPT !.pc = "parked", !.card = "review"]
        BY <1>4 DEF TunnelCard, GateRefuses, Parks
    <2>3. IsAsk(ask') /\ ask'.pc \in {"refused", "parked"} BY <2>2, <1>0 DEF IsAsk
    <2> QED BY <2>1, <2>3, <1>0, GateStill DEF IsAsk, IsGateTurn
<1>5. CASE JudgeAsked
    <2>1. /\ PastTunnel /\ Gate # "deny" /\ ask.pc = "gates" /\ rules' = rules /\ turn' = turn
        BY <1>5 DEF JudgeAsked, PastTunnel, PastEarly
    <2>2. CASE Goes(Combine(Gate, "block")) /\ passed' = passed
        <3>1. Combine(Gate, "block") = "refuse" BY DEF Combine
        <3> QED BY <2>1, <2>2, <3>1, OutcomeKeeps
    <2>3. ASSUME NEW v \in Verdicts, Goes(Combine(Gate, Judged(v))),
                 passed' = IF v = "allow" THEN passed \cup {"judge"} ELSE passed
          PROVE  GateInv'
        <3> DEFINE j == Judged(v)
        <3>1. j \in {"allow", "block", "ask"} /\ (j = "allow" => v = "allow")
            BY DEF Judged
        <3>2. Goes(Combine(Gate, j)) BY <2>3
        <3>3. passed' \in {passed, passed \cup {"judge"}} /\ (v = "allow" => "judge" \in passed')
            BY <2>3
        <3> HIDE DEF j
        <3>4. Combine(Gate, j) \in {"refuse", "gate", "review", "run"} BY DEF Combine
        <3>5. Combine(Gate, j) = "run" => (Gate = "ask" => GateYes) /\ j # "ask" /\ j # "block" BY DEF Combine
        <3>6. CASE Combine(Gate, j) # "run"
            BY <3>6, <3>2, <3>3, <3>4, <2>1, OutcomeKeeps
        <3>7. CASE Combine(Gate, j) = "run"
            <4>1. "judge" \in passed' BY <3>7, <3>5, <3>1, <3>3
            <4>2. Gate = "ask" => GateYes BY <3>7, <3>5
            <4> QED BY <4>1, <4>2, <3>7, <3>2, <3>3, <2>1, OutcomeKeeps, PastTunnelHolds
        <3> QED BY <3>6, <3>7
    <2> QED BY <2>2, <2>3, <1>5 DEF JudgeAsked
<1>6. CASE JudgePassedBy
    <2>1. /\ PastTunnel /\ ask.pc = "gates" /\ rules' = rules /\ turn' = turn /\ passed' = passed
          /\ Goes(Combine(Gate, "none")) /\ (~ReviewActive \/ ReviewYes \/ Gate = "deny")
        BY <1>6 DEF JudgePassedBy, PastTunnel, PastEarly
    <2>2. Combine(Gate, "none") \in {"refuse", "gate", "review", "run"} BY DEF Combine
    <2>3. Combine(Gate, "none") = "run" => Gate # "deny" /\ (Gate = "ask" => GateYes) BY DEF Combine
    <2>4. CASE Combine(Gate, "none") # "run"
        BY <2>4, <2>1, <2>2, OutcomeKeeps
    <2>5. CASE Combine(Gate, "none") = "run"
        <3>1. Gate # "deny" /\ (Gate = "ask" => GateYes) BY <2>5, <2>3
        <3>2. turn.review # "off" => turn.yes # "none"
            BY <3>1, <2>1 DEF ReviewActive, ReviewYes
        <3> QED BY <3>1, <3>2, <2>1, <2>5, OutcomeKeeps, PastTunnelHolds
    <2> QED BY <2>4, <2>5
<1>7. ASSUME NEW s, BoxFound(s) PROVE GateInv'
    <2>1. ask.pc = "box" /\ rules' = rules /\ turn' = turn /\ passed' = passed
        BY <1>7 DEF BoxFound
    <2>2. CASE ask' = [ask EXCEPT !.pc = "awake"]
        <3>1. IsAsk(ask') /\ ask'.pc = "awake" /\ ask'.tool = ask.tool BY <2>2, <1>0 DEF IsAsk
        <3>2. Admitted' BY <2>1, <3>1 DEF GateInv, Admitted, AskByRule
        <3> QED BY <2>1, <3>1, <3>2, <1>0 DEF GateInv, IsAsk, IsGateTurn
    <2>3. CASE GateRefuses
        <3>1. IsAsk(ask') /\ ask'.pc = "refused" BY <2>3, <1>0 DEF IsAsk, GateRefuses
        <3> QED BY <2>1, <3>1, <1>0, GateStill DEF IsAsk, IsGateTurn
    <2> QED BY <2>2, <2>3, <1>7 DEF BoxFound
<1>8. CASE Elsewhere
    <2>1. ask.pc = "box" /\ rules' = rules /\ turn' = turn /\ passed' = passed /\ ask' = [ask EXCEPT !.pc = "awake"]
        BY <1>8 DEF Elsewhere
    <2>2. IsAsk(ask') /\ ask'.pc = "awake" /\ ask'.tool = ask.tool BY <2>1, <1>0 DEF IsAsk
    <2>3. Admitted' BY <2>1, <2>2 DEF GateInv, Admitted, AskByRule
    <2> QED BY <2>1, <2>2, <2>3, <1>0 DEF GateInv, IsAsk, IsGateTurn
<1>9. ASSUME NEW there, RunsCall(there) PROVE GateInv'
    <2> DEFINE late == turn.tunnel = "after wake" /\ there /\ OnComputer(ask.tool)
    <2>1. ask.pc = "awake" /\ rules' = rules /\ turn' = turn /\ Admitted
        BY <1>9 DEF RunsCall, GateInv
    <2>2. CASE GateRefuses /\ passed' = passed
        <3>1. IsAsk(ask') /\ ask'.pc = "refused" BY <2>2, <1>0 DEF IsAsk, GateRefuses
        <3> QED BY <2>1, <2>2, <3>1, <1>0, GateStill DEF IsAsk, IsGateTurn
    <2>3. CASE Parks("review") /\ passed' = passed
        <3>1. IsAsk(ask') /\ ask'.pc = "parked" BY <2>3, <1>0 DEF IsAsk, Parks
        <3> QED BY <2>1, <2>3, <3>1, <1>0, GateStill DEF IsAsk, IsGateTurn
    <2>4. CASE /\ ask' = [ask EXCEPT !.pc = "ran"]
               /\ passed' = passed \cup (IF late \/ turn.tunnel = "on" THEN {"tunnel"} ELSE {})
               /\ late => turn.egress # "never" /\ ~(TunnelAsks /\ ~GateYes)
        <3>1. IsAsk(ask') /\ ask'.pc = "ran" /\ ask'.tool = ask.tool BY <2>4, <1>0 DEF IsAsk
        <3>2. Admitted' BY <2>1, <2>4, <3>1 DEF Admitted, AskByRule
        <3>3. "tunnel" \in passed' => late \/ turn.tunnel = "on"
            BY <2>1, <2>4, <1>0
        <3>4. late => ask.tool = "computer" /\ turn.egress # "never"
                       /\ (turn.egress = "always" \/ turn.yes # "none" \/ turn.review # "off")
            BY <2>4, <1>0 DEF TunnelAsks, GateYes, ReviewYes, Consented, ReviewActive, OnComputer, IsGateTurn
        <3>5. "tunnel" \in passed' /\ ask'.tool = "computer" =>
                  /\ turn'.egress # "never"
                  /\ turn'.egress = "always" \/ turn'.yes # "none" \/ turn'.review # "off"
            <4> HIDE DEF late
            <4> QED BY <2>1, <3>1, <3>3, <3>4 DEF Admitted
        <3>6. EveryGatePassed'
            BY <3>2, <3>5 DEF EveryGatePassed, Admitted
        <3> QED BY <2>1, <3>1, <3>2, <3>6, <1>0 DEF GateInv, IsAsk, IsGateTurn
    <2> QED BY <2>2, <2>3, <2>4, <1>9 DEF RunsCall
<1>10. CASE UNCHANGED gateVars
    BY <1>10 DEF gateVars, GateInv, IsAsk, IsGateTurn, IsRules, Admitted, EveryGatePassed, AskByRule
<1> QED BY <1>1, <1>2, <1>3, <1>4, <1>5, <1>6, <1>7, <1>8, <1>9, <1>10 DEF GateNext

(* What holds of gates (policy intersect, the executor's combine): a ceiling and a profile meet
   exactly, and a call that ran passed every gate of the executor that ran it. *)
THEOREM CallsPassTheirGates == GateSpec => []GatesHold
<1>1. GateInv => GatesHold
    <2> SUFFICES ASSUME GateInv PROVE GatesHold OBVIOUS
    <2>1. MeetIsExact
        BY Meets DEF GateInv, MeetIsExact
    <2>2. ask.pc = "ran" /\ "tunnel" \notin passed => EveryGatePassed
        BY DEF GateInv, Admitted, EveryGatePassed
    <2>3. EveryGatePassed
        BY <2>2 DEF GateInv, EveryGatePassed
    <2> QED BY <2>1, <2>3 DEF GatesHold
<1> QED BY <1>1, GatesStart, GatesGoOn, PTL DEF GateSpec

-----------------------------------------------------------------------------
(* Recipes *)

(* While no version went with a play under way, a play under way has the live row of its own
   bot, and no other is on that bot; and whoever lost the hold has no accepted share. *)
PlayInv ==
    /\ rows \in [PlayIds -> [lease : {"none", "live", "done", "lapsed"}, bot : RecipeBots, version : {0, 1, 2}]]
    /\ played \in [PlayIds -> [pc : {"none", "checked", "playing", "ended"}, bot : RecipeBots, version : {0, 1, 2}]]
    /\ ~unfenced =>
         \A i \in PlayIds : played[i].pc = "playing" =>
            /\ rows[i].lease = "live" /\ rows[i].bot = played[i].bot
            /\ \A k \in PlayIds \ {i} : played[k].pc = "playing" => played[k].bot # played[i].bot

HoldInv ==
    /\ answering \in {NoAnswer} \cup [pc : {"read", "declined"}, accept : BOOLEAN, direct : BOOLEAN]
    /\ lostHold => ownShare.answer # "accepted"
    /\ ~strayPlay

LEMMA RecipesStart == RecipeInit => PlayInv /\ HoldInv
<1> SUFFICES ASSUME RecipeInit PROVE PlayInv /\ HoldInv OBVIOUS
<1>1. PlayInv BY DEF RecipeInit, PlayInv, NoPlay, NoPlayRow, RecipeBots
<1>2. HoldInv BY DEF RecipeInit, HoldInv, NoAnswer
<1> QED BY <1>1, <1>2

LEMMA HoldsGoOn == HoldInv /\ [RecipeNext]_recipeVars => HoldInv'
<1> SUFFICES ASSUME HoldInv, [RecipeNext]_recipeVars PROVE HoldInv' OBVIOUS
<1>1. CASE ShareWithGuest BY <1>1 DEF ShareWithGuest, HoldInv
<1>2. CASE ShareWithOrg BY <1>2 DEF ShareWithOrg, HoldInv
<1>3. ASSUME NEW s \in {"account", "org"}, Unshare(s) PROVE HoldInv'
    <2>1. answering' = answering /\ strayPlay' = strayPlay BY <1>3 DEF Unshare
    <2>2. CASE s = "account" \/ ownShare.via = "org"
        <3>1. ownShare' = NoShare BY <1>3, <2>2 DEF Unshare
        <3> QED BY <2>1, <3>1 DEF HoldInv, NoShare
    <2>3. CASE ~(s = "account" \/ ownShare.via = "org")
        <3>1. ownShare' = ownShare /\ (lostHold' <=> lostHold) BY <1>3, <2>3 DEF Unshare
        <3> QED BY <2>1, <3>1 DEF HoldInv
    <2> QED BY <2>2, <2>3
<1>4. ASSUME NEW a \in BOOLEAN, ShareRead(a) PROVE HoldInv'
    BY <1>4 DEF ShareRead, HoldInv
<1>5. CASE AnswerWritten
    <2>1. /\ answering.pc = "read" /\ strayPlay' = strayPlay
          /\ answering' = IF answering.accept THEN NoAnswer ELSE [answering EXCEPT !.pc = "declined"]
        BY <1>5 DEF AnswerWritten
    <2>2. answering \in [pc : {"read", "declined"}, accept : BOOLEAN, direct : BOOLEAN]
        BY <2>1 DEF HoldInv, NoAnswer
    <2>4. answering' \in {NoAnswer} \cup [pc : {"read", "declined"}, accept : BOOLEAN, direct : BOOLEAN]
        BY <2>1, <2>2
    <2>3. lostHold' => ownShare'.answer # "accepted"
        BY <1>5, <2>2 DEF AnswerWritten, HoldInv
    <2> QED BY <2>1, <2>3, <2>4 DEF HoldInv
<1>6. CASE DeclineDrops BY <1>6 DEF DeclineDrops, HoldInv, NoAnswer
<1>7. CASE GrantChecked BY <1>7 DEF GrantChecked, HoldInv
<1>8. CASE GrantWritten BY <1>8 DEF GrantWritten, HoldInv
<1>9. CASE OwnerGrants BY <1>9 DEF OwnerGrants, HoldInv
<1>10. CASE RecipeRemoved BY <1>10 DEF RecipeRemoved, HoldInv
<1>11. CASE VersionAdded BY <1>11 DEF VersionAdded, HoldInv
<1>12. CASE VersionRunsDropped BY <1>12 DEF VersionRunsDropped, HoldInv
<1>13. CASE VersionRemoved BY <1>13 DEF VersionRemoved, HoldInv
<1>14. ASSUME NEW b \in RecipeBots, Revoke(b) PROVE HoldInv'
    BY <1>14 DEF Revoke, HoldInv
<1>15. ASSUME NEW i \in PlayIds, NEW b \in RecipeBots, ToolChecked(i, b) PROVE HoldInv'
    BY <1>15 DEF ToolChecked, GrantStillHeld, HoldInv
<1>16. ASSUME NEW i \in PlayIds, NEW b \in RecipeBots, PersonRuns(i, b) PROVE HoldInv'
    BY <1>16 DEF PersonRuns, HoldInv
<1>17. ASSUME NEW i \in PlayIds, PlayStarted(i) \/ PlayRefused(i) \/ PlayRecorded(i) \/ PlayLost(i) \/ LeaseLapses(i)
       PROVE HoldInv'
    BY <1>17 DEF PlayStarted, PlayRefused, PlayRecorded, PlayLost, LeaseLapses, HoldInv
<1>18. CASE UNCHANGED recipeVars BY <1>18 DEF recipeVars, HoldInv
<1> QED BY <1>1, <1>2, <1>3, <1>4, <1>5, <1>6, <1>7, <1>8, <1>9, <1>10, <1>11, <1>12, <1>13, <1>14,
           <1>15, <1>16, <1>17, <1>18 DEF RecipeNext

(* What stands still of the plays, or ends one of them. *)
LEMMA PlayEnds ==
    ASSUME PlayInv, NEW i \in PlayIds, played' = [played EXCEPT ![i] = PlayEnded], unfenced' = unfenced,
           rows' \in [PlayIds -> [lease : {"none", "live", "done", "lapsed"}, bot : RecipeBots, version : {0, 1, 2}]],
           \A k \in PlayIds \ {i} : rows[k].lease = "live" => rows'[k] = rows[k]
    PROVE  PlayInv'
<1>1. PlayEnded \in [pc : {"none", "checked", "playing", "ended"}, bot : RecipeBots, version : {0, 1, 2}] /\ PlayEnded.pc = "ended"
    BY DEF PlayEnded, NoPlay, RecipeBots
<1>2. played' \in [PlayIds -> [pc : {"none", "checked", "playing", "ended"}, bot : RecipeBots, version : {0, 1, 2}]]
    BY <1>1 DEF PlayInv
<1>3. \A k \in PlayIds : played'[k].pc = "playing" => k # i /\ played'[k] = played[k]
    BY <1>1 DEF PlayInv
<1> QED BY <1>2, <1>3 DEF PlayInv

LEMMA PlayAsked ==
    ASSUME PlayInv, NEW i \in PlayIds, NEW b \in RecipeBots,
           played' = [played EXCEPT ![i] = [pc |-> "checked", bot |-> b, version |-> Runnable]],
           unfenced' = unfenced, rows' = rows
    PROVE  PlayInv'
<1>1. Runnable \in {0, 1, 2} BY DEF Runnable
<1>2. [pc |-> "checked", bot |-> b, version |-> Runnable]
          \in [pc : {"none", "checked", "playing", "ended"}, bot : RecipeBots, version : {0, 1, 2}]
    BY <1>1
<1>3. played' \in [PlayIds -> [pc : {"none", "checked", "playing", "ended"}, bot : RecipeBots, version : {0, 1, 2}]]
    BY <1>2 DEF PlayInv
<1>4. \A k \in PlayIds : played'[k].pc = "playing" => k # i /\ played'[k] = played[k]
    BY DEF PlayInv
<1> QED BY <1>3, <1>4 DEF PlayInv

LEMMA PlaysGoOn == PlayInv /\ [RecipeNext]_recipeVars => PlayInv'
<1> SUFFICES ASSUME PlayInv, [RecipeNext]_recipeVars PROVE PlayInv' OBVIOUS
<1> DEFINE Rows == [PlayIds -> [lease : {"none", "live", "done", "lapsed"}, bot : RecipeBots, version : {0, 1, 2}]]
<1>1. CASE rows' = rows /\ played' = played /\ unfenced' = unfenced
    BY <1>1 DEF PlayInv
<1>2. CASE VersionRunsDropped
    <2>1. /\ rows' = [i \in PlayIds |-> IF rows[i].version = 2 THEN NoPlayRow ELSE rows[i]]
          /\ unfenced' = (unfenced \/ \E i \in PlayIds : rows[i].version = 2 /\ rows[i].lease = "live")
          /\ played' = played
        BY <1>2 DEF VersionRunsDropped
    <2>2. NoPlayRow \in [lease : {"none", "live", "done", "lapsed"}, bot : RecipeBots, version : {0, 1, 2}]
        BY DEF NoPlayRow, RecipeBots
    <2>3. rows' \in Rows BY <2>1, <2>2 DEF PlayInv
    <2>4. ~unfenced' => \A i \in PlayIds : rows[i].lease = "live" => rows'[i] = rows[i]
        BY <2>1
    <2>5. played' = played /\ (~unfenced' => ~unfenced)
        BY <2>1
    <2>6. ASSUME ~unfenced', NEW i \in PlayIds, played[i].pc = "playing"
          PROVE  /\ rows'[i].lease = "live" /\ rows'[i].bot = played[i].bot
                 /\ \A k \in PlayIds \ {i} : played[k].pc = "playing" => played[k].bot # played[i].bot
        BY <2>4, <2>5, <2>6 DEF PlayInv
    <2> QED BY <2>3, <2>5, <2>6 DEF PlayInv
<1>3. ASSUME NEW i \in PlayIds, NEW b \in RecipeBots, ToolChecked(i, b) \/ PersonRuns(i, b) PROVE PlayInv'
    BY <1>3, PlayAsked DEF ToolChecked, PersonRuns
<1>4. ASSUME NEW i \in PlayIds, PlayStarted(i) PROVE PlayInv'
    <2> DEFINE row == [lease |-> "live", bot |-> played[i].bot, version |-> played[i].version]
    <2>1. /\ played[i].pc = "checked" /\ StartGuard(played[i].bot) /\ unfenced' = unfenced
          /\ played' = [played EXCEPT ![i].pc = "playing"]
          /\ rows' = [rows EXCEPT ![i] = row]
        BY <1>4 DEF PlayStarted
    <2>2. rows' \in Rows BY <2>1 DEF PlayInv
    <2>3. played' \in [PlayIds -> [pc : {"none", "checked", "playing", "ended"}, bot : RecipeBots, version : {0, 1, 2}]]
        BY <2>1 DEF PlayInv
    <2>4. /\ rows'[i].lease = "live" /\ rows'[i].bot = played[i].bot /\ played'[i].bot = played[i].bot
          /\ \A k \in PlayIds \ {i} : rows'[k] = rows[k] /\ played'[k] = played[k]
        BY <2>1 DEF PlayInv
    <2>5. ~unfenced => \A k \in PlayIds \ {i} : played[k].pc = "playing" => played[k].bot # played[i].bot
        BY <2>1 DEF PlayInv, StartGuard
    <2> HIDE DEF row
    <2> QED BY <2>1, <2>2, <2>3, <2>4, <2>5 DEF PlayInv
<1>5. ASSUME NEW i \in PlayIds, PlayRefused(i) \/ PlayLost(i) PROVE PlayInv'
    <2>1. played' = [played EXCEPT ![i] = PlayEnded] /\ rows' = rows /\ unfenced' = unfenced
        BY <1>5 DEF PlayRefused, PlayLost
    <2>2. rows' \in Rows BY <2>1 DEF PlayInv
    <2> QED BY <2>1, <2>2, PlayEnds
<1>6. ASSUME NEW i \in PlayIds, PlayRecorded(i) PROVE PlayInv'
    <2>1. /\ played' = [played EXCEPT ![i] = PlayEnded] /\ unfenced' = unfenced
          /\ rows' = [k \in PlayIds |-> IF Prunes(RowWritten(i), i, k) THEN NoPlayRow ELSE RowWritten(i)[k]]
        BY <1>6 DEF PlayRecorded
    <2>2. RowWritten(i) \in Rows /\ \A k \in PlayIds \ {i} : RowWritten(i)[k] = rows[k]
        BY DEF RowWritten, PlayInv
    <2>3. NoPlayRow \in [lease : {"none", "live", "done", "lapsed"}, bot : RecipeBots, version : {0, 1, 2}]
        BY DEF NoPlayRow, RecipeBots
    <2>4. rows' \in Rows BY <2>1, <2>2, <2>3
    <2>5. \A k \in PlayIds \ {i} : rows[k].lease = "live" => rows'[k] = rows[k]
        BY <2>1, <2>2 DEF Prunes
    <2> QED BY <2>1, <2>4, <2>5, PlayEnds
<1>7. ASSUME NEW i \in PlayIds, LeaseLapses(i) PROVE PlayInv'
    <2>1. /\ played[i].pc # "playing" /\ rows' = [rows EXCEPT ![i].lease = "lapsed"]
          /\ played' = played /\ unfenced' = unfenced
        BY <1>7 DEF LeaseLapses
    <2>2. rows' \in Rows BY <2>1 DEF PlayInv
    <2>3. \A k \in PlayIds \ {i} : rows'[k] = rows[k] BY <2>1 DEF PlayInv
    <2> QED BY <2>1, <2>2, <2>3 DEF PlayInv
<1>8. CASE UNCHANGED recipeVars BY <1>8, <1>1 DEF recipeVars
<1>9. CASE \/ ShareWithGuest \/ ShareWithOrg \/ \E s \in {"account", "org"} : Unshare(s)
           \/ \E a \in BOOLEAN : ShareRead(a)
           \/ AnswerWritten \/ DeclineDrops \/ GrantChecked \/ GrantWritten \/ OwnerGrants
           \/ RecipeRemoved \/ VersionAdded \/ VersionRemoved \/ \E b \in RecipeBots : Revoke(b)
    <2>1. rows' = rows /\ played' = played /\ unfenced' = unfenced
        BY <1>9 DEF ShareWithGuest, ShareWithOrg, Unshare, ShareRead, AnswerWritten, DeclineDrops, GrantChecked,
                    GrantWritten, OwnerGrants, RecipeRemoved, VersionAdded, VersionRemoved, Revoke
    <2> QED BY <2>1, <1>1
<1> QED BY <1>2, <1>3, <1>4, <1>5, <1>6, <1>7, <1>8, <1>9 DEF RecipeNext

(* What holds of plays (start_recipe_run, still_granted, prune_recipe_runs): one at a time on a
   bot's screen with its row in the history, and none after the hold on the recipe went. *)
THEOREM ScreensArePlayedByOne == RecipeSpec => []PlaysHold
<1>1. PlayInv /\ HoldInv => PlaysHold
    BY DEF PlayInv, HoldInv, PlaysHold, OnePlayAScreen, NoPlayAfterTheHold
<1> QED BY <1>1, RecipesStart, HoldsGoOn, PlaysGoOn, PTL DEF RecipeSpec

-----------------------------------------------------------------------------
(* The relay *)

ClerkStates == {RelayIdle} \cup [pc : {"enrol"}, m : Macs, on : BOOLEAN] \cup [pc : {"close"}, ms : SUBSET Macs]

OpenerStates == {RelayIdle} \cup [pc : {"connect"}, m : Macs, tok : Nat]
                    \cup [pc : {"recheck"}, m : Macs, tok : Nat, at : Nat]

MacStates == [tok : Nat, revoked : BOOLEAN, on : BOOLEAN]

(* Only the one who holds the account's lock has read the switches for an enrolment, and what
   was read says on only while something is on. *)
SwitchesInv ==
    /\ mac \in [Macs -> MacStates]
    /\ offAll \in BOOLEAN
    /\ clerk \in [Clerks -> ClerkStates]
    /\ \A k \in Clerks : clerk[k].pc = "enrol" => locked = k /\ (offAll => ~clerk[k].on)
    /\ offAll => SwitchedOn = {}

(* A stream that is open is of the token that serves, or somebody is about to look at it. *)
ServedOrSeenTo(m) ==
    \/ TokenServes(m, held[m].tok)
    \/ \E k \in Clerks : clerk[k].pc = "close" /\ m \in clerk[k].ms
    \/ \E o \in Openers : opener[o].pc = "recheck" /\ opener[o].m = m /\ opener[o].at = held[m].at

StreamsInv ==
    /\ opened \in Nat
    /\ held \in [Macs -> [open : BOOLEAN, tok : Nat, at : Nat]]
    /\ opener \in [Openers -> OpenerStates]
    /\ \A o \in Openers : opener[o].pc = "recheck" =>
          /\ opener[o].at > 0 /\ opener[o].at <= opened
          /\ held[opener[o].m].at = opener[o].at => held[opener[o].m].tok = opener[o].tok
    /\ \A m \in Macs : held[m].open => ServedOrSeenTo(m)

(* A call that waits was sent to a computer its turn read as on, and nobody was told to cancel
   it before it is stopped. *)
CallsInv ==
    /\ relayed \in [RelayTurns -> [pc : {"idle", "ask", "fallback", "wait", "over"}, run : {"fresh", "resumed"},
                                   on : SUBSET Macs, to : Macs \cup {0}, taken : BOOLEAN, stopped : BOOLEAN,
                                   told : {0, 1}]]
    /\ \A t \in RelayTurns :
          /\ relayed[t].pc \in {"idle", "ask"} => relayed[t].to = 0 /\ relayed[t].told = 0
          /\ relayed[t].pc = "wait" /\ ~relayed[t].stopped => relayed[t].told = 0
          /\ relayed[t].to # 0 => relayed[t].to \in relayed[t].on

RelayInv == SwitchesInv /\ StreamsInv /\ CallsInv

LEMMA RelayStarts == RelayInit => RelayInv
<1> SUFFICES ASSUME RelayInit PROVE RelayInv OBVIOUS
<1>1. SwitchesInv
    BY DEF RelayInit, SwitchesInv, MacStates, ClerkStates, Unenrolled, RelayIdle
<1>2. StreamsInv
    BY DEF RelayInit, StreamsInv, OpenerStates, RelayIdle, NoStream
<1>3. CallsInv
    BY DEF RelayInit, CallsInv, RelayFresh
<1> QED BY <1>1, <1>2, <1>3 DEF RelayInv

(* A person's request moves on: only its own state changes, to one of the three. *)
LEMMA ClerkMoves ==
    ASSUME SwitchesInv, NEW k \in Clerks, NEW c \in ClerkStates, clerk' = [clerk EXCEPT ![k] = c]
    PROVE  /\ clerk' \in [Clerks -> ClerkStates]
           /\ clerk'[k] = c /\ \A j \in Clerks \ {k} : clerk'[j] = clerk[j]
BY DEF SwitchesInv

(* A row that changes leaves the streams as they were, where who must close it is on its way. *)
LEMMA RowsChange ==
    ASSUME SwitchesInv, StreamsInv, NEW k \in Clerks, clerk[k].pc # "close",
           held' = held, opened' = opened, opener' = opener,
           \A j \in Clerks \ {k} : clerk'[j] = clerk[j],
           \A m \in Macs : \/ mac'[m] = mac[m]
                           \/ clerk'[k].pc = "close" /\ m \in clerk'[k].ms
                           \/ mac'[m] = [mac[m] EXCEPT !.on = TRUE]
    PROVE  StreamsInv'
<1>1. ASSUME NEW m \in Macs, ServedOrSeenTo(m) PROVE ServedOrSeenTo(m)'
    <2>1. CASE TokenServes(m, held[m].tok)
        <3>1. mac[m] \in MacStates BY DEF SwitchesInv
        <3>2. CASE mac'[m] = mac[m] BY <2>1, <3>2 DEF TokenServes, ServedOrSeenTo
        <3>3. CASE clerk'[k].pc = "close" /\ m \in clerk'[k].ms BY <3>3 DEF ServedOrSeenTo
        <3>4. CASE mac'[m] = [mac[m] EXCEPT !.on = TRUE]
            <4>1. mac'[m].tok = mac[m].tok /\ mac'[m].revoked = mac[m].revoked /\ mac'[m].on = TRUE
                BY <3>1, <3>4 DEF MacStates
            <4> QED BY <2>1, <4>1 DEF TokenServes, ServedOrSeenTo
        <3> QED BY <3>2, <3>3, <3>4
    <2>2. CASE \E j \in Clerks : clerk[j].pc = "close" /\ m \in clerk[j].ms
        <3>1. PICK j \in Clerks : clerk[j].pc = "close" /\ m \in clerk[j].ms BY <2>2
        <3>2. j # k BY <3>1
        <3> QED BY <3>1, <3>2 DEF ServedOrSeenTo
    <2>3. CASE \E o \in Openers : opener[o].pc = "recheck" /\ opener[o].m = m /\ opener[o].at = held[m].at
        BY <2>3 DEF ServedOrSeenTo
    <2> QED BY <1>1, <2>1, <2>2, <2>3 DEF ServedOrSeenTo
<1> QED BY <1>1 DEF StreamsInv

LEMMA ClerksGoOn ==
    ASSUME RelayInv, NEW k \in Clerks,
           \/ EnrolWrites(k) \/ Closed(k) \/ \E on \in BOOLEAN : SwitchedEvery(k, on)
           \/ \E m \in Macs : EnrolReads(k, m) \/ Revoked(k, m) \/ \E on \in BOOLEAN : SwitchedOne(k, m, on)
    PROVE  RelayInv'
<1>0. SwitchesInv /\ StreamsInv /\ CallsInv BY DEF RelayInv
<1>c. relayed' = relayed
    BY DEF EnrolWrites, Closed, SwitchedEvery, EnrolReads, Revoked, SwitchedOne
<1>d. CallsInv' BY <1>0, <1>c DEF CallsInv
<1>i. RelayIdle.pc = "idle" /\ RelayIdle \in ClerkStates BY DEF RelayIdle, ClerkStates
<1>1. CASE EnrolWrites(k)
    <2> DEFINE m == clerk[k].m
               r == [tok |-> mac[m].tok + 1, revoked |-> FALSE, on |-> IF m \in InUse THEN mac[m].on ELSE clerk[k].on]
               c == [pc |-> "close", ms |-> {m}]
    <2>1. /\ clerk[k].pc = "enrol" /\ mac' = [mac EXCEPT ![m] = r] /\ clerk' = [clerk EXCEPT ![k] = c]
          /\ offAll' = offAll /\ held' = held /\ opened' = opened /\ opener' = opener
        BY <1>1 DEF EnrolWrites
    <2>2. clerk[k] \in [pc : {"enrol"}, m : Macs, on : BOOLEAN]
        BY <1>0, <2>1 DEF SwitchesInv, ClerkStates, RelayIdle
    <2>3. m \in Macs /\ c \in ClerkStates /\ c.pc = "close" /\ c.ms = {m} BY <2>2 DEF ClerkStates
    <2>4. mac[m] \in MacStates BY <1>0, <2>3 DEF SwitchesInv
    <2>5. r \in MacStates BY <2>2, <2>4 DEF MacStates
    <2>6. r.on = (IF m \in InUse THEN mac[m].on ELSE clerk[k].on) OBVIOUS
    <2>7. \A j \in Clerks \ {k} : clerk[j].pc # "enrol"
        BY <1>0, <2>1 DEF SwitchesInv
    <2>8. offAll => ~clerk[k].on BY <1>0, <2>1 DEF SwitchesInv
    <2> HIDE DEF r, c
    <2>9. clerk' \in [Clerks -> ClerkStates] /\ clerk'[k] = c /\ \A j \in Clerks \ {k} : clerk'[j] = clerk[j]
        BY <1>0, <2>1, <2>3, ClerkMoves
    <2>10. mac' \in [Macs -> MacStates] /\ mac'[m] = r /\ \A n \in Macs \ {m} : mac'[n] = mac[n]
        BY <1>0, <2>1, <2>3, <2>5 DEF SwitchesInv
    <2>11. offAll => SwitchedOn' = {}
        <3> SUFFICES ASSUME offAll, NEW n \in Macs, n \in SwitchedOn' PROVE FALSE
            BY DEF SwitchedOn, InUse
        <3>1. mac'[n].on BY DEF SwitchedOn
        <3>2. CASE n = m
            <4>1. r.on BY <3>1, <3>2, <2>10
            <4>2. m \in InUse /\ mac[m].on BY <4>1, <2>6, <2>8
            <4> QED BY <4>2, <1>0 DEF SwitchesInv, SwitchedOn
        <3>3. CASE n # m
            <4>1. n \in SwitchedOn BY <3>3, <2>10 DEF SwitchedOn, InUse
            <4> QED BY <4>1, <1>0 DEF SwitchesInv
        <3> QED BY <3>2, <3>3
    <2>12. SwitchesInv'
        BY <1>0, <2>1, <2>3, <2>7, <2>9, <2>10, <2>11 DEF SwitchesInv
    <2>13. StreamsInv'
        <3>1. clerk[k].pc # "close" BY <2>1
        <3>2. \A n \in Macs : mac'[n] = mac[n] \/ (clerk'[k].pc = "close" /\ n \in clerk'[k].ms)
            BY <2>3, <2>9, <2>10
        <3> QED BY <1>0, <2>1, <2>9, <3>1, <3>2, RowsChange
    <2> QED BY <1>d, <2>12, <2>13 DEF RelayInv
<1>2. CASE Closed(k)
    <2>1. /\ clerk[k].pc = "close" /\ clerk' = [clerk EXCEPT ![k] = RelayIdle]
          /\ held' = [m \in Macs |-> IF m \in clerk[k].ms THEN NoStream ELSE held[m]]
          /\ mac' = mac /\ locked' = locked /\ offAll' = offAll /\ opened' = opened /\ opener' = opener
        BY <1>2 DEF Closed
    <2>2. clerk' \in [Clerks -> ClerkStates] /\ clerk'[k] = RelayIdle /\ \A j \in Clerks \ {k} : clerk'[j] = clerk[j]
        BY <1>0, <1>i, <2>1, ClerkMoves
    <2>3. SwitchesInv'
        BY <1>0, <1>i, <2>1, <2>2 DEF SwitchesInv, SwitchedOn, InUse
    <2>4. NoStream \in [open : BOOLEAN, tok : Nat, at : Nat] /\ ~NoStream.open /\ NoStream.at = 0
        BY DEF NoStream
    <2>5. held' \in [Macs -> [open : BOOLEAN, tok : Nat, at : Nat]]
        BY <1>0, <2>1, <2>4 DEF StreamsInv
    <2>6. \A o \in Openers : opener[o].pc = "recheck" => opener[o].m \in Macs /\ opener[o].at \in Nat
        BY <1>0 DEF StreamsInv, OpenerStates, RelayIdle
    <2>7. \A o \in Openers : opener'[o].pc = "recheck" =>
              /\ opener'[o].at > 0 /\ opener'[o].at <= opened'
              /\ held'[opener'[o].m].at = opener'[o].at => held'[opener'[o].m].tok = opener'[o].tok
        BY <1>0, <2>1, <2>4, <2>6 DEF StreamsInv
    <2>8. ASSUME NEW m \in Macs, held'[m].open PROVE ServedOrSeenTo(m)'
        <3>1. m \notin clerk[k].ms /\ held'[m] = held[m] BY <2>1, <2>4, <2>8
        <3>2. ServedOrSeenTo(m) BY <1>0, <2>8, <3>1 DEF StreamsInv
        <3>3. \A j \in Clerks : clerk[j].pc = "close" /\ m \in clerk[j].ms => clerk'[j] = clerk[j]
            BY <2>2, <3>1
        <3> QED BY <2>1, <3>1, <3>2, <3>3 DEF ServedOrSeenTo, TokenServes
    <2>9. StreamsInv' BY <1>0, <2>1, <2>5, <2>7, <2>8 DEF StreamsInv
    <2> QED BY <1>d, <2>3, <2>9 DEF RelayInv
<1>3. ASSUME NEW on \in BOOLEAN, SwitchedEvery(k, on) PROVE RelayInv'
    <2> DEFINE ons == {m \in Macs : mac[m].tok > 0}
               c == IF on THEN RelayIdle ELSE [pc |-> "close", ms |-> ons]
    <2>1. /\ clerk[k] = RelayIdle /\ locked = "nobody" /\ clerk' = [clerk EXCEPT ![k] = c]
          /\ mac' = [m \in Macs |-> IF m \in ons THEN [mac[m] EXCEPT !.on = on] ELSE mac[m]]
          /\ offAll' = (~on /\ InUse # {})
          /\ locked' = locked /\ held' = held /\ opened' = opened /\ opener' = opener
        BY <1>3 DEF SwitchedEvery, LockFree
    <2>2. c \in ClerkStates /\ c.pc \in {"idle", "close"} /\ (~on => c.pc = "close" /\ c.ms = ons)
        BY <1>i DEF ClerkStates
    <2> HIDE DEF c
    <2>3. clerk' \in [Clerks -> ClerkStates] /\ clerk'[k] = c /\ \A j \in Clerks \ {k} : clerk'[j] = clerk[j]
        BY <1>0, <2>1, <2>2, ClerkMoves
    <2>4. \A m \in Macs : mac[m] \in MacStates BY <1>0 DEF SwitchesInv
    <2>5. mac' \in [Macs -> MacStates]
        BY <2>1, <2>4 DEF MacStates
    <2>6. \A j \in Clerks : clerk'[j].pc # "enrol"
        BY <1>0, <2>1, <2>2, <2>3, RelayAssumption DEF SwitchesInv
    <2>7. offAll' => SwitchedOn' = {}
        <3> SUFFICES ASSUME ~on, NEW m \in Macs, m \in SwitchedOn' PROVE FALSE
            BY <2>1 DEF SwitchedOn, InUse
        <3>1. mac'[m].on /\ mac'[m].tok > 0 BY DEF SwitchedOn, InUse
        <3>2. CASE m \in ons BY <2>1, <2>4, <3>1, <3>2 DEF MacStates
        <3>3. CASE m \notin ons BY <2>1, <3>1, <3>3
        <3> QED BY <3>2, <3>3
    <2>8. SwitchesInv'
        BY <2>1, <2>3, <2>5, <2>6, <2>7 DEF SwitchesInv
    <2>9. \A m \in Macs : \/ mac'[m] = mac[m]
                          \/ clerk'[k].pc = "close" /\ m \in clerk'[k].ms
                          \/ mac'[m] = [mac[m] EXCEPT !.on = TRUE]
        BY <2>1, <2>2, <2>3
    <2>10. StreamsInv'
        <3>1. clerk[k].pc # "close" BY <2>1, <1>i
        <3> QED BY <1>0, <2>1, <2>3, <2>9, <3>1, RowsChange
    <2> QED BY <1>d, <2>8, <2>10 DEF RelayInv
<1>4. ASSUME NEW m \in Macs, EnrolReads(k, m) PROVE RelayInv'
    <2>1. PICK b \in BOOLEAN : b = (InUse = {} \/ SwitchedOn # {})
        OBVIOUS
    <2> DEFINE c == [pc |-> "enrol", m |-> m, on |-> b]
    <2>2. /\ clerk[k] = RelayIdle /\ locked = "nobody" /\ locked' = k /\ clerk' = [clerk EXCEPT ![k] = c]
          /\ offAll' = (offAll /\ InUse # {})
          /\ mac' = mac /\ held' = held /\ opened' = opened /\ opener' = opener
        BY <1>4, <2>1 DEF EnrolReads, LockFree
    <2>3. c \in ClerkStates /\ c.pc = "enrol" /\ c.on = b BY DEF ClerkStates
    <2> HIDE DEF c
    <2>4. clerk' \in [Clerks -> ClerkStates] /\ clerk'[k] = c /\ \A j \in Clerks \ {k} : clerk'[j] = clerk[j]
        BY <1>0, <2>2, <2>3, ClerkMoves
    <2>5. \A j \in Clerks \ {k} : clerk[j].pc # "enrol"
        BY <1>0, <2>2, RelayAssumption DEF SwitchesInv
    <2>6. offAll' => ~b BY <1>0, <2>1, <2>2 DEF SwitchesInv
    <2>7. SwitchesInv'
        BY <1>0, <2>2, <2>3, <2>4, <2>5, <2>6 DEF SwitchesInv, SwitchedOn, InUse
    <2>8. StreamsInv'
        <3>1. clerk[k].pc # "close" BY <2>2, <1>i
        <3> QED BY <1>0, <2>2, <2>4, <3>1, RowsChange
    <2> QED BY <1>d, <2>7, <2>8 DEF RelayInv
<1>5. ASSUME NEW m \in Macs, Revoked(k, m) PROVE RelayInv'
    <2> DEFINE c == [pc |-> "close", ms |-> {m}]
    <2>1. /\ clerk[k] = RelayIdle /\ clerk' = [clerk EXCEPT ![k] = c]
          /\ mac' = [mac EXCEPT ![m].revoked = TRUE]
          /\ locked' = locked /\ offAll' = offAll /\ held' = held /\ opened' = opened /\ opener' = opener
        BY <1>5 DEF Revoked
    <2>2. c \in ClerkStates /\ c.pc = "close" /\ c.ms = {m} BY DEF ClerkStates
    <2> HIDE DEF c
    <2>3. clerk' \in [Clerks -> ClerkStates] /\ clerk'[k] = c /\ \A j \in Clerks \ {k} : clerk'[j] = clerk[j]
        BY <1>0, <2>1, <2>2, ClerkMoves
    <2>4. /\ mac' \in [Macs -> MacStates] /\ mac'[m].revoked = TRUE
          /\ \A n \in Macs \ {m} : mac'[n] = mac[n]
        BY <1>0, <2>1 DEF SwitchesInv, MacStates
    <2>5. SwitchedOn' \subseteq SwitchedOn
        BY <2>4 DEF SwitchedOn, InUse
    <2>6. SwitchesInv'
        BY <1>0, <2>1, <2>2, <2>3, <2>4, <2>5 DEF SwitchesInv
    <2>7. StreamsInv'
        <3>1. clerk[k].pc # "close" BY <2>1, <1>i
        <3>2. \A n \in Macs : mac'[n] = mac[n] \/ (clerk'[k].pc = "close" /\ n \in clerk'[k].ms)
            BY <2>2, <2>3, <2>4
        <3> QED BY <1>0, <2>1, <2>3, <3>1, <3>2, RowsChange
    <2> QED BY <1>d, <2>6, <2>7 DEF RelayInv
<1>6. ASSUME NEW m \in Macs, NEW on \in BOOLEAN, SwitchedOne(k, m, on) PROVE RelayInv'
    <2> DEFINE c == IF on THEN RelayIdle ELSE [pc |-> "close", ms |-> {m}]
    <2>1. /\ clerk[k] = RelayIdle /\ clerk' = [clerk EXCEPT ![k] = c]
          /\ mac' = [mac EXCEPT ![m].on = on] /\ offAll' = (offAll /\ ~on)
          /\ locked' = locked /\ held' = held /\ opened' = opened /\ opener' = opener
        BY <1>6 DEF SwitchedOne
    <2>2. c \in ClerkStates /\ c.pc \in {"idle", "close"} /\ (~on => c.pc = "close" /\ c.ms = {m})
        BY <1>i DEF ClerkStates
    <2> HIDE DEF c
    <2>3. clerk' \in [Clerks -> ClerkStates] /\ clerk'[k] = c /\ \A j \in Clerks \ {k} : clerk'[j] = clerk[j]
        BY <1>0, <2>1, <2>2, ClerkMoves
    <2>4. /\ mac' \in [Macs -> MacStates] /\ mac'[m] = [mac[m] EXCEPT !.on = on] /\ mac'[m].on = on
          /\ \A n \in Macs \ {m} : mac'[n] = mac[n]
        BY <1>0, <2>1 DEF SwitchesInv, MacStates
    <2>5. ~on => SwitchedOn' \subseteq SwitchedOn
        BY <2>4 DEF SwitchedOn, InUse
    <2>6. SwitchesInv'
        BY <1>0, <2>1, <2>2, <2>3, <2>4, <2>5 DEF SwitchesInv
    <2>7. StreamsInv'
        <3>1. clerk[k].pc # "close" BY <2>1, <1>i
        <3>2. \A n \in Macs : \/ mac'[n] = mac[n]
                              \/ clerk'[k].pc = "close" /\ n \in clerk'[k].ms
                              \/ mac'[n] = [mac[n] EXCEPT !.on = TRUE]
            BY <2>2, <2>3, <2>4
        <3> QED BY <1>0, <2>1, <2>3, <3>1, <3>2, RowsChange
    <2> QED BY <1>d, <2>6, <2>7 DEF RelayInv
<1> QED BY <1>1, <1>2, <1>3, <1>4, <1>5, <1>6

(* The streams: what opens is looked at again, what ends stays shut. *)
LEMMA OpenersGoOn ==
    ASSUME RelayInv, NEW o \in Openers,
           Connects(o) \/ OpensRechecked(o) \/ \E m \in Macs : OpensChecked(o, m)
    PROVE  RelayInv'
<1>0. SwitchesInv /\ StreamsInv /\ CallsInv BY DEF RelayInv
<1>s. mac' = mac /\ locked' = locked /\ offAll' = offAll /\ clerk' = clerk /\ relayed' = relayed
    BY DEF Connects, OpensRechecked, OpensChecked
<1>c. SwitchesInv' /\ CallsInv'
    BY <1>0, <1>s DEF SwitchesInv, CallsInv, SwitchedOn, InUse
<1>t. \A p \in Openers : opener[p] \in OpenerStates BY <1>0 DEF StreamsInv
<1>r. \A p \in Openers : opener[p].pc = "recheck" => opener[p].m \in Macs /\ opener[p].at \in Nat /\ opener[p].tok \in Nat
    BY <1>t DEF OpenerStates, RelayIdle
<1>1. CASE Connects(o)
    <2> DEFINE m == opener[o].m
               h == [open |-> TRUE, tok |-> opener[o].tok, at |-> opened + 1]
               q == [pc |-> "recheck", m |-> opener[o].m, tok |-> opener[o].tok, at |-> opened + 1]
    <2>1. /\ opener[o].pc = "connect" /\ opened' = opened + 1
          /\ held' = [held EXCEPT ![m] = h] /\ opener' = [opener EXCEPT ![o] = q]
        BY <1>1 DEF Connects
    <2>2. m \in Macs /\ opener[o].tok \in Nat BY <1>t, <2>1 DEF OpenerStates, RelayIdle
    <2>3. opened \in Nat BY <1>0 DEF StreamsInv
    <2>4. h \in [open : BOOLEAN, tok : Nat, at : Nat] /\ h.at = opened + 1 /\ h.tok = opener[o].tok BY <2>2, <2>3
    <2>5. q \in OpenerStates /\ q.pc = "recheck" /\ q.m = m /\ q.tok = opener[o].tok /\ q.at = opened + 1
        BY <2>2, <2>3 DEF OpenerStates
    <2> HIDE DEF h, q
    <2>6. opener' \in [Openers -> OpenerStates] /\ opener'[o] = q /\ \A p \in Openers \ {o} : opener'[p] = opener[p]
        BY <1>0, <2>1, <2>5 DEF StreamsInv
    <2>7. /\ held' \in [Macs -> [open : BOOLEAN, tok : Nat, at : Nat]] /\ held'[m] = h
          /\ \A n \in Macs \ {m} : held'[n] = held[n]
        BY <1>0, <2>1, <2>2, <2>4 DEF StreamsInv
    <2>8. ASSUME NEW p \in Openers, opener'[p].pc = "recheck"
          PROVE  /\ opener'[p].at > 0 /\ opener'[p].at <= opened'
                 /\ held'[opener'[p].m].at = opener'[p].at => held'[opener'[p].m].tok = opener'[p].tok
        <3>1. CASE p = o BY <3>1, <2>1, <2>3, <2>4, <2>5, <2>6, <2>7
        <3>2. CASE p # o
            <4>1. opener'[p] = opener[p] /\ opener[p].pc = "recheck" BY <3>2, <2>6, <2>8
            <4>2. opener[p].at \in Nat /\ opener[p].at > 0 /\ opener[p].at <= opened /\ opener[p].m \in Macs
                BY <4>1, <1>0, <1>r DEF StreamsInv
            <4>3. CASE opener[p].m = m
                BY <4>1, <4>2, <4>3, <2>1, <2>3, <2>4, <2>7
            <4>4. CASE opener[p].m # m
                BY <4>1, <4>2, <4>4, <2>1, <2>3, <2>7, <1>0 DEF StreamsInv
            <4> QED BY <4>3, <4>4
        <3> QED BY <3>1, <3>2
    <2>9. ASSUME NEW n \in Macs, held'[n].open PROVE ServedOrSeenTo(n)'
        <3>1. CASE n = m
            <4>1. opener'[o].pc = "recheck" /\ opener'[o].m = n /\ opener'[o].at = held'[n].at
                BY <3>1, <2>4, <2>5, <2>6, <2>7
            <4> QED BY <4>1 DEF ServedOrSeenTo
        <3>2. CASE n # m
            <4>1. held'[n] = held[n] BY <3>2, <2>7
            <4>2. ServedOrSeenTo(n) BY <1>0, <2>9, <4>1 DEF StreamsInv
            <4>3. \A p \in Openers : opener[p].pc = "recheck" => opener'[p] = opener[p]
                BY <2>1, <2>6
            <4> QED BY <4>1, <4>2, <4>3, <1>s DEF ServedOrSeenTo, TokenServes
        <3> QED BY <3>1, <3>2
    <2>10. opened' \in Nat BY <2>1, <2>3
    <2>11. StreamsInv' BY <2>6, <2>7, <2>8, <2>9, <2>10 DEF StreamsInv
    <2> QED BY <1>c, <2>11 DEF RelayInv
<1>2. CASE OpensRechecked(o)
    <2> DEFINE q == opener[o]
    <2>1. /\ q.pc = "recheck" /\ opener' = [opener EXCEPT ![o] = RelayIdle] /\ opened' = opened
          /\ held' = IF ~TokenServes(q.m, q.tok) /\ held[q.m].at = q.at
                     THEN [held EXCEPT ![q.m].open = FALSE] ELSE held
        BY <1>2 DEF OpensRechecked, Rechecks
    <2>2. q.m \in Macs /\ q.at \in Nat BY <1>r, <2>1
    <2>3. RelayIdle \in OpenerStates /\ RelayIdle.pc = "idle" BY DEF RelayIdle, OpenerStates
    <2>4. opener' \in [Openers -> OpenerStates] /\ opener'[o] = RelayIdle /\ \A p \in Openers \ {o} : opener'[p] = opener[p]
        BY <1>0, <2>1, <2>3 DEF StreamsInv
    <2>5. /\ held' \in [Macs -> [open : BOOLEAN, tok : Nat, at : Nat]]
          /\ \A n \in Macs : held'[n].at = held[n].at /\ held'[n].tok = held[n].tok
          /\ \A n \in Macs : held'[n].open => held[n].open
        BY <1>0, <2>1, <2>2 DEF StreamsInv
    <2>6. held'[q.m].open /\ held[q.m].at = q.at => TokenServes(q.m, q.tok)
        BY <1>0, <2>1, <2>2 DEF StreamsInv
    <2>7. ASSUME NEW n \in Macs, held'[n].open PROVE ServedOrSeenTo(n)'
        <3>1. ServedOrSeenTo(n) BY <1>0, <2>5, <2>7 DEF StreamsInv
        <3>2. CASE TokenServes(n, held[n].tok)
            BY <3>2, <2>5, <1>s DEF ServedOrSeenTo, TokenServes
        <3>3. CASE \E k \in Clerks : clerk[k].pc = "close" /\ n \in clerk[k].ms
            BY <3>3, <1>s DEF ServedOrSeenTo
        <3>4. ASSUME NEW p \in Openers, opener[p].pc = "recheck", opener[p].m = n, opener[p].at = held[n].at
              PROVE  ServedOrSeenTo(n)'
            <4>1. CASE p # o
                <5>1. opener'[p] = opener[p] BY <4>1, <2>4
                <5> QED BY <3>4, <5>1, <2>5 DEF ServedOrSeenTo
            <4>2. CASE p = o
                <5>1. TokenServes(n, q.tok) BY <4>2, <3>4, <2>6, <2>7
                <5>2. held[n].tok = q.tok BY <4>2, <3>4, <1>0 DEF StreamsInv
                <5> QED BY <5>1, <5>2, <2>5, <1>s DEF ServedOrSeenTo, TokenServes
            <4> QED BY <4>1, <4>2
        <3> QED BY <3>1, <3>2, <3>3, <3>4 DEF ServedOrSeenTo
    <2>8. ASSUME NEW p \in Openers, opener'[p].pc = "recheck"
          PROVE  /\ opener'[p].at > 0 /\ opener'[p].at <= opened'
                 /\ held'[opener'[p].m].at = opener'[p].at => held'[opener'[p].m].tok = opener'[p].tok
        <3>1. p # o /\ opener'[p] = opener[p] BY <2>3, <2>4, <2>8
        <3>2. opener[p].pc = "recheck" /\ opener[p].m \in Macs BY <3>1, <2>8, <1>r
        <3> QED BY <3>1, <3>2, <2>1, <2>5, <1>0 DEF StreamsInv
    <2>9. StreamsInv' BY <1>0, <2>1, <2>4, <2>5, <2>7, <2>8 DEF StreamsInv
    <2> QED BY <1>c, <2>9 DEF RelayInv
<1>3. ASSUME NEW m \in Macs, OpensChecked(o, m) PROVE RelayInv'
    <2>1. PICK tok \in 1 .. mac[m].tok : opener' = [opener EXCEPT ![o] = [pc |-> "connect", m |-> m, tok |-> tok]]
        BY <1>3 DEF OpensChecked
    <2>2. opener[o] = RelayIdle /\ held' = held /\ opened' = opened BY <1>3 DEF OpensChecked
    <2>3. mac[m] \in MacStates BY <1>0 DEF SwitchesInv
    <2>4. tok \in Nat BY <2>3 DEF MacStates
    <2> DEFINE q == [pc |-> "connect", m |-> m, tok |-> tok]
    <2>5. q \in OpenerStates /\ q.pc = "connect" BY <2>4 DEF OpenerStates
    <2> HIDE DEF q
    <2>6. opener' \in [Openers -> OpenerStates] /\ opener'[o] = q /\ \A p \in Openers \ {o} : opener'[p] = opener[p]
        BY <1>0, <2>1, <2>5 DEF StreamsInv, q
    <2>7. \A p \in Openers : opener[p].pc = "recheck" => opener'[p] = opener[p]
        BY <2>2, <2>6 DEF RelayIdle
    <2>8. \A p \in Openers : opener'[p].pc = "recheck" => opener'[p] = opener[p]
        BY <2>5, <2>6
    <2>9. \A n \in Macs : ServedOrSeenTo(n) => ServedOrSeenTo(n)'
        BY <2>2, <2>7, <1>s DEF ServedOrSeenTo, TokenServes
    <2>10. StreamsInv' BY <1>0, <2>2, <2>6, <2>8, <2>9 DEF StreamsInv
    <2> QED BY <1>c, <2>10 DEF RelayInv
<1> QED BY <1>1, <1>2, <1>3

LEMMA HangingUpGoesOn ==
    ASSUME RelayInv, NEW m \in Macs, HangsUp(m)
    PROVE  RelayInv'
<1>0. SwitchesInv /\ StreamsInv /\ CallsInv BY DEF RelayInv
<1>1. /\ mac' = mac /\ locked' = locked /\ offAll' = offAll /\ clerk' = clerk /\ relayed' = relayed
      /\ opened' = opened /\ opener' = opener /\ held' = [held EXCEPT ![m].open = FALSE]
    BY DEF HangsUp
<1>2. SwitchesInv' /\ CallsInv'
    BY <1>0, <1>1 DEF SwitchesInv, CallsInv, SwitchedOn, InUse
<1>3. /\ held' \in [Macs -> [open : BOOLEAN, tok : Nat, at : Nat]]
      /\ \A n \in Macs : held'[n].at = held[n].at /\ held'[n].tok = held[n].tok
      /\ \A n \in Macs : held'[n].open => held[n].open
    BY <1>0, <1>1 DEF StreamsInv
<1>4. \A n \in Macs : ServedOrSeenTo(n) => ServedOrSeenTo(n)'
    BY <1>1, <1>3 DEF ServedOrSeenTo, TokenServes
<1>5. \A o \in Openers : opener[o].pc = "recheck" => opener[o].m \in Macs
    BY <1>0 DEF StreamsInv, OpenerStates, RelayIdle
<1>6. StreamsInv' BY <1>0, <1>1, <1>3, <1>4, <1>5 DEF StreamsInv
<1> QED BY <1>2, <1>6 DEF RelayInv

(* A turn's call: one record changes, to one that is as the invariant says. *)
CallStates == [pc : {"idle", "ask", "fallback", "wait", "over"}, run : {"fresh", "resumed"},
               on : SUBSET Macs, to : Macs \cup {0}, taken : BOOLEAN, stopped : BOOLEAN, told : {0, 1}]

IsCall(c) == c = [pc |-> c.pc, run |-> c.run, on |-> c.on, to |-> c.to, taken |-> c.taken,
                  stopped |-> c.stopped, told |-> c.told]

CallOK(c) ==
    /\ c \in CallStates
    /\ c.pc \in {"idle", "ask"} => c.to = 0 /\ c.told = 0
    /\ c.pc = "wait" /\ ~c.stopped => c.told = 0
    /\ c.to # 0 => c.to \in c.on

LEMMA CallMoves ==
    ASSUME RelayInv, NEW t \in RelayTurns, NEW c, CallOK(c), relayed' = [relayed EXCEPT ![t] = c],
           UNCHANGED <<mac, locked, offAll, held, opened, opener, clerk>>
    PROVE  RelayInv'
<1>0. SwitchesInv /\ StreamsInv /\ CallsInv BY DEF RelayInv
<1>1. SwitchesInv' BY <1>0 DEF SwitchesInv, SwitchedOn, InUse
<1>2. \A m \in Macs : ServedOrSeenTo(m) => ServedOrSeenTo(m)' BY DEF ServedOrSeenTo, TokenServes
<1>3. StreamsInv' BY <1>0, <1>2 DEF StreamsInv
<1>4. relayed' \in [RelayTurns -> CallStates] /\ \A u \in RelayTurns : relayed'[u] = IF u = t THEN c ELSE relayed[u]
    BY <1>0 DEF CallsInv, CallOK, CallStates
<1>5. \A u \in RelayTurns : CallOK(relayed'[u])
    BY <1>0, <1>4 DEF CallsInv, CallOK, CallStates
<1>6. CallsInv' BY <1>4, <1>5 DEF CallsInv, CallOK, CallStates
<1> QED BY <1>1, <1>3, <1>6 DEF RelayInv

LEMMA TurnsGoOn ==
    ASSUME RelayInv, NEW t \in RelayTurns,
           \/ Routed(t) \/ Asked(t) \/ RelayStopped(t) \/ RunResumes(t)
           \/ \E m \in Macs : AnswersFrame(t, m)
           \/ \E finished \in BOOLEAN : CallEnds(t, finished)
    PROVE  RelayInv'
<1> DEFINE c == relayed[t]
<1>0. CallOK(c) /\ relayed = [u \in RelayTurns |-> relayed[u]]
    BY DEF RelayInv, CallsInv, CallOK, CallStates
<1>s. IsCall(c) BY <1>0 DEF CallOK, CallStates, IsCall
<1>u. UNCHANGED <<mac, locked, offAll, held, opened, opener, clerk>>
    BY DEF Routed, Asked, RelayStopped, RunResumes, AnswersFrame, CallEnds
<1>1. CASE Routed(t)
    <2>1. PICK p \in {"ask", "fallback", "over"} : relayed' = [relayed EXCEPT ![t].pc = p, ![t].on = SwitchedOn]
        <3> DEFINE p == IF SwitchedOn # {} THEN "ask" ELSE IF relayed[t].run = "fresh" THEN "fallback" ELSE "over"
        <3>1. p \in {"ask", "fallback", "over"} OBVIOUS
        <3> QED BY <3>1, <1>1 DEF Routed
    <2> DEFINE d == [c EXCEPT !.pc = p, !.on = SwitchedOn]
    <2>2. relayed' = [relayed EXCEPT ![t] = d] BY <2>1, <1>0
    <2>3. SwitchedOn \in SUBSET Macs BY DEF SwitchedOn, InUse
    <2>4. c.pc = "idle" BY <1>1 DEF Routed
    <2>5. CallOK(d) BY <1>0, <2>3, <2>4 DEF CallOK, CallStates
    <2> HIDE DEF d
    <2> QED BY <1>u, <2>2, <2>5, CallMoves
<1>2. CASE Asked(t)
    <2> DEFINE to == LatestOf(c.on)
               m == CHOOSE n \in to : TRUE
               d == [c EXCEPT !.pc = "wait", !.to = m, !.taken = FALSE, !.stopped = FALSE, !.told = 0]
               e == [c EXCEPT !.pc = "over"]
    <2>1. to \subseteq c.on BY DEF LatestOf
    <2>2. relayed' = [relayed EXCEPT ![t] = e] \/ (to # {} /\ relayed' = [relayed EXCEPT ![t] = d])
        BY <1>2, <1>0 DEF Asked
    <2>3. CallOK(e) BY <1>0 DEF CallOK, CallStates
    <2>4. to # {} => m \in to OBVIOUS
    <2>5. to # {} => CallOK(d)
        <3>1. to # {} => m \in c.on /\ m \in Macs BY <2>1, <2>4, <1>0 DEF CallOK, CallStates
        <3> QED BY <3>1, <1>0 DEF CallOK, CallStates
    <2> HIDE DEF d, e, to, m
    <2> QED BY <1>u, <2>2, <2>3, <2>5, CallMoves
<1>3. CASE RelayStopped(t)
    <2>1. PICK n \in {0, 1} : relayed' = [relayed EXCEPT ![t].stopped = TRUE, ![t].told = n]
        <3>1. c.told = 0 BY <1>3, <1>0 DEF RelayStopped, CallOK
        <3> DEFINE n == IF held[c.to].at > 0 THEN c.told + 1 ELSE c.told
        <3>2. n \in {0, 1} BY <3>1
        <3> QED BY <3>2, <1>3 DEF RelayStopped
    <2> DEFINE d == [c EXCEPT !.stopped = TRUE, !.told = n]
    <2>2. relayed' = [relayed EXCEPT ![t] = d] BY <2>1, <1>0
    <2>3. c.pc = "wait" BY <1>3 DEF RelayStopped
    <2>4. CallOK(d) BY <1>0, <2>3 DEF CallOK, CallStates
    <2> HIDE DEF d
    <2> QED BY <1>u, <2>2, <2>4, CallMoves
<1>4. CASE RunResumes(t)
    <2> DEFINE d == [RelayFresh EXCEPT !.run = "resumed"]
    <2>1. relayed' = [relayed EXCEPT ![t] = d] BY <1>4 DEF RunResumes
    <2>2. CallOK(d) BY DEF CallOK, CallStates, RelayFresh
    <2> HIDE DEF d
    <2> QED BY <1>u, <2>1, <2>2, CallMoves
<1>5. ASSUME NEW m \in Macs, AnswersFrame(t, m) PROVE RelayInv'
    <2> DEFINE d == [c EXCEPT !.taken = TRUE]
    <2>1. relayed' = [relayed EXCEPT ![t].taken = TRUE] BY <1>5 DEF AnswersFrame
    <2>2. relayed' = [relayed EXCEPT ![t] = d] BY <2>1, <1>0
    <2>3. CallOK(d) BY <1>0 DEF CallOK, CallStates
    <2> HIDE DEF d
    <2> QED BY <1>u, <2>2, <2>3, CallMoves
<1>6. ASSUME NEW finished \in BOOLEAN, CallEnds(t, finished) PROVE RelayInv'
    <2>1. c.pc = "wait" /\ relayed' = [relayed EXCEPT ![t] = Forgotten(c, ~finished)]
        BY <1>6, <1>0 DEF CallEnds
    <2>2. PICK n \in {0, 1} : Forgotten(c, ~finished) = [c EXCEPT !.pc = "over", !.told = n]
        <3> DEFINE tells == ~finished /\ ~c.stopped
                   n == IF tells /\ held[c.to].at > 0 THEN c.told + 1 ELSE c.told
        <3>1. c.told \in {0, 1} /\ (~c.stopped => c.told = 0) BY <2>1, <1>0 DEF CallOK, CallStates
        <3>2. n \in {0, 1} BY <3>1
        <3>3. Forgotten(c, ~finished) = [c EXCEPT !.pc = "over", !.told = n] BY DEF Forgotten
        <3> QED BY <3>2, <3>3
    <2> DEFINE d == [pc |-> "over", run |-> c.run, on |-> c.on, to |-> c.to, taken |-> c.taken,
                     stopped |-> c.stopped, told |-> n]
    <2>3. Forgotten(c, ~finished) = d BY <2>2, <1>s DEF IsCall
    <2>4. CallOK(d) BY <1>0 DEF CallOK, CallStates
    <2> HIDE DEF d
    <2> QED BY <1>u, <2>1, <2>3, <2>4, CallMoves
<1> QED BY <1>1, <1>2, <1>3, <1>4, <1>5, <1>6

LEMMA RelayGoesOn == RelayInv /\ [RelayNext]_relayVars => RelayInv'
<1> SUFFICES ASSUME RelayInv, [RelayNext]_relayVars PROVE RelayInv' OBVIOUS
<1>1. CASE UNCHANGED relayVars
    <2>1. \A m \in Macs : ServedOrSeenTo(m) => ServedOrSeenTo(m)' BY <1>1 DEF relayVars, ServedOrSeenTo, TokenServes
    <2> QED BY <1>1, <2>1 DEF relayVars, RelayInv, SwitchesInv, StreamsInv, CallsInv, SwitchedOn, InUse
<1> QED BY <1>1, ClerksGoOn, OpenersGoOn, HangingUpGoesOn, TurnsGoOn DEF RelayNext

(* What holds of the relay (enrol_daemon "RELAY OFF STICKS", relay_requests, forget): off stays
   off however an enrolment races it, a stream left open is of a token that serves, and a call is
   cancelled at its computer once. *)
THEOREM RelayOffSticks == RelaySpec => []RelayHolds
<1>1. RelayInv => RelayHolds
    <2> SUFFICES ASSUME RelayInv PROVE RelayHolds OBVIOUS
    <2>1. OffSticks BY DEF RelayInv, SwitchesInv, StreamsInv, ServedOrSeenTo, OffSticks
    <2>2. \A t \in RelayTurns : relayed[t].told \in {0, 1} BY DEF RelayInv, CallsInv
    <2>3. CancelledOnce BY <2>2 DEF RelayInv, CallsInv, CancelledOnce
    <2> QED BY <2>1, <2>3 DEF RelayHolds
<1> QED BY <1>1, RelayStarts, RelayGoesOn, PTL DEF RelaySpec

-----------------------------------------------------------------------------
(* Computers *)

BoxPcs == {"none", "create", "guard", "probe", "clear", "claim", "begin", "rebuild", "pulled", "recreate",
           "drop", "starting", "destroy", "forget", "unguard", "ensure", "stop"}
BoxJobStates == [pc : BoxPcs, old : BoxIds \cup {NoBox}, new : BoxIds \cup {NoBox}]
BoxStates == {"absent", "running", "stopped"}

BoxTypes ==
    /\ slot \in BoxIds \cup {NoBox}
    /\ boxes \in [BoxIds -> BoxStates]
    /\ disk \in [BoxIds -> BoxIds \cup {0}]
    /\ job \in [BoxJobs -> BoxJobStates]
    /\ slot # NoBox => disk[slot] # 0

(* A job that has made a box and not said what becomes of it. *)
Pending(q) == q.pc \in {"drop", "claim"}

(* What a job goes by: boxes that were made once; a new one that is there, is not the scope's yet and
   has the disk of the box it was rebuilt from; an old one that is gone when it is to be cleared. *)
JobOK(q) ==
    /\ q.old # NoBox => disk[q.old] # 0
    /\ q.pc \in {"guard", "probe", "clear", "pulled", "recreate", "drop", "destroy", "forget"} => q.old # NoBox
    /\ Pending(q) => /\ q.new # NoBox /\ disk[q.new] # 0 /\ boxes[q.new] # "absent" /\ q.new # slot
                     /\ q.old # NoBox => disk[q.new] = disk[q.old]
    /\ q.pc \in {"clear", "forget"} => boxes[q.old] = "absent"
    /\ q.pc = "claim" /\ q.old # NoBox => boxes[q.old] = "absent"
    /\ q.pc = "forget" /\ q.old = slot /\ ~excused => files = 0

JobsOK == \A j \in BoxJobs : JobOK(job[j])

(* A new box is one job's, and nobody's old one. *)
NewsApart ==
    \A j, k \in BoxJobs : Pending(job[k]) =>
        /\ job[j].old # job[k].new
        /\ j # k /\ Pending(job[j]) => job[j].new # job[k].new

(* A job that no update needs to fear, and one that rebuilds the box s. *)
Harmless(q) ==
    /\ q.pc \notin {"probe", "clear", "rebuild", "pulled", "recreate", "drop", "starting"}
    /\ ~(q.pc = "claim" /\ q.old # NoBox)
Rebuilds(q, s) ==
    \/ q.pc = "rebuild"
    \/ q.pc \in {"pulled", "recreate", "drop", "claim"} /\ q.old # NoBox /\ q.old = s

(* An update of the scope's box is guarded, and alone. *)
UpdateAlone ==
    ~excused => \A j \in BoxJobs : Rebuilds(job[j], slot) =>
        update = "on" /\ \A k \in BoxJobs \ {j} : Harmless(job[k])

(* The files are on the disk of the scope's box; where that is gone, an update has its successor. *)
FilesInv ==
    ~excused /\ files # 0 =>
        /\ slot # NoBox /\ disk[slot] = files /\ files \notin wiped
        /\ boxes[slot] = "absent" => \E j \in BoxJobs : job[j].pc = "claim" /\ job[j].old = slot

DisksInv == \A b \in BoxIds : boxes[b] # "absent" => disk[b] \notin wiped

StrayInv ==
    \A b \in BoxIds : boxes[b] # "absent" =>
        b = slot \/ b \in left \/ \E j \in BoxJobs : Pending(job[j]) /\ job[j].new = b

BoxInv == BoxTypes /\ JobsOK /\ NewsApart /\ UpdateAlone /\ FilesInv /\ DisksInv /\ StrayInv

LEMMA BoxNames == NoBox \notin BoxIds /\ NoBox = 0 /\ 0 \notin BoxIds
BY ComputersAssumption DEF NoBox

LEMMA BoxesStart == BoxInit => BoxInv
<1> SUFFICES ASSUME BoxInit PROVE BoxInv OBVIOUS
<1>1. BoxTypes BY DEF BoxInit, BoxTypes, BoxJobStates, BoxPcs, BoxStates, NoJob
<1>2. \A j \in BoxJobs : job[j] = NoJob BY DEF BoxInit
<1>3. JobsOK BY <1>2 DEF JobsOK, JobOK, Pending, NoJob
<1>4. NewsApart /\ UpdateAlone BY <1>2 DEF NewsApart, UpdateAlone, Pending, Rebuilds, NoJob
<1>5. FilesInv /\ DisksInv /\ StrayInv BY DEF BoxInit, FilesInv, DisksInv, StrayInv
<1> QED BY <1>1, <1>3, <1>4, <1>5 DEF BoxInv

(* What holds follows. *)
LEMMA BoxInvHolds == BoxInv => BoxesHold
<1> SUFFICES ASSUME BoxInv PROVE BoxesHold OBVIOUS
<1>1. NoStrayBox BY DEF BoxInv, StrayInv, NoStrayBox, Exists, Held
<1>2. FilesStay BY DEF BoxInv, FilesInv, FilesStay
<1> QED BY <1>1, <1>2 DEF BoxesHold

(* An update stays guarded and alone when one job moves. *)
LEMMA AloneStays ==
    ASSUME BoxInv, NEW j \in BoxJobs, NEW q, job' = [job EXCEPT ![j] = q],
           excused => excused',
           ~excused' => \A k \in BoxJobs \ {j} :
               Rebuilds(job[k], slot') => Rebuilds(job[k], slot) /\ update' = "on" /\ Harmless(q),
           ~excused' => (Rebuilds(q, slot') => update' = "on" /\ \A k \in BoxJobs \ {j} : Harmless(job[k]))
    PROVE  UpdateAlone'
<1> SUFFICES ASSUME ~excused', NEW i \in BoxJobs, Rebuilds(job'[i], slot')
             PROVE  update' = "on" /\ \A k \in BoxJobs \ {i} : Harmless(job'[k])
    BY DEF UpdateAlone
<1>1. job'[j] = q /\ \A k \in BoxJobs \ {j} : job'[k] = job[k]
    BY DEF BoxInv, BoxTypes
<1>2. CASE i = j
    BY <1>1, <1>2
<1>3. CASE i # j
    <2>1. Rebuilds(job[i], slot) /\ update' = "on" /\ Harmless(q)
        BY <1>1, <1>3
    <2>2. \A k \in BoxJobs \ {i} : Harmless(job[k])
        BY <2>1 DEF BoxInv, UpdateAlone
    <2> QED BY <1>1, <2>1, <2>2
<1> QED BY <1>2, <1>3

(* A job that is not harmless is not beside an update. *)
LEMMA NoneBeside ==
    ASSUME BoxInv, ~excused, NEW j \in BoxJobs, ~Harmless(job[j])
    PROVE  \A k \in BoxJobs \ {j} : ~Rebuilds(job[k], slot)
BY DEF BoxInv, UpdateAlone

(* The new boxes are still nobody else's when a job moves that has none. *)
LEMMA NewsStay ==
    ASSUME BoxInv, NEW j \in BoxJobs, NEW q, job' = [job EXCEPT ![j] = q], ~Pending(q),
           q.old \in {NoBox, slot, job[j].old}
    PROVE  NewsApart'
<1> SUFFICES ASSUME NEW i \in BoxJobs, NEW k \in BoxJobs, Pending(job'[k])
             PROVE  /\ job'[i].old # job'[k].new
                    /\ i # k /\ Pending(job'[i]) => job'[i].new # job'[k].new
    BY DEF NewsApart
<1>1. job'[j] = q /\ \A l \in BoxJobs \ {j} : job'[l] = job[l]
    BY DEF BoxInv, BoxTypes
<1>2. k # j /\ job'[k] = job[k] /\ Pending(job[k]) /\ job[k].new # slot /\ job[k].new # NoBox
    BY <1>1 DEF BoxInv, JobsOK, JobOK
<1>3. \A l \in BoxJobs : job[l].old # job[k].new /\ (l # k /\ Pending(job[l]) => job[l].new # job[k].new)
    BY <1>2 DEF BoxInv, NewsApart
<1> QED BY <1>1, <1>2, <1>3

(* A job that has no new box moves, and the boxes there are stay. *)
LEMMA JobMoves ==
    ASSUME BoxInv, NEW j \in BoxJobs, NEW q \in BoxJobStates, job' = [job EXCEPT ![j] = q],
           boxes' \in [BoxIds -> BoxStates],
           \A b \in BoxIds : boxes'[b] = "absent" <=> boxes[b] = "absent",
           UNCHANGED <<slot, disk, wiped, files, left>>,
           excused => excused',
           ~Pending(job[j]), ~Pending(q), q.pc # "forget",
           q.old \in {NoBox, slot, job[j].old},
           q.pc \in {"guard", "probe", "clear", "pulled", "recreate", "drop", "destroy"} => q.old # NoBox,
           q.pc = "clear" => boxes[q.old] = "absent",
           UpdateAlone'
    PROVE  BoxInv'
<1>1. job'[j] = q /\ \A k \in BoxJobs \ {j} : job'[k] = job[k]
    BY DEF BoxInv, BoxTypes
<1>2. BoxTypes'
    BY DEF BoxInv, BoxTypes
<1>3. ASSUME NEW k \in BoxJobs PROVE JobOK(job[k])'
    <2>1. CASE k # j
        <3>1. job'[k] = job[k] /\ job[k] \in BoxJobStates /\ JobOK(job[k])
            BY <1>1, <2>1 DEF BoxInv, BoxTypes, JobsOK
        <3> QED BY <3>1, BoxNames DEF JobOK, BoxJobStates, Pending
    <2>2. CASE k = j
        <3>1. q.old # NoBox => disk[q.old] # 0
            BY DEF BoxInv, BoxTypes, JobsOK, JobOK
        <3>2. q.pc = "clear" => q.old \in BoxIds
            BY DEF BoxJobStates
        <3> QED BY <1>1, <2>2, <3>1, <3>2 DEF JobOK, Pending
    <2> QED BY <2>1, <2>2
<1>4. NewsApart'
    BY NewsStay
<1>5. FilesInv'
    <2> SUFFICES ASSUME ~excused', files # 0
                 PROVE  /\ slot # NoBox /\ disk[slot] = files /\ files \notin wiped
                        /\ boxes'[slot] = "absent" => \E i \in BoxJobs : job'[i].pc = "claim" /\ job'[i].old = slot
        BY DEF FilesInv
    <2>1. slot # NoBox /\ disk[slot] = files /\ files \notin wiped
        BY DEF BoxInv, FilesInv
    <2>2. slot \in BoxIds
        BY <2>1 DEF BoxInv, BoxTypes
    <2>3. ASSUME boxes'[slot] = "absent" PROVE \E i \in BoxJobs : job'[i].pc = "claim" /\ job'[i].old = slot
        <3>1. PICK i \in BoxJobs : job[i].pc = "claim" /\ job[i].old = slot
            BY <2>2, <2>3 DEF BoxInv, FilesInv
        <3>2. i # j
            BY <3>1 DEF Pending
        <3> QED BY <1>1, <3>1, <3>2
    <2> QED BY <2>1, <2>3
<1>6. DisksInv' /\ StrayInv'
    <2>1. DisksInv' BY DEF BoxInv, DisksInv
    <2>2. \A k \in BoxJobs : Pending(job[k]) => job'[k] = job[k]
        BY <1>1
    <2>3. StrayInv' BY <2>2 DEF BoxInv, StrayInv
    <2> QED BY <2>1, <2>3
<1> QED BY <1>2, <1>3, <1>4, <1>5, <1>6 DEF BoxInv, JobsOK

(* .. to where no update needs to fear it. *)
LEMMA HarmlessMoves ==
    ASSUME BoxInv, NEW j \in BoxJobs, NEW q \in BoxJobStates, job' = [job EXCEPT ![j] = q],
           boxes' \in [BoxIds -> BoxStates],
           \A b \in BoxIds : boxes'[b] = "absent" <=> boxes[b] = "absent",
           UNCHANGED <<slot, disk, wiped, files, left, excused>>,
           ~Pending(job[j]), ~Pending(q), q.pc # "forget", Harmless(q),
           q.old \in {NoBox, slot, job[j].old},
           q.pc \in {"guard", "destroy"} => q.old # NoBox,
           update' = update \/ ~Harmless(job[j])
    PROVE  BoxInv'
<1>1. ~excused' => \A k \in BoxJobs \ {j} :
          Rebuilds(job[k], slot') => Rebuilds(job[k], slot) /\ update' = "on" /\ Harmless(q)
    <2> SUFFICES ASSUME ~excused, NEW k \in BoxJobs \ {j}, Rebuilds(job[k], slot) PROVE update' = "on"
        OBVIOUS
    <2>1. update = "on" /\ Harmless(job[j])
        BY DEF BoxInv, UpdateAlone
    <2> QED BY <2>1
<1>2. ~Rebuilds(q, slot')
    BY DEF Harmless, Rebuilds
<1>3. UpdateAlone'
    BY <1>1, <1>2, AloneStays
<1>4. q.pc \notin {"probe", "clear", "pulled", "recreate", "drop"}
    BY DEF Harmless
<1> QED BY <1>3, <1>4, JobMoves

(* A job whose box is gone gives up the scope's row. *)
LEMMA RowForgotten ==
    ASSUME BoxInv, NEW j \in BoxJobs, NEW pc \in {"create", "unguard", "none"},
           job' = [job EXCEPT ![j] = [pc |-> pc, old |-> NoBox, new |-> NoBox]],
           job[j].pc \in {"clear", "forget"}, slot' = Cleared(job[j].old),
           UNCHANGED <<update, boxes, disk, wiped, files, left, excused>>
    PROVE  BoxInv'
<1> DEFINE q == [pc |-> pc, old |-> NoBox, new |-> NoBox]
           old == job[j].old
<1>1. job'[j] = q /\ \A k \in BoxJobs \ {j} : job'[k] = job[k]
    BY DEF BoxInv, BoxTypes
<1>2. old \in BoxIds /\ old # NoBox /\ boxes[old] = "absent"
    BY BoxNames DEF BoxInv, BoxTypes, BoxJobStates, JobsOK, JobOK
<1>3. (slot' = NoBox /\ slot = old) \/ (slot' = slot /\ slot # old)
    BY DEF Cleared
<1>4. BoxTypes'
    <2>1. q \in BoxJobStates BY DEF BoxJobStates, BoxPcs
    <2> QED BY <2>1, <1>3 DEF BoxInv, BoxTypes
<1>5. ASSUME NEW k \in BoxJobs PROVE JobOK(job[k])'
    <2>1. CASE k # j
        <3>1. job'[k] = job[k] /\ JobOK(job[k])
            BY <1>1, <2>1 DEF BoxInv, JobsOK
        <3> QED BY <3>1, <1>3 DEF JobOK, Pending
    <2>2. CASE k = j
        BY <1>1, <2>2 DEF JobOK, Pending
    <2> QED BY <2>1, <2>2
<1>6. ~Pending(q) /\ Harmless(q) /\ ~Rebuilds(q, slot')
    BY DEF Pending, Harmless, Rebuilds
<1>7. NewsApart'
    BY <1>6, NewsStay
<1>8. UpdateAlone'
    <2>1. ~excused' => \A k \in BoxJobs \ {j} :
              Rebuilds(job[k], slot') => Rebuilds(job[k], slot) /\ update' = "on" /\ Harmless(q)
        BY <1>3, <1>6 DEF BoxInv, UpdateAlone, Rebuilds
    <2> QED BY <2>1, <1>6, AloneStays
<1>9. ASSUME ~excused, files # 0 PROVE slot # old
    <2> SUFFICES ASSUME slot = old PROVE FALSE OBVIOUS
    <2>1. PICK i \in BoxJobs : job[i].pc = "claim" /\ job[i].old = slot
        BY <1>2, <1>9 DEF BoxInv, FilesInv
    <2>2. Rebuilds(job[i], slot) /\ i # j
        BY <2>1, <1>2 DEF Rebuilds
    <2>3. Harmless(job[j])
        BY <2>2, <1>9 DEF BoxInv, UpdateAlone
    <2>4. job[j].pc = "forget"
        BY <2>3 DEF Harmless
    <2> QED BY <2>4, <1>9 DEF BoxInv, JobsOK, JobOK
<1>10. FilesInv'
    <2> SUFFICES ASSUME ~excused, files # 0
                 PROVE  /\ slot' # NoBox /\ disk[slot'] = files /\ files \notin wiped
                        /\ boxes[slot'] = "absent" => \E i \in BoxJobs : job'[i].pc = "claim" /\ job'[i].old = slot'
        BY DEF FilesInv
    <2>1. slot' = slot BY <1>3, <1>9
    <2>2. \A i \in BoxJobs : job[i].pc = "claim" => job'[i] = job[i]
        BY <1>1
    <2>3. /\ slot # NoBox /\ disk[slot] = files /\ files \notin wiped
          /\ boxes[slot] = "absent" => \E i \in BoxJobs : job[i].pc = "claim" /\ job[i].old = slot
        BY DEF BoxInv, FilesInv
    <2> QED BY <2>1, <2>2, <2>3
<1>11. StrayInv'
    <2>1. \A k \in BoxJobs : Pending(job[k]) => job'[k] = job[k]
        BY <1>1 DEF Pending
    <2> QED BY <2>1, <1>2, <1>3 DEF BoxInv, StrayInv
<1> QED BY <1>4, <1>5, <1>7, <1>8, <1>10, <1>11 DEF BoxInv, JobsOK, DisksInv

(* A first request makes a box on a disk of its own, or an update on the old one's. *)
LEMMA BoxMade ==
    ASSUME BoxInv, NEW j \in BoxJobs, NEW b \in BoxIds, NEW d \in BoxIds, Create(b, d),
           NEW q \in BoxJobStates, job' = [job EXCEPT ![j] = q],
           ~Pending(job[j]), q.new = b,
           \/ q.pc = "claim" /\ q.old = NoBox
           \/ (q.pc = "drop" /\ q.old = job[j].old /\ q.old # NoBox /\ d = disk[q.old]),
           UNCHANGED <<slot, files, left, excused>>, UpdateAlone'
    PROVE  BoxInv'
<1>1. job'[j] = q /\ \A k \in BoxJobs \ {j} : job'[k] = job[k]
    BY DEF BoxInv, BoxTypes
<1>2. /\ disk[b] = 0 /\ disk' = [disk EXCEPT ![b] = d] /\ wiped' = wiped \ {d}
      /\ boxes' = [boxes EXCEPT ![b] = "running"]
    BY DEF Create, Made
<1>3. disk'[b] = d /\ boxes'[b] = "running" /\ \A c \in BoxIds : c # b => disk'[c] = disk[c] /\ boxes'[c] = boxes[c]
    BY <1>2 DEF BoxInv, BoxTypes
<1>4. \A c \in BoxIds : disk[c] # 0 => c # b
    BY <1>2
<1>5. slot # b /\ (slot # NoBox => disk'[slot] = disk[slot] /\ boxes'[slot] = boxes[slot])
    BY <1>3, <1>4, BoxNames DEF BoxInv, BoxTypes
<1>6. ASSUME NEW k \in BoxJobs
      PROVE  /\ job[k].old # b
             /\ job[k].old # NoBox => disk'[job[k].old] = disk[job[k].old] /\ boxes'[job[k].old] = boxes[job[k].old]
             /\ Pending(job[k]) => /\ job[k].new # b /\ disk'[job[k].new] = disk[job[k].new]
                                   /\ boxes'[job[k].new] = boxes[job[k].new]
    <2>1. job[k].old \in BoxIds \cup {NoBox} /\ job[k].new \in BoxIds \cup {NoBox} /\ JobOK(job[k])
        BY DEF BoxInv, BoxTypes, BoxJobStates, JobsOK
    <2> QED BY <2>1, <1>3, <1>4, BoxNames DEF JobOK
<1>7. BoxTypes'
    BY <1>2, <1>5 DEF BoxInv, BoxTypes, BoxStates
<1>8. ASSUME NEW k \in BoxJobs PROVE JobOK(job[k])'
    <2>1. CASE k # j
        <3>1. job'[k] = job[k] /\ JobOK(job[k])
            BY <1>1, <2>1 DEF BoxInv, JobsOK
        <3>2. job[k].pc \in {"clear", "forget"} => job[k].old # NoBox
            BY <3>1 DEF JobOK
        <3> QED BY <3>1, <3>2, <1>6 DEF JobOK, Pending
    <2>2. CASE k = j
        <3>1. q.old # NoBox => disk'[q.old] = disk[q.old] /\ disk[q.old] # 0
            BY <1>6 DEF BoxInv, JobsOK, JobOK
        <3> QED BY <1>1, <2>2, <3>1, <1>3, <1>5, BoxNames DEF JobOK, Pending
    <2> QED BY <2>1, <2>2
<1>9. NewsApart'
    <2> SUFFICES ASSUME NEW i \in BoxJobs, NEW k \in BoxJobs, Pending(job'[k])
                 PROVE  /\ job'[i].old # job'[k].new
                        /\ i # k /\ Pending(job'[i]) => job'[i].new # job'[k].new
        BY DEF NewsApart
    <2>1. q.old # b
        BY <1>6, BoxNames
    <2>2. CASE k = j
        BY <2>1, <2>2, <1>1, <1>6
    <2>3. CASE k # j
        <3>1. job'[k] = job[k] /\ Pending(job[k]) /\ job[k].new # NoBox /\ job[k].new # b
            BY <1>1, <1>6, <2>3 DEF BoxInv, JobsOK, JobOK
        <3>2. \A l \in BoxJobs : job[l].old # job[k].new /\ (l # k /\ Pending(job[l]) => job[l].new # job[k].new)
            BY <3>1 DEF BoxInv, NewsApart
        <3> QED BY <1>1, <3>1, <3>2
    <2> QED BY <2>2, <2>3
<1>10. FilesInv'
    <2> SUFFICES ASSUME ~excused, files # 0
                 PROVE  /\ slot # NoBox /\ disk'[slot] = files /\ files \notin wiped'
                        /\ boxes'[slot] = "absent" => \E i \in BoxJobs : job'[i].pc = "claim" /\ job'[i].old = slot
        BY DEF FilesInv
    <2>1. /\ slot # NoBox /\ disk[slot] = files /\ files \notin wiped
          /\ boxes[slot] = "absent" => \E i \in BoxJobs : job[i].pc = "claim" /\ job[i].old = slot
        BY DEF BoxInv, FilesInv
    <2>2. \A i \in BoxJobs : job[i].pc = "claim" => job'[i] = job[i]
        BY <1>1 DEF Pending
    <2> QED BY <1>2, <1>5, <2>1, <2>2
<1>11. DisksInv'
    BY <1>2, <1>3 DEF BoxInv, DisksInv
<1>12. StrayInv'
    <2>1. \A k \in BoxJobs : Pending(job[k]) => job'[k] = job[k]
        BY <1>1
    <2>2. Pending(q) BY DEF Pending
    <2> QED BY <2>1, <2>2, <1>1, <1>3 DEF BoxInv, StrayInv
<1> QED BY <1>7, <1>8, <1>9, <1>10, <1>11, <1>12 DEF BoxInv, JobsOK

(* What a job at its claim has in hand. *)
LEMMA AtTheClaim ==
    ASSUME BoxInv, NEW j \in BoxJobs, At(j, "claim")
    PROVE  /\ job[j].new \in BoxIds /\ disk[job[j].new] # 0 /\ boxes[job[j].new] # "absent" /\ job[j].new # slot
           /\ job[j].old \in BoxIds \cup {NoBox}
           /\ job[j].old # NoBox => disk[job[j].new] = disk[job[j].old] /\ boxes[job[j].old] = "absent"
           /\ \A k \in BoxJobs : job[k].old # job[j].new
           /\ \A k \in BoxJobs \ {j} : Pending(job[k]) => job[k].new # job[j].new
<1>1. job[j].pc = "claim" /\ Pending(job[j]) /\ JobOK(job[j]) /\ job[j] \in BoxJobStates
    BY DEF At, Pending, BoxInv, JobsOK, BoxTypes
<1>2. /\ job[j].new \in BoxIds /\ disk[job[j].new] # 0 /\ boxes[job[j].new] # "absent" /\ job[j].new # slot
      /\ job[j].old \in BoxIds \cup {NoBox}
      /\ job[j].old # NoBox => disk[job[j].new] = disk[job[j].old] /\ boxes[job[j].old] = "absent"
    BY <1>1 DEF JobOK, BoxJobStates
<1>3. \A k \in BoxJobs : job[k].old # job[j].new /\ (k # j /\ Pending(job[k]) => job[k].new # job[j].new)
    BY <1>1 DEF BoxInv, NewsApart
<1> QED BY <1>2, <1>3

(* An update stays guarded and alone when a claim is decided. *)
LEMMA AloneAfterClaim ==
    ASSUME BoxInv, NEW j \in BoxJobs, At(j, "claim"), NEW pc \in {"none", "starting"},
           job' = [job EXCEPT ![j] = [pc |-> pc, old |-> NoBox, new |-> NoBox]],
           pc = "starting" => job[j].old # NoBox,
           slot' \in {slot, job[j].new}, UNCHANGED excused,
           update' = update \/ job[j].old # NoBox
    PROVE  UpdateAlone'
<1> DEFINE q == [pc |-> pc, old |-> NoBox, new |-> NoBox]
<1>1. ~Rebuilds(q, slot')
    BY DEF Rebuilds
<1>2. ASSUME ~excused, NEW k \in BoxJobs \ {j}, Rebuilds(job[k], slot')
      PROVE  Rebuilds(job[k], slot) /\ update' = "on" /\ Harmless(q)
    <2>1. Rebuilds(job[k], slot)
        BY <1>2, AtTheClaim DEF Rebuilds
    <2>2. update = "on" /\ Harmless(job[j])
        BY <2>1, <1>2 DEF BoxInv, UpdateAlone
    <2>3. job[j].old = NoBox
        BY <2>2 DEF Harmless, At
    <2> QED BY <2>1, <2>2, <2>3 DEF Harmless
<1> QED BY <1>1, <1>2, AloneStays

LEMMA ClaimWon ==
    ASSUME BoxInv, NEW j \in BoxJobs, At(j, "claim"), NEW pc \in {"none", "starting"},
           job' = [job EXCEPT ![j] = [pc |-> pc, old |-> NoBox, new |-> NoBox]],
           slot = job[j].old, slot' = job[j].new,
           files' = IF files = 0 THEN disk[job[j].new] ELSE files,
           UNCHANGED <<boxes, wiped, left, disk, excused>>, UpdateAlone'
    PROVE  BoxInv'
<1> DEFINE q == [pc |-> pc, old |-> NoBox, new |-> NoBox]
<1>1. job'[j] = q /\ \A k \in BoxJobs \ {j} : job'[k] = job[k]
    BY DEF BoxInv, BoxTypes
<1>2. BoxTypes'
    <2>1. q \in BoxJobStates BY DEF BoxJobStates, BoxPcs
    <2> QED BY <2>1, AtTheClaim DEF BoxInv, BoxTypes
<1>3. ASSUME NEW k \in BoxJobs PROVE JobOK(job[k])'
    <2>1. CASE k # j
        <3>1. job'[k] = job[k] /\ JobOK(job[k]) /\ job[k].old # slot' /\ (Pending(job[k]) => job[k].new # slot')
            BY <1>1, <2>1, AtTheClaim DEF BoxInv, JobsOK
        <3> QED BY <3>1 DEF JobOK, Pending
    <2>2. CASE k = j
        BY <1>1, <2>2 DEF JobOK, Pending
    <2> QED BY <2>1, <2>2
<1>4. NewsApart'
    BY NewsStay DEF Pending
<1>5. FilesInv'
    <2> SUFFICES ASSUME ~excused, files' # 0
                 PROVE  /\ slot' # NoBox /\ disk[slot'] = files' /\ files' \notin wiped
                        /\ boxes[slot'] # "absent"
        BY DEF FilesInv
    <2>1. slot' \in BoxIds /\ boxes[slot'] # "absent" /\ disk[slot'] \notin wiped
        BY AtTheClaim DEF BoxInv, DisksInv
    <2>2. files # 0 => disk[slot'] = files
        BY AtTheClaim DEF BoxInv, FilesInv
    <2> QED BY <2>1, <2>2, BoxNames
<1>6. StrayInv'
    <2>1. \A k \in BoxJobs : Pending(job[k]) => k = j \/ job'[k] = job[k]
        BY <1>1
    <2>2. slot \in BoxIds => boxes[slot] = "absent"
        BY AtTheClaim, BoxNames
    <2> QED BY <2>1, <2>2 DEF BoxInv, StrayInv
<1> QED BY <1>2, <1>3, <1>4, <1>5, <1>6 DEF BoxInv, JobsOK, DisksInv

(* A box that lost is removed, with its disk only where nothing else mounts it. *)
LEMMA ClaimLost ==
    ASSUME BoxInv, NEW j \in BoxJobs, At(j, "claim"), JobEnds(j), slot # job[j].old,
           boxes' = [boxes EXCEPT ![job[j].new] = "absent"],
           \/ wiped' = wiped
           \/ /\ wiped' = wiped \cup {disk[job[j].new]}
              /\ \A c \in BoxIds \ {job[j].new} : boxes[c] # "absent" => disk[c] # disk[job[j].new],
           UNCHANGED <<slot, files, left, disk, excused>>, UpdateAlone'
    PROVE  BoxInv'
<1> DEFINE n == job[j].new
<1>1. job'[j] = NoJob /\ \A k \in BoxJobs \ {j} : job'[k] = job[k]
    BY DEF BoxInv, BoxTypes, JobEnds
<1>2. n \in BoxIds /\ n # slot /\ boxes'[n] = "absent" /\ \A c \in BoxIds \ {n} : boxes'[c] = boxes[c]
    BY AtTheClaim DEF BoxInv, BoxTypes
<1>3. BoxTypes'
    <2>1. NoJob \in BoxJobStates BY DEF BoxJobStates, BoxPcs, NoJob
    <2> QED BY <2>1 DEF BoxInv, BoxTypes, JobEnds, BoxStates
<1>4. ASSUME NEW k \in BoxJobs PROVE JobOK(job[k])'
    <2>1. CASE k # j
        <3>1. /\ job'[k] = job[k] /\ JobOK(job[k]) /\ job[k] \in BoxJobStates
              /\ job[k].old # n /\ (Pending(job[k]) => job[k].new # n)
            BY <1>1, <2>1, AtTheClaim DEF BoxInv, JobsOK, BoxTypes
        <3>2. job[k].old # NoBox => boxes'[job[k].old] = boxes[job[k].old]
            BY <3>1, <1>2 DEF BoxJobStates
        <3>3. Pending(job[k]) => boxes'[job[k].new] = boxes[job[k].new]
            BY <3>1, <1>2 DEF BoxJobStates, JobOK
        <3> QED BY <3>1, <3>2, <3>3 DEF JobOK, Pending
    <2>2. CASE k = j
        BY <1>1, <2>2 DEF JobOK, Pending, NoJob
    <2> QED BY <2>1, <2>2
<1>5. NewsApart'
    BY NewsStay DEF Pending, NoJob, JobEnds
<1>6. FilesInv'
    <2> SUFFICES ASSUME ~excused, files # 0
                 PROVE  /\ slot # NoBox /\ disk[slot] = files /\ files \notin wiped'
                        /\ boxes'[slot] = "absent" => \E i \in BoxJobs : job'[i].pc = "claim" /\ job'[i].old = slot
        BY DEF FilesInv
    <2>1. /\ slot # NoBox /\ disk[slot] = files /\ files \notin wiped
          /\ boxes[slot] = "absent" => \E i \in BoxJobs : job[i].pc = "claim" /\ job[i].old = slot
        BY DEF BoxInv, FilesInv
    <2>2. slot \in BoxIds /\ boxes'[slot] = boxes[slot]
        BY <2>1, <1>2 DEF BoxInv, BoxTypes
    <2>3. CASE boxes[slot] # "absent"
        BY <2>1, <2>2, <2>3, <1>2
    <2>4. CASE boxes[slot] = "absent"
        <3>1. PICK i \in BoxJobs : job[i].pc = "claim" /\ job[i].old = slot
            BY <2>1, <2>4
        <3>2. i # j /\ job'[i] = job[i]
            BY <3>1, <1>1
        <3>3. /\ job[i].new \in BoxIds /\ job[i].new # n /\ boxes[job[i].new] # "absent"
              /\ disk[job[i].new] = files
            <4>1. At(i, "claim") /\ Pending(job[i])
                BY <3>1 DEF At, Pending
            <4>2. job[i].new # n
                BY <4>1, <3>2, AtTheClaim
            <4>3. job[i].new \in BoxIds /\ boxes[job[i].new] # "absent" /\ disk[job[i].new] = disk[job[i].old]
                BY <4>1, <3>1, <2>1, AtTheClaim
            <4> QED BY <4>2, <4>3, <3>1, <2>1
        <3> QED BY <2>1, <3>1, <3>2, <3>3
    <2> QED BY <2>3, <2>4
<1>7. DisksInv'
    <2> SUFFICES ASSUME NEW c \in BoxIds, boxes'[c] # "absent" PROVE disk[c] \notin wiped'
        BY DEF DisksInv
    <2>1. c # n /\ boxes[c] # "absent"
        BY <1>2
    <2> QED BY <2>1 DEF BoxInv, DisksInv
<1>8. StrayInv'
    <2> SUFFICES ASSUME NEW c \in BoxIds, boxes'[c] # "absent"
                 PROVE  c = slot \/ c \in left \/ \E k \in BoxJobs : Pending(job'[k]) /\ job'[k].new = c
        BY DEF StrayInv
    <2>1. c # n /\ boxes[c] # "absent"
        BY <1>2
    <2>2. c = slot \/ c \in left \/ \E k \in BoxJobs : Pending(job[k]) /\ job[k].new = c
        BY <2>1 DEF BoxInv, StrayInv
    <2> QED BY <1>1, <2>1, <2>2
<1> QED BY <1>3, <1>4, <1>5, <1>6, <1>7, <1>8 DEF BoxInv, JobsOK

LEMMA ClaimUnrecorded ==
    ASSUME BoxInv, NEW j \in BoxJobs, At(j, "claim"), JobEnds(j),
           left' = left \cup {job[j].new},
           files' = IF job[j].old # NoBox /\ disk[job[j].new] = files THEN 0 ELSE files,
           UNCHANGED <<slot, boxes, wiped, disk, excused>>, UpdateAlone'
    PROVE  BoxInv'
<1>1. job'[j] = NoJob /\ \A k \in BoxJobs \ {j} : job'[k] = job[k]
    BY DEF BoxInv, BoxTypes, JobEnds
<1>2. BoxTypes'
    <2>1. NoJob \in BoxJobStates BY DEF BoxJobStates, BoxPcs, NoJob
    <2> QED BY <2>1 DEF BoxInv, BoxTypes, JobEnds
<1>3. ASSUME NEW k \in BoxJobs PROVE JobOK(job[k])'
    <2>1. CASE k # j
        <3>1. job'[k] = job[k] /\ JobOK(job[k])
            BY <1>1, <2>1 DEF BoxInv, JobsOK
        <3> QED BY <3>1 DEF JobOK, Pending
    <2>2. CASE k = j
        BY <1>1, <2>2 DEF JobOK, Pending, NoJob
    <2> QED BY <2>1, <2>2
<1>4. NewsApart'
    BY NewsStay DEF Pending, NoJob, JobEnds
<1>5. FilesInv'
    <2> SUFFICES ASSUME ~excused, files' # 0
                 PROVE  /\ slot # NoBox /\ disk[slot] = files' /\ files' \notin wiped
                        /\ boxes[slot] = "absent" => \E i \in BoxJobs : job'[i].pc = "claim" /\ job'[i].old = slot
        BY DEF FilesInv
    <2>1. files' = files /\ (job[j].old # NoBox => disk[job[j].new] # files)
        OBVIOUS
    <2>2. slot # NoBox /\ disk[slot] = files /\ files \notin wiped
        BY <2>1 DEF BoxInv, FilesInv
    <2>3. ASSUME boxes[slot] = "absent" PROVE \E i \in BoxJobs : job'[i].pc = "claim" /\ job'[i].old = slot
        <3>1. PICK i \in BoxJobs : job[i].pc = "claim" /\ job[i].old = slot
            BY <2>1, <2>3 DEF BoxInv, FilesInv
        <3>2. i # j
            BY <3>1, <2>1, <2>2, AtTheClaim
        <3> QED BY <1>1, <3>1, <3>2
    <2> QED BY <2>1, <2>2, <2>3
<1>6. StrayInv'
    <2>1. \A k \in BoxJobs : Pending(job[k]) => k = j \/ job'[k] = job[k]
        BY <1>1
    <2> QED BY <2>1 DEF BoxInv, StrayInv
<1> QED BY <1>2, <1>3, <1>4, <1>5, <1>6 DEF BoxInv, JobsOK, DisksInv

LEMMA ClaimsKeep ==
    ASSUME BoxInv, NEW j \in BoxJobs, BoxClaimed(j)
    PROVE  BoxInv'
<1>1. CASE /\ ClaimWins(job[j].old) /\ slot' = job[j].new
           /\ files' = IF files = 0 THEN disk[job[j].new] ELSE files
           /\ IF job[j].old # NoBox THEN Begins(j, "starting", NoBox) /\ UpdateMoves
                                    ELSE JobEnds(j) /\ UNCHANGED update
           /\ UNCHANGED <<boxes, wiped, left>>
    <2>1. CASE job[j].old # NoBox
        <3>1. job' = [job EXCEPT ![j] = [pc |-> "starting", old |-> NoBox, new |-> NoBox]]
            BY <1>1, <2>1 DEF Begins
        <3>2. UpdateAlone'
            BY <1>1, <2>1, <3>1, AloneAfterClaim DEF BoxClaimed
        <3> QED BY <1>1, <2>1, <3>1, <3>2, ClaimWon DEF BoxClaimed, ClaimWins
    <2>2. CASE job[j].old = NoBox
        <3>1. job' = [job EXCEPT ![j] = [pc |-> "none", old |-> NoBox, new |-> NoBox]]
            BY <1>1, <2>2 DEF JobEnds, NoJob
        <3>2. UpdateAlone'
            BY <1>1, <2>2, <3>1, AloneAfterClaim DEF BoxClaimed
        <3> QED BY <1>1, <2>2, <3>1, <3>2, ClaimWon DEF BoxClaimed, ClaimWins
    <2> QED BY <2>1, <2>2
<1>2. ASSUME JobEnds(j), UNCHANGED slot, IF job[j].old # NoBox THEN UpdateFails ELSE UNCHANGED update
      PROVE  UpdateAlone'
    <2>1. job' = [job EXCEPT ![j] = [pc |-> "none", old |-> NoBox, new |-> NoBox]]
        BY <1>2 DEF JobEnds, NoJob
    <2>2. update' = update \/ job[j].old # NoBox
        BY <1>2
    <2> QED BY <1>2, <2>1, <2>2, AloneAfterClaim DEF BoxClaimed
<1>3. CASE /\ ~ClaimWins(job[j].old) /\ LoserRemoved(j) /\ JobEnds(j)
           /\ IF job[j].old # NoBox THEN UpdateFails ELSE UNCHANGED update
           /\ UNCHANGED <<slot, files, left>>
    <2>1. slot # job[j].old /\ boxes' = [boxes EXCEPT ![job[j].new] = "absent"]
        BY <1>3 DEF ClaimWins, LoserRemoved, Discard, Destroy
    <2>2. \/ wiped' = wiped
          \/ /\ wiped' = wiped \cup {disk[job[j].new]}
             /\ \A c \in BoxIds \ {job[j].new} : boxes[c] # "absent" => disk[c] # disk[job[j].new]
        BY <1>3 DEF LoserRemoved, Discard, Destroy, Exists
    <2> QED BY <1>2, <1>3, <2>1, <2>2, ClaimLost DEF BoxClaimed
<1>4. CASE /\ left' = left \cup {job[j].new}
           /\ files' = IF job[j].old # NoBox /\ disk[job[j].new] = files THEN 0 ELSE files
           /\ IF job[j].old # NoBox THEN UpdateFails ELSE UNCHANGED update
           /\ JobEnds(j)
           /\ UNCHANGED <<slot, boxes, wiped>>
    BY <1>2, <1>4, ClaimUnrecorded DEF BoxClaimed
<1> QED BY <1>1, <1>3, <1>4 DEF BoxClaimed

LEMMA EnsuresKeep ==
    ASSUME BoxInv, NEW j \in BoxJobs,
           EnsureRead(j) \/ EnsureGuarded(j) \/ EnsureProbed(j) \/ EnsureCleared(j) \/ EnsureCreated(j)
    PROVE  BoxInv'
<1>0. /\ slot \in BoxIds \cup {NoBox} /\ job[j] \in BoxJobStates /\ boxes \in [BoxIds -> BoxStates]
      /\ job[j].old \in BoxIds \cup {NoBox} /\ NoJob \in BoxJobStates
    BY DEF BoxInv, BoxTypes, BoxJobStates, NoJob, BoxPcs
<1>1. CASE EnsureRead(j)
    <2> DEFINE q == [pc |-> IF slot = NoBox THEN "create" ELSE "guard", old |-> slot, new |-> NoBox]
    <2>1. q \in BoxJobStates /\ job' = [job EXCEPT ![j] = q]
        BY <1>0, <1>1 DEF EnsureRead, Begins, BoxJobStates, BoxPcs
    <2>2. ~Pending(job[j]) /\ ~Pending(q) /\ Harmless(q)
        BY <1>1 DEF EnsureRead, NoJob, At, Pending, Harmless
    <2>3. UNCHANGED <<slot, update, boxes, disk, wiped, files, left, excused>>
        BY <1>1 DEF EnsureRead
    <2> QED BY <2>1, <2>2, <2>3, <1>0, HarmlessMoves
<1>2. CASE EnsureGuarded(j)
    <2>1. CASE Updating
        <3>1. job' = [job EXCEPT ![j] = NoJob] /\ ~Pending(job[j]) /\ ~Pending(NoJob) /\ Harmless(NoJob)
            BY <1>2, <2>1 DEF EnsureGuarded, JobEnds, At, Pending, NoJob, Harmless
        <3>2. UNCHANGED <<slot, update, boxes, disk, wiped, files, left, excused>>
            BY <1>2 DEF EnsureGuarded
        <3> QED BY <3>1, <3>2, <1>0, HarmlessMoves DEF NoJob
    <2>2. CASE ~Updating
        <3> DEFINE q == [job[j] EXCEPT !.pc = "probe"]
        <3>1. q \in BoxJobStates /\ q.pc = "probe" /\ q.old = job[j].old /\ job' = [job EXCEPT ![j] = q]
            BY <1>0, <1>2, <2>2 DEF EnsureGuarded, To, BoxJobStates, BoxPcs
        <3>2. UNCHANGED <<slot, update, boxes, disk, wiped, files, left, excused>> /\ At(j, "guard")
            BY <1>2 DEF EnsureGuarded
        <3>3. ~excused => \A k \in BoxJobs : ~Rebuilds(job[k], slot)
            BY <2>2 DEF BoxInv, UpdateAlone, Updating
        <3>4. UpdateAlone'
            BY <3>1, <3>2, <3>3, AloneStays DEF Rebuilds
        <3>5. job[j].old # NoBox
            BY <3>2 DEF BoxInv, JobsOK, JobOK, At
        <3> QED BY <3>1, <3>2, <3>4, <3>5, <1>0, JobMoves DEF Pending, At
    <2> QED BY <2>1, <2>2
<1>3. CASE EnsureProbed(j)
    <2>1. job[j].pc = "probe" /\ UNCHANGED <<slot, update, boxes, disk, wiped, files, left, excused>>
        BY <1>3 DEF EnsureProbed, At
    <2>2. CASE Exists(job[j].old)
        <3>1. job' = [job EXCEPT ![j] = NoJob] /\ ~Pending(job[j]) /\ ~Pending(NoJob) /\ Harmless(NoJob)
            BY <1>3, <2>1, <2>2 DEF EnsureProbed, JobEnds, Pending, NoJob, Harmless
        <3> QED BY <2>1, <3>1, <1>0, HarmlessMoves DEF NoJob
    <2>3. CASE ~Exists(job[j].old)
        <3> DEFINE q == [job[j] EXCEPT !.pc = "clear"]
        <3>1. q \in BoxJobStates /\ q.pc = "clear" /\ q.old = job[j].old /\ job' = [job EXCEPT ![j] = q]
            BY <1>0, <1>3, <2>3 DEF EnsureProbed, To, BoxJobStates, BoxPcs
        <3>2. ~Harmless(job[j])
            BY <2>1 DEF Harmless
        <3>3. UpdateAlone'
            BY <2>1, <3>1, <3>2, NoneBeside, AloneStays DEF Rebuilds
        <3>4. job[j].old # NoBox
            BY <2>1 DEF BoxInv, JobsOK, JobOK
        <3>5. boxes[q.old] = "absent"
            BY <2>3, <3>1, <3>4, <1>0 DEF Exists
        <3> QED BY <2>1, <3>1, <3>3, <3>4, <3>5, <1>0, JobMoves DEF Pending
    <2> QED BY <2>2, <2>3
<1>4. CASE EnsureCleared(j)
    BY <1>4, RowForgotten DEF EnsureCleared, At, Begins
<1>5. CASE EnsureCreated(j)
    <2>0. job[j].pc = "create" /\ UNCHANGED <<slot, update, files, left, excused>>
        BY <1>5 DEF EnsureCreated, At
    <2>1. CASE JobEnds(j) /\ UNCHANGED <<boxes, disk, wiped>>
        <3>1. job' = [job EXCEPT ![j] = NoJob] /\ ~Pending(job[j]) /\ ~Pending(NoJob) /\ Harmless(NoJob)
            BY <2>0, <2>1 DEF JobEnds, Pending, NoJob, Harmless
        <3> QED BY <2>0, <2>1, <3>1, <1>0, HarmlessMoves DEF NoJob
    <2>2. CASE \E b \in BoxIds :
                  /\ Create(b, b)
                  /\ job' = [job EXCEPT ![j] = [pc |-> "claim", old |-> NoBox, new |-> b]]
        <3>1. PICK b \in BoxIds : Create(b, b) /\ job' = [job EXCEPT ![j] = [pc |-> "claim", old |-> NoBox, new |-> b]]
            BY <2>2
        <3> DEFINE q == [pc |-> "claim", old |-> NoBox, new |-> b]
        <3>2. q \in BoxJobStates /\ Harmless(q) /\ ~Rebuilds(q, slot') /\ ~Pending(job[j])
            BY <2>0 DEF BoxJobStates, BoxPcs, Harmless, Rebuilds, Pending
        <3>3. UpdateAlone'
            BY <2>0, <3>1, <3>2, AloneStays DEF BoxInv, UpdateAlone
        <3> QED BY <2>0, <3>1, <3>2, <3>3, BoxMade
    <2> QED BY <1>5, <2>1, <2>2 DEF EnsureCreated
<1> QED BY <1>1, <1>2, <1>3, <1>4, <1>5

(* An update that goes on stays the one it was. *)
LEMMA OwnUpdate ==
    ASSUME BoxInv, NEW j \in BoxJobs, NEW q, job' = [job EXCEPT ![j] = q], ~Harmless(job[j]),
           UNCHANGED <<slot, excused>>,
           Rebuilds(q, slot) => Rebuilds(job[j], slot) /\ (update = "on" => update' = "on")
    PROVE  UpdateAlone'
<1>1. ~excused => \A k \in BoxJobs \ {j} : ~Rebuilds(job[k], slot)
    BY NoneBeside
<1>2. ~excused /\ Rebuilds(q, slot) => update' = "on" /\ \A k \in BoxJobs \ {j} : Harmless(job[k])
    BY DEF BoxInv, UpdateAlone
<1> QED BY <1>1, <1>2, AloneStays

(* A box that is stopped or resumed is still there. *)
LEMMA StillThere ==
    ASSUME BoxInv, NEW b, NEW s \in {"running", "stopped"}, Exists(b), boxes' = [boxes EXCEPT ![b] = s]
    PROVE  /\ boxes' \in [BoxIds -> BoxStates]
           /\ \A c \in BoxIds : boxes'[c] = "absent" <=> boxes[c] = "absent"
BY DEF BoxInv, BoxTypes, Exists, BoxStates

LEMMA ResumedStays ==
    ASSUME BoxInv, NEW b, Resumed(b)
    PROVE  /\ boxes' \in [BoxIds -> BoxStates]
           /\ \A c \in BoxIds : boxes'[c] = "absent" <=> boxes[c] = "absent"
<1>1. CASE Exists(b)
    BY <1>1, StillThere DEF Resumed
<1>2. CASE ~Exists(b)
    BY <1>2 DEF Resumed, BoxInv, BoxTypes
<1> QED BY <1>1, <1>2

LEMMA UpdatesKeep ==
    ASSUME BoxInv, NEW j \in BoxJobs,
           UpdateAsked(j) \/ UpdateBegun(j) \/ UpdateRead(j) \/ UpdateStopped(j) \/ UpdateRecreated(j) \/ UpdateEnded(j)
    PROVE  BoxInv'
<1>0. /\ slot \in BoxIds \cup {NoBox} /\ job[j] \in BoxJobStates /\ boxes \in [BoxIds -> BoxStates]
      /\ job[j].old \in BoxIds \cup {NoBox} /\ NoJob \in BoxJobStates
      /\ ~Pending(NoJob) /\ Harmless(NoJob) /\ NoJob.old = NoBox /\ NoJob.pc = "none"
    BY DEF BoxInv, BoxTypes, BoxJobStates, NoJob, BoxPcs, Pending, Harmless
<1>1. CASE UpdateAsked(j)
    <2> DEFINE q == [pc |-> "begin", old |-> NoBox, new |-> NoBox]
    <2>1. q \in BoxJobStates /\ job' = [job EXCEPT ![j] = q]
        BY <1>1 DEF UpdateAsked, Begins, BoxJobStates, BoxPcs
    <2>2. ~Pending(job[j]) /\ ~Pending(q) /\ Harmless(q)
        BY <1>1 DEF UpdateAsked, NoJob, Pending, Harmless
    <2>3. UNCHANGED <<slot, update, boxes, disk, wiped, files, left, excused>>
        BY <1>1 DEF UpdateAsked
    <2> QED BY <2>1, <2>2, <2>3, <1>0, HarmlessMoves
<1>2. CASE UpdateBegun(j)
    <2> DEFINE q == [job[j] EXCEPT !.pc = "rebuild"]
    <2>1. q \in BoxJobStates /\ q.pc = "rebuild" /\ q.old = job[j].old /\ job' = [job EXCEPT ![j] = q]
        BY <1>0, <1>2 DEF UpdateBegun, To, BoxJobStates, BoxPcs
    <2>2. /\ job[j].pc = "begin" /\ update' = "on" /\ (excused => excused')
          /\ UNCHANGED <<slot, boxes, disk, wiped, files, left>>
        BY <1>2 DEF UpdateBegun, At
    <2>3. ~excused' => \A k \in BoxJobs \ {j} : Harmless(job[k])
        BY <1>2 DEF UpdateBegun, At, Harmless
    <2>4. \A k \in BoxJobs : Harmless(job[k]) => ~Rebuilds(job[k], slot)
        BY DEF Harmless, Rebuilds
    <2>5. UpdateAlone'
        BY <2>1, <2>2, <2>3, <2>4, AloneStays
    <2> QED BY <2>1, <2>2, <2>5, <1>0, JobMoves DEF Pending
<1>3. CASE UpdateRead(j)
    <2>1. job[j].pc = "rebuild" /\ UNCHANGED <<slot, boxes, disk, wiped, files, left, excused>>
        BY <1>3 DEF UpdateRead, At
    <2>2. ~Harmless(job[j]) /\ ~Pending(job[j]) /\ Rebuilds(job[j], slot)
        BY <2>1 DEF Harmless, Pending, Rebuilds
    <2>3. CASE slot # NoBox /\ Begins(j, "pulled", slot) /\ UNCHANGED update
        <3> DEFINE q == [pc |-> "pulled", old |-> slot, new |-> NoBox]
        <3>1. q \in BoxJobStates /\ job' = [job EXCEPT ![j] = q]
            BY <1>0, <2>3 DEF Begins, BoxJobStates, BoxPcs
        <3>2. UpdateAlone'
            BY <2>1, <2>2, <2>3, <3>1, OwnUpdate
        <3> QED BY <2>1, <2>2, <2>3, <3>1, <3>2, <1>0, JobMoves DEF Pending
    <2>4. CASE JobEnds(j)
        BY <2>1, <2>2, <2>4, <1>0, HarmlessMoves DEF JobEnds
    <2> QED BY <1>3, <2>3, <2>4 DEF UpdateRead
<1>4. CASE UpdateStopped(j)
    <2>1. job[j].pc = "pulled" /\ UNCHANGED <<slot, disk, wiped, files, left, excused>>
        BY <1>4 DEF UpdateStopped, At
    <2>2. ~Harmless(job[j]) /\ ~Pending(job[j])
        BY <2>1 DEF Harmless, Pending
    <2>3. CASE /\ Exists(job[j].old) /\ boxes' = [boxes EXCEPT ![job[j].old] = "stopped"]
               /\ To(j, "recreate") /\ UpdateMoves
        <3> DEFINE q == [job[j] EXCEPT !.pc = "recreate"]
        <3>1. q \in BoxJobStates /\ q.pc = "recreate" /\ q.old = job[j].old /\ job' = [job EXCEPT ![j] = q]
            BY <1>0, <2>3 DEF To, BoxJobStates, BoxPcs
        <3>2. update = "on" => update' = "on"
            BY <2>3 DEF UpdateMoves
        <3>3. UpdateAlone'
            BY <2>1, <2>2, <3>1, <3>2, OwnUpdate DEF Rebuilds
        <3>4. job[j].old # NoBox
            BY <2>1 DEF BoxInv, JobsOK, JobOK
        <3>5. /\ boxes' \in [BoxIds -> BoxStates]
              /\ \A c \in BoxIds : boxes'[c] = "absent" <=> boxes[c] = "absent"
            BY <2>3, StillThere
        <3> QED BY <2>1, <2>2, <3>1, <3>3, <3>4, <3>5, JobMoves DEF Pending
    <2>4. CASE JobEnds(j) /\ Resumed(job[j].old)
        <3>1. /\ boxes' \in [BoxIds -> BoxStates]
              /\ \A c \in BoxIds : boxes'[c] = "absent" <=> boxes[c] = "absent"
            BY <2>4, ResumedStays
        <3> QED BY <2>1, <2>2, <2>4, <3>1, <1>0, HarmlessMoves DEF JobEnds
    <2> QED BY <1>4, <2>3, <2>4 DEF UpdateStopped
<1>5. CASE UpdateRecreated(j)
    <2>1. job[j].pc = "recreate" /\ UNCHANGED <<slot, files, left, excused>>
        BY <1>5 DEF UpdateRecreated, At
    <2>2. ~Harmless(job[j]) /\ ~Pending(job[j])
        BY <2>1 DEF Harmless, Pending
    <2>3. job[j].old # NoBox /\ disk[job[j].old] \in BoxIds
        <3>1. job[j].old # NoBox /\ disk[job[j].old] # 0
            BY <2>1 DEF BoxInv, JobsOK, JobOK
        <3> QED BY <3>1, <1>0 DEF BoxInv, BoxTypes
    <2>4. CASE /\ \E b \in BoxIds :
                    /\ Create(b, disk[job[j].old])
                    /\ job' = [job EXCEPT ![j] = [pc |-> "drop", old |-> job[j].old, new |-> b]]
               /\ UNCHANGED update
        <3>1. PICK b \in BoxIds :
                  /\ Create(b, disk[job[j].old])
                  /\ job' = [job EXCEPT ![j] = [pc |-> "drop", old |-> job[j].old, new |-> b]]
            BY <2>4
        <3>2. PICK d \in BoxIds : d = disk[job[j].old]
            BY <2>3
        <3> DEFINE q == [pc |-> "drop", old |-> job[j].old, new |-> b]
        <3>3. q \in BoxJobStates
            BY <1>0 DEF BoxJobStates, BoxPcs
        <3>4. UpdateAlone'
            BY <2>1, <2>2, <2>4, <3>1, OwnUpdate DEF Rebuilds
        <3>5. Create(b, d)
            BY <3>1, <3>2
        <3> QED BY <2>1, <2>2, <2>3, <3>1, <3>2, <3>3, <3>4, <3>5, BoxMade
    <2>5. CASE Resumed(job[j].old) /\ JobEnds(j) /\ UNCHANGED <<disk, wiped>>
        <3>1. /\ boxes' \in [BoxIds -> BoxStates]
              /\ \A c \in BoxIds : boxes'[c] = "absent" <=> boxes[c] = "absent"
            BY <2>5, ResumedStays
        <3> QED BY <2>1, <2>2, <2>5, <3>1, <1>0, HarmlessMoves DEF JobEnds
    <2> QED BY <1>5, <2>4, <2>5 DEF UpdateRecreated
<1>6. CASE UpdateEnded(j)
    <2>1. /\ job[j].pc = "starting" /\ job' = [job EXCEPT ![j] = NoJob]
          /\ UNCHANGED <<slot, boxes, disk, wiped, files, left, excused>>
        BY <1>6 DEF UpdateEnded, At, JobEnds
    <2>2. ~Harmless(job[j]) /\ ~Pending(job[j])
        BY <2>1 DEF Harmless, Pending
    <2> QED BY <2>1, <2>2, <1>0, HarmlessMoves
<1> QED BY <1>1, <1>2, <1>3, <1>4, <1>5, <1>6

(* The old box goes; its successor is on the same disk and on the way to the claim. *)
LEMMA DropKeeps ==
    ASSUME BoxInv, NEW j \in BoxJobs, UpdateDropped(j)
    PROVE  BoxInv'
<1> DEFINE old == job[j].old
           q == [job[j] EXCEPT !.pc = "claim"]
<1>0. job[j] \in BoxJobStates /\ job[j].pc = "drop" /\ JobOK(job[j]) /\ Pending(job[j])
    BY DEF UpdateDropped, At, BoxInv, BoxTypes, JobsOK, Pending
<1>1. /\ q \in BoxJobStates /\ q.pc = "claim" /\ q.old = old /\ q.new = job[j].new
      /\ job' = [job EXCEPT ![j] = q]
    BY <1>0 DEF UpdateDropped, To, BoxJobStates, BoxPcs
<1>2. job'[j] = q /\ \A k \in BoxJobs \ {j} : job'[k] = job[k]
    BY <1>1 DEF BoxInv, BoxTypes
<1>3. old \in BoxIds /\ old # NoBox /\ old # job[j].new
    BY <1>0 DEF JobOK, BoxJobStates, BoxInv, NewsApart
<1>4. /\ boxes' = [boxes EXCEPT ![old] = "absent"]
      /\ UNCHANGED <<slot, update, disk, wiped, files, left, excused>>
    BY DEF UpdateDropped, Discard
<1>5. boxes'[old] = "absent" /\ \A c \in BoxIds \ {old} : boxes'[c] = boxes[c]
    BY <1>3, <1>4 DEF BoxInv, BoxTypes
<1>6. BoxTypes'
    BY <1>1, <1>4 DEF BoxInv, BoxTypes, BoxStates
<1>7. ASSUME NEW k \in BoxJobs PROVE JobOK(job[k])'
    <2>1. JobOK(job[k]) /\ job[k] \in BoxJobStates /\ (Pending(job[k]) => job[k].new # old)
        BY DEF BoxInv, JobsOK, BoxTypes, NewsApart
    <2>2. Pending(job[k]) => boxes'[job[k].new] = boxes[job[k].new]
        BY <2>1, <1>5 DEF BoxJobStates, JobOK
    <2>3. job[k].old # NoBox /\ boxes[job[k].old] = "absent" => boxes'[job[k].old] = "absent"
        BY <2>1, <1>5 DEF BoxJobStates
    <2>4. CASE k # j
        <3>1. job'[k] = job[k] BY <1>2, <2>4
        <3> QED BY <3>1, <2>1, <2>2, <2>3, <1>4 DEF JobOK, Pending
    <2>5. CASE k = j
        BY <2>5, <2>2, <1>0, <1>1, <1>2, <1>3, <1>4, <1>5 DEF JobOK, Pending
    <2> QED BY <2>4, <2>5
<1>8. NewsApart'
    <2>1. \A k \in BoxJobs : /\ job'[k].old = job[k].old /\ job'[k].new = job[k].new
                             /\ Pending(job'[k]) <=> Pending(job[k])
        BY <1>0, <1>1, <1>2 DEF Pending
    <2> QED BY <2>1 DEF BoxInv, NewsApart
<1>9. UpdateAlone'
    <2>1. ~Harmless(job[j]) BY <1>0 DEF Harmless
    <2>2. Rebuilds(q, slot) => Rebuilds(job[j], slot) BY <1>0, <1>1 DEF Rebuilds
    <2> QED BY <2>1, <2>2, <1>1, <1>4, OwnUpdate
<1>10. FilesInv'
    <2> SUFFICES ASSUME ~excused, files # 0
                 PROVE  /\ slot # NoBox /\ disk[slot] = files /\ files \notin wiped
                        /\ boxes'[slot] = "absent" => \E i \in BoxJobs : job'[i].pc = "claim" /\ job'[i].old = slot
        BY <1>4 DEF FilesInv
    <2>1. /\ slot # NoBox /\ disk[slot] = files /\ files \notin wiped
          /\ boxes[slot] = "absent" => \E i \in BoxJobs : job[i].pc = "claim" /\ job[i].old = slot
        BY DEF BoxInv, FilesInv
    <2>2. slot \in BoxIds BY <2>1 DEF BoxInv, BoxTypes
    <2>3. CASE slot = old
        BY <2>1, <2>3, <1>1, <1>2
    <2>4. CASE slot # old
        <3>1. \A i \in BoxJobs : job[i].pc = "claim" => job'[i] = job[i]
            BY <1>0, <1>2
        <3> QED BY <2>1, <2>2, <2>4, <3>1, <1>5
    <2> QED BY <2>3, <2>4
<1>11. DisksInv'
    BY <1>3, <1>4, <1>5 DEF BoxInv, DisksInv
<1>12. StrayInv'
    <2> SUFFICES ASSUME NEW c \in BoxIds, boxes'[c] # "absent"
                 PROVE  c = slot \/ c \in left \/ \E k \in BoxJobs : Pending(job'[k]) /\ job'[k].new = c
        BY <1>4 DEF StrayInv
    <2>1. boxes[c] # "absent"
        BY <1>5
    <2>2. c = slot \/ c \in left \/ \E k \in BoxJobs : Pending(job[k]) /\ job[k].new = c
        BY <2>1 DEF BoxInv, StrayInv
    <2>3. \A k \in BoxJobs : Pending(job[k]) => Pending(job'[k]) /\ job'[k].new = job[k].new
        BY <1>1, <1>2 DEF Pending
    <2> QED BY <2>2, <2>3
<1> QED BY <1>6, <1>7, <1>8, <1>9, <1>10, <1>11, <1>12 DEF BoxInv, JobsOK

(* A reset removes the box it read, and with it the files if they were there. *)
LEMMA DestroyKeeps ==
    ASSUME BoxInv, NEW j \in BoxJobs, ResetDestroyed(j)
    PROVE  BoxInv'
<1> DEFINE old == job[j].old
           q == [job[j] EXCEPT !.pc = "forget"]
<1>0. job[j] \in BoxJobStates /\ job[j].pc = "destroy" /\ JobOK(job[j]) /\ ~Pending(job[j])
    BY DEF ResetDestroyed, At, BoxInv, BoxTypes, JobsOK, Pending
<1>1. /\ q \in BoxJobStates /\ q.pc = "forget" /\ q.old = old /\ ~Pending(q) /\ Harmless(q) /\ ~Rebuilds(q, slot)
      /\ job' = [job EXCEPT ![j] = q]
    BY <1>0 DEF ResetDestroyed, To, BoxJobStates, BoxPcs, Pending, Harmless, Rebuilds
<1>2. job'[j] = q /\ \A k \in BoxJobs \ {j} : job'[k] = job[k]
    BY <1>1 DEF BoxInv, BoxTypes
<1>3. old \in BoxIds /\ old # NoBox /\ disk[old] # 0
    BY <1>0 DEF JobOK, BoxJobStates
<1>4. /\ boxes' = [boxes EXCEPT ![old] = "absent"]
      /\ files' = IF disk[old] = files THEN 0 ELSE files
      /\ UNCHANGED <<slot, update, disk, left, excused>>
    BY DEF ResetDestroyed, Destroy
<1>5. \/ wiped' = wiped
      \/ /\ wiped' = wiped \cup {disk[old]}
         /\ \A c \in BoxIds \ {old} : boxes[c] # "absent" => disk[c] # disk[old]
    BY DEF ResetDestroyed, Destroy, Exists
<1>6. boxes'[old] = "absent" /\ \A c \in BoxIds \ {old} : boxes'[c] = boxes[c]
    BY <1>3, <1>4 DEF BoxInv, BoxTypes
<1>7. BoxTypes'
    BY <1>1, <1>4 DEF BoxInv, BoxTypes, BoxStates
<1>8. ASSUME NEW k \in BoxJobs PROVE JobOK(job[k])'
    <2>1. JobOK(job[k]) /\ job[k] \in BoxJobStates /\ (Pending(job[k]) => job[k].new # old)
        BY DEF BoxInv, JobsOK, BoxTypes, NewsApart
    <2>2. Pending(job[k]) => boxes'[job[k].new] = boxes[job[k].new]
        BY <2>1, <1>6 DEF BoxJobStates, JobOK
    <2>3. job[k].old # NoBox /\ boxes[job[k].old] = "absent" => boxes'[job[k].old] = "absent"
        BY <2>1, <1>6 DEF BoxJobStates
    <2>4. CASE k # j
        <3>1. job'[k] = job[k] BY <1>2, <2>4
        <3> QED BY <3>1, <2>1, <2>2, <2>3, <1>4 DEF JobOK, Pending
    <2>5. CASE k = j
        <3>1. old = slot /\ ~excused => files' = 0
            <4>1. ~excused /\ files # 0 => disk[slot] = files
                BY DEF BoxInv, FilesInv
            <4> QED BY <4>1, <1>4
        <3>2. job'[k].pc = "forget" /\ job'[k].old = old
            BY <2>5, <1>1, <1>2
        <3>3. disk'[old] # 0 /\ boxes'[old] = "absent"
            BY <1>3, <1>4, <1>6
        <3>4. slot' = slot /\ excused' = excused
            BY <1>4
        <3> HIDE DEF old
        <3> QED BY <3>1, <3>2, <3>3, <3>4, <1>3 DEF JobOK, Pending
    <2> QED BY <2>4, <2>5
<1>9. NewsApart'
    BY <1>1, NewsStay
<1>10. UpdateAlone'
    BY <1>1, <1>4, AloneStays DEF BoxInv, UpdateAlone
<1>11. FilesInv'
    <2> SUFFICES ASSUME ~excused, files' # 0
                 PROVE  /\ slot # NoBox /\ disk[slot] = files' /\ files' \notin wiped'
                        /\ boxes'[slot] = "absent" => \E i \in BoxJobs : job'[i].pc = "claim" /\ job'[i].old = slot
        BY <1>4 DEF FilesInv
    <2>1. files' = files /\ disk[old] # files
        BY <1>4
    <2>2. /\ slot # NoBox /\ disk[slot] = files /\ files \notin wiped
          /\ boxes[slot] = "absent" => \E i \in BoxJobs : job[i].pc = "claim" /\ job[i].old = slot
        BY <2>1 DEF BoxInv, FilesInv
    <2>3. slot \in BoxIds /\ slot # old
        BY <2>1, <2>2 DEF BoxInv, BoxTypes
    <2>4. \A i \in BoxJobs : job[i].pc = "claim" => job'[i] = job[i]
        BY <1>0, <1>2
    <2> QED BY <1>5, <1>6, <2>1, <2>2, <2>3, <2>4
<1>12. DisksInv'
    <2> SUFFICES ASSUME NEW c \in BoxIds, boxes'[c] # "absent" PROVE disk[c] \notin wiped'
        BY <1>4 DEF DisksInv
    <2>1. c # old /\ boxes[c] # "absent"
        BY <1>6
    <2> QED BY <1>5, <2>1 DEF BoxInv, DisksInv
<1>13. StrayInv'
    <2>1. \A k \in BoxJobs : Pending(job[k]) => job'[k] = job[k]
        BY <1>0, <1>2
    <2> QED BY <2>1, <1>4, <1>6 DEF BoxInv, StrayInv
<1> QED BY <1>7, <1>8, <1>9, <1>10, <1>11, <1>12, <1>13 DEF BoxInv, JobsOK

LEMMA ResetsKeep ==
    ASSUME BoxInv, NEW j \in BoxJobs,
           ResetRead(j) \/ ResetDestroyed(j) \/ ResetCleared(j) \/ ResetUnguards(j)
    PROVE  BoxInv'
<1>0. /\ slot \in BoxIds \cup {NoBox} /\ job[j] \in BoxJobStates /\ boxes \in [BoxIds -> BoxStates]
      /\ job[j].old \in BoxIds \cup {NoBox}
    BY DEF BoxInv, BoxTypes, BoxJobStates
<1>1. CASE ResetRead(j)
    <2> DEFINE q == [pc |-> "destroy", old |-> slot, new |-> NoBox]
    <2>1. q \in BoxJobStates /\ job' = [job EXCEPT ![j] = q]
        BY <1>0, <1>1 DEF ResetRead, Begins, BoxJobStates, BoxPcs
    <2>2. ~Pending(job[j]) /\ ~Pending(q) /\ Harmless(q) /\ slot # NoBox
        BY <1>1 DEF ResetRead, NoJob, Pending, Harmless
    <2>3. UNCHANGED <<slot, update, boxes, disk, wiped, files, left, excused>>
        BY <1>1 DEF ResetRead
    <2> QED BY <2>1, <2>2, <2>3, <1>0, HarmlessMoves
<1>2. CASE ResetDestroyed(j)
    BY <1>2, DestroyKeeps
<1>3. CASE ResetCleared(j)
    <2>1. \/ job' = [job EXCEPT ![j] = [pc |-> "unguard", old |-> NoBox, new |-> NoBox]]
          \/ job' = [job EXCEPT ![j] = [pc |-> "none", old |-> NoBox, new |-> NoBox]]
        BY <1>3 DEF ResetCleared, Begins, JobEnds, NoJob
    <2>2. /\ job[j].pc \in {"clear", "forget"} /\ slot' = Cleared(job[j].old)
          /\ UNCHANGED <<update, boxes, disk, wiped, files, left, excused>>
        BY <1>3 DEF ResetCleared, At
    <2>3. CASE job' = [job EXCEPT ![j] = [pc |-> "unguard", old |-> NoBox, new |-> NoBox]]
        BY <2>2, <2>3, RowForgotten
    <2>4. CASE job' = [job EXCEPT ![j] = [pc |-> "none", old |-> NoBox, new |-> NoBox]]
        BY <2>2, <2>4, RowForgotten
    <2> QED BY <2>1, <2>3, <2>4
<1>4. CASE ResetUnguards(j)
    <2> DEFINE q == [job[j] EXCEPT !.pc = "ensure"]
    <2>1. q \in BoxJobStates /\ q.pc = "ensure" /\ q.old = job[j].old /\ job' = [job EXCEPT ![j] = q]
        BY <1>0, <1>4 DEF ResetUnguards, To, BoxJobStates, BoxPcs
    <2>2. /\ job[j].pc = "unguard" /\ (excused => excused')
          /\ UNCHANGED <<slot, boxes, disk, wiped, files, left>>
        BY <1>4 DEF ResetUnguards, At
    <2>3. ~excused' => \A k \in BoxJobs : ~Rebuilds(job[k], slot)
        BY <1>4 DEF ResetUnguards, Rebuilding, Rebuilds, At
    <2>4. ~Rebuilds(q, slot)
        BY <2>1 DEF Rebuilds
    <2>5. UpdateAlone'
        BY <2>1, <2>2, <2>3, <2>4, AloneStays
    <2> QED BY <2>1, <2>2, <2>5, <1>0, JobMoves DEF Pending
<1> QED BY <1>1, <1>2, <1>3, <1>4

LEMMA StopsKeep ==
    ASSUME BoxInv, NEW j \in BoxJobs, StopAsked(j) \/ BoxStopped(j)
    PROVE  BoxInv'
<1>0. /\ slot \in BoxIds \cup {NoBox} /\ job[j] \in BoxJobStates /\ boxes \in [BoxIds -> BoxStates]
      /\ job[j].old \in BoxIds \cup {NoBox} /\ NoJob \in BoxJobStates
      /\ ~Pending(NoJob) /\ Harmless(NoJob) /\ NoJob.old = NoBox /\ NoJob.pc = "none"
    BY DEF BoxInv, BoxTypes, BoxJobStates, NoJob, BoxPcs, Pending, Harmless
<1>1. CASE StopAsked(j)
    <2> DEFINE q == [pc |-> "stop", old |-> slot, new |-> NoBox]
    <2>1. q \in BoxJobStates /\ job' = [job EXCEPT ![j] = q]
        BY <1>0, <1>1 DEF StopAsked, Begins, BoxJobStates, BoxPcs
    <2>2. ~Pending(job[j]) /\ ~Pending(q) /\ Harmless(q)
        BY <1>1 DEF StopAsked, NoJob, Pending, Harmless
    <2>3. UNCHANGED <<slot, update, boxes, disk, wiped, files, left, excused>>
        BY <1>1 DEF StopAsked
    <2> QED BY <2>1, <2>2, <2>3, <1>0, HarmlessMoves
<1>2. CASE BoxStopped(j)
    <2>1. /\ ~Pending(job[j]) /\ job' = [job EXCEPT ![j] = NoJob]
          /\ UNCHANGED <<slot, update, disk, wiped, files, left, excused>>
        BY <1>2 DEF BoxStopped, At, Pending, JobEnds
    <2>2. /\ boxes' \in [BoxIds -> BoxStates]
          /\ \A c \in BoxIds : boxes'[c] = "absent" <=> boxes[c] = "absent"
        <3>1. CASE Exists(job[j].old)
            BY <3>1, <1>2, StillThere DEF BoxStopped
        <3>2. CASE ~Exists(job[j].old)
            BY <3>2, <1>0, <1>2 DEF BoxStopped
        <3> QED BY <3>1, <3>2
    <2> QED BY <2>1, <2>2, <1>0, HarmlessMoves
<1> QED BY <1>1, <1>2

LEMMA BoxesGoOn ==
    ASSUME BoxInv, UpdateAged \/ TurnUsesBox \/ BoxLost \/ UNCHANGED boxVars
    PROVE  BoxInv'
<1>1. CASE UpdateAged
    BY <1>1 DEF UpdateAged, BoxInv, BoxTypes, JobsOK, JobOK, NewsApart, UpdateAlone, FilesInv, DisksInv, StrayInv
<1>2. CASE TurnUsesBox
    <2>1. /\ boxes' \in [BoxIds -> BoxStates]
          /\ \A c \in BoxIds : boxes'[c] = "absent" <=> boxes[c] = "absent"
        BY <1>2, StillThere DEF TurnUsesBox
    <2>2. UNCHANGED <<slot, update, disk, wiped, job, files, left, excused>>
        BY <1>2 DEF TurnUsesBox
    <2>3. BoxTypes' /\ NewsApart' /\ UpdateAlone' /\ DisksInv' /\ StrayInv'
        BY <2>1, <2>2 DEF BoxInv, BoxTypes, NewsApart, UpdateAlone, DisksInv, StrayInv
    <2>4. ASSUME NEW k \in BoxJobs PROVE JobOK(job[k])'
        <3>1. JobOK(job[k]) /\ job[k].old \in BoxIds \cup {NoBox} /\ job[k].new \in BoxIds \cup {NoBox}
            BY DEF BoxInv, JobsOK, BoxTypes, BoxJobStates
        <3> QED BY <2>1, <2>2, <3>1 DEF JobOK, Pending
    <2>5. FilesInv'
        <3>1. slot \in BoxIds \cup {NoBox} BY DEF BoxInv, BoxTypes
        <3> QED BY <2>1, <2>2, <3>1 DEF BoxInv, FilesInv
    <2> QED BY <2>3, <2>4, <2>5 DEF BoxInv, JobsOK
<1>3. CASE BoxLost
    <2>1. /\ slot \in BoxIds /\ boxes' = [boxes EXCEPT ![slot] = "absent"] /\ files' = 0
          /\ UNCHANGED <<slot, update, disk, wiped, job, left, excused>>
        BY <1>3 DEF BoxLost, Exists
    <2>2. boxes'[slot] = "absent" /\ \A c \in BoxIds \ {slot} : boxes'[c] = boxes[c]
        BY <2>1 DEF BoxInv, BoxTypes
    <2>3. BoxTypes' /\ NewsApart' /\ UpdateAlone' /\ FilesInv'
        BY <2>1 DEF BoxInv, BoxTypes, NewsApart, UpdateAlone, FilesInv, BoxStates
    <2>4. ASSUME NEW k \in BoxJobs PROVE JobOK(job[k])'
        <3>1. JobOK(job[k]) /\ job[k].old \in BoxIds \cup {NoBox} /\ job[k].new \in BoxIds \cup {NoBox}
            BY DEF BoxInv, JobsOK, BoxTypes, BoxJobStates
        <3> QED BY <2>1, <2>2, <3>1 DEF JobOK, Pending
    <2>5. DisksInv' /\ StrayInv'
        BY <2>1, <2>2 DEF BoxInv, DisksInv, StrayInv
    <2> QED BY <2>3, <2>4, <2>5 DEF BoxInv, JobsOK
<1>4. CASE UNCHANGED boxVars
    BY <1>4 DEF boxVars, BoxInv, BoxTypes, JobsOK, JobOK, NewsApart, UpdateAlone, FilesInv, DisksInv, StrayInv
<1> QED BY <1>1, <1>2, <1>3, <1>4

(* What holds of a scope's computer (claim "left running, it was billed with nothing tracking it",
   recreate, discard, destroy_and_clear): no box is left with nobody to answer for it, and the
   person's files stay with the scope. *)
THEOREM NoBoxIsStrayAndFilesStay == BoxSpec => []BoxesHold
<1>1. BoxInit => BoxInv
    BY BoxesStart
<1>2. BoxInv /\ [BoxNext]_boxVars => BoxInv'
    <2> SUFFICES ASSUME BoxInv, [BoxNext]_boxVars PROVE BoxInv' OBVIOUS
    <2>1. CASE \E j \in BoxJobs : EnsureRead(j) \/ EnsureGuarded(j) \/ EnsureProbed(j) \/ EnsureCleared(j)
                                  \/ EnsureCreated(j)
        BY <2>1, EnsuresKeep
    <2>2. CASE \E j \in BoxJobs : BoxClaimed(j)
        BY <2>2, ClaimsKeep
    <2>3. CASE \E j \in BoxJobs : UpdateAsked(j) \/ UpdateBegun(j) \/ UpdateRead(j) \/ UpdateStopped(j)
                                  \/ UpdateRecreated(j) \/ UpdateEnded(j)
        BY <2>3, UpdatesKeep
    <2>4. CASE \E j \in BoxJobs : UpdateDropped(j)
        BY <2>4, DropKeeps
    <2>5. CASE \E j \in BoxJobs : ResetRead(j) \/ ResetDestroyed(j) \/ ResetCleared(j) \/ ResetUnguards(j)
        BY <2>5, ResetsKeep
    <2>6. CASE \E j \in BoxJobs : StopAsked(j) \/ BoxStopped(j)
        BY <2>6, StopsKeep
    <2>7. CASE UpdateAged \/ TurnUsesBox \/ BoxLost \/ UNCHANGED boxVars
        BY <2>7, BoxesGoOn
    <2> QED BY <2>1, <2>2, <2>3, <2>4, <2>5, <2>6, <2>7 DEF BoxNext
<1> QED BY <1>1, <1>2, BoxInvHolds, PTL DEF BoxSpec

-----------------------------------------------------------------------------
(* Spend *)

CallPcs == {"idle", "ready", "minting", "sealing", "recording", "minted", "refused", "send", "retiring", "dropping"}
SpendCalls == [pc : CallPcs, at : SpendReplicas, sent : 0..MaxKeys, row : 0..MaxKeys, hires : BOOLEAN]
CacheStates == [tried : BOOLEAN, limits : [lim : Nat, age : Nat], meter : [key : Nat, used : Nat, age : Nat]]
KeyStates == [minted : 0..MaxKeys, known : SUBSET (1..MaxKeys), points : [1..MaxKeys -> Nat]]

SpendTypes ==
    /\ keyRow \in [id : 0..MaxKeys, live : BOOLEAN]
    /\ keyRow.live => keyRow.id # 0
    /\ keyRow.id <= gatewayKeys.minted
    /\ keySecret \in 0..MaxKeys /\ keySecret <= gatewayKeys.minted
    /\ gatewayKeys \in KeyStates
    /\ limit \in {NoLimit} \cup Caps
    /\ letGo \in BOOLEAN
    /\ caches \in [SpendReplicas -> CacheStates]
    /\ call \in [SpendTurns -> SpendCalls]
    /\ overFor \in Nat

(* A turn that mints has a key that was minted, one that retires a key found it unknown, and one
   that is let through was not at its limit for longer than a reading may stand in. *)
SpendCallOK(c) ==
    /\ c.row <= gatewayKeys.minted /\ c.sent <= gatewayKeys.minted
    /\ c.pc \in {"sealing", "recording"} => c.row # 0
    /\ c.pc = "retiring" => c.row \notin gatewayKeys.known
    /\ c.pc = "send" => overFor <= MeterStale

SpendCallsOK == \A t \in SpendTurns : SpendCallOK(call[t])

(* The pair was at its limit for as long as overFor says. *)
OverInv ==
    overFor # 0 => limit # NoLimit /\ keyRow.id # 0 /\ gatewayKeys.points[keyRow.id] >= limit

(* Limits that are cached are the limits there are, or these are younger than the cache. *)
LimitsInv ==
    \A r \in SpendReplicas : caches[r].limits.age <= 1 =>
        caches[r].limits.lim = limit \/ overFor <= caches[r].limits.age

(* A reading of the row's key that is younger than the limit's reach says so. *)
MeterInv ==
    \A r \in SpendReplicas :
        caches[r].meter.key = keyRow.id /\ caches[r].meter.age <= MeterStale /\ overFor > caches[r].meter.age =>
            caches[r].meter.used >= limit

SpendInv == SpendTypes /\ SpendCallsOK /\ OverInv /\ LimitsInv /\ MeterInv

LEMMA SpendNames ==
    /\ MaxKeys \in Nat \ {0} /\ MaxPoints \in Nat /\ MeterStale \in Nat \ {0}
    /\ {NoLimit} \cup Caps \subseteq Nat /\ NoLimit = 0 /\ NoLimit \notin Caps
BY SpendAssumption DEF NoLimit

LEMMA NoCallIs ==
    /\ NoCall \in SpendCalls /\ NoCall.pc = "idle" /\ NoCall.sent = 0 /\ NoCall.row = 0 /\ NoCall.hires = FALSE
<1>1. (CHOOSE r \in SpendReplicas : TRUE) \in SpendReplicas
    BY SpendAssumption
<1> QED BY <1>1, SpendNames DEF NoCall, SpendCalls, CallPcs

LEMMA SpendStarts == SpendInit => SpendInv
<1> SUFFICES ASSUME SpendInit PROVE SpendInv OBVIOUS
<1>1. /\ keyRow = [id |-> 0, live |-> FALSE] /\ overFor = 0 /\ limit = 0 /\ letGo = FALSE /\ keySecret = 0
      /\ gatewayKeys = [minted |-> 0, known |-> {}, points |-> [k \in 1..MaxKeys |-> 0]]
    BY DEF SpendInit, NoKeyRow, NoLimit
<1>2. \A r \in SpendReplicas :
          caches[r] = [tried |-> FALSE, limits |-> [lim |-> 0, age |-> 2],
                       meter |-> [key |-> 0, used |-> 0, age |-> MeterStale + 1]]
    BY DEF SpendInit, NoLimits, NoLimit, NoMeter
<1>3. caches \in [SpendReplicas -> CacheStates]
    <2>1. [tried |-> FALSE, limits |-> [lim |-> 0, age |-> 2],
           meter |-> [key |-> 0, used |-> 0, age |-> MeterStale + 1]] \in CacheStates
        BY SpendNames DEF CacheStates
    <2> QED BY <2>1 DEF SpendInit, NoLimits, NoLimit, NoMeter
<1>4. gatewayKeys \in KeyStates /\ gatewayKeys.minted = 0
    BY <1>1, SpendNames DEF KeyStates
<1>5. call \in [SpendTurns -> SpendCalls] /\ \A t \in SpendTurns : call[t] = NoCall
    BY NoCallIs DEF SpendInit
<1>6. SpendTypes
    <2>1. 0 \in 0..MaxKeys /\ 0 <= 0
        BY SpendNames
    <2>2. keyRow \in [id : 0..MaxKeys, live : BOOLEAN] /\ keyRow.id = 0 /\ ~keyRow.live
        BY <1>1, <2>1
    <2>3. keyRow.id <= gatewayKeys.minted /\ keySecret <= gatewayKeys.minted
        BY <1>1, <1>4, <2>1, <2>2
    <2>4. overFor \in Nat /\ letGo \in BOOLEAN /\ limit \in {NoLimit} \cup Caps
        BY <1>1 DEF NoLimit
    <2> QED BY <1>1, <1>3, <1>4, <1>5, <2>1, <2>2, <2>3, <2>4 DEF SpendTypes
<1>7. SpendCallsOK
    <2>1. SpendCallOK(NoCall)
        BY <1>4, NoCallIs DEF SpendCallOK
    <2> QED BY <1>5, <2>1 DEF SpendCallsOK
<1>8. OverInv BY <1>1 DEF OverInv
<1>9. LimitsInv BY <1>2 DEF LimitsInv
<1>10. MeterInv BY <1>2, SpendNames DEF MeterInv
<1> QED BY <1>6, <1>7, <1>8, <1>9, <1>10 DEF SpendInv

(* One turn moves; keys are minted, counted and forgotten, and the clock does not go on. *)
LEMMA OneCallMoves ==
    ASSUME SpendInv, NEW t \in SpendTurns, NEW c \in SpendCalls, call' = [call EXCEPT ![t] = c],
           gatewayKeys' \in KeyStates, gatewayKeys.minted <= gatewayKeys'.minted,
           gatewayKeys'.known \subseteq gatewayKeys.known \cup {gatewayKeys.minted + 1},
           overFor' \in {0, overFor}, SpendCallOK(c)'
    PROVE  SpendCallsOK'
<1> SUFFICES ASSUME NEW u \in SpendTurns PROVE SpendCallOK(call[u])'
    BY DEF SpendCallsOK
<1>1. CASE u = t
    BY <1>1 DEF SpendInv, SpendTypes, SpendCallOK
<1>2. CASE u # t
    <2>1. call'[u] = call[u] /\ SpendCallOK(call[u]) /\ call[u] \in SpendCalls
        BY <1>2 DEF SpendInv, SpendTypes, SpendCallsOK
    <2>2. /\ call[u].row \in Nat /\ call[u].sent \in Nat /\ gatewayKeys.minted \in Nat /\ gatewayKeys'.minted \in Nat /\ overFor \in Nat
        BY <2>1, SpendNames DEF SpendCalls, SpendInv, SpendTypes, KeyStates
    <2>3. call[u].row <= gatewayKeys.minted /\ call[u].sent <= gatewayKeys.minted
        BY <2>1 DEF SpendCallOK
    <2>4. call[u].row \notin gatewayKeys.known => call[u].row \notin gatewayKeys'.known
        BY <2>2, <2>3
    <2> QED BY <2>1, <2>2, <2>3, <2>4, SpendNames DEF SpendCallOK
<1> QED BY <1>1, <1>2

(* What the limits hang on is as it was, but for limits read anew and points counted. *)
LEMMA LimitsHold ==
    ASSUME SpendInv, UNCHANGED <<limit, overFor>>, keyRow'.id = keyRow.id,
           \A k \in 1..MaxKeys : gatewayKeys'.points[k] >= gatewayKeys.points[k],
           gatewayKeys' \in KeyStates, caches' \in [SpendReplicas -> CacheStates],
           \A r \in SpendReplicas :
              /\ caches'[r].limits = caches[r].limits \/ caches'[r].limits.lim = limit
              /\ \/ caches'[r].meter = caches[r].meter
                 \/ caches'[r].meter.key # 0 /\ caches'[r].meter.used = gatewayKeys.points[keyRow.id]
    PROVE  OverInv' /\ LimitsInv' /\ MeterInv'
<1>1. keyRow.id \in 0..MaxKeys /\ limit \in Nat /\ overFor \in Nat /\ gatewayKeys \in KeyStates
    BY SpendNames DEF SpendInv, SpendTypes
<1>2. keyRow.id # 0 => /\ keyRow.id \in 1..MaxKeys
                       /\ gatewayKeys.points[keyRow.id] \in Nat /\ gatewayKeys'.points[keyRow.id] \in Nat
    BY <1>1, SpendNames DEF KeyStates
<1>3. OverInv'
    BY <1>1, <1>2 DEF SpendInv, OverInv
<1>4. LimitsInv'
    BY DEF SpendInv, LimitsInv
<1>5. MeterInv'
    <2> SUFFICES ASSUME NEW r \in SpendReplicas, caches'[r].meter.key = keyRow.id,
                        caches'[r].meter.age <= MeterStale, overFor > caches'[r].meter.age
                 PROVE  caches'[r].meter.used >= limit
        BY DEF MeterInv
    <2>1. CASE caches'[r].meter = caches[r].meter
        BY <2>1 DEF SpendInv, MeterInv
    <2>2. CASE caches'[r].meter.key # 0 /\ caches'[r].meter.used = gatewayKeys.points[keyRow.id]
        <3>1. caches'[r].meter.age \in Nat
            BY DEF CacheStates
        <3>2. overFor # 0
            BY <1>1, <3>1
        <3> QED BY <2>2, <3>2 DEF SpendInv, OverInv
    <2> QED BY <2>1, <2>2
<1> QED BY <1>3, <1>4, <1>5

LEMMA TurnMoves ==
    ASSUME SpendInv, NEW t \in SpendTurns, NEW c \in SpendCalls, call' = [call EXCEPT ![t] = c],
           UNCHANGED <<limit, letGo, overFor>>, keySecret' \in 0..MaxKeys, keySecret' <= gatewayKeys'.minted,
           keyRow' \in [id : 0..MaxKeys, live : BOOLEAN], keyRow'.id = keyRow.id, keyRow'.live => keyRow.live,
           gatewayKeys' \in KeyStates, gatewayKeys.minted <= gatewayKeys'.minted,
           gatewayKeys'.known \subseteq gatewayKeys.known \cup {gatewayKeys.minted + 1},
           \A k \in 1..MaxKeys : gatewayKeys'.points[k] >= gatewayKeys.points[k],
           caches' \in [SpendReplicas -> CacheStates],
           \A r \in SpendReplicas :
              /\ caches'[r].limits = caches[r].limits \/ caches'[r].limits.lim = limit
              /\ \/ caches'[r].meter = caches[r].meter
                 \/ caches'[r].meter.key # 0 /\ caches'[r].meter.used = gatewayKeys.points[keyRow.id],
           SpendCallOK(c)'
    PROVE  SpendInv'
<1>1. SpendCallsOK'
    BY OneCallMoves
<1>2. OverInv' /\ LimitsInv' /\ MeterInv'
    BY LimitsHold
<1>3. SpendTypes'
    <2>1. keyRow.id <= gatewayKeys'.minted
        BY SpendNames DEF SpendInv, SpendTypes, KeyStates
    <2> QED BY <2>1 DEF SpendInv, SpendTypes
<1> QED BY <1>1, <1>2, <1>3 DEF SpendInv

(* A turn moves and the gateway, the row and the readings are as they were. *)
LEMMA OnlyTheTurnMoves ==
    ASSUME SpendInv, NEW t \in SpendTurns, NEW c \in SpendCalls, call' = [call EXCEPT ![t] = c],
           UNCHANGED <<keyRow, limit, letGo, overFor, gatewayKeys, caches>>, keySecret' \in 0..MaxKeys, keySecret' <= gatewayKeys.minted, SpendCallOK(c)
    PROVE  SpendInv'
<1>1. /\ keyRow \in [id : 0..MaxKeys, live : BOOLEAN] /\ gatewayKeys \in KeyStates
      /\ caches \in [SpendReplicas -> CacheStates]
    BY DEF SpendInv, SpendTypes
<1>2. gatewayKeys.minted <= gatewayKeys.minted /\ \A k \in 1..MaxKeys : gatewayKeys.points[k] >= gatewayKeys.points[k]
    BY <1>1, SpendNames DEF KeyStates
<1>3. SpendCallOK(c)'
    BY DEF SpendCallOK
<1> QED BY <1>1, <1>2, <1>3, TurnMoves

(* A turn that begins anew holds no key but the one it sends. *)
LEMMA AnewIsOK ==
    ASSUME SpendInv, NEW pc \in {"ready", "minting"}, NEW r \in SpendReplicas, NEW k \in 0..MaxKeys, k <= gatewayKeys.minted,
           NEW h \in BOOLEAN
    PROVE  /\ [NoCall EXCEPT !.pc = pc, !.at = r, !.sent = k, !.hires = h] \in SpendCalls
           /\ SpendCallOK([NoCall EXCEPT !.pc = pc, !.at = r, !.sent = k, !.hires = h])
           /\ NoCall \in SpendCalls /\ SpendCallOK(NoCall)
<1>1. gatewayKeys.minted \in Nat
    BY SpendNames DEF SpendInv, SpendTypes, KeyStates
<1> DEFINE c == [NoCall EXCEPT !.pc = pc, !.at = r, !.sent = k, !.hires = h]
<1>2. c \in SpendCalls /\ c.pc = pc /\ c.row = 0 /\ c.sent = k
    BY NoCallIs DEF SpendCalls, CallPcs
<1>3. SpendCallOK(c)
    BY <1>1, <1>2 DEF SpendCallOK
<1>4. SpendCallOK(NoCall)
    BY <1>1, NoCallIs DEF SpendCallOK
<1> QED BY <1>2, <1>3, <1>4, NoCallIs

LEMMA KeylessIs ==
    ASSUME SpendInv, NEW t \in SpendTurns, Keyless(t) \/ CallEnded(t)
    PROVE  \E c \in SpendCalls : /\ call' = [call EXCEPT ![t] = c]
                                 /\ c.row = 0 /\ c.sent = 0 /\ c.pc \in {"idle", "ready"}
<1>1. call[t].at \in SpendReplicas
    BY DEF SpendInv, SpendTypes, SpendCalls
<1>2. [NoCall EXCEPT !.pc = "ready", !.at = call[t].at] \in SpendCalls
    BY <1>1, NoCallIs DEF SpendCalls, CallPcs
<1>3. /\ [NoCall EXCEPT !.pc = "ready", !.at = call[t].at].row = 0
      /\ [NoCall EXCEPT !.pc = "ready", !.at = call[t].at].sent = 0
      /\ [NoCall EXCEPT !.pc = "ready", !.at = call[t].at].pc = "ready"
    BY NoCallIs DEF SpendCalls
<1>4. \/ call' = [call EXCEPT ![t] = NoCall]
      \/ call' = [call EXCEPT ![t] = [NoCall EXCEPT !.pc = "ready", !.at = call[t].at]]
    BY DEF Keyless, CallEnded
<1>5. CASE call' = [call EXCEPT ![t] = NoCall]
    BY <1>5, NoCallIs
<1>6. CASE call' = [call EXCEPT ![t] = [NoCall EXCEPT !.pc = "ready", !.at = call[t].at]]
    BY <1>6, <1>2, <1>3
<1> QED BY <1>4, <1>5, <1>6

(* A turn that goes on to another step of the same call. *)
LEMMA GoesOn ==
    ASSUME SpendInv, NEW t \in SpendTurns, NEW pc \in CallPcs, Goto(t, pc)
    PROVE  /\ [call[t] EXCEPT !.pc = pc] \in SpendCalls
           /\ call' = [call EXCEPT ![t] = [call[t] EXCEPT !.pc = pc]]
           /\ [call[t] EXCEPT !.pc = pc].pc = pc /\ [call[t] EXCEPT !.pc = pc].row = call[t].row
           /\ [call[t] EXCEPT !.pc = pc].sent = call[t].sent
<1>1. call[t] \in SpendCalls /\ call \in [SpendTurns -> SpendCalls]
    BY DEF SpendInv, SpendTypes
<1> QED BY <1>1 DEF Goto, SpendCalls

LEMMA KeysKeep ==
    ASSUME SpendInv, NEW t \in SpendTurns,
           (\E r \in SpendReplicas : KeyFor(t, r) \/ HireMints(t, r)) \/ MintedRead(t)
    PROVE  SpendInv'
<1>0. /\ keySecret \in 0..MaxKeys /\ keySecret <= gatewayKeys.minted /\ caches \in [SpendReplicas -> CacheStates] /\ call[t] \in SpendCalls
      /\ keyRow \in [id : 0..MaxKeys, live : BOOLEAN] /\ gatewayKeys \in KeyStates
      /\ gatewayKeys.minted <= gatewayKeys.minted
      /\ \A k \in 1..MaxKeys : gatewayKeys.points[k] >= gatewayKeys.points[k]
    BY SpendNames DEF SpendInv, SpendTypes, KeyStates
<1>1. ASSUME NEW r \in SpendReplicas, KeyFor(t, r) PROVE SpendInv'
    <2>1. UNCHANGED <<keyRow, keySecret, gatewayKeys, limit, letGo, overFor>>
        BY <1>1 DEF KeyFor
    <2>2. \E pc \in {"ready", "minting"}, k \in {0, keySecret} :
              call' = [call EXCEPT ![t] = [NoCall EXCEPT !.pc = pc, !.at = r, !.sent = k, !.hires = FALSE]]
        <3>1. ASSUME NEW pc \in {"ready", "minting"}, NEW k \in {0, keySecret}
              PROVE  /\ [NoCall EXCEPT !.pc = pc, !.at = r, !.sent = k]
                           = [NoCall EXCEPT !.pc = pc, !.at = r, !.sent = k, !.hires = FALSE]
                     /\ [NoCall EXCEPT !.pc = pc, !.at = r]
                           = [NoCall EXCEPT !.pc = pc, !.at = r, !.sent = 0, !.hires = FALSE]
            BY NoCallIs DEF SpendCalls
        <3>2. \/ call' = [call EXCEPT ![t] = [NoCall EXCEPT !.pc = "ready", !.at = r, !.sent = keySecret]]
              \/ call' = [call EXCEPT ![t] = [NoCall EXCEPT !.pc = "minting", !.at = r]]
              \/ call' = [call EXCEPT ![t] = [NoCall EXCEPT !.pc = "ready", !.at = r]]
            BY <1>1 DEF KeyFor
        <3>3. CASE call' = [call EXCEPT ![t] = [NoCall EXCEPT !.pc = "ready", !.at = r, !.sent = keySecret]]
            BY <3>1, <3>3
        <3>4. CASE call' = [call EXCEPT ![t] = [NoCall EXCEPT !.pc = "minting", !.at = r]]
            BY <3>1, <3>4
        <3>5. CASE call' = [call EXCEPT ![t] = [NoCall EXCEPT !.pc = "ready", !.at = r]]
            BY <3>1, <3>5
        <3> QED BY <3>2, <3>3, <3>4, <3>5
    <2>3. PICK pc \in {"ready", "minting"}, k \in {0, keySecret} :
              call' = [call EXCEPT ![t] = [NoCall EXCEPT !.pc = pc, !.at = r, !.sent = k, !.hires = FALSE]]
        BY <2>2
    <2> DEFINE c == [NoCall EXCEPT !.pc = pc, !.at = r, !.sent = k, !.hires = FALSE]
    <2>4. k \in 0..MaxKeys /\ k <= gatewayKeys.minted
        BY <1>0, SpendNames DEF KeyStates
    <2>5. c \in SpendCalls /\ SpendCallOK(c)
        BY <2>4, AnewIsOK
    <2>6. SpendCallOK(c)'
        BY <2>1, <2>5 DEF SpendCallOK
    <2>7. /\ caches' \in [SpendReplicas -> CacheStates]
          /\ \A s \in SpendReplicas : caches'[s].limits = caches[s].limits /\ caches'[s].meter = caches[s].meter
        <3>1. caches' = caches \/ caches' = [caches EXCEPT ![r].tried = TRUE]
            BY <1>1 DEF KeyFor
        <3>2. caches[r] \in CacheStates
            BY <1>0
        <3>3. /\ [caches[r] EXCEPT !.tried = TRUE] \in CacheStates
              /\ [caches[r] EXCEPT !.tried = TRUE].limits = caches[r].limits
              /\ [caches[r] EXCEPT !.tried = TRUE].meter = caches[r].meter
            BY <3>2 DEF CacheStates
        <3>4. caches' = caches \/ caches' = [caches EXCEPT ![r] = [caches[r] EXCEPT !.tried = TRUE]]
            BY <3>1
        <3> QED BY <3>3, <3>4, <1>0
    <2> QED BY <1>0, <2>1, <2>3, <2>5, <2>6, <2>7, TurnMoves
<1>2. ASSUME NEW r \in SpendReplicas, HireMints(t, r) PROVE SpendInv'
    <2>1. call' = [call EXCEPT ![t] = [NoCall EXCEPT !.pc = "minting", !.at = r, !.sent = 0, !.hires = TRUE]]
        BY <1>2, NoCallIs DEF HireMints, SpendCalls
    <2>2. 0 \in 0..MaxKeys /\ 0 <= gatewayKeys.minted
        BY <1>0, SpendNames DEF KeyStates
    <2> QED BY <1>0, <1>2, <2>1, <2>2, AnewIsOK, OnlyTheTurnMoves DEF HireMints
<1>3. CASE MintedRead(t)
    <2>1. UNCHANGED <<keyRow, keySecret, gatewayKeys, limit, letGo, caches, overFor>>
        BY <1>3 DEF MintedRead
    <2>2. CASE keyRow.live /\ keySecret # 0
        <3>1. call' = [call EXCEPT ![t] = [NoCall EXCEPT !.pc = "ready", !.at = call[t].at, !.sent = keySecret, !.hires = FALSE]]
            BY <1>3, <2>2, NoCallIs DEF MintedRead, Opened, SpendCalls
        <3>2. call[t].at \in SpendReplicas
            BY <1>0 DEF SpendCalls
        <3> QED BY <1>0, <2>1, <3>1, <3>2, AnewIsOK, OnlyTheTurnMoves
    <2>3. CASE ~(keyRow.live /\ keySecret # 0)
        <3>1. Keyless(t) \/ CallEnded(t)
            BY <1>3, <2>3 DEF MintedRead, Opened, CallEnded
        <3>2. PICK c \in SpendCalls : call' = [call EXCEPT ![t] = c] /\ c.row = 0 /\ c.sent = 0 /\ c.pc \in {"idle", "ready"}
            BY <3>1, KeylessIs
        <3>3. SpendCallOK(c)
            BY <3>2, <1>0, SpendNames DEF SpendCallOK, KeyStates
        <3> QED BY <1>0, <2>1, <3>2, <3>3, OnlyTheTurnMoves
    <2> QED BY <2>2, <2>3
<1> QED BY <1>1, <1>2, <1>3

LEMMA MintsKeep ==
    ASSUME SpendInv, NEW t \in SpendTurns, MintAsked(t) \/ Sealed(t)
    PROVE  SpendInv'
<1>0. /\ keySecret \in 0..MaxKeys /\ keySecret <= gatewayKeys.minted /\ caches \in [SpendReplicas -> CacheStates] /\ call[t] \in SpendCalls
      /\ keyRow \in [id : 0..MaxKeys, live : BOOLEAN] /\ gatewayKeys \in KeyStates
      /\ gatewayKeys.minted \in 0..MaxKeys /\ SpendCallOK(call[t]) /\ call \in [SpendTurns -> SpendCalls]
    BY DEF SpendInv, SpendTypes, KeyStates, SpendCallsOK
<1>1. /\ gatewayKeys.minted <= gatewayKeys.minted /\ gatewayKeys.minted \in Nat
      /\ \A k \in 1..MaxKeys : gatewayKeys.points[k] >= gatewayKeys.points[k]
    BY <1>0, SpendNames DEF KeyStates
<1>2. CASE MintAsked(t)
    <2>1. call[t].pc = "minting" /\ UNCHANGED <<keyRow, keySecret, limit, letGo, caches, overFor>>
        BY <1>2 DEF MintAsked
    <2>2. CASE AfterMint(t) /\ UNCHANGED gatewayKeys
        <3>1. CASE CallEnded(t)
            <4>1. PICK c \in SpendCalls : call' = [call EXCEPT ![t] = c] /\ c.row = 0 /\ c.sent = 0 /\ c.pc \in {"idle", "ready"}
                BY <3>1, KeylessIs
            <4>2. SpendCallOK(c)
                BY <4>1, <1>1, SpendNames DEF SpendCallOK
            <4> QED BY <1>0, <2>1, <2>2, <4>1, <4>2, OnlyTheTurnMoves
        <3>2. CASE Goto(t, "minted")
            <4> DEFINE c == [call[t] EXCEPT !.pc = "minted"]
            <4>1. c \in SpendCalls /\ call' = [call EXCEPT ![t] = c] /\ c.pc = "minted" /\ c.row = call[t].row /\ c.sent = call[t].sent
                BY <3>2, GoesOn DEF CallPcs
            <4>2. SpendCallOK(c)
                BY <4>1, <1>0 DEF SpendCallOK
            <4> QED BY <1>0, <2>1, <2>2, <4>1, <4>2, OnlyTheTurnMoves
        <3> QED BY <2>2, <3>1, <3>2 DEF AfterMint
    <2>3. CASE /\ gatewayKeys.minted < MaxKeys
               /\ LET k == gatewayKeys.minted + 1
                  IN /\ gatewayKeys' = [gatewayKeys EXCEPT !.minted = k, !.known = @ \cup {k}]
                     /\ call' = [call EXCEPT ![t].pc = "sealing", ![t].row = k]
        <3>0. gatewayKeys.minted + 1 \in 1..MaxKeys /\ gatewayKeys.minted + 1 \in 0..MaxKeys
            BY <2>3, <1>0, SpendNames
        <3>1. PICK k \in 1..MaxKeys : k = gatewayKeys.minted + 1 /\ k \in 0..MaxKeys /\ k # 0
            BY <3>0
        <3> DEFINE c0 == [call[t] EXCEPT !.pc = "sealing", !.row = k]
        <3>2a. c0 \in SpendCalls /\ c0.pc = "sealing" /\ c0.row = k /\ c0.sent = call[t].sent
            BY <1>0, <3>1 DEF SpendCalls, CallPcs
        <3>2. PICK c \in SpendCalls : c = c0 /\ c.pc = "sealing" /\ c.row = k /\ c.sent = call[t].sent
            BY <3>2a
        <3>3. call' = [call EXCEPT ![t] = c]
            BY <2>3, <1>0, <3>1, <3>2 DEF SpendCalls
        <3> HIDE DEF c0
        <3>4. /\ gatewayKeys' \in KeyStates /\ gatewayKeys'.minted = k /\ gatewayKeys'.points = gatewayKeys.points
              /\ gatewayKeys'.known = gatewayKeys.known \cup {k}
            BY <2>3, <1>0, <3>1 DEF KeyStates
        <3>5. SpendCallOK(c)'
            <4>1. call[t].sent \in 0..MaxKeys /\ call[t].sent <= gatewayKeys.minted
                BY <1>0 DEF SpendCallOK, SpendCalls
            <4>2. c.row <= k /\ c.sent <= k
                BY <4>1, <3>1, <3>2, <1>1, SpendNames
            <4>3. c.row <= gatewayKeys'.minted /\ c.sent <= gatewayKeys'.minted
                BY <4>2, <3>4
            <4> QED BY <4>3, <3>1, <3>2 DEF SpendCallOK
        <3>6. gatewayKeys.minted <= gatewayKeys'.minted /\ keySecret <= gatewayKeys'.minted
            BY <1>0, <1>1, <3>1, <3>4, SpendNames
        <3>7. gatewayKeys'.known \subseteq gatewayKeys.known \cup {gatewayKeys.minted + 1}
            BY <3>1, <3>4
        <3> QED BY <1>0, <1>1, <2>1, <3>2, <3>3, <3>4, <3>5, <3>6, <3>7, TurnMoves
    <2>4. CASE Keyless(t) /\ UNCHANGED gatewayKeys
        <3>1. PICK c \in SpendCalls : call' = [call EXCEPT ![t] = c] /\ c.row = 0 /\ c.sent = 0 /\ c.pc \in {"idle", "ready"}
            BY <2>4, KeylessIs
        <3>2. SpendCallOK(c)
            BY <3>1, <1>1, SpendNames DEF SpendCallOK
        <3> QED BY <1>0, <2>1, <2>4, <3>1, <3>2, OnlyTheTurnMoves
    <2> QED BY <1>2, <2>2, <2>3, <2>4 DEF MintAsked
<1>3. CASE Sealed(t)
    <2>1. call[t].pc = "sealing" /\ UNCHANGED <<keyRow, limit, letGo, caches, overFor>>
        BY <1>3 DEF Sealed
    <2>2. CASE keySecret' = call[t].row /\ Goto(t, "recording") /\ UNCHANGED gatewayKeys
        <3> DEFINE c == [call[t] EXCEPT !.pc = "recording"]
        <3>1. c \in SpendCalls /\ call' = [call EXCEPT ![t] = c] /\ c.pc = "recording" /\ c.row = call[t].row /\ c.sent = call[t].sent
            BY <2>2, GoesOn DEF CallPcs
        <3>2. SpendCallOK(c)
            BY <2>1, <3>1, <1>0 DEF SpendCallOK
        <3>3. keySecret' \in 0..MaxKeys /\ keySecret' <= gatewayKeys.minted
            BY <2>2, <1>0 DEF SpendCalls, SpendCallOK
        <3> QED BY <1>0, <2>1, <2>2, <3>1, <3>2, <3>3, OnlyTheTurnMoves
    <2>3. CASE /\ Keyless(t)
               /\ gatewayKeys' = [gatewayKeys EXCEPT !.known = @ \ {call[t].row}]
               /\ UNCHANGED keySecret
        <3>1. PICK c \in SpendCalls : call' = [call EXCEPT ![t] = c] /\ c.row = 0 /\ c.sent = 0 /\ c.pc \in {"idle", "ready"}
            BY <2>3, KeylessIs
        <3>2. /\ gatewayKeys' \in KeyStates /\ gatewayKeys'.minted = gatewayKeys.minted
              /\ gatewayKeys'.points = gatewayKeys.points /\ gatewayKeys'.known \subseteq gatewayKeys.known
            BY <2>3, <1>0 DEF KeyStates
        <3>3. SpendCallOK(c)'
            BY <3>1, <3>2, <1>1, SpendNames DEF SpendCallOK
        <3> QED BY <1>0, <1>1, <2>1, <2>3, <3>1, <3>2, <3>3, TurnMoves
    <2> QED BY <1>3, <2>2, <2>3 DEF Sealed
<1> QED BY <1>2, <1>3

(* A key that is recorded starts with no time at its limit. *)
LEMMA RecordedKeeps ==
    ASSUME SpendInv, NEW t \in SpendTurns, Recorded(t)
    PROVE  SpendInv'
<1>0. /\ keySecret \in 0..MaxKeys /\ keySecret <= gatewayKeys.minted /\ caches \in [SpendReplicas -> CacheStates] /\ call[t] \in SpendCalls
      /\ keyRow \in [id : 0..MaxKeys, live : BOOLEAN] /\ gatewayKeys \in KeyStates
      /\ gatewayKeys.minted \in 0..MaxKeys /\ SpendCallOK(call[t]) /\ call \in [SpendTurns -> SpendCalls]
    BY DEF SpendInv, SpendTypes, KeyStates, SpendCallsOK
<1>1. /\ gatewayKeys.minted <= gatewayKeys.minted /\ gatewayKeys.minted \in Nat
      /\ \A k \in 1..MaxKeys : gatewayKeys.points[k] >= gatewayKeys.points[k]
    BY <1>0, SpendNames DEF KeyStates
<1>2. call[t].pc = "recording" /\ UNCHANGED <<limit, letGo, caches>>
    BY DEF Recorded
<1>3. call[t].row # 0 /\ call[t].row <= gatewayKeys.minted /\ call[t].row \in 0..MaxKeys
    BY <1>0, <1>2 DEF SpendCallOK, SpendCalls
<1>4. CASE /\ keyRow' = Upserted(call[t].row) /\ overFor' = 0 /\ AfterMint(t)
           /\ UNCHANGED <<keySecret, gatewayKeys>>
    <2>1. \E c \in SpendCalls : call' = [call EXCEPT ![t] = c] /\ SpendCallOK(c)'
        <3>1. CASE CallEnded(t)
            <4>1. PICK c \in SpendCalls : call' = [call EXCEPT ![t] = c] /\ c.row = 0 /\ c.sent = 0 /\ c.pc \in {"idle", "ready"}
                BY <3>1, KeylessIs
            <4>2. SpendCallOK(c)'
                BY <1>4, <4>1, <1>1, SpendNames DEF SpendCallOK
            <4> QED BY <4>1, <4>2
        <3>2. CASE Goto(t, "minted")
            <4>1. PICK c \in SpendCalls : /\ call' = [call EXCEPT ![t] = c]
                                          /\ c.pc = "minted" /\ c.row = call[t].row /\ c.sent = call[t].sent
                BY <3>2, GoesOn DEF CallPcs
            <4>2. c.row <= gatewayKeys.minted /\ c.sent <= gatewayKeys.minted
                BY <4>1, <1>0 DEF SpendCallOK
            <4>3. SpendCallOK(c)'
                BY <1>4, <4>1, <4>2 DEF SpendCallOK
            <4> QED BY <4>1, <4>3
        <3> QED BY <1>4, <3>1, <3>2 DEF AfterMint
    <2>2. PICK c \in SpendCalls : call' = [call EXCEPT ![t] = c] /\ SpendCallOK(c)'
        BY <2>1
    <2>3. SpendCallsOK'
        BY <1>0, <1>1, <1>4, <2>2, OneCallMoves
    <2>4. keyRow' = [id |-> call[t].row, live |-> TRUE]
        BY <1>4 DEF Upserted
    <2>5. SpendTypes'
        BY <1>2, <1>3, <1>4, <2>2, <2>4 DEF SpendInv, SpendTypes
    <2>6. OverInv' BY <1>4 DEF OverInv
    <2>7. LimitsInv'
        BY <1>0, <1>2, <1>4 DEF LimitsInv, CacheStates
    <2>8. MeterInv'
        <3>1. \A r \in SpendReplicas : ~(0 > caches[r].meter.age)
            BY <1>0 DEF CacheStates
        <3> QED BY <1>2, <1>4, <3>1 DEF MeterInv
    <2> QED BY <2>3, <2>5, <2>6, <2>7, <2>8 DEF SpendInv
<1>5. CASE /\ keySecret' = 0
           /\ gatewayKeys' = [gatewayKeys EXCEPT !.known = @ \ {call[t].row}]
           /\ Keyless(t)
           /\ UNCHANGED <<keyRow, overFor>>
    <2>1. PICK c \in SpendCalls : call' = [call EXCEPT ![t] = c] /\ c.row = 0 /\ c.sent = 0 /\ c.pc \in {"idle", "ready"}
        BY <1>5, KeylessIs
    <2>2. /\ gatewayKeys' \in KeyStates /\ gatewayKeys'.minted = gatewayKeys.minted
          /\ gatewayKeys'.points = gatewayKeys.points /\ gatewayKeys'.known \subseteq gatewayKeys.known
        BY <1>5, <1>0 DEF KeyStates
    <2>3. SpendCallOK(c)'
        BY <2>1, <2>2, <1>1, SpendNames DEF SpendCallOK
    <2>4. keySecret' \in 0..MaxKeys /\ keySecret' <= gatewayKeys'.minted
        BY <1>1, <1>5, <2>2, SpendNames
    <2> QED BY <1>0, <1>1, <1>2, <1>5, <2>1, <2>2, <2>3, <2>4, TurnMoves
<1> QED BY <1>4, <1>5 DEF Recorded

LEMMA RetiresKeep ==
    ASSUME SpendInv, NEW t \in SpendTurns, KeyRefused(t) \/ Retired(t) \/ SecretDropped(t)
    PROVE  SpendInv'
<1>0. /\ keySecret \in 0..MaxKeys /\ keySecret <= gatewayKeys.minted /\ caches \in [SpendReplicas -> CacheStates] /\ call[t] \in SpendCalls
      /\ keyRow \in [id : 0..MaxKeys, live : BOOLEAN] /\ gatewayKeys \in KeyStates
      /\ gatewayKeys.minted \in 0..MaxKeys /\ SpendCallOK(call[t]) /\ call \in [SpendTurns -> SpendCalls]
    BY DEF SpendInv, SpendTypes, KeyStates, SpendCallsOK
<1>1. /\ gatewayKeys.minted <= gatewayKeys.minted /\ gatewayKeys.minted \in Nat
      /\ \A k \in 1..MaxKeys : gatewayKeys.points[k] >= gatewayKeys.points[k]
    BY <1>0, SpendNames DEF KeyStates
<1>2. ASSUME CallEnded(t), UNCHANGED <<keyRow, limit, letGo, overFor, gatewayKeys, caches>>, keySecret' \in 0..MaxKeys,
             keySecret' <= gatewayKeys.minted
      PROVE  SpendInv'
    <2>1. PICK c \in SpendCalls : call' = [call EXCEPT ![t] = c] /\ c.row = 0 /\ c.sent = 0 /\ c.pc \in {"idle", "ready"}
        BY <1>2, KeylessIs
    <2>2. SpendCallOK(c)
        BY <2>1, <1>1, SpendNames DEF SpendCallOK
    <2> QED BY <1>2, <2>1, <2>2, OnlyTheTurnMoves
<1>3. CASE KeyRefused(t)
    <2>1. call[t].pc = "refused" /\ UNCHANGED <<keyRow, keySecret, gatewayKeys, limit, letGo, caches, overFor>>
        BY <1>3 DEF KeyRefused
    <2>2. CASE CallEnded(t)
        BY <1>0, <1>2, <2>1, <2>2
    <2>3. CASE ~Serves(call[t].row) /\ Goto(t, "retiring")
        <3> DEFINE c == [call[t] EXCEPT !.pc = "retiring"]
        <3>1. c \in SpendCalls /\ call' = [call EXCEPT ![t] = c] /\ c.pc = "retiring" /\ c.row = call[t].row /\ c.sent = call[t].sent
            BY <2>3, GoesOn DEF CallPcs
        <3>2. SpendCallOK(c)
            BY <2>3, <3>1, <1>0 DEF SpendCallOK, Serves
        <3> QED BY <1>0, <2>1, <3>1, <3>2, OnlyTheTurnMoves
    <2> QED BY <1>3, <2>2, <2>3 DEF KeyRefused
<1>4. CASE Retired(t)
    <2>1. call[t].pc = "retiring" /\ UNCHANGED <<keySecret, gatewayKeys, limit, letGo, caches, overFor>>
        BY <1>4 DEF Retired
    <2>2. CASE StillNames(call[t].row)
        <3> DEFINE c == [call[t] EXCEPT !.pc = "dropping"]
        <3>1. keyRow' = [keyRow EXCEPT !.live = FALSE] /\ Goto(t, "dropping")
            BY <1>4, <2>2 DEF Retired
        <3>2. c \in SpendCalls /\ call' = [call EXCEPT ![t] = c] /\ c.pc = "dropping" /\ c.row = call[t].row /\ c.sent = call[t].sent
            BY <3>1, GoesOn DEF CallPcs
        <3>3. SpendCallOK(c)'
            BY <2>1, <3>2, <1>0 DEF SpendCallOK
        <3>4. keyRow' \in [id : 0..MaxKeys, live : BOOLEAN] /\ keyRow'.id = keyRow.id /\ ~keyRow'.live
            BY <3>1, <1>0
        <3> QED BY <1>0, <1>1, <2>1, <3>2, <3>3, <3>4, TurnMoves
    <2>3. CASE ~StillNames(call[t].row)
        BY <1>0, <1>2, <1>4, <2>1, <2>3 DEF Retired
    <2> QED BY <2>2, <2>3
<1>5. CASE SecretDropped(t)
    <2>1. /\ keySecret' = 0 /\ caches' = [caches EXCEPT ![call[t].at].tried = FALSE] /\ CallEnded(t)
          /\ UNCHANGED <<keyRow, gatewayKeys, limit, letGo, overFor>>
        BY <1>5 DEF SecretDropped
    <2>2. PICK c \in SpendCalls : call' = [call EXCEPT ![t] = c] /\ c.row = 0 /\ c.sent = 0 /\ c.pc \in {"idle", "ready"}
        BY <2>1, KeylessIs
    <2>3. SpendCallOK(c)'
        BY <2>1, <2>2, <1>1, SpendNames DEF SpendCallOK
    <2>4. /\ caches' \in [SpendReplicas -> CacheStates]
          /\ \A s \in SpendReplicas : caches'[s].limits = caches[s].limits /\ caches'[s].meter = caches[s].meter
        BY <2>1, <1>0 DEF CacheStates
    <2>5. keySecret' \in 0..MaxKeys /\ keySecret' <= gatewayKeys.minted
        BY <1>1, <2>1, SpendNames
    <2> QED BY <1>0, <1>1, <2>1, <2>2, <2>3, <2>4, <2>5, TurnMoves
<1> QED BY <1>3, <1>4, <1>5

(* What a call reads of the limits: those the replica has, or those there are. *)
LEMMA LimitsCached ==
    ASSUME SpendInv, NEW r \in SpendReplicas
    PROVE  /\ WithLimits(caches[r]) \in CacheStates
           /\ WithLimits(caches[r]).meter = caches[r].meter
           /\ WithLimits(caches[r]).limits = caches[r].limits \/ WithLimits(caches[r]).limits.lim = limit
           /\ LimitsFor(r) \in Nat
           /\ LimitsFor(r) = limit \/ overFor <= 1
<1>1. caches[r] \in CacheStates /\ limit \in Nat /\ overFor \in Nat
    BY SpendNames DEF SpendInv, SpendTypes
<1>2. CASE caches[r].limits.age <= 1
    <2>1. WithLimits(caches[r]) = caches[r] /\ LimitsFor(r) = caches[r].limits.lim
        BY <1>2 DEF WithLimits, LimitsFor
    <2>2. caches[r].limits.lim = limit \/ overFor <= caches[r].limits.age
        BY <1>2 DEF SpendInv, LimitsInv
    <2>3. caches[r].limits.age \in Nat /\ caches[r].limits.lim \in Nat
        BY <1>1 DEF CacheStates
    <2> QED BY <1>1, <1>2, <2>1, <2>2, <2>3
<1>3. CASE ~(caches[r].limits.age <= 1)
    <2>1. WithLimits(caches[r]) = [caches[r] EXCEPT !.limits = [lim |-> limit, age |-> 0]] /\ LimitsFor(r) = limit
        BY <1>3 DEF WithLimits, LimitsFor
    <2>2. [lim |-> limit, age |-> 0] \in [lim : Nat, age : Nat]
        BY <1>1
    <2>3. /\ WithLimits(caches[r]) \in CacheStates
          /\ WithLimits(caches[r]).limits = [lim |-> limit, age |-> 0]
          /\ WithLimits(caches[r]).meter = caches[r].meter
        BY <1>1, <2>1, <2>2 DEF CacheStates
    <2> QED BY <1>1, <2>1, <2>3
<1> QED BY <1>2, <1>3

(* A reading that says how many points the row's key has spent, now or for as long as it has been
   kept, lets nothing through that was at its limit for longer. *)
Speaks(m) ==
    /\ m.used \in Nat
    /\ overFor > MeterStale => m.used >= limit

LEMMA LetThroughIs ==
    ASSUME SpendInv, NEW t \in SpendTurns, NEW m, LetThrough(t, m), Speaks(m), Limited(LimitsFor(call[t].at)),
           keyRow.id # 0
    PROVE  \E c \in SpendCalls : call' = [call EXCEPT ![t] = c] /\ SpendCallOK(c)
<1>0. /\ call[t] \in SpendCalls /\ call \in [SpendTurns -> SpendCalls] /\ gatewayKeys.minted \in Nat
      /\ keyRow.id \in 0..MaxKeys /\ keyRow.id <= gatewayKeys.minted /\ overFor \in Nat /\ limit \in Nat
      /\ SpendCallOK(call[t])
    BY SpendNames DEF SpendInv, SpendTypes, KeyStates, SpendCallsOK
<1>1. CASE OverPoints(LimitsFor(call[t].at), m)
    <2>1. call' = [call EXCEPT ![t] = NoCall]
        BY <1>1 DEF LetThrough, CallEnded
    <2>2. SpendCallOK(NoCall)
        BY <1>0, NoCallIs DEF SpendCallOK
    <2> QED BY <2>1, <2>2, NoCallIs
<1>2. CASE ~OverPoints(LimitsFor(call[t].at), m)
    <2> DEFINE c == [call[t] EXCEPT !.pc = "send", !.row = keyRow.id]
    <2>1. c \in SpendCalls /\ c.pc = "send" /\ c.row = keyRow.id /\ c.sent = call[t].sent
        BY <1>0 DEF SpendCalls, CallPcs
    <2>2. call' = [call EXCEPT ![t] = c]
        BY <1>0, <1>2 DEF LetThrough, SpendCalls
    <2>3. call[t].at \in SpendReplicas
        BY <1>0 DEF SpendCalls
    <2>4. LimitsFor(call[t].at) \in Nat /\ (LimitsFor(call[t].at) = limit \/ overFor <= 1)
        BY <2>3, LimitsCached
    <2>5. ~(m.used >= LimitsFor(call[t].at))
        BY <1>2 DEF OverPoints, Limited
    <2>6. overFor <= MeterStale
        BY <1>0, <2>4, <2>5, SpendNames DEF Speaks
    <2>7. SpendCallOK(c)
        BY <1>0, <2>1, <2>6 DEF SpendCallOK
    <2> QED BY <2>1, <2>2, <2>7
<1> QED BY <1>1, <1>2

LEMMA FreeKeeps ==
    ASSUME SpendInv, NEW t \in SpendTurns, FreeCall(t) \/ GuardedCall(t)
    PROVE  SpendInv'
<1>0. /\ keySecret \in 0..MaxKeys /\ keySecret <= gatewayKeys.minted /\ caches \in [SpendReplicas -> CacheStates] /\ call[t] \in SpendCalls
      /\ keyRow \in [id : 0..MaxKeys, live : BOOLEAN] /\ gatewayKeys \in KeyStates
      /\ SpendCallOK(call[t]) /\ call \in [SpendTurns -> SpendCalls] /\ call[t].at \in SpendReplicas
    BY DEF SpendInv, SpendTypes, SpendCallsOK, SpendCalls
<1>1. /\ gatewayKeys.minted \in Nat /\ gatewayKeys.minted <= gatewayKeys.minted
      /\ \A k \in 1..MaxKeys : gatewayKeys.points[k] >= gatewayKeys.points[k]
    BY <1>0, SpendNames DEF KeyStates
<1>2. /\ UNCHANGED <<keyRow, keySecret, limit, letGo, overFor>>
      /\ caches' = caches \/ caches' = [caches EXCEPT ![call[t].at] = WithLimits(caches[call[t].at])]
    BY DEF FreeCall, GuardedCall
<1>3. /\ caches' \in [SpendReplicas -> CacheStates]
      /\ \A r \in SpendReplicas : /\ caches'[r].limits = caches[r].limits \/ caches'[r].limits.lim = limit
                                  /\ caches'[r].meter = caches[r].meter
    BY <1>0, <1>2, LimitsCached
<1>4. /\ gatewayKeys' \in KeyStates /\ gatewayKeys.minted <= gatewayKeys'.minted
      /\ gatewayKeys'.minted = gatewayKeys.minted /\ gatewayKeys'.known = gatewayKeys.known
      /\ \A k \in 1..MaxKeys : gatewayKeys'.points[k] >= gatewayKeys.points[k]
    <2>1. CASE gatewayKeys' = gatewayKeys
        BY <2>1, <1>0, <1>1
    <2>2. CASE call[t].sent # 0 /\ gatewayKeys' = Spent(call[t].sent)
        <3>1. call[t].sent \in 1..MaxKeys
            BY <2>2, <1>0, SpendNames DEF SpendCalls
        <3>2. PICK p \in [1..MaxKeys -> Nat] : p = gatewayKeys.points
            BY <1>0 DEF KeyStates
        <3>3. PICK n \in 1..MaxKeys : n = call[t].sent
            BY <3>1
        <3>4. p[n] \in Nat /\ [p EXCEPT ![n] = p[n] + 1] \in [1..MaxKeys -> Nat]
            OBVIOUS
        <3>5. gatewayKeys' = [gatewayKeys EXCEPT !.points = [p EXCEPT ![n] = p[n] + 1]]
            BY <2>2, <3>2, <3>3 DEF Spent
        <3>6. /\ gatewayKeys' \in KeyStates /\ gatewayKeys'.minted = gatewayKeys.minted
              /\ gatewayKeys'.known = gatewayKeys.known /\ gatewayKeys'.points = [p EXCEPT ![n] = p[n] + 1]
            BY <3>4, <3>5, <1>0 DEF KeyStates
        <3>7. ASSUME NEW k \in 1..MaxKeys PROVE gatewayKeys'.points[k] >= gatewayKeys.points[k]
            <4>1. p[k] \in Nat /\ gatewayKeys'.points[k] \in {p[k], p[k] + 1}
                BY <3>6
            <4> QED BY <4>1, <3>2
        <3> QED BY <3>6, <3>7, <1>1
    <2> QED BY <2>1, <2>2 DEF FreeCall, GuardedCall
<1>5. \E c \in SpendCalls : call' = [call EXCEPT ![t] = c] /\ SpendCallOK(c)
    <2>1. CASE CallEnded(t)
        <3>1. PICK c \in SpendCalls : call' = [call EXCEPT ![t] = c] /\ c.row = 0 /\ c.sent = 0 /\ c.pc \in {"idle", "ready"}
            BY <2>1, KeylessIs
        <3>2. SpendCallOK(c)
            BY <3>1, <1>1, SpendNames DEF SpendCallOK
        <3> QED BY <3>1, <3>2
    <2>2. CASE call' = [call EXCEPT ![t].pc = "ready", ![t].row = 0]
        <3> DEFINE c == [call[t] EXCEPT !.pc = "ready", !.row = 0]
        <3>0. 0 \in 0..MaxKeys
            BY SpendNames
        <3>1. c \in SpendCalls /\ c.pc = "ready" /\ c.row = 0 /\ c.sent = call[t].sent
            BY <1>0, <3>0 DEF SpendCalls, CallPcs
        <3>2. call' = [call EXCEPT ![t] = c]
            BY <2>2, <1>0 DEF SpendCalls
        <3>3. SpendCallOK(c)
            BY <3>1, <1>0, <1>1 DEF SpendCallOK
        <3> QED BY <3>1, <3>2, <3>3
    <2>3. CASE /\ call' = [call EXCEPT ![t].pc = "refused", ![t].row = call[t].sent]
               /\ call[t].pc = "ready"
        <3> DEFINE c == [call[t] EXCEPT !.pc = "refused", !.row = call[t].sent]
        <3>1. c \in SpendCalls /\ c.pc = "refused" /\ c.row = call[t].sent /\ c.sent = call[t].sent
            BY <1>0 DEF SpendCalls, CallPcs
        <3>2. call' = [call EXCEPT ![t] = c]
            BY <2>3, <1>0 DEF SpendCalls
        <3>3. call[t].sent <= gatewayKeys.minted
            BY <1>0, <2>3 DEF SpendCallOK
        <3>4. SpendCallOK(c)
            BY <3>1, <3>3 DEF SpendCallOK
        <3> QED BY <3>1, <3>2, <3>4
    <2>4. CASE Goto(t, "refused")
        <3> DEFINE c == [call[t] EXCEPT !.pc = "refused"]
        <3>1. c \in SpendCalls /\ call' = [call EXCEPT ![t] = c] /\ c.pc = "refused" /\ c.row = call[t].row /\ c.sent = call[t].sent
            BY <2>4, GoesOn DEF CallPcs
        <3>2. SpendCallOK(c)
            BY <3>1, <1>0 DEF SpendCallOK
        <3> QED BY <3>1, <3>2
    <2> QED BY <2>1, <2>2, <2>3, <2>4 DEF FreeCall, GuardedCall
<1>6. PICK c \in SpendCalls : call' = [call EXCEPT ![t] = c] /\ SpendCallOK(c)
    BY <1>5
<1>7. SpendCallOK(c)'
    BY <1>2, <1>4, <1>6 DEF SpendCallOK
<1>8. gatewayKeys'.known \subseteq gatewayKeys.known \cup {gatewayKeys.minted + 1}
    BY <1>4
<1>9. keyRow' \in [id : 0..MaxKeys, live : BOOLEAN] /\ keyRow'.id = keyRow.id /\ (keyRow'.live => keyRow.live)
    BY <1>0, <1>2
<1>10. keySecret' \in 0..MaxKeys /\ keySecret' <= gatewayKeys'.minted
    BY <1>0, <1>2, <1>4
<1> QED BY <1>2, <1>3, <1>4, <1>6, <1>7, <1>8, <1>9, <1>10, TurnMoves

(* The guard lets a turn through on a reading of the row's key, kept or made now. *)
LEMMA GuardKeeps ==
    ASSUME SpendInv, NEW t \in SpendTurns, Guard(t)
    PROVE  SpendInv'
<1> DEFINE r == call[t].at
<1>0. /\ keySecret \in 0..MaxKeys /\ keySecret <= gatewayKeys.minted /\ caches \in [SpendReplicas -> CacheStates]
      /\ call[t] \in SpendCalls /\ call \in [SpendTurns -> SpendCalls] /\ r \in SpendReplicas
      /\ keyRow \in [id : 0..MaxKeys, live : BOOLEAN] /\ gatewayKeys \in KeyStates /\ SpendCallOK(call[t])
      /\ keyRow.id \in 0..MaxKeys /\ keyRow.id <= gatewayKeys.minted /\ (keyRow.live => keyRow.id # 0)
      /\ limit \in Nat /\ overFor \in Nat
    BY SpendNames DEF SpendInv, SpendTypes, SpendCallsOK, SpendCalls
<1>1. /\ gatewayKeys.minted \in Nat /\ gatewayKeys.minted <= gatewayKeys.minted
      /\ \A k \in 1..MaxKeys : gatewayKeys.points[k] >= gatewayKeys.points[k]
      /\ keyRow.id # 0 => gatewayKeys.points[keyRow.id] \in Nat
    BY <1>0, SpendNames DEF KeyStates
<1>2. Limited(LimitsFor(r)) /\ UNCHANGED <<keyRow, keySecret, gatewayKeys, limit, letGo, overFor>>
    BY DEF Guard
<1>3. caches[r] \in CacheStates /\ caches[r].meter.used \in Nat /\ caches[r].meter.age \in Nat
    BY <1>0 DEF CacheStates
<1>4. ASSUME keyRow.live, ReadableFrom(r, 1) \/ ReadableFrom(r, MeterStale), LetThrough(t, caches[r].meter)
      PROVE  \E c \in SpendCalls : call' = [call EXCEPT ![t] = c] /\ SpendCallOK(c)
    <2>1. caches[r].meter.key = keyRow.id /\ caches[r].meter.age <= MeterStale
        BY <1>3, <1>4, SpendNames DEF ReadableFrom
    <2>2. Speaks(caches[r].meter)
        BY <1>0, <1>3, <2>1, SpendNames DEF Speaks, SpendInv, MeterInv
    <2> QED BY <1>0, <1>2, <1>4, <2>2, LetThroughIs
<1>5. ASSUME keyRow.live, LetThrough(t, MeterNow)
      PROVE  \E c \in SpendCalls : call' = [call EXCEPT ![t] = c] /\ SpendCallOK(c)
    <2>1. MeterNow.used = gatewayKeys.points[keyRow.id]
        BY DEF MeterNow
    <2>2. Speaks(MeterNow)
        BY <1>0, <1>1, <1>5, <2>1, SpendNames DEF Speaks, SpendInv, OverInv
    <2> QED BY <1>0, <1>2, <1>5, <2>2, LetThroughIs
<1>6. \E c \in SpendCalls : call' = [call EXCEPT ![t] = c] /\ SpendCallOK(c)
    <2>1. CASE CallEnded(t)
        <3>1. PICK c \in SpendCalls : call' = [call EXCEPT ![t] = c] /\ c.row = 0 /\ c.sent = 0 /\ c.pc \in {"idle", "ready"}
            BY <2>1, KeylessIs
        <3>2. SpendCallOK(c)
            BY <3>1, <1>1, SpendNames DEF SpendCallOK
        <3> QED BY <3>1, <3>2
    <2>2. CASE keyRow.live /\ (ReadableFrom(r, 1) \/ ReadableFrom(r, MeterStale)) /\ LetThrough(t, caches[r].meter)
        BY <2>2, <1>4
    <2>3. CASE keyRow.live /\ LetThrough(t, MeterNow)
        BY <2>3, <1>5
    <2>4. CASE ~Serves(keyRow.id) /\ call' = [call EXCEPT ![t].pc = "retiring", ![t].row = keyRow.id]
        <3> DEFINE c == [call[t] EXCEPT !.pc = "retiring", !.row = keyRow.id]
        <3>1. c \in SpendCalls /\ c.pc = "retiring" /\ c.row = keyRow.id /\ c.sent = call[t].sent
            BY <1>0 DEF SpendCalls, CallPcs
        <3>2. call' = [call EXCEPT ![t] = c]
            BY <2>4, <1>0 DEF SpendCalls
        <3>3. SpendCallOK(c)
            BY <3>1, <2>4, <1>0 DEF SpendCallOK, Serves
        <3> QED BY <3>1, <3>2, <3>3
    <2> QED BY <2>1, <2>2, <2>3, <2>4 DEF Guard
<1>7. /\ caches' \in [SpendReplicas -> CacheStates]
      /\ \A s \in SpendReplicas :
            /\ caches'[s].limits = caches[s].limits \/ caches'[s].limits.lim = limit
            /\ \/ caches'[s].meter = caches[s].meter
               \/ caches'[s].meter.key # 0 /\ caches'[s].meter.used = gatewayKeys.points[keyRow.id]
    <2>1. /\ WithLimits(caches[r]) \in CacheStates /\ WithLimits(caches[r]).meter = caches[r].meter
          /\ WithLimits(caches[r]).limits = caches[r].limits \/ WithLimits(caches[r]).limits.lim = limit
        BY <1>0, LimitsCached
    <2>2. CASE caches' = [caches EXCEPT ![r] = WithLimits(caches[r])]
        BY <2>1, <2>2, <1>0
    <2>3. CASE keyRow.live /\ caches' = [caches EXCEPT ![r] = [WithLimits(caches[r]) EXCEPT !.meter = MeterNow]]
        <3> DEFINE w == WithLimits(caches[r])
                   n == [w EXCEPT !.meter = MeterNow]
        <3>1. keyRow.id # 0 /\ keyRow.id \in Nat /\ gatewayKeys.points[keyRow.id] \in Nat
            BY <2>3, <1>0, <1>1, SpendNames
        <3>2. /\ MeterNow \in [key : Nat, used : Nat, age : Nat]
              /\ MeterNow.key = keyRow.id /\ MeterNow.used = gatewayKeys.points[keyRow.id]
            BY <3>1 DEF MeterNow
        <3>3. w \in CacheStates
            BY <2>1
        <3> HIDE DEF w
        <3>4. n \in CacheStates /\ n.limits = w.limits /\ n.meter = MeterNow
            BY <3>2, <3>3 DEF CacheStates
        <3>5. caches' = [caches EXCEPT ![r] = n]
            BY <2>3 DEF w
        <3>6. w.limits = caches[r].limits \/ w.limits.lim = limit
            BY <2>1 DEF w
        <3> HIDE DEF n
        <3> QED BY <1>0, <3>1, <3>2, <3>4, <3>5, <3>6
    <2> QED BY <2>2, <2>3 DEF Guard
<1>8. PICK c \in SpendCalls : call' = [call EXCEPT ![t] = c] /\ SpendCallOK(c)
    BY <1>6
<1>9. SpendCallOK(c)'
    BY <1>2, <1>8 DEF SpendCallOK
<1> HIDE DEF r
<1>10. /\ gatewayKeys' \in KeyStates /\ gatewayKeys.minted <= gatewayKeys'.minted
       /\ gatewayKeys'.known \subseteq gatewayKeys.known \cup {gatewayKeys.minted + 1}
       /\ \A k \in 1..MaxKeys : gatewayKeys'.points[k] >= gatewayKeys.points[k]
       /\ keySecret' \in 0..MaxKeys /\ keySecret' <= gatewayKeys'.minted
       /\ keyRow' \in [id : 0..MaxKeys, live : BOOLEAN] /\ keyRow'.id = keyRow.id /\ (keyRow'.live => keyRow.live)
    BY <1>0, <1>1, <1>2
<1> QED BY <1>2, <1>7, <1>8, <1>9, <1>10, TurnMoves

(* A limit that is set, a coworker that is let go, and keys the gateway loses. *)
LEMMA PeopleKeep ==
    ASSUME SpendInv, (\E c \in {NoLimit} \cup Caps : SetLimit(c)) \/ RevokeFor \/ Wiped
    PROVE  SpendInv'
<1>0. /\ caches \in [SpendReplicas -> CacheStates] /\ gatewayKeys \in KeyStates
      /\ keyRow \in [id : 0..MaxKeys, live : BOOLEAN] /\ gatewayKeys.minted \in Nat
    BY SpendNames DEF SpendInv, SpendTypes, KeyStates
<1>1. ASSUME NEW c \in {NoLimit} \cup Caps, SetLimit(c) PROVE SpendInv'
    <2>1. /\ limit' = c /\ overFor' = 0
          /\ UNCHANGED <<keyRow, keySecret, gatewayKeys, letGo, caches, call>>
        BY <1>1 DEF SetLimit
    <2>2. SpendTypes'
        BY <2>1 DEF SpendInv, SpendTypes
    <2>3. SpendCallsOK'
        BY <2>1, SpendNames DEF SpendInv, SpendCallsOK, SpendCallOK
    <2>4. OverInv' BY <2>1 DEF OverInv
    <2>5. \A r \in SpendReplicas : caches[r].limits.age >= 0 /\ ~(0 > caches[r].meter.age)
        BY <1>0 DEF CacheStates
    <2>6. LimitsInv' /\ MeterInv'
        BY <2>1, <2>5, <1>0 DEF LimitsInv, MeterInv, CacheStates
    <2> QED BY <2>2, <2>3, <2>4, <2>6 DEF SpendInv
<1>2. ASSUME UNCHANGED <<limit, caches, call, overFor>>, letGo' \in BOOLEAN,
             keySecret' \in 0..MaxKeys, keySecret' <= gatewayKeys.minted,
             keyRow' \in [id : 0..MaxKeys, live : BOOLEAN], keyRow'.id = keyRow.id, keyRow'.live => keyRow.live,
             gatewayKeys' \in KeyStates, gatewayKeys'.minted = gatewayKeys.minted,
             gatewayKeys'.points = gatewayKeys.points, gatewayKeys'.known \subseteq gatewayKeys.known
      PROVE  SpendInv'
    <2>1. SpendTypes'
        BY <1>2 DEF SpendInv, SpendTypes
    <2>2. SpendCallsOK'
        BY <1>2 DEF SpendInv, SpendCallsOK, SpendCallOK
    <2>3. OverInv' /\ LimitsInv' /\ MeterInv'
        BY <1>2 DEF SpendInv, OverInv, LimitsInv, MeterInv
    <2> QED BY <2>1, <2>2, <2>3 DEF SpendInv
<1>3. CASE RevokeFor
    <2>1. letGo' = TRUE /\ UNCHANGED <<limit, caches, call, overFor>>
        BY <1>3 DEF RevokeFor
    <2>2. CASE keyRow.live
        <3>1. /\ keyRow' = [keyRow EXCEPT !.live = FALSE] /\ keySecret' = 0
              /\ gatewayKeys' = [gatewayKeys EXCEPT !.known = @ \ {keyRow.id}]
            BY <1>3, <2>2 DEF RevokeFor
        <3>2. keyRow' \in [id : 0..MaxKeys, live : BOOLEAN] /\ keyRow'.id = keyRow.id /\ ~keyRow'.live
            BY <3>1, <1>0
        <3>3. /\ gatewayKeys' \in KeyStates /\ gatewayKeys'.minted = gatewayKeys.minted
              /\ gatewayKeys'.points = gatewayKeys.points /\ gatewayKeys'.known \subseteq gatewayKeys.known
            BY <3>1, <1>0 DEF KeyStates
        <3>4. keySecret' \in 0..MaxKeys /\ keySecret' <= gatewayKeys.minted
            BY <3>1, <1>0, SpendNames
        <3> QED BY <2>1, <3>2, <3>3, <3>4, <1>2
    <2>3. CASE ~keyRow.live
        <3>1. UNCHANGED <<keyRow, gatewayKeys, keySecret>>
            BY <1>3, <2>3 DEF RevokeFor
        <3>2. keySecret \in 0..MaxKeys /\ keySecret <= gatewayKeys.minted
            BY DEF SpendInv, SpendTypes
        <3> QED BY <2>1, <3>1, <3>2, <1>0, <1>2
    <2> QED BY <2>2, <2>3
<1>4. CASE Wiped
    <2>1. /\ gatewayKeys' = [gatewayKeys EXCEPT !.known = {}]
          /\ UNCHANGED <<keyRow, keySecret, limit, letGo, caches, call, overFor>>
        BY <1>4 DEF Wiped
    <2>2. /\ gatewayKeys' \in KeyStates /\ gatewayKeys'.minted = gatewayKeys.minted
          /\ gatewayKeys'.points = gatewayKeys.points /\ gatewayKeys'.known \subseteq gatewayKeys.known
        BY <2>1, <1>0 DEF KeyStates
    <2>3. keySecret \in 0..MaxKeys /\ keySecret <= gatewayKeys.minted /\ letGo \in BOOLEAN
        BY DEF SpendInv, SpendTypes
    <2> QED BY <2>1, <2>2, <2>3, <1>0, <1>2
<1> QED BY <1>1, <1>3, <1>4

(* A unit of time: every reading is a unit older, and the pair at most a unit longer at its limit. *)
LEMMA TickKeeps ==
    ASSUME SpendInv, SpendTick
    PROVE  SpendInv'
<1>0. /\ caches \in [SpendReplicas -> CacheStates] /\ gatewayKeys \in KeyStates /\ limit \in Nat /\ overFor \in Nat
      /\ keyRow.live => keyRow.id # 0
    BY SpendNames DEF SpendInv, SpendTypes
<1>1. UNCHANGED <<keyRow, keySecret, gatewayKeys, limit, letGo, call>>
    BY DEF SpendTick
<1>2. \A t \in SpendTurns : call[t].pc # "send"
    BY DEF SpendTick, InACall
<1>3. /\ overFor' \in Nat /\ overFor' <= overFor + 1
      /\ overFor > MeterStale => overFor' <= overFor
      /\ overFor' # 0 => keyRow.live /\ limit # NoLimit /\ gatewayKeys.points[keyRow.id] >= limit
    <2>1. CASE keyRow.live /\ limit # NoLimit /\ gatewayKeys.points[keyRow.id] >= limit
        <3>1. overFor' = IF overFor > MeterStale THEN overFor ELSE overFor + 1
            BY <2>1 DEF SpendTick
        <3> QED BY <2>1, <3>1, <1>0, SpendNames
    <2>2. CASE ~(keyRow.live /\ limit # NoLimit /\ gatewayKeys.points[keyRow.id] >= limit)
        <3>1. overFor' = 0
            BY <2>2 DEF SpendTick
        <3> QED BY <3>1, <1>0
    <2> QED BY <2>1, <2>2
<1>4. ASSUME NEW r \in SpendReplicas
      PROVE  /\ caches'[r] \in CacheStates
             /\ \/ caches'[r].limits.age = 2
                \/ /\ caches[r].limits.age = 0 /\ caches'[r].limits.age = 1
                   /\ caches'[r].limits.lim = caches[r].limits.lim
             /\ \/ caches'[r].meter.age = MeterStale + 1
                \/ /\ caches'[r].meter.age = caches[r].meter.age + 1
                   /\ caches'[r].meter.key = caches[r].meter.key /\ caches'[r].meter.used = caches[r].meter.used
    <2> DEFINE ls == LimitsAged(caches[r].limits)
               mt == MeterAged(caches[r].meter)
    <2>1. caches'[r] = [caches[r] EXCEPT !.limits = ls, !.meter = mt]
        BY DEF SpendTick
    <2>2. /\ caches[r] \in CacheStates
          /\ caches[r].limits \in [lim : Nat, age : Nat] /\ caches[r].meter \in [key : Nat, used : Nat, age : Nat]
        BY <1>0 DEF CacheStates
    <2>3. /\ ls \in [lim : Nat, age : Nat]
          /\ ls.age = 2 \/ (caches[r].limits.age = 0 /\ ls.age = 1 /\ ls.lim = caches[r].limits.lim)
        BY <2>2 DEF LimitsAged, NoLimits, NoLimit
    <2>4. /\ mt \in [key : Nat, used : Nat, age : Nat]
          /\ \/ mt.age = MeterStale + 1
             \/ /\ mt.age = caches[r].meter.age + 1 /\ mt.key = caches[r].meter.key
                /\ mt.used = caches[r].meter.used
        BY <2>2, SpendNames DEF MeterAged, NoMeter
    <2> HIDE DEF ls, mt
    <2>5. caches'[r] \in CacheStates /\ caches'[r].limits = ls /\ caches'[r].meter = mt
        BY <2>1, <2>2, <2>3, <2>4 DEF CacheStates
    <2> QED BY <2>3, <2>4, <2>5
<1>5. caches' \in [SpendReplicas -> CacheStates]
    BY <1>4 DEF SpendTick
<1>6. SpendTypes'
    BY <1>1, <1>3, <1>5 DEF SpendInv, SpendTypes
<1>7. SpendCallsOK'
    BY <1>1, <1>2 DEF SpendInv, SpendCallsOK, SpendCallOK
<1>8. OverInv'
    BY <1>0, <1>1, <1>3 DEF OverInv
<1>9. LimitsInv'
    <2> SUFFICES ASSUME NEW r \in SpendReplicas, caches'[r].limits.age <= 1
                 PROVE  caches'[r].limits.lim = limit \/ overFor' <= caches'[r].limits.age
        BY <1>1 DEF LimitsInv
    <2>1. /\ caches[r].limits.age = 0 /\ caches'[r].limits.age = 1
          /\ caches'[r].limits.lim = caches[r].limits.lim
        BY <1>4
    <2>2. caches[r].limits.lim = limit \/ overFor <= 0
        BY <2>1 DEF SpendInv, LimitsInv
    <2> QED BY <2>1, <2>2, <1>0, <1>3
<1>10. MeterInv'
    <2> SUFFICES ASSUME NEW r \in SpendReplicas, caches'[r].meter.key = keyRow.id,
                        caches'[r].meter.age <= MeterStale, overFor' > caches'[r].meter.age
                 PROVE  caches'[r].meter.used >= limit
        BY <1>1 DEF MeterInv
    <2>1. /\ caches'[r].meter.age = caches[r].meter.age + 1
          /\ caches'[r].meter.key = caches[r].meter.key /\ caches'[r].meter.used = caches[r].meter.used
        BY <1>4, SpendNames
    <2>2. caches[r].meter.age \in Nat
        BY <1>0 DEF CacheStates
    <2>3. caches[r].meter.age <= MeterStale /\ overFor > caches[r].meter.age
        BY <2>1, <2>2, <1>0, <1>3, SpendNames
    <2> QED BY <2>1, <2>3 DEF SpendInv, MeterInv
<1> QED BY <1>6, <1>7, <1>8, <1>9, <1>10 DEF SpendInv

LEMMA SpendGoesOn ==
    ASSUME SpendInv, [SpendNext]_spendVars
    PROVE  SpendInv'
<1>1. CASE UNCHANGED spendVars
    BY <1>1 DEF spendVars, SpendInv, SpendTypes, SpendCallsOK, SpendCallOK, OverInv, LimitsInv, MeterInv
<1>2. ASSUME NEW t \in SpendTurns,
             \/ \E r \in SpendReplicas : KeyFor(t, r) \/ HireMints(t, r)
             \/ MintAsked(t) \/ Sealed(t) \/ Recorded(t) \/ MintedRead(t)
             \/ FreeCall(t) \/ Guard(t) \/ GuardedCall(t)
             \/ KeyRefused(t) \/ Retired(t) \/ SecretDropped(t)
      PROVE  SpendInv'
    BY <1>2, KeysKeep, MintsKeep, RecordedKeeps, FreeKeeps, GuardKeeps, RetiresKeep
<1>3. CASE (\E c \in {NoLimit} \cup Caps : SetLimit(c)) \/ RevokeFor \/ Wiped
    BY <1>3, PeopleKeep
<1>4. CASE SpendTick
    BY <1>4, TickKeeps
<1> QED BY <1>1, <1>2, <1>3, <1>4 DEF SpendNext

(* Only a turn that found a key dead, or the retirement of the coworker, ends a live row. *)
LEMMA FreshStands ==
    ASSUME SpendInv, [SpendNext]_spendVars
    PROVE  FreshKeyStands
<1> SUFFICES ASSUME keyRow.live, ~keyRow'.live, ~letGo' PROVE keyRow.id \notin gatewayKeys.known
    BY DEF FreshKeyStands
<1>1. keyRow' # keyRow
    OBVIOUS
<1>2. ~RevokeFor
    BY DEF RevokeFor
<1>3. ASSUME NEW t \in SpendTurns PROVE ~Recorded(t)
    BY <1>1 DEF Recorded, Upserted
<1>4. \E t \in SpendTurns : Retired(t)
    BY <1>1, <1>2, <1>3 DEF SpendNext, spendVars, KeyFor, HireMints, MintAsked, Sealed, MintedRead, FreeCall, Guard,
       GuardedCall, KeyRefused, SecretDropped, SetLimit, Wiped, SpendTick
<1>5. PICK t \in SpendTurns : Retired(t)
    BY <1>4
<1>6. call[t].pc = "retiring" /\ StillNames(call[t].row)
    BY <1>1, <1>5 DEF Retired
<1>7. call[t].row \notin gatewayKeys.known
    BY <1>6 DEF SpendInv, SpendCallsOK, SpendCallOK
<1> QED BY <1>6, <1>7 DEF StillNames

\* Spend!SpendHolds: whatever is minted, retired, cached or wiped between, a cap that was used up
\* for longer than a stale reading may stand in stops the turn, and a live row that names a key the
\* gateway knows is ended by nothing but the retirement of the coworker.
THEOREM CapsStopAndKeysStand == SpendSpec => SpendHolds
<1>1. SpendInit => SpendInv
    BY SpendStarts
<1>2. SpendInv /\ [SpendNext]_spendVars => SpendInv'
    BY SpendGoesOn
<1>3. SpendInv /\ SpendInv' /\ [SpendNext]_spendVars => [CapStops' /\ FreshKeyStands]_spendVars
    <2> SUFFICES ASSUME SpendInv, SpendInv', [SpendNext]_spendVars PROVE CapStops' /\ FreshKeyStands
        OBVIOUS
    <2>1. CapStops'
        BY DEF SpendInv, SpendCallsOK, SpendCallOK, CapStops
    <2> QED BY <2>1, FreshStands
<1> QED BY <1>1, <1>2, <1>3, PTL DEF SpendSpec, SpendHolds

-----------------------------------------------------------------------------
(* Attachments *)

RowStates == [ver : Nat, hash : Nat]
SendPcs == {"none", "resolve", "stage", "write", "row", "hash", "done"}
Tellings == {"none", "left out", "shown", "named", "kept", "not placed", "placed"}
SendStates == [pc : SendPcs, who : Owners \cup {"none"}, art : Artifacts \cup {0}, seen : RowStates,
               images : Nat, told : Tellings]
ArtStates == [owner : Owners \cup {"none"}, type : Types \cup {"none"}, gone : BOOLEAN, mark : Nat]

AttachTypes ==
    /\ arts \in [Artifacts -> ArtStates]
    /\ doc \in [Artifacts -> Nat]
    /\ session \in [Artifacts -> RowStates]
    /\ sends \in [Sends -> SendStates]
    /\ edits \in 0..MaxEdits
    /\ was \in [Artifacts -> [0..MaxDocV -> Nat]]

(* A row says what its version held, a file with no row is an upload's, and an upload is marked as a
   version that held it. *)
RowOK(a) ==
    /\ session[a] # NoRow => session[a].ver \in 0..MaxDocV /\ was[a][session[a].ver] = session[a].hash
    /\ session[a] = NoRow /\ doc[a] # NoPlace => doc[a] = 0
    /\ arts[a].mark # 100 => /\ session[a] # NoRow /\ arts[a].mark \in 0..MaxDocV
                             /\ arts[a].mark <= session[a].ver /\ was[a][arts[a].mark] = 0

Agrees(a) == session[a] # NoRow /\ doc[a] # NoPlace => session[a].hash = doc[a]
Working(s, a) == s.pc \in {"row", "hash"} /\ s.art = a

(* What a turn saw of the row once its file is written: the row as it is, or one that held the
   upload and whose document was edited since. *)
SeenOK(s) ==
    \/ s.seen = session[s.art] /\ doc[s.art] \in {0, NoPlace}
    \/ /\ s.seen # NoRow /\ session[s.art] # NoRow /\ s.seen.hash = 0
       /\ s.seen.ver \in 0..MaxDocV /\ s.seen.ver <= session[s.art].ver /\ was[s.art][s.seen.ver] = 0
       /\ Agrees(s.art)

SendOK(s) ==
    /\ s.pc \notin {"none", "done"} => s.art \in Artifacts
    /\ s.pc = "write" => s.seen = session[s.art] /\ (session[s.art] = NoRow \/ doc[s.art] = NoPlace)
    /\ s.pc \in {"row", "hash"} => SeenOK(s)
    /\ s.pc = "hash" => s.seen # NoRow

AttachInv ==
    /\ AttachTypes
    /\ \A a \in Artifacts : RowOK(a)
    /\ \A a \in Artifacts : Agrees(a) \/ \E t \in Sends : Working(sends[t], a)
    /\ \A t \in Sends : SendOK(sends[t])

(* No two turns are at the file of one artifact at once, between the look at its session and the row. *)
AtFile(s) == s.pc \in {"write", "row", "hash"}
Alone == \A t, u \in Sends : AtFile(sends[t]) /\ AtFile(sends[u]) /\ sends[t].art = sends[u].art => t = u

LEMMA AttachNames ==
    /\ MaxImages \in Nat /\ MaxEdits \in 0..99 /\ MaxDocV \in 0..99 /\ 0 \notin Artifacts
    /\ NoPlace = 100 /\ NoRow \in RowStates /\ NoRow.ver = 100 /\ NoRow.hash = 0
    /\ NoSend \in SendStates /\ NoSend.pc = "none" /\ NoArt \in ArtStates /\ NoArt.mark = 100
<1>1. NoRow \in RowStates /\ NoRow.ver = 100 /\ NoRow.hash = 0
    BY DEF NoRow, RowStates
<1>2. NoSend \in SendStates /\ NoSend.pc = "none"
    BY <1>1 DEF NoSend, SendStates, SendPcs, Tellings
<1>3. NoArt \in ArtStates /\ NoArt.mark = 100
    BY DEF NoArt, ArtStates
<1> QED BY <1>1, <1>2, <1>3, AttachmentsAssumption DEF NoPlace

LEMMA AttachStarts == AttachInit => AttachInv
<1> SUFFICES ASSUME AttachInit PROVE AttachInv OBVIOUS
<1>1. AttachTypes
    <2>1. 0 \in 0..MaxEdits /\ NoPlace \in Nat
        BY AttachNames
    <2>2. was \in [Artifacts -> [0..MaxDocV -> Nat]]
        BY <2>1 DEF AttachInit
    <2> QED BY <2>1, <2>2, AttachNames DEF AttachInit, AttachTypes
<1>2. ASSUME NEW a \in Artifacts PROVE session[a] = NoRow /\ doc[a] = NoPlace /\ arts[a].mark = 100
    BY AttachNames DEF AttachInit
<1>3. ASSUME NEW t \in Sends PROVE SendOK(sends[t])
    BY AttachNames DEF AttachInit, SendOK
<1> QED BY <1>1, <1>2, <1>3 DEF AttachInv, RowOK, Agrees

(* A turn moves or a file is described, and the documents and their rows are as they were. *)
LEMMA SendMoves ==
    ASSUME AttachInv, NEW t \in Sends, NEW s \in SendStates, sends' = [sends EXCEPT ![t] = s],
           UNCHANGED <<doc, session, was>>, edits' \in 0..MaxEdits, arts' \in [Artifacts -> ArtStates],
           \A a \in Artifacts : arts'[a].mark # arts[a].mark =>
               /\ session[a] # NoRow /\ arts'[a].mark \in 0..MaxDocV
               /\ arts'[a].mark <= session[a].ver /\ was[a][arts'[a].mark] = 0,
           SendOK(s),
           \A a \in Artifacts : Working(sends[t], a) => Working(s, a) \/ Agrees(a)
    PROVE  AttachInv'
<1>1. AttachTypes'
    BY DEF AttachInv, AttachTypes
<1>2. ASSUME NEW u \in Sends PROVE sends'[u] = IF u = t THEN s ELSE sends[u]
    BY DEF AttachInv, AttachTypes
<1>3. ASSUME NEW u \in Sends PROVE SendOK(sends[u])'
    <2>1. SendOK(sends'[u])
        BY <1>2 DEF AttachInv
    <2> QED BY <2>1 DEF SendOK, SeenOK, Agrees
<1>4. ASSUME NEW a \in Artifacts PROVE RowOK(a)'
    BY DEF AttachInv, RowOK
<1>5. ASSUME NEW a \in Artifacts PROVE (Agrees(a) \/ \E u \in Sends : Working(sends[u], a))'
    <2>1. CASE Agrees(a)
        BY <2>1 DEF Agrees
    <2>2. CASE ~Agrees(a)
        <3>1. PICK u \in Sends : Working(sends[u], a)
            BY <2>2 DEF AttachInv
        <3>2. CASE u # t
            <4>1. Working(sends'[u], a)
                BY <1>2, <3>1, <3>2
            <4> QED BY <4>1 DEF Working
        <3>3. CASE u = t
            <4>1. Working(sends'[t], a)
                BY <1>2, <2>2, <3>1, <3>3
            <4> QED BY <4>1 DEF Working
        <3> QED BY <3>2, <3>3
    <2> QED BY <2>1, <2>2
<1> QED BY <1>1, <1>3, <1>4, <1>5 DEF AttachInv

(* A turn that is not at its file's document is free to go anywhere that is not there either. *)
LEMMA SendSteps ==
    ASSUME AttachInv, NEW t \in Sends, NEW s \in SendStates, sends' = [sends EXCEPT ![t] = s],
           UNCHANGED <<arts, doc, session, was, edits>>, sends[t].pc \notin {"row", "hash"}, SendOK(s)
    PROVE  AttachInv'
<1>1. edits' \in 0..MaxEdits /\ arts' \in [Artifacts -> ArtStates]
    BY DEF AttachInv, AttachTypes
<1>2. \A a \in Artifacts : ~Working(sends[t], a)
    BY DEF Working
<1> QED BY <1>1, <1>2, SendMoves

LEMMA ArtifactsKeep ==
    ASSUME AttachInv, NEW a \in Artifacts, NEW who \in Owners,
           (\E type \in Types : CreateArtifact(a, who, type)) \/ RemoveArtifact(a, who)
    PROVE  AttachInv'
<1>1. arts' \in [Artifacts -> ArtStates] /\ UNCHANGED <<doc, session, sends, edits, was>>
    <2>1. ASSUME NEW type \in Types, CreateArtifact(a, who, type)
          PROVE  arts' \in [Artifacts -> ArtStates] /\ UNCHANGED <<doc, session, sends, edits, was>>
        <3>1. [NoArt EXCEPT !.owner = who, !.type = type] \in ArtStates
            BY AttachNames DEF ArtStates
        <3> QED BY <2>1, <3>1 DEF AttachInv, AttachTypes, CreateArtifact
    <2>2. ASSUME RemoveArtifact(a, who)
          PROVE  arts' \in [Artifacts -> ArtStates] /\ UNCHANGED <<doc, session, sends, edits, was>>
        <3>1. arts[a] \in ArtStates
            BY DEF AttachInv, AttachTypes
        <3>2. [arts[a] EXCEPT !.gone = TRUE] \in ArtStates
            BY <3>1 DEF ArtStates
        <3>3. arts' = [arts EXCEPT ![a] = [arts[a] EXCEPT !.gone = TRUE]]
            BY <2>2 DEF RemoveArtifact
        <3> QED BY <2>2, <3>2, <3>3 DEF AttachInv, AttachTypes, RemoveArtifact
    <2> QED BY <2>1, <2>2
<1>2. ASSUME NEW b \in Artifacts PROVE arts'[b].mark = arts[b].mark
    <2>1. ASSUME NEW type \in Types, CreateArtifact(a, who, type) PROVE arts'[b].mark = arts[b].mark
        <3>1. [NoArt EXCEPT !.owner = who, !.type = type].mark = NoArt.mark
            BY AttachNames DEF ArtStates
        <3> QED BY <2>1, <3>1 DEF AttachInv, AttachTypes, CreateArtifact
    <2>2. ASSUME RemoveArtifact(a, who) PROVE arts'[b].mark = arts[b].mark
        BY <2>2 DEF AttachInv, AttachTypes, RemoveArtifact, ArtStates
    <2> QED BY <2>1, <2>2
<1>3. ASSUME NEW b \in Artifacts PROVE RowOK(b)'
    BY <1>1, <1>2 DEF AttachInv, RowOK
<1>4. ASSUME NEW u \in Sends PROVE SendOK(sends[u])'
    BY <1>1 DEF AttachInv, SendOK, SeenOK, Agrees
<1> QED BY <1>1, <1>3, <1>4 DEF AttachInv, AttachTypes, Agrees, Working

LEMMA SendFields ==
    ASSUME AttachInv, NEW t \in Sends
    PROVE  /\ sends[t] \in SendStates /\ SendOK(sends[t])
           /\ sends[t].pc \notin {"none", "done"} => sends[t].art \in Artifacts
BY DEF AttachInv, AttachTypes, SendOK

LEMMA TurnsSteps ==
    ASSUME AttachInv, NEW t \in Sends,
           \/ \E who \in Owners, a \in Artifacts : SendsFile(t, who, a)
           \/ Resolves(t) \/ LooksForSession(t) \/ StageFails(t) \/ SendOver(t)
    PROVE  AttachInv'
<1>0. /\ sends[t] \in SendStates /\ SendOK(sends[t])
      /\ sends[t].pc \notin {"none", "done"} => sends[t].art \in Artifacts
    BY SendFields
<1>1. ASSUME NEW who \in Owners, NEW a \in Artifacts, SendsFile(t, who, a) PROVE AttachInv'
    <2> DEFINE s == [NoSend EXCEPT !.pc = "resolve", !.who = who, !.art = a]
    <2>1. s \in SendStates /\ s.pc = "resolve" /\ s.art = a
        BY AttachNames DEF SendStates, SendPcs
    <2>2. SendOK(s)
        BY <2>1 DEF SendOK
    <2> HIDE DEF s
    <2> QED BY <1>1, <2>1, <2>2, SendSteps DEF SendsFile, s
<1>2. ASSUME Resolves(t) PROVE AttachInv'
    <2>1. PICK s \in SendStates : sends' = [sends EXCEPT ![t] = s] /\ s.pc \in {"done", "stage"}
                                  /\ s.art = sends[t].art
        <3>1. CASE ~Readable(sends[t].art)
            <4> DEFINE s == [sends[t] EXCEPT !.pc = "done", !.told = "left out"]
            <4>1. s \in SendStates /\ s.pc \in {"done", "stage"} /\ s.art = sends[t].art
                BY <1>0 DEF SendStates, SendPcs, Tellings
            <4>2. sends' = [sends EXCEPT ![t] = s]
                BY <1>2, <3>1 DEF Resolves, AttachInv, AttachTypes
            <4> QED BY <4>1, <4>2
        <3>2. ASSUME NEW type, NEW room \in BOOLEAN
              PROVE  /\ ReadFile(t, type, room) \in SendStates /\ ReadFile(t, type, room).pc = "done"
                     /\ ReadFile(t, type, room).art = sends[t].art
            <4> DEFINE picture == [sends[t] EXCEPT !.pc = "done", !.images = @ + 1, !.told = "shown"]
                       words == [sends[t] EXCEPT !.pc = "done", !.told = "shown"]
                       name == [sends[t] EXCEPT !.pc = "done", !.told = "named"]
            <4>0. sends[t].images + 1 \in Nat
                BY <1>0 DEF SendStates
            <4>1. picture \in SendStates /\ picture.pc = "done" /\ picture.art = sends[t].art
                BY <1>0, <4>0 DEF SendStates, SendPcs, Tellings
            <4>2. words \in SendStates /\ words.pc = "done" /\ words.art = sends[t].art
                BY <1>0 DEF SendStates, SendPcs, Tellings
            <4>3. name \in SendStates /\ name.pc = "done" /\ name.art = sends[t].art
                BY <1>0 DEF SendStates, SendPcs, Tellings
            <4>4. ReadFile(t, type, room) \in {picture, words, name}
                <5>1. CASE type = "image" /\ room
                    <6>1. ReadFile(t, type, room) = picture
                        BY <5>1 DEF ReadFile
                    <6> QED BY <6>1
                <5>2. CASE type = "text"
                    <6>1. ReadFile(t, type, room) = words
                        BY <5>2 DEF ReadFile
                    <6> QED BY <6>1
                <5>3. CASE type # "text" /\ ~(type = "image" /\ room)
                    <6>1. ReadFile(t, type, room) = name
                        BY <5>3 DEF ReadFile
                    <6> QED BY <6>1
                <5> QED BY <5>1, <5>2, <5>3
            <4> HIDE DEF picture, words, name
            <4> QED BY <4>1, <4>2, <4>3, <4>4
        <3>3. CASE Readable(sends[t].art) /\ arts[sends[t].art].type # "office"
            <4>1. (sends[t].images < MaxImages) \in BOOLEAN
                BY <1>0, AttachNames DEF SendStates
            <4> QED BY <1>2, <3>2, <3>3, <4>1 DEF Resolves
        <3>4. CASE Readable(sends[t].art) /\ arts[sends[t].art].type = "office"
            <4>1. PICK computer \in BOOLEAN :
                    sends' = [sends EXCEPT ![t] = IF computer THEN [@ EXCEPT !.pc = "stage"]
                                                  ELSE ReadFile(t, "office", FALSE)]
                BY <1>2, <3>4 DEF Resolves
            <4> DEFINE staged == [sends[t] EXCEPT !.pc = "stage"]
            <4>2. staged \in SendStates /\ staged.pc = "stage" /\ staged.art = sends[t].art
                BY <1>0 DEF SendStates, SendPcs
            <4>3. CASE computer
                BY <4>1, <4>2, <4>3
            <4>4. CASE ~computer
                BY <3>2, <4>1, <4>4
            <4> QED BY <4>3, <4>4
        <3> QED BY <3>1, <3>3, <3>4
    <2>2. SendOK(s)
        BY <1>0, <1>2, <2>1 DEF SendOK, Resolves
    <2> QED BY <1>2, <2>1, <2>2, SendSteps DEF Resolves
<1>3. ASSUME LooksForSession(t) PROVE AttachInv'
    <2> DEFINE a == sends[t].art
               kept == [sends[t] EXCEPT !.pc = "done", !.told = "kept"]
               to == [sends[t] EXCEPT !.pc = "write", !.seen = session[a]]
    <2>1. a \in Artifacts /\ session[a] \in RowStates
        BY <1>0, <1>3 DEF LooksForSession, AttachInv, AttachTypes
    <2>2. kept \in SendStates /\ kept.pc = "done"
        BY <1>0 DEF SendStates, SendPcs, Tellings
    <2>3. to \in SendStates /\ to.pc = "write" /\ to.art = a /\ to.seen = session[a]
        BY <1>0, <2>1 DEF SendStates, SendPcs
    <2>4. SendOK(kept)
        BY <2>2 DEF SendOK
    <2>5. CASE KeepsDocument(a)
        <3>1. sends' = [sends EXCEPT ![t] = kept]
            BY <1>3, <2>5 DEF LooksForSession, AttachInv, AttachTypes
        <3> HIDE DEF kept
        <3> QED BY <1>3, <2>2, <2>4, <3>1, SendSteps DEF LooksForSession
    <2>6. CASE ~KeepsDocument(a)
        <3>1. sends' = [sends EXCEPT ![t] = to]
            BY <1>3, <2>6 DEF LooksForSession, AttachInv, AttachTypes
        <3>2. SendOK(to)
            BY <2>1, <2>3, <2>6 DEF SendOK, KeepsDocument
        <3> HIDE DEF to
        <3> QED BY <1>3, <2>3, <3>1, <3>2, SendSteps DEF LooksForSession
    <2> QED BY <2>5, <2>6
<1>4. ASSUME StageFails(t) PROVE AttachInv'
    <2> DEFINE s == [sends[t] EXCEPT !.pc = "done", !.told = "not placed"]
    <2>1. s \in SendStates /\ s.pc = "done"
        BY <1>0 DEF SendStates, SendPcs, Tellings
    <2>2. sends' = [sends EXCEPT ![t] = s]
        BY <1>4 DEF StageFails, AttachInv, AttachTypes
    <2>3. SendOK(s)
        BY <2>1 DEF SendOK
    <2> HIDE DEF s
    <2> QED BY <1>4, <2>1, <2>2, <2>3, SendSteps DEF StageFails
<1>5. ASSUME SendOver(t) PROVE AttachInv'
    <2>1. SendOK(NoSend)
        BY AttachNames DEF SendOK
    <2> QED BY <1>5, <2>1, AttachNames, SendSteps DEF SendOver
<1> QED BY <1>1, <1>2, <1>3, <1>4, <1>5

(* A turn at another file, or at none, is as right as it was when one file's document changes. *)
LEMMA OthersStand ==
    ASSUME AttachInv, NEW b \in Artifacts, NEW u \in Sends, sends'[u] = sends[u],
           ~AtFile(sends[u]) \/ sends[u].art # b,
           \A a \in Artifacts : a # b => doc'[a] = doc[a] /\ session'[a] = session[a] /\ was'[a] = was[a]
    PROVE  SendOK(sends[u])'
<1>1. sends[u] \in SendStates /\ SendOK(sends[u])
    BY SendFields
<1>2. CASE ~AtFile(sends[u])
    BY <1>1, <1>2 DEF SendOK, AtFile
<1>3. CASE AtFile(sends[u]) /\ sends[u].art # b
    BY <1>1, <1>3 DEF SendOK, SeenOK, Agrees, AtFile
<1> QED BY <1>2, <1>3

(* The file is written where there was none. *)
LEMMA UploadWrites ==
    ASSUME AttachInv, NEW t \in Sends, StageWrites(t), Alone
    PROVE  /\ AttachInv'
           /\ \A a \in Artifacts : doc[a] \in 1..MaxEdits => doc'[a] # 0
<1> DEFINE b == sends[t].art
<1>0. sends[t] \in SendStates /\ SendOK(sends[t]) /\ b \in Artifacts /\ sends[t].pc = "write"
    BY SendFields DEF StageWrites
<1>1. PICK s \in SendStates : /\ s.pc = "row" /\ s.art = b /\ s.seen = sends[t].seen
                             /\ sends' = [sends EXCEPT ![t] = s] /\ sends'[t] = s
    <2> DEFINE s == [sends[t] EXCEPT !.pc = "row"]
    <2>1. s \in SendStates /\ s.pc = "row" /\ s.art = b /\ s.seen = sends[t].seen
        BY <1>0 DEF SendStates, SendPcs
    <2>2. sends' = [sends EXCEPT ![t] = s] /\ sends'[t] = s
        BY DEF StageWrites, AttachInv, AttachTypes
    <2> QED BY <2>1, <2>2
<1>2. s.seen = session[b] /\ (session[b] = NoRow \/ doc[b] = NoPlace)
    BY <1>0, <1>1 DEF SendOK
<1>3. \A a \in Artifacts : doc'[a] = IF a = b THEN 0 ELSE doc[a]
    BY <1>0 DEF StageWrites, AttachInv, AttachTypes
<1>4. UNCHANGED <<arts, session, edits, was>>
    BY DEF StageWrites
<1>5. AttachTypes'
    BY <1>0, <1>1, <1>4 DEF AttachInv, AttachTypes, StageWrites
<1>6. ASSUME NEW a \in Artifacts PROVE RowOK(a)'
    BY <1>3, <1>4 DEF AttachInv, RowOK
<1>7. ASSUME NEW u \in Sends PROVE SendOK(sends[u])'
    <2>1. CASE u = t
        <3>1. s.art \in Artifacts /\ SeenOK(s)'
            BY <1>0, <1>1, <1>2, <1>3, <1>4 DEF SeenOK
        <3> QED BY <1>1, <2>1, <3>1 DEF SendOK
    <2>2. CASE u # t
        <3>1. ~AtFile(sends[u]) \/ sends[u].art # b
            BY <1>0, <2>2 DEF Alone, AtFile
        <3>2. sends'[u] = sends[u]
            BY <1>1, <2>2 DEF AttachInv, AttachTypes
        <3> QED BY <1>0, <1>3, <1>4, <3>1, <3>2, OthersStand
    <2> QED BY <2>1, <2>2
<1>8. ASSUME NEW a \in Artifacts PROVE (Agrees(a) \/ \E u \in Sends : Working(sends[u], a))'
    <2>1. CASE a = b
        BY <1>1, <2>1 DEF Working
    <2>2. CASE a # b
        <3>1. CASE Agrees(a)
            BY <1>3, <1>4, <2>2, <3>1 DEF Agrees
        <3>2. CASE ~Agrees(a)
            <4>1. PICK u \in Sends : Working(sends[u], a)
                BY <3>2 DEF AttachInv
            <4>2. sends'[u] = sends[u]
                BY <1>0, <1>1, <2>2, <4>1 DEF AttachInv, AttachTypes, Working
            <4> QED BY <4>1, <4>2 DEF Working
        <3> QED BY <3>1, <3>2
    <2> QED BY <2>1, <2>2
<1>9. ASSUME NEW a \in Artifacts, doc[a] \in 1..MaxEdits PROVE doc'[a] # 0
    <2>1. doc[a] # 0 /\ doc[a] # NoPlace
        BY <1>9, AttachNames
    <2>2. session[a] # NoRow
        BY <2>1 DEF AttachInv, RowOK
    <2> QED BY <1>2, <1>3, <2>1, <2>2
<1> QED BY <1>5, <1>6, <1>7, <1>8, <1>9 DEF AttachInv

LEMMA RowIsMade ==
    ASSUME AttachInv, NEW t \in Sends, StageRow(t), Alone
    PROVE  AttachInv'
<1> DEFINE b == sends[t].art
           fresh == [ver |-> 0, hash |-> 0]
           seen == sends[t].seen
<1>0. sends[t] \in SendStates /\ SendOK(sends[t]) /\ b \in Artifacts /\ sends[t].pc = "row"
    BY SendFields DEF StageRow
<1>1. SeenOK(sends[t])
    BY <1>0 DEF SendOK
<1>2. CASE seen # NoRow
    <2> DEFINE s == [sends[t] EXCEPT !.pc = "hash"]
    <2>1. s \in SendStates /\ s.pc = "hash" /\ s.art = b /\ s.seen = seen
        BY <1>0 DEF SendStates, SendPcs
    <2>2. sends' = [sends EXCEPT ![t] = s] /\ UNCHANGED <<arts, doc, session, was, edits>>
        BY <1>2 DEF StageRow, AttachInv, AttachTypes
    <2>3. SendOK(s)
        BY <1>0, <1>1, <1>2, <2>1 DEF SendOK, SeenOK
    <2>4. \A a \in Artifacts : Working(sends[t], a) => Working(s, a)
        BY <2>1 DEF Working
    <2>5. edits' \in 0..MaxEdits /\ arts' \in [Artifacts -> ArtStates]
        BY <2>2 DEF AttachInv, AttachTypes
    <2> HIDE DEF s
    <2> QED BY <2>1, <2>2, <2>3, <2>4, <2>5, SendMoves
<1>3. CASE seen = NoRow
    <2>1. session[b] = NoRow /\ doc[b] \in {0, NoPlace}
        BY <1>1, <1>3 DEF SeenOK
    <2>2. fresh \in RowStates /\ fresh # NoRow /\ fresh.ver = 0 /\ fresh.hash = 0 /\ 0 \in 0..MaxDocV /\ 0 \in Nat
        BY AttachNames DEF RowStates
    <2>3. PICK s \in SendStates : s.pc = "hash" /\ s.art = b /\ s.seen = fresh
                                 /\ s = [sends[t] EXCEPT !.pc = "hash", !.seen = fresh]
        <3> DEFINE s == [sends[t] EXCEPT !.pc = "hash", !.seen = fresh]
        <3>1. s \in SendStates /\ s.pc = "hash" /\ s.art = b /\ s.seen = fresh
            BY <1>0, <2>2 DEF SendStates, SendPcs
        <3> QED BY <3>1
    <2>4. /\ session' = [session EXCEPT ![b] = fresh] /\ was' = [was EXCEPT ![b][0] = 0]
          /\ sends' = [sends EXCEPT ![t] = s] /\ UNCHANGED <<arts, doc, edits>>
        BY <1>3, <2>1, <2>3 DEF StageRow, AttachInv, AttachTypes
    <2> HIDE DEF fresh
    <2>5. was' \in [Artifacts -> [0..MaxDocV -> Nat]] /\ was'[b][0] = 0
          /\ \A a \in Artifacts : a # b => was'[a] = was[a]
        BY <1>0, <2>2, <2>4 DEF AttachInv, AttachTypes
    <2>6. \A a \in Artifacts : session'[a] = IF a = b THEN fresh ELSE session[a]
        BY <1>0, <2>4 DEF AttachInv, AttachTypes
    <2>7. AttachTypes'
        BY <1>0, <2>2, <2>3, <2>4, <2>5 DEF AttachInv, AttachTypes
    <2>8. ASSUME NEW a \in Artifacts PROVE RowOK(a)'
        BY <2>1, <2>2, <2>4, <2>5, <2>6 DEF AttachInv, RowOK
    <2>9. sends'[t] = s
        BY <2>4 DEF AttachInv, AttachTypes
    <2>10. ASSUME NEW u \in Sends PROVE SendOK(sends[u])'
        <3>1. CASE u = t
            <4>1. SeenOK(s)' /\ s.art \in Artifacts
                BY <1>0, <2>1, <2>3, <2>4, <2>6 DEF SeenOK
            <4> QED BY <2>2, <2>3, <2>9, <3>1, <4>1 DEF SendOK
        <3>2. CASE u # t
            <4>1. ~AtFile(sends[u]) \/ sends[u].art # b
                BY <1>0, <3>2 DEF Alone, AtFile
            <4>2. sends'[u] = sends[u]
                BY <2>4, <3>2 DEF AttachInv, AttachTypes
            <4> QED BY <1>0, <2>4, <2>5, <2>6, <4>1, <4>2, OthersStand
        <3> QED BY <3>1, <3>2
    <2>11. ASSUME NEW a \in Artifacts PROVE (Agrees(a) \/ \E u \in Sends : Working(sends[u], a))'
        <3>1. CASE a = b
            BY <2>3, <2>9, <3>1 DEF Working
        <3>2. CASE a # b /\ Agrees(a)
            BY <2>4, <2>6, <3>2 DEF Agrees
        <3>3. CASE a # b /\ ~Agrees(a)
            <4>1. PICK u \in Sends : Working(sends[u], a)
                BY <3>3 DEF AttachInv
            <4>2. sends'[u] = sends[u]
                BY <1>0, <2>4, <3>3, <4>1 DEF AttachInv, AttachTypes, Working
            <4> QED BY <4>1, <4>2 DEF Working
        <3> QED BY <3>1, <3>2, <3>3
    <2> QED BY <2>7, <2>8, <2>10, <2>11 DEF AttachInv
<1> QED BY <1>2, <1>3

(* The row is brought to the bytes that were written, or held them already. *)
LEMMA RowIsBrought ==
    ASSUME AttachInv, NEW t \in Sends, StageHash(t), Alone
    PROVE  AttachInv'
<1> DEFINE b == sends[t].art
           seen == sends[t].seen
           ver == IF seen.hash = 0 THEN seen.ver ELSE seen.ver + 1
<1>0. /\ sends[t] \in SendStates /\ SendOK(sends[t]) /\ b \in Artifacts /\ sends[t].pc = "hash"
      /\ seen \in RowStates /\ seen # NoRow /\ seen.ver < MaxDocV
    <2>1. sends[t] \in SendStates /\ SendOK(sends[t]) /\ b \in Artifacts /\ sends[t].pc = "hash"
        BY SendFields DEF StageHash
    <2> QED BY <2>1 DEF SendStates, SendOK, StageHash
<1>1. SeenOK(sends[t])
    BY <1>0 DEF SendOK
<1>2. session[b] # NoRow /\ seen.ver <= session[b].ver /\ seen.ver \in 0..MaxDocV
      /\ session[b] \in RowStates /\ (seen.hash = 0 => was[b][seen.ver] = 0 /\ Agrees(b))
    BY <1>0, <1>1, AttachNames DEF SeenOK, AttachInv, AttachTypes, RowOK, RowStates, Agrees
<1>3. PICK s \in SendStates : s.pc = "done" /\ sends' = [sends EXCEPT ![t] = s] /\ sends'[t] = s
                              /\ (s.told = "placed" \/ s.told = "not placed")
    <2> DEFINE placed == [sends[t] EXCEPT !.pc = "done", !.told = "placed"]
               not == [sends[t] EXCEPT !.pc = "done", !.told = "not placed"]
    <2>1. placed \in SendStates /\ placed.pc = "done" /\ placed.told = "placed"
          /\ not \in SendStates /\ not.pc = "done" /\ not.told = "not placed"
        BY <1>0 DEF SendStates, SendPcs, Tellings
    <2>2. sends' = [sends EXCEPT ![t] = placed] \/ sends' = [sends EXCEPT ![t] = not]
        BY DEF StageHash, AttachInv, AttachTypes
    <2> HIDE DEF placed, not
    <2>3. CASE sends' = [sends EXCEPT ![t] = placed]
        BY <2>1, <2>3 DEF AttachInv, AttachTypes
    <2>4. CASE sends' = [sends EXCEPT ![t] = not]
        BY <2>1, <2>4 DEF AttachInv, AttachTypes
    <2> QED BY <2>2, <2>3, <2>4
<1>4. SendOK(s)
    BY <1>3 DEF SendOK
<1>5. ASSUME NEW m \in Nat, arts' = [arts EXCEPT ![b].mark = IF arts[b].gone THEN @ ELSE m]
      PROVE  /\ arts' \in [Artifacts -> ArtStates]
             /\ \A a \in Artifacts : arts'[a].mark # arts[a].mark => a = b /\ arts'[a].mark = m
    <2>1. arts[b] \in ArtStates
        BY <1>0 DEF AttachInv, AttachTypes
    <2>2. PICK r \in ArtStates : arts' = [arts EXCEPT ![b] = r] /\ (r.mark = arts[b].mark \/ r.mark = m)
        <3>1. CASE arts[b].gone
            <4>1. [arts[b] EXCEPT !.mark = @] = arts[b]
                BY <2>1 DEF ArtStates
            <4>2. arts' = [arts EXCEPT ![b] = [arts[b] EXCEPT !.mark = @]]
                BY <1>5, <3>1
            <4> QED BY <2>1, <4>1, <4>2
        <3>2. CASE ~arts[b].gone
            <4>1. [arts[b] EXCEPT !.mark = m] \in ArtStates /\ [arts[b] EXCEPT !.mark = m].mark = m
                BY <2>1, <1>5 DEF ArtStates
            <4>2. arts' = [arts EXCEPT ![b] = [arts[b] EXCEPT !.mark = m]]
                BY <1>5, <3>2
            <4> QED BY <4>1, <4>2
        <3> QED BY <3>1, <3>2
    <2> QED BY <2>2 DEF AttachInv, AttachTypes
<1>6. CASE seen.hash = 0
    <2>1. arts' = [arts EXCEPT ![b].mark = IF arts[b].gone THEN @ ELSE seen.ver] /\ seen.ver \in Nat
          /\ UNCHANGED <<doc, session, was, edits>>
        BY <1>2, <1>6 DEF StageHash
    <2>2. arts' \in [Artifacts -> ArtStates] /\ edits' \in 0..MaxEdits
        BY <1>5, <2>1 DEF AttachInv, AttachTypes
    <2>3. \A a \in Artifacts : arts'[a].mark # arts[a].mark => a = b /\ arts'[a].mark = seen.ver
        BY <1>5, <2>1
    <2>4. \A a \in Artifacts : arts'[a].mark # arts[a].mark =>
               /\ session[a] # NoRow /\ arts'[a].mark \in 0..MaxDocV
               /\ arts'[a].mark <= session[a].ver /\ was[a][arts'[a].mark] = 0
        BY <1>2, <1>6, <2>3
    <2>5. \A a \in Artifacts : Working(sends[t], a) => Working(s, a) \/ Agrees(a)
        BY <1>2, <1>6 DEF Working
    <2> QED BY <1>3, <1>4, <2>1, <2>2, <2>4, <2>5, SendMoves
<1>7. CASE seen.hash # 0
    <2>1. seen = session[b] /\ doc[b] \in {0, NoPlace}
        BY <1>1, <1>7 DEF SeenOK
    <2>2. PICK n \in 0..MaxDocV : n = seen.ver + 1 /\ n \in Nat
        BY <1>0, <1>2, AttachNames
    <2>3. PICK row \in RowStates : row = [ver |-> n, hash |-> 0] /\ row # NoRow /\ row.ver = n /\ row.hash = 0
        <3>1. [ver |-> n, hash |-> 0] \in RowStates
            BY <2>2 DEF RowStates
        <3>2. n # 100
            BY <2>2, AttachNames
        <3> QED BY <3>1, <3>2, AttachNames
    <2>4. /\ session' = [session EXCEPT ![b] = row] /\ was' = [was EXCEPT ![b][n] = 0]
          /\ arts' = [arts EXCEPT ![b].mark = IF arts[b].gone THEN @ ELSE n]
          /\ UNCHANGED <<doc, edits>>
        BY <1>7, <2>1, <2>2, <2>3 DEF StageHash, SavesAt
    <2>5. /\ arts' \in [Artifacts -> ArtStates]
          /\ \A a \in Artifacts : arts'[a].mark # arts[a].mark => a = b /\ arts'[a].mark = n
        BY <1>5, <2>2, <2>4
    <2>6. was' \in [Artifacts -> [0..MaxDocV -> Nat]] /\ was'[b][n] = 0
          /\ (\A a \in Artifacts : a # b => was'[a] = was[a])
          /\ \A v \in 0..MaxDocV : v # n => was'[b][v] = was[b][v]
        BY <1>0, <2>2, <2>4 DEF AttachInv, AttachTypes
    <2>7. \A a \in Artifacts : session'[a] = IF a = b THEN row ELSE session[a]
        BY <1>0, <2>4 DEF AttachInv, AttachTypes
    <2>8. AttachTypes'
        BY <1>0, <1>3, <2>3, <2>4, <2>5, <2>6 DEF AttachInv, AttachTypes
    <2>9. ASSUME NEW a \in Artifacts PROVE RowOK(a)'
        <3>1. CASE a # b
            BY <2>4, <2>5, <2>6, <2>7, <3>1 DEF AttachInv, RowOK
        <3>2. CASE a = b
            <4>1. arts'[b].mark # 100 => arts'[b].mark \in 0..MaxDocV /\ arts'[b].mark <= n
                                         /\ was'[b][arts'[b].mark] = 0
                <5>1. CASE arts'[b].mark = n
                    BY <2>2, <2>6, <5>1
                <5>2. CASE arts'[b].mark # n /\ arts'[b].mark # 100
                    <6>1. arts'[b].mark = arts[b].mark
                        BY <1>0, <2>5, <5>2
                    <6>2. arts[b].mark \in 0..MaxDocV /\ arts[b].mark <= seen.ver /\ was[b][arts[b].mark] = 0
                        BY <1>0, <2>1, <5>2, <6>1 DEF AttachInv, RowOK
                    <6>3. PICK m \in 0..MaxDocV : m = arts[b].mark /\ m # n /\ m <= seen.ver /\ was[b][m] = 0
                        BY <5>2, <6>1, <6>2
                    <6>4. was'[b][m] = 0
                        BY <2>6, <6>3
                    <6>5. m <= n
                        BY <1>2, <2>2, <6>3
                    <6> QED BY <6>1, <6>3, <6>4, <6>5
                <5> QED BY <5>1, <5>2
            <4> QED BY <1>0, <2>2, <2>3, <2>6, <2>7, <3>2, <4>1 DEF RowOK
        <3> QED BY <3>1, <3>2
    <2>10. ASSUME NEW u \in Sends PROVE SendOK(sends[u])'
        <3>1. CASE u = t
            BY <1>3, <3>1 DEF SendOK
        <3>2. CASE u # t
            <4>1. ~AtFile(sends[u]) \/ sends[u].art # b
                BY <1>0, <3>2 DEF Alone, AtFile
            <4>2. sends'[u] = sends[u]
                BY <1>3, <3>2 DEF AttachInv, AttachTypes
            <4> QED BY <1>0, <2>4, <2>6, <2>7, <4>1, <4>2, OthersStand
        <3> QED BY <3>1, <3>2
    <2>11. ASSUME NEW a \in Artifacts PROVE (Agrees(a) \/ \E u \in Sends : Working(sends[u], a))'
        <3>1. CASE a # b /\ Agrees(a)
            BY <2>4, <2>7, <3>1 DEF Agrees
        <3>2. CASE a # b /\ ~Agrees(a)
            <4>1. PICK u \in Sends : Working(sends[u], a)
                BY <3>2 DEF AttachInv
            <4>2. sends'[u] = sends[u]
                BY <1>0, <1>3, <3>2, <4>1 DEF AttachInv, AttachTypes, Working
            <4> QED BY <4>1, <4>2 DEF Working
        <3>3. CASE a = b
            BY <2>1, <2>3, <2>4, <2>7, <3>3 DEF Agrees
        <3> QED BY <3>1, <3>2, <3>3
    <2> QED BY <2>8, <2>9, <2>10, <2>11 DEF AttachInv
<1> QED BY <1>6, <1>7

(* A change is accepted: the file and its row go on together. *)
LEMMA ChangesAccepted ==
    ASSUME AttachInv, NEW b \in Artifacts, Accepted(b)
    PROVE  AttachInv' /\ \A a \in Artifacts : doc[a] \in 1..MaxEdits => doc'[a] # 0
<1>1. PICK e \in 0..MaxEdits : e = edits + 1 /\ e \in Nat /\ e # 0 /\ e # NoPlace
    BY AttachNames DEF AttachInv, AttachTypes, Accepted
<1>2. session[b] \in RowStates /\ session[b] # NoRow /\ session[b].ver \in 0..MaxDocV
      /\ was[b][session[b].ver] = session[b].hash /\ doc[b] = session[b].hash /\ session[b].ver < MaxDocV
    BY DEF Accepted, AttachInv, AttachTypes, RowOK
<1>3. PICK n \in 0..MaxDocV : n = session[b].ver + 1 /\ n \in Nat /\ n # 100
    BY <1>2, AttachNames
<1>4. PICK row \in RowStates : row = [ver |-> n, hash |-> e] /\ row # NoRow /\ row.ver = n /\ row.hash = e
    <2>1. [ver |-> n, hash |-> e] \in RowStates
        BY <1>1, <1>3 DEF RowStates
    <2> QED BY <1>3, <2>1, AttachNames
<1>5. /\ session' = [session EXCEPT ![b] = row] /\ was' = [was EXCEPT ![b][n] = e]
      /\ doc' = [doc EXCEPT ![b] = e] /\ edits' = e /\ UNCHANGED <<arts, sends>>
    <2>1. [session[b] EXCEPT !.ver = n] \in RowStates
        BY <1>2, <1>3 DEF RowStates
    <2> QED BY <1>1, <1>3, <1>4 DEF Accepted
<1>6. was' \in [Artifacts -> [0..MaxDocV -> Nat]] /\ was'[b][n] = e
      /\ (\A a \in Artifacts : a # b => was'[a] = was[a])
      /\ \A v \in 0..MaxDocV : v # n => was'[b][v] = was[b][v]
    BY <1>1, <1>3, <1>5 DEF AttachInv, AttachTypes
<1>7. \A a \in Artifacts : session'[a] = (IF a = b THEN row ELSE session[a])
                           /\ doc'[a] = IF a = b THEN e ELSE doc[a]
    BY <1>5 DEF AttachInv, AttachTypes
<1>8. AttachTypes'
    BY <1>1, <1>4, <1>5, <1>6 DEF AttachInv, AttachTypes
<1>9. ASSUME NEW a \in Artifacts PROVE RowOK(a)'
    <2>1. CASE a # b
        BY <1>5, <1>6, <1>7, <2>1 DEF AttachInv, RowOK
    <2>2. CASE a = b
        <3>1. arts[b].mark # 100 => arts[b].mark \in 0..MaxDocV /\ arts[b].mark <= session[b].ver
                                    /\ was[b][arts[b].mark] = 0
            BY DEF AttachInv, RowOK
        <3>2. arts[b].mark # 100 => arts[b].mark # n /\ arts[b].mark <= n
            BY <1>2, <1>3, <3>1
        <3> QED BY <1>3, <1>4, <1>5, <1>6, <1>7, <2>2, <3>1, <3>2 DEF RowOK
    <2> QED BY <2>1, <2>2
<1>10. ASSUME NEW u \in Sends PROVE SendOK(sends[u])'
    <2>1. CASE sends[u].art # b \/ sends[u].pc \in {"none", "resolve", "stage", "done"}
        <3>1. sends[u].pc \notin {"none", "done"} => sends[u].art \in Artifacts
            BY SendFields
        <3>2. sends[u] \in SendStates /\ SendOK(sends[u])
            BY SendFields
        <3>3. CASE sends[u].pc \in {"none", "resolve", "stage", "done"}
            BY <1>5, <3>2, <3>3 DEF SendOK
        <3>4. CASE sends[u].art # b /\ sends[u].art \in Artifacts
            BY <1>5, <1>7, <3>2, <3>4 DEF SendOK, SeenOK, Agrees, AttachInv
        <3> QED BY <2>1, <3>1, <3>3, <3>4
    <2>2. CASE sends[u].art = b /\ sends[u].pc = "write"
        <3>1. session[b] = NoRow \/ doc[b] = NoPlace
            BY <2>2 DEF AttachInv, SendOK
        <3> QED BY <3>1 DEF Accepted
    <2>3. CASE sends[u].art = b /\ sends[u].pc \in {"row", "hash"}
        <3>1. SendOK(sends[u]) /\ SeenOK(sends[u])
            BY <2>3 DEF AttachInv, SendOK
        <3>2. doc[b] # NoPlace
            BY DEF Accepted
        <3>3. sends[u].seen # NoRow /\ sends[u].seen.hash = 0 /\ sends[u].seen.ver \in 0..MaxDocV
              /\ sends[u].seen.ver <= session[b].ver /\ was[b][sends[u].seen.ver] = 0
            <4>1. CASE sends[u].seen = session[b] /\ doc[b] \in {0, NoPlace}
                BY <1>2, <3>2, <4>1
            <4>2. CASE ~(sends[u].seen = session[b] /\ doc[b] \in {0, NoPlace})
                BY <2>3, <3>1, <4>2 DEF SeenOK
            <4> QED BY <4>1, <4>2
        <3>4. sends[u].seen.ver # n /\ sends[u].seen.ver <= n
            BY <1>2, <1>3, <3>3
        <3>5. SeenOK(sends[u])'
            BY <1>4, <1>5, <1>6, <1>7, <2>3, <3>3, <3>4 DEF SeenOK, Agrees
        <3> QED BY <1>5, <2>3, <3>3, <3>5 DEF SendOK
    <2>4. sends[u].pc \in SendPcs
        BY DEF AttachInv, AttachTypes, SendStates
    <2> QED BY <2>1, <2>2, <2>3, <2>4 DEF SendPcs
<1>11. ASSUME NEW a \in Artifacts PROVE (Agrees(a) \/ \E u \in Sends : Working(sends[u], a))'
    <2>1. CASE a = b
        BY <1>4, <1>7, <2>1 DEF Agrees
    <2>2. CASE a # b
        BY <1>5, <1>7, <2>2 DEF AttachInv, Agrees, Working
    <2> QED BY <2>1, <2>2
<1> QED BY <1>1, <1>7, <1>8, <1>9, <1>10, <1>11 DEF AttachInv

LEMMA FilesLost ==
    ASSUME AttachInv, NEW b \in Artifacts, FileLost(b)
    PROVE  AttachInv' /\ \A a \in Artifacts : doc[a] \in 1..MaxEdits => doc'[a] # 0
<1>1. doc' = [doc EXCEPT ![b] = NoPlace] /\ UNCHANGED <<arts, session, sends, edits, was>>
      /\ NoPlace \in Nat /\ NoPlace # 0
    BY AttachNames DEF FileLost
<1>2. \A a \in Artifacts : doc'[a] = IF a = b THEN NoPlace ELSE doc[a]
    BY <1>1 DEF AttachInv, AttachTypes
<1>3. AttachTypes'
    BY <1>1 DEF AttachInv, AttachTypes
<1>4. ASSUME NEW a \in Artifacts PROVE RowOK(a)'
    BY <1>1, <1>2 DEF AttachInv, RowOK
<1>5. ASSUME NEW u \in Sends PROVE SendOK(sends[u])'
    <2>1. SendOK(sends[u])
        BY DEF AttachInv
    <2>2. CASE sends[u].pc \in {"none", "done"}
        BY <1>1, <2>1, <2>2 DEF SendOK
    <2>3. CASE sends[u].pc \notin {"none", "done"}
        <3>1. sends[u].art \in Artifacts
            BY <2>1, <2>3 DEF SendOK
        <3>2. SeenOK(sends[u]) => SeenOK(sends[u])'
            BY <1>1, <1>2, <3>1 DEF SeenOK, Agrees
        <3> QED BY <1>1, <1>2, <2>1, <3>1, <3>2 DEF SendOK
    <2> QED BY <2>2, <2>3
<1>6. ASSUME NEW a \in Artifacts PROVE (Agrees(a) \/ \E u \in Sends : Working(sends[u], a))'
    BY <1>1, <1>2 DEF AttachInv, Agrees, Working
<1> QED BY <1>1, <1>2, <1>3, <1>4, <1>5, <1>6 DEF AttachInv

LEMMA AttachKeeps ==
    ASSUME AttachInv, AttachNext, Alone
    PROVE  AttachInv' /\ \A a \in Artifacts : doc[a] \in 1..MaxEdits => doc'[a] # 0
<1>1. ASSUME NEW a \in Artifacts, NEW who \in Owners,
             (\E type \in Types : CreateArtifact(a, who, type)) \/ RemoveArtifact(a, who)
      PROVE  AttachInv' /\ doc' = doc
    BY <1>1, ArtifactsKeep DEF CreateArtifact, RemoveArtifact
<1>2. ASSUME NEW t \in Sends, \/ \E who \in Owners, a \in Artifacts : SendsFile(t, who, a)
                              \/ Resolves(t) \/ LooksForSession(t) \/ StageFails(t) \/ SendOver(t)
      PROVE  AttachInv' /\ doc' = doc
    BY <1>2, TurnsSteps DEF SendsFile, Resolves, LooksForSession, StageFails, SendOver
<1>3. ASSUME NEW t \in Sends, StageRow(t) \/ StageHash(t) PROVE AttachInv' /\ doc' = doc
    BY <1>3, RowIsMade, RowIsBrought DEF StageRow, StageHash
<1>4. ASSUME doc' = doc, NEW a \in Artifacts, doc[a] \in 1..MaxEdits PROVE doc'[a] # 0
    BY <1>4, AttachNames
<1> QED BY <1>1, <1>2, <1>3, <1>4, UploadWrites, ChangesAccepted, FilesLost DEF AttachNext

(* While no two turns are at one file at once: what was accepted into a document outlives the
   upload it came from (stage writes where there is no file), the row of a document that is there
   is the row of its bytes, and an upload is marked as a version that held it.  Nothing in the code
   keeps two turns apart there; one turn is always alone. *)
THEOREM AcceptedOutliveUploads ==
    AttachSpec /\ []Alone => EditsSurvive
<1>1. AttachInit => AttachInv
    BY AttachStarts
<1>2. ASSUME AttachInv, Alone, [AttachNext]_attachVars PROVE AttachInv'
    <2>1. CASE AttachNext
        BY <1>2, <2>1, AttachKeeps
    <2>2. CASE UNCHANGED attachVars
        <3>1. UNCHANGED <<arts, doc, session, sends, edits, was>>
            BY <2>2 DEF attachVars
        <3> QED BY <1>2, <3>1 DEF AttachInv, AttachTypes, RowOK, Agrees, Working, SendOK, SeenOK
    <2> QED BY <1>2, <2>1, <2>2
<1>3. ASSUME AttachInv, AttachInv', Alone, [AttachNext]_attachVars
      PROVE  [\A a \in Artifacts : (doc[a] \in 1..MaxEdits => doc'[a] # 0) /\ RowIsRight(a)']_attachVars
    <2>1. CASE AttachNext
        <3>1. ASSUME NEW a \in Artifacts PROVE (doc[a] \in 1..MaxEdits => doc'[a] # 0) /\ RowIsRight(a)'
            <4>1. doc[a] \in 1..MaxEdits => doc'[a] # 0
                BY <1>3, <2>1, AttachKeeps
            <4>2. RowIsRight(a)'
                BY <1>3 DEF AttachInv, RowOK, RowIsRight, Agrees, Working
            <4> QED BY <4>1, <4>2
        <3> QED BY <3>1
    <2>2. CASE UNCHANGED attachVars
        BY <2>2
    <2> QED BY <1>3, <2>1, <2>2
<1> QED BY <1>1, <1>2, <1>3, PTL DEF AttachSpec, EditsSurvive

(* With one turn that carries files, as in the run. *)
COROLLARY OneTurnsUploads ==
    ASSUME \A s, t \in Sends : s = t
    PROVE  AttachSpec => EditsSurvive
<1>1. Alone
    BY DEF Alone
<1> QED BY <1>1, AcceptedOutliveUploads, PTL
=============================================================================
