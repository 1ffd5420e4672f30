------------------------------- MODULE Gates --------------------------------
(***************************************************************************)
(* What stands between a model's tool call and the tool: the rules of the  *)
(* coworker and of its grant, the person's cards, the auto-reviewer, the   *)
(* egress tunnel, an open form on the screen, and a box that may be        *)
(* asleep. One call at a time, carried over the cards it parks on and over *)
(* the executors that are built for each resumption.                       *)
(***************************************************************************)
EXTENDS Naturals, FiniteSets

CONSTANTS JudgeDownAfter,   \* JUDGE_DOWN_AFTER
          MaxRebuilds       \* bound: executors built for one call

ASSUME GatesAssumption == JudgeDownAfter \in Nat /\ MaxRebuilds \in Nat

\* The names a rule may hold: a tool of each sort, the groups and plugins they
\* are under, and the exclusions ("-name") of either.
GateTools == {"shell", "computer", "mail.send", "delete_routine"}
GroupOf == [t \in GateTools |-> IF t = "delete_routine" THEN "routines" ELSE "none"]
PluginOf == [t \in GateTools |-> IF t = "mail.send" THEN "mail" ELSE "none"]
Not(name) == <<"-", name>>
Whole(plugin) == <<"*", plugin>>
Named(tool) == <<"+", tool>>

VARIABLES
    rules,      \* policy on record: ceiling, the grant's profile and approvals
    turn,       \* the executor of the turn, as built
    ask,        \* the call: its tool, where it stands, the card it parks on
    woken,      \* what the executor remembers of the box
    streak,     \* judge_failures
    builds,
    passed      \* history: what each gate had said of the call when it ran

gateVars == <<rules, turn, ask, woken, streak, builds, passed>>

-----------------------------------------------------------------------------
\* ToolSet. Only is a set of names, exclusions and whole plugins.

AllTools == [kind |-> "all", names |-> {}]
NoTools == [kind |-> "none", names |-> {}]
Only(names) == [kind |-> "only", names |-> names]

GroupOff(s, group) == s.kind = "only" /\ Not(group) \in s.names
AllowsAllOf(s, plugin) == s = AllTools \/ (s.kind = "only" /\ Whole(plugin) \in s.names)
AllowsAlone(s, tool) ==
    \/ s = AllTools
    \/ /\ s.kind = "only" /\ Not(tool) \notin s.names
       /\ Named(tool) \in s.names \/ (PluginOf[tool] # "none" /\ AllowsAllOf(s, PluginOf[tool]))
Allows(s, tool) ==
    AllowsAlone(s, tool) /\ (GroupOf[tool] # "none" => ~GroupOff(s, GroupOf[tool]))

\* kept_by, the bug of an intersection that drops what a rule excludes.
KeptByBlind(names, other) ==
    {n \in names : \/ n[1] = "*" /\ AllowsAllOf(other, n[2])
                   \/ n[1] = "+" /\ Allows(other, n[2])}
\* kept_by: exclusions always, a whole plugin or a tool where the other has it.
KeptBy(names, other) ==
    {n \in names : \/ n[1] = "-"
                   \/ n[1] = "*" /\ AllowsAllOf(other, n[2])
                   \/ n[1] = "+" /\ Allows(other, n[2])}
Intersect(a, b) ==
    CASE a = NoTools \/ b = NoTools -> NoTools
      [] a = AllTools -> b
      [] b = AllTools -> a
      [] OTHER -> LET both == KeptBy(a.names, b) \cup KeptBy(b.names, a)
                  IN IF both = {} THEN NoTools ELSE Only(both)

\* decide, for a coworker and a person the grant is for.
Decide(r, tool) ==
    IF r.revoked \/ ~Allows(Intersect(r.ceiling, r.profile), tool) THEN "deny"
    ELSE IF Allows(r.approvals, tool) THEN "ask" ELSE "allow"

\* The names that bear on a tool, and the sets of them.
Bearing(tool) ==
    {Named(tool), Not(tool)}
        \cup (IF GroupOf[tool] = "none" THEN {} ELSE {Not(GroupOf[tool])})
        \cup (IF PluginOf[tool] = "none" THEN {} ELSE {Whole(PluginOf[tool])})
SetsOn(tool) == {AllTools, NoTools} \cup {Only(s) : s \in SUBSET Bearing(tool)}
RulesOn(tool) ==
    [ceiling : SetsOn(tool), profile : SetsOn(tool), approvals : {NoTools, Only({Named(tool)})},
     revoked : BOOLEAN]

-----------------------------------------------------------------------------
\* An executor is built for each turn and for each resumption: the rules are
\* read then and held, as are the reviewer's instructions, the tunnel and the
\* screen's hold; the memory of the box starts empty.
Turns ==
    [review : {"off", "blocks", "asks"}, tunnel : {"off", "on", "after wake"},
     egress : {"ask", "never", "always"}, hold : BOOLEAN]
NoGateTurn == [review |-> "off", tunnel |-> "off", egress |-> "ask", hold |-> FALSE,
           gate |-> "deny", yes |-> "none", consented |-> FALSE]
Idle == [tool |-> "shell", pc |-> "none", card |-> "none"]

GateInit ==
    /\ \E tool \in GateTools :
          /\ rules \in RulesOn(tool)
          /\ ask = [tool |-> tool, pc |-> "called", card |-> "none"]
    /\ turn = NoGateTurn /\ woken = "unknown" /\ streak = 0 /\ builds = 0 /\ passed = {}

OnComputer(tool) == tool = "computer"
NeedsBox(tool) == tool \in {"shell", "computer"}
AskByRule(tool) == tool = "delete_routine"

\* tools_for_turn, with the one answer the person just gave: a yes to the
\* auto-review's card is not a yes to the policy's, and only it consents to
\* the tunnel. The rules the call is judged by stay what they were when built.
TurnBuilt ==
    /\ ask.pc = "called" \/ (ask.pc = "parked" /\ builds < MaxRebuilds)
    /\ \E t \in Turns :
        LET yes == IF ask.pc = "called" THEN "none"
                   ELSE IF ask.card = "review" THEN "review" ELSE "gate"
        IN turn' = [review |-> t.review, tunnel |-> t.tunnel, egress |-> t.egress,
                    hold |-> t.hold, gate |-> Decide(rules, ask.tool), yes |-> yes,
                    consented |-> yes = "review" /\ OnComputer(ask.tool)]
    /\ ask' = [ask EXCEPT !.pc = "gates"]
    /\ woken' = "unknown" /\ builds' = builds + 1
    /\ UNCHANGED <<rules, streak, passed>>

\* A person edits the rules while the call waits.
RulesEdited ==
    /\ ask.pc = "parked" /\ builds < MaxRebuilds
    /\ rules' \in {[rules EXCEPT !.ceiling = NoTools], [rules EXCEPT !.revoked = TRUE],
                   [rules EXCEPT !.ceiling = AllTools, !.profile = AllTools,
                                 !.revoked = FALSE, !.approvals = Only({Named(ask.tool)})]}
    /\ UNCHANGED <<turn, ask, woken, streak, builds, passed>>

GateYes == turn.yes = "gate"
ReviewYes == turn.yes \in {"gate", "review"}
NetworkOff == turn.egress = "never" /\ turn.tunnel = "on"
Consented == turn.consented \/ turn.egress = "always"
ReviewActive == turn.review # "off"

GateRefuses == ask' = [ask EXCEPT !.pc = "refused"]
Parks(card) == ask' = [ask EXCEPT !.pc = "parked", !.card = card]

\* The gate of the rules; a deletion asks by rule of its desk.
Gate == IF turn.gate = "allow" /\ AskByRule(ask.tool) THEN "ask" ELSE turn.gate

\* combine, the bug of a yes that answers for every gate.
CombineAnyYes(gate, review) ==
    IF gate = "deny" \/ review = "block" THEN "refuse"
    ELSE IF gate = "ask" /\ ~ReviewYes THEN "gate"
    ELSE IF review = "ask" THEN "review" ELSE "run"
\* combine: a refusal of either side, then the rules' question, then the
\* reviewer's.
Combine(gate, review) ==
    IF gate = "deny" \/ review = "block" THEN "refuse"
    ELSE IF gate = "ask" /\ ~GateYes THEN "gate"
    ELSE IF review = "ask" THEN "review" ELSE "run"

\* The gates that refuse or park at once: no network for a browser tool, a
\* form open on its screen, the tunnel's card.
TunnelAsks == OnComputer(ask.tool) /\ ~ReviewYes /\ ~Consented /\ ~ReviewActive
EarlyRefusal ==
    /\ ask.pc = "gates"
    /\ OnComputer(ask.tool) /\ (NetworkOff \/ turn.hold)
    /\ GateRefuses /\ UNCHANGED <<rules, turn, woken, streak, builds, passed>>
PastEarly == ask.pc = "gates" /\ ~(OnComputer(ask.tool) /\ (NetworkOff \/ turn.hold))
TunnelCard ==
    /\ PastEarly /\ turn.tunnel = "on" /\ TunnelAsks
    /\ \/ Gate = "deny" /\ GateRefuses
       \/ Gate = "allow" /\ ~GateYes /\ Parks("review")
    /\ UNCHANGED <<rules, turn, woken, streak, builds, passed>>
PastTunnel ==
    PastEarly /\ ~(turn.tunnel = "on" /\ TunnelAsks /\ (Gate = "deny" \/ (Gate = "allow" /\ ~GateYes)))

\* AutoReview::judge: three failures in a row in a run and it is asked no more.
Verdicts == {"allow", "ask", "block", "unsure", "unavailable"}
Judged(v) ==
    CASE v = "allow" -> "allow"
      [] v = "block" /\ turn.review = "blocks" -> "block"
      [] OTHER -> "ask"
Goes(outcome) ==
    CASE outcome = "refuse" -> GateRefuses
      [] outcome = "run" -> ask' = [ask EXCEPT !.pc = "box"]
      [] OTHER -> Parks(outcome)
JudgeAsked ==
    /\ PastTunnel /\ ReviewActive /\ ~ReviewYes /\ Gate # "deny"
    /\ \/ /\ streak >= JudgeDownAfter /\ Goes(Combine(Gate, "block")) /\ UNCHANGED <<streak, passed>>
       \/ /\ streak < JudgeDownAfter
          /\ \E v \in Verdicts :
               /\ streak' = IF v = "unavailable" THEN streak + 1 ELSE 0
               /\ Goes(Combine(Gate, Judged(v)))
               /\ passed' = IF v = "allow" THEN passed \cup {"judge"} ELSE passed
    /\ UNCHANGED <<rules, turn, woken, builds>>
JudgePassedBy ==
    /\ PastTunnel /\ (~ReviewActive \/ ReviewYes \/ Gate = "deny")
    /\ Goes(Combine(Gate, "none"))
    /\ UNCHANGED <<rules, turn, woken, streak, builds, passed>>

\* ensure_awake: what the box was found to be is remembered for the turn,
\* except that it is still starting.
BoxFound(state) ==
    /\ ask.pc = "box" /\ NeedsBox(ask.tool) /\ woken = "unknown"
    /\ woken' = IF state = "starting" THEN "unknown" ELSE state
    /\ IF state = "running" THEN ask' = [ask EXCEPT !.pc = "awake"] ELSE GateRefuses
    /\ UNCHANGED <<rules, turn, streak, builds, passed>>
Elsewhere ==
    /\ ask.pc = "box" /\ ~NeedsBox(ask.tool)
    /\ ask' = [ask EXCEPT !.pc = "awake"]
    /\ UNCHANGED <<rules, turn, woken, streak, builds, passed>>

\* A box asleep when the turn was built is asked of its tunnel now, and the
\* same two questions are put again.
RunsCall(tunnelThere) ==
    /\ ask.pc = "awake"
    /\ LET late == turn.tunnel = "after wake" /\ tunnelThere /\ OnComputer(ask.tool) IN
       IF late /\ turn.egress = "never" THEN GateRefuses /\ UNCHANGED passed
       ELSE IF late /\ TunnelAsks /\ ~GateYes THEN Parks("review") /\ UNCHANGED passed
       ELSE /\ ask' = [ask EXCEPT !.pc = "ran"]
            /\ passed' = passed \cup (IF late \/ turn.tunnel = "on" THEN {"tunnel"} ELSE {})
    /\ UNCHANGED <<rules, turn, woken, streak, builds>>

GateNext ==
    \/ TurnBuilt \/ RulesEdited \/ EarlyRefusal \/ TunnelCard \/ JudgeAsked \/ JudgePassedBy
    \/ \E s \in {"running", "starting", "down"} : BoxFound(s)
    \/ Elsewhere
    \/ \E t \in BOOLEAN : RunsCall(t)

GateSpec == GateInit /\ [][GateNext]_gateVars

-----------------------------------------------------------------------------
\* The intersection of a ceiling and a profile lets a tool through exactly
\* where both do, exclusions, groups and whole plugins included.
MeetIsExact ==
    Allows(Intersect(rules.ceiling, rules.profile), ask.tool)
        <=> Allows(rules.ceiling, ask.tool) /\ Allows(rules.profile, ask.tool)

\* A call that ran passed every gate of the executor that ran it: the rules
\* let it, a yes to the rules' own card where they asked, the reviewer or a
\* person where it is on, no open form on the screen, and the person's
\* network only by consent, by a yes or by the reviewer's leave.
EveryGatePassed ==
    ask.pc = "ran" =>
        /\ turn.gate # "deny"
        /\ (turn.gate = "ask" \/ AskByRule(ask.tool)) => turn.yes = "gate"
        /\ turn.review # "off" => (turn.yes # "none" \/ "judge" \in passed)
        /\ ask.tool = "computer" => ~turn.hold
        /\ "tunnel" \in passed /\ ask.tool = "computer" =>
             /\ turn.egress # "never"
             /\ turn.egress = "always" \/ turn.yes # "none" \/ turn.review # "off"

\* What holds of gates: two tool sets meet exactly, and a call that ran passed
\* every gate of its executor.
GatesHold == MeetIsExact /\ EveryGatePassed
=============================================================================
