------------------------------ MODULE McpDoor -------------------------------
(***************************************************************************)
(* A tool call over MCP that a person must allow: the audit run and card   *)
(* its ask is kept as, the answer, the "allow once" row the answer leaves  *)
(* and the retry that spends it.  One coworker, one account and one call   *)
(* (tool and arguments), asked from several replicas; coworker_lock is per *)
(* replica.                                                                *)
(***************************************************************************)
EXTENDS Naturals, FiniteSets

CONSTANTS DoorReplicas, \* server processes
          Callers,      \* requests under way: MCP calls and card answers
          MaxAsk,       \* bound: audit runs, and call ids
          OnceTTL,      \* ALLOW_ONCE_TTL_MS
          MaxDoorNow    \* bound: the clock

ASSUME McpDoorAssumption == {MaxAsk, OnceTTL, MaxDoorNow} \subseteq Nat

VARIABLES
    dclock,     \* now
    dlock,      \* coworker_lock of each replica: free or not
    dcall,      \* the requests under way
    ask,        \* audit runs: status, call id and whether the gate asked
    card,       \* transcript cards: call id -> none, pending or answered
    yes,        \* mcp_allow_once
    allowed,    \* history: when a person's yes for a call id was recorded
    ran         \* history: <<call id, when its yes was taken, which>> of calls

doorVars == <<dclock, dlock, dcall, ask, card, yes, allowed, ran>>

AskIds == 1 .. MaxAsk
NoAskId == 0
CallIdle == [pc |-> "idle"]
NoAsk == [st |-> "none", id |-> NoAskId, gate |-> FALSE]
NoYes == [id |-> NoAskId, gate |-> FALSE, at |-> 0]

DoorInit ==
    /\ dclock = 0
    /\ dlock = [r \in DoorReplicas |-> FALSE]
    /\ dcall = [q \in Callers |-> CallIdle]
    /\ ask = [a \in AskIds |-> NoAsk]
    /\ card = [i \in AskIds |-> "none"]
    /\ yes = {}
    /\ allowed = [i \in AskIds |-> {}]
    /\ ran = {}

CallAt(q, pc) == dcall[q].pc = pc
CallTo(q, pc) == dcall' = [dcall EXCEPT ![q] = [@ EXCEPT !.pc = pc]]
Unlock(q) ==
    /\ dlock' = [dlock EXCEPT ![dcall[q].rep] = FALSE]
    /\ dcall' = [dcall EXCEPT ![q] = CallIdle]
Fresh(a) == \A b \in AskIds : ask[b].st = "none" <=> b >= a

-----------------------------------------------------------------------------
(* The call. *)

\* take_mcp_allow_once: one unexpired row, deleted as it is read.
Takeable == {y \in yes : dclock < y.at + OnceTTL}
Taken(y) == yes' = yes \ {y}

\* dispatch: the lock, and a yes if one waits.
CallLocked(q, r) ==
    /\ CallAt(q, "idle") /\ ~dlock[r]
    /\ dlock' = [dlock EXCEPT ![r] = TRUE]
    /\ \/ \E y \in Takeable :
             /\ Taken(y)
             /\ dcall' = [dcall EXCEPT ![q] =
                             [pc |-> "run", rep |-> r, yes |-> y, at |-> dclock]]
       \/ /\ Takeable = {}
          /\ dcall' = [dcall EXCEPT ![q] =
                          [pc |-> "look", rep |-> r, yes |-> NoYes, at |-> dclock]]
          /\ UNCHANGED yes
    /\ UNCHANGED <<dclock, ask, card, allowed, ran>>

Waiting == {a \in AskIds : ask[a].st = "waiting"}
Carded == {a \in Waiting : card[ask[a].id] = "pending"}

\* fail_stuck_mcp_run: the asks met before the one with a card are failed.
Unstuck == [a \in AskIds |->
    IF a \in Waiting \ Carded THEN [ask[a] EXCEPT !.st = "failed"] ELSE ask[a]]

\* existing_mcp_ask, before the call runs and again before a card is raised.
AskLooked(q) ==
    /\ CallAt(q, "look") \/ CallAt(q, "relook")
    /\ IF Carded # {}
       THEN Unlock(q) /\ UNCHANGED ask
       ELSE /\ ask' = Unstuck
            /\ CallTo(q, IF CallAt(q, "look") THEN "run" ELSE "persist")
            /\ UNCHANGED dlock
    /\ UNCHANGED <<dclock, card, yes, allowed, ran>>

\* A give-back that stamps the yes afresh.
StampedNow(y) == [y EXCEPT !.at = dclock]

\* give_back: the same yes, with the stamp of the answer; rows past their
\* time are cleared as it goes in.
Stamped(y) == y
Remembered(y) == yes' = {z \in yes : y.at < z.at + OnceTTL} \cup {y}

\* toolbox_for and run_one: nothing to run on, a call that failed, a call
\* that went through, or one the gates stop.  A yes to a gate releases the
\* review too; a yes to a review does not release the gate.
ToolRun(q) ==
    /\ CallAt(q, "run")
    /\ LET y == dcall[q].yes IN
          \/ \* no computer, none reachable, or the call failed
             /\ IF y = NoYes THEN UNCHANGED yes ELSE Remembered(Stamped(y))
             /\ Unlock(q)
             /\ UNCHANGED ran
          \/ /\ y # NoYes
             /\ ran' = ran \cup {<<y.id, dcall[q].at, Cardinality(ran)>>}
             /\ Unlock(q)
             /\ UNCHANGED yes
          \/ /\ ~y.gate
             /\ CallTo(q, "relook")
             /\ UNCHANGED <<yes, ran, dlock>>
    /\ UNCHANGED <<dclock, ask, card, allowed>>

\* persist_mcp_ask: the audit run, suspended.  A call running on a review's
\* yes is asked for by the gate alone, under the same call id.
AskPersisted(q) ==
    /\ CallAt(q, "persist")
    /\ \E a \in AskIds, gate \in BOOLEAN :
          /\ Fresh(a)
          /\ dcall[q].yes # NoYes => gate
          /\ LET id == IF dcall[q].yes = NoYes THEN a ELSE dcall[q].yes.id IN
                ask' = [ask EXCEPT ![a] = [st |-> "waiting", id |-> id, gate |-> gate]]
          /\ dcall' = [dcall EXCEPT ![q] =
                          [pc |-> "card", rep |-> @.rep, run |-> a]]
    /\ UNCHANGED <<dclock, dlock, card, yes, allowed, ran>>

\* append_gateway_entry; where it fails the run is failed if it still waits.
CardRaised(q) ==
    /\ CallAt(q, "card")
    /\ LET a == dcall[q].run IN
          \/ card' = [card EXCEPT ![ask[a].id] = "pending"] /\ UNCHANGED ask
          \/ /\ ask' = [ask EXCEPT ![a].st = IF @ = "waiting" THEN "failed" ELSE @]
             /\ UNCHANGED card
    /\ Unlock(q)
    /\ UNCHANGED <<dclock, yes, allowed, ran>>

-----------------------------------------------------------------------------
(* The answer. *)

\* The card's answer reaches settle_mcp_answer with the run as it was read.
AnswerRead(q, a, ok) ==
    /\ CallAt(q, "idle")
    /\ ask[a].st = "waiting" /\ card[ask[a].id] = "pending"
    /\ dcall' = [dcall EXCEPT ![q] = [pc |-> "settle", run |-> a, ok |-> ok]]
    /\ UNCHANGED <<dclock, dlock, ask, card, yes, allowed, ran>>

\* An append that does not mind what was appended since.
AnswerLandsBlind(a) == TRUE

\* append_run at the sequence number that was read: one answer lands.
AnswerLands(a) == ask[a].st = "waiting"

AnswerSettled(q, r) ==
    /\ CallAt(q, "settle") /\ ~dlock[r]
    /\ LET a == dcall[q].run IN
          IF AnswerLands(a)
          THEN /\ ask' = [ask EXCEPT ![a].st = "running"]
               /\ dlock' = [dlock EXCEPT ![r] = TRUE]
               /\ dcall' = [dcall EXCEPT ![q] =
                     [pc |-> "status", run |-> a, ok |-> @.ok, rep |-> r]]
          ELSE /\ dcall' = [dcall EXCEPT ![q] = CallIdle]
               /\ UNCHANGED <<ask, dlock>>
    /\ UNCHANGED <<dclock, card, yes, allowed, ran>>

\* set_gateway_approval_status of the pending card, if it is still found.
CardAnswered(q) ==
    /\ CallAt(q, "status")
    /\ card' = [card EXCEPT ![ask[dcall[q].run].id] =
                   IF @ = "pending" THEN "answered" ELSE @]
    /\ CallTo(q, IF dcall[q].ok THEN "remember" ELSE "finish")
    /\ UNCHANGED <<dclock, dlock, ask, yes, allowed, ran>>

YesKept(q) ==
    /\ CallAt(q, "remember")
    /\ LET a == ask[dcall[q].run] IN
          /\ Remembered([id |-> a.id, gate |-> a.gate, at |-> dclock])
          /\ allowed' = [allowed EXCEPT ![a.id] = @ \cup {<<dcall[q].run, dclock>>}]
    /\ CallTo(q, "finish")
    /\ UNCHANGED <<dclock, dlock, ask, card, ran>>

AskFinished(q) ==
    /\ CallAt(q, "finish")
    /\ ask' = [ask EXCEPT ![dcall[q].run].st = IF @ = "running" THEN "finished" ELSE @]
    /\ Unlock(q)
    /\ UNCHANGED <<dclock, card, yes, allowed, ran>>

\* The process serving a request goes, and its lock with it.
CallLost(q) ==
    /\ ~CallAt(q, "idle")
    /\ IF "rep" \in DOMAIN dcall[q] THEN Unlock(q)
       ELSE dcall' = [dcall EXCEPT ![q] = CallIdle] /\ UNCHANGED dlock
    /\ UNCHANGED <<dclock, ask, card, yes, allowed, ran>>

DoorTick ==
    /\ dclock < MaxDoorNow
    /\ dclock' = dclock + 1
    /\ UNCHANGED <<dlock, dcall, ask, card, yes, allowed, ran>>

DoorNext ==
    \/ \E q \in Callers, r \in DoorReplicas : CallLocked(q, r) \/ AnswerSettled(q, r)
    \/ \E q \in Callers :
          \/ AskLooked(q) \/ ToolRun(q) \/ AskPersisted(q) \/ CardRaised(q)
          \/ \E a \in AskIds, ok \in BOOLEAN : AnswerRead(q, a, ok)
          \/ CardAnswered(q) \/ YesKept(q) \/ AskFinished(q) \/ CallLost(q)
    \/ DoorTick

DoorSpec == DoorInit /\ [][DoorNext]_doorVars

-----------------------------------------------------------------------------
\* An "allow once" allows once: however answers, retries on several replicas,
\* failures and give-backs interleave, a person's yes lets at most one call
\* through, and only within the time it was given for - giving an unused yes
\* back never renews it.
YesAllowsOnce ==
    /\ \A i \in AskIds :
          Cardinality({x \in ran : x[1] = i}) <= Cardinality(allowed[i])
    /\ \A x \in ran : \E g \in allowed[x[1]] :
          g[2] <= x[2] /\ x[2] < g[2] + OnceTTL
    /\ \A i \in AskIds : \A g, h \in allowed[i] : g[1] = h[1] => g = h
=============================================================================
