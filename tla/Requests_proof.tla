--------------------------- MODULE Requests_proof ---------------------------
(***************************************************************************)
(* What people ask of the server between turns, and what a turn is         *)
(* connected to, proved for every number of requests, replicas, versions,  *)
(* notes and messages: a yes at the MCP door is spent once (McpDoor),      *)
(* skills are what their authors made of them (Skills), a message held for *)
(* a running turn is sent once (HeldSends), a credential goes with its     *)
(* connection (Connections), pasted tokens and saved edits stand and a     *)
(* session is the turn's own (Plugins), and the feed misses no note        *)
(* (Feed). Each part gives the inductive invariant of its component, one   *)
(* lemma per action, and the theorem.                                      *)
(***************************************************************************)
EXTENDS McpDoor, Skills, HeldSends, Connections, Plugins, Feed, FiniteSetTheorems,
        WellFoundedInduction, TLAPS

(***************************************************************************)
(* THE MCP DOOR.  A yes is in mcp_allow_once, in the hands of one call, or *)
(* spent, and of each call id there are no more of these than a person     *)
(* recorded; an ask is answered by one request, which records its yes      *)
(* once; a yes keeps the stamp it was recorded with.                       *)
(***************************************************************************)
Looking == {"run", "look", "relook", "persist"}
Settling == {"status", "remember", "finish"}

YesRecs == [id : AskIds, gate : BOOLEAN, at : Nat]
LookRecs == [pc : Looking, rep : DoorReplicas, yes : YesRecs \cup {NoYes}, at : Nat]
CardRecs == [pc : {"card"}, rep : DoorReplicas, run : AskIds]
ReadRecs == [pc : {"settle"}, run : AskIds, ok : BOOLEAN]
SettleRecs == [pc : Settling, run : AskIds, ok : BOOLEAN, rep : DoorReplicas]
CallRecs == {CallIdle} \cup LookRecs \cup CardRecs \cup ReadRecs \cup SettleRecs
AskRecs == [st : {"none", "waiting", "running", "failed", "finished"}, id : Nat, gate : BOOLEAN]

DoorShape ==
    /\ dclock \in Nat
    /\ dcall \in [Callers -> CallRecs]
    /\ ask \in [AskIds -> AskRecs]
    /\ \A a \in AskIds : ask[a].st # "none" => ask[a].id \in AskIds
    /\ yes \subseteq YesRecs
    /\ allowed \in [AskIds -> SUBSET (AskIds \X Nat)]

\* The yes was recorded with this stamp.
Given(y) == \E g \in allowed[y.id] : g[2] = y.at

CallKnows(c) ==
    /\ c.pc \in Looking /\ c.yes # NoYes =>
          Given(c.yes) /\ c.yes.at <= c.at /\ c.at < c.yes.at + OnceTTL /\ c.at <= dclock
    /\ c.pc \in {"card", "settle"} => ask[c.run].st # "none"
    /\ c.pc \in Settling => ask[c.run].st = "running"
    /\ c.pc \in {"status", "remember"} => \A i \in AskIds : \A g \in allowed[i] : g[1] # c.run

SettledOnce ==
    \A p, q \in Callers :
        p # q /\ dcall[p].pc \in Settling /\ dcall[q].pc \in Settling => dcall[p].run # dcall[q].run

YesOK == \A y \in yes : Given(y) /\ y.at <= dclock
AllowedOK ==
    \A i \in AskIds : \A g \in allowed[i] :
        /\ ask[g[1]].st \notin {"none", "waiting"}
        /\ \A h \in allowed[i] : g[1] = h[1] => g = h
RanOK ==
    \A x \in ran : /\ x[1] \in AskIds
                   /\ \E g \in allowed[x[1]] : g[2] <= x[2] /\ x[2] < g[2] + OnceTTL

\* The call id of the yes a request holds.
HoldsOf(c) == IF c.pc \in Looking THEN c.yes.id ELSE NoAskId
YesOf(i) == {y \in yes : y.id = i}
HeldOf(i) == {q \in Callers : HoldsOf(dcall[q]) = i}
RanOf(i) == {x \in ran : x[1] = i}
Accounted(i) ==
    /\ IsFiniteSet(YesOf(i)) /\ IsFiniteSet(HeldOf(i)) /\ IsFiniteSet(RanOf(i))
    /\ IsFiniteSet(allowed[i])
    /\ Cardinality(YesOf(i)) + Cardinality(HeldOf(i)) + Cardinality(RanOf(i)) <= Cardinality(allowed[i])

DoorInv ==
    /\ DoorShape /\ SettledOnce /\ YesOK /\ AllowedOK /\ RanOK
    /\ \A q \in Callers : CallKnows(dcall[q])
    /\ \A i \in AskIds : Accounted(i)

LEMMA DoorFacts == MaxAsk \in Nat /\ OnceTTL \in Nat /\ NoAskId \notin AskIds /\ AskIds \subseteq Nat
BY McpDoorAssumption DEF NoAskId, AskIds

LEMMA Fewer ==
    ASSUME NEW S, IsFiniteSet(S), NEW T, T \subseteq S
    PROVE  IsFiniteSet(T) /\ Cardinality(T) \in Nat /\ Cardinality(S) \in Nat
           /\ Cardinality(T) <= Cardinality(S)
BY FS_Subset, FS_CardinalityType

LEMMA OneMore ==
    ASSUME NEW S, IsFiniteSet(S), NEW x, NEW T, T \subseteq S \cup {x}
    PROVE  IsFiniteSet(T) /\ Cardinality(T) \in Nat /\ Cardinality(S) \in Nat
           /\ Cardinality(T) <= Cardinality(S) + 1
<1>1. Cardinality(S) \in Nat
  BY FS_CardinalityType
<1>2. /\ IsFiniteSet(S \cup {x})
      /\ Cardinality(S \cup {x}) = IF x \in S THEN Cardinality(S) ELSE Cardinality(S) + 1
  BY FS_AddElement
<1>3. /\ IsFiniteSet(T) /\ Cardinality(T) \in Nat
      /\ Cardinality(T) <= Cardinality(S \cup {x})
  BY <1>2, Fewer
<1> QED
  BY <1>1, <1>2, <1>3

LEMMA OneLess ==
    ASSUME NEW S, IsFiniteSet(S), NEW x \in S, NEW T, T \subseteq S \ {x}
    PROVE  IsFiniteSet(T) /\ Cardinality(T) \in Nat /\ Cardinality(S) \in Nat
           /\ Cardinality(T) + 1 <= Cardinality(S)
<1>1. IsFiniteSet(S \ {x}) /\ Cardinality(S \ {x}) = Cardinality(S) - 1
  BY FS_RemoveElement
<1> QED
  BY <1>1, Fewer, FS_CardinalityType

LEMMA DoorInvIsEnough == DoorInv => YesAllowsOnce
<1> SUFFICES ASSUME DoorInv PROVE YesAllowsOnce
  OBVIOUS
<1>1. ASSUME NEW i \in AskIds
      PROVE  Cardinality({x \in ran : x[1] = i}) <= Cardinality(allowed[i])
  <2>1. Accounted(i)
    BY DEF DoorInv
  <2> QED
    BY <2>1, FS_CardinalityType DEF Accounted, RanOf
<1> QED
  BY <1>1 DEF DoorInv, RanOK, AllowedOK, YesAllowsOnce

\* No yes comes into being: none is recorded, spent or given back.
LEMMA CountKept ==
    ASSUME DoorInv, yes' \subseteq yes, ran' = ran, allowed' = allowed,
           \A q \in Callers : HoldsOf(dcall'[q]) \in {HoldsOf(dcall[q]), NoAskId}
    PROVE  \A i \in AskIds : Accounted(i)'
<1> SUFFICES ASSUME NEW i \in AskIds PROVE Accounted(i)'
  OBVIOUS
<1>1. Accounted(i)
  BY DEF DoorInv
<1>2. HeldOf(i)' = {q \in Callers : HoldsOf(dcall'[q]) = i}
  BY DEF HeldOf, HoldsOf
<1>3. HeldOf(i)' \subseteq HeldOf(i)
  BY <1>2, DoorFacts DEF HeldOf
<1>4. YesOf(i)' \subseteq YesOf(i) /\ RanOf(i)' = RanOf(i) /\ allowed'[i] = allowed[i]
  BY DEF YesOf, RanOf
<1>5. /\ IsFiniteSet(HeldOf(i)') /\ IsFiniteSet(YesOf(i)')
      /\ Cardinality(HeldOf(i)') <= Cardinality(HeldOf(i))
      /\ Cardinality(YesOf(i)') <= Cardinality(YesOf(i))
  BY <1>1, <1>3, <1>4, Fewer DEF Accounted
<1>6. /\ Cardinality(HeldOf(i)') \in Nat /\ Cardinality(YesOf(i)') \in Nat
      /\ Cardinality(HeldOf(i)) \in Nat /\ Cardinality(YesOf(i)) \in Nat
      /\ Cardinality(RanOf(i)) \in Nat /\ Cardinality(allowed[i]) \in Nat
  BY <1>1, <1>5, FS_CardinalityType DEF Accounted
<1> QED
  BY <1>1, <1>4, <1>5, <1>6 DEF Accounted

\* One request moves; asks only go on; a yes is recorded only by the request that remembers it.
CallMoves(q, c) ==
    /\ dclock' = dclock
    /\ dcall' = [dcall EXCEPT ![q] = c]
    /\ c \in CallRecs
    /\ c.pc \in Settling =>
          \/ dcall[q].pc \in Settling /\ dcall[q].run = c.run
          \/ ask[c.run].st = "waiting"
    /\ ask' \in [AskIds -> AskRecs]
    /\ allowed' \in [AskIds -> SUBSET (AskIds \X Nat)]
    /\ \A a \in AskIds :
          /\ ask'[a].st # "none" => ask'[a].id \in AskIds
          /\ ask[a].st # "none" => ask'[a].st # "none"
          /\ ask[a].st \notin {"none", "waiting"} => ask'[a].st \notin {"none", "waiting"}
          /\ ask[a].st = "running" =>
                ask'[a].st = "running" \/ (dcall[q].pc = "finish" /\ dcall[q].run = a)
    /\ \A i \in AskIds : /\ allowed[i] \subseteq allowed'[i]
                         /\ \A g \in allowed'[i] \ allowed[i] :
                               dcall[q].pc = "remember" /\ g[1] = dcall[q].run

LEMMA CallsKnow ==
    ASSUME DoorInv, NEW q \in Callers, NEW c, CallMoves(q, c), CallKnows(c)'
    PROVE  /\ dcall' \in [Callers -> CallRecs]
           /\ \A p \in Callers : dcall'[p] = IF p = q THEN c ELSE dcall[p]
           /\ \A p \in Callers : CallKnows(dcall[p])'
           /\ SettledOnce'
<1>1. dcall' = [dcall EXCEPT ![q] = c] /\ c \in CallRecs /\ dcall \in [Callers -> CallRecs]
  BY DEF CallMoves, DoorInv, DoorShape
<1>2. dcall' \in [Callers -> CallRecs] /\ \A p \in Callers : dcall'[p] = IF p = q THEN c ELSE dcall[p]
  BY <1>1
<1>3. \A r \in CallRecs : r.pc \in Settling \cup {"card", "settle"} => r.run \in AskIds
  BY DEF CallRecs, CallIdle, LookRecs, CardRecs, ReadRecs, SettleRecs, Settling, Looking
<1>4. ASSUME NEW p \in Callers, p # q PROVE CallKnows(dcall[p])'
  <2>1. PICK o \in CallRecs : o = dcall[p]
    BY <1>1
  <2>2. CallKnows(o) /\ dcall'[p] = o
    BY <1>2, <1>4, <2>1 DEF DoorInv
  <2>3. o.pc \in Looking /\ o.yes # NoYes =>
          Given(o.yes)' /\ o.yes.at <= o.at /\ o.at < o.yes.at + OnceTTL /\ o.at <= dclock'
    <3> SUFFICES ASSUME o.pc \in Looking, o.yes # NoYes
                 PROVE  Given(o.yes)' /\ o.yes.at <= o.at /\ o.at < o.yes.at + OnceTTL /\ o.at <= dclock'
      OBVIOUS
    <3>1. o.yes.id \in AskIds
      BY DEF CallRecs, CallIdle, LookRecs, CardRecs, ReadRecs, SettleRecs, Settling, Looking, YesRecs
    <3>2. Given(o.yes)'
      BY <2>2, <3>1 DEF CallKnows, Given, CallMoves
    <3> QED
      BY <2>2, <3>2 DEF CallKnows, CallMoves
  <2>4. o.pc \in {"card", "settle"} => ask'[o.run].st # "none"
    BY <1>3, <2>2 DEF CallKnows, CallMoves
  <2>5. o.pc \in Settling /\ dcall[q].pc \in Settling => o.run # dcall[q].run
    BY <1>4, <2>1 DEF DoorInv, SettledOnce
  <2>6. o.pc \in Settling => ask'[o.run].st = "running"
    BY <1>3, <2>2, <2>5 DEF CallKnows, CallMoves, Settling
  <2>7. o.pc \in {"status", "remember"} => \A i \in AskIds : \A g \in allowed'[i] : g[1] # o.run
    BY <2>2, <2>5 DEF CallKnows, CallMoves, Settling
  <2>8. CallKnows(o)'
    BY <2>3, <2>4, <2>6, <2>7 DEF CallKnows
  <2> QED
    BY <2>2, <2>8 DEF CallKnows, Given
<1>5. CallKnows(dcall[q])'
  BY <1>2 DEF CallKnows, Given
<1>6. SettledOnce'
  <2> SUFFICES ASSUME NEW p \in Callers, NEW s \in Callers, p # s,
                      dcall'[p].pc \in Settling, dcall'[s].pc \in Settling
               PROVE  dcall'[p].run # dcall'[s].run
    BY DEF SettledOnce
  <2>1. ASSUME NEW t \in Callers, t # q, dcall[t].pc \in Settling, c.pc \in Settling
        PROVE  dcall[t].run # c.run
    <3>1. ask[dcall[t].run].st = "running"
      BY <2>1 DEF DoorInv, CallKnows
    <3>2. CASE dcall[q].pc \in Settling /\ dcall[q].run = c.run
      BY <2>1, <3>2 DEF DoorInv, SettledOnce
    <3>3. CASE ask[c.run].st = "waiting"
      BY <3>1, <3>3
    <3> QED
      BY <2>1, <3>2, <3>3 DEF CallMoves
  <2>2. CASE p = q
    BY <1>2, <2>1, <2>2
  <2>3. CASE s = q
    BY <1>2, <2>1, <2>3
  <2>4. CASE p # q /\ s # q
    BY <1>2, <2>4 DEF DoorInv, SettledOnce
  <2> QED
    BY <2>2, <2>3, <2>4
<1> QED
  BY <1>2, <1>4, <1>5, <1>6

\* A move that neither records, keeps nor spends a yes, nor lets one be taken.
LEMMA QuietMove ==
    ASSUME DoorInv, NEW q \in Callers, NEW c, CallMoves(q, c), CallKnows(c)',
           yes' = yes, ran' = ran, allowed' = allowed,
           HoldsOf(c) \in {HoldsOf(dcall[q]), NoAskId}
    PROVE  DoorInv'
<1>1. /\ dcall' \in [Callers -> CallRecs]
      /\ \A p \in Callers : dcall'[p] = IF p = q THEN c ELSE dcall[p]
      /\ \A p \in Callers : CallKnows(dcall[p])'
      /\ SettledOnce'
  BY CallsKnow
<1>2. DoorShape'
  BY <1>1 DEF DoorInv, DoorShape, CallMoves
<1>3. \A p \in Callers : HoldsOf(dcall'[p]) \in {HoldsOf(dcall[p]), NoAskId}
  BY <1>1
<1>4. \A i \in AskIds : Accounted(i)'
  BY <1>3, CountKept
<1>5. YesOK' /\ RanOK'
  BY DEF DoorInv, YesOK, RanOK, Given, CallMoves
<1>6. \A i \in AskIds : \A g \in allowed[i] : g[1] \in AskIds
  BY DEF DoorInv, DoorShape
<1>7. AllowedOK'
  BY <1>6 DEF DoorInv, AllowedOK, CallMoves
<1> QED
  BY <1>1, <1>2, <1>4, <1>5, <1>7 DEF DoorInv

LEMMA IdleKnows == CallIdle \in CallRecs /\ HoldsOf(CallIdle) = NoAskId /\ CallKnows(CallIdle)'
                   /\ CallIdle.pc \notin Settling
BY DEF CallRecs, CallIdle, HoldsOf, CallKnows, Looking, Settling

\* The records of a request by where it stands.
LEMMA LookingIs ==
    ASSUME NEW o \in CallRecs, o.pc \in Looking
    PROVE  o \in LookRecs /\ o.pc \notin Settling \cup {"card", "settle"}
BY DEF CallRecs, CallIdle, LookRecs, CardRecs, ReadRecs, SettleRecs, Settling, Looking

LEMMA SettlingIs ==
    ASSUME NEW o \in CallRecs, o.pc \in Settling
    PROVE  o \in SettleRecs /\ o.pc \notin Looking \cup {"card", "settle"} /\ o.run \in AskIds
BY DEF CallRecs, CallIdle, LookRecs, CardRecs, ReadRecs, SettleRecs, Settling, Looking

LEMMA HasAsk ==
    ASSUME NEW o \in CallRecs, o.pc \in {"card", "settle"}
    PROVE  o \in CardRecs \cup ReadRecs /\ o.run \in AskIds /\ o.pc \notin Looking \cup Settling
BY DEF CallRecs, CallIdle, LookRecs, CardRecs, ReadRecs, SettleRecs, Settling, Looking

\* A request that goes on to another place with what it has.
LEMMA GoesOn ==
    ASSUME NEW o \in LookRecs \cup SettleRecs, NEW pc, NEW c, c = [o EXCEPT !.pc = pc],
           \/ o \in LookRecs /\ pc \in Looking
           \/ o \in SettleRecs /\ pc \in Settling
    PROVE  /\ c \in CallRecs /\ c.pc = pc
           /\ o \in LookRecs => c \in LookRecs /\ c.yes = o.yes /\ c.at = o.at
           /\ o \in SettleRecs => c \in SettleRecs /\ c.run = o.run
<1>1. CASE o \in LookRecs /\ pc \in Looking
  <2>1. c = [pc |-> pc, rep |-> o.rep, yes |-> o.yes, at |-> o.at]
    BY <1>1 DEF LookRecs
  <2>2. c \in LookRecs /\ c.pc = pc /\ c.yes = o.yes /\ c.at = o.at
    BY <1>1, <2>1 DEF LookRecs
  <2>3. o \notin SettleRecs
    BY <1>1 DEF LookRecs, SettleRecs, Looking, Settling
  <2> QED
    BY <2>2, <2>3 DEF CallRecs
<1>2. CASE o \in SettleRecs /\ pc \in Settling
  <2>1. c = [pc |-> pc, run |-> o.run, ok |-> o.ok, rep |-> o.rep]
    BY <1>2 DEF SettleRecs
  <2>2. c \in SettleRecs /\ c.pc = pc /\ c.run = o.run
    BY <1>2, <2>1 DEF SettleRecs
  <2>3. o \notin LookRecs
    BY <1>2 DEF LookRecs, SettleRecs, Looking, Settling
  <2> QED
    BY <2>2, <2>3 DEF CallRecs
<1> QED
  BY <1>1, <1>2

\* The asks stand as they stood, and no yes is recorded.
LEMMA StillMove ==
    ASSUME DoorInv, NEW q \in Callers, NEW c \in CallRecs, dcall' = [dcall EXCEPT ![q] = c],
           UNCHANGED <<dclock, ask, allowed>>,
           c.pc \in Settling => \/ dcall[q].pc \in Settling /\ dcall[q].run = c.run
                                \/ ask[c.run].st = "waiting"
    PROVE  CallMoves(q, c)
BY DEF CallMoves, DoorInv, DoorShape

LEMMA LostStep ==
    ASSUME DoorInv, NEW q \in Callers, CallLost(q)
    PROVE  DoorInv'
<1>1. dcall' = [dcall EXCEPT ![q] = CallIdle] /\ UNCHANGED <<dclock, ask, allowed, yes, ran>>
  BY DEF CallLost, Unlock
<1>2. CallMoves(q, CallIdle)
  BY <1>1, IdleKnows, StillMove
<1> QED
  BY <1>1, <1>2, IdleKnows, QuietMove

LEMMA LooksWithout ==
    ASSUME DoorInv, NEW q \in Callers, NEW r \in DoorReplicas,
           dcall' = [dcall EXCEPT ![q] = [pc |-> "look", rep |-> r, yes |-> NoYes, at |-> dclock]],
           UNCHANGED <<dclock, ask, allowed, yes, ran>>
    PROVE  DoorInv'
<1>1. PICK c : c = [pc |-> "look", rep |-> r, yes |-> NoYes, at |-> dclock]
  OBVIOUS
<1>2. c \in LookRecs /\ c.pc = "look" /\ c.yes = NoYes
  BY <1>1 DEF LookRecs, Looking, DoorInv, DoorShape
<1>3. c \in CallRecs /\ c.pc \notin Settling /\ HoldsOf(c) = NoAskId
  BY <1>2 DEF CallRecs, Settling, HoldsOf, NoYes
<1>4. CallMoves(q, c)
  BY <1>1, <1>3, StillMove
<1>5. CallKnows(c)'
  BY <1>2 DEF CallKnows, Looking, Settling
<1> QED
  BY <1>3, <1>4, <1>5, QuietMove

LEMMA AskLookedStep ==
    ASSUME DoorInv, NEW q \in Callers, AskLooked(q)
    PROVE  DoorInv'
<1>1. PICK o \in CallRecs : o = dcall[q]
  BY DEF DoorInv, DoorShape
<1>2. o.pc \in Looking /\ o \in LookRecs /\ o.pc \notin Settling
  BY <1>1, LookingIs DEF AskLooked, CallAt, Looking
<1>3. UNCHANGED <<dclock, allowed, yes, ran>>
  BY DEF AskLooked
<1>4. CASE Carded # {}
  <2>1. dcall' = [dcall EXCEPT ![q] = CallIdle] /\ ask' = ask
    BY <1>4 DEF AskLooked, Unlock
  <2>2. CallMoves(q, CallIdle)
    BY <1>3, <2>1, IdleKnows, StillMove
  <2> QED
    BY <1>3, <2>2, IdleKnows, QuietMove
<1>5. CASE Carded = {}
  <2>1. PICK pc \in {"run", "persist"} : dcall' = [dcall EXCEPT ![q] = [dcall[q] EXCEPT !.pc = pc]]
    BY <1>5 DEF AskLooked, CallTo
  <2>2. PICK c : c = [o EXCEPT !.pc = pc]
    OBVIOUS
  <2>3. c \in LookRecs /\ c \in CallRecs /\ c.pc = pc /\ c.yes = o.yes /\ c.at = o.at
    BY <1>2, <2>2, GoesOn DEF Looking
  <2>4. dcall' = [dcall EXCEPT ![q] = c]
    BY <1>1, <2>1, <2>2
  <2>5. ask' = Unstuck
    BY <1>5 DEF AskLooked
  <2>6. \A a \in AskIds : \/ ask'[a] = ask[a]
                          \/ ask[a].st = "waiting" /\ ask'[a] = [ask[a] EXCEPT !.st = "failed"]
    BY <2>5 DEF Unstuck, Waiting
  <2>7. ASSUME NEW a \in AskIds
        PROVE  /\ ask'[a] \in AskRecs /\ ask'[a].id = ask[a].id
               /\ ask'[a].st = ask[a].st \/ (ask[a].st = "waiting" /\ ask'[a].st = "failed")
    <3>1. PICK k \in AskRecs : k = ask[a]
      BY DEF DoorInv, DoorShape
    <3>2. CASE ask'[a] = k
      BY <3>1, <3>2
    <3>3. CASE k.st = "waiting" /\ ask'[a] = [k EXCEPT !.st = "failed"]
      <4>1. ask'[a] = [st |-> "failed", id |-> k.id, gate |-> k.gate]
        BY <3>3 DEF AskRecs
      <4>2. ask'[a] \in AskRecs /\ ask'[a].id = k.id /\ ask'[a].st = "failed"
        BY <4>1 DEF AskRecs
      <4> QED
        BY <3>1, <3>3, <4>2
    <3> QED
      BY <2>6, <3>1, <3>2, <3>3
  <2>8. ask' \in [AskIds -> AskRecs]
    BY <2>5, <2>7 DEF Unstuck
  <2>9. CallMoves(q, c)
    BY <1>3, <2>3, <2>4, <2>7, <2>8 DEF CallMoves, Settling, DoorInv, DoorShape
  <2>10. CallKnows(o)
    BY <1>1 DEF DoorInv
  <2>11. CallKnows(c)'
    BY <1>2, <1>3, <2>3, <2>10 DEF CallKnows, Given, Looking, Settling
  <2>12. HoldsOf(c) = HoldsOf(dcall[q])
    BY <1>1, <1>2, <2>3 DEF HoldsOf, Looking
  <2> QED
    BY <1>3, <2>9, <2>11, <2>12, QuietMove
<1> QED
  BY <1>4, <1>5

LEMMA AskPersistedStep ==
    ASSUME DoorInv, NEW q \in Callers, AskPersisted(q)
    PROVE  DoorInv'
<1>1. PICK o \in CallRecs : o = dcall[q]
  BY DEF DoorInv, DoorShape
<1>2. o.pc = "persist" /\ o \in LookRecs /\ o.pc \notin Settling
  BY <1>1, LookingIs DEF AskPersisted, CallAt, Looking
<1>3. UNCHANGED <<dclock, allowed, yes, ran>>
  BY DEF AskPersisted
<1>4. PICK a \in AskIds, gate \in BOOLEAN :
         /\ Fresh(a)
         /\ LET id == IF dcall[q].yes = NoYes THEN a ELSE dcall[q].yes.id IN
               ask' = [ask EXCEPT ![a] = [st |-> "waiting", id |-> id, gate |-> gate]]
         /\ dcall' = [dcall EXCEPT ![q] = [pc |-> "card", rep |-> dcall[q].rep, run |-> a]]
  BY DEF AskPersisted
<1>5. PICK id : id = IF dcall[q].yes = NoYes THEN a ELSE dcall[q].yes.id
  OBVIOUS
<1>6. id \in AskIds
  BY <1>1, <1>2, <1>5 DEF LookRecs, YesRecs
<1>7. PICK new : new = [st |-> "waiting", id |-> id, gate |-> gate]
  OBVIOUS
<1>8. new \in AskRecs /\ new.id \in AskIds /\ new.st = "waiting"
  BY <1>6, <1>7, DoorFacts DEF AskRecs
<1>9. ask' = [ask EXCEPT ![a] = new]
  BY <1>4, <1>5, <1>7
<1>10. PICK c : c = [pc |-> "card", rep |-> o.rep, run |-> a]
  OBVIOUS
<1>11. c \in CallRecs /\ c.pc = "card" /\ c.run = a
  BY <1>2, <1>10 DEF CallRecs, CardRecs, LookRecs
<1>12. dcall' = [dcall EXCEPT ![q] = c]
  BY <1>1, <1>4, <1>10
<1>13. ask[a].st = "none"
  BY <1>4, DoorFacts DEF Fresh, AskIds
<1>14. /\ ask' \in [AskIds -> AskRecs]
       /\ \A b \in AskIds : ask'[b] = IF b = a THEN new ELSE ask[b]
  BY <1>8, <1>9 DEF DoorInv, DoorShape
<1>15. CallMoves(q, c)
  BY <1>3, <1>8, <1>11, <1>12, <1>13, <1>14 DEF CallMoves, Settling, DoorInv, DoorShape
<1>16. CallKnows(c)'
  BY <1>8, <1>11, <1>14 DEF CallKnows, Looking, Settling
<1>17. HoldsOf(c) = NoAskId
  BY <1>11 DEF HoldsOf, Looking
<1> QED
  BY <1>3, <1>15, <1>16, <1>17, QuietMove

\* An ask whose record changes its standing only.
LEMMA AskTurns ==
    ASSUME DoorInv, NEW a \in AskIds, NEW st \in {"running", "failed", "finished"},
           ask' = [ask EXCEPT ![a].st = st], ask[a].st # "none"
    PROVE  /\ ask' \in [AskIds -> AskRecs]
           /\ \A b \in AskIds : ask'[b].id = ask[b].id /\ ask'[b].st = IF b = a THEN st ELSE ask[b].st
           /\ \A b \in AskIds : ask'[b].st # "none" => ask'[b].id \in AskIds
<1>1. PICK k \in AskRecs : k = ask[a]
  BY DEF DoorInv, DoorShape
<1>2. PICK new : new = [k EXCEPT !.st = st]
  OBVIOUS
<1>3. new = [st |-> st, id |-> k.id, gate |-> k.gate]
  BY <1>2 DEF AskRecs
<1>4. new \in AskRecs /\ new.st = st /\ new.id = k.id
  BY <1>3 DEF AskRecs
<1>5. ask' = [ask EXCEPT ![a] = new]
  BY <1>1, <1>2, Zenon
<1>6. ask' \in [AskIds -> AskRecs] /\ \A b \in AskIds : ask'[b] = IF b = a THEN new ELSE ask[b]
  BY <1>4, <1>5 DEF DoorInv, DoorShape
<1>7. k.id \in AskIds
  BY <1>1 DEF DoorInv, DoorShape
<1> QED
  BY <1>1, <1>4, <1>6, <1>7 DEF DoorInv, DoorShape

LEMMA CardRaisedStep ==
    ASSUME DoorInv, NEW q \in Callers, CardRaised(q)
    PROVE  DoorInv'
<1>1. PICK o \in CallRecs : o = dcall[q]
  BY DEF DoorInv, DoorShape
<1>2. o.pc = "card" /\ o.run \in AskIds
  BY <1>1, HasAsk DEF CardRaised, CallAt
<1>3. UNCHANGED <<dclock, allowed, yes, ran>> /\ dcall' = [dcall EXCEPT ![q] = CallIdle]
  BY DEF CardRaised, Unlock
<1>4. PICK a \in AskIds : a = dcall[q].run
  BY <1>1, <1>2
<1>5. ask[a].st # "none"
  BY <1>1, <1>2, <1>4 DEF DoorInv, CallKnows
<1>6. ask' = ask \/ (ask[a].st = "waiting" /\ ask' = [ask EXCEPT ![a].st = "failed"])
  <2>1. CASE ask[a].st = "waiting"
    BY <1>4, <2>1 DEF CardRaised
  <2>2. CASE ask[a].st # "waiting"
    <3>1. ask' = ask \/ ask' = [ask EXCEPT ![a].st = ask[a].st]
      BY <1>4, <2>2 DEF CardRaised
    <3>2. PICK k \in AskRecs : k = ask[a]
      BY DEF DoorInv, DoorShape
    <3>3. [k EXCEPT !.st = k.st] = k
      BY DEF AskRecs
    <3>4. ask' = ask \/ ask' = [ask EXCEPT ![a] = k]
      BY <3>1, <3>2, <3>3
    <3> QED
      BY <3>2, <3>4 DEF DoorInv, DoorShape
  <2> QED
    BY <2>1, <2>2
<1>7. CASE ask' = ask
  BY <1>3, <1>7, IdleKnows, StillMove, QuietMove
<1>8. CASE ask[a].st = "waiting" /\ ask' = [ask EXCEPT ![a].st = "failed"]
  <2>1. /\ ask' \in [AskIds -> AskRecs]
        /\ \A b \in AskIds : /\ ask'[b].id = ask[b].id
                             /\ ask'[b].st = IF b = a THEN "failed" ELSE ask[b].st
        /\ \A b \in AskIds : ask'[b].st # "none" => ask'[b].id \in AskIds
    BY <1>5, <1>8, AskTurns
  <2>2. CallMoves(q, CallIdle)
    BY <1>3, <1>8, <2>1, IdleKnows DEF CallMoves, DoorInv, DoorShape
  <2> QED
    BY <1>3, <2>2, IdleKnows, QuietMove
<1> QED
  BY <1>6, <1>7, <1>8

LEMMA AnswerReadStep ==
    ASSUME DoorInv, NEW q \in Callers, NEW a \in AskIds, NEW ok \in BOOLEAN, AnswerRead(q, a, ok)
    PROVE  DoorInv'
<1>1. UNCHANGED <<dclock, ask, allowed, yes, ran>>
  BY DEF AnswerRead
<1>2. PICK c : c = [pc |-> "settle", run |-> a, ok |-> ok]
  OBVIOUS
<1>3. dcall' = [dcall EXCEPT ![q] = c] /\ ask[a].st = "waiting"
  BY <1>2 DEF AnswerRead
<1>4. c \in CallRecs /\ c.pc = "settle" /\ c.run = a
  BY <1>2 DEF CallRecs, ReadRecs
<1>5. CallMoves(q, c)
  BY <1>1, <1>3, <1>4, StillMove DEF Settling
<1>6. CallKnows(c)' /\ HoldsOf(c) = NoAskId
  BY <1>1, <1>3, <1>4 DEF CallKnows, HoldsOf, Looking, Settling
<1> QED
  BY <1>1, <1>5, <1>6, QuietMove

\* Only the answer that finds the ask waiting lands.
LEMMA AnswerSettledStep ==
    ASSUME DoorInv, NEW q \in Callers, NEW r \in DoorReplicas, AnswerSettled(q, r)
    PROVE  DoorInv'
<1>1. PICK o \in CallRecs : o = dcall[q]
  BY DEF DoorInv, DoorShape
<1>2. o.pc = "settle" /\ o.run \in AskIds
  BY <1>1, HasAsk DEF AnswerSettled, CallAt
<1>3. o \in ReadRecs
  BY <1>2 DEF CallRecs, CallIdle, LookRecs, CardRecs, SettleRecs, Looking, Settling
<1>4. UNCHANGED <<dclock, allowed, yes, ran>>
  BY DEF AnswerSettled
<1>5. PICK a \in AskIds : a = dcall[q].run
  BY <1>1, <1>2
<1>6. CASE ask[a].st # "waiting"
  <2>1. dcall' = [dcall EXCEPT ![q] = CallIdle] /\ ask' = ask
    BY <1>5, <1>6 DEF AnswerSettled, AnswerLands
  <2> QED
    BY <1>4, <2>1, IdleKnows, StillMove, QuietMove
<1>7. CASE ask[a].st = "waiting"
  <2>1. /\ ask' = [ask EXCEPT ![a].st = "running"]
        /\ dcall' = [dcall EXCEPT ![q] = [pc |-> "status", run |-> a, ok |-> dcall[q].ok, rep |-> r]]
    BY <1>5, <1>7 DEF AnswerSettled, AnswerLands
  <2>2. PICK c : c = [pc |-> "status", run |-> a, ok |-> o.ok, rep |-> r]
    OBVIOUS
  <2>3. dcall' = [dcall EXCEPT ![q] = c]
    BY <1>1, <2>1, <2>2
  <2>4. c \in CallRecs /\ c.pc = "status" /\ c.run = a
    BY <1>3, <2>2 DEF CallRecs, SettleRecs, Settling, ReadRecs
  <2>5. /\ ask' \in [AskIds -> AskRecs]
        /\ \A b \in AskIds : /\ ask'[b].id = ask[b].id
                             /\ ask'[b].st = IF b = a THEN "running" ELSE ask[b].st
        /\ \A b \in AskIds : ask'[b].st # "none" => ask'[b].id \in AskIds
    BY <1>7, <2>1, AskTurns
  <2>6. CallMoves(q, c)
    BY <1>4, <1>7, <2>3, <2>4, <2>5 DEF CallMoves, DoorInv, DoorShape
  <2>7. \A i \in AskIds : \A g \in allowed'[i] : g[1] # a
    BY <1>4, <1>7 DEF DoorInv, AllowedOK
  <2>8. CallKnows(c)' /\ HoldsOf(c) = NoAskId
    BY <2>4, <2>5, <2>7 DEF CallKnows, HoldsOf, Looking, Settling
  <2> QED
    BY <1>4, <2>6, <2>8, QuietMove
<1> QED
  BY <1>6, <1>7

LEMMA CardAnsweredStep ==
    ASSUME DoorInv, NEW q \in Callers, CardAnswered(q)
    PROVE  DoorInv'
<1>1. PICK o \in CallRecs : o = dcall[q]
  BY DEF DoorInv, DoorShape
<1>2. o.pc = "status" /\ o \in SettleRecs /\ o.pc \in Settling
  BY <1>1, SettlingIs DEF CardAnswered, CallAt, Settling
<1>3. UNCHANGED <<dclock, ask, allowed, yes, ran>>
  BY DEF CardAnswered
<1>4. PICK pc \in {"remember", "finish"} : dcall' = [dcall EXCEPT ![q] = [dcall[q] EXCEPT !.pc = pc]]
  BY DEF CardAnswered, CallTo
<1>5. PICK c : c = [o EXCEPT !.pc = pc]
  OBVIOUS
<1>6. c \in CallRecs /\ c.pc = pc /\ c.run = o.run /\ dcall' = [dcall EXCEPT ![q] = c]
  BY <1>1, <1>2, <1>4, <1>5, GoesOn DEF Settling
<1>7. CallMoves(q, c)
  BY <1>1, <1>2, <1>3, <1>6, StillMove
<1>8. CallKnows(o)
  BY <1>1 DEF DoorInv
<1>9. CallKnows(c)' /\ HoldsOf(c) = NoAskId
  BY <1>2, <1>3, <1>6, <1>8 DEF CallKnows, HoldsOf, Looking, Settling
<1> QED
  BY <1>3, <1>7, <1>9, QuietMove

LEMMA AskFinishedStep ==
    ASSUME DoorInv, NEW q \in Callers, AskFinished(q)
    PROVE  DoorInv'
<1>1. PICK o \in CallRecs : o = dcall[q]
  BY DEF DoorInv, DoorShape
<1>2. o.pc = "finish" /\ o.run \in AskIds
  BY <1>1, SettlingIs DEF AskFinished, CallAt, Settling
<1>3. UNCHANGED <<dclock, allowed, yes, ran>> /\ dcall' = [dcall EXCEPT ![q] = CallIdle]
  BY DEF AskFinished, Unlock
<1>4. PICK a \in AskIds : a = dcall[q].run
  BY <1>1, <1>2
<1>5. ask[a].st = "running"
  BY <1>1, <1>2, <1>4 DEF DoorInv, CallKnows, Settling
<1>6. ask' = [ask EXCEPT ![a].st = "finished"]
  BY <1>4, <1>5 DEF AskFinished
<1>7. /\ ask' \in [AskIds -> AskRecs]
      /\ \A b \in AskIds : /\ ask'[b].id = ask[b].id
                           /\ ask'[b].st = IF b = a THEN "finished" ELSE ask[b].st
      /\ \A b \in AskIds : ask'[b].st # "none" => ask'[b].id \in AskIds
  BY <1>5, <1>6, AskTurns
<1>8. CallMoves(q, CallIdle)
  BY <1>1, <1>2, <1>3, <1>4, <1>5, <1>7, IdleKnows DEF CallMoves, DoorInv, DoorShape
<1> QED
  BY <1>3, <1>8, IdleKnows, QuietMove

\* The three places of a yes, counted: one takes what another gives, or each keeps no more.
LEMMA CountSwaps ==
    ASSUME NEW S, NEW T, NEW U, IsFiniteSet(S), IsFiniteSet(T), IsFiniteSet(U),
           NEW S2, NEW T2, NEW U2, U2 \subseteq U,
           \/ S2 \subseteq S /\ T2 \subseteq T
           \/ \E x \in S : \E y : S2 \subseteq S \ {x} /\ T2 \subseteq T \cup {y}
    PROVE  /\ IsFiniteSet(S2) /\ IsFiniteSet(T2) /\ IsFiniteSet(U2)
           /\ Cardinality(S2) \in Nat /\ Cardinality(T2) \in Nat /\ Cardinality(U2) \in Nat
           /\ Cardinality(S) \in Nat /\ Cardinality(T) \in Nat /\ Cardinality(U) \in Nat
           /\ Cardinality(S2) + Cardinality(T2) + Cardinality(U2)
                 <= Cardinality(S) + Cardinality(T) + Cardinality(U)
<1>1. /\ IsFiniteSet(U2) /\ Cardinality(U2) \in Nat /\ Cardinality(U) \in Nat
      /\ Cardinality(U2) <= Cardinality(U)
  BY Fewer
<1>2. CASE S2 \subseteq S /\ T2 \subseteq T
  <2>1. /\ IsFiniteSet(S2) /\ Cardinality(S2) \in Nat /\ Cardinality(S) \in Nat
        /\ Cardinality(S2) <= Cardinality(S)
    BY <1>2, Fewer
  <2>2. /\ IsFiniteSet(T2) /\ Cardinality(T2) \in Nat /\ Cardinality(T) \in Nat
        /\ Cardinality(T2) <= Cardinality(T)
    BY <1>2, Fewer
  <2> QED
    BY <1>1, <2>1, <2>2
<1>3. CASE \E x \in S : \E y : S2 \subseteq S \ {x} /\ T2 \subseteq T \cup {y}
  <2>1. PICK x \in S : \E y : S2 \subseteq S \ {x} /\ T2 \subseteq T \cup {y}
    BY <1>3
  <2>2. PICK y : S2 \subseteq S \ {x} /\ T2 \subseteq T \cup {y}
    BY <2>1
  <2>3. /\ IsFiniteSet(S2) /\ Cardinality(S2) \in Nat /\ Cardinality(S) \in Nat
        /\ Cardinality(S2) + 1 <= Cardinality(S)
    BY <2>2, OneLess
  <2>4. /\ IsFiniteSet(T2) /\ Cardinality(T2) \in Nat /\ Cardinality(T) \in Nat
        /\ Cardinality(T2) <= Cardinality(T) + 1
    BY <2>2, OneMore
  <2> QED
    BY <1>1, <2>3, <2>4
<1> QED
  BY <1>2, <1>3

\* Of one call id: nothing moves, a yes is taken, one is given back, or one is spent.
YesMoves(i) ==
    \/ YesOf(i)' \subseteq YesOf(i) /\ HeldOf(i)' \subseteq HeldOf(i) /\ RanOf(i)' \subseteq RanOf(i)
    \/ /\ \E x \in YesOf(i) : \E y : /\ YesOf(i)' \subseteq YesOf(i) \ {x}
                                     /\ HeldOf(i)' \subseteq HeldOf(i) \cup {y}
       /\ RanOf(i)' \subseteq RanOf(i)
    \/ /\ \E x \in HeldOf(i) : \E y : /\ HeldOf(i)' \subseteq HeldOf(i) \ {x}
                                      /\ YesOf(i)' \subseteq YesOf(i) \cup {y}
       /\ RanOf(i)' \subseteq RanOf(i)
    \/ /\ \E x \in HeldOf(i) : \E y : /\ HeldOf(i)' \subseteq HeldOf(i) \ {x}
                                      /\ RanOf(i)' \subseteq RanOf(i) \cup {y}
       /\ YesOf(i)' \subseteq YesOf(i)

LEMMA StaysAccounted ==
    ASSUME NEW i \in AskIds, Accounted(i), YesMoves(i), allowed'[i] = allowed[i]
    PROVE  Accounted(i)'
<1>1. PICK Y, H, R : Y = YesOf(i) /\ H = HeldOf(i) /\ R = RanOf(i)
  OBVIOUS
<1>2. PICK Z, I, T : Z = YesOf(i)' /\ I = HeldOf(i)' /\ T = RanOf(i)'
  OBVIOUS
<1>3. PICK a : a = allowed[i]
  OBVIOUS
<1>4. /\ IsFiniteSet(Y) /\ IsFiniteSet(H) /\ IsFiniteSet(R) /\ IsFiniteSet(a) /\ Cardinality(a) \in Nat
      /\ Cardinality(Y) + Cardinality(H) + Cardinality(R) <= Cardinality(a)
  BY <1>1, <1>3, FS_CardinalityType DEF Accounted
<1>5. /\ IsFiniteSet(Z) /\ IsFiniteSet(I) /\ IsFiniteSet(T)
      /\ Cardinality(Z) \in Nat /\ Cardinality(I) \in Nat /\ Cardinality(T) \in Nat
      /\ Cardinality(Y) \in Nat /\ Cardinality(H) \in Nat /\ Cardinality(R) \in Nat
      /\ Cardinality(Z) + Cardinality(I) + Cardinality(T)
            <= Cardinality(Y) + Cardinality(H) + Cardinality(R)
  <2>1. CASE Z \subseteq Y /\ I \subseteq H /\ T \subseteq R
    BY <1>4, <2>1, CountSwaps
  <2>2. CASE /\ \E x \in Y : \E y : Z \subseteq Y \ {x} /\ I \subseteq H \cup {y}
             /\ T \subseteq R
    BY <1>4, <2>2, CountSwaps
  <2>3. CASE /\ \E x \in H : \E y : I \subseteq H \ {x} /\ Z \subseteq Y \cup {y}
             /\ T \subseteq R
    <3>1. /\ IsFiniteSet(I) /\ IsFiniteSet(Z) /\ IsFiniteSet(T)
          /\ Cardinality(I) \in Nat /\ Cardinality(Z) \in Nat /\ Cardinality(T) \in Nat
          /\ Cardinality(H) \in Nat /\ Cardinality(Y) \in Nat /\ Cardinality(R) \in Nat
          /\ Cardinality(I) + Cardinality(Z) + Cardinality(T)
                <= Cardinality(H) + Cardinality(Y) + Cardinality(R)
      BY <1>4, <2>3, CountSwaps
    <3> QED
      BY <3>1
  <2>4. CASE /\ \E x \in H : \E y : I \subseteq H \ {x} /\ T \subseteq R \cup {y}
             /\ Z \subseteq Y
    <3>1. /\ IsFiniteSet(I) /\ IsFiniteSet(T) /\ IsFiniteSet(Z)
          /\ Cardinality(I) \in Nat /\ Cardinality(T) \in Nat /\ Cardinality(Z) \in Nat
          /\ Cardinality(H) \in Nat /\ Cardinality(R) \in Nat /\ Cardinality(Y) \in Nat
          /\ Cardinality(I) + Cardinality(T) + Cardinality(Z)
                <= Cardinality(H) + Cardinality(R) + Cardinality(Y)
      BY <1>4, <2>4, CountSwaps
    <3> QED
      BY <3>1
  <2> QED
    BY <1>1, <1>2, <2>1, <2>2, <2>3, <2>4 DEF YesMoves
<1>6. IsFiniteSet(a) /\ Cardinality(Z) + Cardinality(I) + Cardinality(T) <= Cardinality(a)
  BY <1>4, <1>5
<1>7. allowed'[i] = a
  BY <1>3
<1> QED
  BY <1>2, <1>5, <1>6, <1>7 DEF Accounted

\* A request goes on without an ask moving, and a yes goes from place to place with it.
LEMMA YesCarried ==
    ASSUME DoorInv, NEW q \in Callers, NEW c \in CallRecs, CallKnows(c)', c.pc \notin Settling,
           dcall' = [dcall EXCEPT ![q] = c], UNCHANGED <<dclock, ask, allowed>>,
           yes' \subseteq YesRecs, YesOK', RanOK', \A i \in AskIds : YesMoves(i)
    PROVE  DoorInv'
<1>1. CallMoves(q, c)
  BY StillMove
<1>2. /\ dcall' \in [Callers -> CallRecs]
      /\ \A p \in Callers : dcall'[p] = IF p = q THEN c ELSE dcall[p]
      /\ \A p \in Callers : CallKnows(dcall[p])'
      /\ SettledOnce'
  BY <1>1, CallsKnow
<1>3. ASSUME NEW i \in AskIds PROVE Accounted(i)'
  BY StaysAccounted DEF DoorInv
<1>4. DoorShape'
  BY <1>2 DEF DoorInv, DoorShape
<1>5. AllowedOK'
  BY DEF DoorInv, AllowedOK
<1> QED
  BY <1>2, <1>3, <1>4, <1>5 DEF DoorInv

\* A yes goes from the table into one request's hands.
LEMMA TakesYes ==
    ASSUME DoorInv, NEW q \in Callers, NEW r \in DoorReplicas, NEW y, y \in yes,
           dcall[q] = CallIdle, dclock < y.at + OnceTTL, yes' = yes \ {y},
           dcall' = [dcall EXCEPT ![q] = [pc |-> "run", rep |-> r, yes |-> y, at |-> dclock]],
           UNCHANGED <<dclock, ask, allowed, ran>>
    PROVE  DoorInv'
<1>1. PICK c : c = [pc |-> "run", rep |-> r, yes |-> y, at |-> dclock]
  OBVIOUS
<1>2. y \in YesRecs /\ dclock \in Nat
  BY DEF DoorInv, DoorShape
<1>3. c \in LookRecs /\ c.pc = "run" /\ c.yes = y /\ c.at = dclock
  BY <1>1, <1>2 DEF LookRecs, Looking
<1>4. c \in CallRecs /\ c.pc \notin Settling /\ HoldsOf(c) = y.id
  BY <1>3 DEF CallRecs, Settling, HoldsOf, Looking
<1>5. Given(y) /\ y.at <= dclock
  BY DEF DoorInv, YesOK
<1>6. Given(y)'
  BY <1>5 DEF Given
<1>7. CallKnows(c)'
  BY <1>2, <1>3, <1>5, <1>6 DEF CallKnows, Given, Looking, Settling
<1>8. \A p \in Callers : dcall'[p] = IF p = q THEN c ELSE dcall[p]
  BY <1>1 DEF DoorInv, DoorShape
<1>9. ASSUME NEW i \in AskIds PROVE YesMoves(i)
  <2>1. RanOf(i)' = RanOf(i)
    BY DEF RanOf
  <2>2. HeldOf(i)' = {p \in Callers : HoldsOf(dcall'[p]) = i}
    BY DEF HeldOf, HoldsOf
  <2>3. CASE y.id = i
    <3>1. y \in YesOf(i) /\ YesOf(i)' \subseteq YesOf(i) \ {y} /\ HeldOf(i)' \subseteq HeldOf(i) \cup {q}
      BY <1>8, <2>2, <2>3 DEF YesOf, HeldOf
    <3> QED
      BY <2>1, <3>1 DEF YesMoves
  <2>4. CASE y.id # i
    <3>1. YesOf(i)' \subseteq YesOf(i) /\ HeldOf(i)' \subseteq HeldOf(i)
      BY <1>4, <1>8, <2>2, <2>4 DEF YesOf, HeldOf
    <3> QED
      BY <2>1, <3>1 DEF YesMoves
  <2> QED
    BY <2>3, <2>4
<1>10. YesOK' /\ RanOK' /\ yes' \subseteq YesRecs
  BY DEF DoorInv, DoorShape, YesOK, RanOK, Given
<1> QED
  BY <1>1, <1>4, <1>7, <1>9, <1>10, YesCarried

LEMMA CallLockedStep ==
    ASSUME DoorInv, NEW q \in Callers, NEW r \in DoorReplicas, CallLocked(q, r)
    PROVE  DoorInv'
<1>1. dcall[q] = CallIdle
  BY DEF CallLocked, CallAt, DoorInv, DoorShape, CallRecs, LookRecs, CardRecs, ReadRecs, SettleRecs,
         Looking, Settling
<1>2. CASE \E y \in Takeable :
             /\ Taken(y)
             /\ dcall' = [dcall EXCEPT ![q] = [pc |-> "run", rep |-> r, yes |-> y, at |-> dclock]]
  <2>1. PICK y \in Takeable :
             /\ Taken(y)
             /\ dcall' = [dcall EXCEPT ![q] = [pc |-> "run", rep |-> r, yes |-> y, at |-> dclock]]
    BY <1>2
  <2> QED
    BY <1>1, <2>1, TakesYes DEF CallLocked, Takeable, Taken
<1>3. CASE /\ dcall' = [dcall EXCEPT ![q] = [pc |-> "look", rep |-> r, yes |-> NoYes, at |-> dclock]]
           /\ UNCHANGED yes
  BY <1>3, LooksWithout DEF CallLocked
<1> QED
  BY <1>2, <1>3 DEF CallLocked

\* A request lets go of the yes it holds: it is given back or spent.
LEMMA LetsGo ==
    ASSUME DoorInv, NEW q \in Callers, NEW y, dcall[q].pc \in Looking, y = dcall[q].yes, y # NoYes,
           dcall' = [dcall EXCEPT ![q] = CallIdle], UNCHANGED <<dclock, ask, allowed>>,
           \/ yes' \subseteq yes \cup {y} /\ ran' = ran
           \/ \E z : ran' = ran \cup {<<y.id, dcall[q].at, z>>} /\ yes' = yes
    PROVE  DoorInv'
<1>1. PICK o \in CallRecs : o = dcall[q]
  BY DEF DoorInv, DoorShape
<1>2. o \in LookRecs /\ o.pc \in Looking
  BY <1>1, LookingIs
<1>3. y \in YesRecs /\ o.at \in Nat /\ dclock \in Nat
  BY <1>1, <1>2 DEF LookRecs, DoorInv, DoorShape
<1>4. Given(y) /\ y.at <= o.at /\ o.at < y.at + OnceTTL /\ o.at <= dclock
  BY <1>1, <1>2 DEF DoorInv, CallKnows
<1>5. y.at \in Nat /\ y.id \in AskIds /\ y.at <= dclock
  BY <1>3, <1>4 DEF YesRecs
<1>6. \A p \in Callers : dcall'[p] = IF p = q THEN CallIdle ELSE dcall[p]
  BY DEF DoorInv, DoorShape
<1>7. ASSUME NEW i \in AskIds
      PROVE  /\ HeldOf(i)' \subseteq HeldOf(i)
             /\ i = y.id => q \in HeldOf(i) /\ HeldOf(i)' \subseteq HeldOf(i) \ {q}
  <2>1. HeldOf(i)' = {p \in Callers : HoldsOf(dcall'[p]) = i}
    BY DEF HeldOf, HoldsOf
  <2>2. i # NoAskId
    BY DoorFacts
  <2>3. HeldOf(i)' \subseteq HeldOf(i) \ {q}
    BY <1>6, <2>1, <2>2, IdleKnows DEF HeldOf
  <2>4. i = y.id => q \in HeldOf(i)
    BY DEF HeldOf, HoldsOf
  <2> QED
    BY <2>3, <2>4
<1>8. CASE yes' \subseteq yes \cup {y} /\ ran' = ran
  <2>1. YesOK'
    BY <1>4, <1>5, <1>8 DEF DoorInv, YesOK, Given
  <2>2. RanOK' /\ yes' \subseteq YesRecs
    BY <1>3, <1>8 DEF DoorInv, DoorShape, RanOK
  <2>3. ASSUME NEW i \in AskIds PROVE YesMoves(i)
    <3>1. RanOf(i)' = RanOf(i)
      BY <1>8 DEF RanOf
    <3>2. CASE i = y.id
      <4>1. YesOf(i)' \subseteq YesOf(i) \cup {y}
        BY <1>8 DEF YesOf
      <4> QED
        BY <1>7, <3>1, <3>2, <4>1 DEF YesMoves
    <3>3. CASE i # y.id
      <4>1. YesOf(i)' \subseteq YesOf(i)
        BY <1>8, <3>3 DEF YesOf
      <4> QED
        BY <1>7, <3>1, <4>1 DEF YesMoves
    <3> QED
      BY <3>2, <3>3
  <2> QED
    BY <2>1, <2>2, <2>3, IdleKnows, YesCarried
<1>9. CASE \E z : ran' = ran \cup {<<y.id, dcall[q].at, z>>} /\ yes' = yes
  <2>1. PICK z : ran' = ran \cup {<<y.id, dcall[q].at, z>>} /\ yes' = yes
    BY <1>9
  <2>2. PICK x : x = <<y.id, o.at, z>>
    OBVIOUS
  <2>3. ran' = ran \cup {x} /\ x[1] = y.id /\ x[2] = o.at
    BY <1>1, <2>1, <2>2
  <2>4. YesOK' /\ yes' \subseteq YesRecs
    BY <2>1 DEF DoorInv, DoorShape, YesOK, Given
  <2>5. RanOK'
    BY <1>4, <1>5, <2>3 DEF DoorInv, RanOK, Given
  <2>6. ASSUME NEW i \in AskIds PROVE YesMoves(i)
    <3>1. YesOf(i)' = YesOf(i)
      BY <2>1 DEF YesOf
    <3>2. CASE i = y.id
      <4>1. RanOf(i)' \subseteq RanOf(i) \cup {x}
        BY <2>3 DEF RanOf
      <4> QED
        BY <1>7, <3>1, <3>2, <4>1 DEF YesMoves
    <3>3. CASE i # y.id
      <4>1. RanOf(i)' \subseteq RanOf(i)
        BY <2>3, <3>3 DEF RanOf
      <4> QED
        BY <1>7, <3>1, <4>1 DEF YesMoves
    <3> QED
      BY <3>2, <3>3
  <2> QED
    BY <2>4, <2>5, <2>6, IdleKnows, YesCarried
<1> QED
  BY <1>8, <1>9

LEMMA ToolRunStep ==
    ASSUME DoorInv, NEW q \in Callers, ToolRun(q)
    PROVE  DoorInv'
<1>1. PICK o \in CallRecs : o = dcall[q]
  BY DEF DoorInv, DoorShape
<1>2. o.pc = "run" /\ o \in LookRecs /\ o.pc \in Looking /\ o.pc \notin Settling
  BY <1>1, LookingIs DEF ToolRun, CallAt, Looking
<1>3. UNCHANGED <<dclock, ask, allowed>>
  BY DEF ToolRun
<1>4. PICK y : y = dcall[q].yes
  OBVIOUS
<1>5. CASE /\ IF y = NoYes THEN UNCHANGED yes ELSE Remembered(Stamped(y))
           /\ Unlock(q)
           /\ UNCHANGED ran
  <2>1. dcall' = [dcall EXCEPT ![q] = CallIdle] /\ ran' = ran
    BY <1>5 DEF Unlock
  <2>2. CASE y = NoYes
    <3>1. yes' = yes /\ CallMoves(q, CallIdle)
      BY <1>3, <1>5, <2>1, <2>2, IdleKnows, StillMove
    <3> QED
      BY <1>3, <2>1, <3>1, IdleKnows, QuietMove
  <2>3. CASE y # NoYes
    <3>1. yes' \subseteq yes \cup {y}
      BY <1>5, <2>3 DEF Remembered, Stamped
    <3> QED
      BY <1>1, <1>2, <1>3, <1>4, <2>1, <2>3, <3>1, LetsGo
  <2> QED
    BY <2>2, <2>3
<1>6. CASE /\ y # NoYes
           /\ ran' = ran \cup {<<y.id, dcall[q].at, Cardinality(ran)>>}
           /\ Unlock(q)
           /\ UNCHANGED yes
  <2>1. dcall' = [dcall EXCEPT ![q] = CallIdle] /\ dcall[q].pc \in Looking
    BY <1>1, <1>2, <1>6 DEF Unlock
  <2>2. \E z : ran' = ran \cup {<<y.id, dcall[q].at, z>>} /\ yes' = yes
    BY <1>6
  <2> QED
    BY <1>3, <1>4, <1>6, <2>1, <2>2, LetsGo
<1>7. CASE CallTo(q, "relook") /\ UNCHANGED <<yes, ran, dlock>>
  <2>1. PICK c : c = [o EXCEPT !.pc = "relook"]
    OBVIOUS
  <2>2. c \in LookRecs /\ c \in CallRecs /\ c.pc = "relook" /\ c.yes = o.yes /\ c.at = o.at
    BY <1>2, <2>1, GoesOn DEF Looking
  <2>3. dcall' = [dcall EXCEPT ![q] = c]
    BY <1>1, <1>7, <2>1 DEF CallTo
  <2>4. CallMoves(q, c)
    BY <1>3, <2>2, <2>3, StillMove DEF Settling
  <2>5. CallKnows(o)
    BY <1>1 DEF DoorInv
  <2>6. CallKnows(c)'
    BY <1>2, <1>3, <2>2, <2>5 DEF CallKnows, Given, Looking, Settling
  <2>7. HoldsOf(c) = HoldsOf(dcall[q])
    BY <1>1, <1>2, <2>2 DEF HoldsOf, Looking
  <2> QED
    BY <1>3, <1>7, <2>4, <2>6, <2>7, QuietMove
<1> QED
  BY <1>4, <1>5, <1>6, <1>7 DEF ToolRun

\* The one answer that landed records its yes: a fresh grant, and a row that carries its stamp.
LEMMA YesKeptStep ==
    ASSUME DoorInv, NEW q \in Callers, YesKept(q)
    PROVE  DoorInv'
<1>1. PICK o \in CallRecs : o = dcall[q]
  BY DEF DoorInv, DoorShape
<1>2. o.pc = "remember" /\ o \in SettleRecs /\ o.run \in AskIds /\ o.pc \in Settling
  BY <1>1, SettlingIs DEF YesKept, CallAt, Settling
<1>3. PICK a \in AskIds, k \in AskRecs : a = o.run /\ k = ask[a]
  BY <1>2 DEF DoorInv, DoorShape
<1>4. k.st = "running" /\ k.id \in AskIds /\ \A i \in AskIds : \A h \in allowed[i] : h[1] # a
  BY <1>1, <1>2, <1>3 DEF DoorInv, DoorShape, CallKnows, Settling
<1>5. PICK i, g, y : /\ i = k.id /\ g = <<a, dclock>>
                     /\ y = [id |-> k.id, gate |-> k.gate, at |-> dclock]
  OBVIOUS
<1>6. i \in AskIds /\ g[1] = a /\ g[2] = dclock /\ dclock \in Nat /\ g \in AskIds \X Nat
  BY <1>4, <1>5 DEF DoorInv, DoorShape
<1>7. y \in YesRecs /\ y.id = i /\ y.at = dclock
  BY <1>4, <1>5, <1>6 DEF YesRecs, AskRecs
<1>8. /\ UNCHANGED <<dclock, ask, ran>> /\ yes' \subseteq yes \cup {y}
      /\ allowed' = [allowed EXCEPT ![i] = @ \cup {g}]
  BY <1>1, <1>3, <1>5 DEF YesKept, Remembered
<1>9. PICK c : c = [o EXCEPT !.pc = "finish"]
  OBVIOUS
<1>10. c \in CallRecs /\ c.pc = "finish" /\ c.run = a /\ dcall' = [dcall EXCEPT ![q] = c]
  BY <1>1, <1>2, <1>3, <1>9, GoesOn DEF YesKept, CallTo, Settling
<1>11. /\ allowed' \in [AskIds -> SUBSET (AskIds \X Nat)]
       /\ \A j \in AskIds : allowed'[j] = IF j = i THEN allowed[i] \cup {g} ELSE allowed[j]
  BY <1>6, <1>8 DEF DoorInv, DoorShape
<1>12. CallMoves(q, c)
  BY <1>1, <1>2, <1>3, <1>6, <1>8, <1>10, <1>11 DEF CallMoves, DoorInv, DoorShape
<1>13. CallKnows(c)' /\ HoldsOf(c) = NoAskId
  BY <1>3, <1>4, <1>8, <1>10 DEF CallKnows, HoldsOf, Looking, Settling
<1>14. /\ dcall' \in [Callers -> CallRecs]
       /\ \A p \in Callers : dcall'[p] = IF p = q THEN c ELSE dcall[p]
       /\ \A p \in Callers : CallKnows(dcall[p])'
       /\ SettledOnce'
  BY <1>12, <1>13, CallsKnow
<1>15. DoorShape'
  BY <1>7, <1>8, <1>11, <1>14 DEF DoorInv, DoorShape
<1>16. Given(y)'
  BY <1>6, <1>7, <1>11 DEF Given
<1>17. YesOK'
  <2> SUFFICES ASSUME NEW z \in yes' PROVE Given(z)' /\ z.at <= dclock'
    BY DEF YesOK, Given
  <2>1. CASE z = y
    BY <1>6, <1>7, <1>8, <1>16, <2>1 DEF Given
  <2>2. CASE z \in yes
    <3>1. z.id \in AskIds /\ Given(z) /\ z.at <= dclock
      BY <2>2 DEF DoorInv, DoorShape, YesOK, YesRecs
    <3> QED
      BY <1>8, <1>11, <3>1 DEF Given
  <2> QED
    BY <1>8, <2>1, <2>2
<1>18. RanOK'
  BY <1>8, <1>11 DEF DoorInv, RanOK
<1>19. AllowedOK'
  <2> SUFFICES ASSUME NEW j \in AskIds, NEW e \in allowed'[j]
               PROVE  /\ ask[e[1]].st \notin {"none", "waiting"}
                      /\ \A h \in allowed'[j] : e[1] = h[1] => e = h
    BY <1>8 DEF AllowedOK
  <2>1. ask[a].st = "running"
    BY <1>3, <1>4
  <2> QED
    BY <1>4, <1>6, <1>11, <2>1 DEF DoorInv, AllowedOK
<1>20. ASSUME NEW j \in AskIds PROVE Accounted(j)'
  <2>1. Accounted(j)
    BY DEF DoorInv
  <2>2. HeldOf(j)' = {p \in Callers : HoldsOf(dcall'[p]) = j}
    BY DEF HeldOf, HoldsOf
  <2>3. HeldOf(j)' \subseteq HeldOf(j) /\ RanOf(j)' = RanOf(j)
    BY <1>8, <1>13, <1>14, <2>2, DoorFacts DEF HeldOf, RanOf
  <2>4. CASE j # i
    <3>1. YesOf(j)' \subseteq YesOf(j) /\ allowed'[j] = allowed[j]
      BY <1>7, <1>8, <1>11, <2>4 DEF YesOf
    <3> QED
      BY <2>1, <2>3, <3>1, StaysAccounted DEF YesMoves
  <2>5. CASE j = i
    <3>1. PICK Y, H, R, A : Y = YesOf(j) /\ H = HeldOf(j) /\ R = RanOf(j) /\ A = allowed[j]
      OBVIOUS
    <3>2. PICK Z, I, B : Z = YesOf(j)' /\ I = HeldOf(j)' /\ B = allowed'[j]
      OBVIOUS
    <3>3. /\ IsFiniteSet(Y) /\ IsFiniteSet(H) /\ IsFiniteSet(R) /\ IsFiniteSet(A)
          /\ Cardinality(Y) + Cardinality(H) + Cardinality(R) <= Cardinality(A)
      BY <2>1, <3>1 DEF Accounted
    <3>4. Z \subseteq Y \cup {y} /\ I \subseteq H /\ RanOf(j)' = R
      BY <1>8, <2>3, <3>1, <3>2 DEF YesOf
    <3>5. B = A \cup {g} /\ g \notin A
      BY <1>4, <1>6, <1>11, <2>5, <3>1, <3>2
    <3>6. /\ IsFiniteSet(Z) /\ Cardinality(Z) \in Nat /\ Cardinality(Y) \in Nat
          /\ Cardinality(Z) <= Cardinality(Y) + 1
      BY <3>3, <3>4, OneMore
    <3>7. /\ IsFiniteSet(I) /\ Cardinality(I) \in Nat /\ Cardinality(H) \in Nat
          /\ Cardinality(I) <= Cardinality(H)
      BY <3>3, <3>4, Fewer
    <3>8. IsFiniteSet(B) /\ Cardinality(B) = Cardinality(A) + 1 /\ Cardinality(A) \in Nat
      BY <3>3, <3>5, FS_AddElement, FS_CardinalityType
    <3>9. Cardinality(R) \in Nat
      BY <3>3, FS_CardinalityType
    <3>10. Cardinality(Z) + Cardinality(I) + Cardinality(R) <= Cardinality(B)
      BY <3>3, <3>6, <3>7, <3>8, <3>9
    <3> QED
      BY <3>2, <3>3, <3>4, <3>6, <3>7, <3>8, <3>10 DEF Accounted
  <2> QED
    BY <2>4, <2>5
<1> QED
  BY <1>14, <1>15, <1>17, <1>18, <1>19, <1>20 DEF DoorInv

LEMMA DoorStart == DoorInit => DoorInv
<1> SUFFICES ASSUME DoorInit PROVE DoorInv
  OBVIOUS
<1>1. \A q \in Callers : dcall[q] = CallIdle
  BY DEF DoorInit
<1>2. \A a \in AskIds : ask[a] = NoAsk
  BY DEF DoorInit
<1>3. NoAsk \in AskRecs /\ NoAsk.st = "none"
  BY DEF NoAsk, AskRecs, NoAskId
<1>4. DoorShape
  BY <1>2, <1>3 DEF DoorInit, DoorShape, CallRecs
<1>5. SettledOnce /\ YesOK /\ AllowedOK /\ RanOK
  BY <1>1, IdleKnows DEF DoorInit, SettledOnce, YesOK, AllowedOK, RanOK
<1>6. \A q \in Callers : CallKnows(dcall[q])
  BY <1>1 DEF CallKnows, CallIdle, Looking, Settling
<1>7. ASSUME NEW i \in AskIds PROVE Accounted(i)
  <2>1. HeldOf(i) = {}
    BY <1>1, IdleKnows, DoorFacts DEF HeldOf
  <2>2. YesOf(i) = {} /\ RanOf(i) = {} /\ allowed[i] = {}
    BY DEF DoorInit, YesOf, RanOf
  <2> QED
    BY <2>1, <2>2, FS_EmptySet DEF Accounted
<1> QED
  BY <1>4, <1>5, <1>6, <1>7 DEF DoorInv

LEMMA TickStep ==
    ASSUME DoorInv, dclock' \in Nat, dclock <= dclock', UNCHANGED <<dcall, ask, yes, allowed, ran>>
    PROVE  DoorInv'
<1>1. ASSUME NEW q \in Callers PROVE CallKnows(dcall[q])'
  <2>1. PICK o \in CallRecs : o = dcall[q]
    BY DEF DoorInv, DoorShape
  <2>2. CallKnows(o) /\ (o.pc \in Looking => o.at \in Nat) /\ dclock \in Nat
    BY <2>1, LookingIs DEF DoorInv, DoorShape, LookRecs
  <2>3. CallKnows(o)'
    BY <2>2 DEF CallKnows, Given
  <2>4. dcall'[q] = o
    BY <2>1
  <2> QED
    BY <2>3, <2>4 DEF CallKnows, Given
<1>2. YesOK'
  <2> SUFFICES ASSUME NEW y \in yes PROVE Given(y)' /\ y.at <= dclock'
    BY DEF YesOK, Given
  <2>1. Given(y) /\ y.at <= dclock /\ y.at \in Nat /\ dclock \in Nat
    BY DEF DoorInv, DoorShape, YesOK, YesRecs
  <2> QED
    BY <2>1 DEF Given
<1>3. ASSUME NEW i \in AskIds PROVE Accounted(i)'
  <2>1. YesOf(i)' = YesOf(i) /\ RanOf(i)' = RanOf(i) /\ HeldOf(i)' = HeldOf(i) /\ allowed'[i] = allowed[i]
    BY DEF YesOf, RanOf, HeldOf, HoldsOf
  <2> QED
    BY <2>1 DEF DoorInv, Accounted
<1>4. DoorShape' /\ SettledOnce' /\ AllowedOK' /\ RanOK'
  BY DEF DoorInv, DoorShape, SettledOnce, AllowedOK, RanOK
<1> QED
  BY <1>1, <1>2, <1>3, <1>4 DEF DoorInv

LEMMA DoorStep == DoorInv /\ [DoorNext]_doorVars => DoorInv'
<1> SUFFICES ASSUME DoorInv, [DoorNext]_doorVars PROVE DoorInv'
  OBVIOUS
<1>1. dclock \in Nat
  BY DEF DoorInv, DoorShape
<1>2. CASE UNCHANGED doorVars
  BY <1>1, <1>2, TickStep DEF doorVars
<1>3. CASE DoorTick
  BY <1>1, <1>3, TickStep DEF DoorTick
<1>4. ASSUME NEW q \in Callers, NEW r \in DoorReplicas, CallLocked(q, r) \/ AnswerSettled(q, r)
      PROVE  DoorInv'
  BY <1>4, CallLockedStep, AnswerSettledStep
<1>5. ASSUME NEW q \in Callers,
             \/ AskLooked(q) \/ ToolRun(q) \/ AskPersisted(q) \/ CardRaised(q)
             \/ \E a \in AskIds, ok \in BOOLEAN : AnswerRead(q, a, ok)
             \/ CardAnswered(q) \/ YesKept(q) \/ AskFinished(q) \/ CallLost(q)
      PROVE  DoorInv'
  BY <1>5, AskLookedStep, ToolRunStep, AskPersistedStep, CardRaisedStep, AnswerReadStep,
     CardAnsweredStep, YesKeptStep, AskFinishedStep, LostStep
<1> QED
  BY <1>2, <1>3, <1>4, <1>5 DEF DoorNext

\* A person's "allow once" lets at most one call through, and only in its time: of the rows in
\* mcp_allow_once, the yeses calls hold and the calls that ran on one, there are never more than
\* the answers recorded, whatever is lost, retried, given back or answered from another replica.
THEOREM YesIsSpentOnce == DoorSpec => []YesAllowsOnce
<1>1. DoorInit => DoorInv
  BY DoorStart
<1>2. DoorInv /\ [DoorNext]_doorVars => DoorInv'
  BY DoorStep
<1>3. DoorInv => YesAllowsOnce
  BY DoorInvIsEnough
<1> QED
  BY <1>1, <1>2, <1>3, PTL DEF DoorSpec

-----------------------------------------------------------------------------
(***************************************************************************)
(* SKILLS.  A skill that is on is one its owner wrote or switched on, a    *)
(* request that is about to switch one on included; what was offered or is *)
(* attached is a row; a turn that reads files passed the gates when it     *)
(* read the body; a tab that saw the set at its version saw the set.       *)
(***************************************************************************)
FullSkills == [name : SkillNames, gone : BOOLEAN, top : Nat, on : BOOLEAN]

SkillKnows(q) ==
    /\ q.pc = "create" => q.name \in SkillNames /\ q.taught \in BOOLEAN
    /\ q.pc = "update" => /\ q.skill \in SkillRows /\ q.name \in SkillNames /\ q.on \in BOOLEAN
                          /\ q.on => q.asked = "on" \/ q.skill \in switched
    /\ q.pc = "attach" => /\ q.seen.ver \in Nat /\ q.seen.ver <= attached.ver
                          /\ q.seen.ver = attached.ver => q.seen.ids = attached.ids
    /\ q.pc = "offered" => q.skill \in SkillRows
    /\ q.pc = "files" => q.fit /\ q.skill \in switched

SkillShape ==
    /\ skills = [s \in SkillIds |-> skills[s]]
    /\ \A s \in SkillRows : skills[s] \in FullSkills
    /\ skillReq = [r \in SkillReqs |-> skillReq[r]]
    /\ attached = [ids |-> attached.ids, ver |-> attached.ver]
    /\ attached.ver \in Nat /\ attached.ids \subseteq SkillRows

OnIsSwitched == \A s \in SkillRows : skills[s].on => s \in switched

SkillInv ==
    /\ SkillShape /\ OnIsSwitched
    /\ \A r \in SkillReqs : SkillKnows(skillReq[r])
    /\ misgiven = FALSE /\ overwrote = FALSE
    /\ \A s, o \in LiveSkills : skills[s].name = skills[o].name => s = o

\* The empty row is no skill.
LEMMA FullIsARow ==
    ASSUME NEW o \in FullSkills
    PROVE  o # NoSkill
<1>1. "gone" \in DOMAIN o
  BY DEF FullSkills
<1>2. "gone" \notin DOMAIN NoSkill
  BY DEF NoSkill
<1> QED
  BY <1>1, <1>2

\* One row is written; its name is its own among the live ones.
SkillWritten(s, new) ==
    /\ s \in SkillIds /\ new \in FullSkills
    /\ skills' = [skills EXCEPT ![s] = new]
    /\ switched \subseteq switched'
    /\ new.on => s \in switched'
    /\ ~new.gone => NameFree(new.name, s)

\* What a request may take up, with the rest of it left alone.
SkillTakes(r, q) == r \in SkillReqs /\ skillReq' = [skillReq EXCEPT ![r] = q] /\ SkillKnows(q)'

LEMMA RequestsKnow ==
    ASSUME SkillInv, NEW r \in SkillReqs, NEW q, skillReq' = [skillReq EXCEPT ![r] = q], SkillKnows(q)',
           SkillRows \subseteq SkillRows', switched \subseteq switched',
           \/ attached' = attached
           \/ attached'.ver = attached.ver + 1
    PROVE  /\ skillReq' = [t \in SkillReqs |-> skillReq'[t]]
           /\ \A t \in SkillReqs : SkillKnows(skillReq[t])'
<1>1. \A t \in SkillReqs : skillReq'[t] = IF t = r THEN q ELSE skillReq[t]
  BY DEF SkillInv, SkillShape
<1>2. skillReq' = [t \in SkillReqs |-> skillReq'[t]]
  BY DEF SkillInv, SkillShape
<1>3. ASSUME NEW t \in SkillReqs PROVE SkillKnows(skillReq[t])'
  <2>1. CASE t = r
    BY <1>1, <2>1 DEF SkillKnows
  <2>2. CASE t # r
    <3>1. PICK o : o = skillReq[t]
      OBVIOUS
    <3>2. SkillKnows(o)
      BY <3>1 DEF SkillInv
    <3>3. attached.ver \in Nat
      BY DEF SkillInv, SkillShape
    <3>4. SkillKnows(o)'
      BY <3>2, <3>3 DEF SkillKnows
    <3>5. skillReq'[t] = o
      BY <1>1, <2>2, <3>1
    <3> QED
      BY <3>4, <3>5 DEF SkillKnows
  <2> QED
    BY <2>1, <2>2
<1> QED
  BY <1>2, <1>3

LEMMA RowsKept ==
    ASSUME SkillInv, NEW s, NEW new, SkillWritten(s, new)
    PROVE  /\ skills' = [o \in SkillIds |-> skills'[o]]
           /\ \A o \in SkillIds : skills'[o] = IF o = s THEN new ELSE skills[o]
           /\ SkillRows' = SkillRows \cup {s}
           /\ \A o \in SkillRows' : skills'[o] \in FullSkills
           /\ OnIsSwitched'
           /\ \A o, p \in LiveSkills' : skills'[o].name = skills'[p].name => o = p
<1>1. skills' = [o \in SkillIds |-> skills'[o]]
  BY DEF SkillWritten, SkillInv, SkillShape
<1>2. \A o \in SkillIds : skills'[o] = IF o = s THEN new ELSE skills[o]
  BY DEF SkillWritten, SkillInv, SkillShape
<1>3. new # NoSkill
  BY FullIsARow DEF SkillWritten
<1>4. SkillRows' = SkillRows \cup {s}
  BY <1>2, <1>3 DEF SkillRows, SkillWritten
<1>5. \A o \in SkillRows' : skills'[o] \in FullSkills
  BY <1>2, <1>4 DEF SkillWritten, SkillInv, SkillShape, SkillRows
<1>6. OnIsSwitched'
  BY <1>2, <1>4 DEF OnIsSwitched, SkillWritten, SkillInv, SkillRows
<1>7. \A o \in LiveSkills' : o \in SkillIds /\ (o # s => o \in LiveSkills) /\ (o = s => ~new.gone)
  BY <1>2, <1>4 DEF LiveSkills, SkillRows, SkillWritten
<1>8. \A o \in LiveSkills' : o # s => skills'[o].name # new.name \/ new.gone
  BY <1>2, <1>7 DEF SkillWritten, NameFree
<1>9. \A o, p \in LiveSkills' : skills'[o].name = skills'[p].name => o = p
  BY <1>2, <1>7, <1>8 DEF SkillInv
<1> QED
  BY <1>1, <1>2, <1>4, <1>5, <1>6, <1>9

\* What a step leaves of the invariant when it writes no skill.
LEMMA RequestMoves ==
    ASSUME SkillInv, NEW r \in SkillReqs, NEW q, SkillReqTo(r, q), SkillKnows(q)',
           skills' = skills, switched' = switched, misgiven' = FALSE, overwrote' = FALSE,
           \/ attached' = attached
           \/ /\ attached' = [ids |-> attached'.ids, ver |-> attached.ver + 1]
              /\ attached'.ids \subseteq SkillRows
    PROVE  SkillInv'
<1>1. SkillRows' = SkillRows /\ LiveSkills' = LiveSkills
  BY DEF SkillRows, LiveSkills
<1>2. attached'.ver = attached.ver + 1 \/ attached' = attached
  OBVIOUS
<1>3. /\ skillReq' = [t \in SkillReqs |-> skillReq'[t]]
      /\ \A t \in SkillReqs : SkillKnows(skillReq[t])'
  BY <1>1, <1>2, RequestsKnow DEF SkillReqTo
<1>4. /\ attached' = [ids |-> attached'.ids, ver |-> attached'.ver]
      /\ attached'.ver \in Nat /\ attached'.ids \subseteq SkillRows
  BY DEF SkillInv, SkillShape
<1>5. SkillShape' /\ OnIsSwitched'
  BY <1>1, <1>3, <1>4 DEF SkillInv, SkillShape, OnIsSwitched
<1> QED
  BY <1>1, <1>3, <1>5 DEF SkillInv

LEMMA NothingIsKnown == SkillKnows(NoSkillReq)'
BY DEF SkillKnows, NoSkillReq

LEMMA BeginsStep ==
    ASSUME SkillInv, NEW r \in SkillReqs,
           \/ \E n \in SkillNames, t \in BOOLEAN : CreateBegins(r, n, t)
           \/ LessonFails(r) \/ AttachReads(r)
           \/ \E who \in {"owner", "colleague"}, s \in SkillIds : TurnOffered(r, who, s)
    PROVE  SkillInv'
<1>1. CASE \E n \in SkillNames, t \in BOOLEAN : CreateBegins(r, n, t)
  <2>1. PICK n \in SkillNames, t \in BOOLEAN : CreateBegins(r, n, t)
    BY <1>1
  <2>2. PICK q : q = [pc |-> "create", name |-> n, taught |-> t]
    OBVIOUS
  <2>3. SkillKnows(q)'
    BY <2>2 DEF SkillKnows
  <2> QED
    BY <2>1, <2>2, <2>3, RequestMoves DEF CreateBegins, SkillInv
<1>2. CASE LessonFails(r)
  BY <1>2, RequestMoves, NothingIsKnown DEF LessonFails, SkillReqEnds, SkillInv
<1>3. CASE AttachReads(r)
  <2>1. PICK q : q = [pc |-> "attach", seen |-> attached]
    OBVIOUS
  <2>2. attached' = attached /\ attached.ver \in Nat
    BY <1>3 DEF AttachReads, SkillInv, SkillShape
  <2>3. SkillKnows(q)'
    BY <2>1, <2>2 DEF SkillKnows
  <2> QED
    BY <1>3, <2>1, <2>2, <2>3, RequestMoves DEF AttachReads, SkillInv
<1>4. CASE \E who \in {"owner", "colleague"}, s \in SkillIds : TurnOffered(r, who, s)
  <2>1. PICK who \in {"owner", "colleague"}, s \in SkillIds : TurnOffered(r, who, s)
    BY <1>4
  <2>2. PICK q : q = [pc |-> "offered", skill |-> s, who |-> who]
    OBVIOUS
  <2>3. SkillKnows(q)'
    BY <2>1, <2>2 DEF SkillKnows, TurnOffered, SkillInv, SkillShape, SkillRows
  <2> QED
    BY <2>1, <2>2, <2>3, RequestMoves DEF TurnOffered, SkillInv
<1> QED
  BY <1>1, <1>2, <1>3, <1>4

LEMMA UpdateReadsStep ==
    ASSUME SkillInv, NEW r \in SkillReqs, NEW s \in SkillIds, NEW n \in SkillNames \cup {"same"},
           NEW on \in {"on", "off", "same"}, UpdateReads(r, s, n, on)
    PROVE  SkillInv'
<1>1. PICK name : name = IF n = "same" THEN skills[s].name ELSE n
  OBVIOUS
<1>2. PICK is : is = IF on = "same" THEN skills[s].on ELSE on = "on"
  OBVIOUS
<1>3. PICK q : q = [pc |-> "update", skill |-> s, name |-> name, asked |-> on, on |-> is]
  OBVIOUS
<1>4. skillReq' = [skillReq EXCEPT ![r] = q]
  BY <1>1, <1>2, <1>3, Zenon DEF UpdateReads, SkillReqTo
<1>5. s \in SkillRows /\ skills[s] \in FullSkills /\ (skills[s].on => s \in switched)
  BY DEF UpdateReads, LiveSkills, SkillInv, SkillShape, OnIsSwitched
<1>6. name \in SkillNames \/ n = "same"
  BY <1>1
<1>7. name \in SkillNames
  BY <1>1, <1>5, <1>6 DEF FullSkills
<1>8. is \in BOOLEAN
  BY <1>2, <1>5 DEF FullSkills
<1>9. is => on = "on" \/ s \in switched
  BY <1>2, <1>5
<1>10. SkillRows' = SkillRows /\ switched' = switched
  BY DEF UpdateReads, SkillRows
<1>11. SkillKnows(q)'
  BY <1>3, <1>5, <1>7, <1>8, <1>9, <1>10 DEF SkillKnows
<1> QED
  BY <1>4, <1>11, RequestMoves DEF UpdateReads, SkillReqTo, SkillInv

\* A turn that asks for its skill passes the gates again, or gets nothing.
LEMMA TurnReadsStep ==
    ASSUME SkillInv, NEW r \in SkillReqs, TurnReads(r)
    PROVE  SkillInv'
<1>1. PICK s : s = skillReq[r].skill
  OBVIOUS
<1>2. PICK who : who = skillReq[r].who
  OBVIOUS
<1>3. s \in SkillRows
  BY <1>1 DEF TurnReads, SkillReqAt, SkillInv, SkillKnows
<1>4. CASE Usable(who, s)
  <2>1. PICK fit : fit = Usable(who, s)
    OBVIOUS
  <2>2. PICK q : q = [pc |-> "files", skill |-> s, body |-> skills[s].top, fit |-> fit]
    OBVIOUS
  <2>3. skillReq' = [skillReq EXCEPT ![r] = q]
    BY <1>1, <1>2, <1>4, <2>1, <2>2, Zenon DEF TurnReads, StillUsable, SkillReqTo
  <2>4. s \in switched
    BY <1>3, <1>4 DEF Usable, SkillInv, OnIsSwitched
  <2>5. fit
    BY <1>4, <2>1
  <2>6. SkillKnows(q)'
    BY <2>2, <2>4, <2>5 DEF SkillKnows, TurnReads
  <2> QED
    BY <2>3, <2>6, RequestMoves DEF TurnReads, SkillReqTo, SkillInv
<1>5. CASE ~Usable(who, s)
  BY <1>1, <1>2, <1>5, RequestMoves, NothingIsKnown DEF TurnReads, StillUsable, SkillReqEnds, SkillInv
<1> QED
  BY <1>4, <1>5

LEMMA TurnGivenStep ==
    ASSUME SkillInv, NEW r \in SkillReqs, TurnGiven(r)
    PROVE  SkillInv'
<1>1. skillReq[r].fit /\ skillReq[r].skill \in switched
  BY DEF TurnGiven, SkillReqAt, SkillInv, SkillKnows
<1>2. misgiven' = FALSE
  BY <1>1 DEF TurnGiven, FilesOf, SkillInv
<1> QED
  BY <1>2, RequestMoves, NothingIsKnown DEF TurnGiven, SkillReqEnds, SkillInv

\* A set is only replaced by a tab that saw it.
LEMMA AttachSavesStep ==
    ASSUME SkillInv, NEW r \in SkillReqs, NEW ids \in SUBSET SkillIds, AttachSaves(r, ids)
    PROVE  SkillInv'
<1>1. SkillReqTo(r, NoSkillReq) /\ skills' = skills /\ switched' = switched /\ misgiven' = FALSE
  BY DEF AttachSaves, SkillReqEnds, SkillInv
<1>2. CASE skillReq[r].seen.ver # attached.ver
  BY <1>1, <1>2, RequestMoves, NothingIsKnown DEF AttachSaves, SkillInv
<1>3. CASE skillReq[r].seen.ver = attached.ver
  <2>1. skillReq[r].seen.ids = attached.ids
    BY <1>3 DEF AttachSaves, SkillReqAt, SkillInv, SkillKnows
  <2>2. overwrote' = FALSE
    BY <1>3, <2>1 DEF AttachSaves, SkillInv
  <2>3. attached' = [ids |-> ids, ver |-> VersionAfter(ids)]
    BY <1>3 DEF AttachSaves
  <2>4. CASE ids = attached.ids
    <3>1. attached' = attached
      BY <2>3, <2>4 DEF VersionAfter, SkillInv, SkillShape
    <3> QED
      BY <1>1, <2>2, <3>1, RequestMoves, NothingIsKnown
  <2>5. CASE ids # attached.ids
    <3>1. attached' = [ids |-> ids, ver |-> attached.ver + 1]
      BY <2>3, <2>5 DEF VersionAfter
    <3>2. attached'.ids = ids
      BY <3>1
    <3>3. ids \subseteq SkillRows
      BY DEF AttachSaves, LiveSkills
    <3> QED
      BY <1>1, <2>2, <3>1, <3>2, <3>3, RequestMoves, NothingIsKnown
  <2> QED
    BY <2>4, <2>5
<1> QED
  BY <1>2, <1>3

\* What a step leaves of the invariant when it writes a skill.
LEMMA SkillMoves ==
    ASSUME SkillInv, NEW s, NEW new, SkillWritten(s, new),
           \/ skillReq' = skillReq
           \/ \E r \in SkillReqs : SkillReqEnds(r),
           attached' = attached, misgiven' = misgiven, overwrote' = overwrote
    PROVE  SkillInv'
<1>1. /\ skills' = [o \in SkillIds |-> skills'[o]]
      /\ SkillRows' = SkillRows \cup {s}
      /\ \A o \in SkillRows' : skills'[o] \in FullSkills
      /\ OnIsSwitched'
      /\ \A o, p \in LiveSkills' : skills'[o].name = skills'[p].name => o = p
  BY RowsKept
<1>2. SkillRows \subseteq SkillRows' /\ switched \subseteq switched'
  BY <1>1 DEF SkillWritten
<1>3. /\ skillReq' = [t \in SkillReqs |-> skillReq'[t]]
      /\ \A t \in SkillReqs : SkillKnows(skillReq[t])'
  <2>1. CASE skillReq' = skillReq
    <3>1. ASSUME NEW t \in SkillReqs PROVE SkillKnows(skillReq[t])'
      BY <1>2, <2>1 DEF SkillKnows, SkillInv
    <3> QED
      BY <2>1, <3>1 DEF SkillInv, SkillShape
  <2>2. CASE \E r \in SkillReqs : SkillReqEnds(r)
    <3>1. PICK r \in SkillReqs : SkillReqEnds(r)
      BY <2>2
    <3> QED
      BY <1>2, <3>1, RequestsKnow, NothingIsKnown DEF SkillReqEnds, SkillReqTo
  <2> QED
    BY <2>1, <2>2
<1>4. SkillShape'
  BY <1>1, <1>2, <1>3 DEF SkillInv, SkillShape
<1> QED
  BY <1>1, <1>3, <1>4 DEF SkillInv

LEMMA CreateLandsStep ==
    ASSUME SkillInv, NEW r \in SkillReqs, NEW s \in SkillIds, NEW top \in {0, 1},
           CreateLands(r, s, top)
    PROVE  SkillInv'
<1>1. PICK n \in SkillNames, t \in BOOLEAN : n = skillReq[r].name /\ t = skillReq[r].taught
  BY DEF CreateLands, SkillReqAt, SkillInv, SkillKnows
<1>2. CASE NameFree(n, s)
  <2>1. PICK on \in BOOLEAN : on = ~t
    OBVIOUS
  <2>2. PICK new : new = [name |-> n, gone |-> FALSE, top |-> top, on |-> on]
    OBVIOUS
  <2>3. skills' = [skills EXCEPT ![s] = new]
    BY <1>1, <1>2, <2>1, <2>2, Zenon DEF CreateLands, NameIndex, CreatedOn
  <2>4. new \in FullSkills /\ new.on = on /\ new.name = n
    BY <2>2 DEF FullSkills
  <2>5. switched' = IF t THEN switched ELSE switched \cup {s}
    BY <1>1, <1>2 DEF CreateLands, NameIndex
  <2>6. SkillWritten(s, new)
    BY <1>2, <2>1, <2>3, <2>4, <2>5 DEF SkillWritten
  <2> QED
    BY <2>6, SkillMoves DEF CreateLands
<1>3. CASE ~NameFree(n, s)
  <2>1. skills' = skills /\ switched' = switched
    BY <1>1, <1>3 DEF CreateLands, NameIndex
  <2> QED
    BY <2>1, RequestMoves, NothingIsKnown DEF CreateLands, SkillReqEnds, SkillInv
<1> QED
  BY <1>2, <1>3

LEMMA UpdateWritesStep ==
    ASSUME SkillInv, NEW r \in SkillReqs, UpdateWrites(r)
    PROVE  SkillInv'
<1>0. PICK asked : asked = skillReq[r].asked
  OBVIOUS
<1>1. PICK s \in SkillRows, n \in SkillNames, on \in BOOLEAN :
         /\ s = skillReq[r].skill /\ n = skillReq[r].name /\ on = skillReq[r].on
         /\ on => asked = "on" \/ s \in switched
  BY <1>0 DEF UpdateWrites, SkillReqAt, SkillInv, SkillKnows
<1>2. PICK o \in FullSkills : o = skills[s]
  BY <1>1 DEF SkillInv, SkillShape
<1>3. s \in SkillIds
  BY <1>1 DEF SkillRows
<1>4. CASE NameFree(n, s)
  <2>1. PICK new : new = [name |-> n, gone |-> o.gone, top |-> o.top, on |-> on]
    OBVIOUS
  <2>2. new \in FullSkills /\ new.on = on /\ new.name = n
    BY <2>1 DEF FullSkills
  <2>3. PICK half : half = [o EXCEPT !.name = n]
    OBVIOUS
  <2>4. half = [name |-> n, gone |-> o.gone, top |-> o.top, on |-> o.on]
    BY <2>3 DEF FullSkills
  <2>5. new = [half EXCEPT !.on = on]
    BY <2>1, <2>4
  <2>6. skills' = [skills EXCEPT ![s].name = n, ![s].on = on]
    BY <1>1, <1>4, Zenon DEF UpdateWrites, NameIndex
  <2>7. PICK mid : mid = [skills EXCEPT ![s] = [skills[s] EXCEPT !.name = n]]
    OBVIOUS
  <2>8. skills' = [mid EXCEPT ![s] = [mid[s] EXCEPT !.on = on]]
    BY <2>6, <2>7
  <2>9. mid = [skills EXCEPT ![s] = half] /\ mid[s] = half
    BY <1>2, <1>3, <2>3, <2>7 DEF SkillInv, SkillShape
  <2>10. skills' = [mid EXCEPT ![s] = new]
    BY <2>5, <2>8, <2>9
  <2>11. skills' = [skills EXCEPT ![s] = new]
    BY <1>3, <2>9, <2>10 DEF SkillInv, SkillShape
  <2>12. switched' = IF asked = "on" THEN switched \cup {s} ELSE switched
    BY <1>0, <1>1, <1>4 DEF UpdateWrites, NameIndex
  <2>13. SkillWritten(s, new)
    BY <1>1, <1>3, <1>4, <2>2, <2>11, <2>12 DEF SkillWritten
  <2> QED
    BY <2>13, SkillMoves DEF UpdateWrites
<1>5. CASE ~NameFree(n, s)
  <2>1. skills' = skills /\ switched' = switched
    BY <1>1, <1>5 DEF UpdateWrites, NameIndex
  <2> QED
    BY <2>1, RequestMoves, NothingIsKnown DEF UpdateWrites, SkillReqEnds, SkillInv
<1> QED
  BY <1>4, <1>5

LEMMA VersionOrDeletionStep ==
    ASSUME SkillInv, NEW s \in SkillIds, SoftDelete(s) \/ AddVersion(s)
    PROVE  SkillInv'
<1>1. s \in LiveSkills /\ s \in SkillRows
  BY DEF SoftDelete, AddVersion, LiveSkills
<1>2. PICK o \in FullSkills : o = skills[s]
  BY <1>1 DEF SkillInv, SkillShape
<1>3. o.on => s \in switched
  BY <1>1, <1>2 DEF SkillInv, OnIsSwitched
<1>4. \A p \in LiveSkills \ {s} : skills[p].name # o.name
  BY <1>1, <1>2 DEF SkillInv
<1>5. CASE SoftDelete(s)
  <2>1. PICK new : new = [o EXCEPT !.gone = TRUE]
    OBVIOUS
  <2>2. new = [name |-> o.name, gone |-> TRUE, top |-> o.top, on |-> o.on]
    BY <2>1 DEF FullSkills
  <2>3. new \in FullSkills /\ new.on = o.on /\ new.gone
    BY <2>2 DEF FullSkills
  <2>4. skills' = [skills EXCEPT ![s] = new]
    BY <1>2, <1>5, <2>1, Zenon DEF SoftDelete
  <2>5. SkillWritten(s, new)
    BY <1>3, <1>5, <2>3, <2>4 DEF SkillWritten, SoftDelete
  <2> QED
    BY <1>5, <2>5, SkillMoves DEF SoftDelete
<1>6. CASE AddVersion(s)
  <2>1. PICK new : new = [o EXCEPT !.top = o.top + 1]
    OBVIOUS
  <2>2. new = [name |-> o.name, gone |-> o.gone, top |-> o.top + 1, on |-> o.on]
    BY <2>1 DEF FullSkills
  <2>3. new \in FullSkills /\ new.on = o.on /\ new.name = o.name
    BY <2>2 DEF FullSkills
  <2>4. skills' = [skills EXCEPT ![s] = new]
    BY <1>2, <1>6, <2>1, Zenon DEF AddVersion
  <2>5. SkillWritten(s, new)
    BY <1>3, <1>4, <1>6, <2>3, <2>4 DEF SkillWritten, AddVersion, NameFree
  <2> QED
    BY <1>6, <2>5, SkillMoves DEF AddVersion
<1> QED
  BY <1>5, <1>6

LEMMA SkillStays ==
    ASSUME SkillInv, Moves \/ UNCHANGED skillVars
    PROVE  SkillInv'
<1>1. /\ skills' = skills /\ attached' = attached /\ skillReq' = skillReq /\ switched' = switched
      /\ misgiven' = misgiven /\ overwrote' = overwrote
  BY DEF Moves, skillVars
<1> QED
  BY <1>1 DEF SkillInv, SkillShape, OnIsSwitched, SkillKnows, SkillRows, LiveSkills

LEMMA SkillStep ==
    ASSUME SkillInv, [SkillNext]_skillVars
    PROVE  SkillInv'
<1>1. ASSUME NEW r \in SkillReqs,
             \/ \E n \in SkillNames, t \in BOOLEAN : CreateBegins(r, n, t)
             \/ \E s \in SkillIds, top \in {0, 1} : CreateLands(r, s, top)
             \/ LessonFails(r)
             \/ \E s \in SkillIds, n \in SkillNames \cup {"same"}, on \in {"on", "off", "same"} :
                   UpdateReads(r, s, n, on)
             \/ UpdateWrites(r)
             \/ AttachReads(r) \/ \E ids \in SUBSET SkillIds : AttachSaves(r, ids)
             \/ \E who \in {"owner", "colleague"}, s \in SkillIds : TurnOffered(r, who, s)
             \/ TurnReads(r) \/ TurnGiven(r)
      PROVE  SkillInv'
  BY <1>1, BeginsStep, CreateLandsStep, UpdateReadsStep, UpdateWritesStep, AttachSavesStep,
     TurnReadsStep, TurnGivenStep
<1> QED
  BY <1>1, VersionOrDeletionStep, SkillStays DEF SkillNext

LEMMA SkillStart ==
    ASSUME SkillInit
    PROVE  SkillInv
<1>1. SkillRows = {} /\ LiveSkills = {}
  BY DEF SkillInit, SkillRows, LiveSkills
<1>2. SkillShape /\ OnIsSwitched
  BY <1>1 DEF SkillInit, SkillShape, OnIsSwitched
<1>3. \A r \in SkillReqs : SkillKnows(skillReq[r])
  BY DEF SkillInit, SkillKnows, NoSkillReq
<1> QED
  BY <1>1, <1>2, <1>3 DEF SkillInit, SkillInv

\* A turn is handed a skill only as it stands when it asks, and never a taught one its owner
\* did not switch on; live skills keep different names and no attach replaces what its tab did
\* not see, for any number of skills, requests and versions (for_turn, set_coworker_skills).
THEOREM SkillsAreRight == SkillSpec => []SkillsHold
<1>1. SkillInit => SkillInv
  BY SkillStart
<1>2. SkillInv /\ [SkillNext]_skillVars => SkillInv'
  BY SkillStep
<1>3. SkillInv => SkillsHold
  BY DEF SkillInv, SkillsHold, HandedAsItStands, NamesAndSetsHold
<1> QED
  BY <1>1, <1>2, <1>3, PTL DEF SkillSpec

-----------------------------------------------------------------------------
(***************************************************************************)
(* HELD SENDS.  A message that was sent is off the queue for good: every   *)
(* run that carried it is over but the one its row names.  What waited     *)
(* when the relay connected has a task that has not given up on it: one    *)
(* still to list, one at work, or one told to look again.                  *)
(***************************************************************************)
MsgRows == [st : {"none", "pending", "drained", "gone"}, ver : Nat, by : TurnRuns \cup {NoRun}]
TurnPosts == [pc : {"drain", "claim"}, m : Msgs, ver : Nat, run : TurnRuns,
              of : TurnRuns \cup {NoRun}, held : BOOLEAN]

HeldShape ==
    /\ row \in [Msgs -> MsgRows]
    /\ trun \in [TurnRuns -> {"none", "live", "ended"}]
    /\ post \in [Posts -> {NoPost} \cup TurnPosts]
    /\ drain \in [Drains -> {"none", "list", "send", "turn", "stream", "stop"}]
    /\ sent \subseteq Msgs \X Nat \X TurnRuns \X (TurnRuns \cup {NoRun})
    /\ mark \in {"off", "on", "again"}

\* A message on its way into a run, or sent: off the queue, its words settled.
ClaimOK(p) ==
    p.pc = "claim" =>
        /\ row[p.m].st = "drained"
        /\ p.of = NoRun => p.ver = row[p.m].ver
        /\ trun[p.run] = "none" => row[p.m].by = p.run
SentOK(s) ==
    /\ row[s[1]].st = "drained" /\ trun[s[3]] # "none"
    /\ trun[s[3]] = "ended" \/ row[s[1]].by = s[3]
    /\ s[4] = NoRun => s[2] = row[s[1]].ver
QueueOK ==
    /\ \A m \in Msgs : row[m].st = "drained" => row[m].by \in TurnRuns
    /\ \A q \in Posts : ClaimOK(post[q])
    /\ \A s \in sent : SentOK(s)

AtWork(d) == drain[d] \in {"send", "turn", "stream"}
WakeOK ==
    /\ \A m \in Msgs : m \in owed => row[m].st # "none"
    /\ ~up => owed = {}
    /\ mark # "off" => \E d \in Drains : AtWork(d) \/ drain[d] = "stop"
    /\ owed \cap Pending # {} =>
          \E d \in Drains : \/ drain[d] = "list" \/ AtWork(d)
                            \/ drain[d] = "stop" /\ mark = "again"

HeldInv == HeldShape /\ QueueOK /\ WakeOK

LEMMA HeldFacts == Msgs \subseteq Nat /\ MaxVer \in Nat /\ NoRun \notin TurnRuns
BY HeldSendsAssumption DEF NoRun

LEMMA SendsAreRightNow == HeldInv => SendsHold
<1> SUFFICES ASSUME HeldInv PROVE SendsHold
  OBVIOUS
<1>1. ASSUME NEW s \in sent, NEW t \in sent, s[1] = t[1], s[3] # t[3]
      PROVE  "ended" \in {trun[s[3]], trun[t[3]]}
  BY <1>1 DEF HeldInv, QueueOK, SentOK
<1>2. \A s \in sent : s[4] = NoRun => s[2] = row[s[1]].ver
  BY DEF HeldInv, QueueOK, SentOK
<1>3. NoWakeupLost
  BY DEF HeldInv, WakeOK, NoWakeupLost, AtWork
<1> QED
  BY <1>1, <1>2, <1>3 DEF SendsHold, OneRunCarriesIt

\* What leaves the queue's half of the invariant as it was: the rows of messages on their way
\* and sent, and the runs, but that one may end.
LEMMA QueueKept ==
    ASSUME HeldInv, HeldShape', post' = post, sent' = sent,
           \A m \in Msgs : \/ row'[m] = row[m]
                           \/ row[m].st # "drained" /\ row'[m].st # "drained",
           \A r \in TurnRuns : \/ trun'[r] = trun[r]
                               \/ trun[r] # "none" /\ trun'[r] = "ended"
    PROVE  QueueOK'
<1>1. \A m \in Msgs : row'[m].st = "drained" => row'[m].by \in TurnRuns
  BY DEF HeldInv, QueueOK
<1>2. ASSUME NEW q \in Posts PROVE ClaimOK(post[q])'
  <2>1. CASE post[q] \in TurnPosts
    <3>1. PICK p \in TurnPosts : p = post[q]
      BY <2>1
    <3>2. ClaimOK(p)
      BY <3>1 DEF HeldInv, QueueOK
    <3>3. p.m \in Msgs /\ p.run \in TurnRuns
      BY DEF TurnPosts
    <3>4. post'[q] = p
      BY <3>1
    <3> QED
      BY <3>2, <3>3, <3>4 DEF ClaimOK
  <2>2. CASE post[q] = NoPost
    BY <2>2 DEF ClaimOK, NoPost
  <2> QED
    BY <2>1, <2>2 DEF HeldInv, HeldShape
<1>3. ASSUME NEW s \in sent PROVE SentOK(s)'
  <2>1. s[1] \in Msgs /\ s[3] \in TurnRuns
    BY DEF HeldInv, HeldShape
  <2>2. SentOK(s)
    BY DEF HeldInv, QueueOK
  <2> QED
    BY <2>1, <2>2 DEF SentOK
<1> QED
  BY <1>1, <1>2, <1>3 DEF QueueOK

\* What leaves its waking half: nothing returns to the queue, and no task rests.
LEMMA WakeKept ==
    ASSUME HeldInv,
           \A m \in Msgs : /\ row'[m].st = "none" => row[m].st = "none"
                           /\ row'[m].st = "pending" => row[m].st \in {"none", "pending"},
           \/ owed' = owed
           \/ owed' = {},
           up' = up \/ owed' = {},
           mark' = mark,
           \A d \in Drains : \/ drain'[d] = drain[d]
                             \/ drain'[d] \in {"send", "turn", "stream"}
                             \/ owed' \cap Pending' = {} /\ drain'[d] = "stop"
    PROVE  WakeOK'
<1>1. owed' \cap Pending' \subseteq owed \cap Pending
  BY DEF HeldInv, WakeOK, Pending
<1>2. owed' \cap Pending' # {} =>
        \E d \in Drains : \/ drain'[d] = "list" \/ AtWork(d)'
                          \/ drain'[d] = "stop" /\ mark' = "again"
  <2> SUFFICES ASSUME owed' \cap Pending' # {}
               PROVE  \E d \in Drains : \/ drain'[d] = "list" \/ AtWork(d)'
                                        \/ drain'[d] = "stop" /\ mark' = "again"
    OBVIOUS
  <2>1. PICK d \in Drains : \/ drain[d] = "list" \/ AtWork(d)
                            \/ drain[d] = "stop" /\ mark = "again"
    BY <1>1 DEF HeldInv, WakeOK
  <2> QED
    BY <2>1 DEF AtWork
<1>3. \A m \in Msgs : m \in owed' => row'[m].st # "none"
  BY DEF HeldInv, WakeOK
<1>4. ~up' => owed' = {}
  BY DEF HeldInv, WakeOK
<1>5. mark' # "off" => \E d \in Drains : AtWork(d)' \/ drain'[d] = "stop"
  BY DEF HeldInv, WakeOK, AtWork
<1> QED
  BY <1>2, <1>3, <1>4, <1>5 DEF WakeOK

LEMMA RowsMove ==
    ASSUME HeldInv, NEW m \in Msgs, Enqueued(m) \/ Edited(m) \/ Canceled(m)
    PROVE  HeldInv'
<1>1. PICK o \in MsgRows : o = row[m]
  BY DEF HeldInv, HeldShape
<1>2. PICK new \in MsgRows :
         /\ row' = [row EXCEPT ![m] = new]
         /\ new.st \in {"pending", "gone"} /\ o.st \in {"none", "pending"}
         /\ new.st = "pending" \/ o.st = "pending"
         /\ new.by = o.by
  <2>1. CASE Enqueued(m)
    <3>1. PICK new : new = [o EXCEPT !.st = "pending"]
      OBVIOUS
    <3>2. new = [st |-> "pending", ver |-> o.ver, by |-> o.by]
      BY <3>1 DEF MsgRows
    <3>3. row' = [row EXCEPT ![m] = new]
      BY <1>1, <2>1, <3>1, Zenon DEF Enqueued
    <3>4. new \in MsgRows /\ new.by = o.by
      BY <3>2 DEF MsgRows
    <3>5. new.st = "pending" /\ o.st = "none"
      BY <1>1, <2>1, <3>2 DEF Enqueued
    <3> QED
      BY <3>3, <3>4, <3>5
  <2>2. CASE Edited(m)
    <3>1. PICK new : new = [o EXCEPT !.ver = o.ver + 1]
      OBVIOUS
    <3>2. new = [st |-> o.st, ver |-> o.ver + 1, by |-> o.by]
      BY <3>1 DEF MsgRows
    <3>3. row' = [row EXCEPT ![m] = new]
      BY <1>1, <2>2, <3>1, Zenon DEF Edited
    <3>4. new \in MsgRows /\ new.by = o.by
      BY <3>2 DEF MsgRows
    <3>5. new.st = "pending" /\ o.st = "pending"
      BY <1>1, <2>2, <3>2 DEF Edited
    <3> QED
      BY <3>3, <3>4, <3>5
  <2>3. CASE Canceled(m)
    <3>1. PICK new : new = [o EXCEPT !.st = "gone"]
      OBVIOUS
    <3>2. new = [st |-> "gone", ver |-> o.ver, by |-> o.by]
      BY <3>1 DEF MsgRows
    <3>3. row' = [row EXCEPT ![m] = new]
      BY <1>1, <2>3, <3>1, Zenon DEF Canceled
    <3> QED
      BY <1>1, <2>3, <3>2, <3>3 DEF Canceled, MsgRows
  <2> QED
    BY <2>1, <2>2, <2>3
<1>3. \A n \in Msgs : row'[n] = IF n = m THEN new ELSE row[n]
  BY <1>2 DEF HeldInv, HeldShape
<1>4. UNCHANGED <<trun, up, mark, post, drain, sent, owed>>
  BY DEF Enqueued, Edited, Canceled
<1>5. HeldShape'
  BY <1>2, <1>4 DEF HeldInv, HeldShape
<1>6. QueueOK'
  BY <1>1, <1>2, <1>3, <1>4, <1>5, QueueKept
<1>7. WakeOK'
  BY <1>1, <1>2, <1>3, <1>4, WakeKept
<1> QED
  BY <1>5, <1>6, <1>7 DEF HeldInv

LEMMA PostedStep ==
    ASSUME HeldInv, NEW q \in Clients, NEW m \in Msgs, NEW v \in 0 .. MaxVer, NEW r \in TurnRuns,
           NEW of \in TurnRuns \cup {NoRun}, TurnPosted(q, m, v, r, of)
    PROVE  HeldInv'
<1>0. PICK held \in BOOLEAN : held = ~up
  OBVIOUS
<1>1. PICK p : p = [pc |-> "drain", m |-> m, ver |-> v, run |-> r, of |-> of, held |-> held]
  OBVIOUS
<1>2. post' = [post EXCEPT ![q] = p]
  BY <1>0, <1>1, Zenon DEF TurnPosted
<1>3. p \in TurnPosts /\ p.pc = "drain" /\ q \in Posts
  BY <1>1, HeldFacts DEF TurnPosts, Posts
<1>4. UNCHANGED <<row, trun, up, mark, drain, sent, owed>>
  BY DEF TurnPosted
<1>5. HeldShape'
  BY <1>2, <1>3, <1>4 DEF HeldInv, HeldShape
<1>6. QueueOK'
  <2>1. \A s \in Posts : post'[s] = post[s] \/ post'[s] = p
    BY <1>2, <1>3 DEF HeldInv, HeldShape
  <2>2. \A s \in Posts : ClaimOK(post[s])'
    BY <1>3, <1>4, <2>1 DEF ClaimOK, HeldInv, QueueOK
  <2> QED
    BY <1>4, <2>2 DEF HeldInv, QueueOK, SentOK
<1>7. WakeOK'
  BY <1>4, WakeKept
<1> QED
  BY <1>5, <1>6, <1>7 DEF HeldInv

\* A post that is turned away.
LEMMA RefusedKeeps ==
    ASSUME HeldInv, NEW q \in Posts, TellsRefusal(q), UNCHANGED <<row, trun, up, mark, sent>>
    PROVE  HeldInv'
<1>1. /\ \A d \in Drains : drain'[d] = IF d = q THEN "stop" ELSE drain[d]
      /\ drain' \in [Drains -> {"none", "list", "send", "turn", "stream", "stop"}]
  BY DEF TellsRefusal, HeldInv, HeldShape
<1>2. owed' = (IF q \in Drains THEN {} ELSE owed) /\ post' = [post EXCEPT ![q] = NoPost]
  BY DEF TellsRefusal
<1>3. HeldShape'
  BY <1>1, <1>2 DEF HeldInv, HeldShape
<1>4. \A s \in Posts : post'[s] = post[s] \/ post'[s] = NoPost
  BY <1>2 DEF HeldInv, HeldShape
<1>5. \A s \in Posts : ClaimOK(post[s])'
  BY <1>4 DEF ClaimOK, HeldInv, QueueOK, NoPost
<1>6. QueueOK'
  BY <1>5 DEF HeldInv, QueueOK, SentOK
<1>7. \A d \in Drains : d = q => owed' = {}
  BY <1>2
<1>8. WakeOK'
  BY <1>1, <1>2, <1>7, WakeKept
<1> QED
  BY <1>3, <1>6, <1>8 DEF HeldInv

\* The row goes to the post's run: off the queue for the first time, or from a run that is over.
LEMMA TakenKeeps ==
    ASSUME HeldInv, NEW q \in Posts, NEW p \in TurnPosts, p = post[q], p.pc = "drain",
           NEW m \in Msgs, NEW o \in MsgRows, m = p.m, o = row[m],
           \/ o.st = "drained" /\ p.of = o.by /\ trun[o.by] = "ended"
           \/ o.st = "pending" /\ p.ver = o.ver,
           row' = [row EXCEPT ![m].st = "drained", ![m].by = p.run],
           post' = [post EXCEPT ![q].pc = "claim"],
           UNCHANGED <<trun, up, mark, drain, sent, owed>>
    PROVE  HeldInv'
<1>1. PICK new : new = [st |-> "drained", ver |-> o.ver, by |-> p.run]
  OBVIOUS
<1>2. /\ new \in MsgRows /\ p.run \in TurnRuns
      /\ new.st = "drained" /\ new.ver = o.ver /\ new.by = p.run
  BY <1>1 DEF MsgRows, TurnPosts
<1>3. row' = [row EXCEPT ![m] = new]
  <2>1. PICK half : half = [o EXCEPT !.st = "drained"]
    OBVIOUS
  <2>2. half = [st |-> "drained", ver |-> o.ver, by |-> o.by]
    BY <2>1 DEF MsgRows
  <2>3. new = [half EXCEPT !.by = p.run]
    BY <1>1, <2>2
  <2>4. PICK mid : mid = [row EXCEPT ![m] = [row[m] EXCEPT !.st = "drained"]]
    OBVIOUS
  <2>5. row' = [mid EXCEPT ![m] = [mid[m] EXCEPT !.by = p.run]]
    BY <2>4
  <2>6. mid = [row EXCEPT ![m] = half] /\ mid[m] = half
    BY <2>1, <2>4 DEF HeldInv, HeldShape
  <2>7. row' = [mid EXCEPT ![m] = new]
    BY <2>3, <2>5, <2>6
  <2> QED
    BY <2>6, <2>7 DEF HeldInv, HeldShape
<1>4. \A n \in Msgs : row'[n] = IF n = m THEN new ELSE row[n]
  BY <1>3 DEF HeldInv, HeldShape
<1>5. PICK c : c = [p EXCEPT !.pc = "claim"]
  OBVIOUS
<1>6. c \in TurnPosts /\ c.pc = "claim" /\ c.m = m /\ c.ver = p.ver /\ c.run = p.run /\ c.of = p.of
  BY <1>5 DEF TurnPosts
<1>7. \A s \in Posts : post'[s] = IF s = q THEN c ELSE post[s]
  BY <1>5 DEF HeldInv, HeldShape
<1>8. post' \in [Posts -> {NoPost} \cup TurnPosts] /\ row' \in [Msgs -> MsgRows]
  BY <1>2, <1>3, <1>4, <1>6, <1>7 DEF HeldInv, HeldShape
<1>9. HeldShape'
  BY <1>8 DEF HeldInv, HeldShape
<1>10. o.st = "drained" => trun[o.by] = "ended"
  OBVIOUS
<1>11. ASSUME NEW s \in Posts PROVE ClaimOK(post[s])'
  <2>1. CASE s = q
    <3>1. c.of = NoRun => c.ver = new.ver
      BY <1>2, <1>6, HeldFacts DEF HeldInv, QueueOK
    <3>2. post'[s] = c /\ row'[c.m] = new
      BY <1>4, <1>6, <1>7, <2>1
    <3> QED
      BY <1>2, <1>6, <3>1, <3>2 DEF ClaimOK
  <2>2. CASE s # q
    <3>1. CASE post[s] = NoPost
      BY <1>7, <2>2, <3>1 DEF ClaimOK, NoPost
    <3>2. CASE post[s] \in TurnPosts
      <4>1. PICK t \in TurnPosts : t = post[s]
        BY <3>2
      <4>2. ClaimOK(t) /\ t.m \in Msgs
        BY <4>1 DEF HeldInv, QueueOK, TurnPosts
      <4>3. post'[s] = t
        BY <1>7, <2>2, <4>1
      <4>4. CASE t.m # m
        BY <1>4, <4>2, <4>3, <4>4 DEF ClaimOK
      <4>5. CASE t.m = m
        BY <1>2, <1>4, <1>10, <4>2, <4>3, <4>5 DEF ClaimOK
      <4> QED
        BY <4>4, <4>5
    <3> QED
      BY <3>1, <3>2 DEF HeldInv, HeldShape
  <2> QED
    BY <2>1, <2>2
<1>12. ASSUME NEW s \in sent PROVE SentOK(s)'
  <2>1. SentOK(s) /\ s[1] \in Msgs /\ s[3] \in TurnRuns
    BY DEF HeldInv, HeldShape, QueueOK
  <2>2. CASE s[1] # m
    BY <1>4, <2>1, <2>2 DEF SentOK
  <2>3. CASE s[1] = m
    BY <1>2, <1>4, <1>10, <2>1, <2>3 DEF SentOK
  <2> QED
    BY <2>2, <2>3
<1>13. QueueOK'
  BY <1>2, <1>4, <1>11, <1>12 DEF HeldInv, QueueOK
<1>14. WakeOK'
  BY <1>2, <1>4, WakeKept
<1> QED
  BY <1>9, <1>13, <1>14 DEF HeldInv

LEMMA DrainedStep ==
    ASSUME HeldInv, NEW q \in Posts, TurnDrained(q)
    PROVE  HeldInv'
<1>1. post[q].pc = "drain"
  BY DEF TurnDrained
<1>2. PICK p \in TurnPosts : p = post[q]
  BY <1>1 DEF HeldInv, HeldShape, NoPost
<1>3. PICK m \in Msgs : m = p.m
  BY DEF TurnPosts
<1>4. PICK o \in MsgRows : o = row[m]
  BY DEF HeldInv, HeldShape
<1>5. PICK fires \in BOOLEAN : fires = (p.ver = o.ver /\ ~(p.held /\ o.st = "pending"))
  OBVIOUS
<1>6. PICK retried \in BOOLEAN :
         retried = (o.st = "drained" /\ p.of = o.by /\ trun[o.by] = "ended")
  OBVIOUS
<1>7. /\ IF retried \/ (o.st = "pending" /\ fires)
         THEN /\ row' = [row EXCEPT ![m].st = "drained", ![m].by = p.run]
              /\ post' = [post EXCEPT ![q].pc = "claim"]
              /\ UNCHANGED <<drain, owed>>
         ELSE IF o.st = "drained" /\ o.by = p.run /\ fires
         THEN /\ post' = [post EXCEPT ![q].pc = "claim"]
              /\ UNCHANGED <<row, drain, owed>>
         ELSE TellsRefusal(q) /\ UNCHANGED row
      /\ UNCHANGED <<trun, up, mark, sent>>
  BY <1>2, <1>3, <1>4, <1>5, <1>6, Zenon DEF TurnDrained, EndedHere
<1>8. CASE retried \/ (o.st = "pending" /\ fires)
  <2>1. \/ o.st = "drained" /\ p.of = o.by /\ trun[o.by] = "ended"
        \/ o.st = "pending" /\ p.ver = o.ver
    BY <1>5, <1>6, <1>8
  <2>2. /\ row' = [row EXCEPT ![m].st = "drained", ![m].by = p.run]
        /\ post' = [post EXCEPT ![q].pc = "claim"]
        /\ UNCHANGED <<trun, up, mark, drain, sent, owed>>
    BY <1>7, <1>8
  <2> QED
    BY <1>1, <1>2, <1>3, <1>4, <2>1, <2>2, TakenKeeps
<1>9. CASE ~(retried \/ (o.st = "pending" /\ fires)) /\ o.st = "drained" /\ o.by = p.run /\ fires
  <2>1. post' = [post EXCEPT ![q].pc = "claim"] /\ UNCHANGED <<row, drain, owed, trun, up, mark, sent>>
    BY <1>7, <1>9
  <2>2. PICK c : c = [p EXCEPT !.pc = "claim"]
    OBVIOUS
  <2>3. c \in TurnPosts /\ c.m = m /\ c.ver = p.ver /\ c.run = p.run /\ c.of = p.of
    BY <1>3, <2>2 DEF TurnPosts
  <2>4. \A s \in Posts : post'[s] = IF s = q THEN c ELSE post[s]
    BY <1>2, <2>1, <2>2 DEF HeldInv, HeldShape
  <2>5. HeldShape'
    BY <2>1, <2>3, <2>4 DEF HeldInv, HeldShape
  <2>6. ClaimOK(c)
    BY <1>4, <1>5, <1>9, <2>3 DEF ClaimOK
  <2>7. ASSUME NEW s \in Posts PROVE ClaimOK(post[s])'
    <3>1. PICK t : t = post'[s]
      OBVIOUS
    <3>2. ClaimOK(t)
      BY <2>4, <2>6, <3>1 DEF HeldInv, QueueOK
    <3>3. ClaimOK(t)'
      BY <2>1, <3>2 DEF ClaimOK
    <3> QED
      BY <3>1, <3>3 DEF ClaimOK
  <2>8. QueueOK'
    BY <2>1, <2>7 DEF HeldInv, QueueOK, SentOK
  <2>9. WakeOK'
    BY <2>1, WakeKept
  <2> QED
    BY <2>5, <2>8, <2>9 DEF HeldInv
<1>10. CASE ~(retried \/ (o.st = "pending" /\ fires)) /\ ~(o.st = "drained" /\ o.by = p.run /\ fires)
  BY <1>7, <1>10, RefusedKeeps
<1> QED
  BY <1>8, <1>9, <1>10

\* A run that claims a message is the one its row names, and every other that carried it is over.
LEMMA ClaimedStep ==
    ASSUME HeldInv, NEW q \in Posts, TurnClaimed(q)
    PROVE  HeldInv'
<1>1. post[q].pc = "claim"
  BY DEF TurnClaimed
<1>2. PICK p \in TurnPosts : p = post[q]
  BY <1>1 DEF HeldInv, HeldShape, NoPost
<1>3. p.m \in Msgs /\ p.run \in TurnRuns /\ p.ver \in Nat /\ p.of \in TurnRuns \cup {NoRun}
  BY DEF TurnPosts
<1>4. CASE trun[p.run] # "none"
  BY <1>2, <1>4, RefusedKeeps DEF TurnClaimed
<1>5. CASE trun[p.run] = "none"
  <2>1. /\ trun' = [trun EXCEPT ![p.run] = "live"]
        /\ sent' = sent \cup {<<p.m, p.ver, p.run, p.of>>}
        /\ post' = [post EXCEPT ![q] = NoPost]
        /\ drain' = [d \in Drains |-> IF d = q THEN "stream" ELSE drain[d]]
        /\ UNCHANGED <<owed, row, up, mark>>
    BY <1>2, <1>5 DEF TurnClaimed
  <2>2. PICK new : new = <<p.m, p.ver, p.run, p.of>>
    OBVIOUS
  <2>3. new \in Msgs \X Nat \X TurnRuns \X (TurnRuns \cup {NoRun})
    BY <1>3, <2>2
  <2>4. \A r \in TurnRuns : trun'[r] = IF r = p.run THEN "live" ELSE trun[r]
    BY <2>1 DEF HeldInv, HeldShape
  <2>5. \A s \in Posts : post'[s] = IF s = q THEN NoPost ELSE post[s]
    BY <2>1 DEF HeldInv, HeldShape
  <2>6. trun' \in [TurnRuns -> {"none", "live", "ended"}] /\ post' \in [Posts -> {NoPost} \cup TurnPosts]
    BY <1>3, <2>1 DEF HeldInv, HeldShape
  <2>7. /\ drain' \in [Drains -> {"none", "list", "send", "turn", "stream", "stop"}]
        /\ \A d \in Drains : drain'[d] = IF d = q THEN "stream" ELSE drain[d]
    BY <2>1 DEF HeldInv, HeldShape
  <2>8. HeldShape'
    BY <2>1, <2>2, <2>3, <2>6, <2>7 DEF HeldInv, HeldShape
  <2>9. ASSUME NEW s \in Posts PROVE ClaimOK(post[s])'
    <3>1. CASE post'[s] = NoPost
      BY <3>1 DEF ClaimOK, NoPost
    <3>2. CASE post'[s] # NoPost
      <4>1. PICK t \in TurnPosts : t = post[s]
        BY <2>5, <3>2 DEF HeldInv, HeldShape
      <4>2. ClaimOK(t) /\ t.run \in TurnRuns /\ post'[s] = t
        BY <2>5, <3>2, <4>1 DEF HeldInv, QueueOK, TurnPosts
      <4> QED
        BY <2>1, <2>4, <4>2 DEF ClaimOK
    <3> QED
      BY <3>1, <3>2
  <2>10. ClaimOK(p)
    BY <1>2 DEF HeldInv, QueueOK
  <2>11. ASSUME NEW s \in sent' PROVE SentOK(s)'
    <3>1. CASE s = new
      <4>1. s[1] = p.m /\ s[2] = p.ver /\ s[3] = p.run /\ s[4] = p.of
        BY <2>2, <3>1
      <4>2. p.pc = "claim"
        BY <1>1, <1>2
      <4> QED
        BY <1>3, <1>5, <2>1, <2>4, <2>10, <4>1, <4>2 DEF ClaimOK, SentOK
    <3>2. CASE s \in sent
      <4>1. SentOK(s) /\ s[3] \in TurnRuns
        BY <3>2 DEF HeldInv, HeldShape, QueueOK
      <4> QED
        BY <1>5, <2>1, <2>4, <4>1 DEF SentOK
    <3> QED
      BY <2>1, <2>2, <3>1, <3>2
  <2>12. QueueOK'
    BY <2>1, <2>9, <2>11 DEF HeldInv, QueueOK
  <2>13. WakeOK'
    BY <2>1, <2>7, WakeKept
  <2> QED
    BY <2>8, <2>12, <2>13 DEF HeldInv
<1> QED
  BY <1>4, <1>5

LEMMA RunOverStep ==
    ASSUME HeldInv, NEW r \in TurnRuns, RunOver(r)
    PROVE  HeldInv'
<1>1. trun' = [trun EXCEPT ![r] = "ended"] /\ trun[r] = "live"
  BY DEF RunOver
<1>2. UNCHANGED <<row, up, mark, post, drain, sent, owed>>
  BY DEF RunOver
<1>3. HeldShape' /\ \A t \in TurnRuns : trun'[t] = IF t = r THEN "ended" ELSE trun[t]
  BY <1>1, <1>2 DEF HeldInv, HeldShape
<1>4. QueueOK'
  BY <1>1, <1>2, <1>3, QueueKept
<1>5. WakeOK'
  BY <1>2, WakeKept
<1> QED
  BY <1>3, <1>4, <1>5 DEF HeldInv

LEMMA RelayStep ==
    ASSUME HeldInv, RelayGone \/ \E d \in Drains : RelayConnected(d)
    PROVE  HeldInv'
<1>1. CASE RelayGone
  <2>1. UNCHANGED <<row, trun, mark, post, drain, sent>> /\ owed' = {}
    BY <1>1 DEF RelayGone
  <2>2. HeldShape'
    BY <2>1 DEF HeldInv, HeldShape
  <2>3. QueueOK'
    BY <2>1, <2>2, QueueKept
  <2>4. WakeOK'
    BY <2>1, WakeKept
  <2> QED
    BY <2>2, <2>3, <2>4 DEF HeldInv
<1>2. CASE \E d \in Drains : RelayConnected(d)
  <2>1. PICK d \in Drains : RelayConnected(d)
    BY <1>2
  <2>2. UNCHANGED <<row, trun, mark, post, sent>> /\ owed' = Pending /\ up' = TRUE
    BY <2>1 DEF RelayConnected
  <2>3. \A e \in Drains : drain'[e] = IF e = d THEN "list" ELSE drain[e]
    BY <2>1 DEF RelayConnected, HeldInv, HeldShape
  <2>4. HeldShape'
    BY <2>1, <2>2 DEF RelayConnected, HeldInv, HeldShape
  <2>5. QueueOK'
    BY <2>2, <2>4, QueueKept
  <2>6. mark' # "off" => \E e \in Drains : AtWork(e)' \/ drain'[e] = "stop"
    BY <2>1, <2>2, <2>3 DEF RelayConnected, HeldInv, WakeOK, AtWork
  <2>7. \A m \in Msgs : m \in owed' => row'[m].st # "none"
    BY <2>2 DEF Pending
  <2>8. WakeOK'
    BY <2>2, <2>3, <2>6, <2>7 DEF WakeOK
  <2> QED
    BY <2>4, <2>5, <2>8 DEF HeldInv
<1> QED
  BY <1>1, <1>2

\* A task that finds the mark taken leaves word for the one that works.
LEMMA ListedStep ==
    ASSUME HeldInv, NEW d \in Drains, DrainListed(d)
    PROVE  HeldInv'
<1>1. UNCHANGED <<row, trun, up, post, sent, owed>>
  BY DEF DrainListed
<1>2. Pending' = Pending
  BY <1>1 DEF Pending
<1>3. /\ drain[d] = "list"
      /\ \/ Pending = {} /\ drain' = [drain EXCEPT ![d] = "none"] /\ mark' = mark
         \/ mark = "off" /\ mark' = "on" /\ drain' = [drain EXCEPT ![d] = "send"]
         \/ mark # "off" /\ mark' = "again" /\ drain' = [drain EXCEPT ![d] = "none"]
  BY DEF DrainListed, MarkedAgain
<1>4. HeldShape'
  BY <1>1, <1>3 DEF HeldInv, HeldShape
<1>5. QueueOK'
  BY <1>1, <1>4, QueueKept
<1>6. WakeOK'
  <2>1. CASE Pending = {} /\ drain' = [drain EXCEPT ![d] = "none"] /\ mark' = mark
    <3>1. \A e \in Drains : drain'[e] = IF e = d THEN "none" ELSE drain[e]
      BY <2>1 DEF HeldInv, HeldShape
    <3>2. mark' # "off" => \E e \in Drains : AtWork(e)' \/ drain'[e] = "stop"
      BY <1>3, <2>1, <3>1 DEF HeldInv, WakeOK, AtWork
    <3> QED
      BY <1>1, <1>2, <2>1, <3>2 DEF HeldInv, WakeOK
  <2>2. CASE mark = "off" /\ mark' = "on" /\ drain' = [drain EXCEPT ![d] = "send"]
    <3>1. drain'[d] = "send"
      BY <2>2 DEF HeldInv, HeldShape
    <3>2. AtWork(d)'
      BY <3>1 DEF AtWork
    <3> QED
      BY <1>1, <3>2 DEF HeldInv, WakeOK
  <2>3. CASE mark # "off" /\ mark' = "again" /\ drain' = [drain EXCEPT ![d] = "none"]
    <3>1. PICK e \in Drains : AtWork(e) \/ drain[e] = "stop"
      BY <2>3 DEF HeldInv, WakeOK
    <3>2. e # d
      BY <1>3, <3>1 DEF AtWork
    <3>3. drain'[e] = drain[e]
      BY <2>3, <3>2 DEF HeldInv, HeldShape
    <3>4. AtWork(e)' \/ drain'[e] = "stop"
      BY <3>1, <3>3 DEF AtWork
    <3> QED
      BY <1>1, <2>3, <3>4 DEF HeldInv, WakeOK
  <2> QED
    BY <1>3, <2>1, <2>2, <2>3
<1> QED
  BY <1>4, <1>5, <1>6 DEF HeldInv

LEMMA DrainWorks ==
    ASSUME HeldInv, NEW d \in Drains, DrainSent(d) \/ DrainStreamed(d)
    PROVE  HeldInv'
<1>1. UNCHANGED <<row, trun, up, mark, sent, owed>>
  BY DEF DrainSent, DrainStreamed
<1>2. Pending' = Pending
  BY <1>1 DEF Pending
<1>3. PICK to \in {"send", "turn", "stop"} :
         drain' = [drain EXCEPT ![d] = to] /\ (to = "stop" => ~up \/ Pending = {})
  BY DEF DrainSent, DrainStreamed
<1>4. /\ \A e \in Drains : drain'[e] = IF e = d THEN to ELSE drain[e]
      /\ drain' \in [Drains -> {"none", "list", "send", "turn", "stream", "stop"}]
  BY <1>3 DEF HeldInv, HeldShape
<1>5. to = "stop" => owed' \cap Pending' = {}
  BY <1>1, <1>2, <1>3 DEF HeldInv, WakeOK
<1>6. WakeOK'
  BY <1>1, <1>4, <1>5, WakeKept
<1>7. CASE post' = post
  <2>1. HeldShape'
    BY <1>1, <1>4, <1>7 DEF HeldInv, HeldShape
  <2>2. QueueOK'
    BY <1>1, <1>7, <2>1, QueueKept
  <2> QED
    BY <1>6, <2>1, <2>2 DEF HeldInv
<1>8. CASE post' # post
  <2>1. PICK m \in Pending, r \in TurnRuns :
           post' = [post EXCEPT ![d] = [pc |-> "drain", m |-> m, ver |-> row[m].ver, run |-> r,
                                        of |-> NoRun, held |-> FALSE]]
    BY <1>8 DEF DrainSent, DrainStreamed
  <2>2. PICK p : p = [pc |-> "drain", m |-> m, ver |-> row[m].ver, run |-> r, of |-> NoRun,
                      held |-> FALSE]
    OBVIOUS
  <2>3. m \in Msgs /\ row[m].ver \in Nat
    BY DEF Pending, HeldInv, HeldShape, MsgRows
  <2>4. p \in TurnPosts /\ p.pc = "drain" /\ d \in Posts
    BY <2>2, <2>3 DEF TurnPosts, Posts
  <2>5. post' = [post EXCEPT ![d] = p]
    BY <2>1, <2>2
  <2>6. HeldShape'
    BY <1>1, <1>4, <2>4, <2>5 DEF HeldInv, HeldShape
  <2>7. \A s \in Posts : post'[s] = post[s] \/ post'[s] = p
    BY <2>4, <2>5 DEF HeldInv, HeldShape
  <2>8. \A s \in Posts : ClaimOK(post[s])'
    BY <1>1, <2>4, <2>7 DEF ClaimOK, HeldInv, QueueOK
  <2>9. QueueOK'
    BY <1>1, <2>8 DEF HeldInv, QueueOK, SentOK
  <2> QED
    BY <1>6, <2>6, <2>9 DEF HeldInv
<1> QED
  BY <1>7, <1>8

\* The task that stops goes on if it was told to look again; else nothing owed was its own.
LEMMA StoppedStep ==
    ASSUME HeldInv, NEW d \in Drains, DrainStopped(d)
    PROVE  HeldInv'
<1>1. UNCHANGED <<row, trun, up, post, sent, owed>>
  BY DEF DrainStopped
<1>2. Pending' = Pending
  BY <1>1 DEF Pending
<1>3. PICK to \in {"send", "none"} :
         /\ drain' = [drain EXCEPT ![d] = to]
         /\ to = "send" <=> mark = "again"
         /\ mark' = IF mark = "again" THEN "on" ELSE "off"
  BY DEF DrainStopped
<1>4. /\ \A e \in Drains : drain'[e] = IF e = d THEN to ELSE drain[e]
      /\ drain' \in [Drains -> {"none", "list", "send", "turn", "stream", "stop"}]
  BY <1>3 DEF HeldInv, HeldShape
<1>5. HeldShape'
  BY <1>1, <1>3, <1>4 DEF HeldInv, HeldShape
<1>6. QueueOK'
  BY <1>1, <1>5, QueueKept
<1>7. CASE to = "send"
  <2>1. AtWork(d)'
    BY <1>4, <1>7 DEF AtWork
  <2> QED
    BY <1>1, <1>5, <1>6, <2>1 DEF HeldInv, WakeOK
<1>8. CASE to = "none"
  <2>1. mark' = "off" /\ mark # "again" /\ drain[d] = "stop"
    BY <1>3, <1>8 DEF DrainStopped
  <2>2. owed' \cap Pending' # {} =>
          \E e \in Drains : \/ drain'[e] = "list" \/ AtWork(e)'
                            \/ drain'[e] = "stop" /\ mark' = "again"
    <3> SUFFICES ASSUME owed \cap Pending # {}
                 PROVE  \E e \in Drains : drain'[e] = "list" \/ AtWork(e)'
      BY <1>1, <1>2
    <3>1. PICK e \in Drains : drain[e] = "list" \/ AtWork(e)
      BY <2>1 DEF HeldInv, WakeOK
    <3>2. e # d
      BY <2>1, <3>1 DEF AtWork
    <3>3. drain'[e] = "list" \/ AtWork(e)'
      BY <1>4, <3>1, <3>2 DEF AtWork
    <3> QED
      BY <3>3
  <2>3. WakeOK'
    BY <1>1, <2>1, <2>2 DEF HeldInv, WakeOK
  <2> QED
    BY <1>5, <1>6, <2>3 DEF HeldInv
<1> QED
  BY <1>7, <1>8

LEMMA HeldStep ==
    ASSUME HeldInv, [HeldNext]_heldVars
    PROVE  HeldInv'
<1>1. CASE UNCHANGED heldVars
  <2>1. UNCHANGED <<row, trun, up, mark, post, drain, sent, owed>>
    BY <1>1 DEF heldVars
  <2>2. HeldShape'
    BY <2>1 DEF HeldInv, HeldShape
  <2>3. QueueOK'
    BY <2>1, <2>2, QueueKept
  <2>4. WakeOK'
    BY <2>1, WakeKept
  <2> QED
    BY <2>2, <2>3, <2>4 DEF HeldInv
<1>2. ASSUME NEW q \in Posts, TurnDrained(q) \/ TurnClaimed(q) \/ TurnLost(q)
      PROVE  HeldInv'
  BY <1>2, DrainedStep, ClaimedStep, RefusedKeeps DEF TurnLost
<1> QED
  BY <1>1, <1>2, RowsMove, PostedStep, RunOverStep, RelayStep, ListedStep, DrainWorks, StoppedStep
     DEF HeldNext

LEMMA HeldStart ==
    ASSUME HeldInit
    PROVE  HeldInv
<1>1. HeldShape
  BY DEF HeldInit, HeldShape, MsgRows
<1>2. \A q \in Posts : ClaimOK(post[q])
  BY DEF HeldInit, ClaimOK, NoPost
<1>3. \A m \in Msgs : row[m].st = "none"
  BY DEF HeldInit
<1> QED
  BY <1>1, <1>2, <1>3 DEF HeldInit, HeldInv, QueueOK, WakeOK

\* Two runs that carry one queued message are never both live, a run carries the words the
\* person queued, and no message that waited for the relay is forgotten while it stays, for any
\* number of messages, requests, runs and tasks (drain_pending_user_message, drain_held).
THEOREM SendsAreRight == HeldSpec => []SendsHold
<1>1. HeldInit => HeldInv
  BY HeldStart
<1>2. HeldInv /\ [HeldNext]_heldVars => HeldInv'
  BY HeldStep
<1> QED
  BY <1>1, <1>2, SendsAreRightNow, PTL DEF HeldSpec

-----------------------------------------------------------------------------
(***************************************************************************)
(* CONNECTIONS.  A credential of a disconnected sign-in that is still in   *)
(* the vault has a request under way that will look again or delete it, or *)
(* was left behind in a way that is on record; what a request is about to  *)
(* append is off exactly when it disconnects; the Bot is set to an account *)
(* whose row is connected.                                                 *)
(***************************************************************************)
ConnRecs == [st : {"none", "on", "off"}, owner : {"user", "bot"}, loan : BOOLEAN]

ReqKnows(q) ==
    /\ q.pc \in {"refresh", "verify", "purge", "renew", "pin"} => q.id \in ConnIds
    /\ q.pc = "link" => q.target \in {0} \cup ConnIds /\ q.owner \in {"user", "bot"}
    /\ q.pc = "land" => /\ q.id \in {0} \cup ConnIds /\ q.seq \in Nat
                        /\ q.seen \in ConnRecs /\ q.seen.st = "on"
    /\ q.pc = "append" => /\ q.id \in ConnIds /\ q.seq \in Nat /\ q.seen \in ConnRecs
                          /\ q.seen.st = IF q.cmd = "disconnect" THEN "off" ELSE "on"
                          /\ q.events = 0 => q.cmd # "disconnect"

ConnShape ==
    /\ conns \in [ConnIds -> ConnRecs] /\ connRow \in [ConnIds -> ConnRecs]
    /\ connSeq \in [ConnIds -> Nat]
    /\ access \subseteq ConnIds /\ renew \subseteq ConnIds
    /\ connReq = [r \in ConnReqs |-> connReq[r]]

\* Somebody is to look at this connection's secrets again.
LooksAgain(i, pcs) == \E r \in ConnReqs : connReq[r].pc \in pcs /\ connReq[r].id = i

VaultOK ==
    \A i \in ConnIds : conns[i].st = "off" =>
        /\ i \in access => LooksAgain(i, {"verify"})
        /\ i \in renew => i \in leftBehind \/ LooksAgain(i, {"verify", "purge"})
PinOK == pinned # 0 => pinned \in ConnIds /\ connRow[pinned].st = "on"

ConnInv ==
    /\ ConnShape /\ VaultOK /\ PinOK
    /\ \A r \in ConnReqs : ReqKnows(connReq[r])

LEMMA ConnFacts == 0 \notin ConnIds /\ ConnIds \subseteq Nat
BY ConnectionsAssumption

LEMMA ConnInvIsEnough == ConnInv => CredentialGoesWithIt
<1> SUFFICES ASSUME ConnInv PROVE CredentialGoesWithIt
  OBVIOUS
<1>1. ASSUME NEW i \in ConnIds, conns[i].st = "off", ConnAtRest(i)
      PROVE  i \notin access /\ (i \in renew => i \in leftBehind)
  <2>1. ~LooksAgain(i, {"verify"}) /\ ~LooksAgain(i, {"verify", "purge"})
    BY <1>1 DEF ConnAtRest, LooksAgain
  <2> QED
    BY <1>1, <2>1 DEF ConnInv, VaultOK
<1> QED
  BY <1>1 DEF ConnInv, PinOK, CredentialGoesWithIt, ConnAlive

LEMMA ConnIdleKnows == ReqKnows(ConnIdle) /\ ConnIdle.pc = "idle"
BY DEF ConnIdle, ReqKnows

\* One request moves.
ReqMoves(r, q) == connReq' = [connReq EXCEPT ![r] = q] /\ ReqKnows(q)

LEMMA ReqsAre ==
    ASSUME ConnInv, NEW r \in ConnReqs, NEW q, ReqMoves(r, q)
    PROVE  /\ connReq' = [t \in ConnReqs |-> connReq'[t]]
           /\ \A t \in ConnReqs : connReq'[t] = IF t = r THEN q ELSE connReq[t]
           /\ \A t \in ConnReqs : ReqKnows(connReq'[t])
BY DEF ConnInv, ConnShape, ReqMoves

\* Who looks again still does, when the request that moves did not or does now.
LEMMA StillLooks ==
    ASSUME ConnInv, NEW r \in ConnReqs, NEW q, ReqMoves(r, q), NEW i, NEW pcs,
           LooksAgain(i, pcs), connReq[r].pc \notin pcs \/ (q.pc \in pcs /\ q.id = i) \/ connReq[r].id # i
    PROVE  LooksAgain(i, pcs)'
<1>1. \A t \in ConnReqs : connReq'[t] = IF t = r THEN q ELSE connReq[t]
  BY ReqsAre
<1> QED
  BY <1>1 DEF LooksAgain

\* A move that touches no connection and no secret.
LEMMA ReqAlone ==
    ASSUME ConnInv, NEW r \in ConnReqs, NEW q, ReqMoves(r, q), connReq[r].pc \notin {"verify", "purge"},
           UNCHANGED <<conns, connSeq, connRow, access, renew>>,
           leftBehind' = leftBehind, pinned' \in {pinned, 0}
    PROVE  ConnInv'
<1>1. /\ connReq' = [t \in ConnReqs |-> connReq'[t]]
      /\ \A t \in ConnReqs : ReqKnows(connReq'[t])
  BY ReqsAre
<1>2. ASSUME NEW i \in ConnIds, conns[i].st = "off"
      PROVE  /\ i \in access => LooksAgain(i, {"verify"})'
             /\ i \in renew => i \in leftBehind \/ LooksAgain(i, {"verify", "purge"})'
  BY <1>2, StillLooks DEF ConnInv, VaultOK
<1>3. VaultOK'
  BY <1>2 DEF VaultOK, LooksAgain
<1>4. ConnShape' /\ PinOK'
  BY <1>1 DEF ConnInv, ConnShape, PinOK
<1> QED
  BY <1>1, <1>3, <1>4 DEF ConnInv

\* An append: the connection is what was decided, and its row with it.
LEMMA ReqWrites ==
    ASSUME ConnInv, NEW r \in ConnReqs, NEW q, ReqMoves(r, q), connReq[r].pc \notin {"verify", "purge"},
           NEW i \in ConnIds, NEW c \in ConnRecs, NEW seq \in Nat, NEW secret \in BOOLEAN,
           c.st \in {"on", "off"}, ConnWrites(i, c, seq, secret), renew' = renew,
           \/ leftBehind' = leftBehind
           \/ leftBehind' = leftBehind \cup {i},
           c.st = "off" => i \in leftBehind' \/ (q.pc = "purge" /\ q.id = i)
    PROVE  ConnInv'
<1>1. /\ connReq' = [t \in ConnReqs |-> connReq'[t]]
      /\ \A t \in ConnReqs : connReq'[t] = IF t = r THEN q ELSE connReq[t]
      /\ \A t \in ConnReqs : ReqKnows(connReq'[t])
  BY ReqsAre
<1>2. /\ conns' = [conns EXCEPT ![i] = c] /\ connRow' = [connRow EXCEPT ![i] = c]
      /\ connSeq' = [connSeq EXCEPT ![i] = seq + 1]
      /\ access' \subseteq access \cup {i} /\ (c.st = "off" => access' = access \ {i})
      /\ pinned' \in {pinned, 0} /\ (c.st = "off" => pinned' # i)
  BY ConnFacts DEF ConnWrites
<1>3. ConnShape'
  BY <1>1, <1>2 DEF ConnInv, ConnShape
<1>4. PinOK'
  BY <1>2 DEF ConnInv, ConnShape, PinOK
<1>5. ASSUME NEW j \in ConnIds, conns'[j].st = "off"
      PROVE  /\ j \in access' => LooksAgain(j, {"verify"})'
             /\ j \in renew' => j \in leftBehind' \/ LooksAgain(j, {"verify", "purge"})'
  <2>1. CASE j # i
    <3>1. conns[j].st = "off" /\ (j \in access' => j \in access)
      BY <1>2, <1>5, <2>1 DEF ConnInv, ConnShape
    <3> QED
      BY <3>1, StillLooks DEF ConnInv, VaultOK
  <2>2. CASE j = i
    <3>1. c.st = "off"
      BY <1>2, <1>5, <2>2 DEF ConnInv, ConnShape
    <3>2. i \in leftBehind' \/ LooksAgain(i, {"verify", "purge"})'
      BY <1>1, <3>1 DEF LooksAgain
    <3> QED
      BY <1>2, <2>2, <3>1, <3>2
  <2> QED
    BY <2>1, <2>2
<1>6. VaultOK'
  BY <1>5 DEF VaultOK
<1> QED
  BY <1>1, <1>3, <1>4, <1>6 DEF ConnInv

LEMMA LinkSteps ==
    ASSUME ConnInv, NEW r \in ConnReqs, LinkOpened(r) \/ LinkFailed(r) \/ CallbackLands(r)
    PROVE  ConnInv'
<1>1. UNCHANGED <<conns, connSeq, connRow, access, renew, leftBehind, pinned>>
  BY DEF LinkOpened, LinkFailed, CallbackLands
<1>2. connReq[r].pc \notin {"verify", "purge"}
  BY DEF LinkOpened, LinkFailed, CallbackLands, ConnIdle
<1>3. \E q : ReqMoves(r, q)
  <2>1. CASE LinkOpened(r)
    <3>1. PICK o \in {"user", "bot"}, t \in {0} \cup {i \in ConnIds : ConnAlive(conns[i])} :
             connReq' = [connReq EXCEPT ![r] = [pc |-> "link", target |-> t, owner |-> o]]
      BY <2>1 DEF LinkOpened
    <3>2. PICK q : q = [pc |-> "link", target |-> t, owner |-> o]
      OBVIOUS
    <3>3. q.pc = "link" /\ q.target \in {0} \cup ConnIds /\ q.owner \in {"user", "bot"}
      BY <3>2
    <3>4. ReqKnows(q)
      BY <3>3 DEF ReqKnows
    <3> QED
      BY <3>1, <3>2, <3>4 DEF ReqMoves
  <2>2. CASE LinkFailed(r)
    BY <2>2, ConnIdleKnows DEF LinkFailed, ReqMoves
  <2>3. CASE CallbackLands(r)
    <3>1. PICK o : o = connReq[r]
      OBVIOUS
    <3>2. o.pc = "link" /\ o.target \in {0} \cup ConnIds /\ o.owner \in {"user", "bot"}
      BY <2>3, <3>1 DEF CallbackLands, ConnInv, ReqKnows
    <3>3. CASE o.target # 0 /\ ConnAlive(conns[o.target])
      <4>1. PICK q : q = [pc |-> "land", id |-> o.target, seen |-> conns[o.target], seq |-> connSeq[o.target]]
        OBVIOUS
      <4>2. connReq' = [connReq EXCEPT ![r] = q]
        BY <2>3, <3>1, <3>3, <4>1 DEF CallbackLands
      <4>3. q.pc = "land" /\ q.id \in ConnIds /\ q.seq \in Nat /\ q.seen \in ConnRecs /\ q.seen.st = "on"
        BY <3>2, <3>3, <4>1 DEF ConnInv, ConnShape, ConnAlive
      <4> QED
        BY <4>2, <4>3 DEF ReqMoves, ReqKnows
    <3>4. CASE ~(o.target # 0 /\ ConnAlive(conns[o.target]))
      <4>1. PICK c : c = [NoConn EXCEPT !.st = "on", !.owner = o.owner]
        OBVIOUS
      <4>2. c = [st |-> "on", owner |-> o.owner, loan |-> FALSE]
        BY <4>1 DEF NoConn
      <4>3. c \in ConnRecs /\ c.st = "on"
        BY <3>2, <4>2 DEF ConnRecs
      <4>4. PICK q : q = [pc |-> "land", id |-> 0, seq |-> 0, seen |-> c]
        OBVIOUS
      <4>5. connReq' = [connReq EXCEPT ![r] = q]
        BY <2>3, <3>1, <3>4, <4>1, <4>4 DEF CallbackLands
      <4>6. q.pc = "land" /\ q.id = 0 /\ q.seq \in Nat /\ q.seen \in ConnRecs /\ q.seen.st = "on"
        BY <4>3, <4>4
      <4> QED
        BY <4>5, <4>6 DEF ReqMoves, ReqKnows
    <3> QED
      BY <3>3, <3>4
  <2> QED
    BY <2>1, <2>2, <2>3
<1> QED
  BY <1>1, <1>2, <1>3, ReqAlone

LEMMA CallbackAppendedStep ==
    ASSUME ConnInv, NEW r \in ConnReqs, CallbackAppended(r)
    PROVE  ConnInv'
<1>1. PICK o : o = connReq[r]
  OBVIOUS
<1>2. /\ o.pc = "land" /\ o.id \in {0} \cup ConnIds /\ o.seq \in Nat
      /\ o.seen \in ConnRecs /\ o.seen.st = "on"
  BY <1>1 DEF CallbackAppended, ConnInv, ReqKnows
<1>3. renew' = renew /\ leftBehind' = leftBehind
  BY DEF CallbackAppended
<1>4. CASE UNCHANGED <<conns, connSeq, connRow, access, pinned>> /\ connReq' = [connReq EXCEPT ![r] = ConnIdle]
  BY <1>1, <1>2, <1>3, <1>4, ConnIdleKnows, ReqAlone DEF ReqMoves
<1>5. CASE \E i \in ConnIds : /\ ConnWrites(i, o.seen, o.seq, TRUE)
                              /\ connReq' = [connReq EXCEPT ![r] = [pc |-> "renew", id |-> i]]
  <2>1. PICK i \in ConnIds : /\ ConnWrites(i, o.seen, o.seq, TRUE)
                             /\ connReq' = [connReq EXCEPT ![r] = [pc |-> "renew", id |-> i]]
    BY <1>5
  <2>2. PICK q : q = [pc |-> "renew", id |-> i]
    OBVIOUS
  <2>3. q.pc = "renew" /\ q.id = i
    BY <2>2
  <2>4. ReqMoves(r, q)
    BY <2>1, <2>2, <2>3 DEF ReqMoves, ReqKnows
  <2> QED
    BY <1>1, <1>2, <1>3, <2>1, <2>4, ReqWrites
<1>6. PICK ids : ids = IF o.id = 0 THEN FreshConn
                   ELSE {i \in {o.id} : connSeq[i] = o.seq /\ o.seq < MaxConnSeq}
  OBVIOUS
<1>7. \A i \in ids : i \in ConnIds
  BY <1>2, <1>6 DEF FreshConn
<1>8. \/ \E i \in ids : /\ ConnWrites(i, o.seen, o.seq, TRUE)
                        /\ connReq' = [connReq EXCEPT ![r] = [pc |-> "renew", id |-> i]]
      \/ /\ UNCHANGED <<conns, connSeq, connRow, access, pinned>>
         /\ connReq' = [connReq EXCEPT ![r] = ConnIdle]
  BY <1>1, <1>6 DEF CallbackAppended
<1> QED
  BY <1>4, <1>5, <1>7, <1>8

\* What goes into or out of the vault with a request that moves.
LEMMA ReqKeeps ==
    ASSUME ConnInv, NEW r \in ConnReqs, NEW q, ReqMoves(r, q), NEW i \in ConnIds,
           UNCHANGED <<conns, connSeq, connRow, pinned>>,
           leftBehind \subseteq leftBehind',
           access' \subseteq access \cup {i}, renew' \subseteq renew \cup {i},
           connReq[r].pc \in {"verify", "purge"} => connReq[r].id = i,
           conns[i].st = "off" =>
              /\ i \in access' => LooksAgain(i, {"verify"})'
              /\ i \in renew' => i \in leftBehind' \/ LooksAgain(i, {"verify", "purge"})'
    PROVE  ConnInv'
<1>1. /\ connReq' = [t \in ConnReqs |-> connReq'[t]]
      /\ \A t \in ConnReqs : ReqKnows(connReq'[t])
  BY ReqsAre
<1>2. ASSUME NEW j \in ConnIds, conns[j].st = "off"
      PROVE  /\ j \in access' => LooksAgain(j, {"verify"})'
             /\ j \in renew' => j \in leftBehind' \/ LooksAgain(j, {"verify", "purge"})'
  <2>1. CASE j = i
    BY <1>2, <2>1
  <2>2. CASE j # i
    BY <1>2, <2>2, StillLooks DEF ConnInv, VaultOK
  <2> QED
    BY <2>1, <2>2
<1>3. VaultOK'
  BY <1>2 DEF VaultOK
<1>4. ConnShape' /\ PinOK'
  BY <1>1 DEF ConnInv, ConnShape, PinOK
<1> QED
  BY <1>1, <1>3, <1>4 DEF ConnInv

LEMMA CallbackRenewedStep ==
    ASSUME ConnInv, NEW r \in ConnReqs, CallbackRenewed(r)
    PROVE  ConnInv'
<1>1. PICK i \in ConnIds : i = connReq[r].id
  BY DEF CallbackRenewed, ConnInv, ReqKnows
<1>2. connReq[r].pc = "renew" /\ ReqMoves(r, ConnIdle)
  BY ConnIdleKnows DEF CallbackRenewed, ReqMoves
<1>3. /\ UNCHANGED <<conns, connSeq, connRow, access, pinned>> /\ renew' = renew \cup {i}
      /\ leftBehind' = IF conns[i].st = "off" THEN leftBehind \cup {i} ELSE leftBehind
  BY <1>1 DEF CallbackRenewed
<1>4. conns[i].st = "off" /\ i \in access => LooksAgain(i, {"verify"})'
  BY <1>2, StillLooks DEF ConnInv, VaultOK
<1> QED
  BY <1>2, <1>3, <1>4, ReqKeeps

LEMMA AppliedIs ==
    ASSUME NEW c \in ConnRecs, NEW cmd, ConnAlive(c)
    PROVE  /\ ConnApplied(c, cmd) \in ConnRecs
           /\ ConnApplied(c, cmd).st = IF cmd = "disconnect" THEN "off" ELSE "on"
<1>1. CASE cmd \in {"lend", "revoke"}
  <2>1. PICK v \in BOOLEAN : v = (cmd = "lend")
    OBVIOUS
  <2>2. PICK d : d = [c EXCEPT !.loan = v]
    OBVIOUS
  <2>3. d = [st |-> c.st, owner |-> c.owner, loan |-> v]
    BY <2>2 DEF ConnRecs
  <2>4. d \in ConnRecs /\ d.st = "on"
    BY <2>3 DEF ConnRecs, ConnAlive
  <2>5. ConnApplied(c, cmd) = d
    BY <1>1, <2>1, <2>2 DEF ConnApplied
  <2> QED
    BY <1>1, <2>4, <2>5
<1>3. CASE cmd = "disconnect"
  <2>1. PICK v \in BOOLEAN : v = FALSE
    OBVIOUS
  <2>2. PICK d : d = [c EXCEPT !.st = "off", !.loan = v]
    OBVIOUS
  <2>3. d = [st |-> "off", owner |-> c.owner, loan |-> v]
    BY <2>2 DEF ConnRecs
  <2>4. d \in ConnRecs /\ d.st = "off"
    BY <2>3 DEF ConnRecs
  <2>5. ConnApplied(c, cmd) = d
    BY <1>3, <2>1, <2>2 DEF ConnApplied
  <2> QED
    BY <1>3, <2>4, <2>5
<1>4. CASE cmd \notin {"lend", "revoke", "disconnect"}
  <2>1. ConnApplied(c, cmd) = c
    BY <1>4 DEF ConnApplied
  <2> QED
    BY <1>4, <2>1 DEF ConnAlive
<1> QED
  BY <1>1, <1>3, <1>4

LEMMA MutateReadStep ==
    ASSUME ConnInv, NEW r \in ConnReqs, MutateRead(r)
    PROVE  ConnInv'
<1>1. PICK i \in ConnIds, cmd \in {"lend", "revoke", "rename", "disconnect"} :
         /\ conns[i].owner = "user" /\ ConnDecides(conns[i], cmd)
         /\ \E n \in ConnEvents(conns[i], cmd) :
               connReq' = [connReq EXCEPT ![r] =
                  [pc |-> "append", id |-> i, cmd |-> cmd, events |-> n,
                   seen |-> ConnApplied(conns[i], cmd), seq |-> connSeq[i]]]
  BY DEF MutateRead
<1>2. PICK c \in ConnRecs : c = conns[i]
  BY DEF ConnInv, ConnShape
<1>3. PICK d \in ConnRecs : d = ConnApplied(c, cmd) /\ d.st = IF cmd = "disconnect" THEN "off" ELSE "on"
  BY <1>1, <1>2, AppliedIs DEF ConnDecides
<1>4. PICK n \in ConnEvents(c, cmd) :
         connReq' = [connReq EXCEPT ![r] =
            [pc |-> "append", id |-> i, cmd |-> cmd, events |-> n, seen |-> d, seq |-> connSeq[i]]]
  BY <1>1, <1>2, <1>3
<1>5. n = 0 => cmd # "disconnect"
  BY <1>1, <1>2, <1>3, <1>4 DEF ConnEvents, ConnDecides, ConnAlive
<1>6. PICK q : q = [pc |-> "append", id |-> i, cmd |-> cmd, events |-> n, seen |-> d, seq |-> connSeq[i]]
  OBVIOUS
<1>7. /\ q.pc = "append" /\ q.id = i /\ q.cmd = cmd /\ q.events = n /\ q.seen = d /\ q.seq \in Nat
  BY <1>6 DEF ConnInv, ConnShape
<1>8. ReqMoves(r, q)
  BY <1>3, <1>4, <1>5, <1>6, <1>7 DEF ReqMoves, ReqKnows
<1> QED
  BY <1>8, ReqAlone DEF MutateRead, ConnIdle

\* A rewrite of the rows alone, by an append of no event: the row stays connected.
LEMMA ReqRewrites ==
    ASSUME ConnInv, NEW r \in ConnReqs, NEW q, ReqMoves(r, q), connReq[r].pc \notin {"verify", "purge"},
           NEW i \in ConnIds, NEW c \in ConnRecs, c.st = "on", ConnRewrites(i, c),
           UNCHANGED <<renew, leftBehind>>
    PROVE  ConnInv'
<1>1. /\ connReq' = [t \in ConnReqs |-> connReq'[t]]
      /\ \A t \in ConnReqs : ReqKnows(connReq'[t])
  BY ReqsAre
<1>2. connRow' = [connRow EXCEPT ![i] = c] /\ UNCHANGED <<conns, connSeq, access, pinned>>
  BY DEF ConnRewrites
<1>3. ASSUME NEW j \in ConnIds, conns[j].st = "off"
      PROVE  /\ j \in access => LooksAgain(j, {"verify"})'
             /\ j \in renew => j \in leftBehind \/ LooksAgain(j, {"verify", "purge"})'
  BY <1>3, StillLooks DEF ConnInv, VaultOK
<1>4. VaultOK'
  BY <1>2, <1>3 DEF VaultOK
<1>5. ConnShape' /\ PinOK'
  BY <1>1, <1>2 DEF ConnInv, ConnShape, PinOK
<1> QED
  BY <1>1, <1>4, <1>5 DEF ConnInv

LEMMA MutateAppendedStep ==
    ASSUME ConnInv, NEW r \in ConnReqs, MutateAppended(r)
    PROVE  ConnInv'
<1>1. PICK o : o = connReq[r]
  OBVIOUS
<1>2. /\ o.pc = "append" /\ o.id \in ConnIds /\ o.seq \in Nat /\ o.seen \in ConnRecs
      /\ o.seen.st = IF o.cmd = "disconnect" THEN "off" ELSE "on"
      /\ o.events = 0 => o.cmd # "disconnect"
  BY <1>1 DEF MutateAppended, ConnInv, ReqKnows
<1>3. PICK i \in ConnIds, c \in ConnRecs, seq \in Nat : i = o.id /\ c = o.seen /\ seq = o.seq
  BY <1>2
<1>4. PICK done : done = IF o.cmd = "disconnect" THEN [pc |-> "purge", id |-> i] ELSE ConnIdle
  OBVIOUS
<1>5. ReqKnows(done) /\ (o.cmd = "disconnect" => done.pc = "purge" /\ done.id = i)
  BY <1>4, ConnIdleKnows DEF ReqKnows
<1>6. renew' = renew /\ leftBehind' = leftBehind
  BY DEF MutateAppended
<1>7. CASE ConnWrites(i, c, seq, FALSE) /\ connReq' = [connReq EXCEPT ![r] = done]
  <2>1. ReqMoves(r, done) /\ connReq[r].pc \notin {"verify", "purge"}
    BY <1>1, <1>2, <1>5, <1>7 DEF ReqMoves
  <2>2. c.st \in {"on", "off"} /\ (c.st = "off" => done.pc = "purge" /\ done.id = i)
    BY <1>2, <1>3, <1>5
  <2> QED
    BY <1>6, <1>7, <2>1, <2>2, ReqWrites
<1>8. CASE o.events = 0 /\ ConnRewrites(i, c) /\ connReq' = [connReq EXCEPT ![r] = done]
  BY <1>1, <1>2, <1>3, <1>5, <1>6, <1>8, ReqRewrites DEF ReqMoves
<1>9. CASE /\ connReq' = [connReq EXCEPT ![r] = ConnIdle]
           /\ UNCHANGED <<conns, connSeq, connRow, access, pinned>>
  BY <1>1, <1>2, <1>6, <1>9, ConnIdleKnows, ReqAlone DEF ReqMoves
<1> QED
  BY <1>1, <1>3, <1>4, <1>7, <1>8, <1>9 DEF MutateAppended

LEMMA SecretsPurgedStep ==
    ASSUME ConnInv, NEW r \in ConnReqs, SecretsPurged(r)
    PROVE  ConnInv'
<1>1. PICK i \in ConnIds : i = connReq[r].id
  BY DEF SecretsPurged, ConnInv, ReqKnows
<1>2. connReq[r].pc = "purge" /\ ReqMoves(r, ConnIdle) /\ UNCHANGED <<conns, connSeq, connRow, pinned>>
  BY ConnIdleKnows DEF SecretsPurged, ReqMoves
<1>3. \/ access' = access \ {i} /\ renew' = renew \ {i} /\ leftBehind' = leftBehind
      \/ access' = access /\ renew' = renew /\ leftBehind' = leftBehind \cup {i}
  BY <1>1 DEF SecretsPurged
<1>4. conns[i].st = "off" /\ i \in access => LooksAgain(i, {"verify"})'
  BY <1>2, StillLooks DEF ConnInv, VaultOK
<1> QED
  BY <1>1, <1>2, <1>3, <1>4, ReqKeeps

LEMMA PinSteps ==
    ASSUME ConnInv, NEW r \in ConnReqs, PinRead(r) \/ PinWritten(r)
    PROVE  ConnInv'
<1>1. CASE PinRead(r)
  <2>1. PICK i \in ConnIds : connReq' = [connReq EXCEPT ![r] = [pc |-> "pin", id |-> i]]
    BY <1>1 DEF PinRead
  <2>2. PICK q : q = [pc |-> "pin", id |-> i]
    OBVIOUS
  <2>3. q.pc = "pin" /\ q.id = i
    BY <2>2
  <2>4. ReqMoves(r, q)
    BY <2>1, <2>2, <2>3 DEF ReqMoves, ReqKnows
  <2> QED
    BY <1>1, <2>4, ReqAlone DEF PinRead, ConnIdle
<1>2. CASE PinWritten(r)
  <2>1. PICK i \in ConnIds : i = connReq[r].id
    BY <1>2 DEF PinWritten, ConnInv, ReqKnows
  <2>2. /\ connReq[r].pc = "pin" /\ ReqMoves(r, ConnIdle)
        /\ UNCHANGED <<conns, connSeq, connRow, access, renew, leftBehind>>
        /\ pinned' = pinned \/ (pinned' = i /\ connRow[i].st = "on")
    BY <1>2, <2>1, ConnIdleKnows DEF PinWritten, ReqMoves, PinLocks, ConnAlive
  <2>3. CASE pinned' = pinned
    BY <2>2, <2>3, ReqAlone
  <2>4. CASE pinned' = i /\ connRow[i].st = "on"
    <3>1. /\ connReq' = [t \in ConnReqs |-> connReq'[t]]
          /\ \A t \in ConnReqs : ReqKnows(connReq'[t])
      BY <2>2, ReqsAre
    <3>2. ASSUME NEW j \in ConnIds, conns[j].st = "off"
          PROVE  /\ j \in access => LooksAgain(j, {"verify"})'
                 /\ j \in renew => j \in leftBehind \/ LooksAgain(j, {"verify", "purge"})'
      BY <2>2, <3>2, StillLooks DEF ConnInv, VaultOK
    <3>3. VaultOK'
      BY <2>2, <3>2 DEF VaultOK
    <3>4. ConnShape' /\ PinOK'
      BY <2>2, <2>4, <3>1 DEF ConnInv, ConnShape, PinOK
    <3> QED
      BY <3>1, <3>3, <3>4 DEF ConnInv
  <2> QED
    BY <2>2, <2>3, <2>4
<1> QED
  BY <1>1, <1>2

LEMMA RefreshBegunStep ==
    ASSUME ConnInv, NEW r \in ConnReqs, RefreshBegun(r)
    PROVE  ConnInv'
<1>1. PICK i \in renew : connReq' = [connReq EXCEPT ![r] = [pc |-> "refresh", id |-> i]]
  BY DEF RefreshBegun
<1>2. PICK q : q = [pc |-> "refresh", id |-> i]
  OBVIOUS
<1>3. q.pc = "refresh" /\ q.id = i
  BY <1>2
<1>4. ReqMoves(r, q)
  BY <1>1, <1>2, <1>3 DEF ReqMoves, ReqKnows, ConnInv, ConnShape
<1> QED
  BY <1>4, ReqAlone DEF RefreshBegun, ConnIdle

LEMMA RefreshWrittenStep ==
    ASSUME ConnInv, NEW r \in ConnReqs, RefreshWritten(r)
    PROVE  ConnInv'
<1>1. PICK i \in ConnIds : i = connReq[r].id
  BY DEF RefreshWritten, ConnInv, ReqKnows
<1>2. PICK q : q = [pc |-> "verify", id |-> i]
  OBVIOUS
<1>3. q.pc = "verify" /\ q.id = i
  BY <1>2
<1>4. connReq' = [connReq EXCEPT ![r] = q] /\ connReq[r].pc = "refresh"
  BY <1>1, <1>2 DEF RefreshWritten
<1>5. ReqMoves(r, q)
  BY <1>3, <1>4 DEF ReqMoves, ReqKnows
<1>6. \A t \in ConnReqs : connReq'[t] = IF t = r THEN q ELSE connReq[t]
  BY <1>5, ReqsAre
<1>7. LooksAgain(i, {"verify"})' /\ LooksAgain(i, {"verify", "purge"})'
  BY <1>3, <1>6 DEF LooksAgain
<1>8. /\ access' \subseteq access \cup {i} /\ renew' \subseteq renew \cup {i}
      /\ UNCHANGED <<conns, connSeq, connRow, leftBehind, pinned>>
  BY <1>1 DEF RefreshWritten
<1> QED
  BY <1>4, <1>5, <1>7, <1>8, ReqKeeps

LEMMA RefreshVerifiedStep ==
    ASSUME ConnInv, NEW r \in ConnReqs, RefreshVerified(r)
    PROVE  ConnInv'
<1>1. PICK i \in ConnIds : i = connReq[r].id
  BY DEF RefreshVerified, ConnInv, ReqKnows
<1>2. /\ ReqMoves(r, ConnIdle) /\ UNCHANGED <<conns, connSeq, connRow, leftBehind, pinned>>
      /\ connReq[r].pc = "verify"
  BY ConnIdleKnows DEF RefreshVerified, ReqMoves
<1>3. \/ conns[i].st = "on" /\ access' = access /\ renew' = renew
      \/ access' = access \ {i} /\ renew' = renew \ {i}
  BY <1>1 DEF RefreshVerified, StillConnected, ConnAlive
<1> QED
  BY <1>1, <1>2, <1>3, ReqKeeps

LEMMA RefreshRefusedStep ==
    ASSUME ConnInv, NEW r \in ConnReqs, RefreshRefused(r)
    PROVE  ConnInv'
<1>1. PICK i \in ConnIds : i = connReq[r].id
  BY DEF RefreshRefused, ConnInv, ReqKnows
<1>2. /\ ReqMoves(r, ConnIdle) /\ renew' = renew /\ connReq[r].pc = "refresh"
  BY ConnIdleKnows DEF RefreshRefused, ReqMoves
<1>3. CASE /\ ConnAlive(conns[i])
           /\ ConnWrites(i, ConnApplied(conns[i], "disconnect"), connSeq[i], FALSE)
           /\ leftBehind' = leftBehind \cup {i}
  <2>1. PICK c \in ConnRecs, seq \in Nat : c = ConnApplied(conns[i], "disconnect") /\ seq = connSeq[i] /\ c.st = "off"
    BY <1>3, AppliedIs DEF ConnInv, ConnShape
  <2>2. ConnWrites(i, c, seq, FALSE)
    BY <1>3, <2>1
  <2> QED
    BY <1>2, <1>3, <2>1, <2>2, ReqWrites
<1>4. CASE UNCHANGED <<conns, connSeq, connRow, access, pinned, leftBehind>>
  BY <1>2, <1>4, ReqAlone
<1> QED
  BY <1>1, <1>3, <1>4 DEF RefreshRefused

LEMMA ConnStart == ConnInit => ConnInv
<1> SUFFICES ASSUME ConnInit PROVE ConnInv
  OBVIOUS
<1>1. PICK v \in BOOLEAN : v = FALSE
  OBVIOUS
<1>2. NoConn = [st |-> "none", owner |-> "user", loan |-> v]
  BY <1>1 DEF NoConn
<1>3. NoConn \in ConnRecs /\ NoConn.st = "none"
  BY <1>2 DEF ConnRecs
<1>4. ConnShape /\ PinOK
  BY <1>3 DEF ConnInit, ConnShape, PinOK
<1>5. VaultOK
  BY <1>3 DEF ConnInit, VaultOK
<1> QED
  BY <1>4, <1>5, ConnIdleKnows DEF ConnInit, ConnInv

LEMMA ConnStep == ConnInv /\ [ConnNext]_connVars => ConnInv'
<1> SUFFICES ASSUME ConnInv, [ConnNext]_connVars PROVE ConnInv'
  OBVIOUS
<1>1. CASE UNCHANGED <<conns, connSeq, connRow, access, renew, leftBehind, connReq>> /\ pinned' \in {pinned, 0}
  BY <1>1 DEF ConnInv, ConnShape, VaultOK, PinOK, LooksAgain, ReqKnows
<1>2. CASE AttemptDismissed \/ Unpinned \/ UNCHANGED connVars
  BY <1>1, <1>2 DEF AttemptDismissed, Unpinned, connVars
<1>3. ASSUME NEW r \in ConnReqs,
             \/ LinkOpened(r) \/ LinkFailed(r) \/ CallbackLands(r) \/ CallbackAppended(r)
             \/ CallbackRenewed(r) \/ MutateRead(r) \/ MutateAppended(r) \/ SecretsPurged(r)
             \/ PinRead(r) \/ PinWritten(r) \/ RefreshBegun(r) \/ RefreshWritten(r)
             \/ RefreshVerified(r) \/ RefreshRefused(r)
      PROVE  ConnInv'
  BY <1>3, LinkSteps, CallbackAppendedStep, CallbackRenewedStep, MutateReadStep, MutateAppendedStep,
     SecretsPurgedStep, PinSteps, RefreshBegunStep, RefreshWrittenStep, RefreshVerifiedStep,
     RefreshRefusedStep
<1> QED
  BY <1>2, <1>3 DEF ConnNext

\* "A disconnected connection keeps its record and loses its credential": whatever refreshes,
\* callbacks and reconnects were under way, once they are done nothing of it is in the vault that
\* a failed delete, a refusal or a late callback did not leave, and no Bot is set to it.
THEOREM CredentialsAreLost == ConnSpec => []CredentialGoesWithIt
<1>1. ConnInit => ConnInv
  BY ConnStart
<1>2. ConnInv /\ [ConnNext]_connVars => ConnInv'
  BY ConnStep
<1>3. ConnInv => CredentialGoesWithIt
  BY ConnInvIsEnough
<1> QED
  BY <1>1, <1>2, <1>3, PTL DEF ConnSpec

-----------------------------------------------------------------------------
(***************************************************************************)
(* PLUGINS.  A pasted token is of the installation there is, so of the one *)
(* a turn read if that is still the same; an edit whose version is still   *)
(* the ceiling's holds the ceiling with its one entry changed.             *)
(***************************************************************************)
PastedIsOfNow ==
    \A i \in AccIds : accounts[i].st = "on" /\ accounts[i].kind = "token" =>
        plugin # 0 /\ accounts[i].made = plugin

EditKnows(q) ==
    q.pc = "save" =>
        /\ q.ver \in Nat /\ q.ver <= ceiling.ver
        /\ q.ver = ceiling.ver =>
              q.set = IF q.on THEN ceiling.on \cup {q.name} ELSE ceiling.on \ {q.name}

IsAccount(a) == \E s, k, m : a = [st |-> s, kind |-> k, made |-> m]

PlugInv ==
    /\ accounts = [i \in AccIds |-> accounts[i]] /\ \A i \in AccIds : IsAccount(accounts[i])
    /\ edit = [e \in Editors |-> edit[e]]
    /\ ceiling.ver \in Nat /\ ceiling.on = meant
    /\ PastedIsOfNow
    /\ \A e \in Editors : EditKnows(edit[e])
    /\ handed.kind = "token" => handed.made = handed.inc

\* The ceiling keeps its version or gets a higher one, and what was saved is what is meant.
CeilingMoves ==
    /\ ceiling'.ver \in Nat /\ ceiling'.on = meant'
    /\ ceiling'.ver = ceiling.ver => ceiling'.on = ceiling.on
    /\ ceiling'.ver >= ceiling.ver

LEMMA TurnedOff ==
    ASSUME NEW a, IsAccount(a)
    PROVE  /\ IsAccount([a EXCEPT !.st = "off"])
           /\ [a EXCEPT !.st = "off"].st = "off"
           /\ [a EXCEPT !.st = "off"].kind = a.kind /\ [a EXCEPT !.st = "off"].made = a.made
<1>1. PICK s, k, m : a = [st |-> s, kind |-> k, made |-> m]
  BY DEF IsAccount
<1>2. PICK b : b = [st |-> "off", kind |-> k, made |-> m]
  OBVIOUS
<1>3. [a EXCEPT !.st = "off"] = b
  BY <1>1, <1>2
<1>4. IsAccount(b) /\ b.st = "off" /\ b.kind = a.kind /\ b.made = a.made
  BY <1>1, <1>2 DEF IsAccount
<1> QED
  BY <1>3, <1>4

LEMMA EditsStillKnow ==
    ASSUME PlugInv, CeilingMoves, NEW q, EditKnows(q)
    PROVE  EditKnows(q)'
BY DEF PlugInv, CeilingMoves, EditKnows

LEMMA CeilingTaken ==
    ASSUME PlugInv, NEW set,
           ceiling' = [on |-> set, ver |-> IF set = ceiling.on THEN ceiling.ver ELSE ceiling.ver + 1],
           meant' = set
    PROVE  CeilingMoves
BY DEF PlugInv, CeilingMoves

\* What moves the ceiling and one request.
LEMMA CeilingStep ==
    ASSUME PlugInv, CeilingMoves, UNCHANGED <<plugin, accounts, handed>>, NEW e \in Editors, NEW q,
           edit' = [edit EXCEPT ![e] = q], EditKnows(q)'
    PROVE  PlugInv'
<1>1. edit' = [f \in Editors |-> edit'[f]]
  BY DEF PlugInv
<1>2. ASSUME NEW f \in Editors PROVE EditKnows(edit[f])'
  <2>1. CASE f = e
    BY <2>1 DEF PlugInv
  <2>2. CASE f # e
    <3>1. PICK o : o = edit[f]
      OBVIOUS
    <3>2. edit'[f] = o
      BY <2>2, <3>1 DEF PlugInv
    <3> QED
      BY <3>1, <3>2, EditsStillKnow DEF PlugInv, EditKnows
  <2> QED
    BY <2>1, <2>2
<1> QED
  BY <1>1, <1>2 DEF PlugInv, PastedIsOfNow, CeilingMoves, EditKnows

\* What leaves the requests alone.
LEMMA AccountsStep ==
    ASSUME PlugInv, CeilingMoves, UNCHANGED edit,
           accounts' = [i \in AccIds |-> accounts'[i]], \A i \in AccIds : IsAccount(accounts'[i]),
           PastedIsOfNow',
           handed'.kind = "token" => handed'.made = handed'.inc
    PROVE  PlugInv'
<1>1. ASSUME NEW f \in Editors PROVE EditKnows(edit[f])'
  <2>1. PICK o : o = edit[f]
    OBVIOUS
  <2> QED
    BY <2>1, EditsStillKnow DEF PlugInv, EditKnows
<1> QED
  BY <1>1 DEF PlugInv, CeilingMoves, EditKnows

LEMMA SameCeiling ==
    ASSUME PlugInv, UNCHANGED <<ceiling, meant>>
    PROVE  CeilingMoves
BY DEF PlugInv, CeilingMoves

LEMMA SwitchedOffMoves ==
    ASSUME PlugInv, SwitchedOff
    PROVE  CeilingMoves
<1>1. CASE "plug" \in ceiling.on
  BY <1>1 DEF PlugInv, CeilingMoves, SwitchedOff
<1>2. CASE "plug" \notin ceiling.on
  BY <1>2 DEF PlugInv, CeilingMoves, SwitchedOff
<1> QED
  BY <1>1, <1>2

LEMMA PlugAccountSteps ==
    ASSUME PlugInv,
           HeadMoves \/ HeadForgotten \/ PluginInstalled \/ PluginUninstalled \/ TokenPasted
             \/ AccountRemoved \/ TurnPolicyRead \/ TurnInstallRead
    PROVE  PlugInv'
<1>1. UNCHANGED <<edit, handed>>
  BY DEF HeadMoves, HeadForgotten, PluginInstalled, PluginUninstalled, TokenPasted, AccountRemoved,
         TurnPolicyRead, TurnInstallRead
<1>2. CeilingMoves
  BY SameCeiling, SwitchedOffMoves
  DEF HeadMoves, HeadForgotten, PluginInstalled, PluginUninstalled, TokenPasted, AccountRemoved,
      TurnPolicyRead, TurnInstallRead
<1>3. CASE UNCHANGED <<plugin, accounts>>
  BY <1>1, <1>2, <1>3, AccountsStep DEF PlugInv, PastedIsOfNow
<1>4. CASE PluginInstalled
  BY <1>1, <1>2, <1>4, AccountsStep DEF PluginInstalled, PlugInv, PastedIsOfNow
<1>5. CASE PluginUninstalled
  <2>1. accounts' = [i \in AccIds |-> accounts'[i]]
    BY <1>5 DEF PluginUninstalled
  <2>2. ASSUME NEW i \in AccIds PROVE accounts'[i].st # "on" /\ IsAccount(accounts'[i])
    <3>0. PICK a : a = accounts[i] /\ IsAccount(a)
      BY DEF PlugInv
    <3>1. CASE a.st = "on"
      <4>1. accounts'[i] = [a EXCEPT !.st = "off"]
        BY <1>5, <3>0, <3>1 DEF PluginUninstalled, Bound
      <4> QED
        BY <3>0, <4>1, TurnedOff
    <3>2. CASE a.st # "on"
      BY <1>5, <3>0, <3>2 DEF PluginUninstalled, Bound
    <3> QED
      BY <3>1, <3>2
  <2> QED
    BY <1>1, <1>2, <2>1, <2>2, AccountsStep DEF PlugInv, PastedIsOfNow
<1>6. CASE TokenPasted
  <2>1. PICK i \in AccIds :
           accounts' = [accounts EXCEPT ![i] =
              [st |-> "on", kind |-> IF @.st = "on" THEN @.kind ELSE "token", made |-> plugin]]
    BY <1>6 DEF TokenPasted, Bound, NewAccount
  <2>2. accounts'[i].made = plugin /\ plugin # 0 /\ IsAccount(accounts'[i])
    <3>1. PICK k : accounts' = [accounts EXCEPT ![i] = [st |-> "on", kind |-> k, made |-> plugin]]
      BY <2>1
    <3> QED
      BY <1>6, <3>1 DEF TokenPasted, PlugInv, IsAccount
  <2>3. \A j \in AccIds : j # i => accounts'[j] = accounts[j]
    BY <2>1 DEF PlugInv
  <2>4. UNCHANGED plugin
    BY <1>6 DEF TokenPasted
  <2>5. PastedIsOfNow'
    BY <2>2, <2>3, <2>4 DEF PlugInv, PastedIsOfNow
  <2> QED
    BY <1>1, <1>2, <2>1, <2>2, <2>3, <2>5, AccountsStep DEF PlugInv
<1>7. CASE AccountRemoved
  <2>1. PICK i \in AccIds : accounts' = [accounts EXCEPT ![i].st = "off"]
    BY <1>7 DEF AccountRemoved, Bound
  <2>2. accounts'[i].kind = accounts[i].kind /\ accounts'[i].made = accounts[i].made /\ IsAccount(accounts'[i])
    <3>1. PICK a : a = accounts[i] /\ IsAccount(a)
      BY DEF PlugInv
    <3>2. accounts'[i] = [a EXCEPT !.st = "off"]
      BY <2>1, <3>1 DEF PlugInv
    <3> QED
      BY <3>1, <3>2, TurnedOff
  <2>3. \A j \in AccIds : j # i => accounts'[j] = accounts[j]
    BY <2>1 DEF PlugInv
  <2>4. accounts'[i].st = "on" => accounts[i].st = "on"
    BY <1>7 DEF AccountRemoved, Bound, PlugInv
  <2>5. UNCHANGED plugin
    BY <1>7 DEF AccountRemoved
  <2>6. PastedIsOfNow'
    BY <2>2, <2>3, <2>4, <2>5 DEF PlugInv, PastedIsOfNow
  <2> QED
    BY <1>1, <1>2, <2>1, <2>2, <2>3, <2>6, AccountsStep DEF PlugInv
<1> QED
  BY <1>3, <1>4, <1>5, <1>6, <1>7 DEF HeadMoves, HeadForgotten, TurnPolicyRead, TurnInstallRead

LEMMA McpSteps ==
    ASSUME PlugInv, NEW e \in Editors, McpSignIn(e) \/ McpConnected(e)
    PROVE  PlugInv'
<1>1. UNCHANGED <<plugin, handed>> /\ CeilingMoves
  BY SameCeiling DEF McpSignIn, McpConnected
<1>2. PICK q : edit' = [edit EXCEPT ![e] = q] /\ q.pc # "save"
  <2>1. CASE McpSignIn(e)
    <3>1. PICK q : q = [pc |-> "mcp", inc |-> plugin]
      OBVIOUS
    <3> QED
      BY <2>1, <3>1, q.pc = "mcp" DEF McpSignIn
  <2>2. CASE McpConnected(e)
    <3>1. PICK q : q = NoEdit
      OBVIOUS
    <3> QED
      BY <2>2, <3>1, q.pc = "idle" DEF McpConnected, NoEdit
  <2> QED
    BY <2>1, <2>2
<1>3. edit' = [f \in Editors |-> edit'[f]]
  BY <1>2 DEF PlugInv
<1>4. ASSUME NEW f \in Editors PROVE EditKnows(edit[f])'
  <2>1. CASE f = e
    BY <1>2, <2>1 DEF PlugInv, EditKnows
  <2>2. CASE f # e
    <3>1. PICK o : o = edit[f]
      OBVIOUS
    <3>2. edit'[f] = o
      BY <1>2, <2>2, <3>1 DEF PlugInv
    <3> QED
      BY <1>1, <3>1, <3>2, EditsStillKnow DEF PlugInv, EditKnows
  <2> QED
    BY <2>1, <2>2
<1>5. /\ accounts' = [i \in AccIds |-> accounts'[i]] /\ PastedIsOfNow'
      /\ \A i \in AccIds : IsAccount(accounts'[i])
  <2>1. CASE UNCHANGED accounts
    BY <1>1, <2>1 DEF PlugInv, PastedIsOfNow
  <2>2. CASE accounts' # accounts
    <3>1. PICK i \in AccIds :
             accounts' = [accounts EXCEPT ![i] = [st |-> "on", kind |-> "mcp", made |-> edit[e].inc]]
      BY <2>2 DEF McpSignIn, McpConnected, NewAccount
    <3>2. accounts'[i].kind = "mcp" /\ IsAccount(accounts'[i])
      BY <3>1 DEF PlugInv, IsAccount
    <3>3. \A j \in AccIds : j # i => accounts'[j] = accounts[j]
      BY <3>1 DEF PlugInv
    <3> QED
      BY <1>1, <3>1, <3>2, <3>3 DEF PlugInv, PastedIsOfNow
  <2> QED
    BY <2>1, <2>2
<1> QED
  BY <1>1, <1>3, <1>4, <1>5 DEF PlugInv, CeilingMoves, EditKnows

LEMMA EditReadStep ==
    ASSUME PlugInv, NEW e \in Editors, EditRead(e)
    PROVE  PlugInv'
<1>1. UNCHANGED <<plugin, accounts, handed, ceiling, meant>>
  BY DEF EditRead
<1>2. PICK n \in Entries, on \in BOOLEAN, k \in BOOLEAN :
         edit' = [edit EXCEPT ![e] =
                [pc |-> "save", name |-> n, on |-> on, ask |-> k, ver |-> ceiling.ver,
                 set |-> IF on THEN ceiling.on \cup {n} ELSE ceiling.on \ {n}]]
  BY DEF EditRead
<1>3. PICK s : s = IF on THEN ceiling.on \cup {n} ELSE ceiling.on \ {n}
  OBVIOUS
<1>4. PICK q : q = [pc |-> "save", name |-> n, on |-> on, ask |-> k, ver |-> ceiling.ver, set |-> s]
  OBVIOUS
<1>5. edit' = [edit EXCEPT ![e] = q]
  BY <1>2, <1>3, <1>4
<1>6. q.ver = ceiling.ver /\ q.set = s /\ q.on = on /\ q.name = n /\ ceiling.ver \in Nat
  BY <1>4 DEF PlugInv
<1>7. q.ver = ceiling'.ver /\ q.set = IF q.on THEN ceiling'.on \cup {q.name} ELSE ceiling'.on \ {q.name}
  BY <1>1, <1>3, <1>6
<1>8. EditKnows(q)'
  BY <1>1, <1>6, <1>7 DEF EditKnows
<1> QED
  BY <1>1, <1>5, <1>8, SameCeiling, CeilingStep

LEMMA EditSavedStep ==
    ASSUME PlugInv, NEW e \in Editors, EditSaved(e)
    PROVE  PlugInv'
<1>1. UNCHANGED <<plugin, accounts, handed>>
  BY DEF EditSaved
<1>2. PICK q : q = edit[e]
  OBVIOUS
<1>3. EditKnows(q) /\ q.pc = "save"
  BY <1>2 DEF PlugInv, EditSaved
<1>4. CeilingMoves
  <2>1. CASE UNCHANGED <<ceiling, meant>>
    BY <2>1, SameCeiling
  <2>2. CASE ~UNCHANGED <<ceiling, meant>>
    <3>1. /\ ceiling.ver = q.ver /\ CeilingSet(q.set)
          /\ meant' = IF q.on THEN meant \cup {q.name} ELSE meant \ {q.name}
      BY <1>2, <2>2 DEF EditSaved, CeilingSaved
    <3>2. meant' = q.set
      BY <1>3, <3>1 DEF PlugInv, EditKnows
    <3> QED
      BY <3>1, <3>2, CeilingTaken DEF CeilingSet
  <2> QED
    BY <2>1, <2>2
<1>5. PICK p : edit' = [edit EXCEPT ![e] = p] /\ p.pc # "save"
  <2>1. CASE edit' = [edit EXCEPT ![e] = NoEdit]
    <3>1. PICK p : p = NoEdit
      OBVIOUS
    <3> QED
      BY <2>1, <3>1, p.pc = "idle" DEF NoEdit
  <2>2. CASE edit' = [edit EXCEPT ![e] = [pc |-> "asks", ask |-> q.ask]]
    <3>1. PICK p : p = [pc |-> "asks", ask |-> q.ask]
      OBVIOUS
    <3> QED
      BY <2>2, <3>1, p.pc = "asks"
  <2> QED
    BY <1>2, <2>1, <2>2 DEF EditSaved
<1> QED
  BY <1>1, <1>4, <1>5, CeilingStep DEF EditKnows

LEMMA PlugOtherSteps ==
    ASSUME PlugInv, CeilingPut \/ TurnHands \/ UNCHANGED plugVars
    PROVE  PlugInv'
<1>1. CASE CeilingPut
  <2>1. PICK set \in SUBSET Entries : CeilingSet(set) /\ meant' = set
    BY <1>1 DEF CeilingPut
  <2>2. CeilingMoves
    BY <2>1, CeilingTaken DEF CeilingSet
  <2> QED
    BY <1>1, <2>2, AccountsStep DEF CeilingPut, PlugInv, PastedIsOfNow
<1>2. CASE TurnHands
  <2>1. handed'.kind = "token" => handed'.made = handed'.inc
    <3>1. CASE UNCHANGED handed
      BY <3>1 DEF PlugInv
    <3>2. CASE handed' # handed
      <4>1. PICK i \in AccIds :
               /\ accounts[i].st = "on" /\ plugin = plugTurn.inc
               /\ handed' = [kind |-> accounts[i].kind, made |-> accounts[i].made, inc |-> plugTurn.inc]
        BY <1>2, <3>2 DEF TurnHands, Bound, SameInstallation
      <4>2. /\ handed'.kind = accounts[i].kind /\ handed'.made = accounts[i].made
            /\ handed'.inc = plugTurn.inc
        BY <4>1
      <4> QED
        BY <4>1, <4>2 DEF PlugInv, PastedIsOfNow
    <3> QED
      BY <3>1, <3>2
  <2> QED
    BY <1>2, <2>1, SameCeiling, AccountsStep DEF TurnHands, PlugInv, PastedIsOfNow
<1>3. CASE UNCHANGED plugVars
  BY <1>3, SameCeiling, AccountsStep DEF plugVars, PlugInv, PastedIsOfNow
<1> QED
  BY <1>1, <1>2, <1>3

\* A pasted token reaches only a server of the installation it was pasted for, and an edit of
\* one entry leaves the others as the last saved edit left them.
THEOREM TokensAndEditsStand == PlugSpec => []PastedAndSavedStand
<1>1. PlugInit => PlugInv
  <2> SUFFICES ASSUME PlugInit PROVE PlugInv
    OBVIOUS
  <2>1. ceiling.ver = 0 /\ ceiling.on = meant
    BY DEF PlugInit
  <2>2. PastedIsOfNow
    BY DEF PlugInit, PastedIsOfNow, NoAccount
  <2>3. \A e \in Editors : EditKnows(edit[e])
    BY DEF PlugInit, EditKnows, NoEdit
  <2>5. IsAccount(NoAccount)
    BY DEF IsAccount, NoAccount
  <2>4. handed.kind = "none"
    BY DEF PlugInit, NothingHanded
  <2> QED
    BY <2>1, <2>2, <2>3, <2>4, <2>5 DEF PlugInit, PlugInv
<1>2. PlugInv /\ [PlugNext]_plugVars => PlugInv'
  <2> SUFFICES ASSUME PlugInv, [PlugNext]_plugVars PROVE PlugInv'
    OBVIOUS
  <2>1. ASSUME NEW e \in Editors, ModeAsks(e) PROVE PlugInv'
    <3>1. UNCHANGED <<plugin, accounts, handed>> /\ CeilingMoves
      BY <2>1, SameCeiling DEF ModeAsks
    <3>2. EditKnows(NoEdit)'
      BY DEF EditKnows, NoEdit
    <3> QED
      BY <2>1, <3>1, <3>2, CeilingStep DEF ModeAsks
  <2> QED
    BY <2>1, PlugAccountSteps, McpSteps, EditReadStep, EditSavedStep, PlugOtherSteps DEF PlugNext
<1>3. PlugInv => PastedAndSavedStand
  BY DEF PlugInv, PastedAndSavedStand
<1> QED
  BY <1>1, <1>2, <1>3, PTL DEF PlugSpec

-----------------------------------------------------------------------------
(***************************************************************************)
(* THE POOL OF MCP SESSIONS.  A slot holds sessions of its own scope and   *)
(* credential, a turn dials the slot of what it was built with, and what a *)
(* turn was handed was made for the slot it dialled.                       *)
(***************************************************************************)
IsSession(s) == \E sc, c, u : s = [scope |-> sc, cred |-> c, usable |-> u]
IsEntry(p) == \E k, s, a : p = [kind |-> k, session |-> s, age |-> a]
IsTurn(q) == \E pc, sc, c, s : q = [pc |-> pc, scope |-> sc, cred |-> c, session |-> s]

\* Session s was made for this scope and credential.
MadeFor(s, sc, c) == s \in DOMAIN sessions /\ sessions[s].scope = sc /\ sessions[s].cred = c

SlotOK(k) ==
    /\ IsEntry(slots[k])
    /\ slots[k].kind \in {"none", "ready", "failed"}
    /\ slots[k].kind = "ready" => MadeFor(slots[k].session, k.scope, k.cred)
TurnOK(q) ==
    /\ IsTurn(q)
    /\ q.pc \in {"built", "dialling"} => q.scope \in Scopes /\ q.cred \in 1..MaxCreds
    /\ q.pc \in {"has"} => q.session # 0
    /\ q.session # 0 => MadeFor(q.session, q.scope, q.cred)

PoolInv ==
    /\ cred \in [Scopes -> 0..MaxCreds]
    /\ \E n \in Nat : sessions = [i \in 1..n |-> sessions[i]]
    /\ \A i \in DOMAIN sessions : IsSession(sessions[i])
    /\ slots = [k \in Slots |-> slots[k]] /\ \A k \in Slots : SlotOK(k)
    /\ turns = [t \in PoolTurns |-> turns[t]] /\ \A t \in PoolTurns : TurnOK(turns[t])
    /\ late = FALSE

\* Sessions are made and break, and are never for another account.
SessionsLast ==
    /\ DOMAIN sessions \subseteq DOMAIN sessions'
    /\ \A i \in DOMAIN sessions : sessions'[i].scope = sessions[i].scope /\ sessions'[i].cred = sessions[i].cred

LEMMA MadeForLasts ==
    ASSUME SessionsLast, NEW s, NEW sc, NEW c, MadeFor(s, sc, c)
    PROVE  MadeFor(s, sc, c)'
BY DEF SessionsLast, MadeFor

LEMMA TurnsLast ==
    ASSUME SessionsLast, NEW q, TurnOK(q)
    PROVE  TurnOK(q)'
BY MadeForLasts DEF TurnOK

LEMMA SlotsLast ==
    ASSUME PoolInv, SessionsLast, UNCHANGED slots
    PROVE  \A k \in Slots : SlotOK(k)'
<1> SUFFICES ASSUME NEW k \in Slots PROVE SlotOK(k)'
  OBVIOUS
<1>1. PICK p : p = slots[k]
  OBVIOUS
<1>2. /\ IsEntry(p) /\ p.kind \in {"none", "ready", "failed"}
      /\ p.kind = "ready" => MadeFor(p.session, k.scope, k.cred)
  BY <1>1 DEF PoolInv, SlotOK
<1>3. slots'[k] = p
  BY <1>1
<1>4. p.kind = "ready" => MadeFor(p.session, k.scope, k.cred)'
  BY <1>2, MadeForLasts
<1>5. p.kind = "ready" => MadeFor(slots[k].session, k.scope, k.cred)'
  BY <1>3, <1>4 DEF MadeFor
<1> QED
  BY <1>2, <1>3, <1>5 DEF SlotOK

\* One turn moves, and the others keep what they have.
LEMMA OneTurnMoves ==
    ASSUME PoolInv, SessionsLast, NEW t \in PoolTurns, NEW q, turns' = [turns EXCEPT ![t] = q], TurnOK(q)'
    PROVE  turns' = [s \in PoolTurns |-> turns'[s]] /\ \A s \in PoolTurns : TurnOK(turns[s])'
<1>1. turns' = [s \in PoolTurns |-> turns'[s]]
  BY DEF PoolInv
<1>2. ASSUME NEW s \in PoolTurns PROVE TurnOK(turns[s])'
  <2>1. PICK o : o = turns[s]
    OBVIOUS
  <2>2. TurnOK(o)'
    BY <2>1, TurnsLast DEF PoolInv
  <2>3. CASE s = t
    <3>1. turns'[s] = q
      BY <2>3 DEF PoolInv
    <3> QED
      BY <3>1 DEF TurnOK
  <2>4. CASE s # t
    <3>1. turns'[s] = o
      BY <2>1, <2>4 DEF PoolInv
    <3> QED
      BY <2>2, <3>1 DEF TurnOK
  <2> QED
    BY <2>3, <2>4
<1> QED
  BY <1>1, <1>2

LEMMA SessionsSame ==
    ASSUME UNCHANGED sessions
    PROVE  SessionsLast
BY DEF SessionsLast

LEMMA TurnStartsStep ==
    ASSUME PoolInv, NEW t \in PoolTurns, NEW sc \in Scopes, TurnStarts(t, sc)
    PROVE  PoolInv'
<1>1. UNCHANGED <<cred, sessions, slots, late>>
  BY DEF TurnStarts
<1>2. PICK c \in 0..MaxCreds : c = cred[sc]
  BY DEF PoolInv
<1>3. PICK q : q = [pc |-> IF c = 0 THEN "without" ELSE "built", scope |-> sc, cred |-> c, session |-> 0]
  OBVIOUS
<1>4. turns' = [turns EXCEPT ![t] = q]
  BY <1>2, <1>3 DEF TurnStarts
<1>5. /\ IsTurn(q) /\ q.scope = sc /\ q.cred = c /\ q.session = 0
      /\ q.pc = IF c = 0 THEN "without" ELSE "built"
  BY <1>3 DEF IsTurn
<1>6. c # 0 => c \in 1..MaxCreds
  BY <1>2, PoolAssumption
<1>7. TurnOK(q)'
  BY <1>5, <1>6 DEF TurnOK
<1>8. turns' = [s \in PoolTurns |-> turns'[s]] /\ \A s \in PoolTurns : TurnOK(turns[s])'
  BY <1>1, <1>4, <1>7, OneTurnMoves, SessionsSame
<1>9. \A k \in Slots : SlotOK(k)'
  BY <1>1, SessionsSame, SlotsLast
<1> QED
  BY <1>1, <1>8, <1>9 DEF PoolInv

\* What a look at the pool leaves of it.
LEMMA RetainedIs ==
    ASSUME PoolInv
    PROVE  /\ Retained = [k \in Slots |-> Retained[k]]
           /\ \A k \in Slots : Retained[k] \in {slots[k], Empty}
           /\ \A k \in Slots : Retained[k].kind = "ready" => IsUsable(Retained[k].session)
<1>1. Empty.kind = "none"
  BY DEF Empty
<1>2. Retained = [k \in Slots |-> IF StillGood(slots[k]) THEN slots[k] ELSE Empty]
  BY DEF PoolInv, Retained
<1>3. ASSUME NEW k \in Slots, StillGood(slots[k]), slots[k].kind = "ready"
      PROVE  IsUsable(slots[k].session)
  BY <1>3 DEF StillGood
<1>4. PICK kept : kept = Retained
  OBVIOUS
<1>5. ASSUME NEW k \in Slots
      PROVE  kept[k] \in {slots[k], Empty} /\ (kept[k].kind = "ready" => IsUsable(kept[k].session))
  <2>1. CASE StillGood(slots[k])
    BY <1>2, <1>3, <1>4, <2>1
  <2>2. CASE ~StillGood(slots[k])
    BY <1>1, <1>2, <1>4, <2>2
  <2> QED
    BY <2>1, <2>2
<1> QED
  BY <1>2, <1>4, <1>5

LEMMA DialsStep ==
    ASSUME PoolInv, NEW t \in PoolTurns, Dials(t)
    PROVE  PoolInv'
<1>1. UNCHANGED <<cred, sessions>> /\ slots' = Retained
  BY DEF Dials
<1>2. PICK o : o = turns[t]
  OBVIOUS
<1>3. TurnOK(o) /\ o.pc = "built"
  BY <1>2 DEF PoolInv, Dials
<1>4. PICK sc, c, s : o = [pc |-> "built", scope |-> sc, cred |-> c, session |-> s]
  BY <1>3 DEF TurnOK, IsTurn
<1>5. sc \in Scopes /\ c \in 1..MaxCreds
  BY <1>3, <1>4 DEF TurnOK
<1>6. PICK k \in Slots : k = SlotOf(t) /\ k.scope = sc /\ k.cred = c
  <2>1. SlotOf(t) = [scope |-> sc, cred |-> c]
    BY <1>2, <1>4 DEF SlotOf
  <2> QED
    BY <1>5, <2>1 DEF Slots
<1>7. PICK p : p = Retained[k]
  OBVIOUS
<1>8. /\ p = slots[k] \/ p.kind = "none"
      /\ p.kind = "ready" => IsUsable(p.session)
  <2>1. Empty.kind = "none"
    BY DEF Empty
  <2> QED
    BY <1>7, <2>1, RetainedIs
<1>9. late' = FALSE
  <2>1. late' = (late \/ (p.kind = "ready" /\ ~sessions[p.session].usable))
    BY <1>6, <1>7 DEF Dials
  <2> QED
    BY <1>8, <2>1 DEF PoolInv, IsUsable
<1>10. \A h \in Slots : SlotOK(h)'
  <2> SUFFICES ASSUME NEW h \in Slots PROVE SlotOK(h)'
    OBVIOUS
  <2>1. CASE Retained[h] = slots[h]
    <3>1. slots'[h] = slots[h]
      BY <1>1, <2>1
    <3> QED
      BY <1>1, <3>1 DEF PoolInv, SlotOK, MadeFor
  <2>2. CASE Retained[h] = Empty
    <3>1. slots'[h] = Empty
      BY <1>1, <2>2
    <3>2. IsEntry(Empty) /\ Empty.kind = "none"
      BY DEF IsEntry, Empty
    <3> QED
      BY <3>1, <3>2 DEF SlotOK
  <2> QED
    BY <2>1, <2>2, RetainedIs
<1>11. \E q : turns' = [turns EXCEPT ![t] = q] /\ TurnOK(q)'
  <2>1. turns' = [turns EXCEPT ![t] =
                CASE p.kind = "none" -> [o EXCEPT !.pc = "dialling"]
                  [] p.kind = "ready" -> [o EXCEPT !.pc = "has", !.session = p.session]
                  [] p.kind = "failed" -> [o EXCEPT !.pc = "without"]]
    BY <1>2, <1>6, <1>7 DEF Dials, PoolInv
  <2>2. PICK q : q = CASE p.kind = "none" -> [o EXCEPT !.pc = "dialling"]
                       [] p.kind = "ready" -> [o EXCEPT !.pc = "has", !.session = p.session]
                       [] p.kind = "failed" -> [o EXCEPT !.pc = "without"]
    OBVIOUS
  <2>3. s # 0 => MadeFor(s, sc, c)
    BY <1>3, <1>4 DEF TurnOK
  <2>4. TurnOK(q)
    <3>1. CASE p.kind = "none"
      <4>1. q = [pc |-> "dialling", scope |-> sc, cred |-> c, session |-> s]
        BY <1>4, <2>2, <3>1
      <4>2. IsTurn(q) /\ q.pc = "dialling" /\ q.scope = sc /\ q.cred = c /\ q.session = s
        BY <4>1 DEF IsTurn
      <4> QED
        BY <1>5, <2>3, <4>2 DEF TurnOK
    <3>2. CASE p.kind = "ready"
      <4>1. PICK u : u = p.session /\ MadeFor(u, sc, c)
        BY <1>6, <1>8, <3>2 DEF PoolInv, SlotOK
      <4>2. q = [pc |-> "has", scope |-> sc, cred |-> c, session |-> u]
        BY <1>4, <2>2, <3>2, <4>1
      <4>3. IsTurn(q) /\ q.pc = "has" /\ q.scope = sc /\ q.cred = c /\ q.session = u
        BY <4>2 DEF IsTurn
      <4>4. u # 0
        BY <4>1 DEF MadeFor, PoolInv
      <4> QED
        BY <4>1, <4>3, <4>4 DEF TurnOK
    <3>3. CASE p.kind = "failed"
      <4>1. q = [pc |-> "without", scope |-> sc, cred |-> c, session |-> s]
        BY <1>4, <2>2, <3>3
      <4>2. IsTurn(q) /\ q.pc = "without" /\ q.scope = sc /\ q.cred = c /\ q.session = s
        BY <4>1 DEF IsTurn
      <4> QED
        BY <2>3, <4>2 DEF TurnOK
    <3> QED
      BY <1>8, <3>1, <3>2, <3>3 DEF PoolInv, SlotOK
  <2>5. TurnOK(q)'
    BY <1>1, <2>4, SessionsSame, TurnsLast
  <2> QED
    BY <2>1, <2>2, <2>5
<1>12. turns' = [u \in PoolTurns |-> turns'[u]] /\ \A u \in PoolTurns : TurnOK(turns[u])'
  BY <1>1, <1>11, OneTurnMoves, SessionsSame
<1>13. slots' = [h \in Slots |-> slots'[h]]
  BY <1>1, RetainedIs
<1> QED
  BY <1>1, <1>9, <1>10, <1>12, <1>13 DEF PoolInv

LEMMA PoolSizes ==
    ASSUME PoolInv
    PROVE  /\ Cardinality(DOMAIN sessions) \in Nat
           /\ DOMAIN sessions = 1..Cardinality(DOMAIN sessions)
<1>1. PICK n \in Nat : sessions = [i \in 1..n |-> sessions[i]]
  BY DEF PoolInv
<1>2. DOMAIN sessions = 1..n
  BY <1>1
<1>3. Cardinality(1..n) = n
  BY FS_Interval, n \in Int, 1 \in Int
<1> QED
  BY <1>2, <1>3

LEMMA DialLandsStep ==
    ASSUME PoolInv, NEW t \in PoolTurns, DialLands(t)
    PROVE  PoolInv'
<1>1. UNCHANGED <<cred, late>>
  BY DEF DialLands
<1>2. PICK o : o = turns[t]
  OBVIOUS
<1>3. TurnOK(o) /\ o.pc = "dialling"
  BY <1>2 DEF PoolInv, DialLands
<1>4. PICK sc, c, s : o = [pc |-> "dialling", scope |-> sc, cred |-> c, session |-> s]
  BY <1>3 DEF TurnOK, IsTurn
<1>5. /\ o.scope = sc /\ o.cred = c /\ o.session = s
      /\ sc \in Scopes /\ c \in 1..MaxCreds /\ (s # 0 => MadeFor(s, sc, c))
  BY <1>3, <1>4 DEF TurnOK
<1>6. PICK k \in Slots : k = SlotOf(t) /\ k.scope = sc /\ k.cred = c
  <2>1. SlotOf(t) = [scope |-> sc, cred |-> c]
    BY <1>2, <1>4 DEF SlotOf
  <2> QED
    BY <1>5, <2>1 DEF Slots
<1>7. CASE /\ slots' = [slots EXCEPT ![k] = [kind |-> "failed", session |-> 0, age |-> 0]]
           /\ turns' = [turns EXCEPT ![t].pc = "without"]
           /\ UNCHANGED sessions
  <2>1. PICK p : p = [kind |-> "failed", session |-> 0, age |-> 0]
    OBVIOUS
  <2>2. IsEntry(p) /\ p.kind = "failed"
    BY <2>1 DEF IsEntry
  <2>3. slots' = [slots EXCEPT ![k] = p]
    BY <1>7, <2>1
  <2>4. slots' = [h \in Slots |-> slots'[h]]
    BY <2>3 DEF PoolInv
  <2>5. \A h \in Slots : SlotOK(h)'
    <3> SUFFICES ASSUME NEW h \in Slots PROVE SlotOK(h)'
      OBVIOUS
    <3>1. CASE h = k
      <4>1. slots'[h] = p
        BY <2>3, <3>1 DEF PoolInv
      <4> QED
        BY <2>2, <4>1 DEF SlotOK
    <3>2. CASE h # k
      <4>1. slots'[h] = slots[h]
        BY <2>3, <3>2 DEF PoolInv
      <4> QED
        BY <1>7, <4>1 DEF PoolInv, SlotOK, MadeFor
    <3> QED
      BY <3>1, <3>2
  <2>6. PICK q : q = [pc |-> "without", scope |-> sc, cred |-> c, session |-> s]
    OBVIOUS
  <2>7. turns' = [turns EXCEPT ![t] = q]
    <3>1. turns' = [turns EXCEPT ![t] = [o EXCEPT !.pc = "without"]]
      BY <1>2, <1>7 DEF PoolInv
    <3>2. [o EXCEPT !.pc = "without"] = q
      BY <1>4, <2>6
    <3> QED
      BY <3>1, <3>2
  <2>8. IsTurn(q) /\ q.pc = "without" /\ q.scope = sc /\ q.cred = c /\ q.session = s
    BY <2>6 DEF IsTurn
  <2>9. TurnOK(q)
    BY <1>5, <2>8 DEF TurnOK
  <2>10. TurnOK(q)'
    BY <1>7, <2>9, SessionsSame, TurnsLast
  <2>11. turns' = [u \in PoolTurns |-> turns'[u]] /\ \A u \in PoolTurns : TurnOK(turns[u])'
    BY <1>7, <2>7, <2>10, OneTurnMoves, SessionsSame
  <2> QED
    BY <1>1, <1>7, <2>4, <2>5, <2>11 DEF PoolInv
<1>8. CASE /\ sessions' = [i \in 1..(Cardinality(DOMAIN sessions) + 1) |->
                 IF i = Cardinality(DOMAIN sessions) + 1
                 THEN [scope |-> turns[t].scope, cred |-> turns[t].cred, usable |-> TRUE]
                 ELSE sessions[i]]
           /\ slots' = [slots EXCEPT ![k] =
                 [kind |-> "ready", session |-> Cardinality(DOMAIN sessions) + 1, age |-> 0]]
           /\ turns' = [turns EXCEPT ![t].pc = "has", ![t].session = Cardinality(DOMAIN sessions) + 1]
  <2>1. PICK m \in Nat : m = Cardinality(DOMAIN sessions) /\ DOMAIN sessions = 1..m
    BY PoolSizes
  <2>2. PICK n \in Nat : n = m + 1
    BY <2>1
  <2>3. PICK new : new = [scope |-> sc, cred |-> c, usable |-> TRUE]
    OBVIOUS
  <2>4. sessions' = [i \in 1..n |-> IF i = n THEN new ELSE sessions[i]]
    BY <1>2, <1>5, <1>8, <2>1, <2>2, <2>3
  <2>5. IsSession(new) /\ new.scope = sc /\ new.cred = c
    <3>1. PICK u \in BOOLEAN : u = TRUE
      OBVIOUS
    <3>2. new = [scope |-> sc, cred |-> c, usable |-> u]
      BY <2>3, <3>1
    <3> QED
      BY <3>2 DEF IsSession
  <2>6. n \notin 1..m /\ 1..m \subseteq 1..n /\ n \in 1..n /\ \A i \in 1..n : i = n \/ i \in 1..m
    <3>1. m \in Nat /\ n = m + 1
      BY <2>2
    <3>2. \A i : i \in 1..m <=> i \in Int /\ 1 <= i /\ i <= m
      BY <3>1
    <3>3. \A i : i \in 1..n <=> i \in Int /\ 1 <= i /\ i <= n
      BY <3>1
    <3> QED
      BY <3>1, <3>2, <3>3
  <2>7. SessionsLast
    BY <2>1, <2>4, <2>6 DEF SessionsLast
  <2>8. MadeFor(n, sc, c)' /\ n # 0
    BY <2>2, <2>4, <2>5, <2>6 DEF MadeFor
  <2>9. \A i \in DOMAIN sessions' : IsSession(sessions'[i])
    BY <2>1, <2>4, <2>5, <2>6 DEF PoolInv
  <2>10. \E j \in Nat : sessions' = [i \in 1..j |-> sessions'[i]]
    BY <2>4
  <2>11. PICK p : p = [kind |-> "ready", session |-> n, age |-> 0]
    OBVIOUS
  <2>12. IsEntry(p) /\ p.kind = "ready" /\ p.session = n
    BY <2>11 DEF IsEntry
  <2>13. slots' = [slots EXCEPT ![k] = p]
    BY <1>8, <2>1, <2>2, <2>11
  <2>14. slots' = [h \in Slots |-> slots'[h]]
    BY <2>13 DEF PoolInv
  <2>15. \A h \in Slots : SlotOK(h)'
    <3> SUFFICES ASSUME NEW h \in Slots PROVE SlotOK(h)'
      OBVIOUS
    <3>1. CASE h = k
      <4>1. slots'[h] = p
        BY <2>13, <3>1 DEF PoolInv
      <4>2. MadeFor(slots[h].session, h.scope, h.cred)'
        BY <1>6, <2>8, <2>12, <3>1, <4>1 DEF MadeFor
      <4> QED
        BY <2>12, <4>1, <4>2 DEF SlotOK
    <3>2. CASE h # k
      <4>1. PICK r : r = slots[h]
        OBVIOUS
      <4>2. slots'[h] = r
        BY <2>13, <3>2, <4>1 DEF PoolInv
      <4>3. /\ IsEntry(r) /\ r.kind \in {"none", "ready", "failed"}
            /\ r.kind = "ready" => MadeFor(r.session, h.scope, h.cred)
        BY <4>1 DEF PoolInv, SlotOK
      <4>4. r.kind = "ready" => MadeFor(r.session, h.scope, h.cred)'
        BY <2>7, <4>3, MadeForLasts
      <4>5. r.kind = "ready" => MadeFor(slots[h].session, h.scope, h.cred)'
        BY <4>2, <4>4 DEF MadeFor
      <4> QED
        BY <4>2, <4>3, <4>5 DEF SlotOK
    <3> QED
      BY <3>1, <3>2
  <2>16. PICK q : q = [pc |-> "has", scope |-> sc, cred |-> c, session |-> n]
    OBVIOUS
  <2>17. turns' = [turns EXCEPT ![t] = q]
    <3>1. turns' = [turns EXCEPT ![t] = [o EXCEPT !.pc = "has", !.session = n]]
      BY <1>2, <1>8, <2>1, <2>2 DEF PoolInv
    <3>2. PICK b : b = [pc |-> "has", scope |-> sc, cred |-> c, session |-> s]
      OBVIOUS
    <3>3. [o EXCEPT !.pc = "has"] = b
      BY <1>4, <3>2
    <3>4. [b EXCEPT !.session = n] = q
      BY <2>16, <3>2
    <3>5. [o EXCEPT !.pc = "has", !.session = n] = [[o EXCEPT !.pc = "has"] EXCEPT !.session = n]
      OBVIOUS
    <3> QED
      BY <3>1, <3>3, <3>4, <3>5
  <2>18. IsTurn(q) /\ q.pc = "has" /\ q.scope = sc /\ q.cred = c /\ q.session = n
    BY <2>16 DEF IsTurn
  <2>19. TurnOK(q)'
    BY <2>8, <2>18 DEF TurnOK
  <2>20. turns' = [u \in PoolTurns |-> turns'[u]] /\ \A u \in PoolTurns : TurnOK(turns[u])'
    BY <2>7, <2>17, <2>19, OneTurnMoves
  <2> QED
    BY <1>1, <2>9, <2>10, <2>14, <2>15, <2>20 DEF PoolInv
<1> QED
  BY <1>6, <1>7, <1>8 DEF DialLands

LEMMA CallsStep ==
    ASSUME PoolInv, NEW t \in PoolTurns, Calls(t)
    PROVE  PoolInv'
<1>1. UNCHANGED <<cred, slots, turns, late>>
  BY DEF Calls
<1>2. PICK s : s = turns[t].session /\ s \in DOMAIN sessions
  BY DEF Calls, PoolInv, TurnOK, MadeFor
<1>3. PICK o : o = sessions[s] /\ IsSession(o)
  BY <1>2 DEF PoolInv
<1>4. PICK sc, c, u : o = [scope |-> sc, cred |-> c, usable |-> u]
  BY <1>3 DEF IsSession
<1>5. PICK v \in BOOLEAN : v = FALSE
  OBVIOUS
<1>6. PICK n \in Nat : sessions = [i \in 1..n |-> sessions[i]]
  BY DEF PoolInv
<1>7. /\ DOMAIN sessions' = DOMAIN sessions /\ sessions' = [i \in 1..n |-> sessions'[i]]
      /\ \A i \in DOMAIN sessions : IsSession(sessions'[i])
      /\ SessionsLast
  <2>1. CASE UNCHANGED sessions
    BY <1>6, <2>1 DEF PoolInv, SessionsLast
  <2>2. CASE sessions' = [sessions EXCEPT ![s].usable = FALSE]
    <3>1. PICK b : b = [scope |-> sc, cred |-> c, usable |-> v]
      OBVIOUS
    <3>2. [o EXCEPT !.usable = v] = b
      BY <1>4, <3>1
    <3>3. sessions' = [sessions EXCEPT ![s] = b]
      BY <1>3, <1>5, <1>6, <2>2, <3>2
    <3>4. b.scope = o.scope /\ b.cred = o.cred /\ IsSession(b)
      BY <1>4, <3>1 DEF IsSession
    <3> QED
      BY <1>2, <1>3, <1>6, <3>3, <3>4 DEF PoolInv, SessionsLast
  <2> QED
    BY <1>2, <2>1, <2>2 DEF Calls
<1>8. \A k \in Slots : SlotOK(k)'
  BY <1>1, <1>7, SlotsLast
<1>9. \A r \in PoolTurns : TurnOK(turns[r])'
  <2> SUFFICES ASSUME NEW r \in PoolTurns PROVE TurnOK(turns[r])'
    OBVIOUS
  <2>1. PICK q : q = turns[r]
    OBVIOUS
  <2>2. TurnOK(q)'
    BY <1>7, <2>1, TurnsLast DEF PoolInv
  <2> QED
    BY <1>1, <2>1, <2>2 DEF TurnOK
<1> QED
  BY <1>1, <1>6, <1>7, <1>8, <1>9 DEF PoolInv

LEMMA PoolTickStep ==
    ASSUME PoolInv, PoolTick
    PROVE  PoolInv'
<1>1. UNCHANGED <<cred, sessions, turns, late>>
  BY DEF PoolTick
<1>2. slots' = [k \in Slots |->
            IF slots[k].kind = "none" \/ slots[k].age >= OldAge THEN slots[k]
            ELSE [slots[k] EXCEPT !.age = @ + 1]]
  BY DEF PoolTick, PoolInv
<1>3. \A k \in Slots : SlotOK(k)'
  <2> SUFFICES ASSUME NEW k \in Slots PROVE SlotOK(k)'
    OBVIOUS
  <2>1. PICK d, s, a : slots[k] = [kind |-> d, session |-> s, age |-> a]
    BY DEF PoolInv, SlotOK, IsEntry
  <2>2. PICK p : p = [kind |-> d, session |-> s, age |-> a + 1]
    OBVIOUS
  <2>3. slots'[k] = slots[k] \/ slots'[k] = p
    BY <1>2, <2>1, <2>2
  <2>4. PICK o, r : o = slots[k] /\ r = slots'[k]
    OBVIOUS
  <2>5. p.kind = o.kind /\ p.session = o.session
    BY <2>1, <2>2, <2>4
  <2>7. IsEntry(o) /\ IsEntry(p)
    BY <2>1, <2>2, <2>4 DEF IsEntry
  <2>6. IsEntry(r) /\ r.kind = o.kind /\ r.session = o.session
    BY <2>3, <2>4, <2>5, <2>7
  <2> QED
    BY <1>1, <2>4, <2>6 DEF PoolInv, SlotOK, MadeFor
<1>4. \A r \in PoolTurns : TurnOK(turns[r])'
  BY <1>1 DEF PoolInv, TurnOK, MadeFor
<1> QED
  BY <1>1, <1>2, <1>3, <1>4 DEF PoolInv

LEMMA PoolOtherSteps ==
    ASSUME PoolInv,
           (\E t \in PoolTurns : TurnOver(t)) \/ (\E sc \in Scopes : CredChanges(sc)) \/ UNCHANGED poolVars
    PROVE  PoolInv'
<1>1. UNCHANGED <<sessions, slots, late>> /\ SessionsLast
  BY SessionsSame DEF TurnOver, CredChanges, poolVars
<1>2. \A k \in Slots : SlotOK(k)'
  BY <1>1, SlotsLast
<1>3. cred' \in [Scopes -> 0..MaxCreds]
  <2>1. CASE UNCHANGED cred
    BY <2>1 DEF PoolInv
  <2>2. ASSUME NEW sc \in Scopes, CredChanges(sc) PROVE cred' \in [Scopes -> 0..MaxCreds]
    <3>1. cred[sc] \in 0..MaxCreds /\ cred[sc] < MaxCreds
      BY <2>2 DEF CredChanges, PoolInv
    <3>2. cred[sc] + 1 \in 0..MaxCreds
      BY <3>1, PoolAssumption
    <3> QED
      BY <2>2, <3>2 DEF CredChanges, PoolInv
  <2> QED
    BY <2>1, <2>2 DEF TurnOver, poolVars
<1>4. turns' = [r \in PoolTurns |-> turns'[r]] /\ \A r \in PoolTurns : TurnOK(turns[r])'
  <2>1. CASE UNCHANGED turns
    BY <1>1, <2>1 DEF PoolInv, TurnOK, MadeFor
  <2>2. ASSUME NEW t \in PoolTurns, TurnOver(t)
        PROVE  turns' = [r \in PoolTurns |-> turns'[r]] /\ \A r \in PoolTurns : TurnOK(turns[r])'
    <3>1. IsTurn(NoTurn) /\ NoTurn.pc = "none" /\ NoTurn.session = 0
      BY DEF IsTurn, NoTurn
    <3>2. TurnOK(NoTurn)'
      BY <3>1 DEF TurnOK
    <3> QED
      BY <1>1, <2>2, <3>2, OneTurnMoves DEF TurnOver
  <2> QED
    BY <2>1, <2>2 DEF CredChanges, poolVars
<1> QED
  BY <1>1, <1>2, <1>3, <1>4 DEF PoolInv

\* A session shared between turns was opened for the turn's own account with the credential its
\* headers were filled with, and nobody is handed one that a call had broken.
THEOREM SessionsAreOnesOwn == PoolSpec => []SessionIsTheTurnsOwn
<1>1. PoolInit => PoolInv
  <2> SUFFICES ASSUME PoolInit PROVE PoolInv
    OBVIOUS
  <2>1. cred \in [Scopes -> 0..MaxCreds]
    BY PoolAssumption DEF PoolInit
  <2>2. DOMAIN sessions = 1..0 /\ 1..0 = {} /\ 0 \in Nat
    BY DEF PoolInit
  <2>3. sessions = [i \in 1..0 |-> sessions[i]]
    BY DEF PoolInit
  <2>4. IsEntry(Empty) /\ Empty.kind = "none"
    BY DEF IsEntry, Empty
  <2>5. IsTurn(NoTurn) /\ NoTurn.pc = "none" /\ NoTurn.session = 0
    BY DEF IsTurn, NoTurn
  <2>6. \A k \in Slots : SlotOK(k)
    BY <2>4 DEF PoolInit, SlotOK
  <2>7. \A t \in PoolTurns : TurnOK(turns[t])
    BY <2>5 DEF PoolInit, TurnOK
  <2> QED
    BY <2>1, <2>2, <2>3, <2>6, <2>7 DEF PoolInit, PoolInv
<1>2. PoolInv /\ [PoolNext]_poolVars => PoolInv'
  BY TurnStartsStep, DialsStep, DialLandsStep, CallsStep, PoolTickStep, PoolOtherSteps DEF PoolNext
<1>3. PoolInv => SessionIsTheTurnsOwn
  BY DEF PoolInv, TurnOK, MadeFor, SessionIsTheTurnsOwn
<1> QED
  BY <1>1, <1>2, <1>3, PTL DEF PoolSpec

-----------------------------------------------------------------------------
(***************************************************************************)
(* THE FEED.  The frames that are ready are of notes between the last one  *)
(* the client got and the cursor, and the last of them is of the cursor;   *)
(* up to the cursor every note was told, is told by a frame that is ready, *)
(* or was cut off with a stream.  A reset stands alone.                    *)
(***************************************************************************)
Notes == [thread : Nat, run : Nat, byOther : BOOLEAN]
FollowFields == {"on", "cursor", "ready", "dirty", "replaying", "wakes", "lagged"}
IsFollow(f) == f = [x \in FollowFields |-> f[x]]

GoodNotes == {n \in Notes : n.byOther => n.run # OwnRun}
OutboxOK == outbox \in Seq(GoodNotes)
ClientOK == client.base \in Nat /\ client.last \in Nat /\ client.base <= client.last /\ client.last <= Top

\* Up to where the client will be when it has the frames that are ready.
FramesOK ==
    /\ follow.cursor \in Nat /\ client.last <= follow.cursor /\ follow.cursor <= Top
    /\ follow.ready = {} => client.last = follow.cursor
    /\ follow.ready # {} => \E f \in follow.ready : f.id = follow.cursor
    /\ \A f, g \in follow.ready : f.id = g.id => f = g
    /\ \A f \in follow.ready : f.reset => follow.ready = {f}
    /\ \A f \in follow.ready : ~f.reset => f.id \in Nat /\ client.last < f.id /\ f.id <= follow.cursor
Resetting == \E f \in follow.ready : f.reset
TellsOf(i) == Told(i, client.got) \/ Told(i, follow.ready) \/ i \in cut
ToldOK ==
    /\ \A i \in Nat : client.base < i /\ i <= client.last =>
          Told(i, client.got) \/ (follow.on /\ Told(i, follow.ready)) \/ i \in cut
    /\ follow.on /\ ~Resetting =>
          \A i \in Nat : client.base < i /\ i <= follow.cursor => TellsOf(i)

FeedInv ==
    /\ OutboxOK /\ ClientOK /\ IsFollow(follow)
    /\ follow.on => FramesOK
    /\ ToldOK

LEMMA FirstOf ==
    ASSUME NEW S \in SUBSET Nat, S # {}
    PROVE  \E x \in S : \A y \in S : x <= y
<1> DEFINE R == OpToRel(<, Nat)
<1>1. IsWellFoundedOn(R, Nat)
  BY NatLessThanWellFounded
<1>2. PICK x \in S : \A y \in S : <<y, x>> \notin R
  <2> HIDE DEF R
  <2> QED
    BY <1>1, WFMin
<1>3. \A y \in S : ~(y < x)
  BY <1>2, Zenon DEF OpToRel
<1> QED
  BY <1>3

\* The stream is the same for the client, and the outbox has what it had.
Carries(f) == IsFollow(f) /\ f.on = follow.on /\ f.cursor = follow.cursor /\ f.ready = follow.ready
OutboxGrows == Top <= Top' /\ \A i \in 1..Top : outbox'[i] = outbox[i]

LEMMA TellsStill ==
    ASSUME OutboxOK, OutboxGrows, NEW f, NEW i \in Nat, 0 < i, i <= Top, Tells(f, i)
    PROVE  Tells(f, i)'
<1>1. i \in 1..Top
  BY DEF OutboxOK
<1>2. outbox'[i] = outbox[i]
  BY <1>1 DEF OutboxGrows
<1> QED
  BY <1>2 DEF Tells

LEMMA ToldStill ==
    ASSUME OutboxOK, OutboxGrows, NEW i \in Nat, 0 < i, i <= Top
    PROVE  /\ \A s : Told(i, s) => \E f \in s : Tells(f, i)'
           /\ UNCHANGED client => (Told(i, client.got) => Told(i, client.got)')
           /\ UNCHANGED follow => (Told(i, follow.ready) => Told(i, follow.ready)')
<1>1. ASSUME NEW s, Told(i, s) PROVE \E f \in s : Tells(f, i)'
  BY <1>1, TellsStill DEF Told
<1> QED
  BY <1>1 DEF Told

LEMMA StreamSame ==
    ASSUME FeedInv, OutboxOK', OutboxGrows, UNCHANGED <<client, cut>>, Carries(follow')
    PROVE  FeedInv'
<1>1. /\ Top \in Nat /\ Top' \in Nat /\ Top <= Top'
      /\ client.base \in Nat /\ client.last \in Nat /\ client.last <= Top
  BY DEF FeedInv, OutboxOK, OutboxGrows, ClientOK, Top
<1>2. ClientOK'
  BY <1>1 DEF FeedInv, ClientOK
<1>3. follow'.on => FramesOK'
  BY <1>1 DEF FeedInv, FramesOK, Carries
<1>4. Resetting' = Resetting
  BY DEF Resetting, Carries
<1>5. ASSUME NEW i \in Nat, client.base < i, i <= Top
      PROVE  /\ Told(i, client.got) => Told(i, client.got)'
             /\ Told(i, follow.ready) => Told(i, follow.ready)'
  BY <1>1, <1>5, ToldStill DEF FeedInv, Told, Carries
<1>6. ToldOK'
  <2>1. ASSUME NEW i \in Nat, client'.base < i, i <= client'.last
        PROVE  (Told(i, client.got) \/ (follow.on /\ Told(i, follow.ready)) \/ i \in cut)'
    <3>1. client.base < i /\ i <= Top /\ i <= client.last
      BY <1>1, <2>1
    <3> QED
      BY <1>5, <3>1 DEF FeedInv, ToldOK, Carries
  <2>2. ASSUME follow'.on, ~Resetting', NEW i \in Nat, client'.base < i, i <= follow'.cursor
        PROVE  TellsOf(i)'
    <3>1. follow.on /\ ~Resetting /\ client.base < i /\ i <= follow.cursor
      BY <1>4, <2>2 DEF Carries
    <3>2. i <= Top
      BY <1>1, <3>1 DEF FeedInv, FramesOK
    <3> QED
      BY <1>5, <3>1, <3>2 DEF FeedInv, ToldOK, TellsOf
  <2> QED
    BY <2>1, <2>2 DEF ToldOK
<1> QED
  BY <1>2, <1>3, <1>6 DEF FeedInv, Carries

LEMMA SameOutbox ==
    ASSUME FeedInv, UNCHANGED outbox
    PROVE  OutboxOK' /\ OutboxGrows
BY DEF FeedInv, OutboxOK, OutboxGrows, Top

\* What is told to a client that stays as it is.
LEMMA ClientWaits ==
    ASSUME FeedInv, UNCHANGED <<outbox, client, cut>>, NEW i \in Nat, client.base < i, i <= client.last,
           ~(follow.on /\ Told(i, follow.ready))
    PROVE  (Told(i, client.got) \/ i \in cut)'
BY DEF FeedInv, ToldOK, Told, Tells

LEMMA StreamResets ==
    ASSUME FeedInv, UNCHANGED <<outbox, client, cut>>, IsFollow(follow'), follow'.cursor = Top,
           follow'.ready = {Reset(Top)}, follow.on => follow.ready = {}
    PROVE  FeedInv'
<1>0. PICK isSet \in BOOLEAN : isSet = TRUE
  OBVIOUS
<1>7. PICK r : r = [id |-> Top, thread |-> 0, run |-> 0, reset |-> isSet]
  OBVIOUS
<1>1. r = Reset(Top) /\ r.id = Top /\ r.reset
  BY <1>0, <1>7 DEF Reset
<1>8. Top' = Top /\ Top \in Nat
  BY DEF Top, FeedInv, OutboxOK
<1>2. Resetting'
  BY <1>1 DEF Resetting
<1>3. FramesOK'
  BY <1>1, <1>8 DEF FeedInv, ClientOK, FramesOK
<1>4. ASSUME NEW i \in Nat, client.base < i, i <= client.last
      PROVE  (Told(i, client.got) \/ i \in cut)'
  BY <1>4, ClientWaits DEF Told
<1>5. ToldOK'
  BY <1>2, <1>4 DEF ToldOK
<1>6. OutboxOK' /\ ClientOK'
  BY SameOutbox DEF FeedInv, ClientOK, Top
<1> QED
  BY <1>3, <1>5, <1>6 DEF FeedInv

LEMMA NoFollowIs == IsFollow(NoFollow) /\ ~NoFollow.on /\ NoFollow.ready = {}
<1>1. PICK no \in BOOLEAN : no = FALSE
  OBVIOUS
<1>2. PICK f : f = [on |-> no, cursor |-> 0, ready |-> {}, dirty |-> no, replaying |-> no,
                    wakes |-> <<>>, lagged |-> no]
  OBVIOUS
<1>3. NoFollow = f
  BY <1>1, <1>2 DEF NoFollow
<1>4. IsFollow(f)
  BY <1>2, SMTT(30) DEF IsFollow, FollowFields
<1>5. ~f.on /\ f.ready = {}
  BY <1>1, <1>2
<1> QED
  BY <1>3, <1>4, <1>5

LEMMA OpensStep ==
    ASSUME FeedInv, Opens
    PROVE  FeedInv'
<1>1. UNCHANGED <<outbox, client, cut>> /\ ~follow.on
  BY DEF Opens
<1>2. PICK isSet, no \in BOOLEAN : isSet = TRUE /\ no = FALSE
  OBVIOUS
<1>3. IsFollow(NoFollow) /\ NoFollow.ready = {}
  BY NoFollowIs
<1>4. CASE Resumes(client.last)
  <2>1. PICK f : f = [NoFollow EXCEPT !.on = isSet, !.cursor = client.last, !.dirty = isSet, !.replaying = isSet]
    OBVIOUS
  <2>3. follow' = f
    BY <1>2, <1>4, <2>1 DEF Opens
  <2>4. IsFollow(f) /\ f.on /\ f.cursor = client.last /\ f.ready = {}
    BY <1>2, <1>3, <2>1 DEF IsFollow, FollowFields
  <2>5. FramesOK'
    BY <1>1, <2>3, <2>4 DEF FeedInv, ClientOK, FramesOK, Top
  <2>6. ASSUME NEW i \in Nat, client.base < i, i <= client.last
        PROVE  (Told(i, client.got) \/ i \in cut)'
    BY <1>1, <2>6, ClientWaits
  <2>7. ToldOK'
    BY <1>1, <2>3, <2>4, <2>6 DEF ToldOK, TellsOf
  <2>8. OutboxOK' /\ ClientOK'
    BY <1>1, SameOutbox DEF FeedInv, ClientOK, Top
  <2> QED
    BY <2>3, <2>4, <2>5, <2>7, <2>8 DEF FeedInv
<1>5. CASE ~Resumes(client.last)
  <2>1. PICK r : r = Reset(Top)
    OBVIOUS
  <2>2. PICK f : f = [NoFollow EXCEPT !.on = isSet, !.cursor = Top, !.ready = {r}]
    OBVIOUS
  <2>4. follow' = f
    BY <1>2, <1>5, <2>1, <2>2 DEF Opens
  <2>5. IsFollow(f) /\ f.cursor = Top /\ f.ready = {r}
    BY <1>3, <2>2 DEF IsFollow, FollowFields
  <2> QED
    BY <1>1, <2>1, <2>4, <2>5, StreamResets
<1> QED
  BY <1>4, <1>5

LEMMA DropsStep ==
    ASSUME FeedInv, Drops
    PROVE  FeedInv'
<1>3. follow' = NoFollow
  BY DEF Drops
<1>4. IsFollow(NoFollow) /\ ~NoFollow.on
  BY NoFollowIs
<1>5. UNCHANGED <<outbox, client>>
  BY DEF Drops
<1>6. ASSUME NEW i \in Nat, client.base < i, i <= client.last
      PROVE  (Told(i, client.got) \/ i \in cut)'
  <2>1. i \in (client.base + 1)..client.last
    BY <1>6 DEF FeedInv, ClientOK
  <2>2. Told(i, client.got) \/ i \in cut'
    BY <2>1 DEF Drops
  <2> QED
    BY <1>5, <2>2 DEF Told, Tells
<1>7. ToldOK'
  BY <1>3, <1>4, <1>5, <1>6 DEF ToldOK
<1> QED
  BY <1>3, <1>4, <1>5, <1>7, SameOutbox DEF FeedInv, ClientOK, Top

LEMMA LatestOf ==
    ASSUME NEW S, NEW b \in Nat, \A x \in S : x \in Nat /\ x <= b, S # {}
    PROVE  \E x \in S : \A y \in S : y <= x
<1> DEFINE T == {b - x : x \in S}
<1>1. T \in SUBSET Nat /\ T # {}
  OBVIOUS
<1>2. PICK m \in T : \A y \in T : m <= y
  <2> HIDE DEF T
  <2> QED
    BY <1>1, FirstOf
<1>3. PICK x \in S : m = b - x
  BY <1>2
<1>4. ASSUME NEW y \in S PROVE y <= x
  <2>1. b - x <= b - y
    BY <1>2, <1>3
  <2> QED
    BY <2>1
<1> QED
  BY <1>4

LEMMA WokenCarries ==
    ASSUME FeedInv, NEW id
    PROVE  Carries(Woken(follow, id))
<1>1. IsFollow(follow)
  BY DEF FeedInv
<1>2. PICK isSet \in BOOLEAN : isSet = TRUE
  OBVIOUS
<1>3. PICK w, u : w = Append(follow.wakes, id) /\ u = Append(Tail(follow.wakes), id)
  OBVIOUS
<1>4. PICK a, b : a = [follow EXCEPT !.wakes = w] /\ b = [follow EXCEPT !.wakes = u, !.lagged = isSet]
  OBVIOUS
<1>5. Woken(follow, id) \in {follow, a, b}
  BY <1>2, <1>3, <1>4 DEF Woken
<1>6. Carries(follow) /\ Carries(a) /\ Carries(b)
  BY <1>1, <1>4 DEF Carries, IsFollow, FollowFields
<1> QED
  BY <1>5, <1>6

LEMMA NotesAreGood ==
    ASSUME NEW r \in FeedRuns, NEW b
    PROVE  Other \in GoodNotes /\ Changed(r, b) \in GoodNotes
<1>1. Other \in GoodNotes
  <2>1. PICK isSet \in BOOLEAN : isSet = TRUE
    OBVIOUS
  <2>2. PICK n : n = [thread |-> 0, run |-> 0, byOther |-> isSet]
    OBVIOUS
  <2>3. n \in Notes /\ n.run = 0
    BY <2>2 DEF Notes
  <2>4. OwnRun # 0
    BY FeedAssumption
  <2>5. Other = n
    BY <2>1, <2>2 DEF Other
  <2> QED
    BY <2>3, <2>4, <2>5 DEF GoodNotes
<1>2. Changed(r, b) \in GoodNotes
  <2>1. PICK o \in BOOLEAN : o = (r # OwnRun \/ b \cap Others # {})
    OBVIOUS
  <2>2. PICK x \in Nat : x = IF b \cap Own # {} /\ b \cap Others = {} THEN r ELSE 0
    BY FeedAssumption
  <2>3. PICK n : n = [thread |-> ThreadOf[r], run |-> x, byOther |-> o]
    OBVIOUS
  <2>4. Changed(r, b) = n
    BY <2>1, <2>2, <2>3 DEF Changed
  <2>5. n \in Notes /\ n.run = x /\ n.byOther = o
    BY <2>3, FeedAssumption DEF Notes
  <2>6. o => x # OwnRun
    BY <2>1, <2>2, FeedAssumption
  <2> QED
    BY <2>4, <2>5, <2>6 DEF GoodNotes
<1> QED
  BY <1>1, <1>2

LEMMA RunNotesAre ==
    ASSUME NEW r \in FeedRuns, NEW b
    PROVE  RunNotes(r, b) \in Seq(GoodNotes)
<1>1. PICK o, c : o = Other /\ c = Changed(r, b) /\ o \in GoodNotes /\ c \in GoodNotes
  BY NotesAreGood
<1>2. \A p \in BOOLEAN : When(p, o) \in Seq(GoodNotes)
  BY <1>1 DEF When
<1>6. PICK p \in BOOLEAN : p <=> "started" \in b
  OBVIOUS
<1>7. PICK q \in BOOLEAN : q = ("suspended" \in b /\ b \cap Ends = {})
  OBVIOUS
<1>8. PICK z \in BOOLEAN : z = (b \cap Ends # {})
  OBVIOUS
<1>3. PICK s, u, v \in Seq(GoodNotes) : s = When(p, o) /\ u = When(q, o) /\ v = When(z, o)
  BY <1>2
<1>4. s \o <<c>> \o u \o v \in Seq(GoodNotes)
  BY <1>1, <1>3
<1>5. <<>> \in Seq(GoodNotes)
  OBVIOUS
<1> QED
  BY <1>1, <1>3, <1>4, <1>5, <1>6, <1>7, <1>8 DEF RunNotes, When

LEMMA WrittenStep ==
    ASSUME FeedInv, NEW notes \in Seq(GoodNotes), Written(notes)
    PROVE  FeedInv'
<1>1. UNCHANGED <<client, cut>>
  BY DEF Written
<1>2. Carries(follow')
  <2>1. follow' = follow \/ \E id : follow' = Woken(follow, id)
    BY DEF Written
  <2>2. Carries(follow)
    BY DEF Carries, FeedInv
  <2> QED
    BY <2>1, <2>2, WokenCarries
<1>3. OutboxOK' /\ OutboxGrows
  <2>1. CASE notes = <<>>
    BY <2>1, SameOutbox DEF Written
  <2>2. CASE notes # <<>>
    <3>1. outbox' = outbox \o notes
      BY <2>2 DEF Written
    <3> QED
      BY <3>1 DEF FeedInv, OutboxOK, OutboxGrows, Top
  <2> QED
    BY <2>1, <2>2
<1> QED
  BY <1>1, <1>2, <1>3, StreamSame

LEMMA QuietSteps ==
    ASSUME FeedInv, AgedOut \/ ListenerLost \/ ListenerBack \/ Polls \/ UNCHANGED feedVars
    PROVE  FeedInv'
<1>1. UNCHANGED <<outbox, client, cut>>
  BY DEF AgedOut, ListenerLost, ListenerBack, Polls, feedVars
<1>2. Carries(follow')
  <2>1. CASE UNCHANGED follow
    BY <2>1 DEF Carries, FeedInv
  <2>2. CASE ListenerBack
    BY <2>2, WokenCarries DEF ListenerBack
  <2>3. CASE Polls
    <3>1. PICK isSet \in BOOLEAN : isSet = TRUE
      OBVIOUS
    <3>2. PICK f : f = [follow EXCEPT !.dirty = isSet]
      OBVIOUS
    <3>3. follow' = f
      BY <2>3, <3>1, <3>2 DEF Polls
    <3>4. Carries(f)
      BY <3>2 DEF FeedInv, Carries, IsFollow, FollowFields
    <3> QED
      BY <3>3, <3>4
  <2> QED
    BY <2>1, <2>2, <2>3 DEF AgedOut, ListenerLost, feedVars
<1> QED
  BY <1>1, <1>2, SameOutbox, StreamSame

LEMMA LaggedIs ==
    ASSUME FeedInv
    PROVE  IsFollow(Lagged) /\ Lagged.cursor = Top /\ Lagged.ready = {Reset(Top)} /\ Lagged.on = follow.on
<1>1. PICK no \in BOOLEAN : no = FALSE
  OBVIOUS
<1>2. PICK r : r = Reset(Top)
  OBVIOUS
<1>3. PICK f : f = [follow EXCEPT !.ready = {r}, !.cursor = Top, !.dirty = no, !.replaying = no]
  OBVIOUS
<1>4. Lagged = f
  BY <1>1, <1>2, <1>3 DEF Lagged
<1>5. IsFollow(f) /\ f.cursor = Top /\ f.ready = {r} /\ f.on = follow.on
  BY <1>3 DEF FeedInv, IsFollow, FollowFields
<1> QED
  BY <1>2, <1>4, <1>5

LEMMA TakesWakeStep ==
    ASSUME FeedInv, TakesWake
    PROVE  FeedInv'
<1>1. UNCHANGED <<outbox, client, cut>> /\ follow.ready = {} /\ IsFollow(follow)
  BY DEF TakesWake, FeedInv
<1>2. PICK no \in BOOLEAN : no = FALSE
  OBVIOUS
<1>3. CASE follow.wakes # <<>> /\ follow' = [follow EXCEPT !.wakes = Tail(@), !.dirty = @ \/ Head(follow.wakes) > follow.cursor]
  <2>1. PICK d \in BOOLEAN : d = (follow.dirty \/ Head(follow.wakes) > follow.cursor)
    OBVIOUS
  <2>2. PICK w : w = Tail(follow.wakes)
    OBVIOUS
  <2>3. PICK f : f = [follow EXCEPT !.wakes = w, !.dirty = d]
    OBVIOUS
  <2>4. follow' = f
    BY <1>1, <1>3, <2>1, <2>2, <2>3 DEF IsFollow, FollowFields
  <2>5. Carries(f)
    BY <1>1, <2>3 DEF Carries, IsFollow, FollowFields
  <2> QED
    BY <1>1, <2>4, <2>5, SameOutbox, StreamSame
<1>4. CASE Top - follow.cursor > WakeRoom /\ follow' = [Lagged EXCEPT !.lagged = FALSE]
  <2>1. PICK l : l = Lagged
    OBVIOUS
  <2>2. PICK f : f = [l EXCEPT !.lagged = no]
    OBVIOUS
  <2>3. follow' = f
    BY <1>2, <1>4, <2>1, <2>2
  <2>4. IsFollow(f) /\ f.cursor = Top /\ f.ready = {Reset(Top)}
    BY <2>1, <2>2, LaggedIs DEF IsFollow, FollowFields
  <2> QED
    BY <1>1, <2>3, <2>4, StreamResets
<1>5. CASE follow' = [[follow EXCEPT !.dirty = @ \/ Top > follow.cursor] EXCEPT !.lagged = FALSE]
  <2>1. PICK d \in BOOLEAN : d = (follow.dirty \/ Top > follow.cursor)
    OBVIOUS
  <2>2. PICK g : g = [follow EXCEPT !.dirty = d]
    OBVIOUS
  <2>3. PICK f : f = [g EXCEPT !.lagged = no]
    OBVIOUS
  <2>4. [follow EXCEPT !.dirty = @ \/ Top > follow.cursor] = g
    BY <1>1, <2>1, <2>2 DEF IsFollow, FollowFields
  <2>5. follow' = f
    BY <1>2, <1>5, <2>3, <2>4
  <2>6. Carries(f)
    BY <1>1, <2>2, <2>3 DEF Carries, IsFollow, FollowFields
  <2> QED
    BY <1>1, <2>5, <2>6, SameOutbox, StreamSame
<1> QED
  BY <1>3, <1>4, <1>5 DEF TakesWake

\* What a read makes of a page of notes tells each of them.
LEMMA FrameIs ==
    ASSUME NEW i, NEW run
    PROVE  /\ Frame(i, run).id = i /\ Frame(i, run).thread = outbox[i].thread
           /\ Frame(i, run).run = run /\ ~Frame(i, run).reset
<1>1. PICK no \in BOOLEAN : no = FALSE
  OBVIOUS
<1>2. PICK f : f = [id |-> i, thread |-> outbox[i].thread, run |-> run, reset |-> no]
  OBVIOUS
<1>3. f.id = i /\ f.thread = outbox[i].thread /\ f.run = run /\ ~f.reset
  BY <1>1, <1>2
<1> QED
  BY <1>1, <1>2, <1>3 DEF Frame

LEMMA NoteIs ==
    ASSUME FeedInv, NEW i \in Nat, 0 < i, i <= Top
    PROVE  outbox[i].run \in Nat /\ (outbox[i].byOther => outbox[i].run # OwnRun)
<1>1. i \in 1..Len(outbox) /\ outbox \in Seq(GoodNotes)
  BY DEF Top, FeedInv, OutboxOK
<1>2. outbox[i] \in GoodNotes
  BY <1>1
<1> QED
  BY <1>2 DEF GoodNotes, Notes

LEMMA LastOfThread ==
    ASSUME NEW m \in Nat, NEW n \in Nat, NEW i \in (m + 1)..n, outbox[i].thread # 0
    PROVE  \E j \in Lasts((m + 1)..n) : j >= i /\ outbox[j].thread = outbox[i].thread
<1> DEFINE S == {j \in (m + 1)..n : outbox[j].thread = outbox[i].thread}
<1>1. \A x \in S : x \in Nat /\ x <= n
  OBVIOUS
<1>2. S # {}
  OBVIOUS
<1>3. \E x \in S : \A y \in S : y <= x
  <2> HIDE DEF S
  <2> QED
    BY <1>1, <1>2, LatestOf
<1>4. PICK j \in S : \A y \in S : y <= j
  BY <1>3
<1>5. j \in Lasts((m + 1)..n)
  BY <1>4 DEF Lasts
<1> QED
  BY <1>4, <1>5

LEMMA FramesTell ==
    ASSUME FeedInv, NEW m \in Nat, NEW n \in Nat, n <= Top, NEW replay \in BOOLEAN
    PROVE  /\ \A i \in (m + 1)..n : Told(i, Frames((m + 1)..n, replay))
           /\ \A f \in Frames((m + 1)..n, replay) : f.id \in (m + 1)..n /\ ~f.reset
           /\ \A f, g \in Frames((m + 1)..n, replay) : f.id = g.id => f = g
           /\ m < n => \E f \in Frames((m + 1)..n, replay) : f.id = n
<1> DEFINE ids == (m + 1)..n
<1>1. Top \in Nat /\ \A i \in ids : i \in Nat /\ 0 < i /\ i <= Top
  BY DEF FeedInv, OutboxOK, Top
<1>2. m < n => n \in ids
  OBVIOUS
<1>3. \A i \in ids : outbox[i].byOther => outbox[i].run # OwnRun
  BY <1>1, NoteIs
<1> HIDE DEF ids
<1>4. CASE replay
  <2>1. Frames(ids, replay) = {Frame(i, outbox[i].run) : i \in ids}
    BY <1>4 DEF Frames, AllFrames
  <2>2. ASSUME NEW i \in ids PROVE Told(i, Frames(ids, replay))
    <3>1. PICK f : f = Frame(i, outbox[i].run)
      OBVIOUS
    <3>2. f \in Frames(ids, replay)
      BY <2>1, <3>1
    <3>3. Tells(f, i)
      BY <1>1, <1>3, <3>1, FrameIs DEF Tells
    <3> QED
      BY <3>2, <3>3 DEF Told
  <2>3. /\ \A f \in Frames(ids, replay) : f.id \in ids /\ ~f.reset
        /\ \A f, g \in Frames(ids, replay) : f.id = g.id => f = g
        /\ m < n => \E f \in Frames(ids, replay) : f.id = n
    BY <1>2, <2>1, FrameIs
  <2> QED
    BY <2>2, <2>3 DEF ids
<1>5. CASE ~replay
  <2> DEFINE Agreed(i) == \A j \in ids : outbox[j].thread = outbox[i].thread => outbox[j].run = outbox[i].run
             Run(i) == IF outbox[i].thread # 0 /\ Agreed(i) THEN outbox[i].run ELSE 0
  <2>1. Frames(ids, replay) = {Frame(i, Run(i)) : i \in Lasts(ids)}
    BY <1>5 DEF Frames, Coalesced
  <2>2. \A j \in Lasts(ids) : j \in ids
    BY DEF Lasts
  <2>3. OwnRun # 0
    BY FeedAssumption
  <2>4. ASSUME NEW i \in ids PROVE Told(i, Frames(ids, replay))
    <3>1. CASE outbox[i].thread = 0
      <4>1. PICK f : f = Frame(i, Run(i))
        OBVIOUS
      <4>2. Run(i) = 0 /\ i \in Lasts(ids)
        BY <3>1 DEF Lasts
      <4>3. f \in Frames(ids, replay)
        BY <2>1, <4>1, <4>2
      <4>4. f.id = i /\ f.thread = outbox[i].thread /\ f.run = 0 /\ ~f.reset
        BY <4>1, <4>2, FrameIs
      <4>5. Tells(f, i)
        BY <1>1, <2>3, <4>4 DEF Tells
      <4> QED
        BY <4>3, <4>5 DEF Told
    <3>2. CASE outbox[i].thread # 0
      <4>1. PICK j \in Lasts(ids) : j >= i /\ outbox[j].thread = outbox[i].thread
        BY <3>2, LastOfThread DEF ids
      <4>2. PICK f : f = Frame(j, Run(j))
        OBVIOUS
      <4>3. f \in Frames(ids, replay)
        BY <2>1, <4>1, <4>2
      <4>4. f.id = j /\ f.thread = outbox[i].thread /\ f.run = Run(j) /\ ~f.reset
        BY <4>1, <4>2, FrameIs
      <4>5. outbox[i].byOther => Run(j) # OwnRun
        BY <1>3, <2>3, <4>1
      <4> HIDE DEF Run
      <4>6. Tells(f, i)
        BY <1>1, <3>2, <4>1, <4>4, <4>5 DEF Tells
      <4> QED
        BY <4>3, <4>6 DEF Told
    <3> QED
      BY <3>1, <3>2
  <2>5. m < n => n \in Lasts(ids)
    BY DEF Lasts, ids
  <2> HIDE DEF Run
  <2>6. /\ \A f \in Frames(ids, replay) : f.id \in ids /\ ~f.reset
        /\ \A f, g \in Frames(ids, replay) : f.id = g.id => f = g
        /\ m < n => \E f \in Frames(ids, replay) : f.id = n
    BY <2>1, <2>2, <2>5, FrameIs
  <2> QED
    BY <2>4, <2>6 DEF ids
<1> QED
  BY <1>4, <1>5

\* The page after the cursor, when nothing is missing.
LEMMA PageIs ==
    ASSUME FeedInv, follow.on, follow.ready = {}, ~Gap(follow.cursor)
    PROVE  \E n \in Nat : /\ follow.cursor <= n /\ n <= Top
                          /\ PageAfter(follow.cursor) = (follow.cursor + 1)..n
                          /\ n = IF PageAfter(follow.cursor) = {} THEN follow.cursor ELSE PageEnd(follow.cursor)
<1>1. follow.cursor \in Nat /\ follow.cursor <= Top /\ Top \in Nat /\ FeedPage \in Nat
  BY FeedAssumption DEF FeedInv, FramesOK, OutboxOK, Top
<1>2. CASE PageAfter(follow.cursor) = {}
  <2>1. (follow.cursor + 1)..follow.cursor = {}
    BY <1>1
  <2> QED
    BY <1>1, <1>2, <2>1
<1>3. CASE PageAfter(follow.cursor) # {}
  <2>1. PageStart(follow.cursor) = follow.cursor
    BY <1>3 DEF Gap
  <2>2. PageEnd(follow.cursor) \in Nat /\ PageEnd(follow.cursor) <= Top /\ follow.cursor <= PageEnd(follow.cursor)
    BY <1>1, <2>1 DEF PageEnd
  <2> QED
    BY <1>3, <2>1, <2>2 DEF PageAfter
<1> QED
  BY <1>2, <1>3

LEMMA ReadsStep ==
    ASSUME FeedInv, Reads
    PROVE  FeedInv'
<1>1. UNCHANGED <<outbox, client, cut>> /\ follow.on /\ follow.ready = {} /\ IsFollow(follow)
  BY DEF Reads, FeedInv
<1>2. CASE Gap(follow.cursor)
  <2>1. PICK l : l = Lagged
    OBVIOUS
  <2>2. follow' = l
    BY <1>2, <2>1 DEF Reads
  <2>3. IsFollow(l) /\ l.cursor = Top /\ l.ready = {Reset(Top)}
    BY <2>1, LaggedIs
  <2> QED
    BY <1>1, <2>2, <2>3, StreamResets
<1>3. CASE ~Gap(follow.cursor)
  <2>1. PICK n \in Nat : /\ follow.cursor <= n /\ n <= Top
                         /\ PageAfter(follow.cursor) = (follow.cursor + 1)..n
                         /\ n = IF PageAfter(follow.cursor) = {} THEN follow.cursor ELSE PageEnd(follow.cursor)
    BY <1>1, <1>3, PageIs
  <2>2. PICK more \in BOOLEAN : more = (PageEnd(follow.cursor) - PageStart(follow.cursor) = FeedPage)
    OBVIOUS
  <2>3. PICK p \in BOOLEAN : p = (follow.replaying /\ more)
    OBVIOUS
  <2>4. PICK replay \in BOOLEAN : Frames((follow.cursor + 1)..n, replay) = Frames(PageAfter(follow.cursor), follow.replaying)
    <3>1. PICK replay \in BOOLEAN : replay = (follow.replaying = TRUE)
      OBVIOUS
    <3> QED
      BY <2>1, <3>1 DEF Frames
  <2>5. PICK s : s = Frames((follow.cursor + 1)..n, replay)
    OBVIOUS
  <2>6. PICK f : f = [follow EXCEPT !.dirty = more, !.replaying = p, !.cursor = n, !.ready = s]
    OBVIOUS
  <2>7. follow' = f
    BY <1>1, <1>3, <2>1, <2>2, <2>3, <2>4, <2>5, <2>6 DEF Reads, IsFollow, FollowFields
  <2>8. IsFollow(f) /\ f.cursor = n /\ f.ready = s /\ f.on = follow.on
    BY <1>1, <2>6 DEF IsFollow, FollowFields
  <2>9. PICK c \in Nat : c = follow.cursor /\ client.last = c
    BY <1>1 DEF FeedInv, FramesOK
  <2>10. /\ \A i \in (c + 1)..n : Told(i, s)
         /\ \A g \in s : g.id \in (c + 1)..n /\ ~g.reset
         /\ \A g, h \in s : g.id = h.id => g = h
         /\ c < n => \E g \in s : g.id = n
    <3>1. s = Frames((c + 1)..n, replay) /\ n <= Top
      BY <2>1, <2>5, <2>9
    <3>2. \A i \in (c + 1)..n : Told(i, s)
      BY <3>1, FramesTell
    <3>3. \A g \in s : g.id \in (c + 1)..n /\ ~g.reset
      BY <3>1, FramesTell
    <3>4. \A g, h \in s : g.id = h.id => g = h
      BY <3>1, FramesTell
    <3>5. c < n => \E g \in s : g.id = n
      BY <3>1, FramesTell
    <3> QED
      BY <3>2, <3>3, <3>4, <3>5
  <2>11. s = {} <=> c = n
    BY <2>1, <2>9, <2>10
  <2>12. Top' = Top /\ Top \in Nat
    BY <1>1 DEF FeedInv, OutboxOK, Top
  <2>13. FramesOK'
    <3>1. follow'.cursor = n /\ follow'.ready = s /\ client'.last = c
      BY <1>1, <2>7, <2>8, <2>9
    <3>2. \A g \in s : ~g.reset /\ g.id \in Nat /\ c < g.id /\ g.id <= n
      BY <2>1, <2>9, <2>10
    <3>3. c <= n /\ n <= Top'
      BY <2>1, <2>9, <2>12
    <3>4. s # {} => \E g \in s : g.id = n
      BY <2>10, <2>11, <3>3
    <3>5. \A g, h \in s : g.id = h.id => g = h
      BY <2>10
    <3> QED
      BY <2>11, <3>1, <3>2, <3>3, <3>4, <3>5 DEF FramesOK
  <2>14. ASSUME NEW i \in Nat, client.base < i, i <= n
         PROVE  TellsOf(i)'
    <3>1. CASE i <= c
      <4>1. (Told(i, client.got) \/ i \in cut)'
        BY <1>1, <2>9, <2>14, <3>1, ClientWaits DEF Told
      <4> QED
        BY <4>1 DEF TellsOf
    <3>2. CASE ~(i <= c)
      <4>1. Told(i, s)
        BY <2>9, <2>10, <2>14, <3>2
      <4>2. Told(i, follow.ready)'
        BY <1>1, <2>7, <2>8, <4>1 DEF Told, Tells
      <4> QED
        BY <4>2 DEF TellsOf
    <3> QED
      BY <3>1, <3>2
  <2>15. ToldOK'
    <3>1. ASSUME NEW i \in Nat, client'.base < i, i <= client'.last
          PROVE  (Told(i, client.got) \/ i \in cut)'
      BY <1>1, <3>1, ClientWaits DEF Told
    <3> QED
      BY <1>1, <2>7, <2>8, <2>14, <3>1 DEF ToldOK
  <2> QED
    BY <1>1, <2>7, <2>8, <2>12, <2>13, <2>15, SameOutbox DEF FeedInv, ClientOK
<1> QED
  BY <1>2, <1>3

LEMMA GetsStep ==
    ASSUME FeedInv, Gets
    PROVE  FeedInv'
<1>1. UNCHANGED <<outbox, cut>> /\ follow.on /\ IsFollow(follow) /\ FramesOK
  BY DEF Gets, FeedInv
<1>2. PICK f \in follow.ready :
         /\ \A g \in follow.ready : f.id <= g.id
         /\ client' = [last |-> f.id,
                       base |-> IF f.reset THEN f.id ELSE client.base,
                       got |-> IF f.reset THEN {} ELSE client.got \cup {f}]
         /\ follow' = [follow EXCEPT !.ready = @ \ {f}]
  BY DEF Gets
<1>3. PICK r : r = follow.ready
  OBVIOUS
<1>4. PICK h : h = [follow EXCEPT !.ready = r \ {f}]
  OBVIOUS
<1>5. follow' = h
  BY <1>1, <1>2, <1>3, <1>4 DEF IsFollow, FollowFields
<1>6. IsFollow(h) /\ h.on /\ h.cursor = follow.cursor /\ h.ready = r \ {f}
  BY <1>1, <1>4 DEF IsFollow, FollowFields
<1>7. Top' = Top /\ Top \in Nat
  BY <1>1 DEF FeedInv, OutboxOK, Top
<1>8. CASE f.reset
  <2>1. r = {f} /\ f.id = follow.cursor
    BY <1>1, <1>2, <1>3, <1>8 DEF FramesOK
  <2>2. client'.last = f.id /\ client'.base = f.id
    BY <1>2, <1>8
  <2>3. h.ready = {}
    BY <1>6, <2>1
  <2>4. FramesOK' /\ ClientOK'
    BY <1>1, <1>5, <1>6, <1>7, <2>1, <2>2, <2>3 DEF FramesOK, ClientOK
  <2>5. ToldOK'
    BY <1>1, <1>5, <1>6, <2>1, <2>2 DEF ToldOK, FramesOK
  <2> QED
    BY <1>1, <1>5, <1>6, <2>4, <2>5, SameOutbox DEF FeedInv
<1>9. CASE ~f.reset
  <2>1. client'.last = f.id /\ client'.base = client.base /\ client'.got = client.got \cup {f}
    BY <1>2, <1>9
  <2>2. f.id \in Nat /\ client.last < f.id /\ f.id <= follow.cursor
    BY <1>1, <1>9 DEF FramesOK
  <2>3. \A g \in r : ~g.reset
    BY <1>1, <1>2, <1>3, <1>9 DEF FramesOK
  <2>4. FramesOK'
    <3>1. h.ready = {} => f.id = follow.cursor
      BY <1>1, <1>2, <1>3, <1>6 DEF FramesOK
    <3>2. h.ready # {} => \E g \in h.ready : g.id = follow.cursor
      <4> SUFFICES ASSUME h.ready # {} PROVE \E g \in h.ready : g.id = follow.cursor
        OBVIOUS
      <4>1. PICK g \in r : g.id = follow.cursor
        BY <1>1, <1>2, <1>3 DEF FramesOK
      <4>2. PICK k \in r : k # f
        BY <1>6
      <4>3. k.id \in Nat /\ k.id <= follow.cursor /\ f.id <= k.id /\ k.id # f.id
        BY <1>1, <1>2, <1>3, <2>3, <4>2 DEF FramesOK
      <4>4. g # f
        BY <1>1, <2>2, <4>1, <4>3 DEF FramesOK
      <4> QED
        BY <1>6, <4>1, <4>4
    <3>3. \A g \in h.ready : g \in r /\ ~g.reset /\ g.id \in Nat /\ f.id < g.id /\ g.id <= follow.cursor
      <4> SUFFICES ASSUME NEW g \in h.ready
                   PROVE  g \in r /\ ~g.reset /\ g.id \in Nat /\ f.id < g.id /\ g.id <= follow.cursor
        OBVIOUS
      <4>1. g \in r /\ g # f
        BY <1>6
      <4>2. g.id # f.id /\ f.id <= g.id /\ g.id \in Nat /\ g.id <= follow.cursor
        BY <1>1, <1>2, <1>3, <2>3, <4>1 DEF FramesOK
      <4> QED
        BY <2>2, <2>3, <4>1, <4>2
    <3>4. \A g, k \in h.ready : g.id = k.id => g = k
      BY <1>1, <1>3, <3>3 DEF FramesOK
    <3>5. client'.last <= follow'.cursor /\ follow'.cursor <= Top' /\ follow'.cursor \in Nat
      BY <1>1, <1>5, <1>6, <1>7, <2>1, <2>2 DEF FramesOK
    <3> QED
      BY <1>5, <1>6, <2>1, <3>1, <3>2, <3>3, <3>4, <3>5 DEF FramesOK
  <2>5. ClientOK'
    BY <1>1, <1>7, <2>1, <2>2 DEF FeedInv, ClientOK, FramesOK
  <2>6. ASSUME NEW i \in Nat, client.base < i, i <= follow.cursor
        PROVE  TellsOf(i)'
    <3>1. Told(i, client.got) \/ Told(i, r) \/ i \in cut
      BY <1>1, <1>3, <2>3, <2>6 DEF FeedInv, ToldOK, Resetting, TellsOf
    <3>2. CASE Told(i, client.got)
      BY <1>1, <2>1, <3>2 DEF TellsOf, Told, Tells
    <3>3. CASE Told(i, r)
      <4>1. PICK g \in r : Tells(g, i)
        BY <3>3 DEF Told
      <4>2. CASE g = f
        BY <1>1, <2>1, <4>1, <4>2 DEF TellsOf, Told, Tells
      <4>3. CASE g # f
        BY <1>1, <1>5, <1>6, <4>1, <4>3 DEF TellsOf, Told, Tells
      <4> QED
        BY <4>2, <4>3
    <3>4. CASE i \in cut
      BY <1>1, <3>4 DEF TellsOf
    <3> QED
      BY <3>1, <3>2, <3>3, <3>4
  <2>7. ToldOK'
    <3>1. \A i \in Nat : client'.base < i /\ i <= client'.last => i <= follow.cursor
      BY <1>1, <2>1, <2>2 DEF FramesOK
    <3> QED
      BY <1>5, <1>6, <2>1, <2>6, <3>1 DEF ToldOK, TellsOf
  <2> QED
    BY <1>1, <1>5, <1>6, <2>4, <2>5, <2>7, SameOutbox DEF FeedInv
<1> QED
  BY <1>8, <1>9

\* Of every note up to the last frame the client got, a frame told it or one that is ready
\* will, or it was merged into a frame that was lost with its stream: whatever wakes and rows
\* were lost, and however often the stream was resumed.
THEOREM NoNoteIsMissed == FeedSpec => []NothingMissed
<1>1. FeedInit => FeedInv
  <2> SUFFICES ASSUME FeedInit PROVE FeedInv
    OBVIOUS
  <2>1. OutboxOK /\ Top = 0
    BY DEF FeedInit, OutboxOK, Top
  <2>2. ~follow.on /\ IsFollow(follow)
    BY NoFollowIs DEF FeedInit
  <2>3. client.base = 0 /\ client.last = 0
    BY DEF FeedInit
  <2>4. ClientOK /\ ToldOK
    BY <2>1, <2>2, <2>3 DEF ClientOK, ToldOK
  <2> QED
    BY <2>1, <2>2, <2>4 DEF FeedInv
<1>2. FeedInv /\ [FeedNext]_feedVars => FeedInv'
  <2> SUFFICES ASSUME FeedInv, [FeedNext]_feedVars PROVE FeedInv'
    OBVIOUS
  <2>1. ASSUME NEW r \in FeedRuns, NEW b \in Batches, RunAppended(r, b) PROVE FeedInv'
    <3>1. PICK notes \in Seq(GoodNotes) : notes = RunNotes(r, b)
      BY RunNotesAre
    <3>2. Written(notes)
      BY <2>1, <3>1 DEF RunAppended
    <3> QED
      BY <3>2, WrittenStep
  <2>2. CASE RoutineAppended
    <3>1. PICK o : o = Other /\ o \in GoodNotes
      BY NotesAreGood, FeedAssumption
    <3>4. o \in GoodNotes
      BY <3>1
    <3>5. <<o>> \in Seq(GoodNotes)
      BY <3>4
    <3>2. PICK notes \in Seq(GoodNotes) : notes = <<o>>
      BY <3>5
    <3>3. Written(notes)
      BY <2>2, <3>1, <3>2 DEF RoutineAppended
    <3> QED
      BY <3>3, WrittenStep
  <2> QED
    BY <2>1, <2>2, QuietSteps, OpensStep, DropsStep, ReadsStep, TakesWakeStep, GetsStep DEF FeedNext
<1>3. FeedInv => NothingMissed
  BY DEF FeedInv, ClientOK, ToldOK, NothingMissed
<1> QED
  BY <1>1, <1>2, <1>3, PTL DEF FeedSpec
=============================================================================
