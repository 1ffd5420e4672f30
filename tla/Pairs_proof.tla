---------------------------- MODULE Pairs_proof -----------------------------
(***************************************************************************)
(* What holds of messages between Bots, proved for any number of Bots,     *)
(* messages and calls, any depth and any caps.  PairInv is inductive: of   *)
(* the rows of a pair at most one is claimed and unended, a run is nothing *)
(* until its row is claimed, and the ids of a call that is not written yet *)
(* are its own and later than everything its run has written.              *)
(***************************************************************************)
EXTENDS Pairs, FiniteSetTheorems, WellFoundedInduction, TLAPS

\* A run is nothing until its row is claimed; a refusal has it to itself.
RunsOK ==
    \A id \in Ids :
        /\ status[id] # "none" => state[id] = "started"
        /\ fires[id] > 0 => state[id] = "started"
        /\ id \in working => status[id] # "none"
        /\ id \in refusing => status[id] = "running" /\ id \notin working

\* Claimed, and its run not ended: the row its pair is held by.
Holding(id) == state[id] = "started" /\ status[id] # "ended"

OneHolds == \A i, j \in Written : i # j /\ PairOf(i) = PairOf(j) => ~(Holding(i) /\ Holding(j))

\* What a message is in its chain, next to the one that started its sender.
ChainOK(by, hop, chain) ==
    /\ by \in Chats => hop = 1 /\ chain = by
    /\ by \in Ids => by \in Written /\ hop = row[by].hop + 1 /\ chain = row[by].chain

\* The ids of a call not yet written: its own, and later than what its run has written.
SendOK(s) ==
    /\ \A b \in DOMAIN s.ids : s.ids[b] < next /\ state[s.ids[b]] = "none"
    /\ \A b, c \in DOMAIN s.ids : b # c => s.ids[b] # s.ids[c]
    /\ \A id \in Written : row[id].by = s.by => \A b \in DOMAIN s.ids : id < s.ids[b]
    /\ ChainOK(s.by, s.hop, s.chain)

Disjoint(s, t) ==
    /\ s.by # t.by
    /\ \A b \in DOMAIN s.ids, c \in DOMAIN t.ids : s.ids[b] # t.ids[c]

SendsOK ==
    /\ \A s \in sends : SendOK(s)
    /\ \A s, t \in sends : s # t => Disjoint(s, t)

RowsOK ==
    /\ \A id \in Written : /\ id < next /\ row[id].from = BotOf(row[id].by)
                           /\ ChainOK(row[id].by, row[id].hop, row[id].chain)
    /\ SentOnce /\ InOrder

InChainOf(c) == {id \in Written : row[id].chain = c}
InWindow(t) == {id \in Written : row[id].at > t /\ row[id].at <= t + Hour}

CapsOK ==
    /\ \A c \in Runs : Cardinality(InChainOf(c)) <= PerChain
    /\ \A t \in (0 - Hour)..MaxTime : Cardinality(InWindow(t)) <= PerHour

PairInv == TypeOK /\ RunsOK /\ OneHolds /\ SendsOK /\ RowsOK /\ CapsOK

-----------------------------------------------------------------------------
(* Minima, the constants, and what is finite.                               *)

LEMMA LeastIs ==
    ASSUME NEW S \in SUBSET Nat, S # {}
    PROVE  Min(S) \in S /\ \A y \in S : Min(S) <= y
<1> DEFINE R == OpToRel(<, Nat)
<1>1. IsWellFoundedOn(R, Nat)
  BY NatLessThanWellFounded
<1>2. PICK x \in S : \A y \in S : <<y, x>> \notin R
  <2> HIDE DEF R
  <2> QED
    BY <1>1, WFMin
<1>3. \A y \in S : ~(y < x)
  BY <1>2, Zenon DEF OpToRel
<1>4. \A y \in S : x <= y
  BY <1>3
<1> QED
  BY <1>4 DEF Min

LEMMA ConstantsAre ==
    /\ MaxMsgs \in Nat /\ MaxCalls \in Nat /\ MaxHops \in Nat /\ PerChain \in Nat
    /\ PerHour \in Nat /\ MaxTime \in Nat /\ MaxFaults \in Nat
    /\ Hour \in Nat \ {0} /\ MaxTasks \in Nat \ {0}
    /\ Ids \subseteq Runs /\ Ids \cap Chats = {} /\ Ids \subseteq Nat /\ Chats \subseteq Bots
BY PairsAssumption DEF Ids, Runs

LEMMA WrittenIs ==
    /\ Written \subseteq Ids /\ IsFiniteSet(Written)
    /\ \A c : IsFiniteSet(InChainOf(c)) /\ Cardinality(InChainOf(c)) \in Nat
    /\ \A t : IsFiniteSet(InWindow(t)) /\ Cardinality(InWindow(t)) \in Nat
<1>1. Written \subseteq Ids
  BY DEF Written
<1>2. IsFiniteSet(Ids)
  BY ConstantsAre, FS_Interval DEF Ids
<1>3. IsFiniteSet(Written)
  BY <1>1, <1>2, FS_Subset
<1>4. ASSUME NEW c
      PROVE  IsFiniteSet(InChainOf(c)) /\ Cardinality(InChainOf(c)) \in Nat
  <2>1. InChainOf(c) \subseteq Written
    BY DEF InChainOf
  <2> QED
    BY <1>3, <2>1, FS_Subset, FS_CardinalityType
<1>5. ASSUME NEW t
      PROVE  IsFiniteSet(InWindow(t)) /\ Cardinality(InWindow(t)) \in Nat
  <2>1. InWindow(t) \subseteq Written
    BY DEF InWindow
  <2> QED
    BY <1>3, <2>1, FS_Subset, FS_CardinalityType
<1> QED
  BY <1>1, <1>3, <1>4, <1>5

LEMMA AskIs ==
    ASSUME drains \in [Pairings -> 0..MaxTasks], NEW ps, Ask(ps)
    PROVE  drains' \in [Pairings -> 0..MaxTasks]
<1>1. ASSUME NEW p \in Pairings
      PROVE  Asked(p) \in 0..MaxTasks
  <2> DEFINE d == drains[p] + 1
  <2>1. d \in Nat /\ MaxTasks \in Nat
    BY ConstantsAre
  <2>2. Asked(p) = Min({d, MaxTasks})
    BY DEF Asked
  <2> HIDE DEF d
  <2>3. Min({d, MaxTasks}) \in {d, MaxTasks} /\ Min({d, MaxTasks}) <= MaxTasks
    BY <2>1, LeastIs
  <2> QED
    BY <2>1, <2>2, <2>3
<1> QED
  BY <1>1 DEF Ask

LEMMA EndedIs ==
    ASSUME drains \in [Pairings -> 0..MaxTasks], NEW r, Ended(r)
    PROVE  drains' \in [Pairings -> 0..MaxTasks]
BY AskIs DEF Ended

LEMMA FaultIs ==
    ASSUME TypeOK, UNCHANGED faults \/ Fault
    PROVE  faults' \in 0..MaxFaults
BY ConstantsAre DEF TypeOK, Fault

-----------------------------------------------------------------------------
(* Steps that leave the outbox's rows and claims alone.                     *)

Statuses == [Runs -> {"none", "running", "parked", "ended"}]

LEMMA RunsMove ==
    ASSUME PairInv, UNCHANGED <<next, row, state, noted, calls>>, sends' \subseteq sends,
           stale' \subseteq Ids, status' \in Statuses, working' \subseteq Runs,
           drains' \in [Pairings -> 0..MaxTasks], fires' \in [Ids -> 0..MaxTasks],
           refusing' \subseteq Ids, clock' \in 0..MaxTime, faults' \in 0..MaxFaults,
           RunsOK', \A id \in Ids : status[id] = "ended" => status'[id] = "ended"
    PROVE  PairInv'
<1>1. Written' = Written /\ Written \subseteq Ids
  BY WrittenIs DEF Written
<1>2. TypeOK'
  BY <1>1 DEF PairInv, TypeOK, Statuses
<1>3. OneHolds'
  <2>1. ASSUME NEW i \in Written
        PROVE  Holding(i)' => Holding(i)
    BY <1>1 DEF Holding
  <2> QED
    BY <1>1, <2>1 DEF PairInv, OneHolds, PairOf
<1>4. SendsOK'
  <2>1. ASSUME NEW s \in sends, SendOK(s)
        PROVE  SendOK(s)'
    BY <1>1, <2>1 DEF SendOK, ChainOK
  <2> QED
    BY <2>1 DEF PairInv, SendsOK, Disjoint
<1>5. RowsOK' /\ CapsOK'
  BY <1>1 DEF PairInv, RowsOK, CapsOK, ChainOK, BotOf, SentOnce, InOrder, InChainOf, InWindow
<1> QED
  BY <1>2, <1>3, <1>4, <1>5 DEF PairInv

\* What a step finds that does not touch it.
LEMMA TypeFacts ==
    ASSUME PairInv
    PROVE  /\ stale \subseteq Ids /\ status \in Statuses /\ working \subseteq Runs
           /\ drains \in [Pairings -> 0..MaxTasks] /\ fires \in [Ids -> 0..MaxTasks]
           /\ refusing \subseteq Ids /\ clock \in 0..MaxTime /\ faults \in 0..MaxFaults
           /\ RunsOK /\ Ids \subseteq Runs /\ TypeOK
           /\ \A id \in Ids : status[id] = "ended" => state[id] = "started"
BY ConstantsAre DEF PairInv, TypeOK, RunsOK, Statuses

LEMMA StatusIs ==
    ASSUME status \in Statuses, NEW r, NEW v \in {"none", "running", "parked", "ended"},
           status' = [status EXCEPT ![r] = v]
    PROVE  /\ status' \in Statuses
           /\ \A q \in Runs : status'[q] = IF q = r THEN v ELSE status[q]
BY DEF Statuses

LEMMA FiresIs ==
    ASSUME NEW id \in Ids, fires \in [Ids -> 0..MaxTasks], Fires(id)
    PROVE  /\ fires' \in [Ids -> 0..MaxTasks] /\ fires[id] > 0
           /\ \A i \in Ids : fires'[i] > 0 => fires[i] > 0
<1>1. fires' = [fires EXCEPT ![id] = fires[id] - 1] /\ fires[id] > 0 /\ MaxTasks \in Nat
  BY ConstantsAre DEF Fires
<1>2. fires[id] \in 0..MaxTasks /\ fires[id] - 1 \in 0..MaxTasks
  BY <1>1
<1>3. \A i \in Ids : fires'[i] = IF i = id THEN fires[id] - 1 ELSE fires[i]
  BY <1>1
<1> QED
  BY <1>1, <1>2, <1>3

LEMMA FireStep ==
    ASSUME PairInv, NEW id \in Ids,
           FireBegins(id) \/ FireEndsHere(id) \/ FireRefuses(id) \/ RecordRefusal(id)
    PROVE  PairInv'
<1>1. /\ stale \subseteq Ids /\ status \in Statuses /\ working \subseteq Runs
      /\ drains \in [Pairings -> 0..MaxTasks] /\ fires \in [Ids -> 0..MaxTasks]
      /\ refusing \subseteq Ids /\ clock \in 0..MaxTime /\ faults \in 0..MaxFaults
      /\ RunsOK /\ Ids \subseteq Runs /\ TypeOK
  BY TypeFacts
<1>2. CASE FireBegins(id)
  <2>1. /\ UNCHANGED <<outbox, sends, drains, refusing, calls, clock, faults>>
        /\ Fires(id) /\ status[id] = "none" /\ status' = [status EXCEPT ![id] = "running"]
        /\ working' = working \cup {id}
    BY <1>2 DEF FireBegins, Claims
  <2>2. status' \in Statuses /\ \A q \in Runs : status'[q] = IF q = id THEN "running" ELSE status[q]
    BY <1>1, <2>1, StatusIs
  <2>3. fires' \in [Ids -> 0..MaxTasks] /\ fires[id] > 0 /\ \A i \in Ids : fires'[i] > 0 => fires[i] > 0
    BY <1>1, <2>1, FiresIs
  <2>4. RunsOK'
    BY <1>1, <2>1, <2>2, <2>3 DEF RunsOK, outbox
  <2>5. working' \subseteq Runs /\ \A i \in Ids : status[i] = "ended" => status'[i] = "ended"
    BY <1>1, <2>1, <2>2
  <2> QED
    BY <1>1, <2>1, <2>2, <2>3, <2>4, <2>5, RunsMove DEF outbox
<1>3. CASE FireEndsHere(id)
  <2>1. UNCHANGED <<outbox, status, working, sends, drains, refusing, calls, clock>> /\ Fires(id)
    BY <1>3 DEF FireEndsHere
  <2>2. faults' \in 0..MaxFaults
    BY <1>1, <1>3, FaultIs DEF FireEndsHere
  <2>3. fires' \in [Ids -> 0..MaxTasks] /\ \A i \in Ids : fires'[i] > 0 => fires[i] > 0
    BY <1>1, <2>1, FiresIs
  <2>4. RunsOK'
    BY <1>1, <2>1, <2>3 DEF RunsOK, outbox
  <2> QED
    BY <1>1, <2>1, <2>2, <2>3, <2>4, RunsMove DEF outbox
<1>4. CASE FireRefuses(id)
  <2>1. /\ UNCHANGED <<outbox, working, sends, drains, calls, clock, faults>>
        /\ Fires(id) /\ status[id] = "none" /\ status' = [status EXCEPT ![id] = "running"]
        /\ refusing' = refusing \cup {id}
    BY <1>4 DEF FireRefuses, Claims
  <2>2. status' \in Statuses /\ \A q \in Runs : status'[q] = IF q = id THEN "running" ELSE status[q]
    BY <1>1, <2>1, StatusIs
  <2>3. fires' \in [Ids -> 0..MaxTasks] /\ fires[id] > 0 /\ \A i \in Ids : fires'[i] > 0 => fires[i] > 0
    BY <1>1, <2>1, FiresIs
  <2>4. RunsOK'
    BY <1>1, <2>1, <2>2, <2>3 DEF RunsOK, outbox
  <2>5. refusing' \subseteq Ids /\ \A i \in Ids : status[i] = "ended" => status'[i] = "ended"
    BY <1>1, <2>1, <2>2
  <2> QED
    BY <1>1, <2>1, <2>2, <2>3, <2>4, <2>5, RunsMove DEF outbox
<1>5. CASE RecordRefusal(id)
  <2>1. /\ UNCHANGED <<outbox, working, sends, fires, calls, clock>>
        /\ id \in refusing /\ refusing' = refusing \ {id}
        /\ \/ status' = [status EXCEPT ![id] = "ended"] /\ Ended(id) /\ UNCHANGED faults
           \/ Fault /\ UNCHANGED <<status, drains>>
    BY <1>5 DEF RecordRefusal
  <2>2. faults' \in 0..MaxFaults
    BY <1>1, <2>1, FaultIs
  <2>3. drains' \in [Pairings -> 0..MaxTasks]
    BY <1>1, <2>1, EndedIs
  <2>4. /\ status' \in Statuses
        /\ \A q \in Runs : status'[q] = status[q] \/ (q = id /\ status'[q] = "ended")
    BY <1>1, <2>1, StatusIs
  <2>5. RunsOK' /\ refusing' \subseteq Ids
    BY <1>1, <2>1, <2>4 DEF RunsOK, outbox
  <2>6. \A i \in Ids : status[i] = "ended" => status'[i] = "ended"
    BY <1>1, <2>4
  <2> QED
    BY <1>1, <2>1, <2>2, <2>3, <2>4, <2>5, <2>6, RunsMove DEF outbox
<1> QED
  BY <1>2, <1>3, <1>4, <1>5

LEMMA RunStep ==
    ASSUME PairInv, NEW r \in Runs,
           Parks(r) \/ Answered(r) \/ Ends(r) \/ Stops(r) \/ Recovers(r)
    PROVE  PairInv'
<1>1. /\ stale \subseteq Ids /\ status \in Statuses /\ working \subseteq Runs
      /\ drains \in [Pairings -> 0..MaxTasks] /\ fires \in [Ids -> 0..MaxTasks]
      /\ refusing \subseteq Ids /\ clock \in 0..MaxTime /\ faults \in 0..MaxFaults
      /\ RunsOK /\ Ids \subseteq Runs /\ TypeOK
  BY TypeFacts
<1>2. CASE Parks(r)
  <2>1. /\ UNCHANGED <<outbox, sends, drains, fires, refusing, calls, clock, faults>>
        /\ r \in working /\ status[r] = "running"
        /\ status' = [status EXCEPT ![r] = "parked"] /\ working' = working \ {r}
    BY <1>2 DEF Parks
  <2>2. status' \in Statuses /\ \A q \in Runs : status'[q] = IF q = r THEN "parked" ELSE status[q]
    BY <1>1, <2>1, StatusIs
  <2>3. RunsOK' /\ working' \subseteq Runs
    BY <1>1, <2>1, <2>2 DEF RunsOK, outbox
  <2>4. \A i \in Ids : status[i] = "ended" => status'[i] = "ended"
    BY <1>1, <2>1, <2>2
  <2> QED
    BY <1>1, <2>1, <2>2, <2>3, <2>4, RunsMove DEF outbox
<1>3. CASE Answered(r)
  <2>1. /\ UNCHANGED <<outbox, sends, drains, fires, refusing, calls, clock, faults>>
        /\ status[r] = "parked"
        /\ status' = [status EXCEPT ![r] = "running"] /\ working' = working \cup {r}
    BY <1>3 DEF Answered
  <2>2. status' \in Statuses /\ \A q \in Runs : status'[q] = IF q = r THEN "running" ELSE status[q]
    BY <1>1, <2>1, StatusIs
  <2>3. RunsOK' /\ working' \subseteq Runs
    BY <1>1, <2>1, <2>2 DEF RunsOK, outbox
  <2>4. \A i \in Ids : status[i] = "ended" => status'[i] = "ended"
    BY <1>1, <2>1, <2>2
  <2> QED
    BY <1>1, <2>1, <2>2, <2>3, <2>4, RunsMove DEF outbox
<1>4. CASE Ends(r)
  <2>1. /\ UNCHANGED <<outbox, sends, fires, refusing, calls, clock, faults>>
        /\ r \in working /\ working' = working \ {r}
        /\ status' = [status EXCEPT ![r] = "ended"]
        /\ (UNCHANGED drains \/ Ended(r))
    BY <1>4 DEF Ends
  <2>2. status' \in Statuses /\ \A q \in Runs : status'[q] = IF q = r THEN "ended" ELSE status[q]
    BY <1>1, <2>1, StatusIs
  <2>3. drains' \in [Pairings -> 0..MaxTasks]
    BY <1>1, <2>1, EndedIs
  <2>4. RunsOK' /\ working' \subseteq Runs
    BY <1>1, <2>1, <2>2 DEF RunsOK, outbox
  <2>5. \A i \in Ids : status[i] = "ended" => status'[i] = "ended"
    BY <1>1, <2>2
  <2> QED
    BY <1>1, <2>1, <2>2, <2>3, <2>4, <2>5, RunsMove DEF outbox
<1>5. CASE Stops(r)
  <2>1. /\ UNCHANGED <<outbox, working, sends, fires, refusing, calls, clock, faults>>
        /\ status[r] \in Live /\ r \notin refusing
        /\ status' = [status EXCEPT ![r] = "ended"] /\ Ended(r)
    BY <1>5 DEF Stops
  <2>2. status' \in Statuses /\ \A q \in Runs : status'[q] = IF q = r THEN "ended" ELSE status[q]
    BY <1>1, <2>1, StatusIs
  <2>3. drains' \in [Pairings -> 0..MaxTasks]
    BY <1>1, <2>1, EndedIs
  <2>4. RunsOK'
    BY <1>1, <2>1, <2>2 DEF RunsOK, outbox, Live
  <2>5. \A i \in Ids : status[i] = "ended" => status'[i] = "ended"
    BY <1>1, <2>2
  <2> QED
    BY <1>1, <2>1, <2>2, <2>3, <2>4, <2>5, RunsMove DEF outbox
<1>6. CASE Recovers(r)
  <2>1. /\ UNCHANGED <<outbox, sends, fires, refusing, calls, clock, faults>>
        /\ status[r] = "running" /\ r \notin working \cup refusing
        /\ \/ working' = working \cup {r} /\ UNCHANGED <<status, drains>>
           \/ status' = [status EXCEPT ![r] = "ended"] /\ Ended(r) /\ UNCHANGED working
    BY <1>6 DEF Recovers
  <2>2. /\ status' \in Statuses
        /\ \A q \in Runs : status'[q] = status[q] \/ (q = r /\ status'[q] = "ended")
    BY <1>1, <2>1, StatusIs
  <2>3. drains' \in [Pairings -> 0..MaxTasks]
    BY <1>1, <2>1, EndedIs
  <2>4. RunsOK' /\ working' \subseteq Runs
    BY <1>1, <2>1, <2>2 DEF RunsOK, outbox
  <2>5. \A i \in Ids : status[i] = "ended" => status'[i] = "ended"
    BY <1>1, <2>2
  <2> QED
    BY <1>1, <2>1, <2>2, <2>3, <2>4, <2>5, RunsMove DEF outbox
<1> QED
  BY <1>2, <1>3, <1>4, <1>5, <1>6

LEMMA QuietStep ==
    ASSUME PairInv,
           \/ Crash \/ Tick \/ Sweep
           \/ \E id \in Ids : GracePasses(id)
           \/ \E p \in Pairings : DrainFails(p)
           \/ \E s \in sends : EnqueueFails(s)
    PROVE  PairInv'
<1>1. /\ stale \subseteq Ids /\ status \in Statuses /\ working \subseteq Runs
      /\ drains \in [Pairings -> 0..MaxTasks] /\ fires \in [Ids -> 0..MaxTasks]
      /\ refusing \subseteq Ids /\ clock \in 0..MaxTime /\ faults \in 0..MaxFaults
      /\ RunsOK /\ TypeOK /\ MaxTasks \in Nat \ {0} /\ MaxTime \in Nat
      /\ \A id \in Ids : fires[id] \in 0..MaxTasks
  BY TypeFacts, ConstantsAre
<1>2. CASE Crash
  <2>1. /\ Fault /\ working' = {} /\ sends' = {} /\ drains' = [p \in Pairings |-> 0]
        /\ fires' = [id \in Ids |-> 0] /\ refusing' = {}
        /\ UNCHANGED <<outbox, status, calls, clock>>
    BY <1>2 DEF Crash
  <2>2. faults' \in 0..MaxFaults
    BY <1>1, <2>1, FaultIs
  <2>3. fires' \in [Ids -> 0..MaxTasks] /\ drains' \in [Pairings -> 0..MaxTasks]
    BY <1>1, <2>1
  <2>4. RunsOK'
    BY <1>1, <2>1 DEF RunsOK, outbox
  <2> QED
    BY <1>1, <2>1, <2>2, <2>3, <2>4, RunsMove DEF outbox
<1>3. CASE Tick
  <2>1. /\ clock' = clock + 1 /\ clock < MaxTime
        /\ UNCHANGED <<outbox, status, memory, calls, faults>>
    BY <1>3 DEF Tick
  <2>2. clock' \in 0..MaxTime
    BY <1>1, <2>1
  <2>3. RunsOK'
    BY <1>1, <2>1 DEF RunsOK, outbox, memory
  <2> QED
    BY <1>1, <2>1, <2>2, <2>3, RunsMove DEF outbox, memory
<1>4. CASE Sweep
  <2>1. PICK due \in SUBSET Stalled :
            fires' = [id \in Ids |-> IF id \in due THEN Min({fires[id] + 1, MaxTasks}) ELSE fires[id]]
    BY <1>4 DEF Sweep
  <2>2. Ask(SweptPairs) /\ UNCHANGED <<outbox, status, working, sends, refusing, calls, clock, faults>>
    BY <1>4 DEF Sweep
  <2>3. ASSUME NEW id \in Ids
        PROVE  Min({fires[id] + 1, MaxTasks}) \in 0..MaxTasks
    <3> DEFINE f == fires[id] + 1
    <3>1. f \in Nat /\ MaxTasks \in Nat
      BY <1>1
    <3> HIDE DEF f
    <3>2. Min({f, MaxTasks}) \in {f, MaxTasks} /\ Min({f, MaxTasks}) <= MaxTasks
      BY <3>1, LeastIs
    <3> QED
      BY <3>1, <3>2 DEF f
  <2>4. fires' \in [Ids -> 0..MaxTasks]
    BY <1>1, <2>1, <2>3
  <2>5. drains' \in [Pairings -> 0..MaxTasks]
    BY <1>1, <2>2, AskIs
  <2>6. \A id \in Ids : fires'[id] > 0 => fires[id] > 0 \/ state[id] = "started"
    BY <2>1 DEF Stalled
  <2>7. RunsOK'
    BY <1>1, <2>2, <2>6 DEF RunsOK, outbox
  <2> QED
    BY <1>1, <2>2, <2>4, <2>5, <2>7, RunsMove DEF outbox
<1>5. ASSUME NEW id \in Ids, GracePasses(id)
      PROVE  PairInv'
  <2>1. /\ stale' = stale \cup {id}
        /\ UNCHANGED <<next, row, state, noted, status, memory, calls, clock, faults>>
    BY <1>5 DEF GracePasses
  <2>2. RunsOK'
    BY <1>1, <2>1 DEF RunsOK, memory
  <2> QED
    BY <1>1, <2>1, <2>2, RunsMove DEF memory
<1>6. ASSUME NEW p \in Pairings, DrainFails(p)
      PROVE  PairInv'
  <2>1. /\ Fault /\ drains[p] > 0 /\ drains' = [drains EXCEPT ![p] = drains[p] - 1]
        /\ UNCHANGED <<outbox, status, working, sends, fires, refusing, calls, clock>>
    BY <1>6 DEF DrainFails
  <2>2. faults' \in 0..MaxFaults
    BY <1>1, <2>1, FaultIs
  <2>3. drains[p] \in 0..MaxTasks /\ drains[p] - 1 \in 0..MaxTasks
    BY <1>1, <2>1
  <2>4. drains' \in [Pairings -> 0..MaxTasks]
    BY <1>1, <2>1, <2>3
  <2>5. RunsOK'
    BY <1>1, <2>1 DEF RunsOK, outbox
  <2> QED
    BY <1>1, <2>1, <2>2, <2>4, <2>5, RunsMove DEF outbox
<1>7. ASSUME NEW s \in sends, EnqueueFails(s)
      PROVE  PairInv'
  <2>1. /\ Fault /\ sends' = sends \ {s}
        /\ UNCHANGED <<outbox, status, working, drains, fires, refusing, calls, clock>>
    BY <1>7 DEF EnqueueFails
  <2>2. faults' \in 0..MaxFaults
    BY <1>1, <2>1, FaultIs
  <2>3. RunsOK'
    BY <1>1, <2>1 DEF RunsOK, outbox
  <2> QED
    BY <1>1, <2>1, <2>2, <2>3, RunsMove DEF outbox
<1> QED
  BY <1>2, <1>3, <1>4, <1>5, <1>6, <1>7

-----------------------------------------------------------------------------
(* The claim.                                                               *)

\* The row claimed is the pair's oldest, and the pair is held by no other.
LEMMA DrainStep ==
    ASSUME PairInv, NEW p \in Pairings, Drain(p)
    PROVE  PairInv'
<1>1. /\ stale \subseteq Ids /\ status \in Statuses /\ working \subseteq Runs
      /\ drains \in [Pairings -> 0..MaxTasks] /\ fires \in [Ids -> 0..MaxTasks]
      /\ refusing \subseteq Ids /\ clock \in 0..MaxTime /\ faults \in 0..MaxFaults
      /\ RunsOK /\ TypeOK /\ MaxTasks \in Nat \ {0} /\ Ids \subseteq Nat
  BY TypeFacts, ConstantsAre
<1>2. /\ drains[p] > 0 /\ drains' = [drains EXCEPT ![p] = drains[p] - 1]
      /\ UNCHANGED <<next, row, noted, stale, status, working, sends, refusing, calls, clock, faults>>
  BY DEF Drain
<1>3. drains' \in [Pairings -> 0..MaxTasks]
  <2>1. drains[p] \in 0..MaxTasks /\ drains[p] - 1 \in 0..MaxTasks
    BY <1>1, <1>2
  <2> QED
    BY <1>1, <1>2, <2>1
<1>4. CASE Busy(p) \/ Queued(p) = {}
  <2>1. UNCHANGED <<state, fires>>
    BY <1>4 DEF Drain
  <2>2. RunsOK'
    BY <1>1, <1>2, <2>1 DEF RunsOK
  <2> QED
    BY <1>1, <1>2, <1>3, <2>1, <2>2, RunsMove
<1>5. CASE ~Busy(p) /\ Queued(p) # {}
  <2>1. PICK o : o = Oldest(p)
    OBVIOUS
  <2>2. /\ state' = [state EXCEPT ![o] = "started"] /\ fires' = [fires EXCEPT ![o] = 1]
    BY <1>5, <2>1 DEF Drain
  <2>3. /\ o \in Queued(p) /\ \A id \in Queued(p) : o <= id
    <3>1. Queued(p) \in SUBSET Nat
      BY <1>1, WrittenIs DEF Queued, InPair
    <3> QED
      BY <1>5, <2>1, <3>1, LeastIs DEF Oldest
  <2>4. /\ o \in Written /\ o \in Ids /\ PairOf(o) = p /\ state[o] = "queued"
        /\ state \in [Ids -> {"none", "queued", "started"}]
    BY <1>1, <2>3, WrittenIs DEF Queued, InPair, TypeOK
  <2>5. /\ state' \in [Ids -> {"none", "queued", "started"}]
        /\ \A id \in Ids : state'[id] = IF id = o THEN "started" ELSE state[id]
    BY <2>2, <2>4
  <2>6. /\ fires' \in [Ids -> 0..MaxTasks]
        /\ \A id \in Ids : fires'[id] = IF id = o THEN 1 ELSE fires[id]
    BY <1>1, <2>2, <2>4
  <2>7. Written' = Written /\ \A id \in Ids : state'[id] = "none" <=> state[id] = "none"
    BY <2>4, <2>5 DEF Written
  <2>8. TypeOK'
    BY <1>1, <1>2, <1>3, <2>5, <2>6, <2>7 DEF TypeOK
  <2>9. RunsOK'
    BY <1>1, <1>2, <2>5, <2>6 DEF RunsOK
  <2>10. OneHolds'
    <3>1. ASSUME NEW i \in Written, i # o
          PROVE  Holding(i)' <=> Holding(i)
      BY <1>2, <2>5, <3>1, WrittenIs DEF Holding
    <3>2. ASSUME NEW i \in Written, PairOf(i) = p
          PROVE  ~Holding(i)
      BY <1>5, <3>2 DEF Busy, InPair, Holding
    <3>3. ASSUME NEW i \in Written, NEW j \in Written, i # j, PairOf(i) = PairOf(j)
          PROVE  ~(Holding(i)' /\ Holding(j)')
      <4>1. CASE i = o
        BY <2>4, <3>1, <3>2, <3>3, <4>1
      <4>2. CASE j = o
        BY <2>4, <3>1, <3>2, <3>3, <4>2
      <4>3. CASE i # o /\ j # o
        BY <3>1, <3>3, <4>3 DEF PairInv, OneHolds
      <4> QED
        BY <4>1, <4>2, <4>3
    <3> QED
      BY <1>2, <2>7, <3>3 DEF OneHolds, PairOf
  <2>11. SendsOK'
    <3>1. ASSUME NEW s \in sends
          PROVE  SendOK(s)'
      <4>1. SendOK(s)
        BY DEF PairInv, SendsOK
      <4>2. \A b \in DOMAIN s.ids : state'[s.ids[b]] = "none"
        BY <2>2, <2>4, <4>1 DEF SendOK
      <4> QED
        BY <1>2, <2>7, <4>1, <4>2 DEF SendOK, ChainOK
    <3> QED
      BY <1>2, <3>1 DEF PairInv, SendsOK, Disjoint
  <2>12. InOrder'
    <3>1. ASSUME NEW i \in Written, NEW j \in Written, i < j, row[i].by = row[j].by,
                 row[i].to = row[j].to, state'[j] = "started"
          PROVE  state'[i] = "started"
      <4>1. i \in Ids /\ j \in Ids
        BY WrittenIs
      <4>2. CASE j # o
        BY <2>5, <3>1, <4>1, <4>2 DEF PairInv, RowsOK, InOrder
      <4>3. CASE j = o
        <5>1. row[i].from = row[j].from
          BY <3>1 DEF PairInv, RowsOK
        <5>2. PairOf(i) = p
          BY <2>4, <3>1, <4>3, <5>1 DEF PairOf
        <5>3. i # o /\ state[i] # "none"
          BY <1>1, <3>1, <4>1, <4>3 DEF Written
        <5>4. state[i] # "queued"
          <6>1. state[i] = "queued" => i \in Queued(p)
            BY <5>2 DEF Queued, InPair
          <6> QED
            BY <1>1, <2>3, <3>1, <4>1, <4>3, <6>1
        <5> QED
          BY <2>4, <2>5, <4>1, <5>3, <5>4
      <4> QED
        BY <4>2, <4>3
    <3> QED
      BY <1>2, <2>7, <3>1 DEF InOrder
  <2>13. RowsOK' /\ CapsOK'
    BY <1>2, <2>7, <2>12 DEF PairInv, RowsOK, CapsOK, ChainOK, BotOf, SentOnce, InChainOf, InWindow
  <2> QED
    BY <2>8, <2>9, <2>10, <2>11, <2>13 DEF PairInv
<1> QED
  BY <1>4, <1>5

-----------------------------------------------------------------------------
(* A call is composed.                                                      *)

\* A run with a loop is a chat or a message that is written, and its next message is one
\* deeper in its chain.
LEMMA SenderIs ==
    ASSUME PairInv, NEW r \in working
    PROVE  /\ r \in Runs /\ BotOf(r) \in Bots /\ ChainOf(r) \in Runs /\ HopOf(r) \in Nat
           /\ ChainOK(r, HopOf(r) + 1, ChainOf(r))
<1>1. r \in Runs /\ RunsOK /\ row \in [Written -> Rows] /\ Ids \cap Chats = {} /\ Chats \subseteq Bots
  BY ConstantsAre DEF PairInv, TypeOK
<1>2. CASE r \in Chats
  BY <1>1, <1>2 DEF BotOf, ChainOf, HopOf, ChainOK
<1>3. CASE r \in Ids
  <2>1. r \in Written /\ r \notin Chats
    BY <1>1, <1>3 DEF RunsOK, Written
  <2>2. row[r] \in Rows
    BY <1>1, <2>1
  <2>3. row[r].to \in Bots /\ row[r].chain \in Runs /\ row[r].hop \in Nat
    BY <2>2, ConstantsAre DEF Rows
  <2> QED
    BY <1>1, <2>1, <2>3 DEF BotOf, ChainOf, HopOf, ChainOK
<1> QED
  BY <1>1, <1>2, <1>3 DEF Runs

LEMMA ComposeStep ==
    ASSUME PairInv, NEW r \in Runs, NEW c \in 1..MaxCalls, NEW to \in SUBSET Bots, Compose(r, c, to)
    PROVE  PairInv'
<1> DEFINE n == Cardinality(to)
<1>1. n \in Nat
  <2>1. IsFiniteSet(to)
    BY PairsAssumption, FS_Subset
  <2> QED
    BY <2>1, FS_CardinalityType
<1> HIDE DEF n
<1>2. /\ r \in working /\ HopOf(r) < MaxHops /\ next + n <= MaxMsgs + 1 /\ next' = next + n
      /\ \A s \in sends : s.by # r
      /\ calls' = [calls EXCEPT ![r] = c]
      /\ UNCHANGED <<row, state, noted, stale, status, working, drains, fires, refusing, clock, faults>>
  BY DEF Compose, UnderTheLimit, n
<1>3. PICK ids \in [to -> next..(next + n - 1)] :
          /\ \A a, b \in to : a # b => ids[a] # ids[b]
          /\ sends' = sends \cup {[by |-> r, call |-> c, ids |-> ids, chain |-> ChainOf(r),
                                   hop |-> HopOf(r) + 1, at |-> clock]}
  BY DEF Compose, n
<1>4. PICK s : s = [by |-> r, call |-> c, ids |-> ids, chain |-> ChainOf(r),
                    hop |-> HopOf(r) + 1, at |-> clock]
  OBVIOUS
<1>5. /\ s.by = r /\ s.ids = ids /\ DOMAIN s.ids = to /\ s.hop = HopOf(r) + 1 /\ s.chain = ChainOf(r)
      /\ sends' = sends \cup {s}
  BY <1>3, <1>4
<1>6. /\ next \in Nat \ {0} /\ next <= MaxMsgs + 1 /\ MaxMsgs \in Nat /\ MaxHops \in Nat
      /\ clock \in 0..MaxTime /\ TypeOK /\ Ids \subseteq Nat
  BY ConstantsAre DEF PairInv, TypeOK
<1>7. \A b \in to : /\ ids[b] \in Ids /\ ids[b] >= next /\ ids[b] < next'
  <2>1. ASSUME NEW b \in to
        PROVE  ids[b] \in Ids /\ ids[b] >= next /\ ids[b] < next'
    <3>1. ids[b] \in next..(next + n - 1)
      BY <1>3
    <3> QED
      BY <1>1, <1>2, <1>6, <3>1 DEF Ids
  <2> QED
    BY <2>1
<1>8. s \in Send
  <2>1. ids \in [to -> Ids]
    BY <1>3, <1>7
  <2>2. HopOf(r) + 1 \in 1..MaxHops /\ ChainOf(r) \in Runs
    BY <1>2, <1>6, SenderIs
  <2>3. ids \in UNION {[x -> Ids] : x \in SUBSET Bots}
    BY <2>1
  <2> QED
    BY <1>4, <1>6, <2>2, <2>3 DEF Send
<1>9. Written' = Written
  BY <1>2 DEF Written
<1>10. TypeOK'
  <2>1. next' \in 1..(MaxMsgs + 1)
    BY <1>1, <1>2, <1>6
  <2>2. calls' \in [Runs -> 0..MaxCalls]
    BY <1>2, <1>6, ConstantsAre DEF TypeOK
  <2> QED
    BY <1>2, <1>5, <1>6, <1>8, <1>9, <2>1, <2>2 DEF TypeOK
<1>11. RunsOK' /\ OneHolds' /\ CapsOK'
  BY <1>2, <1>9 DEF PairInv, RunsOK, OneHolds, Holding, PairOf, CapsOK, InChainOf, InWindow
<1>12. RowsOK'
  <2>1. \A id \in Written : id < next'
    BY <1>1, <1>2, <1>6, WrittenIs DEF PairInv, RowsOK
  <2> QED
    BY <1>2, <1>9, <2>1 DEF PairInv, RowsOK, ChainOK, BotOf, SentOnce, InOrder
<1>13. \A id \in Written : id \in Nat /\ id < next
  BY <1>6, WrittenIs DEF PairInv, RowsOK
<1>14. ASSUME NEW t \in sends
       PROVE  SendOK(t)' /\ Disjoint(s, t) /\ Disjoint(t, s)
  <2>1. SendOK(t) /\ t \in Send
    BY <1>6 DEF PairInv, SendsOK, TypeOK
  <2>2. \A b \in DOMAIN t.ids : t.ids[b] \in Ids
    BY <2>1 DEF Send
  <2>3. \A b \in DOMAIN t.ids : t.ids[b] < next /\ t.ids[b] < next'
    <3>1. ASSUME NEW b \in DOMAIN t.ids
          PROVE  t.ids[b] < next /\ t.ids[b] < next'
      <4>1. t.ids[b] < next /\ t.ids[b] \in Nat
        BY <1>6, <2>1, <2>2 DEF SendOK
      <4> QED
        BY <1>1, <1>2, <1>6, <4>1
    <3> QED
      BY <3>1
  <2>4. SendOK(t)'
    BY <1>2, <1>9, <2>1, <2>3 DEF SendOK, ChainOK
  <2>5. t.by # s.by
    BY <1>2, <1>5
  <2>6. \A b \in DOMAIN t.ids, a \in DOMAIN s.ids : t.ids[b] # s.ids[a]
    BY <1>5, <1>6, <1>7, <2>2, <2>3
  <2> QED
    BY <2>4, <2>5, <2>6 DEF Disjoint
<1>15. SendOK(s)'
  <2>1. \A b \in to : state[ids[b]] = "none"
    BY <1>6, <1>7, <1>13 DEF Written
  <2>2. \A id \in Written, b \in to : id < ids[b]
    BY <1>6, <1>7, <1>13
  <2>3. ChainOK(r, HopOf(r) + 1, ChainOf(r))
    BY <1>2, SenderIs
  <2> QED
    BY <1>2, <1>3, <1>5, <1>7, <1>9, <2>1, <2>2, <2>3 DEF SendOK, ChainOK
<1>16. SendsOK'
  <2>1. ASSUME NEW t \in sends', NEW u \in sends', t # u
        PROVE  Disjoint(t, u)
    <3>1. CASE t = s
      BY <1>5, <1>14, <2>1, <3>1
    <3>2. CASE u = s
      BY <1>5, <1>14, <2>1, <3>2
    <3>3. CASE t # s /\ u # s
      BY <1>5, <2>1, <3>3 DEF PairInv, SendsOK
    <3> QED
      BY <3>1, <3>2, <3>3
  <2>2. ASSUME NEW t \in sends'
        PROVE  SendOK(t)'
    <3>1. t \in sends \/ t = s
      BY <1>5
    <3> QED
      BY <1>14, <1>15, <3>1
  <2> QED
    BY <2>1, <2>2 DEF SendsOK, Disjoint
<1> QED
  BY <1>10, <1>11, <1>12, <1>16 DEF PairInv

-----------------------------------------------------------------------------
(* A call is written.                                                       *)

LEMMA SendIs ==
    ASSUME PairInv, NEW s \in sends
    PROVE  /\ SendOK(s) /\ s.by \in Runs /\ s.call \in 1..MaxCalls /\ s.chain \in Runs
           /\ s.hop \in 1..MaxHops /\ s.at \in 0..MaxTime
           /\ DOMAIN s.ids \subseteq Bots /\ \A b \in DOMAIN s.ids : s.ids[b] \in Ids
           /\ Fresh(s) \subseteq DOMAIN s.ids
           /\ IsFiniteSet(Fresh(s)) /\ Cardinality(Fresh(s)) \in Nat
           /\ s.by \in Chats \/ s.by \in Written
<1>1. SendOK(s) /\ s \in Send
  BY DEF PairInv, SendsOK, TypeOK
<1>2. PICK to \in SUBSET Bots : s.ids \in [to -> Ids]
  BY <1>1 DEF Send
<1>3. Fresh(s) \subseteq DOMAIN s.ids /\ DOMAIN s.ids \subseteq Bots
  BY <1>2 DEF Fresh
<1>4. IsFiniteSet(Fresh(s)) /\ Cardinality(Fresh(s)) \in Nat
  <2>1. Fresh(s) \subseteq Bots
    BY <1>3
  <2>2. IsFiniteSet(Fresh(s))
    BY <2>1, PairsAssumption, FS_Subset
  <2> QED
    BY <2>2, FS_CardinalityType
<1>5. s.by \in Runs /\ (s.by \in Chats \/ s.by \in Written)
  BY <1>1 DEF Send, SendOK, ChainOK, Runs
<1> QED
  BY <1>1, <1>2, <1>3, <1>4, <1>5 DEF Send

\* The ids of what a call writes.
NewOf(s) == {s.ids[b] : b \in Fresh(s)}

\* A call that is not capped writes a row for each receiver that has none, and no other.
LEMMA Writes ==
    ASSUME PairInv, NEW s \in sends, Enqueue(s), ~Capped(s)
    PROVE  /\ NewOf(s) \subseteq Ids /\ NewOf(s) \cap Written = {} /\ Written' = Written \cup NewOf(s)
           /\ row' \in [Written' -> Rows]
           /\ \A id \in Written : row'[id] = row[id]
           /\ \A id \in NewOf(s) :
                 /\ row'[id].from = BotOf(s.by) /\ row'[id].by = s.by /\ row'[id].call = s.call
                 /\ row'[id].chain = s.chain /\ row'[id].hop = s.hop /\ row'[id].at = s.at
                 /\ row'[id].to \in Fresh(s) /\ s.ids[row'[id].to] = id
           /\ state' \in [Ids -> {"none", "queued", "started"}]
           /\ \A id \in Ids : state'[id] = IF id \in NewOf(s) THEN "queued" ELSE state[id]
           /\ drains' \in [Pairings -> 0..MaxTasks]
           /\ noted' = noted \cup {<<s.by, s.call>>}
           /\ sends' = sends \ {s}
           /\ UNCHANGED <<next, stale, status, working, fires, refusing, calls, clock, faults>>
<1> DEFINE new == {s.ids[b] : b \in Fresh(s)}
           who(id) == CHOOSE b \in Fresh(s) : s.ids[b] = id
<1>1. /\ SendOK(s) /\ s.by \in Runs /\ s.call \in 1..MaxCalls /\ s.chain \in Runs
      /\ s.hop \in 1..MaxHops /\ s.at \in 0..MaxTime
      /\ DOMAIN s.ids \subseteq Bots /\ \A b \in DOMAIN s.ids : s.ids[b] \in Ids
      /\ Fresh(s) \subseteq DOMAIN s.ids /\ (s.by \in Chats \/ s.by \in Written)
  BY SendIs
<1>2. /\ row' = [id \in Written \cup new |-> IF id \in new THEN RowOf(s, who(id)) ELSE row[id]]
      /\ state' = [id \in Ids |-> IF id \in new THEN "queued" ELSE state[id]]
      /\ noted' = noted \cup {<<s.by, s.call>>}
      /\ Ask({{BotOf(s.by), b} : b \in DOMAIN s.ids})
      /\ sends' = sends \ {s}
      /\ UNCHANGED <<next, stale, status, working, fires, refusing, calls, clock, faults>>
  BY DEF Enqueue
<1>3. new = NewOf(s)
  BY DEF NewOf
<1>4. \A id \in new : id \in Ids /\ state[id] = "none"
  BY <1>1 DEF SendOK
<1>5. \A id \in new : who(id) \in Fresh(s) /\ s.ids[who(id)] = id
  OBVIOUS
<1> HIDE DEF who, new
<1>6. /\ state \in [Ids -> {"none", "queued", "started"}] /\ row \in [Written -> Rows]
      /\ drains \in [Pairings -> 0..MaxTasks]
  BY DEF PairInv, TypeOK
<1>7. /\ state' \in [Ids -> {"none", "queued", "started"}]
      /\ \A id \in Ids : state'[id] = IF id \in new THEN "queued" ELSE state[id]
  BY <1>2, <1>6
<1>8. new \subseteq Ids /\ new \cap Written = {} /\ Written' = Written \cup new
  BY <1>4, <1>7 DEF Written
<1>9. BotOf(s.by) \in Bots
  <2>1. \A id \in Written : row[id].to \in Bots
    <3>1. \A id \in Written : row[id] \in Rows
      BY <1>6
    <3> QED
      BY <3>1 DEF Rows
  <2> QED
    BY <1>1, <2>1, ConstantsAre DEF BotOf
<1>10. ASSUME NEW b \in Fresh(s)
       PROVE  /\ RowOf(s, b) \in Rows /\ RowOf(s, b).from = BotOf(s.by) /\ RowOf(s, b).by = s.by
              /\ RowOf(s, b).call = s.call /\ RowOf(s, b).chain = s.chain
              /\ RowOf(s, b).hop = s.hop /\ RowOf(s, b).at = s.at /\ RowOf(s, b).to = b
  BY <1>1, <1>9 DEF RowOf, Rows
<1>11. \A id \in Written : row'[id] = row[id]
  BY <1>2, <1>8
<1>12. \A id \in new : row'[id] = RowOf(s, who(id))
  BY <1>2
<1>13. row' \in [Written' -> Rows]
  <2>1. \A id \in Written' : row'[id] \in Rows
    BY <1>5, <1>6, <1>8, <1>10, <1>11, <1>12
  <2>2. row' = [id \in Written' |-> row'[id]]
    BY <1>2, <1>8
  <2> QED
    BY <2>1, <2>2
<1>14. drains' \in [Pairings -> 0..MaxTasks]
  BY <1>2, <1>6, AskIs
<1> QED
  BY <1>2, <1>3, <1>5, <1>7, <1>8, <1>10, <1>11, <1>12, <1>13, <1>14

\* As many rows as receivers that had none, at most.
LEMMA NewCount ==
    ASSUME PairInv, NEW s \in sends
    PROVE  /\ IsFiniteSet(NewOf(s)) /\ Cardinality(NewOf(s)) \in Nat
           /\ Cardinality(NewOf(s)) <= Cardinality(Fresh(s))
<1>1. IsFiniteSet(Fresh(s))
  BY SendIs
<1>2. PICK g : g = [b \in Fresh(s) |-> s.ids[b]]
  OBVIOUS
<1>3. g \in Surjection(Fresh(s), NewOf(s))
  BY <1>2 DEF Surjection, NewOf
<1>4. IsFiniteSet(NewOf(s)) /\ Cardinality(NewOf(s)) <= Cardinality(Fresh(s))
  BY <1>1, <1>3, FS_Surjection
<1> QED
  BY <1>4, FS_CardinalityType

\* A set of rows that grows by what a call writes, counted.
LEMMA GrowsBy ==
    ASSUME NEW A, NEW B, NEW C, NEW n \in Nat, NEW cap \in Nat,
           IsFiniteSet(A), IsFiniteSet(B), C \subseteq A \cup B,
           Cardinality(B) <= n, Cardinality(A) + n <= cap
    PROVE  Cardinality(C) <= cap
<1>1. IsFiniteSet(A \cup B)
  BY FS_Union
<1>2. Cardinality(A \cup B) = Cardinality(A) + Cardinality(B) - Cardinality(A \cap B)
  BY FS_Union
<1>3. Cardinality(C) <= Cardinality(A \cup B) /\ IsFiniteSet(C)
  BY <1>1, FS_Subset
<1>4. /\ Cardinality(A) \in Nat /\ Cardinality(B) \in Nat /\ Cardinality(C) \in Nat
      /\ Cardinality(A \cup B) \in Nat /\ Cardinality(A \cap B) \in Nat
  <2>1. IsFiniteSet(A \cap B)
    <3>1. A \cap B \subseteq A
      OBVIOUS
    <3> QED
      BY <3>1, FS_Subset
  <2> QED
    BY <1>1, <1>3, <2>1, FS_CardinalityType
<1> QED
  BY <1>2, <1>3, <1>4

LEMMA EnqueueStep ==
    ASSUME PairInv, NEW s \in sends, Enqueue(s)
    PROVE  PairInv'
<1>1. CASE Capped(s)
  <2>1. /\ UNCHANGED <<next, row, state, noted, stale, status, working, drains, fires, refusing,
                       calls, clock, faults>>
        /\ sends' = sends \ {s}
    BY <1>1 DEF Enqueue
  <2>2. RunsOK'
    BY <2>1 DEF PairInv, RunsOK
  <2> QED
    BY <2>1, <2>2, TypeFacts, RunsMove
<1>2. CASE ~Capped(s)
  <2> DEFINE new == NewOf(s)
  <2>1. /\ new \subseteq Ids /\ new \cap Written = {} /\ Written' = Written \cup new
        /\ row' \in [Written' -> Rows]
        /\ \A id \in Written : row'[id] = row[id]
        /\ state' \in [Ids -> {"none", "queued", "started"}]
        /\ drains' \in [Pairings -> 0..MaxTasks]
        /\ noted' = noted \cup {<<s.by, s.call>>}
        /\ sends' = sends \ {s}
        /\ UNCHANGED <<next, stale, status, working, fires, refusing, calls, clock, faults>>
    BY <1>2, Writes
  <2>2. \A id \in new :
           /\ row'[id].from = BotOf(s.by) /\ row'[id].by = s.by /\ row'[id].call = s.call
           /\ row'[id].chain = s.chain /\ row'[id].hop = s.hop /\ row'[id].at = s.at
           /\ row'[id].to \in Fresh(s) /\ s.ids[row'[id].to] = id
    BY <1>2, Writes
  <2>3. \A id \in Ids : state'[id] = IF id \in new THEN "queued" ELSE state[id]
    BY <1>2, Writes
  <2>4. /\ SendOK(s) /\ s.by \in Runs /\ s.call \in 1..MaxCalls /\ s.at \in 0..MaxTime
        /\ Fresh(s) \subseteq DOMAIN s.ids /\ \A b \in DOMAIN s.ids : s.ids[b] \in Ids
        /\ (s.by \in Chats \/ s.by \in Written)
    BY SendIs
  <2>5. new = {s.ids[b] : b \in Fresh(s)}
    BY DEF NewOf
  <2> HIDE DEF new
  <2>6. Written \subseteq Ids /\ Ids \subseteq Nat /\ Ids \cap Chats = {}
    BY WrittenIs, ConstantsAre
  <2>7. TypeOK'
    BY <2>1, <2>4 DEF PairInv, TypeOK
  <2>8. \A id \in new : state[id] = "none"
    BY <2>4, <2>5 DEF SendOK
  <2>9. RunsOK'
    BY <2>1, <2>3, <2>8 DEF PairInv, RunsOK
  <2>10. OneHolds'
    <3>1. ASSUME NEW i \in Written', Holding(i)'
          PROVE  i \in Written /\ Holding(i)
      BY <2>1, <2>3, <2>6, <3>1 DEF Holding
    <3> QED
      BY <2>1, <3>1 DEF PairInv, OneHolds, PairOf
  <2>11. ASSUME NEW by, NEW hop, NEW chain, ChainOK(by, hop, chain)
         PROVE  ChainOK(by, hop, chain)'
    BY <2>1, <2>11 DEF ChainOK
  <2>12. ASSUME NEW by \in Chats \cup Written
         PROVE  BotOf(by)' = BotOf(by)
    BY <2>1, <2>6 DEF BotOf
  <2>13. SendsOK'
    <3>1. ASSUME NEW t \in sends'
          PROVE  SendOK(t)'
      <4>1. SendOK(t) /\ Disjoint(t, s) /\ \A b \in DOMAIN t.ids : t.ids[b] \in Ids
        BY <2>1, SendIs DEF PairInv, SendsOK
      <4>2. \A b \in DOMAIN t.ids : t.ids[b] \notin new
        BY <2>4, <2>5, <4>1 DEF Disjoint
      <4>3. \A b \in DOMAIN t.ids : t.ids[b] < next /\ state'[t.ids[b]] = "none"
        BY <2>3, <4>1, <4>2 DEF SendOK
      <4>4. ASSUME NEW id \in Written', row'[id].by = t.by
            PROVE  \A b \in DOMAIN t.ids : id < t.ids[b]
        <5>1. id \notin new
          BY <2>2, <4>1, <4>4 DEF Disjoint
        <5>2. id \in Written /\ row[id].by = t.by
          BY <2>1, <4>4, <5>1
        <5> QED
          BY <4>1, <5>2 DEF SendOK
      <4>5. ChainOK(t.by, t.hop, t.chain)'
        BY <2>11, <4>1 DEF SendOK
      <4> QED
        BY <2>1, <4>1, <4>3, <4>4, <4>5 DEF SendOK
    <3> QED
      BY <2>1, <3>1 DEF PairInv, SendsOK, Disjoint
  <2>14. ASSUME NEW id \in Written', NEW r, r = row'[id]
         PROVE  id < next /\ r.from = BotOf(r.by)' /\ ChainOK(r.by, r.hop, r.chain)'
    <3>1. CASE id \in new
      <4>1. id < next
        BY <2>4, <2>5, <3>1 DEF SendOK
      <4>2. r.from = BotOf(s.by) /\ r.by = s.by /\ r.chain = s.chain /\ r.hop = s.hop
        BY <2>2, <2>14, <3>1
      <4>3. BotOf(s.by)' = BotOf(s.by)
        BY <2>4, <2>12
      <4>4. ChainOK(s.by, s.hop, s.chain)'
        BY <2>4, <2>11 DEF SendOK
      <4>5. s.by \in Chats \cup Written
        BY <2>4
      <4>6. BotOf(r.by)' = BotOf(r.by)
        BY <2>12, <4>2, <4>5
      <4>7. ChainOK(r.by, r.hop, r.chain)'
        <5>1. ChainOK(r.by, r.hop, r.chain)
          BY <2>4, <4>2 DEF SendOK
        <5> QED
          BY <2>11, <5>1
      <4> QED
        BY <4>1, <4>2, <4>6, <4>7
    <3>2. CASE id \notin new
      <4>1. id \in Written /\ r = row[id]
        BY <2>1, <2>14, <3>2
      <4>2. /\ id < next /\ r.from = BotOf(r.by) /\ ChainOK(r.by, r.hop, r.chain)
        BY <4>1 DEF PairInv, RowsOK
      <4>3. r.by \in Chats \cup Written
        <5>1. row[id] \in Rows
          BY <4>1 DEF PairInv, TypeOK
        <5> QED
          BY <4>1, <4>2, <5>1 DEF ChainOK, Rows, Runs
      <4>4. BotOf(r.by)' = BotOf(r.by)
        BY <2>12, <4>3
      <4>5. ChainOK(r.by, r.hop, r.chain)'
        BY <2>11, <4>2
      <4> QED
        BY <4>2, <4>4, <4>5
    <3> QED
      BY <3>1, <3>2
  <2>15. SentOnce'
    <3>1. ASSUME NEW i \in new, NEW j \in Written, row'[i].by = row'[j].by,
                 row'[i].call = row'[j].call, row'[i].to = row'[j].to
          PROVE  FALSE
      <4>1. j \in Sent(s.by, s.call)
        BY <2>1, <2>2, <3>1 DEF Sent
      <4>2. row'[i].to \in Fresh(s) /\ row[j].to = row'[i].to
        BY <2>1, <2>2, <3>1
      <4> QED
        BY <4>1, <4>2 DEF Fresh
    <3>2. ASSUME NEW i \in new, NEW j \in new, row'[i].to = row'[j].to
          PROVE  i = j
      BY <2>2, <3>2
    <3>3. ASSUME NEW i \in Written, NEW j \in Written, row'[i].by = row'[j].by,
                 row'[i].call = row'[j].call, row'[i].to = row'[j].to
          PROVE  i = j
      BY <2>1, <3>3 DEF PairInv, RowsOK, SentOnce
    <3> QED
      BY <2>1, <3>1, <3>2, <3>3 DEF SentOnce
  <2>16. InOrder'
    <3>1. ASSUME NEW i \in Written', NEW j \in Written', i < j, row'[i].by = row'[j].by,
                 row'[i].to = row'[j].to, state'[j] = "started"
          PROVE  state'[i] = "started"
      <4>1. j \notin new /\ j \in Written /\ row'[j] = row[j] /\ state[j] = "started"
        BY <2>1, <2>3, <2>6, <3>1
      <4>2. CASE i \in new
        <5>1. row[j].by = s.by
          BY <2>2, <3>1, <4>1, <4>2
        <5>2. j < i
          BY <2>4, <2>5, <4>1, <4>2, <5>1 DEF SendOK
        <5>3. i \in Nat /\ j \in Nat
          BY <2>1, <2>6, <4>1, <4>2
        <5> QED
          BY <3>1, <5>2, <5>3
      <4>3. CASE i \notin new
        <5>1. i \in Written /\ row'[i] = row[i]
          BY <2>1, <4>3
        <5>2. state[i] = "started"
          BY <3>1, <4>1, <5>1 DEF PairInv, RowsOK, InOrder
        <5> QED
          BY <2>3, <2>6, <4>3, <5>1, <5>2
      <4> QED
        BY <4>2, <4>3
    <3> QED
      BY <3>1 DEF InOrder
  <2>17. RowsOK'
    <3>1. ASSUME NEW id \in Written'
          PROVE  /\ id < next'
                 /\ row'[id].from = (IF row'[id].by \in Chats THEN row'[id].by ELSE row'[row'[id].by].to)
                 /\ row'[id].by \in Chats => row'[id].hop = 1 /\ row'[id].chain = row'[id].by
                 /\ row'[id].by \in Ids => /\ row'[id].by \in Written'
                                          /\ row'[id].hop = row'[row'[id].by].hop + 1
                                          /\ row'[id].chain = row'[row'[id].by].chain
      <4>1. PICK r : r = row'[id]
        OBVIOUS
      <4> QED
        BY <2>1, <2>14, <4>1 DEF BotOf, ChainOK
    <3> QED
      BY <2>15, <2>16, <3>1 DEF RowsOK, BotOf, ChainOK
  <2>18. Fresh(s) = {} => new = {}
    BY <2>5
  <2>19. /\ IsFiniteSet(new) /\ Cardinality(new) <= Cardinality(Fresh(s))
         /\ Cardinality(Fresh(s)) \in Nat
    BY NewCount, SendIs DEF new
  <2>20. Fresh(s) # {} => /\ Cardinality(InChain(s)) + Cardinality(Fresh(s)) <= PerChain
                          /\ Cardinality(InHour(s)) + Cardinality(Fresh(s)) <= PerHour
    <3>1. IsFiniteSet(InChain(s)) /\ IsFiniteSet(InHour(s))
      <4>1. InChain(s) \subseteq Written /\ InHour(s) \subseteq Written
        BY DEF InChain, InHour
      <4> QED
        BY <4>1, WrittenIs, FS_Subset
    <3>2. Cardinality(InChain(s)) \in Nat /\ Cardinality(InHour(s)) \in Nat
      BY <3>1, FS_CardinalityType
    <3> QED
      BY <1>2, <2>19, <3>2, ConstantsAre DEF Capped
  <2>21. ASSUME NEW c \in Runs
         PROVE  Cardinality(InChainOf(c)') <= PerChain
    <3>1. CASE c = s.chain /\ Fresh(s) # {}
      <4>1. InChainOf(c)' \subseteq InChain(s) \cup new
        BY <2>1, <3>1 DEF InChainOf, InChain
      <4>2. IsFiniteSet(InChain(s))
        <5>1. InChain(s) \subseteq Written
          BY DEF InChain
        <5> QED
          BY <5>1, WrittenIs, FS_Subset
      <4>3. PerChain \in Nat
        BY ConstantsAre
      <4> QED
        BY <2>19, <2>20, <3>1, <4>1, <4>2, <4>3, GrowsBy
    <3>2. CASE c # s.chain \/ Fresh(s) = {}
      <4>1. InChainOf(c)' = InChainOf(c)
        BY <2>1, <2>2, <2>18, <3>2 DEF InChainOf
      <4> QED
        BY <4>1 DEF PairInv, CapsOK
    <3> QED
      BY <3>1, <3>2
  <2>22. ASSUME NEW t \in (0 - Hour)..MaxTime
         PROVE  Cardinality(InWindow(t)') <= PerHour
    <3>1. /\ t \in Int /\ Hour \in Nat /\ s.at \in Int /\ PerHour \in Nat
          /\ \A id \in Written : row[id].at \in Int
      <4>1. \A id \in Written : row[id].at \in Int
        <5>1. \A id \in Written : row[id] \in Rows
          BY DEF PairInv, TypeOK
        <5> QED
          BY <5>1, ConstantsAre DEF Rows
      <4> QED
        BY <2>4, <4>1, ConstantsAre
    <3>2. CASE s.at > t /\ s.at <= t + Hour /\ Fresh(s) # {}
      <4>1. InWindow(t)' \subseteq InHour(s) \cup new
        <5>1. ASSUME NEW id \in Written, row[id].at > t
              PROVE  row[id].at > s.at - Hour
          BY <3>1, <3>2, <5>1
        <5> QED
          BY <2>1, <5>1 DEF InWindow, InHour
      <4>2. IsFiniteSet(InHour(s))
        <5>1. InHour(s) \subseteq Written
          BY DEF InHour
        <5> QED
          BY <5>1, WrittenIs, FS_Subset
      <4> QED
        BY <2>19, <2>20, <3>1, <3>2, <4>1, <4>2, GrowsBy
    <3>3. CASE ~(s.at > t /\ s.at <= t + Hour) \/ Fresh(s) = {}
      <4>1. InWindow(t)' = InWindow(t)
        BY <2>1, <2>2, <2>18, <3>3 DEF InWindow
      <4> QED
        BY <4>1 DEF PairInv, CapsOK
    <3> QED
      BY <3>2, <3>3
  <2>23. CapsOK'
    BY <2>21, <2>22 DEF CapsOK
  <2> QED
    BY <2>7, <2>9, <2>10, <2>13, <2>17, <2>23 DEF PairInv
<1> QED
  BY <1>1, <1>2

-----------------------------------------------------------------------------
(* The invariant, and what it gives.                                        *)

LEMMA PairInit == Init => PairInv
<1> SUFFICES ASSUME Init
             PROVE  PairInv
  OBVIOUS
<1>1. /\ Written = {} /\ row = <<>> /\ sends = {} /\ refusing = {} /\ working = Chats
      /\ \A id \in Ids : state[id] = "none" /\ fires[id] = 0
  BY DEF Init, Written
<1>2. \A id \in Ids : status[id] = "none" /\ id \notin working
  BY <1>1, ConstantsAre DEF Init
<1>3. row \in [Written -> Rows]
  BY <1>1
<1>4. TypeOK
  BY <1>1, <1>3, ConstantsAre DEF TypeOK, Init, Runs
<1>5. RunsOK /\ OneHolds /\ SendsOK /\ RowsOK
  BY <1>1, <1>2 DEF RunsOK, OneHolds, SendsOK, RowsOK, SentOnce, InOrder
<1>6. CapsOK
  <2>1. /\ \A c \in Runs : InChainOf(c) = {}
        /\ \A t \in (0 - Hour)..MaxTime : InWindow(t) = {}
    BY <1>1 DEF InChainOf, InWindow
  <2>2. Cardinality({}) = 0
    BY FS_EmptySet
  <2>3. 0 <= PerChain /\ 0 <= PerHour
    BY ConstantsAre
  <2>4. \A c \in Runs : Cardinality(InChainOf(c)) <= PerChain
    BY <2>1, <2>2, <2>3
  <2>5. \A t \in (0 - Hour)..MaxTime : Cardinality(InWindow(t)) <= PerHour
    BY <2>1, <2>2, <2>3
  <2> QED
    BY <2>4, <2>5 DEF CapsOK
<1> QED
  BY <1>4, <1>5, <1>6 DEF PairInv

LEMMA PairStep == PairInv /\ [Next]_vars => PairInv'
<1> SUFFICES ASSUME PairInv, [Next]_vars
             PROVE  PairInv'
  OBVIOUS
<1>1. CASE SendNext
  BY <1>1, ComposeStep, EnqueueStep, QuietStep DEF SendNext
<1>2. CASE DrainNext
  BY <1>2, DrainStep, QuietStep DEF DrainNext
<1>3. CASE FireNext
  BY <1>3, FireStep DEF FireNext
<1>4. CASE RunNext
  BY <1>4, RunStep DEF RunNext
<1>5. CASE Crash \/ Tick
  BY <1>5, QuietStep
<1>6. CASE UNCHANGED vars
  <2>1. UNCHANGED <<next, row, state, noted, stale, status, working, sends, drains, fires,
                    refusing, calls, clock, faults>>
    BY <1>6 DEF vars, outbox, memory
  <2>2. RunsOK'
    BY <2>1 DEF PairInv, RunsOK
  <2> QED
    BY <2>1, <2>2, TypeFacts, RunsMove
<1> QED
  BY <1>1, <1>2, <1>3, <1>4, <1>5, <1>6 DEF Next

LEMMA PairInvariant == Spec => []PairInv
BY PairInit, PairStep, PTL DEF Spec

LEMMA InvIsEnough ==
    ASSUME PairInv
    PROVE  PairsHold
<1>1. OnePerPair
  <2>1. ASSUME NEW i \in Written, status[i] \in Live
        PROVE  Holding(i)
    <3>1. i \in Ids
      BY WrittenIs
    <3> QED
      BY <2>1, <3>1 DEF PairInv, RunsOK, Holding, Live
  <2> QED
    BY <2>1 DEF PairInv, OneHolds, OnePerPair
<1>2. OneFiring
  BY DEF PairInv, RunsOK, TypeOK, OneFiring
<1>3. ChainBound
  <2>1. ASSUME NEW id \in Written
        PROVE  row[id].hop <= MaxHops
    <3>1. row[id] \in Rows
      BY DEF PairInv, TypeOK
    <3> QED
      BY <3>1, ConstantsAre DEF Rows
  <2> QED
    BY <2>1 DEF PairInv, RowsOK, CapsOK, ChainOK, InChainOf, ChainBound
<1>4. HourBound
  BY DEF PairInv, CapsOK, InWindow, HourBound
<1> QED
  BY <1>1, <1>2, <1>3, <1>4 DEF PairsHold, PairInv, RowsOK

\* Messages between Bots (pairs.rs, claim_pair_message, enqueue_bot_messages): whatever the
\* sends, drains, sweeps, endings, crashes and store errors do together, a pair has one run
\* in flight at most, a message is had once and in order, a claimed row is fired once, and a
\* chain's depth and size and an hour's messages keep to their caps.
THEOREM PairsAreRight == Spec => []PairsHold
<1>1. PairInv => PairsHold
  BY InvIsEnough
<1> QED
  BY <1>1, PairInvariant, PTL
=============================================================================
