--------------------------- MODULE HarnessLoop_proof ---------------------------
(***************************************************************************)
(* Why a loop is honest: the inductive invariant behind LoopIsHonest,      *)
(* NeverFallsOut and NotStuckForever, and the proof that every step of the *)
(* loop, of a person, of the sweep and of a crash preserves it, for every  *)
(* set of calls and every budget.                                          *)
(***************************************************************************)
EXTENDS HarnessLoop, FiniteSetTheorems, WellFoundedInduction, TLAPS

Alive == pc # "down"
Active == log.status = "running"

\* The places of a loop that has nothing of the round in hand carried out yet.
Carrying == {"carry", "carrystart", "carryworld"}
Between == {"open", "top", "ask", "model", "calls", "start", "world", "carried"} \cup Carrying

WaitsAt == {k \in Ks : round.outs[k] = "waits"}

\* What a loop has in hand at each step: what has not run has played and spent nothing,
\* and only a round in which a call waits is parked.
RoundOK ==
    /\ ending # "none" <=> pc \in {"close", "write"}
    /\ ~round.ran => round.recipes = {} /\ round.kind = "none"
    /\ pc \in {"open", "top", "down"} => round = NoRound
    /\ pc \in {"calls", "start", "world"} \cup Carrying => ~round.ran
    /\ pc \in {"calls", "start", "world"} => round.calls # <<>>
    /\ pc \in Carrying \cup {"carried"} => Len(round.calls) = 1
    /\ pc = "record" => round.ran /\ round.kind # "none"
    /\ pc = "carried" => round.ran /\ round.kind = "none"
    /\ ending = "park" => round.ran /\ DOMAIN round.outs = Ks /\ WaitsAt # {}

PlayedIn(S) == \A r \in Recipe : plays[r] > 0 => r \in S
Unplayed(ask) == ask \in Recipe => plays[ask] = 0

\* A recipe that has been played is known to whoever may play one next: to the loop that
\* is alive, and, before anybody can carry the run on without it, to the log.  A recipe
\* somebody is asked about has not been played.
PlaysOK ==
    /\ Alive => PlayedIn(mem.played)
    /\ log.status = "awaiting" =>
          ~Alive /\ ~log.open /\ log.card \in Ask /\ Unplayed(log.card)
    /\ log.status \in {"running", "awaiting"} /\ ~log.open => PlayedIn(log.recipes)
    /\ Active /\ round.ran => PlayedIn(log.recipes \cup round.recipes)
    /\ Active /\ pc \in Between \ {"carried"} => PlayedIn(log.recipes)
    /\ Active /\ pc = "world" => log.open \/ \A k \in Ks : LoopAnswered(k)
    /\ Active /\ pc = "carryworld" => log.open
    /\ Active /\ log.answer # "none" =>
          /\ log.card \in Ask /\ Unplayed(log.card)
          /\ pc \in {"carry", "carrystart", "carried", "close", "write", "down"}
    /\ pc \in Carrying => Unplayed(Calls[1])
    /\ ending = "park" => Unplayed(Card)

\* Every round carried out since a person last acted is counted by the loop, and by the log
\* unless it is the one in hand or was lost with its loop, which costs a generation.
CountsOK ==
    /\ log.spoken + log.computer + (IF round.kind = "none" THEN 0 ELSE 1) <= carried
    /\ pc \in Between => rounds <= MaxRounds + MaxComputerRounds - 2 + log.generation
    /\ pc \in (Between \ (Carrying \cup {"carried"})) \cup {"record"} =>
          rounds <= mem.spoken + mem.computer + log.generation
    /\ Active => rounds <= log.spoken + log.computer + log.generation
                           + (IF pc \in Between THEN 0 ELSE 1)
    /\ pc \in Carrying \cup {"carried"} => rounds = 0
    /\ Active /\ log.answer # "none" => rounds = 0
    /\ pc \in Between => /\ mem.i <= mem.spoken + mem.computer
                         /\ mem.i > 0 => ~OverBudget(mem)
    /\ pc = "record" => mem.i + 1 <= mem.spoken + mem.computer

\* A round that fails as the last one did is the streak's next, and a loop goes on only
\* below the limit.
StuckOK ==
    /\ pc \in Between \cup {"record"} => mem.streak < MaxFailedRounds
    /\ Alive /\ stuck.n > 0 /\ pc \in Between \cup {"record"} =>
          /\ stuck.n <= mem.streak
          /\ stuck.did[1] \in Seq(Ask) /\ stuck.did[1] # <<>>
          /\ mem.failed_key = stuck.did[1][Len(stuck.did[1])]

\* A model call leaves on a read that found no Stop, or that failed.
StopsOK ==
    /\ ~Ended => late = 0
    /\ pc \in {"ask", "wrap"} => late <= faults

\* A client is shown an ending only by a loop that is over, and only a sweep after a lapsed
\* lease ends a run under its loop otherwise than by a Stop.
ToldOK ==
    /\ Alive => told = "none"
    /\ Alive /\ ~lapsed => log.status \notin {"finished", "failed", "awaiting"}

LoopInv ==
    /\ LoopIsHonest
    /\ NeverFallsOut /\ NotStuckForever
    /\ RoundOK /\ PlaysOK /\ CountsOK /\ StuckOK /\ StopsOK /\ ToldOK
-----------------------------------------------------------------------------
(* What the operators of a round give.                                      *)

\* The call the loop takes of several is the last of them.
LEMMA LatestIs ==
    ASSUME NEW n \in Nat, NEW S \in SUBSET (1..n), S # {}
    PROVE  Latest(S) \in S /\ \A j \in S : j <= Latest(S)
<1> DEFINE T == {n - k : k \in S}
           R == OpToRel(<, Nat)
<1>1. T \subseteq Nat /\ T # {}
  <2>1. \A k \in S : k \in Nat /\ n - k \in Nat
    BY SMT
  <2>2. PICK s \in S : TRUE
    OBVIOUS
  <2>3. n - s \in T
    OBVIOUS
  <2> QED
    BY <2>1, <2>3
<1>2. IsWellFoundedOn(R, Nat)
  BY NatLessThanWellFounded
<1>3. PICK x \in T : \A y \in T : <<y, x>> \notin R
  <2> HIDE DEF T, R
  <2> QED  BY <1>1, <1>2, WFMin
<1>4. \A y \in T : ~(y < x)
  BY <1>1, <1>3, Zenon DEF OpToRel
<1>5. PICK k \in S : x = n - k
  OBVIOUS
<1>6. \A j \in S : j <= k
  <2> SUFFICES ASSUME NEW j \in S PROVE j <= k
    OBVIOUS
  <2>1. n - j \in T
    OBVIOUS
  <2>2. ~(n - j < n - k)
    BY <1>4, <1>5, <2>1
  <2> QED
    BY <2>2
<1> QED
  BY <1>6 DEF Latest

\* A part of a completion's calls is finite, and is counted by a natural number.
LEMMA KsCount ==
    ASSUME TypeOK, NEW S \in SUBSET Ks
    PROVE  Cardinality(S) \in Nat
<1>1. Ks = 1..Len(round.calls) /\ Len(round.calls) \in Nat
  BY DEF TypeOK, RoundState, Ks
<1>2. IsFiniteSet(Ks)
  BY <1>1, FS_Interval
<1> QED
  BY <1>2, FS_Subset, FS_CardinalityType

\* A round's calls and the last of some of them are calls.
LEMMA CallsAre ==
    ASSUME TypeOK
    PROVE  /\ Ks = 1..Len(Calls) /\ Len(Calls) \in Nat
           /\ \A k \in Ks : Calls[k] \in Ask
           /\ \A S \in SUBSET Ks : S # {} => /\ Latest(S) \in S
                                              /\ \A j \in S : j <= Latest(S)
<1>1. Ks = 1..Len(Calls) /\ Len(Calls) \in Nat /\ \A k \in Ks : Calls[k] \in Ask
  BY DEF TypeOK, RoundState, Ks, Calls
<1> QED
  BY <1>1, LatestIs

\* A round's results are one per call, and of calls the box carried out where they say so.
LEMMA ResultsAre ==
    ASSUME TypeOK, NEW outs \in Results
    PROVE  /\ outs \in Seq(Outcome) /\ DOMAIN outs = Ks
           /\ PlayedNow(outs) \in SUBSET Recipe
           /\ OkKeys(outs) \in SUBSET Ask
           /\ FailedWork(outs) \in SUBSET Ks
           /\ \A k \in Ks : outs[k] = "waits" => ~LoopAnswered(k)
<1>1. outs \in [Ks -> Outcome]
  BY DEF Results
<1>2. outs \in Seq(Outcome)
  BY <1>1, CallsAre
<1>3. \A k \in Ks : outs[k] = "waits" => ~LoopAnswered(k)
  BY DEF Results, LoopAnswered
<1> QED
  BY <1>1, <1>2, <1>3, CallsAre DEF PlayedNow, OkKeys, FailedWork

LEMMA StreakIs ==
    ASSUME TypeOK, NEW outs \in Results
    PROVE  Streak(outs) \in Nat
<1>1. MaxFailedRounds \in Nat /\ mem.streak \in Nat
  BY BudgetAssumption DEF TypeOK, Memory
<1>2. Streak(outs) \in {MaxFailedRounds, mem.streak, mem.streak + 1, 1}
  BY Zenon DEF Streak
<1> QED
  BY <1>1, <1>2

LEMMA LooksAre ==
    ASSUME TypeOK, NEW outs \in Results
    PROVE  Looks(outs) \in Nat
<1> DEFINE shows == {k \in Ks : Calls[k] \in Recipe \cup Look /\ ~LoopAnswered(k)
                             /\ outs[k] \in {"ok", "same"}}
           new == {k \in shows : outs[k] = "ok"}
<1>1. Cardinality(shows) \in Nat /\ Cardinality({k \in shows : k > Latest(new)}) \in Nat
  BY KsCount
<1>2. mem.looks \in Nat
  BY DEF TypeOK, Memory
<1> HIDE DEF shows, new
<1>3. Looks(outs) = IF new = {} THEN mem.looks + Cardinality(shows)
                    ELSE 1 + Cardinality({k \in shows : k > Latest(new)})
  BY DEF Looks, shows, new
<1> QED
  BY <1>1, <1>2, <1>3

\* The streak and the call that failed last, as a round leaves them.
Counting(m, n, k) == [m EXCEPT !.streak = n, !.failed_key = k]

LEMMA CountingIs ==
    ASSUME NEW m \in Memory, NEW n \in Nat, NEW k \in Ask \cup {NoAsk}
    PROVE  /\ Counting(m, n, k) \in Memory
           /\ Counting(m, n, k).i = m.i /\ Counting(m, n, k).spoken = m.spoken
           /\ Counting(m, n, k).computer = m.computer /\ Counting(m, n, k).played = m.played
           /\ Counting(m, n, k).streak = n /\ Counting(m, n, k).failed_key = k
BY DEF Memory, Counting

\* What a round teaches the loop: what was played, and the streak of its failures.
LEMMA LearnsIs ==
    ASSUME TypeOK, NEW outs \in Results
    PROVE  LET m == Learns(outs) IN
           /\ m \in Memory
           /\ m.i = mem.i /\ m.spoken = mem.spoken /\ m.computer = mem.computer
           /\ m.played = mem.played \cup PlayedNow(outs)
           /\ FailedWork(outs) # {} =>
                 /\ m.streak = Streak(outs)
                 /\ m.failed_key = Calls[Latest(FailedWork(outs))]
           /\ FailedWork(outs) = {} => m.streak \in {0, mem.streak}
<1> DEFINE opened == {k \in Ks : outs[k] = "opened"}
           m1 == [mem EXCEPT
                !.skipped_listing = @ \/ SkipListing,
                !.skipped_replay = @ \/ \E k \in Ks : Replay(k),
                !.played = @ \cup PlayedNow(outs),
                !.listed = @ \/ (~SkipListing /\ \E k \in Ks : Calls[k] \in Listing /\ outs[k] = "ok"),
                !.opened = IF opened = {} THEN @ ELSE Calls[Latest(opened)],
                !.ok_keys = OkKeys(outs),
                !.looks = Looks(outs)]
           worked == ~SkipListing /\ \E k \in Ks : Calls[k] \notin Paint /\ ~WorkFailure(outs[k])
           failed == FailedWork(outs)
<1>1. opened # {} => Calls[Latest(opened)] \in Ask
  BY CallsAre
<1>2. failed # {} => Calls[Latest(failed)] \in Ask
  BY CallsAre, ResultsAre
<1>3. mem \in Memory
  BY DEF TypeOK
<1> HIDE DEF opened, worked, failed
<1>4. /\ m1 \in Memory
      /\ m1.i = mem.i /\ m1.spoken = mem.spoken /\ m1.computer = mem.computer
      /\ m1.played = mem.played \cup PlayedNow(outs) /\ m1.streak = mem.streak
  <2> DEFINE a == mem.skipped_listing \/ SkipListing
             b == mem.skipped_replay \/ \E k \in Ks : Replay(k)
             c == mem.listed \/ (~SkipListing /\ \E k \in Ks : Calls[k] \in Listing /\ outs[k] = "ok")
             d == IF opened = {} THEN mem.opened ELSE Calls[Latest(opened)]
             e == mem.played \cup PlayedNow(outs)
             f == OkKeys(outs)
             g == Looks(outs)
  <2>1. a \in BOOLEAN /\ b \in BOOLEAN /\ c \in BOOLEAN
    OBVIOUS
  <2>2. d \in Ask \cup {NoAsk} /\ e \in SUBSET Recipe /\ f \in SUBSET Ask /\ g \in Nat
    BY <1>1, <1>3, LooksAre, ResultsAre DEF Memory
  <2>3. m1 = [mem EXCEPT !.skipped_listing = a, !.skipped_replay = b, !.played = e, !.listed = c,
                         !.opened = d, !.ok_keys = f, !.looks = g]
    OBVIOUS
  <2> HIDE DEF a, b, c, d, f, g, m1
  <2> QED
    BY <1>3, <2>1, <2>2, <2>3 DEF Memory
<1>5. Learns(outs) = IF failed # {}
                     THEN [m1 EXCEPT !.streak = Streak(outs), !.failed_key = Calls[Latest(failed)]]
                     ELSE IF worked THEN [m1 EXCEPT !.streak = 0, !.failed_key = NoAsk] ELSE m1
  BY DEF Learns, opened, worked, failed
<1> HIDE DEF m1
<1>6. CASE failed # {}
  <2>1. Learns(outs) = Counting(m1, Streak(outs), Calls[Latest(failed)])
    BY <1>5, <1>6 DEF Counting
  <2>2. Streak(outs) \in Nat /\ Calls[Latest(failed)] \in Ask \cup {NoAsk}
    BY <1>2, <1>6, StreakIs
  <2> QED
    BY <1>4, <1>6, <2>1, <2>2, CountingIs DEF failed
<1>7. CASE failed = {} /\ worked
  <2>1. Learns(outs) = Counting(m1, 0, NoAsk)
    BY <1>5, <1>7 DEF Counting
  <2>2. 0 \in Nat /\ NoAsk \in Ask \cup {NoAsk}
    BY SMT
  <2> QED
    BY <1>4, <1>7, <2>1, <2>2, CountingIs DEF failed
<1>8. CASE failed = {} /\ ~worked
  BY <1>4, <1>5, <1>8 DEF failed
<1> QED
  BY <1>6, <1>7, <1>8

\* What a round that goes on leaves in memory: one unit of one budget is spent.
Counted(m, outs) == [Spends(m, outs) EXCEPT !.last_refused = Refused(outs)]

LEMMA CountedIs ==
    ASSUME TypeOK, NEW outs \in Results, NEW m \in Memory
    PROVE  /\ Counted(m, outs) \in Memory
           /\ Counted(m, outs).i = m.i /\ Counted(m, outs).played = m.played
           /\ Counted(m, outs).streak = m.streak
           /\ Counted(m, outs).failed_key = m.failed_key
           /\ Counted(m, outs).spoken + Counted(m, outs).computer = m.spoken + m.computer + 1
<1>1. Refused(outs) \in Seq(Ask)
  BY DEF Refused, Calls, TypeOK, RoundState
<1>2. CASE OnScreen(outs)
  <2>1. Counted(m, outs) = [m EXCEPT !.computer = m.computer + 1, !.last_refused = Refused(outs)]
    BY <1>2 DEF Counted, Spends
  <2> DEFINE n == m.computer + 1
             w == Refused(outs)
             c == Counted(m, outs)
  <2>2. n \in Nat /\ w \in Seq(Ask)
    BY <1>1 DEF Memory
  <2>3. c = [m EXCEPT !.computer = n, !.last_refused = w]
    BY <2>1
  <2> HIDE DEF n, w, c
  <2>4. /\ c \in Memory /\ c.i = m.i /\ c.played = m.played
        /\ c.streak = m.streak /\ c.failed_key = m.failed_key
        /\ c.computer = n /\ c.spoken = m.spoken
    BY <2>2, <2>3 DEF Memory
  <2>5. c.spoken + c.computer = m.spoken + m.computer + 1
    <3>1. m.spoken \in Nat /\ m.computer \in Nat
      BY DEF Memory
    <3> QED
      BY <2>4, <3>1 DEF n
  <2> QED
    BY <2>4, <2>5 DEF c
<1>3. CASE ~OnScreen(outs)
  <2>1. Counted(m, outs) = [m EXCEPT !.spoken = m.spoken + 1, !.last_refused = Refused(outs)]
    BY <1>3 DEF Counted, Spends
  <2> DEFINE n == m.spoken + 1
             w == Refused(outs)
             c == Counted(m, outs)
  <2>2. n \in Nat /\ w \in Seq(Ask)
    BY <1>1 DEF Memory
  <2>3. c = [m EXCEPT !.spoken = n, !.last_refused = w]
    BY <2>1
  <2> HIDE DEF n, w, c
  <2>4. /\ c \in Memory /\ c.i = m.i /\ c.played = m.played
        /\ c.streak = m.streak /\ c.failed_key = m.failed_key
        /\ c.spoken = n /\ c.computer = m.computer
    BY <2>2, <2>3 DEF Memory
  <2>5. c.spoken + c.computer = m.spoken + m.computer + 1
    <3>1. m.spoken \in Nat /\ m.computer \in Nat
      BY DEF Memory
    <3> QED
      BY <2>4, <3>1 DEF n
  <2> QED
    BY <2>4, <2>5 DEF c
<1> QED
  BY <1>2, <1>3

\* The round in hand once it has run.
Ran(outs, kind) ==
    [round EXCEPT !.outs = outs, !.ran = TRUE, !.recipes = PlayedNow(outs), !.kind = kind]

LEMMA RanIs ==
    ASSUME TypeOK, NEW outs \in Results, NEW kind \in {"none", "spoken", "computer"}
    PROVE  /\ Ran(outs, kind) \in RoundState
           /\ Ran(outs, kind).calls = Calls /\ Ran(outs, kind).outs = outs
           /\ Ran(outs, kind).ran = TRUE
           /\ Ran(outs, kind).recipes = PlayedNow(outs) /\ Ran(outs, kind).kind = kind
<1>1. outs \in Seq(Outcome) /\ PlayedNow(outs) \in SUBSET Recipe
  BY ResultsAre
<1>2. round \in RoundState
  BY DEF TypeOK
<1> QED
  BY <1>1, <1>2 DEF RoundState, Ran, Calls

\* A round run: what it leaves of the world, and of the loop, which ends or goes on.
LEMMA RunsIs ==
    ASSUME TypeOK, RoundOK, Runs
    PROVE  \E outs \in Results :
             /\ mem' \in Memory /\ round' \in RoundState
             /\ round'.calls = Calls /\ round'.outs = outs /\ round'.ran
             /\ round'.recipes = PlayedNow(outs)
             /\ mem'.i = mem.i /\ mem'.played = mem.played \cup PlayedNow(outs)
             /\ FailedWork(outs) # {} =>
                   /\ mem'.streak = Streak(outs)
                   /\ mem'.failed_key = Calls[Latest(FailedWork(outs))]
             /\ FailedWork(outs) = {} => mem'.streak \in {0, mem.streak}
             /\ plays' = [p \in Recipe |-> IF p \in PlayedNow(outs) THEN plays[p] + 1 ELSE plays[p]]
             /\ carried' = carried + 1 /\ rounds' = rounds + 1 /\ stuck' = StuckAfter(outs)
             /\ \/ /\ pc' = "close" /\ ending' \in {"park", "fail", "finish"}
                   /\ ending' = "park" => \E k \in Ks : outs[k] = "waits"
                   /\ round'.kind = "none"
                   /\ mem'.spoken = mem.spoken /\ mem'.computer = mem.computer
                \/ /\ \/ pc' = "close" /\ ending' = "finish"
                      \/ pc' = "record" /\ ending' = ending
                   /\ round'.kind \in {"spoken", "computer"}
                   /\ mem'.spoken + mem'.computer = mem.spoken + mem.computer + 1
                   /\ mem'.streak < MaxFailedRounds
<1>1. PICK outs \in Results :
          LET m == Learns(outs)
              r == [round EXCEPT !.outs = outs, !.ran = TRUE, !.recipes = PlayedNow(outs)]
              counted == [Spends(m, outs) EXCEPT !.last_refused = Refused(outs)]
              spent == [r EXCEPT !.kind = IF OnScreen(outs) THEN "computer" ELSE "spoken"]
              exit == IF \E k \in Ks : outs[k] = "waits" THEN "park"
                      ELSE IF RefusedTwice(outs) \/ m.looks >= SameScreenLimit THEN "fail"
                      ELSE IF m.streak >= MaxFailedRounds \/ \E k \in Ks : Calls[k] \in Paint THEN "finish"
                      ELSE "none"
              over == OverBudget(counted) /\ m.opened # NoAsk
          IN
          /\ plays' = [p \in Recipe |-> IF p \in PlayedNow(outs) THEN plays[p] + 1 ELSE plays[p]]
          /\ carried' = carried + 1
          /\ rounds' = rounds + 1
          /\ stuck' = StuckAfter(outs)
          /\ IF exit # "none"
             THEN Ends(exit) /\ mem' = m /\ round' = r
             ELSE /\ mem' = counted
                  /\ round' = spent
                  /\ IF over THEN Ends("finish") ELSE pc' = "record" /\ UNCHANGED ending
  BY Zenon DEF Runs
<1> DEFINE m == Learns(outs)
           kind == IF OnScreen(outs) THEN "computer" ELSE "spoken"
           exit == IF \E k \in Ks : outs[k] = "waits" THEN "park"
                   ELSE IF RefusedTwice(outs) \/ m.looks >= SameScreenLimit THEN "fail"
                   ELSE IF m.streak >= MaxFailedRounds \/ \E k \in Ks : Calls[k] \in Paint THEN "finish"
                   ELSE "none"
<1>2. /\ exit \in {"park", "fail", "finish", "none"}
      /\ exit = "park" => \E k \in Ks : outs[k] = "waits"
      /\ exit = "none" => ~(m.streak >= MaxFailedRounds)
  BY Zenon
<1>3. /\ plays' = [p \in Recipe |-> IF p \in PlayedNow(outs) THEN plays[p] + 1 ELSE plays[p]]
      /\ carried' = carried + 1 /\ rounds' = rounds + 1 /\ stuck' = StuckAfter(outs)
  BY <1>1
<1>4. ~round.ran /\ round.kind = "none" /\ round \in RoundState
  BY DEF Runs, RoundOK, TypeOK
<1>5. m \in Memory /\ m.streak \in Nat /\ MaxFailedRounds \in Nat
  BY LearnsIs, BudgetAssumption DEF Memory
<1>6. CASE exit # "none"
  <2>1. /\ pc' = "close" /\ ending' = exit /\ mem' = m
        /\ round' = [round EXCEPT !.outs = outs, !.ran = TRUE, !.recipes = PlayedNow(outs)]
    BY <1>1, <1>6 DEF Ends
  <2>2. round' = Ran(outs, "none")
    BY <1>4, <2>1 DEF Ran, RoundState
  <2> HIDE DEF exit, m
  <2>3. /\ round' \in RoundState /\ round'.calls = Calls /\ round'.outs = outs /\ round'.ran
        /\ round'.recipes = PlayedNow(outs) /\ round'.kind = "none"
    BY <2>2, RanIs
  <2>4. /\ mem' \in Memory
        /\ mem'.i = mem.i /\ mem'.spoken = mem.spoken /\ mem'.computer = mem.computer
        /\ mem'.played = mem.played \cup PlayedNow(outs)
        /\ FailedWork(outs) # {} =>
              /\ mem'.streak = Streak(outs)
              /\ mem'.failed_key = Calls[Latest(FailedWork(outs))]
        /\ FailedWork(outs) = {} => mem'.streak \in {0, mem.streak}
    BY <2>1, LearnsIs DEF m
  <2>5. pc' = "close" /\ ending' \in {"park", "fail", "finish"} /\ ending' = "park" => \E k \in Ks : outs[k] = "waits"
    BY <1>2, <1>6, <2>1
  <2> QED
    BY <1>2, <1>3, <1>6, <2>1, <2>3, <2>4
<1>7. CASE exit = "none"
  <2>1. /\ mem' = Counted(m, outs)
        /\ round' = [[round EXCEPT !.outs = outs, !.ran = TRUE, !.recipes = PlayedNow(outs)]
                        EXCEPT !.kind = kind]
        /\ \/ pc' = "close" /\ ending' = "finish"
           \/ pc' = "record" /\ ending' = ending
    BY <1>1, <1>7 DEF Ends, Counted
  <2>2. round' = Ran(outs, kind)
    BY <2>1 DEF Ran
  <2> HIDE DEF exit, m
  <2>3. kind \in {"spoken", "computer"} /\ kind \in {"none", "spoken", "computer"}
    OBVIOUS
  <2> HIDE DEF kind
  <2>4. /\ round' \in RoundState /\ round'.calls = Calls /\ round'.outs = outs /\ round'.ran
        /\ round'.recipes = PlayedNow(outs) /\ round'.kind = kind
    BY <2>2, <2>3, RanIs, Zenon
  <2>5. /\ m.i = mem.i /\ m.spoken = mem.spoken /\ m.computer = mem.computer
        /\ m.played = mem.played \cup PlayedNow(outs)
        /\ FailedWork(outs) # {} =>
              /\ m.streak = Streak(outs)
              /\ m.failed_key = Calls[Latest(FailedWork(outs))]
        /\ FailedWork(outs) = {} => m.streak \in {0, mem.streak}
    BY LearnsIs DEF m
  <2>6. /\ mem' \in Memory
        /\ mem'.i = m.i /\ mem'.played = m.played /\ mem'.streak = m.streak
        /\ mem'.failed_key = m.failed_key
        /\ mem'.spoken + mem'.computer = m.spoken + m.computer + 1
    BY <1>5, <2>1, CountedIs, Zenon
  <2>7. mem'.streak < MaxFailedRounds
    BY <1>2, <1>5, <1>7, <2>6
  <2> QED
    BY <1>3, <2>1, <2>3, <2>4, <2>5, <2>6, <2>7
<1> QED
  BY <1>6, <1>7

-----------------------------------------------------------------------------
(* What a write makes of the log.                                           *)

\* A round's write keeps the log's status, and counts the round where the run is open.
LEMMA WithRoundIs ==
    ASSUME NEW l \in LogState, NEW r \in RoundState
    PROVE  LET w == WithRound(l, r) IN
           /\ w \in LogState
           /\ w.status = l.status /\ w.card = l.card
           /\ w.generation = l.generation /\ w.closing = l.closing
           /\ w.spoken + w.computer <= l.spoken + l.computer + (IF r.kind = "none" THEN 0 ELSE 1)
           /\ r.kind = "none" => w.spoken + w.computer = l.spoken + l.computer
           /\ l.status \in {"running", "awaiting"} =>
                 /\ w.recipes = l.recipes \cup r.recipes
                 /\ w.open = (l.open /\ ~r.ran)
                 /\ w.answer = IF r.ran THEN "none" ELSE l.answer
                 /\ w.spoken + w.computer = l.spoken + l.computer + (IF r.kind = "none" THEN 0 ELSE 1)
<1> DEFINE w == WithRound(l, r)
           open == l.open /\ ~r.ran
           answer == IF r.ran THEN "none" ELSE l.answer
           recipes == l.recipes \cup r.recipes
           spoken == IF r.kind = "spoken" THEN l.spoken + 1 ELSE l.spoken
           computer == IF r.kind = "computer" THEN l.computer + 1 ELSE l.computer
<1>0. /\ l.spoken \in Nat /\ l.computer \in Nat /\ r.kind \in {"none", "spoken", "computer"}
      /\ open \in BOOLEAN /\ answer \in {"none", "yes", "no"} /\ recipes \in SUBSET Recipe
      /\ spoken \in Nat /\ computer \in Nat
      /\ spoken + computer = l.spoken + l.computer + (IF r.kind = "none" THEN 0 ELSE 1)
  <2>1. /\ l.spoken \in Nat /\ l.computer \in Nat /\ r.kind \in {"none", "spoken", "computer"}
        /\ l.recipes \in SUBSET Recipe /\ r.recipes \in SUBSET Recipe
        /\ l.answer \in {"none", "yes", "no"}
    BY DEF LogState, RoundState
  <2> QED
    BY <2>1
<1>1. CASE l.status \in {"finished", "failed"}
  <2>1. w = l
    BY <1>1 DEF WithRound
  <2> QED
    BY <1>0, <1>1, <2>1
<1>2. CASE l.status = "stopped"
  <2>1. w = [l EXCEPT !.open = open]
    BY <1>2 DEF WithRound
  <2> HIDE DEF w, open
  <2>2. /\ w \in LogState /\ w.status = l.status /\ w.card = l.card
        /\ w.generation = l.generation /\ w.closing = l.closing
        /\ w.spoken = l.spoken /\ w.computer = l.computer
    BY <1>0, <2>1 DEF LogState
  <2> QED
    BY <1>0, <1>2, <2>2 DEF w
<1>3. CASE l.status \in {"running", "awaiting"}
  <2>1. w = [l EXCEPT !.open = open, !.answer = answer, !.recipes = recipes,
                      !.spoken = spoken, !.computer = computer]
    BY <1>3 DEF WithRound
  <2> HIDE DEF w, open, answer, recipes, spoken, computer
  <2>2. /\ w \in LogState /\ w.status = l.status /\ w.card = l.card
        /\ w.generation = l.generation /\ w.closing = l.closing
        /\ w.open = open /\ w.answer = answer /\ w.recipes = recipes
        /\ w.spoken = spoken /\ w.computer = computer
    BY <1>0, <2>1 DEF LogState
  <2> QED
    BY <1>0, <1>3, <2>2 DEF w, open, answer, recipes
<1> QED
  BY <1>1, <1>2, <1>3 DEF LogState, Status

\* An ending's write ends or parks the run where it is open, and only there.
LEMMA WithEndingIs ==
    ASSUME NEW l \in LogState, NEW r \in RoundState,
           NEW end \in {"finish", "fail", "stop", "park"}, NEW card \in Ask \cup {NoAsk}
    PROVE  LET w == WithEnding(l, r, end, card)
               v == WithRound(l, r)
           IN
           /\ w \in LogState
           /\ w.generation = l.generation
           /\ w.spoken = v.spoken /\ w.computer = v.computer
           /\ l.status \in {"finished", "failed"} => w = l
           /\ l.status \notin {"finished", "failed"} => w.closing = end
           /\ l.status = "stopped" => w.status = "stopped"
           /\ l.status \in {"running", "awaiting"} =>
                 /\ end = "park" => w.status = "awaiting" /\ w.card = card
                 /\ end # "park" => w.status \in {"failed", "finished"}
                 /\ w.recipes = v.recipes /\ w.open = v.open
<1> DEFINE w == WithEnding(l, r, end, card)
           v == WithRound(l, r)
<1>0. v \in LogState /\ v.generation = l.generation /\ v.status = l.status
  BY WithRoundIs
<1>1. CASE l.status \in {"finished", "failed"}
  BY <1>1, <1>0 DEF WithEnding, WithRound
<1>2. CASE l.status = "stopped"
  <2>1. w = [v EXCEPT !.closing = end]
    BY <1>2 DEF WithEnding
  <2> HIDE DEF w, v
  <2>2. /\ w \in LogState /\ w.generation = v.generation /\ w.spoken = v.spoken
        /\ w.computer = v.computer /\ w.closing = end /\ w.status = v.status
    BY <1>0, <2>1 DEF LogState
  <2> QED
    BY <1>0, <1>2, <2>2 DEF w, v
<1>3. CASE l.status \in {"running", "awaiting"}
  <2> DEFINE c == IF end = "park" THEN card ELSE v.card
             s == CASE end = "park" -> "awaiting" [] end = "fail" -> "failed" [] OTHER -> "finished"
  <2>1. w = [v EXCEPT !.closing = end, !.card = c, !.status = s]
    BY <1>3 DEF WithEnding
  <2>2. /\ c \in Ask \cup {NoAsk} /\ s \in Status
        /\ end = "park" => s = "awaiting" /\ c = card
        /\ end # "park" => s \in {"failed", "finished"}
    BY <1>0 DEF LogState, Status
  <2> HIDE DEF w, v, c, s
  <2>3. /\ w \in LogState /\ w.generation = v.generation /\ w.spoken = v.spoken
        /\ w.computer = v.computer /\ w.closing = end /\ w.status = s /\ w.card = c
        /\ w.recipes = v.recipes /\ w.open = v.open
    BY <1>0, <2>1, <2>2 DEF LogState
  <2> QED
    BY <1>0, <1>3, <2>2, <2>3 DEF w, v
<1> QED
  BY <1>1, <1>2, <1>3 DEF LogState, Status

\* A park is on one of the calls that wait.
LEMMA CardIs ==
    ASSUME TypeOK, RoundOK
    PROVE  /\ Card \in Ask \cup {NoAsk}
           /\ ending = "park" => /\ WaitsAt # {} /\ Latest(WaitsAt) \in WaitsAt
                                 /\ Card = Calls[Latest(WaitsAt)] /\ Card \in Ask
<1>1. ending = "park" => WaitsAt # {} /\ WaitsAt \subseteq Ks /\ Card = Calls[Latest(WaitsAt)]
  BY DEF RoundOK, WaitsAt, Card
<1>2. ending # "park" => Card = NoAsk
  BY DEF Card
<1> QED
  BY <1>1, <1>2, CallsAre

-----------------------------------------------------------------------------
(* Types.                                                                   *)

\* What a segment inherits is a memory, with these parts.
LEMMA FreshIs ==
    ASSUME NEW s \in Nat, NEW c \in Nat, NEW p \in SUBSET Recipe
    PROVE  /\ Fresh(s, c, p) \in Memory
           /\ Fresh(s, c, p).i = 0 /\ Fresh(s, c, p).spoken = s /\ Fresh(s, c, p).computer = c
           /\ Fresh(s, c, p).played = p /\ Fresh(s, c, p).streak = 0
BY DEF Fresh, Memory

\* A round in which nothing happened, and one that has only been asked for.
LEMMA NoRoundIs ==
    /\ NoRound \in RoundState /\ NoRound.calls = <<>> /\ NoRound.outs = <<>>
    /\ ~NoRound.ran /\ NoRound.recipes = {} /\ NoRound.kind = "none"
<1>1. <<>> \in Seq(Outcome) /\ <<>> \in Seq(Ask)
  OBVIOUS
<1> QED
  BY <1>1 DEF NoRound, RoundState

LEMMA AskedIs ==
    ASSUME NEW s \in Seq(Ask)
    PROVE  /\ [NoRound EXCEPT !.calls = s] \in RoundState
           /\ [NoRound EXCEPT !.calls = s].calls = s
           /\ ~[NoRound EXCEPT !.calls = s].ran
           /\ [NoRound EXCEPT !.calls = s].recipes = {}
           /\ [NoRound EXCEPT !.calls = s].kind = "none"
BY NoRoundIs DEF RoundState

\* An approved call's run: its result alone, and what it played.
LEMMA CarryRunsIs ==
    ASSUME TypeOK, RoundOK, CarryRuns
    PROVE  \E out \in Outcome, played \in SUBSET Recipe :
             /\ round' \in RoundState /\ round'.calls = Calls /\ round'.outs = <<out>>
             /\ round'.ran /\ round'.recipes = played /\ round'.kind = "none"
             /\ mem' \in Memory /\ mem'.i = mem.i /\ mem'.spoken = mem.spoken
             /\ mem'.computer = mem.computer /\ mem'.played = mem.played \cup played
             /\ mem'.streak = mem.streak /\ mem'.failed_key = mem.failed_key
             /\ played # {} => Calls[1] \in Recipe /\ played = {Calls[1]} /\ out # "waits"
             /\ plays' = [p \in Recipe |-> IF p \in played THEN plays[p] + 1 ELSE plays[p]]
             /\ \/ out = "waits" /\ pc' = "close" /\ ending' = "park"
                \/ out # "waits" /\ pc' = "carried" /\ ending' = ending
<1>1. /\ round \in RoundState /\ round.kind = "none" /\ mem \in Memory
  BY DEF TypeOK, RoundOK, CarryRuns, Carrying
<1>2. PICK out \in Outcomes(Calls[1]) :
          LET played == IF Calls[1] \in Recipe /\ out \in {"ok", "same", "part"}
                        THEN {Calls[1]} ELSE {}
          IN
          /\ plays' = [p \in Recipe |-> IF p \in played THEN plays[p] + 1 ELSE plays[p]]
          /\ round' = [round EXCEPT !.outs = <<out>>, !.ran = TRUE, !.recipes = played]
          /\ mem' = [mem EXCEPT !.played = @ \cup played]
          /\ IF out = "waits" THEN Ends("park") ELSE pc' = "carried" /\ UNCHANGED ending
  BY Zenon DEF CarryRuns
<1>3. out \in Outcome
  BY DEF Outcomes, Outcome
<1> DEFINE played == IF Calls[1] \in Recipe /\ out \in {"ok", "same", "part"}
                     THEN {Calls[1]} ELSE {}
           outs == <<out>>
<1>4. /\ played \in SUBSET Recipe
      /\ played # {} => Calls[1] \in Recipe /\ played = {Calls[1]} /\ out # "waits"
  OBVIOUS
<1>5. /\ plays' = [p \in Recipe |-> IF p \in played THEN plays[p] + 1 ELSE plays[p]]
      /\ round' = [round EXCEPT !.outs = outs, !.ran = TRUE, !.recipes = played]
      /\ mem' = [mem EXCEPT !.played = mem.played \cup played]
      /\ \/ out = "waits" /\ pc' = "close" /\ ending' = "park"
         \/ out # "waits" /\ pc' = "carried" /\ ending' = ending
  BY <1>2 DEF Ends
<1>6. outs \in Seq(Outcome)
  BY <1>3
<1> HIDE DEF played, outs
<1>7. /\ round' \in RoundState /\ round'.calls = Calls /\ round'.outs = outs
      /\ round'.ran /\ round'.recipes = played /\ round'.kind = "none"
  BY <1>1, <1>4, <1>5, <1>6 DEF RoundState, Calls
<1>8. /\ mem' \in Memory /\ mem'.i = mem.i /\ mem'.spoken = mem.spoken
      /\ mem'.computer = mem.computer /\ mem'.played = mem.played \cup played
      /\ mem'.streak = mem.streak /\ mem'.failed_key = mem.failed_key
  BY <1>1, <1>4, <1>5 DEF Memory
<1> QED
  BY <1>3, <1>4, <1>5, <1>7, <1>8 DEF outs

\* The log changed in some of its fields.
LEMMA LogSet ==
    ASSUME NEW l \in LogState
    PROVE  /\ [l EXCEPT !.open = TRUE] \in LogState
           /\ [l EXCEPT !.open = TRUE, !.answer = "none"] \in LogState
           /\ [l EXCEPT !.status = "failed"] \in LogState
           /\ [l EXCEPT !.status = "stopped", !.card = NoAsk] \in LogState
           /\ \A a \in {"yes", "no"} : [l EXCEPT !.status = "running", !.answer = a] \in LogState
           /\ \A g \in 0..MaxResumes : [l EXCEPT !.generation = g] \in LogState
<1>1. /\ [l EXCEPT !.open = TRUE] \in LogState
      /\ [l EXCEPT !.open = TRUE, !.answer = "none"] \in LogState
  BY DEF LogState
<1>2. /\ [l EXCEPT !.status = "failed"] \in LogState
      /\ [l EXCEPT !.status = "stopped", !.card = NoAsk] \in LogState
  BY DEF LogState, Status
<1>3. ASSUME NEW a \in {"yes", "no"}
      PROVE  [l EXCEPT !.status = "running", !.answer = a] \in LogState
  BY DEF LogState, Status
<1>4. ASSUME NEW g \in 0..MaxResumes
      PROVE  [l EXCEPT !.generation = g] \in LogState
  BY DEF LogState
<1> QED
  BY <1>1, <1>2, <1>3, <1>4

\* A fault spent, or none.
LEMMA FaultIs ==
    ASSUME TypeOK, Fault \/ UNCHANGED faults
    PROVE  faults' \in 0..MaxFaults
BY BudgetAssumption DEF TypeOK, Fault

LEMMA LogType ==
    ASSUME TypeOK, RoundOK, Next
    PROVE  log' \in LogState
<1>1. log \in LogState /\ round \in RoundState
  BY DEF TypeOK
<1>2. WithRound(log, round) \in LogState
  BY <1>1, WithRoundIs
<1>3. ASSUME pc = "write"
      PROVE  WithEnding(log, round, ending, Card) \in LogState
  <2>1. ending \in {"finish", "fail", "stop", "park"} /\ Card \in Ask \cup {NoAsk}
    BY <1>3, CardIs DEF TypeOK, RoundOK
  <2> QED
    BY <1>1, <2>1, WithEndingIs
<1>4. CASE Records \/ CarryRecords
  BY <1>1, <1>2, <1>4 DEF Records, CarryRecords, Written, NotWritten
<1>5. CASE Writes
  BY <1>1, <1>3, <1>5 DEF Writes, Written, NotWritten
<1>6. CASE Starts \/ CarryStarts
  BY <1>1, <1>6, LogSet DEF Starts, CarryStarts, StartsTools, Written, NotWritten
<1>7. CASE \E yes \in BOOLEAN : Answers(yes)
  <2>1. PICK yes \in BOOLEAN : Answers(yes)
    BY <1>7
  <2>2. log' = [log EXCEPT !.status = "running", !.answer = IF yes THEN "yes" ELSE "no"]
    BY <2>1 DEF Answers
  <2>3. (IF yes THEN "yes" ELSE "no") \in {"yes", "no"}
    OBVIOUS
  <2> QED
    BY <1>1, <2>2, <2>3, LogSet
<1>8. CASE Resumes
  <2>1. log.generation \in 0..MaxResumes /\ MaxResumes \in Nat
    BY <1>1, BudgetAssumption DEF LogState
  <2>2. log' = [log EXCEPT !.generation = log.generation + 1] /\ log.generation < MaxResumes
    BY <1>8 DEF Resumes
  <2>3. log.generation + 1 \in 0..MaxResumes
    BY <2>1, <2>2
  <2> QED
    BY <1>1, <2>2, <2>3, LogSet
<1>9. CASE SweepFails \/ Stops
  BY <1>1, <1>9, LogSet DEF SweepFails, Stops
<1>10. CASE Opens
  BY <1>1, <1>10 DEF Opens, Written, NotWritten
<1>11. CASE UNCHANGED log
  BY <1>1, <1>11
<1>12. CASE \/ Top \/ AsksModel \/ ModelAnswers \/ Considers \/ Runs \/ WrapsUp \/ LastCall
            \/ Closes \/ Carries \/ CarryRuns \/ Crashes
  BY <1>11, <1>12 DEF Top, AsksModel, ModelAnswers, Considers, Runs, WrapsUp, LastCall,
                      Closes, Carries, CarryRuns, Crashes
<1> QED
  BY <1>4, <1>5, <1>6, <1>7, <1>8, <1>9, <1>10, <1>12 DEF Next, Loop

LEMMA MemType ==
    ASSUME TypeOK, RoundOK, Next
    PROVE  mem' \in Memory
<1>1. mem \in Memory /\ log \in LogState
  BY DEF TypeOK
<1>2. CASE Runs
  BY <1>2, RunsIs
<1>3. CASE CarryRuns
  BY <1>3, CarryRunsIs
<1>4. CASE Records
  <2>1. mem' = mem \/ mem' = [mem EXCEPT !.i = mem.i + 1]
    BY <1>4 DEF Records
  <2> QED
    BY <1>1, <2>1 DEF Memory
<1>5. CASE ModelAnswers
  <2>1. mem' = mem \/ mem' = [mem EXCEPT !.any_delta = TRUE]
    BY <1>5 DEF ModelAnswers
  <2> QED
    BY <1>1, <2>1 DEF Memory
<1>6. CASE Resumes \/ \E yes \in BOOLEAN : Answers(yes)
  <2>1. \/ mem' = mem
        \/ mem' = Fresh(0, 0, log.recipes)
        \/ mem' = Fresh(log.spoken, log.computer, log.recipes)
    BY <1>6 DEF Resumes, Answers, Segment
  <2>2. /\ log.recipes \in SUBSET Recipe /\ log.spoken \in Nat /\ log.computer \in Nat
        /\ 0 \in Nat
    BY <1>1 DEF LogState
  <2> QED
    BY <1>1, <2>1, <2>2, FreshIs
<1>7. CASE UNCHANGED mem
  BY <1>1, <1>7
<1>8. CASE \/ Opens \/ Top \/ AsksModel \/ Considers \/ Starts \/ WrapsUp \/ LastCall \/ Closes
           \/ Writes \/ Carries \/ CarryStarts \/ CarryRecords \/ SweepFails \/ Stops \/ Crashes
  BY <1>7, <1>8 DEF Opens, Top, AsksModel, Considers, Starts, WrapsUp, LastCall, Closes, Writes,
                    Carries, CarryStarts, CarryRecords, SweepFails, Stops, Crashes
<1> QED
  BY <1>2, <1>3, <1>4, <1>5, <1>6, <1>8 DEF Next, Loop

\* A completion is a sequence of calls, and not empty.
LEMMA CompletionsAre ==
    ASSUME NEW s \in Completions
    PROVE  s \in Seq(Ask) /\ s # <<>>
<1>1. PICK n \in 1..MaxCalls : s \in [1..n -> Ask]
  BY DEF Completions
<1>2. n \in Nat /\ n >= 1
  BY <1>1, BudgetAssumption
<1> QED
  BY <1>1, <1>2

\* The round a no answers: the refusal is its result.
LEMMA RefusedIs ==
    ASSUME NEW r \in RoundState
    PROVE  LET d == [r EXCEPT !.outs = <<"refused">>, !.ran = TRUE] IN
           /\ d \in RoundState /\ d.calls = r.calls /\ d.ran /\ d.recipes = r.recipes
           /\ d.kind = r.kind
<1> DEFINE outs == <<"refused">>
           d == [r EXCEPT !.outs = outs, !.ran = TRUE]
<1>1. outs \in Seq(Outcome)
  BY DEF Outcome
<1> HIDE DEF outs
<1>2. /\ d \in RoundState /\ d.calls = r.calls /\ d.ran /\ d.recipes = r.recipes
      /\ d.kind = r.kind
  BY <1>1 DEF RoundState
<1> QED
  BY <1>2 DEF outs

LEMMA RoundType ==
    ASSUME TypeOK, RoundOK, PlaysOK, Next
    PROVE  round' \in RoundState
<1>1. round \in RoundState /\ log \in LogState
  BY DEF TypeOK
<1>2. CASE Runs
  BY <1>2, RunsIs
<1>3. CASE CarryRuns
  BY <1>3, CarryRunsIs
<1>4. CASE ModelAnswers
  <2>1. round' = round \/ \E s \in Completions : round' = [NoRound EXCEPT !.calls = s]
    BY <1>4 DEF ModelAnswers
  <2> QED
    BY <1>1, <2>1, CompletionsAre, AskedIs
<1>5. CASE Resumes \/ \E yes \in BOOLEAN : Answers(yes)
  <2>1. \/ round' = round
        \/ round' = [NoRound EXCEPT !.calls = <<>>]
        \/ round' = [NoRound EXCEPT !.calls = <<log.card>>] /\ log.card \in Ask
    <3>1. CASE Resumes
      BY <3>1 DEF Resumes, Segment, PlaysOK, Active
    <3>2. ASSUME NEW yes \in BOOLEAN, Answers(yes)
          PROVE  \/ round' = round
                 \/ round' = [NoRound EXCEPT !.calls = <<log.card>>] /\ log.card \in Ask
      BY <3>2 DEF Answers, Segment, PlaysOK
    <3> QED
      BY <1>5, <3>1, <3>2
  <2>2. <<>> \in Seq(Ask) /\ (log.card \in Ask => <<log.card>> \in Seq(Ask))
    OBVIOUS
  <2> QED
    BY <1>1, <2>1, <2>2, AskedIs, Zenon
<1>6. CASE Carries
  <2>1. \/ round' = round \/ round' = NoRound
        \/ round' = [round EXCEPT !.outs = <<"refused">>, !.ran = TRUE]
    BY <1>6 DEF Carries, EndsEmpty
  <2> QED
    BY <1>1, <2>1, NoRoundIs, RefusedIs
<1>7. CASE round' \in {round, NoRound}
  BY <1>1, <1>7, NoRoundIs
<1>8. CASE \/ Opens \/ Top \/ AsksModel \/ Considers \/ Starts \/ WrapsUp \/ LastCall \/ Closes
           \/ Writes \/ CarryStarts \/ Records \/ CarryRecords \/ SweepFails \/ Stops \/ Crashes
  BY <1>7, <1>8 DEF Opens, Top, AsksModel, Considers, Starts, WrapsUp, LastCall, Closes, Writes,
                    CarryStarts, Records, CarryRecords, SweepFails, Stops, Crashes, EndsEmpty,
                    Leaves
<1> QED
  BY <1>2, <1>3, <1>4, <1>5, <1>6, <1>8 DEF Next, Loop

LEMMA TypeStep ==
    ASSUME TypeOK, RoundOK, PlaysOK, Next
    PROVE  TypeOK'
<1>1. log' \in LogState /\ mem' \in Memory /\ round' \in RoundState
  BY LogType, MemType, RoundType
<1>2. pc' \in Pc /\ ending' \in {"none", "finish", "fail", "stop", "park"}
  <2>1. pc \in Pc /\ ending \in {"none", "finish", "fail", "stop", "park"}
    BY DEF TypeOK
  <2>2. CASE Runs
    BY <2>1, <2>2, RunsIs DEF Pc
  <2>3. CASE CarryRuns
    BY <2>1, <2>3, CarryRunsIs DEF Pc
  <2>4. CASE Opens \/ Top \/ AsksModel \/ ModelAnswers \/ Considers
    BY <2>1, <2>4 DEF Opens, Top, AsksModel, ModelAnswers, Considers, Ends, EndsEmpty, Pc
  <2>5. CASE Starts \/ CarryStarts \/ Records \/ WrapsUp \/ LastCall \/ Carries \/ CarryRecords
    BY <2>1, <2>5 DEF Starts, CarryStarts, StartsTools, Records, WrapsUp, LastCall, Carries,
                      CarryRecords, Ends, EndsEmpty, Pc
  <2>6. CASE Closes \/ Writes
    BY <2>1, <2>6 DEF Closes, Writes, Leaves, Pc
  <2>7. CASE Resumes \/ SweepFails \/ Stops \/ Crashes \/ \E yes \in BOOLEAN : Answers(yes)
    BY <2>1, <2>7 DEF Resumes, SweepFails, Stops, Crashes, Answers, Segment, Pc
  <2> QED
    BY <2>2, <2>3, <2>4, <2>5, <2>6, <2>7 DEF Next, Loop
<1>3. told' \in {"none", "finish", "fail", "stop", "park", "unrecorded"}
  <2>1. /\ told \in {"none", "finish", "fail", "stop", "park", "unrecorded"}
        /\ ending \in {"none", "finish", "fail", "stop", "park"}
    BY DEF TypeOK
  <2>2. told' \in {told, ending, "unrecorded", "none"}
    BY DEF Next, Loop, Opens, Top, AsksModel, ModelAnswers, Considers, Starts, Runs, Records,
           WrapsUp, LastCall, Closes, Writes, Carries, CarryStarts, CarryRuns, CarryRecords,
           Answers, Resumes, SweepFails, Stops, Crashes, Segment, Leaves
  <2> QED
    BY <2>1, <2>2
<1>4. plays' \in [Recipe -> Nat]
  <2>1. plays \in [Recipe -> Nat]
    BY DEF TypeOK
  <2>2. CASE Runs
    BY <2>1, <2>2, RunsIs
  <2>3. CASE CarryRuns
    BY <2>1, <2>3, CarryRunsIs
  <2>4. CASE UNCHANGED plays
    BY <2>1, <2>4
  <2> QED
    BY <2>2, <2>3, <2>4
    DEF Next, Loop, Opens, Top, AsksModel, ModelAnswers, Considers, Starts, Records, WrapsUp,
        LastCall, Closes, Writes, Carries, CarryStarts, CarryRecords, Answers, Resumes,
        SweepFails, Stops, Crashes, Local
<1>5. carried' \in Nat /\ rounds' \in Nat /\ late' \in Nat /\ cards' \in 0..MaxCards
      /\ stuck'.n \in Nat
  <2>1. carried \in Nat /\ rounds \in Nat /\ late \in Nat /\ cards \in 0..MaxCards
        /\ stuck.n \in Nat /\ MaxCards \in Nat
    BY BudgetAssumption DEF TypeOK
  <2>2. CASE Runs
    <3>1. carried' = carried + 1 /\ rounds' = rounds + 1 /\ late' = late /\ cards' = cards
      BY <2>2 DEF Runs
    <3>2. stuck'.n \in {0, 1, stuck.n + 1}
      BY <2>2, RunsIs DEF StuckAfter, NotStuck
    <3> QED
      BY <2>1, <3>1, <3>2
  <2>3. CASE AsksModel \/ LastCall
    BY <2>1, <2>3 DEF AsksModel, LastCall, Asks, Local
  <2>4. CASE \E yes \in BOOLEAN : Answers(yes)
    <3>1. /\ carried' = carried /\ rounds' = 0 /\ late' = late /\ cards' = cards + 1
          /\ cards < MaxCards /\ stuck' \in {stuck, NotStuck}
      BY <2>4 DEF Answers, Segment
    <3> QED
      BY <2>1, <3>1 DEF NotStuck
  <2>5. CASE Resumes
    <3>1. /\ carried' = carried /\ rounds' = rounds /\ late' = late /\ cards' = cards
          /\ stuck' = NotStuck
      BY <2>5 DEF Resumes, Segment
    <3> QED
      BY <2>1, <3>1 DEF NotStuck
  <2>6. CASE UNCHANGED <<carried, rounds, late, cards, stuck>>
    BY <2>1, <2>6
  <2> QED
    BY <2>2, <2>3, <2>4, <2>5, <2>6
    DEF Next, Loop, Opens, Top, ModelAnswers, Considers, Starts, Records, WrapsUp,
        Closes, Writes, Carries, CarryStarts, CarryRuns, CarryRecords,
        SweepFails, Stops, Crashes, Local
<1>6. faults' \in 0..MaxFaults
  <2>1. Fault \/ UNCHANGED faults
    BY DEF Next, Loop, Opens, Top, AsksModel, ModelAnswers, Considers, Starts, Runs, Records,
           WrapsUp, LastCall, Closes, Writes, Carries, CarryStarts, CarryRuns, CarryRecords,
           Answers, Resumes, SweepFails, Stops, Crashes, SaysStopped, SaysGoOn, StartsTools,
           Written, NotWritten
  <2> QED
    BY <2>1, FaultIs
<1>7. lapsed' \in BOOLEAN
  <2>1. lapsed' \in {lapsed, TRUE}
    BY DEF Next, Loop, Opens, Top, AsksModel, ModelAnswers, Considers, Starts, Runs, Records,
           WrapsUp, LastCall, Closes, Writes, Carries, CarryStarts, CarryRuns, CarryRecords,
           Answers, Resumes, SweepFails, Stops, Crashes, Local
  <2> QED
    BY <2>1 DEF TypeOK
<1> QED
  BY <1>1, <1>2, <1>3, <1>4, <1>5, <1>6, <1>7 DEF TypeOK

-----------------------------------------------------------------------------
(* The round in hand.                                                       *)

LEMMA RoundStep ==
    ASSUME TypeOK, RoundOK, PlaysOK, Next
    PROVE  RoundOK'
<1> USE DEF Carrying
<1>1. CASE Runs
  <2>1. PICK outs \in Results :
             /\ round'.calls = Calls /\ round'.outs = outs /\ round'.ran
             /\ \/ /\ pc' = "close" /\ ending' \in {"park", "fail", "finish"}
                   /\ ending' = "park" => \E k \in Ks : outs[k] = "waits"
                \/ /\ \/ pc' = "close" /\ ending' = "finish"
                      \/ pc' = "record" /\ ending' = ending
                   /\ round'.kind \in {"spoken", "computer"}
    BY <1>1, RunsIs
  <2>2. DOMAIN outs = Ks
    BY ResultsAre
  <2>3. Ks' = Ks /\ WaitsAt' = {k \in Ks : outs[k] = "waits"}
    BY <2>1 DEF Ks, Calls, WaitsAt
  <2>4. pc = "world" /\ ending = "none"
    BY <1>1 DEF Runs, RoundOK
  <2>5. ending' = "park" => DOMAIN round'.outs = Ks' /\ WaitsAt' # {}
    BY <2>1, <2>2, <2>3, <2>4
  <2> QED
    BY <2>1, <2>4, <2>5 DEF RoundOK
<1>2. CASE CarryRuns
  <2>1. PICK out \in Outcome, played \in SUBSET Recipe :
             /\ round'.calls = Calls /\ round'.outs = <<out>>
             /\ round'.ran /\ round'.kind = "none"
             /\ \/ out = "waits" /\ pc' = "close" /\ ending' = "park"
                \/ out # "waits" /\ pc' = "carried" /\ ending' = ending
    BY <1>2, CarryRunsIs
  <2>2. pc = "carryworld" /\ ending = "none" /\ Len(Calls) = 1
    BY <1>2 DEF CarryRuns, RoundOK, Calls
  <2>3. Ks' = 1..1
    BY <2>1, <2>2, CallsAre DEF Ks, Calls
  <2>4. ending' = "park" => DOMAIN round'.outs = Ks' /\ 1 \in WaitsAt'
    BY <2>1, <2>2, <2>3 DEF WaitsAt
  <2> QED
    BY <2>1, <2>2, <2>4 DEF RoundOK, Calls
<1>3. CASE ModelAnswers
  <2>1. CASE \E s \in Completions : pc' = "calls" /\ round' = [NoRound EXCEPT !.calls = s]
                                    /\ UNCHANGED ending
    <3>1. PICK s \in Completions : pc' = "calls" /\ round' = [NoRound EXCEPT !.calls = s]
                                    /\ UNCHANGED ending
      BY <2>1
    <3>2. round'.calls # <<>> /\ ~round'.ran /\ round'.recipes = {} /\ round'.kind = "none"
      BY <3>1, CompletionsAre, AskedIs
    <3>3. pc = "model" /\ ending = "none"
      BY <1>3 DEF ModelAnswers, RoundOK
    <3> QED
      BY <3>1, <3>2, <3>3 DEF RoundOK
  <2>2. CASE pc' = "close" /\ ending' \in {"fail", "finish", "stop"} /\ UNCHANGED round
    BY <1>3, <2>2 DEF ModelAnswers, RoundOK
  <2> QED
    BY <1>3, <2>1, <2>2 DEF ModelAnswers, Ends
<1>4. CASE Resumes \/ \E yes \in BOOLEAN : Answers(yes)
  <2>1. /\ pc = "down" /\ ending = "none" /\ ending' = ending /\ round = NoRound
        /\ \/ pc' = "down" /\ round' = round
           \/ pc' = "top" /\ round' = [NoRound EXCEPT !.calls = <<>>]
           \/ /\ pc' = "carry" /\ log.card \in Ask
              /\ round' = [NoRound EXCEPT !.calls = <<log.card>>]
    <3>1. CASE Resumes
      BY <3>1 DEF Resumes, Segment, PlaysOK, Active, RoundOK
    <3>2. ASSUME NEW yes \in BOOLEAN, Answers(yes)
          PROVE  /\ pc = "down" /\ ending = "none" /\ ending' = ending /\ round = NoRound
                 /\ \/ pc' = "down" /\ round' = round
                    \/ /\ pc' = "carry" /\ log.card \in Ask
                       /\ round' = [NoRound EXCEPT !.calls = <<log.card>>]
      BY <3>2 DEF Answers, Segment, PlaysOK, RoundOK
    <3> QED
      BY <1>4, <3>1, <3>2
  <2>2. [NoRound EXCEPT !.calls = <<>>] = NoRound
    BY NoRoundIs DEF RoundState
  <2>3. CASE pc' \in {"down", "top"}
    BY <2>1, <2>2, <2>3, NoRoundIs DEF RoundOK
  <2>4. CASE pc' = "carry"
    <3>1. <<log.card>> \in Seq(Ask) /\ Len(<<log.card>>) = 1
      BY <2>1, <2>4
    <3>2. Len(round'.calls) = 1 /\ ~round'.ran /\ round'.recipes = {} /\ round'.kind = "none"
      BY <2>1, <2>4, <3>1, AskedIs
    <3> QED
      BY <2>1, <2>4, <3>2 DEF RoundOK
  <2> QED
    BY <2>1, <2>3, <2>4
<1>5. CASE Carries
  <2>1. pc = "carry" /\ ending = "none" /\ ~round.ran /\ Len(round.calls) = 1
        /\ round.recipes = {} /\ round.kind = "none"
    BY <1>5 DEF Carries, RoundOK
  <2>2. \/ pc' = "close" /\ ending' = "stop" /\ round' = NoRound
        \/ /\ pc' = "carried" /\ ending' = ending
           /\ round' = [round EXCEPT !.outs = <<"refused">>, !.ran = TRUE]
        \/ pc' = "carrystart" /\ ending' = ending /\ round' = round
    BY <1>5 DEF Carries, EndsEmpty, Ends
  <2>3. ASSUME round' = [round EXCEPT !.outs = <<"refused">>, !.ran = TRUE]
        PROVE  round'.calls = round.calls /\ round'.ran /\ round'.kind = round.kind
    BY <2>3, RefusedIs DEF TypeOK
  <2> QED
    BY <2>1, <2>2, <2>3, NoRoundIs DEF RoundOK
<1>6. CASE Opens \/ Top \/ AsksModel \/ Considers
  BY <1>6, NoRoundIs DEF Opens, Top, AsksModel, Considers, Ends, EndsEmpty, RoundOK, Ks, WaitsAt
<1>7. CASE Starts \/ CarryStarts
  BY <1>7, NoRoundIs DEF Starts, CarryStarts, StartsTools, Ends, RoundOK, Ks, WaitsAt
<1>8. CASE Records \/ CarryRecords
  BY <1>8, NoRoundIs DEF Records, CarryRecords, Ends, EndsEmpty, RoundOK, Ks, WaitsAt
<1>9. CASE WrapsUp \/ LastCall \/ Closes
  BY <1>9, NoRoundIs DEF WrapsUp, LastCall, Closes, Ends, RoundOK, Ks, WaitsAt
<1>10. CASE Writes
  BY <1>10, NoRoundIs DEF Writes, Leaves, RoundOK, Ks, WaitsAt
<1>11. CASE SweepFails \/ Stops \/ Crashes
  BY <1>11, NoRoundIs DEF SweepFails, Stops, Crashes, RoundOK, Ks, WaitsAt
<1> QED
  BY <1>1, <1>2, <1>3, <1>4, <1>5, <1>6, <1>7, <1>8, <1>9, <1>10, <1>11 DEF Next, Loop

-----------------------------------------------------------------------------
(* What has been played.                                                    *)

\* What the loop answers itself depends on its memory and on the round in hand alone.
LEMMA SameAnswered ==
    ASSUME UNCHANGED <<mem, round>>
    PROVE  /\ Ks' = Ks /\ Calls' = Calls /\ (ending' = ending => Card' = Card)
           /\ \A k : LoopAnswered(k)' <=> LoopAnswered(k)
BY DEF Ks, Calls, Card, LoopAnswered, SkipListing, ListingOnly, Replay

\* A round plays only what the loop did not know, each recipe once, and nothing of a call
\* that waits on a person.
LEMMA PlaysNew ==
    ASSUME TypeOK, RoundOK, PlaysOK, pc = "world", NEW outs \in Results
    PROVE  /\ \A r \in PlayedNow(outs) : r \in Recipe /\ plays[r] = 0
           /\ \A k \in Ks : outs[k] = "waits" => Unplayed(Calls[k]) /\ Calls[k] \notin PlayedNow(outs)
           /\ (\A k \in Ks : LoopAnswered(k)) => PlayedNow(outs) = {}
<1>1. /\ \A r \in Recipe : plays[r] \in Nat
      /\ \A k \in Ks : k \in Nat
  BY CallsAre DEF TypeOK
<1>2. \A r \in Recipe : r \notin mem.played => plays[r] = 0
  BY <1>1 DEF PlaysOK, PlayedIn, Alive
<1>3. ASSUME NEW k \in Ks, ~LoopAnswered(k)
      PROVE  Unplayed(Calls[k])
  BY <1>2, <1>3 DEF LoopAnswered, Replay, Unplayed
<1>4. \A r \in PlayedNow(outs) : r \in Recipe /\ plays[r] = 0
  BY <1>3 DEF PlayedNow, Unplayed
<1>5. ASSUME NEW k \in Ks, outs[k] = "waits"
      PROVE  Unplayed(Calls[k]) /\ Calls[k] \notin PlayedNow(outs)
  <2>1. ~LoopAnswered(k)
    BY <1>5, ResultsAre
  <2>2. ASSUME NEW j \in Ks, Calls[j] \in Recipe, ~LoopAnswered(j), outs[j] # "waits",
               Calls[j] = Calls[k]
        PROVE  FALSE
    <3>1. j < k \/ k < j
      BY <1>1, <1>5, <2>2
    <3> QED
      BY <2>1, <2>2, <3>1 DEF LoopAnswered, Replay
  <2> QED
    BY <1>3, <2>1, <2>2 DEF PlayedNow
<1> QED
  BY <1>4, <1>5 DEF PlayedNow

LEMMA PlaysRuns ==
    ASSUME TypeOK, RoundOK, PlaysOK, RecipeOnce, Runs
    PROVE  PlaysOK' /\ RecipeOnce'
<1>1. PICK outs \in Results :
             /\ round' \in RoundState
             /\ round'.calls = Calls /\ round'.outs = outs /\ round'.ran
             /\ round'.recipes = PlayedNow(outs)
             /\ mem'.played = mem.played \cup PlayedNow(outs)
             /\ plays' = [p \in Recipe |-> IF p \in PlayedNow(outs) THEN plays[p] + 1 ELSE plays[p]]
             /\ \/ /\ pc' = "close" /\ ending' \in {"park", "fail", "finish"}
                   /\ ending' = "park" => \E k \in Ks : outs[k] = "waits"
                \/ /\ \/ pc' = "close" /\ ending' = "finish"
                      \/ pc' = "record" /\ ending' = ending
  BY RunsIs
<1>2. /\ pc = "world" /\ log' = log /\ ending = "none" /\ ~round.ran
      /\ log.status # "awaiting"
  BY DEF Runs, RoundOK, PlaysOK, Alive
<1>3. \A r \in Recipe : plays[r] \in Nat
  BY DEF TypeOK
<1>4. /\ \A r \in PlayedNow(outs) : plays[r] = 0
      /\ \A k \in Ks : outs[k] = "waits" => Unplayed(Calls[k]) /\ Calls[k] \notin PlayedNow(outs)
      /\ (\A k \in Ks : LoopAnswered(k)) => PlayedNow(outs) = {}
  BY <1>2, PlaysNew
<1>5. \A r \in Recipe : plays'[r] = IF r \in PlayedNow(outs) THEN 1 ELSE plays[r]
  BY <1>1, <1>3, <1>4
<1>6. \A S : PlayedIn(S) =>
                \A r \in Recipe : plays'[r] > 0 => r \in S \cup PlayedNow(outs)
  BY <1>5 DEF PlayedIn
<1>7. RecipeOnce'
  BY <1>5 DEF RecipeOnce
<1>8. ending' = "park" => Unplayed(Card)'
  <2> SUFFICES ASSUME ending' = "park", Card' \in Recipe PROVE plays'[Card'] = 0
    BY DEF Unplayed
  <2> DEFINE W == {k \in Ks : outs[k] = "waits"}
  <2>1. W # {} /\ W \subseteq Ks
    BY <1>1, <1>2
  <2>2. Latest(W) \in W
    BY <2>1, CallsAre
  <2>3. Card' = Calls[Latest(W)]
    BY <1>1 DEF Card, Calls, Ks
  <2>4. PICK k \in Ks : outs[k] = "waits" /\ Card' = Calls[k]
    BY <2>2, <2>3
  <2> QED
    BY <1>4, <1>5, <2>4 DEF Unplayed
<1>9. Active' => PlayedIn(log.recipes)
  BY <1>2 DEF PlaysOK, Active, Between
<1>10. Active' => log'.open \/ PlayedNow(outs) = {}
  BY <1>2, <1>4 DEF PlaysOK, Active
<1>11. Alive' => PlayedIn(mem.played)'
  <2>1. PlayedIn(mem.played)
    BY <1>2 DEF PlaysOK, Alive
  <2> QED
    BY <1>1, <1>6, <2>1 DEF PlayedIn
<1>12. Active' => PlayedIn(log.recipes \cup round.recipes)'
  BY <1>1, <1>2, <1>6, <1>9 DEF PlayedIn
<1>13. Active' /\ ~log'.open => PlayedIn(log.recipes)'
  BY <1>2, <1>5, <1>9, <1>10 DEF PlayedIn
<1>14. pc' \in {"close", "record"} /\ log'.status = log.status /\ log'.answer = log.answer
  BY <1>1, <1>2
<1>15. Active' => log'.answer = "none"
  BY <1>2 DEF PlaysOK, Active
<1> QED
  BY <1>2, <1>7, <1>8, <1>11, <1>12, <1>13, <1>14, <1>15
  DEF PlaysOK, Active, Alive, Between, Carrying

LEMMA PlaysCarryRuns ==
    ASSUME TypeOK, RoundOK, PlaysOK, RecipeOnce, CarryRuns
    PROVE  PlaysOK' /\ RecipeOnce'
<1>1. PICK out \in Outcome, played \in SUBSET Recipe :
             /\ round'.calls = Calls /\ round'.outs = <<out>>
             /\ round'.ran /\ round'.recipes = played
             /\ mem'.played = mem.played \cup played
             /\ played # {} => Calls[1] \in Recipe /\ played = {Calls[1]} /\ out # "waits"
             /\ plays' = [p \in Recipe |-> IF p \in played THEN plays[p] + 1 ELSE plays[p]]
             /\ \/ out = "waits" /\ pc' = "close" /\ ending' = "park"
                \/ out # "waits" /\ pc' = "carried" /\ ending' = ending
  BY CarryRunsIs
<1>2. /\ pc = "carryworld" /\ log' = log /\ ending = "none" /\ Len(Calls) = 1
      /\ Unplayed(Calls[1]) /\ log.status # "awaiting"
      /\ Active => log.open /\ log.answer = "none" /\ PlayedIn(log.recipes)
      /\ PlayedIn(mem.played)
  BY DEF CarryRuns, RoundOK, PlaysOK, Alive, Active, Carrying, Between, Calls
<1>3. \A r \in Recipe : plays[r] \in Nat
  BY DEF TypeOK
<1>4. \A r \in Recipe : plays'[r] = IF r \in played THEN 1 ELSE plays[r]
  BY <1>1, <1>2, <1>3 DEF Unplayed
<1>5. RecipeOnce'
  BY <1>4 DEF RecipeOnce
<1>6. ending' = "park" => Unplayed(Card)'
  <2> SUFFICES ASSUME ending' = "park" PROVE Unplayed(Card)'
    OBVIOUS
  <2>1. Calls' = Calls /\ Ks = 1..1 /\ Ks' = Ks /\ round'.outs[1] = "waits" /\ played = {}
    BY <1>1, <1>2, CallsAre DEF Ks, Calls
  <2>2. {k \in Ks' : round'.outs[k] = "waits"} = {1}
    BY <2>1
  <2>3. Latest({1}) \in {1}
    <3>1. 1 \in Nat /\ {1} \in SUBSET (1..1)
      OBVIOUS
    <3> QED
      BY <3>1, LatestIs
  <2>4. Card' = Calls[1]
    BY <2>1, <2>2, <2>3 DEF Card
  <2>5. plays' = plays
    BY <1>1, <2>1 DEF TypeOK
  <2> QED
    BY <1>2, <2>4, <2>5 DEF Unplayed
<1>7. Alive' => PlayedIn(mem.played)'
  BY <1>1, <1>2, <1>4 DEF PlayedIn
<1>8. Active' => PlayedIn(log.recipes \cup round.recipes)'
  BY <1>1, <1>2, <1>4 DEF PlayedIn, Active
<1>9. pc' \in {"close", "carried"}
  BY <1>1
<1> QED
  BY <1>2, <1>5, <1>6, <1>7, <1>8, <1>9 DEF PlaysOK, Active, Alive, Between, Carrying

\* A round's write tells the log what the round played.
LEMMA PlaysWritten ==
    ASSUME TypeOK, RoundOK, PlaysOK, RecipeOnce, Records \/ CarryRecords
    PROVE  PlaysOK' /\ RecipeOnce'
<1> DEFINE w == WithRound(log, round)
<1>1. /\ w.status = log.status
      /\ log.status = "running" =>
            /\ w.recipes = log.recipes \cup round.recipes /\ w.open = (log.open /\ ~round.ran)
            /\ w.answer = IF round.ran THEN "none" ELSE log.answer
      /\ w.card = log.card
  BY WithRoundIs DEF TypeOK
<1>2. /\ pc \in {"record", "carried"} /\ round.ran /\ log.status # "awaiting" /\ ending = "none"
      /\ Active => PlayedIn(log.recipes \cup round.recipes)
      /\ PlayedIn(mem.played)
  BY DEF Records, CarryRecords, RoundOK, PlaysOK, Alive
<1> HIDE DEF w
<1>3. /\ plays' = plays /\ mem'.played = mem.played /\ round' = NoRound
      /\ log' \in {log, w}
      /\ \/ log' = w /\ pc' \in {"top", "budget"} /\ ending' = ending
         \/ pc' = "close" /\ ending' = "fail"
  <2>1. mem' = mem \/ mem' = [mem EXCEPT !.i = mem.i + 1]
    BY DEF Records, CarryRecords
  <2>2. mem'.played = mem.played
    BY <2>1 DEF TypeOK, Memory
  <2> QED
    BY <2>2 DEF Records, CarryRecords, Local, Written, NotWritten, Ends, EndsEmpty, w
<1>4. RecipeOnce' /\ (Alive' => PlayedIn(mem.played)')
  BY <1>2, <1>3 DEF RecipeOnce, PlayedIn
<1>5. log' = w => (Active' => PlayedIn(log.recipes)' /\ log'.answer = "none")
  BY <1>1, <1>2, <1>3 DEF PlayedIn, Active
<1>6. ~round'.ran
  BY <1>3, NoRoundIs
<1>7. log' = log => (Active' /\ ~log'.open => PlayedIn(log.recipes)')
  BY <1>3 DEF PlaysOK, PlayedIn, Active
<1>8. log' = log => (Active' /\ log'.answer # "none" => log'.card \in Ask /\ Unplayed(log.card)')
  BY <1>3 DEF PlaysOK, Unplayed, Active
<1> QED
  BY <1>1, <1>2, <1>3, <1>4, <1>5, <1>6, <1>7, <1>8
  DEF PlaysOK, Active, Alive, Between, Carrying

LEMMA PlaysEnded ==
    ASSUME TypeOK, RoundOK, PlaysOK, RecipeOnce, Writes
    PROVE  PlaysOK' /\ RecipeOnce'
<1> DEFINE v == WithRound(log, round)
           w == WithEnding(log, round, ending, Card)
<1>1. /\ pc = "write" /\ plays' = plays /\ mem' = mem
      /\ \/ /\ ending = "park" /\ ending' = "stop" /\ UNCHANGED <<log, pc, round>>
         \/ /\ pc' = "down" /\ ending' = "none" /\ round' = NoRound /\ log' \in {log, w}
            /\ ~(ending = "park" /\ Ended)
  BY DEF Writes, Leaves, Local, Written, NotWritten
<1>2. ending \in {"finish", "fail", "stop", "park"}
  BY <1>1 DEF TypeOK, RoundOK
<1>3. CASE ending = "park" /\ ending' = "stop" /\ UNCHANGED <<log, pc, round>>
  BY <1>1, <1>3 DEF PlaysOK, RecipeOnce, PlayedIn, Unplayed, Active, Alive, Between, Carrying
<1>4. CASE pc' = "down" /\ ending' = "none" /\ round' = NoRound /\ log' = log
  BY <1>1, <1>4, NoRoundIs
  DEF PlaysOK, RecipeOnce, PlayedIn, Unplayed, Active, Alive, Between, Carrying
<1>5. CASE pc' = "down" /\ ending' = "none" /\ round' = NoRound /\ log' = w
           /\ ~(ending = "park" /\ Ended)
  <2>1. log.status \in {"running", "finished", "failed", "stopped"}
    BY <1>1 DEF TypeOK, LogState, Status, PlaysOK, Alive
  <2>2. /\ log.status = "running" =>
             /\ v.recipes = log.recipes \cup round.recipes /\ v.open = (log.open /\ ~round.ran)
        /\ log.status \in {"finished", "failed"} => w = log
        /\ log.status = "stopped" => w.status = "stopped"
        /\ log.status \in {"running", "awaiting"} =>
              /\ ending = "park" => w.status = "awaiting" /\ w.card = Card
              /\ ending # "park" => w.status \in {"failed", "finished"}
              /\ w.recipes = v.recipes /\ w.open = v.open
    <3>1. log \in LogState /\ round \in RoundState /\ Card \in Ask \cup {NoAsk}
      BY CardIs DEF TypeOK
    <3>2. log.status = "running" =>
             v.recipes = log.recipes \cup round.recipes /\ v.open = (log.open /\ ~round.ran)
      BY <3>1, WithRoundIs
    <3>3. /\ log.status \in {"finished", "failed"} => w = log
          /\ log.status = "stopped" => w.status = "stopped"
          /\ log.status \in {"running", "awaiting"} =>
                /\ ending = "park" => w.status = "awaiting" /\ w.card = Card
                /\ ending # "park" => w.status \in {"failed", "finished"}
                /\ w.recipes = v.recipes /\ w.open = v.open
      BY <1>2, <3>1, WithEndingIs
    <3> QED
      BY <3>2, <3>3
  <2>3. ending = "park" => round.ran /\ Card \in Ask /\ Unplayed(Card) /\ log.status = "running"
    BY <1>5, <2>1, CardIs DEF RoundOK, PlaysOK, Ended, Over
  <2> HIDE DEF v, w
  <2>4. log'.status = "awaiting" =>
          ~Alive' /\ ~log'.open /\ log'.card \in Ask /\ Unplayed(log.card)'
          /\ PlayedIn(log.recipes)'
    BY <1>1, <1>5, <2>1, <2>2, <2>3 DEF PlaysOK, Alive, Active, PlayedIn, Unplayed
  <2>5. ~Active' /\ ~round'.ran /\ RecipeOnce'
    BY <1>1, <1>5, <2>1, <2>2, NoRoundIs DEF Active, RecipeOnce
  <2> QED
    BY <1>5, <2>4, <2>5 DEF PlaysOK, Alive, Active, Between, Carrying
<1> QED
  BY <1>1, <1>3, <1>4, <1>5

\* Steps of the loop that play nothing and write at most that tools are starting.
LEMMA PlaysMoves ==
    ASSUME TypeOK, RoundOK, PlaysOK, RecipeOnce,
           \/ Opens \/ Top \/ AsksModel \/ ModelAnswers \/ Considers \/ Starts
           \/ WrapsUp \/ LastCall \/ Closes \/ Carries \/ CarryStarts
    PROVE  PlaysOK' /\ RecipeOnce'
<1> USE DEF PlaysOK, RecipeOnce, PlayedIn, Unplayed, Active, Alive, Between, Carrying
<1>1. CASE Opens \/ Top
  <2>1. /\ UNCHANGED <<log, mem, plays>> /\ ending = "none" /\ pc \in {"open", "top"}
        /\ round' = NoRound
        /\ \/ pc' \in {"top", "ask", "budget"} /\ ending' = ending
           \/ pc' = "close" /\ ending' \in {"fail", "stop"}
    BY <1>1 DEF Opens, Top, Local, Written, NotWritten, Ends, EndsEmpty, RoundOK
  <2> QED
    BY <2>1, NoRoundIs
<1>2. CASE ModelAnswers
  <2>1. mem' = mem \/ mem' = [mem EXCEPT !.any_delta = TRUE]
    BY <1>2 DEF ModelAnswers
  <2>2. mem'.played = mem.played
    BY <2>1 DEF TypeOK, Memory
  <2>3. /\ log' = log /\ plays' = plays /\ pc = "model" /\ ending = "none"
        /\ \/ pc' = "close" /\ ending' \in {"fail", "finish", "stop"} /\ round' = round
           \/ pc' = "calls" /\ ending' = ending /\ ~round'.ran
    <3>1. \A s \in Completions : ~[NoRound EXCEPT !.calls = s].ran
      BY CompletionsAre, AskedIs
    <3> QED
      BY <1>2, <3>1 DEF ModelAnswers, Local, Ends, RoundOK
  <2> QED
    BY <2>2, <2>3
<1>3. CASE Considers
  <2>1. /\ UNCHANGED <<log, mem, round, plays>> /\ pc = "calls" /\ ending = "none"
        /\ \/ pc' = "close" /\ ending' \in {"stop", "finish"}
           \/ pc' = "start" /\ ending' = ending
           \/ pc' = "world" /\ ending' = ending /\ \A k \in Ks : LoopAnswered(k)
    BY <1>3 DEF Considers, Local, Ends, RoundOK
  <2>2. pc' = "world" => \A k \in Ks' : LoopAnswered(k)'
    BY <2>1, SameAnswered
  <2> QED
    BY <2>1, <2>2
<1>4. CASE Starts
  <2>1. /\ UNCHANGED <<mem, round, plays>> /\ pc = "start" /\ ending = "none"
        /\ \/ log' = log /\ pc' = "close" /\ ending' \in {"stop", "fail"}
           \/ /\ log' = [log EXCEPT !.open = TRUE]
              /\ \/ pc' = "world" /\ ending' = ending
                 \/ pc' = "close" /\ ending' = "fail"
    BY <1>4 DEF Starts, StartsTools, Local, Ends, RoundOK, Written, NotWritten
  <2>2. /\ log'.status = log.status /\ log'.recipes = log.recipes /\ log'.card = log.card
        /\ log'.answer = log.answer /\ (log' = log \/ log'.open)
        /\ pc' = "world" => log'.open
    BY <2>1 DEF TypeOK, LogState
  <2> QED
    BY <2>1, <2>2
<1>5. CASE CarryStarts
  <2>1. /\ UNCHANGED <<mem, round, plays>> /\ pc = "carrystart" /\ ending = "none"
        /\ \/ log' = log /\ pc' = "close" /\ ending' \in {"stop", "fail"}
           \/ /\ log' = [log EXCEPT !.open = TRUE, !.answer = "none"]
              /\ \/ pc' = "carryworld" /\ ending' = ending
                 \/ pc' = "close" /\ ending' = "fail"
    BY <1>5 DEF CarryStarts, StartsTools, Local, Ends, RoundOK, Written, NotWritten
  <2>2. /\ log'.status = log.status /\ log'.recipes = log.recipes /\ log'.card = log.card
        /\ (log' = log \/ (log'.open /\ log'.answer = "none"))
        /\ pc' = "carryworld" => log'.open /\ log'.answer = "none"
    <3>1. CASE log' = log /\ pc' = "close"
      BY <3>1
    <3>2. CASE log' = [log EXCEPT !.open = TRUE, !.answer = "none"]
      <4>1. log \in LogState
        BY DEF TypeOK
      <4> QED
        BY <3>2, <4>1 DEF LogState
    <3> QED
      BY <2>1, <3>1, <3>2
  <2>3. Calls' = Calls
    BY <2>1 DEF Calls
  <2> QED
    BY <2>1, <2>2, <2>3
<1>6. CASE AsksModel \/ WrapsUp \/ LastCall
  BY <1>6 DEF AsksModel, WrapsUp, LastCall, Local, Ends, RoundOK
<1>7. CASE Closes
  <2>1. /\ UNCHANGED <<log, mem, round, plays>> /\ pc = "close" /\ pc' = "write"
        /\ ending' \in {ending, "stop"}
    BY <1>7 DEF Closes, Local
  <2>2. ending' = ending => Card' = Card
    BY <2>1, SameAnswered
  <2> QED
    BY <2>1, <2>2
<1>8. CASE Carries
  <2>1. /\ UNCHANGED <<log, mem, plays>> /\ pc = "carry" /\ ending = "none" /\ ~round.ran
        /\ round.recipes = {}
        /\ \/ pc' = "close" /\ ending' = "stop" /\ round' = NoRound
           \/ /\ pc' = "carried" /\ ending' = ending
              /\ round' = [round EXCEPT !.outs = <<"refused">>, !.ran = TRUE]
           \/ pc' = "carrystart" /\ ending' = ending /\ round' = round
    BY <1>8 DEF Carries, EndsEmpty, Ends, Local, RoundOK
  <2>2. round'.ran => round'.recipes = {}
    BY <2>1, NoRoundIs, RefusedIs DEF TypeOK
  <2>3. pc' = "carrystart" => Calls' = Calls
    BY <2>1 DEF Calls
  <2>4. Active => PlayedIn(log.recipes)
    BY <2>1
  <2> QED
    BY <2>1, <2>2, <2>3, <2>4, NoRoundIs
<1> QED
  BY <1>1, <1>2, <1>3, <1>4, <1>5, <1>6, <1>7, <1>8

\* Those who take a run over carry on with what is on record as played.
LEMMA PlaysOthers ==
    ASSUME TypeOK, RoundOK, PlaysOK, RecipeOnce,
           Resumes \/ SweepFails \/ Stops \/ Crashes \/ \E yes \in BOOLEAN : Answers(yes)
    PROVE  PlaysOK' /\ RecipeOnce'
<1> USE DEF PlaysOK, RecipeOnce, PlayedIn, Unplayed, Active, Alive, Between, Carrying
<1>0. log \in LogState /\ log.recipes \in SUBSET Recipe /\ log.spoken \in Nat
      /\ log.computer \in Nat /\ 0 \in Nat
  BY DEF TypeOK, LogState
<1>1. ASSUME NEW yes \in BOOLEAN, Answers(yes)
      PROVE  PlaysOK' /\ RecipeOnce'
  <2> DEFINE a == IF yes THEN "yes" ELSE "no"
  <2>1. /\ log' = [log EXCEPT !.status = "running", !.answer = a]
        /\ log.status = "awaiting" /\ pc = "down" /\ plays' = plays /\ ending' = ending
        /\ ending = "none" /\ round = NoRound
        /\ \/ pc' = "down" /\ round' = round
           \/ /\ pc' = "carry" /\ round' = [NoRound EXCEPT !.calls = <<log.card>>]
              /\ mem' = Fresh(0, 0, log.recipes)
    BY <1>1 DEF Answers, Segment, RoundOK
  <2> HIDE DEF a
  <2>2. /\ log'.status = "running" /\ log'.recipes = log.recipes /\ log'.card = log.card
        /\ log'.open = log.open
    BY <1>0, <2>1 DEF LogState
  <2>3. log.card \in Ask /\ Unplayed(log.card) /\ ~log.open /\ PlayedIn(log.recipes)
    BY <2>1
  <2>4. CASE pc' = "carry"
    <3>1. mem'.played = log.recipes
      BY <1>0, <2>1, <2>4, FreshIs
    <3>2. <<log.card>> \in Seq(Ask) /\ <<log.card>>[1] = log.card
      BY <2>3
    <3>3. ~round'.ran /\ Calls'[1] = log.card
      BY <2>1, <2>4, <3>2, AskedIs DEF Calls
    <3> QED
      BY <2>1, <2>2, <2>3, <2>4, <3>1, <3>3
  <2>5. CASE pc' = "down"
    BY <2>1, <2>2, <2>3, <2>5, NoRoundIs
  <2> QED
    BY <2>1, <2>4, <2>5
<1>2. CASE Resumes
  <2>1. /\ log' = [log EXCEPT !.generation = log.generation + 1]
        /\ log.status = "running" /\ ~log.open /\ pc = "down" /\ plays' = plays
        /\ ending' = ending /\ ending = "none"
        /\ \/ /\ log.answer = "none" /\ pc' = "top" /\ round' = [NoRound EXCEPT !.calls = <<>>]
              /\ mem' = Fresh(log.spoken, log.computer, log.recipes)
           \/ /\ log.answer # "none"
              /\ pc' = "carry" /\ round' = [NoRound EXCEPT !.calls = <<log.card>>]
              /\ mem' = Fresh(0, 0, log.recipes)
    BY <1>2 DEF Resumes, Segment, RoundOK
  <2>2. /\ log'.status = "running" /\ log'.recipes = log.recipes /\ log'.card = log.card
        /\ log'.open = log.open /\ log'.answer = log.answer
    BY <1>0, <2>1 DEF LogState
  <2>3. PlayedIn(log.recipes) /\ mem'.played = log.recipes
    <3>1. /\ Fresh(0, 0, log.recipes).played = log.recipes
          /\ Fresh(log.spoken, log.computer, log.recipes).played = log.recipes
      BY <1>0, FreshIs
    <3> QED
      BY <2>1, <3>1
  <2>4. CASE pc' = "carry"
    <3>1. log.card \in Ask /\ Unplayed(log.card)
      BY <2>1, <2>4
    <3>2. <<log.card>> \in Seq(Ask) /\ <<log.card>>[1] = log.card
      BY <3>1
    <3>3. ~round'.ran /\ Calls'[1] = log.card
      BY <2>1, <2>4, <3>2, AskedIs DEF Calls
    <3> QED
      BY <2>1, <2>2, <2>3, <2>4, <3>1, <3>3
  <2>5. CASE pc' = "top"
    <3>1. ~round'.ran
      <4>1. <<>> \in Seq(Ask)
        OBVIOUS
      <4> QED
        BY <2>1, <2>5, <4>1, AskedIs
    <3> QED
      BY <2>1, <2>2, <2>3, <2>5, <3>1
  <2> QED
    BY <2>1, <2>4, <2>5
<1>3. CASE SweepFails \/ Stops
  <2>1. /\ UNCHANGED <<pc, mem, round, ending, plays>>
        /\ log' = [log EXCEPT !.status = "failed"] \/ log' = [log EXCEPT !.status = "stopped", !.card = NoAsk]
    BY <1>3 DEF SweepFails, Stops
  <2>2. log'.status \in {"failed", "stopped"}
    BY <1>0, <2>1 DEF LogState
  <2>3. ending' = "park" => Card' = Card
    BY <2>1, SameAnswered
  <2>4. Calls' = Calls
    BY <2>1 DEF Calls
  <2> QED
    BY <2>1, <2>2, <2>3, <2>4
<1>4. CASE Crashes
  BY <1>4, NoRoundIs DEF Crashes
<1> QED
  BY <1>1, <1>2, <1>3, <1>4

LEMMA PlaysStep ==
    ASSUME TypeOK, RoundOK, PlaysOK, RecipeOnce, Next
    PROVE  PlaysOK' /\ RecipeOnce'
BY PlaysRuns, PlaysCarryRuns, PlaysWritten, PlaysEnded, PlaysMoves, PlaysOthers DEF Next, Loop

-----------------------------------------------------------------------------
(* The counts.                                                              *)

\* Where the loop goes on without counting, the counts stand.
LEMMA CountsStand ==
    ASSUME TypeOK, CountsOK, RoundsAreBounded,
           rounds' = rounds, carried' = carried,
           mem'.i = mem.i, mem'.spoken = mem.spoken, mem'.computer = mem.computer,
           log'.spoken + log'.computer = log.spoken + log.computer,
           log'.generation = log.generation,
           Active' => Active, Active' /\ log'.answer # "none" => log.answer # "none",
           round'.kind \in {"none", round.kind},
           pc' \in Between => pc \in Between, pc' # "record",
           pc' \in Carrying \cup {"carried"} => pc \in Carrying \cup {"carried"}
    PROVE  CountsOK' /\ RoundsAreBounded'
<1>1. /\ log.spoken \in Nat /\ log.computer \in Nat /\ log.generation \in Nat
      /\ mem.spoken \in Nat /\ mem.computer \in Nat /\ mem.i \in Nat
      /\ rounds \in Nat /\ carried \in Nat /\ MaxRounds \in Nat /\ MaxComputerRounds \in Nat
  BY BudgetAssumption DEF TypeOK, LogState, Memory
<1>2. OverBudget(mem)' <=> OverBudget(mem)
  BY DEF OverBudget
<1>3. RoundsAreBounded'
  BY DEF RoundsAreBounded
<1>4. log'.spoken + log'.computer + (IF round'.kind = "none" THEN 0 ELSE 1) <= carried
  BY <1>1 DEF CountsOK
<1>5. pc' \in Between =>
         /\ rounds <= MaxRounds + MaxComputerRounds - 2 + log.generation
         /\ mem.i <= mem.spoken + mem.computer
         /\ mem.i > 0 => ~OverBudget(mem)
  BY <1>1 DEF CountsOK
<1>6. pc' \in Between => rounds <= mem.spoken + mem.computer + log.generation
  <2>1. CASE pc \in Carrying \cup {"carried"}
    BY <1>1, <2>1 DEF CountsOK
  <2>2. CASE pc \notin Carrying \cup {"carried"}
    BY <2>2 DEF CountsOK
  <2> QED
    BY <2>1, <2>2
<1>7. Active' => rounds <= log.spoken + log.computer + log.generation
                           + (IF pc' \in Between THEN 0 ELSE 1)
  BY <1>1 DEF CountsOK
<1>8. /\ pc' \in Carrying \cup {"carried"} => rounds = 0
      /\ Active' /\ log'.answer # "none" => rounds = 0
  BY DEF CountsOK
<1> QED
  BY <1>1, <1>2, <1>3, <1>4, <1>5, <1>6, <1>7, <1>8 DEF CountsOK

\* A round carried out is one more, and has spent one unit of one budget.
LEMMA CountsRuns ==
    ASSUME TypeOK, RoundOK, PlaysOK, CountsOK, RoundsAreBounded, Runs
    PROVE  CountsOK' /\ RoundsAreBounded'
<1>1. /\ mem' \in Memory /\ mem'.i = mem.i
      /\ carried' = carried + 1 /\ rounds' = rounds + 1
      /\ \/ /\ pc' = "close" /\ round'.kind = "none"
         \/ /\ pc' \in {"close", "record"} /\ round'.kind \in {"spoken", "computer"}
            /\ mem'.spoken + mem'.computer = mem.spoken + mem.computer + 1
  BY RunsIs
<1>2. pc = "world" /\ log' = log /\ round.kind = "none" /\ (Active => log.answer = "none")
  BY DEF Runs, RoundOK, PlaysOK
<1>3. /\ log.spoken \in Nat /\ log.computer \in Nat /\ log.generation \in Nat
      /\ mem.spoken \in Nat /\ mem.computer \in Nat /\ mem.i \in Nat
      /\ rounds \in Nat /\ carried \in Nat /\ MaxRounds \in Nat /\ MaxComputerRounds \in Nat
      /\ mem'.spoken \in Nat /\ mem'.computer \in Nat
  BY <1>1, BudgetAssumption DEF TypeOK, LogState, Memory
<1>4. /\ rounds <= MaxRounds + MaxComputerRounds - 2 + log.generation
      /\ rounds <= mem.spoken + mem.computer + log.generation
      /\ log.spoken + log.computer <= carried
      /\ Active => rounds <= log.spoken + log.computer + log.generation
      /\ mem.i <= mem.spoken + mem.computer
  <2>1. pc \in Between /\ pc \in (Between \ (Carrying \cup {"carried"})) \cup {"record"}
    BY <1>2 DEF Between, Carrying
  <2> QED
    BY <1>2, <1>3, <2>1 DEF CountsOK
<1>5. RoundsAreBounded'
  BY <1>1, <1>2, <1>3, <1>4 DEF RoundsAreBounded
<1>6. log.spoken + log.computer + (IF round'.kind = "none" THEN 0 ELSE 1) <= carried'
  BY <1>1, <1>3, <1>4
<1>7. pc' = "record" => /\ rounds' <= mem'.spoken + mem'.computer + log.generation
                        /\ mem'.i + 1 <= mem'.spoken + mem'.computer
  BY <1>1, <1>3, <1>4
<1>8. Active' => rounds' <= log.spoken + log.computer + log.generation + 1
  BY <1>1, <1>2, <1>3, <1>4 DEF Active
<1>9. pc' \in {"close", "record"} /\ (Active' => log'.answer = "none")
  BY <1>1, <1>2 DEF Active
<1> QED
  BY <1>2, <1>5, <1>6, <1>7, <1>8, <1>9 DEF CountsOK, Between, Carrying

\* A round written is counted by the log, and the loop goes on within its budgets.
LEMMA CountsRecords ==
    ASSUME TypeOK, RoundOK, PlaysOK, CountsOK, RoundsAreBounded, Records
    PROVE  CountsOK' /\ RoundsAreBounded'
<1> DEFINE w == WithRound(log, round)
<1>1. /\ w.status = log.status /\ w.generation = log.generation
      /\ w.spoken + w.computer <= log.spoken + log.computer + 1
      /\ log.status = "running" => w.spoken + w.computer = log.spoken + log.computer + 1
      /\ w \in LogState
      /\ round.kind # "none" /\ pc = "record"
  <2>1. round.kind # "none" /\ pc = "record" /\ log \in LogState /\ round \in RoundState
    BY DEF Records, RoundOK, TypeOK
  <2> QED
    BY <2>1, WithRoundIs
<1> HIDE DEF w
<1>2. /\ round' = NoRound /\ rounds' = rounds /\ carried' = carried
      /\ log' \in {log, w}
      /\ \/ /\ log' = w /\ pc' = "top" /\ ~OverBudget(mem) /\ mem' = [mem EXCEPT !.i = mem.i + 1]
         \/ log' \in {log, w} /\ pc' \in {"budget", "close"} /\ mem' = mem
  BY DEF Records, Local, Written, NotWritten, Ends, EndsEmpty, w
<1>3. /\ log.spoken \in Nat /\ log.computer \in Nat /\ log.generation \in Nat
      /\ w.spoken \in Nat /\ w.computer \in Nat
      /\ mem.spoken \in Nat /\ mem.computer \in Nat /\ mem.i \in Nat
      /\ rounds \in Nat /\ carried \in Nat /\ MaxRounds \in Nat /\ MaxComputerRounds \in Nat
  BY <1>1, BudgetAssumption DEF TypeOK, LogState, Memory
<1>4. /\ rounds <= mem.spoken + mem.computer + log.generation
      /\ log.spoken + log.computer + 1 <= carried
      /\ Active => rounds <= log.spoken + log.computer + log.generation + 1
      /\ mem.i + 1 <= mem.spoken + mem.computer
      /\ Active => log.answer = "none"
  BY <1>1, <1>3 DEF CountsOK, Between, Carrying, PlaysOK
<1>5. log'.generation = log.generation /\ (Active' => Active) /\ round'.kind = "none"
      /\ (Active => w.answer = "none")
  <2>1. Active => w.answer = "none"
    <3>1. round.ran /\ log \in LogState /\ round \in RoundState
      BY <1>1 DEF RoundOK, TypeOK
    <3> QED
      BY <3>1, WithRoundIs DEF w, Active
  <2> QED
    BY <1>1, <1>2, <2>1, NoRoundIs DEF Active
<1>6. RoundsAreBounded'
  BY <1>2, <1>5 DEF RoundsAreBounded
<1>7. log'.spoken + log'.computer <= carried
  BY <1>1, <1>2, <1>3, <1>4
<1>8. Active' => log'.answer = "none"
  BY <1>2, <1>4, <1>5 DEF Active
<1>9. CASE log' = w /\ pc' = "top" /\ ~OverBudget(mem) /\ mem' = [mem EXCEPT !.i = mem.i + 1]
  <2>1. mem'.i = mem.i + 1 /\ mem'.spoken = mem.spoken /\ mem'.computer = mem.computer
    BY <1>9 DEF TypeOK, Memory
  <2>2. ~OverBudget(mem)'
    BY <1>9, <2>1 DEF OverBudget
  <2>3. rounds <= MaxRounds + MaxComputerRounds - 2 + log.generation
    <3>1. mem.spoken <= MaxRounds - 1 /\ mem.computer <= MaxComputerRounds - 1
      BY <1>3, <1>9 DEF OverBudget
    <3> QED
      BY <1>3, <1>4, <3>1
  <2>4. Active' => rounds <= log'.spoken + log'.computer + log.generation
    BY <1>1, <1>3, <1>4, <1>5, <1>9 DEF Active
  <2> QED
    BY <1>2, <1>3, <1>4, <1>5, <1>6, <1>7, <1>8, <1>9, <2>1, <2>2, <2>3, <2>4
    DEF CountsOK, Between, Carrying
<1>10. CASE log' \in {log, w} /\ pc' \in {"budget", "close"} /\ mem' = mem
  <2>1. Active' => rounds <= log'.spoken + log'.computer + log.generation + 1
    BY <1>1, <1>3, <1>4, <1>5, <1>10 DEF Active
  <2> QED
    BY <1>2, <1>3, <1>5, <1>6, <1>7, <1>8, <1>10, <2>1 DEF CountsOK, Between, Carrying
<1> QED
  BY <1>2, <1>9, <1>10

\* The rest of the loop counts nothing.
LEMMA CountsMoves ==
    ASSUME TypeOK, RoundOK, PlaysOK, CountsOK, RoundsAreBounded, Loop, ~Runs, ~Records
    PROVE  CountsOK' /\ RoundsAreBounded'
<1>0. log \in LogState /\ mem \in Memory /\ round \in RoundState
  BY DEF TypeOK
<1>1. CASE Opens \/ Top \/ AsksModel \/ WrapsUp \/ LastCall \/ Closes
  <2>1. /\ rounds' = rounds /\ carried' = carried /\ mem' = mem /\ log' = log
        /\ round' \in {round, NoRound}
        /\ pc' \in Between => pc \in Between
        /\ pc' # "record" /\ pc' \notin Carrying \cup {"carried"}
    BY <1>1 DEF Opens, Top, AsksModel, WrapsUp, LastCall, Closes, Local, Written, NotWritten,
                Ends, EndsEmpty, Between, Carrying
  <2> QED
    BY <2>1, CountsStand, NoRoundIs DEF Active
<1>2. CASE ModelAnswers
  <2>1. /\ rounds' = rounds /\ carried' = carried /\ log' = log /\ pc = "model"
        /\ mem' = mem \/ mem' = [mem EXCEPT !.any_delta = TRUE]
        /\ round' = round \/ \E s \in Completions : round' = [NoRound EXCEPT !.calls = s]
        /\ pc' \in {"calls", "close"}
    BY <1>2 DEF ModelAnswers, Local, Ends
  <2>2. mem'.i = mem.i /\ mem'.spoken = mem.spoken /\ mem'.computer = mem.computer
    BY <1>0, <2>1 DEF Memory
  <2>3. round'.kind \in {"none", round.kind}
    BY <2>1, CompletionsAre, AskedIs
  <2>4. (pc' \in Between => pc \in Between) /\ pc' # "record"
        /\ pc' \notin Carrying \cup {"carried"}
    BY <2>1 DEF Between, Carrying
  <2> QED
    BY <2>1, <2>2, <2>3, <2>4, CountsStand DEF Active
<1>3. CASE Considers
  <2>1. /\ rounds' = rounds /\ carried' = carried /\ mem' = mem /\ log' = log /\ round' = round
        /\ pc' \in {"close", "world", "start"} /\ pc = "calls"
    BY <1>3 DEF Considers, Local, Ends
  <2>2. (pc' \in Between => pc \in Between) /\ pc' # "record"
        /\ pc' \notin Carrying \cup {"carried"}
    BY <2>1 DEF Between, Carrying
  <2> QED
    BY <2>1, <2>2, CountsStand DEF Active
<1>4. CASE Starts \/ CarryStarts
  <2>1. /\ rounds' = rounds /\ carried' = carried /\ mem' = mem /\ round' = round
        /\ \/ log' = log
           \/ log' = [log EXCEPT !.open = TRUE]
           \/ log' = [log EXCEPT !.open = TRUE, !.answer = "none"]
        /\ \/ pc = "start" /\ pc' \in {"close", "world"}
           \/ pc = "carrystart" /\ pc' \in {"close", "carryworld"}
    BY <1>4 DEF Starts, CarryStarts, StartsTools, Local, Ends, Written, NotWritten
  <2>2. /\ log'.spoken = log.spoken /\ log'.computer = log.computer
        /\ log'.generation = log.generation /\ log'.status = log.status
        /\ log'.answer \in {log.answer, "none"}
    <3>1. CASE log' = log
      BY <3>1
    <3>2. CASE log' = [log EXCEPT !.open = TRUE]
      BY <1>0, <3>2 DEF LogState
    <3>3. CASE log' = [log EXCEPT !.open = TRUE, !.answer = "none"]
      BY <1>0, <3>3 DEF LogState
    <3> QED
      BY <2>1, <3>1, <3>2, <3>3
  <2>3. (pc' \in Between => pc \in Between) /\ pc' # "record"
        /\ (pc' \in Carrying \cup {"carried"} => pc \in Carrying \cup {"carried"})
    BY <2>1 DEF Between, Carrying
  <2> QED
    BY <2>1, <2>2, <2>3, CountsStand DEF Active
<1>5. CASE Carries
  <2>1. /\ rounds' = rounds /\ carried' = carried /\ mem' = mem /\ log' = log
        /\ \/ round' \in {round, NoRound}
           \/ round' = [round EXCEPT !.outs = <<"refused">>, !.ran = TRUE]
        /\ pc' \in {"close", "carried", "carrystart"} /\ pc = "carry"
    BY <1>5 DEF Carries, EndsEmpty, Ends, Local
  <2>2. round'.kind \in {"none", round.kind}
    BY <1>0, <2>1, NoRoundIs, RefusedIs
  <2>3. (pc' \in Between => pc \in Between) /\ pc' # "record"
        /\ (pc' \in Carrying \cup {"carried"} => pc \in Carrying \cup {"carried"})
    BY <2>1 DEF Between, Carrying
  <2> QED
    BY <2>1, <2>2, <2>3, CountsStand DEF Active
<1>6. CASE CarryRuns
  <2>1. /\ rounds' = rounds /\ carried' = carried /\ log' = log /\ pc = "carryworld"
        /\ mem'.i = mem.i /\ mem'.spoken = mem.spoken /\ mem'.computer = mem.computer
        /\ round'.kind = "none" /\ pc' \in {"close", "carried"}
    BY <1>6, CarryRunsIs DEF CarryRuns
  <2>2. (pc' \in Between => pc \in Between) /\ pc' # "record"
        /\ (pc' \in Carrying \cup {"carried"} => pc \in Carrying \cup {"carried"})
    BY <2>1 DEF Between, Carrying
  <2> QED
    BY <2>1, <2>2, CountsStand DEF Active
<1>7. CASE CarryRecords
  <2> DEFINE w == WithRound(log, round)
  <2>1. /\ rounds' = rounds /\ carried' = carried /\ mem' = mem /\ pc = "carried"
        /\ log' \in {log, w} /\ round' = NoRound /\ pc' \in {"top", "close"}
    BY <1>7 DEF CarryRecords, Local, Written, NotWritten, Ends, EndsEmpty
  <2>2. round.kind = "none" /\ round.ran
    BY <2>1 DEF RoundOK
  <2>3. /\ w.status = log.status /\ w.generation = log.generation
        /\ w.spoken + w.computer = log.spoken + log.computer
        /\ log.status = "running" => w.answer = "none"
    BY <1>0, <2>2, WithRoundIs
  <2> HIDE DEF w
  <2>4. (pc' \in Between => pc \in Between) /\ pc' # "record"
        /\ (pc' \in Carrying \cup {"carried"} => pc \in Carrying \cup {"carried"})
    BY <2>1 DEF Between, Carrying
  <2>5. /\ log'.spoken + log'.computer = log.spoken + log.computer
        /\ log'.generation = log.generation /\ (Active' => Active)
        /\ (Active' /\ log'.answer # "none" => log.answer # "none")
    BY <2>1, <2>3 DEF Active
  <2> QED
    BY <2>1, <2>4, <2>5, CountsStand, NoRoundIs
<1>8. CASE Writes
  <2> DEFINE v == WithRound(log, round)
             w == WithEnding(log, round, ending, Card)
  <2>1. /\ rounds' = rounds /\ carried' = carried /\ mem' = mem /\ pc = "write"
        /\ \/ UNCHANGED <<log, pc, round>>
           \/ log' = log /\ pc' = "down" /\ round' = NoRound
           \/ log' = w /\ pc' = "down" /\ round' = NoRound
    BY <1>8 DEF Writes, Leaves, Local, Written, NotWritten
  <2>2. CASE log' = log
    <3>1. (pc' \in Between => pc \in Between) /\ pc' # "record"
          /\ (pc' \in Carrying \cup {"carried"} => pc \in Carrying \cup {"carried"})
          /\ round' \in {round, NoRound}
      BY <2>1 DEF Between, Carrying
    <3> QED
      BY <2>1, <2>2, <3>1, CountsStand, NoRoundIs DEF Active
  <2>3. CASE log' = w /\ pc' = "down" /\ round' = NoRound
    <3>1. ending \in {"finish", "fail", "stop", "park"} /\ Card \in Ask \cup {NoAsk}
      BY <2>1, CardIs DEF TypeOK, RoundOK
    <3>2. /\ w \in LogState /\ w.generation = log.generation
          /\ w.spoken = v.spoken /\ w.computer = v.computer
          /\ log.status \in {"finished", "failed"} => w = log
          /\ log.status = "stopped" => w.status = "stopped"
          /\ log.status \in {"running", "awaiting"} => w.status # "running"
      BY <1>0, <3>1, WithEndingIs
    <3>3. /\ v.spoken + v.computer <= log.spoken + log.computer + (IF round.kind = "none" THEN 0 ELSE 1)
          /\ v \in LogState
      BY <1>0, WithRoundIs
    <3> HIDE DEF v, w
    <3>4. ~Active'
      BY <1>0, <2>3, <3>2 DEF Active, LogState, Status
    <3>5. log'.spoken + log'.computer <= carried
      <4>1. /\ log.spoken \in Nat /\ log.computer \in Nat /\ carried \in Nat
            /\ v.spoken \in Nat /\ v.computer \in Nat
        BY <3>3 DEF TypeOK, LogState
      <4>2. log.spoken + log.computer + (IF round.kind = "none" THEN 0 ELSE 1) <= carried
        BY DEF CountsOK
      <4> QED
        BY <2>3, <3>2, <3>3, <4>1, <4>2
    <3>6. RoundsAreBounded'
      BY <2>1, <2>3, <3>2 DEF RoundsAreBounded
    <3>7. log'.spoken \in Nat /\ log'.computer \in Nat
      BY <2>3, <3>2 DEF LogState
    <3> QED
      BY <2>1, <2>3, <3>4, <3>5, <3>6, <3>7, NoRoundIs DEF CountsOK, Between, Carrying
  <2> QED
    BY <2>1, <2>2, <2>3
<1> QED
  BY <1>1, <1>2, <1>3, <1>4, <1>5, <1>6, <1>7, <1>8 DEF Loop

\* A card answered starts the counts anew, and a run carried on may lose one round.
LEMMA CountsOthers ==
    ASSUME TypeOK, RoundOK, PlaysOK, CountsOK, RoundsAreBounded,
           Resumes \/ SweepFails \/ Stops \/ Crashes \/ \E yes \in BOOLEAN : Answers(yes)
    PROVE  CountsOK' /\ RoundsAreBounded'
<1>0. /\ log \in LogState /\ log.recipes \in SUBSET Recipe
      /\ log.spoken \in Nat /\ log.computer \in Nat /\ log.generation \in Nat
      /\ rounds \in Nat /\ carried \in Nat
      /\ MaxRounds \in Nat \ {0} /\ MaxComputerRounds \in Nat \ {0} /\ 0 \in Nat
  BY BudgetAssumption DEF TypeOK, LogState
<1>1. CASE SweepFails \/ Stops \/ Crashes
  <2>1. /\ rounds' = rounds /\ carried' = carried /\ mem' = mem
        /\ \/ log' = log
           \/ log' = [log EXCEPT !.status = "failed"]
           \/ log' = [log EXCEPT !.status = "stopped", !.card = NoAsk]
        /\ \/ pc' = "down" /\ round' = NoRound
           \/ pc' = pc /\ round' = round /\ log' # log
    <3>1. CASE SweepFails
      BY <1>0, <3>1 DEF SweepFails, LogState
    <3>2. CASE Stops
      BY <1>0, <3>2 DEF Stops, LogState, Ended, Over
    <3>3. CASE Crashes
      BY <3>3 DEF Crashes
    <3> QED
      BY <1>1, <3>1, <3>2, <3>3
  <2>2. /\ log'.spoken = log.spoken /\ log'.computer = log.computer
        /\ log'.generation = log.generation
        /\ log' = log \/ log'.status \in {"failed", "stopped"}
    BY <1>0, <2>1 DEF LogState
  <2>3. CASE pc' = "down"
    <3>1. (pc' \in Between => pc \in Between) /\ pc' # "record"
          /\ (pc' \in Carrying \cup {"carried"} => pc \in Carrying \cup {"carried"})
      BY <2>3 DEF Between, Carrying
    <3>2. (Active' => Active) /\ (Active' /\ log'.answer # "none" => log.answer # "none")
      BY <2>2 DEF Active
    <3> QED
      BY <2>1, <2>2, <2>3, <3>1, <3>2, CountsStand, NoRoundIs
  <2>4. CASE pc' = pc /\ round' = round /\ log'.status \in {"failed", "stopped"}
    BY <2>1, <2>2, <2>4 DEF CountsOK, RoundsAreBounded, Active, OverBudget
  <2> QED
    BY <2>1, <2>2, <2>3, <2>4
<1>2. ASSUME NEW yes \in BOOLEAN, Answers(yes)
      PROVE  CountsOK' /\ RoundsAreBounded'
  <2> DEFINE a == IF yes THEN "yes" ELSE "no"
  <2>1. /\ log' = [log EXCEPT !.status = "running", !.answer = a]
        /\ rounds' = 0 /\ carried' = carried /\ pc = "down" /\ round = NoRound
        /\ \/ pc' = "down" /\ round' = round
           \/ /\ pc' = "carry" /\ round' = [NoRound EXCEPT !.calls = <<log.card>>]
              /\ mem' = Fresh(0, 0, log.recipes)
    BY <1>2 DEF Answers, Segment, RoundOK
  <2> HIDE DEF a
  <2>2. /\ log'.spoken = log.spoken /\ log'.computer = log.computer
        /\ log'.generation = log.generation
    BY <1>0, <2>1 DEF LogState
  <2>3. round'.kind = "none"
    <3>1. log.card \in Ask
      BY <1>2 DEF Answers, PlaysOK
    <3>2. <<log.card>> \in Seq(Ask)
      BY <3>1
    <3> QED
      BY <2>1, <3>2, NoRoundIs, AskedIs
  <2>4. log.spoken + log.computer <= carried
    BY <1>0, <2>1, NoRoundIs DEF CountsOK
  <2>5. pc' = "carry" => mem'.i = 0 /\ mem'.spoken = 0 /\ mem'.computer = 0
    BY <1>0, <2>1, FreshIs
  <2> QED
    BY <1>0, <2>1, <2>2, <2>3, <2>4, <2>5
    DEF CountsOK, RoundsAreBounded, Between, Carrying, OverBudget
<1>3. CASE Resumes
  <2>1. /\ log' = [log EXCEPT !.generation = log.generation + 1]
        /\ log.status = "running" /\ rounds' = rounds /\ carried' = carried
        /\ pc = "down" /\ round = NoRound
        /\ \/ /\ log.answer = "none" /\ pc' = "top" /\ round' = [NoRound EXCEPT !.calls = <<>>]
              /\ mem' = Fresh(log.spoken, log.computer, log.recipes)
           \/ /\ log.answer # "none"
              /\ pc' = "carry" /\ round' = [NoRound EXCEPT !.calls = <<log.card>>]
              /\ mem' = Fresh(0, 0, log.recipes)
    BY <1>3 DEF Resumes, Segment, RoundOK
  <2>2. /\ log'.spoken = log.spoken /\ log'.computer = log.computer
        /\ log'.generation = log.generation + 1 /\ log'.status = "running"
        /\ log'.answer = log.answer
    BY <1>0, <2>1 DEF LogState
  <2>3. round'.kind = "none"
    <3>1. log.answer # "none" => log.card \in Ask
      BY <2>1 DEF PlaysOK, Active
    <3>2. <<>> \in Seq(Ask) /\ (log.card \in Ask => <<log.card>> \in Seq(Ask))
      OBVIOUS
    <3> QED
      BY <2>1, <3>1, <3>2, AskedIs
  <2>4. /\ log.spoken + log.computer <= carried
        /\ rounds <= log.spoken + log.computer + log.generation + 1
        /\ rounds <= MaxRounds + MaxComputerRounds - 1 + log.generation
        /\ log.answer # "none" => rounds = 0
    <3>1. pc \notin Between
      BY <2>1 DEF Between, Carrying
    <3> QED
      BY <1>0, <2>1, <3>1, NoRoundIs DEF CountsOK, RoundsAreBounded, Active
  <2>5. /\ mem'.i = 0
        /\ pc' = "top" => mem'.spoken = log.spoken /\ mem'.computer = log.computer
        /\ pc' = "carry" => mem'.spoken = 0 /\ mem'.computer = 0
    <3>1. /\ Fresh(0, 0, log.recipes).i = 0 /\ Fresh(0, 0, log.recipes).spoken = 0
          /\ Fresh(0, 0, log.recipes).computer = 0
      BY <1>0, FreshIs
    <3>2. /\ Fresh(log.spoken, log.computer, log.recipes).i = 0
          /\ Fresh(log.spoken, log.computer, log.recipes).spoken = log.spoken
          /\ Fresh(log.spoken, log.computer, log.recipes).computer = log.computer
      BY <1>0, FreshIs
    <3> QED
      BY <2>1, <3>1, <3>2
  <2>6. RoundsAreBounded'
    BY <1>0, <2>1, <2>2, <2>4 DEF RoundsAreBounded
  <2>7. CASE pc' = "top"
    <3>0. /\ rounds \in Nat /\ log.spoken \in Nat /\ log.computer \in Nat
          /\ log.generation \in Nat /\ MaxRounds \in Nat /\ MaxComputerRounds \in Nat
      BY <1>0, BudgetAssumption DEF LogState
    <3>a. /\ mem'.spoken = log.spoken /\ mem'.computer = log.computer /\ mem'.i = 0
          /\ rounds' = rounds
      BY <2>1, <2>5, <2>7
    <3>b. rounds' <= MaxRounds + MaxComputerRounds - 2 + log'.generation
      BY <3>0, <3>a, <2>2, <2>4
    <3>c. rounds' <= log.spoken + log.computer + (log.generation + 1)
      BY <3>0, <3>a, <2>4
    <3>1. /\ rounds' <= MaxRounds + MaxComputerRounds - 2 + log'.generation
          /\ rounds' <= mem'.spoken + mem'.computer + log'.generation
          /\ rounds' <= log'.spoken + log'.computer + log'.generation
          /\ mem'.i <= mem'.spoken + mem'.computer /\ ~(mem'.i > 0)
      <4>1. rounds' <= mem'.spoken + mem'.computer + log'.generation
        BY <3>c, <3>a, <2>2
      <4>2. rounds' <= log'.spoken + log'.computer + log'.generation
        BY <3>c, <3>a, <2>2
      <4>3. mem'.i <= mem'.spoken + mem'.computer /\ ~(mem'.i > 0)
        BY <3>0, <3>a
      <4> QED
        BY <3>b, <4>1, <4>2, <4>3
    <3>2. log'.answer = "none" \/ rounds' = 0
      BY <2>1, <2>2, <2>4
    <3>3. log'.spoken + log'.computer + 0 <= carried'
      BY <1>0, <2>1, <2>2, <2>4
    <3> QED
      BY <1>0, <2>2, <2>3, <2>6, <2>7, <3>1, <3>2, <3>3 DEF CountsOK, Between, Carrying
  <2>8. CASE pc' = "carry"
    BY <1>0, <2>1, <2>2, <2>3, <2>4, <2>5, <2>6, <2>8 DEF CountsOK, Between, Carrying, OverBudget
  <2> QED
    BY <2>1, <2>7, <2>8
<1> QED
  BY <1>1, <1>2, <1>3

LEMMA CountsStep ==
    ASSUME TypeOK, RoundOK, PlaysOK, CountsOK, RoundsAreBounded, Next
    PROVE  CountsOK' /\ RoundsAreBounded'
BY CountsRuns, CountsRecords, CountsMoves, CountsOthers DEF Next

-----------------------------------------------------------------------------
(* What fails again and again.                                              *)

Going == Between \cup {"record"}

\* The streak a loop knows, and what failed, stand as they are.
LEMMA StuckStand ==
    ASSUME StuckOK, NotStuckForever, stuck' = stuck,
           mem'.streak = mem.streak, mem'.failed_key = mem.failed_key,
           pc' \in Going => pc \in Going
    PROVE  StuckOK' /\ NotStuckForever'
<1>1. pc' \in Going => pc # "down"
  BY DEF Going, Between, Carrying
<1>2. pc' \in Going => mem'.streak < MaxFailedRounds
  BY DEF StuckOK, Going
<1>3. pc' \in Going /\ stuck'.n > 0 =>
          /\ stuck'.n <= mem'.streak
          /\ stuck'.did[1] \in Seq(Ask) /\ stuck'.did[1] # <<>>
          /\ mem'.failed_key = stuck'.did[1][Len(stuck'.did[1])]
  BY <1>1 DEF StuckOK, Going, Alive
<1> QED
  BY <1>2, <1>3 DEF StuckOK, NotStuckForever, Going

\* A round in which every call failed at its work: all of it is failed work, what failed
\* last is the last call, nothing moved, and its streak says so.
LEMMA AllFailed ==
    ASSUME TypeOK, NEW outs \in Results, round.calls # <<>>,
           \A k \in Ks : WorkFailure(outs[k]) /\ outs[k] \notin {"argv", "waits"}
    PROVE  /\ FailedWork(outs) = Ks /\ Ks # {}
           /\ Calls[Latest(FailedWork(outs))] = Calls[Len(Calls)]
           /\ Streak(outs) >= 1
           /\ \/ Streak(outs) >= MaxFailedRounds
              \/ mem.failed_key = Calls[Len(Calls)] => Streak(outs) = mem.streak + 1
<1>1. Ks = 1..Len(Calls) /\ Len(Calls) \in Nat /\ \A k \in Ks : Calls[k] \in Ask
  BY CallsAre
<1>2. Len(Calls) # 0 /\ Len(Calls) \in Ks
  <2>1. round.calls \in Seq(Ask)
    BY DEF TypeOK, RoundState
  <2>2. Len(Calls) # 0
    BY <2>1 DEF Calls
  <2> QED
    BY <1>1, <2>2
<1>3. ASSUME NEW k \in Ks
      PROVE  Calls[k] \notin Paint
  <2>1. SUFFICES ASSUME Calls[k] \in Paint
                 PROVE  FALSE
    OBVIOUS
  <2>2. Calls[k] \notin Recipe \cup Command \cup Listing \cup Walk \cup Look
    BY <2>1, PaintAssumption
  <2>3. outs[k] = "ok"
    BY <2>2 DEF Results, Outcomes
  <2> QED
    BY <2>3 DEF WorkFailure
<1>4. FailedWork(outs) = Ks
  BY <1>3 DEF FailedWork
<1>5. Latest(Ks) \in Ks /\ \A j \in Ks : j <= Latest(Ks)
  <2>1. Ks \in SUBSET Ks /\ Ks # {}
    BY <1>2
  <2> QED
    BY <2>1, CallsAre
<1>6. Latest(Ks) = Len(Calls)
  BY <1>1, <1>2, <1>5
<1>7. OkKeys(outs) = {}
  BY DEF OkKeys
<1>8. mem.streak \in Nat /\ MaxFailedRounds \in Nat \ {0}
  BY BudgetAssumption DEF TypeOK, Memory
<1>9. CASE \E k \in FailedWork(outs) : outs[k] = "missing"
  <2> DEFINE missing == \E k \in FailedWork(outs) : outs[k] = "missing"
             argv == \A k \in Ks : WorkFailure(outs[k]) => outs[k] = "argv"
  <2>0. missing /\ ~argv
    BY <1>2, <1>9
  <2>1. Streak(outs) = MaxFailedRounds
    BY <2>0, Zenon DEF Streak
  <2> QED
    BY <1>2, <1>4, <1>6, <1>8, <2>1
<1>10. CASE ~\E k \in FailedWork(outs) : outs[k] = "missing"
  <2> DEFINE repeated == \E k \in FailedWork(outs) :
                            \/ ~IsOk(outs[k]) /\ Calls[k] \in Listing \cup Walk
                            \/ Calls[k] = mem.failed_key
  <2>1. ~\A k \in Ks : WorkFailure(outs[k]) => outs[k] = "argv"
    BY <1>2
  <2>2. OkKeys(outs) \ mem.ok_keys = {}
    BY <1>7
  <2>3. Streak(outs) = IF repeated THEN mem.streak + 1 ELSE 1
    BY <1>10, <2>1, <2>2 DEF Streak
  <2>4. mem.failed_key = Calls[Len(Calls)] => repeated
    BY <1>2, <1>4
  <2> HIDE DEF repeated
  <2>5. Streak(outs) >= 1
    BY <1>8, <2>3
  <2> QED
    BY <1>2, <1>4, <1>6, <2>3, <2>4, <2>5
<1> QED
  BY <1>9, <1>10

\* The round carried out is the streak's next, and goes on only below the limit.
LEMMA StuckRuns ==
    ASSUME TypeOK, RoundOK, StuckOK, NotStuckForever, Runs
    PROVE  StuckOK' /\ NotStuckForever'
<1>1. PICK outs \in Results :
             /\ FailedWork(outs) # {} =>
                   /\ mem'.streak = Streak(outs)
                   /\ mem'.failed_key = Calls[Latest(FailedWork(outs))]
             /\ FailedWork(outs) = {} => mem'.streak \in {0, mem.streak}
             /\ stuck' = StuckAfter(outs)
             /\ \/ pc' = "close"
                \/ pc' = "record" /\ mem'.streak < MaxFailedRounds
  BY RunsIs
<1>2. pc = "world" /\ round.calls # <<>>
  BY DEF Runs, RoundOK
<1>3. /\ mem.streak \in Nat /\ stuck.n \in Nat /\ MaxFailedRounds \in Nat \ {0}
      /\ mem.streak < MaxFailedRounds
      /\ stuck.n > 0 => /\ stuck.n <= mem.streak
                        /\ mem.failed_key = stuck.did[1][Len(stuck.did[1])]
  BY <1>2, BudgetAssumption DEF TypeOK, Memory, StuckOK, Between, Alive
<1> DEFINE fails == \A k \in Ks : WorkFailure(outs[k]) /\ outs[k] \notin {"argv", "waits"}
           again == stuck.did = <<Calls, outs>>
<1>4. CASE ~fails
  <2>1. stuck'.n = 0
    BY <1>1, <1>4 DEF StuckAfter, NotStuck
  <2>2. pc' \in Going => mem'.streak < MaxFailedRounds
    BY <1>1 DEF Going, Between, Carrying
  <2> QED
    BY <1>3, <2>1, <2>2 DEF StuckOK, NotStuckForever, Going
<1>5. CASE fails
  <2>1. /\ FailedWork(outs) = Ks /\ Ks # {}
        /\ Calls[Latest(FailedWork(outs))] = Calls[Len(Calls)]
        /\ Streak(outs) >= 1
        /\ \/ Streak(outs) >= MaxFailedRounds
           \/ mem.failed_key = Calls[Len(Calls)] => Streak(outs) = mem.streak + 1
    BY <1>2, <1>5, AllFailed
  <2>2. mem'.streak = Streak(outs) /\ mem'.failed_key = Calls[Len(Calls)]
    BY <1>1, <2>1
  <2>3. stuck'.did = <<Calls, outs>> /\ stuck'.n = IF again THEN stuck.n + 1 ELSE 1
    BY <1>1, <1>5 DEF StuckAfter
  <2>4. stuck'.did[1] = Calls
    BY <2>3
  <2>5. Calls \in Seq(Ask) /\ Calls # <<>>
    BY <1>2 DEF TypeOK, RoundState, Calls
  <2>6. stuck.n > 0 /\ again => mem.failed_key = Calls[Len(Calls)]
    BY <1>3
  <2> HIDE DEF fails, again
  <2>7. stuck'.n <= MaxFailedRounds
    BY <1>3, <2>3
  <2>8. Streak(outs) \in Nat
    BY StreakIs
  <2>9. pc' = "record" => stuck'.n <= mem'.streak /\ mem'.streak < MaxFailedRounds
    BY <1>1, <1>3, <2>1, <2>2, <2>3, <2>6, <2>8
  <2>10. pc' \in Going => pc' = "record"
    BY <1>1 DEF Going, Between, Carrying
  <2> QED
    BY <2>2, <2>4, <2>5, <2>7, <2>9, <2>10 DEF StuckOK, NotStuckForever, Going
<1> QED
  BY <1>4, <1>5

LEMMA StuckStep ==
    ASSUME TypeOK, RoundOK, StuckOK, NotStuckForever, Next
    PROVE  StuckOK' /\ NotStuckForever'
<1>1. mem \in Memory /\ log \in LogState
  BY DEF TypeOK
<1>2. CASE CarryRuns
  <2>1. /\ mem'.streak = mem.streak /\ mem'.failed_key = mem.failed_key
        /\ stuck' = stuck /\ pc = "carryworld"
    BY <1>2, CarryRunsIs DEF CarryRuns
  <2> QED
    BY <2>1, StuckStand DEF Going, Between, Carrying
<1>3. CASE Records
  <2>1. mem' = mem \/ mem' = [mem EXCEPT !.i = mem.i + 1]
    BY <1>3 DEF Records
  <2>2. mem'.streak = mem.streak /\ mem'.failed_key = mem.failed_key
    BY <1>1, <2>1 DEF Memory
  <2>3. stuck' = stuck /\ pc = "record"
    BY <1>3 DEF Records, Local
  <2> QED
    BY <2>2, <2>3, StuckStand DEF Going
<1>4. CASE ModelAnswers
  <2>1. mem' = mem \/ mem' = [mem EXCEPT !.any_delta = TRUE]
    BY <1>4 DEF ModelAnswers
  <2>2. mem'.streak = mem.streak /\ mem'.failed_key = mem.failed_key
    BY <1>1, <2>1 DEF Memory
  <2>3. stuck' = stuck /\ pc = "model"
    BY <1>4 DEF ModelAnswers, Local
  <2> QED
    BY <2>2, <2>3, StuckStand DEF Going, Between
<1>5. CASE Resumes \/ \E yes \in BOOLEAN : Answers(yes)
  <2>1. CASE pc' = "down" /\ stuck' = stuck
    BY <2>1 DEF StuckOK, NotStuckForever, Between, Carrying, Alive
  <2>2. CASE /\ stuck' = NotStuck
             /\ \/ mem' = Fresh(0, 0, log.recipes)
                \/ mem' = Fresh(log.spoken, log.computer, log.recipes)
    <3>1. /\ log.recipes \in SUBSET Recipe /\ log.spoken \in Nat /\ log.computer \in Nat
          /\ 0 \in Nat
      BY <1>1 DEF LogState
    <3>2. mem'.streak = 0
      BY <2>2, <3>1, FreshIs
    <3>3. stuck'.n = 0
      BY <2>2 DEF NotStuck
    <3>4. MaxFailedRounds \in Nat \ {0}
      BY BudgetAssumption
    <3> QED
      BY <3>2, <3>3, <3>4 DEF StuckOK, NotStuckForever
  <2> QED
    BY <1>5, <2>1, <2>2 DEF Resumes, Answers, Segment
<1>6. CASE \/ Opens \/ Top \/ AsksModel \/ Considers \/ Starts \/ WrapsUp \/ LastCall \/ Closes
           \/ Writes \/ Carries \/ CarryStarts \/ CarryRecords
  <2>1. mem' = mem /\ stuck' = stuck
    BY <1>6 DEF Opens, Top, AsksModel, Considers, Starts, WrapsUp, LastCall, Closes, Writes,
                Carries, CarryStarts, CarryRecords, Local
  <2>2. pc' \in Going => pc \in Going
    BY <1>6 DEF Opens, Top, AsksModel, Considers, Starts, WrapsUp, LastCall, Closes, Writes,
                Carries, CarryStarts, CarryRecords, StartsTools, Leaves, Ends, EndsEmpty,
                Going, Between, Carrying
  <2> QED
    BY <2>1, <2>2, StuckStand
<1>7. CASE SweepFails \/ Stops \/ Crashes
  BY <1>7, StuckStand DEF SweepFails, Stops, Crashes, Local, Going, Between, Carrying
<1> QED
  BY <1>2, <1>3, <1>4, <1>5, <1>6, <1>7, StuckRuns DEF Next, Loop

-----------------------------------------------------------------------------
(* Stops, and what a client is told.                                        *)

\* A run that has ended stays ended, and only a loop that writes its ending gives the log
\* one, on a run a sweep has not ended under it.
LEMMA EndedStands ==
    ASSUME TypeOK, RoundOK, Next
    PROVE  /\ Ended => Ended'
           /\ ~Writes => log'.closing = log.closing
           /\ \/ log'.status = log.status
              \/ Writes
              \/ log'.status \in {"running", "stopped"}
              \/ SweepFails
<1>1. log \in LogState /\ round \in RoundState
  BY DEF TypeOK
<1>2. WithRound(log, round).status = log.status /\ WithRound(log, round).closing = log.closing
  BY <1>1, WithRoundIs
<1>3. CASE Writes
  <2>1. ending \in {"finish", "fail", "stop", "park"} /\ Card \in Ask \cup {NoAsk}
    BY <1>3, CardIs DEF Writes, TypeOK, RoundOK
  <2>2. /\ log.status \in {"finished", "failed"} => WithEnding(log, round, ending, Card) = log
        /\ log.status = "stopped" => WithEnding(log, round, ending, Card).status = "stopped"
    BY <1>1, <2>1, WithEndingIs
  <2>3. log' \in {log, WithEnding(log, round, ending, Card)}
    BY <1>3 DEF Writes, Written, NotWritten
  <2> QED
    BY <1>3, <2>2, <2>3 DEF Ended, Over
<1>4. CASE Records \/ CarryRecords
  BY <1>2, <1>4 DEF Records, CarryRecords, Written, NotWritten, Ended
<1>5. CASE Starts \/ CarryStarts
  BY <1>1, <1>5 DEF Starts, CarryStarts, StartsTools, Written, NotWritten, Ended, LogState
<1>6. CASE \E yes \in BOOLEAN : Answers(yes)
  BY <1>1, <1>6 DEF Answers, Ended, Over, LogState
<1>7. CASE Resumes
  BY <1>1, <1>7 DEF Resumes, Ended, LogState
<1>8. CASE SweepFails \/ Stops
  BY <1>1, <1>8 DEF SweepFails, Stops, Ended, Over, LogState
<1>9. CASE UNCHANGED log
  BY <1>9 DEF Ended
<1>10. CASE \/ Opens \/ Top \/ AsksModel \/ ModelAnswers \/ Considers \/ Runs \/ WrapsUp
            \/ LastCall \/ Closes \/ Carries \/ CarryRuns \/ Crashes
  BY <1>9, <1>10 DEF Opens, Written, NotWritten, Top, AsksModel, ModelAnswers, Considers, Runs,
                     WrapsUp, LastCall, Closes, Carries, CarryRuns, Crashes
<1> QED
  BY <1>3, <1>4, <1>5, <1>6, <1>7, <1>8, <1>10 DEF Next, Loop

\* Faults are never taken back: what was within them stays so.
LEMMA Room ==
    \A l, f, g \in Nat : g >= f =>
        /\ 0 <= g /\ 0 <= 1 + g
        /\ l <= f => l <= g
        /\ l <= 1 + f => l <= 1 + g
OBVIOUS

\* A call that leaves after a Stop leaves on the one read that was before it, or on a read
\* that failed.
LEMMA StopsStep ==
    ASSUME TypeOK, RoundOK, StopsOK, StopBounds, Next
    PROVE  StopsOK' /\ StopBounds'
<1>1. late \in Nat /\ faults \in Nat /\ faults' \in Nat /\ faults' >= faults
  <2>1. faults' = faults \/ faults' = faults + 1
    BY DEF Next, Loop, Opens, Top, AsksModel, ModelAnswers, Considers, Starts, Runs, Records,
           WrapsUp, LastCall, Closes, Writes, Carries, CarryStarts, CarryRuns, CarryRecords,
           StartsTools, Answers, Resumes, SweepFails, Stops, Crashes, SaysStopped, SaysGoOn,
           Written, NotWritten, Fault
  <2> QED
    BY <2>1, BudgetAssumption DEF TypeOK
<1>2. Ended => Ended'
  BY EndedStands
<1>3. CASE AsksModel \/ LastCall
  <2>1. /\ pc \in {"ask", "wrap"} /\ pc' \notin {"ask", "wrap"} /\ log' = log
        /\ late' = IF Ended THEN late + 1 ELSE late
    BY <1>3 DEF AsksModel, LastCall, Asks, Ends, Ended
  <2>2. late <= faults
    BY <2>1 DEF StopsOK
  <2>3. ~Ended' => late' = 0
    BY <2>1 DEF StopsOK, Ended
  <2>4. late' <= 1 + faults'
    <3>1. late' = late \/ late' = late + 1
      BY <2>1
    <3> QED
      BY <1>1, <2>2, <3>1
  <2> QED
    BY <2>1, <2>3, <2>4 DEF StopsOK, StopBounds
<1>4. CASE Top \/ WrapsUp
  <2>1. /\ late' = late /\ log' = log
        /\ pc' \in {"ask", "wrap"} => SaysGoOn
    BY <1>4 DEF Top, WrapsUp, Ends
  <2>2. CASE ~Ended
    <3>1. late = 0 /\ late' = 0
      BY <2>1, <2>2 DEF StopsOK
    <3>2. late' <= faults' /\ late' <= 1 + faults'
      <4>1. 0 <= faults' /\ 0 <= 1 + faults'
        BY <1>1, Room
      <4> QED
        BY <3>1, <4>1
    <3> QED
      BY <3>1, <3>2 DEF StopsOK, StopBounds
  <2>3. CASE Ended
    <3>1. pc' \in {"ask", "wrap"} => faults' = faults + 1
      BY <2>1, <2>3 DEF SaysGoOn, Fault
    <3>2. late <= 1 + faults
      BY DEF StopBounds
    <3>3. late' <= 1 + faults'
      <4>1. late <= 1 + faults'
        BY <1>1, <3>2, Room
      <4> QED
        BY <2>1, <4>1
    <3>4. pc' \in {"ask", "wrap"} => late' <= faults'
      BY <1>1, <2>1, <3>1, <3>2
    <3> QED
      BY <1>2, <2>3, <3>3, <3>4 DEF StopsOK, StopBounds
  <2> QED
    BY <2>2, <2>3
<1>5. ASSUME late' = late, pc' \in {"ask", "wrap"} => pc' = pc
      PROVE  StopsOK' /\ StopBounds'
  <2>1. pc' \in {"ask", "wrap"} => late' <= faults'
    BY <1>1, <1>5 DEF StopsOK
  <2>2. late' <= 1 + faults'
    <3>1. late <= 1 + faults /\ late' = late
      BY <1>5 DEF StopBounds
    <3>2. late <= 1 + faults'
      BY <1>1, <3>1, Room
    <3> QED
      BY <3>1, <3>2
  <2>3. ~Ended' => late' = 0
    BY <1>2, <1>5 DEF StopsOK
  <2> QED
    BY <2>1, <2>2, <2>3 DEF StopsOK, StopBounds
<1>6. CASE \/ Opens \/ ModelAnswers \/ Considers \/ Starts \/ Runs \/ Records \/ Closes
           \/ Writes \/ Carries \/ CarryStarts \/ CarryRuns \/ CarryRecords
  <2>1. late' = late
    BY <1>6 DEF Opens, ModelAnswers, Considers, Starts, Runs, Records, Closes, Writes, Carries,
                CarryStarts, CarryRuns, CarryRecords
  <2>2. pc' \in {"ask", "wrap"} => pc' = pc
    <3>1. CASE Opens \/ ModelAnswers \/ Considers \/ Starts \/ Records \/ Closes \/ Writes
      BY <3>1 DEF Opens, ModelAnswers, Considers, Starts, Records, Closes, Writes, Ends,
                  EndsEmpty, StartsTools, Leaves
    <3>2. CASE Carries \/ CarryStarts \/ CarryRecords
      BY <3>2 DEF Carries, CarryStarts, CarryRecords, Ends, EndsEmpty, StartsTools
    <3>3. CASE Runs
      BY <3>3, RunsIs
    <3>4. CASE CarryRuns
      BY <3>4, CarryRunsIs
    <3> QED
      BY <1>6, <3>1, <3>2, <3>3, <3>4
  <2> QED
    BY <1>5, <2>1, <2>2
<1>7. CASE Resumes \/ SweepFails \/ Stops \/ Crashes \/ \E yes \in BOOLEAN : Answers(yes)
  BY <1>5, <1>7 DEF Resumes, SweepFails, Stops, Crashes, Answers, Segment, Local
<1> QED
  BY <1>3, <1>4, <1>6, <1>7 DEF Next, Loop

\* What a client was shown came back written, and nobody writes a closing frame after it
\* before the next segment, which shows nothing yet.
LEMMA ToldStep ==
    ASSUME TypeOK, RoundOK, PlaysOK, ToldOK, ToldIsTrue, Next
    PROVE  ToldOK' /\ ToldIsTrue'
<1>1. log \in LogState /\ lapsed \in BOOLEAN
  BY DEF TypeOK
<1>2. CASE Writes
  <2>1. pc = "write" /\ Alive /\ told = "none" /\ lapsed' = lapsed
    BY <1>2 DEF Writes, Alive, ToldOK, Local
  <2>2. CASE UNCHANGED <<log, pc, told>>
    BY <2>1, <2>2 DEF ToldOK, ToldIsTrue, Alive
  <2>3. CASE pc' = "down" /\ told' = "unrecorded"
    BY <2>3 DEF ToldOK, ToldIsTrue, Alive
  <2>4. CASE pc' = "down" /\ told' = ending /\ log' = WithEnding(log, round, ending, Card)
    <3>1. ending \in {"finish", "fail", "stop", "park"} /\ Card \in Ask \cup {NoAsk}
      BY <2>1, CardIs DEF TypeOK, RoundOK
    <3>2. log.status \notin {"finished", "failed"} => log'.closing = ending
      BY <1>1, <2>4, <3>1, WithEndingIs DEF TypeOK
    <3>3. ~lapsed => log.status \notin {"finished", "failed"}
      BY <2>1 DEF ToldOK
    <3> QED
      BY <2>1, <2>4, <3>2, <3>3 DEF ToldOK, ToldIsTrue, Alive
  <2> QED
    BY <1>2, <2>2, <2>3, <2>4 DEF Writes, Leaves, Written
<1>3. CASE Resumes \/ \E yes \in BOOLEAN : Answers(yes)
  <2>1. log'.status = "running" /\ log'.closing = log.closing /\ lapsed' = lapsed
    BY <1>1, <1>3 DEF Resumes, Answers, LogState
  <2>2. \/ pc' = "down" /\ told' = told
        \/ told' = "none"
    BY <1>3 DEF Resumes, Answers, Segment
  <2> QED
    BY <2>1, <2>2 DEF ToldOK, ToldIsTrue, Alive
<1>4. CASE SweepFails
  <2>1. pc' = pc /\ told' = told /\ (pc = "down" \/ lapsed' = TRUE) /\ log'.closing = log.closing
        /\ (pc = "down" => lapsed' = lapsed)
    BY <1>4, <1>1 DEF SweepFails, LogState
  <2> QED
    BY <2>1 DEF ToldOK, ToldIsTrue, Alive
<1>5. ASSUME told' = told, lapsed' = lapsed, pc' # "down" => pc # "down",
             ~Writes, ~SweepFails, ~Resumes, ~\E yes \in BOOLEAN : Answers(yes)
      PROVE  ToldOK' /\ ToldIsTrue'
  <2>1. /\ log'.closing = log.closing
        /\ log'.status = log.status \/ log'.status \in {"running", "stopped"}
    BY <1>5, EndedStands
  <2> QED
    BY <1>5, <2>1 DEF ToldOK, ToldIsTrue, Alive
<1>6. CASE /\ \/ Opens \/ Top \/ AsksModel \/ ModelAnswers \/ Considers \/ Starts \/ Runs \/ Records
              \/ WrapsUp \/ LastCall \/ Closes \/ Carries \/ CarryStarts \/ CarryRuns \/ CarryRecords
              \/ Stops \/ Crashes
           /\ ~Writes /\ ~SweepFails /\ ~Resumes /\ ~\E yes \in BOOLEAN : Answers(yes)
  <2>1. told' = told /\ lapsed' = lapsed
    BY <1>6 DEF Opens, Top, AsksModel, ModelAnswers, Considers, Starts, Runs, Records, WrapsUp,
                LastCall, Closes, Carries, CarryStarts, CarryRuns, CarryRecords, Stops, Crashes, Local
  <2>2. pc' # "down" => pc # "down"
    BY <1>6 DEF Opens, Top, AsksModel, ModelAnswers, Considers, Starts, Runs, Records, WrapsUp,
                LastCall, Closes, Carries, CarryStarts, CarryRuns, CarryRecords, Stops, Crashes
  <2> QED
    BY <1>5, <1>6, <2>1, <2>2
<1> QED
  BY <1>2, <1>3, <1>4, <1>6 DEF Next, Loop

-----------------------------------------------------------------------------
(* Every run of the loop.                                                   *)

LEMMA LoopInit == Init => LoopInv
<1> SUFFICES ASSUME Init
             PROVE  LoopInv
  OBVIOUS
<1>1. /\ 0 \in Nat /\ {} \in SUBSET Recipe /\ MaxFailedRounds \in Nat \ {0}
      /\ MaxRounds \in Nat \ {0} /\ MaxComputerRounds \in Nat \ {0} /\ MaxResumes \in Nat
      /\ MaxFaults \in Nat /\ MaxCards \in Nat
  BY BudgetAssumption
<1>2. /\ mem \in Memory /\ mem.i = 0 /\ mem.spoken = 0 /\ mem.computer = 0 /\ mem.streak = 0
      /\ mem.played = {}
  BY <1>1, FreshIs DEF Init
<1>3. /\ round = NoRound /\ round \in RoundState /\ ~round.ran /\ round.recipes = {}
      /\ round.kind = "none"
  BY NoRoundIs DEF Init
<1>4. /\ log \in LogState
      /\ log.status = "running" /\ log.answer = "none" /\ log.generation = 0
      /\ log.spoken = 0 /\ log.computer = 0
  BY <1>1 DEF Init, LogState, Status
<1>5. /\ pc = "open" /\ pc \in Pc /\ ending = "none" /\ told = "none" /\ ~lapsed
      /\ lapsed \in BOOLEAN
      /\ rounds = 0 /\ carried = 0 /\ late = 0 /\ cards = 0 /\ faults = 0 /\ stuck.n = 0
  BY DEF Init, NotStuck, Pc
<1>6. plays \in [Recipe -> Nat] /\ \A r \in Recipe : plays[r] = 0
  BY DEF Init
<1>7. TypeOK
  BY <1>1, <1>2, <1>3, <1>4, <1>5, <1>6 DEF TypeOK
<1>8. RecipeOnce /\ RoundsAreBounded /\ SpentIsTrue /\ StopBounds /\ ToldIsTrue
  BY <1>1, <1>4, <1>5, <1>6 DEF RecipeOnce, RoundsAreBounded, SpentIsTrue, StopBounds, ToldIsTrue
<1>9. NeverFallsOut /\ NotStuckForever
  BY <1>1, <1>5 DEF NeverFallsOut, NotStuckForever
<1>10. RoundOK
  BY <1>3, <1>5 DEF RoundOK, Carrying
<1>11. PlaysOK
  BY <1>4, <1>5, <1>6, <1>3 DEF PlaysOK, PlayedIn, Carrying
<1>12. CountsOK
  BY <1>1, <1>2, <1>3, <1>4, <1>5 DEF CountsOK, Carrying, OverBudget
<1>13. StuckOK /\ StopsOK /\ ToldOK
  BY <1>1, <1>2, <1>4, <1>5 DEF StuckOK, StopsOK, ToldOK
<1> QED
  BY <1>7, <1>8, <1>9, <1>10, <1>11, <1>12, <1>13 DEF LoopInv, LoopIsHonest

\* What is counted bounds the loop's own counter and what the log has spent.
LEMMA CountsBound ==
    ASSUME TypeOK, CountsOK
    PROVE  SpentIsTrue /\ NeverFallsOut
<1>1. /\ log.spoken \in Nat /\ log.computer \in Nat /\ carried \in Nat
      /\ mem.i \in Nat /\ mem.spoken \in Nat /\ mem.computer \in Nat
      /\ MaxRounds \in Nat \ {0} /\ MaxComputerRounds \in Nat \ {0}
  BY BudgetAssumption DEF TypeOK, LogState, Memory
<1>2. SpentIsTrue
  BY <1>1 DEF CountsOK, SpentIsTrue
<1>3. ASSUME pc = "top"
      PROVE  mem.i < MaxRounds + MaxComputerRounds
  <2>1. /\ mem.i <= mem.spoken + mem.computer
        /\ mem.i > 0 => ~OverBudget(mem)
    BY <1>3 DEF CountsOK, Between
  <2> QED
    BY <1>1, <2>1 DEF OverBudget
<1> QED
  BY <1>2, <1>3 DEF NeverFallsOut

LEMMA LoopStep == LoopInv /\ [Next]_vars => LoopInv'
<1> SUFFICES ASSUME LoopInv, [Next]_vars
             PROVE  LoopInv'
  OBVIOUS
<1>1. /\ TypeOK /\ RecipeOnce /\ RoundsAreBounded /\ SpentIsTrue /\ StopBounds /\ ToldIsTrue
      /\ NeverFallsOut /\ NotStuckForever
      /\ RoundOK /\ PlaysOK /\ CountsOK /\ StuckOK /\ StopsOK /\ ToldOK
  BY DEF LoopInv, LoopIsHonest
<1>2. CASE Next
  <2>1. TypeOK' /\ RoundOK'
    BY <1>1, <1>2, TypeStep, RoundStep
  <2>2. PlaysOK' /\ RecipeOnce'
    BY <1>1, <1>2, PlaysStep
  <2>3. CountsOK' /\ RoundsAreBounded'
    BY <1>1, <1>2, CountsStep
  <2>4. SpentIsTrue' /\ NeverFallsOut'
    <3>1. (TypeOK /\ CountsOK => SpentIsTrue /\ NeverFallsOut)'
      BY CountsBound, PTL
    <3> QED
      BY <2>1, <2>3, <3>1
  <2>5. StuckOK' /\ NotStuckForever'
    BY <1>1, <1>2, StuckStep
  <2>6. StopsOK' /\ StopBounds' /\ ToldOK' /\ ToldIsTrue'
    BY <1>1, <1>2, StopsStep, ToldStep
  <2> QED
    BY <2>1, <2>2, <2>3, <2>4, <2>5, <2>6 DEF LoopInv, LoopIsHonest
<1>3. CASE UNCHANGED vars
  <2>1. TypeOK' /\ RecipeOnce' /\ RoundsAreBounded' /\ SpentIsTrue' /\ StopBounds' /\ ToldIsTrue'
        /\ NeverFallsOut' /\ NotStuckForever'
    BY <1>1, <1>3 DEF vars, TypeOK, RecipeOnce, RoundsAreBounded, SpentIsTrue, StopBounds,
                      ToldIsTrue, NeverFallsOut, NotStuckForever
  <2>2. RoundOK' /\ PlaysOK'
    BY <1>1, <1>3 DEF vars, RoundOK, PlaysOK, WaitsAt, Ks, Calls, Card, Alive, Active, PlayedIn,
                      Unplayed, LoopAnswered, SkipListing, ListingOnly, Replay
  <2>3. CountsOK' /\ StuckOK' /\ StopsOK' /\ ToldOK'
    BY <1>1, <1>3 DEF vars, CountsOK, StuckOK, StopsOK, ToldOK, Alive, Active, Ended, OverBudget
  <2> QED
    BY <2>1, <2>2, <2>3 DEF LoopInv, LoopIsHonest
<1> QED
  BY <1>2, <1>3

LEMMA LoopInvariant == Spec => []LoopInv
BY LoopInit, LoopStep, PTL DEF Spec

\* The loop's accounts hold in every run, for every number of recipes, calls, rounds, cards
\* and faults (harness lib.rs: replays, RoundSpent, StopCheck and close; conversation.rs:
\* Spent::of and recipes_of): a recipe is played once per request, no more rounds are carried
\* out than were budgeted, none is counted twice, a Stop lets at most the call that was
\* leaving go, and an ending that was shown is on record.
THEOREM LoopAccounts == Spec => []LoopIsHonest
<1>1. LoopInv => LoopIsHonest
  BY DEF LoopInv
<1> QED
  BY <1>1, LoopInvariant, PTL

\* The for loop of converse_raw never runs out of its bound, whatever budgets a segment
\* starts with: the ending after it is unreachable, as its comment says.
THEOREM BoundIsUnreachable == Spec => []NeverFallsOut
<1>1. LoopInv => NeverFallsOut
  BY DEF LoopInv
<1> QED
  BY <1>1, LoopInvariant, PTL

\* The streak that learn_from keeps is a brake: a completion that fails the same way is
\* carried out at most MAX_FAILED_ROUNDS times in a row.
THEOREM RepeatsAreBraked == Spec => []NotStuckForever
<1>1. LoopInv => NotStuckForever
  BY DEF LoopInv
<1> QED
  BY <1>1, LoopInvariant, PTL
=============================================================================
