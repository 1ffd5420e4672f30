--------------------------- MODULE Routines_proof ---------------------------
(***************************************************************************)
(* Every property of a routine, proved for any number of people, replicas, *)
(* coworkers, keys and clocks.  RoutineInv is inductive: what a writer     *)
(* decided it decided on the state its event is appended after, a key that *)
(* is being minted is nobody's yet, and the row is due only later than     *)
(* every time a claim was made at and every change of the clock.           *)
(***************************************************************************)
EXTENDS Routines, WellFoundedInduction, TLAPS

Events == [type : Dos \cup {"fired", "skipped"}, cause : Dos, key : Keys \cup {None}, at : Times]
Rows == [there : BOOLEAN, active : BOOLEAN, cron : Crons \cup {NoClock},
         coworker : Coworkers, key : Keys \cup {None}, due : Times]
Claimed == [slot : Times, seq : Nat, at : Nat]
Locals == [pc : {"idle", "claim", "reach", "load", "append", "start"},
           do : Dos \cup {"none"}, cron : Crons \cup {Same}, coworker : Coworkers \cup {None},
           key : Keys \cup {None}, at : Nat, about : Coworkers \cup {None}, skip : BOOLEAN,
           tries : {0, 1}, seq : Nat]

\* The shape of the state: TypeOK, with the sequences and the functions said to be so.
Shape ==
    /\ log \in Seq(Events) /\ Len(log) <= MaxLog
    /\ past \in Seq(Aggregates) /\ Len(past) = Len(log) + 1
    /\ claims \in Seq(Claimed)
    /\ \A i \in DOMAIN claims : claims[i].seq <= Len(log) /\ claims[i].at <= now
    /\ view \in Rows
    /\ op \in [Writers -> Locals]
    /\ \A w \in Writers : op[w].at <= now /\ op[w].seq <= Len(log)
    /\ started \subseteq [event : DOMAIN log, coworker : Coworkers]
    /\ reach \in [Coworkers -> BOOLEAN]
    /\ now \in 0..MaxTime /\ faults \in 0..MaxFaults

\* What the log records was so when it was recorded, and a firing changes nothing.
HistoryOK ==
    /\ PausedIsQuiet
    /\ RotatedKeyIsDead
    /\ \A n \in DOMAIN log : log[n].at <= now
    /\ \A n \in DOMAIN log : log[n].type = "fired" => past[n + 1].coworker = past[n].coworker

\* A key being minted has never been the routine's and is in nobody else's hands.
FreshFor(w) ==
    /\ op[w].key \in Keys
    /\ \A i \in DOMAIN past : past[i].key # op[w].key
    /\ \A v \in Writers \ {w} : op[v].key # op[w].key

\* What each writer knows: its decision holds of the state it will append to, and a run
\* about to start is of a firing on record that no run was started for.
WritersOK ==
    \A w \in Writers :
        /\ op[w].pc # "idle" => op[w].do \in Dos
        /\ op[w].pc \in {"claim", "reach"} /\ op[w].do # "webhook" =>
              op[w].pc = "claim" \/ op[w].about \in Coworkers
        /\ op[w].pc = "append" => Decides(past[op[w].seq + 1], op[w])
        /\ op[w].do = "rotate" => FreshFor(w)
        /\ op[w].pc = "start" =>
              /\ op[w].seq \in DOMAIN log /\ log[op[w].seq].type = "fired"
              /\ \A s \in started : s.event # op[w].seq
              /\ \A v \in Writers \ {w} : op[v].pc = "start" => op[v].seq # op[w].seq

\* The events that set the clock.
Sets(n) == log[n].type = "resume" \/ past[n].cron # past[n + 1].cron

\* The row is due only after every time a claim was made at and the clock was set at.
ClockOK ==
    /\ \A i \in DOMAIN claims :
          /\ claims[i].slot <= claims[i].at
          /\ view.due # Never => claims[i].at < view.due
    /\ \A n \in DOMAIN log : Sets(n) /\ view.due # Never => log[n].at < view.due

RoutineInv ==
    /\ Shape
    /\ HistoryOK /\ WritersOK /\ RunsForItsCoworker
    /\ RowFollowsLog /\ ClockOK /\ SlotOnce /\ NothingCaughtUp

-----------------------------------------------------------------------------
(* Minima, maxima and the occurrences of a clock.                           *)

LEMMA LeastIs ==
    ASSUME NEW S \in SUBSET Nat, S # {}
    PROVE  Min(S) \in S /\ \A y \in S : Min(S) <= y
<1> DEFINE R == OpToRel(<, Nat)
<1>1. IsWellFoundedOn(R, Nat)
  BY NatLessThanWellFounded
<1>2. PICK x \in S : \A y \in S : <<y, x>> \notin R
  <2> HIDE DEF R
  <2> QED
    BY <1>1, WFMin
<1>3. \A y \in S : ~(y < x)
  BY <1>2, Zenon DEF OpToRel
<1>4. \A y \in S : x <= y
  BY <1>3
<1> QED
  BY <1>4 DEF Min

LEMMA LaterIs ==
    ASSUME NEW a \in Nat, NEW b \in Nat
    PROVE  Max({a, b}) \in {a, b} /\ Max({a, b}) >= a /\ Max({a, b}) >= b
<1> DEFINE IsMax(x) == \A y \in {a, b} : x >= y
<1>1. \E x \in {a, b} : IsMax(x)
  <2>1. CASE a >= b
    BY <2>1
  <2>2. CASE b >= a
    BY <2>2
  <2> QED
    BY <2>1, <2>2
<1>2. Max({a, b}) = CHOOSE x \in {a, b} : IsMax(x)
  BY DEF Max
<1>3. Max({a, b}) \in {a, b} /\ IsMax(Max({a, b}))
  <2> HIDE DEF IsMax
  <2> QED
    BY <1>1, <1>2
<1> QED
  BY <1>3

\* The next occurrence is one of the clock's and strictly later.
LEMMA NextFireIs ==
    ASSUME NEW cron \in Crons \cup {NoClock}, NEW t \in Nat
    PROVE  /\ NextFire(cron, t) \in Times
           /\ NextFire(cron, t) # Never => NextFire(cron, t) \in cron /\ NextFire(cron, t) > t
<1> DEFINE later == {s \in cron : s > t}
<1>1. /\ MaxTime \in Nat /\ \A s \in cron : s \in Nat /\ s \in Times
  <2>1. cron \subseteq 1..(MaxTime + 1) /\ MaxTime \in Nat
    BY RoutinesAssumption DEF NoClock
  <2>2. ASSUME NEW s \in 1..(MaxTime + 1)
        PROVE  s \in Nat /\ s \in Times
    BY <2>1 DEF Times
  <2> QED
    BY <2>1, <2>2
<1>2. CASE later = {}
  <2>1. 0 \in Times
    BY <1>1 DEF Times
  <2> QED
    BY <1>2, <2>1 DEF NextFire, Never
<1>3. CASE later # {}
  <2>0. later \subseteq cron /\ \A s \in later : s > t
    OBVIOUS
  <2>1. later \in SUBSET Nat
    BY <1>1, <2>0
  <2>2. Min(later) \in later
    <3> HIDE DEF later
    <3> QED
      BY <1>3, <2>1, LeastIs
  <2>3. NextFire(cron, t) = Min(later)
    BY <1>3 DEF NextFire
  <2>4. NextFire(cron, t) \in cron /\ NextFire(cron, t) > t
    BY <2>0, <2>2, <2>3
  <2> QED
    BY <1>1, <2>4
<1> QED
  BY <1>2, <1>3

-----------------------------------------------------------------------------
(* Sequences that grow, and a writer's locals.                              *)

LEMMA Grows ==
    ASSUME NEW S, NEW s \in Seq(S), NEW e \in S
    PROVE  /\ Append(s, e) \in Seq(S) /\ Len(Append(s, e)) = Len(s) + 1 /\ Len(s) \in Nat
           /\ DOMAIN Append(s, e) = 1..(Len(s) + 1) /\ DOMAIN s = 1..Len(s)
           /\ Append(s, e)[Len(s) + 1] = e
           /\ \A n \in 1..Len(s) : Append(s, e)[n] = s[n]
OBVIOUS

LEMMA ShapeFacts ==
    ASSUME Shape
    PROVE  /\ DOMAIN log = 1..Len(log) /\ Len(log) \in Nat
           /\ DOMAIN past = 1..(Len(log) + 1)
           /\ Agg \in Aggregates /\ Len(log) + 1 \in DOMAIN past
           /\ \A n \in DOMAIN log : /\ log[n] \in Events
                                    /\ n \in Nat /\ past[n] \in Aggregates /\ past[n + 1] \in Aggregates
           /\ now \in Nat /\ now \in Times /\ MaxTime \in Nat /\ MaxLog \in Nat /\ MaxFaults \in Nat
<1>1. log \in Seq(Events) /\ past \in Seq(Aggregates) /\ Len(past) = Len(log) + 1
  BY DEF Shape
<1>2. /\ now \in Nat /\ now \in Times /\ MaxTime \in Nat /\ MaxLog \in Nat /\ MaxFaults \in Nat
  BY RoutinesAssumption DEF Shape, Times
<1>3. /\ DOMAIN log = 1..Len(log) /\ Len(log) \in Nat
      /\ DOMAIN past = 1..(Len(log) + 1)
      /\ \A n \in DOMAIN log : log[n] \in Events
      /\ \A n \in DOMAIN past : past[n] \in Aggregates
  BY <1>1
<1>4. Agg \in Aggregates /\ Len(log) + 1 \in DOMAIN past
  BY <1>3 DEF Agg
<1>5. \A n \in DOMAIN log : n \in Nat /\ n \in DOMAIN past /\ n + 1 \in DOMAIN past
  BY <1>3
<1> QED
  BY <1>2, <1>3, <1>4, <1>5

\* One writer moves; the others' locals stand.
LEMMA GoesIs ==
    ASSUME op \in [Writers -> Locals], NEW w \in Writers, NEW o \in Locals, Goes(w, o)
    PROVE  /\ op' \in [Writers -> Locals] /\ op'[w] = o
           /\ \A v \in Writers \ {w} : op'[v] = op[v]
BY DEF Goes

LEMMA IdleIs ==
    /\ Idle \in Locals /\ Idle.pc = "idle" /\ Idle.do = "none" /\ Idle.key = None
    /\ Idle.at = 0 /\ Idle.seq = 0
BY DEF Idle, Locals, Same

\* What a request is as it begins.
LEMMA AskedIs ==
    ASSUME now \in Nat, NEW do \in Dos
    PROVE  /\ Asked(do) \in Locals /\ Asked(do).pc = "load" /\ Asked(do).do = do
           /\ Asked(do).key = None /\ Asked(do).at = now /\ Asked(do).seq = 0
BY DEF Asked, Idle, Locals, Same

\* The ways a writer's locals change.
LEMMA DecidesSet ==
    ASSUME NEW o \in Locals, NEW n \in Nat
    PROVE  LET p == [o EXCEPT !.pc = "append", !.seq = n] IN
           /\ p \in Locals
           /\ p.pc = "append" /\ p.seq = n /\ p.do = o.do /\ p.cron = o.cron
           /\ p.coworker = o.coworker /\ p.key = o.key /\ p.at = o.at
BY DEF Locals

LEMMA StartSet ==
    ASSUME NEW o \in Locals, NEW n \in Nat
    PROVE  LET p == [o EXCEPT !.pc = "start", !.seq = n] IN
           /\ p \in Locals
           /\ p.pc = "start" /\ p.seq = n /\ p.do = o.do /\ p.key = o.key /\ p.at = o.at
BY DEF Locals

LEMMA RetrySet ==
    ASSUME NEW o \in Locals, NEW n \in {0, 1}
    PROVE  LET p == [o EXCEPT !.pc = "load", !.tries = n] IN
           /\ p \in Locals
           /\ p.pc = "load" /\ p.seq = o.seq /\ p.do = o.do /\ p.key = o.key /\ p.at = o.at
BY DEF Locals

LEMMA ReachSet ==
    ASSUME NEW o \in Locals, NEW c \in Coworkers
    PROVE  LET p == [o EXCEPT !.pc = "reach", !.about = c] IN
           /\ p \in Locals
           /\ p.pc = "reach" /\ p.seq = o.seq /\ p.do = o.do /\ p.key = o.key /\ p.at = o.at
           /\ p.about = c
BY DEF Locals

LEMMA ClaimSet ==
    ASSUME NEW o \in Locals
    PROVE  LET p == [o EXCEPT !.pc = "claim"] IN
           /\ p \in Locals
           /\ p.pc = "claim" /\ p.seq = o.seq /\ p.do = o.do /\ p.key = o.key /\ p.at = o.at
BY DEF Locals

LEMMA EditSet ==
    ASSUME NEW o \in Locals, NEW c \in Crons \cup {Same}, NEW h \in Coworkers \cup {None}
    PROVE  LET p == [o EXCEPT !.cron = c, !.coworker = h] IN
           /\ p \in Locals
           /\ p.pc = o.pc /\ p.seq = o.seq /\ p.do = o.do /\ p.key = o.key /\ p.at = o.at
BY DEF Locals

LEMMA KeySet ==
    ASSUME NEW o \in Locals, NEW k \in Keys
    PROVE  LET p == [o EXCEPT !.key = k] IN
           /\ p \in Locals
           /\ p.pc = o.pc /\ p.seq = o.seq /\ p.do = o.do /\ p.key = k /\ p.at = o.at
BY DEF Locals

LEMMA HookSet ==
    ASSUME NEW o \in Locals, NEW k \in Keys
    PROVE  LET p == [o EXCEPT !.pc = "reach", !.key = k] IN
           /\ p \in Locals
           /\ p.pc = "reach" /\ p.seq = o.seq /\ p.do = o.do /\ p.key = k /\ p.at = o.at
BY DEF Locals

-----------------------------------------------------------------------------
(* A writer moves, and nothing else does.                                   *)

\* What the locals a writer goes to must be for the invariant to stand.
Fits(w, o) ==
    /\ o.at <= now /\ o.seq <= Len(log)
    /\ o.pc \notin {"idle", "start"} => o.do \in Dos
    /\ o.pc = "reach" /\ o.do # "webhook" => o.about \in Coworkers
    /\ o.pc = "append" => Decides(past[o.seq + 1], o)
    /\ o.do = "rotate" => /\ o.key \in Keys
                          /\ \A i \in DOMAIN past : past[i].key # o.key
    /\ \A v \in Writers \ {w} :
          (o.do = "rotate" \/ op[v].do = "rotate") => op[v].key # o.key
    /\ o.pc # "start"

\* What a run may start for stands while the firings and the runs do.
LEMMA RunsStand ==
    ASSUME RoutineInv, Shape', WritersOK',
           UNCHANGED <<log, past, started>>
    PROVE  RunsForItsCoworker'
<1>1. \A s \in started : log[s.event].type = "fired" /\ s.coworker = past[s.event].coworker
  BY DEF RoutineInv, RunsForItsCoworker
<1>2. \A s \in started : \A w \in Writers : op'[w].pc = "start" => op'[w].seq # s.event
  BY DEF WritersOK
<1> QED
  BY <1>1, <1>2 DEF RunsForItsCoworker

LEMMA HistoryStands ==
    ASSUME RoutineInv, UNCHANGED <<log, past>>, now' >= now, now' \in Nat
    PROVE  HistoryOK'
<1>1. /\ PausedIsQuiet' /\ RotatedKeyIsDead'
      /\ \A n \in DOMAIN log : log[n].type = "fired" => past[n + 1].coworker = past[n].coworker
  BY DEF RoutineInv, HistoryOK, PausedIsQuiet, RotatedKeyIsDead
<1>2. \A n \in DOMAIN log : log[n].at <= now'
  <2>1. \A n \in DOMAIN log : log[n].at <= now /\ log[n] \in Events
    BY ShapeFacts DEF RoutineInv, HistoryOK
  <2>2. now \in Nat /\ \A n \in DOMAIN log : log[n].at \in Nat
    BY <2>1, ShapeFacts DEF Events, Times, RoutineInv
  <2> QED
    BY <2>1, <2>2
<1> QED
  BY <1>1, <1>2 DEF HistoryOK

LEMMA ClockStands ==
    ASSUME RoutineInv, UNCHANGED <<log, past, view, claims>>
    PROVE  RowFollowsLog' /\ ClockOK' /\ SlotOnce' /\ NothingCaughtUp'
BY DEF RoutineInv, RowFollowsLog, ClockOK, SlotOnce, NothingCaughtUp, Agg, Sets

\* What every writer knows stands, and what the one that moves goes to fits.
LEMMA WritersMove ==
    ASSUME RoutineInv, NEW w \in Writers, NEW o \in Locals, Goes(w, o), Fits(w, o),
           UNCHANGED <<log, past>>,
           \A s \in started' : s \in started \/ (op[w].pc = "start" /\ s.event = op[w].seq)
    PROVE  WritersOK'
<1>a. op' \in [Writers -> Locals] /\ op'[w] = o /\ \A v \in Writers \ {w} : op'[v] = op[v]
  BY GoesIs DEF RoutineInv, Shape
<1> SUFFICES ASSUME NEW x \in Writers
             PROVE  (/\ op[x].pc # "idle" => op[x].do \in Dos
                     /\ op[x].pc \in {"claim", "reach"} /\ op[x].do # "webhook" =>
                           op[x].pc = "claim" \/ op[x].about \in Coworkers
                     /\ op[x].pc = "append" => Decides(past[op[x].seq + 1], op[x])
                     /\ op[x].do = "rotate" => FreshFor(x)
                     /\ op[x].pc = "start" =>
                           /\ op[x].seq \in DOMAIN log /\ log[op[x].seq].type = "fired"
                           /\ \A s \in started : s.event # op[x].seq
                           /\ \A v \in Writers \ {x} : op[v].pc = "start" => op[v].seq # op[x].seq)'
  BY DEF WritersOK
<1>1. CASE x = w
  <2>1. op'[x] = o
    BY <1>a, <1>1
  <2>2. o.do = "rotate" => FreshFor(x)'
    BY <1>a, <1>1 DEF Fits, FreshFor
  <2> QED
    BY <2>1, <2>2 DEF Fits, Decides, MayDo, KeyHolds
<1>2. CASE x # w
  <2>1. op'[x] = op[x]
    BY <1>a, <1>2
  <2>2. /\ op[x].pc # "idle" => op[x].do \in Dos
        /\ op[x].pc \in {"claim", "reach"} /\ op[x].do # "webhook" =>
              op[x].pc = "claim" \/ op[x].about \in Coworkers
        /\ op[x].pc = "append" => Decides(past[op[x].seq + 1], op[x])
        /\ op[x].do = "rotate" => FreshFor(x)
        /\ op[x].pc = "start" =>
              /\ op[x].seq \in DOMAIN log /\ log[op[x].seq].type = "fired"
              /\ \A s \in started : s.event # op[x].seq
              /\ \A v \in Writers \ {x} : op[v].pc = "start" => op[v].seq # op[x].seq
    BY DEF RoutineInv, WritersOK
  <2>3. op[x].do = "rotate" => FreshFor(x)'
    <3> SUFFICES ASSUME op[x].do = "rotate"
                 PROVE  FreshFor(x)'
      OBVIOUS
    <3>1. \A v \in Writers \ {x} : op'[v].key # op[x].key
      BY <1>a, <1>2, <2>2 DEF FreshFor, Fits
    <3> QED
      BY <2>1, <2>2, <3>1 DEF FreshFor
  <2>4. op[x].pc = "start" => \A s \in started' : s.event # op[x].seq
    BY <1>2, <2>2
  <2>5. op[x].pc = "start" =>
            \A v \in Writers \ {x} : op'[v].pc = "start" => op'[v].seq # op[x].seq
    BY <1>a, <2>2 DEF Fits
  <2> QED
    BY <2>1, <2>2, <2>3, <2>4, <2>5 DEF Decides, MayDo, KeyHolds
<1> QED
  BY <1>1, <1>2

LEMMA Moves ==
    ASSUME RoutineInv, NEW w \in Writers, NEW o \in Locals, Goes(w, o), Fits(w, o),
           UNCHANGED <<log, past, view, claims, started, reach, now>>,
           faults' \in 0..MaxFaults
    PROVE  RoutineInv'
<1>1. op' \in [Writers -> Locals] /\ op'[w] = o /\ \A v \in Writers \ {w} : op'[v] = op[v]
  BY GoesIs DEF RoutineInv, Shape
<1>2. Shape'
  <2>1. \A v \in Writers : op'[v].at <= now /\ op'[v].seq <= Len(log)
    BY <1>1 DEF Fits, RoutineInv, Shape
  <2> QED
    BY <1>1, <2>1 DEF RoutineInv, Shape
<1>3. WritersOK'
  <2>1. \A s \in started' : s \in started \/ (op[w].pc = "start" /\ s.event = op[w].seq)
    OBVIOUS
  <2> QED
    BY <2>1, WritersMove, Zenon
<1>4. HistoryOK'
  BY HistoryStands, ShapeFacts DEF RoutineInv
<1> QED
  BY <1>2, <1>3, <1>4, RunsStand, ClockStands DEF RoutineInv

\* A writer that keeps what it asks for, or lets go of it, takes no key from anybody.
LEMMA KeepsKey ==
    ASSUME RoutineInv, NEW w \in Writers, NEW o \in Locals,
           \/ o.do = op[w].do /\ o.key = op[w].key
           \/ o.do # "rotate" /\ o.key = None
           \/ o.do # "rotate" /\ o.key = Agg.key
    PROVE  /\ o.do = "rotate" => /\ o.key \in Keys
                                 /\ \A i \in DOMAIN past : past[i].key # o.key
           /\ \A v \in Writers \ {w} :
                 (o.do = "rotate" \/ op[v].do = "rotate") => op[v].key # o.key
<1>1. \A v \in Writers : op[v].do = "rotate" => FreshFor(v)
  BY DEF RoutineInv, WritersOK
<1>2. None \notin Keys
  BY RoutinesAssumption
<1>3. \E i \in DOMAIN past : Agg.key = past[i].key
  BY ShapeFacts DEF Agg, RoutineInv
<1> QED
  BY <1>1, <1>2, <1>3 DEF FreshFor

-----------------------------------------------------------------------------
(* The steps in which one writer moves.                                     *)

LEMMA FaultsIn == Shape => faults \in 0..MaxFaults
BY DEF Shape

LEMMA Requests ==
    ASSUME RoutineInv, NEW w \in Writers, Request(w)
    PROVE  RoutineInv'
<1>1. Shape /\ RowFollowsLog /\ now \in Nat /\ Len(log) \in Nat /\ Agg \in Aggregates
  BY ShapeFacts DEF RoutineInv
<1>2. Agg.coworker \in Coworkers
  BY <1>1 DEF Aggregates
<1>3. ASSUME NEW do \in Dos, Asks(w, do), NEW o \in Locals, Goes(w, o),
             o.do = do, o.at = now, o.seq = 0, o.pc \in {"load", "reach"},
             o.pc = "reach" /\ do # "webhook" => o.about \in Coworkers,
             \/ do # "rotate" /\ o.key \in {None, Agg.key}
             \/ /\ do = "rotate" /\ o.key \in Keys
                /\ \A i \in DOMAIN past : past[i].key # o.key
                /\ \A v \in Writers : op[v].key # o.key
      PROVE  RoutineInv'
  <2>1. /\ o.do = "rotate" => /\ o.key \in Keys
                              /\ \A i \in DOMAIN past : past[i].key # o.key
        /\ \A v \in Writers \ {w} :
              (o.do = "rotate" \/ op[v].do = "rotate") => op[v].key # o.key
    <3>1. CASE do # "rotate"
      BY <1>3, <3>1, KeepsKey
    <3>2. CASE do = "rotate"
      BY <1>3, <3>2
    <3> QED
      BY <3>1, <3>2
  <2>2. Fits(w, o)
    BY <1>1, <1>3, <2>1 DEF Fits
  <2>3. /\ UNCHANGED <<log, past, view, claims, started, reach, now>>
        /\ faults' \in 0..MaxFaults
    BY <1>1, <1>3, FaultsIn DEF Asks
  <2> QED
    BY <1>3, <2>2, <2>3, Moves
<1>4. ASSUME NEW cron \in Crons \cup {Same}, NEW coworker \in Coworkers, Edit(w, cron, coworker)
      PROVE  RoutineInv'
  <2> DEFINE a == Asked("update")
             h == IF coworker = Agg.coworker THEN None ELSE coworker
             o == [a EXCEPT !.cron = cron, !.coworker = h]
  <2>1. a \in Locals /\ a.pc = "load" /\ a.do = "update" /\ a.key = None /\ a.at = now /\ a.seq = 0
    BY <1>1, AskedIs DEF Dos
  <2>2. h \in Coworkers \cup {None}
    OBVIOUS
  <2>3. Goes(w, o) /\ Asks(w, "update")
    BY <1>4 DEF Edit
  <2> HIDE DEF a, h
  <2>4. o \in Locals /\ o.pc = a.pc /\ o.seq = a.seq /\ o.do = a.do /\ o.key = a.key /\ o.at = a.at
    BY <2>1, <2>2, EditSet
  <2> HIDE DEF o
  <2>5. "update" \in Dos
    BY DEF Dos
  <2> QED
    BY <1>3, <2>1, <2>3, <2>4, <2>5
<1>5. ASSUME NEW do \in {"pause", "resume", "delete"}, Change(w, do)
      PROVE  RoutineInv'
  <2>1. do \in Dos /\ do # "rotate"
    BY DEF Dos
  <2>2. /\ Asked(do) \in Locals /\ Asked(do).pc = "load" /\ Asked(do).do = do
        /\ Asked(do).key = None /\ Asked(do).at = now /\ Asked(do).seq = 0
    BY <1>1, <2>1, AskedIs
  <2>3. Goes(w, Asked(do)) /\ Asks(w, do)
    BY <1>5 DEF Change
  <2> QED
    BY <1>3, <2>1, <2>2, <2>3
<1>6. ASSUME NEW key \in Keys, Rotate(w, key)
      PROVE  RoutineInv'
  <2> DEFINE a == Asked("rotate")
             o == [a EXCEPT !.key = key]
  <2>1. /\ "rotate" \in Dos
        /\ a \in Locals /\ a.pc = "load" /\ a.do = "rotate" /\ a.at = now /\ a.seq = 0
    BY <1>1, AskedIs DEF Dos
  <2>2. Goes(w, o) /\ Asks(w, "rotate") /\ (\A i \in DOMAIN past : past[i].key # key)
        /\ \A v \in Writers : op[v].key # key
    BY <1>6 DEF Rotate
  <2> HIDE DEF a
  <2>3. o \in Locals /\ o.pc = a.pc /\ o.seq = a.seq /\ o.do = a.do /\ o.key = key /\ o.at = a.at
    BY <2>1, KeySet
  <2> HIDE DEF o
  <2> QED
    BY <1>3, <2>1, <2>2, <2>3
<1>7. ASSUME NEW do \in {"manual", "bot"}, RunNow(w, do)
      PROVE  RoutineInv'
  <2> DEFINE a == Asked(do)
             o == [a EXCEPT !.pc = "reach", !.about = Agg.coworker]
  <2>1. /\ do \in Dos /\ do # "rotate"
        /\ a \in Locals /\ a.do = do /\ a.key = None /\ a.at = now /\ a.seq = 0
    <3>1. do \in Dos /\ do # "rotate"
      BY DEF Dos, Firings
    <3> QED
      BY <1>1, <3>1, AskedIs
  <2>2. Goes(w, o) /\ Asks(w, do)
    BY <1>7 DEF RunNow
  <2> HIDE DEF a
  <2>3. o \in Locals /\ o.pc = "reach" /\ o.seq = a.seq /\ o.do = a.do /\ o.key = a.key
        /\ o.at = a.at /\ o.about = Agg.coworker
    BY <1>2, <2>1, ReachSet
  <2> HIDE DEF o
  <2> QED
    BY <1>2, <1>3, <2>1, <2>2, <2>3
<1>8. ASSUME NEW key \in Keys, Hook(w, key)
      PROVE  RoutineInv'
  <2> DEFINE a == Asked("webhook")
             o == [a EXCEPT !.pc = "reach", !.key = key]
  <2>1. /\ "webhook" \in Dos /\ "webhook" # "rotate"
        /\ a \in Locals /\ a.do = "webhook" /\ a.at = now /\ a.seq = 0
    <3>1. "webhook" \in Dos
      BY DEF Dos, Firings
    <3> QED
      BY <1>1, <3>1, AskedIs
  <2>2. Goes(w, o) /\ Asks(w, "webhook") /\ view.key = key
    BY <1>8 DEF Hook
  <2>3. key = Agg.key
    BY <1>1, <2>2 DEF Asks, RowFollowsLog
  <2> HIDE DEF a
  <2>4. o \in Locals /\ o.pc = "reach" /\ o.seq = a.seq /\ o.do = a.do /\ o.key = key /\ o.at = a.at
    BY <2>1, HookSet
  <2> HIDE DEF o
  <2> QED
    BY <1>3, <2>1, <2>2, <2>3, <2>4
<1> QED
  BY <1>4, <1>5, <1>6, <1>7, <1>8 DEF Request

\* A writer lets go of what it was doing.
LEMMA LetsGo ==
    ASSUME RoutineInv, NEW w \in Writers, Goes(w, Idle),
           UNCHANGED <<log, past, view, claims, started, reach, now>>,
           faults' \in 0..MaxFaults
    PROVE  RoutineInv'
<1>1. Idle \in Locals /\ Idle.pc = "idle" /\ Idle.do = "none" /\ Idle.key = None
      /\ Idle.at = 0 /\ Idle.seq = 0
  BY IdleIs
<1>2. now \in Nat /\ Len(log) \in Nat
  BY ShapeFacts DEF RoutineInv
<1>3. \A v \in Writers \ {w} : op[v].do = "rotate" => op[v].key # Idle.key
  BY <1>1, KeepsKey
<1>4. Fits(w, Idle)
  BY <1>1, <1>2, <1>3 DEF Fits
<1> QED
  BY <1>1, <1>4, Moves

\* A writer goes on with what it asked for.
LEMMA GoesOn ==
    ASSUME RoutineInv, NEW w \in Writers, NEW o \in Locals, Goes(w, o),
           op[w].pc # "idle", o.do = op[w].do, o.key = op[w].key, o.at = op[w].at,
           o.seq <= Len(log), o.pc \notin {"start", "append"},
           o.pc = "reach" /\ o.do # "webhook" => o.about \in Coworkers,
           UNCHANGED <<log, past, view, claims, started, reach, now, faults>>
    PROVE  RoutineInv'
<1>1. op[w].do \in Dos /\ op[w].at <= now
  BY DEF RoutineInv, WritersOK, Shape
<1>2. /\ o.do = "rotate" => /\ o.key \in Keys
                            /\ \A i \in DOMAIN past : past[i].key # o.key
      /\ \A v \in Writers \ {w} :
            (o.do = "rotate" \/ op[v].do = "rotate") => op[v].key # o.key
  BY KeepsKey
<1>3. Fits(w, o)
  BY <1>1, <1>2 DEF Fits
<1> QED
  BY <1>3, Moves, FaultsIn DEF RoutineInv

LEMMA Waits ==
    ASSUME RoutineInv, NEW w \in Writers,
           ClaimReads(w) \/ Reaches(w) \/ Loads(w) \/ Conflicts(w) \/ Crash(w)
    PROVE  RoutineInv'
<1>1. /\ op \in [Writers -> Locals] /\ op[w] \in Locals /\ now \in Nat /\ Len(log) \in Nat
      /\ op[w].seq <= Len(log) /\ op[w].seq \in Nat /\ op[w].at <= now /\ faults \in 0..MaxFaults
      /\ MaxFaults \in Nat /\ Agg \in Aggregates /\ reach \in [Coworkers -> BOOLEAN]
  BY ShapeFacts, FaultsIn DEF RoutineInv, Shape, Locals
<1>2. ASSUME ClaimReads(w)
      PROVE  RoutineInv'
  <2> DEFINE a == Asked("clock")
             o == [a EXCEPT !.pc = "claim"]
  <2>1. /\ "clock" \in Dos
        /\ a \in Locals /\ a.do = "clock" /\ a.at = now /\ a.seq = 0 /\ a.key = None
    <3>1. "clock" \in Dos
      BY DEF Dos, Firings
    <3> QED
      BY <1>1, <3>1, AskedIs
  <2>2. Goes(w, o) /\ UNCHANGED <<log, past, view, claims, started, reach, now, faults>>
    BY <1>2 DEF ClaimReads
  <2> HIDE DEF a
  <2>3. o \in Locals /\ o.pc = "claim" /\ o.seq = a.seq /\ o.do = a.do /\ o.key = a.key /\ o.at = a.at
    BY <2>1, ClaimSet
  <2> HIDE DEF o
  <2>4. \A v \in Writers \ {w} : op[v].do = "rotate" => op[v].key # o.key
    BY <2>1, <2>3, KeepsKey
  <2>5. Fits(w, o)
    BY <1>1, <2>1, <2>3, <2>4 DEF Fits
  <2> QED
    BY <1>1, <2>2, <2>3, <2>5, Moves
<1>3. ASSUME Reaches(w)
      PROVE  RoutineInv'
  <2> DEFINE c == IF op[w].do = "webhook" THEN Agg.coworker ELSE op[w].about
             b == ~reach[c]
             o == [op[w] EXCEPT !.pc = "load", !.about = c, !.skip = b]
  <2>1. op[w].pc = "reach" /\ Goes(w, o)
        /\ UNCHANGED <<log, past, view, claims, started, reach, now, faults>>
    BY <1>3 DEF Reaches
  <2>2. c \in Coworkers
    BY <1>1, <2>1 DEF RoutineInv, WritersOK, Aggregates
  <2>3. b \in BOOLEAN
    OBVIOUS
  <2> HIDE DEF b, c
  <2>4. o \in Locals /\ o.pc = "load" /\ o.seq = op[w].seq /\ o.do = op[w].do
        /\ o.key = op[w].key /\ o.at = op[w].at
    <3>1. ASSUME NEW d \in Coworkers, NEW e \in BOOLEAN
          PROVE  LET p == [op[w] EXCEPT !.pc = "load", !.about = d, !.skip = e] IN
                 /\ p \in Locals
                 /\ p.pc = "load" /\ p.seq = op[w].seq /\ p.do = op[w].do
                 /\ p.key = op[w].key /\ p.at = op[w].at
      BY <1>1 DEF Locals
    <3> QED
      BY <2>2, <2>3, <3>1
  <2> HIDE DEF o
  <2> QED
    BY <1>1, <2>1, <2>4, GoesOn
<1>4. ASSUME Loads(w)
      PROVE  RoutineInv'
  <2>0. op[w].pc = "load" /\ UNCHANGED <<log, past, view, claims, started, reach, now, faults>>
    BY <1>4 DEF Loads
  <2>1. CASE ~Decides(Agg, op[w])
    BY <1>1, <1>4, <2>0, <2>1, LetsGo DEF Loads
  <2>2. CASE Decides(Agg, op[w])
    <3> DEFINE n == Len(log)
               o == [op[w] EXCEPT !.pc = "append", !.seq = n]
    <3>1. Goes(w, o)
      BY <1>4, <2>2 DEF Loads
    <3>2. /\ o \in Locals /\ o.pc = "append" /\ o.seq = n /\ o.do = op[w].do /\ o.cron = op[w].cron
          /\ o.coworker = op[w].coworker /\ o.key = op[w].key /\ o.at = op[w].at
      BY <1>1, DecidesSet
    <3> HIDE DEF o
    <3>3. Decides(past[o.seq + 1], o)
      BY <2>2, <3>2 DEF Decides, MayDo, KeyHolds, Agg, Wake
    <3>4. op[w].do \in Dos
      BY <2>0 DEF RoutineInv, WritersOK
    <3>5. /\ o.do = "rotate" => /\ o.key \in Keys
                                /\ \A i \in DOMAIN past : past[i].key # o.key
          /\ \A v \in Writers \ {w} :
                (o.do = "rotate" \/ op[v].do = "rotate") => op[v].key # o.key
      BY <3>2, KeepsKey
    <3>6. Fits(w, o)
      BY <1>1, <3>2, <3>3, <3>4, <3>5 DEF Fits
    <3> QED
      BY <1>1, <2>0, <3>1, <3>2, <3>6, Moves
  <2> QED
    BY <2>1, <2>2
<1>5. ASSUME Conflicts(w)
      PROVE  RoutineInv'
  <2>0. op[w].pc = "append" /\ UNCHANGED <<log, past, view, claims, started, reach, now, faults>>
    BY <1>5 DEF Conflicts
  <2>1. CASE ~TriesAgain(w)
    BY <1>1, <1>5, <2>0, <2>1, LetsGo DEF Conflicts
  <2>2. CASE TriesAgain(w)
    <3> DEFINE n == op[w].tries + 1
               o == [op[w] EXCEPT !.pc = "load", !.tries = n]
    <3>1. Goes(w, o)
      BY <1>5, <2>2 DEF Conflicts
    <3>2. n \in {0, 1}
      BY <2>2 DEF TriesAgain
    <3> HIDE DEF n
    <3>3. o \in Locals /\ o.pc = "load" /\ o.seq = op[w].seq /\ o.do = op[w].do
          /\ o.key = op[w].key /\ o.at = op[w].at
      BY <1>1, <3>2, RetrySet
    <3> HIDE DEF o
    <3> QED
      BY <1>1, <2>0, <3>1, <3>3, GoesOn
  <2> QED
    BY <2>1, <2>2
<1>6. ASSUME Crash(w)
      PROVE  RoutineInv'
  <2>1. Goes(w, Idle) /\ UNCHANGED <<log, past, view, claims, started, reach, now>>
        /\ faults < MaxFaults /\ faults' = faults + 1
    BY <1>6 DEF Crash
  <2>2. faults' \in 0..MaxFaults
    BY <1>1, <2>1
  <2> QED
    BY <2>1, <2>2, LetsGo
<1> QED
  BY <1>2, <1>3, <1>4, <1>5, <1>6

-----------------------------------------------------------------------------
(* The steps that change more.                                              *)

\* A claim moves the row's clock past the time it was made at.
LEMMA ClaimsStep ==
    ASSUME RoutineInv, NEW w \in Writers, Claims(w)
    PROVE  RoutineInv'
<1>1. /\ op \in [Writers -> Locals] /\ op[w] \in Locals /\ now \in Nat /\ Len(log) \in Nat
      /\ op[w].seq <= Len(log) /\ op[w].seq \in Nat /\ op[w].at <= now /\ op[w].at \in Nat
      /\ faults \in 0..MaxFaults
  BY ShapeFacts, FaultsIn DEF RoutineInv, Shape, Locals
<1>2. op[w].pc = "claim"
  BY DEF Claims
<1>3. CASE ~IsDue(op[w].at)
  BY <1>1, <1>3, LetsGo DEF Claims
<1>4. CASE IsDue(op[w].at)
  <2> DEFINE c == view.coworker
             o == [op[w] EXCEPT !.pc = "reach", !.about = c]
             claim == [slot |-> view.due, seq |-> Len(log), at |-> op[w].at]
             d == NextSlot(w)
  <2>1. /\ view' = [view EXCEPT !.due = d] /\ claims' = Append(claims, claim) /\ Goes(w, o)
        /\ UNCHANGED <<log, past, started, reach, now, faults>>
    BY <1>4 DEF Claims
  <2>2. view \in Rows /\ c \in Coworkers /\ claims \in Seq(Claimed) /\ view.due \in Nat
        /\ view.due # Never /\ view.due <= op[w].at /\ view.active
    <3>1. view.due \in Times /\ MaxTime \in Nat
      BY ShapeFacts DEF RoutineInv, Shape, Rows
    <3> QED
      BY <1>4, <3>1 DEF IsDue, RoutineInv, Shape, Rows, Times
  <2>3. claim \in Claimed
    BY <1>1, <2>2 DEF Claimed, Rows
  <2>4. view.there /\ view.cron \in Crons \cup {NoClock}
    BY <2>2 DEF RoutineInv, RowFollowsLog, Rows
  <2>5. d \in Times /\ (d # Never => d \in view.cron /\ d > op[w].at)
    BY <1>1, <2>4, NextFireIs DEF NextSlot
  <2> HIDE DEF c
  <2>6. o \in Locals /\ o.pc = "reach" /\ o.seq = op[w].seq /\ o.do = op[w].do
        /\ o.key = op[w].key /\ o.at = op[w].at /\ o.about = c
    BY <1>1, <2>2, ReachSet
  <2> HIDE DEF o, d, claim
  <2>7. Fits(w, o)
    <3>1. op[w].do \in Dos
      BY <1>2 DEF RoutineInv, WritersOK
    <3>2. /\ o.do = "rotate" => /\ o.key \in Keys
                                /\ \A i \in DOMAIN past : past[i].key # o.key
          /\ \A v \in Writers \ {w} :
                (o.do = "rotate" \/ op[v].do = "rotate") => op[v].key # o.key
      BY <2>6, KeepsKey
    <3> QED
      BY <1>1, <2>2, <2>6, <3>1, <3>2 DEF Fits
  <2>8. WritersOK'
    <3>1. \A s \in started' : s \in started \/ (op[w].pc = "start" /\ s.event = op[w].seq)
      BY <2>1
    <3> QED
      BY <2>1, <2>6, <2>7, <3>1, WritersMove, Zenon
  <2>9. /\ view' \in Rows /\ view'.due = d /\ view'.there = view.there /\ view'.active = view.active
        /\ view'.cron = view.cron /\ view'.coworker = view.coworker /\ view'.key = view.key
    BY <2>1, <2>2, <2>5 DEF Rows
  <2>10. /\ claims' \in Seq(Claimed) /\ Len(claims) \in Nat
         /\ DOMAIN claims = 1..Len(claims) /\ DOMAIN claims' = 1..(Len(claims) + 1)
         /\ claims'[Len(claims) + 1] = claim
         /\ \A i \in 1..Len(claims) : claims'[i] = claims[i]
    BY <2>1, <2>2, <2>3, Grows
  <2>11. claim.slot = view.due /\ claim.seq = Len(log) /\ claim.at = op[w].at
    BY DEF claim
  <2>12. Shape'
    <3>1. op' \in [Writers -> Locals] /\ \A v \in Writers : op'[v].at <= now /\ op'[v].seq <= Len(log)
      <4>1. op' \in [Writers -> Locals] /\ op'[w] = o /\ \A v \in Writers \ {w} : op'[v] = op[v]
        BY <1>1, <2>1, <2>6, GoesIs
      <4> QED
        BY <2>7, <4>1 DEF Fits, RoutineInv, Shape
    <3>2. \A i \in DOMAIN claims' : claims'[i].seq <= Len(log) /\ claims'[i].at <= now
      <4> SUFFICES ASSUME NEW i \in DOMAIN claims'
                   PROVE  claims'[i].seq <= Len(log) /\ claims'[i].at <= now
        OBVIOUS
      <4>1. CASE i = Len(claims) + 1
        BY <1>1, <2>10, <2>11, <4>1
      <4>2. CASE i # Len(claims) + 1
        <5>1. i \in DOMAIN claims /\ claims'[i] = claims[i]
          BY <2>10, <4>2
        <5> QED
          BY <5>1 DEF RoutineInv, Shape
      <4> QED
        BY <4>1, <4>2
    <3> QED
      BY <2>1, <2>9, <2>10, <3>1, <3>2 DEF RoutineInv, Shape
  <2>13. HistoryOK'
    BY <1>1, <2>1, HistoryStands
  <2>14. RunsForItsCoworker'
    BY <2>1, <2>8, <2>12, RunsStand
  <2>15. RowFollowsLog'
    BY <2>1, <2>2, <2>4, <2>5, <2>9 DEF RoutineInv, RowFollowsLog, Agg
  <2>16. /\ \A i \in 1..Len(claims) : /\ claims[i].slot <= claims[i].at
                                      /\ claims[i].at < view.due /\ claims[i].slot < view.due
                                      /\ claims[i].at \in Nat /\ claims[i].slot \in Nat
         /\ \A n \in DOMAIN log : Sets(n) => log[n].at < view.due
    <3>1. \A i \in 1..Len(claims) : claims[i] \in Claimed
      BY <2>2, <2>10
    <3>2. \A i \in 1..Len(claims) : claims[i].at \in Nat /\ claims[i].slot \in Nat
      BY <3>1, ShapeFacts DEF Claimed, Times, RoutineInv
    <3>3. \A i \in 1..Len(claims) : claims[i].slot <= claims[i].at /\ claims[i].at < view.due
      BY <2>2, <2>10 DEF RoutineInv, ClockOK
    <3> QED
      BY <2>2, <3>2, <3>3 DEF RoutineInv, ClockOK
  <2>17. SlotOnce'
    <3> SUFFICES ASSUME NEW i \in DOMAIN claims', NEW j \in DOMAIN claims', i < j
                 PROVE  claims'[i].slot < claims'[j].slot
      BY DEF SlotOnce
    <3>1. i \in 1..Len(claims) /\ claims'[i] = claims[i]
      BY <2>10
    <3>2. CASE j = Len(claims) + 1
      BY <2>10, <2>11, <2>16, <3>1, <3>2
    <3>3. CASE j # Len(claims) + 1
      <4>1. j \in DOMAIN claims /\ i \in DOMAIN claims /\ claims'[j] = claims[j]
        BY <2>10, <3>1, <3>3
      <4> QED
        BY <3>1, <4>1 DEF RoutineInv, SlotOnce
    <3> QED
      BY <3>2, <3>3
  <2>18. NothingCaughtUp'
    <3> SUFFICES ASSUME NEW i \in DOMAIN claims'
                 PROVE  /\ i > 1 => claims'[i - 1].at < claims'[i].slot
                        /\ \A n \in 1..claims'[i].seq :
                              log[n].type = "resume" \/ past[n].cron # past[n + 1].cron
                                 => log[n].at < claims'[i].slot
      BY <2>1 DEF NothingCaughtUp
    <3>1. CASE i = Len(claims) + 1
      <4>1. claims'[i] = claim
        BY <2>10, <3>1
      <4>2. i > 1 => i - 1 \in 1..Len(claims) /\ claims'[i - 1] = claims[i - 1]
        BY <2>10, <3>1
      <4>3. DOMAIN log = 1..Len(log)
        BY ShapeFacts DEF RoutineInv
      <4> QED
        BY <2>11, <2>16, <4>1, <4>2, <4>3 DEF Sets
    <3>2. CASE i # Len(claims) + 1
      <4>1. i \in DOMAIN claims /\ claims'[i] = claims[i]
        BY <2>10, <3>2
      <4>2. i > 1 => claims'[i - 1] = claims[i - 1]
        BY <2>10, <4>1
      <4> QED
        BY <4>1, <4>2 DEF RoutineInv, NothingCaughtUp
    <3> QED
      BY <3>1, <3>2
  <2>19. ClockOK'
    <3>1. ASSUME NEW i \in DOMAIN claims'
          PROVE  claims'[i].slot <= claims'[i].at /\ (d # Never => claims'[i].at < d)
      <4>1. CASE i = Len(claims) + 1
        BY <1>1, <2>2, <2>5, <2>10, <2>11, <4>1
      <4>2. CASE i # Len(claims) + 1
        <5>1. i \in 1..Len(claims) /\ claims'[i] = claims[i]
          BY <2>10, <4>2
        <5>2. claims[i].at < view.due /\ claims[i].at \in Nat /\ claims[i].slot <= claims[i].at
          BY <2>16, <5>1
        <5>3. d # Never => d > op[w].at /\ d \in Nat
          BY <2>5, ShapeFacts DEF Times, RoutineInv
        <5> QED
          BY <1>1, <2>2, <5>1, <5>2, <5>3
      <4> QED
        BY <4>1, <4>2
    <3>2. ASSUME NEW n \in DOMAIN log, Sets(n), d # Never
          PROVE  log[n].at < d
      <4>1. log[n].at < view.due
        BY <2>16, <3>2
      <4>2. log[n].at \in Nat
        BY ShapeFacts DEF RoutineInv, Events, Times
      <4>3. d > op[w].at /\ d \in Nat
        BY <2>5, <3>2, ShapeFacts DEF Times, RoutineInv
      <4> QED
        BY <1>1, <2>2, <4>1, <4>2, <4>3
    <3>3. \A n \in DOMAIN log : Sets(n)' <=> Sets(n)
      BY <2>1 DEF Sets
    <3> QED
      BY <2>1, <2>9, <3>1, <3>2, <3>3 DEF ClockOK
  <2> QED
    BY <2>8, <2>12, <2>13, <2>14, <2>15, <2>17, <2>18, <2>19 DEF RoutineInv
<1> QED
  BY <1>3, <1>4

\* A run is started once for the firing on record, and for the coworker it was recorded with.
LEMMA StartsStep ==
    ASSUME RoutineInv, NEW w \in Writers, Starts(w)
    PROVE  RoutineInv'
<1>1. /\ op \in [Writers -> Locals] /\ op[w] \in Locals /\ now \in Nat /\ Len(log) \in Nat
      /\ DOMAIN log = 1..Len(log) /\ faults \in 0..MaxFaults
  BY ShapeFacts, FaultsIn DEF RoutineInv, Shape, Locals
<1>2. /\ Idle \in Locals /\ Idle.pc = "idle" /\ Idle.do = "none" /\ Idle.key = None
      /\ Idle.at = 0 /\ Idle.seq = 0
  BY IdleIs
<1> DEFINE e == op[w].seq
           new == [event |-> e, coworker |-> past[e + 1].coworker]
<1>3. /\ op[w].pc = "start" /\ started' = started \cup {new} /\ Goes(w, Idle)
      /\ UNCHANGED <<log, past, view, claims, reach, now, faults>>
  BY DEF Starts, RunsAs
<1>4. e \in DOMAIN log /\ log[e].type = "fired"
  BY <1>3 DEF RoutineInv, WritersOK
<1>5. past[e + 1].coworker = past[e].coworker /\ past[e + 1].coworker \in Coworkers
  <2>1. past[e + 1].coworker = past[e].coworker
    BY <1>4 DEF RoutineInv, HistoryOK
  <2>2. past[e + 1] \in Aggregates
    BY <1>4, ShapeFacts DEF RoutineInv
  <2> QED
    BY <2>1, <2>2 DEF Aggregates
<1>6. new.event = e /\ new.coworker = past[e].coworker /\ new \in [event : DOMAIN log, coworker : Coworkers]
  BY <1>4, <1>5
<1> HIDE DEF e, new
<1>7. Fits(w, Idle)
  <2>1. \A v \in Writers \ {w} : op[v].do = "rotate" => op[v].key # Idle.key
    BY <1>2, KeepsKey
  <2> QED
    BY <1>1, <1>2, <2>1 DEF Fits
<1>8. WritersOK'
  <2>1. \A s \in started' : s \in started \/ (op[w].pc = "start" /\ s.event = op[w].seq)
    BY <1>3, <1>6 DEF e
  <2> QED
    BY <1>2, <1>3, <1>7, <2>1, WritersMove
<1>9. Shape'
  <2>1. op' \in [Writers -> Locals] /\ op'[w] = Idle /\ \A v \in Writers \ {w} : op'[v] = op[v]
    BY <1>1, <1>2, <1>3, GoesIs
  <2>2. \A v \in Writers : op'[v].at <= now /\ op'[v].seq <= Len(log)
    BY <1>1, <1>2, <2>1 DEF RoutineInv, Shape
  <2>3. started' \subseteq [event : DOMAIN log, coworker : Coworkers]
    BY <1>3, <1>6 DEF RoutineInv, Shape
  <2> QED
    BY <1>3, <2>1, <2>2, <2>3 DEF RoutineInv, Shape
<1>10. RunsForItsCoworker'
  <2>1. \A s \in started' : log[s.event].type = "fired" /\ s.coworker = past[s.event].coworker
    BY <1>3, <1>4, <1>6 DEF RoutineInv, RunsForItsCoworker
  <2>2. \A s \in started' : \A v \in Writers : op'[v].pc = "start" => op'[v].seq # s.event
    BY <1>8 DEF WritersOK
  <2> QED
    BY <1>3, <2>1, <2>2 DEF RunsForItsCoworker
<1>11. HistoryOK'
  BY <1>1, <1>3, HistoryStands
<1> QED
  BY <1>3, <1>8, <1>9, <1>10, <1>11, ClockStands DEF RoutineInv

\* Time passes, and desktops come and go.
LEMMA WorldStep ==
    ASSUME RoutineInv, Tick \/ \E c \in Coworkers : ReachChanges(c)
    PROVE  RoutineInv'
<1>1. /\ UNCHANGED <<log, past, view, claims, op, started>>
      /\ reach' \in [Coworkers -> BOOLEAN]
      /\ now' \in 0..MaxTime /\ faults' \in 0..MaxFaults /\ now' >= now
  <2>1. /\ now \in 0..MaxTime /\ faults \in 0..MaxFaults /\ MaxTime \in Nat /\ MaxFaults \in Nat
        /\ reach \in [Coworkers -> BOOLEAN]
    BY ShapeFacts DEF RoutineInv, Shape
  <2>2. CASE Tick
    BY <2>1, <2>2 DEF Tick
  <2>3. ASSUME NEW c \in Coworkers, ReachChanges(c)
        PROVE  /\ UNCHANGED <<log, past, view, claims, op, started>>
               /\ reach' \in [Coworkers -> BOOLEAN]
               /\ now' \in 0..MaxTime /\ faults' \in 0..MaxFaults /\ now' >= now
    <3>1. reach' = [reach EXCEPT ![c] = ~reach[c]]
      BY <2>3 DEF ReachChanges
    <3>2. reach' \in [Coworkers -> BOOLEAN]
      BY <2>1, <3>1
    <3> QED
      BY <2>1, <2>3, <3>2 DEF ReachChanges
  <2> QED
    BY <2>2, <2>3
<1>2. now \in Nat /\ now' \in Nat
  BY <1>1, ShapeFacts DEF RoutineInv
<1>3. Shape'
  <2>1. \A w \in Writers : op[w].at <= now' /\ op[w].seq <= Len(log)
    <3>1. \A w \in Writers : op[w] \in Locals /\ op[w].at <= now /\ op[w].seq <= Len(log)
      BY DEF RoutineInv, Shape
    <3>2. \A w \in Writers : op[w].at \in Nat
      BY <3>1 DEF Locals
    <3> QED
      BY <1>1, <1>2, <3>1, <3>2
  <2>2. \A i \in DOMAIN claims : claims[i].seq <= Len(log) /\ claims[i].at <= now'
    <3>1. \A i \in DOMAIN claims : claims[i] \in Claimed /\ claims[i].seq <= Len(log) /\ claims[i].at <= now
      BY DEF RoutineInv, Shape
    <3>2. \A i \in DOMAIN claims : claims[i].at \in Nat
      BY <3>1 DEF Claimed
    <3> QED
      BY <1>1, <1>2, <3>1, <3>2
  <2> QED
    BY <1>1, <2>1, <2>2 DEF RoutineInv, Shape
<1>4. HistoryOK'
  BY <1>1, <1>2, HistoryStands
<1>5. WritersOK' /\ RunsForItsCoworker'
  BY <1>1 DEF RoutineInv, WritersOK, RunsForItsCoworker, FreshFor, Decides, MayDo, KeyHolds
<1> QED
  BY <1>1, <1>3, <1>4, <1>5, ClockStands DEF RoutineInv

-----------------------------------------------------------------------------
(* An append.                                                               *)

LEMMA AppliedIs ==
    ASSUME NEW a \in Aggregates, NEW o \in Locals, o.do \in Dos, Decides(a, o),
           o.do = "rotate" => o.key \in Keys
    PROVE  LET b == Applied(a, o) IN
           /\ b \in Aggregates /\ ~a.deleted
           /\ o.do # "rotate" => b.key = a.key
           /\ o.do = "rotate" => b.key = o.key
           /\ o.do \in Firings => b = a /\ MayFire(a, o.do)
           /\ o.do = "resume" => a.paused /\ ~b.paused
           /\ o.do = "webhook" => a.key = o.key
<1> DEFINE b == Applied(a, o)
<1>1. ~a.deleted /\ (o.do = "resume" => a.paused) /\ (o.do \in Firings => MayFire(a, o.do))
      /\ (o.do = "webhook" => a.key = o.key)
  BY DEF Decides, MayDo, KeyHolds
<1>2. CASE o.do = "update"
  <2> DEFINE c == Wake(a, o)
             h == IF o.coworker = None THEN a.coworker ELSE o.coworker
  <2>1. b = [a EXCEPT !.cron = c, !.coworker = h]
    BY <1>2 DEF Applied
  <2>2. c \in Crons \cup {NoClock} /\ h \in Coworkers
    BY DEF Wake, Aggregates, Locals, Same, NoClock
  <2> HIDE DEF b, c, h
  <2>3. b \in Aggregates /\ b.key = a.key
    BY <2>1, <2>2 DEF Aggregates
  <2> QED
    BY <1>1, <1>2, <2>3 DEF b, Firings
<1>3. CASE o.do = "pause"
  <2>1. b = [a EXCEPT !.paused = TRUE]
    BY <1>3 DEF Applied
  <2>2. b \in Aggregates /\ b.key = a.key
    BY <2>1 DEF Aggregates
  <2> QED
    BY <1>1, <1>3, <2>2 DEF Firings
<1>4. CASE o.do = "resume"
  <2>1. b = [a EXCEPT !.paused = FALSE]
    BY <1>4 DEF Applied
  <2>2. b \in Aggregates /\ b.key = a.key /\ ~b.paused
    BY <2>1 DEF Aggregates
  <2> QED
    BY <1>1, <1>4, <2>2 DEF Firings
<1>5. CASE o.do = "delete"
  <2>1. b = [a EXCEPT !.deleted = TRUE]
    BY <1>5 DEF Applied
  <2>2. b \in Aggregates /\ b.key = a.key
    BY <2>1 DEF Aggregates
  <2> QED
    BY <1>1, <1>5, <2>2 DEF Firings
<1>6. CASE o.do = "rotate"
  <2>1. b = [a EXCEPT !.key = o.key]
    BY <1>6 DEF Applied
  <2>2. b \in Aggregates /\ b.key = o.key
    BY <1>6, <2>1 DEF Aggregates
  <2> QED
    BY <1>1, <1>6, <2>2 DEF Firings
<1>7. CASE o.do \in Firings
  <2>1. b = a
    BY <1>7 DEF Applied, Firings
  <2> QED
    BY <1>1, <1>7, <2>1 DEF Firings
<1> QED
  BY <1>2, <1>3, <1>4, <1>5, <1>6, <1>7 DEF Dos

LEMMA EventIs ==
    ASSUME NEW o \in Locals, o.do \in Dos, now \in Times
    PROVE  LET e == Event(o) IN
           /\ e \in Events /\ e.at = now /\ e.cause = o.do /\ e.key = o.key
           /\ e.type \in {"fired", "skipped"} <=> o.do \in Firings
           /\ e.type = "resume" <=> o.do = "resume"
           /\ o.do = "rotate" => e.type = "rotate"
<1> DEFINE t == IF o.do \in Firings THEN IF o.skip THEN "skipped" ELSE "fired" ELSE o.do
<1>1. /\ t \in Dos \cup {"fired", "skipped"}
      /\ t \in {"fired", "skipped"} <=> o.do \in Firings
      /\ t = "resume" <=> o.do = "resume"
      /\ o.do = "rotate" => t = "rotate"
  BY DEF Dos, Firings
<1>2. Event(o) = [type |-> t, cause |-> o.do, key |-> o.key, at |-> now]
  BY DEF Event
<1>3. o.key \in Keys \cup {None}
  BY DEF Locals
<1> HIDE DEF t
<1> QED
  BY <1>1, <1>2, <1>3 DEF Events

\* The row after an append: due only at a time of the clock, and later than it was, or,
\* where the append set the clock, later than now.
LEMMA DueIs ==
    ASSUME view \in Rows, now \in Nat, NEW a \in Aggregates, NEW o,
           view.due # Never => view.active /\ view.due \in view.cron
    PROVE  LET d == Due(a, o) IN
           /\ d \in Times
           /\ d # Never => ~a.paused /\ d \in a.cron
           /\ d # Never =>
                 \/ d > now
                 \/ /\ view.cron = a.cron /\ view.active = ~a.paused
                    /\ view.due # Never /\ d >= view.due
           /\ view.cron = a.cron /\ view.active = ~a.paused /\ d # Never =>
                 view.due # Never /\ d >= view.due
<1> DEFINE new == IF a.paused THEN Never ELSE NextFire(a.cron, now)
           same == view.cron = a.cron /\ view.active = ~a.paused
           d == Due(a, o)
<1>1. /\ new \in Times
      /\ new # Never => ~a.paused /\ new \in a.cron /\ new > now
  <2>1. 0 \in Times
    BY RoutinesAssumption DEF Times
  <2>2. a.cron \in Crons \cup {NoClock}
    BY DEF Aggregates
  <2> QED
    BY <2>1, <2>2, NextFireIs DEF Never
<1>2. d = IF same THEN IF view.due = Never THEN Never ELSE Max({view.due, new}) ELSE new
  BY DEF Due
<1>3. \A t \in Times : t \in Nat
  BY RoutinesAssumption DEF Times
<1>4. view.due \in Times
  BY DEF Rows
<1>5. same /\ view.active => ~a.paused /\ view.cron = a.cron
  OBVIOUS
<1> DEFINE Right ==
       /\ d \in Times
       /\ d # Never => ~a.paused /\ d \in a.cron
       /\ d # Never => d > now \/ (same /\ view.due # Never /\ d >= view.due)
       /\ same /\ d # Never => view.due # Never /\ d >= view.due
<1> HIDE DEF new, d, same
<1>6. ASSUME ~same
      PROVE  Right
  BY <1>1, <1>2, <1>6
<1>7. ASSUME same /\ view.due = Never
      PROVE  Right
  BY <1>2, <1>4, <1>7
<1>8. ASSUME same /\ view.due # Never
      PROVE  Right
  <2>1. d = Max({view.due, new})
    BY <1>2, <1>8
  <2>2. view.due \in Nat /\ new \in Nat
    BY <1>1, <1>3, <1>4
  <2>3. d \in {view.due, new} /\ d >= view.due
    BY <2>1, <2>2, LaterIs
  <2>4. ~a.paused /\ view.due \in a.cron
    BY <1>5, <1>8
  <2>5. d \in Times /\ d \in a.cron
    BY <1>1, <1>4, <1>8, <2>2, <2>3, <2>4 DEF Never
  <2> QED
    BY <1>8, <2>3, <2>4, <2>5
<1>9. Right
  BY <1>6, <1>7, <1>8
<1> QED
  BY <1>9 DEF same, d

LEMMA ProjectedIs ==
    ASSUME view \in Rows, now \in Nat, NEW a \in Aggregates, NEW o,
           view.due # Never => view.active /\ view.due \in view.cron
    PROVE  LET p == Projected(a, o) IN
           /\ p \in Rows
           /\ a.deleted => ~p.there /\ p.due = Never
           /\ ~a.deleted => /\ p.there = view.there /\ p.active = ~a.paused /\ p.cron = a.cron
                            /\ p.coworker = a.coworker /\ p.key = a.key /\ p.due = Due(a, o)
<1> DEFINE p == Projected(a, o)
<1>1. CASE a.deleted
  <2>1. p = [view EXCEPT !.there = FALSE, !.active = FALSE, !.due = Never]
    BY <1>1 DEF Projected
  <2>2. 0 \in Times
    BY RoutinesAssumption DEF Times
  <2>3. p \in Rows /\ ~p.there /\ p.due = Never
    BY <2>1, <2>2 DEF Rows, Never
  <2> QED
    BY <1>1, <2>3
<1>2. CASE ~a.deleted
  <2> DEFINE d == Due(a, o)
             n == ~a.paused
  <2>1. p = [view EXCEPT !.active = n, !.cron = a.cron, !.coworker = a.coworker,
                         !.key = a.key, !.due = d]
    BY <1>2 DEF Projected
  <2>2. d \in Times
    BY DueIs
  <2>3. n \in BOOLEAN
    OBVIOUS
  <2>4. a.cron \in Crons \cup {NoClock} /\ a.coworker \in Coworkers /\ a.key \in Keys \cup {None}
    BY DEF Aggregates
  <2> HIDE DEF d, n
  <2>5. /\ p \in Rows
        /\ p.there = view.there /\ p.active = n /\ p.cron = a.cron
        /\ p.coworker = a.coworker /\ p.key = a.key /\ p.due = d
    BY <2>1, <2>2, <2>3, <2>4 DEF Rows
  <2> QED
    BY <1>2, <2>5 DEF d, n
<1> QED
  BY <1>1, <1>2

\* What an append does: its event is the log's next, decided on the state it follows.
AppendedAs(w, o) ==
    LET e == Event(op[w])
        b == Applied(Agg, op[w])
    IN
    /\ op[w] \in Locals /\ op[w].do \in Dos /\ op[w].at <= now
    /\ Decides(Agg, op[w]) /\ Agg \in Aggregates /\ Agg.deleted = FALSE
    /\ op[w].do = "rotate" => FreshFor(w)
    /\ log' \in Seq(Events) /\ Len(log') = Len(log) + 1 /\ Len(log) + 1 <= MaxLog
    /\ DOMAIN log' = 1..(Len(log) + 1) /\ DOMAIN log = 1..Len(log) /\ Len(log) \in Nat
    /\ log'[Len(log) + 1] = e /\ \A n \in 1..Len(log) : log'[n] = log[n]
    /\ past' \in Seq(Aggregates) /\ Len(past') = Len(log) + 2
    /\ DOMAIN past' = 1..(Len(log) + 2) /\ DOMAIN past = 1..(Len(log) + 1)
    /\ past'[Len(log) + 2] = b /\ past'[Len(log) + 1] = Agg
    /\ \A n \in 1..(Len(log) + 1) : past'[n] = past[n]
    /\ Agg' = b
    /\ view' = Projected(b, op[w])
    /\ Goes(w, o) /\ o \in Locals
    /\ \/ o.pc = "idle" /\ o.do = "none" /\ o.key = None /\ o.at = 0 /\ o.seq = 0
       \/ /\ e.type = "fired" /\ o.pc = "start" /\ o.do = op[w].do /\ o.key = op[w].key
          /\ o.at = op[w].at /\ o.seq = Len(log) + 1
    /\ UNCHANGED <<claims, started, reach, now, faults>>

LEMMA AppendsAs ==
    ASSUME RoutineInv, NEW w \in Writers, Appends(w)
    PROVE  \E o \in Locals : AppendedAs(w, o)
<1> DEFINE e == Event(op[w])
           b == Applied(Agg, op[w])
<1>1. /\ op \in [Writers -> Locals] /\ op[w] \in Locals /\ now \in Nat /\ Len(log) \in Nat
      /\ DOMAIN log = 1..Len(log) /\ op[w].at <= now /\ Agg \in Aggregates /\ now \in Times
      /\ log \in Seq(Events) /\ past \in Seq(Aggregates) /\ Len(past) = Len(log) + 1
      /\ MaxLog \in Nat
  BY ShapeFacts DEF RoutineInv, Shape
<1>2. op[w].pc = "append" /\ op[w].seq = Len(log) /\ Len(log) < MaxLog
  BY DEF Appends, Lost
<1>3. past[op[w].seq + 1] = Agg
  BY <1>2 DEF Agg
<1>4. /\ op[w].do \in Dos /\ Decides(Agg, op[w])
      /\ op[w].do = "rotate" => FreshFor(w)
  BY <1>2, <1>3 DEF RoutineInv, WritersOK
<1>5. b \in Aggregates /\ ~Agg.deleted
  <2>1. op[w].do = "rotate" => op[w].key \in Keys
    BY <1>4 DEF FreshFor
  <2> QED
    BY <1>1, <1>4, <2>1, AppliedIs
<1>6. e \in Events
  BY <1>1, <1>4, EventIs
<1>7. /\ log' = Append(log, e) /\ past' = Append(past, b) /\ view' = Projected(b, op[w])
      /\ UNCHANGED <<claims, started, reach, now, faults>>
      /\ IF e.type = "fired"
         THEN Goes(w, [op[w] EXCEPT !.pc = "start", !.seq = Len(log) + 1])
         ELSE Goes(w, Idle)
  BY <1>3 DEF Appends
<1> HIDE DEF e, b
<1>8. /\ log' \in Seq(Events) /\ Len(log') = Len(log) + 1
      /\ DOMAIN log' = 1..(Len(log) + 1)
      /\ log'[Len(log) + 1] = e /\ \A n \in 1..Len(log) : log'[n] = log[n]
  BY <1>1, <1>6, <1>7, Grows
<1>9. /\ past' \in Seq(Aggregates) /\ Len(past') = Len(past) + 1
      /\ DOMAIN past' = 1..(Len(past) + 1) /\ DOMAIN past = 1..Len(past)
      /\ past'[Len(past) + 1] = b /\ \A n \in 1..Len(past) : past'[n] = past[n]
  BY <1>1, <1>5, <1>7, Grows
<1>10. /\ Len(past') = Len(log) + 2
       /\ DOMAIN past' = 1..(Len(log) + 2) /\ DOMAIN past = 1..(Len(log) + 1)
       /\ past'[Len(log) + 2] = b
       /\ \A n \in 1..(Len(log) + 1) : past'[n] = past[n]
  <2>1. Len(past) + 1 = Len(log) + 2
    BY <1>1
  <2> QED
    BY <1>1, <1>9, <2>1
<1>11. past'[Len(log) + 1] = Agg
  BY <1>1, <1>10 DEF Agg
<1>12. Agg' = b
  <2>1. Agg' = past'[Len(log') + 1]
    BY DEF Agg
  <2>2. Len(log') + 1 = Len(log) + 2
    BY <1>1, <1>8
  <2> QED
    BY <1>10, <2>1, <2>2
<1>13. \E o \in Locals :
          /\ Goes(w, o)
          /\ \/ o.pc = "idle" /\ o.do = "none" /\ o.key = None /\ o.at = 0 /\ o.seq = 0
             \/ /\ e.type = "fired" /\ o.pc = "start" /\ o.do = op[w].do /\ o.key = op[w].key
                /\ o.at = op[w].at /\ o.seq = Len(log) + 1
  <2>1. CASE e.type = "fired"
    <3> DEFINE n == Len(log) + 1
               o == [op[w] EXCEPT !.pc = "start", !.seq = n]
    <3>1. n \in Nat
      BY <1>1
    <3>2. Goes(w, o)
      BY <1>7, <2>1
    <3> HIDE DEF n
    <3>3. /\ o \in Locals /\ o.pc = "start" /\ o.seq = n /\ o.do = op[w].do
          /\ o.key = op[w].key /\ o.at = op[w].at
      BY <1>1, <3>1, StartSet
    <3> HIDE DEF o
    <3> QED
      BY <2>1, <3>2, <3>3 DEF n
  <2>2. CASE e.type # "fired"
    BY <1>7, <2>2, IdleIs
  <2> QED
    BY <2>1, <2>2
<1> QED
  BY <1>1, <1>2, <1>4, <1>5, <1>7, <1>8, <1>10, <1>11, <1>12, <1>13 DEF AppendedAs, e, b

\* What the event and the aggregate after it are.
LEMMA AppendedIs ==
    ASSUME RoutineInv, NEW w \in Writers, NEW o \in Locals, AppendedAs(w, o)
    PROVE  LET e == log'[Len(log) + 1]
               b == past'[Len(log) + 2]
               d == op[w].do
           IN
           /\ e.at = now /\ e.cause = d /\ e.key = op[w].key
           /\ e.type \in {"fired", "skipped"} <=> d \in Firings
           /\ e.type = "resume" <=> d = "resume"
           /\ d = "rotate" => e.type = "rotate" /\ b.key = op[w].key
           /\ d # "rotate" => b.key = Agg.key
           /\ d \in Firings => b = Agg /\ MayFire(Agg, d)
           /\ d = "resume" => Agg.paused /\ ~b.paused
           /\ d = "webhook" => Agg.key = op[w].key
           /\ b \in Aggregates
<1>1. op[w] \in Locals /\ op[w].do \in Dos /\ now \in Times /\ Decides(Agg, op[w])
      /\ Agg \in Aggregates /\ (op[w].do = "rotate" => op[w].key \in Keys)
  BY ShapeFacts DEF AppendedAs, FreshFor, RoutineInv
<1>2. log'[Len(log) + 1] = Event(op[w]) /\ past'[Len(log) + 2] = Applied(Agg, op[w])
  BY DEF AppendedAs
<1>3. LET e == Event(op[w]) IN
           /\ e.at = now /\ e.cause = op[w].do /\ e.key = op[w].key
           /\ e.type \in {"fired", "skipped"} <=> op[w].do \in Firings
           /\ e.type = "resume" <=> op[w].do = "resume"
           /\ op[w].do = "rotate" => e.type = "rotate"
  BY <1>1, EventIs
<1>4. LET b == Applied(Agg, op[w]) IN
           /\ b \in Aggregates
           /\ op[w].do # "rotate" => b.key = Agg.key
           /\ op[w].do = "rotate" => b.key = op[w].key
           /\ op[w].do \in Firings => b = Agg /\ MayFire(Agg, op[w].do)
           /\ op[w].do = "resume" => Agg.paused /\ ~b.paused
           /\ op[w].do = "webhook" => Agg.key = op[w].key
  BY <1>1, AppliedIs
<1> QED
  BY <1>2, <1>3, <1>4

LEMMA AppendedHistory ==
    ASSUME RoutineInv, NEW w \in Writers, NEW o \in Locals, AppendedAs(w, o)
    PROVE  HistoryOK'
<1> DEFINE N == Len(log) + 1
<1>1. /\ N \in Nat /\ DOMAIN log' = 1..N /\ DOMAIN log = 1..Len(log) /\ now' = now /\ now \in Nat
      /\ \A n \in 1..Len(log) : log'[n] = log[n] /\ past'[n] = past[n] /\ past'[n + 1] = past[n + 1]
      /\ past'[N] = Agg /\ past[N] = Agg /\ N + 1 = Len(log) + 2
      /\ \A n \in 1..N : past'[n] = past[n]
  <2>1. Len(log) \in Nat /\ \A n \in 1..Len(log) : n \in 1..N /\ n + 1 \in 1..N
    BY DEF AppendedAs
  <2>2. N \in Nat /\ N + 1 = Len(log) + 2 /\ past[N] = Agg
    BY <2>1 DEF Agg
  <2>3. now' = now /\ now \in Nat
    BY ShapeFacts DEF AppendedAs, RoutineInv
  <2>4. /\ DOMAIN log' = 1..N /\ DOMAIN log = 1..Len(log)
        /\ \A n \in 1..Len(log) : log'[n] = log[n]
        /\ past'[N] = Agg /\ \A n \in 1..N : past'[n] = past[n]
    BY DEF AppendedAs
  <2> HIDE DEF N
  <2>5. \A n \in 1..Len(log) : past'[n] = past[n] /\ past'[n + 1] = past[n + 1]
    BY <2>1, <2>4
  <2> QED
    BY <2>2, <2>3, <2>4, <2>5
<1>2. LET e == log'[N]
          b == past'[N + 1]
          d == op[w].do
      IN
      /\ e.at = now /\ e.cause = d /\ e.key = op[w].key
      /\ e.type \in {"fired", "skipped"} <=> d \in Firings
      /\ d = "rotate" => e.type = "rotate" /\ b.key = op[w].key
      /\ d # "rotate" => b.key = Agg.key
      /\ d \in Firings => b = Agg /\ MayFire(Agg, d)
      /\ d = "webhook" => Agg.key = op[w].key
  BY <1>1, AppendedIs
<1>3. op[w].do = "rotate" => \A n \in 1..N : past[n].key # op[w].key
  BY DEF AppendedAs, FreshFor
<1> SUFFICES ASSUME NEW n \in 1..N
             PROVE  /\ log'[n].type \in {"fired", "skipped"} =>
                          ~past'[n].deleted /\ (past'[n].paused => log'[n].cause = "manual")
                    /\ log'[n].cause = "webhook" => log'[n].key = past'[n].key
                    /\ past'[n + 1].key # past'[n].key =>
                          /\ log'[n].type = "rotate"
                          /\ \A m \in 1..n : past'[m].key # past'[n + 1].key
                    /\ log'[n].at <= now
                    /\ log'[n].type = "fired" => past'[n + 1].coworker = past'[n].coworker
  BY <1>1 DEF HistoryOK, PausedIsQuiet, RotatedKeyIsDead
<1>4. CASE n = N
  <2>1. past'[n] = Agg /\ \A m \in 1..n : past'[m] = past[m]
    BY <1>1, <1>4
  <2>2. /\ log'[n].type \in {"fired", "skipped"} =>
              ~past'[n].deleted /\ (past'[n].paused => log'[n].cause = "manual")
        /\ log'[n].type = "fired" => past'[n + 1].coworker = past'[n].coworker
    BY <1>2, <1>4, <2>1 DEF MayFire
  <2>3. /\ log'[n].cause = "webhook" => log'[n].key = past'[n].key
        /\ log'[n].at <= now
    BY <1>1, <1>2, <1>4, <2>1
  <2>4. past'[n + 1].key # past'[n].key =>
              /\ log'[n].type = "rotate"
              /\ \A m \in 1..n : past'[m].key # past'[n + 1].key
    BY <1>2, <1>3, <1>4, <2>1
  <2> QED
    BY <2>2, <2>3, <2>4
<1>5. CASE n # N
  <2>1. n \in 1..Len(log) /\ \A m \in 1..n : m \in 1..N
    BY <1>1, <1>5
  <2>2. log'[n] = log[n] /\ past'[n] = past[n] /\ past'[n + 1] = past[n + 1]
        /\ \A m \in 1..n : past'[m] = past[m]
    BY <1>1, <2>1
  <2>3. n \in DOMAIN log
    BY <1>1, <2>1
  <2> QED
    BY <2>2, <2>3 DEF RoutineInv, HistoryOK, PausedIsQuiet, RotatedKeyIsDead
<1> QED
  BY <1>4, <1>5

\* An append leaves the other writers what they know, and its own run to be started.
LEMMA AppendedWriters ==
    ASSUME RoutineInv, NEW w \in Writers, NEW o \in Locals, AppendedAs(w, o)
    PROVE  WritersOK'
<1> DEFINE N == Len(log) + 1
<1>1. op' \in [Writers -> Locals] /\ op'[w] = o /\ \A v \in Writers \ {w} : op'[v] = op[v]
  <2>1. op \in [Writers -> Locals] /\ Goes(w, o)
    BY DEF AppendedAs, RoutineInv, Shape
  <2> QED
    BY <2>1, GoesIs
<1>2. /\ Len(log) \in Nat /\ DOMAIN log' = 1..N /\ DOMAIN log = 1..Len(log)
      /\ \A n \in 1..Len(log) : log'[n] = log[n]
      /\ \A n \in 1..N : past'[n] = past[n]
      /\ DOMAIN past = 1..N /\ DOMAIN past' = 1..(N + 1)
      /\ started' = started
      /\ past[N] = Agg
  <2>1. N + 1 = Len(log) + 2
    BY DEF AppendedAs
  <2> QED
    BY <2>1 DEF AppendedAs, Agg
<1>3. LET e == log'[N]
          b == past'[N + 1]
          d == op[w].do
      IN
      /\ e.type \in {"fired", "skipped"} <=> d \in Firings
      /\ d = "rotate" => b.key = op[w].key
      /\ d # "rotate" => b.key = Agg.key
  <2>1. N + 1 = Len(log) + 2
    BY <1>2
  <2> QED
    BY <2>1, AppendedIs
<1>4. \A s \in started : s.event \in DOMAIN log
  BY DEF RoutineInv, Shape
<1>5. \A v \in Writers : op[v].seq <= Len(log) /\ op[v].seq \in Nat
  BY DEF RoutineInv, Shape, Locals
<1>6. \/ o.pc = "idle" /\ o.do = "none" /\ o.key = None
      \/ /\ log'[N].type = "fired" /\ o.pc = "start" /\ o.do = op[w].do /\ o.key = op[w].key
         /\ o.seq = N
  BY DEF AppendedAs
<1>7. None \notin Keys /\ op[w].do \in Dos
  BY RoutinesAssumption DEF AppendedAs
<1> HIDE DEF N
<1> SUFFICES ASSUME NEW x \in Writers
             PROVE  (/\ op[x].pc # "idle" => op[x].do \in Dos
                     /\ op[x].pc \in {"claim", "reach"} /\ op[x].do # "webhook" =>
                           op[x].pc = "claim" \/ op[x].about \in Coworkers
                     /\ op[x].pc = "append" => Decides(past[op[x].seq + 1], op[x])
                     /\ op[x].do = "rotate" => FreshFor(x)
                     /\ op[x].pc = "start" =>
                           /\ op[x].seq \in DOMAIN log /\ log[op[x].seq].type = "fired"
                           /\ \A s \in started : s.event # op[x].seq
                           /\ \A v \in Writers \ {x} : op[v].pc = "start" => op[v].seq # op[x].seq)'
  BY DEF WritersOK
<1>8. CASE x = w
  <2>1. op'[x] = o
    BY <1>1, <1>8
  <2>2. o.do # "rotate"
    BY <1>3, <1>6 DEF Firings
  <2>3. o.pc = "start" =>
            /\ o.seq \in DOMAIN log' /\ log'[o.seq].type = "fired"
            /\ \A s \in started' : s.event # o.seq
            /\ \A v \in Writers \ {x} : op'[v].pc = "start" => op'[v].seq # o.seq
    <3>1. N \in DOMAIN log' /\ N \notin DOMAIN log /\ \A v \in Writers : op[v].seq # N
      BY <1>2, <1>5 DEF N
    <3> QED
      BY <1>1, <1>2, <1>4, <1>6, <1>8, <3>1
  <2> QED
    BY <1>6, <1>7, <2>1, <2>2, <2>3
<1>9. CASE x # w
  <2>1. op'[x] = op[x]
    BY <1>1, <1>9
  <2>2. /\ op[x].pc # "idle" => op[x].do \in Dos
        /\ op[x].pc \in {"claim", "reach"} /\ op[x].do # "webhook" =>
              op[x].pc = "claim" \/ op[x].about \in Coworkers
        /\ op[x].pc = "append" => Decides(past[op[x].seq + 1], op[x])
        /\ op[x].do = "rotate" => FreshFor(x)
        /\ op[x].pc = "start" =>
              /\ op[x].seq \in DOMAIN log /\ log[op[x].seq].type = "fired"
              /\ \A s \in started : s.event # op[x].seq
              /\ \A v \in Writers \ {x} : op[v].pc = "start" => op[v].seq # op[x].seq
    BY DEF RoutineInv, WritersOK
  <2>3. op[x].do = "rotate" => FreshFor(x)'
    <3> SUFFICES ASSUME op[x].do = "rotate"
                 PROVE  FreshFor(x)'
      OBVIOUS
    <3>1. op[x].key \in Keys /\ op[w].key # op[x].key /\ \A i \in 1..N : past[i].key # op[x].key
      BY <1>2, <1>9, <2>2 DEF FreshFor
    <3>2. \A v \in Writers \ {x} : op'[v].key # op[x].key
      BY <1>1, <1>6, <1>7, <2>2, <3>1 DEF FreshFor
    <3>3. past'[N + 1].key # op[x].key
      <4>1. N \in 1..N
        BY <1>2 DEF N
      <4> QED
        BY <1>2, <1>3, <3>1, <4>1
    <3>4. \A i \in DOMAIN past' : past'[i].key # op[x].key
      <4>1. \A i \in 1..(N + 1) : i = N + 1 \/ i \in 1..N
        BY <1>2 DEF N
      <4> QED
        BY <1>2, <3>1, <3>3, <4>1
    <3> QED
      BY <2>1, <3>1, <3>2, <3>4 DEF FreshFor
  <2>4. op[x].pc = "start" =>
            /\ op[x].seq \in DOMAIN log' /\ log'[op[x].seq].type = "fired"
            /\ \A v \in Writers \ {x} : op'[v].pc = "start" => op'[v].seq # op[x].seq
    <3> SUFFICES ASSUME op[x].pc = "start"
                 PROVE  /\ op[x].seq \in DOMAIN log' /\ log'[op[x].seq].type = "fired"
                        /\ \A v \in Writers \ {x} : op'[v].pc = "start" => op'[v].seq # op[x].seq
      OBVIOUS
    <3>1. op[x].seq \in 1..Len(log) /\ op[x].seq \in 1..N /\ op[x].seq # N
      BY <1>2, <1>5, <2>2 DEF N
    <3> QED
      BY <1>1, <1>2, <1>6, <2>2, <3>1
  <2>5. op[x].pc = "append" => Decides(past'[op[x].seq + 1], op[x])
    <3>1. op[x].seq + 1 \in 1..N
      BY <1>2, <1>5 DEF N
    <3> QED
      BY <1>2, <2>2, <3>1
  <2> QED
    BY <1>2, <2>1, <2>2, <2>3, <2>4, <2>5 DEF Decides, MayDo, KeyHolds
<1> QED
  BY <1>8, <1>9

\* The row follows the log, and its clock goes only forward or is set past the present.
LEMMA AppendedClock ==
    ASSUME RoutineInv, NEW w \in Writers, NEW o \in Locals, AppendedAs(w, o)
    PROVE  view' \in Rows /\ RowFollowsLog' /\ ClockOK' /\ SlotOnce' /\ NothingCaughtUp'
<1> DEFINE N == Len(log) + 1
           b == past'[N + 1]
           d == Due(b, op[w])
           same == view.cron = b.cron /\ view.active = ~b.paused
<1>1. /\ N \in Nat /\ N + 1 = Len(log) + 2 /\ DOMAIN log' = 1..N /\ DOMAIN log = 1..Len(log)
      /\ \A n \in 1..Len(log) : log'[n] = log[n]
      /\ \A n \in 1..N : past'[n] = past[n]
      /\ past'[N] = Agg /\ past[N] = Agg /\ Len(log) \in Nat
      /\ claims' = claims /\ Agg' = b /\ view' = Projected(b, op[w]) /\ ~Agg.deleted
  <2>1. Len(log) \in Nat
    BY DEF AppendedAs
  <2>2. N \in Nat /\ N + 1 = Len(log) + 2 /\ past[N] = Agg
    BY <2>1 DEF Agg
  <2> HIDE DEF N, b
  <2>3. b = past'[Len(log) + 2]
    BY <2>2 DEF b
  <2> QED
    BY <2>1, <2>2, <2>3 DEF AppendedAs, N
<1>2. /\ log'[N].at = now /\ b \in Aggregates
      /\ log'[N].type = "resume" => Agg.paused /\ ~b.paused
  <2> HIDE DEF N
  <2>1. log'[N] = log'[Len(log) + 1] /\ b = past'[Len(log) + 2]
    BY <1>1 DEF N
  <2> QED
    BY <2>1, AppendedIs
<1>3. /\ view \in Rows /\ now \in Nat /\ view.there /\ view.cron = Agg.cron
      /\ view.active = ~Agg.paused
      /\ view.due # Never => view.active /\ view.due \in view.cron
  BY <1>1, ShapeFacts DEF RoutineInv, Shape, RowFollowsLog
<1>4. /\ d \in Times
      /\ d # Never => ~b.paused /\ d \in b.cron
      /\ d # Never => d > now \/ (same /\ view.due # Never /\ d >= view.due)
      /\ same /\ d # Never => view.due # Never /\ d >= view.due
  BY <1>2, <1>3, DueIs
<1>5. /\ view' \in Rows
      /\ b.deleted => ~view'.there /\ view'.due = Never
      /\ ~b.deleted => /\ view'.there = view.there /\ view'.active = ~b.paused /\ view'.cron = b.cron
                       /\ view'.coworker = b.coworker /\ view'.key = b.key /\ view'.due = d
  <2> HIDE DEF N, b
  <2>1. LET p == Projected(b, op[w]) IN
        /\ p \in Rows
        /\ b.deleted => ~p.there /\ p.due = Never
        /\ ~b.deleted => /\ p.there = view.there /\ p.active = ~b.paused /\ p.cron = b.cron
                         /\ p.coworker = b.coworker /\ p.key = b.key /\ p.due = d
    BY <1>2, <1>3, ProjectedIs
  <2>2. view' = Projected(b, op[w])
    BY <1>1
  <2> QED
    BY <2>1, <2>2, Zenon
<1>6. log'[N].type = "resume" \/ past'[N].cron # past'[N + 1].cron => ~same
  BY <1>1, <1>2, <1>3
<1>7. \A t \in Times : t \in Nat
  BY RoutinesAssumption DEF Times
<1>8. view.due \in Nat /\ d \in Nat
  BY <1>3, <1>4, <1>7 DEF Rows
<1> HIDE DEF d, same
<1>9. RowFollowsLog'
  <2>1. b.deleted \in BOOLEAN /\ view'.there \in BOOLEAN
    BY <1>2, <1>5 DEF Aggregates, Rows
  <2>2. CASE b.deleted
    BY <1>1, <1>5, <2>1, <2>2 DEF RowFollowsLog
  <2>3. CASE ~b.deleted
    <3>1. view'.there /\ view'.due = d /\ view'.active = ~b.paused
      BY <1>3, <1>5, <2>3
    <3> HIDE DEF b
    <3> QED
      BY <1>1, <1>4, <1>5, <2>3, <3>1 DEF RowFollowsLog
  <2> QED
    BY <2>2, <2>3
<1>10. view'.due = Never \/ view'.due = d
  BY <1>5
<1>11. ASSUME view'.due # Never, NEW t \in Nat, t <= now, view.due # Never => t < view.due
       PROVE  t < view'.due
  BY <1>3, <1>4, <1>8, <1>10, <1>11
<1>12. ClockOK'
  <2>1. ASSUME NEW i \in DOMAIN claims
        PROVE  /\ claims[i].slot <= claims[i].at
               /\ view'.due # Never => claims[i].at < view'.due
    <3>1. claims[i] \in Claimed /\ claims[i].at <= now
      BY DEF RoutineInv, Shape
    <3>2. claims[i].at \in Nat
      BY <3>1 DEF Claimed
    <3>3. claims[i].slot <= claims[i].at /\ (view.due # Never => claims[i].at < view.due)
      BY DEF RoutineInv, ClockOK
    <3> QED
      BY <1>11, <3>1, <3>2, <3>3
  <2>2. ASSUME NEW n \in 1..N, log'[n].type = "resume" \/ past'[n].cron # past'[n + 1].cron,
               view'.due # Never
        PROVE  log'[n].at < view'.due
    <3>1. CASE n = N
      <4>1. ~same
        BY <1>6, <2>2, <3>1
      <4>2. d > now
        BY <1>4, <1>10, <2>2, <4>1
      <4> QED
        BY <1>2, <1>3, <1>8, <1>10, <2>2, <3>1, <4>2
    <3>2. CASE n # N
      <4>1. n \in 1..Len(log) /\ n + 1 \in 1..N
        BY <1>1, <3>2
      <4>2. n \in DOMAIN log /\ log'[n] = log[n] /\ past'[n] = past[n] /\ past'[n + 1] = past[n + 1]
        BY <1>1, <4>1
      <4>3. log[n].at \in Nat /\ log[n].at <= now
        <5>1. log[n] \in Events
          BY <4>2, ShapeFacts DEF RoutineInv
        <5> QED
          BY <1>7, <4>2, <5>1 DEF Events, RoutineInv, HistoryOK
      <4>4. view.due # Never => log[n].at < view.due
        BY <2>2, <4>2 DEF RoutineInv, ClockOK, Sets
      <4> QED
        BY <1>11, <2>2, <4>2, <4>3, <4>4
    <3> QED
      BY <3>1, <3>2
  <2> QED
    BY <1>1, <2>1, <2>2 DEF ClockOK, Sets
<1>13. SlotOnce' /\ NothingCaughtUp'
  <2>1. SlotOnce'
    BY <1>1 DEF RoutineInv, SlotOnce
  <2>2. ASSUME NEW i \in DOMAIN claims, NEW n \in 1..claims[i].seq,
               log'[n].type = "resume" \/ past'[n].cron # past'[n + 1].cron
        PROVE  log'[n].at < claims[i].slot
    <3>1. claims[i] \in Claimed /\ claims[i].seq <= Len(log)
      BY DEF RoutineInv, Shape
    <3>2. claims[i].seq \in Nat
      BY <3>1 DEF Claimed
    <3>3. n \in 1..Len(log) /\ n \in 1..N /\ n + 1 \in 1..N
      BY <1>1, <3>1, <3>2
    <3>4. log'[n] = log[n] /\ past'[n] = past[n] /\ past'[n + 1] = past[n + 1]
      BY <1>1, <3>3
    <3> QED
      BY <2>2, <3>4 DEF RoutineInv, NothingCaughtUp
  <2>3. \A i \in DOMAIN claims : i > 1 => claims[i - 1].at < claims[i].slot
    BY DEF RoutineInv, NothingCaughtUp
  <2> QED
    BY <1>1, <2>1, <2>2, <2>3 DEF NothingCaughtUp
<1> QED
  BY <1>5, <1>9, <1>12, <1>13

LEMMA AppendsStep ==
    ASSUME RoutineInv, NEW w \in Writers, Appends(w)
    PROVE  RoutineInv'
<1>1. PICK o \in Locals : AppendedAs(w, o)
  BY AppendsAs
<1>2. WritersOK' /\ HistoryOK'
  BY <1>1, AppendedWriters, AppendedHistory
<1>3. view' \in Rows /\ RowFollowsLog' /\ ClockOK' /\ SlotOnce' /\ NothingCaughtUp'
  BY <1>1, AppendedClock
<1>4. /\ log' \in Seq(Events) /\ Len(log') = Len(log) + 1 /\ Len(log) + 1 <= MaxLog
      /\ DOMAIN log' = 1..(Len(log) + 1) /\ DOMAIN log = 1..Len(log) /\ Len(log) \in Nat
      /\ \A n \in 1..Len(log) : log'[n] = log[n]
      /\ past' \in Seq(Aggregates) /\ Len(past') = Len(log) + 2
      /\ \A n \in 1..(Len(log) + 1) : past'[n] = past[n]
      /\ UNCHANGED <<claims, started, reach, now, faults>>
  BY <1>1 DEF AppendedAs
<1>5. op' \in [Writers -> Locals] /\ op'[w] = o /\ \A v \in Writers \ {w} : op'[v] = op[v]
  <2>1. op \in [Writers -> Locals] /\ Goes(w, o)
    BY <1>1 DEF AppendedAs, RoutineInv, Shape
  <2> QED
    BY <2>1, GoesIs
<1>6. \A v \in Writers : op'[v].at <= now /\ op'[v].seq <= Len(log')
  <2>1. now \in Nat
    BY ShapeFacts DEF RoutineInv
  <2>2. o.at <= now /\ o.seq <= Len(log')
    BY <1>1, <1>4, <2>1 DEF AppendedAs
  <2>3. \A v \in Writers : op[v].at <= now /\ op[v].seq <= Len(log) /\ op[v].seq \in Nat
    BY DEF RoutineInv, Shape, Locals
  <2>4. \A v \in Writers : op[v].seq <= Len(log')
    BY <1>4, <2>3
  <2> QED
    BY <1>5, <2>2, <2>3, <2>4
<1>7. \A i \in DOMAIN claims : claims[i].seq <= Len(log') /\ claims[i].at <= now
  <2>1. \A i \in DOMAIN claims : claims[i] \in Claimed /\ claims[i].seq <= Len(log) /\ claims[i].at <= now
    BY DEF RoutineInv, Shape
  <2>2. \A i \in DOMAIN claims : claims[i].seq \in Nat
    BY <2>1 DEF Claimed
  <2> QED
    BY <1>4, <2>1, <2>2
<1>8. started' \subseteq [event : DOMAIN log', coworker : Coworkers]
  <2>1. DOMAIN log \subseteq DOMAIN log'
    BY <1>4
  <2> QED
    BY <1>4, <2>1 DEF RoutineInv, Shape
<1>9. Shape'
  <2>1. Len(past') = Len(log') + 1 /\ Len(log') <= MaxLog
    BY <1>4
  <2> QED
    BY <1>3, <1>4, <1>5, <1>6, <1>7, <1>8, <2>1 DEF RoutineInv, Shape
<1>10. RunsForItsCoworker'
  <2>1. \A s \in started : /\ s.event \in DOMAIN log
                           /\ log[s.event].type = "fired" /\ s.coworker = past[s.event].coworker
    BY DEF RoutineInv, Shape, RunsForItsCoworker
  <2>2. \A s \in started : log'[s.event] = log[s.event] /\ past'[s.event] = past[s.event]
    <3>1. \A n \in DOMAIN log : n \in 1..Len(log) /\ n \in 1..(Len(log) + 1)
      BY <1>4
    <3> QED
      BY <1>4, <2>1, <3>1
  <2>3. \A s \in started' : \A v \in Writers : op'[v].pc = "start" => op'[v].seq # s.event
    BY <1>2 DEF WritersOK
  <2> QED
    BY <1>4, <2>1, <2>2, <2>3 DEF RunsForItsCoworker
<1> QED
  BY <1>2, <1>3, <1>9, <1>10 DEF RoutineInv

-----------------------------------------------------------------------------
(* Every run of a routine.                                                  *)

LEMMA RoutineInit == Init => RoutineInv
<1> SUFFICES ASSUME Init
             PROVE  RoutineInv
  OBVIOUS
<1>1. /\ MaxTime \in Nat /\ MaxLog \in Nat /\ MaxFaults \in Nat /\ 0 \in Times
  BY RoutinesAssumption DEF Times
<1>2. PICK cron \in Crons \cup {NoClock}, coworker \in Coworkers, key \in Keys \cup {None} :
          /\ past = <<[paused |-> FALSE, deleted |-> FALSE, cron |-> cron,
                       coworker |-> coworker, key |-> key]>>
          /\ view = [there |-> TRUE, active |-> TRUE, cron |-> cron, coworker |-> coworker,
                     key |-> key, due |-> NextFire(cron, 0)]
  BY DEF Init
<1>3. /\ log = <<>> /\ claims = <<>> /\ op = [w \in Writers |-> Idle] /\ started = {}
      /\ reach = [c \in Coworkers |-> TRUE] /\ now = 0 /\ faults = 0
  BY DEF Init
<1> DEFINE a == [paused |-> FALSE, deleted |-> FALSE, cron |-> cron,
                 coworker |-> coworker, key |-> key]
           d == NextFire(cron, 0)
<1>4. a \in Aggregates /\ ~a.paused /\ ~a.deleted /\ a.cron = cron /\ a.coworker = coworker /\ a.key = key
  BY DEF Aggregates
<1>5. d \in Times /\ (d # Never => d \in cron /\ d > 0)
  BY NextFireIs
<1> HIDE DEF a, d
<1>6. /\ past = <<a>> /\ past \in Seq(Aggregates) /\ Len(past) = 1
      /\ log \in Seq(Events) /\ Len(log) = 0 /\ DOMAIN log = {}
      /\ claims \in Seq(Claimed) /\ DOMAIN claims = {}
  <2>1. past = <<a>>
    BY <1>2 DEF a
  <2>2. past \in Seq(Aggregates) /\ Len(past) = 1
    BY <1>4, <2>1
  <2>3. log \in Seq(Events) /\ Len(log) = 0 /\ claims \in Seq(Claimed)
    BY <1>3
  <2>4. DOMAIN log = {} /\ DOMAIN claims = {}
    BY <1>3
  <2> QED
    BY <2>1, <2>2, <2>3, <2>4
<1>7. Agg = a
  BY <1>6 DEF Agg
<1>8. /\ view \in Rows /\ view.there /\ view.active /\ view.cron = cron /\ view.coworker = coworker
      /\ view.key = key /\ view.due = d
  <2>1. view = [there |-> TRUE, active |-> TRUE, cron |-> cron, coworker |-> coworker,
                key |-> key, due |-> d]
    BY <1>2 DEF d
  <2> QED
    BY <1>5, <2>1 DEF Rows
<1>9. /\ op \in [Writers -> Locals]
      /\ \A w \in Writers : op[w].pc = "idle" /\ op[w].do = "none" /\ op[w].at = 0 /\ op[w].seq = 0
  BY <1>3, IdleIs
<1>10. Shape
  <2>1. \A w \in Writers : op[w].at <= now /\ op[w].seq <= Len(log)
    BY <1>3, <1>6, <1>9
  <2>2. Len(log) <= MaxLog /\ now \in 0..MaxTime /\ faults \in 0..MaxFaults
    BY <1>1, <1>3, <1>6
  <2> QED
    BY <1>3, <1>6, <1>8, <1>9, <2>1, <2>2 DEF Shape
<1>11. HistoryOK
  BY <1>6 DEF HistoryOK, PausedIsQuiet, RotatedKeyIsDead
<1>12. WritersOK /\ RunsForItsCoworker
  BY <1>3, <1>9 DEF WritersOK, RunsForItsCoworker
<1>13. RowFollowsLog
  BY <1>4, <1>5, <1>7, <1>8 DEF RowFollowsLog
<1>14. ClockOK /\ SlotOnce /\ NothingCaughtUp
  BY <1>6 DEF ClockOK, SlotOnce, NothingCaughtUp
<1> QED
  BY <1>10, <1>11, <1>12, <1>13, <1>14 DEF RoutineInv

LEMMA RoutineStep == RoutineInv /\ [Next]_vars => RoutineInv'
<1> SUFFICES ASSUME RoutineInv, [Next]_vars
             PROVE  RoutineInv'
  OBVIOUS
<1>1. ASSUME NEW w \in Writers, Step(w)
      PROVE  RoutineInv'
  BY <1>1, Requests, Waits, ClaimsStep, AppendsStep, StartsStep DEF Step
<1>2. CASE Tick \/ \E c \in Coworkers : ReachChanges(c)
  BY <1>2, WorldStep
<1>3. CASE UNCHANGED vars
  <2>1. UNCHANGED <<log, past, view, claims, op, started, reach, now, faults>>
    BY <1>3 DEF vars
  <2>2. Shape' /\ WritersOK' /\ RunsForItsCoworker'
    BY <2>1 DEF RoutineInv, Shape, WritersOK, RunsForItsCoworker, FreshFor, Decides, MayDo, KeyHolds
  <2>3. HistoryOK'
    BY <2>1, HistoryStands, ShapeFacts DEF RoutineInv
  <2> QED
    BY <2>1, <2>2, <2>3, ClockStands DEF RoutineInv
<1> QED
  BY <1>1, <1>2, <1>3 DEF Next

LEMMA RoutineInvariant == Spec => []RoutineInv
BY RoutineInit, RoutineStep, PTL DEF Spec

LEMMA ShapeIsType == Shape => TypeOK
<1> SUFFICES ASSUME Shape
             PROVE  TypeOK
  OBVIOUS
<1>1. /\ Len(log) \in Nat /\ now \in Nat /\ Len(past) = Len(log) + 1 /\ Len(log) <= MaxLog
      /\ \A i \in DOMAIN log : log[i] \in Events
  BY ShapeFacts DEF Shape
<1>2. \A i \in DOMAIN past : past[i] \in Aggregates
  BY DEF Shape
<1>3. \A i \in DOMAIN claims : claims[i] \in [slot : Times, seq : 0..Len(log), at : 0..now]
  <2>1. \A i \in DOMAIN claims : claims[i] \in Claimed /\ claims[i].seq <= Len(log) /\ claims[i].at <= now
    BY DEF Shape
  <2> QED
    BY <1>1, <2>1 DEF Claimed
<1>4. \A w \in Writers :
          op[w] \in [pc : {"idle", "claim", "reach", "load", "append", "start"},
                     do : Dos \cup {"none"}, cron : Crons \cup {Same},
                     coworker : Coworkers \cup {None}, key : Keys \cup {None}, at : 0..now,
                     about : Coworkers \cup {None}, skip : BOOLEAN, tries : {0, 1},
                     seq : 0..Len(log)]
  <2>1. \A w \in Writers : op[w] \in Locals /\ op[w].at <= now /\ op[w].seq <= Len(log)
    BY DEF Shape
  <2> QED
    BY <1>1, <2>1 DEF Locals
<1> QED
  BY <1>1, <1>2, <1>3, <1>4 DEF TypeOK, Shape, Events, Rows

\* A routine's clock (schedule_tick, claim_due_schedules, append_schedule): its row is the
\* log's, no slot is claimed twice however many replicas race and whatever edits land around
\* a claim, and nothing missed is caught up; for every number of replicas, clocks and people.
THEOREM ClockIsRight == Spec => []ClockHolds
<1>1. RoutineInv => ClockHolds
  BY ShapeIsType DEF RoutineInv, ClockHolds
<1> QED
  BY <1>1, RoutineInvariant, PTL

\* A routine's firings (mutate_schedule, fire_routine, the webhook door): none while it is
\* paused but the one its person presses for, none on a key that was rotated away, and each
\* run for the coworker the routine had as its firing was recorded.
THEOREM FiringsAreHeeded == Spec => []FiringsHold
<1>1. RoutineInv => FiringsHold
  BY DEF RoutineInv, HistoryOK, FiringsHold
<1> QED
  BY <1>1, RoutineInvariant, PTL
=============================================================================
