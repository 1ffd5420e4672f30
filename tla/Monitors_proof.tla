--------------------------- MODULE Monitors_proof ---------------------------
(***************************************************************************)
(* Every property of the monitors, proved for any number of replicas,      *)
(* people, monitors and events.  MonitorInv is inductive: a match is in    *)
(* one tick's hands at most and leaves them when its firing is recorded,   *)
(* what a writer found of an event's run stays so, and what it decided     *)
(* holds for as long as nobody appends to the monitor's stream.            *)
(***************************************************************************)
EXTENDS Monitors, FiniteSetTheorems, WellFoundedInduction, TLAPS

LogEvents == [stream : Runs, type : Watchable, state : {"open", "in"}]
Aggregates == [watches : Watchable, paused : BOOLEAN, deleted : BOOLEAN]
Records == [monitor : Monitors, match : Nat, by : Writers]
Read == [m : Monitors, watches : Watchable]
Dos == {"event", "pause", "resume", "delete", "edit", "manual"}
Locals == [pc : {"idle", "span", "match", "load", "append"}, rows : SUBSET Read,
           todo : SUBSET (Nat \X Monitors), do : Dos \cup {"none"}, m : Monitors \cup {ByHand},
           e : Nat, watches : Watchable \cup {Unwatchable, "none"}, at : Nat, tries : {0, 1}]

\* The shape of the state: TypeOK, with the sequences and the functions said to be so.
Shape ==
    /\ ev \in Seq(LogEvents)
    /\ cursor \in 0..Len(ev) /\ seen \subseteq 1..cursor
    /\ mon \in [Monitors -> Aggregates]
    /\ ver \in [Monitors -> Nat]
    /\ fired \in Seq(Records) /\ Len(fired) <= MaxFirings
    /\ \A i \in DOMAIN fired : fired[i].match \in seen \cup {ByHand}
    /\ run \in [Runs -> {"none", "pending", "running", "ended", "never"}]
    /\ op \in [Writers -> Locals]
    /\ changes \in 0..MaxChanges /\ faults \in 0..MaxFaults

\* A firing's run is nothing before its firing is on record, and so is not in the log.
RunsOK ==
    /\ \A r \in Firings : run[r] # "none" => r \in DOMAIN fired
    /\ \A e \in DOMAIN ev : ev[e].stream \in Firings => ev[e].stream \in DOMAIN fired

InFlightNow(i) == run[i] \in {"pending", "running"}

\* The firings of m by one writer that are in flight.
Flying(m, w) == {i \in DOMAIN fired : fired[i].monitor = m /\ fired[i].by = w /\ InFlightNow(i)}

\* The event may wake the monitor: it is of a run of its owner, and not of one it fired.
MayWake(m, e) == Owned(m, e) /\ ~WasFiredBy(m, ev[e].stream)

\* What a writer knows of the monitor and the event in its hands.
Holds(w, o) ==
    /\ o.m \in Monitors /\ o.do # "none"
    /\ o.do = "event" => <<o.e, o.m>> \in o.todo /\ MayWake(o.m, o.e)
    /\ o.do = "manual" => o.e = ByHand
    /\ o.do \in {"event", "manual"} => Cardinality(Flying(o.m, w)) < MaxInFlight

\* Its decision holds of the state it will append to, if its append is not to conflict.
Decided(o) ==
    /\ o.at <= ver[o.m]
    /\ o.at = ver[o.m] => Decides(o) /\ StillWatches(o)

NotFired(t) == \A i \in DOMAIN fired : fired[i].match = t[1] => fired[i].monitor # t[2]

Knows(w, o) ==
    /\ o.todo \subseteq seen \X Monitors
    /\ w \in People => o.todo = {} /\ o.do # "event"
    /\ \A t \in o.todo : NotFired(t)
    /\ o.pc \in {"load", "append"} => Holds(w, o)
    /\ o.pc = "append" => Decided(o)

\* No match is in the hands of two.
Apart == \A v, w \in Writers : v # w => op[v].todo \cap op[w].todo = {}

MonitorInv ==
    /\ Shape /\ RunsOK
    /\ \A w \in Writers : Knows(w, op[w])
    /\ Apart
    /\ FiresOnce /\ WokenRightly /\ BurstIsBraked

-----------------------------------------------------------------------------
(* Greatest elements, finite sets, and the shape's elements.                *)

LEMMA GreatestIs ==
    ASSUME NEW n \in Nat, NEW S \in SUBSET (0..n), S # {}
    PROVE  Max(S) \in S /\ \A y \in S : y <= Max(S)
<1> DEFINE R == OpToRel(<, Nat)
           D == {n - y : y \in S}
<1>1. IsWellFoundedOn(R, Nat)
  BY NatLessThanWellFounded
<1>2. D \in SUBSET Nat /\ D # {}
  <2>1. ASSUME NEW y \in S
        PROVE  n - y \in Nat
    <3>1. y \in 0..n
      OBVIOUS
    <3> QED
      BY <3>1
  <2> QED
    BY <2>1
<1>3. PICK d \in D : \A c \in D : <<c, d>> \notin R
  <2> HIDE DEF R, D
  <2> QED
    BY <1>1, <1>2, WFMin
<1>4. PICK x \in S : d = n - x
  BY <1>3
<1>5. \A c \in D : ~(c < d)
  BY <1>2, <1>3, Zenon DEF OpToRel
<1>6. ASSUME NEW y \in S
      PROVE  x >= y
  <2>1. n - y \in D
    OBVIOUS
  <2>2. ~(n - y < n - x)
    BY <1>4, <1>5, <2>1
  <2>3. x \in 0..n /\ y \in 0..n
    OBVIOUS
  <2> QED
    BY <2>2, <2>3
<1>7. Max(S) \in S /\ \A y \in S : Max(S) >= y
  BY <1>6 DEF Max
<1>8. Max(S) \in 0..n /\ \A y \in S : y \in 0..n
  BY <1>7
<1> QED
  BY <1>7, <1>8

LEMMA Grows ==
    ASSUME NEW S, NEW s \in Seq(S), NEW e \in S
    PROVE  /\ Append(s, e) \in Seq(S) /\ Len(Append(s, e)) = Len(s) + 1 /\ Len(s) \in Nat
           /\ DOMAIN Append(s, e) = 1..(Len(s) + 1) /\ DOMAIN s = 1..Len(s)
           /\ Append(s, e)[Len(s) + 1] = e
           /\ \A n \in 1..Len(s) : Append(s, e)[n] = s[n]
OBVIOUS

LEMMA ShapeFacts ==
    ASSUME Shape
    PROVE  /\ Len(ev) \in Nat /\ DOMAIN ev = 1..Len(ev) /\ \A e \in DOMAIN ev : ev[e] \in LogEvents
           /\ Len(fired) \in Nat /\ DOMAIN fired = 1..Len(fired)
           /\ \A i \in DOMAIN fired : fired[i] \in Records
           /\ DOMAIN fired \subseteq Firings
           /\ cursor \in Nat /\ seen \subseteq DOMAIN ev /\ seen \subseteq Nat /\ 0 \notin seen
           /\ \A w \in Writers : op[w] \in Locals
<1>1. Len(ev) \in Nat /\ DOMAIN ev = 1..Len(ev) /\ \A e \in DOMAIN ev : ev[e] \in LogEvents
  BY DEF Shape
<1>2. /\ Len(fired) \in Nat /\ DOMAIN fired = 1..Len(fired)
      /\ \A i \in DOMAIN fired : fired[i] \in Records
  BY DEF Shape
<1>3. DOMAIN fired \subseteq Firings
  BY <1>2, MonitorsAssumption DEF Shape, Firings
<1>4. cursor \in Nat /\ seen \subseteq 1..cursor /\ cursor <= Len(ev)
  BY <1>1 DEF Shape
<1>5. seen \subseteq DOMAIN ev /\ seen \subseteq Nat /\ 0 \notin seen
  BY <1>1, <1>4
<1> QED
  BY <1>1, <1>2, <1>3, <1>4, <1>5 DEF Shape

LEMMA FlyingIs ==
    ASSUME Shape, NEW m, NEW w
    PROVE  /\ IsFiniteSet(Flying(m, w)) /\ Cardinality(Flying(m, w)) \in Nat
           /\ IsFiniteSet(InFlight(m)) /\ Flying(m, w) \subseteq InFlight(m)
           /\ Cardinality(Flying(m, w)) <= Cardinality(InFlight(m))
           /\ Cardinality(InFlight(m)) \in Nat
<1>1. IsFiniteSet(DOMAIN fired)
  <2>1. DOMAIN fired = 1..Len(fired) /\ Len(fired) \in Nat
    BY ShapeFacts
  <2> QED
    BY <2>1, FS_Interval
<1>2. InFlight(m) \subseteq DOMAIN fired /\ Flying(m, w) \subseteq InFlight(m)
  BY DEF Flying, InFlight, InFlightNow
<1>3. IsFiniteSet(InFlight(m))
  BY <1>1, <1>2, FS_Subset
<1>4. IsFiniteSet(Flying(m, w)) /\ Cardinality(Flying(m, w)) <= Cardinality(InFlight(m))
  BY <1>2, <1>3, FS_Subset
<1> QED
  BY <1>2, <1>3, <1>4, FS_CardinalityType

-----------------------------------------------------------------------------
(* What carries over when the log, the firings or a writer moves.           *)

\* An event a tick has had keeps its stream and its type, whose run it is and who fired it.
LEMMA LogMoves ==
    ASSUME MonitorInv, UNCHANGED <<cursor, seen, mon, ver, fired, op>>,
           ev' \in Seq(LogEvents), Len(ev') >= Len(ev),
           \A e \in DOMAIN ev : ev'[e].stream = ev[e].stream /\ ev'[e].type = ev[e].type,
           \A e \in DOMAIN ev' : ev'[e].stream \in Firings => ev'[e].stream \in DOMAIN fired,
           run' \in [Runs -> {"none", "pending", "running", "ended", "never"}],
           \A r \in Firings : run'[r] # "none" => r \in DOMAIN fired,
           \A r \in Firings : InFlightNow(r)' => InFlightNow(r),
           changes' \in 0..MaxChanges, faults' \in 0..MaxFaults
    PROVE  MonitorInv'
<1>1. Shape
  BY DEF MonitorInv
<1>2. Shape'
  <2>1. cursor' \in 0..Len(ev') /\ seen' \subseteq 1..cursor'
    <3>1. cursor \in 0..Len(ev) /\ seen \subseteq 1..cursor /\ Len(ev) \in Nat /\ Len(ev') \in Nat
      BY <1>1, ShapeFacts DEF Shape
    <3> QED
      BY <3>1
  <2> QED
    BY <1>1, <2>1 DEF Shape
<1>3. RunsOK'
  BY DEF RunsOK
<1>4. ASSUME NEW e \in seen, NEW m
      PROVE  MayWake(m, e)' <=> MayWake(m, e)
  <2>1. ev'[e].stream = ev[e].stream
    BY <1>1, ShapeFacts
  <2> QED
    BY <2>1 DEF MayWake, Owned, WasFiredBy, RunOwner
<1>5. ASSUME NEW m, NEW w
      PROVE  Cardinality(Flying(m, w)') <= Cardinality(Flying(m, w)) /\ Cardinality(Flying(m, w)') \in Nat
  <2>1. Flying(m, w)' \subseteq Flying(m, w)
    BY <1>1, ShapeFacts DEF Flying
  <2>2. IsFiniteSet(Flying(m, w))
    BY <1>1, FlyingIs
  <2> QED
    BY <2>1, <2>2, FS_Subset, FS_CardinalityType
<1>6. ASSUME NEW w \in Writers
      PROVE  Knows(w, op[w])'
  <2> DEFINE o == op[w]
  <2>1. Knows(w, o) /\ o \in Locals /\ op'[w] = o
    BY <1>1, ShapeFacts DEF MonitorInv
  <2>2. ASSUME o.pc \in {"load", "append"}
        PROVE  Holds(w, op[w])'
    <3>1. Holds(w, o)
      BY <2>1, <2>2 DEF Knows
    <3>2. o.do = "event" => o.e \in seen
      BY <2>1, <3>1 DEF Knows, Holds
    <3>3. Cardinality(Flying(o.m, w)') <= Cardinality(Flying(o.m, w))
          /\ Cardinality(Flying(o.m, w)') \in Nat /\ Cardinality(Flying(o.m, w)) \in Nat
      BY <1>1, <1>5, FlyingIs
    <3>4. o.do = "event" => MayWake(o.m, o.e)'
      BY <1>4, <3>1, <3>2 DEF Holds
    <3>5. o.do \in {"event", "manual"} => Cardinality(Flying(o.m, w)') < MaxInFlight
      BY <3>1, <3>3, MonitorsAssumption DEF Holds
    <3> QED
      BY <2>1, <3>1, <3>4, <3>5 DEF Holds
  <2>3. ASSUME o.pc = "append"
        PROVE  Decided(op[w])'
    <3>1. Decided(o) /\ Holds(w, o)
      BY <2>1, <2>3 DEF Knows
    <3>2. o.do = "event" => ev'[o.e].type = ev[o.e].type
      <4>1. o.do = "event" => o.e \in DOMAIN ev
        BY <1>1, <2>1, <3>1, ShapeFacts DEF Knows, Holds
      <4> QED
        BY <4>1
    <3> QED
      BY <2>1, <3>1, <3>2 DEF Decided, Decides, StillWatches, Checked
  <2> QED
    BY <2>1, <2>2, <2>3 DEF Knows, NotFired
<1>7. Apart' /\ FiresOnce'
  BY DEF MonitorInv, Apart, FiresOnce
<1>8. WokenRightly'
  <2>1. ASSUME NEW i \in DOMAIN fired, fired[i].match # ByHand
        PROVE  ev'[fired[i].match].stream = ev[fired[i].match].stream
    <3>1. fired[i].match \in DOMAIN ev
      BY <1>1, <2>1, ShapeFacts DEF Shape
    <3> QED
      BY <3>1
  <2> QED
    BY <2>1 DEF MonitorInv, WokenRightly, RunOwner
<1>9. BurstIsBraked'
  <2> SUFFICES ASSUME NEW m \in Monitors, NEW w \in Writers
               PROVE  Cardinality(Flying(m, w)') <= MaxInFlight
    BY DEF BurstIsBraked, Flying, InFlightNow
  <2>1. Cardinality(Flying(m, w)) <= MaxInFlight
    BY DEF MonitorInv, BurstIsBraked, Flying, InFlightNow
  <2>2. Cardinality(Flying(m, w)') <= Cardinality(Flying(m, w))
        /\ Cardinality(Flying(m, w)') \in Nat /\ Cardinality(Flying(m, w)) \in Nat
    BY <1>1, <1>5, FlyingIs
  <2> QED
    BY <2>1, <2>2, MonitorsAssumption
<1> QED
  BY <1>2, <1>3, <1>6, <1>7, <1>8, <1>9 DEF MonitorInv

\* A writer goes on with what it knows, and with no match it did not have.
LEMMA WriterMoves ==
    ASSUME MonitorInv, NEW w \in Writers, NEW o \in Locals,
           Goes(w, o), Knows(w, o), o.todo \subseteq op[w].todo,
           UNCHANGED <<ev, cursor, seen, mon, ver, fired, run>>,
           changes' \in 0..MaxChanges, faults' \in 0..MaxFaults
    PROVE  MonitorInv'
<1>1. Shape /\ op \in [Writers -> Locals]
  BY DEF MonitorInv, Shape
<1>2. op' \in [Writers -> Locals] /\ op'[w] = o /\ \A v \in Writers \ {w} : op'[v] = op[v]
  BY <1>1 DEF Goes
<1>3. Shape'
  BY <1>1, <1>2 DEF Shape
<1>4. RunsOK' /\ FiresOnce' /\ WokenRightly' /\ BurstIsBraked'
  BY DEF MonitorInv, RunsOK, FiresOnce, WokenRightly, BurstIsBraked, RunOwner
<1>5. ASSUME NEW v \in Writers, NEW p, Knows(v, p)
      PROVE  Knows(v, p)'
  BY <1>5 DEF Knows, Holds, Decided, Decides, StillWatches, Checked, NotFired, MayWake, Owned,
     WasFiredBy, RunOwner, Flying, InFlightNow
<1>6. \A v \in Writers : Knows(v, op[v])'
  <2>1. ASSUME NEW v \in Writers, v # w
        PROVE  Knows(v, op[v])'
    <3>1. Knows(v, op[v])
      BY DEF MonitorInv
    <3>2. op'[v] = op[v]
      BY <1>2, <2>1
    <3> QED
      BY <3>1, <3>2, <1>5 DEF Knows, Holds, Decided, Decides, StillWatches, Checked, NotFired,
         MayWake, Owned, WasFiredBy, RunOwner, Flying, InFlightNow
  <2>2. Knows(w, op[w])'
    BY <1>2, <1>5 DEF Knows, Holds, Decided, Decides, StillWatches, Checked, NotFired,
       MayWake, Owned, WasFiredBy, RunOwner, Flying, InFlightNow
  <2> QED
    BY <2>1, <2>2
<1>7. Apart'
  <2> SUFFICES ASSUME NEW u \in Writers, NEW v \in Writers, u # v
               PROVE  op'[u].todo \cap op'[v].todo = {}
    BY DEF Apart
  <2>1. op'[u].todo \subseteq op[u].todo /\ op'[v].todo \subseteq op[v].todo
    BY <1>2
  <2>2. op[u].todo \cap op[v].todo = {}
    BY DEF MonitorInv, Apart
  <2> QED
    BY <2>1, <2>2
<1> QED
  BY <1>3, <1>4, <1>6, <1>7 DEF MonitorInv

-----------------------------------------------------------------------------
(* The log's steps.                                                         *)

LEMMA FaultsIn ==
    ASSUME MonitorInv, UNCHANGED faults \/ (faults < MaxFaults /\ faults' = faults + 1)
    PROVE  faults' \in 0..MaxFaults
BY MonitorsAssumption DEF MonitorInv, Shape

LEMMA LogStep ==
    ASSUME MonitorInv, LogNext
    PROVE  MonitorInv'
<1>1. /\ Shape /\ RunsOK /\ changes \in 0..MaxChanges /\ faults \in 0..MaxFaults
      /\ run \in [Runs -> {"none", "pending", "running", "ended", "never"}]
      /\ ev \in Seq(LogEvents) /\ Len(ev) \in Nat /\ DOMAIN ev = 1..Len(ev)
      /\ Firings \subseteq Runs
  BY ShapeFacts DEF MonitorInv, Shape, Runs
<1>2. ASSUME NEW r \in Runs, Inserts(r)
      PROVE  MonitorInv'
  <2> DEFINE e == [stream |-> r, state |-> "open",
                   type |-> IF run[r] = "pending" THEN "run-started" ELSE "run-finished"]
  <2>1. e \in LogEvents
    BY DEF LogEvents, Watchable
  <2>2. e.stream = r /\ ev' = Append(ev, e)
    BY <1>2 DEF Inserts
  <2> HIDE DEF e
  <2>3. /\ ev' \in Seq(LogEvents) /\ Len(ev') = Len(ev) + 1 /\ DOMAIN ev' = 1..(Len(ev) + 1)
        /\ ev'[Len(ev) + 1] = e /\ \A n \in 1..Len(ev) : ev'[n] = ev[n]
    BY <1>1, <2>1, <2>2, Grows
  <2>4. r \in Firings => r \in DOMAIN fired
    BY <1>1, <1>2 DEF Inserts, RunsOK
  <2>5. ASSUME NEW n \in DOMAIN ev', ev'[n].stream \in Firings
        PROVE  ev'[n].stream \in DOMAIN fired
    <3>1. n \in DOMAIN ev \/ n = Len(ev) + 1
      BY <1>1, <2>3
    <3> QED
      BY <1>1, <2>2, <2>3, <2>4, <2>5, <3>1 DEF RunsOK
  <2>6. UNCHANGED <<cursor, seen, mon, ver, fired, op, run, changes, faults>>
    BY <1>2 DEF Inserts
  <2>7. \A r1 \in Firings : InFlightNow(r1)' => InFlightNow(r1)
    BY <2>6 DEF InFlightNow
  <2>8. \A n \in DOMAIN ev : ev'[n].stream = ev[n].stream /\ ev'[n].type = ev[n].type
    BY <1>1, <2>3
  <2>9. Len(ev') >= Len(ev)
    BY <1>1, <2>3
  <2>10. \A r1 \in Firings : run'[r1] # "none" => r1 \in DOMAIN fired
    BY <1>1, <2>6 DEF RunsOK
  <2> QED
    BY <1>1, <2>3, <2>5, <2>6, <2>7, <2>8, <2>9, <2>10, LogMoves
<1>3. ASSUME NEW e \in DOMAIN ev, Commits(e)
      PROVE  MonitorInv'
  <2> DEFINE r == ev[e].stream
             x == [ev[e] EXCEPT !.state = "in"]
  <2>1. ev[e] \in LogEvents
    BY <1>1
  <2>2. x \in LogEvents /\ x.stream = ev[e].stream /\ x.type = ev[e].type
    BY <2>1 DEF LogEvents
  <2>3. ev' = [ev EXCEPT ![e] = x]
    BY <1>3 DEF Commits
  <2> HIDE DEF x
  <2>4. /\ ev' \in Seq(LogEvents) /\ Len(ev') = Len(ev) /\ DOMAIN ev' = DOMAIN ev
        /\ \A n \in DOMAIN ev : ev'[n] = IF n = e THEN x ELSE ev[n]
    BY <1>1, <2>2, <2>3
  <2>5. \A n \in DOMAIN ev : ev'[n].stream = ev[n].stream /\ ev'[n].type = ev[n].type
    BY <2>2, <2>4
  <2>6. r \in Runs /\ (r \in Firings => r \in DOMAIN fired)
    BY <1>1, <2>1 DEF LogEvents, RunsOK
  <2>7. run' = [run EXCEPT ![r] = IF @ = "pending" THEN "running" ELSE "ended"]
    BY <1>3 DEF Commits
  <2> HIDE DEF r
  <2>8. /\ run' \in [Runs -> {"none", "pending", "running", "ended", "never"}]
        /\ \A q \in Runs : run'[q] = IF q # r THEN run[q]
                                     ELSE IF run[q] = "pending" THEN "running" ELSE "ended"
    BY <1>1, <2>6, <2>7
  <2>9. \A q \in Firings : run'[q] # "none" => q \in DOMAIN fired
    BY <1>1, <2>6, <2>8 DEF RunsOK
  <2>10. \A q \in Firings : InFlightNow(q)' => InFlightNow(q)
    BY <1>1, <2>8 DEF InFlightNow
  <2>11. \A n \in DOMAIN ev' : ev'[n].stream \in Firings => ev'[n].stream \in DOMAIN fired
    BY <1>1, <2>4, <2>5 DEF RunsOK
  <2>12. UNCHANGED <<cursor, seen, mon, ver, fired, op, changes, faults>>
    BY <1>3 DEF Commits
  <2>13. Len(ev') >= Len(ev)
    BY <1>1, <2>4
  <2> QED
    BY <1>1, <2>4, <2>5, <2>8, <2>9, <2>10, <2>11, <2>12, <2>13, LogMoves
<1>4. ASSUME NEW r \in Runs, Lapses(r)
      PROVE  MonitorInv'
  <2>1. UNCHANGED <<ev, cursor, seen, mon, ver, fired, op, changes, faults>>
        /\ run' = [run EXCEPT ![r] = "never"] /\ r \in Firings /\ run[r] = "pending"
    BY <1>4 DEF Lapses
  <2>2. /\ run' \in [Runs -> {"none", "pending", "running", "ended", "never"}]
        /\ \A q \in Runs : run'[q] = IF q # r THEN run[q] ELSE "never"
    BY <1>1, <2>1
  <2>3. \A q \in Firings : run'[q] # "none" => q \in DOMAIN fired
    BY <1>1, <2>1, <2>2 DEF RunsOK
  <2>4. \A q \in Firings : InFlightNow(q)' => InFlightNow(q)
    BY <1>1, <2>2 DEF InFlightNow
  <2>5. Len(ev') >= Len(ev) /\ \A n \in DOMAIN ev : ev'[n].stream = ev[n].stream /\ ev'[n].type = ev[n].type
    BY <1>1, <2>1
  <2>6. \A n \in DOMAIN ev' : ev'[n].stream \in Firings => ev'[n].stream \in DOMAIN fired
    BY <1>1, <2>1 DEF RunsOK
  <2> QED
    BY <1>1, <2>1, <2>2, <2>3, <2>4, <2>5, <2>6, LogMoves
<1> QED
  BY <1>2, <1>3, <1>4 DEF LogNext

-----------------------------------------------------------------------------
(* A writer's locals: what letting go, going on and asking leave in them.   *)

LEMMA IdleIs == /\ Idle \in Locals /\ Idle.pc = "idle" /\ Idle.todo = {} /\ Idle.do = "none"
                /\ Idle.rows = {}
BY DEF Idle, Locals, ByHand

LEMMA AskedIs ==
    ASSUME NEW m \in Monitors, NEW do \in Dos
    PROVE  LET o == Asked(m, do)
           IN o \in Locals /\ o.pc = "load" /\ o.todo = {} /\ o.do = do /\ o.m = m /\ o.e = ByHand
BY DEF Idle, Locals, Asked, ByHand

LEMMA SpanSet ==
    ASSUME NEW rows \in SUBSET Read
    PROVE  LET o == [Idle EXCEPT !.pc = "span", !.rows = rows]
           IN o \in Locals /\ o.pc = "span" /\ o.todo = {} /\ o.do = "none"
BY DEF Idle, Locals, ByHand

\* Between two matches there is little to know.
LEMMA LittleToKnow ==
    ASSUME MonitorInv, NEW w \in Writers, NEW o \in Locals, o.todo \subseteq op[w].todo,
           o.do = "none", o.pc \notin {"load", "append"}
    PROVE  Knows(w, o)
<1>1. Knows(w, op[w])
  BY DEF MonitorInv
<1> QED
  BY <1>1 DEF Knows

LEMMA GoOnIs ==
    ASSUME MonitorInv, NEW w \in Writers, NEW t
    PROVE  /\ GoOn(w, t) \in Locals /\ GoOn(w, t).todo = op[w].todo \ {t}
           /\ Knows(w, GoOn(w, t)) /\ GoOn(w, t).pc \notin {"load", "append"}
<1> DEFINE rest == op[w].todo \ {t}
           g == GoOn(w, t)
<1>1. op[w] \in Locals
  BY ShapeFacts DEF MonitorInv
<1>2. op[w].rows \in SUBSET Read /\ rest \in SUBSET (Nat \X Monitors)
  BY <1>1 DEF Locals
<1>3. g \in Locals /\ g.todo = rest /\ g.pc \notin {"load", "append"} /\ g.do = "none"
  <2>1. CASE rest = {}
    <3>1. g = Idle
      BY <2>1 DEF GoOn
    <3> QED
      BY <2>1, <3>1, IdleIs
  <2>2. CASE rest # {}
    <3>1. g = [Idle EXCEPT !.pc = "match", !.rows = op[w].rows, !.todo = rest]
      BY <2>2 DEF GoOn
    <3> DEFINE rows == op[w].rows
    <3> HIDE DEF g, rest, rows
    <3>2. rows \in SUBSET Read
      BY <1>2 DEF rows
    <3>3. g = [Idle EXCEPT !.pc = "match", !.rows = rows, !.todo = rest]
      BY <3>1 DEF rows
    <3>4. g \in Locals /\ g.pc = "match" /\ g.todo = rest /\ g.do = "none"
      BY <1>2, <3>2, <3>3 DEF Idle, Locals, ByHand
    <3> QED
      BY <3>4
  <2> QED
    BY <2>1, <2>2
<1>4. rest \subseteq op[w].todo
  OBVIOUS
<1> HIDE DEF rest, g
<1>5. Knows(w, g)
  BY <1>3, <1>4, LittleToKnow
<1> QED
  BY <1>3, <1>5 DEF g, rest

LEMMA DoneIs ==
    ASSUME MonitorInv, NEW w \in Writers
    PROVE  /\ Done(w) \in Locals /\ Knows(w, Done(w)) /\ Done(w).todo \subseteq op[w].todo
           /\ op[w].do = "event" => <<op[w].e, op[w].m>> \notin Done(w).todo
           /\ Done(w).pc \notin {"load", "append"}
<1> DEFINE t == <<op[w].e, op[w].m>>
<1>1. CASE w \in Replicas
  <2>1. Done(w) = GoOn(w, t)
    BY <1>1 DEF Done
  <2> QED
    BY <2>1, GoOnIs
<1>2. CASE w \notin Replicas
  <2>1. Done(w) = Idle /\ w \in People
    BY <1>2 DEF Done, Writers
  <2> QED
    BY <2>1, IdleIs, LittleToKnow
<1> QED
  BY <1>1, <1>2

-----------------------------------------------------------------------------
(* A tick, a request and a write that comes to nothing.                     *)

\* A tick takes what is past the cursor, which no tick has had before.
LEMMA TakesSpanStep ==
    ASSUME MonitorInv, NEW r \in Replicas, TakesSpan(r)
    PROVE  MonitorInv'
<1> DEFINE todo == {<<e, row.m>> : e \in Span, row \in op[r].rows}
           hits == {t \in todo : [m |-> t[2], watches |-> ev[t[1]].type] \in op[r].rows}
           o == IF hits = {} THEN Idle ELSE [op[r] EXCEPT !.pc = "match", !.todo = hits]
<1>1. /\ Shape /\ op \in [Writers -> Locals] /\ r \in Writers /\ r \notin People
      /\ op[r] \in Locals /\ Len(ev) \in Nat /\ DOMAIN ev = 1..Len(ev) /\ cursor \in 0..Len(ev)
      /\ seen \subseteq 1..cursor
  BY ShapeFacts, MonitorsAssumption DEF MonitorInv, Shape, Writers
<1>2. Span \subseteq (cursor + 1)..Len(ev)
  BY <1>1 DEF Span, Past, Committed
<1>3. cursor' \in 0..Len(ev) /\ cursor' >= cursor /\ \A e \in Span : e <= cursor'
  <2> DEFINE S == Span \cup {cursor}
  <2>1. S \in SUBSET (0..Len(ev)) /\ S # {}
    BY <1>1, <1>2
  <2>2. cursor' = Max(S)
    BY DEF TakesSpan
  <2>3. Max(S) \in S /\ \A y \in S : y <= Max(S)
    <3> HIDE DEF S
    <3> QED
      BY <1>1, <2>1, GreatestIs
  <2>4. Max(S) \in 0..Len(ev)
    BY <2>1, <2>3
  <2> QED
    BY <1>1, <2>2, <2>3, <2>4
<1>4. seen' = seen \cup Span /\ seen' \subseteq 1..cursor' /\ seen \cap Span = {}
  <2>1. seen' = seen \cup Span
    BY DEF TakesSpan
  <2>2. Span \subseteq 1..cursor'
    BY <1>1, <1>2, <1>3
  <2>3. seen \subseteq 1..cursor'
    BY <1>1, <1>3
  <2>4. seen \cap Span = {}
    BY <1>1, <1>2
  <2> QED
    BY <2>1, <2>2, <2>3, <2>4
<1>5. hits \subseteq Span \X Monitors /\ hits \in SUBSET (Nat \X Monitors)
  <2>1. op[r].rows \subseteq Read
    BY <1>1 DEF Locals
  <2>2. Span \subseteq Nat
    BY <1>1, <1>2
  <2> QED
    BY <2>1, <2>2 DEF Read
<1>6. op' = [op EXCEPT ![r] = o] /\ UNCHANGED <<ev, mon, ver, fired, run, changes, faults>>
  BY DEF TakesSpan, Goes
<1>7. o \in Locals /\ o.pc \notin {"load", "append"} /\ o.todo \subseteq hits
  <2> HIDE DEF hits
  <2>1. CASE hits = {}
    BY <2>1, IdleIs
  <2>2. CASE hits # {}
    <3>1. o = [op[r] EXCEPT !.pc = "match", !.todo = hits]
      BY <2>2
    <3> HIDE DEF o
    <3> QED
      BY <1>1, <1>5, <3>1 DEF Locals
  <2> QED
    BY <2>1, <2>2
<1> HIDE DEF o, hits, todo
<1>8. op' \in [Writers -> Locals] /\ op'[r] = o /\ \A v \in Writers \ {r} : op'[v] = op[v]
  BY <1>1, <1>6, <1>7
<1>9. Shape'
  BY <1>1, <1>3, <1>4, <1>6, <1>8 DEF Shape
<1>10. RunsOK' /\ FiresOnce' /\ WokenRightly' /\ BurstIsBraked'
  BY <1>6 DEF MonitorInv, RunsOK, FiresOnce, WokenRightly, BurstIsBraked, RunOwner
<1>11. ASSUME NEW v \in Writers
       PROVE  Knows(v, op[v])'
  <2>1. CASE v # r
    <3>1. Knows(v, op[v]) /\ op'[v] = op[v]
      BY <1>8, <2>1 DEF MonitorInv
    <3>2. op[v].todo \subseteq seen' \X Monitors
      BY <1>4, <3>1 DEF Knows
    <3>3. op[v].pc \in {"load", "append"} => Holds(v, op[v])'
      BY <1>6, <3>1 DEF Knows, Holds, MayWake, Owned, WasFiredBy, RunOwner, Flying, InFlightNow
    <3>4. op[v].pc = "append" => Decided(op[v])'
      BY <1>6, <3>1 DEF Knows, Decided, Decides, StillWatches, Checked
    <3> QED
      BY <1>6, <3>1, <3>2, <3>3, <3>4 DEF Knows, NotFired
  <2>2. CASE v = r
    <3>1. o.todo \subseteq seen' \X Monitors
      BY <1>4, <1>5, <1>7
    <3>2. ASSUME NEW t \in o.todo, NEW i \in DOMAIN fired, fired[i].match = t[1]
          PROVE  FALSE
      <4>1. t[1] \in Span /\ t[1] # 0
        BY <1>1, <1>2, <1>5, <1>7
      <4>2. fired[i].match \in seen \cup {ByHand}
        BY <1>1 DEF Shape
      <4> QED
        BY <1>4, <3>2, <4>1, <4>2 DEF ByHand
    <3>3. r \notin People
      BY <1>1
    <3>4. op'[v] = o /\ fired' = fired
      BY <1>6, <1>8, <2>2
    <3> QED
      BY <1>7, <2>2, <3>1, <3>2, <3>3, <3>4 DEF Knows, NotFired
  <2> QED
    BY <2>1, <2>2
<1>12. Apart'
  <2>1. ASSUME NEW v \in Writers \ {r}
        PROVE  op[v].todo \cap o.todo = {}
    <3>1. op[v].todo \subseteq seen \X Monitors
      BY DEF MonitorInv, Knows
    <3> QED
      BY <1>4, <1>5, <1>7, <3>1
  <2>2. ASSUME NEW u \in Writers, NEW v \in Writers, u # v
        PROVE  op'[u].todo \cap op'[v].todo = {}
    <3>1. CASE u = r
      BY <1>8, <2>1, <2>2, <3>1
    <3>2. CASE v = r
      BY <1>8, <2>1, <2>2, <3>2
    <3>3. CASE u # r /\ v # r
      BY <1>8, <2>2, <3>3 DEF MonitorInv, Apart
    <3> QED
      BY <3>1, <3>2, <3>3
  <2> QED
    BY <2>2 DEF Apart
<1> QED
  BY <1>9, <1>10, <1>11, <1>12 DEF MonitorInv

LEMMA TicksStep ==
    ASSUME MonitorInv, NEW r \in Replicas, Ticks(r)
    PROVE  MonitorInv'
<1> DEFINE rows == {[m |-> m, watches |-> mon[m].watches] :
                    m \in {n \in Monitors : ~mon[n].paused /\ ~mon[n].deleted}}
           o == [Idle EXCEPT !.pc = "span", !.rows = rows]
<1>1. /\ r \in Writers /\ mon \in [Monitors -> Aggregates]
      /\ changes \in 0..MaxChanges /\ faults \in 0..MaxFaults
  BY DEF MonitorInv, Shape, Writers
<1>2. rows \in SUBSET Read
  BY <1>1 DEF Read, Aggregates
<1>3. Goes(r, o) /\ UNCHANGED <<ev, cursor, seen, mon, ver, fired, run, changes, faults>>
  BY DEF Ticks
<1>4. o \in Locals /\ o.pc = "span" /\ o.todo = {} /\ o.do = "none"
  <2> HIDE DEF rows
  <2> QED
    BY <1>2, SpanSet
<1> HIDE DEF o, rows
<1>5. Knows(r, o)
  BY <1>1, <1>4, LittleToKnow
<1> QED
  BY <1>1, <1>3, <1>4, <1>5, WriterMoves

LEMMA ConsidersStep ==
    ASSUME MonitorInv, NEW r \in Replicas, NEW t \in op[r].todo, Considers(r, t)
    PROVE  MonitorInv'
<1>1. /\ Shape /\ r \in Writers /\ r \notin People /\ op[r] \in Locals /\ Knows(r, op[r])
      /\ changes \in 0..MaxChanges /\ faults \in 0..MaxFaults
  BY ShapeFacts, MonitorsAssumption DEF MonitorInv, Shape, Writers
<1>2. UNCHANGED <<ev, cursor, seen, mon, ver, fired, run, changes, faults>>
  BY DEF Considers
<1>3. t \in seen \X Monitors /\ t[1] \in Nat /\ t[2] \in Monitors /\ t = <<t[1], t[2]>>
  BY <1>1, ShapeFacts DEF Knows
<1>4. CASE Owned(t[2], t[1]) /\ ~WasFiredBy(t[2], ev[t[1]].stream) /\ Free(t[2])
  <2> DEFINE m == t[2]
             e == t[1]
             o == [op[r] EXCEPT !.pc = "load", !.do = "event", !.m = m, !.e = e, !.tries = 0]
  <2>1. Goes(r, o)
    BY <1>4 DEF Considers
  <2>2. m \in Monitors /\ e \in Nat /\ <<e, m>> \in op[r].todo /\ MayWake(m, e) /\ Free(m)
    BY <1>3, <1>4 DEF MayWake
  <2> HIDE DEF m, e
  <2>3. /\ o \in Locals /\ o.pc = "load" /\ o.todo = op[r].todo /\ o.do = "event" /\ o.m = m
        /\ o.e = e
    BY <1>1, <2>2 DEF Locals, Dos
  <2> HIDE DEF o
  <2>4. Cardinality(Flying(m, r)) < MaxInFlight
    <3>1. /\ Cardinality(Flying(m, r)) \in Nat /\ Cardinality(InFlight(m)) \in Nat
          /\ Cardinality(Flying(m, r)) <= Cardinality(InFlight(m))
      BY <1>1, FlyingIs
    <3>2. Cardinality(InFlight(m)) < MaxInFlight /\ MaxInFlight \in Nat
      BY <2>2, MonitorsAssumption DEF Free
    <3> QED
      BY <3>1, <3>2
  <2>5. Knows(r, o)
    BY <1>1, <2>2, <2>3, <2>4 DEF Knows, Holds
  <2> QED
    BY <1>1, <1>2, <2>1, <2>3, <2>5, WriterMoves
<1>5. CASE ~(Owned(t[2], t[1]) /\ ~WasFiredBy(t[2], ev[t[1]].stream) /\ Free(t[2]))
  <2>1. Goes(r, GoOn(r, t))
    BY <1>5 DEF Considers
  <2>2. GoOn(r, t) \in Locals /\ GoOn(r, t).todo \subseteq op[r].todo /\ Knows(r, GoOn(r, t))
    BY <1>1, GoOnIs
  <2> QED
    BY <1>1, <1>2, <2>1, <2>2, WriterMoves
<1> QED
  BY <1>4, <1>5

LEMMA UnreadStep ==
    ASSUME MonitorInv, NEW r \in Replicas, NEW t \in op[r].todo, Unread(r, t)
    PROVE  MonitorInv'
<1>1. Goes(r, GoOn(r, t)) /\ UNCHANGED <<ev, cursor, seen, mon, ver, fired, run, changes>>
  BY DEF Unread
<1>2. r \in Writers /\ changes' \in 0..MaxChanges /\ faults' \in 0..MaxFaults
  BY <1>1, FaultsIn DEF Unread, MonitorInv, Shape, Writers
<1>3. GoOn(r, t) \in Locals /\ GoOn(r, t).todo \subseteq op[r].todo /\ Knows(r, GoOn(r, t))
  BY <1>2, GoOnIs
<1> QED
  BY <1>1, <1>2, <1>3, WriterMoves

LEMMA AsksStep ==
    ASSUME MonitorInv, NEW w \in People, NEW m \in Monitors, NEW do \in Dos,
           NEW watches \in Watchable \cup {Unwatchable, "none"}, Changes(w, m, do, watches),
           do \notin {"event", "manual"}
    PROVE  MonitorInv'
<1> DEFINE o == [Asked(m, do) EXCEPT !.watches = watches]
<1>1. Goes(w, o) /\ UNCHANGED <<ev, cursor, seen, mon, ver, fired, run, faults>>
  BY DEF Changes
<1>2. /\ w \in Writers /\ faults' \in 0..MaxFaults /\ changes' \in 0..MaxChanges
      /\ w \notin Replicas
  BY <1>1, MonitorsAssumption DEF Changes, MonitorInv, Shape, Writers
<1>3. o \in Locals /\ o.pc = "load" /\ o.todo = {} /\ o.do = do /\ o.m = m /\ o.e = ByHand
  <2> DEFINE a == Asked(m, do)
  <2>1. a \in Locals /\ a.pc = "load" /\ a.todo = {} /\ a.do = do /\ a.m = m /\ a.e = ByHand
    BY AskedIs
  <2> HIDE DEF a
  <2>2. o = [a EXCEPT !.watches = watches]
    BY DEF a
  <2> HIDE DEF o
  <2> QED
    BY <2>1, <2>2 DEF Locals
<1> HIDE DEF o
<1>4. Knows(w, o)
  BY <1>3 DEF Knows, Holds, Dos
<1>5. o.todo \subseteq op[w].todo
  BY <1>3
<1> QED
  BY <1>1, <1>2, <1>3, <1>4, <1>5, WriterMoves

LEMMA PressesStep ==
    ASSUME MonitorInv, NEW w \in People, NEW m \in Monitors, Presses(w, m)
    PROVE  MonitorInv'
<1> DEFINE o == Asked(m, "manual")
<1>1. Goes(w, o) /\ UNCHANGED <<ev, cursor, seen, mon, ver, fired, run, changes, faults>>
  BY DEF Presses
<1>2. w \in Writers /\ faults \in 0..MaxFaults /\ changes \in 0..MaxChanges /\ Shape
  BY DEF MonitorInv, Shape, Writers
<1>3. o \in Locals /\ o.pc = "load" /\ o.todo = {} /\ o.do = "manual" /\ o.m = m /\ o.e = ByHand
  BY AskedIs DEF Dos
<1> HIDE DEF o
<1>4. Cardinality(Flying(m, w)) < MaxInFlight
  <2>1. /\ Cardinality(Flying(m, w)) \in Nat /\ Cardinality(InFlight(m)) \in Nat
        /\ Cardinality(Flying(m, w)) <= Cardinality(InFlight(m))
    BY <1>2, FlyingIs
  <2>2. Cardinality(InFlight(m)) < MaxInFlight /\ MaxInFlight \in Nat
    BY MonitorsAssumption DEF Presses, Free
  <2> QED
    BY <2>1, <2>2
<1>5. Knows(w, o)
  BY <1>3, <1>4 DEF Knows, Holds
<1>6. o.todo \subseteq op[w].todo
  BY <1>3
<1> QED
  BY <1>1, <1>2, <1>3, <1>5, <1>6, WriterMoves

\* A decision is made on the monitor as it is, and carries the seq it was made at.
LEMMA LoadsStep ==
    ASSUME MonitorInv, NEW w \in Writers, Loads(w)
    PROVE  MonitorInv'
<1>1. /\ op[w] \in Locals /\ Knows(w, op[w]) /\ Holds(w, op[w]) /\ ver[op[w].m] \in Nat
      /\ faults \in 0..MaxFaults /\ changes \in 0..MaxChanges
  <2>1. op[w] \in Locals /\ Knows(w, op[w]) /\ Shape
    BY ShapeFacts DEF MonitorInv
  <2>2. Holds(w, op[w])
    BY <2>1 DEF Loads, Knows
  <2> QED
    BY <2>1, <2>2 DEF Shape, Holds
<1>2. UNCHANGED <<ev, cursor, seen, mon, ver, fired, run, changes, faults>>
  BY DEF Loads
<1>3. CASE Decides(op[w]) /\ StillWatches(op[w])
  <2> DEFINE p == op[w]
             o == [p EXCEPT !.pc = "append", !.at = ver[p.m]]
  <2>1. Goes(w, o)
    BY <1>3 DEF Loads
  <2>2. p \in Locals /\ Knows(w, p) /\ Holds(w, p) /\ ver[p.m] \in Nat /\ Decides(p) /\ StillWatches(p)
    BY <1>1, <1>3
  <2>3. p.todo = op[w].todo
    OBVIOUS
  <2> HIDE DEF p
  <2>4. /\ o \in Locals /\ o.pc = "append" /\ o.todo = p.todo /\ o.do = p.do /\ o.m = p.m
        /\ o.e = p.e /\ o.watches = p.watches /\ o.at = ver[p.m]
    BY <2>2 DEF Locals
  <2> HIDE DEF o
  <2>5. Holds(w, o)
    BY <2>2, <2>4 DEF Holds
  <2>6. Decided(o)
    BY <2>2, <2>4 DEF Decided, Decides, StillWatches, Checked
  <2>7. Knows(w, o)
    BY <2>2, <2>4, <2>5, <2>6 DEF Knows
  <2> QED
    BY <1>1, <1>2, <2>1, <2>3, <2>4, <2>7, WriterMoves
<1>4. CASE ~(Decides(op[w]) /\ StillWatches(op[w]))
  <2>1. Goes(w, Done(w))
    BY <1>4 DEF Loads
  <2> QED
    BY <1>1, <1>2, <2>1, DoneIs, WriterMoves
<1> QED
  BY <1>3, <1>4

LEMMA ConflictsStep ==
    ASSUME MonitorInv, NEW w \in Writers, Conflicts(w)
    PROVE  MonitorInv'
<1>1. /\ op[w] \in Locals /\ Knows(w, op[w]) /\ Holds(w, op[w])
      /\ faults \in 0..MaxFaults /\ changes \in 0..MaxChanges
  <2>1. op[w] \in Locals /\ Knows(w, op[w]) /\ Shape
    BY ShapeFacts DEF MonitorInv
  <2>2. Holds(w, op[w])
    BY <2>1 DEF Conflicts, Knows
  <2> QED
    BY <2>1, <2>2 DEF Shape
<1>2. UNCHANGED <<ev, cursor, seen, mon, ver, fired, run, changes, faults>>
  BY DEF Conflicts
<1>3. CASE op[w].tries = 0
  <2> DEFINE p == op[w]
             o == [p EXCEPT !.pc = "load", !.tries = 1]
  <2>1. Goes(w, o)
    BY <1>3 DEF Conflicts
  <2>2. p \in Locals /\ Knows(w, p) /\ Holds(w, p) /\ p.todo = op[w].todo
    BY <1>1
  <2> HIDE DEF p
  <2>3. /\ o \in Locals /\ o.pc = "load" /\ o.todo = p.todo /\ o.do = p.do /\ o.m = p.m
        /\ o.e = p.e
    BY <2>2 DEF Locals
  <2> HIDE DEF o
  <2>4. Holds(w, o)
    BY <2>2, <2>3 DEF Holds
  <2>5. Knows(w, o)
    BY <2>2, <2>3, <2>4 DEF Knows
  <2> QED
    BY <1>1, <1>2, <2>1, <2>2, <2>3, <2>5, WriterMoves
<1>4. CASE op[w].tries # 0
  <2>1. Goes(w, Done(w))
    BY <1>4 DEF Conflicts
  <2> QED
    BY <1>1, <1>2, <2>1, DoneIs, WriterMoves
<1> QED
  BY <1>3, <1>4

LEMMA LetsGoStep ==
    ASSUME MonitorInv, NEW w \in Writers, Fails(w) \/ Crash(w)
    PROVE  MonitorInv'
<1>1. UNCHANGED <<ev, cursor, seen, mon, ver, fired, run, changes>>
  BY DEF Fails, Crash
<1>2. changes' \in 0..MaxChanges /\ faults' \in 0..MaxFaults
  BY <1>1, FaultsIn DEF Fails, Crash, MonitorInv, Shape
<1>3. CASE Fails(w)
  BY <1>1, <1>2, <1>3, DoneIs, WriterMoves DEF Fails
<1>4. CASE Crash(w)
  <2>1. Goes(w, Idle)
    BY <1>4 DEF Crash
  <2>2. Idle \in Locals /\ Idle.todo \subseteq op[w].todo /\ Knows(w, Idle)
    BY IdleIs, LittleToKnow
  <2> QED
    BY <1>1, <1>2, <2>1, <2>2, WriterMoves
<1> QED
  BY <1>3, <1>4

-----------------------------------------------------------------------------
(* An append.                                                               *)

LEMMA AppliedIs ==
    ASSUME NEW a \in Aggregates, NEW o, o.do = "edit" => o.watches \in Watchable
    PROVE  Applied(a, o) \in Aggregates
<1>1. CASE o.do = "pause"
  <2>1. Applied(a, o) = [a EXCEPT !.paused = TRUE]
    BY <1>1 DEF Applied
  <2> QED
    BY <2>1 DEF Aggregates
<1>2. CASE o.do = "resume"
  <2>1. Applied(a, o) = [a EXCEPT !.paused = FALSE]
    BY <1>2 DEF Applied
  <2> QED
    BY <2>1 DEF Aggregates
<1>3. CASE o.do = "delete"
  <2>1. Applied(a, o) = [a EXCEPT !.deleted = TRUE]
    BY <1>3 DEF Applied
  <2> QED
    BY <2>1 DEF Aggregates
<1>4. CASE o.do = "edit"
  <2>1. Applied(a, o) = [a EXCEPT !.watches = o.watches]
    BY <1>4 DEF Applied
  <2> QED
    BY <1>4, <2>1 DEF Aggregates
<1>5. CASE o.do \notin {"pause", "resume", "delete", "edit"}
  BY <1>5 DEF Applied
<1> QED
  BY <1>1, <1>2, <1>3, <1>4, <1>5

\* The writer of an append knows its monitor, and its decision holds of it as it is.
LEMMA AppenderKnows ==
    ASSUME MonitorInv, NEW w \in Writers, Appends(w)
    PROVE  /\ Shape /\ op[w] \in Locals /\ Knows(w, op[w]) /\ Holds(w, op[w])
           /\ Decides(op[w]) /\ StillWatches(op[w])
           /\ op[w].m \in Monitors /\ ver[op[w].m] \in Nat
<1>1. op[w] \in Locals /\ Knows(w, op[w]) /\ Shape
  BY ShapeFacts DEF MonitorInv
<1>2. Holds(w, op[w]) /\ Decided(op[w]) /\ op[w].at = ver[op[w].m]
  BY <1>1 DEF Appends, Lost, Knows
<1> QED
  BY <1>1, <1>2 DEF Holds, Decided, Shape

\* What an append does to the firings and their runs: nothing, or one more that is pending.
LEMMA AppendedAre ==
    ASSUME MonitorInv, NEW w \in Writers, Appends(w)
    PROVE  /\ fired' \in Seq(Records) /\ Len(fired') <= MaxFirings
           /\ run' \in [Runs -> {"none", "pending", "running", "ended", "never"}]
           /\ \A i \in DOMAIN fired : i \in DOMAIN fired' /\ fired'[i] = fired[i] /\ run'[i] = run[i]
           /\ \A i \in DOMAIN fired' \ DOMAIN fired :
                 /\ i = Len(fired) + 1
                 /\ fired'[i] = [monitor |-> op[w].m, match |-> op[w].e, by |-> w]
                 /\ op[w].do \in {"event", "manual"} /\ i = Len(fired')
           /\ \A r \in Firings : run'[r] # "none" => r \in DOMAIN fired'
<1> DEFINE o == op[w]
           rec == [monitor |-> o.m, match |-> o.e, by |-> w]
           new == Len(fired) + 1
<1>1. /\ Shape /\ RunsOK /\ o \in Locals /\ o.m \in Monitors /\ fired \in Seq(Records)
      /\ Len(fired) \in Nat /\ DOMAIN fired = 1..Len(fired) /\ Len(fired) <= MaxFirings
      /\ run \in [Runs -> {"none", "pending", "running", "ended", "never"}]
      /\ DOMAIN fired \subseteq Firings
  BY AppenderKnows, ShapeFacts DEF MonitorInv, Shape
<1>2. CASE o.do \in {"event", "manual"}
  <2>1. /\ Len(fired) < MaxFirings /\ fired' = Append(fired, rec)
        /\ run' = [run EXCEPT ![new] = "pending"]
    BY <1>2 DEF Appends
  <2>2. rec \in Records
    BY <1>1 DEF Locals, Records
  <2> HIDE DEF o, rec
  <2>3. /\ fired' \in Seq(Records) /\ Len(fired') = new /\ DOMAIN fired' = 1..new
        /\ fired'[new] = rec /\ \A n \in 1..Len(fired) : fired'[n] = fired[n]
    BY <1>1, <2>1, <2>2, Grows
  <2>4. new \in Firings /\ new \in Runs /\ new <= MaxFirings
    BY <1>1, <2>1, MonitorsAssumption DEF Firings, Runs
  <2>5. \A i \in DOMAIN fired : i \in DOMAIN fired' /\ fired'[i] = fired[i]
    BY <1>1, <2>3
  <2>6. \A i \in DOMAIN fired' \ DOMAIN fired : i = new
    BY <1>1, <2>3
  <2>7. /\ run' \in [Runs -> {"none", "pending", "running", "ended", "never"}]
        /\ \A r \in Runs : run'[r] = IF r = new THEN "pending" ELSE run[r]
    BY <1>1, <2>1, <2>4
  <2>8. \A i \in DOMAIN fired : run'[i] = run[i]
    <3>1. ASSUME NEW i \in DOMAIN fired
          PROVE  i # new /\ i \in Runs
      BY <1>1 DEF Runs
    <3> QED
      BY <2>7, <3>1
  <2>9. ASSUME NEW r \in Firings, run'[r] # "none"
        PROVE  r \in DOMAIN fired'
    <3>1. r \in Runs
      BY DEF Runs
    <3>2. CASE r = new
      BY <1>1, <2>3, <3>2
    <3>3. CASE r # new
      BY <1>1, <2>5, <2>7, <2>9, <3>1, <3>3 DEF RunsOK
    <3> QED
      BY <3>2, <3>3
  <2> QED
    BY <1>2, <2>3, <2>4, <2>5, <2>6, <2>7, <2>8, <2>9 DEF o, rec
<1>3. CASE o.do \notin {"event", "manual"}
  <2>1. UNCHANGED <<fired, run>>
    BY <1>3 DEF Appends
  <2> QED
    BY <1>1, <2>1 DEF RunsOK
<1> QED
  BY <1>2, <1>3

LEMMA AppendsStep ==
    ASSUME MonitorInv, NEW w \in Writers, Appends(w)
    PROVE  MonitorInv'
<1> DEFINE o == op[w]
           d == Done(w)
<1>1. /\ Shape /\ RunsOK /\ o \in Locals /\ Knows(w, o) /\ Holds(w, o)
      /\ Decides(o) /\ StillWatches(o) /\ o.m \in Monitors /\ ver[o.m] \in Nat
      /\ \A i \in DOMAIN fired : fired[i] \in Records
      /\ seen \subseteq DOMAIN ev /\ 0 \notin seen /\ op \in [Writers -> Locals]
      /\ mon \in [Monitors -> Aggregates] /\ ver \in [Monitors -> Nat]
      /\ DOMAIN fired \subseteq Firings
      /\ DOMAIN fired = 1..Len(fired) /\ Len(fired) \in Nat
  BY AppenderKnows, ShapeFacts DEF MonitorInv, Shape
<1>2. /\ fired' \in Seq(Records) /\ Len(fired') <= MaxFirings
      /\ run' \in [Runs -> {"none", "pending", "running", "ended", "never"}]
      /\ \A i \in DOMAIN fired : i \in DOMAIN fired' /\ fired'[i] = fired[i] /\ run'[i] = run[i]
      /\ \A r \in Firings : run'[r] # "none" => r \in DOMAIN fired'
  BY AppendedAre
<1>3. ASSUME NEW i \in DOMAIN fired', i \notin DOMAIN fired
      PROVE  /\ i = Len(fired) + 1 /\ o.do \in {"event", "manual"}
             /\ fired'[i].monitor = o.m /\ fired'[i].match = o.e /\ fired'[i].by = w
  BY <1>3, AppendedAre
<1>4. /\ UNCHANGED <<ev, cursor, seen, changes, faults>>
      /\ ver' = [ver EXCEPT ![o.m] = @ + 1] /\ mon' = [mon EXCEPT ![o.m] = Applied(@, o)]
      /\ Goes(w, d)
  BY DEF Appends
<1>5. /\ d \in Locals /\ Knows(w, d) /\ d.todo \subseteq o.todo
      /\ o.do = "event" => <<o.e, o.m>> \notin d.todo
      /\ d.pc \notin {"load", "append"}
  BY DoneIs
<1> HIDE DEF d
<1>6. op' \in [Writers -> Locals] /\ op'[w] = d /\ \A v \in Writers \ {w} : op'[v] = op[v]
  BY <1>1, <1>4, <1>5 DEF Goes
<1>7. /\ ver' \in [Monitors -> Nat] /\ ver'[o.m] = ver[o.m] + 1
      /\ \A m \in Monitors \ {o.m} : ver'[m] = ver[m] /\ mon'[m] = mon[m]
      /\ mon' \in [Monitors -> Aggregates]
  <2>1. Applied(mon[o.m], o) \in Aggregates
    BY <1>1, AppliedIs DEF Decides, Checked
  <2> HIDE DEF o
  <2> QED
    BY <1>1, <1>4, <2>1
<1>8. o.do = "event" => /\ <<o.e, o.m>> \in o.todo /\ o.e \in seen /\ MayWake(o.m, o.e)
  BY <1>1 DEF Holds, Knows
<1>9. o.do = "manual" => o.e = ByHand
  BY <1>1 DEF Holds
<1> HIDE DEF o
<1>10. Shape'
  <2>1. ASSUME NEW i \in DOMAIN fired'
        PROVE  fired'[i].match \in seen \cup {ByHand}
    <3>1. CASE i \in DOMAIN fired
      BY <1>1, <1>2, <3>1 DEF Shape
    <3>2. CASE i \notin DOMAIN fired
      BY <1>3, <1>8, <1>9, <3>2
    <3> QED
      BY <3>1, <3>2
  <2> QED
    BY <1>1, <1>2, <1>4, <1>6, <1>7, <2>1 DEF Shape
<1>11. RunsOK'
  BY <1>1, <1>2, <1>4 DEF RunsOK
<1>12. ASSUME NEW e \in seen, NEW m
       PROVE  MayWake(m, e)' <=> MayWake(m, e)
  <2> DEFINE r == ev[e].stream
  <2>1. r \in Firings => r \in DOMAIN fired
    BY <1>1 DEF RunsOK
  <2>2. r \in Firings => fired'[r] = fired[r]
    BY <1>2, <2>1
  <2>3. ev'[e].stream = r
    BY <1>4
  <2>4. RunOwner(ev[e].stream)' = RunOwner(ev[e].stream)
    <3>1. r \in Turns => r \notin Firings
      BY MonitorsAssumption DEF Firings
    <3>2. ev[e] \in LogEvents
      BY <1>1, ShapeFacts
    <3>3. r \in Turns \/ r \in Firings
      BY <3>2 DEF LogEvents, Runs
    <3> QED
      BY <2>2, <2>3, <3>3 DEF RunOwner
  <2> QED
    BY <2>2, <2>3, <2>4 DEF MayWake, Owned, WasFiredBy
<1>13. ASSUME NEW m, NEW v, m # o.m \/ v # w \/ o.do \notin {"event", "manual"}
       PROVE  /\ Cardinality(Flying(m, v)') <= Cardinality(Flying(m, v))
              /\ Cardinality(Flying(m, v)') \in Nat /\ Cardinality(Flying(m, v)) \in Nat
  <2>1. Flying(m, v)' \subseteq Flying(m, v)
    BY <1>2, <1>3, <1>13 DEF Flying, InFlightNow
  <2>2. IsFiniteSet(Flying(m, v))
    BY <1>1, FlyingIs
  <2> QED
    BY <2>1, <2>2, FS_Subset, FS_CardinalityType
<1>14. ASSUME NEW v \in Writers \ {w}
       PROVE  Knows(v, op[v])'
  <2>0. PICK p : p = op[v]
    OBVIOUS
  <2>1. Knows(v, p) /\ p \in Locals /\ op'[v] = p
    BY <1>1, <1>6, <2>0 DEF MonitorInv
  <2>2. p.todo \cap o.todo = {}
    BY <2>0 DEF MonitorInv, Apart, o
  <2>3. ASSUME NEW t \in p.todo
        PROVE  NotFired(t)'
    <3>1. t \in seen \X Monitors /\ NotFired(t) /\ t[1] # ByHand /\ t = <<t[1], t[2]>>
      BY <1>1, <2>1 DEF Knows, ByHand
    <3>2. ASSUME NEW i \in DOMAIN fired', fired'[i].match = t[1], fired'[i].monitor = t[2]
          PROVE  FALSE
      <4>1. CASE i \in DOMAIN fired
        BY <1>2, <3>1, <3>2, <4>1 DEF NotFired
      <4>2. CASE i \notin DOMAIN fired
        BY <1>3, <1>8, <1>9, <2>2, <3>1, <3>2, <4>2
      <4> QED
        BY <4>1, <4>2
    <3> QED
      BY <3>2 DEF NotFired
  <2>4. ASSUME p.pc \in {"load", "append"}
        PROVE  Holds(v, p)'
    <3>1. Holds(v, p)
      BY <2>1, <2>4 DEF Knows
    <3>2. p.do = "event" => MayWake(p.m, p.e)'
      BY <1>12, <2>1, <3>1 DEF Holds, Knows
    <3>3. p.do \in {"event", "manual"} => Cardinality(Flying(p.m, v)') < MaxInFlight
      BY <1>13, <3>1, MonitorsAssumption DEF Holds
    <3> QED
      BY <3>1, <3>2, <3>3 DEF Holds
  <2>5. ASSUME p.pc = "append"
        PROVE  Decided(p)'
    <3>1. Decided(p) /\ p.m \in Monitors /\ p.at \in Nat
      BY <2>1, <2>5 DEF Knows, Holds, Locals
    <3>2. CASE p.m = o.m
      BY <1>1, <1>7, <3>1, <3>2 DEF Decided
    <3>3. CASE p.m # o.m
      BY <1>4, <1>7, <3>1, <3>3 DEF Decided, Decides, StillWatches, Checked
    <3> QED
      BY <3>2, <3>3
  <2> QED
    BY <1>4, <2>1, <2>3, <2>4, <2>5 DEF Knows
<1>15. Knows(w, op[w])'
  <2>1. ASSUME NEW t \in d.todo
        PROVE  NotFired(t)'
    <3>1. t \in seen \X Monitors /\ NotFired(t) /\ t[1] # ByHand /\ t = <<t[1], t[2]>>
      BY <1>1, <1>5 DEF Knows, ByHand
    <3>2. ASSUME NEW i \in DOMAIN fired', fired'[i].match = t[1], fired'[i].monitor = t[2]
          PROVE  FALSE
      <4>1. CASE i \in DOMAIN fired
        BY <1>2, <3>1, <3>2, <4>1 DEF NotFired
      <4>2. CASE i \notin DOMAIN fired
        BY <1>3, <1>5, <1>9, <3>1, <3>2, <4>2
      <4> QED
        BY <4>1, <4>2
    <3> QED
      BY <3>2 DEF NotFired
  <2> QED
    BY <1>4, <1>5, <1>6, <2>1 DEF Knows
<1>16. Apart'
  <2> SUFFICES ASSUME NEW u \in Writers, NEW v \in Writers, u # v
               PROVE  op'[u].todo \cap op'[v].todo = {}
    BY DEF Apart
  <2>1. op'[u].todo \subseteq op[u].todo /\ op'[v].todo \subseteq op[v].todo
    BY <1>5, <1>6 DEF o
  <2>2. op[u].todo \cap op[v].todo = {}
    BY DEF MonitorInv, Apart
  <2> QED
    BY <2>1, <2>2
<1>17. FiresOnce'
  <2>1. \A t \in o.todo : NotFired(t)
    BY <1>1 DEF Knows
  <2>2. ASSUME NEW i \in DOMAIN fired, fired[i].match = o.e, fired[i].monitor = o.m, o.do = "event"
        PROVE  FALSE
    BY <1>8, <2>1, <2>2 DEF NotFired
  <2> SUFFICES ASSUME NEW i \in DOMAIN fired', NEW j \in DOMAIN fired', i # j,
                      fired'[i].monitor = fired'[j].monitor, fired'[i].match # ByHand
               PROVE  fired'[i].match # fired'[j].match
    BY DEF FiresOnce
  <2>3. CASE i \in DOMAIN fired /\ j \in DOMAIN fired
    BY <1>2, <2>3 DEF MonitorInv, FiresOnce
  <2>4. CASE i \notin DOMAIN fired /\ j \in DOMAIN fired
    BY <1>2, <1>3, <1>9, <2>2, <2>4
  <2>5. CASE i \in DOMAIN fired /\ j \notin DOMAIN fired
    BY <1>2, <1>3, <1>9, <2>2, <2>5
  <2>6. CASE i \notin DOMAIN fired /\ j \notin DOMAIN fired
    BY <1>3, <2>6
  <2> QED
    BY <2>3, <2>4, <2>5, <2>6
<1>18. WokenRightly'
  <2>1. WokenRightly <=> \A i \in DOMAIN fired :
            fired[i].match # ByHand => MayWake(fired[i].monitor, fired[i].match)
    BY DEF WokenRightly, MayWake, Owned, WasFiredBy
  <2>2. ASSUME NEW i \in DOMAIN fired', NEW m, NEW e,
               m = fired'[i].monitor, e = fired'[i].match, e # ByHand
        PROVE  MayWake(m, e)'
    <3>1. CASE i \in DOMAIN fired
      <4>1. e \in seen /\ MayWake(m, e)
        BY <1>1, <1>2, <2>1, <2>2, <3>1 DEF Shape, MonitorInv
      <4> QED
        BY <1>12, <4>1
    <3>2. CASE i \notin DOMAIN fired
      <4>1. e \in seen /\ MayWake(m, e)
        BY <1>3, <1>8, <1>9, <2>2, <3>2
      <4> QED
        BY <1>12, <4>1
    <3> QED
      BY <3>1, <3>2
  <2> QED
    BY <2>2 DEF WokenRightly, MayWake, Owned, WasFiredBy
<1>19. BurstIsBraked'
  <2> SUFFICES ASSUME NEW m \in Monitors, NEW v \in Writers
               PROVE  Cardinality(Flying(m, v)') <= MaxInFlight
    BY DEF BurstIsBraked, Flying, InFlightNow
  <2>1. Cardinality(Flying(m, v)) <= MaxInFlight /\ MaxInFlight \in Nat
    BY MonitorsAssumption DEF MonitorInv, BurstIsBraked, Flying, InFlightNow
  <2>2. CASE m # o.m \/ v # w \/ o.do \notin {"event", "manual"}
    BY <1>13, <2>1, <2>2
  <2>3. CASE m = o.m /\ v = w /\ o.do \in {"event", "manual"}
    <3> DEFINE new == Len(fired) + 1
               F == Flying(m, v)
    <3>1. Flying(m, v)' \subseteq F \cup {new}
      BY <1>2, <1>3 DEF Flying, InFlightNow
    <3>2. IsFiniteSet(F) /\ Cardinality(F) \in Nat /\ Cardinality(F) < MaxInFlight
      BY <1>1, <2>3, FlyingIs DEF Holds
    <3> HIDE DEF F, new
    <3>3. /\ IsFiniteSet(F \cup {new})
          /\ Cardinality(F \cup {new}) = IF new \in F THEN Cardinality(F) ELSE Cardinality(F) + 1
      BY <3>2, FS_AddElement
    <3>4. Cardinality(Flying(m, v)') <= Cardinality(F \cup {new}) /\ Cardinality(Flying(m, v)') \in Nat
      BY <3>1, <3>3, FS_Subset, FS_CardinalityType
    <3> QED
      BY <2>1, <3>2, <3>3, <3>4
  <2> QED
    BY <2>2, <2>3
<1> QED
  BY <1>10, <1>11, <1>14, <1>15, <1>16, <1>17, <1>18, <1>19 DEF MonitorInv

-----------------------------------------------------------------------------
(* The invariant, and what it gives.                                        *)

LEMMA MonitorInit == Init => MonitorInv
<1> SUFFICES ASSUME Init
             PROVE  MonitorInv
  OBVIOUS
<1>1. /\ ev \in Seq(LogEvents) /\ DOMAIN ev = {} /\ Len(ev) = 0
      /\ fired \in Seq(Records) /\ DOMAIN fired = {} /\ Len(fired) = 0
      /\ cursor = 0 /\ seen = {} /\ changes = 0 /\ faults = 0
      /\ mon \in [Monitors -> Aggregates] /\ ver \in [Monitors -> Nat]
  <2>1. /\ ev = <<>> /\ fired = <<>> /\ cursor = 0 /\ seen = {} /\ changes = 0 /\ faults = 0
        /\ ver = [m \in Monitors |-> 1]
        /\ mon \in [Monitors -> [watches : Watchable, paused : BOOLEAN, deleted : {FALSE}]]
    BY DEF Init
  <2>2. mon \in [Monitors -> Aggregates]
    <3>1. [watches : Watchable, paused : BOOLEAN, deleted : {FALSE}] \subseteq Aggregates
      BY DEF Aggregates
    <3> QED
      BY <2>1, <3>1
  <2> QED
    BY <2>1, <2>2
<1>2. op \in [Writers -> Locals] /\ \A w \in Writers : op[w] = Idle
  BY IdleIs DEF Init
<1>3. /\ run \in [Runs -> {"none", "pending", "running", "ended", "never"}]
      /\ \A r \in Firings : run[r] = "none"
  <2>1. \A r \in Firings : r \in Runs /\ r \notin Turns
    BY MonitorsAssumption DEF Runs, Firings
  <2> QED
    BY <2>1 DEF Init
<1>4. MaxFirings \in Nat /\ MaxChanges \in Nat /\ MaxFaults \in Nat /\ MaxInFlight \in Nat
  BY MonitorsAssumption
<1>5. Shape
  BY <1>1, <1>2, <1>3, <1>4 DEF Shape
<1>6. RunsOK /\ FiresOnce /\ WokenRightly
  BY <1>1, <1>3 DEF RunsOK, FiresOnce, WokenRightly
<1>7. \A w \in Writers : Knows(w, op[w])
  BY <1>2, IdleIs DEF Knows
<1>8. Apart
  BY <1>2, IdleIs DEF Apart
<1>9. BurstIsBraked
  <2>1. \A m \in Monitors, w \in Writers : Flying(m, w) = {}
    BY <1>1 DEF Flying
  <2>2. Cardinality({}) = 0
    BY FS_EmptySet
  <2>3. \A m \in Monitors, w \in Writers : Cardinality(Flying(m, w)) <= MaxInFlight
    BY <1>4, <2>1, <2>2
  <2> QED
    BY <2>3 DEF BurstIsBraked, Flying, InFlightNow
<1> QED
  BY <1>5, <1>6, <1>7, <1>8, <1>9 DEF MonitorInv

LEMMA MonitorStep == MonitorInv /\ [Next]_vars => MonitorInv'
<1> SUFFICES ASSUME MonitorInv, [Next]_vars
             PROVE  MonitorInv'
  OBVIOUS
<1>1. CASE LogNext
  BY <1>1, LogStep
<1>2. CASE SweepNext
  BY <1>2, TicksStep, TakesSpanStep, ConsidersStep, UnreadStep DEF SweepNext
<1>3. CASE PeopleNext
  <2>1. ASSUME NEW w \in People, NEW m \in Monitors, NEW do \in {"pause", "resume", "delete"},
               Changes(w, m, do, "none")
        PROVE  MonitorInv'
    BY <2>1, AsksStep DEF Dos
  <2>2. ASSUME NEW w \in People, NEW m \in Monitors, NEW t \in Watchable \cup {Unwatchable},
               Changes(w, m, "edit", t)
        PROVE  MonitorInv'
    BY <2>2, AsksStep DEF Dos
  <2> QED
    BY <1>3, <2>1, <2>2, PressesStep DEF PeopleNext
<1>4. CASE WriteNext
  BY <1>4, LoadsStep, AppendsStep, ConflictsStep, LetsGoStep DEF WriteNext
<1>5. CASE UNCHANGED vars
  <2>1. UNCHANGED <<ev, cursor, seen, mon, ver, fired, run, op, changes, faults>>
    BY <1>5 DEF vars
  <2>2. Shape' /\ RunsOK' /\ Apart' /\ FiresOnce' /\ WokenRightly' /\ BurstIsBraked'
    BY <2>1 DEF MonitorInv, Shape, RunsOK, Apart, FiresOnce, WokenRightly, BurstIsBraked, RunOwner
  <2>3. ASSUME NEW w \in Writers
        PROVE  Knows(w, op[w])'
    <3>1. Knows(w, op[w])
      BY DEF MonitorInv
    <3> QED
      BY <2>1, <3>1 DEF Knows, Holds, Decided, Decides, StillWatches, Checked, NotFired,
         MayWake, Owned, WasFiredBy, RunOwner, Flying, InFlightNow
  <2> QED
    BY <2>2, <2>3 DEF MonitorInv
<1> QED
  BY <1>1, <1>2, <1>3, <1>4, <1>5 DEF Next

LEMMA MonitorInvariant == Spec => []MonitorInv
BY MonitorInit, MonitorStep, PTL DEF Spec

LEMMA ShapeIsType ==
    ASSUME MonitorInv
    PROVE  TypeOK
<1>1. Shape /\ \A e \in DOMAIN ev : ev[e] \in LogEvents
  BY ShapeFacts DEF MonitorInv
<1>2. \A i \in DOMAIN fired : fired[i] \in [monitor : Monitors, match : seen \cup {ByHand}, by : Writers]
  <2>1. \A i \in DOMAIN fired : fired[i] \in Records /\ fired[i].match \in seen \cup {ByHand}
    BY <1>1, ShapeFacts DEF Shape
  <2> QED
    BY <2>1 DEF Records
<1>3. \A w \in Writers : op[w].todo \subseteq seen \X Monitors
  BY DEF MonitorInv, Knows
<1> QED
  BY <1>1, <1>2, <1>3 DEF TypeOK, Shape, LogEvents, Aggregates

\* A firing is recorded of a monitor that is active and watches what woke it.
FiresOnlyThen ==
    Len(fired') > Len(fired) =>
        LET f == fired'[Len(fired')]
        IN ~mon[f.monitor].deleted
           /\ (f.match # ByHand => /\ ~mon[f.monitor].paused
                                   /\ mon[f.monitor].watches = ev[f.match].type)

LEMMA FiringStep == MonitorInv /\ [Next]_vars => FiresOnlyThen
<1> SUFFICES ASSUME MonitorInv, [Next]_vars
             PROVE  FiresOnlyThen
  OBVIOUS
<1>1. Len(fired) \in Nat /\ DOMAIN fired = 1..Len(fired)
  BY ShapeFacts DEF MonitorInv
<1>2. CASE UNCHANGED fired
  BY <1>1, <1>2 DEF FiresOnlyThen
<1>3. ASSUME NEW w \in Writers, Appends(w), Len(fired') > Len(fired)
      PROVE  FiresOnlyThen
  <2> DEFINE n == Len(fired')
             o == op[w]
  <2>1. fired' \in Seq(Records) /\ n \in Nat /\ n \in DOMAIN fired' /\ n \notin DOMAIN fired
    <3>1. fired' \in Seq(Records)
      BY <1>3, AppendedAre
    <3>2. n \in Nat /\ DOMAIN fired' = 1..n
      BY <3>1
    <3> QED
      BY <1>1, <1>3, <3>1, <3>2
  <2>2. fired'[n] = [monitor |-> o.m, match |-> o.e, by |-> w] /\ o.do \in {"event", "manual"}
    BY <1>3, <2>1, AppendedAre
  <2>3. Decides(o) /\ StillWatches(o) /\ Holds(w, o)
    BY <1>3, AppenderKnows
  <2>4. fired'[n].monitor = o.m /\ fired'[n].match = o.e
    BY <2>2
  <2> QED
    BY <2>2, <2>3, <2>4 DEF FiresOnlyThen, Decides, StillWatches, Holds
<1>4. CASE ~(UNCHANGED fired) /\ ~(\E w \in Writers : Appends(w))
  <2>1. CASE LogNext
    BY <1>2, <2>1 DEF LogNext, Inserts, Commits, Lapses
  <2>2. CASE SweepNext
    <3>1. \A r \in Replicas : Ticks(r) \/ TakesSpan(r) => UNCHANGED fired
      BY DEF Ticks, TakesSpan
    <3>2. \A r \in Replicas : \A t : Considers(r, t) \/ Unread(r, t) => UNCHANGED fired
      BY DEF Considers, Unread
    <3> QED
      BY <1>2, <2>2, <3>1, <3>2 DEF SweepNext
  <2>3. CASE PeopleNext
    BY <1>2, <2>3 DEF PeopleNext, Changes, Presses
  <2>4. CASE WriteNext
    BY <1>2, <1>4, <2>4 DEF WriteNext, Loads, Conflicts, Fails, Crash
  <2>5. CASE UNCHANGED vars
    BY <1>2, <2>5 DEF vars
  <2> QED
    BY <2>1, <2>2, <2>3, <2>4, <2>5 DEF Next
<1>5. CASE ~(Len(fired') > Len(fired))
  BY <1>5 DEF FiresOnlyThen
<1> QED
  BY <1>2, <1>3, <1>4, <1>5

\* The monitors (monitor_tick, next_log_span, mutate_monitor, append_monitor): however many
\* replicas sweep one log past one cursor and whatever people edit meanwhile, an event fires
\* a monitor once at most, only if it is of its owner's runs and not of one it fired, only
\* while the monitor watches it, and one writer's burst never passes the cap.
THEOREM MonitorsAreRight == Spec => MonitorsHold
<1>1. MonitorInv => TypeOK /\ FiresOnce /\ WokenRightly /\ BurstIsBraked
  BY ShapeIsType DEF MonitorInv
<1>2. Spec => [](TypeOK /\ FiresOnce /\ WokenRightly /\ BurstIsBraked)
  BY <1>1, MonitorInvariant, PTL
<1>3. Spec => [][FiresOnlyThen]_vars
  BY FiringStep, MonitorInvariant, PTL DEF Spec
<1>4. FiresOnWhatItWatches <=> [][FiresOnlyThen]_vars
  BY DEF FiresOnWhatItWatches, FiresOnlyThen
<1> QED
  BY <1>2, <1>3, <1>4 DEF MonitorsHold
=============================================================================
