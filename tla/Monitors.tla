------------------------------ MODULE Monitors ------------------------------
(***************************************************************************)
(* Monitors: standing questions against the deployment's event log         *)
(* (opengrok-core/src/monitor.rs, opengrok-store/src/autonomy.rs,          *)
(* opengrok-server/src/autonomy/{monitors,sweep}.rs).  Every replica's     *)
(* sweep takes the next span of the log past one shared cursor and fires   *)
(* the monitors that watch what it finds; people edit, pause, delete and   *)
(* press them meanwhile.  A firing starts a run, whose own events go into  *)
(* the same log.                                                           *)
(*                                                                         *)
(* An event's id is taken when it is inserted (bigserial) and seen when    *)
(* its transaction commits.  Only the log's run events are kept: no        *)
(* monitor may watch a monitor's own, and the other kinds of stream differ *)
(* in whose they are and nothing else.  Prompts and coworkers travel with  *)
(* the aggregate as Routines shows and are left out.                       *)
(***************************************************************************)
EXTENDS Integers, Sequences, FiniteSets, FiniteSetsExt, TLC

CONSTANTS
    Monitors,       \* the monitors of everybody
    Turns,          \* runs people start themselves
    OwnerOf,        \* whose each monitor and each turn is
    Replicas,       \* server processes, each with its sweep
    People,         \* requests under way at once
    Asking,         \* bound: what is asked for in an instance
    Batch,          \* MONITOR_BATCH
    MaxInFlight,    \* MAX_RUNS_IN_FLIGHT
    MaxFirings,     \* bound: firings in all
    MaxEvents,      \* bound: events inserted
    MaxChanges,     \* bound: edits, pauses, resumes and deletes
    MaxFaults       \* bound: crashes and store errors

Watchable == {"run-started", "run-finished"}
Unwatchable == "monitor-fired"     \* a type the published list leaves out
Firings == 1..MaxFirings
Runs == Turns \cup Firings
Writers == Replicas \cup People
ByHand == 0                 \* the match of a firing somebody pressed for

ASSUME MonitorsAssumption ==
    /\ Turns \cap Int = {} /\ Replicas \cap People = {}
    /\ {MaxInFlight, MaxFirings, MaxEvents, MaxChanges, MaxFaults} \subseteq Nat
    /\ Batch \in Nat \ {0}

VARIABLES
    ev,         \* the events table: stream, type and whether it has committed
    cursor,     \* monitor_cursor
    seen,       \* the events some tick has had in its span
    mon,        \* each monitor's aggregate, and so its row
    ver,        \* the seq of each monitor's stream
    fired,      \* the firings: whose, on which event, by which writer; monitor_firing is these
    run,        \* what has become of each run
    op,         \* what each sweep and each request is doing
    changes, faults

vars == <<ev, cursor, seen, mon, ver, fired, run, op, changes, faults>>

(* A sweep's and a request's locals: the rows it read, the matches of its span still
   to go, the monitor and event in hand, and the load it decided on. *)
Idle == [pc |-> "idle", rows |-> {}, todo |-> {}, do |-> "none", m |-> ByHand, e |-> ByHand,
         watches |-> "none", at |-> 0, tries |-> 0]

Init ==
    /\ ev = <<>> /\ cursor = 0 /\ seen = {}
    /\ mon \in [Monitors -> [watches : Watchable, paused : BOOLEAN, deleted : {FALSE}]]
    /\ ver = [m \in Monitors |-> 1]
    /\ fired = <<>>
    /\ run = [r \in Runs |-> IF r \in Turns THEN "pending" ELSE "none"]
    /\ op = [w \in Writers |-> Idle]
    /\ changes = 0 /\ faults = 0

RunOwner(r) == IF r \in Turns THEN OwnerOf[r] ELSE OwnerOf[fired[r].monitor]

Goes(w, o) == op' = [op EXCEPT ![w] = o]

---------------------------------------------------------------------------
(* The log: a run's events, each inserted and committed *)

Committed == {e \in DOMAIN ev : ev[e].state = "in"}

NoOpenTx(r) == \A e \in DOMAIN ev : ev[e].stream = r => ev[e].state # "open"

(* the run's next event takes its id *)
Inserts(r) ==
    /\ run[r] \in {"pending", "running"} /\ NoOpenTx(r)
    /\ Len(ev) < MaxEvents
    /\ ev' = Append(ev, [stream |-> r, state |-> "open",
                         type |-> IF run[r] = "pending" THEN "run-started" ELSE "run-finished"])
    /\ UNCHANGED <<cursor, seen, mon, ver, fired, run, op, changes, faults>>

(* and is seen, with the run's row, when its transaction commits *)
Commits(e) ==
    /\ ev[e].state = "open"
    /\ ev' = [ev EXCEPT ![e].state = "in"]
    /\ run' = [run EXCEPT ![ev[e].stream] = IF @ = "pending" THEN "running" ELSE "ended"]
    /\ UNCHANGED <<cursor, seen, mon, ver, fired, op, changes, faults>>

(* A firing refused by the policy, or cut short, never journals; after
   FIRING_PENDING_MS it is no longer counted.  That time is set longer than what may
   stand between a firing and its run's first row, so a firing that lapsed starts nothing. *)
Lapses(r) ==
    /\ r \in Firings /\ run[r] = "pending" /\ NoOpenTx(r)
    /\ run' = [run EXCEPT ![r] = "never"]
    /\ UNCHANGED <<ev, cursor, seen, mon, ver, fired, op, changes, faults>>

---------------------------------------------------------------------------
(* The sweep *)

(* monitor_tick reads the active monitors before the cursor moves *)
Ticks(r) ==
    /\ r \in Replicas /\ op[r].pc = "idle"
    /\ Goes(r, [Idle EXCEPT !.pc = "span",
                   !.rows = {[m |-> m, watches |-> mon[m].watches] :
                             m \in {n \in Monitors : ~mon[n].paused /\ ~mon[n].deleted}}])
    /\ UNCHANGED <<ev, cursor, seen, mon, ver, fired, run, changes, faults>>

(* as if the cursor's own event were read again *)
PastInclusive == {e \in Committed : e >= cursor}

Past == {e \in Committed : e > cursor}

(* next_log_span: the next Batch of what has committed, and the cursor past it *)
Span == {e \in Past : Cardinality({d \in Past : d < e}) < Batch}

TakesSpan(r) ==
    /\ op[r].pc = "span"
    /\ cursor' = Max(Span \cup {cursor})
    /\ seen' = seen \cup Span
    /\ LET todo == {<<e, row.m>> : e \in Span, row \in op[r].rows}
           hits == {t \in todo : [m |-> t[2], watches |-> ev[t[1]].type] \in op[r].rows}
       IN Goes(r, IF hits = {} THEN Idle ELSE [op[r] EXCEPT !.pc = "match", !.todo = hits])
    /\ UNCHANGED <<ev, mon, ver, fired, run, changes, faults>>

(* stream_owner, for a run's stream: the event is the monitor's owner's *)
Owned(m, e) == RunOwner(ev[e].stream) = OwnerOf[m]

(* as if only the runs the log woke it for were its own *)
WokenBy(m, r) == r \in Firings /\ fired[r].monitor = m /\ fired[r].match # ByHand

(* was_fired_by: the loop guard *)
WasFiredBy(m, r) == r \in Firings /\ fired[r].monitor = m

(* as if only runs with a row were counted *)
InFlightJournaled(m) == {i \in DOMAIN fired : fired[i].monitor = m /\ run[i] = "running"}

(* monitor_runs_in_flight: runs it fired that have not ended, journaled or not *)
InFlight(m) == {i \in DOMAIN fired : fired[i].monitor = m /\ run[i] \in {"pending", "running"}}

Free(m) == Cardinality(InFlight(m)) < MaxInFlight

(* the rest of the span, or the end of the tick *)
GoOn(r, t) ==
    LET rest == op[r].todo \ {t}
    IN IF rest = {} THEN Idle ELSE [Idle EXCEPT !.pc = "match", !.rows = op[r].rows, !.todo = rest]

(* A match in the order of the log: whose the event is, the loop guard and the cap *)
Considers(r, t) ==
    /\ op[r].pc = "match" /\ t \in op[r].todo
    /\ \A u \in op[r].todo : t[1] <= u[1]
    /\ IF /\ Owned(t[2], t[1])
          /\ ~WasFiredBy(t[2], ev[t[1]].stream)
          /\ Free(t[2])
       THEN Goes(r, [op[r] EXCEPT !.pc = "load", !.do = "event", !.m = t[2], !.e = t[1], !.tries = 0])
       ELSE Goes(r, GoOn(r, t))
    /\ UNCHANGED <<ev, cursor, seen, mon, ver, fired, run, changes, faults>>

(* the owner, the guard or the count cannot be read: that match alone is dropped *)
Unread(r, t) ==
    /\ op[r].pc = "match" /\ t \in op[r].todo
    /\ faults < MaxFaults
    /\ faults' = faults + 1
    /\ Goes(r, GoOn(r, t))
    /\ UNCHANGED <<ev, cursor, seen, mon, ver, fired, run, changes>>

---------------------------------------------------------------------------
(* People *)

Asked(m, do) == [Idle EXCEPT !.pc = "load", !.do = do, !.m = m]

(* pause, resume, delete, and an edit of what it watches *)
Changes(w, m, do, watches) ==
    /\ w \in People /\ op[w].pc = "idle" /\ do \in Asking
    /\ ~mon[m].deleted
    /\ changes < MaxChanges
    /\ changes' = changes + 1
    /\ Goes(w, [Asked(m, do) EXCEPT !.watches = watches])
    /\ UNCHANGED <<ev, cursor, seen, mon, ver, fired, run, faults>>

(* run_monitor_now: the sweep's own count is the cap *)
Presses(w, m) ==
    /\ w \in People /\ op[w].pc = "idle" /\ "manual" \in Asking
    /\ ~mon[m].deleted
    /\ Free(m)
    /\ Goes(w, Asked(m, "manual"))
    /\ UNCHANGED <<ev, cursor, seen, mon, ver, fired, run, changes, faults>>

---------------------------------------------------------------------------
(* mutate_monitor: load, decide, append at the loaded seq, once more on a conflict *)

(* as if the row the tick read were enough *)
StillWatchesRow(o) == TRUE

(* the aggregate has the last word on what it watches *)
StillWatches(o) == o.do = "event" => mon[o.m].watches = ev[o.e].type

(* as if what it watches were checked on create alone *)
CheckedOnCreate(o) == TRUE

(* checked: what may be watched, on an edit as on create *)
Checked(o) == o.do = "edit" => o.watches \in Watchable

(* Monitor::decide *)
Decides(o) ==
    /\ ~mon[o.m].deleted /\ Checked(o)
    /\ o.do = "pause"  => ~mon[o.m].paused
    /\ o.do = "resume" => mon[o.m].paused
    /\ o.do = "event"  => ~mon[o.m].paused

(* what a writer does once its write is done with: a sweep goes on, a request is answered *)
Done(w) == IF w \in Replicas THEN GoOn(w, <<op[w].e, op[w].m>>) ELSE Idle

Loads(w) ==
    /\ op[w].pc = "load"
    /\ IF Decides(op[w]) /\ StillWatches(op[w])
       THEN Goes(w, [op[w] EXCEPT !.pc = "append", !.at = ver[op[w].m]])
       ELSE Goes(w, Done(w))
    /\ UNCHANGED <<ev, cursor, seen, mon, ver, fired, run, changes, faults>>

(* Monitor::apply *)
Applied(a, o) ==
    CASE o.do = "pause"  -> [a EXCEPT !.paused = TRUE]
      [] o.do = "resume" -> [a EXCEPT !.paused = FALSE]
      [] o.do = "delete" -> [a EXCEPT !.deleted = TRUE]
      [] o.do = "edit"   -> [a EXCEPT !.watches = o.watches]
      [] OTHER           -> a

(* as if the append took whatever seq came next *)
LostAnyway(w) == FALSE

Lost(w) == op[w].at # ver[op[w].m]

(* append_monitor: the event, the guard's row and the monitor's row, in one
   transaction; a firing's run is spawned then *)
Appends(w) ==
    /\ op[w].pc = "append" /\ ~Lost(w)
    /\ ver' = [ver EXCEPT ![op[w].m] = @ + 1]
    /\ mon' = [mon EXCEPT ![op[w].m] = Applied(@, op[w])]
    /\ IF op[w].do \in {"event", "manual"}
       THEN /\ Len(fired) < MaxFirings
            /\ fired' = Append(fired, [monitor |-> op[w].m, match |-> op[w].e, by |-> w])
            /\ run' = [run EXCEPT ![Len(fired) + 1] = "pending"]
       ELSE UNCHANGED <<fired, run>>
    /\ Goes(w, Done(w))
    /\ UNCHANGED <<ev, cursor, seen, changes, faults>>

Conflicts(w) ==
    /\ op[w].pc = "append" /\ Lost(w)
    /\ IF op[w].tries = 0
       THEN Goes(w, [op[w] EXCEPT !.pc = "load", !.tries = 1])
       ELSE Goes(w, Done(w))
    /\ UNCHANGED <<ev, cursor, seen, mon, ver, fired, run, changes, faults>>

(* the load or the append fails: a request answers 500, a sweep goes on to its next match *)
Fails(w) ==
    /\ op[w].pc \in {"load", "append"}
    /\ faults < MaxFaults
    /\ faults' = faults + 1
    /\ Goes(w, Done(w))
    /\ UNCHANGED <<ev, cursor, seen, mon, ver, fired, run, changes>>

(* the process dies: the rest of a span is not taken up again *)
Crash(w) ==
    /\ op[w].pc # "idle"
    /\ faults < MaxFaults
    /\ faults' = faults + 1
    /\ Goes(w, Idle)
    /\ UNCHANGED <<ev, cursor, seen, mon, ver, fired, run, changes>>

---------------------------------------------------------------------------
LogNext == \/ \E r \in Runs : Inserts(r) \/ Lapses(r)
           \/ \E e \in DOMAIN ev : Commits(e)

SweepNext == \E r \in Replicas :
                \/ Ticks(r) \/ TakesSpan(r)
                \/ \E t \in op[r].todo : Considers(r, t) \/ Unread(r, t)

PeopleNext == \E w \in People, m \in Monitors :
                 \/ \E do \in {"pause", "resume", "delete"} : Changes(w, m, do, "none")
                 \/ \E t \in Watchable \cup {Unwatchable} : Changes(w, m, "edit", t)
                 \/ Presses(w, m)

WriteNext == \E w \in Writers : Loads(w) \/ Appends(w) \/ Conflicts(w) \/ Fails(w) \/ Crash(w)

Next == LogNext \/ SweepNext \/ PeopleNext \/ WriteNext

Spec == Init /\ [][Next]_vars

---------------------------------------------------------------------------
(* Properties *)

(* The state has its shape: a monitor watches what is published, edited or not, and a tick
   never holds a match of an event no span has had. *)
TypeOK ==
    /\ \A e \in DOMAIN ev : ev[e] \in [stream : Runs, type : Watchable, state : {"open", "in"}]
    /\ cursor \in 0..Len(ev)
    /\ mon \in [Monitors -> [watches : Watchable, paused : BOOLEAN, deleted : BOOLEAN]]
    /\ ver \in [Monitors -> Nat]
    /\ \A i \in DOMAIN fired : fired[i] \in [monitor : Monitors, match : seen \cup {ByHand}, by : Writers]
    /\ run \in [Runs -> {"none", "pending", "running", "ended", "never"}]
    /\ \A w \in Writers : op[w].todo \subseteq seen \X Monitors
    /\ changes \in 0..MaxChanges /\ faults \in 0..MaxFaults

(* Two replicas never process one event twice: a monitor fires on an event at most once. *)
FiresOnce ==
    \A i, j \in DOMAIN fired :
        i # j /\ fired[i].monitor = fired[j].monitor /\ fired[i].match # ByHand
           => fired[i].match # fired[j].match

(* THE LOG IS EVERY TENANT'S AND HOLDS THE MONITOR'S OWN RUNS: it is woken only by its
   owner's runs, a run fired by somebody else's monitor being theirs, and never by a run it
   started, pressed for or matched, not even when another replica's tick reads that run's
   first event at once. *)
WokenRightly ==
    \A i \in DOMAIN fired :
        fired[i].match # ByHand =>
            LET r == ev[fired[i].match].stream
            IN /\ RunOwner(r) = OwnerOf[fired[i].monitor]
               /\ r \in Firings => fired[r].monitor # fired[i].monitor

(* A firing on an event is recorded only while the monitor, as its log stands, is active
   and watches that event's type, though the match was made from an older row. *)
FiresOnWhatItWatches ==
    [][Len(fired') > Len(fired) =>
          LET f == fired'[Len(fired')]
          IN ~mon[f.monitor].deleted
             /\ (f.match # ByHand => /\ ~mon[f.monitor].paused
                                     /\ mon[f.monitor].watches = ev[f.match].type)]_vars

(* The cap is a brake and not a lock: two writers that counted in one instant may both
   fire.  But a burst is braked: however many matches one span holds, and however often
   somebody presses, one writer's firings in flight never pass the cap, because a firing
   counts from its record on and not from its run's first frame. *)
BurstIsBraked ==
    \A m \in Monitors, w \in Writers :
        Cardinality({i \in DOMAIN fired : /\ fired[i].monitor = m /\ fired[i].by = w
                                          /\ run[i] \in {"pending", "running"}}) <= MaxInFlight

(* schema.sql says of the cursor that it is where the sweep has read to: an event that has
   committed behind it has been in some tick's span. *)
NothingPassedOver == \A e \in Committed : e <= cursor => e \in seen

(* What holds of monitors: an event fires one once, rightly, while it watches it, and a
   burst is braked. *)
MonitorsHold ==
    /\ [](TypeOK /\ FiresOnce /\ WokenRightly /\ BurstIsBraked)
    /\ FiresOnWhatItWatches

(* For TLC: everything is one person's, or one of the turns is somebody else's; and
   sweeps and requests are interchangeable. *)
OneOwner == [x \in Monitors \cup Turns |-> "a"]
TwoOwners == [x \in Monitors \cup Turns |-> IF x = CHOOSE t \in Turns : TRUE THEN "b" ELSE "a"]
Alike == Permutations(Replicas) \cup Permutations(People)
============================================================================
