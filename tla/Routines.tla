------------------------------ MODULE Routines ------------------------------
(***************************************************************************)
(* One routine (a schedule) of one person: its log and aggregate           *)
(* (opengrok-core/src/schedule.rs), its row in schedule_view               *)
(* (opengrok-store/src/autonomy.rs), and everybody who writes it: the      *)
(* person's edits, pauses, key rotations and "run now", a Bot's            *)
(* run_routine, the webhook door and the clock sweep of every replica.     *)
(* Each writer loads the log, decides and appends at the seq it loaded,    *)
(* with one retry (mutate_schedule); the row is written in the append's    *)
(* transaction, and the claim of a due slot moves it without the log.      *)
(*                                                                         *)
(* A cron expression, read in its zone, is the set of times it names; a    *)
(* webhook routine has none, and a cron routine no key.                    *)
(* Names, prompts and limits travel as the coworker does and are left out; *)
(* so are the policy questions and the in-flight brake a firing passes     *)
(* first, which only ever refuse it.  All replicas read one clock.         *)
(***************************************************************************)
EXTENDS Integers, Sequences, FiniteSets, FiniteSetsExt

CONSTANTS
    Crons,      \* the expressions, each the set of times it names
    Coworkers,  \* who the routine may be handed to
    Keys,       \* the webhook keys there may be
    None,       \* no coworker, no key
    People,     \* requests that may be under way at once
    Asking,     \* bound: what is asked for in an instance
    Replicas,   \* server processes, each with its sweep
    MaxTime,    \* bound: the clock
    MaxLog,     \* bound: events of the routine
    MaxFaults   \* bound: crashes, store errors, desktops that come and go

ASSUME RoutinesAssumption ==
    /\ Crons \subseteq SUBSET (1..(MaxTime + 1)) /\ {} \notin Crons
    /\ None \notin Coworkers \cup Keys
    /\ People \cap Replicas = {}
    /\ {MaxTime, MaxLog, MaxFaults} \subseteq Nat

VARIABLES
    log,        \* the routine's events after Created
    past,       \* the aggregate after each of them; past[1] is as created
    view,       \* its row in schedule_view
    claims,     \* the slots the sweeps have claimed, in order
    op,         \* what each writer is doing
    started,    \* the runs started: the event that says so, and for whom
    reach,      \* whether each coworker's plan has somebody to answer
    now, faults

vars == <<log, past, view, claims, op, started, reach, now, faults>>

Writers == People \cup Replicas
Never == 0          \* next_due_ms is NULL
Same == {}          \* an edit that names no cron
NoClock == {}       \* the cron of a webhook routine

(* A writer's locals: what it asks for, when it asked, the coworker it asked the
   reachability of and the answer, the attempt, and the event it decided at seq. *)
Idle == [pc |-> "idle", do |-> "none", cron |-> Same, coworker |-> None, key |-> None,
         at |-> 0, about |-> None, skip |-> FALSE, tries |-> 0, seq |-> 0]

Firings == {"manual", "bot", "webhook", "clock"}

(* next_fire_ms: strictly after *)
NextFire(cron, t) == LET later == {s \in cron : s > t}
                     IN IF later = {} THEN Never ELSE Min(later)

Agg == past[Len(log) + 1]

IsHook(a) == a.cron = NoClock

(* the routine as Create made it, at time 0 *)
Init ==
    /\ log = <<>>
    /\ \E cron \in Crons \cup {NoClock}, coworker \in Coworkers, key \in Keys \cup {None} :
          /\ cron = NoClock <=> key # None
          /\ past = <<[paused |-> FALSE, deleted |-> FALSE, cron |-> cron,
                       coworker |-> coworker, key |-> key]>>
          /\ view = [there |-> TRUE, active |-> TRUE, cron |-> cron, coworker |-> coworker,
                     key |-> key, due |-> NextFire(cron, 0)]
    /\ claims = <<>>
    /\ op = [w \in Writers |-> Idle]
    /\ started = {}
    /\ reach = [c \in Coworkers |-> TRUE]
    /\ now = 0
    /\ faults = 0

---------------------------------------------------------------------------
(* The aggregate: Schedule::decide and Schedule::apply *)

(* may_fire: a pause holds back every cause but a person's *)
MayFire(a, cause) == ~a.deleted /\ (a.paused => cause = "manual")

(* the wake an edit will have: the cron it names, or the one the routine has *)
Wake(a, o) == IF o.cron = Same THEN a.cron ELSE o.cron

(* an edit is accepted only with an occurrence still to come (checked), as of the
   time the request was made *)
MayDo(a, o) ==
    /\ ~a.deleted
    /\ o.do = "update" /\ ~IsHook(a) => NextFire(Wake(a, o), o.at) # Never
    /\ o.do = "pause"    => ~a.paused
    /\ o.do = "resume"   => a.paused
    /\ o.do = "rotate"   => IsHook(a)
    /\ o.do \in Firings  => MayFire(a, o.do)

(* as if the key had been checked at the door alone *)
KeyHoldsAtDoor(a, o) == TRUE

(* the webhook door asks the key again of the aggregate the append will write *)
KeyHolds(a, o) == o.do = "webhook" => a.key = o.key

Decides(a, o) == MayDo(a, o) /\ KeyHolds(a, o)

(* the aggregate after; an edit's wake is rebuilt from the routine it was decided on *)
Applied(a, o) ==
    CASE o.do = "update" -> [a EXCEPT !.cron = Wake(a, o),
                                      !.coworker = IF o.coworker = None THEN @ ELSE o.coworker]
      [] o.do = "pause"  -> [a EXCEPT !.paused = TRUE]
      [] o.do = "resume" -> [a EXCEPT !.paused = FALSE]
      [] o.do = "delete" -> [a EXCEPT !.deleted = TRUE]
      [] o.do = "rotate" -> [a EXCEPT !.key = o.key]
      [] OTHER           -> a

(* the event, and when it was committed *)
Event(o) == [type |-> IF o.do \in Firings THEN IF o.skip THEN "skipped" ELSE "fired" ELSE o.do,
             cause |-> o.do, key |-> o.key, at |-> now]

---------------------------------------------------------------------------
(* The projection: append_schedule *)

(* as if the time were the one the request was made at, and the upsert wrote it *)
DueStale(a, o) ==
    IF a.paused THEN Never ELSE NextFire(a.cron, o.at)

(* as if the row kept the later of the two whatever changed *)
DueLater(a, o) ==
    Max({view.due, IF a.paused THEN Never ELSE NextFire(a.cron, now)})

(* next_due_ms, computed from the clock as it is once the row is locked: the
   same clock only moves it later, and one that has run out stays so *)
Due(a, o) ==
    LET new == IF a.paused THEN Never ELSE NextFire(a.cron, now)
    IN IF view.cron = a.cron /\ view.active = ~a.paused
       THEN IF view.due = Never THEN Never ELSE Max({view.due, new})
       ELSE new

(* the row after the append; a deleted routine has none *)
Projected(a, o) ==
    IF a.deleted THEN [view EXCEPT !.there = FALSE, !.active = FALSE, !.due = Never]
    ELSE [view EXCEPT !.active = ~a.paused, !.cron = a.cron, !.coworker = a.coworker,
                      !.key = a.key, !.due = Due(a, o)]

---------------------------------------------------------------------------
(* A person's, a Bot's and a hook's requests *)

Goes(w, o) == op' = [op EXCEPT ![w] = o]

Asks(w, do) ==
    /\ w \in People /\ op[w].pc = "idle"
    /\ do \in Asking
    /\ view.there
    /\ Len(log) < MaxLog
    /\ UNCHANGED <<log, past, view, claims, started, reach, now, faults>>

Asked(do) == [Idle EXCEPT !.pc = "load", !.do = do, !.at = now]

(* An edit.  A webhook routine has no clock to set; a coworker the routine already
   has is no handover; an edit that names neither stands for a rename. *)
Edit(w, cron, coworker) ==
    /\ Asks(w, "update")
    /\ IsHook(Agg) => cron = Same
    /\ Goes(w, [Asked("update") EXCEPT !.cron = cron,
                    !.coworker = IF coworker = Agg.coworker THEN None ELSE coworker])

(* pause, resume, delete *)
Change(w, do) == Asks(w, do) /\ Goes(w, Asked(do))

(* a fresh key is minted for every rotation *)
Rotate(w, key) ==
    /\ Asks(w, "rotate")
    /\ \A i \in DOMAIN past : past[i].key # key
    /\ \A v \in Writers : op[v].key # key
    /\ Goes(w, [Asked("rotate") EXCEPT !.key = key])

(* "Run now" by a person or a Bot, with the coworker the routine has as it is read *)
RunNow(w, do) ==
    /\ Asks(w, do)
    /\ Goes(w, [Asked(do) EXCEPT !.pc = "reach", !.about = Agg.coworker])

(* The hook's key is checked against the row first *)
Hook(w, key) ==
    /\ Asks(w, "webhook")
    /\ IsHook(view) /\ view.key = key
    /\ Goes(w, [Asked("webhook") EXCEPT !.pc = "reach", !.key = key])

(* What any client may ask of a routine *)
Request(w) ==
    \/ \E cron \in Crons \cup {Same}, coworker \in Coworkers : Edit(w, cron, coworker)
    \/ \E do \in {"pause", "resume", "delete"} : Change(w, do)
    \/ \E key \in Keys : Rotate(w, key)
    \/ \E do \in {"manual", "bot"} : RunNow(w, do)
    \/ \E key \in Keys : Hook(w, key)

---------------------------------------------------------------------------
(* The clock sweep *)

(* schedule_tick reads the time the claim will use *)
ClaimReads(r) ==
    /\ r \in Replicas /\ op[r].pc = "idle"
    /\ Goes(r, [Asked("clock") EXCEPT !.pc = "claim"])
    /\ UNCHANGED <<log, past, view, claims, started, reach, now, faults>>

(* as if the next occurrence were counted from the slot that was due *)
NextClaimed(r) == NextFire(view.cron, view.due)

(* the next occurrence after the time read, so missed ones are not caught up *)
NextSlot(r) == NextFire(view.cron, op[r].at)

IsDue(t) == view.active /\ view.due # Never /\ view.due <= t

(* claim_due_schedules: the row's clock moves in the claim's own transaction *)
Claims(r) ==
    /\ op[r].pc = "claim"
    /\ IF IsDue(op[r].at)
       THEN /\ view' = [view EXCEPT !.due = NextSlot(r)]
            /\ claims' = Append(claims, [slot |-> view.due, seq |-> Len(log), at |-> op[r].at])
            /\ Goes(r, [op[r] EXCEPT !.pc = "reach", !.about = view.coworker])
       ELSE Goes(r, Idle) /\ UNCHANGED <<view, claims>>
    /\ UNCHANGED <<log, past, started, reach, now, faults>>

(* A firing asks whether the plan it would go to has anybody to answer (unreachable):
   of the row's coworker for the clock, of the one it read for "run now", of the one
   the log names for a hook. *)
Reaches(w) ==
    /\ op[w].pc = "reach"
    /\ LET about == IF op[w].do = "webhook" THEN Agg.coworker ELSE op[w].about
       IN Goes(w, [op[w] EXCEPT !.pc = "load", !.about = about, !.skip = ~reach[about]])
    /\ UNCHANGED <<log, past, view, claims, started, reach, now, faults>>

---------------------------------------------------------------------------
(* mutate_schedule: load, decide, append at the loaded seq, once more on a conflict *)

(* as if there were one attempt more *)
TriesMore(w) == op[w].tries <= 1

(* two attempts: after a conflict the log is read again and the change decided again *)
TriesAgain(w) == op[w].tries = 0

Loads(w) ==
    /\ op[w].pc = "load"
    /\ IF Decides(Agg, op[w])
       THEN Goes(w, [op[w] EXCEPT !.pc = "append", !.seq = Len(log)])
       ELSE Goes(w, Idle)
    /\ UNCHANGED <<log, past, view, claims, started, reach, now, faults>>

(* as if the append took whatever seq came next *)
LostAnyway(w) == FALSE

(* (stream_id, stream_seq) is unique: another writer got there first *)
Lost(w) == op[w].seq # Len(log)

Appends(w) ==
    /\ op[w].pc = "append" /\ ~Lost(w)
    /\ Len(log) < MaxLog
    /\ LET after == Applied(past[op[w].seq + 1], op[w])
       IN /\ log' = Append(log, Event(op[w]))
          /\ past' = Append(past, after)
          /\ view' = Projected(after, op[w])
    /\ IF Event(op[w]).type = "fired"
       THEN Goes(w, [op[w] EXCEPT !.pc = "start", !.seq = Len(log) + 1])
       ELSE Goes(w, Idle)
    /\ UNCHANGED <<claims, started, reach, now, faults>>

Conflicts(w) ==
    /\ op[w].pc = "append" /\ Lost(w)
    /\ IF TriesAgain(w)
       THEN Goes(w, [op[w] EXCEPT !.pc = "load", !.tries = @ + 1])
       ELSE Goes(w, Idle)
    /\ UNCHANGED <<log, past, view, claims, started, reach, now, faults>>

(* as if the run went to the coworker the reachability was asked of *)
RunsAbout(w) == op[w].about

(* the coworker of the aggregate the firing was appended with *)
RunsAs(w) == past[op[w].seq + 1].coworker

(* the run is spawned once the firing is on record *)
Starts(w) ==
    /\ op[w].pc = "start"
    /\ started' = started \cup {[event |-> op[w].seq, coworker |-> RunsAs(w)]}
    /\ Goes(w, Idle)
    /\ UNCHANGED <<log, past, view, claims, reach, now, faults>>

---------------------------------------------------------------------------
(* The world *)

(* the process dies, or the store refuses: what was under way is not taken up again *)
Crash(w) ==
    /\ op[w].pc # "idle"
    /\ faults < MaxFaults
    /\ faults' = faults + 1
    /\ Goes(w, Idle)
    /\ UNCHANGED <<log, past, view, claims, started, reach, now>>

(* a person's desktop connects or goes away *)
ReachChanges(c) ==
    /\ faults < MaxFaults
    /\ faults' = faults + 1
    /\ reach' = [reach EXCEPT ![c] = ~@]
    /\ UNCHANGED <<log, past, view, claims, op, started, now>>

Tick ==
    /\ now < MaxTime
    /\ now' = now + 1
    /\ UNCHANGED <<log, past, view, claims, op, started, reach, faults>>

Step(w) == \/ Request(w) \/ ClaimReads(w) \/ Claims(w) \/ Reaches(w) \/ Loads(w)
           \/ Appends(w) \/ Conflicts(w) \/ Starts(w) \/ Crash(w)

Next == \/ \E w \in Writers : Step(w)
        \/ \E c \in Coworkers : ReachChanges(c)
        \/ Tick

Spec == Init /\ [][Next]_vars

---------------------------------------------------------------------------
(* Properties *)

Times == 0..(MaxTime + 1)
Aggregates == [paused : BOOLEAN, deleted : BOOLEAN, cron : Crons \cup {NoClock},
               coworker : Coworkers, key : Keys \cup {None}]
Dos == Firings \cup {"update", "pause", "resume", "delete", "rotate"}

(* The state has its shape: one aggregate more than there are events, and a claim,
   a run or a writer never names an event that is not in the log. *)
TypeOK ==
    /\ Len(log) <= MaxLog
    /\ \A i \in DOMAIN log : log[i] \in [type : Dos \cup {"fired", "skipped"}, cause : Dos,
                                         key : Keys \cup {None}, at : Times]
    /\ Len(past) = Len(log) + 1
    /\ \A i \in DOMAIN past : past[i] \in Aggregates
    /\ view \in [there : BOOLEAN, active : BOOLEAN, cron : Crons \cup {NoClock},
                 coworker : Coworkers, key : Keys \cup {None}, due : Times]
    /\ \A i \in DOMAIN claims : claims[i] \in [slot : Times, seq : 0..Len(log), at : 0..now]
    /\ \A w \in Writers :
          op[w] \in [pc : {"idle", "claim", "reach", "load", "append", "start"},
                     do : Dos \cup {"none"}, cron : Crons \cup {Same},
                     coworker : Coworkers \cup {None}, key : Keys \cup {None}, at : 0..now,
                     about : Coworkers \cup {None}, skip : BOOLEAN, tries : {0, 1},
                     seq : 0..Len(log)]
    /\ started \subseteq [event : DOMAIN log, coworker : Coworkers]
    /\ reach \in [Coworkers -> BOOLEAN]
    /\ now \in 0..MaxTime /\ faults \in 0..MaxFaults

(* No slot of the clock is claimed twice, by one replica or by two, whatever edits,
   pauses and firings land around the claims: claimed slots strictly increase. *)
SlotOnce == \A i, j \in DOMAIN claims : i < j => claims[i].slot < claims[j].slot

(* Nothing missed is caught up: after a claim at some time the next claimed slot is a
   later time, and a slot that passed before a resume, or before the clock was set to
   it, is never claimed. *)
NothingCaughtUp ==
    \A i \in DOMAIN claims :
        /\ i > 1 => claims[i - 1].at < claims[i].slot
        /\ \A n \in 1..claims[i].seq :
              log[n].type = "resume" \/ past[n].cron # past[n + 1].cron
                 => log[n].at < claims[i].slot

(* A routine that is paused or deleted as its log stands records no firing, run or
   skipped, but the one its person pressed for (and a deleted one none): not by the
   clock's claim from before the pause, not by a hook, not by a Bot. *)
PausedIsQuiet ==
    \A n \in DOMAIN log :
        log[n].type \in {"fired", "skipped"} =>
            ~past[n].deleted /\ (past[n].paused => log[n].cause = "manual")

(* Once a key has been rotated away nothing fires on it again, whatever was under way
   at the door, and no edit brings it back. *)
RotatedKeyIsDead ==
    \A n \in DOMAIN log :
        /\ log[n].cause = "webhook" => log[n].key = past[n].key
        /\ past[n + 1].key # past[n].key =>
              /\ log[n].type = "rotate"
              /\ \A m \in 1..n : past[m].key # past[n + 1].key

(* A run goes to the coworker the routine had when its firing was recorded, never to
   one it was handed over from, and each recorded firing starts at most one. *)
RunsForItsCoworker ==
    \A s \in started :
        /\ log[s.event].type = "fired" /\ s.coworker = past[s.event].coworker
        /\ \A w \in Writers : op[w].pc = "start" => op[w].seq # s.event

(* The row the sweep and the door go by is the log's: there while the routine is, with
   its coworker and key, due only at a time of the clock it has now, and not at all
   while it is paused. *)
RowFollowsLog ==
    /\ view.there = ~Agg.deleted
    /\ view.there =>
          /\ view.active = ~Agg.paused /\ view.cron = Agg.cron
          /\ view.coworker = Agg.coworker /\ view.key = Agg.key
    /\ view.due # Never => view.there /\ view.active /\ view.due \in Agg.cron

(* What holds of the clock: its row is the log's, a slot fires once and nothing
   missed is caught up. *)
ClockHolds == TypeOK /\ RowFollowsLog /\ SlotOnce /\ NothingCaughtUp

(* What holds of a firing: not while paused, not on a dead key, and for the coworker
   the routine has. *)
FiringsHold == PausedIsQuiet /\ RotatedKeyIsDead /\ RunsForItsCoworker
============================================================================
