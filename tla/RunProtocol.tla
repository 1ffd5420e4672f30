------------------------------ MODULE RunProtocol ------------------------------
(***************************************************************************)
(* Everybody who writes to one run's log, and the order they may do it in: *)
(*                                                                         *)
(*   - POSTs that claim the run id for a new turn (routes/turn.rs);        *)
(*   - the loops that drive it (opengrok-harness, through StoreJournal in  *)
(*     routes/journal.rs): the turn's own, the one an answer spawns, the   *)
(*     one the recovery sweep spawns;                                      *)
(*   - people answering its card and stopping it (routes/answer.rs), and a *)
(*     newer message that interrupts a parked run (agui/resume.rs);        *)
(*   - the recovery sweeps of the replicas (recovery.rs).                  *)
(*                                                                         *)
(* Every writer reads the log, decides against what it read, and appends   *)
(* at the sequence it read (opengrok-store, append_run): the read and the  *)
(* append are two steps here, and between them anybody else may write.     *)
(* The log's events are folded into `run`, the aggregate they replay to.   *)
(***************************************************************************)
EXTENDS RunAggregate, FiniteSets, TLC

CONSTANTS
    Post,       \* POSTs that carry this run's id (a client's retries)
    Loop,       \* loop tasks that may be alive at once
    Person,     \* devices a person answers and stops from
    Sweeper,    \* replicas that sweep
    MaxFaults   \* how many faults (crash, lost reply, lapsed lease) may happen

ASSUME MaxFaultsAssumption == MaxFaults \in Nat

VARIABLES
    run,      \* the aggregate the log replays to
    seq,      \* the log's last sequence: what an append is checked against
    fresh,    \* renewed, claimed or written to less than LEASE_MS ago
    post,     \* what each POST is doing
    loop,     \* what each loop task is doing
    person,   \* what each person's request is doing
    sweep,    \* what each sweeper is doing
    asked,    \* the call ids the model has used
    ran,      \* how often each call has acted on the world
    faults,   \* the faults so far
    lapsed    \* whether a lease has ever lapsed under somebody who held it

vars == <<run, seq, fresh, post, loop, person, sweep, asked, ran, faults, lapsed>>

log == <<run, seq, fresh>>

LoopPc == {"idle", "spawned", "load", "setup", "cannot", "failing", "resume",
           "round", "model", "asked", "start", "starting", "world",
           "record", "recording", "close", "end", "ending"}

LoopState ==
    [pc     : LoopPc,
     by     : {"post", "answer", "sweep"},         \* who spawned it
     as     : {"turn", "answer", "interrupted"},   \* which path it carries on
     gen    : 0..MaxResumes,                       \* StoreJournal::generation
     calls  : SUBSET Call,                         \* the calls of the round in hand
     cards  : SUBSET Call,                         \* those waiting on a person
     ending : {"none", "finish", "fail", "stop", "park"},
     at     : Nat]                                 \* the seq its load saw

IdleLoop == [pc |-> "idle", by |-> "post", as |-> "turn", gen |-> 0, calls |-> {},
             cards |-> {}, ending |-> "none", at |-> 0]

PostState == [pc : {"new", "setup", "claim", "replied"}, at : Nat]

\* "already" is the reply `alreadyAnswered: true`; every other reply rests at "idle".
PersonState ==
    [pc : {"idle", "already", "answer", "stop"},
     call : Call \cup {NoCall}, yes : BOOLEAN, at : Nat]

Rests(pc) == [pc |-> pc, call |-> NoCall, yes |-> FALSE, at |-> 0]

SweepState == [pc : {"idle", "claimed", "failing", "resuming"}, at : Nat]

TypeOK ==
    /\ run \in RunState
    /\ seq \in Nat
    /\ fresh \in BOOLEAN
    /\ post \in [Post -> PostState]
    /\ loop \in [Loop -> LoopState]
    /\ person \in [Person -> PersonState]
    /\ sweep \in [Sweeper -> SweepState]
    /\ asked \in SUBSET Call
    /\ ran \in [Call -> Nat]
    /\ faults \in 0..MaxFaults
    /\ lapsed \in BOOLEAN

Init ==
    /\ run = NewRun
    /\ seq = 0
    /\ fresh = FALSE
    /\ post = [p \in Post |-> [pc |-> "new", at |-> 0]]
    /\ loop = [l \in Loop |-> IdleLoop]
    /\ person = [w \in Person |-> Rests("idle")]
    /\ sweep = [s \in Sweeper |-> [pc |-> "idle", at |-> 0]]
    /\ asked = {}
    /\ ran = [c \in Call |-> 0]
    /\ faults = 0
    /\ lapsed = FALSE

-----------------------------------------------------------------------------
(* The log.                                                                 *)

\* A slip: the sequence is not checked.
AppendAnywhere(at, r) == run' = r /\ seq' = seq + 1 /\ fresh' = TRUE

\* append_run: the events go in at the sequence after the one that was read, whose
\* uniqueness refuses a writer that read an older log; the projection's status and
\* updated_at_ms are written by the same transaction.
Append(at, r) ==
    /\ at = seq
    /\ run' = r
    /\ seq' = seq + 1
    /\ fresh' = TRUE

Conflict(at) == at # seq

\* A fault is spent: at most MaxFaults of them happen in a behaviour.
Fault == faults < MaxFaults /\ faults' = faults + 1

\* The append's own failure: nothing landed.
LostWrite == Fault /\ UNCHANGED log

\* A commit whose reply was lost, or a process that died right after it.
LostReply(at, r) == Fault /\ Append(at, r)

Live(l) == loop[l].pc # "idle"

\* A task is spawned to drive the run.
Spawn(l, by, as, gen, calls) ==
    /\ ~Live(l)
    /\ loop' = [loop EXCEPT ![l] = [IdleLoop EXCEPT !.pc = "spawned", !.by = by, !.as = as,
                                                    !.gen = gen, !.calls = calls]]

\* The task is over: its lease is dropped with it and simply expires.
Gone(l) == loop' = [loop EXCEPT ![l] = IdleLoop]

-----------------------------------------------------------------------------
(* A POST: answer_for_existing_run, then the claim.                         *)

PostOnly(p, pc, at) ==
    /\ post' = [post EXCEPT ![p] = [pc |-> pc, at |-> at]]
    /\ UNCHANGED <<person, sweep, asked, ran, lapsed>>

\* A run id that already has a run is not a new turn.
PostArrives(p) ==
    /\ post[p].pc = "new"
    /\ PostOnly(p, IF run.started THEN "replied" ELSE "setup", 0)
    /\ UNCHANGED <<run, seq, fresh, loop, faults>>

\* StoreJournal::claim, its read.
PostReads(p) ==
    /\ post[p].pc = "setup"
    /\ IF MayStart(run) THEN PostOnly(p, "claim", seq) ELSE PostOnly(p, "replied", 0)
    /\ UNCHANGED <<run, seq, fresh, loop, faults>>

\* A slip: the claim does not look at what it read.
PostClaimsBlindly(p) ==
    /\ post[p].pc = "claim"
    /\ PostOnly(p, "replied", 0)
    /\ Append(seq, ApplyStarted(run))
    /\ \E l \in Loop : Spawn(l, "post", "turn", 0, {})
    /\ UNCHANGED faults

\* Its append.  Exactly one POST per run id gets to run a loop; one that lost is answered
\* with the run that won.
PostClaims(p) ==
    /\ post[p].pc = "claim"
    /\ PostOnly(p, "replied", 0)
    /\ \/ /\ Append(post[p].at, ApplyStarted(run))
          /\ \E l \in Loop : Spawn(l, "post", "turn", 0, {})
          /\ UNCHANGED faults
       \/ Conflict(post[p].at) /\ UNCHANGED <<run, seq, fresh, loop, faults>>
       \/ (LostWrite \/ LostReply(post[p].at, ApplyStarted(run))) /\ UNCHANGED loop

-----------------------------------------------------------------------------
(* A person: the answer to a card, and Stop.                                *)

PersonOnly(w, p) ==
    /\ person' = [person EXCEPT ![w] = p]
    /\ UNCHANGED <<post, sweep, asked, ran, lapsed>>

Resting(w) == person[w].pc \in {"idle", "already"}

\* answer_run: read and decide.
AnswerReads(w, c, yes) ==
    LET verdict == AnswerVerdict(run, c) IN
    /\ Resting(w)
    /\ run.started
    /\ PersonOnly(w, CASE verdict = "accepted" ->
                           [pc |-> "answer", call |-> c, yes |-> yes, at |-> seq]
                      [] verdict = "already-answered" -> Rests("already")
                      [] OTHER -> Rests("idle"))
    /\ UNCHANGED <<run, seq, fresh, loop, faults>>

\* answer_run: append, reply, and carry the run on in the background.  A conflict is
\* reported as an answer somebody else gave.
AnswerAppends(w) ==
    LET p == person[w]
        answered == ApplyAnswered(run, p.call, p.yes)
    IN
    /\ p.pc = "answer"
    /\ \/ /\ Append(p.at, answered)
          /\ \E l \in Loop : Spawn(l, "answer", "answer", run.generation, {p.call})
          /\ PersonOnly(w, Rests("idle"))
          /\ UNCHANGED faults
       \/ /\ Conflict(p.at)
          /\ PersonOnly(w, Rests("already"))
          /\ UNCHANGED <<run, seq, fresh, loop, faults>>
       \/ /\ LostWrite \/ LostReply(p.at, answered)
          /\ PersonOnly(w, Rests("idle"))
          /\ UNCHANGED loop

\* stop_run: a run with no start is no run, and an ended one is stopped already.
StopReads(w) ==
    /\ Resting(w)
    /\ run.started /\ MayEnd(run)
    /\ PersonOnly(w, [Rests("stop") EXCEPT !.at = seq])
    /\ UNCHANGED <<run, seq, fresh, loop, faults>>

\* stop_parked_run, for a newer message on the thread: only a run that waits on a card.
InterruptReads(w) ==
    /\ Resting(w)
    /\ run.status = "awaiting-approval"
    /\ PersonOnly(w, [Rests("stop") EXCEPT !.at = seq])
    /\ UNCHANGED <<run, seq, fresh, loop, faults>>

\* Their append: a conflict reads again, or gives up once the attempts run out.
StopAppends(w) ==
    LET at == person[w].at IN
    /\ person[w].pc = "stop"
    /\ PersonOnly(w, Rests("idle"))
    /\ \/ Append(at, ApplyStopped(run)) /\ UNCHANGED faults
       \/ Conflict(at) /\ UNCHANGED <<run, seq, fresh, faults>>
       \/ LostWrite \/ LostReply(at, ApplyStopped(run))
    /\ UNCHANGED loop

-----------------------------------------------------------------------------
(* A loop.  Steps that only move the loop itself:                           *)

LoopTo(l, st) ==
    /\ loop' = [loop EXCEPT ![l] = st]
    /\ UNCHANGED <<post, person, sweep, asked, ran, lapsed>>

LoopMoves(l, st) == LoopTo(l, st) /\ UNCHANGED <<run, seq, fresh, faults>>

\* The sequence a load saw is good for the append after it and no longer.
Forget(st) == [st EXCEPT !.at = 0]

Close(st, ending) == [st EXCEPT !.pc = "close", !.ending = ending, !.at = 0]

\* An ending that closes with nothing of the round: the round was written, or never ran.
CloseEmpty(st, ending) == [Close(st, ending) EXCEPT !.calls = {}]

\* The lease is taken before anything is loaded (Lease::new(hold(..))).
LoopHolds(l) ==
    /\ loop[l].pc = "spawned"
    /\ fresh' = TRUE
    /\ LoopTo(l, [loop[l] EXCEPT !.pc = IF loop[l].as = "turn" THEN "record" ELSE "load"])
    /\ UNCHANGED <<run, seq, faults>>

\* resume.rs, loaded: a run in a generation this loop was not given is another loop's.
LoopLoads(l) ==
    /\ loop[l].pc = "load"
    /\ LoopMoves(l, IF run.generation # loop[l].gen
                    THEN IdleLoop ELSE [loop[l] EXCEPT !.pc = "setup"])

\* The coworker, its limits and its tools load, or they do not.  continue_run leaves the
\* run to the sweep; a continuation the sweep spawned fails the run.
LoopSetsUp(l) ==
    LET st == loop[l] IN
    /\ st.pc = "setup"
    /\ \/ LoopMoves(l, [st EXCEPT !.pc = IF st.as = "answer" THEN "resume" ELSE "round"])
       \/ /\ Fault
          /\ LoopTo(l, IF st.by = "sweep" THEN [st EXCEPT !.pc = "cannot"] ELSE IdleLoop)
          /\ UNCHANGED log

\* recovery.rs, fail_continuation: load, decide, append.  Nothing here asks which
\* generation the run is in.
LoopCannot(l) ==
    /\ loop[l].pc = "cannot"
    /\ LoopMoves(l, IF MayEnd(run) THEN [loop[l] EXCEPT !.pc = "failing", !.at = seq] ELSE IdleLoop)

LoopFails(l) ==
    /\ loop[l].pc = "failing"
    /\ LoopTo(l, IdleLoop)
    /\ \/ Append(loop[l].at, ApplyFailed(run)) /\ UNCHANGED faults
       \/ Conflict(loop[l].at) /\ UNCHANGED <<run, seq, fresh, faults>>
       \/ LostWrite \/ LostReply(loop[l].at, ApplyFailed(run))

\* The `stopped` question: any ended run says yes, and a read that fails says no.
Asks(l, yes, no) ==
    \/ Ended(run) /\ LoopMoves(l, yes)
    \/ ~Ended(run) /\ LoopMoves(l, no)
    \/ Ended(run) /\ Fault /\ LoopTo(l, no) /\ UNCHANGED log

\* A slip: whatever the answer was, the call is run.
LoopResumesRegardless(l) ==
    /\ loop[l].pc = "resume"
    /\ Asks(l, CloseEmpty(loop[l], "stop"), [loop[l] EXCEPT !.pc = "start"])

\* resume_conversation: a Stop wins over the answer.  Only a yes to a call that acts is
\* run; a no, and any answer to a form, is written as the call's result.
LoopResumes(l) ==
    LET st == loop[l] IN
    /\ st.pc = "resume"
    /\ Asks(l, CloseEmpty(st, "stop"),
               [st EXCEPT !.pc = IF st.calls \subseteq run.approved \ FormCall
                                 THEN "start" ELSE "record"])

\* The top of a round.
LoopRound(l) ==
    LET st == loop[l] IN
    /\ st.pc = "round"
    /\ Asks(l, CloseEmpty(st, "stop"), [st EXCEPT !.pc = "model", !.as = "turn"])

\* The model answers: words only, a failure, or calls, each under an id of its own.
LoopModel(l) ==
    LET st == loop[l] IN
    /\ st.pc = "model"
    /\ \/ \E ending \in {"finish", "fail"} :
             LoopMoves(l, CloseEmpty(st, ending))
       \/ \E calls \in (SUBSET (Call \ asked)) \ {{}} :
             /\ loop' = [loop EXCEPT ![l] = [st EXCEPT !.pc = "asked", !.calls = calls]]
             /\ asked' = asked \cup calls
             /\ UNCHANGED <<run, seq, fresh, post, person, sweep, ran, faults, lapsed>>

\* The second place a Stop lands: the last moment before anything acts.  A round may also
\* end here, by a rule of the loop's own, with none of its calls run.
LoopAsked(l) ==
    LET st == loop[l] IN
    /\ st.pc = "asked"
    /\ \/ Asks(l, CloseEmpty(st, "stop"), [st EXCEPT !.pc = "start"])
       \/ ~Ended(run) /\ LoopMoves(l, CloseEmpty(st, "finish"))

\* A slip: the start asks for no generation.
LoopStartUnfenced(l) ==
    /\ loop[l].pc = "start"
    /\ LoopMoves(l, IF ~MayStartTools(run) THEN CloseEmpty(loop[l], "stop")
                    ELSE [loop[l] EXCEPT !.pc = "starting", !.at = seq])

\* tools_starting (bookkeep): the start on record before the world is touched.  Fenced,
\* and refused on an ended run.
LoopStart(l) ==
    LET st == loop[l] IN
    /\ st.pc = "start"
    /\ LoopMoves(l, IF run.generation # st.gen \/ ~MayStartTools(run)
                    THEN CloseEmpty(st, "stop")
                    ELSE [st EXCEPT !.pc = "starting", !.at = seq])

\* A slip: the tools run whether or not their start was written.
LoopStartingRegardless(l) ==
    LET world == Forget([loop[l] EXCEPT !.pc = "world"])
        started == ApplyToolStarted(run, loop[l].calls)
    IN
    /\ loop[l].pc = "starting"
    /\ \/ Append(loop[l].at, started) /\ LoopTo(l, world) /\ UNCHANGED faults
       \/ Conflict(loop[l].at) /\ LoopMoves(l, world)

\* Its append, tried again on any error; the attempts may run out.
LoopStarting(l) ==
    LET st == loop[l]
        again == Forget([st EXCEPT !.pc = "start"])
        started == ApplyToolStarted(run, st.calls)
    IN
    /\ st.pc = "starting"
    /\ \/ Append(st.at, started) /\ LoopTo(l, Forget([st EXCEPT !.pc = "world"])) /\ UNCHANGED faults
       \/ Conflict(st.at) /\ (LoopMoves(l, again) \/ LoopMoves(l, CloseEmpty(st, "fail")))
       \/ /\ LostWrite \/ LostReply(st.at, started)
          /\ LoopTo(l, again) \/ LoopTo(l, CloseEmpty(st, "fail"))

\* run_all: each call acts, is refused, or waits on a person; a form always waits.  A call
\* that waits parks the run.  Otherwise the round is recorded, or is the run's last.
LoopActs(l) ==
    LET st == loop[l] IN
    /\ st.pc = "world"
    /\ \E acts \in SUBSET (st.calls \ FormCall), waits \in SUBSET st.calls :
          /\ acts \cap waits = {}
          /\ ran' = [c \in Call |-> IF c \in acts THEN ran[c] + 1 ELSE ran[c]]
          /\ \E next \in (IF waits # {} THEN {[Close(st, "park") EXCEPT !.cards = waits]}
                          ELSE {[st EXCEPT !.pc = "record"]}
                               \cup (IF st.as = "answer" THEN {}
                                     ELSE {Close(st, "finish"), Close(st, "fail")})) :
                loop' = [loop EXCEPT ![l] = next]
    /\ UNCHANGED <<run, seq, fresh, post, person, sweep, asked, faults, lapsed>>

\* record_round of a round the run goes on from (and of the opening, which has no calls):
\* append_events_once, its read.  Fenced, the round is not written and the run is to fail;
\* a run that has finished or failed takes no frame, which the loop is not told.
LoopRecord(l) ==
    LET st == loop[l] IN
    /\ st.pc = "record"
    /\ LoopMoves(l, IF run.generation # st.gen THEN CloseEmpty(st, "fail")
                    ELSE IF ~MayEmit(run) THEN [st EXCEPT !.pc = "round", !.calls = {}]
                    ELSE [st EXCEPT !.pc = "recording", !.at = seq])

\* Its append.  A conflict wrote nothing and is tried again while attempts are left; any
\* other error may have landed, so the round is never written twice.
LoopRecording(l) ==
    LET st == loop[l]
        closed == ApplyResults(run, st.calls)
    IN
    /\ st.pc = "recording"
    /\ \/ /\ Append(st.at, closed)
          /\ LoopTo(l, Forget([st EXCEPT !.pc = "round", !.calls = {}]))
          /\ UNCHANGED faults
       \/ /\ Conflict(st.at)
          /\ \/ LoopMoves(l, Forget([st EXCEPT !.pc = "record"]))
             \/ LoopMoves(l, CloseEmpty(st, "fail"))
       \/ (LostWrite \/ LostReply(st.at, closed)) /\ LoopTo(l, CloseEmpty(st, "fail"))

\* close: a clean finish or a park asks once more whether the run was stopped.
LoopCloses(l) ==
    LET st == loop[l]
        end == [st EXCEPT !.pc = "end"]
    IN
    /\ st.pc = "close"
    /\ IF st.ending \in {"finish", "park"}
       THEN Asks(l, [end EXCEPT !.ending = "stop", !.cards = {}], end)
       ELSE LoopMoves(l, end)

\* The round and its ending are one write; its read.  Fenced, nothing is written and the
\* client is told so.  A park on an ended run goes in again as the stop's ending; any other
\* ending on a finished or failed run writes nothing.
LoopEnd(l) ==
    LET st == loop[l] IN
    /\ st.pc = "end"
    /\ LoopMoves(l, IF run.generation # st.gen THEN IdleLoop
                    ELSE IF st.ending = "park" /\ Ended(run)
                         THEN [st EXCEPT !.ending = "stop", !.cards = {}]
                    ELSE IF ~MayEmit(run) THEN IdleLoop
                    ELSE [st EXCEPT !.pc = "ending", !.at = seq])

\* What the batch makes of the run.  A park's RUN_FINISHED is not a finish; an ending the
\* aggregate refuses is dropped and the frames before it stay.
EndBatch(r, st, card) ==
    LET closed == ApplyResults(r, st.calls) IN
    CASE st.ending = "park" -> ApplySuspended(closed, card)
      [] st.ending = "fail" -> IF MayEnd(closed) THEN ApplyFailed(closed) ELSE closed
      [] OTHER -> IF MayEnd(closed) /\ closed.status # "awaiting-approval"
                  THEN ApplyFinished(closed) ELSE closed

\* Its append.  With several cards in one completion the last suspension is the pending one.
LoopEnding(l) ==
    LET st == loop[l] IN
    /\ st.pc = "ending"
    /\ \E card \in IF st.ending = "park" THEN st.cards ELSE {NoCall} :
          \/ /\ Append(st.at, EndBatch(run, st, card))
             /\ LoopTo(l, IdleLoop)
             /\ UNCHANGED faults
          \/ /\ Conflict(st.at)
             /\ LoopMoves(l, Forget([st EXCEPT !.pc = "end"])) \/ LoopMoves(l, IdleLoop)
          \/ /\ LostWrite \/ LostReply(st.at, EndBatch(run, st, card))
             /\ LoopTo(l, IdleLoop)

LoopStep(l) ==
    \/ LoopHolds(l) \/ LoopLoads(l) \/ LoopSetsUp(l) \/ LoopCannot(l) \/ LoopFails(l)
    \/ LoopResumes(l) \/ LoopRound(l) \/ LoopModel(l) \/ LoopAsked(l) \/ LoopStart(l)
    \/ LoopStarting(l) \/ LoopActs(l) \/ LoopRecord(l) \/ LoopRecording(l)
    \/ LoopCloses(l) \/ LoopEnd(l) \/ LoopEnding(l)

-----------------------------------------------------------------------------
(* The recovery sweep.                                                      *)

SweepTo(s, pc, at) ==
    /\ sweep' = [sweep EXCEPT ![s] = [pc |-> pc, at |-> at]]
    /\ UNCHANGED <<post, person, asked, ran, lapsed>>

\* claim_abandoned_runs: one statement, so two replicas never take the same run.
SweepClaims(s) ==
    /\ sweep[s].pc = "idle"
    /\ run.started /\ run.status = "running" /\ ~fresh
    /\ fresh' = TRUE
    /\ SweepTo(s, "claimed", 0)
    /\ UNCHANGED <<run, seq, loop, faults>>

\* A slip: a run that cannot be resumed is left alone instead of failed.
SweepVerdictsSpare ==
    IF Ended(run) \/ run.status = "awaiting-approval" \/ ~MayResume(run) THEN {"idle"}
    ELSE {"failing", "resuming"}

\* A slip: a run whose answer was not carried out is taken for one that still waits.
SweepVerdictsSkipAnswers ==
    IF Ended(run) \/ run.status = "awaiting-approval" \/ run.unstarted # NoCall THEN {"idle"}
    ELSE IF ~MayResume(run) THEN {"failing"}
    ELSE {"failing", "resuming"}

\* verdict and carry_on_for: resume only a run nothing may have acted under unseen, never
\* a form's answer.  Who may carry it on (owner, newer turn, age, policy) may refuse too;
\* a store that does not answer leaves the run to the next sweep.
SweepVerdicts ==
    IF Ended(run) \/ run.status = "awaiting-approval" THEN {"idle"}
    ELSE IF ~MayResume(run) \/ run.unstarted \in FormCall THEN {"failing"}
    ELSE {"failing", "resuming"}

SweepResolves(s) ==
    /\ sweep[s].pc = "claimed"
    /\ \/ /\ \E verdict \in SweepVerdicts :
                IF verdict = "idle" THEN SweepTo(s, "idle", 0) ELSE SweepTo(s, verdict, seq)
          /\ UNCHANGED faults
       \/ SweepTo(s, "idle", 0) /\ Fault
    /\ UNCHANGED <<run, seq, fresh, loop>>

\* fail_run.
SweepFails(s) ==
    /\ sweep[s].pc = "failing"
    /\ SweepTo(s, "idle", 0)
    /\ \/ Append(sweep[s].at, ApplyFailed(run)) /\ UNCHANGED faults
       \/ Conflict(sweep[s].at) /\ UNCHANGED <<run, seq, fresh, faults>>
       \/ LostWrite \/ LostReply(sweep[s].at, ApplyFailed(run))
    /\ UNCHANGED loop

\* The run is moved into its next generation, and its continuation spawned under it: the
\* answer whose call never started, or the model asked again.
SweepResumes(s) ==
    /\ sweep[s].pc = "resuming"
    /\ SweepTo(s, "idle", 0)
    /\ \/ /\ Append(sweep[s].at, ApplyResumed(run))
          /\ \E l \in Loop :
                Spawn(l, "sweep", IF run.unstarted = NoCall THEN "interrupted" ELSE "answer",
                      run.generation + 1, {run.unstarted} \ {NoCall})
          /\ UNCHANGED faults
       \/ Conflict(sweep[s].at) /\ UNCHANGED <<run, seq, fresh, loop, faults>>
       \/ (LostWrite \/ LostReply(sweep[s].at, ApplyResumed(run))) /\ UNCHANGED loop

SweepStep(s) == SweepClaims(s) \/ SweepResolves(s) \/ SweepFails(s) \/ SweepResumes(s)

-----------------------------------------------------------------------------
(* Time and crashes.                                                        *)

\* A slip: the continuation of an answer takes no lease.
InHandButAnswers ==
    (\E l \in Loop : Live(l) /\ loop[l].by # "answer") \/ (\E s \in Sweeper : sweep[s].pc # "idle")

\* Somebody has the run in hand: a loop that renews its lease, or a sweep that claimed it.
InHand == (\E l \in Loop : Live(l)) \/ (\E s \in Sweeper : sweep[s].pc # "idle")

\* LEASE_MS pass with no write, no claim and no renewal.  Nobody renews once the loop is
\* gone; while somebody has the run it takes lost renewals or a stalled process, a fault.
LeaseExpires ==
    /\ fresh
    /\ IF InHand THEN Fault /\ lapsed' = TRUE ELSE UNCHANGED <<faults, lapsed>>
    /\ fresh' = FALSE
    /\ UNCHANGED <<run, seq, post, loop, person, sweep, asked, ran>>

\* The process behind a loop dies: what it held in memory is gone.
LoopCrashes(l) ==
    /\ Live(l)
    /\ Fault
    /\ Gone(l)
    /\ UNCHANGED <<run, seq, fresh, post, person, sweep, asked, ran, lapsed>>

PersonActs(w) ==
    \/ \E c \in Call, yes \in BOOLEAN : AnswerReads(w, c, yes)
    \/ AnswerAppends(w) \/ StopReads(w) \/ InterruptReads(w) \/ StopAppends(w)

PostActs(p) == PostArrives(p) \/ PostReads(p) \/ PostClaims(p)

Next ==
    \/ \E p \in Post : PostActs(p)
    \/ \E w \in Person : PersonActs(w)
    \/ \E l \in Loop : LoopStep(l) \/ LoopCrashes(l)
    \/ \E s \in Sweeper : SweepStep(s)
    \/ LeaseExpires

Spec == Init /\ [][Next]_vars

\* Tasks that are spawned are polled, the sweep runs every SWEEP_INTERVAL and a lease
\* nobody renews expires; no POST and no person ever has to act.
FairSpec ==
    /\ Spec
    /\ \A l \in Loop : WF_vars(LoopStep(l))
    /\ \A s \in Sweeper : WF_vars(SweepStep(s))
    /\ WF_vars(LeaseExpires)

-----------------------------------------------------------------------------
(* What must hold.                                                          *)

\* A generation has one driver: two loops alive at once, after a claim two POSTs raced
\* for, an answer given twice or a sweep of a run that was still going, are never in the
\* same generation, so the fence tells them apart (StoreJournal::claim, loaded, resolve).
OneDriver ==
    \A l, m \in Loop : (l # m /\ Live(l) /\ Live(m)) => loop[l].gen # loop[m].gen

\* No call acts twice: not after a crash, a lost reply, a lapsed lease, a retried append
\* or a resumed answer (tools_starting before run_all; Resume refused on an open tool).
RunsAtMostOnce == \A c \in Call : ran[c] <= 1

\* A loop that touches the world does it in the run's own generation, and for calls whose
\* start the log holds and whose result it does not: whoever reads the log after a crash
\* there sees that the outcome is unknown.
ActsOnRecord ==
    \A l \in Loop : loop[l].pc = "world" =>
        loop[l].gen = run.generation /\ loop[l].calls \subseteq run.open

\* A call a person said no to never acts, whichever of the answer's continuation or the
\* sweep's delivers the no (resume_conversation, Refused).
DeniedNeverRuns == \A c \in run.answered \ run.approved : ran[c] = 0

\* Unless a lease lapses under its holder, the sweep never has a run in hand that a loop
\* still drives: no turn is failed as "interrupted by a restart" while it is going
\* (the lease every driver takes before it loads anything).
NoSweepOfTheLiving ==
    ~lapsed => \A s \in Sweeper : sweep[s].pc # "idle" => \A l \in Loop : ~Live(l)

\* An ending is final: no late answer, round, Stop or sweep changes how the run ended,
\* answers its card or starts a tool on it.
EndingIsFinal ==
    [][Ended(run) => /\ run'.status = run.status
                     /\ run'.answered = run.answered
                     /\ run'.open \subseteq run.open]_vars

\* The run as a person sees it keeps its contract (RunContract).
Contract ==
    INSTANCE RunContract WITH
        phase   <- IF Ended(run) THEN "ended"
                   ELSE IF ~run.started THEN "none"
                   ELSE IF run.status = "awaiting-approval" THEN "waiting" ELSE "working",
        card    <- IF run.status = "awaiting-approval" THEN run.pending ELSE NoCall,
        refused <- run.answered \ run.approved,
        flight  <- run.open,
        acted   <- {c \in Call : ran[c] > 0}

KeepsContract == Contract!Spec

\* No run is left behind: one that is working comes to rest, parked on a card or ended,
\* whatever crashes, lost replies and lapsed leases happen on the way (the sweep).
ComesToRest ==
    [](run.started => <>(Ended(run) \/ run.status = "awaiting-approval"))

\* An answer is carried out: the answered call starts or gets its result, or the run ends,
\* also when the process that took the answer died before it spawned the continuation.
AnswerIsCarriedOut ==
    \A c \in Call : [](run.unstarted = c => <>(run.unstarted # c \/ Ended(run)))

\* What a person waiting may count on: the run rests, and their answer is carried out.
RunComesToRest == ComesToRest /\ AnswerIsCarriedOut

-----------------------------------------------------------------------------
(* Why: the inductive invariant behind OneDriver, RunsAtMostOnce,           *)
(* ActsOnRecord, DeniedNeverRuns and EndingIsFinal.  Each writer has its    *)
(* part: what it read still holds if its append is going to be accepted,    *)
(* because every change of the run moves the sequence on.                   *)

\* The loop the log obeys: alive and in the run's generation.
Drives(l) == Live(l) /\ loop[l].gen = run.generation

PostOK(p) ==
    /\ post[p].at <= seq
    /\ (post[p].pc = "claim" /\ post[p].at = seq) => MayStart(run)

PersonOK(w) ==
    /\ person[w].at <= seq
    /\ person[w].pc = "answer" => person[w].call \in Call
    /\ (person[w].pc \in {"answer", "stop"} /\ person[w].at = seq) =>
          run.started /\ MayEnd(run)
    /\ (person[w].pc = "answer" /\ person[w].at = seq) =>
          person[w].call \notin run.answered /\ run.pending = person[w].call

SweepOK(s) ==
    /\ sweep[s].at <= seq
    /\ sweep[s].pc # "idle" => run.started
    /\ (sweep[s].pc \in {"failing", "resuming"} /\ sweep[s].at = seq) =>
          run.status = "running"
    /\ (sweep[s].pc = "resuming" /\ sweep[s].at = seq) => MayResume(run)

\* What a loop's last read told it.
LoopRead(l) ==
    /\ loop[l].at <= seq
    /\ (loop[l].pc = "failing" /\ loop[l].at = seq) => MayEnd(run)
    /\ (loop[l].pc \in {"starting", "recording", "ending"} /\ loop[l].at = seq) =>
          loop[l].gen = run.generation /\ MayEmit(run)
    /\ (loop[l].pc = "starting" /\ loop[l].at = seq) => MayStartTools(run)
    /\ (loop[l].ending = "park" /\ loop[l].pc = "ending" /\ loop[l].at = seq) => MayEnd(run)

\* What a loop has in hand at each step.
LoopHands(l) ==
    /\ loop[l].calls \subseteq asked
    /\ (loop[l].pc \in {"spawned", "load", "setup"} /\ loop[l].as = "answer") =>
          loop[l].calls # {}
    /\ loop[l].pc \in {"resume", "asked", "start", "starting", "world"} => loop[l].calls # {}
    /\ loop[l].ending # "none" <=> loop[l].pc \in {"close", "end", "ending"}
    /\ loop[l].ending = "park" => (loop[l].cards # {} /\ loop[l].cards \subseteq loop[l].calls)

\* The driving loop is about to run only what has not run and nobody refused; a replaced
\* loop stays behind the run's generation and away from the world.
LoopDrives(l) ==
    /\ Live(l) => run.started /\ loop[l].gen <= run.generation
    /\ Drives(l) =>
          /\ run.status # "awaiting-approval"
          /\ loop[l].pc \in {"spawned", "load", "setup", "resume", "asked", "start",
                             "starting", "world"} => \A c \in loop[l].calls : ran[c] = 0
          /\ loop[l].pc \in {"asked", "start", "starting", "world"} =>
                loop[l].calls \cap (run.answered \ run.approved) = {}
          /\ loop[l].ending = "park" => \A c \in loop[l].cards : ran[c] = 0
    /\ loop[l].pc = "world" =>
          loop[l].gen = run.generation /\ loop[l].calls \subseteq run.open

LoopOK(l) == LoopRead(l) /\ LoopHands(l) /\ LoopDrives(l)

\* The card is up exactly while the run waits, for a call that was asked for and has
\* neither acted nor is in flight; so is the answer nobody has carried out yet.
RunOK ==
    /\ ~run.started => run = NewRun
    /\ ~Ended(run) => (run.pending # NoCall <=> run.status = "awaiting-approval")
    /\ run.answered \subseteq asked
    /\ run.pending # NoCall => run.pending \in asked
    /\ run.status = "awaiting-approval" =>
          ran[run.pending] = 0 /\ run.pending \notin run.open
    /\ run.unstarted # NoCall =>
          /\ run.unstarted \in asked
          /\ ran[run.unstarted] = 0
          /\ run.unstarted \notin run.open
    /\ \A c \in Call : ran[c] > 0 => c \in asked

IInv ==
    /\ TypeOK
    /\ RunOK
    /\ \A p \in Post : PostOK(p)
    /\ \A w \in Person : PersonOK(w)
    /\ \A s \in Sweeper : SweepOK(s)
    /\ \A l \in Loop : LoopOK(l)
    /\ OneDriver
    /\ RunsAtMostOnce
    /\ DeniedNeverRuns

\* Behind NoSweepOfTheLiving: as long as no lease has lapsed under its holder, whoever has
\* the run in hand holds a fresh lease on it, and that is either loops or one sweep, never
\* both.  A run a sweep has in hand waits on nobody, so no answer spawns a loop behind it.
Claimed(s) == sweep[s].pc # "idle"

LeaseHeld ==
    ~lapsed =>
        /\ InHand => fresh
        /\ \A s, t \in Sweeper : (Claimed(s) /\ Claimed(t)) => s = t
        /\ \A s \in Sweeper : Claimed(s) =>
              run.status # "awaiting-approval" /\ \A l \in Loop : ~Live(l)

-----------------------------------------------------------------------------
(* What a comment in the code says and the code does not do.                *)

\* routes/journal.rs on the generation: "the replaced loop can neither act again nor end
\* the run that carried on".
ReplacedLoopNeverWrites ==
    [][\A l \in Loop :
          (Live(l) /\ loop[l].gen # run.generation /\ loop'[l] # loop[l])
             => run' = run]_vars

\* For TLC: calls of one kind, and the tasks, devices and replicas, are interchangeable.
Symmetry ==
    Permutations(Call \ FormCall) \cup Permutations(Loop) \cup Permutations(Person)
    \cup Permutations(Post) \cup Permutations(Sweeper)
=============================================================================
