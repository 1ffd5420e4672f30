------------------------------ MODULE RunAggregate ------------------------------
(***************************************************************************)
(* The run aggregate of opengrok-core (run.rs): what replaying a run's log *)
(* makes of each event (Apply...), and which commands the aggregate takes  *)
(* in which state (decide).  A run is one turn a coworker takes; its log   *)
(* is the only durable thing about it.                                     *)
(*                                                                         *)
(* A run is a record.  Of the fields of the Rust struct it keeps the ones  *)
(* that decide anything: the captured prompt, pin, effort, limits and the  *)
(* frames' text never change what a command may do and are left out.       *)
(***************************************************************************)
EXTENDS Naturals

CONSTANTS
    Call,        \* ids of the tool calls the model may ask for
    FormCall,    \* those whose card is a form (SuspendReason::UserForm)
    NoCall,      \* no call: Rust's None
    MaxResumes   \* MAX_RESUMES: how often an interrupted run is carried on

ASSUME CallAssumption == FormCall \subseteq Call /\ NoCall \notin Call
ASSUME MaxResumesAssumption == MaxResumes \in Nat

Status == {"running", "awaiting-approval", "finished", "failed", "stopped"}

Ending == {"finished", "failed", "stopped"}

RunState ==
    [started    : BOOLEAN,
     status     : Status,
     pending    : Call \cup {NoCall},   \* the card a person may answer
     answered   : SUBSET Call,          \* calls somebody answered
     approved   : SUBSET Call,          \* those answered with a yes
     unstarted  : Call \cup {NoCall},   \* an answer whose call has not started
     open       : SUBSET Call,          \* started, no result on record
     generation : 0..MaxResumes]

NewRun ==
    [started |-> FALSE, status |-> "running", pending |-> NoCall,
     answered |-> {}, approved |-> {}, unstarted |-> NoCall, open |-> {},
     generation |-> 0]

Ended(r) == r.status \in Ending

-----------------------------------------------------------------------------
(* apply: one operator per RunEvent.                                        *)

ApplyStarted(r) == [r EXCEPT !.started = TRUE, !.status = "running"]

\* Emitted frames: a TOOL_CALL_RESULT closes its call and spends the answer to it.
ApplyResults(r, done) ==
    [r EXCEPT !.open = @ \ done,
              !.unstarted = IF @ \in done THEN NoCall ELSE @]

\* A slip: the answer is not spent by the start of its call.
ApplyToolStartedKeepsAnswer(r, calls) == [r EXCEPT !.open = @ \cup calls]

ApplyToolStarted(r, calls) ==
    [r EXCEPT !.open = @ \cup calls,
              !.unstarted = IF @ \in calls THEN NoCall ELSE @]

ApplyResumed(r) == [r EXCEPT !.generation = @ + 1]

\* A later card replaces an earlier one: `pending` holds one call.
ApplySuspended(r, c) == [r EXCEPT !.status = "awaiting-approval", !.pending = c]

\* Back to running whether the answer was yes or no.
ApplyAnswered(r, c, yes) ==
    [r EXCEPT !.answered = @ \cup {c},
              !.approved = IF yes THEN @ \cup {c} ELSE @,
              !.unstarted = IF r.pending = c THEN c ELSE NoCall,
              !.pending = NoCall,
              !.status = "running"]

\* Finished and Failed leave the card pending; only Stopped takes it down.
ApplyFinished(r) == [r EXCEPT !.status = "finished"]
ApplyFailed(r)   == [r EXCEPT !.status = "failed"]
ApplyStopped(r)  == [r EXCEPT !.status = "stopped", !.pending = NoCall]

-----------------------------------------------------------------------------
(* decide: which commands the aggregate takes.                              *)

MayStart(r) == ~r.started /\ ~Ended(r)

\* A stopped run still takes the frames of the round it was stopped in.
MayEmit(r) == r.started /\ r.status \notin {"finished", "failed"}

\* Finish, Fail, Stop and Suspend.
MayEnd(r) == ~Ended(r)

\* A slip: an ended run still starts tools.
MayStartToolsAlways(r) == r.started

MayStartTools(r) == r.started /\ ~Ended(r)

\* A slip: one resume too many.
MayResumeOnceMore(r) ==
    r.started /\ r.status = "running" /\ r.open = {} /\ r.generation <= MaxResumes

MayResume(r) ==
    /\ r.started
    /\ r.status = "running"
    /\ r.open = {}
    /\ r.generation < MaxResumes

AnswerVerdict(r, c) ==
    IF c \in r.answered THEN "already-answered"
    ELSE IF Ended(r) \/ r.pending # c THEN "not-awaiting"
    ELSE "accepted"
=============================================================================
