------------------------------ MODULE HarnessLoop ------------------------------
(***************************************************************************)
(* The durable loop of opengrok-harness (lib.rs): model, tools, model      *)
(* again, until the model stops asking, a rule of the loop's own ends the  *)
(* turn, a budget runs out or somebody stops the run; and what survives of *)
(* it when the process dies, a write fails or a card is answered.          *)
(*                                                                         *)
(* Who may write when, read and append taken apart, is RunProtocol's       *)
(* matter; a write is one step here.  A call is the (tool, arguments) pair *)
(* the loop compares calls by; its text is nothing but the kind it is of.  *)
(***************************************************************************)
EXTENDS Naturals, Sequences, FiniteSets

CONSTANTS
    Recipe,             \* run_recipe calls, one per recipe
    Command,            \* shell commands and other work on a computer
    Listing,            \* read-only listings of the host's catalog
    Walk,               \* searches of a whole home directory
    Look,               \* `computer` calls: looks and actions on the screen
    Paint,              \* bar_chart and form, drawn by the client
    NoAsk,              \* Rust's None
    MaxCalls,           \* calls in one completion
    MaxRounds,          \* RunBudget::max_rounds
    MaxComputerRounds,  \* RunBudget::max_computer_rounds
    MaxFailedRounds,    \* intent::MAX_FAILED_WORK_ROUNDS
    SameScreenLimit,    \* SAME_SCREEN_LIMIT
    MaxResumes,         \* MAX_RESUMES
    MaxCards,           \* cards a person answers in one behaviour
    MaxFaults           \* crashes, failed writes and lapsed leases in one behaviour

Ask == Recipe \cup Command \cup Listing \cup Walk \cup Look \cup Paint

ASSUME BudgetAssumption ==
    /\ MaxRounds \in Nat \ {0}
    /\ MaxComputerRounds \in Nat \ {0}
    /\ MaxResumes \in Nat
    /\ MaxFaults \in Nat
    /\ MaxCards \in Nat
    /\ MaxFailedRounds \in Nat \ {0}
    /\ SameScreenLimit \in Nat \ {0}
    /\ MaxCalls \in Nat \ {0}
    /\ NoAsk \notin Ask

\* A call is of one tool: what the client draws is no tool's work.
ASSUME PaintAssumption == Paint \cap (Recipe \cup Command \cup Listing \cup Walk \cup Look) = {}

VARIABLES
    log,     \* what the run's log replays to
    pc,      \* where the loop is; "down" when nobody drives the run
    mem,     \* the locals of converse_raw
    round,   \* the round in hand, not yet written
    ending,  \* how the loop has decided to end
    told,    \* the ending the client was shown
    plays,   \* how often the box has played each recipe
    carried, \* rounds whose calls were carried out
    rounds,  \* those since a person last acted
    late,    \* model calls begun after a Stop was on record
    stuck,   \* rounds in a row that did the same thing and failed the same way
    cards,   \* cards answered
    faults,  \* faults so far
    lapsed   \* a sweep failed the run under the loop

vars == <<log, pc, mem, round, ending, told, plays, carried, rounds, late, stuck, cards, faults, lapsed>>

\* A round's result, per call: ok, ok with the picture seen before, a target or editor
\* opened, a non-zero exit, the catalog's rejected argument, its missing binary, refused,
\* stopped part way, and waiting on a person.
Outcome == {"ok", "same", "opened", "failed", "argv", "missing", "refused", "part", "waits"}

Outcomes(ask) ==
    CASE ask \in Recipe  -> {"ok", "same", "part", "refused", "waits"}
      [] ask \in Command -> {"ok", "opened", "failed", "argv", "refused", "waits"}
      [] ask \in Listing -> {"ok", "failed", "argv", "missing", "refused", "waits"}
      [] ask \in Look    -> {"ok", "same", "refused"}
      [] OTHER           -> {"ok"}

\* ToolResult::ok.
IsOk(out) == out \in {"ok", "same", "opened", "failed", "argv", "missing"}

\* counts_as_work_failure.
WorkFailure(out) == out \in {"failed", "argv", "missing", "refused", "part", "waits"}

Status == {"running", "awaiting", "finished", "failed", "stopped"}

Over == {"finished", "failed", "stopped"}

\* `answer` is an answer nobody has carried out yet, `closing` the last ending frame.
LogState ==
    [status : Status, open : BOOLEAN, card : Ask \cup {NoAsk},
     answer : {"none", "yes", "no"}, spoken : Nat, computer : Nat,
     recipes : SUBSET Recipe, generation : 0..MaxResumes,
     closing : {"none", "finish", "fail", "stop", "park"}]

Memory ==
    [i : Nat, spoken : Nat, computer : Nat, any_delta : BOOLEAN, played : SUBSET Recipe,
     skipped_replay : BOOLEAN, listed : BOOLEAN, skipped_listing : BOOLEAN,
     opened : Ask \cup {NoAsk}, streak : Nat, failed_key : Ask \cup {NoAsk},
     ok_keys : SUBSET Ask, last_refused : Seq(Ask), looks : Nat]

\* RoundSpent and the frames of the round; `calls` and `outs` are what it asked and got.
RoundState ==
    [calls : Seq(Ask), outs : Seq(Outcome), ran : BOOLEAN,
     recipes : SUBSET Recipe, kind : {"none", "spoken", "computer"}]

NoRound == [calls |-> <<>>, outs |-> <<>>, ran |-> FALSE, recipes |-> {}, kind |-> "none"]

Pc == {"open", "top", "ask", "model", "calls", "start", "world", "record", "budget", "wrap",
       "last", "carry", "carrystart", "carryworld", "carried", "close", "write", "down"}

TypeOK ==
    /\ log \in LogState
    /\ pc \in Pc
    /\ mem \in Memory
    /\ round \in RoundState
    /\ ending \in {"none", "finish", "fail", "stop", "park"}
    /\ told \in {"none", "finish", "fail", "stop", "park", "unrecorded"}
    /\ plays \in [Recipe -> Nat]
    /\ carried \in Nat /\ rounds \in Nat /\ late \in Nat /\ cards \in 0..MaxCards
    /\ stuck.n \in Nat
    /\ faults \in 0..MaxFaults
    /\ lapsed \in BOOLEAN

\* What a segment inherits: Carried.
Fresh(spoken, computer, played) ==
    [i |-> 0, spoken |-> spoken, computer |-> computer, any_delta |-> FALSE, played |-> played,
     skipped_replay |-> FALSE, listed |-> FALSE, skipped_listing |-> FALSE, opened |-> NoAsk,
     streak |-> 0, failed_key |-> NoAsk, ok_keys |-> {}, last_refused |-> <<>>,
     looks |-> 0]

NotStuck == [n |-> 0, did |-> <<>>]

\* A new turn, claimed: its loop is about to write its opening.
Init ==
    /\ log = [status |-> "running", open |-> FALSE, card |-> NoAsk, answer |-> "none",
              spoken |-> 0, computer |-> 0, recipes |-> {}, generation |-> 0,
              closing |-> "none"]
    /\ pc = "open"
    /\ mem = Fresh(0, 0, {})
    /\ round = NoRound
    /\ ending = "none"
    /\ told = "none"
    /\ plays = [r \in Recipe |-> 0]
    /\ carried = 0 /\ rounds = 0 /\ late = 0 /\ cards = 0 /\ faults = 0
    /\ stuck = NotStuck
    /\ lapsed = FALSE

-----------------------------------------------------------------------------
(* The journal.                                                             *)

Fault == faults < MaxFaults /\ faults' = faults + 1

\* A slip: a stopped run does not count as ended.
EndedUnlessStopped == log.status \in {"finished", "failed"}

Ended == log.status \in Over

\* `stopped`: any ended run says yes; a read that fails says no.
SaysStopped == Ended /\ UNCHANGED faults
SaysGoOn == \/ ~Ended /\ UNCHANGED faults
            \/ Ended /\ Fault

\* What a round's write makes of the log: its frames, and with them what it spent.  A
\* stopped run takes the frames and refuses the rest; any other ended run takes nothing.
WithRound(l, r) ==
    IF l.status \in {"finished", "failed"} THEN l
    ELSE IF l.status = "stopped" THEN [l EXCEPT !.open = @ /\ ~r.ran]
    ELSE [l EXCEPT !.open = @ /\ ~r.ran,
                   !.answer = IF r.ran THEN "none" ELSE @,
                   !.recipes = @ \cup r.recipes,
                   !.spoken = IF r.kind = "spoken" THEN @ + 1 ELSE @,
                   !.computer = IF r.kind = "computer" THEN @ + 1 ELSE @]

\* The round and its ending, one write.  The frame of an ending the aggregate refuses is
\* written all the same.
WithEnding(l, r, end, card) ==
    LET w == WithRound(l, r) IN
    IF l.status \in {"finished", "failed"} THEN l
    ELSE IF l.status = "stopped" THEN [w EXCEPT !.closing = end]
    ELSE [w EXCEPT !.closing = end,
                   !.card = IF end = "park" THEN card ELSE @,
                   !.status = CASE end = "park" -> "awaiting"
                                [] end = "fail" -> "failed"
                                [] OTHER -> "finished"]

\* A write comes back written, or it does not: then it landed or it did not.
Written(new) == log' = new /\ UNCHANGED faults
NotWritten(new) == Fault /\ log' \in {log, new}

\* The loop only moves.
Local == UNCHANGED <<plays, carried, rounds, stuck, cards, lapsed>>

Ends(end) == pc' = "close" /\ ending' = end

\* The round is dropped with what it spent: it was written, or nothing of it ran.
EndsEmpty(end) == Ends(end) /\ round' = NoRound
-----------------------------------------------------------------------------
(* The top of a round and the model.                                        *)

\* The opening is written before anything is asked; it is never written again.
Opens ==
    /\ pc = "open"
    /\ \/ Written(log) /\ pc' = "top" /\ UNCHANGED <<round, ending>>
       \/ NotWritten(log) /\ EndsEmpty("fail")
    /\ UNCHANGED <<mem, told, late>> /\ Local

\* Where a Stop lands, the first of two places; then the wall clock, which spares the
\* first round, and the window the request must fit.  A loop past its bound ends anyway.
Top ==
    /\ pc = "top"
    /\ round' = NoRound
    /\ IF mem.i >= MaxRounds + MaxComputerRounds
       THEN Ends("fail") /\ UNCHANGED faults
       ELSE \/ SaysStopped /\ Ends("stop")
            \/ SaysGoOn /\ pc' = "ask" /\ UNCHANGED ending
            \/ SaysGoOn /\ mem.i > 0 /\ pc' = "budget" /\ UNCHANGED ending
            \/ SaysGoOn /\ Ends("fail")
    /\ UNCHANGED <<log, mem, told, late>> /\ Local

\* The request leaves.
Asks ==
    /\ pc \in {"ask", "wrap"}
    /\ late' = IF log.status \in Over THEN late + 1 ELSE late

AsksModel ==
    /\ pc = "ask"
    /\ Asks
    /\ pc' = "model"
    /\ UNCHANGED <<log, mem, round, ending, told, faults>> /\ Local

\* A completion's calls: at most one painted widget, which comes last.
Completions ==
    {s \in UNION {[1..n -> Ask] : n \in 1..MaxCalls} :
        \A k \in DOMAIN s : s[k] \in Paint => k = Len(s)}

\* The model answers: the stream breaks or floods the chat with a plan; words, or nothing;
\* or calls.
ModelAnswers ==
    /\ pc = "model"
    /\ \/ /\ Ends("fail")
          /\ UNCHANGED <<mem, round, faults>>
       \/ \E words \in BOOLEAN :
             /\ IF words \/ mem.any_delta
                THEN Ends("finish") /\ UNCHANGED faults
                ELSE \/ SaysStopped /\ Ends("stop")
                     \/ SaysGoOn /\ Ends("fail")
             /\ UNCHANGED <<mem, round>>
       \/ \E s \in Completions :
             /\ pc' = "calls"
             /\ round' = [NoRound EXCEPT !.calls = s]
             /\ mem' = [mem EXCEPT !.any_delta = TRUE]
             /\ UNCHANGED <<ending, faults>>
    /\ UNCHANGED <<log, told, late>> /\ Local

-----------------------------------------------------------------------------
(* A round's calls.                                                         *)

Calls == round.calls
Ks == DOMAIN round.calls

\* A slip: two calls of one completion are not compared.
ReplayPlayedOnly(k) == Calls[k] \in Recipe /\ Calls[k] \in mem.played

\* replays: a recipe this request has played, or that an earlier call of this completion
\* asks for.
Replay(k) ==
    Calls[k] \in Recipe /\ (Calls[k] \in mem.played \/ \E j \in Ks : j < k /\ Calls[j] = Calls[k])

ListingOnly == (\E k \in Ks : Calls[k] \in Listing) /\ (\A k \in Ks : Calls[k] \in Listing \cup Paint)

SkipListing == mem.listed /\ ListingOnly

\* Calls the loop answers itself.
LoopAnswered(k) == SkipListing \/ Calls[k] \in Walk \/ Replay(k)

\* The turn that asks again for what it already has.
RepeatsItself ==
    \/ SkipListing /\ mem.skipped_listing
    \/ mem.opened # NoAsk /\ \A k \in Ks : Calls[k] = mem.opened
    \/ /\ mem.skipped_replay
       /\ \E k \in Ks : Replay(k)
       /\ \A k \in Ks : Calls[k] \in Paint \/ Replay(k)

\* Where a Stop lands, the second place: the last moment before anything is done.
Considers ==
    /\ pc = "calls"
    /\ \/ SaysStopped /\ Ends("stop")
       \/ SaysGoOn /\ RepeatsItself /\ Ends("finish")
       \/ /\ SaysGoOn
          /\ ~RepeatsItself
          /\ pc' = IF \A k \in Ks : LoopAnswered(k) THEN "world" ELSE "start"
          /\ UNCHANGED ending
    /\ UNCHANGED <<log, mem, round, told, late>> /\ Local

\* tools_starting: on record before anything touches the world, or the round ends.
StartsTools(next, new) ==
    \/ /\ Ended
       /\ Ends("stop")
       /\ UNCHANGED <<log, faults>>
    \/ /\ ~Ended
       /\ Written(new)
       /\ pc' = next
       /\ UNCHANGED ending
    \/ /\ ~Ended
       /\ NotWritten(new)
       /\ Ends("fail")

Starts ==
    /\ pc = "start"
    /\ StartsTools("world", [log EXCEPT !.open = TRUE])
    /\ UNCHANGED <<mem, round, told, late>> /\ Local

Results ==
    {outs \in [Ks -> Outcome] :
        \A k \in Ks : outs[k] \in (IF Calls[k] \in Walk THEN {"refused"}
                                   ELSE IF LoopAnswered(k) THEN {"ok"}
                                   ELSE Outcomes(Calls[k]))}

\* played_recipe, of the calls the box really ran.
PlayedNow(outs) ==
    {Calls[k] : k \in {j \in Ks : /\ Calls[j] \in Recipe
                                  /\ ~LoopAnswered(j)
                                  /\ outs[j] \in {"ok", "same", "part"}}}

\* The calls the round counts as failed work, and those it moved by.
FailedWork(outs) ==
    {k \in Ks : Calls[k] \notin Paint /\ outs[k] # "waits" /\ WorkFailure(outs[k])}

OkKeys(outs) ==
    {Calls[k] : k \in {j \in Ks : /\ ~LoopAnswered(j)
                                  /\ Calls[j] \notin Paint
                                  /\ ~WorkFailure(outs[j])}}

Latest(ks) == CHOOSE k \in ks : \A j \in ks : j <= k

\* A failure adds to the streak when it repeats the last one, or is refused on the catalog
\* or a walk, in a round that moved nothing.  The catalog's missing binary ends the turn.
Streak(outs) ==
    LET failed == FailedWork(outs)
        progressed == OkKeys(outs) \ mem.ok_keys # {}
        repeated == /\ ~progressed
                    /\ \E k \in failed : \/ ~IsOk(outs[k]) /\ Calls[k] \in Listing \cup Walk
                                         \/ Calls[k] = mem.failed_key
    IN
    IF \E k \in failed : outs[k] = "missing" THEN MaxFailedRounds
    ELSE IF \A k \in Ks : WorkFailure(outs[k]) => outs[k] = "argv" THEN mem.streak
    ELSE IF repeated THEN mem.streak + 1 ELSE 1

\* The pictures in a row that were the same.
Looks(outs) ==
    LET shows == {k \in Ks : Calls[k] \in Recipe \cup Look /\ ~LoopAnswered(k)
                             /\ outs[k] \in {"ok", "same"}}
        new == {k \in shows : outs[k] = "ok"}
    IN
    IF new = {} THEN mem.looks + Cardinality(shows)
    ELSE 1 + Cardinality({k \in shows : k > Latest(new)})

\* A slip: a failed round does not remember what failed.
LearnsForgetfully(outs) ==
    [mem EXCEPT !.played = @ \cup PlayedNow(outs),
                !.streak = IF FailedWork(outs) # {} THEN Streak(outs) ELSE 0,
                !.ok_keys = OkKeys(outs),
                !.looks = Looks(outs)]

\* What the loop knows after the round.
Learns(outs) ==
    LET failed == FailedWork(outs)
        worked == ~SkipListing /\ \E k \in Ks : Calls[k] \notin Paint /\ ~WorkFailure(outs[k])
        opened == {k \in Ks : outs[k] = "opened"}
        m == [mem EXCEPT
                !.skipped_listing = @ \/ SkipListing,
                !.skipped_replay = @ \/ \E k \in Ks : Replay(k),
                !.played = @ \cup PlayedNow(outs),
                !.listed = @ \/ (~SkipListing /\ \E k \in Ks : Calls[k] \in Listing /\ outs[k] = "ok"),
                !.opened = IF opened = {} THEN @ ELSE Calls[Latest(opened)],
                !.ok_keys = OkKeys(outs),
                !.looks = Looks(outs)]
    IN
    IF failed # {} THEN [m EXCEPT !.streak = Streak(outs), !.failed_key = Calls[Latest(failed)]]
    ELSE IF worked THEN [m EXCEPT !.streak = 0, !.failed_key = NoAsk]
    ELSE m

\* Every call was refused, and the same calls were refused last round.
Refused(outs) == IF \A k \in Ks : ~IsOk(outs[k]) THEN Calls ELSE <<>>

RefusedTwice(outs) ==
    /\ Refused(outs) # <<>>
    /\ \A k \in Ks : Calls[k] \notin Walk
    /\ mem.last_refused = Refused(outs)

OnScreen(outs) == \A k \in Ks : Calls[k] \in Look /\ IsOk(outs[k])

\* A slip: a round on the screen is not counted.
SpendsScreenFree(m, outs) == IF OnScreen(outs) THEN m ELSE [m EXCEPT !.spoken = @ + 1]

\* Which budget the round drew on.
Spends(m, outs) ==
    IF OnScreen(outs) THEN [m EXCEPT !.computer = @ + 1] ELSE [m EXCEPT !.spoken = @ + 1]

\* A slip: the budget is found spent one round late.
OverBudgetLate(m) == m.spoken > MaxRounds \/ m.computer > MaxComputerRounds

OverBudget(m) == m.spoken >= MaxRounds \/ m.computer >= MaxComputerRounds

\* The same completion failed the same way again.
StuckAfter(outs) ==
    LET did == <<Calls, outs>>
        fails == \A k \in Ks : WorkFailure(outs[k]) /\ outs[k] \notin {"argv", "waits"}
    IN
    IF ~fails THEN NotStuck
    ELSE [did |-> did, n |-> IF stuck.did = did THEN stuck.n + 1 ELSE 1]

\* run_all, and every rule that reads its results, in the loop's order.
Runs ==
    /\ pc = "world"
    /\ \E outs \in Results :
          LET m == Learns(outs)
              r == [round EXCEPT !.outs = outs, !.ran = TRUE, !.recipes = PlayedNow(outs)]
              counted == [Spends(m, outs) EXCEPT !.last_refused = Refused(outs)]
              spent == [r EXCEPT !.kind = IF OnScreen(outs) THEN "computer" ELSE "spoken"]
              exit == IF \E k \in Ks : outs[k] = "waits" THEN "park"
                      ELSE IF RefusedTwice(outs) \/ m.looks >= SameScreenLimit THEN "fail"
                      ELSE IF m.streak >= MaxFailedRounds \/ \E k \in Ks : Calls[k] \in Paint THEN "finish"
                      ELSE "none"
              over == OverBudget(counted) /\ m.opened # NoAsk
          IN
          /\ plays' = [p \in Recipe |-> IF p \in PlayedNow(outs) THEN plays[p] + 1 ELSE plays[p]]
          /\ carried' = carried + 1
          /\ rounds' = rounds + 1
          /\ stuck' = StuckAfter(outs)
          /\ IF exit # "none"
             THEN Ends(exit) /\ mem' = m /\ round' = r
             ELSE /\ mem' = counted
                  /\ round' = spent
                  /\ IF over THEN Ends("finish") ELSE pc' = "record" /\ UNCHANGED ending
    /\ UNCHANGED <<log, told, late, cards, faults, lapsed>>

\* A slip: a round whose write failed is kept for the next write.
RecordsKeeping ==
    /\ pc = "record"
    /\ \/ /\ Written(WithRound(log, round))
          /\ round' = NoRound
          /\ pc' = IF OverBudget(mem) THEN "budget" ELSE "top"
          /\ mem' = IF OverBudget(mem) THEN mem ELSE [mem EXCEPT !.i = @ + 1]
          /\ UNCHANGED ending
       \/ /\ NotWritten(WithRound(log, round))
          /\ Ends("fail")
          /\ UNCHANGED <<round, mem>>
    /\ UNCHANGED <<told, late>> /\ Local

\* Durable before the next call.  A write that failed may have landed, so the round and
\* what it spent are never written a second time.
Records ==
    /\ pc = "record"
    /\ \/ /\ Written(WithRound(log, round))
          /\ round' = NoRound
          /\ pc' = IF OverBudget(mem) THEN "budget" ELSE "top"
          /\ mem' = IF OverBudget(mem) THEN mem ELSE [mem EXCEPT !.i = @ + 1]
          /\ UNCHANGED ending
       \/ /\ NotWritten(WithRound(log, round))
          /\ EndsEmpty("fail")
          /\ UNCHANGED mem
    /\ UNCHANGED <<told, late>> /\ Local

\* The wrap-up: a Stop wins, and the request must fit.
WrapsUp ==
    /\ pc = "budget"
    /\ \/ SaysStopped /\ Ends("stop")
       \/ SaysGoOn /\ Ends("fail")
       \/ SaysGoOn /\ pc' = "wrap" /\ UNCHANGED ending
    /\ UNCHANGED <<log, mem, round, told, late>> /\ Local

\* The last call, with no tools: its words, or the budget's own sentence.
LastCall ==
    /\ pc = "wrap"
    /\ Asks
    /\ Ends("finish") \/ Ends("fail")
    /\ UNCHANGED <<log, mem, round, told, faults>> /\ Local

-----------------------------------------------------------------------------
(* How a run ends.                                                          *)

\* close: a clean finish or a park asks once more whether the run was stopped.
Closes ==
    /\ pc = "close"
    /\ pc' = "write"
    /\ \/ /\ ending \in {"finish", "park"}
          /\ \/ SaysStopped /\ ending' = "stop"
             \/ SaysGoOn /\ UNCHANGED ending
       \/ ending \notin {"finish", "park"} /\ UNCHANGED <<ending, faults>>
    /\ UNCHANGED <<log, mem, round, told, late>> /\ Local

\* The loop is over; nobody drives the run.
Leaves(shown) ==
    /\ told' = shown
    /\ pc' = "down"
    /\ ending' = "none"
    /\ round' = NoRound

\* The cards of a park: the last suspension of the batch is the pending one.
Card ==
    IF ending = "park" THEN Calls[Latest({k \in Ks : round.outs[k] = "waits"})] ELSE NoAsk

\* A slip: the ending is shown before its write has come back.
WritesAfterShowing ==
    /\ pc = "write"
    /\ Leaves(ending)
    /\ Written(WithEnding(log, round, ending, Card)) \/ NotWritten(WithEnding(log, round, ending, Card))
    /\ UNCHANGED <<mem, late>> /\ Local

\* A slip: a park that finds the run ended is tried again as it is.
WritesParkAgain ==
    LET new == WithEnding(log, round, ending, Card) IN
    /\ pc = "write"
    /\ ~(ending = "park" /\ Ended)
    /\ \/ Written(new) /\ Leaves(ending)
       \/ NotWritten(new) /\ Leaves("unrecorded")
    /\ UNCHANGED <<mem, late>> /\ Local

\* The round and its ending, one write, and only then is the ending shown.  A park on a
\* run that has ended wrote nothing and goes in again as the stop's ending.
Writes ==
    LET new == WithEnding(log, round, ending, Card) IN
    /\ pc = "write"
    /\ \/ /\ ending = "park" /\ Ended
          /\ ending' = "stop"
          /\ UNCHANGED <<log, pc, round, told, faults>>
       \/ /\ ~(ending = "park" /\ Ended)
          /\ \/ Written(new) /\ Leaves(ending)
             \/ NotWritten(new) /\ Leaves("unrecorded")
    /\ UNCHANGED <<mem, late>> /\ Local

-----------------------------------------------------------------------------
(* A run carried on: resume_conversation and continue_interrupted.          *)

\* A Stop wins over the answer.  A no never reaches the executor: it is the call's result.
Carries ==
    /\ pc = "carry"
    /\ \/ SaysStopped /\ EndsEmpty("stop")
       \/ /\ SaysGoOn
          /\ \/ log.answer = "no" /\ pc' = "carried"
                /\ round' = [round EXCEPT !.outs = <<"refused">>, !.ran = TRUE]
             \/ log.answer # "no" /\ pc' = "carrystart" /\ UNCHANGED round
          /\ UNCHANGED ending
    /\ UNCHANGED <<log, mem, told, late>> /\ Local

CarryStarts ==
    /\ pc = "carrystart"
    /\ StartsTools("carryworld", [log EXCEPT !.open = TRUE, !.answer = "none"])
    /\ UNCHANGED <<mem, round, told, late>> /\ Local

\* The approved call runs; what it played is written with its result.
CarryRuns ==
    /\ pc = "carryworld"
    /\ \E out \in Outcomes(Calls[1]) :
          LET played == IF Calls[1] \in Recipe /\ out \in {"ok", "same", "part"}
                        THEN {Calls[1]} ELSE {}
          IN
          /\ plays' = [p \in Recipe |-> IF p \in played THEN plays[p] + 1 ELSE plays[p]]
          /\ round' = [round EXCEPT !.outs = <<out>>, !.ran = TRUE, !.recipes = played]
          /\ mem' = [mem EXCEPT !.played = @ \cup played]
          /\ IF out = "waits" THEN Ends("park") ELSE pc' = "carried" /\ UNCHANGED ending
    /\ UNCHANGED <<log, told, carried, rounds, late, stuck, cards, faults, lapsed>>

\* Durable before the model is asked about it; then the loop, with its opening empty.
CarryRecords ==
    /\ pc = "carried"
    /\ \/ /\ Written(WithRound(log, round))
          /\ pc' = "top"
          /\ round' = NoRound
          /\ UNCHANGED ending
       \/ NotWritten(WithRound(log, round)) /\ EndsEmpty("fail")
    /\ UNCHANGED <<mem, told, late>> /\ Local

-----------------------------------------------------------------------------
(* Everybody else.                                                          *)

\* A segment begins: `at` is where, on the call `ask`, with what it inherits.
Segment(at, calls, m) ==
    /\ pc = "down"
    /\ pc' = at
    /\ mem' = m
    /\ round' = [NoRound EXCEPT !.calls = calls]
    /\ stuck' = NotStuck
    /\ told' = "none"

\* A person answers the card; the continuation is spawned, or the process dies first.  Each
\* card has a fresh round budget, and the recipes the run has played.
Answers(yes) ==
    /\ log.status = "awaiting"
    /\ pc = "down"
    /\ cards < MaxCards
    /\ cards' = cards + 1
    /\ rounds' = 0
    /\ log' = [log EXCEPT !.status = "running", !.answer = IF yes THEN "yes" ELSE "no"]
    /\ \/ Segment("carry", <<log.card>>, Fresh(0, 0, log.recipes)) /\ UNCHANGED faults
       \/ Fault /\ UNCHANGED <<pc, mem, round, stuck, told>>
    /\ UNCHANGED <<ending, plays, carried, late, lapsed>>

\* A slip: a run is carried on for ever.
ResumesUnbounded ==
    /\ log.status = "running" /\ ~log.open
    /\ log' = [log EXCEPT !.generation = @ + 1]
    /\ Segment("top", <<>>, Fresh(log.spoken, log.computer, log.recipes))
    /\ UNCHANGED <<ending, plays, carried, rounds, late, cards, faults, lapsed>>

\* The sweep carries on a run nobody drives: the answer nobody carried out, or the model
\* asked again under what the run has on record.
Resumes ==
    /\ log.status = "running" /\ ~log.open
    /\ log.generation < MaxResumes
    /\ log' = [log EXCEPT !.generation = @ + 1]
    /\ IF log.answer = "none"
       THEN Segment("top", <<>>, Fresh(log.spoken, log.computer, log.recipes))
       ELSE Segment("carry", <<log.card>>, Fresh(0, 0, log.recipes))
    /\ UNCHANGED <<ending, plays, carried, rounds, late, cards, faults, lapsed>>

\* fail_run, on a run nobody drives; on one somebody does only after a lapsed lease.
SweepFails ==
    /\ log.status = "running"
    /\ log' = [log EXCEPT !.status = "failed"]
    /\ IF pc = "down" THEN UNCHANGED <<faults, lapsed>> ELSE Fault /\ lapsed' = TRUE
    /\ UNCHANGED <<pc, mem, round, ending, told, plays, carried, rounds, late, stuck, cards>>

Stops ==
    /\ ~Ended
    /\ log' = [log EXCEPT !.status = "stopped", !.card = NoAsk]
    /\ UNCHANGED <<pc, mem, round, ending, told, plays, carried, rounds, late, stuck, cards, faults, lapsed>>

\* The process dies, and its client's stream with it.
Crashes ==
    /\ pc # "down"
    /\ Fault
    /\ pc' = "down"
    /\ ending' = "none"
    /\ round' = NoRound
    /\ UNCHANGED <<log, mem, told, plays, carried, rounds, late, stuck, cards, lapsed>>

Loop ==
    \/ Opens \/ Top \/ AsksModel \/ ModelAnswers \/ Considers \/ Starts \/ Runs
    \/ Records \/ WrapsUp \/ LastCall \/ Closes \/ Writes
    \/ Carries \/ CarryStarts \/ CarryRuns \/ CarryRecords

Next ==
    \/ Loop
    \/ \E yes \in BOOLEAN : Answers(yes)
    \/ Resumes \/ SweepFails \/ Stops \/ Crashes

Spec == Init /\ [][Next]_vars

\* The loop's task is polled; its model calls are timed (RunBudget::open, next).
FairSpec == Spec /\ WF_vars(Loop)

-----------------------------------------------------------------------------
(* What must hold.                                                          *)

\* The for loop never runs out of its bound: every round that goes on has spent one unit of
\* one of two budgets, and either one spent ends the run, also when a segment starts with
\* budgets already spent (the comment at the end of converse_raw calls it unreachable).
NeverFallsOut == pc = "top" => mem.i < MaxRounds + MaxComputerRounds

\* The box plays a recipe at most once per request: not twice in one completion, not after a
\* card, not after a crash and a resume, not after a write that landed unseen
\* (replays, RoundSpent, Spent::recipes_of).
RecipeOnce == \A r \in Recipe : plays[r] <= 1

\* A Stop on record is followed by at most one more model call, the one that was about to
\* leave, and one more for each read of the log that failed.
StopBounds == late <= 1 + faults

\* Between two acts of a person a run carries out no more rounds than its budgets allow,
\* and one more for each time the sweep carried it on.
RoundsAreBounded == rounds <= MaxRounds + MaxComputerRounds - 1 + log.generation

\* The log never counts a round twice, not even one whose write failed and landed (the
\* round and what it spent are dropped once they were given to a write).
SpentIsTrue == log.spoken + log.computer <= carried

\* The same completion that failed the same way is not carried out a third time.
NotStuckForever == stuck.n <= MaxFailedRounds

\* The ending a client was shown is the one the log holds, unless the log was taken over by
\* a sweep after a lapsed lease.
ToldIsTrue ==
    (told \notin {"none", "unrecorded"} /\ ~lapsed) => log.closing = told

\* The loop comes to an end on its own: it parks, ends or dies.
LoopEnds == [](pc # "down" => <>(pc = "down"))

\* What holds of a loop's accounts: recipes are played once, rounds are counted as they
\* were carried out and within their budgets, a stop is heeded and what a client was told
\* is so.
LoopIsHonest ==
    /\ TypeOK
    /\ RecipeOnce
    /\ RoundsAreBounded /\ SpentIsTrue /\ StopBounds
    /\ ToldIsTrue

\* The loop comes down, of itself and in time: it never falls out of its bound, does not
\* repeat what fails, and ends.
LoopComesDown == []NeverFallsOut /\ []NotStuckForever /\ LoopEnds

=============================================================================
