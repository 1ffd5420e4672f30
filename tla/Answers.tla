------------------------------ MODULE Answers ------------------------------
(***************************************************************************)
(* One round's answer, from the request to the calls the round runs:       *)
(* the messages a request carries (harness/src/gateway.rs chat_messages),  *)
(* the door it goes through and when it is asked again (gateway.rs stream, *)
(* model.rs retry_wait, budget.rs open), the frames of the answer made     *)
(* into deltas (SseParser), stand-ins put back (cloaked_door.rs Restorer), *)
(* deltas made into events (projection.rs), events read back into whole    *)
(* calls (tools.rs collect_tool_calls).                                    *)
(*                                                                         *)
(* A call's arguments are the number of fragments that arrived; words are  *)
(* the number of pieces of text.                                           *)
(***************************************************************************)
EXTENDS Naturals, Sequences, SequencesExt, FiniteSets

CONSTANTS
    AnsCalls,      \* ids of the calls the model may make, 1..n
    MaxHistory,    \* bound: messages a request carries
    MaxFrames,     \* bound: frames of one answer
    AnyOrder       \* FALSE: the provider sends a call's fragments one after another,
                   \* and behind the cloaked door nothing after a call

ASSUME AnswersAssumption == MaxFrames \in Nat /\ AnyOrder \in BOOLEAN

VARIABLES
    history,   \* the messages of the request, as the harness holds them
    outgoing,      \* the messages as they go out
    door,      \* [pc, route, key, cloaked, bare, asked]: the opening of the door
    wire,      \* [words, args, cur, frames, over]: what the provider has sent
    parser,    \* [at, started, ended]: SseParser
    restorer,  \* [words, args]: what the cloaked door holds back
    events     \* [open, calls, done, words]: the projection and what collects from it

answerVars == <<history, outgoing, door, wire, parser, restorer, events>>

-----------------------------------------------------------------------------
(* The request.                                                            *)

Message == {[role |-> "user"], [role |-> "assistant"]}
           \cup {[role |-> "tool", id |-> i, image |-> p] : i \in AnsCalls \cup {0}, p \in BOOLEAN}
           \cup {[role |-> "calls", ids |-> s] : s \in {<<1>>, <<1, 2>>}}

\* One message read while `open` calls of the last assistant message have no result.
Begun == [out |-> <<>>, open |-> <<>>, pictures |-> FALSE, orphans |-> 0]
AsWords == [role |-> "words"]
NoResult(id) == [role |-> "result", id |-> id, real |-> FALSE]
CloseGroupSilently(s) ==
    [Begun EXCEPT !.out = s.out
        \o (IF s.pictures THEN <<[role |-> "screen"]>> ELSE <<>>)
        \o [k \in 1..s.orphans |-> AsWords]]
\* The run of results after a message with calls is over: what was not answered is
\* said to have none, the pictures follow as one message, the orphans as words.
CloseGroup(s) ==
    [Begun EXCEPT !.out = s.out
        \o [k \in DOMAIN s.open |-> NoResult(s.open[k])]
        \o (IF s.pictures THEN <<[role |-> "screen"]>> ELSE <<>>)
        \o [k \in 1..s.orphans |-> AsWords]]

\* A result answers one of the open calls, or is an orphan of the group.
TakesResult(s, m) ==
    IF \E k \in DOMAIN s.open : s.open[k] = m.id
    THEN [s EXCEPT !.out = Append(@, [role |-> "result", id |-> m.id, real |-> TRUE]),
                   !.open = RemoveFirst(@, m.id), !.pictures = @ \/ m.image]
    ELSE [s EXCEPT !.orphans = @ + 1]
\* `grouped` says the last message that is not a result had calls.
ReadMessage(acc, m) ==
    LET s == acc.s IN
    CASE m.role = "tool" /\ acc.grouped -> [acc EXCEPT !.s = TakesResult(s, m)]
      [] m.role = "tool" /\ ~acc.grouped -> [acc EXCEPT !.s.out = Append(@, AsWords)]
      [] m.role = "calls" ->
            LET c == CloseGroup(s)
            IN [s |-> [c EXCEPT !.out = Append(@, m), !.open = m.ids], grouped |-> TRUE]
      [] OTHER ->
            LET c == CloseGroup(s)
            IN [s |-> [c EXCEPT !.out = Append(@, m)], grouped |-> FALSE]
ChatMessages(h) ==
    CloseGroup(FoldLeft(ReadMessage, [s |-> Begun, grouped |-> FALSE], h).s).out

-----------------------------------------------------------------------------
(* The door.                                                               *)

\* A door that did not open is asked again once: the connection was refused, or the
\* gateway said to wait a moment.
RetryWait(why, attempt) == attempt = 0 /\ why \in {"unreachable", "busy"}

\* Where a request goes, or why it goes nowhere.
Route(d) ==
    CASE d.route = "unavailable" -> "refused"
      [] d.route \in {"proxy", "relay"} -> d.route
      [] d.key = "unavailable" -> "held"
      [] OTHER -> "gateway"

SendRequest ==
    /\ door.pc = "ask"
    /\ outgoing' = ChatMessages(history)
    /\ door' = [door EXCEPT !.pc = IF Route(door) \in {"refused", "held"} THEN "failed" ELSE "open"]
    /\ UNCHANGED <<history, wire, parser, restorer, events>>

\* The door answers: it opens, or fails, and a failure that is safe to retry is asked again.
DoorAnswers(why) ==
    /\ door.pc = "open"
    /\ door' = CASE why = "ok" -> [door EXCEPT !.pc = "streaming"]
                 [] why # "ok" /\ RetryWait(why, door.asked) -> [door EXCEPT !.asked = @ + 1]
                 [] OTHER -> [door EXCEPT !.pc = "failed"]
    /\ UNCHANGED <<history, outgoing, wire, parser, restorer, events>>

-----------------------------------------------------------------------------
(* Deltas to events, events to calls.                                      *)

Words == [kind |-> "words", n |-> 1]
StartOf(id) == [kind |-> "start", id |-> id]
ArgsOf(id, n) == [kind |-> "args", id |-> id, n |-> n]
EndOf(id) == [kind |-> "end", id |-> id]

\* collect_tool_calls: only a call that was started and is not closed takes arguments,
\* and closing it makes it one of the round's calls.
CollectStart(e, id) == [e EXCEPT !.calls = Append(@, [id |-> id, args |-> 0])]
CollectArgs(e, id, n) ==
    LET at == {k \in DOMAIN e.calls : e.calls[k].id = id}
    IN IF at = {} THEN e
       ELSE [e EXCEPT !.calls[CHOOSE k \in at : \A j \in at : k <= j].args = @ + n]
CollectEnd(e, id) ==
    LET at == {k \in DOMAIN e.calls : e.calls[k].id = id}
    IN IF at = {} THEN e
       ELSE LET k == CHOOSE i \in at : \A j \in at : i <= j
            IN [e EXCEPT !.done = Append(@, e.calls[k]), !.calls = RemoveAt(@, k)]

ClosesNothing(e) == [e EXCEPT !.open = 0]
\* Whatever is open is closed before something else opens: 100 is a message of text.
ClosesOpen(e) ==
    [(IF e.open \in AnsCalls THEN CollectEnd(e, e.open) ELSE e) EXCEPT !.open = 0]

Project(e, d) ==
    CASE d.kind = "words" ->
            [(IF e.open = 100 THEN e ELSE ClosesOpen(e)) EXCEPT !.open = 100, !.words = @ + d.n]
      [] d.kind = "start" -> [CollectStart(ClosesOpen(e), d.id) EXCEPT !.open = d.id]
      [] d.kind = "args" -> CollectArgs(e, d.id, d.n)
      [] d.kind = "end" ->
            [CollectEnd(e, d.id) EXCEPT !.open = IF @ = d.id THEN 0 ELSE @]

-----------------------------------------------------------------------------
(* The cloaked door: a state and the deltas it lets out.                   *)

NothingHeld == [words |-> 0, args |-> [i \in AnsCalls |-> 0]]
HeldWords(r) == IF r.words = 0 THEN <<>> ELSE <<[Words EXCEPT !.n = r.words]>>
\* Words are held while they may be the first half of a stand-in.
RestoreWords(r, holds) ==
    IF holds THEN [r |-> [r EXCEPT !.words = @ + 1], out |-> <<>>]
    ELSE [r |-> [r EXCEPT !.words = 0], out |-> <<[Words EXCEPT !.n = r.words + 1]>>]
HeldArgs(r, id) == IF r.args[id] = 0 THEN <<>> ELSE <<ArgsOf(id, r.args[id])>>
Restore(acc, d, holds) ==
    LET r == acc.r IN
    CASE d.kind = "words" ->
            LET w == RestoreWords(r, holds) IN [r |-> w.r, out |-> acc.out \o w.out]
      [] d.kind = "start" ->
            [r |-> [r EXCEPT !.words = 0], out |-> acc.out \o HeldWords(r) \o <<d>>]
      [] d.kind = "args" -> [acc EXCEPT !.r.args[d.id] = @ + d.n]
      [] d.kind = "end" ->
            [r |-> [r EXCEPT !.args[d.id] = 0], out |-> acc.out \o HeldArgs(r, d.id) \o <<d>>]
\* The stream ended or broke: everything held goes out.
Flush(r) == HeldWords(r) \o FlattenSeq([i \in 1..Cardinality(AnsCalls) |-> HeldArgs(r, i)])

\* The deltas of one frame, through the cloaked door if there is one, to the events.
Passes(deltas, holds, last) ==
    LET cloaked == FoldLeft(LAMBDA acc, d : Restore(acc, d, holds),
                            [r |-> restorer, out |-> <<>>], deltas)
        out == IF door.cloaked
               THEN cloaked.out \o (IF last THEN Flush(cloaked.r) ELSE <<>>)
               ELSE deltas
    IN /\ events' = FoldLeft(Project, events, out)
       /\ restorer' = IF ~door.cloaked \/ last THEN NothingHeld ELSE cloaked.r

-----------------------------------------------------------------------------
(* The frames.                                                             *)

IndexOf(id) == IF door.bare THEN 0 ELSE id - 1
\* close_open: every call an index names that was started and not ended, in order.
OpenIds == SetToSortSeq({i \in AnsCalls : /\ \E x \in DOMAIN parser.at : parser.at[x] = i
                                          /\ i \in parser.started \ parser.ended},
                        LAMBDA a, b : a < b)
CloseDeltas == [k \in DOMAIN OpenIds |-> EndOf(OpenIds[k])]

Streaming == door.pc = "streaming" /\ wire.frames < MaxFrames
FrameRead == [wire EXCEPT !.frames = @ + 1]

\* Whether something other than the rest of the last call may come now.
MayTurn == AnyOrder \/ ~door.cloaked \/ parser.started = {}

\* Text: behind it, on a wire that keeps its calls apart, no more of a call comes.
WordsFrame ==
    /\ Streaming /\ ~wire.over /\ MayTurn
    /\ wire' = [FrameRead EXCEPT !.words = @ + 1, !.cur = 0]
    /\ \E holds \in BOOLEAN : Passes(<<Words>>, holds, FALSE)
    /\ UNCHANGED <<history, outgoing, door, parser>>

\* A call, or a fragment of one: the first frame names it, a later one carries its
\* index, and its id again where the provider leaves the index out.
CallFrame(id, fragment) ==
    LET new == id \notin parser.started
        named == new \/ door.bare
        x == IndexOf(id)
    IN /\ Streaming /\ ~wire.over
       /\ new => MayTurn /\ \A j \in AnsCalls : j < id => j \in parser.started
       /\ ~new => fragment /\ (AnyOrder \/ wire.cur = id)
       /\ wire' = [FrameRead EXCEPT !.cur = id, !.args[id] = IF fragment THEN @ + 1 ELSE @]
       /\ parser' = [parser EXCEPT !.at = IF named THEN [@ EXCEPT ![x] = id] ELSE @,
                                   !.started = @ \cup {id}]
       /\ Passes((IF new THEN <<StartOf(id)>> ELSE <<>>)
                 \o (IF fragment THEN <<ArgsOf(parser'.at[x], 1)>> ELSE <<>>), FALSE, FALSE)
       /\ UNCHANGED <<history, outgoing, door>>

\* finish_reason or [DONE].
FinishFrame ==
    /\ Streaming
    /\ wire' = [FrameRead EXCEPT !.over = TRUE]
    /\ parser' = [parser EXCEPT !.ended = @ \cup {OpenIds[k] : k \in DOMAIN OpenIds}]
    /\ Passes(CloseDeltas, FALSE, FALSE)
    /\ UNCHANGED <<history, outgoing, door>>

\* A line that is not a frame is passed over.
UnreadableFrame ==
    /\ Streaming
    /\ wire' = FrameRead
    /\ UNCHANGED <<history, outgoing, door, parser, restorer, events>>

\* The body ends: what was never closed is closed here.
BodyEnds ==
    /\ door.pc = "streaming"
    /\ parser' = [parser EXCEPT !.ended = @ \cup {OpenIds[k] : k \in DOMAIN OpenIds}]
    /\ Passes(CloseDeltas, FALSE, TRUE)
    /\ door' = [door EXCEPT !.pc = "answered"]
    /\ UNCHANGED <<history, outgoing, wire>>

\* An error in the body, a connection that breaks, a silence longer than the idle
\* limit: the run fails and none of the round's calls is run.
CutsOff ==
    /\ door.pc = "streaming"
    /\ door' = [door EXCEPT !.pc = "failed"]
    /\ Passes(<<>>, FALSE, TRUE)
    /\ UNCHANGED <<history, outgoing, wire, parser>>

AnswerInit ==
    /\ history \in UNION {[1..n -> Message] : n \in 0..MaxHistory}
    /\ outgoing = <<>>
    /\ door \in [pc : {"ask"}, route : {"gateway", "proxy", "relay", "unavailable"},
                 key : {"none", "own", "unavailable"}, cloaked : BOOLEAN, bare : BOOLEAN, asked : {0}]
    /\ history # <<>> => door = [pc |-> "ask", route |-> "unavailable", key |-> "own",
                                 cloaked |-> FALSE, bare |-> FALSE, asked |-> 0]
    /\ wire = [words |-> 0, args |-> [i \in AnsCalls |-> 0], cur |-> 0, frames |-> 0, over |-> FALSE]
    /\ parser = [at |-> [x \in 0..1 |-> 0], started |-> {}, ended |-> {}]
    /\ restorer = NothingHeld
    /\ events = [open |-> 0, calls |-> <<>>, done |-> <<>>, words |-> 0]

AnswerNext ==
    \/ SendRequest
    \/ \E why \in {"ok", "unreachable", "busy", "refused", "timed_out", "spend_cap"} : DoorAnswers(why)
    \/ WordsFrame
    \/ \E id \in AnsCalls, fragment \in BOOLEAN : CallFrame(id, fragment)
    \/ FinishFrame \/ UnreadableFrame \/ BodyEnds \/ CutsOff

AnswerSpec == AnswerInit /\ [][AnswerNext]_answerVars

-----------------------------------------------------------------------------
\* What a request sends is what a provider takes: after a message that makes calls come
\* exactly one result for each of them before anything else, no result stands anywhere
\* else, and every real result of the history is there, as a result or as words.
EveryCallAnswered ==
    door.pc # "ask" =>
        /\ \A k \in DOMAIN outgoing :
             outgoing[k].role = "calls" =>
                LET n == Len(outgoing[k].ids)
                IN /\ k + n <= Len(outgoing)
                   /\ {outgoing[j].id : j \in {i \in k + 1..k + n : outgoing[i].role = "result"}}
                        = {outgoing[k].ids[i] : i \in 1..n}
        /\ Len(SelectSeq(outgoing, LAMBDA m : m.role = "result"))
             = FoldLeft(LAMBDA n, m : n + (IF m.role = "calls" THEN Len(m.ids) ELSE 0), 0, outgoing)
        /\ Len(SelectSeq(history, LAMBDA m : m.role = "tool"))
             = Len(SelectSeq(outgoing, LAMBDA m : m.role = "words" \/ (m.role = "result" /\ m.real)))

\* An answer that ended well runs every call the model made, once, each with all of its
\* arguments, and shows every word, whichever way the provider numbers its calls and
\* whatever the cloaked door held back.
CallsAreWhole ==
    door.pc = "answered" =>
        /\ events.words = wire.words
        /\ Len(events.done) = Cardinality(parser.started)
        /\ \A id \in parser.started :
             \E k \in DOMAIN events.done : events.done[k] = [id |-> id, args |-> wire.args[id]]

\* What holds at the model's door: requests answer every call they show, and an answer
\* that ended well is whole.
AnswersHold == EveryCallAnswered /\ CallsAreWhole
=============================================================================
