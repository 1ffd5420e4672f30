------------------------------- MODULE Pairs -------------------------------
(***************************************************************************)
(* Bots of one person messaging each other (opengrok-server/src/pairs.rs   *)
(* over opengrok-store/src/pairs.rs).  A message_bot call writes rows to   *)
(* the bot_message outbox; a drain claims a pair's next row and fires the  *)
(* run the row names; the recovery sweep drains again and fires the rows   *)
(* whose drain died.  Everything spawned (drains, firings, loops) lives in *)
(* the server's memory and dies with it; the outbox and the runs do not.   *)
(*                                                                         *)
(* A message id is also the id of the run it starts.  Ids are handed out   *)
(* when a call is composed, in the order of (created_at_ms, uuid v7), the  *)
(* order the claim reads them in.  The chat run of Bot b is named b.  What *)
(* is said, names and labels are left out; the ceiling and the roster only *)
(* decide whether a call is composed at all, so they are the choice of     *)
(* composing one.  The caps are one person's, so there is one person.      *)
(***************************************************************************)
EXTENDS Integers, FiniteSets, FiniteSetsExt

CONSTANTS
    Bots,       \* the person's Bots
    Chats,      \* the Bots with a turn going on in their main chat
    MaxMsgs,    \* bound: message ids handed out
    MaxCalls,   \* bound: message_bot calls of one run
    MaxHops,    \* message_bot::MAX_HOPS
    PerChain,   \* message_bot::PER_CHAIN
    PerHour,    \* message_bot::PER_HOUR
    Hour,       \* how many ticks of the clock an hour is
    MaxTime,    \* bound: the clock
    Batch,      \* how many pairs, and how many claimed rows, one sweep takes
    MaxTasks,   \* bound: drains of one pair, and firings of one row, at once
    MaxFaults   \* bound: crashes and store errors

ASSUME PairsAssumption ==
    /\ IsFiniteSet(Bots) /\ Chats \subseteq Bots /\ Bots \cap Int = {}
    /\ {MaxMsgs, MaxCalls, MaxHops, PerChain, PerHour, MaxTime, MaxFaults} \subseteq Nat
    /\ {Hour, Batch, MaxTasks} \subseteq Nat \ {0}

VARIABLES
    next,       \* the next message id
    row,        \* the outbox: what each written message is
    state,      \* its state column; "none" until the row is written
    noted,      \* the timeline rows of the senders' chats, by run and call
    stale,      \* claimed rows whose START_GRACE_MS has passed
    status,     \* run_view: "none" until a run's Started commits
    working,    \* runs with a loop in memory
    calls,      \* how many message_bot calls each run has made
    sends,      \* calls composed and not yet written
    drains,     \* drains spawned, by pair
    fires,      \* firings spawned and not yet at their claim, by row
    refusing,   \* rows whose refusal has claimed the run and not recorded its end
    clock, faults

outbox == <<next, row, state, noted, stale>>
memory == <<working, sends, drains, fires, refusing>>
vars == <<outbox, status, memory, calls, clock, faults>>

Ids == 1..MaxMsgs
Runs == Chats \cup Ids
Pairings == {{a, b} : a, b \in Bots} \ {{a} : a \in Bots}
Live == {"running", "parked"}

(* BotMessageRow, less its id and its state column *)
Rows == [from : Bots, to : Bots, by : Runs, call : 1..MaxCalls,
         chain : Runs, hop : 1..MaxHops, at : 0..MaxTime]

Send == [by : Runs, call : 1..MaxCalls, ids : UNION {[to -> Ids] : to \in SUBSET Bots},
         chain : Runs, hop : 1..MaxHops, at : 0..MaxTime]

Written == {id \in Ids : state[id] # "none"}

(* pair_thread: one thread for the two, whichever writes *)
PairOf(id) == {row[id].from, row[id].to}

InPair(p) == {id \in Written : PairOf(id) = p}

BotOf(r) == IF r \in Chats THEN r ELSE row[r].to

(* sending: the hop and the chain are those of the message that started the run *)
HopOf(r) == IF r \in Chats THEN 0 ELSE row[r].hop
ChainOf(r) == IF r \in Chats THEN r ELSE row[r].chain

Init ==
    /\ next = 1
    /\ row = <<>>
    /\ state = [id \in Ids |-> "none"]
    /\ noted = {}
    /\ stale = {}
    /\ status = [r \in Runs |-> IF r \in Chats THEN "running" ELSE "none"]
    /\ working = Chats
    /\ calls = [r \in Runs |-> 0]
    /\ sends = {}
    /\ drains = [p \in Pairings |-> 0]
    /\ fires = [id \in Ids |-> 0]
    /\ refusing = {}
    /\ clock = 0
    /\ faults = 0

Fault == /\ faults < MaxFaults
         /\ faults' = faults + 1

(* drain_soon; past MaxTasks waiting drains one more would find what they find *)
Asked(p) == Min({drains[p] + 1, MaxTasks})
Ask(ps) == drains' = [p \in Pairings |-> IF p \in ps THEN Asked(p) ELSE drains[p]]

(* ended: the pair of a run that has just ended is drained; a chat is no pair *)
Ended(r) == Ask(IF r \in Chats THEN {} ELSE {PairOf(r)})

---------------------------------------------------------------------------
(* Sending *)

(* as if the limit itself were allowed *)
UnderTheLimitLate(r) == HopOf(r) <= MaxHops

(* What hop a call may be made at: under_the_limit *)
UnderTheLimit(r) == HopOf(r) < MaxHops

(* the rows a call has written *)
Sent(r, c) == {id \in Written : row[id].by = r /\ row[id].call = c}

(* Mail::send up to its transaction: hop, chain and clock are read, ids are
   taken.  A loop runs its calls one after the other.  The call is the run's next
   one, or its last: a sender resumed after its call ran carries the same call
   out again, to the same Bots. *)
Compose(r, c, to) ==
    /\ r \in working
    /\ \A s \in sends : s.by # r
    /\ UnderTheLimit(r)
    /\ to # {} /\ BotOf(r) \notin to
    /\ c \in {calls[r], calls[r] + 1} \cap (1..MaxCalls)
    /\ Sent(r, c) # {} => to = {row[id].to : id \in Sent(r, c)}
    /\ next + Cardinality(to) <= MaxMsgs + 1
    /\ \E ids \in [to -> next..(next + Cardinality(to) - 1)] :
          /\ \A a, b \in to : a # b => ids[a] # ids[b]
          /\ sends' = sends \cup {[by |-> r, call |-> c, ids |-> ids, chain |-> ChainOf(r),
                                   hop |-> HopOf(r) + 1, at |-> clock]}
    /\ next' = next + Cardinality(to)
    /\ calls' = [calls EXCEPT ![r] = c]
    /\ UNCHANGED <<row, state, noted, stale, status, working, drains, fires, refusing, clock, faults>>

(* as if a call carried out again were a new one *)
FreshAll(s) == DOMAIN s.ids

(* the receivers of a composed call that have no row yet *)
Fresh(s) == {b \in DOMAIN s.ids : \A id \in Sent(s.by, s.call) : row[id].to # b}

(* rows of the chain, and of the hour before the call was composed, under the owner's lock *)
InChain(s) == {id \in Written : row[id].chain = s.chain}
InHour(s) == {id \in Written : row[id].at > s.at - Hour}

(* as if a call counted for one in its chain, whatever it names *)
CappedByOne(s) ==
    /\ Fresh(s) # {}
    /\ \/ Cardinality(InChain(s)) + 1 > PerChain
       \/ Cardinality(InHour(s)) + Cardinality(Fresh(s)) > PerHour

(* as if only the chain were counted *)
CappedInChain(s) ==
    /\ Fresh(s) # {}
    /\ Cardinality(InChain(s)) + Cardinality(Fresh(s)) > PerChain

Capped(s) ==
    /\ Fresh(s) # {}
    /\ \/ Cardinality(InChain(s)) + Cardinality(Fresh(s)) > PerChain
       \/ Cardinality(InHour(s)) + Cardinality(Fresh(s)) > PerHour

RowOf(s, b) == [from |-> BotOf(s.by), to |-> b, by |-> s.by, call |-> s.call,
                chain |-> s.chain, hop |-> s.hop, at |-> s.at]

(* enqueue_bot_messages: all of the call's new rows and its timeline row, or
   none; then each receiver's pair is asked to drain, its row new or found *)
Enqueue(s) ==
    /\ s \in sends
    /\ sends' = sends \ {s}
    /\ IF Capped(s)
       THEN UNCHANGED <<row, state, noted, drains>>
       ELSE LET new == {s.ids[b] : b \in Fresh(s)}
                who(id) == CHOOSE b \in Fresh(s) : s.ids[b] = id
            IN /\ row' = [id \in Written \cup new |->
                             IF id \in new THEN RowOf(s, who(id)) ELSE row[id]]
               /\ state' = [id \in Ids |-> IF id \in new THEN "queued" ELSE state[id]]
               /\ noted' = noted \cup {<<s.by, s.call>>}
               /\ Ask({{BotOf(s.by), b} : b \in DOMAIN s.ids})
    /\ UNCHANGED <<next, stale, status, working, fires, refusing, calls, clock, faults>>

(* the transaction fails: nothing is written and the call is told so *)
EnqueueFails(s) ==
    /\ s \in sends
    /\ Fault
    /\ sends' = sends \ {s}
    /\ UNCHANGED <<outbox, status, working, drains, fires, refusing, calls, clock>>

---------------------------------------------------------------------------
(* Draining *)

(* as if a claimed row whose run has not begun did not hold its pair *)
BusyRunning(p) == \E id \in InPair(p) : state[id] = "started" /\ status[id] \in Live

(* claim_pair_message: claimed, and its run not begun, running or parked *)
Busy(p) == \E id \in InPair(p) : state[id] = "started" /\ status[id] # "ended"

Queued(p) == {id \in InPair(p) : state[id] = "queued"}

(* as if the claim read the newest first *)
Newest(p) == Max(Queued(p))

(* the row a claim takes: order by created_at_ms, id limit 1 *)
Oldest(p) == Min(Queued(p))

(* drain: the claim, under the pair's lock, and the claimed row's firing *)
Drain(p) ==
    /\ drains[p] > 0
    /\ drains' = [drains EXCEPT ![p] = @ - 1]
    /\ IF Busy(p) \/ Queued(p) = {}
       THEN UNCHANGED <<state, fires>>
       ELSE /\ state' = [state EXCEPT ![Oldest(p)] = "started"]
            /\ fires' = [fires EXCEPT ![Oldest(p)] = 1]
    /\ UNCHANGED <<next, row, noted, stale, status, working, sends, refusing, calls, clock, faults>>

(* the store does not answer: the pair is left to the sweep *)
DrainFails(p) ==
    /\ drains[p] > 0
    /\ Fault
    /\ drains' = [drains EXCEPT ![p] = @ - 1]
    /\ UNCHANGED <<outbox, status, working, sends, fires, refusing, calls, clock>>

(* START_GRACE_MS after a claim whose run has not begun *)
GracePasses(id) ==
    /\ state[id] = "started"
    /\ status[id] = "none"
    /\ id \notin stale
    /\ stale' = stale \cup {id}
    /\ UNCHANGED <<next, row, state, noted, status, memory, calls, clock, faults>>

(* pairs_to_sweep: the pairs that wait, and the claimed rows that stalled *)
Waiting == {p \in Pairings : Queued(p) # {}}
Stalled == {id \in stale : state[id] = "started" /\ status[id] = "none"}

(* the longest waiting first, at most Batch of them *)
SweptPairs == {p \in Waiting :
                  Cardinality({q \in Waiting : Oldest(q) < Oldest(p)}) < Batch}

(* as if the sweep only drained *)
SweepDrains ==
    /\ Ask(SweptPairs)
    /\ UNCHANGED <<outbox, status, working, sends, fires, refusing, calls, clock, faults>>

(* sweep: fires what stalled (which Batch of them is left open: when each was
   claimed is not kept) and drains the pairs that wait *)
Sweep ==
    /\ \E due \in SUBSET Stalled :
          /\ Cardinality(due) = Min({Cardinality(Stalled), Batch})
          /\ fires' = [id \in Ids |-> IF id \in due THEN Min({fires[id] + 1, MaxTasks})
                                                    ELSE fires[id]]
    /\ Ask(SweptPairs)
    /\ UNCHANGED <<outbox, status, working, sends, refusing, calls, clock, faults>>

---------------------------------------------------------------------------
(* Firing a claimed row: autonomy::fire up to and with its claim of the run *)

Fires(id) == /\ fires[id] > 0
             /\ fires' = [fires EXCEPT ![id] = @ - 1]

(* as if a claim did not look whether the run was started *)
ClaimsBlind(id) == status' = [status EXCEPT ![id] = "running"]

(* StoreJournal::claim: the first Started to commit has the run *)
Claims(id) ==
    /\ status[id] = "none"
    /\ status' = [status EXCEPT ![id] = "running"]

FireBegins(id) ==
    /\ Fires(id)
    /\ Claims(id)
    /\ working' = working \cup {id}
    /\ UNCHANGED <<outbox, sends, drains, refusing, calls, clock, faults>>

(* another firing has it, or the store did not answer *)
FireEndsHere(id) ==
    /\ Fires(id)
    /\ \/ status[id] # "none" /\ UNCHANGED faults
       \/ Fault
    /\ UNCHANGED <<outbox, status, working, sends, drains, refusing, calls, clock>>

(* refused: policy, a retired Bot, limits or an opening that cannot be read;
   the refusal takes the run with the same claim *)
FireRefuses(id) ==
    /\ Fires(id)
    /\ Claims(id)
    /\ refusing' = refusing \cup {id}
    /\ UNCHANGED <<outbox, working, sends, drains, calls, clock, faults>>

(* its start and failure frames; unwritten, they leave the run to recovery *)
RecordRefusal(id) ==
    /\ id \in refusing
    /\ refusing' = refusing \ {id}
    /\ \/ /\ status' = [status EXCEPT ![id] = "ended"]
          /\ Ended(id)
          /\ UNCHANGED faults
       \/ /\ Fault
          /\ UNCHANGED <<status, drains>>
    /\ UNCHANGED <<outbox, working, sends, fires, calls, clock>>

---------------------------------------------------------------------------
(* The runs, as far as a pair sees them: RunProtocol models them in full *)

Parks(r) ==
    /\ r \in working /\ status[r] = "running"
    /\ \A s \in sends : s.by # r
    /\ status' = [status EXCEPT ![r] = "parked"]
    /\ working' = working \ {r}
    /\ UNCHANGED <<outbox, sends, drains, fires, refusing, calls, clock, faults>>

Answered(r) ==
    /\ status[r] = "parked"
    /\ status' = [status EXCEPT ![r] = "running"]
    /\ working' = working \cup {r}
    /\ UNCHANGED <<outbox, sends, drains, fires, refusing, calls, clock, faults>>

(* the loop ends; a run stopped under it keeps its ending *)
Ends(r) ==
    /\ r \in working
    /\ \A s \in sends : s.by # r
    /\ working' = working \ {r}
    /\ status' = [status EXCEPT ![r] = "ended"]
    /\ IF status[r] = "ended" THEN UNCHANGED drains ELSE Ended(r)
    /\ UNCHANGED <<outbox, sends, fires, refusing, calls, clock, faults>>

(* a Stop, or a parked run interrupted: the loop, if any, is not waited for *)
Stops(r) ==
    /\ status[r] \in Live
    /\ r \notin refusing
    /\ status' = [status EXCEPT ![r] = "ended"]
    /\ Ended(r)
    /\ UNCHANGED <<outbox, working, sends, fires, refusing, calls, clock, faults>>

(* the recovery sweep's verdict on a run nobody works: carried on, or failed.
   A refusal writes its two frames well inside the lease. *)
Recovers(r) ==
    /\ status[r] = "running"
    /\ r \notin working \cup refusing
    /\ \/ /\ working' = working \cup {r}
          /\ UNCHANGED <<status, drains>>
       \/ /\ status' = [status EXCEPT ![r] = "ended"]
          /\ Ended(r)
          /\ UNCHANGED working
    /\ UNCHANGED <<outbox, sends, fires, refusing, calls, clock, faults>>

(* the server dies with everything it had spawned *)
Crash ==
    /\ Fault
    /\ working' = {}
    /\ sends' = {}
    /\ drains' = [p \in Pairings |-> 0]
    /\ fires' = [id \in Ids |-> 0]
    /\ refusing' = {}
    /\ UNCHANGED <<outbox, status, calls, clock>>

Tick ==
    /\ clock < MaxTime
    /\ clock' = clock + 1
    /\ UNCHANGED <<outbox, status, memory, calls, faults>>

---------------------------------------------------------------------------
SendNext == \/ \E r \in Runs, c \in 1..MaxCalls, to \in SUBSET Bots : Compose(r, c, to)
            \/ \E s \in sends : Enqueue(s) \/ EnqueueFails(s)

DrainNext == \/ \E p \in Pairings : Drain(p) \/ DrainFails(p)
             \/ \E id \in Ids : GracePasses(id)
             \/ Sweep

FireNext == \E id \in Ids : \/ FireBegins(id) \/ FireEndsHere(id)
                            \/ FireRefuses(id) \/ RecordRefusal(id)

RunNext == \E r \in Runs : Parks(r) \/ Answered(r) \/ Ends(r) \/ Stops(r) \/ Recovers(r)

Next == SendNext \/ DrainNext \/ FireNext \/ RunNext \/ Crash \/ Tick

Spec == Init /\ [][Next]_vars

(* Tasks that were spawned run; the sweep comes every SWEEP_INTERVAL; loops end
   or park, as HarnessLoop shows; recovery takes up what nobody works.  Nothing
   is assumed of people, of crashes or of the store's errors. *)
Fairness ==
    /\ WF_vars(Sweep)
    /\ \A p \in Pairings : WF_vars(Drain(p))
    /\ \A id \in Ids : /\ WF_vars(GracePasses(id))
                       /\ WF_vars(FireBegins(id) \/ FireRefuses(id) \/ FireEndsHere(id))
                       /\ WF_vars(RecordRefusal(id))
    /\ \A r \in Runs : WF_vars(Ends(r)) /\ WF_vars(Recovers(r))
    /\ WF_vars(\E s \in sends : Enqueue(s))

FairSpec == Spec /\ Fairness

---------------------------------------------------------------------------
(* The outbox and memory have their shape: no message is deeper than MAX_HOPS, and no
   more drains or firings are spawned than are counted. *)
TypeOK ==
    /\ next \in 1..(MaxMsgs + 1)
    /\ state \in [Ids -> {"none", "queued", "started"}]
    /\ row \in [Written -> Rows]
    /\ noted \subseteq Runs \X (1..MaxCalls)
    /\ stale \subseteq Ids
    /\ status \in [Runs -> {"none", "running", "parked", "ended"}]
    /\ working \subseteq Runs
    /\ calls \in [Runs -> 0..MaxCalls]
    /\ sends \subseteq Send
    /\ drains \in [Pairings -> 0..MaxTasks]
    /\ fires \in [Ids -> 0..MaxTasks]
    /\ refusing \subseteq Ids
    /\ clock \in 0..MaxTime
    /\ faults \in 0..MaxFaults

(* ONE AT A TIME: of the runs a pair's messages start, at most one is in flight,
   whoever drained the pair: the send, an ending, the sweep or a crash's
   aftermath (claim_pair_message). *)
OnePerPair ==
    \A i, j \in Written :
        i # j /\ PairOf(i) = PairOf(j) => ~(status[i] \in Live /\ status[j] \in Live)

(* A MESSAGE IS HAD ONCE: a call carried out again after a resume leaves the
   rows, and so the runs, it wrote the first time (enqueue_bot_messages). *)
SentOnce ==
    \A i, j \in Written :
        row[i].by = row[j].by /\ row[i].call = row[j].call /\ row[i].to = row[j].to => i = j

(* IN THE ORDER THEY WERE SENT: of the messages one run sends to one Bot, none
   is started before an earlier one. *)
InOrder ==
    \A i, j \in Written :
        /\ i < j /\ row[i].by = row[j].by /\ row[i].to = row[j].to
        /\ state[j] = "started"
        => state[i] = "started"

(* THE CHAIN IS BOUNDED: in depth by MAX_HOPS, each message one deeper than the
   one that started its sender, and in all by PER_CHAIN, every send counted. *)
ChainBound ==
    /\ \A id \in Written :
          LET by == row[id].by
          IN /\ row[id].hop <= MaxHops
             /\ by \in Chats => row[id].hop = 1 /\ row[id].chain = by
             /\ by \in Ids => /\ by \in Written
                              /\ row[id].hop = row[by].hop + 1
                              /\ row[id].chain = row[by].chain
    /\ \A c \in Runs : Cardinality({id \in Written : row[id].chain = c}) <= PerChain

(* "The most messages one person's Bots may send in any hour": in no window of
   an hour more than PER_HOUR, though the clock is read before the lock. *)
HourBound ==
    \A t \in (0 - Hour)..MaxTime :
        Cardinality({id \in Written : row[id].at > t /\ row[id].at <= t + Hour}) <= PerHour

(* NEVER BOTH REFUSED AND ANSWERED: a drain's firing and the sweep's, of one
   row, do not both take it. *)
OneFiring == working \cap refusing = {}

(* EVERY MESSAGE IS ANSWERED: a written message's run begins, unless its pair is
   left waiting on a person's card. *)
Delivered ==
    \A id \in Ids :
        (id \in Written) ~> \/ status[id] # "none"
                            \/ \E j \in Written : /\ id \in Written
                                                /\ PairOf(j) = PairOf(id)
                                                /\ status[j] = "parked"

(* What holds of messages between Bots: one at a time in a pair, each had once and
   in order, fired once, and bounded by chain and hour. *)
PairsHold ==
    /\ TypeOK
    /\ OnePerPair /\ SentOnce /\ InOrder /\ OneFiring
    /\ ChainBound /\ HourBound
============================================================================
