----------------------------- MODULE HeldSends ------------------------------
(***************************************************************************)
(* Messages queued on a thread (pending_user_message) and the turns that   *)
(* send them: a client's POST /ag-ui naming a queued message, a retry of a *)
(* run that ended, and the server's own send of what waited for the        *)
(* person's computer, when its relay connects.  One thread; every message  *)
(* is one that the person's computer answers.                              *)
(***************************************************************************)
EXTENDS Naturals, FiniteSets

CONSTANTS Msgs,         \* queued messages, oldest first: 1, 2, ..
          TurnRuns,     \* run ids a request may name
          Clients,      \* client requests under way
          Drains,       \* drain_held tasks under way
          MaxVer        \* bound: edits of one message

ASSUME HeldSendsAssumption == Msgs \subseteq Nat /\ MaxVer \in Nat /\ 0 \notin TurnRuns

VARIABLES
    row,        \* pending_user_message: status, version, the run it went to
    trun,       \* runs of the thread: none, live or ended
    up,         \* a relay of the account is connected
    mark,       \* relay.draining of the thread: off, on or again
    post,       \* turns under way
    drain,      \* drain_held tasks: none, or how far each is
    sent,       \* history: <<message, version, run, retried>> of turns claimed
    owed        \* history: what waited when the relay connected, until it
                \* goes or a send of the server's own is turned away

heldVars == <<row, trun, up, mark, post, drain, sent, owed>>

NoMsg == 0
NoRun == 0
Posts == Clients \cup Drains
NoPost == [pc |-> "none"]

HeldInit ==
    /\ row = [m \in Msgs |-> [st |-> "none", ver |-> 0, by |-> NoRun]]
    /\ trun = [r \in TurnRuns |-> "none"]
    /\ up = FALSE
    /\ mark = "off"
    /\ post = [q \in Posts |-> NoPost]
    /\ drain = [d \in Drains |-> "none"]
    /\ sent = {}
    /\ owed = {}

-----------------------------------------------------------------------------
(* The queue. *)

\* create: a second POST of the same clientMessageId changes nothing.
Enqueued(m) ==
    /\ row[m].st = "none"
    /\ \A n \in Msgs : n < m => row[n].st # "none"
    /\ row' = [row EXCEPT ![m].st = "pending"]
    /\ UNCHANGED <<trun, up, mark, post, drain, sent, owed>>

\* edit
Edited(m) ==
    /\ row[m].st = "pending" /\ row[m].ver < MaxVer
    /\ row' = [row EXCEPT ![m].ver = @ + 1]
    /\ UNCHANGED <<trun, up, mark, post, drain, sent, owed>>

\* cancel
Canceled(m) ==
    /\ row[m].st = "pending"
    /\ row' = [row EXCEPT ![m].st = "gone"]
    /\ UNCHANGED <<trun, up, mark, post, drain, sent, owed>>

-----------------------------------------------------------------------------
(* The turn. *)

\* turn: a client sends a queued message in the words it knows, under a run
\* id, naming the run it retries or none; Held::now is read on the way in.
TurnPosted(q, m, v, r, of) ==
    /\ q \in Clients
    /\ post[q] = NoPost
    /\ row[m].st # "none" /\ v <= row[m].ver
    /\ of # r
    /\ post' = [post EXCEPT ![q] =
          [pc |-> "drain", m |-> m, ver |-> v, run |-> r, of |-> of, held |-> ~up]]
    /\ UNCHANGED <<row, trun, up, mark, drain, sent, owed>>

\* A retry that trusts the client's word that the run is over.
EndedAsTold(r) == TRUE

\* ended_here: the run the message went to is over.
EndedHere(r) == trun[r] = "ended"

\* The post ends without a stream.
TellsRefusal(q) ==
    /\ post' = [post EXCEPT ![q] = NoPost]
    /\ owed' = IF q \in Drains THEN {} ELSE owed
    /\ drain' = [d \in Drains |-> IF d = q THEN "stop" ELSE drain[d]]

\* drain_pending_user_message, under the row's lock: retried, consumed by
\* another, stale (or held), already this run's, or drained into it.
TurnDrained(q) ==
    /\ post[q].pc = "drain"
    /\ LET p == post[q]
           r == row[p.m]
           retried == r.st = "drained" /\ p.of = r.by /\ EndedHere(r.by)
           fires == p.ver = r.ver /\ ~(p.held /\ r.st = "pending")
       IN IF retried \/ (r.st = "pending" /\ fires)
          THEN /\ row' = [row EXCEPT ![p.m].st = "drained", ![p.m].by = p.run]
               /\ post' = [post EXCEPT ![q].pc = "claim"]
               /\ UNCHANGED <<drain, owed>>
          ELSE IF r.st = "drained" /\ r.by = p.run /\ fires
          THEN /\ post' = [post EXCEPT ![q].pc = "claim"]
               /\ UNCHANGED <<row, drain, owed>>
          ELSE TellsRefusal(q) /\ UNCHANGED row
    /\ UNCHANGED <<trun, up, mark, sent>>

\* start_claimed_turn: journal.claim, or the answer for the run that exists.
TurnClaimed(q) ==
    /\ post[q].pc = "claim"
    /\ LET p == post[q] IN
          IF trun[p.run] = "none"
          THEN /\ trun' = [trun EXCEPT ![p.run] = "live"]
               /\ sent' = sent \cup {<<p.m, p.ver, p.run, p.of>>}
               /\ post' = [post EXCEPT ![q] = NoPost]
               /\ drain' = [d \in Drains |-> IF d = q THEN "stream" ELSE drain[d]]
               /\ UNCHANGED owed
          ELSE TellsRefusal(q) /\ UNCHANGED <<trun, sent>>
    /\ UNCHANGED <<row, up, mark>>

\* The turn ends before its claim: a plugin to connect first, a store that
\* cannot be read, a process that goes.
TurnLost(q) ==
    /\ post[q] # NoPost
    /\ TellsRefusal(q)
    /\ UNCHANGED <<row, trun, up, mark, sent>>

RunOver(r) ==
    /\ trun[r] = "live"
    /\ trun' = [trun EXCEPT ![r] = "ended"]
    /\ UNCHANGED <<row, up, mark, post, drain, sent, owed>>

-----------------------------------------------------------------------------
(* The server's own sends. *)

Pending == {m \in Msgs : row[m].st = "pending"}

\* A relay connects, and a task is started for what waited for it.
RelayConnected(d) ==
    /\ ~up /\ drain[d] = "none"
    /\ up' = TRUE
    /\ owed' = Pending
    /\ drain' = [drain EXCEPT ![d] = "list"]
    /\ UNCHANGED <<row, trun, mark, post, sent>>

RelayGone ==
    /\ up
    /\ up' = FALSE
    /\ owed' = {}
    /\ UNCHANGED <<row, trun, mark, post, drain, sent>>

\* A second task that simply goes away.
MarkedBusy == mark

\* Relay::draining: one task at a time; a second marks the first to look
\* again and goes.
MarkedAgain == IF mark = "off" THEN "on" ELSE "again"

\* drain_held: threads with something queued.
DrainListed(d) ==
    /\ drain[d] = "list"
    /\ IF Pending = {}
       THEN drain' = [drain EXCEPT ![d] = "none"] /\ UNCHANGED mark
       ELSE /\ mark' = MarkedAgain
            /\ drain' = [drain EXCEPT ![d] = IF mark = "off" THEN "send" ELSE "none"]
    /\ UNCHANGED <<row, trun, up, post, sent, owed>>

\* send_held: while a relay is connected and the thread is idle, the oldest
\* message goes out as a turn of its own.
DrainSent(d) ==
    /\ drain[d] = "send"
    /\ \/ /\ ~up \/ Pending = {}
          /\ drain' = [drain EXCEPT ![d] = "stop"]
          /\ UNCHANGED post
       \/ /\ up /\ \A r \in TurnRuns : trun[r] # "live"
          /\ \E m \in Pending, r \in TurnRuns :
                /\ \A n \in Pending : m <= n
                /\ trun[r] = "none" /\ \A n \in Msgs : row[n].by # r
                /\ post' = [post EXCEPT ![d] =
                      [pc |-> "drain", m |-> m, ver |-> row[m].ver, run |-> r,
                       of |-> NoRun, held |-> FALSE]]
                /\ drain' = [drain EXCEPT ![d] = "turn"]
    /\ UNCHANGED <<row, trun, up, mark, sent, owed>>

\* The stream of its turn ended; the next.
DrainStreamed(d) ==
    /\ drain[d] = "stream"
    /\ \A r \in TurnRuns : trun[r] # "live"
    /\ drain' = [drain EXCEPT ![d] = "send"]
    /\ UNCHANGED <<row, trun, up, mark, post, sent, owed>>

\* Relay::drained: again, if somebody asked for that, or done.
DrainStopped(d) ==
    /\ drain[d] = "stop"
    /\ mark' = IF mark = "again" THEN "on" ELSE "off"
    /\ drain' = [drain EXCEPT ![d] = IF mark = "again" THEN "send" ELSE "none"]
    /\ UNCHANGED <<row, trun, up, post, sent, owed>>

HeldNext ==
    \/ \E m \in Msgs : Enqueued(m) \/ Edited(m) \/ Canceled(m)
    \/ \E q \in Clients, m \in Msgs, v \in 0 .. MaxVer, r \in TurnRuns,
          of \in TurnRuns \cup {NoRun} : TurnPosted(q, m, v, r, of)
    \/ \E q \in Posts : TurnDrained(q) \/ TurnClaimed(q) \/ TurnLost(q)
    \/ \E r \in TurnRuns : RunOver(r)
    \/ \E d \in Drains : RelayConnected(d) \/ DrainListed(d) \/ DrainSent(d)
                         \/ DrainStreamed(d) \/ DrainStopped(d)
    \/ RelayGone

HeldSpec == HeldInit /\ [][HeldNext]_heldVars

-----------------------------------------------------------------------------
\* A queued message is answered by one run at a time, in the words it was
\* queued with: whatever clients, retries and the server's own sends do at
\* once, two runs that carry it are never both live, and a run that took it
\* from the queue never carries words the person had since changed.  (A retry
\* is not matched against the row and may.)
OneRunCarriesIt ==
    /\ \A s, t \in sent :
          s[1] = t[1] /\ s[3] # t[3] => "ended" \in {trun[s[3]], trun[t[3]]}
    /\ \A s \in sent : s[4] = NoRun => s[2] = row[s[1]].ver

\* The wake-up of the server's own sends is never lost: while the relay stays
\* connected, a message that waited when it connected has a task under way
\* that will come to it, unless a send was turned away.
NoWakeupLost ==
    owed \cap Pending # {} => \E d \in Drains : drain[d] # "none"

\* What holds of queued messages: one run carries each, and none is forgotten.
SendsHold == OneRunCarriesIt /\ NoWakeupLost
=============================================================================
