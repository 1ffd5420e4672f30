-------------------------------- MODULE Relay --------------------------------
(***************************************************************************)
(* A person's own computers as the way to their own plan: the rows that    *)
(* enrol, revoke and switch them, the stream each holds open to one        *)
(* replica, and the calls a turn sends down it (harness/relay.rs,          *)
(* inference.rs, local_proxy.rs).  A computer is a number, a token the     *)
(* number of its enrolment.                                                *)
(***************************************************************************)
EXTENDS Naturals, FiniteSets

CONSTANTS Macs,          \* the account's computers
          Openers,       \* requests that open a stream
          Clerks,        \* requests of the person: enrol, revoke, switch
          RelayTurns,    \* turns on the person's plan
          MaxInFlight,   \* MAX_IN_FLIGHT
          MaxEnrol,      \* bound: computer m is enrolled at most MaxEnrol - m times
          MaxOpened      \* bound: streams opened

ASSUME RelayAssumption ==
    Macs \subseteq Nat \ {0} /\ MaxInFlight \in Nat \ {0} /\ "nobody" \notin Clerks

VARIABLES
    mac,      \* local_exec_daemon: token, revoked, relay_enabled
    locked,   \* who holds the account's relay lock, or "nobody"
    offAll,   \* history: every computer was switched off, none on since
    held,     \* RelayBroker.macs: whose stream, and whether its end still listens
    opened,   \* State.opened
    opener,   \* streams being opened
    clerk,    \* the person's requests in flight
    relayed   \* turns: where each stands with its call

relayVars == <<mac, locked, offAll, held, opened, opener, clerk, relayed>>

Unenrolled == [tok |-> 0, revoked |-> FALSE, on |-> FALSE]
NoStream == [open |-> FALSE, tok |-> 0, at |-> 0]
RelayIdle == [pc |-> "idle"]
RelayFresh == [pc |-> "idle", run |-> "fresh", on |-> {}, to |-> 0, taken |-> FALSE,
               stopped |-> FALSE, told |-> 0]

RelayInit ==
    /\ mac = [m \in Macs |-> Unenrolled]
    /\ locked = "nobody" /\ offAll = FALSE
    /\ held = [m \in Macs |-> NoStream] /\ opened = 0
    /\ opener = [o \in Openers |-> RelayIdle]
    /\ clerk = [k \in Clerks |-> RelayIdle]
    /\ relayed = [t \in RelayTurns |-> RelayFresh]

InUse == {m \in Macs : mac[m].tok > 0 /\ ~mac[m].revoked}
SwitchedOn == {m \in InUse : mac[m].on}

-----------------------------------------------------------------------------
(* The rows. *)

LockIgnored == TRUE
LockFree == locked = "nobody"

\* enrol_daemon: under the account's lock, the others' switches read ..
EnrolReads(k, m) ==
    /\ clerk[k] = RelayIdle /\ LockFree /\ mac[m].tok + m < MaxEnrol
    /\ locked' = k
    /\ clerk' = [clerk EXCEPT ![k] =
          [pc |-> "enrol", m |-> m, on |-> InUse = {} \/ SwitchedOn # {}]]
    /\ offAll' = (offAll /\ InUse # {})
    /\ UNCHANGED <<mac, held, opened, opener, relayed>>

\* .. and the row written: one in use keeps its own switch.
EnrolWrites(k) ==
    /\ clerk[k].pc = "enrol"
    /\ LET m == clerk[k].m
       IN  /\ mac' = [mac EXCEPT ![m] =
                 [tok |-> @.tok + 1, revoked |-> FALSE,
                  on |-> IF m \in InUse THEN @.on ELSE clerk[k].on]]
           /\ clerk' = [clerk EXCEPT ![k] = [pc |-> "close", ms |-> {m}]]
    /\ locked' = "nobody"
    /\ UNCHANGED <<offAll, held, opened, opener, relayed>>

\* revoke_daemon
Revoked(k, m) ==
    /\ clerk[k] = RelayIdle /\ LockFree /\ mac[m].tok > 0
    /\ mac' = [mac EXCEPT ![m].revoked = TRUE]
    /\ clerk' = [clerk EXCEPT ![k] = [pc |-> "close", ms |-> {m}]]
    /\ UNCHANGED <<locked, offAll, held, opened, opener, relayed>>

\* set_relay: one computer, no lock; a revoked one is left as it is.
SwitchedOne(k, m, on) ==
    /\ clerk[k] = RelayIdle /\ m \in InUse
    /\ mac' = [mac EXCEPT ![m].on = on]
    /\ offAll' = (offAll /\ ~on)
    /\ clerk' = [clerk EXCEPT ![k] = IF on THEN RelayIdle ELSE [pc |-> "close", ms |-> {m}]]
    /\ UNCHANGED <<locked, held, opened, opener, relayed>>

\* save, switch_every: the account's setting, then every row at once.
SwitchedEvery(k, on) ==
    /\ clerk[k] = RelayIdle /\ LockFree
    /\ LET rows == {m \in Macs : mac[m].tok > 0}
       IN  /\ mac' = [m \in Macs |-> IF m \in rows THEN [mac[m] EXCEPT !.on = on] ELSE mac[m]]
           /\ clerk' = [clerk EXCEPT ![k] = IF on THEN RelayIdle ELSE [pc |-> "close", ms |-> rows]]
    /\ offAll' = (~on /\ InUse # {})
    /\ UNCHANGED <<locked, held, opened, opener, relayed>>

\* disconnect, disable: after the row, its stream out of the broker.
Closed(k) ==
    /\ clerk[k].pc = "close"
    /\ held' = [m \in Macs |-> IF m \in clerk[k].ms THEN NoStream ELSE held[m]]
    /\ clerk' = [clerk EXCEPT ![k] = RelayIdle]
    /\ UNCHANGED <<mac, locked, offAll, opened, opener, relayed>>

-----------------------------------------------------------------------------
(* The streams. *)

\* daemon_from_bearer, relaying: the token the row names, not revoked, the
\* relay on.
TokenServes(m, tok) == mac[m].tok = tok /\ ~mac[m].revoked /\ mac[m].on

OpensChecked(o, m) ==
    /\ opener[o] = RelayIdle /\ opened < MaxOpened
    /\ \E tok \in 1 .. mac[m].tok :
          /\ TokenServes(m, tok)
          /\ opener' = [opener EXCEPT ![o] = [pc |-> "connect", m |-> m, tok |-> tok]]
    /\ UNCHANGED <<mac, locked, offAll, held, opened, clerk, relayed>>

\* connect: the latest wins, the one it replaces is told and ends.
Connects(o) ==
    /\ opener[o].pc = "connect" /\ opened < MaxOpened
    /\ opened' = opened + 1
    /\ held' = [held EXCEPT ![opener[o].m] =
                    [open |-> TRUE, tok |-> opener[o].tok, at |-> opened + 1]]
    /\ opener' = [opener EXCEPT ![o] = [pc |-> "recheck", m |-> @.m, tok |-> @.tok, at |-> opened + 1]]
    /\ UNCHANGED <<mac, locked, offAll, clerk, relayed>>

RechecksNot(m, tok) == TRUE
Rechecks(m, tok) == TokenServes(m, tok)

\* relay_requests asks the row once more; refused, the stream is dropped.
OpensRechecked(o) ==
    /\ opener[o].pc = "recheck"
    /\ LET q == opener[o]
       IN  held' = IF ~Rechecks(q.m, q.tok) /\ held[q.m].at = q.at
                   THEN [held EXCEPT ![q.m].open = FALSE] ELSE held
    /\ opener' = [opener EXCEPT ![o] = RelayIdle]
    /\ UNCHANGED <<mac, locked, offAll, opened, clerk, relayed>>

HangsUp(m) ==
    /\ held[m].open
    /\ held' = [held EXCEPT ![m].open = FALSE]
    /\ UNCHANGED <<mac, locked, offAll, opened, opener, clerk, relayed>>

-----------------------------------------------------------------------------
(* The calls of a turn. *)

\* route, resumed: the switches as the turn reads them.  None on: a first turn
\* goes to the fallback the person named, a resumed one is not sent.
Routed(t) ==
    /\ relayed[t].pc = "idle"
    /\ relayed' = [relayed EXCEPT ![t].pc = IF SwitchedOn # {} THEN "ask"
                                            ELSE IF relayed[t].run = "fresh" THEN "fallback" ELSE "over",
                                  ![t].on = SwitchedOn]
    /\ UNCHANGED <<mac, locked, offAll, held, opened, opener, clerk>>

\* latest
LatestOf(on) ==
    LET live == {m \in on : held[m].open}
    IN  {m \in live : \A n \in live : held[n].at <= held[m].at}

InFlight(m) == {t \in RelayTurns : relayed[t].pc = "wait" /\ relayed[t].to = m}

\* ask: offline, or the one picked is busy: the turn ends there.
Asked(t) ==
    /\ relayed[t].pc = "ask"
    /\ relayed' = [relayed EXCEPT ![t] =
          LET to == LatestOf(@.on)
              m == CHOOSE n \in to : TRUE
          IN  IF to = {} \/ (Cardinality(InFlight(m)) >= MaxInFlight)
              THEN [@ EXCEPT !.pc = "over"]
              ELSE [@ EXCEPT !.pc = "wait", !.to = m, !.taken = FALSE, !.stopped = FALSE,
                             !.told = 0]]
    /\ UNCHANGED <<mac, locked, offAll, held, opened, opener, clerk>>

\* answer: the POST of the computer it was sent to, by a token the row names;
\* taken once.
AnswersFrame(t, m) ==
    /\ relayed[t].pc = "wait" /\ m \in InUse
    /\ relayed[t].to = m /\ ~relayed[t].taken
    /\ relayed' = [relayed EXCEPT ![t].taken = TRUE]
    /\ UNCHANGED <<mac, locked, offAll, held, opened, opener, clerk>>

ForgottenAgain(call, cancel) ==
    [call EXCEPT !.pc = "over", !.told = IF cancel /\ held[call.to].at > 0 THEN @ + 1 ELSE @]

\* forget: told to cancel, unless the stop did.
Forgotten(call, cancel) ==
    LET tells == cancel /\ ~call.stopped
    IN  [call EXCEPT !.pc = "over",
                     !.told = IF tells /\ held[call.to].at > 0 THEN @ + 1 ELSE @]

\* Call::bytes: the answer's end, its failure, or nothing for the clock's time;
\* and a turn dropped where it stands.
CallEnds(t, finished) ==
    /\ relayed[t].pc = "wait"
    /\ finished => relayed[t].taken
    /\ relayed' = [relayed EXCEPT ![t] = Forgotten(@, ~finished)]
    /\ UNCHANGED <<mac, locked, offAll, held, opened, opener, clerk>>

\* stop: told to cancel here, and the call ends when it notices.
RelayStopped(t) ==
    /\ relayed[t].pc = "wait" /\ ~relayed[t].stopped
    /\ relayed' = [relayed EXCEPT ![t].stopped = TRUE,
                                  ![t].told = IF held[relayed[t].to].at > 0 THEN @ + 1 ELSE @]
    /\ UNCHANGED <<mac, locked, offAll, held, opened, opener, clerk>>

\* The run goes on after a call: another, on the plan it began with.
RunResumes(t) ==
    /\ relayed[t].pc = "over" /\ relayed[t].run = "fresh"
    /\ relayed' = [relayed EXCEPT ![t] = [RelayFresh EXCEPT !.run = "resumed"]]
    /\ UNCHANGED <<mac, locked, offAll, held, opened, opener, clerk>>

RelayNext ==
    \/ \E k \in Clerks : \/ EnrolWrites(k) \/ Closed(k)
                         \/ \E on \in BOOLEAN : SwitchedEvery(k, on)
                         \/ \E m \in Macs : \/ EnrolReads(k, m) \/ Revoked(k, m)
                                            \/ \E on \in BOOLEAN : SwitchedOne(k, m, on)
    \/ \E o \in Openers : Connects(o) \/ OpensRechecked(o) \/ \E m \in Macs : OpensChecked(o, m)
    \/ \E m \in Macs : HangsUp(m)
    \/ \E t \in RelayTurns : \/ Routed(t) \/ Asked(t) \/ RelayStopped(t) \/ RunResumes(t)
                             \/ \E m \in Macs : AnswersFrame(t, m)
                             \/ \E finished \in BOOLEAN : CallEnds(t, finished)

RelaySpec == RelayInit /\ [][RelayNext]_relayVars

-----------------------------------------------------------------------------
\* "RELAY OFF STICKS" (enrol_daemon): after every computer was switched off, no
\* enrolment, however it races the switch, brings one up with its relay on.
\* A stream that stays open belongs to the token its computer has now, with its
\* relay on, once the requests that changed either have closed what they close
\* and the opening ones have looked again.
OffSticks ==
    /\ offAll => SwitchedOn = {}
    /\ \A m \in Macs :
          held[m].open =>
             \/ TokenServes(m, held[m].tok)
             \/ \E k \in Clerks : clerk[k].pc = "close" /\ m \in clerk[k].ms
             \/ \E o \in Openers : opener[o].pc = "recheck" /\ opener[o].m = m
                                   /\ opener[o].at = held[m].at

\* A call goes only to a computer its turn read as switched on, though a stream
\* may still be open beyond the switch; and whichever of its end, its clock, a
\* stop and its dropping come first, the computer is told to cancel once.
CancelledOnce ==
    \A t \in RelayTurns : relayed[t].told <= 1 /\ (relayed[t].to # 0 => relayed[t].to \in relayed[t].on)

\* What holds of the relay: off stays off, and a call is cancelled once.
RelayHolds == OffSticks /\ CancelledOnce
=============================================================================
