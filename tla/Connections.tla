----------------------------- MODULE Connections -----------------------------
(***************************************************************************)
(* Connections: a person's sign-ins at one outside service, their loans to *)
(* one Bot and their secrets.  Each is an event stream with rows beside it *)
(* (connection_view, connection_loan).  The access token is written with   *)
(* the events, the refresh token on its own, and a turn refreshes both     *)
(* while the person lends, takes back, renames, pins and disconnects.      *)
(***************************************************************************)
EXTENDS Naturals, FiniteSets

CONSTANTS ConnIds,      \* connection ids: 1, 2, .., in the order they are made
          ConnReqs,     \* requests in flight: routes, callbacks, turns
          MaxConnSeq    \* bound: events of one connection

ASSUME ConnectionsAssumption == ConnIds \subseteq Nat \ {0} /\ MaxConnSeq \in Nat

VARIABLES
    conns,      \* Connection by id, as its events replay
    connSeq,    \* how many events each stream holds
    connRow,    \* connection_view and connection_loan by id
    access,     \* ids with an access token in secret_store
    renew,      \* ids with a refresh token in secret_store
    leftBehind,       \* history: refresh tokens kept in a way the code does not undo
    pinned,     \* bot_connection_pin: the id, or 0
    attempt,    \* connection_attempt: none, pending or failed
    connReq     \* requests in flight

connVars == <<conns, connSeq, connRow, access, renew, leftBehind, pinned, attempt,
              connReq>>

NoConn == [st |-> "none", owner |-> "user", loan |-> FALSE]
ConnIdle == [pc |-> "idle"]
ConnAlive(c) == c.st = "on"

ConnInit ==
    /\ conns = [i \in ConnIds |-> NoConn] /\ connRow = conns
    /\ connSeq = [i \in ConnIds |-> 0]
    /\ access = {} /\ renew = {} /\ leftBehind = {} /\ pinned = 0 /\ attempt = "none"
    /\ connReq = [r \in ConnReqs |-> ConnIdle]

FreshConn == {i \in ConnIds : conns[i].st = "none"
                              /\ \A j \in ConnIds : j < i => conns[j].st # "none"}

-----------------------------------------------------------------------------
(* The aggregate and the choice among accounts. *)

\* Connection::decide of the person's commands; apply.
ConnDecides(c, cmd) == ConnAlive(c)

ConnApplied(c, cmd) ==
    CASE cmd = "lend" -> [c EXCEPT !.loan = TRUE]
      [] cmd = "revoke" -> [c EXCEPT !.loan = FALSE]
      [] cmd = "disconnect" -> [c EXCEPT !.st = "off", !.loan = FALSE]
      [] OTHER -> c

\* Asking again for what already holds is no event; a rename may be either.
ConnEvents(c, cmd) ==
    IF cmd = "rename" THEN {0, 1}
    ELSE IF ConnApplied(c, cmd) = c THEN {0} ELSE {1}

\* ConnectionView::usable_by
ConnUsable(c) == ConnAlive(c) /\ (c.owner = "bot" \/ c.loan)

\* resolve: the pin when it is usable, else the only one of the most specific
\* owner; 0 when there is none or the Bot must be told which.
ConnResolve(candidates, pin) ==
    LET usable == {i \in candidates : ConnUsable(connRow[i])}
        own == {i \in usable : connRow[i].owner = "bot"}
        top == IF own # {} THEN own ELSE usable
    IN  IF pin \in usable THEN pin
        ELSE IF Cardinality(top) = 1 THEN CHOOSE i \in top : TRUE ELSE 0

-----------------------------------------------------------------------------
(* append_connection_in: the events under the sequence read, the rows from *)
(* the state decided, the access token; and at a disconnect its end.       *)

\* An insert of no event meets no unique key.
ConnAppends(i, seq, events) == events = 0 \/ connSeq[i] = seq

ConnWrites(i, c, seq, secret) ==
    /\ conns' = [conns EXCEPT ![i] = c]
    /\ connSeq' = [connSeq EXCEPT ![i] = seq + 1]
    /\ connRow' = [connRow EXCEPT ![i] = c]
    /\ access' = IF c.st = "off" THEN access \ {i}
                 ELSE IF secret THEN access \cup {i} ELSE access
    /\ pinned' = IF c.st = "off" /\ pinned = i THEN 0 ELSE pinned

\* An append of no event writes the rows alone.
ConnRewrites(i, c) ==
    /\ connRow' = [connRow EXCEPT ![i] = c]
    /\ UNCHANGED <<conns, connSeq, access, pinned>>

-----------------------------------------------------------------------------
(* The sign-in at the service. *)

\* link: a new attempt, a failed one opened again, or a reconnect, which has
\* no attempt; the signed state names the account it is for.
LinkOpened(r) ==
    /\ connReq[r] = ConnIdle
    /\ \E o \in {"user", "bot"}, t \in {0} \cup {i \in ConnIds : ConnAlive(conns[i])} :
          /\ t # 0 => conns[t].owner = o
          /\ connReq' = [connReq EXCEPT ![r] = [pc |-> "link", target |-> t, owner |-> o]]
          /\ attempt' = IF t = 0 THEN "pending" ELSE attempt
    /\ UNCHANGED <<conns, connSeq, connRow, access, renew, leftBehind, pinned>>

\* failed: the provider said no, or the exchange did.
LinkFailed(r) ==
    /\ connReq[r].pc = "link"
    /\ attempt' = IF connReq[r].target = 0 /\ attempt # "none" THEN "failed" ELSE attempt
    /\ connReq' = [connReq EXCEPT ![r] = ConnIdle]
    /\ UNCHANGED <<conns, connSeq, connRow, access, renew, leftBehind, pinned>>

\* dismiss
AttemptDismissed ==
    /\ attempt # "none"
    /\ attempt' = "none"
    /\ UNCHANGED <<conns, connSeq, connRow, access, renew, leftBehind, pinned, connReq>>

\* accounts::landing: the account named, while it is still connected and the
\* same service's and owner's; else a new one, whose id nobody else has.
CallbackLands(r) ==
    /\ connReq[r].pc = "link"
    /\ LET q == connReq[r]
           same == q.target # 0 /\ ConnAlive(conns[q.target])
       IN  connReq' = [connReq EXCEPT ![r] =
             IF same THEN [pc |-> "land", id |-> q.target, seen |-> conns[q.target],
                           seq |-> connSeq[q.target]]
             ELSE [pc |-> "land", id |-> 0, seq |-> 0,
                   seen |-> [NoConn EXCEPT !.st = "on", !.owner = q.owner]]]
    /\ UNCHANGED <<conns, connSeq, connRow, access, renew, leftBehind, pinned, attempt>>

\* callback: Connect or Refresh, appended with the access token; a conflict is
\* a 503 and nothing is saved.
CallbackAppended(r) ==
    /\ connReq[r].pc = "land"
    /\ LET q == connReq[r]
           ids == IF q.id = 0 THEN FreshConn
                  ELSE {i \in {q.id} : connSeq[i] = q.seq /\ q.seq < MaxConnSeq}
       IN  \/ \E i \in ids :
                 /\ ConnWrites(i, q.seen, q.seq, TRUE)
                 /\ attempt' = "none"
                 /\ connReq' = [connReq EXCEPT ![r] = [pc |-> "renew", id |-> i]]
           \/ /\ ids = {}
              /\ connReq' = [connReq EXCEPT ![r] = ConnIdle]
              /\ UNCHANGED <<conns, connSeq, connRow, access, pinned, attempt>>
    /\ UNCHANGED <<renew, leftBehind>>

\* Its last step, after the append: the refresh token in a row of its own, when
\* the provider sent one or an earlier one is kept.
CallbackRenewed(r) ==
    /\ connReq[r].pc = "renew"
    /\ LET i == connReq[r].id
       IN  /\ renew' = renew \cup {i}
           /\ leftBehind' = IF conns[i].st = "off" THEN leftBehind \cup {i} ELSE leftBehind
    /\ connReq' = [connReq EXCEPT ![r] = ConnIdle]
    /\ UNCHANGED <<conns, connSeq, connRow, access, pinned, attempt>>

-----------------------------------------------------------------------------
(* The person's commands. *)

\* mutate, accounts::rename: loaded, owned, allowed and decided ..
MutateRead(r) ==
    /\ connReq[r] = ConnIdle
    /\ \E i \in ConnIds, cmd \in {"lend", "revoke", "rename", "disconnect"} :
          /\ conns[i].owner = "user" /\ ConnDecides(conns[i], cmd)
          /\ \E n \in ConnEvents(conns[i], cmd) :
                connReq' = [connReq EXCEPT ![r] =
                   [pc |-> "append", id |-> i, cmd |-> cmd, events |-> n,
                    seen |-> ConnApplied(conns[i], cmd), seq |-> connSeq[i]]]
    /\ UNCHANGED <<conns, connSeq, connRow, access, renew, leftBehind, pinned, attempt>>

\* .. and appended; a conflict is answered 503.
MutateAppended(r) ==
    /\ connReq[r].pc = "append"
    /\ LET q == connReq[r]
           done == IF q.cmd = "disconnect" THEN [pc |-> "purge", id |-> q.id] ELSE ConnIdle
       IN  \/ /\ q.events = 1 /\ ConnAppends(q.id, q.seq, 1) /\ q.seq < MaxConnSeq
              /\ ConnWrites(q.id, q.seen, q.seq, FALSE)
              /\ connReq' = [connReq EXCEPT ![r] = done]
           \/ /\ q.events = 0 /\ ConnAppends(q.id, q.seq, 0)
              /\ ConnRewrites(q.id, q.seen)
              /\ connReq' = [connReq EXCEPT ![r] = done]
           \/ /\ ~ConnAppends(q.id, q.seq, q.events) \/ q.seq = MaxConnSeq
              /\ connReq' = [connReq EXCEPT ![r] = ConnIdle]
              /\ UNCHANGED <<conns, connSeq, connRow, access, pinned>>
    /\ UNCHANGED <<renew, leftBehind, attempt>>

\* A disconnect's two deletes; one that fails is a 503 with the token kept.
SecretsPurged(r) ==
    /\ connReq[r].pc = "purge"
    /\ LET i == connReq[r].id
       IN  \/ access' = access \ {i} /\ renew' = renew \ {i} /\ UNCHANGED leftBehind
           \/ UNCHANGED <<access, renew>> /\ leftBehind' = leftBehind \cup {i}
    /\ connReq' = [connReq EXCEPT ![r] = ConnIdle]
    /\ UNCHANGED <<conns, connSeq, connRow, pinned, attempt>>

\* accounts::pin: usable when read, and at the insert still connected, under
\* the row's lock; the mutant asks only the first.
PinRead(r) ==
    /\ connReq[r] = ConnIdle
    /\ \E i \in ConnIds : ConnUsable(connRow[i])
                          /\ connReq' = [connReq EXCEPT ![r] = [pc |-> "pin", id |-> i]]
    /\ UNCHANGED <<conns, connSeq, connRow, access, renew, leftBehind, pinned, attempt>>

PinsBlind(i) == TRUE
PinLocks(i) == ConnAlive(connRow[i])

PinWritten(r) ==
    /\ connReq[r].pc = "pin"
    /\ pinned' = IF PinLocks(connReq[r].id) THEN connReq[r].id ELSE pinned
    /\ connReq' = [connReq EXCEPT ![r] = ConnIdle]
    /\ UNCHANGED <<conns, connSeq, connRow, access, renew, leftBehind, attempt>>

Unpinned ==
    /\ pinned # 0
    /\ pinned' = 0
    /\ UNCHANGED <<conns, connSeq, connRow, access, renew, leftBehind, attempt, connReq>>

-----------------------------------------------------------------------------
(* A turn's use. *)

\* for_operator_plugins, live_token: the account chosen, its token about to expire, the provider asked for another.
RefreshBegun(r) ==
    /\ connReq[r] = ConnIdle
    /\ \E i \in renew :
          /\ i = ConnResolve(ConnIds, pinned)
          /\ connReq' = [connReq EXCEPT ![r] = [pc |-> "refresh", id |-> i]]
    /\ UNCHANGED <<conns, connSeq, connRow, access, renew, leftBehind, pinned, attempt>>

\* The answer's tokens, written outside any transaction.
RefreshWritten(r) ==
    /\ connReq[r].pc = "refresh"
    /\ LET i == connReq[r].id
       IN  /\ access' = access \cup {i}
           /\ renew' \in {renew, renew \cup {i}}
           /\ connReq' = [connReq EXCEPT ![r] = [pc |-> "verify", id |-> i]]
    /\ UNCHANGED <<conns, connSeq, connRow, leftBehind, pinned, attempt>>

\* store_refreshed asks of the row the turn chose from; the code asks the log.
VerifiesRow(i) == i \in access
StillConnected(i) == ConnAlive(conns[i])

\* store_refreshed: read again, and what a disconnect missed is deleted.
RefreshVerified(r) ==
    /\ connReq[r].pc = "verify"
    /\ LET i == connReq[r].id
       IN  IF StillConnected(i) THEN UNCHANGED <<access, renew>>
           ELSE access' = access \ {i} /\ renew' = renew \ {i}
    /\ connReq' = [connReq EXCEPT ![r] = ConnIdle]
    /\ UNCHANGED <<conns, connSeq, connRow, leftBehind, pinned, attempt>>

\* disconnect_revoked, remove_in: the provider has forgotten it; or it did not
\* answer, and the turn uses what it has.
RefreshRefused(r) ==
    /\ connReq[r].pc = "refresh"
    /\ LET i == connReq[r].id
       IN  \/ /\ ConnAlive(conns[i]) /\ connSeq[i] < MaxConnSeq
              /\ ConnWrites(i, ConnApplied(conns[i], "disconnect"), connSeq[i], FALSE)
              /\ leftBehind' = leftBehind \cup {i}
           \/ UNCHANGED <<conns, connSeq, connRow, access, pinned, leftBehind>>
    /\ connReq' = [connReq EXCEPT ![r] = ConnIdle]
    /\ UNCHANGED <<renew, attempt>>

ConnNext ==
    \/ \E r \in ConnReqs :
          \/ LinkOpened(r) \/ LinkFailed(r) \/ CallbackLands(r) \/ CallbackAppended(r)
          \/ CallbackRenewed(r) \/ MutateRead(r) \/ MutateAppended(r) \/ SecretsPurged(r)
          \/ PinRead(r) \/ PinWritten(r) \/ RefreshBegun(r) \/ RefreshWritten(r)
          \/ RefreshVerified(r) \/ RefreshRefused(r)
    \/ AttemptDismissed \/ Unpinned

ConnSpec == ConnInit /\ [][ConnNext]_connVars

-----------------------------------------------------------------------------
ConnAtRest(i) == \A r \in ConnReqs : connReq[r].pc \in {"refresh", "verify", "purge", "renew"}
                                     => connReq[r].id # i

\* "A disconnected connection keeps its record and loses its credential"
\* (store/postgres/connections.rs): beside refreshes, callbacks and reconnects
\* under way, once they are done nothing of a disconnected sign-in is in the
\* vault but the refresh tokens left by a failed delete, a provider's refusal or
\* a callback that ended late; and no Bot stays set to an account that is gone.
CredentialGoesWithIt ==
    /\ \A i \in ConnIds :
          conns[i].st = "off" /\ ConnAtRest(i) =>
             i \notin access /\ (i \in renew => i \in leftBehind)
    /\ pinned # 0 => ConnAlive(connRow[pinned])

\* "the aggregate is the truth" (store/postgres/connections.rs): a loan the
\* rows show is a loan the log holds.
LoansFollowLog == \A i \in ConnIds : connRow[i].loan => conns[i].loan
=============================================================================
