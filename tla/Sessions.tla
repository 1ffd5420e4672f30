------------------------------ MODULE Sessions ------------------------------
(***************************************************************************)
(* One account's sessions and the rotation of their refresh tokens: the    *)
(* account log with its sequence number, the session_view rows that find   *)
(* an account by a token, the plaintext each replica keeps of a rotation   *)
(* for the grace period, and requests that refresh or sign in.  A token's  *)
(* hash and its plaintext are one number.                                  *)
(***************************************************************************)
EXTENDS Naturals, FiniteSets

CONSTANTS Replicas,   \* server processes, each with its own RefreshGrace
          Requests,   \* requests that may be under way at once
          Sids,       \* session ids that may be issued
          MaxTok,     \* bound: refresh tokens minted
          Grace,      \* REFRESH_GRACE_MS
          MaxNow,     \* bound: the clock
          MaxOther    \* bound: appends to the account by other handlers

ASSUME SessionsAssumption ==
    /\ {MaxTok, Grace, MaxNow, MaxOther} \subseteq Nat
    /\ 0 \notin Sids   \* the id in a row that is not there

VARIABLES
    logSeq,     \* last stream_seq of the account's log
    sess,       \* Account::sessions, as the log replays
    sessView,   \* session_view: token -> the session it finds and until when
    slots,      \* RefreshGrace::slots of each replica: old token -> new
    req,        \* the requests under way
    minted,     \* tokens minted so far
    clock,      \* now_ms()
    answers,    \* history: <<presented, given>> of every answer
    rotated,    \* history: <<old, new>> of every rotation on the log
    others      \* appends by other handlers so far

sessVars == <<logSeq, sess, sessView, slots, req, minted, clock, answers,
              rotated, others>>

NoTok == 0
Toks == 1 .. MaxTok
NoSession == [cur |-> NoTok, prev |-> NoTok, at |-> 0]
NoRow == [sid |-> NoTok, until |-> 0]
Forever == MaxNow + Grace + 1
NoSlot == [new |-> NoTok, at |-> 0]
Idle == [pc |-> "idle"]

SessInit ==
    /\ logSeq = 0
    /\ sess = [s \in Sids |-> NoSession]
    /\ sessView = [t \in Toks |-> NoRow]
    /\ slots = [r \in Replicas |-> [t \in Toks |-> NoSlot]]
    /\ req = [q \in Requests |-> Idle]
    /\ minted = 0
    /\ clock = 0
    /\ answers = {}
    /\ rotated = {}
    /\ others = 0

-----------------------------------------------------------------------------
(* The aggregate. *)

\* Account::match_refresh: the session whose current token this is, or whose
\* previous one, inside the grace period.
IsCurrent(acct, t) == \E s \in Sids : acct[s].cur = t
IsPrevious(acct, t, at) ==
    /\ ~IsCurrent(acct, t)
    /\ \E s \in Sids : acct[s].prev = t /\ at <= acct[s].at + Grace
Accepts(acct, t, at) == IsCurrent(acct, t) \/ IsPrevious(acct, t, at)
SessionOf(acct, t) == CHOOSE s \in Sids : t \in {acct[s].cur, acct[s].prev}

\* A match that forgets the grace period of a previous token.
RotatesPrevious(acct, t) ==
    \E s \in Sids : t \in {acct[s].cur, acct[s].prev}

\* Account::decide(Refresh): only the current token rotates.
Rotates(acct, t) == IsCurrent(acct, t)

-----------------------------------------------------------------------------
(* The requests. *)

Ends(q) == req' = [req EXCEPT ![q] = Idle]
Rejects(q) == req' = [req EXCEPT ![q] = [@ EXCEPT !.pc = "rejected"]]
At(q, pc) == req[q].pc = pc

\* The slots a replica keeps when it is asked at a time: RefreshGrace::retain.
Kept(r, at) ==
    [t \in Toks |-> IF at <= slots[r][t].at + Grace THEN slots[r][t] ELSE NoSlot]

\* mint_access_for_slot: the answer a slot holds, or none.
Reuses(q, r, t, at, otherwise) ==
    /\ slots' = [slots EXCEPT ![r] = Kept(r, at)]
    /\ IF Kept(r, at)[t] # NoSlot
       THEN /\ answers' = answers \cup {<<t, Kept(r, at)[t].new>>}
            /\ Ends(q)
       ELSE /\ req' = otherwise
            /\ UNCHANGED answers

\* rotate: a token is presented, and this replica's own rotation of it asked.
RefreshPresented(q) ==
    /\ At(q, "idle")
    /\ \E r \in Replicas, t \in 1 .. minted :
          Reuses(q, r, t, clock,
                 [req EXCEPT ![q] = [pc |-> "find", rep |-> r, tok |-> t,
                                     at |-> clock, seq |-> 0]])
    /\ UNCHANGED <<logSeq, sess, sessView, minted, clock, rotated, others>>

\* account_by_refresh_hash: the row of the token, while it is good.
RefreshFound(q) ==
    /\ At(q, "find")
    /\ LET row == sessView[req[q].tok] IN
          IF row # NoRow /\ req[q].at <= row.until
          THEN req' = [req EXCEPT ![q].pc = "load"]
          ELSE Rejects(q)
    /\ UNCHANGED <<logSeq, sess, sessView, slots, minted, clock, answers,
                   rotated, others>>

\* load_account and decide: rotate, wait for the one who did, or refuse.
RefreshLoaded(q) ==
    /\ At(q, "load")
    /\ \/ /\ Rotates(sess, req[q].tok)
          /\ minted < MaxTok
          /\ req' = [req EXCEPT ![q] = [@ EXCEPT !.pc = "append",
                                          !.seq = logSeq]]
       \/ /\ ~Rotates(sess, req[q].tok)
          /\ IsPrevious(sess, req[q].tok, req[q].at)
          /\ req' = [req EXCEPT ![q] = [@ EXCEPT !.pc = "wait"]]
       \/ /\ ~Rotates(sess, req[q].tok)
          /\ ~IsPrevious(sess, req[q].tok, req[q].at)
          /\ Rejects(q)
    /\ UNCHANGED <<logSeq, sess, sessView, slots, minted, clock, answers,
                   rotated, others>>

\* session_view after a rotation: the new token is good, the old one until its
\* grace is over, and no other row of the session is left.
ViewAfter(s, old, new, at) ==
    [t \in Toks |->
        CASE t = new -> [sid |-> s, until |-> Forever]
          [] t = old -> [sid |-> s, until |-> at + Grace]
          [] t \notin {old, new} /\ sessView[t].sid = s -> NoRow
          [] OTHER -> sessView[t]]

\* ViewAfter that leaves the rows of older rotations.
ViewAfterKeepingAll(s, old, new, at) ==
    [sessView EXCEPT ![new] = [sid |-> s, until |-> Forever]]

\* append_account of a rotation: the events, the rows and the sequence number
\* in one transaction; somebody else's append first is a conflict.
RefreshAppended(q) ==
    /\ At(q, "append")
    /\ LET t == req[q].tok
           s == SessionOf(sess, t)
           new == minted + 1
       IN \/ /\ req[q].seq = logSeq
             /\ minted < MaxTok
             /\ minted' = new
             /\ logSeq' = logSeq + 1
             /\ sess' = [sess EXCEPT ![s] =
                            [cur |-> new, prev |-> t, at |-> req[q].at]]
             /\ sessView' = ViewAfter(s, t, new, req[q].at)
             /\ rotated' = rotated \cup {<<t, new>>}
             /\ req' = [req EXCEPT ![q] = [@ EXCEPT !.pc = "remember",
                                             !.seq = new]]
          \/ /\ req[q].seq # logSeq
             /\ req' = [req EXCEPT ![q] = [@ EXCEPT !.pc = "wait", !.at = clock]]
             /\ UNCHANGED <<minted, logSeq, sess, sessView, rotated>>
    /\ UNCHANGED <<slots, clock, answers, others>>

\* remember: the replica keeps the plaintext of the rotation, then answers.
RefreshRemembered(q) ==
    /\ At(q, "remember")
    /\ LET r == req[q].rep IN
          slots' = [slots EXCEPT ![r] =
              [Kept(r, req[q].at) EXCEPT ![req[q].tok] =
                  [new |-> req[q].seq, at |-> req[q].at]]]
    /\ answers' = answers \cup {<<req[q].tok, req[q].seq>>}
    /\ Ends(q)
    /\ UNCHANGED <<logSeq, sess, sessView, minted, clock, rotated, others>>

\* wait_for_reuse: this replica's winner has remembered, or REUSE_WAIT is over.
RefreshWaited(q) ==
    /\ At(q, "wait")
    /\ Reuses(q, req[q].rep, req[q].tok, req[q].at,
              [req EXCEPT ![q] = [@ EXCEPT !.pc = "rejected"]])
    /\ UNCHANGED <<logSeq, sess, sessView, minted, clock, rotated, others>>

\* The client is told: shouldLogout for a rejected one, and the request ends.
RefreshAnswered(q) ==
    /\ At(q, "rejected")
    /\ Ends(q)
    /\ UNCHANGED <<logSeq, sess, sessView, slots, minted, clock, answers,
                   rotated, others>>

\* mint_session: the account is read, its next session decided.
SignInLoaded(q) ==
    /\ At(q, "idle")
    /\ \E s \in Sids : sess[s] = NoSession
    /\ req' = [req EXCEPT ![q] = [pc |-> "issue", seq |-> logSeq, at |-> clock]]
    /\ UNCHANGED <<logSeq, sess, sessView, slots, minted, clock, answers,
                   rotated, others>>

\* append_account of SessionIssued; a conflict is a 503 the client retries.
SignInAppended(q) ==
    /\ At(q, "issue")
    /\ Ends(q)
    /\ \/ /\ req[q].seq = logSeq
          /\ minted < MaxTok
          /\ \E s \in Sids :
                /\ sess[s] = NoSession
                /\ sess' = [sess EXCEPT ![s] = [cur |-> minted + 1,
                                prev |-> NoTok, at |-> req[q].at]]
                /\ sessView' = [sessView EXCEPT ![minted + 1] =
                                [sid |-> s, until |-> Forever]]
          /\ minted' = minted + 1
          /\ logSeq' = logSeq + 1
       \/ /\ req[q].seq # logSeq
          /\ UNCHANGED <<sess, sessView, minted, logSeq>>
    /\ UNCHANGED <<slots, clock, answers, rotated, others>>

\* persist: any other handler of the account appends its events.
OtherAppended ==
    /\ others < MaxOther
    /\ others' = others + 1
    /\ logSeq' = logSeq + 1
    /\ UNCHANGED <<sess, sessView, slots, req, minted, clock, answers, rotated>>

SessTick ==
    /\ clock < MaxNow
    /\ clock' = clock + 1
    /\ UNCHANGED <<logSeq, sess, sessView, slots, req, minted, answers,
                   rotated, others>>

SessNext ==
    \/ \E q \in Requests :
          \/ RefreshPresented(q) \/ RefreshFound(q) \/ RefreshLoaded(q)
          \/ RefreshAppended(q) \/ RefreshRemembered(q) \/ RefreshWaited(q)
          \/ RefreshAnswered(q) \/ SignInLoaded(q) \/ SignInAppended(q)
    \/ OtherAppended
    \/ SessTick

SessSpec == SessInit /\ [][SessNext]_sessVars

-----------------------------------------------------------------------------
(* Properties. *)

\* However many requests present one refresh token, on whichever replicas, it
\* rotates once, and every request that is answered is given what that one
\* rotation put on the log (rotate, reuse_rotated_pair).
RotatesOnce ==
    /\ answers \subseteq rotated
    /\ \A a, b \in rotated : a[1] = b[1] => a = b

\* The row session_view has for a token and the log agree, at every time, on
\* whether the token is good: the lookup never hides one the aggregate would
\* take, and never finds one it would refuse (account_by_refresh_hash against
\* Account::match_refresh).
ViewFollowsLog ==
    \A t \in Toks : Accepts(sess, t, clock)
                        <=> sessView[t] # NoRow /\ clock <= sessView[t].until

\* A request that signs its client out (SessionRejected, shouldLogout) never
\* presented a token that is a session's current one at that moment:
\* auth/routes.rs:602 says it is sent "only when the refresh token is genuinely
\* not ours to honour".
SignsOutOnlyTheDead ==
    [][\A q \in Requests :
          req[q].pc # "rejected" /\ req'[q].pc = "rejected"
             => ~IsCurrent(sess, req[q].tok)]_sessVars

\* What a client that comes back may count on: its token rotates once, and the
\* lookup finds exactly the tokens the log accepts.
SessionsHold == RotatesOnce /\ ViewFollowsLog
=============================================================================
