---------------------------- MODULE Access_proof ----------------------------
(***************************************************************************)
(* What keeps the doors, proved for any number of requests, replicas,      *)
(* sessions, tokens, keys, codes, addresses and rows.  Each part is one    *)
(* component and has an inductive invariant of its own.                    *)
(***************************************************************************)
EXTENDS Sessions, Coworkers, Logins, Accounts, Purge, WellFoundedInduction, TLAPS

(***************************************************************************)
(* SESSIONS.  A token is at most one session's and leaves it for good when *)
(* it rotates; an append that is not to conflict rotates a token that is   *)
(* still current; what a replica remembers is on the log; a row of         *)
(* session_view is exactly what the log makes of its token.                *)
(***************************************************************************)
Refreshing == {"find", "load", "append", "wait", "remember", "rejected"}
RefreshReqs == [pc : Refreshing, rep : Replicas, tok : Toks, at : 0..MaxNow, seq : Nat]
IssueReqs == [pc : {"issue"}, seq : Nat, at : 0..MaxNow]
SessReqs == {Idle} \cup RefreshReqs \cup IssueReqs
Slots == [new : 0..MaxTok, at : 0..MaxNow]
Held == [cur : 0..MaxTok, prev : 0..MaxTok, at : 0..MaxNow]
Found == [sid : Sids \cup {NoTok}, until : Nat]

SessShape ==
    /\ logSeq \in Nat /\ minted \in 0..MaxTok /\ clock \in 0..MaxNow
    /\ sess \in [Sids -> Held]
    /\ sessView \in [Toks -> Found]
    /\ slots \in [Replicas -> [Toks -> Slots]]
    /\ req \in [Requests -> SessReqs]
    /\ rotated \subseteq (1..minted) \X (1..minted)

TokensOK ==
    /\ \A s \in Sids :
          /\ sess[s].cur <= minted /\ sess[s].prev <= minted
          /\ sess[s].cur = NoTok => sess[s].prev = NoTok
          /\ sess[s].cur # NoTok => sess[s].cur # sess[s].prev
    /\ \A s, u \in Sids : s # u =>
          /\ sess[s].cur # NoTok => sess[s].cur # sess[u].cur /\ sess[s].cur # sess[u].prev
          /\ sess[s].prev # NoTok => sess[s].prev # sess[u].prev

RotatedOK ==
    /\ \A a \in rotated, s \in Sids : sess[s].cur # a[1]
    /\ \A a, b \in rotated : a[1] = b[1] => a = b
    /\ answers \subseteq rotated

SlotsOK(sl) == \A r \in Replicas, t \in Toks : sl[r][t] # NoSlot => <<t, sl[r][t].new>> \in rotated

\* What a request knows of the token in its hands.
SessKnows(o) ==
    /\ o.pc \in Refreshing => o \in RefreshReqs /\ o.tok <= minted
    /\ o.pc = "append" => o.seq <= logSeq /\ (o.seq = logSeq => IsCurrent(sess, o.tok))
    /\ o.pc = "remember" => <<o.tok, o.seq>> \in rotated

ViewOK ==
    /\ \A s \in Sids :
          /\ sess[s].cur # NoTok => sessView[sess[s].cur] = [sid |-> s, until |-> Forever]
          /\ sess[s].prev # NoTok => sessView[sess[s].prev] = [sid |-> s, until |-> sess[s].at + Grace]
    /\ \A t \in Toks : (\A s \in Sids : t \notin {sess[s].cur, sess[s].prev}) => sessView[t] = NoRow

SessInv ==
    /\ SessShape /\ TokensOK /\ RotatedOK /\ SlotsOK(slots) /\ ViewOK
    /\ \A q \in Requests : SessKnows(req[q])

LEMMA SessFacts ==
    /\ MaxTok \in Nat /\ Grace \in Nat /\ MaxNow \in Nat /\ 0 \notin Sids
    /\ Forever \in Nat /\ Idle \in SessReqs /\ Idle.pc = "idle" /\ SessKnows(Idle)
    /\ NoTok = 0 /\ NoTok \notin Toks
<1>1. MaxTok \in Nat /\ Grace \in Nat /\ MaxNow \in Nat /\ 0 \notin Sids
  BY SessionsAssumption
<1>2. Idle.pc = "idle" /\ Idle \in SessReqs
  BY DEF Idle, SessReqs
<1>3. SessKnows(Idle)
  BY <1>2 DEF SessKnows, Refreshing
<1> QED
  BY <1>1, <1>2, <1>3 DEF Forever, NoTok, Toks

\* A request moves on, and nothing on the log does.
LEMMA SessMoves ==
    ASSUME SessInv, NEW q \in Requests, NEW o \in SessReqs, SessKnows(o),
           req' = [req EXCEPT ![q] = o],
           UNCHANGED <<logSeq, sess, sessView, minted, clock, rotated>>,
           slots' \in [Replicas -> [Toks -> Slots]], SlotsOK(slots'), answers' \subseteq rotated
    PROVE  SessInv'
<1>1. req \in [Requests -> SessReqs]
  BY DEF SessInv, SessShape
<1>2. req' \in [Requests -> SessReqs] /\ req'[q] = o /\ \A p \in Requests \ {q} : req'[p] = req[p]
  BY <1>1
<1>3. SessShape'
  BY <1>2 DEF SessInv, SessShape
<1>4. TokensOK' /\ RotatedOK' /\ ViewOK'
  BY DEF SessInv, TokensOK, RotatedOK, ViewOK
<1>5. SlotsOK(slots)'
  BY DEF SlotsOK
<1>6. ASSUME NEW p \in Requests
      PROVE  SessKnows(req[p])'
  <2>1. CASE p = q
    BY <1>2, <2>1 DEF SessKnows, IsCurrent
  <2>2. CASE p # q
    <3>1. req'[p] = req[p] /\ SessKnows(req[p])
      BY <1>2, <2>2 DEF SessInv
    <3> QED
      BY <3>1 DEF SessKnows, IsCurrent
  <2> QED
    BY <2>1, <2>2
<1> QED
  BY <1>3, <1>4, <1>5, <1>6 DEF SessInv

LEMMA KeptIs ==
    ASSUME SessInv, NEW r \in Replicas, NEW at
    PROVE  /\ Kept(r, at) \in [Toks -> Slots]
           /\ \A t \in Toks : Kept(r, at)[t] # NoSlot => <<t, Kept(r, at)[t].new>> \in rotated
<1>1. slots[r] \in [Toks -> Slots] /\ SlotsOK(slots)
  BY DEF SessInv, SessShape
<1>2. NoSlot \in Slots
  BY SessFacts DEF NoSlot, Slots, NoTok
<1>3. \A t \in Toks : Kept(r, at)[t] = slots[r][t] \/ Kept(r, at)[t] = NoSlot
  BY DEF Kept
<1>4. Kept(r, at) = [t \in Toks |-> Kept(r, at)[t]]
  BY DEF Kept
<1>5. \A t \in Toks : Kept(r, at)[t] \in Slots
  BY <1>1, <1>2, <1>3
<1> QED
  BY <1>1, <1>3, <1>4, <1>5 DEF SlotsOK

\* Asking a replica's slots gives what is on the log, or goes on.
LEMMA ReusesStep ==
    ASSUME SessInv, NEW q \in Requests, NEW r \in Replicas, NEW t \in Toks, NEW at,
           NEW o \in SessReqs, SessKnows(o), Reuses(q, r, t, at, [req EXCEPT ![q] = o]),
           UNCHANGED <<logSeq, sess, sessView, minted, clock, rotated>>
    PROVE  SessInv'
<1> DEFINE k == Kept(r, at)
<1>1. /\ k \in [Toks -> Slots] /\ \A u \in Toks : k[u] # NoSlot => <<u, k[u].new>> \in rotated
  BY KeptIs
<1>2. slots \in [Replicas -> [Toks -> Slots]] /\ SlotsOK(slots) /\ answers \subseteq rotated
  BY DEF SessInv, SessShape, RotatedOK
<1>3. slots' = [slots EXCEPT ![r] = k]
  BY DEF Reuses
<1> HIDE DEF k
<1>4. slots' \in [Replicas -> [Toks -> Slots]] /\ \A p \in Replicas : slots'[p] = IF p = r THEN k ELSE slots[p]
  BY <1>1, <1>2, <1>3
<1>5. SlotsOK(slots')
  BY <1>1, <1>2, <1>4 DEF SlotsOK
<1>6. CASE k[t] # NoSlot
  <2>1. answers' = answers \cup {<<t, k[t].new>>} /\ req' = [req EXCEPT ![q] = Idle]
    BY <1>6 DEF Reuses, Ends, k
  <2>2. answers' \subseteq rotated
    BY <1>1, <1>2, <1>6, <2>1
  <2> QED
    BY <1>4, <1>5, <2>1, <2>2, SessFacts, SessMoves
<1>7. CASE k[t] = NoSlot
  <2>1. answers' = answers /\ req' = [req EXCEPT ![q] = o]
    BY <1>7 DEF Reuses, k
  <2> QED
    BY <1>2, <1>4, <1>5, <2>1, SessMoves
<1> QED
  BY <1>6, <1>7

LEMMA PresentedStep ==
    ASSUME SessInv, NEW q \in Requests, RefreshPresented(q)
    PROVE  SessInv'
<1>1. PICK r \in Replicas, t \in 1..minted :
         Reuses(q, r, t, clock, [req EXCEPT ![q] =
            [pc |-> "find", rep |-> r, tok |-> t, at |-> clock, seq |-> 0]])
  BY DEF RefreshPresented
<1> DEFINE o == [pc |-> "find", rep |-> r, tok |-> t, at |-> clock, seq |-> 0]
<1>2. t \in Toks /\ t <= minted
  BY SessFacts DEF SessInv, SessShape, Toks
<1>3. o \in RefreshReqs /\ o.pc = "find" /\ o.tok = t
  BY <1>2 DEF RefreshReqs, Refreshing, SessInv, SessShape
<1>4. Reuses(q, r, t, clock, [req EXCEPT ![q] = o])
  BY <1>1
<1> HIDE DEF o
<1>5. o \in SessReqs /\ SessKnows(o)
  BY <1>2, <1>3 DEF SessReqs, SessKnows
<1>6. UNCHANGED <<logSeq, sess, sessView, minted, clock, rotated>>
  BY DEF RefreshPresented
<1> QED
  BY <1>2, <1>4, <1>5, <1>6, ReusesStep

\* What is known of a request that refreshes.
LEMMA RefreshReqFacts ==
    ASSUME SessInv, NEW q \in Requests, req[q].pc \in Refreshing
    PROVE  /\ req[q] \in RefreshReqs /\ req[q].tok \in Toks /\ req[q].tok <= minted
           /\ req[q].rep \in Replicas /\ req[q].at \in 0..MaxNow /\ req[q].seq \in Nat
           /\ req[q].pc = "append" => req[q].seq <= logSeq
                                      /\ (req[q].seq = logSeq => IsCurrent(sess, req[q].tok))
           /\ req[q].pc = "remember" => <<req[q].tok, req[q].seq>> \in rotated
<1>1. SessKnows(req[q])
  BY DEF SessInv
<1>2. req[q] \in RefreshReqs
  BY <1>1 DEF SessKnows
<1> QED
  BY <1>1, <1>2 DEF SessKnows, RefreshReqs

\* A refreshing request that goes where nothing more is asked of it.
LEMMA GoesOn ==
    ASSUME SessInv, NEW q \in Requests, req[q].pc \in Refreshing,
           NEW pc \in {"load", "wait", "rejected"}, NEW at \in 0..MaxNow,
           req' = [req EXCEPT ![q] = [req[q] EXCEPT !.pc = pc, !.at = at]],
           UNCHANGED <<logSeq, sess, sessView, slots, minted, clock, rotated, answers>>
    PROVE  SessInv'
<1> DEFINE o == [req[q] EXCEPT !.pc = pc, !.at = at]
<1>1. req[q] \in RefreshReqs /\ req[q].tok <= minted
  BY RefreshReqFacts
<1>2. o \in RefreshReqs /\ o.pc = pc /\ o.tok = req[q].tok
  BY <1>1 DEF RefreshReqs, Refreshing
<1>3. req' = [req EXCEPT ![q] = o]
  OBVIOUS
<1> HIDE DEF o
<1>4. o \in SessReqs /\ SessKnows(o)
  BY <1>1, <1>2 DEF SessReqs, SessKnows
<1>5. slots' \in [Replicas -> [Toks -> Slots]] /\ SlotsOK(slots') /\ answers' \subseteq rotated
  BY DEF SessInv, SessShape, SlotsOK, RotatedOK
<1> QED
  BY <1>3, <1>4, <1>5, SessMoves

LEMMA SameAt ==
    ASSUME SessInv, NEW q \in Requests, req[q].pc \in Refreshing, NEW pc
    PROVE  /\ [req EXCEPT ![q] = [@ EXCEPT !.pc = pc]]
                = [req EXCEPT ![q] = [req[q] EXCEPT !.pc = pc, !.at = req[q].at]]
           /\ [req EXCEPT ![q].pc = pc]
                = [req EXCEPT ![q] = [req[q] EXCEPT !.pc = pc, !.at = req[q].at]]
<1>1. req[q] \in RefreshReqs
  BY RefreshReqFacts
<1>2. [req[q] EXCEPT !.pc = pc] = [req[q] EXCEPT !.pc = pc, !.at = req[q].at]
  BY <1>1 DEF RefreshReqs
<1> QED
  BY <1>2

LEMMA FoundStep ==
    ASSUME SessInv, NEW q \in Requests, RefreshFound(q)
    PROVE  SessInv'
<1>1. req[q].pc \in Refreshing /\ req[q].at \in 0..MaxNow
  <2>1. req[q].pc \in Refreshing
    BY DEF RefreshFound, At, Refreshing
  <2> QED
    BY <2>1, RefreshReqFacts
<1>2. UNCHANGED <<logSeq, sess, sessView, slots, minted, clock, rotated, answers>>
  BY DEF RefreshFound
<1>3. \E pc \in {"load", "wait", "rejected"} :
         req' = [req EXCEPT ![q] = [req[q] EXCEPT !.pc = pc, !.at = req[q].at]]
  <2>1. req' = [req EXCEPT ![q].pc = "load"] \/ req' = [req EXCEPT ![q] = [@ EXCEPT !.pc = "rejected"]]
    BY DEF RefreshFound, Rejects
  <2> QED
    BY <1>1, <2>1, SameAt
<1> QED
  BY <1>1, <1>2, <1>3, GoesOn

LEMMA LoadedStep ==
    ASSUME SessInv, NEW q \in Requests, RefreshLoaded(q)
    PROVE  SessInv'
<1>1. req[q].pc \in Refreshing
  BY DEF RefreshLoaded, At, Refreshing
<1>2. /\ req[q] \in RefreshReqs /\ req[q].at \in 0..MaxNow /\ req[q].tok <= minted
  BY <1>1, RefreshReqFacts
<1>3. UNCHANGED <<logSeq, sess, sessView, slots, minted, clock, rotated, answers>>
  BY DEF RefreshLoaded
<1>4. CASE Rotates(sess, req[q].tok) /\ req' = [req EXCEPT ![q] = [@ EXCEPT !.pc = "append", !.seq = logSeq]]
  <2> DEFINE o == [req[q] EXCEPT !.pc = "append", !.seq = logSeq]
  <2>1. logSeq \in Nat /\ IsCurrent(sess, req[q].tok)
    BY <1>4 DEF SessInv, SessShape, Rotates
  <2>2. o \in RefreshReqs /\ o.pc = "append" /\ o.tok = req[q].tok /\ o.seq = logSeq
    BY <1>2, <2>1 DEF RefreshReqs, Refreshing
  <2>3. req' = [req EXCEPT ![q] = o]
    BY <1>4
  <2> HIDE DEF o
  <2>4. o \in SessReqs /\ SessKnows(o)
    BY <1>2, <2>1, <2>2 DEF SessReqs, SessKnows
  <2>5. slots' \in [Replicas -> [Toks -> Slots]] /\ SlotsOK(slots') /\ answers' \subseteq rotated
    BY <1>3 DEF SessInv, SessShape, SlotsOK, RotatedOK
  <2> QED
    BY <1>3, <2>3, <2>4, <2>5, SessMoves
<1>5. CASE \E pc \in {"wait", "rejected"} : req' = [req EXCEPT ![q] = [@ EXCEPT !.pc = pc]]
  <2>1. \E pc \in {"load", "wait", "rejected"} :
           req' = [req EXCEPT ![q] = [req[q] EXCEPT !.pc = pc, !.at = req[q].at]]
    BY <1>1, <1>5, SameAt
  <2> QED
    BY <1>1, <1>2, <1>3, <2>1, GoesOn
<1> QED
  BY <1>4, <1>5 DEF RefreshLoaded, Rejects

LEMMA RememberedStep ==
    ASSUME SessInv, NEW q \in Requests, RefreshRemembered(q)
    PROVE  SessInv'
<1>1. req[q].pc \in Refreshing /\ req[q].pc = "remember"
  BY DEF RefreshRemembered, At, Refreshing
<1>2. /\ req[q].tok \in Toks /\ req[q].rep \in Replicas /\ req[q].at \in 0..MaxNow
      /\ <<req[q].tok, req[q].seq>> \in rotated
  BY <1>1, RefreshReqFacts
<1>3. PICK k : k = Kept(req[q].rep, req[q].at)
  OBVIOUS
<1>4. k \in [Toks -> Slots] /\ \A u \in Toks : k[u] # NoSlot => <<u, k[u].new>> \in rotated
  BY <1>2, <1>3, KeptIs
<1> DEFINE n == [new |-> req[q].seq, at |-> req[q].at]
           m == [k EXCEPT ![req[q].tok] = n]
<1>5. n \in Slots /\ n.new = req[q].seq
  <2>1. req[q].seq \in 1..minted /\ minted \in 0..MaxTok
    BY <1>2 DEF SessInv, SessShape
  <2> QED
    BY <1>2, <2>1, SessFacts DEF Slots
<1>6. slots' = [slots EXCEPT ![req[q].rep] = m]
  BY <1>3 DEF RefreshRemembered
<1> HIDE DEF n
<1>7. /\ m \in [Toks -> Slots]
      /\ \A u \in Toks : m[u] = IF u = req[q].tok THEN n ELSE k[u]
  BY <1>2, <1>4, <1>5
<1> HIDE DEF m
<1>8. \A u \in Toks : m[u] # NoSlot => <<u, m[u].new>> \in rotated
  BY <1>2, <1>4, <1>5, <1>7
<1>9. slots \in [Replicas -> [Toks -> Slots]] /\ SlotsOK(slots) /\ answers \subseteq rotated
  BY DEF SessInv, SessShape, RotatedOK
<1>10. /\ slots' \in [Replicas -> [Toks -> Slots]]
       /\ \A p \in Replicas : slots'[p] = IF p = req[q].rep THEN m ELSE slots[p]
  BY <1>2, <1>6, <1>7, <1>9
<1>11. SlotsOK(slots')
  BY <1>8, <1>9, <1>10 DEF SlotsOK
<1>12. answers' \subseteq rotated
  BY <1>2, <1>9 DEF RefreshRemembered
<1>13. req' = [req EXCEPT ![q] = Idle] /\ UNCHANGED <<logSeq, sess, sessView, minted, clock, rotated>>
  BY DEF RefreshRemembered, Ends
<1> QED
  BY <1>10, <1>11, <1>12, <1>13, SessFacts, SessMoves

LEMMA WaitedStep ==
    ASSUME SessInv, NEW q \in Requests, RefreshWaited(q)
    PROVE  SessInv'
<1>1. req[q].pc \in Refreshing
  BY DEF RefreshWaited, At, Refreshing
<1>2. req[q] \in RefreshReqs /\ req[q].tok \in Toks /\ req[q].tok <= minted /\ req[q].rep \in Replicas
  BY <1>1, RefreshReqFacts
<1> DEFINE o == [req[q] EXCEPT !.pc = "rejected"]
<1>3. o \in RefreshReqs /\ o.pc = "rejected" /\ o.tok = req[q].tok
  BY <1>2 DEF RefreshReqs, Refreshing
<1>4. Reuses(q, req[q].rep, req[q].tok, req[q].at, [req EXCEPT ![q] = o])
  BY DEF RefreshWaited
<1> HIDE DEF o
<1>5. o \in SessReqs /\ SessKnows(o)
  BY <1>2, <1>3 DEF SessReqs, SessKnows
<1>6. UNCHANGED <<logSeq, sess, sessView, minted, clock, rotated>>
  BY DEF RefreshWaited
<1> QED
  BY <1>2, <1>4, <1>5, <1>6, ReusesStep

LEMMA AnsweredStep ==
    ASSUME SessInv, NEW q \in Requests, RefreshAnswered(q)
    PROVE  SessInv'
<1>1. req' = [req EXCEPT ![q] = Idle]
  BY DEF RefreshAnswered, Ends
<1>2. UNCHANGED <<logSeq, sess, sessView, slots, minted, clock, rotated, answers>>
  BY DEF RefreshAnswered
<1>3. slots' \in [Replicas -> [Toks -> Slots]] /\ SlotsOK(slots') /\ answers' \subseteq rotated
  BY <1>2 DEF SessInv, SessShape, SlotsOK, RotatedOK
<1> QED
  BY <1>1, <1>2, <1>3, SessFacts, SessMoves

LEMMA SignInLoadedStep ==
    ASSUME SessInv, NEW q \in Requests, SignInLoaded(q)
    PROVE  SessInv'
<1> DEFINE o == [pc |-> "issue", seq |-> logSeq, at |-> clock]
<1>1. o \in IssueReqs /\ o.pc = "issue"
  BY DEF IssueReqs, SessInv, SessShape
<1>2. req' = [req EXCEPT ![q] = o]
  BY DEF SignInLoaded
<1> HIDE DEF o
<1>3. o \in SessReqs /\ SessKnows(o)
  BY <1>1 DEF SessReqs, SessKnows, Refreshing
<1>4. UNCHANGED <<logSeq, sess, sessView, slots, minted, clock, rotated, answers>>
  BY DEF SignInLoaded
<1>5. slots' \in [Replicas -> [Toks -> Slots]] /\ SlotsOK(slots') /\ answers' \subseteq rotated
  BY <1>4 DEF SessInv, SessShape, SlotsOK, RotatedOK
<1> QED
  BY <1>2, <1>3, <1>4, <1>5, SessMoves

\* A row is its token's session's, and a token no session holds has none.
LEMMA RowsAreTheirs ==
    ASSUME SessInv, NEW s \in Sids, NEW t \in Toks, sessView[t].sid = s
    PROVE  t \in {sess[s].cur, sess[s].prev}
<1>1. t # NoTok /\ s # 0
  BY SessFacts DEF NoTok
<1>2. CASE \E u \in Sids : t \in {sess[u].cur, sess[u].prev}
  <2>1. PICK u \in Sids : t \in {sess[u].cur, sess[u].prev}
    BY <1>2
  <2>2. sessView[t].sid = u
    <3>1. CASE t = sess[u].cur
      <4>1. sessView[t] = [sid |-> u, until |-> Forever]
        BY <1>1, <3>1 DEF SessInv, ViewOK
      <4> QED
        BY <4>1
    <3>2. CASE t = sess[u].prev
      <4>1. sessView[t] = [sid |-> u, until |-> sess[u].at + Grace]
        BY <1>1, <3>2 DEF SessInv, ViewOK
      <4> QED
        BY <4>1
    <3> QED
      BY <2>1, <3>1, <3>2
  <2> QED
    BY <2>1, <2>2
<1>3. CASE \A u \in Sids : t \notin {sess[u].cur, sess[u].prev}
  <2>1. sessView[t] = NoRow
    BY <1>3 DEF SessInv, ViewOK
  <2> QED
    BY <1>1, <2>1 DEF NoRow, NoTok
<1> QED
  BY <1>2, <1>3

\* A session's next token on the log: its first, or the one its current one rotates into.
GivesToken(q, s, at, old, new, o) ==
    /\ old = sess[s].cur /\ new = minted + 1 /\ minted < MaxTok
    /\ req' = [req EXCEPT ![q] = o] /\ o \in SessReqs /\ o.pc # "append"
    /\ o.pc \in Refreshing => o \in RefreshReqs /\ o.tok <= new
    /\ o.pc = "remember" => <<o.tok, o.seq>> \in rotated'
    /\ minted' = new /\ logSeq' = logSeq + 1 /\ UNCHANGED <<slots, answers, clock>>
    /\ sess' = [sess EXCEPT ![s] = [cur |-> new, prev |-> old, at |-> at]]
    /\ old = NoTok => rotated' = rotated
    /\ old # NoTok => rotated' = rotated \cup {<<old, new>>}
    /\ sessView' \in [Toks -> Found]
    /\ sessView'[new] = [sid |-> s, until |-> Forever]
    /\ old # NoTok => sessView'[old] = [sid |-> s, until |-> at + Grace]
    /\ \A t \in Toks \ {new, old} :
          sessView'[t] = IF sessView[t].sid = s THEN NoRow ELSE sessView[t]

LEMMA NextToken ==
    ASSUME SessInv, NEW q \in Requests, NEW s \in Sids, NEW at \in 0..MaxNow,
           NEW old \in 0..MaxTok, NEW new, NEW o, GivesToken(q, s, at, old, new, o)
    PROVE  SessInv'
<1>0. /\ old = sess[s].cur /\ new = minted + 1 /\ minted < MaxTok
      /\ req' = [req EXCEPT ![q] = o] /\ o \in SessReqs /\ o.pc # "append"
      /\ o.pc \in Refreshing => o \in RefreshReqs /\ o.tok <= new
      /\ o.pc = "remember" => <<o.tok, o.seq>> \in rotated'
      /\ minted' = new /\ logSeq' = logSeq + 1 /\ UNCHANGED <<slots, answers, clock>>
      /\ sess' = [sess EXCEPT ![s] = [cur |-> new, prev |-> old, at |-> at]]
      /\ old = NoTok => rotated' = rotated
      /\ old # NoTok => rotated' = rotated \cup {<<old, new>>}
      /\ sessView' \in [Toks -> Found]
      /\ sessView'[new] = [sid |-> s, until |-> Forever]
      /\ old # NoTok => sessView'[old] = [sid |-> s, until |-> at + Grace]
      /\ \A t \in Toks \ {new, old} :
            sessView'[t] = IF sessView[t].sid = s THEN NoRow ELSE sessView[t]
  BY DEF GivesToken
<1> USE <1>0
<1>1. /\ logSeq \in Nat /\ minted \in 0..MaxTok /\ clock \in 0..MaxNow
      /\ sess \in [Sids -> Held] /\ req \in [Requests -> SessReqs]
      /\ rotated \subseteq (1..minted) \X (1..minted)
      /\ slots \in [Replicas -> [Toks -> Slots]]
  BY DEF SessInv, SessShape
<1>2. new \in Nat /\ new \in Toks /\ new > minted /\ new # NoTok
  BY <1>1, SessFacts DEF Toks, NoTok
<1>3. old <= minted /\ old # new
  BY <1>1, <1>2, SessFacts DEF SessInv, TokensOK
<1>4. [cur |-> new, prev |-> old, at |-> at] \in Held
  BY <1>1, <1>2, SessFacts DEF Held, Toks
<1> DEFINE h == [cur |-> new, prev |-> old, at |-> at]
<1>5. h \in Held /\ h.cur = new /\ h.prev = old /\ h.at = at /\ sess' = [sess EXCEPT ![s] = h]
  BY <1>4
<1> HIDE DEF h
<1>6. sess' \in [Sids -> Held] /\ sess'[s] = h /\ \A u \in Sids \ {s} : sess'[u] = sess[u]
  BY <1>1, <1>5
<1>7. req' \in [Requests -> SessReqs] /\ req'[q] = o /\ \A p \in Requests \ {q} : req'[p] = req[p]
  BY <1>1
<1>8. rotated' \subseteq (1..new) \X (1..new)
  <2>1. rotated \subseteq (1..new) \X (1..new)
    BY <1>1, <1>2
  <2>2. CASE old = NoTok
    BY <2>1, <2>2
  <2>3. CASE old # NoTok
    <3>1. old \in 1..new /\ new \in 1..new
      BY <1>1, <1>2, <1>3, <2>3, SessFacts DEF NoTok
    <3> QED
      BY <2>1, <2>3, <3>1
  <2> QED
    BY <2>2, <2>3
<1>9. SessShape'
  BY <1>1, <1>2, <1>6, <1>7, <1>8 DEF SessShape, Toks
<1>10. \A u \in Sids : /\ sess[u].cur \in 0..MaxTok /\ sess[u].prev \in 0..MaxTok /\ sess[u].at \in 0..MaxNow
                       /\ sess[u].cur <= minted /\ sess[u].prev <= minted
  BY <1>1 DEF SessInv, TokensOK, Held
<1>11. \A u \in Sids : sess[u].cur # new /\ sess[u].prev # new
  BY <1>1, <1>2, <1>10
<1>12. \A u \in Sids \ {s} : old # NoTok => sess[u].cur # old /\ sess[u].prev # old
  BY DEF SessInv, TokensOK
<1>13. TokensOK'
  <2>1. ASSUME NEW u \in Sids
        PROVE  /\ sess'[u].cur <= minted' /\ sess'[u].prev <= minted'
               /\ sess'[u].cur = NoTok => sess'[u].prev = NoTok
               /\ sess'[u].cur # NoTok => sess'[u].cur # sess'[u].prev
    <3>1. CASE u = s
      BY <1>1, <1>2, <1>3, <1>5, <1>6, <3>1
    <3>2. CASE u # s
      <4>1. sess'[u] = sess[u]
        BY <1>6, <3>2
      <4> QED
        BY <1>1, <1>2, <1>10, <4>1 DEF SessInv, TokensOK
    <3> QED
      BY <3>1, <3>2
  <2>2. ASSUME NEW u \in Sids, NEW v \in Sids, u # v
        PROVE  /\ sess'[u].cur # NoTok => sess'[u].cur # sess'[v].cur /\ sess'[u].cur # sess'[v].prev
               /\ sess'[u].prev # NoTok => sess'[u].prev # sess'[v].prev
    <3>1. CASE u # s /\ v # s
      BY <1>6, <2>2, <3>1 DEF SessInv, TokensOK
    <3>2. CASE u = s
      <4>1. sess'[v] = sess[v]
        BY <1>6, <2>2, <3>2
      <4> QED
        BY <1>2, <1>5, <1>6, <1>11, <1>12, <2>2, <3>2, <4>1
    <3>3. CASE v = s
      <4>1. sess'[u] = sess[u]
        BY <1>6, <2>2, <3>3
      <4> QED
        BY <1>2, <1>5, <1>6, <1>11, <1>12, <2>2, <3>3, <4>1
    <3> QED
      BY <3>1, <3>2, <3>3
  <2> QED
    BY <2>1, <2>2 DEF TokensOK
<1>14. \A a \in rotated' : a \in rotated \/ (a = <<old, new>> /\ old # NoTok)
  OBVIOUS
<1>15. rotated \subseteq rotated'
  OBVIOUS
<1>16. RotatedOK'
  <2>1. ASSUME NEW a \in rotated', NEW u \in Sids
        PROVE  sess'[u].cur # a[1]
    <3>1. CASE a \in rotated
      <4>1. a[1] \in 1..minted /\ sess[u].cur # a[1]
        BY <1>1, <3>1 DEF SessInv, RotatedOK
      <4> QED
        BY <1>1, <1>2, <1>5, <1>6, <4>1
    <3>2. CASE a = <<old, new>> /\ old # NoTok
      BY <1>3, <1>5, <1>6, <1>12, <3>2
    <3> QED
      BY <1>14, <3>1, <3>2
  <2>2. ASSUME NEW a \in rotated', NEW b \in rotated', a[1] = b[1]
        PROVE  a = b
    <3>1. \A c \in rotated : c[1] # old
      BY DEF SessInv, RotatedOK
    <3>2. CASE a \in rotated /\ b \in rotated
      BY <2>2, <3>2 DEF SessInv, RotatedOK
    <3> QED
      BY <1>14, <2>2, <3>1, <3>2
  <2>3. answers' \subseteq rotated'
    BY <1>15 DEF SessInv, RotatedOK
  <2> QED
    BY <2>1, <2>2, <2>3 DEF RotatedOK
<1>17. SlotsOK(slots)'
  BY <1>15 DEF SessInv, SlotsOK
<1>18. ViewOK'
  <2>1. ASSUME NEW u \in Sids, u # s
        PROVE  /\ sess'[u] = sess[u]
               /\ sess[u].cur # NoTok => sessView'[sess[u].cur] = sessView[sess[u].cur]
               /\ sess[u].prev # NoTok => sessView'[sess[u].prev] = sessView[sess[u].prev]
    <3>1. sess'[u] = sess[u]
      BY <1>6, <2>1
    <3>2. ASSUME NEW t \in {sess[u].cur, sess[u].prev}, t # NoTok
          PROVE  sessView'[t] = sessView[t]
      <4>1. t \in Toks /\ t # new /\ t # old
        <5>1. t \in 1..MaxTok
          BY <1>10, <3>2, SessFacts DEF NoTok
        <5> QED
          BY <1>11, <1>12, <2>1, <3>2, <5>1 DEF Toks
      <4>2. sessView[t].sid # s
        <5>1. t \notin {sess[s].cur, sess[s].prev}
          BY <2>1, <3>2 DEF SessInv, TokensOK
        <5> QED
          BY <4>1, <5>1, RowsAreTheirs
      <4> QED
        BY <4>1, <4>2
    <3> QED
      BY <3>1, <3>2
  <2>2. ASSUME NEW u \in Sids
        PROVE  /\ sess'[u].cur # NoTok => sessView'[sess'[u].cur] = [sid |-> u, until |-> Forever]
               /\ sess'[u].prev # NoTok => sessView'[sess'[u].prev] = [sid |-> u, until |-> sess'[u].at + Grace]
    <3>1. CASE u = s
      BY <1>5, <1>6, <3>1
    <3>2. CASE u # s
      BY <2>1, <3>2 DEF SessInv, ViewOK
    <3> QED
      BY <3>1, <3>2
  <2>3. ASSUME NEW t \in Toks, \A u \in Sids : t \notin {sess'[u].cur, sess'[u].prev}
        PROVE  sessView'[t] = NoRow
    <3>1. t # new /\ t # old
      BY <1>5, <1>6, <2>3
    <3>2. \A u \in Sids \ {s} : t \notin {sess[u].cur, sess[u].prev}
      BY <1>6, <2>3
    <3>3. CASE sessView[t].sid = s
      BY <3>1, <3>3
    <3>4. CASE sessView[t].sid # s
      <4>1. t # sess[s].cur
        BY <3>1
      <4>2. t # sess[s].prev
        <5>1. t # NoTok
          BY SessFacts
        <5>2. t = sess[s].prev => sessView[t] = [sid |-> s, until |-> sess[s].at + Grace]
          BY <5>1 DEF SessInv, ViewOK
        <5> QED
          BY <3>4, <5>2
      <4>3. sessView[t] = NoRow
        BY <3>2, <4>1, <4>2 DEF SessInv, ViewOK
      <4> QED
        BY <3>1, <3>4, <4>3
    <3> QED
      BY <3>3, <3>4
  <2> QED
    BY <2>2, <2>3 DEF ViewOK
<1>19. ASSUME NEW p \in Requests
       PROVE  SessKnows(req[p])'
  <2>1. CASE p = q
    <3>1. SessKnows(o)'
      BY DEF SessKnows
    <3> QED
      BY <1>7, <2>1, <3>1 DEF SessKnows, IsCurrent
  <2>2. CASE p # q
    <3>1. PICK x : x = req[p]
      OBVIOUS
    <3>2. req'[p] = x /\ SessKnows(x)
      BY <1>7, <2>2, <3>1 DEF SessInv
    <3>3. x.pc \in Refreshing => x \in RefreshReqs /\ x.tok <= minted'
      <4>1. x \in RefreshReqs => x.tok \in Nat
        BY SessFacts DEF RefreshReqs, Toks
      <4> QED
        BY <1>1, <1>2, <3>2, <4>1 DEF SessKnows
    <3>4. x.pc = "append" => x.seq <= logSeq' /\ x.seq # logSeq'
      <4>1. x.pc = "append" => x.seq \in Nat /\ x.seq <= logSeq
        BY <3>2 DEF SessKnows, Refreshing, RefreshReqs
      <4> QED
        BY <1>1, <4>1
    <3>5. x.pc = "remember" => <<x.tok, x.seq>> \in rotated'
      BY <1>15, <3>2 DEF SessKnows
    <3>6. SessKnows(x)'
      BY <3>3, <3>4, <3>5 DEF SessKnows
    <3> QED
      BY <3>2, <3>6 DEF SessKnows, IsCurrent
  <2> QED
    BY <2>1, <2>2
<1> QED
  BY <1>9, <1>13, <1>16, <1>17, <1>18, <1>19 DEF SessInv

LEMMA AppendedStep ==
    ASSUME SessInv, NEW q \in Requests, RefreshAppended(q)
    PROVE  SessInv'
<1>1. req[q].pc = "append" /\ req[q].pc \in Refreshing
  BY DEF RefreshAppended, At, Refreshing
<1>2. PICK x : x = req[q]
  OBVIOUS
<1>3. /\ x \in RefreshReqs /\ x.tok \in Toks /\ x.tok <= minted /\ x.at \in 0..MaxNow
      /\ x.seq <= logSeq /\ (x.seq = logSeq => IsCurrent(sess, x.tok))
  BY <1>1, <1>2, RefreshReqFacts
<1>4. logSeq \in Nat /\ minted \in 0..MaxTok /\ clock \in 0..MaxNow
  BY DEF SessInv, SessShape
<1>5. CASE x.seq = logSeq
  <2>1. \E s \in Sids : sess[s].cur = x.tok
    BY <1>3, <1>5 DEF IsCurrent
  <2>2. PICK s : s = SessionOf(sess, x.tok)
    OBVIOUS
  <2>3. s \in Sids /\ x.tok \in {sess[s].cur, sess[s].prev}
    BY <2>1, <2>2 DEF SessionOf
  <2>4. x.tok # NoTok /\ sess[s].cur = x.tok
    <3>1. x.tok # NoTok
      BY <1>3, SessFacts
    <3> QED
      BY <2>1, <2>3, <3>1 DEF SessInv, TokensOK
  <2>5. PICK n : n = minted + 1
    OBVIOUS
  <2>6. minted < MaxTok /\ n \in Nat /\ n \in Toks /\ n # x.tok /\ n \in 1..n
    BY <1>2, <1>3, <1>4, <1>5, <2>5, SessFacts DEF RefreshAppended, Toks
  <2>7. /\ minted' = n /\ logSeq' = logSeq + 1
        /\ sess' = [sess EXCEPT ![s] = [cur |-> n, prev |-> x.tok, at |-> x.at]]
        /\ rotated' = rotated \cup {<<x.tok, n>>}
        /\ sessView' = ViewAfter(s, x.tok, n, x.at)
    BY <1>2, <1>5, <2>2, <2>5 DEF RefreshAppended
  <2>8. /\ req' = [req EXCEPT ![q] = [x EXCEPT !.pc = "remember", !.seq = n]]
        /\ UNCHANGED <<slots, clock, answers>>
    BY <1>2, <1>5, <2>5 DEF RefreshAppended
  <2>18. PICK o : o = [x EXCEPT !.pc = "remember", !.seq = n]
    OBVIOUS
  <2>9. o \in RefreshReqs /\ o.pc = "remember" /\ o.tok = x.tok /\ o.seq = n
    BY <1>3, <2>6, <2>18 DEF RefreshReqs, Refreshing
  <2>10. req' = [req EXCEPT ![q] = o]
    BY <2>8, <2>18
  <2>11. /\ o \in SessReqs /\ o.pc # "append" /\ o.tok <= n
         /\ <<o.tok, o.seq>> \in rotated'
    BY <1>3, <1>4, <2>5, <2>7, <2>9, SessFacts DEF Toks, SessReqs
  <2>12. /\ sessView' \in [Toks -> Found]
         /\ sessView'[n] = [sid |-> s, until |-> Forever]
         /\ sessView'[x.tok] = [sid |-> s, until |-> x.at + Grace]
         /\ \A t \in Toks \ {n, x.tok} :
               sessView'[t] = IF sessView[t].sid = s THEN NoRow ELSE sessView[t]
    <3>1. \A t \in Toks : sessView'[t] =
             CASE t = n -> [sid |-> s, until |-> Forever]
               [] t = x.tok -> [sid |-> s, until |-> x.at + Grace]
               [] t \notin {x.tok, n} /\ sessView[t].sid = s -> NoRow
               [] OTHER -> sessView[t]
      BY <2>7 DEF ViewAfter
    <3>2. sessView'[n] = [sid |-> s, until |-> Forever]
      BY <2>6, <3>1
    <3>3. sessView'[x.tok] = [sid |-> s, until |-> x.at + Grace]
      BY <1>3, <2>6, <3>1
    <3>4. ASSUME NEW t \in Toks \ {n, x.tok}
          PROVE  sessView'[t] = IF sessView[t].sid = s THEN NoRow ELSE sessView[t]
      BY <3>1
    <3>5. \A t \in Toks : sessView[t] \in Found
      BY DEF SessInv, SessShape
    <3>6. /\ NoRow \in Found /\ [sid |-> s, until |-> Forever] \in Found
          /\ [sid |-> s, until |-> x.at + Grace] \in Found
      BY <1>3, <2>3, SessFacts DEF NoRow, NoTok, Found
    <3>7. \A t \in Toks : sessView'[t] \in Found
      BY <3>2, <3>3, <3>4, <3>5, <3>6
    <3>8. sessView' = [t \in Toks |-> sessView'[t]]
      BY <2>7 DEF ViewAfter
    <3>9. sessView' \in [Toks -> Found]
      BY <3>7, <3>8
    <3> QED
      BY <3>2, <3>3, <3>4, <3>9
  <2>13. x.tok \in 0..MaxTok
    BY <1>3, SessFacts DEF Toks
  <2>14. o \in SessReqs
    BY <2>11
  <2>15. PICK old, at : old = x.tok /\ at = x.at
    OBVIOUS
  <2>16. /\ at \in 0..MaxNow /\ old = sess[s].cur /\ old \in 0..MaxTok
         /\ old = NoTok => rotated' = rotated
         /\ old # NoTok => rotated' = rotated \cup {<<old, n>>}
         /\ sess' = [sess EXCEPT ![s] = [cur |-> n, prev |-> old, at |-> at]]
         /\ old # NoTok => sessView'[old] = [sid |-> s, until |-> at + Grace]
         /\ \A t \in Toks \ {n, old} :
               sessView'[t] = IF sessView[t].sid = s THEN NoRow ELSE sessView[t]
    BY <1>3, <2>4, <2>7, <2>12, <2>13, <2>15
  <2>17. UNCHANGED <<slots, answers, clock>>
    BY <2>8
  <2>19. GivesToken(q, s, at, old, n, o)
    BY <2>5, <2>6, <2>7, <2>9, <2>10, <2>11, <2>12, <2>16, <2>17 DEF GivesToken
  <2> QED
    BY <2>3, <2>16, <2>19, NextToken
<1>6. CASE x.seq # logSeq
  <2>1. \E pc \in {"load", "wait", "rejected"} : req' = [req EXCEPT ![q] = [req[q] EXCEPT !.pc = pc, !.at = clock]]
    BY <1>2, <1>6 DEF RefreshAppended
  <2>2. UNCHANGED <<logSeq, sess, sessView, slots, minted, clock, rotated, answers>>
    BY <1>2, <1>6 DEF RefreshAppended
  <2> QED
    BY <1>1, <1>4, <2>1, <2>2, GoesOn
<1> QED
  BY <1>5, <1>6

LEMMA SignInAppendedStep ==
    ASSUME SessInv, NEW q \in Requests, SignInAppended(q)
    PROVE  SessInv'
<1>1. req[q].pc = "issue" /\ req' = [req EXCEPT ![q] = Idle] /\ UNCHANGED <<slots, clock, answers, rotated>>
  BY DEF SignInAppended, At, Ends
<1>2. PICK x : x = req[q]
  OBVIOUS
<1>3. x.at \in 0..MaxNow
  <2>1. x \in SessReqs /\ x.pc = "issue"
    BY <1>1, <1>2 DEF SessInv, SessShape
  <2>2. x \in IssueReqs
    BY <2>1 DEF SessReqs, Idle, RefreshReqs, Refreshing
  <2> QED
    BY <2>2 DEF IssueReqs
<1>4. logSeq \in Nat /\ minted \in 0..MaxTok /\ sessView \in [Toks -> Found]
  BY DEF SessInv, SessShape
<1>5. CASE x.seq = logSeq
  <2>1. PICK n : n = minted + 1
    OBVIOUS
  <2>2. PICK s \in Sids :
          /\ sess[s] = NoSession
          /\ sess' = [sess EXCEPT ![s] = [cur |-> n, prev |-> NoTok, at |-> x.at]]
          /\ sessView' = [sessView EXCEPT ![n] = [sid |-> s, until |-> Forever]]
    BY <1>2, <1>5, <2>1 DEF SignInAppended
  <2>3. minted < MaxTok /\ minted' = n /\ logSeq' = logSeq + 1
    BY <1>2, <1>5, <2>1 DEF SignInAppended
  <2>4. n \in Toks
    BY <1>4, <2>1, <2>3, SessFacts DEF Toks
  <2>5. sess[s].cur = NoTok /\ sess[s].prev = NoTok
    BY <2>2 DEF NoSession
  <2>6. /\ sessView' \in [Toks -> Found]
        /\ sessView'[n] = [sid |-> s, until |-> Forever]
        /\ \A t \in Toks \ {n} : sessView'[t] = sessView[t]
    <3>1. [sid |-> s, until |-> Forever] \in Found
      BY SessFacts DEF Found
    <3> QED
      BY <1>4, <2>2, <2>4, <3>1
  <2>7. \A t \in Toks : sessView[t].sid # s
    BY <2>5, RowsAreTheirs, SessFacts
  <2>8. \A t \in Toks \ {n, NoTok} : sessView'[t] = IF sessView[t].sid = s THEN NoRow ELSE sessView[t]
    BY <2>6, <2>7
  <2>15. PICK o : o = Idle
    OBVIOUS
  <2>9. /\ req' = [req EXCEPT ![q] = o] /\ o \in SessReqs
        /\ o.pc \notin Refreshing /\ o.pc # "append" /\ o.pc # "remember"
    BY <1>1, <2>15, SessFacts DEF Refreshing
  <2>10. NoTok \in 0..MaxTok /\ NoTok = sess[s].cur
    BY <2>5, SessFacts DEF NoTok
  <2>11. rotated' = rotated
    BY <1>1
  <2>12. PICK old, at : old = NoTok /\ at = x.at
    OBVIOUS
  <2>13. /\ at \in 0..MaxNow /\ old = sess[s].cur /\ old \in 0..MaxTok
         /\ old = NoTok => rotated' = rotated
         /\ old # NoTok => rotated' = rotated \cup {<<old, n>>}
         /\ sess' = [sess EXCEPT ![s] = [cur |-> n, prev |-> old, at |-> at]]
         /\ old # NoTok => sessView'[old] = [sid |-> s, until |-> at + Grace]
         /\ \A t \in Toks \ {n, old} :
               sessView'[t] = IF sessView[t].sid = s THEN NoRow ELSE sessView[t]
    BY <1>3, <2>2, <2>8, <2>10, <2>11, <2>12
  <2>14. UNCHANGED <<slots, answers, clock>>
    BY <1>1
  <2>16. GivesToken(q, s, at, old, n, o)
    BY <2>1, <2>2, <2>3, <2>6, <2>9, <2>13, <2>14 DEF GivesToken
  <2> QED
    BY <2>2, <2>13, <2>16, NextToken
<1>6. CASE x.seq # logSeq
  <2>1. UNCHANGED <<logSeq, sess, sessView, slots, minted, clock, rotated, answers>>
    BY <1>1, <1>2, <1>6 DEF SignInAppended
  <2>2. slots' \in [Replicas -> [Toks -> Slots]] /\ SlotsOK(slots') /\ answers' \subseteq rotated
    BY <2>1 DEF SessInv, SessShape, SlotsOK, RotatedOK
  <2> QED
    BY <1>1, <2>1, <2>2, SessFacts, SessMoves
<1> QED
  BY <1>5, <1>6

\* The log grows by somebody else's event, or the clock moves.
LEMMA OthersStep ==
    ASSUME SessInv, OtherAppended \/ SessTick \/ UNCHANGED sessVars
    PROVE  SessInv'
<1>1. UNCHANGED <<sess, sessView, slots, req, minted, answers, rotated>>
  BY DEF OtherAppended, SessTick, sessVars
<1>2. clock' \in 0..MaxNow /\ logSeq' \in Nat /\ logSeq <= logSeq' /\ logSeq \in Nat
  <2>1. logSeq \in Nat /\ clock \in 0..MaxNow
    BY DEF SessInv, SessShape
  <2> QED
    BY <2>1, SessFacts DEF OtherAppended, SessTick, sessVars
<1>3. SessShape' /\ TokensOK' /\ RotatedOK' /\ ViewOK' /\ SlotsOK(slots)'
  BY <1>1, <1>2 DEF SessInv, SessShape, TokensOK, RotatedOK, ViewOK, SlotsOK
<1>4. ASSUME NEW p \in Requests
      PROVE  SessKnows(req[p])'
  <2>1. PICK x : x = req[p]
    OBVIOUS
  <2>2. SessKnows(x) /\ req'[p] = x
    BY <1>1, <2>1 DEF SessInv
  <2>3. x.pc = "append" => x.seq \in Nat
    BY <2>2 DEF SessKnows, Refreshing, RefreshReqs
  <2>4. SessKnows(x)'
    BY <1>1, <1>2, <2>2, <2>3 DEF SessKnows, IsCurrent
  <2> QED
    BY <1>1, <2>2, <2>4 DEF SessKnows, IsCurrent
<1> QED
  BY <1>3, <1>4 DEF SessInv

LEMMA SessInitHolds == SessInit => SessInv
<1> SUFFICES ASSUME SessInit PROVE SessInv
  OBVIOUS
<1>1. SessShape
  <2>1. NoSession \in Held /\ NoRow \in Found /\ NoSlot \in Slots
    BY SessFacts DEF NoSession, NoRow, NoSlot, Held, Found, Slots, NoTok
  <2> QED
    BY <2>1, SessFacts DEF SessInit, SessShape
<1>2. TokensOK /\ RotatedOK /\ SlotsOK(slots)
  BY DEF SessInit, TokensOK, RotatedOK, SlotsOK, NoSession, NoTok
<1>3. ViewOK
  BY DEF SessInit, ViewOK, NoSession
<1>4. \A q \in Requests : SessKnows(req[q])
  BY SessFacts DEF SessInit
<1> QED
  BY <1>1, <1>2, <1>3, <1>4 DEF SessInv

\* The session invariant holds, whatever the interleaving of refreshes and sign-ins over
\* any number of replicas (rotate, mint_session, append_account).
LEMMA SessInvariant == SessSpec => []SessInv
<1>1. SessInv /\ [SessNext]_sessVars => SessInv'
  <2> SUFFICES ASSUME SessInv, [SessNext]_sessVars PROVE SessInv'
    OBVIOUS
  <2>1. CASE \E q \in Requests : RefreshPresented(q) \/ RefreshFound(q) \/ RefreshLoaded(q)
    BY <2>1, PresentedStep, FoundStep, LoadedStep
  <2>2. CASE \E q \in Requests : RefreshAppended(q) \/ RefreshRemembered(q) \/ RefreshWaited(q)
    BY <2>2, AppendedStep, RememberedStep, WaitedStep
  <2>3. CASE \E q \in Requests : RefreshAnswered(q) \/ SignInLoaded(q) \/ SignInAppended(q)
    BY <2>3, AnsweredStep, SignInLoadedStep, SignInAppendedStep
  <2>4. CASE OtherAppended \/ SessTick \/ UNCHANGED sessVars
    BY <2>4, OthersStep
  <2> QED
    BY <2>1, <2>2, <2>3, <2>4 DEF SessNext
<1> QED
  BY <1>1, SessInitHolds, PTL DEF SessSpec

LEMMA SessInvIsEnough == SessInv => SessionsHold
<1> SUFFICES ASSUME SessInv PROVE SessionsHold
  OBVIOUS
<1>1. RotatesOnce
  BY DEF SessInv, RotatedOK, RotatesOnce
<1>2. ASSUME NEW t \in Toks
      PROVE  Accepts(sess, t, clock) <=> sessView[t] # NoRow /\ clock <= sessView[t].until
  <2>1. /\ t # NoTok /\ clock \in Nat /\ clock <= Forever
        /\ \A s \in Sids : s # 0
    BY SessFacts DEF SessInv, SessShape, Forever
  <2>2. \A s \in Sids : sess[s].at + Grace \in Nat
    BY SessFacts DEF SessInv, SessShape, Held
  <2>3. CASE IsCurrent(sess, t)
    <3>1. PICK s \in Sids : sess[s].cur = t
      BY <2>3 DEF IsCurrent
    <3>2. sessView[t] = [sid |-> s, until |-> Forever]
      BY <2>1, <3>1 DEF SessInv, ViewOK
    <3>3. sessView[t] # NoRow
      BY <2>1, <3>2 DEF NoRow, NoTok
    <3> QED
      BY <2>1, <2>3, <3>2, <3>3 DEF Accepts
  <2>4. CASE ~IsCurrent(sess, t) /\ \E s \in Sids : sess[s].prev = t
    <3>1. PICK s \in Sids : sess[s].prev = t
      BY <2>4
    <3>2. sessView[t] = [sid |-> s, until |-> sess[s].at + Grace]
      BY <2>1, <3>1 DEF SessInv, ViewOK
    <3>3. sessView[t] # NoRow /\ sessView[t].until = sess[s].at + Grace
      BY <2>1, <3>2 DEF NoRow, NoTok
    <3>4. \A u \in Sids : sess[u].prev = t => u = s
      BY <2>1, <3>1 DEF SessInv, TokensOK
    <3>5. Accepts(sess, t, clock) <=> clock <= sess[s].at + Grace
      BY <2>4, <3>1, <3>4 DEF Accepts, IsPrevious
    <3> QED
      BY <3>3, <3>5
  <2>5. CASE \A s \in Sids : t \notin {sess[s].cur, sess[s].prev}
    <3>1. sessView[t] = NoRow
      BY <2>5 DEF SessInv, ViewOK
    <3> QED
      BY <2>5, <3>1 DEF Accepts, IsPrevious, IsCurrent
  <2> QED
    BY <2>3, <2>4, <2>5 DEF IsCurrent
<1> QED
  BY <1>1, <1>2 DEF SessionsHold, ViewFollowsLog

\* Every request that is answered for a refresh token is given what the token's one rotation
\* put on the log, and session_view finds exactly the tokens the aggregate takes, for any
\* number of requests, replicas, sessions and tokens (auth/routes.rs rotate).
THEOREM SessionsAreRight == SessSpec => []SessionsHold
<1> QED
  BY SessInvariant, SessInvIsEnough, PTL

(***************************************************************************)
(* COWORKERS.  A request that will append holds the state the log had at   *)
(* the place it will ask for; before the hire there is nobody to edit, and *)
(* a hire under way is the only request there is.                          *)
(***************************************************************************)
CwEvents == {"none", "renamed", "shared", "unshared", "retired", "assigned", "released"}
CwPcs == {"idle", "hiring", "granting", "patching", "decorating", "deleting"}
CwHand(o) ==
    /\ o = [pc |-> o.pc, seq |-> o.seq, read |-> o.read, event |-> o.event, title |-> o.title,
            template |-> o.template]
    /\ o.pc \in CwPcs /\ o.seq \in Nat /\ o.event \in CwEvents

\* What a request that will append knows of the log l.
CwKnows(o, l) ==
    /\ o.pc \in {"patching", "deleting"} => o.seq <= l.seq /\ (o.seq = l.seq => o.read = l.state)
    /\ o.pc = "hiring" => o.read = Unhired /\ l.seq = 0 /\ l.state = Unhired

RosterInv ==
    /\ cwLog.seq \in Nat
    /\ cwReq = [q \in CwReqs |-> cwReq[q]] /\ \A q \in CwReqs : CwHand(cwReq[q])
    /\ RosterFollowsLog
    /\ cwLog.seq = 0 => cwLog.state = Unhired
    /\ \A q \in CwReqs : CwKnows(cwReq[q], cwLog)
    /\ \A q, p \in CwReqs : cwReq[q].pc = "hiring" /\ p # q => cwReq[p].pc = "idle"

LEMMA NoReqIs ==
    /\ CwHand(NoReq) /\ NoReq.pc = "idle" /\ NoReq.read = Unhired
    /\ ~Alive(Unhired)
<1>1. ~Alive(Unhired)
  BY DEF Unhired, Alive
<1> QED
  BY <1>1 DEF NoReq, CwHand, CwPcs, CwEvents

\* A request moves on, and the log does not.
LEMMA CwMovesOn ==
    ASSUME RosterInv, NEW q \in CwReqs, NEW o, CwHand(o), CwKnows(o, cwLog),
           cwReq' = [cwReq EXCEPT ![q] = o], UNCHANGED <<cwLog, cwRow>>,
           o.pc = "idle"
              \/ (o.pc \in {"granting", "decorating"} /\ cwReq[q].pc # "idle")
              \/ (o.pc = "hiring" /\ \A p \in CwReqs : cwReq[p].pc = "idle")
              \/ (o.pc \in {"patching", "deleting"} /\ cwLog.state # Unhired)
    PROVE  RosterInv'
<1>1. /\ cwReq' = [p \in CwReqs |-> cwReq'[p]] /\ (\A p \in CwReqs : CwHand(cwReq'[p])) /\ cwReq'[q] = o
      /\ \A p \in CwReqs \ {q} : cwReq'[p] = cwReq[p]
  BY DEF RosterInv
<1>2. \A p \in CwReqs : CwKnows(cwReq'[p], cwLog)
  <2>1. ASSUME NEW p \in CwReqs
        PROVE  CwKnows(cwReq'[p], cwLog)
    <3>1. cwReq'[p] = o \/ cwReq'[p] = cwReq[p]
      BY <1>1
    <3>2. CwKnows(cwReq[p], cwLog)
      BY DEF RosterInv
    <3> QED
      BY <3>1, <3>2 DEF CwKnows
  <2> QED
    BY <2>1
<1>3. ASSUME NEW r \in CwReqs, NEW p \in CwReqs, cwReq'[r].pc = "hiring", p # r
      PROVE  cwReq'[p].pc = "idle"
  <2>1. CASE r = q
    BY <1>1, <1>3, <2>1
  <2>2. CASE r # q
    <3>1. cwReq[r].pc = "hiring" /\ CwHand(cwReq[r])
      BY <1>1, <1>3, <2>2 DEF RosterInv
    <3>2. cwReq[q].pc = "idle" /\ CwKnows(cwReq[r], cwLog)
      BY <2>2, <3>1 DEF RosterInv
    <3>3. cwLog.state = Unhired
      BY <3>1, <3>2 DEF CwKnows
    <3>4. CASE p # q
      BY <1>1, <1>3, <3>1, <3>4 DEF RosterInv
    <3>5. CASE p = q
      <4>1. o.pc = "idle"
        BY <3>1, <3>2, <3>3
      <4> QED
        BY <1>1, <3>5, <4>1
    <3> QED
      BY <3>4, <3>5
  <2> QED
    BY <2>1, <2>2
<1> QED
  BY <1>1, <1>2, <1>3 DEF RosterInv, RosterFollowsLog

\* An append at the place that was read: the row and the log say the same again.
LEMMA CwAppends ==
    ASSUME RosterInv, NEW q \in CwReqs, NEW o, CwHand(o), o.pc \in {"granting", "decorating", "idle"},
           NEW e \in (CwEvents \ {"none"}) \cup {"hired", "hiredBoxed"},
           cwReq[q].pc # "idle", cwReq[q].read = cwLog.state,
           cwReq' = [cwReq EXCEPT ![q] = o], Appended(q, e)
    PROVE  RosterInv'
<1>1. PICK c, n : c = Applied(cwLog.state, e) /\ n = cwLog.seq
  OBVIOUS
<1>2. cwLog' = [seq |-> n + 1, state |-> c] /\ cwRow' = c
  BY <1>1 DEF Appended
<1>3. n \in Nat
  BY <1>1 DEF RosterInv
<1>5. cwLog'.seq \in Nat /\ cwLog'.seq = n + 1 /\ cwLog'.seq # 0 /\ cwRow' = cwLog'.state
  BY <1>2, <1>3
<1>6. /\ cwReq' = [p \in CwReqs |-> cwReq'[p]] /\ (\A p \in CwReqs : CwHand(cwReq'[p])) /\ cwReq'[q] = o
      /\ \A p \in CwReqs \ {q} : cwReq'[p] = cwReq[p]
  BY DEF RosterInv
<1>7. \A p \in CwReqs : cwReq'[p].pc # "hiring"
  BY <1>6 DEF RosterInv
<1>8. ASSUME NEW p \in CwReqs
      PROVE  CwKnows(cwReq'[p], cwLog')
  <2>1. CASE p = q
    BY <1>6, <2>1 DEF CwKnows
  <2>2. CASE p # q
    <3>1. CwKnows(cwReq[p], cwLog) /\ cwReq'[p] = cwReq[p] /\ CwHand(cwReq[p])
      BY <1>6, <2>2 DEF RosterInv
    <3>2. cwReq[p].seq \in Nat
      BY <3>1 DEF CwHand
    <3>3. cwReq[p].pc \in {"patching", "deleting"} => cwReq[p].seq <= n
      BY <1>1, <3>1 DEF CwKnows
    <3> QED
      BY <1>3, <1>5, <1>7, <3>1, <3>2, <3>3 DEF CwKnows
  <2> QED
    BY <2>1, <2>2
<1> QED
  BY <1>5, <1>6, <1>7, <1>8 DEF RosterInv, RosterFollowsLog

\* What a request that goes on becomes.
LEMMA CwGoes ==
    ASSUME RosterInv, NEW q \in CwReqs, NEW pc \in {"granting", "decorating"}, CwGoto(q, pc)
    PROVE  \E o : CwHand(o) /\ o.pc = pc /\ CwKnows(o, cwLog) /\ cwReq' = [cwReq EXCEPT ![q] = o]
<1>1. CwHand(cwReq[q])
  BY DEF RosterInv
<1>2. PICK o : o = [cwReq[q] EXCEPT !.pc = pc]
  OBVIOUS
<1>3. CwHand(o) /\ o.pc = pc
  BY <1>1, <1>2 DEF CwHand, CwPcs
<1> QED
  BY <1>2, <1>3 DEF CwGoto, CwKnows

LEMMA CwEnds ==
    ASSUME RosterInv, NEW q \in CwReqs, CwDone(q)
    PROVE  CwHand(NoReq) /\ NoReq.pc = "idle" /\ CwKnows(NoReq, cwLog) /\ cwReq' = [cwReq EXCEPT ![q] = NoReq]
BY NoReqIs DEF CwDone, CwKnows

\* The coworker is alive on the log, so it has been hired.
LEMMA AliveIsHired == \A c : Alive(c) => c # Unhired
BY NoReqIs

\* A request begins: it has read a log that has somebody on it.
LEMMA CwBegins ==
    ASSUME RosterInv, NEW q \in CwReqs, NEW o, CwHand(o), o.pc \in {"patching", "deleting"},
           o.seq = cwLog.seq, o.read = cwLog.state, cwLog.state # Unhired,
           UNCHANGED <<cwLog, cwRow>>, cwReq' = [cwReq EXCEPT ![q] = o]
    PROVE  RosterInv'
<1>1. cwLog.seq \in Nat
  BY DEF RosterInv
<1>2. CwKnows(o, cwLog)
  BY <1>1 DEF CwKnows
<1> QED
  BY <1>2, CwMovesOn

LEMMA HireSteps ==
    ASSUME RosterInv, NEW q \in CwReqs, NEW template \in BOOLEAN,
           HireBegins(q, template) \/ HireLands(q) \/ HireGrants(q)
    PROVE  RosterInv'
<1>1. CASE HireBegins(q, template)
  <2>1. PICK o : o = [NoReq EXCEPT !.pc = "hiring", !.template = template]
    OBVIOUS
  <2>2. CwHand(o) /\ o.pc = "hiring" /\ o.read = Unhired
    BY <2>1, NoReqIs DEF CwHand, CwPcs
  <2>3. cwLog.seq = 0 /\ cwLog.state = Unhired
    BY <1>1 DEF HireBegins, RosterInv
  <2>5. CwKnows(o, cwLog)
    BY <2>2, <2>3 DEF CwKnows
  <2>6. /\ cwReq' = [cwReq EXCEPT ![q] = o] /\ UNCHANGED <<cwLog, cwRow>>
        /\ \A p \in CwReqs : cwReq[p].pc = "idle"
    BY <1>1, <2>1 DEF HireBegins
  <2> QED
    BY <2>2, <2>5, <2>6, CwMovesOn
<1>2. CASE HireLands(q)
  <2>1. cwReq[q].pc = "hiring"
    BY <1>2 DEF HireLands
  <2>2. CASE CwDone(q) /\ UNCHANGED <<cwLog, cwRow>>
    BY <2>2, CwEnds, CwMovesOn
  <2>3. CASE \E e \in {"hired", "hiredBoxed"} : Appended(q, e) /\ CwGoto(q, "granting")
    <3>1. PICK e \in {"hired", "hiredBoxed"} : Appended(q, e) /\ CwGoto(q, "granting")
      BY <2>3
    <3>2. PICK o : CwHand(o) /\ o.pc = "granting" /\ cwReq' = [cwReq EXCEPT ![q] = o]
      BY <3>1, CwGoes
    <3>3. CwKnows(cwReq[q], cwLog)
      BY DEF RosterInv
    <3>4. cwReq[q].read = cwLog.state
      BY <2>1, <3>3 DEF CwKnows
    <3>5. e \in (CwEvents \ {"none"}) \cup {"hired", "hiredBoxed"}
      OBVIOUS
    <3> QED
      BY <2>1, <3>1, <3>2, <3>4, <3>5, CwAppends
  <2> QED
    BY <1>2, <2>2, <2>3 DEF HireLands
<1>3. CASE HireGrants(q)
  <2>1. CwDone(q) /\ UNCHANGED <<cwLog, cwRow>>
    BY <1>3 DEF HireGrants
  <2> QED
    BY <2>1, CwEnds, CwMovesOn
<1> QED
  BY <1>1, <1>2, <1>3

LEMMA EditBegins ==
    ASSUME RosterInv, NEW q \in CwReqs, NEW title \in BOOLEAN,
           (\E e \in {"none", "renamed", "shared", "unshared"} : PatchBegins(q, e, title))
              \/ (\E e \in {"assigned", "released"} : ComputerBegins(q, e)) \/ DeleteBegins(q)
    PROVE  RosterInv'
<1>1. cwRow = cwLog.state /\ (Alive(cwLog.state) => cwLog.state # Unhired)
  BY AliveIsHired DEF RosterInv, RosterFollowsLog
<1>0. cwLog.seq \in Nat 
  BY DEF RosterInv
<1>2. ASSUME NEW e \in {"none", "renamed", "shared", "unshared"}, PatchBegins(q, e, title)
      PROVE  RosterInv'
  <2>1. PICK o : o = [NoReq EXCEPT !.pc = "patching", !.seq = cwLog.seq,
                                 !.read = cwLog.state, !.event = e, !.title = title]
    OBVIOUS
  <2>2. CwHand(o) /\ o.pc \in {"patching", "deleting"} /\ o.seq = cwLog.seq /\ o.read = cwLog.state
    BY <1>0, <2>1, NoReqIs DEF CwHand, CwPcs, CwEvents
  <2>3. cwReq' = [cwReq EXCEPT ![q] = o] /\ UNCHANGED <<cwLog, cwRow>>
    BY <1>2, <2>1 DEF PatchBegins
  <2>4. cwLog.state # Unhired
    BY <1>1, <1>2 DEF PatchBegins, OnRoster
  <2> QED
    BY <2>2, <2>3, <2>4, CwBegins
<1>3. ASSUME NEW e \in {"assigned", "released"}, ComputerBegins(q, e)
      PROVE  RosterInv'
  <2>1. PICK o : o = [NoReq EXCEPT !.pc = "patching", !.seq = cwLog.seq,
                                 !.read = cwLog.state, !.event = e]
    OBVIOUS
  <2>2. CwHand(o) /\ o.pc \in {"patching", "deleting"} /\ o.seq = cwLog.seq /\ o.read = cwLog.state
    BY <1>0, <2>1, NoReqIs DEF CwHand, CwPcs, CwEvents
  <2>3. cwReq' = [cwReq EXCEPT ![q] = o] /\ UNCHANGED <<cwLog, cwRow>>
    BY <1>3, <2>1 DEF ComputerBegins
  <2>4. cwLog.state # Unhired
    BY <1>1, <1>3 DEF ComputerBegins, Decides
  <2> QED
    BY <2>2, <2>3, <2>4, CwBegins
<1>4. ASSUME DeleteBegins(q)
      PROVE  RosterInv'
  <2>1. PICK o : o = [NoReq EXCEPT !.pc = "deleting", !.seq = cwLog.seq, !.read = cwLog.state]
    OBVIOUS
  <2>2. CwHand(o) /\ o.pc \in {"patching", "deleting"} /\ o.seq = cwLog.seq /\ o.read = cwLog.state
    BY <1>0, <2>1, NoReqIs DEF CwHand, CwPcs, CwEvents
  <2>3. cwReq' = [cwReq EXCEPT ![q] = o] /\ UNCHANGED <<cwLog, cwRow>>
    BY <1>4, <2>1 DEF DeleteBegins
  <2>4. cwLog.state # Unhired
    BY <1>1, <1>4 DEF DeleteBegins, OnRoster
  <2> QED
    BY <2>2, <2>3, <2>4, CwBegins
<1> QED
  BY <1>2, <1>3, <1>4

LEMMA EditLands ==
    ASSUME RosterInv, NEW q \in CwReqs, PatchLands(q) \/ PatchDecorates(q) \/ DeleteLands(q)
    PROVE  RosterInv'
<1>1. CwKnows(cwReq[q], cwLog) /\ CwHand(cwReq[q])
  BY DEF RosterInv
<1>2. CASE PatchDecorates(q)
  <2>1. CwDone(q) /\ UNCHANGED <<cwLog, cwRow>>
    BY <1>2 DEF PatchDecorates
  <2> QED
    BY <2>1, CwEnds, CwMovesOn
<1>3. CASE PatchLands(q)
  <2>1. cwReq[q].pc = "patching"
    BY <1>3 DEF PatchLands
  <2>2. CASE CwGoto(q, "decorating") /\ UNCHANGED <<cwLog, cwRow>>
    <3>1. PICK o : CwHand(o) /\ o.pc = "decorating" /\ CwKnows(o, cwLog) /\ cwReq' = [cwReq EXCEPT ![q] = o]
      BY <2>2, CwGoes
    <3> QED
      BY <2>1, <2>2, <3>1, CwMovesOn
  <2>3. CASE CwDone(q) /\ UNCHANGED <<cwLog, cwRow>>
    BY <2>3, CwEnds, CwMovesOn
  <2>4. CASE cwReq[q].event # "none" /\ AtItsPlace(q) /\ Appended(q, cwReq[q].event) /\ CwGoto(q, "decorating")
    <3>1. PICK o : CwHand(o) /\ o.pc = "decorating" /\ cwReq' = [cwReq EXCEPT ![q] = o]
      BY <2>4, CwGoes
    <3>2. PICK e : e = cwReq[q].event
      OBVIOUS
    <3>3. e \in CwEvents \ {"none"} /\ Appended(q, e)
      BY <1>1, <2>4, <3>2 DEF CwHand
    <3>4. cwReq[q].read = cwLog.state
      BY <1>1, <2>1, <2>4 DEF CwKnows, AtItsPlace
    <3> QED
      BY <2>1, <3>1, <3>3, <3>4, CwAppends
  <2> QED
    BY <1>3, <2>2, <2>3, <2>4 DEF PatchLands
<1>4. CASE DeleteLands(q)
  <2>1. cwReq[q].pc = "deleting" /\ CwDone(q)
    BY <1>4 DEF DeleteLands
  <2>2. CASE AtItsPlace(q) /\ Appended(q, "retired")
    <3>1. cwReq[q].read = cwLog.state
      BY <1>1, <2>1, <2>2 DEF CwKnows, AtItsPlace
    <3>2. "retired" \in CwEvents \ {"none"}
      BY DEF CwEvents
    <3> QED
      BY <2>1, <2>2, <3>1, <3>2, CwEnds, CwAppends
  <2>3. CASE UNCHANGED <<cwLog, cwRow>>
    BY <2>1, <2>3, CwEnds, CwMovesOn
  <2> QED
    BY <1>4, <2>2, <2>3 DEF DeleteLands
<1> QED
  BY <1>2, <1>3, <1>4

LEMMA RosterInvariant == CwSpec => []RosterInv
<1>1. CwInit => RosterInv
  BY NoReqIs DEF CwInit, RosterInv, RosterFollowsLog, CwKnows
<1>2. RosterInv /\ [CwNext]_cwVars => RosterInv'
  <2> SUFFICES ASSUME RosterInv, [CwNext]_cwVars PROVE RosterInv'
    OBVIOUS
  <2>1. CASE \E q \in CwReqs : (\E template \in BOOLEAN : HireBegins(q, template)) \/ HireLands(q) \/ HireGrants(q)
    BY <2>1, HireSteps
  <2>2. CASE \E q \in CwReqs :
          \/ \E e \in {"none", "renamed", "shared", "unshared"}, title \in BOOLEAN : PatchBegins(q, e, title)
          \/ \E e \in {"assigned", "released"} : ComputerBegins(q, e)
          \/ DeleteBegins(q)
    BY <2>2, EditBegins
  <2>3. CASE \E q \in CwReqs : PatchLands(q) \/ PatchDecorates(q) \/ DeleteLands(q)
    BY <2>3, EditLands
  <2>4. CASE UNCHANGED <<cwLog, cwRow, cwReq>>
    BY <2>4 DEF RosterInv, RosterFollowsLog
  <2>5. ASSUME \/ \E a \in {Owner, Mate} : Hides(a, a \notin cwHidden)
               \/ \E asks \in {{}, {"shell"}} : SetApprovals(asks)
               \/ OrgMoves(Owner)
               \/ UNCHANGED cwVars
        PROVE  UNCHANGED <<cwLog, cwRow, cwReq>>
    BY <2>5 DEF Hides, SetApprovals, OrgMoves, cwVars
  <2> QED
    BY <2>1, <2>2, <2>3, <2>4, <2>5 DEF CwNext
<1> QED
  BY <1>1, <1>2, PTL DEF CwSpec

\* The roster row of a coworker is what its log replays to, for any number of requests that
\* hire, edit, assign and retire at once (append_coworker).
THEOREM RosterIsTrue == CwSpec => []RosterFollowsLog
<1>1. RosterInv => RosterFollowsLog
  BY DEF RosterInv
<1> QED
  BY <1>1, RosterInvariant, PTL

(***************************************************************************)
(* LOGINS.  A nonce is sealed under once, so the row a reseal read is      *)
(* either still there as it was or was written since, under the current    *)
(* key; what a reseal has passed is under the current key unless it was    *)
(* counted as bad.                                                         *)
(***************************************************************************)
LoginSecrets == [ver : Nat, key : Nat, nonce : Nat]
UnderCurrent(s) == s = NoSecret \/ s.key = server.current

LoginShape ==
    /\ secret \in [LoginIds -> LoginSecrets] /\ newest \in [LoginIds -> Nat]
    /\ nonces \in Nat /\ saves \in Nat /\ login \in LoginIds \cup {NoLogin}
    /\ server = [current |-> server.current, retired |-> server.retired]
    /\ server.current \in KeyIds

SealedOnce ==
    \A i \in LoginIds : IF secret[i] = NoSecret THEN TRUE ELSE secret[i].nonce \in 1..nonces

ResealOK ==
    /\ reseal.pc \in {"none", "scan", "write"}
    /\ reseal.pc = "scan" => reseal = [pc |-> "scan", todo |-> reseal.todo, bad |-> reseal.bad]
    /\ reseal.pc # "none" => server.retired # {} /\ reseal.todo \subseteq LoginIds /\ reseal.bad \in Nat
    /\ reseal.pc # "none" /\ reseal.bad = 0 =>
          \A i \in LoginIds \ reseal.todo :
             UnderCurrent(secret[i]) \/ (reseal.pc = "write" /\ i = reseal.id)
    /\ reseal.pc = "write" =>
          /\ reseal.id \in LoginIds
          /\ reseal.sealed \in LoginSecrets /\ reseal.sealed # NoSecret /\ reseal.sealed.nonce \in 1..nonces
          /\ secret[reseal.id] = reseal.sealed
                \/ (secret[reseal.id].nonce # reseal.sealed.nonce /\ UnderCurrent(secret[reseal.id]))

LoginInv == LoginShape /\ SecretsKept /\ SealedOnce /\ ResealOK

LEMMA LoginFacts ==
    /\ LoginIds \subseteq Nat /\ 0 \notin LoginIds /\ KeyIds \subseteq Nat /\ KeyIds # {}
    /\ NoSecret \in LoginSecrets /\ NoSecret.ver = 0 /\ NoSecret.nonce = 0
    /\ NoLogin = 0 /\ UnderCurrent(NoSecret)
BY LoginsAssumption DEF NoSecret, LoginSecrets, NoLogin, UnderCurrent

LEMMA FirstOf ==
    ASSUME NEW S \in SUBSET Nat, S # {}
    PROVE  \E x \in S : \A y \in S : x <= y
<1> DEFINE R == OpToRel(<, Nat)
<1>1. IsWellFoundedOn(R, Nat)
  BY NatLessThanWellFounded
<1>2. PICK x \in S : \A y \in S : <<y, x>> \notin R
  <2> HIDE DEF R
  <2> QED
    BY <1>1, WFMin
<1>3. \A y \in S : ~(y < x)
  BY <1>2, Zenon DEF OpToRel
<1> QED
  BY <1>3

LEMMA LoginInitHolds == LoginInit => LoginInv
<1> SUFFICES ASSUME LoginInit PROVE LoginInv
  OBVIOUS
<1>1. FirstKey \in KeyIds
  <2>1. \E k \in KeyIds : \A j \in KeyIds : k <= j
    BY LoginFacts, FirstOf
  <2> QED
    BY <2>1 DEF FirstKey
<1> QED
  BY <1>1, LoginFacts
     DEF LoginInit, LoginInv, LoginShape, SecretsKept, SealedOnce, ResealOK, NoReseal

\* Nothing that is stored moves.
LEMMA LoginStands ==
    ASSUME LoginInv, UNCHANGED <<login, secret, newest, saves, nonces, server, reseal>>
    PROVE  LoginInv'
BY DEF LoginInv, LoginShape, SecretsKept, SealedOnce, ResealOK, UnderCurrent, Opens

\* A row written, sealed under the current key and a fresh nonce, or emptied.
WritesSecret(i, s, v) ==
    /\ secret' = [secret EXCEPT ![i] = s] /\ newest' = [newest EXCEPT ![i] = v] /\ UNCHANGED <<server, reseal>>
    /\ s \in LoginSecrets /\ s.ver = v
    /\ s = NoSecret \/ (s.key = server.current /\ s.nonce = nonces + 1 /\ login' = i)
    /\ \A j \in LoginIds \ {i} : secret[j] = NoSecret
    /\ nonces' \in {nonces, nonces + 1} /\ (s # NoSecret => nonces' = nonces + 1)
    /\ saves' \in Nat /\ login' \in LoginIds \cup {NoLogin}

LEMMA SecretWritten ==
    ASSUME LoginInv, NEW i \in LoginIds, NEW s, NEW v, WritesSecret(i, s, v)
    PROVE  LoginInv'
<1>1. /\ secret' = [secret EXCEPT ![i] = s] /\ newest' = [newest EXCEPT ![i] = v] /\ UNCHANGED <<server, reseal>>
      /\ s \in LoginSecrets /\ s.ver = v /\ v \in Nat
      /\ s = NoSecret \/ (s.key = server.current /\ s.nonce = nonces + 1 /\ login' = i)
      /\ \A j \in LoginIds \ {i} : secret[j] = NoSecret
      /\ nonces' \in {nonces, nonces + 1} /\ (s # NoSecret => nonces' = nonces + 1)
      /\ saves' \in Nat /\ login' \in LoginIds \cup {NoLogin}
  BY DEF WritesSecret, LoginSecrets
<1>2. /\ secret \in [LoginIds -> LoginSecrets] /\ newest \in [LoginIds -> Nat] /\ nonces \in Nat
      /\ server = [current |-> server.current, retired |-> server.retired] /\ server.current \in KeyIds
  BY DEF LoginInv, LoginShape
<1>3. /\ secret' \in [LoginIds -> LoginSecrets] /\ secret'[i] = s
      /\ \A j \in LoginIds \ {i} : secret'[j] = secret[j] /\ secret'[j] = NoSecret
      /\ newest' \in [LoginIds -> Nat] /\ newest'[i] = v /\ \A j \in LoginIds \ {i} : newest'[j] = newest[j]
  BY <1>1, <1>2
<1>4. LoginShape'
  BY <1>1, <1>2, <1>3 DEF LoginShape
<1>5. SecretsKept'
  <2>1. ASSUME NEW j \in LoginIds
        PROVE  /\ secret'[j].ver = newest'[j]
               /\ secret'[j] # NoSecret => login' = j /\ Opens(server', secret'[j])
    <3>1. CASE j = i
      BY <1>1, <1>3, <3>1 DEF Opens
    <3>2. CASE j # i
      BY <1>1, <1>3, <3>2 DEF LoginInv, SecretsKept
    <3> QED
      BY <3>1, <3>2
  <2> QED
    BY <2>1 DEF SecretsKept
<1>6. SealedOnce'
  <2>1. ASSUME NEW j \in LoginIds, secret'[j] # NoSecret
        PROVE  secret'[j].nonce \in 1..nonces'
    BY <1>1, <1>2, <1>3, <2>1
  <2> QED
    BY <2>1 DEF SealedOnce
<1>7. ResealOK'
  <2>1. UnderCurrent(s) /\ server' = server
    BY <1>1 DEF UnderCurrent
  <2>2. \A j \in LoginIds : UnderCurrent(secret[j]) => UnderCurrent(secret'[j])
    BY <1>3, <2>1
  <2>3. ASSUME reseal.pc = "write"
        PROVE  secret'[reseal.id] = reseal.sealed
                  \/ (secret'[reseal.id].nonce # reseal.sealed.nonce /\ UnderCurrent(secret'[reseal.id]))
    <3>1. reseal.id \in LoginIds /\ reseal.sealed.nonce \in 1..nonces
      BY <2>3 DEF LoginInv, ResealOK
    <3>2. CASE reseal.id = i
      <4>1. s.nonce # reseal.sealed.nonce
        BY <1>1, <1>2, <3>1, LoginFacts
      <4> QED
        BY <1>3, <2>1, <3>2, <4>1
    <3>3. CASE reseal.id # i
      BY <1>3, <2>3, <3>1, <3>3 DEF LoginInv, ResealOK
    <3> QED
      BY <3>2, <3>3
  <2>4. reseal.pc = "write" => reseal.sealed.nonce \in 1..nonces'
    BY <1>1, <1>2 DEF LoginInv, ResealOK
  <2>5. /\ reseal.pc \in {"none", "scan", "write"}
        /\ reseal.pc = "scan" => reseal = [pc |-> "scan", todo |-> reseal.todo, bad |-> reseal.bad]
        /\ reseal.pc # "none" => server.retired # {} /\ reseal.todo \subseteq LoginIds /\ reseal.bad \in Nat
        /\ reseal.pc = "write" => reseal.id \in LoginIds /\ reseal.sealed \in LoginSecrets /\ reseal.sealed # NoSecret
    BY DEF LoginInv, ResealOK
  <2>6. ASSUME reseal.pc # "none", reseal.bad = 0, NEW j \in LoginIds \ reseal.todo
        PROVE  UnderCurrent(secret'[j]) \/ (reseal.pc = "write" /\ j = reseal.id)
    BY <2>2, <2>6 DEF LoginInv, ResealOK
  <2>7. reseal' = reseal /\ server' = server
    BY <1>1
  <2> QED
    BY <2>3, <2>4, <2>5, <2>6, <2>7 DEF ResealOK, UnderCurrent
<1> QED
  BY <1>4, <1>5, <1>6, <1>7 DEF LoginInv

LEMMA SavedStep ==
    ASSUME LoginInv, LoginSaved
    PROVE  LoginInv'
<1>1. PICK i \in LoginIds :
        /\ IF login = NoLogin THEN i \notin used ELSE i = login
        /\ login' = i /\ secret' = [secret EXCEPT ![i] = Seal(server, saves + 1)]
        /\ newest' = [newest EXCEPT ![i] = saves + 1]
  BY DEF LoginSaved
<1>2. PICK s, v : s = Seal(server, saves + 1) /\ v = saves + 1
  OBVIOUS
<1>3. saves \in Nat /\ nonces \in Nat /\ server.current \in Nat /\ login \in LoginIds \cup {NoLogin}
  BY LoginFacts DEF LoginInv, LoginShape
<1>4. s \in LoginSecrets /\ s.ver = v /\ s.key = server.current /\ s.nonce = nonces + 1
  BY <1>2, <1>3 DEF Seal, LoginSecrets
<1>5. \A j \in LoginIds \ {i} : secret[j] = NoSecret
  BY <1>1, LoginFacts DEF LoginInv, SecretsKept
<1>6. /\ saves' = v /\ nonces' = nonces + 1 /\ UNCHANGED <<server, reseal>>
      /\ secret' = [secret EXCEPT ![i] = s] /\ newest' = [newest EXCEPT ![i] = v]
  BY <1>1, <1>2 DEF LoginSaved
<1>7. WritesSecret(i, s, v)
  BY <1>1, <1>2, <1>3, <1>4, <1>5, <1>6 DEF WritesSecret
<1> QED
  BY <1>7, SecretWritten

LEMMA DeletedStep ==
    ASSUME LoginInv, LoginDeleted
    PROVE  LoginInv'
<1>1. PICK i : i = login
  OBVIOUS
<1>2. i \in LoginIds /\ i # NoLogin /\ saves \in Nat
  BY <1>1 DEF LoginDeleted, LoginInv, LoginShape
<1>3. \A j \in LoginIds \ {i} : secret[j] = NoSecret
  BY <1>1 DEF LoginInv, SecretsKept
<1>4. WritesSecret(i, NoSecret, 0)
  BY <1>1, <1>2, <1>3, LoginFacts DEF WritesSecret, LoginDeleted
<1> QED
  BY <1>2, <1>4, SecretWritten

LEMMA RotatedStep ==
    ASSUME LoginInv, KeyRotated
    PROVE  LoginInv'
<1>1. /\ server.retired = {} /\ server.current + 1 \in KeyIds
      /\ server' = [current |-> server.current + 1, retired |-> {server.current}]
      /\ UNCHANGED <<login, secret, newest, saves, nonces, reseal>>
  BY DEF KeyRotated
<1>2. reseal.pc = "none"
  BY <1>1 DEF LoginInv, ResealOK
<1>3. \A i \in LoginIds : Opens(server, secret[i]) => Opens(server', secret[i])
  BY <1>1 DEF Opens
<1>4. LoginShape' /\ SealedOnce'
  BY <1>1 DEF LoginInv, LoginShape, SealedOnce
<1>5. SecretsKept'
  BY <1>1, <1>3 DEF LoginInv, SecretsKept
<1>6. ResealOK'
  BY <1>1, <1>2 DEF ResealOK
<1> QED
  BY <1>4, <1>5, <1>6 DEF LoginInv

LEMMA BegunStep ==
    ASSUME LoginInv, ResealBegun
    PROVE  LoginInv'
<1>1. /\ server.retired # {} /\ reseal' = [pc |-> "scan", todo |-> LoginIds, bad |-> 0]
      /\ UNCHANGED <<login, secret, newest, saves, nonces, server>>
  BY DEF ResealBegun
<1>2. ResealOK'
  BY <1>1 DEF ResealOK
<1>3. LoginShape' /\ SealedOnce' /\ SecretsKept'
  BY <1>1 DEF LoginInv, LoginShape, SealedOnce, SecretsKept, Opens
<1> QED
  BY <1>2, <1>3 DEF LoginInv

LEMMA CrashedStep ==
    ASSUME LoginInv, ResealCrashed
    PROVE  LoginInv'
<1>1. reseal' = NoReseal /\ UNCHANGED <<login, secret, newest, saves, nonces, server>>
  BY DEF ResealCrashed
<1>2. ResealOK'
  BY <1>1 DEF ResealOK, NoReseal
<1>3. LoginShape' /\ SealedOnce' /\ SecretsKept'
  BY <1>1 DEF LoginInv, LoginShape, SealedOnce, SecretsKept, Opens
<1> QED
  BY <1>2, <1>3 DEF LoginInv

LEMMA ReadStep ==
    ASSUME LoginInv, ResealRead
    PROVE  LoginInv'
<1>1. /\ reseal.pc = "scan" /\ reseal.todo # {}
      /\ UNCHANGED <<login, secret, newest, saves, nonces, server>>
  BY DEF ResealRead
<1>2. PICK i : i = CHOOSE j \in reseal.todo : \A k \in reseal.todo : j <= k
  OBVIOUS
<1>3. reseal.todo \subseteq LoginIds /\ reseal.bad \in Nat /\ server.retired # {}
      /\ reseal = [pc |-> "scan", todo |-> reseal.todo, bad |-> reseal.bad]
  BY <1>1 DEF LoginInv, ResealOK
<1>4. i \in reseal.todo /\ i \in LoginIds
  <2>1. \E j \in reseal.todo : \A k \in reseal.todo : j <= k
    BY <1>1, <1>3, LoginFacts, FirstOf
  <2> QED
    BY <1>2, <1>3, <2>1
<1>5. PICK s, todo, bad : s = secret[i] /\ todo = reseal.todo \ {i} /\ bad = reseal.bad
  OBVIOUS
<1>6. /\ reseal' = IF s = NoSecret \/ s.key = server.current THEN [reseal EXCEPT !.todo = reseal.todo \ {i}]
                   ELSE IF ~Opens(server, s) THEN [[reseal EXCEPT !.todo = reseal.todo \ {i}] EXCEPT !.bad = @ + 1]
                   ELSE [pc |-> "write", todo |-> [reseal EXCEPT !.todo = reseal.todo \ {i}].todo,
                         bad |-> reseal.bad, id |-> i, sealed |-> s]
  BY <1>2, <1>5 DEF ResealRead
<1>7. [reseal EXCEPT !.todo = reseal.todo \ {i}] = [pc |-> "scan", todo |-> todo, bad |-> bad]
  BY <1>3, <1>5
<1>8. \/ reseal' = [pc |-> "scan", todo |-> todo, bad |-> bad] /\ UnderCurrent(s)
      \/ reseal' = [pc |-> "scan", todo |-> todo, bad |-> bad + 1]
      \/ /\ reseal' = [pc |-> "write", todo |-> todo, bad |-> bad, id |-> i, sealed |-> s]
         /\ s # NoSecret
  BY <1>5, <1>6, <1>7 DEF UnderCurrent
<1>9. bad \in Nat /\ bad + 1 # 0 /\ todo \subseteq LoginIds
  BY <1>3, <1>5
<1>10. bad = 0 => \A j \in LoginIds \ todo : j # i => UnderCurrent(secret[j])
  BY <1>1, <1>5 DEF LoginInv, ResealOK
<1>11. /\ secret' = secret /\ nonces' = nonces /\ server' = server
       /\ \A x : UnderCurrent(x)' <=> UnderCurrent(x)
  BY <1>1 DEF UnderCurrent
<1>12. ResealOK'
  <2>1. CASE reseal' = [pc |-> "scan", todo |-> todo, bad |-> bad] /\ UnderCurrent(s)
    <3>1. bad = 0 => \A j \in LoginIds \ todo : UnderCurrent(secret[j])
      BY <1>5, <1>10, <2>1
    <3> QED
      BY <1>3, <1>9, <1>11, <2>1, <3>1 DEF ResealOK, UnderCurrent
  <2>2. CASE reseal' = [pc |-> "scan", todo |-> todo, bad |-> bad + 1]
    BY <1>3, <1>9, <1>11, <2>2 DEF ResealOK
  <2>3. CASE /\ reseal' = [pc |-> "write", todo |-> todo, bad |-> bad, id |-> i, sealed |-> s]
             /\ s # NoSecret
    <3>1. s \in LoginSecrets /\ s.nonce \in 1..nonces
      BY <1>4, <1>5, <2>3 DEF LoginInv, LoginShape, SealedOnce
    <3> QED
      BY <1>3, <1>4, <1>5, <1>9, <1>10, <1>11, <2>3, <3>1 DEF ResealOK, UnderCurrent
  <2> QED
    BY <1>8, <2>1, <2>2, <2>3
<1>13. LoginShape' /\ SealedOnce' /\ SecretsKept'
  BY <1>1 DEF LoginInv, LoginShape, SealedOnce, SecretsKept, Opens
<1> QED
  BY <1>12, <1>13 DEF LoginInv

LEMMA WrittenStep ==
    ASSUME LoginInv, ResealWritten
    PROVE  LoginInv'
<1>1. PICK i, s, todo, bad : i = reseal.id /\ s = reseal.sealed /\ todo = reseal.todo /\ bad = reseal.bad
  OBVIOUS
<1>2. /\ reseal.pc = "write" /\ nonces' = nonces + 1
      /\ reseal' = [pc |-> "scan", todo |-> todo, bad |-> bad]
      /\ UNCHANGED <<login, newest, saves, server>>
      /\ secret' = IF secret[i].nonce = s.nonce THEN [secret EXCEPT ![i] = Seal(server, s.ver)] ELSE secret
  BY <1>1 DEF ResealWritten, StillAsRead
<1>3. /\ i \in LoginIds /\ s \in LoginSecrets /\ s # NoSecret /\ s.nonce \in 1..nonces
      /\ secret[i] = s \/ (secret[i].nonce # s.nonce /\ UnderCurrent(secret[i]))
      /\ server.retired # {} /\ todo \subseteq LoginIds /\ bad \in Nat
      /\ bad = 0 => \A j \in LoginIds \ todo : UnderCurrent(secret[j]) \/ j = i
  BY <1>1, <1>2 DEF LoginInv, ResealOK
<1>4. /\ secret \in [LoginIds -> LoginSecrets] /\ nonces \in Nat /\ server.current \in Nat
  BY LoginFacts DEF LoginInv, LoginShape
<1>5. PICK w : w = secret'[i]
  OBVIOUS
<1>6. \/ secret' = [secret EXCEPT ![i] = w] /\ secret[i] = s /\ w = Seal(server, s.ver)
      \/ secret' = secret /\ UnderCurrent(secret[i])
  BY <1>2, <1>3, <1>4, <1>5
<1>7. CASE secret' = [secret EXCEPT ![i] = w] /\ secret[i] = s /\ w = Seal(server, s.ver)
  <2>1. w \in LoginSecrets /\ w.ver = s.ver /\ w.key = server.current /\ w.nonce = nonces + 1
    BY <1>3, <1>4, <1>7 DEF Seal, LoginSecrets
  <2>2. /\ secret' \in [LoginIds -> LoginSecrets] /\ secret'[i] = w
        /\ \A j \in LoginIds \ {i} : secret'[j] = secret[j]
    BY <1>3, <1>4, <1>7, <2>1
  <2>3. LoginShape'
    BY <1>2, <2>2 DEF LoginInv, LoginShape
  <2>4. SecretsKept'
    <3>1. ASSUME NEW j \in LoginIds
          PROVE  /\ secret'[j].ver = newest'[j]
                 /\ secret'[j] # NoSecret => login' = j /\ Opens(server', secret'[j])
      <4>1. CASE j = i
        BY <1>2, <1>3, <1>7, <2>1, <2>2, <4>1 DEF LoginInv, SecretsKept, Opens
      <4>2. CASE j # i
        BY <1>2, <2>2, <4>2 DEF LoginInv, SecretsKept, Opens
      <4> QED
        BY <4>1, <4>2
    <3> QED
      BY <3>1 DEF SecretsKept
  <2>5. SealedOnce'
    <3>1. ASSUME NEW j \in LoginIds, secret'[j] # NoSecret
          PROVE  secret'[j].nonce \in 1..nonces'
      <4>1. CASE j = i
        BY <1>2, <1>4, <2>1, <2>2, <4>1
      <4>2. CASE j # i
        <5>1. secret[j].nonce \in 1..nonces
          BY <2>2, <3>1, <4>2 DEF LoginInv, SealedOnce
        <5> QED
          BY <1>2, <1>4, <2>2, <4>2, <5>1
      <4> QED
        BY <4>1, <4>2
    <3> QED
      BY <3>1 DEF SealedOnce
  <2>6. bad = 0 => \A j \in LoginIds \ todo : UnderCurrent(secret'[j])
    BY <1>3, <2>1, <2>2 DEF UnderCurrent
  <2>7. ResealOK'
    BY <1>2, <1>3, <2>6 DEF ResealOK, UnderCurrent
  <2> QED
    BY <2>3, <2>4, <2>5, <2>7 DEF LoginInv
<1>8. CASE secret' = secret /\ UnderCurrent(secret[i])
  <2>5. SecretsKept'
    BY <1>2, <1>8 DEF LoginInv, SecretsKept, Opens
  <2>6. nonces' \in Nat
    BY <1>2, <1>4
  <2>1. LoginShape'
    BY <1>2, <1>8, <2>6 DEF LoginInv, LoginShape
  <2>2. SealedOnce'
    <3>1. \A j \in LoginIds : secret[j] # NoSecret => secret[j].nonce \in 1..nonces
      BY DEF LoginInv, SealedOnce
    <3>2. \A m \in 1..nonces : m \in 1..nonces'
      BY <1>2, <1>4
    <3> QED
      BY <1>8, <3>1, <3>2 DEF SealedOnce
  <2>3. bad = 0 => \A j \in LoginIds \ todo : UnderCurrent(secret[j])
    BY <1>3, <1>8
  <2>4. ResealOK'
    BY <1>2, <1>3, <1>8, <2>3 DEF ResealOK, UnderCurrent
  <2> QED
    BY <2>1, <2>2, <2>4, <2>5 DEF LoginInv
<1> QED
  BY <1>6, <1>7, <1>8

LEMMA DroppedStep ==
    ASSUME LoginInv, KeyDropped
    PROVE  LoginInv'
<1>1. /\ reseal.pc = "scan" /\ reseal.todo = {} /\ reseal' = NoReseal
      /\ UNCHANGED <<login, secret, newest, saves, nonces>>
      /\ server' = IF reseal.bad = 0 THEN [server EXCEPT !.retired = {}] ELSE server
  BY DEF KeyDropped
<1>2. ResealOK'
  BY <1>1 DEF ResealOK, NoReseal
<1>3. SealedOnce'
  BY <1>1 DEF LoginInv, SealedOnce
<1>4. CASE reseal.bad = 0
  <2>1. server' = [current |-> server.current, retired |-> {}]
    BY <1>1, <1>4 DEF LoginInv, LoginShape
  <2>2. \A i \in LoginIds : UnderCurrent(secret[i])
    BY <1>1, <1>4 DEF LoginInv, ResealOK
  <2>3. LoginShape'
    BY <1>1, <2>1 DEF LoginInv, LoginShape
  <2>4. SecretsKept'
    BY <1>1, <2>1, <2>2 DEF LoginInv, SecretsKept, UnderCurrent, Opens
  <2> QED
    BY <1>2, <1>3, <2>3, <2>4 DEF LoginInv
<1>5. CASE reseal.bad # 0
  <2>1. server' = server
    BY <1>1, <1>5
  <2>2. LoginShape' /\ SecretsKept'
    BY <1>1, <2>1 DEF LoginInv, LoginShape, SecretsKept, Opens
  <2> QED
    BY <1>2, <1>3, <2>2 DEF LoginInv
<1> QED
  BY <1>4, <1>5

LEMMA LoginInvariant == LoginSpec => []LoginInv
<1>1. LoginInv /\ [LoginNext]_loginVars => LoginInv'
  <2> SUFFICES ASSUME LoginInv, [LoginNext]_loginVars PROVE LoginInv'
    OBVIOUS
  <2>1. CASE LoginSaved \/ LoginDeleted \/ KeyRotated \/ KeyDropped
    BY <2>1, SavedStep, DeletedStep, RotatedStep, DroppedStep
  <2>2. CASE ResealBegun \/ ResealRead \/ ResealWritten \/ ResealCrashed
    BY <2>2, BegunStep, ReadStep, WrittenStep, CrashedStep
  <2>3. ASSUME \/ SharingSet \/ UNCHANGED loginVars
               \/ \E b \in Bots : LoginShared(b) \/ FillBegun(b) \/ FillOpened(b) \/ FillEnded(b)
        PROVE  UNCHANGED <<login, secret, newest, saves, nonces, server, reseal>>
    BY <2>3 DEF SharingSet, LoginShared, FillBegun, FillOpened, FillEnded, loginVars
  <2>4. CASE UNCHANGED <<login, secret, newest, saves, nonces, server, reseal>>
    BY <2>4, LoginStands
  <2> QED
    BY <2>1, <2>2, <2>3, <2>4 DEF LoginNext
<1> QED
  BY <1>1, LoginInitHolds, PTL DEF LoginSpec

\* Beside saves, deletes, a rotation of the vault's key, a reseal that dies half way and the
\* restart without the old key, every stored secret is the one last saved under its row and
\* opens, for any number of rows, keys and saves (store/vault_rows.rs, vault reseal).
THEOREM SecretsOutliveTheKey == LoginSpec => []SecretsKept
<1>1. LoginInv => SecretsKept
  BY DEF LoginInv
<1> QED
  BY <1>1, LoginInvariant, PTL

(***************************************************************************)
(* ACCOUNTS.  What a request read stands as long as the log it read has    *)
(* not moved: an account's log for a password, the organisation's for an   *)
(* invite or a domain.  A redeemed invite is one request's, and then one   *)
(* account's; a link that was used names a password that is gone.          *)
(***************************************************************************)
OnAccount == {"profile", "password", "verify", "enable", "reset"}
OnOrg == {"invite", "claim", "withdraw", "prove", "redeem"}
FullAcct(a) ==
    /\ a = [made |-> a.made, seq |-> a.seq, pw |-> a.pw, verified |-> a.verified, enabled |-> a.enabled]
    /\ a.made = TRUE /\ a.seq \in Nat /\ a.pw \in Nat

ClaimsShape ==
    /\ acct = [e \in Emails |-> acct[e]] /\ \A e \in Emails : Made(e) => FullAcct(acct[e])
    /\ org = [seq |-> org.seq, invites |-> org.invites, domains |-> org.domains,
              pending |-> org.pending, tokens |-> org.tokens]
    /\ org.seq \in Nat /\ org.invites \in [Codes -> {"none", "open", "redeemed"}]
    /\ hand = [h \in Handlers |-> hand[h]]

AcctKnows(o) ==
    /\ o.pc \in OnAccount =>
          o.email \in Emails /\ Made(o.email) /\ o.seq \in Nat /\ o.seq <= acct[o.email].seq
    /\ o.pc = "reset" =>
          /\ o.with \in 1..Len(links) /\ links[o.with].email = o.email
          /\ o.seq = acct[o.email].seq => acct[o.email].pw = links[o.with].fp

OrgKnows(o) ==
    /\ o.pc \in OnOrg => o.seq \in Nat /\ o.seq <= org.seq
    /\ o.pc = "invite" => o.with \in Codes /\ (o.seq = org.seq => org.invites[o.with] = "none")
    /\ o.pc = "prove" => (o.seq = org.seq => org.pending[o.with.domain] = o.with.token)
    /\ o.pc = "redeem" =>
          /\ o = [pc |-> "redeem", email |-> o.email, with |-> o.with, seq |-> o.seq, tries |-> o.tries,
                  open |-> o.open, allowed |-> o.allowed]
          /\ o.with \in Codes /\ o.email \in Emails
          /\ o.seq = org.seq /\ o.open => org.invites[o.with] = "open"
    /\ o.pc = "create" =>
          /\ o.with \in Codes /\ o.email \in Emails /\ org.invites[o.with] = "redeemed"
          /\ \A a \in joined : a[1] # o.with

JoinedOK ==
    /\ \A a \in joined : a[1] \in Codes /\ org.invites[a[1]] = "redeemed"
    /\ \A a, b \in joined : a[1] = b[1] => a = b
    /\ \A g, h \in Handlers : g # h /\ hand[g].pc = "create" /\ hand[h].pc = "create"
                                => hand[g].with # hand[h].with

LinksOK ==
    /\ links \in Seq([email : Emails, fp : Nat]) /\ resets \in Seq(Nat) /\ Len(links) = Len(resets)
    /\ \A l \in 1..Len(links) :
          /\ Made(links[l].email) /\ links[l].fp <= acct[links[l].email].pw
          /\ resets[l] <= 1
          /\ resets[l] # 0 => links[l].fp < acct[links[l].email].pw

SignOK ==
    /\ sessions \in Nat /\ binds \in Nat /\ sessions <= binds
    /\ signIn.state = "bound" => sessions < binds

ClaimsInv ==
    /\ ClaimsShape /\ JoinedOK /\ LinksOK
    /\ \A h \in Handlers : AcctKnows(hand[h]) /\ OrgKnows(hand[h])

LEMMA FreeIs == Free.pc = "free" /\ Free.pc \notin OnAccount /\ Free.pc \notin OnOrg /\ Free.pc # "create"
BY DEF Free, OnAccount, OnOrg

LEMMA FreeKnows == AcctKnows(Free) /\ OrgKnows(Free)
BY DEF Free, OnAccount, OnOrg, AcctKnows, OrgKnows

LEMMA Elements ==
    ASSUME NEW S, NEW s \in Seq(S), NEW k \in 1..Len(s)
    PROVE  s[k] \in S
OBVIOUS

\* A request moves on, and no log does.
LEMMA HandMoves ==
    ASSUME ClaimsInv, NEW h \in Handlers, NEW o, AcctKnows(o), OrgKnows(o), o.pc # "create",
           hand' = [hand EXCEPT ![h] = o], UNCHANGED <<acct, org, links, resets, joined>>
    PROVE  ClaimsInv'
<1>1. /\ hand' = [g \in Handlers |-> hand'[g]] /\ hand'[h] = o
      /\ \A g \in Handlers \ {h} : hand'[g] = hand[g]
  BY DEF ClaimsInv, ClaimsShape
<1>2. ClaimsShape' /\ LinksOK'
  BY <1>1 DEF ClaimsInv, ClaimsShape, LinksOK, Made
<1>3. JoinedOK'
  BY <1>1 DEF ClaimsInv, JoinedOK
<1>4. ASSUME NEW g \in Handlers
      PROVE  AcctKnows(hand[g])' /\ OrgKnows(hand[g])'
  <2>1. PICK x : x = hand'[g]
    OBVIOUS
  <2>2. AcctKnows(x) /\ OrgKnows(x)
    BY <1>1, <2>1 DEF ClaimsInv
  <2>3. AcctKnows(x)' /\ OrgKnows(x)'
    BY <2>2 DEF AcctKnows, OrgKnows, Made
  <2> QED
    BY <2>1, <2>3 DEF AcctKnows, OrgKnows, Made
<1> QED
  BY <1>2, <1>3, <1>4 DEF ClaimsInv

\* An account's log moves, for a request that then ends; a reset marks its link.
AccountMoved(h, e, a) ==
    /\ acct' = [acct EXCEPT ![e] = a] /\ hand' = [hand EXCEPT ![h] = Free]
    /\ UNCHANGED <<org, links, joined>>
    /\ Made(e) /\ FullAcct(a) /\ a.seq = acct[e].seq + 1 /\ acct[e].pw <= a.pw
    /\ \/ resets' = resets
       \/ \E l \in 1..Len(links) :
             /\ resets' = [resets EXCEPT ![l] = @ + 1] /\ links[l].email = e
             /\ links[l].fp = acct[e].pw /\ acct[e].pw < a.pw

LEMMA AccountMoves ==
    ASSUME ClaimsInv, NEW h \in Handlers, NEW e \in Emails, NEW a, AccountMoved(h, e, a)
    PROVE  ClaimsInv'
<1>1. /\ acct' = [acct EXCEPT ![e] = a] /\ hand' = [hand EXCEPT ![h] = Free]
      /\ UNCHANGED <<org, links, joined>>
      /\ Made(e) /\ FullAcct(a) /\ a.seq = acct[e].seq + 1 /\ acct[e].pw <= a.pw
  BY DEF AccountMoved
<1>2. /\ FullAcct(acct[e]) /\ acct[e].seq \in Nat /\ acct[e].pw \in Nat /\ a.seq \in Nat /\ a.pw \in Nat
  BY <1>1 DEF ClaimsInv, ClaimsShape, FullAcct
<1>3. /\ acct' = [f \in Emails |-> acct'[f]] /\ acct'[e] = a /\ \A f \in Emails \ {e} : acct'[f] = acct[f]
  BY <1>1 DEF ClaimsInv, ClaimsShape
<1>4. /\ hand' = [g \in Handlers |-> hand'[g]] /\ hand'[h] = Free
      /\ \A g \in Handlers \ {h} : hand'[g] = hand[g]
  BY <1>1 DEF ClaimsInv, ClaimsShape
<1>5. \A f \in Emails : Made(f) => acct'[f].made /\ FullAcct(acct'[f]) /\ acct[f].pw <= acct'[f].pw
                                   /\ acct[f].seq \in Nat /\ acct[f].seq <= acct'[f].seq
  <2>1. ASSUME NEW f \in Emails, Made(f)
        PROVE  acct'[f].made /\ FullAcct(acct'[f]) /\ acct[f].pw <= acct'[f].pw
               /\ acct[f].seq \in Nat /\ acct[f].seq <= acct'[f].seq
    <3>1. CASE f = e
      <4>1. a.made
        BY <1>1 DEF FullAcct
      <4> QED
        BY <1>1, <1>2, <1>3, <3>1, <4>1
    <3>2. CASE f # e
      <4>1. FullAcct(acct[f]) /\ acct[f].pw \in Nat /\ acct[f].seq \in Nat
        BY <2>1 DEF ClaimsInv, ClaimsShape, FullAcct
      <4> QED
        BY <1>3, <2>1, <3>2, <4>1 DEF Made
    <3> QED
      BY <3>1, <3>2
  <2> QED
    BY <2>1
<1>6. ClaimsShape'
  <2>1. \A f \in Emails : acct'[f].made => FullAcct(acct'[f])
    <3>1. ASSUME NEW f \in Emails, acct'[f].made
          PROVE  FullAcct(acct'[f])
      <4>1. Made(f)
        BY <1>1, <1>3, <3>1 DEF Made
      <4> QED
        BY <1>5, <4>1
    <3> QED
      BY <3>1
  <2> QED
    BY <1>1, <1>3, <1>4, <2>1 DEF ClaimsInv, ClaimsShape, Made, FullAcct
<1>7. JoinedOK'
  BY <1>1, <1>4, FreeIs DEF ClaimsInv, JoinedOK
<1>8. LinksOK'
  <2>1. /\ links \in Seq([email : Emails, fp : Nat]) /\ resets \in Seq(Nat) /\ Len(links) = Len(resets)
        /\ Len(links) \in Nat /\ DOMAIN resets = 1..Len(resets)
    BY DEF ClaimsInv, LinksOK
  <2>2. \A k \in 1..Len(links) : /\ links[k].email \in Emails /\ links[k].fp \in Nat /\ resets[k] \in Nat
                                 /\ Made(links[k].email) /\ links[k].fp <= acct[links[k].email].pw
                                 /\ acct[links[k].email].pw \in Nat
                                 /\ resets[k] <= 1
                                 /\ resets[k] # 0 => links[k].fp < acct[links[k].email].pw
    <3>1. ASSUME NEW k \in 1..Len(links)
          PROVE  links[k].email \in Emails /\ links[k].fp \in Nat /\ resets[k] \in Nat
      <4>1. links[k] \in [email : Emails, fp : Nat]
        BY <2>1, Elements
      <4> QED
        BY <2>1, <4>1
    <3> QED
      BY <3>1 DEF ClaimsInv, LinksOK, ClaimsShape, FullAcct
  <2>3. \A k \in 1..Len(links) : /\ acct'[links[k].email].made /\ links[k].fp <= acct'[links[k].email].pw
                                 /\ links[k].fp < acct[links[k].email].pw => links[k].fp < acct'[links[k].email].pw
    <3>1. ASSUME NEW k \in 1..Len(links)
          PROVE  /\ acct'[links[k].email].made /\ links[k].fp <= acct'[links[k].email].pw
                 /\ links[k].fp < acct[links[k].email].pw => links[k].fp < acct'[links[k].email].pw
      <4>1. PICK f : f = links[k].email
        OBVIOUS
      <4>2. f \in Emails /\ Made(f) /\ links[k].fp \in Nat /\ acct[f].pw \in Nat /\ links[k].fp <= acct[f].pw
        BY <2>2, <4>1
      <4>3. acct'[f].made /\ acct[f].pw <= acct'[f].pw /\ acct'[f].pw \in Nat
        BY <1>5, <4>2 DEF FullAcct
      <4> QED
        BY <4>1, <4>2, <4>3
    <3> QED
      BY <3>1
  <2>4. CASE resets' = resets
    BY <1>1, <2>1, <2>2, <2>3, <2>4 DEF LinksOK, Made
  <2>5. CASE \E l \in 1..Len(links) :
                /\ resets' = [resets EXCEPT ![l] = @ + 1] /\ links[l].email = e
                /\ links[l].fp = acct[e].pw /\ acct[e].pw < a.pw
    <3>1. PICK l \in 1..Len(links) :
                /\ resets' = [resets EXCEPT ![l] = @ + 1] /\ links[l].email = e
                /\ links[l].fp = acct[e].pw /\ acct[e].pw < a.pw
      BY <2>5
    <3>2. resets[l] = 0
      BY <1>2, <2>2, <3>1
    <3>3. /\ resets' \in Seq(Nat) /\ Len(resets') = Len(resets)
          /\ resets'[l] = 1 /\ \A k \in 1..Len(links) \ {l} : resets'[k] = resets[k]
      BY <2>1, <3>1, <3>2
    <3>4. acct'[links[l].email].pw = a.pw
      BY <1>3, <3>1
    <3>5. \A k \in 1..Len(links) : resets'[k] <= 1 /\ (resets'[k] # 0 => links[k].fp < acct'[links[k].email].pw)
      <4>1. ASSUME NEW k \in 1..Len(links)
            PROVE  resets'[k] <= 1 /\ (resets'[k] # 0 => links[k].fp < acct'[links[k].email].pw)
        <5>1. CASE k = l
          BY <3>1, <3>3, <3>4, <5>1
        <5>2. CASE k # l
          BY <2>2, <2>3, <3>3, <5>2
        <5> QED
          BY <5>1, <5>2
      <4> QED
        BY <4>1
    <3> QED
      BY <1>1, <2>1, <2>3, <3>3, <3>5 DEF LinksOK, Made
  <2> QED
    BY <2>4, <2>5 DEF AccountMoved
<1>9. ASSUME NEW g \in Handlers
      PROVE  AcctKnows(hand[g])' /\ OrgKnows(hand[g])'
  <2>1. PICK x : x = hand'[g]
    OBVIOUS
  <2>2. AcctKnows(x) /\ OrgKnows(x)
    BY <1>4, <2>1, FreeKnows DEF ClaimsInv
  <2>3. OrgKnows(x)'
    BY <1>1, <2>2 DEF OrgKnows
  <2>4. ASSUME x.pc \in OnAccount
        PROVE  /\ x.email \in Emails /\ acct'[x.email].made /\ x.seq \in Nat /\ x.seq <= acct'[x.email].seq
               /\ x.seq = acct'[x.email].seq => acct'[x.email] = acct[x.email] /\ x.seq = acct[x.email].seq
    <3>1. PICK f, n : f = x.email /\ n = x.seq
      OBVIOUS
    <3>2. f \in Emails /\ Made(f) /\ n \in Nat /\ n <= acct[f].seq
      BY <2>2, <2>4, <3>1 DEF AcctKnows
    <3>3. acct'[f].made /\ acct[f].seq \in Nat /\ acct'[f].seq \in Nat /\ acct[f].seq <= acct'[f].seq
      BY <1>5, <3>2 DEF FullAcct
    <3>4. f = e => acct'[f].seq = acct[f].seq + 1
      BY <1>1, <1>3
    <3>5. f # e => acct'[f] = acct[f]
      BY <1>3, <3>2
    <3> QED
      BY <3>1, <3>2, <3>3, <3>4, <3>5
  <2>5. AcctKnows(x)'
    <3>1. x.pc = "reset" => x.pc \in OnAccount
      BY DEF OnAccount
    <3> QED
      BY <1>1, <2>2, <2>4, <3>1 DEF AcctKnows, Made
  <2> QED
    BY <2>1, <2>3, <2>5 DEF AcctKnows, OrgKnows, Made
<1> QED
  BY <1>6, <1>7, <1>8, <1>9 DEF ClaimsInv

\* The organisation's log moves, for a request that then ends or has its invite.
OrgMoved(h, o) ==
    /\ hand' = [hand EXCEPT ![h] = o] /\ UNCHANGED <<acct, links, resets, joined>>
    /\ org' = [seq |-> org'.seq, invites |-> org'.invites, domains |-> org'.domains,
               pending |-> org'.pending, tokens |-> org'.tokens]
    /\ org'.seq = org.seq + 1 /\ org'.invites \in [Codes -> {"none", "open", "redeemed"}]
    /\ \A c \in Codes : org.invites[c] = "redeemed" => org'.invites[c] = "redeemed"
    /\ \/ o = Free
       \/ /\ o.pc = "create" /\ o.with \in Codes /\ o.email \in Emails
          /\ org.invites[o.with] = "open" /\ org'.invites[o.with] = "redeemed"

LEMMA OrgMovesOn ==
    ASSUME ClaimsInv, NEW h \in Handlers, NEW o, OrgMoved(h, o)
    PROVE  ClaimsInv'
<1>1. /\ hand' = [hand EXCEPT ![h] = o] /\ UNCHANGED <<acct, links, resets, joined>>
      /\ org' = [seq |-> org'.seq, invites |-> org'.invites, domains |-> org'.domains,
                 pending |-> org'.pending, tokens |-> org'.tokens]
      /\ org'.seq = org.seq + 1 /\ org'.invites \in [Codes -> {"none", "open", "redeemed"}]
      /\ \A c \in Codes : org.invites[c] = "redeemed" => org'.invites[c] = "redeemed"
      /\ \/ o = Free
         \/ /\ o.pc = "create" /\ o.with \in Codes /\ o.email \in Emails
            /\ org.invites[o.with] = "open" /\ org'.invites[o.with] = "redeemed"
  BY DEF OrgMoved
<1>2. /\ hand' = [g \in Handlers |-> hand'[g]] /\ hand'[h] = o
      /\ \A g \in Handlers \ {h} : hand'[g] = hand[g]
  BY <1>1 DEF ClaimsInv, ClaimsShape
<1>3. org.seq \in Nat /\ org'.seq \in Nat
  BY <1>1 DEF ClaimsInv, ClaimsShape
<1>4. ClaimsShape' /\ LinksOK'
  BY <1>1, <1>2, <1>3 DEF ClaimsInv, ClaimsShape, LinksOK, Made
<1>5. \A g \in Handlers : hand[g].pc = "create" =>
         /\ hand[g].with \in Codes /\ org.invites[hand[g].with] = "redeemed"
  BY DEF ClaimsInv, OrgKnows
<1>6. JoinedOK'
  <2>1. \A a \in joined : a[1] \in Codes /\ org'.invites[a[1]] = "redeemed"
    BY <1>1 DEF ClaimsInv, JoinedOK
  <2>2. ASSUME NEW g \in Handlers, NEW k \in Handlers, g # k, hand'[g].pc = "create", hand'[k].pc = "create"
        PROVE  hand'[g].with # hand'[k].with
    <3>1. CASE g # h /\ k # h
      BY <1>2, <2>2, <3>1 DEF ClaimsInv, JoinedOK
    <3>2. CASE g = h \/ k = h
      <4>1. o # Free
        BY <1>2, <2>2, <3>2, FreeIs
      <4>2. org.invites[o.with] = "open"
        BY <1>1, <4>1
      <4> QED
        BY <1>2, <1>5, <2>2, <3>2, <4>2
    <3> QED
      BY <3>1, <3>2
  <2> QED
    BY <1>1, <2>1, <2>2 DEF ClaimsInv, JoinedOK
<1>7. ASSUME NEW g \in Handlers
      PROVE  AcctKnows(hand[g])' /\ OrgKnows(hand[g])'
  <2>1. PICK x : x = hand'[g]
    OBVIOUS
  <2>2. CASE x = Free
    <3>1. AcctKnows(x)' /\ OrgKnows(x)'
      BY <2>2, FreeIs DEF AcctKnows, OrgKnows, OnAccount, OnOrg
    <3> QED
      BY <2>1, <3>1 DEF AcctKnows, OrgKnows, Made
  <2>3. CASE g = h /\ x # Free
    <3>1. /\ x = o /\ o.pc = "create" /\ o.with \in Codes /\ o.email \in Emails
          /\ org.invites[o.with] = "open" /\ org'.invites[o.with] = "redeemed"
      BY <1>1, <1>2, <2>1, <2>3
    <3>2. \A a \in joined' : a[1] # x.with
      BY <1>1, <3>1 DEF ClaimsInv, JoinedOK
    <3>3. AcctKnows(x)' /\ OrgKnows(x)'
      BY <3>1, <3>2 DEF AcctKnows, OrgKnows, OnAccount, OnOrg
    <3> QED
      BY <2>1, <3>3 DEF AcctKnows, OrgKnows, Made
  <2>4. CASE g # h
    <3>1. AcctKnows(x) /\ OrgKnows(x)
      BY <1>2, <2>1, <2>4 DEF ClaimsInv
    <3>2. AcctKnows(x)'
      BY <1>1, <3>1 DEF AcctKnows, Made
    <3>3. x.pc \in OnOrg => x.seq \in Nat /\ x.seq <= org'.seq /\ x.seq # org'.seq
      <4>1. PICK n : n = x.seq
        OBVIOUS
      <4>2. x.pc \in OnOrg => n \in Nat /\ n <= org.seq
        BY <3>1, <4>1 DEF OrgKnows
      <4> QED
        BY <1>1, <1>3, <4>1, <4>2
    <3>4. OrgKnows(x)'
      <4>1. x.pc \in {"invite", "prove", "redeem"} => x.pc \in OnOrg
        BY DEF OnOrg
      <4> QED
        BY <1>1, <3>1, <3>3, <4>1 DEF OrgKnows
    <3> QED
      BY <2>1, <3>2, <3>4 DEF AcctKnows, OrgKnows, Made
  <2> QED
    BY <2>2, <2>3, <2>4
<1> QED
  BY <1>4, <1>6, <1>7 DEF ClaimsInv

LEMMA ReadsStep ==
    ASSUME ClaimsInv, NEW h \in Handlers, NEW e \in Emails, NEW how \in OnAccount, NEW extra,
           Reads(h, e, how, extra),
           how = "reset" => extra \in 1..Len(links) /\ links[extra].email = e
                            /\ acct[e].pw = links[extra].fp
    PROVE  ClaimsInv'
<1>1. PICK o : o = [pc |-> how, email |-> e, seq |-> acct[e].seq, with |-> extra]
  OBVIOUS
<1>2. /\ hand' = [hand EXCEPT ![h] = o] /\ UNCHANGED <<acct, org, links, resets, joined>> /\ Made(e)
  BY <1>1 DEF Reads
<1>3. acct[e].seq \in Nat
  BY <1>2 DEF ClaimsInv, ClaimsShape, FullAcct
<1>4. AcctKnows(o) /\ OrgKnows(o) /\ o.pc # "create"
  BY <1>1, <1>2, <1>3 DEF AcctKnows, OrgKnows, OnAccount, OnOrg
<1> QED
  BY <1>2, <1>4, HandMoves

LEMMA AccountReads ==
    ASSUME ClaimsInv, NEW h \in Handlers,
           ProfileRead(h) \/ PasswordRead(h) \/ VerifyRead(h) \/ EnableRead(h) \/ ResetRead(h)
    PROVE  ClaimsInv'
<1>1. CASE ProfileRead(h) \/ PasswordRead(h) \/ VerifyRead(h)
  <2>1. PICK e \in Emails, how \in {"profile", "password", "verify"} : Reads(h, e, how, 0)
    BY <1>1 DEF ProfileRead, PasswordRead, VerifyRead
  <2>2. how \in OnAccount /\ how # "reset"
    BY DEF OnAccount
  <2> QED
    BY <2>1, <2>2, ReadsStep
<1>2. CASE EnableRead(h)
  <2>1. PICK e \in Emails, on \in BOOLEAN : Reads(h, e, "enable", on)
    BY <1>2 DEF EnableRead
  <2>2. "enable" \in OnAccount /\ "enable" # "reset"
    BY DEF OnAccount
  <2> QED
    BY <2>1, <2>2, ReadsStep
<1>3. CASE ResetRead(h)
  <2>1. PICK l \in DOMAIN links : LinkStands(l) /\ Reads(h, links[l].email, "reset", l)
    BY <1>3 DEF ResetRead
  <2>2. PICK e : e = links[l].email
    OBVIOUS
  <2>3. links \in Seq([email : Emails, fp : Nat])
    BY DEF ClaimsInv, LinksOK
  <2>4. l \in 1..Len(links)
    BY <2>3
  <2>5. links[l] \in [email : Emails, fp : Nat]
    BY <2>3, <2>4, Elements
  <2>6. e \in Emails /\ "reset" \in OnAccount /\ acct[e].pw = links[l].fp /\ Reads(h, e, "reset", l)
    BY <2>1, <2>2, <2>5 DEF LinkStands, OnAccount
  <2> QED
    BY <2>2, <2>4, <2>6, ReadsStep
<1> QED
  BY <1>1, <1>2, <1>3

\* What an append leaves of an account.
LEMMA AcctWith ==
    ASSUME NEW a, FullAcct(a), NEW v, NEW p \in Nat
    PROVE  /\ FullAcct([a EXCEPT !.seq = a.seq + 1]) /\ FullAcct([a EXCEPT !.verified = v])
           /\ FullAcct([a EXCEPT !.enabled = v]) /\ FullAcct([a EXCEPT !.pw = p])
<1>1. a.seq + 1 \in Nat /\ a.made = TRUE /\ a.seq \in Nat /\ a.pw \in Nat
  BY DEF FullAcct
<1> DEFINE Rec(m, s, w, f, n) == [made |-> m, seq |-> s, pw |-> w, verified |-> f, enabled |-> n]
<1>2. \A m, s, w, f, n : m = TRUE /\ s \in Nat /\ w \in Nat => FullAcct(Rec(m, s, w, f, n))
  BY DEF FullAcct
<1>3. /\ [a EXCEPT !.seq = a.seq + 1] = Rec(a.made, a.seq + 1, a.pw, a.verified, a.enabled)
      /\ [a EXCEPT !.verified = v] = Rec(a.made, a.seq, a.pw, v, a.enabled)
      /\ [a EXCEPT !.enabled = v] = Rec(a.made, a.seq, a.pw, a.verified, v)
      /\ [a EXCEPT !.pw = p] = Rec(a.made, a.seq, p, a.verified, a.enabled)
  BY DEF FullAcct
<1> HIDE DEF Rec
<1> QED
  BY <1>1, <1>2, <1>3

\* A decision that is appended, or not for a conflict.
LEMMA PersistsStep ==
    ASSUME ClaimsInv, NEW h \in Handlers, NEW how \in OnAccount, NEW new, FullAcct(new),
           Persists(h, how, new), new.seq = The(h).seq, The(h).pw <= new.pw,
           UNCHANGED <<org, links, joined>>,
           IF hand[h].seq = The(h).seq /\ how = "reset"
           THEN resets' = [resets EXCEPT ![hand[h].with] = @ + 1] /\ The(h).pw < new.pw
           ELSE resets' = resets
    PROVE  ClaimsInv'
<1>1. PICK o, e : o = hand[h] /\ e = o.email
  OBVIOUS
<1>2. AcctKnows(o) /\ o.pc = how
  BY <1>1 DEF ClaimsInv, Persists
<1>3. e \in Emails /\ Made(e) /\ The(h) = acct[e]
  BY <1>1, <1>2 DEF AcctKnows, The
<1>4. /\ acct' = [acct EXCEPT ![e] = IF o.seq = acct[e].seq THEN [new EXCEPT !.seq = @ + 1] ELSE acct[e]]
      /\ hand' = [hand EXCEPT ![h] = Free]
  BY <1>1 DEF Persists, AcctAppend, Frees
<1>5. CASE o.seq = acct[e].seq
  <2>1. PICK a : a = [new EXCEPT !.seq = new.seq + 1]
    OBVIOUS
  <2>2. FullAcct(a) /\ a.seq = acct[e].seq + 1 /\ a.pw = new.pw
    <3>1. FullAcct(a)
      BY <2>1, AcctWith
    <3>2. a.seq = new.seq + 1 /\ a.pw = new.pw
      BY <2>1 DEF FullAcct
    <3> QED
      BY <1>3, <3>1, <3>2
  <2>3. acct' = [acct EXCEPT ![e] = a]
    BY <1>4, <1>5, <2>1
  <2>4. \/ resets' = resets
        \/ \E l \in 1..Len(links) :
             /\ resets' = [resets EXCEPT ![l] = @ + 1] /\ links[l].email = e
             /\ links[l].fp = acct[e].pw /\ acct[e].pw < a.pw
    <3>1. CASE how = "reset"
      <4>1. /\ o.with \in 1..Len(links) /\ links[o.with].email = e
            /\ acct[e].pw = links[o.with].fp
        BY <1>1, <1>2, <1>5, <3>1 DEF AcctKnows
      <4>2. resets' = [resets EXCEPT ![o.with] = @ + 1] /\ acct[e].pw < a.pw
        BY <1>1, <1>3, <1>5, <2>2, <3>1
      <4> QED
        BY <4>1, <4>2
    <3>2. CASE how # "reset"
      BY <3>2
    <3> QED
      BY <3>1, <3>2
  <2>5. acct[e].pw <= a.pw
    BY <1>3, <2>2
  <2>6. AccountMoved(h, e, a)
    BY <1>3, <1>4, <2>2, <2>3, <2>4, <2>5 DEF AccountMoved
  <2> QED
    BY <1>3, <2>6, AccountMoves
<1>6. CASE o.seq # acct[e].seq
  <2>1. acct' = acct
    BY <1>3, <1>4, <1>6 DEF ClaimsInv, ClaimsShape
  <2>2. resets' = resets
    BY <1>1, <1>3, <1>6
  <2> QED
    BY <1>4, <2>1, <2>2, FreeIs, FreeKnows, HandMoves
<1> QED
  BY <1>5, <1>6

LEMMA AccountSaves ==
    ASSUME ClaimsInv, NEW h \in Handlers,
           ProfileSaved(h) \/ PasswordSaved(h) \/ VerifySaved(h) \/ EnableSaved(h) \/ ResetSaved(h)
    PROVE  ClaimsInv'
<1>1. PICK a : a = The(h)
  OBVIOUS
<1>2. ASSUME NEW how \in OnAccount, hand[h].pc = how
      PROVE  FullAcct(a) /\ a.pw \in Nat /\ a.pw + 1 \in Nat /\ a.pw <= a.pw + 1 /\ a.pw < a.pw + 1 /\ a.pw <= a.pw
             /\ hand[h].email \in Emails
  <2>1. hand[h].email \in Emails /\ Made(hand[h].email)
    BY <1>2 DEF ClaimsInv, AcctKnows
  <2>2. FullAcct(a)
    BY <1>1, <2>1 DEF ClaimsInv, ClaimsShape, The
  <2>3. a.pw \in Nat
    BY <2>2 DEF FullAcct
  <2> QED
    BY <2>1, <2>2, <2>3
<1>3. {"profile", "password", "verify", "enable", "reset"} \subseteq OnAccount
  BY DEF OnAccount
<1>4. ASSUME NEW how \in OnAccount \ {"reset"}, NEW new, FullAcct(new), Persists(h, how, new),
             new.seq = a.seq, a.pw <= new.pw, UNCHANGED <<org, links, resets, joined>>
      PROVE  ClaimsInv'
  BY <1>1, <1>4, PersistsStep
<1>5. CASE ProfileSaved(h)
  <2>1. hand[h].pc = "profile" /\ Persists(h, "profile", a) /\ UNCHANGED <<org, links, resets, joined>>
    BY <1>1, <1>5 DEF ProfileSaved, Persists
  <2> QED
    BY <1>2, <1>3, <1>4, <2>1
<1>6. CASE PasswordSaved(h)
  <2>1. PICK new : new = [a EXCEPT !.pw = a.pw + 1]
    OBVIOUS
  <2>2. hand[h].pc = "password" /\ Persists(h, "password", new) /\ UNCHANGED <<org, links, resets, joined>>
    BY <1>1, <1>6, <2>1 DEF PasswordSaved, Persists
  <2>3. FullAcct(a) /\ a.pw + 1 \in Nat /\ a.pw <= a.pw + 1
    BY <1>2, <1>3, <2>2
  <2>4. new.pw = a.pw + 1 /\ new.seq = a.seq
    BY <2>1, <2>3 DEF FullAcct
  <2>5. FullAcct(new)
    BY <2>1, <2>3, AcctWith
  <2> QED
    BY <1>3, <1>4, <2>2, <2>3, <2>4, <2>5
<1>7. CASE VerifySaved(h)
  <2>0. PICK v : v = TRUE
    OBVIOUS
  <2>1. PICK new : new = [a EXCEPT !.verified = v]
    OBVIOUS
  <2>2. hand[h].pc = "verify" /\ Persists(h, "verify", new) /\ UNCHANGED <<org, links, resets, joined>>
    BY <1>1, <1>7, <2>0, <2>1 DEF VerifySaved, Persists
  <2>3. FullAcct(a) /\ a.pw <= a.pw
    BY <1>2, <1>3, <2>2
  <2>4. new.pw = a.pw /\ new.seq = a.seq
    BY <2>1, <2>3 DEF FullAcct
  <2>5. FullAcct(new)
    BY <2>1, <2>3, AcctWith
  <2> QED
    BY <1>3, <1>4, <2>2, <2>3, <2>4, <2>5
<1>8. CASE EnableSaved(h)
  <2>1. PICK new : new = [a EXCEPT !.enabled = hand[h].with]
    OBVIOUS
  <2>2. hand[h].pc = "enable" /\ Persists(h, "enable", new) /\ UNCHANGED <<org, links, resets, joined>>
    BY <1>1, <1>8, <2>1 DEF EnableSaved, Persists
  <2>3. FullAcct(a) /\ a.pw <= a.pw
    BY <1>2, <1>3, <2>2
  <2>4. new.pw = a.pw /\ new.seq = a.seq
    BY <2>1, <2>3 DEF FullAcct
  <2>6. PICK v : v = hand[h].with
    OBVIOUS
  <2>5. FullAcct(new)
    BY <2>1, <2>3, <2>6, AcctWith
  <2> QED
    BY <1>3, <1>4, <2>2, <2>3, <2>4, <2>5
<1>9. CASE ResetSaved(h)
  <2>1. PICK new : new = [a EXCEPT !.pw = a.pw + 1]
    OBVIOUS
  <2>2. /\ hand[h].pc = "reset" /\ Persists(h, "reset", new) /\ UNCHANGED <<org, links, joined>>
        /\ resets' = IF acct'[hand[h].email].pw # a.pw
                     THEN [resets EXCEPT ![hand[h].with] = @ + 1] ELSE resets
    BY <1>1, <1>9, <2>1 DEF ResetSaved, Persists
  <2>3. FullAcct(a) /\ a.pw \in Nat /\ a.pw + 1 \in Nat /\ a.pw < a.pw + 1 /\ hand[h].email \in Emails
    BY <1>2, <1>3, <2>2
  <2>4. new.pw = a.pw + 1 /\ new.seq = a.seq /\ [new EXCEPT !.seq = @ + 1].pw = a.pw + 1
    BY <2>1, <2>3 DEF FullAcct
  <2>5. FullAcct(new)
    BY <2>1, <2>3, AcctWith
  <2>6. acct'[hand[h].email] = IF hand[h].seq = a.seq THEN [new EXCEPT !.seq = @ + 1] ELSE a
    <3>1. acct' = [acct EXCEPT ![hand[h].email] = AcctAppend(h, new)]
      BY <2>2 DEF Persists
    <3>2. acct'[hand[h].email] = AcctAppend(h, new)
      BY <2>3, <3>1 DEF ClaimsInv, ClaimsShape
    <3> QED
      BY <1>1, <3>2 DEF AcctAppend, The
  <2>7. IF hand[h].seq = a.seq THEN resets' = [resets EXCEPT ![hand[h].with] = @ + 1] ELSE resets' = resets
    BY <2>2, <2>3, <2>4, <2>6
  <2>8. The(h).pw <= new.pw /\ The(h).pw < new.pw /\ new.seq = The(h).seq
    BY <1>1, <2>3, <2>4
  <2>9. IF hand[h].seq = The(h).seq /\ "reset" = "reset"
        THEN resets' = [resets EXCEPT ![hand[h].with] = @ + 1] /\ The(h).pw < new.pw
        ELSE resets' = resets
    BY <1>1, <2>7, <2>8
  <2> QED
    BY <1>3, <2>2, <2>5, <2>8, <2>9, PersistsStep
<1> QED
  BY <1>5, <1>6, <1>7, <1>8, <1>9

LEMMA OrgReadStep ==
    ASSUME ClaimsInv, NEW h \in Handlers, NEW how \in {"invite", "claim", "withdraw", "prove"}, NEW with,
           OrgRead(h, how, with),
           how = "invite" => with \in Codes /\ org.invites[with] = "none",
           how = "prove" => org.pending[with.domain] = with.token
    PROVE  ClaimsInv'
<1>1. PICK o : o = [pc |-> how, seq |-> org.seq, with |-> with]
  OBVIOUS
<1>2. hand' = [hand EXCEPT ![h] = o] /\ UNCHANGED <<acct, org, links, resets, joined>>
  BY <1>1 DEF OrgRead
<1>3. org.seq \in Nat
  BY DEF ClaimsInv, ClaimsShape
<1>4. AcctKnows(o) /\ OrgKnows(o) /\ o.pc # "create"
  BY <1>1, <1>3 DEF AcctKnows, OrgKnows, OnAccount, OnOrg
<1> QED
  BY <1>2, <1>4, HandMoves

LEMMA OrgReads ==
    ASSUME ClaimsInv, NEW h \in Handlers,
           InviteRead(h) \/ ClaimRead(h) \/ WithdrawRead(h) \/ DomainRead(h)
    PROVE  ClaimsInv'
<1>1. CASE InviteRead(h)
  <2>1. PICK c \in Codes : org.invites[c] = "none" /\ OrgRead(h, "invite", c)
    BY <1>1 DEF InviteRead
  <2> QED
    BY <2>1, OrgReadStep
<1>2. CASE ClaimRead(h) \/ WithdrawRead(h)
  <2>1. PICK d \in Domains, how \in {"claim", "withdraw"} : OrgRead(h, how, d)
    BY <1>2 DEF ClaimRead, WithdrawRead
  <2> QED
    BY <2>1, OrgReadStep
<1>3. CASE DomainRead(h)
  <2>1. PICK d \in Domains : OrgRead(h, "prove", [domain |-> d, token |-> org.pending[d]])
    BY <1>3 DEF DomainRead
  <2>2. PICK w : w = [domain |-> d, token |-> org.pending[d]]
    OBVIOUS
  <2>3. org.pending[w.domain] = w.token /\ OrgRead(h, "prove", w)
    BY <2>1, <2>2
  <2> QED
    BY <2>3, OrgReadStep
<1> QED
  BY <1>1, <1>2, <1>3

\* Appended at the place that was read, or not.
LEMMA OrgSavedStep ==
    ASSUME ClaimsInv, NEW h \in Handlers, NEW how, NEW new, OrgSaved(h, how, new),
           new = [seq |-> org.seq, invites |-> new.invites, domains |-> new.domains,
                  pending |-> new.pending, tokens |-> new.tokens],
           hand[h].seq = org.seq =>
              /\ new.invites \in [Codes -> {"none", "open", "redeemed"}]
              /\ \A c \in Codes : org.invites[c] = "redeemed" => new.invites[c] = "redeemed",
           UNCHANGED <<acct, links, resets, joined>>
    PROVE  ClaimsInv'
<1>1. /\ hand' = [hand EXCEPT ![h] = Free]
      /\ org' = IF hand[h].seq = org.seq THEN [new EXCEPT !.seq = @ + 1] ELSE org
  BY DEF OrgSaved, Frees
<1>2. CASE hand[h].seq = org.seq
  <2>1. org' = [seq |-> org.seq + 1, invites |-> new.invites, domains |-> new.domains,
                pending |-> new.pending, tokens |-> new.tokens]
    BY <1>1, <1>2
  <2>2. OrgMoved(h, Free)
    BY <1>1, <1>2, <2>1 DEF OrgMoved
  <2> QED
    BY <2>2, OrgMovesOn
<1>3. CASE hand[h].seq # org.seq
  <2>1. UNCHANGED <<acct, org, links, resets, joined>>
    BY <1>1, <1>3
  <2> QED
    BY <1>1, <2>1, FreeIs, FreeKnows, HandMoves
<1> QED
  BY <1>2, <1>3

LEMMA OrgSaves ==
    ASSUME ClaimsInv, NEW h \in Handlers,
           InviteSaved(h) \/ ClaimSaved(h) \/ WithdrawSaved(h) \/ DomainSaved(h)
    PROVE  ClaimsInv'
<1>1. /\ org = [seq |-> org.seq, invites |-> org.invites, domains |-> org.domains,
                pending |-> org.pending, tokens |-> org.tokens]
      /\ org.invites \in [Codes -> {"none", "open", "redeemed"}]
  BY DEF ClaimsInv, ClaimsShape
<1>2. PICK o : o = org
  OBVIOUS
<1>3. /\ o = [seq |-> o.seq, invites |-> o.invites, domains |-> o.domains, pending |-> o.pending, tokens |-> o.tokens]
      /\ o.invites \in [Codes -> {"none", "open", "redeemed"}]
  BY <1>1, <1>2
<1>4. CASE InviteSaved(h)
  <2>1. PICK c : c = hand[h].with
    OBVIOUS
  <2>2. hand[h].pc = "invite" /\ UNCHANGED <<acct, links, resets, joined>>
    BY <1>4 DEF InviteSaved, OrgSaved
  <2>3. c \in Codes /\ (hand[h].seq = org.seq => o.invites[c] = "none")
    BY <1>2, <2>1, <2>2 DEF ClaimsInv, OrgKnows
  <2>4. PICK i : i = [o.invites EXCEPT ![c] = "open"]
    OBVIOUS
  <2>5. PICK new : new = [seq |-> o.seq, invites |-> i, domains |-> o.domains, pending |-> o.pending, tokens |-> o.tokens]
    OBVIOUS
  <2>6. [o EXCEPT !.invites[c] = "open"] = new
    BY <1>3, <2>4, <2>5
  <2>7. OrgSaved(h, "invite", new)
    BY <1>2, <1>4, <2>1, <2>6 DEF InviteSaved
  <2>8. /\ i \in [Codes -> {"none", "open", "redeemed"}]
        /\ hand[h].seq = org.seq => \A d \in Codes : o.invites[d] = "redeemed" => i[d] = "redeemed"
    BY <1>3, <2>3, <2>4
  <2>9. new.invites = i /\ new.seq = o.seq /\ new.domains = o.domains /\ new.pending = o.pending /\ new.tokens = o.tokens
    BY <2>5
  <2> QED
    BY <1>2, <2>2, <2>5, <2>7, <2>8, <2>9, OrgSavedStep
<1>5. ASSUME NEW how, NEW d, NEW p, NEW t,
             OrgSaved(h, how, [seq |-> o.seq, invites |-> o.invites, domains |-> d, pending |-> p, tokens |-> t]),
             UNCHANGED <<acct, links, resets, joined>>
      PROVE  ClaimsInv'
  <2>1. PICK new : new = [seq |-> o.seq, invites |-> o.invites, domains |-> d, pending |-> p, tokens |-> t]
    OBVIOUS
  <2>2. new.invites = o.invites /\ new.domains = d /\ new.pending = p /\ new.tokens = t
    BY <2>1
  <2>3. new = [seq |-> org.seq, invites |-> new.invites, domains |-> new.domains, pending |-> new.pending, tokens |-> new.tokens]
    BY <1>2, <2>1, <2>2
  <2>4. OrgSaved(h, how, new)
    BY <1>5, <2>1
  <2> QED
    BY <1>2, <1>3, <1>5, <2>2, <2>3, <2>4, OrgSavedStep
<1>6. CASE ClaimSaved(h) \/ WithdrawSaved(h) \/ DomainSaved(h)
  <2>1. \E how, d, p, t :
           OrgSaved(h, how, [seq |-> o.seq, invites |-> o.invites, domains |-> d, pending |-> p, tokens |-> t])
    <3>0. PICK s, i, d, p, t : s = o.seq /\ i = o.invites /\ d = o.domains /\ p = o.pending /\ t = o.tokens
      OBVIOUS
    <3>4. o = [seq |-> s, invites |-> i, domains |-> d, pending |-> p, tokens |-> t]
      BY <1>3, <3>0
    <3>1. CASE ClaimSaved(h)
      <4>1. PICK w, n : w = hand[h].with /\ n = t + 1
        OBVIOUS
      <4>2. OrgSaved(h, "claim", [o EXCEPT !.pending[w] = n, !.tokens = @ + 1])
        BY <1>2, <3>0, <3>1, <4>1 DEF ClaimSaved
      <4>3. [o EXCEPT !.pending[w] = n, !.tokens = @ + 1]
              = [seq |-> s, invites |-> i, domains |-> d, pending |-> [p EXCEPT ![w] = n], tokens |-> t + 1]
        <5>1. PICK c : c = [seq |-> s, invites |-> i, domains |-> d, pending |-> [p EXCEPT ![w] = n], tokens |-> t]
          OBVIOUS
        <5>2. [o EXCEPT !.pending[w] = n] = c
          BY <3>4, <5>1
        <5>3. [c EXCEPT !.tokens = @ + 1]
                = [seq |-> s, invites |-> i, domains |-> d, pending |-> [p EXCEPT ![w] = n], tokens |-> t + 1]
          BY <5>1
        <5>4. [o EXCEPT !.pending[w] = n, !.tokens = @ + 1] = [[o EXCEPT !.pending[w] = n] EXCEPT !.tokens = @ + 1]
          OBVIOUS
        <5> QED
          BY <5>2, <5>3, <5>4, Zenon
      <4>4. OrgSaved(h, "claim", [seq |-> s, invites |-> i, domains |-> d, pending |-> [p EXCEPT ![w] = n], tokens |-> t + 1])
        BY <4>2, <4>3
      <4> QED
        BY <3>0, <4>4
    <3>2. CASE WithdrawSaved(h)
      <4>1. PICK w : w = hand[h].with
        OBVIOUS
      <4>2. OrgSaved(h, "withdraw", [o EXCEPT !.pending[w] = 0])
        BY <1>2, <3>2, <4>1 DEF WithdrawSaved
      <4>3. [o EXCEPT !.pending[w] = 0]
              = [seq |-> s, invites |-> i, domains |-> d, pending |-> [p EXCEPT ![w] = 0], tokens |-> t]
        BY <3>4
      <4>4. OrgSaved(h, "withdraw", [seq |-> s, invites |-> i, domains |-> d, pending |-> [p EXCEPT ![w] = 0], tokens |-> t])
        BY <4>2, <4>3
      <4> QED
        BY <3>0, <4>4
    <3>3. CASE DomainSaved(h)
      <4>1. PICK w, n : w = hand[h].with.domain /\ n = d \cup {w}
        OBVIOUS
      <4>2. OrgSaved(h, "prove", [o EXCEPT !.domains = n, !.pending[w] = 0])
        BY <1>2, <3>0, <3>3, <4>1 DEF DomainSaved
      <4>3. [o EXCEPT !.domains = n, !.pending[w] = 0]
              = [seq |-> s, invites |-> i, domains |-> n, pending |-> [p EXCEPT ![w] = 0], tokens |-> t]
        <5>1. PICK c : c = [seq |-> s, invites |-> i, domains |-> n, pending |-> p, tokens |-> t]
          OBVIOUS
        <5>2. [o EXCEPT !.domains = n] = c
          BY <3>4, <5>1
        <5>3. [c EXCEPT !.pending[w] = 0]
                = [seq |-> s, invites |-> i, domains |-> n, pending |-> [p EXCEPT ![w] = 0], tokens |-> t]
          BY <5>1
        <5>4. [o EXCEPT !.domains = n, !.pending[w] = 0] = [[o EXCEPT !.domains = n] EXCEPT !.pending[w] = 0]
          OBVIOUS
        <5> QED
          BY <5>2, <5>3, <5>4, Zenon
      <4>4. OrgSaved(h, "prove", [seq |-> s, invites |-> i, domains |-> n, pending |-> [p EXCEPT ![w] = 0], tokens |-> t])
        BY <4>2, <4>3
      <4> QED
        BY <3>0, <4>4
    <3> QED
      BY <1>6, <3>1, <3>2, <3>3
  <2>2. UNCHANGED <<acct, links, resets, joined>>
    BY <1>6 DEF ClaimSaved, WithdrawSaved, DomainSaved, OrgSaved
  <2> QED
    BY <1>5, <2>1, <2>2
<1> QED
  BY <1>4, <1>6

LEMMA SignupReadStep ==
    ASSUME ClaimsInv, NEW h \in Handlers, SignupRead(h)
    PROVE  ClaimsInv'
<1>1. PICK e \in Emails, c \in Codes : hand' = [hand EXCEPT ![h] = [pc |-> "redeem", email |-> e,
                 with |-> c, seq |-> org.seq, tries |-> 0, open |-> org.invites[c] = "open",
                 allowed |-> DomainOf[e] \in org.domains]]
  BY DEF SignupRead
<1>2. PICK open, allowed : open = (org.invites[c] = "open") /\ allowed = (DomainOf[e] \in org.domains)
  OBVIOUS
<1>3. PICK o : o = [pc |-> "redeem", email |-> e, with |-> c, seq |-> org.seq, tries |-> 0,
                    open |-> open, allowed |-> allowed]
  OBVIOUS
<1>4. hand' = [hand EXCEPT ![h] = o] /\ UNCHANGED <<acct, org, links, resets, joined>>
  BY <1>1, <1>2, <1>3 DEF SignupRead
<1>5. org.seq \in Nat
  BY DEF ClaimsInv, ClaimsShape
<1>6. /\ o.pc = "redeem" /\ o.email = e /\ o.with = c /\ o.seq = org.seq /\ o.open = open
      /\ o = [pc |-> "redeem", email |-> o.email, with |-> o.with, seq |-> o.seq, tries |-> o.tries,
              open |-> o.open, allowed |-> o.allowed]
  BY <1>3
<1>7. o.open => org.invites[o.with] = "open"
  BY <1>2, <1>6
<1>8. AcctKnows(o) /\ OrgKnows(o) /\ o.pc # "create"
  BY <1>5, <1>6, <1>7 DEF AcctKnows, OrgKnows, OnAccount, OnOrg
<1> QED
  BY <1>4, <1>8, HandMoves

LEMMA SignupRedeemedStep ==
    ASSUME ClaimsInv, NEW h \in Handlers, SignupRedeemed(h)
    PROVE  ClaimsInv'
<1>1. PICK o, c : o = hand[h] /\ c = o.with
  OBVIOUS
<1>2. o.pc = "redeem" /\ UNCHANGED <<acct, links, resets, joined>>
  BY <1>1 DEF SignupRedeemed
<1>3. /\ o = [pc |-> "redeem", email |-> o.email, with |-> o.with, seq |-> o.seq, tries |-> o.tries,
               open |-> o.open, allowed |-> o.allowed]
      /\ c \in Codes /\ o.email \in Emails /\ (o.seq = org.seq /\ o.open => org.invites[c] = "open")
  BY <1>1, <1>2 DEF ClaimsInv, OrgKnows
<1>4. /\ org = [seq |-> org.seq, invites |-> org.invites, domains |-> org.domains,
                pending |-> org.pending, tokens |-> org.tokens]
      /\ org.seq \in Nat /\ org.invites \in [Codes -> {"none", "open", "redeemed"}]
  BY DEF ClaimsInv, ClaimsShape
<1>5. CASE Frees(h) /\ UNCHANGED org
  BY <1>2, <1>5, FreeIs, FreeKnows, HandMoves DEF Frees
<1>6. CASE /\ o.open /\ o.seq = org.seq
           /\ org' = [org EXCEPT !.invites[c] = "redeemed", !.seq = @ + 1]
           /\ hand' = [hand EXCEPT ![h].pc = "create"]
  <2>1. PICK x : x = [o EXCEPT !.pc = "create"]
    OBVIOUS
  <2>2. x.pc = "create" /\ x.with = c /\ x.email = o.email
    BY <1>1, <1>3, <2>1
  <2>3. hand' = [hand EXCEPT ![h] = x]
    BY <1>1, <1>6, <2>1
  <2>4. PICK s, i, d, p, t : s = org.seq /\ i = org.invites /\ d = org.domains /\ p = org.pending /\ t = org.tokens
    OBVIOUS
  <2>5. PICK i2 : i2 = [i EXCEPT ![c] = "redeemed"]
    OBVIOUS
  <2>6. PICK y, z : y = org /\ z = [seq |-> s, invites |-> i2, domains |-> d, pending |-> p, tokens |-> t]
    OBVIOUS
  <2>7. y = [seq |-> s, invites |-> i, domains |-> d, pending |-> p, tokens |-> t]
    BY <1>4, <2>4, <2>6
  <2>8. [y EXCEPT !.invites[c] = "redeemed"] = z
    BY <2>5, <2>6, <2>7
  <2>9. [y EXCEPT !.invites[c] = "redeemed", !.seq = @ + 1] = [[y EXCEPT !.invites[c] = "redeemed"] EXCEPT !.seq = @ + 1]
    OBVIOUS
  <2>10. [z EXCEPT !.seq = @ + 1] = [seq |-> s + 1, invites |-> i2, domains |-> d, pending |-> p, tokens |-> t]
    BY <2>6
  <2>11. org' = [y EXCEPT !.invites[c] = "redeemed", !.seq = @ + 1]
    BY <1>6, <2>6
  <2>12. org' = [seq |-> s + 1, invites |-> i2, domains |-> d, pending |-> p, tokens |-> t]
    BY <2>8, <2>9, <2>10, <2>11, Zenon
  <2>13. /\ i2 \in [Codes -> {"none", "open", "redeemed"}] /\ i2[c] = "redeemed" /\ i[c] = "open"
         /\ \A k \in Codes : i[k] = "redeemed" => i2[k] = "redeemed"
    BY <1>3, <1>4, <1>6, <2>4, <2>5
  <2>14. OrgMoved(h, x)
    BY <1>2, <1>3, <2>2, <2>3, <2>4, <2>12, <2>13 DEF OrgMoved
  <2> QED
    BY <2>14, OrgMovesOn
<1>7. CASE /\ o.open /\ UNCHANGED org
           /\ hand' = [hand EXCEPT ![h] =
                IF hand[h].tries + 1 = RedeemAttempts THEN Free
                ELSE [hand[h] EXCEPT !.tries = @ + 1, !.seq = org.seq,
                        !.open = org.invites[c] = "open",
                        !.allowed = DomainOf[hand[h].email] \in org.domains]]
  <2>1. PICK open, allowed, s : open = (org.invites[c] = "open") /\ allowed = (DomainOf[o.email] \in org.domains) /\ s = org.seq
    OBVIOUS
  <2>2. PICK x : x = [pc |-> "redeem", email |-> o.email, with |-> o.with, seq |-> s, tries |-> o.tries + 1,
                      open |-> open, allowed |-> allowed]
    OBVIOUS
  <2>3. hand' = [hand EXCEPT ![h] = IF o.tries + 1 = RedeemAttempts THEN Free ELSE x]
    <3>1. PICK e, c2, q, n, op, al : e = o.email /\ c2 = o.with /\ q = o.seq /\ n = o.tries /\ op = o.open /\ al = o.allowed
      OBVIOUS
    <3>2. PICK y : y = o
      OBVIOUS
    <3>3. y = [pc |-> "redeem", email |-> e, with |-> c2, seq |-> q, tries |-> n, open |-> op, allowed |-> al]
      BY <1>3, <3>1, <3>2
    <3>4. [y EXCEPT !.tries = @ + 1, !.seq = s, !.open = open, !.allowed = allowed] = x
      <4>1. PICK a, b, d : /\ a = [pc |-> "redeem", email |-> e, with |-> c2, seq |-> q, tries |-> n + 1, open |-> op, allowed |-> al]
                           /\ b = [pc |-> "redeem", email |-> e, with |-> c2, seq |-> s, tries |-> n + 1, open |-> op, allowed |-> al]
                           /\ d = [pc |-> "redeem", email |-> e, with |-> c2, seq |-> s, tries |-> n + 1, open |-> open, allowed |-> al]
        OBVIOUS
      <4>2. [y EXCEPT !.tries = @ + 1] = a
        BY <3>3, <4>1
      <4>3. [a EXCEPT !.seq = s] = b
        BY <4>1
      <4>4. [b EXCEPT !.open = open] = d
        BY <4>1
      <4>5. [d EXCEPT !.allowed = allowed] = x
        BY <2>2, <3>1, <4>1
      <4>6. [y EXCEPT !.tries = @ + 1, !.seq = s, !.open = open, !.allowed = allowed]
              = [[[[y EXCEPT !.tries = @ + 1] EXCEPT !.seq = s] EXCEPT !.open = open] EXCEPT !.allowed = allowed]
        OBVIOUS
      <4> QED
        BY <4>2, <4>3, <4>4, <4>5, <4>6, Zenon
    <3>5. hand' = [hand EXCEPT ![h] = IF hand[h].tries + 1 = RedeemAttempts THEN Free
                     ELSE [hand[h] EXCEPT !.tries = @ + 1, !.seq = org.seq, !.open = (org.invites[c] = "open"),
                             !.allowed = (DomainOf[hand[h].email] \in org.domains)]]
      BY <1>7, Zenon
    <3>6. hand' = [hand EXCEPT ![h] = IF hand[h].tries + 1 = RedeemAttempts THEN Free
                     ELSE [hand[h] EXCEPT !.tries = @ + 1, !.seq = s, !.open = open, !.allowed = allowed]]
      BY <1>1, <2>1, <3>5, Zenon
    <3>7. hand' = [hand EXCEPT ![h] = IF y.tries + 1 = RedeemAttempts THEN Free
                     ELSE [y EXCEPT !.tries = @ + 1, !.seq = s, !.open = open, !.allowed = allowed]]
      BY <1>1, <3>2, <3>6, Zenon
    <3> QED
      BY <3>2, <3>4, <3>7, Zenon
  <2>4. CASE o.tries + 1 = RedeemAttempts
    BY <1>2, <1>7, <2>3, <2>4, FreeIs, FreeKnows, HandMoves
  <2>5. CASE o.tries + 1 # RedeemAttempts
    <3>1. x = [pc |-> "redeem", email |-> o.email, with |-> o.with, seq |-> s, tries |-> o.tries + 1,
               open |-> open, allowed |-> allowed]
      BY <2>2
    <3>2. /\ x.pc = "redeem" /\ x.email = o.email /\ x.with = c /\ x.seq = org.seq /\ x.open = open
          /\ x = [pc |-> "redeem", email |-> x.email, with |-> x.with, seq |-> x.seq, tries |-> x.tries,
                  open |-> x.open, allowed |-> x.allowed]
      BY <1>1, <2>1, <3>1
    <3>3. x.open => org.invites[x.with] = "open"
      BY <2>1, <3>2
    <3>4. AcctKnows(x) /\ OrgKnows(x) /\ x.pc # "create"
      BY <1>3, <1>4, <3>2, <3>3 DEF AcctKnows, OrgKnows, OnAccount, OnOrg
    <3>5. hand' = [hand EXCEPT ![h] = x]
      BY <2>3, <2>5
    <3> QED
      BY <1>2, <1>7, <3>4, <3>5, HandMoves
  <2> QED
    BY <2>4, <2>5
<1> QED
  BY <1>1, <1>5, <1>6, <1>7 DEF SignupRedeemed


LEMMA SignupCreatedStep ==
    ASSUME ClaimsInv, NEW h \in Handlers, SignupCreated(h)
    PROVE  ClaimsInv'
<1>1. PICK e, c : e = hand[h].email /\ c = hand[h].with
  OBVIOUS
<1>2. /\ hand[h].pc = "create" /\ hand' = [hand EXCEPT ![h] = Free] /\ UNCHANGED <<org, links, resets>>
  BY DEF SignupCreated, Frees
<1>3. /\ c \in Codes /\ e \in Emails /\ org.invites[c] = "redeemed" /\ \A a \in joined : a[1] # c
  BY <1>1, <1>2 DEF ClaimsInv, OrgKnows
<1>4. CASE Made(e)
  <2>1. UNCHANGED <<acct, joined>>
    BY <1>1, <1>4 DEF SignupCreated
  <2> QED
    BY <1>2, <2>1, FreeIs, FreeKnows, HandMoves
<1>5. CASE ~Made(e)
  <2>1. PICK v : v = ~mailer
    OBVIOUS
  <2>2. PICK n, f : n = [made |-> TRUE, seq |-> 1, pw |-> 0, verified |-> v, enabled |-> f] /\ f = FALSE
    OBVIOUS
  <2>3. acct' = [acct EXCEPT ![e] = n] /\ joined' = joined \cup {<<c, e>>}
    BY <1>1, <1>5, <2>1, <2>2 DEF SignupCreated
  <2>4. FullAcct(n) /\ n.made
    BY <2>2 DEF FullAcct
  <2>5. /\ acct' = [k \in Emails |-> acct'[k]] /\ acct'[e] = n /\ \A k \in Emails \ {e} : acct'[k] = acct[k]
    BY <1>3, <2>3 DEF ClaimsInv, ClaimsShape
  <2>6. \A k \in Emails : Made(k) => k # e /\ acct'[k] = acct[k]
    BY <1>5, <2>5
  <2>7. /\ hand' = [g \in Handlers |-> hand'[g]] /\ hand'[h] = Free
        /\ \A g \in Handlers \ {h} : hand'[g] = hand[g]
    BY <1>2 DEF ClaimsInv, ClaimsShape
  <2>8. ClaimsShape'
    <3>1. \A k \in Emails : acct'[k].made => FullAcct(acct'[k])
      BY <2>4, <2>5 DEF ClaimsInv, ClaimsShape, Made
    <3> QED
      BY <1>2, <2>5, <2>7, <3>1 DEF ClaimsInv, ClaimsShape, Made, FullAcct
  <2>9. JoinedOK'
    <3>1. \A a \in joined' : a[1] \in Codes /\ org.invites[a[1]] = "redeemed"
      BY <1>3, <2>3 DEF ClaimsInv, JoinedOK
    <3>2. \A a, b \in joined' : a[1] = b[1] => a = b
      BY <1>3, <2>3 DEF ClaimsInv, JoinedOK
    <3>3. \A g, k \in Handlers : g # k /\ hand'[g].pc = "create" /\ hand'[k].pc = "create"
                                    => hand'[g].with # hand'[k].with
      BY <2>7, FreeIs DEF ClaimsInv, JoinedOK
    <3> QED
      BY <1>2, <3>1, <3>2, <3>3 DEF JoinedOK
  <2>10. LinksOK'
    <3>1. /\ links \in Seq([email : Emails, fp : Nat]) /\ resets \in Seq(Nat) /\ Len(links) = Len(resets)
      BY DEF ClaimsInv, LinksOK
    <3>2. ASSUME NEW l \in 1..Len(links)
          PROVE  /\ acct'[links[l].email].made /\ links[l].fp <= acct'[links[l].email].pw
                 /\ resets[l] <= 1
                 /\ resets[l] # 0 => links[l].fp < acct'[links[l].email].pw
      <4>1. links[l] \in [email : Emails, fp : Nat]
        BY <3>1, Elements
      <4>2. PICK k : k = links[l].email
        OBVIOUS
      <4>3. k \in Emails /\ Made(k)
        BY <4>1, <4>2 DEF ClaimsInv, LinksOK
      <4>4. acct'[k] = acct[k]
        BY <2>6, <4>3
      <4> QED
        BY <4>2, <4>3, <4>4 DEF ClaimsInv, LinksOK, Made
    <3> QED
      BY <1>2, <3>1, <3>2 DEF LinksOK, Made
  <2>11. ASSUME NEW g \in Handlers
         PROVE  AcctKnows(hand[g])' /\ OrgKnows(hand[g])'
    <3>1. PICK x : x = hand'[g]
      OBVIOUS
    <3>2. AcctKnows(x) /\ OrgKnows(x)
      BY <2>7, <3>1, FreeKnows DEF ClaimsInv
    <3>3. AcctKnows(x)'
      <4>1. PICK k : k = x.email
        OBVIOUS
      <4>2. x.pc = "reset" => x.pc \in OnAccount
        BY DEF OnAccount
      <4>3. x.pc \in OnAccount => k \in Emails /\ Made(k) /\ acct'[k] = acct[k]
        BY <2>6, <3>2, <4>1 DEF AcctKnows
      <4> QED
        BY <1>2, <3>2, <4>1, <4>2, <4>3 DEF AcctKnows, Made
    <3>4. OrgKnows(x)'
      <4>1. x.pc = "create" => x.with # c
        <5>1. CASE g = h
          BY <2>7, <3>1, <5>1, FreeIs
        <5>2. CASE g # h
          BY <1>1, <1>2, <2>7, <3>1, <5>2 DEF ClaimsInv, JoinedOK
        <5> QED
          BY <5>1, <5>2
      <4>2. x.pc = "create" => \A a \in joined' : a[1] # x.with
        BY <2>3, <3>2, <4>1 DEF OrgKnows
      <4> QED
        BY <1>2, <3>2, <4>2 DEF OrgKnows
    <3> QED
      BY <3>1, <3>3, <3>4 DEF AcctKnows, OrgKnows, Made
  <2> QED
    BY <2>8, <2>9, <2>10, <2>11 DEF ClaimsInv
<1> QED
  BY <1>4, <1>5

\* A link is mailed for the password that stands.
LEMMA ResetMailedStep ==
    ASSUME ClaimsInv, ResetMailed
    PROVE  ClaimsInv'
<1>1. PICK e \in Emails : /\ Made(e)
                          /\ links' = Append(links, [email |-> e, fp |-> acct[e].pw])
                          /\ resets' = Append(resets, 0)
  BY DEF ResetMailed
<1>2. UNCHANGED <<acct, org, hand, joined>>
  BY DEF ResetMailed
<1>3. PICK w, m : w = acct[e].pw /\ m = [email |-> e, fp |-> w]
  OBVIOUS
<1>4. w \in Nat /\ m \in [email : Emails, fp : Nat] /\ m.email = e /\ m.fp = w
  BY <1>1, <1>3 DEF ClaimsInv, ClaimsShape, FullAcct
<1>5. /\ links \in Seq([email : Emails, fp : Nat]) /\ resets \in Seq(Nat) /\ Len(links) = Len(resets)
      /\ Len(links) \in Nat
  BY DEF ClaimsInv, LinksOK
<1>6. links' = Append(links, m)
  BY <1>1, <1>3
<1>7. /\ links' \in Seq([email : Emails, fp : Nat]) /\ Len(links') = Len(links) + 1
      /\ links'[Len(links) + 1] = m /\ \A l \in 1..Len(links) : links'[l] = links[l]
  BY <1>4, <1>5, <1>6
<1>8. /\ resets' \in Seq(Nat) /\ Len(resets') = Len(links) + 1
      /\ resets'[Len(links) + 1] = 0 /\ \A l \in 1..Len(links) : resets'[l] = resets[l]
  BY <1>1, <1>5
<1>9. LinksOK'
  <2>1. ASSUME NEW l \in 1..Len(links')
        PROVE  /\ acct[links'[l].email].made /\ links'[l].fp <= acct[links'[l].email].pw
               /\ resets'[l] <= 1
               /\ resets'[l] # 0 => links'[l].fp < acct[links'[l].email].pw
    <3>1. CASE l = Len(links) + 1
      BY <1>1, <1>3, <1>4, <1>7, <1>8, <3>1 DEF Made
    <3>2. CASE l # Len(links) + 1
      <4>1. l \in 1..Len(links)
        BY <1>5, <1>7, <3>2
      <4> QED
        BY <1>7, <1>8, <4>1 DEF ClaimsInv, LinksOK, Made
    <3> QED
      BY <3>1, <3>2
  <2> QED
    BY <1>2, <1>7, <1>8, <2>1 DEF LinksOK, Made
<1>10. ClaimsShape' /\ JoinedOK'
  BY <1>2 DEF ClaimsInv, ClaimsShape, JoinedOK, Made, FullAcct
<1>11. ASSUME NEW g \in Handlers
       PROVE  AcctKnows(hand[g])' /\ OrgKnows(hand[g])'
  <2>1. PICK x : x = hand[g]
    OBVIOUS
  <2>2. AcctKnows(x) /\ OrgKnows(x)
    BY <2>1 DEF ClaimsInv
  <2>3. OrgKnows(x)'
    BY <1>2, <2>2 DEF OrgKnows
  <2>4. AcctKnows(x)'
    <3>1. x.with \in 1..Len(links) => x.with \in 1..Len(links') /\ links'[x.with] = links[x.with]
      BY <1>5, <1>7
    <3> QED
      BY <1>2, <2>2, <3>1 DEF AcctKnows, Made
  <2> QED
    BY <1>2, <2>1, <2>3, <2>4 DEF AcctKnows, OrgKnows, Made
<1> QED
  BY <1>9, <1>10, <1>11 DEF ClaimsInv

\* The sign-in page and the app that polls for it.
LEMMA SignInSteps ==
    ASSUME ClaimsInv,
           \/ \E h \in Handlers : LoginSubmitted(h) \/ LoginBound(h)
           \/ LoginRegistered \/ LoginPolled \/ LoginExpired
    PROVE  ClaimsInv'
<1>1. ASSUME NEW h \in Handlers, LoginSubmitted(h)
      PROVE  ClaimsInv'
  <2>1. PICK e \in Emails : hand' = [hand EXCEPT ![h] = [pc |-> "bind", email |-> e]]
    BY <1>1 DEF LoginSubmitted
  <2>2. PICK o : o = [pc |-> "bind", email |-> e]
    OBVIOUS
  <2>3. hand' = [hand EXCEPT ![h] = o] /\ UNCHANGED <<acct, org, links, resets, joined>>
    BY <1>1, <2>1, <2>2 DEF LoginSubmitted
  <2>4. AcctKnows(o) /\ OrgKnows(o) /\ o.pc # "create"
    BY <2>2 DEF AcctKnows, OrgKnows, OnAccount, OnOrg
  <2> QED
    BY <2>3, <2>4, HandMoves
<1>2. ASSUME NEW h \in Handlers, LoginBound(h)
      PROVE  ClaimsInv'
  <2>1. hand' = [hand EXCEPT ![h] = Free] /\ UNCHANGED <<acct, org, links, resets, joined>>
    BY <1>2 DEF LoginBound, Frees
  <2> QED
    BY <2>1, FreeIs, FreeKnows, HandMoves
<1>3. CASE LoginRegistered \/ LoginPolled \/ LoginExpired
  <2>1. UNCHANGED <<acct, org, links, resets, joined, hand>>
    BY <1>3 DEF LoginRegistered, LoginPolled, LoginExpired
  <2> QED
    BY <2>1 DEF ClaimsInv, ClaimsShape, JoinedOK, LinksOK, AcctKnows, OrgKnows, Made, FullAcct
<1> QED
  BY <1>1, <1>2, <1>3

\* A poll takes what was bound, and what it took is gone.
LEMMA SignStep ==
    ASSUME SignOK, [AcctNext]_acctVars
    PROVE  SignOK'
<1> USE DEF SignOK
<1>1. ASSUME NEW h \in Handlers, LoginBound(h)
      PROVE  SignOK'
  BY <1>1 DEF LoginBound
<1>2. CASE LoginRegistered \/ LoginPolled \/ LoginExpired
  BY <1>2 DEF LoginRegistered, LoginPolled, LoginExpired, NoSignIn
<1>3. CASE UNCHANGED acctVars \/ ResetMailed
  BY <1>3 DEF acctVars, ResetMailed
<1>4. ASSUME NEW h \in Handlers,
             \/ ProfileRead(h) \/ ProfileSaved(h) \/ PasswordRead(h)
             \/ PasswordSaved(h) \/ VerifyRead(h) \/ VerifySaved(h)
             \/ EnableRead(h) \/ EnableSaved(h) \/ ResetRead(h) \/ ResetSaved(h)
             \/ LoginSubmitted(h)
      PROVE  SignOK'
  BY <1>4 DEF ProfileRead, ProfileSaved, PasswordRead, PasswordSaved, VerifyRead, VerifySaved,
              EnableRead, EnableSaved, ResetRead, ResetSaved, LoginSubmitted, Reads
<1>5. ASSUME NEW h \in Handlers,
             \/ InviteRead(h) \/ InviteSaved(h) \/ ClaimRead(h) \/ ClaimSaved(h)
             \/ WithdrawRead(h) \/ WithdrawSaved(h) \/ DomainRead(h) \/ DomainSaved(h)
             \/ SignupRead(h) \/ SignupRedeemed(h) \/ SignupCreated(h)
      PROVE  SignOK'
  <2>1. UNCHANGED <<signIn, sessions, binds>>
    BY <1>5 DEF InviteRead, InviteSaved, ClaimRead, ClaimSaved, WithdrawRead, WithdrawSaved, DomainRead,
                DomainSaved, SignupRead, SignupRedeemed, SignupCreated, OrgRead, OrgSaved
  <2> QED
    BY <2>1
<1> QED
  BY <1>1, <1>2, <1>3, <1>4, <1>5 DEF AcctNext

LEMMA ClaimsStep ==
    ASSUME ClaimsInv, [AcctNext]_acctVars
    PROVE  ClaimsInv'
<1>1. CASE UNCHANGED acctVars
  BY <1>1 DEF acctVars, ClaimsInv, ClaimsShape, JoinedOK, LinksOK, AcctKnows, OrgKnows, Made, FullAcct
<1>2. ASSUME NEW h \in Handlers,
             \/ ProfileRead(h) \/ PasswordRead(h) \/ VerifyRead(h) \/ EnableRead(h) \/ ResetRead(h)
             \/ ProfileSaved(h) \/ PasswordSaved(h) \/ VerifySaved(h) \/ EnableSaved(h) \/ ResetSaved(h)
      PROVE  ClaimsInv'
  BY <1>2, AccountReads, AccountSaves
<1>3. ASSUME NEW h \in Handlers,
             \/ InviteRead(h) \/ ClaimRead(h) \/ WithdrawRead(h) \/ DomainRead(h)
             \/ InviteSaved(h) \/ ClaimSaved(h) \/ WithdrawSaved(h) \/ DomainSaved(h)
      PROVE  ClaimsInv'
  BY <1>3, OrgReads, OrgSaves
<1>4. ASSUME NEW h \in Handlers, SignupRead(h) \/ SignupRedeemed(h) \/ SignupCreated(h)
      PROVE  ClaimsInv'
  BY <1>4, SignupReadStep, SignupRedeemedStep, SignupCreatedStep
<1> QED
  BY <1>1, <1>2, <1>3, <1>4, SignInSteps, ResetMailedStep DEF AcctNext

LEMMA AcctStart ==
    ASSUME AcctInit
    PROVE  ClaimsInv /\ SignOK
<1>1. SignOK
  BY DEF AcctInit, SignOK, NoSignIn
<1>2. \A e \in Emails : ~Made(e)
  BY DEF AcctInit, Made, NoAcct
<1>3. ClaimsShape
  <2>1. PICK i, d, p : i = [c \in Codes |-> "none"] /\ d = {HomeDomain} /\ p = [k \in Domains |-> 0]
    OBVIOUS
  <2>2. org = [seq |-> 1, invites |-> i, domains |-> d, pending |-> p, tokens |-> 0]
    BY <2>1 DEF AcctInit
  <2>3. i \in [Codes -> {"none", "open", "redeemed"}]
    BY <2>1
  <2>4. /\ acct = [e \in Emails |-> acct[e]] /\ hand = [h \in Handlers |-> hand[h]]
    BY DEF AcctInit
  <2> QED
    BY <1>2, <2>2, <2>3, <2>4 DEF ClaimsShape
<1>4. \A h \in Handlers : hand[h] = Free
  BY DEF AcctInit
<1>5. JoinedOK
  BY <1>4, FreeIs DEF AcctInit, JoinedOK
<1>6. LinksOK
  BY DEF AcctInit, LinksOK
<1>7. \A h \in Handlers : AcctKnows(hand[h]) /\ OrgKnows(hand[h])
  BY <1>4, FreeKnows
<1> QED
  BY <1>1, <1>3, <1>5, <1>6, <1>7 DEF ClaimsInv

\* Only the append of a proof adds a domain.
LEMMA DomainsStay ==
    ASSUME ClaimsInv, [AcctNext]_acctVars, ~\E h \in Handlers : DomainSaved(h)
    PROVE  org'.domains = org.domains
<1>1. PICK s, i, d, p, t : s = org.seq /\ i = org.invites /\ d = org.domains /\ p = org.pending /\ t = org.tokens
  OBVIOUS
<1>2. org = [seq |-> s, invites |-> i, domains |-> d, pending |-> p, tokens |-> t]
  BY <1>1 DEF ClaimsInv, ClaimsShape
<1>3. \A c, v : /\ [[org EXCEPT !.invites[c] = v] EXCEPT !.seq = @ + 1].domains = d
                /\ [[org EXCEPT !.pending[c] = v] EXCEPT !.seq = @ + 1].domains = d
  BY <1>2
<1>4. ASSUME NEW h \in Handlers, SignupRedeemed(h)
      PROVE  org'.domains = d
  <2>1. PICK c : c = hand[h].with
    OBVIOUS
  <2>2. CASE org' = [org EXCEPT !.invites[c] = "redeemed", !.seq = @ + 1]
    BY <1>3, <2>2
  <2> QED
    BY <1>1, <1>4, <2>1, <2>2 DEF SignupRedeemed
<1>5. ASSUME NEW h \in Handlers, InviteSaved(h)
      PROVE  org'.domains = d
  BY <1>1, <1>3, <1>5 DEF InviteSaved, OrgSaved
<1>6. ASSUME NEW h \in Handlers, WithdrawSaved(h)
      PROVE  org'.domains = d
  BY <1>1, <1>3, <1>6 DEF WithdrawSaved, OrgSaved
<1>7. ASSUME NEW h \in Handlers, ClaimSaved(h)
      PROVE  org'.domains = d
  <2>1. PICK w, n : w = hand[h].with /\ n = t + 1
    OBVIOUS
  <2>2. PICK a : a = [seq |-> s, invites |-> i, domains |-> d, pending |-> [p EXCEPT ![w] = n], tokens |-> t]
    OBVIOUS
  <2>3. [org EXCEPT !.pending[w] = n] = a
    BY <1>2, <2>2
  <2>4. PICK b : b = [a EXCEPT !.tokens = @ + 1]
    OBVIOUS
  <2>5. [org EXCEPT !.pending[w] = n, !.tokens = @ + 1] = [[org EXCEPT !.pending[w] = n] EXCEPT !.tokens = @ + 1]
    OBVIOUS
  <2>6. [org EXCEPT !.pending[w] = n, !.tokens = @ + 1] = b
    BY <2>3, <2>4, <2>5, Zenon
  <2>7. b.domains = d /\ [b EXCEPT !.seq = @ + 1].domains = d
    BY <2>2, <2>4
  <2>8. OrgSaved(h, "claim", [org EXCEPT !.pending[w] = n, !.tokens = @ + 1])
    BY <1>1, <1>7, <2>1 DEF ClaimSaved
  <2>9. OrgSaved(h, "claim", b)
    BY <2>6, <2>8
  <2> QED
    BY <1>1, <2>7, <2>9 DEF OrgSaved
<1>8. ASSUME NEW h \in Handlers,
             \/ ProfileRead(h) \/ PasswordRead(h) \/ VerifyRead(h) \/ EnableRead(h) \/ ResetRead(h)
             \/ ProfileSaved(h) \/ PasswordSaved(h) \/ VerifySaved(h) \/ EnableSaved(h) \/ ResetSaved(h)
      PROVE  org' = org
  BY <1>8 DEF ProfileRead, ProfileSaved, PasswordRead, PasswordSaved, VerifyRead, VerifySaved,
              EnableRead, EnableSaved, ResetRead, ResetSaved, Reads
<1>9. ASSUME NEW h \in Handlers,
             \/ InviteRead(h) \/ ClaimRead(h) \/ WithdrawRead(h) \/ DomainRead(h)
             \/ SignupRead(h) \/ SignupCreated(h) \/ LoginSubmitted(h) \/ LoginBound(h)
      PROVE  org' = org
  BY <1>9 DEF InviteRead, ClaimRead, WithdrawRead, DomainRead, SignupRead, SignupCreated, LoginSubmitted,
              LoginBound, OrgRead
<1>10. CASE UNCHANGED acctVars \/ ResetMailed \/ LoginRegistered \/ LoginPolled \/ LoginExpired
  BY <1>10 DEF acctVars, ResetMailed, LoginRegistered, LoginPolled, LoginExpired
<1> QED
  BY <1>1, <1>4, <1>5, <1>6, <1>7, <1>8, <1>9, <1>10 DEF AcctNext

\* A proof is appended only for the claim whose record was looked up.
LEMMA ProofsAreOfTheirClaim ==
    ASSUME ClaimsInv, [AcctNext]_acctVars
    PROVE  \A d \in Domains \ org.domains :
              d \in org'.domains =>
                 \E h \in Handlers : /\ hand[h].pc = "prove"
                                     /\ hand[h].with.domain = d
                                     /\ hand[h].with.token = org.pending[d]
<1>1. CASE ~\E h \in Handlers : DomainSaved(h)
  BY <1>1, DomainsStay
<1>2. ASSUME NEW h \in Handlers, DomainSaved(h), NEW d \in Domains \ org.domains, d \in org'.domains
      PROVE  /\ hand[h].pc = "prove" /\ hand[h].with.domain = d
             /\ hand[h].with.token = org.pending[d]
  <2>1. PICK w, n : w = hand[h].with.domain /\ n = org.domains \cup {w}
    OBVIOUS
  <2>2. PICK new : new = [org EXCEPT !.domains = n, !.pending[w] = 0]
    OBVIOUS
  <2>3. /\ hand[h].pc = "prove"
        /\ org' = IF hand[h].seq = org.seq THEN [new EXCEPT !.seq = @ + 1] ELSE org
    BY <1>2, <2>1, <2>2 DEF DomainSaved, OrgSaved
  <2>4. hand[h].seq = org.seq /\ org' = [new EXCEPT !.seq = @ + 1]
    BY <1>2, <2>3
  <2>5. [new EXCEPT !.seq = @ + 1].domains = n
    <3>1. PICK s, i, m, p, t : s = org.seq /\ i = org.invites /\ m = org.domains /\ p = org.pending /\ t = org.tokens
      OBVIOUS
    <3>2. org = [seq |-> s, invites |-> i, domains |-> m, pending |-> p, tokens |-> t]
      BY <3>1 DEF ClaimsInv, ClaimsShape
    <3>3. PICK c, b : /\ c = [seq |-> s, invites |-> i, domains |-> n, pending |-> p, tokens |-> t]
                      /\ b = [c EXCEPT !.pending[w] = 0]
      OBVIOUS
    <3>4. [org EXCEPT !.domains = n] = c
      BY <3>2, <3>3
    <3>5. [org EXCEPT !.domains = n, !.pending[w] = 0] = [[org EXCEPT !.domains = n] EXCEPT !.pending[w] = 0]
      OBVIOUS
    <3>6. new = b
      BY <2>2, <3>3, <3>4, <3>5, Zenon
    <3>7. b = [seq |-> s, invites |-> i, domains |-> n, pending |-> [p EXCEPT ![w] = 0], tokens |-> t]
      BY <3>3
    <3> QED
      BY <3>6, <3>7
  <2>6. w = d
    BY <1>2, <2>1, <2>4, <2>5
  <2>7. hand[h].seq = org.seq => org.pending[hand[h].with.domain] = hand[h].with.token
    BY <2>3 DEF ClaimsInv, OrgKnows
  <2> QED
    BY <2>1, <2>3, <2>4, <2>6, <2>7
<1> QED
  BY <1>1, <1>2

LEMMA EachSpentOnce ==
    ASSUME ClaimsInv, SignOK
    PROVE  SpentOnce
<1>1. \A l \in DOMAIN resets : resets[l] <= 1
  <2>1. DOMAIN resets = 1..Len(links)
    BY DEF ClaimsInv, LinksOK
  <2> QED
    BY <2>1 DEF ClaimsInv, LinksOK
<1> QED
  BY <1>1 DEF ClaimsInv, JoinedOK, SignOK, SpentOnce

\* An invite makes one account, a mailed link changes one password, a bound
\* sign-in is taken once, and a domain joins with the claim whose record was
\* looked up, however many requests race for them (redeem_invite, account_for,
\* take_login, verify_domain).
THEOREM ClaimsAreGoodOnce == AcctSpec => ClaimsHold
<1>1. AcctInit => ClaimsInv /\ SignOK
  BY AcctStart
<1>2. ClaimsInv /\ SignOK /\ [AcctNext]_acctVars => (ClaimsInv /\ SignOK)'
  BY ClaimsStep, SignStep
<1>3. ClaimsInv /\ SignOK => SpentOnce
  BY EachSpentOnce
<1>4. ClaimsInv /\ [AcctNext]_acctVars => ProofIsOfTheClaim
  BY ProofsAreOfTheirClaim DEF ProofIsOfTheClaim
<1> QED
  BY <1>1, <1>2, <1>3, <1>4, PTL DEF AcctSpec, ClaimsHold

-----------------------------------------------------------------------------
(***************************************************************************)
(* PURGE.  What a row names is the id of a row, of a kind its table's      *)
(* deletes are given the list of; the lists of a purge that has read them  *)
(* are the lists of the database as it stands, since the server is stopped *)
(* and the lock is that purge's.                                           *)
(***************************************************************************)
ListOf(kind) ==
    CASE kind = "a" -> "accounts" [] kind = "c" -> "coworkers" [] kind = "o" -> "orgs"
      [] OTHER -> kind
TableOf(list) ==
    CASE list = "accounts" -> "account_view" [] list = "orgs" -> "org_view"
      [] OTHER -> Owned[list].table
\* The rows of a table may name ids of this list.
MayName(table, list) ==
    \/ table = "account_view" /\ list = "orgs"
    \/ table \in {"org_view", "coworker_view"} /\ list = "accounts"
    \/ \E l \in DOMAIN ThingNaming : table = Owned[l].table /\ \E k \in ThingNaming[l] : list = ListOf(k)
    \/ table \in DOMAIN Naming /\ \E k \in Naming[table] : list = ListOf(k)

There(n, l) == \E t \in db : t.table = TableOf(l) /\ t.id = n
NamesOK(r) ==
    \A n \in r.names \ Excused(r) : \E l \in Lists : MayName(r.table, l) /\ There(n, l)
IdOK(r) ==
    /\ r.id \in PurgeAccounts => r.table = "account_view"
    /\ r.id \in PurgeOrgs => r.table = "org_view"
    /\ r.id \in PurgeBots => r.table = "coworker_view"
DbOK == \A r \in db : NamesOK(r) /\ IdOK(r)

\* The lists are those of the database as it stands, each from the ones it is read from.
ListsRead(L, keep) ==
    /\ L["accounts"] = Ids(In("account_view")) \ keep
    /\ L["orgs"] = DoomedOrgs(keep)
    /\ \A l \in DOMAIN Owned : L[l] = DoomedOf(l, L)
ListsOK ==
    /\ \A p \in Operators : purges[p].pc = "listed" =>
          /\ ListsRead(purges[p].lists, purges[p].keep)
          /\ purges[p].keep \subseteq Ids(In("account_view"))
    /\ \A p, o \in Operators : purges[p].pc = "listed" /\ purges[o].pc = "listed" => p = o

PurgeShape ==
    /\ DOMAIN purges = Operators
    /\ \A p \in Operators :
          purges[p] = [pc |-> purges[p].pc, keep |-> purges[p].keep, lists |-> purges[p].lists]

PurgeInv == DbOK /\ ListsOK /\ PurgeShape

ThingLists == DOMAIN ThingNaming

LEMMA ListsAre ==
    ASSUME NEW keep, NEW L, L = IdLists(keep)
    PROVE  ListsRead(L, keep)
<1> DEFINE first == [l \in Lists |->
                       CASE l = "accounts" -> Ids(In("account_view")) \ keep
                         [] l = "orgs" -> DoomedOrgs(keep)
                         [] OTHER -> {}]
           second == [first EXCEPT !["coworkers"] = DoomedOf("coworkers", first)]
           third == [l \in Lists |->
                       IF l \in {"accounts", "orgs", "coworkers", "runs"} THEN second[l]
                       ELSE DoomedOf(l, second)]
           fourth == [third EXCEPT !["runs"] = DoomedOf("runs", third)]
<1>1. L = fourth
  BY DEF IdLists
<1>2. /\ first["accounts"] = Ids(In("account_view")) \ keep /\ first["orgs"] = DoomedOrgs(keep)
      /\ DOMAIN first = Lists
  BY DEF Lists
<1> HIDE DEF first
<1>3. /\ second["accounts"] = first["accounts"] /\ second["orgs"] = first["orgs"]
      /\ second["coworkers"] = DoomedOf("coworkers", first) /\ DOMAIN second = Lists
  BY <1>2 DEF Lists
<1> HIDE DEF second
<1>4. /\ third["accounts"] = second["accounts"] /\ third["orgs"] = second["orgs"]
      /\ third["coworkers"] = second["coworkers"]
      /\ \A l \in Lists \ {"accounts", "orgs", "coworkers", "runs"} : third[l] = DoomedOf(l, second)
      /\ DOMAIN third = Lists
  BY DEF Lists
<1> HIDE DEF third
<1>5. /\ fourth["runs"] = DoomedOf("runs", third)
      /\ \A l \in Lists \ {"runs"} : fourth[l] = third[l]
  BY <1>4 DEF Lists
<1> HIDE DEF fourth
<1>6. /\ L["accounts"] = first["accounts"] /\ L["orgs"] = first["orgs"] /\ L["coworkers"] = second["coworkers"]
  BY <1>1, <1>3, <1>4, <1>5 DEF Lists
<1>7. L["coworkers"] = DoomedOf("coworkers", L)
  <2>1. Owned["coworkers"].by = {"accounts"} /\ Owned["coworkers"].table = "coworker_view"
    BY DEF Owned
  <2> QED
    BY <1>3, <1>6, <2>1 DEF DoomedOf
<1>8. ASSUME NEW l \in DOMAIN Owned \ {"coworkers", "runs"} PROVE L[l] = DoomedOf(l, L)
  <2>1. l \in Lists \ {"accounts", "orgs", "coworkers", "runs"}
    BY <1>8 DEF Owned, Lists
  <2>2. Owned[l].by \subseteq {"accounts", "orgs", "coworkers"}
    BY <1>8 DEF Owned
  <2>3. \A k \in Owned[l].by : L[k] = second[k]
    BY <1>3, <1>6, <2>2
  <2>4. UNION {L[k] : k \in Owned[l].by} = UNION {second[k] : k \in Owned[l].by}
    BY <2>3
  <2>5. L[l] = DoomedOf(l, second)
    BY <1>1, <1>4, <1>5, <2>1
  <2> QED
    BY <2>4, <2>5 DEF DoomedOf
<1>9. L["runs"] = DoomedOf("runs", L)
  <2>1. Owned["runs"].by = {"accounts", "coworkers", "schedules"}
    BY DEF Owned
  <2>2. \A k \in Owned["runs"].by : L[k] = third[k]
    BY <1>1, <1>5, <2>1 DEF Lists
  <2>3. UNION {L[k] : k \in Owned["runs"].by} = UNION {third[k] : k \in Owned["runs"].by}
    BY <2>2
  <2> QED
    BY <1>1, <1>5, <2>3 DEF DoomedOf
<1> QED
  BY <1>2, <1>6, <1>7, <1>8, <1>9 DEF ListsRead

\* The deletes are given the list of every kind of id a row of the table names.
LEMMA DeletesFollowNames ==
    ASSUME NEW t \in DOMAIN Naming, NEW k \in Naming[t]
    PROVE  ListOf(k) \in ListsOf(t)
<1>1. CASE t \in {"events", "monitor_firing", "artifact", "recipe_run", "recipe_grant", "recipe_share", "recipe_version"}
  <2>1. ListsOf(t) = FirstDeletes[t]
    BY <1>1 DEF ListsOf, FirstDeletes, MiddleDeletes, LaterDeletes, LastDeletes
  <2>2. ListOf(k) \in FirstDeletes[t]
    BY <1>1 DEF FirstDeletes, Naming, ListOf
  <2> QED
    BY <2>1, <2>2
<1>2. CASE t \in {"pending_user_message", "bot_message", "coworker_template_use", "ceiling_view", "grant_view"}
  <2>1. ListsOf(t) = MiddleDeletes[t]
    BY <1>2 DEF ListsOf, FirstDeletes, MiddleDeletes, LaterDeletes, LastDeletes
  <2>2. ListOf(k) \in MiddleDeletes[t]
    BY <1>2 DEF MiddleDeletes, Naming, ListOf
  <2> QED
    BY <2>1, <2>2
<1>3. CASE t \in {"connection_loan", "mcp_oauth_grant", "session_view"}
  <2>1. ListsOf(t) = LaterDeletes[t]
    BY <1>3 DEF ListsOf, FirstDeletes, MiddleDeletes, LaterDeletes, LastDeletes
  <2>2. ListOf(k) \in LaterDeletes[t]
    BY <1>3 DEF LaterDeletes, Naming, ListOf
  <2> QED
    BY <2>1, <2>2
<1>4. CASE t \in {"scoped_computer", "secret_store", "gateway_key_view", "org_invite"}
  <2>1. ListsOf(t) = LastDeletes[t]
    BY <1>4 DEF ListsOf, FirstDeletes, MiddleDeletes, LaterDeletes, LastDeletes
  <2>2. ListOf(k) \in LastDeletes[t]
    BY <1>4 DEF LastDeletes, Naming, ListOf
  <2> QED
    BY <2>1, <2>2
<1> QED
  BY <1>1, <1>2, <1>3, <1>4 DEF Naming

\* What a thing's list is read from are the lists of every kind of id it names.
LEMMA ThingsFollowNames ==
    ASSUME NEW l \in ThingLists, NEW k \in ThingNaming[l]
    PROVE  l \in DOMAIN Owned /\ ListOf(k) \in Owned[l].by
BY DEF ThingLists, ThingNaming, Owned, ListOf

LEMMA KindsAre ==
    /\ DOMAIN Kinds = {"a", "c", "o"} /\ ThingLists \cap {"a", "c", "o"} = {}
    /\ Kinds["a"] = PurgeAccounts /\ Kinds["c"] = PurgeBots /\ Kinds["o"] = PurgeOrgs
    /\ ListOf("a") = "accounts" /\ ListOf("c") = "coworkers" /\ ListOf("o") = "orgs"
    /\ TableOf("accounts") = "account_view" /\ TableOf("orgs") = "org_view"
    /\ TableOf("coworkers") = "coworker_view"
    /\ \A l \in ThingLists : l \in Lists /\ ListOf(l) = l /\ TableOf(l) = Owned[l].table
    /\ {"accounts", "orgs", "coworkers"} \subseteq Lists
BY DEF Kinds, ThingLists, ThingNaming, ListOf, TableOf, Owned, Lists

\* An id the server finds to name is the id of a row of the table its list is of.
LEMMA HereIs ==
    ASSUME DbOK, NEW k \in {"a", "c", "o"} \cup ThingLists, NEW n \in Here(k)
    PROVE  ListOf(k) \in Lists /\ There(n, ListOf(k))
<1>1. CASE k \in {"a", "c", "o"}
  <2>1. n \in Kinds[k] /\ \E r \in db : r.id = n
    BY <1>1, KindsAre DEF Here
  <2>2. PICK r \in db : r.id = n
    BY <2>1
  <2>3. IdOK(r)
    BY DEF DbOK
  <2>4. r.table = TableOf(ListOf(k))
    BY <1>1, <2>1, <2>2, <2>3, KindsAre DEF IdOK
  <2>5. There(n, ListOf(k))
    BY <2>2, <2>4 DEF There
  <2> QED
    BY <1>1, <2>5, KindsAre
<1>2. CASE k \in ThingLists
  <2>1. \E t \in db : t.table = Owned[k].table /\ t.id = n
    BY <1>2, KindsAre DEF Here, Ids, In
  <2> QED
    BY <1>2, <2>1, KindsAre DEF There
<1> QED
  BY <1>1, <1>2

\* The server adds rows: what they name is there.
LEMMA Grows ==
    ASSUME PurgeInv, ~Stopped, NEW new, db' = db \cup new, purges' = purges,
           \A r \in new : NamesOK(r)' /\ IdOK(r)
    PROVE  PurgeInv'
<1>1. ASSUME NEW r \in db PROVE NamesOK(r)'
  <2> SUFFICES ASSUME NEW n \in r.names \ Excused(r)
               PROVE  \E l \in Lists : MayName(r.table, l) /\ There(n, l)'
    BY DEF NamesOK, Excused
  <2>1. PICK l \in Lists : MayName(r.table, l) /\ There(n, l)
    BY DEF PurgeInv, DbOK, NamesOK
  <2>2. There(n, l)'
    BY <2>1 DEF There
  <2> QED
    BY <2>1, <2>2
<1>2. \A r \in db : IdOK(r)
  BY DEF PurgeInv, DbOK
<1>3. DbOK'
  BY <1>1, <1>2 DEF DbOK, IdOK, NamesOK, Excused
<1>4. ListsOK'
  BY DEF PurgeInv, ListsOK, Stopped
<1> QED
  BY <1>3, <1>4 DEF PurgeInv, PurgeShape

LEMMA OpenOrgStep ==
    ASSUME PurgeInv, NEW o \in PurgeOrgs, NEW a \in PurgeAccounts, OpenOrg(o, a)
    PROVE  PurgeInv'
<1>1. PICK r, s : r = Row("org_view", o, {a}) /\ s = Row("account_view", a, {o})
  OBVIOUS
<1>2. /\ r.table = "org_view" /\ r.id = o /\ r.names = {a}
      /\ s.table = "account_view" /\ s.id = a /\ s.names = {o}
  BY <1>1 DEF Row
<1>3. ~Stopped /\ db' = db \cup {r, s} /\ purges' = purges
  BY <1>1 DEF OpenOrg
<1>4. IdOK(r) /\ IdOK(s)
  BY <1>2, PurgeAssumption DEF IdOK
<1>5. NamesOK(r)'
  BY <1>2 DEF NamesOK, Excused
<1>6. There(o, "orgs")'
  BY <1>2, <1>3, KindsAre DEF There
<1>7. MayName("account_view", "orgs")
  BY DEF MayName
<1>8. NamesOK(s)'
  BY <1>2, <1>6, <1>7, KindsAre DEF NamesOK
<1>9. PICK new : new = {r, s}
  OBVIOUS
<1>10. db' = db \cup new
  BY <1>3, <1>9
<1>11. \A x \in new : NamesOK(x)' /\ IdOK(x)
  BY <1>3, <1>4, <1>5, <1>8, <1>9 DEF NamesOK, There, Excused
<1> QED
  BY <1>3, <1>4, <1>5, <1>8, <1>10, <1>11, Grows

LEMMA SignUpStep ==
    ASSUME PurgeInv, NEW a \in PurgeAccounts, SignUp(a)
    PROVE  PurgeInv'
<1>1. PICK named \in {{}} \cup {{o} : o \in Here("o")} : db' = db \cup {Row("account_view", a, named)}
  BY DEF SignUp
<1>2. PICK s : s = Row("account_view", a, named)
  OBVIOUS
<1>3. s.table = "account_view" /\ s.id = a /\ s.names = named
  BY <1>2 DEF Row
<1>4. ~Stopped /\ db' = db \cup {s} /\ purges' = purges
  BY <1>1, <1>2 DEF SignUp
<1>5. IdOK(s)
  BY <1>3, PurgeAssumption DEF IdOK
<1>6. ASSUME NEW n \in named PROVE There(n, "orgs")'
  <2>1. n \in Here("o")
    BY <1>1, <1>6
  <2>2. There(n, "orgs")
    BY <2>1, HereIs, KindsAre DEF PurgeInv
  <2> QED
    BY <1>4, <2>2 DEF There
<1>7. MayName("account_view", "orgs")
  BY DEF MayName
<1>8. NamesOK(s)'
  BY <1>3, <1>6, <1>7, KindsAre DEF NamesOK
<1>9. PICK new : new = {s}
  OBVIOUS
<1>10. db' = db \cup new
  BY <1>4, <1>9
<1>11. \A x \in new : NamesOK(x)' /\ IdOK(x)
  BY <1>4, <1>5, <1>8, <1>9 DEF NamesOK, There, Excused
<1> QED
  BY <1>4, <1>5, <1>8, <1>10, <1>11, Grows

LEMMA HireStep ==
    ASSUME PurgeInv, NEW a \in PurgeAccounts, NEW c \in PurgeBots, HireOne(a, c)
    PROVE  PurgeInv'
<1>1. PICK s : s = Row("coworker_view", c, {a})
  OBVIOUS
<1>2. s.table = "coworker_view" /\ s.id = c /\ s.names = {a}
  BY <1>1 DEF Row
<1>3. ~Stopped /\ db' = db \cup {s} /\ purges' = purges /\ a \in Here("a")
  BY <1>1 DEF HireOne
<1>4. IdOK(s)
  BY <1>2, PurgeAssumption DEF IdOK
<1>5. There(a, "accounts")
  BY <1>3, HereIs, KindsAre DEF PurgeInv
<1>6. There(a, "accounts")'
  BY <1>3, <1>5 DEF There
<1>7. MayName("coworker_view", "accounts")
  BY DEF MayName
<1>8. NamesOK(s)'
  BY <1>2, <1>6, <1>7, KindsAre DEF NamesOK
<1>9. PICK new : new = {s}
  OBVIOUS
<1>10. db' = db \cup new
  BY <1>3, <1>9
<1>11. \A x \in new : NamesOK(x)' /\ IdOK(x)
  BY <1>3, <1>4, <1>8, <1>9 DEF NamesOK, There, Excused
<1> QED
  BY <1>3, <1>4, <1>8, <1>10, <1>11, Grows

\* A row that names ids of the kinds its table names.
LEMMA NamesChosen ==
    ASSUME PurgeInv, ~Stopped, NEW table, NEW id, NEW kinds, NEW names \in PurgeChoices(kinds),
           kinds \subseteq {"a", "c", "o"} \cup ThingLists,
           id \notin PurgeAccounts \cup PurgeOrgs \cup PurgeBots,
           \A k \in kinds : MayName(table, ListOf(k)),
           db' = db \cup {Row(table, id, names)}, purges' = purges
    PROVE  PurgeInv'
<1>1. PICK s : s = Row(table, id, names)
  OBVIOUS
<1>2. s.table = table /\ s.id = id /\ s.names = names
  BY <1>1 DEF Row
<1>3. IdOK(s)
  BY <1>2 DEF IdOK
<1>4. ASSUME NEW n \in names PROVE \E l \in Lists : MayName(table, l) /\ There(n, l)'
  <2>1. PICK k \in kinds : n \in Here(k)
    BY DEF PurgeChoices
  <2>2. ListOf(k) \in Lists /\ There(n, ListOf(k))
    BY <2>1, HereIs DEF PurgeInv
  <2>3. PICK l \in Lists : l = ListOf(k)
    BY <2>2
  <2>4. There(n, l)'
    BY <2>2, <2>3 DEF There
  <2> QED
    BY <2>3, <2>4
<1>5. NamesOK(s)'
  BY <1>2, <1>4 DEF NamesOK
<1>6. db' = db \cup {s}
  BY <1>1
<1>7. PICK new : new = {s}
  OBVIOUS
<1>8. db' = db \cup new
  BY <1>6, <1>7
<1>9. \A x \in new : NamesOK(x)' /\ IdOK(x)
  BY <1>3, <1>5, <1>6, <1>7 DEF NamesOK, There, Excused
<1> QED
  BY <1>3, <1>5, <1>6, <1>8, <1>9, Grows

LEMMA MakeThingStep ==
    ASSUME PurgeInv, NEW l \in DOMAIN ThingNaming, NEW i \in Things, MakeThing(l, i)
    PROVE  PurgeInv'
<1>1. PICK names \in PurgeChoices(ThingNaming[l]) : db' = db \cup {Row(Owned[l].table, i, names)}
  BY DEF MakeThing
<1>2. ThingNaming[l] \subseteq {"a", "c", "o"}
  BY DEF ThingNaming
<1>3. \A k \in ThingNaming[l] : MayName(Owned[l].table, ListOf(k))
  BY DEF MayName
<1>4. i \notin PurgeAccounts \cup PurgeOrgs \cup PurgeBots
  BY PurgeAssumption
<1> QED
  BY <1>1, <1>2, <1>3, <1>4, NamesChosen DEF MakeThing

LEMMA WriteRowStep ==
    ASSUME PurgeInv, NEW t \in DOMAIN Naming, WriteRow(t)
    PROVE  PurgeInv'
<1>1. PICK names \in PurgeChoices(Naming[t]) : db' = db \cup {Row(t, NoId, names)}
  BY DEF WriteRow
<1>2. Naming[t] \subseteq {"a", "c", "o"} \cup ThingLists
  BY DEF Naming, ThingLists, ThingNaming
<1>3. \A k \in Naming[t] : MayName(t, ListOf(k))
  BY DEF MayName
<1>4. NoId \notin PurgeAccounts \cup PurgeOrgs \cup PurgeBots
  BY PurgeAssumption DEF NoId
<1> QED
  BY <1>1, <1>2, <1>3, <1>4, NamesChosen DEF WriteRow

LEMMA StillRead ==
    ASSUME NEW L, NEW keep, db' = db, ListsRead(L, keep), keep \subseteq Ids(In("account_view"))
    PROVE  ListsRead(L, keep)' /\ keep \subseteq Ids(In("account_view"))'
BY DEF ListsRead, DoomedOf, DoomedOrgs, Ids, In

\* A database whose rows stand: what a purge does to its own record.
LEMMA PurgeSteps ==
    ASSUME PurgeInv, NEW p \in Operators, NEW rec, purges' = [purges EXCEPT ![p] = rec], db' = db,
           rec = [pc |-> rec.pc, keep |-> rec.keep, lists |-> rec.lists],
           rec.pc = "listed" =>
              /\ ListsRead(rec.lists, rec.keep) /\ rec.keep \subseteq Ids(In("account_view"))
              /\ \A o \in Operators : purges[o].pc # "listed"
    PROVE  PurgeInv'
<1>1. DOMAIN purges' = Operators /\ \A o \in Operators : purges'[o] = IF o = p THEN rec ELSE purges[o]
  BY DEF PurgeInv, PurgeShape
<1>2. PurgeShape'
  BY <1>1 DEF PurgeInv, PurgeShape
<1>3. DbOK'
  BY DEF PurgeInv, DbOK, NamesOK, IdOK, There, Excused
<1>4. ASSUME NEW o \in Operators, purges'[o].pc = "listed"
      PROVE  /\ ListsRead(purges[o].lists, purges[o].keep)'
             /\ purges'[o].keep \subseteq Ids(In("account_view"))'
  <2>1. PICK x : x = purges'[o]
    OBVIOUS
  <2>2. ListsRead(x.lists, x.keep) /\ x.keep \subseteq Ids(In("account_view"))
    BY <1>1, <1>4, <2>1 DEF PurgeInv, ListsOK
  <2>3. ListsRead(x.lists, x.keep)' /\ x.keep \subseteq Ids(In("account_view"))'
    BY <2>2, StillRead
  <2> QED
    BY <2>1, <2>3 DEF ListsRead, DoomedOf, DoomedOrgs, Ids, In
<1>5. \A o, t \in Operators : purges'[o].pc = "listed" /\ purges'[t].pc = "listed" => o = t
  BY <1>1 DEF PurgeInv, ListsOK
<1>6. ListsOK'
  BY <1>4, <1>5 DEF ListsOK
<1> QED
  BY <1>2, <1>3, <1>6 DEF PurgeInv

LEMMA IdleIs == IdlePurge = [pc |-> IdlePurge.pc, keep |-> IdlePurge.keep, lists |-> IdlePurge.lists]
                /\ IdlePurge.pc = "idle"
BY DEF IdlePurge

LEMMA AskPurgeStep ==
    ASSUME PurgeInv, NEW p \in Operators, NEW keep \in SUBSET PurgeAccounts, AskPurge(p, keep)
    PROVE  PurgeInv'
<1>1. PICK rec : rec = [IdlePurge EXCEPT !.pc = "asked", !.keep = keep]
  OBVIOUS
<1>2. rec = [pc |-> "asked", keep |-> keep, lists |-> IdlePurge.lists]
  BY <1>1 DEF IdlePurge
<1>3. rec = [pc |-> rec.pc, keep |-> rec.keep, lists |-> rec.lists] /\ rec.pc = "asked"
  BY <1>2
<1>4. purges' = [purges EXCEPT ![p] = rec] /\ db' = db
  BY <1>1 DEF AskPurge
<1> QED
  BY <1>3, <1>4, PurgeSteps

LEMMA ReadListsStep ==
    ASSUME PurgeInv, NEW p \in Operators, ReadLists(p)
    PROVE  PurgeInv'
<1>1. PICK o : o = purges[p]
  OBVIOUS
<1>2. o = [pc |-> o.pc, keep |-> o.keep, lists |-> o.lists]
  BY <1>1 DEF PurgeInv, PurgeShape
<1>3. db' = db /\ \A t \in Operators : purges[t].pc # "listed"
  BY DEF ReadLists, LockIsFree
<1>4. CASE o.keep \subseteq Ids(In("account_view"))
  <2>1. PICK L : L = IdLists(o.keep) /\ ListsRead(L, o.keep)
    BY ListsAre
  <2>2. PICK rec : rec = [o EXCEPT !.pc = "listed", !.lists = L]
    OBVIOUS
  <2>3. rec = [pc |-> "listed", keep |-> o.keep, lists |-> L]
    BY <1>2, <2>2
  <2>4. /\ rec = [pc |-> rec.pc, keep |-> rec.keep, lists |-> rec.lists]
        /\ rec.lists = L /\ rec.keep = o.keep
    BY <2>3
  <2>5. purges' = [purges EXCEPT ![p] = rec]
    BY <1>1, <1>4, <2>1, <2>2 DEF ReadLists
  <2> QED
    BY <1>3, <1>4, <2>1, <2>4, <2>5, PurgeSteps
<1>5. CASE ~(o.keep \subseteq Ids(In("account_view")))
  <2>1. purges' = [purges EXCEPT ![p] = IdlePurge]
    BY <1>1, <1>5 DEF ReadLists
  <2> QED
    BY <1>3, <2>1, IdleIs, PurgeSteps
<1> QED
  BY <1>4, <1>5

\* The tables of the lists are no table of the rest, and different lists' are different.
LEMMA TablesAre ==
    /\ \A l \in Lists : TableOf(l) \notin DOMAIN Naming
    /\ \A l \in Lists \ {"accounts"} : TableOf(l) # "account_view"
    /\ \A l \in Lists \ {"orgs"} : TableOf(l) # "org_view"
    /\ \A l \in Lists, k \in DOMAIN Owned : TableOf(l) = Owned[k].table => l = k
<1>1. \A l \in Lists : TableOf(l) \in
        {"account_view", "org_view", "coworker_view", "schedule_view", "monitor_view", "connection_view",
         "coworker_template", "recipe", "skill", "run_view"}
  BY DEF Lists, TableOf, Owned
<1>2. \A l \in Lists : TableOf(l) \notin DOMAIN Naming
  BY <1>1 DEF Naming
<1>3. \A l \in Lists \ {"accounts"} : TableOf(l) # "account_view"
  BY DEF Lists, TableOf, Owned
<1>4. \A l \in Lists \ {"orgs"} : TableOf(l) # "org_view"
  BY DEF Lists, TableOf, Owned
<1>5. ASSUME NEW l \in Lists, NEW k \in DOMAIN Owned, TableOf(l) = Owned[k].table PROVE l = k
  BY <1>5 DEF Lists, TableOf, Owned
<1> QED
  BY <1>2, <1>3, <1>4, <1>5

\* A row that goes is of an id on the list of its table.
LEMMA GoesByItsList ==
    ASSUME NEW L, NEW t, NEW l \in Lists, t.table = TableOf(l), Removes(L, t)
    PROVE  t.id \in L[l]
<1>1. CASE t.table = "account_view" /\ t.id \in L["accounts"]
  BY <1>1, TablesAre
<1>2. CASE t.table = "org_view" /\ t.id \in L["orgs"]
  BY <1>2, TablesAre
<1>3. CASE \E k \in DOMAIN Owned : t.table = Owned[k].table /\ t.id \in L[k]
  BY <1>3, TablesAre
<1>4. CASE t.table \in DOMAIN Naming
  BY <1>4, TablesAre
<1> QED
  BY <1>1, <1>2, <1>3, <1>4 DEF Removes

\* A row that names an id on a list goes, or is excused.
LEMMA NamerGoes ==
    ASSUME NEW keep, NEW L, ListsRead(L, keep), NEW r \in db, NEW l \in Lists, NEW n \in r.names,
           MayName(r.table, l), n \in L[l], n \notin Excused(r)
    PROVE  Removes(L, r)
<1>1. CASE r.table = "account_view" /\ l = "orgs"
  <2>1. n \in DoomedOrgs(keep) /\ L["accounts"] = Ids(In("account_view")) \ keep
    BY <1>1 DEF ListsRead
  <2>2. r \in In("account_view") /\ r.id \in Ids(In("account_view"))
    BY <1>1 DEF In, Ids
  <2>3. r.id \notin keep
    BY <2>1, <2>2 DEF DoomedOrgs
  <2> QED
    BY <1>1, <2>1, <2>2, <2>3 DEF Removes
<1>2. CASE r.table = "org_view"
  BY <1>2 DEF Excused
<1>3. ASSUME NEW k \in DOMAIN Owned, r.table = Owned[k].table, l \in Owned[k].by
      PROVE  Removes(L, r)
  <2>1. L[k] = DoomedOf(k, L)
    BY DEF ListsRead
  <2>2. r \in In(Owned[k].table) /\ r.names \cap UNION {L[j] : j \in Owned[k].by} # {}
    BY <1>3 DEF In
  <2>3. r.id \in L[k]
    BY <2>1, <2>2 DEF DoomedOf
  <2> QED
    BY <1>3, <2>3 DEF Removes
<1>4. CASE r.table = "coworker_view" /\ l = "accounts"
  <2>1. "coworkers" \in DOMAIN Owned /\ Owned["coworkers"].table = "coworker_view"
        /\ Owned["coworkers"].by = {"accounts"}
    BY DEF Owned
  <2> QED
    BY <1>3, <1>4, <2>1
<1>5. CASE \E j \in DOMAIN ThingNaming : r.table = Owned[j].table /\ \E k \in ThingNaming[j] : l = ListOf(k)
  BY <1>3, <1>5, ThingsFollowNames DEF ThingLists
<1>6. CASE r.table \in DOMAIN Naming /\ \E k \in Naming[r.table] : l = ListOf(k)
  <2>1. l \in ListsOf(r.table)
    BY <1>6, DeletesFollowNames
  <2>2. r.names \cap UNION {L[j] : j \in ListsOf(r.table)} # {}
    BY <2>1
  <2> QED
    BY <1>6, <2>2 DEF Removes
<1> QED
  BY <1>1, <1>2, <1>4, <1>5, <1>6 DEF MayName

LEMMA PurgedStep ==
    ASSUME PurgeInv, NEW p \in Operators, Purged(p)
    PROVE  PurgeInv'
<1>1. purges' = [purges EXCEPT ![p] = IdlePurge] /\ purges[p].pc = "listed"
  BY DEF Purged
<1>2. CASE db' = db
  BY <1>1, <1>2, IdleIs, PurgeSteps
<1>3. CASE db' = {r \in db : ~Removes(purges[p].lists, r)}
  <2>1. PICK L, keep : L = purges[p].lists /\ keep = purges[p].keep
    OBVIOUS
  <2>2. ListsRead(L, keep)
    BY <1>1, <2>1 DEF PurgeInv, ListsOK
  <2>3. db' = {r \in db : ~Removes(L, r)}
    BY <1>3, <2>1
  <2>4. ASSUME NEW r \in db, ~Removes(L, r), NEW n \in r.names \ Excused(r)
        PROVE  \E l \in Lists : MayName(r.table, l) /\ \E t \in db' : t.table = TableOf(l) /\ t.id = n
    <3>1. PICK l \in Lists : MayName(r.table, l) /\ There(n, l)
      BY DEF PurgeInv, DbOK, NamesOK
    <3>2. PICK t \in db : t.table = TableOf(l) /\ t.id = n
      BY <3>1 DEF There
    <3>3. n \notin L[l]
      BY <2>2, <2>4, <3>1, NamerGoes
    <3>4. ~Removes(L, t)
      BY <3>2, <3>3, GoesByItsList
    <3> QED
      BY <2>3, <3>1, <3>2, <3>4
  <2>5. DbOK'
    BY <2>3, <2>4 DEF PurgeInv, DbOK, NamesOK, There, IdOK, Excused
  <2>6. /\ DOMAIN purges' = Operators
        /\ \A o \in Operators : purges'[o] = IF o = p THEN IdlePurge ELSE purges[o]
    BY <1>1 DEF PurgeInv, PurgeShape
  <2>7. PurgeShape'
    BY <2>6, IdleIs DEF PurgeInv, PurgeShape
  <2>8. \A o \in Operators : purges'[o].pc # "listed"
    BY <1>1, <2>6, IdleIs DEF PurgeInv, ListsOK
  <2>9. ListsOK'
    BY <2>8 DEF ListsOK
  <2> QED
    BY <2>5, <2>7, <2>9 DEF PurgeInv
<1> QED
  BY <1>2, <1>3 DEF Purged

LEMMA PurgeStep == PurgeInv /\ [PurgeNext]_purgeVars => PurgeInv'
<1> SUFFICES ASSUME PurgeInv, [PurgeNext]_purgeVars PROVE PurgeInv'
  OBVIOUS
<1>1. CASE UNCHANGED purgeVars
  <2>1. db' = db /\ purges' = purges
    BY <1>1 DEF purgeVars
  <2>2. DbOK' /\ PurgeShape'
    BY <2>1 DEF PurgeInv, PurgeShape, DbOK, NamesOK, There, IdOK, Excused
  <2>3. ASSUME NEW p \in Operators, purges'[p].pc = "listed"
        PROVE  /\ ListsRead(purges[p].lists, purges[p].keep)'
               /\ purges'[p].keep \subseteq Ids(In("account_view"))'
    <3>1. PICK x : x = purges[p]
      OBVIOUS
    <3>2. ListsRead(x.lists, x.keep) /\ x.keep \subseteq Ids(In("account_view"))
      BY <2>1, <2>3, <3>1 DEF PurgeInv, ListsOK
    <3>3. ListsRead(x.lists, x.keep)' /\ x.keep \subseteq Ids(In("account_view"))'
      BY <2>1, <3>2, StillRead
    <3> QED
      BY <2>1, <3>1, <3>3 DEF ListsRead, DoomedOf, DoomedOrgs, Ids, In
  <2>4. ListsOK'
    BY <2>1, <2>3 DEF PurgeInv, ListsOK
  <2> QED
    BY <2>2, <2>4 DEF PurgeInv
<1>2. ASSUME NEW o \in PurgeOrgs, NEW a \in PurgeAccounts, OpenOrg(o, a) PROVE PurgeInv'
  BY <1>2, OpenOrgStep
<1>3. ASSUME NEW a \in PurgeAccounts, SignUp(a) PROVE PurgeInv'
  BY <1>3, SignUpStep
<1>4. ASSUME NEW a \in PurgeAccounts, NEW c \in PurgeBots, HireOne(a, c) PROVE PurgeInv'
  BY <1>4, HireStep
<1>5. ASSUME NEW l \in DOMAIN ThingNaming, NEW i \in Things, MakeThing(l, i) PROVE PurgeInv'
  BY <1>5, MakeThingStep
<1>6. ASSUME NEW t \in DOMAIN Naming, WriteRow(t) PROVE PurgeInv'
  BY <1>6, WriteRowStep
<1>7. ASSUME NEW p \in Operators, NEW keep \in SUBSET PurgeAccounts, AskPurge(p, keep) PROVE PurgeInv'
  BY <1>7, AskPurgeStep
<1>8. ASSUME NEW p \in Operators, ReadLists(p) \/ Purged(p) PROVE PurgeInv'
  BY <1>8, ReadListsStep, PurgedStep
<1> QED
  BY <1>1, <1>2, <1>3, <1>4, <1>5, <1>6, <1>7, <1>8 DEF PurgeNext

LEMMA PurgeStart == PurgeInit => PurgeInv
BY IdleIs DEF PurgeInit, PurgeInv, DbOK, ListsOK, PurgeShape

LEMMA PurgeInvIsEnough == PurgeInv => NothingDangles
<1> SUFFICES ASSUME PurgeInv PROVE NothingDangles
  OBVIOUS
<1>1. \A r \in db : r.names \ Excused(r) \subseteq Ids(db)
  BY DEF PurgeInv, DbOK, NamesOK, There, Ids
<1> QED
  BY <1>1 DEF PurgeInv, ListsOK, NothingDangles

\* A purge leaves no row that names an id whose row is gone, and keeps an allowlist only of
\* accounts that exist: the lists of purge.rs and its deletes follow every reference the server
\* writes, for any accounts, organisations, coworkers, things and operators.
THEOREM PurgeLeavesNothing == PurgeSpec => []NothingDangles
<1>1. PurgeInit => PurgeInv
  BY PurgeStart
<1>2. PurgeInv /\ [PurgeNext]_purgeVars => PurgeInv'
  BY PurgeStep
<1>3. PurgeInv => NothingDangles
  BY PurgeInvIsEnough
<1> QED
  BY <1>1, <1>2, <1>3, PTL DEF PurgeSpec

\* A committed purge leaves every account its allowlist named, and the organisation each is in.
THEOREM KeptStay ==
    PurgeSpec => [][\A p \in Operators :
        Purged(p) => \A a \in In("account_view") : a.id \in purges[p].keep =>
            /\ a \in db'
            /\ \A o \in In("org_view") : o.id \in a.names => o \in db']_purgeVars
<1> DEFINE KeptBy(p) == \A a \in In("account_view") : a.id \in purges[p].keep =>
                         /\ a \in db'
                         /\ \A o \in In("org_view") : o.id \in a.names => o \in db'
<1>1. ASSUME PurgeInv, NEW p \in Operators, Purged(p) PROVE KeptBy(p)
  <2> SUFFICES ASSUME NEW a \in In("account_view"), a.id \in purges[p].keep
               PROVE  /\ a \in db'
                      /\ \A o \in In("org_view") : o.id \in a.names => o \in db'
    OBVIOUS
  <2>1. PICK L, keep : L = purges[p].lists /\ keep = purges[p].keep
    OBVIOUS
  <2>2. ListsRead(L, keep) /\ a.id \in keep
    BY <1>1, <2>1 DEF Purged, PurgeInv, ListsOK
  <2>3. CASE db' = db
    BY <2>3 DEF In
  <2>4. CASE db' = {r \in db : ~Removes(L, r)}
    <3>1. /\ "accounts" \in Lists /\ a.table = TableOf("accounts") /\ a.id \notin L["accounts"]
      BY <2>2, KindsAre DEF ListsRead, In
    <3>2. ~Removes(L, a)
      BY <3>1, GoesByItsList
    <3>3. ASSUME NEW o \in In("org_view"), o.id \in a.names PROVE ~Removes(L, o)
      <4>1. o.id \notin DoomedOrgs(keep)
        BY <2>2, <3>3 DEF DoomedOrgs, In
      <4>2. "orgs" \in Lists /\ o.table = TableOf("orgs") /\ o.id \notin L["orgs"]
        BY <2>2, <4>1, KindsAre DEF ListsRead, In
      <4> QED
        BY <4>2, GoesByItsList
    <3> QED
      BY <2>4, <3>2, <3>3 DEF In
  <2> QED
    BY <1>1, <2>1, <2>3, <2>4 DEF Purged
<1>2. PurgeInv /\ [PurgeNext]_purgeVars => [\A p \in Operators : Purged(p) => KeptBy(p)]_purgeVars
  BY <1>1
<1>3. PurgeInit => PurgeInv
  BY PurgeStart
<1>4. PurgeInv /\ [PurgeNext]_purgeVars => PurgeInv'
  BY PurgeStep
<1> QED
  BY <1>2, <1>3, <1>4, PTL DEF PurgeSpec

=============================================================================
