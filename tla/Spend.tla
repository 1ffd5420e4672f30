------------------------------- MODULE Spend -------------------------------
(***************************************************************************)
(* The points a person's turns with one coworker may spend: the gateway    *)
(* key the pair spends on (minted at hire or late, sealed, recorded,       *)
(* retired when the gateway has forgotten it, revoked with the coworker),  *)
(* the cap on the pair (a member's pool, which sums the same readings over *)
(* the member's coworkers, is left out), and the guarded door every        *)
(* model call of a turn goes through (spend.rs, points.rs,                *)
(* store/gateway.rs, store/points.rs).  The gateway itself is external:    *)
(* it knows a set of keys, counts the points of each, and may be wiped.    *)
(*                                                                         *)
(* One clock unit is the fifteen seconds a reading stays fresh; the steps  *)
(* of one guarded call fall inside one unit.                               *)
(***************************************************************************)
EXTENDS Integers

CONSTANTS SpendTurns,     \* turns (and a hire) with the coworker
          SpendReplicas,  \* server processes, each with its own caches
          MaxKeys,        \* bound: keys the gateway mints
          MaxPoints,      \* bound: points spent on one key
          Caps,           \* the caps a person may set
          MeterStale      \* STALE_OK_MS in units of FRESH_MS

ASSUME SpendAssumption ==
  /\ MaxKeys \in Nat \ {0} /\ MaxPoints \in Nat /\ Caps \subseteq Nat \ {0}
  /\ MeterStale \in Nat \ {0} /\ SpendReplicas # {}

VARIABLES keyRow,     \* the pair's coworker_gateway_key row
          keySecret,  \* the key the sealed secret of the pair opens, 0 when there is none
          gatewayKeys,\* the keys the gateway has minted, knows, and the points of each
          limit,      \* the cap on the pair's points, 0 for none
          letGo,      \* the coworker is retired
          caches,     \* per process: mint attempt, limits and meter reading
          call,       \* the turns
          overFor     \* ghost: whole clock units the pair has been at its limits, these unchanged

spendVars == <<keyRow, keySecret, gatewayKeys, limit, letGo,
               caches, call, overFor>>

NoKeyRow == [id |-> 0, live |-> FALSE]
NoLimit == 0
\* A cached value too old to stand is as good as none.
NoMeter == [key |-> 0, used |-> 0, age |-> MeterStale + 1]
NoLimits == [lim |-> NoLimit, age |-> 2]
NoCall == [pc |-> "idle", at |-> CHOOSE r \in SpendReplicas : TRUE, sent |-> 0,
           row |-> 0, hires |-> FALSE]
Limited(l) == l # NoLimit

SpendTypeOK ==
  /\ keyRow \in [id : 0..MaxKeys, live : BOOLEAN]
  /\ keySecret \in 0..MaxKeys
  /\ gatewayKeys.known \subseteq 1..gatewayKeys.minted
  /\ limit \in {NoLimit} \cup Caps

(***************************************************************************)
(* A key for the pair.  key_for reads the row and, when no live row        *)
(* exists, mints late, at most once per process and ten minutes; a hire    *)
(* mints without that guard.  Mint, seal and record are three calls.       *)
(***************************************************************************)
Goto(t, pc) == call' = [call EXCEPT ![t].pc = pc]
CallEnded(t) == call' = [call EXCEPT ![t] = NoCall]

\* The row's key with the secret opened under the pair's id; a missing secret makes the
\* key unavailable and the turn is refused at the door.
Opened(t) ==
  call' = [call EXCEPT ![t] = IF keySecret = 0 THEN NoCall
                            ELSE [NoCall EXCEPT !.pc = "ready", !.at = call[t].at, !.sent = keySecret]]

\* A mint that came to nothing leaves a turn without a key, and ends a hire's part.
Keyless(t) ==
  call' = [call EXCEPT ![t] = IF call[t].hires THEN NoCall
                              ELSE [NoCall EXCEPT !.pc = "ready", !.at = call[t].at]]
AfterMint(t) == IF call[t].hires THEN CallEnded(t) ELSE Goto(t, "minted")

\* The ten minutes of the retry interval outlast every behaviour here.
MayMint(r) == ~caches[r].tried

KeyFor(t, r) ==
  /\ call[t].pc = "idle"
  /\ IF keyRow.live
     THEN /\ keySecret # 0
          /\ call' = [call EXCEPT ![t] = [NoCall EXCEPT !.pc = "ready", !.at = r, !.sent = keySecret]]
          /\ UNCHANGED caches
     ELSE IF MayMint(r)
     THEN /\ caches' = [caches EXCEPT ![r].tried = TRUE]
          /\ call' = [call EXCEPT ![t] = [NoCall EXCEPT !.pc = IF letGo THEN "ready" ELSE "minting", !.at = r]]
     ELSE /\ call' = [call EXCEPT ![t] = [NoCall EXCEPT !.pc = "ready", !.at = r]]
          /\ UNCHANGED caches
  /\ UNCHANGED <<keyRow, keySecret, gatewayKeys, limit, letGo, overFor>>

\* The hire mints with no look at the attempts of the process.
HireMints(t, r) ==
  /\ call[t].pc = "idle" /\ keyRow.id = 0 /\ ~letGo
  /\ call' = [call EXCEPT ![t] = [NoCall EXCEPT !.pc = "minting", !.at = r, !.hires = TRUE]]
  /\ UNCHANGED <<keyRow, keySecret, gatewayKeys, limit, letGo, caches,
                 overFor>>

\* ensure_key_for up to the gateway's answer: a live row by now is used, else the
\* gateway mints a key or refuses to.
MintAsked(t) ==
  /\ call[t].pc = "minting"
  /\ \/ keyRow.live /\ AfterMint(t) /\ UNCHANGED gatewayKeys
     \/ /\ ~keyRow.live /\ gatewayKeys.minted < MaxKeys
        /\ LET k == gatewayKeys.minted + 1
           IN /\ gatewayKeys' = [gatewayKeys EXCEPT !.minted = k, !.known = @ \cup {k}]
              /\ call' = [call EXCEPT ![t].pc = "sealing", ![t].row = k]
     \/ ~keyRow.live /\ Keyless(t) /\ UNCHANGED gatewayKeys
  /\ UNCHANGED <<keyRow, keySecret, limit, letGo, caches, overFor>>

Sealed(t) ==
  /\ call[t].pc = "sealing"
  /\ \/ keySecret' = call[t].row /\ Goto(t, "recording") /\ UNCHANGED gatewayKeys
     \/ /\ Keyless(t)
        /\ gatewayKeys' = [gatewayKeys EXCEPT !.known = @ \ {call[t].row}]
        /\ UNCHANGED keySecret
  /\ UNCHANGED <<keyRow, limit, letGo, caches, overFor>>

\* insert_coworker_key is an upsert on the pair; a mint over a retired row makes it live.
Upserted(k) == [id |-> k, live |-> TRUE]

Recorded(t) ==
  /\ call[t].pc = "recording"
  /\ \/ /\ keyRow' = Upserted(call[t].row)
        /\ overFor' = 0
        /\ AfterMint(t)
        /\ UNCHANGED <<keySecret, gatewayKeys>>
     \/ /\ keySecret' = 0
        /\ gatewayKeys' = [gatewayKeys EXCEPT !.known = @ \ {call[t].row}]
        /\ Keyless(t)
        /\ UNCHANGED <<keyRow, overFor>>
  /\ UNCHANGED <<limit, letGo, caches>>

\* key_for reads the row again after a late mint: no live row, no key.
MintedRead(t) ==
  /\ call[t].pc = "minted"
  /\ IF keyRow.live THEN Opened(t) ELSE Keyless(t)
  /\ UNCHANGED <<keyRow, keySecret, gatewayKeys, limit, letGo, caches,
                 overFor>>

(***************************************************************************)
(* One model call through GuardedDoor::stream.                             *)
(***************************************************************************)
\* limits_for: the cached limits while fresh, else the rows, cached from now.
LimitsFor(r) == IF caches[r].limits.age <= 1 THEN caches[r].limits.lim ELSE limit
WithLimits(c) == IF c.limits.age <= 1 THEN c ELSE [c EXCEPT !.limits = [lim |-> limit, age |-> 0]]

\* A key serves while the gateway knows it; each served call costs a point.
Serves(k) == k \in gatewayKeys.known
Spent(k) == [gatewayKeys EXCEPT !.points[k] = @ + 1]

\* Unlimited: the pair's key counts and does not enforce; a credential the gateway
\* refuses is looked into and the call made once more on the deployment's key.
FreeCall(t) ==
  /\ call[t].pc = "ready" /\ ~Limited(LimitsFor(call[t].at))
  /\ caches' = [caches EXCEPT ![call[t].at] = WithLimits(@)]
  /\ \/ /\ call[t].sent # 0 /\ Serves(call[t].sent) /\ gatewayKeys.points[call[t].sent] < MaxPoints
        /\ gatewayKeys' = Spent(call[t].sent)
        /\ call' = [call EXCEPT ![t].pc = "ready", ![t].row = 0]
     \/ /\ call[t].sent = 0 /\ CallEnded(t) /\ UNCHANGED gatewayKeys
     \/ /\ call[t].sent # 0 /\ ~Serves(call[t].sent)
        /\ call' = [call EXCEPT ![t].pc = "refused", ![t].row = call[t].sent]
        /\ UNCHANGED gatewayKeys
  /\ UNCHANGED <<keyRow, keySecret, limit, letGo, overFor>>

\* What the gateway says of the row's key now.
MeterNow == [key |-> keyRow.id, used |-> gatewayKeys.points[keyRow.id], age |-> 0]

\* A reading younger than a unit stands as it is, one younger than MeterStale when the
\* gateway cannot be asked.
ReadableFrom(r, within) == caches[r].meter.key = keyRow.id /\ caches[r].meter.age <= within

OverPointsPast(l, m) == l # NoLimit /\ m.used > l
OverPoints(l, m) == l # NoLimit /\ m.used >= l

LetThrough(t, m) ==
  IF OverPoints(LimitsFor(call[t].at), m)
  THEN CallEnded(t)
  ELSE call' = [call EXCEPT ![t].pc = "send", ![t].row = keyRow.id]

\* The guard: no live row, no reading and a key the gateway forgot hold the turn.
Guard(t) ==
  LET r == call[t].at
      fresh == keyRow.live /\ ReadableFrom(r, 1)
      reads == keyRow.live /\ ~ReadableFrom(r, 1)
  IN /\ call[t].pc = "ready" /\ Limited(LimitsFor(r))
     /\ \/ ~keyRow.live /\ CallEnded(t) /\ caches' = [caches EXCEPT ![r] = WithLimits(@)]
        \/ fresh /\ LetThrough(t, caches[r].meter) /\ caches' = [caches EXCEPT ![r] = WithLimits(@)]
        \/ /\ reads /\ Serves(keyRow.id)
           /\ caches' = [caches EXCEPT ![r] = [WithLimits(@) EXCEPT !.meter = MeterNow]]
           /\ LetThrough(t, MeterNow)
        \/ /\ reads /\ ~Serves(keyRow.id)
           /\ call' = [call EXCEPT ![t].pc = "retiring", ![t].row = keyRow.id]
           /\ caches' = [caches EXCEPT ![r] = WithLimits(@)]
        \/ /\ reads
           /\ IF ReadableFrom(r, MeterStale) THEN LetThrough(t, caches[r].meter)
                                             ELSE CallEnded(t)
           /\ caches' = [caches EXCEPT ![r] = WithLimits(@)]
     /\ UNCHANGED <<keyRow, keySecret, gatewayKeys, limit, letGo, overFor>>

\* The guarded call goes out with the key the turn was built with, whatever row was counted.
GuardedCall(t) ==
  /\ call[t].pc = "send"
  /\ \/ /\ call[t].sent # 0 /\ Serves(call[t].sent) /\ gatewayKeys.points[call[t].sent] < MaxPoints
        /\ gatewayKeys' = Spent(call[t].sent)
        /\ call' = [call EXCEPT ![t].pc = "ready", ![t].row = 0]
     \/ /\ call[t].sent = 0 /\ CallEnded(t) /\ UNCHANGED gatewayKeys
     \/ /\ call[t].sent # 0 /\ ~Serves(call[t].sent) /\ Goto(t, "refused")
        /\ UNCHANGED gatewayKeys
  /\ UNCHANGED <<keyRow, keySecret, limit, letGo, caches, overFor>>

\* key_refused: the gateway is asked whether it still knows the key.  It does not: the key is
\* retired.  It does, or cannot be asked: the refusal is noted for the console, no more.

KeyRefused(t) ==
  /\ call[t].pc = "refused"
  /\ (~Serves(call[t].row) /\ Goto(t, "retiring")) \/ CallEnded(t)
  /\ UNCHANGED <<keyRow, keySecret, gatewayKeys, limit, letGo, caches, overFor>>

\* mark_coworker_key_revoked retires the row only while it is live and still names the
\* key that was found dead.
NamesAnything(k) == keyRow.live
StillNames(k) == keyRow.id = k /\ keyRow.live

Retired(t) ==
  /\ call[t].pc = "retiring"
  /\ IF StillNames(call[t].row)
     THEN keyRow' = [keyRow EXCEPT !.live = FALSE] /\ Goto(t, "dropping")
     ELSE UNCHANGED keyRow /\ CallEnded(t)
  /\ UNCHANGED <<keySecret, gatewayKeys, limit, letGo, caches, overFor>>

\* The secret goes by the pair's id, and the next turn of this process may mint at once.
SecretDropped(t) ==
  /\ call[t].pc = "dropping"
  /\ keySecret' = 0
  /\ caches' = [caches EXCEPT ![call[t].at].tried = FALSE]
  /\ CallEnded(t)
  /\ UNCHANGED <<keyRow, gatewayKeys, limit, letGo, overFor>>

(***************************************************************************)
(* The people and the gateway.                                             *)
(***************************************************************************)
\* set_limit: a cap needs a live key of the pair's own to count on.
SetLimit(c) ==
  /\ c # limit /\ (c # NoLimit => keyRow.live)
  /\ limit' = c
  /\ overFor' = 0
  /\ UNCHANGED <<keyRow, keySecret, gatewayKeys, letGo, caches, call>>

\* revoke_for: every live row of the retired coworker is marked, its key revoked at the
\* gateway and its secret dropped.
RevokeFor ==
  /\ ~letGo /\ letGo' = TRUE
  /\ IF keyRow.live
     THEN /\ keyRow' = [keyRow EXCEPT !.live = FALSE]
          /\ gatewayKeys' = [gatewayKeys EXCEPT !.known = @ \ {keyRow.id}]
          /\ keySecret' = 0
     ELSE UNCHANGED <<keyRow, gatewayKeys, keySecret>>
  /\ UNCHANGED <<limit, caches, call, overFor>>

\* External: the gateway loses its keys.
Wiped ==
  /\ gatewayKeys.known # {} /\ gatewayKeys' = [gatewayKeys EXCEPT !.known = {}]
  /\ UNCHANGED <<keyRow, keySecret, limit, letGo, caches, call, overFor>>

\* Cached limits and a reading, a unit later.
LimitsAged(l) == IF l.age >= 1 THEN NoLimits ELSE [l EXCEPT !.age = 1]
MeterAged(m) == IF m.age >= MeterStale THEN NoMeter ELSE [m EXCEPT !.age = m.age + 1]

InACall(t) == call[t].pc \in {"send", "refused", "retiring", "dropping"}

SpendTick ==
  /\ ~\E t \in SpendTurns : InACall(t)
  /\ caches' = [r \in SpendReplicas |->
                  [caches[r] EXCEPT !.limits = LimitsAged(@), !.meter = MeterAged(@)]]
  /\ overFor' = IF keyRow.live /\ limit # NoLimit /\ gatewayKeys.points[keyRow.id] >= limit THEN IF overFor > MeterStale THEN overFor ELSE overFor + 1
                 ELSE 0
  /\ UNCHANGED <<keyRow, keySecret, gatewayKeys, limit, letGo, call>>

SpendInit ==
  /\ keyRow = NoKeyRow /\ keySecret = 0
  /\ gatewayKeys = [minted |-> 0, known |-> {}, points |-> [k \in 1..MaxKeys |-> 0]]
  /\ limit = NoLimit
  /\ letGo = FALSE
  /\ caches = [r \in SpendReplicas |-> [tried |-> FALSE, limits |-> NoLimits, meter |-> NoMeter]]
  /\ call = [t \in SpendTurns |-> NoCall]
  /\ overFor = 0

SpendNext ==
  \/ \E t \in SpendTurns :
       \/ \E r \in SpendReplicas : KeyFor(t, r) \/ HireMints(t, r)
       \/ MintAsked(t) \/ Sealed(t) \/ Recorded(t) \/ MintedRead(t)
       \/ FreeCall(t) \/ Guard(t) \/ GuardedCall(t)
       \/ KeyRefused(t) \/ Retired(t) \/ SecretDropped(t)
  \/ \E c \in {NoLimit} \cup Caps : SetLimit(c)
  \/ RevokeFor \/ Wiped \/ SpendTick

SpendSpec == SpendInit /\ [][SpendNext]_spendVars

(***************************************************************************)
(* Properties.                                                             *)
(***************************************************************************)
\* A call under a limit is let through only on a reading of its key and pool that is no
\* older than the minute a stale reading stands in for, against limits read no earlier than
\* fifteen seconds ago (GuardedDoor's two caches together): whatever is re-minted, cached
\* or wiped between, a cap that was used up a minute ago stops the turn.
CapStops == \A t \in SpendTurns : call[t].pc = "send" => overFor <= MeterStale

\* A turn that found its key dead never retires the key another turn minted over it: a live
\* row that names a key the gateway knows stays live until the coworker is retired
\* (mark_coworker_key_revoked).
FreshKeyStands ==
  keyRow.live /\ ~keyRow'.live /\ ~letGo' => keyRow.id \notin gatewayKeys.known

\* What holds of spending: no step lets a call past a cap that was used up, or drops a key
\* minted anew.
SpendHolds == [][CapStops' /\ FreshKeyStands]_spendVars

\* What spend.rs says of itself: a coworker with limits has its turn held when its key
\* cannot be produced, and is never run on the deployment's key.
NeverUnmetered == \A t \in SpendTurns : call[t].pc = "send" => call[t].sent # 0
=============================================================================
