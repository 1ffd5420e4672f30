----------------------------- MODULE McpClients ------------------------------
(***************************************************************************)
(* The OAuth server an MCP client signs in through: the client table, the  *)
(* one-shot codes a consent issues, the bot keys and the refresh tokens    *)
(* that rotate them.  Pair n is the key and the refresh token minted       *)
(* together; a chain is named after its first pair.  Every store call is a *)
(* step, and a request may be lost at any of them.                         *)
(***************************************************************************)
EXTENDS Naturals, FiniteSets, FiniteSetsExt, Sequences, SequencesExt

CONSTANTS TokenReqs,    \* requests to /token and /register under way
          AuthCodes,    \* authorization codes that may be issued
          MaxPair,      \* bound: pairs minted
          DcrCeiling    \* DCR_CEILING, scaled down

ASSUME McpClientsAssumption == {MaxPair, DcrCeiling} \subseteq Nat

VARIABLES
    clients,    \* rows of oauth_client
    code,       \* oauth_code: "none", "live", "aged" or "taken"
    key,        \* bot_key_view: "none", "live" or "revoked"
    tok,        \* oauth_refresh_token: its state, chain and age
    grant,      \* the requests under way
    from        \* history: what each pair was issued for

mcpcVars == <<clients, code, key, tok, grant, from>>

PairIds == 1 .. MaxPair
NoChain == 0
GrantIdle == [pc |-> "idle"]
NoTokenRow == [st |-> "none", fam |-> NoChain, aged |-> FALSE]

McpcInit ==
    /\ clients = 0
    /\ code = [c \in AuthCodes |-> "none"]
    /\ key = [n \in PairIds |-> "none"]
    /\ tok = [n \in PairIds |-> NoTokenRow]
    /\ grant = [q \in TokenReqs |-> GrantIdle]
    /\ from = [n \in PairIds |-> <<>>]

GrantAt(q, pc) == grant[q].pc = pc
GrantTo(q, pc) == grant' = [grant EXCEPT ![q] = [@ EXCEPT !.pc = pc]]
GrantEnds(q) == grant' = [grant EXCEPT ![q] = GrantIdle]
Minted == {n \in PairIds : from[n] # <<>>}

-----------------------------------------------------------------------------
(* Registration and consent. *)

\* register: the ceiling is read, and the row written, in two statements.
RegisterCounted(q) ==
    /\ GrantAt(q, "idle")
    /\ clients < DcrCeiling
    /\ grant' = [grant EXCEPT ![q] = [pc |-> "register"]]
    /\ UNCHANGED <<clients, code, key, tok, from>>

RegisterInserted(q) ==
    /\ GrantAt(q, "register")
    /\ clients' = clients + 1
    /\ GrantEnds(q)
    /\ UNCHANGED <<code, key, tok, from>>

\* authorize_submit: a person consents for a coworker that is theirs; aged
\* codes are cleared out as the new one goes in.
Consented(c) ==
    /\ code[c] = "none"
    /\ code' = [d \in AuthCodes |-> IF d = c THEN "live"
                                 ELSE IF code[d] = "aged" THEN "taken" ELSE code[d]]
    /\ UNCHANGED <<clients, key, tok, grant, from>>

CodeAged(c) ==
    /\ code[c] = "live"
    /\ code' = [code EXCEPT ![c] = "aged"]
    /\ UNCHANGED <<clients, key, tok, grant, from>>

-----------------------------------------------------------------------------
(* The two grants. *)

\* token: the code's row is taken before anything about it is checked, so a
\* request that fails a check (client, redirect, resource, PKCE) spends it.
CodeTaken(q, c) ==
    /\ GrantAt(q, "idle")
    /\ code[c] \in {"live", "aged"}
    /\ code' = [code EXCEPT ![c] = "taken"]
    /\ \E fits \in BOOLEAN :
          grant' = [grant EXCEPT ![q] =
                      IF fits /\ code[c] = "live"
                      THEN [pc |-> "mint", for |-> <<"code", c>>, fam |-> NoChain]
                      ELSE GrantIdle]
    /\ UNCHANGED <<clients, key, tok, from>>

\* A claim that reads the row and spends it only later.
ClaimsLive(t) == tok[t].st \in {"live", "spent"}

\* claim_refresh_token: one statement spends a live token.
Claims(t) == tok[t].st = "live"

\* refresh: the claim, then the client and the expiry of what it returned.
RefreshClaimed(q, t) ==
    /\ GrantAt(q, "idle")
    /\ tok[t].st \in {"live", "spent"}
    /\ tok' = [tok EXCEPT ![t].st = "spent"]
    /\ \E ours \in BOOLEAN :
          grant' = [grant EXCEPT ![q] =
             LET at(pc) == [pc |-> pc, for |-> <<"tok", t>>, fam |-> tok[t].fam] IN
                IF ~Claims(t) \/ ~ours THEN at("kill")
                ELSE IF tok[t].aged THEN GrantIdle
                ELSE at("check")]
    /\ UNCHANGED <<clients, code, key, from>>

\* revoke_refresh_family: the chain's rows go and their keys are revoked.
ChainRevoked(q) ==
    /\ GrantAt(q, "kill")
    /\ LET fam == {n \in PairIds : tok[n].fam = grant[q].fam /\ tok[n].st # "none"} IN
          /\ tok' = [n \in PairIds |-> IF n \in fam THEN NoTokenRow ELSE tok[n]]
          /\ key' = [n \in PairIds |-> IF n \in fam THEN "revoked" ELSE key[n]]
    /\ GrantEnds(q)
    /\ UNCHANGED <<clients, code, from>>

\* bot_key_live, then the resource the client named.
KeyChecked(q) ==
    /\ GrantAt(q, "check")
    /\ GrantTo(q, IF key[grant[q].for[2]] = "live" THEN "retire" ELSE "kill")
    /\ UNCHANGED <<clients, code, key, tok, from>>

\* A rotation that leaves the old key alive.
KeyRetiredLater(q) ==
    /\ GrantAt(q, "retire")
    /\ GrantTo(q, "mint")
    /\ UNCHANGED <<clients, code, key, tok, from>>

\* revoke_bot_key_by_jti: the old key dies before the new one exists.
KeyRetired(q) ==
    /\ GrantAt(q, "retire")
    /\ key' = [key EXCEPT ![grant[q].for[2]] = "revoked"]
    /\ GrantTo(q, "mint")
    /\ UNCHANGED <<clients, code, tok, from>>

\* issue_pair: the key's row, then the refresh token's.
KeyMinted(q) ==
    /\ GrantAt(q, "mint")
    /\ \E n \in PairIds :
          /\ Minted = 1 .. n - 1
          /\ key' = [key EXCEPT ![n] = "live"]
          /\ from' = [from EXCEPT ![n] = grant[q].for]
          /\ grant' = [grant EXCEPT ![q] =
                [pc |-> "record", for |-> @.for, new |-> n,
                 fam |-> IF @.fam = NoChain THEN n ELSE @.fam]]
    /\ UNCHANGED <<clients, code, tok>>

\* insert_refresh_token; where it fails the key is revoked again.
TokenRecorded(q) ==
    /\ GrantAt(q, "record")
    /\ \/ /\ tok' = [tok EXCEPT ![grant[q].new] =
                        [st |-> "live", fam |-> grant[q].fam, aged |-> FALSE]]
          /\ UNCHANGED key
       \/ /\ key' = [key EXCEPT ![grant[q].new] = "revoked"]
          /\ UNCHANGED tok
    /\ GrantEnds(q)
    /\ UNCHANGED <<clients, code, from>>

-----------------------------------------------------------------------------
(* The owner, time and failure. *)

\* revoke_bot_key_with_refresh: the key and its refresh tokens together.
OwnerRevoked(n) ==
    /\ key[n] # "none"
    /\ key' = [key EXCEPT ![n] = "revoked"]
    /\ tok' = [tok EXCEPT ![n] = NoTokenRow]
    /\ UNCHANGED <<clients, code, grant, from>>

TokenAged(n) ==
    /\ tok[n].st = "live" /\ ~tok[n].aged
    /\ tok' = [tok EXCEPT ![n].aged = TRUE]
    /\ UNCHANGED <<clients, code, key, grant, from>>

\* A store call fails, or the process goes: the request ends where it is.
GrantLost(q) ==
    /\ ~GrantAt(q, "idle")
    /\ GrantEnds(q)
    /\ UNCHANGED <<clients, code, key, tok, from>>

McpcNext ==
    \/ \E q \in TokenReqs :
          \/ RegisterCounted(q) \/ RegisterInserted(q)
          \/ \E c \in AuthCodes : CodeTaken(q, c)
          \/ \E t \in PairIds : RefreshClaimed(q, t)
          \/ ChainRevoked(q) \/ KeyChecked(q) \/ KeyRetired(q)
          \/ KeyMinted(q) \/ TokenRecorded(q) \/ GrantLost(q)
    \/ \E c \in AuthCodes : Consented(c) \/ CodeAged(c)
    \/ \E n \in PairIds : OwnerRevoked(n) \/ TokenAged(n)

McpcSpec == McpcInit /\ [][McpcNext]_mcpcVars

-----------------------------------------------------------------------------
(* Where a pair's chain began: follow what it was issued for. *)
ChainOf[n \in PairIds] ==
    IF from[n] # <<>> /\ from[n][1] = "tok" THEN ChainOf[from[n][2]] ELSE n

\* A chain is a line with one live end: no code and no refresh token ever
\* yields two pairs, and however refreshes, replays, revocations and lost
\* requests interleave a chain never holds two live keys ("never holding two
\* live keys", oauth_mcp.rs refresh); the ceiling on clients is overrun by
\* at most the registrations that were already counted.
ChainsStayLines ==
    /\ \A n, k \in Minted : n # k => from[n] # from[k]
    /\ \A n, k \in Minted :
          n # k /\ key[n] = "live" /\ key[k] = "live" => ChainOf[n] # ChainOf[k]
    /\ clients < DcrCeiling + Cardinality(TokenReqs)

\* Once its owner revoked a key, or a replay ended its chain, a refresh of
\* that chain mints no successor (oauth_mcp.rs: "then the chain is over, and
\* the refresh must not mint it a successor").
EndedChainMintsNothing ==
    [][\A n \in PairIds :
          /\ key[n] = "none" /\ key'[n] = "live"
          /\ from'[n][1] = "tok"
          => tok[from'[n][2]].st # "none"]_mcpcVars

------------------------------------------------------------------------------
(***************************************************************************)
(* The in-process tables that hold a stranger back: Budgets (how often a   *)
(* peer may do a thing in a window) and the cache of client id documents.  *)
(* One peer; one budget it takes from (and may be refunded), and one it is *)
(* checked against before the attempt and charged for after a failure.     *)
(***************************************************************************)
CONSTANTS PerWindow,    \* Budget::per_window
          Window,       \* Budget::window_ms
          Tries,        \* sign-in attempts under way at once
          DocUrls,      \* client ids that are document URLs
          DocTTL,       \* CIMD_CACHE_MS
          DocMax,       \* CIMD_CACHE_MAX
          MaxBudNow     \* bound: the clock

ASSUME BudgetsAssumption ==
    {PerWindow, Window, DocTTL, DocMax, MaxBudNow} \subseteq Nat

VARIABLES
    bclock,     \* now_ms
    takes,      \* hits of the budget that is taken from
    hits,       \* hits of the budget that is checked first
    trying,     \* attempts that passed the check and are under way
    docs,       \* the document cache: url -> when fetched, or Never
    granted,    \* history: when each grant that stands was given
    failed      \* history: when each sign-in failed

budVars == <<bclock, takes, hits, trying, docs, granted, failed>>

Never == MaxBudNow + 1

BudInit ==
    /\ bclock = 0
    /\ takes = <<>>
    /\ hits = <<>>
    /\ trying = [t \in Tries |-> FALSE]
    /\ docs = [u \in DocUrls |-> Never]
    /\ granted = <<>>
    /\ failed = <<>>

-----------------------------------------------------------------------------
\* The hits of a list inside the window: retain.
InWindow(list) == SelectSeq(list, LAMBDA at : bclock < at + Window)

\* A count that lets one more through.
SpentAfter(list) == Len(InWindow(list)) > PerWindow

\* spent: a full window refuses.
SpentAlready(list) == Len(InWindow(list)) >= PerWindow

\* take_at
Took ==
    /\ takes' = IF SpentAlready(takes) THEN InWindow(takes)
                ELSE Append(InWindow(takes), bclock)
    /\ granted' = IF SpentAlready(takes) THEN granted ELSE Append(granted, bclock)
    /\ UNCHANGED <<bclock, hits, trying, docs, failed>>

\* Which hit a refund takes back: the newest.
NewestOf(list) == CHOOSE i \in DOMAIN list : \A j \in DOMAIN list : list[j] <= list[i]

\* refund: a turn that was turned away after it was charged.
Refunded ==
    /\ granted # <<>> /\ granted[Len(granted)] = bclock
    /\ takes' = IF takes = <<>> THEN takes ELSE RemoveAt(takes, NewestOf(takes))
    /\ granted' = Front(granted)
    /\ UNCHANGED <<bclock, hits, trying, docs, failed>>

\* check_at, and the password read that follows it.
Checked(t) ==
    /\ ~trying[t]
    /\ ~SpentAlready(hits)
    /\ trying' = [trying EXCEPT ![t] = TRUE]
    /\ UNCHANGED <<bclock, takes, hits, docs, granted, failed>>

\* hit_at, when the sign-in failed; one that succeeds charges nothing.
Hit(t, ok) ==
    /\ trying[t]
    /\ trying' = [trying EXCEPT ![t] = FALSE]
    /\ hits' = IF ok THEN hits ELSE Append(InWindow(hits), bclock)
    /\ failed' = IF ok THEN failed ELSE Append(failed, bclock)
    /\ UNCHANGED <<bclock, takes, docs, granted>>

-----------------------------------------------------------------------------
Cached == {u \in DocUrls : docs[u] # Never}
FreshDoc(u, at) == docs[u] # Never /\ at < docs[u] + DocTTL

\* fetch_cimd and resolve_client: a fresh entry answers; otherwise the
\* document is fetched, and room made for it (the stale go, then the oldest).
\* The time of the entry is the time the request began.  A fetch that is
\* refused or fails is not cached.
DocFetched(u, at) ==
    /\ at <= bclock /\ ~FreshDoc(u, at)
    /\ LET kept == IF Cardinality(Cached) < DocMax THEN Cached
                   ELSE {v \in Cached : FreshDoc(v, at)}
           room == IF Cardinality(kept) < DocMax THEN kept
                   ELSE kept \ {CHOOSE v \in kept : \A w \in kept : docs[v] <= docs[w]}
       IN docs' = [v \in DocUrls |->
                      IF v = u THEN at ELSE IF v \in room THEN docs[v] ELSE Never]
    /\ UNCHANGED <<bclock, takes, hits, trying, granted, failed>>

BudTick ==
    /\ bclock < MaxBudNow
    /\ bclock' = bclock + 1
    /\ UNCHANGED <<takes, hits, trying, docs, granted, failed>>

BudNext ==
    \/ Took \/ Refunded \/ BudTick
    \/ \E t \in Tries : Checked(t) \/ \E ok \in BOOLEAN : Hit(t, ok)
    \/ \E u \in DocUrls, at \in 0 .. MaxBudNow : DocFetched(u, at)

BudSpec == BudInit /\ [][BudNext]_budVars

-----------------------------------------------------------------------------
Within(list, at) == Cardinality({i \in DOMAIN list : list[i] <= at /\ at < list[i] + Window})

\* No window, wherever it is placed, holds more grants than the budget, with
\* refunds and the pruning of old hits; the budget that is checked first and
\* charged later overruns by no more than the attempts that were under way;
\* and the document cache never outgrows its bound.
WindowsHold ==
    \A at \in 0 .. MaxBudNow :
        /\ Within(granted, at) <= PerWindow
        /\ Within(failed, at) < PerWindow + Cardinality(Tries)
        /\ Cardinality(Cached) <= DocMax
==============================================================================
