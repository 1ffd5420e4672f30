------------------------------- MODULE Logins -------------------------------
(***************************************************************************)
(* Saved site logins and the vault that seals them: one site and username  *)
(* of one person, saved, saved again, deleted, shared with Bots and loaded *)
(* into a Bot's browser, beside a rotation of the vault's key (a restart   *)
(* with the new key, `opengrok vault reseal`, a restart without the old).  *)
(***************************************************************************)
EXTENDS Naturals, FiniteSets

CONSTANTS LoginIds,     \* ids a row may be given: 1, 2, ..
          Bots,         \* Bots of the person
          KeyIds,       \* vault keys: 1, 2, .., each newer than the last
          MaxSave       \* bound: saves

ASSUME LoginsAssumption ==
    LoginIds \subseteq Nat \ {0} /\ KeyIds \subseteq Nat \ {0} /\ KeyIds # {}

VARIABLES
    login,      \* site_login: the row's id, or 0
    used,       \* ids given out
    secret,     \* secret_store by login: what was sealed, its key, its nonce
    newest,     \* history: what was last saved under each login
    saves,      \* saves so far; also the source of nonces
    nonces,     \* seals so far
    share,      \* site_login_share: <<login, Bot>>
    allBots,    \* login_sharing: the switch
    server,     \* the server's vault: its current key and the retired ones
    reseal,     \* vault reseal: how far it is, its keys, what it read
    fill        \* a Bot's use of the login: where it stands, what it opened

loginVars == <<login, used, secret, newest, saves, nonces, share, allBots,
               server, reseal, fill>>

NoLogin == 0
NoSecret == [ver |-> 0, key |-> 0, nonce |-> 0]
NoFill == [pc |-> "none"]
NoReseal == [pc |-> "none"]
FirstKey == CHOOSE k \in KeyIds : \A j \in KeyIds : k <= j

LoginInit ==
    /\ login = NoLogin /\ used = {} /\ saves = 0 /\ nonces = 0
    /\ secret = [i \in LoginIds |-> NoSecret]
    /\ newest = [i \in LoginIds |-> 0]
    /\ share = {} /\ allBots = FALSE
    /\ server = [current |-> FirstKey, retired |-> {}]
    /\ reseal = NoReseal
    /\ fill = [b \in Bots |-> NoFill]

\* Vault::seal: always with the current key, under a fresh nonce.
Seal(vault, ver) == [ver |-> ver, key |-> vault.current, nonce |-> nonces + 1]

\* Vault::holds, Vault::open.
Opens(vault, sealed) == sealed.key \in {vault.current} \cup vault.retired

-----------------------------------------------------------------------------
(* The person. *)

\* upsert_site_login, also of seal_new_passkey: the row kept or made, and the
\* secret sealed under its id, in one transaction.
LoginSaved ==
    /\ saves < MaxSave
    /\ \E i \in LoginIds :
          /\ IF login = NoLogin THEN i \notin used ELSE i = login
          /\ login' = i
          /\ used' = used \cup {i}
          /\ secret' = [secret EXCEPT ![i] = Seal(server, saves + 1)]
          /\ newest' = [newest EXCEPT ![i] = saves + 1]
    /\ saves' = saves + 1
    /\ nonces' = nonces + 1
    /\ UNCHANGED <<share, allBots, server, reseal, fill>>

\* delete_site_login: the row, its shares (by the foreign key), its secrets.
LoginDeleted ==
    /\ login # NoLogin
    /\ login' = NoLogin
    /\ secret' = [secret EXCEPT ![login] = NoSecret]
    /\ newest' = [newest EXCEPT ![login] = 0]
    /\ share' = {s \in share : s[1] # login}
    /\ UNCHANGED <<used, saves, nonces, allBots, server, reseal, fill>>

\* set_site_login_shared
LoginShared(b) ==
    /\ login # NoLogin
    /\ \/ share' = share \cup {<<login, b>>}
       \/ share' = share \ {<<login, b>>}
    /\ UNCHANGED <<login, used, secret, newest, saves, nonces, allBots, server,
                   reseal, fill>>

\* set_sharing
SharingSet ==
    /\ allBots' = ~allBots
    /\ UNCHANGED <<login, used, secret, newest, saves, nonces, share, server,
                   reseal, fill>>

-----------------------------------------------------------------------------
(* A Bot's use. *)

\* logins_shared_with
SharedWith(b) ==
    {s[1] : s \in {t \in share : t[2] = b}}
    \cup (IF allBots /\ login # NoLogin THEN {login} ELSE {})

\* submit_user_form with a saved login: only one shared with the Bot.
FillBegun(b) ==
    /\ fill[b] = NoFill
    /\ \E i \in SharedWith(b) : fill' = [fill EXCEPT ![b] = [pc |-> "open", id |-> i]]
    /\ UNCHANGED <<login, used, secret, newest, saves, nonces, share, allBots,
                   server, reseal>>

\* open_site_login in use_passkey: the row is the person's still, and its
\* secret opens; or the card fails and nothing is loaded.
FillOpened(b) ==
    /\ fill[b].pc = "open"
    /\ LET i == fill[b].id
           found == login = i /\ secret[i] # NoSecret /\ Opens(server, secret[i])
       IN fill' = [fill EXCEPT ![b] =
             IF found THEN [pc |-> "loaded", id |-> i, ver |-> secret[i].ver,
                            key |-> secret[i].key]
             ELSE NoFill]
    /\ UNCHANGED <<login, used, secret, newest, saves, nonces, share, allBots,
                   server, reseal>>

\* The task that waits for the assertion: signed, or two minutes; either way
\* the credential and the authenticator are taken out of the browser.
FillEnded(b) ==
    /\ fill[b].pc = "loaded"
    /\ fill' = [fill EXCEPT ![b] = NoFill]
    /\ UNCHANGED <<login, used, secret, newest, saves, nonces, share, allBots,
                   server, reseal>>

-----------------------------------------------------------------------------
(* The rotation. *)

\* A restart with the next key, the current one retired.
KeyRotated ==
    /\ server.current + 1 \in KeyIds /\ server.retired = {}
    /\ server' = [current |-> server.current + 1, retired |-> {server.current}]
    /\ fill' = [b \in Bots |-> NoFill]
    /\ UNCHANGED <<login, used, secret, newest, saves, nonces, share, allBots, reseal>>

\* reseal_secrets: begun, in the server's environment.
ResealBegun ==
    /\ reseal.pc = "none" /\ server.retired # {}
    /\ reseal' = [pc |-> "scan", todo |-> LoginIds, bad |-> 0]
    /\ UNCHANGED <<login, used, secret, newest, saves, nonces, share, allBots,
                   server, fill>>

\* The next row in id order: skipped when missing or current already, counted
\* when it does not open, else held opened.
ResealRead ==
    /\ reseal.pc = "scan" /\ reseal.todo # {}
    /\ LET i == CHOOSE j \in reseal.todo : \A k \in reseal.todo : j <= k
           s == secret[i]
           rest == [reseal EXCEPT !.todo = @ \ {i}]
       IN reseal' = IF s = NoSecret \/ s.key = server.current THEN rest
                    ELSE IF ~Opens(server, s) THEN [rest EXCEPT !.bad = @ + 1]
                    ELSE [pc |-> "write", todo |-> rest.todo, bad |-> reseal.bad,
                          id |-> i, sealed |-> s]
    /\ UNCHANGED <<login, used, secret, newest, saves, nonces, share, allBots,
                   server, fill>>

\* A write that only asks for the row.
StillThere(i, s) == secret[i] # NoSecret

\* .. where id = $1 and nonce = $5: the row is still the one that was read.
StillAsRead(i, s) == secret[i].nonce = s.nonce

ResealWritten ==
    /\ reseal.pc = "write"
    /\ secret' = IF StillAsRead(reseal.id, reseal.sealed)
                 THEN [secret EXCEPT ![reseal.id] = Seal(server, reseal.sealed.ver)]
                 ELSE secret
    /\ nonces' = nonces + 1
    /\ reseal' = [pc |-> "scan", todo |-> reseal.todo, bad |-> reseal.bad]
    /\ UNCHANGED <<login, used, newest, saves, share, allBots, server, fill>>

\* The command dies; run again, it starts over and skips what is done.
ResealCrashed ==
    /\ reseal.pc \in {"scan", "write"}
    /\ reseal' = NoReseal
    /\ UNCHANGED <<login, used, secret, newest, saves, nonces, share, allBots,
                   server, fill>>

\* The report, and on "unopenable: 0" a restart without the retired keys.
KeyDropped ==
    /\ reseal.pc = "scan" /\ reseal.todo = {}
    /\ reseal' = NoReseal
    /\ server' = IF reseal.bad = 0 THEN [server EXCEPT !.retired = {}] ELSE server
    /\ fill' = IF reseal.bad = 0 THEN [b \in Bots |-> NoFill] ELSE fill
    /\ UNCHANGED <<login, used, secret, newest, saves, nonces, share, allBots>>

LoginNext ==
    \/ LoginSaved \/ LoginDeleted \/ SharingSet
    \/ \E b \in Bots : LoginShared(b) \/ FillBegun(b) \/ FillOpened(b) \/ FillEnded(b)
    \/ KeyRotated \/ ResealBegun \/ ResealRead \/ ResealWritten \/ ResealCrashed
    \/ KeyDropped

LoginSpec == LoginInit /\ [][LoginNext]_loginVars

-----------------------------------------------------------------------------
\* "A token the server refreshed meanwhile is never put back to its old value"
\* (store/vault_rows.rs), and nothing is lost by the rotation: beside saves,
\* deletes, a reseal that dies half way and both restarts, every stored secret
\* is the one last saved under its row, a deleted row's stays deleted, and the
\* server holds the key of every one.
SecretsKept ==
    \A i \in LoginIds :
        /\ secret[i].ver = newest[i]
        /\ secret[i] # NoSecret => login = i /\ Opens(server, secret[i])
=============================================================================
