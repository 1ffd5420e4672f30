------------------------------- MODULE Purge -------------------------------
(***************************************************************************)
(* The operator's purge (opengrok/src/purge.rs): every account but the     *)
(* ones named is deleted with everything it owns, in one transaction, on a *)
(* schema without cascades, so what goes is what the id lists and the      *)
(* deletes say.  The server is stopped while it runs, as purge.rs:10-12    *)
(* asks; two operators may purge at the same time.                         *)
(*                                                                         *)
(* A row is the table it stands in, an id of its own (the rows other rows  *)
(* name) and the set of ids its columns name.                              *)
(***************************************************************************)
EXTENDS Naturals, FiniteSets

CONSTANTS
    PurgeAccounts,   \* accounts that may sign up
    PurgeOrgs,       \* organisations
    PurgeBots,       \* coworkers
    Things,          \* ids of the schedules, recipes, connections ... made
    Operators,       \* who runs `opengrok admin purge`
    MaxDbRows        \* bound: rows beside accounts, organisations, coworkers

\* Ids of different kinds are different, and no row's id is none.
ASSUME PurgeAssumption ==
    /\ MaxDbRows \in Nat
    /\ PurgeAccounts \cap (PurgeOrgs \cup PurgeBots \cup Things) = {}
    /\ PurgeOrgs \cap (PurgeBots \cup Things) = {}
    /\ PurgeBots \cap Things = {}
    /\ "none" \notin PurgeAccounts \cup PurgeOrgs \cup PurgeBots \cup Things

VARIABLES
    db,      \* the rows
    purges   \* per operator: where its purge is, its allowlist, its id lists

purgeVars == <<db, purges>>

NoId == "none"
Row(table, id, names) == [table |-> table, id |-> id, names |-> names]
In(table) == {r \in db : r.table = table}
Ids(rows) == {r.id : r \in rows}

\* The lists of doomed ids the deletes are given.
Lists == {"accounts", "orgs", "coworkers", "schedules", "monitors", "connections",
          "templates", "recipes", "skills", "runs"}
\* The lists that are the ids of rows, and the lists whose naming dooms such a row.
Owned == [coworkers   |-> [table |-> "coworker_view",     by |-> {"accounts"}],
          schedules   |-> [table |-> "schedule_view",     by |-> {"accounts", "coworkers"}],
          monitors    |-> [table |-> "monitor_view",      by |-> {"accounts", "coworkers"}],
          connections |-> [table |-> "connection_view",
                                        by |-> {"accounts", "coworkers", "orgs"}],
          templates   |-> [table |-> "coworker_template", by |-> {"orgs"}],
          recipes     |-> [table |-> "recipe",            by |-> {"accounts", "orgs"}],
          skills      |-> [table |-> "skill",             by |-> {"accounts", "orgs"}],
          runs        |-> [table |-> "run_view",
                                        by |-> {"accounts", "coworkers", "schedules"}]]

-----------------------------------------------------------------------------
(* The deletes: for every table, the lists one of whose ids in a row's     *)
(* columns removes the row.                                                *)

\* The journal, the feed, the monitors, artifacts, recipes, skills and plugins.
FirstDeletes ==
    [events              |-> {"accounts", "coworkers", "schedules", "orgs", "monitors",
                              "runs", "connections"},
     account_event       |-> {"accounts"},
     monitor_firing      |-> {"monitors", "runs"},
     room_pause          |-> {"runs", "coworkers"},
     artifact            |-> {"accounts", "runs"},
     recipe_run          |-> {"recipes", "coworkers", "runs"},
     recipe_grant        |-> {"recipes", "coworkers"},
     recipe_share        |-> {"recipes", "accounts", "orgs"},
     recipe_version      |-> {"recipes"},
     skill_version       |-> {"skills"},
     plugin_installation |-> {"accounts"}]

\* Held messages, messages between coworkers, keys, logins, ceilings and grants.
MiddleDeletes ==
    [pending_user_message  |-> {"accounts", "coworkers", "schedules"},
     bot_message           |-> {"accounts"},
     timeline_view         |-> {"coworkers"},
     gateway_entry         |-> {"coworkers", "accounts"},
     gateway_nonce         |-> {"accounts"},
     mcp_call_audit        |-> {"coworkers", "accounts"},
     bot_key_view          |-> {"coworkers", "accounts"},
     coworker_gateway_key  |-> {"coworkers", "accounts"},
     site_login_share      |-> {"accounts", "coworkers"},
     site_login            |-> {"accounts"},
     coworker_template_use |-> {"coworkers", "templates"},
     ceiling_view          |-> {"coworkers"},
     grant_view            |-> {"coworkers", "accounts"}]

\* Connections, OAuth, the local daemon, sessions and computers.
LaterDeletes ==
    [connection_loan     |-> {"coworkers", "connections"},
     bot_connection_pin  |-> {"coworkers", "connections"},
     mcp_oauth_grant     |-> {"connections"},
     connection_attempt  |-> {"accounts", "coworkers"},
     oauth_refresh_token |-> {"accounts", "coworkers"},
     local_exec_policy   |-> {"accounts"},
     auto_review_policy  |-> {"accounts", "coworkers"},
     session_view        |-> {"accounts"},
     account_computer    |-> {"accounts"}]

\* What hangs on a scope, the vault, and what is an organisation's own.
LastDeletes ==
    [scoped_computer  |-> {"accounts", "coworkers", "orgs"},
     points_limit     |-> {"accounts", "coworkers", "orgs"},
     secret_store     |-> {"accounts", "coworkers", "orgs"},
     gateway_key_view |-> {"orgs", "accounts"},
     org_invite       |-> {"orgs"}]

ListsOf(table) ==
    CASE table \in DOMAIN FirstDeletes  -> FirstDeletes[table]
      [] table \in DOMAIN MiddleDeletes -> MiddleDeletes[table]
      [] table \in DOMAIN LaterDeletes  -> LaterDeletes[table]
      [] table \in DOMAIN LastDeletes   -> LastDeletes[table]

\* What a row of a table names: the ids its columns hold, from how the server
\* writes it.  A table is one of a class of tables with the same lists.
Kinds == [a |-> PurgeAccounts, c |-> PurgeBots, o |-> PurgeOrgs]
Naming ==
    [events |-> {"a"}, artifact |-> {"a", "runs"}, recipe_grant |-> {"recipes", "c"},
     recipe_share |-> {"recipes", "a"}, recipe_version |-> {"recipes"},
     monitor_firing |-> {"monitors"}, recipe_run |-> {"recipes", "c"},
     pending_user_message |-> {"a", "c"}, bot_message |-> {"a"}, grant_view |-> {"a", "c"},
     ceiling_view |-> {"c"}, coworker_template_use |-> {"c", "templates"},
     connection_loan |-> {"c", "connections"}, mcp_oauth_grant |-> {"connections"},
     session_view |-> {"a"}, scoped_computer |-> {"o"}, secret_store |-> {"c"},
     gateway_key_view |-> {"o", "a"}, org_invite |-> {"o"}]
\* What the row of an owned thing names.
ThingNaming ==
    [schedules |-> {"a", "c"}, monitors |-> {"a", "c"}, connections |-> {"o"},
     templates |-> {"o"}, recipes |-> {"a"}, skills |-> {"a"}, runs |-> {"a", "c"}]

-----------------------------------------------------------------------------
(* The server, before it is stopped.                                       *)

Here(kind) ==
    IF kind \in DOMAIN Kinds
    THEN {i \in Kinds[kind] : \E r \in db : r.id = i}
    ELSE Ids(In(Owned[kind].table))
\* Sets of ids with one of each of the kinds.
PurgeChoices(kinds) ==
    {s \in SUBSET UNION {Here(k) : k \in kinds} :
        \A k \in kinds : Cardinality(s \cap Here(k)) = 1}

Stopped == \E p \in Operators : purges[p].pc # "idle"
Room == Cardinality({r \in db : r.table \notin {"account_view", "org_view", "coworker_view"}})
            < MaxDbRows

\* An organisation is opened by the account that administers it.
OpenOrg(o, a) ==
    /\ ~Stopped /\ Here("a") = {} /\ o \notin Here("o")
    /\ db' = db \cup {Row("org_view", o, {a}), Row("account_view", a, {o})}
    /\ UNCHANGED purges
SignUp(a) ==
    /\ ~Stopped /\ a \notin Here("a")
    /\ \E org \in {{}} \cup {{o} : o \in Here("o")} :
          db' = db \cup {Row("account_view", a, org)}
    /\ UNCHANGED purges
HireOne(a, c) ==
    /\ ~Stopped /\ a \in Here("a") /\ c \notin Here("c")
    /\ db' = db \cup {Row("coworker_view", c, {a})}
    /\ UNCHANGED purges
MakeThing(list, id) ==
    /\ ~Stopped /\ Room /\ ~\E r \in db : r.id = id
    /\ \E names \in PurgeChoices(ThingNaming[list]) :
          db' = db \cup {Row(Owned[list].table, id, names)}
    /\ UNCHANGED purges
WriteRow(table) ==
    /\ ~Stopped /\ Room
    /\ \E names \in PurgeChoices(Naming[table]) : db' = db \cup {Row(table, NoId, names)}
    /\ UNCHANGED purges

-----------------------------------------------------------------------------
(* The purge.                                                              *)

IdlePurge == [pc |-> "idle", keep |-> {}, lists |-> [l \in Lists |-> {}]]

LockNotTaken == TRUE
\* pg_advisory_xact_lock: one purge between its first read and its commit.
LockIsFree == \A p \in Operators : purges[p].pc # "listed"

DoomedOrgsByAdmin(keep) == {r.id : r \in {o \in In("org_view") : o.names \cap keep = {}}}
\* The organisations that go: no kept account belongs to one or administers it.
DoomedOrgs(keep) ==
    {r.id : r \in {o \in In("org_view") :
        /\ o.names \cap keep = {}
        /\ \A a \in {k \in In("account_view") : k.id \in keep} : o.id \notin a.names}}

\* The lists, each read from the ones before it.
DoomedOf(list, lists) ==
    {r.id : r \in {x \in In(Owned[list].table) :
        x.names \cap UNION {lists[l] : l \in Owned[list].by} # {}}}
IdLists(keep) ==
    LET first == [l \in Lists |->
                    CASE l = "accounts" -> Ids(In("account_view")) \ keep
                      [] l = "orgs" -> DoomedOrgs(keep)
                      [] OTHER -> {}]
        second == [first EXCEPT !["coworkers"] = DoomedOf("coworkers", first)]
        third == [l \in Lists |->
                    IF l \in {"accounts", "orgs", "coworkers", "runs"} THEN second[l]
                    ELSE DoomedOf(l, second)]
    IN [third EXCEPT !["runs"] = DoomedOf("runs", third)]

\* A purge is asked for: an empty allowlist is refused before anything.
AskPurge(p, keep) ==
    /\ purges[p].pc = "idle"
    /\ keep # {}
    /\ purges' = [purges EXCEPT ![p] = [IdlePurge EXCEPT !.pc = "asked", !.keep = keep]]
    /\ UNCHANGED db

\* The transaction takes the lock and reads its lists; an allowlisted account that
\* does not exist refuses it.
ReadLists(p) ==
    /\ purges[p].pc = "asked" /\ LockIsFree
    /\ purges' = [purges EXCEPT ![p] =
            IF purges[p].keep \subseteq Ids(In("account_view"))
            THEN [@ EXCEPT !.pc = "listed", !.lists = IdLists(purges[p].keep)]
            ELSE IdlePurge]
    /\ UNCHANGED db

\* Whether one of the deletes removes a row.
Removes(lists, r) ==
    LET ownId(l) == r.table = Owned[l].table /\ r.id \in lists[l]
    IN \/ r.table = "account_view" /\ r.id \in lists["accounts"]
       \/ r.table = "org_view" /\ r.id \in lists["orgs"]
       \/ \E l \in DOMAIN Owned : ownId(l)
       \/ /\ r.table \in DOMAIN Naming
          /\ r.names \cap UNION {lists[l] : l \in ListsOf(r.table)} # {}

\* The deletes and the commit; a dry run, and a crash before the commit, roll back.
Purged(p) ==
    /\ purges[p].pc = "listed"
    /\ db' \in {{r \in db : ~Removes(purges[p].lists, r)}, db}
    /\ purges' = [purges EXCEPT ![p] = IdlePurge]

PurgeInit ==
    /\ db = {}
    /\ purges = [p \in Operators |-> IdlePurge]

PurgeNext ==
    \/ \E o \in PurgeOrgs, a \in PurgeAccounts : OpenOrg(o, a)
    \/ \E a \in PurgeAccounts : SignUp(a)
    \/ \E a \in PurgeAccounts, c \in PurgeBots : HireOne(a, c)
    \/ \E l \in DOMAIN ThingNaming, i \in Things : MakeThing(l, i)
    \/ \E t \in DOMAIN Naming : WriteRow(t)
    \/ \E p \in Operators, keep \in SUBSET PurgeAccounts : AskPurge(p, keep)
    \/ \E p \in Operators : ReadLists(p) \/ Purged(p)

PurgeSpec == PurgeInit /\ [][PurgeNext]_purgeVars

-----------------------------------------------------------------------------
\* The ids a row may go on naming though their rows are gone: the account that
\* administers an organisation other people stay in (see the README).
Excused(r) == IF r.table = "org_view" THEN r.names ELSE {}

\* A purge, whatever was in the database and whoever else purges at the same time,
\* leaves every account its allowlist named, with the organisation it is in, and no
\* row that names an id whose row is gone: the lists and the deletes of purge.rs
\* follow every reference there is, since no cascade does.
NothingDangles ==
    /\ \A r \in db : r.names \ Excused(r) \subseteq Ids(db)
    /\ \A p \in Operators :
         purges[p].pc = "listed" => purges[p].keep \subseteq Ids(In("account_view"))
=============================================================================
