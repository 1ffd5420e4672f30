------------------------------- MODULE Plugins -------------------------------
(***************************************************************************)
(* One plugin of the registry, one person, one Bot: installed from the     *)
(* registry's head as this server has it cached, its accounts (a pasted    *)
(* token, a sign-in at the plugin's own server), the Bot's ceiling that    *)
(* switches it on beside the Bot's other tools, and the turn that reads    *)
(* policy, installation and credentials one after another.                 *)
(***************************************************************************)
EXTENDS Naturals, FiniteSets

CONSTANTS AccIds,       \* accounts: 1, 2, .., in the order they are made
          Editors,      \* requests that change the ceiling or sign in
          Delisted,     \* the registry lists the plugin at commits before this
          MaxHead,      \* bound: commits of the registry
          MaxInstalls,  \* bound: installations
          MaxCeilVer    \* bound: versions of the ceiling

ASSUME PluginsAssumption == AccIds \subseteq Nat \ {0} /\ MaxHead \in Nat \ {0}

VARIABLES
    head,       \* the registry's default branch
    headSeen,   \* Cache::head: the commit cached, or 0
    plugin,     \* plugin_installation: its incarnation, or 0
    installs,   \* installations so far
    accounts,   \* plugin accounts: none, on or off; what kind; made for which
    ceiling,    \* ceiling_view: the entries switched on, and the version
    meant,      \* history: the entries, as the edits answered "saved" left them
    asks,       \* grant_view.needs_approval: whether the other tool asks first
    edit,       \* ceiling edits and plugin sign-ins in flight
    plugTurn,   \* a turn: where it stands, what it read
    handed      \* history: the last token given to a plugin's server

plugVars == <<head, headSeen, plugin, installs, accounts, ceiling, meant, asks, edit,
              plugTurn, handed>>

Entries == {"plug", "tool"}
NoEdit == [pc |-> "idle"]
NoAccount == [st |-> "none", kind |-> "token", made |-> 0]
NothingHanded == [kind |-> "none", made |-> 0, inc |-> 0]

PlugInit ==
    /\ head = 1 /\ headSeen = 0
    /\ plugin = 0 /\ installs = 0
    /\ accounts = [i \in AccIds |-> NoAccount]
    /\ ceiling = [on |-> {"tool"}, ver |-> 0] /\ meant = {"tool"} /\ asks = FALSE
    /\ edit = [e \in Editors |-> NoEdit]
    /\ plugTurn = NoEdit /\ handed = NothingHanded

Bound == {i \in AccIds : accounts[i].st = "on"}
NewAccount == {i \in AccIds : accounts[i].st = "none"
                              /\ \A j \in AccIds : j < i => accounts[j].st # "none"}

-----------------------------------------------------------------------------
(* The registry. *)

HeadMoves ==
    /\ head < MaxHead
    /\ head' = head + 1
    /\ UNCHANGED <<headSeen, plugin, installs, accounts, ceiling, meant, asks, edit, plugTurn, handed>>

\* head: cached for head_ttl, then asked for again.
HeadForgotten ==
    /\ headSeen # 0
    /\ headSeen' = 0
    /\ UNCHANGED <<head, plugin, installs, accounts, ceiling, meant, asks, edit, plugTurn, handed>>

HeadRead == IF headSeen = 0 THEN head ELSE headSeen

\* catalog, reachable: a commit asked for by name must be on the branch: the
\* cached head's past, else the head's as it is now.
Reachable(sha) == sha <= head

\* installable: the entry of the pinned commit, while the current catalog still
\* lists the plugin.
Installable(sha) == Reachable(sha) /\ sha < Delisted /\ HeadRead < Delisted

\* switch_off: what the ceiling and the grants keep of it.
SwitchedOff ==
    /\ ceiling' = IF "plug" \in ceiling.on
                  THEN [on |-> ceiling.on \ {"plug"}, ver |-> ceiling.ver + 1] ELSE ceiling
    /\ meant' = meant \ {"plug"}

\* Tools::install, then install: no grant or ceiling names it from before.
PluginInstalled ==
    /\ plugin = 0 /\ installs < MaxInstalls
    /\ \E sha \in {HeadRead} \cup (1 .. head) : Installable(sha)
    /\ headSeen' = HeadRead
    /\ installs' = installs + 1 /\ plugin' = installs + 1
    /\ SwitchedOff
    /\ UNCHANGED <<head, accounts, asks, edit, plugTurn, handed>>

\* uninstall: its accounts with it, in one transaction.
PluginUninstalled ==
    /\ plugin # 0
    /\ plugin' = 0
    /\ accounts' = [i \in AccIds |-> IF i \in Bound THEN [accounts[i] EXCEPT !.st = "off"]
                                     ELSE accounts[i]]
    /\ SwitchedOff
    /\ UNCHANGED <<head, headSeen, installs, asks, edit, plugTurn, handed>>

-----------------------------------------------------------------------------
(* The accounts. *)

\* save: a pasted token, under the installation's lock: the one account there
\* is, or another.
TokenPasted ==
    /\ plugin # 0
    /\ \E i \in (IF Cardinality(Bound) = 1 THEN Bound ELSE {}) \cup NewAccount :
          accounts' = [accounts EXCEPT ![i] =
              [st |-> "on", kind |-> IF @.st = "on" THEN @.kind ELSE "token", made |-> plugin]]
    /\ UNCHANGED <<head, headSeen, plugin, installs, ceiling, meant, asks, edit, plugTurn, handed>>

\* Tools::remove, remove_in
AccountRemoved ==
    /\ \E i \in Bound : accounts' = [accounts EXCEPT ![i].st = "off"]
    /\ UNCHANGED <<head, headSeen, plugin, installs, ceiling, meant, asks, edit, plugTurn, handed>>

\* plugin_signin::link: discovered, registered, and waiting for the person ..
McpSignIn(e) ==
    /\ edit[e] = NoEdit /\ plugin # 0
    /\ edit' = [edit EXCEPT ![e] = [pc |-> "mcp", inc |-> plugin]]
    /\ UNCHANGED <<head, headSeen, plugin, installs, accounts, ceiling, meant, asks, plugTurn, handed>>

\* .. finish, connect: kept while the plugin is installed, asked by name.
McpConnected(e) ==
    /\ edit[e].pc = "mcp"
    /\ edit' = [edit EXCEPT ![e] = NoEdit]
    /\ \/ /\ plugin # 0
          /\ \E i \in NewAccount :
                accounts' = [accounts EXCEPT ![i] =
                                [st |-> "on", kind |-> "mcp", made |-> edit[e].inc]]
       \/ plugin = 0 /\ UNCHANGED accounts
    /\ UNCHANGED <<head, headSeen, plugin, installs, ceiling, meant, asks, plugTurn, handed>>

-----------------------------------------------------------------------------
(* The ceiling. *)

\* set_plugin, put_plugin_skill and put_tool_mode: read with its version; one
\* entry changed; the rest written back as read.
EditRead(e) ==
    /\ edit[e] = NoEdit
    /\ \E n \in Entries, on \in BOOLEAN, ask \in BOOLEAN :
          /\ n = "plug" => plugin # 0 /\ ~ask /\ on # (n \in ceiling.on)
          /\ ask => on
          /\ edit' = [edit EXCEPT ![e] =
                [pc |-> "save", name |-> n, on |-> on, ask |-> ask, ver |-> ceiling.ver,
                 set |-> IF on THEN ceiling.on \cup {n} ELSE ceiling.on \ {n}]]
    /\ UNCHANGED <<head, headSeen, plugin, installs, accounts, ceiling, meant, asks, plugTurn, handed>>

CeilingSavedBlind(ver) == TRUE
CeilingSaved(ver) == ceiling.ver = ver

\* set_ceiling: under the version, which moves when the entries do.
CeilingSet(set) ==
    ceiling' = [on |-> set, ver |-> IF set = ceiling.on THEN ceiling.ver ELSE ceiling.ver + 1]

EditSaved(e) ==
    /\ edit[e].pc = "save"
    /\ LET q == edit[e]
           \* save looks the entries up again in the rows as they are now
           known == "plug" \in q.set => plugin # 0 \/ "plug" \in ceiling.on
       IN  \/ /\ CeilingSaved(q.ver) /\ known /\ ceiling.ver < MaxCeilVer
              /\ CeilingSet(q.set)
              /\ meant' = IF q.on THEN meant \cup {q.name} ELSE meant \ {q.name}
              /\ edit' = [edit EXCEPT ![e] =
                    IF q.name = "tool" THEN [pc |-> "asks", ask |-> q.ask] ELSE NoEdit]
           \/ /\ ~CeilingSaved(q.ver) \/ ~known \/ ceiling.ver = MaxCeilVer
              /\ edit' = [edit EXCEPT ![e] = NoEdit]
              /\ UNCHANGED <<ceiling, meant>>
    /\ UNCHANGED <<head, headSeen, plugin, installs, accounts, asks, plugTurn, handed>>

\* put_tool_mode's second write: the grant's list, whatever the first one left.
ModeAsks(e) ==
    /\ edit[e].pc = "asks"
    /\ asks' = edit[e].ask
    /\ edit' = [edit EXCEPT ![e] = NoEdit]
    /\ UNCHANGED <<head, headSeen, plugin, installs, accounts, ceiling, meant, plugTurn, handed>>

\* put_ceiling: the whole list; from a client that sends no version, unchecked.
CeilingPut ==
    /\ ceiling.ver < MaxCeilVer
    /\ \E set \in SUBSET Entries :
          /\ "plug" \in set => plugin # 0
          /\ CeilingSet(set)
          /\ meant' = set
    /\ UNCHANGED <<head, headSeen, plugin, installs, accounts, asks, edit, plugTurn, handed>>

-----------------------------------------------------------------------------
(* A turn. *)

\* endpoints: the policy, then the installation ..
TurnPolicyRead ==
    /\ plugTurn = NoEdit /\ "plug" \in ceiling.on
    /\ plugTurn' = [pc |-> "install"]
    /\ UNCHANGED <<head, headSeen, plugin, installs, accounts, ceiling, meant, asks, edit, handed>>

TurnInstallRead ==
    /\ plugTurn.pc = "install"
    /\ plugTurn' = IF plugin = 0 THEN NoEdit ELSE [pc |-> "values", inc |-> plugin]
    /\ UNCHANGED <<head, headSeen, plugin, installs, accounts, ceiling, meant, asks, edit, handed>>

ByName(inc) == plugin # 0
SameInstallation(inc) == plugin = inc

\* .. then values_choosing: an account of the installation that was read, when
\* there is one to use; several are a choice for the person.
TurnHands ==
    /\ plugTurn.pc = "values"
    /\ LET bearing == {i \in Bound : SameInstallation(plugTurn.inc)}
       IN  \/ \E i \in bearing :
                 handed' = [kind |-> accounts[i].kind, made |-> accounts[i].made, inc |-> plugTurn.inc]
           \/ Cardinality(bearing) # 1 /\ UNCHANGED handed
    /\ plugTurn' = NoEdit
    /\ UNCHANGED <<head, headSeen, plugin, installs, accounts, ceiling, meant, asks, edit>>

PlugNext ==
    \/ HeadMoves \/ HeadForgotten \/ PluginInstalled \/ PluginUninstalled
    \/ TokenPasted \/ AccountRemoved \/ CeilingPut
    \/ TurnPolicyRead \/ TurnInstallRead \/ TurnHands
    \/ \E e \in Editors : McpSignIn(e) \/ McpConnected(e) \/ EditRead(e) \/ EditSaved(e) \/ ModeAsks(e)

PlugSpec == PlugInit /\ [][PlugNext]_plugVars

-----------------------------------------------------------------------------
\* "a token pasted for one URL must not reach a replacement's"
\* (integrations/installed.rs), across an uninstall and an install between a
\* turn's reads; and an edit of one entry answered as saved leaves every other
\* entry as the last saved edit left it (ceiling.rs, set_ceiling).
PastedAndSavedStand ==
    /\ handed.kind = "token" => handed.made = handed.inc
    /\ ceiling.on = meant

------------------------------------------------------------------------------
(***************************************************************************)
(* The pool of MCP sessions a turn's plugins are called through            *)
(* (opengrok-tools/src/mcp.rs).  A turn dials the endpoints of its         *)
(* account's plugins with the credentials it has; the pool keeps a session *)
(* it made for a while, remembers a server that failed, and hands the same *)
(* session to every turn that asks with the same scope and headers.        *)
(***************************************************************************)
CONSTANTS
    PoolTurns,    \* turns
    Scopes,       \* accounts whose plugins are dialled
    PoolTTL,      \* ticks a session may be handed out after it was made
    RetryAfter,   \* ticks a failure is remembered
    MaxCreds,     \* bound: credentials an account has had
    MaxSessions   \* bound: sessions made

ASSUME PoolAssumption == PoolTTL \in Nat \ {0} /\ RetryAfter \in Nat \ {0} /\ MaxCreds \in Nat

VARIABLES
    cred,      \* per scope: the credential its headers are filled with, 0 when it has none
    sessions,  \* sessions made: [scope, cred, usable]
    slots,     \* the pool: [scope, cred] -> nothing, a session with its age, a failure with its age
    turns,     \* per turn: [pc, scope, cred, session]
    late       \* a turn was handed a session that was broken already

poolVars == <<cred, sessions, slots, turns, late>>

Slots == [scope : Scopes, cred : 1..MaxCreds]
Empty == [kind |-> "none", session |-> 0, age |-> 0]
NoTurn == [pc |-> "none", scope |-> 0, cred |-> 0, session |-> 0]

\* is_usable: no call on it timed out or lost its transport.
IsUsable(s) == sessions[s].usable

StillThere(p) ==
    CASE p.kind = "none" -> FALSE
      [] p.kind = "ready" -> p.age < PoolTTL
      [] p.kind = "failed" -> p.age < RetryAfter

\* fresh: what is too old, broken or remembered long enough leaves the pool at every look.
StillGood(p) ==
    CASE p.kind = "none" -> FALSE
      [] p.kind = "ready" -> p.age < PoolTTL /\ IsUsable(p.session)
      [] p.kind = "failed" -> p.age < RetryAfter
Retained == [k \in DOMAIN slots |-> IF StillGood(slots[k]) THEN slots[k] ELSE Empty]

SlotOfScope(t) == [scope |-> turns[t].scope, cred |-> 1]
\* The slot a turn dials: the account and the headers as they are filled for it.
SlotOf(t) == [scope |-> turns[t].scope, cred |-> turns[t].cred]

\* The endpoints of the turn's plugins: a header whose placeholder has no value yet
\* keeps the server out of the turn.
TurnStarts(t, sc) ==
    /\ turns[t].pc = "none"
    /\ turns' = [turns EXCEPT ![t] = [pc |-> IF cred[sc] = 0 THEN "without" ELSE "built",
                                      scope |-> sc, cred |-> cred[sc], session |-> 0]]
    /\ UNCHANGED <<cred, sessions, slots, late>>

\* dial, first half: the pool's answer if it has one, a dialling task if not.
Dials(t) ==
    /\ turns[t].pc = "built"
    /\ slots' = Retained
    /\ LET p == Retained[SlotOf(t)]
       IN /\ turns' = [turns EXCEPT ![t] =
                CASE p.kind = "none" -> [@ EXCEPT !.pc = "dialling"]
                  [] p.kind = "ready" -> [@ EXCEPT !.pc = "has", !.session = p.session]
                  [] p.kind = "failed" -> [@ EXCEPT !.pc = "without"]]
          /\ late' = (late \/ (p.kind = "ready" /\ ~sessions[p.session].usable))
    /\ UNCHANGED <<cred, sessions>>

\* connect_and_list: initialize and tools/list within the deadline, or the failure is
\* remembered; dialling outlives nothing, so two turns may each make a session and the
\* second takes the slot.
DialLands(t) ==
    /\ turns[t].pc = "dialling"
    /\ \/ /\ Cardinality(DOMAIN sessions) < MaxSessions
          /\ LET n == Cardinality(DOMAIN sessions) + 1
             IN /\ sessions' = [i \in 1..n |->
                      IF i = n THEN [scope |-> turns[t].scope, cred |-> turns[t].cred, usable |-> TRUE]
                      ELSE sessions[i]]
                /\ slots' = [slots EXCEPT ![SlotOf(t)] = [kind |-> "ready", session |-> n, age |-> 0]]
                /\ turns' = [turns EXCEPT ![t].pc = "has", ![t].session = n]
       \/ /\ slots' = [slots EXCEPT ![SlotOf(t)] = [kind |-> "failed", session |-> 0, age |-> 0]]
          /\ turns' = [turns EXCEPT ![t].pc = "without"]
          /\ UNCHANGED sessions
    /\ UNCHANGED <<cred, late>>

\* A call: an answer or the server's own refusal leaves the session, a timeout or a
\* transport error breaks it for every later turn.
Calls(t) ==
    /\ turns[t].pc = "has"
    /\ \/ UNCHANGED sessions
       \/ sessions' = [sessions EXCEPT ![turns[t].session].usable = FALSE]
    /\ UNCHANGED <<cred, slots, turns, late>>

TurnOver(t) ==
    /\ turns[t].pc \in {"has", "without"}
    /\ turns' = [turns EXCEPT ![t] = NoTurn]
    /\ UNCHANGED <<cred, sessions, slots, late>>

\* The account connects the plugin, or its credential is replaced.
CredChanges(sc) ==
    /\ cred[sc] < MaxCreds
    /\ cred' = [cred EXCEPT ![sc] = @ + 1]
    /\ UNCHANGED <<sessions, slots, turns, late>>

OldAge == IF PoolTTL > RetryAfter THEN PoolTTL ELSE RetryAfter
\* A tick of the clock, for the ages that are still told apart.
PoolTick ==
    /\ \E k \in DOMAIN slots : slots[k].kind # "none" /\ slots[k].age < OldAge
    /\ slots' = [k \in DOMAIN slots |->
            IF slots[k].kind = "none" \/ slots[k].age >= OldAge THEN slots[k]
            ELSE [slots[k] EXCEPT !.age = @ + 1]]
    /\ UNCHANGED <<cred, sessions, turns, late>>

PoolInit ==
    /\ cred = [sc \in Scopes |-> 0]
    /\ sessions = [i \in 1..0 |-> Empty]
    /\ slots = [k \in Slots |-> Empty]
    /\ turns = [t \in PoolTurns |-> NoTurn]
    /\ late = FALSE

PoolNext ==
    \/ \E t \in PoolTurns : (\E sc \in Scopes : TurnStarts(t, sc)) \/ Dials(t) \/ DialLands(t)
                               \/ Calls(t) \/ TurnOver(t)
    \/ \E sc \in Scopes : CredChanges(sc)
    \/ PoolTick

PoolSpec == PoolInit /\ [][PoolNext]_poolVars

-----------------------------------------------------------------------------
\* A session shared between turns is always the turn's own: it was opened for the turn's
\* account with the credential the turn's headers were filled with, though another
\* account's turn or one before the credential was replaced dialled the same url; and
\* no turn is handed a session that a call had already broken when it asked.
SessionIsTheTurnsOwn ==
    /\ ~late
    /\ \A t \in PoolTurns :
         turns[t].session # 0 => /\ sessions[turns[t].session].scope = turns[t].scope
                                 /\ sessions[turns[t].session].cred = turns[t].cred
==============================================================================
