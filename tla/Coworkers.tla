----------------------------- MODULE Coworkers -----------------------------
(***************************************************************************)
(* One coworker's life: the hire in its steps (template, computer, append, *)
(* grant), the owner's edits (name, sharing, profile, sidebar), what a     *)
(* colleague in the org may do with a shared one, approvals, its computer  *)
(* assigned and released, and its retirement (core/coworker.rs,            *)
(* routes/coworkers.rs, templates.rs, store/postgres/coworkers.rs).        *)
(*                                                                         *)
(* The log is kept as the state its replay gives; every append also writes *)
(* the roster row, from the state the request computed.                    *)
(***************************************************************************)
EXTENDS Naturals, FiniteSets

CONSTANTS CwReqs,     \* requests in flight
          MaxCwSeq,   \* bound: events in the log
          MaxCwMoves  \* bound: changes of sidebars, approvals and the org

ASSUME CoworkersAssumption == {MaxCwSeq, MaxCwMoves} \subseteq Nat

Owner == "owner"
Mate == "mate"

VARIABLES cwLog,    \* the state the events replay to, and how many there are
          cwRow,    \* coworker_view
          cwHidden, \* coworker_hidden: the accounts whose sidebar leaves it out
          cwProfile,\* seamb_profile: absent, from the template, or edited
          cwGrant,  \* the owner's grant: absent, or its ceiling and what it asks for
          cwOrg,    \* the accounts that are in the org
          cwReq,    \* the requests
          cwMoves   \* changes of sidebars, approvals and the org so far

cwVars == <<cwLog, cwRow, cwHidden, cwProfile, cwGrant, cwOrg, cwReq, cwMoves>>

Unhired == [hired |-> FALSE, retired |-> FALSE, name |-> 0, shared |-> FALSE, box |-> "none"]
NoGrant == [held |-> FALSE, ceiling |-> {}, asks |-> {}]
EveryBuiltin == {"shell", "read"}
Template == [ceiling |-> {"read"}, asks |-> {"read"}]
NoReq == [pc |-> "idle", seq |-> 0, read |-> Unhired, event |-> "none", title |-> FALSE,
          template |-> FALSE]

CwTypeOK ==
  /\ cwLog.seq \in 0..MaxCwSeq /\ cwHidden \subseteq {Owner, Mate}
  /\ cwGrant.asks \subseteq EveryBuiltin

(***************************************************************************)
(* The aggregate.                                                          *)
(***************************************************************************)
Alive(c) == c.hired /\ ~c.retired

Decides(c, e) ==
  CASE e \in {"hired", "hiredBoxed"} -> TRUE
    [] e \in {"renamed", "shared", "unshared", "retired"} -> Alive(c)
    [] e = "assigned" -> Alive(c) /\ c.box = "none"
    [] e = "released" -> Alive(c) /\ c.box = "dedicated"

Applied(c, e) ==
  CASE e = "hired" -> [c EXCEPT !.hired = TRUE, !.name = 1]
    [] e = "hiredBoxed" -> [c EXCEPT !.hired = TRUE, !.name = 1, !.box = "dedicated"]
    [] e = "renamed" -> [c EXCEPT !.name = 2]
    [] e = "shared" -> [c EXCEPT !.shared = TRUE]
    [] e = "unshared" -> [c EXCEPT !.shared = FALSE]
    [] e = "retired" -> [c EXCEPT !.retired = TRUE]
    [] e = "assigned" -> [c EXCEPT !.box = "dedicated"]
    [] e = "released" -> [c EXCEPT !.box = "none"]

\* append_coworker: the event at the next place of the log and the row from the state the
\* request computed, in one transaction; the place taken fails it.
AnyPlace(q) == TRUE
AtItsPlace(q) == cwReq[q].seq = cwLog.seq

Appended(q, e) ==
  /\ cwLog' = [seq |-> cwLog.seq + 1, state |-> Applied(cwLog.state, e)]
  /\ cwRow' = Applied(cwReq[q].read, e)

CwGoto(q, pc) == cwReq' = [cwReq EXCEPT ![q].pc = pc]
CwDone(q) == cwReq' = [cwReq EXCEPT ![q] = NoReq]
CwMoves == cwMoves < MaxCwMoves /\ cwMoves' = cwMoves + 1

(***************************************************************************)
(* Hiring.                                                                 *)
(***************************************************************************)
\* for_account: a template is read from the owner's org.
HireBegins(q, template) ==
  /\ cwReq[q].pc = "idle" /\ cwLog.seq = 0 /\ \A o \in CwReqs : cwReq[o].pc = "idle"
  /\ template => Owner \in cwOrg
  /\ cwReq' = [cwReq EXCEPT ![q] = [NoReq EXCEPT !.pc = "hiring", !.template = template]]
  /\ UNCHANGED <<cwLog, cwRow, cwHidden, cwProfile, cwGrant, cwOrg, cwMoves>>

\* The computer is provisioned, or not, before the append; the hire goes on either way.
HireLands(q) ==
  /\ cwReq[q].pc = "hiring"
  /\ \/ \E e \in {"hired", "hiredBoxed"} : Appended(q, e) /\ CwGoto(q, "granting")
     \/ CwDone(q) /\ UNCHANGED <<cwLog, cwRow>>
  /\ UNCHANGED <<cwHidden, cwProfile, cwGrant, cwOrg, cwMoves>>

\* apply_at_hire, or the grant of every built-in; a grant that fails leaves a coworker
\* that nobody may use.
HireGrants(q) ==
  /\ cwReq[q].pc = "granting"
  /\ \/ /\ cwGrant' = IF cwReq[q].template
                      THEN [held |-> TRUE, ceiling |-> Template.ceiling, asks |-> Template.asks]
                      ELSE [held |-> TRUE, ceiling |-> EveryBuiltin, asks |-> {}]
        /\ cwProfile' = IF cwReq[q].template THEN "template" ELSE cwProfile
     \/ UNCHANGED <<cwGrant, cwProfile>>
  /\ CwDone(q)
  /\ UNCHANGED <<cwLog, cwRow, cwHidden, cwOrg, cwMoves>>

(***************************************************************************)
(* Edits.                                                                  *)
(***************************************************************************)
\* roster_for: the owner's, and an org's members' when it is shared.
OnRoster(a) == /\ Alive(cwRow)
               /\ a = Owner \/ (cwRow.shared /\ {Owner, a} \subseteq cwOrg)

\* The owner's patch is checked against the row, and decided on the log as loaded then;
\* sharing needs an org to share with.
PatchBegins(q, e, title) ==
  /\ cwReq[q].pc = "idle" /\ OnRoster(Owner)
  /\ e # "none" \/ title
  /\ e # "none" => Decides(cwLog.state, e)
  /\ e = "shared" => cwLog.state.shared \/ Owner \in cwOrg
  /\ cwReq' = [cwReq EXCEPT ![q] = [NoReq EXCEPT !.pc = "patching", !.seq = cwLog.seq, !.read = cwLog.state,
                                                 !.event = e, !.title = title]]
  /\ UNCHANGED <<cwLog, cwRow, cwHidden, cwProfile, cwGrant, cwOrg, cwMoves>>

\* The computer's comings and goings are appended the same way (provision.rs).
ComputerBegins(q, e) ==
  /\ cwReq[q].pc = "idle" /\ Decides(cwLog.state, e)
  /\ cwReq' = [cwReq EXCEPT ![q] = [NoReq EXCEPT !.pc = "patching", !.seq = cwLog.seq, !.read = cwLog.state,
                                                 !.event = e]]
  /\ UNCHANGED <<cwLog, cwRow, cwHidden, cwProfile, cwGrant, cwOrg, cwMoves>>

\* The append is first; one that fails ends the request before the profile is written.
PatchLands(q) ==
  /\ cwReq[q].pc = "patching" /\ cwLog.seq < MaxCwSeq
  /\ \/ cwReq[q].event = "none" /\ CwGoto(q, "decorating") /\ UNCHANGED <<cwLog, cwRow>>
     \/ /\ cwReq[q].event # "none" /\ AtItsPlace(q) /\ Appended(q, cwReq[q].event)
        /\ CwGoto(q, "decorating")
     \/ /\ cwReq[q].event # "none" /\ ~AtItsPlace(q) /\ CwDone(q) /\ UNCHANGED <<cwLog, cwRow>>
  /\ UNCHANGED <<cwHidden, cwProfile, cwGrant, cwOrg, cwMoves>>

\* The profile goes back whole.
PatchDecorates(q) ==
  /\ cwReq[q].pc = "decorating"
  /\ cwProfile' = IF cwReq[q].title THEN "edited" ELSE cwProfile
  /\ CwDone(q)
  /\ UNCHANGED <<cwLog, cwRow, cwHidden, cwGrant, cwOrg, cwMoves>>

\* hiddenFromSidebar: for the owner and, on a shared coworker, for a colleague.
Hides(a, hidden) ==
  /\ OnRoster(a)
  /\ cwHidden' = IF hidden THEN cwHidden \cup {a} ELSE cwHidden \ {a}
  /\ CwMoves
  /\ UNCHANGED <<cwLog, cwRow, cwProfile, cwGrant, cwOrg, cwReq>>

\* set_approvals: the grant is read, and set_needs_approval changes the one that is there.
SetApprovals(asks) ==
  /\ cwGrant.held /\ cwGrant' = [cwGrant EXCEPT !.asks = asks]
  /\ CwMoves
  /\ UNCHANGED <<cwLog, cwRow, cwHidden, cwProfile, cwOrg, cwReq>>

(***************************************************************************)
(* Retirement.                                                             *)
(***************************************************************************)
DeleteBegins(q) ==
  /\ cwReq[q].pc = "idle" /\ OnRoster(Owner) /\ Decides(cwLog.state, "retired")
  /\ cwReq' = [cwReq EXCEPT ![q] = [NoReq EXCEPT !.pc = "deleting", !.seq = cwLog.seq, !.read = cwLog.state]]
  /\ UNCHANGED <<cwLog, cwRow, cwHidden, cwProfile, cwGrant, cwOrg, cwMoves>>

\* The row of the owner's sidebar goes with it; computer and keys follow (Computers, Spend).
DeleteLands(q) ==
  /\ cwReq[q].pc = "deleting" /\ cwLog.seq < MaxCwSeq
  /\ IF AtItsPlace(q)
     THEN Appended(q, "retired") /\ cwHidden' \in {cwHidden, cwHidden \ {Owner}}
     ELSE UNCHANGED <<cwLog, cwRow, cwHidden>>
  /\ CwDone(q)
  /\ UNCHANGED <<cwProfile, cwGrant, cwOrg, cwMoves>>

\* External to this module: an account joins or leaves the org.
OrgMoves(a) ==
  /\ cwOrg' = IF a \in cwOrg THEN cwOrg \ {a} ELSE cwOrg \cup {a}
  /\ CwMoves
  /\ UNCHANGED <<cwLog, cwRow, cwHidden, cwProfile, cwGrant, cwReq>>

CwInit ==
  /\ cwLog = [seq |-> 0, state |-> Unhired] /\ cwRow = Unhired
  /\ cwHidden = {} /\ cwProfile = "none" /\ cwGrant = NoGrant /\ cwOrg = {Owner, Mate}
  /\ cwReq = [q \in CwReqs |-> NoReq] /\ cwMoves = 0

CwNext ==
  \/ \E q \in CwReqs :
       \/ \E template \in BOOLEAN : HireBegins(q, template)
       \/ HireLands(q) \/ HireGrants(q)
       \/ \E e \in {"none", "renamed", "shared", "unshared"}, title \in BOOLEAN : PatchBegins(q, e, title)
       \/ \E e \in {"assigned", "released"} : ComputerBegins(q, e)
       \/ PatchLands(q) \/ PatchDecorates(q) \/ DeleteBegins(q) \/ DeleteLands(q)
  \/ \E a \in {Owner, Mate} : Hides(a, a \notin cwHidden)
  \/ \E asks \in {{}, {"shell"}} : SetApprovals(asks)
  \/ OrgMoves(Owner)

CwSpec == CwInit /\ [][CwNext]_cwVars

(***************************************************************************)
(* Properties.                                                             *)
(***************************************************************************)
\* The roster row says what the log says, whatever requests raced: a rename, a share or a
\* computer's assignment decided before a retirement never brings the row, or the log, back
\* to life (append_coworker writes row and event together, the event at its place or neither).
RosterFollowsLog == cwRow = cwLog.state
=============================================================================
