------------------------------- MODULE Office -------------------------------
(***************************************************************************)
(* One office document: the session row that keeps it open across turns,   *)
(* its proposals and kept versions, the file on the computer, and the      *)
(* verbs of several turns at once, while a person edits the file and the   *)
(* computer is reset or rebuilt.  A content is the set of edits it holds;  *)
(* its hash is the content.                                                *)
(***************************************************************************)
EXTENDS Naturals, FiniteSets

CONSTANTS Verbs,        \* verbs under way
          Proposals,    \* proposal ids, above 0 and below 100
          MaxDocs,      \* bound: sessions ever opened
          MaxDocVer,    \* bound: a session's version
          MaxTouches    \* bound: edits outside the tools and computers replaced

ASSUME OfficeAssumption ==
    Proposals \subseteq 1..99 /\ MaxDocs \in Nat /\ MaxDocVer \in Nat /\ MaxTouches \in Nat

VARIABLES docs,     \* doc_session: id -> [box, head, ver, props] or NoDoc
          everOpened,   \* sessions ever opened
    given,    \* proposal ids given out: each is new
          kept,     \* version artifacts: <<doc, version, content>>
          scoped,   \* the scope's computer
          paper,    \* the file at the document's path, by computer
          verb,     \* verbs under way
          touches,
          accepted, \* history: <<doc, proposal>> whose accept wrote the file
          drifted,  \* history: the file and the head may differ for a known reason
          mistaken  \* history: a re-base took a content an accept was replacing, or a
                    \* revert gave a version number back that another verb had read

officeVars == <<docs, everOpened, given, kept, scoped, paper, verb, touches,
                accepted, drifted, mistaken>>

DocIds == 1..MaxDocs
NoDoc == [box |-> 0]
Absent == {0}
NoVerb == [pc |-> "none"]
Open == {d \in DocIds : docs[d] # NoDoc}
DocAt(b) == {d \in Open : docs[d].box = b}
Blank == [p \in Proposals |-> "none"]

OfficeInit ==
    /\ docs = [d \in DocIds |-> NoDoc] /\ everOpened = 0 /\ given = {} /\ kept = {}
    /\ scoped = 1 /\ paper = [b \in 1..(MaxTouches + 1) |-> IF b = 1 THEN {} ELSE Absent]
    /\ verb = [v \in Verbs |-> NoVerb] /\ touches = 0
    /\ accepted = {} /\ drifted = FALSE /\ mistaken = FALSE

Step(v, pc) == verb' = [verb EXCEPT ![v].pc = pc]
Done(v) == verb' = [verb EXCEPT ![v] = NoVerb]

\* Writing whatever version the row has.
SaveBlind(d, expected) == d \in Open

\* save_doc_session: only over the version that was read.
SaveChecked(d, expected) == d \in Open /\ docs[d].ver = expected

Saved(d, head, ver, props) ==
    docs' = [docs EXCEPT ![d].head = head, ![d].ver = ver, ![d].props = props]

\* snapshot: an artifact of the version, or a failure that is logged.
Snapshot(d, ver, content) == kept' \in {kept, kept \cup {<<d, ver, content>>}}

-----------------------------------------------------------------------------
(* Finding the session, on the computer the turn holds. *)

\* session_row, session_at_path: a row of a computer that is gone goes by way
\* of rehydrate.
VerbBegins(v, what, p, d) ==
    /\ verb[v] = NoVerb /\ d \in Open
    /\ what = "propose" => p \notin given
    /\ given' = given \cup (IF what = "propose" THEN {p} ELSE {})
    /\ verb' = [verb EXCEPT ![v] = [pc |-> IF docs[d].box = scoped THEN "fresh" ELSE "look",
                                    what |-> what, prop |-> p, doc |-> d, row |-> docs[d],
                                    bytes |-> Absent, box |-> scoped]]
    /\ UNCHANGED <<docs, everOpened, kept, scoped, paper, touches, drifted, mistaken, accepted>>

\* newest_snapshot
Newest(d) == {k \in kept : k[1] = d /\ \A o \in kept : o[1] = d => o[2] <= k[2]}

\* A file that is this document is adopted, another left alone, a missing one
\* restored.
RehydrateDecides(v) ==
    LET here == paper[verb[v].box]
        d == verb[v].doc
    IN IF DocAt(verb[v].box) # {} THEN Done(v) /\ UNCHANGED drifted
       ELSE IF here = Absent
            THEN /\ IF Newest(d) = {} THEN Done(v)
                    ELSE \E k \in Newest(d) :
                            verb' = [verb EXCEPT ![v].pc = "restore", ![v].bytes = k[3]]
                 /\ UNCHANGED drifted
            ELSE IF here = verb[v].row.head \/ \E k \in Newest(d) : k[3] = here
                 THEN Step(v, "repoint") /\ drifted' = (drifted \/ here # verb[v].row.head)
                 ELSE Done(v) /\ UNCHANGED drifted

RehydrateLooks(v) ==
    /\ verb[v].pc = "look"
    /\ RehydrateDecides(v)
    /\ UNCHANGED <<docs, everOpened, given, kept, scoped, paper, touches, mistaken, accepted>>

RehydrateWrites(v) ==
    /\ verb[v].pc = "restore"
    /\ verb[v].box = scoped
    /\ paper' = [paper EXCEPT ![scoped] = verb[v].bytes]
    /\ drifted' = (drifted \/ verb[v].bytes # verb[v].row.head \/ paper[scoped] # Absent)
    /\ Step(v, "repoint")
    /\ UNCHANGED <<docs, everOpened, given, kept, scoped, touches, mistaken, accepted>>

\* repoint_doc_session_box, and the row read again.
Repointed(v) ==
    /\ verb[v].pc = "repoint"
    /\ LET d == verb[v].doc
           moves == d \in Open /\ docs[d].box = verb[v].row.box /\ DocAt(verb[v].box) = {}
       IN /\ docs' = IF moves THEN [docs EXCEPT ![d].box = verb[v].box] ELSE docs
          /\ IF d \in Open /\ docs'[d].box = verb[v].box
             THEN verb' = [verb EXCEPT ![v].pc = "fresh", ![v].row = docs'[d]]
             ELSE Done(v)
    /\ UNCHANGED <<everOpened, given, kept, scoped, paper, touches, drifted, mistaken, accepted>>

\* kept_copy_at: the file is a kept version below the head.
KeptBelow(d, row, bytes) == \E k \in kept : k[1] = d /\ k[2] < row.ver /\ k[3] = bytes

\* fresh, stale_copy_kept: the file against the row as it was read.
Freshened(v) ==
    /\ verb[v].pc = "fresh"
    /\ LET here == paper[verb[v].box]
           got(pc) == verb' = [verb EXCEPT ![v].pc = pc, ![v].bytes = here]
       IN \/ (here = Absent \/ verb[v].box # scoped) /\ Done(v)
          \/ here # Absent /\ here = verb[v].row.head /\ got("act")
          \/ /\ here # Absent /\ here # verb[v].row.head
             /\ IF KeptBelow(verb[v].doc, verb[v].row, here)
                THEN IF verb[v].what = "adopt" THEN got("adopt") ELSE Done(v)
                ELSE IF verb[v].what = "reject" THEN got("act") ELSE got("rebase")
    /\ UNCHANGED <<docs, everOpened, given, kept, scoped, paper, touches, drifted, mistaken, accepted>>

\* The file was changed outside: its content is the new head.  (An adopted
\* kept copy becomes the head the same way.)
Rebased(v) ==
    /\ verb[v].pc \in {"rebase", "adopt"}
    /\ LET d == verb[v].doc
           next == [verb[v].row EXCEPT !.head = verb[v].bytes, !.ver = @ + 1]
       IN /\ verb[v].row.ver < MaxDocVer
          /\ IF SaveChecked(d, verb[v].row.ver)
             THEN /\ Saved(d, next.head, next.ver, next.props)
                  /\ Snapshot(d, next.ver, next.head)
                  /\ verb' = [verb EXCEPT ![v].pc = "act", ![v].row = next]
                  /\ accepted' = {a \in accepted : a[1] = d => a[2] \in next.head}
                  /\ mistaken' = (mistaken \/ verb[v].box # scoped \/ paper[scoped] # next.head
                                    \/ \E w \in Verbs \ {v} :
                                          verb[w].pc = "write" /\ verb[w].doc = d)
             ELSE Done(v) /\ UNCHANGED <<docs, kept, accepted, mistaken>>
    /\ UNCHANGED <<everOpened, given, scoped, drifted, paper, touches>>

-----------------------------------------------------------------------------
(* The verbs. *)

Acting(v, what) == verb[v].pc = "act" /\ verb[v].what = what

\* Verbs that only read end here.
Looked(v) ==
    /\ verb[v].pc = "act" /\ verb[v].what \in {"read", "adopt"}
    /\ Done(v)
    /\ UNCHANGED <<docs, everOpened, given, kept, scoped, paper, touches, drifted, mistaken, accepted>>

\* propose: the list as read with one more, at the same version.
Proposed(v) ==
    /\ Acting(v, "propose")
    /\ LET d == verb[v].doc
           row == verb[v].row
       IN IF SaveChecked(d, row.ver)
          THEN Saved(d, row.head, row.ver, [row.props EXCEPT ![verb[v].prop] = "pending"])
          ELSE UNCHANGED docs
    /\ Done(v)
    /\ UNCHANGED <<everOpened, given, kept, scoped, paper, touches, drifted, mistaken, accepted>>

\* reject: the list as read, at the same version.
Rejected(v) ==
    /\ Acting(v, "reject")
    /\ LET d == verb[v].doc
           row == verb[v].row
           p == verb[v].prop
       IN IF row.props[p] = "pending" /\ SaveChecked(d, row.ver)
          THEN Saved(d, row.head, row.ver, [row.props EXCEPT ![p] = "rejected"])
          ELSE UNCHANGED docs
    /\ Done(v)
    /\ UNCHANGED <<everOpened, given, kept, scoped, paper, touches, accepted, drifted, mistaken>>

\* accept: applied to the bytes read; the row claims the version before the
\* bytes land.  A target that moved is noted on the proposal instead.
AcceptClaims(v) ==
    /\ Acting(v, "accept")
    /\ LET d == verb[v].doc
           row == verb[v].row
           p == verb[v].prop
       IN \/ /\ row.props[p] # "pending" \/ ~SaveChecked(d, row.ver)
             /\ Done(v) /\ UNCHANGED docs
          \/ /\ row.props[p] = "pending" /\ SaveChecked(d, row.ver) /\ row.ver < MaxDocVer
             /\ Saved(d, verb[v].bytes \cup {p}, row.ver + 1,
                      [row.props EXCEPT ![p] = "accepted"])
             /\ Step(v, "write")
          \/ /\ row.props[p] = "pending" /\ SaveChecked(d, row.ver)
             /\ Saved(d, row.head, row.ver, row.props)
             /\ Done(v)
    /\ UNCHANGED <<everOpened, given, kept, scoped, paper, touches, accepted, drifted, mistaken>>

AcceptWrites(v) ==
    /\ verb[v].pc = "write" /\ verb[v].box = scoped
    /\ paper' = [paper EXCEPT ![verb[v].box] = verb[v].bytes \cup {verb[v].prop}]
    /\ accepted' = IF verb[v].doc \in Open THEN accepted \cup {<<verb[v].doc, verb[v].prop>>}
                   ELSE accepted
    /\ Step(v, "snap")
    /\ UNCHANGED <<docs, everOpened, given, kept, scoped, touches, drifted, mistaken>>

\* A write that fails is undone in the row, over its own version only.
AcceptReverts(v) ==
    /\ verb[v].pc = "write"
    /\ LET d == verb[v].doc
           row == verb[v].row
       IN IF SaveChecked(d, row.ver + 1)
          THEN /\ Saved(d, row.head, row.ver, row.props)
               /\ mistaken' = (mistaken \/ \E w \in Verbs \ {v} :
                                  verb[w].pc # "none" /\ verb[w].doc = d
                                     /\ verb[w].row.ver = row.ver + 1)
               /\ UNCHANGED drifted
          ELSE drifted' = TRUE /\ UNCHANGED <<docs, mistaken>>
    /\ Done(v)
    /\ UNCHANGED <<everOpened, given, kept, scoped, paper, touches, accepted>>

AcceptKept(v) ==
    /\ verb[v].pc = "snap"
    /\ Snapshot(verb[v].doc, verb[v].row.ver + 1, verb[v].bytes \cup {verb[v].prop})
    /\ Done(v)
    /\ UNCHANGED <<docs, everOpened, given, scoped, paper, touches, drifted, mistaken, accepted>>

\* open where the path has no session: the file read, then the row inserted
\* (one row a path and computer).
OpenReads(v) ==
    /\ verb[v] = NoVerb /\ DocAt(scoped) = {} /\ paper[scoped] # Absent
    /\ verb' = [verb EXCEPT ![v] = [pc |-> "insert", what |-> "open", prop |-> 0, doc |-> 0,
                                    row |-> NoDoc, bytes |-> paper[scoped], box |-> scoped]]
    /\ UNCHANGED <<docs, everOpened, given, kept, scoped, paper, touches, drifted, mistaken, accepted>>

OpenInserts(v) ==
    /\ verb[v].pc = "insert" /\ everOpened < MaxDocs
    /\ IF DocAt(verb[v].box) # {} THEN UNCHANGED <<docs, everOpened, kept, drifted>>
       ELSE LET d == everOpened + 1
            IN /\ everOpened' = d
               /\ docs' = [docs EXCEPT ![d] = [box |-> verb[v].box, head |-> verb[v].bytes,
                                               ver |-> 0, props |-> Blank]]
               /\ Snapshot(d, 0, verb[v].bytes)
               /\ drifted' = (drifted \/ paper[verb[v].box] # verb[v].bytes)
    /\ Done(v)
    /\ UNCHANGED <<given, scoped, paper, touches, mistaken, accepted>>

\* close_doc_session
Close(d) ==
    /\ d \in Open
    /\ docs' = [docs EXCEPT ![d] = NoDoc]
    /\ accepted' = {a \in accepted : a[1] # d}
    /\ drifted' = (drifted \/ \E v \in Verbs : verb[v].pc \in {"restore", "repoint", "write"})
    /\ UNCHANGED <<everOpened, given, kept, scoped, paper, verb, touches, mistaken>>

-----------------------------------------------------------------------------
(* Outside the tools. *)

\* A person edits the file, puts an old copy back, or makes one there.
Touched ==
    /\ touches < MaxTouches /\ touches' = touches + 1
    /\ \/ paper' = [paper EXCEPT ![scoped] = (@ \ Absent) \cup {100 + touches}]
       \/ \E k \in kept : paper' = [paper EXCEPT ![scoped] = k[3]]
    /\ drifted' = TRUE
    /\ UNCHANGED <<docs, everOpened, given, kept, scoped, verb, mistaken, accepted>>

\* The computer is reset (a new one, empty) or rebuilt on its disk, with its
\* sessions moved (move_doc_sessions_box).
Replaced ==
    /\ touches < MaxTouches /\ touches' = touches + 1
    /\ scoped' = scoped + 1
    /\ \/ UNCHANGED <<docs, paper>>
       \/ /\ paper' = [paper EXCEPT ![scoped + 1] = paper[scoped]]
          /\ docs' = [d \in DocIds |-> IF d \in DocAt(scoped) THEN [docs[d] EXCEPT !.box = scoped + 1]
                                       ELSE docs[d]]
    /\ UNCHANGED <<everOpened, given, kept, verb, drifted, mistaken, accepted>>

\* The server stops under a verb.
VerbLost(v) ==
    /\ verb[v].pc \in {"write", "repoint"}
    /\ drifted' = (drifted \/ verb[v].pc = "write")
    /\ Done(v)
    /\ UNCHANGED <<docs, everOpened, given, kept, scoped, paper, touches, mistaken, accepted>>

OfficeNext ==
    \/ \E v \in Verbs, d \in DocIds, p \in Proposals :
          \E what \in {"propose", "accept", "reject"} : VerbBegins(v, what, p, d)
    \/ \E v \in Verbs, d \in DocIds, what \in {"read", "adopt"} : VerbBegins(v, what, 0, d)
    \/ \E v \in Verbs :
          \/ RehydrateLooks(v) \/ RehydrateWrites(v) \/ Repointed(v)
          \/ Freshened(v) \/ Rebased(v)
          \/ Looked(v) \/ Proposed(v) \/ Rejected(v)
          \/ AcceptClaims(v) \/ AcceptWrites(v) \/ AcceptReverts(v) \/ AcceptKept(v)
          \/ OpenReads(v) \/ OpenInserts(v) \/ VerbLost(v)
    \/ \E d \in DocIds : Close(d)
    \/ Touched \/ Replaced

OfficeSpec == OfficeInit /\ [][OfficeNext]_officeVars

-----------------------------------------------------------------------------
(* A proposal whose accept wrote the file stays accepted and is in the head the *)
(* session holds, and with nobody writing the file is that head: whatever  *)
(* verbs race, fail half way or crash, while only the tools touched it     *)
(* (accept, fresh, save_doc_session).                                      *)
AcceptedStands ==
    ~mistaken =>
       /\ \A a \in accepted :
             a[1] \in Open => docs[a[1]].props[a[2]] = "accepted" /\ a[2] \in docs[a[1]].head
       /\ \A d \in Open :
             (~drifted /\ docs[d].box = scoped /\ ~\E v \in Verbs : verb[v].pc = "write")
                => paper[scoped] = docs[d].head

(* "Two calls mutating one session cannot both succeed": a proposal that   *)
(* was answered as rejected is never applied by an accept that had read    *)
(* the list before (save_doc_session, Ask::Reject).                        *)
RejectedStays ==
    [][\A d \in DocIds, p \in Proposals :
          (d \in Open /\ docs[d].props[p] = "rejected")
             => (docs'[d] = NoDoc \/ docs'[d].props[p] = "rejected")]_officeVars
=============================================================================
