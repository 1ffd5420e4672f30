---------------------------- MODULE Attachments ----------------------------
(***************************************************************************)
(* Files a person sends: kept as artifacts (server/src/artifacts.rs,       *)
(* store/src/postgres/artifacts.rs) and resolved for the turn they come    *)
(* with (server/src/agui/attachments.rs).  A picture or a text goes into   *)
(* the request; an Office file is staged on the coworker's computer, where *)
(* it becomes a document other turns edit while the same artifact is sent  *)
(* again.                                                                  *)
(*                                                                         *)
(* The document at a staged path is its content, a number: 0 is the bytes  *)
(* of the upload, n > 0 what the n-th edit left.                           *)
(***************************************************************************)
EXTENDS Naturals, FiniteSets

CONSTANTS
    Artifacts,    \* artifact ids
    Owners,       \* accounts
    Sends,        \* turns that carry a file
    MaxImages,    \* pictures one turn may carry
    MaxEdits,     \* bound: edits of a staged document
    MaxDocV       \* bound: versions of its session

ASSUME AttachmentsAssumption ==
    /\ MaxImages \in Nat /\ MaxEdits \in 0..99 /\ MaxDocV \in 0..99
    /\ 0 \notin Artifacts

VARIABLES
    arts,     \* per artifact: [owner, type, gone, mark]; mark is the version the upload is
    doc,      \* per artifact: the file on the computer, or NoPlace
    session,  \* per artifact: [ver, hash], or NoRow
    sends,    \* per turn: [pc, who, art, seen, images, told]
    edits,    \* edits made so far
    was       \* per artifact: what each version of its session held

attachVars == <<arts, doc, session, sends, edits, was>>

NoPlace == 100     \* no file at the path
NoRow == [ver |-> 100, hash |-> 0]
NoArt == [owner |-> "none", type |-> "none", gone |-> FALSE, mark |-> 100]
NoSend == [pc |-> "none", who |-> "none", art |-> 0, seen |-> NoRow, images |-> 0, told |-> "none"]
Types == {"office", "image", "text"}

\* What the store's reads see: a row that was not deleted.
Readable(a) == arts[a].type # "none" /\ ~arts[a].gone

-----------------------------------------------------------------------------
(* Artifacts.                                                              *)

\* POST /artifacts: a file of an accepted type; what would make it look like a
\* document's version is taken out of what the client says of it.
CreateArtifact(a, who, type) ==
    /\ arts[a] = NoArt
    /\ arts' = [arts EXCEPT ![a] = [NoArt EXCEPT !.owner = who, !.type = type]]
    /\ UNCHANGED <<doc, session, sends, edits, was>>

\* DELETE /artifacts/{id}: the owner's, and only what is not deleted.
RemoveArtifact(a, who) ==
    /\ Readable(a) /\ arts[a].owner = who
    /\ arts' = [arts EXCEPT ![a].gone = TRUE]
    /\ UNCHANGED <<doc, session, sends, edits, was>>

-----------------------------------------------------------------------------
(* A turn with a file.                                                     *)

\* refuse_unowned: a turn that names a file which is not the sender's is not started.
SendsFile(t, who, a) ==
    /\ sends[t].pc = "none"
    /\ Readable(a) /\ arts[a].owner = who
    /\ sends' = [sends EXCEPT ![t] = [NoSend EXCEPT !.pc = "resolve", !.who = who, !.art = a]]
    /\ UNCHANGED <<arts, doc, session, edits, was>>

\* What the model is given of a file that is not staged: a picture while the turn has
\* room for one, the words of a text, and a sentence for the rest.
ReadFile(t, type, room) ==
    CASE type = "image" /\ room -> [sends[t] EXCEPT !.pc = "done", !.images = @ + 1, !.told = "shown"]
      [] type = "text" -> [sends[t] EXCEPT !.pc = "done", !.told = "shown"]
      [] OTHER -> [sends[t] EXCEPT !.pc = "done", !.told = "named"]

\* resolve: the bytes are read again, and a file deleted since the turn was taken is
\* left out; an Office file goes to the coworker's computer when it has one.
Resolves(t) ==
    LET a == sends[t].art IN
    /\ sends[t].pc = "resolve"
    /\ \/ /\ ~Readable(a)
          /\ sends' = [sends EXCEPT ![t].pc = "done", ![t].told = "left out"]
       \/ /\ Readable(a) /\ arts[a].type # "office"
          /\ sends' = [sends EXCEPT ![t] = ReadFile(t, arts[a].type, sends[t].images < MaxImages)]
       \/ /\ Readable(a) /\ arts[a].type = "office"
          /\ \E computer \in BOOLEAN :
                sends' = [sends EXCEPT ![t] = IF computer THEN [@ EXCEPT !.pc = "stage"]
                                              ELSE ReadFile(t, "office", FALSE)]
    /\ UNCHANGED <<arts, doc, session, edits, was>>

KeepsNothing(a) == FALSE
\* A session whose file is there.
KeepsDocument(a) == session[a] # NoRow /\ doc[a] # NoPlace

\* stage: the session at the path is the document; while its file is there the upload
\* changes nothing, and a computer that cannot say is not one that lost it.
LooksForSession(t) ==
    LET a == sends[t].art IN
    /\ sends[t].pc = "stage"
    /\ sends' = [sends EXCEPT ![t] =
            IF KeepsDocument(a)
            THEN [@ EXCEPT !.pc = "done", !.told = "kept"]
            ELSE [@ EXCEPT !.pc = "write", !.seen = session[a]]]
    /\ UNCHANGED <<arts, doc, session, edits, was>>
\* ... or the computer could not be woken, or could not say.
StageFails(t) ==
    /\ sends[t].pc \in {"stage", "write"}
    /\ sends' = [sends EXCEPT ![t].pc = "done", ![t].told = "not placed"]
    /\ UNCHANGED <<arts, doc, session, edits, was>>

StageWrites(t) ==
    /\ sends[t].pc = "write"
    /\ doc' = [doc EXCEPT ![sends[t].art] = 0]
    /\ sends' = [sends EXCEPT ![t].pc = "row"]
    /\ UNCHANGED <<arts, session, edits, was>>

\* The row of the path: the one that was seen, a new one, or the winner's.
StageRow(t) ==
    LET a == sends[t].art
        fresh == [ver |-> 0, hash |-> 0]
    IN /\ sends[t].pc = "row"
       /\ \/ /\ sends[t].seen # NoRow
             /\ sends' = [sends EXCEPT ![t].pc = "hash"]
             /\ UNCHANGED <<session, was>>
          \/ /\ sends[t].seen = NoRow /\ session[a] = NoRow
             /\ session' = [session EXCEPT ![a] = fresh]
             /\ was' = [was EXCEPT ![a][0] = 0]
             /\ sends' = [sends EXCEPT ![t].pc = "hash", ![t].seen = fresh]
          \/ /\ sends[t].seen = NoRow /\ session[a] # NoRow
             /\ sends' = [sends EXCEPT ![t].pc = "hash", ![t].seen = session[a]]
             /\ UNCHANGED <<session, was>>
       /\ UNCHANGED <<arts, doc, edits>>

\* save_doc_session: at the version that was read, or not at all.
SavesAt(a, ver) == session[a].ver = ver

\* The row's hash is brought to the bytes on disk, and the upload is marked as the
\* version it is.
StageHash(t) ==
    LET a == sends[t].art
        seen == sends[t].seen
    IN /\ sends[t].pc = "hash"
       /\ seen.ver < MaxDocV
       /\ IF seen.hash = 0
          THEN /\ sends' = [sends EXCEPT ![t].pc = "done", ![t].told = "placed"]
               /\ arts' = [arts EXCEPT ![a].mark = IF arts[a].gone THEN @ ELSE seen.ver]
               /\ UNCHANGED <<session, was>>
          ELSE IF SavesAt(a, seen.ver)
               THEN /\ session' = [session EXCEPT ![a] = [ver |-> seen.ver + 1, hash |-> 0]]
                    /\ was' = [was EXCEPT ![a][seen.ver + 1] = 0]
                    /\ arts' = [arts EXCEPT ![a].mark = IF arts[a].gone THEN @ ELSE seen.ver + 1]
                    /\ sends' = [sends EXCEPT ![t].pc = "done", ![t].told = "placed"]
               ELSE /\ sends' = [sends EXCEPT ![t].pc = "done", ![t].told = "not placed"]
                    /\ UNCHANGED <<arts, session, was>>
       /\ UNCHANGED <<doc, edits>>

SendOver(t) ==
    /\ sends[t].pc = "done"
    /\ sends' = [sends EXCEPT ![t] = NoSend]
    /\ UNCHANGED <<arts, doc, session, edits, was>>

-----------------------------------------------------------------------------
\* A coworker's accepted change (Office.tla has its steps): the file and its row.
Accepted(a) ==
    /\ edits < MaxEdits
    /\ session[a] # NoRow /\ session[a].ver < MaxDocV
    /\ doc[a] # NoPlace /\ doc[a] = session[a].hash
    /\ edits' = edits + 1
    /\ doc' = [doc EXCEPT ![a] = edits + 1]
    /\ session' = [session EXCEPT ![a] = [ver |-> @.ver + 1, hash |-> edits + 1]]
    /\ was' = [was EXCEPT ![a][session[a].ver + 1] = edits + 1]
    /\ UNCHANGED <<arts, sends>>
\* The computer is reset.
FileLost(a) ==
    /\ doc[a] # NoPlace
    /\ doc' = [doc EXCEPT ![a] = NoPlace]
    /\ UNCHANGED <<arts, session, sends, edits, was>>

AttachInit ==
    /\ arts = [a \in Artifacts |-> NoArt]
    /\ doc = [a \in Artifacts |-> NoPlace]
    /\ session = [a \in Artifacts |-> NoRow]
    /\ sends = [t \in Sends |-> NoSend]
    /\ edits = 0
    /\ was = [a \in Artifacts |-> [v \in 0..MaxDocV |-> NoPlace]]

AttachNext ==
    \/ \E a \in Artifacts, who \in Owners :
          (\E type \in Types : CreateArtifact(a, who, type)) \/ RemoveArtifact(a, who)
    \/ \E t \in Sends : (\E who \in Owners, a \in Artifacts : SendsFile(t, who, a))
          \/ Resolves(t) \/ LooksForSession(t) \/ StageFails(t) \/ StageWrites(t)
          \/ StageRow(t) \/ StageHash(t) \/ SendOver(t)
    \/ \E a \in Artifacts : Accepted(a) \/ FileLost(a)

AttachSpec == AttachInit /\ [][AttachNext]_attachVars

-----------------------------------------------------------------------------
\* The row of a document that is there holds the bytes that are there, or the first
\* look at it would be taken for drift somebody caused, and the version an upload is
\* marked as is one whose bytes are the upload's.
RowIsRight(a) ==
    /\ arts[a].mark # 100 => was[a][arts[a].mark] = 0
    /\ (/\ session[a] # NoRow /\ doc[a] # NoPlace
        /\ \A t \in Sends : sends[t].pc \notin {"row", "hash"})
       => session[a].hash = doc[a]

\* A file sent again, after any number of accepted changes, a lost computer or a delete,
\* never replaces accepted work that is there, and leaves the document's row right:
\* stage writes only where there is no file, and brings the row to what it wrote.
EditsSurvive ==
    [][\A a \in Artifacts :
          (doc[a] \in 1..MaxEdits => doc'[a] # 0) /\ RowIsRight(a)']_attachVars
=============================================================================
