------------------------------- MODULE Skills -------------------------------
(***************************************************************************)
(* Skills: written by their owner or taught from a recording, versioned,   *)
(* renamed, switched on and off and deleted; attached to a coworker from   *)
(* two tabs; offered to turns and read by them, by the owner and by a      *)
(* colleague who may leave the organisation.                               *)
(***************************************************************************)
EXTENDS Naturals, FiniteSets

CONSTANTS SkillIds,     \* skills ever made: 1, 2, ..
          SkillNames,
          SkillReqs,    \* requests under way
          MaxVersions,  \* bound: versions of a skill
          MaxAttaches   \* bound: the attached set's version

ASSUME SkillsAssumption == SkillIds \subseteq Nat /\ MaxVersions \in Nat /\ MaxAttaches \in Nat

VARIABLES skills,     \* skill: id -> [name, on, gone, taught, top] or NoSkill
          member,     \* the colleague is in the owner's organisation
          teaching,   \* WRITING_A_LESSON: the request that reads a recording
          attached,   \* coworker_skill_set: [ids, ver]
          skillReq,   \* requests under way
          switched,   \* history: skills their owner wrote or switched on
          misgiven,   \* history: a turn was handed what it should not have been
          overwrote   \* history: an attach replaced a set its tab had not seen

skillVars == <<skills, member, teaching, attached, skillReq, switched, misgiven, overwrote>>

NoSkill == [top |-> 0, name |-> "none"]
NoSkillReq == [pc |-> "none"]
SkillRows == {s \in SkillIds : skills[s] # NoSkill}
LiveSkills == {s \in SkillRows : ~skills[s].gone}

SkillInit ==
    /\ skills = [s \in SkillIds |-> NoSkill] /\ member = TRUE /\ teaching = {}
    /\ attached = [ids |-> {}, ver |-> 0]
    /\ skillReq = [r \in SkillReqs |-> NoSkillReq]
    /\ switched = {} /\ misgiven = FALSE /\ overwrote = FALSE

SkillReqTo(r, rec) == skillReq' = [skillReq EXCEPT ![r] = rec]
SkillReqAt(r, pc) == skillReq[r].pc = pc
SkillReqEnds(r) == SkillReqTo(r, NoSkillReq)

-----------------------------------------------------------------------------
(* Who may do what. *)

\* relation_to, may: the owner anything, a colleague read and invoke what is
\* on and was shared with the organisation.
MayInvoke(who, s) == who = "owner" \/ (member /\ skills[s].on)

\* for_turn's gates on the row.
Usable(who, s) == MayInvoke(who, s) /\ ~skills[s].gone /\ skills[s].on /\ skills[s].top > 0

-----------------------------------------------------------------------------
(* Writing. *)

NameFree(n, s) == \A o \in LiveSkills \ {s} : skills[o].name # n

\* Two rows of one name.
NameAnyway(n, s) == TRUE

\* The index on the owner and the name of live skills.
NameIndex(n, s) == NameFree(n, s)

NextSkill(s) == s \in SkillIds \ SkillRows /\ \A o \in SkillIds \ SkillRows : s <= o

\* create, from_tape: the name looked up first.  A recording is read one at
\* a time, and the lesson takes long.
CreateBegins(r, n, taught) ==
    /\ skillReq[r] = NoSkillReq /\ NameFree(n, 0)
    /\ taught => teaching = {}
    /\ teaching' = IF taught THEN {r} ELSE teaching
    /\ SkillReqTo(r, [pc |-> "create", name |-> n, taught |-> taught])
    /\ UNCHANGED <<skills, member, attached, switched, misgiven, overwrote>>

\* A lesson that is on from the start.
TaughtOn(taught) == TRUE

\* A taught skill waits, switched off, for its owner.
CreatedOn(taught) == ~taught

\* create_skill, with its first version or (authored only) as a draft.
CreateLands(r, s, top) ==
    /\ SkillReqAt(r, "create") /\ NextSkill(s)
    /\ skillReq[r].taught => top = 1
    /\ IF NameIndex(skillReq[r].name, s)
       THEN /\ skills' = [skills EXCEPT ![s] = [name |-> skillReq[r].name, gone |-> FALSE, top |-> top,
                                                on |-> CreatedOn(skillReq[r].taught)]]
            /\ switched' = IF skillReq[r].taught THEN switched ELSE switched \cup {s}
       ELSE UNCHANGED <<skills, switched>>
    /\ teaching' = teaching \ {r}
    /\ SkillReqEnds(r)
    /\ UNCHANGED <<member, attached, misgiven, overwrote>>

\* The lesson fails, its fence never closes, the model is out of money: the
\* recording is kept.
LessonFails(r) ==
    /\ SkillReqAt(r, "create") /\ skillReq[r].taught
    /\ teaching' = teaching \ {r}
    /\ SkillReqEnds(r)
    /\ UNCHANGED <<skills, member, attached, switched, misgiven, overwrote>>

\* update: the row read and the request laid over it ..
UpdateReads(r, s, n, on) ==
    /\ skillReq[r] = NoSkillReq /\ s \in LiveSkills
    /\ LET name == IF n = "same" THEN skills[s].name ELSE n
       IN /\ NameFree(name, s)
          /\ SkillReqTo(r, [pc |-> "update", skill |-> s, name |-> name, asked |-> on,
                     on |-> IF on = "same" THEN skills[s].on ELSE on = "on"])
    /\ UNCHANGED <<skills, member, teaching, attached, switched, misgiven, overwrote>>

\* .. then written whole (update_skill, with approved_at_ms).
UpdateWrites(r) ==
    /\ SkillReqAt(r, "update")
    /\ LET s == skillReq[r].skill
       IN IF NameIndex(skillReq[r].name, s)
          THEN /\ skills' = [skills EXCEPT ![s].name = skillReq[r].name, ![s].on = skillReq[r].on]
               /\ switched' = IF skillReq[r].asked = "on" THEN switched \cup {s} ELSE switched
          ELSE UNCHANGED <<skills, switched>>
    /\ SkillReqEnds(r)
    /\ UNCHANGED <<member, teaching, attached, misgiven, overwrote>>

\* soft_delete_skill
SoftDelete(s) ==
    /\ s \in LiveSkills
    /\ skills' = [skills EXCEPT ![s].gone = TRUE]
    /\ UNCHANGED <<member, teaching, attached, skillReq, switched, misgiven, overwrote>>

\* add_skill_version: the next number, under the skill's lock.
AddVersion(s) ==
    /\ s \in LiveSkills /\ skills[s].top < MaxVersions
    /\ skills' = [skills EXCEPT ![s].top = @ + 1]
    /\ UNCHANGED <<member, teaching, attached, skillReq, switched, misgiven, overwrote>>

\* The colleague leaves the organisation, or joins it.
Moves ==
    /\ member' = ~member
    /\ UNCHANGED <<skills, teaching, attached, skillReq, switched, misgiven, overwrote>>

-----------------------------------------------------------------------------
(* Attaching to a coworker: a tab reads the set and sends one back. *)

AttachReads(r) ==
    /\ skillReq[r] = NoSkillReq
    /\ SkillReqTo(r, [pc |-> "attach", seen |-> attached])
    /\ UNCHANGED <<skills, member, teaching, attached, switched, misgiven, overwrote>>

\* The number stays whatever the set.
VersionStays(ids) == attached.ver

\* set_coworker_skills: a set that differs counts up.
VersionAfter(ids) == IF ids = attached.ids THEN attached.ver ELSE attached.ver + 1

AttachSaves(r, ids) ==
    /\ SkillReqAt(r, "attach") /\ ids \subseteq LiveSkills
    /\ VersionAfter(ids) <= MaxAttaches
    /\ IF skillReq[r].seen.ver = attached.ver
       THEN /\ attached' = [ids |-> ids, ver |-> VersionAfter(ids)]
            /\ overwrote' = (overwrote \/ skillReq[r].seen.ids # attached.ids)
       ELSE UNCHANGED <<attached, overwrote>>
    /\ SkillReqEnds(r)
    /\ UNCHANGED <<skills, member, teaching, switched, misgiven>>

-----------------------------------------------------------------------------
(* Turns. *)

\* offered: what is attached and usable now, one skill a name; the owner's own
\* first.  A run keeps what it was offered (onto_captured).
TurnOffered(r, who, s) ==
    /\ skillReq[r] = NoSkillReq
    /\ s \in attached.ids /\ Usable(who, s)
    /\ SkillReqTo(r, [pc |-> "offered", skill |-> s, who |-> who])
    /\ UNCHANGED <<skills, member, teaching, attached, switched, misgiven, overwrote>>

\* What was offered is taken as still good.
AsOffered(who, s) == TRUE

\* for_turn, when the model asks for it: the gates again, then the newest body.
StillUsable(who, s) == Usable(who, s)

TurnReads(r) ==
    /\ SkillReqAt(r, "offered")
    /\ LET s == skillReq[r].skill
       IN IF StillUsable(skillReq[r].who, s)
          THEN SkillReqTo(r, [pc |-> "files", skill |-> s, body |-> skills[s].top,
                       fit |-> Usable(skillReq[r].who, s)])
          ELSE SkillReqEnds(r)
    /\ UNCHANGED <<skills, member, teaching, attached, switched, misgiven, overwrote>>

\* The newest files.
NewestFiles(r) == skills[skillReq[r].skill].top

\* files_line_for_turn: the files of the version whose body was read.
FilesOf(r) == skillReq[r].body

TurnGiven(r) ==
    /\ SkillReqAt(r, "files")
    /\ misgiven' = (misgiven \/ ~skillReq[r].fit \/ FilesOf(r) # skillReq[r].body
                      \/ skillReq[r].skill \notin switched)
    /\ SkillReqEnds(r)
    /\ UNCHANGED <<skills, member, teaching, attached, switched, overwrote>>

SkillNext ==
    \/ \E r \in SkillReqs :
          \/ \E n \in SkillNames, t \in BOOLEAN : CreateBegins(r, n, t)
          \/ \E s \in SkillIds, top \in {0, 1} : CreateLands(r, s, top)
          \/ LessonFails(r)
          \/ \E s \in SkillIds, n \in SkillNames \cup {"same"}, on \in {"on", "off", "same"} :
                UpdateReads(r, s, n, on)
          \/ UpdateWrites(r)
          \/ AttachReads(r) \/ \E ids \in SUBSET SkillIds : AttachSaves(r, ids)
          \/ \E who \in {"owner", "colleague"}, s \in SkillIds : TurnOffered(r, who, s)
          \/ TurnReads(r) \/ TurnGiven(r)
    \/ \E s \in SkillIds : SoftDelete(s) \/ AddVersion(s)
    \/ Moves

SkillSpec == SkillInit /\ [][SkillNext]_skillVars

-----------------------------------------------------------------------------
(* A turn is handed a skill only as it stands when the model asks for it,  *)
(* not as it was offered: live, on, that reader's to use, the files of the *)
(* body's own version, and never a taught one its owner has not switched   *)
(* on (for_turn, files_line_for_turn, from_tape).                          *)
HandedAsItStands == ~misgiven

(* Two live skills of the owner never share a name, whatever creates,      *)
(* lessons and renames race, and no attach replaces a set its tab had not  *)
(* seen (the index on skill, set_coworker_skills).                         *)
NamesAndSetsHold ==
    /\ \A s, o \in LiveSkills : skills[s].name = skills[o].name => s = o
    /\ ~overwrote

(* What holds of skills: what a turn is handed, and what a race may not    *)
(* leave behind.                                                           *)
SkillsHold == HandedAsItStands /\ NamesAndSetsHold
=============================================================================
