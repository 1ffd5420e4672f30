----------------------------- MODULE Computers ------------------------------
(***************************************************************************)
(* The computer of one scope (an org, an account or a bot): its row in     *)
(* scoped_computer, the boxes and disks at the provider, and the requests  *)
(* that make, heal, update, reset, stop and use it, all at once.           *)
(***************************************************************************)
EXTENDS Naturals, FiniteSets

CONSTANTS BoxIds,       \* boxes the provider may make: 1, 2, ..
          BoxJobs,      \* requests and tasks under way
          MaxResets     \* bound: resets

ASSUME ComputersAssumption == BoxIds \subseteq Nat \ {0} /\ MaxResets \in Nat

VARIABLES
    slot,       \* scoped_computer: the scope's box, or 0
    update,     \* box_update: none, on, stale or failed
    boxes,      \* at the provider: absent, running, stopped
    disk,       \* the disk each box was made on
    wiped,      \* disks removed with their box
    job,        \* jobs under way
    resets,
    files,      \* history: the disk that holds the person's files, or 0
    left,       \* history: boxes whose claim could not be recorded: logged
    excused     \* history: an update began whose guard a heal had already passed
                \* or beside another, one went stale, or a reset ended the guard
                \* of one that had begun meanwhile

boxVars == <<slot, update, boxes, disk, wiped, job, resets, files, left, excused>>

NoBox == 0
NoJob == [pc |-> "none", old |-> NoBox, new |-> NoBox]
Made == {b \in BoxIds : disk[b] # 0}
Exists(b) == b \in BoxIds /\ boxes[b] # "absent"

BoxInit ==
    /\ slot = NoBox /\ update = "none"
    /\ boxes = [b \in BoxIds |-> "absent"]
    /\ disk = [b \in BoxIds |-> 0]
    /\ wiped = {} /\ resets = 0 /\ files = 0 /\ left = {} /\ excused = FALSE
    /\ job = [j \in BoxJobs |-> NoJob]

At(j, pc) == job[j].pc = pc
To(j, pc) == job' = [job EXCEPT ![j].pc = pc]
JobEnds(j) == job' = [job EXCEPT ![j] = NoJob]
Begins(j, pc, box) == job' = [job EXCEPT ![j] = [pc |-> pc, old |-> box, new |-> NoBox]]

\* updating: an update neither failed nor stale.
Updating == update = "on"

\* set_box_update_phase: the update moved, where its row still is.
UpdateMoves == update' = IF update = "none" THEN "none" ELSE "on"
\* fail: recorded where the row still is.
UpdateFails == update' = IF update = "none" THEN "none" ELSE "failed"

\* docker create: the next id, on a disk of its own or on the old box's, which
\* is made anew (and empty) where it is gone.
Create(b, d) ==
    /\ b \in BoxIds \ Made /\ \A c \in BoxIds \ Made : b <= c
    /\ boxes' = [boxes EXCEPT ![b] = "running"]
    /\ disk' = [disk EXCEPT ![b] = d]
    /\ wiped' = wiped \ {d}

\* Computer::discard: the box goes, its disk stays.
Discard(b) == boxes' = [boxes EXCEPT ![b] = "absent"] /\ UNCHANGED wiped

\* Computer::resume
Resumed(b) == boxes' = IF Exists(b) THEN [boxes EXCEPT ![b] = "running"] ELSE boxes

\* Computer::destroy: the box and, unless another box still mounts it, its disk.
Destroy(b) ==
    /\ boxes' = [boxes EXCEPT ![b] = "absent"]
    /\ wiped' = IF Exists(b) /\ \A c \in BoxIds \ {b} : Exists(c) => disk[c] # disk[b]
                THEN wiped \cup {disk[b]} ELSE wiped

-----------------------------------------------------------------------------
(* ensure_scope_box: a hire, POST computer, a warm-up, a reset's second half. *)

EnsureRead(j) ==
    /\ \/ job[j] = NoJob
       \/ At(j, "ensure")
    /\ Begins(j, IF slot = NoBox THEN "create" ELSE "guard", slot)
    /\ UNCHANGED <<slot, update, boxes, disk, wiped, resets, files, left, excused>>

\* A heal that does not look at the update.
EnsureUnguarded(j) ==
    /\ At(j, "guard")
    /\ To(j, "probe")
    /\ UNCHANGED <<slot, update, boxes, disk, wiped, resets, files, left, excused>>

EnsureGuarded(j) ==
    /\ At(j, "guard")
    /\ IF Updating THEN JobEnds(j) ELSE To(j, "probe")
    /\ UNCHANGED <<slot, update, boxes, disk, wiped, resets, files, left, excused>>

\* box_is_gone
EnsureProbed(j) ==
    /\ At(j, "probe")
    /\ IF Exists(job[j].old) THEN JobEnds(j) ELSE To(j, "clear")
    /\ UNCHANGED <<slot, update, boxes, disk, wiped, resets, files, left, excused>>

\* clear_scoped_computer: only while the scope still names that box.
Cleared(old) == IF slot = old THEN NoBox ELSE slot

EnsureCleared(j) ==
    /\ At(j, "clear")
    /\ slot' = Cleared(job[j].old)
    /\ Begins(j, "create", NoBox)
    /\ UNCHANGED <<update, boxes, disk, wiped, resets, files, left, excused>>

EnsureCreated(j) ==
    /\ At(j, "create")
    /\ \/ \* the provider refuses
          JobEnds(j) /\ UNCHANGED <<boxes, disk, wiped>>
       \/ \E b \in BoxIds :
             /\ Create(b, b)
             /\ job' = [job EXCEPT ![j] = [pc |-> "claim", old |-> NoBox, new |-> b]]
    /\ UNCHANGED <<slot, update, resets, files, left, excused>>

\* An update of the scope's box is on its way to the claim.
Rebuilding(k) ==
    \/ At(k, "rebuild")
    \/ job[k].pc \in {"pulled", "recreate", "drop", "claim"} /\ job[k].old # NoBox /\ job[k].old = slot

\* An upsert: the later of two creates takes the scope.
ClaimTaken(old) == TRUE

\* claim_scoped_computer: in place of the box it replaces while the scope
\* names that one, else only into a scope with none.
ClaimWins(old) == slot = old

\* A box that lost its scope is left running.
LoserLeft(j) == UNCHANGED <<boxes, wiped>>

\* A rebuilt box is discarded, any other destroyed.
LoserRemoved(j) ==
    IF job[j].old # NoBox THEN Discard(job[j].new) ELSE Destroy(job[j].new)

\* claim, with the removal of a box that lost.  A write that fails leaves the
\* box running and logs it.
BoxClaimed(j) ==
    /\ At(j, "claim")
    /\ \/ /\ ClaimWins(job[j].old)
          /\ slot' = job[j].new
          /\ files' = IF files = 0 THEN disk[job[j].new] ELSE files
          /\ IF job[j].old # NoBox THEN Begins(j, "starting", NoBox) /\ UpdateMoves
                                   ELSE JobEnds(j) /\ UNCHANGED update
          /\ UNCHANGED <<boxes, wiped, left>>
       \/ /\ ~ClaimWins(job[j].old)
          /\ LoserRemoved(j)
          /\ JobEnds(j)
          /\ IF job[j].old # NoBox THEN UpdateFails ELSE UNCHANGED update
          /\ UNCHANGED <<slot, files, left>>
       \/ /\ left' = left \cup {job[j].new}
          /\ files' = IF job[j].old # NoBox /\ disk[job[j].new] = files THEN 0 ELSE files
          /\ IF job[j].old # NoBox THEN UpdateFails ELSE UNCHANGED update
          /\ JobEnds(j)
          /\ UNCHANGED <<slot, boxes, wiped>>
    /\ UNCHANGED <<disk, resets, excused>>

-----------------------------------------------------------------------------
(* The update. *)

\* begin_update_for_coworker: refused while one is under way; the read and
\* the unconditional write of the phase are two statements.
UpdateAsked(j) ==
    /\ job[j] = NoJob /\ slot # NoBox /\ ~Updating
    /\ Begins(j, "begin", NoBox)
    /\ UNCHANGED <<slot, update, boxes, disk, wiped, resets, files, left, excused>>

UpdateBegun(j) ==
    /\ At(j, "begin")
    /\ update' = "on"
    /\ excused' = \/ excused
                  \/ \E k \in BoxJobs \ {j} :
                        \/ job[k].pc \in {"probe", "clear", "rebuild", "pulled", "recreate", "drop", "starting"}
                        \/ At(k, "claim") /\ job[k].old # NoBox
    /\ To(j, "rebuild")
    /\ UNCHANGED <<slot, boxes, disk, wiped, resets, files, left>>

\* update_scope_box: the row, then the pull, which may fail; a heal looks at the
\* guard meanwhile and a reset may end it.
UpdateRead(j) ==
    /\ At(j, "rebuild")
    /\ \/ slot # NoBox /\ Begins(j, "pulled", slot) /\ UNCHANGED update
       \/ JobEnds(j) /\ UpdateFails
    /\ UNCHANGED <<slot, boxes, disk, wiped, resets, files, left, excused>>

\* .. recreate's stop of the box that was read, or a failure before it and the
\* box is resumed.
UpdateStopped(j) ==
    /\ At(j, "pulled")
    /\ \/ /\ Exists(job[j].old)
          /\ boxes' = [boxes EXCEPT ![job[j].old] = "stopped"]
          /\ To(j, "recreate") /\ UpdateMoves
       \/ JobEnds(j) /\ UpdateFails /\ Resumed(job[j].old)
    /\ UNCHANGED <<slot, disk, wiped, resets, files, left, excused>>

\* .. the new box on the old one's disk, or on the way to it a failure, and
\* the old box is resumed.
UpdateRecreated(j) ==
    /\ At(j, "recreate")
    /\ LET old == job[j].old IN
          \/ /\ \E b \in BoxIds :
                   /\ Create(b, disk[old])
                   /\ job' = [job EXCEPT ![j] = [pc |-> "drop", old |-> old, new |-> b]]
             /\ UNCHANGED update
          \/ /\ Resumed(old) /\ JobEnds(j) /\ UpdateFails
             /\ UNCHANGED <<disk, wiped>>
    /\ UNCHANGED <<slot, resets, files, left, excused>>

\* .. and the old box is discarded.
UpdateDropped(j) ==
    /\ At(j, "drop")
    /\ Discard(job[j].old)
    /\ To(j, "claim")
    /\ UNCHANGED <<slot, update, disk, resets, files, left, excused>>

\* The new box comes up, or it does not and the reason is recorded.
UpdateEnded(j) ==
    /\ At(j, "starting")
    /\ update' \in {"none", IF update = "none" THEN "none" ELSE "failed"}
    /\ JobEnds(j)
    /\ UNCHANGED <<slot, boxes, disk, wiped, resets, files, left, excused>>

UpdateAged ==
    /\ Updating
    /\ update' = "stale"
    /\ excused' = TRUE
    /\ UNCHANGED <<slot, boxes, disk, wiped, job, resets, files, left>>

-----------------------------------------------------------------------------
(* Reset and teardown, the idle sweep, a turn. *)

\* reset_for_coworker, teardown_computer_for: destroy_and_clear ..
ResetRead(j) ==
    /\ job[j] = NoJob /\ slot # NoBox /\ resets < MaxResets
    /\ resets' = resets + 1
    /\ Begins(j, "destroy", slot)
    /\ UNCHANGED <<slot, update, boxes, disk, wiped, files, left, excused>>

ResetDestroyed(j) ==
    /\ At(j, "destroy")
    /\ Destroy(job[j].old)
    /\ files' = IF disk[job[j].old] = files THEN 0 ELSE files
    /\ To(j, "forget")
    /\ UNCHANGED <<slot, update, disk, resets, left, excused>>

\* .. the row; a teardown stops here ..
ResetCleared(j) ==
    /\ At(j, "forget")
    /\ slot' = Cleared(job[j].old)
    /\ Begins(j, "unguard", NoBox) \/ JobEnds(j)
    /\ UNCHANGED <<update, boxes, disk, wiped, resets, files, left, excused>>

\* .. the update's row, whichever update it is of, and a fresh box.
ResetUnguards(j) ==
    /\ At(j, "unguard")
    /\ update' = "none" /\ To(j, "ensure")
    /\ excused' = (excused \/ \E k \in BoxJobs : Rebuilding(k))
    /\ UNCHANGED <<slot, boxes, disk, wiped, resets, files, left>>

\* idle_stop_once and the Bot's own shutdown, or the first half of its restart:
\* the scope's box is stopped.  What its row says of its idleness only decides
\* which boxes the sweep lists, and a shutdown is asked of any.
StopAsked(j) ==
    /\ job[j] = NoJob /\ slot # NoBox
    /\ Begins(j, "stop", slot)
    /\ UNCHANGED <<slot, update, boxes, disk, wiped, resets, files, left, excused>>

BoxStopped(j) ==
    /\ At(j, "stop")
    /\ boxes' = IF Exists(job[j].old) THEN [boxes EXCEPT ![job[j].old] = "stopped"] ELSE boxes
    /\ JobEnds(j)
    /\ UNCHANGED <<slot, update, disk, wiped, resets, files, left, excused>>

\* tools_for_turn and Computer::wake: the scope's box is started where it sleeps.
TurnUsesBox ==
    /\ Exists(slot)
    /\ boxes' = [boxes EXCEPT ![slot] = "running"]
    /\ UNCHANGED <<slot, update, disk, wiped, job, resets, files, left, excused>>

\* The provider loses the scope's box and its disk.
BoxLost ==
    /\ Exists(slot)
    /\ boxes' = [boxes EXCEPT ![slot] = "absent"]
    /\ files' = 0
    /\ UNCHANGED <<slot, update, disk, wiped, job, resets, left, excused>>

BoxNext ==
    \/ \E j \in BoxJobs :
          \/ EnsureRead(j) \/ EnsureGuarded(j) \/ EnsureProbed(j) \/ EnsureCleared(j)
          \/ EnsureCreated(j) \/ BoxClaimed(j)
          \/ UpdateAsked(j) \/ UpdateBegun(j) \/ UpdateRead(j) \/ UpdateStopped(j) \/ UpdateRecreated(j)
          \/ UpdateDropped(j) \/ UpdateEnded(j)
          \/ ResetRead(j) \/ ResetDestroyed(j) \/ ResetCleared(j) \/ ResetUnguards(j)
          \/ StopAsked(j) \/ BoxStopped(j)
    \/ UpdateAged \/ TurnUsesBox \/ BoxLost

BoxSpec == BoxInit /\ [][BoxNext]_boxVars

-----------------------------------------------------------------------------
Held(b) == \E j \in BoxJobs : b \in {job[j].old, job[j].new}

\* No box runs "with nothing tracking it" (agui/provision.rs): whatever first
\* requests, heals, updates and resets do at once, every box the provider
\* still has is the scope's, is one a request under way will claim or remove,
\* or was logged as one whose claim could not be recorded.
NoStrayBox == \A b \in BoxIds : Exists(b) => b = slot \/ Held(b) \/ b \in left

\* The person's files stay with the scope: short of a reset, a box lost at
\* the provider or a rebuild that could not be recorded, the scope's box runs
\* on the disk that holds them and that disk is never removed - unless a heal
\* was already past its look at the update when that update began, two
\* updates ran at once (the failure of one ends the guard of the other), an
\* update went stale, or a reset cleared the row of an update that began on
\* the fresh box before the reset was done.
FilesStay ==
    files # 0 /\ slot # NoBox /\ ~excused => disk[slot] = files /\ files \notin wiped

\* What holds of a scope's computer: none is left behind, and its files stay.
BoxesHold == NoStrayBox /\ FilesStay
=============================================================================
