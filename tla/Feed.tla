-------------------------------- MODULE Feed --------------------------------
(***************************************************************************)
(* The account event feed (crate opengrok-events): every append to a run   *)
(* or a routine writes notes to the account's outbox in its own            *)
(* transaction, numbered without gaps; a client follows them over a        *)
(* stream it may lose and resume with the id of the last frame it got, or  *)
(* is told to read everything again when what it missed is pruned.         *)
(*                                                                         *)
(* A note of a changed thread names the run that wrote, so that the client *)
(* that drives that run need not read its own echo; notes read together    *)
(* are coalesced, one per thread.                                          *)
(***************************************************************************)
EXTENDS Integers, Sequences, FiniteSetsExt

CONSTANTS FeedRuns,    \* runs, all of one account
          ThreadOf,    \* the thread of each
          Batches,     \* the kinds of event one append may hold, as sets
          OwnRun,      \* the run whose events the client itself streams
          RetainMax,   \* rows the outbox keeps
          FeedPage,    \* notes one read takes (PAGE)
          WakeRoom,    \* wakes a follower's channel holds
          MaxNotes     \* bound: notes written

ASSUME FeedAssumption ==
  /\ FeedRuns \subseteq Nat \ {0} /\ OwnRun \in FeedRuns /\ ThreadOf \in [FeedRuns -> Nat]
  /\ {RetainMax, FeedPage, WakeRoom, MaxNotes} \subseteq Nat \ {0}

VARIABLES outbox,   \* every note ever written, in the order of their ids
          floor,    \* ids up to this are pruned
          aged,     \* ids up to this are more than a day old
          listens,  \* the process's listener is connected
          follow,   \* the client's stream on the server
          client,   \* what the client has
          cut       \* history: notes merged into a frame that was lost with its stream

feedVars == <<outbox, floor, aged, listens, follow, client, cut>>

Ends == {"finished", "failed", "stopped"}
Others == {"answered", "stopped", "resumed"}
Own == {"started", "emitted", "suspended"}

\* A note: a thread that changed with the run that did it (0: not one run alone), or a
\* change of another kind, which is never coalesced.  byOther is a ghost: what the
\* append holds was written by somebody else than the loop of OwnRun.
ChangedByAny(r, b) ==
  [thread |-> ThreadOf[r], run |-> IF b \cap Own # {} THEN r ELSE 0,
   byOther |-> r # OwnRun \/ b \cap Others # {}]
Changed(r, b) ==
  [thread |-> ThreadOf[r], run |-> IF b \cap Own # {} /\ b \cap Others = {} THEN r ELSE 0,
   byOther |-> r # OwnRun \/ b \cap Others # {}]
Other == [thread |-> 0, run |-> 0, byOther |-> TRUE]

When(c, note) == IF c THEN <<note>> ELSE <<>>

\* run_appended: bookkeeping alone says nothing.
RunNotes(r, b) ==
  IF b \subseteq {"toolStarted", "spent"} THEN <<>>
  ELSE When("started" \in b, Other) \o <<Changed(r, b)>>
       \o When("suspended" \in b /\ b \cap Ends = {}, Other) \o When(b \cap Ends # {}, Other)

\* Frames are read when none is ready, and sent in the order of their ids: a set of them.
NoFollow == [on |-> FALSE, cursor |-> 0, ready |-> {}, dirty |-> FALSE,
             replaying |-> FALSE, wakes |-> <<>>, lagged |-> FALSE]
Top == Len(outbox)

\* A wake goes to the stream's channel; past its room the oldest is dropped and the
\* receiver finds it lagged.
Woken(f, id) ==
  IF ~f.on THEN f
  ELSE IF Len(f.wakes) < WakeRoom THEN [f EXCEPT !.wakes = Append(@, id)]
  ELSE [f EXCEPT !.wakes = Append(Tail(@), id), !.lagged = TRUE]
Resync == MaxNotes + 1

\* emit, in the transaction of the append: take the ids, write, notify, prune.
Written(notes) ==
  /\ notes # <<>> => /\ Top + Len(notes) <= MaxNotes
                     /\ outbox' = outbox \o notes
                     /\ floor' = Max({floor, aged, Top' - RetainMax})
                     /\ follow' = IF listens THEN Woken(follow, Top') ELSE follow
  /\ notes = <<>> => UNCHANGED <<outbox, floor, follow>>
  /\ UNCHANGED <<aged, listens, client, cut>>

RunAppended(r, b) == Written(RunNotes(r, b))
\* routine_appended: one note for the routine.
RoutineAppended == Written(<<Other>>)

\* Rows come to be a day old: the next append prunes them, and until then they count as
\* gone for a client that resumes.
AgedOut ==
  /\ aged < Top /\ aged' = aged + 1
  /\ UNCHANGED <<outbox, floor, listens, follow, client, cut>>

\* pump: the listener's connection breaks; when it is back everybody is woken.
ListenerLost ==
  /\ listens /\ listens' = FALSE
  /\ UNCHANGED <<outbox, floor, aged, follow, client, cut>>
ListenerBack ==
  /\ ~listens /\ listens' = TRUE
  /\ follow' = Woken(follow, Resync)
  /\ UNCHANGED <<outbox, floor, aged, client, cut>>

(***************************************************************************)
(* The stream.  Frames carry the id of their note; a reset carries the     *)
(* head as it was read and tells the client to read everything.            *)
(***************************************************************************)
Reset(id) == [id |-> id, thread |-> 0, run |-> 0, reset |-> TRUE]
Frame(id, run) == [id |-> id, thread |-> outbox[id].thread, run |-> run, reset |-> FALSE]

\* Follow: the room is joined first, then the bounds are read; an id inside them resumes,
\* anything else starts with a reset.
Resumes(last) == Max({floor, aged}) <= last /\ last <= Top

Opens ==
  /\ ~follow.on
  /\ follow' = IF Resumes(client.last)
               THEN [NoFollow EXCEPT !.on = TRUE, !.cursor = client.last, !.dirty = TRUE, !.replaying = TRUE]
               ELSE [NoFollow EXCEPT !.on = TRUE, !.cursor = Top, !.ready = {Reset(Top)}]
  /\ UNCHANGED <<outbox, floor, aged, listens, client, cut>>

\* A frame tells the client of note i: it is of i, or stands for it with others of its
\* thread, and is not passed over as the client's own echo when i is not one.
Tells(f, i) ==
  /\ ~f.reset /\ f.id >= i /\ f.thread = outbox[i].thread
  /\ outbox[i].thread = 0 => f.id = i
  /\ outbox[i].byOther => f.run # OwnRun
Told(i, frames) == \E f \in frames : Tells(f, i)

\* The stream is lost, and the frames with it that were not sent.
Drops ==
  /\ follow.on /\ follow' = NoFollow
  /\ cut' = cut \cup {i \in (client.base + 1)..client.last : ~Told(i, client.got)}
  /\ UNCHANGED <<outbox, floor, aged, listens, client>>

\* Of the notes of one thread the page holds, the last; of another kind, each.
Lasts(ids) ==
  {i \in ids : outbox[i].thread = 0 \/ \A j \in ids : outbox[j].thread = outbox[i].thread => j <= i}

\* Mutant: the last note's run stands for all of them.
CoalescedLast(ids) == {Frame(i, outbox[i].run) : i \in Lasts(ids)}
\* coalesced: the last note of a thread names a run only when they all name it.
Coalesced(ids) ==
  LET agreed(i) == \A j \in ids : outbox[j].thread = outbox[i].thread => outbox[j].run = outbox[i].run
  IN {Frame(i, IF outbox[i].thread # 0 /\ agreed(i) THEN outbox[i].run ELSE 0) : i \in Lasts(ids)}
AllFrames(ids) == {Frame(i, outbox[i].run) : i \in ids}
Frames(ids, replay) == IF replay THEN AllFrames(ids) ELSE Coalesced(ids)

\* The rows after the cursor that are still there, at most a page of them.
PageStart(cursor) == IF cursor > floor THEN cursor ELSE floor
PageEnd(cursor) ==
  IF Top - PageStart(cursor) > FeedPage THEN PageStart(cursor) + FeedPage ELSE Top
PageAfter(cursor) == (PageStart(cursor) + 1)..PageEnd(cursor)

\* lagged: what is missing is gone, or too much to send; the client reads everything.
Lagged == [follow EXCEPT !.ready = {Reset(Top)}, !.cursor = Top, !.dirty = FALSE,
                         !.replaying = FALSE]
NoGap(cursor) == FALSE
\* The page does not begin right after the cursor.
Gap(cursor) == PageAfter(cursor) # {} /\ PageStart(cursor) # cursor

Reads ==
  /\ follow.on /\ follow.ready = {} /\ follow.dirty
  /\ LET ids == PageAfter(follow.cursor)
         more == PageEnd(follow.cursor) - PageStart(follow.cursor) = FeedPage
     IN follow' = IF Gap(follow.cursor) THEN Lagged
                  ELSE [follow EXCEPT !.dirty = more, !.replaying = @ /\ more,
                                      !.cursor = IF ids = {} THEN @ ELSE PageEnd(@),
                                      !.ready = Frames(ids, follow.replaying)]
  /\ UNCHANGED <<outbox, floor, aged, listens, client, cut>>

\* A wake is taken; a channel that dropped some asks for the bounds instead.
TakesWake ==
  /\ follow.on /\ follow.ready = {}
  /\ \/ /\ ~follow.lagged /\ follow.wakes # <<>>
        /\ follow' = [follow EXCEPT !.wakes = Tail(@), !.dirty = @ \/ Head(follow.wakes) > follow.cursor]
     \/ /\ follow.lagged
        /\ follow' = [IF Top - follow.cursor > WakeRoom THEN Lagged
                      ELSE [follow EXCEPT !.dirty = @ \/ Top > follow.cursor] EXCEPT !.lagged = FALSE]
  /\ UNCHANGED <<outbox, floor, aged, listens, client, cut>>

Polls ==
  /\ follow.on /\ follow.ready = {} /\ ~follow.dirty
  /\ follow' = [follow EXCEPT !.dirty = TRUE]
  /\ UNCHANGED <<outbox, floor, aged, listens, client, cut>>

\* External, the desktop: it keeps the id of the last frame, reads everything on a reset,
\* and passes over a change its own run made.
Gets ==
  /\ follow.on
  /\ \E f \in follow.ready :
        /\ \A g \in follow.ready : f.id <= g.id
        /\ client' = [last |-> f.id,
                      base |-> IF f.reset THEN f.id ELSE client.base,
                      got |-> IF f.reset THEN {} ELSE client.got \cup {f}]
        /\ follow' = [follow EXCEPT !.ready = @ \ {f}]
  /\ UNCHANGED <<outbox, floor, aged, listens, cut>>

FeedInit ==
  /\ outbox = <<>> /\ floor = 0 /\ aged = 0 /\ listens = TRUE /\ follow = NoFollow
  /\ client = [last |-> 0, base |-> 0, got |-> {}] /\ cut = {}

FeedNext ==
  \/ \E r \in FeedRuns, b \in Batches : RunAppended(r, b)
  \/ RoutineAppended \/ AgedOut \/ ListenerLost \/ ListenerBack
  \/ Opens \/ Drops \/ Reads \/ TakesWake \/ Polls \/ Gets

FeedSpec == FeedInit /\ [][FeedNext]_feedVars

FeedTypeOK ==
  /\ floor \in 0..Top /\ aged \in 0..Top /\ follow.cursor \in 0..Top
  /\ client.base <= client.last /\ client.last <= Top

(***************************************************************************)
(* Properties.                                                             *)
(***************************************************************************)
\* A client that goes by the id of the last frame it got has missed nothing up to it,
\* through any number of lost streams, pruned rows, lost wakes and coalesced pages, save
\* what a reset made it read anyway (follow.rs, outbox.rs): of every other note a frame told
\* it, or one that is ready will, or the note was merged into one that was lost with its
\* stream.
NothingMissed ==
  \A i \in (client.base + 1)..client.last :
     Told(i, client.got) \/ (follow.on /\ Told(i, follow.ready)) \/ i \in cut

\* "is replayed from, in order, and then followed with no gap" (follow.rs, follow), where
\* "notes of two runs, or of a run and a person, merge into one that names nobody: null,
\* never the run the app happens to be streaming" (coalesced): a note up to the last frame
\* was told, or a later change of its thread is still to come.
FollowedWithNoGap ==
  \A i \in (client.base + 1)..client.last :
     \/ Told(i, client.got)
     \/ outbox[i].thread # 0 /\ \E j \in (client.last + 1)..Top : outbox[j].thread = outbox[i].thread
=============================================================================
