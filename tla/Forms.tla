------------------------------- MODULE Forms --------------------------------
(***************************************************************************)
(* Forms a run waits on: the card in the transcript, the run parked on its *)
(* call, the computer hand-off an escalated form opens, and everything     *)
(* that settles them - the person's submit, dismiss, escalate and          *)
(* hand-back, and the deadline sweep.  Cards are rewritten whole by their  *)
(* row (last writer wins); runs are appended to at a sequence number.      *)
(* Each form is parked by a run of its own, all of one coworker.           *)
(***************************************************************************)
EXTENDS Naturals, FiniteSets

CONSTANTS FormIds,      \* forms, each with its call and its run
          People,       \* requests of the person under way
          Sweeps        \* passes of hold_deadlines_forever under way

VARIABLES
    entry,      \* transcript card of a form: its resolution
    box,        \* hand-off card of a form: none, live, settled or lost
    overdue,       \* holds older than FORM_HOLD_TIMEOUT, by form and kind
    parked,     \* the form's run: none, parked, resumed or stopped
    fseq,       \* appends to the run's log since it parked
    hand,       \* handlers under way
    settles     \* history: how often a form's card was resolved

formVars == <<entry, box, overdue, parked, fseq, hand, settles>>

FormHandlers == People \cup Sweeps
NoHand == [pc |-> "none"]

FormInit ==
    /\ entry = [f \in FormIds |-> "none"]
    /\ box = [f \in FormIds |-> "none"]
    /\ overdue = [f \in FormIds |-> {}]
    /\ parked = [f \in FormIds |-> "none"]
    /\ fseq = [f \in FormIds |-> 0]
    /\ hand = [h \in FormHandlers |-> NoHand]
    /\ settles = [f \in FormIds |-> 0]

HandAt(h, pc) == hand[h].pc = pc
HandTo(h, pc) == hand' = [hand EXCEPT ![h] = [@ EXCEPT !.pc = pc]]
HandEnds(h) == hand' = [hand EXCEPT ![h] = NoHand]
Starts(h, f, pc, res) ==
    hand' = [hand EXCEPT ![h] = [pc |-> pc, f |-> f, res |-> res, seq |-> 0]]

LiveBoxes == {f \in FormIds : box[f] = "live"}

\* waiting_calls: the calls parked runs wait on.
WaitingForms == {f \in FormIds : parked[f] = "parked"}

-----------------------------------------------------------------------------
(* The run. *)

\* The suspension is in the log before the card is minted.
FormParked(f) ==
    /\ parked[f] = "none"
    /\ parked' = [parked EXCEPT ![f] = "parked"]
    /\ UNCHANGED <<overdue, entry, box, fseq, hand, settles>>

\* A form is raised only while nothing of the coworker holds the screen.
CardMinted(f) ==
    /\ parked[f] # "none" /\ entry[f] = "none"
    /\ LiveBoxes = {} /\ \A g \in FormIds : entry[g] # "open"
    /\ entry' = [entry EXCEPT ![f] = "open"]
    /\ UNCHANGED <<overdue, box, parked, fseq, hand, settles>>

RunStopped(f) ==
    /\ parked[f] = "parked"
    /\ parked' = [parked EXCEPT ![f] = "stopped"]
    /\ UNCHANGED <<overdue, entry, box, fseq, hand, settles>>

-----------------------------------------------------------------------------
(* The person. *)

\* submit_user_form: an open card; a settled one heals, unless escalated.
FormSubmitted(h, f) ==
    /\ h \in People /\ hand[h] = NoHand
    /\ entry[f] \notin {"none", "escalated"}
    /\ Starts(h, f, IF entry[f] = "open" THEN "waits" ELSE "resume", entry[f])
    /\ UNCHANGED <<overdue, entry, box, parked, fseq, settles>>

\* waits_on: typed only while its run waits on it.
TypesNow(f) == f \in WaitingForms

SubmitWaited(h) ==
    /\ HandAt(h, "waits")
    /\ IF TypesNow(hand[h].f)
       THEN HandTo(h, "fill")
       ELSE hand' = [hand EXCEPT ![h].pc = "close", ![h].res = "fill_failed"]
    /\ UNCHANGED <<overdue, entry, box, parked, fseq, settles>>

\* fill_on_box and fill_into_focus: typed, given up part way, or refused for
\* the page that is in front (then the card stays open).
SubmitFilled(h) ==
    /\ HandAt(h, "fill")
    /\ \/ HandEnds(h)
       \/ \E res \in {"submitted", "fill_failed"} :
             hand' = [hand EXCEPT ![h].pc = "write", ![h].res = res]
    /\ UNCHANGED <<overdue, entry, box, parked, fseq, settles>>

\* dismiss_user_form: dismissed or escalated.
FormDismissed(h, f, res) ==
    /\ h \in People /\ hand[h] = NoHand
    /\ \/ /\ entry[f] = "open"
          /\ Starts(h, f, "write", res)
       \/ \* abandon_escalated_form
          /\ entry[f] = "escalated" /\ res = "dismissed"
          /\ Starts(h, f, "unbox", "declined")
       \/ \* heal_or_already
          /\ entry[f] \notin {"none", "open", "escalated"}
          /\ Starts(h, f, "resume", entry[f])
    /\ UNCHANGED <<overdue, entry, box, parked, fseq, settles>>

\* handoff_call: the escalated form whose run still waits.
HandoffForms == {f \in WaitingForms : entry[f] = "escalated"}

\* resolve_box_handoff, named by a hand-off's card or by the escalated form.
HandoffResolved(h, f, res) ==
    /\ hand[h] = NoHand
    /\ \/ /\ h \in People /\ entry[f] = "escalated"
          /\ Starts(h, f, "unbox", res)
       \/ /\ LiveBoxes # {}
          /\ h \in People \/ \E g \in LiveBoxes : "box" \in overdue[g]
          /\ f \in HandoffForms
          /\ Starts(h, f, "unbox", res)
    /\ UNCHANGED <<overdue, entry, box, parked, fseq, settles>>

-----------------------------------------------------------------------------
(* The sweep. *)

\* settle_holds_seen: an open card is dead when its run no longer waits and
\* timed out past its hold; a park that never got its card is timed out too
\* (UncardedLeft: it is not looked for).
Dead(f) == entry[f] = "open" /\ f \notin WaitingForms
TimedOut(f) == entry[f] = "open" /\ "card" \in overdue[f]
UncardedLeft(f) == FALSE
Uncarded(f) ==
    f \in WaitingForms /\ entry[f] = "none" /\ "park" \in overdue[f]

\* A sweep that only closes what timed out.
SweepClosesAll(f) == "close"

\* settle_open_form: a dead card is closed and nothing resumes; one that
\* timed out is settled and its run resumed with that.
SweepSettles(f) == IF Dead(f) THEN "recheck" ELSE "write"

HoldsSwept(h, f) ==
    /\ h \in Sweeps /\ hand[h] = NoHand
    /\ \/ Dead(f) /\ Starts(h, f, SweepSettles(f), "dismissed")
       \/ TimedOut(f) /\ ~Dead(f) /\ Starts(h, f, SweepSettles(f), "dismissed")
       \/ Uncarded(f) /\ Starts(h, f, "resume", "dismissed")
    /\ UNCHANGED <<overdue, entry, box, parked, fseq, settles>>

\* A card judged dead is judged again.
DeadRechecked(h) ==
    /\ HandAt(h, "recheck")
    /\ IF Dead(hand[h].f) THEN HandTo(h, "close") ELSE HandEnds(h)
    /\ UNCHANGED <<overdue, entry, box, parked, fseq, settles>>

\* A hand-off no escalated form waits behind is declined for everyone.
HandoffsDeclined(h) ==
    /\ h \in Sweeps /\ hand[h] = NoHand
    /\ LiveBoxes # {} /\ HandoffForms = {}
    /\ box' = [g \in FormIds |-> IF g \in LiveBoxes THEN "settled" ELSE box[g]]
    /\ UNCHANGED <<overdue, entry, parked, fseq, hand, settles>>

-----------------------------------------------------------------------------
(* What settling does. *)

\* update_gateway_entry: the whole card, as it was read, with its resolution.
\* "close" is the write nothing follows.
CardSettled(h) ==
    /\ HandAt(h, "write") \/ HandAt(h, "close")
    /\ LET f == hand[h].f IN
          IF h \in Sweeps /\ entry[f] # "open"
          THEN HandEnds(h) /\ UNCHANGED <<entry, settles>>
          ELSE /\ entry' = [entry EXCEPT ![f] = hand[h].res]
               /\ settles' = [settles EXCEPT ![f] = @ + 1]
               /\ IF HandAt(h, "write") THEN HandTo(h, "journal") ELSE HandEnds(h)
    /\ UNCHANGED <<overdue, box, parked, fseq>>

\* journal_settled_form: the run is read, then appended to where it still
\* stands at what was read; a conflict is only logged.
FormJournaled(h) ==
    /\ HandAt(h, "journal")
    /\ LET f == hand[h].f IN
          /\ fseq' = IF parked[f] = "parked" THEN [fseq EXCEPT ![f] = @ + 1] ELSE fseq
          /\ HandTo(h, IF hand[h].res = "escalated" THEN "box" ELSE "resume")
    /\ UNCHANGED <<overdue, entry, box, parked, settles>>

\* start_box_handoff; its card may fail to be written.
HandoffOpened(h) ==
    /\ HandAt(h, "box")
    /\ \E st \in {"live", "lost"} : box' = [box EXCEPT ![hand[h].f] = st]
    /\ HandEnds(h)
    /\ UNCHANGED <<overdue, entry, parked, fseq, settles>>

\* settle_live_handoffs: every live hand-off of the coworker.
HandoffsSettled(h) ==
    /\ HandAt(h, "unbox")
    /\ box' = [g \in FormIds |-> IF g \in LiveBoxes THEN "settled" ELSE box[g]]
    /\ HandTo(h, "resume")
    /\ UNCHANGED <<overdue, entry, parked, fseq, settles>>

\* resume_settled: the parked run is read ..
ResumeRead(h) ==
    /\ HandAt(h, "resume")
    /\ LET f == hand[h].f IN
          IF parked[f] = "parked"
          THEN hand' = [hand EXCEPT ![h].pc = "answer", ![h].seq = fseq[f]]
          ELSE HandEnds(h)
    /\ UNCHANGED <<overdue, entry, box, parked, fseq, settles>>

\* .. and answered, if nothing was appended since.
ResumeAnswered(h) ==
    /\ HandAt(h, "answer")
    /\ LET f == hand[h].f IN
          parked' = IF parked[f] = "parked" /\ fseq[f] = hand[h].seq
                    THEN [parked EXCEPT ![f] = "resumed"] ELSE parked
    /\ HandEnds(h)
    /\ UNCHANGED <<overdue, entry, box, fseq, settles>>

\* Ten minutes pass over a park, a card or a hand-off.
HoldAged(f, kind) ==
    /\ kind \notin overdue[f]
    /\ \/ kind = "park" /\ parked[f] = "parked"
       \/ kind = "card" /\ entry[f] = "open"
       \/ kind = "box" /\ box[f] = "live"
    /\ overdue' = [overdue EXCEPT ![f] = @ \cup {kind}]
    /\ UNCHANGED <<entry, box, parked, fseq, hand, settles>>

Swept(h) == \/ \E f \in FormIds : HoldsSwept(h, f) \/ HandoffResolved(h, f, "timed_out")
            \/ HandoffsDeclined(h)
Handled(h) ==
    \/ SubmitWaited(h) \/ SubmitFilled(h) \/ DeadRechecked(h) \/ CardSettled(h)
    \/ FormJournaled(h) \/ HandoffOpened(h) \/ HandoffsSettled(h)
    \/ ResumeRead(h) \/ ResumeAnswered(h)

FormNext ==
    \/ \E f \in FormIds :
          \/ FormParked(f) \/ CardMinted(f) \/ RunStopped(f)
          \/ \E h \in People :
                \/ FormSubmitted(h, f)
                \/ \E res \in {"dismissed", "escalated"} : FormDismissed(h, f, res)
                \/ \E res \in {"handed_back", "declined"} : HandoffResolved(h, f, res)
    \/ \E f \in FormIds, kind \in {"park", "card", "box"} : HoldAged(f, kind)
    \/ \E h \in Sweeps : Swept(h)
    \/ \E h \in FormHandlers : Handled(h)

FormSpec == FormInit /\ [][FormNext]_formVars
FormFairness ==
    /\ \A f \in FormIds, kind \in {"park", "card", "box"} :
          WF_formVars(HoldAged(f, kind))
    /\ \A h \in FormHandlers : WF_formVars(Handled(h))
    /\ \A h \in Sweeps : WF_formVars(Swept(h))

-----------------------------------------------------------------------------
InFlight(f) == \E h \in FormHandlers : hand[h] # NoHand /\ hand[h].f = f

\* No run is left parked behind a closed card "that no settle or sweep looks
\* at again" (agui/user_form.rs): a parked run whose card reads as settled
\* has a handler on its way to it, or its card was settled twice over.
NoneBehindAClosedCard ==
    \A f \in FormIds :
        /\ parked[f] = "parked"
        /\ entry[f] \in {"submitted", "fill_failed", "dismissed"}
        => InFlight(f) \/ settles[f] > 1

\* Every hold ends: a run parked on a form is not parked for ever, whether
\* or not the person ever answers and the card was ever minted - unless its
\* card was settled twice over, or the hand-off it was escalated to could not
\* be written (then only the person can end it, from the escalated card), or another
\* form's hand-off was open at the same time and settling it settled both.
HoldsEnd ==
    \A f \in FormIds :
        parked[f] = "parked" ~>
            (parked[f] # "parked" \/ settles[f] > 1 \/ box[f] = "lost"
             \/ \E g \in FormIds \ {f} : box[g] # "none")

\* What holds of forms: no run is left behind a closed card, and every hold ends.
FormsSettle == []NoneBehindAClosedCard /\ HoldsEnd
=============================================================================
