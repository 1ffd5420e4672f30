------------------------------ MODULE Recipes -------------------------------
(***************************************************************************)
(* One recipe of an owner, shared with a second person directly and        *)
(* through their organisation, granted to each one's bot, and the plays of *)
(* it: the lease that keeps a bot's screen to one play, the history of     *)
(* plays, and the versions they play.                                      *)
(***************************************************************************)
EXTENDS Naturals, FiniteSets

CONSTANTS PlayIds,      \* recipe_run ids, in order of their at_ms: 1, 2, ..
          RunsKept,     \* RUNS_KEPT_PER_VERSION
          MaxShares     \* bound: shares made

ASSUME RecipesAssumption == PlayIds \subseteq Nat \ {0} /\ RunsKept \in Nat /\ MaxShares \in Nat

VARIABLES
    recipe,     \* live or deleted
    edited,     \* whether version 2, an edit, is there; version 1 always is
    orgShare,   \* the share with the organisation
    ownShare,   \* the second person's own row: its answer and where it came from
    grants,     \* bots with a grant row, each made by the bot's own person
    granting,   \* a grant checked and not yet written
    answering,  \* an answer to a share, between its statements
    rows,       \* recipe_run
    played,     \* what the box plays, and the tool calls that ask for it
    dropping,   \* a version's removal, between its two statements
    shares,
    lostHold,   \* history: the second person's hold was taken back or declined
    unfenced,   \* history: a live play's row went with its version
    strayPlay   \* history: a check let a bot play whose person lost hold

recipeVars == <<recipe, edited, orgShare, ownShare, grants, granting, answering, rows, played,
                dropping, shares, lostHold, unfenced, strayPlay>>

RecipeBots == {"ownersBot", "guestsBot"}
NoShare == [answer |-> "none", via |-> "owner"]
NoAnswer == [pc |-> "none"]
NoPlayRow == [lease |-> "none", bot |-> "ownersBot", version |-> 0]
NoPlay == [pc |-> "none", bot |-> "ownersBot", version |-> 0]
PlayEnded == [NoPlay EXCEPT !.pc = "ended"]

RecipeInit ==
    /\ recipe = "live" /\ edited = FALSE /\ orgShare = FALSE /\ ownShare = NoShare
    /\ grants = {} /\ granting = FALSE /\ answering = NoAnswer
    /\ rows = [i \in PlayIds |-> NoPlayRow] /\ played = [i \in PlayIds |-> NoPlay]
    /\ dropping = FALSE /\ shares = 0
    /\ lostHold = FALSE /\ unfenced = FALSE /\ strayPlay = FALSE

\* relation and may, for the second person; permitted also wants the recipe
\* live, except of its owner.
Relation ==
    IF ownShare.answer = "accepted" THEN "recipient"
    ELSE IF ownShare.answer = "invited" \/ orgShare THEN "invited" ELSE "nobody"
GuestMay(action) ==
    /\ recipe = "live"
    /\ \/ Relation = "recipient" /\ action \in {"read", "grant", "run", "answer"}
       \/ Relation = "invited" /\ action \in {"read", "answer"}

\* recipe_runnable_version: the newest that is not the raw tape.
Runnable == IF edited THEN 2 ELSE 1

-----------------------------------------------------------------------------
\* Sharing.

\* share_recipe: the row starts over, whatever was answered before.
ShareWithGuest ==
    /\ shares < MaxShares
    /\ ownShare' = [answer |-> "invited", via |-> "owner"]
    /\ shares' = shares + 1
    /\ lostHold' = (lostHold \/ ownShare.answer = "accepted")
    /\ UNCHANGED <<recipe, edited, orgShare, grants, granting, answering, rows, played, dropping,
                   unfenced, strayPlay>>

ShareWithOrg ==
    /\ shares < MaxShares /\ orgShare' = TRUE /\ shares' = shares + 1
    /\ UNCHANGED <<recipe, edited, ownShare, grants, granting, answering, rows, played, dropping,
                   lostHold, unfenced, strayPlay>>

\* unshare_recipe, one transaction: grants first, then the share, and for an
\* organisation the rows of those who answered through it.
Unshare(scope) ==
    LET ends == scope = "account" \/ ownShare.via = "org" IN
    /\ scope = "account" => ownShare # NoShare
    /\ scope = "org" => orgShare
    /\ grants' = IF ends THEN grants \ {"guestsBot"} ELSE grants
    /\ ownShare' = IF ends THEN NoShare ELSE ownShare
    /\ orgShare' = (orgShare /\ scope = "account")
    /\ lostHold' = (lostHold \/ ends)
    /\ UNCHANGED <<recipe, edited, granting, answering, rows, played, dropping, shares, unfenced,
                   strayPlay>>

\* accept, decline -> answer_recipe_share, which reads both rows ..
ShareRead(accept) ==
    /\ answering = NoAnswer /\ GuestMay("answer")
    /\ answering' = [pc |-> "read", accept |-> accept, direct |-> ownShare # NoShare]
    /\ UNCHANGED <<recipe, edited, orgShare, ownShare, grants, granting, rows, played, dropping,
                   shares, lostHold, unfenced, strayPlay>>

\* .. writes the person's own row: an update where one was read (of nothing
\* once it is gone), an upsert where the organisation's share was ..
AnswerWritten ==
    /\ answering.pc = "read"
    /\ LET answer == IF answering.accept THEN "accepted" ELSE "declined"
           writes == ~answering.direct \/ ownShare # NoShare
           via == IF ownShare = NoShare THEN "org" ELSE ownShare.via
       IN /\ ownShare' = IF writes THEN [answer |-> answer, via |-> via] ELSE ownShare
          /\ lostHold' = IF writes THEN ~answering.accept ELSE lostHold
    /\ answering' = IF answering.accept THEN NoAnswer ELSE [answering EXCEPT !.pc = "declined"]
    /\ UNCHANGED <<recipe, edited, orgShare, grants, granting, rows, played, dropping, shares,
                   unfenced, strayPlay>>

\* .. and for a no, DROP_GRANTS_MADE_BY.
DeclineDrops ==
    /\ answering.pc = "declined"
    /\ answering' = NoAnswer /\ grants' = grants \ {"guestsBot"}
    /\ UNCHANGED <<recipe, edited, orgShare, ownShare, granting, rows, played, dropping, shares,
                   lostHold, unfenced, strayPlay>>

\* grant: permitted and the bot one's own, then the insert.
GrantChecked ==
    /\ ~granting /\ GuestMay("grant") /\ granting' = TRUE
    /\ UNCHANGED <<recipe, edited, orgShare, ownShare, grants, answering, rows, played, dropping,
                   shares, lostHold, unfenced, strayPlay>>

GrantWritten ==
    /\ granting /\ granting' = FALSE /\ grants' = grants \cup {"guestsBot"}
    /\ UNCHANGED <<recipe, edited, orgShare, ownShare, answering, rows, played, dropping, shares,
                   lostHold, unfenced, strayPlay>>

OwnerGrants ==
    /\ recipe = "live" /\ grants' = grants \cup {"ownersBot"}
    /\ UNCHANGED <<recipe, edited, orgShare, ownShare, granting, answering, rows, played, dropping,
                   shares, lostHold, unfenced, strayPlay>>

Revoke(bot) ==
    /\ bot \in grants /\ (bot = "guestsBot" => GuestMay("grant"))
    /\ grants' = grants \ {bot}
    /\ UNCHANGED <<recipe, edited, orgShare, ownShare, granting, answering, rows, played, dropping,
                   shares, lostHold, unfenced, strayPlay>>

-----------------------------------------------------------------------------
\* Versions.

\* soft_delete_recipe: by its owner, or by a create that could not finish.
RecipeRemoved ==
    /\ recipe = "live" /\ recipe' = "deleted"
    /\ UNCHANGED <<edited, orgShare, ownShare, grants, granting, answering, rows, played, dropping,
                   shares, lostHold, unfenced, strayPlay>>

VersionAdded ==
    /\ ~edited /\ edited' = TRUE
    /\ UNCHANGED <<recipe, orgShare, ownShare, grants, granting, answering, rows, played, dropping,
                   shares, lostHold, unfenced, strayPlay>>

\* delete_recipe_version: the runs that played it, whatever their lease ..
VersionRunsDropped ==
    /\ edited /\ ~dropping /\ dropping' = TRUE
    /\ rows' = [i \in PlayIds |-> IF rows[i].version = 2 THEN NoPlayRow ELSE rows[i]]
    /\ unfenced' = (unfenced \/ \E i \in PlayIds : rows[i].version = 2 /\ rows[i].lease = "live")
    /\ UNCHANGED <<recipe, edited, orgShare, ownShare, grants, granting, answering, played, shares,
                   lostHold, strayPlay>>

\* .. then the version.
VersionRemoved ==
    /\ dropping /\ dropping' = FALSE /\ edited' = FALSE
    /\ UNCHANGED <<recipe, orgShare, ownShare, grants, granting, answering, rows, played, shares,
                   lostHold, unfenced, strayPlay>>

-----------------------------------------------------------------------------
\* Plays.

Unplayed(i) == played[i] = NoPlay /\ \A k \in PlayIds : k < i => played[k] # NoPlay

\* GRANT_STILL_HELD, the bug of trusting the row.
GrantRowIsThere(bot) == bot \in grants
\* GRANT_STILL_HELD: the owner's own grant, or one of a person whose share is
\* accepted now.
GrantStillHeld(bot) == bot \in grants /\ (bot = "ownersBot" \/ ownShare.answer = "accepted")

\* run_recipe of a bot's turn: still_granted reads the grant, then
\* recipe_request the newest version.
ToolChecked(i, bot) ==
    /\ Unplayed(i) /\ recipe = "live" /\ GrantStillHeld(bot)
    /\ played' = [played EXCEPT ![i] = [pc |-> "checked", bot |-> bot, version |-> Runnable]]
    /\ strayPlay' = (strayPlay \/ (bot = "guestsBot" /\ lostHold))
    /\ UNCHANGED <<recipe, edited, orgShare, ownShare, grants, granting, answering, rows, dropping,
                   shares, lostHold, unfenced>>

\* run: a person plays it on their own bot.
PersonRuns(i, bot) ==
    /\ Unplayed(i) /\ recipe = "live"
    /\ bot = "guestsBot" => GuestMay("run")
    /\ played' = [played EXCEPT ![i] = [pc |-> "checked", bot |-> bot, version |-> Runnable]]
    /\ UNCHANGED <<recipe, edited, orgShare, ownShare, grants, granting, answering, rows, dropping,
                   shares, lostHold, unfenced, strayPlay>>

\* start_recipe_run, the bug of no lock: each start reads before the other's
\* row is committed.
StartGuardBlind(bot) == TRUE
\* start_recipe_run, under the bot's advisory lock: no live lease of the bot.
StartGuard(bot) == ~\E i \in PlayIds : rows[i].lease = "live" /\ rows[i].bot = bot

\* begin_run, claim_run: written down and leased, then the box is asked.
PlayStarted(i) ==
    /\ played[i].pc = "checked" /\ StartGuard(played[i].bot)
    /\ played' = [played EXCEPT ![i].pc = "playing"]
    /\ rows' = [rows EXCEPT ![i] = [lease |-> "live", bot |-> played[i].bot,
                                    version |-> played[i].version]]
    /\ UNCHANGED <<recipe, edited, orgShare, ownShare, grants, granting, answering, dropping,
                   shares, lostHold, unfenced, strayPlay>>

\* BOT_IS_PLAYING, or the store did not answer: nothing was played.
PlayRefused(i) ==
    /\ played[i].pc = "checked"
    /\ played' = [played EXCEPT ![i] = PlayEnded]
    /\ UNCHANGED <<recipe, edited, orgShare, ownShare, grants, granting, answering, rows, dropping,
                   shares, lostHold, unfenced, strayPlay>>

\* record_recipe_run: an upsert that ends the lease; then tidy_history, which
\* keeps the newest few of the version and runner and every live one.
RowWritten(i) == [rows EXCEPT ![i] = [lease |-> "done", bot |-> played[i].bot,
                                   version |-> played[i].version]]
\* prune_recipe_runs, the bug of forgetting the lease.
PrunesPlaying(r, i, k) ==
    /\ r[k].lease # "none" /\ r[k].bot = r[i].bot /\ r[k].version = r[i].version
    /\ Cardinality({n \in PlayIds : n > k /\ r[n].lease # "none" /\ r[n].bot = r[i].bot
                                          /\ r[n].version = r[i].version}) >= RunsKept
Prunes(r, i, k) == r[k].lease # "live" /\ PrunesPlaying(r, i, k)

PlayRecorded(i) ==
    /\ played[i].pc = "playing"
    /\ played' = [played EXCEPT ![i] = PlayEnded]
    /\ rows' = [k \in PlayIds |-> IF Prunes(RowWritten(i), i, k) THEN NoPlayRow ELSE RowWritten(i)[k]]
    /\ UNCHANGED <<recipe, edited, orgShare, ownShare, grants, granting, answering, dropping,
                   shares, lostHold, unfenced, strayPlay>>

\* The server went down, or the receipt could not be written: the box's play
\* is over and the row keeps its lease ..
PlayLost(i) ==
    /\ played[i].pc = "playing"
    /\ played' = [played EXCEPT ![i] = PlayEnded]
    /\ UNCHANGED <<recipe, edited, orgShare, ownShare, grants, granting, answering, rows, dropping,
                   shares, lostHold, unfenced, strayPlay>>

\* .. until it runs out: RecipeRunRow::state "interrupted". A play under way
\* is held by hold_run, which renews at a third of the lease.
LeaseLapses(i) ==
    /\ rows[i].lease = "live" /\ played[i].pc # "playing"
    /\ rows' = [rows EXCEPT ![i].lease = "lapsed"]
    /\ UNCHANGED <<recipe, edited, orgShare, ownShare, grants, granting, answering, played, dropping,
                   shares, lostHold, unfenced, strayPlay>>

RecipeNext ==
    \/ ShareWithGuest \/ ShareWithOrg \/ \E s \in {"account", "org"} : Unshare(s)
    \/ \E a \in BOOLEAN : ShareRead(a)
    \/ AnswerWritten \/ DeclineDrops \/ GrantChecked \/ GrantWritten \/ OwnerGrants
    \/ RecipeRemoved \/ VersionAdded \/ VersionRunsDropped \/ VersionRemoved
    \/ \E b \in RecipeBots : Revoke(b)
    \/ \E i \in PlayIds, b \in RecipeBots : ToolChecked(i, b) \/ PersonRuns(i, b)
    \/ \E i \in PlayIds : \/ PlayStarted(i) \/ PlayRefused(i) \/ PlayRecorded(i)
                          \/ PlayLost(i) \/ LeaseLapses(i)

RecipeSpec == RecipeInit /\ [][RecipeNext]_recipeVars

-----------------------------------------------------------------------------
\* One bot's screen is played by one recipe at a time, and the row of a play
\* under way stands in the history until the play is written down (start_
\* recipe_run, prune_recipe_runs), whatever starts, crashes and prunes in
\* between; except where the version it plays was deleted under it.
OnePlayAScreen ==
    unfenced \/ \A i \in PlayIds : played[i].pc = "playing" =>
        /\ rows[i].lease = "live"
        /\ \A k \in PlayIds \ {i} : played[k].pc = "playing" => played[k].bot # played[i].bot

\* A bot whose person declined the recipe or had its share taken back is not
\* let play it (still_granted), not even where the grant was written while
\* the hold went.
NoPlayAfterTheHold == ~strayPlay

\* What holds of plays: one at a time on a screen, and none after the hold on
\* the recipe went.
PlaysHold == OnePlayAScreen /\ NoPlayAfterTheHold
=============================================================================
