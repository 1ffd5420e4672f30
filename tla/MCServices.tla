----------------------------- MODULE MCServices -----------------------------
(***************************************************************************)
(* What a turn is connected to: services, their plugins and sessions, the  *)
(* key it spends on, the messages that wait for it, the feed that tells of *)
(* it, the files that come with it, the coworker whose turn it is and the  *)
(* documents edited on its computer.  The components share no state and    *)
(* stand side by side in one run; a behaviour is of one of them.           *)
(***************************************************************************)
EXTENDS Connections, Plugins, Spend, HeldSends, Feed,
        Attachments, Coworkers, Office, TLC

CONSTANT Parts   \* the components the run is about

VARIABLE part   \* the component this behaviour is of

parts == <<part, connVars, plugVars, poolVars, spendVars, heldVars, feedVars,
           attachVars, cwVars, officeVars>>

\* Every run is of one thread; the batches of events a run's log takes at once.
MCThreadOf == [r \in FeedRuns |-> 1]
MCBatches == {{"started"}, {"emitted"}, {"emitted", "answered"}, {"suspended"}, {"stopped"}, {"spent"}}

\* Requests, turns, drains and verbs are the same two values, and interchangeable.
Alike == Permutations(ConnReqs)

\* The other components stand where they began.
OthersStand(p) ==
    /\ UNCHANGED part
    /\ IF p = "Connections" THEN TRUE ELSE UNCHANGED connVars
    /\ IF p = "Plugins" THEN TRUE ELSE UNCHANGED plugVars
    /\ IF p = "PluginPool" THEN TRUE ELSE UNCHANGED poolVars
    /\ IF p = "Spend" THEN TRUE ELSE UNCHANGED spendVars
    /\ IF p = "HeldSends" THEN TRUE ELSE UNCHANGED heldVars
    /\ IF p = "Feed" THEN TRUE ELSE UNCHANGED feedVars
    /\ IF p = "Attachments" THEN TRUE ELSE UNCHANGED attachVars
    /\ IF p = "Coworkers" THEN TRUE ELSE UNCHANGED cwVars
    /\ IF p = "Office" THEN TRUE ELSE UNCHANGED officeVars

Init ==
    /\ part \in Parts
    /\ ConnInit
    /\ PlugInit
    /\ PoolInit
    /\ SpendInit
    /\ HeldInit
    /\ FeedInit
    /\ AttachInit
    /\ CwInit
    /\ OfficeInit

Next ==
    \/ part = "Connections" /\ OthersStand("Connections") /\ ConnNext
    \/ part = "Plugins" /\ OthersStand("Plugins") /\ PlugNext
    \/ part = "PluginPool" /\ OthersStand("PluginPool") /\ PoolNext
    \/ part = "Spend" /\ OthersStand("Spend") /\ SpendNext
    \/ part = "HeldSends" /\ OthersStand("HeldSends") /\ HeldNext
    \/ part = "Feed" /\ OthersStand("Feed") /\ FeedNext
    \/ part = "Attachments" /\ OthersStand("Attachments") /\ AttachNext
    \/ part = "Coworkers" /\ OthersStand("Coworkers") /\ CwNext
    \/ part = "Office" /\ OthersStand("Office") /\ OfficeNext

Spec == Init /\ [][Next]_parts
=============================================================================
