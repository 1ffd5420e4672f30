------------------------------ MODULE MCAccess ------------------------------
(***************************************************************************)
(* Who may come in and what they are given: sessions, accounts, clients of *)
(* the MCP door, site logins, the skills and recipes of their coworkers,   *)
(* and the purge.  The components share no state and stand side by side in *)
(* one run; a behaviour is of one of them.                                 *)
(***************************************************************************)
EXTENDS Sessions, Accounts, McpClients, McpDoor, Logins,
        Purge, Skills, Recipes, TLC

VARIABLE part   \* the component this behaviour is of

parts == <<part, sessVars, acctVars, mcpcVars, doorVars, budVars, loginVars,
           purgeVars, skillVars, recipeVars>>

\* The domain of an address.
MCDomainOf == [e \in Emails |-> IF e = "e1" THEN "home" ELSE "other"]

\* Every kind of request is the same two values, and they are interchangeable.
Alike == Permutations(Requests)


\* The other components stand where they began.
OthersStand(p) ==
    /\ UNCHANGED part
    /\ IF p = "Sessions" THEN TRUE ELSE UNCHANGED sessVars
    /\ IF p = "Accounts" THEN TRUE ELSE UNCHANGED acctVars
    /\ IF p = "McpClients" THEN TRUE ELSE UNCHANGED mcpcVars
    /\ IF p = "McpDoor" THEN TRUE ELSE UNCHANGED doorVars
    /\ IF p = "Budgets" THEN TRUE ELSE UNCHANGED budVars
    /\ IF p = "Logins" THEN TRUE ELSE UNCHANGED loginVars
    /\ IF p = "Purge" THEN TRUE ELSE UNCHANGED purgeVars
    /\ IF p = "Skills" THEN TRUE ELSE UNCHANGED skillVars
    /\ IF p = "Recipes" THEN TRUE ELSE UNCHANGED recipeVars

\* A component with many initial states stands in one of them while the
\* behaviour is of another.
Init ==
    /\ part \in {"Sessions", "Accounts", "McpClients", "McpDoor",
                "Budgets", "Logins", "Purge", "Skills",
                "Recipes"}
    /\ SessInit
    /\ IF part = "Accounts" THEN AcctInit
       ELSE AcctInit /\ mailer = FALSE
    /\ McpcInit
    /\ DoorInit
    /\ BudInit
    /\ LoginInit
    /\ PurgeInit
    /\ SkillInit
    /\ RecipeInit

Next ==
    \/ part = "Sessions" /\ OthersStand("Sessions") /\ SessNext
    \/ part = "Accounts" /\ OthersStand("Accounts") /\ AcctNext
    \/ part = "McpClients" /\ OthersStand("McpClients") /\ McpcNext
    \/ part = "McpDoor" /\ OthersStand("McpDoor") /\ DoorNext
    \/ part = "Budgets" /\ OthersStand("Budgets") /\ BudNext
    \/ part = "Logins" /\ OthersStand("Logins") /\ LoginNext
    \/ part = "Purge" /\ OthersStand("Purge") /\ PurgeNext
    \/ part = "Skills" /\ OthersStand("Skills") /\ SkillNext
    \/ part = "Recipes" /\ OthersStand("Recipes") /\ RecipeNext

Spec == Init /\ [][Next]_parts
=============================================================================
