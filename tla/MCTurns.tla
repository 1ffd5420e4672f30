------------------------------ MODULE MCTurns -------------------------------
(***************************************************************************)
(* What a turn goes through: the harness loop, the gates of its calls, the *)
(* workflows it walks, what it sends its model and is answered, the edits  *)
(* it makes; and a person's own machine behind the relay or the local      *)
(* broker, with the reading of a command line.  The components share no    *)
(* state and stand side by side in one run; a behaviour is of one of them. *)
(***************************************************************************)
EXTENDS HarnessLoop, Gates, Workflows, Answers, Edits,
        Relay, LocalExec, TLC

VARIABLE part   \* the component this behaviour is of

parts == <<part, vars, gateVars, flowVars, answerVars, editVars, relayVars,
           lxVars, shellVars>>

\* Clerks are interchangeable.
Alike == Permutations(Clerks)

\* The other components stand where they began.
OthersStand(p) ==
    /\ UNCHANGED part
    /\ IF p = "HarnessLoop" THEN TRUE ELSE UNCHANGED vars
    /\ IF p = "Gates" THEN TRUE ELSE UNCHANGED gateVars
    /\ IF p = "Workflows" THEN TRUE ELSE UNCHANGED flowVars
    /\ IF p = "Answers" THEN TRUE ELSE UNCHANGED answerVars
    /\ IF p = "Edits" THEN TRUE ELSE UNCHANGED editVars
    /\ IF p = "Relay" THEN TRUE ELSE UNCHANGED relayVars
    /\ IF p = "LocalExec" THEN TRUE ELSE UNCHANGED lxVars
    /\ IF p = "Shell" THEN TRUE ELSE UNCHANGED shellVars

\* A component with many initial states stands in one of them while the
\* behaviour is of another.
TurnInit ==
    /\ part \in {"HarnessLoop", "Gates", "Workflows", "Answers", "Edits",
                "Relay", "LocalExec", "Shell"}
    /\ Init
    /\ RelayInit
    /\ LxInit
    /\ IF part = "Shell" THEN ShellInit
       ELSE chars = <<"a">> /\ pos = 1 /\ reader = NewReader
    /\ IF part = "Gates" THEN GateInit
       ELSE /\ rules = (CHOOSE r \in RulesOn("shell") : TRUE)
            /\ ask = [tool |-> "shell", pc |-> "called", card |-> "none"]
            /\ turn = NoGateTurn /\ woken = "unknown" /\ streak = 0 /\ builds = 0
            /\ passed = {}
    /\ IF part = "Workflows" THEN FlowInit
       ELSE /\ flow = [start |-> Nowhere, steps |-> [n \in StepNames |-> CHOOSE a \in Acts : a.act = "stop"]]
            /\ walk = NoWalk /\ visits = [p \in {} |-> 0]
    /\ IF part = "Answers" THEN AnswerInit
       ELSE /\ history = <<>> /\ outgoing = <<>> /\ restorer = NothingHeld
            /\ door = [pc |-> "ask", route |-> "unavailable", key |-> "own",
                       cloaked |-> FALSE, bare |-> FALSE, asked |-> 0]
            /\ wire = [words |-> 0, args |-> [i \in AnsCalls |-> 0], cur |-> 0,
                       frames |-> 0, over |-> FALSE]
            /\ parser = [at |-> [x \in 0..1 |-> 0], started |-> {}, ended |-> {}]
            /\ events = [open |-> 0, calls |-> <<>>, done |-> <<>>, words |-> 0]
    /\ IF part = "Edits" THEN EditInit
       ELSE /\ wanted = (CHOOSE u \in Units : TRUE) /\ text = [p \in Paras |-> <<wanted>>]
            /\ cursor = 0 /\ matches = {} /\ staged = {} /\ before = text
            /\ outcome = "none"

TurnNext ==
    \/ part = "HarnessLoop" /\ OthersStand("HarnessLoop") /\ Next
    \/ part = "Gates" /\ OthersStand("Gates") /\ GateNext
    \/ part = "Workflows" /\ OthersStand("Workflows") /\ FlowNext
    \/ part = "Answers" /\ OthersStand("Answers") /\ AnswerNext
    \/ part = "Edits" /\ OthersStand("Edits") /\ EditNext
    \/ part = "Relay" /\ OthersStand("Relay") /\ RelayNext
    \/ part = "LocalExec" /\ OthersStand("LocalExec") /\ LxNext
    \/ part = "Shell" /\ OthersStand("Shell") /\ ShellNext

TurnSpec == TurnInit /\ [][TurnNext]_parts

\* A command that ran on a person's machine ran as that person allows now, and a line
\* read as plain is one command (RanAsAllowed, PlainIsOneCommand).
CommandsHold == RanAsAllowed /\ PlainIsOneCommand

\* What a model is sent and answers arrives whole, and what it edits is edited exactly
\* (AnswersHold, EditsAreExact).
WordsHold == AnswersHold /\ EditsAreExact
=============================================================================
