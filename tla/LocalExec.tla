------------------------------ MODULE LocalExec ------------------------------
(***************************************************************************)
(* Commands on a person's own computer: the mode and rules they set, the   *)
(* gate every command passes, the stream the computer's daemon holds open, *)
(* and the broker that waits for each result (local_exec.rs,               *)
(* opengrok-local-exec).  One computer; every command is one the allow and *)
(* the deny rule would both match.                                         *)
(***************************************************************************)
EXTENDS Naturals, Sequences

CONSTANTS Cmds,        \* commands asked for, each once
          Polls,       \* daemon requests that open the stream
          MaxLxTok,    \* bound: enrolments
          MaxSettings  \* bound: changes of the mode and the rules

VARIABLES
    lxMode,      \* local_exec_policy: never, ask or bypass
    lxRules,     \* local_exec_rule: the kinds there is a rule of
    settings,    \* bound: changes so far
    lxRow,       \* local_exec_daemon: token, revoked; and whether a close is due
    lxStream,    \* Inner.providers: the token whose stream it is, whether it listens, which poll
    poll,        \* streams being opened
    cmd,         \* commands: where each stands, what its gate read
    waiting,     \* Inner.waiters
    buffered,    \* Inner.streams
    lxAudit      \* local_exec_audit: what was decided, and how it ended

lxVars == <<lxMode, lxRules, settings, lxRow, lxStream, poll, cmd, waiting, buffered, lxAudit>>

NoCmd == [pc |-> "idle", who |-> "bot", approved |-> FALSE, mode |-> "never", allow |-> FALSE,
          deny |-> FALSE, clean |-> TRUE, fault |-> FALSE, sentTo |-> 0]
CmdOver == [NoCmd EXCEPT !.pc = "over"]
NoPoll == [pc |-> "idle", tok |-> 0]

LxInit ==
    /\ lxMode = "never" /\ lxRules = {} /\ settings = 0
    /\ lxRow = [tok |-> 1, revoked |-> FALSE, due |-> FALSE]
    /\ lxStream = [tok |-> 0, open |-> FALSE, by |-> "none"]
    /\ poll = [p \in Polls |-> NoPoll]
    /\ cmd = [c \in Cmds |-> NoCmd]
    /\ waiting = {} /\ buffered = {}
    /\ lxAudit = [c \in Cmds |-> "none"]

-----------------------------------------------------------------------------
(* The person's settings. *)

\* A change while a gate reads: what it read may never have stood together.
Unclean == [c \in Cmds |-> IF cmd[c].pc \in {"idle", "asked", "approved", "over"} THEN cmd[c]
                           ELSE [cmd[c] EXCEPT !.clean = FALSE]]

\* set_mode, add_rule, remove_rule
SettingChanged ==
    /\ settings < MaxSettings
    /\ settings' = settings + 1
    /\ \/ /\ lxMode' \in {"never", "ask", "bypass"} \ {lxMode}
          /\ UNCHANGED lxRules
       \/ /\ \E kind \in {"allow", "deny"} :
                lxRules' = IF kind \in lxRules THEN lxRules \ {kind} ELSE lxRules \cup {kind}
          /\ UNCHANGED lxMode
    /\ cmd' = Unclean
    /\ UNCHANGED <<lxRow, lxStream, poll, waiting, buffered, lxAudit>>

\* enrol_daemon, revoke_daemon: the row ..
DaemonEnrolled ==
    /\ lxRow.tok < MaxLxTok
    /\ lxRow' = [tok |-> lxRow.tok + 1, revoked |-> FALSE, due |-> TRUE]
    /\ UNCHANGED <<lxMode, lxRules, settings, lxStream, poll, cmd, waiting, buffered, lxAudit>>

DaemonRevoked ==
    /\ ~lxRow.revoked
    /\ lxRow' = [lxRow EXCEPT !.revoked = TRUE, !.due = TRUE]
    /\ UNCHANGED <<lxMode, lxRules, settings, lxStream, poll, cmd, waiting, buffered, lxAudit>>

\* .. then disconnect: the stream out of the broker and ended.
DaemonCutOff ==
    /\ lxRow.due
    /\ lxRow' = [lxRow EXCEPT !.due = FALSE]
    /\ lxStream' = [lxStream EXCEPT !.open = FALSE]
    /\ UNCHANGED <<lxMode, lxRules, settings, poll, cmd, waiting, buffered, lxAudit>>

-----------------------------------------------------------------------------
(* The daemon's stream. *)

\* daemon_from_bearer
DaemonKnown(tok) == lxRow.tok = tok /\ ~lxRow.revoked

PollChecked(p) ==
    /\ poll[p].pc = "idle" /\ DaemonKnown(lxRow.tok)
    /\ poll' = [poll EXCEPT ![p] = [pc |-> "connect", tok |-> lxRow.tok]]
    /\ UNCHANGED <<lxMode, lxRules, settings, lxRow, lxStream, cmd, waiting, buffered, lxAudit>>

\* connect: a reconnect wins
PollConnected(p) ==
    /\ poll[p].pc = "connect"
    /\ lxStream' = [tok |-> poll[p].tok, open |-> TRUE, by |-> p]
    /\ poll' = [poll EXCEPT ![p].pc = "recheck"]
    /\ UNCHANGED <<lxMode, lxRules, settings, lxRow, cmd, waiting, buffered, lxAudit>>

KeepsStream(tok) == TRUE
LooksAgain(tok) == DaemonKnown(tok)

\* poll_requests asks again: a token retired meanwhile keeps no stream.
PollRechecked(p) ==
    /\ poll[p].pc = "recheck"
    /\ lxStream' = IF lxStream.by = p /\ ~LooksAgain(poll[p].tok)
                   THEN [lxStream EXCEPT !.open = FALSE] ELSE lxStream
    /\ poll' = [poll EXCEPT ![p] = NoPoll]
    /\ UNCHANGED <<lxMode, lxRules, settings, lxRow, cmd, waiting, buffered, lxAudit>>

-----------------------------------------------------------------------------
(* The gate. *)

\* run_direct, or a Bot's call; load_policy reads the mode, its failure as
\* "never" ..
GateBegins(c) ==
    /\ cmd[c].pc \in {"idle", "approved"}
    /\ \E who \in {"user", "bot"}, mode \in {lxMode, "never"} :
          /\ cmd[c].pc = "approved" => who = "bot"
          /\ cmd' = [cmd EXCEPT ![c] = [NoCmd EXCEPT !.pc = "allow", !.who = who,
                                          !.approved = (cmd[c].pc = "approved"), !.mode = mode]]
    /\ UNCHANGED <<lxMode, lxRules, settings, lxRow, lxStream, poll, waiting, buffered, lxAudit>>

\* .. then the allow rules, then the deny rules, a failure as none.
AllowRead(c) ==
    /\ cmd[c].pc = "allow"
    /\ \E read \in {"allow" \in lxRules, FALSE} :
          cmd' = [cmd EXCEPT ![c].pc = "deny", ![c].allow = read]
    /\ UNCHANGED <<lxMode, lxRules, settings, lxRow, lxStream, poll, waiting, buffered, lxAudit>>

DenyRead(c) ==
    /\ cmd[c].pc = "deny"
    /\ \E fault \in BOOLEAN :
          cmd' = [cmd EXCEPT ![c].pc = "decide", ![c].deny = ~fault /\ "deny" \in lxRules,
                             ![c].fault = fault]
    /\ UNCHANGED <<lxMode, lxRules, settings, lxRow, lxStream, poll, waiting, buffered, lxAudit>>

\* decide: deny wins over allow.
Decision(q) ==
    IF q.mode = "never" THEN "deny"
    ELSE IF q.mode = "bypass" THEN "allow"
    ELSE IF q.deny THEN "deny" ELSE IF q.allow THEN "allow" ELSE "ask"

Ungated(q) == q.approved \/ Decision(q) = "allow" \/ (q.who = "user" /\ Decision(q) = "ask")

\* enqueue_and_wait: a person's own command skips the ask, and so does an
\* approved one; neither skips a deny.
MayPass(q) == Decision(q) = "allow" \/ (Decision(q) = "ask" /\ (q.who = "user" \/ q.approved))

\* The audit row is written before anything is sent.
GateDecides(c) ==
    /\ cmd[c].pc = "decide"
    /\ LET q == cmd[c]
           word == IF MayPass(q) THEN "allow" ELSE Decision(q)
       IN  /\ lxAudit' = [lxAudit EXCEPT ![c] = word]
           /\ cmd' = [cmd EXCEPT ![c] = IF MayPass(q) THEN [q EXCEPT !.pc = "dispatch"]
                                        ELSE IF word = "ask" THEN [NoCmd EXCEPT !.pc = "asked"]
                                        ELSE CmdOver]
    /\ UNCHANGED <<lxMode, lxRules, settings, lxRow, lxStream, poll, waiting, buffered>>

\* The person answers the card, however much later; the gate judges again.
PersonApproves(c) ==
    /\ cmd[c].pc = "asked"
    /\ cmd' = [cmd EXCEPT ![c].pc = "approved"]
    /\ UNCHANGED <<lxMode, lxRules, settings, lxRow, lxStream, poll, waiting, buffered, lxAudit>>

-----------------------------------------------------------------------------
(* The broker. *)

\* dispatch: down the stream there is, or offline.
Dispatched(c) ==
    /\ cmd[c].pc = "dispatch"
    /\ IF lxStream.open
       THEN /\ cmd' = [cmd EXCEPT ![c].pc = "sent", ![c].sentTo = lxStream.tok]
            /\ waiting' = waiting \cup {c}
            /\ UNCHANGED lxAudit
       ELSE /\ cmd' = [cmd EXCEPT ![c] = CmdOver]
            /\ lxAudit' = [lxAudit EXCEPT ![c] = "offline"]
            /\ UNCHANGED waiting
    /\ UNCHANGED <<lxMode, lxRules, settings, lxRow, lxStream, poll, buffered>>

\* accumulate: kept while somebody waits.
ChunkPosted(c) ==
    /\ c \in waiting /\ ~lxRow.revoked
    /\ buffered' = buffered \cup {c}
    /\ UNCHANGED <<lxMode, lxRules, settings, lxRow, lxStream, poll, cmd, waiting, lxAudit>>

\* finish_stream, with what was buffered; resolve, with the result's own.
ResultPosted(c, streamed) ==
    /\ c \in waiting /\ ~lxRow.revoked
    /\ waiting' = waiting \ {c}
    /\ buffered' = IF streamed THEN buffered \ {c} ELSE buffered
    /\ cmd' = [cmd EXCEPT ![c] = CmdOver]
    /\ lxAudit' = [lxAudit EXCEPT ![c] = IF cmd[c].pc = "sent" THEN "finished" ELSE @]
    /\ UNCHANGED <<lxMode, lxRules, settings, lxRow, lxStream, poll>>

\* cancel, when the command's time is up.
CommandTimesOut(c) ==
    /\ cmd[c].pc = "sent"
    /\ waiting' = waiting \ {c} /\ buffered' = buffered \ {c}
    /\ cmd' = [cmd EXCEPT ![c] = CmdOver]
    /\ lxAudit' = [lxAudit EXCEPT ![c] = "timeout"]
    /\ UNCHANGED <<lxMode, lxRules, settings, lxRow, lxStream, poll>>

\* The caller is dropped where it waits (its request hung up): nobody cancels.
CallerGone(c) ==
    /\ cmd[c].pc = "sent"
    /\ cmd' = [cmd EXCEPT ![c].pc = "gone"]
    /\ UNCHANGED <<lxMode, lxRules, settings, lxRow, lxStream, poll, waiting, buffered, lxAudit>>

LxNext ==
    \/ SettingChanged \/ DaemonEnrolled \/ DaemonRevoked \/ DaemonCutOff
    \/ \E p \in Polls : PollChecked(p) \/ PollConnected(p) \/ PollRechecked(p)
    \/ \E c \in Cmds : \/ GateBegins(c) \/ AllowRead(c) \/ DenyRead(c) \/ GateDecides(c)
                       \/ PersonApproves(c) \/ Dispatched(c) \/ ChunkPosted(c)
                       \/ ResultPosted(c, TRUE) \/ ResultPosted(c, FALSE)
                       \/ CommandTimesOut(c) \/ CallerGone(c)

LxSpec == LxInit /\ [][LxNext]_lxVars

-----------------------------------------------------------------------------
Sent(c) == cmd[c].pc \in {"sent", "gone"}

\* An approval is of the command, not of the rules: what goes down the stream,
\* at once or approved long after, is something the mode and the rules still
\* admit, unless they changed after its gate began to read them; it was on
\* the audit log first; and a stream whose token was retired, in whatever order
\* its opening and the retiring came, is sent nothing once both are done.
RanAsAllowed ==
    /\ \A c \in Cmds : Sent(c) =>
          /\ lxAudit[c] = "allow"
          /\ cmd[c].clean /\ ~cmd[c].fault =>
                /\ lxMode # "never"
                /\ lxMode = "ask" => "deny" \notin lxRules
    /\ lxStream.open =>
          \/ DaemonKnown(lxStream.tok) \/ lxRow.due
          \/ \E p \in Polls : poll[p].pc = "recheck" /\ lxStream.by = p

\* "a store error reads as "no policy", which is `Never`, i.e. closed"
\* (load_policy): under ask, a command a deny rule matches does not run.
DenyHolds ==
    \A c \in Cmds : Sent(c) /\ cmd[c].clean /\ lxMode = "ask" => "deny" \notin lxRules

------------------------------------------------------------------------------
(***************************************************************************)
(* How the gate reads a command line before an allow rule may cover it     *)
(* (opengrok-policy/src/shell.rs, read): one pass over the characters,     *)
(* keeping quotes, words and what makes the line more than one plain       *)
(* command.  Characters are their classes: "a" any other, "b" blank, "o" an *)
(* operator (; & | newline), "s" and "d" the quotes, "e" the backslash,    *)
(* "v" a dollar, "p" a parenthesis or brace, "t" a backtick, "h" a hash,   *)
(* "g" a redirection, "w" a word that runs another program.                *)
(***************************************************************************)
CONSTANTS CharClasses, MaxLine   \* bound: characters of a line

VARIABLES
    chars,     \* the line
    pos,       \* the next character
    reader     \* Reader, and the open quote

shellVars == <<chars, pos, reader>>

NewReader == [quote |-> "none", words |-> <<>>, word |-> <<>>, inWord |-> FALSE,
              expands |-> FALSE, programExpands |-> FALSE, opaque |-> FALSE, nested |-> FALSE]

ShellInit ==
    /\ chars \in UNION {[1 .. n -> CharClasses] : n \in 1 .. MaxLine}
    /\ pos = 1
    /\ reader = NewReader

CharAt(i) == IF i \in 1 .. Len(chars) THEN chars[i] ELSE "end"
ThisChar == CharAt(pos)
NextChar == CharAt(pos + 1)

EndWord(r) ==
    IF ~r.inWord THEN [r EXCEPT !.expands = FALSE]
    ELSE [r EXCEPT !.words = Append(@, r.word), !.word = <<>>, !.inWord = FALSE, !.expands = FALSE,
                   !.programExpands = @ \/ (r.words = <<>> /\ r.expands)]

Pushed(r, c) == [r EXCEPT !.word = Append(@, c), !.inWord = TRUE]

\* Inside single quotes everything is itself.
ReadSingle(r) == IF ThisChar = "s" THEN [r EXCEPT !.quote = "none"] ELSE Pushed(r, ThisChar)

ReadDoubleAsSingle(r) == IF ThisChar = "d" THEN [r EXCEPT !.quote = "none"] ELSE Pushed(r, ThisChar)

\* Inside double quotes a substitution still runs, and a backslash hides what
\* could end the quote or begin one.
ReadDouble(r) ==
    CASE ThisChar = "d" -> [r EXCEPT !.quote = "none"]
      [] ThisChar = "e" /\ NextChar \in {"v", "t", "d", "e"} -> Pushed(r, NextChar)
      [] ThisChar = "t" \/ (ThisChar = "v" /\ NextChar = "p") -> [r EXCEPT !.nested = TRUE]
      [] ThisChar = "v" /\ NextChar # "p" -> Pushed([r EXCEPT !.expands = TRUE], "v")
      [] OTHER -> Pushed(r, ThisChar)

ReadBare(r) ==
    CASE ThisChar = "b" -> EndWord(r)
      [] ThisChar = "e" -> IF NextChar = "end" THEN [r EXCEPT !.opaque = TRUE] ELSE Pushed(r, NextChar)
      [] ThisChar = "s" -> [r EXCEPT !.inWord = TRUE, !.quote = "single"]
      [] ThisChar = "d" -> [r EXCEPT !.inWord = TRUE, !.quote = "double"]
      [] ThisChar = "h" /\ ~r.inWord -> [r EXCEPT !.opaque = TRUE]
      [] ThisChar \in {"t", "p"} -> [r EXCEPT !.nested = TRUE]
      [] ThisChar = "v" -> Pushed([r EXCEPT !.expands = (@ \/ NextChar # "p"),
                                        !.nested = (@ \/ NextChar = "p")], "v")
      [] ThisChar = "g" -> [r EXCEPT !.opaque = TRUE]
      [] ThisChar = "o" -> [EndWord(r) EXCEPT !.opaque = TRUE]
      [] OTHER -> Pushed(r, ThisChar)

\* A backslash takes the character it hides with it.
Taken(r) ==
    IF ThisChar = "e" /\ (r.quote = "none" \/ (r.quote = "double" /\ NextChar \in {"v", "t", "d", "e"}))
    THEN 2 ELSE 1

ReadChar ==
    /\ pos <= Len(chars)
    /\ reader' = IF reader.quote = "single" THEN ReadSingle(reader)
                 ELSE IF reader.quote = "double" THEN ReadDouble(reader) ELSE ReadBare(reader)
    /\ pos' = pos + Taken(reader)
    /\ UNCHANGED chars

ReadEnds ==
    /\ pos > Len(chars) /\ pos < MaxLine + 3
    /\ reader' = EndWord(reader)
    /\ pos' = MaxLine + 3
    /\ UNCHANGED chars

ShellNext == ReadChar \/ ReadEnds
ShellSpec == ShellInit /\ [][ShellNext]_shellVars

\* Line::plain: one command of literal words whose program is itself.
Plain ==
    /\ pos = MaxLine + 3
    /\ ~reader.opaque /\ ~reader.nested /\ reader.quote = "none" /\ ~reader.programExpands
    /\ reader.words # <<>>
    /\ "w" \notin {reader.words[1][i] : i \in 1 .. Len(reader.words[1])}

-----------------------------------------------------------------------------
(* What a shell does with the line, by its own rules. *)

\* The quoting in force at each character.
Quoting ==
    LET mode[i \in 0 .. Len(chars)] ==
          IF i = 0 THEN "bare"
          ELSE LET was == mode[i - 1]  c == chars[i]
               IN  IF was = "single" THEN IF c = "s" THEN "bare" ELSE "single"
                   ELSE IF was = "double" THEN IF c = "d" THEN "bare" ELSE IF c = "e" THEN "hidden" ELSE "double"
                   ELSE IF was = "hidden" THEN "double"
                   ELSE IF was = "escaped" THEN "bare"
                   ELSE IF c = "s" THEN "single" ELSE IF c = "d" THEN "double"
                   ELSE IF c = "e" THEN "escaped" ELSE "bare"
    IN  [i \in 1 .. Len(chars) + 1 |-> mode[i - 1]]

\* Where it would begin something else: an operator, a group, a redirection, a
\* comment or a substitution.
BeginsMore(i) ==
    \/ Quoting[i] = "bare" /\ chars[i] \in {"o", "p", "g", "t"}
    \/ Quoting[i] = "bare" /\ chars[i] = "h" /\ (i = 1 \/ (Quoting[i - 1] = "bare" /\ chars[i - 1] \in {"b", "o"}))
    \/ Quoting[i] = "double" /\ chars[i] = "t"
    \/ Quoting[i] \in {"bare", "double"} /\ chars[i] = "v" /\ CharAt(i + 1) = "p"

\* "only a line that is ONE plain simple command can be covered" by an allow
\* rule (local_exec.rs, decide): what the reader calls plain, a shell runs as
\* one command, with no quote left open and nothing else begun.
PlainIsOneCommand ==
    Plain => /\ Quoting[Len(chars) + 1] = "bare"
             /\ \A i \in 1 .. Len(chars) : ~BeginsMore(i)
==============================================================================
