--------------------------- MODULE RunProtocol_proof ---------------------------
(***************************************************************************)
(* Proofs about RunProtocol: the inductive invariant IInv, and the safety  *)
(* properties that follow from it, for every number of POSTs, loops,       *)
(* people, sweepers, calls, resumes and faults; and, at the end, that      *)
(* RunProtocol implements RunContract.                                     *)
(*                                                                         *)
(* The steps fall into three kinds, each with a lemma of its own: one that *)
(* moves a single loop and leaves the log alone, one that moves a POST, a  *)
(* person or a sweeper and leaves the log alone, and one that appends.     *)
(***************************************************************************)
EXTENDS RunProtocol, TLAPS

USE CallAssumption, MaxResumesAssumption, MaxFaultsAssumption

\* A step that only moves one loop keeps every other writer's part of the invariant.
LEMMA LoopOnlyStep ==
    ASSUME IInv, NEW l \in Loop, NEW st \in LoopState,
           loop' = [loop EXCEPT ![l] = st],
           UNCHANGED <<run, seq, post, person, sweep, ran>>,
           asked' \in SUBSET Call, asked \subseteq asked',
           fresh' \in BOOLEAN, faults' \in 0..MaxFaults, lapsed' \in BOOLEAN,
           LoopOK(l)',
           st.pc # "idle" => (Live(l) /\ st.gen = loop[l].gen)
    PROVE  IInv'
<1>1. TypeOK'
  BY DEF IInv, TypeOK
<1>2. RunOK'
  BY DEF IInv, RunOK
<1>3. \A p \in Post : PostOK(p)'
  BY DEF IInv, PostOK
<1>4. \A w \in Person : PersonOK(w)'
  BY DEF IInv, PersonOK
<1>5. \A s \in Sweeper : SweepOK(s)'
  BY DEF IInv, SweepOK
<1>6. \A m \in Loop : LoopOK(m)'
  <2> SUFFICES ASSUME NEW m \in Loop, m # l PROVE LoopOK(m)'
    OBVIOUS
  <2>1. loop'[m] = loop[m]
    BY DEF IInv, TypeOK
  <2>2. LoopOK(m)
    BY DEF IInv
  <2> QED
    BY <2>1, <2>2 DEF LoopOK, LoopRead, LoopHands, LoopDrives, Drives, Live
<1>7. OneDriver'
  BY DEF IInv, TypeOK, OneDriver, Live
<1>8. RunsAtMostOnce' /\ DeniedNeverRuns'
  BY DEF IInv, RunsAtMostOnce, DeniedNeverRuns
<1> QED
  BY <1>1, <1>2, <1>3, <1>4, <1>5, <1>6, <1>7, <1>8 DEF IInv

\* A loop that is over, or was never spawned, owes nothing.
LEMMA IdleOK ==
    ASSUME TypeOK', NEW l \in Loop, loop'[l] = IdleLoop
    PROVE  LoopOK(l)'
BY DEF TypeOK, LoopOK, LoopRead, LoopHands, LoopDrives, Drives, Live, IdleLoop

\* A loop that somebody else's append passes by.
LEMMA Bystander ==
    ASSUME IInv, TypeOK', NEW m \in Loop, loop'[m] = loop[m],
           seq' = seq + 1, UNCHANGED <<asked, ran>>,
           run'.started, run.generation <= run'.generation,
           loop[m].pc = "world" =>
              run'.generation = run.generation /\ loop[m].calls \subseteq run'.open,
           (Live(m) /\ loop[m].gen = run'.generation) =>
              /\ Drives(m)
              /\ run'.status # "awaiting-approval"
              /\ run'.answered \ run'.approved \subseteq run.answered \ run.approved
    PROVE  LoopOK(m)'
<1>1. LoopOK(m) /\ loop[m] \in LoopState /\ run \in RunState /\ run' \in RunState /\ seq \in Nat
  BY DEF IInv, TypeOK
<1>2. LoopRead(m)'
  BY <1>1 DEF LoopOK, LoopRead, LoopState
<1>3. LoopHands(m)'
  BY <1>1 DEF LoopOK, LoopHands
<1>4. LoopDrives(m)'
  BY <1>1 DEF LoopOK, LoopDrives, Drives, Live, LoopState, RunState
<1> QED
  BY <1>2, <1>3, <1>4 DEF LoopOK

\* An append: whoever read before it reads a conflict.
LEMMA AppendStep ==
    ASSUME IInv, TypeOK', run'.started, seq' = seq + 1, UNCHANGED <<asked, ran>>,
           \A p \in Post : post'[p] = post[p] \/ (post'[p].pc # "claim" /\ post'[p].at = 0),
           \A w \in Person : person'[w] = person[w] \/ person'[w] = Rests("idle"),
           \A s \in Sweeper : sweep'[s] = sweep[s] \/ sweep'[s] = [pc |-> "idle", at |-> 0],
           RunOK', \A l \in Loop : LoopOK(l)', OneDriver', DeniedNeverRuns'
    PROVE  IInv'
<1>1. \A p \in Post : PostOK(p)'
  BY DEF IInv, TypeOK, PostOK, PostState
<1>2. \A w \in Person : PersonOK(w)'
  BY DEF IInv, TypeOK, PersonOK, PersonState, Rests
<1>3. \A s \in Sweeper : SweepOK(s)'
  BY DEF IInv, TypeOK, SweepOK, SweepState
<1>4. RunsAtMostOnce'
  BY DEF IInv, RunsAtMostOnce
<1> QED
  BY <1>1, <1>2, <1>3, <1>4 DEF IInv

\* Nobody is added to a generation: one loop goes on in its own, or is over.
LEMMA SameDrivers ==
    ASSUME TypeOK, OneDriver, NEW l \in Loop, NEW st,
           loop' = [loop EXCEPT ![l] = st],
           st.pc # "idle" => (Live(l) /\ st.gen = loop[l].gen)
    PROVE  OneDriver'
BY DEF TypeOK, OneDriver, Live

\* Only the driving loop can be where a driving loop is.
LEMMA DriverAlone ==
    ASSUME IInv, NEW l \in Loop, Drives(l), NEW m \in Loop, m # l
    PROVE  ~Drives(m) /\ loop[m].pc # "world"
BY DEF IInv, OneDriver, LoopOK, LoopDrives, Drives, Live

-----------------------------------------------------------------------------
(* What each event makes of a run is a run.                                 *)

\* Applying an event to a typed run gives a typed run (run.rs, apply).
LEMMA ApplyTypes ==
    ASSUME NEW r \in RunState
    PROVE  /\ ApplyStarted(r) \in RunState
           /\ \A calls \in SUBSET Call : /\ ApplyResults(r, calls) \in RunState
                                         /\ ApplyToolStarted(r, calls) \in RunState
           /\ \A c \in Call : /\ ApplySuspended(r, c) \in RunState
                              /\ \A yes \in BOOLEAN : ApplyAnswered(r, c, yes) \in RunState
           /\ r.generation < MaxResumes => ApplyResumed(r) \in RunState
           /\ ApplyFinished(r) \in RunState
           /\ ApplyFailed(r) \in RunState
           /\ ApplyStopped(r) \in RunState
<1> USE DEF RunState, Status
<1>1. ApplyStarted(r) \in RunState
  BY DEF ApplyStarted
<1>2. \A calls \in SUBSET Call : ApplyResults(r, calls) \in RunState
  BY DEF ApplyResults
<1>3. \A calls \in SUBSET Call : ApplyToolStarted(r, calls) \in RunState
  BY DEF ApplyToolStarted
<1>4. \A c \in Call : ApplySuspended(r, c) \in RunState
  BY DEF ApplySuspended
<1>5. \A c \in Call, yes \in BOOLEAN : ApplyAnswered(r, c, yes) \in RunState
  BY DEF ApplyAnswered
<1>6. r.generation < MaxResumes => ApplyResumed(r) \in RunState
  BY DEF ApplyResumed
<1>7. ApplyFinished(r) \in RunState /\ ApplyFailed(r) \in RunState
  BY DEF ApplyFinished, ApplyFailed
<1>8. ApplyStopped(r) \in RunState
  BY DEF ApplyStopped
<1> QED
  BY <1>1, <1>2, <1>3, <1>4, <1>5, <1>6, <1>7, <1>8

\* A loop is spawned into a generation that has none.
LEMMA SpawnOK ==
    ASSUME TypeOK, TypeOK', OneDriver, NEW l \in Loop, NEW by, NEW as, NEW gen, NEW calls,
           Spawn(l, by, as, gen, calls),
           \A m \in Loop : Live(m) => loop[m].gen # gen,
           run'.started, run'.generation = gen, run'.status # "awaiting-approval",
           calls \subseteq asked', as = "answer" => calls # {}, \A c \in calls : ran'[c] = 0
    PROVE  LoopOK(l)' /\ OneDriver' /\ \A m \in Loop \ {l} : loop'[m] = loop[m]
<1>1. loop'[l].pc = "spawned" /\ loop'[l].gen = gen /\ loop'[l].calls = calls
      /\ loop'[l].as = as /\ loop'[l].at = 0 /\ loop'[l].ending = "none"
  <2> DEFINE st == [IdleLoop EXCEPT !.pc = "spawned", !.by = by, !.as = as,
                                    !.gen = gen, !.calls = calls]
  <2>1. loop'[l] = st
    BY DEF TypeOK, Spawn
  <2>2. st.pc = "spawned" /\ st.gen = gen /\ st.calls = calls
        /\ st.as = as /\ st.at = 0 /\ st.ending = "none"
    BY DEF IdleLoop
  <2> QED
    BY <2>1, <2>2
<1>2. \A m \in Loop \ {l} : loop'[m] = loop[m]
  BY DEF TypeOK, Spawn
<1>3. OneDriver'
  BY <1>1, <1>2 DEF OneDriver, Live
<1>4. LoopOK(l)'
  <2>1. LoopRead(l)'
    BY <1>1 DEF TypeOK, LoopRead
  <2>2. LoopHands(l)'
    BY <1>1 DEF LoopHands
  <2>3. LoopDrives(l)'
    BY <1>1 DEF TypeOK, RunState, LoopDrives, Drives
  <2> QED
    BY <2>1, <2>2, <2>3 DEF LoopOK
<1> QED
  BY <1>2, <1>3, <1>4

\* A spawned loop is typed, and it is the only loop that changes (continue_run).
LEMMA SpawnType ==
    ASSUME TypeOK, NEW l \in Loop, NEW by \in {"post", "answer", "sweep"},
           NEW as \in {"turn", "answer", "interrupted"}, NEW gen \in 0..MaxResumes,
           NEW calls \in SUBSET Call, Spawn(l, by, as, gen, calls)
    PROVE  loop' \in [Loop -> LoopState]
BY DEF TypeOK, Spawn, IdleLoop, LoopState, LoopPc

\* A step that leaves the log and the loops alone.
LEMMA ReaderStep ==
    ASSUME IInv, TypeOK', UNCHANGED <<run, seq, loop, asked, ran>>,
           \A p \in Post : PostOK(p)', \A w \in Person : PersonOK(w)',
           \A s \in Sweeper : SweepOK(s)'
    PROVE  IInv'
BY DEF IInv, RunOK, LoopOK, LoopRead, LoopHands, LoopDrives, Drives, Live, OneDriver,
       RunsAtMostOnce, DeniedNeverRuns

\* Nobody reads differently from a log that did not change.
LEMMA ReadersAlone ==
    ASSUME IInv, UNCHANGED <<run, seq>>
    PROVE  /\ UNCHANGED post => \A p \in Post : PostOK(p)'
           /\ UNCHANGED person => \A w \in Person : PersonOK(w)'
           /\ UNCHANGED sweep => \A s \in Sweeper : SweepOK(s)'
BY DEF IInv, PostOK, PersonOK, SweepOK

-----------------------------------------------------------------------------
(* POSTs.                                                                   *)

\* The claim, whether its reply arrives or not.
LEMMA ClaimLands ==
    ASSUME IInv, NEW p \in Post, post[p].pc = "claim", PostOnly(p, "replied", 0),
           Append(post[p].at, ApplyStarted(run)), faults' \in 0..MaxFaults,
           UNCHANGED loop \/ \E l \in Loop : Spawn(l, "post", "turn", 0, {})
    PROVE  IInv'
<1>1. MayStart(run) /\ run = NewRun /\ TypeOK
  BY DEF IInv, RunOK, PostOK, Append, MayStart
<1>2. /\ run'.started /\ run'.status = "running" /\ run'.generation = 0 /\ run' \in RunState
      /\ run'.pending = NoCall /\ run'.unstarted = NoCall /\ run'.answered = {}
      /\ run'.approved = {} /\ seq' = seq + 1 /\ run.generation = 0
  BY <1>1, ApplyTypes DEF Append, TypeOK, NewRun, ApplyStarted
<1>3. \A m \in Loop : ~Live(m)
  BY <1>1 DEF IInv, LoopOK, LoopDrives, MayStart
<1>4. loop' \in [Loop -> LoopState]
  BY <1>1, SpawnType DEF TypeOK
<1>5. TypeOK'
  BY <1>1, <1>2, <1>4 DEF TypeOK, PostOnly, PostState, Append
<1>6. RunOK' /\ DeniedNeverRuns'
  BY <1>1, <1>2 DEF IInv, RunOK, DeniedNeverRuns, PostOnly, Ended, Ending
<1>7. \A m \in Loop : loop'[m] = loop[m] => LoopOK(m)'
  BY <1>2, <1>3, <1>5, Bystander DEF PostOnly, Live
<1>8. (\A m \in Loop : LoopOK(m)') /\ OneDriver'
  <2>1. CASE UNCHANGED loop
    BY <1>7, <2>1 DEF IInv, OneDriver, Live
  <2>2. ASSUME NEW l \in Loop, Spawn(l, "post", "turn", 0, {})
        PROVE  (\A m \in Loop : LoopOK(m)') /\ OneDriver'
    <3>1. LoopOK(l)' /\ OneDriver' /\ \A m \in Loop \ {l} : loop'[m] = loop[m]
      BY <1>1, <1>2, <1>3, <1>5, <2>2, SpawnOK DEF IInv, PostOnly
    <3> QED
      BY <1>7, <3>1
  <2> QED
    BY <2>1, <2>2
<1> QED
  BY <1>1, <1>2, <1>5, <1>6, <1>8, AppendStep DEF PostOnly, TypeOK

\* The steps of a POST keep the invariant (answer_for_existing_run, claim).
LEMMA PostStep ==
    ASSUME IInv, NEW p \in Post, PostActs(p)
    PROVE  IInv'
<1>1. CASE UNCHANGED <<run, seq, fresh, loop>> /\ faults' \in 0..MaxFaults
           /\ \E pc \in {"setup", "claim", "replied"}, at \in {0, seq} :
                 PostOnly(p, pc, at) /\ (pc = "claim" => MayStart(run))
  <2>1. TypeOK'
    BY <1>1 DEF IInv, TypeOK, PostOnly, PostState
  <2>2. \A q \in Post : PostOK(q)'
    BY <1>1 DEF IInv, TypeOK, PostOnly, PostOK, PostState
  <2> QED
    BY <1>1, <2>1, <2>2, ReaderStep, ReadersAlone DEF PostOnly
<1>2. CASE PostArrives(p)
  BY <1>1, <1>2 DEF PostArrives, IInv, TypeOK
<1>3. CASE PostReads(p)
  BY <1>1, <1>3 DEF PostReads, IInv, TypeOK
<1>4. CASE PostClaims(p)
  <2>1. faults' \in 0..MaxFaults
    BY <1>4 DEF PostClaims, LostWrite, LostReply, Fault, IInv, TypeOK
  <2>2. CASE UNCHANGED <<run, seq, fresh, loop>>
    BY <1>1, <1>4, <2>1, <2>2 DEF PostClaims
  <2>3. CASE Append(post[p].at, ApplyStarted(run))
    BY <1>4, <2>1, <2>3, ClaimLands DEF PostClaims
  <2> QED
    BY <1>4, <2>2, <2>3 DEF PostClaims, LostWrite, LostReply, log
<1> QED
  BY <1>2, <1>3, <1>4 DEF PostActs

-----------------------------------------------------------------------------
(* People.                                                                  *)

\* The run is ended under whoever drives it.
LEMMA EndedUnder ==
    ASSUME IInv, run.started, run' \in {ApplyStopped(run), ApplyFailed(run)},
           seq' = seq + 1, TypeOK', UNCHANGED <<post, asked, ran>>,
           \A w \in Person : person'[w] = person[w] \/ person'[w] = Rests("idle"),
           \A s \in Sweeper : sweep'[s] = sweep[s] \/ sweep'[s] = [pc |-> "idle", at |-> 0],
           \A m \in Loop : loop'[m] = loop[m] \/ loop'[m] = IdleLoop
    PROVE  IInv'
<1>1. run \in RunState /\ TypeOK
  BY DEF IInv, TypeOK
<1>2. /\ run'.started /\ Ended(run)' /\ run'.status # "awaiting-approval"
      /\ run'.generation = run.generation /\ run'.open = run.open
      /\ run'.answered = run.answered /\ run'.approved = run.approved
      /\ run'.unstarted = run.unstarted /\ run'.pending \in {run.pending, NoCall}
  <2>1. CASE run' = ApplyStopped(run)
    BY <1>1, <2>1 DEF RunState, ApplyStopped, Ended, Ending
  <2>2. CASE run' = ApplyFailed(run)
    BY <1>1, <2>2 DEF RunState, ApplyFailed, Ended, Ending
  <2> QED
    BY <2>1, <2>2
<1>3. RunOK' /\ DeniedNeverRuns'
  BY <1>2 DEF IInv, RunOK, DeniedNeverRuns
<1>4. \A m \in Loop : LoopOK(m)'
  <2> SUFFICES ASSUME NEW m \in Loop PROVE LoopOK(m)'
    OBVIOUS
  <2>1. CASE loop'[m] = IdleLoop
    BY <2>1, IdleOK
  <2>2. CASE loop'[m] = loop[m]
    <3>1. loop[m].pc = "world" => loop[m].calls \subseteq run'.open
      BY <1>2 DEF IInv, LoopOK, LoopDrives
    <3> QED
      BY <1>1, <1>2, <2>2, <3>1, Bystander DEF Drives, RunState
  <2> QED
    BY <2>1, <2>2
<1>5. OneDriver'
  BY DEF IInv, OneDriver, Live, IdleLoop
<1> QED
  BY <1>2, <1>3, <1>4, <1>5, AppendStep

\* The answer, whether its reply arrives, its continuation is spawned, or neither.
LEMMA AnswerLands ==
    ASSUME IInv, NEW w \in Person, person[w].pc = "answer",
           PersonOnly(w, Rests("idle")),
           Append(person[w].at, ApplyAnswered(run, person[w].call, person[w].yes)),
           faults' \in 0..MaxFaults,
           \/ UNCHANGED loop
           \/ \E l \in Loop : Spawn(l, "answer", "answer", run.generation, {person[w].call})
    PROVE  IInv'
<1> DEFINE c == person[w].call
<1>1. /\ TypeOK /\ run \in RunState /\ c \in Call /\ person[w].yes \in BOOLEAN
      /\ c \notin run.answered /\ run.pending = c /\ run.started /\ ~Ended(run)
      /\ seq' = seq + 1 /\ run' = ApplyAnswered(run, c, person[w].yes)
  BY DEF IInv, TypeOK, PersonOK, PersonState, Append, MayEnd
<1>2. /\ run.status = "awaiting-approval" /\ ran[c] = 0 /\ c \notin run.open /\ c \in asked
      /\ \A m \in Loop : ~Drives(m)
  BY <1>1 DEF IInv, RunOK, LoopOK, LoopDrives
<1>3. /\ run' \in RunState /\ run'.started /\ run'.status = "running"
      /\ run'.generation = run.generation /\ run'.open = run.open
      /\ run'.answered = run.answered \cup {c}
      /\ run'.approved \in {run.approved, run.approved \cup {c}}
      /\ run'.unstarted = c /\ run'.pending = NoCall
  <2>1. run' \in RunState
    BY <1>1, ApplyTypes
  <2>2. /\ run'.started = run.started /\ run'.status = "running"
        /\ run'.generation = run.generation /\ run'.open = run.open
        /\ run'.unstarted = c /\ run'.pending = NoCall
    BY <1>1 DEF RunState, ApplyAnswered
  <2>3. run'.answered = run.answered \cup {c}
    BY <1>1 DEF RunState, ApplyAnswered
  <2>4. run'.approved \in {run.approved, run.approved \cup {c}}
    BY <1>1 DEF RunState, ApplyAnswered
  <2> QED
    BY <1>1, <2>1, <2>2, <2>3, <2>4
<1>4. loop' \in [Loop -> LoopState]
  BY <1>1, SpawnType DEF TypeOK, RunState
<1>5. TypeOK'
  BY <1>1, <1>3, <1>4 DEF TypeOK, PersonOnly, PersonState, Rests, Append
<1>6. RunOK' /\ DeniedNeverRuns'
  BY <1>1, <1>2, <1>3 DEF IInv, RunOK, DeniedNeverRuns, PersonOnly, Ended, Ending
<1>7. \A m \in Loop : loop'[m] = loop[m] => LoopOK(m)'
  <2> SUFFICES ASSUME NEW m \in Loop, loop'[m] = loop[m] PROVE LoopOK(m)'
    OBVIOUS
  <2>1. loop[m].pc # "world"
    BY <1>2 DEF IInv, LoopOK, LoopDrives, Drives, Live
  <2> QED
    BY <1>1, <1>2, <1>3, <1>5, <2>1, Bystander DEF PersonOnly, Drives, RunState
<1>8. (\A m \in Loop : LoopOK(m)') /\ OneDriver'
  <2>1. CASE UNCHANGED loop
    BY <1>7, <2>1 DEF IInv, OneDriver, Live
  <2>2. ASSUME NEW l \in Loop, Spawn(l, "answer", "answer", run.generation, {c})
        PROVE  (\A m \in Loop : LoopOK(m)') /\ OneDriver'
    <3>1. LoopOK(l)' /\ OneDriver' /\ \A m \in Loop \ {l} : loop'[m] = loop[m]
      BY <1>1, <1>2, <1>3, <1>5, <2>2, SpawnOK DEF IInv, PersonOnly, Drives
    <3> QED
      BY <1>7, <3>1
  <2> QED
    BY <2>1, <2>2
<1> QED
  BY <1>1, <1>3, <1>5, <1>6, <1>8, AppendStep DEF PersonOnly, TypeOK

\* The steps of a person keep the invariant (answer_run, stop_run, stop_parked_run).
LEMMA PersonStep ==
    ASSUME IInv, NEW w \in Person, PersonActs(w)
    PROVE  IInv'
<1>1. ASSUME UNCHANGED <<run, seq, fresh, loop>>, faults' \in 0..MaxFaults,
             NEW p \in PersonState, PersonOnly(w, p),
             p.at \in {0, seq},
             p.pc = "answer" => p.call \in Call /\ AnswerVerdict(run, p.call) = "accepted",
             p.pc \in {"answer", "stop"} => run.started /\ MayEnd(run)
      PROVE  IInv'
  <2>1. TypeOK'
    BY <1>1 DEF IInv, TypeOK, PersonOnly
  <2>2. \A q \in Person : PersonOK(q)'
    BY <1>1 DEF IInv, TypeOK, PersonOnly, PersonOK, PersonState, AnswerVerdict
  <2> QED
    BY <1>1, <2>1, <2>2, ReaderStep, ReadersAlone DEF PersonOnly
<1>2. Rests("idle") \in PersonState /\ Rests("already") \in PersonState
  BY DEF Rests, PersonState
<1>3. ASSUME NEW c \in Call, NEW yes \in BOOLEAN, AnswerReads(w, c, yes)
      PROVE  IInv'
  <2> DEFINE p == [pc |-> "answer", call |-> c, yes |-> yes, at |-> seq]
  <2>1. p \in PersonState /\ seq \in Nat /\ faults' \in 0..MaxFaults
    BY <1>3 DEF PersonState, IInv, TypeOK, AnswerReads
  <2>2. CASE AnswerVerdict(run, c) = "accepted"
    BY <1>1, <1>3, <2>1, <2>2 DEF AnswerReads, AnswerVerdict, MayEnd
  <2>3. CASE AnswerVerdict(run, c) # "accepted"
    BY <1>1, <1>2, <1>3, <2>1, <2>3 DEF AnswerReads, Rests
  <2> QED
    BY <2>2, <2>3
<1>4. CASE AnswerAppends(w)
  <2>1. faults' \in 0..MaxFaults
    BY <1>4 DEF AnswerAppends, LostWrite, LostReply, Fault, IInv, TypeOK
  <2>2. CASE UNCHANGED <<run, seq, fresh, loop>>
    BY <1>1, <1>2, <1>4, <2>1, <2>2 DEF AnswerAppends, Rests
  <2>3. CASE Append(person[w].at, ApplyAnswered(run, person[w].call, person[w].yes))
    <3>1. seq' # seq
      BY <2>3 DEF Append, IInv, TypeOK
    <3>2. PersonOnly(w, Rests("idle")) /\ person[w].pc = "answer"
          /\ \/ UNCHANGED loop
             \/ \E l \in Loop : Spawn(l, "answer", "answer", run.generation, {person[w].call})
      BY <1>4, <3>1 DEF AnswerAppends, LostWrite, log
    <3> QED
      BY <2>1, <2>3, <3>2, AnswerLands
  <2> QED
    BY <1>4, <2>2, <2>3 DEF AnswerAppends, LostWrite, LostReply, log
<1>5. CASE StopReads(w) \/ InterruptReads(w)
  <2> DEFINE p == [Rests("stop") EXCEPT !.at = seq]
  <2>1. p \in PersonState /\ p.pc = "stop" /\ p.at = seq /\ seq \in Nat
    BY DEF Rests, PersonState, IInv, TypeOK
  <2>2. run.started /\ MayEnd(run)
    BY <1>5 DEF StopReads, InterruptReads, IInv, RunOK, NewRun, MayEnd, Ended, Ending
  <2> QED
    BY <1>1, <1>5, <2>1, <2>2 DEF StopReads, InterruptReads, IInv, TypeOK
<1>6. CASE StopAppends(w)
  <2>1. faults' \in 0..MaxFaults
    BY <1>6 DEF StopAppends, LostWrite, LostReply, Fault, IInv, TypeOK
  <2>2. CASE UNCHANGED <<run, seq, fresh>>
    BY <1>1, <1>2, <1>6, <2>1, <2>2 DEF StopAppends, Rests
  <2>3. CASE Append(person[w].at, ApplyStopped(run))
    <3>1. run.started /\ run \in RunState /\ seq' = seq + 1 /\ TypeOK
      BY <1>6, <2>3 DEF StopAppends, Append, IInv, PersonOK, TypeOK
    <3>2. TypeOK'
      BY <1>2, <1>6, <2>1, <2>3, <3>1, ApplyTypes DEF StopAppends, Append, TypeOK, PersonOnly
    <3> QED
      BY <1>6, <2>3, <3>1, <3>2, EndedUnder DEF StopAppends, Append, PersonOnly, TypeOK
  <2> QED
    BY <1>6, <2>2, <2>3 DEF StopAppends, LostWrite, LostReply, log
<1> QED
  BY <1>3, <1>4, <1>5, <1>6 DEF PersonActs

-----------------------------------------------------------------------------
(* The sweep.                                                               *)

\* A run moved into its next generation leaves every loop it had behind, none of them
\* where it touches the world: a tool would still be open.
LEMMA ResumeLands ==
    ASSUME IInv, NEW s \in Sweeper, sweep[s].pc = "resuming", SweepTo(s, "idle", 0),
           Append(sweep[s].at, ApplyResumed(run)), faults' \in 0..MaxFaults,
           \/ UNCHANGED loop
           \/ \E l \in Loop :
                 Spawn(l, "sweep", IF run.unstarted = NoCall THEN "interrupted" ELSE "answer",
                       run.generation + 1, {run.unstarted} \ {NoCall})
    PROVE  IInv'
<1>1. /\ TypeOK /\ run \in RunState /\ MayResume(run) /\ run.open = {} /\ run.started
      /\ run.status = "running" /\ run.generation < MaxResumes
      /\ seq' = seq + 1 /\ run' = ApplyResumed(run)
  BY DEF IInv, TypeOK, SweepOK, Append, MayResume
<1>2. /\ run' \in RunState /\ run'.started /\ run'.status = "running"
      /\ run'.generation = run.generation + 1 /\ run'.open = {}
      /\ run'.answered = run.answered /\ run'.approved = run.approved
      /\ run'.unstarted = run.unstarted /\ run'.pending = run.pending
  <2>1. run' \in RunState
    BY <1>1, ApplyTypes
  <2> QED
    BY <1>1, <2>1 DEF ApplyResumed, RunState
<1>3. run.generation + 1 \in 0..MaxResumes
  BY <1>1 DEF RunState
<1>4. loop' \in [Loop -> LoopState]
  <2>1. {run.unstarted} \ {NoCall} \in SUBSET Call
    BY <1>1 DEF RunState
  <2> QED
    BY <1>1, <1>3, <2>1, SpawnType DEF TypeOK
<1>5. TypeOK'
  BY <1>1, <1>2, <1>4 DEF TypeOK, SweepTo, SweepState, Append
<1>6. RunOK' /\ DeniedNeverRuns'
  BY <1>1, <1>2 DEF IInv, RunOK, DeniedNeverRuns, SweepTo, Ended, Ending
<1>7. \A m \in Loop : Live(m) => loop[m].gen <= run.generation
  BY DEF IInv, LoopOK, LoopDrives
<1>8. \A m \in Loop : Live(m) => loop[m].gen # run.generation + 1
  BY <1>1, <1>7 DEF TypeOK, RunState, LoopState
<1>9. \A m \in Loop : loop'[m] = loop[m] => LoopOK(m)'
  <2> SUFFICES ASSUME NEW m \in Loop, loop'[m] = loop[m] PROVE LoopOK(m)'
    OBVIOUS
  <2>1. loop[m].pc # "world"
    BY <1>1 DEF IInv, LoopOK, LoopDrives, LoopHands
  <2> QED
    BY <1>1, <1>2, <1>5, <1>8, <2>1, Bystander DEF SweepTo, RunState
<1>10. (\A m \in Loop : LoopOK(m)') /\ OneDriver'
  <2>1. CASE UNCHANGED loop
    BY <1>9, <2>1 DEF IInv, OneDriver, Live
  <2>2. ASSUME NEW l \in Loop,
               Spawn(l, "sweep", IF run.unstarted = NoCall THEN "interrupted" ELSE "answer",
                     run.generation + 1, {run.unstarted} \ {NoCall})
        PROVE  (\A m \in Loop : LoopOK(m)') /\ OneDriver'
    <3>1. /\ {run.unstarted} \ {NoCall} \subseteq asked'
          /\ \A c \in {run.unstarted} \ {NoCall} : ran'[c] = 0
          /\ run.unstarted # NoCall => {run.unstarted} \ {NoCall} # {}
      BY <1>1 DEF IInv, RunOK, SweepTo
    <3>2. LoopOK(l)' /\ OneDriver' /\ \A m \in Loop \ {l} : loop'[m] = loop[m]
      BY <1>1, <1>2, <1>5, <1>8, <2>2, <3>1, SpawnOK DEF IInv
    <3> QED
      BY <1>9, <3>2
  <2> QED
    BY <2>1, <2>2
<1> QED
  BY <1>1, <1>2, <1>5, <1>6, <1>10, AppendStep DEF SweepTo, TypeOK

\* The steps of a sweeper keep the invariant (sweep_once, resolve, fail_run).
LEMMA SweeperStep ==
    ASSUME IInv, NEW s \in Sweeper, SweepStep(s)
    PROVE  IInv'
<1>1. ASSUME UNCHANGED <<run, seq, loop>>, faults' \in 0..MaxFaults, fresh' \in BOOLEAN,
             NEW pc \in {"idle", "claimed", "failing", "resuming"}, NEW at \in {0, seq},
             SweepTo(s, pc, at), pc # "idle" => run.started,
             pc \in {"failing", "resuming"} => run.status = "running",
             pc = "resuming" => MayResume(run)
      PROVE  IInv'
  <2>1. TypeOK'
    BY <1>1 DEF IInv, TypeOK, SweepTo, SweepState
  <2>2. \A q \in Sweeper : SweepOK(q)'
    BY <1>1 DEF IInv, TypeOK, SweepTo, SweepOK, SweepState
  <2> QED
    BY <1>1, <2>1, <2>2, ReaderStep, ReadersAlone DEF SweepTo
<1>2. CASE SweepClaims(s)
  BY <1>1, <1>2 DEF SweepClaims, IInv, TypeOK
<1>3. CASE SweepResolves(s)
  <2>1. faults' \in 0..MaxFaults /\ run.started /\ run \in RunState
    BY <1>3 DEF SweepResolves, Fault, IInv, TypeOK, SweepOK
  <2>2. ASSUME NEW verdict \in SweepVerdicts
        PROVE  /\ verdict \in {"idle", "failing", "resuming"}
               /\ verdict \in {"failing", "resuming"} => run.status = "running"
               /\ verdict = "resuming" => MayResume(run)
    BY <2>1, <2>2 DEF SweepVerdicts, RunState, Status, Ended, Ending
  <2>3. CASE SweepTo(s, "idle", 0)
    BY <1>1, <1>3, <2>1, <2>3 DEF SweepResolves, IInv, TypeOK
  <2>4. ASSUME NEW verdict \in SweepVerdicts, SweepTo(s, verdict, seq)
        PROVE  IInv'
    BY <1>1, <1>3, <2>1, <2>2, <2>4 DEF SweepResolves, IInv, TypeOK
  <2> QED
    BY <1>3, <2>3, <2>4 DEF SweepResolves
<1>4. CASE SweepFails(s)
  <2>1. faults' \in 0..MaxFaults /\ run.started
    BY <1>4 DEF SweepFails, LostWrite, LostReply, Fault, IInv, TypeOK, SweepOK
  <2>2. CASE UNCHANGED <<run, seq, fresh>>
    BY <1>1, <1>4, <2>1, <2>2 DEF SweepFails, IInv, TypeOK
  <2>3. CASE Append(sweep[s].at, ApplyFailed(run))
    <3>1. run \in RunState /\ seq' = seq + 1 /\ TypeOK
      BY <2>3 DEF Append, IInv, TypeOK
    <3>2. TypeOK'
      BY <1>4, <2>1, <2>3, <3>1, ApplyTypes DEF SweepFails, Append, TypeOK, SweepTo, SweepState
    <3> QED
      BY <1>4, <2>1, <2>3, <3>1, <3>2, EndedUnder DEF SweepFails, Append, SweepTo, TypeOK
  <2> QED
    BY <1>4, <2>2, <2>3 DEF SweepFails, LostWrite, LostReply, log
<1>5. CASE SweepResumes(s)
  <2>1. faults' \in 0..MaxFaults
    BY <1>5 DEF SweepResumes, LostWrite, LostReply, Fault, IInv, TypeOK
  <2>2. CASE UNCHANGED <<run, seq, fresh, loop>>
    BY <1>1, <1>5, <2>1, <2>2 DEF SweepResumes, IInv, TypeOK
  <2>3. CASE Append(sweep[s].at, ApplyResumed(run))
    BY <1>5, <2>1, <2>3, ResumeLands DEF SweepResumes
  <2> QED
    BY <1>5, <2>2, <2>3 DEF SweepResumes, LostWrite, LostReply, log
<1> QED
  BY <1>2, <1>3, <1>4, <1>5 DEF SweepStep

-----------------------------------------------------------------------------
(* Loops.                                                                   *)

\* The states the loop's own helpers make.
LEMMA LoopStates ==
    ASSUME NEW st \in LoopState
    PROVE  /\ IdleLoop \in LoopState
           /\ Forget(st) \in LoopState
           /\ \A e \in {"finish", "fail", "stop", "park"} :
                 Close(st, e) \in LoopState /\ CloseEmpty(st, e) \in LoopState
<1>1. IdleLoop \in LoopState
  BY DEF IdleLoop, LoopState, LoopPc
<1>2. Forget(st) \in LoopState
  BY DEF Forget, LoopState
<1>3. \A e \in {"finish", "fail", "stop", "park"} : Close(st, e) \in LoopState
  BY DEF Close, LoopState, LoopPc
<1>4. \A e \in {"finish", "fail", "stop", "park"} : CloseEmpty(st, e) \in LoopState
  BY <1>3 DEF CloseEmpty, LoopState
<1> QED
  BY <1>1, <1>2, <1>3, <1>4

\* A loop's own move to a state st, the log untouched.
LEMMA MovesTo ==
    ASSUME IInv, NEW l \in Loop, NEW st \in LoopState, LoopTo(l, st),
           UNCHANGED <<run, seq>>, fresh' \in BOOLEAN, faults' \in 0..MaxFaults,
           LoopOK(l)', st.pc # "idle" => (Live(l) /\ st.gen = loop[l].gen)
    PROVE  IInv'
BY LoopOnlyStep DEF LoopTo, IInv, TypeOK

\* An ending that closes nothing can be reached from anywhere.
LEMMA ClosesEmpty ==
    ASSUME IInv, NEW l \in Loop, Live(l), NEW e \in {"finish", "fail", "stop"},
           LoopTo(l, CloseEmpty(loop[l], e)),
           UNCHANGED <<run, seq>>, fresh' \in BOOLEAN, faults' \in 0..MaxFaults
    PROVE  IInv'
<1> DEFINE st == CloseEmpty(loop[l], e)
<1>1. loop[l] \in LoopState /\ LoopOK(l) /\ loop'[l] = st /\ seq \in Nat /\ run \in RunState
  BY DEF IInv, TypeOK, LoopTo
<1>2. st \in LoopState
  BY <1>1, LoopStates
<1>3. st.pc = "close" /\ st.ending = e /\ st.at = 0 /\ st.calls = {} /\ st.gen = loop[l].gen
  BY <1>1 DEF CloseEmpty, Close, LoopState
<1>4. LoopRead(l)'
  BY <1>1, <1>3 DEF LoopRead, LoopTo
<1>5. LoopHands(l)'
  BY <1>1, <1>3 DEF LoopHands, LoopTo
<1>6. LoopDrives(l)'
  BY <1>1, <1>3 DEF LoopOK, LoopDrives, Drives, Live, LoopTo
<1> QED
  BY <1>2, <1>3, <1>4, <1>5, <1>6, MovesTo DEF LoopOK

\* A loop that is gone owes nothing.
LEMMA GoesIdle ==
    ASSUME IInv, NEW l \in Loop, LoopTo(l, IdleLoop),
           UNCHANGED <<run, seq>>, fresh' \in BOOLEAN, faults' \in 0..MaxFaults
    PROVE  IInv'
<1>1. TypeOK' /\ loop'[l] = IdleLoop
  BY LoopStates DEF IInv, TypeOK, LoopTo, IdleLoop, LoopState, LoopPc
<1> QED
  BY <1>1, IdleOK, LoopStates, MovesTo DEF IdleLoop, LoopState, LoopPc

\* A loop goes on with the round it has, having read nothing it will append against.
LEMMA GoesOn ==
    ASSUME IInv, NEW l \in Loop, NEW pc \in LoopPc, NEW st \in LoopState, LoopTo(l, st),
           UNCHANGED <<run, seq>>, fresh' \in BOOLEAN, faults' \in 0..MaxFaults,
           Live(l), st.pc = pc, st.gen = loop[l].gen, st.calls = loop[l].calls,
           st.at \in {0, loop[l].at}, st.ending = "none", loop[l].ending = "none",
           pc \notin {"failing", "starting", "recording", "world", "close", "end", "ending"},
           pc \in {"spawned", "load", "setup"} =>
              loop[l].pc \in {"spawned", "load", "setup"} /\ st.as = loop[l].as,
           pc = "resume" => loop[l].pc = "setup" /\ loop[l].as = "answer",
           pc = "asked" => loop[l].pc = "asked",
           pc = "start" => \/ loop[l].pc \in {"asked", "starting"}
                           \/ loop[l].pc = "resume" /\ loop[l].calls \subseteq run.approved
    PROVE  IInv'
<1>1. loop[l] \in LoopState /\ LoopOK(l) /\ loop'[l] = st /\ seq \in Nat /\ run \in RunState
  BY DEF IInv, TypeOK, LoopTo
<1>2. LoopRead(l)'
  BY <1>1 DEF LoopOK, LoopRead, LoopTo
<1>3. LoopHands(l)'
  BY <1>1 DEF LoopOK, LoopHands, LoopTo
<1>4. LoopDrives(l)'
  BY <1>1 DEF LoopOK, LoopDrives, Drives, Live, LoopTo
<1> QED
  BY <1>2, <1>3, <1>4, MovesTo DEF LoopOK

\* What a loop says of itself outside its closing.
LEMMA LoopFacts ==
    ASSUME IInv, NEW l \in Loop
    PROVE  /\ loop[l] \in LoopState /\ LoopOK(l) /\ run \in RunState /\ seq \in Nat
           /\ fresh \in BOOLEAN /\ faults \in 0..MaxFaults
           /\ loop[l].pc \notin {"close", "end", "ending"} => loop[l].ending = "none"
BY DEF IInv, TypeOK, LoopOK, LoopHands

\* A fault keeps the count of faults within its bound.
LEMMA FaultType ==
    ASSUME IInv, Fault PROVE faults' \in 0..MaxFaults
BY DEF IInv, TypeOK, Fault

\* The steps before the first round.
LEMMA OpeningStep ==
    ASSUME IInv, NEW l \in Loop,
           LoopHolds(l) \/ LoopLoads(l) \/ LoopSetsUp(l) \/ LoopCannot(l)
    PROVE  IInv'
<1> USE LoopFacts, FaultType
<1>1. CASE LoopHolds(l)
  <2> DEFINE pc == IF loop[l].as = "turn" THEN "record" ELSE "load"
             st == [loop[l] EXCEPT !.pc = pc]
  <2>1. /\ st \in LoopState /\ st.pc = pc /\ st.gen = loop[l].gen /\ st.calls = loop[l].calls
        /\ st.at = loop[l].at /\ st.ending = loop[l].ending /\ st.as = loop[l].as /\ pc \in LoopPc
    BY DEF LoopState, LoopPc
  <2> QED
    BY <1>1, <2>1, GoesOn DEF LoopHolds, Live
<1>2. CASE LoopLoads(l)
  <2> DEFINE st == [loop[l] EXCEPT !.pc = "setup"]
  <2>1. /\ st \in LoopState /\ st.pc = "setup" /\ st.gen = loop[l].gen
        /\ st.calls = loop[l].calls /\ "setup" \in LoopPc
        /\ st.at = loop[l].at /\ st.ending = loop[l].ending /\ st.as = loop[l].as
    BY DEF LoopState, LoopPc
  <2> QED
    BY <1>2, <2>1, GoesOn, GoesIdle DEF LoopLoads, LoopMoves, Live
<1>3. CASE LoopSetsUp(l)
  <2> DEFINE on(pc) == [loop[l] EXCEPT !.pc = pc]
  <2>1. \A pc \in {"resume", "round", "cannot"} :
           /\ on(pc) \in LoopState /\ on(pc).pc = pc /\ on(pc).gen = loop[l].gen
           /\ on(pc).calls = loop[l].calls /\ on(pc).at = loop[l].at
           /\ on(pc).ending = loop[l].ending /\ on(pc).as = loop[l].as /\ pc \in LoopPc
    BY DEF LoopState, LoopPc
  <2>2. CASE LoopMoves(l, on("resume")) /\ loop[l].as = "answer"
    BY <1>3, <2>1, <2>2, GoesOn DEF LoopSetsUp, LoopMoves, Live
  <2>3. CASE LoopMoves(l, on("round"))
    BY <1>3, <2>1, <2>3, GoesOn DEF LoopSetsUp, LoopMoves, Live
  <2>4. CASE Fault /\ LoopTo(l, on("cannot")) /\ UNCHANGED log
    BY <1>3, <2>1, <2>4, GoesOn DEF LoopSetsUp, log, Live
  <2>5. CASE Fault /\ LoopTo(l, IdleLoop) /\ UNCHANGED log
    BY <2>5, GoesIdle DEF log
  <2> QED
    BY <1>3, <2>2, <2>3, <2>4, <2>5 DEF LoopSetsUp
<1>4. CASE LoopCannot(l)
  <2> DEFINE st == [loop[l] EXCEPT !.pc = "failing", !.at = seq]
  <2>1. CASE LoopMoves(l, st) /\ MayEnd(run)
    <3>0. loop[l] \in LoopState /\ seq \in Nat
      OBVIOUS
    <3>1. st \in LoopState
      BY <3>0 DEF LoopState, LoopPc
    <3>2. /\ st.pc = "failing" /\ st.at = seq /\ st.gen = loop[l].gen
          /\ st.calls = loop[l].calls /\ st.ending = loop[l].ending
      BY <3>0 DEF LoopState
    <3>3. /\ loop'[l] = st /\ loop[l].pc = "cannot" /\ UNCHANGED <<run, seq, asked, ran>>
          /\ MayEnd(run)'
      BY <1>4, <2>1 DEF LoopCannot, LoopMoves, LoopTo, IInv, TypeOK
    <3> HIDE DEF st
    <3>4. LoopRead(l)'
      BY <3>0, <3>2, <3>3 DEF LoopRead
    <3>5. LoopHands(l)' /\ LoopDrives(l)'
      BY <3>2, <3>3 DEF LoopOK, LoopHands, LoopDrives, Drives, Live
    <3> QED
      BY <2>1, <3>1, <3>2, <3>3, <3>4, <3>5, MovesTo DEF LoopMoves, LoopOK, Live
  <2> QED
    BY <1>4, <2>1, GoesIdle DEF LoopCannot, LoopMoves
<1> QED
  BY <1>1, <1>2, <1>3, <1>4

\* The question whether the run was stopped keeps the invariant when both of its answers do.
LEMMA AskStep ==
    ASSUME IInv, NEW l \in Loop, NEW yes, NEW no, Asks(l, yes, no)
    PROVE  /\ LoopTo(l, yes) \/ LoopTo(l, no)
           /\ UNCHANGED <<run, seq, fresh>> /\ fresh' \in BOOLEAN /\ faults' \in 0..MaxFaults
BY FaultType DEF Asks, LoopMoves, log, IInv, TypeOK

\* The steps up to the start of the tools.
LEMMA RoundStep ==
    ASSUME IInv, NEW l \in Loop,
           LoopResumes(l) \/ LoopRound(l) \/ LoopModel(l) \/ LoopAsked(l) \/ LoopStart(l)
    PROVE  IInv'
<1> DEFINE on(pc) == [loop[l] EXCEPT !.pc = pc]
<1>1. /\ loop[l] \in LoopState /\ LoopOK(l) /\ run \in RunState /\ seq \in Nat
      /\ fresh \in BOOLEAN /\ faults \in 0..MaxFaults
      /\ loop[l].pc \notin {"close", "end", "ending"} => loop[l].ending = "none"
  BY LoopFacts
<1>2. \A pc \in {"start", "record", "world"} :
         /\ on(pc) \in LoopState /\ on(pc).pc = pc /\ on(pc).gen = loop[l].gen
         /\ on(pc).calls = loop[l].calls /\ on(pc).at = loop[l].at
         /\ on(pc).ending = loop[l].ending /\ on(pc).as = loop[l].as /\ pc \in LoopPc
  BY <1>1 DEF LoopState, LoopPc
<1>3. CASE LoopResumes(l)
  <2>1. CASE LoopTo(l, CloseEmpty(loop[l], "stop"))
    BY <1>1, <1>3, <2>1, AskStep, ClosesEmpty DEF LoopResumes, Live
  <2>2. CASE LoopTo(l, on("start")) /\ loop[l].calls \subseteq run.approved \ FormCall
    BY <1>1, <1>2, <1>3, <2>2, AskStep, GoesOn DEF LoopResumes, Live
  <2>3. CASE LoopTo(l, on("record"))
    BY <1>1, <1>2, <1>3, <2>3, AskStep, GoesOn DEF LoopResumes, Live
  <2> QED
    BY <1>3, <2>1, <2>2, <2>3, AskStep DEF LoopResumes
<1>4. CASE LoopRound(l)
  <2> DEFINE st == [loop[l] EXCEPT !.pc = "model", !.as = "turn"]
  <2>1. CASE LoopTo(l, CloseEmpty(loop[l], "stop"))
    BY <1>1, <1>4, <2>1, AskStep, ClosesEmpty DEF LoopRound, Live
  <2>2. CASE LoopTo(l, st)
    <3>1. st \in LoopState /\ "model" \in LoopPc
      BY <1>1 DEF LoopState, LoopPc
    <3>2. st.pc = "model" /\ st.gen = loop[l].gen /\ st.calls = loop[l].calls
          /\ st.at = loop[l].at /\ st.ending = loop[l].ending
      BY <1>1 DEF LoopState
    <3> HIDE DEF st
    <3> QED
      BY <1>1, <1>4, <2>2, <3>1, <3>2, AskStep, GoesOn DEF LoopRound, Live
  <2> QED
    BY <1>4, <2>1, <2>2, AskStep DEF LoopRound
<1>5. CASE LoopModel(l)
  <2>1. ASSUME NEW e \in {"finish", "fail"}, LoopMoves(l, CloseEmpty(loop[l], e))
        PROVE  IInv'
    BY <1>1, <1>5, <2>1, ClosesEmpty DEF LoopModel, LoopMoves, Live
  <2>2. ASSUME NEW calls \in (SUBSET (Call \ asked)) \ {{}},
               loop' = [loop EXCEPT ![l] = [loop[l] EXCEPT !.pc = "asked", !.calls = calls]],
               asked' = asked \cup calls,
               UNCHANGED <<run, seq, fresh, post, person, sweep, ran, faults, lapsed>>
        PROVE  IInv'
    <3> DEFINE st == [loop[l] EXCEPT !.pc = "asked", !.calls = calls]
    <3>1. st \in LoopState
      BY <1>1 DEF LoopState, LoopPc
    <3>2. st.pc = "asked" /\ st.gen = loop[l].gen /\ st.calls = calls
          /\ st.at = loop[l].at /\ st.ending = loop[l].ending
      BY <1>1 DEF LoopState
    <3>3. loop'[l] = st /\ loop[l].pc = "model"
      BY <1>5, <2>2 DEF LoopModel, IInv, TypeOK
    <3> HIDE DEF st
    <3>4. LoopRead(l)'
      BY <1>1, <2>2, <3>2, <3>3 DEF LoopOK, LoopRead
    <3>5. LoopHands(l)'
      BY <1>1, <2>2, <3>2, <3>3 DEF LoopHands
    <3>6. /\ \A c \in calls : ran[c] = 0
          /\ calls \cap run.answered = {}
      BY <2>2 DEF IInv, RunOK, TypeOK
    <3>7. LoopDrives(l)'
      BY <1>1, <2>2, <3>2, <3>3, <3>6 DEF LoopOK, LoopDrives, Drives, Live
    <3>8. asked' \in SUBSET Call /\ asked \subseteq asked' /\ lapsed' \in BOOLEAN
      BY <2>2 DEF IInv, TypeOK
    <3> QED
      BY <1>1, <2>2, <3>1, <3>2, <3>3, <3>4, <3>5, <3>7, <3>8, LoopOnlyStep DEF LoopOK, Live, st
  <2> QED
    BY <1>5, <2>1, <2>2 DEF LoopModel
<1>6. CASE LoopAsked(l)
  <2>1. ASSUME NEW e \in {"stop", "finish"}, LoopTo(l, CloseEmpty(loop[l], e)),
               UNCHANGED <<run, seq, fresh>>, faults' \in 0..MaxFaults
        PROVE  IInv'
    BY <1>1, <1>6, <2>1, ClosesEmpty DEF LoopAsked, Live
  <2>2. CASE Asks(l, CloseEmpty(loop[l], "stop"), on("start")) /\ LoopTo(l, on("start"))
    BY <1>1, <1>2, <1>6, <2>2, AskStep, GoesOn DEF LoopAsked, Live
  <2> QED
    BY <1>1, <1>6, <2>1, <2>2, AskStep DEF LoopAsked, LoopMoves
<1>7. CASE LoopStart(l)
  <2> DEFINE st == [loop[l] EXCEPT !.pc = "starting", !.at = seq]
  <2>1. CASE LoopMoves(l, CloseEmpty(loop[l], "stop"))
    BY <1>1, <1>7, <2>1, ClosesEmpty DEF LoopStart, LoopMoves, Live
  <2>2. CASE LoopMoves(l, st) /\ run.generation = loop[l].gen /\ MayStartTools(run)
    <3>1. st \in LoopState
      BY <1>1 DEF LoopState, LoopPc
    <3>2. st.pc = "starting" /\ st.gen = loop[l].gen /\ st.calls = loop[l].calls
          /\ st.at = seq /\ st.ending = loop[l].ending
      BY <1>1 DEF LoopState
    <3>3. loop'[l] = st /\ loop[l].pc = "start" /\ UNCHANGED <<run, seq, asked, ran>>
          /\ MayStartTools(run)' /\ MayEmit(run)'
      BY <1>7, <2>2 DEF LoopStart, LoopMoves, LoopTo, IInv, TypeOK, MayStartTools, MayEmit, Ended, Ending
    <3> HIDE DEF st
    <3>4. LoopRead(l)'
      BY <1>1, <2>2, <3>2, <3>3 DEF LoopRead
    <3>5. LoopHands(l)'
      BY <1>1, <3>2, <3>3 DEF LoopOK, LoopHands
    <3>6. LoopDrives(l)'
      BY <1>1, <3>2, <3>3 DEF LoopOK, LoopDrives, Drives, Live
    <3> QED
      BY <1>1, <2>2, <3>1, <3>2, <3>3, <3>4, <3>5, <3>6, MovesTo DEF LoopMoves, LoopOK, Live
  <2> QED
    BY <1>7, <2>1, <2>2 DEF LoopStart
<1> QED
  BY <1>3, <1>4, <1>5, <1>6, <1>7

\* The driving loop appends: no other loop is in its generation.
LEMMA DriverAppends ==
    ASSUME IInv, NEW l \in Loop, Drives(l), NEW st \in LoopState, LoopTo(l, st),
           seq' = seq + 1, fresh' \in BOOLEAN, faults' \in 0..MaxFaults,
           run' \in RunState, run'.started, run'.generation = run.generation,
           run'.answered = run.answered, run'.approved = run.approved,
           st.pc # "idle" => st.gen = loop[l].gen,
           RunOK', LoopOK(l)'
    PROVE  IInv'
<1>1. TypeOK /\ run \in RunState
  BY DEF IInv, TypeOK
<1>2. TypeOK'
  BY <1>1 DEF TypeOK, LoopTo
<1>3. \A m \in Loop : LoopOK(m)'
  <2> SUFFICES ASSUME NEW m \in Loop, m # l PROVE LoopOK(m)'
    OBVIOUS
  <2>1. loop'[m] = loop[m]
    BY <1>1 DEF TypeOK, LoopTo
  <2>2. ~Drives(m) /\ loop[m].pc # "world"
    BY DriverAlone
  <2> QED
    BY <1>1, <1>2, <2>1, <2>2, Bystander DEF LoopTo, Drives, RunState
<1>4. OneDriver'
  BY <1>1, SameDrivers DEF IInv, LoopTo, Drives
<1>5. DeniedNeverRuns'
  BY DEF IInv, DeniedNeverRuns, LoopTo
<1> QED
  BY <1>2, <1>3, <1>4, <1>5, AppendStep DEF LoopTo

\* The results of a round, written by the loop that drives it.
LEMMA ResultsOK ==
    ASSUME IInv, NEW calls \in SUBSET Call, run.started, run.status # "awaiting-approval",
           run' = ApplyResults(run, calls), UNCHANGED <<asked, ran>>
    PROVE  /\ RunOK' /\ run' \in RunState /\ run'.started
           /\ run'.generation = run.generation /\ run'.status = run.status
           /\ run'.answered = run.answered /\ run'.approved = run.approved
<1>1. run \in RunState /\ RunOK
  BY DEF IInv, TypeOK
<1>2. run' \in RunState
  BY <1>1, ApplyTypes
<1>3. /\ run'.started = run.started /\ run'.status = run.status
      /\ run'.generation = run.generation /\ run'.pending = run.pending
      /\ run'.answered = run.answered /\ run'.approved = run.approved
  BY <1>1 DEF RunState, ApplyResults
<1>4. run'.open \subseteq run.open /\ run'.unstarted \in {run.unstarted, NoCall}
  BY <1>1 DEF RunState, ApplyResults
<1>5. RunOK'
  BY <1>1, <1>3, <1>4 DEF RunOK, Ended
<1> QED
  BY <1>2, <1>3, <1>5

\* A continuation that fails its run keeps the invariant (fail_continuation, fail_run).
LEMMA FailsStep ==
    ASSUME IInv, NEW l \in Loop, LoopFails(l)
    PROVE  IInv'
<1>1. /\ loop[l] \in LoopState /\ LoopOK(l) /\ run \in RunState /\ seq \in Nat
      /\ fresh \in BOOLEAN /\ TypeOK
  BY LoopFacts DEF IInv
<1>2. faults' \in 0..MaxFaults
  BY <1>1, FaultType DEF LoopFails, LostWrite, LostReply, TypeOK
<1>3. CASE UNCHANGED <<run, seq, fresh>>
  BY <1>1, <1>2, <1>3, GoesIdle DEF LoopFails
<1>4. CASE Append(loop[l].at, ApplyFailed(run))
  <2>1. run.started /\ seq' = seq + 1 /\ run' = ApplyFailed(run) /\ fresh' = TRUE
    BY <1>1, <1>4 DEF LoopFails, LoopOK, LoopDrives, Live, Append
  <2>2. TypeOK'
    <3>1. run' \in RunState /\ IdleLoop \in LoopState
      BY <1>1, <2>1, ApplyTypes, LoopStates
    <3> QED
      BY <1>1, <1>2, <2>1, <3>1 DEF LoopFails, LoopTo, TypeOK
  <2>3. \A m \in Loop : loop'[m] = loop[m] \/ loop'[m] = IdleLoop
    BY <1>1 DEF LoopFails, LoopTo, TypeOK
  <2> QED
    BY <2>1, <2>2, <2>3, EndedUnder DEF LoopFails, LoopTo
<1> QED
  BY <1>3, <1>4 DEF LoopFails, LostWrite, LostReply, log

\* The start of the tools: on record, the loop may touch the world.
LEMMA StartingStep ==
    ASSUME IInv, NEW l \in Loop, LoopStarting(l)
    PROVE  IInv'
<1> DEFINE again == Forget([loop[l] EXCEPT !.pc = "start"])
           world == Forget([loop[l] EXCEPT !.pc = "world"])
           failed == CloseEmpty(loop[l], "fail")
<1>1. /\ loop[l] \in LoopState /\ LoopOK(l) /\ run \in RunState /\ seq \in Nat
      /\ fresh \in BOOLEAN /\ TypeOK /\ loop[l].pc = "starting" /\ loop[l].ending = "none"
  BY LoopFacts DEF IInv, LoopStarting
<1>2. faults' \in 0..MaxFaults
  BY <1>1, FaultType DEF LoopStarting, LostWrite, LostReply, LoopMoves, TypeOK
<1>3. /\ again \in LoopState /\ again.pc = "start" /\ again.gen = loop[l].gen
      /\ again.calls = loop[l].calls /\ again.at = 0 /\ again.ending = "none"
  BY <1>1 DEF Forget, LoopState, LoopPc
<1>4. /\ world \in LoopState /\ world.pc = "world" /\ world.gen = loop[l].gen
      /\ world.calls = loop[l].calls /\ world.at = 0 /\ world.ending = "none"
  BY <1>1 DEF Forget, LoopState, LoopPc
<1>5. /\ failed \in LoopState /\ failed.pc = "close" /\ failed.gen = loop[l].gen
      /\ failed.calls = {} /\ failed.at = 0 /\ failed.ending = "fail"
  <2>1. failed \in LoopState
    BY <1>1, LoopStates
  <2> QED
    BY <1>1, <2>1 DEF CloseEmpty, Close, LoopState
<1> HIDE DEF again, world, failed
<1>6. CASE UNCHANGED <<run, seq, fresh>>
  <2>1. seq' # seq + 1
    BY <1>1, <1>6
  <2>2. LoopTo(l, again) \/ LoopTo(l, failed)
    BY <2>1 DEF LoopStarting, Append, LoopMoves, again, failed
  <2>3. CASE LoopTo(l, again)
    BY <1>1, <1>2, <1>3, <1>6, <2>3, GoesOn DEF Live, LoopPc
  <2>4. CASE LoopTo(l, failed)
    BY <1>1, <1>2, <1>6, <2>4, ClosesEmpty DEF Live, failed
  <2> QED
    BY <2>2, <2>3, <2>4
<1>7. CASE Append(loop[l].at, ApplyToolStarted(run, loop[l].calls))
  <2>1. /\ Drives(l) /\ MayStartTools(run) /\ run.started /\ ~Ended(run)
        /\ seq' = seq + 1 /\ run' = ApplyToolStarted(run, loop[l].calls) /\ fresh' = TRUE
    BY <1>1, <1>7 DEF LoopOK, LoopRead, Append, Drives, Live, MayStartTools
  <2>2. /\ run' \in RunState /\ run'.started /\ run'.status = run.status
        /\ run'.generation = run.generation /\ run'.pending = run.pending
        /\ run'.answered = run.answered /\ run'.approved = run.approved
        /\ run'.open = run.open \cup loop[l].calls
        /\ run'.unstarted \in {run.unstarted, NoCall}
        /\ run'.unstarted # NoCall => run'.unstarted \notin loop[l].calls
    <3>1. run' \in RunState
      BY <1>1, <2>1, ApplyTypes DEF LoopState
    <3>2. /\ run'.started = run.started /\ run'.status = run.status
          /\ run'.generation = run.generation /\ run'.pending = run.pending
          /\ run'.answered = run.answered /\ run'.approved = run.approved
      BY <1>1, <2>1 DEF RunState, ApplyToolStarted
    <3>3. run'.open = run.open \cup loop[l].calls
      BY <1>1, <2>1 DEF RunState, ApplyToolStarted
    <3>4. run'.unstarted = IF run.unstarted \in loop[l].calls THEN NoCall ELSE run.unstarted
      BY <1>1, <2>1 DEF RunState, ApplyToolStarted
    <3> QED
      BY <2>1, <3>1, <3>2, <3>3, <3>4
  <2>3. /\ UNCHANGED <<post, person, sweep, asked, ran, lapsed>>
        /\ LoopTo(l, world) \/ LoopTo(l, again) \/ LoopTo(l, failed)
    BY DEF LoopStarting, LoopMoves, LoopTo, again, failed, world
  <2>4. run.status # "awaiting-approval"
    BY <1>1, <2>1 DEF LoopOK, LoopDrives
  <2>5. RunOK'
    BY <2>2, <2>3, <2>4 DEF IInv, RunOK, Ended
  <2>6. ASSUME NEW st \in {again, world, failed}, LoopTo(l, st)
        PROVE  IInv'
    <3>1. loop'[l] = st /\ st \in LoopState /\ st.gen = loop[l].gen /\ st.pc # "idle"
      BY <1>1, <1>3, <1>4, <1>5, <2>6 DEF LoopTo, TypeOK
    <3>2. LoopRead(l)'
      BY <1>1, <1>3, <1>4, <1>5, <2>1, <2>6, <3>1 DEF LoopRead
    <3>3. LoopHands(l)'
      BY <1>1, <1>3, <1>4, <1>5, <2>3, <2>6, <3>1 DEF LoopOK, LoopHands
    <3>4. LoopDrives(l)'
      BY <1>1, <1>3, <1>4, <1>5, <2>1, <2>2, <2>3, <2>6, <3>1
         DEF LoopOK, LoopDrives, Drives, Live, RunState, LoopState
    <3> QED
      BY <1>2, <2>1, <2>2, <2>5, <2>6, <3>1, <3>2, <3>3, <3>4, DriverAppends DEF LoopOK
  <2> QED
    BY <2>3, <2>6
<1> QED
  BY <1>1, <1>6, <1>7 DEF LoopStarting, LostWrite, LostReply, LoopMoves, log

\* The tools act: each for the first time, none a person refused.
LEMMA ActsStep ==
    ASSUME IInv, NEW l \in Loop, LoopActs(l)
    PROVE  IInv'
<1>1. /\ loop[l] \in LoopState /\ LoopOK(l) /\ run \in RunState /\ seq \in Nat
      /\ fresh \in BOOLEAN /\ TypeOK /\ loop[l].pc = "world" /\ loop[l].ending = "none"
      /\ UNCHANGED <<run, seq, fresh, post, person, sweep, asked, faults, lapsed>>
  BY LoopFacts DEF IInv, LoopActs
<1>2. /\ Drives(l) /\ loop[l].calls \subseteq run.open /\ run.status # "awaiting-approval"
      /\ \A c \in loop[l].calls : ran[c] = 0
      /\ loop[l].calls \cap (run.answered \ run.approved) = {}
  BY <1>1 DEF LoopOK, LoopDrives, Drives, Live
<1>3. PICK acts \in SUBSET (loop[l].calls \ FormCall), waits \in SUBSET loop[l].calls :
         /\ acts \cap waits = {}
         /\ ran' = [c \in Call |-> IF c \in acts THEN ran[c] + 1 ELSE ran[c]]
         /\ \E next \in (IF waits # {} THEN {[Close(loop[l], "park") EXCEPT !.cards = waits]}
                         ELSE {[loop[l] EXCEPT !.pc = "record"]}
                              \cup (IF loop[l].as = "answer" THEN {}
                                    ELSE {Close(loop[l], "finish"), Close(loop[l], "fail")})) :
               loop' = [loop EXCEPT ![l] = next]
  BY DEF LoopActs
<1>4. PICK next : /\ loop' = [loop EXCEPT ![l] = next]
                  /\ \/ waits # {} /\ next = [Close(loop[l], "park") EXCEPT !.cards = waits]
                     \/ next = [loop[l] EXCEPT !.pc = "record"]
                     \/ \E e \in {"finish", "fail"} : next = Close(loop[l], e)
  BY <1>3
<1>5. /\ next \in LoopState /\ next.gen = loop[l].gen /\ next.calls = loop[l].calls
      /\ next.at \in {0, loop[l].at}
      /\ \/ next.pc = "record" /\ next.ending = "none"
         \/ next.pc = "close" /\ next.ending \in {"finish", "fail"}
         \/ next.pc = "close" /\ next.ending = "park" /\ next.cards = waits /\ waits # {}
  <2>1. CASE waits # {} /\ next = [Close(loop[l], "park") EXCEPT !.cards = waits]
    <3> DEFINE st == Close(loop[l], "park")
    <3>1. st \in LoopState /\ waits \in SUBSET Call
      BY <1>1, LoopStates DEF LoopState
    <3>2. /\ st.pc = "close" /\ st.gen = loop[l].gen /\ st.calls = loop[l].calls
          /\ st.at = 0 /\ st.ending = "park"
      BY <1>1 DEF Close, LoopState
    <3> HIDE DEF st
    <3> QED
      BY <2>1, <3>1, <3>2 DEF LoopState, st
  <2>2. CASE next = [loop[l] EXCEPT !.pc = "record"]
    BY <1>1, <2>2 DEF LoopState, LoopPc
  <2>3. ASSUME NEW e \in {"finish", "fail"}, next = Close(loop[l], e)
        PROVE  /\ next \in LoopState /\ next.gen = loop[l].gen /\ next.calls = loop[l].calls
               /\ next.at = 0 /\ next.pc = "close" /\ next.ending = e
    <3>1. next \in LoopState
      BY <1>1, <2>3, LoopStates
    <3> QED
      BY <1>1, <2>3, <3>1 DEF Close, LoopState
  <2> QED
    BY <1>4, <2>1, <2>2, <2>3
<1>6. ran \in [Call -> Nat] /\ ran' \in [Call -> Nat]
  BY <1>1, <1>3 DEF TypeOK
<1>7. TypeOK'
  BY <1>1, <1>4, <1>5, <1>6 DEF TypeOK
<1>8. /\ \A c \in Call : ran'[c] # ran[c] => c \in acts
      /\ \A c \in acts : ran[c] = 0 /\ ran'[c] = 1 /\ c \in run.open /\ c \in asked
  BY <1>1, <1>2, <1>3, <1>6 DEF LoopOK, LoopHands, LoopState
<1>9. RunsAtMostOnce' /\ DeniedNeverRuns'
  <2>1. acts \cap (run.answered \ run.approved) = {}
    BY <1>2
  <2>2. \A c \in run.answered : c \in Call
    BY <1>1 DEF RunState
  <2> QED
    BY <1>1, <1>8, <2>1, <2>2 DEF IInv, RunsAtMostOnce, DeniedNeverRuns
<1>10. RunOK'
  <2>1. run.pending \in Call \cup {NoCall} /\ run.unstarted \in Call \cup {NoCall}
    BY <1>1 DEF RunState
  <2>2. run.unstarted # NoCall => ran'[run.unstarted] = 0
    BY <1>8, <2>1 DEF IInv, RunOK
  <2>3. \A c \in Call : ran'[c] > 0 => c \in asked
    BY <1>6, <1>8 DEF IInv, RunOK
  <2> QED
    BY <1>1, <1>2, <2>2, <2>3 DEF IInv, RunOK
<1>11. LoopOK(l)'
  <2>1. loop'[l] = next
    BY <1>1, <1>4 DEF TypeOK
  <2>2. LoopRead(l)'
    BY <1>1, <1>5, <2>1 DEF LoopOK, LoopRead
  <2>3. LoopHands(l)'
    BY <1>1, <1>5, <2>1 DEF LoopOK, LoopHands
  <2>4. \A c \in waits : ran'[c] = 0
    BY <1>1, <1>2, <1>3, <1>8 DEF LoopState
  <2>5. LoopDrives(l)'
    BY <1>1, <1>2, <1>5, <2>1, <2>4 DEF LoopOK, LoopDrives, Drives, Live
  <2> QED
    BY <2>2, <2>3, <2>5 DEF LoopOK
<1>12. \A m \in Loop : LoopOK(m)'
  <2> SUFFICES ASSUME NEW m \in Loop, m # l PROVE LoopOK(m)'
    BY <1>11
  <2>1. loop'[m] = loop[m] /\ LoopOK(m) /\ ~Drives(m)
    BY <1>1, <1>2, <1>4, DriverAlone DEF IInv, TypeOK
  <2> QED
    BY <1>1, <2>1 DEF LoopOK, LoopRead, LoopHands, LoopDrives, Drives, Live
<1>13. OneDriver'
  BY <1>1, <1>4, <1>5, SameDrivers DEF IInv, Live
<1> QED
  BY <1>1, <1>7, <1>9, <1>10, <1>12, <1>13, ReadersAlone DEF IInv

\* A round is written and the loop goes on.
LEMMA RecordStep ==
    ASSUME IInv, NEW l \in Loop, LoopRecord(l) \/ LoopRecording(l)
    PROVE  IInv'
<1>1. /\ loop[l] \in LoopState /\ LoopOK(l) /\ run \in RunState /\ seq \in Nat
      /\ fresh \in BOOLEAN /\ faults \in 0..MaxFaults /\ TypeOK /\ loop[l].ending = "none"
      /\ Live(l) /\ loop[l].calls \in SUBSET Call
  BY LoopFacts DEF IInv, LoopRecord, LoopRecording, Live, LoopState
<1> DEFINE round == [loop[l] EXCEPT !.pc = "round", !.calls = {}]
           read == [loop[l] EXCEPT !.pc = "recording", !.at = seq]
           again == Forget([loop[l] EXCEPT !.pc = "record"])
           wrote == Forget([loop[l] EXCEPT !.pc = "round", !.calls = {}])
<1>2. round \in LoopState /\ read \in LoopState /\ again \in LoopState /\ wrote \in LoopState
  BY <1>1 DEF Forget, LoopState, LoopPc
<1>3. /\ round.pc = "round" /\ round.calls = {} /\ round.gen = loop[l].gen
      /\ round.ending = "none" /\ round.at = loop[l].at
  BY <1>1 DEF LoopState
<1>4. /\ read.pc = "recording" /\ read.calls = loop[l].calls /\ read.gen = loop[l].gen
      /\ read.ending = "none" /\ read.at = seq
  BY <1>1 DEF LoopState
<1>5. /\ again.pc = "record" /\ again.calls = loop[l].calls /\ again.gen = loop[l].gen
      /\ again.ending = "none" /\ again.at = 0
  BY <1>1 DEF LoopState, Forget
<1>6. /\ wrote.pc = "round" /\ wrote.calls = {} /\ wrote.at = 0
      /\ wrote.gen = loop[l].gen /\ wrote.ending = "none"
  BY <1>1 DEF LoopState, Forget
<1> HIDE DEF round, read, again, wrote
<1>7. CASE LoopRecord(l)
  <2>1. CASE LoopMoves(l, CloseEmpty(loop[l], "fail"))
    BY <1>1, <2>1, ClosesEmpty DEF LoopMoves
  <2>2. ASSUME NEW st \in {round, read}, LoopMoves(l, st),
               st = read => loop[l].gen = run.generation /\ MayEmit(run)
        PROVE  IInv'
    <3>1. loop'[l] = st /\ UNCHANGED <<run, seq, asked, ran>> /\ (MayEmit(run) => MayEmit(run)')
      BY <1>1, <2>2 DEF LoopMoves, LoopTo, TypeOK
    <3>2. LoopRead(l)'
      BY <1>1, <1>3, <1>4, <2>2, <3>1 DEF LoopOK, LoopRead
    <3>3. LoopHands(l)'
      BY <1>1, <1>3, <1>4, <2>2, <3>1 DEF LoopOK, LoopHands
    <3>4. LoopDrives(l)'
      BY <1>1, <1>3, <1>4, <2>2, <3>1 DEF LoopOK, LoopDrives, Drives, Live
    <3> QED
      BY <1>1, <1>2, <1>3, <1>4, <2>2, <3>2, <3>3, <3>4, MovesTo DEF LoopMoves, LoopOK
  <2>3. \/ LoopMoves(l, CloseEmpty(loop[l], "fail"))
        \/ LoopMoves(l, round)
        \/ LoopMoves(l, read) /\ loop[l].gen = run.generation /\ MayEmit(run)
    BY <1>7 DEF LoopRecord, round, read
  <2>4. round # read
    BY <1>3, <1>4
  <2>5. CASE LoopMoves(l, round)
    BY <2>2, <2>4, <2>5
  <2>6. CASE LoopMoves(l, read) /\ loop[l].gen = run.generation /\ MayEmit(run)
    BY <2>2, <2>6
  <2> QED
    BY <2>1, <2>3, <2>5, <2>6
<1>8. CASE LoopRecording(l)
  <2>1. faults' \in 0..MaxFaults
    BY <1>1, <1>8, FaultType DEF LoopRecording, LostWrite, LostReply, LoopMoves
  <2>2. CASE UNCHANGED <<run, seq, fresh>>
    <3>1. seq' # seq + 1
      BY <1>1, <2>2
    <3>2. LoopTo(l, again) \/ LoopTo(l, CloseEmpty(loop[l], "fail"))
      BY <1>8, <3>1 DEF LoopRecording, Append, LoopMoves, again
    <3>3. CASE LoopTo(l, again)
      BY <1>1, <1>2, <1>5, <2>1, <2>2, <3>3, GoesOn DEF LoopPc
    <3>4. CASE LoopTo(l, CloseEmpty(loop[l], "fail"))
      BY <1>1, <2>1, <2>2, <3>4, ClosesEmpty
    <3> QED
      BY <3>2, <3>3, <3>4
  <2>3. CASE Append(loop[l].at, ApplyResults(run, loop[l].calls))
    <3>1. /\ Drives(l) /\ run.started /\ seq' = seq + 1 /\ fresh' = TRUE
          /\ run' = ApplyResults(run, loop[l].calls) /\ run.status # "awaiting-approval"
      BY <1>1, <1>8, <2>3 DEF LoopRecording, LoopOK, LoopRead, LoopDrives, Append, Drives
    <3>0. LoopTo(l, wrote) \/ LoopTo(l, CloseEmpty(loop[l], "fail"))
      BY <1>8, <2>3 DEF LoopRecording, LoopMoves, Append, Conflict, wrote
    <3>2. UNCHANGED <<asked, ran>>
      BY <3>0 DEF LoopTo
    <3>3. /\ RunOK' /\ run' \in RunState /\ run'.started
          /\ run'.generation = run.generation /\ run'.status = run.status
          /\ run'.answered = run.answered /\ run'.approved = run.approved
      BY <1>1, <3>1, <3>2, ResultsOK
    <3>4. ASSUME NEW st \in LoopState, LoopTo(l, st), st.gen = loop[l].gen, st.at = 0,
                 st.calls = {},
                 \/ st.pc = "round" /\ st.ending = "none"
                 \/ st.pc = "close" /\ st.ending = "fail"
          PROVE  IInv'
      <4>1. loop'[l] = st
        BY <1>1, <3>4 DEF LoopTo, TypeOK
      <4>2. LoopRead(l)' /\ LoopHands(l)'
        BY <1>1, <3>1, <3>4, <4>1 DEF LoopRead, LoopHands
      <4>3. LoopDrives(l)'
        BY <1>1, <3>1, <3>3, <3>4, <4>1 DEF LoopDrives, Drives, LoopState
      <4> QED
        BY <2>1, <3>1, <3>3, <3>4, <4>2, <4>3, DriverAppends DEF LoopOK
    <3>5. /\ CloseEmpty(loop[l], "fail") \in LoopState
          /\ CloseEmpty(loop[l], "fail").gen = loop[l].gen
          /\ CloseEmpty(loop[l], "fail").at = 0 /\ CloseEmpty(loop[l], "fail").calls = {}
          /\ CloseEmpty(loop[l], "fail").pc = "close"
          /\ CloseEmpty(loop[l], "fail").ending = "fail"
      <4>1. CloseEmpty(loop[l], "fail") \in LoopState
        BY <1>1, LoopStates
      <4> QED
        BY <1>1, <4>1 DEF CloseEmpty, Close, LoopState
    <3>6. CASE LoopTo(l, wrote)
      BY <1>2, <1>6, <3>4, <3>6
    <3>7. CASE LoopTo(l, CloseEmpty(loop[l], "fail"))
      BY <3>4, <3>5, <3>7
    <3> QED
      BY <3>0, <3>6, <3>7
  <2> QED
    BY <1>8, <2>2, <2>3 DEF LoopRecording, LostWrite, LostReply, LoopMoves, log
<1> QED
  BY <1>7, <1>8

\* The run's last question and the read before its last write.
LEMMA ClosingStep ==
    ASSUME IInv, NEW l \in Loop, LoopCloses(l) \/ LoopEnd(l)
    PROVE  IInv'
<1>1. /\ loop[l] \in LoopState /\ LoopOK(l) /\ run \in RunState /\ seq \in Nat
      /\ fresh \in BOOLEAN /\ faults \in 0..MaxFaults /\ TypeOK
      /\ Live(l) /\ loop[l].pc \in {"close", "end"}
  BY LoopFacts DEF IInv, LoopCloses, LoopEnd, Live
<1>2. ASSUME NEW st \in LoopState, LoopTo(l, st), UNCHANGED <<run, seq, fresh>>,
             faults' \in 0..MaxFaults, st.gen = loop[l].gen, st.calls = loop[l].calls,
             \/ st.ending = loop[l].ending /\ st.cards = loop[l].cards
             \/ st.ending = "stop",
             \/ st.pc = "end" /\ st.at = loop[l].at
             \/ /\ st.pc = "ending" /\ st.at = seq /\ loop[l].gen = run.generation
                /\ MayEmit(run) /\ (st.ending = "park" => MayEnd(run))
      PROVE  IInv'
  <2>1. /\ loop'[l] = st /\ UNCHANGED <<run, seq, asked, ran>>
        /\ (MayEmit(run) => MayEmit(run)') /\ (MayEnd(run) => MayEnd(run)')
    BY <1>1, <1>2 DEF LoopTo, TypeOK
  <2>2. LoopRead(l)'
    BY <1>1, <1>2, <2>1 DEF LoopOK, LoopRead
  <2>3. LoopHands(l)'
    BY <1>1, <1>2, <2>1 DEF LoopOK, LoopHands
  <2>4. LoopDrives(l)'
    BY <1>1, <1>2, <2>1 DEF LoopOK, LoopDrives, Drives, Live
  <2> QED
    BY <1>1, <1>2, <2>2, <2>3, <2>4, MovesTo DEF LoopOK
<1> DEFINE end == [loop[l] EXCEPT !.pc = "end"]
           stop == [end EXCEPT !.ending = "stop", !.cards = {}]
           drop == [loop[l] EXCEPT !.ending = "stop", !.cards = {}]
           write == [loop[l] EXCEPT !.pc = "ending", !.at = seq]
<1>3. /\ end \in LoopState /\ end.gen = loop[l].gen /\ end.calls = loop[l].calls
      /\ end.ending = loop[l].ending /\ end.cards = loop[l].cards /\ end.pc = "end"
      /\ end.at = loop[l].at
  BY <1>1 DEF LoopState, LoopPc
<1>4. stop \in LoopState
  BY <1>3 DEF LoopState
<1>5. /\ stop.gen = loop[l].gen /\ stop.calls = loop[l].calls
      /\ stop.ending = "stop" /\ stop.pc = "end" /\ stop.at = loop[l].at
  BY <1>3 DEF LoopState
<1>6. drop \in LoopState /\ write \in LoopState
  BY <1>1 DEF LoopState, LoopPc
<1>7. /\ drop.gen = loop[l].gen /\ drop.calls = loop[l].calls
      /\ drop.ending = "stop" /\ drop.pc = loop[l].pc /\ drop.at = loop[l].at
      /\ write.gen = loop[l].gen /\ write.calls = loop[l].calls /\ write.at = seq
      /\ write.ending = loop[l].ending /\ write.cards = loop[l].cards /\ write.pc = "ending"
  BY <1>1 DEF LoopState
<1>8. CASE LoopCloses(l)
  <2>1. /\ LoopTo(l, stop) \/ LoopTo(l, end)
        /\ UNCHANGED <<run, seq, fresh>> /\ faults' \in 0..MaxFaults
    BY <1>1, <1>8, AskStep DEF LoopCloses, LoopMoves
  <2> HIDE DEF end, stop
  <2> QED
    BY <1>2, <1>3, <1>4, <1>5, <2>1
<1>9. CASE LoopEnd(l)
  <2>1. \/ LoopMoves(l, IdleLoop)
        \/ LoopMoves(l, drop)
        \/ /\ LoopMoves(l, write) /\ run.generation = loop[l].gen /\ MayEmit(run)
           /\ (loop[l].ending = "park" => MayEnd(run))
    BY <1>9 DEF LoopEnd, MayEnd
  <2>2. loop[l].pc = "end"
    BY <1>9 DEF LoopEnd
  <2> HIDE DEF drop, write
  <2>3. CASE LoopMoves(l, drop)
    BY <1>1, <1>2, <1>6, <1>7, <2>2, <2>3 DEF LoopMoves
  <2>4. CASE /\ LoopMoves(l, write) /\ run.generation = loop[l].gen /\ MayEmit(run)
             /\ (loop[l].ending = "park" => MayEnd(run))
    BY <1>1, <1>2, <1>6, <1>7, <2>4 DEF LoopMoves
  <2> QED
    BY <1>1, <2>1, <2>3, <2>4, GoesIdle DEF LoopMoves
<1> QED
  BY <1>8, <1>9

\* What a closing batch makes of the run: the round's results, and at most one of a card,
\* a failure and a finish.
EndsAs(new, r, st, card) ==
    /\ new \in RunState
    /\ new.started = r.started /\ new.generation = r.generation
    /\ new.answered = r.answered /\ new.approved = r.approved
    /\ new.open = r.open \ st.calls
    /\ new.unstarted \in {r.unstarted, NoCall}
    /\ st.ending = "park" => new.status = "awaiting-approval" /\ new.pending = card
    /\ st.ending # "park" =>
          /\ new.pending = r.pending
          /\ \/ new.status = r.status
             \/ ~Ended(r) /\ new.status \in {"failed", "finished"}

\* What the batch that ends a round makes of the run, case by case (append_events_once).
LEMMA EndBatchIs ==
    ASSUME NEW r \in RunState, NEW st \in LoopState, NEW card,
           st.ending = "park" => card \in Call
    PROVE  EndsAs(EndBatch(r, st, card), r, st, card)
<1> DEFINE new == EndBatch(r, st, card)
<1> SUFFICES EndsAs(new, r, st, card)
  OBVIOUS
<1> USE DEF EndsAs
<1> DEFINE closed == ApplyResults(r, st.calls)
<1>1. closed \in RunState /\ st.calls \in SUBSET Call
  BY ApplyTypes DEF LoopState
<1>2. /\ closed.started = r.started /\ closed.generation = r.generation
      /\ closed.answered = r.answered /\ closed.approved = r.approved
      /\ closed.pending = r.pending /\ closed.status = r.status
  BY <1>1 DEF RunState, ApplyResults
<1>3. closed.open = r.open \ st.calls /\ closed.unstarted \in {r.unstarted, NoCall}
  BY <1>1 DEF RunState, ApplyResults
<1>4. /\ st.ending = "park" => new = ApplySuspended(closed, card)
      /\ st.ending # "park" =>
            \/ new = closed
            \/ ~Ended(closed) /\ (new = ApplyFailed(closed) \/ new = ApplyFinished(closed))
  BY DEF EndBatch, MayEnd
<1>5. Ended(closed) <=> Ended(r)
  BY <1>2 DEF Ended
<1> HIDE DEF closed, new
<1>6. CASE new = closed /\ st.ending # "park"
  BY <1>1, <1>2, <1>3, <1>6
<1>7. CASE st.ending = "park"
  <2>1. new = ApplySuspended(closed, card) /\ new \in RunState
    BY <1>1, <1>4, <1>7, ApplyTypes
  <2>2. /\ new.started = closed.started /\ new.generation = closed.generation
        /\ new.answered = closed.answered /\ new.approved = closed.approved
        /\ new.open = closed.open /\ new.unstarted = closed.unstarted
        /\ new.status = "awaiting-approval" /\ new.pending = card
    BY <1>1, <2>1 DEF ApplySuspended, RunState
  <2> QED
    BY <1>2, <1>3, <1>7, <2>1, <2>2
<1>8. CASE st.ending # "park" /\ ~Ended(closed) /\ new = ApplyFailed(closed)
  <2>1. new \in RunState
    BY <1>1, <1>8, ApplyTypes
  <2>2. /\ new.started = closed.started /\ new.generation = closed.generation
        /\ new.answered = closed.answered /\ new.approved = closed.approved
        /\ new.open = closed.open /\ new.unstarted = closed.unstarted
        /\ new.status = "failed" /\ new.pending = closed.pending
    BY <1>1, <1>8 DEF ApplyFailed, RunState
  <2> QED
    BY <1>2, <1>3, <1>5, <1>8, <2>1, <2>2
<1>9. CASE st.ending # "park" /\ ~Ended(closed) /\ new = ApplyFinished(closed)
  <2>1. new \in RunState
    BY <1>1, <1>9, ApplyTypes
  <2>2. /\ new.started = closed.started /\ new.generation = closed.generation
        /\ new.answered = closed.answered /\ new.approved = closed.approved
        /\ new.open = closed.open /\ new.unstarted = closed.unstarted
        /\ new.status = "finished" /\ new.pending = closed.pending
    BY <1>1, <1>9 DEF ApplyFinished, RunState
  <2> QED
    BY <1>2, <1>3, <1>5, <1>9, <2>1, <2>2
<1> QED
  BY <1>4, <1>6, <1>7, <1>8, <1>9

\* The last write: a card goes up for a call that has not run, and its loop is gone.
LEMMA EndingStep ==
    ASSUME IInv, NEW l \in Loop, LoopEnding(l)
    PROVE  IInv'
<1>1. /\ loop[l] \in LoopState /\ LoopOK(l) /\ run \in RunState /\ seq \in Nat
      /\ fresh \in BOOLEAN /\ TypeOK /\ Live(l) /\ loop[l].pc = "ending"
  BY LoopFacts DEF IInv, LoopEnding, Live
<1>2. PICK card \in IF loop[l].ending = "park" THEN loop[l].cards ELSE {NoCall} :
          \/ /\ Append(loop[l].at, EndBatch(run, loop[l], card))
             /\ LoopTo(l, IdleLoop)
             /\ UNCHANGED faults
          \/ /\ Conflict(loop[l].at)
             /\ \/ LoopMoves(l, Forget([loop[l] EXCEPT !.pc = "end"]))
                \/ LoopMoves(l, IdleLoop)
          \/ /\ LostWrite \/ LostReply(loop[l].at, EndBatch(run, loop[l], card))
             /\ LoopTo(l, IdleLoop)
  BY DEF LoopEnding
<1>3. faults' \in 0..MaxFaults
  BY <1>1, <1>2, FaultType DEF LostWrite, LostReply, LoopMoves, TypeOK
<1>4. CASE UNCHANGED <<run, seq, fresh>>
  <2> DEFINE st == Forget([loop[l] EXCEPT !.pc = "end"])
  <2>1. CASE LoopTo(l, IdleLoop)
    BY <1>1, <1>3, <1>4, <2>1, GoesIdle
  <2>2. CASE LoopTo(l, st)
    <3>1. /\ st \in LoopState /\ st.pc = "end" /\ st.at = 0 /\ st.gen = loop[l].gen
          /\ st.calls = loop[l].calls /\ st.cards = loop[l].cards /\ st.ending = loop[l].ending
      BY <1>1 DEF Forget, LoopState, LoopPc
    <3>2. loop'[l] = st /\ UNCHANGED <<run, seq, asked, ran>>
      BY <1>1, <1>4, <2>2 DEF LoopTo, TypeOK
    <3> HIDE DEF st
    <3>3. LoopRead(l)' /\ LoopHands(l)'
      BY <1>1, <3>1, <3>2 DEF LoopOK, LoopRead, LoopHands
    <3>4. LoopDrives(l)'
      BY <1>1, <3>1, <3>2 DEF LoopOK, LoopDrives, Drives, Live
    <3> QED
      BY <1>1, <1>3, <1>4, <2>2, <3>1, <3>3, <3>4, MovesTo DEF LoopOK
  <2>3. seq' # seq + 1
    BY <1>1, <1>4
  <2> QED
    BY <1>2, <2>1, <2>2, <2>3 DEF LoopMoves, Append
<1>5. CASE Append(loop[l].at, EndBatch(run, loop[l], card))
  <2>1. /\ Drives(l) /\ run.started /\ seq' = seq + 1 /\ fresh' = TRUE
        /\ run' = EndBatch(run, loop[l], card) /\ run.status # "awaiting-approval"
        /\ loop[l].ending = "park" =>
              /\ card \in loop[l].calls /\ card \in Call /\ card \in asked /\ ran[card] = 0
    BY <1>1, <1>2, <1>5
       DEF LoopOK, LoopRead, LoopHands, LoopDrives, Append, Drives, LoopState, MayEmit
  <2>2. LoopTo(l, IdleLoop) /\ UNCHANGED <<post, person, sweep, asked, ran, lapsed>>
    BY <1>2, <1>5 DEF LoopTo, LoopMoves, Append, Conflict
  <2>3. EndsAs(run', run, loop[l], card)
    BY <1>1, <2>1, EndBatchIs
  <2> USE DEF EndsAs
  <2>4. RunOK'
    <3>1. CASE loop[l].ending = "park"
      BY <2>1, <2>2, <2>3, <3>1 DEF IInv, RunOK, Ended, Ending
    <3>2. CASE loop[l].ending # "park"
      BY <2>1, <2>2, <2>3, <3>2 DEF IInv, RunOK, Ended, Ending
    <3> QED
      BY <3>1, <3>2
  <2>5. IdleLoop \in LoopState /\ IdleLoop.pc = "idle" /\ loop'[l] = IdleLoop
    BY <1>1, <2>2, LoopStates DEF IdleLoop, LoopTo, TypeOK
  <2>6. TypeOK'
    BY <1>1, <1>3, <2>1, <2>2, <2>3, <2>5 DEF TypeOK, LoopTo
  <2>7. LoopOK(l)'
    BY <2>5, <2>6, IdleOK
  <2> QED
    BY <1>3, <2>1, <2>2, <2>3, <2>4, <2>5, <2>7, DriverAppends
<1> QED
  BY <1>2, <1>4, <1>5 DEF LostWrite, LostReply, LoopMoves, log

-----------------------------------------------------------------------------
(* The theorems.                                                            *)

\* Every step of every writer keeps the invariant, and so does the passing of time.
LEMMA InvariantStep ==
    ASSUME IInv, [Next]_vars
    PROVE  IInv'
<1>1. CASE UNCHANGED vars
  <2>1. TypeOK'
    BY <1>1 DEF vars, IInv, TypeOK
  <2> QED
    BY <1>1, <2>1, ReaderStep, ReadersAlone DEF vars
<1>2. ASSUME NEW l \in Loop, LoopStep(l) PROVE IInv'
  BY <1>2, OpeningStep, FailsStep, RoundStep, StartingStep, ActsStep, RecordStep,
     ClosingStep, EndingStep DEF LoopStep
<1>3. ASSUME NEW l \in Loop, LoopCrashes(l) PROVE IInv'
  <2>1. LoopTo(l, IdleLoop) /\ UNCHANGED <<run, seq>> /\ fresh' \in BOOLEAN
    BY <1>3 DEF LoopCrashes, Gone, LoopTo, IInv, TypeOK
  <2>2. faults' \in 0..MaxFaults
    BY <1>3, FaultType DEF LoopCrashes
  <2> QED
    BY <2>1, <2>2, GoesIdle
<1>4. CASE LeaseExpires
  <2>1. faults' \in 0..MaxFaults
    BY <1>4, FaultType DEF LeaseExpires, IInv, TypeOK
  <2>2. lapsed' \in BOOLEAN
    BY <1>4 DEF LeaseExpires, IInv, TypeOK
  <2>3. TypeOK'
    BY <1>4, <2>1, <2>2 DEF LeaseExpires, IInv, TypeOK
  <2> QED
    BY <1>4, <2>3, ReaderStep, ReadersAlone DEF LeaseExpires
<1> QED
  BY <1>1, <1>2, <1>3, <1>4, PostStep, PersonStep, SweeperStep DEF Next

\* The invariant holds before the first POST.
LEMMA InvariantInit ==
    ASSUME Init PROVE IInv
<1>1. NewRun \in RunState
  BY DEF NewRun, RunState, Status
<1>2. IdleLoop \in LoopState
  BY DEF IdleLoop, LoopState, LoopPc
<1>3. Rests("idle") \in PersonState
  BY DEF Rests, PersonState
<1>4. TypeOK
  <2>1. run \in RunState /\ seq \in Nat /\ asked \in SUBSET Call /\ faults \in 0..MaxFaults
    BY <1>1 DEF Init
  <2>2. fresh \in BOOLEAN /\ lapsed \in BOOLEAN
    BY DEF Init
  <2>3. loop \in [Loop -> LoopState] /\ person \in [Person -> PersonState]
    BY <1>2, <1>3 DEF Init
  <2>4. post \in [Post -> PostState] /\ sweep \in [Sweeper -> SweepState]
    BY DEF Init, PostState, SweepState
  <2>5. ran \in [Call -> Nat]
    BY DEF Init
  <2> QED
    BY <2>1, <2>2, <2>3, <2>4, <2>5 DEF TypeOK
<1>5. \A l \in Loop : ~Live(l)
  BY DEF Init, Live, IdleLoop
<1>6. RunOK
  BY DEF Init, RunOK, NewRun, Ended, Ending
<1>7. \A l \in Loop : LoopOK(l)
  <2> SUFFICES ASSUME NEW l \in Loop PROVE LoopOK(l)
    OBVIOUS
  <2>1. loop[l] = IdleLoop /\ seq = 0
    BY DEF Init
  <2>2. /\ IdleLoop.pc = "idle" /\ IdleLoop.at = 0 /\ IdleLoop.calls = {}
        /\ IdleLoop.ending = "none"
    BY DEF IdleLoop
  <2>3. LoopRead(l)
    BY <2>1, <2>2 DEF LoopRead
  <2>4. LoopHands(l)
    BY <2>1, <2>2 DEF LoopHands
  <2>5. LoopDrives(l)
    BY <2>1, <2>2 DEF LoopDrives, Drives, Live
  <2> QED
    BY <2>3, <2>4, <2>5 DEF LoopOK
<1>8. (\A p \in Post : PostOK(p)) /\ (\A w \in Person : PersonOK(w)) /\ (\A s \in Sweeper : SweepOK(s))
  BY DEF Init, PostOK, PersonOK, SweepOK, Rests
<1>9. OneDriver /\ RunsAtMostOnce /\ DeniedNeverRuns
  BY <1>5 DEF Init, OneDriver, RunsAtMostOnce, DeniedNeverRuns, NewRun
<1> QED
  BY <1>4, <1>6, <1>7, <1>8, <1>9 DEF IInv

\* The invariant holds whatever POSTs, loops, people and sweepers race, crash, lose a
\* reply or lapse.
THEOREM Invariant == Spec => []IInv
BY InvariantInit, InvariantStep, PTL DEF Spec

\* The aggregate, the log and every writer stay within their types; in particular a run is
\* never carried on more than MAX_RESUMES times.
THEOREM TypeCorrect == Spec => []TypeOK
BY Invariant, PTL DEF IInv

\* No generation of a run ever has two loops.
THEOREM DriversAreOne == Spec => []OneDriver
BY Invariant, PTL DEF IInv

\* No call acts twice.
THEOREM AtMostOnce == Spec => []RunsAtMostOnce
BY Invariant, PTL DEF IInv

\* A call a person refused never acts.
THEOREM RefusalsHold == Spec => []DeniedNeverRuns
BY Invariant, PTL DEF IInv

\* The world is touched only by the loop of the run's own generation, with the start of
\* every call on record.
THEOREM WorldOnRecord == Spec => []ActsOnRecord
<1>1. IInv => ActsOnRecord
  BY DEF IInv, LoopOK, LoopDrives, ActsOnRecord
<1> QED
  BY <1>1, Invariant, PTL

\* How a run ended is final.
THEOREM EndingsAreFinal == Spec => EndingIsFinal
<1> DEFINE Final == Ended(run) => /\ run'.status = run.status
                                  /\ run'.answered = run.answered
                                  /\ run'.open \subseteq run.open
<1>1. ASSUME IInv, [Next]_vars, Ended(run)
      PROVE  Final
  <2>1. run \in RunState
    BY <1>1 DEF IInv, TypeOK
  <2>2. CASE UNCHANGED run
    BY <2>2
  <2>3. ASSUME NEW p \in Post, PostActs(p), run' # run PROVE FALSE
    BY <1>1, <2>3 DEF PostActs, PostArrives, PostReads, PostClaims, Append, LostWrite, LostReply, log,
                      IInv, PostOK, MayStart
  <2>4. ASSUME NEW w \in Person, PersonActs(w), run' # run PROVE FALSE
    BY <1>1, <2>4 DEF PersonActs, AnswerReads, AnswerAppends, StopReads, InterruptReads, StopAppends,
                      Append, LostWrite, LostReply, log, IInv, PersonOK, MayEnd
  <2>5. ASSUME NEW s \in Sweeper, SweepStep(s), run' # run PROVE FALSE
    BY <1>1, <2>5 DEF SweepStep, SweepClaims, SweepResolves, SweepFails, SweepResumes,
                      Append, LostWrite, LostReply, log, IInv, SweepOK, Ended, Ending
  <2>6. ASSUME NEW l \in Loop, LoopStep(l), run' # run PROVE Final
    <3>1. loop[l] \in LoopState /\ LoopOK(l)
      BY <1>1, LoopFacts
    <3>2. CASE LoopFails(l)
      BY <1>1, <2>6, <3>1, <3>2 DEF LoopFails, Append, LostWrite, LostReply, log, LoopOK, LoopRead, MayEnd
    <3>3. CASE LoopStarting(l)
      BY <1>1, <2>6, <3>1, <3>3 DEF LoopStarting, Append, LostWrite, LostReply, log, LoopMoves,
                                    LoopOK, LoopRead, MayStartTools
    <3>4. CASE LoopRecording(l)
      <4>1. run' = ApplyResults(run, loop[l].calls)
        BY <2>6, <3>4 DEF LoopRecording, Append, LostWrite, LostReply, log, LoopMoves
      <4> QED
        BY <2>1, <4>1 DEF ApplyResults, RunState
    <3>5. CASE LoopEnding(l)
      <4>1. PICK card : run' = EndBatch(run, loop[l], card) /\ loop[l].at = seq
                        /\ (loop[l].ending = "park" => card \in loop[l].cards)
        BY <2>6, <3>5 DEF LoopEnding, Append, LostWrite, LostReply, log, LoopMoves
      <4>2. loop[l].ending # "park"
        BY <1>1, <3>1, <3>5, <4>1 DEF LoopEnding, LoopOK, LoopRead, MayEnd
      <4>3. EndsAs(run', run, loop[l], card)
        BY <2>1, <3>1, <4>1, <4>2, EndBatchIs
      <4> QED
        BY <1>1, <4>2, <4>3 DEF EndsAs
    <3> QED
      BY <2>6, <3>2, <3>3, <3>4, <3>5
         DEF LoopStep, LoopHolds, LoopLoads, LoopSetsUp, LoopCannot, LoopResumes, LoopRound,
             LoopModel, LoopAsked, LoopStart, LoopActs, LoopRecord, LoopCloses, LoopEnd,
             Asks, LoopMoves, log
  <2> QED
    BY <1>1, <2>2, <2>3, <2>4, <2>5, <2>6 DEF Next, vars, LoopCrashes, LeaseExpires
<1> QED
  BY <1>1, Invariant, PTL DEF Spec, EndingIsFinal

-----------------------------------------------------------------------------
(* Leases.                                                                  *)

\* A step that spawns nothing, claims nothing and lets no lease go keeps the leases.
LEMMA QuietStep ==
    ASSUME LeaseHeld, lapsed' = lapsed, fresh' \in {fresh, TRUE},
           \A m \in Loop : Live(m)' => Live(m),
           \A s \in Sweeper : Claimed(s)' => Claimed(s),
           \A s \in Sweeper : Claimed(s)' => run'.status # "awaiting-approval"
    PROVE  LeaseHeld'
<1> SUFFICES ASSUME ~lapsed'
             PROVE  /\ InHand' => fresh'
                    /\ \A s, t \in Sweeper : (Claimed(s)' /\ Claimed(t)') => s = t
                    /\ \A s \in Sweeper : Claimed(s)' =>
                          run'.status # "awaiting-approval" /\ \A m \in Loop : ~Live(m)'
  BY DEF LeaseHeld
<1>1. InHand' => InHand
  BY DEF InHand, Claimed
<1> QED
  BY <1>1 DEF LeaseHeld

\* A loop spawned by an append into a run no sweep has in hand (its own claim done with).
LEMMA SpawningStep ==
    ASSUME LeaseHeld, lapsed' = lapsed, fresh', \A s \in Sweeper : ~Claimed(s)'
    PROVE  LeaseHeld'
BY DEF LeaseHeld

\* The steps of a POST keep the leases: a run that can be claimed is in no sweep's hand.
LEMMA PostLeases ==
    ASSUME IInv, LeaseHeld, NEW p \in Post, PostActs(p)
    PROVE  LeaseHeld'
<1>1. UNCHANGED <<sweep, lapsed>> /\ fresh \in BOOLEAN /\ \A s \in Sweeper : Claimed(s)' <=> Claimed(s)
  BY DEF PostActs, PostArrives, PostReads, PostClaims, PostOnly, Claimed, IInv, TypeOK
<1>2. CASE UNCHANGED <<run, fresh, loop>>
  BY <1>1, <1>2, QuietStep DEF Live, LeaseHeld
<1>3. CASE post[p].pc = "claim" /\ Append(post[p].at, ApplyStarted(run))
  <2>1. run = NewRun
    BY <1>3 DEF IInv, PostOK, RunOK, MayStart, Append
  <2>2. \A s \in Sweeper : ~Claimed(s)
    BY <2>1 DEF IInv, SweepOK, NewRun, Claimed
  <2> QED
    BY <1>1, <1>3, <2>2, SpawningStep DEF Append
<1> QED
  BY <1>2, <1>3 DEF PostActs, PostArrives, PostReads, PostClaims, LostWrite, LostReply, log

\* The steps of a person keep the leases: a run that waits for an answer is in no sweep's
\* hand, so the continuation an answer spawns has it to itself.
LEMMA PersonLeases ==
    ASSUME IInv, LeaseHeld, NEW w \in Person, PersonActs(w)
    PROVE  LeaseHeld'
<1> DEFINE answered == ApplyAnswered(run, person[w].call, person[w].yes)
<1>1. UNCHANGED <<sweep, lapsed>> /\ fresh \in BOOLEAN /\ \A s \in Sweeper : Claimed(s)' <=> Claimed(s)
  BY DEF PersonActs, AnswerReads, AnswerAppends, StopReads, InterruptReads, StopAppends,
         PersonOnly, Claimed, IInv, TypeOK
<1>2. CASE UNCHANGED <<run, fresh, loop>>
  BY <1>1, <1>2, QuietStep DEF Live, LeaseHeld
<1>3. CASE person[w].pc = "answer" /\ Append(person[w].at, answered)
  <2>1. run.status = "awaiting-approval"
    BY <1>3, CallAssumption DEF IInv, PersonOK, RunOK, MayEnd, Append
  <2>2. lapsed \/ \A s \in Sweeper : ~Claimed(s)
    BY <2>1 DEF LeaseHeld
  <2>3. CASE lapsed
    BY <1>1, <2>3 DEF LeaseHeld
  <2>4. CASE \A s \in Sweeper : ~Claimed(s)
    BY <1>1, <1>3, <2>4, SpawningStep DEF Append
  <2> QED
    BY <2>2, <2>3, <2>4
<1>4. CASE person[w].pc = "stop" /\ Append(person[w].at, ApplyStopped(run)) /\ UNCHANGED loop
  <2>1. run'.status # "awaiting-approval" /\ fresh' = TRUE
    BY <1>4 DEF Append, ApplyStopped, IInv, TypeOK, RunState
  <2> QED
    BY <1>1, <1>4, <2>1, QuietStep DEF Live
<1>5. CASE AnswerAppends(w)
  BY <1>2, <1>3, <1>5 DEF AnswerAppends, LostWrite, LostReply, log
<1>6. CASE StopAppends(w)
  BY <1>2, <1>4, <1>6 DEF StopAppends, LostWrite, LostReply, log
<1> QED
  BY <1>2, <1>5, <1>6 DEF PersonActs, AnswerReads, StopReads, InterruptReads

\* A loop that is alive keeps the leases whatever it writes: no sweep has its run in hand.
LEMMA LoopLeases ==
    ASSUME IInv, LeaseHeld, NEW l \in Loop, LoopStep(l) \/ LoopCrashes(l)
    PROVE  LeaseHeld'
<1>1. Live(l)
  BY DEF LoopStep, LoopHolds, LoopLoads, LoopSetsUp, LoopCannot, LoopFails, LoopResumes,
         LoopRound, LoopModel, LoopAsked, LoopStart, LoopStarting, LoopActs, LoopRecord,
         LoopRecording, LoopCloses, LoopEnd, LoopEnding, LoopCrashes, Live
<1>2. /\ UNCHANGED <<sweep, lapsed>> /\ fresh' \in {fresh, TRUE}
      /\ \A m \in Loop \ {l} : loop'[m] = loop[m]
  <2> USE DEF IInv, TypeOK, LoopMoves, LoopTo, Append, LostWrite, LostReply, log
  <2>1. CASE LoopHolds(l) \/ LoopLoads(l) \/ LoopSetsUp(l) \/ LoopCannot(l) \/ LoopFails(l)
    BY <2>1 DEF LoopHolds, LoopLoads, LoopSetsUp, LoopCannot, LoopFails
  <2>2. CASE LoopResumes(l) \/ LoopRound(l) \/ LoopAsked(l) \/ LoopCloses(l)
    BY <2>2 DEF LoopResumes, LoopRound, LoopAsked, LoopCloses, Asks
  <2>3. CASE LoopModel(l) \/ LoopActs(l) \/ LoopCrashes(l)
    BY <2>3 DEF LoopModel, LoopActs, LoopCrashes, Gone
  <2>4. CASE LoopStart(l) \/ LoopStarting(l)
    BY <2>4 DEF LoopStart, LoopStarting
  <2>5. CASE LoopRecord(l) \/ LoopRecording(l)
    BY <2>5 DEF LoopRecord, LoopRecording
  <2>6. CASE LoopEnd(l) \/ LoopEnding(l)
    BY <2>6 DEF LoopEnd, LoopEnding
  <2> QED
    BY <2>1, <2>2, <2>3, <2>4, <2>5, <2>6 DEF LoopStep
<1>3. \A m \in Loop : Live(m)' => Live(m)
  BY <1>1, <1>2 DEF Live
<1>4. \A s \in Sweeper : Claimed(s)' <=> Claimed(s)
  BY <1>2 DEF Claimed
<1>5. CASE lapsed
  BY <1>2, <1>5 DEF LeaseHeld
<1>6. CASE \A s \in Sweeper : ~Claimed(s)
  BY <1>2, <1>3, <1>4, <1>6, QuietStep
<1> QED
  BY <1>1, <1>5, <1>6 DEF LeaseHeld

\* The steps of a sweeper keep the leases: it claims only a run in nobody's hand, and the
\* loop it spawns takes its claim over.
LEMMA SweepLeases ==
    ASSUME IInv, LeaseHeld, NEW s \in Sweeper, SweepStep(s)
    PROVE  LeaseHeld'
<1>1. UNCHANGED lapsed /\ fresh \in BOOLEAN /\ \A t \in Sweeper \ {s} : Claimed(t)' <=> Claimed(t)
  BY DEF SweepStep, SweepClaims, SweepResolves, SweepFails, SweepResumes, SweepTo,
         Claimed, IInv, TypeOK
<1>2. CASE lapsed
  BY <1>1, <1>2 DEF LeaseHeld
<1>3. CASE SweepClaims(s) /\ ~lapsed
  <2>1. ~InHand /\ fresh' = TRUE /\ UNCHANGED <<run, loop>> /\ run.status = "running"
    BY <1>3 DEF SweepClaims, LeaseHeld
  <2> QED
    BY <1>1, <2>1 DEF LeaseHeld, InHand, Claimed, Live
<1>4. ASSUME Claimed(s), UNCHANGED loop, fresh' \in {fresh, TRUE},
             run'.status \in {run.status, "failed"}
      PROVE  LeaseHeld'
  BY <1>1, <1>4, QuietStep DEF Live, LeaseHeld
<1>5. CASE SweepResolves(s)
  BY <1>1, <1>4, <1>5 DEF SweepResolves, Claimed
<1>6. CASE SweepFails(s)
  <2>1. run' = run \/ run'.status = "failed"
    BY <1>6 DEF SweepFails, Append, LostWrite, LostReply, log, ApplyFailed, IInv, TypeOK, RunState
  <2> QED
    BY <1>1, <1>4, <1>6, <2>1 DEF SweepFails, Append, LostWrite, LostReply, log, Claimed
<1>7. CASE SweepResumes(s) /\ ~lapsed
  <2>1. \A t \in Sweeper : ~Claimed(t)'
    BY <1>1, <1>7 DEF LeaseHeld, SweepResumes, SweepTo, Claimed, IInv, TypeOK
  <2>2. CASE UNCHANGED <<run, fresh, loop>>
    BY <1>4, <1>7, <2>2 DEF SweepResumes, Claimed
  <2>3. CASE fresh'
    BY <1>1, <2>1, <2>3, SpawningStep
  <2> QED
    BY <1>7, <2>2, <2>3 DEF SweepResumes, Append, LostWrite, LostReply, log
<1> QED
  BY <1>2, <1>3, <1>5, <1>6, <1>7 DEF SweepStep

\* Time passes: a lease that runs out while its run is in hand has lapsed.
LEMMA TimeLeases ==
    ASSUME LeaseHeld, LeaseExpires
    PROVE  LeaseHeld'
<1>1. CASE InHand
  BY <1>1 DEF LeaseExpires, LeaseHeld
<1>2. CASE ~InHand
  BY <1>2 DEF LeaseExpires, LeaseHeld, InHand, Live, Claimed
<1> QED
  BY <1>1, <1>2

\* As long as no lease lapses under its holder, a sweep never has a run in hand that a loop
\* still drives.
THEOREM LivingAreNotSwept == Spec => []NoSweepOfTheLiving
<1>1. Init => LeaseHeld
  BY DEF Init, LeaseHeld, InHand, Live, Claimed, IdleLoop
<1>2. IInv /\ LeaseHeld /\ [Next]_vars => LeaseHeld'
  <2> SUFFICES ASSUME IInv, LeaseHeld, [Next]_vars PROVE LeaseHeld'
    OBVIOUS
  <2>1. CASE UNCHANGED vars
    BY <2>1 DEF vars, LeaseHeld, InHand, Live, Claimed
  <2> QED
    BY <2>1, PostLeases, PersonLeases, LoopLeases, SweepLeases, TimeLeases DEF Next
<1>3. LeaseHeld => NoSweepOfTheLiving
  BY DEF LeaseHeld, NoSweepOfTheLiving, Claimed
<1> QED
  BY <1>1, <1>2, <1>3, Invariant, PTL DEF Spec

-----------------------------------------------------------------------------
(***************************************************************************)
(* RunProtocol implements RunContract: every step of every writer of a     *)
(* run's log, and of its loops, is a step of the contract or a stutter.    *)
(* The inductive invariant of RunProtocol says why each append finds       *)
(* the run as its reader saw it; here that becomes a step of the contract. *)
(***************************************************************************)

\* What the contract's step needs to know of an answer: a yes is an answer too.
ApprovedAnswered == run.approved \subseteq run.answered

\* A step of the contract, or none.
Keeps == [Contract!Next]_(Contract!cvars)

\* A step that changes nothing a person sees of the run keeps the contract.
LEMMA Stutters ==
    ASSUME UNCHANGED ran, \/ UNCHANGED run
                          \/ run \in RunState /\ run' = ApplyResumed(run)
    PROVE  Keeps
<1>1. CASE UNCHANGED run
  BY <1>1 DEF Keeps, Contract!cvars, Ended
<1>2. CASE run \in RunState /\ run' = ApplyResumed(run)
  <2>1. /\ run'.started = run.started /\ run'.status = run.status
        /\ run'.pending = run.pending /\ run'.open = run.open
        /\ run'.answered = run.answered /\ run'.approved = run.approved
    BY <1>2 DEF RunState, ApplyResumed
  <2> QED
    BY <2>1 DEF Keeps, Contract!cvars, Ended
<1> QED
  BY <1>1, <1>2

\* An append that ends the run, with the results of some calls, is the contract's End.
LEMMA Ends ==
    ASSUME run.started, ~Ended(run), Ended(run)', run'.status # "awaiting-approval",
           run'.answered = run.answered, run'.approved = run.approved,
           NEW calls \in SUBSET Call, run'.open = run.open \ calls, UNCHANGED ran
    PROVE  Keeps
<1>1. Contract!End(calls)
  BY DEF Contract!End
<1> QED
  BY <1>1 DEF Keeps, Contract!Next

\* An append of results alone is the contract's Settle.
LEMMA Settles ==
    ASSUME run.started, run'.started, run'.status = run.status, run'.pending = run.pending,
           run'.answered = run.answered, run'.approved = run.approved,
           NEW calls \in SUBSET Call, run'.open = run.open \ calls, UNCHANGED ran
    PROVE  Keeps
<1>1. Contract!Settle(calls)
  BY DEF Contract!Settle, Ended
<1> QED
  BY <1>1 DEF Keeps, Contract!Next

-----------------------------------------------------------------------------
\* The steps of a POST: the claim begins the run (StoreJournal::claim).
LEMMA PostKeeps ==
    ASSUME IInv, NEW p \in Post, PostActs(p)
    PROVE  Keeps
<1>1. UNCHANGED ran
  BY DEF PostActs, PostArrives, PostReads, PostClaims, PostOnly
<1>2. CASE UNCHANGED run
  BY <1>1, <1>2, Stutters
<1>3. CASE run' # run
  <2>1. post[p].pc = "claim" /\ post[p].at = seq /\ run' = ApplyStarted(run)
    BY <1>3 DEF PostActs, PostArrives, PostReads, PostClaims, Append, LostWrite, LostReply, log
  <2>2. run = NewRun
    BY <2>1 DEF IInv, PostOK, RunOK, MayStart
  <2>3. Contract!Begin
    BY <1>1, <2>1, <2>2 DEF Contract!Begin, ApplyStarted, NewRun, Ended, Ending
  <2> QED
    BY <2>3 DEF Keeps, Contract!Next
<1> QED
  BY <1>2, <1>3

\* The steps of a person: an answer answers the card, a Stop ends the run (answer.rs).
LEMMA PersonKeeps ==
    ASSUME IInv, ApprovedAnswered, NEW w \in Person, PersonActs(w)
    PROVE  Keeps
<1> DEFINE c == person[w].call
           yes == person[w].yes
<1>1. UNCHANGED ran
  BY DEF PersonActs, AnswerReads, AnswerAppends, StopReads, InterruptReads, StopAppends, PersonOnly
<1>2. run \in RunState /\ person[w] \in PersonState /\ RunOK /\ PersonOK(w)
  BY DEF IInv, TypeOK
<1>3. CASE UNCHANGED run
  BY <1>1, <1>3, Stutters
<1>4. CASE person[w].pc = "answer" /\ person[w].at = seq /\ run' = ApplyAnswered(run, c, yes)
  <2>1. /\ run.started /\ ~Ended(run) /\ run.pending = c /\ c \notin run.answered
        /\ c \in Call /\ yes \in BOOLEAN /\ run.status = "awaiting-approval"
    BY <1>2, <1>4, CallAssumption DEF PersonOK, PersonState, MayEnd, RunOK
  <2>2. /\ run'.started /\ run'.status = "running" /\ run'.pending = NoCall
        /\ run'.open = run.open /\ run'.answered = run.answered \cup {c}
        /\ run'.approved = IF yes THEN run.approved \cup {c} ELSE run.approved
    BY <1>2, <1>4, <2>1 DEF RunState, ApplyAnswered
  <2>3. run'.answered \ run'.approved =
           IF yes THEN run.answered \ run.approved ELSE (run.answered \ run.approved) \cup {c}
    BY <2>1, <2>2 DEF ApprovedAnswered
  <2>4. ~Ended(run)'
    BY <2>2 DEF Ended, Ending
  <2>5. Contract!Answer(yes)
    BY <1>1, <2>1, <2>2, <2>3, <2>4 DEF Contract!Answer
  <2> QED
    BY <2>1, <2>5 DEF Keeps, Contract!Next
<1>5. CASE person[w].pc = "stop" /\ person[w].at = seq /\ run' = ApplyStopped(run)
  <2>1. run.started /\ ~Ended(run)
    BY <1>2, <1>5 DEF PersonOK, MayEnd
  <2>2. /\ run'.status = "stopped" /\ run'.open = run.open \ {}
        /\ run'.answered = run.answered /\ run'.approved = run.approved
    BY <1>2, <1>5 DEF RunState, ApplyStopped
  <2>3. Ended(run)'
    BY <2>2 DEF Ended, Ending
  <2>4. {} \in SUBSET Call
    OBVIOUS
  <2> QED
    BY <1>1, <2>1, <2>2, <2>3, <2>4, Ends
<1>6. \/ UNCHANGED run
      \/ person[w].pc = "answer" /\ person[w].at = seq /\ run' = ApplyAnswered(run, c, yes)
      \/ person[w].pc = "stop" /\ person[w].at = seq /\ run' = ApplyStopped(run)
  <2>1. CASE AnswerAppends(w)
    BY <2>1 DEF AnswerAppends, Append, LostWrite, LostReply, log
  <2>2. CASE StopAppends(w)
    BY <2>2 DEF StopAppends, Append, LostWrite, LostReply, log
  <2> QED
    BY <2>1, <2>2 DEF PersonActs, AnswerReads, StopReads, InterruptReads
<1> QED
  BY <1>3, <1>4, <1>5, <1>6

\* The steps of a sweeper: a run it fails has ended, a run it resumes is the same run
\* (recovery.rs).
LEMMA SweepKeeps ==
    ASSUME IInv, NEW s \in Sweeper, SweepStep(s)
    PROVE  Keeps
<1>1. UNCHANGED ran
  BY DEF SweepStep, SweepClaims, SweepResolves, SweepFails, SweepResumes, SweepTo
<1>2. run \in RunState /\ SweepOK(s)
  BY DEF IInv, TypeOK
<1>3. CASE UNCHANGED run \/ run' = ApplyResumed(run)
  BY <1>1, <1>2, <1>3, Stutters
<1>4. CASE sweep[s].pc = "failing" /\ sweep[s].at = seq /\ run' = ApplyFailed(run)
  <2>1. run.started /\ ~Ended(run)
    BY <1>2, <1>4 DEF SweepOK, Ended, Ending
  <2>2. /\ run'.status = "failed" /\ run'.open = run.open \ {}
        /\ run'.answered = run.answered /\ run'.approved = run.approved
    BY <1>2, <1>4 DEF RunState, ApplyFailed
  <2>3. Ended(run)'
    BY <2>2 DEF Ended, Ending
  <2>4. {} \in SUBSET Call
    OBVIOUS
  <2> QED
    BY <1>1, <2>1, <2>2, <2>3, <2>4, Ends
<1>5. \/ UNCHANGED run \/ run' = ApplyResumed(run)
      \/ sweep[s].pc = "failing" /\ sweep[s].at = seq /\ run' = ApplyFailed(run)
  BY DEF SweepStep, SweepClaims, SweepResolves, SweepFails, SweepResumes,
         Append, LostWrite, LostReply, log
<1> QED
  BY <1>3, <1>4, <1>5

-----------------------------------------------------------------------------
(* The loops.                                                               *)

\* A loop fails the run it was to carry on (fail_continuation).
LEMMA FailsKeeps ==
    ASSUME IInv, NEW l \in Loop, LoopFails(l)
    PROVE  Keeps
<1>1. UNCHANGED ran /\ run \in RunState /\ LoopOK(l) /\ loop[l].pc = "failing"
  BY DEF LoopFails, LoopTo, IInv, TypeOK
<1>2. CASE UNCHANGED run
  BY <1>1, <1>2, Stutters
<1>3. CASE Append(loop[l].at, ApplyFailed(run))
  <2>1. run.started /\ ~Ended(run)
    BY <1>1, <1>3 DEF LoopOK, LoopRead, LoopDrives, Live, MayEnd, Append
  <2>2. /\ run'.status = "failed" /\ run'.open = run.open \ {}
        /\ run'.answered = run.answered /\ run'.approved = run.approved
    BY <1>1, <1>3 DEF RunState, ApplyFailed, Append
  <2>3. Ended(run)' /\ {} \in SUBSET Call
    BY <2>2 DEF Ended, Ending
  <2> QED
    BY <1>1, <2>1, <2>2, <2>3, Ends
<1> QED
  BY <1>2, <1>3 DEF LoopFails, LostWrite, LostReply, log

\* The start of a round's tools, on record before they touch the world (tools_starting).
LEMMA StartingKeeps ==
    ASSUME IInv, NEW l \in Loop, LoopStarting(l)
    PROVE  Keeps
<1>1. /\ UNCHANGED ran /\ run \in RunState /\ LoopOK(l) /\ loop[l].pc = "starting"
      /\ loop[l] \in LoopState /\ ran \in [Call -> Nat]
  BY DEF LoopStarting, LoopTo, LoopMoves, IInv, TypeOK
<1>2. CASE UNCHANGED run
  BY <1>1, <1>2, Stutters
<1>3. CASE Append(loop[l].at, ApplyToolStarted(run, loop[l].calls))
  <2> DEFINE calls == loop[l].calls
  <2>1. /\ run.started /\ ~Ended(run) /\ run.status # "awaiting-approval"
        /\ \A c \in calls : ran[c] = 0
        /\ calls \cap (run.answered \ run.approved) = {} /\ calls \in SUBSET Call
    BY <1>1, <1>3 DEF LoopOK, LoopRead, LoopDrives, Drives, Live, MayStartTools, Append, LoopState
  <2>2. /\ run'.status = run.status /\ run'.open = run.open \cup calls /\ run'.started
        /\ run'.answered = run.answered /\ run'.approved = run.approved
    BY <1>1, <1>3, <2>1 DEF RunState, ApplyToolStarted, Append
  <2>3. calls \cap ({c \in Call : ran[c] > 0} \cup (run.answered \ run.approved)) = {}
    BY <2>1
  <2>4. Contract!Launch(calls)
    BY <1>1, <2>1, <2>2, <2>3 DEF Contract!Launch, Ended
  <2> QED
    BY <2>1, <2>4 DEF Keeps, Contract!Next
<1> QED
  BY <1>2, <1>3 DEF LoopStarting, LoopMoves, LostWrite, LostReply, log

\* A round's tools act, once each (run_all).
LEMMA ActsKeeps ==
    ASSUME IInv, NEW l \in Loop, LoopActs(l)
    PROVE  Keeps
<1>1. /\ UNCHANGED run /\ LoopOK(l) /\ loop[l].pc = "world"
      /\ loop[l] \in LoopState /\ ran \in [Call -> Nat]
  BY DEF LoopActs, IInv, TypeOK
<1>2. PICK acts \in SUBSET (loop[l].calls \ FormCall) :
         ran' = [c \in Call |-> IF c \in acts THEN ran[c] + 1 ELSE ran[c]]
  BY DEF LoopActs
<1>3. /\ acts \in SUBSET Call /\ acts \subseteq run.open
      /\ \A c \in acts : ran[c] = 0
  BY <1>1 DEF LoopOK, LoopDrives, Drives, Live, LoopState
<1>4. acts \subseteq run.open \ {c \in Call : ran[c] > 0}
  BY <1>3
<1>5. {c \in Call : ran'[c] > 0} = {c \in Call : ran[c] > 0} \cup acts
  <2>1. \A c \in Call : ran[c] \in Nat /\ ran'[c] = IF c \in acts THEN ran[c] + 1 ELSE ran[c]
    BY <1>1, <1>2
  <2> QED
    BY <1>3, <2>1
<1>6. Contract!Act(acts)
  BY <1>1, <1>4, <1>5 DEF Contract!Act, Ended
<1> QED
  BY <1>3, <1>6 DEF Keeps, Contract!Next

\* A round the run goes on from is recorded (record_round).
LEMMA RecordingKeeps ==
    ASSUME IInv, NEW l \in Loop, LoopRecording(l)
    PROVE  Keeps
<1>1. /\ UNCHANGED ran /\ run \in RunState /\ LoopOK(l) /\ loop[l].pc = "recording"
      /\ loop[l].calls \in SUBSET Call
  BY DEF LoopRecording, LoopTo, LoopMoves, IInv, TypeOK, LoopState
<1>2. CASE UNCHANGED run
  BY <1>1, <1>2, Stutters
<1>3. CASE Append(loop[l].at, ApplyResults(run, loop[l].calls))
  <2>1. run.started
    BY <1>1 DEF LoopOK, LoopDrives, Live
  <2>2. /\ run'.started /\ run'.status = run.status /\ run'.pending = run.pending
        /\ run'.answered = run.answered /\ run'.approved = run.approved
        /\ run'.open = run.open \ loop[l].calls
    BY <1>1, <1>3, <2>1 DEF RunState, ApplyResults, Append
  <2> QED
    BY <1>1, <2>1, <2>2, Settles
<1> QED
  BY <1>2, <1>3 DEF LoopRecording, LoopMoves, LostWrite, LostReply, log

\* The batch that ends a round waits on its last card, ends the run, or, on a run somebody
\* has stopped, only settles what it launched (append_events_once).
LEMMA EndingKeeps ==
    ASSUME IInv, NEW l \in Loop, LoopEnding(l)
    PROVE  Keeps
<1> DEFINE calls == loop[l].calls
<1>1. /\ UNCHANGED ran /\ run \in RunState /\ LoopOK(l) /\ loop[l].pc = "ending"
      /\ loop[l] \in LoopState /\ calls \in SUBSET Call /\ ran \in [Call -> Nat]
  BY DEF LoopEnding, LoopTo, LoopMoves, IInv, TypeOK, LoopState
<1>2. CASE UNCHANGED run
  BY <1>1, <1>2, Stutters
<1>3. ASSUME NEW card \in IF loop[l].ending = "park" THEN loop[l].cards ELSE {NoCall},
             Append(loop[l].at, EndBatch(run, loop[l], card))
      PROVE  Keeps
  <2>1. /\ run.started /\ run.status # "awaiting-approval"
        /\ loop[l].ending = "park" => ~Ended(run) /\ card \in calls /\ ran[card] = 0
    BY <1>1, <1>3
       DEF LoopOK, LoopRead, LoopHands, LoopDrives, Drives, Live, Append, MayEnd
  <2>2. EndsAs(run', run, loop[l], card)
    BY <1>1, <1>3, <2>1, EndBatchIs DEF Append
  <2>3. /\ run'.started /\ run'.answered = run.answered /\ run'.approved = run.approved
        /\ run'.open = run.open \ calls
    BY <2>1, <2>2 DEF EndsAs
  <2>4. CASE loop[l].ending = "park"
    <3>1. run'.status = "awaiting-approval" /\ run'.pending = card /\ ~Ended(run)'
      BY <2>2, <2>4 DEF EndsAs, Ended, Ending
    <3>2. card \in calls \ {c \in Call : ran[c] > 0}
      BY <2>1, <2>4
    <3>3. Contract!Wait(card, calls)
      BY <1>1, <2>1, <2>3, <2>4, <3>1, <3>2 DEF Contract!Wait
    <3> QED
      BY <1>1, <3>2, <3>3 DEF Keeps, Contract!Next
  <2>5. CASE loop[l].ending # "park" /\ run'.status = run.status
    <3>1. run'.pending = run.pending
      BY <2>2, <2>5 DEF EndsAs
    <3> QED
      BY <1>1, <2>1, <2>3, <2>5, <3>1, Settles
  <2>6. CASE ~Ended(run) /\ run'.status \in {"failed", "finished"}
    <3>1. Ended(run)' /\ run'.status # "awaiting-approval"
      BY <2>6 DEF Ended, Ending
    <3> QED
      BY <1>1, <2>1, <2>3, <2>6, <3>1, Ends
  <2> QED
    BY <2>2, <2>4, <2>5, <2>6 DEF EndsAs
<1> QED
  BY <1>2, <1>3 DEF LoopEnding, LoopMoves, LostWrite, LostReply, log

\* The steps of a loop, its crash among them.
LEMMA LoopKeeps ==
    ASSUME IInv, NEW l \in Loop, LoopStep(l) \/ LoopCrashes(l)
    PROVE  Keeps
<1>1. CASE LoopHolds(l) \/ LoopLoads(l) \/ LoopSetsUp(l) \/ LoopCannot(l) \/ LoopCrashes(l)
  <2>1. UNCHANGED <<run, ran>>
    BY <1>1 DEF LoopHolds, LoopLoads, LoopSetsUp, LoopCannot, LoopCrashes, LoopMoves, LoopTo, log
  <2> QED
    BY <2>1, Stutters
<1>2. CASE LoopResumes(l) \/ LoopRound(l) \/ LoopModel(l) \/ LoopAsked(l) \/ LoopStart(l)
  <2>1. UNCHANGED <<run, ran>>
    BY <1>2 DEF LoopResumes, LoopRound, LoopModel, LoopAsked, LoopStart, Asks, LoopMoves, LoopTo, log
  <2> QED
    BY <2>1, Stutters
<1>3. CASE LoopRecord(l) \/ LoopCloses(l) \/ LoopEnd(l)
  <2>1. UNCHANGED <<run, ran>>
    BY <1>3 DEF LoopRecord, LoopCloses, LoopEnd, Asks, LoopMoves, LoopTo, log
  <2> QED
    BY <2>1, Stutters
<1> QED
  BY <1>1, <1>2, <1>3, FailsKeeps, StartingKeeps, ActsKeeps, RecordingKeeps, EndingKeeps
     DEF LoopStep

-----------------------------------------------------------------------------
(* The theorems.                                                            *)

\* Whatever step is taken, a call is approved only by being answered (apply, Answered).
LEMMA ApprovedAnsweredStep ==
    ASSUME IInv, ApprovedAnswered, [Next]_vars
    PROVE  ApprovedAnswered'
<1> USE DEF ApprovedAnswered
<1>1. run \in RunState
  BY DEF IInv, TypeOK
<1>2. ASSUME UNCHANGED <<run.answered, run.approved>> PROVE ApprovedAnswered'
  BY <1>2
<1>3. CASE UNCHANGED vars
  BY <1>3 DEF vars
<1>4. ASSUME NEW p \in Post, PostActs(p) PROVE ApprovedAnswered'
  <2>1. UNCHANGED run \/ run' = ApplyStarted(run)
    BY <1>4 DEF PostActs, PostArrives, PostReads, PostClaims, Append, LostWrite, LostReply, log
  <2> QED
    BY <1>1, <2>1 DEF ApplyStarted, RunState
<1>5. ASSUME NEW w \in Person, PersonActs(w) PROVE ApprovedAnswered'
  <2>1. CASE AnswerAppends(w)
    <3>1. UNCHANGED run \/ run' = ApplyAnswered(run, person[w].call, person[w].yes)
      BY <2>1 DEF AnswerAppends, Append, LostWrite, LostReply, log
    <3>2. person[w].yes \in BOOLEAN
      BY DEF IInv, TypeOK, PersonState
    <3>3. CASE run' = ApplyAnswered(run, person[w].call, person[w].yes)
      <4>1. /\ run'.answered = run.answered \cup {person[w].call}
            /\ run'.approved = IF person[w].yes THEN run.approved \cup {person[w].call}
                               ELSE run.approved
        BY <1>1, <3>3 DEF ApplyAnswered, RunState
      <4> QED
        BY <3>2, <4>1
    <3> QED
      BY <3>1, <3>3
  <2>2. CASE StopAppends(w)
    <3>1. UNCHANGED run \/ run' = ApplyStopped(run)
      BY <2>2 DEF StopAppends, Append, LostWrite, LostReply, log
    <3> QED
      BY <1>1, <3>1 DEF ApplyStopped, RunState
  <2> QED
    BY <1>5, <2>1, <2>2 DEF PersonActs, AnswerReads, StopReads, InterruptReads
<1>6. ASSUME NEW s \in Sweeper, SweepStep(s) PROVE ApprovedAnswered'
  <2>1. UNCHANGED run \/ run' = ApplyFailed(run) \/ run' = ApplyResumed(run)
    BY <1>6 DEF SweepStep, SweepClaims, SweepResolves, SweepFails, SweepResumes,
                Append, LostWrite, LostReply, log
  <2> QED
    BY <1>1, <2>1 DEF ApplyFailed, ApplyResumed, RunState
<1>7. ASSUME NEW l \in Loop, LoopStep(l) \/ LoopCrashes(l) PROVE ApprovedAnswered'
  <2>1. CASE LoopFails(l)
    <3>1. UNCHANGED run \/ run' = ApplyFailed(run)
      BY <2>1 DEF LoopFails, Append, LostWrite, LostReply, log
    <3> QED
      BY <1>1, <3>1 DEF ApplyFailed, RunState
  <2>2. CASE LoopStarting(l)
    <3>1. UNCHANGED run \/ run' = ApplyToolStarted(run, loop[l].calls)
      BY <2>2 DEF LoopStarting, LoopMoves, Append, LostWrite, LostReply, log
    <3> QED
      BY <1>1, <3>1 DEF ApplyToolStarted, RunState
  <2>3. CASE LoopRecording(l)
    <3>1. UNCHANGED run \/ run' = ApplyResults(run, loop[l].calls)
      BY <2>3 DEF LoopRecording, LoopMoves, Append, LostWrite, LostReply, log
    <3> QED
      BY <1>1, <3>1 DEF ApplyResults, RunState
  <2>4. CASE LoopEnding(l)
    <3>1. PICK card \in IF loop[l].ending = "park" THEN loop[l].cards ELSE {NoCall} :
             UNCHANGED run \/ run' = EndBatch(run, loop[l], card)
      BY <2>4 DEF LoopEnding, LoopMoves, Append, LostWrite, LostReply, log
    <3>2. /\ loop[l] \in LoopState
          /\ loop[l].ending = "park" => card \in Call
      BY <2>4 DEF LoopEnding, IInv, TypeOK, LoopOK, LoopHands, LoopState
    <3>3. EndsAs(EndBatch(run, loop[l], card), run, loop[l], card)
      BY <1>1, <3>2, EndBatchIs
    <3> QED
      BY <3>1, <3>3 DEF EndsAs
  <2>5. CASE LoopHolds(l) \/ LoopLoads(l) \/ LoopSetsUp(l) \/ LoopCannot(l) \/ LoopCrashes(l)
             \/ LoopActs(l)
    <3>1. UNCHANGED run
      BY <2>5 DEF LoopHolds, LoopLoads, LoopSetsUp, LoopCannot, LoopCrashes, LoopActs,
                  LoopMoves, log
    <3> QED
      BY <3>1
  <2>6. CASE LoopResumes(l) \/ LoopRound(l) \/ LoopModel(l) \/ LoopAsked(l) \/ LoopStart(l)
             \/ LoopRecord(l) \/ LoopCloses(l) \/ LoopEnd(l)
    <3>1. UNCHANGED run
      BY <2>6 DEF LoopResumes, LoopRound, LoopModel, LoopAsked, LoopStart, LoopRecord,
                  LoopCloses, LoopEnd, Asks, LoopMoves, log
    <3> QED
      BY <3>1
  <2> QED
    BY <1>7, <2>1, <2>2, <2>3, <2>4, <2>5, <2>6 DEF LoopStep
<1>8. CASE LeaseExpires
  BY <1>8 DEF LeaseExpires
<1> QED
  BY <1>3, <1>4, <1>5, <1>6, <1>7, <1>8 DEF Next

\* Whatever step is taken, it keeps the contract.
LEMMA ContractStep ==
    ASSUME IInv, ApprovedAnswered, [Next]_vars
    PROVE  Keeps
<1>1. CASE UNCHANGED vars
  BY <1>1, Stutters DEF vars
<1>2. CASE LeaseExpires
  BY <1>2, Stutters DEF LeaseExpires
<1> QED
  BY <1>1, <1>2, PostKeeps, PersonKeeps, LoopKeeps, SweepKeeps DEF Next

\* Before anything is written the run is the contract's run before it begins.
LEMMA ContractInit ==
    ASSUME Init
    PROVE  Contract!Init /\ ApprovedAnswered
<1>1. /\ ~Ended(run) /\ ~run.started /\ run.status = "running" /\ run.open = {}
      /\ run.answered = {} /\ run.approved = {}
  BY DEF Init, NewRun, Ended, Ending
<1>2. {c \in Call : ran[c] > 0} = {}
  BY DEF Init
<1> QED
  BY <1>1, <1>2 DEF Contract!Init, ApprovedAnswered

\* However POSTs, loops, people, sweeps and crashes interleave, the run keeps the contract
\* a person relies on.
THEOREM ContractKept == Spec => KeepsContract
<1>1. Spec => []ApprovedAnswered
  BY Invariant, ContractInit, ApprovedAnsweredStep, PTL DEF Spec
<1>2. Spec => Contract!Init
  BY ContractInit DEF Spec
<1>3. IInv /\ ApprovedAnswered /\ [Next]_vars => [Contract!Next]_(Contract!cvars)
  BY ContractStep DEF Keeps
<1> QED
  BY <1>1, <1>2, <1>3, Invariant, PTL DEF Spec, KeepsContract, Contract!Spec
=============================================================================
