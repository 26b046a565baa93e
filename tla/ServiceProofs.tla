--------------------------- MODULE ServiceProofs ---------------------------
(***************************************************************************)
(* Proofs about the services around the ledger, for every value of their   *)
(* constants: the model manager (Residency), worker runs and the tool      *)
(* governor (WorkerRuns), the agent loop (AgentLoop), the subtask workflow *)
(* (Workflows), the shadow evaluator (ControlShadow), the event bus        *)
(* (EventBus) and the context packs (ContextPack, SafetyScan).             *)
(***************************************************************************)
EXTENDS Residency, ContextPack, Workflows, AgentLoop, EventBus, ControlShadow, WorkerRuns,
        FiniteSetTheorems, SequenceTheorems, TLAPS

----------------------------------------------------------------------------
(* Counting.                                                               *)

\* A finite set that gains one element counts one more.
LEMMA CountJoin ==
  ASSUME NEW S, IsFiniteSet(S), NEW x, x \notin S, NEW T, T = S \cup {x}
  PROVE  IsFiniteSet(T) /\ Cardinality(S) \in Nat /\ Cardinality(T) = Cardinality(S) + 1
BY FS_AddElement, FS_CardinalityType

\* A finite set that loses one element counts one less, and had one to lose.
LEMMA CountLeave ==
  ASSUME NEW S, IsFiniteSet(S), NEW x, x \in S, NEW T, T = S \ {x}
  PROVE  /\ IsFiniteSet(T)
         /\ Cardinality(S) \in Nat \ {0}
         /\ Cardinality(T) \in Nat
         /\ Cardinality(T) = Cardinality(S) - 1
<1>1. Cardinality(S) \in Nat /\ Cardinality(S) # 0
  BY FS_CardinalityType, FS_EmptySet
<1>2. QED
  BY <1>1, FS_RemoveElement

----------------------------------------------------------------------------
(* Residency.                                                              *)

ResidencySteps ==
  {"idle", "check", "load", "commit", "enter", "waiting", "admitted", "generating", "leaving"}

Admitted == Threads({"admitted", "generating", "leaving"})
Queued == Threads({"waiting", "admitted"})
Generating == Threads({"generating"})

ResidencyTypeOK ==
  /\ request \in [Caller -> [job : {"load", "generate"}, model : Model, at : ResidencySteps]]
  /\ freeSlots \in Nat /\ activeSequences \in Nat /\ waiting \in Nat

\* The inductive invariant: the semaphore and the two counters are what the
\* threads' places say they are.
ResidencyInv ==
  /\ ResidencyTypeOK
  /\ freeSlots + Cardinality(Admitted) = MaxActiveSequences
  /\ activeSequences = Cardinality(Generating)
  /\ waiting = Cardinality(Queued)

\* The threads that are at some step are finitely many.
LEMMA ThreadsFinite ==
  ASSUME NEW steps
  PROVE  IsFiniteSet(Threads(steps)) /\ Cardinality(Threads(steps)) \in Nat
BY ResidencyConstants, FS_Subset, FS_CardinalityType DEF Threads

\* A thread that moves between two steps of the same side of a set of steps
\* leaves the threads of that set alone; otherwise it joins or leaves them.
LEMMA ThreadMoves ==
  ASSUME ResidencyTypeOK, NEW c \in Caller, NEW steps, NEW to,
         \A d \in Caller \ {c} : request'[d].at = request[d].at,
         request'[c].at = to
  PROVE  /\ (request[c].at \in steps <=> to \in steps) => Threads(steps)' = Threads(steps)
         /\ (request[c].at \notin steps /\ to \in steps) =>
              Cardinality(Threads(steps)') = Cardinality(Threads(steps)) + 1
         /\ (request[c].at \in steps /\ to \notin steps) =>
              /\ Cardinality(Threads(steps)) > 0
              /\ Cardinality(Threads(steps)') = Cardinality(Threads(steps)) - 1
<1>1. (request[c].at \in steps <=> to \in steps) => Threads(steps)' = Threads(steps)
  BY DEF Threads
<1>2. ASSUME request[c].at \notin steps, to \in steps
      PROVE  Cardinality(Threads(steps)') = Cardinality(Threads(steps)) + 1
  <2>1. Threads(steps)' = Threads(steps) \cup {c} /\ c \notin Threads(steps)
    BY <1>2 DEF Threads
  <2>2. QED
    BY <2>1, ThreadsFinite, CountJoin
<1>3. ASSUME request[c].at \in steps, to \notin steps
      PROVE  /\ Cardinality(Threads(steps)) > 0
             /\ Cardinality(Threads(steps)') = Cardinality(Threads(steps)) - 1
  <2>1. Threads(steps)' = Threads(steps) \ {c} /\ c \in Threads(steps)
    BY <1>3 DEF Threads
  <2>2. QED
    BY <2>1, ThreadsFinite, CountLeave
<1>4. QED
  BY <1>1, <1>2, <1>3

\* A manager that has just started holds no model.
LEMMA ResidencyInitially == ResidencyInit => ResidencyInv
<1> SUFFICES ASSUME ResidencyInit PROVE ResidencyInv
  OBVIOUS
<1>1. Admitted = {} /\ Generating = {} /\ Queued = {}
  BY DEF ResidencyInit, Admitted, Generating, Queued, Threads
<1>2. ResidencyTypeOK
  BY ResidencyConstants DEF ResidencyInit, ResidencyTypeOK, ResidencySteps
<1>3. QED
  BY <1>1, <1>2, FS_EmptySet, ResidencyConstants DEF ResidencyInit, ResidencyInv

\* Every step of every request thread keeps the manager's invariant.
LEMMA ResidencyStep == ResidencyInv /\ [ResidencyNext]_residencyVars => ResidencyInv'
<1> SUFFICES ASSUME ResidencyInv, [ResidencyNext]_residencyVars PROVE ResidencyInv'
  OBVIOUS
<1> USE ResidencyConstants
<1>0. /\ Cardinality(Admitted) \in Nat /\ Cardinality(Generating) \in Nat
      /\ Cardinality(Queued) \in Nat
  BY ThreadsFinite DEF Admitted, Generating, Queued
<1>1. CASE UNCHANGED residencyVars
  BY <1>1 DEF ResidencyInv, ResidencyTypeOK, residencyVars, Admitted, Generating, Queued, Threads
<1>2. ASSUME NEW m \in Model, Unload(m) PROVE ResidencyInv'
  BY <1>2 DEF Unload, slotVars, ResidencyInv, ResidencyTypeOK, Admitted, Generating, Queued, Threads
<1>3. ASSUME NEW c \in Caller, NEW m \in Model, Load(c, m) \/ Generate(c, m) PROVE ResidencyInv'
  <2>1. ResidencyTypeOK' /\ UNCHANGED slotVars
    BY <1>3 DEF Load, Generate, ResidencyInv, ResidencyTypeOK, ResidencySteps, slotVars
  <2>2. /\ request[c].at = "idle" /\ request'[c].at \in {"check", "enter"}
        /\ \A d \in Caller \ {c} : request'[d].at = request[d].at
    BY <1>3 DEF Load, Generate, At, ResidencyInv, ResidencyTypeOK
  <2>3. Admitted' = Admitted /\ Generating' = Generating /\ Queued' = Queued
    BY <2>2, ThreadMoves DEF ResidencyInv, Admitted, Generating, Queued
  <2>4. QED
    BY <2>1, <2>3 DEF ResidencyInv, slotVars
<1>4. ASSUME NEW c \in Caller, CheckResident(c) \/ BackendLoad(c) \/ CommitLoad(c)
      PROVE ResidencyInv'
  <2>1. ResidencyTypeOK' /\ UNCHANGED slotVars
    BY <1>4 DEF CheckResident, BackendLoad, CommitLoad, Go, Loaded, ResidencyInv, ResidencyTypeOK, ResidencySteps, slotVars
  <2>2. /\ request[c].at \in {"check", "load", "commit"}
        /\ request'[c].at \in {"idle", "enter", "load", "commit"}
        /\ \A d \in Caller \ {c} : request'[d].at = request[d].at
    BY <1>4 DEF CheckResident, BackendLoad, CommitLoad, Go, Loaded, At, ResidencyInv, ResidencyTypeOK
  <2>3. Admitted' = Admitted /\ Generating' = Generating /\ Queued' = Queued
    BY <2>2, ThreadMoves DEF ResidencyInv, Admitted, Generating, Queued
  <2>4. QED
    BY <2>1, <2>3 DEF ResidencyInv, slotVars
<1>5. ASSUME NEW c \in Caller, EnterQueue(c) PROVE ResidencyInv'
  <2>1. /\ request[c].at = "enter" /\ request'[c].at = "waiting"
        /\ \A d \in Caller \ {c} : request'[d].at = request[d].at
    BY <1>5 DEF EnterQueue, Go, At, ResidencyInv, ResidencyTypeOK
  <2>2. /\ Admitted' = Admitted /\ Generating' = Generating
        /\ Cardinality(Queued)' = Cardinality(Queued) + 1
    BY <2>1, ThreadMoves DEF ResidencyInv, Admitted, Generating, Queued
  <2>3. ResidencyTypeOK'
    BY <1>5 DEF EnterQueue, Go, ResidencyInv, ResidencyTypeOK, ResidencySteps
  <2>4. QED
    BY <1>5, <2>2, <2>3 DEF EnterQueue, ResidencyInv
<1>6. ASSUME NEW c \in Caller, AcquireSlot(c) PROVE ResidencyInv'
  <2>1. /\ request[c].at = "waiting" /\ request'[c].at = "admitted"
        /\ \A d \in Caller \ {c} : request'[d].at = request[d].at
    BY <1>6 DEF AcquireSlot, Go, At, ResidencyInv, ResidencyTypeOK
  <2>2. /\ Queued' = Queued /\ Generating' = Generating
        /\ Cardinality(Admitted)' = Cardinality(Admitted) + 1
    BY <2>1, ThreadMoves DEF ResidencyInv, Admitted, Generating, Queued
  <2>3. ResidencyTypeOK'
    BY <1>6 DEF AcquireSlot, SlotFree, Go, ResidencyInv, ResidencyTypeOK, ResidencySteps
  <2>4. freeSlots' + Cardinality(Admitted)' = MaxActiveSequences
    BY <1>0, <1>6, <2>2 DEF AcquireSlot, ResidencyInv, ResidencyTypeOK
  <2>5. QED
    BY <1>6, <2>2, <2>3, <2>4 DEF AcquireSlot, ResidencyInv
<1>7. ASSUME NEW c \in Caller, StartGenerating(c) PROVE ResidencyInv'
  <2>1. /\ request[c].at = "admitted" /\ request'[c].at = "generating"
        /\ \A d \in Caller \ {c} : request'[d].at = request[d].at
    BY <1>7 DEF StartGenerating, Go, At, ResidencyInv, ResidencyTypeOK
  <2>2. /\ Admitted' = Admitted
        /\ Cardinality(Generating)' = Cardinality(Generating) + 1
        /\ Cardinality(Queued) > 0 /\ Cardinality(Queued)' = Cardinality(Queued) - 1
    BY <2>1, ThreadMoves DEF ResidencyInv, Admitted, Generating, Queued
  <2>3. ResidencyTypeOK'
    BY <1>7 DEF StartGenerating, Go, ResidencyInv, ResidencyTypeOK, ResidencySteps
  <2>4. QED
    BY <1>7, <2>2, <2>3 DEF StartGenerating, ResidencyInv
<1>8. ASSUME NEW c \in Caller, StopGenerating(c) PROVE ResidencyInv'
  <2>1. /\ request[c].at = "generating" /\ request'[c].at = "leaving"
        /\ \A d \in Caller \ {c} : request'[d].at = request[d].at
    BY <1>8 DEF StopGenerating, Go, At, ResidencyInv, ResidencyTypeOK
  <2>2. /\ Admitted' = Admitted /\ Queued' = Queued
        /\ Cardinality(Generating) > 0 /\ Cardinality(Generating)' = Cardinality(Generating) - 1
    BY <2>1, ThreadMoves DEF ResidencyInv, Admitted, Generating, Queued
  <2>3. ResidencyTypeOK'
    BY <1>8 DEF StopGenerating, Go, ResidencyInv, ResidencyTypeOK, ResidencySteps
  <2>4. QED
    BY <1>8, <2>2, <2>3 DEF StopGenerating, ResidencyInv
<1>9. ASSUME NEW c \in Caller, ReleaseSlot(c) PROVE ResidencyInv'
  <2>1. /\ request[c].at = "leaving" /\ request'[c].at = "idle"
        /\ \A d \in Caller \ {c} : request'[d].at = request[d].at
    BY <1>9 DEF ReleaseSlot, Go, At, ResidencyInv, ResidencyTypeOK
  <2>2. /\ Generating' = Generating /\ Queued' = Queued
        /\ Cardinality(Admitted)' = Cardinality(Admitted) - 1
    BY <2>1, ThreadMoves DEF ResidencyInv, Admitted, Generating, Queued
  <2>3. ResidencyTypeOK'
    BY <1>9 DEF ReleaseSlot, Go, ResidencyInv, ResidencyTypeOK, ResidencySteps
  <2>4. QED
    BY <1>0, <1>9, <2>2, <2>3 DEF ReleaseSlot, ResidencyInv, ResidencyTypeOK
<1>10. QED
  BY <1>1, <1>2, <1>3, <1>4, <1>5, <1>6, <1>7, <1>8, <1>9 DEF ResidencyNext

\* However many requests load, unload and generate at once, the manager admits
\* MaxActiveSequences generations at most, loses no slot, and its two counters
\* are the threads in the backend and in the queue (residency.py, generate).
THEOREM SlotsAreRespected == ResidencySpec => []SlotsRespected
<1>1. ResidencyInv => SlotsRespected
  <2> SUFFICES ASSUME ResidencyInv PROVE SlotsRespected
    OBVIOUS
  <2>1. Cardinality(Generating) <= Cardinality(Admitted)
    <3>1. Generating \subseteq Admitted
      BY DEF Generating, Admitted, Threads
    <3>2. QED
      BY <3>1, ThreadsFinite, FS_Subset DEF Generating, Admitted
  <2>2. Cardinality(Generating) \in Nat /\ Cardinality(Admitted) \in Nat
    BY ThreadsFinite DEF Generating, Admitted
  <2>3. QED
    BY <2>1, <2>2, ResidencyConstants
    DEF ResidencyInv, ResidencyTypeOK, SlotsRespected, Generating, Admitted, Queued
<1>2. QED
  BY <1>1, ResidencyInitially, ResidencyStep, PTL DEF ResidencySpec

----------------------------------------------------------------------------
(* WorkerRuns.                                                             *)

RunPhase == {"token", "consult", "launch", "generate", "record", "done"}
RunResult == {"none", "raised", "allowed", "blocked_by_outage", "blocked_by_policy",
              "succeeded", "failed", "discarded"}
Allowing == {"allow", "worded"}

PrepRecord == [door : {"run_subtask", "authorize_tool_use"}, harness : Harness,
               phase : RunPhase, answers : Seq(Answer),
               model : {"none", "selected"}, report : {"none", "succeeded", "failed"},
               ended : BOOLEAN, result : RunResult]

RunsTypeOK ==
  /\ prep \in [Preparation -> PrepRecord]
  /\ outcomes \subseteq [prep : Preparation, tool : Nat, outcome : {"authorized", "blocked"}]
  /\ outputs \subseteq [prep : Preparation, text : {"echo", "empty", "text", "failure", "raises"}]

RemoteRecord == [state : {"idle", "running"}, heard : BOOLEAN, posts : Nat]

RemoteTypeOK == running \in Nat /\ remote \in [RemoteCall -> RemoteRecord]

\* A preparation that was let through: it launches, or it has its answer.
LetThrough(p) ==
  \/ prep[p].phase \in {"launch", "generate", "record"}
  \/ prep[p].result \in {"allowed", "succeeded", "failed", "discarded"}

\* What a preparation knows at each phase.
Consulted(p) ==
  /\ prep[p].phase # "done" => prep[p].result = "none"
  /\ prep[p].phase = "record" => prep[p].report # "none"
  /\ prep[p].ended => prep[p].result \notin {"succeeded", "failed"}
  /\ \A i \in DOMAIN prep[p].answers :
       prep[p].phase # "done" \/ i < Len(prep[p].answers) => prep[p].answers[i] \in Allowing
  /\ governor # "none" /\ LetThrough(p) =>
       /\ Len(prep[p].answers) = DeclaredTools
       /\ \A i \in DOMAIN prep[p].answers : prep[p].answers[i] \in Allowing

OutputsOf(p) == {o \in outputs : o.prep = p}

HasOne(p) == \E x : OutputsOf(p) = {x}

\* No output before the harness ended; then at most one, and one for a success.
Stored(p) ==
  /\ OutputsOf(p) = {} \/ HasOne(p)
  /\ prep[p].phase = "record" /\ prep[p].report = "succeeded" => HasOne(p)
  /\ prep[p].result = "succeeded" => HasOne(p)
  /\ prep[p].phase # "record" /\ prep[p].result \notin {"succeeded", "failed", "discarded"}
       => OutputsOf(p) = {}

Reported ==
  \A o \in outcomes : /\ o.tool \in DOMAIN prep[o.prep].answers
                      /\ o.outcome = "blocked" => prep[o.prep].result = "blocked_by_policy"

InApp == {c \in RemoteCall : remote[c].state = "running"}

PreparationInv ==
  RunsTypeOK /\ (\A p \in Preparation : Consulted(p) /\ Stored(p)) /\ Reported

RemoteInv == RemoteTypeOK /\ running = Cardinality(InApp) /\ running <= MaxConcurrentTasks

\* What a step writes into one preparation keeps its type.
LEMMA PrepUpdated ==
  ASSUME NEW r \in PrepRecord, NEW phase \in RunPhase, NEW result \in RunResult,
         NEW answers \in Seq(Answer), NEW model \in {"none", "selected"}
  PROVE  [r EXCEPT !.answers = answers, !.phase = phase, !.result = result, !.model = model]
           \in PrepRecord
BY DEF PrepRecord

\* Before the first run nothing is consulted, stored or in the app.
LEMMA RunsInitially == RunsInit => PreparationInv /\ RemoteInv
<1> SUFFICES ASSUME RunsInit PROVE PreparationInv /\ RemoteInv
  OBVIOUS
<1>1. RunsTypeOK /\ Reported
  <2>1. ASSUME NEW p \in Preparation PROVE prep[p] \in PrepRecord
    <3>1. <<>> \in Seq(Answer)
      OBVIOUS
    <3>2. QED
      BY <3>1 DEF RunsInit, PrepRecord, RunPhase, RunResult, Harness
  <2>2. prep = [p \in Preparation |-> prep[p]]
    BY DEF RunsInit
  <2>3. QED
    BY <2>1, <2>2 DEF RunsInit, RunsTypeOK, Reported
<1>2. ASSUME NEW p \in Preparation PROVE Consulted(p) /\ Stored(p)
  <2>1. /\ prep[p].phase \in {"token", "consult"} /\ prep[p].result = "none"
        /\ prep[p].answers = <<>> /\ prep[p].ended = FALSE
    BY DEF RunsInit
  <2>2. OutputsOf(p) = {} /\ DOMAIN prep[p].answers = {}
    BY <2>1 DEF RunsInit, OutputsOf
  <2>3. QED
    BY <2>1, <2>2 DEF Consulted, LetThrough, Stored
<1>3. InApp = {} /\ RemoteTypeOK
  BY DEF RunsInit, InApp, RemoteTypeOK, RemoteRecord
<1>4. QED
  BY <1>1, <1>2, <1>3, FS_EmptySet, WorkerRunsBounds DEF PreparationInv, RemoteInv, RunsInit

\* A step of one preparation leaves the others what they were.
LEMMA OtherPreparations ==
  ASSUME PreparationInv, NEW p \in Preparation, NEW q \in Preparation \ {p},
         prep'[q] = prep[q], governor' = governor, OutputsOf(q)' = OutputsOf(q)
  PROVE  Consulted(q)' /\ Stored(q)'
BY DEF PreparationInv, Consulted, Stored, HasOne, LetThrough

\* A preparation that stores nothing only has to answer for itself.
LEMMA OnePreparation ==
  ASSUME PreparationInv, NEW p \in Preparation, RunsTypeOK', Consulted(p)', Reported',
         prep[p].phase \notin {"done", "record"}, prep'[p].result # "succeeded",
         prep'[p].phase = "record" => prep'[p].report # "succeeded",
         \A q \in Preparation \ {p} : prep'[q] = prep[q],
         governor' = governor, outputs' = outputs
  PROVE  PreparationInv'
<1>1. \A q \in Preparation : OutputsOf(q)' = OutputsOf(q)
  BY DEF OutputsOf
<1>2. Stored(p)'
  BY <1>1 DEF PreparationInv, Consulted, Stored
<1>3. \A q \in Preparation \ {p} : Consulted(q)' /\ Stored(q)'
  BY <1>1, OtherPreparations
<1>4. QED
  BY <1>2, <1>3 DEF PreparationInv

\* Reports stay true while a preparation that is not over only gains answers.
LEMMA StillReported ==
  ASSUME RunsTypeOK, Reported, NEW p \in Preparation, prep[p].result = "none",
         DOMAIN prep[p].answers \subseteq DOMAIN prep'[p].answers,
         \A q \in Preparation \ {p} : prep'[q] = prep[q],
         NEW o \in outcomes
  PROVE  /\ o.tool \in DOMAIN prep'[o.prep].answers
         /\ o.outcome = "blocked" => prep'[o.prep].result = "blocked_by_policy"
<1>1. /\ o.prep \in Preparation /\ o.tool \in DOMAIN prep[o.prep].answers
      /\ o.outcome = "blocked" => prep[o.prep].result = "blocked_by_policy"
  BY DEF RunsTypeOK, Reported
<1>2. CASE o.prep = p
  BY <1>1, <1>2
<1>3. CASE o.prep # p
  BY <1>1, <1>3
<1>4. QED
  BY <1>2, <1>3

\* The three decisions a client makes of an answer.
LEMMA Decisions ==
  ASSUME NEW answer \in Answer
  PROVE  \/ answer \in Allowing
            /\ GovernorDecides(answer) = [allowed |-> TRUE, unavailable |-> FALSE, id |-> TRUE]
         \/ answer = "deny"
            /\ GovernorDecides(answer) = [allowed |-> FALSE, unavailable |-> FALSE, id |-> TRUE]
         \/ answer \notin Verdicts
            /\ GovernorDecides(answer) = [allowed |-> FALSE, unavailable |-> TRUE, id |-> FALSE]
<1>1. CASE answer \in Allowing
  <2>1. answer \in Verdicts /\ (answer \in {"allow", "worded"}) = TRUE
    BY <1>1 DEF Allowing, Verdicts
  <2>2. QED
    BY <1>1, <2>1 DEF GovernorDecides, FromBody
<1>2. CASE answer = "deny"
  <2>1. answer \in Verdicts /\ (answer \in {"allow", "worded"}) = FALSE
    BY <1>2 DEF Verdicts
  <2>2. QED
    BY <1>2, <2>1 DEF GovernorDecides, FromBody
<1>3. CASE answer \notin Verdicts
  BY <1>3 DEF GovernorDecides, DenyUnavailable
<1>4. QED
  BY <1>1, <1>2, <1>3 DEF Verdicts, Allowing

\* The steps of one preparation keep what is known of all of them.
LEMMA PreparationStep ==
  ASSUME PreparationInv, NEW p \in Preparation,
         \/ \E valid \in BOOLEAN : AuthorizeToolUse(p, valid)
         \/ ToolsCleared(p)
         \/ \E answer \in Answer, recorded \in BOOLEAN : ConsultToolGovernor(p, answer, recorded)
         \/ \E reply \in {"eligible", "declined", "unsaid", "raises"} : LocalEstimate(p, reply)
  PROVE  PreparationInv'
<1>0. /\ prep \in [Preparation -> PrepRecord] /\ prep[p] \in PrepRecord
      /\ RunsTypeOK /\ Consulted(p) /\ Reported
  BY DEF PreparationInv, RunsTypeOK
<1>1. ASSUME NEW valid \in BOOLEAN, AuthorizeToolUse(p, valid) PROVE PreparationInv'
  <2>1. /\ prep[p].phase = "token"
        /\ \/ prep'[p] = [prep[p] EXCEPT !.phase = "consult", !.result = "none"]
           \/ prep'[p] = [prep[p] EXCEPT !.phase = "done", !.result = "raised"]
        /\ prep' = [prep EXCEPT ![p] = prep'[p]]
    BY <1>0, <1>1 DEF AuthorizeToolUse, Proceed
  <2>2. prep'[p] \in PrepRecord /\ prep'[p].result \in {"none", "raised"}
    BY <1>0, <2>1 DEF PrepRecord, RunPhase, RunResult
  <2>3. RunsTypeOK'
    BY <1>0, <1>1, <2>1, <2>2 DEF AuthorizeToolUse, RunsTypeOK
  <2>4. Consulted(p)'
    BY <1>0, <1>1, <2>1 DEF AuthorizeToolUse, Consulted, LetThrough, PrepRecord
  <2>5. Reported'
    <3>1. prep[p].result = "none" /\ prep'[p].answers = prep[p].answers
      BY <1>0, <2>1 DEF Consulted, PrepRecord
    <3>2. outcomes' = outcomes /\ \A q \in Preparation \ {p} : prep'[q] = prep[q]
      BY <1>0, <1>1, <2>1 DEF AuthorizeToolUse
    <3>3. QED
      BY <1>0, <3>1, <3>2, StillReported DEF Reported
  <2>6. QED
    <3>1. prep'[p].phase # "record" /\ prep'[p].result # "succeeded"
      BY <1>0, <2>1, <2>2 DEF PrepRecord
    <3>2. QED
      BY <1>1, <2>1, <2>3, <2>4, <2>5, <3>1, OnePreparation, <1>0 DEF AuthorizeToolUse
<1>2. CASE ToolsCleared(p)
  <2>1. /\ prep[p].phase = "consult"
        /\ \/ prep'[p] = [prep[p] EXCEPT !.phase = "launch", !.result = "none"]
           \/ prep'[p] = [prep[p] EXCEPT !.phase = "done", !.result = "allowed"]
        /\ prep' = [prep EXCEPT ![p] = prep'[p]]
    BY <1>0, <1>2 DEF ToolsCleared, Proceed, Cleared
  <2>2. prep'[p] \in PrepRecord /\ prep'[p].result \in {"none", "allowed"}
    BY <1>0, <2>1 DEF PrepRecord, RunPhase, RunResult
  <2>3. RunsTypeOK'
    BY <1>0, <1>2, <2>1, <2>2 DEF ToolsCleared, RunsTypeOK
  <2>4. governor # "none" => /\ Len(prep[p].answers) = DeclaredTools
                             /\ \A i \in DOMAIN prep[p].answers : prep[p].answers[i] \in Allowing
    BY <1>0, <1>2 DEF ToolsCleared, Granted, GovernorDecides, FromBody, DenyUnavailable, Allowing, Verdicts
  <2>5. Consulted(p)'
    BY <1>0, <1>2, <2>1, <2>4 DEF ToolsCleared, Consulted, LetThrough, PrepRecord
  <2>6. Reported'
    <3>1. prep[p].result = "none" /\ prep'[p].answers = prep[p].answers
      BY <1>0, <2>1 DEF Consulted, PrepRecord
    <3>2. outcomes' = outcomes /\ \A q \in Preparation \ {p} : prep'[q] = prep[q]
      BY <1>0, <1>2, <2>1 DEF ToolsCleared
    <3>3. QED
      BY <1>0, <3>1, <3>2, StillReported DEF Reported
  <2>7. QED
    <3>1. prep'[p].phase # "record" /\ prep'[p].result # "succeeded"
      BY <1>0, <2>1, <2>2 DEF PrepRecord
    <3>2. QED
      BY <1>0, <1>2, <2>1, <2>3, <2>5, <2>6, <3>1, OnePreparation DEF ToolsCleared
<1>3. ASSUME NEW answer \in Answer, NEW recorded \in BOOLEAN, ConsultToolGovernor(p, answer, recorded)
      PROVE  PreparationInv'
  <2> DEFINE d == GovernorDecides(answer)
  <2>1. /\ prep[p].phase = "consult" /\ prep[p].result = "none" /\ prep[p].answers \in Seq(Answer)
        /\ prep' = [prep EXCEPT ![p] = prep'[p]]
    <3>1. prep[p].phase = "consult" /\ prep[p].result = "none" /\ prep[p].answers \in Seq(Answer)
      BY <1>0, <1>3 DEF ConsultToolGovernor, Consulted, PrepRecord
    <3>2. prep' = [prep EXCEPT ![p] = prep'[p]]
      BY <1>0, <1>3 DEF ConsultToolGovernor, Blocked
    <3>3. QED
      BY <3>1, <3>2
  <2>2. /\ prep'[p] \in PrepRecord /\ prep'[p].answers = Append(prep[p].answers, answer)
        /\ \/ answer \in Allowing /\ prep'[p].phase = "consult" /\ prep'[p].result = "none"
              /\ d.allowed
           \/ answer = "deny" /\ prep'[p].phase = "done" /\ prep'[p].result = "blocked_by_policy"
              /\ ~d.allowed /\ d.id
           \/ answer \notin Verdicts /\ prep'[p].phase = "done" /\ prep'[p].result = "blocked_by_outage"
              /\ ~d.id /\ ~d.allowed
    <3>1. Append(prep[p].answers, answer) \in Seq(Answer)
      BY <2>1
    <3>a. prep'[p] = [prep[p] EXCEPT !.answers = Append(prep[p].answers, answer),
                        !.phase = IF d.allowed THEN prep[p].phase ELSE "done",
                        !.result = IF d.allowed THEN prep[p].result ELSE Blocked(d)]
      <4>1. prep' = [prep EXCEPT ![p] =
                      [prep[p] EXCEPT !.answers = Append(prep[p].answers, answer),
                        !.phase = IF d.allowed THEN prep[p].phase ELSE "done",
                        !.result = IF d.allowed THEN prep[p].result ELSE Blocked(d)]]
        BY <1>0, <1>3 DEF ConsultToolGovernor
      <4>2. QED
        BY <1>0, <4>1
    <3>2. CASE answer \in Allowing /\ d = [allowed |-> TRUE, unavailable |-> FALSE, id |-> TRUE]
      <4>1. d.allowed = TRUE
        BY <3>2
      <4>2. prep'[p] = [prep[p] EXCEPT !.answers = Append(prep[p].answers, answer),
                                       !.phase = prep[p].phase, !.result = prep[p].result]
        BY <3>a, <4>1 DEF Blocked
      <4>3. QED
        BY <1>0, <2>1, <3>1, <3>2, <4>1, <4>2 DEF PrepRecord
    <3>3. CASE answer = "deny" /\ d = [allowed |-> FALSE, unavailable |-> FALSE, id |-> TRUE]
      <4>1. d.allowed = FALSE /\ d.unavailable = FALSE /\ d.id = TRUE
        BY <3>3
      <4>2. prep'[p] = [prep[p] EXCEPT !.answers = Append(prep[p].answers, answer),
                                       !.phase = "done", !.result = "blocked_by_policy"]
        BY <3>a, <4>1 DEF Blocked
      <4>3. QED
        BY <1>0, <2>1, <3>1, <3>3, <4>1, <4>2 DEF PrepRecord, RunPhase, RunResult
    <3>4. CASE answer \notin Verdicts /\ d = [allowed |-> FALSE, unavailable |-> TRUE, id |-> FALSE]
      <4>1. d.allowed = FALSE /\ d.unavailable = TRUE /\ d.id = FALSE
        BY <3>4
      <4>2. prep'[p] = [prep[p] EXCEPT !.answers = Append(prep[p].answers, answer),
                                       !.phase = "done", !.result = "blocked_by_outage"]
        BY <3>a, <4>1 DEF Blocked
      <4>3. QED
        BY <1>0, <2>1, <3>1, <3>4, <4>1, <4>2 DEF PrepRecord, RunPhase, RunResult
    <3>5. QED
      BY <3>2, <3>3, <3>4, Decisions
  <2>3. \A q \in Preparation \ {p} : prep'[q] = prep[q]
    BY <1>0, <2>1
  <2>5. outcomes' \subseteq [prep : Preparation, tool : Nat, outcome : {"authorized", "blocked"}]
    <3>1. Len(prep[p].answers) + 1 \in Nat
      BY <2>1
    <3>2. [prep |-> p, tool |-> Len(prep[p].answers) + 1,
           outcome |-> IF d.allowed THEN "authorized" ELSE "blocked"]
             \in [prep : Preparation, tool : Nat, outcome : {"authorized", "blocked"}]
      BY <3>1
    <3>3. QED
      BY <1>0, <1>3, <3>2 DEF ConsultToolGovernor, RecordOutcome, RunsTypeOK
  <2>6. RunsTypeOK'
    BY <1>0, <1>3, <2>1, <2>2, <2>5 DEF ConsultToolGovernor, RunsTypeOK
  <2>7. Consulted(p)'
    <3>1. /\ Len(prep'[p].answers) = Len(prep[p].answers) + 1
          /\ Len(prep[p].answers) \in Nat
          /\ \A i \in 1..Len(prep[p].answers) : prep'[p].answers[i] = prep[p].answers[i]
          /\ prep'[p].answers[Len(prep[p].answers) + 1] = answer
          /\ DOMAIN prep'[p].answers = 1..(Len(prep[p].answers) + 1)
          /\ DOMAIN prep[p].answers = 1..Len(prep[p].answers)
      BY <2>1, <2>2
    <3>2. ASSUME NEW i \in DOMAIN prep'[p].answers,
                 prep'[p].phase # "done" \/ i < Len(prep'[p].answers)
          PROVE  prep'[p].answers[i] \in Allowing
      BY <1>0, <2>1, <2>2, <3>1, <3>2 DEF Consulted
    <3>3. ~LetThrough(p)'
      BY <2>2 DEF LetThrough
    <3>4. /\ prep'[p].phase # "done" => prep'[p].result = "none"
          /\ prep'[p].phase # "record" /\ prep'[p].result \notin {"succeeded", "failed"}
      BY <2>2
    <3>5. QED
      BY <3>2, <3>3, <3>4 DEF Consulted
  <2>8. Reported'
    <3> SUFFICES ASSUME NEW o \in outcomes'
                 PROVE  /\ o.tool \in DOMAIN prep'[o.prep].answers
                        /\ o.outcome = "blocked" => prep'[o.prep].result = "blocked_by_policy"
      BY DEF Reported
    <3>1. CASE o \in outcomes
      BY <1>0, <2>1, <2>2, <2>3, <3>1, StillReported
    <3>2. CASE o \notin outcomes
      <4>1. d.id /\ o = [prep |-> p, tool |-> Len(prep[p].answers) + 1,
                          outcome |-> IF d.allowed THEN "authorized" ELSE "blocked"]
        BY <1>3, <3>2 DEF ConsultToolGovernor, RecordOutcome
      <4>2. o.prep = p /\ o.tool = Len(prep[p].answers) + 1 /\ (o.outcome = "blocked" => ~d.allowed)
        BY <4>1
      <4>3. QED
        BY <2>1, <2>2, <4>1, <4>2
    <3>3. QED
      BY <3>1, <3>2
  <2>9. prep'[p].result # "succeeded" /\ prep'[p].phase # "record"
    BY <2>2
  <2>10. QED
    BY <1>3, <2>1, <2>3, <2>6, <2>7, <2>8, <2>9, OnePreparation DEF ConsultToolGovernor, Blocked
<1>4. ASSUME NEW reply \in {"eligible", "declined", "unsaid", "raises"}, LocalEstimate(p, reply)
      PROVE  PreparationInv'
  <2>1. /\ prep[p].phase = "launch" /\ prep[p].result = "none"
        /\ prep'[p].answers = prep[p].answers
        /\ prep'[p].result = "none" /\ prep'[p].ended = prep[p].ended
        /\ \/ prep'[p].phase = "record" /\ prep'[p].report = "failed"
           \/ prep'[p].phase = "generate"
        /\ prep' = [prep EXCEPT ![p] = prep'[p]]
    BY <1>0, <1>4 DEF LocalEstimate, Consulted, PrepRecord
  <2>2. prep'[p] \in PrepRecord
    BY <1>0, <1>4 DEF LocalEstimate, PrepRecord, RunPhase, RunResult
  <2>3. RunsTypeOK'
    BY <1>0, <1>4, <2>1, <2>2 DEF LocalEstimate, RunsTypeOK
  <2>4. Consulted(p)'
    BY <1>0, <1>4, <2>1 DEF LocalEstimate, Consulted, LetThrough
  <2>5. Reported'
    BY <1>0, <1>4, <2>1 DEF LocalEstimate, Reported, RunsTypeOK
  <2>6. QED
    BY <1>0, <1>4, <2>1, <2>3, <2>4, <2>5, OnePreparation DEF LocalEstimate
<1>5. QED
  BY <1>1, <1>2, <1>3, <1>4

\* A harness that ends: a success is reported only with the output stored.
LEMMA FinishStep ==
  ASSUME PreparationInv, NEW p \in Preparation, prep[p].phase \in {"launch", "generate"},
         NEW ok \in BOOLEAN, NEW store \in Storing,
         NEW text \in {"echo", "empty", "text", "failure", "raises"},
         Finish(p, ok, text, store)
  PROVE  PreparationInv'
<1>0. /\ prep \in [Preparation -> PrepRecord] /\ prep[p] \in PrepRecord
      /\ RunsTypeOK /\ Consulted(p) /\ Stored(p) /\ Reported
  BY DEF PreparationInv, RunsTypeOK
<1>1. /\ prep'[p].answers = prep[p].answers /\ prep'[p].phase = "record" /\ prep[p].result = "none"
      /\ prep'[p].result = "none" /\ prep'[p].ended = prep[p].ended
      /\ prep'[p].report = IF ok /\ store = "stored" THEN "succeeded" ELSE "failed"
      /\ prep' = [prep EXCEPT ![p] = prep'[p]]
  BY <1>0 DEF Finish, Consulted, PrepRecord
<1>2. prep'[p] \in PrepRecord /\ governor' = governor /\ outcomes' = outcomes
  BY <1>0 DEF Finish, PrepRecord, RunPhase, RunResult
<1>3. outputs' = outputs \cup (IF ok /\ store # "unwritten" THEN {[prep |-> p, text |-> text]} ELSE {})
  BY DEF Finish
<1>4. RunsTypeOK'
  BY <1>0, <1>1, <1>2, <1>3 DEF RunsTypeOK
<1>5. Consulted(p)' /\ Stored(p)'
  <2>1. Consulted(p)'
    BY <1>0, <1>1, <1>2 DEF Consulted, LetThrough
  <2>2. OutputsOf(p) = {}
    BY <1>0, <1>1 DEF Stored
  <2>3. OutputsOf(p)' = IF ok /\ store # "unwritten" THEN {[prep |-> p, text |-> text]} ELSE {}
    BY <1>3, <2>2 DEF OutputsOf
  <2>4. QED
    BY <1>1, <2>1, <2>3 DEF Stored, HasOne
<1>6. ASSUME NEW q \in Preparation \ {p} PROVE Consulted(q)' /\ Stored(q)'
  <2>1. prep'[q] = prep[q] /\ OutputsOf(q)' = OutputsOf(q)
    BY <1>0, <1>1, <1>3 DEF OutputsOf
  <2>2. QED
    BY <1>2, <2>1, OtherPreparations
<1>7. Reported'
  BY <1>0, <1>1, <1>2, StillReported DEF Reported
<1>8. QED
  BY <1>4, <1>5, <1>6, <1>7 DEF PreparationInv

\* Neither a cancel nor the landing of a report touches an output, and a report
\* lands only on a run nobody ended.
LEMMA LandingStep ==
  ASSUME PreparationInv, NEW p \in Preparation, CancelRun(p) \/ RecordResult(p)
  PROVE  PreparationInv'
<1>0. /\ prep \in [Preparation -> PrepRecord] /\ prep[p] \in PrepRecord
      /\ RunsTypeOK /\ Consulted(p) /\ Stored(p) /\ Reported
  BY DEF PreparationInv, RunsTypeOK
<1>1. /\ prep[p].phase # "done" /\ prep[p].result = "none"
      /\ prep' = [prep EXCEPT ![p] = prep'[p]]
      /\ UNCHANGED <<governor, outcomes, outputs>>
      /\ \/ prep'[p] = [prep[p] EXCEPT !.ended = TRUE]
         \/ /\ prep[p].phase = "record"
            /\ prep'[p] = [prep[p] EXCEPT !.phase = "done", !.result = Landed(p)]
  BY <1>0 DEF CancelRun, RecordResult, Proceed, Consulted
<1>2. Landed(p) \in RunResult /\ Landed(p) \in {"none", "succeeded", "failed", "discarded"}
  BY <1>0 DEF Landed, PrepRecord, RunResult
<1>3. prep'[p] \in PrepRecord /\ prep'[p].answers = prep[p].answers
  BY <1>0, <1>1, <1>2 DEF PrepRecord, RunPhase
<1>4. RunsTypeOK'
  BY <1>0, <1>1, <1>3 DEF RunsTypeOK
<1>5. \A q \in Preparation : OutputsOf(q)' = OutputsOf(q)
  BY <1>1 DEF OutputsOf
<1>6. Consulted(p)' /\ Stored(p)'
  <2>1. CASE prep'[p] = [prep[p] EXCEPT !.ended = TRUE]
    <3>1. /\ prep'[p].phase = prep[p].phase /\ prep'[p].result = "none"
          /\ prep'[p].report = prep[p].report /\ prep'[p].answers = prep[p].answers
      BY <1>0, <1>1, <2>1 DEF PrepRecord
    <3>2. Consulted(p)'
      BY <1>0, <1>1, <3>1 DEF Consulted, LetThrough
    <3>3. Stored(p)'
      BY <1>0, <1>1, <1>5, <3>1 DEF Stored, HasOne
    <3>4. QED
      BY <3>2, <3>3
  <2>2. CASE /\ prep[p].phase = "record"
             /\ prep'[p] = [prep[p] EXCEPT !.phase = "done", !.result = Landed(p)]
    <3>1. /\ prep'[p].phase = "done" /\ prep'[p].result = Landed(p) /\ prep'[p].ended = prep[p].ended
          /\ prep'[p].ended => Landed(p) = "discarded"
          /\ Landed(p) = "succeeded" => prep[p].report = "succeeded"
          /\ prep[p].report \in {"succeeded", "failed"}
      BY <1>0, <2>2 DEF Landed, PrepRecord, Consulted
    <3>2. Consulted(p)'
      BY <1>0, <1>1, <1>3, <2>2, <3>1 DEF Consulted, LetThrough
    <3>3. Stored(p)'
      BY <1>0, <1>5, <2>2, <3>1 DEF Stored, HasOne, Landed
    <3>4. QED
      BY <3>2, <3>3
  <2>3. QED
    BY <1>1, <2>1, <2>2
<1>7. ASSUME NEW q \in Preparation \ {p} PROVE Consulted(q)' /\ Stored(q)'
  BY <1>0, <1>1, <1>5, OtherPreparations
<1>8. Reported'
  BY <1>0, <1>1, <1>3, StillReported DEF Reported
<1>9. QED
  BY <1>4, <1>6, <1>7, <1>8 DEF PreparationInv

\* A request that is counted keeps its state.
LEMMA Posted ==
  ASSUME NEW r \in RemoteRecord
  PROVE  LET posted == [r EXCEPT !.posts = r.posts + 1, !.heard = TRUE]
         IN  posted \in RemoteRecord /\ posted.state = r.state
<1>1. r.posts + 1 \in Nat
  BY DEF RemoteRecord
<1>2. ASSUME NEW n \in Nat, NEW b \in BOOLEAN
      PROVE  LET posted == [r EXCEPT !.posts = n, !.heard = b]
             IN  posted \in RemoteRecord /\ posted.state = r.state
  BY DEF RemoteRecord
<1>3. QED
  BY <1>1, <1>2

\* The worker app's steps.
LEMMA RemoteMoves ==
  ASSUME RemoteInv, NEW c \in RemoteCall,
         PostRun(c) \/ CallerTimesOut(c) \/ (\E raised \in BOOLEAN : RunEnds(c, raised))
  PROVE  RemoteInv' /\ UNCHANGED <<governor, prep, outcomes, outputs>>
<1>0. IsFiniteSet(InApp) /\ Cardinality(InApp) \in Nat
  BY WorkerRunsBounds, FS_Subset, FS_CardinalityType DEF InApp
<1>a. /\ remote \in [RemoteCall -> RemoteRecord] /\ remote[c] \in RemoteRecord /\ running \in Nat
      /\ running <= MaxConcurrentTasks /\ running = Cardinality(InApp)
  BY DEF RemoteInv, RemoteTypeOK
<1>1. CASE (PostRun(c) /\ running >= MaxConcurrentTasks) \/ CallerTimesOut(c)
  <2>1. /\ remote'[c] \in RemoteRecord /\ remote'[c].state = remote[c].state
        /\ remote' = [remote EXCEPT ![c] = remote'[c]] /\ running' = running
    <3>1. CASE PostRun(c) /\ running >= MaxConcurrentTasks
      <4>1. /\ remote' = [remote EXCEPT ![c] =
                 [remote[c] EXCEPT !.posts = remote[c].posts + 1, !.heard = TRUE]]
            /\ running' = running
        BY <1>a, <3>1 DEF PostRun, RemoteStep
      <4>2. QED
        BY <1>a, <4>1, Posted
    <3>2. CASE CallerTimesOut(c)
      <4>1. remote' = [remote EXCEPT ![c] = [remote[c] EXCEPT !.heard = FALSE]] /\ running' = running
        BY <1>a, <3>2 DEF CallerTimesOut, RemoteStep
      <4>2. QED
        BY <1>a, <4>1 DEF RemoteRecord
    <3>3. QED
      BY <1>1, <3>1, <3>2
  <2>2. InApp' = InApp
    BY <1>a, <2>1 DEF InApp
  <2>3. QED
    BY <1>1, <1>a, <2>1, <2>2 DEF RemoteInv, RemoteTypeOK, PostRun, CallerTimesOut, RemoteStep
<1>2. CASE PostRun(c) /\ ~(running >= MaxConcurrentTasks)
  <2>1. /\ remote'[c] \in RemoteRecord /\ remote[c].state = "idle" /\ remote'[c].state = "running"
        /\ remote' = [remote EXCEPT ![c] = remote'[c]] /\ running' = running + 1
    <3>1. /\ remote[c].state = "idle" /\ running' = running + 1
          /\ remote' = [remote EXCEPT ![c] =
               [[remote[c] EXCEPT !.posts = remote[c].posts + 1, !.heard = TRUE]
                  EXCEPT !.state = "running"]]
      BY <1>2, <1>a DEF PostRun, RemoteStep
    <3>2. [remote[c] EXCEPT !.posts = remote[c].posts + 1, !.heard = TRUE] \in RemoteRecord
      BY <1>a, Posted
    <3>3. QED
      BY <1>a, <3>1, <3>2 DEF RemoteRecord
  <2>2. InApp' = InApp \cup {c} /\ c \notin InApp
    BY <1>a, <2>1 DEF InApp
  <2>3. Cardinality(InApp') = Cardinality(InApp) + 1
    BY <1>0, <2>2, CountJoin
  <2>4. running' <= MaxConcurrentTasks /\ running' \in Nat
    BY <1>2, <1>a, <2>1, WorkerRunsBounds
  <2>5. QED
    BY <1>2, <1>a, <2>1, <2>3, <2>4 DEF RemoteInv, RemoteTypeOK, PostRun, RemoteStep
<1>3. ASSUME NEW raised \in BOOLEAN, RunEnds(c, raised)
      PROVE  RemoteInv' /\ UNCHANGED <<governor, prep, outcomes, outputs>>
  <2>1. /\ remote'[c] \in RemoteRecord /\ remote[c].state = "running" /\ remote'[c].state = "idle"
        /\ remote' = [remote EXCEPT ![c] = remote'[c]] /\ running' = running - 1
    BY <1>3, <1>a DEF RunEnds, RemoteStep, SlotAfter, RemoteRecord
  <2>2. InApp' = InApp \ {c} /\ c \in InApp
    BY <1>a, <2>1 DEF InApp
  <2>3. Cardinality(InApp) \in Nat \ {0} /\ Cardinality(InApp') = Cardinality(InApp) - 1
    BY <1>0, <2>2, CountLeave
  <2>4. running' <= MaxConcurrentTasks /\ running' \in Nat
    BY <1>a, <2>1, <2>3, WorkerRunsBounds
  <2>5. QED
    BY <1>3, <1>a, <2>1, <2>3, <2>4 DEF RemoteInv, RemoteTypeOK, RunEnds, RemoteStep
<1>4. QED
  BY <1>1, <1>2, <1>3

\* Every step of a run, local or remote, keeps both invariants.
LEMMA RunsStep ==
  PreparationInv /\ RemoteInv /\ [RunsNext]_runVars => PreparationInv' /\ RemoteInv'
<1> SUFFICES ASSUME PreparationInv, RemoteInv, [RunsNext]_runVars PROVE PreparationInv' /\ RemoteInv'
  OBVIOUS
<1>1. ASSUME UNCHANGED <<governor, prep, outcomes, outputs>> PROVE PreparationInv'
  BY <1>1 DEF PreparationInv, RunsTypeOK, Consulted, LetThrough, Stored, HasOne, OutputsOf, Reported
<1>2. ASSUME UNCHANGED <<running, remote>> PROVE RemoteInv'
  BY <1>2 DEF RemoteInv, RemoteTypeOK, InApp
<1>3. CASE UNCHANGED runVars
  BY <1>1, <1>2, <1>3 DEF runVars
<1>4. ASSUME NEW p \in Preparation,
             \/ \E valid \in BOOLEAN : AuthorizeToolUse(p, valid)
             \/ ToolsCleared(p)
             \/ \E answer \in Answer, recorded \in BOOLEAN : ConsultToolGovernor(p, answer, recorded)
             \/ \E reply \in {"eligible", "declined", "unsaid", "raises"} : LocalEstimate(p, reply)
      PROVE  PreparationInv' /\ RemoteInv'
  <2>1. UNCHANGED <<running, remote>>
    BY <1>4 DEF AuthorizeToolUse, ToolsCleared, ConsultToolGovernor, LocalEstimate
  <2>2. QED
    BY <1>2, <1>4, <2>1, PreparationStep
<1>5. ASSUME NEW p \in Preparation, NEW store \in Storing, EchoRun(p, store)
      PROVE  PreparationInv' /\ RemoteInv'
  <2>1. UNCHANGED <<running, remote>>
    BY <1>5 DEF EchoRun, Finish
  <2>2. QED
    BY <1>2, <1>5, <2>1, FinishStep DEF EchoRun
<1>6. ASSUME NEW p \in Preparation, NEW reply \in {"text", "empty", "raises"}, NEW store \in Storing,
             RawModelRun(p, reply, store)
      PROVE  PreparationInv' /\ RemoteInv'
  <2>1. UNCHANGED <<running, remote>>
    BY <1>6 DEF RawModelRun, Finish
  <2>2. PreparationInv'
    BY <1>6, FinishStep DEF RawModelRun
  <2>3. QED
    BY <1>2, <2>1, <2>2
<1>7. ASSUME NEW p \in Preparation, NEW reply \in {"text", "empty", "failure", "raises"},
             NEW store \in Storing, LocalRun(p, reply, store)
      PROVE  PreparationInv' /\ RemoteInv'
  <2>1. UNCHANGED <<running, remote>>
    BY <1>7 DEF LocalRun, Finish
  <2>2. GenerateResult(reply) \in BOOLEAN
    BY DEF GenerateResult
  <2>3. PreparationInv'
    BY <1>7, <2>2, FinishStep DEF LocalRun
  <2>4. QED
    BY <1>2, <2>1, <2>3
<1>8. ASSUME NEW c \in RemoteCall,
             PostRun(c) \/ CallerTimesOut(c) \/ (\E raised \in BOOLEAN : RunEnds(c, raised))
      PROVE  PreparationInv' /\ RemoteInv'
  BY <1>1, <1>8, RemoteMoves
<1>9. ASSUME NEW p \in Preparation, CancelRun(p) \/ RecordResult(p)
      PROVE  PreparationInv' /\ RemoteInv'
  <2>1. UNCHANGED <<running, remote>>
    BY <1>9 DEF CancelRun, RecordResult
  <2>2. QED
    BY <1>2, <1>9, <2>1, LandingStep
<1>10. QED
  BY <1>3, <1>4, <1>5, <1>6, <1>7, <1>8, <1>9 DEF RunsNext

\* Governed worker runs fail closed, record a success only with its output stored
\* and only on a subtask nobody cancelled, leave at most one output whatever raises,
\* and give every slot of the worker app back, for any number of preparations,
\* declared tools and callers (core/service.py, workers.py, local_compute.py,
\* tool_governor.py, runtime/transport.py).
THEOREM RunsStaySafe == RunsSpec => []RunsSafe
<1>1. PreparationInv /\ RemoteInv => RunsSafe
  <2> SUFFICES ASSUME PreparationInv, RemoteInv PROVE RunsSafe
    OBVIOUS
  <2>1. FailClosed
    <3>1. ASSUME NEW p \in Preparation, ~LetThrough(p) PROVE ~\E o \in outputs : o.prep = p
      BY <3>1 DEF PreparationInv, Stored, HasOne, LetThrough, OutputsOf
    <3>2. QED
      BY <3>1 DEF PreparationInv, FailClosed, Consulted, LetThrough, Reported, Allowing
  <2>2. SuccessHasOutput
    <3> SUFFICES ASSUME NEW p \in Preparation
                 PROVE  /\ Cardinality(OutputsOf(p)) <= 1
                        /\ prep[p].result = "succeeded" => Cardinality(OutputsOf(p)) = 1
                        /\ prep[p].ended => prep[p].result \notin {"succeeded", "failed"}
      BY DEF SuccessHasOutput, OutputsOf
    <3>1. OutputsOf(p) = {} => Cardinality(OutputsOf(p)) = 0
      BY FS_EmptySet
    <3>2. HasOne(p) => Cardinality(OutputsOf(p)) = 1
      BY FS_Singleton DEF HasOne
    <3>3. QED
      BY <3>1, <3>2 DEF PreparationInv, Stored, Consulted
  <2>3. SlotsReturned
    BY DEF RemoteInv, SlotsReturned, InApp
  <2>4. QED
    BY <2>1, <2>2, <2>3 DEF RunsSafe
<1>2. QED
  BY <1>1, RunsInitially, RunsStep, PTL DEF RunsSpec

----------------------------------------------------------------------------
(* AgentLoop.                                                              *)

LoopNode == {"none", "act", "tool", "finalize", "end", "over"}
LiveNode == {"act", "tool", "finalize"}
CallStep == {"none", "authorize", "redeem", "execute", "record", "record_failed", "refused"}
Recording == {"record", "record_failed"}

RunRecord == [node : LoopNode, iteration : Nat, action : Reply, changed : SUBSET File,
              subtasks : Nat, status : {"none", "completed", "incomplete", "failed"}]
CallRecord == [at : CallStep, tool : Reply, grant : Nat]
GrantRecord == [tool : Tool, used : BOOLEAN]

LoopTypeOK ==
  /\ posture \in [governing : Governing, durable : BOOLEAN, shell : BOOLEAN]
  /\ run \in RunRecord /\ saved \in RunRecord
  /\ disk \subseteq File /\ tracker \subseteq File
  /\ call \in CallRecord
  /\ torn \in [files : SUBSET File, records : BOOLEAN]

\* A call is under way only in the tool node, for a tool.
CallPlaced ==
  /\ call.at = "none" <=> call = NoCall
  /\ call.at # "none" => run.node = "tool" /\ call.tool \in Tool

GrantTypeOK == 
  /\ grants \in Seq(GrantRecord)
  /\ Linked => grants # <<>>
  /\ call.at = "redeem" => call.grant \in DOMAIN grants

\* A grant is used before the tool runs, and by that run alone.
GrantsHold ==
  posture.governing # "ungoverned" =>
    /\ \A e \in effects : /\ e.grant \in DOMAIN grants
                          /\ grants[e.grant] = [tool |-> e.tool, used |-> TRUE]
    /\ \A e, f \in effects : e.grant = f.grant => e = f
    /\ call.at = "execute" => /\ call.grant \in DOMAIN grants
                              /\ grants[call.grant] = [tool |-> call.tool, used |-> TRUE]
                              /\ \A e \in effects : e.grant # call.grant

RecordsHold ==
  Linked =>
    /\ \A r \in records : r.outcome # "refused" =>
         \E e \in effects : e.tool = r.tool /\ e.grant = r.grant
    /\ call.at \in Recording => \E e \in effects : e.tool = call.tool /\ e.grant = call.grant
    /\ ~torn.records =>
         \A e \in effects :
           \/ \E r \in records : r.outcome # "refused" /\ r.tool = e.tool /\ r.grant = e.grant
           \/ call.at \in Recording /\ e.tool = call.tool /\ e.grant = call.grant

RunPlaced ==
  /\ run.node = "none" <=> run = NoRun
  /\ ~posture.durable => saved = NoRun
  /\ posture.durable /\ run.node \in LiveNode \cup {"end"} => saved = run

FilesTracked ==
  /\ run.node \in LiveNode => disk \subseteq tracker \cup torn.files
  /\ run.node \in LiveNode /\ call.at \notin Recording => tracker = run.changed
  /\ run.node = "end" => disk \subseteq run.changed \cup torn.files
  /\ run.node \in {"none", "over"} /\ saved.node \in LiveNode =>
       disk \subseteq saved.changed \cup torn.files

LoopInv ==
  /\ LoopTypeOK /\ CallPlaced /\ GrantTypeOK /\ GrantsHold /\ RecordsHold
  /\ RunPlaced /\ FilesTracked

\* A tool the model may call writes a file of the workspace or runs a command.
LEMMA ToolShape ==
  ASSUME NEW t \in Tool
  PROVE  /\ t \in Reply /\ t.kind \in {"write_file", "shell"}
         /\ t.kind = "write_file" => t.arg \in File
BY DEF Tool, Reply

\* The initial records have their types.
LEMMA NoRunTyped ==
  /\ NoRun \in RunRecord /\ FirstRun \in RunRecord /\ NoCall \in CallRecord
  /\ NoRun.node = "none" /\ FirstRun.node = "act" /\ NoCall.at = "none"
  /\ NoRun.changed = {} /\ FirstRun.changed = {}
<1>1. [kind |-> "invalid", arg |-> "none"] \in Reply
  BY DEF Reply
<1>2. NoCall \in CallRecord /\ NoCall.at = "none" /\ NoCall.tool \in Reply
  BY <1>1 DEF NoCall, CallRecord, CallStep
<1>3. NoRun \in RunRecord /\ NoRun.node = "none" /\ NoRun.changed = {}
  BY <1>2 DEF NoRun, RunRecord, LoopNode
<1>4. QED
  BY <1>2, <1>3 DEF FirstRun, RunRecord, LoopNode

\* A worker that has not started a run.
LEMMA LoopInitially == LoopInit => LoopInv
<1> SUFFICES ASSUME LoopInit PROVE LoopInv
  OBVIOUS
<1>1. LoopTypeOK
  BY NoRunTyped DEF LoopInit, LoopTypeOK
<1>2. CallPlaced /\ RunPlaced /\ FilesTracked
  BY NoRunTyped DEF LoopInit, CallPlaced, RunPlaced, FilesTracked, LiveNode
<1>3. GrantsHold /\ RecordsHold
  BY NoRunTyped DEF LoopInit, GrantsHold, RecordsHold, Recording
<1>4. GrantTypeOK
  <2>1. CASE Linked
    <3>1. PICK t \in Tool : grants = <<[tool |-> t, used |-> FALSE]>>
      BY <2>1 DEF LoopInit
    <3>2. [tool |-> t, used |-> FALSE] \in GrantRecord
      BY DEF GrantRecord
    <3>3. QED
      BY <3>1, <3>2, NoRunTyped DEF GrantTypeOK, LoopInit
  <2>2. CASE ~Linked
    BY <2>2, NoRunTyped DEF LoopInit, GrantTypeOK
  <2>3. QED
    BY <2>1, <2>2
<1>5. QED
  BY <1>1, <1>2, <1>3, <1>4 DEF LoopInv
\* Steps that do not touch the call leave the governor's side alone.
LEMMA GovernanceKept ==
  ASSUME LoopInv, UNCHANGED <<posture, call, grants, effects, records, torn>>
  PROVE  GrantTypeOK' /\ GrantsHold' /\ RecordsHold'
BY DEF LoopInv, GrantTypeOK, GrantsHold, RecordsHold, Linked, Recording

\* A call that is dropped where nothing is left to record loses nothing.
LEMMA CallDropped ==
  ASSUME LoopInv, call' = NoCall, UNCHANGED <<posture, grants, effects, records>>,
         \/ torn'.records
         \/ torn'.records = torn.records /\ call.at \notin Recording
  PROVE  GrantTypeOK' /\ GrantsHold' /\ RecordsHold'
<1>1. call'.at = "none"
  BY NoRunTyped
<1>2. GrantTypeOK' /\ GrantsHold'
  BY <1>1 DEF LoopInv, GrantTypeOK, GrantsHold, Linked
<1>3. RecordsHold'
  BY <1>1 DEF LoopInv, RecordsHold, Linked, Recording
<1>4. QED
  BY <1>2, <1>3

\* What is kept of a set of files is some of them.
LEMMA KeptFiles ==
  ASSUME NEW S \in SUBSET File
  PROVE  Kept(S) \subseteq S /\ Kept(S) \subseteq File /\ (posture.durable => Kept(S) = S)
         /\ (~posture.durable => Kept(S) = {})
BY DEF Kept

\* The record of what was lost keeps its type.
LEMMA TornUpdated ==
  ASSUME NEW t \in [files : SUBSET File, records : BOOLEAN], NEW S \in SUBSET File
  PROVE  /\ [t EXCEPT !.files = S] \in [files : SUBSET File, records : BOOLEAN]
         /\ [t EXCEPT !.files = S].files = S /\ [t EXCEPT !.files = S].records = t.records
         /\ t.files \subseteq File /\ t.records \in BOOLEAN
OBVIOUS

\* Steps that leave the call and the lost records alone leave the governor's side alone.
LEMMA GovernanceKeptFiles ==
  ASSUME LoopInv, UNCHANGED <<posture, call, grants, effects, records>>, torn'.records = torn.records
  PROVE  GrantTypeOK' /\ GrantsHold' /\ RecordsHold'
BY DEF LoopInv, GrantTypeOK, GrantsHold, RecordsHold, Linked, Recording

\* A run starts afresh, or resumes from its checkpoint.
LEMMA StartRunStep == ASSUME LoopInv, StartRun PROVE LoopInv'
<1>0. LoopTypeOK /\ CallPlaced /\ RunPlaced /\ FilesTracked
  BY DEF LoopInv
<1>2. run = NoRun /\ run.node = "none" /\ call = NoCall /\ call.at = "none"
      /\ UNCHANGED <<posture, call, grants, effects, records>>
  BY <1>0, NoRunTyped DEF StartRun, CallPlaced, CallRecord, LoopTypeOK, auditVars
<1>3. CASE saved.node \in Pending /\ ResumeRun
  <2>1. saved.changed \subseteq File /\ saved.node \in LiveNode
    BY <1>0, <1>3 DEF LoopTypeOK, RunRecord, Pending, LiveNode
  <2>2. run' = saved /\ tracker' = saved.changed /\ UNCHANGED <<posture, saved, disk, call, torn>>
    BY <1>2, <1>3 DEF ResumeRun
  <2>3. LoopTypeOK' /\ CallPlaced'
    BY <1>0, <1>2, <2>1, <2>2 DEF LoopTypeOK, CallPlaced
  <2>4. RunPlaced'
    BY <1>0, <1>3, <2>1, <2>2, NoRunTyped DEF RunPlaced, LiveNode
  <2>5. FilesTracked'
    BY <1>0, <1>2, <2>1, <2>2 DEF FilesTracked, LiveNode
  <2>6. GrantTypeOK' /\ GrantsHold' /\ RecordsHold'
    BY <1>2, <2>2, GovernanceKept
  <2>7. QED
    BY <2>3, <2>4, <2>5, <2>6 DEF LoopInv
<1>4. CASE saved.node \notin Pending /\ StartAfresh
  <2>1. /\ run' = FirstRun /\ saved' = (IF posture.durable THEN FirstRun ELSE saved)
        /\ tracker' = {} /\ disk' = Kept(disk)
        /\ torn' = [torn EXCEPT !.files = Kept(torn.files \cup disk)]
    BY <1>4 DEF Checkpoint, StartAfresh
  <2>2. /\ disk' \subseteq File /\ disk' \subseteq torn'.files /\ torn'.records = torn.records
        /\ torn' \in [files : SUBSET File, records : BOOLEAN]
    <3>1. disk \subseteq File /\ torn.files \cup disk \subseteq File
      BY <1>0, TornUpdated DEF LoopTypeOK
    <3>2. Kept(disk) \subseteq Kept(torn.files \cup disk) /\ Kept(torn.files \cup disk) \subseteq File
      BY <3>1 DEF Kept
    <3>3. QED
      BY <1>0, <2>1, <3>1, <3>2, TornUpdated DEF LoopTypeOK
  <2>3. LoopTypeOK' /\ CallPlaced'
    BY <1>0, <1>2, <2>1, <2>2, NoRunTyped DEF LoopTypeOK, CallPlaced
  <2>4. RunPlaced'
    BY <1>0, <1>2, <2>1, NoRunTyped DEF RunPlaced, LiveNode
  <2>5. FilesTracked'
    BY <1>0, <1>2, <2>1, <2>2, NoRunTyped DEF FilesTracked, LiveNode
  <2>6. GrantTypeOK' /\ GrantsHold' /\ RecordsHold'
    BY <1>2, <2>2, GovernanceKeptFiles
  <2>7. QED
    BY <2>3, <2>4, <2>5, <2>6 DEF LoopInv
<1>5. QED
  BY <1>3, <1>4 DEF StartRun

\* A crash loses what was not checkpointed, and nothing else.
LEMMA CrashStep == ASSUME LoopInv, Crash PROVE LoopInv'
<1>0. LoopTypeOK /\ CallPlaced /\ RunPlaced /\ FilesTracked
  BY DEF LoopInv
<1>1. /\ run' = NoRun /\ call' = NoCall /\ tracker' = {}
      /\ torn' = [files |-> torn.files \cup (disk \ saved.changed),
                  records |-> torn.records \/ call.at \in Recording]
      /\ UNCHANGED <<posture, saved, disk, effects, grants, records>>
  BY DEF Crash, auditVars, Recording
<1>2. torn'.records = (torn.records \/ call.at \in Recording)
      /\ torn'.files = torn.files \cup (disk \ saved.changed)
  BY <1>1
<1>3. GrantTypeOK' /\ GrantsHold' /\ RecordsHold'
  <2>1. CASE call.at \in Recording
    BY <1>1, <1>2, <2>1, CallDropped
  <2>2. CASE call.at \notin Recording
    <3>1. torn'.records = torn.records
      BY <1>0, <1>2, <2>2 DEF LoopTypeOK
    <3>2. QED
      BY <1>1, <2>2, <3>1, CallDropped
  <2>3. QED
    BY <2>1, <2>2
<1>4. LoopTypeOK'
  <2>1. torn'.files \subseteq File /\ torn'.records \in BOOLEAN
    BY <1>0, <1>2 DEF LoopTypeOK
  <2>2. torn' = [files |-> torn'.files, records |-> torn'.records]
    BY <1>1
  <2>3. torn' \in [files : SUBSET File, records : BOOLEAN]
    BY <2>1, <2>2
  <2>4. QED
    BY <1>0, <1>1, <2>3, NoRunTyped DEF LoopTypeOK
<1>5. CallPlaced' /\ RunPlaced' /\ FilesTracked'
  BY <1>0, <1>1, <1>2, NoRunTyped DEF CallPlaced, RunPlaced, FilesTracked, LiveNode
<1>6. QED
  BY <1>3, <1>4, <1>5 DEF LoopInv

\* A run changed as a record keeps its type.
LEMMA RunUpdated ==
  ASSUME NEW r \in RunRecord, NEW node \in LoopNode
  PROVE  /\ [r EXCEPT !.node = node] \in RunRecord
         /\ \A a \in Reply : [r EXCEPT !.action = a, !.node = node] \in RunRecord
         /\ \A c \in SUBSET File, s \in {"none", "completed", "incomplete", "failed"} :
              /\ [r EXCEPT !.node = node, !.status = s] \in RunRecord
              /\ [r EXCEPT !.node = node, !.changed = c, !.status = s] \in RunRecord
         /\ \A i \in Nat, c \in SUBSET File, n \in Nat :
              [r EXCEPT !.iteration = i, !.changed = c, !.subtasks = n, !.node = node] \in RunRecord
BY DEF RunRecord

\* The last node saves the result.
LEMMA FinalizeStep == ASSUME LoopInv, Finalize PROVE LoopInv'
<1>0. LoopTypeOK /\ CallPlaced /\ RunPlaced /\ FilesTracked
  BY DEF LoopInv
<1>1. GrantTypeOK' /\ GrantsHold' /\ RecordsHold'
  BY GovernanceKept DEF Finalize, auditVars, workVars
<1>2. PICK s \in {"completed", "incomplete"} :
        run' = [run EXCEPT !.node = "end", !.changed = tracker, !.status = s]
  BY DEF Finalize, Checkpoint
<1>3. /\ run' \in RunRecord /\ run'.node = "end" /\ run'.changed = tracker
      /\ run.node = "finalize" /\ saved' = (IF posture.durable THEN run' ELSE saved)
      /\ UNCHANGED <<posture, disk, tracker, call, torn>>
  <2>1. run' \in RunRecord
    BY <1>0, <1>2, RunUpdated DEF LoopTypeOK, LoopNode
  <2>2. run'.node = "end" /\ run'.changed = tracker
    BY <1>0, <1>2 DEF LoopTypeOK, RunRecord
  <2>3. QED
    BY <2>1, <2>2 DEF Finalize, Checkpoint, workVars
<1>4. LoopTypeOK' /\ CallPlaced'
  BY <1>0, <1>3, NoRunTyped DEF LoopTypeOK, CallPlaced
<1>5. RunPlaced' /\ FilesTracked'
  BY <1>0, <1>3, NoRunTyped DEF RunPlaced, FilesTracked, LiveNode
<1>6. QED
  BY <1>1, <1>4, <1>5 DEF LoopInv

\* The result is handed back and the workspace removed.
LEMMA HandBackStep == ASSUME LoopInv, HandBack PROVE LoopInv'
<1>0. LoopTypeOK /\ CallPlaced /\ RunPlaced /\ FilesTracked
  BY DEF LoopInv
<1>1. /\ run.node = "end" /\ run' = [run EXCEPT !.node = "over"] /\ saved' = NoRun /\ disk' = {}
      /\ torn' = [torn EXCEPT !.files = {}]
      /\ UNCHANGED <<posture, tracker, effects, call, grants, records>>
  BY DEF HandBack, auditVars
<1>2. /\ torn' \in [files : SUBSET File, records : BOOLEAN] /\ torn'.records = torn.records
      /\ run' \in RunRecord /\ run'.node = "over"
  <2>1. torn' \in [files : SUBSET File, records : BOOLEAN] /\ torn'.records = torn.records
    BY <1>0, <1>1, TornUpdated DEF LoopTypeOK
  <2>2. run' \in RunRecord
    BY <1>0, <1>1, RunUpdated DEF LoopTypeOK, LoopNode
  <2>3. QED
    BY <1>0, <1>1, <2>1, <2>2 DEF LoopTypeOK, RunRecord
<1>3. GrantTypeOK' /\ GrantsHold' /\ RecordsHold'
  BY <1>1, <1>2, GovernanceKeptFiles
<1>4. LoopTypeOK' /\ CallPlaced'
  BY <1>0, <1>1, <1>2, NoRunTyped DEF LoopTypeOK, CallPlaced
<1>5. RunPlaced' /\ FilesTracked'
  BY <1>0, <1>1, <1>2, NoRunTyped DEF RunPlaced, FilesTracked, LiveNode
<1>6. QED
  BY <1>3, <1>4, <1>5 DEF LoopInv

\* An exception ends the run: what it left is known to the checkpoint or named as lost.
LEMMA RaisedStep ==
  ASSUME LoopInv, NEW left \in SUBSET File, RunRaises(disk \cup left, left \ saved.changed),
         run.node \in {"act", "tool"}, call.at \notin Recording
  PROVE  /\ LoopTypeOK' /\ CallPlaced' /\ RunPlaced' /\ FilesTracked'
         /\ call' = NoCall /\ torn'.records = (torn.records \/ (Linked /\ call.at = "execute"))
         /\ torn'.records \in BOOLEAN
<1>0. LoopTypeOK /\ CallPlaced /\ RunPlaced /\ FilesTracked
  BY DEF LoopInv
<1> DEFINE lost == Kept(torn.files \cup (left \ saved.changed))
<1>1. /\ run' = [run EXCEPT !.node = "over", !.status = "failed"] /\ call' = NoCall
      /\ disk' = Kept(disk \cup left)
      /\ torn' = [files |-> lost, records |-> torn.records \/ (Linked /\ call.at = "execute")]
      /\ UNCHANGED <<posture, saved, tracker>>
  BY DEF RunRaises
<1>2. /\ lost \subseteq File /\ disk \cup left \subseteq File /\ disk' \subseteq File
      /\ posture.durable => disk' = disk \cup left /\ lost = torn.files \cup (left \ saved.changed)
      /\ ~posture.durable => disk' = {}
  <2>1. torn.files \subseteq File /\ disk \subseteq File
    BY <1>0, TornUpdated DEF LoopTypeOK
  <2>2. torn.files \cup (left \ saved.changed) \in SUBSET File /\ disk \cup left \in SUBSET File
    BY <2>1
  <2>3. QED
    BY <1>1, <2>2, KeptFiles
<1> HIDE DEF lost
<1>3. /\ torn'.files = lost /\ torn'.records = (torn.records \/ (Linked /\ call.at = "execute"))
      /\ torn'.records \in BOOLEAN
  BY <1>0, <1>1 DEF LoopTypeOK
<1>4. run' \in RunRecord /\ run'.node = "over"
  <2>1. run' \in RunRecord
    BY <1>0, <1>1, RunUpdated DEF LoopTypeOK, LoopNode
  <2>2. QED
    BY <1>0, <1>1, <2>1 DEF LoopTypeOK, RunRecord
<1>5. LoopTypeOK'
  <2>1. torn' = [files |-> lost, records |-> torn'.records]
    BY <1>1, <1>3
  <2>2. torn' \in [files : SUBSET File, records : BOOLEAN]
    BY <1>2, <1>3, <2>1
  <2>3. QED
    BY <1>0, <1>1, <1>2, <1>4, <2>2, NoRunTyped DEF LoopTypeOK
<1>6. CallPlaced' /\ RunPlaced'
  BY <1>0, <1>1, <1>4, NoRunTyped DEF CallPlaced, RunPlaced, LiveNode
<1>7. FilesTracked'
  <2>1. posture.durable => saved.changed = tracker /\ disk \subseteq tracker \cup torn.files
    BY <1>0 DEF RunPlaced, FilesTracked, LiveNode
  <2>2. posture.durable => disk' \subseteq saved.changed \cup lost
    BY <1>2, <2>1
  <2>3. QED
    BY <1>0, <1>1, <1>2, <1>3, <1>4, <2>2 DEF FilesTracked, RunPlaced, LiveNode
<1>8. QED
  BY <1>1, <1>3, <1>5, <1>6, <1>7

\* The model call of the act node raises.
LEMMA ActRaisesStep == ASSUME LoopInv, ActRaises PROVE LoopInv'
<1>0. LoopTypeOK /\ CallPlaced
  BY DEF LoopInv
<1>1. run.node = "act" /\ RunRaises(disk, {}) /\ UNCHANGED <<posture, effects, grants, records>>
  BY DEF ActRaises, RunRaises, auditVars
<1>2. call.at = "none" /\ disk \cup {} = disk /\ {} \ saved.changed = {}
  BY <1>0, <1>1 DEF CallPlaced
<1>3. RunRaises(disk \cup {}, {} \ saved.changed)
  BY <1>1, <1>2
<1>4. /\ LoopTypeOK' /\ CallPlaced' /\ RunPlaced' /\ FilesTracked'
      /\ call' = NoCall /\ torn'.records = (torn.records \/ (Linked /\ call.at = "execute"))
  BY <1>1, <1>2, <1>3, RaisedStep DEF Recording
<1>5. torn'.records = torn.records
  BY <1>0, <1>2, <1>4 DEF LoopTypeOK
<1>6. GrantTypeOK' /\ GrantsHold' /\ RecordsHold'
  BY <1>1, <1>2, <1>4, <1>5, CallDropped DEF Recording
<1>7. QED
  BY <1>4, <1>6 DEF LoopInv

\* The task is dispatched again.
LEMMA RedispatchStep == ASSUME LoopInv, Redispatch PROVE LoopInv'
<1>0. LoopTypeOK /\ CallPlaced /\ RunPlaced /\ FilesTracked
  BY DEF LoopInv
<1>1. GrantTypeOK' /\ GrantsHold' /\ RecordsHold'
  BY GovernanceKept DEF Redispatch, auditVars
<1>2. /\ run' = NoRun /\ tracker' = {} /\ UNCHANGED <<posture, saved, disk, call, torn>>
      /\ run.node = "over"
  BY DEF Redispatch
<1>3. LoopTypeOK' /\ CallPlaced'
  BY <1>0, <1>2, NoRunTyped DEF LoopTypeOK, CallPlaced
<1>4. RunPlaced' /\ FilesTracked'
  BY <1>0, <1>2, NoRunTyped DEF RunPlaced, FilesTracked, LiveNode
<1>5. QED
  BY <1>1, <1>3, <1>4 DEF LoopInv

\* The act node takes the model's reply.
LEMMA ActStep == ASSUME LoopInv, NEW reply \in Reply, Act(reply) PROVE LoopInv'
<1>0. LoopTypeOK /\ CallPlaced /\ RunPlaced /\ FilesTracked
  BY DEF LoopInv
<1>1. GrantTypeOK' /\ GrantsHold' /\ RecordsHold'
  BY GovernanceKept DEF Act, auditVars, workVars
<1>2. PICK node \in {"finalize", "tool"} : run' = [run EXCEPT !.action = reply, !.node = node]
  BY DEF Act, Checkpoint
<1>3. /\ run' \in RunRecord /\ run'.node \in {"finalize", "tool"} /\ run'.changed = run.changed
      /\ run.node = "act" /\ saved' = (IF posture.durable THEN run' ELSE saved)
      /\ UNCHANGED <<posture, disk, tracker, call, torn>>
  <2>1. run' \in RunRecord
    BY <1>0, <1>2, RunUpdated DEF LoopTypeOK, LoopNode
  <2>2. run'.node \in {"finalize", "tool"} /\ run'.changed = run.changed
    BY <1>0, <1>2 DEF LoopTypeOK, RunRecord
  <2>3. QED
    BY <2>1, <2>2 DEF Act, Checkpoint, workVars
<1>4. LoopTypeOK' /\ CallPlaced'
  BY <1>0, <1>3 DEF LoopTypeOK, CallPlaced
<1>5. RunPlaced' /\ FilesTracked'
  BY <1>0, <1>3, NoRunTyped DEF RunPlaced, FilesTracked, LiveNode
<1>6. QED
  BY <1>1, <1>4, <1>5 DEF LoopInv

\* The end of a tool node.
LEMMA ObserveStep ==
  ASSUME LoopInv, NEW n \in Nat, Observe(n), run.node = "tool", tracker' = tracker,
         UNCHANGED <<posture, disk>>, torn'.files = torn.files,
         torn' \in [files : SUBSET File, records : BOOLEAN]
  PROVE  LoopTypeOK' /\ CallPlaced' /\ RunPlaced' /\ FilesTracked'
<1>0. LoopTypeOK /\ CallPlaced /\ RunPlaced /\ FilesTracked
  BY DEF LoopInv
<1>1. run.iteration + 1 \in Nat
  BY <1>0 DEF LoopTypeOK, RunRecord
<1>2. PICK node \in {"finalize", "act"} :
        run' = [run EXCEPT !.iteration = run.iteration + 1, !.changed = tracker',
                           !.subtasks = n, !.node = node]
  BY DEF Observe, Checkpoint
<1>3. /\ run' \in RunRecord /\ run'.node \in {"finalize", "act"} /\ run'.changed = tracker
      /\ saved' = (IF posture.durable THEN run' ELSE saved) /\ call' = NoCall
  <2>1. run' \in RunRecord
    BY <1>0, <1>1, <1>2, RunUpdated DEF LoopTypeOK, LoopNode
  <2>2. run'.node \in {"finalize", "act"} /\ run'.changed = tracker
    BY <1>0, <1>2 DEF LoopTypeOK, RunRecord
  <2>3. QED
    BY <2>1, <2>2 DEF Observe, Checkpoint
<1>4. LoopTypeOK' /\ CallPlaced'
  BY <1>0, <1>3, NoRunTyped DEF LoopTypeOK, CallPlaced
<1>5. RunPlaced' /\ FilesTracked'
  BY <1>0, <1>3, NoRunTyped DEF RunPlaced, FilesTracked, LiveNode
<1>6. QED
  BY <1>4, <1>5

\* A tool call that needs no authority is run in the worker.
LEMMA RunToolHereStep == ASSUME LoopInv, RunToolHere PROVE LoopInv'
<1>0. LoopTypeOK /\ MaxSubtasks \in Nat
  BY LoopConstants DEF LoopInv
<1>1. /\ run.node = "tool" /\ call = NoCall /\ tracker' = tracker
      /\ UNCHANGED <<posture, disk, effects, grants, records, torn>>
  BY DEF RunToolHere, auditVars
<1>2. run.subtasks \in Nat /\ Delegated \in Nat
  BY <1>0 DEF LoopTypeOK, RunRecord, Delegated
<1>3. PICK n \in Nat : Observe(n)
  BY <1>2 DEF RunToolHere
<1>4. call' = call
  BY <1>1, <1>3 DEF Observe
<1>5. GrantTypeOK' /\ GrantsHold' /\ RecordsHold'
  BY <1>1, <1>4, GovernanceKept
<1>6. QED
  BY <1>0, <1>1, <1>3, <1>5, ObserveStep DEF LoopInv, LoopTypeOK

\* The tool node takes up the next call.
LEMMA RunToolStep == ASSUME LoopInv, RunTool PROVE LoopInv'
<1>0. LoopTypeOK /\ CallPlaced /\ GrantTypeOK /\ GrantsHold /\ RecordsHold /\ RunPlaced /\ FilesTracked
  BY DEF LoopInv
<1>1. /\ run.node = "tool" /\ call = NoCall /\ run.action \in Tool
      /\ call' = [at |-> FirstGate, tool |-> run.action,
                  grant |-> IF posture.governing = "linked" THEN 1 ELSE 0]
      /\ UNCHANGED <<posture, run, saved, disk, tracker, effects, grants, records, torn>>
  BY DEF RunTool, workVars, auditVars
<1>2. /\ FirstGate \in {"execute", "authorize", "redeem", "refused"}
      /\ FirstGate = "execute" => posture.governing = "ungoverned"
      /\ FirstGate = "redeem" => posture.governing = "linked"
  BY DEF FirstGate
<1>3. /\ call'.at = FirstGate /\ call'.tool = run.action
      /\ posture.governing = "linked" => call'.grant = 1
      /\ call' \in CallRecord
  BY <1>1, <1>2, ToolShape DEF CallRecord, CallStep
<1>4. call'.at \notin Recording /\ call'.at # "none" /\ call' # NoCall /\ call.at = "none"
  BY <1>1, <1>2, <1>3, NoRunTyped DEF Recording
<1>5. LoopTypeOK' /\ CallPlaced' /\ RunPlaced' /\ FilesTracked'
  BY <1>0, <1>1, <1>3, <1>4 DEF LoopTypeOK, CallPlaced, RunPlaced, FilesTracked, Recording
<1>6. RecordsHold'
  BY <1>0, <1>1, <1>4 DEF RecordsHold, Linked, Recording
<1>7. GrantsHold' /\ GrantTypeOK'
  <2>1. posture.governing = "linked" => 1 \in DOMAIN grants
    BY <1>0 DEF GrantTypeOK, Linked
  <2>2. GrantTypeOK'
    BY <1>0, <1>1, <1>2, <1>3, <2>1 DEF GrantTypeOK, Linked
  <2>3. QED
    BY <1>0, <1>1, <1>2, <1>3, <2>2 DEF GrantsHold
<1>8. QED
  BY <1>5, <1>6, <1>7 DEF LoopInv

\* The tool authority answers, refuses or is not heard.
LEMMA AuthorizeStep ==
  ASSUME LoopInv, NEW allowed \in BOOLEAN, NEW answered \in BOOLEAN, Authorize(allowed, answered)
  PROVE  LoopInv'
<1>0. LoopTypeOK /\ CallPlaced /\ GrantTypeOK /\ GrantsHold /\ RecordsHold /\ RunPlaced /\ FilesTracked
  BY DEF LoopInv
<1>1. /\ call.at = "authorize" /\ run.node = "tool" /\ call.tool \in Tool
      /\ UNCHANGED <<posture, run, saved, disk, tracker, effects, records, torn>>
  BY <1>0 DEF Authorize, workVars, CallPlaced
<1>2. \/ grants' = grants /\ call' = [call EXCEPT !.at = "refused"]
      \/ /\ grants' = Append(grants, [tool |-> call.tool, used |-> FALSE])
         /\ \/ call' = [call EXCEPT !.at = "redeem", !.grant = Len(grants')]
            \/ call' = [call EXCEPT !.at = "refused"]
  BY DEF Authorize, Allowed
<1>3. /\ grants' \in Seq(GrantRecord)
      /\ grants # <<>> => grants' # <<>>
      /\ \A i \in DOMAIN grants : i \in DOMAIN grants' /\ grants'[i] = grants[i]
  <2>1. [tool |-> call.tool, used |-> FALSE] \in GrantRecord
    BY <1>1 DEF GrantRecord
  <2>2. CASE grants' = grants
    BY <1>0, <2>2 DEF GrantTypeOK
  <2>3. CASE grants' = Append(grants, [tool |-> call.tool, used |-> FALSE])
    BY <1>0, <2>1, <2>3 DEF GrantTypeOK
  <2>4. QED
    BY <1>2, <2>2, <2>3
<1>4. /\ call' \in CallRecord /\ call'.tool = call.tool
      /\ \/ call'.at = "redeem" /\ call'.grant \in DOMAIN grants'
         \/ call'.at = "refused"
  <2>1. CASE call' = [call EXCEPT !.at = "refused"]
    BY <1>0, <2>1 DEF LoopTypeOK, CallRecord, CallStep
  <2>2. CASE /\ grants' = Append(grants, [tool |-> call.tool, used |-> FALSE])
             /\ call' = [call EXCEPT !.at = "redeem", !.grant = Len(grants')]
    <3>1. Len(grants') \in Nat /\ Len(grants') \in DOMAIN grants'
      BY <1>0, <1>3, <2>2 DEF GrantTypeOK
    <3>2. QED
      BY <1>0, <2>2, <3>1 DEF LoopTypeOK, CallRecord, CallStep
  <2>3. QED
    BY <1>2, <2>1, <2>2
<1>5. LoopTypeOK' /\ CallPlaced' /\ RunPlaced' /\ FilesTracked' /\ GrantTypeOK'
  <2>1. LoopTypeOK' /\ RunPlaced' /\ FilesTracked'
    BY <1>0, <1>1, <1>4 DEF LoopTypeOK, RunPlaced, FilesTracked, Recording
  <2>2. CallPlaced'
    BY <1>1, <1>4, NoRunTyped DEF CallPlaced
  <2>3. GrantTypeOK'
    BY <1>0, <1>1, <1>3, <1>4 DEF GrantTypeOK, Linked
  <2>4. QED
    BY <2>1, <2>2, <2>3
<1>6. RecordsHold'
  BY <1>0, <1>1, <1>4 DEF RecordsHold, Linked, Recording
<1>7. GrantsHold'
  BY <1>0, <1>1, <1>3, <1>4 DEF GrantsHold
<1>8. QED
  BY <1>5, <1>6, <1>7 DEF LoopInv

\* A redemption goes on to execute only when it consumed the call's own grant.
LEMMA RedemptionStep ==
  ASSUME LoopInv, call.at = "redeem", NEW willing \in BOOLEAN, NEW redeemed \in BOOLEAN,
         redeemed => Consumes(willing), AfterRedemption(Consumes(willing), redeemed)
  PROVE  LoopInv'
<1>0. LoopTypeOK /\ CallPlaced /\ GrantTypeOK /\ GrantsHold /\ RecordsHold /\ RunPlaced /\ FilesTracked
  BY DEF LoopInv
<1>1. /\ run.node = "tool" /\ call.tool \in Tool
      /\ call' = [call EXCEPT !.at = IF redeemed THEN "execute" ELSE "refused"]
      /\ UNCHANGED <<posture, run, saved, disk, tracker, effects, records, torn>>
  BY <1>0 DEF AfterRedemption, workVars, CallPlaced
<1>2. /\ call' \in CallRecord /\ call'.tool = call.tool /\ call'.grant = call.grant
      /\ call'.at = IF redeemed THEN "execute" ELSE "refused"
  BY <1>0, <1>1 DEF LoopTypeOK, CallRecord, CallStep
<1>3. CASE ~Consumes(willing)
  <2>1. grants' = grants /\ call'.at = "refused"
    BY <1>2, <1>3 DEF AfterRedemption
  <2>2. LoopTypeOK' /\ CallPlaced' /\ RunPlaced' /\ FilesTracked' /\ GrantTypeOK'
    BY <1>0, <1>1, <1>2, <2>1, NoRunTyped
    DEF LoopTypeOK, CallPlaced, RunPlaced, FilesTracked, Recording, GrantTypeOK, Linked
  <2>3. RecordsHold' /\ GrantsHold'
    BY <1>0, <1>1, <2>1 DEF RecordsHold, GrantsHold, Linked, Recording
  <2>4. QED
    BY <2>2, <2>3 DEF LoopInv
<1>4. CASE Consumes(willing)
  <2>1. /\ grants' = [grants EXCEPT ![call.grant].used = TRUE]
        /\ ~grants[call.grant].used /\ grants[call.grant].tool = call.tool
    BY <1>4 DEF AfterRedemption, Consumes
  <2>2. LoopTypeOK' /\ CallPlaced' /\ RunPlaced' /\ FilesTracked'
    <3>1. LoopTypeOK' /\ RunPlaced' /\ FilesTracked'
      BY <1>0, <1>1, <1>2 DEF LoopTypeOK, RunPlaced, FilesTracked, Recording
    <3>2. CallPlaced'
      <4>1. call'.at # "none"
        BY <1>2
      <4>2. QED
        BY <1>1, <1>2, <4>1, NoRunTyped DEF CallPlaced
    <3>3. QED
      BY <3>1, <3>2
  <2>3. RecordsHold'
    BY <1>0, <1>1, <1>2 DEF RecordsHold, Linked, Recording
  <2>4. ASSUME NEW g \in GrantRecord PROVE [g EXCEPT !.used = TRUE] = [tool |-> g.tool, used |-> TRUE]
                                           /\ [g EXCEPT !.used = TRUE] \in GrantRecord
    <3>1. ASSUME NEW b \in BOOLEAN
          PROVE  [g EXCEPT !.used = b] = [tool |-> g.tool, used |-> b] /\ [g EXCEPT !.used = b] \in GrantRecord
      BY DEF GrantRecord
    <3>2. QED
      BY <3>1
  <2>5. /\ call.grant \in DOMAIN grants /\ grants[call.grant] \in GrantRecord
        /\ grants' = [grants EXCEPT ![call.grant] = [tool |-> call.tool, used |-> TRUE]]
        /\ [tool |-> call.tool, used |-> TRUE] \in GrantRecord
    <3>1. call.grant \in DOMAIN grants /\ grants[call.grant] \in GrantRecord
      BY <1>0 DEF GrantTypeOK
    <3>2. grants' = [grants EXCEPT ![call.grant] = [grants[call.grant] EXCEPT !.used = TRUE]]
      BY <2>1
    <3>3. PICK g \in GrantRecord : g = grants[call.grant]
      BY <3>1
    <3>4. g.tool = call.tool
      BY <2>1, <3>3
    <3>5. /\ [g EXCEPT !.used = TRUE] = [tool |-> call.tool, used |-> TRUE]
          /\ [tool |-> call.tool, used |-> TRUE] \in GrantRecord
      <4>1. [g EXCEPT !.used = TRUE] = [tool |-> g.tool, used |-> TRUE]
        BY <2>4
      <4>2. [g EXCEPT !.used = TRUE] \in GrantRecord
        BY <2>4
      <4> QED
        BY <3>4, <4>1, <4>2, Zenon
    <3> QED
      BY <3>1, <3>2, <3>3, <3>5, Zenon
  <2>6. /\ grants' \in Seq(GrantRecord) /\ DOMAIN grants' = DOMAIN grants
        /\ \A i \in DOMAIN grants \ {call.grant} : grants'[i] = grants[i]
        /\ grants'[call.grant] = [tool |-> call.tool, used |-> TRUE]
    <3>1. grants \in Seq(GrantRecord) /\ call.grant \in 1..Len(grants) /\ DOMAIN grants = 1..Len(grants)
      BY <1>0, <2>5 DEF GrantTypeOK
    <3>2. grants' \in Seq(GrantRecord) /\ Len(grants') = Len(grants)
      BY <2>5, <3>1, ExceptSeq
    <3>3. QED
      BY <2>5, <3>1, <3>2
  <2>7. GrantTypeOK'
    BY <1>0, <1>1, <1>2, <2>5, <2>6 DEF GrantTypeOK, Linked
  <2>8. GrantsHold'
    <3> SUFFICES ASSUME posture.governing # "ungoverned" PROVE GrantsHold'
      BY <1>1 DEF GrantsHold
    <3>2. ASSUME NEW e \in effects
          PROVE  /\ e.grant \in DOMAIN grants' /\ e.grant # call.grant
                 /\ grants'[e.grant] = [tool |-> e.tool, used |-> TRUE]
      <4>1. e.grant \in DOMAIN grants /\ grants[e.grant] = [tool |-> e.tool, used |-> TRUE]
        BY <1>0 DEF GrantsHold
      <4>2. e.grant # call.grant
        BY <2>1, <4>1
      <4>3. QED
        BY <2>6, <4>1, <4>2
    <3>3. QED
      BY <1>0, <1>1, <1>2, <2>5, <2>6, <3>2 DEF GrantsHold
  <2>9. QED
    BY <2>2, <2>3, <2>7, <2>8 DEF LoopInv
<1>5. QED
  BY <1>3, <1>4

\* What a tool may leave is files of the workspace.
LEMMA LeavesFiles ==
  ASSUME NEW t \in Tool, NEW left \in Leaves(t)
  PROVE  left \subseteq File
BY ToolShape DEF Leaves

\* An execution adds one effect, the call's own.
LEMMA EffectAdded ==
  ASSUME Effected
  PROVE  \E x : effects' = effects \cup {x} /\ x.tool = call.tool /\ x.grant = call.grant
<1> DEFINE x == [n |-> Cardinality(effects) + 1, tool |-> call.tool, grant |-> call.grant]
<1>1. effects' = effects \cup {x} /\ x.tool = call.tool /\ x.grant = call.grant
  BY DEF Effected
<1> HIDE DEF x
<1>2. QED
  BY <1>1

\* An authorized tool is executed.
LEMMA ExecuteStep ==
  ASSUME LoopInv, NEW left \in SUBSET File, NEW ok \in BOOLEAN, Execute(ok, left)
  PROVE  LoopInv'
<1>0. LoopTypeOK /\ CallPlaced /\ GrantTypeOK /\ GrantsHold /\ RecordsHold /\ RunPlaced /\ FilesTracked
  BY DEF LoopInv
<1>1. /\ call.at = "execute" /\ run.node = "tool" /\ call.tool \in Tool /\ Effected
      /\ call' = [call EXCEPT !.at = IF ok THEN "record" ELSE "record_failed"]
      /\ UNCHANGED <<posture, run, saved, grants, records>>
  BY <1>0 DEF Execute, auditVars, CallPlaced
<1>2. /\ call' \in CallRecord /\ call'.tool = call.tool /\ call'.grant = call.grant
      /\ call'.at \in Recording /\ call'.at # "none"
  BY <1>0, <1>1 DEF LoopTypeOK, CallRecord, CallStep, Recording
<1>3. PICK x : effects' = effects \cup {x} /\ x.tool = call.tool /\ x.grant = call.grant
  BY <1>1, EffectAdded
<1>4. /\ disk' \subseteq File /\ tracker' \subseteq File /\ torn'.records = torn.records
      /\ torn' \in [files : SUBSET File, records : BOOLEAN]
      /\ disk \subseteq tracker \cup torn.files => disk' \subseteq tracker' \cup torn'.files
  <2>1. tracker \subseteq tracker' /\ tracker' \subseteq File
    BY <1>0, <1>1, ToolShape DEF Execute, LoopTypeOK
  <2>2. disk' = disk \cup tracker' \cup left /\ torn' = [torn EXCEPT !.files = (torn.files \cup left) \ tracker']
    BY DEF Execute
  <2>3. torn.files \subseteq File /\ (torn.files \cup left) \ tracker' \in SUBSET File
    BY <1>0, TornUpdated DEF LoopTypeOK
  <2>4. /\ torn' \in [files : SUBSET File, records : BOOLEAN] /\ torn'.records = torn.records
        /\ torn'.files = (torn.files \cup left) \ tracker'
    BY <1>0, <2>2, <2>3, TornUpdated DEF LoopTypeOK
  <2>5. QED
    BY <1>0, <2>1, <2>2, <2>4 DEF LoopTypeOK
<1>5. LoopTypeOK' /\ RunPlaced' /\ FilesTracked'
  <2>1. LoopTypeOK' /\ RunPlaced'
    BY <1>0, <1>1, <1>2, <1>4 DEF LoopTypeOK, RunPlaced
  <2>2. QED
    BY <1>0, <1>1, <1>2, <1>4, <2>1 DEF FilesTracked, LiveNode
<1>6. CallPlaced' /\ GrantTypeOK'
  BY <1>0, <1>1, <1>2, NoRunTyped DEF CallPlaced, GrantTypeOK, Linked, Recording
<1>7. GrantsHold'
  <2> SUFFICES ASSUME posture.governing # "ungoverned" PROVE GrantsHold'
    BY <1>1 DEF GrantsHold
  <2>1. /\ x.grant \in DOMAIN grants /\ grants[x.grant] = [tool |-> x.tool, used |-> TRUE]
        /\ \A e \in effects : e.grant # x.grant
    BY <1>0, <1>1, <1>3 DEF GrantsHold
  <2>2. QED
    BY <1>0, <1>1, <1>2, <1>3, <2>1 DEF GrantsHold, Recording
<1>8. RecordsHold'
  BY <1>0, <1>1, <1>2, <1>3, <1>4 DEF RecordsHold, Linked, Recording
<1>9. QED
  BY <1>5, <1>6, <1>7, <1>8 DEF LoopInv

\* A tool that raises ends the run, its grant used and its record lost.
LEMMA ExecuteRaisesStep ==
  ASSUME LoopInv, NEW left \in SUBSET File, ExecuteRaises(left)
  PROVE  LoopInv'
<1>0. LoopTypeOK /\ CallPlaced /\ GrantTypeOK /\ GrantsHold /\ RecordsHold
  BY DEF LoopInv
<1>1. /\ call.at = "execute" /\ run.node = "tool" /\ Effected
      /\ RunRaises(disk \cup left, left \ saved.changed)
      /\ UNCHANGED <<posture, grants, records>>
  BY <1>0 DEF ExecuteRaises, RunRaises, auditVars, CallPlaced
<1>2. /\ LoopTypeOK' /\ CallPlaced' /\ RunPlaced' /\ FilesTracked'
      /\ call' = NoCall /\ torn'.records = (torn.records \/ (Linked /\ call.at = "execute"))
  BY <1>1, RaisedStep DEF Recording
<1>3. PICK x : effects' = effects \cup {x} /\ x.tool = call.tool /\ x.grant = call.grant
  BY <1>1, EffectAdded
<1>4. call'.at = "none" /\ (Linked => torn'.records)
  BY <1>1, <1>2, NoRunTyped
<1>5. GrantTypeOK'
  BY <1>0, <1>1, <1>4 DEF GrantTypeOK, Linked
<1>6. GrantsHold'
  <2> SUFFICES ASSUME posture.governing # "ungoverned" PROVE GrantsHold'
    BY <1>1 DEF GrantsHold
  <2>1. /\ x.grant \in DOMAIN grants /\ grants[x.grant] = [tool |-> x.tool, used |-> TRUE]
        /\ \A e \in effects : e.grant # x.grant
    BY <1>0, <1>1, <1>3 DEF GrantsHold
  <2>2. QED
    BY <1>0, <1>1, <1>3, <1>4, <2>1 DEF GrantsHold
<1>7. RecordsHold'
  BY <1>0, <1>1, <1>3, <1>4 DEF RecordsHold, Linked, Recording
<1>8. QED
  BY <1>2, <1>5, <1>6, <1>7 DEF LoopInv

\* The result of a tool call is recorded, or its record is lost.
LEMMA RecordCallStep == ASSUME LoopInv, NEW stored \in BOOLEAN, RecordCall(stored) PROVE LoopInv'
<1>0. LoopTypeOK /\ CallPlaced /\ GrantTypeOK /\ GrantsHold /\ RecordsHold
  BY DEF LoopInv
<1>1. /\ call.at \in Recording \cup {"refused"} /\ run.node = "tool" /\ call' = NoCall
      /\ tracker' = tracker /\ UNCHANGED <<posture, disk, effects, grants>>
      /\ run.subtasks \in Nat
  BY <1>0 DEF RecordCall, Observe, CallPlaced, Recording, LoopTypeOK, RunRecord
<1>2. /\ torn' = [torn EXCEPT !.records = torn.records \/ (Linked /\ ~stored)]
      /\ torn' \in [files : SUBSET File, records : BOOLEAN]
      /\ torn'.files = torn.files
      /\ torn'.records = (torn.records \/ (Linked /\ ~stored))
  <2>1. torn' = [torn EXCEPT !.records = torn.records \/ (Linked /\ ~stored)]
    BY DEF RecordCall
  <2>2. ASSUME NEW b \in BOOLEAN, NEW t \in [files : SUBSET File, records : BOOLEAN]
        PROVE  /\ [t EXCEPT !.records = b] \in [files : SUBSET File, records : BOOLEAN]
               /\ [t EXCEPT !.records = b].files = t.files
               /\ [t EXCEPT !.records = b].records = b
    OBVIOUS
  <2>3. (torn.records \/ (Linked /\ ~stored)) \in BOOLEAN
    OBVIOUS
  <2>4. QED
    BY <1>0, <2>1, <2>2, <2>3 DEF LoopTypeOK
<1>3. LoopTypeOK' /\ CallPlaced' /\ RunPlaced' /\ FilesTracked'
  BY <1>1, <1>2, ObserveStep DEF RecordCall
<1>4. call'.at = "none"
  BY <1>1, NoRunTyped
<1>5. GrantTypeOK' /\ GrantsHold'
  BY <1>0, <1>1, <1>4 DEF GrantTypeOK, GrantsHold, Linked
<1>6. RecordsHold'
  <2> SUFFICES ASSUME Linked PROVE RecordsHold'
    BY <1>1 DEF RecordsHold, Linked
  <2>1. CASE stored /\ call.at \in Recording
    <3> DEFINE r == [outcome |-> Outcome, tool |-> call.tool, grant |-> call.grant]
    <3>1. /\ records' = records \cup {r} /\ r.outcome # "refused"
          /\ r.tool = call.tool /\ r.grant = call.grant
      <4>1. Outcome # "refused"
        BY <2>1 DEF Outcome, Recording
      <4>2. QED
        BY <2>1, <4>1 DEF RecordCall
    <3> HIDE DEF r
    <3>2. torn'.records = torn.records
      BY <1>0, <1>2, <2>1 DEF LoopTypeOK
    <3>3. PICK x \in effects : x.tool = call.tool /\ x.grant = call.grant
      BY <1>0, <2>1 DEF RecordsHold
    <3>4. \A q \in records' : q.outcome # "refused" =>
            \E e \in effects : e.tool = q.tool /\ e.grant = q.grant
      BY <1>0, <3>1, <3>3 DEF RecordsHold
    <3>5. ASSUME ~torn'.records, NEW e \in effects
          PROVE  \E q \in records' : q.outcome # "refused" /\ q.tool = e.tool /\ q.grant = e.grant
      BY <1>0, <3>1, <3>2, <3>5 DEF RecordsHold
    <3>6. QED
      BY <1>1, <1>4, <3>4, <3>5 DEF RecordsHold, Recording
  <2>2. CASE ~stored
    <3>1. records' = records /\ torn'.records
      BY <1>2, <2>2 DEF RecordCall
    <3>2. QED
      BY <1>0, <1>1, <1>4, <3>1 DEF RecordsHold, Linked, Recording
  <2>3. CASE stored /\ call.at = "refused"
    <3>1. records' = records \cup {[outcome |-> "refused", tool |-> call.tool, grant |-> call.grant]}
      BY <2>3 DEF RecordCall, Outcome
    <3>2. torn'.records = torn.records
      BY <1>0, <1>2, <2>3 DEF LoopTypeOK
    <3>3. QED
      BY <1>0, <1>1, <1>4, <2>3, <3>1, <3>2 DEF RecordsHold, Linked, Recording
  <2>4. QED
    BY <1>1, <2>1, <2>2, <2>3
<1>7. QED
  BY <1>3, <1>5, <1>6 DEF LoopInv

\* Every step of the agent loop keeps its invariant.
LEMMA LoopStep == LoopInv /\ [LoopNext]_loopVars => LoopInv'
<1> SUFFICES ASSUME LoopInv, [LoopNext]_loopVars PROVE LoopInv'
  OBVIOUS
<1>1. CASE UNCHANGED loopVars
  BY <1>1 DEF loopVars, LoopInv, LoopTypeOK, CallPlaced, GrantTypeOK, GrantsHold, RecordsHold,
              RunPlaced, FilesTracked, Linked
<1>2. ASSUME NEW willing \in BOOLEAN, NEW answered \in BOOLEAN, NEW echoed \in BOOLEAN,
             Redeem(willing, answered, echoed) \/ RedeemGovernanceGrant(willing, answered, echoed)
      PROVE  LoopInv'
  <2> DEFINE redeemed == Consumes(willing) /\ answered /\ echoed
  <2>1. /\ call.at = "redeem" /\ redeemed \in BOOLEAN
        /\ redeemed => Consumes(willing)
        /\ AfterRedemption(Consumes(willing), redeemed)
    BY <1>2 DEF Redeem, RedeemGovernanceGrant, Redeemed, RedeemedSigned
  <2>2. QED
    BY <2>1, RedemptionStep
<1>3. QED
  BY <1>1, <1>2, StartRunStep, CrashStep, FinalizeStep, ActRaisesStep, RedispatchStep, ActStep,
     RunToolHereStep, RunToolStep, AuthorizeStep, ExecuteStep, ExecuteRaisesStep, HandBackStep,
     RecordCallStep DEF LoopNext

\* Whatever crashes, is lost or is resumed, the agent loop runs no tool without a
\* grant of its own, records what ran unless the record was lost with a crash, a
\* sink or a tool that raised, and reports every file write_file wrote
\* (runtime/graph.py, runtime/agent.py), for any number of files, steps and crashes.
THEOREM LoopStaysSafe == LoopSpec => []LoopSafe
<1>1. LoopInv => LoopSafe
  BY NoRunTyped DEF LoopInv, GrantsHold, RecordsHold, FilesTracked, LoopSafe, GovernedEffects,
                    RecordsMatchEffects, ChangesReported, Recording
<1>2. QED
  BY <1>1, LoopInitially, LoopStep, PTL DEF LoopSpec

----------------------------------------------------------------------------
(* Workflows.                                                              *)

WfNode == {"unstarted", "recall", "route", "ask", "wait", "reroute", "run", "running", "cancel", "over"}
SignalName == {"approval_granted", "approval_denied", "cancel_requested"}

SubtaskRecord == [status : SubtaskStatus, worker : {"none", "free", "paid"}, approved : BOOLEAN]
WfRecord == [at : WfNode, approval : {"none", "granted", "denied"}, cancelled : BOOLEAN,
             tries : Nat, result : SubtaskStatus \cup {"none", "error"}]
ReviewRecord == [status : {"open", "completed", "rejected"}, at : {"unstarted", "wait", "over"},
                 heard : {"none", "completed", "rejected"},
                 result : {"none", "needs_attention", "completed", "rejected"}, inbox : {0, 1}]

WorkflowTypeOK ==
  /\ subtask \in SubtaskRecord
  /\ record \in {"none", "pending", "granted", "denied", "expired"}
  /\ wf \in WfRecord
  /\ signals \subseteq SignalName
  /\ review \in ReviewRecord
  /\ missed \in BOOLEAN /\ forged \in BOOLEAN

\* A signal that is on its way, or was heard, says what the ledger says.
SignalsTruthful ==
  ~forged =>
    /\ ("approval_granted" \in signals \/ wf.approval = "granted" \/ wf.at = "reroute") =>
         subtask.approved
    /\ ("approval_denied" \in signals \/ wf.approval = "denied") => subtask.status = "failed"
    /\ ("cancel_requested" \in signals \/ wf.cancelled \/ wf.at = "cancel") =>
         subtask.status = "cancelled"
    /\ wf.at = "over" /\ wf.result \in TerminalSubtask => subtask.status = wf.result

AskHasCause ==
  wf.at \in {"ask", "wait"} =>
    \/ subtask.status = "needs_approval" /\ record = "pending"
    \/ signals # {} \/ missed \/ wf.approval # "none" \/ wf.cancelled

HarnessHeld ==
  /\ harness # {} => subtask.status \in {"running"} \cup TerminalSubtask
  /\ harness = {} \/ \E h : harness = {h}
  /\ \A h \in harness : h.worker = "paid" => record = "granted"
  /\ subtask.worker = "paid" => subtask.approved
  /\ subtask.approved => record = "granted"

ReviewHeard ==
  /\ review.heard # "none" => review.status = review.heard
  /\ review.at = "over" /\ review.result # "needs_attention" =>
       review.result # "none" /\ review.status = review.result

WorkflowInv == WorkflowTypeOK /\ SignalsTruthful /\ AskHasCause /\ HarnessHeld /\ ReviewHeard

\* A workflow that has just been started.
LEMMA WorkflowInitially == WorkflowInit => WorkflowInv
<1> SUFFICES ASSUME WorkflowInit PROVE WorkflowInv
  OBVIOUS
<1>1. WorkflowTypeOK
  <2>1. subtask \in SubtaskRecord /\ review \in ReviewRecord
    BY DEF WorkflowInit, SubtaskRecord, ReviewRecord, SubtaskStatus
  <2>2. wf \in WfRecord
    BY DEF WorkflowInit, WfRecord, WfNode
  <2>3. QED
    BY <2>1, <2>2 DEF WorkflowInit, WorkflowTypeOK
<1>2. SignalsTruthful /\ AskHasCause /\ HarnessHeld /\ ReviewHeard
  BY DEF WorkflowInit, SignalsTruthful, AskHasCause, HarnessHeld, ReviewHeard
<1>3. QED
  BY <1>1, <1>2 DEF WorkflowInv

\* What the workflow's own moves leave of its fields.
LEMMA WfMoved ==
  ASSUME wf \in WfRecord, NEW step \in WfNode, WfMove(step)
  PROVE  /\ wf' \in WfRecord /\ wf'.at = step
         /\ wf'.approval = wf.approval /\ wf'.cancelled = wf.cancelled
BY DEF WfMove, WfRecord

\* What the end of a workflow leaves.
LEMMA WfEnded ==
  ASSUME wf \in WfRecord, NEW result \in SubtaskStatus \cup {"error"}, WfEnd(result)
  PROVE  /\ wf' \in WfRecord /\ wf'.at = "over" /\ wf'.result = result
         /\ wf'.approval = wf.approval /\ wf'.cancelled = wf.cancelled
BY DEF WfEnd, WfRecord, WfNode

\* What the retry of an activity leaves.
LEMMA WfRetried ==
  ASSUME wf \in WfRecord, NEW max, WfRetry(max)
  PROVE  /\ wf' \in WfRecord
         /\ wf'.approval = wf.approval /\ wf'.cancelled = wf.cancelled
         /\ \/ wf'.at = wf.at /\ wf'.result = wf.result
            \/ wf'.at = "over" /\ wf'.result = "error"
<1>1. CASE WfEnd("error")
  BY <1>1, WfEnded
<1>2. CASE wf' = [wf EXCEPT !.tries = wf.tries + 1]
  <2>1. wf.tries + 1 \in Nat
    BY DEF WfRecord
  <2>2. QED
    BY <1>2, <2>1 DEF WfRecord
<1>3. QED
  BY <1>1, <1>2 DEF WfRetry

\* What a signal leaves: nothing once the workflow is over.
LEMMA WfHears ==
  ASSUME wf \in WfRecord, NEW name \in SignalName, wf' = WfHeard(wf, name)
  PROVE  /\ wf' \in WfRecord /\ wf'.at = wf.at /\ wf'.result = wf.result
         /\ wf.at = "over" => wf' = wf
         /\ wf.at # "over" =>
              /\ name = "cancel_requested" => wf'.cancelled /\ wf'.approval = wf.approval
              /\ name = "approval_granted" => wf'.approval = "granted" /\ wf'.cancelled = wf.cancelled
              /\ name = "approval_denied" => wf'.approval = "denied" /\ wf'.cancelled = wf.cancelled
<1>1. CASE wf.at = "over"
  <2>1. WfHeard(wf, name) = wf
    BY <1>1 DEF WfHeard
  <2>2. QED
    BY <1>1, <2>1
<1>2. CASE wf.at # "over" /\ name = "cancel_requested"
  <2>1. wf' = [wf EXCEPT !.cancelled = TRUE]
    BY <1>2 DEF WfHeard
  <2>2. ASSUME NEW b \in BOOLEAN, NEW w \in WfRecord
        PROVE  /\ [w EXCEPT !.cancelled = b] \in WfRecord /\ [w EXCEPT !.cancelled = b].at = w.at
               /\ [w EXCEPT !.cancelled = b].result = w.result /\ [w EXCEPT !.cancelled = b].cancelled = b
               /\ [w EXCEPT !.cancelled = b].approval = w.approval
    BY DEF WfRecord
  <2>3. QED
    BY <1>2, <2>1, <2>2
<1>3. CASE wf.at # "over" /\ name = "approval_granted"
  <2>1. wf' = [wf EXCEPT !.approval = "granted"]
    BY <1>3 DEF WfHeard
  <2>2. QED
    BY <1>3, <2>1 DEF WfRecord
<1>4. CASE wf.at # "over" /\ name = "approval_denied"
  <2>1. wf' = [wf EXCEPT !.approval = "denied"]
    BY <1>4 DEF WfHeard
  <2>2. QED
    BY <1>4, <2>1 DEF WfRecord
<1>5. QED
  BY <1>1, <1>2, <1>3, <1>4 DEF SignalName

\* What a write of the status leaves of the subtask's row.
LEMMA Written ==
  ASSUME subtask \in SubtaskRecord, NEW s \in SubtaskStatus, Write(s)
  PROVE  /\ subtask' \in SubtaskRecord /\ subtask'.status = s
         /\ subtask'.worker = subtask.worker /\ subtask'.approved = subtask.approved
BY DEF Write, SubtaskRecord

----------------------------------------------------------------------------
\* Steps that touch neither the ledger nor the workflow's fields.
LEMMA ClientStep ==
  ASSUME WorkflowInv, RecordHandle \/ GetStatus
  PROVE  WorkflowInv'
<1>1. UNCHANGED <<subtask, record, wf, harness, signals, review, missed, forged>>
  BY DEF RecordHandle, GetStatus, ledgerVars
<1>2. WorkflowTypeOK' /\ SignalsTruthful'
  BY <1>1 DEF WorkflowInv, WorkflowTypeOK, SignalsTruthful
<1>3. AskHasCause'
  BY <1>1 DEF WorkflowInv, AskHasCause
<1>4. HarnessHeld' /\ ReviewHeard'
  BY <1>1 DEF WorkflowInv, HarnessHeld, ReviewHeard
<1> QED
  BY <1>2, <1>3, <1>4 DEF WorkflowInv

\* The review's own steps.
LEMMA ReviewStep ==
  ASSUME WorkflowInv,
         \/ StartReview \/ ReviewResumes
         \/ \E verdict \in {"completed", "rejected"}, delivered \in BOOLEAN :
              CompleteReview(verdict, delivered)
         \/ \E answered \in BOOLEAN : ReviewWindowCloses(answered)
  PROVE  WorkflowInv'
<1>0. review \in ReviewRecord /\ ReviewHeard
  BY DEF WorkflowInv, WorkflowTypeOK
<1>1. UNCHANGED <<subtask, record, wf, harness, signals, missed, forged>>
  BY DEF StartReview, ReviewResumes, CompleteReview, ReviewWindowCloses, ledgerVars
<1>2. review' \in ReviewRecord /\ ReviewHeard'
  <2>1. CASE StartReview
    BY <1>0, <2>1 DEF StartReview, ReviewRecord, ReviewHeard
  <2>2. CASE ReviewResumes
    BY <1>0, <2>2 DEF ReviewResumes, ReviewRecord, ReviewHeard
  <2>3. ASSUME NEW verdict \in {"completed", "rejected"}, NEW delivered \in BOOLEAN,
               CompleteReview(verdict, delivered)
        PROVE  review' \in ReviewRecord /\ ReviewHeard'
    BY <1>0, <2>3 DEF CompleteReview, ReviewRecord, ReviewHeard
  <2>4. ASSUME NEW answered \in BOOLEAN, ReviewWindowCloses(answered)
        PROVE  review' \in ReviewRecord /\ ReviewHeard'
    BY <1>0, <2>4 DEF ReviewWindowCloses, ReviewRecord, ReviewHeard
  <2>5. QED
    BY <2>1, <2>2, <2>3, <2>4
<1>3. QED
  BY <1>1, <1>2 DEF WorkflowInv, WorkflowTypeOK, SignalsTruthful, AskHasCause, HarnessHeld

\* Starting, recalling, waking: the workflow moves on alone.
LEMMA WfAloneStep ==
  ASSUME WorkflowInv, StartWorkflow \/ RecallContext \/ RequestApproval \/ Resume
  PROVE  WorkflowInv'
<1>0. WorkflowTypeOK /\ SignalsTruthful /\ AskHasCause /\ HarnessHeld /\ ReviewHeard /\ wf \in WfRecord
  BY DEF WorkflowInv, WorkflowTypeOK
<1>1. UNCHANGED <<subtask, record, harness, signals, review, missed, forged>>
  BY DEF StartWorkflow, RecallContext, RequestApproval, Resume, ledgerVars
<1>2. HarnessHeld' /\ ReviewHeard'
  BY <1>0, <1>1 DEF HarnessHeld, ReviewHeard
<1>3. wf' \in WfRecord /\ SignalsTruthful' /\ AskHasCause'
  <2>1. CASE StartWorkflow
    BY <1>0, <1>1, <2>1 DEF StartWorkflow, WfRecord, WfNode, SignalsTruthful, AskHasCause
  <2>2. CASE RecallContext
    <3>1. WfMove("route")
      BY <2>2 DEF RecallContext
    <3>2. /\ wf' \in WfRecord /\ wf'.at = "route"
          /\ wf'.approval = wf.approval /\ wf'.cancelled = wf.cancelled
      BY <1>0, <3>1, WfMoved DEF WfNode
    <3>3. QED
      BY <1>0, <1>1, <3>2 DEF SignalsTruthful, AskHasCause
  <2>3. CASE RequestApproval
    <3>0. wf.at = "ask"
      BY <2>3 DEF RequestApproval, WfAt
    <3>1. CASE WfMove("wait")
      <4>1. /\ wf' \in WfRecord /\ wf'.at = "wait"
            /\ wf'.approval = wf.approval /\ wf'.cancelled = wf.cancelled
        BY <1>0, <3>1, WfMoved DEF WfNode
      <4>2. QED
        BY <1>0, <1>1, <3>0, <4>1 DEF SignalsTruthful, AskHasCause
    <3>2. CASE WfRetry(DecisionTries)
      <4>1. /\ wf' \in WfRecord
            /\ wf'.approval = wf.approval /\ wf'.cancelled = wf.cancelled
            /\ \/ wf'.at = wf.at /\ wf'.result = wf.result
               \/ wf'.at = "over" /\ wf'.result = "error"
        BY <1>0, <3>2, WfRetried
      <4>2. QED
        BY <1>0, <1>1, <3>0, <4>1 DEF SignalsTruthful, AskHasCause, TerminalSubtask
    <3>3. QED
      BY <2>3, <3>1, <3>2 DEF RequestApproval
  <2>4. CASE Resume
    <3>0. wf.at = "wait" /\ WaitCondition
      BY <2>4 DEF Resume, WfAt
    <3>1. CASE wf.cancelled
      <4>1. WfMove("cancel")
        BY <2>4, <3>1 DEF Resume
      <4>2. /\ wf' \in WfRecord /\ wf'.at = "cancel"
            /\ wf'.approval = wf.approval /\ wf'.cancelled = wf.cancelled
        BY <1>0, <4>1, WfMoved DEF WfNode
      <4>3. QED
        BY <1>0, <1>1, <3>1, <4>2 DEF SignalsTruthful, AskHasCause
    <3>2. CASE ~wf.cancelled /\ wf.approval = "denied"
      <4>1. WfEnd("failed")
        BY <2>4, <3>2 DEF Resume
      <4>2. /\ wf' \in WfRecord /\ wf'.at = "over" /\ wf'.result = "failed"
            /\ wf'.approval = wf.approval /\ wf'.cancelled = wf.cancelled
        BY <1>0, <4>1, WfEnded DEF SubtaskStatus
      <4>3. QED
        BY <1>0, <1>1, <3>2, <4>2 DEF SignalsTruthful, AskHasCause
    <3>3. CASE ~wf.cancelled /\ wf.approval # "denied"
      <4>1. WfMove("reroute")
        BY <2>4, <3>3 DEF Resume
      <4>2. /\ wf' \in WfRecord /\ wf'.at = "reroute"
            /\ wf'.approval = wf.approval /\ wf'.cancelled = wf.cancelled
        BY <1>0, <4>1, WfMoved DEF WfNode
      <4>3. wf.approval = "granted"
        BY <1>0, <3>0, <3>3 DEF WaitCondition, WfRecord
      <4>4. QED
        BY <1>0, <1>1, <3>3, <4>2, <4>3 DEF SignalsTruthful, AskHasCause
    <3>4. QED
      BY <3>1, <3>2, <3>3
  <2>5. QED
    BY <2>1, <2>2, <2>3, <2>4
<1>4. QED
  BY <1>0, <1>1, <1>2, <1>3 DEF WorkflowInv, WorkflowTypeOK

\* A signal of the service is heard, or comes to nothing.
LEMMA SignalEntityStep ==
  ASSUME WorkflowInv, NEW name \in SignalName, SignalEntity(name)
  PROVE  WorkflowInv'
<1>0. WorkflowTypeOK /\ SignalsTruthful /\ AskHasCause /\ HarnessHeld /\ ReviewHeard /\ wf \in WfRecord
  BY DEF WorkflowInv, WorkflowTypeOK
<1>1. /\ UNCHANGED <<subtask, record, harness, review, forged>>
      /\ name \in signals /\ signals' = signals \ {name}
  BY DEF SignalEntity, ledgerVars
<1>2. HarnessHeld' /\ ReviewHeard' /\ signals' \subseteq SignalName
  BY <1>0, <1>1 DEF HarnessHeld, ReviewHeard, WorkflowTypeOK
<1>3. CASE wf' = WfHeard(wf, name) /\ missed' = missed
  <2>1. /\ wf' \in WfRecord /\ wf'.at = wf.at /\ wf'.result = wf.result
        /\ wf.at = "over" => wf' = wf
        /\ wf.at # "over" =>
             /\ name = "cancel_requested" => wf'.cancelled /\ wf'.approval = wf.approval
             /\ name = "approval_granted" => wf'.approval = "granted" /\ wf'.cancelled = wf.cancelled
             /\ name = "approval_denied" => wf'.approval = "denied" /\ wf'.cancelled = wf.cancelled
    BY <1>0, <1>3, WfHears
  <2>2. SignalsTruthful'
    <3>1. CASE wf.at = "over"
      BY <1>0, <1>1, <2>1, <3>1 DEF SignalsTruthful
    <3>2. CASE wf.at # "over"
      BY <1>0, <1>1, <2>1, <3>2 DEF SignalsTruthful, SignalName
    <3>3. QED
      BY <3>1, <3>2
  <2>3. AskHasCause'
    BY <1>0, <1>1, <2>1 DEF AskHasCause, SignalName
  <2>4. QED
    BY <1>0, <1>1, <1>2, <1>3, <2>1, <2>2, <2>3 DEF WorkflowInv, WorkflowTypeOK
<1>4. CASE missed' = TRUE /\ wf' = wf
  <2>1. SignalsTruthful' /\ AskHasCause'
    BY <1>0, <1>1, <1>4 DEF SignalsTruthful, AskHasCause
  <2>2. QED
    BY <1>0, <1>1, <1>2, <1>4, <2>1 DEF WorkflowInv, WorkflowTypeOK
<1>5. QED
  BY <1>3, <1>4 DEF SignalEntity

\* A signal from the API, which no decision stands behind.
LEMMA SignalWorkflowStep ==
  ASSUME WorkflowInv, NEW name \in SignalName, SignalWorkflow(name)
  PROVE  WorkflowInv'
<1>0. WorkflowTypeOK /\ SignalsTruthful /\ AskHasCause /\ HarnessHeld /\ ReviewHeard /\ wf \in WfRecord
  BY DEF WorkflowInv, WorkflowTypeOK
<1>1. /\ UNCHANGED <<subtask, record, harness, signals, review, missed>>
      /\ forged' = TRUE /\ wf' = WfHeard(wf, name)
  BY DEF SignalWorkflow, ledgerVars
<1>2. /\ wf' \in WfRecord /\ wf'.at = wf.at
      /\ wf.at # "over" =>
             /\ name = "cancel_requested" => wf'.cancelled
             /\ name = "approval_granted" => wf'.approval = "granted"
             /\ name = "approval_denied" => wf'.approval = "denied"
  BY <1>0, <1>1, WfHears
<1>3. HarnessHeld' /\ ReviewHeard' /\ SignalsTruthful' /\ AskHasCause'
  BY <1>0, <1>1, <1>2 DEF HarnessHeld, ReviewHeard, SignalsTruthful, AskHasCause, SignalName
<1>4. QED
  BY <1>0, <1>1, <1>2, <1>3 DEF WorkflowInv, WorkflowTypeOK

\* The decisions of humans and of the clock, each with the signal it sends.
LEMMA DecisionStep ==
  ASSUME WorkflowInv,
         ApproveSubtask \/ (\E verdict \in {"denied", "expired"} : DenySubtask(verdict)) \/ CancelSubtask
  PROVE  WorkflowInv'
<1>0. /\ WorkflowTypeOK /\ SignalsTruthful /\ AskHasCause /\ HarnessHeld /\ ReviewHeard /\ wf \in WfRecord
      /\ subtask \in SubtaskRecord
  BY DEF WorkflowInv, WorkflowTypeOK
<1>1. UNCHANGED <<wf, harness, review, forged>> /\ ReviewHeard'
  BY <1>0 DEF ApproveSubtask, DenySubtask, CancelSubtask, ReviewHeard
<1>2. CASE ApproveSubtask
  <2>1. /\ subtask.status = "needs_approval"
        /\ record' = "granted" /\ signals' = signals \cup {"approval_granted"} /\ missed' = missed
        /\ subtask' = [subtask EXCEPT !.status = "queued", !.approved = TRUE]
    BY <1>2 DEF ApproveSubtask, Send
  <2>2. /\ subtask' \in SubtaskRecord /\ subtask'.status = "queued" /\ subtask'.approved
        /\ subtask'.worker = subtask.worker
    <3>1. ASSUME NEW b \in BOOLEAN, NEW s \in SubtaskRecord
          PROVE  /\ [s EXCEPT !.status = "queued", !.approved = b] \in SubtaskRecord
                 /\ [s EXCEPT !.status = "queued", !.approved = b].status = "queued"
                 /\ [s EXCEPT !.status = "queued", !.approved = b].approved = b
                 /\ [s EXCEPT !.status = "queued", !.approved = b].worker = s.worker
      BY DEF SubtaskRecord, SubtaskStatus
    <3>2. QED
      BY <1>0, <2>1, <3>1
  <2>3. SignalsTruthful'
    BY <1>0, <1>1, <2>1, <2>2 DEF SignalsTruthful, TerminalSubtask
  <2>4. HarnessHeld'
    BY <1>0, <1>1, <2>1, <2>2 DEF HarnessHeld, TerminalSubtask
  <2>5. AskHasCause'
    BY <2>1 DEF AskHasCause
  <2>6. QED
    BY <1>0, <1>1, <2>1, <2>2, <2>3, <2>4, <2>5 DEF WorkflowInv, WorkflowTypeOK, SignalName
<1>3. ASSUME NEW verdict \in {"denied", "expired"}, DenySubtask(verdict)
      PROVE  WorkflowInv'
  <2>1. /\ subtask.status = "needs_approval" /\ missed' = missed
        /\ record' = IF record = "pending" THEN verdict ELSE record
        /\ signals' = signals \cup {"approval_denied"} /\ Write("failed")
    BY <1>3 DEF DenySubtask, Send
  <2>2. /\ subtask' \in SubtaskRecord /\ subtask'.status = "failed"
        /\ subtask'.worker = subtask.worker /\ subtask'.approved = subtask.approved
    BY <1>0, <2>1, Written DEF SubtaskStatus
  <2>3. SignalsTruthful'
    BY <1>0, <1>1, <2>1, <2>2 DEF SignalsTruthful, TerminalSubtask
  <2>4. HarnessHeld'
    BY <1>0, <1>1, <2>1, <2>2 DEF HarnessHeld, TerminalSubtask
  <2>5. AskHasCause'
    BY <2>1 DEF AskHasCause
  <2>6. QED
    BY <1>0, <1>1, <2>1, <2>2, <2>3, <2>4, <2>5 DEF WorkflowInv, WorkflowTypeOK, SignalName
<1>4. CASE CancelSubtask
  <2>1. /\ subtask.status \notin TerminalSubtask /\ Write("cancelled") /\ record' = record
        /\ \/ signals' = signals \cup {"cancel_requested"} /\ missed' = missed
           \/ signals' = signals /\ missed' = TRUE
    BY <1>4 DEF CancelSubtask, Send
  <2>2. /\ subtask' \in SubtaskRecord /\ subtask'.status = "cancelled"
        /\ subtask'.worker = subtask.worker /\ subtask'.approved = subtask.approved
    BY <1>0, <2>1, Written DEF SubtaskStatus
  <2>3. SignalsTruthful'
    BY <1>0, <1>1, <2>1, <2>2 DEF SignalsTruthful, TerminalSubtask
  <2>4. HarnessHeld'
    BY <1>0, <1>1, <2>1, <2>2 DEF HarnessHeld, TerminalSubtask
  <2>5. AskHasCause'
    BY <2>1 DEF AskHasCause
  <2>6. QED
    BY <1>0, <1>1, <2>1, <2>2, <2>3, <2>4, <2>5 DEF WorkflowInv, WorkflowTypeOK, SignalName
<1>5. QED
  BY <1>2, <1>3, <1>4

\* What the router leaves of the subtask's row and of the approval record.
LEMMA Routed ==
  ASSUME subtask \in SubtaskRecord, NEW out \in RouteChoices, RouteTo(out)
  PROVE  /\ subtask' \in SubtaskRecord /\ subtask'.approved = subtask.approved
         /\ subtask'.worker = "paid" => subtask.approved
         /\ out \in {"free", "paid"} => subtask'.status = "queued" /\ record' = record
         /\ out = "approval" =>
              subtask'.status = "needs_approval" /\ record' = "pending" /\ ~subtask.approved
         /\ out = "nobody" => subtask'.status = "failed" /\ record' = record
         /\ out \in {"free", "paid", "approval", "nobody"}
<1>0. /\ out \in {"free", "paid", "approval", "nobody"}
      /\ out = "paid" => subtask.approved
      /\ out = "approval" => ~subtask.approved
  BY DEF RouteChoices
<1>1. CASE out \in {"free", "paid"}
  <2>1. subtask' = [subtask EXCEPT !.status = "queued", !.worker = out] /\ record' = record
    BY <1>1 DEF RouteTo
  <2>2. QED
    BY <1>0, <1>1, <2>1 DEF SubtaskRecord, SubtaskStatus
<1>2. CASE out = "approval"
  <2>1. subtask' = [subtask EXCEPT !.status = "needs_approval", !.worker = "none"] /\ record' = "pending"
    BY <1>2 DEF RouteTo
  <2>2. QED
    BY <1>0, <1>2, <2>1 DEF SubtaskRecord, SubtaskStatus
<1>3. CASE out = "nobody"
  <2>1. subtask' = [subtask EXCEPT !.status = "failed", !.worker = "none"] /\ record' = record
    BY <1>3 DEF RouteTo
  <2>2. QED
    BY <1>0, <1>3, <2>1 DEF SubtaskRecord, SubtaskStatus
<1>4. QED
  BY <1>0, <1>1, <1>2, <1>3

\* Where the workflow goes with the route it hears of, while nobody forged a signal.
LEMMA Followed ==
  ASSUME wf \in WfRecord, wf.at \in {"route", "reroute"},
         NEW out \in {"free", "paid", "approval", "nobody"}, FollowRoute(out)
  PROVE  /\ wf' \in WfRecord /\ wf'.approval = wf.approval /\ wf'.cancelled = wf.cancelled
         /\ wf'.at \in {"run", "cancel", "ask", "over"}
         /\ wf'.at = "cancel" => wf.cancelled
         /\ wf'.at = "ask" => out = "approval"
         /\ wf'.at = "over" =>
              wf'.result = "failed" /\ (out = "nobody" \/ (out = "approval" /\ wf.at = "reroute"))
<1>1. CASE out \in {"free", "paid"}
  <2>1. CASE wf.cancelled
    <3>1. WfMove("cancel")
      BY <1>1, <2>1 DEF FollowRoute
    <3>2. QED
      BY <2>1, <3>1, WfMoved DEF WfNode
  <2>2. CASE ~wf.cancelled
    <3>1. WfMove("run")
      BY <1>1, <2>2 DEF FollowRoute
    <3>2. QED
      BY <2>2, <3>1, WfMoved DEF WfNode
  <2>3. QED
    BY <2>1, <2>2
<1>2. CASE out = "approval" /\ wf.at = "route"
  <2>1. WfMove("ask")
    BY <1>2 DEF FollowRoute, WfAt
  <2>2. QED
    BY <1>2, <2>1, WfMoved DEF WfNode
<1>3. CASE out = "nobody" /\ wf.at = "route" /\ wf.cancelled
  <2>1. WfMove("cancel")
    BY <1>3 DEF FollowRoute, WfAt
  <2>2. QED
    BY <1>3, <2>1, WfMoved DEF WfNode
<1>4. CASE out = "approval" /\ wf.at = "reroute"
  <2>1. WfEnd("failed")
    BY <1>4 DEF FollowRoute, WfAt
  <2>2. QED
    BY <1>4, <2>1, WfEnded DEF SubtaskStatus
<1>5. CASE out = "nobody" /\ ~(wf.at = "route" /\ wf.cancelled)
  <2>1. WfEnd("failed")
    BY <1>5 DEF FollowRoute, WfAt
  <2>2. /\ wf' \in WfRecord /\ wf'.at = "over" /\ wf'.result = "failed"
        /\ wf'.approval = wf.approval /\ wf'.cancelled = wf.cancelled
    BY <2>1, WfEnded DEF SubtaskStatus
  <2>3. out = "nobody"
    BY <1>5
  <2>4. QED
    BY <2>2, <2>3
<1>6. QED
  BY <1>1, <1>2, <1>3, <1>4, <1>5

\* A routing attempt, its answer heard or lost.
LEMMA RouteSubtaskStep ==
  ASSUME WorkflowInv, NEW out \in {"free", "paid", "approval", "nobody"}, NEW answered \in BOOLEAN,
         RouteSubtask(out, answered)
  PROVE  WorkflowInv'
<1>0. /\ WorkflowTypeOK /\ SignalsTruthful /\ AskHasCause /\ HarnessHeld /\ ReviewHeard /\ wf \in WfRecord
      /\ subtask \in SubtaskRecord
  BY DEF WorkflowInv, WorkflowTypeOK
<1>1. /\ UNCHANGED <<harness, signals, review, missed, forged>> /\ ReviewHeard'
      /\ wf.at \in {"route", "reroute"}
  BY <1>0 DEF RouteSubtask, ReviewHeard
<1>2. CASE WfRetry(DecisionTries) /\ UNCHANGED ledgerVars
  <2>1. /\ wf' \in WfRecord /\ wf'.approval = wf.approval /\ wf'.cancelled = wf.cancelled
        /\ \/ wf'.at = wf.at /\ wf'.result = wf.result
           \/ wf'.at = "over" /\ wf'.result = "error"
    BY <1>0, <1>2, WfRetried
  <2>2. SignalsTruthful' /\ AskHasCause' /\ HarnessHeld'
    BY <1>0, <1>1, <1>2, <2>1
    DEF SignalsTruthful, AskHasCause, HarnessHeld, ledgerVars, TerminalSubtask
  <2>3. QED
    BY <1>0, <1>1, <1>2, <2>1, <2>2 DEF WorkflowInv, WorkflowTypeOK, ledgerVars
<1>3. CASE /\ ~Unrouted /\ out \in RouteChoices /\ RouteTo(out)
           /\ IF answered THEN FollowRoute(out) ELSE WfRetry(DecisionTries)
  <2>1. /\ subtask.status \in {"queued", "needs_approval"}
        /\ subtask' \in SubtaskRecord /\ subtask'.approved = subtask.approved
        /\ subtask'.worker = "paid" => subtask.approved
        /\ out \in {"free", "paid"} => subtask'.status = "queued" /\ record' = record
        /\ out = "approval" =>
             subtask'.status = "needs_approval" /\ record' = "pending" /\ ~subtask.approved
        /\ out = "nobody" => subtask'.status = "failed" /\ record' = record
    BY <1>0, <1>3, Routed DEF Unrouted
  <2>2. /\ wf' \in WfRecord /\ wf'.approval = wf.approval /\ wf'.cancelled = wf.cancelled
        /\ wf'.at \in {"run", "cancel", "ask", "over", wf.at}
        /\ wf'.at = "cancel" => wf.cancelled
        /\ wf'.at = "ask" => out = "approval"
        /\ wf'.at = "over" =>
             \/ wf'.result = "error"
             \/ wf'.result = "failed" /\ (out = "nobody" \/ (out = "approval" /\ wf.at = "reroute"))
    <3>1. CASE answered
      BY <1>0, <1>1, <1>3, <3>1, Followed
    <3>2. CASE ~answered
      BY <1>0, <1>1, <1>3, <3>2, WfRetried
    <3>3. QED
      BY <3>1, <3>2
  <2>3. SignalsTruthful'
    <3> SUFFICES ASSUME ~forged PROVE SignalsTruthful'
      BY <1>1 DEF SignalsTruthful
    <3>1. /\ "approval_denied" \notin signals /\ wf.approval # "denied"
          /\ "cancel_requested" \notin signals /\ ~wf.cancelled
          /\ wf.at = "reroute" => subtask.approved
      BY <1>0, <2>1 DEF SignalsTruthful
    <3>2. ("approval_granted" \in signals \/ wf.approval = "granted") => subtask.approved
      BY <1>0 DEF SignalsTruthful
    <3>3. (wf'.at = "over" /\ wf'.result \in TerminalSubtask) => subtask'.status = wf'.result
      BY <2>1, <2>2, <3>1 DEF TerminalSubtask
    <3>4. QED
      BY <1>1, <2>1, <2>2, <3>1, <3>2, <3>3 DEF SignalsTruthful
  <2>4. AskHasCause'
    BY <1>1, <2>1, <2>2 DEF AskHasCause
  <2>5. HarnessHeld'
    <3>1. harness = {} /\ harness' = {}
      BY <1>0, <1>1, <2>1 DEF HarnessHeld, TerminalSubtask
    <3>2. QED
      BY <1>0, <2>1, <3>1 DEF HarnessHeld
  <2>6. record' \in {"none", "pending", "granted", "denied", "expired"}
    BY <1>0, <2>1 DEF WorkflowTypeOK
  <2>7. QED
    BY <1>0, <1>1, <2>1, <2>2, <2>3, <2>4, <2>5, <2>6 DEF WorkflowInv, WorkflowTypeOK
<1>4. QED
  BY <1>2, <1>3 DEF RouteSubtask

\* An attempt claims the subtask, or reports the status it finds.
LEMMA RunWorkerStep == ASSUME WorkflowInv, RunWorker PROVE WorkflowInv'
<1>0. /\ WorkflowTypeOK /\ SignalsTruthful /\ AskHasCause /\ HarnessHeld /\ ReviewHeard /\ wf \in WfRecord
      /\ subtask \in SubtaskRecord
  BY DEF WorkflowInv, WorkflowTypeOK
<1>1. /\ UNCHANGED <<record, signals, review, missed, forged>> /\ ReviewHeard' /\ wf.at = "run"
  BY <1>0 DEF RunWorker, ReviewHeard, WfAt
<1>2. CASE subtask.status = "queued" /\ subtask.worker # "none"
  <2> DEFINE h == [attempt |-> wf.tries, worker |-> subtask.worker]
  <2>1. /\ Write("running") /\ harness' = harness \cup {h} /\ wf' = [wf EXCEPT !.at = "running"]
        /\ h.worker = subtask.worker
    BY <1>2 DEF RunWorker
  <2> HIDE DEF h
  <2>2. /\ subtask' \in SubtaskRecord /\ subtask'.status = "running"
        /\ subtask'.worker = subtask.worker /\ subtask'.approved = subtask.approved
    BY <1>0, <2>1, Written DEF SubtaskStatus
  <2>3. /\ wf' \in WfRecord /\ wf'.at = "running"
        /\ wf'.approval = wf.approval /\ wf'.cancelled = wf.cancelled
    BY <1>0, <2>1 DEF WfRecord, WfNode
  <2>4. harness' = {h}
    BY <1>0, <1>2, <2>1 DEF HarnessHeld, TerminalSubtask
  <2>5. HarnessHeld'
    BY <1>0, <1>1, <2>1, <2>2, <2>4 DEF HarnessHeld
  <2>6. SignalsTruthful' /\ AskHasCause'
    BY <1>0, <1>1, <1>2, <2>2, <2>3 DEF SignalsTruthful, AskHasCause
  <2>7. QED
    BY <1>0, <1>1, <2>2, <2>3, <2>5, <2>6 DEF WorkflowInv, WorkflowTypeOK
<1>3. CASE ~(subtask.status = "queued" /\ subtask.worker # "none")
  <2>1. WfEnd(subtask.status) /\ UNCHANGED <<subtask, harness>>
    BY <1>3 DEF RunWorker
  <2>2. /\ wf' \in WfRecord /\ wf'.at = "over" /\ wf'.result = subtask.status
        /\ wf'.approval = wf.approval /\ wf'.cancelled = wf.cancelled
    BY <1>0, <2>1, WfEnded DEF SubtaskRecord
  <2>3. SignalsTruthful' /\ AskHasCause' /\ HarnessHeld'
    BY <1>0, <1>1, <2>1, <2>2 DEF SignalsTruthful, AskHasCause, HarnessHeld
  <2>4. QED
    BY <1>0, <1>1, <2>1, <2>2, <2>3 DEF WorkflowInv, WorkflowTypeOK
<1>4. QED
  BY <1>2, <1>3

\* A worker's thread ends; its result lands only on a subtask that still runs.
LEMMA WorkerReturnsStep ==
  ASSUME WorkflowInv, NEW h \in harness, NEW result \in {"succeeded", "failed"}, WorkerReturns(h, result)
  PROVE  WorkflowInv'
<1>0. /\ WorkflowTypeOK /\ SignalsTruthful /\ AskHasCause /\ HarnessHeld /\ ReviewHeard /\ wf \in WfRecord
      /\ subtask \in SubtaskRecord
  BY DEF WorkflowInv, WorkflowTypeOK
<1>1. /\ UNCHANGED <<record, signals, review, missed, forged>> /\ ReviewHeard'
      /\ harness' = harness \ {h} /\ harness' = {}
      /\ subtask.status \in {"running"} \cup TerminalSubtask
  BY <1>0 DEF WorkerReturns, ReviewHeard, HarnessHeld
<1>2. /\ subtask' \in SubtaskRecord /\ subtask'.worker = subtask.worker
      /\ subtask'.approved = subtask.approved
      /\ subtask'.status \in TerminalSubtask
      /\ subtask.status \in TerminalSubtask => subtask'.status = subtask.status
  <2>1. Write(Advance(subtask.status, result, {"running"}))
    BY DEF WorkerReturns, Write
  <2>2. /\ Advance(subtask.status, result, {"running"}) \in TerminalSubtask
        /\ subtask.status \in TerminalSubtask =>
             Advance(subtask.status, result, {"running"}) = subtask.status
    BY <1>1 DEF Advance, TerminalSubtask
  <2>3. QED
    BY <1>0, <2>1, <2>2, Written DEF SubtaskStatus, TerminalSubtask
<1>3. /\ wf' \in WfRecord /\ wf'.approval = wf.approval /\ wf'.cancelled = wf.cancelled
      /\ \/ wf' = wf
         \/ wf'.at = "over" /\ wf'.result = subtask'.status
  <2>1. CASE WfEnd(subtask'.status)
    BY <1>0, <1>2, <2>1, WfEnded DEF SubtaskRecord
  <2>2. CASE wf' = wf
    BY <1>0, <2>2
  <2>3. QED
    BY <2>1, <2>2 DEF WorkerReturns
<1>4. HarnessHeld'
  BY <1>0, <1>1, <1>2 DEF HarnessHeld
<1>5. SignalsTruthful'
  BY <1>0, <1>1, <1>2, <1>3 DEF SignalsTruthful, TerminalSubtask
<1>6. AskHasCause'
  BY <1>0, <1>1, <1>2, <1>3 DEF AskHasCause, TerminalSubtask
<1>7. QED
  BY <1>0, <1>1, <1>2, <1>3, <1>4, <1>5, <1>6 DEF WorkflowInv, WorkflowTypeOK

\* An attempt runs out of time, and the workflow's own cancel.
LEMMA AttemptEndsStep ==
  ASSUME WorkflowInv, (\E died \in BOOLEAN : AttemptTimesOut(died)) \/ CancelWorkflow
  PROVE  WorkflowInv'
<1>0. /\ WorkflowTypeOK /\ SignalsTruthful /\ AskHasCause /\ HarnessHeld /\ ReviewHeard /\ wf \in WfRecord
      /\ subtask \in SubtaskRecord
  BY DEF WorkflowInv, WorkflowTypeOK
<1>1. ASSUME NEW died \in BOOLEAN, AttemptTimesOut(died)
      PROVE  WorkflowInv'
  <2>1. /\ UNCHANGED <<subtask, record, signals, review, missed, forged>> /\ ReviewHeard'
        /\ wf.at = "running" /\ harness' \in {{}, harness}
    BY <1>0, <1>1 DEF AttemptTimesOut, ledgerVars, ReviewHeard, WfAt
  <2>2. /\ wf' \in WfRecord /\ wf'.approval = wf.approval /\ wf'.cancelled = wf.cancelled
        /\ wf'.at = "run" \/ (wf'.at = "over" /\ wf'.result = "error")
    <3>1. CASE WfEnd("error")
      BY <1>0, <3>1, WfEnded
    <3>2. CASE wf' = [wf EXCEPT !.at = "run", !.tries = wf.tries + 1]
      <4> DEFINE n == wf.tries + 1
      <4>1. n \in Nat /\ wf' = [wf EXCEPT !.at = "run", !.tries = n]
        BY <1>0, <3>2 DEF WfRecord
      <4> HIDE DEF n
      <4>2. /\ wf'.at = "run" /\ wf'.tries = n /\ wf'.result = wf.result
            /\ wf'.approval = wf.approval /\ wf'.cancelled = wf.cancelled
        BY <1>0, <4>1 DEF WfRecord
      <4>3. wf' \in WfRecord
        BY <1>0, <4>1 DEF WfRecord, WfNode
      <4>4. QED
        BY <4>2, <4>3
    <3>3. QED
      BY <1>1, <3>1, <3>2 DEF AttemptTimesOut
  <2>3. HarnessHeld'
    BY <1>0, <2>1 DEF HarnessHeld
  <2>4. SignalsTruthful' /\ AskHasCause'
    BY <1>0, <2>1, <2>2 DEF SignalsTruthful, AskHasCause, TerminalSubtask
  <2>5. QED
    BY <1>0, <2>1, <2>2, <2>3, <2>4 DEF WorkflowInv, WorkflowTypeOK
<1>2. CASE CancelWorkflow
  <2>1. /\ UNCHANGED <<record, harness, signals, review, missed, forged>> /\ ReviewHeard'
        /\ wf.at = "cancel" /\ WfEnd("cancelled") /\ Write(Cancel(subtask.status, TerminalSubtask))
    BY <1>0, <1>2 DEF CancelWorkflow, ReviewHeard, WfAt
  <2>2. /\ wf' \in WfRecord /\ wf'.at = "over" /\ wf'.result = "cancelled"
        /\ wf'.approval = wf.approval /\ wf'.cancelled = wf.cancelled
    BY <1>0, <2>1, WfEnded DEF SubtaskStatus
  <2>3. /\ Cancel(subtask.status, TerminalSubtask) \in TerminalSubtask
        /\ subtask.status \in TerminalSubtask =>
             Cancel(subtask.status, TerminalSubtask) = subtask.status
    BY DEF Cancel, TerminalSubtask
  <2>4. /\ subtask' \in SubtaskRecord /\ subtask'.worker = subtask.worker
        /\ subtask'.approved = subtask.approved
        /\ subtask'.status \in TerminalSubtask
        /\ subtask.status \in TerminalSubtask => subtask'.status = subtask.status
    BY <1>0, <2>1, <2>3, Written DEF SubtaskStatus, TerminalSubtask
  <2>5. HarnessHeld'
    BY <1>0, <2>1, <2>4 DEF HarnessHeld
  <2>6. SignalsTruthful' /\ AskHasCause'
    BY <1>0, <2>1, <2>2, <2>4 DEF SignalsTruthful, AskHasCause, TerminalSubtask
  <2>7. QED
    BY <1>0, <2>1, <2>2, <2>4, <2>5, <2>6 DEF WorkflowInv, WorkflowTypeOK
<1>3. QED
  BY <1>1, <1>2

\* Every step of the server, of the service and of the workers keeps the invariant.
LEMMA WorkflowStep == WorkflowInv /\ [WorkflowNext]_workflowVars => WorkflowInv'
<1> SUFFICES ASSUME WorkflowInv, [WorkflowNext]_workflowVars PROVE WorkflowInv'
  OBVIOUS
<1>1. CASE UNCHANGED workflowVars
  BY <1>1 DEF workflowVars, WorkflowInv, WorkflowTypeOK, SignalsTruthful, AskHasCause, HarnessHeld,
              ReviewHeard
<1>2. CASE WorkflowNext
  BY <1>2, ClientStep, ReviewStep, WfAloneStep, SignalEntityStep, SignalWorkflowStep, DecisionStep,
     RouteSubtaskStep, RunWorkerStep, WorkerReturnsStep, AttemptEndsStep DEF WorkflowNext, SignalName
<1>3. QED
  BY <1>1, <1>2

\* However answers are lost, attempts time out and decisions race, a durable
\* workflow (agentconnect-temporal) reports what the ledger says, waits only with
\* a cause, and runs no paid worker on the word of a signal -- for any number of retries.
THEOREM WorkflowStaysSafe == WorkflowSpec => []WorkflowSafe
<1>1. ASSUME WorkflowInv PROVE WorkflowSafe
  <2>1. ReportsTruth /\ WaitHasCause
    BY <1>1 DEF WorkflowInv, SignalsTruthful, AskHasCause, ReviewHeard, ReportsTruth, WaitHasCause,
                WaitCondition
  <2>2. Cardinality(harness) <= 1
    <3>1. CASE harness = {}
      BY <3>1, FS_EmptySet
    <3>2. ASSUME NEW h, harness = {h} PROVE Cardinality(harness) <= 1
      BY <3>2, FS_Singleton
    <3>3. QED
      BY <1>1, <3>1, <3>2 DEF WorkflowInv, HarnessHeld
  <2>3. QED
    BY <1>1, <2>1, <2>2 DEF WorkflowInv, HarnessHeld, SignalIsNotApproval, WorkflowSafe
<1>2. QED
  BY <1>1, WorkflowInitially, WorkflowStep, PTL DEF WorkflowSpec

----------------------------------------------------------------------------
(* The shadow evaluation.  A pass works through consecutive events, all    *)
(* events before its first one are handled already, and so is the first    *)
(* itself once its record has gone to the sink: that is why a cursor set   *)
(* by any pass, however late, leaves nothing unseen behind it.             *)

ShadowTypeOK ==
  /\ placedAt \in [RoutedSubtask -> {"nowhere", "local", "cloud", "rented", "unknown"}]
  /\ routed \in Seq(RoutedSubtask) /\ shadowCursor \in Nat /\ shadowCursor <= Len(routed)
  /\ DOMAIN passes = ShadowPass

\* What is routed was placed somewhere.
RoutesPlaced == \A i \in DOMAIN routed : placedAt[routed[i]] # "nowhere"

\* A record that counts fairly, whatever the model answered.
FairRecord(r, events) ==
  /\ r.seq \in DOMAIN events
  /\ r.tier = "private_rented" => r.agreement \in {"unrepresentable", "not_a_provider_route", "none"}
  /\ r.agreement = "none" <=> r.model = "error" \/ r.tier = "none"
  /\ r.agreement = "agree" <=> \/ r.tier = "local_only" /\ r.model \in InferenceBoxClass
                               \/ r.tier = "external" /\ r.model \in CloudClass
  /\ TierOrder[ControlToTier[r.privacy]] >= TierOrder[SubtaskTier[events[r.seq]]]

\* A batch of events that starts right after what has been handled.
BatchOK(batch, events, done) ==
  /\ batch \in Seq(Nat) /\ batch # <<>>
  /\ \A i \in 1..Len(batch) : batch[i] = batch[1] + (i - 1) /\ batch[i] >= 1 /\ batch[i] <= Len(events)
  /\ \A n \in 1..(batch[1] - 1) : n \in done

AskState == [at : {"ask"}, todo : Seq(Nat), attempt : {1, 2},
             privacy : {"public", "local_preferred", "local_only", "secret_involved"},
             tier : {"local_only", "external", "private_rented", "none"}]

PassOK(x, events, done) ==
  \/ x = NoPass
  \/ /\ BatchOK(x.todo, events, done)
     /\ \/ x.at = "event"
        \/ x \in AskState /\ x.privacy = TierToControl[SubtaskTier[events[x.todo[1]]]]
        \/ x.at = "append" /\ FairRecord(x.record, events) /\ x.record.seq = x.todo[1]
        \/ x.at = "advance" /\ x.todo[1] \in done

ShadowInv ==
  /\ ShadowTypeOK /\ RoutesPlaced /\ TailComplete
  /\ \A p \in ShadowPass : PassOK(passes[p], routed, handled)
  /\ \A r \in shadowRecords : FairRecord(r, routed)

\* The projection of a privacy value to the model's vocabulary and back is
\* never looser than the value.
LEMMA ProjectionsHold ==
  /\ \A t \in DOMAIN TierOrder : TierOrder[ControlToTier[TierToControl[t]]] >= TierOrder[t]
  /\ \A c \in DOMAIN ClassOrder : ClassOrder[ControlToClass[ClassToControl[c]]] >= ClassOrder[c]
  /\ \A v \in DOMAIN ControlOrder : /\ ControlOrder[TierToControl[ControlToTier[v]]] >= ControlOrder[v]
                                    /\ ControlOrder[ClassToControl[ControlToClass[v]]] >= ControlOrder[v]
<1>1. \A t \in DOMAIN TierOrder : TierOrder[ControlToTier[TierToControl[t]]] >= TierOrder[t]
  BY DEF TierOrder, ControlToTier, TierToControl
<1>2. \A c \in DOMAIN ClassOrder : ClassOrder[ControlToClass[ClassToControl[c]]] >= ClassOrder[c]
  BY DEF ClassOrder, ControlToClass, ClassToControl
<1>3. \A v \in DOMAIN ControlOrder : ControlOrder[TierToControl[ControlToTier[v]]] >= ControlOrder[v]
  BY DEF ControlOrder, TierToControl, ControlToTier
<1>4. \A v \in DOMAIN ControlOrder : ControlOrder[ClassToControl[ControlToClass[v]]] >= ControlOrder[v]
  BY DEF ControlOrder, ClassToControl, ControlToClass
<1>5. QED
  BY <1>1, <1>2, <1>3, <1>4

\* What run_once resolves of an event.
LEMMA Resolved ==
  ASSUME NEW t \in DOMAIN TierOrder
  PROVE  /\ TierToControl[t] \in {"public", "local_preferred", "local_only", "secret_involved"}
         /\ \A l : WorkerTier(l) \in {"local_only", "external", "private_rented", "none"}
BY DEF TierOrder, TierToControl, ProviderTierOf, WorkerTier

\* A verdict for a tier of the router and a class of the model is fair.
LEMMA VerdictFair ==
  ASSUME NEW tier \in {"local_only", "external", "private_rented"},
         NEW class \in NonProviderClass \cup InferenceBoxClass \cup CloudClass
  PROVE  /\ RouteAgreement(class, tier) # "none" /\ class # "error"
         /\ tier = "private_rented" => RouteAgreement(class, tier) \in {"unrepresentable", "not_a_provider_route"}
         /\ RouteAgreement(class, tier) = "agree" <=> \/ tier = "local_only" /\ class \in InferenceBoxClass
                                                      \/ tier = "external" /\ class \in CloudClass
<1>0. class # "error"
  BY DEF NonProviderClass, InferenceBoxClass, CloudClass
<1>1. CASE class \in NonProviderClass
  <2>1. RouteAgreement(class, tier) = "not_a_provider_route"
    BY <1>1 DEF RouteAgreement
  <2>2. class \notin InferenceBoxClass /\ class \notin CloudClass
    BY <1>1 DEF NonProviderClass, InferenceBoxClass, CloudClass
  <2>3. QED
    BY <1>0, <2>1, <2>2
<1>2. CASE class \notin NonProviderClass /\ tier = "private_rented"
  <2>1. RouteAgreement(class, tier) = "unrepresentable"
    BY <1>2 DEF RouteAgreement, Representable
  <2>2. QED
    BY <1>0, <1>2, <2>1
<1>3. CASE class \notin NonProviderClass /\ tier # "private_rented"
  <2>1. RouteAgreement(class, tier) = IF tier \in AdmittedTiers(class) THEN "agree" ELSE "disagree"
    BY <1>3 DEF RouteAgreement, Representable
  <2>2. class \in CloudClass <=> class \notin InferenceBoxClass
    BY <1>3 DEF NonProviderClass, InferenceBoxClass, CloudClass
  <2>3. QED
    BY <1>0, <1>3, <2>1, <2>2 DEF AdmittedTiers
<1>4. QED
  BY <1>1, <1>2, <1>3

\* Before the first event nothing is routed, handled or recorded.
LEMMA ShadowInitially == ShadowInit => ShadowInv
<1> SUFFICES ASSUME ShadowInit PROVE ShadowInv
  OBVIOUS
<1>1. routed = <<>> /\ Len(routed) = 0 /\ routed \in Seq(RoutedSubtask) /\ DOMAIN routed = {}
  BY DEF ShadowInit
<1>2. QED
  BY <1>1 DEF ShadowInit, ShadowInv, ShadowTypeOK, RoutesPlaced, TailComplete, PassOK

\* The passes and the records stand when the bus grows and when more events
\* are handled.
LEMMA PassGrows ==
  ASSUME NEW events \in Seq(RoutedSubtask), NEW more \in Seq(RoutedSubtask), Len(events) <= Len(more),
         \A i \in 1..Len(events) : more[i] = events[i], NEW done, NEW done2, done \subseteq done2
  PROVE  /\ \A x : PassOK(x, events, done) => PassOK(x, more, done2)
         /\ \A r : FairRecord(r, events) => FairRecord(r, more)
<1>0. Len(events) \in Nat /\ Len(more) \in Nat /\ DOMAIN events = 1..Len(events) /\ DOMAIN more = 1..Len(more)
  OBVIOUS
<1>1. ASSUME NEW r, FairRecord(r, events) PROVE FairRecord(r, more)
  <2>1. r.seq \in DOMAIN more /\ more[r.seq] = events[r.seq]
    BY <1>0, <1>1 DEF FairRecord
  <2>2. QED
    BY <1>1, <2>1 DEF FairRecord
<1>2. ASSUME NEW x, PassOK(x, events, done) PROVE PassOK(x, more, done2)
  <2>1. CASE x = NoPass
    BY <2>1 DEF PassOK
  <2>2. CASE x # NoPass
    <3>1. BatchOK(x.todo, events, done)
      BY <1>2, <2>2 DEF PassOK
    <3>2. x.todo \in Seq(Nat) /\ Len(x.todo) \in Nat \ {0} /\ x.todo[1] \in 1..Len(events)
      <4>1. x.todo \in Seq(Nat) /\ Len(x.todo) \in Nat \ {0} /\ x.todo[1] \in Nat
        BY <3>1 DEF BatchOK
      <4>2. 1 \in 1..Len(x.todo)
        BY <4>1
      <4>3. QED
        BY <1>0, <3>1, <4>1, <4>2 DEF BatchOK
    <3>3. BatchOK(x.todo, more, done2)
      <4>1. ASSUME NEW i \in 1..Len(x.todo) PROVE x.todo[i] <= Len(more) /\ x.todo[i] \in Nat
        BY <1>0, <3>1, <3>2 DEF BatchOK
      <4>2. QED
        BY <3>1, <4>1 DEF BatchOK
    <3>4. more[x.todo[1]] = events[x.todo[1]]
      BY <3>2
    <3>5. QED
      BY <1>1, <1>2, <2>2, <3>3, <3>4 DEF PassOK
  <2>3. QED
    BY <2>1, <2>2
<1>3. QED
  BY <1>1, <1>2

\* Where a pass stands says what is known of it.
LEMMA PassAt ==
  ASSUME NEW x, NEW events, NEW done, PassOK(x, events, done)
  PROVE  /\ x.at \in {"event", "ask", "append", "advance"} => BatchOK(x.todo, events, done)
         /\ x.at = "ask" => x \in AskState /\ x.privacy = TierToControl[SubtaskTier[events[x.todo[1]]]]
         /\ x.at = "append" => FairRecord(x.record, events)
         /\ x.at = "advance" => x.todo[1] \in done
<1>1. NoPass.at = "idle" /\ \A y \in AskState : y.at = "ask"
  BY DEF NoPass, AskState
<1>2. QED
  BY <1>1 DEF PassOK

\* A batch by its first event, and what is left when that one is handled.
LEMMA BatchHead ==
  ASSUME NEW batch, NEW events \in Seq(RoutedSubtask), NEW done, BatchOK(batch, events, done)
  PROVE  /\ Head(batch) = batch[1] /\ batch[1] \in Nat /\ batch[1] \in DOMAIN events
         /\ Len(batch) # 1 /\ batch[1] \in done => BatchOK(Tail(batch), events, done)
<1>1. batch \in Seq(Nat) /\ Len(batch) \in Nat \ {0} /\ Len(events) \in Nat /\ DOMAIN events = 1..Len(events)
  BY DEF BatchOK
<1>2. Head(batch) = batch[1] /\ batch[1] \in Nat /\ 1 \in 1..Len(batch)
  BY <1>1
<1>3. batch[1] \in DOMAIN events
  BY <1>1, <1>2 DEF BatchOK
<1>4. ASSUME Len(batch) # 1, batch[1] \in done PROVE BatchOK(Tail(batch), events, done)
  <2>1. PICK rest : rest = Tail(batch)
    OBVIOUS
  <2>2. rest \in Seq(Nat) /\ Len(rest) = Len(batch) - 1 /\ \A i \in 1..Len(rest) : rest[i] = batch[i + 1]
    BY <1>1, <2>1
  <2>3. Len(rest) \in Nat \ {0} /\ rest # <<>>
    BY <1>1, <1>4, <2>2
  <2>4. ASSUME NEW i \in 1..Len(rest)
        PROVE  rest[i] = batch[1] + i /\ rest[i] >= 1 /\ rest[i] <= Len(events)
    <3>1. i + 1 \in 1..Len(batch) /\ (i + 1) - 1 = i
      BY <1>1, <2>2
    <3>2. QED
      BY <2>2, <3>1 DEF BatchOK
  <2>5. rest[1] = batch[1] + 1
    BY <2>3, <2>4
  <2>6. \A n \in 1..(rest[1] - 1) : n \in done
    <3>1. ASSUME NEW n \in 1..(rest[1] - 1) PROVE n \in done
      BY <1>2, <1>4, <2>5 DEF BatchOK
    <3>2. QED
      BY <3>1
  <2>7. ASSUME NEW i \in 1..Len(rest) PROVE rest[i] = rest[1] + (i - 1)
    BY <1>2, <2>4, <2>5
  <2>8. QED
    BY <2>1, <2>2, <2>3, <2>4, <2>6, <2>7 DEF BatchOK
<1>5. QED
  BY <1>2, <1>3, <1>4

\* One pass moves, perhaps handling an event: the others stand.
LEMMA PassMoves ==
  ASSUME ShadowInv, NEW p \in ShadowPass, NEW x, NEW done, handled \subseteq done, PassOK(x, routed, done),
         Move(p, x), handled' = done, UNCHANGED <<placedAt, routed>>,
         \A r \in shadowRecords' : FairRecord(r, routed),
         shadowCursor' \in Nat /\ shadowCursor' <= Len(routed) /\ \A n \in 1..shadowCursor' : n \in done
  PROVE  ShadowInv'
<1>1. ShadowTypeOK'
  BY DEF ShadowInv, ShadowTypeOK, Move
<1>2. RoutesPlaced' /\ TailComplete'
  BY DEF ShadowInv, RoutesPlaced, TailComplete
<1>3. ASSUME NEW q \in ShadowPass PROVE PassOK(passes'[q], routed, done)
  <2>1. CASE q = p
    BY <2>1 DEF Move, ShadowInv, ShadowTypeOK
  <2>2. CASE q # p
    <3>1. passes'[q] = passes[q]
      BY <2>2 DEF Move, ShadowInv, ShadowTypeOK
    <3>2. PassOK(passes[q], routed, handled) /\ routed \in Seq(RoutedSubtask)
      BY DEF ShadowInv, ShadowTypeOK
    <3>3. Len(routed) \in Nat /\ Len(routed) <= Len(routed)
      BY <3>2
    <3>4. QED
      BY <3>1, <3>2, <3>3, PassGrows
  <2>3. QED
    BY <2>1, <2>2
<1>4. QED
  BY <1>1, <1>2, <1>3 DEF ShadowInv

\* The cursor as it stands covers handled events only.
LEMMA CursorCovered ==
  ASSUME ShadowInv, UNCHANGED shadowCursor, NEW done, handled \subseteq done
  PROVE  shadowCursor' \in Nat /\ shadowCursor' <= Len(routed) /\ \A n \in 1..shadowCursor' : n \in done
BY DEF ShadowInv, ShadowTypeOK, TailComplete

\* The cursor set to the first event of a batch covers handled events only.
LEMMA CursorSet ==
  ASSUME ShadowInv, NEW p \in ShadowPass, NEW done, BatchOK(passes[p].todo, routed, done),
         passes[p].todo[1] \in done, SetCursor(p)
  PROVE  shadowCursor' \in Nat /\ shadowCursor' <= Len(routed) /\ \A n \in 1..shadowCursor' : n \in done
<1>1. PICK b : b = passes[p].todo
  OBVIOUS
<1>2. routed \in Seq(RoutedSubtask) /\ Len(routed) \in Nat /\ DOMAIN routed = 1..Len(routed)
  BY DEF ShadowInv, ShadowTypeOK
<1>3. shadowCursor' = b[1] /\ b[1] \in Nat /\ b[1] \in 1..Len(routed)
  BY <1>1, <1>2, BatchHead DEF SetCursor
<1>4. ASSUME NEW n \in 1..b[1] PROVE n \in done
  <2>1. CASE n = b[1]
    BY <1>1, <2>1
  <2>2. CASE n # b[1]
    <3>1. n \in 1..(b[1] - 1)
      BY <1>3, <2>2
    <3>2. QED
      BY <1>1, <3>1 DEF BatchOK
  <2>3. QED
    BY <2>1, <2>2
<1>5. QED
  BY <1>2, <1>3, <1>4

\* What is left of a batch when its first event is handled.
LEMMA RestOK ==
  ASSUME ShadowInv, NEW p \in ShadowPass, NEW done, BatchOK(passes[p].todo, routed, done),
         passes[p].todo[1] \in done
  PROVE  PassOK(Rest(p), routed, done)
<1>1. routed \in Seq(RoutedSubtask)
  BY DEF ShadowInv, ShadowTypeOK
<1>2. CASE Len(passes[p].todo) = 1
  BY <1>2 DEF Rest, PassOK
<1>3. CASE Len(passes[p].todo) # 1
  <2>1. BatchOK(Tail(passes[p].todo), routed, done)
    BY <1>1, <1>3, BatchHead
  <2>2. PICK x : x = [at |-> "event", todo |-> Tail(passes[p].todo)]
    OBVIOUS
  <2>3. x.at = "event" /\ x.todo = Tail(passes[p].todo) /\ Rest(p) = x
    BY <1>3, <2>2 DEF Rest
  <2>4. QED
    BY <2>1, <2>3 DEF PassOK
<1>4. QED
  BY <1>2, <1>3

\* A batch is read after the cursor, behind which everything is handled.
LEMMA ReadBatchStep == ASSUME ShadowInv, NEW p \in ShadowPass, ReadBatch(p) PROVE ShadowInv'
<1>1. routed \in Seq(RoutedSubtask) /\ Len(routed) \in Nat /\ shadowCursor \in Nat /\ shadowCursor <= Len(routed)
  BY DEF ShadowInv, ShadowTypeOK
<1>2. PICK n : n = Min({BatchLimit, Len(routed) - shadowCursor})
  OBVIOUS
<1>3. n \in Nat /\ n > 0 /\ n <= Len(routed) - shadowCursor
  <2>1. BatchLimit \in Nat /\ Len(routed) - shadowCursor \in Nat
    BY <1>1, ShadowTypes
  <2>2. \E m \in {BatchLimit, Len(routed) - shadowCursor} : \A k \in {BatchLimit, Len(routed) - shadowCursor} : m <= k
    BY <2>1
  <2>3. n \in {BatchLimit, Len(routed) - shadowCursor} /\ \A k \in {BatchLimit, Len(routed) - shadowCursor} : n <= k
    BY <1>2, <2>2 DEF Min
  <2>4. n > 0
    BY <1>2 DEF ReadBatch
  <2>5. QED
    BY <2>1, <2>3, <2>4
<1>4. PICK batch : batch = [i \in 1 .. n |-> shadowCursor + i]
  OBVIOUS
<1>5. batch \in Seq(Nat) /\ Len(batch) = n /\ \A i \in 1..n : batch[i] = shadowCursor + i
  <2>1. \A i \in 1..n : shadowCursor + i \in Nat
    BY <1>1, <1>3
  <2>2. QED
    BY <1>3, <1>4, <2>1
<1>6. BatchOK(batch, routed, handled)
  <2>1. batch[1] = shadowCursor + 1 /\ batch # <<>>
    BY <1>3, <1>5
  <2>2. ASSUME NEW i \in 1..Len(batch)
        PROVE  batch[i] = batch[1] + (i - 1) /\ batch[i] >= 1 /\ batch[i] <= Len(routed)
    BY <1>1, <1>3, <1>5, <2>1
  <2>3. ASSUME NEW k \in 1..(batch[1] - 1) PROVE k \in handled
    BY <1>1, <2>1 DEF ShadowInv, TailComplete
  <2>4. QED
    BY <1>5, <2>1, <2>2, <2>3 DEF BatchOK
<1>7. PICK x : x = [at |-> "event", todo |-> batch]
  OBVIOUS
<1>8. x.at = "event" /\ x.todo = batch /\ Move(p, x)
  BY <1>2, <1>4, <1>7 DEF ReadBatch
<1>9. PassOK(x, routed, handled)
  BY <1>6, <1>8 DEF PassOK
<1>10. \A r \in shadowRecords' : FairRecord(r, routed)
  BY DEF ShadowInv, ReadBatch
<1>11. QED
  BY <1>8, <1>9, <1>10, PassMoves, CursorCovered DEF ReadBatch

\* An event is skipped, or resolved to what the ledger says of it.
LEMMA ResolveStep ==
  ASSUME ShadowInv, NEW p \in ShadowPass, NEW readable \in BOOLEAN, Resolve(p, readable)
  PROVE  ShadowInv'
<1>0. PICK b : b = passes[p].todo
  OBVIOUS
<1>1. BatchOK(b, routed, handled) /\ routed \in Seq(RoutedSubtask) /\ passes[p].at = "event"
  BY <1>0, PassAt DEF ShadowInv, ShadowTypeOK, Resolve
<1>2. Head(b) = b[1] /\ b[1] \in Nat /\ b[1] \in DOMAIN routed
  BY <1>1, BatchHead
<1>3. \A r \in shadowRecords' : FairRecord(r, routed)
  BY DEF ShadowInv, Resolve
<1>4. CASE readable
  <2>1. PICK s \in RoutedSubtask : s = routed[b[1]]
    BY <1>1, <1>2
  <2>2. SubtaskTier[s] \in DOMAIN TierOrder
    BY <2>1, ShadowTypes
  <2>3. PICK x : x = [at |-> "ask", todo |-> b, attempt |-> 1,
                      privacy |-> TierToControl[SubtaskTier[s]], tier |-> WorkerTier(placedAt[s])]
    OBVIOUS
  <2>4. /\ TierToControl[SubtaskTier[s]] \in {"public", "local_preferred", "local_only", "secret_involved"}
        /\ WorkerTier(placedAt[s]) \in {"local_only", "external", "private_rented", "none"}
    BY <2>2, Resolved
  <2>5. x \in AskState /\ x.todo = b /\ x.privacy = TierToControl[SubtaskTier[routed[b[1]]]]
    BY <1>1, <2>1, <2>3, <2>4 DEF AskState, BatchOK
  <2>6. Move(p, x) /\ UNCHANGED <<shadowCursor, handled, placedAt, routed>>
    BY <1>0, <1>2, <1>4, <2>1, <2>3 DEF Resolve
  <2>7. PassOK(x, routed, handled)
    BY <1>1, <2>5 DEF PassOK
  <2>8. QED
    BY <1>3, <2>6, <2>7, PassMoves, CursorCovered
<1>5. CASE ~readable
  <2>1. PICK done : done = handled \cup {b[1]}
    OBVIOUS
  <2>2. SetCursor(p) /\ handled' = done /\ Move(p, Rest(p)) /\ UNCHANGED <<placedAt, routed>>
    BY <1>0, <1>2, <1>5, <2>1 DEF Resolve
  <2>3. BatchOK(b, routed, done) /\ b[1] \in done /\ handled \subseteq done
    BY <1>1, <2>1 DEF BatchOK
  <2>4. PassOK(Rest(p), routed, done)
    BY <1>0, <2>3, RestOK
  <2>5. shadowCursor' \in Nat /\ shadowCursor' <= Len(routed) /\ \A n \in 1..shadowCursor' : n \in done
    BY <1>0, <2>2, <2>3, CursorSet
  <2>6. QED
    BY <1>3, <2>2, <2>3, <2>4, <2>5, PassMoves
<1>6. QED
  BY <1>4, <1>5

\* The model is asked again, or its answer is scored.
LEMMA EvaluateStep ==
  ASSUME ShadowInv, NEW p \in ShadowPass, NEW reply, EvaluateOnce(p, reply)
  PROVE  ShadowInv'
<1>0. PICK a : a = passes[p]
  OBVIOUS
<1>1. /\ a \in AskState /\ BatchOK(a.todo, routed, handled) /\ routed \in Seq(RoutedSubtask)
      /\ a.privacy = TierToControl[SubtaskTier[routed[a.todo[1]]]]
  BY <1>0, PassAt DEF ShadowInv, ShadowTypeOK, EvaluateOnce
<1>2. Head(a.todo) = a.todo[1] /\ a.todo[1] \in Nat /\ a.todo[1] \in DOMAIN routed
  BY <1>1, BatchHead
<1>3. (\A r \in shadowRecords' : FairRecord(r, routed)) /\ UNCHANGED <<placedAt, routed, shadowCursor, handled>>
  BY DEF ShadowInv, EvaluateOnce
<1>4. CASE Move(p, [a EXCEPT !.attempt = 2])
  <2>1. PICK x : x = [a EXCEPT !.attempt = 2]
    OBVIOUS
  <2>2. x \in AskState /\ x.todo = a.todo /\ x.privacy = a.privacy
    BY <1>1, <2>1 DEF AskState
  <2>3. PassOK(x, routed, handled)
    BY <1>1, <2>2 DEF PassOK
  <2>4. QED
    BY <1>3, <1>4, <2>1, <2>3, PassMoves, CursorCovered
<1>5. CASE ~Move(p, [a EXCEPT !.attempt = 2])
  <2>1. PICK class : class = IF ParseDecision(reply) THEN reply ELSE "error"
    OBVIOUS
  <2>2. PICK g : g = Score(class, a.tier)
    OBVIOUS
  <2>3. PICK r : r = Scored(p, class)
    OBVIOUS
  <2>4. r.seq = a.todo[1] /\ r.privacy = a.privacy /\ r.tier = a.tier /\ r.model = class /\ r.agreement = g
    BY <1>0, <1>2, <2>2, <2>3 DEF Scored
  <2>5. a.tier \in {"local_only", "external", "private_rented", "none"}
    BY <1>1 DEF AskState
  <2>6. class = "error" \/ class \in NonProviderClass \cup InferenceBoxClass \cup CloudClass
    BY <2>1 DEF ParseDecision
  <2>7. /\ a.tier = "private_rented" => g \in {"unrepresentable", "not_a_provider_route", "none"}
        /\ g = "none" <=> class = "error" \/ a.tier = "none"
        /\ g = "agree" <=> \/ a.tier = "local_only" /\ class \in InferenceBoxClass
                           \/ a.tier = "external" /\ class \in CloudClass
    <3>1. CASE class = "error" \/ a.tier = "none"
      <4>1. g = "none"
        BY <2>2, <3>1 DEF Score
      <4>2. QED
        BY <3>1, <4>1 DEF InferenceBoxClass, CloudClass
    <3>2. CASE class # "error" /\ a.tier # "none"
      <4>1. g = RouteAgreement(class, a.tier)
        BY <2>2, <3>2 DEF Score
      <4>2. QED
        BY <2>5, <2>6, <3>2, <4>1, VerdictFair
    <3>3. QED
      BY <3>1, <3>2
  <2>8. TierOrder[ControlToTier[a.privacy]] >= TierOrder[SubtaskTier[routed[a.todo[1]]]]
    <3>1. SubtaskTier[routed[a.todo[1]]] \in DOMAIN TierOrder
      BY <1>1, <1>2, ShadowTypes
    <3>2. QED
      BY <1>1, <3>1, ProjectionsHold
  <2>9. FairRecord(r, routed)
    BY <1>2, <2>4, <2>7, <2>8 DEF FairRecord
  <2>10. PICK x : x = [at |-> "append", todo |-> a.todo, record |-> r]
    OBVIOUS
  <2>11. x.at = "append" /\ x.todo = a.todo /\ x.record = r
    BY <2>10
  <2>12. PassOK(x, routed, handled)
    BY <1>1, <2>4, <2>9, <2>11 DEF PassOK
  <2>13. Move(p, x)
    BY <1>0, <1>5, <2>1, <2>3, <2>10 DEF EvaluateOnce
  <2>14. QED
    BY <1>3, <2>12, <2>13, PassMoves, CursorCovered
<1>6. QED
  BY <1>4, <1>5

\* A record goes to the sink, or is lost there; either way its event is handled.
LEMMA AppendStep ==
  ASSUME ShadowInv, NEW p \in ShadowPass, NEW ok \in BOOLEAN, AppendShadow(p, ok)
  PROVE  ShadowInv'
<1>0. PICK a : a = passes[p]
  OBVIOUS
<1>1. /\ BatchOK(a.todo, routed, handled) /\ routed \in Seq(RoutedSubtask)
      /\ FairRecord(a.record, routed)
  BY <1>0, PassAt DEF ShadowInv, ShadowTypeOK, AppendShadow
<1>2. Head(a.todo) = a.todo[1]
  BY <1>1, BatchHead
<1>3. \A r \in shadowRecords' : FairRecord(r, routed)
  BY <1>0, <1>1 DEF ShadowInv, AppendShadow
<1>4. PICK done : done = handled \cup {a.todo[1]}
  OBVIOUS
<1>5. PICK x : x = [at |-> "advance", todo |-> a.todo]
  OBVIOUS
<1>6. x.at = "advance" /\ x.todo = a.todo
  BY <1>5
<1>7. BatchOK(a.todo, routed, done) /\ a.todo[1] \in done /\ handled \subseteq done
  BY <1>1, <1>4 DEF BatchOK
<1>8. PassOK(x, routed, done)
  BY <1>6, <1>7 DEF PassOK
<1>9. Move(p, x) /\ handled' = done /\ UNCHANGED <<placedAt, routed, shadowCursor>>
  BY <1>0, <1>2, <1>4, <1>5 DEF AppendShadow
<1>10. QED
  BY <1>3, <1>7, <1>8, <1>9, PassMoves, CursorCovered

\* The cursor moves to an event that is handled.
LEMMA AdvanceStep == ASSUME ShadowInv, NEW p \in ShadowPass, AdvanceCursor(p) PROVE ShadowInv'
<1>1. BatchOK(passes[p].todo, routed, handled) /\ passes[p].todo[1] \in handled
  BY PassAt DEF ShadowInv, AdvanceCursor
<1>2. PassOK(Rest(p), routed, handled)
  BY <1>1, RestOK
<1>3. shadowCursor' \in Nat /\ shadowCursor' <= Len(routed) /\ \A n \in 1..shadowCursor' : n \in handled
  BY <1>1, CursorSet DEF AdvanceCursor
<1>4. (\A r \in shadowRecords' : FairRecord(r, routed)) /\ Move(p, Rest(p))
      /\ UNCHANGED <<placedAt, routed, handled>>
  BY DEF ShadowInv, AdvanceCursor
<1>5. QED
  BY <1>2, <1>3, <1>4, PassMoves

\* A pass that dies leaves the sink and the cursor as they were.
LEMMA PassDiesStep == ASSUME ShadowInv, NEW p \in ShadowPass, PassDies(p) PROVE ShadowInv'
<1>1. (\A r \in shadowRecords' : FairRecord(r, routed)) /\ Move(p, NoPass)
      /\ UNCHANGED <<placedAt, routed, shadowCursor, handled>> /\ PassOK(NoPass, routed, handled)
  BY DEF ShadowInv, PassDies, PassOK
<1>2. QED
  BY <1>1, PassMoves, CursorCovered

\* The router places a subtask and emits the event: the bus grows at its end.
LEMMA PlaceStep ==
  ASSUME ShadowInv, NEW s \in RoutedSubtask, NEW location \in PlacedLocation, PlaceSubtask(s, location)
  PROVE  ShadowInv'
<1>1. /\ routed \in Seq(RoutedSubtask) /\ Len(routed) \in Nat /\ placedAt \in [RoutedSubtask -> {"nowhere", "local", "cloud", "rented", "unknown"}]
      /\ location \in {"local", "cloud", "rented", "unknown"} /\ routed' = Append(routed, s)
      /\ placedAt' = [placedAt EXCEPT ![s] = location]
      /\ UNCHANGED <<shadowCursor, shadowRecords, passes, handled>>
  BY DEF ShadowInv, ShadowTypeOK, PlaceSubtask, PlacedLocation, ProviderTierOf
<1>2. /\ routed' \in Seq(RoutedSubtask) /\ Len(routed') = Len(routed) + 1 /\ routed'[Len(routed) + 1] = s
      /\ \A i \in 1..Len(routed) : routed'[i] = routed[i]
  BY <1>1
<1>3. ShadowTypeOK'
  BY <1>1, <1>2 DEF ShadowInv, ShadowTypeOK
<1>4. RoutesPlaced'
  <2>1. ASSUME NEW i \in DOMAIN routed' PROVE placedAt'[routed'[i]] # "nowhere"
    <3>1. i \in 1..(Len(routed) + 1)
      BY <1>2
    <3>2. CASE i = Len(routed) + 1
      BY <1>1, <1>2, <3>2
    <3>3. CASE i # Len(routed) + 1
      <4>1. i \in 1..Len(routed)
        BY <1>1, <3>1, <3>3
      <4>2. routed'[i] = routed[i] /\ routed[i] \in RoutedSubtask /\ placedAt[routed[i]] # "nowhere"
        BY <1>1, <1>2, <4>1 DEF ShadowInv, RoutesPlaced
      <4>3. QED
        BY <1>1, <4>2
    <3>4. QED
      BY <3>2, <3>3
  <2>2. QED
    BY <2>1 DEF RoutesPlaced
<1>5. /\ \A x : PassOK(x, routed, handled) => PassOK(x, routed', handled)
      /\ \A r : FairRecord(r, routed) => FairRecord(r, routed')
  <2>1. Len(routed) <= Len(routed')
    BY <1>1, <1>2
  <2>2. PICK h : h = handled
    OBVIOUS
  <2>3. QED
    BY <1>1, <1>2, <2>1, PassGrows
<1>6. QED
  BY <1>1, <1>3, <1>4, <1>5 DEF ShadowInv, TailComplete

\* Every step keeps the invariant of the shadow evaluation.
LEMMA ShadowStep == ShadowInv /\ [ShadowNext]_shadowVars => ShadowInv'
<1> SUFFICES ASSUME ShadowInv, [ShadowNext]_shadowVars PROVE ShadowInv'
  OBVIOUS
<1>1. CASE \E s \in RoutedSubtask, location \in PlacedLocation : PlaceSubtask(s, location)
  BY <1>1, PlaceStep
<1>2. CASE \E p \in ShadowPass : ReadBatch(p) \/ AdvanceCursor(p) \/ PassDies(p)
  BY <1>2, ReadBatchStep, AdvanceStep, PassDiesStep
<1>3. CASE \E p \in ShadowPass : \E ok \in BOOLEAN : Resolve(p, ok) \/ AppendShadow(p, ok)
  BY <1>3, ResolveStep, AppendStep
<1>4. CASE \E p \in ShadowPass : \E reply \in ModelClass \cup {"invalid", "unreachable"} : EvaluateOnce(p, reply)
  BY <1>4, EvaluateStep
<1>5. CASE UNCHANGED shadowVars
  BY <1>5 DEF shadowVars, ShadowInv, ShadowTypeOK, RoutesPlaced, TailComplete
<1>6. QED
  BY <1>1, <1>2, <1>3, <1>4, <1>5 DEF ShadowNext

\* Whatever passes overlap, die or set the cursor back, every event behind
\* the cursor was skipped or had its record handed to the sink, and no record
\* carries a verdict that the vocabulary cannot support.
THEOREM ShadowStaysSafe == ShadowSpec => []ShadowSafe
<1>1. ShadowInv => ShadowSafe
  <2>1. ASSUME ShadowInv PROVE ScoredFairly
    BY <2>1, ProjectionsHold DEF ShadowInv, ScoredFairly, FairRecord
  <2>2. QED
    BY <2>1 DEF ShadowInv, ShadowSafe
<1>2. QED
  BY <1>1, ShadowInitially, ShadowStep, PTL DEF ShadowSpec

----------------------------------------------------------------------------
(* The event bus.  A row's id tells which producer wrote it, and the id of *)
(* a state.changed row its seq, so that its insert is never ignored; what  *)
(* a reader has fetched lies right after its cursor, and what a page has   *)
(* shown at or behind it.                                                  *)

BusText == {"none", "text", "withheld"}
BusKind == {"state", "subtask", "publish"} \cup HealthStatus
BusRow == [id : BusKind \X (Observed \cup PublishId \cup {"orphan"}) \X Nat,
           about : Observed \cup PublishTier \cup {"orphan"}, dst : Nat, text : BusText,
           source : {"agentconnect", "brainconnect"}]

\* A row by its producer.
RowOf(r, seq) ==
  \/ r.id[1] = "state" /\ r.about \in Observed /\ r.id[3] = seq /\ r.text = "none"
  \/ r.id[1] = "subtask" /\ r.about \in Observed /\ r.text = TierGatedFreeText(r.about)
  \/ r.id[1] \in HealthStatus /\ r.about = "orphan" /\ r.text = "none"
  \/ r.id[1] = "publish" /\ r.about \in PublishTier /\ r.text = RedactIngestedPayload(r.about)

RichEvent == [kind : {"subtask"} \cup HealthStatus, anchor : Observed \cup {"orphan"}, text : BusText]

\* An event about a subtask is emitted after a transition of it.
EventOf(e, rows) ==
  /\ e \in RichEvent
  /\ \/ /\ e.kind = "subtask" /\ e.anchor \in Observed /\ e.text = TierGatedFreeText(e.anchor)
        /\ \E j \in DOMAIN rows : rows[j].id[1] = "state" /\ rows[j].about = e.anchor
     \/ e.kind \in HealthStatus /\ e.anchor = "orphan" /\ e.text = "none"

LogOK == log \in Seq(BusRow) /\ moved \in [Observed -> Nat] /\ \A i \in DOMAIN log : RowOf(log[i], i)

EmitterOK ==
  /\ DOMAIN emitter = {"seq", "todo", "sending", "health"} /\ emitter.seq \in Nat
  /\ \A e \in emitter.todo : EventOf(e, log)
  /\ \A s \in emitter.sending : EventOf(s.event, log) /\ s.id \in {s.event.kind} \X {s.event.anchor} \X Nat

Consecutive(s, from) == s \in Seq(Nat) /\ \A i \in 1..Len(s) : s[i] = from + i

StreamOK ==
  /\ DOMAIN stream = {"on", "start", "cursor", "batch", "got"}
  /\ stream.on \in BOOLEAN /\ stream.start \in Nat /\ stream.cursor \in Nat
  /\ Consecutive(stream.got, stream.start) /\ Consecutive(stream.batch, stream.cursor)
  /\ stream.on => stream.cursor = stream.start + Len(stream.got)
  /\ ~stream.on => stream.batch = <<>>

PageOK ==
  /\ DOMAIN page = {"phase", "last", "rows", "ticks", "tree"} /\ page.last \in Nat
  /\ Consecutive(page.rows, page.last)
  /\ \A i \in 1..Len(page.rows) : page.rows[i] <= Len(log)
  /\ page.ticks \in Seq(Nat) /\ Increasing(page.ticks)
  /\ \A i \in 1..Len(page.ticks) : page.ticks[i] <= page.last
  /\ page.phase \in {"poll", "listed", "tree", "shown", "closed"}
  /\ page.phase # "listed" => page.rows = <<>>

BusInv == LogOK /\ EmitterOK /\ StreamOK /\ PageOK /\ SkeletonRebuilds

\* The skeleton of a log, for one subtask and its number of transitions.
StateRow(r, o) == r.about = o /\ r.id[1] = "state"
Rebuilt(o, rows, n) ==
  /\ \A k \in 1..n : \E i \in DOMAIN rows : StateRow(rows[i], o) /\ rows[i].dst = k
  /\ \A i \in DOMAIN rows : StateRow(rows[i], o) => rows[i].dst \in 1..n
  /\ \A i, j \in DOMAIN rows : StateRow(rows[i], o) /\ StateRow(rows[j], o) /\ i < j => rows[i].dst < rows[j].dst
Preceded(rows) ==
  \A i \in DOMAIN rows : rows[i].id[1] = "subtask" =>
    \E j \in 1 .. i - 1 : StateRow(rows[j], rows[i].about)

\* SkeletonRebuilds in those terms, before and after a step.
LEMMA SkeletonForm ==
  /\ SkeletonRebuilds <=> (\A o \in Observed : Rebuilt(o, log, moved[o])) /\ Preceded(log)
  /\ SkeletonRebuilds' <=> (\A o \in Observed : Rebuilt(o, log', moved'[o])) /\ Preceded(log')
<1>1. SkeletonRebuilds <=> (\A o \in Observed : Rebuilt(o, log, moved[o])) /\ Preceded(log)
  BY DEF SkeletonRebuilds, Rebuilt, Preceded, StateRow
<1>2. SkeletonRebuilds' <=> (\A o \in Observed : Rebuilt(o, log', moved'[o])) /\ Preceded(log')
  BY DEF SkeletonRebuilds, Rebuilt, Preceded, StateRow
<1>3. QED
  BY <1>1, <1>2

\* The log is empty, or gains a row at its end.
LEMMA InsertRow ==
  ASSUME LogOK, NEW r \in BusRow, RowOf(r, Len(log) + 1), NEW new, new = InsertEventRow(r)
  PROVE  /\ new \in Seq(BusRow) /\ \A i \in DOMAIN new : RowOf(new[i], i)
         /\ Len(log) \in Nat /\ DOMAIN log = 1..Len(log) /\ Len(log) <= Len(new) /\ DOMAIN new = 1..Len(new)
         /\ \A i \in DOMAIN log : new[i] = log[i]
         /\ new = log \/ (Len(new) = Len(log) + 1 /\ new[Len(log) + 1] = r)
<1>1. log \in Seq(BusRow) /\ Len(log) \in Nat /\ DOMAIN log = 1..Len(log)
  BY DEF LogOK
<1>2. CASE new = log
  BY <1>1, <1>2 DEF LogOK
<1>3. CASE new = Append(log, r)
  <2>1. /\ new \in Seq(BusRow) /\ Len(new) = Len(log) + 1 /\ new[Len(log) + 1] = r /\ DOMAIN new = 1..(Len(log) + 1)
        /\ \A i \in 1..Len(log) : new[i] = log[i]
    BY <1>1, <1>3
  <2>2. ASSUME NEW i \in 1..(Len(log) + 1) PROVE RowOf(new[i], i)
    <3>1. CASE i = Len(log) + 1
      BY <2>1, <3>1
    <3>2. CASE i # Len(log) + 1
      <4>1. i \in DOMAIN log
        BY <1>1, <3>2
      <4>2. QED
        BY <1>1, <2>1, <4>1 DEF LogOK
    <3>3. QED
      BY <3>1, <3>2
  <2>3. QED
    BY <1>1, <2>1, <2>2
<1>4. QED
  BY <1>2, <1>3 DEF InsertEventRow

\* An event that may be emitted may still be when the log has grown.
LEMMA EventKeeps ==
  ASSUME NEW rows, NEW more, DOMAIN rows \subseteq DOMAIN more, \A i \in DOMAIN rows : more[i] = rows[i],
         NEW e, EventOf(e, rows)
  PROVE  EventOf(e, more)
BY DEF EventOf

\* A row of another kind changes no subtask's rows.
LEMMA RebuiltKeeps ==
  ASSUME NEW rows \in Seq(BusRow), NEW more \in Seq(BusRow), Len(more) = Len(rows) + 1,
         \A i \in 1..Len(rows) : more[i] = rows[i],
         NEW o, NEW n \in Nat, Rebuilt(o, rows, n), ~StateRow(more[Len(rows) + 1], o)
  PROVE  Rebuilt(o, more, n)
<1>1. Len(rows) \in Nat /\ DOMAIN rows = 1..Len(rows) /\ DOMAIN more = 1..(Len(rows) + 1)
  OBVIOUS
<1>2. ASSUME NEW i \in DOMAIN more, StateRow(more[i], o) PROVE i \in DOMAIN rows /\ more[i] = rows[i]
  <2>1. i # Len(rows) + 1
    BY <1>2
  <2>2. QED
    BY <1>1, <2>1
<1>3. ASSUME NEW k \in 1..n PROVE \E i \in DOMAIN more : StateRow(more[i], o) /\ more[i].dst = k
  <2>1. PICK i \in DOMAIN rows : StateRow(rows[i], o) /\ rows[i].dst = k
    BY DEF Rebuilt
  <2>2. i \in DOMAIN more /\ more[i] = rows[i]
    BY <1>1
  <2>3. QED
    BY <2>1, <2>2
<1>4. QED
  BY <1>1, <1>2, <1>3 DEF Rebuilt

\* The row of the next transition continues those of its subtask.
LEMMA RebuiltGrows ==
  ASSUME NEW rows \in Seq(BusRow), NEW more \in Seq(BusRow), Len(more) = Len(rows) + 1,
         \A i \in 1..Len(rows) : more[i] = rows[i],
         NEW o, NEW n \in Nat, Rebuilt(o, rows, n),
         StateRow(more[Len(rows) + 1], o), more[Len(rows) + 1].dst = n + 1
  PROVE  Rebuilt(o, more, n + 1)
<1>1. Len(rows) \in Nat /\ DOMAIN rows = 1..Len(rows) /\ DOMAIN more = 1..(Len(rows) + 1)
  OBVIOUS
<1>2. ASSUME NEW i \in DOMAIN more PROVE i = Len(rows) + 1 \/ (i \in DOMAIN rows /\ more[i] = rows[i])
  BY <1>1
<1>3. ASSUME NEW k \in 1..(n + 1) PROVE \E i \in DOMAIN more : StateRow(more[i], o) /\ more[i].dst = k
  <2>1. CASE k = n + 1
    BY <1>1, <2>1
  <2>2. CASE k # n + 1
    <3>1. k \in 1..n
      BY <2>2
    <3>2. PICK i \in DOMAIN rows : StateRow(rows[i], o) /\ rows[i].dst = k
      BY <3>1 DEF Rebuilt
    <3>3. i \in DOMAIN more /\ more[i] = rows[i]
      BY <1>1
    <3>4. QED
      BY <3>2, <3>3
  <2>3. QED
    BY <2>1, <2>2
<1>4. ASSUME NEW i \in DOMAIN more, StateRow(more[i], o) PROVE more[i].dst \in 1..(n + 1)
  <2>1. CASE i = Len(rows) + 1
    BY <2>1
  <2>2. CASE i # Len(rows) + 1
    <3>1. rows[i].dst \in 1..n /\ more[i] = rows[i]
      BY <1>2, <1>4, <2>2 DEF Rebuilt
    <3>2. QED
      BY <3>1
  <2>3. QED
    BY <2>1, <2>2
<1>5. ASSUME NEW i \in DOMAIN more, NEW j \in DOMAIN more, StateRow(more[i], o), StateRow(more[j], o), i < j
      PROVE  more[i].dst < more[j].dst
  <2>1. i \in DOMAIN rows /\ more[i] = rows[i]
    BY <1>1, <1>5
  <2>2. rows[i].dst \in 1..n
    BY <1>5, <2>1 DEF Rebuilt
  <2>3. CASE j = Len(rows) + 1
    BY <2>1, <2>2, <2>3
  <2>4. CASE j # Len(rows) + 1
    <3>1. j \in DOMAIN rows /\ more[j] = rows[j]
      BY <1>2, <2>4
    <3>2. QED
      BY <1>5, <2>1, <3>1 DEF Rebuilt
  <2>5. QED
    BY <2>3, <2>4
<1>6. QED
  BY <1>3, <1>4, <1>5 DEF Rebuilt

\* Nor does a row, unless it is of an event that came too early.
LEMMA PrecededKeeps ==
  ASSUME NEW rows \in Seq(BusRow), NEW more \in Seq(BusRow), Len(more) = Len(rows) + 1,
         \A i \in 1..Len(rows) : more[i] = rows[i], Preceded(rows),
         more[Len(rows) + 1].id[1] = "subtask" =>
           \E j \in DOMAIN rows : StateRow(rows[j], more[Len(rows) + 1].about)
  PROVE  Preceded(more)
<1>1. Len(rows) \in Nat /\ DOMAIN rows = 1..Len(rows) /\ DOMAIN more = 1..(Len(rows) + 1)
  OBVIOUS
<1>2. ASSUME NEW i \in DOMAIN more, more[i].id[1] = "subtask"
      PROVE  \E j \in 1 .. i - 1 : StateRow(more[j], more[i].about)
  <2>1. CASE i = Len(rows) + 1
    <3>1. PICK j \in DOMAIN rows : StateRow(rows[j], more[i].about)
      BY <1>2, <2>1
    <3>2. j \in 1 .. i - 1 /\ more[j] = rows[j]
      BY <1>1, <2>1
    <3>3. QED
      BY <3>1, <3>2
  <2>2. CASE i # Len(rows) + 1
    <3>1. i \in DOMAIN rows /\ more[i] = rows[i]
      BY <1>1, <2>2
    <3>2. PICK j \in 1 .. i - 1 : StateRow(rows[j], rows[i].about)
      BY <1>2, <3>1 DEF Preceded
    <3>3. more[j] = rows[j]
      BY <1>1, <3>1
    <3>4. QED
      BY <3>1, <3>2, <3>3
  <2>3. QED
    BY <2>1, <2>2
<1>3. QED
  BY <1>2 DEF Preceded

\* What an append leaves for the emitter and the page to hold on to.
LogGrew == /\ \A e : EventOf(e, log) => EventOf(e, log')
           /\ Len(log) \in Nat /\ Len(log') \in Nat /\ Len(log) <= Len(log')

\* A row that is no transition is appended, or ignored for its id.
LEMMA PlainRow ==
  ASSUME BusInv, NEW r \in BusRow, RowOf(r, Len(log) + 1), log' = InsertEventRow(r), moved' = moved,
         r.id[1] # "state", r.id[1] = "subtask" => \E j \in DOMAIN log : StateRow(log[j], r.about)
  PROVE  LogOK' /\ SkeletonRebuilds' /\ LogGrew
<1>0. LogOK /\ log \in Seq(BusRow) /\ moved \in [Observed -> Nat]
  BY DEF BusInv, LogOK
<1>1. PICK new : new = log'
  OBVIOUS
<1>2. /\ new \in Seq(BusRow) /\ \A i \in DOMAIN new : RowOf(new[i], i)
      /\ Len(log) \in Nat /\ DOMAIN log = 1..Len(log) /\ Len(log) <= Len(new) /\ DOMAIN new = 1..Len(new)
      /\ \A i \in DOMAIN log : new[i] = log[i]
      /\ new = log \/ (Len(new) = Len(log) + 1 /\ new[Len(log) + 1] = r)
  BY <1>0, <1>1, InsertRow
<1>3. LogOK'
  BY <1>0, <1>1, <1>2 DEF LogOK
<1>4. LogGrew
  <2>a. new \in Seq(BusRow)
    BY <1>2
  <2>0. Len(new) \in Nat
    BY <2>a
  <2>b. Len(log) \in Nat /\ Len(log) <= Len(new) /\ DOMAIN log = 1..Len(log) /\ DOMAIN new = 1..Len(new)
    BY <1>2
  <2>1. DOMAIN log \subseteq DOMAIN new
    BY <2>0, <2>b
  <2>2. QED
    BY <1>1, <1>2, <2>0, <2>1, EventKeeps DEF LogGrew
<1>5. (\A o \in Observed : Rebuilt(o, log, moved[o])) /\ Preceded(log)
  BY SkeletonForm DEF BusInv
<1>6. (\A o \in Observed : Rebuilt(o, new, moved[o])) /\ Preceded(new)
  <2>1. CASE new = log
    BY <1>5, <2>1
  <2>2. CASE Len(new) = Len(log) + 1 /\ new[Len(log) + 1] = r
    <3>1. ASSUME NEW o \in Observed PROVE Rebuilt(o, new, moved[o])
      <4>1. ~StateRow(new[Len(log) + 1], o) /\ moved[o] \in Nat
        BY <1>0, <2>2 DEF StateRow
      <4>2. QED
        BY <1>0, <1>2, <1>5, <2>2, <4>1, RebuiltKeeps
    <3>2. Preceded(new)
      BY <1>0, <1>2, <1>5, <2>2, PrecededKeeps
    <3>3. QED
      BY <3>1, <3>2
  <2>3. QED
    BY <1>2, <2>1, <2>2
<1>7. QED
  BY <1>1, <1>3, <1>4, <1>6, SkeletonForm

\* A transition and its row are one commit, and the row's id is new.
LEMMA TransitionRow ==
  ASSUME BusInv, NEW o \in Observed, Transition(o)
  PROVE  /\ LogOK' /\ SkeletonRebuilds' /\ LogGrew
         /\ \E j \in DOMAIN log' : log'[j].id[1] = "state" /\ log'[j].about = o
<1>0. LogOK /\ log \in Seq(BusRow) /\ moved \in [Observed -> Nat] /\ Len(log) \in Nat /\ DOMAIN log = 1..Len(log)
  BY DEF BusInv, LogOK
<1>1. PICK r : r = Row(<<"state", o, Len(log) + 1>>, o, moved[o] + 1, "none", "agentconnect")
  OBVIOUS
<1>2. /\ r.id = <<"state", o, Len(log) + 1>> /\ r.about = o /\ r.dst = moved[o] + 1 /\ r.text = "none"
      /\ r.source = "agentconnect"
  BY <1>1 DEF Row
<1>3. r \in BusRow
  BY <1>0, <1>1 DEF Row, BusRow, BusKind, BusText
<1>4. RowOf(r, Len(log) + 1)
  BY <1>2 DEF RowOf
<1>5. PICK new : new = log'
  OBVIOUS
<1>6. new = InsertEventRow(r) /\ moved' = [moved EXCEPT ![o] = moved[o] + 1]
  BY <1>1, <1>5 DEF Transition, InsertTransitionAudit
<1>7. ASSUME NEW i \in DOMAIN log PROVE log[i].id # r.id
  <2>1. RowOf(log[i], i) /\ i # Len(log) + 1
    BY <1>0 DEF LogOK
  <2>2. r.id[1] = "state" /\ r.id[3] = Len(log) + 1
    BY <1>2
  <2>3. QED
    BY <2>1, <2>2, BusTypes DEF RowOf
<1>8. new = Append(log, r)
  BY <1>6, <1>7 DEF InsertEventRow
<1>9. /\ new \in Seq(BusRow) /\ \A i \in DOMAIN new : RowOf(new[i], i)
      /\ Len(log) <= Len(new) /\ DOMAIN new = 1..Len(new)
      /\ \A i \in DOMAIN log : new[i] = log[i]
      /\ Len(new) = Len(log) + 1 /\ new[Len(log) + 1] = r
  <2>1. Len(new) = Len(log) + 1 /\ new[Len(log) + 1] = r
    BY <1>0, <1>3, <1>8
  <2>2. QED
    BY <1>0, <1>3, <1>4, <1>6, <2>1, InsertRow
<1>10. LogOK'
  BY <1>0, <1>5, <1>6, <1>9 DEF LogOK
<1>11. LogGrew
  <2>1. Len(new) \in Nat /\ DOMAIN log \subseteq DOMAIN new
    BY <1>0, <1>9
  <2>2. QED
    BY <1>0, <1>5, <1>9, <2>1, EventKeeps DEF LogGrew
<1>12. (\A p \in Observed : Rebuilt(p, log, moved[p])) /\ Preceded(log)
  BY SkeletonForm DEF BusInv
<1>13. ASSUME NEW p \in Observed PROVE Rebuilt(p, new, moved'[p])
  <2>0. moved[p] \in Nat /\ Rebuilt(p, log, moved[p])
    BY <1>0, <1>12
  <2>1. CASE p = o
    <3>1. StateRow(new[Len(log) + 1], p) /\ new[Len(log) + 1].dst = moved[p] + 1 /\ moved'[p] = moved[p] + 1
      BY <1>0, <1>2, <1>6, <1>9, <2>1 DEF StateRow
    <3>2. /\ log \in Seq(BusRow) /\ new \in Seq(BusRow) /\ Len(new) = Len(log) + 1
          /\ \A i \in 1..Len(log) : new[i] = log[i]
      BY <1>0, <1>9
    <3>3. Rebuilt(p, new, moved[p] + 1)
      BY <2>0, <3>1, <3>2, RebuiltGrows
    <3> QED
      BY <3>1, <3>3
  <2>2. CASE p # o
    <3>1. ~StateRow(new[Len(log) + 1], p) /\ moved'[p] = moved[p]
      BY <1>0, <1>2, <1>6, <1>9, <2>2 DEF StateRow
    <3>2. QED
      BY <1>0, <1>9, <2>0, <3>1, RebuiltKeeps
  <2>3. QED
    BY <2>1, <2>2
<1>14. Preceded(new)
  <2>1. new[Len(log) + 1].id[1] # "subtask"
    BY <1>2, <1>9
  <2>2. QED
    BY <1>0, <1>9, <1>12, <2>1, PrecededKeeps
<1>15. \E j \in DOMAIN log' : log'[j].id[1] = "state" /\ log'[j].about = o
  <2>1. Len(log) + 1 \in DOMAIN new
    BY <1>0, <1>9
  <2>2. QED
    BY <1>2, <1>5, <1>9, <2>1
<1>16. QED
  BY <1>5, <1>10, <1>11, <1>13, <1>14, <1>15, SkeletonForm

\* A page and a subscriber that do nothing keep what they have.
LEMMA ReadersKeep ==
  ASSUME BusInv, UNCHANGED <<stream, page>>, LogGrew
  PROVE  StreamOK' /\ PageOK'
<1>1. StreamOK'
  BY DEF BusInv, StreamOK
<1>2. ASSUME NEW i \in 1..Len(page.rows) PROVE page.rows[i] <= Len(log')
  <2>1. page.rows[i] <= Len(log) /\ page.rows[i] \in Nat
    BY DEF BusInv, PageOK, Consecutive
  <2>2. QED
    BY <2>1 DEF LogGrew
<1>3. PageOK'
  BY <1>2 DEF BusInv, PageOK
<1>4. QED
  BY <1>1, <1>3

\* The emitter after a step that lets the log grow.
LEMMA EmitterKeeps ==
  ASSUME BusInv, LogGrew, DOMAIN emitter' = {"seq", "todo", "sending", "health"}, emitter'.seq = emitter.seq,
         \A e \in emitter'.todo : e \in emitter.todo \/ EventOf(e, log'),
         emitter'.sending \subseteq emitter.sending
  PROVE  EmitterOK'
<1>1. ASSUME NEW s \in emitter'.sending
      PROVE  EventOf(s.event, log') /\ s.id \in {s.event.kind} \X {s.event.anchor} \X Nat
  BY DEF BusInv, EmitterOK, LogGrew
<1>2. ASSUME NEW e \in emitter'.todo PROVE EventOf(e, log')
  BY DEF BusInv, EmitterOK, LogGrew
<1>3. QED
  BY <1>1, <1>2 DEF BusInv, EmitterOK

\* The producers: transitions, the emitter and the publish ingress.
LEMMA TransitionStep == ASSUME BusInv, NEW o \in Observed, Transition(o) PROVE BusInv'
<1>1. LogOK' /\ SkeletonRebuilds' /\ LogGrew /\ \E j \in DOMAIN log' : log'[j].id[1] = "state" /\ log'[j].about = o
  BY TransitionRow
<1>2. EventOf(Rich(o), log')
  <2>1. ObservedTier[o] \in DOMAIN Strictness /\ TierGatedFreeText(o) \in BusText
    BY BusTypes DEF TierGatedFreeText, BusText
  <2>2. PICK e : e = Rich(o)
    OBVIOUS
  <2>3. e \in RichEvent /\ e.kind = "subtask" /\ e.anchor = o /\ e.text = TierGatedFreeText(o)
    BY <2>1, <2>2 DEF Rich, RichEvent
  <2>4. EventOf(e, log')
    BY <1>1, <2>3 DEF EventOf
  <2>5. QED
    BY <2>2, <2>4
<1>3. emitter' = [emitter EXCEPT !.todo = emitter.todo \cup {Rich(o)}] /\ UNCHANGED <<stream, page>>
  BY DEF Transition
<1>4. /\ DOMAIN emitter' = {"seq", "todo", "sending", "health"} /\ emitter'.seq = emitter.seq
      /\ emitter'.todo = emitter.todo \cup {Rich(o)} /\ emitter'.sending = emitter.sending
  BY <1>3 DEF BusInv, EmitterOK
<1>5. EmitterOK'
  BY <1>1, <1>2, <1>4, EmitterKeeps
<1>6. QED
  BY <1>1, <1>3, <1>5, ReadersKeep DEF BusInv

\* Nothing of the log changes.
LEMMA LogKept ==
  ASSUME BusInv, UNCHANGED <<log, moved>>
  PROVE  LogOK' /\ SkeletonRebuilds' /\ LogGrew
<1>1. LogOK' /\ SkeletonRebuilds'
  BY DEF BusInv, LogOK, SkeletonRebuilds
<1>2. Len(log) \in Nat
  BY DEF BusInv, LogOK
<1>3. QED
  BY <1>1, <1>2 DEF LogGrew

\* observe numbers an event and hands it to the provider.
LEMMA ObserveEventStep == ASSUME BusInv, NEW e \in emitter.todo, ObserveEvent(e) PROVE BusInv'
<1>1. LogOK' /\ SkeletonRebuilds' /\ LogGrew /\ StreamOK' /\ PageOK'
  BY LogKept, ReadersKeep DEF ObserveEvent
<1>a. emitter.seq + 1 \in Nat
  BY DEF BusInv, EmitterOK
<1>2. PICK n : n = emitter.seq + 1 /\ n \in Nat
  BY <1>a
<1>3. PICK s : s = [id |-> <<e.kind, e.anchor, n>>, event |-> e]
  OBVIOUS
<1>4. s.event = e /\ s.id = <<e.kind, e.anchor, n>>
  BY <1>3
<1>5. emitter' = [emitter EXCEPT !.seq = n, !.todo = emitter.todo \ {e}, !.sending = emitter.sending \cup {s}]
      /\ log' = log
  BY <1>2, <1>3 DEF ObserveEvent
<1>6. /\ DOMAIN emitter' = {"seq", "todo", "sending", "health"} /\ emitter'.seq = n
      /\ emitter'.todo = emitter.todo \ {e} /\ emitter'.sending = emitter.sending \cup {s}
  BY <1>5 DEF BusInv, EmitterOK
<1>7. EventOf(e, log)
  BY DEF BusInv, EmitterOK
<1>8. s.id \in {s.event.kind} \X {s.event.anchor} \X Nat
  BY <1>2, <1>4
<1>9. EmitterOK'
  BY <1>4, <1>5, <1>6, <1>7, <1>8 DEF BusInv, EmitterOK
<1>10. QED
  BY <1>1, <1>9 DEF BusInv

\* The provider appends an event, or raises and nobody hears of it.
LEMMA AppendEventStep ==
  ASSUME BusInv, NEW s \in emitter.sending, NEW ok \in BOOLEAN, AppendEvent(s, ok)
  PROVE  BusInv'
<1>1. EventOf(s.event, log) /\ s.id \in {s.event.kind} \X {s.event.anchor} \X Nat /\ s.event \in RichEvent
  BY DEF BusInv, EmitterOK, EventOf
<1>2. PICK e : e = s.event
  OBVIOUS
<1>3. PICK k : k = s.id
  OBVIOUS
<1>4. k[1] = e.kind /\ k[2] = e.anchor /\ k[3] \in Nat /\ k = <<e.kind, e.anchor, k[3]>>
  BY <1>1, <1>2, <1>3
<1>5. PICK r : r = Row(k, e.anchor, 0, e.text, "agentconnect")
  OBVIOUS
<1>6. r.id = k /\ r.about = e.anchor /\ r.text = e.text
  BY <1>5 DEF Row
<1>7. e.kind \in BusKind /\ e.anchor \in Observed \cup {"orphan"} /\ e.text \in BusText
  BY <1>1, <1>2 DEF RichEvent, BusKind
<1>8. k \in BusKind \X (Observed \cup PublishId \cup {"orphan"}) \X Nat
  BY <1>4, <1>7
<1>9. r \in BusRow
  BY <1>5, <1>7, <1>8 DEF Row, BusRow
<1>10. RowOf(r, Len(log) + 1) /\ r.id[1] # "state"
       /\ (r.id[1] = "subtask" => \E j \in DOMAIN log : StateRow(log[j], r.about))
  BY <1>1, <1>2, <1>4, <1>6, BusTypes DEF RowOf, EventOf, StateRow
<1>11. LogOK' /\ SkeletonRebuilds' /\ LogGrew
  <2>1. CASE ok
    <3>1. log' = InsertEventRow(r) /\ moved' = moved
      BY <1>2, <1>3, <1>5, <2>1 DEF AppendEvent, Isolated, AppendBusEvent
    <3>2. QED
      BY <1>9, <1>10, <3>1, PlainRow
  <2>2. CASE ~ok
    BY <2>2, LogKept DEF AppendEvent, Isolated
  <2>3. QED
    BY <2>1, <2>2
<1>12. emitter' = [emitter EXCEPT !.sending = emitter.sending \ {s}] /\ UNCHANGED <<stream, page>>
  BY DEF AppendEvent
<1>13. /\ DOMAIN emitter' = {"seq", "todo", "sending", "health"} /\ emitter'.seq = emitter.seq
       /\ emitter'.todo = emitter.todo /\ emitter'.sending \subseteq emitter.sending
  BY <1>12 DEF BusInv, EmitterOK
<1>14. EmitterOK'
  BY <1>11, <1>13, EmitterKeeps
<1>15. QED
  BY <1>11, <1>12, <1>14, ReadersKeep DEF BusInv

\* A change of a component's health becomes an event.
LEMMA HealthStep == ASSUME BusInv, NEW status \in HealthStatus, NoteComponentHealth(status) PROVE BusInv'
<1>1. LogOK' /\ SkeletonRebuilds' /\ LogGrew /\ StreamOK' /\ PageOK' /\ log' = log
  BY LogKept, ReadersKeep DEF NoteComponentHealth
<1>2. PICK e : e = [kind |-> status, anchor |-> "orphan", text |-> "none"]
  OBVIOUS
<1>3. EventOf(e, log')
  BY <1>2 DEF EventOf, RichEvent, BusText
<1>4. /\ emitter'.todo \subseteq emitter.todo \cup {e} /\ emitter'.sending = emitter.sending
      /\ DOMAIN emitter' = {"seq", "todo", "sending", "health"} /\ emitter'.seq = emitter.seq
  <2>1. PICK t : t = IF emitter.health # status /\ ~(emitter.health = "unknown" /\ status = "ok")
                     THEN emitter.todo \cup {e} ELSE emitter.todo
    OBVIOUS
  <2>2. emitter' = [emitter EXCEPT !.health = status, !.todo = t]
    BY <1>2, <2>1 DEF NoteComponentHealth
  <2>3. /\ emitter'.todo = t /\ DOMAIN emitter' = {"seq", "todo", "sending", "health"} /\ emitter'.seq = emitter.seq
        /\ emitter'.sending = emitter.sending
    BY <2>2 DEF BusInv, EmitterOK
  <2>4. t \subseteq emitter.todo \cup {e}
    BY <2>1
  <2>5. QED
    BY <2>3, <2>4
<1>5. EmitterOK'
  BY <1>1, <1>3, <1>4, EmitterKeeps
<1>6. QED
  BY <1>1, <1>5 DEF BusInv

\* Another product publishes, its payload redacted again.
LEMMA PublishStep ==
  ASSUME BusInv, NEW id \in PublishId, NEW tier \in PublishTier, PublishEvent(id, tier)
  PROVE  BusInv'
<1>1. PICK r : r = Row(<<"publish", id, 0>>, tier, 0, RedactIngestedPayload(tier), "brainconnect")
  OBVIOUS
<1>2. r.id = <<"publish", id, 0>> /\ r.about = tier /\ r.text = RedactIngestedPayload(tier)
  BY <1>1 DEF Row
<1>3. r.id[1] = "publish"
  BY <1>2
<1>4. r \in BusRow
  <2>1. RedactIngestedPayload(tier) \in BusText
    BY DEF RedactIngestedPayload, BusText
  <2>2. QED
    BY <1>1, <2>1 DEF Row, BusRow, BusKind
<1>5. RowOf(r, Len(log) + 1)
  BY <1>2, <1>3 DEF RowOf
<1>6. log' = InsertEventRow(r) /\ UNCHANGED <<moved, emitter, stream, page>>
  BY <1>1 DEF PublishEvent, Ingest, Ingested, AppendBusEvent
<1>7. LogOK' /\ SkeletonRebuilds' /\ LogGrew
  BY <1>3, <1>4, <1>5, <1>6, PlainRow
<1>8. EmitterOK'
  <2>1. DOMAIN emitter' = {"seq", "todo", "sending", "health"}
    BY <1>6 DEF BusInv, EmitterOK
  <2>2. QED
    BY <1>6, <1>7, <2>1, EmitterKeeps
<1>9. QED
  BY <1>6, <1>7, <1>8, ReadersKeep DEF BusInv

\* The rows a read returns follow the one it asks after, and are in the log.
LEMMA ReadRows ==
  ASSUME LogOK, NEW since \in Nat, NEW s, s = ListBusEvents(since)
  PROVE  Consecutive(s, since) /\ \A i \in 1..Len(s) : s[i] <= Len(log)
<1>1. Len(log) \in Nat
  BY DEF LogOK
<1>2. PICK room : room = IF Len(log) > since THEN Len(log) - since ELSE 0
  OBVIOUS
<1>3. room \in Nat /\ (room # 0 => room = Len(log) - since)
  BY <1>1, <1>2
<1>4. PICK n : n = Min({Page, room})
  OBVIOUS
<1>5. n \in Nat /\ n <= room
  <2>1. Page \in Nat
    BY BusTypes
  <2>2. \E m \in {Page, room} : \A k \in {Page, room} : m <= k
    BY <1>3, <2>1
  <2>3. n \in {Page, room} /\ \A k \in {Page, room} : n <= k
    BY <1>4, <2>2 DEF Min
  <2>4. QED
    BY <1>3, <2>1, <2>3
<1>6. s = [i \in 1..n |-> since + i]
  BY <1>2, <1>4 DEF ListBusEvents
<1>7. s \in Seq(Nat) /\ Len(s) = n /\ \A i \in 1..n : s[i] = since + i
  <2>1. \A i \in 1..n : since + i \in Nat
    BY <1>5
  <2>2. QED
    BY <1>5, <1>6, <2>1
<1>8. ASSUME NEW i \in 1..n PROVE s[i] <= Len(log)
  BY <1>1, <1>3, <1>5, <1>7
<1>9. QED
  BY <1>7, <1>8 DEF Consecutive

\* Nothing has been read.
LEMMA NothingRead ==
  ASSUME NEW from, NEW s, s = <<>>
  PROVE  Consecutive(s, from) /\ Len(s) = 0
BY DEF Consecutive

\* The invariant from the one reader that moved.
LEMMA ReaderStep ==
  ASSUME BusInv, UNCHANGED <<moved, log, emitter>>, StreamOK', PageOK'
  PROVE  BusInv'
<1>1. LogOK' /\ SkeletonRebuilds'
  BY LogKept
<1>2. EmitterOK'
  BY DEF BusInv, EmitterOK
<1>3. QED
  BY <1>1, <1>2 DEF BusInv

\* A page is kept when nothing of the log changes.
LEMMA PageKept == ASSUME BusInv, UNCHANGED <<log, page>> PROVE PageOK'
BY DEF BusInv, PageOK

\* A subscription resumes after the last row received, or starts at the tail.
LEMMA StreamEventsStep == ASSUME BusInv, StreamEvents PROVE BusInv'
<1>1. UNCHANGED <<moved, log, emitter, page>> /\ PageOK'
  BY PageKept DEF StreamEvents
<1>2. /\ DOMAIN stream = {"on", "start", "cursor", "batch", "got"} /\ stream.start \in Nat
      /\ stream.got \in Seq(Nat) /\ Len(stream.got) \in Nat
      /\ \A i \in 1..Len(stream.got) : stream.got[i] = stream.start + i
      /\ stream.batch = <<>> /\ Len(log) \in Nat
  BY DEF BusInv, StreamOK, LogOK, Consecutive, StreamEvents
<1>3. PICK new : new = stream'
  OBVIOUS
<1>4. CASE stream.got # <<>>
  <2>1. new = [stream EXCEPT !.on = TRUE, !.cursor = Last(stream.got)]
    BY <1>3, <1>4 DEF StreamEvents
  <2>2. Len(stream.got) > 0
    BY <1>2, <1>4
  <2>3. Last(stream.got) = stream.start + Len(stream.got)
    BY <1>2, <2>2 DEF Last
  <2>4. /\ DOMAIN new = {"on", "start", "cursor", "batch", "got"} /\ new.on = TRUE /\ new.start = stream.start
        /\ new.cursor = stream.start + Len(stream.got) /\ new.batch = stream.batch /\ new.got = stream.got
    BY <1>2, <2>1, <2>3
  <2>5. new.cursor \in Nat /\ Consecutive(new.batch, new.cursor) /\ Consecutive(new.got, new.start)
    BY <1>2, <2>4, NothingRead DEF Consecutive
  <2>6. StreamOK'
    BY <1>2, <1>3, <2>4, <2>5 DEF StreamOK
  <2>7. QED
    BY <1>1, <2>6, ReaderStep
<1>5. CASE stream.got = <<>>
  <2>1. new = [stream EXCEPT !.on = TRUE, !.cursor = Len(log), !.start = Len(log)]
    BY <1>3, <1>5 DEF StreamEvents, LatestBusSeq
  <2>2. /\ DOMAIN new = {"on", "start", "cursor", "batch", "got"} /\ new.on = TRUE /\ new.start = Len(log)
        /\ new.cursor = Len(log) /\ new.batch = <<>> /\ new.got = <<>>
    BY <1>2, <1>5, <2>1
  <2>3. Consecutive(new.batch, new.cursor) /\ Consecutive(new.got, new.start) /\ Len(new.got) = 0
    BY <2>2, NothingRead
  <2>4. new.cursor = new.start + Len(new.got)
    BY <1>2, <2>2, <2>3
  <2>5. StreamOK'
    BY <1>2, <1>3, <2>2, <2>3, <2>4 DEF StreamOK
  <2>6. QED
    BY <1>1, <2>5, ReaderStep
<1>6. QED
  BY <1>4, <1>5

\* The server reads a batch after its cursor.
LEMMA SseFetchStep == ASSUME BusInv, SseFetch PROVE BusInv'
<1>1. UNCHANGED <<moved, log, emitter, page>> /\ PageOK'
  BY PageKept DEF SseFetch
<1>2. LogOK /\ DOMAIN stream = {"on", "start", "cursor", "batch", "got"} /\ stream.cursor \in Nat
  BY DEF BusInv, StreamOK
<1>3. PICK batch : batch = ListBusEvents(stream.cursor)
  OBVIOUS
<1>4. Consecutive(batch, stream.cursor)
  BY <1>2, <1>3, ReadRows
<1>5. PICK new : new = stream'
  OBVIOUS
<1>6. new = [stream EXCEPT !.batch = batch]
  BY <1>3, <1>5 DEF SseFetch
<1>7. /\ DOMAIN new = {"on", "start", "cursor", "batch", "got"} /\ new.on = stream.on /\ new.start = stream.start
      /\ new.cursor = stream.cursor /\ new.batch = batch /\ new.got = stream.got
  BY <1>2, <1>6
<1>8. StreamOK'
  BY <1>4, <1>5, <1>7 DEF BusInv, StreamOK, SseFetch
<1>9. QED
  BY <1>1, <1>8, ReaderStep

\* One row is sent, and received.
LEMMA SseYieldStep == ASSUME BusInv, SseYield PROVE BusInv'
<1>1. UNCHANGED <<moved, log, emitter, page>> /\ PageOK'
  BY PageKept DEF SseYield
<1>2. /\ DOMAIN stream = {"on", "start", "cursor", "batch", "got"} /\ stream.on = TRUE
      /\ stream.start \in Nat /\ stream.cursor \in Nat
      /\ stream.got \in Seq(Nat) /\ \A i \in 1..Len(stream.got) : stream.got[i] = stream.start + i
      /\ stream.batch \in Seq(Nat) /\ \A i \in 1..Len(stream.batch) : stream.batch[i] = stream.cursor + i
      /\ stream.cursor = stream.start + Len(stream.got) /\ stream.batch # <<>>
  BY DEF BusInv, StreamOK, Consecutive, SseYield
<1>3. Len(stream.got) \in Nat /\ Len(stream.batch) \in Nat /\ Len(stream.batch) > 0
  BY <1>2
<1>4. PICK h : h = Head(stream.batch)
  OBVIOUS
<1>5. PICK t : t = Tail(stream.batch)
  OBVIOUS
<1>6. PICK g : g = Append(stream.got, h)
  OBVIOUS
<1>7. h = stream.cursor + 1 /\ h \in Nat
  <2>1. 1 \in 1..Len(stream.batch)
    BY <1>3
  <2>2. h = stream.batch[1]
    BY <1>2, <1>4
  <2>3. h = stream.cursor + 1
    BY <1>2, <2>1, <2>2
  <2>4. QED
    BY <1>2, <2>3
<1>8. Consecutive(t, h)
  <2>1. t \in Seq(Nat) /\ Len(t) = Len(stream.batch) - 1 /\ \A i \in 1..Len(t) : t[i] = stream.batch[i + 1]
    BY <1>2, <1>3, <1>5
  <2>2. ASSUME NEW i \in 1..Len(t) PROVE t[i] = h + i
    <3>1. i + 1 \in 1..Len(stream.batch) /\ i \in Nat
      BY <1>3, <2>1
    <3>2. t[i] = stream.cursor + (i + 1)
      BY <1>2, <2>1, <3>1
    <3>3. QED
      BY <1>2, <1>7, <3>1, <3>2
  <2>3. QED
    BY <2>1, <2>2 DEF Consecutive
<1>9. Consecutive(g, stream.start) /\ Len(g) = Len(stream.got) + 1
  <2>1. /\ g \in Seq(Nat) /\ Len(g) = Len(stream.got) + 1 /\ g[Len(stream.got) + 1] = h
        /\ \A i \in 1..Len(stream.got) : g[i] = stream.got[i]
    BY <1>2, <1>3, <1>6, <1>7
  <2>2. ASSUME NEW i \in 1..Len(g) PROVE g[i] = stream.start + i
    <3>1. CASE i = Len(stream.got) + 1
      BY <1>2, <1>3, <1>7, <2>1, <3>1
    <3>2. CASE i # Len(stream.got) + 1
      <4>1. i \in 1..Len(stream.got)
        BY <1>3, <2>1, <3>2
      <4>2. QED
        BY <1>2, <2>1, <4>1
    <3>3. QED
      BY <3>1, <3>2
  <2>3. QED
    BY <2>1, <2>2 DEF Consecutive
<1>10. PICK new : new = stream'
  OBVIOUS
<1>11. PICK fr : fr = Framed
  OBVIOUS
<1>12. fr = [stream EXCEPT !.cursor = h, !.batch = t] /\ new = [fr EXCEPT !.got = Append(fr.got, h)]
  BY <1>4, <1>5, <1>10, <1>11 DEF Framed, SseYield
<1>13. /\ DOMAIN fr = {"on", "start", "cursor", "batch", "got"} /\ fr.on = TRUE /\ fr.start = stream.start
       /\ fr.cursor = h /\ fr.batch = t /\ fr.got = stream.got
  BY <1>2, <1>12
<1>14. /\ DOMAIN new = {"on", "start", "cursor", "batch", "got"} /\ new.on = TRUE /\ new.start = stream.start
       /\ new.cursor = h /\ new.batch = t /\ new.got = g
  BY <1>6, <1>12, <1>13
<1>15. h = stream.start + Len(g)
  BY <1>2, <1>3, <1>7, <1>9
<1>16. StreamOK'
  BY <1>2, <1>7, <1>8, <1>9, <1>10, <1>14, <1>15 DEF StreamOK
<1>17. QED
  BY <1>1, <1>16, ReaderStep

\* A connection ends: nothing fetched is kept.
LEMMA StreamEnds ==
  ASSUME BusInv, stream' = [stream EXCEPT !.on = FALSE, !.batch = <<>>]
  PROVE  StreamOK'
<1>1. DOMAIN stream = {"on", "start", "cursor", "batch", "got"}
  BY DEF BusInv, StreamOK
<1>2. PICK new : new = stream'
  OBVIOUS
<1>3. /\ DOMAIN new = {"on", "start", "cursor", "batch", "got"} /\ new.on = FALSE /\ new.start = stream.start
      /\ new.cursor = stream.cursor /\ new.batch = <<>> /\ new.got = stream.got
  BY <1>1, <1>2
<1>4. Consecutive(new.batch, new.cursor)
  BY <1>3, NothingRead
<1>5. QED
  BY <1>2, <1>3, <1>4 DEF BusInv, StreamOK

\* The subscriber disconnects.
LEMMA DisconnectStep == ASSUME BusInv, Disconnect PROVE BusInv'
<1>1. UNCHANGED <<moved, log, emitter, page>> /\ PageOK'
  BY PageKept DEF Disconnect
<1>2. StreamOK'
  BY StreamEnds DEF Disconnect
<1>3. QED
  BY <1>1, <1>2, ReaderStep

\* The page polls: the rows after the last one it caught up with.
LEMMA PollListStep == ASSUME BusInv, PollList PROVE BusInv'
<1>1. UNCHANGED <<moved, log, emitter, stream>> /\ StreamOK'
  BY DEF PollList, PageStep, BusInv, StreamOK
<1>2. LogOK /\ DOMAIN page = {"phase", "last", "rows", "ticks", "tree"} /\ page.last \in Nat
  BY DEF BusInv, PageOK
<1>3. PICK rows : rows = ListBusEvents(page.last)
  OBVIOUS
<1>4. Consecutive(rows, page.last) /\ \A i \in 1..Len(rows) : rows[i] <= Len(log)
  BY <1>2, <1>3, ReadRows
<1>5. PICK new : new = page'
  OBVIOUS
<1>6. new = [page EXCEPT !.phase = "listed", !.rows = rows]
  BY <1>3, <1>5 DEF PollList, PageStep
<1>7. /\ DOMAIN new = {"phase", "last", "rows", "ticks", "tree"} /\ new.phase = "listed" /\ new.last = page.last
      /\ new.rows = rows /\ new.ticks = page.ticks
  BY <1>2, <1>6
<1>8. PageOK'
  BY <1>1, <1>4, <1>5, <1>7 DEF BusInv, PageOK
<1>9. QED
  BY <1>1, <1>8, ReaderStep

\* A page that drops what it listed and moves its cursor no further than it may.
LEMMA PageMoves ==
  ASSUME BusInv, UNCHANGED <<moved, log, emitter, stream>>,
         NEW new, page' = new,
         DOMAIN new = {"phase", "last", "rows", "ticks", "tree"}, new.last \in Nat, new.last >= page.last,
         new.phase \in {"poll", "tree", "shown", "closed"}, new.rows = <<>>,
         new.ticks = page.ticks
  PROVE  BusInv'
<1>1. StreamOK'
  BY DEF BusInv, StreamOK
<1>2. page.last \in Nat /\ page.ticks \in Seq(Nat) /\ \A i \in 1..Len(page.ticks) : page.ticks[i] <= page.last
  BY DEF BusInv, PageOK
<1>3. ASSUME NEW i \in 1..Len(page.ticks) PROVE page.ticks[i] <= new.last
  <2>1. page.ticks[i] \in Nat /\ page.ticks[i] <= page.last
    BY <1>2
  <2>2. QED
    BY <1>2, <2>1
<1>4. Consecutive(new.rows, new.last) /\ Len(new.rows) = 0
  BY NothingRead
<1>5. \A i \in 1..Len(new.rows) : new.rows[i] <= Len(log')
  BY <1>4
<1>6. PageOK'
  BY <1>3, <1>4, <1>5 DEF BusInv, PageOK
<1>7. QED
  BY <1>1, <1>6, ReaderStep

\* The latest seq, when it is read, is at or after the page's cursor.
LEMMA CaughtUp ==
  ASSUME BusInv
  PROVE  Caught \in Nat /\ Caught >= page.last /\ Caught >= Len(log) /\ page.last \in Nat /\ Len(log) \in Nat
<1>1. page.last \in Nat /\ Len(log) \in Nat
  BY DEF BusInv, LogOK, PageOK
<1>2. \E m \in {page.last, Len(log)} : \A k \in {page.last, Len(log)} : m >= k
  BY <1>1
<1>3. Caught \in {page.last, Len(log)} /\ \A k \in {page.last, Len(log)} : Caught >= k
  BY <1>2 DEF Caught, Max, LatestBusSeq
<1>4. QED
  BY <1>1, <1>3

UpTo(s, n) == \A i \in 1..Len(s) : s[i] <= n

\* A number up to the cursor is below one after it.
LEMMA BelowNext == ASSUME NEW x \in Nat, NEW last \in Nat, NEW d \in Nat, x <= last, d >= 1 PROVE x < last + d
OBVIOUS

\* What is shown increases: the rows of a poll follow the cursor behind which
\* everything shown before lies.
LEMMA ShownInOrder ==
  ASSUME NEW t \in Seq(Nat), NEW r \in Seq(Nat), NEW last \in Nat, NEW top \in Nat, NEW all, all = t \o r,
         Increasing(t), UpTo(t, last), Consecutive(r, last), UpTo(r, top)
  PROVE  all \in Seq(Nat) /\ Increasing(all) /\ \A i \in 1..Len(all) : all[i] <= last \/ all[i] <= top
<1>1. PICK a \in Nat : a = Len(t)
  OBVIOUS
<1>2. PICK b \in Nat : b = Len(r)
  OBVIOUS
<1>3. DOMAIN t = 1..a
  BY <1>1
<1>4. all \in Seq(Nat)
  BY ConcatProperties
<1>5. Len(all) = a + b
  BY <1>1, <1>2, ConcatProperties
<1>6. \A i \in 1..(a + b) : all[i] = IF i <= a THEN t[i] ELSE r[i - a]
  BY <1>1, <1>2, ConcatProperties
<1>7. DOMAIN all = 1..(a + b)
  BY <1>4, <1>5
<1>8. ASSUME NEW i \in 1..(a + b), i <= a PROVE i \in 1..a /\ all[i] = t[i] /\ t[i] \in Nat /\ t[i] <= last
  <2>1. i \in 1..a
    BY <1>8
  <2>2. all[i] = t[i]
    BY <1>6, <1>8
  <2>3. t[i] \in Nat /\ t[i] <= last
    BY <1>1, <2>1 DEF UpTo
  <2>4. QED
    BY <2>1, <2>2, <2>3
<1>9. ASSUME NEW i \in 1..(a + b), ~(i <= a) PROVE all[i] = last + (i - a) /\ all[i] <= top
  <2>1. i - a \in 1..b
    BY <1>9
  <2>2. all[i] = r[i - a]
    BY <1>6, <1>9
  <2>3. QED
    BY <1>2, <2>1, <2>2 DEF UpTo, Consecutive
<1>10. ASSUME NEW i \in 1..(a + b), NEW j \in 1..(a + b), i < j PROVE all[i] < all[j]
  <2>1. CASE j <= a
    <3>1. i <= a
      BY <1>10, <2>1
    <3>2. i \in DOMAIN t /\ j \in DOMAIN t /\ all[i] = t[i] /\ all[j] = t[j]
      BY <1>3, <1>8, <2>1, <3>1
    <3>3. QED
      BY <1>10, <3>2 DEF Increasing
  <2>2. CASE ~(j <= a) /\ i <= a
    <3>1. all[i] \in Nat /\ all[i] <= last /\ all[j] = last + (j - a)
      BY <1>8, <1>9, <2>2
    <3>2. PICK d \in Nat : d = j - a /\ d >= 1
      BY <2>2
    <3>3. PICK x \in Nat : x = all[i] /\ x <= last
      BY <3>1
    <3>4. x < last + d
      BY <3>2, <3>3, BelowNext
    <3>5. QED
      BY <3>1, <3>2, <3>3, <3>4
  <2>3. CASE ~(j <= a) /\ ~(i <= a)
    <3>1. all[i] = last + (i - a) /\ all[j] = last + (j - a)
      BY <1>9, <2>3
    <3>2. QED
      BY <1>10, <3>1
  <2>4. QED
    BY <2>1, <2>2, <2>3
<1>11. Increasing(all)
  BY <1>7, <1>10 DEF Increasing
<1>12. QED
  BY <1>4, <1>5, <1>8, <1>9, <1>11

\* The rows are shown after the ones before them.
LEMMA PollLatestStep == ASSUME BusInv, PollLatest PROVE BusInv'
<1>1. UNCHANGED <<moved, log, emitter, stream>> /\ StreamOK'
  BY DEF PollLatest, PageStep, BusInv, StreamOK
<1>2. /\ DOMAIN page = {"phase", "last", "rows", "ticks", "tree"} /\ page.last \in Nat
      /\ page.rows \in Seq(Nat) /\ \A i \in 1..Len(page.rows) : page.rows[i] = page.last + i
      /\ \A i \in 1..Len(page.rows) : page.rows[i] <= Len(log)
      /\ page.ticks \in Seq(Nat) /\ Increasing(page.ticks)
      /\ \A i \in 1..Len(page.ticks) : page.ticks[i] <= page.last
  BY DEF BusInv, PageOK, Consecutive
<1>3. Len(page.rows) \in Nat /\ Len(page.ticks) \in Nat /\ DOMAIN page.ticks = 1..Len(page.ticks)
  BY <1>2
<1>4. Caught \in Nat /\ Caught >= page.last /\ Caught >= Len(log) /\ Len(log) \in Nat
  BY CaughtUp
<1>5. PICK ticks : ticks = page.ticks \o page.rows
  OBVIOUS
<1>6. ticks \in Seq(Nat) /\ Increasing(ticks) /\ \A i \in 1..Len(ticks) : ticks[i] <= page.last \/ ticks[i] <= Len(log)
  <2>1. page.ticks \in Seq(Nat) /\ page.rows \in Seq(Nat) /\ page.last \in Nat /\ Len(log) \in Nat /\ Increasing(page.ticks)
    BY <1>2, <1>4
  <2>2. UpTo(page.ticks, page.last) /\ Consecutive(page.rows, page.last) /\ UpTo(page.rows, Len(log))
    BY <1>2 DEF UpTo, Consecutive
  <2>3. PICK t \in Seq(Nat) : t = page.ticks
    BY <2>1
  <2>4. PICK r \in Seq(Nat) : r = page.rows
    BY <2>1
  <2>5. PICK last \in Nat : last = page.last
    BY <2>1
  <2>6. PICK top \in Nat : top = Len(log)
    BY <2>1
  <2>7. ticks = t \o r /\ Increasing(t) /\ UpTo(t, last) /\ Consecutive(r, last) /\ UpTo(r, top)
    BY <1>5, <2>1, <2>2, <2>3, <2>4, <2>5, <2>6, Zenon
  <2>8. ticks \in Seq(Nat) /\ Increasing(ticks) /\ \A i \in 1..Len(ticks) : ticks[i] <= last \/ ticks[i] <= top
    BY <2>7, ShownInOrder, Zenon
  <2>9. QED
    BY <2>5, <2>6, <2>8, Zenon
<1>9. ASSUME NEW i \in 1..Len(ticks) PROVE ticks[i] <= Caught
  <2>1. ticks[i] \in Nat /\ (ticks[i] <= page.last \/ ticks[i] <= Len(log))
    BY <1>6
  <2>2. QED
    BY <1>2, <1>4, <2>1
<1>10. PICK new : new = page'
  OBVIOUS
<1>11. PICK ph : ph = IF Refreshes THEN "tree" ELSE "poll"
  OBVIOUS
<1>12. new = [page EXCEPT !.last = Caught, !.ticks = ticks, !.rows = <<>>, !.phase = ph] /\ ph \in {"tree", "poll"}
  BY <1>5, <1>10, <1>11 DEF PollLatest, PageStep
<1>13. /\ DOMAIN new = {"phase", "last", "rows", "ticks", "tree"} /\ new.phase = ph /\ new.last = Caught
       /\ new.rows = <<>> /\ new.ticks = ticks
  BY <1>2, <1>12
<1>14. Consecutive(new.rows, new.last) /\ Len(new.rows) = 0
  BY <1>13, NothingRead
<1>15. \A i \in 1..Len(new.rows) : new.rows[i] <= Len(log')
  BY <1>14
<1>16. PageOK'
  BY <1>4, <1>6, <1>9, <1>10, <1>12, <1>13, <1>14, <1>15 DEF PageOK
<1>17. QED
  BY <1>1, <1>16, ReaderStep

\* The other steps of a page show no row.
LEMMA PageSteps == ASSUME BusInv, TreeRead \/ TreeLatest \/ PollFails PROVE BusInv'
<1>0. DOMAIN page = {"phase", "last", "rows", "ticks", "tree"} /\ page.last \in Nat
      /\ (page.phase # "listed" => page.rows = <<>>)
  BY DEF BusInv, PageOK
<1>1. PICK new : new = page'
  OBVIOUS
<1>2. UNCHANGED <<moved, log, emitter, stream>>
  BY DEF TreeRead, TreeLatest, PollFails, PageStep
<1>3. CASE TreeRead
  <2>1. new = [page EXCEPT !.phase = "shown", !.tree = moved] /\ page.rows = <<>>
    BY <1>0, <1>1, <1>3 DEF TreeRead, PageStep
  <2>2. /\ DOMAIN new = {"phase", "last", "rows", "ticks", "tree"} /\ new.phase = "shown" /\ new.last = page.last
        /\ new.rows = <<>> /\ new.ticks = page.ticks
    BY <1>0, <2>1
  <2>3. QED
    BY <1>0, <1>1, <1>2, <2>2, PageMoves
<1>4. CASE TreeLatest
  <2>1. new = [page EXCEPT !.phase = "poll", !.last = Caught] /\ page.rows = <<>>
    BY <1>0, <1>1, <1>4 DEF TreeLatest, PageStep
  <2>2. /\ DOMAIN new = {"phase", "last", "rows", "ticks", "tree"} /\ new.phase = "poll" /\ new.last = Caught
        /\ new.rows = <<>> /\ new.ticks = page.ticks
    BY <1>0, <2>1
  <2>3. QED
    BY <1>0, <1>1, <1>2, <2>2, CaughtUp, PageMoves
<1>5. CASE PollFails
  <2>1. new = [page EXCEPT !.phase = "poll", !.rows = <<>>]
    BY <1>0, <1>1, <1>5 DEF PollFails, PageStep
  <2>2. /\ DOMAIN new = {"phase", "last", "rows", "ticks", "tree"} /\ new.phase = "poll" /\ new.last = page.last
        /\ new.rows = <<>> /\ new.ticks = page.ticks
    BY <1>0, <2>1
  <2>3. QED
    BY <1>0, <1>1, <1>2, <2>2, PageMoves
<1>6. QED
  BY <1>3, <1>4, <1>5

\* A process that starts again has emitted nothing.
LEMMA FreshEmitterOK ==
  ASSUME NEW new, new = FreshEmitter
  PROVE  DOMAIN new = {"seq", "todo", "sending", "health"} /\ new.seq = 0 /\ new.todo = {} /\ new.sending = {}
BY DEF FreshEmitter

\* A restart loses the emitter's events and the readers' connections.
LEMMA RestartStep == ASSUME BusInv, Restart PROVE BusInv'
<1>1. LogOK' /\ SkeletonRebuilds' /\ log' = log
  BY LogKept DEF Restart
<1>2. EmitterOK'
  BY FreshEmitterOK DEF Restart, EmitterOK
<1>3. StreamOK'
  BY StreamEnds DEF Restart
<1>4. PageOK'
  <2>1. CASE page.phase = "closed"
    BY <1>1, <2>1, PageKept DEF Restart
  <2>2. CASE page.phase # "closed"
    <3>0. DOMAIN page = {"phase", "last", "rows", "ticks", "tree"}
      BY DEF BusInv, PageOK
    <3>1. PICK new : new = page'
      OBVIOUS
    <3>2. new = [page EXCEPT !.phase = "poll", !.rows = <<>>]
      BY <2>2, <3>1 DEF Restart
    <3>3. /\ DOMAIN new = {"phase", "last", "rows", "ticks", "tree"} /\ new.phase = "poll" /\ new.last = page.last
          /\ new.rows = <<>> /\ new.ticks = page.ticks
      BY <3>0, <3>2
    <3>4. Consecutive(new.rows, new.last) /\ Len(new.rows) = 0
      BY <3>3, NothingRead
    <3>5. \A i \in 1..Len(new.rows) : new.rows[i] <= Len(log')
      BY <3>4
    <3>6. QED
      BY <3>1, <3>3, <3>4, <3>5 DEF BusInv, PageOK
  <2>3. QED
    BY <2>1, <2>2
<1>5. QED
  BY <1>1, <1>2, <1>3, <1>4 DEF BusInv

\* Nothing has been reported.
LEMMA BusInitially == BusInit => BusInv
<1> SUFFICES ASSUME BusInit PROVE BusInv
  OBVIOUS
<1>1. LogOK /\ log = <<>> /\ moved \in [Observed -> Nat] /\ \A o \in Observed : moved[o] = 0
  BY DEF BusInit, LogOK
<1>2. SkeletonRebuilds
  BY <1>1 DEF SkeletonRebuilds
<1>3. EmitterOK
  BY FreshEmitterOK DEF BusInit, EmitterOK
<1>4. StreamOK
  <2>1. PICK s : s = stream
    OBVIOUS
  <2>2. s = [on |-> FALSE, start |-> 0, cursor |-> 0, batch |-> <<>>, got |-> <<>>]
    BY <2>1 DEF BusInit
  <2>3. /\ DOMAIN s = {"on", "start", "cursor", "batch", "got"} /\ s.on = FALSE /\ s.start = 0 /\ s.cursor = 0
        /\ s.batch = <<>> /\ s.got = <<>>
    BY <2>2
  <2>4. Consecutive(s.batch, s.cursor) /\ Consecutive(s.got, s.start) /\ s.on \in BOOLEAN
    BY <2>3, NothingRead
  <2>5. s.start \in Nat /\ s.cursor \in Nat
    BY <2>3
  <2>6. QED
    BY <2>1, <2>3, <2>4, <2>5, Zenon DEF StreamOK
<1>5. PageOK
  <2>1. PICK p : p = page
    OBVIOUS
  <2>2. p \in [phase : {"poll", "closed"}, last : {0}, rows : {<<>>}, ticks : {<<>>}, tree : {moved}]
    BY <2>1 DEF BusInit
  <2>3. /\ DOMAIN p = {"phase", "last", "rows", "ticks", "tree"} /\ p.phase \in {"poll", "closed"} /\ p.last = 0
        /\ p.rows = <<>> /\ p.ticks = <<>>
    BY <2>2
  <2>4. Consecutive(p.rows, p.last) /\ Len(p.rows) = 0 /\ Len(p.ticks) = 0 /\ p.ticks \in Seq(Nat)
    BY <2>3, NothingRead
  <2>5. Increasing(p.ticks)
    BY <2>3 DEF Increasing
  <2>6. /\ \A i \in 1..Len(p.rows) : p.rows[i] <= Len(log)
        /\ \A i \in 1..Len(p.ticks) : p.ticks[i] <= p.last
    BY <2>4
  <2>7. QED
    BY <2>1, <2>3, <2>4, <2>5, <2>6 DEF PageOK
<1>6. QED
  BY <1>1, <1>2, <1>3, <1>4, <1>5 DEF BusInv

\* Every step of the bus keeps the invariant.
LEMMA BusStep == BusInv /\ [BusNext]_busVars => BusInv'
<1> SUFFICES ASSUME BusInv, [BusNext]_busVars PROVE BusInv'
  OBVIOUS
<1>1. CASE \E o \in Observed : Transition(o)
  BY <1>1, TransitionStep
<1>2. CASE \E e \in emitter.todo : ObserveEvent(e)
  BY <1>2, ObserveEventStep
<1>3. CASE \E s \in emitter.sending, ok \in BOOLEAN : AppendEvent(s, ok)
  BY <1>3, AppendEventStep
<1>4. CASE \E status \in HealthStatus : NoteComponentHealth(status)
  BY <1>4, HealthStep
<1>5. CASE \E id \in PublishId, tier \in PublishTier : PublishEvent(id, tier)
  BY <1>5, PublishStep
<1>6. CASE Restart
  BY <1>6, RestartStep
<1>7. CASE StreamEvents \/ SseFetch \/ SseYield \/ Disconnect
  BY <1>7, StreamEventsStep, SseFetchStep, SseYieldStep, DisconnectStep
<1>8. CASE PollList \/ PollLatest \/ TreeRead \/ TreeLatest \/ PollFails
  BY <1>8, PollListStep, PollLatestStep, PageSteps
<1>9. CASE UNCHANGED busVars
  <2>1. StreamOK' /\ PageOK'
    BY <1>9 DEF busVars, BusInv, StreamOK, PageOK
  <2>2. QED
    BY <1>9, <2>1, ReaderStep DEF busVars
<1>10. QED
  BY <1>1, <1>2, <1>3, <1>4, <1>5, <1>6, <1>7, <1>8, <1>9 DEF BusNext

\* No row carries the text of a subtask or of a foreign event that is withheld.
LEMMA RowsWithheld == ASSUME BusInv PROVE ContentWithheld
<1>1. ASSUME NEW i \in DOMAIN log, log[i].about \in Observed, Strictness[ObservedTier[log[i].about]] >= 3
      PROVE  log[i].text # "text"
  <2>1. RowOf(log[i], i)
    BY DEF BusInv, LogOK
  <2>2. log[i].about \notin PublishTier
    BY <1>1, BusTypes
  <2>3. TierGatedFreeText(log[i].about) = "withheld"
    BY <1>1 DEF TierGatedFreeText
  <2>4. QED
    BY <2>1, <2>2, <2>3 DEF RowOf
<1>2. ASSUME NEW i \in DOMAIN log, log[i].about \in {"local_only", "unparseable"} PROVE log[i].text # "text"
  <2>1. RowOf(log[i], i)
    BY DEF BusInv, LogOK
  <2>2. log[i].about \notin Observed
    BY <1>2, BusTypes
  <2>3. RedactIngestedPayload(log[i].about) = "withheld"
    BY <1>2 DEF RedactIngestedPayload, SafeTier, Strictness
  <2>4. QED
    BY <2>1, <2>2, <2>3 DEF RowOf
<1>3. ASSUME NEW o \in Observed, NEW ok \in BOOLEAN, Strictness[ObservedTier[o]] >= 3
      PROVE  RedactText(o, ok) # "text"
  <2>1. SafeTier(ObservedTier[o]) = ObservedTier[o]
    BY BusTypes DEF SafeTier
  <2>2. QED
    BY <1>3, <2>1 DEF RedactText
<1>4. QED
  BY <1>1, <1>2, <1>3 DEF ContentWithheld

\* What a subscriber received is every row since it subscribed.
LEMMA ReceivedInOrder == ASSUME BusInv PROVE StreamsFaithful
<1>1. ASSUME stream.got # <<>>
      PROVE  stream.got = [i \in 1 .. Last(stream.got) - stream.start |-> stream.start + i]
  <2>1. PICK g : g = stream.got
    OBVIOUS
  <2>2. PICK st : st = stream.start
    OBVIOUS
  <2>3. g \in Seq(Nat) /\ st \in Nat /\ \A i \in 1..Len(g) : g[i] = st + i
    BY <2>1, <2>2 DEF BusInv, StreamOK, Consecutive
  <2>4. Len(g) \in Nat /\ Len(g) > 0 /\ g = [i \in 1..Len(g) |-> g[i]]
    BY <1>1, <2>1, <2>3
  <2>5. Last(g) = st + Len(g)
    BY <2>3, <2>4 DEF Last
  <2>6. Last(g) - st = Len(g)
    BY <2>3, <2>4, <2>5
  <2>7. g = [i \in 1..Len(g) |-> st + i]
    BY <2>3, <2>4
  <2>8. QED
    BY <2>1, <2>2, <2>6, <2>7
<1>2. QED
  BY <1>1 DEF StreamsFaithful, BusInv, PageOK

\* Whatever crashes, disconnects or is published between its reads, a
\* subscriber gets every row since it subscribed once and in order, the
\* state.changed rows rebuild the ledger, and no row carries withheld text.
THEOREM BusStaysSafe == BusSpec => []BusSafe
<1>1. BusInv => BusSafe
  BY RowsWithheld, ReceivedInOrder DEF BusInv, BusSafe
<1>2. QED
  BY <1>1, BusInitially, BusStep, PTL DEF BusSpec


----------------------------------------------------------------------------
(* The context packs.                                                      *)

\* The worst decision stands.
LEMMA StrongestStands ==
  ASSUME NEW D, D \subseteq {"allow", "warn", "redact", "quarantine", "block"}, NEW d \in D
  PROVE  Strongest(D) \in D /\ Severity[d] <= Severity[Strongest(D)]
<1>1. \A e \in D : Severity[e] \in 0..4
  BY DEF Severity
<1>2. \E s \in D : \A e \in D : Severity[e] <= Severity[s]
  <2>1. CASE "block" \in D
    BY <2>1 DEF Severity
  <2>2. CASE "block" \notin D /\ "quarantine" \in D
    BY <2>2 DEF Severity
  <2>3. CASE D \subseteq {"allow", "warn", "redact"} /\ "redact" \in D
    BY <2>3 DEF Severity
  <2>4. CASE D \subseteq {"allow", "warn"} /\ "warn" \in D
    BY <2>4 DEF Severity
  <2>5. CASE D \subseteq {"allow"}
    BY <2>5 DEF Severity
  <2> QED
    BY <2>1, <2>2, <2>3, <2>4, <2>5
<1> QED
  BY <1>2 DEF Strongest

\* A credential that was found is masked where there is a span, and withholds the text
\* where there is none; and a text that is handed on was redacted if one was found.
LEMMA ScanMasks ==
  ASSUME NEW surface, NEW text, NEW state, NEW p \in Scan(surface, text, state).found, MasksSecret(Kind[p])
  PROVE  /\ Scan(surface, text, state).withheld \/ p \notin Scan(surface, text, state).body
         /\ Scan(surface, text, state).withheld \/ Scan(surface, text, state).redacted
         /\ Scan(surface, text, state).withheld <=> Scan(surface, text, state).decision \in {"quarantine", "block"}
<1> DEFINE findings == Findings(surface, text, state)
           D == {FindingDecision(surface, f) : f \in findings} \cup EngineDecisions(surface, state)
           decision == Decide(surface, findings, state)
<1>0. /\ Scan(surface, text, state).decision = decision
      /\ Scan(surface, text, state).withheld <=> decision \in {"quarantine", "block"}
      /\ Scan(surface, text, state).redacted <=> Redacted(decision, findings)
      /\ Scan(surface, text, state).body = Redact(surface, text, findings)
      /\ \E f \in findings : f.passage = p
  BY DEF Scan, Withheld
<1>1. PICK f \in findings : f.passage = p
  BY <1>0
<1>2. f = [passage |-> p, placed |-> TRUE] \/ ~f.placed
  BY <1>1 DEF Findings
<1>3. Rule(surface, Kind[p]) = "redact"
  BY DEF Rule, MasksSecret
<1>4. \A g : FindingDecision(surface, g) \in {"allow", "warn", "redact", "quarantine", "block"}
  <2>1. \A k : Rule(surface, k) \in {"allow", "warn", "redact", "quarantine"}
    BY DEF Rule
  <2> QED
    BY <2>1 DEF FindingDecision
<1>5. D \subseteq {"allow", "warn", "redact", "quarantine", "block"}
  BY <1>4 DEF EngineDecisions, OnScannerError, OnOptionalEngineError
<1>6. FindingDecision(surface, f) \in D /\ decision = Strongest(D)
  BY DEF Decide
<1>7. decision \in D /\ Severity[FindingDecision(surface, f)] <= Severity[decision]
  BY <1>5, <1>6, StrongestStands
<1>8. CASE ~f.placed
  <2>1. FindingDecision(surface, f) = "quarantine"
    BY <1>1, <1>3, <1>8 DEF FindingDecision
  <2>2. decision \in {"quarantine", "block"}
    BY <1>5, <1>7, <2>1 DEF Severity
  <2> QED
    BY <1>0, <2>2
<1>9. CASE f = [passage |-> p, placed |-> TRUE]
  <2>1. FindingDecision(surface, f) = "redact"
    BY <1>1, <1>3, <1>9 DEF FindingDecision
  <2>2. decision \in {"redact", "quarantine", "block"}
    BY <1>5, <1>7, <2>1 DEF Severity
  <2>3. p \notin Redact(surface, text, findings)
    BY <1>3, <1>9 DEF Redact
  <2>4. Kind[f.passage].category = "secret"
    BY <1>1 DEF MasksSecret
  <2> QED
    BY <1>0, <2>2, <2>3, <2>4 DEF Redacted
<1> QED
  BY <1>2, <1>8, <1>9

\* Of the items with one key one stands, and none with that key outranks it.
LEMMA MergesStand ==
  ASSUME NEW items, NEW m \in Merges(items)
  PROVE  /\ m \subseteq items
         /\ \A j \in items : Key(j) # NoKey => \E i \in m : Key(i) = Key(j) /\ Rank(i) <= Rank(j)
<1>1. \A i : Rank(i) \in {0, 2, 3, 4, 5}
  BY DEF Rank
<1>2. /\ m \subseteq Best(items) /\ Best(items) \subseteq items
      /\ \A i \in Best(items) : \E k \in m : Key(k) = Key(i)
      /\ \A i \in Best(items) : \A j \in items : Key(j) = Key(i) => Rank(i) <= Rank(j)
  BY DEF Merges, Best
<1>3. ASSUME NEW j \in items, Key(j) # NoKey
      PROVE  \E i \in m : Key(i) = Key(j) /\ Rank(i) <= Rank(j)
  <2> DEFINE S == {k \in items : Key(k) = Key(j)}
  <2>1. \E i \in S : \A k \in S : Rank(i) <= Rank(k)
    <3> j \in S
      BY <1>3
    <3>1. CASE \E i \in S : Rank(i) = 0
      BY <1>1, <3>1
    <3>2. CASE (\A i \in S : Rank(i) \in {2, 3, 4, 5}) /\ \E i \in S : Rank(i) = 2
      BY <3>2
    <3>3. CASE (\A i \in S : Rank(i) \in {3, 4, 5}) /\ \E i \in S : Rank(i) = 3
      BY <3>3
    <3>4. CASE (\A i \in S : Rank(i) \in {4, 5}) /\ \E i \in S : Rank(i) = 4
      BY <3>4
    <3>5. CASE \A i \in S : Rank(i) = 5
      BY <3>5
    <3> HIDE DEF S
    <3> QED
      BY <1>1, <3>1, <3>2, <3>3, <3>4, <3>5
  <2>2. \E i \in items : i \in Best(items) /\ Key(i) = Key(j)
    BY <1>3, <2>1 DEF Best
  <2> QED
    BY <1>2, <2>2
<1> QED
  BY <1>2, <1>3

\* Only claims that a human promoted are promoted in the authority.
ClaimsBlessed ==
  DOMAIN standing = Claim /\ \A c \in Claim : standing[c] = "promoted" => c \in blessed

\* What is recalled, and what is trusted of it.
LEMMA RecallTrust ==
  ASSUME NEW b \in {"authority", "broad", "graph"}, NEW scopes, NEW pending, NEW superseded,
         NEW i \in Recall(b, scopes, pending, superseded), i.trusted
  PROVE  i.entry \in Claim \ disputed /\ standing[i.entry] = "promoted"
<1>1. \A e, r, s, v : Label(e, r, s, v).trusted =>
        r \in {"ledger", "authority"} /\ s = "promoted" /\ v
  BY DEF Label
<1>2. \A e, r, s, v : Label(e, r, s, v).entry = e
  BY DEF Label
<1>3. CASE b = "authority"
  <2>1. i \in AuthorityItems
    BY <1>3 DEF Recall
  <2>2. PICK c \in Claim : i = Label(c, "authority", standing[c], standing[c] = "promoted" /\ c \notin disputed)
    BY <2>1 DEF AuthorityItems
  <2> QED
    BY <2>2 DEF Label
<1>4. CASE b = "broad"
  <2>1. i \in BroadItems
    BY <1>4 DEF Recall
  <2> QED
    BY <1>1, <2>1 DEF BroadItems
<1>5. CASE b = "graph"
  <2>1. i \in GraphItems
    BY <1>5 DEF Recall
  <2>2. \E c, s : i = Label(c, "graph", s, FALSE)
    BY <2>1 DEF GraphItems
  <2> QED
    BY <1>1, <2>2
<1> QED
  BY <1>3, <1>4, <1>5

\* A claim the authority trusts is recalled at its scope, whatever else is asked for.
LEMMA TrustedRecalled ==
  ASSUME NEW c \in Claim \ disputed, standing[c] = "promoted", NEW scopes, ScopeOf[c] \in scopes,
         NEW pending, NEW superseded
  PROVE  \E i \in Recall("authority", scopes, pending, superseded) : i.entry = c /\ Rank(i) <= 2
<1> DEFINE i == Label(c, "authority", standing[c], standing[c] = "promoted" /\ c \notin disputed)
<1>1. i.entry = c /\ i.role = "authority" /\ i.status = "promoted" /\ i.trusted
  BY DEF Label
<1>a. Rank(i) = 2
  BY <1>1 DEF Rank
<1>2. i \in AuthorityItems
  BY DEF AuthorityItems
<1>3. Visible(i, ~pending, pending, superseded)
  BY <1>1 DEF Visible
<1>4. i \in Recall("authority", scopes, pending, superseded)
  BY <1>1, <1>2, <1>3 DEF Recall
<1> HIDE DEF i
<1> QED
  BY <1>1, <1>a, <1>4

\* What the safety scan lets through of what was kept.
LEMMA SafeItems ==
  ASSUME NEW kept, NEW state
  PROVE  /\ \A s \in ApplySafety(kept, state).items : \E i \in kept :
              /\ s.entry = i.entry /\ s.trusted = i.trusted /\ ~WithheldBy(i, state) /\ s = Shown(i, state)
         /\ ApplySafety(kept, state).warnings = {} => \A i \in kept : \E s \in ApplySafety(kept, state).items :
              s.entry = i.entry /\ s.trusted = i.trusted
<1>1. \A i : Shown(i, state).entry = i.entry /\ Shown(i, state).trusted = i.trusted
  BY DEF Shown
<1>2. ApplySafety(kept, state).items = {Shown(i, state) : i \in {j \in kept : ~WithheldBy(j, state)}}
  BY DEF ApplySafety
<1>3. ApplySafety(kept, state).warnings = {} => \A i \in kept : ~WithheldBy(i, state)
  BY DEF ApplySafety
<1> QED
  BY <1>1, <1>2, <1>3

\* What is shown of an item that is not withheld holds no credential that was found.
LEMMA ShownMasked ==
  ASSUME NEW i, NEW state, ~WithheldBy(i, state), NEW p \in Shown(i, state).found \cap Shown(i, state).body
  PROVE  ~MasksSecret(Kind[p])
<1> DEFINE text == Content[TextOf[i.entry]]
           result == Scan("context_output", text, state)
<1>1. /\ Shown(i, state).found = result.found
      /\ Shown(i, state).body = IF result.redacted THEN result.body ELSE text
      /\ ~result.withheld
  BY DEF Shown, WithheldBy
<1> HIDE DEF result
<1> SUFFICES ASSUME MasksSecret(Kind[p]) PROVE FALSE
  OBVIOUS
<1>2. p \in result.found
  BY <1>1
<1>3. result.redacted /\ p \notin result.body
  BY <1>1, <1>2, ScanMasks DEF result
<1> QED
  BY <1>1, <1>3


\* A draft: what was heard of the backends, how it was merged with the ledger, what was
\* kept of it, and what the draft says of all three.
DraftedFrom(draft, heard, merged, scopes, profile, pending, down, known) ==
  /\ \A i \in heard : \E b \in {"authority", "broad", "graph"} :
       i \in Recall(b, scopes, pending, profile = "project_evolution")
  /\ merged \in Merges(LedgerItems \cup heard) /\ draft.kept \subseteq merged
  /\ draft.profile = profile /\ draft.handoff \subseteq lockedNow
  /\ draft.warnings = {} => draft.asked \cap down = {} /\ MissingScopes(profile, known) = {}
  /\ ~draft.cut => /\ draft.kept = merged
                   /\ \A b \in draft.asked \ down :
                        Recall(b, scopes, pending, profile = "project_evolution") \subseteq heard

\* Every draft of build_context_pack is such a one.
LEMMA Drafted ==
  ASSUME NEW profile, NEW pending, NEW budget, NEW down, NEW known,
         NEW draft \in Drafts(profile, pending, budget, down, known)
  PROVE  \E heard, merged : DraftedFrom(draft, heard, merged, ResolveScopes(profile, known),
                                        profile, pending, down, known)
<1> DEFINE asked == Asked(profile)
           superseded == profile = "project_evolution"
           scopes == ResolveScopes(profile, known)
           Heard(b) == Contributions(b, asked \ down, scopes, pending, superseded, budget)
           all == UNION {Recall(b, scopes, pending, superseded) : b \in asked \ down}
           recalled == UNION {UNION {{a \cup b \cup g : g \in Heard("graph")} : b \in Heard("broad")} :
                              a \in Heard("authority")}
           degraded == (IF asked \cap down # {} THEN {"recall failed"} ELSE {})
                       \cup (IF sensitive THEN {"recall withheld"} ELSE {})
                       \cup (IF MissingScopes(profile, known) # {} THEN {"scope unknown"} ELSE {})
           Draft(heard, merged, kept) ==
             [kept |-> kept, warnings |-> degraded, asked |-> asked, profile |-> profile,
              handoff |-> Handoff(profile), cut |-> kept # merged \/ heard # all]
           Fitting(merged) == {k \in SUBSET merged : Fits(k, merged, budget)}
<1>0. draft \in UNION {UNION {{Draft(heard, merged, kept) : kept \in Fitting(merged)} :
                              merged \in Merges(LedgerItems \cup heard)} :
                       heard \in recalled}
  BY DEF Drafts
<1>1. PICK heard, merged, kept : /\ heard \in recalled /\ merged \in Merges(LedgerItems \cup heard)
                                 /\ kept \in Fitting(merged) /\ draft = Draft(heard, merged, kept)
  <2> HIDE DEF Draft, recalled, Fitting
  <2>1. PICK heard \in recalled :
          draft \in UNION {{Draft(heard, merged, kept) : kept \in Fitting(merged)} :
                           merged \in Merges(LedgerItems \cup heard)}
    BY <1>0
  <2>2. PICK merged \in Merges(LedgerItems \cup heard) :
          draft \in {Draft(heard, merged, kept) : kept \in Fitting(merged)}
    BY <2>1
  <2>3. PICK kept \in Fitting(merged) : draft = Draft(heard, merged, kept)
    BY <2>2
  <2> QED
    BY <2>3
<1>2. kept \subseteq merged
  BY <1>1
<1>3. /\ draft.profile = profile /\ draft.asked = asked /\ draft.kept = kept
      /\ draft.warnings = degraded /\ draft.handoff = Handoff(profile)
      /\ draft.cut <=> kept # merged \/ heard # all
  BY <1>1
<1>4. \A i \in heard : \E b \in {"authority", "broad", "graph"} : i \in Recall(b, scopes, pending, superseded)
  <2>1. \A b : \A s \in Heard(b) : s \subseteq Recall(b, scopes, pending, superseded)
    BY DEF Contributions
  <2>2. PICK a \in Heard("authority"), b \in Heard("broad"), g \in Heard("graph") : heard = a \cup b \cup g
    <3>1. heard \in recalled
      BY <1>1
    <3> HIDE DEF Heard
    <3>2. PICK a \in Heard("authority") : heard \in UNION {{a \cup b \cup g : g \in Heard("graph")} : b \in Heard("broad")}
      BY <3>1
    <3>3. PICK b \in Heard("broad") : heard \in {a \cup b \cup g : g \in Heard("graph")}
      BY <3>2
    <3> QED
      BY <3>3
  <2> HIDE DEF Heard
  <2> QED
    BY <2>1, <2>2
<1>5. ~draft.cut => kept = merged /\ \A b \in asked \ down : Recall(b, scopes, pending, superseded) \subseteq heard
  BY <1>3
<1>6. draft.warnings = {} => asked \cap down = {} /\ MissingScopes(profile, known) = {}
  BY <1>3
<1>7. draft.handoff \subseteq lockedNow
  BY <1>3 DEF Handoff
<1> HIDE DEF asked, recalled, all, degraded, Draft, Fitting, Heard
<1>8. DraftedFrom(draft, heard, merged, scopes, profile, pending, down, known)
  BY <1>1, <1>2, <1>3, <1>4, <1>5, <1>6, <1>7 DEF DraftedFrom
<1> QED
  BY <1>8

\* What a pack promises where it is handed over.
Faithful(p) ==
  /\ \A s \in p.items : s.trusted =>
       \/ s.entry \in lockedNow
       \/ s.entry \in blessed \ disputed /\ standing[s.entry] = "promoted"
  /\ p.handoff \subseteq lockedNow
  /\ ~p.cut /\ p.warnings = {} =>
       \A e \in lockedNow \cup (IF "authority" \in p.asked
                                  THEN {c \in Claim \ disputed : standing[c] = "promoted"
                                          /\ ScopeOf[c] \in ProfileScopes(p.profile) \ {"manager"}}
                                  ELSE {}) :
         KeyOf[TextOf[e]] # NoKey => \E s \in p.items : s.trusted /\ Key(s) = KeyOf[TextOf[e]]
  /\ \A s \in p.items : Masked(MasksSecret, s.body, s.found)

\* An item recalled from a backend is not the ledger's, and one of the highest ranks is
\* trusted.
LEMMA RankIsTrust ==
  ASSUME NEW scopes, NEW pending, NEW superseded, NEW i, Rank(i) <= 2,
         \/ i \in LedgerItems
         \/ \E b \in {"authority", "broad", "graph"} : i \in Recall(b, scopes, pending, superseded)
  PROVE  i.trusted
<1>1. CASE i \in LedgerItems
  <2>1. PICK d \in lockedNow : i = Label(d, "ledger", "promoted", TRUE)
    BY <1>1 DEF LedgerItems
  <2> QED
    BY <2>1 DEF Label
<1>2. ASSUME NEW b \in {"authority", "broad", "graph"}, i \in Recall(b, scopes, pending, superseded)
      PROVE  i.trusted
  <2>1. i.role \in {"authority", "broad", "graph"}
    <3>1. i \in AuthorityItems \/ i \in BroadItems \/ i \in GraphItems
      BY <1>2 DEF Recall
    <3>2. \A e, r, s, v : Label(e, r, s, v).role = r
      BY DEF Label
    <3>3. i \in AuthorityItems => i.role = "authority"
      BY <3>2 DEF AuthorityItems
    <3>4. ASSUME i \in BroadItems PROVE i.role = "broad"
      <4>1. PICK c : i = Label(c, "broad", "unknown", FALSE)
        BY <3>4 DEF BroadItems
      <4> QED
        BY <4>1 DEF Label
    <3>5. ASSUME i \in GraphItems PROVE i.role = "graph"
      <4>1. PICK c, s : i = Label(c, "graph", s, FALSE)
        BY <3>5 DEF GraphItems
      <4> QED
        BY <4>1 DEF Label
    <3> QED
      BY <3>1, <3>3, <3>4, <3>5
  <2> QED
    BY <2>1 DEF Rank
<1> QED
  BY <1>1, <1>2

\* A pack that is built: its trusted items have earned it, the keys it does not mention
\* it holds, and no credential that was found is shown in an item.
LEMMA PreparedPack ==
  ASSUME ClaimsBlessed, NEW profile, NEW pending, NEW budget, NEW down,
         NEW known \in KnownScopes(profile), NEW state,
         NEW draft \in Drafts(profile, pending, budget, down, known)
  PROVE  Faithful(BuildContextPack(draft, state))
<1> DEFINE scopes == ResolveScopes(profile, known)
           superseded == profile = "project_evolution"
           kept == draft.kept
<1>1. PICK heard, merged : DraftedFrom(draft, heard, merged, scopes, profile, pending, down, known)
  BY Drafted
<1>2. PICK built : built = BuildContextPack(draft, state)
  OBVIOUS
<1>a. /\ built.items = IF state = Raised THEN {} ELSE ApplySafety(kept, state).items
      /\ built.warnings = {} => /\ state # Raised /\ ApplySafety(kept, state).warnings = {}
                                /\ draft.warnings = {}
      /\ built.asked = draft.asked /\ built.profile = profile
      /\ built.handoff = draft.handoff /\ built.cut = draft.cut
  BY <1>1, <1>2 DEF BuildContextPack, DraftedFrom
<1> DEFINE items == LedgerItems \cup heard
<1>3. kept \subseteq items /\ merged \in Merges(items)
  BY <1>1, MergesStand DEF DraftedFrom
<1>b. \A i \in items : \/ i \in LedgerItems
                        \/ \E b \in {"authority", "broad", "graph"} : i \in Recall(b, scopes, pending, superseded)
  BY <1>1 DEF DraftedFrom
<1>4. \A l \in LedgerItems : l.entry \in lockedNow
  BY DEF LedgerItems, Label
<1>5. ASSUME NEW d \in lockedNow PROVE \E l \in LedgerItems : l.entry = d /\ Rank(l) <= 2
  <2> DEFINE l == Label(d, "ledger", "promoted", TRUE)
  <2>1. l.entry = d /\ l.role = "ledger" /\ l \in LedgerItems
    BY DEF LedgerItems, Label
  <2>2. Rank(l) = 0
    BY <2>1 DEF Rank
  <2> HIDE DEF l
  <2> QED
    BY <2>1, <2>2
<1>6. \A s \in built.items : \E i \in kept :
        s.entry = i.entry /\ s.trusted = i.trusted /\ ~WithheldBy(i, state) /\ s = Shown(i, state)
  BY <1>a, SafeItems
<1>7. ASSUME NEW s \in built.items, s.trusted
      PROVE  \/ s.entry \in lockedNow
             \/ s.entry \in blessed \ disputed /\ standing[s.entry] = "promoted"
  <2>1. PICK i \in kept : s.entry = i.entry /\ s.trusted = i.trusted
    BY <1>6
  <2>2. i \in LedgerItems \/ \E b \in {"authority", "broad", "graph"} : i \in Recall(b, scopes, pending, superseded)
    BY <1>3, <1>b
  <2> HIDE DEF scopes, superseded
  <2> QED
    BY <1>4, <1>7, <2>1, <2>2, RecallTrust DEF ClaimsBlessed
<1>8. ASSUME ~built.cut, built.warnings = {},
             NEW e \in lockedNow \cup (IF "authority" \in built.asked
                                       THEN {c \in Claim \ disputed : standing[c] = "promoted"
                                               /\ ScopeOf[c] \in ProfileScopes(built.profile) \ {"manager"}}
                                       ELSE {}),
             KeyOf[TextOf[e]] # NoKey
      PROVE  \E s \in built.items : s.trusted /\ Key(s) = KeyOf[TextOf[e]]
  <2>1. /\ state # Raised /\ ApplySafety(kept, state).warnings = {} /\ built.items = ApplySafety(kept, state).items
        /\ built.asked \cap down = {} /\ MissingScopes(profile, known) = {}
        /\ kept = merged
        /\ \A b \in built.asked \ down : Recall(b, scopes, pending, superseded) \subseteq heard
    BY <1>1, <1>a, <1>8 DEF DraftedFrom
  <2>2. \E j \in items : j.entry = e /\ Rank(j) <= 2
    <3>1. CASE e \in lockedNow
      BY <1>5, <3>1
    <3>2. CASE e \notin lockedNow
      <4>1. /\ e \in Claim \ disputed /\ standing[e] = "promoted" /\ "authority" \in built.asked
            /\ ScopeOf[e] \in ProfileScopes(profile) \ {"manager"}
        BY <1>a, <1>8, <3>2
      <4>2. ScopeOf[e] \in scopes
        BY <2>1, <4>1 DEF MissingScopes, ResolveScopes
      <4>3. \E j \in Recall("authority", scopes, pending, superseded) : j.entry = e /\ Rank(j) <= 2
        BY <4>1, <4>2, TrustedRecalled
      <4> QED
        BY <2>1, <4>1, <4>3
    <3> QED
      BY <3>1, <3>2
  <2>3. PICK j \in items : j.entry = e /\ Rank(j) <= 2
    BY <2>2
  <2>4. Key(j) = KeyOf[TextOf[e]]
    BY <2>3 DEF Key
  <2>5. PICK i \in merged : Key(i) = Key(j) /\ Rank(i) <= Rank(j)
    <3>1. \A k \in items : Key(k) # NoKey => \E i \in merged : Key(i) = Key(k) /\ Rank(i) <= Rank(k)
      BY <1>3, MergesStand
    <3> HIDE DEF items
    <3> QED
      BY <1>8, <2>3, <2>4, <3>1
  <2>6. i \in kept /\ i.trusted
    <3>1. i \in kept /\ i \in items
      BY <1>3, <2>1
    <3>2. Rank(i) \in {0, 2, 3, 4, 5} /\ Rank(j) \in {0, 2, 3, 4, 5}
      BY DEF Rank
    <3>3. Rank(i) <= 2
      BY <2>3, <2>5, <3>2
    <3> HIDE DEF scopes, superseded, items
    <3> QED
      BY <1>b, <3>1, <3>3, RankIsTrust
  <2>7. PICK s \in ApplySafety(kept, state).items : s.entry = i.entry /\ s.trusted = i.trusted
    <3>1. ApplySafety(kept, state).warnings = {}
      BY <2>1
    <3>2. \A k \in kept : \E s \in ApplySafety(kept, state).items : s.entry = k.entry /\ s.trusted = k.trusted
      BY <3>1, SafeItems
    <3> QED
      BY <2>6, <3>2
  <2>8. Key(s) = KeyOf[TextOf[e]] /\ s.trusted
    BY <2>4, <2>5, <2>6, <2>7 DEF Key
  <2> QED
    BY <2>1, <2>7, <2>8
<1>9. ASSUME NEW s \in built.items PROVE Masked(MasksSecret, s.body, s.found)
  <2>1. PICK i \in kept : ~WithheldBy(i, state) /\ s = Shown(i, state)
    BY <1>6
  <2> QED
    BY <2>1, ShownMasked DEF Masked
<1>10. built.handoff \subseteq lockedNow
  BY <1>1, <1>a DEF DraftedFrom
<1>11. Faithful(built)
  BY <1>7, <1>8, <1>9, <1>10 DEF Faithful
<1> QED
  BY <1>2, <1>11

\* An artifact is stored masked, or under a mark that withholds it.
LEMMA StoredArtifact ==
  ASSUME NEW text, NEW state
  PROVE  \/ Masked(MasksSecret, ScanArtifact(text, state).body, ScanArtifact(text, state).found)
         \/ ScanArtifact(text, state).mark \in {"quarantine", "block"}
<1>1. CASE state = Raised
  BY <1>1 DEF ScanArtifact
<1>2. CASE state # Raised
  <2> DEFINE result == Scan("artifact_ingest", text, state)
  <2>1. /\ ScanArtifact(text, state).body = result.body /\ ScanArtifact(text, state).found = result.found
        /\ ScanArtifact(text, state).mark = result.decision
    BY <1>2 DEF ScanArtifact
  <2> HIDE DEF result
  <2>2. \A p \in result.found \cap result.body : MasksSecret(Kind[p]) => result.decision \in {"quarantine", "block"}
    BY ScanMasks DEF result
  <2> QED
    BY <2>1, <2>2 DEF Masked
<1> QED
  BY <1>1, <1>2

\* Whatever backends fail, engines break, claims are disputed or scopes are unknown, a
\* pack's trust is earned, a key it lost it mentions, and secrets found in its items are
\* masked.
THEOREM PacksAreFaithful == ContextSpec => PackFaithful
<1> DEFINE ContextInv == ClaimsBlessed /\ SecretsMasked
           TrustIsEarned == pack' # pack =>
                       /\ \A i \in pack'.items : i.trusted =>
                            \/ i.entry \in lockedNow
                            \/ i.entry \in blessed \ disputed /\ standing[i.entry] = "promoted"
                       /\ pack'.handoff \subseteq lockedNow
           LossTold == pack' \notin {pack, NoPack} /\ ~pack'.cut /\ pack'.warnings = {} =>
                         \A e \in lockedNow \cup (IF "authority" \in pack'.asked
                                    THEN {c \in Claim \ disputed : standing[c] = "promoted"
                                            /\ ScopeOf[c] \in ProfileScopes(pack'.profile) \ {"manager"}}
                                    ELSE {}) :
                           KeyOf[TextOf[e]] # NoKey =>
                             \E i \in pack'.items : i.trusted /\ Key(i) = KeyOf[TextOf[e]]
<1>1. ContextInit => ContextInv
  BY DEF ContextInit, ClaimsBlessed, SecretsMasked, NoPack, NoArtifact, Masked
<1>2. ContextInv /\ [ContextNext]_contextVars => ContextInv' /\ [TrustIsEarned]_contextVars /\ [LossTold]_contextVars
  <2> SUFFICES ASSUME ContextInv, [ContextNext]_contextVars
               PROVE  ContextInv' /\ TrustIsEarned /\ LossTold
    OBVIOUS
  <2>1. ASSUME UNCHANGED <<pack, artifact>>, ClaimsBlessed' PROVE ContextInv' /\ TrustIsEarned /\ LossTold
    BY <2>1 DEF SecretsMasked
  <2>2. ASSUME UNCHANGED <<standing, blessed>> PROVE ClaimsBlessed'
    BY <2>2 DEF ClaimsBlessed
  <2>3. CASE UNCHANGED contextVars
    BY <2>1, <2>2, <2>3 DEF contextVars
  <2>4. CASE Consumed
    <3>1. pack' = NoPack /\ artifact' = NoArtifact /\ UNCHANGED <<standing, blessed>>
      BY <2>4 DEF Consumed, authorityVars
    <3> QED
      BY <2>2, <3>1 DEF NoPack, NoArtifact, SecretsMasked, Masked
  <2>5. ASSUME NEW c \in Claim, Capture(c) \/ RejectCandidate(c) PROVE ContextInv' /\ TrustIsEarned /\ LossTold
    <3>1. /\ \E s \in {"pending", "rejected"} : standing' = [standing EXCEPT ![c] = s]
          /\ UNCHANGED <<blessed, pack, artifact>>
      BY <2>5 DEF Capture, RejectCandidate, CaptureCandidate
    <3>2. ClaimsBlessed'
      BY <3>1 DEF ClaimsBlessed
    <3> QED
      BY <2>1, <3>1, <3>2
  <2>6. ASSUME NEW c \in Claim, Contradict(c) PROVE ContextInv' /\ TrustIsEarned /\ LossTold
    BY <2>1, <2>2, <2>6 DEF Contradict
  <2>7. ASSUME NEW c \in Claim, NEW reached, PromoteMemoryCandidate(c, reached)
        PROVE  ContextInv' /\ TrustIsEarned /\ LossTold
    <3>1. ClaimsBlessed'
      BY <2>7 DEF PromoteMemoryCandidate, PromoteCandidate, ClaimsBlessed
    <3> QED
      BY <2>1, <2>7, <3>1 DEF PromoteMemoryCandidate
  <2>8. ASSUME NEW d \in LockedNote, LockDecision(d) PROVE ContextInv' /\ TrustIsEarned /\ LossTold
    BY <2>1, <2>2, <2>8 DEF LockDecision, authorityVars
  <2>9. CASE RaisePrivacy
    BY <2>1, <2>2, <2>9 DEF RaisePrivacy, authorityVars
  <2>10. ASSUME NEW profile, NEW pending, NEW budget, NEW down, NEW known \in KnownScopes(profile),
                \/ PrepareWorkerContext(profile, budget, down, known)
                \/ GetTaskContextPack(profile, pending, budget, down, known)
         PROVE  ContextInv' /\ TrustIsEarned /\ LossTold
    <3>1. PICK built : Faithful(built) /\ (pack' = built \/ pack' = Attached(built))
      <4>1. CASE PrepareWorkerContext(profile, budget, down, known)
        <5>1. PICK draft \in Drafts(profile, FALSE, budget, down, known) :
                \E b \in Packs(draft) : pack' = Attached(b)
          BY <4>1 DEF PrepareWorkerContext, AttachContextToSubtask
        <5>2. PICK state : pack' = Attached(BuildContextPack(draft, state))
          BY <5>1 DEF Packs
        <5> QED
          BY <5>2, PreparedPack
      <4>2. CASE GetTaskContextPack(profile, pending, budget, down, known)
        <5>1. PICK draft \in Drafts(profile, pending, budget, down, known) : pack' \in Packs(draft)
          BY <4>2 DEF GetTaskContextPack
        <5>2. PICK state : pack' = BuildContextPack(draft, state)
          BY <5>1 DEF Packs
        <5> QED
          BY <5>2, PreparedPack
      <4> QED
        BY <2>10, <4>1, <4>2
    <3>2. UNCHANGED <<standing, blessed, artifact>>
      BY <2>10 DEF PrepareWorkerContext, GetTaskContextPack, authorityVars
    <3>a. /\ pack'.items = built.items /\ pack'.warnings = built.warnings /\ pack'.asked = built.asked
          /\ pack'.profile = built.profile /\ pack'.cut = built.cut
          /\ pack'.handoff \subseteq built.handoff
      BY <3>1 DEF Attached
    <3>3. /\ \A s \in pack'.items : s.trusted =>
               \/ s.entry \in lockedNow
               \/ s.entry \in blessed \ disputed /\ standing[s.entry] = "promoted"
          /\ pack'.handoff \subseteq lockedNow
          /\ LossTold
          /\ \A s \in pack'.items : Masked(MasksSecret, s.body, s.found)
      BY <3>1, <3>a DEF Faithful
    <3> QED
      BY <2>2, <3>2, <3>3 DEF SecretsMasked
  <2>11. ASSUME NEW text, NEW state, CreateArtifact(text, state) PROVE ContextInv' /\ TrustIsEarned /\ LossTold
    <3>1. artifact' = ScanArtifact(text, state) /\ UNCHANGED <<standing, blessed, pack>>
      BY <2>11 DEF CreateArtifact, authorityVars
    <3>2. SecretsMasked'
      BY <3>1, StoredArtifact DEF SecretsMasked
    <3> QED
      BY <2>2, <3>1, <3>2
  <2> HIDE DEF ContextInv, TrustIsEarned, LossTold
  <2> QED
    BY <2>3, <2>4, <2>5, <2>6, <2>7, <2>8, <2>9, <2>10, <2>11 DEF ContextNext
<1> QED
  BY <1>1, <1>2, PTL DEF ContextSpec, PackFaithful, TrustEarned, NoSilentLoss
=============================================================================
