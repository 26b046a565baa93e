----------------------------- MODULE WorkerRuns -----------------------------
(***************************************************************************)
(* What happens around one worker run of the core: the tool governor is    *)
(* consulted on the worker's declared tools, one by one, and only then the *)
(* harness runs (an echo, one model call, or an external local model       *)
(* manager asked for an estimate and then for a generation); and the HTTP  *)
(* worker app that serves runs to remote callers under a capacity.  The    *)
(* governor, the model manager and the runtime are external: they answer   *)
(* anything, or nothing.                                                   *)
(***************************************************************************)
EXTENDS Naturals, Sequences, FiniteSets
CONSTANTS Preparation,        \* concurrent requests for a worker's tools
          DeclaredTools,      \* how many tools a worker declares
          RemoteCall,         \* concurrent callers of the worker app
          MaxConcurrentTasks, \* its capacity
          MaxPosts            \* bound: what each caller posts
ASSUME WorkerRunsBounds == /\ DeclaredTools \in Nat /\ MaxPosts \in Nat
                           /\ MaxConcurrentTasks \in Nat \ {0}
                           /\ IsFiniteSet(RemoteCall)
VARIABLES governor, \* the posture: no governor, or one with its declared mode
          prep,     \* each preparation and the run that follows it
          outcomes, \* the outcomes the governor's ledger recorded
          outputs,  \* the artifacts stored, with what each holds
          running,  \* the worker app's counter
          remote    \* its requests
runVars == <<governor, prep, outcomes, outputs, running, remote>>

Harness == {"echo", "raw_model", "local_model_manager"}
RunsInit ==
  /\ governor \in {"none", "required", "advisory"}
  /\ prep \in [Preparation -> [door : {"run_subtask"}, harness : Harness, phase : {"consult"},
                               answers : {<<>>}, model : {"none"}, report : {"none"},
                               ended : {FALSE}, result : {"none"}]
                     \cup [door : {"authorize_tool_use"}, harness : {"echo"}, phase : {"token"},
                           answers : {<<>>}, model : {"none"}, report : {"none"},
                           ended : {FALSE}, result : {"none"}]]
  /\ outcomes = {} /\ outputs = {} /\ running = 0
  /\ remote = [c \in RemoteCall |-> [state |-> "idle", heard |-> TRUE, posts |-> 0]]

(***************************************************************************)
(* The governor's answer and the decision the client makes of it.  "worded"*)
(* is a body whose allowed is text: any non-empty text reads as true.      *)
(***************************************************************************)
Verdicts == {"allow", "deny", "worded"}
Answer == Verdicts \cup {"unreachable", "bad_status", "no_verdict", "foreign_major", "raises"}
FromBody(answer) == [allowed |-> answer \in {"allow", "worded"}, unavailable |-> FALSE, id |-> TRUE]
DenyUnavailable == [allowed |-> FALSE, unavailable |-> TRUE, id |-> FALSE]
\* Slip: a governor that is only advisory lets an outage pass.
DecideAdvisory(answer) ==
  IF answer \in Verdicts THEN FromBody(answer)
  ELSE [DenyUnavailable EXCEPT !.allowed = governor = "advisory"]
GovernorDecides(answer) == IF answer \in Verdicts THEN FromBody(answer) ELSE DenyUnavailable

\* ToolUseAuthorization: the set is allowed when every tool was.
Granted(answers) == /\ Len(answers) = DeclaredTools
                    /\ \A i \in DOMAIN answers : GovernorDecides(answers[i]).allowed

Proceed(p, phase, result) ==
  prep' = [prep EXCEPT ![p].phase = phase, ![p].result = result]
Cleared(p) == \* a probe ends with the verdict, a run goes on to its harness
  IF prep[p].door = "run_subtask" THEN <<"launch", "none">> ELSE <<"done", "allowed">>

\* The token gate of the explicit surface comes before any governor is touched.
AuthorizeToolUse(p, valid) ==
  /\ prep[p].phase = "token"
  /\ IF valid THEN Proceed(p, "consult", "none") ELSE Proceed(p, "done", "raised")
  /\ UNCHANGED <<governor, outcomes, outputs, running, remote>>

\* No governor is bound, or it has allowed the last of the tools.
ToolsCleared(p) ==
  /\ prep[p].phase = "consult"
  /\ governor = "none" \/ Granted(prep[p].answers)
  /\ Proceed(p, Cleared(p)[1], Cleared(p)[2])
  /\ UNCHANGED <<governor, outcomes, outputs, running, remote>>

\* record() closes the loop on a decision with an id, or is lost.
RecordOutcome(p, tool, decision, recorded) ==
  outcomes' = IF decision.id /\ recorded
              THEN outcomes \cup {[prep |-> p, tool |-> tool,
                                   outcome |-> IF decision.allowed THEN "authorized" ELSE "blocked"]}
              ELSE outcomes

Blocked(decision) ==
  IF decision.unavailable THEN "blocked_by_outage" ELSE "blocked_by_policy"

ConsultToolGovernor(p, answer, recorded) ==
  LET tool == Len(prep[p].answers) + 1
      decision == GovernorDecides(answer)
  IN /\ prep[p].phase = "consult" /\ governor # "none" /\ tool <= DeclaredTools
     /\ prep' = [prep EXCEPT ![p].answers = Append(@, answer),
                             ![p].phase = IF decision.allowed THEN @ ELSE "done",
                             ![p].result = IF decision.allowed THEN @ ELSE Blocked(decision)]
     /\ RecordOutcome(p, tool, decision, recorded)
     /\ UNCHANGED <<governor, outputs, running, remote>>

(***************************************************************************)
(* The harnesses.  create_artifact may fail before the artifact is there,  *)
(* or it or the harness may raise after: either way the service makes a    *)
(* failed run of it, and in the second case the artifact stays.  The run   *)
(* then hands its report to _record_result.                                *)
(***************************************************************************)
Storing == {"unwritten", "raises_after", "stored"}
Finish(p, ok, text, store) ==
  /\ prep' = [prep EXCEPT ![p].phase = "record",
                ![p].report = IF ok /\ store = "stored" THEN "succeeded" ELSE "failed"]
  /\ outputs' = IF ok /\ store # "unwritten" THEN outputs \cup {[prep |-> p, text |-> text]} ELSE outputs
  /\ UNCHANGED <<governor, outcomes, running, remote>>

EchoRun(p, store) ==
  /\ prep[p].phase = "launch" /\ prep[p].harness = "echo"
  /\ Finish(p, TRUE, "echo", store)

RawModelRun(p, reply, store) ==
  /\ prep[p].phase = "launch" /\ prep[p].harness = "raw_model"
  /\ Finish(p, reply # "raises", IF reply = "empty" THEN "empty" ELSE "text", store)

\* The estimate, asked again at run time; an outage leaves the model open.
EstimateReading(reply) == \* a body that does not say eligible is a refusal
  IF reply \in {"eligible", "raises"} THEN reply ELSE "ineligible"
LocalEstimate(p, reply) ==
  LET estimate == EstimateReading(reply) IN
  /\ prep[p].phase = "launch" /\ prep[p].harness = "local_model_manager"
  /\ prep' = [prep EXCEPT
       ![p].phase = IF estimate = "ineligible" THEN "record" ELSE "generate",
       ![p].report = IF estimate = "ineligible" THEN "failed" ELSE @,
       ![p].model = IF estimate = "eligible" THEN "selected" ELSE "none"]
  /\ UNCHANGED <<governor, outcomes, outputs, running, remote>>

\* The manager answers; a body without a status counts as a success.
GenerateResult(reply) == reply \in {"text", "empty"}
LocalRun(p, reply, store) ==
  /\ prep[p].phase = "generate"
  /\ Finish(p, GenerateResult(reply), reply, store)

\* A cancel from another call, at any time after the claim: the subtask is terminal
\* at once, while the worker, which cannot be unwound, goes on.
CancelRun(p) ==
  /\ prep[p].door = "run_subtask" /\ prep[p].phase # "done" /\ ~prep[p].ended
  /\ prep' = [prep EXCEPT ![p].ended = TRUE]
  /\ UNCHANGED <<governor, outcomes, outputs, running, remote>>

\* The report lands by a compare-and-set from running; a stale one is discarded, and
\* what the worker stored stays behind as the evidence of an attempt.
Landed(p) == IF prep[p].ended THEN "discarded" ELSE prep[p].report
RecordResult(p) ==
  /\ prep[p].phase = "record"
  /\ Proceed(p, "done", Landed(p))
  /\ UNCHANGED <<governor, outcomes, outputs, running, remote>>

(***************************************************************************)
(* The worker app: the counter is taken and given back under its lock; the *)
(* caller may stop listening while the run goes on.                        *)
(***************************************************************************)
RemoteStep(c, r, n) == /\ remote' = [remote EXCEPT ![c] = r] /\ running' = n
                       /\ UNCHANGED <<governor, prep, outcomes, outputs>>
PostRun(c) ==
  /\ remote[c].state = "idle" /\ remote[c].posts < MaxPosts
  /\ LET posted == [remote[c] EXCEPT !.posts = @ + 1, !.heard = TRUE]
     IN IF running >= MaxConcurrentTasks
        THEN RemoteStep(c, posted, running) \* 503, worker at capacity
        ELSE RemoteStep(c, [posted EXCEPT !.state = "running"], running + 1)
CallerTimesOut(c) ==
  /\ remote[c].state = "running" /\ remote[c].heard
  /\ RemoteStep(c, [remote[c] EXCEPT !.heard = FALSE], running)
SlotAfter(raised) == running - 1
RunEnds(c, raised) ==
  /\ remote[c].state = "running"
  /\ RemoteStep(c, [remote[c] EXCEPT !.state = "idle"], SlotAfter(raised))

RunsNext ==
  \/ \E p \in Preparation :
       \/ \E valid \in BOOLEAN : AuthorizeToolUse(p, valid)
       \/ ToolsCleared(p)
       \/ \E answer \in Answer, recorded \in BOOLEAN : ConsultToolGovernor(p, answer, recorded)
       \/ \E store \in Storing : EchoRun(p, store)
       \/ \E reply \in {"text", "empty", "raises"}, store \in Storing : RawModelRun(p, reply, store)
       \/ \E reply \in {"eligible", "declined", "unsaid", "raises"} : LocalEstimate(p, reply)
       \/ \E reply \in {"text", "empty", "failure", "raises"}, store \in Storing : LocalRun(p, reply, store)
       \/ CancelRun(p)
       \/ RecordResult(p)
  \/ \E c \in RemoteCall : PostRun(c) \/ CallerTimesOut(c) \/ (\E raised \in BOOLEAN : RunEnds(c, raised))

RunsSpec == RunsInit /\ [][RunsNext]_runVars

(***************************************************************************)
(* Properties.                                                             *)
(***************************************************************************)
\* No outage becomes an allow: with a governor bound, in either mode, a worker is
\* launched (or a probe told yes) only after each of its declared tools was answered
\* by the engine's own body with an allowed that Python reads as true.  That is weaker
\* than the client's comments, which promise an explicit allow: "worded", a text such
\* as "false", is let through.  A refused preparation asks about no further tool and
\* stores nothing; and what the governor's ledger was told agrees with what the caller
\* went on to do, however many of those reports were lost.
FailClosed ==
  /\ \A p \in Preparation :
       LET answers == prep[p].answers
           passed == \/ prep[p].phase \in {"launch", "generate", "record"}
                     \/ prep[p].result \in {"allowed", "succeeded", "failed", "discarded"}
       IN /\ governor # "none" /\ passed =>
               Len(answers) = DeclaredTools /\ \A i \in DOMAIN answers : answers[i] \in {"allow", "worded"}
          /\ \A i \in DOMAIN answers : i < Len(answers) => answers[i] \in {"allow", "worded"}
          /\ ~passed => ~\E o \in outputs : o.prep = p
  /\ \A o \in outcomes : /\ o.tool \in DOMAIN prep[o.prep].answers
                         /\ o.outcome = "blocked" => prep[o.prep].result = "blocked_by_policy"

\* A subtask recorded succeeded has its one artifact stored, whichever of the harness,
\* the manager and the artifact store failed on the way, and was not cancelled before
\* the report landed; a cancelled one keeps no result at all, however late the report.
\* The converse is false in the code and not claimed: an artifact can be left by a run
\* that raised after storing it, or that was cancelled.  No run leaves two.
SuccessHasOutput ==
  \A p \in Preparation :
    LET stored == Cardinality({o \in outputs : o.prep = p}) IN
    /\ stored <= 1
    /\ prep[p].result = "succeeded" => stored = 1
    /\ prep[p].ended => prep[p].result \notin {"succeeded", "failed"}

\* The worker app's counter is the number of runs inside it, callers that gave up and
\* runtimes that raised included: it never exceeds the capacity and no slot is lost.
SlotsReturned ==
  /\ running = Cardinality({c \in RemoteCall : remote[c].state = "running"})
  /\ running <= MaxConcurrentTasks

\* What a governed worker run promises (core/workers.py, core/local_compute.py, runtime/transport.py): tools
\* fail closed, success means a stored output of a run nobody ended, and slots come back.
RunsSafe == FailClosed /\ SuccessHasOutput /\ SlotsReturned
=============================================================================
