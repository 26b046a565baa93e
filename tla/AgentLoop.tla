----------------------------- MODULE AgentLoop -----------------------------
(***************************************************************************)
(* One run of a worker's act/tool loop: the model names an action, the     *)
(* runtime has the action authorized against its final arguments, executes *)
(* it in the workspace and records it.  A durable run saves its state      *)
(* after each node of the graph and resumes from the pending one after a   *)
(* crash; the effects of a node that was under way stay in the workspace.  *)
(*                                                                         *)
(* The governor is a remote service (external): it answers or does not,    *)
(* and a request whose answer is lost may still have taken effect there.   *)
(***************************************************************************)
EXTENDS Naturals, FiniteSets, Sequences

CONSTANTS
  File,        \* paths the model may write
  MaxSteps,    \* RuntimeConfig.max_steps
  MaxSubtasks, \* RuntimeConfig.max_subtasks
  MaxCrashes   \* bound: crashes of the worker's process and dispatches again

ASSUME LoopConstants == MaxSteps \in Nat \ {0} /\ MaxSubtasks \in Nat /\ MaxCrashes \in Nat

VARIABLES
  posture,  \* how tool calls are governed, and whether the run is durable
  run,      \* the graph's state in memory
  saved,    \* the last checkpoint, or NoRun
  disk,     \* files in the workspace
  tracker,  \* Workspace.changed_files of this process
  call,     \* the tool call under way
  grants,   \* the governor's grants, in the order they were issued
  effects,  \* tool executions: the call and the grant it was made under
  records,  \* Execution Records in the ledger
  torn,     \* whether a record was lost, and the files no state of the run knows of
  crashes

loopVars == <<posture, run, saved, disk, tracker, call, grants, effects, records, torn, crashes>>
workVars == <<disk, tracker, effects>>
auditVars == <<grants, records>>

Governing == {"ungoverned",   \* no governor, no grant carried
              "granting",     \* a governor that grants and redeems
              "incapable",    \* a governor that allows without a grant
              "linked",       \* a signed grant is carried, redeemed per call
              "unredeemable"} \* a signed grant, and nobody to redeem it

Tool == {[kind |-> "write_file", arg |-> f] : f \in File} \cup {[kind |-> "shell", arg |-> "ls"]}
Reply == Tool \cup {[kind |-> k, arg |-> "none"] : k \in {"delegate", "invalid", "finish"}}

NoCall == [at |-> "none", tool |-> [kind |-> "invalid", arg |-> "none"], grant |-> 0]
NoRun == [node |-> "none", iteration |-> 0, action |-> NoCall.tool, changed |-> {},
          subtasks |-> 0, status |-> "none"]
FirstRun == [NoRun EXCEPT !.node = "act"]
Linked == posture.governing \in {"linked", "unredeemable"}

\* The grant a linked run carries was signed before it began, for one tool.
LoopInit ==
  /\ posture \in [governing : Governing, durable : BOOLEAN, shell : BOOLEAN]
  /\ run = NoRun /\ saved = NoRun /\ disk = {} /\ tracker = {} /\ call = NoCall
  /\ grants \in IF Linked THEN {<<[tool |-> t, used |-> FALSE]>> : t \in Tool} ELSE {<<>>}
  /\ effects = {} /\ records = {} /\ crashes = 0
  /\ torn = [files |-> {}, records |-> FALSE]

-----------------------------------------------------------------------------
(* run(): start, resume, end, crash.                                       *)

\* prior.next: a checkpoint after finalize has no pending node.
Pending == {"act", "tool", "finalize"}

\* What outlives a run that ends without a result: a temp workspace does not.
Kept(files) == IF posture.durable THEN files ELSE {}

\* The saver writes the state a node returned; without one nothing is kept.
Checkpoint(state) ==
  run' = state /\ saved' = IF posture.durable THEN state ELSE saved

\* A pending checkpoint: go on from its node, with the files it had changed.
ResumeRun == run' = saved /\ tracker' = saved.changed /\ UNCHANGED <<saved, disk, torn>>

\* No pending node: the initial state, and a tracker that knows of no file.  A run
\* that ended and was not handed back is run again in the directory it left.
StartAfresh ==
  /\ Checkpoint(FirstRun) /\ tracker' = {}
  /\ disk' = Kept(disk)
  /\ torn' = [torn EXCEPT !.files = Kept(@ \cup disk)]

StartRun ==
  /\ run = NoRun
  /\ \/ saved.node \in Pending /\ ResumeRun
     \/ saved.node \notin Pending /\ StartAfresh
  /\ UNCHANGED <<posture, call, effects, auditVars, crashes>>

\* The process dies: what was in memory is gone, and so is an ephemeral run.
Crash ==
  /\ run # NoRun /\ run.node # "over" /\ crashes < MaxCrashes
  /\ crashes' = crashes + 1
  /\ torn' = [files |-> torn.files \cup (disk \ saved.changed),
              records |-> torn.records \/ call.at \in {"record", "record_failed"}]
  /\ run' = NoRun /\ call' = NoCall /\ tracker' = {}
  /\ UNCHANGED <<posture, saved, disk, effects, auditVars>>

\* The last node: its checkpoint is the result, with no node pending.
Finalize ==
  /\ run.node = "finalize"
  /\ Checkpoint([run EXCEPT !.node = "end", !.changed = tracker,
                            !.status = IF run.action.kind = "finish" THEN "completed" ELSE "incomplete"])
  /\ UNCHANGED <<posture, workVars, call, auditVars, torn, crashes>>

\* The result handed back: the workspace goes, and the checkpoint with it.
HandBack ==
  /\ run.node = "end"
  /\ run' = [run EXCEPT !.node = "over"] /\ saved' = NoRun
  /\ disk' = {} /\ torn' = [torn EXCEPT !.files = {}]
  /\ UNCHANGED <<posture, tracker, effects, call, auditVars, crashes>>

\* An exception out of a node: the run is over, and only a durable directory stays,
\* with the checkpoint of the node before.
RunRaises(files, unsaved) ==
  /\ run' = [run EXCEPT !.node = "over", !.status = "failed"]
  /\ call' = NoCall
  /\ disk' = Kept(files)
  /\ torn' = [files |-> Kept(torn.files \cup unsaved),
              records |-> torn.records \/ (Linked /\ call.at = "execute")]
  /\ UNCHANGED <<posture, saved, tracker, auditVars, crashes>>

ActRaises == run.node = "act" /\ RunRaises(disk, {}) /\ UNCHANGED effects

\* A task whose run is over may be dispatched again: the durable one resumes if it
\* raised, any other starts afresh.
Redispatch ==
  /\ run.node = "over" /\ crashes < MaxCrashes
  /\ run' = NoRun /\ crashes' = crashes + 1 /\ tracker' = {}
  /\ UNCHANGED <<posture, saved, disk, effects, call, auditVars, torn>>

-----------------------------------------------------------------------------
(* The nodes.                                                              *)

\* parse_action: the reply is an action, an invalid one, or a final answer.
Act(reply) ==
  /\ run.node = "act"
  /\ Checkpoint([run EXCEPT !.action = reply,
                            !.node = IF reply.kind = "finish" THEN "finalize" ELSE "tool"])
  /\ UNCHANGED <<posture, workVars, call, auditVars, torn, crashes>>

\* The end of run_tool: the observation, one more iteration, the files changed.
Observe(subtasks) ==
  /\ Checkpoint([run EXCEPT !.iteration = @ + 1, !.changed = tracker', !.subtasks = subtasks,
                            !.node = IF run.iteration + 1 >= MaxSteps THEN "finalize" ELSE "act"])
  /\ call' = NoCall

\* delegate: past max_subtasks it is refused with an observation.
Delegated == IF run.subtasks < MaxSubtasks THEN run.subtasks + 1 ELSE run.subtasks

\* A delegation, a disabled tool or a malformed action asks no governor.
RunToolHere ==
  /\ run.node = "tool" /\ call = NoCall
  /\ \/ run.action.kind = "delegate" /\ tracker' = tracker /\ Observe(Delegated)
     \/ run.action.kind = "invalid" /\ tracker' = tracker /\ Observe(run.subtasks)
     \/ run.action.kind = "shell" /\ ~posture.shell /\ tracker' = tracker /\ Observe(run.subtasks)
  /\ UNCHANGED <<posture, disk, effects, auditVars, torn, crashes>>

FirstGate ==
  CASE posture.governing = "ungoverned" -> "execute"
    [] posture.governing \in {"granting", "incapable"} -> "authorize"
    [] posture.governing = "linked" -> "redeem"
    [] OTHER -> "refused"

\* governed() freezes the arguments it was given.
RunTool ==
  /\ run.node = "tool" /\ call = NoCall /\ run.action \in Tool
  /\ run.action.kind = "shell" => posture.shell
  /\ call' = [at |-> FirstGate, tool |-> run.action,
              grant |-> IF posture.governing = "linked" THEN 1 ELSE 0]
  /\ UNCHANGED <<posture, run, saved, workVars, auditVars, torn, crashes>>

-----------------------------------------------------------------------------
(* governed(): authorize, redeem, execute, record.                         *)

\* What the client makes of the governor's answer: an outage denies, and so does
\* an allow that carries no grant although arguments were sent.
Allowed(allowed, granted, answered) == allowed /\ granted /\ answered

Authorize(allowed, answered) ==
  /\ call.at = "authorize"
  /\ LET granted == allowed /\ posture.governing = "granting"
     IN  /\ grants' = IF granted THEN Append(grants, [tool |-> call.tool, used |-> FALSE]) ELSE grants
         /\ call' = IF Allowed(allowed, granted, answered)
                    THEN [call EXCEPT !.at = "redeem", !.grant = Len(grants')]
                    ELSE [call EXCEPT !.at = "refused"]
  /\ UNCHANGED <<posture, run, saved, workVars, records, torn, crashes>>

\* The governor redeems a grant once, and for the call it is bound to (external).
Consumes(willing) ==
  willing /\ ~grants[call.grant].used /\ grants[call.grant].tool = call.tool

\* Slip: an answer that did not come is taken for a redemption.
RedeemedUnless(consumed, answered) == answered => consumed

\* The client: redeemed is TRUE only when an answer says so.
Redeemed(consumed, answered) == consumed /\ answered

RedeemedSigned(consumed, answered) == consumed /\ answered

\* The governor's ledger, and whether the loop goes on to execute.
AfterRedemption(consumed, redeemed) ==
  /\ grants' = IF consumed THEN [grants EXCEPT ![call.grant].used = TRUE] ELSE grants
  /\ call' = [call EXCEPT !.at = IF redeemed THEN "execute" ELSE "refused"]
  /\ UNCHANGED <<posture, run, saved, workVars, records, torn, crashes>>

\* The loop executes only if the answer names the tool that is about to run.
Redeem(willing, answered, echoed) ==
  /\ call.at = "redeem" /\ ~Linked
  /\ AfterRedemption(Consumes(willing), Redeemed(Consumes(willing), answered) /\ echoed)

RedeemGovernanceGrant(willing, answered, echoed) ==
  /\ call.at = "redeem" /\ Linked
  /\ AfterRedemption(Consumes(willing), RedeemedSigned(Consumes(willing), answered) /\ echoed)

\* What a tool may leave in the workspace besides what it tracks: a write that
\* fails may leave its file, and a command any file at all.
Leaves(tool) == IF tool.kind = "write_file" THEN {{}, {tool.arg}} ELSE SUBSET File

Effected ==
  effects' = effects \cup {[n |-> Cardinality(effects) + 1, tool |-> call.tool, grant |-> call.grant]}

\* The tool runs and answers.  Only a write_file that went well tracks its path.
Execute(ok, left) ==
  /\ call.at = "execute" /\ left \in Leaves(call.tool) /\ Effected
  /\ tracker' = tracker \cup IF ok /\ call.tool.kind = "write_file" THEN {call.tool.arg} ELSE {}
  /\ disk' = disk \cup tracker' \cup left
  /\ torn' = [torn EXCEPT !.files = (@ \cup left) \ tracker']
  /\ call' = [call EXCEPT !.at = IF ok THEN "record" ELSE "record_failed"]
  /\ UNCHANGED <<posture, run, saved, auditVars, crashes>>

\* The tool raises (output that does not decode, text that does not encode): the
\* exception leaves governed() and the run before any record is made.
ExecuteRaises(left) ==
  /\ call.at = "execute" /\ left \in Leaves(call.tool) /\ Effected
  /\ RunRaises(disk \cup left, left \ saved.changed)

Outcome ==
  CASE call.at = "record" -> "succeeded"
    [] call.at = "record_failed" -> "failed"
    [] OTHER -> "refused"

\* An Execution Record of a linked call; build_execution_record refuses a
\* success without a redemption, and a sink that fails is only logged.
RecordCall(stored) ==
  /\ call.at \in {"record", "record_failed", "refused"}
  /\ records' = IF Linked /\ stored
                THEN records \cup {[outcome |-> Outcome, tool |-> call.tool, grant |-> call.grant]}
                ELSE records
  /\ torn' = [torn EXCEPT !.records = @ \/ (Linked /\ ~stored)]
  /\ tracker' = tracker
  /\ Observe(run.subtasks)
  /\ UNCHANGED <<posture, disk, effects, grants, crashes>>

LoopNext ==
  \/ StartRun \/ Crash \/ Finalize \/ HandBack \/ ActRaises \/ Redispatch
  \/ \E reply \in Reply : Act(reply)
  \/ RunToolHere \/ RunTool
  \/ \E allowed, answered \in BOOLEAN : Authorize(allowed, answered)
  \/ \E willing, answered, echoed \in BOOLEAN :
       Redeem(willing, answered, echoed) \/ RedeemGovernanceGrant(willing, answered, echoed)
  \/ \E left \in SUBSET File : ExecuteRaises(left) \/ \E ok \in BOOLEAN : Execute(ok, left)
  \/ \E stored \in BOOLEAN : RecordCall(stored)

LoopSpec == LoopInit /\ [][LoopNext]_loopVars

-----------------------------------------------------------------------------
\* Nothing runs ungoverned: once a governor is bound or a grant is carried, every
\* execution of a tool used up a grant of its own, issued for that very call,
\* through lost answers, crashes between redemption and effect, and resumed runs;
\* a governor that cannot grant or redeem lets nothing run at all.
GovernedEffects ==
  posture.governing # "ungoverned" =>
    /\ \A e \in effects : /\ e.grant \in DOMAIN grants
                          /\ grants[e.grant] = [tool |-> e.tool, used |-> TRUE]
    /\ \A e, f \in effects : e.grant = f.grant => e = f

\* The ledger's records match what ran: a linked run records a success only for a
\* tool that executed under the carried grant, and once no call is under way an
\* execution has its record unless a crash, a failing sink or a tool that raised
\* lost it.
RecordsMatchEffects ==
  Linked =>
    /\ \A r \in records : r.outcome # "refused" =>
         \E e \in effects : e.tool = r.tool /\ e.grant = r.grant
    /\ call = NoCall /\ ~torn.records =>
         \A e \in effects : \E r \in records :
           r.outcome # "refused" /\ r.tool = e.tool /\ r.grant = e.grant

\* A result names every file that write_file wrote, before a crash and after it.
\* What may go unmentioned: a file a command left or a write that failed, one of a
\* node that never completed, and those of an earlier run of the task that ended
\* and crashed before its result was handed back.
ChangesReported ==
  run.node = "end" => disk \subseteq run.changed \cup torn.files

\* What the agent runtime promises (runtime/graph.py, runtime/agent.py): no ungoverned
\* effect, truthful execution records, and a result that names what was written.
LoopSafe == GovernedEffects /\ RecordsMatchEffects /\ ChangesReported
=============================================================================
