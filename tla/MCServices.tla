----------------------------- MODULE MCServices -----------------------------
(***************************************************************************)
(* The services around the ledger, which share no state in the code: the   *)
(* model manager, the memory stack, the workflows, the agent runtime, the  *)
(* event bus, the shadow evaluation, the governed worker runs and the      *)
(* tracker mirror.  A behaviour is about one of them (focus), the others   *)
(* rest in one of their initial states.                                    *)
(***************************************************************************)
EXTENDS Residency, ContextPack, Workflows, AgentLoop, EventBus, ControlShadow, WorkerRuns, LinearSync, TLC
CONSTANTS c1, c2, d1, d2, baseline, presidio, y1, y2

Symmetry == Permutations(Syncer)

\* d1 is merged with c1 though it says something else, and d2 has no key.
MCTextOf == c1 :> "t1" @@ c2 :> "t2" @@ d1 :> "t3" @@ d2 :> "t4"
MCKeyOf == "t1" :> "k1" @@ "t2" :> "k2" @@ "t3" :> "k1" @@ "t4" :> ""
MCKind == "key" :> [category |-> "secret", risk |-> "high"]
  @@ "name" :> [category |-> "pii", risk |-> "medium"]
  @@ "order" :> [category |-> "prompt_injection", risk |-> "high"]
MCContent == "t1" :> {"key"} @@ "t2" :> {"name"} @@ "t3" :> {"key", "name"} @@ "t4" :> {"order"}
MCSupersedes == c1 :> {} @@ c2 :> {c1}
MCScopeOf == c1 :> "repo" @@ c2 :> "project"
MCDetects == baseline :> {"secret", "prompt_injection"} @@ presidio :> {"pii", "secret"}
MCObservedTier == "o1" :> "repo_sensitive" @@ "o2" :> "local_only"
MCSubtaskTier == "r1" :> "public_redacted"

VARIABLE focus
MCInit ==
  /\ ResidencyInit /\ ContextInit /\ WorkflowInit /\ LoopInit /\ BusInit /\ ShadowInit /\ RunsInit
  /\ LinearInit
  /\ focus \in {"residency", "context", "workflows", "loop", "bus", "shadow", "runs", "linear"}
  /\ focus # "loop" => posture = [governing |-> "ungoverned", durable |-> FALSE, shell |-> FALSE]
  /\ focus # "bus" => page.phase = "poll"
  /\ focus # "runs" => governor = "none" /\ \A p \in Preparation : prep[p].door = "authorize_tool_use"
  /\ ~secret \* a task that is secret from the start is one whose tier rises first
MCNext ==
  /\ UNCHANGED focus
  /\ focus # "residency" => UNCHANGED residencyVars
  /\ focus # "context" => UNCHANGED contextVars
  /\ focus # "workflows" => UNCHANGED workflowVars
  /\ focus # "loop" => UNCHANGED loopVars
  /\ focus # "bus" => UNCHANGED busVars
  /\ focus # "shadow" => UNCHANGED shadowVars
  /\ focus # "runs" => UNCHANGED runVars
  /\ focus # "linear" => UNCHANGED linearVars
  /\ \/ focus = "residency" /\ ResidencyNext
     \/ focus = "context" /\ ContextNext
     \/ focus = "workflows" /\ WorkflowNext
     \/ focus = "loop" /\ LoopNext
     \/ focus = "bus" /\ BusNext
     \/ focus = "shadow" /\ ShadowNext
     \/ focus = "runs" /\ RunsNext
     \/ focus = "linear" /\ LinearNext
MCSpec == MCInit /\ [][MCNext]_<<residencyVars, contextVars, workflowVars, loopVars, busVars,
                                 shadowVars, runVars, linearVars, focus>>
=============================================================================
