---------------------------- MODULE Transitions ----------------------------
(***************************************************************************)
(* The transition authority (common/transitions.py) and the vocabularies   *)
(* of the core ledger (core/transition_vocab.py, core/subtasks.py).        *)
(*                                                                         *)
(* Every state column of the ledger is written through one of four verbs,  *)
(* each one locked read-decide-write of a row.  The verbs are operators    *)
(* here: what they leave in the row, given what they find in it, and for   *)
(* the strict verb whether it raises.  A terminal state has no edges, so   *)
(* the refusal of a terminal row needs no case of its own.                 *)
(***************************************************************************)
EXTENDS Naturals, FiniteSets

SubtaskStatus == {"blocked", "queued", "needs_approval", "running",
                  "succeeded", "failed", "cancelled"}

TerminalSubtask == {"succeeded", "failed", "cancelled"}

SubtaskEdges(src) ==
  CASE src = "blocked"        -> {"queued", "failed", "cancelled"}
    [] src = "queued"         -> {"running", "needs_approval", "failed", "cancelled"}
    [] src = "needs_approval" -> {"running", "queued", "failed", "cancelled"}
    [] src = "running"        -> {"succeeded", "failed", "cancelled"}
    [] OTHER                  -> {}

TaskStatus == {"queued", "in_progress", "needs_review", "needs_approval",
               "succeeded", "cancelled"}

TerminalTaskStatus == {"succeeded", "cancelled"}

RunStatus == {"running", "succeeded", "failed", "cancelled"}

TerminalRun == {"succeeded", "failed", "cancelled"}

ApprovalStatus == {"pending", "granted", "denied", "expired"}

ApprovalEdges(src) ==
  IF src = "pending" THEN {"granted", "denied", "expired"} ELSE {}

ExecutionState == {"waiting_approval", "completed", "failed", "cancelled"}

\* Executions that can still receive a signal.
LiveExecution == {"waiting_approval"}

----------------------------------------------------------------------------
\* Slip: any state may be left for any other.
AdmitsAll(edges, cur, dst) == TRUE

\* transition(): a no-op at the destination, a write along an edge; any
\* other state, terminal ones included, raises.
Admits(edges, cur, dst) == cur = dst \/ dst \in edges

\* advance(): a write out of the named states, a no-op elsewhere.
Advance(cur, dst, from) == IF cur \in from THEN dst ELSE cur

\* converge(), for a vocabulary whose live states are fully connected: a
\* terminal state is final, anything else follows.
Follow(cur, dst, live) == IF cur \in live THEN dst ELSE cur

\* cancel(): a terminal state is kept and reported, anything else ends.
Cancel(cur, terminal) == IF cur \in terminal THEN cur ELSE "cancelled"

============================================================================
