----------------------------- MODULE Workflows -----------------------------
(***************************************************************************)
(* The durable execution backend: a subtask, its approval and a review     *)
(* driven by workflows of a Temporal server.  The ledger is the truth and  *)
(* is changed by service calls, here atomic (SubtaskLedger has their       *)
(* steps); a workflow learns of a human's decision by a signal sent after  *)
(* the ledger was written, to the handle rows that look live, and a signal *)
(* that fails is only logged.  Activities are retried: an attempt may run  *)
(* and its answer be lost, or time out while its thread goes on.           *)
(***************************************************************************)
EXTENDS Transitions

CONSTANTS
  DecisionTries,  \* attempts of a routing or approval activity (5 in the code)
  WorkerTries     \* attempts of run_worker (3 in the code)

ASSUME WorkflowConstants == DecisionTries \in Nat \ {0} /\ WorkerTries \in Nat \ {0}

VARIABLES
  subtask,   \* the subtask's row: status, worker ("none", "free", "paid"), approved
  record,    \* the status of its latest approval record, "none" before one
  execution, \* executions.state of the workflow's handle row, "none" before it
  wf,        \* the SubtaskWorkflow: where it is, and its own fields
  harness,   \* threads of run_worker that are still running the worker
  signals,   \* signals the service is about to send
  review,    \* the review's row, its workflow and the requester's inbox
  missed,    \* a signal was sent in vain, or found no handle to go to
  forged     \* a signal came through POST /workflows/{id}/signal

workflowVars ==
  <<subtask, record, execution, wf, harness, signals, review, missed, forged>>
ledgerVars == <<subtask, record>>

RunningExecution == {"running", "waiting_approval"}

WorkflowInit ==
  /\ subtask = [status |-> "queued", worker |-> "none", approved |-> FALSE]
  /\ record = "none" /\ execution = "none" /\ harness = {}
  /\ wf = [at |-> "unstarted", approval |-> "none", cancelled |-> FALSE,
           tries |-> 0, result |-> "none"]
  /\ signals = {} /\ missed = FALSE /\ forged = FALSE
  /\ review = [status |-> "open", at |-> "unstarted", heard |-> "none",
               result |-> "none", inbox |-> 0]

Write(s) == subtask' = [subtask EXCEPT !.status = s]

-----------------------------------------------------------------------------
(* The client: start, poll, signal.                                        *)

\* _start asks the server first ...
StartWorkflow ==
  /\ wf.at = "unstarted"
  /\ wf' = [wf EXCEPT !.at = "recall"]
  /\ UNCHANGED <<ledgerVars, execution, harness, signals, review, missed, forged>>

\* ... and writes the handle row when the server has answered, if it does.
RecordHandle ==
  /\ wf.at # "unstarted" /\ execution = "none"
  /\ execution' = "running"
  /\ UNCHANGED <<ledgerVars, wf, harness, signals, review, missed, forged>>

\* The server's word on the workflow, folded into the handle row.
Described ==
  CASE wf.at = "over" -> IF wf.result = "error" THEN "failed" ELSE "completed"
    [] wf.at \in {"ask", "wait"} -> "waiting_approval"
    [] OTHER -> "running"

\* get_status; a server that is down leaves the row alone.
GetStatus ==
  /\ execution # "none" /\ execution # Described
  /\ execution' = Follow(execution, Described, RunningExecution)
  /\ UNCHANGED <<ledgerVars, wf, harness, signals, review, missed, forged>>

\* How a workflow takes a signal; one that is over cannot.
WfHeard(w, name) ==
  IF w.at = "over" THEN w
  ELSE CASE name = "cancel_requested" -> [w EXCEPT !.cancelled = TRUE]
         [] name = "approval_granted" -> [w EXCEPT !.approval = "granted"]
         [] OTHER -> [w EXCEPT !.approval = "denied"]

\* _signal_entity: nothing is sent to a handle that is missing or looks over.
SignalEntity(name) ==
  /\ name \in signals
  /\ signals' = signals \ {name}
  /\ \/ /\ \/ execution \in RunningExecution
           \/ name = "cancel_requested" /\ execution = "cancelled"
        /\ wf' = WfHeard(wf, name) /\ UNCHANGED missed
     \/ missed' = TRUE /\ UNCHANGED wf
  /\ UNCHANGED <<ledgerVars, execution, harness, review, forged>>

\* POST /workflows/{id}/signal hands any signal on, unchecked.
SignalWorkflow(name) ==
  /\ execution # "none" /\ ~forged
  /\ wf' = WfHeard(wf, name)
  /\ forged' = TRUE
  /\ UNCHANGED <<ledgerVars, execution, harness, signals, review, missed>>

-----------------------------------------------------------------------------
(* Service calls of humans and of the clock.                               *)

Send(name) == signals' = signals \cup {name}

\* approve_subtask: the grant, then the signal.
ApproveSubtask ==
  /\ subtask.status = "needs_approval"
  /\ subtask' = [subtask EXCEPT !.status = "queued", !.approved = TRUE]
  /\ record' = "granted"
  /\ Send("approval_granted")
  /\ UNCHANGED <<execution, wf, harness, review, missed, forged>>

\* deny_subtask, and expire_approval when the clock of the record runs out.
DenySubtask(verdict) ==
  /\ subtask.status = "needs_approval"
  /\ verdict = "expired" => record = "pending"
  /\ record' = IF record = "pending" THEN verdict ELSE record
  /\ Write("failed")
  /\ Send("approval_denied")
  /\ UNCHANGED <<execution, wf, harness, review, missed, forged>>

\* cancel_subtask: the ledger first, then the handle, then the signal.
CancelSubtask ==
  /\ subtask.status \notin TerminalSubtask
  /\ Write("cancelled")
  /\ execution' = Follow(execution, "cancelled", RunningExecution)
  /\ IF execution \in RunningExecution
       THEN Send("cancel_requested") /\ UNCHANGED missed
       ELSE missed' = TRUE /\ UNCHANGED signals
  /\ UNCHANGED <<record, wf, harness, review, forged>>

-----------------------------------------------------------------------------
(* SubtaskWorkflow.run.                                                    *)

WfAt(step) == wf.at = step
WfMove(step) == wf' = [wf EXCEPT !.at = step, !.tries = 0]
WfEnd(result) == wf' = [wf EXCEPT !.at = "over", !.result = result]

\* An attempt that raised, or whose answer was lost: again, or the workflow
\* fails with it.
WfRetry(max) == IF wf.tries + 1 < max THEN wf' = [wf EXCEPT !.tries = @ + 1] ELSE WfEnd("error")

\* load_subtask and recall_context: a memory outage is only a warning.
RecallContext ==
  /\ WfAt("recall") /\ WfMove("route")
  /\ UNCHANGED <<ledgerVars, execution, harness, signals, review, missed, forged>>

Unrouted == subtask.status \notin {"queued", "needs_approval"}

RouteTo(out) ==
  CASE out \in {"free", "paid"} ->
         subtask' = [subtask EXCEPT !.status = "queued", !.worker = out] /\ UNCHANGED record
    [] out = "approval" ->
         subtask' = [subtask EXCEPT !.status = "needs_approval", !.worker = "none"]
         /\ record' = "pending"
    [] OTHER ->
         subtask' = [subtask EXCEPT !.status = "failed", !.worker = "none"] /\ UNCHANGED record

\* What the workflow does with a route it hears of.
FollowRoute(out) ==
  CASE out \in {"free", "paid"} -> WfMove(IF wf.cancelled THEN "cancel" ELSE "run")
    [] out = "approval" /\ WfAt("route") -> WfMove("ask")
    [] out = "nobody" /\ WfAt("route") /\ wf.cancelled -> WfMove("cancel")
    [] OTHER -> WfEnd("failed")

\* Slip: the workflow's own word that a grant came is enough.
RouteChoicesOnSignal ==
  IF subtask.approved \/ wf.approval = "granted" THEN {"free", "paid", "nobody"}
  ELSE {"free", "approval", "nobody"}

\* What the router may answer: the approval gate reads the ledger's row.
RouteChoices ==
  IF subtask.approved THEN {"free", "paid", "nobody"} ELSE {"free", "approval", "nobody"}

\* The route_subtask activity, before an approval and after one.
RouteSubtask(out, answered) ==
  /\ wf.at \in {"route", "reroute"}
  /\ \/ /\ Unrouted /\ out = "nobody" /\ ~answered
        /\ WfRetry(DecisionTries) /\ UNCHANGED ledgerVars
     \/ /\ ~Unrouted
        /\ out \in RouteChoices
        /\ RouteTo(out)
        /\ IF answered THEN FollowRoute(out) ELSE WfRetry(DecisionTries)
  /\ UNCHANGED <<execution, harness, signals, review, missed, forged>>

\* The request_approval activity raises when nothing is pending any more.
RequestApproval ==
  /\ WfAt("ask")
  /\ IF record = "pending" THEN WfMove("wait") ELSE WfRetry(DecisionTries)
  /\ UNCHANGED <<ledgerVars, execution, harness, signals, review, missed, forged>>

WaitCondition == wf.approval # "none" \/ wf.cancelled

Resume ==
  /\ WfAt("wait") /\ WaitCondition
  /\ IF wf.cancelled THEN WfMove("cancel")
     ELSE IF wf.approval = "denied" THEN WfEnd("failed") ELSE WfMove("reroute")
  /\ UNCHANGED <<ledgerVars, execution, harness, signals, review, missed, forged>>

\* run_worker claims a queued subtask and runs its worker in a thread; on any
\* other it answers with the status the ledger shows.
RunWorker ==
  /\ WfAt("run")
  /\ IF subtask.status = "queued" /\ subtask.worker # "none"
       THEN /\ Write("running")
            /\ harness' = harness \cup {[attempt |-> wf.tries, worker |-> subtask.worker]}
            /\ wf' = [wf EXCEPT !.at = "running"]
       ELSE /\ WfEnd(subtask.status)
            /\ UNCHANGED <<subtask, harness>>
  /\ UNCHANGED <<record, execution, signals, review, missed, forged>>

\* A thread's worker returns: its result lands on a subtask that still runs,
\* and is the answer of the attempt the workflow is waiting for.
WorkerReturns(h, result) ==
  /\ h \in harness
  /\ harness' = harness \ {h}
  /\ subtask' = [subtask EXCEPT !.status = Advance(@, result, {"running"})]
  /\ IF WfAt("running") /\ wf.tries = h.attempt THEN WfEnd(subtask'.status) ELSE UNCHANGED wf
  /\ UNCHANGED <<record, execution, signals, review, missed, forged>>

\* The attempt times out; its thread goes on, or died with its process.
AttemptTimesOut(died) ==
  /\ WfAt("running")
  /\ harness' = IF died THEN {} ELSE harness
  /\ IF wf.tries + 1 < WorkerTries THEN wf' = [wf EXCEPT !.at = "run", !.tries = @ + 1]
                                   ELSE WfEnd("error")
  /\ UNCHANGED <<ledgerVars, execution, signals, review, missed, forged>>

\* _cancel: the cancel_subtask activity, and what the workflow reports.
CancelWorkflow ==
  /\ WfAt("cancel")
  /\ Write(Cancel(subtask.status, TerminalSubtask))
  /\ WfEnd("cancelled")
  /\ UNCHANGED <<record, execution, harness, signals, review, missed, forged>>

-----------------------------------------------------------------------------
(* ReviewWorkflow.run: load, mirror, wait for the result or the window.    *)

StartReview ==
  /\ review.at = "unstarted"
  /\ review' = [review EXCEPT !.at = "wait"]
  /\ UNCHANGED <<ledgerVars, execution, wf, harness, signals, missed, forged>>

\* complete_review writes the result, then signals.
CompleteReview(verdict, delivered) ==
  /\ review.status = "open"
  /\ review' = [review EXCEPT !.status = verdict,
                              !.heard = IF delivered /\ review.at = "wait" THEN verdict ELSE @]
  /\ UNCHANGED <<ledgerVars, execution, wf, harness, signals, missed, forged>>

\* The window closes: the requester is told.  The notice is keyed by what it
\* says, so an attempt whose answer was lost adds no second one.
ReviewWindowCloses(answered) ==
  /\ review.at = "wait" /\ review.heard = "none"
  /\ review' = [review EXCEPT !.inbox = 1, !.at = IF answered THEN "over" ELSE @,
                              !.result = IF answered THEN "needs_attention" ELSE @]
  /\ UNCHANGED <<ledgerVars, execution, wf, harness, signals, missed, forged>>

ReviewResumes ==
  /\ review.at = "wait" /\ review.heard # "none"
  /\ review' = [review EXCEPT !.at = "over", !.result = review.heard]
  /\ UNCHANGED <<ledgerVars, execution, wf, harness, signals, missed, forged>>

WorkflowNext ==
  \/ StartWorkflow \/ RecordHandle \/ GetStatus
  \/ \E name \in {"approval_granted", "approval_denied", "cancel_requested"} :
       SignalEntity(name) \/ SignalWorkflow(name)
  \/ ApproveSubtask \/ (\E verdict \in {"denied", "expired"} : DenySubtask(verdict))
  \/ CancelSubtask \/ RecallContext
  \/ \E out \in {"free", "paid", "approval", "nobody"}, answered \in BOOLEAN :
       RouteSubtask(out, answered)
  \/ RequestApproval \/ Resume \/ RunWorker
  \/ \E h \in harness, result \in {"succeeded", "failed"} : WorkerReturns(h, result)
  \/ (\E died \in BOOLEAN : AttemptTimesOut(died)) \/ CancelWorkflow
  \/ StartReview \/ ReviewResumes
  \/ \E verdict \in {"completed", "rejected"}, delivered \in BOOLEAN :
       CompleteReview(verdict, delivered)
  \/ \E answered \in BOOLEAN : ReviewWindowCloses(answered)

WorkflowSpec == WorkflowInit /\ [][WorkflowNext]_workflowVars

-----------------------------------------------------------------------------
\* What a workflow reports is what the ledger says: unless someone signalled it
\* by hand, a SubtaskWorkflow that ends with an outcome leaves the subtask in
\* that outcome, and a ReviewWorkflow that ends with a verdict the review in
\* that verdict -- through lost answers, timed-out attempts whose threads go on,
\* and decisions that race one another.
ReportsTruth ==
  /\ ~forged /\ wf.at = "over" /\ wf.result \in TerminalSubtask =>
       subtask.status = wf.result
  /\ review.at = "over" /\ review.result # "needs_attention" => review.status = review.result

\* No wait without a cause: a workflow that waits for a human and has heard
\* nothing waits for a subtask that still needs the approval that is pending, or
\* a signal is on its way, or one was lost.
WaitHasCause ==
  wf.at = "wait" /\ ~WaitCondition =>
    \/ subtask.status = "needs_approval" /\ record = "pending"
    \/ signals # {} \/ missed

\* A signal is not an approval: whatever is signalled, a paid worker runs only
\* on a grant in the ledger, and never twice at once.
SignalIsNotApproval ==
  /\ Cardinality(harness) <= 1
  /\ (\E h \in harness : h.worker = "paid") => record = "granted"

\* What the durable workflows promise the ledger (agentconnect-temporal): they
\* report the truth, never wait without a cause, and never take a signal for a grant.
WorkflowSafe == ReportsTruth /\ WaitHasCause /\ SignalIsNotApproval
=============================================================================
