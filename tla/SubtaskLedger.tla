--------------------------- MODULE SubtaskLedger ---------------------------
(***************************************************************************)
(* The subtasks of one task in the core ledger (core/service.py), driven   *)
(* by several callers at once: request threads of the API, activities of   *)
(* the workflow server and their retries, operators.                       *)
(*                                                                         *)
(* No lock spans a service method.  Only the storage calls are atomic, so  *)
(* a method is a sequence of steps between which the other callers run.    *)
(* todo[p] is the stack of what caller p has yet to do; the direct backend *)
(* (core/execution.py) runs a subtask inside the call that starts it, and  *)
(* the success of one subtask releases and runs the next one in the same   *)
(* call.  An exception leaves the whole stack, and so does a Crash of the  *)
(* process.                                                                *)
(***************************************************************************)
EXTENDS Transitions, Sequences

CONSTANTS
  Subtask,       \* subtask ids
  Proc,          \* concurrent callers of the service
  MaxCalls,      \* bound on the calls and crashes of a behaviour
  MaxCrashes     \* bound on the crashes among them

ASSUME LedgerBounds == MaxCalls \in Nat /\ MaxCrashes \in Nat

VARIABLES
  status,    \* subtasks.status; "absent" before submit_subtask
  deps,      \* subtasks.depends_on
  route,     \* subtasks.route_reason: what the router said last
  approver,  \* subtasks.approved_by is set
  approvals, \* the approval records of each subtask, in order
  runs,      \* the worker_runs of each subtask, in order
  handle,    \* executions.state of the direct backend's handle
  task,      \* tasks.status
  todo,      \* what each caller has yet to do
  calls,     \* the calls and crashes so far
  crashes    \* the crashes so far

vars == <<status, deps, route, approver, approvals, runs, handle, task, todo, calls, crashes>>

Init ==
  /\ status = [s \in Subtask |-> "absent"]
  /\ deps = [s \in Subtask |-> {}]
  /\ route = [s \in Subtask |-> "none"]
  /\ approver = [s \in Subtask |-> FALSE]
  /\ approvals = [s \in Subtask |-> <<>>]
  /\ runs = [s \in Subtask |-> <<>>]
  /\ handle = [s \in Subtask |-> "none"]
  /\ task = "queued"
  /\ todo = [p \in Proc |-> <<>>]
  /\ calls = 0
  /\ crashes = 0

----------------------------------------------------------------------------
(* The callers' stacks.                                                    *)

Exists(s) == status[s] # "absent"

Idle(p) == todo[p] = <<>>

Doing(p, op) == todo[p] # <<>> /\ Head(todo[p]).op = op

It(p) == Head(todo[p])

Call(p, items) ==
  /\ Idle(p)
  /\ calls < MaxCalls
  /\ calls' = calls + 1
  /\ todo' = [todo EXCEPT ![p] = items]

Go(p, items) == todo' = [todo EXCEPT ![p] = items \o Tail(todo[p])]

Raise(p) == todo' = [todo EXCEPT ![p] = <<>>]

Do(op, s) == [op |-> op, s |-> s]
DoSet(op, set) == [op |-> op, set |-> set]
DoEach(op, set) == IF set = {} THEN <<>> ELSE <<DoSet(op, set)>>
DoNth(op, s, n) == [op |-> op, s |-> s, n |-> n]

\* Steps that end by telling the backend: then is "start" or "resume" in
\* the direct backend, "activity" when the workflow server called.
DoThen(op, s, then) == [op |-> op, s |-> s, then |-> then]
Tell(s, then, state) ==
  IF then = "activity" THEN <<>>
  ELSE <<[op |-> "handle", s |-> s, then |-> then, state |-> state]>>

\* A strict write of a subtask's status, and what follows when it does not
\* raise.
Write(p, s, dst, items) ==
  IF Admits(SubtaskEdges(status[s]), status[s], dst)
  THEN status' = [status EXCEPT ![s] = dst] /\ Go(p, items)
  ELSE Raise(p) /\ UNCHANGED status

----------------------------------------------------------------------------
(* submit_subtask.                                                         *)

Unmet(D) == {d \in D : status[d] # "succeeded"}

\* The checks: the task is open, the dependencies exist, which are unmet.
Submit(p, s, D) ==
  /\ ~Exists(s)
  /\ \A q \in Proc : ~(Doing(q, "insert") /\ It(q).s = s)
  /\ task \notin TerminalTaskStatus
  /\ \A d \in D : Exists(d)
  /\ Call(p, <<[op |-> "insert", s |-> s, set |-> D, unmet |-> Unmet(D)]>>)
  /\ UNCHANGED <<status, deps, route, approver, approvals, runs, handle, task, crashes>>

\* The INSERT, on the strength of the checks; a subtask that waits for
\* nothing is started in the same call.
Insert(p) ==
  /\ Doing(p, "insert")
  /\ LET s == It(p).s
     IN  /\ deps' = [deps EXCEPT ![s] = It(p).set]
         /\ IF It(p).unmet # {}
            THEN status' = [status EXCEPT ![s] = "blocked"] /\ Go(p, <<>>)
            ELSE status' = [status EXCEPT ![s] = "queued"]
                 /\ Go(p, <<DoThen("route", s, "start")>>)
  /\ UNCHANGED <<route, approver, approvals, runs, handle, task, calls, crashes>>

----------------------------------------------------------------------------
(* route_subtask.                                                          *)

\* The workers that may be chosen: a paid one only with an approval; when
\* nothing is left, a human may be asked if that would help.
RouteOutcomes(s) ==
  IF approver[s] THEN {"free", "paid", "nobody"} ELSE {"free", "approval", "nobody"}

\* The decision, on the subtask as it is read ...
Route(p, out) ==
  /\ Doing(p, "route")
  /\ LET s == It(p).s
     IN  IF status[s] \in {"queued", "needs_approval"}
         THEN /\ out \in RouteOutcomes(s)
              /\ Go(p, <<[op |-> "persist", s |-> s, then |-> It(p).then, out |-> out]>>)
         ELSE out = "nobody" /\ Raise(p)
  /\ UNCHANGED <<status, deps, route, approver, approvals, runs, handle, task, calls, crashes>>

\* ... is stored in route_reason, which nothing guards.
Persist(p) ==
  /\ Doing(p, "persist")
  /\ route' = [route EXCEPT ![It(p).s] = It(p).out]
  /\ Go(p, <<[It(p) EXCEPT !.op = "routed"]>>)
  /\ UNCHANGED <<status, deps, approver, approvals, runs, handle, task, calls, crashes>>

\* The status write that follows the decision.
Routed(p) ==
  /\ Doing(p, "routed")
  /\ LET s == It(p).s
         then == It(p).then
     IN  CASE It(p).out \in {"free", "paid"} ->
                Write(p, s, "queued", IF then = "activity" THEN <<>>
                                      ELSE <<DoThen("run", s, then)>>)
           [] It(p).out = "approval" ->
                Write(p, s, "needs_approval",
                      <<Do("flag", s), Do("ask", s)>> \o Tell(s, then, "waiting_approval"))
           [] OTHER ->
                Write(p, s, "failed",
                      <<Do("settle", s)>> \o Tell(s, then, "failed"))
  /\ UNCHANGED <<deps, route, approver, approvals, runs, handle, task, calls, crashes>>

\* The task waits for a human, too ...
Flag(p) ==
  /\ Doing(p, "flag")
  /\ task' = Advance(task, "needs_approval", {"queued", "in_progress"})
  /\ Go(p, <<>>)
  /\ UNCHANGED <<status, deps, route, approver, approvals, runs, handle, calls, crashes>>

Pending(s) == {i \in 1..Len(approvals[s]) : approvals[s][i] = "pending"}

\* pending_approval_for: the latest pending approval, 0 for none.
LatestPending(s) ==
  IF Pending(s) = {} THEN 0
  ELSE CHOOSE i \in Pending(s) : \A j \in Pending(s) : j <= i

\* ... and an approval is asked for, unless one is already pending.
Ask(p) ==
  /\ Doing(p, "ask")
  /\ Go(p, IF LatestPending(It(p).s) = 0 THEN <<Do("asking", It(p).s)>> ELSE <<>>)
  /\ UNCHANGED <<status, deps, route, approver, approvals, runs, handle, task, calls, crashes>>

Asking(p) ==
  /\ Doing(p, "asking")
  /\ approvals' = [approvals EXCEPT ![It(p).s] = Append(@, "pending")]
  /\ Go(p, <<>>)
  /\ UNCHANGED <<status, deps, route, approver, runs, handle, task, calls, crashes>>

\* The direct backend's handle: put_execution after start_subtask, the
\* mirror of update_execution after a signal, nothing for an activity.  A
\* run is told by the status it left.
Handle(p) ==
  /\ Doing(p, "handle")
  /\ LET s == It(p).s
         told == IF It(p).state = "outcome"
                 THEN IF status[s] = "succeeded" THEN "completed" ELSE "failed"
                 ELSE IF It(p).then = "resume" THEN "failed" ELSE It(p).state
     IN  handle' = [handle EXCEPT ![s] =
                      IF It(p).then = "start" THEN told ELSE Follow(@, told, LiveExecution)]
  /\ Go(p, <<>>)
  /\ UNCHANGED <<status, deps, route, approver, approvals, runs, task, calls, crashes>>

----------------------------------------------------------------------------
(* run_subtask, _execute, _record_result.                                  *)

\* The checks of run_subtask: a finished subtask is returned as it is.
Run(p) ==
  /\ Doing(p, "run")
  /\ LET s == It(p).s
     IN  IF status[s] \in TerminalSubtask THEN Go(p, Tell(s, It(p).then, "outcome"))
         ELSE IF status[s] = "queued" /\ route[s] \in {"free", "paid"}
         THEN Go(p, <<[op |-> "claim", s |-> s, worker |-> route[s]]>>
                    \o Tell(s, It(p).then, "outcome"))
         ELSE Raise(p)
  /\ UNCHANGED <<status, deps, route, approver, approvals, runs, handle, task, calls, crashes>>

\* Slip: the claim trusts the check.
ClaimableFrom == {"queued", "running"}

\* advance(queued -> running): the loser raises.
ClaimFrom == {"queued"}

Claim(p) ==
  /\ Doing(p, "claim")
  /\ LET s == It(p).s
     IN  IF status[s] \in ClaimFrom
         THEN /\ status' = [status EXCEPT ![s] = "running"]
              /\ Go(p, <<[op |-> "govern", s |-> s, worker |-> It(p).worker]>>)
         ELSE Raise(p) /\ UNCHANGED status
  /\ UNCHANGED <<deps, route, approver, approvals, runs, handle, task, calls, crashes>>

\* The tool governor's verdict on the worker's declared tools.  A denial
\* fails the subtask, if it still runs, and the dependents in any case.
Govern(p, allowed) ==
  /\ Doing(p, "govern")
  /\ LET s == It(p).s
     IN  IF allowed
         THEN /\ Go(p, <<[op |-> "spawn", s |-> s, worker |-> It(p).worker]>>)
              /\ UNCHANGED status
         ELSE /\ status' = [status EXCEPT ![s] = Advance(@, "failed", {"running"})]
              /\ Go(p, <<Do("settle", s), DoSet("cascade", {s})>>)
  /\ UNCHANGED <<deps, route, approver, approvals, runs, handle, task, calls, crashes>>

\* The run row; a cancel of the subtask is not looked for.
Spawn(p) ==
  /\ Doing(p, "spawn")
  /\ LET s == It(p).s
     IN  /\ runs' = [runs EXCEPT ![s] = Append(@, [status |-> "running", worker |-> It(p).worker])]
         /\ Go(p, <<Do("progress", s), DoNth("work", s, Len(runs[s]) + 1)>>)
  /\ UNCHANGED <<status, deps, route, approver, approvals, handle, task, calls, crashes>>

Progress(p) ==
  /\ Doing(p, "progress")
  /\ task' = Advance(task, "in_progress", {"queued", "needs_approval"})
  /\ Go(p, <<>>)
  /\ UNCHANGED <<status, deps, route, approver, approvals, runs, handle, calls, crashes>>

\* Slip: a late result is recorded on a subtask that was cancelled.
LandsAlways(s) == TRUE

\* The zombie-write guard.
Lands(s) == status[s] = "running"

\* The worker returns, or raises; its result lands if the subtask still runs.
Work(p, result) ==
  /\ Doing(p, "work")
  /\ LET s == It(p).s
     IN  IF Lands(s)
         THEN /\ status' = [status EXCEPT ![s] = Advance(@, result, {"running"})]
              /\ Go(p, <<[op |-> "row", s |-> s, n |-> It(p).n, to |-> result], Do("settle", s),
                         IF result = "succeeded" THEN Do("release", s) ELSE DoSet("cascade", {s})>>)
         ELSE Go(p, <<>>) /\ UNCHANGED status
  /\ UNCHANGED <<deps, route, approver, approvals, runs, handle, task, calls, crashes>>

\* The run row follows the subtask, in a commit of its own.
RunRow(p) ==
  /\ Doing(p, "row")
  /\ runs' = [runs EXCEPT ![It(p).s][It(p).n].status = Advance(@, It(p).to, {"running"})]
  /\ Go(p, <<>>)
  /\ UNCHANGED <<status, deps, route, approver, approvals, handle, task, calls, crashes>>

\* _settle_parent_after_subtask: what it sees ...
Settle(p) ==
  /\ Doing(p, "settle")
  /\ Go(p, IF task = "needs_approval" /\ \A s \in Subtask : status[s] # "needs_approval"
           THEN <<Do("unflag", It(p).s)>> ELSE <<>>)
  /\ UNCHANGED <<status, deps, route, approver, approvals, runs, handle, task, calls, crashes>>

\* ... and what it writes.
Unflag(p) ==
  /\ Doing(p, "unflag")
  /\ task' = Advance(task, "in_progress", {"needs_approval"})
  /\ Go(p, <<>>)
  /\ UNCHANGED <<status, deps, route, approver, approvals, runs, handle, calls, crashes>>

----------------------------------------------------------------------------
(* release_ready_subtasks and _cascade_dependency_failure.                 *)

\* Slip: a dependency that is over is taken for one that succeeded.
ReadyOver(s) == status[s] = "blocked" /\ \A d \in deps[s] : status[d] \in TerminalSubtask

Ready(s) == status[s] = "blocked" /\ Unmet(deps[s]) = {}

Release(p) ==
  /\ Doing(p, "release")
  /\ Go(p, DoEach("releasing", {s \in Subtask : Ready(s)}))
  /\ UNCHANGED <<status, deps, route, approver, approvals, runs, handle, task, calls, crashes>>

\* Each candidate is looked at again just before it is written.
Releasing(p) ==
  /\ Doing(p, "releasing")
  /\ \E s \in It(p).set :
       Go(p, (IF Ready(s) THEN <<Do("unblock", s)>> ELSE <<>>)
             \o DoEach("releasing", It(p).set \ {s}))
  /\ UNCHANGED <<status, deps, route, approver, approvals, runs, handle, task, calls, crashes>>

Unblock(p) ==
  /\ Doing(p, "unblock")
  /\ Write(p, It(p).s, "queued", <<DoThen("route", It(p).s, "start")>>)
  /\ UNCHANGED <<deps, route, approver, approvals, runs, handle, task, calls, crashes>>

\* The dependents left to fail, and the failed subtasks left to look at.
FailEach(left, stack) ==
  IF left = {} THEN DoEach("cascade", stack)
  ELSE <<[op |-> "failing", set |-> left, stack |-> stack]>>

\* The dependents of one failed subtask at a time, as list_subtasks shows
\* them ...
Cascade(p) ==
  /\ Doing(p, "cascade")
  /\ \E x \in It(p).set :
       Go(p, FailEach({s \in Subtask : x \in deps[s]}, It(p).set \ {x}))
  /\ UNCHANGED <<status, deps, route, approver, approvals, runs, handle, task, calls, crashes>>

\* ... and each that is still blocked fails and joins the stack.
Failing(p) ==
  /\ Doing(p, "failing")
  /\ \E s \in It(p).set :
       /\ status' = [status EXCEPT ![s] = Advance(@, "failed", {"blocked"})]
       /\ Go(p, FailEach(It(p).set \ {s},
                         It(p).stack \cup {c \in {s} : status[c] = "blocked"}))
  /\ UNCHANGED <<deps, route, approver, approvals, runs, handle, task, calls, crashes>>

----------------------------------------------------------------------------
(* Approvals: approve_subtask, deny_subtask, expire_approval.              *)

\* The check of the status and the approval the decision is about; a grant
\* creates one when none is pending.
Approve(p, s) ==
  /\ status[s] = "needs_approval"
  /\ LET n == LatestPending(s)
     IN  Call(p, IF n > 0 THEN <<DoNth("grant", s, n)>> ELSE <<Do("opening", s)>>)
  /\ UNCHANGED <<status, deps, route, approver, approvals, runs, handle, task, crashes>>

\* An approval that nobody asked for, to be granted at once.
Opening(p) ==
  /\ Doing(p, "opening")
  /\ LET s == It(p).s
     IN  /\ approvals' = [approvals EXCEPT ![s] = Append(@, "pending")]
         /\ Go(p, <<DoNth("grant", s, Len(approvals[s]) + 1)>>)
  /\ UNCHANGED <<status, deps, route, approver, runs, handle, task, calls, crashes>>

Deny(p, s) ==
  /\ status[s] = "needs_approval"
  /\ Call(p, <<DoNth("deny", s, LatestPending(s))>>)
  /\ UNCHANGED <<status, deps, route, approver, approvals, runs, handle, task, crashes>>

\* The approval's strict write: whoever comes second raises.
Decide(p, s, n, verdict, items) ==
  IF Admits(ApprovalEdges(approvals[s][n]), approvals[s][n], verdict)
  THEN approvals' = [approvals EXCEPT ![s][n] = verdict] /\ Go(p, items)
  ELSE Raise(p) /\ UNCHANGED approvals

Grant(p) ==
  /\ Doing(p, "grant")
  /\ Decide(p, It(p).s, It(p).n, "granted", <<Do("requeue", It(p).s)>>)
  /\ UNCHANGED <<status, deps, route, approver, runs, handle, task, calls, crashes>>

\* The subtask's strict write, in a second commit; approved_by is written
\* with it, unless the subtask is already queued.
Requeue(p) ==
  /\ Doing(p, "requeue")
  /\ Write(p, It(p).s, "queued", <<Do("signal", It(p).s)>>)
  /\ approver' = [approver EXCEPT ![It(p).s] = @ \/ status[It(p).s] = "needs_approval"]
  /\ UNCHANGED <<deps, route, approvals, runs, handle, task, calls, crashes>>

\* The signal reaches an execution that waits, and is lost otherwise.
Signal(p) ==
  /\ Doing(p, "signal")
  /\ LET s == It(p).s
     IN  Go(p, IF handle[s] \in LiveExecution THEN <<DoThen("route", s, "resume")>> ELSE <<>>)
  /\ UNCHANGED <<status, deps, route, approver, approvals, runs, handle, task, calls, crashes>>

DenyApproval(p) ==
  /\ Doing(p, "deny")
  /\ IF It(p).n = 0 THEN Go(p, <<Do("refuse", It(p).s)>>) /\ UNCHANGED approvals
     ELSE Decide(p, It(p).s, It(p).n, "denied", <<Do("refuse", It(p).s)>>)
  /\ UNCHANGED <<status, deps, route, approver, runs, handle, task, calls, crashes>>

\* The subtask fails and the waiting execution is told; nobody tells the
\* subtasks that depend on it.
Refuse(p) ==
  /\ Doing(p, "refuse")
  /\ Write(p, It(p).s, "failed",
           Tell(It(p).s, "resume", "failed") \o <<Do("settle", It(p).s)>>)
  /\ UNCHANGED <<deps, route, approver, approvals, runs, handle, task, calls, crashes>>

\* A pending approval's clock runs out.
Expire(p, s, n) ==
  /\ approvals[s][n] = "pending"
  /\ approvals' = [approvals EXCEPT ![s][n] = "expired"]
  /\ Call(p, <<Do("expired", s)>>)
  /\ UNCHANGED <<status, deps, route, approver, runs, handle, task, crashes>>

Expired(p) ==
  /\ Doing(p, "expired")
  /\ Go(p, IF status[It(p).s] = "needs_approval" THEN <<Do("refuse", It(p).s)>> ELSE <<>>)
  /\ UNCHANGED <<status, deps, route, approver, approvals, runs, handle, task, calls, crashes>>

----------------------------------------------------------------------------
(* cancel_subtask, cancel_task, complete_task, reconcile_orphans.          *)

\* The first write of cancel_subtask and what follows it.
CancelWrite(p, s, rest) ==
  IF status[s] \in TerminalSubtask THEN Go(p, rest) /\ UNCHANGED status
  ELSE /\ status' = [status EXCEPT ![s] = Cancel(@, TerminalSubtask)]
       /\ Go(p, <<Do("unwind", s), Do("settle", s)>> \o rest)

CancelSubtask(p, s) ==
  /\ Exists(s) /\ status[s] \notin TerminalSubtask
  /\ status' = [status EXCEPT ![s] = Cancel(@, TerminalSubtask)]
  /\ Call(p, <<Do("unwind", s), Do("settle", s)>>)
  /\ UNCHANGED <<deps, route, approver, approvals, runs, handle, task, crashes>>

\* Its live runs and its execution are cancelled with it.
Unwind(p) ==
  /\ Doing(p, "unwind")
  /\ LET s == It(p).s
         Ended(r) == [r EXCEPT !.status = Cancel(r.status, TerminalRun)]
     IN  /\ runs' = [runs EXCEPT ![s] = [i \in DOMAIN runs[s] |-> Ended(runs[s][i])]]
         /\ handle' = [handle EXCEPT ![s] = Follow(@, "cancelled", LiveExecution)]
  /\ Go(p, <<>>)
  /\ UNCHANGED <<status, deps, route, approver, approvals, task, calls, crashes>>

CancelTask(p) ==
  /\ task \notin TerminalTaskStatus
  /\ task' = Cancel(task, TerminalTaskStatus)
  /\ Call(p, <<[op |-> "sweep"]>>)
  /\ UNCHANGED <<status, deps, route, approver, approvals, runs, handle, crashes>>

\* The subtasks that are live when they are listed are cancelled one by one.
Sweep(p) ==
  /\ Doing(p, "sweep")
  /\ Go(p, DoEach("cancelling", {s \in Subtask : Exists(s) /\ status[s] \notin TerminalSubtask}))
  /\ UNCHANGED <<status, deps, route, approver, approvals, runs, handle, task, calls, crashes>>

Cancelling(p) ==
  /\ Doing(p, "cancelling")
  /\ \E s \in It(p).set : CancelWrite(p, s, DoEach("cancelling", It(p).set \ {s}))
  /\ UNCHANGED <<deps, route, approver, approvals, runs, handle, task, calls, crashes>>

\* complete_task, past its audit or forced: one guarded write.
CompleteTask(p) ==
  /\ task \notin TerminalTaskStatus
  /\ task' = "succeeded"
  /\ Call(p, <<>>)
  /\ UNCHANGED <<status, deps, route, approver, approvals, runs, handle, crashes>>

\* A run that shows no sign of life fails: its process has died, or it has
\* run for longer than the operator allows.
Reconcile(p, s, n) ==
  /\ runs[s][n].status = "running"
  /\ runs' = [runs EXCEPT ![s][n].status = Advance(@, "failed", {"running"})]
  /\ Call(p, IF status[s] = "running" THEN <<Do("reap", s)>> ELSE <<>>)
  /\ UNCHANGED <<status, deps, route, approver, approvals, handle, task, crashes>>

Reap(p) ==
  /\ Doing(p, "reap")
  /\ LET s == It(p).s
     IN  /\ status' = [status EXCEPT ![s] = Advance(@, "failed", {"running"})]
         /\ Go(p, IF status[s] = "running"
                  THEN <<Do("settle", s), DoSet("cascade", {s})>> ELSE <<>>)
  /\ UNCHANGED <<deps, route, approver, approvals, runs, handle, task, calls, crashes>>

----------------------------------------------------------------------------
\* An activity of the workflow server: route_subtask or run_worker, first
\* attempt or retry.
Activity(p, s, op) ==
  /\ Exists(s)
  /\ Call(p, <<DoThen(op, s, "activity")>>)
  /\ UNCHANGED <<status, deps, route, approver, approvals, runs, handle, task, crashes>>

\* A process dies; a crash counts as a call.
Crash(p) ==
  /\ crashes < MaxCrashes
  /\ calls < MaxCalls
  /\ ~Idle(p)
  /\ Raise(p)
  /\ calls' = calls + 1
  /\ crashes' = crashes + 1
  /\ UNCHANGED <<status, deps, route, approver, approvals, runs, handle, task>>

Calls(p) ==
  \/ \E s \in Subtask, D \in SUBSET Subtask : Submit(p, s, D)
  \/ \E s \in Subtask : Approve(p, s) \/ Deny(p, s) \/ CancelSubtask(p, s)
  \/ \E s \in Subtask : \E n \in DOMAIN approvals[s] : Expire(p, s, n)
  \/ \E s \in Subtask : \E n \in DOMAIN runs[s] : Reconcile(p, s, n)
  \/ \E s \in Subtask, op \in {"route", "run"} : Activity(p, s, op)
  \/ CancelTask(p) \/ CompleteTask(p)

Steps(p) ==
  \/ Insert(p) \/ (\E out \in {"free", "paid", "approval", "nobody"} : Route(p, out))
  \/ Persist(p) \/ Routed(p) \/ Flag(p) \/ Ask(p) \/ Asking(p) \/ Handle(p)
  \/ Run(p) \/ Claim(p) \/ (\E allowed \in BOOLEAN : Govern(p, allowed))
  \/ Spawn(p) \/ Progress(p) \/ (\E result \in {"succeeded", "failed"} : Work(p, result))
  \/ RunRow(p) \/ Settle(p) \/ Unflag(p)
  \/ Release(p) \/ Releasing(p) \/ Unblock(p) \/ Cascade(p) \/ Failing(p)
  \/ Opening(p) \/ Grant(p) \/ Requeue(p) \/ Signal(p) \/ DenyApproval(p) \/ Refuse(p) \/ Expired(p)
  \/ Unwind(p) \/ Sweep(p) \/ Cancelling(p) \/ Reap(p)

Next == \E p \in Proc : Calls(p) \/ Steps(p) \/ Crash(p)

Spec == Init /\ [][Next]_vars

\* A call that has begun goes on until it returns, raises or dies.
FairSpec == Spec /\ \A p \in Proc : WF_vars(Steps(p))

----------------------------------------------------------------------------
(* Properties.                                                             *)

\* What a caller may have on its stack, by the shape of the step.
Step ==
       [op : {"flag", "ask", "asking", "opening", "progress", "settle", "unflag", "release", "unblock",
              "requeue", "signal", "refuse", "expired", "unwind", "reap"}, s : Subtask]
  \cup [op : {"releasing", "cascade", "cancelling"}, set : SUBSET Subtask]
  \cup [op : {"failing"}, set : SUBSET Subtask, stack : SUBSET Subtask]
  \cup [op : {"work", "grant", "deny"}, s : Subtask, n : Nat]
  \cup [op : {"claim", "govern", "spawn"}, s : Subtask, worker : {"free", "paid"}]
  \cup [op : {"route", "run"}, s : Subtask, then : {"start", "resume", "activity"}]
  \cup [op : {"persist", "routed"}, s : Subtask, then : {"start", "resume", "activity"},
        out : {"free", "paid", "approval", "nobody"}]
  \cup [op : {"handle"}, s : Subtask, then : {"start", "resume"},
        state : ExecutionState \cup {"outcome"}]
  \cup [op : {"row"}, s : Subtask, n : Nat, to : RunStatus]
  \cup [op : {"insert"}, s : Subtask, set : SUBSET Subtask, unmet : SUBSET Subtask]
  \cup [op : {"sweep"}]

\* Every column keeps to its vocabulary, and every stack holds steps of the
\* service.
TypeOK ==
  /\ status \in [Subtask -> SubtaskStatus \cup {"absent"}]
  /\ deps \in [Subtask -> SUBSET Subtask]
  /\ route \in [Subtask -> {"none", "free", "paid", "approval", "nobody"}]
  /\ approver \in [Subtask -> BOOLEAN]
  /\ approvals \in [Subtask -> Seq(ApprovalStatus)]
  /\ runs \in [Subtask -> Seq([status : RunStatus, worker : {"free", "paid"}])]
  /\ handle \in [Subtask -> ExecutionState \cup {"none"}]
  /\ task \in TaskStatus
  /\ todo \in [Proc -> Seq(Step)]
  /\ calls \in 0..MaxCalls
  /\ crashes \in 0..MaxCrashes

\* Work starts only on what has succeeded: a subtask that was dispatched
\* has all its dependencies behind it, whoever released it.
DependenciesMet ==
  \A s \in Subtask : status[s] \in {"queued", "needs_approval", "running", "succeeded"}
                       => Unmet(deps[s]) = {}

\* A subtask is run at most once, however many callers, retries and
\* releases drive it: "can never both ... double-execute the worker's side
\* effects".
RunOnce == \A s \in Subtask : Len(runs[s]) <= 1

\* A run that reports success belongs to a subtask that succeeded: a result
\* that comes after a cancel, a denial or the reaper is discarded.
NoZombieResult ==
  \A s \in Subtask : \A n \in DOMAIN runs[s] :
    runs[s][n].status = "succeeded" => status[s] = "succeeded"

\* Money is spent only on a human's word: a paid worker runs only for a
\* subtask one of whose approvals was granted.
PaidNeedsGrant ==
  \A s \in Subtask : \A n \in DOMAIN runs[s] :
    runs[s][n].worker = "paid" => \E i \in DOMAIN approvals[s] : approvals[s][i] = "granted"

\* No subtask is started before its time: not ahead of its dependencies, and not on
\* money nobody approved (run_subtask, route_subtask).
StartsAllowed == DependenciesMet /\ PaidNeedsGrant

\* Nothing that has ended is ever revived, in any of the four tables.
TerminalIsFinal ==
  [][/\ task \in TerminalTaskStatus => task' = task
     /\ \A s \in Subtask :
          /\ status[s] \in TerminalSubtask => status'[s] = status[s]
          /\ \A n \in DOMAIN runs[s] :
               runs[s][n].status \in TerminalRun => runs'[s][n].status = runs[s][n].status
          /\ \A n \in DOMAIN approvals[s] :
               approvals[s][n] # "pending" => approvals'[s][n] = approvals[s][n]]_vars

\* "A sibling still blocked on it would otherwise wait forever": a subtask
\* that depends on one that has failed or was cancelled ends as well.
DependentsEnd ==
  \A s, d \in Subtask :
    (d \in deps[s] /\ status[d] \in {"failed", "cancelled"})
      ~> status[s] \in TerminalSubtask

\* An approved subtask is resumed: it does not stay queued.
ApprovedResumes ==
  \A s \in Subtask : (status[s] = "queued" /\ approver[s]) ~> status[s] # "queued"

============================================================================
