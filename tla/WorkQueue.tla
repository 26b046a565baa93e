----------------------------- MODULE WorkQueue -----------------------------
(***************************************************************************)
(* The federated work queue (common/workqueue.py) of one broker process.   *)
(*                                                                         *)
(* Every method runs under the store's lock, so methods do not interleave. *)
(* A method is not one transaction, though: it commits the ticket row      *)
(* first and then, each in a commit of its own, writes the evaluation, the *)
(* mirrored task state and the failure cascade.  The model keeps what the  *)
(* lock holder has yet to write in todo, and Crash (a killed process or a  *)
(* store error that propagates) loses it.  RouterService.cancel_task       *)
(* commits the task's CANCELLED and takes the lock again for               *)
(* cancel_for_task; other methods may run in between.                      *)
(***************************************************************************)
EXTENDS Tickets, Sequences

CONSTANT MaxCrashes      \* bound on the crashes of a behaviour

ASSUME CrashBound == MaxCrashes \in Nat

VARIABLES
  row,        \* work_queue: the row of each ticket
  deps,       \* work_queue_deps: the tickets each ticket depends on
  task,       \* tasks.state of each linked task
  minted,     \* the number of lease tokens minted for each ticket
  granted,    \* <<worker, ticket, token>>: the tokens handed to workers
  approved,   \* <<ticket, token>>: the results reviewers approved
  scores,     \* evaluations written per ticket, by reports and by reviews
  todo,       \* the writes the lock holder has yet to commit, in order
  cancelling, \* tasks whose cancel_task has not reached cancel_for_task
  crashes     \* the crashes so far

vars == <<row, deps, task, minted, granted, approved, scores, todo,
          cancelling, crashes>>

Init ==
  /\ row = [t \in Ticket |-> AbsentRow]
  /\ deps = [t \in Ticket |-> {}]
  /\ task = [k \in Task |-> "CREATED"]
  /\ minted = [t \in Ticket |-> 0]
  /\ granted = {}
  /\ approved = {}
  /\ scores = [t \in Ticket |-> [reports |-> 0, reviews |-> 0]]
  /\ todo = <<>>
  /\ cancelling = {}
  /\ crashes = 0

----------------------------------------------------------------------------
(* The writes that follow a method's first commit.                         *)

\* op: score_report, score_review, mirror, cascade, parked, sweep, remirror
Write(op, t, state, front) ==
  [op |-> op, ticket |-> t, state |-> state, front |-> front]

Score(op, t) == Write(op, t, "CREATED", {})
Mirror(t, state) == Write("mirror", t, state, {})
Cascade(t, front) == Write("cascade", t, "CREATED", front)

Idle == todo = <<>>

\* What report and reject still have to write once the row is `status`.
\* (approve is the case "done"; a requeue leaves the task alone.)
Aftermath(t, status) ==
  IF status = "failed" THEN <<Mirror(t, "FAILED"), Cascade(t, {t})>>
  ELSE IF status \in {"done", "in_review"} THEN <<Mirror(t, MirrorState(status))>>
  ELSE <<>>

----------------------------------------------------------------------------
(* Methods.                                                                *)

Add(t, parents) ==
  /\ Idle
  /\ ~Added(row[t])
  /\ \A p \in parents : Added(row[p]) /\ NoDowngrade(t, p)
  /\ row' = [row EXCEPT ![t] = NewRow(t)]
  /\ deps' = [deps EXCEPT ![t] = parents]
  /\ UNCHANGED <<task, minted, granted, approved, scores, todo, cancelling, crashes>>

\* Slip: the claim does not look at the dependencies.
ClaimableEarly(t, tier) ==
  /\ row[t].status = "open"
  /\ MayClaim(tier, t)
  /\ TaskOf[t] # None => task[TaskOf[t]] # "CANCELLED"

\* The guarded UPDATE of _try_claim, reached from claim and claim_next.
Claimable(t, tier) ==
  /\ row[t].status = "open"
  /\ MayClaim(tier, t)
  /\ \A p \in deps[t] : row[p].status = "done"
  /\ TaskOf[t] # None => task[TaskOf[t]] # "CANCELLED"

Claim(w, tier, t) ==
  /\ Idle
  /\ Claimable(t, tier)
  /\ minted' = [minted EXCEPT ![t] = @ + 1]
  /\ row' = [row EXCEPT ![t] = ClaimedRow(@, w, tier, minted[t] + 1)]
  /\ granted' = granted \cup {<<w, t, minted[t] + 1>>}
  /\ UNCHANGED <<deps, task, approved, scores, todo, cancelling, crashes>>

Renew(w, t, token, extend) ==
  /\ Idle
  /\ <<w, t, token>> \in granted
  /\ HoldsLease(row[t], w, token)
  /\ extend > 0
  /\ row' = [row EXCEPT ![t] = RenewedRow(@, extend)]
  /\ UNCHANGED <<deps, task, minted, granted, approved, scores, todo, cancelling, crashes>>

\* A worker reports under a token it was given, live or long stale.
Report(w, tier, t, token, succeeded) ==
  /\ Idle
  /\ <<w, t, token>> \in granted
  /\ HoldsLease(row[t], w, token)
  /\ LET new == ReportedRow(row[t], row[t].attempts, tier, token, succeeded)
     IN  /\ row' = [row EXCEPT ![t] = new]
         /\ todo' = <<Score("score_report", t)>> \o Aftermath(t, new.status)
  /\ UNCHANGED <<deps, task, minted, granted, approved, scores, cancelling, crashes>>

\* A report on a settled ticket is refused, after re-driving the writes that
\* an interrupted predecessor may have lost.
ReportSettled(t) ==
  /\ Idle
  /\ row[t].status \in {"failed", "done", "in_review"}
  /\ todo' = IF row[t].status = "failed"
             THEN <<Cascade(t, {t}), Mirror(t, "FAILED")>>
             ELSE <<Mirror(t, MirrorState(row[t].status))>>
  /\ UNCHANGED <<row, deps, task, minted, granted, approved, scores, cancelling, crashes>>

\* The calls of a reviewer of the trusted tier; approve and reject turn away any
\* other before they read the row, which changes nothing.
Approve(t) ==
  /\ Idle
  /\ row[t].status = "in_review"
  /\ row' = [row EXCEPT ![t] = ApprovedRow(@)]
  /\ approved' = approved \cup {<<t, row[t].ref>>}
  /\ todo' = <<Score("score_review", t)>> \o Aftermath(t, "done")
  /\ UNCHANGED <<deps, task, minted, granted, scores, cancelling, crashes>>

Reject(t) ==
  /\ Idle
  /\ row[t].status = "in_review"
  /\ LET new == RejectedRow(row[t], row[t].attempts)
     IN  /\ row' = [row EXCEPT ![t] = new]
         /\ todo' = <<Score("score_review", t)>> \o Aftermath(t, new.status)
  /\ UNCHANGED <<deps, task, minted, granted, approved, scores, cancelling, crashes>>

RejectSettled(t) ==
  /\ Idle
  /\ row[t].status = "failed"
  /\ todo' = <<Cascade(t, {t}), Mirror(t, "FAILED")>>
  /\ UNCHANGED <<row, deps, task, minted, granted, approved, scores, cancelling, crashes>>

\* Slips of link: no look at the child's status, at the privacy classes.
LinkableAnytime(c, p) ==
  Added(row[c]) /\ Added(row[p]) /\ NoDowngrade(c, p) /\ c \notin Reach(deps, p)

LinkableDown(c, p) ==
  /\ Added(row[c]) /\ Added(row[p])
  /\ row[c].status \notin {"claimed", "in_review"}
  /\ c \notin Reach(deps, p)

Linkable(c, p) ==
  /\ Added(row[c]) /\ Added(row[p])
  /\ c # p
  /\ row[c].status \notin {"claimed", "in_review"}
  /\ NoDowngrade(c, p)
  /\ c \notin Reach(deps, p)

Link(c, p) ==
  /\ Idle
  /\ p \notin deps[c]
  /\ Linkable(c, p)
  /\ deps' = [deps EXCEPT ![c] = @ \cup {p}]
  /\ UNCHANGED <<row, task, minted, granted, approved, scores, todo, cancelling, crashes>>

\* RouterService.cancel_task up to its commit of CANCELLED ...
CancelTask(k) ==
  /\ Idle
  /\ task[k] \notin TerminalTask
  /\ task' = [task EXCEPT ![k] = "CANCELLED"]
  /\ cancelling' = cancelling \cup {k}
  /\ UNCHANGED <<row, deps, minted, granted, approved, scores, todo, crashes>>

\* ... and its call of cancel_for_task.
CancelForTask(k) ==
  /\ Idle
  /\ k \in cancelling
  /\ LET hit == {t \in Ticket : TaskOf[t] = k /\ Live(row[t])}
     IN  /\ row' = [t \in Ticket |-> IF t \in hit THEN CancelledRow(row[t]) ELSE row[t]]
         /\ todo' = IF hit = {} THEN <<>>
                    ELSE <<Cascade(CHOOSE t \in hit : TRUE, hit)>>
  /\ cancelling' = cancelling \ {k}
  /\ UNCHANGED <<deps, task, minted, granted, approved, scores, crashes>>

\* reap_expired: both UPDATEs in one commit; then the parked tickets' tasks
\* and dependents, the sweep for stranded dependents and the one for tasks
\* that lag behind their ticket.
Reap ==
  /\ Idle
  /\ row' = [t \in Ticket |-> IF Expired(row[t]) THEN ReapedRow(row[t]) ELSE row[t]]
  /\ LET parked == {t \in Ticket : Expired(row[t]) /\ row[t].attempts >= MaxAttempts}
         any == CHOOSE t \in Ticket : TRUE
     IN  todo' = <<Write("parked", any, "FAILED", parked),
                   Write("sweep", any, "FAILED", {}),
                   Write("remirror", any, "FAILED", {})>>
  /\ UNCHANGED <<deps, task, minted, granted, approved, scores, cancelling, crashes>>

----------------------------------------------------------------------------
(* The lock holder's remaining writes.                                     *)

Next1(op) == todo # <<>> /\ Head(todo).op = op

\* record_evaluation, by a report or by a review.
RecordReport ==
  /\ Next1("score_report")
  /\ scores' = [scores EXCEPT ![Head(todo).ticket].reports = @ + 1]
  /\ todo' = Tail(todo)
  /\ UNCHANGED <<row, deps, task, minted, granted, approved, cancelling, crashes>>

RecordReview ==
  /\ Next1("score_review")
  /\ scores' = [scores EXCEPT ![Head(todo).ticket].reviews = @ + 1]
  /\ todo' = Tail(todo)
  /\ UNCHANGED <<row, deps, task, minted, granted, approved, cancelling, crashes>>

MirrorTaskState ==
  /\ Next1("mirror")
  /\ task' = Converge(task, TaskOf[Head(todo).ticket], Head(todo).state)
  /\ todo' = Tail(todo)
  /\ UNCHANGED <<row, deps, minted, granted, approved, scores, cancelling, crashes>>

\* _cascade_failure fails one live dependent of the tickets it has failed so
\* far, with its task, in one commit; the order of the walk is left open.
CascadeStep(c) ==
  /\ Next1("cascade")
  /\ c \in Dependents(deps, Head(todo).front)
  /\ Live(row[c])
  /\ row' = [row EXCEPT ![c] = CascadedRow(@)]
  /\ task' = Converge(task, TaskOf[c], "FAILED")
  /\ todo' = <<Cascade(c, Head(todo).front \cup {c})>> \o Tail(todo)
  /\ UNCHANGED <<deps, minted, granted, approved, scores, cancelling, crashes>>

CascadeDone ==
  /\ Next1("cascade")
  /\ \A c \in Dependents(deps, Head(todo).front) : ~Live(row[c])
  /\ todo' = Tail(todo)
  /\ UNCHANGED <<row, deps, task, minted, granted, approved, scores, cancelling, crashes>>

\* reap_expired takes the parked tickets one by one: the task, then the
\* dependents.
FailParked(t) ==
  /\ Next1("parked")
  /\ t \in Head(todo).front
  /\ task' = Converge(task, TaskOf[t], "FAILED")
  /\ todo' = <<Cascade(t, {t}), Write("parked", t, "FAILED", Head(todo).front \ {t})>>
             \o Tail(todo)
  /\ UNCHANGED <<row, deps, minted, granted, approved, scores, cancelling, crashes>>

ParkedDone ==
  /\ Next1("parked")
  /\ Head(todo).front = {}
  /\ todo' = Tail(todo)
  /\ UNCHANGED <<row, deps, task, minted, granted, approved, scores, cancelling, crashes>>

\* Slip: a cancelled or exhausted parent strands its dependents.
SweepFailed ==
  /\ Next1("sweep")
  /\ todo' = <<Cascade(Head(todo).ticket, {t \in Ticket : row[t].status = "failed"})>>
             \o Tail(todo)
  /\ UNCHANGED <<row, deps, task, minted, granted, approved, scores, cancelling, crashes>>

\* The stranded scan: the cascade is re-driven from every dead parent.
Sweep ==
  /\ Next1("sweep")
  /\ todo' = <<Cascade(Head(todo).ticket, {t \in Ticket : Dead(row[t])})>> \o Tail(todo)
  /\ UNCHANGED <<row, deps, task, minted, granted, approved, scores, cancelling, crashes>>

\* Slip: only failures are mirrored again.
DesyncedFailed(t) ==
  /\ row[t].status = "failed"
  /\ TaskOf[t] # None
  /\ task[TaskOf[t]] \notin TerminalTask

\* The desynced scan.
Desynced(t) ==
  /\ row[t].status \in {"done", "failed"}
  /\ TaskOf[t] # None
  /\ task[TaskOf[t]] \notin TerminalTask

Remirror(t) ==
  /\ Next1("remirror")
  /\ Desynced(t)
  /\ task' = Converge(task, TaskOf[t], MirrorState(row[t].status))
  /\ UNCHANGED <<row, deps, minted, granted, approved, scores, todo, cancelling, crashes>>

RemirrorDone ==
  /\ Next1("remirror")
  /\ \A t \in Ticket : ~Desynced(t)
  /\ todo' = Tail(todo)
  /\ UNCHANGED <<row, deps, task, minted, granted, approved, scores, cancelling, crashes>>

----------------------------------------------------------------------------
(* The environment.                                                        *)

\* Time passes.  No write of todo reads the clock, so a second that passes
\* while the lock is held may as well pass before or after.
Tick ==
  /\ Idle
  /\ \E t \in Ticket : row[t].status = "claimed" /\ row[t].lease.ttl >= 0
  /\ row' = [t \in Ticket |-> TickedRow(row[t])]
  /\ UNCHANGED <<deps, task, minted, granted, approved, scores, todo, cancelling, crashes>>

Crash ==
  /\ crashes < MaxCrashes
  /\ todo # <<>> \/ cancelling # {}
  /\ todo' = <<>>
  /\ cancelling' = {}
  /\ crashes' = crashes + 1
  /\ UNCHANGED <<row, deps, task, minted, granted, approved, scores>>

Methods ==
  \/ \E t \in Ticket, parents \in SUBSET Ticket : Add(t, parents)
  \/ \E w \in Worker, tier \in Tier, t \in Ticket : Claim(w, tier, t)
  \/ \E g \in granted, extend \in 1..(MaxExtend + 1) : Renew(g[1], g[2], g[3], extend)
  \/ \E g \in granted, tier \in Tier, succeeded \in BOOLEAN :
        Report(g[1], tier, g[2], g[3], succeeded)
  \/ \E t \in Ticket : \/ ReportSettled(t) \/ Approve(t)
                       \/ Reject(t) \/ RejectSettled(t)
  \/ \E c, p \in Ticket : Link(c, p)
  \/ \E k \in Task : CancelTask(k) \/ CancelForTask(k)

Writes ==
  \/ RecordReport \/ RecordReview \/ MirrorTaskState
  \/ CascadeDone \/ ParkedDone \/ Sweep \/ RemirrorDone
  \/ \E t \in Ticket : CascadeStep(t) \/ FailParked(t) \/ Remirror(t)

Next == Methods \/ Reap \/ Writes \/ Tick \/ Crash

Spec == Init /\ [][Next]_vars

\* The reaper thread calls reap_expired every interval and gets the lock in
\* the end although other methods keep taking it; a method that has begun
\* finishes unless the process dies; cancel_task goes on to cancel_for_task;
\* time passes.
Fairness ==
  /\ SF_vars(Reap)
  /\ WF_vars(Writes)
  /\ \A k \in Task : SF_vars(CancelForTask(k))
  /\ WF_vars(Tick)

FairSpec == Spec /\ Fairness

----------------------------------------------------------------------------
(* Safety.                                                                 *)

WriteOp == {"score_report", "score_review", "mirror", "cascade", "parked",
            "sweep", "remirror"}

TodoItem == [op : WriteOp, ticket : Ticket, state : TaskState,
             front : SUBSET Ticket]

TypeOK ==
  /\ row \in [Ticket -> Row]
  /\ deps \in [Ticket -> SUBSET Ticket]
  /\ task \in [Task -> TaskState]
  /\ minted \in [Ticket -> Nat]
  /\ granted \subseteq Worker \X Ticket \X Nat
  /\ approved \subseteq Ticket \X Nat
  /\ scores \in [Ticket -> [reports : Nat, reviews : Nat]]
  /\ todo \in Seq(TodoItem)
  /\ cancelling \subseteq Task
  /\ crashes \in Nat

\* A ticket is never handed out more often than max_attempts allows.  The
\* claim does not test attempts at all: it relies on report, reject and the
\* reaper never putting an exhausted ticket back to open.
AttemptsBounded == \A t \in Ticket : row[t].attempts <= MaxAttempts

\* A report from untrusted compute never silently becomes truth: a done
\* ticket carries the result of its latest lease, and either that lease was
\* claimed by the trusted tier or a reviewer approved that very result.
VerificationGate ==
  \A t \in Ticket : row[t].status = "done" =>
    /\ row[t].ref = minted[t]
    /\ row[t].lease.tier = LocalOnly \/ <<t, row[t].ref>> \in approved

\* Work starts only after everything it depends on is done, and stays so
\* while it is being worked on or reviewed, whatever edges are linked later.
DependencyGate ==
  \A t \in Ticket : row[t].status \in {"claimed", "in_review"} =>
    \A p \in deps[t] : row[p].status = "done"

\* Dependencies never close a circle: among any tickets one does not wait
\* for the others, so no set of tickets waits for itself.
Acyclic ==
  \A S \in SUBSET Ticket : S # {} => \E t \in S : deps[t] \cap S = {}

\* A worker only ever holds tickets whose whole ancestry its tier may see:
\* no chain of edges launders a sensitive result down to a lower class.
NoLaundering ==
  \A t \in Ticket : row[t].status = "claimed" =>
    \A p \in Reach(deps, t) : MayClaim(row[t].lease.tier, p)

\* One lease is scored at most once by its report and once by its review,
\* over any sequence of retries, re-reports, reaps and crashes.
ScoredOnce ==
  \A t \in Ticket :
    /\ scores[t].reports <= row[t].attempts
    /\ scores[t].reviews <= row[t].attempts

\* The task of a ticket never shows an outcome the ticket does not have.
MirrorTruthful ==
  \A t \in Ticket : TaskOf[t] # None =>
    /\ task[TaskOf[t]] = "COMPLETE" => row[t].status = "done"
    /\ task[TaskOf[t]] = "FAILED" => Dead(row[t])

\* What one broker promises of its queue (workqueue.py), whatever is reported,
\* rejected, reaped, linked, cancelled or cut short by a crash.
QueueSafe ==
  /\ AttemptsBounded /\ VerificationGate /\ ScoredOnce
  /\ DependencyGate /\ Acyclic /\ MirrorTruthful

----------------------------------------------------------------------------
(* The inductive invariant behind the properties above.                    *)

Items(s) == {s[i] : i \in 1..Len(s)}

ScoreOp == {"score_report", "score_review"}

\* What every row satisfies on its own: an open ticket has an attempt left,
\* each attempt minted one token, a result stems from the latest of them.
RowInv ==
  \A t \in Ticket :
    /\ row[t].status = "absent" => row[t].attempts = 0
    /\ row[t].attempts <= MaxAttempts
    /\ row[t].status = "open" => row[t].attempts < MaxAttempts
    /\ minted[t] = row[t].attempts
    /\ row[t].status = "claimed" => row[t].lease.token = minted[t]
    /\ row[t].status \in {"in_review", "done"} => row[t].ref = minted[t]
    /\ row[t].status = "claimed" => MayClaim(row[t].lease.tier, t)
    /\ row[t].status = "done" =>
         row[t].lease.tier = LocalOnly \/ <<t, row[t].ref>> \in approved

EdgeInv ==
  \A c \in Ticket : \A p \in deps[c] :
    Added(row[c]) /\ Added(row[p]) /\ NoDowngrade(c, p)

\* The pending writes are still true of the rows they were queued for.
WriteTrue(rows, x) ==
  /\ x.op \in {"cascade", "parked"} => \A t \in x.front : Dead(rows[t])
  /\ x.op = "mirror" =>
       /\ x.state = "FAILED" => Dead(rows[x.ticket])
       /\ x.state = "COMPLETE" => rows[x.ticket].status = "done"
       /\ x.state \in {"FAILED", "COMPLETE", "REVIEW_READY"}

TodoInv == \A x \in Items(todo) : WriteTrue(row, x)

\* A score is pending only first in line, for a lease that is over.
ScoreInv ==
  /\ todo # <<>> => \A x \in Items(Tail(todo)) : x.op \notin ScoreOp
  /\ \A t \in Ticket :
       /\ scores[t].reports <= row[t].attempts
       /\ scores[t].reviews <= row[t].attempts
       /\ row[t].status = "claimed" => scores[t].reports < row[t].attempts
       /\ row[t].status \in {"claimed", "in_review"} => scores[t].reviews < row[t].attempts
  /\ todo # <<>> =>
       LET x == Head(todo) IN
       /\ x.op = "score_report" =>
            /\ row[x.ticket].status # "claimed"
            /\ scores[x.ticket].reports < row[x.ticket].attempts
       /\ x.op = "score_review" =>
            /\ row[x.ticket].status \notin {"claimed", "in_review"}
            /\ scores[x.ticket].reviews < row[x.ticket].attempts

IInv ==
  /\ TypeOK /\ RowInv /\ EdgeInv /\ TodoInv /\ ScoreInv
  /\ DependencyGate /\ Acyclic /\ MirrorTruthful

----------------------------------------------------------------------------
(* Action properties.                                                      *)

\* Final outcomes are final: a settled ticket is not reopened, and a task
\* that ended (an operator's cancel above all) is not resurrected.
Finality ==
  [][/\ \A t \in Ticket : row[t].status \in TerminalStatus => row'[t].status = row[t].status
     /\ \A k \in Task : task[k] \in TerminalTask => task'[k] = task[k]]_vars

\* The cascade never takes a ticket away from a worker or a reviewer.
CascadeSparesLiveWork ==
  [][\A t \in Ticket :
       row[t].status \in {"claimed", "in_review"} => row'[t].result # "dependency_failed"]_vars

----------------------------------------------------------------------------
(* Liveness.                                                               *)

\* A task catches up with its settled ticket, whatever crash interrupted the
\* mirror.
MirrorCatchesUp ==
  \A t \in Ticket : TaskOf[t] # None =>
    (row[t].status \in {"done", "failed"} ~> task[TaskOf[t]] \in TerminalTask)

\* A dependent of a dead ticket is not stranded: it ends.
DependentsReleased ==
  \A c, p \in Ticket :
    (p \in deps[c] /\ Dead(row[p])) ~> row[c].status \in TerminalStatus

\* A lease whose worker has gone silent is taken back.
ExpiredLeaseRecovered == \A t \in Ticket : Expired(row[t]) ~> ~Expired(row[t])

\* An attempts-exhausted ticket fails its task "rather than stranding the
\* task non-terminal".
ExhaustedTaskFails ==
  \A t \in Ticket : TaskOf[t] # None =>
    (row[t].status = "parked" /\ row[t].park = "exhausted"
       ~> task[TaskOf[t]] \in TerminalTask)

\* A cancelled task's tickets "are cancelled too".
CancelReachesTickets ==
  \A t \in Ticket : TaskOf[t] # None =>
    (Added(row[t]) /\ task[TaskOf[t]] = "CANCELLED" ~> row[t].status \in TerminalStatus)

----------------------------------------------------------------------------
(* The queue implements the contract with the submitter.                   *)

PhaseOf(r) ==
  CASE r.status = "absent"    -> "unknown"
    [] r.status = "claimed"   -> "working"
    [] r.status = "in_review" -> "judging"
    [] r.status = "done"      -> "succeeded"
    [] Dead(r)                -> "lost"
    [] OTHER                  -> "waiting"

Contract == INSTANCE TicketContract WITH
  phase <- [t \in Ticket |-> PhaseOf(row[t])],
  tries <- [t \in Ticket |-> row[t].attempts],
  needs <- deps

\* Every behaviour of the queue is one the contract allows: work starts only
\* when its dependencies have succeeded and at most MaxAttempts times, a
\* dependency is never added under work in progress, and outcomes are final.
ImplementsContract == Contract!Spec

============================================================================
