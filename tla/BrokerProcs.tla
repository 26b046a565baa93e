---------------------------- MODULE BrokerProcs ----------------------------
(***************************************************************************)
(* The work queue of workqueue.py served by several broker processes over  *)
(* one SQLite file.  The store's lock is per process, so between processes *)
(* only SQL statements and transactions are atomic: claim, report,         *)
(* approve, reject and cancel_for_task read a row first and write it in a  *)
(* later transaction, on the strength of what they read and of the guards  *)
(* in their WHERE clause.  Those methods are two actions here, Read... and *)
(* Write..., with the other processes free to run in between; add, link,   *)
(* the reaper's UPDATEs and each write of a cascade are one transaction.   *)
(* The evaluation a report or a review records, which no other method      *)
(* reads, is written together with the row; what a crash between the two   *)
(* commits does, and lease renewal, are the subject of WorkQueue.          *)
(***************************************************************************)
EXTENDS Tickets, Sequences

CONSTANT Broker        \* broker processes

VARIABLES
  row, deps, task,   \* as in WorkQueue
  minted,     \* the number of lease tokens minted for each ticket
  granted,    \* <<worker, ticket, token>>: the tokens handed to workers
  artifacts,  \* work_result artifacts: <<broker, ticket, token>>
  referenced, \* artifacts that a row's result_ref has pointed to
  scores,     \* evaluations written per ticket, by reports and by reviews
  rounds,     \* times each ticket has entered in_review
  op,         \* what each broker has read and is about to write
  todo        \* each broker's writes after its first commit, as in WorkQueue

vars == <<row, deps, task, minted, granted, artifacts, referenced,
          scores, rounds, op, todo>>

NoOp == [kind |-> "none"]

Init ==
  /\ row = [t \in Ticket |-> AbsentRow]
  /\ deps = [t \in Ticket |-> {}]
  /\ task = [k \in Task |-> "CREATED"]
  /\ minted = [t \in Ticket |-> 0]
  /\ granted = {}
  /\ artifacts = {}
  /\ referenced = {}
  /\ scores = [t \in Ticket |-> [reports |-> 0, reviews |-> 0]]
  /\ rounds = [t \in Ticket |-> 0]
  /\ op = [b \in Broker |-> NoOp]
  /\ todo = [b \in Broker |-> <<>>]

----------------------------------------------------------------------------
\* The broker's lock is free: no method of its own is under way.
Free(b) == op[b] = NoOp /\ todo[b] = <<>>

Write(kind, t, state, front) ==
  [op |-> kind, ticket |-> t, state |-> state, front |-> front]

Aftermath(t, status) ==
  IF status = "failed"
  THEN <<Write("mirror", t, "FAILED", {}), Write("cascade", t, "FAILED", {t})>>
  ELSE IF status \in {"done", "in_review"}
       THEN <<Write("mirror", t, MirrorState(status), {})>> ELSE <<>>

Add(b, t, parents) ==
  /\ Free(b)
  /\ ~Added(row[t])
  /\ \A p \in parents : Added(row[p]) /\ NoDowngrade(t, p)
  /\ row' = [row EXCEPT ![t] = NewRow(t)]
  /\ deps' = [deps EXCEPT ![t] = parents]
  /\ UNCHANGED <<task, minted, granted, artifacts, referenced,
                 scores, rounds, op, todo>>

\* claim_next's SELECT of the candidates.
ReadClaim(b, w, tier, t) ==
  /\ Free(b)
  /\ row[t].status = "open"
  /\ MayClaim(tier, t)
  /\ op' = [op EXCEPT ![b] = [kind |-> "claim", ticket |-> t, worker |-> w,
                              tier |-> tier]]
  /\ UNCHANGED <<row, deps, task, minted, granted, artifacts,
                 referenced, scores, rounds, todo>>

\* The guarded UPDATE of _try_claim.
WriteClaim(b) ==
  /\ op[b].kind = "claim"
  /\ op' = [op EXCEPT ![b] = NoOp]
  /\ LET t == op[b].ticket
         won == /\ row[t].status = "open"
                /\ \A p \in deps[t] : row[p].status = "done"
                /\ TaskOf[t] # None => task[TaskOf[t]] # "CANCELLED"
         token == minted[t] + 1
     IN  IF won
         THEN /\ minted' = [minted EXCEPT ![t] = token]
              /\ row' = [row EXCEPT ![t] = ClaimedRow(@, op[b].worker, op[b].tier, token)]
              /\ granted' = granted \cup {<<op[b].worker, t, token>>}
         ELSE UNCHANGED <<minted, row, granted>>
  /\ UNCHANGED <<deps, task, artifacts, referenced, scores, rounds, todo>>

\* report: the lease check on the row read, then put_artifact's own commit.
ReadReport(b, w, tier, t, token, succeeded) ==
  /\ Free(b)
  /\ <<w, t, token>> \in granted
  /\ HoldsLease(row[t], w, token)
  /\ artifacts' = artifacts \cup {<<b, t, token>>}
  /\ op' = [op EXCEPT ![b] = [kind |-> "report", ticket |-> t, worker |-> w, tier |-> tier,
                              token |-> token, ok |-> succeeded,
                              attempts |-> row[t].attempts]]
  /\ UNCHANGED <<row, deps, task, minted, granted, referenced,
                 scores, rounds, todo>>

\* Slips: the UPDATE is fenced by the status alone; the result of a lost
\* lease is left behind.
ReportFenceByStatus(b) == row[op[b].ticket].status = "claimed"

LostLeaseKeeps(b) == UNCHANGED artifacts

\* The fence of the UPDATE.  Its lease_expires_at>now uses the now of the
\* read, so only status, holder and token can have changed since.
ReportFence(b) ==
  /\ row[op[b].ticket].status = "claimed"
  /\ row[op[b].ticket].lease.holder = op[b].worker
  /\ row[op[b].ticket].lease.token = op[b].token

\* The loser deletes the artifact it has already committed.
LostLease(b) == artifacts' = artifacts \ {<<b, op[b].ticket, op[b].token>>}

WriteReport(b) ==
  /\ op[b].kind = "report"
  /\ op' = [op EXCEPT ![b] = NoOp]
  /\ LET t == op[b].ticket
         new == ReportedRow(row[t], op[b].attempts, op[b].tier, op[b].token, op[b].ok)
     IN  IF ReportFence(b)
         THEN /\ row' = [row EXCEPT ![t] = new]
              /\ referenced' = referenced \cup {<<b, t, op[b].token>>}
              /\ scores' = [scores EXCEPT ![t].reports = @ + 1]
              /\ rounds' = [rounds EXCEPT ![t] = IF new.status = "in_review" THEN @ + 1 ELSE @]
              /\ todo' = [todo EXCEPT ![b] = Aftermath(t, new.status)]
              /\ UNCHANGED artifacts
         ELSE LostLease(b) /\ UNCHANGED <<row, referenced, scores, rounds, todo>>
  /\ UNCHANGED <<deps, task, minted, granted>>

\* approve and reject: the row as read, then a compare-and-set on the status.
ReadReview(b, t, verdict) ==
  /\ Free(b)
  /\ row[t].status = "in_review"
  /\ op' = [op EXCEPT ![b] = [kind |-> verdict, ticket |-> t,
                              attempts |-> row[t].attempts]]
  /\ UNCHANGED <<row, deps, task, minted, granted, artifacts,
                 referenced, scores, rounds, todo>>

\* Slip: the review writes what it read without looking again.
ReviewBlind(t) == Added(row[t])

ReviewCAS(t) == row[t].status = "in_review"

WriteReview(b) ==
  /\ op[b].kind \in {"approve", "reject"}
  /\ op' = [op EXCEPT ![b] = NoOp]
  /\ LET t == op[b].ticket
         new == IF op[b].kind = "approve" THEN ApprovedRow(row[t])
                ELSE RejectedRow(row[t], op[b].attempts)
     IN  IF ReviewCAS(t)
         THEN /\ row' = [row EXCEPT ![t] = new]
              /\ scores' = [scores EXCEPT ![t].reviews = @ + 1]
              /\ todo' = [todo EXCEPT ![b] = Aftermath(t, new.status)]
         ELSE UNCHANGED <<row, scores, todo>>
  /\ UNCHANGED <<deps, task, minted, granted, artifacts, referenced, rounds>>

\* Slips: the status, or the cycle, is only looked at before the INSERT.
LinkableAnytime(c, p) ==
  Added(row[c]) /\ Added(row[p]) /\ NoDowngrade(c, p) /\ c \notin Reach(deps, p)

LinkableAnyhow(c, p) ==
  /\ Added(row[c]) /\ Added(row[p]) /\ c # p
  /\ row[c].status \notin {"claimed", "in_review"}
  /\ NoDowngrade(c, p)

Linkable(c, p) ==
  /\ Added(row[c]) /\ Added(row[p])
  /\ c # p
  /\ row[c].status \notin {"claimed", "in_review"}
  /\ NoDowngrade(c, p)
  /\ c \notin Reach(deps, p)

Link(b, c, p) ==
  /\ Free(b)
  /\ p \notin deps[c]
  /\ Linkable(c, p)
  /\ deps' = [deps EXCEPT ![c] = @ \cup {p}]
  /\ UNCHANGED <<row, task, minted, granted, artifacts, referenced,
                 scores, rounds, op, todo>>

\* RouterService.cancel_task commits CANCELLED; cancel_for_task then selects
\* the live tickets of the task, and cancels them in a later transaction.
CancelTask(b, k) ==
  /\ Free(b)
  /\ task[k] \notin TerminalTask
  /\ task' = [task EXCEPT ![k] = "CANCELLED"]
  /\ op' = [op EXCEPT ![b] = [kind |-> "cancel", task |-> k]]
  /\ UNCHANGED <<row, deps, minted, granted, artifacts, referenced,
                 scores, rounds, todo>>

ReadCancel(b) ==
  /\ op[b].kind = "cancel"
  /\ op' = [op EXCEPT ![b] =
       [kind |-> "cancelling",
        hit |-> {t \in Ticket : TaskOf[t] = op[b].task /\ Live(row[t])}]]
  /\ UNCHANGED <<row, deps, task, minted, granted, artifacts,
                 referenced, scores, rounds, todo>>

\* Every selected ticket joins the cascade, also one whose guarded UPDATE
\* matched no row because it was settled in between.
WriteCancel(b) ==
  /\ op[b].kind = "cancelling"
  /\ op' = [op EXCEPT ![b] = NoOp]
  /\ LET done == {t \in op[b].hit : Live(row[t])}
     IN  /\ row' = [t \in Ticket |-> IF t \in done THEN CancelledRow(row[t]) ELSE row[t]]
  /\ todo' = [todo EXCEPT ![b] = IF op[b].hit = {} THEN <<>>
                ELSE <<Write("cascade", CHOOSE t \in op[b].hit : TRUE, "FAILED", op[b].hit)>>]
  /\ UNCHANGED <<deps, task, minted, granted, artifacts, referenced, scores, rounds>>

\* A report or a reject that reads a settled ticket is refused, after the
\* writes an interrupted predecessor may have lost are driven again.
ReadSettled(b, t) ==
  /\ Free(b)
  /\ row[t].status \in {"failed", "done", "in_review"}
  /\ todo' = [todo EXCEPT ![b] =
       IF row[t].status = "failed"
       THEN <<Write("cascade", t, "FAILED", {t}), Write("mirror", t, "FAILED", {})>>
       ELSE Aftermath(t, row[t].status)]
  /\ UNCHANGED <<row, deps, task, minted, granted, artifacts,
                 referenced, scores, rounds, op>>

Reap(b) ==
  /\ Free(b)
  /\ row' = [t \in Ticket |-> IF Expired(row[t]) THEN ReapedRow(row[t]) ELSE row[t]]
  /\ LET parked == {t \in Ticket : Expired(row[t]) /\ row[t].attempts >= MaxAttempts}
         any == CHOOSE t \in Ticket : TRUE
     IN  todo' = [todo EXCEPT ![b] = <<Write("parked", any, "FAILED", parked),
                                       Write("sweep", any, "FAILED", {}),
                                       Write("remirror", any, "FAILED", {})>>]
  /\ UNCHANGED <<deps, task, minted, granted, artifacts, referenced,
                 scores, rounds, op>>

----------------------------------------------------------------------------
(* A broker's writes after its first commit, one transaction each.         *)

Next1(b, kind) == todo[b] # <<>> /\ Head(todo[b]).op = kind

\* Replace the first write of a broker by others.
Continue(b, items) == todo' = [todo EXCEPT ![b] = items \o Tail(todo[b])]

MirrorTaskState(b) ==
  /\ Next1(b, "mirror")
  /\ task' = Converge(task, TaskOf[Head(todo[b]).ticket], Head(todo[b]).state)
  /\ Continue(b, <<>>)
  /\ UNCHANGED <<row, deps, minted, granted, artifacts, referenced,
                 scores, rounds, op>>

CascadeStep(b, c) ==
  /\ Next1(b, "cascade")
  /\ c \in Dependents(deps, Head(todo[b]).front)
  /\ Live(row[c])
  /\ row' = [row EXCEPT ![c] = CascadedRow(@)]
  /\ task' = Converge(task, TaskOf[c], "FAILED")
  /\ Continue(b, <<Write("cascade", c, "FAILED", Head(todo[b]).front \cup {c})>>)
  /\ UNCHANGED <<deps, minted, granted, artifacts, referenced,
                 scores, rounds, op>>

CascadeDone(b) ==
  /\ Next1(b, "cascade")
  /\ \A c \in Dependents(deps, Head(todo[b]).front) : ~Live(row[c])
  /\ Continue(b, <<>>)
  /\ UNCHANGED <<row, deps, task, minted, granted, artifacts,
                 referenced, scores, rounds, op>>

FailParked(b, t) ==
  /\ Next1(b, "parked")
  /\ t \in Head(todo[b]).front
  /\ task' = Converge(task, TaskOf[t], "FAILED")
  /\ Continue(b, <<Write("cascade", t, "FAILED", {t}),
                   Write("parked", t, "FAILED", Head(todo[b]).front \ {t})>>)
  /\ UNCHANGED <<row, deps, minted, granted, artifacts, referenced,
                 scores, rounds, op>>

ParkedDone(b) ==
  /\ Next1(b, "parked")
  /\ Head(todo[b]).front = {}
  /\ Continue(b, <<>>)
  /\ UNCHANGED <<row, deps, task, minted, granted, artifacts,
                 referenced, scores, rounds, op>>

Sweep(b) ==
  /\ Next1(b, "sweep")
  /\ Continue(b, <<Write("cascade", Head(todo[b]).ticket, "FAILED",
                         {t \in Ticket : Dead(row[t])})>>)
  /\ UNCHANGED <<row, deps, task, minted, granted, artifacts,
                 referenced, scores, rounds, op>>

Desynced(t) ==
  /\ row[t].status \in {"done", "failed"}
  /\ TaskOf[t] # None
  /\ task[TaskOf[t]] \notin TerminalTask

Remirror(b) ==
  /\ Next1(b, "remirror")
  /\ IF \E t \in Ticket : Desynced(t)
     THEN /\ \E t \in Ticket : /\ Desynced(t)
                               /\ task' = Converge(task, TaskOf[t], MirrorState(row[t].status))
          /\ UNCHANGED todo
     ELSE Continue(b, <<>>) /\ UNCHANGED task
  /\ UNCHANGED <<row, deps, minted, granted, artifacts, referenced,
                 scores, rounds, op>>

Tick ==
  /\ \E t \in Ticket : row[t].status = "claimed" /\ row[t].lease.ttl >= 0
  /\ row' = [t \in Ticket |-> TickedRow(row[t])]
  /\ UNCHANGED <<deps, task, minted, granted, artifacts, referenced,
                 scores, rounds, op, todo>>

----------------------------------------------------------------------------
Reads(b) ==
  \/ \E t \in Ticket, parents \in SUBSET Ticket : Add(b, t, parents)
  \/ \E w \in Worker, tier \in Tier, t \in Ticket : ReadClaim(b, w, tier, t)
  \/ \E g \in granted, tier \in Tier, ok \in BOOLEAN :
        ReadReport(b, g[1], tier, g[2], g[3], ok)
  \/ \E t \in Ticket, verdict \in {"approve", "reject"} : ReadReview(b, t, verdict)
  \/ \E t \in Ticket : ReadSettled(b, t)
  \/ \E c, p \in Ticket : Link(b, c, p)
  \/ \E k \in Task : CancelTask(b, k)
  \/ ReadCancel(b)
  \/ Reap(b)

Writes(b) ==
  \/ WriteClaim(b) \/ WriteReport(b) \/ WriteReview(b) \/ WriteCancel(b)
  \/ MirrorTaskState(b) \/ CascadeDone(b) \/ ParkedDone(b)
  \/ Sweep(b) \/ Remirror(b)
  \/ \E t \in Ticket : CascadeStep(b, t) \/ FailParked(b, t)

Next == (\E b \in Broker : Reads(b) \/ Writes(b)) \/ Tick

Spec == Init /\ [][Next]_vars

----------------------------------------------------------------------------
(* What holds between processes.                                           *)

\* A settled or reviewed ticket carries the result of its latest lease: a
\* report whose lease was reaped and claimed again through another broker
\* between its check and its write is not accepted.
ResultOfLatestLease ==
  \A t \in Ticket : row[t].status \in {"in_review", "done"} => row[t].ref = minted[t]

\* A lost lease leaves no orphan: every result artifact is one some row has
\* pointed to, or is the one a report still under way has just written.
NoOrphanArtifact ==
  \A a \in artifacts : \/ a \in referenced
                       \/ /\ op[a[1]].kind = "report"
                          /\ <<op[a[1]].ticket, op[a[1]].token>> = <<a[2], a[3]>>

\* "Exactly one operator action wins and record_evaluation never
\* double-counts": a result under review is judged and scored once, however
\* many brokers read it.
OneVerdictPerRound ==
  \A t \in Ticket :
    scores[t].reviews + (IF row[t].status = "in_review" THEN 1 ELSE 0) <= rounds[t]

\* Opposite links through two brokers never close a circle.
Acyclic ==
  \A S \in SUBSET Ticket : S # {} => \E t \in S : deps[t] \cap S = {}

\* An edge linked through one broker never gets under a ticket that another
\* broker has handed out.
DependencyGate ==
  \A t \in Ticket : row[t].status \in {"claimed", "in_review"} =>
    \A p \in deps[t] : row[p].status = "done"

\* The task of a ticket never shows an outcome the ticket does not have,
\* whichever broker's mirror comes last.
MirrorTruthful ==
  \A t \in Ticket : TaskOf[t] # None =>
    /\ task[TaskOf[t]] = "COMPLETE" => row[t].status = "done"
    /\ task[TaskOf[t]] = "FAILED" => Dead(row[t])

----------------------------------------------------------------------------
(* What the code says of itself and does not keep between processes.       *)

\* reject "Requeues for another attempt while attempts remain; otherwise the
\* ticket (and any linked task) fails".
AttemptsBounded == \A t \in Ticket : row[t].attempts <= MaxAttempts

\* Dependents are cascade-failed "because a cancelled ticket can never reach
\* done": a ticket that fails for its dependencies has a dead one.
CascadeHasCause ==
  [][\A t \in Ticket :
       row[t].status # "failed" /\ row'[t].result = "dependency_failed"
         => \E p \in deps[t] : Dead(row[p])]_vars

============================================================================
