---------------------------- MODULE TaskStateLog ----------------------------
(***************************************************************************)
(* The router's store (Engine B): the one writer of tasks.state, the fenced*)
(* ticket updates, the logs rows that ride their commits, and the advisory *)
(* rows mirrored onto the ecosystem bus.  Several processes share the file;*)
(* SQLite lets one of them at a time hold the write transaction.  The bus  *)
(* is another database, written by the sink when it can be.                *)
(***************************************************************************)
EXTENDS Naturals, Sequences
CONSTANTS StoreUser,   \* the processes that have the store open
          CasAttempts, \* how often a missed compare-and-set is tried (3)
          MaxLogs      \* bound on the logs table, and on the mirrored rows
ASSUME TaskStateBounds == CasAttempts \in Nat \ {0} /\ MaxLogs \in Nat
VARIABLES taskState, ticket, logs, bus, user, locker
storeVars == <<taskState, ticket, logs, bus, user, locker>>

\* The last stretch of the task state machine: the task has been dispatched.
Edges == [DISPATCHED |-> {"RUNNING", "CANCELLED"}, RUNNING |-> {"FAILED", "CANCELLED"},
          FAILED |-> {}, CANCELLED |-> {}]
Idle == [phase |-> "idle", dst |-> "none", read |-> "none", attempts |-> 0]
StoreInit == /\ taskState = "DISPATCHED" /\ ticket = 0 /\ logs = <<>> /\ bus = <<>>
             /\ user = [u \in StoreUser |-> Idle] /\ locker = "nobody"

LogRow(of, src, dst, outcome) == [of |-> of, src |-> src, dst |-> dst, outcome |-> outcome]
InsertTransitionLog(row) == logs' = Append(logs, row)
\* The sink takes the row or raises, which is swallowed; the reason is left out.
EmitBusEvent(row, accepted) ==
  bus' = IF accepted /\ row.outcome = "applied" THEN Append(bus, row) ELSE bus
Unlocked == locker = "nobody"
Turn(u, next) == user' = [user EXCEPT ![u] = next]

(***************************************************************************)
(* transition_task: a fresh read, the decision, and a compare-and-set that *)
(* commits with its logs row; the mirror follows the commit.               *)
(***************************************************************************)
BeginTransition(u, dst) ==
  /\ user[u].phase = "idle" /\ Len(logs) < MaxLogs
  /\ Turn(u, [Idle EXCEPT !.phase = "read", !.dst = dst])
  /\ UNCHANGED <<taskState, ticket, logs, bus, locker>>
ReadState(u) ==
  /\ user[u].phase = "read"
  /\ Turn(u, [user[u] EXCEPT !.phase = "decided", !.read = taskState])
  /\ UNCHANGED <<taskState, ticket, logs, bus, locker>>
DecideRefuses(u) == \* a replay is silent, a refusal is logged; neither writes the state
  /\ user[u].phase = "decided" /\ user[u].dst \notin Edges[user[u].read] /\ Unlocked
  /\ IF user[u].dst = user[u].read THEN UNCHANGED logs
     ELSE InsertTransitionLog(LogRow("task", user[u].read, user[u].dst, "refused"))
  /\ Turn(u, Idle)
  /\ UNCHANGED <<taskState, ticket, bus, locker>>
\* Slip: the UPDATE forgets to name the state it read.
MatchesAny(u) == TRUE
Matches(u) == taskState = user[u].read
Retried(u) == IF user[u].attempts + 1 < CasAttempts
              THEN [user[u] EXCEPT !.phase = "read", !.attempts = @ + 1] ELSE Idle
CompareAndSet(u) ==
  /\ user[u].phase = "decided" /\ user[u].dst \in Edges[user[u].read] /\ Unlocked
  /\ \/ /\ Matches(u)
        /\ taskState' = user[u].dst
        /\ InsertTransitionLog(LogRow("task", user[u].read, user[u].dst, "applied"))
        /\ Turn(u, [user[u] EXCEPT !.phase = "mirror"])
     \/ /\ ~Matches(u)
        /\ Turn(u, Retried(u)) /\ UNCHANGED <<taskState, logs>>
  /\ UNCHANGED <<ticket, bus, locker>>
MirrorTransition(u, accepted) ==
  /\ user[u].phase = "mirror"
  /\ EmitBusEvent(LogRow("task", user[u].read, user[u].dst, "applied"), accepted)
  /\ Turn(u, Idle)
  /\ UNCHANGED <<taskState, ticket, logs, locker>>

(***************************************************************************)
(* A fenced ticket update: the UPDATE, its audit row and its mirror happen *)
(* inside the transaction, which then commits or does not.                 *)
(***************************************************************************)
TicketAudit(u, accepted) ==
  /\ user[u].phase = "idle" /\ Unlocked /\ Len(logs) < MaxLogs /\ Len(bus) < MaxLogs
  /\ locker' = u
  /\ EmitBusEvent(LogRow("ticket", ticket, ticket + 1, "applied"), accepted)
  /\ Turn(u, [Idle EXCEPT !.phase = "ticket"])
  /\ UNCHANGED <<taskState, ticket, logs>>
TicketCommit(u, landed) ==
  /\ user[u].phase = "ticket" /\ locker = u
  /\ IF landed
     THEN ticket' = ticket + 1 /\ InsertTransitionLog(LogRow("ticket", ticket, ticket + 1, "applied"))
     ELSE UNCHANGED <<ticket, logs>>
  /\ locker' = "nobody" /\ Turn(u, Idle)
  /\ UNCHANGED <<taskState, bus>>

\* A process that dies leaves what it had committed; the lock is the file's.
Dies(u) == /\ user[u].phase \notin {"idle", "ticket"}
           /\ Turn(u, Idle) /\ UNCHANGED <<taskState, ticket, logs, bus, locker>>

StoreNext == \E u \in StoreUser :
  \/ \E dst \in {"RUNNING", "FAILED", "CANCELLED"} : BeginTransition(u, dst)
  \/ ReadState(u) \/ DecideRefuses(u) \/ CompareAndSet(u) \/ Dies(u)
  \/ \E yes \in BOOLEAN : MirrorTransition(u, yes) \/ TicketAudit(u, yes) \/ TicketCommit(u, yes)
StoreSpec == StoreInit /\ [][StoreNext]_storeVars

(***************************************************************************)
(* Properties.                                                             *)
(***************************************************************************)
\* The places of the rows that tell of an applied step of the task or of the ticket.
Applied(rows, of) == {i \in DOMAIN rows : rows[i].of = of /\ rows[i].outcome = "applied"}
\* They lead from one state to another: each starts where the one before it ended.
Chain(rows, of, first, last) ==
  LET at == Applied(rows, of) IN
  /\ at = {} => last = first
  /\ \A i \in at : (\A j \in at : j >= i) => rows[i].src = first
  /\ \A i \in at : (\A j \in at : j <= i) => rows[i].dst = last
  /\ \A i, j \in at : i < j /\ (\A k \in at : k <= i \/ k >= j) => rows[j].src = rows[i].dst
\* The logs alone tell what happened: whatever processes raced, missed their
\* compare-and-set or died, the applied rows of the task, and of the ticket, are one
\* unbroken chain of edges from its dispatch to the state it is in; and the mirrored
\* rows of the task are among them, each at most once (the mirror may lose rows, and
\* only a ticket's may be stray, when its transaction rolled back).
LogsTellAll ==
  /\ Chain(logs, "task", "DISPATCHED", taskState)
  /\ \A i \in Applied(logs, "task") : logs[i].dst \in Edges[logs[i].src]
  /\ Chain(logs, "ticket", 0, ticket)
  /\ \A i \in Applied(bus, "task") : \E j \in Applied(logs, "task") : bus[i] = logs[j]
  /\ \A i, j \in Applied(bus, "task") : bus[i] = bus[j] => i = j
=============================================================================
