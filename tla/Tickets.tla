------------------------------ MODULE Tickets ------------------------------
(***************************************************************************)
(* The rows of the `work_queue` table and the linked `tasks` rows: their   *)
(* types, the predicates the SQL guards test and the row that each UPDATE  *)
(* of workqueue.py leaves behind.  Both specifications of the queue, one   *)
(* broker process (WorkQueue) and several (BrokerProcs), are written with  *)
(* these operators.                                                        *)
(*                                                                         *)
(* Time: a row stores lease_expires_at; the model stores ttl, the distance *)
(* lease_expires_at - now, which ticks down to -1 and stays there.  Only   *)
(* its sign is ever tested: ttl > 0 is a live lease, ttl = 0 the instant   *)
(* at which neither a report nor the reaper may act, ttl < 0 an expired    *)
(* lease.                                                                  *)
(***************************************************************************)
EXTENDS Integers, FiniteSets

CONSTANTS
  Ticket,         \* ticket ids
  Task,           \* ids of the tasks the tickets are linked to
  Worker,         \* authenticated identities of pull workers
  Class,          \* privacy classes
  Tier,           \* attested provider privacy tiers
  LocalOnly,      \* the trusted tier, ProviderPrivacyTier.local_only
  AllowedTiers,   \* routing config: the tiers that may claim each class
  RequireRedaction, \* routing config: classes that must be cloud safe
  ClassOf,        \* the privacy class each ticket is added with
  CloudSafe,      \* the tickets whose payload was fully redacted
  TaskOf,         \* the task a ticket is linked to, or None
  MaxAttempts,    \* the max_attempts column
  LeaseSeconds,   \* default_lease_seconds
  MaxExtend,      \* MAX_LEASE_EXTEND_SECONDS
  None            \* SQL NULL

ASSUME ConstantTypes ==
  /\ Ticket # {}
  /\ LocalOnly \in Tier
  /\ AllowedTiers \in [Class -> SUBSET Tier]
  /\ RequireRedaction \subseteq Class
  /\ ClassOf \in [Ticket -> Class]
  /\ CloudSafe \subseteq Ticket
  /\ TaskOf \in [Ticket -> Task \cup {None}]
  /\ None \notin Task \cup Worker \cup Tier

ASSUME BoundTypes ==
  /\ MaxAttempts \in Nat \ {0}
  /\ LeaseSeconds \in Nat \ {0}
  /\ MaxExtend \in Nat \ {0}

\* enqueue_task mints one task per ticket.
ASSUME OneTicketPerTask ==
  \A t, u \in Ticket : TaskOf[t] = TaskOf[u] /\ TaskOf[t] # None => t = u

----------------------------------------------------------------------------
(* Vocabularies.                                                           *)

TicketStatus == {"open", "claimed", "in_review", "parked",
                 "done", "failed", "cancelled"}

TerminalStatus == {"done", "failed", "cancelled"}

\* The states a task that only the queue drives can be in: enqueue_task
\* leaves it at CREATED, the mirror and the cancel do the rest.
TaskState == {"CREATED", "REVIEW_READY", "COMPLETE", "FAILED", "CANCELLED"}

TerminalTask == {"COMPLETE", "FAILED", "CANCELLED"}

ParkReason == {"none", "not_pullable", "not_cloud_safe", "exhausted",
               "dependency_failed", "task_cancelled"}

ResultStatus == {"none", "pending", "approved", "rejected", "failed",
                 "dependency_failed", "cancelled"}

\* A row of work_queue; "absent" is a ticket that has not been added.
Lease == [holder : Worker \cup {None}, tier : Tier \cup {None},
          token : Nat, ttl : Int]

Row == [status   : TicketStatus \cup {"absent"},
        park     : ParkReason,
        result   : ResultStatus,
        ref      : Nat,     \* result_ref: the token it was reported under
        attempts : Nat,
        lease    : Lease]

\* All lease columns NULL.
FreeLease == [holder |-> None, tier |-> None, token |-> 0, ttl |-> -1]

AbsentRow == [status |-> "absent", park |-> "none", result |-> "none",
              ref |-> 0, attempts |-> 0, lease |-> FreeLease]

----------------------------------------------------------------------------
(* Guards.                                                                 *)

\* Authorization: may a worker attested at this tier claim this ticket?
MayClaim(tier, t) == tier \in AllowedTiers[ClassOf[t]]

\* The privacy monotonicity that add and link demand of an edge.
NoDowngrade(child, parent) ==
  AllowedTiers[ClassOf[child]] \subseteq AllowedTiers[ClassOf[parent]]

\* A row's lease is the caller's, and it is live.
HoldsLease(r, worker, token) ==
  /\ r.status = "claimed"
  /\ r.lease.holder = worker
  /\ r.lease.token = token
  /\ r.lease.ttl > 0

Expired(r) == r.status = "claimed" /\ r.lease.ttl < 0

\* A parent that can never reach done: the condition of the stranded scan.
Dead(r) ==
  \/ r.status \in {"failed", "cancelled"}
  \/ r.status = "parked" /\ r.park = "exhausted"

Added(r) == r.status # "absent"

Live(r) == Added(r) /\ r.status \notin TerminalStatus

\* The tickets that depend, directly, on a ticket of the set.
Dependents(deps, parents) == {c \in Ticket : deps[c] \cap parents # {}}

\* Sets of tickets closed under following depends_on, and what a ticket
\* reaches: the recursive CTE `reach` of link, and _depends_transitively.
Closed(deps, S) == \A t \in S : deps[t] \subseteq S

Reach(deps, from) ==
  {t \in Ticket : \A S \in SUBSET Ticket : from \in S /\ Closed(deps, S) => t \in S}

----------------------------------------------------------------------------
(* The row each write leaves.                                              *)

NoLease(r) == [r EXCEPT !.lease = FreeLease]

NewRow(t) ==
  LET reason == IF AllowedTiers[ClassOf[t]] = {} THEN "not_pullable"
                ELSE IF ClassOf[t] \in RequireRedaction /\ t \notin CloudSafe
                     THEN "not_cloud_safe" ELSE "none"
  IN  [AbsentRow EXCEPT !.status = IF reason = "none" THEN "open" ELSE "parked",
                        !.park = reason]

ClaimedRow(r, worker, tier, token) ==
  [r EXCEPT !.status = "claimed", !.attempts = r.attempts + 1,
            !.lease = [holder |-> worker, tier |-> tier, token |-> token,
                       ttl |-> LeaseSeconds]]

RenewedRow(r, extend) ==
  [r EXCEPT !.lease.ttl = IF extend < MaxExtend THEN extend ELSE MaxExtend]

\* Slip: trust attaches to the tier that reports.
ReportedRowTrusting(r, attempts, tier, token, succeeded) ==
  IF ~succeeded
  THEN [NoLease(r) EXCEPT !.status = IF attempts < MaxAttempts THEN "open" ELSE "failed",
                          !.result = "failed", !.ref = token]
  ELSE IF tier = LocalOnly
       THEN [r EXCEPT !.status = "done", !.result = "approved", !.ref = token]
       ELSE [r EXCEPT !.status = "in_review", !.result = "pending", !.ref = token]

\* report: a failure frees the lease and requeues while attempts remain; a
\* success is final only if the tier that claimed and the tier that reports
\* are both the trusted one, and waits for review otherwise.  The attempts
\* compared are those of the row as report read it.
ReportedRow(r, attempts, tier, token, succeeded) ==
  IF ~succeeded
  THEN [NoLease(r) EXCEPT !.status = IF attempts < MaxAttempts THEN "open" ELSE "failed",
                          !.result = "failed", !.ref = token]
  ELSE IF tier = LocalOnly /\ r.lease.tier = LocalOnly
       THEN [r EXCEPT !.status = "done", !.result = "approved", !.ref = token]
       ELSE [r EXCEPT !.status = "in_review", !.result = "pending", !.ref = token]

ApprovedRow(r) == [r EXCEPT !.status = "done", !.result = "approved"]

RejectedRow(r, attempts) ==
  [NoLease(r) EXCEPT !.status = IF attempts < MaxAttempts THEN "open" ELSE "failed",
                     !.result = "rejected"]

CancelledRow(r) ==
  [NoLease(r) EXCEPT !.status = "cancelled", !.result = "cancelled",
                     !.park = "task_cancelled"]

\* Slips of the reaper: one attempt too many, an exhausted lease that is left alone.
ReapedRowLate(r) ==
  IF r.attempts <= MaxAttempts
  THEN [NoLease(r) EXCEPT !.status = "open"]
  ELSE [NoLease(r) EXCEPT !.status = "parked", !.park = "exhausted"]

ReapedRowForgets(r) ==
  IF r.attempts < MaxAttempts THEN [NoLease(r) EXCEPT !.status = "open"] ELSE r

\* The two UPDATEs of reap_expired, for one expired row.
ReapedRow(r) ==
  IF r.attempts < MaxAttempts
  THEN [NoLease(r) EXCEPT !.status = "open"]
  ELSE [NoLease(r) EXCEPT !.status = "parked", !.park = "exhausted"]

CascadedRow(r) ==
  [NoLease(r) EXCEPT !.status = "failed", !.result = "dependency_failed",
                     !.park = "dependency_failed"]

\* One second passes: every running lease is one second closer to expiry.
TickedRow(r) ==
  IF r.status = "claimed" /\ r.lease.ttl >= 0 THEN [r EXCEPT !.lease.ttl = r.lease.ttl - 1] ELSE r

----------------------------------------------------------------------------
(* Linked tasks.                                                           *)

\* Slip: the mirror overwrites a terminal task.
ConvergeForced(task, k, state) ==
  IF k = None THEN task ELSE [task EXCEPT ![k] = state]

\* TransitionAuthority.converge with the mirror's overlay: a task that is
\* terminal is final, any other follows the ticket.
Converge(task, k, state) ==
  IF k = None THEN task
  ELSE IF task[k] \in TerminalTask THEN task ELSE [task EXCEPT ![k] = state]

\* Slip: a result that awaits review completes the task.
MirrorStateEager(status) == IF status = "failed" THEN "FAILED" ELSE "COMPLETE"

\* The task state a ticket's status is mirrored to (TICKET_TO_TASK_STATE).
MirrorState(status) ==
  CASE status = "failed"    -> "FAILED"
    [] status = "done"      -> "COMPLETE"
    [] status = "in_review" -> "REVIEW_READY"

============================================================================
