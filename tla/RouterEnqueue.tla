--------------------------- MODULE RouterEnqueue ---------------------------
(***************************************************************************)
(* RouterService.enqueue_task under one dedup key: callers retry, in       *)
(* several threads or broker processes, what another may have done.  The   *)
(* ticket is unique by an index of the table; the task row and artifacts   *)
(* are minted before it and must not outlive a lost race.                  *)
(***************************************************************************)
EXTENDS Naturals, FiniteSets

CONSTANTS
  Caller,       \* threads that enqueue under the key
  MaxEnqueues   \* bound: calls of one caller

VARIABLES
  enq,          \* per caller: where it is and how many calls it has made
  minted,       \* rows of `tasks` (with artifacts, logs, decisions)
  ticket        \* the task the key's ticket links, empty without one

enqueueVars == <<enq, minted, ticket>>

EnqueueInit ==
  /\ enq = [c \in Caller |-> [pc |-> "idle", call |-> 0]]
  /\ minted = {} /\ ticket = {}

Mine(c) == <<c, enq[c].call>>

Step(c, pc) == enq' = [enq EXCEPT ![c].pc = pc]

\* find_by_dedup first: a retry returns the existing ticket.
FindByDedup(c) ==
  /\ enq[c].pc = "idle" /\ enq[c].call < MaxEnqueues
  /\ enq' = [enq EXCEPT ![c] =
       [pc |-> IF ticket = {} THEN "mint" ELSE "idle", call |-> @.call + 1]]
  /\ UNCHANGED <<minted, ticket>>

\* create_task, classify, redact, the artifact and the advisory route.
MintTask(c) ==
  /\ enq[c].pc = "mint"
  /\ minted' = minted \cup {Mine(c)}
  /\ Step(c, "add")
  /\ UNCHANGED ticket

\* WorkQueue.add: the loser of the race gets the winner's ticket.
AddTicket(c) ==
  /\ enq[c].pc = "add"
  /\ ticket' = IF ticket = {} THEN {Mine(c)} ELSE ticket
  /\ Step(c, "tidy")
  /\ UNCHANGED minted

\* Slip: only the ticket is deduplicated.
TidyNothing(c) ==
  /\ enq[c].pc = "tidy"
  /\ Step(c, "idle")
  /\ UNCHANGED <<minted, ticket>>

\* delete_task_cascade when the ticket links another task.
Tidy(c) ==
  /\ enq[c].pc = "tidy"
  /\ minted' = IF ticket # {Mine(c)} THEN minted \ {Mine(c)} ELSE minted
  /\ Step(c, "idle")
  /\ UNCHANGED ticket

EnqueueNext ==
  \E c \in Caller : FindByDedup(c) \/ MintTask(c) \/ AddTicket(c) \/ Tidy(c)

EnqueueSpec == EnqueueInit /\ [][EnqueueNext]_enqueueVars

\* Once every caller has returned, the key has one task, the one its ticket
\* links: retries and races leave neither orphan rows nor a ticket whose
\* task was unwound (enqueue_task's idempotency-race cleanup).
NoOrphanTask ==
  /\ (\A c \in Caller : enq[c].pc = "idle") => minted = ticket
  /\ ticket \subseteq minted

============================================================================
