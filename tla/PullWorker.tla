----------------------------- MODULE PullWorker -----------------------------
(***************************************************************************)
(* Contributors' workers that pull a ticket from the broker over HTTP:     *)
(* claim, execute while a thread renews the lease, report.  A request may  *)
(* be refused by a busy store, its answer lost, or it may be handled long  *)
(* after its sender gave up on it; a worker may die at any point.  The row *)
(* of the ticket and what each call does to it are those of Tickets.       *)
(***************************************************************************)
EXTENDS Naturals, FiniteSets

CONSTANTS
  Puller,          \* identities of the workers
  PullerTier,      \* the tier the broker resolves each identity to
  PullAttempts,    \* max_attempts of the ticket
  PullLease,       \* default_lease_seconds
  ReportRetries,   \* report_retries
  MaxFaults        \* bound: refusals, lost answers, late requests and deaths

ASSUME PullConstants == /\ PullAttempts \in Nat \ {0} /\ PullLease \in Nat \ {0}
                        /\ ReportRetries \in Nat /\ MaxFaults \in Nat

Q == INSTANCE Tickets WITH
       Ticket <- {"ticket"}, Task <- {}, Worker <- Puller, Class <- {"class"},
       Tier <- {"local_only", "cloud"}, LocalOnly <- "local_only",
       AllowedTiers <- [c \in {"class"} |-> {"local_only", "cloud"}],
       RequireRedaction <- {}, ClassOf <- [t \in {"ticket"} |-> "class"],
       CloudSafe <- {}, TaskOf <- [t \in {"ticket"} |-> "none"],
       MaxAttempts <- PullAttempts, LeaseSeconds <- PullLease,
       MaxExtend <- PullLease, None <- "none"

VARIABLES
  ticket,   \* the broker's row
  tokens,   \* lease tokens minted
  worker,   \* each worker's loop: where it is, its lease and its result
  wire,     \* requests sent and not yet handled
  ran,      \* the tokens under which a payload was really executed to a success
  faults

pullVars == <<ticket, tokens, worker, wire, ran, faults>>

Polling == [at |-> "poll", token |-> 0, payload |-> FALSE, result |-> FALSE, tries |-> 0]

PullInit ==
  /\ ticket = Q!NewRow("ticket") /\ tokens = 0
  /\ worker = [w \in Puller |-> Polling]
  /\ wire = {} /\ ran = {} /\ faults = 0

Request(op, w) == [op |-> op, from |-> w, token |-> worker[w].token,
                   result |-> worker[w].result, try |-> worker[w].tries]
Become(w, state) == worker' = [worker EXCEPT ![w] = state]
Fault == faults < MaxFaults /\ faults' = faults + 1

-----------------------------------------------------------------------------
(* The worker.                                                             *)

\* A claim its sender gave up on may still be on the wire.
Unused(w) == CHOOSE n \in 0..MaxFaults : \A r \in wire : r.op = "claim" /\ r.from = w => r.try # n

PullClaim(w) ==
  /\ worker[w].at = "poll" /\ Q!Live(ticket)
  /\ wire' = wire \cup {[Request("claim", w) EXCEPT !.try = Unused(w)]}
  /\ Become(w, [worker[w] EXCEPT !.at = "claiming", !.tries = Unused(w)])
  /\ UNCHANGED <<ticket, tokens, ran, faults>>

\* While the task runs: one renewal at a time.
Heartbeat(w) ==
  /\ worker[w].at = "run" /\ worker[w].payload
  /\ \A r \in wire : r.op = "heartbeat" => r.from # w
  /\ wire' = wire \cup {Request("heartbeat", w)}
  /\ UNCHANGED <<ticket, tokens, worker, ran, faults>>

\* What there is to report: a body that did not arrive, and an exception, are
\* failures.
ResultOf(w, ok) == ok /\ worker[w].payload

SendReport(w, state) ==
  /\ Become(w, state)
  /\ wire' = wire \cup {[op |-> "report", from |-> w, token |-> state.token,
                         result |-> state.result, try |-> state.tries]}

RunPulled(w, ok) ==
  /\ worker[w].at = "run"
  /\ SendReport(w, [worker[w] EXCEPT !.at = "reporting", !.result = ResultOf(w, ok)])
  /\ ran' = IF ok /\ worker[w].payload THEN ran \cup {worker[w].token} ELSE ran
  /\ UNCHANGED <<ticket, tokens, faults>>

Answered(w) == \A r \in wire : r.from = w => r.op = "heartbeat"

\* _report_with_retry: the same report again, a bounded number of times.
RetryReport(w) ==
  IF worker[w].tries < ReportRetries
  THEN SendReport(w, [worker[w] EXCEPT !.tries = @ + 1])
  ELSE Become(w, Polling) /\ UNCHANGED wire

\* Slip: the poll has no time-out, a claim that gets no answer is waited for.
GivesUpOnReport(w) ==
  /\ worker[w].at = "reporting"
  /\ IF Answered(w) THEN UNCHANGED faults ELSE Fault
  /\ RetryReport(w)
  /\ UNCHANGED <<ticket, tokens, ran>>

\* The client gives up waiting: no answer came back, or (a fault) none yet.
GivesUp(w) ==
  /\ worker[w].at \in {"claiming", "reporting"}
  /\ IF Answered(w) THEN UNCHANGED faults ELSE Fault
  /\ IF worker[w].at = "claiming" THEN Become(w, Polling) /\ UNCHANGED wire ELSE RetryReport(w)
  /\ UNCHANGED <<ticket, tokens, ran>>

\* The process dies and is started again; its requests stay on the wire.
Dies(w) ==
  /\ Fault
  /\ Become(w, Polling)
  /\ UNCHANGED <<ticket, tokens, wire, ran>>

-----------------------------------------------------------------------------
(* The broker's routes.                                                    *)

\* The requester still waits for this very request.
Waits(r) == /\ worker[r.from].at = (IF r.op = "claim" THEN "claiming" ELSE "reporting")
            /\ worker[r.from].token = r.token /\ worker[r.from].tries = r.try

\* GET /queue/next: the claim is committed; then each body is resolved on its
\* own, and a failure is told to the worker along with its lease.
QueueNext(r, body, delivered) ==
  /\ r \in wire /\ r.op = "claim"
  /\ wire' = wire \ {r}
  /\ delivered => Waits(r)
  /\ IF Waits(r) /\ ~(delivered /\ body) THEN Fault ELSE UNCHANGED faults
  /\ IF ticket.status = "open"
       THEN /\ tokens' = tokens + 1
            /\ ticket' = Q!ClaimedRow(ticket, r.from, PullerTier[r.from], tokens + 1)
            /\ IF delivered
                 THEN Become(r.from, [Polling EXCEPT !.at = "run", !.token = tokens + 1,
                                                     !.payload = body])
                 ELSE UNCHANGED worker
       ELSE /\ UNCHANGED <<ticket, tokens>>
            /\ IF delivered THEN Become(r.from, Polling) ELSE UNCHANGED worker
  /\ UNCHANGED ran

\* POST /queue/{id}/report: applied under a live lease, refused otherwise; either
\* is an answer that ends run_once.
QueueReport(r, delivered) ==
  /\ r \in wire /\ r.op = "report"
  /\ wire' = wire \ {r}
  /\ delivered => Waits(r)
  /\ IF ~delivered /\ Waits(r) THEN Fault ELSE UNCHANGED faults
  /\ ticket' = IF Q!HoldsLease(ticket, r.from, r.token)
               THEN Q!ReportedRow(ticket, ticket.attempts, PullerTier[r.from], r.token, r.result)
               ELSE ticket
  /\ IF delivered THEN Become(r.from, Polling) ELSE UNCHANGED worker
  /\ UNCHANGED <<tokens, ran>>

\* POST /queue/{id}/heartbeat: nobody looks at the answer.
QueueHeartbeat(r) ==
  /\ r \in wire /\ r.op = "heartbeat"
  /\ wire' = wire \ {r}
  /\ ticket' = IF Q!HoldsLease(ticket, r.from, r.token) THEN Q!RenewedRow(ticket, PullLease) ELSE ticket
  /\ UNCHANGED <<tokens, worker, ran, faults>>

\* _guard: the store is busy, the request fails with 503 and changes nothing.
StoreBusy(r) ==
  /\ r \in wire /\ Fault
  /\ wire' = wire \ {r}
  /\ UNCHANGED <<ticket, tokens, worker, ran>>

\* The reaper's thread, and the clock.
ReapPulled ==
  /\ Q!Expired(ticket)
  /\ ticket' = Q!ReapedRow(ticket)
  /\ UNCHANGED <<tokens, worker, wire, ran, faults>>

TickPulled ==
  /\ ticket' = Q!TickedRow(ticket) /\ ticket' # ticket
  /\ UNCHANGED <<tokens, worker, wire, ran, faults>>

WorkerSteps(w) == PullClaim(w) \/ GivesUp(w) \/ (\E ok \in BOOLEAN : RunPulled(w, ok))
Handle(r) == \/ \E body, delivered \in BOOLEAN : QueueNext(r, body, delivered)
             \/ \E delivered \in BOOLEAN : QueueReport(r, delivered)
             \/ QueueHeartbeat(r)

PullNext ==
  \/ \E w \in Puller : WorkerSteps(w) \/ Heartbeat(w) \/ Dies(w)
  \/ \E r \in wire : Handle(r) \/ StoreBusy(r)
  \/ ReapPulled \/ TickPulled
PullSpec == PullInit /\ [][PullNext]_pullVars

\* Workers poll and give up, the broker answers, the reaper runs, time passes;
\* nobody is obliged to send a heartbeat, or to fail.
PullFairness ==
  /\ \A w \in Puller : WF_pullVars(PullClaim(w)) /\ WF_pullVars(\E ok \in BOOLEAN : RunPulled(w, ok))
                       /\ WF_pullVars(Answered(w) /\ GivesUp(w))
  /\ WF_pullVars(\E r \in wire : Handle(r))
  /\ WF_pullVars(ReapPulled) /\ WF_pullVars(TickPulled)

-----------------------------------------------------------------------------
\* No empty completion: a result the broker has accepted was computed, by a run
\* of the body, under the very lease it was accepted under -- not by a worker
\* whose body never arrived, nor by a late report of an earlier lease.
NoEmptyCompletion ==
  ticket.status \in {"done", "in_review"} => ticket.ref \in ran /\ ticket.lease.token = ticket.ref

\* Whatever is lost, refused, late or dead, a bounded number of times, the ticket
\* is handed back to the submitter: done, awaiting review, failed or parked.
PulledTicketEnds == <>(ticket.status \in {"done", "in_review", "failed", "parked"})

\* What pulling promises the submitter (pull_worker.py, transport.py): an accepted
\* result was computed, and the ticket always comes back.
PullSafe == []NoEmptyCompletion /\ PulledTicketEnds
=============================================================================
