----------------------------- MODULE TaskLedger -----------------------------
(***************************************************************************)
(* One task of the core ledger: who claims it, what is decided about it,   *)
(* what was attempted, which reviews are asked for and answered            *)
(* (core/service.py, claims.py, decisions.py, reviews.py, storage.py).     *)
(*                                                                         *)
(* Only storage calls are atomic.  A service method that makes several is  *)
(* split where another caller can run: pend holds what the calls in flight *)
(* have yet to do, each under the number of its call.  Any of them may go  *)
(* next, and a Crash of its process drops one for good.  The span of       *)
(* storage.transaction() is serialized by a lock of the process: the API,  *)
(* the command line and each MCP server are processes on one file, and     *)
(* their spans overlap wherever one reads before its first write.          *)
(*                                                                         *)
(* calls numbers the calls and is also the clock: timestamps are only      *)
(* compared with one another.  A claim's time to live runs out at any      *)
(* moment (Lapse).                                                         *)
(***************************************************************************)
EXTENDS Transitions, Sequences, TLC

CONSTANTS
  Manager,        \* agents and humans that act on the task
  Review,         \* review ids
  Process,        \* the processes that open the ledger
  NoManager,      \* current_manager is NULL
  MaxCalls,       \* bound on the calls of a behaviour
  MaxDecisions    \* bound on the decisions recorded

ASSUME TaskLedgerBounds ==
  /\ MaxCalls \in Nat
  /\ MaxDecisions \in Nat
  /\ NoManager \notin Manager
  /\ "none" \notin Process /\ "lapsed" \notin Process

VARIABLES
  taskStatus,   \* tasks.status
  manager,      \* tasks.current_manager
  claim,        \* claims: the longest unreleased claim of each manager and role;
                \* a live one is the process that entered it
  decisions,    \* decisions, in order
  attemptAt,    \* created_at of the newest attempt, 0 for none
  artifacts,    \* an artifact is registered
  review,       \* reviews
  inbox,        \* undismissed inbox_items, as the reviews they point to
  verdicts,     \* review_completed announcements of each review
  pend,         \* what the calls in flight have yet to do
  calls         \* the calls so far

ledgerRows == <<claim, decisions, attemptAt, artifacts, inbox>>

\* Every role but these two is never looked at: any number may hold it.
ClaimRole == {"primary_manager", "human_owner"}

ReviewStatus == {"open", "claimed", "in_progress", "completed", "rejected", "cancelled"}
TerminalReview == {"completed", "rejected", "cancelled"}
OpenReview == ReviewStatus \ TerminalReview

ReviewEdges(src) ==
  CASE src = "open"        -> {"claimed", "cancelled"}
    [] src = "claimed"     -> {"in_progress", "completed", "rejected", "cancelled", "open"}
    [] src = "in_progress" -> {"completed", "rejected", "cancelled"}
    [] OTHER               -> {}

NoReview == [status |-> "absent", by |-> NoManager, to |-> NoManager, result |-> 0]

TaskLedgerInit ==
  /\ taskStatus = "queued"
  /\ manager = NoManager
  /\ claim = [x \in Manager \X ClaimRole |-> "none"]
  /\ decisions = <<>>
  /\ attemptAt = 0
  /\ artifacts = FALSE
  /\ review = [r \in Review |-> NoReview]
  /\ inbox = {}
  /\ verdicts = [r \in Review |-> 0]
  /\ pend = {}
  /\ calls = 0

----------------------------------------------------------------------------
(* Calls and what is left of them.                                         *)

Call == calls < MaxCalls /\ calls' = calls + 1

Todo(c, op) == c \in pend /\ c.op = op

Later(c) == pend' = pend \cup {c}
Next1(c, op) == pend' = (pend \ {c}) \cup {[c EXCEPT !.op = op]}
Done(c) == pend' = pend \ {c}

Crash(c) ==
  /\ Call /\ Done(c)
  /\ UNCHANGED <<taskStatus, manager, review, verdicts, ledgerRows>>

----------------------------------------------------------------------------
(* Claims.                                                                 *)

Live(m, role) == claim[<<m, role>>] \in Process

\* Slip: the span is not serialized.
Unserialized(p) == TRUE

\* storage.transaction(): one span at a time in a process.
Serialized(p) == \A c \in pend : c.op \in {"claim", "launch_claim"} => c.p # p

\* Only another manager's live claim stands in the way.
CheckPrimaryExclusivity(m) == \A o \in Manager \ {m} : ~Live(o, "primary_manager")

EnterClaim(m, role, p) == claim' = [claim EXCEPT ![<<m, role>>] = p]

\* claim_task from its first write on: the claim, and for a primary the
\* task's row.
ClaimTaskEffect(m, p) ==
  /\ EnterClaim(m, "primary_manager", p)
  /\ manager' = m
  /\ taskStatus' = Advance(taskStatus, "in_progress", {"queued"})

\* claim_task: the holders are read; for the other roles nothing depends on
\* what was read ...
ClaimTask(m, role, p) ==
  /\ Call
  /\ Serialized(p)
  /\ IF role = "primary_manager"
     THEN /\ CheckPrimaryExclusivity(m)
          /\ Later([op |-> "claim", m |-> m, p |-> p, call |-> calls'])
          /\ UNCHANGED claim
     ELSE EnterClaim(m, role, p) /\ UNCHANGED pend
  /\ UNCHANGED <<taskStatus, manager, decisions, attemptAt, artifacts, review, inbox, verdicts>>

\* ... and the claim is entered, whatever another process has entered since.
InsertClaim(c) ==
  /\ Todo(c, "claim")
  /\ ClaimTaskEffect(c.m, c.p)
  /\ Done(c)
  /\ UNCHANGED <<decisions, attemptAt, artifacts, review, inbox, verdicts, calls>>

\* expires_at passes.
Lapse(m, role) ==
  /\ Live(m, role)
  /\ claim' = [claim EXCEPT ![<<m, role>>] = "lapsed"]
  /\ UNCHANGED <<taskStatus, manager, decisions, attemptAt, artifacts, review, inbox, verdicts, pend, calls>>

\* release_task reads the task row, releases the claims (expired rows too;
\* finding none is NotFound) and clears the manager it read.
ReleaseTask(m) ==
  /\ Call
  /\ Later([op |-> "release", m |-> m, clear |-> manager = m, call |-> calls'])
  /\ UNCHANGED <<taskStatus, manager, review, verdicts, ledgerRows>>

ReleaseClaims(c) ==
  /\ Todo(c, "release")
  /\ claim' = [x \in DOMAIN claim |-> IF x[1] = c.m THEN "none" ELSE claim[x]]
  /\ IF c.clear /\ claim' # claim THEN Next1(c, "clear_manager") ELSE Done(c)
  /\ UNCHANGED <<taskStatus, manager, decisions, attemptAt, artifacts, review, inbox, verdicts, calls>>

ClearManager(c) ==
  /\ Todo(c, "clear_manager")
  /\ manager' = NoManager
  /\ Done(c)
  /\ UNCHANGED <<taskStatus, review, verdicts, ledgerRows, calls>>

----------------------------------------------------------------------------
(* Decisions, attempts, artifacts.                                         *)

HasDecisionAuthority(m) == Live(m, "human_owner")

\* Overturning a locked decision takes a live human_owner claim.  The span
\* that reads the claim and writes the decision is one step here.
CheckSupersedeAllowed(targets, m) ==
  (\E d \in targets : decisions[d].locked) => HasDecisionAuthority(m)

MarkSuperseded(targets, by) ==
  [d \in DOMAIN decisions |->
     IF d \in targets THEN [decisions[d] EXCEPT !.supersededBy = by] ELSE decisions[d]]

RecordDecision(m, locked, targets) ==
  /\ Call
  /\ Len(decisions) < MaxDecisions
  /\ CheckSupersedeAllowed(targets, m)
  /\ decisions' = Append(MarkSuperseded(targets, Len(decisions) + 1),
                         [locked |-> locked, supersededBy |-> 0])
  /\ UNCHANGED <<taskStatus, manager, claim, attemptAt, artifacts, review, inbox, verdicts, pend>>

RecordAttempt ==
  /\ Call
  /\ attemptAt' = calls'
  /\ UNCHANGED <<taskStatus, manager, claim, decisions, artifacts, review, inbox, verdicts, pend>>

CreateArtifact ==
  /\ Call
  /\ artifacts' = TRUE
  /\ UNCHANGED <<taskStatus, manager, claim, decisions, attemptAt, review, inbox, verdicts, pend>>

----------------------------------------------------------------------------
(* Reviews.                                                                *)

\* request_review: the row, the reviewer's inbox, the task, one by one.
RequestReview(r, by, to) ==
  /\ Call
  /\ by # to
  /\ review[r].status = "absent"
  /\ review' = [review EXCEPT ![r] = [NoReview EXCEPT !.status = "open", !.by = by, !.to = to]]
  /\ Later([op |-> "inbox", r |-> r, call |-> calls'])
  /\ UNCHANGED <<taskStatus, manager, verdicts, ledgerRows>>

InsertInboxItem(c) ==
  /\ Todo(c, "inbox")
  /\ inbox' = inbox \cup {c.r}
  /\ Next1(c, "needs_review")
  /\ UNCHANGED <<taskStatus, manager, review, verdicts, claim, decisions, attemptAt, artifacts, calls>>

AdvanceToReview(c) ==
  /\ Todo(c, "needs_review")
  /\ taskStatus' = Advance(taskStatus, "needs_review", {"queued", "in_progress"})
  /\ Done(c)
  /\ UNCHANGED <<manager, review, verdicts, ledgerRows, calls>>

CheckClaimable(r, m) == review[r].status = "open" /\ review[r].to = m

ClaimReviewEffect(r) == review' = [review EXCEPT ![r].status = "claimed"]

ClaimReview(r, m) ==
  /\ Call
  /\ CheckClaimable(r, m)
  /\ ClaimReviewEffect(r)
  /\ UNCHANGED <<taskStatus, manager, verdicts, pend, ledgerRows>>

CheckCompletable(r, m) ==
  /\ review[r].status \notin TerminalReview \cup {"absent"}
  /\ review[r].to = m

\* complete_review: the check, and the artifact that holds the result ...
CompleteReview(r, m, dst) ==
  /\ Call
  /\ CheckCompletable(r, m)
  /\ artifacts' = TRUE
  /\ Later([op |-> "verdict", r |-> r, dst |-> dst, call |-> calls'])
  /\ UNCHANGED <<taskStatus, manager, claim, decisions, attemptAt, review, inbox, verdicts>>

\* Slip: the verdict is written without the authority.
VerdictUnguarded(r, dst, result) ==
  review' = [review EXCEPT ![r].status = dst, ![r].result = result]

\* ... the strict transition, whose no-op writes no field ...
WriteVerdict(r, dst, result) ==
  IF review[r].status = dst THEN UNCHANGED review
  ELSE review' = [review EXCEPT ![r].status = dst, ![r].result = result]

Verdict(c) ==
  /\ Todo(c, "verdict")
  /\ IF Admits(ReviewEdges(review[c.r].status), review[c.r].status, c.dst)
     THEN WriteVerdict(c.r, c.dst, c.call) /\ Next1(c, "settle")
     ELSE UNCHANGED review /\ Done(c)
  /\ UNCHANGED <<taskStatus, manager, verdicts, ledgerRows, calls>>

\* ... the inbox, and whether any other review is outstanding ...
DismissAndList(c) ==
  /\ Todo(c, "settle")
  /\ inbox' = inbox \ {c.r}
  /\ Next1(c, IF \E r \in Review : review[r].status \in OpenReview
              THEN "announce_review" ELSE "resume_task")
  /\ UNCHANGED <<taskStatus, manager, review, verdicts, claim, decisions, attemptAt, artifacts, calls>>

\* ... the task, when none was ...
ResumeTask(c) ==
  /\ Todo(c, "resume_task")
  /\ taskStatus' = Advance(taskStatus, "in_progress", {"needs_review"})
  /\ Next1(c, "announce_review")
  /\ UNCHANGED <<manager, review, verdicts, ledgerRows, calls>>

\* ... and the event, the signal to the review workflow, the observation.
AnnounceReview(c) ==
  /\ Todo(c, "announce_review")
  /\ verdicts' = [verdicts EXCEPT ![c.r] = @ + 1]
  /\ Done(c)
  /\ UNCHANGED <<taskStatus, manager, review, ledgerRows, calls>>

\* cancel_task: the subtasks that follow are SubtaskLedger's.
CancelTask ==
  /\ Call
  /\ taskStatus' = Cancel(taskStatus, TerminalTaskStatus)
  /\ UNCHANGED <<manager, review, verdicts, pend, ledgerRows>>

----------------------------------------------------------------------------
LedgerContinues(c) ==
  \/ InsertClaim(c)
  \/ ReleaseClaims(c)
  \/ ClearManager(c)
  \/ InsertInboxItem(c)
  \/ AdvanceToReview(c)
  \/ Verdict(c)
  \/ DismissAndList(c)
  \/ ResumeTask(c)
  \/ AnnounceReview(c)
  \/ Crash(c)

LedgerCall ==
  \/ \E m \in Manager, role \in ClaimRole, p \in Process : ClaimTask(m, role, p)
  \/ \E m \in Manager, role \in ClaimRole : Lapse(m, role)
  \/ \E m \in Manager : ReleaseTask(m)
  \/ \E m \in Manager, locked \in BOOLEAN, targets \in SUBSET DOMAIN decisions :
       RecordDecision(m, locked, targets)
  \/ RecordAttempt
  \/ CreateArtifact
  \/ \E r \in Review, by \in Manager, to \in Manager : RequestReview(r, by, to)
  \/ \E r \in Review, m \in Manager : ClaimReview(r, m)
  \/ \E r \in Review, m \in Manager, dst \in {"completed", "rejected"} : CompleteReview(r, m, dst)
  \/ CancelTask

LedgerSteps == LedgerCall \/ \E c \in pend : LedgerContinues(c)
============================================================================
