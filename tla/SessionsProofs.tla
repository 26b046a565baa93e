--------------------------- MODULE SessionsProofs ---------------------------
(***************************************************************************)
(* What Sessions promises of a task, its claims, reviews, sessions and     *)
(* completion, proved for any number of managers, reviews, sessions and    *)
(* calls.                                                                  *)
(*                                                                         *)
(* One inductive invariant carries the four results.  SolePrimary follows  *)
(* a claim from its check to its insert: while a process is between the    *)
(* two nobody else enters a claim through it.  LaunchOnce follows a launch through its three        *)
(* writes: a session's token is minted once, after its row, so that the    *)
(* revocation of end_shell is the last word on it.  CompletionHeld follows *)
(* complete_task from the audit to the announcement: whoever holds the     *)
(* right to land or to announce holds the evidence for it.                 *)
(***************************************************************************)
EXTENDS Sessions, FiniteSetTheorems, TLAPS

SessionMode == {"none", "manager", "reviewer", "readonly"}
SessionRow == [status : {"absent", "prepared", "running", "ended", "failed", "abandoned"},
               mode : SessionMode, on : Review \cup {"task", "none"}, at : Nat]
ReviewRow == [status : ReviewStatus \cup {"absent"}, by : Manager \cup {NoManager},
              to : Manager \cup {NoManager}, result : Nat]

\* The kinds of call in flight.
PrepareOp == {"workspace", "session", "mint"}
ClaimOp == {"claim", "launch_claim"}
JudgeOp == {"verdict", "settle", "resume_task", "announce_review"}
Launching == [op : PrepareOp, s : Session, row : SessionRow, call : Nat]
Claiming == [op : {"claim"}, m : Manager, p : Process, call : Nat]
LaunchClaiming == [op : {"launch_claim"}, s : Session, m : Manager, p : Process, row : SessionRow, call : Nat]
Shelling == [op : {"run", "abandon"}, s : Session, call : Nat]
Revoking == [op : {"revoke"}, s : Session, end : BOOLEAN, call : Nat]
Completing == [op : {"audit", "land", "announce_task"}, force : BOOLEAN, call : Nat]
Releasing == [op : {"release", "clear_manager"}, m : Manager, clear : BOOLEAN, call : Nat]
Asking == [op : {"inbox", "needs_review"}, r : Review, call : Nat]
Judging == [op : JudgeOp, r : Review, dst : {"completed", "rejected"}, call : Nat]

PendOK(c) ==
  \/ c \in Launching \/ c \in Shelling \/ c \in Revoking \/ c \in Completing
  \/ c \in Releasing \/ c \in Asking \/ c \in Judging
  \/ c \in Claiming \/ c \in LaunchClaiming

ClaimState == {"none", "lapsed"} \cup Process

LedgerTypeOK ==
  /\ taskStatus \in TaskStatus
  /\ claim \in [Manager \X ClaimRole -> ClaimState]
  /\ attemptAt \in Nat /\ calls \in Nat
  /\ review \in [Review -> ReviewRow]
  /\ \A c \in pend : PendOK(c)

SessionTypeOK ==
  /\ session \in [Session -> SessionRow]
  /\ token \in [Session -> {"none", "live", "revoked", "expired"}]
  /\ launched \subseteq Session /\ shellEnded \subseteq launched
  /\ forced \in BOOLEAN /\ completions \in {0, 1}

\* Two primaries came through two processes, and so would one about to be entered.
SolePrimary ==
  /\ OnePrimaryPerProcess
  /\ \A c \in pend : c.op \in ClaimOp =>
       /\ \A o \in Manager \ {c.m} : claim[<<o, "primary_manager">>] # c.p
       /\ \A d \in pend : d.op \in ClaimOp /\ d.p = c.p => d = c

\* A session is launched once, and its token is minted once, after its row.
LaunchOnce ==
  /\ \A c \in pend : c.op \in LaunchOp =>
       /\ c.s \notin launched
       /\ c.op = "mint" <=> session[c.s].status # "absent"
       /\ c.op # "mint" => c.row.status = "prepared"
       /\ \A d \in pend : d.op \in LaunchOp /\ d.s = c.s => d = c
  /\ \A s \in Session :
       session[s].status = "absent" => s \notin launched /\ session[s].on # "task"
  /\ \A s \in launched : token[s] # "none"
  /\ \A s \in shellEnded : token[s] # "live"
  /\ \A c \in pend : c.op = "revoke" /\ c.end => c.s \in launched

Evidence == (\E s \in Session : session[s].on = "task") /\ attemptAt # 0

\* Whoever may land or announce the completion has what it takes.
CompletionHeld ==
  /\ \A c \in pend : c.op = "land" /\ ~c.force => Evidence
  /\ taskStatus = "succeeded" /\ ~forced => Evidence
  /\ completions = 1 => taskStatus = "succeeded"
  /\ \A c \in pend : c.op = "announce_task" =>
       /\ taskStatus = "succeeded" /\ completions = 0
       /\ \A d \in pend : d.op = "announce_task" => d = c

SessionsInv == LedgerTypeOK /\ SessionTypeOK /\ SolePrimary /\ LaunchOnce /\ CompletionHeld

\* What a step of the ledger leaves of what sessions and completions rest on.
Quiet ==
  /\ \A d \in pend' : d \in pend \/ d.op \notin LaunchOp \cup {"revoke", "land", "announce_task"}
  /\ taskStatus' = "succeeded" <=> taskStatus = "succeeded"
  /\ attemptAt' = attemptAt \/ attemptAt' # 0

\* Decided reviews are left alone.
Stands == \A r \in Review : review[r].status \in TerminalReview => review'[r] = review[r]

----------------------------------------------------------------------------
(* Calls in flight.                                                        *)

\* What is yet to be done says what kind of call it belongs to.
LEMMA PendKinds ==
  ASSUME NEW c, PendOK(c)
  PROVE  /\ c.op \in PrepareOp => c \in Launching
         /\ c.op = "claim" => c \in Claiming
         /\ c.op = "launch_claim" => c \in LaunchClaiming
         /\ c.op \in {"run", "abandon"} => c \in Shelling
         /\ c.op = "revoke" => c \in Revoking
         /\ c.op \in {"audit", "land", "announce_task"} => c \in Completing
         /\ c.op \in {"release", "clear_manager"} => c \in Releasing
         /\ c.op \in {"inbox", "needs_review"} => c \in Asking
         /\ c.op \in JudgeOp => c \in Judging
BY DEF PendOK, Launching, Shelling, Revoking, Completing, Releasing, Asking, Judging,
       Claiming, LaunchClaiming, PrepareOp, JudgeOp

\* A call that goes on keeps everything but its next step.
LEMMA PendGoesOn ==
  ASSUME NEW c, NEW op
  PROVE  /\ c \in Launching /\ op \in PrepareOp =>
              /\ [c EXCEPT !.op = op] \in Launching
              /\ [c EXCEPT !.op = op].s = c.s /\ [c EXCEPT !.op = op].row = c.row
         /\ c \in Completing /\ op \in {"audit", "land", "announce_task"} =>
              [c EXCEPT !.op = op] \in Completing /\ [c EXCEPT !.op = op].force = c.force
         /\ c \in Releasing /\ op \in {"release", "clear_manager"} => [c EXCEPT !.op = op] \in Releasing
         /\ c \in Asking /\ op \in {"inbox", "needs_review"} => [c EXCEPT !.op = op] \in Asking
         /\ c \in Judging /\ op \in JudgeOp => [c EXCEPT !.op = op] \in Judging
         /\ PendOK(c) => [c EXCEPT !.op = op].op = op
<1>1. c \in Launching /\ op \in PrepareOp =>
        /\ [c EXCEPT !.op = op] \in Launching
        /\ [c EXCEPT !.op = op].s = c.s /\ [c EXCEPT !.op = op].row = c.row
  BY DEF Launching, PrepareOp
<1>2. c \in Completing /\ op \in {"audit", "land", "announce_task"} =>
        [c EXCEPT !.op = op] \in Completing /\ [c EXCEPT !.op = op].force = c.force
  BY DEF Completing
<1>3. c \in Releasing /\ op \in {"release", "clear_manager"} => [c EXCEPT !.op = op] \in Releasing
  BY DEF Releasing
<1>4. c \in Asking /\ op \in {"inbox", "needs_review"} => [c EXCEPT !.op = op] \in Asking
  BY DEF Asking
<1>5. c \in Judging /\ op \in JudgeOp => [c EXCEPT !.op = op] \in Judging
  BY DEF Judging, JudgeOp
<1>6. PendOK(c) => [c EXCEPT !.op = op].op = op
  BY DEF PendOK, Launching, Claiming, LaunchClaiming, Shelling, Revoking, Completing, Releasing,
         Asking, Judging
<1>7. QED
  BY <1>1, <1>2, <1>3, <1>4, <1>5, <1>6

\* A quiet step keeps what is known of launches and of the completion.
LEMMA QuietStep ==
  ASSUME SessionsInv, Quiet, UNCHANGED <<sessionRows, completionRows>>
  PROVE  SessionTypeOK' /\ LaunchOnce' /\ CompletionHeld'
<1>1. UNCHANGED <<session, token, launched, shellEnded, forced, completions>>
  BY DEF sessionRows, completionRows
<1>2. SessionTypeOK'
  BY <1>1 DEF SessionsInv, SessionTypeOK
<1>3. LaunchOnce'
  BY <1>1 DEF SessionsInv, LaunchOnce, Quiet
<1>4. CompletionHeld'
  BY <1>1 DEF SessionsInv, CompletionHeld, Evidence, Quiet
<1>5. QED
  BY <1>2, <1>3, <1>4

----------------------------------------------------------------------------
(* The ledger's own steps.                                                 *)

\* Claims that end, and calls that enter none, disturb nobody's exclusivity.
LEMMA ClaimsKept ==
  ASSUME SessionsInv, \A d \in pend' : d \in pend \/ d.op \notin ClaimOp,
         \A a \in Manager : \/ claim'[<<a, "primary_manager">>] = claim[<<a, "primary_manager">>]
                            \/ claim'[<<a, "primary_manager">>] \notin Process
  PROVE  SolePrimary'
<1>1. OnePrimaryPerProcess'
  BY DEF SessionsInv, SolePrimary, OnePrimaryPerProcess, Live
<1>2. \A c \in pend : c.op \in ClaimOp => c.p \in Process
  BY PendKinds DEF SessionsInv, LedgerTypeOK, ClaimOp, Claiming, LaunchClaiming
<1>3. \A c \in pend' : c.op \in ClaimOp =>
        /\ \A o \in Manager \ {c.m} : claim'[<<o, "primary_manager">>] # c.p
        /\ \A d \in pend' : d.op \in ClaimOp /\ d.p = c.p => d = c
  BY <1>2 DEF SessionsInv, SolePrimary
<1>4. QED
  BY <1>1, <1>3 DEF SolePrimary

\* A claim about to be entered: nobody holds the task, and nobody else is
\* about to enter one through this process.
LEMMA ClaimChecked ==
  ASSUME SessionsInv, NEW m \in Manager, NEW p \in Process, NEW c,
         Serialized(p), CheckPrimaryExclusivity(m), c.op \in ClaimOp, c.m = m, c.p = p,
         pend' = pend \cup {c}, claim' = claim
  PROVE  SolePrimary'
<1>1. OnePrimaryPerProcess'
  BY DEF SessionsInv, SolePrimary, OnePrimaryPerProcess, Live
<1>2. \A o \in Manager \ {m} : claim[<<o, "primary_manager">>] # p
  BY DEF CheckPrimaryExclusivity, Live
<1>3. \A d \in pend : d.op \in ClaimOp => d.p # p
  BY DEF Serialized, ClaimOp
<1>4. QED
  BY <1>1, <1>2, <1>3 DEF SessionsInv, SolePrimary

\* A claim is entered through a process that has let nobody else in since the check.
LEMMA ClaimEffect ==
  ASSUME SessionsInv, NEW c \in pend, c.op \in ClaimOp, ClaimTaskEffect(c.m, c.p),
         \A d \in pend' : d \in pend \ {c} \/ d.op \notin ClaimOp
  PROVE  /\ claim' \in [Manager \X ClaimRole -> ClaimState] /\ SolePrimary'
         /\ taskStatus' \in TaskStatus /\ (taskStatus' = "succeeded" <=> taskStatus = "succeeded")
<1>0. /\ claim \in [Manager \X ClaimRole -> ClaimState] /\ SolePrimary
      /\ taskStatus \in TaskStatus /\ c.m \in Manager /\ c.p \in Process
  BY PendKinds DEF SessionsInv, LedgerTypeOK, ClaimOp, Claiming, LaunchClaiming
<1>1. /\ claim' = [claim EXCEPT ![<<c.m, "primary_manager">>] = c.p]
      /\ <<c.m, "primary_manager">> \in Manager \X ClaimRole
  BY <1>0 DEF ClaimTaskEffect, EnterClaim, ClaimRole
<1>2. /\ claim'[<<c.m, "primary_manager">>] = c.p
      /\ \A o \in Manager \ {c.m} : claim'[<<o, "primary_manager">>] = claim[<<o, "primary_manager">>]
  BY <1>0, <1>1 DEF ClaimRole
<1>3. \A o \in Manager \ {c.m} : claim[<<o, "primary_manager">>] # c.p
  BY <1>0 DEF SolePrimary
<1>4. OnePrimaryPerProcess'
  BY <1>0, <1>2, <1>3 DEF SolePrimary, OnePrimaryPerProcess, Live
<1>5. \A d \in pend' : d.op \in ClaimOp =>
        /\ \A o \in Manager \ {d.m} : claim'[<<o, "primary_manager">>] # d.p
        /\ \A e \in pend' : e.op \in ClaimOp /\ e.p = d.p => e = d
  <2> SUFFICES ASSUME NEW d \in pend \ {c}, d.op \in ClaimOp
      PROVE  /\ \A o \in Manager \ {d.m} : claim'[<<o, "primary_manager">>] # d.p
             /\ \A e \in pend' : e.op \in ClaimOp /\ e.p = d.p => e = d
    OBVIOUS
  <2>1. d.p # c.p
    BY <1>0 DEF SolePrimary
  <2>2. QED
    BY <1>0, <1>2, <2>1 DEF SolePrimary
<1>6. SolePrimary'
  BY <1>4, <1>5 DEF SolePrimary
<1>7. claim' \in [Manager \X ClaimRole -> ClaimState]
  BY <1>0, <1>1 DEF ClaimState
<1>8. taskStatus' \in TaskStatus /\ (taskStatus' = "succeeded" <=> taskStatus = "succeeded")
  BY <1>0 DEF ClaimTaskEffect, Advance, TaskStatus
<1>9. QED
  BY <1>6, <1>7, <1>8

\* Claims, decisions, attempts and artifacts.
LEMMA ClaimSteps ==
  ASSUME SessionsInv,
         \/ \E m \in Manager, role \in ClaimRole, p \in Process : ClaimTask(m, role, p)
         \/ \E m \in Manager, role \in ClaimRole : Lapse(m, role)
         \/ \E m \in Manager : ReleaseTask(m)
         \/ \E m \in Manager, locked \in BOOLEAN, targets \in SUBSET DOMAIN decisions :
              RecordDecision(m, locked, targets)
         \/ RecordAttempt \/ CreateArtifact \/ CancelTask
  PROVE  LedgerTypeOK' /\ SolePrimary' /\ Quiet /\ Stands
<1>0. LedgerTypeOK /\ SolePrimary
  BY DEF SessionsInv
<1>1. calls' \in Nat /\ review' = review /\ Stands
  <2>1. review' = review /\ (calls' = calls \/ Call)
    BY DEF ClaimTask, Lapse, ReleaseTask, RecordDecision, RecordAttempt, CreateArtifact, CancelTask
  <2>2. QED
    BY <1>0, <2>1 DEF LedgerTypeOK, Call, Stands
<1>2. ASSUME NEW m \in Manager, NEW role \in ClaimRole, NEW p \in Process, ClaimTask(m, role, p)
      PROVE  LedgerTypeOK' /\ SolePrimary' /\ Quiet
  <2>1. Serialized(p) /\ UNCHANGED <<taskStatus, attemptAt>>
    BY <1>2 DEF ClaimTask
  <2>2. CASE role = "primary_manager"
    <3> DEFINE c == [op |-> "claim", m |-> m, p |-> p, call |-> calls']
    <3>1. CheckPrimaryExclusivity(m) /\ pend' = pend \cup {c} /\ claim' = claim
      BY <1>2, <2>2 DEF ClaimTask, Later
    <3>2. c \in Claiming /\ c.op = "claim" /\ c.m = m /\ c.p = p
      BY <1>1 DEF Claiming
    <3> HIDE DEF c
    <3>3. SolePrimary'
      BY <2>1, <3>1, <3>2, ClaimChecked DEF ClaimOp
    <3>4. QED
      BY <1>0, <1>1, <2>1, <3>1, <3>2, <3>3 DEF LedgerTypeOK, Quiet, PendOK, LaunchOp
  <2>3. CASE role = "human_owner"
    <3>1. claim' = [claim EXCEPT ![<<m, role>>] = p] /\ pend' = pend
      BY <1>2, <2>3 DEF ClaimTask, EnterClaim
    <3>2. claim' \in [Manager \X ClaimRole -> ClaimState]
      BY <1>0, <3>1 DEF LedgerTypeOK, ClaimState
    <3>3. \A a \in Manager : claim'[<<a, "primary_manager">>] = claim[<<a, "primary_manager">>]
      BY <1>0, <2>3, <3>1 DEF LedgerTypeOK, ClaimRole
    <3>4. SolePrimary'
      BY <3>1, <3>3, ClaimsKept
    <3>5. QED
      BY <1>0, <1>1, <2>1, <3>1, <3>2, <3>4 DEF LedgerTypeOK, Quiet
  <2>4. QED
    BY <2>2, <2>3 DEF ClaimRole
<1>3. ASSUME NEW m \in Manager, NEW role \in ClaimRole, Lapse(m, role)
      PROVE  LedgerTypeOK' /\ SolePrimary' /\ Quiet
  <2>1. claim' = [claim EXCEPT ![<<m, role>>] = "lapsed"] /\ UNCHANGED <<taskStatus, attemptAt, pend>>
    BY <1>3 DEF Lapse
  <2>2. \A a \in Manager : \/ claim'[<<a, "primary_manager">>] = claim[<<a, "primary_manager">>]
                           \/ claim'[<<a, "primary_manager">>] = "lapsed"
    BY <1>0, <2>1 DEF LedgerTypeOK, ClaimRole
  <2>3. SolePrimary'
    BY <2>1, <2>2, ClaimsKept, TaskLedgerBounds
  <2>4. claim' \in [Manager \X ClaimRole -> ClaimState]
    BY <1>0, <2>1 DEF LedgerTypeOK, ClaimState
  <2>5. QED
    BY <1>0, <1>1, <2>1, <2>3, <2>4 DEF LedgerTypeOK, Quiet
<1>4. ASSUME NEW m \in Manager, ReleaseTask(m)
      PROVE  LedgerTypeOK' /\ SolePrimary' /\ Quiet
  <2> DEFINE c == [op |-> "release", m |-> m, clear |-> manager = m, call |-> calls']
  <2>1. pend' = pend \cup {c} /\ UNCHANGED <<taskStatus, claim, attemptAt>>
    BY <1>4 DEF ReleaseTask, Later, ledgerRows
  <2>2. c \in Releasing /\ c.op = "release"
    BY <1>1 DEF Releasing
  <2> HIDE DEF c
  <2>3. QED
    BY <1>0, <1>1, <2>1, <2>2, ClaimsKept DEF LedgerTypeOK, Quiet, PendOK, LaunchOp, ClaimOp
<1>5. ASSUME NEW m \in Manager, NEW locked \in BOOLEAN, NEW targets \in SUBSET DOMAIN decisions,
             RecordDecision(m, locked, targets)
      PROVE  LedgerTypeOK' /\ SolePrimary' /\ Quiet
  BY <1>0, <1>1, <1>5, ClaimsKept DEF RecordDecision, LedgerTypeOK, Quiet
<1>6. CASE RecordAttempt
  BY <1>0, <1>1, <1>6, ClaimsKept DEF RecordAttempt, Call, LedgerTypeOK, Quiet
<1>7. CASE CreateArtifact
  BY <1>0, <1>1, <1>7, ClaimsKept DEF CreateArtifact, LedgerTypeOK, Quiet
<1>8. CASE CancelTask
  <2>1. UNCHANGED <<claim, attemptAt, pend>> /\ taskStatus' = Cancel(taskStatus, TerminalTaskStatus)
    BY <1>8 DEF CancelTask, ledgerRows
  <2>2. taskStatus' \in TaskStatus /\ (taskStatus' = "succeeded" <=> taskStatus = "succeeded")
    BY <1>0, <2>1 DEF LedgerTypeOK, Cancel, TerminalTaskStatus, TaskStatus
  <2>3. QED
    BY <1>0, <1>1, <2>1, <2>2, ClaimsKept DEF LedgerTypeOK, Quiet
<1>9. QED
  BY <1>1, <1>2, <1>3, <1>4, <1>5, <1>6, <1>7, <1>8

\* Claims entered, releases that go on, and crashes.
LEMMA ReleaseSteps ==
  ASSUME SessionsInv, NEW c \in pend, InsertClaim(c) \/ ReleaseClaims(c) \/ ClearManager(c) \/ Crash(c)
  PROVE  LedgerTypeOK' /\ SolePrimary' /\ Quiet /\ Stands
<1>0. LedgerTypeOK /\ SolePrimary /\ PendOK(c)
  BY DEF SessionsInv, LedgerTypeOK
<1>1. /\ calls' \in Nat /\ UNCHANGED <<review, attemptAt>> /\ Stands
      /\ InsertClaim(c) \/ UNCHANGED taskStatus
  BY <1>0 DEF LedgerTypeOK, InsertClaim, ReleaseClaims, ClearManager, Crash, Call, ledgerRows, Stands
<1>5. CASE InsertClaim(c)
  <2>1. c.op = "claim" /\ ClaimTaskEffect(c.m, c.p) /\ pend' = pend \ {c}
    BY <1>5 DEF InsertClaim, Todo, Done
  <2>2. QED
    BY <1>0, <1>1, <2>1, ClaimEffect DEF ClaimOp, LedgerTypeOK, Quiet
<1>2. CASE ReleaseClaims(c)
  <2> DEFINE d == [c EXCEPT !.op = "clear_manager"]
  <2>1. /\ c.op = "release"
        /\ claim' = [x \in DOMAIN claim |-> IF x[1] = c.m THEN "none" ELSE claim[x]]
        /\ pend' = (pend \ {c}) \cup {d} \/ pend' = pend \ {c}
    BY <1>2 DEF ReleaseClaims, Todo, Next1, Done
  <2>2. d.op = "clear_manager" /\ PendOK(d)
    BY <1>0, <2>1, PendKinds, PendGoesOn DEF PendOK
  <2> HIDE DEF d
  <2>3. \A d1 \in pend' : PendOK(d1) /\ (d1 \in pend \/ d1.op = "clear_manager")
    BY <1>0, <2>1, <2>2 DEF LedgerTypeOK
  <2>4. claim' \in [Manager \X ClaimRole -> ClaimState]
    BY <1>0, <2>1 DEF LedgerTypeOK, ClaimState
  <2>5. \A a \in Manager : \/ claim'[<<a, "primary_manager">>] = claim[<<a, "primary_manager">>]
                           \/ claim'[<<a, "primary_manager">>] = "none"
    BY <1>0, <2>1 DEF LedgerTypeOK, ClaimRole
  <2>6. SolePrimary'
    BY <2>3, <2>5, ClaimsKept, TaskLedgerBounds DEF ClaimOp
  <2>7. taskStatus' = taskStatus
    BY <1>2 DEF ReleaseClaims
  <2>8. QED
    BY <1>0, <1>1, <2>3, <2>4, <2>6, <2>7 DEF LedgerTypeOK, Quiet, LaunchOp
<1>3. CASE ClearManager(c) \/ Crash(c)
  <2>1. pend' = pend \ {c} /\ claim' = claim /\ taskStatus' = taskStatus
    BY <1>3 DEF ClearManager, Crash, Done, ledgerRows
  <2>2. QED
    BY <1>0, <1>1, <2>1, ClaimsKept DEF LedgerTypeOK, Quiet
<1>4. QED
  BY <1>1, <1>2, <1>3, <1>5

\* Reviews are asked for, claimed and answered.
LEMMA ReviewCalls ==
  ASSUME SessionsInv,
         \/ \E r \in Review, by \in Manager, to \in Manager : RequestReview(r, by, to)
         \/ \E r \in Review, m \in Manager : ClaimReview(r, m)
         \/ \E r \in Review, m \in Manager, dst \in {"completed", "rejected"} : CompleteReview(r, m, dst)
  PROVE  LedgerTypeOK' /\ SolePrimary' /\ Quiet /\ Stands
<1>0. LedgerTypeOK /\ SolePrimary
  BY DEF SessionsInv
<1>1. calls' \in Nat /\ UNCHANGED <<taskStatus, claim, attemptAt>>
  <2>1. Call /\ UNCHANGED <<taskStatus, claim, attemptAt>>
    BY DEF RequestReview, ClaimReview, CompleteReview, ledgerRows
  <2>2. QED
    BY <1>0, <2>1 DEF LedgerTypeOK, Call
<1>3. ASSUME NEW r \in Review, NEW by \in Manager, NEW to \in Manager, RequestReview(r, by, to)
      PROVE  LedgerTypeOK' /\ SolePrimary' /\ Quiet /\ Stands
  <2> DEFINE c == [op |-> "inbox", r |-> r, call |-> calls']
             row == [NoReview EXCEPT !.status = "open", !.by = by, !.to = to]
  <2>1. pend' = pend \cup {c} /\ review' = [review EXCEPT ![r] = row] /\ review[r].status = "absent"
    BY <1>3 DEF RequestReview, Later
  <2>2. c \in Asking /\ c.op = "inbox"
    BY <1>1 DEF Asking
  <2>3. row \in ReviewRow
    BY DEF NoReview, ReviewRow, ReviewStatus
  <2> HIDE DEF c, row
  <2>4. review' \in [Review -> ReviewRow] /\ Stands
    BY <1>0, <2>1, <2>3 DEF LedgerTypeOK, Stands, TerminalReview
  <2>5. QED
    BY <1>0, <1>1, <2>1, <2>2, <2>4, ClaimsKept DEF LedgerTypeOK, Quiet, PendOK, LaunchOp, ClaimOp
<1>4. ASSUME NEW r \in Review, NEW m \in Manager, ClaimReview(r, m)
      PROVE  LedgerTypeOK' /\ SolePrimary' /\ Quiet /\ Stands
  <2>1. /\ pend' = pend /\ review' = [review EXCEPT ![r].status = "claimed"]
        /\ review[r].status = "open"
    BY <1>4 DEF ClaimReview, CheckClaimable, ClaimReviewEffect
  <2>2. review' \in [Review -> ReviewRow] /\ Stands
    BY <1>0, <2>1 DEF LedgerTypeOK, ReviewRow, ReviewStatus, Stands, TerminalReview
  <2>3. QED
    BY <1>0, <1>1, <2>1, <2>2, ClaimsKept DEF LedgerTypeOK, Quiet
<1>5. ASSUME NEW r \in Review, NEW m \in Manager, NEW dst \in {"completed", "rejected"},
             CompleteReview(r, m, dst)
      PROVE  LedgerTypeOK' /\ SolePrimary' /\ Quiet /\ Stands
  <2> DEFINE c == [op |-> "verdict", r |-> r, dst |-> dst, call |-> calls']
  <2>1. pend' = pend \cup {c} /\ review' = review
    BY <1>5 DEF CompleteReview, Later
  <2>2. c \in Judging /\ c.op = "verdict"
    BY <1>1 DEF Judging, JudgeOp
  <2> HIDE DEF c
  <2>3. QED
    BY <1>0, <1>1, <2>1, <2>2, ClaimsKept DEF LedgerTypeOK, Quiet, PendOK, LaunchOp, ClaimOp, Stands
<1>6. QED
  BY <1>3, <1>4, <1>5

\* A review's call goes on; its verdict is written along an edge or not at all.
LEMMA ReviewSteps ==
  ASSUME SessionsInv, NEW c \in pend,
         \/ InsertInboxItem(c) \/ AdvanceToReview(c) \/ Verdict(c) \/ DismissAndList(c)
         \/ ResumeTask(c) \/ AnnounceReview(c)
  PROVE  LedgerTypeOK' /\ SolePrimary' /\ Quiet /\ Stands
<1>0. LedgerTypeOK /\ SolePrimary /\ PendOK(c)
  BY DEF SessionsInv, LedgerTypeOK
<1>1. calls' = calls /\ UNCHANGED <<claim, attemptAt>>
  BY DEF InsertInboxItem, AdvanceToReview, Verdict, DismissAndList, ResumeTask, AnnounceReview, ledgerRows
<1>3. taskStatus' \in TaskStatus /\ (taskStatus' = "succeeded" <=> taskStatus = "succeeded")
  BY <1>0 DEF LedgerTypeOK, InsertInboxItem, AdvanceToReview, Verdict, DismissAndList, ResumeTask,
              AnnounceReview, Advance, TaskStatus
<1>4. review' \in [Review -> ReviewRow] /\ Stands
  <2>1. CASE Verdict(c)
    <3>1. c \in Judging
      BY <1>0, <2>1, PendKinds DEF Verdict, Todo, JudgeOp
    <3>2. c.r \in Review /\ c.dst \in {"completed", "rejected"} /\ c.call \in Nat
      BY <3>1 DEF Judging
    <3>3. CASE review' = review
      BY <1>0, <3>3 DEF LedgerTypeOK, Stands
    <3>4. CASE /\ review' = [review EXCEPT ![c.r].status = c.dst, ![c.r].result = c.call]
               /\ review[c.r].status # c.dst
               /\ Admits(ReviewEdges(review[c.r].status), review[c.r].status, c.dst)
      <4>1. review[c.r].status \notin TerminalReview
        BY <3>4 DEF Admits, ReviewEdges, TerminalReview
      <4>2. review' \in [Review -> ReviewRow]
        BY <1>0, <3>2, <3>4 DEF LedgerTypeOK, ReviewRow, ReviewStatus
      <4>3. QED
        BY <1>0, <3>2, <3>4, <4>1, <4>2 DEF LedgerTypeOK, Stands
    <3>5. QED
      BY <2>1, <3>3, <3>4 DEF Verdict, WriteVerdict
  <2>2. CASE review' = review
    BY <1>0, <2>2 DEF LedgerTypeOK, Stands
  <2>3. QED
    BY <2>1, <2>2 DEF InsertInboxItem, AdvanceToReview, DismissAndList, ResumeTask, AnnounceReview
<1>5. \A d \in pend' : PendOK(d) /\ (d \in pend \/ d.op \in JudgeOp \cup {"needs_review"})
  <2>1. CASE pend' = pend \ {c}
    BY <1>0, <2>1 DEF LedgerTypeOK
  <2>2. ASSUME NEW op \in JudgeOp, c.op \in JudgeOp, pend' = (pend \ {c}) \cup {[c EXCEPT !.op = op]}
        PROVE  \A d \in pend' : PendOK(d) /\ (d \in pend \/ d.op \in JudgeOp \cup {"needs_review"})
    <3>1. [c EXCEPT !.op = op] \in Judging /\ [c EXCEPT !.op = op].op = op
      BY <1>0, <2>2, PendKinds, PendGoesOn
    <3>2. QED
      BY <1>0, <2>2, <3>1 DEF LedgerTypeOK, PendOK
  <2>3. ASSUME c.op = "inbox", pend' = (pend \ {c}) \cup {[c EXCEPT !.op = "needs_review"]}
        PROVE  \A d \in pend' : PendOK(d) /\ (d \in pend \/ d.op \in JudgeOp \cup {"needs_review"})
    <3>1. [c EXCEPT !.op = "needs_review"] \in Asking /\ [c EXCEPT !.op = "needs_review"].op = "needs_review"
      BY <1>0, <2>3, PendKinds, PendGoesOn
    <3>2. QED
      BY <1>0, <2>3, <3>1 DEF LedgerTypeOK, PendOK
  <2>4. CASE InsertInboxItem(c)
    BY <2>3, <2>4 DEF InsertInboxItem, Todo, Next1
  <2>5. CASE AdvanceToReview(c) \/ AnnounceReview(c)
    BY <2>1, <2>5 DEF AdvanceToReview, AnnounceReview, Done
  <2>6. CASE Verdict(c)
    BY <2>1, <2>2, <2>6 DEF Verdict, Todo, Next1, Done, JudgeOp
  <2>7. CASE DismissAndList(c)
    <3> DEFINE op == IF \E r \in Review : review[r].status \in OpenReview
                     THEN "announce_review" ELSE "resume_task"
    <3>1. op \in JudgeOp /\ c.op \in JudgeOp /\ pend' = (pend \ {c}) \cup {[c EXCEPT !.op = op]}
      BY <2>7 DEF DismissAndList, Todo, Next1, JudgeOp
    <3> HIDE DEF op
    <3>2. QED
      BY <2>2, <3>1
  <2>8. CASE ResumeTask(c)
    BY <2>2, <2>8 DEF ResumeTask, Todo, Next1, JudgeOp
  <2>9. QED
    BY <2>4, <2>5, <2>6, <2>7, <2>8
<1>6. Quiet /\ SolePrimary'
  BY <1>1, <1>3, <1>5, ClaimsKept DEF Quiet, JudgeOp, LaunchOp, ClaimOp
<1>7. QED
  BY <1>0, <1>1, <1>3, <1>4, <1>5, <1>6 DEF LedgerTypeOK

\* No step of the ledger disturbs sessions, evidence or decided reviews.
LEMMA LedgerStep ==
  ASSUME SessionsInv, LedgerSteps, UNCHANGED <<sessionRows, completionRows>>
  PROVE  SessionsInv' /\ Stands
<1>1. LedgerTypeOK' /\ SolePrimary' /\ Quiet /\ Stands
  BY ClaimSteps, ReleaseSteps, ReviewCalls, ReviewSteps DEF LedgerSteps, LedgerCall, LedgerContinues
<1>2. QED
  BY <1>1, QuietStep DEF SessionsInv

----------------------------------------------------------------------------
(* Sessions.                                                               *)

\* A step of a session leaves the ledger alone, and no session leaves its entity.
LEMMA SessionFrame ==
  ASSUME SessionsInv, calls' \in Nat, \A d \in pend' : PendOK(d),
         UNCHANGED <<taskStatus, review, claim, attemptAt, completionRows>>,
         \A d \in pend' : d \in pend \/ d.op \notin {"land", "announce_task"} \cup ClaimOp,
         \A s \in Session : session[s].on = "task" => session'[s].on = "task"
  PROVE  LedgerTypeOK' /\ SolePrimary' /\ CompletionHeld' /\ Stands
<1>1. LedgerTypeOK' /\ SolePrimary' /\ Stands
  BY ClaimsKept DEF SessionsInv, LedgerTypeOK, Stands
<1>2. forced' = forced /\ completions' = completions
  BY DEF completionRows
<1>3. Evidence => Evidence'
  BY DEF Evidence
<1>4. CompletionHeld'
  BY <1>2, <1>3 DEF SessionsInv, CompletionHeld
<1>5. QED
  BY <1>1, <1>4

\* A launch begins for a session that is new and that nobody else is launching.
LEMMA LaunchStep ==
  ASSUME SessionsInv, NEW s \in Session, NEW m \in Manager, NEW p \in Process,
         NEW on \in Review \cup {"task"},
         NEW claiming \in BOOLEAN, NEW readonly \in BOOLEAN, NEW fr \in BOOLEAN,
         Launch(s, m, p, on, claiming, readonly, fr)
  PROVE  SessionsInv' /\ Stands
<1>0. LedgerTypeOK /\ SessionTypeOK /\ SolePrimary /\ LaunchOnce /\ CompletionHeld
  BY DEF SessionsInv
<1>1. /\ UNCHANGED <<taskStatus, claim, attemptAt, session, token, launched, shellEnded, forced, completions>>
      /\ calls' = calls + 1 /\ calls' \in Nat /\ Fresh(s)
  BY <1>0 DEF Launch, Call, LedgerTypeOK, sessionRows, completionRows
<1>4. review' \in [Review -> ReviewRow] /\ Stands
  <2>1. CASE review' = review
    BY <1>0, <2>1 DEF LedgerTypeOK, Stands
  <2>2. CASE on \in Review /\ CheckClaimable(on, m) /\ ClaimReviewEffect(on)
    <3>1. review' = [review EXCEPT ![on].status = "claimed"] /\ review[on].status = "open"
      BY <2>2 DEF CheckClaimable, ClaimReviewEffect
    <3>2. QED
      BY <1>0, <2>2, <3>1 DEF LedgerTypeOK, ReviewRow, ReviewStatus, Stands, TerminalReview
  <2>3. QED
    BY <2>1, <2>2 DEF Launch
<1> DEFINE Begins(c) == /\ pend' = pend \cup {c} /\ PendOK(c) /\ c.s = s /\ c.row.status = "prepared"
                        /\ c.op \in {"workspace", "launch_claim"} /\ SolePrimary'
<1>5. PICK c : Begins(c)
  <2>1. ASSUME NEW mode \in SessionMode
        PROVE  Prepared(mode, on) \in SessionRow /\ Prepared(mode, on).status = "prepared"
    BY <1>1, <2>1 DEF Prepared, SessionRow
  <2>2. ModeFor(on, readonly) \in SessionMode /\ "readonly" \in SessionMode
    BY DEF ModeFor, SessionMode
  <2>3. ASSUME NEW mode \in SessionMode, Prepare(s, mode, on) PROVE \E c : Begins(c)
    <3> DEFINE row == Prepared(mode, on)
               d == [op |-> "workspace", s |-> s, call |-> calls', row |-> row]
    <3>1. pend' = pend \cup {d}
      BY <2>3 DEF Prepare, Later
    <3>2. row \in SessionRow /\ row.status = "prepared"
      BY <2>1
    <3> HIDE DEF row
    <3>3. d \in Launching /\ d.s = s /\ d.row = row /\ d.op = "workspace"
      BY <1>1, <3>2 DEF Launching, PrepareOp
    <3> HIDE DEF d
    <3>4. SolePrimary'
      BY <1>1, <3>1, <3>3, ClaimsKept DEF ClaimOp
    <3>5. Begins(d)
      BY <3>1, <3>2, <3>3, <3>4 DEF PendOK
    <3>6. QED
      BY <3>5
  <2>4. ASSUME Serialized(p), CheckPrimaryExclusivity(m),
               Later([op |-> "launch_claim", s |-> s, m |-> m, p |-> p, call |-> calls',
                      row |-> Prepared(ModeFor(on, readonly), on)])
        PROVE \E c : Begins(c)
    <3> DEFINE row == Prepared(ModeFor(on, readonly), on)
               d == [op |-> "launch_claim", s |-> s, m |-> m, p |-> p, call |-> calls', row |-> row]
    <3>1. pend' = pend \cup {d}
      BY <2>4 DEF Later
    <3>2. row \in SessionRow /\ row.status = "prepared"
      BY <2>1, <2>2
    <3> HIDE DEF row
    <3>3. /\ d \in LaunchClaiming /\ d.s = s /\ d.row = row /\ d.op = "launch_claim"
          /\ d.m = m /\ d.p = p
      BY <1>1, <3>2 DEF LaunchClaiming
    <3> HIDE DEF d
    <3>4. SolePrimary'
      BY <1>1, <2>4, <3>1, <3>3, ClaimChecked DEF ClaimOp
    <3>5. Begins(d)
      BY <3>1, <3>2, <3>3, <3>4 DEF PendOK
    <3>6. QED
      BY <3>5
  <2>5. QED
    BY <2>2, <2>3, <2>4 DEF Launch
<1>6. LedgerTypeOK'
  BY <1>0, <1>1, <1>4, <1>5 DEF LedgerTypeOK
<1>7. LaunchOnce'
  <2>1. session[s].status = "absent" /\ \A d \in pend : d.op \in LaunchOp => d.s # s
    BY <1>1 DEF Fresh
  <2>2. s \notin launched
    BY <1>0, <2>1 DEF LaunchOnce
  <2>3. \A d \in pend' : d.op \in LaunchOp =>
          /\ d.s \notin launched
          /\ d.op = "mint" <=> session[d.s].status # "absent"
          /\ d.op # "mint" => d.row.status = "prepared"
    BY <1>0, <1>5, <2>1, <2>2 DEF LaunchOnce
  <2>4. \A d, e \in pend' : d.op \in LaunchOp /\ e.op \in LaunchOp /\ e.s = d.s => e = d
    BY <1>0, <1>5, <2>1 DEF LaunchOnce
  <2>5. \A d \in pend' : d.op = "revoke" /\ d.end => d.s \in launched
    BY <1>0, <1>5 DEF LaunchOnce
  <2>6. QED
    BY <1>0, <1>1, <2>3, <2>4, <2>5 DEF LaunchOnce
<1>8. CompletionHeld' /\ SessionTypeOK'
  BY <1>0, <1>1, <1>5 DEF CompletionHeld, Evidence, SessionTypeOK
<1>9. QED
  BY <1>4, <1>5, <1>6, <1>7, <1>8 DEF SessionsInv

\* The claim of a launch is entered, and the launch moves on to its workspace.
LEMMA LaunchClaimStep ==
  ASSUME SessionsInv, NEW c \in pend, ClaimForLaunch(c)
  PROVE  SessionsInv' /\ Stands
<1>0. LedgerTypeOK /\ SessionTypeOK /\ SolePrimary /\ LaunchOnce /\ CompletionHeld /\ PendOK(c)
  BY DEF SessionsInv, LedgerTypeOK
<1>1. /\ c.op = "launch_claim" /\ ClaimTaskEffect(c.m, c.p) /\ calls' = calls /\ review' = review
      /\ UNCHANGED <<attemptAt, session, token, launched, shellEnded, forced, completions>>
  BY DEF ClaimForLaunch, Todo, sessionRows, completionRows
<1> DEFINE d == [op |-> "workspace", s |-> c.s, call |-> c.call, row |-> c.row]
<1>2. pend' = (pend \ {c}) \cup {d}
  BY DEF ClaimForLaunch
<1>3. c \in LaunchClaiming
  BY <1>0, <1>1, PendKinds
<1>4. d \in Launching /\ d.op = "workspace" /\ d.s = c.s /\ d.row = c.row
  BY <1>3 DEF LaunchClaiming, Launching, PrepareOp
<1> HIDE DEF d
<1>5. /\ claim' \in [Manager \X ClaimRole -> ClaimState] /\ SolePrimary'
      /\ taskStatus' \in TaskStatus /\ (taskStatus' = "succeeded" <=> taskStatus = "succeeded")
  BY <1>1, <1>2, <1>4, ClaimEffect DEF ClaimOp
<1>6. LedgerTypeOK' /\ Stands
  BY <1>0, <1>1, <1>2, <1>4, <1>5 DEF LedgerTypeOK, PendOK, Stands
<1>7. CompletionHeld' /\ SessionTypeOK'
  BY <1>0, <1>1, <1>2, <1>4, <1>5 DEF CompletionHeld, Evidence, SessionTypeOK
<1>8. LaunchOnce'
  <2>1. /\ c.s \notin launched /\ session[c.s].status = "absent" /\ c.row.status = "prepared"
        /\ \A e \in pend : e.op \in LaunchOp /\ e.s = c.s => e = c
    BY <1>0, <1>1 DEF LaunchOnce, LaunchOp
  <2>2. \A e \in pend' : e.op \in LaunchOp => e = d \/ (e \in pend /\ e.s # c.s)
    BY <1>2, <2>1
  <2>3. \A e \in pend' : e.op \in LaunchOp =>
          /\ e.s \notin launched
          /\ e.op = "mint" <=> session[e.s].status # "absent"
          /\ e.op # "mint" => e.row.status = "prepared"
    BY <1>0, <1>4, <2>1, <2>2 DEF LaunchOnce
  <2>4. \A e, g \in pend' : e.op \in LaunchOp /\ g.op \in LaunchOp /\ g.s = e.s => g = e
    BY <1>0, <1>4, <2>2 DEF LaunchOnce
  <2>5. \A e \in pend' : e.op = "revoke" /\ e.end => e.s \in launched
    BY <1>0, <1>2, <1>4 DEF LaunchOnce
  <2>6. QED
    BY <1>0, <1>1, <2>3, <2>4, <2>5 DEF LaunchOnce
<1>9. QED
  BY <1>5, <1>6, <1>7, <1>8 DEF SessionsInv

\* The workspace's row, and the session's: the launch moves on.
LEMMA LaunchGoesOn ==
  ASSUME SessionsInv, NEW c \in pend, InsertWorkspace(c) \/ InsertSession(c), calls' = calls,
         UNCHANGED <<taskStatus, manager, review, verdicts, ledgerRows, completionRows>>
  PROVE  SessionsInv' /\ Stands
<1>0. /\ LedgerTypeOK /\ SessionTypeOK /\ SolePrimary /\ LaunchOnce /\ CompletionHeld /\ PendOK(c)
      /\ calls' \in Nat /\ claim' = claim /\ attemptAt' = attemptAt
  BY DEF SessionsInv, LedgerTypeOK, ledgerRows
<1>1. /\ c.op \in {"workspace", "session"} /\ UNCHANGED <<token, launched, shellEnded>>
      /\ InsertWorkspace(c) => c.op = "workspace" /\ session' = session
      /\ InsertSession(c) => c.op = "session" /\ session' = [session EXCEPT ![c.s] = c.row]
  BY DEF InsertWorkspace, InsertSession, Todo
<1>2. PICK op \in {"session", "mint"} :
        /\ pend' = (pend \ {c}) \cup {[c EXCEPT !.op = op]}
        /\ op = "session" => InsertWorkspace(c)
        /\ op = "mint" => InsertSession(c)
  BY DEF InsertWorkspace, InsertSession, Next1
<1> DEFINE d == [c EXCEPT !.op = op]
<1>3. /\ d \in Launching /\ d.op = op /\ d.s = c.s /\ d.row = c.row
      /\ c.s \in Session /\ c.row \in SessionRow /\ pend' = (pend \ {c}) \cup {d}
  <2>1. c \in Launching
    BY <1>0, <1>1, PendKinds DEF PrepareOp
  <2>2. QED
    BY <1>0, <1>2, <2>1, PendGoesOn DEF PrepareOp, Launching
<1> HIDE DEF d
<1>4. /\ c.row.status = "prepared" /\ session[c.s].status = "absent" /\ c.s \notin launched
      /\ \A e \in pend : e.op \in LaunchOp /\ e.s = c.s => e = c
  BY <1>0, <1>1 DEF LaunchOnce, LaunchOp
<1>5. session' \in [Session -> SessionRow]
      /\ (\A s \in Session : s # c.s => session'[s] = session[s])
      /\ (op = "session" => session'[c.s] = session[c.s])
      /\ (op = "mint" => session'[c.s] = c.row)
  BY <1>0, <1>1, <1>2, <1>3 DEF SessionTypeOK
<1>6. \A s \in Session : session[s].on = "task" => session'[s].on = "task"
  BY <1>0, <1>3, <1>4, <1>5 DEF LaunchOnce
<1>7. /\ \A e \in pend' : PendOK(e) /\ (e \in pend \/ e = d)
  BY <1>0, <1>3 DEF LedgerTypeOK, PendOK
<1>8. LedgerTypeOK' /\ SolePrimary' /\ CompletionHeld' /\ Stands
  BY <1>0, <1>2, <1>3, <1>6, <1>7, SessionFrame DEF ClaimOp
<1>9. LaunchOnce'
  <2>1. \A e \in pend' : e.op \in LaunchOp => e = d \/ (e \in pend /\ e.s # c.s)
    BY <1>3, <1>4
  <2>2. \A e \in pend' : e.op \in LaunchOp =>
          /\ e.s \notin launched
          /\ e.op = "mint" <=> session'[e.s].status # "absent"
          /\ e.op # "mint" => e.row.status = "prepared"
    <3> SUFFICES ASSUME NEW e \in pend', e.op \in LaunchOp
        PROVE  /\ e.s \notin launched
               /\ e.op = "mint" <=> session'[e.s].status # "absent"
               /\ e.op # "mint" => e.row.status = "prepared"
      OBVIOUS
    <3>1. CASE e = d
      BY <1>2, <1>3, <1>4, <1>5, <3>1
    <3>2. CASE e \in pend /\ e.s # c.s
      <4>1. e.s \in Session
        BY <1>0, <3>2, PendKinds DEF LedgerTypeOK, LaunchOp, PrepareOp, Launching, LaunchClaiming
      <4>2. QED
        BY <1>0, <1>5, <3>2, <4>1 DEF LaunchOnce
    <3>3. QED
      BY <2>1, <3>1, <3>2
  <2>3. \A e, g \in pend' : e.op \in LaunchOp /\ g.op \in LaunchOp /\ g.s = e.s => g = e
    BY <1>0, <1>3, <2>1 DEF LaunchOnce
  <2>4. \A e \in pend' : e.op = "revoke" /\ e.end => e.s \in launched
    BY <1>0, <1>2, <1>3 DEF LaunchOnce
  <2>5. \A s \in Session :
          session'[s].status = "absent" => s \notin launched /\ session'[s].on # "task"
    BY <1>0, <1>2, <1>4, <1>5 DEF LaunchOnce
  <2>6. QED
    BY <1>0, <1>1, <2>2, <2>3, <2>4, <2>5 DEF LaunchOnce
<1>10. SessionTypeOK'
  BY <1>0, <1>1, <1>5 DEF SessionTypeOK, completionRows
<1>11. QED
  BY <1>8, <1>9, <1>10 DEF SessionsInv

\* The token is minted: the launch is over.
LEMMA MintStep ==
  ASSUME SessionsInv, NEW c \in pend, MintSessionToken(c), calls' = calls,
         UNCHANGED <<taskStatus, manager, review, verdicts, ledgerRows, completionRows>>
  PROVE  SessionsInv' /\ Stands
<1>0. /\ LedgerTypeOK /\ SessionTypeOK /\ SolePrimary /\ LaunchOnce /\ CompletionHeld /\ PendOK(c)
      /\ calls' \in Nat /\ claim' = claim /\ attemptAt' = attemptAt
  BY DEF SessionsInv, LedgerTypeOK, ledgerRows
<1>1. /\ c.op = "mint" /\ token' = [token EXCEPT ![c.s] = "live"] /\ launched' = launched \cup {c.s}
      /\ pend' = pend \ {c} /\ session' = session /\ shellEnded' = shellEnded
  BY DEF MintSessionToken, Todo, Done
<1>2. c.s \in Session /\ c.s \notin launched /\ c.s \notin shellEnded
  BY <1>0, <1>1, PendKinds DEF LaunchOp, PrepareOp, Launching, LaunchOnce, SessionTypeOK
<1>3. LedgerTypeOK' /\ SolePrimary' /\ CompletionHeld' /\ Stands
  <2>1. \A e \in pend' : PendOK(e) /\ e \in pend
    BY <1>0, <1>1 DEF LedgerTypeOK
  <2>2. QED
    BY <1>0, <1>1, <2>1, SessionFrame
<1>4. SessionTypeOK'
  BY <1>0, <1>1, <1>2 DEF SessionTypeOK, completionRows
<1>5. LaunchOnce'
  <2>1. session[c.s].status # "absent" /\ \A e \in pend' : e.op \in LaunchOp => e.s # c.s
    BY <1>0, <1>1 DEF LaunchOnce, LaunchOp
  <2>2. (\A s \in launched' : token'[s] # "none") /\ (\A s \in shellEnded' : token'[s] # "live")
    BY <1>0, <1>1, <1>2 DEF LaunchOnce, SessionTypeOK
  <2>3. QED
    BY <1>0, <1>1, <2>1, <2>2 DEF LaunchOnce
<1>6. QED
  BY <1>3, <1>4, <1>5 DEF SessionsInv

\* The shell and the sweeps read a session and move it later.
LEMMA ShellReads ==
  ASSUME SessionsInv, NEW s \in Session, StartShell(s) \/ AbandonStale(s) \/ CleanupWorkspace(s) \/ ExpireToken(s),
         UNCHANGED <<taskStatus, manager, review, verdicts, ledgerRows, completionRows>>
  PROVE  SessionsInv' /\ Stands
<1>0. /\ LedgerTypeOK /\ SessionTypeOK /\ SolePrimary /\ LaunchOnce /\ CompletionHeld
      /\ claim' = claim /\ attemptAt' = attemptAt
  BY DEF SessionsInv, ledgerRows
<1>1. calls' \in Nat /\ UNCHANGED <<session, launched, shellEnded>>
  <2>1. (calls' = calls \/ Call) /\ UNCHANGED <<session, launched, shellEnded>>
    BY DEF StartShell, AbandonStale, CleanupWorkspace, ExpireToken, sessionRows
  <2>2. QED
    BY <1>0, <2>1 DEF LedgerTypeOK, Call
<1>2. \A d \in pend' : PendOK(d) /\ (d \in pend \/ d.op \in {"run", "abandon"})
  <2>1. CASE pend' = pend
    BY <1>0, <2>1 DEF LedgerTypeOK
  <2>2. ASSUME NEW op \in {"run", "abandon"}, pend' = pend \cup {[op |-> op, s |-> s, call |-> calls']}
        PROVE  \A d \in pend' : PendOK(d) /\ (d \in pend \/ d.op \in {"run", "abandon"})
    <3>1. [op |-> op, s |-> s, call |-> calls'] \in Shelling /\ [op |-> op, s |-> s, call |-> calls'].op = op
      BY <1>1 DEF Shelling
    <3>2. QED
      BY <1>0, <2>2, <3>1 DEF LedgerTypeOK, PendOK
  <2>3. QED
    BY <2>1, <2>2 DEF StartShell, AbandonStale, CleanupWorkspace, ExpireToken, Later
<1>3. /\ token' \in [Session -> {"none", "live", "revoked", "expired"}]
      /\ \A t \in Session : token'[t] = token[t] \/ token'[t] = "expired"
  <2>1. token' = token \/ token' = [token EXCEPT ![s] = "expired"]
    BY DEF StartShell, AbandonStale, CleanupWorkspace, ExpireToken, sessionRows
  <2>2. QED
    BY <1>0, <2>1 DEF SessionTypeOK
<1>4. LedgerTypeOK' /\ SolePrimary' /\ CompletionHeld' /\ Stands
  BY <1>0, <1>1, <1>2, SessionFrame DEF ClaimOp
<1>5. SessionTypeOK'
  BY <1>0, <1>1, <1>3 DEF SessionTypeOK, completionRows
<1>6. LaunchOnce'
  <2>1. (\A t \in launched' : token'[t] # "none") /\ (\A t \in shellEnded' : token'[t] # "live")
    BY <1>0, <1>1, <1>3 DEF LaunchOnce, SessionTypeOK
  <2>2. QED
    BY <1>0, <1>1, <1>2, <2>1 DEF LaunchOnce, LaunchOp
<1>7. QED
  BY <1>4, <1>5, <1>6 DEF SessionsInv

\* A status that is there is never taken away, and a session stays where it was launched.
LEMMA StatusMoves ==
  ASSUME SessionsInv, NEW s \in Session, NEW dst \in {"running", "ended", "failed", "abandoned"},
         session[s].status # "absent" \/ dst = session[s].status,
         session' = [session EXCEPT ![s].status = dst]
  PROVE  /\ session' \in [Session -> SessionRow]
         /\ \A t \in Session : /\ session'[t].on = session[t].on /\ session'[t].mode = session[t].mode
                               /\ session'[t].status = "absent" <=> session[t].status = "absent"
<1>0. session \in [Session -> SessionRow]
  BY DEF SessionsInv, SessionTypeOK
<1>1. session' \in [Session -> SessionRow]
  BY <1>0 DEF SessionRow
<1>2. /\ \A t \in Session : t # s => session'[t] = session[t]
      /\ session'[s].status = dst /\ session'[s].on = session[s].on /\ session'[s].mode = session[s].mode
  BY <1>0 DEF SessionRow
<1>3. QED
  BY <1>1, <1>2

\* end_shell, the shell's start and a sweep move the session's status.
LEMMA ShellMoves ==
  ASSUME SessionsInv, NEW s \in Session, session' = session \/ (\E dst \in {"running", "ended", "failed", "abandoned"} :
                        /\ session[s].status # "absent" \/ dst = session[s].status
                        /\ session' = [session EXCEPT ![s].status = dst]),
         UNCHANGED <<taskStatus, manager, review, verdicts, ledgerRows, completionRows>>,
         UNCHANGED <<token, launched, shellEnded>>, calls' \in Nat,
         \A d \in pend' : /\ PendOK(d)
                          /\ \/ d \in pend
                             \/ d.op = "revoke" /\ (d.end => d.s \in launched)
  PROVE  SessionsInv' /\ Stands
<1>0. /\ LedgerTypeOK /\ SessionTypeOK /\ SolePrimary /\ LaunchOnce /\ CompletionHeld
      /\ claim' = claim /\ attemptAt' = attemptAt
  BY DEF SessionsInv, ledgerRows
<1>1. /\ session' \in [Session -> SessionRow]
      /\ \A t \in Session : /\ session'[t].on = session[t].on /\ session'[t].mode = session[t].mode
                            /\ session'[t].status = "absent" <=> session[t].status = "absent"
  <2>1. CASE session' = session
    BY <1>0, <2>1 DEF SessionTypeOK
  <2>2. ASSUME NEW dst \in {"running", "ended", "failed", "abandoned"},
               session[s].status # "absent" \/ dst = session[s].status,
               session' = [session EXCEPT ![s].status = dst]
        PROVE  <1>1!1 /\ <1>1!2
    BY <2>2, StatusMoves
  <2>3. QED
    BY <2>1, <2>2
<1>2. LedgerTypeOK' /\ SolePrimary' /\ CompletionHeld' /\ Stands
  BY <1>0, <1>1, SessionFrame DEF ClaimOp
<1>3. SessionTypeOK'
  BY <1>0, <1>1 DEF SessionTypeOK, completionRows
<1>4. LaunchOnce'
  <2>1. \A e \in pend' : e.op \in LaunchOp =>
          /\ e \in pend /\ e.s \in Session
    BY <1>0, PendKinds DEF LaunchOp, PrepareOp, Launching, LaunchClaiming
  <2>2. \A e \in pend' : e.op \in LaunchOp =>
          /\ e.s \notin launched
          /\ e.op = "mint" <=> session'[e.s].status # "absent"
          /\ e.op # "mint" => e.row.status = "prepared"
          /\ \A g \in pend' : g.op \in LaunchOp /\ g.s = e.s => g = e
    BY <1>0, <1>1, <2>1 DEF LaunchOnce
  <2>3. \A t \in Session :
          session'[t].status = "absent" => t \notin launched /\ session'[t].on # "task"
    BY <1>0, <1>1 DEF LaunchOnce
  <2>4. \A e \in pend' : e.op = "revoke" /\ e.end => e.s \in launched
    BY <1>0 DEF LaunchOnce
  <2>5. QED
    BY <1>0, <2>2, <2>3, <2>4 DEF LaunchOnce
<1>5. QED
  BY <1>2, <1>3, <1>4 DEF SessionsInv

\* end_shell: whatever ended the session first, its token is to be revoked.
LEMMA EndShellStep ==
  ASSUME SessionsInv, NEW s \in Session, NEW dst \in {"ended", "failed"}, EndShell(s, dst),
         UNCHANGED <<taskStatus, manager, review, verdicts, ledgerRows, completionRows>>
  PROVE  SessionsInv' /\ Stands
<1>0. LedgerTypeOK /\ SessionTypeOK /\ LaunchOnce
  BY DEF SessionsInv
<1>1. /\ s \in launched /\ UNCHANGED <<token, launched, shellEnded>> /\ calls' \in Nat
      /\ session' = [session EXCEPT ![s].status = Follow(session[s].status, dst, LiveSession)]
      /\ pend' = pend \cup {[op |-> "revoke", s |-> s, end |-> TRUE, call |-> calls']}
  BY <1>0 DEF EndShell, Call, LedgerTypeOK, Later
<1>2. /\ Follow(session[s].status, dst, LiveSession) \in {"running", "ended", "failed", "abandoned"}
      /\ session[s].status # "absent"
  BY <1>0, <1>1 DEF Follow, LiveSession, SessionTypeOK, SessionRow, LaunchOnce
<1>3. \A d \in pend' : PendOK(d) /\ (d \in pend \/ (d.op = "revoke" /\ d.s \in launched))
  <2>1. ASSUME NEW b \in BOOLEAN
        PROVE  /\ [op |-> "revoke", s |-> s, end |-> b, call |-> calls'] \in Revoking
               /\ [op |-> "revoke", s |-> s, end |-> b, call |-> calls'].op = "revoke"
               /\ [op |-> "revoke", s |-> s, end |-> b, call |-> calls'].s = s
    BY <1>1 DEF Revoking
  <2>2. QED
    BY <1>0, <1>1, <2>1 DEF LedgerTypeOK, PendOK
<1>4. QED
  BY <1>1, <1>2, <1>3, ShellMoves

\* The shell's start lands, or a sweep's; each moves a live session or nothing.
LEMMA ShellLands ==
  ASSUME SessionsInv, NEW c \in pend, RunShell(c) \/ Abandon(c), calls' = calls,
         UNCHANGED <<taskStatus, manager, review, verdicts, ledgerRows, completionRows>>
  PROVE  SessionsInv' /\ Stands
<1>0. LedgerTypeOK /\ SessionTypeOK /\ LaunchOnce /\ PendOK(c) /\ calls' \in Nat
  BY DEF SessionsInv, LedgerTypeOK
<1>1. c \in Shelling /\ c.s \in Session /\ c.call \in Nat
  <2>1. c.op \in {"run", "abandon"}
    BY DEF RunShell, Abandon, Todo
  <2>2. QED
    BY <1>0, <2>1, PendKinds DEF Shelling
<1>2. UNCHANGED <<token, launched, shellEnded>>
  BY DEF RunShell, Abandon
<1>3. \/ session' = session
      \/ \E dst \in {"running", "ended", "failed", "abandoned"} :
           /\ session[c.s].status # "absent" \/ dst = session[c.s].status
           /\ session' = [session EXCEPT ![c.s].status = dst]
  <2>1. ASSUME NEW dst \in {"running", "abandoned"},
               Admits(SessionEdges(session[c.s].status), session[c.s].status, dst)
        PROVE  session[c.s].status # "absent"
    BY <2>1 DEF Admits, SessionEdges
  <2>2. QED
    BY <2>1 DEF RunShell, Abandon
<1>4. \A d \in pend' : PendOK(d) /\ (d \in pend \/ (d.op = "revoke" /\ (d.end => d.s \in launched)))
  <2>1. CASE pend' = pend \ {c}
    BY <1>0, <2>1 DEF LedgerTypeOK
  <2>2. CASE pend' = (pend \ {c}) \cup {[op |-> "revoke", s |-> c.s, end |-> FALSE, call |-> c.call]}
    <3>1. ASSUME NEW b \in BOOLEAN
          PROVE  /\ [op |-> "revoke", s |-> c.s, end |-> b, call |-> c.call] \in Revoking
                 /\ [op |-> "revoke", s |-> c.s, end |-> b, call |-> c.call].op = "revoke"
                 /\ [op |-> "revoke", s |-> c.s, end |-> b, call |-> c.call].end = b
      BY <1>1 DEF Revoking
    <3>2. QED
      BY <1>0, <2>2, <3>1 DEF LedgerTypeOK, PendOK
  <2>3. QED
    BY <2>1, <2>2 DEF RunShell, Abandon, Done
<1>5. QED
  BY <1>0, <1>1, <1>2, <1>3, <1>4, ShellMoves

\* The revocation: a token that exists is dead from here on.
LEMMA RevokeStep ==
  ASSUME SessionsInv, NEW c \in pend, RevokeTokens(c), calls' = calls,
         UNCHANGED <<taskStatus, manager, review, verdicts, ledgerRows, completionRows>>
  PROVE  SessionsInv' /\ Stands
<1>0. /\ LedgerTypeOK /\ SessionTypeOK /\ SolePrimary /\ LaunchOnce /\ CompletionHeld /\ PendOK(c)
      /\ calls' \in Nat /\ claim' = claim /\ attemptAt' = attemptAt
  BY DEF SessionsInv, LedgerTypeOK, ledgerRows
<1>1. /\ c.op = "revoke" /\ pend' = pend \ {c} /\ session' = session /\ launched' = launched
      /\ token' = [token EXCEPT ![c.s] = IF token[c.s] = "none" THEN token[c.s] ELSE "revoked"]
      /\ shellEnded' = IF c.end THEN shellEnded \cup {c.s} ELSE shellEnded
  BY DEF RevokeTokens, Todo, Done
<1>2. c.s \in Session /\ (c.end => c.s \in launched)
  BY <1>0, <1>1, PendKinds DEF Revoking, LaunchOnce
<1>3. LedgerTypeOK' /\ SolePrimary' /\ CompletionHeld' /\ Stands
  <2>1. \A e \in pend' : PendOK(e) /\ e \in pend
    BY <1>0, <1>1 DEF LedgerTypeOK
  <2>2. QED
    BY <1>0, <1>1, <2>1, SessionFrame
<1>4. /\ token' \in [Session -> {"none", "live", "revoked", "expired"}]
      /\ \A t \in Session : t # c.s => token'[t] = token[t]
      /\ token[c.s] = "none" => token'[c.s] = "none"
      /\ token[c.s] # "none" => token'[c.s] = "revoked"
  BY <1>0, <1>1, <1>2 DEF SessionTypeOK
<1>5. SessionTypeOK'
  BY <1>0, <1>1, <1>2, <1>4 DEF SessionTypeOK, completionRows
<1>6. LaunchOnce'
  <2>1. (\A t \in launched' : token'[t] # "none") /\ (\A t \in shellEnded' : token'[t] # "live")
    BY <1>0, <1>1, <1>2, <1>4 DEF LaunchOnce, SessionTypeOK
  <2>2. QED
    BY <1>0, <1>1, <2>1 DEF LaunchOnce
<1>7. QED
  BY <1>3, <1>5, <1>6 DEF SessionsInv

----------------------------------------------------------------------------
(* Completion.                                                             *)

\* complete_task from its precheck to the audit, and the audit itself.
LEMMA AuditSteps ==
  ASSUME SessionsInv,
         (\E force \in BOOLEAN : CompleteTask(force)) \/ (\E c \in pend, f \in Findings : Audit(c, f)),
         UNCHANGED <<taskStatus, manager, review, verdicts, ledgerRows, sessionRows>>
  PROVE  SessionsInv' /\ Stands
<1>0. /\ LedgerTypeOK /\ SessionTypeOK /\ SolePrimary /\ LaunchOnce /\ CompletionHeld
      /\ claim' = claim /\ attemptAt' = attemptAt
      /\ UNCHANGED <<session, token, launched, shellEnded>>
  BY DEF SessionsInv, ledgerRows, sessionRows
<1>1. UNCHANGED <<forced, completions>> /\ calls' \in Nat
  <2>1. UNCHANGED <<forced, completions>> /\ (calls' = calls \/ Call)
    BY DEF CompleteTask, Audit, completionRows
  <2>2. QED
    BY <1>0, <2>1 DEF LedgerTypeOK, Call
<1>2. \A d \in pend' : /\ PendOK(d)
                       /\ \/ d \in pend
                          \/ d.op = "audit"
                          \/ d.op = "land" /\ (~d.force => Evidence)
  <2>1. ASSUME NEW force \in BOOLEAN, CompleteTask(force) PROVE <1>2
    <3>1. pend' = pend \cup {[op |-> "audit", force |-> force, call |-> calls']}
      BY <2>1 DEF CompleteTask, Later
    <3>2. /\ [op |-> "audit", force |-> force, call |-> calls'] \in Completing
          /\ [op |-> "audit", force |-> force, call |-> calls'].op = "audit"
      BY <1>1 DEF Completing
    <3>3. QED
      BY <1>0, <3>1, <3>2 DEF LedgerTypeOK, PendOK
  <2>2. ASSUME NEW c \in pend, NEW f \in Findings, Audit(c, f) PROVE <1>2
    <3>1. CASE pend' = pend \ {c}
      BY <1>0, <3>1 DEF LedgerTypeOK
    <3>2. CASE (AuditTask(f) \/ c.force) /\ pend' = (pend \ {c}) \cup {[c EXCEPT !.op = "land"]}
      <4>1. c \in Completing
        BY <1>0, <2>2, PendKinds DEF LedgerTypeOK, Audit, Todo
      <4>2. /\ [c EXCEPT !.op = "land"] \in Completing /\ [c EXCEPT !.op = "land"].op = "land"
            /\ [c EXCEPT !.op = "land"].force = c.force
        BY <4>1, PendGoesOn DEF PendOK
      <4>3. AuditTask(f) => Evidence
        <5>1. AuditTask(f) => OnEntity("task") # {} /\ attemptAt # 0
          BY DEF AuditTask, AttemptDuring
        <5>2. QED
          BY <5>1 DEF Evidence, OnEntity
      <4>4. QED
        BY <1>0, <3>2, <4>2, <4>3 DEF LedgerTypeOK, PendOK
    <3>3. QED
      BY <2>2, <3>1, <3>2 DEF Audit, Next1, Done
  <2>3. QED
    BY <2>1, <2>2
<1>3. LedgerTypeOK' /\ SolePrimary' /\ Stands /\ SessionTypeOK'
  BY <1>0, <1>1, <1>2, ClaimsKept DEF LedgerTypeOK, ClaimOp, Stands, SessionTypeOK
<1>4. LaunchOnce'
  BY <1>0, <1>2 DEF LaunchOnce, LaunchOp
<1>5. CompletionHeld'
  <2>1. Evidence' = Evidence
    BY <1>0 DEF Evidence
  <2>2. QED
    BY <1>0, <1>1, <1>2, <2>1 DEF CompletionHeld
<1>6. QED
  BY <1>3, <1>4, <1>5 DEF SessionsInv

\* The write that is the gate: it lands on a live task only, so nobody announced before.
LEMMA LandStep ==
  ASSUME SessionsInv, NEW c \in pend, Land(c),
         UNCHANGED <<manager, review, verdicts, ledgerRows, sessionRows>>
  PROVE  SessionsInv' /\ Stands
<1>0. /\ LedgerTypeOK /\ SessionTypeOK /\ SolePrimary /\ LaunchOnce /\ CompletionHeld /\ PendOK(c)
      /\ claim' = claim /\ attemptAt' = attemptAt
      /\ UNCHANGED <<session, token, launched, shellEnded>>
  BY DEF SessionsInv, LedgerTypeOK, ledgerRows, sessionRows
<1>1. /\ c.op = "land" /\ calls' = calls /\ completions' = completions
      /\ taskStatus' = Advance(taskStatus, "succeeded", TaskStatus \ TerminalTaskStatus)
  BY DEF Land, Todo
<1>2. Evidence' = Evidence
  BY <1>0 DEF Evidence
<1>3. CASE taskStatus \in TerminalTaskStatus
  <2>1. forced' = forced /\ pend' = pend \ {c} /\ taskStatus' = taskStatus
    BY <1>1, <1>3 DEF Land, Done, Advance
  <2>2. LedgerTypeOK' /\ SolePrimary' /\ Stands /\ SessionTypeOK'
    BY <1>0, <1>1, <2>1, ClaimsKept DEF LedgerTypeOK, Stands, SessionTypeOK
  <2>3. LaunchOnce'
    BY <1>0, <2>1 DEF LaunchOnce
  <2>4. CompletionHeld'
    BY <1>0, <1>1, <1>2, <2>1 DEF CompletionHeld
  <2>5. QED
    BY <2>2, <2>3, <2>4 DEF SessionsInv
<1>4. CASE taskStatus \notin TerminalTaskStatus
  <2> DEFINE d == [c EXCEPT !.op = "announce_task"]
  <2>1. c \in Completing
    BY <1>0, <1>1, PendKinds
  <2>2. /\ forced' = c.force /\ pend' = (pend \ {c}) \cup {d} /\ taskStatus' = "succeeded"
        /\ d \in Completing /\ d.op = "announce_task" /\ c.force \in BOOLEAN
    BY <1>0, <1>1, <1>4, <2>1, PendGoesOn DEF Land, Next1, Advance, LedgerTypeOK, Completing
  <2> HIDE DEF d
  <2>3. /\ \A e \in pend : e.op # "announce_task"
        /\ completions = 0
    BY <1>0, <1>4 DEF CompletionHeld, TerminalTaskStatus, SessionTypeOK
  <2>4. LedgerTypeOK' /\ SolePrimary' /\ Stands /\ SessionTypeOK'
    BY <1>0, <1>1, <2>2, ClaimsKept DEF LedgerTypeOK, ClaimOp, Stands, SessionTypeOK, TaskStatus, PendOK
  <2>5. LaunchOnce'
    BY <1>0, <2>2 DEF LaunchOnce, LaunchOp
  <2>6. CompletionHeld'
    <3>1. ~c.force => Evidence
      BY <1>0, <1>1 DEF CompletionHeld
    <3>2. \A e \in pend' : e.op = "land" /\ ~e.force => Evidence
      BY <1>0, <2>2 DEF CompletionHeld
    <3>3. \A e \in pend' : e.op = "announce_task" => e = d
      BY <2>2, <2>3
    <3>4. QED
      BY <1>1, <1>2, <2>2, <2>3, <3>1, <3>2, <3>3 DEF CompletionHeld
  <2>7. QED
    BY <2>4, <2>5, <2>6 DEF SessionsInv
<1>5. QED
  BY <1>3, <1>4

\* The announcement, which one call holds.
LEMMA AnnounceStep ==
  ASSUME SessionsInv, NEW c \in pend, AnnounceTask(c),
         UNCHANGED <<taskStatus, manager, review, verdicts, ledgerRows, sessionRows>>
  PROVE  SessionsInv' /\ Stands
<1>0. /\ LedgerTypeOK /\ SessionTypeOK /\ SolePrimary /\ LaunchOnce /\ CompletionHeld
      /\ claim' = claim /\ attemptAt' = attemptAt
      /\ UNCHANGED <<session, token, launched, shellEnded>>
  BY DEF SessionsInv, ledgerRows, sessionRows
<1>1. /\ c.op = "announce_task" /\ pend' = pend \ {c} /\ completions' = completions + 1
      /\ calls' = calls /\ forced' = forced
  BY DEF AnnounceTask, Todo, Done
<1>2. completions = 0 /\ taskStatus = "succeeded" /\ \A e \in pend' : e.op # "announce_task"
  BY <1>0, <1>1 DEF CompletionHeld
<1>3. LedgerTypeOK' /\ SolePrimary' /\ Stands /\ SessionTypeOK'
  BY <1>0, <1>1, <1>2, ClaimsKept DEF LedgerTypeOK, ClaimOp, Stands, SessionTypeOK
<1>4. LaunchOnce'
  BY <1>0, <1>1 DEF LaunchOnce
<1>5. CompletionHeld'
  <2>1. Evidence' = Evidence
    BY <1>0 DEF Evidence
  <2>2. QED
    BY <1>0, <1>1, <1>2, <2>1 DEF CompletionHeld
<1>6. QED
  BY <1>3, <1>4, <1>5 DEF SessionsInv

----------------------------------------------------------------------------
(* The specification.                                                      *)

\* A service that has just started has no session.
LEMMA SessionsInitially == SessionsInit => SessionsInv
<1> SUFFICES ASSUME SessionsInit PROVE SessionsInv
  OBVIOUS
<1>1. LedgerTypeOK
  <2>1. NoReview \in ReviewRow
    BY DEF NoReview, ReviewRow
  <2>2. QED
    BY <2>1 DEF SessionsInit, TaskLedgerInit, LedgerTypeOK, TaskStatus, ClaimState
<1>2. NoSession \in SessionRow /\ NoSession.on # "task"
  BY DEF NoSession, SessionRow, SessionMode
<1>3. SessionTypeOK /\ LaunchOnce
  BY <1>2 DEF SessionsInit, TaskLedgerInit, SessionTypeOK, LaunchOnce
<1>4. SolePrimary /\ CompletionHeld
  BY TaskLedgerBounds DEF SessionsInit, TaskLedgerInit, SolePrimary, OnePrimaryPerProcess, Live,
     ClaimRole, CompletionHeld
<1>5. QED
  BY <1>1, <1>3, <1>4 DEF SessionsInv

\* Every step keeps the invariant and leaves decided reviews alone.
LEMMA SessionsStep == ASSUME SessionsInv, [SessionsNext]_vars PROVE SessionsInv' /\ Stands
<1>1. CASE UNCHANGED vars
  <2>1. UNCHANGED <<taskStatus, review, pend, calls, claim, attemptAt, sessionRows, completionRows>>
    BY <1>1 DEF vars, ledgerRows
  <2>2. LedgerTypeOK' /\ SolePrimary' /\ Quiet /\ Stands
    BY <2>1, ClaimsKept DEF SessionsInv, LedgerTypeOK, Quiet, Stands
  <2>3. QED
    BY <2>1, <2>2, QuietStep DEF SessionsInv
<1>2. CASE LedgerSteps /\ UNCHANGED <<sessionRows, completionRows>>
  BY <1>2, LedgerStep
<1>3. CASE \/ \E s \in Session, m \in Manager, p \in Process, on \in Review \cup {"task"},
                claiming, readonly, fr \in BOOLEAN : Launch(s, m, p, on, claiming, readonly, fr)
           \/ \E c \in pend : ClaimForLaunch(c)
  BY <1>3, LaunchStep, LaunchClaimStep
<1>4. CASE /\ SessionCall \/ \E c \in pend : SessionContinues(c)
           /\ UNCHANGED <<taskStatus, manager, review, verdicts, ledgerRows, completionRows>>
  <2>1. CASE SessionCall
    BY <1>4, <2>1, ShellReads, EndShellStep DEF SessionCall
  <2>2. ASSUME NEW c \in pend, SessionContinues(c) PROVE SessionsInv' /\ Stands
    BY <1>4, <2>2, LaunchGoesOn, MintStep, ShellLands, RevokeStep DEF SessionContinues
  <2>3. QED
    BY <1>4, <2>1, <2>2
<1>5. CASE \E r \in Review, m \in Manager, dst \in {"completed", "rejected"}, unreg, force \in BOOLEAN :
             CompleteReviewAudited(r, m, dst, unreg, force)
  <2>1. PICK r \in Review, m \in Manager, dst \in {"completed", "rejected"} :
          CompleteReview(r, m, dst) /\ UNCHANGED <<sessionRows, completionRows>>
    BY <1>5 DEF CompleteReviewAudited
  <2>2. QED
    BY <2>1, LedgerStep DEF LedgerSteps, LedgerCall
<1>6. CASE /\ \/ \E force \in BOOLEAN : CompleteTask(force)
              \/ \E c \in pend, f \in Findings : Audit(c, f)
              \/ \E c \in pend : AnnounceTask(c)
           /\ UNCHANGED <<taskStatus, manager, review, verdicts, ledgerRows, sessionRows>>
  BY <1>6, AuditSteps, AnnounceStep
<1>7. CASE (\E c \in pend : Land(c)) /\ UNCHANGED <<manager, review, verdicts, ledgerRows, sessionRows>>
  BY <1>7, LandStep
<1>8. QED
  BY <1>1, <1>2, <1>3, <1>4, <1>5, <1>6, <1>7 DEF SessionsNext

\* The invariant holds throughout.
LEMMA SessionsInvariant == SessionsSpec => []SessionsInv
<1>1. SessionsInv /\ [SessionsNext]_vars => SessionsInv'
  BY SessionsStep
<1>2. QED
  BY <1>1, SessionsInitially, PTL DEF SessionsSpec

\* Two managers hold the task at once only through two processes: claim_task and
\* launch_session check the other managers' live primary claims in the span that
\* enters theirs, and the spans of one process exclude one another.
THEOREM OnePrimaryPerProcessHolds == SessionsSpec => []OnePrimaryPerProcess
<1>1. SessionsInv => OnePrimaryPerProcess
  BY DEF SessionsInv, SolePrimary
<1>2. QED
  BY <1>1, SessionsInvariant, PTL

\* A completion that was not forced rests on a session and an attempt, and is
\* announced once, whatever callers of complete_task race for it.
THEOREM CompletionIsEvidenced == SessionsSpec => []CompletionEvidenced
<1>1. SessionsInv => CompletionEvidenced
  BY DEF SessionsInv, SessionTypeOK, CompletionHeld, Evidence, CompletionEvidenced
<1>2. QED
  BY <1>1, SessionsInvariant, PTL

\* After end_shell has returned the session's token authorizes nothing, and the
\* token of an agent's session never completes a task.
THEOREM TokensDie == SessionsSpec => []TokenDiesWithShell
<1>1. ASSUME SessionsInv PROVE TokenDiesWithShell
  <2>1. \A s \in Session : session[s].mode \in SessionMode
    BY <1>1 DEF SessionsInv, SessionTypeOK, SessionRow
  <2>2. \A s \in Session : token[s] = "live" => s \notin shellEnded
    BY <1>1 DEF SessionsInv, LaunchOnce
  <2>3. QED
    BY <2>1, <2>2 DEF TokenDiesWithShell, Authorized, SessionMode, AgentForbiddenActions
<1>2. QED
  BY <1>1, SessionsInvariant, PTL

\* Once a review is decided no step changes its row: the verdict of complete_review
\* is written along an edge of the review's vocabulary, and a decided review has none.
THEOREM VerdictsStand == SessionsSpec => VerdictStands
<1>1. SessionsInv /\ [SessionsNext]_vars =>
        [\A r \in Review : review[r].status \in TerminalReview => review'[r] = review[r]]_vars
  BY SessionsStep DEF Stands
<1>2. QED
  BY <1>1, SessionsInvariant, PTL DEF SessionsSpec, VerdictStands
=============================================================================
