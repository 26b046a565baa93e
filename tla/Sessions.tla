------------------------------ MODULE Sessions ------------------------------
(***************************************************************************)
(* The compliance layer over the task ledger (core/service.py, sessions.py,*)
(* audit.py): launch prepares a managed session with a workspace and the   *)
(* one token its agent gets, the shell starts and ends, sweeps abandon     *)
(* sessions whose process died, the audit reads the ledger and completion  *)
(* refuses until it passes.                                                *)
(*                                                                         *)
(* A session is on the task or on one review.  The files that launch       *)
(* writes are not modelled; the worktree, the subtasks and the tracker     *)
(* enter the audit as what it may find there.                              *)
(***************************************************************************)
EXTENDS TaskLedger

CONSTANT Session   \* session ids; a session and its workspace share one

VARIABLES
  session,      \* manager_sessions
  workspace,    \* workspaces: what each is for and whether it is there
  token,        \* session_tokens
  launched,     \* launch_session has returned: the agent has its token
  shellEnded,   \* end_shell has returned
  forced,       \* the completion that landed was forced
  completions   \* announcements of the task's completion

sessionRows == <<session, workspace, token, launched, shellEnded>>
completionRows == <<forced, completions>>
vars == <<taskStatus, manager, review, verdicts, pend, calls, ledgerRows, sessionRows, completionRows>>

SessionEdges(src) ==
  CASE src = "prepared" -> {"running", "ended", "failed", "abandoned"}
    [] src = "running"  -> {"ended", "failed", "abandoned"}
    [] OTHER            -> {}

LiveSession == {"prepared", "running"}

NoSession == [status |-> "absent", mode |-> "none", on |-> "none", at |-> 0]

SessionsInit ==
  /\ TaskLedgerInit
  /\ session = [s \in Session |-> NoSession]
  /\ workspace = [s \in Session |-> [state |-> "none", on |-> "none"]]
  /\ token = [s \in Session |-> "none"]
  /\ launched = {}
  /\ shellEnded = {}
  /\ forced = FALSE
  /\ completions = 0

----------------------------------------------------------------------------
(* launch_session.                                                         *)

LaunchOp == {"launch_claim", "workspace", "session", "mint"}

ModeFor(on, readonly) ==
  IF readonly THEN "readonly" ELSE IF on \in Review THEN "reviewer" ELSE "manager"

Fresh(s) == session[s].status = "absent" /\ \A c \in pend : c.op \in LaunchOp => c.s # s

Prepared(mode, on) == [status |-> "prepared", mode |-> mode, on |-> on, at |-> calls']

Prepare(s, mode, on) ==
  Later([op |-> "workspace", s |-> s, call |-> calls', row |-> Prepared(mode, on)])

\* The claim comes first; a refusal is an error, or with force_readonly a
\* downgrade.  claim_review refuses a stranger with another error, which
\* is never downgraded.
Launch(s, m, p, on, claiming, readonly, forceReadonly) ==
  /\ Call
  /\ Fresh(s)
  /\ on \in Review => review[on].status # "absent"
  /\ \/ /\ ~claiming \/ readonly
        /\ Prepare(s, ModeFor(on, readonly), on)
        /\ UNCHANGED review
     \/ /\ claiming /\ ~readonly /\ on = "task"
        /\ Serialized(p) /\ CheckPrimaryExclusivity(m)
        /\ Later([op |-> "launch_claim", s |-> s, m |-> m, p |-> p, call |-> calls',
                  row |-> Prepared(ModeFor(on, readonly), on)])
        /\ UNCHANGED review
     \/ /\ claiming /\ ~readonly /\ on \in Review /\ CheckClaimable(on, m)
        /\ ClaimReviewEffect(on)
        /\ Prepare(s, ModeFor(on, readonly), on)
     \/ /\ claiming /\ ~readonly /\ forceReadonly
        /\ \/ on = "task" /\ Serialized(p) /\ ~CheckPrimaryExclusivity(m)
           \/ on \in Review /\ review[on].status # "open"
        /\ Prepare(s, "readonly", on)
        /\ UNCHANGED review
  /\ UNCHANGED <<taskStatus, manager, claim, decisions, attemptAt, artifacts, inbox, verdicts,
                 sessionRows, completionRows>>

\* The claim of a launch is entered as claim_task enters one.
ClaimForLaunch(c) ==
  /\ Todo(c, "launch_claim")
  /\ ClaimTaskEffect(c.m, c.p)
  /\ pend' = (pend \ {c}) \cup {[op |-> "workspace", s |-> c.s, call |-> c.call, row |-> c.row]}
  /\ UNCHANGED <<decisions, attemptAt, artifacts, review, inbox, verdicts, calls, sessionRows, completionRows>>

InsertWorkspace(c) ==
  /\ Todo(c, "workspace")
  /\ workspace' = [workspace EXCEPT ![c.s] = [state |-> "live", on |-> c.row.on]]
  /\ Next1(c, "session")
  /\ UNCHANGED <<session, token, launched, shellEnded>>

InsertSession(c) ==
  /\ Todo(c, "session")
  /\ session' = [session EXCEPT ![c.s] = c.row]
  /\ Next1(c, "mint")
  /\ UNCHANGED <<workspace, token, launched, shellEnded>>

\* The token, the files that carry it, and the return.
MintSessionToken(c) ==
  /\ Todo(c, "mint")
  /\ token' = [token EXCEPT ![c.s] = "live"]
  /\ launched' = launched \cup {c.s}
  /\ Done(c)
  /\ UNCHANGED <<session, workspace, shellEnded>>

----------------------------------------------------------------------------
(* The shell.                                                              *)

\* The session is read ...
StartShell(s) ==
  /\ Call
  /\ s \in launched
  /\ session[s].status \in LiveSession
  /\ IF session[s].status = "prepared" THEN Later([op |-> "run", s |-> s, call |-> calls']) ELSE UNCHANGED pend
  /\ UNCHANGED sessionRows

\* ... and moves, unless it ended meanwhile.
RunShell(c) ==
  /\ Todo(c, "run")
  /\ IF Admits(SessionEdges(session[c.s].status), session[c.s].status, "running")
     THEN session' = [session EXCEPT ![c.s].status = "running"]
     ELSE UNCHANGED session
  /\ Done(c)
  /\ UNCHANGED <<workspace, token, launched, shellEnded>>

\* Slip: a session that a sweep has already ended is left alone.
EndShellOnce(s, dst) ==
  /\ Call
  /\ s \in launched
  /\ session' = [session EXCEPT ![s].status = Follow(@, dst, LiveSession)]
  /\ IF session[s].status \in LiveSession
     THEN Later([op |-> "revoke", s |-> s, end |-> TRUE, call |-> calls']) /\ UNCHANGED shellEnded
     ELSE shellEnded' = shellEnded \cup {s} /\ UNCHANGED pend
  /\ UNCHANGED <<workspace, token, launched>>

\* end_shell converges: whatever ended the session first, the token dies.
EndShell(s, dst) ==
  /\ Call
  /\ s \in launched
  /\ session' = [session EXCEPT ![s].status = Follow(@, dst, LiveSession)]
  /\ Later([op |-> "revoke", s |-> s, end |-> TRUE, call |-> calls'])
  /\ UNCHANGED <<workspace, token, launched, shellEnded>>

RevokeTokens(c) ==
  /\ Todo(c, "revoke")
  /\ token' = [token EXCEPT ![c.s] = IF @ = "none" THEN @ ELSE "revoked"]
  /\ shellEnded' = IF c.end THEN shellEnded \cup {c.s} ELSE shellEnded
  /\ Done(c)
  /\ UNCHANGED <<session, workspace, launched>>

----------------------------------------------------------------------------
(* Sweeps: by age, or because the observed process is gone.                *)

\* abandon_stale_sessions and the session loop of reconcile_orphans list
\* the sessions ...
AbandonStale(s) ==
  /\ Call
  /\ session[s].status \in LiveSession
  /\ Later([op |-> "abandon", s |-> s, call |-> calls'])
  /\ UNCHANGED sessionRows

\* ... and move each one; a refusal means that somebody else ended it.
Abandon(c) ==
  /\ Todo(c, "abandon")
  /\ IF Admits(SessionEdges(session[c.s].status), session[c.s].status, "abandoned")
     THEN /\ session' = [session EXCEPT ![c.s].status = "abandoned"]
          /\ pend' = (pend \ {c}) \cup {[op |-> "revoke", s |-> c.s, end |-> FALSE, call |-> c.call]}
     ELSE UNCHANGED session /\ Done(c)
  /\ UNCHANGED <<workspace, token, launched, shellEnded>>

CleanupWorkspace(s) ==
  /\ Call
  /\ workspace[s].state = "live"
  /\ workspace' = [workspace EXCEPT ![s].state = "destroyed"]
  /\ UNCHANGED <<pend, session, token, launched, shellEnded>>

ExpireToken(s) ==
  /\ token[s] = "live"
  /\ token' = [token EXCEPT ![s] = "expired"]
  /\ UNCHANGED <<pend, calls, session, workspace, launched, shellEnded>>

----------------------------------------------------------------------------
(* authorize.  One action stands for each row of the tables that differs.  *)

NeverTokenActions == {"secrets_read"}
AgentForbiddenActions == NeverTokenActions \cup {"complete_task", "approve_subtask"}
OrientationActions == {"get_task"}

ActionsByMode(mode) ==
  CASE mode = "manager"  -> OrientationActions \cup {"record_decision", "authorize_tool"}
    [] mode = "reviewer" -> OrientationActions \cup {"complete_review"}
    [] mode = "readonly" -> OrientationActions
    [] OTHER             -> OrientationActions \cup {"record_decision", "authorize_tool", "complete_review",
                                                     "complete_task", "approve_subtask"}

\* The token is active, then the three gates: an action is authorized for
\* a session's token, or for an operator's, which no launch mints.
Authorized(tok, mode, action) ==
  /\ tok = "live"
  /\ action \notin NeverTokenActions
  /\ mode # "operator" => action \notin AgentForbiddenActions
  /\ action \in ActionsByMode(mode)

----------------------------------------------------------------------------
(* The audit.                                                              *)

\* Changed files, and changed files that no artifact mentions.
Worktree == {w \in [changed : BOOLEAN, unregistered : BOOLEAN] : w.unregistered => w.changed}

\* What audit_task may find outside the rows of this module.
Findings == {w @@ o : w \in Worktree, o \in [openSubtasks : BOOLEAN, linearDone : BOOLEAN]}

\* find_workspace and latest_session never match one on another entity.
FindWorkspace(on) == \E s \in Session : workspace[s] = [state |-> "live", on |-> on]
OnEntity(on) == {s \in Session : session[s].on = on}
LatestSession(on) == CHOOSE s \in OnEntity(on) : \A o \in OnEntity(on) : session[o].at <= session[s].at

AttemptDuring(s) == attemptAt # 0 /\ attemptAt >= session[s].at

\* Slip: a task without a session is none of the audit's business.
AuditTaskLenient(f) ==
  /\ OnEntity("task") # {} => AttemptDuring(LatestSession("task"))
  /\ taskStatus # "cancelled"

\* The required checks; the handoff's freshness and captured memory are
\* advisory.
AuditTask(f) ==
  /\ FindWorkspace("task")
  /\ OnEntity("task") # {}
  /\ manager # NoManager \/ \E x \in DOMAIN claim : claim[x] \in Process
  /\ AttemptDuring(LatestSession("task"))
  /\ ~f.unregistered
  /\ artifacts \/ ~f.changed
  /\ ~f.openSubtasks
  /\ \A r \in Review : review[r].status \notin OpenReview
  /\ decisions # <<>> \/ ~(f.changed \/ artifacts)
  /\ f.linearDone => taskStatus = "succeeded"
  /\ taskStatus # "cancelled"

AuditReview(r, unregistered) ==
  /\ FindWorkspace(r)
  /\ OnEntity(r) # {}
  /\ review[r].status # "open"
  /\ AttemptDuring(LatestSession(r))
  /\ ~unregistered
  /\ review[r].status \in OpenReview

\* complete_review_audited: what complete_review checks is checked again.
CompleteReviewAudited(r, m, dst, unregistered, force) ==
  /\ review[r].status # "absent"
  /\ AuditReview(r, unregistered) \/ force
  /\ CompleteReview(r, m, dst)
  /\ UNCHANGED <<sessionRows, completionRows>>

----------------------------------------------------------------------------
(* complete_task.                                                          *)

\* The precheck (and the handoff, which is recomputed from the ledger) ...
CompleteTask(force) ==
  /\ Call
  /\ taskStatus # "succeeded"
  /\ Later([op |-> "audit", force |-> force, call |-> calls'])
  /\ UNCHANGED completionRows

\* ... the audit ...
Audit(c, f) ==
  /\ Todo(c, "audit")
  /\ IF AuditTask(f) \/ c.force THEN Next1(c, "land") ELSE Done(c)
  /\ UNCHANGED <<calls, completionRows>>

\* ... the write that is the gate: one caller finds a live task ...
Land(c) ==
  /\ Todo(c, "land")
  /\ taskStatus' = Advance(taskStatus, "succeeded", TaskStatus \ TerminalTaskStatus)
  /\ IF taskStatus \notin TerminalTaskStatus
     THEN forced' = c.force /\ Next1(c, "announce_task")
     ELSE UNCHANGED forced /\ Done(c)
  /\ UNCHANGED <<calls, completions>>

\* ... and the event, the observation, the completion hooks.
AnnounceTask(c) ==
  /\ Todo(c, "announce_task")
  /\ completions' = completions + 1
  /\ Done(c)
  /\ UNCHANGED <<calls, forced>>

----------------------------------------------------------------------------
SessionCall ==
  \/ \E s \in Session : StartShell(s) \/ AbandonStale(s) \/ CleanupWorkspace(s) \/ ExpireToken(s)
  \/ \E s \in Session, dst \in {"ended", "failed"} : EndShell(s, dst)

SessionContinues(c) ==
  /\ calls' = calls
  /\ \/ InsertWorkspace(c)
     \/ InsertSession(c)
     \/ MintSessionToken(c)
     \/ RunShell(c)
     \/ RevokeTokens(c)
     \/ Abandon(c)

SessionsNext ==
  \/ LedgerSteps /\ UNCHANGED <<sessionRows, completionRows>>
  \/ \E s \in Session, m \in Manager, p \in Process, on \in Review \cup {"task"},
        claiming, readonly, fr \in BOOLEAN : Launch(s, m, p, on, claiming, readonly, fr)
  \/ \E c \in pend : ClaimForLaunch(c)
  \/ /\ SessionCall \/ \E c \in pend : SessionContinues(c)
     /\ UNCHANGED <<taskStatus, manager, review, verdicts, ledgerRows, completionRows>>
  \/ \E r \in Review, m \in Manager, dst \in {"completed", "rejected"}, unreg, force \in BOOLEAN :
       CompleteReviewAudited(r, m, dst, unreg, force)
  \/ /\ \/ \E force \in BOOLEAN : CompleteTask(force)
        \/ \E c \in pend, f \in Findings : Audit(c, f)
        \/ \E c \in pend : AnnounceTask(c)
     /\ UNCHANGED <<taskStatus, manager, review, verdicts, ledgerRows, sessionRows>>
  \/ /\ \E c \in pend : Land(c)
     /\ UNCHANGED <<manager, review, verdicts, ledgerRows, sessionRows>>

SessionsSpec == SessionsInit /\ [][SessionsNext]_vars

----------------------------------------------------------------------------
(* Properties.                                                             *)

\* A process admits one primary manager of a task at a time: claim_task and
\* launch_session may let two managers hold it only through two processes
\* whose spans overlapped, whichever way claims, renewals, releases, lapses
\* and launches interleave.
OnePrimaryPerProcess ==
  \A a, b \in Manager :
    Live(a, "primary_manager") /\ Live(b, "primary_manager") /\ a # b =>
      claim[<<a, "primary_manager">>] # claim[<<b, "primary_manager">>]

\* A completion is earned and announced once: a task that succeeded without
\* force was launched in a session and has an attempt on record, and whatever
\* callers race for it, one announcement at most is made, of a task that is and
\* stays completed.
CompletionEvidenced ==
  /\ taskStatus = "succeeded" /\ ~forced =>
       /\ \E s \in Session : session[s].on = "task"
       /\ attemptAt # 0
  /\ completions <= 1
  /\ completions = 1 => taskStatus = "succeeded"

\* A verdict stands: once a review is decided neither its status nor its
\* result changes, whoever answers it next.
VerdictStands ==
  [][\A r \in Review : review[r].status \in TerminalReview => review'[r] = review[r]]_vars

\* Once end_shell has returned, the session's token authorizes nothing any
\* more, even when a sweep had ended the session before it; and no agent's
\* token ever certifies work.
TokenDiesWithShell ==
  \A s \in Session, action \in ActionsByMode("operator") :
    Authorized(token[s], session[s].mode, action) =>
      s \notin shellEnded /\ action # "complete_task"

\* A review is completed once: "What must not happen is completing a review
\* twice" (core/audit.py).
ReviewOnce == \A r \in Review : verdicts[r] <= 1
============================================================================
