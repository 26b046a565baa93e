----------------------------- MODULE LinearSync -----------------------------
(***************************************************************************)
(* The Linear mirror of one task: the push side renders the ledger, writes *)
(* an issue and stores its id as three separate steps of several callers;  *)
(* the webhook side lets comment commands decide parked subtasks or ask    *)
(* for completion.  The ledger is reduced to what the mirror reads: the    *)
(* parked subtasks with the route they wait for (succeeded, failed and     *)
(* cancelled are all "ended"), whether the task succeeded, and whether its  *)
(* effective privacy is secret_sensitive.                                  *)
(***************************************************************************)
EXTENDS Naturals, Sequences, SequencesExt, FiniteSetsExt
CONSTANTS Syncer, Parked, RouteLocation, MaxIssues, MaxParkings
VARIABLES parked, taskDone, secret, issues, ref, job, handler
linearVars == <<parked, taskDone, secret, issues, ref, job, handler>>

IdleJob == [phase |-> "idle"]
NoHandler == [act |-> "none", todo |-> <<>>]
LinearInit ==
  /\ parked \in [Parked -> [st : {"needs_approval"}, loc : RouteLocation, parkings : {1}]]
  /\ taskDone = FALSE /\ secret \in BOOLEAN /\ issues = <<>> /\ ref = 0
  /\ job = [c \in Syncer |-> IdleJob] /\ handler = NoHandler

(***************************************************************************)
(* Push.  sync_task renders what it read, looks the mapping up, creates or *)
(* updates the issue, and stores the mapping.  Any step may raise, and a   *)
(* request Linear has applied may still fail for the caller.               *)
(***************************************************************************)
\* is_withheld: the strictest tier of the task and its subtasks as they now are.  A
\* subtask of the strictest tier raises it for good: no subtask leaves a task (what
\* becomes of that subtask is not followed here).
IsWithheld == secret
RaiseTier ==
  /\ ~secret /\ secret' = TRUE
  /\ UNCHANGED <<parked, taskDone, issues, ref, job, handler>>
IssueBody == [done |-> taskDone, content |-> ~IsWithheld]
Rendered(kind) == [phase |-> "rendered", kind |-> kind, body |-> IssueBody, existing |-> ref]
StartPush(c, kind) ==
  /\ job[c] = IdleJob /\ kind # "completion" \* the completion push is started by its hook
  /\ job' = [job EXCEPT ![c] = Rendered(kind)]
  /\ UNCHANGED <<parked, taskDone, secret, issues, ref, handler>>
NewIssue(body) == [body |-> body, completion |-> FALSE, detail |-> FALSE]
CreateOrUpdate(c) ==
  IF job[c].existing = 0 THEN Append(issues, NewIssue(job[c].body))
  ELSE [issues EXCEPT ![job[c].existing].body = job[c].body]
PushIssue(c, answered) ==
  /\ job[c].phase = "rendered"
  /\ job[c].existing = 0 => Len(issues) < MaxIssues
  /\ issues' = CreateOrUpdate(c)
  /\ job' = [job EXCEPT ![c] = IF ~answered THEN IdleJob ELSE
        [phase |-> "pushed", kind |-> job[c].kind,
         issue |-> IF job[c].existing = 0 THEN Len(issues') ELSE job[c].existing]]
  /\ UNCHANGED <<parked, taskDone, secret, ref, handler>>
\* the comment's text is made before the issue is looked up
Comment(kind, detail) == [phase |-> "commenting", kind |-> kind, detail |-> detail]
SetExternalRef(c) ==
  /\ job[c].phase = "pushed"
  /\ ref' = job[c].issue
  /\ job' = [job EXCEPT ![c] = IF job[c].kind = "sync" THEN IdleJob ELSE Comment(job[c].kind, FALSE)]
  /\ UNCHANGED <<parked, taskDone, secret, issues, handler>>
\* _comment posts on the issue the mapping names when the comment is posted
PostComment(c) ==
  /\ job[c].phase = "commenting"
  /\ issues' = [issues EXCEPT
       ![ref].completion = @ \/ job[c].kind = "completion",
       ![ref].detail = @ \/ job[c].detail]
  /\ job' = [job EXCEPT ![c] = IdleJob]
  /\ UNCHANGED <<parked, taskDone, secret, ref, handler>>
\* decision, artifact, review and subtask comments need an issue and do not sync it
PostDetail(c) ==
  /\ job[c] = IdleJob /\ ref # 0
  /\ job' = [job EXCEPT ![c] = Comment("decision", ~IsWithheld)]
  /\ UNCHANGED <<parked, taskDone, secret, issues, ref, handler>>
PushFails(c) ==
  /\ job[c] # IdleJob /\ job' = [job EXCEPT ![c] = IdleJob]
  /\ UNCHANGED <<parked, taskDone, secret, issues, ref, handler>>

(***************************************************************************)
(* Webhooks.  A delivery names an issue; only the issue the mapping names  *)
(* finds the task.  Deliveries may repeat: nothing remembers them.  A      *)
(* status or an assignee changed on the board leaves an event or an inbox  *)
(* item and nothing the mirror reads.                                      *)
(***************************************************************************)
PendingSubtasks(target) ==
  SetToSeq({s \in Parked : parked[s].st = "needs_approval" /\ (target = "any" \/ parked[s].loc = target)})
HandleComment(i, act, target) ==
  /\ handler = NoHandler /\ i = ref
  /\ handler' = [act |-> act, todo |-> PendingSubtasks(target)]
  /\ UNCHANGED <<parked, taskDone, secret, issues, ref, job>>
\* Slip: a subtask that has ended is approved again.
ApprovedAnyway(s) == parked[s].st # "running"
Approved(s) == parked[s].st = "needs_approval"
\* approve_subtask or deny_subtask; a Conflict ends the handler, the rest undecided
DecideNext ==
  LET s == Head(handler.todo) IN
  /\ handler.todo # <<>>
  /\ IF Approved(s)
     THEN /\ parked' = [parked EXCEPT ![s].st = IF handler.act = "approve" THEN "queued" ELSE "ended"]
          /\ handler' = [handler EXCEPT !.todo = Tail(@)]
     ELSE /\ handler' = NoHandler /\ UNCHANGED parked
  /\ UNCHANGED <<taskDone, secret, issues, ref, job>>
EndComment == /\ handler # NoHandler /\ handler.todo = <<>> /\ handler' = NoHandler
              /\ UNCHANGED <<parked, taskDone, secret, issues, ref, job>>
\* `complete` from Linear or from a manager: audit, ledger, then the mirror's hook
AuditPasses == \A s \in Parked : parked[s].st = "ended"
HookedJob == [phase |-> "hooked", kind |-> "completion"]
CompleteAndMirror(c) ==
  /\ job[c] = IdleJob /\ ~taskDone
  /\ AuditPasses
  /\ taskDone' = TRUE /\ job' = [job EXCEPT ![c] = HookedJob]
  /\ UNCHANGED <<parked, secret, issues, ref, handler>>
OnCompleted(c) == \* post_completion: sync_task, then the comment
  /\ job[c] = HookedJob /\ job' = [job EXCEPT ![c] = Rendered("completion")]
  /\ UNCHANGED <<parked, taskDone, secret, issues, ref, handler>>
(***************************************************************************)
(* The rest of the system: operators and the runner move subtasks.         *)
(***************************************************************************)
LedgerMoves(s) ==
  /\ \/ /\ parked[s].st = "needs_approval"
        /\ \E st \in {"queued", "ended"} : parked' = [parked EXCEPT ![s].st = st]
     \/ parked[s].st = "queued" /\ parked' = [parked EXCEPT ![s].st = "ended"]
     \/ /\ parked[s].st = "queued" /\ parked[s].parkings < MaxParkings
        /\ \E loc \in RouteLocation :
             parked' = [parked EXCEPT ![s] = [st |-> "needs_approval", loc |-> loc, parkings |-> @.parkings + 1]]
  /\ UNCHANGED <<taskDone, secret, issues, ref, job, handler>>

LinearNext ==
  \/ \E c \in Syncer : \/ \E kind \in {"sync", "approval"} : StartPush(c, kind)
                       \/ \E answered \in BOOLEAN : PushIssue(c, answered)
                       \/ SetExternalRef(c) \/ PostComment(c) \/ PostDetail(c) \/ PushFails(c)
                       \/ CompleteAndMirror(c) \/ OnCompleted(c)
  \/ \E i \in DOMAIN issues : 
       \E act \in {"approve", "deny"}, target \in RouteLocation \cup {"any"} : HandleComment(i, act, target)
  \/ DecideNext \/ EndComment
  \/ RaiseTier \/ \E s \in Parked : LedgerMoves(s)
LinearSpec == LinearInit /\ [][LinearNext]_linearVars

(***************************************************************************)
(* Properties.                                                             *)
(***************************************************************************)
\* Linear is never ahead of the ledger: an issue that says "Task completed", or a
\* body that says succeeded, exists only once the ledger succeeded, whoever else
\* was syncing and whatever failed between.
MirrorNeverAhead ==
  \A i \in DOMAIN issues : issues[i].completion \/ issues[i].body.done => taskDone

CarriesText(j) == \/ j.phase = "rendered" /\ j.body.content
                  \/ j.phase = "commenting" /\ j.detail
ShowsText(list, i) == i \in DOMAIN list /\ (list[i].body.content \/ list[i].detail)
\* Once a task is secret_sensitive, its goal, decisions and handoff reach no further
\* issue except by a caller that had read the task before the tier rose: no later
\* caller carries them, and when those callers are done no issue starts to show them.
\* (What an issue showed before the rise stays until a sync rewrites its body; a
\* comment stays.)
NothingNewLeaks ==
  [][secret =>
       /\ \A c \in Syncer : CarriesText(job'[c]) => CarriesText(job[c])
       /\ \A i \in DOMAIN issues' : ShowsText(issues', i) =>
            ShowsText(issues, i) \/ \E c \in Syncer : CarriesText(job[c])]_linearVars

\* A decided subtask is not decided again from Linear: an approve or deny command
\* that was read while the subtask was pending, or that is delivered twice, never
\* revives one that was denied, cancelled or finished meanwhile.
DecisionsStand ==
  [][\A s \in Parked : parked[s].st = "ended"
       => parked'[s].st = parked[s].st]_linearVars

\* What the tracker mirror promises (linear/sync.py, linear/webhooks.py): it is never ahead of the
\* ledger, a raised tier stops what leaves the box, and a command never reopens a decision.
LinearSafe == []MirrorNeverAhead /\ NothingNewLeaks /\ DecisionsStand
=============================================================================
