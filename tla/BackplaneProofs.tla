--------------------------- MODULE BackplaneProofs ---------------------------
(***************************************************************************)
(* The parts around the task ledger: the tracker mirror, the task-state    *)
(* store, the workspaces and the token gate.                               *)
(***************************************************************************)
EXTENDS LinearSync, TaskStateLog, Workspaces, TokenGate, FiniteSetTheorems, TLAPS

----------------------------------------------------------------------------
(* The tracker mirror.                                                     *)

Body == [done : BOOLEAN, content : BOOLEAN]
Issue == [body : Body, completion : BOOLEAN, detail : BOOLEAN]
JobPhase == {"idle", "rendered", "pushed", "commenting", "hooked"}

\* What a body may say: success once there is one.
BodyOK(b, done) == b \in Body /\ (b.done => done)
IssueOK(i, done) == i \in Issue /\ BodyOK(i.body, done) /\ (i.completion => done)
\* A job carries a body that will still be true when it is written, and announces a
\* completion only once there is one.
JobOK(j, done) ==
  /\ j.phase \in JobPhase
  /\ j.phase = "rendered" => BodyOK(j.body, done)
  /\ j.phase # "idle" => (j.kind = "completion" => done)
  /\ j.phase = "hooked" => done

IssuesOK(list, done) ==
  /\ list \in Seq(Issue)
  /\ \A i \in 1..Len(list) : IssueOK(list[i], done)
JobsOK(jobs, done) ==
  DOMAIN jobs = Syncer /\ \A c \in Syncer : JobOK(jobs[c], done)
LinearInv ==
  /\ taskDone \in BOOLEAN /\ secret \in BOOLEAN
  /\ IssuesOK(issues, taskDone) /\ JobsOK(job, taskDone)

\* A job that starts, and one that ends.
LEMMA FreshJobs ==
  ASSUME LinearInv, NEW kind, kind = "completion" => taskDone
  PROVE  /\ JobOK(IdleJob, taskDone)
         /\ JobOK(Rendered(kind), taskDone)
<1>1. PICK b : b = IssueBody
  OBVIOUS
<1>2. BodyOK(b, taskDone)
  BY <1>1 DEF IssueBody, IsWithheld, BodyOK, Body, LinearInv
<1>3. PICK j : j = Rendered(kind)
  OBVIOUS
<1>4. j.phase = "rendered" /\ j.kind = kind /\ j.body = b
  BY <1>1, <1>3 DEF Rendered
<1>5. JobOK(j, taskDone)
  BY <1>2, <1>4 DEF JobOK, JobPhase
<1>6. JobOK(IdleJob, taskDone)
  BY DEF JobOK, IdleJob, JobPhase
<1> QED
  BY <1>3, <1>5, <1>6

\* One job changes.
LEMMA JobSet ==
  ASSUME NEW jobs, NEW done, JobsOK(jobs, done), NEW c \in Syncer,
         NEW j, JobOK(j, done)
  PROVE  JobsOK([jobs EXCEPT ![c] = j], done)
BY DEF JobsOK

\* One issue changes, or one is added.
LEMMA IssueSet ==
  ASSUME NEW list, NEW done, IssuesOK(list, done),
         NEW i, NEW x, i \in 1..Len(list) => IssueOK(x, done)
  PROVE  IssuesOK([list EXCEPT ![i] = x], done)
<1>1. CASE i \in 1..Len(list)
  BY <1>1 DEF IssuesOK, IssueOK
<1>2. CASE i \notin 1..Len(list)
  <2>1. [list EXCEPT ![i] = x] = list
    BY <1>2 DEF IssuesOK
  <2> QED
    BY <2>1
<1> QED
  BY <1>1, <1>2

\* An issue that tells the truth, added to issues that do.
LEMMA IssueAdd ==
  ASSUME NEW list, NEW done, IssuesOK(list, done),
         NEW x, IssueOK(x, done)
  PROVE  IssuesOK(Append(list, x), done)
BY DEF IssuesOK, IssueOK

\* An empty mirror of an open task.
LEMMA LinearInitially == LinearInit => LinearInv
<1> SUFFICES ASSUME LinearInit PROVE LinearInv
  OBVIOUS
<1>1. JobOK(IdleJob, taskDone)
  BY DEF JobOK, IdleJob, JobPhase
<1>2. issues \in Seq(Issue) /\ Len(issues) = 0
  BY DEF LinearInit
<1>3. IssuesOK(issues, taskDone)
  BY <1>2 DEF IssuesOK
<1>4. job = [c \in Syncer |-> IdleJob] /\ taskDone \in BOOLEAN /\ secret \in BOOLEAN
  BY DEF LinearInit
<1>5. JobsOK(job, taskDone)
  BY <1>1, <1>4 DEF JobsOK
<1> QED
  BY <1>3, <1>4, <1>5 DEF LinearInv

\* create_issue or update_issue writes the body of the job.
LEMMA PushIssueStep ==
  ASSUME LinearInv, NEW c \in Syncer, NEW answered \in BOOLEAN, PushIssue(c, answered)
  PROVE  LinearInv'
<1>1. /\ job[c].phase = "rendered" /\ JobOK(job[c], taskDone)
      /\ taskDone' = taskDone /\ secret' = secret /\ issues' = CreateOrUpdate(c)
  BY DEF PushIssue, LinearInv, JobsOK
<1>2. PICK b : b = job[c].body
  OBVIOUS
<1>3. BodyOK(b, taskDone)
  BY <1>1, <1>2 DEF JobOK
<1>4. IssuesOK(issues', taskDone)
  <2>1. CASE job[c].existing = 0
    <3>1. PICK x : x = NewIssue(b)
      OBVIOUS
    <3>2. IssueOK(x, taskDone)
      BY <1>3, <3>1 DEF NewIssue, IssueOK, Issue, BodyOK
    <3> QED
      BY <1>1, <1>2, <2>1, <3>1, <3>2, IssueAdd DEF CreateOrUpdate, LinearInv
  <2>2. CASE job[c].existing # 0
    <3>1. PICK e : e = job[c].existing
      OBVIOUS
    <3>2. PICK x : x = [issues[e] EXCEPT !.body = b]
      OBVIOUS
    <3>3. issues' = [issues EXCEPT ![e] = x]
      BY <1>1, <1>2, <2>2, <3>1, <3>2 DEF CreateOrUpdate
    <3>4. ASSUME e \in 1..Len(issues) PROVE IssueOK(x, taskDone)
      <4>1. IssueOK(issues[e], taskDone)
        BY <3>4 DEF LinearInv, IssuesOK
      <4> QED
        BY <1>3, <3>2, <4>1 DEF IssueOK, Issue, BodyOK
    <3> QED
      BY <3>3, <3>4, IssueSet DEF LinearInv
  <2> QED
    BY <2>1, <2>2
<1>5. PICK n : job' = [job EXCEPT ![c] = IF ~answered THEN IdleJob ELSE
                         [phase |-> "pushed", kind |-> job[c].kind, issue |-> n]]
  BY DEF PushIssue
<1>6. PICK j : j = [phase |-> "pushed", kind |-> job[c].kind, issue |-> n]
  OBVIOUS
<1>7. JobOK(j, taskDone)
  BY <1>1, <1>6 DEF JobOK, JobPhase
<1>8. JobOK(IdleJob, taskDone)
  BY DEF JobOK, IdleJob, JobPhase
<1>9. JobsOK(job', taskDone)
  BY <1>5, <1>6, <1>7, <1>8, JobSet DEF LinearInv
<1> QED
  BY <1>1, <1>4, <1>9 DEF LinearInv

\* The comment goes to the issue the mapping names, with the text of its job.
LEMMA PostCommentStep ==
  ASSUME LinearInv, NEW c \in Syncer, PostComment(c)
  PROVE  LinearInv'
<1>1. /\ job[c].phase = "commenting" /\ JobOK(job[c], taskDone)
      /\ taskDone' = taskDone /\ secret' = secret /\ job' = [job EXCEPT ![c] = IdleJob]
  BY DEF PostComment, LinearInv, JobsOK
<1>2. PICK x : x = [issues[ref] EXCEPT !.completion = issues[ref].completion \/ job[c].kind = "completion",
                                       !.detail = issues[ref].detail \/ job[c].detail]
  OBVIOUS
<1>3. issues' = [issues EXCEPT ![ref] = x]
  BY <1>2 DEF PostComment
<1>4. ASSUME ref \in 1..Len(issues) PROVE IssueOK(x, taskDone)
  <2>1. IssueOK(issues[ref], taskDone)
    BY <1>4 DEF LinearInv, IssuesOK
  <2>2. /\ DOMAIN issues[ref] = {"body", "completion", "detail"} 
        /\ x.body = issues[ref].body /\ x.completion = (issues[ref].completion \/ job[c].kind = "completion")
        /\ x.detail = (issues[ref].detail \/ job[c].detail)
    BY <1>2, <2>1 DEF IssueOK, Issue
  <2>3. x \in Issue
    BY <1>2, <2>1, <2>2 DEF IssueOK, Issue
  <2> QED
    BY <1>1, <2>1, <2>2, <2>3 DEF IssueOK, JobOK
<1>5. IssuesOK(issues', taskDone)
  BY <1>3, <1>4, IssueSet DEF LinearInv
<1>6. JobsOK(job', taskDone)
  BY <1>1, JobSet, FreshJobs DEF LinearInv
<1> QED
  BY <1>1, <1>5, <1>6 DEF LinearInv

\* One job changes, and nothing the mirror shows.
LEMMA JobStep ==
  ASSUME LinearInv, NEW c \in Syncer, NEW j, JobOK(j, taskDone),
         job' = [job EXCEPT ![c] = j], UNCHANGED <<taskDone, secret, issues>>
  PROVE  LinearInv'
<1>1. JobsOK(job', taskDone)
  BY JobSet DEF LinearInv
<1> QED
  BY <1>1 DEF LinearInv

\* The steps of a job that write no issue.
LEMMA QuietJobStep ==
  ASSUME LinearInv, NEW c \in Syncer
  PROVE  /\ \A kind \in {"sync", "approval"} : StartPush(c, kind) => LinearInv'
         /\ SetExternalRef(c) \/ PostDetail(c) \/ PushFails(c) \/ OnCompleted(c) => LinearInv'
<1>0. JobOK(job[c], taskDone) /\ JobOK(IdleJob, taskDone)
  BY FreshJobs DEF LinearInv, JobsOK
<1>1. ASSUME NEW kind \in {"sync", "approval"}, StartPush(c, kind) PROVE LinearInv'
  BY <1>1, FreshJobs, JobStep DEF StartPush
<1>2. ASSUME SetExternalRef(c) PROVE LinearInv'
  <2>1. PICK j : j = Comment(job[c].kind, FALSE)
    OBVIOUS
  <2>2. JobOK(j, taskDone)
    BY <1>0, <1>2, <2>1 DEF SetExternalRef, Comment, JobOK, JobPhase
  <2>3. /\ job' = [job EXCEPT ![c] = IdleJob] \/ job' = [job EXCEPT ![c] = j]
        /\ UNCHANGED <<taskDone, secret, issues>>
    BY <1>2, <2>1 DEF SetExternalRef
  <2> QED
    BY <1>0, <2>2, <2>3, JobStep
<1>3. ASSUME PostDetail(c) PROVE LinearInv'
  <2>1. PICK j : j = Comment("decision", ~IsWithheld)
    OBVIOUS
  <2>2. JobOK(j, taskDone)
    BY <2>1 DEF Comment, JobOK, JobPhase
  <2> QED
    BY <1>3, <2>1, <2>2, JobStep DEF PostDetail
<1>4. ASSUME PushFails(c) PROVE LinearInv'
  BY <1>0, <1>4, JobStep DEF PushFails
<1>5. ASSUME OnCompleted(c) PROVE LinearInv'
  <2>1. HookedJob.phase = "hooked" /\ job[c] = HookedJob
    BY <1>5 DEF OnCompleted, HookedJob
  <2>2. taskDone
    BY <1>0, <2>1 DEF JobOK
  <2> QED
    BY <1>5, <2>2, FreshJobs, JobStep DEF OnCompleted
<1> QED
  BY <1>1, <1>2, <1>3, <1>4, <1>5

\* What was true of an open task is true of a completed one.
LEMMA CompleteStep ==
  ASSUME LinearInv, NEW c \in Syncer, CompleteAndMirror(c)
  PROVE  LinearInv'
<1>1. /\ taskDone' = TRUE /\ secret' = secret /\ issues' = issues
      /\ job' = [job EXCEPT ![c] = HookedJob]
  BY DEF CompleteAndMirror
<1>2. IssuesOK(issues, TRUE)
  BY DEF LinearInv, IssuesOK, IssueOK, BodyOK
<1>3. JobsOK(job, TRUE)
  BY DEF LinearInv, JobsOK, JobOK, BodyOK
<1>4. JobOK(HookedJob, TRUE)
  BY DEF JobOK, HookedJob, JobPhase
<1>5. JobsOK(job', TRUE)
  BY <1>1, <1>3, <1>4, JobSet
<1>6. secret \in BOOLEAN
  BY DEF LinearInv
<1> QED
  BY <1>1, <1>2, <1>5, <1>6 DEF LinearInv

\* Every step of the mirror, its commands and the ledger keeps the invariant.
LEMMA LinearStep == ASSUME LinearInv, [LinearNext]_linearVars PROVE LinearInv'
<1>1. ASSUME NEW c \in Syncer,
             \/ \E kind \in {"sync", "approval"} : StartPush(c, kind)
             \/ \E answered \in BOOLEAN : PushIssue(c, answered)
             \/ SetExternalRef(c) \/ PostComment(c) \/ PostDetail(c) \/ PushFails(c)
             \/ CompleteAndMirror(c) \/ OnCompleted(c)
      PROVE  LinearInv'
  BY <1>1, PushIssueStep, PostCommentStep, QuietJobStep, CompleteStep
<1>2. ASSUME UNCHANGED <<taskDone, secret, issues, job>> PROVE LinearInv'
  BY <1>2 DEF LinearInv
<1>3. ASSUME NEW i, NEW act, NEW target, HandleComment(i, act, target)
      PROVE  UNCHANGED <<taskDone, secret, issues, job>>
  BY <1>3 DEF HandleComment
<1>4. ASSUME \/ DecideNext \/ EndComment \/ (\E s \in Parked : LedgerMoves(s)) \/ UNCHANGED linearVars
      PROVE  UNCHANGED <<taskDone, secret, issues, job>>
  BY <1>4 DEF DecideNext, EndComment, LedgerMoves, linearVars
<1>5. ASSUME RaiseTier PROVE LinearInv'
  BY <1>5 DEF RaiseTier, LinearInv
<1> QED
  BY <1>1, <1>2, <1>3, <1>4, <1>5 DEF LinearNext

\* What a step may do with the text of a task whose tier has risen.
Contained ==
  /\ \A c \in Syncer : CarriesText(job'[c]) => CarriesText(job[c])
  /\ \A i \in DOMAIN issues' : ShowsText(issues', i) =>
       ShowsText(issues, i) \/ \E c \in Syncer : CarriesText(job[c])

\* A job that starts after the rise carries no text; the others write what they carry.
LEMMA TextContained ==
  ASSUME LinearInv, [LinearNext]_linearVars, secret
  PROVE  Contained
<1>1. DOMAIN job = Syncer /\ issues \in Seq(Issue)
  BY DEF LinearInv, JobsOK, IssuesOK
<1>2. ~CarriesText(IdleJob) /\ ~CarriesText(HookedJob)
  BY DEF CarriesText, IdleJob, HookedJob
<1>3. ASSUME NEW kind PROVE ~CarriesText(Rendered(kind))
  BY DEF CarriesText, Rendered, IssueBody, IsWithheld
<1>4. ASSUME NEW kind PROVE ~CarriesText(Comment(kind, FALSE))
  BY DEF CarriesText, Comment
<1>5. ASSUME NEW c \in Syncer, NEW j, ~CarriesText(j), job' = [job EXCEPT ![c] = j]
      PROVE  \A d \in Syncer : CarriesText(job'[d]) => CarriesText(job[d])
  <2>1. \A d \in Syncer : job'[d] = IF d = c THEN j ELSE job[d]
    BY <1>1, <1>5
  <2> QED
    BY <1>5, <2>1
<1>6. ASSUME issues' = issues, \A d \in Syncer : CarriesText(job'[d]) => CarriesText(job[d])
      PROVE  Contained
  BY <1>6 DEF Contained, ShowsText
<1>7. ASSUME NEW c \in Syncer, NEW kind, StartPush(c, kind) PROVE Contained
  BY <1>3, <1>5, <1>6, <1>7 DEF StartPush
<1>8. ASSUME NEW c \in Syncer, OnCompleted(c) \/ CompleteAndMirror(c) \/ PushFails(c) PROVE Contained
  BY <1>2, <1>3, <1>5, <1>6, <1>8 DEF OnCompleted, CompleteAndMirror, PushFails
<1>9. ASSUME NEW c \in Syncer, SetExternalRef(c) PROVE Contained
  <2>1. \E j : job' = [job EXCEPT ![c] = j] /\ ~CarriesText(j)
    BY <1>2, <1>4, <1>9 DEF SetExternalRef
  <2> QED
    BY <1>5, <1>6, <1>9, <2>1 DEF SetExternalRef
<1>10. ASSUME NEW c \in Syncer, PostDetail(c) PROVE Contained
  <2>1. ~CarriesText(Comment("decision", ~IsWithheld))
    BY DEF CarriesText, Comment, IsWithheld
  <2> QED
    BY <1>5, <1>6, <1>10, <2>1 DEF PostDetail
<1>11. ASSUME NEW c \in Syncer, PostComment(c) PROVE Contained
  <2>1. CASE CarriesText(job[c])
    BY <1>2, <1>5, <1>11, <2>1 DEF PostComment, Contained
  <2>2. CASE ~CarriesText(job[c])
    <3>1. ~job[c].detail
      BY <1>11, <2>2 DEF PostComment, CarriesText
    <3>2. ASSUME NEW i \in DOMAIN issues', ShowsText(issues', i) PROVE ShowsText(issues, i)
      <4>1. i \in DOMAIN issues /\ issues[i] \in Issue
        BY <1>1, <1>11, <3>2 DEF PostComment
      <4>2. PICK x : x = [issues[i] EXCEPT !.completion = issues[i].completion \/ job[c].kind = "completion",
                                           !.detail = issues[i].detail \/ job[c].detail]
        OBVIOUS
      <4>3. issues'[i] = IF i = ref THEN x ELSE issues[i]
        BY <1>1, <1>11, <4>1, <4>2 DEF PostComment
      <4>4. x.body = issues[i].body /\ x.detail = (issues[i].detail \/ job[c].detail)
        BY <4>1, <4>2 DEF Issue
      <4> QED
        BY <3>1, <3>2, <4>1, <4>3, <4>4 DEF ShowsText
    <3> QED
      BY <1>2, <1>5, <1>11, <3>2 DEF PostComment, Contained
  <2> QED
    BY <2>1, <2>2
<1>12. ASSUME NEW c \in Syncer, NEW answered \in BOOLEAN, PushIssue(c, answered) PROVE Contained
  <2>1. \E j : job' = [job EXCEPT ![c] = j] /\ ~CarriesText(j)
    <3>1. PICK n : job' = [job EXCEPT ![c] = IF ~answered THEN IdleJob ELSE
                             [phase |-> "pushed", kind |-> job[c].kind, issue |-> n]]
      BY <1>12 DEF PushIssue
    <3>2. ~CarriesText([phase |-> "pushed", kind |-> job[c].kind, issue |-> n])
      BY DEF CarriesText
    <3> QED
      BY <1>2, <3>1, <3>2
  <2>2. CASE CarriesText(job[c])
    BY <1>5, <2>1, <2>2 DEF Contained
  <2>3. CASE ~CarriesText(job[c])
    <3>1. PICK b : b = job[c].body
      OBVIOUS
    <3>2. ~b.content
      BY <1>12, <2>3, <3>1 DEF PushIssue, CarriesText
    <3>3. ASSUME NEW i \in DOMAIN issues', ShowsText(issues', i) PROVE ShowsText(issues, i)
      <4>1. CASE job[c].existing = 0
        <5>1. issues' = Append(issues, NewIssue(b))
          BY <1>12, <3>1, <4>1 DEF PushIssue, CreateOrUpdate
        <5>2. CASE i \in DOMAIN issues
          BY <1>1, <3>3, <5>1, <5>2 DEF ShowsText
        <5>3. CASE i \notin DOMAIN issues
          <6>1. issues'[i] = NewIssue(b)
            <7>1. PICK x : x = NewIssue(b)
              OBVIOUS
            <7> QED
              BY <1>1, <3>3, <5>1, <5>3, <7>1
          <6> QED
            BY <3>2, <3>3, <6>1 DEF ShowsText, NewIssue
        <5> QED
          BY <5>2, <5>3
      <4>2. CASE job[c].existing # 0
        <5>1. i \in DOMAIN issues /\ issues[i] \in Issue
          BY <1>1, <1>12, <3>3, <4>2 DEF PushIssue, CreateOrUpdate
        <5>2. PICK x : x = [issues[i] EXCEPT !.body = b]
          OBVIOUS
        <5>3. issues'[i] = IF i = job[c].existing THEN x ELSE issues[i]
          BY <1>1, <1>12, <3>1, <4>2, <5>1, <5>2 DEF PushIssue, CreateOrUpdate
        <5>4. x.body = b /\ x.detail = issues[i].detail
          BY <5>1, <5>2 DEF Issue
        <5> QED
          BY <3>2, <3>3, <5>1, <5>3, <5>4 DEF ShowsText
      <4> QED
        BY <4>1, <4>2
    <3> QED
      BY <1>5, <2>1, <3>3 DEF Contained
  <2> QED
    BY <2>2, <2>3
<1>13. ASSUME UNCHANGED <<issues, job>> PROVE Contained
  BY <1>6, <1>13
<1>14. ASSUME NEW i, NEW act, NEW target, HandleComment(i, act, target) PROVE UNCHANGED <<issues, job>>
  BY <1>14 DEF HandleComment
<1>15. ASSUME \/ DecideNext \/ EndComment \/ RaiseTier \/ (\E s \in Parked : LedgerMoves(s))
              \/ UNCHANGED linearVars
       PROVE  UNCHANGED <<issues, job>>
  BY <1>15 DEF DecideNext, EndComment, RaiseTier, LedgerMoves, linearVars
<1> QED
  BY <1>7, <1>8, <1>9, <1>10, <1>11, <1>12, <1>13, <1>14, <1>15 DEF LinearNext

\* The parked subtasks and their standing.
ParkedInv == DOMAIN parked = Parked /\ \A s \in Parked : DOMAIN parked[s] = {"st", "loc", "parkings"}

\* A subtask that has ended stays so, and a row keeps its columns.
LEMMA ParkedStep ==
  ASSUME ParkedInv, [LinearNext]_linearVars
  PROVE  ParkedInv' /\ \A s \in Parked : parked[s].st = "ended" => parked'[s].st = parked[s].st
<1> DEFINE Goal == ParkedInv' /\ \A s \in Parked : parked[s].st = "ended" => parked'[s].st = parked[s].st
<1>1. ASSUME NEW s, NEW new, parked' = [parked EXCEPT ![s].st = new],
             s \in Parked => parked[s].st # "ended"
      PROVE  Goal
  BY <1>1 DEF ParkedInv
<1>2. ASSUME NEW s \in Parked, NEW r, DOMAIN r = {"st", "loc", "parkings"},
             parked' = [parked EXCEPT ![s] = r], parked[s].st # "ended"
      PROVE  Goal
  BY <1>2 DEF ParkedInv
<1>3. ASSUME parked' = parked PROVE Goal
  BY <1>3 DEF ParkedInv
<1>4. ASSUME DecideNext PROVE Goal
  <2>1. PICK s : s = Head(handler.todo)
    OBVIOUS
  <2>2. PICK new : new = IF handler.act = "approve" THEN "queued" ELSE "ended"
    OBVIOUS
  <2>3. (parked' = [parked EXCEPT ![s].st = new] /\ parked[s].st = "needs_approval") \/ parked' = parked
    BY <1>4, <2>1, <2>2 DEF DecideNext, Approved
  <2> QED
    BY <1>1, <1>3, <2>3
<1>5. ASSUME NEW s \in Parked, LedgerMoves(s) PROVE Goal
  <2>1. CASE parked[s].st = "needs_approval" /\ \E st \in {"queued", "ended"} : parked' = [parked EXCEPT ![s].st = st]
    BY <1>1, <2>1
  <2>2. CASE parked[s].st = "queued" /\ parked' = [parked EXCEPT ![s].st = "ended"]
    BY <1>1, <2>2
  <2>3. CASE parked[s].st = "queued" /\ \E loc \in RouteLocation :
             parked' = [parked EXCEPT ![s] = [st |-> "needs_approval", loc |-> loc, parkings |-> parked[s].parkings + 1]]
    <3>1. PICK loc \in RouteLocation :
             parked' = [parked EXCEPT ![s] = [st |-> "needs_approval", loc |-> loc, parkings |-> parked[s].parkings + 1]]
      BY <2>3
    <3>2. PICK r : r = [st |-> "needs_approval", loc |-> loc, parkings |-> parked[s].parkings + 1]
      OBVIOUS
    <3>3. DOMAIN r = {"st", "loc", "parkings"}
      BY <3>2
    <3> QED
      BY <1>2, <2>3, <3>1, <3>2, <3>3
  <2> QED
    BY <1>5, <2>1, <2>2, <2>3 DEF LedgerMoves
<1>6. ASSUME NEW i, NEW act, NEW target, HandleComment(i, act, target) PROVE parked' = parked
  BY <1>6 DEF HandleComment
<1>7. ASSUME NEW c \in Syncer, NEW kind, StartPush(c, kind) PROVE parked' = parked
  BY <1>7 DEF StartPush
<1>8. ASSUME NEW c \in Syncer, NEW answered, PushIssue(c, answered) PROVE parked' = parked
  BY <1>8 DEF PushIssue
<1>9. ASSUME NEW c \in Syncer,
             \/ SetExternalRef(c) \/ PostComment(c) \/ PostDetail(c) \/ PushFails(c)
             \/ CompleteAndMirror(c) \/ OnCompleted(c)
      PROVE  parked' = parked
  BY <1>9 DEF SetExternalRef, PostComment, PostDetail, PushFails, CompleteAndMirror, OnCompleted
<1>10. ASSUME EndComment \/ RaiseTier \/ UNCHANGED linearVars PROVE parked' = parked
  BY <1>10 DEF EndComment, RaiseTier, linearVars
<1> HIDE DEF Goal
<1>11. Goal
  BY <1>3, <1>4, <1>5, <1>6, <1>7, <1>8, <1>9, <1>10 DEF LinearNext
<1> QED
  BY <1>11 DEF Goal

\* Whoever syncs, whatever fails and however often a command is delivered, no issue
\* is ahead of the ledger, no decision is reopened, and a task whose tier has risen is
\* shown to Linear only by callers that had read it before.
THEOREM LinearStaysSafe == LinearSpec => LinearSafe
<1>1. LinearInit => ParkedInv
  BY DEF LinearInit, ParkedInv
<1>2. ParkedInv /\ [LinearNext]_linearVars => ParkedInv'
  BY ParkedStep
<1>3. ParkedInv /\ [LinearNext]_linearVars =>
        [\A s \in Parked : parked[s].st = "ended" => parked'[s].st = parked[s].st]_linearVars
  BY ParkedStep
<1>4. LinearInv => MirrorNeverAhead
  BY DEF LinearInv, IssuesOK, IssueOK, BodyOK, MirrorNeverAhead
<1>5. LinearSpec => []LinearInv
  BY LinearInitially, LinearStep, PTL DEF LinearSpec
<1>6. LinearSpec => DecisionsStand
  BY <1>1, <1>2, <1>3, PTL DEF LinearSpec, DecisionsStand
<1>7. LinearInv /\ [LinearNext]_linearVars => [secret => Contained]_linearVars
  BY TextContained
<1>8. LinearSpec => NothingNewLeaks
  BY <1>5, <1>7, PTL DEF LinearSpec, NothingNewLeaks, Contained
<1> QED
  BY <1>4, <1>5, <1>6, <1>8, PTL DEF LinearSafe

----------------------------------------------------------------------------
(* The task-state store.                                                   *)

TaskStates == {"DISPATCHED", "RUNNING", "FAILED", "CANCELLED"}
LogEntry == [of : {"task", "ticket"}, src : TaskStates \cup Nat, dst : TaskStates \cup Nat,
             outcome : {"applied", "refused"}]

\* A row that tells of another subject, or of a refusal, leaves a chain as it is.
LEMMA ChainSkips ==
  ASSUME NEW S, NEW list \in Seq(S), NEW r \in S, NEW of, NEW first, NEW last, Chain(list, of, first, last),
         ~(r.of = of /\ r.outcome = "applied")
  PROVE  /\ Applied(Append(list, r), of) = Applied(list, of)
         /\ Chain(Append(list, r), of, first, last)
<1>1. PICK new : new = Append(list, r)
  OBVIOUS
<1>2. /\ DOMAIN new = 1..(Len(list) + 1) /\ DOMAIN list = 1..Len(list) /\ Len(list) \in Nat
      /\ new[Len(list) + 1] = r /\ \A i \in 1..Len(list) : new[i] = list[i]
  BY <1>1
<1>3. Applied(new, of) = Applied(list, of)
  BY <1>2 DEF Applied
<1>4. \A i \in Applied(list, of) : new[i] = list[i]
  BY <1>2 DEF Applied
<1>5. Chain(new, of, first, last)
  BY <1>3, <1>4 DEF Chain
<1> QED
  BY <1>1, <1>3, <1>5

\* A row that starts where the chain ends prolongs it.
LEMMA ChainGrows ==
  ASSUME NEW S, NEW list \in Seq(S), NEW r \in S, NEW of, NEW first, NEW last, Chain(list, of, first, last),
         r.of = of, r.outcome = "applied", r.src = last
  PROVE  /\ Applied(Append(list, r), of) = Applied(list, of) \cup {Len(list) + 1}
         /\ Chain(Append(list, r), of, first, r.dst)
<1>1. PICK new : new = Append(list, r)
  OBVIOUS
<1>2. PICK n : n = Len(list) + 1
  OBVIOUS
<1>3. /\ DOMAIN new = 1..n /\ DOMAIN list = 1..Len(list) /\ Len(list) \in Nat
      /\ new[n] = r /\ \A i \in 1..Len(list) : new[i] = list[i]
  BY <1>1, <1>2
<1>4. PICK at : at = Applied(list, of)
  OBVIOUS
<1>5. /\ Applied(new, of) = at \cup {n}
      /\ \A i \in at : new[i] = list[i] /\ i < n /\ i \in Nat /\ n > i /\ ~(i >= n)
      /\ n \in Nat
  BY <1>2, <1>3, <1>4 DEF Applied
<1>6. /\ at = {} => last = first
      /\ \A i \in at : (\A j \in at : j >= i) => list[i].src = first
      /\ \A i \in at : (\A j \in at : j <= i) => list[i].dst = last
      /\ \A i, j \in at : i < j /\ (\A k \in at : k <= i \/ k >= j) => list[j].src = list[i].dst
  BY <1>4 DEF Chain
<1> DEFINE all == at \cup {n}
<1>7. all = {} => r.dst = first
  OBVIOUS
<1>8. ASSUME NEW i \in all, \A j \in all : j >= i PROVE new[i].src = first
  <2>1. CASE i \in at
    BY <1>5, <1>6, <1>8, <2>1
  <2>2. CASE i = n
    <3>1. at = {}
      BY <1>5, <1>8, <2>2
    <3> QED
      BY <1>3, <1>6, <2>2, <3>1
  <2> QED
    BY <2>1, <2>2
<1>9. ASSUME NEW i \in all, \A j \in all : j <= i PROVE new[i].dst = r.dst
  <2>1. i = n
    BY <1>5, <1>9
  <2> QED
    BY <1>3, <2>1
<1>10. ASSUME NEW i \in all, NEW j \in all, i < j, \A k \in all : k <= i \/ k >= j
       PROVE  new[j].src = new[i].dst
  <2>1. CASE j \in at
    <3>1. i \in at
      BY <1>5, <1>10, <2>1
    <3>2. \A k \in at : k <= i \/ k >= j
      BY <1>10
    <3> QED
      BY <1>5, <1>6, <1>10, <2>1, <3>1, <3>2
  <2>2. CASE j = n
    <3>1. i \in at
      BY <1>5, <1>10, <2>2
    <3>2. \A k \in at : k <= i
      BY <1>5, <1>10, <2>2
    <3>3. list[i].dst = last
      BY <1>6, <3>1, <3>2
    <3> QED
      BY <1>3, <1>5, <2>2, <3>1, <3>3
  <2> QED
    BY <2>1, <2>2
<1>11. Chain(new, of, first, r.dst)
  <2>1. Applied(new, of) = all
    BY <1>5
  <2> HIDE DEF all
  <2> QED
    BY <1>7, <1>8, <1>9, <1>10, <2>1 DEF Chain
<1> QED
  BY <1>1, <1>2, <1>4, <1>5, <1>11

Rank == [DISPATCHED |-> 0, RUNNING |-> 1, FAILED |-> 2, CANCELLED |-> 2]
\* A step of the task only goes up.
LEMMA EdgesRise ==
  /\ \A a \in TaskStates : Rank[a] \in Nat /\ Edges[a] \subseteq TaskStates
  /\ \A a \in TaskStates : \A b \in Edges[a] : Rank[a] < Rank[b]
BY DEF Edges, Rank, TaskStates

\* What the log says of the task: legal steps, each from a state that lies behind.
Told(r, now) == r.src \in TaskStates /\ r.dst \in Edges[r.src] /\ Rank[r.src] < Rank[now]
LogOK(list, now, n) ==
  /\ list \in Seq(LogEntry) /\ now \in TaskStates /\ n \in Nat
  /\ Chain(list, "task", "DISPATCHED", now) /\ Chain(list, "ticket", 0, n)
  /\ \A i \in Applied(list, "task") : Told(list[i], now)
\* A row that tells of the task is in the list.
Tells(list, r) == \E i \in Applied(list, "task") : list[i] = r
\* The mirror has rows of the log only, each once.
BusOK(mirror, list) ==
  /\ mirror \in Seq(LogEntry)
  /\ \A i \in Applied(mirror, "task") : Tells(list, mirror[i])
  /\ \A i, j \in Applied(mirror, "task") : mirror[i] = mirror[j] => i = j
\* A process between its commit and its mirror owes a row that the log has and the
\* mirror has not, and that nobody else owes.
OwedBy(x) == LogRow("task", x.read, x.dst, "applied")
Owes(x) == x.phase = "mirror"
DebtOK(users, mirror, list) ==
  /\ \A u \in StoreUser : Owes(users[u]) => Tells(list, OwedBy(users[u])) /\ ~Tells(mirror, OwedBy(users[u]))
  /\ \A u, v \in StoreUser : Owes(users[u]) /\ Owes(users[v]) /\ OwedBy(users[u]) = OwedBy(users[v]) => u = v
UserOK(x) ==
  /\ DOMAIN x = {"phase", "dst", "read", "attempts"}
  /\ x.phase \in {"read", "decided", "mirror"} => x.dst \in TaskStates
  /\ x.phase \in {"decided", "mirror"} => x.read \in TaskStates
UsersOK(users) == DOMAIN users = StoreUser /\ \A u \in StoreUser : UserOK(users[u])
StoreInv ==
  /\ LogOK(logs, taskState, ticket) /\ BusOK(bus, logs) /\ DebtOK(user, bus, logs) /\ UsersOK(user)

\* What appending does to the rows that tell of the task.
LEMMA TellsAppend ==
  ASSUME NEW list \in Seq(LogEntry), NEW r \in LogEntry, NEW x
  PROVE  /\ ~(r.of = "task" /\ r.outcome = "applied") => (Tells(Append(list, r), x) <=> Tells(list, x))
         /\ r.of = "task" /\ r.outcome = "applied" => (Tells(Append(list, r), x) <=> Tells(list, x) \/ x = r)
<1>1. PICK new : new = Append(list, r)
  OBVIOUS
<1>2. PICK n : n = Len(list) + 1
  OBVIOUS
<1>3. /\ DOMAIN new = 1..n /\ DOMAIN list = 1..Len(list) /\ Len(list) \in Nat
      /\ new[n] = r /\ \A i \in 1..Len(list) : new[i] = list[i]
  BY <1>1, <1>2
<1>4. \A i \in Applied(list, "task") : i \in Applied(new, "task") /\ new[i] = list[i]
  BY <1>2, <1>3 DEF Applied
<1>5. ASSUME NEW i \in Applied(new, "task")
      PROVE  \/ i \in Applied(list, "task") /\ new[i] = list[i]
             \/ i = n /\ new[i] = r /\ r.of = "task" /\ r.outcome = "applied"
  BY <1>2, <1>3 DEF Applied
<1>6. r.of = "task" /\ r.outcome = "applied" => n \in Applied(new, "task") /\ new[n] = r
  BY <1>2, <1>3 DEF Applied
<1> QED
  BY <1>1, <1>4, <1>5, <1>6 DEF Tells

\* The log after a row of another kind, after a step of the task, and of the ticket.
LEMMA LogGrows ==
  ASSUME NEW list, NEW now, NEW n, LogOK(list, now, n), NEW r \in LogEntry
  PROVE  /\ r.outcome # "applied" => LogOK(Append(list, r), now, n)
         /\ r.of = "ticket" /\ r.outcome = "applied" /\ r.src = n /\ r.dst = n + 1
              => LogOK(Append(list, r), now, n + 1)
         /\ r.of = "task" /\ r.outcome = "applied" /\ r.src = now /\ r.dst \in Edges[now]
              => LogOK(Append(list, r), r.dst, n)
<1>0. /\ list \in Seq(LogEntry) /\ Chain(list, "task", "DISPATCHED", now) /\ Chain(list, "ticket", 0, n)
      /\ Append(list, r) \in Seq(LogEntry) /\ now \in TaskStates /\ n \in Nat
  BY DEF LogOK
<1>1. PICK new : new = Append(list, r)
  OBVIOUS
<1>2. \A i \in DOMAIN list : new[i] = list[i]
  BY <1>0, <1>1
<1>3. \A i \in Applied(list, "task") : new[i] = list[i] /\ Told(new[i], now)
  BY <1>2 DEF LogOK, Applied
<1>4. CASE r.outcome # "applied"
  <2>1. /\ Chain(new, "task", "DISPATCHED", now) /\ Chain(new, "ticket", 0, n)
        /\ Applied(new, "task") = Applied(list, "task")
    BY <1>0, <1>1, <1>4, ChainSkips
  <2>2. LogOK(new, now, n)
    BY <1>0, <1>1, <1>3, <2>1 DEF LogOK
  <2> QED
    BY <1>1, <1>4, <2>2
<1>5. CASE r.of = "ticket" /\ r.outcome = "applied" /\ r.src = n /\ r.dst = n + 1
  <2>1. /\ Chain(new, "task", "DISPATCHED", now) /\ Applied(new, "task") = Applied(list, "task")
    BY <1>0, <1>1, <1>5, ChainSkips
  <2>2. Chain(new, "ticket", 0, n + 1)
    BY <1>0, <1>1, <1>5, ChainGrows
  <2>3. n + 1 \in Nat
    BY <1>0
  <2>4. LogOK(new, now, n + 1)
    BY <1>0, <1>1, <1>3, <2>1, <2>2, <2>3 DEF LogOK
  <2> QED
    BY <1>1, <1>5, <2>4
<1>6. CASE r.of = "task" /\ r.outcome = "applied" /\ r.src = now /\ r.dst \in Edges[now]
  <2>1. Chain(new, "ticket", 0, n)
    BY <1>0, <1>1, <1>6, ChainSkips
  <2>2. /\ Chain(new, "task", "DISPATCHED", r.dst)
        /\ Applied(new, "task") = Applied(list, "task") \cup {Len(list) + 1}
    BY <1>0, <1>1, <1>6, ChainGrows
  <2>3. new[Len(list) + 1] = r
    BY <1>0, <1>1
  <2>4. r.dst \in TaskStates /\ Rank[now] < Rank[r.dst] /\ Rank[now] \in Nat /\ Rank[r.dst] \in Nat
    BY <1>0, <1>6, EdgesRise
  <2>5. Told(new[Len(list) + 1], r.dst)
    BY <1>0, <1>6, <2>3, <2>4 DEF Told
  <2>6. ASSUME NEW i \in Applied(list, "task") PROVE Told(new[i], r.dst)
    <3>1. Told(new[i], now)
      BY <1>3
    <3>2. Rank[new[i].src] \in Nat
      BY <3>1, EdgesRise DEF Told
    <3> QED
      BY <2>4, <3>1, <3>2 DEF Told
  <2>7. LogOK(new, r.dst, n)
    BY <1>0, <1>1, <2>1, <2>2, <2>4, <2>5, <2>6 DEF LogOK
  <2> QED
    BY <1>1, <1>6, <2>7
<1> QED
  BY <1>4, <1>5, <1>6

\* The mirror follows a log that grows, and takes rows of the ticket and rows of the
\* task that it has not and the log has.
LEMMA BusFollows ==
  ASSUME NEW mirror, NEW list \in Seq(LogEntry), BusOK(mirror, list), NEW r \in LogEntry
  PROVE  /\ BusOK(mirror, Append(list, r))
         /\ r.of = "ticket" => BusOK(Append(mirror, r), list)
         /\ r.of = "task" /\ r.outcome = "applied" /\ Tells(list, r) /\ ~Tells(mirror, r)
              => BusOK(Append(mirror, r), list)
<1>0. mirror \in Seq(LogEntry) /\ Append(mirror, r) \in Seq(LogEntry)
  BY DEF BusOK
<1>1. ASSUME NEW x, Tells(list, x) PROVE Tells(Append(list, r), x)
  BY <1>1, TellsAppend
<1>2. BusOK(mirror, Append(list, r))
  BY <1>1 DEF BusOK
<1>3. PICK new : new = Append(mirror, r)
  OBVIOUS
<1>4. PICK n : n = Len(mirror) + 1
  OBVIOUS
<1>5. /\ DOMAIN new = 1..n /\ DOMAIN mirror = 1..Len(mirror) /\ Len(mirror) \in Nat
      /\ new[n] = r /\ \A i \in 1..Len(mirror) : new[i] = mirror[i]
  BY <1>0, <1>3, <1>4
<1>6. ASSUME NEW i \in Applied(new, "task")
      PROVE  \/ i \in Applied(mirror, "task") /\ new[i] = mirror[i]
             \/ i = n /\ new[i] = r /\ r.of = "task" /\ r.outcome = "applied"
  BY <1>4, <1>5 DEF Applied
<1>7. CASE r.of = "ticket"
  BY <1>0, <1>2, <1>3, <1>6, <1>7 DEF BusOK
<1>8. CASE r.of = "task" /\ r.outcome = "applied" /\ Tells(list, r) /\ ~Tells(mirror, r)
  <2>1. \A i \in Applied(new, "task") : Tells(list, new[i])
    BY <1>6, <1>8 DEF BusOK
  <2>2. \A i \in Applied(mirror, "task") : mirror[i] # r
    BY <1>8 DEF Tells
  <2>3. ASSUME NEW i \in Applied(new, "task"), NEW j \in Applied(new, "task"), new[i] = new[j] PROVE i = j
    BY <1>6, <2>2, <2>3 DEF BusOK
  <2>4. BusOK(new, list)
    BY <1>0, <1>3, <2>1, <2>3 DEF BusOK
  <2> QED
    BY <1>2, <1>3, <1>8, <2>4
<1> QED
  BY <1>2, <1>7, <1>8

\* A process that turns to something it owes nothing for.
LEMMA FreeTurn ==
  ASSUME NEW mirror, NEW list, DebtOK(user, mirror, list), UsersOK(user),
         NEW u \in StoreUser, NEW x, UserOK(x), ~Owes(x), Turn(u, x)
  PROVE  DebtOK(user', mirror, list) /\ UsersOK(user')
<1>1. UsersOK(user') /\ \A v \in StoreUser : user'[v] = IF v = u THEN x ELSE user[v]
  BY DEF Turn, UsersOK
<1>2. \A v \in StoreUser : Owes(user'[v]) => user'[v] = user[v]
  BY <1>1
<1>3. DebtOK(user', mirror, list)
  <2> USE DEF DebtOK
  <2>1. ASSUME NEW v \in StoreUser, Owes(user'[v])
        PROVE  Tells(list, OwedBy(user'[v])) /\ ~Tells(mirror, OwedBy(user'[v]))
    BY <1>2, <2>1
  <2>2. ASSUME NEW v \in StoreUser, NEW w \in StoreUser, Owes(user'[v]), Owes(user'[w]),
               OwedBy(user'[v]) = OwedBy(user'[w])
        PROVE  v = w
    BY <1>2, <2>2
  <2> QED
    BY <2>1, <2>2
<1> QED
  BY <1>1, <1>3

\* Rows that do not tell of the task, in the log or in the mirror, settle no debt.
LEMMA DebtStays ==
  ASSUME NEW users, NEW mirror \in Seq(LogEntry), NEW list \in Seq(LogEntry), DebtOK(users, mirror, list),
         NEW r \in LogEntry
  PROVE  /\ DebtOK(users, mirror, Append(list, r))
         /\ r.of = "ticket" => DebtOK(users, Append(mirror, r), list)
BY TellsAppend DEF DebtOK

\* An idle process, and one that has just begun.
LEMMA IdleUser ==
  ASSUME NEW dst \in TaskStates
  PROVE  /\ UserOK(Idle) /\ ~Owes(Idle)
         /\ UserOK([Idle EXCEPT !.phase = "read", !.dst = dst])
         /\ ~Owes([Idle EXCEPT !.phase = "read", !.dst = dst])
         /\ UserOK([Idle EXCEPT !.phase = "ticket"]) /\ ~Owes([Idle EXCEPT !.phase = "ticket"])
BY DEF UserOK, Owes, Idle

\* A literal row is an entry of the log.
LEMMA RowTyped ==
  ASSUME NEW of \in {"task", "ticket"}, NEW a \in TaskStates \cup Nat, NEW b \in TaskStates \cup Nat,
         NEW outcome \in {"applied", "refused"}
  PROVE  /\ LogRow(of, a, b, outcome) \in LogEntry
         /\ LogRow(of, a, b, outcome).of = of /\ LogRow(of, a, b, outcome).outcome = outcome
         /\ LogRow(of, a, b, outcome).src = a /\ LogRow(of, a, b, outcome).dst = b
BY DEF LogRow, LogEntry

\* An empty store, and a task that has been dispatched.
LEMMA StoreInitially == StoreInit => StoreInv
<1> SUFFICES ASSUME StoreInit PROVE StoreInv
  OBVIOUS
<1>1. logs \in Seq(LogEntry) /\ bus \in Seq(LogEntry) /\ DOMAIN logs = {} /\ DOMAIN bus = {}
  BY DEF StoreInit
<1>2. Applied(logs, "task") = {} /\ Applied(logs, "ticket") = {} /\ Applied(bus, "task") = {}
  BY <1>1 DEF Applied
<1>3. taskState = "DISPATCHED" /\ ticket = 0 /\ "DISPATCHED" \in TaskStates
  BY DEF StoreInit, TaskStates
<1>4. LogOK(logs, taskState, ticket) /\ BusOK(bus, logs)
  BY <1>1, <1>2, <1>3 DEF LogOK, BusOK, Chain
<1>5. user = [u \in StoreUser |-> Idle]
  BY DEF StoreInit
<1>6. UserOK(Idle) /\ ~Owes(Idle)
  BY IdleUser, <1>3
<1>7. UsersOK(user) /\ DebtOK(user, bus, logs)
  BY <1>5, <1>6 DEF UsersOK, DebtOK
<1> QED
  BY <1>4, <1>7 DEF StoreInv

\* The parts of the invariant that the steps below share.
LEMMA StoreParts ==
  ASSUME StoreInv, NEW u \in StoreUser
  PROVE  /\ LogOK(logs, taskState, ticket) /\ BusOK(bus, logs) /\ DebtOK(user, bus, logs) /\ UsersOK(user)
         /\ UserOK(user[u]) /\ logs \in Seq(LogEntry) /\ bus \in Seq(LogEntry)
         /\ taskState \in TaskStates /\ ticket \in Nat
BY DEF StoreInv, LogOK, BusOK, UsersOK

\* The steps that write neither table: begin, read, a missed compare-and-set, a death.
LEMMA TurnStep ==
  ASSUME StoreInv, NEW u \in StoreUser, NEW x, UserOK(x), ~Owes(x), Turn(u, x),
         UNCHANGED <<taskState, ticket, logs, bus>>
  PROVE  StoreInv'
<1>1. DebtOK(user', bus, logs) /\ UsersOK(user')
  BY StoreParts, FreeTurn
<1> QED
  BY <1>1, StoreParts DEF StoreInv

\* begin, read and die.
LEMMA PlainTurns ==
  ASSUME StoreInv, NEW u \in StoreUser,
         (\E dst \in {"RUNNING", "FAILED", "CANCELLED"} : BeginTransition(u, dst)) \/ ReadState(u) \/ Dies(u)
  PROVE  StoreInv'
<1>0. UserOK(user[u]) /\ taskState \in TaskStates
  BY StoreParts
<1>1. ASSUME NEW dst \in {"RUNNING", "FAILED", "CANCELLED"}, BeginTransition(u, dst) PROVE StoreInv'
  <2>1. dst \in TaskStates
    BY <1>1 DEF TaskStates
  <2> QED
    BY <1>1, <2>1, IdleUser, TurnStep DEF BeginTransition
<1>2. ASSUME ReadState(u) PROVE StoreInv'
  <2>1. PICK x : x = [user[u] EXCEPT !.phase = "decided", !.read = taskState]
    OBVIOUS
  <2>2. UserOK(x) /\ ~Owes(x)
    BY <1>0, <1>2, <2>1 DEF UserOK, Owes, ReadState
  <2> QED
    BY <1>2, <2>1, <2>2, TurnStep DEF ReadState
<1>3. ASSUME Dies(u) PROVE StoreInv'
  BY <1>0, <1>3, IdleUser, TurnStep DEF Dies
<1> QED
  BY <1>1, <1>2, <1>3

\* A refusal leaves a row that tells of no step.
LEMMA RefuseStep ==
  ASSUME StoreInv, NEW u \in StoreUser, DecideRefuses(u)
  PROVE  StoreInv'
<1>1. UserOK(user[u]) /\ user[u].phase = "decided" /\ taskState \in TaskStates
  BY StoreParts DEF DecideRefuses
<1>2. UserOK(Idle) /\ ~Owes(Idle)
  BY <1>1, IdleUser
<1>3. CASE logs' = logs
  BY <1>2, <1>3, TurnStep DEF DecideRefuses
<1>4. CASE logs' # logs
  <2>1. PICK r : r = LogRow("task", user[u].read, user[u].dst, "refused")
    OBVIOUS
  <2>2. r \in LogEntry /\ r.outcome = "refused"
    BY <1>1, <2>1, RowTyped DEF UserOK
  <2>3. logs' = Append(logs, r) /\ UNCHANGED <<taskState, ticket, bus>> /\ Turn(u, Idle)
    BY <1>4, <2>1 DEF DecideRefuses, InsertTransitionLog
  <2>4. LogOK(logs', taskState, ticket)
    BY <2>2, <2>3, LogGrows, StoreParts
  <2>5. BusOK(bus, logs') /\ DebtOK(user, bus, logs')
    BY <2>2, <2>3, BusFollows, DebtStays, StoreParts
  <2>6. DebtOK(user', bus, logs') /\ UsersOK(user')
    BY <1>2, <2>3, <2>5, FreeTurn, StoreParts
  <2> QED
    BY <2>3, <2>4, <2>5, <2>6 DEF StoreInv
<1> QED
  BY <1>3, <1>4

\* The compare-and-set commits the state with its row, or misses and tries again.
LEMMA CasStep ==
  ASSUME StoreInv, NEW u \in StoreUser, CompareAndSet(u)
  PROVE  StoreInv'
<1>1. /\ UserOK(user[u]) /\ user[u].phase = "decided" /\ taskState \in TaskStates
      /\ user[u].read \in TaskStates /\ user[u].dst \in Edges[user[u].read]
      /\ UNCHANGED <<ticket, bus>>
  BY StoreParts DEF CompareAndSet, UserOK
<1>2. CASE Turn(u, Retried(u)) /\ UNCHANGED <<taskState, logs>>
  <2>1. PICK x : x = [user[u] EXCEPT !.phase = "read", !.attempts = user[u].attempts + 1]
    OBVIOUS
  <2>2. UserOK(x) /\ ~Owes(x) /\ UserOK(Idle) /\ ~Owes(Idle)
    BY <1>1, <2>1, IdleUser DEF UserOK, Owes
  <2>3. Turn(u, x) \/ Turn(u, Idle)
    BY <1>2, <2>1 DEF Retried
  <2> QED
    BY <1>1, <1>2, <2>2, <2>3, TurnStep
<1>3. CASE /\ Matches(u) /\ taskState' = user[u].dst
           /\ InsertTransitionLog(LogRow("task", user[u].read, user[u].dst, "applied"))
           /\ Turn(u, [user[u] EXCEPT !.phase = "mirror"])
  <2>1. PICK r : r = LogRow("task", user[u].read, user[u].dst, "applied")
    OBVIOUS
  <2>2. user[u].dst \in TaskStates /\ user[u].read = taskState
    BY <1>1, <1>3, EdgesRise DEF Matches
  <2>3. r \in LogEntry /\ r.of = "task" /\ r.outcome = "applied" /\ r.src = taskState /\ r.dst = user[u].dst
    BY <1>1, <2>1, <2>2, RowTyped
  <2>4. logs' = Append(logs, r)
    BY <1>3, <2>1 DEF InsertTransitionLog
  <2>5. LogOK(logs', taskState', ticket)
    BY <1>1, <1>3, <2>2, <2>3, <2>4, LogGrows, StoreParts
  <2>6. BusOK(bus, logs') /\ DebtOK(user, bus, logs')
    BY <2>3, <2>4, BusFollows, DebtStays, StoreParts
  <2>7. ~Tells(logs, r)
    <3> SUFFICES ASSUME Tells(logs, r) PROVE FALSE
      OBVIOUS
    <3>1. Told(r, taskState)
      BY StoreParts DEF Tells, LogOK
    <3>2. Rank[taskState] \in Nat
      BY <1>1, EdgesRise
    <3> QED
      BY <2>3, <3>1, <3>2 DEF Told
  <2>8. ~Tells(bus, r)
    BY <2>7, StoreParts DEF Tells, BusOK
  <2>9. Tells(logs', r)
    BY <2>3, <2>4, TellsAppend, StoreParts
  <2>10. PICK x : x = [user[u] EXCEPT !.phase = "mirror"]
    OBVIOUS
  <2>11. UserOK(x) /\ OwedBy(x) = r
    BY <1>1, <2>1, <2>2, <2>10 DEF UserOK, OwedBy
  <2>12. UsersOK(user') /\ \A v \in StoreUser : user'[v] = IF v = u THEN x ELSE user[v]
    BY <1>3, <2>10, <2>11, StoreParts DEF Turn, UsersOK
  <2>13. ASSUME NEW v \in StoreUser, v # u, Owes(user[v]) PROVE OwedBy(user[v]) # r
    BY <2>7, <2>13, StoreParts DEF DebtOK
  <2>14. DebtOK(user', bus, logs')
    <3>1. ASSUME NEW v \in StoreUser, Owes(user'[v])
          PROVE  Tells(logs', OwedBy(user'[v])) /\ ~Tells(bus, OwedBy(user'[v]))
      <4>1. CASE v = u
        BY <2>8, <2>9, <2>11, <2>12, <4>1
      <4>2. CASE v # u
        BY <2>6, <2>12, <3>1, <4>2 DEF DebtOK
      <4> QED
        BY <4>1, <4>2
    <3>2. ASSUME NEW v \in StoreUser, NEW w \in StoreUser, Owes(user'[v]), Owes(user'[w]),
                 OwedBy(user'[v]) = OwedBy(user'[w])
          PROVE  v = w
      <4>1. CASE v # u /\ w # u
        BY <2>6, <2>12, <3>2, <4>1 DEF DebtOK
      <4>2. CASE v = u \/ w = u
        BY <2>11, <2>12, <2>13, <3>2, <4>2
      <4> QED
        BY <4>1, <4>2
    <3> QED
      BY <3>1, <3>2 DEF DebtOK
  <2> QED
    BY <1>1, <2>5, <2>6, <2>12, <2>14 DEF StoreInv
<1> QED
  BY <1>2, <1>3 DEF CompareAndSet

\* The mirror gets the row that was owed, or loses it.
LEMMA MirrorStep ==
  ASSUME StoreInv, NEW u \in StoreUser, NEW accepted \in BOOLEAN, MirrorTransition(u, accepted)
  PROVE  StoreInv'
<1>1. /\ UserOK(user[u]) /\ Owes(user[u]) /\ Turn(u, Idle) /\ UNCHANGED <<taskState, ticket, logs>>
      /\ user[u].dst \in TaskStates /\ user[u].read \in TaskStates /\ taskState \in TaskStates
  BY StoreParts DEF MirrorTransition, UserOK, Owes
<1>2. PICK r : r = OwedBy(user[u])
  OBVIOUS
<1>3. r \in LogEntry /\ r.of = "task" /\ r.outcome = "applied"
  BY <1>1, <1>2, RowTyped DEF OwedBy
<1>4. bus' = bus \/ bus' = Append(bus, r)
  BY <1>2 DEF MirrorTransition, EmitBusEvent, OwedBy
<1>5. UserOK(Idle) /\ ~Owes(Idle)
  BY <1>1, IdleUser
<1>6. CASE bus' = bus
  BY <1>1, <1>5, <1>6, TurnStep
<1>7. CASE bus' = Append(bus, r)
  <2>1. Tells(logs, r) /\ ~Tells(bus, r)
    BY <1>1, <1>2, StoreParts DEF DebtOK
  <2>2. BusOK(bus', logs)
    BY <1>3, <1>7, <2>1, BusFollows, StoreParts
  <2>3. UsersOK(user') /\ \A v \in StoreUser : user'[v] = IF v = u THEN Idle ELSE user[v]
    BY <1>1, <1>5, StoreParts DEF Turn, UsersOK
  <2>4. ASSUME NEW v \in StoreUser, Owes(user'[v])
        PROVE  v # u /\ user'[v] = user[v] /\ Owes(user[v])
    BY <1>5, <2>3, <2>4
  <2>5. ASSUME NEW v \in StoreUser, Owes(user'[v])
        PROVE  Tells(logs, OwedBy(user'[v])) /\ ~Tells(bus', OwedBy(user'[v]))
    <3>1. OwedBy(user[v]) # r /\ Tells(logs, OwedBy(user[v])) /\ ~Tells(bus, OwedBy(user[v]))
      BY <1>1, <1>2, <2>4, <2>5, StoreParts DEF DebtOK
    <3> QED
      BY <1>3, <1>7, <2>4, <2>5, <3>1, TellsAppend, StoreParts
  <2>6. ASSUME NEW v \in StoreUser, NEW w \in StoreUser, Owes(user'[v]), Owes(user'[w]),
               OwedBy(user'[v]) = OwedBy(user'[w])
        PROVE  v = w
    BY <2>4, <2>6, StoreParts DEF DebtOK
  <2>7. DebtOK(user', bus', logs)
    BY <2>5, <2>6 DEF DebtOK
  <2> QED
    BY <1>1, <2>2, <2>3, <2>7, StoreParts DEF StoreInv
<1> QED
  BY <1>4, <1>6, <1>7

\* A ticket's audit row reaches the mirror inside its transaction, and the log with it.
LEMMA TicketStep ==
  ASSUME StoreInv, NEW u \in StoreUser, NEW yes \in BOOLEAN, TicketAudit(u, yes) \/ TicketCommit(u, yes)
  PROVE  StoreInv'
<1>0. ticket \in Nat /\ taskState \in TaskStates
  BY StoreParts
<1>1. PICK r : r = LogRow("ticket", ticket, ticket + 1, "applied")
  OBVIOUS
<1>2. r \in LogEntry /\ r.of = "ticket" /\ r.outcome = "applied" /\ r.src = ticket /\ r.dst = ticket + 1
  BY <1>0, <1>1, RowTyped
<1>3. /\ UserOK(Idle) /\ ~Owes(Idle)
      /\ UserOK([Idle EXCEPT !.phase = "ticket"]) /\ ~Owes([Idle EXCEPT !.phase = "ticket"])
  BY <1>0, IdleUser
<1>4. ASSUME TicketAudit(u, yes) PROVE StoreInv'
  <2>1. /\ bus' = bus \/ bus' = Append(bus, r)
        /\ Turn(u, [Idle EXCEPT !.phase = "ticket"]) /\ UNCHANGED <<taskState, ticket, logs>>
    BY <1>1, <1>4 DEF TicketAudit, EmitBusEvent
  <2>2. BusOK(bus', logs) /\ DebtOK(user, bus', logs)
    BY <1>2, <2>1, BusFollows, DebtStays, StoreParts
  <2>3. DebtOK(user', bus', logs) /\ UsersOK(user')
    BY <1>3, <2>1, <2>2, FreeTurn, StoreParts
  <2> QED
    BY <2>1, <2>2, <2>3, StoreParts DEF StoreInv
<1>5. ASSUME TicketCommit(u, yes) PROVE StoreInv'
  <2>1. Turn(u, Idle) /\ UNCHANGED <<taskState, bus>>
    BY <1>5 DEF TicketCommit
  <2>2. CASE UNCHANGED <<ticket, logs>>
    BY <1>3, <2>1, <2>2, TurnStep
  <2>3. CASE ticket' = ticket + 1 /\ logs' = Append(logs, r)
    <3>1. LogOK(logs', taskState, ticket')
      BY <1>2, <2>3, LogGrows, StoreParts
    <3>2. BusOK(bus, logs') /\ DebtOK(user, bus, logs')
      BY <1>2, <2>3, BusFollows, DebtStays, StoreParts
    <3>3. DebtOK(user', bus, logs') /\ UsersOK(user')
      BY <1>3, <2>1, <3>2, FreeTurn, StoreParts
    <3> QED
      BY <2>1, <3>1, <3>2, <3>3 DEF StoreInv
  <2> QED
    BY <1>1, <1>5, <2>2, <2>3 DEF TicketCommit, InsertTransitionLog
<1> QED
  BY <1>4, <1>5

\* However many processes race for a task's state, miss their compare-and-set, lose
\* mirrored rows or die, the logs alone tell what happened to task and ticket.
THEOREM LogsAreComplete == StoreSpec => []LogsTellAll
<1>1. StoreInv /\ [StoreNext]_storeVars => StoreInv'
  <2> SUFFICES ASSUME StoreInv, [StoreNext]_storeVars PROVE StoreInv'
    OBVIOUS
  <2>1. CASE UNCHANGED storeVars
    BY <2>1 DEF storeVars, StoreInv
  <2>2. CASE StoreNext
    BY <2>2, PlainTurns, RefuseStep, CasStep, MirrorStep, TicketStep DEF StoreNext
  <2> QED
    BY <2>1, <2>2
<1>2. StoreInv => LogsTellAll
  BY DEF StoreInv, LogOK, BusOK, Told, Tells, LogsTellAll
<1> QED
  BY <1>1, <1>2, StoreInitially, PTL DEF StoreSpec

----------------------------------------------------------------------------
(* The workspaces.                                                         *)

AllAlone == \A l \in Relaunch : opening[l].alone
AllQuiet == \A l \in Relaunch : seat[l].quiet
Asked == source.mode # "git_worktree" \* a tree that may be bound or copied

WorkspaceTypes ==
  /\ DOMAIN opening = Relaunch /\ DOMAIN seat = Relaunch
  /\ \A l \in Relaunch : /\ DOMAIN opening[l] = {"phase", "alone", "reported"} /\ opening[l].alone \in BOOLEAN
                         /\ DOMAIN seat[l] = {"status", "rank", "token", "carries", "quiet"}
                         /\ seat[l].rank \in Nat /\ seat[l].quiet \in BOOLEAN
  /\ DOMAIN dest = {"kind", "content", "work"} /\ dest.content \subseteq RepoFile
  /\ source.mode \in {"auto", "git_worktree", "copy"} /\ source.git \in BOOLEAN

\* The directory: what agents changed is in it, a launch copies into it only as long
\* as it is the only one and nobody has worked there, and a session has a tree.
Filled == dest.content # {} \/ RepoFile = {}
DirectoryInv ==
  /\ (dest.kind = "absent" => dest.content = {}) /\ made \subseteq dest.content
  /\ \A l \in Relaunch :
       /\ opening[l].phase = "reuse" => dest.content # {}
       /\ opening[l].phase \in {"bind", "copy"} => Asked
       /\ opening[l].phase = "empty" => ~Asked
       /\ Asked /\ opening[l].phase \in {"built", "session", "minted", "ready"} => Filled
       /\ Asked /\ seat[l].status # "absent" => Filled
  /\ AllAlone => \A l, m \in InProgress : l = m
  /\ AllAlone /\ Asked => \A l \in Relaunch : opening[l].phase \in {"worktree", "bind", "copy"} =>
       RepoFile = {} \/ (made = {} /\ \A m \in Relaunch : seat[m].status = "absent")
  /\ AllAlone \/ ~Asked => made \subseteq dest.work

\* The sessions: ranks follow the launches, the file names the newest launch that is
\* through, and a shell that started between launches has its own launch behind it.
Ranked == {l \in Relaunch : seat[l].rank > 0}
SeatInv ==
  /\ envFile \in Relaunch \cup {"none"} /\ (envFile # "none" => opening[envFile].phase = "ready")
  /\ \A l \in Relaunch :
       /\ seat[l].status \in {"absent", "prepared", "running", "ended"}
       /\ seat[l].carries \in Relaunch \cup {"none"}
       /\ seat[l].carries # "none" => opening[seat[l].carries].phase = "ready"
       /\ seat[l].status = "running" => seat[l].carries # "none"
       /\ seat[l].carries = "none" => seat[l].quiet
       /\ seat[l].rank > 0 <=> seat[l].status # "absent"
       /\ seat[l].rank > 0 => opening[l].phase \in {"session", "minted", "ready", "dead"}
       /\ opening[l].phase \in {"session", "minted", "ready"} => seat[l].rank > 0
       /\ seat[l].rank <= Cardinality(Ranked)
       /\ seat[l].quiet /\ seat[l].status \in {"running", "ended"} => opening[l].phase = "ready"
       /\ seat[l].quiet /\ seat[l].status = "ended" => seat[l].token # "live"
  /\ AllAlone => \A l, m \in Relaunch :
       l # m /\ opening[l].phase \in {"session", "minted"} => seat[m].rank < seat[l].rank
  /\ AllAlone /\ envFile # "none" => \A m \in Relaunch :
       m # envFile /\ opening[m].phase = "ready" => seat[m].rank < seat[envFile].rank
  /\ AllAlone /\ AllQuiet => \A l \in Relaunch : seat[l].status = "running" =>
       seat[l].carries = l \/ seat[seat[l].carries].token # "live"

WorkspaceInv == WorkspaceTypes /\ DirectoryInv /\ SeatInv

\* One launch goes to a phase, the others stay where they are.
Phases(l, p) ==
  /\ \A m \in Relaunch : opening'[m].phase = IF m = l THEN p ELSE opening[m].phase
  /\ \A m \in Relaunch : opening'[m].alone => opening[m].alone
  /\ DOMAIN opening' = Relaunch
  /\ \A m \in Relaunch : DOMAIN opening'[m] = {"phase", "alone", "reported"} /\ opening'[m].alone \in BOOLEAN

\* A launch that is not through changes no session: it stays short of the session row,
\* or it dies.
LEMMA SeatsRest ==
  ASSUME WorkspaceTypes, SeatInv, UNCHANGED <<seat, envFile>>, NEW l \in Relaunch, NEW p, Phases(l, p),
         opening[l].phase # "ready", p \notin {"session", "minted", "ready"},
         p = "dead" \/ opening[l].phase \notin {"session", "minted", "dead"}
  PROVE  SeatInv'
<1>1. AllAlone' => AllAlone
  BY DEF AllAlone, Phases
<1>2. \A m \in Relaunch : /\ opening[m].phase = "ready" <=> opening'[m].phase = "ready"
                          /\ opening'[m].phase \in {"session", "minted"} => opening[m].phase \in {"session", "minted"}
                          /\ opening[m].phase \in {"session", "minted", "ready", "dead"}
                               => opening'[m].phase \in {"session", "minted", "ready", "dead"}
                          /\ opening'[m].phase \in {"session", "minted", "ready"}
                               => opening[m].phase \in {"session", "minted", "ready"}
  BY DEF Phases
<1>3. Ranked' = Ranked /\ (AllQuiet' <=> AllQuiet)
  BY DEF Ranked, AllQuiet
<1>4. envFile \in Relaunch \cup {"none"} /\ (envFile # "none" => opening'[envFile].phase = "ready")
  BY <1>2 DEF SeatInv
<1>5. ASSUME NEW m \in Relaunch
      PROVE  /\ seat[m].status \in {"absent", "prepared", "running", "ended"}
             /\ seat[m].carries \in Relaunch \cup {"none"}
             /\ seat[m].carries # "none" => opening'[seat[m].carries].phase = "ready"
             /\ seat[m].status = "running" => seat[m].carries # "none"
             /\ seat[m].carries = "none" => seat[m].quiet
             /\ seat[m].rank > 0 <=> seat[m].status # "absent"
             /\ seat[m].rank > 0 => opening'[m].phase \in {"session", "minted", "ready", "dead"}
             /\ opening'[m].phase \in {"session", "minted", "ready"} => seat[m].rank > 0
             /\ seat[m].rank <= Cardinality(Ranked)
             /\ seat[m].quiet /\ seat[m].status \in {"running", "ended"} => opening'[m].phase = "ready"
             /\ seat[m].quiet /\ seat[m].status = "ended" => seat[m].token # "live"
  BY <1>2 DEF SeatInv
<1>6. AllAlone' => \A k, m \in Relaunch :
        k # m /\ opening'[k].phase \in {"session", "minted"} => seat[m].rank < seat[k].rank
  BY <1>1, <1>2 DEF SeatInv
<1>7. AllAlone' /\ envFile # "none" => \A m \in Relaunch :
        m # envFile /\ opening'[m].phase = "ready" => seat[m].rank < seat[envFile].rank
  BY <1>1, <1>2 DEF SeatInv
<1>8. AllAlone' /\ AllQuiet => \A m \in Relaunch : seat[m].status = "running" =>
        seat[m].carries = m \/ seat[seat[m].carries].token # "live"
  BY <1>1 DEF SeatInv
<1> QED
  BY <1>3, <1>4, <1>5, <1>6, <1>7, <1>8 DEF SeatInv

\* A launch that goes on keeps the directory's invariant when the tree only grows, what
\* agents changed is kept where it must be, and it has a tree when it is built.
LEMMA DirectoryGoesOn ==
  ASSUME WorkspaceTypes, DirectoryInv, UNCHANGED <<source, made>>,
         \A m \in Relaunch : seat'[m].status = seat[m].status,
         NEW l \in InProgress, NEW p, Phases(l, p),
         dest.content \subseteq dest'.content, dest'.kind = "absent" => dest'.content = {},
         p \notin {"reuse", "empty"},
         p \in {"bind", "copy"} => Asked,
         Asked /\ p \in {"built", "session", "minted", "ready"} => Filled',
         p \in {"worktree", "bind", "copy"} => opening[l].phase \in {"worktree", "bind", "copy"},
         AllAlone \/ ~Asked => made \subseteq dest'.work
  PROVE  DirectoryInv'
<1>1. AllAlone' => AllAlone
  BY DEF AllAlone, Phases
<1>2. Asked' = Asked /\ (Filled => Filled') /\ l \in Relaunch
  BY DEF Asked, Filled, InProgress
<1>3. InProgress' \subseteq InProgress
  BY DEF InProgress, Phases
<1>4. (dest'.kind = "absent" => dest'.content = {}) /\ made' \subseteq dest'.content
  BY DEF DirectoryInv
<1>5. ASSUME NEW m \in Relaunch
      PROVE  /\ opening'[m].phase = "reuse" => dest'.content # {}
             /\ opening'[m].phase \in {"bind", "copy"} => Asked
             /\ opening'[m].phase = "empty" => ~Asked
             /\ Asked /\ opening'[m].phase \in {"built", "session", "minted", "ready"} => Filled'
             /\ Asked /\ seat'[m].status # "absent" => Filled'
  BY <1>2 DEF DirectoryInv, Phases
<1>6. AllAlone' => \A k, m \in InProgress' : k = m
  BY <1>1, <1>3 DEF DirectoryInv
<1>7. AllAlone' /\ Asked => \A k \in Relaunch : opening'[k].phase \in {"worktree", "bind", "copy"} =>
        RepoFile = {} \/ (made' = {} /\ \A m \in Relaunch : seat'[m].status = "absent")
  <2>1. \A k \in Relaunch : opening'[k].phase \in {"worktree", "bind", "copy"} =>
                              opening[k].phase \in {"worktree", "bind", "copy"}
    BY DEF Phases
  <2> QED
    BY <1>1, <2>1 DEF DirectoryInv
<1>8. AllAlone' \/ ~Asked => made' \subseteq dest'.work
  BY <1>1
<1> QED
  BY <1>2, <1>4, <1>5, <1>6, <1>7, <1>8 DEF DirectoryInv

\* Nothing has been launched.
LEMMA WorkspaceInitially == WorkspaceInit => WorkspaceInv
<1> SUFFICES ASSUME WorkspaceInit PROVE WorkspaceInv
  OBVIOUS
<1> USE DEF WorkspaceInit
<1>1. WorkspaceTypes
  BY DEF WorkspaceTypes
<1>2. DirectoryInv
  BY DEF DirectoryInv, InProgress, Asked, Filled
<1>3. Ranked = {}
  BY DEF Ranked
<1>5. Cardinality(Ranked) = 0
  BY <1>3, FS_EmptySet
<1>4. SeatInv
  BY <1>3, <1>5, LaunchTypes DEF SeatInv
<1> QED
  BY <1>1, <1>2, <1>4 DEF WorkspaceInv

\* What each operation of a launch does to the phases.
LEMMA PhaseTurns ==
  ASSUME WorkspaceTypes, NEW l \in Relaunch
  PROVE  /\ \A p, tree : Step(l, p, tree) => Phases(l, p)
         /\ \A mode, tree : Materialised(l, tree, mode) => Phases(l, "built")
         /\ \A p : opening' = [opening EXCEPT ![l].phase = p] => Phases(l, p)
         /\ LookAtRepo(l) => Phases(l, Plan)
<1>1. ASSUME NEW p, opening' = [opening EXCEPT ![l].phase = p] PROVE Phases(l, p)
  BY <1>1 DEF WorkspaceTypes, Phases
<1>2. ASSUME NEW mode, NEW tree, Materialised(l, tree, mode) PROVE Phases(l, "built")
  BY <1>2 DEF WorkspaceTypes, Phases, Materialised
<1>3. ASSUME LookAtRepo(l) PROVE Phases(l, Plan)
  BY <1>3 DEF WorkspaceTypes, Phases, LookAtRepo
<1> QED
  BY <1>1, <1>2, <1>3 DEF Step

\* The operations of a launch keep the types: the tree stays one of repository files.
LEMMA TypesGoOn ==
  ASSUME WorkspaceTypes, NEW l \in Relaunch, NEW p, Phases(l, p), UNCHANGED <<source, seat>>,
         DOMAIN dest' = {"kind", "content", "work"}, dest'.content \subseteq RepoFile
  PROVE  WorkspaceTypes'
BY DEF WorkspaceTypes, Phases

\* A launch looks at the directory and plans: nobody has worked in a directory it
\* finds empty, unless the repository is.
LEMMA LookStep ==
  ASSUME WorkspaceInv, NEW l \in Relaunch, LookAtRepo(l)
  PROVE  WorkspaceInv'
<1> USE DEF WorkspaceInv
<1>0. Phases(l, Plan) /\ UNCHANGED <<source, dest, envFile, seat, made>> /\ opening[l].phase = "unlaunched"
  BY PhaseTurns DEF LookAtRepo
<1>1. WorkspaceTypes'
  BY <1>0, TypesGoOn DEF WorkspaceTypes
<1>2. Plan \in {"reuse", "worktree", "copy", "bind", "empty"}
  BY DEF Plan, PlanOf
<1>3. SeatInv'
  BY <1>0, <1>2, SeatsRest
<1>4. /\ Plan = "reuse" => dest.content # {}
      /\ Plan \in {"bind", "copy"} => Asked
      /\ Plan = "empty" => ~Asked
      /\ Plan # "reuse" => dest.content = {}
  BY DEF Plan, PlanOf, AlreadyThere, Asked, WorkspaceTypes, DirectoryInv
<1>5. AllAlone' => AllAlone /\ InProgress = {}
  BY DEF LookAtRepo, AllAlone, WorkspaceTypes
<1>6. \A m \in Relaunch : m # l => (m \in InProgress' <=> m \in InProgress)
  BY <1>0 DEF Phases, InProgress
<1>7. Asked' = Asked /\ Filled' = Filled
  BY <1>0 DEF Asked, Filled
<1>8. ASSUME NEW m \in Relaunch
      PROVE  /\ opening'[m].phase = "reuse" => dest'.content # {}
             /\ opening'[m].phase \in {"bind", "copy"} => Asked
             /\ opening'[m].phase = "empty" => ~Asked
             /\ Asked /\ opening'[m].phase \in {"built", "session", "minted", "ready"} => Filled
             /\ Asked /\ seat'[m].status # "absent" => Filled
  BY <1>0, <1>2, <1>4 DEF DirectoryInv, Phases
<1>9. AllAlone' => \A k, m \in InProgress' : k = m
  BY <1>5, <1>6 DEF InProgress
<1>10. ASSUME AllAlone', Asked, NEW k \in Relaunch, opening'[k].phase \in {"worktree", "bind", "copy"}
       PROVE  RepoFile = {} \/ (made' = {} /\ \A m \in Relaunch : seat'[m].status = "absent")
  <2>1. k = l
    BY <1>0, <1>5, <1>10 DEF Phases, InProgress
  <2>2. dest.content = {}
    BY <1>0, <1>4, <1>10, <2>1 DEF Phases
  <2> QED
    BY <1>0, <1>10, <2>2 DEF DirectoryInv, Filled
<1>11. AllAlone' \/ ~Asked => made' \subseteq dest'.work
  BY <1>0, <1>5 DEF DirectoryInv
<1>12. (dest'.kind = "absent" => dest'.content = {}) /\ made' \subseteq dest'.content
  BY <1>0 DEF DirectoryInv
<1>13. DirectoryInv'
  BY <1>7, <1>8, <1>9, <1>10, <1>11, <1>12 DEF DirectoryInv
<1> QED
  BY <1>1, <1>3, <1>13

\* A launch before its session row that goes on with another tree.
LEMMA BuildStep ==
  ASSUME WorkspaceInv, NEW l \in Relaunch, NEW p, Phases(l, p), UNCHANGED <<source, envFile, seat, made>>,
         opening[l].phase \in {"reuse", "worktree", "copy", "bind", "empty"},
         p \in {"bind", "copy", "built", "failed"},
         DOMAIN dest' = {"kind", "content", "work"}, dest'.content \subseteq RepoFile,
         dest.content \subseteq dest'.content, dest'.kind = "absent" => dest'.content = {},
         p \in {"bind", "copy"} => Asked /\ opening[l].phase \in {"worktree", "bind", "copy"},
         Asked /\ p = "built" => Filled',
         AllAlone \/ ~Asked => made \subseteq dest'.work
  PROVE  WorkspaceInv'
<1> USE DEF WorkspaceInv
<1>1. WorkspaceTypes'
  BY TypesGoOn
<1>2. SeatInv'
  BY SeatsRest
<1>3. l \in InProgress
  BY DEF InProgress
<1>4. DirectoryInv'
  BY <1>3, DirectoryGoesOn
<1> QED
  BY <1>1, <1>2, <1>4

\* Materialising: reuse, empty, worktree, bind and copy.
LEMMA BuildTurns ==
  ASSUME WorkspaceInv, NEW l \in Relaunch, NEW ok, NEW f,
         ReuseRepo(l) \/ EmptyRepo(l) \/ AddWorktree(l, ok) \/ Bind(l, ok) \/ CopyFile(l, f)
  PROVE  WorkspaceInv'
<1> USE DEF WorkspaceInv
<1>0. /\ DOMAIN dest = {"kind", "content", "work"} /\ dest.content \subseteq RepoFile
      /\ dest.kind = "absent" => dest.content = {}
      /\ AllAlone \/ ~Asked => made \subseteq dest.work
      /\ opening[l].phase = "reuse" => dest.content # {}
      /\ opening[l].phase \in {"bind", "copy"} => Asked
      /\ opening[l].phase = "empty" => ~Asked
  BY DEF WorkspaceTypes, DirectoryInv
<1>1. CASE ReuseRepo(l)
  <2>1. Phases(l, "built") /\ UNCHANGED <<source, envFile, seat, made, dest>> /\ opening[l].phase = "reuse"
    BY <1>1, PhaseTurns DEF ReuseRepo, Materialised
  <2> QED
    BY <1>0, <2>1, BuildStep DEF Filled
<1>2. CASE EmptyRepo(l)
  <2>1. Phases(l, "built") /\ UNCHANGED <<source, envFile, seat, made>> /\ opening[l].phase = "empty"
    BY <1>2, PhaseTurns DEF EmptyRepo, Materialised
  <2>2. /\ DOMAIN dest' = {"kind", "content", "work"} /\ dest'.content = dest.content
        /\ dest'.work = dest.work /\ dest'.kind # "absent"
    BY <1>0, <1>2 DEF EmptyRepo, Materialised
  <2> QED
    BY <1>0, <2>1, <2>2, BuildStep
<1>3. CASE AddWorktree(l, ok)
  <2>1. CASE ok /\ ~AlreadyThere
    <3>1. Phases(l, "built") /\ UNCHANGED <<source, envFile, seat, made>> /\ opening[l].phase = "worktree"
      BY <1>3, <2>1, PhaseTurns DEF AddWorktree, Materialised
    <3>2. /\ DOMAIN dest' = {"kind", "content", "work"} /\ dest'.content = RepoFile
          /\ dest'.work = dest.work /\ dest'.kind = "worktree"
      BY <1>0, <1>3, <2>1 DEF AddWorktree, Materialised
    <3> QED
      BY <1>0, <3>1, <3>2, BuildStep DEF Filled
  <2>2. CASE ~(ok /\ ~AlreadyThere)
    <3>1. PICK p : /\ p = (IF source.mode = "git_worktree" THEN "failed" ELSE "bind")
                   /\ Phases(l, p) /\ UNCHANGED <<source, envFile, seat, made, dest>>
                   /\ opening[l].phase = "worktree"
      BY <1>3, <2>2, PhaseTurns DEF AddWorktree, Step
    <3> QED
      BY <1>0, <3>1, BuildStep DEF Asked
  <2> QED
    BY <2>1, <2>2
<1>4. CASE Bind(l, ok)
  <2>1. CASE ok /\ dest.kind = "absent"
    <3>1. Phases(l, "built") /\ UNCHANGED <<source, envFile, seat, made>> /\ opening[l].phase = "bind"
      BY <1>4, <2>1, PhaseTurns DEF Bind, Materialised
    <3>2. /\ DOMAIN dest' = {"kind", "content", "work"} /\ dest'.content = RepoFile
          /\ dest'.work = dest.work /\ dest'.kind = "link"
      BY <1>0, <1>4, <2>1 DEF Bind, Materialised
    <3> QED
      BY <1>0, <3>1, <3>2, BuildStep DEF Filled
  <2>2. CASE ~(ok /\ dest.kind = "absent")
    <3>1. Phases(l, "copy") /\ UNCHANGED <<source, envFile, seat, made, dest>> /\ opening[l].phase = "bind"
      BY <1>4, <2>2, PhaseTurns DEF Bind, Step
    <3> QED
      BY <1>0, <3>1, BuildStep
  <2> QED
    BY <2>1, <2>2
<1>5. CASE CopyFile(l, f)
  <2>1. Phases(l, "copy") /\ UNCHANGED <<source, envFile, seat, made>> /\ opening[l].phase = "copy"
    BY <1>5, PhaseTurns DEF CopyFile, Step
  <2>2. /\ DOMAIN dest' = {"kind", "content", "work"} /\ dest'.content = dest.content \cup {f}
        /\ dest'.kind # "absent" /\ f \in RepoFile
    BY <1>0, <1>5 DEF CopyFile, Step
  <2>3. AllAlone \/ ~Asked => made = {}
    BY <1>0, <2>1 DEF DirectoryInv
  <2> QED
    BY <1>0, <2>1, <2>2, <2>3, BuildStep
<1> QED
  BY <1>1, <1>2, <1>3, <1>4, <1>5

\* A copy is over when the tree is the repository's, or cannot be made over a link.
LEMMA CopyEnds ==
  ASSUME WorkspaceInv, NEW l \in Relaunch, CopyDone(l)
  PROVE  WorkspaceInv'
<1> USE DEF WorkspaceInv
<1>0. /\ DOMAIN dest = {"kind", "content", "work"} /\ dest.content \subseteq RepoFile
      /\ dest.kind = "absent" => dest.content = {}
      /\ AllAlone \/ ~Asked => made \subseteq dest.work
  BY DEF WorkspaceTypes, DirectoryInv
<1>1. UNCHANGED <<source, envFile, seat, made, dest>> /\ opening[l].phase = "copy"
  BY DEF CopyDone, Step, Materialised
<1>2. CASE dest.kind = "link"
  <2>1. Phases(l, "failed")
    BY <1>2, PhaseTurns DEF CopyDone
  <2> QED
    BY <1>0, <1>1, <2>1, BuildStep
<1>3. CASE dest.kind # "link"
  <2>1. Phases(l, "built") /\ dest.content = RepoFile
    BY <1>3, PhaseTurns DEF CopyDone
  <2> QED
    BY <1>0, <1>1, <2>1, BuildStep DEF Filled
<1> QED
  BY <1>2, <1>3

\* A launch may die anywhere between its look at the directory and its files.
LEMMA DeathStep ==
  ASSUME WorkspaceInv, NEW l \in Relaunch, LaunchDies(l)
  PROVE  WorkspaceInv'
<1> USE DEF WorkspaceInv
<1>1. Phases(l, "dead") /\ UNCHANGED <<source, dest, envFile, seat, made>>
  BY PhaseTurns DEF LaunchDies
<1>2. l \in InProgress /\ opening[l].phase # "ready"
  BY DEF LaunchDies, InProgress
<1>3. WorkspaceTypes'
  BY <1>1, TypesGoOn DEF WorkspaceTypes
<1>4. SeatInv'
  BY <1>1, <1>2, SeatsRest
<1>5. DirectoryInv'
  BY <1>1, <1>2, DirectoryGoesOn DEF DirectoryInv
<1> QED
  BY <1>3, <1>4, <1>5

\* The ledger's row of a session: it is the newest.
LEMMA SessionStep ==
  ASSUME WorkspaceInv, NEW l \in Relaunch, LaunchSession(l)
  PROVE  WorkspaceInv'
<1> USE DEF WorkspaceInv
<1>0. /\ Phases(l, "session") /\ UNCHANGED <<source, dest, envFile, made>> /\ opening[l].phase = "built"
      /\ AllAlone' = AllAlone
  BY PhaseTurns DEF LaunchSession, AllAlone, WorkspaceTypes
<1>1. seat[l].rank = 0 /\ seat[l].status = "absent"
  BY <1>0 DEF SeatInv, WorkspaceTypes
<1>2. /\ \A m \in Relaunch : m # l => seat'[m] = seat[m]
      /\ seat'[l].status = "prepared" /\ seat'[l].token = seat[l].token /\ seat'[l].carries = seat[l].carries
      /\ seat'[l].quiet = seat[l].quiet
      /\ seat'[l].rank = 1 + Cardinality(Ranked)
      /\ DOMAIN seat' = Relaunch /\ DOMAIN seat'[l] = {"status", "rank", "token", "carries", "quiet"}
  BY DEF LaunchSession, WorkspaceTypes, Ranked
<1>3. IsFiniteSet(Ranked) /\ l \notin Ranked
  BY <1>1, LaunchTypes, FS_Subset DEF Ranked
<1>4. Cardinality(Ranked) \in Nat
  BY <1>3, FS_CardinalityType
<1>5. Ranked' = Ranked \cup {l}
  BY <1>2, <1>4 DEF Ranked
<1>6. Cardinality(Ranked') = Cardinality(Ranked) + 1
  BY <1>3, <1>5, FS_AddElement
<1>7. WorkspaceTypes'
  BY <1>0, <1>2, <1>4 DEF WorkspaceTypes, Phases
<1>8. AllQuiet' <=> AllQuiet
  BY <1>2 DEF AllQuiet
<1>9. SeatInv'
  <2>1. envFile' \in Relaunch \cup {"none"} /\ (envFile' # "none" => opening'[envFile'].phase = "ready")
    BY <1>0 DEF SeatInv, Phases
  <2>2. ASSUME NEW m \in Relaunch
        PROVE  /\ seat'[m].status \in {"absent", "prepared", "running", "ended"}
               /\ seat'[m].carries \in Relaunch \cup {"none"}
               /\ seat'[m].carries # "none" => opening'[seat'[m].carries].phase = "ready"
               /\ seat'[m].status = "running" => seat'[m].carries # "none"
               /\ seat'[m].carries = "none" => seat'[m].quiet
               /\ seat'[m].rank > 0 <=> seat'[m].status # "absent"
               /\ seat'[m].rank > 0 => opening'[m].phase \in {"session", "minted", "ready", "dead"}
               /\ opening'[m].phase \in {"session", "minted", "ready"} => seat'[m].rank > 0
               /\ seat'[m].rank <= Cardinality(Ranked')
               /\ seat'[m].quiet /\ seat'[m].status \in {"running", "ended"} => opening'[m].phase = "ready"
               /\ seat'[m].quiet /\ seat'[m].status = "ended" => seat'[m].token # "live"
    <3>1. CASE m = l
      BY <1>0, <1>1, <1>2, <1>4, <1>6, <3>1 DEF SeatInv, Phases
    <3>2. CASE m # l
      BY <1>0, <1>1, <1>2, <1>4, <1>6, <3>2 DEF SeatInv, Phases, WorkspaceTypes
    <3> QED
      BY <3>1, <3>2
  <2>3. AllAlone' => \A k, m \in Relaunch :
          k # m /\ opening'[k].phase \in {"session", "minted"} => seat'[m].rank < seat'[k].rank
    <3> SUFFICES ASSUME AllAlone, NEW k \in Relaunch, NEW m \in Relaunch, k # m,
                        opening'[k].phase \in {"session", "minted"}
                 PROVE  seat'[m].rank < seat'[k].rank
      BY <1>0
    <3>1. k = l
      BY <1>0 DEF DirectoryInv, InProgress, Phases
    <3> QED
      BY <1>2, <1>4, <3>1 DEF SeatInv, WorkspaceTypes
  <2>4. AllAlone' /\ envFile' # "none" => \A m \in Relaunch :
          m # envFile' /\ opening'[m].phase = "ready" => seat'[m].rank < seat'[envFile'].rank
    BY <1>0, <1>2 DEF SeatInv, Phases
  <2>5. AllAlone' /\ AllQuiet' => \A m \in Relaunch : seat'[m].status = "running" =>
          seat'[m].carries = m \/ seat'[seat'[m].carries].token # "live"
    BY <1>0, <1>2, <1>8 DEF SeatInv
  <2> QED
    BY <2>1, <2>2, <2>3, <2>4, <2>5 DEF SeatInv
<1>10. DirectoryInv'
  <2>1. Asked' = Asked /\ Filled' = Filled /\ InProgress' = InProgress
    BY <1>0 DEF Asked, Filled, InProgress, Phases
  <2>2. (dest'.kind = "absent" => dest'.content = {}) /\ made' \subseteq dest'.content
    BY <1>0 DEF DirectoryInv
  <2>3. \A m \in Relaunch :
          /\ opening'[m].phase = "reuse" => dest'.content # {}
          /\ opening'[m].phase \in {"bind", "copy"} => Asked
          /\ opening'[m].phase = "empty" => ~Asked
          /\ Asked /\ opening'[m].phase \in {"built", "session", "minted", "ready"} => Filled
          /\ Asked /\ seat'[m].status # "absent" => Filled
    BY <1>0, <1>2 DEF DirectoryInv, Phases
  <2>4. AllAlone => \A k \in Relaunch : opening'[k].phase \notin {"worktree", "bind", "copy"}
    BY <1>0 DEF DirectoryInv, InProgress, Phases
  <2> QED
    BY <1>0, <2>1, <2>2, <2>3, <2>4 DEF DirectoryInv
<1> QED
  BY <1>7, <1>9, <1>10

\* The token of a session goes live before any file or shell holds it.
LEMMA MintStep ==
  ASSUME WorkspaceInv, NEW l \in Relaunch, MintToken(l)
  PROVE  WorkspaceInv'
<1> USE DEF WorkspaceInv
<1>0. /\ Phases(l, "minted") /\ UNCHANGED <<source, dest, envFile, made>> /\ opening[l].phase = "session"
      /\ AllAlone' = AllAlone
  BY PhaseTurns DEF MintToken, AllAlone, WorkspaceTypes
<1>1. /\ \A m \in Relaunch : /\ seat'[m].status = seat[m].status /\ seat'[m].rank = seat[m].rank
                             /\ seat'[m].carries = seat[m].carries /\ seat'[m].quiet = seat[m].quiet
                             /\ DOMAIN seat'[m] = {"status", "rank", "token", "carries", "quiet"}
      /\ \A m \in Relaunch : m # l => seat'[m].token = seat[m].token
      /\ DOMAIN seat' = Relaunch
  BY DEF MintToken, WorkspaceTypes
<1>2. Ranked' = Ranked /\ AllQuiet' = AllQuiet
  BY <1>1 DEF Ranked, AllQuiet
<1>3. WorkspaceTypes'
  BY <1>0, <1>1 DEF WorkspaceTypes, Phases
<1>4. DirectoryInv'
  BY <1>0, <1>1, DirectoryGoesOn DEF DirectoryInv, InProgress, Filled
<1>5. SeatInv'
  <2>1. envFile' \in Relaunch \cup {"none"} /\ (envFile' # "none" => opening'[envFile'].phase = "ready")
    BY <1>0 DEF SeatInv, Phases
  <2>2. ASSUME NEW m \in Relaunch
        PROVE  /\ seat'[m].status \in {"absent", "prepared", "running", "ended"}
               /\ seat'[m].carries \in Relaunch \cup {"none"}
               /\ seat'[m].carries # "none" => opening'[seat'[m].carries].phase = "ready"
               /\ seat'[m].status = "running" => seat'[m].carries # "none"
               /\ seat'[m].carries = "none" => seat'[m].quiet
               /\ seat'[m].rank > 0 <=> seat'[m].status # "absent"
               /\ seat'[m].rank > 0 => opening'[m].phase \in {"session", "minted", "ready", "dead"}
               /\ opening'[m].phase \in {"session", "minted", "ready"} => seat'[m].rank > 0
               /\ seat'[m].rank <= Cardinality(Ranked')
               /\ seat'[m].quiet /\ seat'[m].status \in {"running", "ended"} => opening'[m].phase = "ready"
               /\ seat'[m].quiet /\ seat'[m].status = "ended" => seat'[m].token # "live"
    BY <1>0, <1>1, <1>2 DEF SeatInv, Phases
  <2>3. AllAlone' => \A k, m \in Relaunch :
          k # m /\ opening'[k].phase \in {"session", "minted"} => seat'[m].rank < seat'[k].rank
    BY <1>0, <1>1 DEF SeatInv, Phases
  <2>4. AllAlone' /\ envFile' # "none" => \A m \in Relaunch :
          m # envFile' /\ opening'[m].phase = "ready" => seat'[m].rank < seat'[envFile'].rank
    BY <1>0, <1>1 DEF SeatInv, Phases
  <2>5. AllAlone' /\ AllQuiet' => \A m \in Relaunch : seat'[m].status = "running" =>
          seat'[m].carries = m \/ seat'[seat'[m].carries].token # "live"
    BY <1>0, <1>1, <1>2 DEF SeatInv
  <2> QED
    BY <2>1, <2>2, <2>3, <2>4, <2>5 DEF SeatInv
<1> QED
  BY <1>3, <1>4, <1>5

\* The file names the launch that wrote it last.
LEMMA EnvStep ==
  ASSUME WorkspaceInv, NEW l \in Relaunch, WriteEnvFile(l)
  PROVE  WorkspaceInv'
<1> USE DEF WorkspaceInv
<1>0. /\ Phases(l, "ready") /\ UNCHANGED <<source, dest, seat, made>> /\ opening[l].phase = "minted"
      /\ envFile' = l /\ AllAlone' = AllAlone
  BY PhaseTurns DEF WriteEnvFile, AllAlone, WorkspaceTypes
<1>2. Ranked' = Ranked /\ AllQuiet' = AllQuiet
  BY <1>0 DEF Ranked, AllQuiet
<1>3. WorkspaceTypes'
  BY <1>0, TypesGoOn DEF WorkspaceTypes
<1>4. DirectoryInv'
  BY <1>0, DirectoryGoesOn DEF DirectoryInv, InProgress, Filled
<1>5. SeatInv'
  <2>1. envFile' \in Relaunch \cup {"none"} /\ (envFile' # "none" => opening'[envFile'].phase = "ready")
    BY <1>0 DEF Phases
  <2>2. ASSUME NEW m \in Relaunch
        PROVE  /\ seat'[m].status \in {"absent", "prepared", "running", "ended"}
               /\ seat'[m].carries \in Relaunch \cup {"none"}
               /\ seat'[m].carries # "none" => opening'[seat'[m].carries].phase = "ready"
               /\ seat'[m].status = "running" => seat'[m].carries # "none"
               /\ seat'[m].carries = "none" => seat'[m].quiet
               /\ seat'[m].rank > 0 <=> seat'[m].status # "absent"
               /\ seat'[m].rank > 0 => opening'[m].phase \in {"session", "minted", "ready", "dead"}
               /\ opening'[m].phase \in {"session", "minted", "ready"} => seat'[m].rank > 0
               /\ seat'[m].rank <= Cardinality(Ranked')
               /\ seat'[m].quiet /\ seat'[m].status \in {"running", "ended"} => opening'[m].phase = "ready"
               /\ seat'[m].quiet /\ seat'[m].status = "ended" => seat'[m].token # "live"
    BY <1>0, <1>2 DEF SeatInv, Phases
  <2>3. AllAlone' => \A k, m \in Relaunch :
          k # m /\ opening'[k].phase \in {"session", "minted"} => seat'[m].rank < seat'[k].rank
    BY <1>0 DEF SeatInv, Phases
  <2>4. AllAlone' /\ envFile' # "none" => \A m \in Relaunch :
          m # envFile' /\ opening'[m].phase = "ready" => seat'[m].rank < seat'[envFile'].rank
    BY <1>0 DEF SeatInv
  <2>5. AllAlone' /\ AllQuiet' => \A m \in Relaunch : seat'[m].status = "running" =>
          seat'[m].carries = m \/ seat'[seat'[m].carries].token # "live"
    BY <1>0, <1>2 DEF SeatInv
  <2> QED
    BY <2>1, <2>2, <2>3, <2>4, <2>5 DEF SeatInv
<1> QED
  BY <1>3, <1>4, <1>5

\* A shell starts under the newest session; between launches the file holds that
\* session's token, or the token of a newer session that is over.
LEMMA ShellStep ==
  ASSUME WorkspaceInv, NEW l \in Relaunch, CmdShell(l)
  PROVE  WorkspaceInv'
<1> USE DEF WorkspaceInv
<1>0. /\ UNCHANGED <<source, dest, envFile, opening, made>> /\ envFile \in Relaunch
      /\ seat[l].carries = "none" /\ seat[l].status = "prepared" /\ seat[l].quiet
      /\ opening[envFile].phase = "ready"
  BY DEF CmdShell, SeatInv, ActiveSessionFor, Active
<1>1. /\ \A m \in Relaunch : m # l => seat'[m] = seat[m]
      /\ seat'[l].status = "running" /\ seat'[l].carries = envFile
      /\ seat'[l].quiet <=> \A m \in Relaunch : opening[m].phase \in {"unlaunched", "ready"}
      /\ seat'[l].quiet \in BOOLEAN
      /\ seat'[l].rank = seat[l].rank /\ seat'[l].token = seat[l].token
      /\ DOMAIN seat' = Relaunch /\ DOMAIN seat'[l] = {"status", "rank", "token", "carries", "quiet"}
  BY DEF CmdShell, WorkspaceTypes
<1>2. \A m \in Relaunch : seat'[m].rank = seat[m].rank /\ seat'[m].token = seat[m].token
  BY <1>1
<1>3. Ranked' = Ranked /\ AllAlone' = AllAlone
  BY <1>0, <1>2 DEF Ranked, AllAlone
<1>4. WorkspaceTypes'
  BY <1>0, <1>1 DEF WorkspaceTypes
<1>5. DirectoryInv'
  <2>1. Asked' = Asked /\ Filled' = Filled /\ InProgress' = InProgress
    BY <1>0 DEF Asked, Filled, InProgress
  <2>2. \A m \in Relaunch : seat'[m].status = "absent" <=> seat[m].status = "absent"
    BY <1>0, <1>1
  <2> QED
    BY <1>0, <1>3, <2>1, <2>2 DEF DirectoryInv
<1>6. seat'[l].quiet => opening[l].phase = "ready"
  BY <1>0, <1>1 DEF SeatInv, WorkspaceTypes
<1>7. ASSUME AllAlone, AllQuiet', l # envFile PROVE seat[envFile].token # "live"
  <2>1. seat'[l].quiet /\ seat[envFile].quiet
    BY <1>0, <1>1, <1>7 DEF AllQuiet
  <2>2. seat[l].rank < seat[envFile].rank
    BY <1>0, <1>6, <1>7, <2>1, LaunchTypes DEF SeatInv
  <2>3. envFile \notin Active
    BY <1>0, <2>2 DEF CmdShell, ActiveSessionFor, WorkspaceTypes
  <2>4. seat[envFile].status = "ended"
    BY <1>0, <2>3 DEF SeatInv, Active
  <2> QED
    BY <1>0, <2>1, <2>4 DEF SeatInv
<1>8. SeatInv'
  <2>1. envFile' \in Relaunch \cup {"none"} /\ (envFile' # "none" => opening'[envFile'].phase = "ready")
    BY <1>0
  <2>2. ASSUME NEW m \in Relaunch
        PROVE  /\ seat'[m].status \in {"absent", "prepared", "running", "ended"}
               /\ seat'[m].carries \in Relaunch \cup {"none"}
               /\ seat'[m].carries # "none" => opening'[seat'[m].carries].phase = "ready"
               /\ seat'[m].status = "running" => seat'[m].carries # "none"
               /\ seat'[m].carries = "none" => seat'[m].quiet
               /\ seat'[m].rank > 0 <=> seat'[m].status # "absent"
               /\ seat'[m].rank > 0 => opening'[m].phase \in {"session", "minted", "ready", "dead"}
               /\ opening'[m].phase \in {"session", "minted", "ready"} => seat'[m].rank > 0
               /\ seat'[m].rank <= Cardinality(Ranked')
               /\ seat'[m].quiet /\ seat'[m].status \in {"running", "ended"} => opening'[m].phase = "ready"
               /\ seat'[m].quiet /\ seat'[m].status = "ended" => seat'[m].token # "live"
    <3>1. CASE m = l
      BY <1>0, <1>1, <1>3, <1>6, <3>1, LaunchTypes DEF SeatInv
    <3>2. CASE m # l
      BY <1>0, <1>1, <1>3, <3>2 DEF SeatInv
    <3> QED
      BY <3>1, <3>2
  <2>3. AllAlone' => \A k, m \in Relaunch :
          k # m /\ opening'[k].phase \in {"session", "minted"} => seat'[m].rank < seat'[k].rank
    BY <1>0, <1>2, <1>3 DEF SeatInv
  <2>4. AllAlone' /\ envFile' # "none" => \A m \in Relaunch :
          m # envFile' /\ opening'[m].phase = "ready" => seat'[m].rank < seat'[envFile'].rank
    BY <1>0, <1>2, <1>3 DEF SeatInv
  <2>5. ASSUME AllAlone', AllQuiet', NEW m \in Relaunch, seat'[m].status = "running"
        PROVE  seat'[m].carries = m \/ seat'[seat'[m].carries].token # "live"
    <3>1. CASE m = l
      BY <1>0, <1>1, <1>2, <1>3, <1>7, <2>5, <3>1
    <3>2. CASE m # l
      <4>1. AllQuiet
        BY <1>0, <1>1, <2>5 DEF AllQuiet
      <4>2. seat[m].carries \in Relaunch /\ seat[m].status = "running"
        BY <1>1, <2>5, <3>2 DEF SeatInv
      <4> QED
        BY <1>1, <1>2, <1>3, <2>5, <3>2, <4>1, <4>2 DEF SeatInv
    <3> QED
      BY <3>1, <3>2
  <2> QED
    BY <2>1, <2>2, <2>3, <2>4, <2>5 DEF SeatInv
<1> QED
  BY <1>4, <1>5, <1>8

\* A shell's end is its session's end, and its token's.
LEMMA EndStep ==
  ASSUME WorkspaceInv, NEW l \in Relaunch, ShellEnds(l)
  PROVE  WorkspaceInv'
<1> USE DEF WorkspaceInv
<1>0. UNCHANGED <<source, dest, envFile, opening, made>> /\ seat[l].status = "running"
  BY DEF ShellEnds
<1>1. /\ \A m \in Relaunch : m # l => seat'[m] = seat[m]
      /\ seat'[l].status = "ended" /\ seat'[l].carries = seat[l].carries /\ seat'[l].quiet = seat[l].quiet
      /\ seat'[l].rank = seat[l].rank /\ seat'[l].token # "live"
      /\ DOMAIN seat' = Relaunch /\ DOMAIN seat'[l] = {"status", "rank", "token", "carries", "quiet"}
  BY DEF ShellEnds, Ends, WorkspaceTypes
<1>2. \A m \in Relaunch : seat'[m].rank = seat[m].rank /\ (seat[m].token # "live" => seat'[m].token # "live")
  BY <1>1
<1>3. Ranked' = Ranked /\ AllAlone' = AllAlone /\ AllQuiet' = AllQuiet
  BY <1>0, <1>1, <1>2 DEF Ranked, AllAlone, AllQuiet
<1>4. WorkspaceTypes'
  BY <1>0, <1>1 DEF WorkspaceTypes
<1>5. DirectoryInv'
  <2>1. Asked' = Asked /\ Filled' = Filled /\ InProgress' = InProgress
    BY <1>0 DEF Asked, Filled, InProgress
  <2>2. \A m \in Relaunch : seat'[m].status = "absent" <=> seat[m].status = "absent"
    BY <1>0, <1>1
  <2> QED
    BY <1>0, <1>3, <2>1, <2>2 DEF DirectoryInv
<1>6. SeatInv'
  <2>1. envFile' \in Relaunch \cup {"none"} /\ (envFile' # "none" => opening'[envFile'].phase = "ready")
    BY <1>0 DEF SeatInv
  <2>2. ASSUME NEW m \in Relaunch
        PROVE  /\ seat'[m].status \in {"absent", "prepared", "running", "ended"}
               /\ seat'[m].carries \in Relaunch \cup {"none"}
               /\ seat'[m].carries # "none" => opening'[seat'[m].carries].phase = "ready"
               /\ seat'[m].status = "running" => seat'[m].carries # "none"
               /\ seat'[m].carries = "none" => seat'[m].quiet
               /\ seat'[m].rank > 0 <=> seat'[m].status # "absent"
               /\ seat'[m].rank > 0 => opening'[m].phase \in {"session", "minted", "ready", "dead"}
               /\ opening'[m].phase \in {"session", "minted", "ready"} => seat'[m].rank > 0
               /\ seat'[m].rank <= Cardinality(Ranked')
               /\ seat'[m].quiet /\ seat'[m].status \in {"running", "ended"} => opening'[m].phase = "ready"
               /\ seat'[m].quiet /\ seat'[m].status = "ended" => seat'[m].token # "live"
    BY <1>0, <1>1, <1>3 DEF SeatInv
  <2>3. AllAlone' => \A k, m \in Relaunch :
          k # m /\ opening'[k].phase \in {"session", "minted"} => seat'[m].rank < seat'[k].rank
    BY <1>0, <1>2, <1>3 DEF SeatInv
  <2>4. AllAlone' /\ envFile' # "none" => \A m \in Relaunch :
          m # envFile' /\ opening'[m].phase = "ready" => seat'[m].rank < seat'[envFile'].rank
    BY <1>0, <1>2, <1>3 DEF SeatInv
  <2>5. AllAlone' /\ AllQuiet' => \A m \in Relaunch : seat'[m].status = "running" =>
          seat'[m].carries = m \/ seat'[seat'[m].carries].token # "live"
    BY <1>1, <1>2, <1>3 DEF SeatInv
  <2> QED
    BY <2>1, <2>2, <2>3, <2>4, <2>5 DEF SeatInv
<1> QED
  BY <1>4, <1>5, <1>6

\* Agents work in the tree, under a session.
LEMMA EditStep ==
  ASSUME WorkspaceInv, NEW l \in Relaunch, NEW f \in RepoFile, AgentEdits(l, f)
  PROVE  WorkspaceInv'
<1> USE DEF WorkspaceInv
<1>0. /\ UNCHANGED <<source, envFile, opening, seat>> /\ made' = made \cup {f} /\ f \in dest.content
      /\ dest'.kind = dest.kind /\ dest'.content = dest.content /\ dest'.work = dest.work \cup {f}
      /\ DOMAIN dest' = DOMAIN dest /\ seat[l].status = "running"
  BY DEF AgentEdits, WorkspaceTypes
<1>1. Asked' = Asked /\ Filled' = Filled /\ InProgress' = InProgress /\ AllAlone' = AllAlone /\ AllQuiet' = AllQuiet
  BY <1>0 DEF Asked, Filled, InProgress, AllAlone, AllQuiet
<1>2. WorkspaceTypes' /\ SeatInv'
  BY <1>0, <1>1 DEF WorkspaceTypes, SeatInv, Ranked
<1>3. DirectoryInv'
  BY <1>0, <1>1 DEF DirectoryInv
<1> QED
  BY <1>2, <1>3

\* Launches that overlap, die half way or follow one another never lose an agent's work
\* except where two of them copied at once, and a shell opened between launches never
\* acts under the live token of another session.
THEOREM WorkspacesStaySafe == WorkspaceSpec => []WorkspaceSafe
<1>1. WorkspaceInv /\ [WorkspaceNext]_workspaceVars => WorkspaceInv'
  <2> SUFFICES ASSUME WorkspaceInv, [WorkspaceNext]_workspaceVars PROVE WorkspaceInv'
    OBVIOUS
  <2>1. CASE UNCHANGED workspaceVars
    BY <2>1 DEF workspaceVars, WorkspaceInv, WorkspaceTypes, DirectoryInv, SeatInv, AllAlone, AllQuiet,
                Asked, Filled, InProgress, Ranked
  <2>2. ASSUME NEW l \in Relaunch,
               \/ LookAtRepo(l) \/ ReuseRepo(l) \/ EmptyRepo(l) \/ CopyDone(l)
               \/ \E ok \in BOOLEAN : AddWorktree(l, ok) \/ Bind(l, ok)
               \/ \E f \in RepoFile : CopyFile(l, f) \/ AgentEdits(l, f)
               \/ LaunchSession(l) \/ MintToken(l) \/ WriteEnvFile(l) \/ LaunchDies(l)
               \/ CmdShell(l) \/ ShellEnds(l)
        PROVE  WorkspaceInv'
    BY <2>2, LookStep, BuildTurns, CopyEnds, DeathStep, SessionStep, MintStep, EnvStep, ShellStep, EndStep, EditStep
  <2> QED
    BY <2>1, <2>2 DEF WorkspaceNext
<1>2. WorkspaceInv => WorkspaceSafe
  BY DEF WorkspaceInv, DirectoryInv, SeatInv, AllAlone, AllQuiet, Asked, WorkspaceSafe, WorkKept, ShellToken
<1> QED
  BY <1>1, <1>2, WorkspaceInitially, PTL DEF WorkspaceSpec

----------------------------------------------------------------------------
(* The token gate.                                                         *)

\* What the gate saw of a request stays true of it until it is handled; that its token
\* was active does not.
Admissible(t, q) ==
  /\ t \in Token /\ q \in GateRequest
  /\ RouteAction(q) \in TokenScope[t].actions
  /\ RouteAction(q) \notin NeverToken
  /\ TokenScope[t].mode # "operator" => RouteAction(q) \notin AgentForbidden
  /\ PublishBound(TokenScope[t], RouteAction(q), "none")
  /\ Within(TokenScope[t].task, q.task) /\ Within(TokenScope[t].review, q.review)

\* The rows: the doors they come through, the names they may carry.
GateAction == {"record_attempt", "register_artifact", "complete_task", "submit_review", "complete_review",
               "promote_memory_candidate", "secrets_read", "publish_event"}
GateRow ==
  [via : {"manager", "reviewer", "operator", "publisher", "manager_shell", "reviewer_shell", "terminal"},
   action : GateAction, task : {"t1", "t2", "none"}, review : {"r1", "r2", "none"},
   actor : {"alice", "bob", "carol", "human", "none", "unknown", "toolconnect"},
   product : {"none", "toolconnect"}]

\* What a row may say, whichever door it came through.
Attributed(r) ==
  LET who == TokenScope[r.via]
  IN /\ r.action \in AgentForbidden => r.via \in {"operator", "terminal"}
     /\ r.action = "complete_task" => r.actor \in {"carol", "human"}
     /\ r.action = "publish_event" <=> r.via = "publisher"
     /\ r.via \in {"manager", "reviewer"} =>
          /\ r.action # "register_artifact" => r.actor \in {who.actor, "none"}
          /\ Within(who.task, r.task) /\ Within(who.review, r.review)
     /\ r.via = "publisher" => r.product = who.product
     /\ r.via \in {"manager_shell", "reviewer_shell"} /\ r.action = "register_artifact" => r.actor \in GateAgent

GateInv ==
  /\ \A a \in admitted : Admissible(a.token, a.request)
  /\ rows \in Seq(GateRow)
  /\ \A i \in DOMAIN rows : Attributed(rows[i])

\* The four tokens and what each may do.
LEMMA Scopes ==
  /\ Token = {"manager", "reviewer", "operator", "publisher"}
  /\ LET s == TokenScope["manager"]
     IN s.actor = "alice" /\ s.mode = "manager" /\ s.product = "none"
        /\ s.actions = {"read", "record_attempt", "register_artifact"}
  /\ LET s == TokenScope["reviewer"]
     IN s.actor = "bob" /\ s.mode = "reviewer" /\ s.product = "none"
        /\ s.actions = {"read", "record_attempt", "complete_review"}
  /\ LET s == TokenScope["operator"]
     IN s.actor = "carol" /\ s.mode = "operator" /\ s.product = "none"
        /\ s.actions = {"read", "record_attempt", "register_artifact", "complete_review", "complete_task",
                        "promote_memory_candidate"}
  /\ LET s == TokenScope["publisher"]
     IN s.actor = "toolconnect" /\ s.mode = "publisher" /\ s.product = "toolconnect"
        /\ s.actions = {"publish_event"}
BY DEF Token, TokenScope, BuildScope, BuildOperatorScope, BuildPublishScope, ManagerActions, ReviewerActions,
       OperatorActions, GateReads

\* The fields of a request.
LEMMA RequestShape ==
  \A q \in GateRequest :
    /\ q.action \in GateAction
    /\ q.task \in {"t1", "t2", "none"} /\ q.review \in {"r1", "r2", "none"}
    /\ q.claimed \in {"alice", "bob", "carol", "human", "none"}
BY DEF GateRequest, GatePerson, GateAction

\* A handler that does not refuse writes a row whose name can be believed.
LEMMA HandledRow ==
  ASSUME NEW t, NEW q, Admissible(t, q), RecordedActor(TokenScope[t], q) # Refused
  PROVE  LET r == [via |-> t, action |-> q.action, task |-> q.task, review |-> q.review,
                   actor |-> RecordedActor(TokenScope[t], q), product |-> TokenScope[t].product]
         IN /\ r \in GateRow
            /\ Attributed(r)
<1> DEFINE r == [via |-> t, action |-> q.action, task |-> q.task, review |-> q.review,
                 actor |-> RecordedActor(TokenScope[t], q), product |-> TokenScope[t].product]
<1>1. /\ t \in {"manager", "reviewer", "operator", "publisher"} /\ q \in GateRequest
      /\ RouteAction(q) \in TokenScope[t].actions /\ RouteAction(q) # "secrets_read"
      /\ Within(TokenScope[t].task, q.task) /\ Within(TokenScope[t].review, q.review)
  BY Scopes DEF Admissible, NeverToken
<1>2. /\ q.action \in GateAction
      /\ q.claimed \in {"alice", "bob", "carol", "human", "none"}
      /\ q.task \in {"t1", "t2", "none"} /\ q.review \in {"r1", "r2", "none"}
  BY <1>1, RequestShape
<1>3. /\ r.via = t /\ r.action = q.action /\ r.task = q.task /\ r.review = q.review
      /\ r.actor = RecordedActor(TokenScope[t], q) /\ r.product = TokenScope[t].product
  OBVIOUS
<1>4. CASE t = "manager"
  <2>1. q.action \in {"record_attempt", "register_artifact"}
    BY <1>1, <1>2, <1>4, Scopes DEF RouteAction, GateAction
  <2>2. q.action = "record_attempt" => r.actor \in {"alice", "none"}
    BY <1>4, Scopes DEF GateAction, RecordedActor, AssertActor, Refused
  <2>3. r.actor \in {"alice", "bob", "carol", "human", "none", "unknown", "toolconnect"}
    BY <1>2, <2>1, <1>4, Scopes DEF GateAction, RecordedActor, AssertActor, Refused
  <2> QED
    BY <1>1, <1>2, <1>3, <1>4, <2>1, <2>2, <2>3, Scopes DEF GateRow, GateAction, Attributed, AgentForbidden, NeverToken
<1>5. CASE t = "reviewer"
  <2>1. q.action \in {"record_attempt", "submit_review", "complete_review"}
    BY <1>1, <1>2, <1>5, Scopes DEF RouteAction, GateAction
  <2>2. r.actor \in {"bob", "none"}
    BY <1>5, <2>1, Scopes DEF GateAction, RecordedActor, AssertActor, Refused
  <2> QED
    BY <1>1, <1>2, <1>3, <1>5, <2>1, <2>2, Scopes DEF GateRow, GateAction, Attributed, AgentForbidden, NeverToken
<1>6. CASE t = "operator"
  <2>1. q.action \notin {"publish_event", "secrets_read"}
    BY <1>1, <1>2, <1>6, Scopes DEF RouteAction, GateAction
  <2>2. q.action = "complete_task" => r.actor = "carol"
    BY <1>6, Scopes DEF GateAction, RecordedActor
  <2>3. r.actor \in {"alice", "bob", "carol", "human", "none", "unknown", "toolconnect"}
    BY <1>2, <2>1, <1>6, Scopes DEF GateAction, RecordedActor, AssertActor, Refused
  <2> QED
    BY <1>1, <1>2, <1>3, <1>6, <2>1, <2>2, <2>3, Scopes DEF GateRow, GateAction, Attributed
<1>7. CASE t = "publisher"
  <2>1. q.action = "publish_event"
    BY <1>1, <1>2, <1>7, Scopes DEF RouteAction, GateAction
  <2>2. r.actor \in {"alice", "bob", "carol", "human", "none", "unknown", "toolconnect"}
    BY <1>2, <2>1, <1>7, Scopes DEF GateAction, RecordedActor
  <2> QED
    BY <1>1, <1>2, <1>3, <1>7, <2>1, <2>2, Scopes DEF GateRow, GateAction, Attributed, AgentForbidden, NeverToken
<1> QED
  BY <1>1, <1>4, <1>5, <1>6, <1>7

\* A command that the managed shell does not refuse writes a row that can be believed.
LEMMA CliRow ==
  ASSUME NEW mode \in {"manager", "reviewer", "none"},
         NEW action \in {"register_artifact", "complete_review", "complete_task", "promote_memory_candidate"},
         ~RefuseOperatorCommand(mode, action)
  PROVE  LET r == [via |-> Door[mode], action |-> action, task |-> "none", review |-> "none",
                   actor |-> CliActor(mode, action), product |-> "none"]
         IN /\ r \in GateRow
            /\ Attributed(r)
BY DEF RefuseOperatorCommand, Door, CliActor, SessionDefaultActor, Attributed, AgentForbidden, NeverToken, GateAgent, GateRow, GateAction

\* A row more: the rows before it are what they were.
LEMMA RowsGrow ==
  ASSUME GateInv, NEW r, rows' = Append(rows, r), Attributed(r), admitted' \subseteq admitted,
         r \in GateRow
  PROVE  GateInv'
<1>1. /\ rows' \in Seq(GateRow)
      /\ \A i \in DOMAIN rows' : rows'[i] = r \/ (i \in DOMAIN rows /\ rows'[i] = rows[i])
  BY DEF GateInv
<1>2. \A i \in DOMAIN rows' : Attributed(rows'[i])
  BY <1>1 DEF GateInv
<1> QED
  BY <1>1, <1>2 DEF GateInv

\* Whatever is requested through whichever token or shell, and whenever tokens lose
\* their force, the rows of the ledger name who really spoke.
THEOREM RowsAreAttributed == GateSpec => []Attribution
<1>1. GateInit => GateInv
  BY DEF GateInit, GateInv
<1>2. GateInv /\ [GateNext]_gateVars => GateInv'
  <2> SUFFICES ASSUME GateInv, [GateNext]_gateVars PROVE GateInv'
    OBVIOUS
  <2>1. CASE UNCHANGED <<admitted, rows>>
    BY <2>1 DEF GateInv
  <2>2. ASSUME NEW t \in Token, NEW q \in GateRequest, Enforce(t, q) PROVE GateInv'
    <3>1. Admissible(t, q)
      BY <2>2 DEF Enforce, Authorize, Admissible
    <3> QED
      BY <2>2, <3>1 DEF Enforce, GateInv
  <2>3. ASSUME NEW a \in admitted, Handle(a) PROVE GateInv'
    <3>1. Admissible(a.token, a.request) /\ admitted' \subseteq admitted
      BY <2>3 DEF GateInv, Handle
    <3>2. CASE rows' = rows
      BY <3>1, <3>2 DEF GateInv
    <3>3. CASE rows' # rows
      <4> DEFINE r == [via |-> a.token, action |-> a.request.action, task |-> a.request.task,
                       review |-> a.request.review, actor |-> RecordedActor(TokenScope[a.token], a.request),
                       product |-> TokenScope[a.token].product]
      <4>1. RecordedActor(TokenScope[a.token], a.request) # Refused /\ rows' = Append(rows, r)
        BY <2>3, <3>3 DEF Handle
      <4> QED
        BY <3>1, <4>1, HandledRow, RowsGrow
    <3> QED
      BY <3>2, <3>3
  <2>4. ASSUME NEW mode \in {"manager", "reviewer", "none"},
               NEW action \in {"register_artifact", "complete_review", "complete_task", "promote_memory_candidate"},
               Cli(mode, action)
        PROVE  GateInv'
    BY <2>4, CliRow, RowsGrow DEF Cli
  <2> QED
    BY <2>1, <2>2, <2>3, <2>4 DEF GateNext, gateVars, MintAgentToken, MintOperatorToken, MintPublishToken,
                                  LosesForce, Credential
<1>3. GateInv => Attribution
  BY DEF GateInv, Attributed, Attribution
<1> QED
  BY <1>1, <1>2, <1>3, PTL DEF GateSpec
============================================================================
