---------------------------- MODULE RouterTasks ----------------------------
(***************************************************************************)
(* RouterService.submit_task: one thread per task drives it through        *)
(* classification, routing, the human spend gate, quota, dispatch and the  *)
(* result, while other threads cancel it, approve or deny its charge, set  *)
(* the budget and reap rented nodes.  Every write of a task's state goes   *)
(* through the transition authority, so a cancel between two steps stops   *)
(* the thread at its next write (TaskSuperseded).                          *)
(*                                                                         *)
(* A step is the code between two points at which another thread can       *)
(* matter: a state write, a lock, a wait, a call out.                      *)
(***************************************************************************)
EXTENDS RouterPolicy, FiniteSetsExt

CONSTANTS
  RTask,         \* task ids
  Submissions,   \* RTask -> the submissions tried
  Statuses,      \* what the local manager may answer (None: unreachable)
  RemoteWorker,  \* entries of remote_workers.yaml
  RemoteTier,    \* RemoteWorker -> attested tier
  GuardEnforces, \* FASCIA_GUARD_ENFORCE
  MaxBoxes,      \* bound: boxes a vendor ever starts
  MaxBudget      \* bound: the amounts a user enters

Box == 1 .. MaxBoxes

\* a worker of remote_workers.yaml is no provider, and no task or box is absent
ASSUME RouterNames == RemoteWorker \cap Provider = {} /\ None \notin RTask \cup Box

VARIABLES
  rt,            \* per task: the thread and the stored row
  ask,           \* ApprovalQueue._items: the approval a task waits for
  budget,        \* the saved budget, 0 when none
  spent,         \* what total_spend_since reports
  reserved,      \* QuotaLedger._reservations: <<task, provider>>
  used,          \* requests committed per provider
  down,          \* providers whose health is "down"
  pool,          \* NodePool._live
  plock,         \* NodePool._provider_locks: the holder
  box,           \* what the vendor bills: [state, of]
  reap,          \* the box the reaper has terminated and not yet popped
  lost,          \* history: running boxes no longer tracked by the pool
  billed,        \* history: boxes whose window is in the ledger
  sent,          \* history: what reached which model
  yes,           \* history: tasks whose charge a human approved
  charged        \* history: tasks that made a vendor bill

shared == <<budget, spent, reserved, used, down>>
nodes == <<pool, plock, box, reap, lost, billed>>
ghosts == <<sent, yes, charged>>
routerVars == <<rt, ask, shared, nodes, ghosts>>

NoAsk == [kind |-> "none", answer |-> "unset"]

Idle == [pc |-> "idle", state |-> "absent", sub |-> None, class |-> None,
         prov |-> None, status |-> None, retried |-> FALSE]

RouterInit ==
  /\ rt = [t \in RTask |-> Idle]
  /\ ask = [t \in RTask |-> NoAsk]
  /\ budget = 0 /\ spent = 0 /\ reserved = {} /\ down = {}
  /\ used = [p \in Provider |-> 0]
  /\ pool = [p \in Provider |-> None] /\ plock = [p \in Provider |-> None]
  /\ box = [b \in Box |-> [state |-> "none", of |-> None]]
  /\ reap = [p \in Provider |-> None]
  /\ lost = {} /\ billed = {} /\ sent = {} /\ yes = {} /\ charged = {}

----------------------------------------------------------------------------
(* Helpers.                                                                *)

\* _transition: the thread goes on only if the stored row could move.
Move(t, dst, next) ==
  IF Admits(AllowedTransitions(rt[t].state), rt[t].state, dst)
  THEN [rt[t] EXCEPT !.state = dst, !.pc = next]
  ELSE [rt[t] EXCEPT !.pc = "ended"]

At(t, pc) == rt[t].pc = pc

Goto(t, pc) == rt' = [rt EXCEPT ![t].pc = pc]

Write(t, dst, next) == rt' = [rt EXCEPT ![t] = Move(t, dst, next)]

Reject(t) == rt' = [rt EXCEPT ![t] = [Move(t, "REJECTED", "ended") EXCEPT !.status = None]]

Remaining == IF spent > budget THEN 0 ELSE budget - spent

\* QuotaLedger.remaining: committed usage and live reservations both count.
Headroom(p) ==
  RequestCap - used[p] - Cardinality({r \in reserved : r[2] = p})

Gate == BudgetGate(Remaining, budget > 0)

Why(t, p) ==
  IF p \in down THEN "provider_unhealthy"
  ELSE Rejection(p, rt[t].sub, rt[t].class, rt[t].status, Headroom(p), Gate)

Eligible(t) == {p \in Provider : Why(t, p) = ""}

\* What is sent to a model: the redacted artifact to a cloud one, the text to others.
Message(t, p) == [task |-> t, to |-> p, class |-> rt[t].class]

----------------------------------------------------------------------------
(* The pipeline, up to the route.                                          *)

Submit(t, sub) ==
  /\ At(t, "idle")
  /\ rt' = [rt EXCEPT ![t] = [Idle EXCEPT !.pc = "classify",
                                          !.state = "CREATED", !.sub = sub]]
  /\ UNCHANGED <<ask, shared, nodes, ghosts>>

ClassifyTask(t) ==
  /\ At(t, "classify")
  /\ Write(t, "CLASSIFIED", "privacy")
  /\ UNCHANGED <<ask, shared, nodes, ghosts>>

CheckPrivacy(t) ==
  /\ At(t, "privacy")
  /\ rt' = [rt EXCEPT ![t] = [Move(t, "PRIVACY_CHECKED", "gate")
                              EXCEPT !.class = Classify(rt[t].sub)]]
  /\ UNCHANGED <<ask, shared, nodes, ghosts>>

\* Secrets are blocked outright; an enforcing guard blocks what it flags.
Blocked(t) ==
  \/ rt[t].class = "secret_sensitive"
  \/ GuardEnforces /\ rt[t].sub.content = "secret"

GateRejects(t) ==
  /\ At(t, "gate") /\ Blocked(t)
  /\ Reject(t)
  /\ UNCHANGED <<ask, shared, nodes, ghosts>>

\* _select_remote_worker: a worker whose tier may claim the class and which
\* says it has room.  None may have, so the local route stays open.
SelectRemoteWorker(t, w) ==
  /\ At(t, "gate") /\ ~Blocked(t) /\ rt[t].sub.agentic
  /\ RemoteTier[w] \in ClassTiers(rt[t].class)
  /\ rt' = [rt EXCEPT ![t] =
              [Move(t, "ELIGIBLE_PROVIDERS_COMPUTED", "walk") EXCEPT !.prov = w]]
  /\ UNCHANGED <<ask, shared, nodes, ghosts>>

\* _local_status, then the state write.  An unreachable manager is marked
\* down, and nothing marks it up again.
FetchStatus(t, st) ==
  /\ At(t, "gate") /\ ~Blocked(t)
  /\ rt' = [rt EXCEPT ![t] =
              [Move(t, "ELIGIBLE_PROVIDERS_COMPUTED", "route") EXCEPT !.status = st]]
  /\ down' = IF st = None THEN down \cup {p \in Provider : KindOf[p] = "owned"}
             ELSE down
  /\ UNCHANGED <<ask, budget, spent, reserved, used, nodes, ghosts>>

\* _route_with_budget_prompt, either pass.
Route(t) ==
  /\ At(t, "route")
  /\ \/ \E p \in Eligible(t) :
          /\ rt' = [rt EXCEPT ![t].prov = p, ![t].pc = "routed", ![t].status = None]
          /\ UNCHANGED ask
     \/ /\ Eligible(t) = {} /\ ~rt[t].retried
        /\ \E p \in Provider : Why(t, p) = "budget_not_configured"
        /\ rt' = [rt EXCEPT ![t].pc = "wait"]
        /\ ask' = [ask EXCEPT ![t] = [kind |-> "budget", answer |-> "unset"]]
     \/ /\ Eligible(t) = {}
        /\ rt[t].retried \/ \A p \in Provider : Why(t, p) # "budget_not_configured"
        /\ Reject(t) /\ UNCHANGED ask
  /\ UNCHANGED <<shared, nodes, ghosts>>

\* The agentic guard comes before any charge; paid and rented need a human.
AfterRoute(t) ==
  /\ At(t, "routed")
  /\ LET p == rt[t].prov IN
     IF rt[t].sub.agentic /\ ~AgenticAllowed(p, rt[t].sub)
     THEN Reject(t) /\ UNCHANGED ask
     ELSE IF IsPaid(p) \/ IsRented(p)
     THEN /\ Goto(t, "wait")
          /\ ask' = [ask EXCEPT ![t] = [kind |-> "charge", answer |-> "unset"]]
     ELSE Goto(t, "reserve") /\ UNCHANGED ask
  /\ UNCHANGED <<shared, nodes, ghosts>>

----------------------------------------------------------------------------
(* The human in the loop (ApprovalQueue, WebApprovalAuthorizer).           *)

\* resolve(), from the approval page: first answer wins.  The page finds the
\* item as long as its waiter has not removed it, the time-out included.
Resolve(t, answer) ==
  /\ ask[t].kind # "none" /\ ask[t].answer = "unset"
  /\ ask' = [ask EXCEPT ![t].answer = answer]
  /\ yes' = IF ask[t].kind = "charge" /\ answer = "yes" THEN yes \cup {t} ELSE yes
  /\ UNCHANGED <<rt, shared, nodes, sent, charged>>

\* The event was set: the waiter removes the item and acts on the answer.
Answered(t) ==
  /\ At(t, "wait") /\ ask[t].answer # "unset"
  /\ ask' = [ask EXCEPT ![t] = NoAsk]
  /\ \/ /\ ask[t] = [kind |-> "charge", answer |-> "yes"]
        /\ Goto(t, "reserve") /\ UNCHANGED budget
     \/ /\ ask[t] = [kind |-> "budget", answer |-> "yes"]
        /\ \E amount \in 1 .. MaxBudget : budget' = amount
        /\ rt' = [rt EXCEPT ![t].pc = "route", ![t].retried = TRUE]
     \/ /\ ask[t].answer = "no"
        /\ Reject(t) /\ UNCHANGED budget
  /\ UNCHANGED <<spent, reserved, used, down, nodes, ghosts>>

\* Slip: the wait has no time-out.
WaitForever(t) == FALSE /\ UNCHANGED routerVars

\* The wait ran out with the event unset; the item is still listed.
WaitTimesOut(t) ==
  /\ At(t, "wait") /\ ask[t].answer = "unset"
  /\ Goto(t, "give_up")
  /\ UNCHANGED <<ask, shared, nodes, ghosts>>

\* Slip: a charge nobody answered goes through.
GiveUpOpen(t) ==
  /\ At(t, "give_up")
  /\ ask' = [ask EXCEPT ![t] = NoAsk]
  /\ IF ask[t].kind = "budget" THEN Reject(t) ELSE Goto(t, "reserve")
  /\ UNCHANGED <<shared, nodes, ghosts>>

\* Whatever was answered meanwhile, no is what the waiter returns.
GiveUp(t) ==
  /\ At(t, "give_up")
  /\ ask' = [ask EXCEPT ![t] = NoAsk]
  /\ Reject(t)
  /\ UNCHANGED <<shared, nodes, ghosts>>

\* set_budget, at any time.
SetBudget ==
  /\ \E amount \in (1 .. MaxBudget) \ {budget} : budget' = amount
  /\ UNCHANGED <<rt, ask, spent, reserved, used, down, nodes, ghosts>>

----------------------------------------------------------------------------
(* Quota and the walk to RUNNING.                                          *)

\* reserve(): the headroom is read under one lock ...
CheckQuota(t) ==
  /\ At(t, "reserve")
  /\ LET p == rt[t].prov IN
     CASE KindOf[p] # "cloud" -> Goto(t, "walk")
       [] KindOf[p] = "cloud" /\ Headroom(p) >= 1 -> Goto(t, "insert")
       [] OTHER -> Reject(t)
  /\ UNCHANGED <<ask, shared, nodes, ghosts>>

\* ... and the reservation entered under another.
InsertReservation(t) ==
  /\ At(t, "insert")
  /\ reserved' = reserved \cup {<<t, rt[t].prov>>}
  /\ Goto(t, "walk")
  /\ UNCHANGED <<ask, budget, spent, used, down, nodes, ghosts>>

\* A reservation outlives its ttl: any later read drops it.
ExpireReservation(r) ==
  /\ r \in reserved
  /\ reserved' = reserved \ {r}
  /\ UNCHANGED <<rt, ask, budget, spent, used, down, nodes, ghosts>>

\* Consecutive writes with nothing in between are one step: a cancel between
\* two of them stops the thread as a cancel before the first does.
MoveAlong(t, path, next) ==
  IF \A i \in 1 .. Len(path) :
       path[i] \in AllowedTransitions(IF i = 1 THEN rt[t].state ELSE path[i - 1])
  THEN [rt[t] EXCEPT !.state = path[Len(path)], !.pc = next]
  ELSE [rt[t] EXCEPT !.pc = "ended"]

Walk(t) ==
  /\ At(t, "walk")
  /\ LET next == IF rt[t].prov \in RemoteWorker THEN "remote"
                 ELSE IF IsRented(rt[t].prov) THEN "reap" ELSE "call"
     IN rt' = [rt EXCEPT ![t] = MoveAlong(t, <<"QUEUED", "DISPATCHED", "RUNNING">>, next)]
  /\ UNCHANGED <<ask, shared, nodes, ghosts>>

----------------------------------------------------------------------------
(* Dispatch.                                                               *)

\* runtime.run on a remote worker: the whole submission, no quota.  A
\* failure after acceptance is final, never a silent re-run.
RunRemote(t) ==
  /\ At(t, "remote")
  /\ sent' = sent \cup {Message(t, rt[t].prov)}
  /\ \E r \in {"ok", "failed"} : Goto(t, r)
  /\ UNCHANGED <<ask, shared, nodes, yes, charged>>

\* A call through the gateway; the call may fail after the text has gone.
CallGateway(t) ==
  /\ At(t, "call")
  /\ sent' = sent \cup {Message(t, rt[t].prov)}
  /\ charged' = IF IsPaid(rt[t].prov) THEN charged \cup {t} ELSE charged
  /\ \E r \in {"ok", "failed"} : Goto(t, r)
  /\ UNCHANGED <<ask, shared, nodes, yes>>

\* An agentic worker on an owned model may delegate: the child runs on the
\* same model under a clamped class, and not at all as secret_sensitive.
DelegateChild(t, proposed) ==
  /\ At(t, "call") /\ rt[t].sub.agentic
  /\ LET class == ChildPrivacyClass(rt[t].class, proposed) IN
     /\ class # "secret_sensitive"
     /\ sent' = sent \cup {[Message(t, rt[t].prov) EXCEPT !.class = class]}
     /\ sent' # sent
  /\ UNCHANGED <<rt, ask, shared, nodes, yes, charged>>

----------------------------------------------------------------------------
(* Rented nodes (NodePool).                                                *)

\* Every rented dispatch first reaps idle nodes in the task's own thread: its reaping
\* is the reaper's steps below while it is here, and then it goes on ...
ReapInline(t) ==
  /\ At(t, "reap")
  /\ Goto(t, "acquire")
  /\ UNCHANGED <<ask, shared, nodes, ghosts>>

\* ... unless the vendor's terminate raises, whether or not the node is gone.  The
\* one-shot path fails its task; the agentic one calls outside its try, so that the
\* exception leaves submit_task and nothing writes the row again.
ReapRaises(t, p) ==
  /\ At(t, "reap") /\ pool[p] # None
  /\ \E gone \in BOOLEAN : box' = [box EXCEPT ![pool[p]].state = IF gone THEN "gone" ELSE @]
  /\ Goto(t, IF rt[t].sub.agentic THEN "raised" ELSE "failed")
  /\ UNCHANGED <<ask, shared, pool, plock, reap, lost, billed, ghosts>>

\* acquire(), reuse: a ready node is in the pool and nobody is provisioning.
AcquireReuse(t) ==
  /\ At(t, "acquire") /\ plock[rt[t].prov] = None /\ pool[rt[t].prov] # None
  /\ Goto(t, "serve")
  /\ UNCHANGED <<ask, shared, nodes, ghosts>>

\* Slip: check and provision are not one reservation.
AcquireUnlocked(t) ==
  /\ At(t, "acquire") /\ pool[rt[t].prov] = None
  /\ \E b \in Box :
       /\ box[b].state = "none" /\ \A c \in 1 .. b - 1 : box[c].state # "none"
       /\ box' = [box EXCEPT ![b] = [state |-> "boot", of |-> t]]
  /\ charged' = charged \cup {t}
  /\ Goto(t, "boot")
  /\ UNCHANGED <<ask, shared, pool, plock, reap, lost, billed, sent, yes>>

\* acquire(), provision: under the provider's lock, which the wait for the
\* node to come up keeps.
AcquireProvision(t) ==
  /\ At(t, "acquire")
  /\ plock[rt[t].prov] = None /\ pool[rt[t].prov] = None
  /\ \E b \in Box :
       /\ box[b].state = "none" /\ \A c \in 1 .. b - 1 : box[c].state # "none"
       /\ box' = [box EXCEPT ![b] = [state |-> "boot", of |-> t]]
  /\ plock' = [plock EXCEPT ![rt[t].prov] = t]
  /\ charged' = charged \cup {t}
  /\ Goto(t, "boot")
  /\ UNCHANGED <<ask, shared, pool, reap, lost, billed, sent, yes>>

Booting(t, b) == box[b] = [state |-> "boot", of |-> t]

\* wait_ready returned: the handle is stored, then the lock released.
NodeReady(t) ==
  /\ At(t, "boot")
  /\ \E b \in Box : Booting(t, b) /\ pool' = [pool EXCEPT ![rt[t].prov] = b]
                    /\ box' = [box EXCEPT ![b].state = "up"]
  /\ plock' = [plock EXCEPT ![rt[t].prov] = None]
  /\ Goto(t, "bill")
  /\ UNCHANGED <<ask, shared, reap, lost, billed, ghosts>>

\* wait_ready raised: nothing was stored and nothing terminates the box.
NodeNeverReady(t) ==
  /\ At(t, "boot")
  /\ \E b \in Box : Booting(t, b) /\ box' = [box EXCEPT ![b].state = "up"]
                    /\ lost' = lost \cup {b}
  /\ plock' = [plock EXCEPT ![rt[t].prov] = None]
  /\ Goto(t, "failed")
  /\ UNCHANGED <<ask, shared, pool, reap, billed, ghosts>>

\* record_rental_window, for the task that provisioned.
BillWindow(t) ==
  /\ At(t, "bill")
  /\ billed' = billed \cup {b \in Box : box[b].of = t}
  /\ spent' = spent + CallCost
  /\ Goto(t, "serve")
  /\ UNCHANGED <<ask, budget, reserved, used, down, pool, plock, box, reap, lost, ghosts>>

\* The agentic path makes its client before it bills: if that fails, the
\* node stays pooled and unbilled.
ClientFails(t) ==
  /\ At(t, "bill") /\ rt[t].sub.agentic
  /\ Goto(t, "failed")
  /\ UNCHANGED <<ask, shared, nodes, ghosts>>

ServeRented(t) ==
  /\ At(t, "serve")
  /\ sent' = sent \cup {Message(t, rt[t].prov)}
  /\ Goto(t, "ok")
  /\ UNCHANGED <<ask, shared, nodes, yes, charged>>

\* The node failed: evict whatever the pool holds for the provider; the
\* terminate is best effort.
EvictNode(t) ==
  /\ At(t, "serve")
  /\ LET b == pool[rt[t].prov] IN
     \/ /\ b # None
        /\ \E gone \in BOOLEAN :
             /\ box' = [box EXCEPT ![b].state = IF gone THEN "gone" ELSE @]
             /\ lost' = IF gone \/ box[b].state = "gone" THEN lost ELSE lost \cup {b}
     \/ b = None /\ UNCHANGED <<box, lost>>
  /\ pool' = [pool EXCEPT ![rt[t].prov] = None]
  /\ Goto(t, "failed")
  /\ UNCHANGED <<ask, shared, plock, reap, billed, ghosts>>

\* reap_idle: a node whose last use is old, which a long run does not
\* refresh, is terminated first ...
ReapTerminate(p) ==
  /\ pool[p] # None /\ reap[p] = None
  /\ reap' = [reap EXCEPT ![p] = pool[p]]
  /\ box' = [box EXCEPT ![pool[p]].state = "gone"]
  /\ UNCHANGED <<rt, ask, shared, pool, plock, lost, billed, ghosts>>

\* ... and then whatever the pool holds by now is dropped; the time beyond
\* the billed window is trued up.
ReapPop(p) ==
  /\ reap[p] # None
  /\ lost' = IF pool[p] \notin {None, reap[p]} THEN lost \cup {pool[p]} ELSE lost
  /\ pool' = [pool EXCEPT ![p] = None]
  /\ reap' = [reap EXCEPT ![p] = None]
  /\ UNCHANGED <<rt, ask, shared, plock, box, billed, ghosts>>

----------------------------------------------------------------------------
(* The result, and the cancel.                                             *)

\* reconcile(): the reservation goes and actual usage is committed.
ReconcileOk(t) ==
  /\ At(t, "ok")
  /\ LET p == rt[t].prov IN
     IF p \in RemoteWorker \/ KindOf[p] # "cloud"
     THEN UNCHANGED <<reserved, used, spent>>
     ELSE /\ reserved' = reserved \ {<<t, p>>}
          /\ used' = [used EXCEPT ![p] = @ + 1]
          /\ spent' = IF IsPaid(p) THEN spent + CallCost ELSE spent
  /\ Goto(t, "finish")
  /\ UNCHANGED <<ask, budget, down, nodes, ghosts>>

ReconcileFailed(t) ==
  /\ At(t, "failed")
  /\ reserved' = {r \in reserved : r[1] # t}
  /\ Write(t, "FAILED", "ended")
  /\ UNCHANGED <<ask, budget, spent, used, down, nodes, ghosts>>

\* To COMPLETE; an agentic worker that stopped short fails its task.
Finish(t) ==
  /\ At(t, "finish")
  /\ \/ rt' = [rt EXCEPT ![t] =
          MoveAlong(t, <<"ARTIFACTS_WRITTEN", "CHECKS_RUN", "REVIEW_READY",
                         "APPROVED", "COMPLETE">>, "ended")]
     \/ rt[t].sub.agentic /\ Write(t, "FAILED", "ended")
  /\ UNCHANGED <<ask, shared, nodes, ghosts>>

\* cancel_task: a no-op on a terminal task.
CancelTask(t) ==
  /\ rt[t].state \notin RouterTerminal \cup {"absent"}
  /\ rt' = [rt EXCEPT ![t].state = "CANCELLED"]
  /\ UNCHANGED <<ask, shared, nodes, ghosts>>

Pipeline(t) ==
  \/ ClassifyTask(t) \/ CheckPrivacy(t) \/ GateRejects(t)
  \/ \E w \in RemoteWorker : SelectRemoteWorker(t, w)
  \/ \E st \in Statuses : FetchStatus(t, st)
  \/ Route(t) \/ AfterRoute(t) \/ Answered(t) \/ WaitTimesOut(t) \/ GiveUp(t)
  \/ CheckQuota(t) \/ InsertReservation(t) \/ Walk(t)
  \/ RunRemote(t) \/ CallGateway(t)
  \/ ReapInline(t) \/ \E p \in Provider : ReapRaises(t, p)
  \/ AcquireReuse(t) \/ AcquireProvision(t) \/ NodeReady(t) \/ NodeNeverReady(t)
  \/ BillWindow(t) \/ ClientFails(t) \/ ServeRented(t) \/ EvictNode(t)
  \/ ReconcileOk(t) \/ ReconcileFailed(t) \/ Finish(t)

RouterEnv ==
  \/ \E t \in RTask : \E sub \in Submissions[t] : Submit(t, sub)
  \/ \E t \in RTask : CancelTask(t) \/ \E a \in {"yes", "no"} : Resolve(t, a)
  \/ \E t \in RTask, c \in PrivacyClass : DelegateChild(t, c)
  \/ \E r \in reserved : ExpireReservation(r)
  \/ SetBudget
  \/ \E p \in Provider : ReapTerminate(p) \/ ReapPop(p)

RouterNext == RouterEnv \/ \E t \in RTask : Pipeline(t)

RouterSpec == RouterInit /\ [][RouterNext]_routerVars

\* The thread of a task runs; the human, the manager and the reaper need not.
RouterFairness == \A t \in RTask : WF_routerVars(Pipeline(t))

----------------------------------------------------------------------------
(* Properties.                                                             *)

\* What reaches a model: never a secret-sensitive task; a hard secret only when the
\* submitter declared the class of the task himself and no enforcing guard is there,
\* and never through a cloud model as low_sensitive (a task declared public takes it
\* there, redacted); restricted and repository-sensitive text stays on owned nodes
\* but for trusted rented ones the task opted into; an agentic trace never goes to a
\* cloud model (router/service.py, §13).
PrivacyBoundary ==
  \A m \in sent :
    LET sub == rt[m.task].sub
        tier == IF m.to \in RemoteWorker THEN RemoteTier[m.to] ELSE PrivacyOf[m.to]
    IN /\ m.class # "secret_sensitive"
       /\ HardSecret(sub) => sub.declared # None
       /\ GuardEnforces => sub.content # "secret"
       /\ m.to \in Provider /\ KindOf[m.to] = "cloud" =>
            /\ sub.external /\ ~sub.agentic
            /\ m.class = "low_sensitive" => sub.content # "secret"
       /\ m.class \in {"restricted", "repo_sensitive"} =>
            \/ tier = "local_only"
            \/ m.class = "repo_sensitive" /\ m.to \in Trusted /\ sub.rented

\* No vendor is ever made to bill for a task whose charge no human approved,
\* whatever the time-out, a late answer, a cancel or another task's approval
\* do (authorization.py: every charge passes a gate the user controls).
SpendConfirmed == charged \subseteq yes

\* A provider never has two tracked boxes: concurrent acquires provision one
\* (NodePool's reservation), whatever the reaper and evictions do.
OneBox ==
  \A b, c \in Box :
    /\ b # c
    /\ box[b].state \in {"boot", "up"} /\ b \notin lost
    /\ box[c].state \in {"boot", "up"} /\ c \notin lost
    => rt[box[b].of].prov # rt[box[c].of].prov

\* Every submitted task comes to rest: a human who never answers, a node that never
\* boots or a lock do not leave it in flight.  The one exception is the agentic task
\* whose thread the reaping of other nodes ended: its row stays at RUNNING.
Settles ==
  \A t \in RTask :
    rt[t].state = "CREATED" ~>
      \/ rt[t].state \in RouterTerminal \cup {"REJECTED"}
      \/ At(t, "raised") /\ rt[t].sub.agentic /\ IsRented(rt[t].prov)

\* Claimed by quota.py: reserving before the call keeps concurrent agents
\* within a shared quota.
QuotaWithinCap ==
  \A p \in Provider :
    used[p] + Cardinality({r \in reserved : r[2] = p}) <= RequestCap

============================================================================
