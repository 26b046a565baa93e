# AgentConnect: a TLA+ verification project

AgentConnect coordinates AI agents. A *router* takes tasks and pushes them to
models or puts them on a federated *work queue* that remote workers pull from;
a *backplane* keeps a ledger of tasks, subtasks, reviews, approvals, worker
runs and sessions that several managers (agents and humans) share; around them
stand a model manager, an agent runtime, durable workflows, a memory stack with
a safety scan, an event bus, a tool governor and a mirror on an issue tracker.
The state is in SQLite, is used from several threads and processes at once, and
is committed in small steps. This project models the parts where that is hard,
checks them with TLC and proves their safety with TLAPS, for every value of the
constants.

## 1. Inventory

Paths are below `src/packages/`; `core/`, `common/` and `safety/` stand for
`agentconnect-core/src/agentconnect/{core,common,safety}/`, `router/`,
`runtime/`, `temporal/`, `linear/`, `api/` and `cli/` for the packages of those names.

| Component | State | Operations | What is hard | What makes it correct |
|---|---|---|---|---|
| Work queue broker, `common/workqueue.py` | `work_queue` rows (status, lease, attempts, result), `work_queue_deps`, the linked `tasks.state`, evaluations | add, claim, claim_next, renew, report, approve, reject, link, cancel_for_task, reap_expired | several brokers over one file; a method is several commits; leases expire under a report; reports are repeated | attempts bounded, nothing untrusted becomes truth unreviewed, dependencies before dependents, no cycle, no laundering of classes, tasks tell the truth, everything ends |
| Transition authority, `common/transitions.py`, `core/transition_vocab.py`, `common/memory.py` | the state columns and their logs | transition, advance, converge, cancel; transition_task | two processes write one row; a log row per write | terminal states are final; the log tells all |
| Subtask ledger, `core/service.py`, `core/execution.py`, `core/storage.py` | subtasks, approvals, worker_runs, executions, the task's status | submit, route, run, record result, release, cascade, approve, deny, expire, cancel, complete, reconcile | no lock spans a method; retries; late results; signals; crashes | a subtask runs once, after its dependencies, paid only with a grant; late results are dropped; nobody waits for ever |
| Workflows, `temporal/` | workflow history (external), handle rows | start, route, ask, wait, run, cancel, review; signals | retries of activities whose threads go on; signals before or without a handle | reports match the ledger, no wait without a cause, a signal is no grant |
| Worker routing, `core/routing.py` | none | route: gates, then a score | - | approval and budget gates |
| Claims, decisions and reviews, `core/claims.py`, `decisions.py`, `reviews.py`, `service.py` | claims, decisions, reviews, inbox | claim_task, release_task, record_decision, request_review, claim_review, complete_review | check-then-act over several rows | one primary manager per process; a verdict stands |
| Sessions, tokens, audit, `core/sessions.py`, `audit.py`, `service.py` | sessions, capability tokens | launch_session, start_shell, end_shell, mint, authorize, abandon, reconcile, complete_task | two sweeps and a normal end race | no live token after the shell; completion is evidenced and announced once |
| Request gate, `api/authz.py`, `cli/main.py` | - | enforce, authorize, assert_actor, the CLI's guards | revocation between gate and handler; bodies that name actors | rows carry the right name |
| Workspaces, `core/workspace.py`, `cli/main.py` shell | the task's directory, its env file | build, launch, shell | launches that overlap or die half way | an agent's edits survive; a shell acts under its own token |
| Router pipeline, `router/service.py`, `routing.py`, `gateway.py` | tasks, artifacts, decisions | submit, enqueue_task, cancel_task | fallbacks, the dedup race, cancel against progress | text goes only where its class allows; every task comes to rest; no orphan task |
| Quota, budget, spend approvals, node pool: `common/quota.py`, `budget.py`, `approval.py`, `router/provisioning.py` | reservations, usage, pending items, live nodes | reserve, reconcile, submit, resolve, acquire, evict, reap_idle | check and insert under separate locks; time-out against a late answer; reaping against reuse | caps, no unapproved charge, one box per provider |
| Model manager, `agentconnect-model-manager` | resident model, slots, counters | load, unload, generate | locks released while weights load | never more generations than slots |
| Pull worker, `runtime/pull_worker.py`, `transport.py` | current lease | claim, heartbeat, run, report | lost requests and answers, leases that end meanwhile | no empty completion; every pulled ticket ends |
| Agent runtime, `runtime/graph.py`, `agent.py` | graph state and checkpoint, workspace, grants | decide, act, authorize, redeem, execute, record, finalize | crashes between redemption, effect and record; tools that raise | no ungoverned effect, truthful records and results |
| Governed worker runs, `core/toolconnect_client.py`, `local_compute.py`, `workers.py`, `service.py`, `runtime/transport.py` | decisions, outputs, the run's report, the worker app's counter | authorize, redeem, run, store, record | unreadable, late or absent answers; a cancel before the report lands | fail closed; success only with a stored output, of a run nobody ended; slots come back |
| Memory stack and safety, `core/memory.py`, `context.py`, `safety/` | claims and their standing, indexes, packs | capture, promote, recall, rank, scan | indexes that lag, engines that fail, texts that share a key | trust is earned, no key lost in silence, secrets found in items masked |
| Event bus and shadow mode, `core/observability/`, `storage.py`, `api/routes_events.py`, `core/control_shadow.py` | event_log, cursors, shadow records | append, publish, tail, evaluate | readers race writers and restarts | gapless streams, a skeleton that rebuilds the ledger, withheld text stays withheld |
| Linear mirror, `linear/` | external refs, issues | sync_task, webhook commands | late, repeated or crossing commands; a tier that rises under a sync | the mirror is never ahead, a raised tier stops what leaves, decisions stand |
| MCP and HTTP adapters, rendering, secret store, exporters | - | pass calls on | - | not modelled |

The parts interact as follows. The router mints a task and adds a ticket;
the broker mirrors the ticket's outcome back to `tasks.state`; cancel_task
writes the task and then calls cancel_for_task; pull workers claim over HTTP and
run the agent loop, whose tools the governor admits. The backplane routes a
subtask and starts it through an execution backend: the direct one runs it
inside the call, the workflow server calls back with activities. A success
releases the subtasks that waited for it; a failure cascades. Approvals travel
as signals to the execution that waits, and may come from the issue tracker. A
worker's run is given a context pack; every transition leaves a row on the bus,
which streams, the operator page and the shadow evaluation read.

The hazards are listed with their lines in `PROJECT.json`.

## 2. Modules

| Module | Models |
|---|---|
| `Tickets` | constants, vocabularies, guards and the row each UPDATE of workqueue.py leaves; shared by the queue specifications and the pull worker |
| `WorkQueue` | one broker process: methods under the store's lock, their commits one by one, crashes in between, the clock, the reaper |
| `TicketContract` | what the submitter of a ticket may rely on: no leases, rows or mirrors; `WorkQueue` implements it |
| `BrokerProcs` | several broker processes over one database: every method that reads first and writes later is two actions |
| `PullWorker` | contributors' workers and the broker's queue endpoints over a wire that loses, delays and refuses |
| `Transitions` | the four verbs of the transition authority and the ledger's vocabularies |
| `TaskStateLog` | the task store's compare-and-set, its log rows and the mirrored bus rows, in several processes |
| `SubtaskLedger` | the subtasks of one task, driven by several callers, one storage call per step |
| `Workflows` | SubtaskWorkflow and ReviewWorkflow against the ledger's entities |
| `TaskLedger`, `Sessions` | one task's claims, decisions and reviews; its sessions, tokens, audit and completion (extends the former) |
| `TokenGate` | tokens, the API's gate and handlers, the CLI's guards, and the rows they leave |
| `Workspaces` | launches, the materialised directory, the env file and the shells |
| `RouterPolicy` | privacy classes and tiers, redaction, eligibility and the budget gate, as operators |
| `RouterTasks` | submitted tasks from classification to verdict, with quota, approvals, node pool and gateway (extends `RouterPolicy`) |
| `RouterEnqueue` | enqueue_task under one dedup key |
| `Residency` | the model manager's threads |
| `SafetyScan`, `ContextPack` | the safety pipeline as operators; the memory stack and the packs built from it |
| `AgentLoop` | one run of the agent graph with its governor, records and checkpoints |
| `WorkerRuns` | the ledger's and the remote worker's governed runs |
| `EventBus`, `ControlShadow` | the event log with its writers and readers; the shadow evaluation that tails it |
| `LinearSync` | the issue mirror, its commands, and the parked subtasks they decide |
| `WorkQueueProofs`, `BrokerProofs` | the theorems about `WorkQueue`; about `BrokerProcs` and `PullWorker`; both extend `TicketsProofs`, the lemmas about rows and edges |
| `SubtaskLedgerProofs`, `SessionsProofs`, `RouterProofs` | the theorems about `SubtaskLedger`; `Sessions` with `TaskLedger`; `RouterTasks` and `RouterEnqueue` |
| `ServiceProofs` | the theorems about `Residency`, `WorkerRuns`, `AgentLoop`, `Workflows`, `ControlShadow`, `EventBus` and `ContextPack` |
| `BackplaneProofs` | the theorems about `LinearSync`, `TaskStateLog`, `Workspaces` and `TokenGate` |
| `MC...` | small instances |

An operator introduced by a comment that begins with "Slip" is a mistake that
could plausibly be made in the definition that follows it; nothing uses it.
`PROJECT.json` ("mutants") names the property that notices each one.

**Queue state.** `row` is the table row; a lease keeps `ttl`, the distance to
its expiry, instead of the time. Only the sign is tested: the code compares
`lease_expires_at > now` in report and renew and `< now` in the reaper, so at
`ttl = 0` neither acts. Tokens are numbered per ticket in the order they are
minted (the code draws random ones), which makes "the latest lease" a number.
`granted`, `approved`, `scores` and `rounds` are history. Privacy classes and tiers are
constants; payloads, capabilities and priorities are left out: they choose
among claimable tickets, and the model lets any be chosen.

**Queue steps.** In `WorkQueue`, `todo` holds the commits a method has still to
make after the first one (evaluation, mirror, cascade, the three sweeps of the
reaper). While it is not empty the lock is held and no other method runs. A
crash, or a store error that propagates, drops it. `cancel_task` releases the
lock between its two halves, which is `cancelling`. In `BrokerProcs` every
broker has its own lock, so `op` holds what a method has read and other brokers
run before it writes.

**Pull worker.** `wire` holds requests on their way; an answer changes the worker
in the step that handles the request, unless a fault loses it. One ticket without
dependencies; reviews are left to `WorkQueue`. `MaxFaults` bounds lost requests,
lost answers, busy stores and deaths together.

**Ledger steps.** In `SubtaskLedger` `todo[p]` is a stack of the steps caller `p`
has yet to make; in `TaskLedger` and `Sessions` `pend` holds what is left of each
call. Each step is one storage call, or one read that decides. Reads of one row
by one caller that follow each other directly are one step. An exception (a
refused strict transition, a Conflict) drops the rest, as it leaves the
Python call stack; a crash does the same. `transaction()` is a lock of one process, so
in `TaskLedger` a span of one process excludes only the spans of the same one: claim_task
and launch_session look for another primary in one step and insert in a later one, and
another `Process` may run in between. The worker's result, the router's
choice and the tool governor's verdict are nondeterministic.

**Workflows.** `wf` and `review` are the two workflows' local state, `harness` the
threads of run_worker attempts (a timed-out attempt's thread goes on), `signals`
what is on its way, `execution` the handle row, `missed` a signal that found no
handle, `forged` one sent by hand through the API.

**Task store.** `CasAttempts` is 2 here and 3 in the code, so that giving up
happens; the last stretch of the state machine is modelled.

**Router.** Consecutive writes of `tasks.state` by one thread with no decision in
between are one step. Candidates are tried in any order that eligibility permits,
because the scores are left open. A provider's status is read once per submission
and may be stale; a failed probe marks it down for good, as in the code. Requests stand for
requests and tokens. A box that a time-out in wait_ready, a failed terminate or a
late pop leaves running and untracked is `lost`. Remote workers get the whole
submission. An agentic task on a rented node first reaps the idle ones in its own thread, outside
the `try` that turns errors into a FAILED task; a terminate that raises there ends the
thread (`raised`). The guard's `enforce` mode is the constant `GuardEnforces`, off by
default in the code and in the run.

**Memory and safety.** A text is the set of passages in it, an engine the categories it
detects; a scan may find an engine failed, missing, or unable to place what it found.
`standing` is the authority's word on a claim, the indexes lag behind it. Items are
merged by `KeyOf`, what _normalize leaves of a text: two texts may share a key, and a
text without a Latin letter or digit has none. Of items with one key and one rank any may
stand. A pack is drafted (`Drafts`), then scanned and labelled (`BuildContextPack`). One
that a manager pulls may carry the handoff, which is not scanned; of the handoff only the
locked decisions are modelled (attempts, constraints and artifact summaries travel in it
the same way). Nothing else moves while a pack is looked at: nothing reads one back.

**Agent loop.** A call goes through gate, authorize, redeem, execute and record, each
of which may fail, lose its answer or be the place of a crash. Two tools stand for
all: a shell that may or may not be allowed to run (run_tests is such a command), and
write_file. A command may leave files that no state of the run knows of, and so may a
write that fails half way. A tool may raise: its grant is used up, there is no record,
and the error leaves the graph. The last checkpoint is one step, and the hand-back of the
result, which removes checkpoint and workspace, another; after a crash between them the
task is dispatched again as a new run with an empty tracker. A linked run carries one grant for
one use. `MaxCrashes` bounds crashes and such dispatches together.

**Worker runs.** `prep` follows one run from the governor's answers to the ledger: the
harness stores its output (a local model does so before it builds its report, and may
still raise), the report is recorded later, and a cancel in between makes _record_result
discard it (`ended`, `discarded`). The artifact stays in each of those cases.

**Event bus.** A row's seq is its index. A consumer is a stream or an operator page,
which share nothing but the log. The emitter's in-process dedupe set is left out: no
event is observed twice in the model. In `ControlShadow` a placement may name a location
that the tier map does not know, or none at all, and such a record has no verdict.

**Linear mirror.** `secret` says whether the task's effective privacy is
secret_sensitive; it rises once, when a stricter subtask is added (`RaiseTier`), between
any two steps of a sync. A syncer that has read the task before goes on with what it
read; an issue's body is rewritten by the next sync, its comments stay. The handoff of a
completion comment is read after the flag that withholds it. post_memory_update and
post_audit have no callers and are left out.

**Compositions.** `MCContributors`, `MCSessions`, `MCServices` and `MCRouter` put parts
that share no state side by side; `focus` says which of them a behaviour is about,
and the others rest. Where components do share state they are one specification
(`Sessions` over `TaskLedger`, `RouterTasks` over `RouterPolicy`, `ContextPack` over
`SafetyScan`, `BrokerProcs`, `WorkQueue` and `PullWorker` over `Tickets`).

## 3. Runs

Bounds are the constants of each `.cfg`.

| Run | Instance | Shows |
|---|---|---|
| `queue_safety` | 2 tickets with tasks, 2 attempts, 1 worker, 2 tiers, 1 crash; 2.0 million states | `QueueSafe` (attempts, verification gate, dependency gate, acyclicity, scores, truthful mirror), finality, cascades that spare live work, and the refinement of `TicketContract` |
| `queue_privacy` | 3 tickets: public, local-only, unclaimable; link and renew to the cap | the inductive invariant of the proofs (types included), and no laundering along chains |
| `queue_liveness` | 2 tickets, 1 attempt, 1 crash, fairness | tasks catch up, dependents of the dead end, leases come back |
| `brokers_one_ticket` | 2 brokers and 1 ticket of 2 attempts; or 2 pull workers, 2 attempts, 2 faults, fairness | results of the latest lease only, no orphan artifact, one verdict per round; no empty completion, every pulled ticket ends |
| `brokers_two_tickets` | 2 brokers, 2 tickets, 1 attempt | acyclicity, dependency gate and mirror across processes |
| `ledger_safety` | 3 subtasks, 2 callers, 4 calls, one of which may be a crash | starts only when allowed (dependencies, grant), a single run, no zombie result, terminal is final |
| `backplane` | 2 managers, 2 processes, 1 review, 1 session, 4 calls; every token of the gate, 1 request in flight; 2 launches, 2 files; 2 store users | no process admits two primary managers, evidenced and single completion, verdicts that stand, tokens that die with their shell, logs that tell all, edits that survive launches, attribution |
| `router` | 2 tasks of 6 kinds, 4 providers, 1 remote worker, a cap of 1, 2 boxes, no enforcing guard; 3 callers that enqueue twice; fairness | the privacy boundary, no unconfirmed charge, one box per provider, no orphan task; every task settles, but for the one whose reaping raised |
| `services` | 3 threads and 2 slots; 2 claims, 2 locked decisions, 4 texts of which two share a key and one has none, 2 engines; 2 tries per activity; 2 agent steps, 1 crash; a log of 3 rows, 1 restart; 2 shadow passes; 2 declared tools, 2 remote calls; 2 syncers, 1 parked subtask, 2 issues, a rising tier | slots respected, faithful packs, workflow, loop, bus, shadow and worker-run safety, a mirror that is never ahead and decisions that stand |

Two tickets are enough for every pair of roles (dependency and dependent,
claimed and linked); the third in `queue_privacy` makes chains possible. Its
classes rule out a cycle of three, which the theorem `StaysAcyclic` covers instead.
The third subtask in `ledger_safety` waits for one that has failed while another
succeeds. Two attempts separate "has one left" from "exhausted". A lease
of one second passes through live, boundary and expired. One crash interrupts
any method at any commit; the theorems cover any number. Four calls suffice
for submit, submit a dependent, approve and cancel, and for a retry of each
with a reconcile after a crash; in `backplane` they are the request, the claim and
two competing answers of a review. Three threads on two slots make one wait. Two
tasks are enough to compete for a quota, a box, an approval. Two passes, launches,
syncers and store users are enough for one to overtake the other between any two of
its steps. A cap of one request and a log of three rows are reached. Callers,
brokers, managers, processes, syncers and subtasks are symmetric, and symmetry is used only where no
liveness property is checked. Deadlock is not checked where the bounds let the
system rest (spent calls, a full log, ended workflows, ended tickets).

Several checked properties are conjunctions of parts that are each stated and
commented on their own in their module (`QueueSafe`, `StartsAllowed`, `PullSafe`,
`WorkflowSafe`, `LoopSafe`, `BusSafe`, `ShadowSafe`, `RunsSafe`, `WorkspaceSafe`,
`LinearSafe`, `PackFaithful`).

**Fairness.** In `queue_liveness` the reaper runs again and again (its thread
loops; strong fairness because other methods may hold the lock whenever it
looks), a method that has begun goes on, cancel_task goes on to its second half,
and time passes. Nothing is assumed of workers and reviewers. In
`ledger_stranded` every caller goes on with a call it has begun, and nothing
is assumed of who calls. In `brokers_one_ticket` a pull worker keeps polling and
runs what it claimed (its loop does nothing else), gives up on a request that has been
answered by nothing (httpx has a time-out), the broker handles what arrives, its
reaper thread loops and time passes; heartbeats, retries and deliveries are not
forced, and faults are finitely many. In `router` the thread that serves a task goes on: it waits for
a human at most until the approval's time-out, and for a lock at most until its
holder is through. Nothing is assumed of humans, budgets, reapers or nodes. (A
behaviour of the other focus does not meet the fairness of the first: the temporal
properties speak of their own focus only.)

### Where the code and its documentation disagree

Three are runs that expect a violation, with a finding in `PROJECT.json`:

* `brokers_attempts`: reject decides on attempts it read earlier and compares
  only the status, so it can reopen an exhausted ticket.
* `ledger_stranded`: cancel, denial, expiry and a route to nobody end a subtask
  without the cascade; so does a dependency that had failed before submit.
* `quota_overrun`: two requests pass the headroom check before either inserts its
  reservation, and the cap is exceeded.

Five are stated as properties that TLC refutes on small instances,
without a run of their own:

* `ExhaustedTaskFails` (`WorkQueue`): a crash between the reaper's commit of `parked`
  and the task's `FAILED` is healed by no later sweep, which look at `done` and
  `failed` tickets only (workqueue.py:1083, against the comment at 1078).
* `CancelReachesTickets` (`WorkQueue`): a ticket added after its task's cancel has
  swept stays open and unclaimable (router service.py:1500, against 1468).
* `CascadeHasCause` (`BrokerProcs`): cancel_for_task cascades from tickets it
  selected but could not cancel, because they were done by then (workqueue.py:1034,
  against 1008).
* `ApprovedResumes` (`SubtaskLedger`): a grant that comes before the direct backend
  has stored its handle resumes nobody (core service.py:1517, against 1210).
* `ReviewOnce` (`Sessions`): two answers with one verdict both pass the strict
  transition, whose no-op is a success, and the review is announced twice; audit.py:332
  says "What must not happen is completing a review twice".

Seen while modelling, and not stated as a property:

* Queue: the edge table of `TICKET_STATUS_VOCAB` lacks open -> failed (cascade) and
  claimed -> parked (reaper); two brokers overwrite each other's provenance.
* Subtask ledger: a denial whose approval write precedes a grant's subtask write
  leaves one entity denied and the other approved or the reverse; settle and flag of
  the parent race, so the parent may leave needs_approval on a list of approvals that is
  stale (service.py:1836; no document fixes the order); a cancel between the claim and the run row leaves a run `running`
  for reconcile to find.
* Claims: storage.py:5-7 names "one active primary_manager claim" as an invariant that
  transaction() keeps under concurrency, and the MCP's claim_task says "Only one
  primary_manager may hold a task at a time" (mcp server.py:179); the lock is one process's, the
  SELECT is outside a write transaction and no UNIQUE index backs it, so two processes
  over one file may each admit one. `OnePrimaryPerProcess` is what is left.
* Workflows: a decision between route_subtask and request_approval makes that activity
  raise, and the workflow fails while the ledger is queued; the handle row is written
  after the server has started the workflow, so early signals are lost, and a cancel
  then leaves the workflow waiting; a retry of run_worker on a running subtask reports
  `running` and ends the workflow; client.signal says a missed signal is made up "on
  its next poll", but there is no poll; ApprovalWorkflow may return `expired` where the
  ledger says granted.
* Event bus: ids `type:anchor:seq` restart with the process, so after a restart an
  outage may collide with an old row and be ignored; the operator page takes latest_seq
  after the list and the tree, so it can skip rows and show a stale tree; _observe
  swallows what the `task_blocking` policy would raise.
* Linear: two syncs at once, or a crash between create_issue and set_external_ref, make
  two issues, although sync.py calls the sync idempotent; a repeated approve comment
  approves whatever is pending then; a Conflict drops the rest of a command; titles and
  promoted memories are never withheld. Text synced before a stricter subtask was added stays
  on its issue until the next sync, and for ever in comments.
* Shadow mode: overlapping passes may set the cursor back (duplicates, never gaps);
  facts are read later than the event.
* Worker runs: ToolDecision.from_body reads any non-empty `allowed` as an allow, although
  its comments say "anything we cannot read as an explicit allow is a deny"
  (toolconnect_client.py:128, 152; redeem tests `is True`); an artifact stored by a run that then
  fails or is discarded stays; a /generate body without a status is a success; the governor's mode never
  changes the outcome; a caller's time-out leaves the worker's slot taken.
* Agent loop: graph.py says "every governed call leaves an Execution Record", but a tool
  that raises leaves none; files that a command or a failed write leaves are not among the
  changes a result names, and neither are those of a run that crashed after its last
  checkpoint and was dispatched again.
* Workspaces: changed_files promises committed changes and only diffs HEAD; overlapping
  launches in copy mode may overwrite edits; a launch that died half way leaves a tree that
  counts as materialised; one `.env.agentconnect` serves all sessions of a task, so with
  overlapping launches a shell may act under another session's token. `WorkKept` and
  `ShellToken` say under which order of launches this cannot happen.
* Token gate: artifact registration over HTTP records the body's created_by unchecked;
  attempts and review results keep a blank name; `complete --review` in a reviewer's shell
  defaults to "human"; a request admitted before a revocation may land after it.
* Safety: `redacted` is true for secrets only, so personal data is returned as found,
  although docs/SAFETY.md:219 says redact; an engine that cannot be built is skipped rather
  than failing closed; ledger items are scanned too, although the docstring says recalled
  memory only (context.py:611-614), while the handoff of the same pack is not (527-530).
* Context packs: "Nothing is dropped silently" (context.py:605), but a text that
  _normalize reduces to nothing is skipped without a warning, and of two texts that it
  reduces to one key only one is kept (349-353, 411-413).
* Router: ARCHITECTURE.md:127-129 says that a hard secret is kept local or blocked, and
  privacy.py:53-54 that it "must never go to an LLM"; eligibility looks at cloud_safe for
  low_sensitive only (routing.py:214), so a task declared public goes to a cloud model with it
  (redacted), and one declared any class but secret_sensitive goes to a local one, unless
  the guard enforces. `PrivacyBoundary` states what does hold. The comment at
  service.py:1225-1229 says that no failure to spin up a node escapes; reap_idle_nodes stands outside the
  `try` (1240), and a terminate that raises there leaves the task RUNNING, the exception
  in `Settles`.
* Router: a failed status probe marks the owned provider down and nothing marks it up
  again; wait_ready's time-out, a failed terminate and the reaper's late pop lose a running
  box; an enqueue that add refuses leaves its task; REJECTED is not terminal.
* Model manager: two loads of one model at once, where the second unloads what it then
  declares loaded; an unload while a generation runs.

## 4. Proofs

Every safety property that a passing run checks is also a theorem: TLC checks it on
the instance of section 3, TLAPS proves it for every value of the constants. The
theorems speak of each component's own specification (`Spec`, `LoopSpec` and so
on); a composed run checks the same specification side by side with others.

| Module | Theorems |
|---|---|
| `WorkQueueProofs` | `QueueSafe` and its six parts, `NoLaundering`, `Finality`, `CascadeSparesLiveWork`, and the refinement `ImplementsContract` |
| `BrokerProofs` | `ResultOfLatestLease`, `NoOrphanArtifact`, `OneVerdictPerRound`, `Acyclic`, `DependencyGate`, `MirrorTruthful` for any number of brokers; `NoEmptyCompletion` of the pull worker |
| `SubtaskLedgerProofs` | `StartsAllowed`, `RunOnce`, `NoZombieResult`, `TerminalIsFinal` |
| `SessionsProofs` | `OnePrimaryPerProcess`, `CompletionEvidenced`, `TokenDiesWithShell`, `VerdictStands` |
| `RouterProofs` | `NoOrphanTask`, `PrivacyBoundary`, `SpendConfirmed`, `OneBox` |
| `ServiceProofs` | `SlotsRespected`, `RunsSafe`, `LoopSafe`, `WorkflowSafe`, `ShadowSafe`, `BusSafe`, `PackFaithful` |
| `BackplaneProofs` | `LinearSafe`, `LogsTellAll`, `WorkspaceSafe`, `Attribution` |

**Assumptions.** Those the modules state of their constants: types and positive
bounds; `OneTicketPerTask` (enqueue_task mints a task per ticket); finitely many
threads, remote calls and launches where something counts them (`Residency`,
`WorkerRuns`, `Workspaces`); names that do not collide with markers the code
reserves (`BusTypes`, `RouterNames`, `LaunchTypes`, `TaskLedgerBounds`); and of a
provider, what providers.yaml says of its entries (`PolicyTypes`). TLC evaluates all
of them.

**One broker.** The argument is one inductive invariant, `IInv`, which
`queue_privacy` checks too. None of the properties is inductive alone:

* `AttemptsBounded` needs that an open ticket has an attempt left (`RowInv`),
  because claim does not look.
* `VerificationGate` needs that the token of a claimed row and the reference of
  a reviewed one are the latest (`RowInv`).
* `MirrorTruthful` needs that every write still pending is true of its ticket
  (`TodoInv`), and that death is final.
* `DependencyGate` needs that done is final, and link's look at the child.
* `Acyclic` is stated with sets: every nonempty set of tickets has a member that
  depends on none of the set. Link keeps it because what the parent reaches is
  closed under dependency and lacks the child; add because nobody depends on a
  ticket that does not exist yet (`EdgeInv`).
* `NoLaundering` follows from `EdgeInv`: the tickets a tier may claim are closed
  under dependency, so they contain all that a claimed ticket reaches.
* `ScoredOnce` needs that a pending score is first in line and belongs to a
  lease that is over (`ScoreInv`).
* `CascadeSparesLiveWork` needs that what a pending cascade starts from is dead
  (`TodoInv`) while what is worked on has only parents that are done, and that a row
  a cascade has marked stays failed (`MarkedFailed`).
* `ImplementsContract` is proved row by row: what a step may do to one row, by its
  status before and after, is a step of the contract for that ticket or a stutter;
  steps that change several rows (cascade, cancel, reap) move each along its own
  edge.

**Several brokers.** `BrokerInv` lists in one relation (`RowMove`) what any step of
any broker may do to a row. The facts a method has read and the guard in its WHERE
clause together imply that its write is such a move, whatever happened in between.
`PullInv` follows a success from the run to the report on the wire to the row.

**Subtask ledger.** `LedgerInv` says of each step still on a caller's stack what it
relies on (`Sound`), all of it stable under the moves of the others, and that the
steps from the claim to the run row have one owner (`Owned`).

**Sessions.** `SessionsInv`: one primary claim per process (who is inside a process's
span has seen no other of that process, and nobody else of it can insert), a launch minted once and after its
row, and evidence in the hands of whoever may still land or announce the completion.

**Router.** `EnqueueInv`: a task the ticket does not link belongs to a caller that has
yet to tidy up. `RouterInv`: what each thread has checked still holds where it acts
(`ThreadsOK`), what was sent was allowed (`SentOK`; a hard secret of an undeclared task
has made it secret_sensitive, so what is sent was declared), a box has one provider and one
renter (`BoxesOK`), and the charged are among the confirmed.

**Services.** `ResidencyInv` and `RemoteInv` count threads, so the counters equal the
cardinality of who is inside. `PreparationInv` ties the phase of a run to the answers it
got and the one output it may have stored; a cancel excludes a landing (`LandingStep`).
`LoopInv` follows a call from gate to record over crashes, tools that raise and new
dispatches. `WorkflowInv` says which ledger states each wait is compatible with.
`BusInv` describes the rows of the log, what the emitter still owes it, and what
each stream and page has read of it, for any page size and length; `ShadowInv` does
the same for the passes that tail it. `PackFaithful` needs little history (a promoted claim was promoted by a human);
it rests on lemmas about the operators: the strongest decision stands
(`StrongestStands`), a found secret is masked or withholds the text (`ScanMasks`), of
one key one stands, and none ranks above it (`MergesStand`, `RankIsTrust`), and what a
pack is drafted from (`Drafted`). `NoSilentLoss` is a statement about keys, and names its
exceptions: texts without a key, and a claim filed under a manager, which is left out of
the pack of an unclaimed task without a warning, as resolve_scopes says on purpose.

**Backplane.** `LinearInv`: what a syncer has rendered or is about to announce will
still be true when it is written, because success is final; what leaves after the tier
has risen was read before. `StoreInv`: the applied
log rows of the task chain up to the state, and a mirrored row that is missing is
owed by the one process that has yet to write it. `WorkspaceInv`: a launch copies
only where it was alone and nobody has worked; sessions are ranked in the order of
their rows, and the file's session is the newest of those whose launch is through, so
a shell that is not its own must be older, and the newer one over. `GateInv`: what
the gate saw of a request stays true of it, that its token was active does not, and
the rows do not depend on that.

**Only model-checked:** liveness, because fairness is beyond the prover
(`MirrorCatchesUp`, `DependentsReleased`, `ExpiredLeaseRecovered`, `Settles`,
`PulledTicketEnds`, and with it `PullSafe` as a whole), and the properties that TLC
refutes.

## 5. Not modelled

`PROJECT.json` gives each component's status and what is left out. In short:

* reads for display (`status`, `list_tickets`, `stats`, `payload_for`), rendering,
  argument parsing, the MCP adapters, exporters, the secret store: no state of
  their own;
* scores and learned quality of routes, token amounts, the true-up of a rental,
  capability and priority matching: they choose among what the model lets be chosen;
* provenance of tickets, and audit rows that nothing decides on;
* the patterns of detectors and classifiers (constants here), the vendors' and the
  governor's services, git, the workflow server (external, as the code uses them);
* ApprovalWorkflow, which nothing starts; identities at the queue's endpoints (403);
  calls of reviewers below the trusted tier, which approve and reject turn away before
  any write; report's cleanup of its artifact when the commit itself fails (workqueue.py:740-759);
  the cancel of a ReviewWorkflow; delegation depth and the closing of a grant by record() in the agent loop; `--by` on
  the command line, which always wins; an operator's own `surfaces:` policy.

## 6. Plan

1. Type invariants of the components whose proofs need only part of one, as theorems.
2. Refinements: `BrokerProcs` against `TicketContract`, with the one exception that
   `brokers_attempts` shows (a reopened exhausted ticket).
3. Weakest conditions under which the properties of "Where the code and its
   documentation disagree" do hold, as theorems.
