------------------------ MODULE SubtaskLedgerProofs ------------------------
(***************************************************************************)
(* What SubtaskLedger promises of the subtasks of a task, proved for any   *)
(* number of subtasks, callers, calls and crashes.                         *)
(*                                                                         *)
(* A service method is a stack of steps, so the invariant has two halves.  *)
(* Held is about the rows.  Sound says what a step that is still on a      *)
(* stack is worth: the facts its caller has read and relies on, each of    *)
(* them stable under everything the other callers may do (Moves).  The     *)
(* steps that only one caller may hold for a subtask (OwnOp: the INSERT,   *)
(* and the way from the claim to the run row) stand at the head of the     *)
(* stack, and Owned says that they have one owner.                         *)
(***************************************************************************)
EXTENDS SubtaskLedger, WellFoundedInduction, TLAPS

\* A human has said yes.
Granted(s, ap) == \E i \in DOMAIN ap[s] : ap[s][i] = "granted"

\* The subtask exists and waits for nothing.
Met(s, st, dp) == st[s] # "absent" /\ \A d \in dp[s] : st[d] = "succeeded"

\* The subtask was claimed, or is over.
Begun(s, st) == st[s] \in {"running", "succeeded", "failed", "cancelled"}

RunRecord == [status : RunStatus, worker : {"free", "paid"}]

RowTypeOK ==
  /\ status \in [Subtask -> SubtaskStatus \cup {"absent"}]
  /\ deps \in [Subtask -> SUBSET Subtask]
  /\ route \in [Subtask -> {"none", "free", "paid", "approval", "nobody"}]
  /\ approver \in [Subtask -> BOOLEAN]
  /\ approvals \in [Subtask -> Seq(ApprovalStatus)]
  /\ runs \in [Subtask -> Seq(RunRecord)]
  /\ handle \in [Subtask -> ExecutionState \cup {"none"}]
  /\ task \in TaskStatus

Counted == calls \in 0..MaxCalls /\ crashes \in 0..MaxCrashes

Dispatched == {"queued", "needs_approval", "running", "succeeded"}

\* The rows: what is dispatched waits for nothing, what has a run has begun
\* and has one, and nothing is paid for without a human's word.
DepsHeld == \A s \in Subtask : status[s] \in Dispatched => Met(s, status, deps)
RunsHeld ==
  \A s \in Subtask :
    /\ Len(runs[s]) <= 1
    /\ runs[s] # <<>> => Begun(s, status)
    /\ \A n \in DOMAIN runs[s] :
         /\ runs[s][n].status = "succeeded" => status[s] = "succeeded"
         /\ runs[s][n].worker = "paid" => Granted(s, approvals)
PaidHeld == \A s \in Subtask : approver[s] \/ route[s] = "paid" => Granted(s, approvals)

Held == RowTypeOK /\ DepsHeld /\ RunsHeld /\ PaidHeld

\* Steps that rest on the dependencies, and steps with a single owner.
MetOp == {"persist", "routed", "unblock", "opening", "grant", "requeue"}
OwnOp == {"insert", "govern", "spawn"}

\* What a step on a stack is worth.
Sound(x, st, dp, ap, rn) ==
  /\ x.op \in MetOp => Met(x.s, st, dp)
  /\ x.op = "requeue" => Granted(x.s, ap)
  /\ x.op \in {"persist", "routed"} => (x.out = "paid" => Granted(x.s, ap))
  /\ x.op \in {"claim", "govern", "spawn"} => (x.worker = "paid" => Granted(x.s, ap))
  /\ x.op = "grant" => x.n \in DOMAIN ap[x.s]
  /\ x.op = "deny" => x.n = 0 \/ x.n \in DOMAIN ap[x.s]
  /\ x.op \in {"work", "row"} => x.n \in DOMAIN rn[x.s]
  /\ x.op = "row" => (x.to = "succeeded" => st[x.s] = "succeeded")
  /\ x.op = "cancelling" => \A s \in x.set : st[s] # "absent"
  /\ x.op = "insert" => (x.unmet = {} => \A d \in x.set : st[d] = "succeeded")

StackTypeOK == todo \in [Proc -> Seq(Step)]

StacksSound ==
  \A p \in Proc : \A i \in DOMAIN todo[p] :
    /\ Sound(todo[p][i], status, deps, approvals, runs)
    /\ i > 1 => todo[p][i].op \notin OwnOp

Owns(p, s) == todo[p] # <<>> /\ todo[p][1].op \in OwnOp /\ todo[p][1].s = s

Owned ==
  \A p \in Proc, s \in Subtask : Owns(p, s) =>
    /\ \A q \in Proc : Owns(q, s) => q = p
    /\ todo[p][1].op = "insert" => status[s] = "absent"
    /\ todo[p][1].op # "insert" => Begun(s, status) /\ runs[s] = <<>>

LedgerInv == Held /\ Counted /\ StackTypeOK /\ StacksSound /\ Owned

\* What a step of any caller leaves standing.
Final ==
  /\ task \in TerminalTaskStatus => task' = task
  /\ \A s \in Subtask :
       /\ status[s] \in TerminalSubtask => status'[s] = status[s]
       /\ \A n \in DOMAIN runs[s] :
            runs[s][n].status \in TerminalRun => runs'[s][n].status = runs[s][n].status
       /\ \A n \in DOMAIN approvals[s] :
            approvals[s][n] # "pending" => approvals'[s][n] = approvals[s][n]
Moves ==
  /\ Final
  /\ \A s \in Subtask :
       /\ status[s] # "absent" => status'[s] # "absent" /\ deps'[s] = deps[s]
       /\ Begun(s, status) => Begun(s, status')
       /\ DOMAIN runs[s] \subseteq DOMAIN runs'[s]
       /\ DOMAIN approvals[s] \subseteq DOMAIN approvals'[s]

\* What a step leaves alone for whoever holds a step of its own.
Spares(p) ==
  \A s \in Subtask : ~Owns(p, s) =>
    /\ status[s] = "absent" => status'[s] = "absent"
    /\ runs[s] = <<>> => runs'[s] = <<>>

\* What may be put on a stack.
Plain(x) == x \in Step /\ Sound(x, status', deps', approvals', runs') /\ x.op \notin OwnOp
Fresh(items) == items \in Seq(Step) /\ \A i \in DOMAIN items : Plain(items[i])

----------------------------------------------------------------------------
(* The steps on the stacks.                                                *)

\* The name of a step says which fields it has (Step, the calls of
\* service.py and execution.py).
LEMMA StepShape ==
  ASSUME NEW x \in Step
  PROVE  /\ x.op \notin {"releasing", "cascade", "cancelling", "failing", "sweep"} => x.s \in Subtask
         /\ x.op \in {"releasing", "cascade", "cancelling", "failing", "insert"} => x.set \in SUBSET Subtask
         /\ x.op = "failing" => x.stack \in SUBSET Subtask
         /\ x.op = "insert" => x.unmet \in SUBSET Subtask
         /\ x.op \in {"work", "grant", "deny", "row"} => x.n \in Nat
         /\ x.op \in {"claim", "govern", "spawn"} => x.worker \in {"free", "paid"}
         /\ x.op \in {"route", "run", "persist", "routed"} => x.then \in {"start", "resume", "activity"}
         /\ x.op = "handle" => /\ x.then \in {"start", "resume"}
                               /\ x.state \in ExecutionState \cup {"outcome"}
         /\ x.op \in {"persist", "routed"} => x.out \in {"free", "paid", "approval", "nobody"}
         /\ x.op = "row" => x.to \in RunStatus
BY DEF Step

\* The facts a waiting caller relies on survive what another caller does.
LEMMA SoundStays ==
  ASSUME RowTypeOK, Moves, NEW x \in Step, Sound(x, status, deps, approvals, runs)
  PROVE  Sound(x, status', deps', approvals', runs')
<1>1. \A s \in Subtask : Met(s, status, deps) => Met(s, status', deps')
  BY DEF Met, Moves, Final, RowTypeOK, TerminalSubtask
<1>2. \A s \in Subtask : Granted(s, approvals) => Granted(s, approvals')
  BY DEF Granted, Moves, Final
<1>3. \A s \in Subtask : /\ status[s] = "succeeded" => status'[s] = "succeeded"
                         /\ status[s] # "absent" => status'[s] # "absent"
                         /\ DOMAIN runs[s] \subseteq DOMAIN runs'[s]
                         /\ DOMAIN approvals[s] \subseteq DOMAIN approvals'[s]
  BY DEF Moves, Final, TerminalSubtask
<1>4. QED
  BY <1>1, <1>2, <1>3, StepShape DEF Sound, MetOp

\* A caller's stack is replaced by steps that are sound, of which only the
\* first may have an owner, and then nobody else has it.
LEMMA StackStep ==
  ASSUME LedgerInv, Moves, NEW p \in Proc, Spares(p),
         NEW new \in Seq(Step), todo' = [todo EXCEPT ![p] = new],
         \A i \in DOMAIN new : /\ Sound(new[i], status', deps', approvals', runs')
                               /\ i > 1 => new[i].op \notin OwnOp,
         new # <<>> /\ new[1].op \in OwnOp =>
           /\ \A q \in Proc : q # p => ~Owns(q, new[1].s)
           /\ new[1].op = "insert" => status'[new[1].s] = "absent"
           /\ new[1].op # "insert" => Begun(new[1].s, status') /\ runs'[new[1].s] = <<>>
  PROVE  StackTypeOK' /\ StacksSound' /\ Owned'
<1>1. /\ StackTypeOK' 
      /\ todo'[p] = new
      /\ \A q \in Proc : q # p => todo'[q] = todo[q]
  BY DEF LedgerInv, StackTypeOK
<1>2. StacksSound'
  <2>1. SUFFICES ASSUME NEW q \in Proc, q # p, NEW i \in DOMAIN todo[q]
                 PROVE  /\ Sound(todo[q][i], status', deps', approvals', runs')
                        /\ i > 1 => todo[q][i].op \notin OwnOp
    BY <1>1 DEF StacksSound
  <2>2. todo[q][i] \in Step
    BY DEF LedgerInv, StackTypeOK
  <2>3. QED
    BY <2>2, SoundStays DEF LedgerInv, Held, StacksSound
<1>3. Owned'
  <2>1. \A q \in Proc, s \in Subtask : q # p => (Owns(q, s)' <=> Owns(q, s))
    BY <1>1 DEF Owns
  <2>2. \A s \in Subtask : Owns(p, s)' <=> new # <<>> /\ new[1].op \in OwnOp /\ new[1].s = s
    BY <1>1 DEF Owns
  <2>3. ASSUME NEW q \in Proc, NEW s \in Subtask, Owns(q, s)', q # p
        PROVE  /\ \A r \in Proc : Owns(r, s)' => r = q
               /\ todo'[q][1].op = "insert" => status'[s] = "absent"
               /\ todo'[q][1].op # "insert" => Begun(s, status') /\ runs'[s] = <<>>
    <3>1. Owns(q, s) /\ ~Owns(p, s)' /\ ~Owns(p, s)
      BY <2>1, <2>2, <2>3 DEF LedgerInv, Owned
    <3>2. \A r \in Proc : Owns(r, s)' => r = q
      BY <2>1, <3>1 DEF LedgerInv, Owned
    <3>3. QED
      BY <3>1, <3>2, <1>1, <2>3 DEF LedgerInv, Owned, Spares, Moves
  <2>4. ASSUME NEW s \in Subtask, Owns(p, s)'
        PROVE  /\ \A r \in Proc : Owns(r, s)' => r = p
               /\ todo'[p][1].op = "insert" => status'[s] = "absent"
               /\ todo'[p][1].op # "insert" => Begun(s, status') /\ runs'[s] = <<>>
    BY <1>1, <2>1, <2>2, <2>4
  <2>5. QED
    BY <2>3, <2>4 DEF Owned
<1>4. QED
  BY <1>1, <1>2, <1>3

\* Lists of fresh steps.
LEMMA FreshLists ==
  /\ Fresh(<<>>)
  /\ \A x : Plain(x) => Fresh(<<x>>)
  /\ \A x, y : Plain(x) /\ Plain(y) => Fresh(<<x, y>>)
  /\ \A x, y, z : Plain(x) /\ Plain(y) /\ Plain(z) => Fresh(<<x, y, z>>)
  /\ \A a, b : Fresh(a) /\ Fresh(b) => Fresh(a \o b)
BY DEF Fresh, Plain

\* A stack that is replaced by fresh steps (Call, Raise).
LEMMA FreshStack ==
  ASSUME LedgerInv, Moves, NEW p \in Proc, Spares(p),
         NEW items, Fresh(items), todo' = [todo EXCEPT ![p] = items]
  PROVE  StackTypeOK' /\ StacksSound' /\ Owned'
<1>1. /\ items \in Seq(Step)
      /\ \A i \in DOMAIN items : /\ Sound(items[i], status', deps', approvals', runs')
                                 /\ items[i].op \notin OwnOp
  BY DEF Fresh, Plain
<1>2. items # <<>> => 1 \in DOMAIN items
  BY <1>1
<1>3. QED
  BY <1>1, <1>2, StackStep

\* What is below the head of a stack.
LEMMA TailSteps ==
  ASSUME StackTypeOK, StacksSound, RowTypeOK, Moves, NEW p \in Proc, todo[p] # <<>>
  PROVE  Fresh(Tail(todo[p]))
<1>1. todo[p] \in Seq(Step) /\ Tail(todo[p]) \in Seq(Step)
  BY DEF StackTypeOK
<1>2. ASSUME NEW i \in DOMAIN Tail(todo[p])
      PROVE  Plain(Tail(todo[p])[i])
  <2>1. i + 1 \in DOMAIN todo[p] /\ i + 1 > 1 /\ Tail(todo[p])[i] = todo[p][i + 1]
    BY <1>1
  <2>2. todo[p][i + 1] \in Step
    BY <1>1, <2>1
  <2>3. QED
    BY <2>1, <2>2, SoundStays DEF Plain, StacksSound
<1>3. QED
  BY <1>1, <1>2 DEF Fresh

\* The head of a stack is replaced by fresh steps.
LEMMA FreshGo ==
  ASSUME LedgerInv, Moves, NEW p \in Proc, Spares(p), todo[p] # <<>>,
         NEW items, Fresh(items), Go(p, items)
  PROVE  StackTypeOK' /\ StacksSound' /\ Owned'
<1>1. Fresh(items \o Tail(todo[p]))
  BY TailSteps, FreshLists DEF LedgerInv, Held
<1>2. QED
  BY <1>1, FreshStack DEF Go

\* The step at the head of a stack.
LEMMA HeadStep ==
  ASSUME LedgerInv, NEW p \in Proc, todo[p] # <<>>
  PROVE  /\ It(p) = todo[p][1] /\ It(p) \in Step
         /\ Sound(It(p), status, deps, approvals, runs)
         /\ It(p).op \in OwnOp => Owns(p, It(p).s)
<1>1. todo[p] \in Seq(Step) /\ 1 \in DOMAIN todo[p] /\ It(p) = todo[p][1]
  BY DEF LedgerInv, StackTypeOK, It
<1>2. QED
  BY <1>1 DEF LedgerInv, StacksSound, Owns

----------------------------------------------------------------------------
(* Making steps.                                                           *)

\* Steps that rely on nothing.
EasyOp == {"flag", "ask", "asking", "progress", "settle", "unflag", "release", "signal",
           "refuse", "expired", "unwind", "reap"}

\* The steps that rely on nothing may be put on a stack at any time.
LEMMA EasySteps ==
  /\ \A op \in EasyOp, s \in Subtask : Plain(Do(op, s))
  /\ \A op \in {"releasing", "cascade"}, set \in SUBSET Subtask : Plain(DoSet(op, set))
  /\ \A set, stack \in SUBSET Subtask : Plain([op |-> "failing", set |-> set, stack |-> stack])
  /\ \A op \in {"route", "run"}, s \in Subtask, then \in {"start", "resume", "activity"} :
       Plain(DoThen(op, s, then))
  /\ \A s \in Subtask, then \in {"start", "resume"}, state \in ExecutionState \cup {"outcome"} :
       Plain([op |-> "handle", s |-> s, then |-> then, state |-> state])
  /\ Plain([op |-> "sweep"])
<1>1. ASSUME NEW op \in EasyOp, NEW s \in Subtask PROVE Plain(Do(op, s))
  <2>1. Do(op, s) \in Step
    BY DEF Do, Step, EasyOp
  <2>2. Do(op, s).op = op
    BY DEF Do
  <2>3. QED
    BY <2>1, <2>2 DEF Plain, Sound, EasyOp, OwnOp, MetOp
<1>2. ASSUME NEW op \in {"releasing", "cascade"}, NEW set \in SUBSET Subtask
      PROVE  Plain(DoSet(op, set))
  <2>1. DoSet(op, set) \in Step
    BY DEF DoSet, Step
  <2>2. DoSet(op, set).op = op
    BY DEF DoSet
  <2>3. QED
    BY <2>1, <2>2 DEF Plain, Sound, OwnOp, MetOp
<1>3. ASSUME NEW set \in SUBSET Subtask, NEW stack \in SUBSET Subtask
      PROVE  Plain([op |-> "failing", set |-> set, stack |-> stack])
  <2> DEFINE x == [op |-> "failing", set |-> set, stack |-> stack]
  <2>1. x \in Step
    BY DEF Step
  <2>2. x.op = "failing"
    OBVIOUS
  <2> HIDE DEF x
  <2>3. Plain(x)
    BY <2>1, <2>2 DEF Plain, Sound, OwnOp, MetOp
  <2>4. QED
    BY <2>3 DEF x
<1>4. ASSUME NEW op \in {"route", "run"}, NEW s \in Subtask, NEW then \in {"start", "resume", "activity"}
      PROVE  Plain(DoThen(op, s, then))
  <2>1. DoThen(op, s, then) \in Step
    BY DEF DoThen, Step
  <2>2. DoThen(op, s, then).op = op
    BY DEF DoThen
  <2>3. QED
    BY <2>1, <2>2 DEF Plain, Sound, OwnOp, MetOp
<1>5. ASSUME NEW s \in Subtask, NEW then \in {"start", "resume"}, NEW state \in ExecutionState \cup {"outcome"}
      PROVE  Plain([op |-> "handle", s |-> s, then |-> then, state |-> state])
  <2> DEFINE x == [op |-> "handle", s |-> s, then |-> then, state |-> state]
  <2>1. x \in Step
    BY DEF Step
  <2>2. x.op = "handle"
    OBVIOUS
  <2> HIDE DEF x
  <2>3. Plain(x)
    BY <2>1, <2>2 DEF Plain, Sound, OwnOp, MetOp
  <2>4. QED
    BY <2>3 DEF x
<1>6. Plain([op |-> "sweep"])
  <2> DEFINE x == [op |-> "sweep"]
  <2>1. x \in Step
    BY DEF Step
  <2>2. x.op = "sweep"
    OBVIOUS
  <2> HIDE DEF x
  <2>3. Plain(x)
    BY <2>1, <2>2 DEF Plain, Sound, OwnOp, MetOp
  <2>4. QED
    BY <2>3 DEF x
<1>7. QED
  BY <1>1, <1>2, <1>3, <1>4, <1>5, <1>6

\* The lists of steps that the actions share.
LEMMA EasyLists ==
  /\ \A s \in Subtask, then \in {"start", "resume", "activity"}, state \in ExecutionState \cup {"outcome"} :
       Fresh(Tell(s, then, state))
  /\ \A op \in {"releasing", "cascade"}, set \in SUBSET Subtask : Fresh(DoEach(op, set))
  /\ \A left, stack \in SUBSET Subtask : Fresh(FailEach(left, stack))
<1>1. ASSUME NEW s \in Subtask, NEW then \in {"start", "resume", "activity"},
             NEW state \in ExecutionState \cup {"outcome"}
      PROVE  Fresh(Tell(s, then, state))
  <2>1. CASE then = "activity"
    BY <2>1, FreshLists DEF Tell
  <2>2. CASE then # "activity"
    <3>1. Plain([op |-> "handle", s |-> s, then |-> then, state |-> state])
      BY <2>2, EasySteps
    <3>2. QED
      BY <2>2, <3>1, FreshLists DEF Tell
  <2>3. QED
    BY <2>1, <2>2
<1>2. ASSUME NEW op \in {"releasing", "cascade"}, NEW set \in SUBSET Subtask
      PROVE  Fresh(DoEach(op, set))
  <2>1. Plain(DoSet(op, set))
    BY EasySteps
  <2>2. QED
    BY <2>1, FreshLists DEF DoEach
<1>3. ASSUME NEW left \in SUBSET Subtask, NEW stack \in SUBSET Subtask
      PROVE  Fresh(FailEach(left, stack))
  <2>1. Plain([op |-> "failing", set |-> left, stack |-> stack]) /\ Fresh(DoEach("cascade", stack))
    BY <1>2, EasySteps
  <2>2. QED
    BY <2>1, FreshLists DEF FailEach
<1>4. QED
  BY <1>1, <1>2, <1>3

----------------------------------------------------------------------------
(* The rows.                                                               *)

\* A step that touches no row of a subtask's own; the route, the task and
\* the handle may change.
LEMMA RowsStay ==
  ASSUME LedgerInv, NEW p \in Proc,
         UNCHANGED <<status, deps, approver, approvals, runs>>,
         route' \in [Subtask -> {"none", "free", "paid", "approval", "nobody"}],
         \A s \in Subtask : route'[s] = "paid" => Granted(s, approvals),
         handle' \in [Subtask -> ExecutionState \cup {"none"}],
         task' \in TaskStatus, task \in TerminalTaskStatus => task' = task
  PROVE  Held' /\ Moves /\ Spares(p)
<1>1. Moves /\ Spares(p)
  BY DEF Moves, Final, Spares
<1>2. RowTypeOK'
  BY DEF LedgerInv, Held, RowTypeOK
<1>3. DepsHeld' /\ RunsHeld' /\ PaidHeld'
  BY DEF LedgerInv, Held, DepsHeld, RunsHeld, PaidHeld, Met, Begun, Granted
<1>4. QED
  BY <1>1, <1>2, <1>3 DEF Held

\* A write of a subtask's status along an edge, with or without approved_by.
LEMMA RowStatus ==
  ASSUME LedgerInv, NEW p \in Proc, NEW s \in Subtask, NEW v,
         status[s] # "absent",
         v = status[s] \/ v \in SubtaskEdges(status[s]),
         v = "queued" => Met(s, status, deps),
         status' = [status EXCEPT ![s] = v],
         approver' \in [Subtask -> BOOLEAN],
         \A t \in Subtask : approver'[t] => Granted(t, approvals),
         UNCHANGED <<deps, route, approvals, runs, handle, task>>
  PROVE  Held' /\ Moves /\ Spares(p)
<1>0. status[s] \in SubtaskStatus
  BY DEF LedgerInv, Held, RowTypeOK
<1>1. /\ v \in SubtaskStatus
      /\ status[s] \in TerminalSubtask => v = status[s]
      /\ Begun(s, status) => Begun(s, status')
      /\ v \in Dispatched => status[s] \in Dispatched \/ v = "queued"
  BY <1>0 DEF SubtaskEdges, TerminalSubtask, SubtaskStatus, Begun, Dispatched, LedgerInv, Held, RowTypeOK
<1>2. RowTypeOK'
  BY <1>1 DEF LedgerInv, Held, RowTypeOK
<1>3. \A t \in Subtask : t # s => status'[t] = status[t]
  BY DEF LedgerInv, Held, RowTypeOK
<1>4. status'[s] = v
  BY DEF LedgerInv, Held, RowTypeOK
<1>5. Moves /\ Spares(p)
  BY <1>1, <1>3, <1>4 DEF Moves, Final, Spares, SubtaskStatus, Begun
<1>6. DepsHeld'
  <2>1. \A t \in Subtask : status[t] = "succeeded" => status'[t] = "succeeded"
    BY <1>1, <1>3, <1>4 DEF TerminalSubtask
  <2>2. \A t \in Subtask : Met(t, status, deps) => Met(t, status', deps')
    BY <2>1, <1>1, <1>3, <1>4 DEF Met, LedgerInv, Held, RowTypeOK, SubtaskStatus
  <2>3. \A t \in Subtask : status'[t] \in Dispatched => Met(t, status, deps)
    BY <1>1, <1>3, <1>4 DEF LedgerInv, Held, DepsHeld
  <2>4. QED
    BY <2>2, <2>3 DEF DepsHeld
<1>7. RunsHeld' /\ PaidHeld'
  <2>1. \A t \in Subtask : /\ status[t] = "succeeded" => status'[t] = "succeeded"
                           /\ Begun(t, status) => Begun(t, status')
    BY <1>5 DEF Moves, Final, TerminalSubtask
  <2>2. RunsHeld'
    BY <2>1 DEF LedgerInv, Held, RunsHeld, Granted, Begun
  <2>3. PaidHeld'
    BY DEF LedgerInv, Held, PaidHeld, Granted
  <2>4. QED
    BY <2>2, <2>3
<1>8. QED
  BY <1>2, <1>5, <1>6, <1>7 DEF Held

\* A write of a subtask's approvals: new ones are pending, decided ones stay.
LEMMA RowApprovals ==
  ASSUME LedgerInv, NEW p \in Proc, NEW s \in Subtask, NEW a \in Seq(ApprovalStatus),
         approvals' = [approvals EXCEPT ![s] = a],
         Len(approvals[s]) <= Len(a),
         \A n \in DOMAIN approvals[s] : approvals[s][n] # "pending" => a[n] = approvals[s][n],
         UNCHANGED <<status, deps, route, approver, runs, handle, task>>
  PROVE  Held' /\ Moves /\ Spares(p)
<1>1. /\ approvals'[s] = a
      /\ \A t \in Subtask : t # s => approvals'[t] = approvals[t]
      /\ DOMAIN approvals[s] \subseteq DOMAIN a
  BY DEF LedgerInv, Held, RowTypeOK
<1>2. Moves /\ Spares(p)
  BY <1>1 DEF Moves, Final, Spares
<1>3. RowTypeOK'
  BY DEF LedgerInv, Held, RowTypeOK
<1>4. \A t \in Subtask : Granted(t, approvals) => Granted(t, approvals')
  BY <1>2 DEF Moves, Final, Granted
<1>5. DepsHeld' /\ RunsHeld' /\ PaidHeld'
  BY <1>4 DEF LedgerInv, Held, DepsHeld, RunsHeld, PaidHeld, Met, Begun
<1>6. QED
  BY <1>2, <1>3, <1>5 DEF Held

\* A write of the statuses of a subtask's runs.
LEMMA RowRuns ==
  ASSUME LedgerInv, NEW p \in Proc, NEW s \in Subtask, NEW r \in Seq(RunRecord),
         runs' = [runs EXCEPT ![s] = r], Len(r) = Len(runs[s]),
         \A n \in DOMAIN runs[s] :
           /\ r[n].worker = runs[s][n].worker
           /\ runs[s][n].status \in TerminalRun => r[n].status = runs[s][n].status
           /\ r[n].status = "succeeded" => runs[s][n].status = "succeeded" \/ status[s] = "succeeded",
         handle' \in [Subtask -> ExecutionState \cup {"none"}],
         UNCHANGED <<status, deps, route, approver, approvals, task>>
  PROVE  Held' /\ Moves /\ Spares(p)
<1>1. /\ runs'[s] = r
      /\ \A t \in Subtask : t # s => runs'[t] = runs[t]
      /\ runs[s] \in Seq(RunRecord) /\ DOMAIN runs[s] = DOMAIN r
      /\ runs[s] = <<>> <=> r = <<>>
  BY DEF LedgerInv, Held, RowTypeOK
<1>2. Moves /\ Spares(p)
  BY <1>1 DEF Moves, Final, Spares
<1>3. RowTypeOK'
  BY DEF LedgerInv, Held, RowTypeOK
<1>4. RunsHeld'
  BY <1>1 DEF LedgerInv, Held, RunsHeld, Begun, Granted
<1>5. DepsHeld' /\ PaidHeld'
  BY DEF LedgerInv, Held, DepsHeld, PaidHeld, Met, Granted
<1>6. QED
  BY <1>2, <1>3, <1>4, <1>5 DEF Held

\* The latest pending approval is one of the subtask's approvals
\* (pending_approval_for).
LEMMA LatestPendingIs ==
  ASSUME RowTypeOK, NEW s \in Subtask
  PROVE  LatestPending(s) = 0 \/ LatestPending(s) \in DOMAIN approvals[s]
<1>0. approvals[s] \in Seq(ApprovalStatus) /\ Len(approvals[s]) \in Nat
  BY DEF RowTypeOK
<1>1. CASE Pending(s) = {}
  BY <1>1 DEF LatestPending
<1>2. CASE Pending(s) # {}
  <2> DEFINE L == Len(approvals[s])
             T == {L - i : i \in Pending(s)}
             R == {e \in Nat \X Nat : e[1] < e[2]}
  <2>0. L \in Nat /\ Pending(s) \subseteq 1..L
    BY <1>0 DEF Pending
  <2>1. T \subseteq Nat /\ T # {}
    <3>1. PICK i \in Pending(s) : TRUE
      BY <1>2
    <3>2. L - i \in T
      BY <3>1
    <3>3. \A j \in Pending(s) : L - j \in Nat
      BY <2>0
    <3>4. QED
      BY <3>2, <3>3
  <2>2. IsWellFoundedOn(R, Nat)
    BY NatLessThanWellFounded DEF OpToRel
  <2>3. PICK m \in T : \A k \in T : ~(<<k, m>> \in R)
    BY <2>1, <2>2, WFMin
  <2>4. PICK i \in Pending(s) : m = L - i
    BY <2>3
  <2>5. \A j \in Pending(s) : j <= i
    <3>1. SUFFICES ASSUME NEW j \in Pending(s), j > i PROVE FALSE
      BY <1>0, <2>4 DEF Pending
    <3>a. i \in 1..L /\ j \in 1..L /\ L \in Nat /\ j > i /\ m = L - i
      BY <2>0, <2>4, <3>1
    <3>b. L - j \in T
      OBVIOUS
    <3> HIDE DEF L, T
    <3>2. L - j \in T /\ L - j \in Nat /\ m \in Nat /\ L - j < m
      BY <3>a, <3>b
    <3>3. <<L - j, m>> \in R
      BY <3>2
    <3>4. QED
      BY <2>3, <3>2, <3>3
  <2>6. LatestPending(s) \in Pending(s)
    BY <1>2, <2>5 DEF LatestPending
  <2>7. QED
    BY <2>6, <1>0 DEF Pending
<1>3. QED
  BY <1>1, <1>2

----------------------------------------------------------------------------
(* How a step ends.                                                        *)

\* What a caller that is doing op may rely on.
LEMMA DoingIt ==
  ASSUME LedgerInv, NEW p \in Proc, NEW op, Doing(p, op)
  PROVE  /\ todo[p] # <<>> /\ It(p) = todo[p][1] /\ It(p) \in Step /\ It(p).op = op
         /\ Sound(It(p), status, deps, approvals, runs)
         /\ op \in OwnOp => Owns(p, It(p).s)
BY HeadStep DEF Doing, It

\* A step that goes on, a call that begins, and a step that raises.
LEMMA StepEnds ==
  ASSUME LedgerInv, NEW p \in Proc, Held', Moves, Spares(p), NEW items, Fresh(items)
  PROVE  /\ todo[p] # <<>> /\ Go(p, items) /\ UNCHANGED <<calls, crashes>> => LedgerInv'
         /\ Call(p, items) /\ UNCHANGED crashes => LedgerInv'
         /\ Raise(p) /\ UNCHANGED <<calls, crashes>> => LedgerInv'
<1>1. UNCHANGED <<calls, crashes>> => Counted'
  BY DEF LedgerInv, Counted
<1>2. Call(p, items) /\ UNCHANGED crashes => Counted'
  BY LedgerBounds DEF LedgerInv, Counted, Call
<1>3. todo[p] # <<>> /\ Go(p, items) => StackTypeOK' /\ StacksSound' /\ Owned'
  BY FreshGo
<1>4. Call(p, items) => StackTypeOK' /\ StacksSound' /\ Owned'
  BY FreshStack DEF Call
<1>5. Raise(p) => StackTypeOK' /\ StacksSound' /\ Owned'
  BY FreshStack, FreshLists DEF Raise
<1>6. QED
  BY <1>1, <1>2, <1>3, <1>4, <1>5 DEF LedgerInv

\* A step that changes no row.
LEMMA QuietStep ==
  ASSUME LedgerInv, NEW p \in Proc, NEW items,
         UNCHANGED <<status, deps, route, approver, approvals, runs, handle, task, crashes>>,
         \/ Raise(p) /\ calls' = calls
         \/ todo[p] # <<>> /\ Go(p, items) /\ calls' = calls /\ Fresh(items)
         \/ Call(p, items) /\ Fresh(items)
  PROVE  LedgerInv' /\ Moves
<1>1. Held' /\ Moves /\ Spares(p)
  BY RowsStay DEF LedgerInv, Held, RowTypeOK, PaidHeld
<1>2. Fresh(<<>>)
  BY FreshLists
<1>3. QED
  BY <1>1, <1>2, StepEnds

\* A strict write of a subtask's status: it raises, or the subtask moves
\* along an edge.
LEMMA WriteStep ==
  ASSUME LedgerInv, NEW p \in Proc, NEW s \in Subtask, NEW dst \in SubtaskStatus, NEW items,
         todo[p] # <<>>, Fresh(items), Write(p, s, dst, items),
         dst = "queued" => Met(s, status, deps),
         approver' \in [Subtask -> BOOLEAN],
         \A t \in Subtask : approver'[t] => Granted(t, approvals),
         UNCHANGED <<deps, route, approvals, runs, handle, task, calls, crashes>>
  PROVE  LedgerInv' /\ Moves
<1>1. CASE Admits(SubtaskEdges(status[s]), status[s], dst)
  <2>1. status[s] # "absent"
    BY <1>1 DEF Admits, SubtaskEdges, SubtaskStatus
  <2>2. Held' /\ Moves /\ Spares(p)
    BY <1>1, <2>1, RowStatus DEF Write, Admits
  <2>3. Go(p, items)
    BY <1>1 DEF Write
  <2>4. QED
    BY <2>2, <2>3, StepEnds
<1>2. CASE ~Admits(SubtaskEdges(status[s]), status[s], dst)
  <2>1. Raise(p) /\ UNCHANGED status
    BY <1>2 DEF Write
  <2>2. Moves /\ Spares(p)
    BY <2>1 DEF Moves, Final, Spares
  <2>3. Held'
    BY <2>1 DEF LedgerInv, Held, RowTypeOK, DepsHeld, RunsHeld, PaidHeld, Met, Begun, Granted
  <2>4. QED
    BY <2>1, <2>2, <2>3, StepEnds, FreshLists
<1>3. QED
  BY <1>1, <1>2

\* A guarded write of a subtask's status: a subtask that exists moves along
\* an edge, or stays.
LEMMA AdvanceStep ==
  ASSUME LedgerInv, NEW p \in Proc, NEW s \in Subtask, NEW v, NEW items, Fresh(items),
         status' = [status EXCEPT ![s] = v],
         v = status[s] \/ (status[s] # "absent" /\ v \in SubtaskEdges(status[s]) /\ v # "queued"),
         UNCHANGED <<deps, route, approver, approvals, runs, handle, task>>
  PROVE  /\ Moves
         /\ todo[p] # <<>> /\ Go(p, items) /\ UNCHANGED <<calls, crashes>> => LedgerInv'
         /\ Call(p, items) /\ UNCHANGED crashes => LedgerInv'
<1>0. /\ approver' \in [Subtask -> BOOLEAN]
      /\ \A t \in Subtask : approver'[t] => Granted(t, approvals)
  BY DEF LedgerInv, Held, RowTypeOK, PaidHeld
<1>1. CASE status[s] # "absent"
  <2>1. v = "queued" => Met(s, status, deps)
    BY <1>1 DEF LedgerInv, Held, DepsHeld, Dispatched
  <2>2. Held' /\ Moves /\ Spares(p)
    BY <1>0, <1>1, <2>1, RowStatus
  <2>3. QED
    BY <2>2, StepEnds
<1>2. CASE status[s] = "absent"
  <2>1. status' = status
    BY <1>2 DEF LedgerInv, Held, RowTypeOK
  <2>2. Held' /\ Moves /\ Spares(p)
    BY <2>1, RowsStay DEF LedgerInv, Held, RowTypeOK, PaidHeld
  <2>3. QED
    BY <2>2, StepEnds
<1>3. QED
  BY <1>1, <1>2

----------------------------------------------------------------------------
(* submit_subtask and route_subtask.                                       *)

\* A step that is put on a stack with an owner of its own.
LEMMA OwnEnds ==
  ASSUME LedgerInv, NEW p \in Proc, Held', Moves, Spares(p),
         NEW x \in Step, Sound(x, status', deps', approvals', runs'), x.op \in OwnOp,
         \A q \in Proc : q # p => ~Owns(q, x.s),
         x.op = "insert" => status'[x.s] = "absent",
         x.op # "insert" => Begun(x.s, status') /\ runs'[x.s] = <<>>
  PROVE  /\ todo[p] # <<>> /\ Go(p, <<x>>) => StackTypeOK' /\ StacksSound' /\ Owned'
         /\ Call(p, <<x>>) => StackTypeOK' /\ StacksSound' /\ Owned'
<1>1. ASSUME NEW rest, Fresh(rest), todo' = [todo EXCEPT ![p] = <<x>> \o rest]
      PROVE  StackTypeOK' /\ StacksSound' /\ Owned'
  <2> DEFINE new == <<x>> \o rest
  <2>1. /\ new \in Seq(Step) /\ new[1] = x
        /\ \A i \in DOMAIN new : i > 1 => i - 1 \in DOMAIN rest /\ new[i] = rest[i - 1]
    BY <1>1 DEF Fresh
  <2>2. \A i \in DOMAIN new : /\ Sound(new[i], status', deps', approvals', runs')
                              /\ i > 1 => new[i].op \notin OwnOp
    BY <1>1, <2>1 DEF Fresh, Plain
  <2> HIDE DEF new
  <2>3. QED
    BY <1>1, <2>1, <2>2, StackStep DEF new
<1>2. todo[p] # <<>> /\ Go(p, <<x>>) => StackTypeOK' /\ StacksSound' /\ Owned'
  BY <1>1, TailSteps DEF LedgerInv, Held, Go
<1>3. ASSUME Call(p, <<x>>) PROVE StackTypeOK' /\ StacksSound' /\ Owned'
  <2>1. Fresh(<<>>) /\ <<x>> \o <<>> = <<x>>
    BY FreshLists
  <2>2. QED
    BY <1>1, <1>3, <2>1 DEF Call
<1>4. QED
  BY <1>2, <1>3

\* submit_subtask's checks: nobody else is about to insert the same subtask.
LEMMA SubmitStep ==
  ASSUME LedgerInv, NEW p \in Proc, NEW s \in Subtask, NEW D \in SUBSET Subtask, Submit(p, s, D)
  PROVE  LedgerInv' /\ Moves
<1> DEFINE x == [op |-> "insert", s |-> s, set |-> D, unmet |-> Unmet(D)]
<1>0. UNCHANGED <<status, deps, route, approver, approvals, runs, handle, task, crashes>>
  BY DEF Submit
<1>1. Held' /\ Moves /\ Spares(p)
  BY <1>0, RowsStay DEF LedgerInv, Held, RowTypeOK, PaidHeld
<1>2. x \in Step /\ x.op = "insert" /\ x.s = s /\ x.set = D /\ x.unmet = Unmet(D)
  BY DEF Step, Unmet
<1>3. Call(p, <<x>>) /\ status[s] = "absent"
  BY DEF Submit, Exists
<1>4. \A q \in Proc : ~Owns(q, s)
  <2>1. SUFFICES ASSUME NEW q \in Proc, Owns(q, s) PROVE FALSE
    OBVIOUS
  <2>2. todo[q] # <<>> /\ Head(todo[q]) = todo[q][1] /\ todo[q][1].op # "insert"
    BY <2>1 DEF Owns, Submit, Doing, It, LedgerInv, StackTypeOK
  <2>3. Begun(s, status)
    BY <2>1, <2>2 DEF LedgerInv, Owned
  <2>4. QED
    BY <2>3, <1>3 DEF Begun
<1> HIDE DEF x
<1>5. Sound(x, status', deps', approvals', runs')
  <2>1. x.unmet = {} => \A d \in x.set : status'[d] = "succeeded"
    BY <1>0, <1>2 DEF Unmet
  <2>2. QED
    BY <1>2, <2>1 DEF Sound, MetOp
<1>6. StackTypeOK' /\ StacksSound' /\ Owned'
  BY <1>0, <1>1, <1>2, <1>3, <1>4, <1>5, OwnEnds DEF OwnOp
<1>7. Counted'
  BY <1>0, <1>3, LedgerBounds DEF LedgerInv, Counted, Call
<1>8. QED
  BY <1>1, <1>6, <1>7 DEF LedgerInv

\* The INSERT: the one owner brings the subtask into being, blocked or with
\* its dependencies behind it.
LEMMA InsertStep ==
  ASSUME LedgerInv, NEW p \in Proc, Insert(p)
  PROVE  LedgerInv' /\ Moves
<1>0. Doing(p, "insert")
  BY DEF Insert
<1>1. PICK x \in Step : /\ x = It(p) /\ x.op = "insert" /\ todo[p] # <<>> /\ Owns(p, x.s)
                        /\ Sound(x, status, deps, approvals, runs)
  BY <1>0, DoingIt DEF OwnOp
<1>2. PICK s \in Subtask : s = x.s
  BY <1>1, StepShape
<1>3. PICK v : /\ v \in {"blocked", "queued"}
               /\ v = "queued" => \A d \in x.set : status[d] = "succeeded"
               /\ status' = [status EXCEPT ![s] = v]
               /\ deps' = [deps EXCEPT ![s] = x.set]
               /\ Go(p, <<>>) \/ Go(p, <<DoThen("route", s, "start")>>)
               /\ UNCHANGED <<route, approver, approvals, runs, handle, task, calls, crashes>>
  <2>1. CASE x.unmet = {}
    BY <1>1, <1>2, <2>1 DEF Insert, Sound
  <2>2. CASE x.unmet # {}
    BY <1>1, <1>2, <2>2 DEF Insert
  <2>3. QED
    BY <2>1, <2>2
<1>4. status[s] = "absent" /\ x.set \in SUBSET Subtask
  BY <1>1, <1>2, StepShape, HeadStep DEF LedgerInv, Owned
<1>5. /\ status'[s] = v /\ deps'[s] = x.set
      /\ \A t \in Subtask : t # s => status'[t] = status[t] /\ deps'[t] = deps[t]
  BY <1>3 DEF LedgerInv, Held, RowTypeOK
<1>6. Moves /\ Spares(p)
  BY <1>1, <1>2, <1>3, <1>4, <1>5 DEF Moves, Final, Spares, TerminalSubtask, Begun
<1>7. RowTypeOK'
  BY <1>3, <1>4 DEF LedgerInv, Held, RowTypeOK, SubtaskStatus
<1>8. DepsHeld'
  <2>1. \A t \in Subtask : status[t] = "succeeded" => status'[t] = "succeeded"
    BY <1>4, <1>5
  <2>2. SUFFICES ASSUME NEW t \in Subtask, status'[t] \in Dispatched PROVE Met(t, status', deps')
    BY DEF DepsHeld
  <2>3. CASE t = s
    BY <1>3, <1>4, <1>5, <2>1, <2>2, <2>3 DEF Met, Dispatched
  <2>4. CASE t # s
    BY <1>5, <2>1, <2>2, <2>4 DEF Met, LedgerInv, Held, DepsHeld, RowTypeOK
  <2>5. QED
    BY <2>3, <2>4
<1>9. RunsHeld' /\ PaidHeld'
  <2>1. \A t \in Subtask : /\ status[t] = "succeeded" => status'[t] = "succeeded"
                           /\ Begun(t, status) => Begun(t, status')
    BY <1>4, <1>5 DEF Begun
  <2>2. QED
    BY <1>3, <2>1 DEF LedgerInv, Held, RunsHeld, PaidHeld, Granted, Begun
<1>10. Fresh(<<>>) /\ Fresh(<<DoThen("route", s, "start")>>)
  BY FreshLists, EasySteps
<1>11. QED
  BY <1>1, <1>3, <1>6, <1>7, <1>8, <1>9, <1>10, StepEnds DEF Held

\* The router's decision rests on a subtask that waits for nothing; a paid
\* worker is offered only once a human has approved.
LEMMA RouteStep ==
  ASSUME LedgerInv, NEW p \in Proc, NEW out \in {"free", "paid", "approval", "nobody"}, Route(p, out)
  PROVE  LedgerInv' /\ Moves
<1>0. Doing(p, "route")
  BY DEF Route
<1>1. PICK x \in Step : x = It(p) /\ x.op = "route" /\ todo[p] # <<>>
  BY <1>0, DoingIt
<1>2. PICK s \in Subtask, then \in {"start", "resume", "activity"} : s = x.s /\ then = x.then
  BY <1>1, StepShape
<1>u. UNCHANGED <<status, deps, route, approver, approvals, runs, handle, task, calls, crashes>>
  BY DEF Route
<1>3. CASE status[s] \in {"queued", "needs_approval"}
  <2> DEFINE y == [op |-> "persist", s |-> s, then |-> then, out |-> out]
  <2>1. out \in RouteOutcomes(s) /\ Go(p, <<y>>)
    BY <1>1, <1>2, <1>3 DEF Route
  <2>2. y \in Step /\ y.op = "persist" /\ y.s = s /\ y.out = out
    BY DEF Step
  <2> HIDE DEF y
  <2>3. Met(s, status', deps')
    BY <1>u, <1>3 DEF LedgerInv, Held, DepsHeld, Dispatched, Met
  <2>4. out = "paid" => Granted(s, approvals')
    BY <1>u, <2>1 DEF RouteOutcomes, LedgerInv, Held, PaidHeld, Granted
  <2>5. Plain(y)
    BY <2>2, <2>3, <2>4 DEF Plain, Sound, OwnOp, MetOp
  <2>6. QED
    BY <1>1, <1>u, <2>1, <2>5, FreshLists, QuietStep
<1>4. CASE status[s] \notin {"queued", "needs_approval"}
  <2>1. Raise(p)
    BY <1>1, <1>2, <1>4 DEF Route
  <2>2. QED
    BY <1>u, <2>1, QuietStep
<1>5. QED
  BY <1>3, <1>4

\* The decision is stored as it was taken.
LEMMA PersistStep ==
  ASSUME LedgerInv, NEW p \in Proc, Persist(p)
  PROVE  LedgerInv' /\ Moves
<1>0. Doing(p, "persist")
  BY DEF Persist
<1>1. PICK x \in Step : /\ x = It(p) /\ x.op = "persist" /\ todo[p] # <<>>
                        /\ Sound(x, status, deps, approvals, runs)
  BY <1>0, DoingIt
<1>2. /\ x.s \in Subtask /\ x.out \in {"free", "paid", "approval", "nobody"}
      /\ x.then \in {"start", "resume", "activity"}
  BY <1>1, StepShape
<1>3. /\ route' = [route EXCEPT ![x.s] = x.out] /\ Go(p, <<[x EXCEPT !.op = "routed"]>>)
      /\ UNCHANGED <<status, deps, approver, approvals, runs, handle, task, calls, crashes>>
  BY <1>1 DEF Persist
<1>4. /\ route' \in [Subtask -> {"none", "free", "paid", "approval", "nobody"}]
      /\ \A s \in Subtask : route'[s] = "paid" => Granted(s, approvals)
  BY <1>1, <1>2, <1>3 DEF LedgerInv, Held, RowTypeOK, PaidHeld, Sound
<1>5. Held' /\ Moves /\ Spares(p)
  BY <1>3, <1>4, RowsStay DEF LedgerInv, Held, RowTypeOK
<1>6. PICK y : y = [x EXCEPT !.op = "routed"]
  OBVIOUS
<1>7. y \in Step /\ y.op = "routed" /\ y.s = x.s /\ y.out = x.out
  <2>1. x \in [op : {"persist", "routed"}, s : Subtask, then : {"start", "resume", "activity"},
               out : {"free", "paid", "approval", "nobody"}]
    BY <1>1 DEF Step
  <2>2. /\ y \in [op : {"persist", "routed"}, s : Subtask, then : {"start", "resume", "activity"},
                  out : {"free", "paid", "approval", "nobody"}]
        /\ y.op = "routed" /\ y.s = x.s /\ y.out = x.out
    BY <1>6, <2>1
  <2>3. QED
    BY <2>2 DEF Step
<1>8. Plain(y)
  BY <1>1, <1>3, <1>7 DEF Plain, Sound, OwnOp, MetOp, Met, Granted
<1>9. QED
  BY <1>1, <1>3, <1>5, <1>6, <1>8, FreshLists, StepEnds

\* The strict write that follows the decision.
LEMMA RoutedStep ==
  ASSUME LedgerInv, NEW p \in Proc, Routed(p)
  PROVE  LedgerInv' /\ Moves
<1>0. Doing(p, "routed")
  BY DEF Routed
<1>1. PICK x \in Step : /\ x = It(p) /\ x.op = "routed" /\ todo[p] # <<>>
                        /\ Sound(x, status, deps, approvals, runs)
  BY <1>0, DoingIt
<1>2. PICK s \in Subtask, then \in {"start", "resume", "activity"} : s = x.s /\ then = x.then
  BY <1>1, StepShape
<1>3. x.out \in {"free", "paid", "approval", "nobody"}
  BY <1>1, StepShape
<1>4. UNCHANGED <<deps, route, approver, approvals, runs, handle, task, calls, crashes>>
  BY DEF Routed
<1>5. PICK dst, items : /\ dst \in {"queued", "needs_approval", "failed"}
                       /\ Write(p, s, dst, items) /\ Fresh(items)
  <2>1. CASE x.out \in {"free", "paid"}
    <3>1. Write(p, s, "queued", IF then = "activity" THEN <<>> ELSE <<DoThen("run", s, then)>>)
      BY <1>1, <1>2, <2>1 DEF Routed
    <3>2. Fresh(<<>>) /\ Fresh(<<DoThen("run", s, then)>>)
      BY FreshLists, EasySteps
    <3>3. QED
      BY <3>1, <3>2
  <2>2. CASE x.out = "approval"
    <3>1. Write(p, s, "needs_approval",
                <<Do("flag", s), Do("ask", s)>> \o Tell(s, then, "waiting_approval"))
      BY <1>1, <1>2, <2>2 DEF Routed
    <3>2. Fresh(<<Do("flag", s), Do("ask", s)>>) /\ Fresh(Tell(s, then, "waiting_approval"))
      BY FreshLists, EasySteps, EasyLists DEF EasyOp, ExecutionState
    <3>3. QED
      BY <3>1, <3>2, FreshLists
  <2>3. CASE x.out = "nobody"
    <3>1. Write(p, s, "failed", <<Do("settle", s)>> \o Tell(s, then, "failed"))
      BY <1>1, <1>2, <2>3 DEF Routed
    <3>2. Fresh(<<Do("settle", s)>>) /\ Fresh(Tell(s, then, "failed"))
      BY FreshLists, EasySteps, EasyLists DEF EasyOp, ExecutionState
    <3>3. QED
      BY <3>1, <3>2, FreshLists
  <2>4. QED
    BY <1>3, <2>1, <2>2, <2>3
<1>6. Met(s, status, deps)
  BY <1>1, <1>2 DEF Sound, MetOp
<1>7. QED
  BY <1>1, <1>4, <1>5, <1>6, WriteStep DEF SubtaskStatus, LedgerInv, Held, RowTypeOK, PaidHeld

\* The writes of the task's row.
LEMMA TaskRowSteps ==
  ASSUME LedgerInv, NEW p \in Proc, Flag(p) \/ Progress(p) \/ Unflag(p)
  PROVE  LedgerInv' /\ Moves
<1>1. /\ todo[p] # <<>> /\ Go(p, <<>>)
      /\ UNCHANGED <<status, deps, route, approver, approvals, runs, handle, calls, crashes>>
  BY DEF Flag, Progress, Unflag, Doing
<1>2. task' \in TaskStatus /\ (task \in TerminalTaskStatus => task' = task)
  BY DEF Flag, Progress, Unflag, Advance, TaskStatus, TerminalTaskStatus, LedgerInv, Held, RowTypeOK
<1>3. Held' /\ Moves /\ Spares(p)
  BY <1>1, <1>2, RowsStay DEF LedgerInv, Held, RowTypeOK, PaidHeld
<1>4. QED
  BY <1>1, <1>3, StepEnds, FreshLists

\* Asking: looking for a pending approval, and appending one.
LEMMA AskSteps ==
  ASSUME LedgerInv, NEW p \in Proc, Ask(p) \/ Asking(p)
  PROVE  LedgerInv' /\ Moves
<1>1. CASE Ask(p)
  <2>0. Doing(p, "ask")
    BY <1>1 DEF Ask
  <2>1. PICK s \in Subtask : s = It(p).s /\ todo[p] # <<>>
    BY <2>0, DoingIt, StepShape
  <2>2. Fresh(<<>>) /\ Fresh(<<Do("asking", s)>>)
    BY FreshLists, EasySteps DEF EasyOp
  <2>3. PICK items : Go(p, items) /\ Fresh(items)
    BY <1>1, <2>1, <2>2 DEF Ask
  <2>4. QED
    BY <1>1, <2>1, <2>3, QuietStep DEF Ask
<1>2. CASE Asking(p)
  <2>0. Doing(p, "asking")
    BY <1>2 DEF Asking
  <2>1. PICK s \in Subtask : s = It(p).s /\ todo[p] # <<>>
    BY <2>0, DoingIt, StepShape
  <2>2. PICK a : a = Append(approvals[s], "pending")
    OBVIOUS
  <2>3. /\ a \in Seq(ApprovalStatus) /\ Len(approvals[s]) <= Len(a)
        /\ \A n \in DOMAIN approvals[s] : a[n] = approvals[s][n]
    BY <2>2 DEF LedgerInv, Held, RowTypeOK, ApprovalStatus
  <2>4. /\ approvals' = [approvals EXCEPT ![s] = a] /\ Go(p, <<>>)
        /\ UNCHANGED <<status, deps, route, approver, runs, handle, task, calls, crashes>>
    BY <1>2, <2>1, <2>2 DEF Asking
  <2>5. Held' /\ Moves /\ Spares(p)
    BY <2>3, <2>4, RowApprovals
  <2>6. QED
    BY <2>1, <2>4, <2>5, StepEnds, FreshLists
<1>3. QED
  BY <1>1, <1>2

\* The direct backend's handle.
LEMMA HandleStep ==
  ASSUME LedgerInv, NEW p \in Proc, Handle(p)
  PROVE  LedgerInv' /\ Moves
<1>0. Doing(p, "handle")
  BY DEF Handle
<1>1. PICK x \in Step : x = It(p) /\ x.op = "handle" /\ todo[p] # <<>>
  BY <1>0, DoingIt
<1>2. x.s \in Subtask /\ x.state \in ExecutionState \cup {"outcome"}
  BY <1>1, StepShape
<1>3. PICK told \in ExecutionState :
        handle' = [handle EXCEPT ![x.s] = IF x.then = "start" THEN told ELSE Follow(@, told, LiveExecution)]
  BY <1>1, <1>2 DEF Handle, ExecutionState
<1>4. handle' \in [Subtask -> ExecutionState \cup {"none"}]
  BY <1>2, <1>3 DEF Follow, LedgerInv, Held, RowTypeOK
<1>5. /\ Go(p, <<>>)
      /\ UNCHANGED <<status, deps, route, approver, approvals, runs, task, calls, crashes>>
  BY DEF Handle
<1>6. Held' /\ Moves /\ Spares(p)
  BY <1>4, <1>5, RowsStay DEF LedgerInv, Held, RowTypeOK, PaidHeld
<1>7. QED
  BY <1>1, <1>5, <1>6, StepEnds, FreshLists

----------------------------------------------------------------------------
(* run_subtask, _execute, _record_result.                                  *)

\* The checks of run_subtask; the worker of the claim is the route's.
LEMMA RunStep ==
  ASSUME LedgerInv, NEW p \in Proc, Run(p)
  PROVE  LedgerInv' /\ Moves
<1>0. Doing(p, "run")
  BY DEF Run
<1>1. PICK x \in Step : x = It(p) /\ x.op = "run" /\ todo[p] # <<>>
  BY <1>0, DoingIt
<1>2. PICK s \in Subtask, then \in {"start", "resume", "activity"} : s = x.s /\ then = x.then
  BY <1>1, StepShape
<1>3. UNCHANGED <<status, deps, route, approver, approvals, runs, handle, task, calls, crashes>>
  BY DEF Run
<1>4. Fresh(Tell(s, then, "outcome"))
  BY EasyLists
<1>5. CASE status[s] \in TerminalSubtask
  <2>1. Go(p, Tell(s, then, "outcome"))
    BY <1>1, <1>2, <1>5 DEF Run
  <2>2. QED
    BY <1>1, <1>3, <1>4, <2>1, QuietStep
<1>6. CASE status[s] \notin TerminalSubtask /\ status[s] = "queued" /\ route[s] \in {"free", "paid"}
  <2> DEFINE y == [op |-> "claim", s |-> s, worker |-> route[s]]
  <2>1. Go(p, <<y>> \o Tell(s, then, "outcome"))
    BY <1>1, <1>2, <1>6 DEF Run
  <2>2. y \in Step /\ y.op = "claim" /\ y.s = s /\ y.worker = route[s]
    BY <1>6 DEF Step
  <2> HIDE DEF y
  <2>3. y.worker = "paid" => Granted(s, approvals')
    BY <1>3, <2>2 DEF LedgerInv, Held, PaidHeld, Granted
  <2>4. Plain(y)
    BY <2>2, <2>3 DEF Plain, Sound, OwnOp, MetOp
  <2>5. Fresh(<<y>> \o Tell(s, then, "outcome"))
    BY <1>4, <2>4, FreshLists
  <2>6. QED
    BY <1>1, <1>3, <2>1, <2>5, QuietStep
<1>7. CASE status[s] \notin TerminalSubtask /\ ~(status[s] = "queued" /\ route[s] \in {"free", "paid"})
  <2>1. Raise(p)
    BY <1>1, <1>2, <1>7 DEF Run
  <2>2. QED
    BY <1>3, <2>1, QuietStep
<1>8. QED
  BY <1>5, <1>6, <1>7

\* The claim: whoever finds the subtask queued becomes its one owner.
LEMMA ClaimStep ==
  ASSUME LedgerInv, NEW p \in Proc, Claim(p)
  PROVE  LedgerInv' /\ Moves
<1>0. Doing(p, "claim")
  BY DEF Claim
<1>1. PICK x \in Step : /\ x = It(p) /\ x.op = "claim" /\ todo[p] # <<>>
                        /\ Sound(x, status, deps, approvals, runs)
  BY <1>0, DoingIt
<1>2. PICK s \in Subtask : s = x.s
  BY <1>1, StepShape
<1>3. UNCHANGED <<deps, route, approver, approvals, runs, handle, task, calls, crashes>>
  BY DEF Claim
<1>4. CASE status[s] = "queued"
  <2> DEFINE y == [op |-> "govern", s |-> s, worker |-> x.worker]
  <2>1. status' = [status EXCEPT ![s] = "running"] /\ Go(p, <<y>>)
    BY <1>1, <1>2, <1>4 DEF Claim, ClaimFrom
  <2>2. Held' /\ Moves /\ Spares(p)
    <3>1. "running" \in SubtaskEdges(status[s]) /\ status[s] # "absent"
      BY <1>4 DEF SubtaskEdges
    <3>2. approver' \in [Subtask -> BOOLEAN] /\ \A t \in Subtask : approver'[t] => Granted(t, approvals)
      BY <1>3 DEF LedgerInv, Held, RowTypeOK, PaidHeld
    <3>3. QED
      BY <1>3, <2>1, <3>1, <3>2, RowStatus
  <2>3. y \in Step /\ y.op = "govern" /\ y.s = s /\ y.worker = x.worker
    BY <1>1, StepShape DEF Step
  <2> HIDE DEF y
  <2>4. Sound(y, status', deps', approvals', runs')
    BY <1>1, <1>2, <1>3, <2>3 DEF Sound, MetOp, Granted
  <2>5. \A q \in Proc : ~Owns(q, s)
    BY <1>4 DEF LedgerInv, Owned, Begun
  <2>6. status'[s] = "running" /\ Begun(s, status') /\ runs'[s] = <<>>
    BY <1>3, <1>4, <2>1 DEF LedgerInv, Held, RowTypeOK, RunsHeld, Begun
  <2>7. StackTypeOK' /\ StacksSound' /\ Owned'
    BY <1>1, <2>1, <2>2, <2>3, <2>4, <2>5, <2>6, OwnEnds DEF OwnOp
  <2>8. QED
    BY <1>3, <2>2, <2>7 DEF LedgerInv, Counted
<1>5. CASE status[s] # "queued"
  <2>1. Raise(p) /\ UNCHANGED status
    BY <1>1, <1>2, <1>5 DEF Claim, ClaimFrom
  <2>2. QED
    BY <1>3, <2>1, QuietStep
<1>6. QED
  BY <1>4, <1>5

\* The tool governor's verdict.
LEMMA GovernStep ==
  ASSUME LedgerInv, NEW p \in Proc, NEW allowed \in BOOLEAN, Govern(p, allowed)
  PROVE  LedgerInv' /\ Moves
<1>0. Doing(p, "govern")
  BY DEF Govern
<1>1. PICK x \in Step : /\ x = It(p) /\ x.op = "govern" /\ todo[p] # <<>> /\ Owns(p, x.s)
                        /\ x = todo[p][1] /\ Sound(x, status, deps, approvals, runs)
  BY <1>0, DoingIt DEF OwnOp
<1>2. PICK s \in Subtask : s = x.s
  BY <1>1, StepShape
<1>3. UNCHANGED <<deps, route, approver, approvals, runs, handle, task, calls, crashes>>
  BY DEF Govern
<1>4. CASE allowed
  <2> DEFINE y == [op |-> "spawn", s |-> s, worker |-> x.worker]
  <2>1. UNCHANGED status /\ Go(p, <<y>>)
    BY <1>1, <1>2, <1>4 DEF Govern
  <2>2. Held' /\ Moves /\ Spares(p)
    BY <1>3, <2>1, RowsStay DEF LedgerInv, Held, RowTypeOK, PaidHeld
  <2>3. y \in Step /\ y.op = "spawn" /\ y.s = s /\ y.worker = x.worker
    BY <1>1, StepShape DEF Step
  <2> HIDE DEF y
  <2>4. Sound(y, status', deps', approvals', runs')
    BY <1>1, <1>2, <1>3, <2>3 DEF Sound, MetOp, Granted
  <2>5. \A q \in Proc : q # p => ~Owns(q, s)
    BY <1>1, <1>2 DEF LedgerInv, Owned
  <2>6. Begun(s, status') /\ runs'[s] = <<>>
    BY <1>1, <1>2, <1>3, <2>1 DEF LedgerInv, Owned
  <2>7. StackTypeOK' /\ StacksSound' /\ Owned'
    BY <1>1, <2>1, <2>2, <2>3, <2>4, <2>5, <2>6, OwnEnds DEF OwnOp
  <2>8. QED
    BY <1>3, <2>2, <2>7 DEF LedgerInv, Counted
<1>5. CASE ~allowed
  <2>1. PICK v : /\ v = Advance(status[s], "failed", {"running"})
                 /\ status' = [status EXCEPT ![s] = v]
                 /\ Go(p, <<Do("settle", s), DoSet("cascade", {s})>>)
    BY <1>1, <1>2, <1>5 DEF Govern
  <2>2. v = status[s] \/ (status[s] # "absent" /\ v \in SubtaskEdges(status[s]) /\ v # "queued")
    BY <2>1 DEF Advance, SubtaskEdges
  <2>3. Fresh(<<Do("settle", s), DoSet("cascade", {s})>>)
    BY FreshLists, EasySteps DEF EasyOp
  <2>4. QED
    BY <1>1, <1>3, <2>1, <2>2, <2>3, AdvanceStep
<1>6. QED
  BY <1>4, <1>5

\* The run row: the first and only one.
LEMMA SpawnStep ==
  ASSUME LedgerInv, NEW p \in Proc, Spawn(p)
  PROVE  LedgerInv' /\ Moves
<1>0. Doing(p, "spawn")
  BY DEF Spawn
<1>1. PICK x \in Step : /\ x = It(p) /\ x.op = "spawn" /\ todo[p] # <<>> /\ Owns(p, x.s)
                        /\ x = todo[p][1] /\ Sound(x, status, deps, approvals, runs)
  BY <1>0, DoingIt DEF OwnOp
<1>2. PICK s \in Subtask : s = x.s
  BY <1>1, StepShape
<1>3. UNCHANGED <<status, deps, route, approver, approvals, handle, task, calls, crashes>>
  BY DEF Spawn
<1>4. x.worker \in {"free", "paid"} /\ runs[s] = <<>> /\ Begun(s, status)
  BY <1>1, <1>2, StepShape DEF LedgerInv, Owned
<1>5. PICK r : r = [status |-> "running", worker |-> x.worker]
  OBVIOUS
<1>6. r \in RunRecord /\ r.status = "running" /\ r.worker = x.worker
  BY <1>4, <1>5 DEF RunRecord, RunStatus
<1>7. /\ runs' = [runs EXCEPT ![s] = Append(<<>>, r)]
      /\ Go(p, <<Do("progress", s), DoNth("work", s, Len(runs[s]) + 1)>>)
  BY <1>1, <1>2, <1>4, <1>5 DEF Spawn
<1>8. /\ runs'[s] \in Seq(RunRecord) /\ Len(runs'[s]) = 1 /\ runs'[s][1] = r
      /\ DOMAIN runs'[s] = {1}
      /\ \A t \in Subtask : t # s => runs'[t] = runs[t]
      /\ runs' \in [Subtask -> Seq(RunRecord)]
  BY <1>6, <1>7 DEF LedgerInv, Held, RowTypeOK
<1>9. Moves /\ Spares(p)
  BY <1>1, <1>2, <1>3, <1>4, <1>8 DEF Moves, Final, Spares
<1>10. Held'
  <2>1. RowTypeOK'
    BY <1>3, <1>8 DEF LedgerInv, Held, RowTypeOK
  <2>2. DepsHeld' /\ PaidHeld'
    BY <1>3 DEF LedgerInv, Held, DepsHeld, PaidHeld, Met, Granted
  <2>3. x.worker = "paid" => Granted(s, approvals)
    BY <1>1, <1>2 DEF Sound
  <2>4. RunsHeld'
    <3>1. SUFFICES ASSUME NEW t \in Subtask
                   PROVE  /\ Len(runs'[t]) <= 1
                          /\ runs'[t] # <<>> => Begun(t, status')
                          /\ \A n \in DOMAIN runs'[t] :
                               /\ runs'[t][n].status = "succeeded" => status'[t] = "succeeded"
                               /\ runs'[t][n].worker = "paid" => Granted(t, approvals')
      BY DEF RunsHeld
    <3>2. CASE t = s
      <4>1. status' = status /\ approvals' = approvals
        BY <1>3
      <4>2. Len(runs'[s]) <= 1 /\ Begun(s, status')
        BY <1>4, <1>8, <4>1
      <4>3. \A n \in DOMAIN runs'[s] : n = 1 /\ runs'[s][n].status = "running"
                                       /\ runs'[s][n].worker = x.worker
        BY <1>6, <1>8
      <4>4. QED
        BY <2>3, <3>2, <4>1, <4>2, <4>3
    <3>3. CASE t # s
      BY <1>3, <1>8, <3>3 DEF LedgerInv, Held, RunsHeld
    <3>4. QED
      BY <3>2, <3>3
  <2>5. QED
    BY <2>1, <2>2, <2>4 DEF Held
<1>11. PICK y : y = DoNth("work", s, 1)
  OBVIOUS
<1>12. y \in Step /\ y.op = "work" /\ y.s = s /\ y.n = 1
  BY <1>11 DEF DoNth, Step
<1>13. Plain(y)
  BY <1>8, <1>12 DEF Plain, Sound, OwnOp, MetOp
<1>14. Fresh(<<Do("progress", s), y>>)
  BY <1>13, FreshLists, EasySteps DEF EasyOp
<1>15. Go(p, <<Do("progress", s), y>>)
  BY <1>4, <1>7, <1>11
<1>16. QED
  BY <1>1, <1>3, <1>9, <1>10, <1>14, <1>15, StepEnds

\* The worker returns: its result lands on a subtask that still runs.
LEMMA WorkStep ==
  ASSUME LedgerInv, NEW p \in Proc, NEW result \in {"succeeded", "failed"}, Work(p, result)
  PROVE  LedgerInv' /\ Moves
<1>0. Doing(p, "work")
  BY DEF Work
<1>1. PICK x \in Step : /\ x = It(p) /\ x.op = "work" /\ todo[p] # <<>>
                        /\ Sound(x, status, deps, approvals, runs)
  BY <1>0, DoingIt
<1>2. PICK s \in Subtask, n \in Nat : s = x.s /\ n = x.n
  BY <1>1, StepShape
<1>3. UNCHANGED <<deps, route, approver, approvals, runs, handle, task, calls, crashes>>
  BY DEF Work
<1>4. CASE status[s] = "running"
  <2> DEFINE y == [op |-> "row", s |-> s, n |-> n, to |-> result]
             z == IF result = "succeeded" THEN Do("release", s) ELSE DoSet("cascade", {s})
  <2>1. status' = [status EXCEPT ![s] = result] /\ Go(p, <<y, Do("settle", s), z>>)
    BY <1>1, <1>2, <1>4 DEF Work, Lands, Advance
  <2>2. y \in Step /\ y.op = "row" /\ y.s = s /\ y.n = n /\ y.to = result
    BY DEF Step, RunStatus
  <2>3. Plain(z)
    BY EasySteps DEF EasyOp
  <2> HIDE DEF y, z
  <2>4. status'[s] = result /\ n \in DOMAIN runs'[s]
    BY <1>1, <1>2, <1>3, <2>1 DEF LedgerInv, Held, RowTypeOK, Sound
  <2>5. Plain(y)
    BY <2>2, <2>4 DEF Plain, Sound, OwnOp, MetOp
  <2>6. Fresh(<<y, Do("settle", s), z>>)
    BY <2>3, <2>5, FreshLists, EasySteps DEF EasyOp
  <2>7. result \in SubtaskEdges(status[s]) /\ result # "queued"
    BY <1>4 DEF SubtaskEdges
  <2>8. QED
    BY <1>1, <1>3, <1>4, <2>1, <2>6, <2>7, AdvanceStep
<1>5. CASE status[s] # "running"
  <2>1. Go(p, <<>>) /\ UNCHANGED status
    BY <1>1, <1>2, <1>5 DEF Work, Lands
  <2>2. QED
    BY <1>1, <1>3, <2>1, QuietStep, FreshLists
<1>6. QED
  BY <1>4, <1>5

\* One run of a subtask takes another status.
LEMMA OneRun ==
  ASSUME RowTypeOK, NEW s \in Subtask, NEW n \in DOMAIN runs[s], NEW v \in RunStatus
  PROVE  \E e \in RunRecord :
           /\ e = [runs[s][n] EXCEPT !.status = v]
           /\ e.worker = runs[s][n].worker /\ e.status = v
<1>1. runs[s] \in Seq(RunRecord)
  BY DEF RowTypeOK
<1>2. runs[s][n] \in RunRecord
  BY <1>1
<1>3. PICK e : e = [runs[s][n] EXCEPT !.status = v]
  OBVIOUS
<1>4. e \in RunRecord /\ e.worker = runs[s][n].worker /\ e.status = v
  BY <1>2, <1>3 DEF RunRecord
<1>5. QED
  BY <1>3, <1>4

\* The run row follows the subtask; a success is the subtask's own.
LEMMA RunRowStep ==
  ASSUME LedgerInv, NEW p \in Proc, RunRow(p)
  PROVE  LedgerInv' /\ Moves
<1>0. Doing(p, "row")
  BY DEF RunRow
<1>1. PICK x \in Step : /\ x = It(p) /\ x.op = "row" /\ todo[p] # <<>>
                        /\ Sound(x, status, deps, approvals, runs)
  BY <1>0, DoingIt
<1>2. PICK s \in Subtask, n \in Nat : s = x.s /\ n = x.n
  BY <1>1, StepShape
<1>3. n \in DOMAIN runs[s] /\ x.to \in RunStatus /\ (x.to = "succeeded" => status[s] = "succeeded")
  BY <1>1, <1>2, StepShape DEF Sound
<1>4. /\ Go(p, <<>>)
      /\ UNCHANGED <<status, deps, route, approver, approvals, handle, task, calls, crashes>>
  BY DEF RunRow
<1>5. PICK v : /\ v = Advance(runs[s][n].status, x.to, {"running"})
               /\ runs' = [runs EXCEPT ![s][n].status = v]
  BY <1>1, <1>2 DEF RunRow
<1>6. /\ runs[s][n].status \in RunStatus
      /\ v \in RunStatus
      /\ runs[s][n].status \in TerminalRun => v = runs[s][n].status
      /\ v = "succeeded" => runs[s][n].status = "succeeded" \/ status[s] = "succeeded"
  <2>1. runs[s] \in Seq(RunRecord)
    BY DEF LedgerInv, Held, RowTypeOK
  <2>2. runs[s][n] \in RunRecord
    BY <1>3, <2>1
  <2>3. runs[s][n].status \in RunStatus
    BY <2>2 DEF RunRecord
  <2>4. QED
    BY <1>3, <1>5, <2>3 DEF Advance, RunStatus, TerminalRun
<1>7. PICK r \in Seq(RunRecord) :
           /\ runs' = [runs EXCEPT ![s] = r] /\ Len(r) = Len(runs[s])
           /\ r[n].worker = runs[s][n].worker /\ r[n].status = v
           /\ \A m \in DOMAIN runs[s] : m # n => r[m] = runs[s][m]
  <2>1. RowTypeOK /\ v \in RunStatus /\ n \in DOMAIN runs[s]
    BY <1>3, <1>6 DEF LedgerInv, Held
  <2>2. PICK e \in RunRecord : /\ e = [runs[s][n] EXCEPT !.status = v]
                               /\ e.worker = runs[s][n].worker /\ e.status = v
    BY <2>1, OneRun
  <2>3. runs' = [runs EXCEPT ![s] = [runs[s] EXCEPT ![n] = e]]
    BY <1>5, <2>2
  <2>4. PICK r : r = [runs[s] EXCEPT ![n] = e]
    OBVIOUS
  <2>5. /\ r \in Seq(RunRecord) /\ Len(r) = Len(runs[s]) /\ r[n] = e
        /\ \A m \in DOMAIN runs[s] : m # n => r[m] = runs[s][m]
    BY <2>1, <2>4 DEF RowTypeOK
  <2>6. QED
    BY <2>2, <2>3, <2>4, <2>5
<1>8. Held' /\ Moves /\ Spares(p)
  <2>1. \A m \in DOMAIN runs[s] :
           /\ r[m].worker = runs[s][m].worker
           /\ runs[s][m].status \in TerminalRun => r[m].status = runs[s][m].status
           /\ r[m].status = "succeeded" => runs[s][m].status = "succeeded" \/ status[s] = "succeeded"
    BY <1>6, <1>7
  <2>2. handle' \in [Subtask -> ExecutionState \cup {"none"}]
    BY <1>4 DEF LedgerInv, Held, RowTypeOK
  <2>3. QED
    BY <1>4, <1>7, <2>1, <2>2, RowRuns
<1>9. QED
  BY <1>1, <1>4, <1>8, StepEnds, FreshLists

\* _settle_parent_after_subtask looks.
LEMMA SettleStep ==
  ASSUME LedgerInv, NEW p \in Proc, Settle(p)
  PROVE  LedgerInv' /\ Moves
<1>0. Doing(p, "settle")
  BY DEF Settle
<1>1. PICK s \in Subtask : s = It(p).s /\ todo[p] # <<>>
  BY <1>0, DoingIt, StepShape
<1>2. Fresh(<<>>) /\ Fresh(<<Do("unflag", s)>>)
  BY FreshLists, EasySteps DEF EasyOp
<1>3. PICK items : Go(p, items) /\ Fresh(items)
  BY <1>1, <1>2 DEF Settle
<1>4. QED
  BY <1>1, <1>3, QuietStep DEF Settle

----------------------------------------------------------------------------
(* release_ready_subtasks and _cascade_dependency_failure.                 *)

\* The release reads the blocked subtasks whose dependencies are met, and
\* looks at each again.
LEMMA ReleaseSteps ==
  ASSUME LedgerInv, NEW p \in Proc, Release(p) \/ Releasing(p)
  PROVE  LedgerInv' /\ Moves
<1>1. CASE Release(p)
  <2>1. Fresh(DoEach("releasing", {s \in Subtask : Ready(s)}))
    BY EasyLists
  <2>2. QED
    BY <1>1, <2>1, QuietStep DEF Release, Doing
<1>2. CASE Releasing(p)
  <2>0. Doing(p, "releasing")
    BY <1>2 DEF Releasing
  <2>1. PICK set \in SUBSET Subtask : set = It(p).set /\ todo[p] # <<>>
    BY <2>0, DoingIt, StepShape
  <2>2. PICK s \in set : Go(p, (IF Ready(s) THEN <<Do("unblock", s)>> ELSE <<>>)
                               \o DoEach("releasing", set \ {s}))
    BY <1>2, <2>1 DEF Releasing
  <2>3. UNCHANGED <<status, deps, route, approver, approvals, runs, handle, task, calls, crashes>>
    BY <1>2 DEF Releasing
  <2>4. Fresh(DoEach("releasing", set \ {s}))
    BY EasyLists
  <2>5. Ready(s) => Plain(Do("unblock", s))
    <3>1. SUFFICES ASSUME Ready(s) PROVE Plain(Do("unblock", s))
      OBVIOUS
    <3>2. PICK y : y = Do("unblock", s)
      OBVIOUS
    <3>3. y \in Step /\ y.op = "unblock" /\ y.s = s
      BY <2>2, <3>2 DEF Do, Step
    <3>4. Met(s, status', deps')
      BY <2>3, <3>1 DEF Ready, Unmet, Met
    <3>5. Plain(y)
      BY <3>3, <3>4 DEF Plain, Sound, OwnOp, MetOp
    <3>6. QED
      BY <3>2, <3>5
  <2>6. PICK items : Go(p, items) /\ Fresh(items)
    BY <2>2, <2>4, <2>5, FreshLists
  <2>7. QED
    BY <2>1, <2>3, <2>6, QuietStep
<1>3. QED
  BY <1>1, <1>2

\* The release writes: only a subtask whose dependencies were met when it
\* was looked at is unblocked, and they stay met.
LEMMA UnblockStep ==
  ASSUME LedgerInv, NEW p \in Proc, Unblock(p)
  PROVE  LedgerInv' /\ Moves
<1>0. Doing(p, "unblock")
  BY DEF Unblock
<1>1. PICK x \in Step : /\ x = It(p) /\ x.op = "unblock" /\ todo[p] # <<>>
                        /\ Sound(x, status, deps, approvals, runs)
  BY <1>0, DoingIt
<1>2. PICK s \in Subtask : s = x.s
  BY <1>1, StepShape
<1>3. /\ Write(p, s, "queued", <<DoThen("route", s, "start")>>)
      /\ UNCHANGED <<deps, route, approver, approvals, runs, handle, task, calls, crashes>>
  BY <1>1, <1>2 DEF Unblock
<1>4. Met(s, status, deps) /\ Fresh(<<DoThen("route", s, "start")>>)
  BY <1>1, <1>2, FreshLists, EasySteps DEF Sound, MetOp
<1>5. QED
  BY <1>1, <1>3, <1>4, WriteStep DEF SubtaskStatus, LedgerInv, Held, RowTypeOK, PaidHeld

\* The cascade reads the dependents and fails the blocked ones.
LEMMA CascadeSteps ==
  ASSUME LedgerInv, NEW p \in Proc, Cascade(p) \/ Failing(p)
  PROVE  LedgerInv' /\ Moves
<1>1. CASE Cascade(p)
  <2>0. Doing(p, "cascade")
    BY <1>1 DEF Cascade
  <2>1. PICK set \in SUBSET Subtask : set = It(p).set /\ todo[p] # <<>>
    BY <2>0, DoingIt, StepShape
  <2>2. PICK x \in set : Go(p, FailEach({s \in Subtask : x \in deps[s]}, set \ {x}))
    BY <1>1, <2>1 DEF Cascade
  <2>3. Fresh(FailEach({s \in Subtask : x \in deps[s]}, set \ {x}))
    BY EasyLists
  <2>4. QED
    BY <1>1, <2>1, <2>2, <2>3, QuietStep DEF Cascade
<1>2. CASE Failing(p)
  <2>0. Doing(p, "failing")
    BY <1>2 DEF Failing
  <2>1. PICK set \in SUBSET Subtask, stack \in SUBSET Subtask :
          set = It(p).set /\ stack = It(p).stack /\ todo[p] # <<>>
    BY <2>0, DoingIt, StepShape
  <2>2. PICK s \in set :
          /\ status' = [status EXCEPT ![s] = Advance(@, "failed", {"blocked"})]
          /\ Go(p, FailEach(set \ {s}, stack \cup {c \in {s} : status[c] = "blocked"}))
    BY <1>2, <2>1 DEF Failing
  <2>3. PICK v : v = Advance(status[s], "failed", {"blocked"}) /\ status' = [status EXCEPT ![s] = v]
    BY <2>2
  <2>4. v = status[s] \/ (status[s] # "absent" /\ v \in SubtaskEdges(status[s]) /\ v # "queued")
    BY <2>3 DEF Advance, SubtaskEdges
  <2>5. Fresh(FailEach(set \ {s}, stack \cup {c \in {s} : status[c] = "blocked"}))
    BY EasyLists
  <2>6. QED
    BY <1>2, <2>1, <2>2, <2>3, <2>4, <2>5, AdvanceStep DEF Failing
<1>3. QED
  BY <1>1, <1>2

----------------------------------------------------------------------------
(* approve_subtask, deny_subtask, expire_approval.                         *)

\* A step about one approval of a subtask.
LEMMA NthStep ==
  ASSUME NEW op \in {"grant", "deny"}, NEW s \in Subtask, NEW n \in Nat,
         n \in DOMAIN approvals'[s] \/ (op = "deny" /\ n = 0),
         op = "grant" => Met(s, status', deps')
  PROVE  Plain(DoNth(op, s, n))
<1>1. PICK y : y = DoNth(op, s, n)
  OBVIOUS
<1>2. y \in Step /\ y.op = op /\ y.s = s /\ y.n = n
  BY <1>1 DEF DoNth, Step
<1>3. Plain(y)
  BY <1>2 DEF Plain, Sound, OwnOp, MetOp
<1>4. QED
  BY <1>1, <1>3

\* A step that rests on dependencies that are met.
LEMMA MetStep ==
  ASSUME NEW op \in {"opening", "requeue"}, NEW s \in Subtask, Met(s, status', deps'),
         op = "requeue" => Granted(s, approvals')
  PROVE  Plain(Do(op, s))
<1>1. PICK y : y = Do(op, s)
  OBVIOUS
<1>2. y \in Step /\ y.op = op /\ y.s = s
  BY <1>1 DEF Do, Step
<1>3. Plain(y)
  BY <1>2 DEF Plain, Sound, OwnOp, MetOp
<1>4. QED
  BY <1>1, <1>3

\* The checks of approve_subtask and deny_subtask.
LEMMA ApproveDenySteps ==
  ASSUME LedgerInv, NEW p \in Proc, NEW s \in Subtask, Approve(p, s) \/ Deny(p, s)
  PROVE  LedgerInv' /\ Moves
<1>0. UNCHANGED <<status, deps, route, approver, approvals, runs, handle, task, crashes>>
  BY DEF Approve, Deny
<1>1. PICK n : n = LatestPending(s) /\ (n = 0 \/ n \in DOMAIN approvals[s]) /\ n \in Nat
  BY LatestPendingIs DEF LedgerInv, Held, RowTypeOK
<1>2. Met(s, status', deps')
  BY <1>0 DEF Approve, Deny, LedgerInv, Held, DepsHeld, Dispatched, Met
<1>3. n # 0 => Plain(DoNth("grant", s, n))
  BY <1>0, <1>1, <1>2, NthStep
<1>4. Plain(DoNth("deny", s, n)) /\ Plain(Do("opening", s))
  BY <1>0, <1>1, <1>2, NthStep, MetStep
<1>5. PICK items : Call(p, items) /\ Fresh(items)
  <2>1. CASE Approve(p, s) /\ n > 0
    BY <1>1, <1>3, <2>1, FreshLists DEF Approve
  <2>2. CASE Approve(p, s) /\ ~(n > 0)
    BY <1>1, <1>4, <2>2, FreshLists DEF Approve
  <2>3. CASE Deny(p, s)
    BY <1>1, <1>4, <2>3, FreshLists DEF Deny
  <2>4. QED
    BY <2>1, <2>2, <2>3
<1>6. QED
  BY <1>0, <1>5, QuietStep

\* One approval of a subtask takes a verdict.
LEMMA OneApproval ==
  ASSUME LedgerInv, NEW p \in Proc, NEW s \in Subtask, NEW n \in DOMAIN approvals[s],
         NEW v \in ApprovalStatus, approvals[s][n] = "pending" \/ approvals[s][n] = v,
         approvals' = [approvals EXCEPT ![s][n] = v],
         UNCHANGED <<status, deps, route, approver, runs, handle, task>>
  PROVE  Held' /\ Moves /\ Spares(p) /\ n \in DOMAIN approvals'[s] /\ approvals'[s][n] = v
<1>1. approvals[s] \in Seq(ApprovalStatus)
  BY DEF LedgerInv, Held, RowTypeOK
<1>2. PICK a : a = [approvals[s] EXCEPT ![n] = v]
  OBVIOUS
<1>3. /\ a \in Seq(ApprovalStatus) /\ Len(a) = Len(approvals[s]) /\ a[n] = v
      /\ \A m \in DOMAIN approvals[s] : m # n => a[m] = approvals[s][m]
  BY <1>1, <1>2
<1>4. approvals' = [approvals EXCEPT ![s] = a]
  BY <1>2
<1>5. /\ Len(approvals[s]) <= Len(a)
      /\ \A m \in DOMAIN approvals[s] : approvals[s][m] # "pending" => a[m] = approvals[s][m]
  BY <1>1, <1>3
<1>6. Held' /\ Moves /\ Spares(p)
  BY <1>3, <1>4, <1>5, RowApprovals
<1>7. approvals'[s] = a /\ n \in DOMAIN a
  BY <1>1, <1>3, <1>4 DEF LedgerInv, Held, RowTypeOK
<1>8. QED
  BY <1>3, <1>6, <1>7

\* An approval nobody asked for.
LEMMA OpeningStep ==
  ASSUME LedgerInv, NEW p \in Proc, Opening(p)
  PROVE  LedgerInv' /\ Moves
<1>0. Doing(p, "opening")
  BY DEF Opening
<1>1. PICK x \in Step : /\ x = It(p) /\ x.op = "opening" /\ todo[p] # <<>>
                        /\ Sound(x, status, deps, approvals, runs)
  BY <1>0, DoingIt
<1>2. PICK s \in Subtask : s = x.s
  BY <1>1, StepShape
<1>3. PICK a : a = Append(approvals[s], "pending")
  OBVIOUS
<1>4. /\ approvals[s] \in Seq(ApprovalStatus)
      /\ a \in Seq(ApprovalStatus) /\ Len(a) = Len(approvals[s]) + 1
      /\ \A n \in DOMAIN approvals[s] : a[n] = approvals[s][n]
  BY <1>3 DEF LedgerInv, Held, RowTypeOK, ApprovalStatus
<1>5. /\ approvals' = [approvals EXCEPT ![s] = a]
      /\ Go(p, <<DoNth("grant", s, Len(approvals[s]) + 1)>>)
      /\ UNCHANGED <<status, deps, route, approver, runs, handle, task, calls, crashes>>
  BY <1>1, <1>2, <1>3 DEF Opening
<1>6. Held' /\ Moves /\ Spares(p)
  <2>1. Len(approvals[s]) <= Len(a)
    BY <1>4
  <2>2. QED
    BY <1>4, <1>5, <2>1, RowApprovals
<1>7. PICK n \in Nat : n = Len(approvals[s]) + 1 /\ n \in DOMAIN a /\ approvals'[s] = a
  BY <1>4, <1>5 DEF LedgerInv, Held, RowTypeOK
<1>8. Met(s, status', deps')
  BY <1>1, <1>2, <1>5 DEF Sound, MetOp, Met
<1>9. Fresh(<<DoNth("grant", s, n)>>)
  BY <1>7, <1>8, NthStep, FreshLists
<1>10. QED
  BY <1>1, <1>5, <1>6, <1>7, <1>9, StepEnds

\* A verdict on an approval: the second one raises, a grant is a human's
\* word for good.
LEMMA DecideSteps ==
  ASSUME LedgerInv, NEW p \in Proc, Grant(p) \/ DenyApproval(p)
  PROVE  LedgerInv' /\ Moves
<1>0. UNCHANGED <<status, deps, route, approver, runs, handle, task, calls, crashes>>
  BY DEF Grant, DenyApproval
<1>1. ASSUME NEW s \in Subtask, NEW n \in DOMAIN approvals[s], NEW verdict \in {"granted", "denied"},
             NEW y, Decide(p, s, n, verdict, <<y>>), todo[p] # <<>>,
             Plain(y) \/ (approvals' = [approvals EXCEPT ![s][n] = verdict]
                          /\ approvals'[s][n] = verdict /\ n \in DOMAIN approvals'[s] => Plain(y))
      PROVE  LedgerInv' /\ Moves
  <2>1. CASE Admits(ApprovalEdges(approvals[s][n]), approvals[s][n], verdict)
    <3>1. approvals' = [approvals EXCEPT ![s][n] = verdict] /\ Go(p, <<y>>)
      BY <1>1, <2>1 DEF Decide
    <3>2. approvals[s][n] = "pending" \/ approvals[s][n] = verdict
      BY <2>1 DEF Admits, ApprovalEdges
    <3>3. verdict \in ApprovalStatus
      BY <1>1 DEF ApprovalStatus
    <3>4. Held' /\ Moves /\ Spares(p) /\ n \in DOMAIN approvals'[s] /\ approvals'[s][n] = verdict
      BY <1>0, <3>1, <3>2, <3>3, OneApproval
    <3>5. Fresh(<<y>>)
      BY <1>1, <3>1, <3>4, FreshLists
    <3>6. QED
      BY <1>0, <1>1, <3>1, <3>4, <3>5, StepEnds
  <2>2. CASE ~Admits(ApprovalEdges(approvals[s][n]), approvals[s][n], verdict)
    <3>1. Raise(p) /\ UNCHANGED approvals
      BY <1>1, <2>2 DEF Decide
    <3>2. QED
      BY <1>0, <3>1, QuietStep
  <2>3. QED
    BY <2>1, <2>2
<1>2. CASE Grant(p)
  <2>0. Doing(p, "grant")
    BY <1>2 DEF Grant
  <2>1. PICK x \in Step : /\ x = It(p) /\ x.op = "grant" /\ todo[p] # <<>>
                          /\ Sound(x, status, deps, approvals, runs)
    BY <2>0, DoingIt
  <2>2. PICK s \in Subtask, n \in Nat : s = x.s /\ n = x.n
    BY <2>1, StepShape
  <2>3. n \in DOMAIN approvals[s] /\ Met(s, status', deps')
    BY <1>0, <2>1, <2>2 DEF Sound, MetOp, Met
  <2>4. Decide(p, s, n, "granted", <<Do("requeue", s)>>)
    BY <1>2, <2>1, <2>2 DEF Grant
  <2>5. approvals'[s][n] = "granted" /\ n \in DOMAIN approvals'[s] => Plain(Do("requeue", s))
    BY <2>3, MetStep DEF Granted
  <2>6. QED
    BY <1>1, <2>1, <2>3, <2>4, <2>5
<1>3. CASE DenyApproval(p)
  <2>0. Doing(p, "deny")
    BY <1>3 DEF DenyApproval
  <2>1. PICK x \in Step : /\ x = It(p) /\ x.op = "deny" /\ todo[p] # <<>>
                          /\ Sound(x, status, deps, approvals, runs)
    BY <2>0, DoingIt
  <2>2. PICK s \in Subtask, n \in Nat : s = x.s /\ n = x.n
    BY <2>1, StepShape
  <2>3. Plain(Do("refuse", s))
    BY EasySteps DEF EasyOp
  <2>4. CASE n = 0
    <3>1. Go(p, <<Do("refuse", s)>>) /\ UNCHANGED approvals
      BY <1>3, <2>1, <2>2, <2>4 DEF DenyApproval
    <3>2. QED
      BY <1>0, <2>1, <2>3, <3>1, QuietStep, FreshLists
  <2>5. CASE n # 0
    <3>1. n \in DOMAIN approvals[s]
      BY <2>1, <2>2, <2>5 DEF Sound
    <3>2. Decide(p, s, n, "denied", <<Do("refuse", s)>>)
      BY <1>3, <2>1, <2>2, <2>5 DEF DenyApproval
    <3>3. QED
      BY <1>1, <2>1, <2>3, <3>1, <3>2
  <2>6. QED
    BY <2>4, <2>5
<1>4. QED
  BY <1>2, <1>3

\* approve_subtask requeues; approved_by comes with it, and rests on the
\* approval that was granted.
LEMMA RequeueStep ==
  ASSUME LedgerInv, NEW p \in Proc, Requeue(p)
  PROVE  LedgerInv' /\ Moves
<1>0. Doing(p, "requeue")
  BY DEF Requeue
<1>1. PICK x \in Step : /\ x = It(p) /\ x.op = "requeue" /\ todo[p] # <<>>
                        /\ Sound(x, status, deps, approvals, runs)
  BY <1>0, DoingIt
<1>2. PICK s \in Subtask : s = x.s
  BY <1>1, StepShape
<1>3. /\ Write(p, s, "queued", <<Do("signal", s)>>)
      /\ UNCHANGED <<deps, route, approvals, runs, handle, task, calls, crashes>>
  BY <1>1, <1>2 DEF Requeue
<1>4. PICK b \in BOOLEAN : approver' = [approver EXCEPT ![s] = b]
  <2>1. PICK b : b = (approver[s] \/ status[s] = "needs_approval")
    OBVIOUS
  <2>2. b \in BOOLEAN /\ approver' = [approver EXCEPT ![s] = b]
    BY <1>1, <1>2, <2>1 DEF Requeue
  <2>3. QED
    BY <2>2
<1>5. Met(s, status, deps) /\ Granted(s, approvals)
  BY <1>1, <1>2 DEF Sound, MetOp
<1>6. approver' \in [Subtask -> BOOLEAN]
  BY <1>4 DEF LedgerInv, Held, RowTypeOK
<1>7. \A t \in Subtask : approver'[t] => Granted(t, approvals)
  BY <1>4, <1>5 DEF LedgerInv, Held, RowTypeOK, PaidHeld
<1>8. Fresh(<<Do("signal", s)>>)
  BY FreshLists, EasySteps DEF EasyOp
<1>9. QED
  BY <1>1, <1>3, <1>5, <1>6, <1>7, <1>8, WriteStep DEF SubtaskStatus

\* The signal, and the check of an expired approval.
LEMMA SignalExpiredSteps ==
  ASSUME LedgerInv, NEW p \in Proc, Signal(p) \/ Expired(p)
  PROVE  LedgerInv' /\ Moves
<1>0. Doing(p, "signal") \/ Doing(p, "expired")
  BY DEF Signal, Expired
<1>1. PICK s \in Subtask : s = It(p).s /\ todo[p] # <<>>
  BY <1>0, DoingIt, StepShape
<1>2. Fresh(<<>>) /\ Fresh(<<DoThen("route", s, "resume")>>) /\ Fresh(<<Do("refuse", s)>>)
  BY FreshLists, EasySteps DEF EasyOp
<1>3. PICK items : Go(p, items) /\ Fresh(items)
  BY <1>1, <1>2 DEF Signal, Expired
<1>4. QED
  BY <1>1, <1>3, QuietStep DEF Signal, Expired

\* A denied or expired subtask fails.
LEMMA RefuseStep ==
  ASSUME LedgerInv, NEW p \in Proc, Refuse(p)
  PROVE  LedgerInv' /\ Moves
<1>0. Doing(p, "refuse")
  BY DEF Refuse
<1>1. PICK s \in Subtask : s = It(p).s /\ todo[p] # <<>>
  BY <1>0, DoingIt, StepShape
<1>2. /\ Write(p, s, "failed", Tell(s, "resume", "failed") \o <<Do("settle", s)>>)
      /\ UNCHANGED <<deps, route, approver, approvals, runs, handle, task, calls, crashes>>
  BY <1>1 DEF Refuse
<1>3. Fresh(Tell(s, "resume", "failed") \o <<Do("settle", s)>>)
  BY FreshLists, EasySteps, EasyLists DEF EasyOp, ExecutionState
<1>4. QED
  BY <1>1, <1>2, <1>3, WriteStep DEF SubtaskStatus, LedgerInv, Held, RowTypeOK, PaidHeld

\* A pending approval expires.
LEMMA ExpireStep ==
  ASSUME LedgerInv, NEW p \in Proc, NEW s \in Subtask, NEW n \in DOMAIN approvals[s], Expire(p, s, n)
  PROVE  LedgerInv' /\ Moves
<1>1. /\ approvals[s][n] = "pending" /\ approvals' = [approvals EXCEPT ![s][n] = "expired"]
      /\ Call(p, <<Do("expired", s)>>)
      /\ UNCHANGED <<status, deps, route, approver, runs, handle, task, crashes>>
  BY DEF Expire
<1>2. Held' /\ Moves /\ Spares(p)
  BY <1>1, OneApproval DEF ApprovalStatus
<1>3. Fresh(<<Do("expired", s)>>)
  BY FreshLists, EasySteps DEF EasyOp
<1>4. QED
  BY <1>1, <1>2, <1>3, StepEnds

----------------------------------------------------------------------------
(* cancel_subtask, cancel_task, complete_task, reconcile_orphans.          *)

\* A live subtask is cancelled along an edge.
LEMMA CancelEdge ==
  ASSUME NEW cur \in SubtaskStatus, cur \notin TerminalSubtask
  PROVE  Cancel(cur, TerminalSubtask) \in SubtaskEdges(cur) /\ Cancel(cur, TerminalSubtask) # "queued"
BY DEF Cancel, SubtaskEdges, SubtaskStatus, TerminalSubtask

\* cancel_subtask: the first write.
LEMMA CancelSubtaskStep ==
  ASSUME LedgerInv, NEW p \in Proc, NEW s \in Subtask, CancelSubtask(p, s)
  PROVE  LedgerInv' /\ Moves
<1>1. status[s] \in SubtaskStatus /\ status[s] \notin TerminalSubtask /\ status[s] # "absent"
  BY DEF CancelSubtask, Exists, LedgerInv, Held, RowTypeOK
<1>2. PICK v : v = Cancel(status[s], TerminalSubtask) /\ status' = [status EXCEPT ![s] = v]
  BY DEF CancelSubtask
<1>3. v \in SubtaskEdges(status[s]) /\ v # "queued"
  BY <1>1, <1>2, CancelEdge
<1>4. Fresh(<<Do("unwind", s), Do("settle", s)>>)
  BY FreshLists, EasySteps DEF EasyOp
<1>5. QED
  BY <1>1, <1>2, <1>3, <1>4, AdvanceStep DEF CancelSubtask

\* The subtasks that were live when cancel_task listed them.
LEMMA FreshCancelling ==
  ASSUME NEW set \in SUBSET Subtask, \A s \in set : status'[s] # "absent"
  PROVE  Fresh(DoEach("cancelling", set))
<1>1. PICK y : y = DoSet("cancelling", set)
  OBVIOUS
<1>2. y \in Step /\ y.op = "cancelling" /\ y.set = set
  BY <1>1 DEF DoSet, Step
<1>3. Plain(y)
  BY <1>2 DEF Plain, Sound, OwnOp, MetOp
<1>4. QED
  BY <1>1, <1>3, FreshLists DEF DoEach

\* cancel_task lists the live subtasks and cancels them one by one.
LEMMA SweepSteps ==
  ASSUME LedgerInv, NEW p \in Proc, Sweep(p) \/ Cancelling(p)
  PROVE  LedgerInv' /\ Moves
<1>1. CASE Sweep(p)
  <2>1. UNCHANGED <<status, deps, route, approver, approvals, runs, handle, task, calls, crashes>>
    BY <1>1 DEF Sweep
  <2>2. PICK set \in SUBSET Subtask :
          /\ set = {s \in Subtask : Exists(s) /\ status[s] \notin TerminalSubtask}
          /\ \A s \in set : status'[s] # "absent"
    <3>1. \A s \in {s \in Subtask : Exists(s) /\ status[s] \notin TerminalSubtask} : status'[s] # "absent"
      BY <2>1 DEF Exists
    <3>2. QED
      BY <3>1
  <2>3. todo[p] # <<>> /\ Go(p, DoEach("cancelling", set))
    BY <1>1, <2>2 DEF Sweep, Doing
  <2>4. QED
    BY <2>1, <2>2, <2>3, FreshCancelling, QuietStep
<1>2. CASE Cancelling(p)
  <2>0. Doing(p, "cancelling")
    BY <1>2 DEF Cancelling
  <2>1. PICK set \in SUBSET Subtask : /\ set = It(p).set /\ todo[p] # <<>>
                                      /\ \A s \in set : status[s] # "absent"
    BY <2>0, DoingIt, StepShape DEF Sound
  <2>2. PICK s \in set : CancelWrite(p, s, DoEach("cancelling", set \ {s}))
    BY <1>2, <2>1 DEF Cancelling
  <2>3. UNCHANGED <<deps, route, approver, approvals, runs, handle, task, calls, crashes>>
    BY <1>2 DEF Cancelling
  <2>4. s \in Subtask /\ status[s] \in SubtaskStatus
    BY <2>1, <2>2 DEF LedgerInv, Held, RowTypeOK
  <2>5. CASE status[s] \in TerminalSubtask
    <3>1. Go(p, DoEach("cancelling", set \ {s})) /\ UNCHANGED status
      BY <2>2, <2>5 DEF CancelWrite
    <3>2. \A t \in set \ {s} : status'[t] # "absent"
      BY <2>1, <3>1
    <3>3. Fresh(DoEach("cancelling", set \ {s}))
      BY <3>2, FreshCancelling
    <3>4. QED
      BY <2>1, <2>3, <3>1, <3>3, QuietStep
  <2>6. CASE status[s] \notin TerminalSubtask
    <3>1. PICK v : v = Cancel(status[s], TerminalSubtask) /\ status' = [status EXCEPT ![s] = v]
      BY <2>2, <2>6 DEF CancelWrite
    <3>2. Go(p, <<Do("unwind", s), Do("settle", s)>> \o DoEach("cancelling", set \ {s}))
      BY <2>2, <2>6 DEF CancelWrite
    <3>3. v \in SubtaskEdges(status[s]) /\ v # "queued"
      BY <2>4, <2>6, <3>1, CancelEdge
    <3>4. \A t \in set \ {s} : status'[t] # "absent"
      BY <2>1, <3>1 DEF LedgerInv, Held, RowTypeOK
    <3>5. Fresh(DoEach("cancelling", set \ {s}))
      BY <3>4, FreshCancelling
    <3>6. Fresh(<<Do("unwind", s), Do("settle", s)>> \o DoEach("cancelling", set \ {s}))
      BY <2>4, <3>5, FreshLists, EasySteps DEF EasyOp
    <3>7. QED
      BY <2>1, <2>2, <2>3, <2>4, <3>1, <3>2, <3>3, <3>6, AdvanceStep
  <2>7. QED
    BY <2>5, <2>6
<1>3. QED
  BY <1>1, <1>2

\* cancel_task and complete_task: one write each of a task that is not over.
LEMMA TaskCallSteps ==
  ASSUME LedgerInv, NEW p \in Proc, CancelTask(p) \/ CompleteTask(p)
  PROVE  LedgerInv' /\ Moves
<1>1. /\ task \notin TerminalTaskStatus /\ task' \in TaskStatus
      /\ UNCHANGED <<status, deps, route, approver, approvals, runs, handle, crashes>>
  BY DEF CancelTask, CompleteTask, Cancel, TaskStatus
<1>2. Fresh(<<>>) /\ Fresh(<<[op |-> "sweep"]>>)
  BY FreshLists, EasySteps
<1>3. PICK items : Call(p, items) /\ Fresh(items)
  BY <1>2 DEF CancelTask, CompleteTask
<1>4. Held' /\ Moves /\ Spares(p)
  BY <1>1, RowsStay DEF LedgerInv, Held, RowTypeOK, PaidHeld
<1>5. QED
  BY <1>1, <1>3, <1>4, StepEnds

\* The runs and the execution of a cancelled subtask are cancelled with it.
LEMMA UnwindStep ==
  ASSUME LedgerInv, NEW p \in Proc, Unwind(p)
  PROVE  LedgerInv' /\ Moves
<1>0. Doing(p, "unwind")
  BY DEF Unwind
<1>1. PICK s \in Subtask : s = It(p).s /\ todo[p] # <<>>
  BY <1>0, DoingIt, StepShape
<1> DEFINE e(i) == [runs[s][i] EXCEPT !.status = Cancel(runs[s][i].status, TerminalRun)]
<1>2. PICK r : r = [i \in DOMAIN runs[s] |-> e(i)]
  OBVIOUS
<1>3. /\ runs' = [runs EXCEPT ![s] = r]
      /\ handle' = [handle EXCEPT ![s] = Follow(@, "cancelled", LiveExecution)]
      /\ Go(p, <<>>)
      /\ UNCHANGED <<status, deps, route, approver, approvals, task, calls, crashes>>
  BY <1>1, <1>2 DEF Unwind
<1>4. handle' \in [Subtask -> ExecutionState \cup {"none"}]
  BY <1>3 DEF LedgerInv, Held, RowTypeOK, Follow, ExecutionState
<1>5. runs[s] \in Seq(RunRecord)
  BY DEF LedgerInv, Held, RowTypeOK
<1>6. ASSUME NEW n \in DOMAIN runs[s]
      PROVE  /\ e(n) \in RunRecord /\ e(n).worker = runs[s][n].worker
             /\ runs[s][n].status \in TerminalRun => e(n).status = runs[s][n].status
             /\ e(n).status = "succeeded" => runs[s][n].status = "succeeded"
  <2>1. runs[s][n] \in RunRecord
    BY <1>5
  <2>2. PICK v : v = Cancel(runs[s][n].status, TerminalRun)
    OBVIOUS
  <2>3. /\ v \in RunStatus
        /\ runs[s][n].status \in TerminalRun => v = runs[s][n].status
        /\ v = "succeeded" => runs[s][n].status = "succeeded"
    BY <2>1, <2>2 DEF Cancel, RunRecord, RunStatus, TerminalRun
  <2>4. e(n) = [runs[s][n] EXCEPT !.status = v]
    BY <2>2
  <2>5. e(n) \in RunRecord /\ e(n).worker = runs[s][n].worker /\ e(n).status = v
    <3> HIDE DEF e
    <3>1. QED
      BY <2>1, <2>3, <2>4 DEF RunRecord
  <2>6. QED
    BY <2>3, <2>5
<1> HIDE DEF e
<1>7. r \in Seq(RunRecord) /\ Len(r) = Len(runs[s]) /\ \A n \in DOMAIN runs[s] : r[n] = e(n)
  <2>1. DOMAIN runs[s] = 1..Len(runs[s]) /\ Len(runs[s]) \in Nat
    BY <1>5
  <2>2. r \in [1..Len(runs[s]) -> RunRecord]
    BY <1>2, <1>6, <2>1
  <2>3. QED
    BY <1>2, <2>1, <2>2
<1>8. Held' /\ Moves /\ Spares(p)
  <2>1. \A n \in DOMAIN runs[s] :
          /\ r[n].worker = runs[s][n].worker
          /\ runs[s][n].status \in TerminalRun => r[n].status = runs[s][n].status
          /\ r[n].status = "succeeded" => runs[s][n].status = "succeeded" \/ status[s] = "succeeded"
    BY <1>6, <1>7
  <2>2. QED
    BY <1>3, <1>4, <1>7, <2>1, RowRuns
<1>9. QED
  BY <1>1, <1>3, <1>8, StepEnds, FreshLists

\* reconcile_orphans fails a run, and then the subtask if it still runs.
LEMMA ReconcileStep ==
  ASSUME LedgerInv, NEW p \in Proc, NEW s \in Subtask, NEW n \in DOMAIN runs[s], Reconcile(p, s, n)
  PROVE  LedgerInv' /\ Moves
<1>0. /\ runs[s][n].status = "running"
      /\ UNCHANGED <<status, deps, route, approver, approvals, handle, task, crashes>>
  BY DEF Reconcile
<1>1. runs' = [runs EXCEPT ![s][n].status = "failed"]
  <2>1. Advance(runs[s][n].status, "failed", {"running"}) = "failed"
    BY <1>0 DEF Advance
  <2>2. QED
    BY <2>1 DEF Reconcile
<1>2. PICK e \in RunRecord : /\ e = [runs[s][n] EXCEPT !.status = "failed"]
                             /\ e.worker = runs[s][n].worker /\ e.status = "failed"
  BY OneRun DEF LedgerInv, Held, RunStatus
<1>3. runs' = [runs EXCEPT ![s] = [runs[s] EXCEPT ![n] = e]]
  BY <1>1, <1>2
<1>4. PICK r : r = [runs[s] EXCEPT ![n] = e]
  OBVIOUS
<1>5. /\ r \in Seq(RunRecord) /\ Len(r) = Len(runs[s]) /\ r[n] = e
      /\ \A m \in DOMAIN runs[s] : m # n => r[m] = runs[s][m]
  BY <1>4 DEF LedgerInv, Held, RowTypeOK
<1>6. \A m \in DOMAIN runs[s] :
        /\ r[m].worker = runs[s][m].worker
        /\ runs[s][m].status \in TerminalRun => r[m].status = runs[s][m].status
        /\ r[m].status = "succeeded" => runs[s][m].status = "succeeded" \/ status[s] = "succeeded"
  BY <1>0, <1>2, <1>5 DEF TerminalRun
<1>7. Held' /\ Moves /\ Spares(p)
  <2>1. handle' \in [Subtask -> ExecutionState \cup {"none"}] /\ runs' = [runs EXCEPT ![s] = r]
    BY <1>0, <1>3, <1>4 DEF LedgerInv, Held, RowTypeOK
  <2>2. QED
    BY <1>0, <1>5, <1>6, <2>1, RowRuns
<1>8. Fresh(<<>>) /\ Fresh(<<Do("reap", s)>>)
  BY FreshLists, EasySteps DEF EasyOp
<1>9. PICK items : Call(p, items) /\ Fresh(items)
  BY <1>8 DEF Reconcile
<1>10. QED
  BY <1>0, <1>7, <1>9, StepEnds

\* The reaper's write of the subtask.
LEMMA ReapStep ==
  ASSUME LedgerInv, NEW p \in Proc, Reap(p)
  PROVE  LedgerInv' /\ Moves
<1>0. Doing(p, "reap")
  BY DEF Reap
<1>1. PICK s \in Subtask : s = It(p).s /\ todo[p] # <<>>
  BY <1>0, DoingIt, StepShape
<1>2. PICK v : v = Advance(status[s], "failed", {"running"}) /\ status' = [status EXCEPT ![s] = v]
  BY <1>1 DEF Reap
<1>3. v = status[s] \/ (status[s] # "absent" /\ v \in SubtaskEdges(status[s]) /\ v # "queued")
  BY <1>2 DEF Advance, SubtaskEdges
<1>4. Fresh(<<>>) /\ Fresh(<<Do("settle", s), DoSet("cascade", {s})>>)
  BY FreshLists, EasySteps DEF EasyOp
<1>5. PICK items : Go(p, items) /\ Fresh(items)
  BY <1>1, <1>4 DEF Reap
<1>6. QED
  BY <1>1, <1>2, <1>3, <1>5, AdvanceStep DEF Reap

\* An activity of the workflow server, and the death of a process.
LEMMA ActivityCrashSteps ==
  ASSUME LedgerInv, NEW p \in Proc,
         (\E s \in Subtask, op \in {"route", "run"} : Activity(p, s, op)) \/ Crash(p)
  PROVE  LedgerInv' /\ Moves
<1>1. ASSUME NEW s \in Subtask, NEW op \in {"route", "run"}, Activity(p, s, op)
      PROVE  LedgerInv' /\ Moves
  <2>1. Fresh(<<DoThen(op, s, "activity")>>)
    BY FreshLists, EasySteps
  <2>2. QED
    BY <1>1, <2>1, QuietStep DEF Activity
<1>2. CASE Crash(p)
  <2>1. UNCHANGED <<status, deps, route, approver, approvals, runs, handle, task>> /\ Raise(p)
    BY <1>2 DEF Crash
  <2>2. Held' /\ Moves /\ Spares(p)
    BY <2>1, RowsStay DEF LedgerInv, Held, RowTypeOK, PaidHeld
  <2>3. StackTypeOK' /\ StacksSound' /\ Owned'
    BY <2>1, <2>2, FreshStack, FreshLists DEF Raise
  <2>4. Counted'
    BY <1>2, LedgerBounds DEF Crash, LedgerInv, Counted
  <2>5. QED
    BY <2>2, <2>3, <2>4 DEF LedgerInv
<1>3. QED
  BY <1>1, <1>2

----------------------------------------------------------------------------
(* The invariant and the results.                                          *)

\* Nothing has been submitted yet.
LEMMA LedgerInitially == Init => LedgerInv
<1>1. SUFFICES ASSUME Init PROVE LedgerInv
  OBVIOUS
<1>2. <<>> \in Seq(ApprovalStatus) /\ <<>> \in Seq(RunRecord) /\ <<>> \in Seq(Step)
  OBVIOUS
<1>3. RowTypeOK
  BY <1>1, <1>2 DEF Init, RowTypeOK, TaskStatus
<1>4. DepsHeld /\ RunsHeld /\ PaidHeld
  BY <1>1 DEF Init, DepsHeld, RunsHeld, PaidHeld, Dispatched
<1>5. Counted
  BY <1>1, LedgerBounds DEF Init, Counted
<1>6. StackTypeOK /\ StacksSound /\ Owned
  BY <1>1, <1>2 DEF Init, StackTypeOK, StacksSound, Owned, Owns
<1>7. QED
  BY <1>3, <1>4, <1>5, <1>6 DEF LedgerInv, Held

\* Every step of every caller keeps the invariant and moves forward.
LEMMA LedgerStep == LedgerInv /\ [Next]_vars => LedgerInv' /\ (Moves \/ UNCHANGED vars)
<1>1. SUFFICES ASSUME LedgerInv, [Next]_vars PROVE LedgerInv' /\ (Moves \/ UNCHANGED vars)
  OBVIOUS
<1>2. CASE UNCHANGED vars
  <2>1. Moves
    BY <1>2 DEF vars, Moves, Final
  <2>2. Held' /\ Counted' /\ StackTypeOK'
    BY <1>1, <1>2 DEF vars, LedgerInv, Held, RowTypeOK, DepsHeld, RunsHeld, PaidHeld, Counted,
                      StackTypeOK, Met, Begun, Granted
  <2>3. StacksSound'
    BY <1>1, <1>2 DEF vars, LedgerInv, StacksSound, Sound, Met, Granted
  <2>4. Owned'
    BY <1>1, <1>2 DEF vars, LedgerInv, Owned, Owns, Begun
  <2>5. QED
    BY <2>1, <2>2, <2>3, <2>4 DEF LedgerInv
<1>3. CASE Next
  <2>1. PICK p \in Proc : Calls(p) \/ Steps(p) \/ Crash(p)
    BY <1>3 DEF Next
  <2>2. CASE Calls(p)
    <3>1. CASE \E s \in Subtask, D \in SUBSET Subtask : Submit(p, s, D)
      BY <1>1, <3>1, SubmitStep
    <3>2. CASE \E s \in Subtask : Approve(p, s) \/ Deny(p, s) \/ CancelSubtask(p, s)
      BY <1>1, <3>2, ApproveDenySteps, CancelSubtaskStep
    <3>3. CASE \E s \in Subtask : \E n \in DOMAIN approvals[s] : Expire(p, s, n)
      BY <1>1, <3>3, ExpireStep
    <3>4. CASE \E s \in Subtask : \E n \in DOMAIN runs[s] : Reconcile(p, s, n)
      BY <1>1, <3>4, ReconcileStep
    <3>5. CASE \E s \in Subtask, op \in {"route", "run"} : Activity(p, s, op)
      BY <1>1, <3>5, ActivityCrashSteps
    <3>6. CASE CancelTask(p) \/ CompleteTask(p)
      BY <1>1, <3>6, TaskCallSteps
    <3>7. QED
      BY <2>2, <3>1, <3>2, <3>3, <3>4, <3>5, <3>6 DEF Calls
  <2>3. CASE Steps(p)
    <3>1. CASE Insert(p) \/ (\E out \in {"free", "paid", "approval", "nobody"} : Route(p, out))
               \/ Persist(p) \/ Routed(p)
      BY <1>1, <3>1, InsertStep, RouteStep, PersistStep, RoutedStep
    <3>2. CASE Flag(p) \/ Ask(p) \/ Asking(p) \/ Handle(p) \/ Progress(p) \/ Unflag(p)
      BY <1>1, <3>2, TaskRowSteps, AskSteps, HandleStep
    <3>3. CASE Run(p) \/ Claim(p) \/ (\E allowed \in BOOLEAN : Govern(p, allowed)) \/ Spawn(p)
      BY <1>1, <3>3, RunStep, ClaimStep, GovernStep, SpawnStep
    <3>4. CASE (\E result \in {"succeeded", "failed"} : Work(p, result)) \/ RunRow(p) \/ Settle(p)
      BY <1>1, <3>4, WorkStep, RunRowStep, SettleStep
    <3>5. CASE Release(p) \/ Releasing(p) \/ Unblock(p) \/ Cascade(p) \/ Failing(p)
      BY <1>1, <3>5, ReleaseSteps, UnblockStep, CascadeSteps
    <3>6. CASE Opening(p) \/ Grant(p) \/ Requeue(p) \/ Signal(p) \/ DenyApproval(p) \/ Refuse(p) \/ Expired(p)
      BY <1>1, <3>6, OpeningStep, DecideSteps, RequeueStep, SignalExpiredSteps, RefuseStep
    <3>7. CASE Unwind(p) \/ Sweep(p) \/ Cancelling(p) \/ Reap(p)
      BY <1>1, <3>7, UnwindStep, SweepSteps, ReapStep
    <3>8. QED
      BY <2>3, <3>1, <3>2, <3>3, <3>4, <3>5, <3>6, <3>7 DEF Steps
  <2>4. CASE Crash(p)
    BY <1>1, <2>4, ActivityCrashSteps
  <2>5. QED
    BY <2>1, <2>2, <2>3, <2>4
<1>4. QED
  BY <1>1, <1>2, <1>3

\* The invariant of the ledger's rows and of its callers' stacks holds in
\* every state.
THEOREM LedgerInductive == Spec => []LedgerInv
<1>1. LedgerInv /\ [Next]_vars => LedgerInv'
  BY LedgerStep
<1>2. QED
  BY LedgerInitially, <1>1, PTL DEF Spec

\* Every column keeps to its vocabulary, and every stack holds steps of the
\* service.
THEOREM LedgerTypeCorrect == Spec => []TypeOK
<1>1. LedgerInv => TypeOK
  BY DEF LedgerInv, Held, RowTypeOK, RunRecord, StackTypeOK, Counted, TypeOK
<1>2. QED
  BY LedgerInductive, <1>1, PTL

\* run_subtask and route_subtask start no subtask ahead of its dependencies,
\* nor on money nobody approved, whoever drives it.
THEOREM StartsAreAllowed == Spec => []StartsAllowed
<1>1. LedgerInv => DependenciesMet
  BY DEF LedgerInv, Held, DepsHeld, Dispatched, DependenciesMet, Unmet, Met
<1>2. LedgerInv => PaidNeedsGrant
  BY DEF LedgerInv, Held, RunsHeld, PaidNeedsGrant, Granted
<1>3. QED
  BY LedgerInductive, <1>1, <1>2, PTL DEF StartsAllowed

\* The worker of a subtask is run at most once, however many callers,
\* retries, releases and crashes there are.
THEOREM RunsHappenOnce == Spec => []RunOnce
<1>1. LedgerInv => RunOnce
  BY DEF LedgerInv, Held, RunsHeld, RunOnce
<1>2. QED
  BY LedgerInductive, <1>1, PTL

\* A run reports success only for a subtask that succeeded: late results are
\* discarded by the guard of _record_result.
THEOREM ZombiesAreDiscarded == Spec => []NoZombieResult
<1>1. LedgerInv => NoZombieResult
  BY DEF LedgerInv, Held, RunsHeld, NoZombieResult
<1>2. QED
  BY LedgerInductive, <1>1, PTL

\* What has ended is never revived: tasks, subtasks, runs and approvals.
THEOREM EndsAreFinal == Spec => TerminalIsFinal
<1>1. LedgerInv /\ [Next]_vars => [Final]_vars
  BY LedgerStep DEF Moves
<1>2. Spec => [][Final]_vars
  BY LedgerInductive, <1>1, PTL DEF Spec
<1>3. QED
  BY <1>2, PTL DEF TerminalIsFinal, Final
============================================================================
