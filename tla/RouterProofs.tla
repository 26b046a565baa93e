---------------------------- MODULE RouterProofs ----------------------------
(***************************************************************************)
(* Proofs about the router, for every set of providers, tasks, callers and *)
(* submissions: the idempotency race of enqueue_task (RouterEnqueue), and  *)
(* the spend gate, the rented boxes and the privacy boundary of the task   *)
(* pipeline (RouterTasks).                                                 *)
(***************************************************************************)
EXTENDS RouterTasks, RouterEnqueue, TLAPS

----------------------------------------------------------------------------
(* enqueue_task under one key.  A task row that the ticket does not link   *)
(* belongs to a caller that has still to tidy up; until somebody has added *)
(* the ticket nobody is tidying.                                           *)

EnqueuePc == {"idle", "mint", "add", "tidy"}
EnqueueInv ==
  /\ enq \in [Caller -> [pc : EnqueuePc, call : Nat]]
  /\ \A c \in Caller : enq[c].pc = "add" => Mine(c) \in minted
  /\ \A c \in Caller : enq[c].pc = "tidy" => ticket # {}
  /\ \A m \in minted : m \in ticket \/ \E c \in Caller : m = Mine(c) /\ enq[c].pc \in {"add", "tidy"}
  /\ ticket \subseteq minted
  /\ ticket = {} \/ \E m \in minted : ticket = {m}

\* One caller moves, and its call number stays.
LEMMA CallerMoves ==
  ASSUME EnqueueInv, NEW c \in Caller, NEW pc \in EnqueuePc, Step(c, pc)
  PROVE  /\ enq' \in [Caller -> [pc : EnqueuePc, call : Nat]]
         /\ enq'[c].pc = pc
         /\ \A d \in Caller : Mine(d)' = Mine(d) /\ (d # c => enq'[d].pc = enq[d].pc)
         /\ \A d \in Caller : Mine(d) = Mine(c) => d = c
BY DEF EnqueueInv, Step, Mine

\* find_by_dedup decides whether the caller has a task to mint.
LEMMA FindStep == ASSUME EnqueueInv, NEW c \in Caller, FindByDedup(c) PROVE EnqueueInv'
<1>1. PICK x : x = [pc |-> IF ticket = {} THEN "mint" ELSE "idle", call |-> enq[c].call + 1]
  OBVIOUS
<1>2. x \in [pc : EnqueuePc, call : Nat] /\ x.pc \in {"idle", "mint"}
  BY <1>1 DEF EnqueueInv, EnqueuePc
<1>3. enq' = [enq EXCEPT ![c] = x] /\ UNCHANGED <<minted, ticket>> /\ enq[c].pc = "idle"
  BY <1>1 DEF FindByDedup
<1>4. enq' \in [Caller -> [pc : EnqueuePc, call : Nat]] /\ enq'[c] = x /\ \A d \in Caller : d # c => enq'[d] = enq[d]
  BY <1>2, <1>3 DEF EnqueueInv
<1>5. \A d \in Caller : enq'[d].pc \in {"add", "tidy"} <=> enq[d].pc \in {"add", "tidy"}
  BY <1>2, <1>3, <1>4
<1>6. \A d \in Caller : enq[d].pc \in {"add", "tidy"} => Mine(d)' = Mine(d) /\ enq'[d].pc = enq[d].pc
  BY <1>3, <1>4 DEF Mine
<1>7. QED
  BY <1>3, <1>4, <1>5, <1>6 DEF EnqueueInv

\* The task row is written before the ticket.
LEMMA MintStep == ASSUME EnqueueInv, NEW c \in Caller, MintTask(c) PROVE EnqueueInv'
<1>1. Step(c, "add") /\ "add" \in EnqueuePc /\ ticket' = ticket /\ minted' = minted \cup {Mine(c)}
  BY DEF MintTask, EnqueuePc
<1>2. /\ enq' \in [Caller -> [pc : EnqueuePc, call : Nat]]
      /\ enq'[c].pc = "add"
      /\ \A d \in Caller : Mine(d)' = Mine(d) /\ (d # c => enq'[d].pc = enq[d].pc)
  BY <1>1, CallerMoves
<1>3. enq[c].pc = "mint"
  BY DEF MintTask
<1>4. QED
  BY <1>1, <1>2, <1>3 DEF EnqueueInv

\* One caller wins the ticket; its task row is there.
LEMMA AddStep == ASSUME EnqueueInv, NEW c \in Caller, AddTicket(c) PROVE EnqueueInv'
<1>1. Step(c, "tidy") /\ "tidy" \in EnqueuePc /\ minted' = minted
  BY DEF AddTicket, EnqueuePc
<1>2. /\ enq' \in [Caller -> [pc : EnqueuePc, call : Nat]]
      /\ enq'[c].pc = "tidy"
      /\ \A d \in Caller : Mine(d)' = Mine(d) /\ (d # c => enq'[d].pc = enq[d].pc)
  BY <1>1, CallerMoves
<1>3. enq[c].pc = "add" /\ Mine(c) \in minted
  BY DEF AddTicket, EnqueueInv
<1>4. ticket' # {} /\ (ticket' = ticket \/ (ticket = {} /\ ticket' = {Mine(c)}))
  BY DEF AddTicket
<1>5. QED
  BY <1>1, <1>2, <1>3, <1>4 DEF EnqueueInv

\* The loser of the race deletes its own task row, and nobody else's.
LEMMA TidyStep == ASSUME EnqueueInv, NEW c \in Caller, Tidy(c) PROVE EnqueueInv'
<1>1. Step(c, "idle") /\ "idle" \in EnqueuePc /\ ticket' = ticket
  BY DEF Tidy, EnqueuePc
<1>2. /\ enq' \in [Caller -> [pc : EnqueuePc, call : Nat]]
      /\ enq'[c].pc = "idle"
      /\ \A d \in Caller : Mine(d)' = Mine(d) /\ (d # c => enq'[d].pc = enq[d].pc)
      /\ \A d \in Caller : Mine(d) = Mine(c) => d = c
  BY <1>1, CallerMoves
<1>3. PICK k : ticket = {k} /\ k \in minted
  BY DEF Tidy, EnqueueInv
<1>4. CASE k = Mine(c)
  <2>1. minted' = minted
    BY <1>3, <1>4 DEF Tidy
  <2>2. QED
    BY <1>1, <1>2, <1>3, <1>4, <2>1 DEF EnqueueInv
<1>5. CASE k # Mine(c)
  <2>1. minted' = minted \ {Mine(c)}
    BY <1>3, <1>5 DEF Tidy
  <2>2. QED
    BY <1>1, <1>2, <1>3, <1>5, <2>1 DEF EnqueueInv
<1>6. QED
  BY <1>4, <1>5

\* Whatever callers race and retry, once all have returned the key has one
\* task, the one its ticket links.
THEOREM NoOrphansLeft == EnqueueSpec => []NoOrphanTask
<1>1. EnqueueInit => EnqueueInv
  BY DEF EnqueueInit, EnqueueInv, EnqueuePc
<1>2. ASSUME EnqueueInv, [EnqueueNext]_enqueueVars PROVE EnqueueInv'
  <2>1. CASE UNCHANGED enqueueVars
    BY <1>2, <2>1 DEF enqueueVars, EnqueueInv, Mine
  <2>2. CASE EnqueueNext
    BY <1>2, <2>2, FindStep, MintStep, AddStep, TidyStep DEF EnqueueNext
  <2>3. QED
    BY <1>2, <2>1, <2>2
<1>3. EnqueueInv => NoOrphanTask
  BY DEF EnqueueInv, NoOrphanTask
<1>4. QED
  BY <1>1, <1>2, <1>3, PTL DEF EnqueueSpec

----------------------------------------------------------------------------
(* The task pipeline.  What a thread may do next is written in where it    *)
(* is: a provider was chosen by eligibility, an agentic task passed the    *)
(* guard after it, a charge was approved.  A cancel changes the stored     *)
(* state only, and the thread ends at its next write.                      *)

RowFields == {"pc", "state", "sub", "class", "prov", "status", "retried"}
PastGate == {"route", "routed", "wait", "give_up", "reserve", "insert", "walk", "remote", "call",
             "reap", "acquire", "boot", "bill", "serve"}
Renting == {"reap", "acquire", "boot", "bill", "serve"}

\* Provider p is eligible for a submission of the class, as far as privacy goes.
Fits(p, class, sub) ==
  /\ p \in Provider
  /\ PrivacyOf[p] \in AllowedPrivacyTiers(class, sub)
  /\ KindOf[p] = "cloud" => sub.external /\ (class = "low_sensitive" => sub.content # "secret")
  /\ IsRented(p) /\ class = "repo_sensitive" => p \in Trusted
\* What the gate lets through.
Vetted(class, sub) ==
  /\ class # "secret_sensitive"
  /\ HardSecret(sub) => sub.declared # None
  /\ GuardEnforces => sub.content # "secret"
Cleared(p, class, sub) == Fits(p, class, sub) /\ (sub.agentic => AgenticAllowed(p, sub))
Remote(w, class) == w \in RemoteWorker /\ RemoteTier[w] \in ClassTiers(class)
Costs(p) == IsPaid(p) \/ IsRented(p)

\* The row r of task t, whose approval is a, when those in approved have been.
ThreadOK(t, r, a, approved) ==
  /\ DOMAIN r = RowFields /\ DOMAIN a = {"kind", "answer"}
  /\ a.kind = "charge" /\ a.answer = "yes" => t \in approved
  /\ r.pc = "gate" => r.class = Classify(r.sub)
  /\ r.pc \in PastGate => Vetted(r.class, r.sub)
  /\ r.pc = "routed" => Fits(r.prov, r.class, r.sub)
  /\ r.pc \in {"wait", "give_up"} /\ a.kind = "charge" => Cleared(r.prov, r.class, r.sub)
  /\ r.pc \in {"reserve", "insert", "call"} \cup Renting =>
       Cleared(r.prov, r.class, r.sub) /\ (Costs(r.prov) => t \in approved)
  /\ r.pc = "walk" =>
       Remote(r.prov, r.class) \/ (Cleared(r.prov, r.class, r.sub) /\ (Costs(r.prov) => t \in approved))
  /\ r.pc = "remote" => Remote(r.prov, r.class)
  /\ r.pc = "call" => ~IsRented(r.prov)
  /\ r.pc \in Renting => IsRented(r.prov)

\* PrivacyBoundary for one message, sent for the submission sub.
Bounded(m, sub) ==
  LET tier == IF m.to \in RemoteWorker THEN RemoteTier[m.to] ELSE PrivacyOf[m.to]
  IN /\ Vetted(m.class, sub)
     /\ m.to \in Provider /\ KindOf[m.to] = "cloud" =>
          sub.external /\ ~sub.agentic /\ (m.class = "low_sensitive" => sub.content # "secret")
     /\ m.class \in {"restricted", "repo_sensitive"} =>
          \/ tier = "local_only"
          \/ m.class = "repo_sensitive" /\ m.to \in Trusted /\ sub.rented

ThreadsOK ==
  /\ DOMAIN rt = RTask /\ DOMAIN ask = RTask
  /\ \A t \in RTask : ThreadOK(t, rt[t], ask[t], yes)
SentOK == \A m \in sent : m.task \in RTask /\ rt[m.task].pc # "idle" /\ Bounded(m, rt[m.task].sub)

\* Where the task of a box may be: past the acquire, so that its provider stays.
Provisioned == {"boot", "bill", "serve", "ok", "failed", "finish", "ended"}
BoxOf(b) == box[b].of
BoxesOK ==
  /\ DOMAIN pool = Provider /\ DOMAIN plock = Provider /\ DOMAIN reap = Provider
  /\ box \in [Box -> [state : {"none", "boot", "up", "gone"}, of : RTask \cup {None}]]
  /\ \A b \in Box : box[b].state # "none" =>
       /\ BoxOf(b) \in RTask /\ rt[BoxOf(b)].pc \in Provisioned /\ rt[BoxOf(b)].prov \in Provider
       /\ \A c \in Box : box[c].state # "none" /\ BoxOf(c) = BoxOf(b) => b = c
  /\ \A b \in Box : box[b].state = "boot" =>
       rt[BoxOf(b)].pc = "boot" /\ plock[rt[BoxOf(b)].prov] = BoxOf(b)
  /\ \A b \in Box : box[b].state = "up" /\ b \notin lost => pool[rt[BoxOf(b)].prov] = b
  /\ \A p \in Provider : pool[p] # None =>
       pool[p] \in Box /\ box[pool[p]].state \in {"up", "gone"} /\ rt[BoxOf(pool[p])].prov = p /\ plock[p] = None
  /\ \A p \in Provider : plock[p] # None => plock[p] \in RTask /\ rt[plock[p]].pc = "boot" /\ rt[plock[p]].prov = p
  /\ \A p \in Provider : reap[p] # None => reap[p] \in Box /\ box[reap[p]].state = "gone"
RouterInv == ThreadsOK /\ SentOK /\ BoxesOK /\ charged \subseteq yes

\* A step of one thread that leaves the boxes and the messages alone.
Keeps(old, new) ==
  /\ old.pc # "idle" => new.pc # "idle" /\ new.sub = old.sub
  /\ old.pc \in Provisioned => new.pc \in Provisioned /\ new.prov = old.prov
  /\ old.pc = "boot" => new.pc = "boot"

\* The rows after one of them changes.
LEMMA RowMoves ==
  ASSUME ThreadsOK, NEW t \in RTask, NEW r, rt' = [rt EXCEPT ![t] = r],
         DOMAIN ask' = RTask, \A u \in RTask : u # t => ask'[u] = ask[u],
         yes' = yes, ThreadOK(t, r, ask'[t], yes)
  PROVE  /\ ThreadsOK' /\ DOMAIN rt' = RTask /\ rt'[t] = r
         /\ \A u \in RTask : u # t => rt'[u] = rt[u]
<1>1. DOMAIN rt' = RTask /\ rt'[t] = r /\ \A u \in RTask : u # t => rt'[u] = rt[u]
  BY DEF ThreadsOK
<1>2. \A u \in RTask : ThreadOK(u, rt'[u], ask'[u], yes)
  BY <1>1 DEF ThreadsOK
<1>3. ThreadsOK'
  BY <1>1, <1>2 DEF ThreadsOK
<1>4. QED
  BY <1>1, <1>3

\* What was sent was sent for a submission that stays.
LEMMA SentKeeps ==
  ASSUME SentOK, NEW t \in RTask, NEW r, Keeps(rt[t], r), rt'[t] = r, \A u \in RTask : u # t => rt'[u] = rt[u],
         sent' = sent
  PROVE  SentOK'
BY DEF SentOK, Keeps

\* A box stays with the provider of its task.
LEMMA BoxesKeep ==
  ASSUME BoxesOK, NEW t \in RTask, NEW r, Keeps(rt[t], r), rt'[t] = r, \A u \in RTask : u # t => rt'[u] = rt[u],
         UNCHANGED <<pool, plock, box, reap, lost>>
  PROVE  BoxesOK'
<1>1. \A u \in RTask : rt[u].pc \in Provisioned => rt'[u].pc \in Provisioned /\ rt'[u].prov = rt[u].prov
  BY DEF Keeps
<1>2. \A u \in RTask : rt[u].pc = "boot" => rt'[u].pc = "boot" /\ rt'[u].prov = rt[u].prov
  BY <1>1 DEF Keeps, Provisioned
<1>3. \A b \in Box : BoxOf(b)' = BoxOf(b) /\ box'[b].state = box[b].state
  BY DEF BoxOf
<1>4. \A b \in Box : box[b].state # "none" => BoxOf(b) \in RTask /\ rt[BoxOf(b)].pc \in Provisioned
  BY DEF BoxesOK
<1>5. \A b \in Box : box[b].state # "none" => rt'[BoxOf(b)].prov = rt[BoxOf(b)].prov /\ rt'[BoxOf(b)].pc \in Provisioned
  BY <1>1, <1>4
<1>6. ASSUME NEW b \in Box, box[b].state # "none"
      PROVE  /\ BoxOf(b) \in RTask /\ rt'[BoxOf(b)].pc \in Provisioned /\ rt'[BoxOf(b)].prov \in Provider
             /\ \A c \in Box : box[c].state # "none" /\ BoxOf(c) = BoxOf(b) => b = c
  BY <1>5, <1>6 DEF BoxesOK
<1>7. ASSUME NEW b \in Box, box[b].state = "boot"
      PROVE  rt'[BoxOf(b)].pc = "boot" /\ plock[rt'[BoxOf(b)].prov] = BoxOf(b)
  <2>1. rt[BoxOf(b)].pc = "boot" /\ plock[rt[BoxOf(b)].prov] = BoxOf(b) /\ BoxOf(b) \in RTask
    BY <1>7 DEF BoxesOK
  <2>2. QED
    BY <1>2, <2>1
<1>8. ASSUME NEW b \in Box, box[b].state = "up", b \notin lost PROVE pool[rt'[BoxOf(b)].prov] = b
  <2>1. pool[rt[BoxOf(b)].prov] = b
    BY <1>8 DEF BoxesOK
  <2>2. QED
    BY <1>5, <1>8, <2>1
<1>9. ASSUME NEW p \in Provider, pool[p] # None
      PROVE  pool[p] \in Box /\ box[pool[p]].state \in {"up", "gone"} /\ rt'[BoxOf(pool[p])].prov = p /\ plock[p] = None
  <2>1. pool[p] \in Box /\ box[pool[p]].state \in {"up", "gone"} /\ rt[BoxOf(pool[p])].prov = p /\ plock[p] = None
    BY <1>9 DEF BoxesOK
  <2>2. QED
    BY <1>5, <2>1
<1>10. ASSUME NEW p \in Provider, plock[p] # None
       PROVE  plock[p] \in RTask /\ rt'[plock[p]].pc = "boot" /\ rt'[plock[p]].prov = p
  <2>1. plock[p] \in RTask /\ rt[plock[p]].pc = "boot" /\ rt[plock[p]].prov = p
    BY <1>10 DEF BoxesOK
  <2>2. QED
    BY <1>2, <2>1
<1>11. QED
  BY <1>3, <1>6, <1>7, <1>8, <1>9, <1>10 DEF BoxesOK

\* The invariant from the row of the one thread that moved.
LEMMA PlainStep ==
  ASSUME RouterInv, NEW t \in RTask, NEW r, rt' = [rt EXCEPT ![t] = r], Keeps(rt[t], r),
         DOMAIN ask' = RTask, \A u \in RTask : u # t => ask'[u] = ask[u], ThreadOK(t, r, ask'[t], yes),
         UNCHANGED <<pool, plock, box, reap, lost, sent, yes, charged>>
  PROVE  RouterInv'
<1>1. /\ ThreadsOK' /\ DOMAIN rt' = RTask /\ rt'[t] = r
      /\ \A u \in RTask : u # t => rt'[u] = rt[u]
  BY RowMoves DEF RouterInv
<1>2. SentOK'
  BY <1>1, SentKeeps DEF RouterInv
<1>3. BoxesOK'
  BY <1>1, BoxesKeep DEF RouterInv
<1>4. QED
  BY <1>1, <1>2, <1>3 DEF RouterInv

\* The row keeps its submission, class and provider.
Same(old, new) == DOMAIN new = RowFields /\ new.sub = old.sub /\ new.class = old.class /\ new.prov = old.prov

\* The rows that a helper of the pipeline makes.
LEMMA MovedRow ==
  ASSUME ThreadsOK, NEW t \in RTask, NEW dst, NEW next, NEW r, r = Move(t, dst, next)
  PROVE  Same(rt[t], r) /\ r.pc \in {next, "ended"}
BY DEF ThreadsOK, ThreadOK, RowFields, Move, Same

\* The same for a walk through several states.
LEMMA AlongRow ==
  ASSUME ThreadsOK, NEW t \in RTask, NEW path, NEW next, NEW r, r = MoveAlong(t, path, next)
  PROVE  Same(rt[t], r) /\ r.pc \in {next, "ended"}
<1>0. DOMAIN rt[t] = RowFields
  BY DEF ThreadsOK, ThreadOK
<1>1. PICK last : last = path[Len(path)]
  OBVIOUS
<1>2. r = [rt[t] EXCEPT !.state = last, !.pc = next] \/ r = [rt[t] EXCEPT !.pc = "ended"]
  BY <1>1 DEF MoveAlong
<1>3. QED
  BY <1>0, <1>2 DEF Same, RowFields

\* A thread that only goes on keeps its class, its provider and the rest of its row.
LEMMA GoneRow ==
  ASSUME ThreadsOK, NEW t \in RTask, NEW next, NEW r, r = [rt[t] EXCEPT !.pc = next]
  PROVE  Same(rt[t], r) /\ r.pc = next
BY DEF ThreadsOK, ThreadOK, RowFields, Same

\* The places before the gate, and those after the result.
Loose == {"classify", "privacy", "raised", "ok", "failed", "finish", "ended"}
\* A thread at such a place owes nothing.
LEMMA LooseRow ==
  ASSUME NEW t, NEW r, NEW a, DOMAIN r = RowFields, r.pc \in Loose,
         DOMAIN a = {"kind", "answer"}, a.kind = "charge" /\ a.answer = "yes" => t \in yes
  PROVE  ThreadOK(t, r, a, yes)
BY DEF ThreadOK, Loose, PastGate, Renting

\* A task without an approval.
LEMMA NoAskRow ==
  ASSUME NEW a, a = NoAsk
  PROVE  DOMAIN a = {"kind", "answer"} /\ a.kind = "none" /\ a.answer = "unset"
BY DEF NoAsk

\* What an approval is after a step that leaves it or removes it.
AskKept(t) == ask' = ask \/ ask' = [ask EXCEPT ![t] = NoAsk]
Untouched == UNCHANGED <<pool, plock, box, reap, lost, sent, yes, charged>>
\* Whether kept or removed, an approval that says yes to a charge was given by a human.
LEMMA AskRow ==
  ASSUME ThreadsOK, NEW t \in RTask, AskKept(t)
  PROVE  /\ DOMAIN ask' = RTask /\ \A u \in RTask : u # t => ask'[u] = ask[u]
         /\ DOMAIN ask'[t] = {"kind", "answer"}
         /\ ask'[t].kind = "charge" /\ ask'[t].answer = "yes" => t \in yes
<1>1. /\ DOMAIN ask = RTask /\ DOMAIN ask[t] = {"kind", "answer"}
      /\ ask[t].kind = "charge" /\ ask[t].answer = "yes" => t \in yes
  BY DEF ThreadsOK, ThreadOK
<1>2. CASE ask' = ask
  BY <1>1, <1>2
<1>3. CASE ask' = [ask EXCEPT ![t] = NoAsk]
  <2>1. DOMAIN ask' = RTask /\ (\A u \in RTask : u # t => ask'[u] = ask[u]) /\ ask'[t] = NoAsk
    BY <1>1, <1>3
  <2>2. QED
    BY <2>1, NoAskRow
<1>4. QED
  BY <1>2, <1>3 DEF AskKept

\* A thread comes to a point where it owes nothing.
LEMMA LooseStep ==
  ASSUME RouterInv, NEW t \in RTask, NEW r, rt' = [rt EXCEPT ![t] = r], Same(rt[t], r), r.pc \in Loose,
         rt[t].pc \notin {"idle", "boot"}, rt[t].pc \in Provisioned => r.pc \in Provisioned,
         AskKept(t), Untouched
  PROVE  RouterInv'
<1>1. /\ DOMAIN ask' = RTask /\ \A u \in RTask : u # t => ask'[u] = ask[u]
      /\ DOMAIN ask'[t] = {"kind", "answer"}
      /\ ask'[t].kind = "charge" /\ ask'[t].answer = "yes" => t \in yes
  BY AskRow DEF RouterInv
<1>2. Keeps(rt[t], r)
  BY DEF Same, Keeps, Loose
<1>3. ThreadOK(t, r, ask'[t], yes)
  BY <1>1, LooseRow DEF Same
<1>4. QED
  BY <1>1, <1>2, <1>3, PlainStep DEF Untouched

\* A task is refused before anything was provisioned for it.
LEMMA RejectStep ==
  ASSUME RouterInv, NEW t \in RTask, Reject(t), rt[t].pc \notin Provisioned \cup {"idle"}, AskKept(t), Untouched
  PROVE  RouterInv'
<1>1. PICK m : m = Move(t, "REJECTED", "ended")
  OBVIOUS
<1>2. Same(rt[t], m) /\ m.pc = "ended"
  BY <1>1, MovedRow DEF RouterInv
<1>3. PICK r : r = [m EXCEPT !.status = None]
  OBVIOUS
<1>4. Same(rt[t], r) /\ r.pc = "ended"
  BY <1>2, <1>3 DEF Same, RowFields
<1>5. rt' = [rt EXCEPT ![t] = r]
  BY <1>1, <1>3 DEF Reject
<1>6. QED
  BY <1>4, <1>5, LooseStep DEF Loose, Provisioned

\* A thread goes on, its class, submission and provider as they are.
LEMMA OnwardStep ==
  ASSUME RouterInv, NEW t \in RTask, NEW r, rt' = [rt EXCEPT ![t] = r], Same(rt[t], r),
         rt[t].pc \notin {"idle", "boot"}, r.pc # "idle", rt[t].pc \in Provisioned => r.pc \in Provisioned,
         AskKept(t), ThreadOK(t, r, ask'[t], yes), Untouched
  PROVE  RouterInv'
<1>1. DOMAIN ask' = RTask /\ \A u \in RTask : u # t => ask'[u] = ask[u]
  BY AskRow DEF RouterInv
<1>2. Keeps(rt[t], r)
  BY DEF Same, Keeps
<1>3. QED
  BY <1>1, <1>2, PlainStep DEF Untouched

\* Submission, classification and the gate.
LEMMA SubmitStep == ASSUME RouterInv, NEW t \in RTask, NEW sub, Submit(t, sub) PROVE RouterInv'
<1>1. PICK i : i = Idle
  OBVIOUS
<1>2. DOMAIN i = RowFields
  BY <1>1 DEF Idle, RowFields
<1>3. PICK r : r = [i EXCEPT !.pc = "classify", !.state = "CREATED", !.sub = sub]
  OBVIOUS
<1>4. DOMAIN r = RowFields /\ r.pc = "classify"
  BY <1>2, <1>3 DEF RowFields
<1>5. rt' = [rt EXCEPT ![t] = r] /\ rt[t].pc = "idle" /\ AskKept(t) /\ Untouched
  BY <1>1, <1>3 DEF Submit, At, AskKept, Untouched, nodes, ghosts
<1>6. Keeps(rt[t], r)
  BY <1>4, <1>5 DEF Keeps, Provisioned
<1>7. /\ DOMAIN ask' = RTask /\ \A u \in RTask : u # t => ask'[u] = ask[u]
      /\ DOMAIN ask'[t] = {"kind", "answer"}
      /\ ask'[t].kind = "charge" /\ ask'[t].answer = "yes" => t \in yes
  BY <1>5, AskRow DEF RouterInv
<1>8. ThreadOK(t, r, ask'[t], yes)
  BY <1>4, <1>7, LooseRow DEF Loose
<1>9. QED
  BY <1>5, <1>6, <1>7, <1>8, PlainStep DEF Untouched

\* Classification: the thread is before the gate.
LEMMA ClassifyStep == ASSUME RouterInv, NEW t \in RTask, ClassifyTask(t) PROVE RouterInv'
<1>1. PICK r : r = Move(t, "CLASSIFIED", "privacy")
  OBVIOUS
<1>2. Same(rt[t], r) /\ r.pc \in {"privacy", "ended"}
  BY <1>1, MovedRow DEF RouterInv
<1>3. rt' = [rt EXCEPT ![t] = r] /\ rt[t].pc = "classify" /\ AskKept(t) /\ Untouched
  BY <1>1 DEF ClassifyTask, Write, At, AskKept, Untouched, nodes, ghosts
<1>4. QED
  BY <1>2, <1>3, LooseStep DEF Loose, Provisioned

\* The class is fixed here, from the submission.
LEMMA CheckPrivacyStep == ASSUME RouterInv, NEW t \in RTask, CheckPrivacy(t) PROVE RouterInv'
<1>1. PICK m : m = Move(t, "PRIVACY_CHECKED", "gate")
  OBVIOUS
<1>2. Same(rt[t], m) /\ m.pc \in {"gate", "ended"}
  BY <1>1, MovedRow DEF RouterInv
<1>3. PICK class : class = Classify(rt[t].sub)
  OBVIOUS
<1>4. PICK r : r = [m EXCEPT !.class = class]
  OBVIOUS
<1>5. DOMAIN r = RowFields /\ r.pc = m.pc /\ r.sub = rt[t].sub
  BY <1>2, <1>4 DEF Same, RowFields
<1>6. rt' = [rt EXCEPT ![t] = r] /\ rt[t].pc = "privacy" /\ AskKept(t) /\ Untouched
  BY <1>1, <1>3, <1>4 DEF CheckPrivacy, At, AskKept, Untouched, nodes, ghosts
<1>7. Keeps(rt[t], r)
  BY <1>2, <1>5, <1>6 DEF Keeps, Provisioned
<1>8. /\ DOMAIN ask' = RTask /\ \A u \in RTask : u # t => ask'[u] = ask[u]
      /\ DOMAIN ask'[t] = {"kind", "answer"}
      /\ ask'[t].kind = "charge" /\ ask'[t].answer = "yes" => t \in yes
  BY <1>6, AskRow DEF RouterInv
<1>9. ThreadOK(t, r, ask'[t], yes)
  <2>1. r.class = Classify(r.sub)
    BY <1>2, <1>3, <1>4, <1>5 DEF Same, RowFields
  <2>2. QED
    BY <1>2, <1>5, <1>8, <2>1 DEF ThreadOK, PastGate, Renting
<1>10. QED
  BY <1>6, <1>7, <1>8, <1>9, PlainStep DEF Untouched

\* What is not blocked at the gate is vetted: the class comes from the submission.
LEMMA GateVets ==
  ASSUME RouterInv, NEW t \in RTask, rt[t].pc = "gate", ~Blocked(t)
  PROVE  Vetted(rt[t].class, rt[t].sub)
<1>1. rt[t].class = Classify(rt[t].sub) /\ rt[t].class # "secret_sensitive"
  BY DEF RouterInv, ThreadsOK, ThreadOK, Blocked
<1>2. HardSecret(rt[t].sub) => rt[t].sub.declared # None
  BY <1>1 DEF Classify
<1>3. QED
  BY <1>1, <1>2 DEF Vetted, Blocked

\* No candidate is left, or the gate says no: the task is rejected.
LEMMA GateRejectsStep == ASSUME RouterInv, NEW t \in RTask, GateRejects(t) PROVE RouterInv'
<1>1. Reject(t) /\ rt[t].pc = "gate" /\ AskKept(t) /\ Untouched
  BY DEF GateRejects, At, AskKept, Untouched, nodes, ghosts
<1>2. QED
  BY <1>1, RejectStep DEF Provisioned

\* A remote worker is chosen for the class of the task.
LEMMA SelectRemoteStep ==
  ASSUME RouterInv, NEW t \in RTask, NEW w \in RemoteWorker, SelectRemoteWorker(t, w)
  PROVE  RouterInv'
<1>1. PICK m : m = Move(t, "ELIGIBLE_PROVIDERS_COMPUTED", "walk")
  OBVIOUS
<1>2. Same(rt[t], m) /\ m.pc \in {"walk", "ended"}
  BY <1>1, MovedRow DEF RouterInv
<1>3. PICK r : r = [m EXCEPT !.prov = w]
  OBVIOUS
<1>4. DOMAIN r = RowFields /\ r.pc = m.pc /\ r.sub = rt[t].sub /\ r.class = rt[t].class /\ r.prov = w
  BY <1>2, <1>3 DEF Same, RowFields
<1>5. rt' = [rt EXCEPT ![t] = r] /\ rt[t].pc = "gate" /\ AskKept(t) /\ Untouched
  BY <1>1, <1>3 DEF SelectRemoteWorker, At, AskKept, Untouched, nodes, ghosts
<1>6. Vetted(rt[t].class, rt[t].sub) /\ Remote(w, rt[t].class)
  BY <1>5, GateVets DEF SelectRemoteWorker, Remote
<1>7. Keeps(rt[t], r)
  BY <1>2, <1>4, <1>5 DEF Keeps, Provisioned
<1>8. /\ DOMAIN ask' = RTask /\ \A u \in RTask : u # t => ask'[u] = ask[u]
      /\ DOMAIN ask'[t] = {"kind", "answer"}
      /\ ask'[t].kind = "charge" /\ ask'[t].answer = "yes" => t \in yes
  BY <1>5, AskRow DEF RouterInv
<1>9. ThreadOK(t, r, ask'[t], yes)
  BY <1>2, <1>4, <1>6, <1>8 DEF ThreadOK, PastGate, Renting
<1>10. QED
  BY <1>5, <1>7, <1>8, <1>9, PlainStep DEF Untouched

\* The status is fetched for a task that passed the gate.
LEMMA FetchStatusStep == ASSUME RouterInv, NEW t \in RTask, NEW st, FetchStatus(t, st) PROVE RouterInv'
<1>1. PICK m : m = Move(t, "ELIGIBLE_PROVIDERS_COMPUTED", "route")
  OBVIOUS
<1>2. Same(rt[t], m) /\ m.pc \in {"route", "ended"}
  BY <1>1, MovedRow DEF RouterInv
<1>3. PICK r : r = [m EXCEPT !.status = st]
  OBVIOUS
<1>4. Same(rt[t], r) /\ r.pc = m.pc
  BY <1>2, <1>3 DEF Same, RowFields
<1>5. rt' = [rt EXCEPT ![t] = r] /\ rt[t].pc = "gate" /\ AskKept(t) /\ Untouched
  BY <1>1, <1>3 DEF FetchStatus, At, AskKept, Untouched, nodes, ghosts
<1>6. Vetted(rt[t].class, rt[t].sub)
  BY <1>5, GateVets DEF FetchStatus
<1>7. /\ DOMAIN ask'[t] = {"kind", "answer"}
      /\ ask'[t].kind = "charge" /\ ask'[t].answer = "yes" => t \in yes
  BY <1>5, AskRow DEF RouterInv
<1>8. ThreadOK(t, r, ask'[t], yes)
  BY <1>2, <1>4, <1>6, <1>7 DEF ThreadOK, Same, PastGate, Renting
<1>9. QED
  BY <1>2, <1>4, <1>5, <1>8, OnwardStep DEF Provisioned

\* Eligibility is what the boundary needs of a provider.
LEMMA EligibleFits ==
  ASSUME NEW p \in Provider, NEW sub, NEW class, NEW st, NEW headroom, NEW gate,
         Rejection(p, sub, class, st, headroom, gate) = ""
  PROVE  Fits(p, class, sub)
<1>1. PrivacyOf[p] \in AllowedPrivacyTiers(class, sub)
  BY DEF Rejection
<1>2. CASE KindOf[p] = "cloud"
  <2>1. CloudRejection(p, sub, class, headroom, gate) = ""
    BY <1>1, <1>2 DEF Rejection
  <2>2. sub.external /\ (class = "low_sensitive" => sub.content # "secret")
    BY <2>1 DEF CloudRejection, RedactCloudSafe
  <2>3. QED
    BY <1>1, <1>2, <2>2 DEF Fits, IsRented
<1>3. CASE KindOf[p] = "rented"
  <2>1. RentedRejection(p, class, gate) = ""
    BY <1>1, <1>3 DEF Rejection
  <2>2. class = "repo_sensitive" => p \in Trusted
    BY <2>1 DEF RentedRejection
  <2>3. QED
    BY <1>1, <1>3, <2>2 DEF Fits
<1>4. CASE KindOf[p] \notin {"cloud", "rented"}
  BY <1>1, <1>4 DEF Fits, IsRented
<1>5. QED
  BY <1>2, <1>3, <1>4

\* A new approval is listed.
Asked(t, kind) == ask' = [ask EXCEPT ![t] = [kind |-> kind, answer |-> "unset"]]
\* Nobody has answered it yet.
LEMMA AskedRow ==
  ASSUME ThreadsOK, NEW t \in RTask, NEW kind, Asked(t, kind)
  PROVE  /\ DOMAIN ask' = RTask /\ \A u \in RTask : u # t => ask'[u] = ask[u]
         /\ DOMAIN ask'[t] = {"kind", "answer"} /\ ask'[t].kind = kind /\ ask'[t].answer = "unset"
<1>1. PICK a : a = [kind |-> kind, answer |-> "unset"]
  OBVIOUS
<1>2. DOMAIN a = {"kind", "answer"} /\ a.kind = kind /\ a.answer = "unset"
  BY <1>1
<1>3. DOMAIN ask = RTask
  BY DEF ThreadsOK
<1>4. DOMAIN ask' = RTask /\ (\A u \in RTask : u # t => ask'[u] = ask[u]) /\ ask'[t] = a
  BY <1>1, <1>3 DEF Asked
<1>5. QED
  BY <1>2, <1>4

\* The route: an eligible provider, a question about the budget, or a refusal.
LEMMA RouteStep == ASSUME RouterInv, NEW t \in RTask, Route(t) PROVE RouterInv'
<1>1. /\ rt[t].pc = "route" /\ Untouched /\ DOMAIN rt[t] = RowFields /\ Vetted(rt[t].class, rt[t].sub)
      /\ ThreadsOK
  BY DEF Route, At, Untouched, nodes, ghosts, RouterInv, ThreadsOK, ThreadOK, PastGate
<1>2. CASE \E p \in Eligible(t) :
             /\ rt' = [rt EXCEPT ![t].prov = p, ![t].pc = "routed", ![t].status = None]
             /\ UNCHANGED ask
  <2>1. PICK p \in Eligible(t) : rt' = [rt EXCEPT ![t].prov = p, ![t].pc = "routed", ![t].status = None] /\ ask' = ask
    BY <1>2
  <2>2. p \in Provider /\ Rejection(p, rt[t].sub, rt[t].class, rt[t].status, Headroom(p), Gate) = ""
    BY DEF Eligible, Why
  <2>3. Fits(p, rt[t].class, rt[t].sub)
    BY <2>2, EligibleFits
  <2>4. PICK r : r = [rt[t] EXCEPT !.prov = p, !.pc = "routed", !.status = None]
    OBVIOUS
  <2>5. DOMAIN r = RowFields /\ r.pc = "routed" /\ r.prov = p /\ r.sub = rt[t].sub /\ r.class = rt[t].class
    BY <1>1, <2>4 DEF RowFields
  <2>6. rt' = [rt EXCEPT ![t] = r] /\ AskKept(t)
    BY <2>1, <2>4 DEF AskKept
  <2>7. /\ DOMAIN ask' = RTask /\ \A u \in RTask : u # t => ask'[u] = ask[u]
        /\ DOMAIN ask'[t] = {"kind", "answer"}
        /\ ask'[t].kind = "charge" /\ ask'[t].answer = "yes" => t \in yes
    BY <1>1, <2>6, AskRow
  <2>8. ThreadOK(t, r, ask'[t], yes)
    BY <1>1, <2>3, <2>5, <2>7 DEF ThreadOK, Renting
  <2>9. Keeps(rt[t], r)
    BY <1>1, <2>5 DEF Keeps, Provisioned
  <2>10. QED
    BY <1>1, <2>6, <2>7, <2>8, <2>9, PlainStep DEF Untouched
<1>3. CASE rt' = [rt EXCEPT ![t].pc = "wait"] /\ Asked(t, "budget")
  <2>1. PICK r : r = [rt[t] EXCEPT !.pc = "wait"]
    OBVIOUS
  <2>2. Same(rt[t], r) /\ r.pc = "wait" /\ rt' = [rt EXCEPT ![t] = r]
    BY <1>1, <1>3, <2>1, GoneRow
  <2>3. /\ DOMAIN ask' = RTask /\ \A u \in RTask : u # t => ask'[u] = ask[u]
        /\ DOMAIN ask'[t] = {"kind", "answer"} /\ ask'[t].kind = "budget"
    BY <1>1, <1>3, AskedRow
  <2>4. ThreadOK(t, r, ask'[t], yes)
    BY <1>1, <2>2, <2>3 DEF ThreadOK, Same, Renting
  <2>5. Keeps(rt[t], r)
    BY <1>1, <2>2 DEF Keeps, Same, Provisioned
  <2>6. QED
    BY <1>1, <2>2, <2>3, <2>4, <2>5, PlainStep DEF Untouched
<1>4. CASE Reject(t) /\ UNCHANGED ask
  BY <1>1, <1>4, RejectStep DEF AskKept, Provisioned
<1>5. QED
  BY <1>2, <1>3, <1>4 DEF Route, Asked

\* A thread goes on at pc, its row otherwise as it was.
LEMMA GotoStep ==
  ASSUME RouterInv, NEW t \in RTask, NEW pc, Goto(t, pc), AskKept(t), Untouched,
         rt[t].pc \notin {"idle", "boot"}, pc # "idle", rt[t].pc \in Provisioned => pc \in Provisioned,
         \A r : Same(rt[t], r) /\ r.pc = pc => ThreadOK(t, r, ask'[t], yes)
  PROVE  RouterInv'
<1>1. PICK r : r = [rt[t] EXCEPT !.pc = pc]
  OBVIOUS
<1>2. Same(rt[t], r) /\ r.pc = pc
  BY <1>1, GoneRow DEF RouterInv
<1>3. rt' = [rt EXCEPT ![t] = r]
  BY <1>1 DEF Goto
<1>4. QED
  BY <1>2, <1>3, OnwardStep

\* After the route: the agentic guard, and a human for what costs money.
LEMMA AfterRouteStep == ASSUME RouterInv, NEW t \in RTask, AfterRoute(t) PROVE RouterInv'
<1>1. /\ rt[t].pc = "routed" /\ Untouched /\ ThreadsOK /\ ThreadOK(t, rt[t], ask[t], yes)
      /\ DOMAIN rt[t] = RowFields /\ Vetted(rt[t].class, rt[t].sub) /\ Fits(rt[t].prov, rt[t].class, rt[t].sub)
  BY DEF AfterRoute, At, Untouched, nodes, ghosts, RouterInv, ThreadsOK, ThreadOK, PastGate
<1>2. CASE rt[t].sub.agentic /\ ~AgenticAllowed(rt[t].prov, rt[t].sub)
  <2>1. Reject(t) /\ AskKept(t)
    BY <1>2 DEF AfterRoute, AskKept
  <2>2. QED
    BY <1>1, <2>1, RejectStep DEF Provisioned
<1>3. CASE ~(rt[t].sub.agentic /\ ~AgenticAllowed(rt[t].prov, rt[t].sub))
  <2>1. Cleared(rt[t].prov, rt[t].class, rt[t].sub)
    BY <1>1, <1>3 DEF Cleared
  <2>2. CASE Costs(rt[t].prov)
    <3>1. Goto(t, "wait") /\ Asked(t, "charge")
      BY <1>3, <2>2 DEF AfterRoute, Costs, Asked
    <3>2. PICK r : r = [rt[t] EXCEPT !.pc = "wait"]
      OBVIOUS
    <3>3. Same(rt[t], r) /\ r.pc = "wait" /\ rt' = [rt EXCEPT ![t] = r]
      BY <1>1, <3>1, <3>2, GoneRow DEF Goto
    <3>4. /\ DOMAIN ask' = RTask /\ \A u \in RTask : u # t => ask'[u] = ask[u]
          /\ DOMAIN ask'[t] = {"kind", "answer"} /\ ask'[t].answer = "unset"
      BY <1>1, <3>1, AskedRow
    <3>5. ThreadOK(t, r, ask'[t], yes)
      BY <1>1, <2>1, <3>3, <3>4 DEF ThreadOK, Same, Renting
    <3>6. Keeps(rt[t], r)
      BY <1>1, <3>3 DEF Keeps, Same, Provisioned
    <3>7. QED
      BY <1>1, <3>3, <3>4, <3>5, <3>6, PlainStep DEF Untouched
  <2>3. CASE ~Costs(rt[t].prov)
    <3>1. Goto(t, "reserve") /\ ask' = ask /\ AskKept(t)
      BY <1>3, <2>3 DEF AfterRoute, Costs, AskKept
    <3>2. ASSUME NEW r, Same(rt[t], r), r.pc = "reserve" PROVE ThreadOK(t, r, ask'[t], yes)
      BY <1>1, <2>1, <2>3, <3>1, <3>2 DEF ThreadOK, Same, Renting
    <3>3. QED
      BY <1>1, <3>1, <3>2, GotoStep DEF Provisioned
  <2>4. QED
    BY <2>2, <2>3
<1>4. QED
  BY <1>2, <1>3

\* An answer is given once; a yes to a charge is an approval.
LEMMA ResolveStep == ASSUME RouterInv, NEW t \in RTask, NEW answer, Resolve(t, answer) PROVE RouterInv'
<1>1. ThreadsOK /\ DOMAIN ask = RTask /\ DOMAIN ask[t] = {"kind", "answer"} /\ UNCHANGED <<rt, sent, charged>>
      /\ UNCHANGED nodes /\ yes \subseteq yes'
  BY DEF Resolve, RouterInv, ThreadsOK, ThreadOK
<1>2. PICK a : a = [ask[t] EXCEPT !.answer = answer]
  OBVIOUS
<1>3. DOMAIN a = {"kind", "answer"} /\ a.kind = ask[t].kind /\ a.answer = answer
  BY <1>1, <1>2
<1>4. ask' = [ask EXCEPT ![t] = a]
  BY <1>2 DEF Resolve
<1>5. DOMAIN ask' = RTask /\ ask'[t] = a /\ \A u \in RTask : u # t => ask'[u] = ask[u]
  BY <1>1, <1>4
<1>6. a.kind = "charge" /\ a.answer = "yes" => t \in yes'
  BY <1>3 DEF Resolve
<1>7. ThreadOK(t, rt[t], a, yes')
  BY <1>1, <1>3, <1>6 DEF RouterInv, ThreadsOK, ThreadOK
<1>8. ASSUME NEW u \in RTask, u # t PROVE ThreadOK(u, rt[u], ask[u], yes')
  BY <1>1 DEF ThreadsOK, ThreadOK
<1>9. ThreadsOK'
  BY <1>1, <1>5, <1>7, <1>8 DEF ThreadsOK
<1>10. SentOK'
  BY <1>1 DEF RouterInv, SentOK
<1>11. BoxesOK'
  BY <1>1 DEF RouterInv, BoxesOK, BoxOf, nodes
<1>12. QED
  BY <1>1, <1>9, <1>10, <1>11 DEF RouterInv

\* The waiter acts on the answer.
LEMMA AnsweredStep == ASSUME RouterInv, NEW t \in RTask, Answered(t) PROVE RouterInv'
<1>1. /\ rt[t].pc = "wait" /\ Untouched /\ AskKept(t) /\ ThreadsOK /\ ThreadOK(t, rt[t], ask[t], yes)
      /\ DOMAIN rt[t] = RowFields /\ Vetted(rt[t].class, rt[t].sub) /\ DOMAIN ask = RTask
      /\ ask' = [ask EXCEPT ![t] = NoAsk]
  BY DEF Answered, At, Untouched, AskKept, nodes, ghosts, RouterInv, ThreadsOK, ThreadOK, PastGate
<1>2. DOMAIN ask'[t] = {"kind", "answer"} /\ ask'[t].kind = "none"
  BY <1>1, NoAskRow
<1>3. CASE ask[t] = [kind |-> "charge", answer |-> "yes"] /\ Goto(t, "reserve")
  <2>1. ask[t].kind = "charge" /\ ask[t].answer = "yes"
    BY <1>3
  <2>2. Cleared(rt[t].prov, rt[t].class, rt[t].sub) /\ t \in yes
    BY <1>1, <2>1 DEF ThreadOK
  <2>3. ASSUME NEW r, Same(rt[t], r), r.pc = "reserve" PROVE ThreadOK(t, r, ask'[t], yes)
    BY <1>1, <1>2, <2>2, <2>3 DEF ThreadOK, Same, Renting
  <2>4. QED
    BY <1>1, <1>3, <2>3, GotoStep DEF Provisioned
<1>4. CASE rt' = [rt EXCEPT ![t].pc = "route", ![t].retried = TRUE]
  <2>1. PICK r : r = [rt[t] EXCEPT !.pc = "route", !.retried = TRUE]
    OBVIOUS
  <2>2. Same(rt[t], r) /\ r.pc = "route" /\ rt' = [rt EXCEPT ![t] = r]
    BY <1>1, <1>4, <2>1 DEF Same, RowFields
  <2>3. ThreadOK(t, r, ask'[t], yes)
    BY <1>1, <1>2, <2>2 DEF ThreadOK, Same, Renting
  <2>4. QED
    BY <1>1, <2>2, <2>3, OnwardStep DEF Provisioned
<1>5. CASE Reject(t)
  BY <1>1, <1>5, RejectStep DEF Provisioned
<1>6. QED
  BY <1>3, <1>4, <1>5 DEF Answered

\* Nobody answered in time.
LEMMA WaitTimesOutStep == ASSUME RouterInv, NEW t \in RTask, WaitTimesOut(t) PROVE RouterInv'
<1>1. /\ rt[t].pc = "wait" /\ Untouched /\ AskKept(t) /\ ask' = ask /\ ThreadOK(t, rt[t], ask[t], yes)
      /\ Goto(t, "give_up")
  BY DEF WaitTimesOut, At, Untouched, AskKept, nodes, ghosts, RouterInv, ThreadsOK
<1>2. ASSUME NEW r, Same(rt[t], r), r.pc = "give_up" PROVE ThreadOK(t, r, ask'[t], yes)
  BY <1>1, <1>2 DEF ThreadOK, Same, PastGate, Renting
<1>3. QED
  BY <1>1, <1>2, GotoStep DEF Provisioned

\* All fallbacks are used up: the task is rejected.
LEMMA GiveUpStep == ASSUME RouterInv, NEW t \in RTask, GiveUp(t) PROVE RouterInv'
<1>1. Reject(t) /\ rt[t].pc = "give_up" /\ AskKept(t) /\ Untouched
  BY DEF GiveUp, At, AskKept, Untouched, nodes, ghosts
<1>2. QED
  BY <1>1, RejectStep DEF Provisioned

\* The quota is read, and the reservation entered.
LEMMA CheckQuotaStep == ASSUME RouterInv, NEW t \in RTask, CheckQuota(t) PROVE RouterInv'
<1>1. /\ rt[t].pc = "reserve" /\ Untouched /\ AskKept(t) /\ ask' = ask /\ ThreadOK(t, rt[t], ask[t], yes)
  BY DEF CheckQuota, At, Untouched, AskKept, nodes, ghosts, RouterInv, ThreadsOK
<1>2. Goto(t, "walk") \/ Goto(t, "insert") \/ Reject(t)
  BY DEF CheckQuota
<1>3. ASSUME NEW r, Same(rt[t], r), r.pc \in {"walk", "insert"} PROVE ThreadOK(t, r, ask'[t], yes)
  BY <1>1, <1>3 DEF ThreadOK, Same, PastGate, Renting
<1>4. QED
  BY <1>1, <1>2, <1>3, GotoStep, RejectStep DEF Provisioned

\* The reservation is entered; the provider chosen at the gate stays.
LEMMA InsertStep == ASSUME RouterInv, NEW t \in RTask, InsertReservation(t) PROVE RouterInv'
<1>1. /\ rt[t].pc = "insert" /\ Untouched /\ AskKept(t) /\ ask' = ask /\ ThreadOK(t, rt[t], ask[t], yes)
      /\ Goto(t, "walk")
  BY DEF InsertReservation, At, Untouched, AskKept, nodes, ghosts, RouterInv, ThreadsOK
<1>2. ASSUME NEW r, Same(rt[t], r), r.pc = "walk" PROVE ThreadOK(t, r, ask'[t], yes)
  BY <1>1, <1>2 DEF ThreadOK, Same, PastGate, Renting
<1>3. QED
  BY <1>1, <1>2, GotoStep DEF Provisioned

\* The walk to RUNNING decides how the task is dispatched.
LEMMA WalkStep == ASSUME RouterInv, NEW t \in RTask, Walk(t) PROVE RouterInv'
<1>1. /\ rt[t].pc = "walk" /\ Untouched /\ AskKept(t) /\ ask' = ask /\ ThreadOK(t, rt[t], ask[t], yes) /\ ThreadsOK
  BY DEF Walk, At, Untouched, AskKept, nodes, ghosts, RouterInv, ThreadsOK
<1>2. PICK next : next = IF rt[t].prov \in RemoteWorker THEN "remote"
                         ELSE IF IsRented(rt[t].prov) THEN "reap" ELSE "call"
  OBVIOUS
<1>3. PICK r : r = MoveAlong(t, <<"QUEUED", "DISPATCHED", "RUNNING">>, next)
  OBVIOUS
<1>4. rt' = [rt EXCEPT ![t] = r] /\ Same(rt[t], r) /\ r.pc \in {next, "ended"}
  BY <1>1, <1>2, <1>3, AlongRow DEF Walk
<1>5. rt[t].prov \in RemoteWorker => rt[t].prov \notin Provider
  BY RouterNames
<1>6. ThreadOK(t, r, ask'[t], yes)
  BY <1>1, <1>2, <1>4, <1>5 DEF ThreadOK, Same, PastGate, Renting, Cleared, Fits, Remote
<1>7. QED
  BY <1>1, <1>2, <1>4, <1>6, OnwardStep DEF Provisioned

\* What goes to a provider that eligibility and the agentic guard admitted.
LEMMA ClearedBounded ==
  ASSUME NEW p, NEW class, NEW sub, Cleared(p, class, sub), Vetted(class, sub),
         NEW m, m.to = p, m.class = class
  PROVE  Bounded(m, sub)
<1>1. p \in Provider /\ p \notin RemoteWorker /\ KindOf[p] \in {"owned", "rented", "cloud"}
  BY RouterNames, PolicyTypes DEF Cleared, Fits
<1>2. KindOf[p] = "cloud" => sub.external /\ ~sub.agentic /\ (class = "low_sensitive" => sub.content # "secret")
  BY DEF Cleared, Fits, AgenticAllowed, IsRented
<1>3. ASSUME class \in {"restricted", "repo_sensitive"}
      PROVE  PrivacyOf[p] = "local_only" \/ (class = "repo_sensitive" /\ p \in Trusted /\ sub.rented)
  <2>1. ClassTiers(class) = {"local_only"}
    BY <1>3 DEF ClassTiers
  <2>2. CASE PrivacyOf[p] \in ClassTiers(class)
    BY <2>1, <2>2
  <2>3. CASE PrivacyOf[p] \notin ClassTiers(class)
    <3>1. sub.rented /\ class = "repo_sensitive" /\ PrivacyOf[p] = "private_rented"
      BY <2>3 DEF Cleared, Fits, AllowedPrivacyTiers
    <3>2. KindOf[p] = "rented"
      BY <1>1, <3>1, PolicyTypes
    <3>3. QED
      BY <3>1, <3>2 DEF Cleared, Fits, IsRented
  <2>4. QED
    BY <2>2, <2>3
<1>4. QED
  BY <1>1, <1>2, <1>3 DEF Bounded

\* What goes to a remote worker stays within the tiers of its class.
LEMMA RemoteBounded ==
  ASSUME NEW w, NEW class, NEW sub, Remote(w, class), Vetted(class, sub), NEW m, m.to = w, m.class = class
  PROVE  Bounded(m, sub)
<1>1. w \in RemoteWorker /\ w \notin Provider
  BY RouterNames DEF Remote
<1>2. class \in {"restricted", "repo_sensitive"} => RemoteTier[w] = "local_only"
  BY DEF Remote, ClassTiers
<1>3. QED
  BY <1>1, <1>2 DEF Bounded

\* A thread sends its text and has its result.
LEMMA SendStep ==
  ASSUME RouterInv, NEW t \in RTask, NEW pc \in {"ok", "failed"}, Goto(t, pc), rt[t].pc \in {"remote", "call", "serve"},
         NEW m, sent' = sent \cup {m}, m.task = t, Bounded(m, rt[t].sub), ask' = ask, yes' = yes,
         charged' = charged \/ (t \in yes /\ charged' = charged \cup {t}),
         UNCHANGED <<pool, plock, box, reap, lost>>
  PROVE  RouterInv'
<1>1. ThreadsOK /\ SentOK /\ BoxesOK /\ AskKept(t)
  BY DEF RouterInv, AskKept
<1>2. PICK r : r = [rt[t] EXCEPT !.pc = pc]
  OBVIOUS
<1>3. Same(rt[t], r) /\ r.pc = pc /\ rt' = [rt EXCEPT ![t] = r]
  BY <1>1, <1>2, GoneRow DEF Goto
<1>4. Keeps(rt[t], r)
  BY <1>3 DEF Same, Keeps, Provisioned
<1>5. /\ DOMAIN ask' = RTask /\ \A u \in RTask : u # t => ask'[u] = ask[u]
      /\ DOMAIN ask'[t] = {"kind", "answer"}
      /\ ask'[t].kind = "charge" /\ ask'[t].answer = "yes" => t \in yes
  BY <1>1, AskRow
<1>6. ThreadOK(t, r, ask'[t], yes)
  BY <1>3, <1>5, LooseRow DEF Same, Loose
<1>7. /\ ThreadsOK' /\ rt'[t] = r
      /\ \A u \in RTask : u # t => rt'[u] = rt[u]
  BY <1>1, <1>3, <1>5, <1>6, RowMoves
<1>8. BoxesOK'
  BY <1>1, <1>4, <1>7, BoxesKeep
<1>9. ASSUME NEW n \in sent' PROVE n.task \in RTask /\ rt'[n.task].pc # "idle" /\ Bounded(n, rt'[n.task].sub)
  <2>1. CASE n = m
    BY <1>3, <1>7, <2>1 DEF Same
  <2>2. CASE n \in sent
    <3>1. n.task \in RTask /\ rt[n.task].pc # "idle" /\ Bounded(n, rt[n.task].sub)
      BY <1>1, <2>2 DEF SentOK
    <3>2. rt'[n.task].pc # "idle" /\ rt'[n.task].sub = rt[n.task].sub
      BY <1>4, <1>7, <3>1 DEF Keeps
    <3>3. QED
      BY <3>1, <3>2
  <2>3. QED
    BY <1>9, <2>1, <2>2
<1>10. SentOK'
  BY <1>9 DEF SentOK
<1>11. charged' \subseteq yes'
  BY DEF RouterInv
<1>12. QED
  BY <1>7, <1>8, <1>10, <1>11 DEF RouterInv

\* What a thread of the task sends to its provider.
LEMMA MessageRow ==
  ASSUME NEW t, NEW p, NEW m, m = Message(t, p)
  PROVE  DOMAIN m = {"task", "to", "class"} /\ m.task = t /\ m.to = p /\ m.class = rt[t].class
BY DEF Message

\* The dispatch to a remote worker.
LEMMA RunRemoteStep == ASSUME RouterInv, NEW t \in RTask, RunRemote(t) PROVE RouterInv'
<1>1. rt[t].pc = "remote" /\ ThreadOK(t, rt[t], ask[t], yes)
  BY DEF RunRemote, At, RouterInv, ThreadsOK
<1>2. PICK m : m = Message(t, rt[t].prov)
  OBVIOUS
<1>3. m.task = t /\ m.to = rt[t].prov /\ m.class = rt[t].class
  BY <1>2, MessageRow
<1>4. Bounded(m, rt[t].sub)
  <2>1. Remote(rt[t].prov, rt[t].class) /\ Vetted(rt[t].class, rt[t].sub)
    BY <1>1 DEF ThreadOK, PastGate
  <2>2. QED
    BY <1>3, <2>1, RemoteBounded
<1>5. sent' = sent \cup {m} /\ ask' = ask /\ yes' = yes /\ charged' = charged /\ UNCHANGED nodes
  BY <1>2 DEF RunRemote
<1>6. PICK pc \in {"ok", "failed"} : Goto(t, pc)
  BY DEF RunRemote
<1>7. QED
  BY <1>1, <1>3, <1>4, <1>5, <1>6, SendStep DEF nodes

\* A call through the gateway: what costs money was approved.
LEMMA CallGatewayStep == ASSUME RouterInv, NEW t \in RTask, CallGateway(t) PROVE RouterInv'
<1>1. rt[t].pc = "call" /\ ThreadOK(t, rt[t], ask[t], yes)
  BY DEF CallGateway, At, RouterInv, ThreadsOK
<1>2. PICK m : m = Message(t, rt[t].prov)
  OBVIOUS
<1>3. m.task = t /\ m.to = rt[t].prov /\ m.class = rt[t].class
  BY <1>2, MessageRow
<1>4. /\ Cleared(rt[t].prov, rt[t].class, rt[t].sub) /\ Vetted(rt[t].class, rt[t].sub)
      /\ IsPaid(rt[t].prov) => t \in yes
  BY <1>1 DEF ThreadOK, PastGate, Costs
<1>5. Bounded(m, rt[t].sub)
  BY <1>3, <1>4, ClearedBounded
<1>6. sent' = sent \cup {m} /\ ask' = ask /\ yes' = yes /\ UNCHANGED nodes
  BY <1>2 DEF CallGateway
<1>7. charged' = charged \/ (t \in yes /\ charged' = charged \cup {t})
  BY <1>4 DEF CallGateway
<1>8. PICK pc \in {"ok", "failed"} : Goto(t, pc)
  BY DEF CallGateway
<1>9. QED
  BY <1>1, <1>3, <1>5, <1>6, <1>7, <1>8, SendStep DEF nodes

\* A rented node serves the task.
LEMMA ServeRentedStep == ASSUME RouterInv, NEW t \in RTask, ServeRented(t) PROVE RouterInv'
<1>1. rt[t].pc = "serve" /\ ThreadOK(t, rt[t], ask[t], yes)
  BY DEF ServeRented, At, RouterInv, ThreadsOK
<1>2. PICK m : m = Message(t, rt[t].prov)
  OBVIOUS
<1>3. m.task = t /\ m.to = rt[t].prov /\ m.class = rt[t].class
  BY <1>2, MessageRow
<1>4. Cleared(rt[t].prov, rt[t].class, rt[t].sub) /\ Vetted(rt[t].class, rt[t].sub)
  BY <1>1 DEF ThreadOK, PastGate, Renting
<1>5. Bounded(m, rt[t].sub)
  BY <1>3, <1>4, ClearedBounded
<1>6. sent' = sent \cup {m} /\ ask' = ask /\ yes' = yes /\ charged' = charged /\ UNCHANGED nodes /\ Goto(t, "ok")
  BY <1>2 DEF ServeRented
<1>7. QED
  BY <1>1, <1>3, <1>5, <1>6, SendStep DEF nodes

\* A delegated child runs on the owned model its parent runs on.
LEMMA DelegateStep == ASSUME RouterInv, NEW t \in RTask, NEW c, DelegateChild(t, c) PROVE RouterInv'
<1>1. /\ rt[t].pc = "call" /\ ThreadOK(t, rt[t], ask[t], yes) /\ rt[t].sub.agentic
      /\ UNCHANGED <<rt, ask, nodes, yes, charged>>
  BY DEF DelegateChild, At, RouterInv, ThreadsOK
<1>2. PICK class : class = ChildPrivacyClass(rt[t].class, c)
  OBVIOUS
<1>3. PICK m : m = Message(t, rt[t].prov)
  OBVIOUS
<1>4. PICK n : n = [m EXCEPT !.class = class]
  OBVIOUS
<1>5. class # "secret_sensitive" /\ sent' = sent \cup {n}
  BY <1>2, <1>3, <1>4 DEF DelegateChild
<1>6. n.task = t /\ n.to = rt[t].prov /\ n.class = class
  BY <1>3, <1>4, MessageRow
<1>7. rt[t].prov \in Provider /\ KindOf[rt[t].prov] = "owned"
  BY <1>1 DEF ThreadOK, Cleared, Fits, AgenticAllowed
<1>8. Bounded(n, rt[t].sub)
  <2>0. Vetted(class, rt[t].sub)
    BY <1>1, <1>5 DEF ThreadOK, PastGate, Vetted
  <2>1. rt[t].prov \notin RemoteWorker /\ PrivacyOf[rt[t].prov] = "local_only" /\ KindOf[rt[t].prov] # "cloud"
    BY <1>7, RouterNames, PolicyTypes
  <2>2. QED
    BY <1>6, <2>0, <2>1 DEF Bounded
<1>9. SentOK'
  BY <1>1, <1>5, <1>6, <1>8 DEF RouterInv, SentOK
<1>10. ThreadsOK' /\ BoxesOK'
  BY <1>1 DEF RouterInv, ThreadsOK, BoxesOK, BoxOf, nodes
<1>11. QED
  BY <1>1, <1>9, <1>10 DEF RouterInv

\* Steps that end at a point where the thread owes nothing, or leave its place.
LEMMA ClientFailsStep == ASSUME RouterInv, NEW t \in RTask, ClientFails(t) PROVE RouterInv'
<1>1. rt[t].pc = "bill" /\ Untouched /\ AskKept(t) /\ Goto(t, "failed")
  BY DEF ClientFails, At, Untouched, AskKept, nodes, ghosts
<1>2. PICK r : r = [rt[t] EXCEPT !.pc = "failed"]
  OBVIOUS
<1>3. Same(rt[t], r) /\ r.pc = "failed" /\ rt' = [rt EXCEPT ![t] = r]
  BY <1>1, <1>2, GoneRow DEF Goto, RouterInv
<1>4. QED
  BY <1>1, <1>3, LooseStep DEF Loose, Provisioned

\* After a success the reservation is reconciled.
LEMMA ReconcileOkStep == ASSUME RouterInv, NEW t \in RTask, ReconcileOk(t) PROVE RouterInv'
<1>1. rt[t].pc = "ok" /\ Untouched /\ AskKept(t) /\ Goto(t, "finish")
  BY DEF ReconcileOk, At, Untouched, AskKept, nodes, ghosts
<1>2. PICK r : r = [rt[t] EXCEPT !.pc = "finish"]
  OBVIOUS
<1>3. Same(rt[t], r) /\ r.pc = "finish" /\ rt' = [rt EXCEPT ![t] = r]
  BY <1>1, <1>2, GoneRow DEF Goto, RouterInv
<1>4. QED
  BY <1>1, <1>3, LooseStep DEF Loose, Provisioned

\* After a failure the reservation is reconciled and the task fails.
LEMMA ReconcileFailedStep == ASSUME RouterInv, NEW t \in RTask, ReconcileFailed(t) PROVE RouterInv'
<1>1. PICK r : r = Move(t, "FAILED", "ended")
  OBVIOUS
<1>2. Same(rt[t], r) /\ r.pc = "ended"
  BY <1>1, MovedRow DEF RouterInv
<1>3. rt' = [rt EXCEPT ![t] = r] /\ rt[t].pc = "failed" /\ AskKept(t) /\ Untouched
  BY <1>1 DEF ReconcileFailed, Write, At, AskKept, Untouched, nodes, ghosts
<1>4. QED
  BY <1>2, <1>3, LooseStep DEF Loose, Provisioned

\* The result is written and checked, and the thread ends.
LEMMA FinishStep == ASSUME RouterInv, NEW t \in RTask, Finish(t) PROVE RouterInv'
<1>1. rt[t].pc = "finish" /\ AskKept(t) /\ Untouched
  BY DEF Finish, At, AskKept, Untouched, nodes, ghosts
<1>2. PICK r : r = Move(t, "FAILED", "ended")
  OBVIOUS
<1>3. PICK x : x = MoveAlong(t, <<"ARTIFACTS_WRITTEN", "CHECKS_RUN", "REVIEW_READY", "APPROVED", "COMPLETE">>, "ended")
  OBVIOUS
<1>4. Same(rt[t], r) /\ r.pc = "ended" /\ Same(rt[t], x) /\ x.pc = "ended"
  BY <1>2, <1>3, MovedRow, AlongRow DEF RouterInv
<1>5. rt' = [rt EXCEPT ![t] = r] \/ rt' = [rt EXCEPT ![t] = x]
  BY <1>2, <1>3 DEF Finish, Write
<1>6. QED
  BY <1>1, <1>4, <1>5, LooseStep DEF Loose, Provisioned

\* A cancel changes the stored state, not where the thread is.
LEMMA CancelStep == ASSUME RouterInv, NEW t \in RTask, CancelTask(t) PROVE RouterInv'
<1>1. Untouched /\ ask' = ask /\ ThreadsOK /\ DOMAIN ask = RTask /\ ThreadOK(t, rt[t], ask[t], yes) /\ DOMAIN rt[t] = RowFields
  BY DEF CancelTask, Untouched, nodes, ghosts, RouterInv, ThreadsOK, ThreadOK
<1>2. PICK r : r = [rt[t] EXCEPT !.state = "CANCELLED"]
  OBVIOUS
<1>3. Same(rt[t], r) /\ r.pc = rt[t].pc /\ rt' = [rt EXCEPT ![t] = r]
  BY <1>1, <1>2 DEF Same, RowFields, CancelTask
<1>4. Keeps(rt[t], r)
  BY <1>3 DEF Keeps, Same
<1>5. ThreadOK(t, r, ask'[t], yes)
  BY <1>1, <1>3 DEF ThreadOK, Same
<1>6. QED
  BY <1>1, <1>3, <1>4, <1>5, PlainStep DEF Untouched

\* The window is billed, and a node in the pool is used again.
LEMMA BillWindowStep == ASSUME RouterInv, NEW t \in RTask, BillWindow(t) PROVE RouterInv'
<1>1. /\ rt[t].pc = "bill" /\ Untouched /\ AskKept(t) /\ ask' = ask /\ ThreadOK(t, rt[t], ask[t], yes)
      /\ Goto(t, "serve")
  BY DEF BillWindow, At, Untouched, AskKept, ghosts, RouterInv, ThreadsOK
<1>2. ASSUME NEW r, Same(rt[t], r), r.pc = "serve" PROVE ThreadOK(t, r, ask'[t], yes)
  BY <1>1, <1>2 DEF ThreadOK, Same, PastGate, Renting
<1>3. QED
  BY <1>1, <1>2, GotoStep DEF Provisioned

\* acquire finds a live box of the provider: no charge, no approval.
LEMMA AcquireReuseStep == ASSUME RouterInv, NEW t \in RTask, AcquireReuse(t) PROVE RouterInv'
<1>1. /\ rt[t].pc = "acquire" /\ Untouched /\ AskKept(t) /\ ask' = ask /\ ThreadOK(t, rt[t], ask[t], yes)
      /\ Goto(t, "serve")
  BY DEF AcquireReuse, At, Untouched, AskKept, nodes, ghosts, RouterInv, ThreadsOK
<1>2. ASSUME NEW r, Same(rt[t], r), r.pc = "serve" PROVE ThreadOK(t, r, ask'[t], yes)
  BY <1>1, <1>2 DEF ThreadOK, Same, PastGate, Renting
<1>3. QED
  BY <1>1, <1>2, GotoStep DEF Provisioned

\* A thread of the node pool goes on: the rows and the messages after it.
LEMMA NodeThread ==
  ASSUME RouterInv, NEW t \in RTask, NEW pc, Goto(t, pc), rt[t].pc # "idle", pc # "idle",
         ask' = ask, yes' = yes, sent' = sent,
         \A r : Same(rt[t], r) /\ r.pc = pc => ThreadOK(t, r, ask[t], yes)
  PROVE  /\ ThreadsOK' /\ SentOK'
         /\ rt'[t].pc = pc /\ rt'[t].prov = rt[t].prov
         /\ \A u \in RTask : u # t => rt'[u] = rt[u]
<1>1. ThreadsOK /\ SentOK /\ DOMAIN ask = RTask
  BY DEF RouterInv, ThreadsOK
<1>2. PICK r : r = [rt[t] EXCEPT !.pc = pc]
  OBVIOUS
<1>3. Same(rt[t], r) /\ r.pc = pc /\ rt' = [rt EXCEPT ![t] = r]
  BY <1>1, <1>2, GoneRow DEF Goto
<1>4. /\ ThreadsOK' /\ rt'[t] = r
      /\ \A u \in RTask : u # t => rt'[u] = rt[u]
  BY <1>1, <1>3, RowMoves
<1>5. SentOK'
  BY <1>1, <1>3, <1>4 DEF SentOK, Same
<1>6. QED
  BY <1>3, <1>4, <1>5 DEF Same

\* acquire provisions a box under the lock of the provider.
LEMMA ProvisionStep == ASSUME RouterInv, NEW t \in RTask, AcquireProvision(t) PROVE RouterInv'
<1>1. rt[t].pc = "acquire" /\ ThreadOK(t, rt[t], ask[t], yes) /\ BoxesOK
  BY DEF AcquireProvision, At, RouterInv, ThreadsOK
<1>2. PICK p : p = rt[t].prov
  OBVIOUS
<1>3. p \in Provider /\ t \in yes /\ plock[p] = None /\ pool[p] = None
  BY <1>1, <1>2 DEF ThreadOK, Renting, Cleared, Fits, Costs, AcquireProvision
<1>4. ASSUME NEW r, Same(rt[t], r), r.pc = "boot" PROVE ThreadOK(t, r, ask[t], yes)
  BY <1>1, <1>4 DEF ThreadOK, Same, PastGate, Renting
<1>5. /\ ThreadsOK' /\ SentOK'
      /\ rt'[t].pc = "boot" /\ rt'[t].prov = p
      /\ \A u \in RTask : u # t => rt'[u] = rt[u]
  BY <1>1, <1>2, <1>4, NodeThread DEF AcquireProvision
<1>6. PICK x : x = [state |-> "boot", of |-> t]
  OBVIOUS
<1>7. x \in [state : {"none", "boot", "up", "gone"}, of : RTask \cup {None}] /\ x.state = "boot" /\ x.of = t
  BY <1>6
<1>8. PICK b \in Box : box[b].state = "none" /\ box' = [box EXCEPT ![b] = x]
  BY <1>6 DEF AcquireProvision
<1>9. /\ box' \in [Box -> [state : {"none", "boot", "up", "gone"}, of : RTask \cup {None}]]
      /\ box'[b].state = "boot" /\ box'[b].of = t /\ \A c \in Box : c # b => box'[c] = box[c]
  BY <1>1, <1>7, <1>8 DEF BoxesOK
<1>10. /\ UNCHANGED <<pool, reap, lost, yes>> /\ plock' = [plock EXCEPT ![p] = t] /\ charged' = charged \cup {t}
  BY <1>2 DEF AcquireProvision
<1>11. DOMAIN plock' = Provider /\ plock'[p] = t /\ \A q \in Provider : q # p => plock'[q] = plock[q]
  BY <1>1, <1>3, <1>10 DEF BoxesOK
<1>12. ASSUME NEW c \in Box, c # b, box[c].state # "none"
       PROVE  /\ BoxOf(c) \in RTask /\ BoxOf(c) # t /\ BoxOf(c)' = BoxOf(c) /\ box'[c].state = box[c].state
              /\ rt'[BoxOf(c)] = rt[BoxOf(c)] /\ rt[BoxOf(c)].pc \in Provisioned /\ rt[BoxOf(c)].prov \in Provider
  <2>1. BoxOf(c) \in RTask /\ rt[BoxOf(c)].pc \in Provisioned /\ rt[BoxOf(c)].prov \in Provider
    BY <1>1, <1>12 DEF BoxesOK
  <2>2. BoxOf(c) # t
    BY <1>1, <2>1 DEF Provisioned
  <2>3. QED
    BY <1>5, <1>9, <1>12, <2>1, <2>2 DEF BoxOf
<1>13. BoxOf(b)' = t
  BY <1>9 DEF BoxOf
<1>14. ASSUME NEW c \in Box, box'[c].state # "none"
       PROVE  /\ BoxOf(c)' \in RTask /\ rt'[BoxOf(c)'].pc \in Provisioned /\ rt'[BoxOf(c)'].prov \in Provider
              /\ \A d \in Box : box'[d].state # "none" /\ BoxOf(d)' = BoxOf(c)' => c = d
  <2>1. CASE c = b
    BY <1>3, <1>5, <1>9, <1>12, <1>13, <2>1 DEF Provisioned
  <2>2. CASE c # b
    <3>1. box[c].state # "none"
      BY <1>9, <1>14, <2>2
    <3>2. \A d \in Box : box[d].state # "none" /\ BoxOf(d) = BoxOf(c) => c = d
      BY <1>1, <3>1 DEF BoxesOK
    <3>3. QED
      BY <1>9, <1>12, <1>13, <2>2, <3>1, <3>2
  <2>3. QED
    BY <2>1, <2>2
<1>15. ASSUME NEW c \in Box, box'[c].state = "boot"
       PROVE  rt'[BoxOf(c)'].pc = "boot" /\ plock'[rt'[BoxOf(c)'].prov] = BoxOf(c)'
  <2>1. CASE c = b
    BY <1>5, <1>11, <1>13, <2>1
  <2>2. CASE c # b
    <3>1. box[c].state = "boot"
      BY <1>9, <1>15, <2>2
    <3>2. rt[BoxOf(c)].pc = "boot" /\ plock[rt[BoxOf(c)].prov] = BoxOf(c)
      BY <1>1, <3>1 DEF BoxesOK
    <3>3. BoxOf(c) # None /\ rt[BoxOf(c)].prov # p
      BY <1>3, <1>12, <2>2, <3>1, <3>2, RouterNames
    <3>4. QED
      BY <1>11, <1>12, <2>2, <3>1, <3>2, <3>3
  <2>3. QED
    BY <2>1, <2>2
<1>16. ASSUME NEW c \in Box, box'[c].state = "up", c \notin lost PROVE pool[rt'[BoxOf(c)'].prov] = c
  <2>1. c # b /\ box[c].state = "up"
    BY <1>9, <1>16
  <2>2. pool[rt[BoxOf(c)].prov] = c
    BY <1>1, <1>16, <2>1 DEF BoxesOK
  <2>3. QED
    BY <1>12, <2>1, <2>2
<1>17. ASSUME NEW q \in Provider, pool[q] # None
       PROVE  /\ pool[q] \in Box /\ box'[pool[q]].state \in {"up", "gone"} /\ rt'[BoxOf(pool[q])'].prov = q
              /\ plock'[q] = None
  <2>1. pool[q] \in Box /\ box[pool[q]].state \in {"up", "gone"} /\ rt[BoxOf(pool[q])].prov = q /\ plock[q] = None
    BY <1>1, <1>17 DEF BoxesOK
  <2>2. pool[q] # b /\ q # p
    BY <1>3, <1>8, <1>17, <2>1
  <2>3. BoxOf(pool[q])' = BoxOf(pool[q]) /\ rt'[BoxOf(pool[q])] = rt[BoxOf(pool[q])]
    BY <1>10, <1>12, <2>1, <2>2 DEF BoxOf
  <2>4. QED
    BY <1>9, <1>11, <2>1, <2>2, <2>3
<1>18. ASSUME NEW q \in Provider, plock'[q] # None
       PROVE  plock'[q] \in RTask /\ rt'[plock'[q]].pc = "boot" /\ rt'[plock'[q]].prov = q
  <2>1. CASE q = p
    BY <1>5, <1>11, <2>1
  <2>2. CASE q # p
    <3>1. plock'[q] = plock[q] /\ plock[q] \in RTask /\ rt[plock[q]].pc = "boot" /\ rt[plock[q]].prov = q
      BY <1>1, <1>11, <1>18, <2>2 DEF BoxesOK
    <3>2. plock[q] # t
      BY <1>1, <3>1
    <3>3. QED
      BY <1>5, <3>1, <3>2
  <2>3. QED
    BY <2>1, <2>2
<1>19. ASSUME NEW q \in Provider, reap[q] # None PROVE reap[q] \in Box /\ box'[reap[q]].state = "gone"
  <2>1. reap[q] \in Box /\ box[reap[q]].state = "gone"
    BY <1>1, <1>19 DEF BoxesOK
  <2>2. QED
    BY <1>8, <1>9, <2>1
<1>20. BoxesOK'
  <2>1. DOMAIN pool' = Provider /\ DOMAIN plock' = Provider /\ DOMAIN reap' = Provider
    BY <1>1, <1>10, <1>11 DEF BoxesOK
  <2>2. \A q \in Provider : pool'[q] # None =>
          /\ pool'[q] \in Box /\ box'[pool'[q]].state \in {"up", "gone"} /\ rt'[BoxOf(pool[q])'].prov = q
          /\ plock'[q] = None
    BY <1>10, <1>17
  <2>3. QED
    BY <1>9, <1>10, <1>14, <1>15, <1>16, <1>18, <1>19, <2>1, <2>2 DEF BoxesOK
<1>21. charged' \subseteq yes'
  BY <1>3, <1>10 DEF RouterInv
<1>22. QED
  BY <1>5, <1>20, <1>21 DEF RouterInv

\* The invariant of the boxes after a step that starts none.
LEMMA BoxesMove ==
  ASSUME BoxesOK,
         DOMAIN pool' = Provider, DOMAIN plock' = Provider, DOMAIN reap' = Provider,
         box' \in [Box -> [state : {"none", "boot", "up", "gone"}, of : RTask \cup {None}]],
         \A c \in Box : box'[c].of = box[c].of /\ (box'[c].state # "none" => box[c].state # "none"),
         \A u \in RTask : rt[u].pc \in Provisioned => rt'[u].pc \in Provisioned /\ rt'[u].prov = rt[u].prov,
         \A c \in Box : box'[c].state = "boot" =>
           rt'[box[c].of].pc = "boot" /\ plock'[rt[box[c].of].prov] = box[c].of,
         \A c \in Box : box'[c].state = "up" /\ c \notin lost' => pool'[rt[box[c].of].prov] = c,
         \A q \in Provider : pool'[q] # None =>
           pool'[q] \in Box /\ box'[pool'[q]].state \in {"up", "gone"} /\ rt[box[pool'[q]].of].prov = q /\ plock'[q] = None,
         \A q \in Provider : plock'[q] # None => plock[q] = plock'[q] /\ rt'[plock[q]].pc = "boot",
         \A q \in Provider : reap'[q] # None => reap'[q] \in Box /\ box'[reap'[q]].state = "gone"
  PROVE  BoxesOK'
<1>1. ASSUME NEW c \in Box, box'[c].state # "none"
      PROVE  /\ box[c].of \in RTask /\ rt'[box[c].of].pc \in Provisioned /\ rt'[box[c].of].prov = rt[box[c].of].prov
             /\ rt'[box[c].of].prov \in Provider
             /\ \A d \in Box : box'[d].state # "none" /\ box[d].of = box[c].of => c = d
  BY <1>1 DEF BoxesOK, BoxOf
<1>2. ASSUME NEW q \in Provider, pool'[q] # None
      PROVE  /\ pool'[q] \in Box /\ box'[pool'[q]].state \in {"up", "gone"} /\ rt'[box'[pool'[q]].of].prov = q
             /\ plock'[q] = None
  <2>1. /\ pool'[q] \in Box /\ box'[pool'[q]].state \in {"up", "gone"} /\ rt[box[pool'[q]].of].prov = q
        /\ plock'[q] = None
    BY <1>2
  <2>2. rt'[box[pool'[q]].of].prov = rt[box[pool'[q]].of].prov
    BY <1>1, <2>1
  <2>3. QED
    BY <2>1, <2>2
<1>3. ASSUME NEW q \in Provider, plock'[q] # None
      PROVE  plock'[q] \in RTask /\ rt'[plock'[q]].pc = "boot" /\ rt'[plock'[q]].prov = q
  <2>1. plock[q] \in RTask /\ rt[plock[q]].pc = "boot" /\ rt[plock[q]].prov = q /\ plock'[q] = plock[q]
    BY <1>3 DEF BoxesOK
  <2>2. QED
    BY <1>3, <2>1 DEF Provisioned
<1>4. \A c \in Box : box'[c].state # "none" =>
        /\ BoxOf(c)' \in RTask /\ rt'[BoxOf(c)'].pc \in Provisioned /\ rt'[BoxOf(c)'].prov \in Provider
        /\ \A d \in Box : box'[d].state # "none" /\ BoxOf(d)' = BoxOf(c)' => c = d
  BY <1>1 DEF BoxOf
<1>5. \A c \in Box : box'[c].state = "boot" => rt'[BoxOf(c)'].pc = "boot" /\ plock'[rt'[BoxOf(c)'].prov] = BoxOf(c)'
  BY <1>1 DEF BoxOf
<1>6. \A c \in Box : box'[c].state = "up" /\ c \notin lost' => pool'[rt'[BoxOf(c)'].prov] = c
  BY <1>1 DEF BoxOf
<1>7. \A q \in Provider : pool'[q] # None => rt'[BoxOf(pool[q])'].prov = q
  BY <1>2 DEF BoxOf
<1>8. QED
  BY <1>2, <1>3, <1>4, <1>5, <1>6, <1>7 DEF BoxesOK

\* A box changes its state, and nothing else.
LEMMA BoxTurns ==
  ASSUME BoxesOK, NEW b \in Box, NEW s \in {"none", "boot", "up", "gone"}, box' = [box EXCEPT ![b].state = s]
  PROVE  /\ box' \in [Box -> [state : {"none", "boot", "up", "gone"}, of : RTask \cup {None}]]
         /\ box'[b].state = s /\ (\A c \in Box : box'[c].of = box[c].of)
         /\ \A c \in Box : c # b => box'[c].state = box[c].state
<1>1. box \in [Box -> [state : {"none", "boot", "up", "gone"}, of : RTask \cup {None}]]
  BY DEF BoxesOK
<1>2. PICK x : x = [box[b] EXCEPT !.state = s]
  OBVIOUS
<1>3. x \in [state : {"none", "boot", "up", "gone"}, of : RTask \cup {None}] /\ x.state = s /\ x.of = box[b].of
  BY <1>1, <1>2
<1>4. box' = [box EXCEPT ![b] = x]
  BY <1>2
<1>5. QED
  BY <1>1, <1>3, <1>4

\* The booting box of a thread holds the provider's lock, and the pool nothing.
LEMMA BootingBox ==
  ASSUME RouterInv, NEW t \in RTask, rt[t].pc = "boot", NEW b \in Box, Booting(t, b)
  PROVE  /\ box[b].state = "boot" /\ box[b].of = t
         /\ rt[t].prov \in Provider /\ plock[rt[t].prov] = t /\ pool[rt[t].prov] = None
         /\ \A c \in Box : box[c].state # "none" /\ box[c].of = t => c = b
         /\ \A c \in Box : box[c].state = "boot" /\ c # b =>
              rt[box[c].of].prov # rt[t].prov /\ box[c].of # t /\ box[c].of \in RTask /\ rt[box[c].of].pc = "boot"
              /\ rt[box[c].of].prov \in Provider /\ plock[rt[box[c].of].prov] = box[c].of
         /\ \A q \in Provider : q # rt[t].prov => plock[q] # t
<1>0. BoxesOK /\ t # None
  BY RouterNames DEF RouterInv
<1>1. box[b].state = "boot" /\ box[b].of = t
  BY DEF Booting
<1>2. /\ rt[t].prov \in Provider /\ plock[rt[t].prov] = t
      /\ \A c \in Box : box[c].state # "none" /\ box[c].of = t => c = b
  BY <1>0, <1>1 DEF BoxesOK, BoxOf
<1>3. pool[rt[t].prov] = None
  BY <1>0, <1>2 DEF BoxesOK
<1>4. ASSUME NEW c \in Box, box[c].state = "boot", c # b
      PROVE  /\ rt[box[c].of].prov # rt[t].prov /\ box[c].of # t /\ box[c].of \in RTask /\ rt[box[c].of].pc = "boot"
             /\ rt[box[c].of].prov \in Provider /\ plock[rt[box[c].of].prov] = box[c].of
  <2>1. /\ box[c].of \in RTask /\ rt[box[c].of].prov \in Provider
        /\ rt[box[c].of].pc = "boot" /\ plock[rt[box[c].of].prov] = box[c].of
    BY <1>0, <1>4 DEF BoxesOK, BoxOf
  <2>2. box[c].of # t
    BY <1>2, <1>4
  <2>3. QED
    BY <1>2, <2>1, <2>2
<1>5. ASSUME NEW q \in Provider, q # rt[t].prov PROVE plock[q] # t
  BY <1>0, <1>5 DEF BoxesOK
<1>6. QED
  BY <1>1, <1>2, <1>3, <1>4, <1>5

\* The node comes up and is pooled.
LEMMA NodeReadyStep == ASSUME RouterInv, NEW t \in RTask, NodeReady(t) PROVE RouterInv'
<1>1. rt[t].pc = "boot" /\ ThreadOK(t, rt[t], ask[t], yes) /\ BoxesOK
  BY DEF NodeReady, At, RouterInv, ThreadsOK
<1>2. PICK p : p = rt[t].prov
  OBVIOUS
<1>3. PICK b \in Box : Booting(t, b) /\ pool' = [pool EXCEPT ![p] = b] /\ box' = [box EXCEPT ![b].state = "up"]
  BY <1>2 DEF NodeReady
<1>4. /\ box[b].state = "boot" /\ box[b].of = t /\ p \in Provider /\ plock[p] = t /\ pool[p] = None
      /\ \A c \in Box : box[c].state # "none" /\ box[c].of = t => c = b
      /\ \A c \in Box : box[c].state = "boot" /\ c # b =>
           rt[box[c].of].prov # p /\ box[c].of # t /\ box[c].of \in RTask /\ rt[box[c].of].pc = "boot"
           /\ rt[box[c].of].prov \in Provider /\ plock[rt[box[c].of].prov] = box[c].of
      /\ \A q \in Provider : q # p => plock[q] # t
  BY <1>1, <1>2, <1>3, BootingBox
<1>5. ASSUME NEW r, Same(rt[t], r), r.pc = "bill" PROVE ThreadOK(t, r, ask[t], yes)
  BY <1>1, <1>5 DEF ThreadOK, Same, PastGate, Renting
<1>6. /\ ThreadsOK' /\ SentOK'
      /\ rt'[t].pc = "bill" /\ rt'[t].prov = p
      /\ \A u \in RTask : u # t => rt'[u] = rt[u]
  BY <1>1, <1>2, <1>5, NodeThread DEF NodeReady, ghosts
<1>7. /\ box' \in [Box -> [state : {"none", "boot", "up", "gone"}, of : RTask \cup {None}]]
      /\ box'[b].state = "up" /\ (\A c \in Box : box'[c].of = box[c].of)
      /\ \A c \in Box : c # b => box'[c].state = box[c].state
  BY <1>1, <1>3, BoxTurns
<1>8. UNCHANGED <<reap, lost, charged, yes>> /\ plock' = [plock EXCEPT ![p] = None]
  BY <1>2 DEF NodeReady, ghosts
<1>9. DOMAIN plock' = Provider /\ plock'[p] = None /\ \A q \in Provider : q # p => plock'[q] = plock[q]
  BY <1>1, <1>4, <1>8 DEF BoxesOK
<1>10. DOMAIN pool' = Provider /\ pool'[p] = b /\ \A q \in Provider : q # p => pool'[q] = pool[q]
  BY <1>1, <1>3, <1>4 DEF BoxesOK
<1>11. \A u \in RTask : rt[u].pc \in Provisioned => rt'[u].pc \in Provisioned /\ rt'[u].prov = rt[u].prov
  BY <1>2, <1>6 DEF Provisioned
<1>12. ASSUME NEW c \in Box, box'[c].state = "boot"
       PROVE  rt'[box[c].of].pc = "boot" /\ plock'[rt[box[c].of].prov] = box[c].of
  <2>1. c # b /\ box[c].state = "boot"
    BY <1>7, <1>12
  <2>2. QED
    BY <1>4, <1>6, <1>9, <2>1
<1>13. ASSUME NEW c \in Box, box'[c].state = "up", c \notin lost PROVE pool'[rt[box[c].of].prov] = c
  <2>1. CASE c = b
    BY <1>2, <1>4, <1>10, <2>1
  <2>2. CASE c # b
    <3>1. box[c].state = "up"
      BY <1>7, <1>13, <2>2
    <3>2. pool[rt[box[c].of].prov] = c /\ rt[box[c].of].prov \in Provider
      BY <1>1, <1>13, <3>1 DEF BoxesOK, BoxOf
    <3>3. c # None
      BY RouterNames
    <3>4. QED
      BY <1>4, <1>10, <3>2, <3>3
  <2>3. QED
    BY <2>1, <2>2
<1>14. ASSUME NEW q \in Provider, pool'[q] # None
       PROVE  pool'[q] \in Box /\ box'[pool'[q]].state \in {"up", "gone"} /\ rt[box[pool'[q]].of].prov = q /\ plock'[q] = None
  <2>1. CASE q = p
    BY <1>2, <1>4, <1>7, <1>9, <1>10, <2>1
  <2>2. CASE q # p
    <3>1. pool'[q] = pool[q] /\ plock'[q] = plock[q]
      BY <1>9, <1>10, <2>2
    <3>2. pool[q] \in Box /\ box[pool[q]].state \in {"up", "gone"} /\ rt[box[pool[q]].of].prov = q /\ plock[q] = None
      BY <1>1, <1>14, <3>1 DEF BoxesOK, BoxOf
    <3>3. pool[q] # b
      BY <1>4, <3>2
    <3>4. QED
      BY <1>7, <3>1, <3>2, <3>3
  <2>3. QED
    BY <2>1, <2>2
<1>15. ASSUME NEW q \in Provider, plock'[q] # None PROVE plock[q] = plock'[q] /\ rt'[plock[q]].pc = "boot"
  <2>1. q # p /\ plock'[q] = plock[q] /\ plock[q] # t
    BY <1>4, <1>9, <1>15
  <2>2. plock[q] \in RTask /\ rt[plock[q]].pc = "boot"
    BY <1>1, <1>15, <2>1 DEF BoxesOK
  <2>3. QED
    BY <1>6, <2>1, <2>2
<1>16. ASSUME NEW q \in Provider, reap'[q] # None PROVE reap'[q] \in Box /\ box'[reap'[q]].state = "gone"
  <2>1. reap'[q] = reap[q] /\ reap[q] \in Box /\ box[reap[q]].state = "gone"
    BY <1>1, <1>8, <1>16 DEF BoxesOK
  <2>2. QED
    BY <1>4, <1>7, <2>1
<1>17. DOMAIN reap' = Provider /\ \A c \in Box : box'[c].state # "none" => box[c].state # "none"
  BY <1>1, <1>4, <1>7, <1>8 DEF BoxesOK
<1>18. BoxesOK'
  BY <1>1, <1>7, <1>8, <1>9, <1>10, <1>11, <1>12, <1>13, <1>14, <1>15, <1>16, <1>17, BoxesMove
<1>19. QED
  BY <1>6, <1>8, <1>18 DEF RouterInv

\* The node never comes up: its box is nobody's, and the lock is free.
LEMMA NeverReadyStep == ASSUME RouterInv, NEW t \in RTask, NodeNeverReady(t) PROVE RouterInv'
<1>1. rt[t].pc = "boot" /\ ThreadOK(t, rt[t], ask[t], yes) /\ BoxesOK
  BY DEF NodeNeverReady, At, RouterInv, ThreadsOK
<1>2. PICK p : p = rt[t].prov
  OBVIOUS
<1>3. PICK b \in Box : Booting(t, b) /\ lost' = lost \cup {b} /\ box' = [box EXCEPT ![b].state = "up"]
  BY DEF NodeNeverReady
<1>4. /\ box[b].state = "boot" /\ box[b].of = t /\ p \in Provider /\ plock[p] = t /\ pool[p] = None
      /\ \A c \in Box : box[c].state # "none" /\ box[c].of = t => c = b
      /\ \A c \in Box : box[c].state = "boot" /\ c # b =>
           rt[box[c].of].prov # p /\ box[c].of # t /\ box[c].of \in RTask /\ rt[box[c].of].pc = "boot"
           /\ rt[box[c].of].prov \in Provider /\ plock[rt[box[c].of].prov] = box[c].of
      /\ \A q \in Provider : q # p => plock[q] # t
  BY <1>1, <1>2, <1>3, BootingBox
<1>5. ASSUME NEW r, Same(rt[t], r), r.pc = "failed" PROVE ThreadOK(t, r, ask[t], yes)
  BY <1>1, <1>5 DEF ThreadOK, Same, PastGate, Renting
<1>6. /\ ThreadsOK' /\ SentOK'
      /\ rt'[t].pc = "failed" /\ rt'[t].prov = p
      /\ \A u \in RTask : u # t => rt'[u] = rt[u]
  BY <1>1, <1>2, <1>5, NodeThread DEF NodeNeverReady, ghosts
<1>7. /\ box' \in [Box -> [state : {"none", "boot", "up", "gone"}, of : RTask \cup {None}]]
      /\ box'[b].state = "up" /\ (\A c \in Box : box'[c].of = box[c].of)
      /\ \A c \in Box : c # b => box'[c].state = box[c].state
  BY <1>1, <1>3, BoxTurns
<1>8. UNCHANGED <<pool, reap, charged, yes>> /\ plock' = [plock EXCEPT ![p] = None]
  BY <1>2 DEF NodeNeverReady, ghosts
<1>9. DOMAIN plock' = Provider /\ plock'[p] = None /\ \A q \in Provider : q # p => plock'[q] = plock[q]
  BY <1>1, <1>4, <1>8 DEF BoxesOK
<1>10. DOMAIN pool' = Provider /\ DOMAIN reap' = Provider
  BY <1>1, <1>8 DEF BoxesOK
<1>11. \A u \in RTask : rt[u].pc \in Provisioned => rt'[u].pc \in Provisioned /\ rt'[u].prov = rt[u].prov
  BY <1>2, <1>6 DEF Provisioned
<1>12. ASSUME NEW c \in Box, box'[c].state = "boot"
       PROVE  rt'[box[c].of].pc = "boot" /\ plock'[rt[box[c].of].prov] = box[c].of
  <2>1. c # b /\ box[c].state = "boot"
    BY <1>7, <1>12
  <2>2. QED
    BY <1>4, <1>6, <1>9, <2>1
<1>13. ASSUME NEW c \in Box, box'[c].state = "up", c \notin lost' PROVE pool'[rt[box[c].of].prov] = c
  <2>1. c # b /\ box[c].state = "up" /\ c \notin lost
    BY <1>3, <1>7, <1>13
  <2>2. QED
    BY <1>1, <1>8, <2>1 DEF BoxesOK, BoxOf
<1>14. ASSUME NEW q \in Provider, pool'[q] # None
       PROVE  pool'[q] \in Box /\ box'[pool'[q]].state \in {"up", "gone"} /\ rt[box[pool'[q]].of].prov = q /\ plock'[q] = None
  <2>1. pool'[q] = pool[q] /\ pool[q] # None
    BY <1>8, <1>14
  <2>2. pool[q] \in Box /\ box[pool[q]].state \in {"up", "gone"} /\ rt[box[pool[q]].of].prov = q /\ plock[q] = None
    BY <1>1, <2>1 DEF BoxesOK, BoxOf
  <2>3. pool[q] # b /\ q # p
    BY <1>4, <2>1, <2>2
  <2>4. QED
    BY <1>7, <1>9, <2>1, <2>2, <2>3
<1>15. ASSUME NEW q \in Provider, plock'[q] # None PROVE plock[q] = plock'[q] /\ rt'[plock[q]].pc = "boot"
  <2>1. q # p /\ plock'[q] = plock[q] /\ plock[q] # t
    BY <1>4, <1>9, <1>15
  <2>2. plock[q] \in RTask /\ rt[plock[q]].pc = "boot"
    BY <1>1, <1>15, <2>1 DEF BoxesOK
  <2>3. QED
    BY <1>6, <2>1, <2>2
<1>16. ASSUME NEW q \in Provider, reap'[q] # None PROVE reap'[q] \in Box /\ box'[reap'[q]].state = "gone"
  <2>1. reap'[q] = reap[q] /\ reap[q] \in Box /\ box[reap[q]].state = "gone"
    BY <1>1, <1>8, <1>16 DEF BoxesOK
  <2>2. QED
    BY <1>4, <1>7, <2>1
<1>17. \A c \in Box : box'[c].state # "none" => box[c].state # "none"
  BY <1>4, <1>7
<1>18. BoxesOK'
  BY <1>1, <1>7, <1>9, <1>10, <1>11, <1>12, <1>13, <1>14, <1>15, <1>16, <1>17, BoxesMove
<1>19. QED
  BY <1>6, <1>8, <1>18 DEF RouterInv

\* A step of the pool that takes no lock: a pooled box may go, and a box that
\* leaves the pool is gone or is lost.
LEMMA PoolStep ==
  ASSUME BoxesOK, UNCHANGED plock, DOMAIN pool' = Provider, DOMAIN reap' = Provider,
         box' \in [Box -> [state : {"none", "boot", "up", "gone"}, of : RTask \cup {None}]],
         \A c \in Box : box'[c].of = box[c].of,
         \A c \in Box : box'[c].state = box[c].state \/ (box[c].state \in {"up", "gone"} /\ box'[c].state = "gone"),
         \A u \in RTask : rt[u].pc \in Provisioned => rt'[u].pc \in Provisioned /\ rt'[u].prov = rt[u].prov,
         \A u \in RTask : rt[u].pc = "boot" => rt'[u].pc = "boot",
         lost \subseteq lost',
         \A q \in Provider : pool'[q] = pool[q] \/ pool'[q] = None,
         \A q \in Provider : pool'[q] # pool[q] => pool[q] \in lost' \/ box'[pool[q]].state = "gone",
         \A q \in Provider : reap'[q] # None =>
           reap'[q] = reap[q] \/ (reap'[q] \in Box /\ box'[reap'[q]].state = "gone")
  PROVE  BoxesOK'
<1>1. ASSUME NEW c \in Box, box'[c].state = "boot"
      PROVE  rt'[box[c].of].pc = "boot" /\ plock'[rt[box[c].of].prov] = box[c].of
  <2>1. box[c].state = "boot"
    BY <1>1
  <2>2. box[c].of \in RTask /\ rt[box[c].of].pc = "boot" /\ plock[rt[box[c].of].prov] = box[c].of
    BY <2>1 DEF BoxesOK, BoxOf
  <2>3. QED
    BY <2>2
<1>2. ASSUME NEW c \in Box, box'[c].state = "up", c \notin lost' PROVE pool'[rt[box[c].of].prov] = c
  <2>1. box[c].state = "up" /\ c \notin lost
    BY <1>2
  <2>2. pool[rt[box[c].of].prov] = c /\ rt[box[c].of].prov \in Provider
    BY <2>1 DEF BoxesOK, BoxOf
  <2>3. QED
    BY <1>2, <2>2
<1>3. ASSUME NEW q \in Provider, pool'[q] # None
      PROVE  pool'[q] \in Box /\ box'[pool'[q]].state \in {"up", "gone"} /\ rt[box[pool'[q]].of].prov = q /\ plock'[q] = None
  <2>1. pool'[q] = pool[q] /\ pool[q] # None
    BY <1>3
  <2>2. pool[q] \in Box /\ box[pool[q]].state \in {"up", "gone"} /\ rt[box[pool[q]].of].prov = q /\ plock[q] = None
    BY <2>1 DEF BoxesOK, BoxOf
  <2>3. QED
    BY <2>1, <2>2
<1>4. ASSUME NEW q \in Provider, plock'[q] # None PROVE plock[q] = plock'[q] /\ rt'[plock[q]].pc = "boot"
  BY <1>4 DEF BoxesOK
<1>5. ASSUME NEW q \in Provider, reap'[q] # None PROVE reap'[q] \in Box /\ box'[reap'[q]].state = "gone"
  <2>1. CASE reap'[q] = reap[q]
    <3>1. reap[q] \in Box /\ box[reap[q]].state = "gone"
      BY <1>5, <2>1 DEF BoxesOK
    <3>2. QED
      BY <2>1, <3>1
  <2>2. QED
    BY <1>5, <2>1
<1>6. DOMAIN plock' = Provider /\ \A c \in Box : box'[c].state # "none" => box[c].state # "none"
  BY DEF BoxesOK
<1>7. QED
  BY <1>1, <1>2, <1>3, <1>4, <1>5, <1>6, BoxesMove

\* A failed node is evicted.
LEMMA EvictStep == ASSUME RouterInv, NEW t \in RTask, EvictNode(t) PROVE RouterInv'
<1>1. rt[t].pc = "serve" /\ ThreadOK(t, rt[t], ask[t], yes) /\ BoxesOK
  BY DEF EvictNode, At, RouterInv, ThreadsOK
<1>2. PICK p : p = rt[t].prov
  OBVIOUS
<1>3. p \in Provider
  BY <1>1, <1>2 DEF ThreadOK, Renting, Cleared, Fits
<1>4. ASSUME NEW r, Same(rt[t], r), r.pc = "failed" PROVE ThreadOK(t, r, ask[t], yes)
  BY <1>1, <1>4 DEF ThreadOK, Same, PastGate, Renting
<1>5. /\ ThreadsOK' /\ SentOK'
      /\ rt'[t].pc = "failed" /\ rt'[t].prov = p
      /\ \A u \in RTask : u # t => rt'[u] = rt[u]
  BY <1>1, <1>2, <1>4, NodeThread DEF EvictNode, ghosts
<1>6. UNCHANGED <<plock, reap, charged, yes>> /\ pool' = [pool EXCEPT ![p] = None]
  BY <1>2 DEF EvictNode, ghosts
<1>7. DOMAIN pool' = Provider /\ pool'[p] = None /\ (\A q \in Provider : q # p => pool'[q] = pool[q]) /\ DOMAIN reap' = Provider
  BY <1>1, <1>3, <1>6 DEF BoxesOK
<1>8. /\ \A u \in RTask : rt[u].pc \in Provisioned => rt'[u].pc \in Provisioned /\ rt'[u].prov = rt[u].prov
      /\ \A u \in RTask : rt[u].pc = "boot" => rt'[u].pc = "boot"
  BY <1>1, <1>2, <1>5 DEF Provisioned
<1>9. CASE pool[p] = None
  <2>1. UNCHANGED <<box, lost>>
    BY <1>2, <1>9 DEF EvictNode
  <2>2. box \in [Box -> [state : {"none", "boot", "up", "gone"}, of : RTask \cup {None}]]
    BY <1>1 DEF BoxesOK
  <2>3. \A q \in Provider : pool'[q] = pool[q]
    BY <1>7, <1>9
  <2>4. BoxesOK'
    BY <1>1, <1>6, <1>7, <1>8, <2>1, <2>2, <2>3, PoolStep
  <2>5. QED
    BY <1>5, <1>6, <2>4 DEF RouterInv
<1>10. CASE pool[p] # None
  <2>1. PICK b : b = pool[p]
    OBVIOUS
  <2>2. b \in Box /\ box[b].state \in {"up", "gone"}
    BY <1>1, <1>3, <1>10, <2>1 DEF BoxesOK
  <2>3. PICK gone \in BOOLEAN : /\ box' = [box EXCEPT ![b].state = IF gone THEN "gone" ELSE @]
                                /\ lost' = IF gone \/ box[b].state = "gone" THEN lost ELSE lost \cup {b}
    BY <1>2, <1>10, <2>1 DEF EvictNode
  <2>4. PICK s : s = IF gone THEN "gone" ELSE box[b].state
    OBVIOUS
  <2>5. box' = [box EXCEPT ![b].state = s] /\ s \in {"up", "gone"} /\ (s = box[b].state \/ s = "gone")
    BY <2>2, <2>3, <2>4
  <2>6. /\ box' \in [Box -> [state : {"none", "boot", "up", "gone"}, of : RTask \cup {None}]]
        /\ box'[b].state = s /\ (\A c \in Box : box'[c].of = box[c].of)
        /\ \A c \in Box : c # b => box'[c].state = box[c].state
    BY <1>1, <2>2, <2>5, BoxTurns
  <2>7. lost \subseteq lost' /\ (b \in lost' \/ box'[b].state = "gone")
    BY <2>3, <2>4, <2>6
  <2>8. \A c \in Box : box'[c].state = box[c].state \/ (box[c].state \in {"up", "gone"} /\ box'[c].state = "gone")
    BY <2>2, <2>5, <2>6
  <2>9. /\ \A q \in Provider : pool'[q] = pool[q] \/ pool'[q] = None
        /\ \A q \in Provider : pool'[q] # pool[q] => pool[q] \in lost' \/ box'[pool[q]].state = "gone"
    BY <1>7, <2>1, <2>7
  <2>10. BoxesOK'
    BY <1>1, <1>6, <1>7, <1>8, <2>6, <2>7, <2>8, <2>9, PoolStep
  <2>11. QED
    BY <1>5, <1>6, <2>10 DEF RouterInv
<1>11. QED
  BY <1>9, <1>10

\* The reaping before a rented dispatch is over, or has raised.
LEMMA ReapInlineStep ==
  ASSUME RouterInv, NEW t \in RTask, NEW p \in Provider, ReapInline(t) \/ ReapRaises(t, p)
  PROVE  RouterInv'
<1>1. rt[t].pc = "reap" /\ ThreadOK(t, rt[t], ask[t], yes) /\ BoxesOK
  BY DEF ReapInline, ReapRaises, At, RouterInv, ThreadsOK
<1>2. CASE ReapInline(t)
  <2>1. Untouched /\ AskKept(t) /\ ask' = ask /\ Goto(t, "acquire")
    BY <1>2 DEF ReapInline, Untouched, AskKept, nodes, ghosts
  <2>2. ASSUME NEW r, Same(rt[t], r), r.pc = "acquire" PROVE ThreadOK(t, r, ask'[t], yes)
    BY <1>1, <2>1, <2>2 DEF ThreadOK, Same, PastGate, Renting
  <2>3. QED
    BY <1>1, <2>1, <2>2, GotoStep DEF Provisioned
<1>3. CASE ReapRaises(t, p)
  <2>1. PICK pc \in {"raised", "failed"} : Goto(t, pc)
    BY <1>3 DEF ReapRaises
  <2>2. ASSUME NEW r, Same(rt[t], r), r.pc = pc PROVE ThreadOK(t, r, ask[t], yes)
    BY <1>1, <2>2 DEF ThreadOK, Same, PastGate, Renting
  <2>3. UNCHANGED <<ask, pool, plock, reap, lost, sent, yes, charged>>
    BY <1>3 DEF ReapRaises, ghosts
  <2>4. /\ ThreadsOK' /\ SentOK'
        /\ rt'[t].pc = pc /\ rt'[t].prov = rt[t].prov
        /\ \A u \in RTask : u # t => rt'[u] = rt[u]
    BY <1>1, <2>1, <2>2, <2>3, NodeThread
  <2>5. /\ \A u \in RTask : rt[u].pc \in Provisioned => rt'[u].pc \in Provisioned /\ rt'[u].prov = rt[u].prov
        /\ \A u \in RTask : rt[u].pc = "boot" => rt'[u].pc = "boot"
    BY <1>1, <2>4 DEF Provisioned
  <2>6. PICK b : b = pool[p]
    OBVIOUS
  <2>7. b \in Box /\ box[b].state \in {"up", "gone"}
    BY <1>1, <1>3, <2>6 DEF BoxesOK, ReapRaises
  <2>8. PICK gone \in BOOLEAN : box' = [box EXCEPT ![b].state = IF gone THEN "gone" ELSE @]
    BY <1>3, <2>6 DEF ReapRaises
  <2>9. PICK s : s = IF gone THEN "gone" ELSE box[b].state
    OBVIOUS
  <2>10. box' = [box EXCEPT ![b].state = s] /\ s \in {"up", "gone"} /\ (s = box[b].state \/ s = "gone")
    BY <2>7, <2>8, <2>9
  <2>11. /\ box' \in [Box -> [state : {"none", "boot", "up", "gone"}, of : RTask \cup {None}]]
         /\ box'[b].state = s /\ (\A c \in Box : box'[c].of = box[c].of)
         /\ \A c \in Box : c # b => box'[c].state = box[c].state
    BY <1>1, <2>7, <2>10, BoxTurns
  <2>12. \A c \in Box : box'[c].state = box[c].state \/ (box[c].state \in {"up", "gone"} /\ box'[c].state = "gone")
    BY <2>7, <2>10, <2>11
  <2>13. DOMAIN pool' = Provider /\ DOMAIN reap' = Provider
    BY <1>1, <2>3 DEF BoxesOK
  <2>14. BoxesOK'
    BY <1>1, <2>3, <2>5, <2>11, <2>12, <2>13, PoolStep
  <2>15. QED
    BY <2>3, <2>4, <2>14 DEF RouterInv
<1>4. QED
  BY <1>2, <1>3

\* The reaper terminates a box, and later drops what the pool then holds.
LEMMA ReaperStep == ASSUME RouterInv, NEW p \in Provider, ReapTerminate(p) \/ ReapPop(p) PROVE RouterInv'
<1>1. BoxesOK /\ UNCHANGED <<rt, ask, plock, sent, yes, charged>>
  BY DEF ReapTerminate, ReapPop, RouterInv, ghosts
<1>2. ThreadsOK' /\ SentOK' /\ charged' \subseteq yes'
  BY <1>1 DEF RouterInv, ThreadsOK, SentOK
<1>3. CASE ReapTerminate(p)
  <2>1. PICK b : b = pool[p]
    OBVIOUS
  <2>2. b \in Box /\ box[b].state \in {"up", "gone"}
    BY <1>1, <1>3, <2>1 DEF BoxesOK, ReapTerminate
  <2>3. UNCHANGED <<pool, lost>> /\ box' = [box EXCEPT ![b].state = "gone"] /\ reap' = [reap EXCEPT ![p] = b]
    BY <1>3, <2>1 DEF ReapTerminate
  <2>4. /\ box' \in [Box -> [state : {"none", "boot", "up", "gone"}, of : RTask \cup {None}]]
        /\ box'[b].state = "gone" /\ (\A c \in Box : box'[c].of = box[c].of)
        /\ \A c \in Box : c # b => box'[c].state = box[c].state
    BY <1>1, <2>2, <2>3, BoxTurns
  <2>5. /\ DOMAIN pool' = Provider /\ DOMAIN reap' = Provider /\ reap'[p] = b
        /\ \A q \in Provider : q # p => reap'[q] = reap[q]
    BY <1>1, <2>3 DEF BoxesOK
  <2>6. \A c \in Box : box'[c].state = box[c].state \/ (box[c].state \in {"up", "gone"} /\ box'[c].state = "gone")
    BY <2>2, <2>4
  <2>7. \A q \in Provider : reap'[q] # None =>
          reap'[q] = reap[q] \/ (reap'[q] \in Box /\ box'[reap'[q]].state = "gone")
    BY <2>2, <2>4, <2>5
  <2>8. BoxesOK'
    BY <1>1, <2>3, <2>4, <2>5, <2>6, <2>7, PoolStep
  <2>9. QED
    BY <1>2, <2>8 DEF RouterInv
<1>4. CASE ReapPop(p)
  <2>1. /\ reap[p] \in Box /\ box[reap[p]].state = "gone"
        /\ box \in [Box -> [state : {"none", "boot", "up", "gone"}, of : RTask \cup {None}]]
    BY <1>1, <1>4 DEF BoxesOK, ReapPop
  <2>2. /\ UNCHANGED box /\ pool' = [pool EXCEPT ![p] = None] /\ reap' = [reap EXCEPT ![p] = None]
        /\ lost' = IF pool[p] \notin {None, reap[p]} THEN lost \cup {pool[p]} ELSE lost
    BY <1>4 DEF ReapPop
  <2>3. /\ DOMAIN pool' = Provider /\ DOMAIN reap' = Provider /\ reap'[p] = None /\ pool'[p] = None
        /\ \A q \in Provider : q # p => reap'[q] = reap[q] /\ pool'[q] = pool[q]
    BY <1>1, <2>2 DEF BoxesOK
  <2>4. pool'[p] # pool[p] => pool[p] \in lost' \/ box'[pool[p]].state = "gone"
    BY <2>1, <2>2, <2>3
  <2>5. lost \subseteq lost'
    BY <2>2
  <2>6. BoxesOK'
    BY <1>1, <2>1, <2>2, <2>3, <2>4, <2>5, PoolStep
  <2>7. QED
    BY <1>2, <2>6 DEF RouterInv
<1>5. QED
  BY <1>3, <1>4

\* Steps that touch nothing the invariant is about.
LEMMA IdleStep ==
  ASSUME RouterInv, UNCHANGED <<rt, ask, pool, plock, box, reap, lost, sent, yes, charged>>
  PROVE  RouterInv'
<1>1. ThreadsOK' /\ SentOK' /\ charged' \subseteq yes'
  BY DEF RouterInv, ThreadsOK, SentOK
<1>2. BoxesOK'
  BY DEF RouterInv, BoxesOK, BoxOf
<1>3. QED
  BY <1>1, <1>2 DEF RouterInv

\* No task has been submitted.
LEMMA RouterInitially == RouterInit => RouterInv
<1> SUFFICES ASSUME RouterInit PROVE RouterInv
  OBVIOUS
<1>1. PICK i : i = Idle
  OBVIOUS
<1>2. DOMAIN i = RowFields /\ i.pc = "idle"
  BY <1>1 DEF Idle, RowFields
<1>3. PICK a : a = NoAsk
  OBVIOUS
<1>4. DOMAIN a = {"kind", "answer"} /\ a.kind = "none"
  BY <1>3, NoAskRow
<1>5. \A t \in RTask : ThreadOK(t, i, a, yes)
  BY <1>2, <1>4 DEF ThreadOK, PastGate, Renting
<1>6. ThreadsOK
  BY <1>1, <1>3, <1>5 DEF RouterInit, ThreadsOK
<1>7. SentOK /\ charged \subseteq yes
  BY DEF RouterInit, SentOK
<1>8. BoxesOK
  <2>1. PICK x : x = [state |-> "none", of |-> None]
    OBVIOUS
  <2>2. x \in [state : {"none", "boot", "up", "gone"}, of : RTask \cup {None}] /\ x.state = "none"
    BY <2>1
  <2>3. box = [b \in Box |-> x]
    BY <2>1 DEF RouterInit
  <2>4. \A p \in Provider : pool[p] = None /\ plock[p] = None /\ reap[p] = None
    BY DEF RouterInit
  <2>5. DOMAIN pool = Provider /\ DOMAIN plock = Provider /\ DOMAIN reap = Provider
    BY DEF RouterInit
  <2>6. QED
    BY <2>2, <2>3, <2>4, <2>5 DEF BoxesOK
<1>9. QED
  BY <1>6, <1>7, <1>8 DEF RouterInv

\* Every step of the thread of a task keeps the invariant.
LEMMA PipelineStep == ASSUME RouterInv, NEW t \in RTask, Pipeline(t) PROVE RouterInv'
<1>1. CASE ClassifyTask(t) \/ CheckPrivacy(t) \/ GateRejects(t) \/ (\E w \in RemoteWorker : SelectRemoteWorker(t, w))
           \/ (\E st \in Statuses : FetchStatus(t, st))
  BY <1>1, ClassifyStep, CheckPrivacyStep, GateRejectsStep, SelectRemoteStep, FetchStatusStep
<1>2. CASE Route(t) \/ AfterRoute(t) \/ Answered(t) \/ WaitTimesOut(t) \/ GiveUp(t)
  BY <1>2, RouteStep, AfterRouteStep, AnsweredStep, WaitTimesOutStep, GiveUpStep
<1>3. CASE CheckQuota(t) \/ InsertReservation(t) \/ Walk(t) \/ RunRemote(t) \/ CallGateway(t)
  BY <1>3, CheckQuotaStep, InsertStep, WalkStep, RunRemoteStep, CallGatewayStep
<1>4. CASE AcquireReuse(t) \/ AcquireProvision(t) \/ NodeReady(t) \/ NodeNeverReady(t)
  BY <1>4, AcquireReuseStep, ProvisionStep, NodeReadyStep, NeverReadyStep
<1>5. CASE BillWindow(t) \/ ClientFails(t) \/ ServeRented(t) \/ EvictNode(t)
  BY <1>5, BillWindowStep, ClientFailsStep, ServeRentedStep, EvictStep
<1>6. CASE ReconcileOk(t) \/ ReconcileFailed(t) \/ Finish(t)
  BY <1>6, ReconcileOkStep, ReconcileFailedStep, FinishStep
<1>7. CASE \E p \in Provider : ReapRaises(t, p)
  BY <1>7, ReapInlineStep
<1>8. CASE ReapInline(t)
  <2>1. rt[t].prov \in Provider
    BY <1>8 DEF ReapInline, At, RouterInv, ThreadsOK, ThreadOK, Renting, Cleared, Fits
  <2>2. QED
    BY <1>8, <2>1, ReapInlineStep
<1>9. QED
  BY <1>1, <1>2, <1>3, <1>4, <1>5, <1>6, <1>7, <1>8 DEF Pipeline

\* So does everybody else: humans, cancels, delegates, expiries and the reaper.
LEMMA EnvStep == ASSUME RouterInv, RouterEnv PROVE RouterInv'
<1>1. CASE \E t \in RTask : \E sub \in Submissions[t] : Submit(t, sub)
  BY <1>1, SubmitStep
<1>2. CASE \E t \in RTask : CancelTask(t) \/ \E a \in {"yes", "no"} : Resolve(t, a)
  BY <1>2, CancelStep, ResolveStep
<1>3. CASE \E t \in RTask, c \in PrivacyClass : DelegateChild(t, c)
  BY <1>3, DelegateStep
<1>4. CASE (\E r \in reserved : ExpireReservation(r)) \/ SetBudget
  BY <1>4, IdleStep DEF ExpireReservation, SetBudget, nodes, ghosts
<1>5. CASE \E p \in Provider : ReapTerminate(p) \/ ReapPop(p)
  BY <1>5, ReaperStep
<1>6. QED
  BY <1>1, <1>2, <1>3, <1>4, <1>5 DEF RouterEnv

\* The invariant of the router holds throughout.
LEMMA RouterInductive == RouterSpec => []RouterInv
<1>1. RouterInv /\ [RouterNext]_routerVars => RouterInv'
  <2>1. ASSUME RouterInv, RouterNext PROVE RouterInv'
    BY <2>1, PipelineStep, EnvStep DEF RouterNext
  <2>2. ASSUME RouterInv, UNCHANGED routerVars PROVE RouterInv'
    BY <2>2, IdleStep DEF routerVars, nodes, ghosts
  <2>3. QED
    BY <2>1, <2>2
<1>2. QED
  BY <1>1, RouterInitially, PTL DEF RouterSpec

\* For every catalogue of providers, every submission and either setting of the guard,
\* nothing leaves for a model that the class of the task and its consents do not admit.
THEOREM BoundaryHolds == RouterSpec => []PrivacyBoundary
<1>1. RouterInv => PrivacyBoundary
  BY DEF RouterInv, SentOK, Bounded, Vetted, PrivacyBoundary
<1>2. QED
  BY <1>1, RouterInductive, PTL

\* No vendor bills for a task that no human approved, whatever times out, is
\* answered late, is cancelled or is approved for another task.
THEOREM ChargesAreConfirmed == RouterSpec => []SpendConfirmed
<1>1. RouterInv => SpendConfirmed
  BY DEF RouterInv, SpendConfirmed
<1>2. QED
  BY <1>1, RouterInductive, PTL

\* However many tasks acquire, evict and reap at once, a provider has at most
\* one box that the pool tracks.
THEOREM BoxesStaySingle == RouterSpec => []OneBox
<1>1. ASSUME RouterInv PROVE OneBox
  <2>0. BoxesOK
    BY <1>1 DEF RouterInv
  <2>1. ASSUME NEW b \in Box, NEW c \in Box, b # c,
               box[b].state \in {"boot", "up"}, b \notin lost, box[c].state \in {"boot", "up"}, c \notin lost,
               rt[box[b].of].prov = rt[box[c].of].prov
        PROVE  FALSE
    <3>1. /\ box[b].of \in RTask /\ box[c].of \in RTask /\ box[b].of # box[c].of
          /\ rt[box[b].of].prov \in Provider /\ box[b].of # None /\ box[c].of # None /\ b # None /\ c # None
      BY <2>0, <2>1, RouterNames DEF BoxesOK, BoxOf
    <3>2. CASE box[b].state = "boot" /\ box[c].state = "boot"
      BY <2>0, <2>1, <3>1, <3>2 DEF BoxesOK, BoxOf
    <3>3. CASE box[b].state = "up" /\ box[c].state = "up"
      BY <2>0, <2>1, <3>1, <3>3 DEF BoxesOK, BoxOf
    <3>4. CASE box[b].state = "boot" /\ box[c].state = "up"
      BY <2>0, <2>1, <3>1, <3>4 DEF BoxesOK, BoxOf
    <3>5. CASE box[b].state = "up" /\ box[c].state = "boot"
      BY <2>0, <2>1, <3>1, <3>5 DEF BoxesOK, BoxOf
    <3>6. QED
      BY <2>1, <3>2, <3>3, <3>4, <3>5
  <2>2. QED
    BY <2>1 DEF OneBox
<1>2. QED
  BY <1>1, RouterInductive, PTL
=============================================================================
