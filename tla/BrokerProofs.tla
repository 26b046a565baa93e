---------------------------- MODULE BrokerProofs ----------------------------
(***************************************************************************)
(* What BrokerProcs promises of a queue that several broker processes      *)
(* serve, proved for any number of tickets, tasks, workers and brokers.    *)
(*                                                                         *)
(* RowMove lists what any step of any broker may do to one row: it says    *)
(* that the guards in the WHERE clauses, tested at the write, are enough   *)
(* whatever has happened since the read.  The rest of the invariant is     *)
(* what makes them enough: a claimed row carries the token that was minted *)
(* last (LeaseHeld), edges lie between added tickets (EdgesHeld), and a    *)
(* write that a broker still owes is true of the rows (OwedTrue).          *)
(*                                                                         *)
(* The last part is about the workers at the other end of the wire         *)
(* (PullWorker).                                                           *)
(***************************************************************************)
EXTENDS BrokerProcs, TicketsProofs, PullWorker, SequenceTheorems

ClaimOp == [kind : {"claim"}, ticket : Ticket, worker : Worker, tier : Tier]
ReportOp == [kind : {"report"}, ticket : Ticket, worker : Worker, tier : Tier,
             token : Nat, ok : BOOLEAN, attempts : Nat]
ReviewOp == [kind : {"approve", "reject"}, ticket : Ticket, attempts : Nat]
CancelOp == [kind : {"cancel"}, task : Task]
CancellingOp == [kind : {"cancelling"}, hit : SUBSET Ticket]

OpOK(o) ==
  \/ o = NoOp \/ o \in ClaimOp \/ o \in ReportOp \/ o \in ReviewOp
  \/ o \in CancelOp \/ o \in CancellingOp

Owed == [op : {"mirror", "cascade", "parked", "sweep", "remirror"}, ticket : Ticket,
         state : TaskState, front : SUBSET Ticket]

Score == [reports : Nat, reviews : Nat]

RowsOK ==
  /\ row \in [Ticket -> Row] /\ deps \in [Ticket -> SUBSET Ticket]
  /\ task \in [Task -> TaskState] /\ minted \in [Ticket -> Nat]
  /\ granted \subseteq Worker \X Ticket \X Nat
CountsOK ==
  /\ artifacts \subseteq Broker \X Ticket \X Nat
  /\ scores \in [Ticket -> Score] /\ rounds \in [Ticket -> Nat]
CallsOK ==
  /\ DOMAIN op = Broker /\ \A b \in Broker : OpOK(op[b])
  /\ todo \in [Broker -> Seq(Owed)]

BrokerTypeOK == RowsOK /\ CountsOK /\ CallsOK

LeaseHeld == \A t \in Ticket : row[t].status = "claimed" => row[t].lease.token = minted[t]

EdgesHeld == \A c \in Ticket : \A p \in deps[c] : Added(row[c]) /\ Added(row[p])

\* A write that is owed is true of the rows.
WriteTrue(x, rows) ==
  /\ x.op = "mirror" => /\ x.state = "FAILED" => Dead(rows[x.ticket])
                        /\ x.state = "COMPLETE" => rows[x.ticket].status = "done"
  /\ x.op = "parked" => \A t \in x.front : Dead(rows[t])

OwedTrue == \A b \in Broker : \A i \in DOMAIN todo[b] : WriteTrue(todo[b][i], row)

BrokerInv ==
  /\ BrokerTypeOK /\ LeaseHeld /\ EdgesHeld /\ OwedTrue
  /\ ResultOfLatestLease /\ NoOrphanArtifact /\ OneVerdictPerRound
  /\ Acyclic /\ DependencyGate /\ MirrorTruthful

----------------------------------------------------------------------------
(* What a step may do to one row, whichever broker takes it.               *)

SameCounts(t) ==
  minted'[t] = minted[t] /\ scores'[t].reviews = scores[t].reviews /\ rounds'[t] = rounds[t]

Born(t) ==
  /\ row[t].status = "absent" /\ row'[t].status \in {"open", "parked"}
  /\ SameCounts(t)

Taken(t) ==
  /\ row[t].status = "open" /\ row'[t].status = "claimed"
  /\ row'[t].lease.token = minted'[t]
  /\ scores'[t].reviews = scores[t].reviews /\ rounds'[t] = rounds[t]
  /\ \A p \in deps[t] : row[p].status = "done"

Carried(t) ==
  /\ row[t].status = "claimed" /\ row'[t].status = "claimed"
  /\ row'[t].lease.token = row[t].lease.token /\ SameCounts(t)

\* A result is taken for the lease that is in the row.
Reported(t) ==
  /\ row[t].status = "claimed" /\ row'[t].ref = row[t].lease.token /\ minted'[t] = minted[t]
  /\ scores'[t].reviews = scores[t].reviews
  /\ \/ row'[t].status = "in_review" /\ rounds'[t] = rounds[t] + 1
     \/ row'[t].status = "done" /\ rounds'[t] = rounds[t]

Judged(t) ==
  /\ row[t].status = "in_review" /\ row'[t].status \in {"done", "open", "failed"}
  /\ row'[t].ref = row[t].ref /\ minted'[t] = minted[t]
  /\ scores'[t].reviews = scores[t].reviews + 1 /\ rounds'[t] = rounds[t]

Returned(t) == row[t].status = "claimed" /\ row'[t].status = "open" /\ SameCounts(t)

Buried(t) == Live(row[t]) /\ Dead(row'[t]) /\ SameCounts(t)

Kept(t) == row'[t] = row[t] /\ SameCounts(t)

RowMove(t) ==
  Kept(t) \/ Born(t) \/ Taken(t) \/ Carried(t) \/ Reported(t) \/ Judged(t) \/ Returned(t) \/ Buried(t)

\* The rows that the writes of workqueue.py leave, by their fields.
LEMMA RowFields ==
  ASSUME NEW r \in Row
  PROVE  /\ ApprovedRow(r).status = "done" /\ ApprovedRow(r).ref = r.ref
         /\ \A n \in Nat : RejectedRow(r, n).status \in {"open", "failed"} /\ RejectedRow(r, n).ref = r.ref
         /\ ReapedRow(r).status = "open" \/ Dead(ReapedRow(r))
         /\ r.attempts >= MaxAttempts => Dead(ReapedRow(r))
         /\ r.status = "claimed" =>
              TickedRow(r).status = "claimed" /\ TickedRow(r).lease.token = r.lease.token
         /\ r.status # "claimed" => TickedRow(r) = r
<1>0. r.attempts \in Nat /\ MaxAttempts \in Nat
  BY BoundTypes DEF Row
<1>1. ApprovedRow(r).status = "done" /\ ApprovedRow(r).ref = r.ref
  BY DEF ApprovedRow, Row
<1>2. NoLease(r) \in Row /\ NoLease(r).ref = r.ref
  BY RowTypes DEF NoLease, Row
<1>3. \A n \in Nat : RejectedRow(r, n).status \in {"open", "failed"} /\ RejectedRow(r, n).ref = r.ref
  BY <1>2 DEF RejectedRow, Row
<1>4. /\ ReapedRow(r).status = "open" \/ Dead(ReapedRow(r))
      /\ r.attempts >= MaxAttempts => Dead(ReapedRow(r))
  BY <1>0, <1>2 DEF ReapedRow, Row, Dead
<1>5. r.status = "claimed" =>
        TickedRow(r).status = "claimed" /\ TickedRow(r).lease.token = r.lease.token
  BY DEF TickedRow, Row, Lease
<1>6. r.status # "claimed" => TickedRow(r) = r
  BY DEF TickedRow
<1>7. QED
  BY <1>1, <1>3, <1>4, <1>5, <1>6

\* The row that report leaves, by its fields.
LEMMA ReportedFields ==
  ASSUME NEW r \in Row, NEW n \in Nat, NEW tier \in Tier, NEW k \in Nat, NEW ok \in BOOLEAN
  PROVE  /\ ReportedRow(r, n, tier, k, ok).ref = k
         /\ ReportedRow(r, n, tier, k, ok).status \in {"open", "failed", "done", "in_review"}
<1>1. NoLease(r) \in Row
  BY RowTypes
<1>2. CASE ok
  BY <1>2 DEF ReportedRow, Row
<1>3. CASE ~ok
  BY <1>1, <1>3 DEF ReportedRow, Row
<1>4. QED
  BY <1>2, <1>3

\* The row that a claim leaves, by its fields.
LEMMA ClaimedFields ==
  ASSUME NEW r \in Row, NEW w, NEW tier, NEW n
  PROVE  /\ ClaimedRow(r, w, tier, n).status = "claimed"
         /\ ClaimedRow(r, w, tier, n).lease.token = n
BY DEF ClaimedRow, Row

\* What a call has read says what kind of call it is.
LEMMA OpKinds ==
  ASSUME NEW o, OpOK(o)
  PROVE  /\ o.kind = "claim" => o \in ClaimOp
         /\ o.kind = "report" => o \in ReportOp
         /\ o.kind \in {"approve", "reject"} => o \in ReviewOp
         /\ o.kind = "cancel" => o \in CancelOp
         /\ o.kind = "cancelling" => o \in CancellingOp
BY DEF OpOK, NoOp, ClaimOp, ReportOp, ReviewOp, CancelOp, CancellingOp

\* A step that changes no row and no count of a ticket.
LEMMA AllKept ==
  ASSUME UNCHANGED <<row, minted, scores, rounds>>, NEW t
  PROVE  RowMove(t)
BY DEF RowMove, Kept, SameCounts

\* The writes that change rows: add, the guarded UPDATEs of claim, report,
\* approve, reject and cancel, the reaper, a cascade and the clock.
LEMMA AddMoves ==
  ASSUME BrokerTypeOK, NEW b \in Broker, NEW u \in Ticket, NEW parents \in SUBSET Ticket,
         Add(b, u, parents), NEW t \in Ticket
  PROVE  RowMove(t)
<1>1. /\ row' = [row EXCEPT ![u] = NewRow(u)] /\ row[u].status = "absent"
      /\ UNCHANGED <<minted, scores, rounds>>
  BY DEF Add, Added
<1>2. NewRow(u).status \in {"open", "parked"}
  BY DEF NewRow, AbsentRow
<1>3. QED
  BY <1>1, <1>2 DEF BrokerTypeOK, RowsOK, RowMove, Kept, Born, SameCounts

\* The guarded UPDATE of a claim takes an open row whose parents are done.
LEMMA ClaimMoves ==
  ASSUME BrokerTypeOK, NEW b \in Broker, WriteClaim(b), NEW t \in Ticket
  PROVE  RowMove(t)
<1>1. PICK o \in ClaimOp : o = op[b]
  BY OpKinds DEF WriteClaim, BrokerTypeOK, CallsOK
<1>2. PICK u \in Ticket : u = o.ticket
  BY DEF ClaimOp
<1>3. UNCHANGED <<scores, rounds>>
  BY DEF WriteClaim
<1>4. CASE UNCHANGED <<minted, row, granted>>
  BY <1>3, <1>4, AllKept
<1>5. CASE ~UNCHANGED <<minted, row, granted>>
  <2>1. PICK n : n = minted[u] + 1
    OBVIOUS
  <2>2. /\ row[u].status = "open" /\ \A p \in deps[u] : row[p].status = "done"
        /\ minted' = [minted EXCEPT ![u] = n]
        /\ row' = [row EXCEPT ![u] = ClaimedRow(row[u], o.worker, o.tier, n)]
    BY <1>1, <1>2, <1>5, <2>1 DEF WriteClaim
  <2>3. PICK new : new = ClaimedRow(row[u], o.worker, o.tier, n)
    OBVIOUS
  <2>4. new.status = "claimed" /\ new.lease.token = n
    BY <2>3, ClaimedFields DEF BrokerTypeOK, RowsOK
  <2>5. row' = [row EXCEPT ![u] = new]
    BY <2>2, <2>3
  <2>6. CASE t = u
    BY <1>3, <2>2, <2>4, <2>5, <2>6 DEF BrokerTypeOK, RowsOK, RowMove, Taken
  <2>7. CASE t # u
    BY <1>3, <2>2, <2>5, <2>7 DEF BrokerTypeOK, RowsOK, RowMove, Kept, SameCounts
  <2>8. QED
    BY <2>6, <2>7
<1>6. QED
  BY <1>4, <1>5

\* A report that wins its fence moves the row of the lease it carries.
LEMMA ReportMoves ==
  ASSUME BrokerTypeOK, NEW b \in Broker, WriteReport(b), NEW t \in Ticket
  PROVE  RowMove(t)
<1>1. PICK o \in ReportOp : o = op[b]
  BY OpKinds DEF WriteReport, BrokerTypeOK, CallsOK
<1>2. PICK u \in Ticket : u = o.ticket
  BY DEF ReportOp
<1>3. minted' = minted
  BY DEF WriteReport
<1>4. PICK new : new = ReportedRow(row[u], o.attempts, o.tier, o.token, o.ok)
  OBVIOUS
<1>5. CASE ReportFence(b)
  <2>1. /\ row' = [row EXCEPT ![u] = new]
        /\ scores' = [scores EXCEPT ![u].reports = @ + 1]
        /\ rounds' = [rounds EXCEPT ![u] = IF new.status = "in_review" THEN rounds[u] + 1 ELSE rounds[u]]
    BY <1>1, <1>2, <1>4, <1>5 DEF WriteReport
  <2>2. row[u].status = "claimed" /\ row[u].lease.token = o.token
    BY <1>1, <1>2, <1>5 DEF ReportFence
  <2>3. new.ref = o.token /\ new.status \in {"open", "failed", "done", "in_review"}
    BY <1>1, <1>4, ReportedFields DEF BrokerTypeOK, RowsOK, ReportOp
  <2>4. \A v \in Ticket : scores'[v].reviews = scores[v].reviews
    BY <2>1 DEF BrokerTypeOK, CountsOK, Score
  <2>5. CASE t # u
    BY <1>3, <2>1, <2>4, <2>5 DEF BrokerTypeOK, RowsOK, CountsOK, RowMove, Kept, SameCounts
  <2>6. CASE t = u
    <3>1. /\ row'[t] = new /\ row[t].status = "claimed"
          /\ rounds'[t] = IF new.status = "in_review" THEN rounds[t] + 1 ELSE rounds[t]
      BY <2>1, <2>2, <2>6 DEF BrokerTypeOK, RowsOK, CountsOK
    <3>2. CASE new.status \in {"done", "in_review"}
      BY <1>3, <2>2, <2>3, <2>4, <2>6, <3>1, <3>2 DEF RowMove, Reported
    <3>3. CASE new.status = "open"
      BY <1>3, <2>4, <3>1, <3>3 DEF RowMove, Returned, SameCounts
    <3>4. CASE new.status = "failed"
      BY <1>3, <2>4, <3>1, <3>4 DEF RowMove, Buried, SameCounts, Live, Added, Dead, TerminalStatus
    <3>5. QED
      BY <2>3, <3>2, <3>3, <3>4
  <2>7. QED
    BY <2>5, <2>6
<1>6. CASE ~ReportFence(b)
  <2>1. UNCHANGED <<row, scores, rounds>>
    BY <1>6 DEF WriteReport
  <2>2. QED
    BY <1>3, <2>1, AllKept
<1>7. QED
  BY <1>5, <1>6

\* A review that wins its compare-and-set moves a row under review.
LEMMA ReviewMoves ==
  ASSUME BrokerTypeOK, NEW b \in Broker, WriteReview(b), NEW t \in Ticket
  PROVE  RowMove(t)
<1>1. PICK o \in ReviewOp : o = op[b]
  BY OpKinds DEF WriteReview, BrokerTypeOK, CallsOK
<1>2. PICK u \in Ticket : u = o.ticket
  BY DEF ReviewOp
<1>3. minted' = minted /\ rounds' = rounds
  BY DEF WriteReview
<1>4. PICK new : new = IF o.kind = "approve" THEN ApprovedRow(row[u]) ELSE RejectedRow(row[u], o.attempts)
  OBVIOUS
<1>5. CASE ReviewCAS(u)
  <2>1. row' = [row EXCEPT ![u] = new] /\ scores' = [scores EXCEPT ![u].reviews = @ + 1]
    BY <1>1, <1>2, <1>4, <1>5 DEF WriteReview
  <2>2. row[u].status = "in_review" /\ new.status \in {"done", "open", "failed"} /\ new.ref = row[u].ref
    BY <1>4, <1>5, RowFields DEF ReviewCAS, BrokerTypeOK, RowsOK, ReviewOp
  <2>3. scores'[u].reviews = scores[u].reviews + 1 /\ \A v \in Ticket \ {u} : scores'[v] = scores[v]
    BY <2>1 DEF BrokerTypeOK, CountsOK, Score
  <2>4. CASE t = u
    BY <1>3, <2>1, <2>2, <2>3, <2>4 DEF BrokerTypeOK, RowsOK, RowMove, Judged
  <2>5. CASE t # u
    BY <1>3, <2>1, <2>3, <2>5 DEF BrokerTypeOK, RowsOK, RowMove, Kept, SameCounts
  <2>6. QED
    BY <2>4, <2>5
<1>6. CASE ~ReviewCAS(u)
  <2>1. UNCHANGED <<row, scores>>
    BY <1>1, <1>2, <1>6 DEF WriteReview
  <2>2. QED
    BY <1>3, <2>1, AllKept
<1>7. QED
  BY <1>5, <1>6

\* Cancel, the reaper, a cascade and the clock: rows are buried, returned
\* or carried.
LEMMA OtherMoves ==
  ASSUME BrokerTypeOK, NEW t \in Ticket,
         \/ \E b \in Broker : WriteCancel(b) \/ Reap(b)
         \/ \E b \in Broker, c \in Ticket : CascadeStep(b, c)
         \/ Tick
  PROVE  RowMove(t)
<1>0. row[t] \in Row
  BY DEF BrokerTypeOK, RowsOK
<1>1. UNCHANGED <<minted, scores, rounds>>
  BY DEF WriteCancel, Reap, CascadeStep, Tick
<1>2. row'[t] = row[t] \/ (Live(row[t]) /\ row'[t] \in {CancelledRow(row[t]), CascadedRow(row[t])})
      \/ (Expired(row[t]) /\ row'[t] = ReapedRow(row[t])) \/ row'[t] = TickedRow(row[t])
  <2>1. ASSUME NEW b \in Broker, WriteCancel(b) PROVE <1>2
    BY <2>1 DEF WriteCancel
  <2>2. ASSUME NEW b \in Broker, Reap(b) PROVE <1>2
    BY <2>2 DEF Reap
  <2>3. ASSUME NEW b \in Broker, NEW c \in Ticket, CascadeStep(b, c) PROVE <1>2
    BY <2>3 DEF CascadeStep, BrokerTypeOK, RowsOK
  <2>4. CASE Tick
    BY <2>4 DEF Tick
  <2>5. QED
    BY <2>1, <2>2, <2>3, <2>4
<1>3. CASE row'[t] = row[t]
  BY <1>1, <1>3 DEF RowMove, Kept, SameCounts
<1>4. CASE Live(row[t]) /\ row'[t] \in {CancelledRow(row[t]), CascadedRow(row[t])}
  BY <1>0, <1>1, <1>4, DeadRows DEF RowMove, Buried, SameCounts
<1>5. CASE Expired(row[t]) /\ row'[t] = ReapedRow(row[t])
  <2>1. row[t].status = "claimed" /\ Live(row[t])
    BY <1>5 DEF Expired, Live, Added, TerminalStatus
  <2>2. row'[t].status = "open" \/ Dead(row'[t])
    BY <1>0, <1>5, RowFields
  <2>3. QED
    BY <1>1, <2>1, <2>2 DEF RowMove, Buried, Returned, SameCounts
<1>6. CASE row'[t] = TickedRow(row[t])
  <2>1. row'[t] = row[t] \/ (row[t].status = "claimed" /\ row'[t].status = "claimed"
                             /\ row'[t].lease.token = row[t].lease.token)
    BY <1>0, <1>6, RowFields
  <2>2. QED
    BY <1>1, <2>1 DEF RowMove, Kept, Carried, SameCounts
<1>7. QED
  BY <1>2, <1>3, <1>4, <1>5, <1>6

\* Whatever the step, a row makes one of those moves.
LEMMA RowMoves ==
  ASSUME BrokerTypeOK, [Next]_vars, NEW t \in Ticket
  PROVE  RowMove(t)
<1>1. ASSUME NEW b \in Broker, Reads(b) PROVE RowMove(t)
  <2>1. CASE \E u \in Ticket, parents \in SUBSET Ticket : Add(b, u, parents)
    BY <2>1, AddMoves
  <2>2. CASE Reap(b)
    BY <2>2, OtherMoves
  <2>3. CASE ~(\E u \in Ticket, parents \in SUBSET Ticket : Add(b, u, parents)) /\ ~Reap(b)
    <3>1. UNCHANGED <<row, minted, scores, rounds>>
      <4>1. CASE \E w \in Worker, tier \in Tier, u \in Ticket : ReadClaim(b, w, tier, u)
        BY <4>1 DEF ReadClaim
      <4>2. CASE \E g \in granted, tier \in Tier, ok \in BOOLEAN : ReadReport(b, g[1], tier, g[2], g[3], ok)
        BY <4>2 DEF ReadReport
      <4>3. CASE \E u \in Ticket, verdict \in {"approve", "reject"} : ReadReview(b, u, verdict)
        BY <4>3 DEF ReadReview
      <4>4. CASE \E u \in Ticket : ReadSettled(b, u)
        BY <4>4 DEF ReadSettled
      <4>5. CASE \E c, p \in Ticket : Link(b, c, p)
        BY <4>5 DEF Link
      <4>6. CASE \E k \in Task : CancelTask(b, k)
        BY <4>6 DEF CancelTask
      <4>7. CASE ReadCancel(b)
        BY <4>7 DEF ReadCancel
      <4>8. QED
        BY <1>1, <2>3, <4>1, <4>2, <4>3, <4>4, <4>5, <4>6, <4>7 DEF Reads
    <3>2. QED
      BY <3>1, AllKept
  <2>4. QED
    BY <2>1, <2>2, <2>3
<1>2. ASSUME NEW b \in Broker, Writes(b) PROVE RowMove(t)
  <2>1. CASE WriteClaim(b)
    BY <2>1, ClaimMoves
  <2>2. CASE WriteReport(b)
    BY <2>2, ReportMoves
  <2>3. CASE WriteReview(b)
    BY <2>3, ReviewMoves
  <2>4. CASE WriteCancel(b)
    BY <2>4, OtherMoves
  <2>5. CASE \E c \in Ticket : CascadeStep(b, c)
    BY <2>5, OtherMoves
  <2>6. CASE MirrorTaskState(b) \/ CascadeDone(b) \/ ParkedDone(b) \/ Sweep(b) \/ Remirror(b)
             \/ \E u \in Ticket : FailParked(b, u)
    <3>1. UNCHANGED <<row, minted, scores, rounds>>
      BY <2>6 DEF MirrorTaskState, CascadeDone, ParkedDone, Sweep, Remirror, FailParked
    <3>2. QED
      BY <3>1, AllKept
  <2>7. QED
    BY <1>2, <2>1, <2>2, <2>3, <2>4, <2>5, <2>6 DEF Writes
<1>3. CASE Tick
  BY <1>3, OtherMoves
<1>4. CASE UNCHANGED vars
  BY <1>4, AllKept DEF vars
<1>5. QED
  BY <1>1, <1>2, <1>3, <1>4 DEF Next

----------------------------------------------------------------------------
(* What a broker still owes.                                               *)

Accrues(s, b) ==
  /\ s \in Seq(Owed)
  /\ \A i \in DOMAIN s : WriteTrue(s[i], row') \/ \E j \in DOMAIN todo[b] : s[i] = todo[b][j]

TodoMove == todo' \in [Broker -> Seq(Owed)] /\ \A b \in Broker : Accrues(todo'[b], b)

\* A broker that writes nothing new owes what it owed.
LEMMA AccruesKept ==
  ASSUME CallsOK, UNCHANGED todo
  PROVE  TodoMove
BY DEF CallsOK, TodoMove, Accrues

\* One broker's list changes at a time.
LEMMA AccruesOne ==
  ASSUME CallsOK, NEW b \in Broker, NEW s, Accrues(s, b), todo' = [todo EXCEPT ![b] = s]
  PROVE  TodoMove
<1>1. s \in Seq(Owed) /\ todo \in [Broker -> Seq(Owed)]
  BY DEF Accrues, CallsOK
<1>2. todo' \in [Broker -> Seq(Owed)]
  BY <1>1
<1>3. ASSUME NEW c \in Broker PROVE Accrues(todo'[c], c)
  <2>1. CASE c = b
    BY <1>1, <2>1
  <2>2. CASE c # b
    BY <1>1, <1>2, <2>2 DEF Accrues
  <2>3. QED
    BY <2>1, <2>2
<1>4. QED
  BY <1>2, <1>3 DEF TodoMove

\* The head of a broker's list, and the list after its head is replaced.
LEMMA Continued ==
  ASSUME CallsOK, NEW b \in Broker, todo[b] # <<>>, NEW x \in Seq(Owed),
         \A i \in DOMAIN x : WriteTrue(x[i], row')
  PROVE  /\ Head(todo[b]) \in Owed /\ Head(todo[b]) = todo[b][1] /\ 1 \in DOMAIN todo[b]
         /\ Accrues(x \o Tail(todo[b]), b)
<1>1. PICK s \in Seq(Owed) : s = todo[b]
  BY DEF CallsOK
<1>2. Len(s) \in Nat \ {0} /\ Head(s) = s[1] /\ s[1] \in Owed /\ DOMAIN s = 1..Len(s)
  BY <1>1
<1>3. PICK u : u = Tail(s)
  OBVIOUS
<1>4. u \in Seq(Owed) /\ Len(u) = Len(s) - 1 /\ \A i \in 1..Len(u) : u[i] = s[i + 1]
  BY <1>1, <1>2, <1>3
<1>5. PICK z : z = x \o u
  OBVIOUS
<1>a. z \in Seq(Owed) /\ Len(z) = Len(x) + Len(u)
  BY <1>4, <1>5, ConcatProperties
<1>b. \A i \in 1..Len(x) + Len(u) : z[i] = IF i <= Len(x) THEN x[i] ELSE u[i - Len(x)]
  BY <1>4, <1>5
<1>6. Len(z) = Len(x) + Len(u) /\ DOMAIN z = 1..Len(z) /\ DOMAIN x = 1..Len(x)
      /\ Len(x) \in Nat /\ Len(u) \in Nat
      /\ \A i \in 1..Len(z) : z[i] = IF i <= Len(x) THEN x[i] ELSE u[i - Len(x)]
  BY <1>4, <1>a, <1>b
<1>7. ASSUME NEW i \in DOMAIN z PROVE WriteTrue(z[i], row') \/ \E j \in DOMAIN s : z[i] = s[j]
  <2>1. CASE i <= Len(x)
    BY <1>6, <2>1
  <2>2. CASE ~(i <= Len(x))
    <3>1. PICK k \in 1..Len(u) : k = i - Len(x)
      BY <1>6, <2>2
    <3>2. z[i] = u[k] /\ u[k] = s[k + 1] /\ k + 1 \in DOMAIN s
      BY <1>2, <1>4, <1>6, <2>2, <3>1
    <3>3. QED
      BY <3>2
  <2>3. QED
    BY <2>1, <2>2
<1>8. Accrues(z, b)
  BY <1>1, <1>a, <1>7 DEF Accrues
<1>9. QED
  BY <1>1, <1>2, <1>3, <1>5, <1>8

\* A write by its parts, and when it is true.
LEMMA WriteFields ==
  ASSUME NEW k \in {"mirror", "cascade", "parked", "sweep", "remirror"}, NEW t \in Ticket,
         NEW s \in TaskState, NEW F \in SUBSET Ticket,
         k = "mirror" /\ s = "FAILED" => Dead(row'[t]),
         k = "mirror" /\ s = "COMPLETE" => row'[t].status = "done",
         k = "parked" => \A u \in F : Dead(row'[u])
  PROVE  Write(k, t, s, F) \in Owed /\ WriteTrue(Write(k, t, s, F), row')
BY DEF Write, Owed, WriteTrue

\* The writes that follow a report or a review say what became of the row.
LEMMA AftermathTrue ==
  ASSUME NEW t \in Ticket, NEW b \in Broker
  PROVE  Accrues(Aftermath(t, row'[t].status), b)
<1>1. PICK st : st = row'[t].status
  OBVIOUS
<1>2. CASE st = "failed"
  <2>1. PICK x : x = Write("mirror", t, "FAILED", {})
    OBVIOUS
  <2>2. PICK y : y = Write("cascade", t, "FAILED", {t})
    OBVIOUS
  <2>3. x \in Owed /\ y \in Owed /\ WriteTrue(x, row') /\ WriteTrue(y, row')
    BY <1>1, <1>2, <2>1, <2>2, WriteFields DEF Dead, TaskState
  <2>4. Aftermath(t, st) = <<x, y>>
    BY <1>2, <2>1, <2>2 DEF Aftermath
  <2>5. QED
    BY <1>1, <2>3, <2>4 DEF Accrues
<1>3. CASE st \in {"done", "in_review"}
  <2>1. PICK x : x = Write("mirror", t, MirrorState(st), {})
    OBVIOUS
  <2>2. MirrorState(st) \in {"COMPLETE", "REVIEW_READY"} /\ (MirrorState(st) = "COMPLETE" => st = "done")
    BY <1>3 DEF MirrorState
  <2>3. x \in Owed /\ WriteTrue(x, row')
    BY <1>1, <2>1, <2>2, WriteFields DEF TaskState
  <2>4. Aftermath(t, st) = <<x>>
    BY <1>3, <2>1 DEF Aftermath
  <2>5. QED
    BY <1>1, <2>3, <2>4 DEF Accrues
<1>4. CASE st \notin {"failed", "done", "in_review"}
  <2>1. Aftermath(t, st) = <<>>
    BY <1>4 DEF Aftermath
  <2>2. QED
    BY <1>1, <2>1 DEF Accrues
<1>5. QED
  BY <1>2, <1>3, <1>4

\* A cancel owes the cascade of what it selected.
LEMMA CancelOwes ==
  ASSUME BrokerTypeOK, NEW b \in Broker, WriteCancel(b)
  PROVE  TodoMove
<1>1. PICK hit : hit = op[b].hit
  OBVIOUS
<1>2. hit \in SUBSET Ticket
  BY <1>1, OpKinds DEF WriteCancel, BrokerTypeOK, CallsOK, CancellingOp
<1>3. CASE hit = {}
  <2>1. todo' = [todo EXCEPT ![b] = <<>>] /\ Accrues(<<>>, b)
    BY <1>1, <1>3 DEF WriteCancel, Accrues
  <2>2. QED
    BY <2>1, AccruesOne DEF BrokerTypeOK
<1>4. CASE hit # {}
  <2>1. PICK c \in Ticket : c = CHOOSE t \in hit : TRUE
    BY <1>2, <1>4
  <2>2. PICK x : x = Write("cascade", c, "FAILED", hit)
    OBVIOUS
  <2>3. x \in Owed /\ WriteTrue(x, row')
    BY <1>2, <2>2, WriteFields DEF TaskState
  <2>4. todo' = [todo EXCEPT ![b] = <<x>>]
    BY <1>1, <1>4, <2>1, <2>2 DEF WriteCancel
  <2>5. Accrues(<<x>>, b)
    BY <2>3 DEF Accrues
  <2>6. QED
    BY <2>4, <2>5, AccruesOne DEF BrokerTypeOK
<1>5. QED
  BY <1>3, <1>4

\* The reaper owes the failure of what it parked, a sweep and a remirror.
LEMMA ReapOwes ==
  ASSUME BrokerTypeOK, NEW b \in Broker, Reap(b)
  PROVE  TodoMove
<1>1. PICK parked : parked = {t \in Ticket : Expired(row[t]) /\ row[t].attempts >= MaxAttempts}
  OBVIOUS
<1>2. PICK any \in Ticket : any = CHOOSE t \in Ticket : TRUE
  BY ConstantTypes
<1>3. parked \in SUBSET Ticket /\ \A t \in parked : Dead(row'[t])
  BY <1>1, RowFields DEF Reap, BrokerTypeOK, RowsOK
<1>4. PICK x : x = Write("parked", any, "FAILED", parked)
  OBVIOUS
<1>5. PICK y : y = Write("sweep", any, "FAILED", {})
  OBVIOUS
<1>6. PICK z : z = Write("remirror", any, "FAILED", {})
  OBVIOUS
<1>7. /\ x \in Owed /\ y \in Owed /\ z \in Owed
      /\ WriteTrue(x, row') /\ WriteTrue(y, row') /\ WriteTrue(z, row')
  BY <1>3, <1>4, <1>5, <1>6, WriteFields DEF TaskState
<1>8. todo' = [todo EXCEPT ![b] = <<x, y, z>>]
  BY <1>1, <1>2, <1>4, <1>5, <1>6 DEF Reap
<1>9. Accrues(<<x, y, z>>, b)
  BY <1>7 DEF Accrues
<1>10. QED
  BY <1>8, <1>9, AccruesOne DEF BrokerTypeOK

\* A refused caller of a settled ticket drives its writes again.
LEMMA SettledOwes ==
  ASSUME BrokerTypeOK, NEW b \in Broker, NEW t \in Ticket, ReadSettled(b, t)
  PROVE  TodoMove
<1>1. row' = row
  BY DEF ReadSettled
<1>2. CASE row[t].status = "failed"
  <2>1. PICK x : x = Write("cascade", t, "FAILED", {t})
    OBVIOUS
  <2>2. PICK y : y = Write("mirror", t, "FAILED", {})
    OBVIOUS
  <2>3. x \in Owed /\ y \in Owed /\ WriteTrue(x, row') /\ WriteTrue(y, row')
    BY <1>1, <1>2, <2>1, <2>2, WriteFields DEF TaskState, Dead
  <2>4. todo' = [todo EXCEPT ![b] = <<x, y>>] /\ Accrues(<<x, y>>, b)
    BY <1>2, <2>1, <2>2, <2>3 DEF ReadSettled, Accrues
  <2>5. QED
    BY <2>4, AccruesOne DEF BrokerTypeOK
<1>3. CASE row[t].status # "failed"
  <2>1. todo' = [todo EXCEPT ![b] = Aftermath(t, row'[t].status)]
    BY <1>1, <1>3 DEF ReadSettled
  <2>2. QED
    BY <2>1, AftermathTrue, AccruesOne DEF BrokerTypeOK
<1>4. QED
  BY <1>2, <1>3

\* A report that wins its fence owes what follows from the row it wrote.
LEMMA ReportOwes ==
  ASSUME BrokerTypeOK, NEW b \in Broker, WriteReport(b)
  PROVE  TodoMove
<1>1. PICK t \in Ticket : t = op[b].ticket
  BY OpKinds DEF WriteReport, BrokerTypeOK, CallsOK, ReportOp
<1>2. PICK new : new = ReportedRow(row[t], op[b].attempts, op[b].tier, op[b].token, op[b].ok)
  OBVIOUS
<1>3. CASE ReportFence(b)
  <2>1. row' = [row EXCEPT ![t] = new] /\ todo' = [todo EXCEPT ![b] = Aftermath(t, new.status)]
    BY <1>1, <1>2, <1>3 DEF WriteReport
  <2>2. row'[t] = new
    BY <2>1 DEF BrokerTypeOK, RowsOK
  <2>3. QED
    BY <2>1, <2>2, AftermathTrue, AccruesOne DEF BrokerTypeOK
<1>4. CASE ~ReportFence(b)
  BY <1>4, AccruesKept DEF WriteReport, BrokerTypeOK
<1>5. QED
  BY <1>3, <1>4

\* So does a review that wins its compare-and-set.
LEMMA ReviewOwes ==
  ASSUME BrokerTypeOK, NEW b \in Broker, WriteReview(b)
  PROVE  TodoMove
<1>1. PICK t \in Ticket : t = op[b].ticket
  BY OpKinds DEF WriteReview, BrokerTypeOK, CallsOK, ReviewOp
<1>2. PICK new : new = IF op[b].kind = "approve" THEN ApprovedRow(row[t]) ELSE RejectedRow(row[t], op[b].attempts)
  OBVIOUS
<1>3. CASE ReviewCAS(t)
  <2>1. row' = [row EXCEPT ![t] = new] /\ todo' = [todo EXCEPT ![b] = Aftermath(t, new.status)]
    BY <1>1, <1>2, <1>3 DEF WriteReview
  <2>2. row'[t] = new
    BY <2>1 DEF BrokerTypeOK, RowsOK
  <2>3. QED
    BY <2>1, <2>2, AftermathTrue, AccruesOne DEF BrokerTypeOK
<1>4. CASE ~ReviewCAS(t)
  BY <1>1, <1>4, AccruesKept DEF WriteReview, BrokerTypeOK
<1>5. QED
  BY <1>3, <1>4

\* The drain: each write is dropped or replaced by writes that are true.
LEMMA DrainOwes ==
  ASSUME BrokerTypeOK, OwedTrue, NEW b \in Broker,
         \/ MirrorTaskState(b) \/ CascadeDone(b) \/ ParkedDone(b) \/ Sweep(b) \/ Remirror(b)
         \/ \E t \in Ticket : CascadeStep(b, t) \/ FailParked(b, t)
  PROVE  TodoMove
<1>0. CallsOK
  BY DEF BrokerTypeOK
<1>1. ASSUME todo[b] # <<>>, Continue(b, <<>>) PROVE TodoMove
  <2>1. <<>> \in Seq(Owed) /\ \A i \in DOMAIN <<>> : WriteTrue(<<>>[i], row')
    OBVIOUS
  <2>2. Accrues(<<>> \o Tail(todo[b]), b)
    BY <1>0, <1>1, <2>1, Continued
  <2>3. QED
    BY <1>0, <1>1, <2>2, AccruesOne DEF Continue
<1>2. ASSUME todo[b] # <<>>, NEW x \in Owed, WriteTrue(x, row'), Continue(b, <<x>>) PROVE TodoMove
  <2>1. <<x>> \in Seq(Owed) /\ \A i \in DOMAIN <<x>> : WriteTrue(<<x>>[i], row')
    BY <1>2
  <2>2. Accrues(<<x>> \o Tail(todo[b]), b)
    BY <1>0, <1>2, <2>1, Continued
  <2>3. QED
    BY <1>0, <1>2, <2>2, AccruesOne DEF Continue
<1>3. ASSUME todo[b] # <<>>
      PROVE  /\ Head(todo[b]) \in Owed /\ WriteTrue(Head(todo[b]), row)
             /\ Head(todo[b]).ticket \in Ticket /\ Head(todo[b]).front \in SUBSET Ticket
  <2>1. Head(todo[b]) \in Owed /\ Head(todo[b]) = todo[b][1] /\ 1 \in DOMAIN todo[b]
    BY <1>0, <1>3 DEF CallsOK
  <2>2. QED
    BY <2>1 DEF OwedTrue, Owed
<1>4. CASE MirrorTaskState(b) \/ CascadeDone(b) \/ ParkedDone(b)
  BY <1>1, <1>4 DEF MirrorTaskState, CascadeDone, ParkedDone, Next1
<1>5. CASE Sweep(b)
  <2>1. PICK x : x = Write("cascade", Head(todo[b]).ticket, "FAILED", {t \in Ticket : Dead(row[t])})
    OBVIOUS
  <2>2. PICK F \in SUBSET Ticket : F = {t \in Ticket : Dead(row[t])}
    OBVIOUS
  <2>3. x \in Owed /\ WriteTrue(x, row')
    BY <1>3, <1>5, <2>1, <2>2, WriteFields DEF Sweep, Next1, TaskState
  <2>4. QED
    BY <1>2, <1>5, <2>1, <2>3 DEF Sweep, Next1
<1>6. CASE Remirror(b)
  BY <1>0, <1>1, <1>6, AccruesKept DEF Remirror, Next1
<1>7. ASSUME NEW c \in Ticket, CascadeStep(b, c) PROVE TodoMove
  <2>1. PICK x : x = Write("cascade", c, "FAILED", Head(todo[b]).front \cup {c})
    OBVIOUS
  <2>2. Head(todo[b]).front \cup {c} \in SUBSET Ticket
    BY <1>3, <1>7 DEF CascadeStep, Next1
  <2>3. x \in Owed /\ WriteTrue(x, row')
    BY <2>1, <2>2, WriteFields DEF TaskState
  <2>4. QED
    BY <1>2, <1>7, <2>1, <2>3 DEF CascadeStep, Next1
<1>8. ASSUME NEW t \in Ticket, FailParked(b, t) PROVE TodoMove
  <2>1. PICK F : F = Head(todo[b]).front \ {t}
    OBVIOUS
  <2>2. F \in SUBSET Ticket /\ \A u \in F : Dead(row'[u])
    BY <1>3, <1>8, <2>1 DEF FailParked, Next1, WriteTrue
  <2>3. PICK x : x = Write("cascade", t, "FAILED", {t})
    OBVIOUS
  <2>4. PICK y : y = Write("parked", t, "FAILED", F)
    OBVIOUS
  <2>5. x \in Owed /\ y \in Owed /\ WriteTrue(x, row') /\ WriteTrue(y, row')
    BY <2>2, <2>3, <2>4, WriteFields DEF TaskState
  <2>6. <<x, y>> \in Seq(Owed) /\ \A i \in DOMAIN <<x, y>> : WriteTrue(<<x, y>>[i], row')
    BY <2>5
  <2>7. Accrues(<<x, y>> \o Tail(todo[b]), b)
    BY <1>0, <1>8, <2>6, Continued DEF FailParked, Next1
  <2>8. todo' = [todo EXCEPT ![b] = <<x, y>> \o Tail(todo[b])]
    BY <1>8, <2>1, <2>3, <2>4 DEF FailParked, Continue
  <2>9. QED
    BY <1>0, <2>7, <2>8, AccruesOne
<1>9. QED
  BY <1>4, <1>5, <1>6, <1>7, <1>8

\* Whatever the step, what a broker owes stays well formed and true.
LEMMA TodoMoves ==
  ASSUME BrokerTypeOK, OwedTrue, [Next]_vars
  PROVE  TodoMove
<1>0. CallsOK
  BY DEF BrokerTypeOK
<1>1. ASSUME NEW b \in Broker, Reads(b) PROVE TodoMove
  <2>1. CASE \E u \in Ticket, parents \in SUBSET Ticket : Add(b, u, parents)
    BY <1>0, <2>1, AccruesKept DEF Add
  <2>2. CASE \E w \in Worker, tier \in Tier, u \in Ticket : ReadClaim(b, w, tier, u)
    BY <1>0, <2>2, AccruesKept DEF ReadClaim
  <2>3. CASE \E g \in granted, tier \in Tier, ok \in BOOLEAN : ReadReport(b, g[1], tier, g[2], g[3], ok)
    BY <1>0, <2>3, AccruesKept DEF ReadReport
  <2>4. CASE \E u \in Ticket, verdict \in {"approve", "reject"} : ReadReview(b, u, verdict)
    BY <1>0, <2>4, AccruesKept DEF ReadReview
  <2>5. CASE \E u \in Ticket : ReadSettled(b, u)
    BY <2>5, SettledOwes
  <2>6. CASE \E c, p \in Ticket : Link(b, c, p)
    BY <1>0, <2>6, AccruesKept DEF Link
  <2>7. CASE \E k \in Task : CancelTask(b, k)
    BY <1>0, <2>7, AccruesKept DEF CancelTask
  <2>8. CASE ReadCancel(b)
    BY <1>0, <2>8, AccruesKept DEF ReadCancel
  <2>9. CASE Reap(b)
    BY <2>9, ReapOwes
  <2>10. QED
    BY <1>1, <2>1, <2>2, <2>3, <2>4, <2>5, <2>6, <2>7, <2>8, <2>9 DEF Reads
<1>2. ASSUME NEW b \in Broker, Writes(b) PROVE TodoMove
  <2>1. CASE WriteClaim(b)
    BY <1>0, <2>1, AccruesKept DEF WriteClaim
  <2>2. CASE WriteReport(b) \/ WriteReview(b) \/ WriteCancel(b)
    BY <2>2, ReportOwes, ReviewOwes, CancelOwes
  <2>3. QED
    BY <1>2, <2>1, <2>2, DrainOwes DEF Writes
<1>3. CASE Tick
  BY <1>0, <1>3, AccruesKept DEF Tick
<1>4. CASE UNCHANGED vars
  BY <1>0, <1>4, AccruesKept DEF vars
<1>5. QED
  BY <1>1, <1>2, <1>3, <1>4 DEF Next

----------------------------------------------------------------------------
(* Types.                                                                  *)

\* What a broker has read and not yet written is well formed.
LEMMA OpStep ==
  ASSUME BrokerTypeOK, [Next]_vars
  PROVE  DOMAIN op' = Broker /\ \A b \in Broker : OpOK(op'[b])
<1>0. DOMAIN op = Broker /\ \A b \in Broker : OpOK(op[b])
  BY DEF BrokerTypeOK, CallsOK
<1>1. ASSUME NEW b \in Broker, NEW o, OpOK(o), op' = [op EXCEPT ![b] = o]
      PROVE  DOMAIN op' = Broker /\ \A c \in Broker : OpOK(op'[c])
  BY <1>0, <1>1
<1>2. ASSUME NEW b \in Broker, Reads(b) PROVE DOMAIN op' = Broker /\ \A c \in Broker : OpOK(op'[c])
  <2>1. CASE \E u \in Ticket, parents \in SUBSET Ticket : Add(b, u, parents)
    BY <1>0, <2>1 DEF Add
  <2>2. ASSUME NEW w \in Worker, NEW tier \in Tier, NEW u \in Ticket, ReadClaim(b, w, tier, u)
        PROVE  DOMAIN op' = Broker /\ \A c \in Broker : OpOK(op'[c])
    <3>1. PICK o : o = [kind |-> "claim", ticket |-> u, worker |-> w, tier |-> tier]
      OBVIOUS
    <3>2. OpOK(o)
      BY <3>1 DEF OpOK, ClaimOp
    <3>3. QED
      BY <1>1, <2>2, <3>1, <3>2 DEF ReadClaim
  <2>3. ASSUME NEW g \in granted, NEW tier \in Tier, NEW ok \in BOOLEAN,
               ReadReport(b, g[1], tier, g[2], g[3], ok)
        PROVE  DOMAIN op' = Broker /\ \A c \in Broker : OpOK(op'[c])
    <3>1. PICK o : o = [kind |-> "report", ticket |-> g[2], worker |-> g[1], tier |-> tier,
                        token |-> g[3], ok |-> ok, attempts |-> row[g[2]].attempts]
      OBVIOUS
    <3>2. g[1] \in Worker /\ g[2] \in Ticket /\ g[3] \in Nat
      BY DEF BrokerTypeOK, RowsOK
    <3>3. row[g[2]].attempts \in Nat
      BY <3>2 DEF BrokerTypeOK, RowsOK, Row
    <3>4. OpOK(o)
      BY <3>1, <3>2, <3>3 DEF OpOK, ReportOp
    <3>5. QED
      BY <1>1, <2>3, <3>1, <3>4 DEF ReadReport
  <2>4. ASSUME NEW u \in Ticket, NEW verdict \in {"approve", "reject"}, ReadReview(b, u, verdict)
        PROVE  DOMAIN op' = Broker /\ \A c \in Broker : OpOK(op'[c])
    <3>1. PICK o : o = [kind |-> verdict, ticket |-> u, attempts |-> row[u].attempts]
      OBVIOUS
    <3>2. row[u].attempts \in Nat
      BY DEF BrokerTypeOK, RowsOK, Row
    <3>3. OpOK(o)
      BY <3>1, <3>2 DEF OpOK, ReviewOp
    <3>4. QED
      BY <1>1, <2>4, <3>1, <3>3 DEF ReadReview
  <2>5. CASE (\E u \in Ticket : ReadSettled(b, u)) \/ (\E c, p \in Ticket : Link(b, c, p)) \/ Reap(b)
    BY <1>0, <2>5 DEF ReadSettled, Link, Reap
  <2>6. ASSUME NEW k \in Task, CancelTask(b, k)
        PROVE  DOMAIN op' = Broker /\ \A c \in Broker : OpOK(op'[c])
    <3>1. PICK o : o = [kind |-> "cancel", task |-> k]
      OBVIOUS
    <3>2. OpOK(o)
      BY <3>1 DEF OpOK, CancelOp
    <3>3. QED
      BY <1>1, <2>6, <3>1, <3>2 DEF CancelTask
  <2>7. CASE ReadCancel(b)
    <3>1. PICK hit : hit = {t \in Ticket : TaskOf[t] = op[b].task /\ Live(row[t])}
      OBVIOUS
    <3>2. PICK o : o = [kind |-> "cancelling", hit |-> hit]
      OBVIOUS
    <3>3. OpOK(o)
      BY <3>1, <3>2 DEF OpOK, CancellingOp
    <3>4. QED
      BY <1>1, <2>7, <3>1, <3>2, <3>3 DEF ReadCancel
  <2>8. QED
    BY <1>2, <2>1, <2>2, <2>3, <2>4, <2>5, <2>6, <2>7 DEF Reads
<1>3. ASSUME NEW b \in Broker, Writes(b) PROVE DOMAIN op' = Broker /\ \A c \in Broker : OpOK(op'[c])
  <2>1. CASE WriteClaim(b) \/ WriteReport(b) \/ WriteReview(b) \/ WriteCancel(b)
    <3>1. op' = [op EXCEPT ![b] = NoOp] /\ OpOK(NoOp)
      BY <2>1 DEF WriteClaim, WriteReport, WriteReview, WriteCancel, OpOK
    <3>2. QED
      BY <1>1, <3>1
  <2>2. CASE ~(WriteClaim(b) \/ WriteReport(b) \/ WriteReview(b) \/ WriteCancel(b))
    <3>1. op' = op
      BY <1>3, <2>2 DEF Writes, MirrorTaskState, CascadeDone, ParkedDone, Sweep, Remirror, CascadeStep, FailParked
    <3>2. QED
      BY <1>0, <3>1
  <2>3. QED
    BY <2>1, <2>2
<1>4. CASE Tick \/ UNCHANGED vars
  BY <1>0, <1>4 DEF Tick, vars
<1>5. QED
  BY <1>2, <1>3, <1>4 DEF Next

\* The rows stay rows.
LEMMA RowsStep ==
  ASSUME BrokerTypeOK, [Next]_vars
  PROVE  row' \in [Ticket -> Row] /\ minted' \in [Ticket -> Nat] /\ granted' \subseteq Worker \X Ticket \X Nat
<1>0. /\ row \in [Ticket -> Row] /\ minted \in [Ticket -> Nat] /\ granted \subseteq Worker \X Ticket \X Nat
      /\ \A b \in Broker : OpOK(op[b])
  BY DEF BrokerTypeOK, RowsOK, CallsOK
<1>1. ASSUME NEW b \in Broker, NEW t \in Ticket, NEW parents \in SUBSET Ticket, Add(b, t, parents)
      PROVE  row' \in [Ticket -> Row] /\ UNCHANGED <<minted, granted>>
  BY <1>0, <1>1, NewRowType DEF Add
<1>2. ASSUME NEW b \in Broker, WriteClaim(b)
      PROVE  row' \in [Ticket -> Row] /\ minted' \in [Ticket -> Nat] /\ granted' \subseteq Worker \X Ticket \X Nat
  <2>1. PICK o \in ClaimOp : o = op[b]
    BY <1>0, <1>2, OpKinds DEF WriteClaim
  <2>2. PICK t \in Ticket : t = o.ticket
    BY DEF ClaimOp
  <2>3. CASE UNCHANGED <<minted, row, granted>>
    BY <1>0, <2>3
  <2>4. CASE ~UNCHANGED <<minted, row, granted>>
    <3>1. PICK n \in Nat : n = minted[t] + 1
      BY <1>0
    <3>2. ClaimedRow(row[t], o.worker, o.tier, n) \in Row /\ o.worker \in Worker
      BY <1>0, RowTypes DEF ClaimOp
    <3>3. /\ minted' = [minted EXCEPT ![t] = n]
          /\ row' = [row EXCEPT ![t] = ClaimedRow(row[t], o.worker, o.tier, n)]
          /\ granted' = granted \cup {<<o.worker, t, n>>}
      BY <1>2, <2>1, <2>2, <2>4, <3>1 DEF WriteClaim
    <3>4. QED
      BY <1>0, <3>2, <3>3
  <2>5. QED
    BY <2>3, <2>4
<1>3. ASSUME NEW b \in Broker, WriteReport(b)
      PROVE  row' \in [Ticket -> Row] /\ UNCHANGED <<minted, granted>>
  <2>1. PICK o \in ReportOp : o = op[b]
    BY <1>0, <1>3, OpKinds DEF WriteReport
  <2>2. PICK t \in Ticket : t = o.ticket
    BY DEF ReportOp
  <2>3. PICK new : new = ReportedRow(row[t], o.attempts, o.tier, o.token, o.ok)
    OBVIOUS
  <2>4. new \in Row
    BY <1>0, <2>3, RowTypes DEF ReportOp
  <2>5. row' = [row EXCEPT ![t] = new] \/ row' = row
    BY <1>3, <2>1, <2>2, <2>3 DEF WriteReport
  <2>6. QED
    BY <1>0, <1>3, <2>4, <2>5 DEF WriteReport
<1>4. ASSUME NEW b \in Broker, WriteReview(b)
      PROVE  row' \in [Ticket -> Row] /\ UNCHANGED <<minted, granted>>
  <2>1. PICK o \in ReviewOp : o = op[b]
    BY <1>0, <1>4, OpKinds DEF WriteReview
  <2>2. PICK t \in Ticket : t = o.ticket
    BY DEF ReviewOp
  <2>3. PICK new : new = IF o.kind = "approve" THEN ApprovedRow(row[t]) ELSE RejectedRow(row[t], o.attempts)
    OBVIOUS
  <2>4. new \in Row
    BY <1>0, <2>3, RowTypes DEF ReviewOp
  <2>5. row' = [row EXCEPT ![t] = new] \/ row' = row
    BY <1>4, <2>1, <2>2, <2>3 DEF WriteReview
  <2>6. QED
    BY <1>0, <1>4, <2>4, <2>5 DEF WriteReview
<1>5. ASSUME NEW b \in Broker, WriteCancel(b) \/ Reap(b)
      PROVE  row' \in [Ticket -> Row] /\ UNCHANGED <<minted, granted>>
  <2>1. ASSUME NEW t \in Ticket PROVE row[t] \in Row /\ CancelledRow(row[t]) \in Row /\ ReapedRow(row[t]) \in Row
    BY <1>0, RowTypes
  <2>2. CASE WriteCancel(b)
    BY <2>1, <2>2 DEF WriteCancel
  <2>3. CASE Reap(b)
    BY <2>1, <2>3 DEF Reap
  <2>4. QED
    BY <1>5, <2>2, <2>3
<1>6. ASSUME NEW b \in Broker, NEW c \in Ticket, CascadeStep(b, c)
      PROVE  row' \in [Ticket -> Row] /\ UNCHANGED <<minted, granted>>
  BY <1>0, <1>6, RowTypes DEF CascadeStep
<1>7. CASE Tick
  BY <1>0, <1>7, RowTypes DEF Tick
<1>8. CASE UNCHANGED <<row, minted, granted>>
  BY <1>0, <1>8
<1>9. ASSUME NEW b \in Broker, Reads(b)
      PROVE  \/ UNCHANGED <<row, minted, granted>> \/ Reap(b)
             \/ \E t \in Ticket, parents \in SUBSET Ticket : Add(b, t, parents)
  BY <1>9 DEF Reads, ReadClaim, ReadReport, ReadReview, ReadSettled, Link, CancelTask, ReadCancel
<1>10. ASSUME NEW b \in Broker, Writes(b)
       PROVE  \/ UNCHANGED <<row, minted, granted>> \/ \E c \in Ticket : CascadeStep(b, c)
              \/ WriteClaim(b) \/ WriteReport(b) \/ WriteReview(b) \/ WriteCancel(b)
  BY <1>10 DEF Writes, MirrorTaskState, CascadeDone, ParkedDone, Sweep, Remirror, FailParked
<1>11. CASE \E b \in Broker : Reads(b)
  BY <1>0, <1>1, <1>5, <1>8, <1>9, <1>11
<1>12. CASE \E b \in Broker : Writes(b)
  BY <1>0, <1>2, <1>3, <1>4, <1>5, <1>6, <1>8, <1>10, <1>12
<1>13. QED
  BY <1>7, <1>8, <1>11, <1>12 DEF Next, vars

\* The counts stay counts.
LEMMA CountsStep ==
  ASSUME BrokerTypeOK, [Next]_vars
  PROVE  CountsOK'
<1>0. /\ artifacts \subseteq Broker \X Ticket \X Nat /\ scores \in [Ticket -> Score]
      /\ rounds \in [Ticket -> Nat] /\ \A b \in Broker : OpOK(op[b])
      /\ granted \subseteq Worker \X Ticket \X Nat
  BY DEF BrokerTypeOK, CountsOK, CallsOK, RowsOK
<1>1. ASSUME NEW b \in Broker, NEW g \in granted, NEW tier \in Tier, NEW ok \in BOOLEAN,
             ReadReport(b, g[1], tier, g[2], g[3], ok)
      PROVE  CountsOK'
  <2>1. g[2] \in Ticket /\ g[3] \in Nat
    BY <1>0
  <2>2. QED
    BY <1>0, <1>1, <2>1 DEF ReadReport, CountsOK
<1>2. ASSUME NEW b \in Broker, WriteReport(b) PROVE CountsOK'
  <2>1. PICK t \in Ticket : t = op[b].ticket
    BY <1>0, <1>2, OpKinds DEF WriteReport, ReportOp
  <2>2. artifacts' \subseteq artifacts
    BY <1>2 DEF WriteReport, LostLease
  <2>3. PICK n \in Nat : n = scores[t].reports + 1
    BY <1>0 DEF Score
  <2>4. PICK e : e = [scores[t] EXCEPT !.reports = n]
    OBVIOUS
  <2>5. e \in Score
    BY <1>0, <2>3, <2>4 DEF Score
  <2>6. scores' = scores \/ scores' = [scores EXCEPT ![t] = e]
    BY <1>2, <2>1, <2>3, <2>4 DEF WriteReport
  <2>7. rounds' = rounds \/ rounds' = [rounds EXCEPT ![t] = rounds[t] + 1]
        \/ rounds' = [rounds EXCEPT ![t] = rounds[t]]
    BY <1>2, <2>1 DEF WriteReport
  <2>8. scores' \in [Ticket -> Score]
    BY <1>0, <2>5, <2>6
  <2>9. rounds' \in [Ticket -> Nat]
    BY <1>0, <2>7
  <2>10. QED
    BY <1>0, <2>2, <2>8, <2>9 DEF CountsOK
<1>3. ASSUME NEW b \in Broker, WriteReview(b) PROVE CountsOK'
  <2>1. PICK t \in Ticket : t = op[b].ticket
    BY <1>0, <1>3, OpKinds DEF WriteReview, ReviewOp
  <2>2. PICK n \in Nat : n = scores[t].reviews + 1
    BY <1>0 DEF Score
  <2>3. PICK e : e = [scores[t] EXCEPT !.reviews = n]
    OBVIOUS
  <2>4. e \in Score
    BY <1>0, <2>2, <2>3 DEF Score
  <2>5. scores' = scores \/ scores' = [scores EXCEPT ![t] = e]
    BY <1>3, <2>1, <2>2, <2>3 DEF WriteReview
  <2>6. QED
    BY <1>0, <1>3, <2>4, <2>5 DEF CountsOK, WriteReview
<1>4. CASE UNCHANGED <<artifacts, scores, rounds>>
  BY <1>0, <1>4 DEF CountsOK
<1>5. ASSUME NEW b \in Broker, Reads(b)
      PROVE  \/ UNCHANGED <<artifacts, scores, rounds>>
             \/ \E g \in granted, tier \in Tier, ok \in BOOLEAN : ReadReport(b, g[1], tier, g[2], g[3], ok)
  BY <1>5 DEF Reads, Add, ReadClaim, ReadReview, ReadSettled, Link, CancelTask, ReadCancel, Reap
<1>6. ASSUME NEW b \in Broker, Writes(b)
      PROVE  UNCHANGED <<artifacts, scores, rounds>> \/ WriteReport(b) \/ WriteReview(b)
  BY <1>6 DEF Writes, WriteClaim, WriteCancel, MirrorTaskState, CascadeDone, ParkedDone, Sweep, Remirror,
              CascadeStep, FailParked
<1>7. CASE \E b \in Broker : Reads(b)
  BY <1>1, <1>4, <1>5, <1>7
<1>8. CASE \E b \in Broker : Writes(b)
  BY <1>2, <1>3, <1>4, <1>6, <1>8
<1>9. CASE Tick \/ UNCHANGED vars
  BY <1>4, <1>9 DEF Tick, vars
<1>10. QED
  BY <1>7, <1>8, <1>9 DEF Next

\* What a step may do to a task: its final states are those of its ticket.
TaskMove(k) ==
  \/ task'[k] = task[k]
  \/ task'[k] \in {"CREATED", "REVIEW_READY", "CANCELLED"}
  \/ \E t \in Ticket : /\ TaskOf[t] = k
                       /\ \/ task'[k] = "FAILED" /\ Dead(row'[t])
                          \/ task'[k] = "COMPLETE" /\ row'[t].status = "done"

TaskMoved == task' \in [Task -> TaskState] /\ \A k \in Task : TaskMove(k)

\* The mirror of a ticket's outcome moves no other task.
LEMMA Mirrored ==
  ASSUME task \in [Task -> TaskState], NEW t \in Ticket, NEW s \in TaskState,
         s = "FAILED" => Dead(row'[t]), s = "COMPLETE" => row'[t].status = "done",
         task' = Converge(task, TaskOf[t], s)
  PROVE  TaskMoved
<1>1. TaskOf[t] \in Task \cup {None}
  BY ConstantTypes
<1>2. task' \in [Task -> TaskState]
  BY <1>1, ConvergeType
<1>3. ASSUME NEW k \in Task PROVE TaskMove(k)
  <2>1. CASE k # TaskOf[t]
    <3>1. task'[k] = task[k]
      BY <1>1, <2>1, ConvergeType
    <3>2. QED
      BY <3>1 DEF TaskMove
  <2>2. CASE k = TaskOf[t]
    <3>1. task'[k] \in {task[k], s}
      BY <1>1, <2>2, ConvergeType
    <3>2. QED
      BY <2>2, <3>1 DEF TaskMove, TaskState
  <2>3. QED
    BY <2>1, <2>2
<1>4. QED
  BY <1>2, <1>3 DEF TaskMoved

\* Whatever the step, a task moves with its ticket.
LEMMA TaskMoves ==
  ASSUME BrokerTypeOK, OwedTrue, [Next]_vars
  PROVE  TaskMoved
<1>0. task \in [Task -> TaskState] /\ row \in [Ticket -> Row] /\ CallsOK
  BY DEF BrokerTypeOK, RowsOK
<1>1. ASSUME NEW b \in Broker, todo[b] # <<>>
      PROVE  Head(todo[b]) \in Owed /\ WriteTrue(Head(todo[b]), row)
  <2>1. Head(todo[b]) \in Owed /\ Head(todo[b]) = todo[b][1] /\ 1 \in DOMAIN todo[b]
    BY <1>0, <1>1 DEF CallsOK
  <2>2. QED
    BY <2>1 DEF OwedTrue
<1>2. CASE UNCHANGED task
  BY <1>0, <1>2 DEF TaskMoved, TaskMove
<1>3. ASSUME NEW b \in Broker, NEW k \in Task, CancelTask(b, k) PROVE TaskMoved
  BY <1>0, <1>3 DEF CancelTask, TaskMoved, TaskMove, TaskState
<1>4. ASSUME NEW b \in Broker, MirrorTaskState(b) PROVE TaskMoved
  <2>1. PICK x \in Owed : x = Head(todo[b]) /\ x.op = "mirror" /\ WriteTrue(x, row)
    BY <1>1, <1>4 DEF MirrorTaskState, Next1
  <2>2. x.ticket \in Ticket /\ x.state \in TaskState
    BY DEF Owed
  <2>3. task' = Converge(task, TaskOf[x.ticket], x.state) /\ row' = row
    BY <1>4, <2>1 DEF MirrorTaskState
  <2>4. QED
    BY <1>0, <2>1, <2>2, <2>3, Mirrored DEF WriteTrue
<1>5. ASSUME NEW b \in Broker, NEW c \in Ticket, CascadeStep(b, c) PROVE TaskMoved
  <2>1. Dead(row'[c])
    BY <1>0, <1>5, DeadRows DEF CascadeStep
  <2>2. task' = Converge(task, TaskOf[c], "FAILED") /\ "FAILED" \in TaskState
    BY <1>5 DEF CascadeStep, TaskState
  <2>3. QED
    BY <1>0, <2>1, <2>2, Mirrored
<1>6. ASSUME NEW b \in Broker, NEW t \in Ticket, FailParked(b, t) PROVE TaskMoved
  <2>1. Dead(row[t]) /\ row' = row
    BY <1>1, <1>6 DEF FailParked, Next1, WriteTrue
  <2>2. task' = Converge(task, TaskOf[t], "FAILED") /\ "FAILED" \in TaskState
    BY <1>6 DEF FailParked, TaskState
  <2>3. QED
    BY <1>0, <2>1, <2>2, Mirrored
<1>7. ASSUME NEW b \in Broker, Remirror(b) PROVE TaskMoved
  <2>1. CASE UNCHANGED task
    BY <1>2, <2>1
  <2>2. CASE ~UNCHANGED task
    <3>1. PICK t \in Ticket : Desynced(t) /\ task' = Converge(task, TaskOf[t], MirrorState(row[t].status))
      BY <1>7, <2>2 DEF Remirror
    <3>2. PICK s : s = MirrorState(row[t].status)
      OBVIOUS
    <3>3. /\ s \in TaskState /\ row' = row
          /\ s = "FAILED" => Dead(row[t])
          /\ s = "COMPLETE" => row[t].status = "done"
      BY <1>7, <3>1, <3>2 DEF Remirror, Desynced, MirrorState, TaskState, Dead
    <3>4. QED
      BY <1>0, <3>1, <3>2, <3>3, Mirrored
  <2>3. QED
    BY <2>1, <2>2
<1>8. ASSUME NEW b \in Broker, Reads(b)
      PROVE  UNCHANGED task \/ \E k \in Task : CancelTask(b, k)
  BY <1>8 DEF Reads, Add, ReadClaim, ReadReport, ReadReview, ReadSettled, Link, ReadCancel, Reap
<1>9. ASSUME NEW b \in Broker, Writes(b)
      PROVE  \/ UNCHANGED task \/ MirrorTaskState(b) \/ Remirror(b)
             \/ \E t \in Ticket : CascadeStep(b, t) \/ FailParked(b, t)
  BY <1>9 DEF Writes, WriteClaim, WriteReport, WriteReview, WriteCancel, CascadeDone, ParkedDone, Sweep
<1>10. CASE \E b \in Broker : Reads(b)
  BY <1>2, <1>3, <1>8, <1>10
<1>11. CASE \E b \in Broker : Writes(b)
  BY <1>2, <1>4, <1>5, <1>6, <1>7, <1>9, <1>11
<1>12. CASE Tick \/ UNCHANGED vars
  BY <1>2, <1>12 DEF Tick, vars
<1>13. QED
  BY <1>10, <1>11, <1>12 DEF Next

----------------------------------------------------------------------------
(* The invariant, step by step.                                            *)

\* What is over stays over: a done ticket, a dead one, one that was added.
LEMMA Stable ==
  ASSUME BrokerTypeOK, [Next]_vars, NEW t \in Ticket
  PROVE  /\ row[t].status = "done" => row'[t].status = "done"
         /\ Dead(row[t]) => Dead(row'[t])
         /\ Added(row[t]) => Added(row'[t])
<1>1. RowMove(t)
  BY RowMoves
<1>2. QED
  BY <1>1 DEF RowMove, Kept, Born, Taken, Carried, Reported, Judged, Returned, Buried, Live, Added, Dead,
              TerminalStatus

\* The row, its lease, its result and its scores agree after any move.
LEMMA RowsAgree ==
  ASSUME BrokerTypeOK, [Next]_vars, LeaseHeld, ResultOfLatestLease, OneVerdictPerRound
  PROVE  LeaseHeld' /\ ResultOfLatestLease' /\ OneVerdictPerRound'
<1>0. ASSUME NEW t \in Ticket
      PROVE  /\ minted[t] \in Nat /\ scores[t].reviews \in Nat /\ rounds[t] \in Nat
             /\ minted'[t] \in Nat /\ scores'[t].reviews \in Nat /\ rounds'[t] \in Nat
  BY RowsStep, CountsStep DEF BrokerTypeOK, RowsOK, CountsOK, Score
<1>1. ASSUME NEW t \in Ticket, row'[t].status = "claimed" PROVE row'[t].lease.token = minted'[t]
  BY <1>1, RowMoves DEF LeaseHeld, RowMove, SameCounts, Kept, Born, Taken, Carried, Reported, Judged, Returned,
                        Buried, Dead
<1>2. ASSUME NEW t \in Ticket, row'[t].status \in {"in_review", "done"} PROVE row'[t].ref = minted'[t]
  BY <1>2, RowMoves DEF LeaseHeld, ResultOfLatestLease, RowMove, SameCounts, Kept, Born, Taken, Carried, Reported,
                        Judged, Returned, Buried, Dead
<1>3. ASSUME NEW t \in Ticket
      PROVE  scores'[t].reviews + (IF row'[t].status = "in_review" THEN 1 ELSE 0) <= rounds'[t]
  <2>1. scores[t].reviews + (IF row[t].status = "in_review" THEN 1 ELSE 0) <= rounds[t]
    BY DEF OneVerdictPerRound
  <2>2. RowMove(t)
    BY RowMoves
  <2>3. CASE Kept(t)
    BY <2>1, <2>3 DEF Kept, SameCounts
  <2>4. CASE Born(t) \/ Taken(t) \/ Carried(t) \/ Returned(t) \/ Buried(t)
    <3>1. scores'[t].reviews = scores[t].reviews /\ rounds'[t] = rounds[t] /\ row'[t].status # "in_review"
      BY <2>4 DEF Born, Taken, Carried, Returned, Buried, SameCounts, Dead
    <3>2. QED
      BY <1>0, <2>1, <3>1
  <2>5. CASE Reported(t)
    BY <1>0, <2>1, <2>5 DEF Reported
  <2>6. CASE Judged(t)
    BY <1>0, <2>1, <2>6 DEF Judged
  <2>7. QED
    BY <2>2, <2>3, <2>4, <2>5, <2>6 DEF RowMove
<1>4. QED
  BY <1>1, <1>2, <1>3 DEF LeaseHeld, ResultOfLatestLease, OneVerdictPerRound

\* What a broker owes stays true, and so do the tasks.
LEMMA MirrorsAgree ==
  ASSUME BrokerTypeOK, [Next]_vars, OwedTrue, MirrorTruthful
  PROVE  OwedTrue' /\ MirrorTruthful'
<1>1. ASSUME NEW b \in Broker, NEW i \in DOMAIN todo'[b] PROVE WriteTrue(todo'[b][i], row')
  <2>1. CASE WriteTrue(todo'[b][i], row')
    BY <2>1
  <2>2. CASE \E j \in DOMAIN todo[b] : todo'[b][i] = todo[b][j]
    <3>1. PICK j \in DOMAIN todo[b] : todo'[b][i] = todo[b][j]
      BY <2>2
    <3>2. PICK x : x = todo[b][j]
      OBVIOUS
    <3>3. x \in Owed
      BY <3>1, <3>2 DEF BrokerTypeOK, CallsOK
    <3>4. x.ticket \in Ticket /\ x.front \in SUBSET Ticket
      BY <3>3 DEF Owed
    <3>5. WriteTrue(x, row)
      BY <3>1, <3>2 DEF OwedTrue
    <3>6. WriteTrue(x, row')
      BY <3>4, <3>5, Stable DEF WriteTrue
    <3>7. QED
      BY <3>1, <3>2, <3>6
  <2>3. QED
    BY <1>1, <2>1, <2>2, TodoMoves DEF TodoMove, Accrues
<1>2. ASSUME NEW t \in Ticket, TaskOf[t] # None
      PROVE  /\ task'[TaskOf[t]] = "COMPLETE" => row'[t].status = "done"
             /\ task'[TaskOf[t]] = "FAILED" => Dead(row'[t])
  <2>1. PICK k \in Task : k = TaskOf[t]
    BY <1>2, ConstantTypes
  <2>2. TaskMove(k)
    BY TaskMoves DEF TaskMoved
  <2>3. CASE task'[k] = task[k]
    BY <1>2, <2>1, <2>3, Stable DEF MirrorTruthful
  <2>4. CASE task'[k] \in {"CREATED", "REVIEW_READY", "CANCELLED"}
    BY <2>1, <2>4
  <2>5. CASE \E u \in Ticket : /\ TaskOf[u] = k
                               /\ \/ task'[k] = "FAILED" /\ Dead(row'[u])
                                  \/ task'[k] = "COMPLETE" /\ row'[u].status = "done"
    BY <1>2, <2>1, <2>5, OneTicketPerTask
  <2>6. QED
    BY <2>2, <2>3, <2>4, <2>5 DEF TaskMove
<1>3. QED
  BY <1>1, <1>2 DEF OwedTrue, MirrorTruthful

\* What a step may do to the edges.
DepMove ==
  \/ deps' = deps
  \/ \E u \in Ticket, parents \in SUBSET Ticket :
       /\ deps' = [deps EXCEPT ![u] = parents]
       /\ ~Added(row[u]) /\ row'[u].status \in {"open", "parked"}
       /\ \A p \in parents : Added(row[p])
  \/ \E c, p \in Ticket :
       /\ deps' = [deps EXCEPT ![c] = @ \cup {p}]
       /\ Added(row[c]) /\ Added(row[p]) /\ row' = row
       /\ row[c].status \notin {"claimed", "in_review"}
       /\ c \notin Reach(deps, p)

\* Edges come with a new ticket or under one that nobody holds.
LEMMA DepMoves ==
  ASSUME BrokerTypeOK, [Next]_vars
  PROVE  DepMove
<1>1. ASSUME NEW b \in Broker, NEW u \in Ticket, NEW parents \in SUBSET Ticket, Add(b, u, parents)
      PROVE  DepMove
  <2>1. NewRow(u).status \in {"open", "parked"}
    BY DEF NewRow, AbsentRow
  <2>2. row'[u].status \in {"open", "parked"}
    BY <1>1, <2>1 DEF Add, BrokerTypeOK, RowsOK
  <2>3. QED
    BY <1>1, <2>2 DEF Add, DepMove
<1>2. ASSUME NEW b \in Broker, NEW c \in Ticket, NEW p \in Ticket, Link(b, c, p) PROVE DepMove
  BY <1>2 DEF Link, Linkable, DepMove
<1>3. ASSUME NEW b \in Broker, Reads(b)
      PROVE  \/ UNCHANGED deps \/ \E c, p \in Ticket : Link(b, c, p)
             \/ \E u \in Ticket, parents \in SUBSET Ticket : Add(b, u, parents)
  BY <1>3 DEF Reads, ReadClaim, ReadReport, ReadReview, ReadSettled, CancelTask, ReadCancel, Reap
<1>4. ASSUME NEW b \in Broker, Writes(b) PROVE UNCHANGED deps
  BY <1>4 DEF Writes, WriteClaim, WriteReport, WriteReview, WriteCancel, MirrorTaskState, CascadeDone, ParkedDone,
              Sweep, Remirror, CascadeStep, FailParked
<1>5. CASE \E b \in Broker : Reads(b)
  <2>1. PICK b \in Broker : Reads(b)
    BY <1>5
  <2>2. CASE UNCHANGED deps
    BY <2>2 DEF DepMove
  <2>3. QED
    BY <1>1, <1>2, <1>3, <2>1, <2>2
<1>6. CASE (\E b \in Broker : Writes(b)) \/ Tick \/ UNCHANGED vars
  BY <1>4, <1>6 DEF Tick, vars, DepMove
<1>7. QED
  BY <1>5, <1>6 DEF Next

\* A claimed or reviewed ticket was one before, with the same parents, or
\* was claimed with every parent done.
LEMMA GateStep ==
  ASSUME BrokerTypeOK, [Next]_vars, DependencyGate, NEW t \in Ticket,
         row'[t].status \in {"claimed", "in_review"}
  PROVE  row[t].status # "absent" /\ \A p \in deps[t] : row[p].status = "done"
<1>1. RowMove(t)
  BY RowMoves
<1>2. row[t].status \in {"claimed", "in_review"} \/ Taken(t)
  BY <1>1 DEF RowMove, Kept, Born, Taken, Carried, Reported, Judged, Returned, Buried, Dead
<1>3. QED
  BY <1>2 DEF DependencyGate, Taken

\* The graph of dependencies stays one, and no edge gets under held work.
LEMMA EdgesAgree ==
  ASSUME BrokerTypeOK, [Next]_vars, EdgesHeld, Acyclic, DependencyGate
  PROVE  deps' \in [Ticket -> SUBSET Ticket] /\ EdgesHeld' /\ Acyclic' /\ DependencyGate'
<1>0. deps \in [Ticket -> SUBSET Ticket] /\ AcyclicIn(deps)
  BY DEF BrokerTypeOK, RowsOK, Acyclic, AcyclicIn
<1>1. SUFFICES /\ deps' \in [Ticket -> SUBSET Ticket] /\ AcyclicIn(deps')
               /\ \A c \in Ticket : \A p \in deps'[c] : Added(row'[c]) /\ Added(row'[p])
               /\ \A t \in Ticket : row'[t].status \in {"claimed", "in_review"} =>
                    \A p \in deps'[t] : row'[p].status = "done"
  BY DEF EdgesHeld, Acyclic, AcyclicIn, DependencyGate
<1>2. CASE deps' = deps
  <2>1. \A c \in Ticket : \A p \in deps[c] : Added(row'[c]) /\ Added(row'[p])
    BY <1>0, Stable DEF EdgesHeld
  <2>2. ASSUME NEW t \in Ticket, row'[t].status \in {"claimed", "in_review"}, NEW p \in deps[t]
        PROVE  row'[p].status = "done"
    BY <1>0, <2>2, GateStep, Stable
  <2>3. QED
    BY <1>0, <1>2, <2>1, <2>2
<1>3. ASSUME NEW u \in Ticket, NEW parents \in SUBSET Ticket, deps' = [deps EXCEPT ![u] = parents],
             ~Added(row[u]), row'[u].status \in {"open", "parked"}, \A p \in parents : Added(row[p])
      PROVE  /\ deps' \in [Ticket -> SUBSET Ticket] /\ AcyclicIn(deps')
             /\ \A c \in Ticket : \A p \in deps'[c] : Added(row'[c]) /\ Added(row'[p])
             /\ \A t \in Ticket : row'[t].status \in {"claimed", "in_review"} =>
                  \A p \in deps'[t] : row'[p].status = "done"
  <2>1. u \notin parents /\ \A t \in Ticket : u \notin deps[t]
    BY <1>0, <1>3 DEF EdgesHeld
  <2>2. AcyclicIn(deps')
    BY <1>0, <1>3, <2>1, AcyclicAdd
  <2>3. deps' \in [Ticket -> SUBSET Ticket] /\ deps'[u] = parents /\ \A t \in Ticket \ {u} : deps'[t] = deps[t]
    BY <1>0, <1>3
  <2>4. ASSUME NEW c \in Ticket, NEW p \in deps'[c] PROVE Added(row'[c]) /\ Added(row'[p])
    <3>1. CASE c = u
      BY <1>3, <2>3, <2>4, <3>1, Stable DEF Added
    <3>2. CASE c # u
      BY <1>0, <2>3, <2>4, <3>2, Stable DEF EdgesHeld
    <3>3. QED
      BY <3>1, <3>2
  <2>5. ASSUME NEW t \in Ticket, row'[t].status \in {"claimed", "in_review"}, NEW p \in deps'[t]
        PROVE  row'[p].status = "done"
    <3>1. t # u
      BY <1>3, <2>5
    <3>2. QED
      BY <1>0, <2>3, <2>5, <3>1, GateStep, Stable
  <2>6. QED
    BY <2>2, <2>3, <2>4, <2>5
<1>4. ASSUME NEW c \in Ticket, NEW p \in Ticket, deps' = [deps EXCEPT ![c] = @ \cup {p}],
             Added(row[c]), Added(row[p]), row' = row, row[c].status \notin {"claimed", "in_review"},
             c \notin Reach(deps, p)
      PROVE  /\ deps' \in [Ticket -> SUBSET Ticket] /\ AcyclicIn(deps')
             /\ \A t \in Ticket : \A q \in deps'[t] : Added(row'[t]) /\ Added(row'[q])
             /\ \A t \in Ticket : row'[t].status \in {"claimed", "in_review"} =>
                  \A q \in deps'[t] : row'[q].status = "done"
  <2>1. AcyclicIn(deps')
    BY <1>0, <1>4, AcyclicLink
  <2>2. /\ deps' \in [Ticket -> SUBSET Ticket] /\ deps'[c] = deps[c] \cup {p}
        /\ \A t \in Ticket \ {c} : deps'[t] = deps[t]
    BY <1>0, <1>4
  <2>3. ASSUME NEW t \in Ticket, NEW q \in deps'[t] PROVE Added(row'[t]) /\ Added(row'[q])
    BY <1>4, <2>2, <2>3 DEF EdgesHeld
  <2>4. ASSUME NEW t \in Ticket, row'[t].status \in {"claimed", "in_review"}, NEW q \in deps'[t]
        PROVE  row'[q].status = "done"
    BY <1>4, <2>2, <2>4 DEF DependencyGate
  <2>5. QED
    BY <2>1, <2>2, <2>3, <2>4
<1>5. DepMove
  BY DepMoves
<1>6. QED
  BY <1>2, <1>3, <1>4, <1>5 DEF DepMove

\* A report under way is ended by its own write only.
LEMMA ReportHeld ==
  ASSUME BrokerTypeOK, [Next]_vars, NEW c \in Broker, op[c].kind = "report"
  PROVE  op'[c] = op[c] \/ WriteReport(c)
<1>0. DOMAIN op = Broker /\ op[c] # NoOp
  BY DEF BrokerTypeOK, CallsOK, NoOp
<1>1. ASSUME NEW b \in Broker, Reads(b) PROVE op'[c] = op[c]
  <2>1. CASE Free(b)
    <3>1. b # c
      BY <1>0, <2>1 DEF Free
    <3>2. \A d \in Broker \ {b} : op'[d] = op[d]
      BY <1>0, <1>1 DEF Reads, Add, ReadClaim, ReadReport, ReadReview, ReadSettled, Link, CancelTask, ReadCancel, Reap
    <3>3. QED
      BY <3>1, <3>2
  <2>2. CASE ReadCancel(b)
    BY <1>0, <2>2 DEF ReadCancel
  <2>3. QED
    BY <1>1, <2>1, <2>2 DEF Reads, Add, ReadClaim, ReadReport, ReadReview, ReadSettled, Link, CancelTask, Reap
<1>2. ASSUME NEW b \in Broker, Writes(b) PROVE op'[c] = op[c] \/ WriteReport(c)
  <2>1. CASE WriteReport(b)
    BY <1>0, <2>1 DEF WriteReport
  <2>2. CASE WriteClaim(b) \/ WriteReview(b) \/ WriteCancel(b)
    BY <1>0, <2>2 DEF WriteClaim, WriteReview, WriteCancel
  <2>3. CASE ~(WriteClaim(b) \/ WriteReport(b) \/ WriteReview(b) \/ WriteCancel(b))
    BY <1>2, <2>3 DEF Writes, MirrorTaskState, CascadeDone, ParkedDone, Sweep, Remirror, CascadeStep, FailParked
  <2>4. QED
    BY <2>1, <2>2, <2>3
<1>3. CASE Tick \/ UNCHANGED vars
  BY <1>3 DEF Tick, vars
<1>4. QED
  BY <1>1, <1>2, <1>3 DEF Next

\* An artifact comes with a report, and a report leaves it referenced or
\* takes it away.
LEMMA ArtifactsAgree ==
  ASSUME BrokerTypeOK, [Next]_vars, NoOrphanArtifact
  PROVE  NoOrphanArtifact'
<1>0. /\ artifacts \subseteq Broker \X Ticket \X Nat /\ granted \subseteq Worker \X Ticket \X Nat
      /\ DOMAIN op = Broker
  BY DEF BrokerTypeOK, CountsOK, RowsOK, CallsOK
<1>1. SUFFICES ASSUME NEW a \in artifacts'
               PROVE  \/ a \in referenced'
                      \/ op'[a[1]].kind = "report" /\ op'[a[1]].ticket = a[2] /\ op'[a[1]].token = a[3]
  BY DEF NoOrphanArtifact
<1>2. referenced \subseteq referenced'
  <2>1. ASSUME NEW b \in Broker, Reads(b) PROVE referenced' = referenced
    BY <2>1 DEF Reads, Add, ReadClaim, ReadReport, ReadReview, ReadSettled, Link, CancelTask, ReadCancel, Reap
  <2>2. ASSUME NEW b \in Broker, Writes(b) PROVE referenced \subseteq referenced'
    BY <2>2 DEF Writes, WriteClaim, WriteReport, WriteReview, WriteCancel, MirrorTaskState, CascadeDone, ParkedDone,
                Sweep, Remirror, CascadeStep, FailParked
  <2>3. CASE Tick \/ UNCHANGED vars
    BY <2>3 DEF Tick, vars
  <2>4. QED
    BY <2>1, <2>2, <2>3 DEF Next
<1>3. CASE a \in artifacts
  <2>1. CASE a \in referenced
    BY <1>2, <2>1
  <2>2. CASE a \notin referenced
    <3>1. PICK b \in Broker, t \in Ticket, n \in Nat : a = <<b, t, n>>
      BY <1>0, <1>3
    <3>2. op[b].kind = "report" /\ op[b].ticket = t /\ op[b].token = n
      BY <1>3, <2>2, <3>1 DEF NoOrphanArtifact
    <3>3. CASE op'[b] = op[b]
      BY <3>1, <3>2, <3>3
    <3>4. CASE WriteReport(b)
      BY <1>1, <3>1, <3>2, <3>4 DEF WriteReport, LostLease
    <3>5. QED
      BY <3>2, <3>3, <3>4, ReportHeld
  <2>3. QED
    BY <2>1, <2>2
<1>4. CASE a \notin artifacts
  <2>1. ASSUME NEW b \in Broker, Reads(b)
        PROVE  \/ artifacts' = artifacts
               \/ \E g \in granted, tier \in Tier, ok \in BOOLEAN : ReadReport(b, g[1], tier, g[2], g[3], ok)
    BY <2>1 DEF Reads, Add, ReadClaim, ReadReview, ReadSettled, Link, CancelTask, ReadCancel, Reap
  <2>2. ASSUME NEW b \in Broker, Writes(b) PROVE artifacts' \subseteq artifacts
    BY <2>2 DEF Writes, WriteClaim, WriteReport, LostLease, WriteReview, WriteCancel, MirrorTaskState, CascadeDone,
                ParkedDone, Sweep, Remirror, CascadeStep, FailParked
  <2>3. PICK b \in Broker, g \in granted, tier \in Tier, ok \in BOOLEAN : ReadReport(b, g[1], tier, g[2], g[3], ok)
    BY <1>1, <1>4, <2>1, <2>2 DEF Next, Tick, vars
  <2>4. a = <<b, g[2], g[3]>>
    BY <1>1, <1>4, <2>3 DEF ReadReport
  <2>5. PICK o : o = [kind |-> "report", ticket |-> g[2], worker |-> g[1], tier |-> tier,
                      token |-> g[3], ok |-> ok, attempts |-> row[g[2]].attempts]
    OBVIOUS
  <2>6. op' = [op EXCEPT ![b] = o] /\ o.kind = "report" /\ o.ticket = g[2] /\ o.token = g[3]
    BY <2>3, <2>5 DEF ReadReport
  <2>7. QED
    BY <1>0, <2>4, <2>6
<1>5. QED
  BY <1>3, <1>4

----------------------------------------------------------------------------
(* The theorems.                                                           *)

\* Every step of every broker keeps the invariant.
LEMMA BrokerStep == BrokerInv /\ [Next]_vars => BrokerInv'
<1> SUFFICES ASSUME BrokerInv, [Next]_vars PROVE BrokerInv'
  OBVIOUS
<1>1. BrokerTypeOK'
  <2>1. BrokerTypeOK /\ EdgesHeld /\ Acyclic /\ DependencyGate /\ OwedTrue
    BY DEF BrokerInv
  <2>2. RowsOK'
    BY <2>1, RowsStep, EdgesAgree, TaskMoves DEF RowsOK, TaskMoved
  <2>3. CallsOK'
    BY <2>1, OpStep, TodoMoves DEF CallsOK, TodoMove
  <2>4. QED
    BY <2>1, <2>2, <2>3, CountsStep DEF BrokerTypeOK
<1>2. QED
  BY <1>1, RowsAgree, MirrorsAgree, EdgesAgree, ArtifactsAgree DEF BrokerInv

\* A fresh store satisfies it.
LEMMA BrokerInitially == Init => BrokerInv
<1> SUFFICES ASSUME Init PROVE BrokerInv
  OBVIOUS
<1> USE DEF Init
<1>1. ASSUME NEW t \in Ticket
      PROVE  row[t] = AbsentRow /\ row[t].status = "absent" /\ deps[t] = {}
             /\ scores[t].reviews = 0 /\ rounds[t] = 0
  BY DEF AbsentRow
<1>2. RowsOK
  BY NewRowType DEF RowsOK, TaskState
<1>3. CountsOK
  BY DEF CountsOK, Score
<1>4. CallsOK
  <2>1. <<>> \in Seq(Owed)
    OBVIOUS
  <2>2. QED
    BY <2>1 DEF CallsOK, OpOK
<1>5. OwedTrue
  BY DEF OwedTrue
<1>6. LeaseHeld /\ EdgesHeld /\ ResultOfLatestLease /\ DependencyGate
  BY <1>1 DEF LeaseHeld, EdgesHeld, ResultOfLatestLease, DependencyGate
<1>7. OneVerdictPerRound
  BY <1>1 DEF OneVerdictPerRound
<1>8. NoOrphanArtifact
  BY DEF NoOrphanArtifact
<1>9. Acyclic
  BY <1>1 DEF Acyclic
<1>10. MirrorTruthful
  BY ConstantTypes DEF MirrorTruthful
<1>11. QED
  BY <1>2, <1>3, <1>4, <1>5, <1>6, <1>7, <1>8, <1>9, <1>10 DEF BrokerInv, BrokerTypeOK

\* The invariant holds however many brokers serve the store.
THEOREM BrokerInductive == Spec => []BrokerInv
BY BrokerInitially, BrokerStep, PTL DEF Spec

\* A report whose lease was reaped and claimed again through another broker
\* is not accepted: the result in a row is that of the last lease minted.
THEOREM ResultsAreLatest == Spec => []ResultOfLatestLease
<1>1. BrokerInv => ResultOfLatestLease
  BY DEF BrokerInv
<1>2. QED
  BY <1>1, BrokerInductive, PTL

\* The loser of a lease leaves no result artifact behind.
THEOREM ArtifactsHaveOwners == Spec => []NoOrphanArtifact
<1>1. BrokerInv => NoOrphanArtifact
  BY DEF BrokerInv
<1>2. QED
  BY <1>1, BrokerInductive, PTL

\* A result under review is judged once, however many brokers read it.
THEOREM VerdictsAreSingle == Spec => []OneVerdictPerRound
<1>1. BrokerInv => OneVerdictPerRound
  BY DEF BrokerInv
<1>2. QED
  BY <1>1, BrokerInductive, PTL

\* Links made through different brokers never close a circle.
THEOREM BrokersKeepAcyclic == Spec => []Acyclic
<1>1. BrokerInv => Acyclic
  BY DEF BrokerInv
<1>2. QED
  BY <1>1, BrokerInductive, PTL

\* No link made through one broker gets under work another has handed out.
THEOREM BrokersKeepGate == Spec => []DependencyGate
<1>1. BrokerInv => DependencyGate
  BY DEF BrokerInv
<1>2. QED
  BY <1>1, BrokerInductive, PTL

\* A task never shows an outcome its ticket does not have, whichever
\* broker's mirror comes last.
THEOREM BrokersMirrorTruth == Spec => []MirrorTruthful
<1>1. BrokerInv => MirrorTruthful
  BY DEF BrokerInv
<1>2. QED
  BY <1>1, BrokerInductive, PTL


----------------------------------------------------------------------------
(* The workers that pull over HTTP.                                        *)

\* A success that is told, by a worker or by a report on the wire, was computed under
\* the token it is told under.
PullTypes ==
  /\ DOMAIN worker = Puller
  /\ \A w \in Puller : DOMAIN worker[w] = {"at", "token", "payload", "result", "tries"}
  /\ {"status", "ref", "lease", "result", "attempts", "park"} \subseteq DOMAIN ticket
  /\ "token" \in DOMAIN ticket.lease
PullInv ==
  /\ PullTypes /\ NoEmptyCompletion
  /\ \A w \in Puller : worker[w].at = "reporting" /\ worker[w].result => worker[w].token \in ran
  /\ \A r \in wire : r.op = "report" /\ r.result => r.token \in ran

\* The workers' side: a step that keeps the ticket and forgets no run.
LEMMA PullerSteps ==
  ASSUME PullInv, NEW w \in Puller,
         WorkerSteps(w) \/ Heartbeat(w) \/ Dies(w)
  PROVE  PullInv'
<1> USE DEF PullInv
<1>1. CASE PullClaim(w)
  <2>1. /\ UNCHANGED <<ticket, ran>>
        /\ \A r \in wire' : r \in wire \/ r.op = "claim"
        /\ DOMAIN worker' = Puller
        /\ \A v \in Puller : v # w => worker'[v] = worker[v]
        /\ DOMAIN worker'[w] = DOMAIN worker[w] /\ worker'[w].at = "claiming"
    BY <1>1 DEF PullClaim, Request, Become, PullTypes
  <2> QED
    BY <2>1 DEF PullTypes, NoEmptyCompletion
<1>2. CASE Heartbeat(w)
  <2>1. UNCHANGED <<ticket, ran, worker>> /\ \A r \in wire' : r \in wire \/ r.op = "heartbeat"
    BY <1>2 DEF Heartbeat, Request
  <2> QED
    BY <2>1 DEF PullTypes, NoEmptyCompletion
<1>3. CASE Dies(w)
  <2>1. /\ UNCHANGED <<ticket, ran, wire>> /\ DOMAIN worker' = Puller
        /\ \A v \in Puller : v # w => worker'[v] = worker[v]
        /\ DOMAIN worker'[w] = {"at", "token", "payload", "result", "tries"} /\ worker'[w].at = "poll"
    BY <1>3 DEF Dies, Become, Polling, PullTypes
  <2> QED
    BY <2>1 DEF PullTypes, NoEmptyCompletion
<1>4. ASSUME NEW ok \in BOOLEAN, RunPulled(w, ok) PROVE PullInv'
  <2>1. /\ UNCHANGED ticket /\ ran \subseteq ran' /\ DOMAIN worker' = Puller
        /\ \A v \in Puller : v # w => worker'[v] = worker[v]
        /\ DOMAIN worker'[w] = DOMAIN worker[w]
        /\ worker'[w].token = worker[w].token /\ worker'[w].result = ResultOf(w, ok)
        /\ \A r \in wire' : r \in wire \/ (r.token = worker[w].token /\ r.result = ResultOf(w, ok))
    BY <1>4 DEF RunPulled, SendReport, Become, PullTypes
  <2>2. ResultOf(w, ok) => worker[w].token \in ran'
    BY <1>4 DEF RunPulled, ResultOf
  <2> QED
    BY <2>1, <2>2 DEF PullTypes, NoEmptyCompletion
<1>5. CASE GivesUp(w)
  <2>1. CASE worker[w].at = "reporting" /\ worker[w].tries < ReportRetries
    <3>1. /\ UNCHANGED <<ticket, ran>> /\ DOMAIN worker' = Puller
          /\ \A v \in Puller : v # w => worker'[v] = worker[v]
          /\ DOMAIN worker'[w] = DOMAIN worker[w]
          /\ worker'[w].token = worker[w].token /\ worker'[w].result = worker[w].result
          /\ \A r \in wire' : r \in wire \/ (r.token = worker[w].token /\ r.result = worker[w].result)
      BY <1>5, <2>1 DEF GivesUp, RetryReport, SendReport, Become, PullTypes
    <3> QED
      BY <2>1, <3>1 DEF PullTypes, NoEmptyCompletion
  <2>2. CASE ~(worker[w].at = "reporting" /\ worker[w].tries < ReportRetries)
    <3>1. /\ UNCHANGED <<ticket, ran, wire>> /\ DOMAIN worker' = Puller
          /\ \A v \in Puller : v # w => worker'[v] = worker[v]
          /\ DOMAIN worker'[w] = {"at", "token", "payload", "result", "tries"} /\ worker'[w].at = "poll"
      BY <1>5, <2>2 DEF GivesUp, RetryReport, Become, Polling, PullTypes
    <3> QED
      BY <3>1 DEF PullTypes, NoEmptyCompletion
  <2> QED
    BY <2>1, <2>2
<1> QED
  BY <1>1, <1>2, <1>3, <1>4, <1>5 DEF WorkerSteps

\* A row that is neither done nor in review, or still what it was.
LEMMA RowTurns ==
  ASSUME PullInv, UNCHANGED ran, wire' \subseteq wire,
         {"status", "ref", "lease", "result", "attempts", "park"} \subseteq DOMAIN ticket',
         "token" \in DOMAIN ticket'.lease,
         NoEmptyCompletion',
         DOMAIN worker' = Puller,
         \A w \in Puller : \/ worker'[w] = worker[w]
                           \/ /\ DOMAIN worker'[w] = {"at", "token", "payload", "result", "tries"}
                              /\ worker'[w].at # "reporting"
  PROVE  PullInv'
BY DEF PullInv, PullTypes

\* The broker's side: a report is applied only under the live lease it names.
LEMMA BrokerTurns ==
  ASSUME PullInv, NEW r \in wire, Handle(r) \/ StoreBusy(r)
  PROVE  PullInv'
<1> USE DEF PullInv
<1>1. ASSUME NEW body \in BOOLEAN, NEW delivered \in BOOLEAN, QueueNext(r, body, delivered) PROVE PullInv'
  <2>0. \/ UNCHANGED worker
        \/ \E s : /\ worker' = [worker EXCEPT ![r.from] = s]
                 /\ DOMAIN s = {"at", "token", "payload", "result", "tries"} /\ s.at # "reporting"
    <3>1. CASE ticket.status = "open"
      <4> DEFINE s == [Polling EXCEPT !.at = "run", !.token = tokens + 1, !.payload = body]
      <4>1. worker' = worker \/ worker' = [worker EXCEPT ![r.from] = s]
        BY <1>1, <3>1 DEF QueueNext, Become
      <4>2. DOMAIN s = {"at", "token", "payload", "result", "tries"} /\ s.at = "run"
        BY DEF Polling
      <4> QED
        BY <4>1, <4>2
    <3>2. CASE ticket.status # "open"
      <4>1. worker' = worker \/ worker' = [worker EXCEPT ![r.from] = Polling]
        BY <1>1, <3>2 DEF QueueNext, Become
      <4> QED
        BY <4>1 DEF Polling
    <3> QED
      BY <3>1, <3>2
  <2>1. /\ UNCHANGED ran /\ wire' \subseteq wire /\ DOMAIN worker' = Puller
        /\ \A w \in Puller : \/ worker'[w] = worker[w]
                             \/ /\ DOMAIN worker'[w] = {"at", "token", "payload", "result", "tries"}
                                /\ worker'[w].at # "reporting"
    BY <1>1, <2>0 DEF QueueNext, PullTypes
  <2>2. \/ UNCHANGED ticket
        \/ DOMAIN ticket' = DOMAIN ticket /\ "token" \in DOMAIN ticket'.lease /\ ticket'.status = "claimed"
    <3>1. ticket' = ticket \/ ticket' = Q!ClaimedRow(ticket, r.from, PullerTier[r.from], tokens + 1)
      BY <1>1 DEF QueueNext
    <3>2. ASSUME ticket' = Q!ClaimedRow(ticket, r.from, PullerTier[r.from], tokens + 1)
          PROVE  /\ DOMAIN ticket' = DOMAIN ticket /\ ticket'.status = "claimed"
                 /\ ticket'.lease = [holder |-> r.from, tier |-> PullerTier[r.from], token |-> tokens + 1,
                                     ttl |-> PullLease]
      BY <3>2 DEF Q!ClaimedRow, PullTypes
    <3>3. \A x : x = [holder |-> r.from, tier |-> PullerTier[r.from], token |-> tokens + 1, ttl |-> PullLease]
                => "token" \in DOMAIN x
      OBVIOUS
    <3> QED
      BY <3>1, <3>2, <3>3
  <2> QED
    BY <2>1, <2>2, RowTurns DEF PullTypes, NoEmptyCompletion
<1>2. ASSUME NEW delivered \in BOOLEAN, QueueReport(r, delivered) PROVE PullInv'
  <2>1. /\ UNCHANGED ran /\ wire' \subseteq wire /\ DOMAIN worker' = Puller
        /\ \A w \in Puller : \/ worker'[w] = worker[w]
                             \/ /\ DOMAIN worker'[w] = {"at", "token", "payload", "result", "tries"}
                                /\ worker'[w].at # "reporting"
    BY <1>2 DEF QueueReport, Become, Polling, PullTypes
  <2>2. CASE ~Q!HoldsLease(ticket, r.from, r.token)
    BY <1>2, <2>1, <2>2, RowTurns DEF QueueReport, PullTypes, NoEmptyCompletion
  <2>3. CASE Q!HoldsLease(ticket, r.from, r.token) /\ r.result
    <3>1. /\ DOMAIN ticket' = DOMAIN ticket /\ ticket'.ref = r.token /\ ticket'.lease = ticket.lease
          /\ ticket.lease.token = r.token
      BY <1>2, <2>3 DEF QueueReport, Q!ReportedRow, Q!HoldsLease, PullTypes
    <3>2. r.token \in ran
      BY <1>2, <2>3 DEF QueueReport
    <3> QED
      BY <2>1, <3>1, <3>2, RowTurns DEF PullTypes, NoEmptyCompletion
  <2>4. CASE Q!HoldsLease(ticket, r.from, r.token) /\ ~r.result
    <3>1. /\ DOMAIN ticket' = DOMAIN ticket /\ ticket'.status \in {"open", "failed"}
          /\ "token" \in DOMAIN ticket'.lease
      BY <1>2, <2>4 DEF QueueReport, Q!ReportedRow, Q!NoLease, Q!FreeLease, PullTypes
    <3> QED
      BY <2>1, <3>1, RowTurns DEF PullTypes, NoEmptyCompletion
  <2> QED
    BY <2>2, <2>3, <2>4
<1>3. CASE QueueHeartbeat(r)
  <2>1. UNCHANGED <<worker, ran>> /\ wire' \subseteq wire
    BY <1>3 DEF QueueHeartbeat
  <2>2. \/ UNCHANGED ticket
        \/ /\ DOMAIN ticket' = DOMAIN ticket /\ "token" \in DOMAIN ticket'.lease
           /\ ticket'.status = "claimed"
    BY <1>3 DEF QueueHeartbeat, Q!RenewedRow, Q!HoldsLease, PullTypes
  <2> QED
    BY <2>1, <2>2, RowTurns DEF PullTypes, NoEmptyCompletion
<1>4. CASE StoreBusy(r)
  BY <1>4, RowTurns DEF StoreBusy, PullTypes, NoEmptyCompletion
<1> QED
  BY <1>1, <1>2, <1>3, <1>4 DEF Handle

\* Whatever requests and answers are lost, late or repeated and whoever dies, a result
\* that the broker accepted was computed under the lease it was accepted under.
THEOREM NothingEmptyCompletes == PullSpec => []NoEmptyCompletion
<1>1. PullInit => PullInv
  BY DEF PullInit, PullInv, PullTypes, NoEmptyCompletion, Polling, Q!NewRow, Q!AbsentRow, Q!FreeLease
<1>2. PullInv /\ [PullNext]_pullVars => PullInv'
  <2> SUFFICES ASSUME PullInv, [PullNext]_pullVars PROVE PullInv'
    OBVIOUS
  <2>1. CASE UNCHANGED pullVars
    BY <2>1 DEF pullVars, PullInv, PullTypes, NoEmptyCompletion
  <2>2. CASE ReapPulled
    <3>1. /\ UNCHANGED <<worker, wire, ran>> /\ DOMAIN ticket' = DOMAIN ticket
          /\ "token" \in DOMAIN ticket'.lease /\ ticket'.status \in {"open", "parked"}
      BY <2>2 DEF ReapPulled, Q!ReapedRow, Q!NoLease, Q!FreeLease, PullInv, PullTypes
    <3> QED
      BY <3>1, RowTurns DEF PullInv, PullTypes, NoEmptyCompletion
  <2>3. CASE TickPulled
    <3>1. /\ UNCHANGED <<worker, wire, ran>> /\ DOMAIN ticket' = DOMAIN ticket
          /\ "token" \in DOMAIN ticket'.lease /\ ticket'.status = "claimed"
      BY <2>3 DEF TickPulled, Q!TickedRow, PullInv, PullTypes
    <3> QED
      BY <3>1, RowTurns DEF PullInv, PullTypes, NoEmptyCompletion
  <2> QED
    BY <2>1, <2>2, <2>3, PullerSteps, BrokerTurns DEF PullNext
<1>3. PullInv => NoEmptyCompletion
  BY DEF PullInv
<1> QED
  BY <1>1, <1>2, <1>3, PTL DEF PullSpec
============================================================================
