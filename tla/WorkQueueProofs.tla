-------------------------- MODULE WorkQueueProofs --------------------------
(* Proofs about WorkQueue, for every number of tickets, workers, tasks,    *)
(* attempts and crashes and every routing configuration.                   *)
EXTENDS WorkQueue, TicketsProofs, TLAPS

----------------------------------------------------------------------------
(* Sequences of pending writes.                                            *)

\* Dropping the first write drops nothing else.
LEMMA TailItems ==
  ASSUME NEW S, NEW s \in Seq(S), s # <<>>
  PROVE  /\ Head(s) \in S /\ Tail(s) \in Seq(S)
         /\ Head(s) \in Items(s) /\ Items(Tail(s)) \subseteq Items(s)
<1>1. Len(s) \in Nat \ {0} /\ Head(s) = s[1] /\ s[1] \in S
  OBVIOUS
<1>2. Tail(s) \in Seq(S) /\ Len(Tail(s)) = Len(s) - 1
      /\ \A i \in 1..Len(Tail(s)) : Tail(s)[i] = s[i + 1]
  OBVIOUS
<1>3. QED
  BY <1>1, <1>2 DEF Items

\* Putting a write first adds that write and nothing else.
LEMMA ConsItems ==
  ASSUME NEW S, NEW a \in S, NEW s \in Seq(S)
  PROVE  /\ <<a>> \o s \in Seq(S) /\ <<a>> \o s # <<>>
         /\ Head(<<a>> \o s) = a /\ Tail(<<a>> \o s) = s
         /\ Items(<<a>> \o s) = {a} \cup Items(s)
<1> DEFINE c == <<a>> \o s
<1>1. c \in Seq(S) /\ Len(c) = Len(s) + 1 /\ Len(s) \in Nat
      /\ c[1] = a /\ \A i \in 1..Len(s) : c[i + 1] = s[i]
  OBVIOUS
<1>2. Items(c) \subseteq {a} \cup Items(s)
  <2> SUFFICES ASSUME NEW i \in 1..Len(c) PROVE c[i] \in {a} \cup Items(s)
    BY DEF Items
  <2>1. CASE i = 1
    BY <1>1, <2>1
  <2>2. CASE i # 1
    <3>1. i - 1 \in 1..Len(s) /\ c[(i - 1) + 1] = s[i - 1]
      BY <1>1, <2>2
    <3>2. QED
      BY <3>1 DEF Items
  <2> QED
    BY <2>1, <2>2
<1>3. {a} \cup Items(s) \subseteq Items(c)
  <2>1. a \in Items(c)
    BY <1>1 DEF Items
  <2>2. ASSUME NEW i \in 1..Len(s) PROVE s[i] \in Items(c)
    <3>1. i + 1 \in 1..Len(c) /\ c[i + 1] = s[i]
      BY <1>1
    <3>2. QED
      BY <3>1 DEF Items
  <2> QED
    BY <2>1, <2>2 DEF Items
<1>4. Head(c) = a /\ Tail(c) = s /\ c # <<>>
  <2>1. Tail(c) \in Seq(S) /\ Len(Tail(c)) = Len(s)
        /\ \A i \in 1..Len(s) : Tail(c)[i] = s[i]
    BY <1>1
  <2> QED
    BY <1>1, <2>1
<1> QED
  BY <1>1, <1>2, <1>3, <1>4

\* The same for two writes.
LEMMA ConsTwoItems ==
  ASSUME NEW S, NEW a \in S, NEW b \in S, NEW s \in Seq(S)
  PROVE  Items(<<a, b>> \o s) = {a, b} \cup Items(s)
<1> DEFINE c == <<a, b>> \o s
<1>1. c \in Seq(S) /\ Len(c) = Len(s) + 2 /\ Len(s) \in Nat
      /\ c[1] = a /\ c[2] = b /\ \A i \in 1..Len(s) : c[i + 2] = s[i]
  OBVIOUS
<1> HIDE DEF c
<1>2. ASSUME NEW i \in 1..Len(c) PROVE c[i] \in {a, b} \cup Items(s)
  <2>1. CASE i \in {1, 2}
    BY <1>1, <2>1
  <2>2. CASE i \notin {1, 2}
    <3>1. i - 2 \in 1..Len(s) /\ c[(i - 2) + 2] = s[i - 2] /\ (i - 2) + 2 = i
      BY <1>1, <2>2
    <3> QED
      BY <3>1 DEF Items
  <2> QED
    BY <2>1, <2>2
<1>3. a \in Items(c) /\ b \in Items(c)
  <2>1. 1 \in 1..Len(c) /\ 2 \in 1..Len(c)
    BY <1>1
  <2> QED
    BY <1>1, <2>1 DEF Items
<1>4. ASSUME NEW i \in 1..Len(s) PROVE s[i] \in Items(c)
  <2>1. i + 2 \in 1..Len(c) /\ c[i + 2] = s[i]
    BY <1>1
  <2> QED
    BY <2>1 DEF Items
<1>5. Items(c) = {a, b} \cup Items(s)
  BY <1>2, <1>3, <1>4 DEF Items
<1> QED
  BY <1>5 DEF c

\* No writes are a sequence of writes.
LEMMA EmptySeq == <<>> \in Seq(TodoItem)
OBVIOUS

\* The empty sequence has no items.
LEMMA NoItems == Items(<<>>) = {}
BY DEF Items

----------------------------------------------------------------------------
(* Types.                                                                  *)

\* Writes are well formed.
LEMMA WriteType ==
  ASSUME NEW op \in WriteOp, NEW t \in Ticket, NEW s \in TaskState, NEW F \in SUBSET Ticket
  PROVE  Write(op, t, s, F) \in TodoItem
BY DEF Write, TodoItem

\* The writes after report, approve and reject are a mirror and a cascade.
LEMMA AftermathType ==
  ASSUME NEW t \in Ticket, NEW st \in TicketStatus
  PROVE  /\ Aftermath(t, st) \in Seq(TodoItem)
         /\ Items(Aftermath(t, st)) \subseteq {Mirror(t, "FAILED"), Cascade(t, {t}),
                                              Mirror(t, "COMPLETE"), Mirror(t, "REVIEW_READY")}
<1>1. /\ Mirror(t, "FAILED") \in TodoItem /\ Cascade(t, {t}) \in TodoItem
      /\ Mirror(t, "COMPLETE") \in TodoItem /\ Mirror(t, "REVIEW_READY") \in TodoItem
  BY WriteType DEF Mirror, Cascade, WriteOp, TaskState
<1>2. CASE st = "failed"
  BY <1>1, <1>2 DEF Aftermath, Items
<1>3. CASE st = "done"
  BY <1>1, <1>3 DEF Aftermath, Items, MirrorState
<1>4. CASE st = "in_review"
  BY <1>1, <1>4 DEF Aftermath, Items, MirrorState
<1>5. CASE st \notin {"failed", "done", "in_review"}
  BY <1>5 DEF Aftermath, Items
<1> QED
  BY <1>2, <1>3, <1>4, <1>5

\* Every step keeps the types.
LEMMA TypeStep == TypeOK /\ [Next]_vars => TypeOK'
<1> SUFFICES ASSUME TypeOK, [Next]_vars PROVE TypeOK'
  OBVIOUS
<1> USE DEF TypeOK
<1>0. ASSUME NEW t \in Ticket
      PROVE  /\ Score("score_report", t) \in TodoItem /\ Score("score_review", t) \in TodoItem
             /\ Mirror(t, "FAILED") \in TodoItem /\ Cascade(t, {t}) \in TodoItem
             /\ \A F \in SUBSET Ticket : Cascade(t, F) \in TodoItem
             /\ \A F \in SUBSET Ticket : Write("parked", t, "FAILED", F) \in TodoItem
             /\ Write("sweep", t, "FAILED", {}) \in TodoItem
             /\ Write("remirror", t, "FAILED", {}) \in TodoItem
             /\ \A st \in {"done", "in_review"} : Mirror(t, MirrorState(st)) \in TodoItem
  BY WriteType DEF Score, Mirror, Cascade, WriteOp, TaskState, MirrorState
<1>1. ASSUME NEW t \in Ticket, NEW parents \in SUBSET Ticket, Add(t, parents) PROVE TypeOK'
  BY <1>1, NewRowType DEF Add
<1>2. ASSUME NEW w \in Worker, NEW tier \in Tier, NEW t \in Ticket, Claim(w, tier, t)
      PROVE  TypeOK'
  <2>1. minted[t] + 1 \in Nat /\ row[t] \in Row
    OBVIOUS
  <2>2. ClaimedRow(row[t], w, tier, minted[t] + 1) \in Row
    BY <2>1, RowTypes
  <2> QED
    BY <1>2, <2>1, <2>2 DEF Claim
<1>3. ASSUME NEW g \in granted, NEW extend \in 1..(MaxExtend + 1),
             Renew(g[1], g[2], g[3], extend)
      PROVE  TypeOK'
  <2>1. extend \in Nat /\ g[2] \in Ticket /\ row[g[2]] \in Row
    BY BoundTypes
  <2>2. RenewedRow(row[g[2]], extend) \in Row
    BY <2>1, RowTypes
  <2> QED
    BY <1>3, <2>1, <2>2 DEF Renew
<1>4. ASSUME NEW g \in granted, NEW tier \in Tier, NEW ok \in BOOLEAN,
             Report(g[1], tier, g[2], g[3], ok)
      PROVE  TypeOK'
  <2> DEFINE t == g[2]
             new == ReportedRow(row[t], row[t].attempts, tier, g[3], ok)
  <2>1. t \in Ticket /\ row[t] \in Row /\ row[t].attempts \in Nat
    BY DEF Row
  <2>2. new \in Row
    BY <2>1, RowTypes
  <2>3. new.status \in TicketStatus
    BY DEF ReportedRow, NoLease, Row, TicketStatus
  <2>4. <<Score("score_report", t)>> \o Aftermath(t, new.status) \in Seq(TodoItem)
    BY <1>0, <2>1, <2>3, AftermathType, ConsItems
  <2>5. row' = [row EXCEPT ![t] = new]
        /\ todo' = <<Score("score_report", t)>> \o Aftermath(t, new.status)
    BY <1>4 DEF Report
  <2> QED
    BY <1>4, <2>1, <2>2, <2>4, <2>5 DEF Report
<1>5. ASSUME NEW t \in Ticket, ReportSettled(t) PROVE TypeOK'
  <2>1. todo' \in Seq(TodoItem)
    BY <1>0, <1>5 DEF ReportSettled
  <2> QED
    BY <1>5, <2>1 DEF ReportSettled
<1>6. ASSUME NEW t \in Ticket, Approve(t) PROVE TypeOK'
  <2>1. row[t] \in Row /\ ApprovedRow(row[t]) \in Row /\ row[t].ref \in Nat
    BY RowTypes DEF Row, Lease
  <2>2. todo' \in Seq(TodoItem)
    BY <1>0, <1>6, AftermathType, ConsItems DEF Approve, TicketStatus
  <2> QED
    BY <1>6, <2>1, <2>2 DEF Approve
<1>7. ASSUME NEW t \in Ticket, Reject(t) PROVE TypeOK'
  <2> DEFINE new == RejectedRow(row[t], row[t].attempts)
  <2>1. row[t] \in Row /\ row[t].attempts \in Nat
    BY DEF Row
  <2>2. new \in Row
    BY <2>1, RowTypes
  <2>3. new.status \in TicketStatus
    BY <2>1 DEF RejectedRow, NoLease, Row, TicketStatus
  <2>4. <<Score("score_review", t)>> \o Aftermath(t, new.status) \in Seq(TodoItem)
    BY <1>0, <2>3, AftermathType, ConsItems
  <2>5. row' = [row EXCEPT ![t] = new]
        /\ todo' = <<Score("score_review", t)>> \o Aftermath(t, new.status)
    BY <1>7 DEF Reject
  <2> QED
    BY <1>7, <2>2, <2>4, <2>5 DEF Reject
<1>8. ASSUME NEW t \in Ticket, RejectSettled(t) PROVE TypeOK'
  <2>1. todo' \in Seq(TodoItem)
    BY <1>0, <1>8 DEF RejectSettled
  <2> QED
    BY <1>8, <2>1 DEF RejectSettled
<1>9. ASSUME NEW c \in Ticket, NEW p \in Ticket, Link(c, p) PROVE TypeOK'
  BY <1>9 DEF Link
<1>10. ASSUME NEW k \in Task, CancelTask(k) PROVE TypeOK'
  BY <1>10 DEF CancelTask, TaskState
<1>11. ASSUME NEW k \in Task, CancelForTask(k) PROVE TypeOK'
  <2> DEFINE hit == {t \in Ticket : TaskOf[t] = k /\ Live(row[t])}
  <2>1. row' \in [Ticket -> Row]
    BY <1>11, RowTypes DEF CancelForTask
  <2>2. todo' \in Seq(TodoItem)
    <3>1. CASE hit = {}
      BY <1>11, <3>1 DEF CancelForTask
    <3>2. CASE hit # {}
      <4> DEFINE c == CHOOSE t \in hit : TRUE
      <4>1. c \in Ticket /\ hit \in SUBSET Ticket
        BY <3>2
      <4>2. todo' = <<Cascade(c, hit)>>
        BY <1>11, <3>2 DEF CancelForTask
      <4> HIDE DEF hit, c
      <4>3. Cascade(c, hit) \in TodoItem
        BY <1>0, <4>1
      <4> QED
        BY <4>2, <4>3
    <3> QED
      BY <3>1, <3>2
  <2> QED
    BY <1>11, <2>1, <2>2 DEF CancelForTask
<1>12. ASSUME Reap PROVE TypeOK'
  <2>1. row' \in [Ticket -> Row]
    BY <1>12, RowTypes DEF Reap
  <2> DEFINE parked == {t \in Ticket : Expired(row[t]) /\ row[t].attempts >= MaxAttempts}
             any == CHOOSE t \in Ticket : TRUE
  <2>2. any \in Ticket /\ parked \in SUBSET Ticket
    BY ConstantTypes
  <2>3. todo' = <<Write("parked", any, "FAILED", parked),
                  Write("sweep", any, "FAILED", {}),
                  Write("remirror", any, "FAILED", {})>>
    BY <1>12 DEF Reap
  <2> HIDE DEF parked, any
  <2> DEFINE x == Write("parked", any, "FAILED", parked)
             y == Write("sweep", any, "FAILED", {})
             z == Write("remirror", any, "FAILED", {})
  <2>4. x \in TodoItem /\ y \in TodoItem /\ z \in TodoItem /\ todo' = <<x, y, z>>
    BY <1>0, <2>2, <2>3
  <2> HIDE DEF x, y, z
  <2>5. todo' \in Seq(TodoItem)
    BY <2>4
  <2> QED
    BY <1>12, <2>1, <2>5 DEF Reap
<1>13. ASSUME todo # <<>>
       PROVE  /\ Head(todo) \in TodoItem /\ Tail(todo) \in Seq(TodoItem)
              /\ Head(todo).ticket \in Ticket /\ Head(todo).state \in TaskState
              /\ Head(todo).front \in SUBSET Ticket
              /\ \A x \in TodoItem : <<x>> \o Tail(todo) \in Seq(TodoItem)
  <2>1. Head(todo) \in TodoItem /\ Tail(todo) \in Seq(TodoItem)
    BY <1>13, TailItems
  <2> QED
    BY <2>1, ConsItems DEF TodoItem
<1>14. ASSUME RecordReport PROVE TypeOK'
  <2> DEFINE t == Head(todo).ticket
  <2>1. t \in Ticket /\ Tail(todo) \in Seq(TodoItem)
    BY <1>13, <1>14 DEF RecordReport, Next1
  <2> DEFINE n == scores[t].reports + 1
  <2>2. [scores[t] EXCEPT !.reports = n] \in [reports : Nat, reviews : Nat]
    <3>1. n \in Nat /\ scores[t] \in [reports : Nat, reviews : Nat]
      BY <2>1
    <3> HIDE DEF n
    <3> QED
      BY <3>1
  <2>3. scores' = [scores EXCEPT ![t] = [scores[t] EXCEPT !.reports = n]]
    BY <1>14 DEF RecordReport
  <2> HIDE DEF t, n
  <2>4. scores' \in [Ticket -> [reports : Nat, reviews : Nat]]
    BY <2>1, <2>2, <2>3
  <2> QED
    BY <1>14, <2>1, <2>4 DEF RecordReport
<1>15. ASSUME RecordReview PROVE TypeOK'
  <2> DEFINE t == Head(todo).ticket
  <2>1. t \in Ticket /\ Tail(todo) \in Seq(TodoItem)
    BY <1>13, <1>15 DEF RecordReview, Next1
  <2> DEFINE n == scores[t].reviews + 1
  <2>2. [scores[t] EXCEPT !.reviews = n] \in [reports : Nat, reviews : Nat]
    <3>1. n \in Nat /\ scores[t] \in [reports : Nat, reviews : Nat]
      BY <2>1
    <3> HIDE DEF n
    <3> QED
      BY <3>1
  <2>3. scores' = [scores EXCEPT ![t] = [scores[t] EXCEPT !.reviews = n]]
    BY <1>15 DEF RecordReview
  <2> HIDE DEF t, n
  <2>4. scores' \in [Ticket -> [reports : Nat, reviews : Nat]]
    BY <2>1, <2>2, <2>3
  <2> QED
    BY <1>15, <2>1, <2>4 DEF RecordReview
<1>16. ASSUME MirrorTaskState PROVE TypeOK'
  <2>1. TaskOf[Head(todo).ticket] \in Task \cup {None}
    BY <1>13, <1>16, ConstantTypes DEF MirrorTaskState, Next1
  <2>2. task' \in [Task -> TaskState]
    BY <1>13, <1>16, <2>1, ConvergeType DEF MirrorTaskState, Next1
  <2> QED
    BY <1>13, <1>16, <2>2 DEF MirrorTaskState, Next1
<1>17. ASSUME NEW c \in Ticket, CascadeStep(c) PROVE TypeOK'
  <2>1. TaskOf[c] \in Task \cup {None} /\ "FAILED" \in TaskState
    BY ConstantTypes DEF TaskState
  <2>2. task' \in [Task -> TaskState]
    BY <1>17, <2>1, ConvergeType DEF CascadeStep
  <2>3. row' \in [Ticket -> Row]
    BY <1>17, RowTypes DEF CascadeStep
  <2>4. todo' \in Seq(TodoItem)
    <3>1. Head(todo).front \cup {c} \in SUBSET Ticket
      BY <1>13, <1>17 DEF CascadeStep, Next1
    <3>2. Cascade(c, Head(todo).front \cup {c}) \in TodoItem
      BY <1>0, <3>1
    <3> QED
      BY <1>13, <1>17, <3>2 DEF CascadeStep, Next1
  <2> QED
    BY <1>17, <2>2, <2>3, <2>4 DEF CascadeStep
<1>18. ASSUME CascadeDone PROVE TypeOK'
  BY <1>13, <1>18 DEF CascadeDone, Next1
<1>19. ASSUME NEW t \in Ticket, FailParked(t) PROVE TypeOK'
  <2>1. TaskOf[t] \in Task \cup {None} /\ "FAILED" \in TaskState
    BY ConstantTypes DEF TaskState
  <2>2. task' \in [Task -> TaskState]
    BY <1>19, <2>1, ConvergeType DEF FailParked
  <2>3. todo' \in Seq(TodoItem)
    <3> DEFINE x == Cascade(t, {t})
               y == Write("parked", t, "FAILED", Head(todo).front \ {t})
    <3>1. Head(todo).front \ {t} \in SUBSET Ticket /\ Tail(todo) \in Seq(TodoItem)
      BY <1>13, <1>19 DEF FailParked, Next1
    <3>2. x \in TodoItem /\ y \in TodoItem
      BY <1>0, <3>1
    <3>3. todo' = <<x, y>> \o Tail(todo)
      BY <1>19 DEF FailParked
    <3> HIDE DEF x, y
    <3> QED
      BY <3>1, <3>2, <3>3
  <2> QED
    BY <1>19, <2>2, <2>3 DEF FailParked
<1>20. ASSUME ParkedDone PROVE TypeOK'
  BY <1>13, <1>20 DEF ParkedDone, Next1
<1>21. ASSUME Sweep PROVE TypeOK'
  <2> DEFINE dead == {t \in Ticket : Dead(row[t])}
  <2>1. Head(todo).ticket \in Ticket /\ dead \in SUBSET Ticket
    BY <1>13, <1>21 DEF Sweep, Next1
  <2>2. todo' = <<Cascade(Head(todo).ticket, dead)>> \o Tail(todo)
    BY <1>21 DEF Sweep
  <2> HIDE DEF dead
  <2>3. todo' \in Seq(TodoItem)
    BY <1>0, <1>13, <1>21, <2>1, <2>2 DEF Sweep, Next1
  <2> QED
    BY <1>21, <2>3 DEF Sweep
<1>22. ASSUME NEW t \in Ticket, Remirror(t) PROVE TypeOK'
  <2>1. TaskOf[t] \in Task \cup {None} /\ MirrorState(row[t].status) \in TaskState
    BY <1>22, ConstantTypes DEF Remirror, Desynced, MirrorState, TaskState
  <2>2. task' \in [Task -> TaskState]
    BY <1>22, <2>1, ConvergeType DEF Remirror
  <2> QED
    BY <1>22, <2>2 DEF Remirror
<1>23. ASSUME RemirrorDone PROVE TypeOK'
  BY <1>13, <1>23 DEF RemirrorDone, Next1
<1>24. ASSUME Tick PROVE TypeOK'
  <2>1. row' \in [Ticket -> Row]
    BY <1>24, RowTypes DEF Tick
  <2> QED
    BY <1>24, <2>1 DEF Tick
<1>25. ASSUME Crash PROVE TypeOK'
  BY <1>25 DEF Crash
<1>26. ASSUME UNCHANGED vars PROVE TypeOK'
  BY <1>26 DEF vars
<1> QED
  BY <1>1, <1>2, <1>3, <1>4, <1>5, <1>6, <1>7, <1>8, <1>9, <1>10, <1>11, <1>12,
     <1>14, <1>15, <1>16, <1>17, <1>18, <1>19, <1>20, <1>21, <1>22, <1>23, <1>24,
     <1>25, <1>26 DEF Next, Methods, Writes

\* The queue's state is always well formed.
THEOREM TypeCorrect == Spec => []TypeOK
<1>1. Init => TypeOK
  BY NewRowType, EmptySeq DEF Init, TypeOK, TaskState
<1> QED
  BY <1>1, TypeStep, PTL DEF Spec

----------------------------------------------------------------------------
(* What a step may do to one row, whatever the action.                     *)

Kept(t) == row'[t] = row[t] /\ minted'[t] = minted[t]

Born(t) ==
  /\ row[t].status = "absent" /\ minted'[t] = minted[t]
  /\ row'[t].attempts = 0
  /\ row'[t].status \in {"open", "parked"} /\ row'[t].park # "exhausted"

Taken(t) ==
  /\ row[t].status = "open" /\ row'[t].status = "claimed"
  /\ row'[t].attempts = row[t].attempts + 1 /\ minted'[t] = minted[t] + 1
  /\ row'[t].lease.token = minted'[t]
  /\ MayClaim(row'[t].lease.tier, t)
  /\ \A p \in deps[t] : row[p].status = "done"

\* The lease goes on, or ends with a result that keeps it in the row.
Carried(t) ==
  /\ row'[t].lease.token = row[t].lease.token
  /\ row'[t].lease.tier = row[t].lease.tier
  /\ \/ row[t].status = "claimed" /\ row'[t].status = "claimed"
     \/ /\ row[t].status = "claimed" /\ row'[t].ref = row[t].lease.token
        /\ \/ row'[t].status = "in_review"
           \/ row'[t].status = "done" /\ row[t].lease.tier = LocalOnly
     \/ /\ row[t].status = "in_review" /\ row'[t].status = "done"
        /\ row'[t].ref = row[t].ref /\ <<t, row[t].ref>> \in approved'

Returned(t) ==
  /\ row[t].status \in {"claimed", "in_review"} /\ row'[t].status = "open"
  /\ row[t].attempts < MaxAttempts

Buried(t) == Live(row[t]) /\ Dead(row'[t])

Move(t) ==
  \/ Kept(t) \/ Born(t) \/ Taken(t)
  \/ /\ row'[t].attempts = row[t].attempts /\ minted'[t] = minted[t]
     /\ Carried(t) \/ Returned(t) \/ Buried(t)

\* Every step moves every row in one of these ways.
LEMMA RowMoves ==
  ASSUME TypeOK, [Next]_vars, NEW t \in Ticket
  PROVE  Move(t) /\ approved \subseteq approved'
<1> USE DEF TypeOK
<1>0. row[t] \in Row /\ row[t].attempts \in Nat /\ minted[t] \in Nat
  BY DEF Row
<1>1. ASSUME NEW u \in Ticket, NEW parents \in SUBSET Ticket, Add(u, parents)
      PROVE  Move(t) /\ approved \subseteq approved'
  <2>1. CASE t # u
    BY <1>1, <2>1 DEF Add, Move, Kept
  <2>2. CASE t = u
    <3>1. row'[t] = NewRow(t) /\ row[t].status = "absent" /\ UNCHANGED <<minted, approved>>
      BY <1>1, <2>2 DEF Add, Added
    <3>2. NewRow(t).attempts = 0 /\ NewRow(t).status \in {"open", "parked"}
          /\ NewRow(t).park # "exhausted"
      BY DEF NewRow, AbsentRow
    <3> QED
      BY <3>1, <3>2 DEF Move, Born
  <2> QED
    BY <2>1, <2>2
<1>2. ASSUME NEW w \in Worker, NEW tier \in Tier, NEW u \in Ticket, Claim(w, tier, u)
      PROVE  Move(t) /\ approved \subseteq approved'
  <2>1. CASE t # u
    BY <1>2, <2>1 DEF Claim, Move, Kept
  <2>2. CASE t = u
    <3> DEFINE n == minted[t] + 1
    <3>1. row'[t] = ClaimedRow(row[t], w, tier, n) /\ minted'[t] = n
          /\ UNCHANGED approved
      BY <1>2, <2>2 DEF Claim
    <3>2. /\ ClaimedRow(row[t], w, tier, n).status = "claimed"
          /\ ClaimedRow(row[t], w, tier, n).attempts = row[t].attempts + 1
          /\ ClaimedRow(row[t], w, tier, n).lease.token = n
          /\ ClaimedRow(row[t], w, tier, n).lease.tier = tier
      BY <1>0 DEF ClaimedRow, Row
    <3>3. row[t].status = "open" /\ MayClaim(tier, t)
          /\ \A p \in deps[t] : row[p].status = "done"
      BY <1>2, <2>2 DEF Claim, Claimable
    <3> QED
      BY <3>1, <3>2, <3>3 DEF Move, Taken
  <2> QED
    BY <2>1, <2>2
<1>3. ASSUME NEW g \in granted, NEW extend \in 1..(MaxExtend + 1),
             Renew(g[1], g[2], g[3], extend)
      PROVE  Move(t) /\ approved \subseteq approved'
  <2>1. CASE t # g[2]
    BY <1>3, <2>1 DEF Renew, Move, Kept
  <2>2. CASE t = g[2]
    <3>1. row'[t] = RenewedRow(row[t], extend) /\ row[t].status = "claimed"
          /\ UNCHANGED <<minted, approved>>
      BY <1>3, <2>2 DEF Renew, HoldsLease
    <3>2. /\ RenewedRow(row[t], extend).status = row[t].status
          /\ RenewedRow(row[t], extend).attempts = row[t].attempts
          /\ RenewedRow(row[t], extend).lease.token = row[t].lease.token
          /\ RenewedRow(row[t], extend).lease.tier = row[t].lease.tier
      BY <1>0 DEF RenewedRow, Row, Lease
    <3> QED
      BY <3>1, <3>2 DEF Move, Carried
  <2> QED
    BY <2>1, <2>2
<1>4. ASSUME NEW g \in granted, NEW tier \in Tier, NEW ok \in BOOLEAN,
             Report(g[1], tier, g[2], g[3], ok)
      PROVE  Move(t) /\ approved \subseteq approved'
  <2>1. CASE t # g[2]
    BY <1>4, <2>1 DEF Report, Move, Kept
  <2>2. CASE t = g[2]
    <3> DEFINE new == ReportedRow(row[t], row[t].attempts, tier, g[3], ok)
    <3>1. /\ row'[t] = new /\ row[t].status = "claimed" /\ UNCHANGED <<minted, approved>>
          /\ row[t].lease.token = g[3]
      BY <1>4, <2>2 DEF Report, HoldsLease
    <3>2. new.attempts = row[t].attempts
      BY <1>0 DEF ReportedRow, NoLease, Row
    <3>3. CASE ~ok
      <4>1. \/ new.status = "open" /\ row[t].attempts < MaxAttempts
            \/ new.status = "failed"
        BY <1>0, <3>3 DEF ReportedRow, NoLease, Row
      <4> HIDE DEF new
      <4> QED
        BY <3>1, <3>2, <4>1 DEF Move, Returned, Buried, Live, Dead, Added, TerminalStatus
    <3>4. CASE ok
      <4>1. /\ new.lease = row[t].lease /\ new.ref = g[3]
            /\ \/ new.status = "in_review"
               \/ new.status = "done" /\ row[t].lease.tier = LocalOnly
        BY <1>0, <3>4 DEF ReportedRow, Row
      <4> HIDE DEF new
      <4> QED
        BY <3>1, <3>2, <4>1 DEF Move, Carried
    <3> QED
      BY <3>3, <3>4
  <2> QED
    BY <2>1, <2>2
<1>5. ASSUME NEW u \in Ticket, Approve(u) PROVE Move(t) /\ approved \subseteq approved'
  <2>1. CASE t # u
    BY <1>5, <2>1 DEF Approve, Move, Kept
  <2>2. CASE t = u
    <3>1. /\ row'[t] = ApprovedRow(row[t]) /\ row[t].status = "in_review"
          /\ approved' = approved \cup {<<t, row[t].ref>>} /\ UNCHANGED minted
      BY <1>5, <2>2 DEF Approve
    <3>2. /\ ApprovedRow(row[t]).status = "done" /\ ApprovedRow(row[t]).lease = row[t].lease
          /\ ApprovedRow(row[t]).ref = row[t].ref
          /\ ApprovedRow(row[t]).attempts = row[t].attempts
      BY <1>0 DEF ApprovedRow, Row
    <3> QED
      BY <3>1, <3>2 DEF Move, Carried
  <2> QED
    BY <2>1, <2>2
<1>6. ASSUME NEW u \in Ticket, Reject(u) PROVE Move(t) /\ approved \subseteq approved'
  <2>1. CASE t # u
    BY <1>6, <2>1 DEF Reject, Move, Kept
  <2>2. CASE t = u
    <3> DEFINE new == RejectedRow(row[t], row[t].attempts)
    <3>1. row'[t] = new /\ row[t].status = "in_review" /\ UNCHANGED <<minted, approved>>
      BY <1>6, <2>2 DEF Reject
    <3>2. /\ new.attempts = row[t].attempts
          /\ \/ new.status = "open" /\ row[t].attempts < MaxAttempts
             \/ new.status = "failed"
      BY <1>0 DEF RejectedRow, NoLease, Row
    <3> HIDE DEF new
    <3> QED
      BY <3>1, <3>2 DEF Move, Returned, Buried, Live, Dead, Added, TerminalStatus
  <2> QED
    BY <2>1, <2>2
<1>7. ASSUME NEW k \in Task, CancelForTask(k) PROVE Move(t) /\ approved \subseteq approved'
  <2>1. \/ row'[t] = row[t]
        \/ row'[t] = CancelledRow(row[t]) /\ Live(row[t])
    BY <1>7 DEF CancelForTask
  <2>2. UNCHANGED <<minted, approved>>
    BY <1>7 DEF CancelForTask
  <2> QED
    BY <1>0, <2>1, <2>2, DeadRows DEF Move, Kept, Buried
<1>8. ASSUME Reap PROVE Move(t) /\ approved \subseteq approved'
  <2>1. UNCHANGED <<minted, approved>>
        /\ row'[t] = IF Expired(row[t]) THEN ReapedRow(row[t]) ELSE row[t]
    BY <1>8 DEF Reap
  <2>2. CASE ~Expired(row[t])
    BY <2>1, <2>2 DEF Move, Kept
  <2>3. CASE Expired(row[t])
    <3>1. /\ ReapedRow(row[t]).attempts = row[t].attempts
          /\ \/ ReapedRow(row[t]).status = "open" /\ row[t].attempts < MaxAttempts
             \/ ReapedRow(row[t]).status = "parked" /\ ReapedRow(row[t]).park = "exhausted"
      BY <1>0 DEF ReapedRow, NoLease, Row
    <3>2. row'[t] = ReapedRow(row[t]) /\ row[t].status = "claimed"
      BY <2>1, <2>3 DEF Expired
    <3> QED
      BY <2>1, <3>1, <3>2 DEF Move, Returned, Buried, Live, Dead, Added, TerminalStatus
  <2> QED
    BY <2>2, <2>3
<1>9. ASSUME NEW c \in Ticket, CascadeStep(c) PROVE Move(t) /\ approved \subseteq approved'
  <2>1. UNCHANGED <<minted, approved>>
        /\ \/ row'[t] = row[t]
           \/ row'[t] = CascadedRow(row[t]) /\ Live(row[t])
    BY <1>9 DEF CascadeStep
  <2> QED
    BY <1>0, <2>1, DeadRows DEF Move, Kept, Buried
<1>10. ASSUME Tick PROVE Move(t) /\ approved \subseteq approved'
  <2>1. UNCHANGED <<minted, approved>> /\ row'[t] = TickedRow(row[t])
    BY <1>10 DEF Tick
  <2>2. \/ TickedRow(row[t]) = row[t]
        \/ /\ row[t].status = "claimed"
           /\ TickedRow(row[t]).status = row[t].status
           /\ TickedRow(row[t]).attempts = row[t].attempts
           /\ TickedRow(row[t]).lease.token = row[t].lease.token
           /\ TickedRow(row[t]).lease.tier = row[t].lease.tier
    BY <1>0 DEF TickedRow, Row, Lease
  <2> QED
    BY <2>1, <2>2 DEF Move, Kept, Carried
<1>11. ASSUME UNCHANGED <<row, minted, approved>> PROVE Move(t) /\ approved \subseteq approved'
  BY <1>11 DEF Move, Kept
<1> QED
  BY <1>1, <1>2, <1>3, <1>4, <1>5, <1>6, <1>7, <1>8, <1>9, <1>10, <1>11
     DEF Next, Methods, Writes, vars, ReportSettled, RejectSettled, Link, CancelTask,
         RecordReport, RecordReview, MirrorTaskState, CascadeDone, FailParked,
         ParkedDone, Sweep, Remirror, RemirrorDone, Crash

\* Final and dead rows stay so; a ticket once added stays added.
LEMMA Stable ==
  ASSUME TypeOK, [Next]_vars, NEW t \in Ticket
  PROVE  /\ row[t].status \in TerminalStatus => row'[t] = row[t]
         /\ Dead(row[t]) => Dead(row'[t])
         /\ Added(row[t]) => Added(row'[t])
<1>1. Move(t)
  BY RowMoves
<1>2. row[t].status \in TerminalStatus => Kept(t)
  BY <1>1 DEF Move, Born, Taken, Carried, Returned, Buried, Live, TerminalStatus
<1>3. Dead(row[t]) => Kept(t) \/ Buried(t)
  BY <1>1 DEF Move, Born, Taken, Carried, Returned, Dead
<1>4. Added(row[t]) => Added(row'[t])
  BY <1>1 DEF Move, Kept, Born, Taken, Carried, Returned, Buried, Dead, Added
<1> QED
  BY <1>2, <1>3, <1>4 DEF Kept, Buried

\* Attempts, tokens and status of a row stay in step.
LEMMA RowInvStep ==
  ASSUME TypeOK, RowInv, [Next]_vars
  PROVE  RowInv'
<1> SUFFICES ASSUME NEW t \in Ticket
             PROVE  /\ row'[t].status = "absent" => row'[t].attempts = 0
                    /\ row'[t].attempts <= MaxAttempts
                    /\ row'[t].status = "open" => row'[t].attempts < MaxAttempts
                    /\ minted'[t] = row'[t].attempts
                    /\ row'[t].status = "claimed" => row'[t].lease.token = minted'[t]
                    /\ row'[t].status \in {"in_review", "done"} => row'[t].ref = minted'[t]
                    /\ row'[t].status = "claimed" => MayClaim(row'[t].lease.tier, t)
                    /\ row'[t].status = "done" =>
                         \/ row'[t].lease.tier = LocalOnly
                         \/ <<t, row'[t].ref>> \in approved'
  BY DEF RowInv, MayClaim
<1>1. Move(t) /\ approved \subseteq approved'
  BY RowMoves
<1>2. row[t].attempts \in Nat /\ minted[t] \in Nat /\ MaxAttempts \in Nat \ {0}
  BY BoundTypes DEF TypeOK, Row
<1>0. /\ row[t].status = "absent" => row[t].attempts = 0
      /\ row[t].attempts <= MaxAttempts
      /\ row[t].status = "open" => row[t].attempts < MaxAttempts
      /\ minted[t] = row[t].attempts
      /\ row[t].status = "claimed" => row[t].lease.token = minted[t]
      /\ row[t].status \in {"in_review", "done"} => row[t].ref = minted[t]
      /\ row[t].status = "claimed" => MayClaim(row[t].lease.tier, t)
      /\ row[t].status = "done" =>
           row[t].lease.tier = LocalOnly \/ <<t, row[t].ref>> \in approved
  BY DEF RowInv
<1>3. CASE Kept(t)
  BY <1>0, <1>1, <1>3 DEF Kept
<1>4. CASE Born(t)
  BY <1>0, <1>2, <1>4 DEF Born
<1>5. CASE Taken(t)
  <2>1. /\ row'[t].status = "claimed" /\ row'[t].lease.token = minted'[t]
        /\ MayClaim(row'[t].lease.tier, t)
    BY <1>5 DEF Taken
  <2>2. row'[t].attempts <= MaxAttempts /\ minted'[t] = row'[t].attempts
    BY <1>0, <1>2, <1>5 DEF Taken
  <2> QED
    BY <2>1, <2>2
<1>6. CASE row'[t].attempts = row[t].attempts /\ minted'[t] = minted[t] /\ Carried(t)
  <2>1. /\ row'[t].status \in {"claimed", "in_review", "done"}
        /\ row[t].status \in {"claimed", "in_review"}
        /\ row'[t].status = "claimed" => row[t].status = "claimed"
        /\ row'[t].lease.token = row[t].lease.token
        /\ row'[t].lease.tier = row[t].lease.tier
    BY <1>6 DEF Carried
  <2>4. row'[t].status \in {"in_review", "done"} => row'[t].ref = minted'[t]
    BY <1>0, <1>6 DEF Carried
  <2>2. row'[t].status = "claimed" => MayClaim(row'[t].lease.tier, t)
    BY <1>0, <2>1
  <2>3. row'[t].status = "done" =>
          row'[t].lease.tier = LocalOnly \/ <<t, row'[t].ref>> \in approved'
    BY <1>6 DEF Carried
  <2> QED
    BY <1>0, <1>6, <2>1, <2>2, <2>3, <2>4
<1>7. CASE row'[t].attempts = row[t].attempts /\ minted'[t] = minted[t] /\ Returned(t)
  BY <1>0, <1>2, <1>7 DEF Returned
<1>8. CASE row'[t].attempts = row[t].attempts /\ minted'[t] = minted[t] /\ Buried(t)
  BY <1>0, <1>2, <1>8 DEF Buried, Dead
<1> QED
  BY <1>1, <1>3, <1>4, <1>5, <1>6, <1>7, <1>8 DEF Move

----------------------------------------------------------------------------
(* Edges.                                                                  *)

\* Edges appear only under tickets that nobody works on, between added
\* tickets, and never down to a lower class.
LEMMA DepMoves ==
  ASSUME TypeOK, [Next]_vars, NEW c \in Ticket
  PROVE  /\ deps'[c] = deps[c] \/ row'[c].status \notin {"claimed", "in_review"}
         /\ \A p \in deps'[c] : \/ p \in deps[c]
                                \/ Added(row'[c]) /\ Added(row'[p]) /\ NoDowngrade(c, p)
<1> USE DEF TypeOK
<1>1. ASSUME NEW u \in Ticket, NEW parents \in SUBSET Ticket, Add(u, parents), c = u
      PROVE  /\ row'[c].status \notin {"claimed", "in_review", "absent"}
             /\ deps'[c] = parents
             /\ \A p \in parents : Added(row'[p]) /\ NoDowngrade(c, p)
  <2>1. row'[c] = NewRow(c) /\ deps'[c] = parents
        /\ \A p \in parents : Added(row[p]) /\ NoDowngrade(c, p)
    BY <1>1 DEF Add
  <2>2. NewRow(c).status \in {"open", "parked"}
    BY DEF NewRow, AbsentRow
  <2>3. ASSUME NEW p \in parents PROVE Added(row'[p])
    BY <2>1, Stable
  <2> QED
    BY <2>1, <2>2, <2>3
<1>2. ASSUME NEW u \in Ticket, NEW p \in Ticket, Link(u, p), c = u
      PROVE  /\ row' = row /\ row[c].status \notin {"claimed", "in_review"}
             /\ deps'[c] = deps[c] \cup {p}
             /\ Added(row[c]) /\ Added(row[p]) /\ NoDowngrade(c, p)
  BY <1>2 DEF Link, Linkable
<1>3. \/ \E u \in Ticket, parents \in SUBSET Ticket : Add(u, parents) /\ c = u
      \/ \E u, p \in Ticket : Link(u, p) /\ c = u
      \/ deps'[c] = deps[c]
  BY DEF Next, Methods, Writes, vars, Add, Claim, Renew, Report, ReportSettled, Approve,
         Reject, RejectSettled, Link, CancelTask, CancelForTask, Reap, RecordReport,
         RecordReview, MirrorTaskState, CascadeStep, CascadeDone, FailParked, ParkedDone,
         Sweep, Remirror, RemirrorDone, Tick, Crash
<1>4. CASE \E u \in Ticket, parents \in SUBSET Ticket : Add(u, parents) /\ c = u
  BY <1>1, <1>4 DEF Added
<1>5. CASE \E u, p \in Ticket : Link(u, p) /\ c = u
  BY <1>2, <1>5
<1> QED
  BY <1>3, <1>4, <1>5

\* Edges lie between added tickets and never lower the privacy class.
LEMMA EdgeInvStep ==
  ASSUME TypeOK, EdgeInv, [Next]_vars
  PROVE  EdgeInv'
<1> SUFFICES ASSUME NEW c \in Ticket, NEW p \in deps'[c]
             PROVE  Added(row'[c]) /\ Added(row'[p]) /\ NoDowngrade(c, p)
  BY DEF EdgeInv, Added, NoDowngrade
<1>1. CASE p \in deps[c]
  <2>1. p \in Ticket
    BY <1>1 DEF TypeOK
  <2> QED
    BY <1>1, <2>1, Stable DEF EdgeInv
<1> QED
  BY <1>1, DepMoves

\* Work that is held keeps its parents, and they stay done.
LEMMA DependencyGateStep ==
  ASSUME TypeOK, DependencyGate, [Next]_vars
  PROVE  DependencyGate'
<1> SUFFICES ASSUME NEW t \in Ticket, row'[t].status \in {"claimed", "in_review"},
                    NEW p \in deps'[t]
             PROVE  row'[p].status = "done"
  BY DEF DependencyGate
<1>1. deps'[t] = deps[t] /\ p \in Ticket
  BY DepMoves DEF TypeOK
<1>2. row[p].status = "done"
  <2>1. Move(t)
    BY RowMoves
  <2>2. CASE Taken(t)
    BY <1>1, <2>2 DEF Taken
  <2>3. CASE ~Taken(t)
    <3>1. row[t].status \in {"claimed", "in_review"}
      BY <2>1, <2>3 DEF Move, Kept, Born, Carried, Returned, Buried, Dead
    <3> QED
      BY <1>1, <3>1 DEF DependencyGate
  <2> QED
    BY <2>2, <2>3
<1> QED
  BY <1>1, <1>2, Stable DEF TerminalStatus

\* A new ticket closes no circle, for nothing depends on it yet; a link
\* closes none, for it looks first (add, link).
LEMMA AcyclicStep ==
  ASSUME TypeOK, EdgeInv, Acyclic, [Next]_vars
  PROVE  Acyclic'
<1> USE DEF TypeOK
<1>0. AcyclicIn(deps)
  BY DEF Acyclic, AcyclicIn
<1>1. ASSUME NEW u \in Ticket, NEW parents \in SUBSET Ticket, Add(u, parents)
      PROVE  AcyclicIn(deps')
  <2>1. u \notin parents /\ deps' = [deps EXCEPT ![u] = parents] /\ ~Added(row[u])
    BY <1>1 DEF Add
  <2>2. \A t \in Ticket : u \notin deps[t]
    BY <2>1 DEF EdgeInv
  <2> QED
    BY <1>0, <2>1, <2>2, AcyclicAdd
<1>2. ASSUME NEW c \in Ticket, NEW p \in Ticket, Link(c, p)
      PROVE  AcyclicIn(deps')
  BY <1>0, <1>2, AcyclicLink DEF Link, Linkable
<1>3. \/ \E u \in Ticket, parents \in SUBSET Ticket : Add(u, parents)
      \/ \E c, p \in Ticket : Link(c, p)
      \/ deps' = deps
  BY DEF Next, Methods, Writes, vars, Add, Claim, Renew, Report, ReportSettled, Approve,
         Reject, RejectSettled, Link, CancelTask, CancelForTask, Reap, RecordReport,
         RecordReview, MirrorTaskState, CascadeStep, CascadeDone, FailParked, ParkedDone,
         Sweep, Remirror, RemirrorDone, Tick, Crash
<1>4. AcyclicIn(deps')
  BY <1>0, <1>1, <1>2, <1>3
<1> QED
  BY <1>4 DEF Acyclic, AcyclicIn

----------------------------------------------------------------------------
(* Pending writes.                                                         *)

\* A pending write stays true: dead rows stay dead and done rows done.
LEMMA WriteStays ==
  ASSUME TypeOK, [Next]_vars, NEW x \in TodoItem, WriteTrue(row, x)
  PROVE  WriteTrue(row', x)
<1>1. x.front \subseteq Ticket /\ x.ticket \in Ticket
  BY DEF TodoItem
<1>2. \A t \in Ticket : Dead(row[t]) => Dead(row'[t])
  BY Stable
<1>3. row[x.ticket].status = "done" => row'[x.ticket].status = "done"
  BY <1>1, Stable DEF TerminalStatus
<1>4. x.op \in {"cascade", "parked"} => \A t \in x.front : Dead(row'[t])
  BY <1>1, <1>2 DEF WriteTrue
<1>5. x.op = "mirror" =>
        /\ x.state = "FAILED" => Dead(row'[x.ticket])
        /\ x.state = "COMPLETE" => row'[x.ticket].status = "done"
        /\ x.state \in {"FAILED", "COMPLETE", "REVIEW_READY"}
  BY <1>1, <1>2, <1>3 DEF WriteTrue
<1> QED
  BY <1>4, <1>5 DEF WriteTrue

\* The writes a method queues are true of the rows it has just committed.
LEMMA QueuedTrue ==
  ASSUME NEW rows, NEW t \in Ticket, NEW S \in SUBSET Ticket
  PROVE  /\ \A op \in ScoreOp : WriteTrue(rows, Score(op, t))
         /\ (\A u \in S : Dead(rows[u])) => WriteTrue(rows, Cascade(t, S))
         /\ (\A u \in S : Dead(rows[u])) => WriteTrue(rows, Write("parked", t, "FAILED", S))
         /\ WriteTrue(rows, Write("sweep", t, "FAILED", S))
         /\ WriteTrue(rows, Write("remirror", t, "FAILED", S))
         /\ Dead(rows[t]) => WriteTrue(rows, Mirror(t, "FAILED"))
         /\ rows[t].status = "done" => WriteTrue(rows, Mirror(t, "COMPLETE"))
         /\ WriteTrue(rows, Mirror(t, "REVIEW_READY"))
BY DEF WriteTrue, Score, Cascade, Write, Mirror, ScoreOp

\* The writes that a method leaves to do are well formed.
LEMMA ItemTypes ==
  ASSUME NEW t \in Ticket, NEW S \in SUBSET Ticket
  PROVE  /\ Score("score_report", t) \in TodoItem /\ Score("score_review", t) \in TodoItem
         /\ Cascade(t, S) \in TodoItem /\ Write("parked", t, "FAILED", S) \in TodoItem
BY WriteType DEF Score, Cascade, WriteOp, TaskState

\* The items of short sequences.
LEMMA FewItems ==
  ASSUME NEW a, NEW b, NEW c
  PROVE  /\ Items(<<a>>) = {a} /\ Items(<<a, b>>) = {a, b}
         /\ Items(<<a, b, c>>) = {a, b, c}
BY DEF Items

\* What report, approve and reject queue after the evaluation.
LEMMA AftermathTrue ==
  ASSUME NEW t \in Ticket, NEW status, NEW x \in Items(Aftermath(t, status)),
         status = row'[t].status
  PROVE  WriteTrue(row', x)
<1>1. CASE status = "failed"
  <2>1. x \in {Mirror(t, "FAILED"), Cascade(t, {t})}
    BY <1>1, FewItems DEF Aftermath
  <2>2. Dead(row'[t])
    BY <1>1 DEF Dead
  <2> QED
    BY <2>1, <2>2, QueuedTrue
<1>2. CASE status = "done"
  <2>1. x = Mirror(t, "COMPLETE")
    BY <1>2, FewItems DEF Aftermath, MirrorState
  <2> QED
    BY <1>2, <2>1, QueuedTrue
<1>3. CASE status = "in_review"
  <2>1. x = Mirror(t, "REVIEW_READY")
    BY <1>3, FewItems DEF Aftermath, MirrorState
  <2> QED
    BY <1>3, <2>1, QueuedTrue
<1>4. CASE status \notin {"failed", "done", "in_review"}
  BY <1>4, NoItems DEF Aftermath
<1> QED
  BY <1>1, <1>2, <1>3, <1>4

\* Every write pending after a step was pending before it or is true now.
LEMMA NewWrites ==
  ASSUME TypeOK, TodoInv, [Next]_vars, NEW x \in Items(todo')
  PROVE  x \in Items(todo) \/ WriteTrue(row', x)
<1> USE DEF TypeOK
<1>0. ASSUME todo # <<>>
      PROVE  Head(todo) \in TodoItem /\ Head(todo) \in Items(todo)
             /\ Tail(todo) \in Seq(TodoItem) /\ Items(Tail(todo)) \subseteq Items(todo)
  BY <1>0, TailItems
<1>1. ASSUME NEW g \in granted, NEW tier \in Tier, NEW ok \in BOOLEAN,
             Report(g[1], tier, g[2], g[3], ok)
      PROVE  WriteTrue(row', x)
  <2> DEFINE t == g[2]
             new == ReportedRow(row[t], row[t].attempts, tier, g[3], ok)
             a == Score("score_report", t)
  <2>1. t \in Ticket
    OBVIOUS
  <2>2. row'[t] = new /\ todo' = <<a>> \o Aftermath(t, new.status)
    BY <1>1, <2>1 DEF Report
  <2>0. new.status \in TicketStatus
    BY <1>1, <2>1, TypeStep DEF Report, ReportedRow, NoLease, Row, TicketStatus
  <2>3. Items(todo') = {a} \cup Items(Aftermath(t, new.status))
    BY <2>0, <2>1, <2>2, ItemTypes, AftermathType, ConsItems
  <2>4. WriteTrue(row', a)
    BY <2>1, QueuedTrue DEF ScoreOp
  <2> HIDE DEF a, new, t
  <2> QED
    BY <2>1, <2>2, <2>3, <2>4, AftermathTrue
<1>2. ASSUME NEW t \in Ticket, ReportSettled(t) PROVE WriteTrue(row', x)
  <2>1. row' = row /\ row[t].status \in {"failed", "done", "in_review"}
    BY <1>2 DEF ReportSettled
  <2>2. CASE row[t].status = "failed"
    <3>1. x \in {Cascade(t, {t}), Mirror(t, "FAILED")}
      BY <1>2, <2>2, FewItems DEF ReportSettled
    <3>2. Dead(row'[t]) /\ {t} \in SUBSET Ticket
      BY <2>1, <2>2 DEF Dead
    <3>3. \A u \in {t} : Dead(row'[u])
      BY <3>2
    <3> QED
      BY <3>1, <3>2, <3>3, QueuedTrue
  <2>3. CASE row[t].status # "failed"
    <3>1. x = Mirror(t, MirrorState(row[t].status))
      BY <1>2, <2>3, FewItems DEF ReportSettled
    <3>2. \/ x = Mirror(t, "COMPLETE") /\ row'[t].status = "done"
          \/ x = Mirror(t, "REVIEW_READY")
      BY <2>1, <2>3, <3>1 DEF MirrorState
    <3> QED
      BY <3>2 DEF WriteTrue, Mirror, Write
  <2> QED
    BY <2>2, <2>3
<1>3. ASSUME NEW t \in Ticket, Approve(t) PROVE WriteTrue(row', x)
  <2> DEFINE a == Score("score_review", t)
  <2>1. row'[t].status = "done" /\ todo' = <<a>> \o Aftermath(t, "done")
    BY <1>3 DEF Approve, ApprovedRow, Row
  <2>2. Items(todo') = {a} \cup Items(Aftermath(t, "done"))
    BY <2>1, ItemTypes, AftermathType, ConsItems DEF TicketStatus
  <2>3. WriteTrue(row', a)
    BY QueuedTrue DEF ScoreOp
  <2> HIDE DEF a
  <2> QED
    BY <2>1, <2>2, <2>3, AftermathTrue
<1>4. ASSUME NEW t \in Ticket, Reject(t) PROVE WriteTrue(row', x)
  <2> DEFINE a == Score("score_review", t)
             new == RejectedRow(row[t], row[t].attempts)
  <2>1. row'[t] = new /\ todo' = <<a>> \o Aftermath(t, new.status)
    BY <1>4 DEF Reject
  <2>0. new.status \in TicketStatus
    BY DEF RejectedRow, NoLease, Row, TicketStatus
  <2>2. Items(todo') = {a} \cup Items(Aftermath(t, new.status))
    BY <2>0, <2>1, ItemTypes, AftermathType, ConsItems
  <2>3. WriteTrue(row', a)
    BY QueuedTrue DEF ScoreOp
  <2> HIDE DEF a, new
  <2> QED
    BY <2>1, <2>2, <2>3, AftermathTrue
<1>5. ASSUME NEW t \in Ticket, RejectSettled(t) PROVE WriteTrue(row', x)
  <2>1. x \in {Cascade(t, {t}), Mirror(t, "FAILED")}
    BY <1>5, FewItems DEF RejectSettled
  <2>2. Dead(row'[t])
    BY <1>5 DEF RejectSettled, Dead
  <2> QED
    BY <2>1, <2>2, QueuedTrue
<1>6. ASSUME NEW k \in Task, CancelForTask(k) PROVE WriteTrue(row', x)
  <2> DEFINE hit == {t \in Ticket : TaskOf[t] = k /\ Live(row[t])}
             first == CHOOSE t \in hit : TRUE
  <2>1. /\ row' = [t \in Ticket |-> IF t \in hit THEN CancelledRow(row[t]) ELSE row[t]]
        /\ todo' = IF hit = {} THEN <<>> ELSE <<Cascade(first, hit)>>
    BY <1>6 DEF CancelForTask
  <2>2. hit \in SUBSET Ticket /\ (hit # {} => first \in hit)
    OBVIOUS
  <2> HIDE DEF hit, first
  <2>3. \A t \in hit : Dead(row'[t])
    BY <2>1, <2>2, DeadRows
  <2>4. hit # {} /\ x = Cascade(first, hit)
    BY <2>1, NoItems, FewItems
  <2> QED
    BY <2>2, <2>3, <2>4, QueuedTrue
<1>7. ASSUME Reap PROVE WriteTrue(row', x)
  <2> DEFINE parked == {t \in Ticket : Expired(row[t]) /\ row[t].attempts >= MaxAttempts}
             any == CHOOSE t \in Ticket : TRUE
  <2>1. /\ row' = [t \in Ticket |-> IF Expired(row[t]) THEN ReapedRow(row[t]) ELSE row[t]]
        /\ todo' = <<Write("parked", any, "FAILED", parked),
                     Write("sweep", any, "FAILED", {}),
                     Write("remirror", any, "FAILED", {})>>
    BY <1>7 DEF Reap
  <2>2. any \in Ticket /\ parked \in SUBSET Ticket
    BY ConstantTypes
  <2>3. ASSUME NEW t \in parked PROVE Dead(row'[t])
    <3>1. row'[t] = ReapedRow(row[t]) /\ row[t] \in Row /\ row[t].attempts >= MaxAttempts
          /\ row[t].attempts \in Nat
      BY <2>1 DEF Row
    <3> QED
      BY <3>1, BoundTypes DEF ReapedRow, NoLease, Dead, Row
  <2> HIDE DEF parked, any
  <2>4. x \in {Write("parked", any, "FAILED", parked),
               Write("sweep", any, "FAILED", {}),
               Write("remirror", any, "FAILED", {})}
    BY <2>1, FewItems
  <2>5. CASE x = Write("parked", any, "FAILED", parked)
    BY <2>2, <2>3, <2>5, QueuedTrue
  <2>6. CASE x # Write("parked", any, "FAILED", parked)
    BY <2>4, <2>6 DEF WriteTrue, Write
  <2> QED
    BY <2>5, <2>6
<1>8. ASSUME NEW c \in Ticket, CascadeStep(c) PROVE x \in Items(todo) \/ WriteTrue(row', x)
  <2> DEFINE front == Head(todo).front
             a == Cascade(c, front \cup {c})
  <2>1. /\ todo # <<>> /\ Head(todo).op = "cascade" /\ todo' = <<a>> \o Tail(todo)
        /\ row'[c] = CascadedRow(row[c])
    BY <1>8 DEF CascadeStep, Next1
  <2>2. front \in SUBSET Ticket /\ \A t \in front : Dead(row[t])
    BY <1>0, <2>1 DEF TodoInv, WriteTrue, TodoItem
  <2>3. \A t \in front \cup {c} : Dead(row'[t])
    BY <2>1, <2>2, DeadRows, Stable
  <2> HIDE DEF front
  <2>4. Items(todo') = {a} \cup Items(Tail(todo))
    <3>1. a \in TodoItem
      BY <2>2, ItemTypes
    <3> HIDE DEF a
    <3> QED
      BY <1>0, <2>1, <3>1, ConsItems
  <2>5. WriteTrue(row', a)
    BY <2>2, <2>3, QueuedTrue
  <2> HIDE DEF a
  <2> QED
    BY <1>0, <2>1, <2>4, <2>5
<1>9. ASSUME NEW t \in Ticket, FailParked(t) PROVE x \in Items(todo) \/ WriteTrue(row', x)
  <2> DEFINE front == Head(todo).front
             a == Cascade(t, {t})
             b == Write("parked", t, "FAILED", front \ {t})
  <2>1. /\ todo # <<>> /\ Head(todo).op = "parked" /\ todo' = <<a, b>> \o Tail(todo)
        /\ row' = row /\ t \in front
    BY <1>9 DEF FailParked, Next1
  <2>2. front \in SUBSET Ticket /\ \A u \in front : Dead(row'[u])
    BY <1>0, <2>1 DEF TodoInv, WriteTrue, TodoItem
  <2>3. a \in TodoItem /\ b \in TodoItem
    BY <2>2, ItemTypes
  <2> HIDE DEF front
  <2>4. WriteTrue(row', a) /\ WriteTrue(row', b)
    BY <2>1, <2>2, QueuedTrue
  <2> HIDE DEF a, b
  <2> DEFINE rest == Tail(todo)
  <2>5. rest \in Seq(TodoItem) /\ todo' = <<a, b>> \o rest
    BY <1>0, <2>1
  <2> HIDE DEF rest
  <2>6. Items(todo') = {a, b} \cup Items(rest)
    BY <2>3, <2>5, ConsTwoItems
  <2> QED
    BY <1>0, <2>1, <2>4, <2>6 DEF rest
<1>10. ASSUME Sweep PROVE x \in Items(todo) \/ WriteTrue(row', x)
  <2> DEFINE dead == {t \in Ticket : Dead(row[t])}
             u == Head(todo).ticket
             a == Cascade(u, dead)
  <2>1. todo # <<>> /\ todo' = <<a>> \o Tail(todo) /\ row' = row
    BY <1>10 DEF Sweep, Next1
  <2>2. u \in Ticket /\ dead \in SUBSET Ticket /\ \A t \in dead : Dead(row'[t])
    BY <1>0, <2>1 DEF TodoItem
  <2> HIDE DEF dead, u
  <2>3. Items(todo') = {a} \cup Items(Tail(todo))
    BY <1>0, <2>1, <2>2, ItemTypes, ConsItems
  <2>4. WriteTrue(row', a)
    BY <2>2, QueuedTrue
  <2> HIDE DEF a
  <2> QED
    BY <1>0, <2>1, <2>3, <2>4
<1>11. ASSUME \/ RecordReport \/ RecordReview \/ MirrorTaskState \/ CascadeDone
              \/ ParkedDone \/ RemirrorDone
       PROVE  x \in Items(todo)
  <2>1. todo # <<>> /\ todo' = Tail(todo)
    BY <1>11 DEF RecordReport, RecordReview, MirrorTaskState, CascadeDone, ParkedDone,
                 RemirrorDone, Next1
  <2> QED
    BY <1>0, <2>1
<1>12. CASE todo' = todo \/ todo' = <<>>
  BY <1>12, NoItems
<1> QED
  BY <1>1, <1>2, <1>3, <1>4, <1>5, <1>6, <1>7, <1>8, <1>9, <1>10, <1>11, <1>12
     DEF Next, Methods, Writes, vars, Add, Claim, Renew, Link, CancelTask, Remirror,
         Tick, Crash

\* A pending write stays true until it is made.
LEMMA TodoInvStep ==
  ASSUME TypeOK, TodoInv, [Next]_vars
  PROVE  TodoInv'
<1> SUFFICES ASSUME NEW x \in Items(todo') PROVE WriteTrue(row', x)
  BY DEF TodoInv
<1>1. CASE x \in Items(todo)
  <2>1. x \in TodoItem
    BY <1>1 DEF TypeOK, Items
  <2> QED
    BY <1>1, <2>1, WriteStays DEF TodoInv
<1> QED
  BY <1>1, NewWrites

----------------------------------------------------------------------------
(* Tasks.                                                                  *)

\* What a step may do to one task: leave it, or move a live one to a state
\* its ticket warrants.
TaskMove(k) ==
  \/ task'[k] = task[k]
  \/ /\ task[k] \notin TerminalTask
     /\ \/ task'[k] \in {"CANCELLED", "REVIEW_READY"}
        \/ \E t \in Ticket : /\ TaskOf[t] = k
                            /\ \/ task'[k] = "FAILED" /\ Dead(row'[t])
                               \/ task'[k] = "COMPLETE" /\ row'[t].status = "done"

\* A task moves with its ticket, or not at all.
LEMMA TaskMoves ==
  ASSUME TypeOK, TodoInv, [Next]_vars, NEW k \in Task
  PROVE  TaskMove(k)
<1> USE DEF TypeOK
<1>0. \A t \in Ticket : TaskOf[t] \in Task \cup {None}
  BY ConstantTypes
<1>1. ASSUME NEW j \in Task, CancelTask(j) PROVE TaskMove(k)
  BY <1>1 DEF CancelTask, TaskMove
<1>2. ASSUME MirrorTaskState PROVE TaskMove(k)
  <2> DEFINE x == Head(todo)
  <2>1. /\ todo # <<>> /\ x.op = "mirror" /\ row' = row
        /\ task' = Converge(task, TaskOf[x.ticket], x.state)
    BY <1>2 DEF MirrorTaskState, Next1
  <2>2. x \in TodoItem /\ x \in Items(todo)
    BY <2>1, TailItems
  <2> HIDE DEF x
  <2>3. x.ticket \in Ticket /\ WriteTrue(row, x)
    BY <2>2 DEF TodoItem, TodoInv
  <2>4. \/ task'[k] = task[k]
        \/ /\ TaskOf[x.ticket] = k /\ task[k] \notin TerminalTask
           /\ task'[k] = x.state
    BY <1>0, <2>1, <2>3, ConstantTypes DEF Converge
  <2>5. /\ x.state = "FAILED" => Dead(row'[x.ticket])
        /\ x.state = "COMPLETE" => row'[x.ticket].status = "done"
        /\ x.state \in {"FAILED", "COMPLETE", "REVIEW_READY"}
    BY <2>1, <2>3 DEF WriteTrue
  <2> QED
    BY <2>3, <2>4, <2>5 DEF TaskMove
<1>3. ASSUME NEW c \in Ticket, CascadeStep(c) PROVE TaskMove(k)
  <2>1. task' = Converge(task, TaskOf[c], "FAILED") /\ row'[c] = CascadedRow(row[c])
    BY <1>3 DEF CascadeStep
  <2>2. Dead(row'[c])
    BY <2>1, DeadRows
  <2>3. \/ task'[k] = task[k]
        \/ TaskOf[c] = k /\ task[k] \notin TerminalTask /\ task'[k] = "FAILED"
    BY <1>0, <2>1, ConstantTypes DEF Converge
  <2> QED
    BY <2>2, <2>3 DEF TaskMove
<1>4. ASSUME NEW t \in Ticket, FailParked(t) PROVE TaskMove(k)
  <2>1. /\ todo # <<>> /\ Head(todo).op = "parked" /\ t \in Head(todo).front /\ row' = row
        /\ task' = Converge(task, TaskOf[t], "FAILED")
    BY <1>4 DEF FailParked, Next1
  <2>2. Dead(row'[t])
    BY <2>1, TailItems DEF TodoInv, WriteTrue
  <2>3. \/ task'[k] = task[k]
        \/ TaskOf[t] = k /\ task[k] \notin TerminalTask /\ task'[k] = "FAILED"
    BY <1>0, <2>1, ConstantTypes DEF Converge
  <2> QED
    BY <2>2, <2>3 DEF TaskMove
<1>5. ASSUME NEW t \in Ticket, Remirror(t) PROVE TaskMove(k)
  <2>1. /\ row' = row /\ row[t].status \in {"done", "failed"}
        /\ task' = Converge(task, TaskOf[t], MirrorState(row[t].status))
    BY <1>5 DEF Remirror, Desynced
  <2>2. \/ task'[k] = task[k]
        \/ /\ TaskOf[t] = k /\ task[k] \notin TerminalTask
           /\ task'[k] = MirrorState(row[t].status)
    BY <1>0, <2>1, ConstantTypes DEF Converge
  <2>3. \/ MirrorState(row[t].status) = "FAILED" /\ Dead(row'[t])
        \/ MirrorState(row[t].status) = "COMPLETE" /\ row'[t].status = "done"
    BY <2>1 DEF MirrorState, Dead
  <2> QED
    BY <2>2, <2>3 DEF TaskMove
<1>6. CASE task' = task
  BY <1>6 DEF TaskMove
<1> QED
  BY <1>1, <1>2, <1>3, <1>4, <1>5, <1>6
     DEF Next, Methods, Writes, vars, Add, Claim, Renew, Report, ReportSettled, Approve,
         Reject, RejectSettled, Link, CancelForTask, Reap, RecordReport, RecordReview,
         CascadeDone, ParkedDone, Sweep, RemirrorDone, Tick, Crash

\* So a task never shows an outcome its ticket does not have.
LEMMA MirrorTruthfulStep ==
  ASSUME TypeOK, TodoInv, MirrorTruthful, [Next]_vars
  PROVE  MirrorTruthful'
<1> SUFFICES ASSUME NEW t \in Ticket, TaskOf[t] # None
             PROVE  /\ task'[TaskOf[t]] = "COMPLETE" => row'[t].status = "done"
                    /\ task'[TaskOf[t]] = "FAILED" => Dead(row'[t])
  BY DEF MirrorTruthful, Dead
<1> DEFINE k == TaskOf[t]
<1>1. k \in Task
  BY ConstantTypes
<1>2. TaskMove(k)
  BY <1>1, TaskMoves
<1>3. CASE task'[k] = task[k]
  BY <1>3, Stable DEF MirrorTruthful, TerminalStatus
<1>4. ASSUME NEW u \in Ticket, TaskOf[u] = k PROVE u = t
  BY <1>4, OneTicketPerTask
<1> QED
  BY <1>2, <1>3, <1>4 DEF TaskMove

----------------------------------------------------------------------------
(* Evaluations.                                                            *)

NoScore(s) == \A x \in Items(s) : x.op \notin ScoreOp

\* A step starts an evaluation only as the first of its pending writes, for
\* the lease or the review that it has just ended.
Scoring(t) ==
  /\ todo' # <<>> /\ NoScore(Tail(todo')) /\ scores' = scores
  /\ row'[t].attempts = row[t].attempts
  /\ \/ /\ Head(todo') = Score("score_report", t)
        /\ row[t].status = "claimed" /\ row'[t].status # "claimed"
     \/ /\ Head(todo') = Score("score_review", t)
        /\ row[t].status = "in_review" /\ row'[t].status \notin {"claimed", "in_review"}

\* The writes after the evaluation evaluate nothing.
LEMMA NoScoreAftermath ==
  ASSUME NEW t \in Ticket, NEW st \in TicketStatus
  PROVE  NoScore(Aftermath(t, st))
BY AftermathType DEF NoScore, Mirror, Cascade, Write, ScoreOp

\* Mirrors, cascades and the reaper's writes evaluate nothing.
LEMMA PlainOps ==
  ASSUME NEW t, NEW S, NEW st
  PROVE  /\ Cascade(t, S).op \notin ScoreOp /\ Mirror(t, st).op \notin ScoreOp
         /\ \A op \in {"parked", "sweep", "remirror"} : Write(op, t, st, S).op \notin ScoreOp
BY DEF Cascade, Mirror, Write, ScoreOp

\* Where a pending evaluation can stand in the writes to do.
LEMMA PendingScores ==
  ASSUME TypeOK, ScoreInv, [Next]_vars
  PROVE  NoScore(todo') \/ UNCHANGED vars \/ \E t \in Ticket : Scoring(t)
<1> USE DEF TypeOK
<1>0. ASSUME todo # <<>>
      PROVE  /\ Head(todo) \in TodoItem /\ Head(todo) \in Items(todo)
             /\ Tail(todo) \in Seq(TodoItem) /\ NoScore(Tail(todo))
  BY <1>0, TailItems DEF ScoreInv, NoScore
<1>1. ASSUME NEW g \in granted, NEW tier \in Tier, NEW ok \in BOOLEAN,
             Report(g[1], tier, g[2], g[3], ok)
      PROVE  \E t \in Ticket : Scoring(t)
  <2> DEFINE t == g[2]
             new == ReportedRow(row[t], row[t].attempts, tier, g[3], ok)
             a == Score("score_report", t)
  <2>1. t \in Ticket
    OBVIOUS
  <2>2. /\ row'[t] = new /\ todo' = <<a>> \o Aftermath(t, new.status)
        /\ scores' = scores /\ row[t].status = "claimed"
    BY <1>1, <2>1 DEF Report, HoldsLease
  <2>3. /\ new.status \in TicketStatus /\ new.status # "claimed"
        /\ new.attempts = row[t].attempts
    BY <2>1 DEF ReportedRow, NoLease, Row, TicketStatus
  <2> HIDE DEF new, t
  <2>4. Head(todo') = a /\ Tail(todo') = Aftermath(t, new.status) /\ todo' # <<>>
    BY <2>1, <2>2, <2>3, ItemTypes, AftermathType, ConsItems
  <2>5. Scoring(t)
    BY <2>1, <2>2, <2>3, <2>4, NoScoreAftermath DEF Scoring
  <2> QED
    BY <2>1, <2>5
<1>2. ASSUME NEW t \in Ticket, Approve(t) PROVE Scoring(t)
  <2>1. /\ row'[t].status = "done" /\ row'[t].attempts = row[t].attempts
        /\ todo' = <<Score("score_review", t)>> \o Aftermath(t, "done")
        /\ scores' = scores /\ row[t].status = "in_review"
    BY <1>2 DEF Approve, ApprovedRow, Row
  <2>2. "done" \in TicketStatus
    BY DEF TicketStatus
  <2>3. /\ Head(todo') = Score("score_review", t) /\ Tail(todo') = Aftermath(t, "done")
        /\ todo' # <<>>
    BY <2>1, <2>2, ItemTypes, AftermathType, ConsItems
  <2> QED
    BY <2>1, <2>2, <2>3, NoScoreAftermath DEF Scoring
<1>3. ASSUME NEW t \in Ticket, Reject(t) PROVE Scoring(t)
  <2> DEFINE new == RejectedRow(row[t], row[t].attempts)
  <2>1. /\ row'[t] = new /\ scores' = scores /\ row[t].status = "in_review"
        /\ todo' = <<Score("score_review", t)>> \o Aftermath(t, new.status)
    BY <1>3 DEF Reject
  <2>2. /\ new.status \in TicketStatus /\ new.status \notin {"claimed", "in_review"}
        /\ new.attempts = row[t].attempts
    BY DEF RejectedRow, NoLease, Row, TicketStatus
  <2> DEFINE st == new.status
             a == Score("score_review", t)
  <2> HIDE DEF new
  <2>3. /\ Head(todo') = a /\ Tail(todo') = Aftermath(t, st)
        /\ todo' # <<>>
    <3>1. a \in TodoItem /\ Aftermath(t, st) \in Seq(TodoItem)
      BY <2>2, ItemTypes, AftermathType
    <3>2. todo' = <<a>> \o Aftermath(t, st)
      BY <2>1
    <3> HIDE DEF a, st
    <3> QED
      BY <3>1, <3>2, ConsItems
  <2> QED
    BY <2>1, <2>2, <2>3, NoScoreAftermath DEF Scoring
<1>4. ASSUME NEW t \in Ticket, ReportSettled(t) \/ RejectSettled(t) PROVE NoScore(todo')
  <2> DEFINE a == Cascade(t, {t})
             b == Mirror(t, "FAILED")
             c == Mirror(t, MirrorState(row[t].status))
  <2>1. todo' = <<a, b>> \/ todo' = <<c>>
    BY <1>4 DEF ReportSettled, RejectSettled
  <2>2. a.op \notin ScoreOp /\ b.op \notin ScoreOp /\ c.op \notin ScoreOp
    BY PlainOps
  <2> HIDE DEF a, b, c
  <2>3. Items(<<a, b>>) = {a, b} /\ Items(<<c>>) = {c}
    BY FewItems
  <2> QED
    BY <2>1, <2>2, <2>3 DEF NoScore
<1>5. ASSUME NEW k \in Task, CancelForTask(k) PROVE NoScore(todo')
  <2> DEFINE hit == {t \in Ticket : TaskOf[t] = k /\ Live(row[t])}
             a == Cascade(CHOOSE t \in hit : TRUE, hit)
  <2>1. todo' = <<>> \/ todo' = <<a>>
    BY <1>5 DEF CancelForTask
  <2>2. a.op \notin ScoreOp
    BY PlainOps
  <2> HIDE DEF hit, a
  <2> QED
    BY <2>1, <2>2, NoItems, FewItems DEF NoScore
<1>6. ASSUME Reap PROVE NoScore(todo')
  <2> DEFINE parked == {t \in Ticket : Expired(row[t]) /\ row[t].attempts >= MaxAttempts}
             any == CHOOSE t \in Ticket : TRUE
             a == Write("parked", any, "FAILED", parked)
             b == Write("sweep", any, "FAILED", {})
             c == Write("remirror", any, "FAILED", {})
  <2>1. todo' = <<a, b, c>>
    BY <1>6 DEF Reap
  <2>2. a.op \notin ScoreOp /\ b.op \notin ScoreOp /\ c.op \notin ScoreOp
    BY PlainOps
  <2> HIDE DEF a, b, c
  <2>3. Items(<<a, b, c>>) = {a, b, c}
    BY DEF Items
  <2> QED
    BY <2>1, <2>2, <2>3 DEF NoScore
<1>7. ASSUME NEW c \in Ticket, CascadeStep(c) PROVE NoScore(todo')
  <2> DEFINE front == Head(todo).front \cup {c}
  <2>1. todo # <<>> /\ todo' = <<Cascade(c, front)>> \o Tail(todo)
    BY <1>7 DEF CascadeStep, Next1
  <2>2. front \in SUBSET Ticket
    BY <1>0, <2>1 DEF TodoItem
  <2> HIDE DEF front
  <2>3. Items(todo') = {Cascade(c, front)} \cup Items(Tail(todo))
    BY <1>0, <2>1, <2>2, ItemTypes, ConsItems
  <2>4. Cascade(c, front).op \notin ScoreOp
    BY PlainOps
  <2> QED
    BY <1>0, <2>1, <2>3, <2>4 DEF NoScore
<1>8. ASSUME NEW t \in Ticket, FailParked(t) PROVE NoScore(todo')
  <2> DEFINE front == Head(todo).front \ {t}
             a == Cascade(t, {t})
             b == Write("parked", t, "FAILED", front)
             rest == Tail(todo)
  <2>1. todo # <<>> /\ todo' = <<a, b>> \o rest
    BY <1>8 DEF FailParked, Next1
  <2>2. front \in SUBSET Ticket /\ {t} \in SUBSET Ticket
    BY <1>0, <2>1 DEF TodoItem
  <2> HIDE DEF front
  <2>3. a \in TodoItem /\ b \in TodoItem /\ a.op \notin ScoreOp /\ b.op \notin ScoreOp
    BY <2>2, ItemTypes DEF Cascade, Write, ScoreOp
  <2>4. rest \in Seq(TodoItem) /\ NoScore(rest)
    BY <1>0, <2>1
  <2> HIDE DEF a, b, rest
  <2>5. Items(todo') = {a, b} \cup Items(rest)
    BY <2>1, <2>3, <2>4, ConsTwoItems
  <2> QED
    BY <2>3, <2>4, <2>5 DEF NoScore
<1>9. ASSUME Sweep PROVE NoScore(todo')
  <2> DEFINE dead == {t \in Ticket : Dead(row[t])}
             u == Head(todo).ticket
  <2>1. todo # <<>> /\ todo' = <<Cascade(u, dead)>> \o Tail(todo)
    BY <1>9 DEF Sweep, Next1
  <2>2. u \in Ticket /\ dead \in SUBSET Ticket
    BY <1>0, <2>1 DEF TodoItem
  <2> HIDE DEF u, dead
  <2>3. Items(todo') = {Cascade(u, dead)} \cup Items(Tail(todo))
    BY <1>0, <2>1, <2>2, ItemTypes, ConsItems
  <2> QED
    BY <1>0, <2>1, <2>3, PlainOps DEF NoScore
<1>10. ASSUME \/ RecordReport \/ RecordReview \/ MirrorTaskState \/ CascadeDone
              \/ ParkedDone \/ RemirrorDone
       PROVE  NoScore(todo')
  <2>1. todo # <<>> /\ todo' = Tail(todo)
    BY <1>10 DEF RecordReport, RecordReview, MirrorTaskState, CascadeDone, ParkedDone,
                 RemirrorDone, Next1
  <2> QED
    BY <1>0, <2>1
<1>11. ASSUME NEW t \in Ticket, Remirror(t) PROVE NoScore(todo')
  <2>1. todo # <<>> /\ todo' = todo /\ Head(todo).op \notin ScoreOp
    BY <1>11 DEF Remirror, Next1, ScoreOp
  <2> DEFINE a == Head(todo)
             rest == Tail(todo)
  <2>2. <<a>> \o rest = todo /\ a \in TodoItem /\ rest \in Seq(TodoItem)
    BY <1>0, <2>1
  <2> HIDE DEF a, rest
  <2>4. Items(<<a>> \o rest) = {a} \cup Items(rest)
    BY <2>2, ConsItems
  <2>3. Items(todo) = {Head(todo)} \cup Items(Tail(todo))
    BY <2>2, <2>4 DEF a, rest
  <2> QED
    BY <1>0, <2>1, <2>3 DEF NoScore
<1>12. CASE todo' = <<>>
  BY <1>12, NoItems DEF NoScore
<1>13. ASSUME \/ \E t \in Ticket, parents \in SUBSET Ticket : Add(t, parents)
              \/ \E w \in Worker, tier \in Tier, t \in Ticket : Claim(w, tier, t)
              \/ \E g \in granted, extend \in 1..(MaxExtend + 1) : Renew(g[1], g[2], g[3], extend)
              \/ \E c, p \in Ticket : Link(c, p)
              \/ \E k \in Task : CancelTask(k)
              \/ Tick \/ Crash
       PROVE  todo' = <<>>
  BY <1>13 DEF Add, Claim, Renew, Link, CancelTask, Tick, Crash, Idle
<1> QED
  BY <1>1, <1>2, <1>3, <1>4, <1>5, <1>6, <1>7, <1>8, <1>9, <1>10, <1>11, <1>12, <1>13
     DEF Next, Methods, Writes

\* The scores of one ticket stay within its attempts.
ScoreBound(t) ==
  /\ scores[t].reports <= row[t].attempts
  /\ scores[t].reviews <= row[t].attempts
  /\ row[t].status = "claimed" => scores[t].reports < row[t].attempts
  /\ row[t].status \in {"claimed", "in_review"} => scores[t].reviews < row[t].attempts

\* Evaluations made and pending never outnumber the attempts.
LEMMA ScoreBoundStep ==
  ASSUME TypeOK, RowInv, ScoreInv, [Next]_vars, NEW t \in Ticket
  PROVE  ScoreBound(t)'
<1> USE DEF TypeOK
<1>0. /\ ScoreBound(t) /\ row[t].attempts \in Nat
      /\ scores[t].reports \in Nat /\ scores[t].reviews \in Nat
  BY DEF ScoreInv, ScoreBound, Row
<1>1. CASE scores' = scores
  <2>1. Move(t)
    BY RowMoves
  <2>2. CASE Kept(t)
    BY <1>0, <1>1, <2>2 DEF Kept, ScoreBound
  <2>3. CASE Born(t)
    <3>1. row[t].attempts = 0
      BY <2>3 DEF Born, RowInv
    <3> QED
      BY <1>0, <1>1, <2>3, <3>1 DEF Born, ScoreBound
  <2>4. CASE Taken(t)
    BY <1>0, <1>1, <2>4 DEF Taken, ScoreBound
  <2>5. CASE row'[t].attempts = row[t].attempts /\ (Carried(t) \/ Returned(t) \/ Buried(t))
    <3>1. /\ row'[t].status = "claimed" => row[t].status = "claimed"
          /\ row'[t].status = "in_review" => row[t].status \in {"claimed", "in_review"}
      BY <2>5 DEF Carried, Returned, Buried, Dead
    <3> QED
      BY <1>0, <1>1, <2>5, <3>1 DEF ScoreBound
  <2> QED
    BY <2>1, <2>2, <2>3, <2>4, <2>5 DEF Move
<1>2. CASE RecordReport
  <2> DEFINE u == Head(todo).ticket
             n == scores[u].reports + 1
  <2>1. todo # <<>> /\ Head(todo).op = "score_report" /\ row' = row
    BY <1>2 DEF RecordReport, Next1
  <2>2. u \in Ticket
    <3>1. Head(todo) \in TodoItem
      BY <2>1
    <3> QED
      BY <3>1 DEF TodoItem
  <2>3. row[u].status # "claimed" /\ scores[u].reports < row[u].attempts
    BY <2>1 DEF ScoreInv
  <2>4. scores' = [scores EXCEPT ![u].reports = n]
    BY <1>2 DEF RecordReport
  <2>5. scores[u].reports \in Nat /\ row[u].attempts \in Nat
    BY <2>2 DEF Row
  <2> HIDE DEF u
  <2>6. n <= row[u].attempts
    BY <2>3, <2>5
  <2> HIDE DEF n
  <2>7. /\ scores'[t].reviews = scores[t].reviews
        /\ scores'[t].reports = IF t = u THEN n ELSE scores[t].reports
    BY <2>2, <2>4
  <2> QED
    BY <1>0, <2>1, <2>3, <2>6, <2>7 DEF ScoreBound
<1>3. CASE RecordReview
  <2> DEFINE u == Head(todo).ticket
             n == scores[u].reviews + 1
  <2>1. todo # <<>> /\ Head(todo).op = "score_review" /\ row' = row
    BY <1>3 DEF RecordReview, Next1
  <2>2. u \in Ticket
    <3>1. Head(todo) \in TodoItem
      BY <2>1
    <3> QED
      BY <3>1 DEF TodoItem
  <2>3. row[u].status \notin {"claimed", "in_review"} /\ scores[u].reviews < row[u].attempts
    BY <2>1 DEF ScoreInv
  <2>4. scores' = [scores EXCEPT ![u].reviews = n]
    BY <1>3 DEF RecordReview
  <2>5. scores[u].reviews \in Nat /\ row[u].attempts \in Nat
    BY <2>2 DEF Row
  <2> HIDE DEF u
  <2>6. n <= row[u].attempts
    BY <2>3, <2>5
  <2> HIDE DEF n
  <2>7. /\ scores'[t].reports = scores[t].reports
        /\ scores'[t].reviews = IF t = u THEN n ELSE scores[t].reviews
    BY <2>2, <2>4
  <2> QED
    BY <1>0, <2>1, <2>3, <2>6, <2>7 DEF ScoreBound
<1> QED
  BY <1>1, <1>2, <1>3
     DEF Next, Methods, Writes, vars, Add, Claim, Renew, Report, ReportSettled, Approve,
         Reject, RejectSettled, Link, CancelTask, CancelForTask, Reap, MirrorTaskState,
         CascadeStep, CascadeDone, FailParked, ParkedDone, Sweep, Remirror, RemirrorDone,
         Tick, Crash

\* Every step keeps the account of evaluations.
LEMMA ScoreInvStep ==
  ASSUME TypeOK, RowInv, ScoreInv, [Next]_vars
  PROVE  ScoreInv'
<1>0. todo' \in Seq(TodoItem)
  BY TypeStep DEF TypeOK
<1>1. \A t \in Ticket : ScoreBound(t)'
  BY ScoreBoundStep
<1>2. CASE UNCHANGED vars
  BY <1>2 DEF ScoreInv, vars
<1>3. CASE NoScore(todo')
  <2>1. todo' # <<>> => /\ Head(todo').op \notin ScoreOp
                        /\ \A x \in Items(Tail(todo')) : x.op \notin ScoreOp
    BY <1>0, <1>3, TailItems DEF NoScore
  <2> QED
    BY <1>1, <2>1 DEF ScoreInv, ScoreBound, ScoreOp
<1>4. ASSUME NEW t \in Ticket, Scoring(t) PROVE ScoreInv'
  <2>1. \A x \in Items(Tail(todo')) : x.op \notin ScoreOp
    BY <1>4 DEF Scoring, NoScore
  <2>2. ScoreBound(t)
    BY DEF ScoreInv, ScoreBound
  <2> DEFINE h == Head(todo')
  <2>3. /\ h.op = "score_report" =>
             /\ row'[h.ticket].status # "claimed"
             /\ scores'[h.ticket].reports < row'[h.ticket].attempts
        /\ h.op = "score_review" =>
             /\ row'[h.ticket].status \notin {"claimed", "in_review"}
             /\ scores'[h.ticket].reviews < row'[h.ticket].attempts
    <3>1. \/ h = Score("score_report", t) /\ row[t].status = "claimed"
             /\ row'[t].status # "claimed"
          \/ h = Score("score_review", t) /\ row[t].status = "in_review"
             /\ row'[t].status \notin {"claimed", "in_review"}
      BY <1>4 DEF Scoring
    <3>2. h.ticket = t
      BY <3>1 DEF Score, Write
    <3>3. CASE row[t].status = "claimed"
      <4>1. h.op = "score_report"
        BY <3>1, <3>3 DEF Score, Write
      <4> HIDE DEF h
      <4> QED
        BY <1>4, <2>2, <3>1, <3>2, <3>3, <4>1 DEF Scoring, ScoreBound
    <3>4. CASE row[t].status = "in_review"
      <4>1. h.op = "score_review"
        BY <3>1, <3>4 DEF Score, Write
      <4> HIDE DEF h
      <4> QED
        BY <1>4, <2>2, <3>1, <3>2, <3>4, <4>1 DEF Scoring, ScoreBound
    <3> QED
      BY <3>1, <3>3, <3>4
  <2> QED
    BY <1>1, <2>1, <2>3 DEF ScoreInv, ScoreBound
<1> QED
  BY <1>2, <1>3, <1>4, PendingScores

----------------------------------------------------------------------------
(* The theorems.                                                           *)

\* A fresh store satisfies the invariant.
LEMMA InitIInv == Init => IInv
<1> SUFFICES ASSUME Init PROVE IInv
  OBVIOUS
<1>1. TypeOK
  BY NewRowType, EmptySeq DEF Init, TypeOK, TaskState
<1>2. RowInv /\ DependencyGate
  BY BoundTypes DEF Init, RowInv, DependencyGate, AbsentRow
<1>3. EdgeInv /\ Acyclic
  BY DEF Init, EdgeInv, Acyclic
<1>4. TodoInv /\ ScoreInv
  BY NoItems DEF Init, TodoInv, ScoreInv, AbsentRow
<1>5. MirrorTruthful
  BY ConstantTypes DEF Init, MirrorTruthful
<1> QED
  BY <1>1, <1>2, <1>3, <1>4, <1>5 DEF IInv

\* The invariant that carries every safety property is inductive.
THEOREM Inductive == Spec => []IInv
<1>1. IInv /\ [Next]_vars => IInv'
  BY TypeStep, RowInvStep, EdgeInvStep, TodoInvStep, ScoreInvStep, DependencyGateStep,
     AcyclicStep, MirrorTruthfulStep DEF IInv
<1> QED
  BY <1>1, InitIInv, PTL DEF Spec

\* No ticket is handed out more often than its max_attempts.
THEOREM AttemptsStayBounded == Spec => []AttemptsBounded
<1>1. IInv => AttemptsBounded
  BY DEF IInv, RowInv, AttemptsBounded
<1> QED
  BY <1>1, Inductive, PTL

\* Nothing an untrusted worker reports is done without a review of it.
THEOREM GateHolds == Spec => []VerificationGate
<1>1. IInv => VerificationGate
  BY DEF IInv, RowInv, VerificationGate
<1> QED
  BY <1>1, Inductive, PTL

\* Work in progress or under review has no unfinished dependency.
THEOREM DependenciesGate == Spec => []DependencyGate
BY Inductive, PTL DEF IInv

\* add and link never close a circle of dependencies.
THEOREM StaysAcyclic == Spec => []Acyclic
BY Inductive, PTL DEF IInv

\* A claim covers the whole ancestry of its ticket: the tickets whose
\* allowed tiers contain the child's are closed under dependencies.
THEOREM NothingLaundered == Spec => []NoLaundering
<1>1. ASSUME IInv PROVE NoLaundering
  <2> SUFFICES ASSUME NEW t \in Ticket, row[t].status = "claimed", NEW p \in Reach(deps, t)
               PROVE  MayClaim(row[t].lease.tier, p)
    BY DEF NoLaundering
  <2> DEFINE S == {u \in Ticket : NoDowngrade(t, u)}
  <2>1. t \in S /\ S \in SUBSET Ticket
    BY DEF NoDowngrade
  <2>2. Closed(deps, S)
    <3> SUFFICES ASSUME NEW u \in S, NEW v \in deps[u] PROVE v \in S
      BY DEF Closed
    <3>1. v \in Ticket /\ NoDowngrade(u, v)
      BY <1>1 DEF IInv, TypeOK, EdgeInv
    <3> QED
      BY <3>1 DEF NoDowngrade
  <2>3. p \in S
    BY <1>1, <2>1, <2>2, ReachFacts DEF IInv, TypeOK
  <2>4. MayClaim(row[t].lease.tier, t)
    BY <1>1 DEF IInv, RowInv
  <2> QED
    BY <2>3, <2>4 DEF MayClaim, NoDowngrade
<1> QED
  BY <1>1, Inductive, PTL

\* No lease is evaluated twice, neither by its report nor by its review.
THEOREM NothingScoredTwice == Spec => []ScoredOnce
<1>1. IInv => ScoredOnce
  BY DEF IInv, ScoreInv, ScoredOnce
<1> QED
  BY <1>1, Inductive, PTL

\* A task shows COMPLETE or FAILED only with its ticket done or dead.
THEOREM MirrorNeverLies == Spec => []MirrorTruthful
BY Inductive, PTL DEF IInv

\* The promises of one broker's queue, together: for any tickets, workers, classes
\* and bounds, over every report, review, reap, link, cancel and crash.
THEOREM QueueStaysSafe == Spec => []QueueSafe
BY AttemptsStayBounded, GateHolds, NothingScoredTwice, DependenciesGate, StaysAcyclic,
   MirrorNeverLies, PTL DEF QueueSafe

\* Settled tickets and ended tasks never change again.
THEOREM OutcomesAreFinal == Spec => Finality
<1>1. ASSUME IInv, [Next]_vars
      PROVE  [/\ \A t \in Ticket : row[t].status \in TerminalStatus =>
                                     row'[t].status = row[t].status
              /\ \A k \in Task : task[k] \in TerminalTask => task'[k] = task[k]]_vars
  BY <1>1, Stable, TaskMoves DEF IInv, TaskMove
<1> QED
  BY <1>1, Inductive, PTL DEF Spec, Finality


----------------------------------------------------------------------------
(* The contract with the submitter.                                        *)

\* The phase of a row, status by status.
LEMMA PhaseCases ==
  ASSUME NEW r \in Row
  PROVE  /\ PhaseOf(r) = "unknown" <=> r.status = "absent"
         /\ PhaseOf(r) = "working" <=> r.status = "claimed"
         /\ PhaseOf(r) = "judging" <=> r.status = "in_review"
         /\ PhaseOf(r) = "succeeded" <=> r.status = "done"
         /\ PhaseOf(r) = "lost" <=> Dead(r)
         /\ PhaseOf(r) = "waiting" <=> r.status \in {"open", "parked"} /\ ~Dead(r)
         /\ PhaseOf(r) \in {"unknown", "working", "judging", "succeeded", "lost", "waiting"}
BY DEF PhaseOf, Row, TicketStatus, Dead

\* What the contract sees of a ticket, before and after a step.
Phase(t) == PhaseOf(row[t])
NextPhase(t) == PhaseOf(row'[t])
SameTries == \A u \in Ticket : row'[u].attempts = row[u].attempts

\* An empty queue is an empty contract.
LEMMA ContractStart == Init => Contract!Init
<1> SUFFICES ASSUME Init PROVE Contract!Init
  OBVIOUS
<1>1. AbsentRow.status = "absent" /\ AbsentRow.attempts = 0
  BY DEF AbsentRow
<1>2. PhaseOf(AbsentRow) = "unknown"
  BY <1>1, PhaseCases, NewRowType
<1>3. [t \in Ticket |-> PhaseOf(row[t])] = [t \in Ticket |-> "unknown"]
  BY <1>2 DEF Init
<1>4. [t \in Ticket |-> row[t].attempts] = [t \in Ticket |-> 0]
  BY <1>1 DEF Init
<1> QED
  BY <1>3, <1>4 DEF Contract!Init, Init

\* The types on both sides of a step.
LEMMA RowsTyped ==
  ASSUME TypeOK, [Next]_vars, NEW t \in Ticket
  PROVE  row[t] \in Row /\ row'[t] \in Row /\ row[t].attempts \in Nat
BY TypeStep DEF TypeOK, Row

\* add submits a ticket.
LEMMA SubmitStep ==
  ASSUME TypeOK, RowInv, [Next]_vars,
         NEW t \in Ticket, NEW parents \in SUBSET Ticket, Add(t, parents)
  PROVE  Contract!Submit(t, parents)
<1>1. /\ row' = [row EXCEPT ![t] = NewRow(t)] /\ deps' = [deps EXCEPT ![t] = parents]
      /\ row[t].status = "absent" /\ \A p \in parents : Added(row[p])
  BY DEF Add, Added
<1>2. row'[t] = NewRow(t) /\ \A u \in Ticket : u # t => row'[u] = row[u]
  BY <1>1 DEF TypeOK
<1>3. NewRow(t).attempts = 0 /\ NewRow(t).status \in {"open", "parked"} /\ ~Dead(NewRow(t))
  BY DEF NewRow, AbsentRow, Dead
<1>4. Phase(t) = "unknown" /\ NextPhase(t) = "waiting"
  BY <1>1, <1>2, <1>3, RowsTyped, PhaseCases DEF Phase, NextPhase
<1>5. [u \in Ticket |-> PhaseOf(row'[u])] = [[u \in Ticket |-> PhaseOf(row[u])] EXCEPT ![t] = "waiting"]
  BY <1>2, <1>4 DEF NextPhase
<1>6. [u \in Ticket |-> row'[u].attempts] = [u \in Ticket |-> row[u].attempts]
  <2>1. row[t].attempts = 0 /\ row'[t].attempts = 0
    BY <1>1, <1>2, <1>3 DEF RowInv
  <2>2. \A u \in Ticket : row'[u].attempts = row[u].attempts
    BY <1>2, <2>1
  <2> QED
    BY <2>2
<1>7. \A p \in parents : PhaseOf(row[p]) # "unknown"
  BY <1>1, RowsTyped, PhaseCases DEF Added
<1> QED
  BY <1>1, <1>4, <1>5, <1>6, <1>7 DEF Contract!Submit, Phase

\* link asks more of a ticket nobody works on.
LEMMA RequireStep ==
  ASSUME TypeOK, [Next]_vars, NEW c \in Ticket, NEW p \in Ticket, Link(c, p)
  PROVE  Contract!Require(c, p)
<1>1. row' = row /\ deps' = [deps EXCEPT ![c] = deps[c] \cup {p}] /\ row[c].status \notin {"claimed", "in_review"}
  BY DEF Link, Linkable
<1>2. PhaseOf(row[c]) \notin {"working", "judging"}
  BY <1>1, RowsTyped, PhaseCases
<1> QED
  BY <1>1, <1>2 DEF Contract!Require, Contract!Busy

\* A claim starts a ticket whose needs have succeeded and that has a try left.
LEMMA StartStep ==
  ASSUME TypeOK, RowInv, [Next]_vars,
         NEW w \in Worker, NEW tier \in Tier, NEW t \in Ticket, Claim(w, tier, t)
  PROVE  Contract!Start(t)
<1>1. /\ row'[t] = ClaimedRow(row[t], w, tier, minted[t] + 1) /\ deps' = deps
      /\ \A u \in Ticket : u # t => row'[u] = row[u]
      /\ row[t].status = "open" /\ \A p \in deps[t] : row[p].status = "done"
  BY DEF Claim, Claimable, TypeOK
<1>2. row'[t].status = "claimed" /\ row'[t].attempts = row[t].attempts + 1
  BY <1>1, RowsTyped DEF ClaimedRow, Row
<1>3. Phase(t) = "waiting" /\ NextPhase(t) = "working"
  BY <1>1, <1>2, RowsTyped, PhaseCases DEF Phase, NextPhase, Dead
<1>4. [u \in Ticket |-> PhaseOf(row'[u])] = [[u \in Ticket |-> PhaseOf(row[u])] EXCEPT ![t] = "working"]
  BY <1>1, <1>3 DEF NextPhase
<1>5. [u \in Ticket |-> row'[u].attempts]
        = [[u \in Ticket |-> row[u].attempts] EXCEPT ![t] = row[t].attempts + 1]
  BY <1>1, <1>2
<1>6. \A p \in deps[t] : p \in Ticket /\ PhaseOf(row[p]) = "succeeded"
  BY <1>1, RowsTyped, PhaseCases DEF TypeOK
<1>7. row[t].attempts < MaxAttempts
  BY <1>1 DEF RowInv
<1> QED
  BY <1>1, <1>3, <1>4, <1>5, <1>6, <1>7 DEF Contract!Start, Phase

\* A step that leaves the others alone and carries a ticket on.
LEMMA CarryStep ==
  ASSUME TypeOK, [Next]_vars, NEW t \in Ticket, deps' = deps,
         \A u \in Ticket : u # t => row'[u] = row[u],
         row'[t].attempts = row[t].attempts, Carried(t)
  PROVE  Contract!Deliver(t) \/ Contract!Succeed(t) \/ UNCHANGED Contract!cvars
<1>1. [u \in Ticket |-> row'[u].attempts] = [u \in Ticket |-> row[u].attempts]
  OBVIOUS
<1>2. [u \in Ticket |-> PhaseOf(row'[u])] = [[u \in Ticket |-> PhaseOf(row[u])] EXCEPT ![t] = NextPhase(t)]
  BY DEF NextPhase
<1>3. \/ Phase(t) = "working" /\ NextPhase(t) = "working"
      \/ Phase(t) = "working" /\ NextPhase(t) = "judging"
      \/ Phase(t) \in {"working", "judging"} /\ NextPhase(t) = "succeeded"
  BY RowsTyped, PhaseCases DEF Carried, Phase, NextPhase
<1>4. CASE Phase(t) = "working" /\ NextPhase(t) = "working"
  <2>1. [u \in Ticket |-> PhaseOf(row'[u])] = [u \in Ticket |-> PhaseOf(row[u])]
    BY <1>4 DEF Phase, NextPhase
  <2> QED
    BY <1>1, <2>1 DEF Contract!cvars
<1>5. CASE Phase(t) = "working" /\ NextPhase(t) = "judging"
  BY <1>1, <1>2, <1>5 DEF Contract!Deliver, Phase
<1>6. CASE Phase(t) \in {"working", "judging"} /\ NextPhase(t) = "succeeded"
  BY <1>1, <1>2, <1>6 DEF Contract!Succeed, Contract!Busy, Phase
<1> QED
  BY <1>3, <1>4, <1>5, <1>6

\* How the contract settles tickets: some go back with a try left, some are lost.
Settling(t) ==
  \/ NextPhase(t) = Phase(t)
  \/ Phase(t) \in {"working", "judging"} /\ NextPhase(t) = "waiting" /\ row[t].attempts < MaxAttempts
  \/ Phase(t) \in {"working", "judging", "waiting"} /\ NextPhase(t) = "lost"

\* A step that does no more than this to any ticket settles.
LEMMA SettleStep ==
  ASSUME deps' = deps, SameTries, \A t \in Ticket : Settling(t)
  PROVE  \E back, lost \in SUBSET Ticket : Contract!Settle(back, lost)
<1> DEFINE back == {t \in Ticket : NextPhase(t) # Phase(t) /\ NextPhase(t) = "waiting"}
           lost == {t \in Ticket : NextPhase(t) # Phase(t) /\ NextPhase(t) = "lost"}
<1>1. [u \in Ticket |-> row'[u].attempts] = [u \in Ticket |-> row[u].attempts]
  BY DEF SameTries
<1>2. ASSUME NEW t \in back
      PROVE  t \in Ticket /\ PhaseOf(row[t]) \in {"working", "judging"} /\ row[t].attempts < MaxAttempts
  BY DEF Settling, Phase, NextPhase
<1>3. ASSUME NEW t \in lost
      PROVE  t \in Ticket /\ PhaseOf(row[t]) \in {"working", "judging"} \cup {"waiting"}
  BY DEF Settling, Phase, NextPhase
<1>4. [t \in Ticket |-> PhaseOf(row'[t])]
        = [t \in Ticket |-> IF t \in back THEN "waiting" ELSE IF t \in lost THEN "lost"
                            ELSE [u \in Ticket |-> PhaseOf(row[u])][t]]
  <2>1. ASSUME NEW t \in Ticket
        PROVE  PhaseOf(row'[t]) = IF t \in back THEN "waiting" ELSE IF t \in lost THEN "lost"
                                  ELSE PhaseOf(row[t])
    BY DEF Settling, Phase, NextPhase
  <2> QED
    BY <2>1
<1>5. back \in SUBSET Ticket /\ lost \in SUBSET Ticket
  OBVIOUS
<1> HIDE DEF back, lost
<1>6. Contract!Settle(back, lost)
  BY <1>1, <1>2, <1>3, <1>4 DEF Contract!Settle, Contract!Busy
<1> QED
  BY <1>5, <1>6

\* A ticket that is left alone, keeps its lease, goes back or dies.
Settled(t) ==
  \/ row'[t] = row[t]
  \/ /\ row[t].status # "absent"
     /\ \/ row'[t].status = "open" \/ Dead(row'[t])
        \/ row'[t].status = "claimed" /\ row[t].status = "claimed"

\* To the contract such a ticket is settled.
LEMMA SettledRow ==
  ASSUME TypeOK, [Next]_vars, NEW t \in Ticket, Settled(t)
  PROVE  Settling(t) /\ row'[t].attempts = row[t].attempts
<1>1. Move(t) /\ row[t] \in Row /\ row'[t] \in Row
  BY RowMoves, RowsTyped
<1>2. CASE row'[t] = row[t]
  BY <1>2 DEF Settling, Phase, NextPhase
<1>3. CASE row'[t] # row[t]
  <2>1. /\ row'[t].attempts = row[t].attempts
        /\ \/ row[t].status = "claimed" /\ row'[t].status = "claimed"
           \/ Returned(t) \/ Buried(t)
    BY <1>1, <1>3 DEF Settled, Move, Kept, Born, Taken, Carried, Dead
  <2>2. CASE row[t].status = "claimed" /\ row'[t].status = "claimed"
    BY <1>1, <2>1, <2>2, PhaseCases DEF Settling, Phase, NextPhase
  <2>3. CASE Returned(t)
    BY <1>1, <2>1, <2>3, PhaseCases DEF Settling, Phase, NextPhase, Returned, Dead
  <2>4. CASE Buried(t)
    <3>1. Phase(t) \in {"working", "judging", "waiting", "lost"} /\ NextPhase(t) = "lost"
      BY <1>1, <2>4, PhaseCases DEF Phase, NextPhase, Buried, Live, Added, TerminalStatus, Dead
    <3> QED
      BY <2>1, <3>1 DEF Settling
  <2> QED
    BY <2>1, <2>2, <2>3, <2>4
<1> QED
  BY <1>2, <1>3

\* A step that only settles is a step of the contract.
LEMMA SettledStep ==
  ASSUME TypeOK, [Next]_vars, deps' = deps, \A t \in Ticket : Settled(t)
  PROVE  Contract!Next
<1>1. SameTries /\ \A t \in Ticket : Settling(t)
  BY SettledRow DEF SameTries
<1>2. \E back, lost \in SUBSET Ticket : Contract!Settle(back, lost)
  BY <1>1, SettleStep
<1> QED
  BY <1>2 DEF Contract!Next

\* Every step of the queue is one of the contract, or none.
LEMMA ContractStep ==
  ASSUME IInv, [Next]_vars
  PROVE  [Contract!Next]_(Contract!cvars)
<1> USE DEF IInv
<1>1. ASSUME NEW t \in Ticket, NEW parents \in SUBSET Ticket, Add(t, parents) PROVE Contract!Next
  BY <1>1, SubmitStep DEF Contract!Next
<1>2. ASSUME NEW w \in Worker, NEW tier \in Tier, NEW t \in Ticket, Claim(w, tier, t) PROVE Contract!Next
  BY <1>2, StartStep DEF Contract!Next
<1>3. ASSUME NEW g \in granted, NEW extend \in 1..(MaxExtend + 1), Renew(g[1], g[2], g[3], extend)
      PROVE  Contract!Next
  <2>1. ASSUME NEW t \in Ticket PROVE Settled(t)
    BY <1>3 DEF Renew, HoldsLease, RenewedRow, TypeOK, Row, Settled
  <2> QED
    BY <1>3, <2>1, SettledStep DEF Renew
<1>4. ASSUME NEW g \in granted, NEW tier \in Tier, NEW ok \in BOOLEAN,
             Report(g[1], tier, g[2], g[3], ok)
      PROVE  Contract!Next \/ UNCHANGED Contract!cvars
  <2>1. PICK t : t = g[2]
    OBVIOUS
  <2>2. PICK new : new = ReportedRow(row[t], row[t].attempts, tier, g[3], ok)
    OBVIOUS
  <2>3. /\ row' = [row EXCEPT ![t] = new] /\ row[t].status = "claimed" /\ deps' = deps
        /\ t \in Ticket
    BY <1>4, <2>1, <2>2 DEF Report, HoldsLease, TypeOK
  <2>4. row'[t] = new /\ \A u \in Ticket : u # t => row'[u] = row[u]
    BY <2>3 DEF TypeOK
  <2>5. row[t] \in Row
    BY <2>3 DEF TypeOK
  <2>6. CASE ~ok
    <3>1. new.status \in {"open", "failed"}
      BY <2>2, <2>5, <2>6 DEF ReportedRow, NoLease, Row
    <3>2. ASSUME NEW u \in Ticket PROVE Settled(u)
      BY <2>3, <2>4, <3>1 DEF Settled, Dead
    <3> QED
      BY <2>3, <3>2, SettledStep
  <2>7. CASE ok
    <3>1. new.status \in {"in_review", "done"} /\ new.attempts = row[t].attempts
      BY <2>2, <2>5, <2>7 DEF ReportedRow, Row
    <3>2. Carried(t)
      BY <2>3, <2>4, <3>1, RowMoves DEF Move, Kept, Born, Taken, Returned, Buried, Dead
    <3> QED
      BY <2>3, <2>4, <3>1, <3>2, CarryStep DEF Contract!Next
  <2> QED
    BY <2>6, <2>7
<1>5. ASSUME NEW t \in Ticket, Approve(t) PROVE Contract!Next \/ UNCHANGED Contract!cvars
  <2>1. /\ row' = [row EXCEPT ![t] = ApprovedRow(row[t])] /\ row[t].status = "in_review"
        /\ deps' = deps /\ row[t] \in Row
    BY <1>5 DEF Approve, TypeOK
  <2>2. row'[t] = ApprovedRow(row[t]) /\ \A u \in Ticket : u # t => row'[u] = row[u]
    BY <2>1 DEF TypeOK
  <2>5. ASSUME NEW r \in Row PROVE ApprovedRow(r).status = "done" /\ ApprovedRow(r).attempts = r.attempts
    BY DEF ApprovedRow, Row
  <2>3. row'[t].status = "done" /\ row'[t].attempts = row[t].attempts
    BY <2>1, <2>2, <2>5
  <2>4. Carried(t)
    BY <2>1, <2>3, RowMoves DEF Move, Kept, Born, Taken, Returned, Buried, Dead
  <2> QED
    BY <2>1, <2>2, <2>3, <2>4, CarryStep DEF Contract!Next
<1>6. ASSUME NEW t \in Ticket, Reject(t) PROVE Contract!Next
  <2>1. PICK new : new = RejectedRow(row[t], row[t].attempts)
    OBVIOUS
  <2>2. /\ row' = [row EXCEPT ![t] = new] /\ row[t].status = "in_review" /\ deps' = deps
        /\ row[t] \in Row
    BY <1>6, <2>1 DEF Reject, TypeOK
  <2>3. new.status \in {"open", "failed"}
    BY <2>1, <2>2 DEF RejectedRow, NoLease, Row
  <2>4. ASSUME NEW u \in Ticket PROVE Settled(u)
    BY <2>2, <2>3 DEF Settled, Dead, TypeOK
  <2> QED
    BY <2>2, <2>4, SettledStep
<1>7. ASSUME NEW c \in Ticket, NEW p \in Ticket, Link(c, p) PROVE Contract!Next
  BY <1>7, RequireStep DEF Contract!Next
<1>8. ASSUME NEW k \in Task, CancelForTask(k) PROVE Contract!Next
  <2>1. ASSUME NEW t \in Ticket PROVE Settled(t)
    <3>1. row[t] \in Row /\ (row'[t] = row[t] \/ (row'[t] = CancelledRow(row[t]) /\ Live(row[t])))
      BY <1>8 DEF CancelForTask, TypeOK
    <3> QED
      BY <3>1, DeadRows DEF Settled, Live, Added
  <2> QED
    BY <1>8, <2>1, SettledStep DEF CancelForTask
<1>9. ASSUME Reap PROVE Contract!Next
  <2>1. ASSUME NEW t \in Ticket PROVE Settled(t)
    <3>1. row[t] \in Row /\ (row'[t] = row[t] \/ (row'[t] = ReapedRow(row[t]) /\ row[t].status = "claimed"))
      BY <1>9 DEF Reap, TypeOK, Expired
    <3>2. \/ ReapedRow(row[t]).status = "open"
          \/ ReapedRow(row[t]).status = "parked" /\ ReapedRow(row[t]).park = "exhausted"
      BY <3>1 DEF ReapedRow, NoLease, Row
    <3> QED
      BY <3>1, <3>2 DEF Settled, Dead
  <2> QED
    BY <1>9, <2>1, SettledStep DEF Reap
<1>10. ASSUME NEW c \in Ticket, CascadeStep(c) PROVE Contract!Next
  <2>1. ASSUME NEW t \in Ticket PROVE Settled(t)
    <3>1. row[t] \in Row /\ (row'[t] = row[t] \/ (row'[t] = CascadedRow(row[t]) /\ Live(row[t])))
      BY <1>10 DEF CascadeStep, TypeOK
    <3> QED
      BY <3>1, DeadRows DEF Settled, Live, Added
  <2> QED
    BY <1>10, <2>1, SettledStep DEF CascadeStep
<1>11. ASSUME Tick PROVE Contract!Next
  <2>1. ASSUME NEW t \in Ticket PROVE Settled(t)
    <3>1. row[t] \in Row /\ row'[t] = TickedRow(row[t])
      BY <1>11 DEF Tick, TypeOK
    <3>2. \/ TickedRow(row[t]) = row[t]
          \/ row[t].status = "claimed" /\ TickedRow(row[t]).status = "claimed"
      BY <3>1 DEF TickedRow, Row
    <3> QED
      BY <3>1, <3>2 DEF Settled
  <2> QED
    BY <1>11, <2>1, SettledStep DEF Tick
<1>12. ASSUME row' = row, deps' = deps PROVE UNCHANGED Contract!cvars
  BY <1>12 DEF Contract!cvars
<1> QED
  BY <1>1, <1>2, <1>3, <1>4, <1>5, <1>6, <1>7, <1>8, <1>9, <1>10, <1>11, <1>12
     DEF Next, Methods, Writes, vars, ReportSettled, RejectSettled, CancelTask,
         RecordReport, RecordReview, MirrorTaskState, CascadeDone, FailParked,
         ParkedDone, Sweep, Remirror, RemirrorDone, Crash

\* Every behaviour of the queue is one that the contract with the submitter allows.
THEOREM KeepsContract == Spec => ImplementsContract
BY ContractStart, ContractStep, Inductive, PTL DEF Spec, ImplementsContract, Contract!Spec

----------------------------------------------------------------------------
(* What the cascade spares.                                                *)

\* The cascade's mark in a row.
Mark == "dependency_failed"

\* The cascade takes a live dependent of a ticket of its front.
TakenDown(t) ==
  /\ row'[t].status = "failed"
  /\ todo # <<>> /\ Head(todo).op = "cascade" /\ deps[t] \cap Head(todo).front # {}

\* The rows of the other writes carry no mark of their own.
LEMMA Unmarked ==
  ASSUME NEW r \in Row
  PROVE  /\ ApprovedRow(r).result # Mark /\ RejectedRow(r, r.attempts).result # Mark
         /\ CancelledRow(r).result # Mark /\ ReapedRow(r).result = r.result
         /\ TickedRow(r).result = r.result /\ CascadedRow(r).status = "failed"
<1>1. ApprovedRow(r).result # Mark /\ TickedRow(r).result = r.result
  BY DEF Row, ApprovedRow, TickedRow, Mark
<1>3. RejectedRow(r, r.attempts).result # Mark /\ CancelledRow(r).result # Mark
  BY DEF Row, RejectedRow, CancelledRow, NoLease, Mark
<1>4. ReapedRow(r).result = r.result /\ CascadedRow(r).status = "failed"
  BY DEF Row, ReapedRow, CascadedRow, NoLease
<1> QED
  BY <1>1, <1>3, <1>4

\* Only the cascade marks a row.
LEMMA MarkMoves ==
  ASSUME TypeOK, [Next]_vars, NEW t \in Ticket
  PROVE  row'[t].result = row[t].result \/ row'[t].result # Mark \/ TakenDown(t)
<1> DEFINE Goal == row'[t].result = row[t].result \/ row'[t].result # Mark \/ TakenDown(t)
<1>0. row \in [Ticket -> Row] /\ row[t] \in Row
  BY DEF TypeOK
<1>1. ASSUME NEW u \in Ticket, NEW parents \in SUBSET Ticket, Add(u, parents) PROVE Goal
  <2>1. NewRow(u).result = "none"
    BY DEF NewRow, AbsentRow
  <2> QED
    BY <1>0, <1>1, <2>1 DEF Add, Mark
<1>2. ASSUME NEW w \in Worker, NEW tier \in Tier, NEW u \in Ticket, Claim(w, tier, u) PROVE Goal
  <2>1. PICK new : new = ClaimedRow(row[u], w, tier, minted[u] + 1)
    OBVIOUS
  <2>2. row' = [row EXCEPT ![u] = new]
    BY <1>2, <2>1 DEF Claim
  <2>3. u = t => new.result = row[t].result
    BY <1>0, <2>1 DEF ClaimedRow, Row
  <2> QED
    BY <1>0, <2>2, <2>3
<1>3. ASSUME NEW g \in granted, NEW extend \in 1..(MaxExtend + 1), Renew(g[1], g[2], g[3], extend)
      PROVE  Goal
  <2>1. PICK new : new = RenewedRow(row[g[2]], extend)
    OBVIOUS
  <2>2. row' = [row EXCEPT ![g[2]] = new]
    BY <1>3, <2>1 DEF Renew
  <2>3. g[2] = t => new.result = row[t].result
    BY <1>0, <2>1 DEF RenewedRow, Row
  <2> QED
    BY <1>0, <2>2, <2>3
<1>4. ASSUME NEW g \in granted, NEW tier \in Tier, NEW ok \in BOOLEAN,
             Report(g[1], tier, g[2], g[3], ok)
      PROVE  Goal
  <2>1. PICK new : new = ReportedRow(row[g[2]], row[g[2]].attempts, tier, g[3], ok)
    OBVIOUS
  <2>2. row' = [row EXCEPT ![g[2]] = new]
    BY <1>4, <2>1 DEF Report
  <2>3. g[2] = t => new.result # Mark
    BY <1>0, <2>1 DEF ReportedRow, NoLease, Row, Mark
  <2> QED
    BY <1>0, <2>2, <2>3
<1>5. ASSUME NEW u \in Ticket, Approve(u) PROVE Goal
  BY <1>0, <1>5, Unmarked DEF Approve
<1>6. ASSUME NEW u \in Ticket, Reject(u) PROVE Goal
  <2>1. row' = [row EXCEPT ![u] = RejectedRow(row[u], row[u].attempts)]
    BY <1>6 DEF Reject
  <2> QED
    BY <1>0, <2>1, Unmarked
<1>7. ASSUME NEW k \in Task, CancelForTask(k) PROVE Goal
  <2>1. row'[t] = row[t] \/ row'[t] = CancelledRow(row[t])
    BY <1>7 DEF CancelForTask
  <2> QED
    BY <1>0, <2>1, Unmarked
<1>8. ASSUME Reap PROVE Goal
  <2>1. row'[t] = row[t] \/ row'[t] = ReapedRow(row[t])
    BY <1>8 DEF Reap
  <2> QED
    BY <1>0, <2>1, Unmarked
<1>9. ASSUME NEW c \in Ticket, CascadeStep(c) PROVE Goal
  <2>1. row' = [row EXCEPT ![c] = CascadedRow(row[c])] /\ Next1("cascade")
        /\ deps[c] \cap Head(todo).front # {}
    BY <1>9 DEF CascadeStep, Dependents
  <2>2. CASE t # c
    BY <1>0, <2>1, <2>2
  <2>3. CASE t = c
    BY <1>0, <2>1, <2>3, Unmarked DEF TakenDown, Next1
  <2> QED
    BY <2>2, <2>3
<1>10. ASSUME Tick PROVE Goal
  BY <1>0, <1>10, Unmarked DEF Tick
<1>11. ASSUME row' = row PROVE Goal
  BY <1>11
<1> HIDE DEF Goal
<1>12. Goal
  BY <1>1, <1>2, <1>3, <1>4, <1>5, <1>6, <1>7, <1>8, <1>9, <1>10, <1>11
     DEF Next, Methods, Writes, vars, ReportSettled, RejectSettled, Link, CancelTask,
         RecordReport, RecordReview, MirrorTaskState, CascadeDone, FailParked,
         ParkedDone, Sweep, Remirror, RemirrorDone, Crash
<1> QED
  BY <1>12 DEF Goal

\* A marked row has failed.
MarkedFailed == \A t \in Ticket : row[t].result = Mark => row[t].status = "failed"

\* It stays so: a failed row is final.
LEMMA MarkedFailedStep ==
  ASSUME TypeOK, MarkedFailed, [Next]_vars
  PROVE  MarkedFailed'
<1> SUFFICES ASSUME NEW t \in Ticket, row'[t].result = Mark PROVE row'[t].status = "failed"
  BY DEF MarkedFailed
<1>1. row[t].status = "failed" => row'[t].status = "failed"
  BY Stable DEF TerminalStatus
<1> QED
  BY <1>1, MarkMoves DEF MarkedFailed, TakenDown

\* The front of a cascade is dead, and what is worked on or reviewed has only
\* parents that are done: the cascade takes nothing from a worker or a reviewer.
THEOREM CascadeIsGentle == Spec => CascadeSparesLiveWork
<1>1. Init => MarkedFailed
  BY DEF Init, AbsentRow, MarkedFailed, Mark
<1>2. IInv /\ MarkedFailed /\ [Next]_vars => MarkedFailed'
  BY MarkedFailedStep DEF IInv
<1>3. ASSUME IInv, MarkedFailed, [Next]_vars
      PROVE  [\A t \in Ticket : row[t].status \in {"claimed", "in_review"} =>
                row'[t].result # "dependency_failed"]_vars
  <2> SUFFICES ASSUME NEW t \in Ticket, row[t].status \in {"claimed", "in_review"}
               PROVE  row'[t].result # Mark
    BY DEF Mark
  <2>1. row[t].result # Mark
    BY <1>3 DEF MarkedFailed
  <2>2. ~TakenDown(t)
    <3> SUFFICES ASSUME TakenDown(t) PROVE FALSE
      OBVIOUS
    <3>1. PICK x : x = Head(todo)
      OBVIOUS
    <3>2. PICK p \in deps[t] : p \in x.front
      BY <3>1 DEF TakenDown
    <3>3. x \in Items(todo) /\ x.op = "cascade"
      BY <1>3, <3>1, TailItems DEF TakenDown, IInv, TypeOK
    <3>4. Dead(row[p])
      BY <1>3, <3>2, <3>3 DEF IInv, TodoInv, WriteTrue
    <3>5. row[p].status = "done"
      BY <1>3, <3>2 DEF IInv, DependencyGate
    <3> QED
      BY <3>4, <3>5 DEF Dead
  <2> QED
    BY <1>3, <2>1, <2>2, MarkMoves DEF IInv
<1> QED
  BY <1>1, <1>2, <1>3, Inductive, PTL DEF Spec, CascadeSparesLiveWork
============================================================================
