--------------------------- MODULE TicketsProofs ---------------------------
(* Lemmas about the rows, tasks and edges of Tickets, for the proofs about *)
(* one broker process (WorkQueueProofs) and about several (BrokerProofs).  *)
EXTENDS Tickets, TLAPS

----------------------------------------------------------------------------
(* Rows and tasks.                                                         *)

\* All lease columns NULL is a lease.
LEMMA FreeLeaseType == FreeLease \in Lease
BY DEF FreeLease, Lease

\* Each write leaves a row.
LEMMA RowTypes ==
  ASSUME NEW r \in Row
  PROVE  /\ NoLease(r) \in Row /\ ApprovedRow(r) \in Row /\ CancelledRow(r) \in Row
         /\ ReapedRow(r) \in Row /\ CascadedRow(r) \in Row /\ TickedRow(r) \in Row
         /\ \A n \in Nat : RejectedRow(r, n) \in Row
         /\ \A n, k \in Nat, tier \in Tier, ok \in BOOLEAN :
              ReportedRow(r, n, tier, k, ok) \in Row
         /\ \A w \in Worker, tier \in Tier, n \in Nat : ClaimedRow(r, w, tier, n) \in Row
         /\ \A n \in Nat : RenewedRow(r, n) \in Row
<1>1. NoLease(r) \in Row
  BY FreeLeaseType DEF Row, NoLease
<1>2. ApprovedRow(r) \in Row
  BY DEF Row, ApprovedRow, TicketStatus, ResultStatus
<1>3. CancelledRow(r) \in Row
  BY <1>1 DEF Row, CancelledRow, TicketStatus, ParkReason, ResultStatus
<1>4. ReapedRow(r) \in Row
  BY <1>1 DEF Row, ReapedRow, TicketStatus, ParkReason
<1>5. CascadedRow(r) \in Row
  BY <1>1 DEF Row, CascadedRow, TicketStatus, ParkReason, ResultStatus
<1>6. TickedRow(r) \in Row
  BY DEF Row, Lease, TickedRow
<1>7. ASSUME NEW n \in Nat PROVE RejectedRow(r, n) \in Row
  BY <1>1 DEF Row, RejectedRow, TicketStatus, ResultStatus
<1>8. ASSUME NEW n \in Nat, NEW k \in Nat, NEW tier \in Tier, NEW ok \in BOOLEAN
      PROVE  ReportedRow(r, n, tier, k, ok) \in Row
  BY <1>1 DEF Row, ReportedRow, TicketStatus, ResultStatus
<1>9. ASSUME NEW w \in Worker, NEW tier \in Tier, NEW n \in Nat
      PROVE  ClaimedRow(r, w, tier, n) \in Row
  <2> DEFINE l == [holder |-> w, tier |-> tier, token |-> n, ttl |-> LeaseSeconds]
  <2>1. l \in Lease
    BY BoundTypes DEF Lease
  <2> DEFINE m == r.attempts + 1
  <2>2. m \in Nat
    BY DEF Row
  <2>3. ClaimedRow(r, w, tier, n) =
          [r EXCEPT !.status = "claimed", !.attempts = m, !.lease = l]
    BY DEF ClaimedRow
  <2> HIDE DEF l, m
  <2> QED
    BY <2>1, <2>2, <2>3 DEF Row, TicketStatus
<1>10. ASSUME NEW n \in Nat PROVE RenewedRow(r, n) \in Row
  BY BoundTypes DEF Row, Lease, RenewedRow
<1> QED
  BY <1>1, <1>2, <1>3, <1>4, <1>5, <1>6, <1>7, <1>8, <1>9, <1>10

\* add writes a row.
LEMMA NewRowType ==
  /\ AbsentRow \in Row
  /\ \A t \in Ticket : NewRow(t) \in Row
BY FreeLeaseType DEF Row, AbsentRow, NewRow, TicketStatus, ParkReason, ResultStatus

\* The mirror writes a task state to one task.
LEMMA ConvergeType ==
  ASSUME NEW f \in [Task -> TaskState], NEW k \in Task \cup {None}, NEW s \in TaskState
  PROVE  /\ Converge(f, k, s) \in [Task -> TaskState]
         /\ \A j \in Task : j # k => Converge(f, k, s)[j] = f[j]
         /\ \A j \in Task : f[j] \in TerminalTask => Converge(f, k, s)[j] = f[j]
         /\ k \in Task => Converge(f, k, s)[k] \in {f[k], s}
BY ConstantTypes DEF Converge

\* Dead rows, per way of dying.
LEMMA DeadRows ==
  ASSUME NEW r \in Row
  PROVE  /\ CancelledRow(r).status = "cancelled" /\ CascadedRow(r).status = "failed"
         /\ CancelledRow(r).attempts = r.attempts /\ CascadedRow(r).attempts = r.attempts
         /\ Dead(CancelledRow(r)) /\ Dead(CascadedRow(r))
         /\ NoLease(r).attempts = r.attempts
BY DEF Row, CancelledRow, CascadedRow, NoLease, Dead

----------------------------------------------------------------------------
(* Edges.                                                                  *)

\* What a ticket reaches is the least set that holds it and is closed under
\* following dependencies.
LEMMA ReachFacts ==
  ASSUME NEW d \in [Ticket -> SUBSET Ticket], NEW p \in Ticket
  PROVE  /\ Reach(d, p) \subseteq Ticket /\ p \in Reach(d, p) /\ Closed(d, Reach(d, p))
         /\ \A S \in SUBSET Ticket : p \in S /\ Closed(d, S) => Reach(d, p) \subseteq S
<1>1. p \in Reach(d, p) /\ Reach(d, p) \subseteq Ticket
  BY DEF Reach
<1>2. ASSUME NEW t \in Reach(d, p), NEW u \in d[t] PROVE u \in Reach(d, p)
  <2>1. ASSUME NEW S \in SUBSET Ticket, p \in S, Closed(d, S) PROVE u \in S
    BY <2>1 DEF Reach, Closed
  <2> QED
    BY <1>1, <2>1 DEF Reach
<1>3. Closed(d, Reach(d, p))
  BY <1>2 DEF Closed
<1>4. ASSUME NEW S \in SUBSET Ticket, p \in S, Closed(d, S) PROVE Reach(d, p) \subseteq S
  BY <1>4 DEF Reach
<1> QED
  BY <1>1, <1>3, <1>4

\* Every set of tickets has one that depends on none of them.
AcyclicIn(d) == \A S \in SUBSET Ticket : S # {} => \E t \in S : d[t] \cap S = {}

\* A new ticket closes no circle, for nothing depends on it yet.
LEMMA AcyclicAdd ==
  ASSUME NEW d \in [Ticket -> SUBSET Ticket], AcyclicIn(d), NEW u \in Ticket,
         NEW parents \in SUBSET Ticket, u \notin parents, \A t \in Ticket : u \notin d[t]
  PROVE  AcyclicIn([d EXCEPT ![u] = parents])
<1>1. PICK e : e = [d EXCEPT ![u] = parents]
  OBVIOUS
<1>2. e[u] = parents /\ \A t \in Ticket \ {u} : e[t] = d[t]
  BY <1>1
<1>3. ASSUME NEW S \in SUBSET Ticket, S # {}
      PROVE  \E t \in S : e[t] \cap S = {}
  <2>1. CASE S = {u}
    BY <1>2, <2>1
  <2>2. CASE S # {u}
    <3>1. S \ {u} # {} /\ S \ {u} \in SUBSET Ticket
      BY <1>3, <2>2
    <3>2. PICK t \in S \ {u} : d[t] \cap (S \ {u}) = {}
      BY <3>1 DEF AcyclicIn
    <3>3. e[t] \cap S = {}
      BY <1>2, <3>2
    <3> QED
      BY <3>2, <3>3
  <2> QED
    BY <2>1, <2>2
<1> QED
  BY <1>1, <1>3 DEF AcyclicIn

\* An edge c -> p closes no circle if c is not among the tickets p reaches.
LEMMA AcyclicLink ==
  ASSUME NEW d \in [Ticket -> SUBSET Ticket], AcyclicIn(d), NEW c \in Ticket, NEW p \in Ticket,
         c \notin Reach(d, p)
  PROVE  AcyclicIn([d EXCEPT ![c] = @ \cup {p}])
<1>1. PICK e : e = [d EXCEPT ![c] = @ \cup {p}]
  OBVIOUS
<1>2. e[c] = d[c] \cup {p} /\ \A t \in Ticket \ {c} : e[t] = d[t]
  BY <1>1
<1>3. PICK R : R = Reach(d, p)
  OBVIOUS
<1>4. c \notin R /\ R \subseteq Ticket /\ p \in R /\ \A t \in R : d[t] \subseteq R
  BY <1>3, ReachFacts DEF Closed
<1>5. ASSUME NEW S \in SUBSET Ticket, S # {}
      PROVE  \E t \in S : e[t] \cap S = {}
  <2>1. CASE S \cap R = {}
    <3>1. PICK t \in S : d[t] \cap S = {}
      BY <1>5 DEF AcyclicIn
    <3>2. e[t] \cap S = {}
      BY <1>2, <1>4, <2>1, <3>1
    <3> QED
      BY <3>2
  <2>2. CASE S \cap R # {}
    <3>1. S \cap R \in SUBSET Ticket
      BY <1>4
    <3>2. PICK t \in S \cap R : d[t] \cap (S \cap R) = {}
      BY <2>2, <3>1 DEF AcyclicIn
    <3>3. e[t] \cap S = {}
      BY <1>2, <1>4, <3>2
    <3> QED
      BY <3>2, <3>3
  <2> QED
    BY <2>1, <2>2
<1> QED
  BY <1>1, <1>5 DEF AcyclicIn
============================================================================
