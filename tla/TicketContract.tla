--------------------------- MODULE TicketContract ---------------------------
(***************************************************************************)
(* What the work queue promises the submitter of a ticket, without leases, *)
(* tokens, rows, mirrors or cascades: a ticket is worked on only after     *)
(* everything it needs has succeeded, at most MaxAttempts times, and ends  *)
(* either succeeded or lost, for good.                                     *)
(***************************************************************************)
EXTENDS Naturals

CONSTANTS Ticket, MaxAttempts

VARIABLES
  phase,   \* where each ticket is
  tries,   \* how often it has been handed out
  needs    \* the tickets it waits for

cvars == <<phase, tries, needs>>

Phase == {"unknown", "waiting", "working", "judging", "succeeded", "lost"}
Busy == {"working", "judging"}
Over == {"succeeded", "lost"}

Init ==
  /\ phase = [t \in Ticket |-> "unknown"]
  /\ tries = [t \in Ticket |-> 0]
  /\ needs = [t \in Ticket |-> {}]

Submit(t, parents) ==
  /\ phase[t] = "unknown"
  /\ \A p \in parents : phase[p] # "unknown"
  /\ phase' = [phase EXCEPT ![t] = "waiting"]
  /\ needs' = [needs EXCEPT ![t] = parents]
  /\ UNCHANGED tries

\* More may be asked of a ticket, but not while somebody works on it.
Require(t, p) ==
  /\ phase[t] \notin Busy
  /\ needs' = [needs EXCEPT ![t] = @ \cup {p}]
  /\ UNCHANGED <<phase, tries>>

Start(t) ==
  /\ phase[t] = "waiting"
  /\ tries[t] < MaxAttempts
  /\ \A p \in needs[t] : phase[p] = "succeeded"
  /\ phase' = [phase EXCEPT ![t] = "working"]
  /\ tries' = [tries EXCEPT ![t] = @ + 1]
  /\ UNCHANGED needs

Deliver(t) ==
  /\ phase[t] = "working"
  /\ phase' = [phase EXCEPT ![t] = "judging"]
  /\ UNCHANGED <<tries, needs>>

Succeed(t) ==
  /\ phase[t] \in Busy
  /\ phase' = [phase EXCEPT ![t] = "succeeded"]
  /\ UNCHANGED <<tries, needs>>

\* Some go back for another try, only those that have one left; some are lost.
Settle(back, lost) ==
  /\ \A t \in back : phase[t] \in Busy /\ tries[t] < MaxAttempts
  /\ \A t \in lost : phase[t] \in Busy \cup {"waiting"}
  /\ phase' = [t \in Ticket |-> IF t \in back THEN "waiting"
                                ELSE IF t \in lost THEN "lost" ELSE phase[t]]
  /\ UNCHANGED <<tries, needs>>

Next ==
  \/ \E t \in Ticket, parents \in SUBSET Ticket : Submit(t, parents)
  \/ \E t, p \in Ticket : Require(t, p)
  \/ \E t \in Ticket : Start(t) \/ Deliver(t) \/ Succeed(t)
  \/ \E back, lost \in SUBSET Ticket : Settle(back, lost)

Spec == Init /\ [][Next]_cvars
=============================================================================
