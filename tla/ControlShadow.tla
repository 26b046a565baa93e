---------------------------- MODULE ControlShadow ----------------------------
(***************************************************************************)
(* Control-model shadow mode: the projection between the control model's   *)
(* vocabulary and AgentConnect's, and the consumer that tails the routing  *)
(* events of the bus, asks the model what it would have done, and records  *)
(* the comparison.  Passes over the bus may overlap (a timer and a CLI     *)
(* call) and may end anywhere (an exception of the sink, a killed process  *)
(* in front of a sink that keeps its cursor; the sink is a protocol, only  *)
(* the in-memory one is in the repository).  The sink is append-only and   *)
(* only the report reads it: the model keeps the record appended last.     *)
(***************************************************************************)
EXTENDS Naturals, Sequences, FiniteSetsExt
CONSTANTS ShadowPass,    \* concurrent invocations of run_once
          RoutedSubtask, \* subtasks the worker router places
          SubtaskTier,   \* their privacy tiers
          ModelClass,    \* the capability classes the model may answer
          BatchLimit, MaxRoutings
VARIABLES placedAt, routed, shadowCursor, shadowRecords, passes, handled
shadowVars == <<placedAt, routed, shadowCursor, shadowRecords, passes, handled>>

(***************************************************************************)
(* Vocabularies and their projections.                                     *)
(***************************************************************************)
TierOrder == [public |-> 0, public_redacted |-> 1, repo_sensitive |-> 2, local_only |-> 3, secret_sensitive |-> 4]
ASSUME ShadowTypes == SubtaskTier \in [RoutedSubtask -> DOMAIN TierOrder] /\ BatchLimit \in Nat \ {0}
ClassOrder == [public |-> 0, low_sensitive |-> 1, repo_sensitive |-> 2, restricted |-> 3, secret_sensitive |-> 4]
ControlOrder == [public |-> 0, local_preferred |-> 1, local_only |-> 2, secret_involved |-> 3]
ControlToClass == [public |-> "public", local_preferred |-> "low_sensitive",
                   local_only |-> "restricted", secret_involved |-> "secret_sensitive"]
ClassToControl == [public |-> "public", low_sensitive |-> "local_preferred", repo_sensitive |-> "local_only",
                   restricted |-> "local_only", secret_sensitive |-> "secret_involved"]
ControlToTier == [public |-> "public", local_preferred |-> "repo_sensitive",
                  local_only |-> "local_only", secret_involved |-> "secret_sensitive"]
TierToControl == [public |-> "public", public_redacted |-> "local_preferred", repo_sensitive |-> "local_only",
                  local_only |-> "local_only", secret_sensitive |-> "secret_involved"]

NonProviderClass == {"deterministic_rule", "embedded_controller"}
InferenceBoxClass == {"inference_box_general", "inference_box_repository_coder",
                      "inference_box_reasoner", "inference_box_vision"}
CloudClass == {"cloud_general", "cloud_repository_coder", "cloud_reasoner", "cloud_vision", "cloud_frontier"}
ProviderTierOf == [local |-> "local_only", cloud |-> "external", rented |-> "private_rented"]
\* from_worker_location: a location that is missing or that the table does not know
\* has no tier
WorkerTier(location) == IF location \in DOMAIN ProviderTierOf THEN ProviderTierOf[location] ELSE "none"
PlacedLocation == DOMAIN ProviderTierOf \cup {"unknown"}
AdmittedTiers(class) == \* capability_class_to_provider_tiers
  IF class \in NonProviderClass THEN {}
  ELSE IF class \in InferenceBoxClass THEN {"local_only"} ELSE {"external", "external_paid"}
\* provider_tier_to_capability_classes is faithful for every tier but a rented node
Representable(tier) == tier # "private_rented"
RouteAgreement(class, tier) ==
  CASE class \in NonProviderClass -> "not_a_provider_route"
    [] class \notin NonProviderClass /\ ~Representable(tier) -> "unrepresentable"
    [] OTHER -> IF tier \in AdmittedTiers(class) THEN "agree" ELSE "disagree"

(***************************************************************************)
(* The bus and the ledger.                                                 *)
(***************************************************************************)
NoPass == [at |-> "idle"]
ShadowInit == /\ placedAt = [s \in RoutedSubtask |-> "nowhere"] /\ routed = <<>>
              /\ shadowCursor = 0 /\ shadowRecords = {} /\ handled = {}
              /\ passes = [p \in ShadowPass |-> NoPass]
\* The router writes route_reason and then emits the event.  A pass reads the route
\* only of an event it has seen, so the two writes are one step.
PlaceSubtask(s, location) ==
  /\ Len(routed) < MaxRoutings
  /\ placedAt' = [placedAt EXCEPT ![s] = location] /\ routed' = Append(routed, s)
  /\ UNCHANGED <<shadowCursor, shadowRecords, passes, handled>>

(***************************************************************************)
(* run_once.                                                               *)
(***************************************************************************)
Move(p, state) == passes' = [passes EXCEPT ![p] = state]
ReadBatch(p) ==
  LET n == Min({BatchLimit, Len(routed) - shadowCursor}) IN
  /\ passes[p] = NoPass /\ n > 0
  /\ Move(p, [at |-> "event", todo |-> [i \in 1 .. n |-> shadowCursor + i]])
  /\ UNCHANGED <<placedAt, routed, shadowCursor, shadowRecords, handled>>
Rest(p) == IF Len(passes[p].todo) = 1 THEN NoPass ELSE [at |-> "event", todo |-> Tail(passes[p].todo)]
\* Slip: the cursor jumps to the end of the batch.
SkipsAhead(p) == shadowCursor' = passes[p].todo[Len(passes[p].todo)]
SetCursor(p) == shadowCursor' = Head(passes[p].todo)
\* the facts come from the ledger: no recorded route, or a failed read, is a skip
Resolve(p, readable) ==
  LET seq == Head(passes[p].todo)
      s == routed[seq]
  IN /\ passes[p].at = "event"
     /\ IF readable
        THEN /\ Move(p, [at |-> "ask", todo |-> passes[p].todo, attempt |-> 1,
               privacy |-> TierToControl[SubtaskTier[s]], tier |-> WorkerTier(placedAt[s])])
             /\ UNCHANGED <<shadowCursor, handled>>
        ELSE /\ SetCursor(p) /\ handled' = handled \cup {seq} /\ Move(p, Rest(p))
     /\ UNCHANGED <<placedAt, routed, shadowRecords>>
\* _score: without a decision, or without a tier to compare it with, no verdict
Score(class, tier) == IF class = "error" \/ tier = "none" THEN "none" ELSE RouteAgreement(class, tier)
Scored(p, class) == [seq |-> Head(passes[p].todo), privacy |-> passes[p].privacy, tier |-> passes[p].tier,
                     model |-> class, agreement |-> Score(class, passes[p].tier)]
\* a reply that is not a schema-valid ROUTE decision is no decision
ParseDecision(reply) == reply \in NonProviderClass \cup InferenceBoxClass \cup CloudClass
\* evaluate_once: one repair attempt for an invalid reply, none for a failed call
EvaluateOnce(p, reply) ==
  /\ passes[p].at = "ask"
  /\ IF reply # "unreachable" /\ ~ParseDecision(reply) /\ passes[p].attempt = 1
     THEN Move(p, [passes[p] EXCEPT !.attempt = 2])
     ELSE Move(p, [at |-> "append", todo |-> passes[p].todo,
                   record |-> Scored(p, IF ParseDecision(reply) THEN reply ELSE "error")])
  /\ UNCHANGED <<placedAt, routed, shadowCursor, shadowRecords, handled>>
AppendShadow(p, ok) == \* a sink failure must not wedge the tail
  /\ passes[p].at = "append"
  /\ shadowRecords' = IF ok THEN {passes[p].record} ELSE shadowRecords
  /\ handled' = handled \cup {Head(passes[p].todo)}
  /\ Move(p, [at |-> "advance", todo |-> passes[p].todo])
  /\ UNCHANGED <<placedAt, routed, shadowCursor>>
AdvanceCursor(p) ==
  /\ passes[p].at = "advance" /\ SetCursor(p) /\ Move(p, Rest(p))
  /\ UNCHANGED <<placedAt, routed, shadowRecords, handled>>
PassDies(p) == /\ passes[p] # NoPass /\ Move(p, NoPass)
               /\ UNCHANGED <<placedAt, routed, shadowCursor, shadowRecords, handled>>
ShadowNext ==
  \/ \E s \in RoutedSubtask, location \in PlacedLocation : PlaceSubtask(s, location)
  \/ \E p \in ShadowPass : \/ ReadBatch(p) \/ AdvanceCursor(p) \/ PassDies(p)
       \/ \E ok \in BOOLEAN : Resolve(p, ok) \/ AppendShadow(p, ok)
       \/ \E reply \in ModelClass \cup {"invalid", "unreachable"} : EvaluateOnce(p, reply)
ShadowSpec == ShadowInit /\ [][ShadowNext]_shadowVars

(***************************************************************************)
(* Properties.                                                             *)
(***************************************************************************)
\* No routing event is lost to the evaluation unseen: whatever passes overlap, die
\* between the append and the cursor, or set the cursor back, every event at or
\* behind the cursor was resolved to a skip or had its record handed to the sink.
TailComplete == \A n \in 1 .. shadowCursor : n \in handled

\* The metric is fair and the projection never widens: a route to a rented node is
\* never counted for or against the model, a record carries no verdict exactly when
\* the model gave no decision or the route names no known location (it is uncompared,
\* not guessed), a verdict is "agree" exactly for a local box on a local route and a
\* cloud class on a cloud route; and a privacy value that goes to the model's
\* vocabulary and back is never looser than it was.
ScoredFairly ==
  /\ \A r \in shadowRecords :
       /\ r.tier = "private_rented" => r.agreement \in {"unrepresentable", "not_a_provider_route", "none"}
       /\ r.agreement = "none" <=> r.model = "error" \/ r.tier = "none"
       /\ r.agreement = "agree" <=> \/ r.tier = "local_only" /\ r.model \in InferenceBoxClass
                                    \/ r.tier = "external" /\ r.model \in CloudClass
       /\ TierOrder[ControlToTier[r.privacy]] >= TierOrder[SubtaskTier[routed[r.seq]]]
  /\ \A t \in DOMAIN TierOrder : TierOrder[ControlToTier[TierToControl[t]]] >= TierOrder[t]
  /\ \A c \in DOMAIN ClassOrder : ClassOrder[ControlToClass[ClassToControl[c]]] >= ClassOrder[c]
  /\ \A v \in DOMAIN ControlOrder : /\ ControlOrder[TierToControl[ControlToTier[v]]] >= ControlOrder[v]
                                    /\ ControlOrder[ClassToControl[ControlToClass[v]]] >= ControlOrder[v]

\* What the shadow evaluation promises (control_shadow.py): no routing event lost
\* unseen, and no verdict the vocabulary cannot support.
ShadowSafe == TailComplete /\ ScoredFairly
=============================================================================
