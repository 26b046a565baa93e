--------------------------- MODULE RouterPolicy ---------------------------
(***************************************************************************)
(* The pure policy of the router: privacy classification and redaction     *)
(* (common/privacy.py), the state machine of a task (common/state.py) and  *)
(* the eligibility of a provider (router/routing.py).  Scores only rank    *)
(* the eligible providers, by learned priors and live load; the model      *)
(* leaves the winner open, so what holds of a route holds for every score. *)
(***************************************************************************)
EXTENDS Transitions, Integers, Sequences, TLC

CONSTANTS
  Provider,      \* providers.yaml entries
  KindOf,        \* Provider -> "owned" | "rented" | "cloud"
  PrivacyOf,     \* Provider -> privacy tier
  Trusted,       \* rented providers whose rental.trust flags are all set
  RequestCap,    \* quota.max_requests of a cloud provider
  CallCost,      \* estimated price of one call, or of one rental window
  None           \* absent

ASSUME PolicyTypes ==
  /\ KindOf \in [Provider -> {"owned", "rented", "cloud"}]
  /\ Trusted \subseteq Provider
  /\ RequestCap \in Nat /\ CallCost \in Nat
  /\ \A p \in Provider : \* as providers.yaml describes its entries
       /\ KindOf[p] = "owned" => PrivacyOf[p] = "local_only"
       /\ KindOf[p] = "cloud" => PrivacyOf[p] # "private_rented"

----------------------------------------------------------------------------
(* The task state machine.                                                 *)

RouterTerminal == {"COMPLETE", "CANCELLED", "FAILED"}

Allowed(src) ==
  CASE src = "CREATED"           -> {"CLASSIFIED"}
    [] src = "CLASSIFIED"        -> {"PRIVACY_CHECKED"}
    [] src = "PRIVACY_CHECKED"   -> {"ELIGIBLE_PROVIDERS_COMPUTED", "REJECTED"}
    [] src = "ELIGIBLE_PROVIDERS_COMPUTED" -> {"QUEUED", "REJECTED"}
    [] src = "QUEUED"            -> {"DISPATCHED"}
    [] src = "DISPATCHED"        -> {"RUNNING"}
    [] src = "RUNNING"           -> {"ARTIFACTS_WRITTEN", "FAILED"}
    [] src = "ARTIFACTS_WRITTEN" -> {"CHECKS_RUN"}
    [] src = "CHECKS_RUN"        -> {"REVIEW_READY"}
    [] src = "REVIEW_READY"      -> {"APPROVED", "REJECTED", "RETRY"}
    [] src = "APPROVED"          -> {"COMPLETE"}
    [] src = "REJECTED"          -> {"COMPLETE", "RETRY"}
    [] src = "RETRY"             -> {"QUEUED"}
    [] OTHER                     -> {}

\* CANCELLED is reached from any state that is not terminal.
AllowedTransitions(src) ==
  Allowed(src) \cup IF src \in RouterTerminal THEN {} ELSE {"CANCELLED"}

----------------------------------------------------------------------------
(* Privacy.                                                                *)

PrivacyClass == {"public", "low_sensitive", "repo_sensitive",
                 "secret_sensitive", "restricted"}

\* routing.yaml, privacy.classes.
ClassTiers(class) ==
  CASE class \in {"public", "low_sensitive"} ->
         {"local_only", "private_rented", "external", "external_paid"}
    [] class \in {"repo_sensitive", "restricted"} -> {"local_only"}
    [] OTHER -> {}

\* A hard secret in the text, or a file of the denylist among the inputs.
HardSecret(sub) == sub.denylisted \/ sub.content = "secret"

\* classify(): a declared class wins; the pipeline passes no private-repo hint.
Classify(sub) ==
  IF sub.declared # None THEN sub.declared
  ELSE IF HardSecret(sub) THEN "secret_sensitive"
  ELSE IF sub.content = "pii" THEN "low_sensitive" ELSE "public"

\* redact() replaces the matches of the detectors; whether the result may go to a
\* cloud model is its cloud_safe, which only a low_sensitive task is asked for.
RedactCloudSafe(content, class) ==
  class \notin {"secret_sensitive", "restricted"} /\ content # "secret"

\* _child_privacy_class: a delegated child is never looser than its parent.
ChildPrivacyClass(parent, proposed) ==
  IF /\ proposed \in PrivacyClass
     /\ ClassTiers(proposed) \subseteq ClassTiers(parent)
  THEN proposed ELSE parent

----------------------------------------------------------------------------
(* Provider eligibility.                                                   *)

\* A rented node is admitted for repo_sensitive on the task's opt-in alone.
AllowedPrivacyTiers(class, sub) ==
  ClassTiers(class) \cup
    IF sub.rented /\ class = "repo_sensitive" THEN {"private_rented"} ELSE {}

IsRented(p) == KindOf[p] = "rented"

IsPaid(p) == PrivacyOf[p] = "external_paid"

\* The global budget gate over paid and rented providers.
BudgetGate(remaining, configured) ==
  IF ~configured THEN "budget_not_configured"
  ELSE IF CallCost > remaining THEN "period_budget_exhausted" ELSE ""

\* resolve_local_model: the model a local manager would serve and whether
\* that means a switch.  A profile has a preferred model, possibly one of
\* the sentinels, and a sequence of acceptable ones.
Deref(name, st) ==
  IF name = "current_resident" \/ (name = "any" /\ st.loaded # None) THEN st.loaded
  ELSE IF name # "any" THEN name
  ELSE IF st.available = {} THEN None ELSE CHOOSE m \in st.available : TRUE

ResolveLocalModel(sub, st) ==
  LET prof == sub.profile
      Choice(m) == [model |-> m, switch |-> m # st.loaded]
      pref == Deref(prof.preferred, st)
      names == [i \in DOMAIN prof.acceptable |-> Deref(prof.acceptable[i], st)]
      acceptable == SelectSeq(names, LAMBDA m : m \in st.available)
      residentOk == st.loaded # None /\
        \/ st.loaded = pref
        \/ \E i \in DOMAIN acceptable : acceptable[i] = st.loaded
        \/ prof.preferred \in {"current_resident", "any"}
  IN CASE sub.exact # None ->
            [model |-> IF sub.exact \in st.available THEN sub.exact ELSE None,
             switch |-> sub.exact # st.loaded]
       [] sub.exact = None /\ residentOk -> Choice(st.loaded)
       [] sub.exact = None /\ ~residentOk /\ pref \in st.available -> Choice(pref)
       [] sub.exact = None /\ ~residentOk /\ pref \notin st.available
            /\ acceptable # <<>> -> Choice(Head(acceptable))
       [] OTHER -> [model |-> st.loaded, switch |-> FALSE]

\* A switch needs urgency, or an idle queue and a batch behind the task (the
\* pipeline passes a batch of zero).
SwitchAllowed(sub, st) == sub.urgent

\* status_can_accept: the context must fit the model.
StatusCanAccept(model, st) == model \in st.available /\ st.fits

OwnedRejection(sub, st) ==
  LET choice == ResolveLocalModel(sub, st)
  IN IF st = None THEN "local_manager_status_unavailable"
     ELSE IF choice.model = None THEN "no_eligible_local_model"
     ELSE IF ~StatusCanAccept(choice.model, st) THEN "context_exceeds_max_model_len"
     ELSE IF choice.switch /\ ~SwitchAllowed(sub, st)
       THEN "not_loaded_and_switch_threshold_not_met" ELSE ""

CloudRejection(p, sub, class, headroom, gate) ==
  IF ~sub.external THEN "external_routing_not_allowed_for_task"
  ELSE IF class = "low_sensitive" /\ ~RedactCloudSafe(sub.content, class)
    THEN "redaction_failed_not_cloud_safe"
  ELSE IF IsPaid(p) /\ ~sub.paid THEN "paid_routing_not_allowed_for_task"
  ELSE IF headroom < 1 THEN "daily_request_quota_exhausted"
  ELSE IF IsPaid(p) THEN gate ELSE ""

RentedRejection(p, class, gate) ==
  IF class = "repo_sensitive" /\ p \notin Trusted
  THEN "rented_node_trust_policy_unmet" ELSE gate

\* Slip: the tiers of a class are a preference, not a constraint.
RejectionAnyTier(p, sub, class, st, headroom, gate) ==
  CASE KindOf[p] = "cloud"  -> CloudRejection(p, sub, class, headroom, gate)
    [] KindOf[p] = "rented" -> RentedRejection(p, class, gate)
    [] OTHER                -> OwnedRejection(sub, st)

\* eligibility(): why a provider is refused, "" when it is eligible.
Rejection(p, sub, class, st, headroom, gate) ==
  IF AllowedPrivacyTiers(class, sub) = {} THEN "privacy_class_blocks_all_llm_routing"
  ELSE IF PrivacyOf[p] \notin AllowedPrivacyTiers(class, sub)
    THEN "privacy_policy_blocks_provider_tier"
  ELSE CASE KindOf[p] = "cloud"  -> CloudRejection(p, sub, class, headroom, gate)
         [] KindOf[p] = "rented" -> RentedRejection(p, class, gate)
         [] OTHER                -> OwnedRejection(sub, st)

\* The tool loop of an agentic task may only feed an owned model, or a
\* trusted rented one the task opted into.
AgenticAllowed(p, sub) ==
  \/ KindOf[p] = "owned"
  \/ IsRented(p) /\ sub.rented /\ p \in Trusted

============================================================================
