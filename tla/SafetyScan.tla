----------------------------- MODULE SafetyScan -----------------------------
(***************************************************************************)
(* The content-safety pipeline: which engines read a text on a surface,    *)
(* what their findings and their failures decide, and what is left of the  *)
(* text.  A text is the set of its flagged passages; an engine that runs   *)
(* reports every passage of a category it detects, with a span if it can   *)
(* place it.  Detection itself (rules, models, subprocesses) is external.  *)
(***************************************************************************)
EXTENDS Naturals, FiniteSets

CONSTANTS
  Engine,          \* the engines the deployment enables
  Detects,         \* [Engine -> SUBSET Category]: the capabilities of each
  RequiredEngine,  \* those marked required
  Passage,         \* flagged passages
  Kind             \* [Passage -> [category, risk]]

Category == {"secret", "pii", "prompt_injection", "tool_instruction", "encoding"}

ASSUME SafetyConstants ==
  /\ Detects \in [Engine -> SUBSET Category] /\ RequiredEngine \subseteq Engine
  /\ Kind \in [Passage -> [category : Category, risk : {"low", "medium", "high"}]]

\* What an engine does on one scan.  "failed": it raised or timed out;
\* "unbuilt": its constructor raised, so the registry does not hold it; placed
\* tells whether it can locate its findings.
EngineState ==
  {[status |-> s, placed |-> TRUE] : s \in {"ok", "unavailable", "failed", "unbuilt"}}
  \cup {[status |-> "ok", placed |-> FALSE]}

-----------------------------------------------------------------------------
\* The decision tables of policies.py; both surfaces want the same categories,
\* and differ in what high-risk injection text means.
MasksPersonalData(k) == k.category = "pii" /\ k.risk \in {"medium", "high"}
MasksSecret(k) == k.category = "secret" /\ k.risk \in {"medium", "high"}

Rule(surface, k) ==
  CASE MasksSecret(k) \/ MasksPersonalData(k) -> "redact"
    [] k.category = "tool_instruction" /\ k.risk = "high" -> "quarantine"
    [] k.category = "prompt_injection" /\ k.risk = "high" ->
         (IF surface = "context_output" THEN "quarantine" ELSE "warn")
    [] k.category \in {"prompt_injection", "tool_instruction"} /\ k.risk = "medium" -> "warn"
    [] k.category \in {"pii", "encoding"} /\ k.risk = "low" -> "warn"
    [] OTHER -> "allow"

OnScannerError == "quarantine"
OnOptionalEngineError == "warn"

Severity == [allow |-> 0, warn |-> 1, redact |-> 2, quarantine |-> 3, block |-> 4]

Strongest(decisions) ==
  IF decisions = {} THEN "allow"
  ELSE CHOOSE d \in decisions : \A e \in decisions : Severity[e] <= Severity[d]

-----------------------------------------------------------------------------
\* The registry drops an enabled engine whose constructor raises.
Registry(state) == {e \in Engine : state[e].status # "unbuilt"}

\* What a surface asks for: the categories its policy names.
Capabilities(surface) == Category

\* engines_for: the registry's engines, chosen by capability.
EnginesFor(surface, state) ==
  {e \in Registry(state) : Detects[e] \cap Capabilities(surface) # {}}

\* _run: how each of them ended.
Ended(surface, state, how) == {e \in Engine : state[e].status = how /\ e \in EnginesFor(surface, state)}
Looked(surface, state) == Ended(surface, state, "ok")
Broke(surface, state) == Ended(surface, state, "failed")
Unavailable(surface, state) == Ended(surface, state, "unavailable")

\* aggregate: a union; two engines on one span are one finding, and a finding
\* without a span overlaps nothing.
Findings(surface, text, state) ==
  UNION {{[passage |-> p, placed |-> state[e].placed] :
          p \in {q \in text : Kind[q].category \in Detects[e]}} : e \in Looked(surface, state)}

\* A credential that cannot be located cannot be masked: withhold the text.
FindingDecision(surface, f) ==
  IF Rule(surface, Kind[f.passage]) = "redact" /\ ~f.placed
    THEN "quarantine" ELSE Rule(surface, Kind[f.passage])

\* A required engine that broke or is missing fails closed; an optional one
\* that broke can never leave the result at allow; one that is missing warns.
EngineDecisions(surface, state) ==
  {OnScannerError : e \in (Broke(surface, state) \cup Unavailable(surface, state))
                          \cap RequiredEngine}
  \cup {OnOptionalEngineError : e \in Broke(surface, state) \ RequiredEngine}

Decide(surface, findings, state) ==
  Strongest({FindingDecision(surface, f) : f \in findings} \cup EngineDecisions(surface, state))

\* _redact: only what the table redacts, and only where there is a span.
Redact(surface, text, findings) ==
  text \ {p \in text : [passage |-> p, placed |-> TRUE] \in findings
                       /\ Rule(surface, Kind[p]) = "redact"}

\* SafetyResult: redacted means that a secret was found and the decision is
\* redact.
Redacted(decision, findings) ==
  decision = "redact" /\ \E f \in findings : Kind[f.passage].category = "secret"
Withheld(decision) == decision \in {"quarantine", "block"}

Scan(surface, text, state) ==
  LET findings == Findings(surface, text, state)
      decision == Decide(surface, findings, state)
  IN [decision |-> decision,
      body |-> Redact(surface, text, findings),
      found |-> {f.passage : f \in findings},
      redacted |-> Redacted(decision, findings),
      withheld |-> Withheld(decision)]
=============================================================================
