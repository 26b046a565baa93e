---------------------------- MODULE ContextPack ----------------------------
(***************************************************************************)
(* The memory stack and the context packs built from it.  Claims live in   *)
(* the trusted authority (captured pending, promoted by a human, disputed  *)
(* or superseded there); two retrieval backends hold copies indexed at     *)
(* promotion.  A pack puts ledger truth and what each backend recalls in   *)
(* one bounded, ranked, labelled and scanned set, and is pushed to the     *)
(* subtask of the task it is about.  The three backends are external.      *)
(***************************************************************************)
EXTENDS SafetyScan

CONSTANTS
  Claim,        \* memory claims, each with its candidate
  LockedNote,   \* decisions of the task that may be locked
  Text,         \* the texts of claims, decisions and artifacts
  TextOf,       \* [Claim \cup LockedNote -> Text]
  KeyOf,        \* [Text -> STRING]: what _normalize leaves of a text, perhaps nothing
  Content,      \* [Text -> SUBSET Passage]
  Supersedes,   \* [Claim -> SUBSET Claim]: what a claim replaces once promoted
  ScopeOf,      \* [Claim -> Scope]: where a claim is filed
  Adapters,     \* the backends the deployment configures
  AskedProfile  \* the profiles packs are asked for

Profile == {"manager_brief", "worker_brief", "reviewer_brief",
            "implementation_constraints", "known_failures", "model_performance",
            "project_evolution", "broad_project_rag", "hard_policy"}
Scope == {"global", "project", "repo", "task", "manager", "worker", "model"}

ASSUME ContextConstants ==
  /\ TextOf \in [Claim \cup LockedNote -> Text] /\ DOMAIN KeyOf = Text
  /\ Content \in [Text -> SUBSET Passage]
  /\ Supersedes \in [Claim -> SUBSET Claim] /\ ScopeOf \in [Claim -> Scope]
  /\ Adapters \subseteq {"authority", "broad", "graph"}
  /\ AskedProfile \subseteq Profile

VARIABLES
  standing,   \* [Claim -> status in the authority], "none" before capture
  disputed,   \* claims in an open contradiction there
  blessed,    \* claims a human promoted
  indexed,    \* [{"broad", "graph"} -> SUBSET Claim]: the copies
  lockedNow,  \* locked decisions of the task not superseded
  sensitive,  \* the task's effective privacy is secret_sensitive
  pack,       \* the pack last attached to the subtask
  artifact    \* the artifact last stored: its text, body and mark

contextVars ==
  <<standing, disputed, blessed, indexed, lockedNow, sensitive, pack, artifact>>
authorityVars == <<standing, disputed, blessed, indexed>>

NoPack == [items |-> {}, warnings |-> {}, asked |-> {}, profile |-> "none", cut |-> FALSE,
           handoff |-> {}]
NoArtifact == [text |-> {}, body |-> {}, mark |-> "allow", found |-> {}]

ContextInit ==
  /\ standing = [c \in Claim |-> "none"] /\ disputed = {} /\ blessed = {}
  /\ indexed = [b \in {"broad", "graph"} |-> {}]
  /\ lockedNow = {} /\ sensitive = FALSE
  /\ pack = NoPack /\ artifact = NoArtifact

-----------------------------------------------------------------------------
(* The claims.                                                             *)

\* The authority files what it is sent as pending, whatever it answers.
CaptureCandidate(c) == [standing EXCEPT ![c] = "pending"]

\* capture_memory_candidate: a retrieval index refuses captures, and a backend
\* that cannot be reached is an unaccepted capture, not an error.
Capture(c) ==
  /\ "authority" \in Adapters /\ standing[c] = "none"
  /\ standing' = CaptureCandidate(c)
  /\ UNCHANGED <<disputed, blessed, indexed, lockedNow, sensitive, pack, artifact>>

\* The authority's promotion; what the claim supersedes is superseded there.
PromoteCandidate(c) ==
  [d \in Claim |-> IF d = c THEN "promoted"
                   ELSE IF d \in Supersedes[c] /\ standing[d] = "promoted"
                          THEN "superseded" ELSE standing[d]]

IndexClaim(c, reached) ==
  [b \in DOMAIN indexed |-> IF b \in reached THEN indexed[b] \cup {c} ELSE indexed[b]]

\* promote_memory_candidate: the authority's act, then one index_claim per
\* retrieval backend; those that fail are reported and nothing is undone.
PromoteMemoryCandidate(c, reached) ==
  /\ "authority" \in Adapters /\ standing[c] = "pending"
  /\ reached \subseteq Adapters \ {"authority"}
  /\ standing' = PromoteCandidate(c)
  /\ blessed' = blessed \cup {c}
  /\ indexed' = IndexClaim(c, reached)
  /\ UNCHANGED <<disputed, lockedNow, sensitive, pack, artifact>>

\* The authority opens or closes a contradiction, or rejects a candidate; it
\* tells nobody, so the copies in the indexes stay.
Contradict(c) ==
  /\ standing[c] = "promoted"
  /\ disputed' = IF c \in disputed THEN disputed \ {c} ELSE disputed \cup {c}
  /\ UNCHANGED <<standing, blessed, indexed, lockedNow, sensitive, pack, artifact>>

RejectCandidate(c) ==
  /\ standing[c] = "pending"
  /\ standing' = [standing EXCEPT ![c] = "rejected"]
  /\ UNCHANGED <<disputed, blessed, indexed, lockedNow, sensitive, pack, artifact>>

\* The ledger side: a decision is locked or superseded, and a subtask of a
\* higher tier raises the task's effective privacy.
LockDecision(d) ==
  /\ lockedNow' = IF d \in lockedNow THEN lockedNow \ {d} ELSE lockedNow \cup {d}
  /\ UNCHANGED <<authorityVars, sensitive, pack, artifact>>

RaisePrivacy ==
  /\ ~sensitive /\ sensitive' = TRUE
  /\ UNCHANGED <<authorityVars, lockedNow, pack, artifact>>

-----------------------------------------------------------------------------
(* What the backends recall, labelled and filtered.                        *)

\* Slip: `promoted` is taken for authority.
LabelByStatus(entry, role, status, verdict) ==
  [entry |-> entry, role |-> role, status |-> status,
   trusted |-> role \in {"ledger", "authority"} /\ status = "promoted"]

\* label: only the ledger and the authority can confer trust, only on a
\* promoted item, and the authority's own verdict may only take it away.
Label(entry, role, status, verdict) ==
  [entry |-> entry, role |-> role, status |-> status,
   trusted |-> role \in {"ledger", "authority"} /\ status = "promoted" /\ verdict]

\* apply_visibility, as the builder asks: trust is enforced on the authority
\* alone, and pending or superseded items are shown only when asked for.
Visible(item, trustedOnly, pending, superseded) ==
  /\ item.status = "superseded" => superseded
  /\ item.status = "pending" => pending
  /\ item.status \notin {"rejected", "archived", "contradicted"}
  /\ trustedOnly => \/ item.trusted
                    \/ item.status = "superseded" /\ superseded
                    \/ item.status = "pending" /\ pending

LedgerItems == {Label(d, "ledger", "promoted", TRUE) : d \in lockedNow}

AuthorityItems ==
  {Label(c, "authority", standing[c], standing[c] = "promoted" /\ c \notin disputed) :
   c \in {d \in Claim : standing[d] # "none"}}

BroadItems == {Label(c, "broad", "unknown", FALSE) : c \in indexed["broad"]}

GraphItems ==
  {Label(c, "graph", IF \E d \in indexed["graph"] : c \in Supersedes[d]
                       THEN "superseded" ELSE "unknown", FALSE) : c \in indexed["graph"]}

\* Every backend is sent the scopes as a filter.
Recall(backend, scopes, pending, superseded) ==
  {i \in CASE backend = "authority" ->
                {j \in AuthorityItems : Visible(j, ~pending, pending, superseded)}
           [] backend = "broad" -> BroadItems
           [] backend = "graph" -> {j \in GraphItems : Visible(j, FALSE, pending, superseded)} :
     ScopeOf[i.entry] \in scopes}

-----------------------------------------------------------------------------
(* The pack.                                                               *)

ProfileBackends(profile) ==
  CASE profile = "manager_brief" -> {"authority", "broad", "graph"}
    [] profile = "worker_brief" -> {"authority", "broad"}
    [] profile \in {"implementation_constraints", "hard_policy"} -> {"authority"}
    [] profile = "broad_project_rag" -> {"broad"}
    [] OTHER -> {"authority", "graph"}

ProfileScopes(profile) ==
  CASE profile \in {"manager_brief", "reviewer_brief"} ->
         {"global", "project", "repo", "task", "manager"}
    [] profile = "model_performance" -> {"global", "project", "task", "worker", "model"}
    [] profile \in {"project_evolution", "broad_project_rag", "hard_policy"} ->
         {"global", "project", "repo"}
    [] OTHER -> {"global", "project", "repo", "task"}

\* resolve_scopes: the scopes of the profile that are known for the task.  One
\* that is not is dropped, and the pack says so, an unclaimed manager excepted.
ResolveScopes(profile, known) == ProfileScopes(profile) \cap known
MissingScopes(profile, known) == (ProfileScopes(profile) \ known) \ {"manager"}

\* select_backends: the profile's backends that are configured, or, when none
\* of them is, every one that is.
SelectBackends(profile) ==
  IF ProfileBackends(profile) \cap Adapters # {}
    THEN ProfileBackends(profile) \cap Adapters ELSE Adapters

\* The privacy gate: a secret_sensitive task asks none of them.
Asked(profile) == IF sensitive THEN {} ELSE SelectBackends(profile)

\* MemoryRanker.authority; an indexed claim always names its source.
Rank(item) ==
  CASE item.role = "ledger" -> 0
    [] item.role = "authority" /\ item.status = "promoted" /\ item.trusted -> 2
    [] item.role = "graph" -> 3
    [] item.role = "broad" -> 4
    [] OTHER -> 5

\* The key an item is merged by: two texts may share one, and a text without a
\* letter or digit of ASCII has none.
Key(item) == KeyOf[TextOf[item.entry]]
NoKey == ""

\* merge_and_rank: an item without a key is passed over without a word; of the
\* items with one key the most authoritative stands, the first that was met
\* among equals; and the pack keeps the most authoritative that fit the budget.
Best(items) ==
  {i \in items : Key(i) # NoKey /\ \A j \in items : Key(j) = Key(i) => Rank(i) <= Rank(j)}
Merges(items) ==
  {m \in SUBSET Best(items) : /\ \A i \in Best(items) : \E j \in m : Key(j) = Key(i)
                              /\ \A i, j \in m : Key(i) = Key(j) => i = j}

Least(m, n) == IF m < n THEN m ELSE n

Fits(kept, merged, budget) ==
  /\ kept \subseteq merged
  /\ Cardinality(kept) = Least(Cardinality(merged), budget)
  /\ \A i \in kept, j \in merged \ kept : Rank(i) <= Rank(j)

\* What the engines may be doing when a scan starts, or the scan failing whole.
EngineStates == [Engine -> EngineState]
Raised == [e \in Engine |-> [status |-> "raised", placed |-> FALSE]]

\* _apply_safety: a withheld item is dropped and counted, a redacted one keeps
\* its masked body, and any other keeps the text it came with.
Shown(item, state) ==
  LET text == Content[TextOf[item.entry]]
      result == Scan("context_output", text, state)
  IN [entry |-> item.entry, role |-> item.role, trusted |-> item.trusted,
      body |-> IF result.redacted THEN result.body ELSE text, found |-> result.found]

WithheldBy(item, state) ==
  Scan("context_output", Content[TextOf[item.entry]], state).withheld

ApplySafety(kept, state) ==
  LET through == {i \in kept : ~WithheldBy(i, state)}
  IN [items |-> {Shown(i, state) : i \in through},
      warnings |-> IF through # kept THEN {"withheld"} ELSE {}]

\* What one backend contributes: nothing unless asked and reachable, and at
\* most max_items of what it has to say, whichever it lists first.
Contributions(backend, asked, scopes, pending, superseded, budget) ==
  IF backend \notin asked THEN {{}}
  ELSE LET all == Recall(backend, scopes, pending, superseded)
       IN {s \in SUBSET all : Cardinality(s) = Least(Cardinality(all), budget)}

\* The handoff of a profile that has one: the locked decisions as they are, never
\* scanned.  (So are its attempts, constraints and artifacts, which are left out.)
CarriesHandoff == {"manager_brief", "reviewer_brief", "known_failures", "project_evolution"}
Handoff(profile) == IF profile \in CarriesHandoff THEN lockedNow ELSE {}

\* What build_context_pack has merged, as the drafts it can come to.  down are the
\* backends whose recall raises, known the scopes the task has an id for.
Drafts(profile, pending, budget, down, known) ==
  LET asked == Asked(profile)
      superseded == profile = "project_evolution"
      scopes == ResolveScopes(profile, known)
      Heard(b) == Contributions(b, asked \ down, scopes, pending, superseded, budget)
      all == UNION {Recall(b, scopes, pending, superseded) : b \in asked \ down}
      recalled == UNION {UNION {{a \cup b \cup g : g \in Heard("graph")} : b \in Heard("broad")} :
                         a \in Heard("authority")}
      degraded == (IF asked \cap down # {} THEN {"recall failed"} ELSE {})
                  \cup (IF sensitive THEN {"recall withheld"} ELSE {})
                  \cup (IF MissingScopes(profile, known) # {} THEN {"scope unknown"} ELSE {})
      Draft(heard, merged, kept) ==
        [kept |-> kept, warnings |-> degraded, asked |-> asked, profile |-> profile,
         handoff |-> Handoff(profile), cut |-> kept # merged \/ heard # all]
  IN UNION {UNION {{Draft(heard, merged, kept) : kept \in {k \in SUBSET merged : Fits(k, merged, budget)}} :
                   merged \in Merges(LedgerItems \cup heard)} :
            heard \in recalled}

\* The pack of a draft: every item is scanned, and when the scan itself raises
\* none is handed on.
BuildContextPack(draft, state) ==
  LET safe == IF state = Raised THEN [items |-> {}, warnings |-> {"unscanned"}]
                                ELSE ApplySafety(draft.kept, state)
  IN [items |-> safe.items, warnings |-> safe.warnings \cup draft.warnings, asked |-> draft.asked,
      profile |-> draft.profile, handoff |-> draft.handoff, cut |-> draft.cut]

\* Whatever the engines are doing.
Packs(draft) == {BuildContextPack(draft, state) : state \in EngineStates \cup {Raised}}

\* attach_context_to_subtask: the pack, without its handoff, replaces the one the
\* subtask carries.
Attached(built) == [items |-> built.items, warnings |-> built.warnings, asked |-> built.asked,
                    profile |-> built.profile, cut |-> built.cut, handoff |-> {}]
AttachContextToSubtask(built) == pack' = Attached(built)

\* A pack, never with pending claims, is built and pushed to the subtask before
\* its worker runs.
PrepareWorkerContext(profile, budget, down, known) ==
  /\ \E draft \in Drafts(profile, FALSE, budget, down, known) :
       \E built \in Packs(draft) : AttachContextToSubtask(built)
  /\ UNCHANGED <<authorityVars, lockedNow, sensitive, artifact>>

\* A manager pulls a pack, and gets all of it.
GetTaskContextPack(profile, pending, budget, down, known) ==
  /\ \E draft \in Drafts(profile, pending, budget, down, known) : pack' \in Packs(draft)
  /\ UNCHANGED <<authorityVars, lockedNow, sensitive, artifact>>

\* _scan_artifact: the scanned body and its verdict; a scan that cannot run at
\* all leaves the text as it is, under quarantine.
ScanArtifact(text, state) ==
  IF state = Raised THEN [text |-> text, body |-> text, mark |-> "quarantine", found |-> {}]
  ELSE LET result == Scan("artifact_ingest", text, state)
       IN [text |-> text, body |-> result.body, mark |-> result.decision,
           found |-> result.found]

\* create_artifact stores the scanned body with its verdict.
CreateArtifact(text, state) ==
  /\ artifact' = ScanArtifact(text, state)
  /\ UNCHANGED <<authorityVars, lockedNow, sensitive, pack>>

\* The worker has run: the next subtask starts without a pack, the next
\* artifact is another file.
Consumed ==
  /\ pack # NoPack \/ artifact # NoArtifact
  /\ pack' = NoPack /\ artifact' = NoArtifact
  /\ UNCHANGED <<authorityVars, lockedNow, sensitive>>

\* A task has its id; its project and repo are known if its metadata or the
\* configuration name them, the others if it is claimed and the caller says.
KnownScopes(profile) ==
  {{"global", "task"} \cup known : known \in SUBSET (ProfileScopes(profile) \ {"global", "task"})}

\* Bound: nothing reads a pack or an artifact back into the stack, so nothing
\* else moves while one is looked at.
ContextNext ==
  \/ Consumed
  \/ /\ pack = NoPack /\ artifact = NoArtifact
     /\ \/ \E c \in Claim : Capture(c) \/ Contradict(c) \/ RejectCandidate(c)
        \/ \E c \in Claim, reached \in SUBSET Adapters : PromoteMemoryCandidate(c, reached)
        \/ \E d \in LockedNote : LockDecision(d)
        \/ RaisePrivacy
        \/ \E profile \in AskedProfile, budget \in {1, 5} :
             \E down \in SUBSET Asked(profile), known \in KnownScopes(profile) :
               \/ PrepareWorkerContext(profile, budget, down, known)
               \/ \E pending \in BOOLEAN :
                    GetTaskContextPack(profile, pending, budget, down, known)
        \/ \E t \in Text, state \in EngineStates \cup {Raised} :
             CreateArtifact(Content[t], state)
ContextSpec == ContextInit /\ [][ContextNext]_contextVars

-----------------------------------------------------------------------------
\* Trust in a pack is earned: an item marked trusted is a decision locked at
\* that moment, or a claim that a human promoted and that the authority, when
\* asked, neither disputes nor has superseded.  An index that still holds a
\* disputed claim, or an agent's own capture, never passes for one, and no claim
\* takes the way round the labels and the scan that the handoff is.
TrustEarned ==
  [][pack' # pack =>
       /\ \A i \in pack'.items : i.trusted =>
            \/ i.entry \in lockedNow
            \/ i.entry \in blessed \ disputed /\ standing[i.entry] = "promoted"
       /\ pack'.handoff \subseteq lockedNow]_contextVars

\* No key is lost in silence: when a locked decision, or a claim that the authority
\* trusts, was asked for and files at a scope of the profile, has a key, then the
\* pack holds a trusted item of that key, or the pack was full, or a warning says
\* what kept it out: a backend that failed, the safety scan, the privacy gate, a
\* scope nobody recorded for the task.  A weaker copy never stands in for it.  Two
\* losses are the code's own and excepted: a text without a key is dropped unsaid,
\* and of two texts with one key only one is shown.  (What is filed under a manager
\* is excepted too: an unclaimed task has none, and the pack does not mention it.)
NoSilentLoss ==
  [][pack' \notin {pack, NoPack} /\ ~pack'.cut /\ pack'.warnings = {} =>
       \A e \in lockedNow \cup (IF "authority" \in pack'.asked
                                  THEN {c \in Claim \ disputed : standing[c] = "promoted"
                                          /\ ScopeOf[c] \in ProfileScopes(pack'.profile) \ {"manager"}}
                                  ELSE {}) :
         KeyOf[TextOf[e]] # NoKey =>
           \E i \in pack'.items : i.trusted /\ Key(i) = KeyOf[TextOf[e]]]_contextVars

Masked(rule(_), body, found) == \A p \in found \cap body : ~rule(Kind[p])

\* A credential an engine reported never reaches an agent through an item of a
\* pack, a locked decision's included, and is stored in an artifact only under a
\* mark that withholds it -- also when another engine broke, and when the engine
\* could not say where it was.  The handoff of a pulled pack is not scanned, and
\* nothing is claimed of it: a credential in a locked decision is shown there.
SecretsMasked ==
  /\ \A i \in pack.items : Masked(MasksSecret, i.body, i.found)
  /\ \/ Masked(MasksSecret, artifact.body, artifact.found)
     \/ artifact.mark \in {"quarantine", "block"}

\* What a context pack promises the agent that reads it (core/context.py, core/memory.py,
\* the safety pipeline): trust is earned, no key is lost in silence, and the secrets found
\* in its items are masked.
PackFaithful == TrustEarned /\ NoSilentLoss /\ []SecretsMasked
=============================================================================
