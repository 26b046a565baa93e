------------------------------ MODULE TokenGate ------------------------------
(***************************************************************************)
(* Who may write what to the ledger: the tokens (minted for a session, for *)
(* an operator, for a sibling product), the one rule every HTTP request    *)
(* passes before its handler runs, the actor the handler then records, and *)
(* the CLI, which opens the ledger without a token and asks instead        *)
(* whether it runs inside a managed shell.                                 *)
(***************************************************************************)
EXTENDS Naturals, Sequences, FiniteSets
CONSTANTS MaxRows, MaxAdmitted \* bounds: the ledger's rows; requests past the gate at once
VARIABLES credential, \* the state of each token
          admitted,   \* requests that passed enforce() and have not been handled
          rows        \* what was written, with the actor it names
gateVars == <<credential, admitted, rows>>

GatePerson == {"alice", "bob", "carol", "human"}
GateAgent == {"alice", "bob"}

GateReads == {"read"}
NeverToken == {"secrets_read"}
AgentForbidden == {"complete_task", "promote_memory_candidate"} \cup NeverToken
ManagerActions == GateReads \cup {"record_attempt", "register_artifact"}
ReviewerActions == GateReads \cup {"record_attempt", "complete_review"}
OperatorActions == ManagerActions \cup ReviewerActions \cup {"complete_task", "promote_memory_candidate"}

\* The scopes a token can be minted with: an agent's is bound to its task (and its
\* review), an operator's to nothing, a publisher's to one product and one action.
BuildScope(actor, mode, task, review) ==
  [actor |-> actor, mode |-> mode, task |-> task, review |-> review, product |-> "none",
   actions |-> IF mode = "manager" THEN ManagerActions ELSE ReviewerActions]
BuildOperatorScope(actor) ==
  [actor |-> actor, mode |-> "operator", task |-> "none", review |-> "none", product |-> "none",
   actions |-> OperatorActions]
BuildPublishScope(product) ==
  [actor |-> product, mode |-> "publisher", task |-> "none", review |-> "none", product |-> product,
   actions |-> {"publish_event"}]
TokenScope == [ manager   |-> BuildScope("alice", "manager", "t1", "none"),
                reviewer  |-> BuildScope("bob", "reviewer", "t1", "r1"),
                operator  |-> BuildOperatorScope("carol"),
                publisher |-> BuildPublishScope("toolconnect") ]
Token == DOMAIN TokenScope

GateInit == credential = [t \in Token |-> "unminted"] /\ admitted = {} /\ rows = <<>>

Credential(t, from, to) ==
  /\ credential[t] = from /\ credential' = [credential EXCEPT ![t] = to]
  /\ UNCHANGED <<admitted, rows>>
MintAgentToken(t) == TokenScope[t].mode \in {"manager", "reviewer"} /\ Credential(t, "unminted", "active")
MintOperatorToken(t) == TokenScope[t].mode = "operator" /\ Credential(t, "unminted", "active")
MintPublishToken(t) == TokenScope[t].mode = "publisher" /\ Credential(t, "unminted", "active")
LosesForce(t) == Credential(t, "active", "inactive") \* revoked, or past its expiry

(***************************************************************************)
(* A request names an action and, in its path, a task or a review; its     *)
(* body may name an actor and a product. enforce() authorises on the path. *)
(***************************************************************************)
GateRequest ==
  [action : {"record_attempt", "register_artifact", "complete_task"},
   task : {"t1", "t2"}, review : {"none"}, claimed : GatePerson \cup {"none"}, product : {"none"}]
  \cup [action : {"submit_review", "complete_review"},
         task : {"none"}, review : {"r1", "r2"}, claimed : GatePerson \cup {"none"}, product : {"none"}]
  \cup [action : {"promote_memory_candidate", "secrets_read"},
         task : {"none"}, review : {"none"}, claimed : GatePerson, product : {"none"}]
  \cup [action : {"publish_event"}, task : {"none"}, review : {"none"}, claimed : {"alice", "none"},
         product : {"toolconnect", "brainconnect"}]
\* Two routes complete a review; both ask for the same action.
RouteAction(q) == IF q.action = "submit_review" THEN "complete_review" ELSE q.action

Within(bound, requested) == bound = "none" \/ requested = "none" \/ bound = requested
\* A publish token may only publish as its own product.
PublishBound(scope, action, product) ==
  action = "publish_event" => scope.product # "none" /\ product \in {"none", scope.product}
Authorize(t, action, task, review, product) ==
  LET scope == TokenScope[t] IN
  /\ credential[t] = "active"
  /\ action \notin NeverToken
  /\ scope.mode # "operator" => action \notin AgentForbidden
  /\ action \in scope.actions
  /\ PublishBound(scope, action, product)
  /\ Within(scope.task, task) /\ Within(scope.review, review)

Enforce(t, q) ==
  /\ Cardinality(admitted) < MaxAdmitted /\ Len(rows) < MaxRows
  /\ Authorize(t, RouteAction(q), q.task, q.review, "none")
  /\ admitted' = admitted \cup {[token |-> t, request |-> q]}
  /\ UNCHANGED <<credential, rows>>

\* The body may name an actor; only an operator may name another one.
Refused == "refused"
\* Slip: the body is believed.
AssertActorLoosely(who, claimed) == IF claimed = "none" THEN who.actor ELSE claimed
AssertActor(who, claimed) ==
  IF claimed \in {"none", who.actor} THEN who.actor
  ELSE IF who.mode = "operator" THEN claimed ELSE Refused
\* Completion takes the principal's own name, whatever the body says; an artifact and
\* a published event take the body's; an attempt and a review result are checked and
\* then stored as the body has them, a blank name included.
RecordedActor(who, q) ==
  CASE q.action \in {"complete_task", "complete_review"} -> who.actor
    [] q.action = "register_artifact" -> IF q.claimed = "none" THEN "unknown" ELSE q.claimed
    [] q.action = "publish_event" -> IF q.claimed = "none" THEN who.actor ELSE q.claimed
    [] q.action \in {"record_attempt", "submit_review"} ->
         IF AssertActor(who, q.claimed) = Refused THEN Refused ELSE q.claimed
    [] OTHER -> AssertActor(who, q.claimed)

\* The handler. Publishing asks authorize() again, now with the body's product.
Handle(a) ==
  LET q == a.request
      who == TokenScope[a.token]
      actor == RecordedActor(who, q)
      refused == \/ actor = Refused
                 \/ q.action = "publish_event" /\ ~Authorize(a.token, "publish_event", "none", "none", q.product)
  IN /\ a \in admitted /\ admitted' = admitted \ {a} /\ Len(rows) < MaxRows
     /\ rows' = IF refused THEN rows
                ELSE Append(rows, [via |-> a.token, action |-> q.action, task |-> q.task, review |-> q.review,
                                   actor |-> actor, product |-> who.product])
     /\ UNCHANGED credential

(***************************************************************************)
(* The CLI: AGENTCONNECT_MODE says whether this is a managed shell.        *)
(***************************************************************************)
RefuseOperatorCommand(mode, action) ==
  /\ mode # "none"
  /\ \/ action \in {"complete_task", "promote_memory_candidate"}
     \/ action = "complete_review" /\ mode # "reviewer"
SessionDefaultActor(mode) == CASE mode = "manager" -> "alice" [] mode = "reviewer" -> "bob" [] OTHER -> "human"
\* Artifacts default to the session's actor; complete and promote default to the human.
CliActor(mode, action) == IF action = "register_artifact" THEN SessionDefaultActor(mode) ELSE "human"
Door == [manager |-> "manager_shell", reviewer |-> "reviewer_shell", none |-> "terminal"]
Cli(mode, action) ==
  /\ Len(rows) < MaxRows
  /\ ~RefuseOperatorCommand(mode, action)
  /\ rows' = Append(rows, [via |-> Door[mode], action |-> action,
                           task |-> "none", review |-> "none", actor |-> CliActor(mode, action),
                           product |-> "none"])
  /\ UNCHANGED <<credential, admitted>>

GateNext ==
  \/ \E t \in Token : MintAgentToken(t) \/ MintOperatorToken(t) \/ MintPublishToken(t) \/ LosesForce(t)
  \/ \E t \in Token, q \in GateRequest : Enforce(t, q)
  \/ \E a \in admitted : Handle(a)
  \/ \E mode \in {"manager", "reviewer", "none"},
        action \in {"register_artifact", "complete_review", "complete_task", "promote_memory_candidate"} :
       Cli(mode, action)
GateSpec == GateInit /\ [][GateNext]_gateVars

(***************************************************************************)
(* Properties.                                                             *)
(***************************************************************************)
\* The ledger's account of who judged what can be believed, through whichever door a
\* row came: an attempt or a review carries no name but that of the agent whose token
\* brought it and concerns the task or review that token is bound to, unless an operator
\* spoke for another; only an operator's token or a terminal outside a managed shell
\* completes a task or promotes a memory, and a completion names the operator; an
\* event comes only from a publisher, as its own product. (Artifacts registered over
\* HTTP are excepted: their author is whatever the body says.)
Attribution ==
  \A i \in DOMAIN rows :
    LET r == rows[i]
        who == TokenScope[r.via]
    IN /\ r.action \in AgentForbidden => r.via \in {"operator", "terminal"}
       /\ r.action = "complete_task" => r.actor \in {"carol", "human"}
       /\ r.action = "publish_event" <=> r.via = "publisher"
       /\ r.via \in {"manager", "reviewer"} =>
            /\ r.action # "register_artifact" => r.actor \in {who.actor, "none"}
            /\ Within(who.task, r.task) /\ Within(who.review, r.review)
       /\ r.via = "publisher" => r.product = who.product
       /\ r.via \in {"manager_shell", "reviewer_shell"} /\ r.action = "register_artifact" => r.actor \in GateAgent
=============================================================================
