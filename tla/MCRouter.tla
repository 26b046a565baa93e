------------------------------ MODULE MCRouter ------------------------------
(***************************************************************************)
(* Instances of the router: the task pipeline, or enqueue_task's race; the *)
(* two share no state, so one run explores one after the other.            *)
(***************************************************************************)
EXTENDS RouterTasks, RouterEnqueue

CONSTANTS owned, rented, free, paid

MCProvider == {owned, rented, free, paid}
MCKindOf == owned :> "owned" @@ rented :> "rented" @@ free :> "cloud" @@ paid :> "cloud"
MCPrivacyOf == owned :> "local_only" @@ rented :> "private_rented"
               @@ free :> "external" @@ paid :> "external_paid"
MCRemoteTier == [w \in RemoteWorker |-> "local_only"]

Ask(declared, content) ==
  [declared |-> declared, content |-> content, denylisted |-> FALSE,
   agentic |-> FALSE, external |-> TRUE, paid |-> FALSE, rented |-> FALSE,
   urgent |-> FALSE, exact |-> None,
   profile |-> [preferred |-> "m1", acceptable |-> <<"m2">>]]

CONSTANTS t1, t2

Pii == [Ask(None, "pii") EXCEPT !.paid = TRUE]
OptedIn == [Ask("repo_sensitive", "plain") EXCEPT !.rented = TRUE, !.agentic = TRUE]

MCSubmissions ==
  t1 :> {Pii, OptedIn, Ask("public", "secret"), Ask("low_sensitive", "secret"),
         [Ask(None, "plain") EXCEPT !.denylisted = TRUE],
         [Ask("restricted", "pii") EXCEPT !.urgent = TRUE, !.exact = "m2"]}
  @@ t2 :> {Pii, OptedIn}

\* The owned manager serves m1, or it is unreachable.
MCStatuses == {[loaded |-> "m1", available |-> {"m1", "m2"}, fits |-> TRUE], None}

VARIABLE focus  \* which of the two the run explores

MCInit == RouterInit /\ EnqueueInit /\ focus \in {"tasks", "enqueue"}

MCNext ==
  /\ UNCHANGED focus
  /\ \/ focus = "tasks" /\ RouterNext /\ UNCHANGED enqueueVars
     \/ focus = "enqueue" /\ EnqueueNext /\ UNCHANGED routerVars

MCSpec == MCInit /\ [][MCNext]_<<routerVars, enqueueVars, focus>> /\ RouterFairness
=============================================================================
