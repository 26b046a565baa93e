---------------------------- MODULE MCContributors ----------------------------
(***************************************************************************)
(* One ticket, seen from both ends: the broker processes that share its    *)
(* store, and the contributors' workers that pull it over an unreliable    *)
(* wire.  A behaviour is about one end (focus).                            *)
(***************************************************************************)
EXTENDS MCBrokerProcs, PullWorker

MCPullerTier == "w1" :> "local_only" @@ "w2" :> "cloud"

VARIABLE focus
ContributorsInit == Init /\ PullInit /\ focus \in {"brokers", "pull"}
ContributorsNext ==
  /\ UNCHANGED focus
  /\ \/ focus = "brokers" /\ Next /\ UNCHANGED pullVars
     \/ focus = "pull" /\ PullNext /\ UNCHANGED vars
\* The pull workers' fairness; a behaviour about the brokers is one without it.
ContributorsSpec ==
  /\ ContributorsInit /\ [][ContributorsNext]_<<vars, pullVars, focus>>
  /\ PullFairness
=============================================================================
