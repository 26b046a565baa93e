----------------------------- MODULE MCSessions -----------------------------
(***************************************************************************)
(* Small instances of the task ledger with its sessions, and of three      *)
(* parts around it that share no state with it in the model: the token     *)
(* gate, the workspaces and the task-state store.  A behaviour is about    *)
(* one of them (focus).                                                    *)
(***************************************************************************)
EXTENDS Sessions, TokenGate, Workspaces, TaskStateLog

CONSTANTS m1, m2, r1, r2, s1, s2, p1, p2

Symmetry == Permutations(Manager) \cup Permutations(Review) \cup Permutations(Session) \cup Permutations(Process)

VARIABLE focus
MCInit ==
  /\ SessionsInit /\ GateInit /\ WorkspaceInit /\ StoreInit
  /\ focus \in {"ledger", "gate", "workspaces", "store"}
  /\ focus # "workspaces" => source = [mode |-> "copy", git |-> FALSE]
MCNext ==
  /\ UNCHANGED focus
  /\ focus # "ledger" => UNCHANGED vars
  /\ focus # "gate" => UNCHANGED gateVars
  /\ focus # "workspaces" => UNCHANGED workspaceVars
  /\ focus # "store" => UNCHANGED storeVars
  /\ \/ focus = "ledger" /\ SessionsNext
     \/ focus = "gate" /\ GateNext
     \/ focus = "workspaces" /\ WorkspaceNext
     \/ focus = "store" /\ StoreNext
MCSpec == MCInit /\ [][MCNext]_<<vars, gateVars, workspaceVars, storeVars, focus>>
============================================================================
