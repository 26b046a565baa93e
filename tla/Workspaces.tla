----------------------------- MODULE Workspaces -----------------------------
(***************************************************************************)
(* The workspace directory of one task, shared by every launch on it: the  *)
(* repository materialised by the first launch and reused by the others,   *)
(* the files that carry the session's identity and token, the shells run   *)
(* in it and the work their agents do.  Launches may overlap or die at any *)
(* step.  The ledger side of a session is module Sessions.                 *)
(***************************************************************************)
EXTENDS Naturals, FiniteSets
CONSTANTS Relaunch, \* launches on the task; each has its session and token
          RepoFile  \* the files of the source repository
ASSUME LaunchTypes == IsFiniteSet(Relaunch) /\ "none" \notin Relaunch
VARIABLES source,  \* the repository asked for, and how
          dest,    \* the repo directory of the workspace
          envFile, \* whose token .env.agentconnect holds
          opening, \* the launches, from the look at the directory to the files
          seat,    \* the sessions and their shells
          made     \* history: what agents have changed
workspaceVars == <<source, dest, envFile, opening, seat, made>>

WorkspaceInit ==
  /\ source \in [mode : {"auto", "git_worktree", "copy"}, git : BOOLEAN]
  /\ dest = [kind |-> "absent", content |-> {}, work |-> {}]
  /\ envFile = "none" /\ made = {}
  /\ opening = [l \in Relaunch |-> [phase |-> "unlaunched", alone |-> TRUE, reported |-> "none"]]
  /\ seat = [l \in Relaunch |-> [status |-> "absent", rank |-> 0, token |-> "none", carries |-> "none", quiet |-> TRUE]]

IsGitRepo == dest.kind = "worktree" \/ (source.git /\ dest.content = RepoFile)
AlreadyThere == dest.kind # "absent" /\ dest.content # {}
InProgress == {l \in Relaunch : opening[l].phase \notin {"unlaunched", "ready", "failed", "dead"}}

(***************************************************************************)
(* build: look at the directory, then materialise.                         *)
(***************************************************************************)
PlanOf(there) == IF there THEN "reuse"
                 ELSE IF source.mode \in {"auto", "git_worktree"} /\ source.git THEN "worktree"
                 ELSE IF source.mode = "copy" THEN "copy"
                 ELSE IF source.mode = "auto" THEN "bind"
                 ELSE "empty" \* a worktree asked of a directory that is no repository
\* Slip: every launch materialises.
PlanAfresh == PlanOf(FALSE)
Plan == PlanOf(AlreadyThere)

Step(l, phase, tree) ==
  /\ dest' = tree /\ opening' = [opening EXCEPT ![l].phase = phase]
  /\ UNCHANGED <<source, envFile, seat, made>>
Materialised(l, tree, mode) ==
  /\ dest' = tree /\ opening' = [opening EXCEPT ![l].phase = "built", ![l].reported = mode]
  /\ UNCHANGED <<source, envFile, seat, made>>

LookAtRepo(l) ==
  /\ opening[l].phase = "unlaunched"
  /\ opening' = [m \in Relaunch |->
       [opening[m] EXCEPT !.phase = IF m = l THEN Plan ELSE opening[m].phase,
                          !.alone = opening[m].alone /\ (m \in InProgress \cup {l} => InProgress = {})]]
  /\ UNCHANGED <<source, dest, envFile, seat, made>>

ReuseRepo(l) == /\ opening[l].phase = "reuse"
                /\ Materialised(l, dest, IF IsGitRepo THEN "git_worktree" ELSE "copy")
EmptyRepo(l) == /\ opening[l].phase = "empty"
                /\ Materialised(l, [dest EXCEPT !.kind = IF @ = "absent" THEN "dir" ELSE @], "empty")
\* git refuses a directory that is not empty; an auto launch then binds.
AddWorktree(l, ok) ==
  /\ opening[l].phase = "worktree"
  /\ IF ok /\ ~AlreadyThere
     THEN Materialised(l, [dest EXCEPT !.kind = "worktree", !.content = RepoFile], "git_worktree")
     ELSE Step(l, IF source.mode = "git_worktree" THEN "failed" ELSE "bind", dest)
Bind(l, ok) == \* a symlink onto something that exists fails, and the tree is copied
  /\ opening[l].phase = "bind"
  /\ IF ok /\ dest.kind = "absent"
     THEN Materialised(l, [dest EXCEPT !.kind = "link", !.content = RepoFile], "bind")
     ELSE Step(l, "copy", dest)
\* Copying over a link to the source finds every file to be itself, and raises.
CopyFile(l, f) ==
  /\ opening[l].phase = "copy" /\ dest.kind # "link" /\ f \in RepoFile
  /\ f \notin dest.content \/ f \in dest.work
  /\ Step(l, "copy", [dest EXCEPT !.kind = IF @ = "absent" THEN "dir" ELSE @,
                                  !.content = @ \cup {f}, !.work = @ \ {f}])
CopyDone(l) ==
  /\ opening[l].phase = "copy"
  /\ IF dest.kind = "link" THEN Step(l, "failed", dest)
     ELSE dest.content = RepoFile /\ Materialised(l, dest, "copy")

(***************************************************************************)
(* The session row, its token and the files that hold it.                  *)
(***************************************************************************)
LaunchSession(l) ==
  /\ opening[l].phase = "built"
  /\ opening' = [opening EXCEPT ![l].phase = "session"]
  /\ seat' = [seat EXCEPT ![l].status = "prepared",
                          ![l].rank = 1 + Cardinality({m \in Relaunch : seat[m].rank > 0})]
  /\ UNCHANGED <<source, dest, envFile, made>>
MintToken(l) ==
  /\ opening[l].phase = "session"
  /\ opening' = [opening EXCEPT ![l].phase = "minted"]
  /\ seat' = [seat EXCEPT ![l].token = "live"]
  /\ UNCHANGED <<source, dest, envFile, made>>
WriteEnvFile(l) ==
  /\ opening[l].phase = "minted" /\ envFile' = l
  /\ opening' = [opening EXCEPT ![l].phase = "ready"]
  /\ UNCHANGED <<source, dest, seat, made>>
LaunchDies(l) ==
  /\ l \in InProgress
  /\ opening' = [opening EXCEPT ![l].phase = "dead"]
  /\ UNCHANGED <<source, dest, envFile, seat, made>>

(***************************************************************************)
(* The shell: the newest session that is not over, with the token the file *)
(* holds; what the agent does; and the end, which revokes the session's.   *)
(***************************************************************************)
Active == {l \in Relaunch : seat[l].status \in {"prepared", "running"}}
ActiveSessionFor(l) == l \in Active /\ \A m \in Active : seat[m].rank <= seat[l].rank
CmdShell(l) ==
  /\ ActiveSessionFor(l) /\ seat[l].carries = "none" /\ envFile # "none"
  /\ seat' = [seat EXCEPT ![l].status = "running", ![l].carries = envFile,
       ![l].quiet = \A m \in Relaunch : opening[m].phase \in {"unlaunched", "ready"}]
  /\ UNCHANGED <<source, dest, envFile, opening, made>>
Ends(s) == [s EXCEPT !.status = "ended", !.token = IF @ = "live" THEN "revoked" ELSE @]
ShellEnds(l) ==
  /\ seat[l].status = "running"
  /\ seat' = [seat EXCEPT ![l] = Ends(seat[l])]
  /\ UNCHANGED <<source, dest, envFile, opening, made>>
AgentEdits(l, f) ==
  /\ seat[l].status = "running" /\ f \in dest.content
  /\ dest' = [dest EXCEPT !.work = @ \cup {f}] /\ made' = made \cup {f}
  /\ UNCHANGED <<source, envFile, opening, seat>>

WorkspaceNext == \E l \in Relaunch :
  \/ LookAtRepo(l) \/ ReuseRepo(l) \/ EmptyRepo(l) \/ CopyDone(l)
  \/ \E ok \in BOOLEAN : AddWorktree(l, ok) \/ Bind(l, ok)
  \/ \E f \in RepoFile : CopyFile(l, f) \/ AgentEdits(l, f)
  \/ LaunchSession(l) \/ MintToken(l) \/ WriteEnvFile(l) \/ LaunchDies(l)
  \/ CmdShell(l) \/ ShellEnds(l)
WorkspaceSpec == WorkspaceInit /\ [][WorkspaceNext]_workspaceVars

(***************************************************************************)
(* Properties.                                                             *)
(***************************************************************************)
\* What agents changed survives every later launch on the task, launches that died
\* half way included, as long as no two of them were building at once; and where a
\* worktree was asked for, even then.
WorkKept ==
  (\A l \in Relaunch : opening[l].alone) \/ source.mode = "git_worktree" => made \subseteq dest.work

\* When launches run one at a time and to their end, and shells start between them,
\* no shell ever acts under another session's live token, although one file serves
\* them all.
ShellToken ==
  (\A l \in Relaunch : opening[l].alone /\ seat[l].quiet) =>
    \A l \in Relaunch : seat[l].status = "running" =>
      seat[l].carries = l \/ seat[seat[l].carries].token # "live"

\* What a relaunch promises (core/workspace.py, the CLI's shell): agents' work is kept, and shells
\* opened one after another keep to their own token.
WorkspaceSafe == WorkKept /\ ShellToken
=============================================================================
