----------------------------- MODULE Provisioning -----------------------------
(***************************************************************************)
(* A fresh Git worktree for a chat and what becomes of it when something   *)
(* fails on the way: provisionGitWorktree, bootstrapWorktree and           *)
(* cleanupFailedProvision of dzialkiWorktree.ts.  Git is external; each of *)
(* its commands may fail, or be killed after two minutes.  Meanwhile the   *)
(* user, or a tool, may already work in the worktree.  What follows a      *)
(* worktree that is complete is EphemeralWorktree's.                       *)
(***************************************************************************)
EXTENDS Integers

CONSTANTS MaxCommits  \* bound on commits someone else makes

ASSUME ProvisionAssumption == MaxCommits \in Nat

VARIABLES
  step,    \* where provisionGitWorktree stands
  dir,     \* cwd: "none", "partial" or "whole"
  branch,  \* commits on the branch beyond the base; Gone without it
  head,    \* "own" while HEAD is the branch, or "other"
  dirt,    \* changes: "none", "untracked" or "tracked"
  unread,  \* of the three reads of a check, those still to come
  matches, \* what the reads showed so far is what was created
  laid,    \* bootstrapStarted
  failedGit, \* a command failed that would have had to remove something
  touched, \* someone else worked in the worktree
  commits  \* and has made that many commits on the branch

gitVars == <<dir, branch, head, dirt>>
checkVars == <<unread, matches>>
othersVars == <<touched, commits>>
provisionVars == <<step, gitVars, checkVars, laid, failedGit, othersVars>>

Gone == -1
Reads == {"branch", "head", "status"}
Running == {"fetch", "resolve", "add", "verify", "validate", "bootstrap", "marker",
            "check", "remove", "unref"}
Outcomes == {"ready", "preserved", "failed", "refused", "killed"}

ProvisionTypeOK ==
  /\ step \in Running \cup Outcomes
  /\ dir \in {"none", "partial", "whole"}
  /\ branch \in Gone..MaxCommits
  /\ head \in {"own", "other"} /\ dirt \in {"none", "untracked", "tracked"}
  /\ unread \subseteq Reads /\ (unread # {} => step \in {"verify", "check"})
  /\ matches \in BOOLEAN /\ laid \in BOOLEAN /\ failedGit \in BOOLEAN /\ touched \in BOOLEAN
  /\ commits \in 0..MaxCommits

ProvisionInit ==
  /\ step = "fetch" /\ dir = "none" /\ branch = Gone /\ head = "own" /\ dirt = "none"
  /\ unread = {} /\ matches = TRUE /\ laid = FALSE /\ failedGit = FALSE /\ touched = FALSE
  /\ commits = 0

-----------------------------------------------------------------------------
\* The branches of the catch clause: clean up, preserve, or just throw.
MadeOnDisk == step \in {"verify", "validate", "bootstrap", "marker"}
Fails ==
  /\ step' = IF ~MadeOnDisk THEN "failed" ELSE IF laid THEN "preserved" ELSE "check"
  /\ unread' = IF MadeOnDisk /\ ~laid THEN Reads ELSE {}
  /\ matches' = TRUE

\* fetch, rev-parse of the base ref, worktree add.
GitStep ==
  /\ step \in {"fetch", "resolve"}
  /\ \/ /\ step' = IF step = "fetch" THEN "resolve" ELSE "add"
        /\ UNCHANGED checkVars
     \/ Fails
  /\ UNCHANGED <<gitVars, laid, failedGit, othersVars>>

Add ==
  /\ step = "add"
  /\ \/ /\ dir' = "whole" /\ branch' = 0
        /\ step' = "verify" /\ unread' = Reads /\ matches' = TRUE
        /\ UNCHANGED failedGit
     \/ \* It fails or is killed: Git may leave the branch and part of the tree.
        /\ dir' \in {"none", "partial", "whole"} /\ branch' \in {Gone, 0}
        /\ Fails
        /\ failedGit' = TRUE
  /\ UNCHANGED <<head, dirt, laid, othersVars>>

\* One of three concurrent reads answers: of the branch, of HEAD, of the status, which
\* counts untracked files in the cleanup only.
Shows(read) ==
  CASE read = "branch" -> head = "own"
    [] read = "head" -> branch = 0 \/ head = "other"
    [] read = "status" -> dirt = "none" \/ (step = "verify" /\ dirt = "untracked")

Read(read) ==
  /\ step \in {"verify", "check"} /\ read \in unread
  /\ unread' = unread \ {read}
  /\ matches' = (matches /\ Shows(read))
  /\ UNCHANGED <<step, gitVars, laid, failedGit, othersVars>>

\* Promise.all rejects with the first read that fails.
ReadFails ==
  /\ step \in {"verify", "check"} /\ unread # {}
  /\ IF step = "verify" THEN Fails /\ UNCHANGED failedGit
     ELSE step' = "refused" /\ unread' = {} /\ failedGit' = TRUE /\ UNCHANGED matches
  /\ UNCHANGED <<gitVars, laid, othersVars>>

Verified ==
  /\ step = "verify" /\ unread = {}
  /\ IF matches THEN step' = "validate" /\ UNCHANGED checkVars ELSE Fails
  /\ UNCHANGED <<gitVars, laid, failedGit, othersVars>>

\* The launcher of the project is validated.
Validated ==
  /\ step = "validate"
  /\ \/ step' = "bootstrap" /\ laid' = TRUE /\ UNCHANGED checkVars
     \/ Fails /\ UNCHANGED laid
  /\ UNCHANGED <<gitVars, failedGit, othersVars>>

\* Hooks, links and .env files; then the marker, which must not exist.
Bootstrapped ==
  /\ step = "bootstrap"
  /\ dirt' \in {dirt, IF dirt = "none" THEN "untracked" ELSE dirt}
  /\ \/ step' = "marker" /\ UNCHANGED checkVars
     \/ Fails
  /\ UNCHANGED <<dir, branch, head, laid, failedGit, othersVars>>

Marked ==
  /\ step = "marker"
  /\ \/ step' = "ready" /\ UNCHANGED checkVars
     \/ Fails
  /\ UNCHANGED <<gitVars, laid, failedGit, othersVars>>

-----------------------------------------------------------------------------
(* cleanupFailedProvision. *)

Checked ==
  /\ step = "check" /\ unread = {}
  /\ step' = IF matches THEN "remove" ELSE "refused"
  /\ UNCHANGED <<gitVars, checkVars, laid, failedGit, othersVars>>

\* worktree remove, without --force: Git refuses when there are changes.
RemoveWorktree ==
  /\ step = "remove"
  /\ \/ dirt = "none" /\ dir' = "none" /\ step' = "unref" /\ UNCHANGED failedGit
     \/ /\ dir' \in {dir} \cup (IF dirt = "none" THEN {"partial"} ELSE {})
        /\ step' = "refused" /\ failedGit' = TRUE
  /\ UNCHANGED <<branch, head, dirt, checkVars, laid, othersVars>>

\* Mutated form of Unref: update-ref deletes the branch whatever it points to.
UnrefAny ==
  /\ step = "unref"
  /\ branch' = Gone /\ step' = "failed"
  /\ UNCHANGED <<dir, head, dirt, checkVars, laid, failedGit, othersVars>>
\* update-ref -d with the commit that was checked: it deletes no other.
Unref ==
  /\ step = "unref"
  /\ \/ branch \in {Gone, 0} /\ branch' = Gone /\ step' = "failed" /\ UNCHANGED failedGit
     \/ UNCHANGED branch /\ step' = "refused" /\ failedGit' = TRUE
  /\ UNCHANGED <<dir, head, dirt, checkVars, laid, othersVars>>

-----------------------------------------------------------------------------
(* Others, external. *)

\* Someone changes files, commits, or switches to another branch.
SomeoneWorks ==
  /\ dir = "whole" /\ step \in Running
  /\ touched' = TRUE
  /\ \/ dirt' \in {"untracked", "tracked"} /\ UNCHANGED <<branch, head, commits>>
     \/ /\ head = "own" /\ branch # Gone /\ commits < MaxCommits
        /\ branch' = commits + 1 /\ commits' = commits + 1 /\ dirt' = "none"
        /\ UNCHANGED head
     \/ dirt = "none" /\ head' = "other" /\ UNCHANGED <<branch, dirt, commits>>
  /\ UNCHANGED <<step, dir, checkVars, laid, failedGit>>

HostKilled ==
  /\ step \in Running
  /\ step' = "killed" /\ unread' = {}
  /\ UNCHANGED <<gitVars, matches, laid, failedGit, othersVars>>

ProvisionNext ==
  \/ GitStep \/ Add \/ (\E read \in Reads : Read(read)) \/ ReadFails \/ Verified \/ Validated
  \/ Bootstrapped \/ Marked \/ Checked \/ RemoveWorktree \/ Unref
  \/ SomeoneWorks \/ HostKilled

ProvisionSpec == ProvisionInit /\ [][ProvisionNext]_provisionVars

-----------------------------------------------------------------------------
\* However a failed provision ends: it deletes no commit of someone who worked in the
\* worktree meanwhile, between the check and the removal included; a worktree whose
\* bootstrap has begun stays; and one nobody touched leaves nothing, neither directory
\* nor branch, unless a Git command failed (provisionGitWorktree,
\* cleanupFailedProvision).
WorkKept ==
  /\ commits > 0 => branch = commits
  /\ laid => dir = "whole"
  /\ step = "failed" /\ ~failedGit /\ ~touched => dir = "none" /\ branch = Gone
===============================================================================
