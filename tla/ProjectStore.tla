---------------------------- MODULE ProjectStore ----------------------------
(***************************************************************************)
(* The table projects and its store (internal/store/project_store.go).     *)
(* Every call is one critical section of the store's mutex.  A project is  *)
(* what decides whether a webhook deploys it; the other columns are left   *)
(* out.  A repository is the sequence of the segments of its name, taken   *)
(* up to case and surrounding space, as every comparison does.             *)
(***************************************************************************)
EXTENDS Naturals, Sequences

CONSTANTS
  ProjectIds,   \* "proj_<nanoseconds>": an id is given out once
  Segments,     \* segments of repository names
  Branches,     \* branch names, without "refs/heads/"
  Secrets,      \* webhook secrets
  NoSecret,     \* the empty secret
  NoBranch,     \* the empty branch, which a migrated project may have
  MainBranch,   \* "main"
  NoProject     \* no row

ASSUME ProjectAssumption ==
  /\ MainBranch \in Branches
  /\ NoBranch \notin Branches
  /\ NoSecret \notin Secrets

VARIABLE projects

Repositories == Seq(Segments)
Config == [repo: Repositories, branch: Branches \cup {NoBranch},
           secret: Secrets \cup {NoSecret}, enabled: BOOLEAN]

ProjectsTypeOK == projects \in [ProjectIds -> Config \cup {NoProject}]

Rows == {id \in ProjectIds : projects[id] # NoProject}

\* An empty branch is stored as "main".
Normalised(req) ==
  [req EXCEPT !.branch = IF req.branch = NoBranch THEN MainBranch ELSE req.branch]

\* INSERT OR REPLACE of the whole row, for a new id or for one that is there.
Save(id, req) == projects' = [projects EXCEPT ![id] = Normalised(req)]
Delete(id)    == projects' = [projects EXCEPT ![id] = NoProject]

\* "repo" stands for the "repo" of every owner, a URL for what it ends with.
IsNamePart(a, b) ==
  /\ a # <<>>
  /\ Len(a) < Len(b)
  /\ a = SubSeq(b, Len(b) - Len(a) + 1, Len(b))
RepoMatch(a, b) == a = b \/ IsNamePart(a, b) \/ IsNamePart(b, a)

\* With a bug: a disabled project is found as well.
FindByRepoAlways(repo) == {id \in Rows : RepoMatch(projects[id].repo, repo)}
FindByRepo(repo) ==
  {id \in Rows : projects[id].enabled /\ RepoMatch(projects[id].repo, repo)}

FindByRepoAndBranch(repo, branch) ==
  {id \in FindByRepo(repo) : projects[id].branch \in {NoBranch, branch}}
=============================================================================
