--------------------------- MODULE RepositoryStore ---------------------------
(***************************************************************************)
(* The release tracker's table of repositories, and what GitHub answers.   *)
(* The name is UNIQUE and no row is ever deleted, so a repository is known *)
(* by its name and "id" and "name" are the same here.                      *)
(***************************************************************************)
EXTENDS ReleaseQueue

VARIABLES seen,     \* repositories.last_seen_tag, None without a row
          latest    \* the tag /releases/latest answers, 0 for 404

repositoryVars == <<seen, latest>>

RepositoryTypeOK ==
    /\ seen \in [Repo -> Tag \cup {None}]
    /\ latest \in [Repo -> Tag]

RepositoryInit ==
    /\ seen = [r \in Repo |-> None]
    /\ latest \in [Repo -> {0, 1}]

Tracked(r) == seen[r] # None

\* Mutant of Create: the conflicting row takes the new tag.
CreateOverwriting(r, tag) ==
    /\ seen' = [seen EXCEPT ![r] = tag]
    /\ UNCHANGED latest

\* INSERT ... ON CONFLICT (name) DO UPDATE SET name: a row keeps its tag.
Create(r, tag) ==
    /\ seen' = IF Tracked(r) THEN seen ELSE [seen EXCEPT ![r] = tag]
    /\ UNCHANGED latest

\* Mutant of UpdateTag: the WHERE clause matches no row.
UpdateNothing(r, tag) == UNCHANGED repositoryVars

UpdateTag(r, tag) ==
    /\ seen' = [seen EXCEPT ![r] = tag]
    /\ UNCHANGED latest

\* A maintainer publishes a release.
PublishRelease(r) ==
    /\ latest[r] < MaxTag
    /\ latest' = [latest EXCEPT ![r] = @ + 1]
    /\ UNCHANGED seen
=============================================================================
