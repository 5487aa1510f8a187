-------------------------- MODULE ReportArtifacts --------------------------
(***************************************************************************)
(* The download directory as hermes/workflow_runner/artifacts.py reads it. *)
(* A file is identified by the run whose export made the browser forward   *)
(* it (one input produces at most one file, under a name nothing else      *)
(* uses: the forwarder links without overwriting).  A file's signature     *)
(* (inode, size, mtime) is its stamp; "right" stands for a name, schema    *)
(* and rows that match the reviewed contract.  All runs share one period,  *)
(* the case in which one run's report can be taken for another's.          *)
(***************************************************************************)
EXTENDS Naturals, FiniteSets

CONSTANTS Runs,         \* run identifiers
          MaxRewrites,  \* bound: how often one file is rewritten in place
          None          \* no file, no plan, no artifact

ASSUME RewritesAssumption == MaxRewrites \in Nat

File      == [content : {"right", "wrong"}, stamp : 0..MaxRewrites]
Directory == [Runs -> File \cup {None}]
Artifact  == [run : Runs, file : File]

ASSUME NoneAssumption == None \notin File /\ None \notin Artifact

\* candidate(before, now), split into what it requires and what it returns.
Intact(now, before) ==                     \* else ARTIFACT_SET_CHANGED
  \A r \in Runs : before[r] # None => now[r] = before[r]
Added(now, before) == {r \in Runs : now[r] # None /\ before[r] = None}
Candidates(now, before) ==                 \* else AMBIGUOUS_ARTIFACT, or None
  {[run |-> r, file |-> now[r]] : r \in
     {s \in Added(now, before) : Intact(now, before) /\ Added(now, before) = {s}}}

\* verify(): exactly one new completed download record, and it names the
\* candidate; then the candidate's content is compared with the bindings.
Correlated(candidate, downloads, previous) ==
  /\ downloads \ previous = {candidate.run}
  /\ candidate.file.content = "right"
=============================================================================
