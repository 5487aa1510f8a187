---------------------------- MODULE MCCompactMcp ----------------------------
(* The compact MCP service on small instances.                             *)
EXTENDS CompactMcp, TLC

MCOwners == Sessions \X Requests

\* The calls are interchangeable; sessions are numbered.
Symmetry == Permutations(Calls)
=============================================================================
