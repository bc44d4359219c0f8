--------------------------- MODULE MCMcpSessions ---------------------------
(***************************************************************************)
(* McpSessions for TLC.  Nothing tells one session id, key or request from *)
(* another, so states that differ in their names only are one state.  The  *)
(* symmetry is used for the invariants alone.                              *)
(***************************************************************************)
EXTENDS McpSessions, TLC

Symmetry ==
  Permutations(Sessions) \cup Permutations(Keys) \cup Permutations(Requests)
=============================================================================
