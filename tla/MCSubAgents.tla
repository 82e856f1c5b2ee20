---------------------------- MODULE MCSubAgents ----------------------------
(* Small instances of SubAgents for TLC; the sizes are in the .cfg's. *)
EXTENDS SubAgents

\* The agents are interchangeable in the safety runs.
AgentSymmetry == Permutations(Agents)
=============================================================================
