------------------------------ MODULE MCProcess ------------------------------
(* Instantiates Process for TLC: one incarnation and two pids, so a pid  *)
(* freed by the reaper can be handed to a foreign program while the      *)
(* supervisor that forked it is still alive.                             *)
EXTENDS Process, TLC

CONSTANTS a1, p1, p2

MCActors == {a1}
MCPids == {p1, p2}

\* The liveness runs need no pid reuse: one pid.
MCOnePid == {p1}

\* Symmetry is used only by the safety runs.
MCSymmetry == Permutations(MCActors) \cup Permutations(MCPids)
=============================================================================
