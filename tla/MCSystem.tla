------------------------------ MODULE MCSystem ------------------------------
(* Instantiates System for TLC: two pids, so a restart can fork onto the  *)
(* pid its predecessor just freed, and two incarnations of the slot.      *)
EXTENDS System, TLC

CONSTANTS p1, p2, i1, i2

MCPids == {p1, p2}
MCInc == <<i1, i2>>
MCSymmetry == Permutations(MCPids)

MCAllOps == {"start", "stop", "reload", "pause"}
=============================================================================
