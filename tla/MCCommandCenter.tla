--------------------------- MODULE MCCommandCenter ---------------------------
(* Two services, so their stop completions and continuations can resolve  *)
(* in either order; two stop() callers; two worker pids whose exits can    *)
(* be coalesced into one SIGCHLD.                                          *)
EXTENDS CommandCenter, TLC

CONSTANTS s1, s2, w1, w2, c1, c2

MCServices == {s1, s2}
MCWaiters == {w1, w2}
MCChildren == {c1, c2}
=============================================================================
