------------------------------ MODULE Shutdown ------------------------------
(***************************************************************************)
(* What the command center promises about shutdown (spec 4.4, 7, 8.4),     *)
(* stated without the command channel, signal streams or continuations:   *)
(*                                                                         *)
(*   - services may be started only while the center is up; once draining *)
(*     begins, a stopped service stays stopped;                           *)
(*   - the terminal notifier fires at most once: with true only while      *)
(*     draining and only when every service is stopped, with false (a     *)
(*     command stream error) at any time;                                 *)
(*   - a stop() caller is answered only when, or after, the notifier has   *)
(*     fired, and all callers waiting then are answered together.          *)
(*                                                                         *)
(* CommandCenter.tla implements this module under the mapping given there. *)
(***************************************************************************)
EXTENDS Sequences

CONSTANTS Services, Waiters

VARIABLES phase, stopped, result, waiter

AllDrained == \A n \in Services : stopped[n]

Resolve == waiter' = [w \in Waiters |-> IF waiter[w] = "waiting" THEN "resolved"
                                                              ELSE waiter[w]]

\* The notifier fires with ok, answering every waiting stop() caller.
Notify(ok) ==
    /\ result = <<>>
    /\ ok => AllDrained
    /\ result' = <<ok>>
    /\ Resolve

\* Some stopped services are started (the center's start, or the console).
Run(S) ==
    /\ phase = "up" /\ S # {} /\ \A n \in S : stopped[n]
    /\ stopped' = [n \in Services |-> IF n \in S THEN FALSE ELSE stopped[n]]
    /\ UNCHANGED <<phase, result, waiter>>

Halt(n) ==
    /\ ~stopped[n]
    /\ stopped' = [stopped EXCEPT ![n] = TRUE]
    /\ UNCHANGED <<phase, result, waiter>>

Request(w) ==
    /\ waiter[w] = "idle"
    /\ waiter' = [waiter EXCEPT ![w] = "waiting"]
    /\ UNCHANGED <<phase, stopped, result>>

\* Draining begins; if nothing is left to stop, the notifier fires at once.
\* Services with nothing left to wait for may stop in the same step.
Begin ==
    /\ phase = "up"
    /\ phase' = "draining"
    /\ \/ Notify(TRUE) /\ UNCHANGED stopped
       \/ /\ UNCHANGED <<result, waiter>>
          /\ \E H \in SUBSET Services :
                stopped' = [n \in Services |-> stopped[n] \/ n \in H]

\* Success is reported only while draining; failure at any time.
Finish(ok) ==
    /\ ok => phase = "draining"
    /\ Notify(ok)
    /\ UNCHANGED <<phase, stopped>>

\* A caller that waits after the notifier fired may still be answered.
AnswerLate ==
    /\ result # <<>>
    /\ \E w \in Waiters : waiter[w] = "waiting"
    /\ Resolve
    /\ UNCHANGED <<phase, stopped, result>>

Init ==
    /\ phase = "up"
    /\ stopped = [n \in Services |-> TRUE]
    /\ result = <<>>
    /\ waiter = [w \in Waiters |-> "idle"]

Next ==
    \/ \E S \in SUBSET Services : Run(S)
    \/ \E n \in Services : Halt(n)
    \/ \E w \in Waiters : Request(w)
    \/ Begin
    \/ \E ok \in BOOLEAN : Finish(ok)
    \/ AnswerLate

Spec == Init /\ [][Next]_<<phase, stopped, result, waiter>>
=============================================================================
