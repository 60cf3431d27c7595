----------------------------- MODULE FrameChannel -----------------------------
(***************************************************************************)
(* What the framed pipe promises its two ends (spec 3, "Transport Codec", *)
(* and 5, "Ordering guarantees"): a reliable FIFO of whole messages.  The  *)
(* writer hands messages over in order; the reader receives exactly those *)
(* messages, each once and in the order written, and every message        *)
(* written is eventually received.  Process.tla models a pipe this way;   *)
(* Codec.tla implements it over bytes delivered in arbitrary chunks.       *)
(***************************************************************************)
EXTENDS Naturals, Sequences

CONSTANT Msgs

VARIABLES
    sent,   \* the messages written, in order
    got     \* the messages received, in order

InFlight == SubSeq(sent, Len(got) + 1, Len(sent))

Init == sent = <<>> /\ got = <<>>

Send(m) ==
    /\ sent' = Append(sent, m)
    /\ UNCHANGED got

\* The reader takes the oldest message not yet received.
Receive ==
    /\ InFlight # <<>>
    /\ got' = Append(got, Head(InFlight))
    /\ UNCHANGED sent

Next == (\E m \in Msgs : Send(m)) \/ Receive

Spec == Init /\ [][Next]_<<sent, got>> /\ WF_<<sent, got>>(Receive)
=============================================================================
