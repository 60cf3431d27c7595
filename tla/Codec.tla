-------------------------------- MODULE Codec --------------------------------
(***************************************************************************)
(* TransportCodec of src/process.rs (503-541): a frame is a big-endian     *)
(* u16 length followed by that many payload bytes.  The encoder writes     *)
(* frames into the pipe; the pipe delivers the bytes in chunks of any      *)
(* size; after every chunk the framed reader calls decode until it yields  *)
(* None.  Payloads are abstract byte sequences: the JSON layer is the      *)
(* identity on the frame's contents and is not what is checked here.       *)
(***************************************************************************)
EXTENDS Naturals, Sequences, SequencesExt

CONSTANTS
    BitsPerByte,   \* 8 in the code; smaller values make the u16 bound reachable
    MaxFrames,     \* frames written per behaviour
    MaxPayload     \* longest payload written

ASSUME BitsPerByte \in Nat \ {0} /\ MaxFrames \in Nat /\ MaxPayload \in Nat

ByteBase == 2 ^ BitsPerByte
Bytes == 0 .. ByteBase - 1
\* `len as u16`: the length field is two bytes wide.
U16 == ByteBase * ByteBase
MaxLen == U16 - 1

Payloads == UNION {[1..n -> Bytes] : n \in 0..MaxPayload}

\* BigEndian::read_u16 of the first two bytes.
ReadU16(buf) == buf[1] * ByteBase + buf[2]

\* Encoder::encode: reserve, put_u16 of the length truncated to 16 bits,
\* then the payload.
Encode(payload) ==
    LET n == Len(payload) % U16
    IN  <<n \div ByteBase, n % ByteBase>> \o payload

\* Mutant: a frame is only taken when more than size + 2 bytes are held.
DecodeStrict(buf) ==
    IF Len(buf) < 2 THEN [frame |-> "None", rest |-> buf]
    ELSE LET size == ReadU16(buf) IN
         IF Len(buf) > size + 2
         THEN [frame |-> SubSeq(buf, 3, size + 2),
               rest  |-> SubSeq(buf, size + 3, Len(buf))]
         ELSE [frame |-> "None", rest |-> buf]

\* Decoder::decode on buffer `buf`: [frame |-> payload or None, rest |-> the
\* bytes left in the buffer].
None == "None"
Decode(buf) ==
    IF Len(buf) < 2 THEN [frame |-> None, rest |-> buf]
    ELSE LET size == ReadU16(buf) IN
         IF Len(buf) >= size + 2
         THEN [frame |-> SubSeq(buf, 3, size + 2),
               rest  |-> SubSeq(buf, size + 3, Len(buf))]
         ELSE [frame |-> None, rest |-> buf]

VARIABLES
    sent,   \* payloads handed to the encoder, in order
    wire,   \* encoded bytes not yet delivered to the reader
    buf,    \* the framed reader's BytesMut
    got     \* payloads the decoder has produced, in order

vars == <<sent, wire, buf, got>>

Init == sent = <<>> /\ wire = <<>> /\ buf = <<>> /\ got = <<>>

\* ctx.send(msg): encode one frame onto the pipe.
Write(p) ==
    /\ Len(sent) < MaxFrames
    /\ sent' = Append(sent, p)
    /\ wire' = wire \o Encode(p)
    /\ UNCHANGED <<buf, got>>

\* A read returns the next k bytes of the pipe.
Deliver(k) ==
    /\ k \in 1..Len(wire)
    /\ buf' = buf \o SubSeq(wire, 1, k)
    /\ wire' = SubSeq(wire, k + 1, Len(wire))
    /\ UNCHANGED <<sent, got>>

\* One decode call that yields a frame.
DecodeFrame ==
    LET r == Decode(buf) IN
    /\ r.frame # None
    /\ got' = Append(got, r.frame)
    /\ buf' = r.rest
    /\ UNCHANGED <<sent, wire>>

\* Every frame of the bounded writer has been written and read: the
\* behaviour ends here (stuttering), any other state without a step is stuck.
Finished ==
    /\ Len(sent) = MaxFrames /\ wire = <<>> /\ Decode(buf).frame = None
    /\ UNCHANGED vars

Next ==
    \/ Finished
    \/ \E p \in Payloads : Write(p)
    \/ \E k \in 1..Len(wire) : Deliver(k)
    \/ DecodeFrame

\* The OS pipe delivers every written byte, and the framed reader calls
\* decode again after each frame it yields.  The writer is not fair.
Fairness ==
    /\ WF_vars(\E k \in 1..Len(wire) : Deliver(k))
    /\ WF_vars(DecodeFrame)

Spec == Init /\ [][Next]_vars
FairSpec == Spec /\ Fairness

-----------------------------------------------------------------------------
\* Spec 8, round trip across chunk boundaries: the decoder only ever yields
\* the frames that were written, in order, and once every byte is delivered
\* and decode yields None, every frame has been recovered and the buffer
\* holds no partial frame.
FramesRecovered ==
    /\ IsPrefix(got, sent)
    /\ (wire = <<>> /\ Decode(buf).frame = None) => got = sent /\ buf = <<>>

Channel == INSTANCE FrameChannel WITH Msgs <- Payloads

\* Spec 3 and 5: the framed pipe is a reliable FIFO of whole messages.
\* Whatever chunk boundaries the pipe picks, each decode yields the oldest
\* frame not yet decoded, and every frame written is eventually decoded,
\* including one whose last byte completes the buffer exactly.
ImplementsChannel == Channel!Spec
=============================================================================
