\* Framing round trip with one-bit bytes: the length field then holds 0..3,
\* so payloads at the u16 limit (length 3) are among those written.
CONSTANTS
    BitsPerByte = 1
    MaxFrames = 3
    MaxPayload = 3
SPECIFICATION FairSpec
INVARIANT FramesRecovered
PROPERTY ImplementsChannel
