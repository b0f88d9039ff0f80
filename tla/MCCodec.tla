------------------------------ MODULE MCCodec ------------------------------
(***************************************************************************)
(* Short frames of two stations, with a cap of seven bytes: frames that    *)
(* fill it, streams that overrun it, noise before, between and behind      *)
(* them, a frame whose end is lost, and one whose data are the checksum of *)
(* its head.                                                               *)
(***************************************************************************)
EXTENDS CodecStream, Crc16

Sent(station, fc, data) ==
    [bytes |-> CHOOSE b \in encode(station, fc, data) : TRUE,
     frame |-> {[station |-> station, function_code |-> fc, data |-> data]}]
Noise(bytes) == [bytes |-> bytes, frame |-> {}]

A == Sent(1, 3, <<>>)
B == Sent(247, 16, <<7>>)
C == Sent(2, 6, <<1, 0, 255>>)
D == Sent(1, 3, CrcBytes(<<1, 3>>))

Wire(items) == FlattenSeq([i \in DOMAIN items |-> items[i].bytes])
Stream(items) ==
    [wire |-> Wire(items), frames |-> [i \in DOMAIN items |-> items[i].frame],
     marks |-> [i \in 1..Len(items) + 1 |-> Len(Wire(SubSeq(items, 1, i - 1)))]]

MCStreams ==
    {Stream(items) : items \in
        {<<A, B, C>>, <<C, A, A>>, <<D, B>>,
         <<Noise(<<0, 248>>), A, B>>,
         <<Noise(<<5>>), A, B, A>>,
         <<B, Noise(<<255>>), A, Noise(<<9>>)>>,
         <<Noise(SubSeq(C.bytes, 1, 4)), B, A>>}}

Substrings(s) == {SubSeq(s, i, j) : i \in DOMAIN s, j \in DOMAIN s} \ {<<>>}
MCChunks == UNION {Substrings(s.wire) : s \in MCStreams}
=============================================================================
