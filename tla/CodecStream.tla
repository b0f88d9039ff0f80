---------------------------- MODULE CodecStream ----------------------------
(***************************************************************************)
(* The codec at the end of a byte stream: frames and noise that the radio  *)
(* link splits and coalesces as it likes, read in chunks of any size, with *)
(* flush_partial (burst-end timeout, reconnection) at any moment between   *)
(* two reads.                                                              *)
(***************************************************************************)
EXTENDS Codec

CONSTANT Streams   \* byte strings with the frames and the noise they are made of

\* The k bytes behind position p.
Cut(s, p, k) == SubSeq(s, p + 1, p + k)

\* Item i of a stream, noise where frames[i] is {}, lies between two marks.
Piece(s, i) == Cut(s.wire, s.marks[i], s.marks[i + 1] - s.marks[i])

ASSUME StreamParameters ==
    \A s \in Streams :
        /\ s.wire \in Seq(Byte) /\ s.marks \in Seq(Nat) /\ s.frames \in Seq(SUBSET DecodedFrame)
        /\ Len(s.marks) = Len(s.frames) + 1
        /\ s.marks[1] = 0 /\ s.marks[Len(s.marks)] = Len(s.wire)
        /\ \A i, j \in DOMAIN s.marks : i <= j => s.marks[i] <= s.marks[j]
        /\ \A i \in 1..Len(s.frames) : \A f \in s.frames[i] :
              /\ f.station \in kMinStation..kMaxStation
              /\ Piece(s, i) \in encode(f.station, f.function_code, f.data)

VARIABLES stream,  \* the items sent
          unread,  \* bytes not yet read from the port
          since,   \* auxiliary: bytes fed since the last flush
          got,     \* auxiliary: frames decoded since the last flush
          places   \* auxiliary: where in since they were

streamVars == <<vars, stream, unread, since, got, places>>

StreamInit ==
    /\ Init
    /\ stream \in Streams
    /\ unread = stream.wire
    /\ since = <<>> /\ got = <<>> /\ places = <<>>

\* The port hands over what has arrived.
Deliver ==
    \E k \in 1..Len(unread) :
        /\ Cut(unread, 0, k) \in Chunks
        /\ Feed(Cut(unread, 0, k))
        /\ unread' = SubSeq(unread, k + 1, Len(unread))
        /\ since' = since \o Cut(unread, 0, k)
        /\ UNCHANGED <<stream, got, places>>

\* Bytes of since the scan has dealt with.
Dealt == Len(since) - Len(buffer_) + pos

Decoding ==
    /\ \/ /\ TakeFrame
          /\ got' = Append(got, frames'[Len(frames')])
          /\ places' = Append(places, [from |-> Dealt, to |-> Dealt + (pos' - pos)])
       \/ (SkipIllegalStart \/ SlideNoise \/ KeepPartial \/ ScanDone) /\ UNCHANGED <<got, places>>
    /\ UNCHANGED <<stream, unread, since>>

Flush ==
    /\ flush_partial
    /\ since' = <<>> /\ got' = <<>> /\ places' = <<>>
    /\ UNCHANGED <<stream, unread>>

StreamNext == Deliver \/ Decoding \/ Flush

StreamSpec == StreamInit /\ [][StreamNext]_streamVars

-----------------------------------------------------------------------------
(* Reference: the frames in a byte string s that is all there from the     *)
(* start, by their places in it.                                           *)

\* The lengths at which the bytes behind position p verify.
Verified(s, p) ==
    {k \in kMinFrameLen..max_frame_len_ : p + k <= Len(s) /\ CrcMatches(Cut(s, p, k))}

LegalAt(s, p) == p < Len(s) /\ s[p + 1] \in kMinStation..kMaxStation

\* The byte behind p belongs to no frame; k bytes behind p do.
NoiseAt(s, p) ==
    /\ p < Len(s)
    /\ LegalAt(s, p) => Verified(s, p) = {} /\ Len(s) - p >= max_frame_len_
FrameAt(s, p, k) == LegalAt(s, p) /\ k \in Verified(s, p) /\ \A j \in Verified(s, p) : k <= j

AllNoise(s, p, q) == p <= q /\ \A r \in p..q - 1 : NoiseAt(s, r)

\* Where the i-th frame ends.
End(at_, i) == IF i = 0 THEN 0 ELSE at_[i].to

\* The frames of the first e bytes of s are at these places, and there is noise
\* between them and behind the last.
Covers(s, at_, e) ==
    /\ \A i \in 1..Len(at_) :
          /\ AllNoise(s, End(at_, i - 1), at_[i].from)
          /\ at_[i].from < at_[i].to /\ FrameAt(s, at_[i].from, at_[i].to - at_[i].from)
    /\ AllNoise(s, End(at_, Len(at_)), e)

\* So far and no further: what is left of s may still become a frame.
CoversAll(s, at_, e) ==
    /\ Covers(s, at_, e) /\ e <= Len(s)
    /\ ~NoiseAt(s, e) /\ \A k \in Verified(s, e) : ~FrameAt(s, e, k)

FramesOf(s, at_) == [i \in 1..Len(at_) |-> Decoded(Cut(s, at_[i].from, at_[i].to - at_[i].from))]

\* Read boundaries mean nothing: however the bytes since the last flush were cut
\* into reads, the frames decoded are those of the whole string
\* (modbus_frame_codec.hpp:38-46).
ChunkingInvisible ==
    at = "idle" => CoversAll(since, places, Dealt) /\ got = FramesOf(since, places)

\* All has been read, none of it was noise, and no flush has come in between.
CleanStream ==
    at = "idle" /\ since = stream.wire /\ \A i \in 1..Len(stream.frames) : stream.frames[i] # {}

\* A proper prefix of the frame carries its own checksum.
Ambiguous(bytes) ==
    \E k \in kMinFrameLen..Len(bytes) - 1 : CrcMatches(Cut(bytes, 0, k))

FramesSent == Len(got) = Len(stream.frames) /\ \A i \in 1..Len(got) : stream.frames[i] = {got[i]}

\* A stream of frames without noise arrives complete and in order, frame for frame,
\* as long as no prefix of a frame verifies.
CleanStreamExact ==
    CleanStream /\ (\A i \in 1..Len(stream.frames) : ~Ambiguous(Piece(stream, i))) => FramesSent

\* What is published is a complete frame that was sent (Frame.msg:5).
PublishesWholeFrames == CleanStream => FramesSent

\* feed() extracts "every complete frame currently decodable"
\* (modbus_frame_codec.hpp:74): none is left in the buffer when it returns.
ExtractsEveryCompleteFrame ==
    at = "idle" => \A p \in 0..Len(buffer_) - 1 : LegalAt(buffer_, p) => Verified(buffer_, p) = {}
=============================================================================
