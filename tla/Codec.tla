------------------------------- MODULE Codec -------------------------------
(***************************************************************************)
(* Modbus RTU framing (modbus_frame_codec.cpp): encode, and the scan that  *)
(* feed runs over its buffer to cut frames out of a byte stream whose read *)
(* boundaries mean nothing.  One iteration of the scan's loop is one step. *)
(***************************************************************************)
EXTENDS Naturals, Sequences

CONSTANTS crc16(_),        \* checksum of a byte string
          max_frame_len_,  \* cap on a frame, 4095 by default
          Chunks           \* byte strings the port may deliver at once

Byte == 0..255

kMinStation == 1
kMaxStation == 247
kMinFrameLen == 4

ASSUME CodecParameters ==
    /\ max_frame_len_ \in Nat /\ max_frame_len_ >= kMinFrameLen
    /\ Chunks \subseteq Seq(Byte)

DecodedFrame == [station : Byte, function_code : Byte, data : Seq(Byte)]

\* Low byte first.
CrcBytes(s) == <<crc16(s) % 256, (crc16(s) \div 256) % 256>>

\* {} is std::nullopt.
encode(station, function_code, data) ==
    IF 2 + Len(data) + 2 > max_frame_len_
      THEN {}
      ELSE LET head == <<station, function_code>> \o data
           IN  {head \o CrcBytes(head)}

VARIABLES buffer_,          \* bytes kept since the last feed, or being scanned
          resync_dropped_,  \* bytes discarded so far
          pos,              \* bytes of the buffer the scan has dealt with
          frames,           \* frames of the running feed, or of the last one
          at,               \* "idle" between calls, "scan" inside feed
          fed,              \* auxiliary: bytes fed so far
          framed            \* auxiliary: bytes that became part of a frame

vars == <<buffer_, resync_dropped_, pos, frames, at, fed, framed>>

TypeOK ==
    /\ buffer_ \in Seq(Byte)
    /\ resync_dropped_ \in Nat /\ fed \in Nat /\ framed \in Nat
    /\ pos \in 0..Len(buffer_)
    /\ frames \in Seq(DecodedFrame)
    /\ at \in {"idle", "scan"}

Init ==
    /\ buffer_ = <<>> /\ resync_dropped_ = 0 /\ pos = 0 /\ frames = <<>>
    /\ at = "idle"
    /\ fed = 0 /\ framed = 0

n == Len(buffer_)

LegalStart == buffer_[pos + 1] >= kMinStation /\ buffer_[pos + 1] <= kMaxStation

Candidate(flen) == SubSeq(buffer_, pos + 1, pos + flen)

CrcMatches(f) == SubSeq(f, Len(f) - 1, Len(f)) = CrcBytes(SubSeq(f, 1, Len(f) - 2))

\* The lengths at which a frame starting at pos would verify.
Matches == {flen \in kMinFrameLen..max_frame_len_ :
                flen <= n - pos /\ CrcMatches(Candidate(flen))}

\* Mutant of Decoded: one checksum byte is left in the data.
DecodedLong(f) ==
    [station |-> f[1], function_code |-> f[2], data |-> SubSeq(f, 3, Len(f) - 1)]

Decoded(f) == [station |-> f[1], function_code |-> f[2], data |-> SubSeq(f, 3, Len(f) - 2)]

Feed(bytes) ==
    /\ at = "idle"
    /\ buffer_' = buffer_ \o bytes
    /\ fed' = fed + Len(bytes)
    /\ pos' = 0 /\ frames' = <<>> /\ at' = "scan"
    /\ UNCHANGED <<resync_dropped_, framed>>

\* A byte no frame can start with, or noise: slide by one.
DropByte ==
    /\ pos' = pos + 1
    /\ resync_dropped_' = resync_dropped_ + 1
    /\ UNCHANGED <<buffer_, frames, at, fed, framed>>

SkipIllegalStart == at = "scan" /\ pos < n /\ ~LegalStart /\ DropByte

\* The first length that verifies.
TakeFrame ==
    /\ at = "scan" /\ pos < n /\ LegalStart
    /\ \E flen \in Matches :
          /\ \A longer \in Matches : flen <= longer
          /\ frames' = Append(frames, Decoded(Candidate(flen)))
          /\ pos' = pos + flen
          /\ framed' = framed + flen
    /\ UNCHANGED <<buffer_, resync_dropped_, at, fed>>

SlideNoise ==
    /\ at = "scan" /\ pos < n /\ LegalStart
    /\ Matches = {}
    /\ n - pos >= max_frame_len_
    /\ DropByte

\* Mutants of EndFeed: the scan position is not reset, the partial frame is erased.
EndFeedUnset ==
    /\ buffer_' = SubSeq(buffer_, pos + 1, n)
    /\ at' = "idle"
    /\ UNCHANGED <<resync_dropped_, pos, frames, fed, framed>>

EndFeedClears ==
    /\ buffer_' = <<>>
    /\ pos' = 0
    /\ at' = "idle"
    /\ UNCHANGED <<resync_dropped_, frames, fed, framed>>

\* Erase what the scan has dealt with and return.
EndFeed ==
    /\ buffer_' = SubSeq(buffer_, pos + 1, n)
    /\ pos' = 0
    /\ at' = "idle"
    /\ UNCHANGED <<resync_dropped_, frames, fed, framed>>

\* Mutant of KeepPartial: keeps a buffer that has reached the cap.
KeepFull ==
    /\ at = "scan" /\ pos < n /\ LegalStart
    /\ Matches = {}
    /\ n - pos <= max_frame_len_
    /\ EndFeed

\* What may still become a frame is kept for the next feed.
KeepPartial ==
    /\ at = "scan" /\ pos < n /\ LegalStart
    /\ Matches = {}
    /\ n - pos < max_frame_len_
    /\ EndFeed

ScanDone == at = "scan" /\ pos = n /\ EndFeed

\* Mutant of flush_partial: the bytes are not counted.
flush_uncounted ==
    /\ at = "idle"
    /\ buffer_' = <<>>
    /\ UNCHANGED <<resync_dropped_, pos, frames, at, fed, framed>>

flush_partial ==
    /\ at = "idle"
    /\ resync_dropped_' = resync_dropped_ + Len(buffer_)
    /\ buffer_' = <<>>
    /\ UNCHANGED <<pos, frames, at, fed, framed>>

Scan == SkipIllegalStart \/ TakeFrame \/ SlideNoise \/ KeepPartial \/ ScanDone

Next == Scan \/ flush_partial \/ \E bytes \in Chunks : Feed(bytes)

Spec == Init /\ [][Next]_vars

-----------------------------------------------------------------------------
\* Every byte fed is accounted for: part of a frame, counted as dropped (the link
\* noise reported on /diagnostics), or still in the buffer.
BytesConserved == fed = framed + resync_dropped_ + (Len(buffer_) - pos)

\* Between calls the buffer holds less than one frame, and it starts where a frame
\* may start: noise can neither make it grow without bound nor keep it from
\* resynchronising (modbus_frame_codec.hpp:57-59).
BufferBounded ==
    at = "idle" /\ buffer_ # <<>> =>
        /\ Len(buffer_) < max_frame_len_
        /\ buffer_[1] \in kMinStation..kMaxStation
=============================================================================
