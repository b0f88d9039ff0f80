---------------------------- MODULE CodecProofs ----------------------------
(***************************************************************************)
(* The codec, proved for every checksum, every frame cap and every way the *)
(* port can cut the stream: its accounting, the bound on its buffer, and   *)
(* that the frames it decodes depend on the bytes alone.                   *)
(***************************************************************************)
EXTENDS CodecStream, SequenceTheorems, NumberProofs

\* The inductive invariant; between calls the scan position is at the start.
CodecInv ==
    /\ TypeOK
    /\ at = "idle" => pos = 0
    /\ BytesConserved
    /\ BufferBounded

\* A cut out of a byte string has the bytes and the length one expects.
LEMMA CutBytes ==
    ASSUME NEW s \in Seq(Byte), NEW i \in Nat, NEW j \in Nat, i >= 1, j <= Len(s)
    PROVE  /\ SubSeq(s, i, j) \in Seq(Byte)
           /\ Len(SubSeq(s, i, j)) = IF i <= j THEN j - i + 1 ELSE 0
           /\ \A k \in 1..j - i + 1 : SubSeq(s, i, j)[k] = s[i + k - 1]
           /\ i <= j => SubSeq(s, i, j)[1] = s[i]
<1>1. \A k \in i..j : s[k] \in Byte
  BY ElementOfSeq, LenProperties
<1>2. /\ SubSeq(s, i, j) \in Seq(Byte)
      /\ Len(SubSeq(s, i, j)) = IF i <= j THEN j - i + 1 ELSE 0
      /\ \A k \in 1..j - i + 1 : SubSeq(s, i, j)[k] = s[i + k - 1]
  BY <1>1, SubSeqProperties
<1>3. QED BY <1>2

\* A candidate that verifies lies within the buffer and is at least a frame long.
LEMMA MatchWithinBuffer ==
    ASSUME TypeOK, NEW flen \in Matches
    PROVE  /\ flen \in Nat /\ flen >= kMinFrameLen /\ pos + flen <= Len(buffer_)
           /\ Decoded(Candidate(flen)) \in DecodedFrame
<1>1. flen \in Nat /\ flen >= kMinFrameLen /\ pos + flen <= Len(buffer_) /\ pos \in Nat
  BY CodecParameters, LenProperties DEF TypeOK, Matches, n, kMinFrameLen
<1>2. Candidate(flen) \in Seq(Byte) /\ Len(Candidate(flen)) = flen
  BY <1>1, CutBytes DEF TypeOK, Candidate, kMinFrameLen
<1>3. Candidate(flen)[1] \in Byte /\ Candidate(flen)[2] \in Byte
  BY <1>1, <1>2, ElementOfSeq DEF kMinFrameLen
<1>4. SubSeq(Candidate(flen), 3, Len(Candidate(flen)) - 2) \in Seq(Byte)
  BY <1>1, <1>2, CutBytes DEF kMinFrameLen
<1>5. QED BY <1>1, <1>3, <1>4 DEF Decoded, DecodedFrame

LEMMA InitCodecInv == Init => CodecInv
  BY DEF Init, CodecInv, TypeOK, BytesConserved, BufferBounded

LEMMA FeedKeeps ==
    ASSUME CodecInv, NEW bytes \in Chunks, Feed(bytes)
    PROVE  CodecInv'
<1> USE DEF CodecInv, Feed
<1>1. bytes \in Seq(Byte) /\ buffer_ \in Seq(Byte) /\ pos = 0
  BY CodecParameters DEF TypeOK
<1>2. /\ buffer_' \in Seq(Byte) /\ Len(buffer_') = Len(buffer_) + Len(bytes)
      /\ Len(bytes) \in Nat /\ Len(buffer_) \in Nat
  BY <1>1, ConcatProperties, LenProperties
<1>3. TypeOK'
  BY <1>2 DEF TypeOK
<1>4. BytesConserved'
  BY <1>1, <1>2 DEF BytesConserved, TypeOK
<1>5. QED BY <1>3, <1>4 DEF BufferBounded

\* One byte behind the scan, whichever of the two reasons drops it.
LEMMA DropByteKeeps ==
    ASSUME CodecInv, at = "scan", pos < n, DropByte
    PROVE  CodecInv'
<1> USE DEF CodecInv, DropByte, n
<1>1. Len(buffer_) \in Nat
  BY LenProperties DEF TypeOK
<1>2. TypeOK' /\ BytesConserved'
  BY <1>1 DEF TypeOK, BytesConserved
<1>3. QED BY <1>2 DEF BufferBounded

LEMMA TakeFrameKeeps ==
    ASSUME CodecInv, TakeFrame
    PROVE  CodecInv'
<1> USE DEF CodecInv
<1>1. PICK flen \in Matches : /\ frames' = Append(frames, Decoded(Candidate(flen)))
                              /\ pos' = pos + flen
                              /\ framed' = framed + flen
  BY DEF TakeFrame
<1>2. at = "scan" /\ UNCHANGED <<buffer_, resync_dropped_, at, fed>>
  BY DEF TakeFrame
<1>3. /\ flen \in Nat /\ pos + flen <= Len(buffer_) /\ Len(buffer_) \in Nat
      /\ Decoded(Candidate(flen)) \in DecodedFrame
  BY MatchWithinBuffer, LenProperties DEF TypeOK
<1>4. frames' \in Seq(DecodedFrame)
  BY <1>1, <1>3, AppendProperties DEF TypeOK
<1>5. TypeOK' /\ BytesConserved'
  BY <1>1, <1>2, <1>3, <1>4 DEF TypeOK, BytesConserved
<1>6. QED BY <1>2, <1>5 DEF BufferBounded

\* What the scan leaves: everything from its position on.
LEMMA EndFeedKeeps ==
    ASSUME CodecInv, EndFeed,
           pos = n \/ (pos < n /\ LegalStart /\ n - pos < max_frame_len_)
    PROVE  CodecInv'
<1> USE DEF CodecInv
<1>1. buffer_ \in Seq(Byte) /\ Len(buffer_) \in Nat /\ pos \in Nat /\ pos <= Len(buffer_)
  BY LenProperties DEF TypeOK
<1>2. /\ buffer_' \in Seq(Byte)
      /\ Len(buffer_') = IF pos + 1 <= Len(buffer_) THEN Len(buffer_) - (pos + 1) + 1 ELSE 0
      /\ pos + 1 <= Len(buffer_) => buffer_'[1] = buffer_[pos + 1]
  BY <1>1, CutBytes DEF EndFeed, n
<1>3. Len(buffer_') = Len(buffer_) - pos
  BY <1>1, <1>2
<1>4. pos' = 0 /\ at' = "idle" /\ UNCHANGED <<resync_dropped_, frames, fed, framed>>
  BY DEF EndFeed
<1>5. TypeOK' /\ BytesConserved'
  <2>1. pos' \in 0..Len(buffer_')
    BY <1>1, <1>3, <1>4
  <2>2. TypeOK'
    BY <1>2, <1>4, <2>1 DEF TypeOK
  <2>3. BytesConserved'
    BY <1>1, <1>3, <1>4 DEF TypeOK, BytesConserved
  <2>4. QED BY <2>2, <2>3
<1>6. BufferBounded'
  <2>1. CASE pos = n
    BY <1>1, <1>2, <1>3, <2>1, EmptySeq DEF BufferBounded, n
  <2>2. CASE pos < n /\ LegalStart /\ n - pos < max_frame_len_
    <3>1. Len(buffer_') < max_frame_len_ /\ buffer_'[1] = buffer_[pos + 1]
      BY <1>1, <1>2, <1>3, <2>2 DEF n
    <3>2. buffer_[pos + 1] \in kMinStation..kMaxStation
      <4>1. buffer_[pos + 1] \in Byte
        BY <1>1, <2>2, ElementOfSeq DEF n
      <4>2. QED BY <2>2, <4>1 DEF LegalStart, Byte, kMinStation, kMaxStation
    <3>3. QED BY <3>1, <3>2 DEF BufferBounded
  <2>3. QED BY <2>1, <2>2
<1>7. QED BY <1>4, <1>5, <1>6

LEMMA FlushKeeps ==
    ASSUME CodecInv, flush_partial
    PROVE  CodecInv'
<1> USE DEF CodecInv, flush_partial
<1>1. Len(buffer_) \in Nat /\ pos = 0
  BY LenProperties DEF TypeOK
<1>2. TypeOK' /\ BytesConserved'
  BY <1>1 DEF TypeOK, BytesConserved
<1>3. QED BY <1>1, <1>2 DEF BufferBounded

LEMMA NextKeeps == CodecInv /\ [Next]_vars => CodecInv'
<1> SUFFICES ASSUME CodecInv, [Next]_vars PROVE CodecInv'
  OBVIOUS
<1>1. CASE UNCHANGED vars
  BY <1>1 DEF vars, CodecInv, TypeOK, BytesConserved, BufferBounded
<1>2. CASE \E bytes \in Chunks : Feed(bytes)
  BY <1>2, FeedKeeps
<1>3. CASE SkipIllegalStart \/ SlideNoise
  BY <1>3, DropByteKeeps DEF SkipIllegalStart, SlideNoise
<1>4. CASE TakeFrame
  BY <1>4, TakeFrameKeeps
<1>5. CASE KeepPartial \/ ScanDone
  BY <1>5, EndFeedKeeps DEF KeepPartial, ScanDone
<1>6. CASE flush_partial
  BY <1>6, FlushKeeps
<1>7. QED BY <1>1, <1>2, <1>3, <1>4, <1>5, <1>6 DEF Next, Scan

\* The inductive invariant holds in every state of the codec.
THEOREM CodecInvariantHolds == Spec => []CodecInv
BY InitCodecInv, NextKeeps, PTL DEF Spec

\* What feed returns are frames of bytes, and its scan stays within the buffer
\* (modbus_frame_codec.cpp:69-98).
THEOREM CodecTypes == Spec => []TypeOK
<1>1. CodecInv => TypeOK
  BY DEF CodecInv
<1>2. QED BY <1>1, CodecInvariantHolds, PTL

\* Every byte fed is in a frame, counted as dropped or still buffered, whatever the
\* stream holds (modbus_frame_codec.cpp:61-117).
THEOREM BytesAlwaysConserved == Spec => []BytesConserved
<1>1. CodecInv => BytesConserved
  BY DEF CodecInv
<1>2. QED BY <1>1, CodecInvariantHolds, PTL

\* Whatever noise the radio delivers, less than one frame stays in the buffer and it
\* starts at a legal station (modbus_frame_codec.cpp:99-109).
THEOREM BufferAlwaysBounded == Spec => []BufferBounded
<1>1. CodecInv => BufferBounded
  BY DEF CodecInv
<1>2. QED BY <1>1, CodecInvariantHolds, PTL

-----------------------------------------------------------------------------
(* The scan sees of the buffer what the reference sees of the whole string. *)

\* The k bytes behind p in s are those behind q in t.
Alike(s, p, t, q, k) ==
    p + k <= Len(s) /\ q + k <= Len(t) /\ \A i \in 1..k : s[p + i] = t[q + i]

\* All that is behind p in s is what is behind q in t.
SameRest(s, p, t, q) == Len(s) - p = Len(t) - q /\ Alike(s, p, t, q, Len(s) - p)

LEMMA SameCut ==
    ASSUME NEW s \in Seq(Byte), NEW t \in Seq(Byte), NEW p \in Nat, NEW q \in Nat, NEW k \in Nat,
           Alike(s, p, t, q, k)
    PROVE  Cut(s, p, k) = Cut(t, q, k)
<1> DEFINE a == SubSeq(s, p + 1, p + k)
           b == SubSeq(t, q + 1, q + k)
<1>1. /\ a \in Seq(Byte) /\ Len(a) = k
      /\ \A i \in 1..k : a[i] = s[p + i]
  BY CutBytes DEF Alike
<1>2. /\ b \in Seq(Byte) /\ Len(b) = k
      /\ \A i \in 1..k : b[i] = t[q + i]
  BY CutBytes DEF Alike
<1> HIDE DEF a, b
<1>3. a = b
  BY <1>1, <1>2, SeqEqual DEF Alike
<1>4. QED BY <1>3 DEF a, b, Cut

LEMMA VerifiedIs ==
    ASSUME NEW s, NEW p, NEW k
    PROVE  k \in Verified(s, p) <=>
               /\ k \in Nat /\ kMinFrameLen <= k /\ k <= max_frame_len_
               /\ p + k <= Len(s) /\ CrcMatches(Cut(s, p, k))
<1>1. k \in kMinFrameLen..max_frame_len_ <=>
          k \in Nat /\ kMinFrameLen <= k /\ k <= max_frame_len_
  BY CodecParameters DEF kMinFrameLen
<1>2. QED BY <1>1 DEF Verified

\* Two strings that go on alike are scanned alike.
LEMMA SameScan ==
    ASSUME NEW s \in Seq(Byte), NEW t \in Seq(Byte), NEW p \in Nat, NEW q \in Nat,
           SameRest(s, p, t, q)
    PROVE  /\ LegalAt(s, p) <=> LegalAt(t, q)
           /\ Verified(s, p) = Verified(t, q)
           /\ \A k \in Verified(s, p) : Cut(s, p, k) = Cut(t, q, k)
<1>1. Len(s) \in Nat /\ Len(t) \in Nat
  BY LenProperties
<1>2. ASSUME NEW k \in Nat, p + k <= Len(s)
      PROVE  Cut(s, p, k) = Cut(t, q, k)
  <2>1. q + k <= Len(t) /\ \A i \in 1..k : i \in 1..Len(s) - p
    BY <1>1, <1>2 DEF SameRest
  <2>2. Alike(s, p, t, q, k)
    BY <1>2, <2>1, Zenon DEF SameRest, Alike
  <2>3. QED BY <2>2, SameCut
<1>3. ASSUME NEW k \in Nat PROVE p + k <= Len(s) <=> q + k <= Len(t)
  BY <1>1 DEF SameRest
<1>4. ASSUME NEW k PROVE k \in Verified(s, p) <=> k \in Verified(t, q)
  <2>1. CASE k \in Nat /\ p + k <= Len(s)
    <3>1. q + k <= Len(t) /\ Cut(s, p, k) = Cut(t, q, k)
      BY <1>2, <1>3, <2>1
    <3>2. QED BY <2>1, <3>1, VerifiedIs
  <2>2. CASE ~(k \in Nat /\ p + k <= Len(s))
    BY <1>3, <2>2, VerifiedIs
  <2>3. QED BY <2>1, <2>2
<1>5. LegalAt(s, p) <=> LegalAt(t, q)
  BY <1>1 DEF LegalAt, SameRest, Alike
<1>6. Verified(s, p) = Verified(t, q)
  BY <1>4 DEF Verified
<1>7. QED BY <1>2, <1>5, <1>6, VerifiedIs

\* What has been seen of a string is not changed by what comes behind it.
Continues(t, s) == Len(s) <= Len(t) /\ \A i \in 1..Len(s) : t[i] = s[i]

LEMMA CutLonger ==
    ASSUME NEW s \in Seq(Byte), NEW t \in Seq(Byte), Continues(t, s),
           NEW p \in Nat, NEW k \in Nat, p + k <= Len(s)
    PROVE  Cut(t, p, k) = Cut(s, p, k) /\ p + k <= Len(t)
<1>1. Alike(s, p, t, p, k)
  BY LenProperties DEF Alike, Continues
<1>2. QED BY <1>1, SameCut DEF Alike

LEMMA VerifiedLonger ==
    ASSUME NEW s \in Seq(Byte), NEW t \in Seq(Byte), Continues(t, s), NEW p \in Nat, NEW k
    PROVE  /\ k \in Verified(s, p) <=> k \in Verified(t, p) /\ p + k <= Len(s)
           /\ k \in Verified(s, p) => Cut(t, p, k) = Cut(s, p, k)
<1>1. k \in Nat /\ p + k <= Len(s) => Cut(t, p, k) = Cut(s, p, k) /\ p + k <= Len(t)
  BY CutLonger
<1>2. QED BY <1>1, VerifiedIs

LEMMA NoiseAtLonger ==
    ASSUME NEW s \in Seq(Byte), NEW t \in Seq(Byte), Continues(t, s), NEW p \in Nat, NoiseAt(s, p)
    PROVE  NoiseAt(t, p)
<1>1. /\ Len(s) \in Nat /\ Len(t) \in Nat /\ Len(s) <= Len(t)
      /\ p < Len(s) /\ t[p + 1] = s[p + 1]
  BY LenProperties DEF NoiseAt, Continues
<1>2. ASSUME LegalAt(t, p)
      PROVE  Verified(t, p) = {} /\ Len(t) - p >= max_frame_len_
  <2>1. Verified(s, p) = {} /\ Len(s) - p >= max_frame_len_
    BY <1>1, <1>2 DEF NoiseAt, LegalAt
  <2>2. \A k \in Verified(t, p) : p + k <= Len(s)
    BY <1>1, <2>1, CodecParameters, VerifiedIs
  <2>3. QED BY <1>1, <2>1, <2>2, VerifiedLonger, CodecParameters
<1>3. QED BY <1>1, <1>2 DEF NoiseAt

LEMMA FrameAtLonger ==
    ASSUME NEW s \in Seq(Byte), NEW t \in Seq(Byte), Continues(t, s), NEW p \in Nat, NEW k, FrameAt(s, p, k)
    PROVE  FrameAt(t, p, k) /\ Cut(t, p, k) = Cut(s, p, k)
<1>1. /\ Len(s) \in Nat /\ Len(t) \in Nat /\ Len(s) <= Len(t)
      /\ p < Len(s) /\ t[p + 1] = s[p + 1]
  BY LenProperties DEF FrameAt, LegalAt, Continues
<1>2. /\ k \in Verified(t, p) /\ p + k <= Len(s) /\ k \in Nat
      /\ Cut(t, p, k) = Cut(s, p, k)
  BY VerifiedLonger, VerifiedIs DEF FrameAt
<1>3. ASSUME NEW j \in Verified(t, p) PROVE k <= j
  <2>1. j \in Nat
    BY CodecParameters, VerifiedIs
  <2>2. CASE p + j <= Len(s)
    BY <2>2, VerifiedLonger DEF FrameAt
  <2>3. QED BY <1>1, <1>2, <2>1, <2>2
<1>4. QED BY <1>1, <1>2, <1>3 DEF FrameAt, LegalAt

-----------------------------------------------------------------------------
(* The places of the frames, and one step of the scan.                     *)

Place == [from : Nat, to : Nat]

LEMMA EndIs ==
    ASSUME NEW at_ \in Seq(Place)
    PROVE  /\ Len(at_) \in Nat
           /\ \A i \in 0..Len(at_) : End(at_, i) \in Nat
           /\ \A i \in 1..Len(at_) : at_[i] \in Place /\ at_[i].from \in Nat /\ at_[i].to \in Nat
<1>1. Len(at_) \in Nat /\ \A i \in 1..Len(at_) : at_[i] \in Place
  BY LenProperties, ElementOfSeq
<1>2. QED BY <1>1 DEF End, Place

LEMMA CoversLonger ==
    ASSUME NEW s \in Seq(Byte), NEW t \in Seq(Byte), Continues(t, s), NEW at_ \in Seq(Place), NEW e \in Nat,
           Covers(s, at_, e)
    PROVE  Covers(t, at_, e) /\ FramesOf(t, at_) = FramesOf(s, at_)
<1>1. ASSUME NEW p \in Nat, NEW q \in Nat, AllNoise(s, p, q) PROVE AllNoise(t, p, q)
  <2>1. \A r \in p..q - 1 : r \in Nat
    OBVIOUS
  <2>2. QED BY <1>1, <2>1, NoiseAtLonger DEF AllNoise
<1>2. AllNoise(t, End(at_, Len(at_)), e)
  BY <1>1, EndIs DEF Covers
<1>3. ASSUME NEW i \in 1..Len(at_)
      PROVE  /\ AllNoise(t, End(at_, i - 1), at_[i].from)
             /\ at_[i].from < at_[i].to /\ FrameAt(t, at_[i].from, at_[i].to - at_[i].from)
             /\ Cut(t, at_[i].from, at_[i].to - at_[i].from) = Cut(s, at_[i].from, at_[i].to - at_[i].from)
  <2> DEFINE p == at_[i].from
             k == at_[i].to - at_[i].from
  <2>1. /\ End(at_, i - 1) \in Nat /\ p \in Nat /\ at_[i].from < at_[i].to
        /\ AllNoise(s, End(at_, i - 1), p) /\ FrameAt(s, p, k)
    <3>1. i - 1 \in 0..Len(at_)
      BY EndIs
    <3>2. QED BY <3>1, EndIs DEF Covers
  <2> HIDE DEF p, k
  <2>2. FrameAt(t, p, k) /\ Cut(t, p, k) = Cut(s, p, k)
    BY <2>1, FrameAtLonger
  <2>3. AllNoise(t, End(at_, i - 1), p)
    BY <1>1, <2>1
  <2>4. QED BY <2>1, <2>2, <2>3 DEF p, k
<1>4. QED BY <1>2, <1>3 DEF Covers, FramesOf

LEMMA CoversNoise ==
    ASSUME NEW s \in Seq(Byte), NEW at_ \in Seq(Place), NEW e \in Nat, Covers(s, at_, e), NoiseAt(s, e)
    PROVE  Covers(s, at_, e + 1)
<1>1. End(at_, Len(at_)) \in Nat
  BY EndIs
<1>2. AllNoise(s, End(at_, Len(at_)), e + 1)
  BY <1>1 DEF Covers, AllNoise
<1>3. QED BY <1>2 DEF Covers

LEMMA CoversFrame ==
    ASSUME NEW s \in Seq(Byte), NEW at_ \in Seq(Place), NEW e \in Nat, NEW k \in Nat, k > 0,
           Covers(s, at_, e), FrameAt(s, e, k),
           NEW more, more = Append(at_, [from |-> e, to |-> e + k])
    PROVE  /\ more \in Seq(Place) /\ Covers(s, more, e + k)
           /\ FramesOf(s, more) = Append(FramesOf(s, at_), Decoded(Cut(s, e, k)))
<1> DEFINE f == [from |-> e, to |-> e + k]
<1>1. f \in Place /\ f.from = e /\ f.to = e + k /\ f.to - f.from = k
  BY DEF Place
<1> HIDE DEF f
<1>2. /\ more \in Seq(Place) /\ Len(more) = Len(at_) + 1 /\ Len(at_) \in Nat
      /\ \A i \in 1..Len(at_) : more[i] = at_[i]
      /\ more[Len(at_) + 1] = f
  BY <1>1, AppendProperties, LenProperties DEF f
<1>3. \A i \in 0..Len(at_) : End(more, i) = End(at_, i)
  BY <1>2 DEF End
<1>4. End(more, Len(more)) = e + k
  BY <1>1, <1>2 DEF End
<1>5. ASSUME NEW i \in 1..Len(more)
      PROVE  /\ AllNoise(s, End(more, i - 1), more[i].from)
             /\ more[i].from < more[i].to /\ FrameAt(s, more[i].from, more[i].to - more[i].from)
  <2>1. CASE i <= Len(at_)
    <3>1. i \in 1..Len(at_) /\ more[i] = at_[i] /\ End(more, i - 1) = End(at_, i - 1)
      BY <1>2, <1>3, <2>1
    <3>2. QED BY <3>1 DEF Covers
  <2>2. CASE i = Len(at_) + 1
    <3>1. more[i] = f /\ End(more, i - 1) = End(at_, Len(at_))
      BY <1>2, <1>3, <2>2
    <3>2. QED BY <1>1, <3>1 DEF Covers
  <2>3. QED BY <1>2, <2>1, <2>2
<1>6. AllNoise(s, e + k, e + k)
  BY DEF AllNoise
<1>7. Covers(s, more, e + k)
  BY <1>4, <1>5, <1>6 DEF Covers
<1>8. FramesOf(s, more) = Append(FramesOf(s, at_), Decoded(Cut(s, e, k)))
  BY <1>1, <1>2 DEF FramesOf
<1>9. QED BY <1>2, <1>7, <1>8

-----------------------------------------------------------------------------
(* The stream: the buffer is the end of what has been fed since the flush, *)
(* and what the scan has dealt with has been cut as the reference cuts it. *)

BufferWhere ==
    /\ since \in Seq(Byte) /\ unread \in Seq(Byte)
    /\ Len(buffer_) <= Len(since)
    /\ SameRest(buffer_, 0, since, Len(since) - Len(buffer_))

FramesWhere ==
    /\ places \in Seq(Place) /\ got = FramesOf(since, places)
    /\ Covers(since, places, Dealt)

StreamInv == CodecInv /\ BufferWhere /\ FramesWhere /\ ChunkingInvisible

LEMMA Lengths ==
    ASSUME StreamInv
    PROVE  /\ Len(buffer_) \in Nat /\ Len(since) \in Nat /\ pos \in Nat /\ Dealt \in Nat
           /\ pos <= Len(buffer_) /\ Len(buffer_) <= Len(since) /\ Dealt <= Len(since)
           /\ Len(buffer_) - pos = Len(since) - Dealt
           /\ buffer_ \in Seq(Byte) /\ since \in Seq(Byte)
<1>1. buffer_ \in Seq(Byte) /\ since \in Seq(Byte) /\ pos \in 0..Len(buffer_)
      /\ Len(buffer_) <= Len(since)
  BY DEF StreamInv, BufferWhere, CodecInv, TypeOK
<1>2. Len(buffer_) \in Nat /\ Len(since) \in Nat
  BY <1>1, LenProperties
<1>3. QED BY <1>1, <1>2 DEF Dealt

\* What the scan sees of its buffer is what the reference sees of the whole.
LEMMA BufferView ==
    ASSUME StreamInv
    PROVE  /\ LegalAt(buffer_, pos) <=> LegalAt(since, Dealt)
           /\ Matches = Verified(since, Dealt)
           /\ \A k \in Matches : Candidate(k) = Cut(since, Dealt, k)
<1> DEFINE d == Dealt
<1>1. \A i \in 1..Len(buffer_) - pos : buffer_[pos + i] = since[d + i]
  <2>1. SUFFICES ASSUME NEW i \in 1..Len(buffer_) - pos PROVE buffer_[pos + i] = since[d + i]
    OBVIOUS
  <2>2. /\ pos + i \in 1..Len(buffer_) /\ 0 + (pos + i) = pos + i
        /\ Len(since) - Len(buffer_) + (pos + i) = d + i
    BY Lengths DEF Dealt
  <2>3. \A j \in 1..Len(buffer_) - 0 : buffer_[0 + j] = since[Len(since) - Len(buffer_) + j]
    BY DEF StreamInv, BufferWhere, SameRest, Alike
  <2>4. Len(buffer_) - 0 = Len(buffer_)
    BY Lengths
  <2>5. QED BY <2>2, <2>3, <2>4
<1>2. SameRest(buffer_, pos, since, d)
  BY <1>1, Lengths DEF SameRest, Alike
<1>3. d \in Nat /\ pos \in Nat /\ buffer_ \in Seq(Byte) /\ since \in Seq(Byte)
  BY Lengths
<1> HIDE DEF d
<1>4. /\ LegalAt(buffer_, pos) <=> LegalAt(since, d)
      /\ Verified(buffer_, pos) = Verified(since, d)
      /\ \A k \in Verified(buffer_, pos) : Cut(buffer_, pos, k) = Cut(since, d, k)
  BY <1>2, <1>3, SameScan
<1>5. Matches = Verified(buffer_, pos)
  <2>1. \A k \in kMinFrameLen..max_frame_len_ : k <= n - pos <=> pos + k <= Len(buffer_)
    BY Lengths, CodecParameters DEF n, kMinFrameLen
  <2>2. QED BY <2>1 DEF Matches, Verified, Candidate, Cut
<1>6. QED BY <1>4, <1>5 DEF Candidate, Cut, d

LEMMA LegalStartIs ==
    ASSUME CodecInv, pos < n
    PROVE  LegalStart <=> LegalAt(buffer_, pos)
<1>1. pos \in Nat /\ n \in Nat /\ pos + 1 \in 1..Len(buffer_)
  BY LenProperties DEF CodecInv, TypeOK, n
<1>2. buffer_[pos + 1] \in Byte
  BY <1>1, ElementOfSeq DEF CodecInv, TypeOK
<1> DEFINE b == buffer_[pos + 1]
<1>3. b >= kMinStation /\ b <= kMaxStation <=> b \in kMinStation..kMaxStation
  BY <1>2 DEF Byte, kMinStation, kMaxStation
<1>4. QED BY <1>3 DEF LegalStart, LegalAt, n

LEMMA DropByteKeepsStream ==
    ASSUME StreamInv, at = "scan", pos < n, DropByte, UNCHANGED <<stream, unread, since, got, places>>,
           LegalStart => Matches = {} /\ n - pos >= max_frame_len_
    PROVE  StreamInv'
<1>1. CodecInv'
  BY DropByteKeeps DEF StreamInv
<1>2. at' # "idle" /\ buffer_' = buffer_ /\ pos' = pos + 1
  BY DEF DropByte
<1>3. Dealt' = Dealt + 1
  BY <1>2, Lengths DEF Dealt
<1>4. NoiseAt(since, Dealt)
  <2>1. LegalStart <=> LegalAt(since, Dealt)
    BY LegalStartIs, BufferView DEF StreamInv
  <2>2. n - pos = Len(since) - Dealt /\ Dealt < Len(since)
    BY Lengths DEF n
  <2>3. QED BY <2>1, <2>2, BufferView DEF NoiseAt
<1>5. Covers(since, places, Dealt + 1)
  BY <1>4, Lengths, CoversNoise DEF StreamInv, FramesWhere
<1>6. BufferWhere'
  BY <1>2 DEF StreamInv, BufferWhere, SameRest, Alike
<1>7. FramesWhere'
  BY <1>3, <1>5 DEF StreamInv, FramesWhere
<1>8. QED BY <1>1, <1>2, <1>6, <1>7 DEF StreamInv, ChunkingInvisible

LEMMA TakeFrameKeepsStream ==
    ASSUME StreamInv, TakeFrame, UNCHANGED <<stream, unread, since>>,
           got' = Append(got, frames'[Len(frames')]),
           places' = Append(places, [from |-> Dealt, to |-> Dealt + (pos' - pos)])
    PROVE  StreamInv'
<1>1. CodecInv'
  BY TakeFrameKeeps DEF StreamInv
<1>2. PICK flen \in Matches : /\ \A longer \in Matches : flen <= longer
                              /\ frames' = Append(frames, Decoded(Candidate(flen)))
                              /\ pos' = pos + flen
  BY DEF TakeFrame
<1>3. at = "scan" /\ at' = at /\ buffer_' = buffer_ /\ pos < n /\ LegalStart
  BY DEF TakeFrame
<1>4. flen \in Nat /\ flen > 0 /\ Decoded(Candidate(flen)) \in DecodedFrame
  BY MatchWithinBuffer DEF StreamInv, CodecInv, kMinFrameLen
<1>5. pos' - pos = flen /\ Dealt' = Dealt + flen
  <2>1. pos' = pos + flen /\ buffer_' = buffer_ /\ since' = since
    BY <1>2, <1>3
  <2>2. pos \in Nat /\ Len(buffer_) \in Nat /\ Len(since) \in Nat
    BY Lengths
  <2>3. Len(buffer_') = Len(buffer_) /\ Len(since') = Len(since)
    BY <2>1
  <2>4. pos' - pos = flen
    BY <1>4, <2>1, <2>2
  <2>5. Len(since') - Len(buffer_') + pos' = (Len(since) - Len(buffer_) + pos) + flen
    BY <1>4, <2>1, <2>2, <2>3
  <2>6. QED BY <2>4, <2>5 DEF Dealt
<1>6. frames'[Len(frames')] = Decoded(Cut(since, Dealt, flen))
  <2>1. frames'[Len(frames')] = Decoded(Candidate(flen))
    BY <1>2, <1>4, AppendProperties, LenProperties DEF StreamInv, CodecInv, TypeOK
  <2>2. QED BY <2>1, BufferView
<1>7. FrameAt(since, Dealt, flen)
  BY <1>2, <1>3, BufferView, LegalStartIs DEF FrameAt, StreamInv
<1> DEFINE d == Dealt
<1>8. /\ places' \in Seq(Place) /\ Covers(since, places', d + flen)
      /\ FramesOf(since, places') = Append(FramesOf(since, places), Decoded(Cut(since, d, flen)))
  <2>1. /\ d \in Nat /\ since \in Seq(Byte) /\ places \in Seq(Place) /\ Covers(since, places, d)
        /\ places' = Append(places, [from |-> d, to |-> d + flen]) /\ FrameAt(since, d, flen)
    BY <1>5, <1>7, Lengths DEF StreamInv, FramesWhere
  <2> HIDE DEF d
  <2>2. QED BY <1>4, <2>1, CoversFrame
<1>9. FramesWhere'
  BY <1>5, <1>6, <1>8 DEF StreamInv, FramesWhere
<1>10. BufferWhere'
  BY <1>3 DEF StreamInv, BufferWhere, SameRest, Alike
<1>11. QED BY <1>1, <1>3, <1>9, <1>10 DEF StreamInv, ChunkingInvisible

\* The call returns, and no more of the string is a frame or noise.
LEMMA EndFeedKeepsStream ==
    ASSUME StreamInv, EndFeed, UNCHANGED <<stream, unread, since, got, places>>,
           pos = n \/ (pos < n /\ LegalStart /\ Matches = {} /\ n - pos < max_frame_len_)
    PROVE  StreamInv'
<1>1. CodecInv'
  BY EndFeedKeeps DEF StreamInv
<1>2. pos' = 0 /\ buffer_' = SubSeq(buffer_, pos + 1, Len(buffer_))
  BY DEF EndFeed, n
<1>3. /\ Len(buffer_') = Len(buffer_) - pos
      /\ \A i \in 1..Len(buffer_) - pos : buffer_'[i] = buffer_[pos + i]
  BY <1>2, Lengths, CutBytes
<1>4. Dealt' = Dealt
  BY <1>2, <1>3, Lengths DEF Dealt
<1>5. BufferWhere'
  <2>1. since' \in Seq(Byte) /\ unread' \in Seq(Byte) /\ Len(buffer_') <= Len(since') /\ Len(buffer_') \in Nat
    BY <1>3, Lengths DEF StreamInv, BufferWhere
  <2>2. \A j \in 1..Len(buffer_) : buffer_[0 + j] = since[Len(since) - Len(buffer_) + j]
    <3>1. Len(buffer_) - 0 = Len(buffer_)
      BY Lengths
    <3>2. QED BY <3>1 DEF StreamInv, BufferWhere, SameRest, Alike
  <2>3. ASSUME NEW i \in 1..Len(buffer_') PROVE buffer_'[0 + i] = since'[Len(since') - Len(buffer_') + i]
    <3>1. /\ pos + i \in 1..Len(buffer_) /\ 0 + (pos + i) = pos + i /\ 0 + i = i
          /\ Len(since) - Len(buffer_) + (pos + i) = Len(since) - Len(buffer_') + i
          /\ i \in 1..Len(buffer_) - pos
      BY <1>3, Lengths
    <3>2. QED BY <1>3, <2>2, <3>1
  <2>4. SameRest(buffer_', 0, since', Len(since') - Len(buffer_'))
    BY <1>3, <2>1, <2>3, Lengths DEF SameRest, Alike
  <2>5. QED BY <2>1, <2>4 DEF BufferWhere
<1>6. FramesWhere'
  BY <1>4 DEF StreamInv, FramesWhere
<1>7. ~NoiseAt(since, Dealt) /\ \A k \in Verified(since, Dealt) : ~FrameAt(since, Dealt, k)
  <2>1. CASE pos = n
    BY <2>1, Lengths DEF n, NoiseAt, FrameAt, LegalAt
  <2>2. CASE pos < n /\ LegalStart /\ Matches = {} /\ n - pos < max_frame_len_
    <3>1. LegalAt(since, Dealt) /\ Verified(since, Dealt) = {}
      BY <2>2, BufferView, LegalStartIs DEF StreamInv
    <3>2. ~(Len(since) - Dealt >= max_frame_len_)
      BY <2>2, Lengths, CodecParameters DEF n
    <3>3. QED BY <3>1, <3>2 DEF NoiseAt
  <2>3. QED BY <2>1, <2>2
<1>8. CoversAll(since, places, Dealt)
  BY <1>7, Lengths DEF StreamInv, FramesWhere, CoversAll
<1>9. ChunkingInvisible'
  BY <1>4, <1>8 DEF StreamInv, FramesWhere, ChunkingInvisible
<1>10. QED BY <1>1, <1>5, <1>6, <1>9 DEF StreamInv

LEMMA NothingCovered ==
    CoversAll(<<>>, <<>>, 0) /\ FramesOf(<<>>, <<>>) = <<>>
  BY DEF CoversAll, Covers, FramesOf, AllNoise, NoiseAt, FrameAt, LegalAt, End

\* A string of its own begins: at the start, and behind a flush.
LEMMA EmptyStream ==
    ASSUME buffer_' = <<>>, pos' = 0, since' = <<>>, got' = <<>>, places' = <<>>, unread' \in Seq(Byte)
    PROVE  BufferWhere' /\ FramesWhere' /\ ChunkingInvisible'
<1>1. Dealt' = 0 /\ <<>> \in Seq(Byte) /\ <<>> \in Seq(Place) /\ Len(<<>>) = 0
  BY EmptySeq DEF Dealt
<1>2. CoversAll(since', places', Dealt') /\ got' = FramesOf(since', places')
  BY <1>1, NothingCovered
<1>3. BufferWhere'
  BY <1>1 DEF BufferWhere, SameRest, Alike
<1>4. QED BY <1>1, <1>2, <1>3 DEF FramesWhere, ChunkingInvisible, CoversAll

LEMMA DeliverKeepsStream ==
    ASSUME StreamInv, Deliver
    PROVE  StreamInv'
<1>1. PICK k \in 1..Len(unread) :
          /\ Cut(unread, 0, k) \in Chunks /\ Feed(Cut(unread, 0, k))
          /\ unread' = SubSeq(unread, k + 1, Len(unread))
          /\ since' = since \o Cut(unread, 0, k)
          /\ UNCHANGED <<stream, got, places>>
  BY DEF Deliver
<1> DEFINE c == Cut(unread, 0, k)
<1> HIDE DEF c
<1>2. c \in Seq(Byte) /\ Len(c) \in Nat
  BY <1>1, CodecParameters, LenProperties DEF c
<1>3. buffer_' = buffer_ \o c /\ since' = since \o c /\ pos' = 0 /\ pos = 0 /\ at' = "scan"
  BY <1>1 DEF c, Feed, StreamInv, CodecInv
<1>4. CodecInv'
  BY <1>1, FeedKeeps DEF StreamInv
<1>5. /\ buffer_' \in Seq(Byte) /\ Len(buffer_') = Len(buffer_) + Len(c)
      /\ \A i \in 1..Len(buffer_) + Len(c) :
            buffer_'[i] = IF i <= Len(buffer_) THEN buffer_[i] ELSE c[i - Len(buffer_)]
  BY <1>2, <1>3, Lengths, ConcatProperties
<1>6. /\ since' \in Seq(Byte) /\ Len(since') = Len(since) + Len(c)
      /\ \A i \in 1..Len(since) + Len(c) :
            since'[i] = IF i <= Len(since) THEN since[i] ELSE c[i - Len(since)]
  BY <1>2, <1>3, Lengths, ConcatProperties
<1>7. Dealt' = Dealt
  BY <1>2, <1>3, <1>5, <1>6, Lengths DEF Dealt
<1>8. BufferWhere'
  <2>1. unread' \in Seq(Byte)
    BY <1>1, LenProperties, CutBytes DEF StreamInv, BufferWhere
  <2>2. \A j \in 1..Len(buffer_) : buffer_[j] = since[Len(since) - Len(buffer_) + j]
    <3>1. Len(buffer_) - 0 = Len(buffer_) /\ \A j \in 1..Len(buffer_) : 0 + j = j
      BY Lengths
    <3>2. QED BY <3>1 DEF StreamInv, BufferWhere, SameRest, Alike
  <2>3. ASSUME NEW i \in 1..Len(buffer_') PROVE buffer_'[0 + i] = since'[Len(since') - Len(buffer_') + i]
    <3> DEFINE j == Len(since') - Len(buffer_') + i
    <3>1. /\ 0 + i = i /\ i \in 1..Len(buffer_) + Len(c) /\ j \in 1..Len(since) + Len(c)
          /\ i <= Len(buffer_) <=> j <= Len(since)
          /\ i - Len(buffer_) = j - Len(since)
          /\ j = Len(since) - Len(buffer_) + i
      BY <1>2, <1>5, <1>6, Lengths
    <3>2. since'[j] = IF j <= Len(since) THEN since[j] ELSE c[j - Len(since)]
      BY <1>6, <3>1
    <3>3. buffer_'[i] = IF i <= Len(buffer_) THEN buffer_[i] ELSE c[i - Len(buffer_)]
      BY <1>5, <3>1
    <3> HIDE DEF j
    <3>4. CASE i <= Len(buffer_)
      <4>1. buffer_[i] = since[j]
        BY <2>2, <3>1, <3>4, Lengths
      <4>2. QED BY <3>1, <3>2, <3>3, <3>4, <4>1 DEF j
    <3>5. CASE ~(i <= Len(buffer_))
      BY <3>1, <3>2, <3>3, <3>5 DEF j
    <3>6. QED BY <3>4, <3>5
  <2>4. Len(buffer_') <= Len(since') /\ Len(buffer_') \in Nat /\ Len(since') \in Nat
    BY <1>2, <1>5, <1>6, Lengths
  <2>5. SameRest(buffer_', 0, since', Len(since') - Len(buffer_'))
    BY <2>3, <2>4 DEF SameRest, Alike
  <2>6. QED BY <1>6, <2>1, <2>4, <2>5 DEF BufferWhere
<1>9. FramesWhere'
  <2>1. Continues(since', since)
    BY <1>2, <1>6, Lengths DEF Continues
  <2>2. Covers(since', places, Dealt) /\ FramesOf(since', places) = FramesOf(since, places)
    BY <1>6, <2>1, Lengths, CoversLonger DEF StreamInv, FramesWhere
  <2>3. places' = places /\ got' = got
    BY <1>1
  <2>4. QED BY <1>7, <2>2, <2>3 DEF StreamInv, FramesWhere
<1>10. QED BY <1>3, <1>4, <1>8, <1>9 DEF StreamInv, ChunkingInvisible

LEMMA InitStreamInv == StreamInit => StreamInv
<1> SUFFICES ASSUME StreamInit PROVE StreamInv
  OBVIOUS
<1>1. CodecInv
  BY InitCodecInv DEF StreamInit
<1>2. /\ buffer_ = <<>> /\ pos = 0 /\ since = <<>> /\ got = <<>> /\ places = <<>>
      /\ unread \in Seq(Byte)
  BY StreamParameters DEF StreamInit, Init
<1>3. Dealt = 0 /\ <<>> \in Seq(Byte) /\ <<>> \in Seq(Place) /\ Len(<<>>) = 0
  BY <1>2, EmptySeq DEF Dealt
<1>4. CoversAll(since, places, Dealt) /\ got = FramesOf(since, places)
  BY <1>2, <1>3, NothingCovered
<1>5. BufferWhere
  BY <1>2, <1>3 DEF BufferWhere, SameRest, Alike
<1>6. QED BY <1>1, <1>2, <1>3, <1>4, <1>5 DEF StreamInv, FramesWhere, ChunkingInvisible, CoversAll

LEMMA StreamNextKeeps == StreamInv /\ [StreamNext]_streamVars => StreamInv'
<1> SUFFICES ASSUME StreamInv, [StreamNext]_streamVars PROVE StreamInv'
  OBVIOUS
<1>1. CASE Deliver
  BY <1>1, DeliverKeepsStream
<1>2. CASE Decoding
  <2>1. CASE TakeFrame /\ got' = Append(got, frames'[Len(frames')])
             /\ places' = Append(places, [from |-> Dealt, to |-> Dealt + (pos' - pos)])
    BY <1>2, <2>1, TakeFrameKeepsStream DEF Decoding
  <2>2. CASE SkipIllegalStart /\ UNCHANGED <<got, places>>
    BY <1>2, <2>2, DropByteKeepsStream DEF Decoding, SkipIllegalStart
  <2>3. CASE SlideNoise /\ UNCHANGED <<got, places>>
    BY <1>2, <2>3, DropByteKeepsStream DEF Decoding, SlideNoise
  <2>4. CASE KeepPartial /\ UNCHANGED <<got, places>>
    BY <1>2, <2>4, EndFeedKeepsStream DEF Decoding, KeepPartial
  <2>5. CASE ScanDone /\ UNCHANGED <<got, places>>
    BY <1>2, <2>5, EndFeedKeepsStream DEF Decoding, ScanDone
  <2>6. QED BY <1>2, <2>1, <2>2, <2>3, <2>4, <2>5 DEF Decoding
<1>3. CASE Flush
  <2>1. CodecInv' /\ pos = 0
    BY <1>3, FlushKeeps DEF Flush, flush_partial, StreamInv, CodecInv
  <2>2. BufferWhere' /\ FramesWhere' /\ ChunkingInvisible'
    BY <1>3, <2>1, EmptyStream DEF Flush, flush_partial, StreamInv, BufferWhere
  <2>3. QED BY <2>1, <2>2 DEF StreamInv
<1>4. CASE UNCHANGED streamVars
  <2>1. UNCHANGED vars /\ UNCHANGED <<since, unread, got, places>>
    BY <1>4 DEF streamVars
  <2>2. CodecInv'
    BY <2>1, NextKeeps DEF StreamInv
  <2>3. UNCHANGED <<at, buffer_, pos>>
    BY <2>1 DEF vars
  <2>4. Dealt' = Dealt
    BY <2>1, <2>3 DEF Dealt
  <2>5. QED BY <2>1, <2>2, <2>3, <2>4 DEF StreamInv, BufferWhere, FramesWhere, ChunkingInvisible
<1>5. QED BY <1>1, <1>2, <1>3, <1>4 DEF StreamNext

\* The codec does with the stream what it does on its own.
THEOREM StreamImplementsCodec == StreamSpec => Spec
<1>1. StreamInit => Init
  BY DEF StreamInit
<1>2. [StreamNext]_streamVars => [Next]_vars
  BY DEF StreamNext, Deliver, Decoding, Flush, Next, Scan, streamVars
<1>3. QED BY <1>1, <1>2, PTL DEF StreamSpec, Spec

\* However the bytes since the last flush were cut into reads, the frames decoded are
\* those the reference finds in the whole string (modbus_frame_codec.hpp:38-46).
THEOREM ChunkingAlwaysInvisible == StreamSpec => []ChunkingInvisible
<1>1. StreamInv => ChunkingInvisible
  BY DEF StreamInv
<1>2. QED BY <1>1, InitStreamInv, StreamNextKeeps, PTL DEF StreamSpec

-----------------------------------------------------------------------------
(* The reference has one answer, and it is exact.                          *)

\* Two stretches of noise from the same place end at the same place, if neither goes on.
LEMMA NoiseEnds ==
    ASSUME NEW s, NEW p \in Nat, NEW q \in Nat, NEW r \in Nat,
           AllNoise(s, p, q), AllNoise(s, p, r), ~NoiseAt(s, q), ~NoiseAt(s, r)
    PROVE  q = r
  BY DEF AllNoise

LEMMA FrameIsNoNoise ==
    ASSUME NEW s, NEW p, NEW k, FrameAt(s, p, k)
    PROVE  ~NoiseAt(s, p)
  BY DEF FrameAt, NoiseAt

\* The first frame of one covering that is not in another would be where the other one
\* has noise, or stops.
LEMMA CoveringBegins ==
    ASSUME NEW s \in Seq(Byte), NEW a \in Seq(Place), NEW b \in Seq(Place), NEW e \in Nat, NEW f \in Nat,
           Covers(s, a, e), CoversAll(s, b, f)
    PROVE  Len(a) <= Len(b) /\ \A i \in 1..Len(a) : a[i] = b[i]
<1> DEFINE T == {i \in 1..Len(a) : i > Len(b) \/ a[i] # b[i]}
<1>1. Len(a) \in Nat /\ Len(b) \in Nat
  BY EndIs
<1>2. SUFFICES ASSUME T # {} PROVE FALSE
  <2>1. SUFFICES ASSUME T = {} PROVE Len(a) <= Len(b) /\ \A i \in 1..Len(a) : a[i] = b[i]
    OBVIOUS
  <2>2. \A i \in 1..Len(a) : ~(i > Len(b)) /\ a[i] = b[i]
    BY <2>1
  <2>3. Len(a) > Len(b) => Len(a) \in 1..Len(a)
    BY <1>1
  <2>4. QED BY <1>1, <2>2, <2>3
<1>3. PICK m \in T : \A k \in T : m <= k
  <2>1. T \in SUBSET Nat
    BY <1>1
  <2> HIDE DEF T
  <2>2. QED BY <1>2, <2>1, LeastNumber
<1>4. m \in 1..Len(a) /\ m \in Nat /\ m - 1 \in 0..Len(a) /\ m - 1 \in Nat
  BY <1>1
<1>5. m - 1 <= Len(b) /\ (m - 1 = 0 \/ a[m - 1] = b[m - 1])
  <2>1. CASE m - 1 = 0
    BY <1>1, <2>1
  <2>2. CASE m - 1 # 0
    <3>1. m - 1 \in 1..Len(a) /\ ~(m <= m - 1)
      BY <1>4, <2>2
    <3>2. m - 1 \notin T
      BY <1>3, <3>1
    <3>3. QED BY <1>1, <1>4, <3>1, <3>2
  <2>3. QED BY <2>1, <2>2
<1> DEFINE p == End(a, m - 1)
           q == a[m].from
           k == a[m].to - a[m].from
<1>6. p \in Nat /\ End(b, m - 1) = p
  BY <1>4, <1>5, EndIs DEF End
<1>7. /\ q \in Nat /\ a[m].to \in Nat /\ a[m] \in Place
      /\ AllNoise(s, p, q) /\ FrameAt(s, q, k)
  BY <1>4, EndIs DEF Covers
<1>8. CASE m <= Len(b)
  <2> DEFINE r == b[m].from
             l == b[m].to - b[m].from
  <2>1. m \in 1..Len(b)
    BY <1>4, <1>8
  <2>2. /\ r \in Nat /\ b[m].to \in Nat /\ b[m] \in Place
        /\ AllNoise(s, p, r) /\ FrameAt(s, r, l)
    BY <1>6, <2>1, EndIs DEF Covers, CoversAll
  <2>3. q = r
    <3> HIDE DEF p, q, r, k, l
    <3>1. QED BY <1>6, <1>7, <2>2, NoiseEnds, FrameIsNoNoise
  <2>4. k \in Verified(s, q) /\ l \in Verified(s, q) /\ k <= l /\ l <= k
    BY <1>7, <2>2, <2>3 DEF FrameAt
  <2>5. a[m].to = b[m].to
    <3>1. q \in Nat /\ r = q /\ a[m].to \in Nat /\ b[m].to \in Nat
      BY <1>7, <2>2, <2>3
    <3>2. a[m].to - q <= b[m].to - r /\ b[m].to - r <= a[m].to - q
      BY <2>4
    <3> HIDE DEF q, r, k, l
    <3>3. QED BY <3>1, <3>2
  <2>6. a[m] = b[m]
    <3>1. a[m] = [from |-> q, to |-> a[m].to] /\ b[m] = [from |-> r, to |-> b[m].to]
      BY <1>7, <2>2 DEF Place
    <3>2. QED BY <2>3, <2>5, <3>1
  <2>7. QED BY <1>1, <1>4, <1>8, <2>6
<1>9. CASE ~(m <= Len(b))
  <2>1. m - 1 = Len(b)
    BY <1>1, <1>4, <1>5, <1>9
  <2>2. AllNoise(s, p, f) /\ ~NoiseAt(s, f)
    BY <1>6, <2>1 DEF CoversAll, Covers
  <2>3. q = f
    <3> HIDE DEF p, q, k
    <3>1. QED BY <1>6, <1>7, <2>2, NoiseEnds, FrameIsNoNoise
  <2>4. k \in Verified(s, f) /\ FrameAt(s, f, k)
    BY <1>7, <2>3 DEF FrameAt
  <2>5. QED BY <2>4 DEF CoversAll
<1>10. QED BY <1>8, <1>9

\* A byte string is cut in one way.
THEOREM OneCovering ==
    ASSUME NEW s \in Seq(Byte), NEW a \in Seq(Place), NEW b \in Seq(Place), NEW e \in Nat, NEW f \in Nat,
           CoversAll(s, a, e), CoversAll(s, b, f)
    PROVE  a = b /\ e = f
<1>1. Len(a) <= Len(b) /\ \A i \in 1..Len(a) : a[i] = b[i]
  BY CoveringBegins DEF CoversAll
<1>2. Len(b) <= Len(a)
  BY CoveringBegins DEF CoversAll
<1>3. a = b
  <2>1. Len(a) = Len(b)
    BY <1>1, <1>2, EndIs
  <2>2. QED BY <1>1, <2>1, SeqEqual
<1>4. e = f
  <2> DEFINE p == End(a, Len(a))
  <2>1. p \in Nat
    BY EndIs
  <2>2. AllNoise(s, p, e) /\ AllNoise(s, p, f) /\ ~NoiseAt(s, e) /\ ~NoiseAt(s, f)
    BY <1>3 DEF CoversAll, Covers
  <2> HIDE DEF p
  <2>3. QED BY <2>1, <2>2, NoiseEnds
<1>5. QED BY <1>3, <1>4

\* One string behind another, and the two cut apart again.
LEMMA Joined ==
    ASSUME NEW S, NEW a \in Seq(S), NEW b \in Seq(S), NEW c, c = a \o b
    PROVE  /\ c \in Seq(S) /\ Len(c) = Len(a) + Len(b)
           /\ \A i \in 1..Len(a) : c[i] = a[i]
           /\ \A i \in 1..Len(b) : c[Len(a) + i] = b[i]
           /\ SubSeq(c, 1, Len(a)) = a /\ SubSeq(c, Len(a) + 1, Len(a) + Len(b)) = b
<1>1. Len(a) \in Nat /\ Len(b) \in Nat
  BY LenProperties
<1>2. /\ c \in Seq(S) /\ Len(c) = Len(a) + Len(b)
      /\ \A i \in 1..Len(a) + Len(b) : c[i] = IF i <= Len(a) THEN a[i] ELSE b[i - Len(a)]
  BY ConcatProperties
<1>3. \A i \in 1..Len(a) : c[i] = a[i]
  BY <1>1, <1>2
<1>4. \A i \in 1..Len(b) : c[Len(a) + i] = b[i]
  <2>1. \A i \in 1..Len(b) : Len(a) + i \in 1..Len(a) + Len(b) /\ ~(Len(a) + i <= Len(a)) /\ (Len(a) + i) - Len(a) = i
    BY <1>1
  <2>2. QED BY <1>2, <2>1
<1>5. \A i \in 1..Len(a) + Len(b) : c[i] \in S
  BY <1>2, ElementOfSeq
<1> DEFINE u == SubSeq(c, 1, Len(a))
           v == SubSeq(c, Len(a) + 1, Len(a) + Len(b))
<1>6. u \in Seq(S) /\ Len(u) = Len(a) /\ \A i \in 1..Len(a) : u[i] = c[i]
  BY <1>1, <1>5, SubSeqProperties
<1>7. v \in Seq(S) /\ Len(v) = Len(b) /\ \A i \in 1..Len(b) : v[i] = c[Len(a) + i]
  BY <1>1, <1>5, SubSeqProperties
<1> HIDE DEF u, v
<1>8. u = a
  BY <1>3, <1>6, SeqEqual
<1>9. v = b
  BY <1>4, <1>7, SeqEqual
<1>10. QED BY <1>2, <1>3, <1>4, <1>8, <1>9 DEF u, v

\* What encode has made is a frame of its own, and is decoded to what it was made of.
LEMMA EncodedIsDecoded ==
    ASSUME NEW f \in DecodedFrame, NEW b \in encode(f.station, f.function_code, f.data)
    PROVE  /\ Len(b) \in Nat /\ kMinFrameLen <= Len(b) /\ Len(b) <= max_frame_len_
           /\ b[1] = f.station /\ CrcMatches(b) /\ Decoded(b) = f
<1> DEFINE top == <<f.station, f.function_code>>
           head == top \o f.data
           x == crc16(head) % 256
           y == (crc16(head) \div 256) % 256
           S == Byte \cup {x, y}
           crc == <<x, y>>
           d == f.data
           m == Len(f.data)
<1>1. f.station \in Byte /\ f.function_code \in Byte /\ d \in Seq(Byte)
      /\ f = [station |-> f.station, function_code |-> f.function_code, data |-> d]
  BY DEF DecodedFrame
<1>2. b = head \o crc /\ ~(2 + m + 2 > max_frame_len_) /\ CrcBytes(head) = crc /\ head = top \o d
  BY DEF encode, CrcBytes
<1>3. /\ top \in Seq(Byte) /\ Len(top) = 2 /\ top[1] = f.station /\ top[2] = f.function_code
      /\ crc \in Seq(S) /\ Len(crc) = 2 /\ m \in Nat /\ m = Len(d)
  BY <1>1, LenProperties
<1>4. \A s \in Seq(Byte) : s \in Seq(S)
  BY SeqMonotonic
<1> HIDE DEF top, head, x, y, S, crc, d, m
<1>5. /\ head \in Seq(Byte) /\ Len(head) = 2 + m
      /\ \A i \in 1..2 : head[i] = top[i]
      /\ SubSeq(head, 3, 2 + m) = d
  <2>1. top \in Seq(Byte) /\ d \in Seq(Byte) /\ head = top \o d
    BY <1>1, <1>2, <1>3
  <2>2. /\ head \in Seq(Byte) /\ Len(head) = Len(top) + Len(d)
        /\ \A i \in 1..Len(top) : head[i] = top[i]
        /\ SubSeq(head, Len(top) + 1, Len(top) + Len(d)) = d
    BY <2>1, Joined
  <2>3. Len(top) + 1 = 3 /\ Len(top) = 2 /\ Len(d) = m
    BY <1>3
  <2>4. QED BY <2>2, <2>3
<1>6. /\ b \in Seq(S) /\ Len(b) = 2 + m + 2
      /\ \A i \in 1..2 + m : b[i] = head[i]
      /\ SubSeq(b, 1, 2 + m) = head /\ SubSeq(b, 2 + m + 1, 2 + m + 2) = crc
  BY <1>2, <1>3, <1>4, <1>5, Joined
<1>7. Len(b) - 2 = 2 + m /\ Len(b) - 1 = 2 + m + 1 /\ Len(b) \in Nat
  BY <1>3, <1>6
<1>8. CrcMatches(b)
  <2>1. SubSeq(b, 1, Len(b) - 2) = head /\ SubSeq(b, Len(b) - 1, Len(b)) = crc
    BY <1>6, <1>7
  <2>2. QED BY <1>2, <2>1 DEF CrcMatches
<1>9. b[1] = f.station /\ b[2] = f.function_code
  <2>1. 1 \in 1..2 /\ 2 \in 1..2 /\ 1 \in 1..2 + m /\ 2 \in 1..2 + m
    BY <1>3
  <2>2. QED BY <1>3, <1>5, <1>6, <2>1
<1>10. SubSeq(b, 3, Len(b) - 2) = d
  <2> DEFINE u == SubSeq(b, 3, 2 + m)
             v == SubSeq(head, 3, 2 + m)
  <2>1. \A i \in 3..2 + m : i \in 1..2 + m /\ i \in 1..Len(head)
    BY <1>3, <1>5
  <2>2. \A i \in 3..2 + m : b[i] = head[i] /\ head[i] \in Byte
    BY <1>5, <1>6, <2>1, ElementOfSeq
  <2>3. /\ v \in Seq(Byte) /\ Len(v) = IF 3 <= 2 + m THEN 2 + m - 3 + 1 ELSE 0
        /\ \A i \in 1..2 + m - 3 + 1 : v[i] = head[3 + i - 1]
    BY <1>3, <2>2, SubSeqProperties
  <2>4. /\ u \in Seq(Byte) /\ Len(u) = IF 3 <= 2 + m THEN 2 + m - 3 + 1 ELSE 0
        /\ \A i \in 1..2 + m - 3 + 1 : u[i] = b[3 + i - 1]
    BY <1>3, <2>2, SubSeqProperties
  <2> HIDE DEF u, v
  <2>5. \A i \in 1..2 + m - 3 + 1 : u[i] = v[i]
    <3>1. \A i \in 1..2 + m - 3 + 1 : 3 + i - 1 \in 3..2 + m
      BY <1>3
    <3>2. QED BY <2>2, <2>3, <2>4, <3>1
  <2>6. Len(u) = Len(v) /\ \A i \in 1..Len(u) : i \in 1..2 + m - 3 + 1
    BY <1>3, <2>3, <2>4
  <2>7. u = v
    BY <2>3, <2>4, <2>5, <2>6, SeqEqual
  <2>8. QED BY <1>5, <1>7, <2>7 DEF u, v
<1>11. Decoded(b) = f
  BY <1>1, <1>9, <1>10 DEF Decoded
<1>12. kMinFrameLen <= Len(b) /\ Len(b) <= max_frame_len_
  BY <1>2, <1>3, <1>6, CodecParameters DEF kMinFrameLen
<1>13. QED BY <1>7, <1>8, <1>9, <1>11, <1>12

\* Where the frames of a clean stream are.
Marked(s) == [i \in 1..Len(s.frames) |-> [from |-> s.marks[i], to |-> s.marks[i + 1]]]

LEMMA MarksAre ==
    ASSUME NEW s \in Streams
    PROVE  /\ s.wire \in Seq(Byte) /\ Len(s.wire) \in Nat /\ Len(s.frames) \in Nat
           /\ s.marks[1] = 0 /\ s.marks[Len(s.frames) + 1] = Len(s.wire)
           /\ \A i \in 1..Len(s.frames) :
                  /\ s.marks[i] \in Nat /\ s.marks[i + 1] \in Nat
                  /\ s.marks[i] <= s.marks[i + 1] /\ s.marks[i + 1] <= Len(s.wire)
                  /\ s.frames[i] \in SUBSET DecodedFrame
<1>1. /\ s.wire \in Seq(Byte) /\ s.marks \in Seq(Nat) /\ s.frames \in Seq(SUBSET DecodedFrame)
      /\ Len(s.marks) = Len(s.frames) + 1
      /\ s.marks[1] = 0 /\ s.marks[Len(s.marks)] = Len(s.wire)
      /\ \A i, j \in DOMAIN s.marks : i <= j => s.marks[i] <= s.marks[j]
  BY StreamParameters
<1> DEFINE w == s.wire
           m == s.marks
           g == s.frames
<1> HIDE DEF w, m, g
<1>2. /\ Len(w) \in Nat /\ Len(m) \in Nat /\ Len(g) \in Nat /\ DOMAIN m = 1..Len(g) + 1
      /\ \A i \in 1..Len(m) : m[i] \in Nat
      /\ \A i \in 1..Len(g) : g[i] \in SUBSET DecodedFrame
  BY <1>1, LenProperties, ElementOfSeq DEF w, m, g
<1>3. ASSUME NEW i \in 1..Len(g)
      PROVE  m[i] \in Nat /\ m[i + 1] \in Nat /\ m[i] <= m[i + 1] /\ m[i + 1] <= Len(w)
  <2>1. i \in 1..Len(g) + 1 /\ i + 1 \in 1..Len(g) + 1 /\ Len(g) + 1 \in 1..Len(g) + 1
        /\ i <= i + 1 /\ i + 1 <= Len(g) + 1
    BY <1>2
  <2>2. Len(m) = Len(g) + 1 /\ m[Len(g) + 1] = Len(w) /\ \A k, j \in DOMAIN m : k <= j => m[k] <= m[j]
    BY <1>1 DEF w, m, g
  <2>3. QED BY <1>2, <2>1, <2>2
<1>4. QED BY <1>1, <1>2, <1>3 DEF w, m, g

LEMMA MarkedIs ==
    ASSUME NEW s \in Streams
    PROVE  Marked(s) \in Seq(Place) /\ Len(Marked(s)) = Len(s.frames)
<1>1. Len(s.frames) \in Nat /\ \A i \in 1..Len(s.frames) : s.marks[i] \in Nat /\ s.marks[i + 1] \in Nat
  BY MarksAre
<1>2. \A i \in 1..Len(s.frames) : [from |-> s.marks[i], to |-> s.marks[i + 1]] \in Place
  BY <1>1 DEF Place
<1>3. Marked(s) \in [1..Len(s.frames) -> Place]
  BY <1>2 DEF Marked
<1>4. QED BY <1>1, <1>3

\* Where a frame has been sent, the reference sees it, unless a part of it verifies.
LEMMA SentIsSeen ==
    ASSUME NEW s \in Streams, NEW i \in 1..Len(s.frames), NEW f \in s.frames[i], ~Ambiguous(Piece(s, i))
    PROVE  /\ s.marks[i] < s.marks[i + 1] /\ FrameAt(s.wire, s.marks[i], s.marks[i + 1] - s.marks[i])
           /\ f = Decoded(Piece(s, i))
<1> DEFINE w == s.wire
           p == s.marks[i]
           k == s.marks[i + 1] - s.marks[i]
           b == Piece(s, i)
<1>1. /\ f \in DecodedFrame /\ f.station \in kMinStation..kMaxStation
      /\ b \in encode(f.station, f.function_code, f.data)
  BY MarksAre, StreamParameters
<1>2. w \in Seq(Byte) /\ p \in Nat /\ k \in Nat /\ p + k <= Len(w) /\ Len(w) \in Nat /\ b = Cut(w, p, k)
      /\ p + k = s.marks[i + 1]
  BY MarksAre DEF Piece
<1> HIDE DEF w, p, k, b
<1>3. /\ kMinFrameLen <= Len(b) /\ Len(b) <= max_frame_len_
      /\ b[1] = f.station /\ CrcMatches(b) /\ Decoded(b) = f
  BY <1>1, EncodedIsDecoded
<1>4. b \in Seq(Byte) /\ Len(b) = k /\ \A j \in 1..k : b[j] = w[p + j]
  <2>1. p + 1 \in Nat /\ p + k \in Nat /\ p + 1 >= 1 /\ (p + k) - (p + 1) + 1 = k /\ (p + 1 <= p + k <=> k > 0)
        /\ \A j \in 1..k : p + 1 + j - 1 = p + j
    BY <1>2
  <2> DEFINE c == SubSeq(w, p + 1, p + k)
  <2>2. /\ c \in Seq(Byte) /\ Len(c) = IF p + 1 <= p + k THEN (p + k) - (p + 1) + 1 ELSE 0
        /\ \A j \in 1..(p + k) - (p + 1) + 1 : c[j] = w[p + 1 + j - 1]
    BY <1>2, <2>1, CutBytes
  <2>3. c = b
    BY <1>2 DEF Cut
  <2> HIDE DEF c
  <2>4. QED BY <1>2, <2>1, <2>2, <2>3
<1>5. k >= 4 /\ k \in Verified(w, p)
  BY <1>2, <1>3, <1>4, VerifiedIs DEF kMinFrameLen
<1>6. LegalAt(w, p)
  BY <1>1, <1>2, <1>3, <1>4, <1>5 DEF LegalAt
<1>7. ASSUME NEW j \in Verified(w, p) PROVE k <= j
  <2>1. SUFFICES ASSUME ~(k <= j) PROVE FALSE
    OBVIOUS
  <2>2. j \in Nat /\ kMinFrameLen <= j /\ CrcMatches(Cut(w, p, j))
    BY VerifiedIs
  <2>3. Alike(w, p, b, 0, j)
    <3>1. \A l \in 1..j : l \in 1..k /\ 0 + l = l
      BY <1>2, <2>1, <2>2
    <3>2. p + j <= Len(w) /\ 0 + j <= Len(b)
      BY <1>2, <1>4, <2>1, <2>2
    <3>3. QED BY <1>4, <3>1, <3>2 DEF Alike
  <2>4. Cut(w, p, j) = Cut(b, 0, j)
    BY <1>2, <1>4, <2>2, <2>3, SameCut
  <2>5. j \in kMinFrameLen..Len(b) - 1
    BY <1>2, <1>4, <2>1, <2>2 DEF kMinFrameLen
  <2>6. QED BY <2>2, <2>4, <2>5 DEF Ambiguous, b
<1>8. FrameAt(w, p, k)
  BY <1>5, <1>6, <1>7 DEF FrameAt
<1>9. p < s.marks[i + 1]
  BY <1>2, <1>5
<1>10. QED BY <1>3, <1>8, <1>9 DEF w, p, k, b

Sending == stream \in Streams

LEMMA CleanIsExact ==
    ASSUME StreamInv, Sending
    PROVE  CleanStreamExact
<1> SUFFICES ASSUME CleanStream, \A i \in 1..Len(stream.frames) : ~Ambiguous(Piece(stream, i))
             PROVE  FramesSent
  BY DEF CleanStreamExact
<1> DEFINE b == Marked(stream)
           w == stream.wire
           m == Len(stream.frames)
<1>1. m \in Nat /\ w \in Seq(Byte) /\ Len(w) \in Nat /\ stream.marks[1] = 0 /\ stream.marks[m + 1] = Len(w)
  BY MarksAre DEF Sending
<1>2. ASSUME NEW i \in 1..m
      PROVE  /\ b[i] = [from |-> stream.marks[i], to |-> stream.marks[i + 1]] /\ b[i] \in Place
             /\ b[i].from = stream.marks[i] /\ b[i].to = stream.marks[i + 1]
             /\ b[i].from < b[i].to /\ FrameAt(w, b[i].from, b[i].to - b[i].from)
             /\ stream.frames[i] = {Decoded(Cut(w, b[i].from, b[i].to - b[i].from))}
  <2>1. stream.frames[i] # {}
    BY DEF CleanStream
  <2>2. /\ b[i] = [from |-> stream.marks[i], to |-> stream.marks[i + 1]] /\ b[i] \in Place
        /\ b[i].from = stream.marks[i] /\ b[i].to = stream.marks[i + 1]
    BY MarksAre DEF Marked, Place, Sending
  <2>3. \A f \in stream.frames[i] :
           /\ stream.marks[i] < stream.marks[i + 1] /\ FrameAt(w, stream.marks[i], stream.marks[i + 1] - stream.marks[i])
           /\ f = Decoded(Piece(stream, i))
    BY SentIsSeen DEF Sending
  <2>4. Piece(stream, i) = Cut(w, b[i].from, b[i].to - b[i].from)
    BY <2>2 DEF Piece
  <2> HIDE DEF b, w
  <2>5. QED BY <2>1, <2>2, <2>3, <2>4
<1>3. b \in Seq(Place) /\ Len(b) = m
  BY MarkedIs DEF Sending
<1> HIDE DEF b
<1>4. \A i \in 0..m : End(b, i) = stream.marks[i + 1]
  <2>1. \A i \in 0..m : i # 0 => i \in 1..m
    BY <1>1
  <2>2. 0 + 1 = 1
    OBVIOUS
  <2>3. QED BY <1>1, <1>2, <2>1, <2>2 DEF End
<1>5. CoversAll(w, b, Len(w))
  <2>1. ASSUME NEW i \in 1..m PROVE AllNoise(w, End(b, i - 1), b[i].from)
    <3>1. i - 1 \in 0..m /\ (i - 1) + 1 = i
      BY <1>1
    <3>2. End(b, i - 1) = b[i].from /\ b[i].from \in Nat
      BY <1>2, <1>4, <3>1, MarksAre DEF Sending
    <3>3. QED BY <3>2 DEF AllNoise
  <2>2. AllNoise(w, End(b, m), Len(w))
    BY <1>1, <1>4 DEF AllNoise
  <2>3. Covers(w, b, Len(w))
    BY <1>2, <1>3, <2>1, <2>2 DEF Covers
  <2>4. ~NoiseAt(w, Len(w)) /\ \A k \in Verified(w, Len(w)) : ~FrameAt(w, Len(w), k)
    BY <1>1 DEF NoiseAt, FrameAt, LegalAt
  <2>5. QED BY <1>1, <2>3, <2>4 DEF CoversAll
<1>6. CoversAll(w, places, Dealt) /\ got = FramesOf(w, places) /\ places \in Seq(Place) /\ Dealt \in Nat
  BY Lengths DEF StreamInv, FramesWhere, ChunkingInvisible, CleanStream
<1>7. got = FramesOf(w, b)
  <2> HIDE DEF w
  <2>1. places = b
    BY <1>1, <1>3, <1>5, <1>6, OneCovering
  <2>2. QED BY <1>6, <2>1
<1>8. Len(got) = m /\ \A i \in 1..m : got[i] = Decoded(Cut(w, b[i].from, b[i].to - b[i].from))
  BY <1>1, <1>3, <1>7 DEF FramesOf
<1>9. QED BY <1>2, <1>8 DEF FramesSent

\* A stream of frames without noise arrives complete and in order, whatever the reads
\* and the checksum, if no prefix of a frame verifies (modbus_frame_codec.cpp:69-98).
THEOREM CleanStreamsExact == StreamSpec => []CleanStreamExact
<1>1. StreamInit => Sending
  BY DEF StreamInit, Sending
<1>2. Sending /\ [StreamNext]_streamVars => Sending'
  BY DEF StreamNext, Deliver, Decoding, Flush, streamVars, Sending
<1>3. StreamInv /\ Sending => CleanStreamExact
  BY CleanIsExact
<1>4. QED BY <1>1, <1>2, <1>3, InitStreamInv, StreamNextKeeps, PTL DEF StreamSpec
=============================================================================
