-------------------------- MODULE TransactionProofs --------------------------
(***************************************************************************)
(* What the header operators of Transaction do for every number, dst and   *)
(* payload, and for every byte string that reaches the parsers; and what   *)
(* TransactionFraming checks of them, however often a frame is framed.     *)
(***************************************************************************)
EXTENDS TransactionFraming, SequenceTheorems, TLAPS

\* A prefix put before a payload keeps its bytes, and the lengths add up.
LEMMA PutPrefix ==
    ASSUME NEW S, NEW h \in Seq(S), NEW p \in Seq(S)
    PROVE  /\ h \o p \in Seq(S) /\ Len(h \o p) = Len(h) + Len(p)
           /\ \A i \in 1..Len(h) : (h \o p)[i] = h[i]
<1>1. Len(h) \in Nat /\ Len(p) \in Nat
  BY LenProperties
<1>2. /\ Len(h \o p) = Len(h) + Len(p)
      /\ \A i \in 1..Len(h) + Len(p) :
            (h \o p)[i] = IF i <= Len(h) THEN h[i] ELSE p[i - Len(h)]
  BY ConcatProperties
<1>3. QED BY <1>1, <1>2

\* Cutting a prefix off where it was put on gives the rest back.
LEMMA CutPrefix ==
    ASSUME NEW S, NEW h \in Seq(S), NEW p \in Seq(S)
    PROVE  SubSeq(h \o p, Len(h) + 1, Len(h \o p)) = p
<1>1. Len(h \o p) = Len(h) + Len(p) /\ Len(h) \in Nat /\ Len(p) \in Nat
  BY ConcatProperties, LenProperties
<1>2. SubSeq(h \o p, Len(h) + 1, Len(h) + Len(p)) = SubSeq(p, 1, Len(p))
  <2>1. SubSeq(h \o p, Len(h) + 1, Len(h) + Len(p))
          = SubSeq(p, Len(h) + 1 - Len(h), Len(h) + Len(p) - Len(h))
    BY <1>1, SubSeqOfConcat2
  <2>2. Len(h) + 1 - Len(h) = 1 /\ Len(h) + Len(p) - Len(h) = Len(p)
    BY <1>1
  <2>3. QED BY <2>1, <2>2
<1>3. SubSeq(p, 1, Len(p)) = p
  BY SubSeqFull
<1>4. QED BY <1>1, <1>2, <1>3

\* A byte is its own remainder.
LEMMA ByteMod == ASSUME NEW b \in 0..255 PROVE b % 256 = b
  OBVIOUS

\* A number is a multiple of the base plus its remainder.
LEMMA HighAndLow ==
    ASSUME NEW base \in Nat \ {0}, NEW n \in Nat
    PROVE  /\ n \div base \in Nat /\ n % base \in 0..base - 1
           /\ (n \div base) * base + (n % base) = n
  OBVIOUS

\* The number survives its split in two big-endian bytes.
LEMMA TxnBytesRoundTrip ==
    ASSUME NEW txn \in Txn16
    PROVE  /\ hi(txn) \in Byte /\ lo(txn) \in Byte
           /\ hi(txn) * 256 + lo(txn) = txn
<1>0. MaxTxn \in Nat /\ MaxTxn < 256 * 256
  BY DEF MaxTxn
<1>1. txn \in Nat /\ txn < 256 * 256
  BY <1>0 DEF Txn16
<1> DEFINE base == 256
           q == txn \div base
           r == txn % base
<1>2. base \in Nat \ {0} /\ base = 256
  OBVIOUS
<1>3. hi(txn) = q % base /\ lo(txn) = r
  BY DEF hi, lo
<1> HIDE DEF base
<1>4. q \in Nat /\ r \in 0..base - 1 /\ q * base + r = txn
  <2>1. txn \in Nat
    BY <1>1
  <2>2. QED BY <2>1, <1>2, HighAndLow
<1> HIDE DEF q, r
<1>5. q \in 0..255 /\ r \in 0..255 /\ q * 256 + r = txn
  BY <1>1, <1>2, <1>4
<1>6. q % base = q
  BY <1>2, <1>5, ByteMod
<1>7. QED BY <1>2, <1>3, <1>5, <1>6 DEF Byte

\* A request is read back as what it was built from, never yields a dst, and
\* fits the driver's data field: build (transaction.cpp:60-74) against the
\* parsers of the other side.
THEOREM RequestReadBack ==
    ASSUME NEW txn \in Txn16, NEW payload \in Seq(Byte), NEW d \in build(txn, payload)
    PROVE  /\ parse_txn(d) = {txn}
           /\ parse_dst(d) = {}
           /\ strip_header(d) = payload
           /\ strip_reply_header(d) = d
           /\ Len(d) <= kMaxData /\ d \in Seq(Byte)
<1> DEFINE h == <<kMarker0, kMarker1, hi(txn), lo(txn)>>
<1>1. h[1] = kMarker0 /\ h[2] = kMarker1 /\ h[3] = hi(txn) /\ h[4] = lo(txn)
  OBVIOUS
<1>2. h \in Seq(Byte) /\ Len(h) = 4
  BY TxnBytesRoundTrip DEF kMarker0, kMarker1, Byte
<1>3. Len(payload) <= kMaxPayload /\ d = h \o payload
  BY DataCap, LenProperties DEF build, kMaxPayload, kHeaderLen
<1> HIDE DEF h
<1>4. /\ d \in Seq(Byte) /\ Len(d) = 4 + Len(payload)
      /\ \A i \in 1..4 : d[i] = h[i]
  <2>1. /\ h \o payload \in Seq(Byte) /\ Len(h \o payload) = Len(h) + Len(payload)
        /\ \A i \in 1..Len(h) : (h \o payload)[i] = h[i]
    BY <1>2, PutPrefix
  <2>2. QED BY <1>2, <1>3, <2>1
<1>5. d[1] = kMarker0 /\ d[2] = kMarker1 /\ d[3] = hi(txn) /\ d[4] = lo(txn)
  BY <1>1, <1>4
<1>6. has_header(d) /\ ~has_reply_header(d)
  BY <1>4, <1>5, LenProperties
  DEF has_header, has_reply_header, kHeaderLen, kMarker1, kReplyMarker1
<1>7. parse_txn(d) = {txn}
  BY <1>5, <1>6, TxnBytesRoundTrip DEF parse_txn
<1>8. strip_header(d) = payload
  BY <1>2, <1>3, <1>6, CutPrefix DEF strip_header, kHeaderLen
<1>9. parse_dst(d) = {} /\ strip_reply_header(d) = d
  BY <1>6 DEF parse_dst, strip_reply_header
<1>10. Len(d) <= kMaxData
  BY <1>3, <1>4, DataCap, LenProperties DEF kMaxPayload, kHeaderLen, kReplyHeaderLen
<1>11. QED BY <1>4, <1>7, <1>8, <1>9, <1>10

\* A reply is read back as what it was built from, the slave's dst included, and
\* fits the driver's data field: build_reply (transaction.cpp:76-91).
THEOREM ReplyReadBack ==
    ASSUME NEW txn \in Txn16, NEW dst \in Byte, NEW payload \in Seq(Byte),
           NEW d \in build_reply(txn, dst, payload)
    PROVE  /\ parse_txn(d) = {txn}
           /\ parse_dst(d) = {dst}
           /\ strip_reply_header(d) = payload
           /\ strip_header(d) = d
           /\ Len(d) <= kMaxData /\ d \in Seq(Byte)
<1> DEFINE h == <<kMarker0, kReplyMarker1, hi(txn), lo(txn), dst>>
<1>1. h[1] = kMarker0 /\ h[2] = kReplyMarker1 /\ h[3] = hi(txn) /\ h[4] = lo(txn) /\ h[5] = dst
  OBVIOUS
<1>2. h \in Seq(Byte) /\ Len(h) = 5
  BY TxnBytesRoundTrip DEF kMarker0, kReplyMarker1, Byte
<1>3. Len(payload) <= kMaxReplyPayload /\ d = h \o payload
  BY DataCap, LenProperties DEF build_reply, kMaxReplyPayload, kReplyHeaderLen, kHeaderLen
<1> HIDE DEF h
<1>4. /\ d \in Seq(Byte) /\ Len(d) = 5 + Len(payload)
      /\ \A i \in 1..5 : d[i] = h[i]
  <2>1. /\ h \o payload \in Seq(Byte) /\ Len(h \o payload) = Len(h) + Len(payload)
        /\ \A i \in 1..Len(h) : (h \o payload)[i] = h[i]
    BY <1>2, PutPrefix
  <2>2. QED BY <1>2, <1>3, <2>1
<1>5. /\ d[1] = kMarker0 /\ d[2] = kReplyMarker1 /\ d[3] = hi(txn)
      /\ d[4] = lo(txn) /\ d[5] = dst
  BY <1>1, <1>4
<1>6. has_reply_header(d) /\ ~has_header(d)
  BY <1>4, <1>5, LenProperties
  DEF has_header, has_reply_header, kHeaderLen, kReplyHeaderLen, kMarker1, kReplyMarker1
<1>7. parse_txn(d) = {txn}
  BY <1>5, <1>6, TxnBytesRoundTrip DEF parse_txn
<1>8. parse_dst(d) = {dst}
  BY <1>5, <1>6 DEF parse_dst, kHeaderLen
<1>9. strip_reply_header(d) = payload
  <2>1. SubSeq(d, Len(h) + 1, Len(d)) = payload
    BY <1>2, <1>3, CutPrefix
  <2>2. Len(h) + 1 = kReplyHeaderLen + 1
    BY <1>2 DEF kReplyHeaderLen, kHeaderLen
  <2>3. QED BY <1>6, <2>1, <2>2 DEF strip_reply_header
<1>10. strip_header(d) = d
  BY <1>6 DEF strip_header
<1>11. Len(d) <= kMaxData
  BY <1>3, <1>4, DataCap, LenProperties DEF kMaxReplyPayload, kHeaderLen, kReplyHeaderLen
<1>12. QED BY <1>4, <1>7, <1>8, <1>9, <1>10, <1>11

\* No frame is taken for both kinds, and only a frame with the reply marker can
\* name a destination: what rules out forwarding "Hello" to station 72
\* (transaction.hpp:33-41).
THEOREM KindsDisjoint ==
    ASSUME NEW d \in Seq(Byte)
    PROVE  /\ ~(has_header(d) /\ has_reply_header(d))
           /\ has_header(d) => parse_dst(d) = {} /\ strip_reply_header(d) = d
           /\ \A dst \in parse_dst(d) : d[2] = kReplyMarker1 /\ dst \in Byte
<1>1. ~(has_header(d) /\ has_reply_header(d))
  BY DEF has_header, has_reply_header, kMarker1, kReplyMarker1
<1>2. has_header(d) => parse_dst(d) = {} /\ strip_reply_header(d) = d
  BY <1>1 DEF parse_dst, strip_reply_header
<1>3. ASSUME NEW dst \in parse_dst(d)
      PROVE  d[2] = kReplyMarker1 /\ dst \in Byte
  <2>1. has_reply_header(d) /\ dst = d[5]
    BY <1>3 DEF parse_dst, kHeaderLen
  <2>2. d[5] \in Byte
    BY <2>1, ElementOfSeq DEF has_reply_header, kReplyHeaderLen, kHeaderLen
  <2>3. QED BY <2>1, <2>2 DEF has_reply_header
<1>4. QED BY <1>1, <1>2, <1>3

-----------------------------------------------------------------------------
(* Frames within frames.                                                   *)

Layer == [txn : Txn16, dst : SUBSET Byte, inner : Seq(Byte)]

\* d is what framing made of the layer's payload.
Framed(d, layer) ==
    \/ layer.dst = {} /\ d \in build(layer.txn, layer.inner)
    \/ \E dst \in Byte : layer.dst = {dst} /\ d \in build_reply(layer.txn, dst, layer.inner)

\* The inductive invariant: every layer is framed by the one around it.
FramingInv ==
    /\ data \in Seq(Byte) /\ layers \in Seq(Layer)
    /\ layers # <<>> => Framed(data, layers[1])
    /\ \A i \in 1..Len(layers) - 1 : Framed(layers[i].inner, layers[i + 1])

\* What is read back of a frame.
LEMMA FramedReadBack ==
    ASSUME NEW layer \in Layer, NEW d, Framed(d, layer)
    PROVE  /\ parse_txn(d) = {layer.txn} /\ parse_dst(d) = layer.dst
           /\ layer.dst = {} => strip_header(d) = layer.inner /\ strip_reply_header(d) = d
           /\ layer.dst # {} => strip_reply_header(d) = layer.inner /\ strip_header(d) = d
           /\ Len(d) <= kMaxData
<1>1. layer.txn \in Txn16 /\ layer.inner \in Seq(Byte)
  BY DEF Layer
<1>2. CASE layer.dst = {} /\ d \in build(layer.txn, layer.inner)
  BY <1>1, <1>2, RequestReadBack
<1>3. ASSUME NEW dst \in Byte, layer.dst = {dst}, d \in build_reply(layer.txn, dst, layer.inner)
      PROVE  /\ parse_txn(d) = {layer.txn} /\ parse_dst(d) = layer.dst
             /\ layer.dst # {} /\ strip_reply_header(d) = layer.inner /\ strip_header(d) = d
             /\ Len(d) <= kMaxData
  BY <1>1, <1>3, ReplyReadBack
<1>4. QED BY <1>2, <1>3 DEF Framed

LEMMA TopLayer ==
    ASSUME FramingInv, layers # <<>>
    PROVE  Head(layers) = layers[1] /\ layers[1] \in Layer /\ Framed(data, layers[1])
<1>1. Len(layers) \in Nat /\ Len(layers) # 0 /\ layers \in Seq(Layer)
  BY EmptySeq, LenProperties DEF FramingInv
<1>2. layers[1] \in Layer
  BY <1>1, ElementOfSeq
<1>3. QED BY <1>1, <1>2 DEF FramingInv

LEMMA FrameKeeps ==
    ASSUME FramingInv, NEW txn \in Txn16, NEW dst \in SUBSET Byte, NEW framed, Frame(framed, txn, dst),
           data' \in Seq(Byte), Framed(data', [txn |-> txn, dst |-> dst, inner |-> data])
    PROVE  FramingInv'
<1> DEFINE l == [txn |-> txn, dst |-> dst, inner |-> data]
<1>1. l \in Layer /\ l.inner = data /\ layers' = <<l>> \o layers /\ layers \in Seq(Layer)
  BY DEF FramingInv, Layer, Frame
<1>2. Framed(data', l)
  OBVIOUS
<1> HIDE DEF l
<1>3. <<l>> \in Seq(Layer) /\ Len(<<l>>) = 1 /\ <<l>>[1] = l /\ Len(layers) \in Nat
  BY <1>1, LenProperties
<1>4. /\ layers' \in Seq(Layer) /\ Len(layers') = 1 + Len(layers)
      /\ \A i \in 1..1 + Len(layers) : layers'[i] = IF i <= 1 THEN l ELSE layers[i - 1]
  <2> DEFINE one == <<l>>
  <2>1. one \in Seq(Layer) /\ Len(one) = 1 /\ one[1] = l /\ layers' = one \o layers
    BY <1>1, <1>3
  <2> HIDE DEF one
  <2>2. /\ layers' \in Seq(Layer) /\ Len(layers') = Len(one) + Len(layers)
        /\ \A i \in 1..Len(one) + Len(layers) : layers'[i] = IF i <= Len(one) THEN one[i] ELSE layers[i - Len(one)]
    BY <1>1, <2>1, ConcatProperties
  <2>3. \A i \in 1..1 + Len(layers) : i <= 1 => i = 1
    BY <1>3
  <2>4. QED BY <2>1, <2>2, <2>3
<1>5. layers'[1] = l
  BY <1>3, <1>4
<1>6. ASSUME NEW i \in 1..Len(layers') - 1 PROVE Framed(layers'[i].inner, layers'[i + 1])
  <2>1. i \in 1..1 + Len(layers) /\ i + 1 \in 1..1 + Len(layers) /\ ~(i + 1 <= 1) /\ (i + 1) - 1 = i
        /\ i \in 1..Len(layers) /\ Len(layers) # 0
    BY <1>3, <1>4
  <2>2. layers'[i + 1] = layers[i]
    BY <1>4, <2>1
  <2>3. CASE i <= 1
    <3>1. i = 1 /\ layers'[i] = l
      BY <1>5, <2>1, <2>3
    <3>2. layers # <<>>
      BY <2>1, EmptySeq
    <3>3. QED BY <1>1, <2>2, <3>1, <3>2 DEF FramingInv
  <2>4. CASE ~(i <= 1)
    <3>1. i - 1 \in 1..Len(layers) - 1 /\ (i - 1) + 1 = i
      BY <1>3, <2>1, <2>4
    <3>2. layers'[i] = layers[i - 1]
      BY <1>4, <2>1, <2>4
    <3>3. QED BY <2>2, <3>1, <3>2 DEF FramingInv
  <2>5. QED BY <2>3, <2>4
<1>7. QED BY <1>2, <1>4, <1>5, <1>6 DEF FramingInv

LEMMA UnframeKeeps ==
    ASSUME FramingInv, Unframe
    PROVE  FramingInv'
<1>1. layers # <<>> /\ layers' = Tail(layers)
      /\ data' = IF Head(layers).dst = {} THEN strip_header(data) ELSE strip_reply_header(data)
  BY DEF Unframe
<1>2. Head(layers) = layers[1] /\ layers[1] \in Layer /\ Framed(data, layers[1])
  BY <1>1, TopLayer
<1>3. data' = layers[1].inner /\ data' \in Seq(Byte)
  <2>1. data' = layers[1].inner
    BY <1>1, <1>2, FramedReadBack
  <2>2. QED BY <1>2, <2>1 DEF Layer
<1>4. /\ layers' \in Seq(Layer) /\ Len(layers') = Len(layers) - 1 /\ Len(layers) \in Nat
      /\ \A i \in 1..Len(layers') : layers'[i] = layers[i + 1]
  BY <1>1, HeadTailProperties, LenProperties DEF FramingInv
<1>5. ASSUME layers' # <<>> PROVE Framed(data', layers'[1])
  <2>1. Len(layers') # 0 /\ Len(layers') \in Nat
    BY <1>4, <1>5, EmptySeq
  <2>2. 1 \in 1..Len(layers') /\ 1 \in 1..Len(layers) - 1
    BY <1>4, <2>1
  <2>3. layers'[1] = layers[2] /\ Framed(layers[1].inner, layers[1 + 1])
    BY <1>4, <2>2 DEF FramingInv
  <2>4. QED BY <1>3, <2>3
<1>6. ASSUME NEW i \in 1..Len(layers') - 1 PROVE Framed(layers'[i].inner, layers'[i + 1])
  <2>1. i \in 1..Len(layers') /\ i + 1 \in 1..Len(layers') /\ i + 1 \in 1..Len(layers) - 1
    BY <1>4
  <2>2. layers'[i] = layers[i + 1] /\ layers'[i + 1] = layers[(i + 1) + 1]
    BY <1>4, <2>1
  <2>3. QED BY <2>1, <2>2 DEF FramingInv
<1>7. QED BY <1>3, <1>4, <1>5, <1>6 DEF FramingInv

LEMMA FramingNextKeeps == FramingInv /\ [Next]_vars => FramingInv'
<1> SUFFICES ASSUME FramingInv, [Next]_vars PROVE FramingInv'
  OBVIOUS
<1>1. ASSUME NEW b \in Bytes, AddByte(b) PROVE FramingInv'
  <2>1. b \in Byte /\ layers = <<>> /\ layers' = layers /\ data' = Append(data, b)
    BY <1>1, FramingParameters DEF AddByte
  <2>2. data' \in Seq(Byte)
    BY <2>1, AppendProperties DEF FramingInv
  <2>3. QED BY <2>1, <2>2 DEF FramingInv
<1>2. ASSUME NEW txn \in Txns, FrameRequest(txn) PROVE FramingInv'
  <2>1. txn \in Txn16 /\ data' \in build(txn, data) /\ Frame(build(txn, data), txn, {})
    BY <1>2, FramingParameters DEF FrameRequest, Frame
  <2>2. data' \in Seq(Byte)
    BY <2>1, RequestReadBack DEF FramingInv
  <2>3. Framed(data', [txn |-> txn, dst |-> {}, inner |-> data])
    BY <2>1 DEF Framed
  <2>4. QED BY <2>1, <2>2, <2>3, FrameKeeps
<1>3. ASSUME NEW txn \in Txns, NEW dst \in Dsts, FrameReply(txn, dst) PROVE FramingInv'
  <2>1. txn \in Txn16 /\ dst \in Byte /\ {dst} \in SUBSET Byte
        /\ data' \in build_reply(txn, dst, data) /\ Frame(build_reply(txn, dst, data), txn, {dst})
    BY <1>3, FramingParameters DEF FrameReply, Frame
  <2>2. data' \in Seq(Byte)
    BY <2>1, ReplyReadBack DEF FramingInv
  <2>3. Framed(data', [txn |-> txn, dst |-> {dst}, inner |-> data])
    BY <2>1 DEF Framed
  <2>4. QED BY <2>1, <2>2, <2>3, FrameKeeps
<1>4. CASE Unframe
  BY <1>4, UnframeKeeps
<1>5. CASE UNCHANGED vars
  BY <1>5 DEF vars, FramingInv
<1>6. QED BY <1>1, <1>2, <1>3, <1>4, <1>5 DEF Next

\* Every layer is what build or build_reply made of the one below it
\* (transaction.cpp:60-107).
THEOREM FramingInvariantHolds == Spec => []FramingInv
<1>1. Init => FramingInv
  BY EmptySeq DEF Init, FramingInv
<1>2. QED BY <1>1, FramingNextKeeps, PTL DEF Spec

\* However often a frame is framed, in whatever order, the outermost header is read back
\* (transaction.cpp:38-53).
THEOREM HeadersReadBack == Spec => []HeaderReadBack
<1>1. FramingInv => HeaderReadBack
  BY TopLayer, FramedReadBack DEF HeaderReadBack
<1>2. QED BY <1>1, FramingInvariantHolds, PTL

\* Stripping the outermost header gives back what it was put on, and stripping one of
\* the other kind changes nothing (transaction.cpp:93-109).
THEOREM PayloadsReadBack == Spec => []PayloadReadBack
<1>1. FramingInv => PayloadReadBack
  BY TopLayer, FramedReadBack DEF PayloadReadBack
<1>2. QED BY <1>1, FramingInvariantHolds, PTL

\* A payload is refused exactly when its framed form would not fit the data field
\* (transaction.hpp:86-92).
THEOREM CapsAlwaysTight == Spec => []CapsAreTight
<1>1. FramingInv => CapsAreTight
  <2>1. SUFFICES ASSUME FramingInv PROVE CapsAreTight
    OBVIOUS
  <2>2. ASSUME layers # <<>> PROVE Len(data) <= kMaxData
    <3>1. layers[1] \in Layer /\ Framed(data, layers[1])
      BY <2>1, <2>2, TopLayer
    <3>2. QED BY <3>1, FramedReadBack
  <2>3. Len(data) \in Nat
    BY <2>1, LenProperties DEF FramingInv
  <2>4. (Len(data) > kMaxPayload <=> Len(data) + 4 > kMaxData)
        /\ (Len(data) > kMaxReplyPayload <=> Len(data) + 5 > kMaxData)
    BY <2>3, DataCap DEF kMaxPayload, kMaxReplyPayload, kHeaderLen, kReplyHeaderLen
  <2>5. \A txn : build(txn, data) = {} <=> Len(data) > kMaxPayload
    BY DEF build
  <2>6. \A txn, dst : build_reply(txn, dst, data) = {} <=> Len(data) > kMaxReplyPayload
    BY DEF build_reply
  <2>7. QED BY <2>2, <2>4, <2>5, <2>6 DEF CapsAreTight
<1>2. QED BY <1>1, FramingInvariantHolds, PTL
=============================================================================
