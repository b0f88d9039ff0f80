------------------------- MODULE TransactionFraming -------------------------
(***************************************************************************)
(* Drives the operators of Transaction over bounded inputs: a byte string  *)
(* is typed in, framed as a request or as a reply any number of times that *)
(* fits, and unframed again.  layers remembers what each framing was given,*)
(* so that what the parsers say can be compared with what was meant.       *)
(***************************************************************************)
EXTENDS Transaction

CONSTANTS Bytes,    \* the bytes typed in
          Txns,     \* the transaction numbers used
          Dsts,     \* the dst bytes used
          MaxRaw    \* bound on the typed string

ASSUME FramingParameters ==
    Bytes \subseteq Byte /\ Txns \subseteq Txn16 /\ Dsts \subseteq Byte /\ MaxRaw \in Nat

VARIABLES data,     \* the Modbus data field
          layers    \* sequence of framings around the typed string, outermost first

vars == <<data, layers>>

Init == data = <<>> /\ layers = <<>>

AddByte(b) ==
    /\ layers = <<>>
    /\ Len(data) < MaxRaw
    /\ data' = Append(data, b)
    /\ UNCHANGED layers

Frame(framed, txn, dst) ==
    /\ data' \in framed
    /\ layers' = <<[txn |-> txn, dst |-> dst, inner |-> data]>> \o layers

FrameRequest(txn) == Frame(build(txn, data), txn, {})

FrameReply(txn, dst) == Frame(build_reply(txn, dst, data), txn, {dst})

Unframe ==
    /\ layers # <<>>
    /\ data' = IF Head(layers).dst = {} THEN strip_header(data)
                                        ELSE strip_reply_header(data)
    /\ layers' = Tail(layers)

Next ==
    \/ \E b \in Bytes : AddByte(b)
    \/ \E txn \in Txns : FrameRequest(txn)
    \/ \E txn \in Txns, dst \in Dsts : FrameReply(txn, dst)
    \/ Unframe

Spec == Init /\ [][Next]_vars

-----------------------------------------------------------------------------
\* Whatever the payload looks like, even if it starts with a header of its own
\* or is printable text, the receiver reads back exactly the number and dst the
\* sender framed it with: a request never yields a dst (transaction.cpp:38-53).
HeaderReadBack ==
    layers # <<>> => /\ parse_txn(data) = {Head(layers).txn}
                     /\ parse_dst(data) = Head(layers).dst

\* Stripping the header the sender added gives back the very payload it framed,
\* and stripping a header of the other kind changes nothing (strip_header and
\* strip_reply_header are called on frames that may be of either kind).
PayloadReadBack ==
    layers # <<>> =>
        LET top == Head(layers)
        IN  IF top.dst = {}
              THEN strip_header(data) = top.inner /\ strip_reply_header(data) = data
              ELSE strip_reply_header(data) = top.inner /\ strip_header(data) = data

\* The caps are tight: a payload is refused exactly when its framed form would
\* not fit the driver's data field, so nothing framed is rejected downstream and
\* nothing that would fit is refused (transaction.hpp:86-92).
CapsAreTight ==
    /\ layers # <<>> => Len(data) <= kMaxData
    /\ \A txn \in Txns : build(txn, data) = {} <=> Len(data) + 4 > kMaxData
    /\ \A txn \in Txns, dst \in Dsts :
          build_reply(txn, dst, data) = {} <=> Len(data) + 5 > kMaxData
=============================================================================
