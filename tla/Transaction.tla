---------------------------- MODULE Transaction ----------------------------
(***************************************************************************)
(* The transaction header ds10_relay puts at the head of the Modbus data   *)
(* field (transaction.hpp, transaction.cpp): pure operators on byte        *)
(* strings.  A request is F1 F1 txn_hi txn_lo payload, a reply is          *)
(* F1 F2 txn_hi txn_lo dst payload.                                        *)
(*                                                                         *)
(* std::optional is a set with at most one element: nullopt is {}.         *)
(***************************************************************************)
EXTENDS Naturals, Sequences

CONSTANT kMaxData   \* largest data field the driver accepts, 4091 in the code

Byte == 0..255
MaxTxn == 65535   \* of a std::uint16_t
Txn16 == 0..MaxTxn
Optional(S) == {v \in SUBSET S : \A x, y \in v : x = y}

kMarker0 == 241
kMarker1 == 241
kReplyMarker1 == 242
kHeaderLen == 4
kReplyHeaderLen == kHeaderLen + 1
kNoForward == 0
kMinStation == 1
kMaxStation == 247

\* Mutant of kMaxPayload: the header is forgotten.
kMaxPayloadBare == kMaxData

kMaxPayload == kMaxData - kHeaderLen
kMaxReplyPayload == kMaxData - kReplyHeaderLen

\* Both headers fit in a frame, or the two caps above would wrap around.
ASSUME DataCap == kMaxData \in Nat /\ kMaxData >= kReplyHeaderLen

has_header(data) ==
    /\ Len(data) >= kHeaderLen
    /\ data[1] = kMarker0
    /\ data[2] = kMarker1

has_reply_header(data) ==
    /\ Len(data) >= kReplyHeaderLen
    /\ data[1] = kMarker0
    /\ data[2] = kReplyMarker1

\* Big-endian number at a header's third and fourth byte.
parse_txn(data) ==
    IF has_header(data) \/ has_reply_header(data)
      THEN {data[3] * 256 + data[4]}
      ELSE {}

\* Mutant of parse_dst: does not look at the kind of the header.
parse_dst_of_any(data) == IF Len(data) > kHeaderLen THEN {data[kHeaderLen + 1]} ELSE {}

parse_dst(data) ==
    IF has_reply_header(data) THEN {data[kHeaderLen + 1]} ELSE {}

is_forwardable(dst) == dst >= kMinStation /\ dst <= kMaxStation

hi(txn) == (txn \div 256) % 256
lo(txn) == txn % 256

build(txn, payload) ==
    IF Len(payload) > kMaxPayload
      THEN {}
      ELSE {<<kMarker0, kMarker1, hi(txn), lo(txn)>> \o payload}

build_reply(txn, dst, payload) ==
    IF Len(payload) > kMaxReplyPayload
      THEN {}
      ELSE {<<kMarker0, kReplyMarker1, hi(txn), lo(txn), dst>> \o payload}

strip_header(data) ==
    IF has_header(data)
      THEN SubSeq(data, kHeaderLen + 1, Len(data))
      ELSE data

strip_reply_header(data) ==
    IF has_reply_header(data)
      THEN SubSeq(data, kReplyHeaderLen + 1, Len(data))
      ELSE data
=============================================================================
