-------------------------------- MODULE Link --------------------------------
(***************************************************************************)
(* What two ds10_driver nodes and the radio between them do to one frame:  *)
(* on_tx and encode on one side, feed and publish_frame on the other       *)
(* (ds10_node.cpp, modbus_frame_codec.cpp).  {} is a frame that goes no    *)
(* further.  The port is the business of Driver, the scan of feed that of  *)
(* Codec.  What matters here is what it finds in a frame's bytes:          *)
(*   - the frame itself, unless a proper prefix of it verifies (Cuts);     *)
(*   - what the bytes behind that prefix, the rest of a torn frame, or     *)
(*     either with the bytes around it may be taken for (Strays).          *)
(***************************************************************************)
EXTENDS Ds10Frame

CONSTANTS max_frame_len_,  \* max_frame_bytes of the drivers, 4095 by default
          Prefixes,        \* the payloads that are beginnings of each, itself too
          Cuts,            \* frames a proper prefix of which verifies, with the
                           \* frame that the shortest such prefix holds
          Strays           \* frames, with what else may be found in their bytes

\* kMaxData is written for the default; a driver with a smaller cap would reject
\* frames that ds10_relay takes for sendable (transaction.hpp:83-86).
ASSUME LinkParameters == max_frame_len_ \in Nat /\ max_frame_len_ >= 2 + kMaxData + 2

\* A frame on the air: the checksum is a function of it, so that all copies of a
\* frame are cut alike.
Wire == [station : Byte, txn : Optional(Txn), dst : Optional(Byte), body : Payloads]

OnWire(m) == [station |-> m.station, txn |-> m.txn, dst |-> m.dst, body |-> m.body]
Found(w, m) == [station |-> w.station, txn |-> w.txn, dst |-> w.dst, body |-> w.body, id |-> m.id]

ASSUME PrefixParameters ==
    /\ Prefixes \in [Payloads -> SUBSET Payloads]
    /\ \A p \in Payloads : p \in Prefixes[p]
    /\ \A p \in Payloads : \A q \in Prefixes[p] :
          Prefixes[q] \subseteq Prefixes[p] /\ (q # p => Size[q] < Size[p])

\* The data of a cut frame begin as the frame's do: its header is the frame's, behind
\* it is less of the payload; cut inside the header, it has none.  No frame that feed
\* finds is longer than 4095 bytes (modbus_frame_codec.cpp:78, ds10_node.cpp:56-61).
ASSUME CutParameters ==
    /\ \A c \in Cuts :
          /\ c.whole \in Wire /\ c.head \in Wire
          /\ c.head.station = c.whole.station
          /\ DataLen(c.head) < DataLen(c.whole)
          /\ c.head.txn # {} =>
                /\ c.head.txn = c.whole.txn /\ c.head.dst = c.whole.dst
                /\ c.head.body \in Prefixes[c.whole.body] \ {c.whole.body}
    /\ \A r \in Strays :
          /\ r.of \in Wire /\ r.found \in Wire
          /\ r.found.station \in Station /\ DataLen(r.found) <= kMaxData

\* The slave's own station replaces the one in the message; encode refuses what is
\* longer than a frame, and the message's tx_seq is not sent.
on_tx(role_, station_id_, m) ==
    IF 2 + DataLen(m) + 2 > max_frame_len_
      THEN {}
      ELSE {[m EXCEPT !.station = IF role_ = "slave" THEN station_id_ ELSE @]}

CutsOf(m) == {c \in Cuts : c.whole = OnWire(m)}
StraysOf(m) == {r \in Strays : r.of = OnWire(m)}

\* The shortest candidate that verifies wins.
shortest(m) == IF CutsOf(m) = {} THEN {m} ELSE {Found(c.head, m) : c \in CutsOf(m)}

\* No frame starts on a byte that is no legal station; behind it one may.
feed(m) ==
    (IF m.station \in Station THEN shortest(m) ELSE {})
        \cup {Found(r.found, m) : r \in StraysOf(m)}

\* Mutant of publish_frame: the slave surfaces what is addressed to others.
publish_any(role_, station_id_, m) ==
    {[m EXCEPT !.station = IF role_ = "slave" THEN 0 ELSE @]}

\* A slave surfaces what is addressed to it; 0 says "from the master".
publish_frame(role_, station_id_, m) ==
    IF role_ = "slave" /\ m.station # station_id_
      THEN {}
      ELSE {[m EXCEPT !.station = IF role_ = "slave" THEN 0 ELSE @]}

\* What comes out at the slave of station s of what the master is given to send, and
\* the other way round: the reader loop publishes what feed returns.
ToSlave(s, m) ==
    UNION {publish_frame("slave", s, f) : f \in UNION {feed(sent) : sent \in on_tx("master", 0, m)}}
ToMaster(s, m) ==
    UNION {publish_frame("master", 0, f) : f \in UNION {feed(sent) : sent \in on_tx("slave", s, m)}}
=============================================================================
