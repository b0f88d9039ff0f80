------------------------------ MODULE MCRelay ------------------------------
(***************************************************************************)
(* Instances of Relay for TLC: two payloads that fit and one that does not,*)
(* and every kind of frame the rx topic can carry.                         *)
(***************************************************************************)
EXTENDS RelayInvariant

CONSTANTS short, full, long

MCPayloads == {short, full, long}
MCSize == [p \in MCPayloads |->
              CASE p = short -> 0 [] p = full -> kMaxPayload [] p = long -> kMaxPayload + 1]

Data(t, d) == [station |-> Slave1, txn |-> t, dst |-> d, body |-> short, id |-> 0]

\* Replies that keep, route, name slave 1 and name no station; a reply of the old
\* protocol; a frame without header; a reply overheard from another station.
MCHeard ==
    {Data({t}, {d}) : t \in Txn, d \in {0, 2, Slave1, 248}}
        \cup {Data({t}, {}) : t \in Txn}
        \cup {Data({}, {}), [Data({1}, {2}) EXCEPT !.station = 3]}
=============================================================================
