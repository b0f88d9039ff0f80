--------------------------- MODULE MCRelaySystem ---------------------------
(***************************************************************************)
(* Instances of RelaySystem for TLC.  The payload "both" mentions both     *)
(* keywords, so that the order of the rules matters, and is as long as a   *)
(* reply can carry; "full" is one byte longer and fits a request only.     *)
(***************************************************************************)
EXTENDS RelaySystemInvariant, TLC

CONSTANTS none, both, full, temp, humid

MCPayloads == {none, both, full}
MCSize == [p \in MCPayloads |-> CASE p = none -> 0 [] p = both -> kMaxData - kReplyHeaderLen
                                  [] p = full -> kMaxData - kHeaderLen]
MCMentions == [p \in MCPayloads |-> IF p = none THEN {} ELSE {temp, humid}]

MCPrefixes == [p \in MCPayloads |-> CASE p = none -> {none} [] p = both -> {both, none}
                                      [] p = full -> MCPayloads]

InFlight(s, t, d, p) == [station |-> s, txn |-> t, dst |-> d, body |-> p]

\* The request with the odd number loses its last byte, and so becomes answerable; an
\* answer with the even number loses its payload, another one its header.
MCCuts ==
    {[whole |-> InFlight(1, {1}, {}, full), head |-> InFlight(1, {1}, {}, both)],
     [whole |-> InFlight(1, {0}, {2}, both), head |-> InFlight(1, {0}, {2}, none)],
     [whole |-> InFlight(1, {1}, {1}, both), head |-> InFlight(1, {}, {}, none)]}

\* Behind the head of that answer a reply with the next number, in a forwarded frame a
\* request that nobody sent.
MCStrays ==
    {[of |-> InFlight(1, {1}, {1}, both), found |-> InFlight(1, {0}, {2}, none)],
     [of |-> InFlight(2, {}, {}, both), found |-> InFlight(1, {1}, {}, none)]}

Rule(k, s) == [text |-> "rule", keyword |-> k, station |-> s]
Other(kind) == [text |-> kind, keyword |-> temp, station |-> 0]

\* Overlapping rules behind a blank, none of which the empty payload meets; rules that
\* name no station, or slave 1 itself; text that is no rule.
MCRouteMaps ==
    (1 :> {<<Other("blank"), Rule(temp, 2), Rule(humid, 3)>>, <<Rule(humid, 248)>>,
           <<Rule(humid, 1)>>, <<Rule(temp, 2), Other("malformed")>>})
    @@ (2 :> {<<Rule(temp, 1)>>})

\* Station 3 answers with the number that may be pending.
MCHeard == {[station |-> 3, txn |-> {1}, dst |-> {2}, body |-> none, id |-> 0]}
=============================================================================
