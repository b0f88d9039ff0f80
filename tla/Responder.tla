----------------------------- MODULE Responder -----------------------------
(***************************************************************************)
(* The responder role of ds10_relay (relay_node.cpp): the routing table    *)
(* given as a parameter, the station it selects, and the answer to a frame.*)
(* A payload is abstracted to the keywords it contains.  The role keeps no *)
(* state but counters; restarting it changes nothing.                      *)
(***************************************************************************)
EXTENDS Ds10Frame, Integers

CONSTANTS Keywords,     \* keywords the routing table may use
          Mentions,     \* the keywords each payload contains
          default_dst_  \* the station when no keyword matches, or kNoForward

\* What stands between two commas of the route_map parameter: nothing but blanks,
\* something that is no 'keyword:number', or a rule.
Entry == [text : {"blank", "malformed", "rule"}, keyword : Keywords, station : Int]

\* checked_station throws, and the node does not come up, for what is no station.
checked_station(value) == value >= kMinStation /\ value <= kMaxStation

ASSUME ResponderParameters ==
    /\ Mentions \in [Payloads -> SUBSET Keywords]
    /\ default_dst_ = kNoForward \/ (default_dst_ \in Int /\ checked_station(default_dst_))

\* The rules at their places in the parameter; {} is the exception.
parse_route_map(spec) ==
    IF \E i \in DOMAIN spec :
          \/ spec[i].text = "malformed"
          \/ spec[i].text = "rule" /\ ~checked_station(spec[i].station)
      THEN {}
      ELSE {[i \in {j \in DOMAIN spec : spec[j].text = "rule"} |-> spec[i]]}

Matching(routes, p) == {i \in DOMAIN routes : routes[i].keyword \in Mentions[p]}

\* Mutant of route_lookup: the last match wins.
route_lookup_last(routes, p) ==
    IF Matching(routes, p) = {}
      THEN {default_dst_}
      ELSE {routes[i].station : i \in {j \in Matching(routes, p) :
                                          \A k \in Matching(routes, p) : j >= k}}

\* First match wins.
route_lookup(routes, p) ==
    IF Matching(routes, p) = {}
      THEN {default_dst_}
      ELSE {routes[i].station : i \in {j \in Matching(routes, p) :
                                          \A k \in Matching(routes, p) : j <= k}}

\* No answer to what is no request, nor to a payload the longer reply header leaves no
\* room for.  The driver fills the station in.
respond(routes, m) ==
    IF m.txn = {} \/ Size[m.body] > kMaxReplyPayload
      THEN {}
      ELSE {[m EXCEPT !.station = 0, !.dst = route_lookup(routes, m.body)]}
=============================================================================
