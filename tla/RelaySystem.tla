----------------------------- MODULE RelaySystem -----------------------------
(***************************************************************************)
(* The three hops: the relay asks slave 1, slave 1 answers with the station*)
(* of its choice, the relay forwards the payload there.  Each hop goes     *)
(* through two drivers; the radio and the topics' queues may lose, delay,  *)
(* reorder and repeat frames: any frame published so far may arrive, any   *)
(* number of times, or never.  All slaves hear the master, and each runs a *)
(* responder.  A frame that reaches a port reaches it whole, and is there  *)
(* what feed takes it for.  Heard holds frames of stations outside the     *)
(* system, those that noise is taken for included.                         *)
(*                                                                         *)
(* The relay node can be restarted; its numbers then start again.          *)
(***************************************************************************)
EXTENDS Relay, Responder, Link

CONSTANTS Slaves,      \* stations of the slaves
          RouteMaps,   \* for each, the route_map parameters it may be launched with
          MaxRestarts  \* bound on the restarts of the relay

ASSUME SystemParameters ==
    /\ Slave1 \in Slaves /\ Slaves \subseteq Station
    /\ RouteMaps \in [Slaves -> SUBSET Seq(Entry)]
    /\ MaxRestarts \in Nat
    /\ \A m \in Heard : m.station \notin Slaves

VARIABLES routes_,    \* the slaves' routing tables, {} if the node did not come up
          published,  \* frames each responder has published on its tx topic
          restarts    \* of the relay

slaves == <<routes_, published>>
sysvars == <<vars, slaves, restarts>>

SysInit ==
    /\ Init
    /\ \E spec \in [Slaves -> UNION {RouteMaps[s] : s \in Slaves}] :
          /\ \A s \in Slaves : spec[s] \in RouteMaps[s]
          /\ routes_ = [s \in Slaves |-> parse_route_map(spec[s])]
    /\ published = [s \in Slaves |-> {}]
    /\ restarts = 0

RelayStep == LocalNext /\ UNCHANGED <<slaves, restarts>>

\* A responder takes a frame the relay has published and its driver has surfaced.
SlaveHears(s) ==
    /\ \E q \in tx : \E m \in ToSlave(s, q) : \E routes \in routes_[s] :
          published' = [published EXCEPT ![s] = @ \cup respond(routes, m)]
    /\ UNCHANGED <<vars, routes_, restarts>>

\* What may surface on /master/rx from a slave.
Surfacing(s) == UNION {ToMaster(s, a) : a \in published[s]}

\* No frame stays on its way while TxnMod transactions are started, a full turn
\* of the 16-bit number (at least 30 minutes at the round trip of 30 ms).
Fresh(m) == started - m.id < TxnMod

\* What may come next on /master/rx, from the slaves or from foreign stations.
Arriving == Heard \cup {m \in UNION {Surfacing(s) : s \in Slaves} : Fresh(m)}

RelayHears ==
    /\ \E m \in Arriving : TakeReply(m) \/ IgnoreForeign(m)
    /\ UNCHANGED <<slaves, restarts>>

\* The relay process is killed and launched again; only what it has published, and
\* the auxiliary count, outlive it.
Restart ==
    /\ restarts < MaxRestarts
    /\ restarts' = restarts + 1
    /\ busy' = FALSE /\ txn' = 0 /\ pending' = 0 /\ attempt' = 0 /\ payload' = Empty
    /\ timer' = "off"
    /\ stats' = [c \in Counters |-> 0]
    /\ at' = [h \in Handlers |-> "idle"]
    /\ arg' = [h \in Starters |-> {}]
    /\ msg' = [h \in Handlers |-> {}]
    /\ UNCHANGED <<started, tx, slaves>>

SysNext ==
    \/ RelayStep
    \/ \E s \in Slaves : SlaveHears(s)
    \/ RelayHears
    \/ Restart

SysSpec == SysInit /\ [][SysNext]_sysvars

-----------------------------------------------------------------------------
(* Properties *)

\* Slave 1's table chooses station d for payload p: the first rule, as written, whose
\* keyword p mentions, or the default if there is none.
Chosen(d, p) ==
    \E routes \in routes_[Slave1] :
        \/ d = default_dst_ /\ \A i \in DOMAIN routes : routes[i].keyword \notin Mentions[p]
        \/ \E i \in DOMAIN routes :
              /\ d = routes[i].station /\ routes[i].keyword \in Mentions[p]
              /\ \A j \in DOMAIN routes : j < i => routes[j].keyword \notin Mentions[p]

Forwards == {f \in tx : f.txn = {}}

\* All frames on the air so far, as the drivers send them, and the premise that none
\* of them has a frame of another content in its bytes.  About one in 65536 byte
\* strings carries its own checksum; without the premise there is no limit to what
\* may surface.  Frames that are cut short are not excluded by it.
OnAir == tx \cup UNION {UNION {on_tx("slave", s, a) : a \in published[s]} : s \in Slaves}
NothingStray == \A m \in OnAir : StraysOf(m) = {}

\* Neither the request q nor any answer to it has a proper prefix that verifies.
Uncut(q) ==
    \A c \in Cuts : ~(/\ c.whole.station = q.station
                      /\ c.whole.txn = q.txn
                      /\ c.whole.body = q.body)

\* What may be left of the payload of q, which is all of it if nothing is cut.
Survives(p, q) == p \in Prefixes[q.body] /\ (Uncut(q) => p = q.body)

\* f forwards what was left of the payload asked with q, to the station slave 1's table
\* selects for what slave 1 has read of it.
Answers(f, q) ==
    \E read \in Prefixes[q.body] :
        /\ f.body \in Prefixes[read] /\ Chosen(f.station, read)
        /\ Uncut(q) => f.body = q.body /\ read = q.body

\* What the relay may hear from station s was asked of s: the same number, and the
\* payload or, cut short, the beginning of it, in a request addressed to s, whatever
\* its neighbours hear and answer (ds10_node.cpp:100, 189-198).
AnswersWereAsked ==
    NothingStray =>
        \A s \in Slaves : \A m \in Surfacing(s) :
            /\ m.station = s
            /\ m.txn # {} =>
                  \E q \in tx : q.station = s /\ q.txn = m.txn /\ Survives(m.body, q)

\* Whatever table a node came up with, each of its answers gets through its driver's
\* encode, and the relay can act on the station it names (relay_node.cpp:237, 286).
AnswersUsable ==
    \A s \in Slaves : \A m \in published[s] :
        on_tx("slave", s, m) # {} /\ \A d \in m.dst : d = kNoForward \/ is_forwardable(d)

\* End to end: what a transaction forwards answers its own request, in spite of late
\* answers, repeated ones, and answers to earlier transactions, with a payload of
\* their own.  Where feed cuts the request or the answer short
\* (modbus_frame_codec.cpp:80-93), the payload forwarded is cut short, and the
\* station is the one selected for what slave 1 has read; the next attempt does no
\* better.  Otherwise it is the payload asked with.
ForwardsItsAnswer ==
    restarts = 0 /\ NothingStray =>
        \A f \in Forwards : \E q \in tx : q.txn # {} /\ q.id = f.id /\ Answers(f, q)

\* Even across a restart, after which an answer to the previous life of the relay
\* may be taken for the pending one's, a payload is never sent to a station
\* slave 1 did not choose for it, and nothing is forwarded but what was asked or,
\* where feed cuts a frame short, the beginning of it.
ForwardsSomeAnswer ==
    NothingStray =>
        \A f \in Forwards : \E q \in tx : q.txn # {} /\ q.id <= f.id /\ Answers(f, q)

\* A payload the reply header leaves no room for is asked but never answered, unless
\* its request is cut short: the transaction cannot be accepted, only given up
\* (transaction.hpp:88-92).
UnanswerableGivesUp ==
    restarts = 0 /\ NothingStray /\ at["rx"] \in {"cancel", "dispatch"} /\ Uncut(Request)
        => Size[payload] <= kMaxReplyPayload

\* Each life of the relay keeps its promise, whatever answers to earlier lives still
\* arrive: but for the restarts, every step of the system is a step of OneOutcome, an
\* outcome of the one transaction that has none yet, or leaves it as it is
\* (relay_node.cpp:336-447, 486-547).
OneOutcomePerLife == [][restarts' = restarts => [Abstract!Next]_(Abstract!vars)]_sysvars
=============================================================================
