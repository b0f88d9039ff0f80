------------------------ MODULE RelaySystemInvariant ------------------------
(***************************************************************************)
(* The inductive invariant behind the safety properties of RelaySystem.    *)
(* The relay's part is SafeInv, which a restart keeps; its accounts do not *)
(* survive one, and its numbers mean something only before the first.      *)
(***************************************************************************)
EXTENDS RelaySystem, RelayInvariant

\* A table that a responder came up with names stations only.
RoutesWhere ==
    \A s \in Slaves : \A routes \in routes_[s] :
        /\ DOMAIN routes \subseteq Nat
        /\ \A i \in DOMAIN routes : routes[i].station \in Station

\* Every answer on its way names what the slave chose for what it had read; it was asked
\* of that slave, unless a stray frame asked.
AnswersWhere ==
    /\ DOMAIN published = Slaves
    /\ \A s \in Slaves : \A m \in published[s] :
          /\ m \in Frame /\ m.station = 0 /\ m.txn # {} /\ Size[m.body] <= kMaxReplyPayload
          /\ \E routes \in routes_[s] : m.dst = route_lookup(routes, m.body)
          /\ NothingStray =>
                \E q \in tx : q.station = s /\ q.txn = m.txn /\ q.id = m.id /\ Survives(m.body, q)

\* What handle_reply works on surfaced with slave 1's station.
ReplyWhere ==
    /\ \A m \in msg["rx"] : m.station = Slave1 /\ m.txn # {} /\ \E s \in Slaves : m \in Surfacing(s)
    /\ at["rx"] = "idle" => msg["rx"] = {}

\* In the first life of the relay a number stands for one transaction in TxnMod, and an
\* accepted answer is one to the transaction it ended.
NumbersWhere ==
    /\ pending = started % TxnMod /\ txn = pending
    /\ \A q \in tx : q.txn # {} => q.txn = {q.id % TxnMod}
    /\ \A m \in msg["rx"] : Fresh(m)
    /\ NothingStray /\ at["rx"] \in {"cancel", "dispatch"} => \A m \in msg["rx"] : m.id = started

SystemInv ==
    /\ SafeInv
    /\ restarts \in Nat
    /\ RoutesWhere /\ AnswersWhere /\ ReplyWhere
    /\ ForwardsSomeAnswer /\ ForwardsItsAnswer
    /\ restarts = 0 => NumbersWhere
=============================================================================
