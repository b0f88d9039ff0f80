------------------------- MODULE RelaySystemProofs -------------------------
(***************************************************************************)
(* Proofs about RelaySystem: what the relay hears was asked, and what it   *)
(* forwards is an answer of slave 1, in the first life of the relay the    *)
(* answer to the very transaction it ends, cut short only where the frames *)
(* are.                                                                    *)
(***************************************************************************)
EXTENDS RelaySystemInvariant, RelayProofs, NumberProofs

-----------------------------------------------------------------------------
(* The relay seen by the system: numbers, published frames, the reply at work *)

Numbers == <<started, txn, pending>>
Reply == <<at["rx"], msg["rx"]>>

Quiet == UNCHANGED <<Numbers, tx, Reply>>

Starts ==
    /\ at["rx"] = "idle"
    /\ started' = started + 1 /\ txn' = (txn + 1) % TxnMod /\ pending' = txn'
    /\ UNCHANGED <<tx, Reply>>

Publishes ==
    /\ busy /\ Request \in Frame
    /\ tx' = tx \cup {Request}
    /\ UNCHANGED <<Numbers, Reply>>

Accepts ==
    /\ at["rx"] = "match" /\ (\E m \in msg["rx"] : pending \in m.txn) /\ at'["rx"] = "cancel"
    /\ UNCHANGED <<Numbers, tx, msg["rx"]>>

Cancels ==
    /\ at["rx"] = "cancel" /\ at'["rx"] = "dispatch"
    /\ UNCHANGED <<Numbers, tx, msg["rx"]>>

Returns ==
    /\ at'["rx"] = "idle" /\ msg'["rx"] = {}
    /\ UNCHANGED <<Numbers, tx>>

Relays ==
    /\ at["rx"] = "dispatch" /\ at'["rx"] = "idle" /\ msg'["rx"] = {}
    /\ \E m \in msg["rx"] : \E d \in m.dst :
          tx' = tx \cup {Forward(d, m.body)} /\ Forward(d, m.body) \in Frame
    /\ UNCHANGED Numbers

\* A step of the relay on its own is one of these.
LEMMA LocalKinds ==
    ASSUME SafeInv, LocalNext
    PROVE  Quiet \/ Starts \/ Publishes \/ Accepts \/ Cancels \/ Returns \/ Relays
<1> USE DEF SafeInv, TypeOK, OneRuns, core, Go, Return, Handlers, Senders, Starters, Numbers, Reply
<1>1. CASE \E h \in Starters, p \in Payloads : TakeStart(h, p)
  BY <1>1 DEF TakeStart, Quiet
<1>2. CASE TimerExpires \/ TakeTimer \/ TimerCancels
  BY <1>2 DEF TimerExpires, TakeTimer, TimerCancels, Quiet
<1>3. ASSUME NEW h \in Starters, StarterStep(h)
      PROVE  Quiet \/ Starts
  <2>1. CASE StartTransaction(h)
    BY <2>1 DEF StartTransaction, FirstAttempt, Starts
  <2>2. CASE StartRefused(h) \/ StartAllowed(h) \/ PayloadTooLong(h)
    BY <2>2 DEF StartRefused, StartAllowed, PayloadTooLong, Quiet
  <2>3. QED BY <1>3, <2>1, <2>2 DEF StarterStep
<1>4. ASSUME NEW h \in Senders, SenderStep(h)
      PROVE  Quiet \/ Publishes
  <2>1. CASE Attempt(h) \/ GiveUp(h) \/ ArmTimer(h)
    BY <2>1 DEF Attempt, GiveUp, ArmTimer, Quiet
  <2>2. CASE PublishRequest(h)
    <3>1. /\ busy /\ tx' = tx \cup {Request} /\ Go(h, "arm") /\ h # "rx"
          /\ UNCHANGED <<core, msg, started>>
      BY <2>2, PublishRequestFacts
    <3>2. Request \in Frame
      BY RelayParameters, FrameParameters
      DEF Request, NewFrame, Frame, Optional, Byte, Station, kMinStation, kMaxStation
    <3>3. QED BY <3>1, <3>2 DEF Publishes
  <2>3. QED BY <1>4, <2>1, <2>2 DEF SenderStep
<1>5. CASE ReplyStep
  <2>1. CASE AcceptReply
    BY <2>1 DEF AcceptReply, Awaited, Accepts
  <2>2. CASE CancelTimer
    BY <2>2 DEF CancelTimer, Cancels
  <2>3. CASE RejectReply \/ BadDst \/ NoForward
    BY <2>3 DEF RejectReply, BadDst, NoForward, Returns
  <2>4. CASE ForwardReply
    BY <2>4, ForwardReplyFacts DEF Relays
  <2>5. QED BY <1>5, <2>1, <2>2, <2>3, <2>4 DEF ReplyStep
<1>6. CASE Spin
  BY <1>6 DEF Spin, vars, Quiet
<1>7. QED BY <1>1, <1>2, <1>3, <1>4, <1>5, <1>6 DEF LocalNext, HandlerStep

-----------------------------------------------------------------------------
(* The links and the responders *)

\* What feed makes of a frame, and without stray frames in it: the frame or less of it.
LEMMA FeedFacts ==
    ASSUME NEW q \in Frame, NEW f \in feed(q)
    PROVE  /\ f \in Frame /\ f.id = q.id
           /\ DataLen(q) <= kMaxData => DataLen(f) <= kMaxData
           /\ StraysOf(q) = {} =>
                 /\ f.station = q.station
                 /\ f.txn # {} =>
                       /\ f.txn = q.txn /\ f.dst = q.dst /\ f.body \in Prefixes[q.body]
                       /\ CutsOf(q) = {} => f.body = q.body
<1>1. ASSUME NEW w \in Wire
      PROVE  Found(w, q) \in Frame /\ Found(w, q).id = q.id /\ DataLen(Found(w, q)) = DataLen(w)
  BY DEF Found, Wire, Frame, DataLen
<1>2. OnWire(q) \in Wire /\ DataLen(OnWire(q)) = DataLen(q)
  BY DEF OnWire, Wire, Frame, DataLen
<1>3. \A m \in Frame : DataLen(m) \in Nat
  BY FrameParameters DEF Frame, DataLen, kHeaderLen, kReplyHeaderLen
<1>4. kMaxData \in Nat
  BY DataCap
<1>5. CASE \E r \in StraysOf(q) : f = Found(r.found, q)
  <2>1. PICK r \in StraysOf(q) : f = Found(r.found, q)
    BY <1>5
  <2>2. r.found \in Wire /\ DataLen(r.found) <= kMaxData
    BY CutParameters DEF StraysOf
  <2>3. QED BY <1>1, <2>1, <2>2
<1>6. CASE CutsOf(q) = {} /\ f = q
  BY <1>6, PrefixParameters DEF Frame
<1>7. CASE \E c \in CutsOf(q) : f = Found(c.head, q)
  <2>1. PICK c \in CutsOf(q) : f = Found(c.head, q)
    BY <1>7
  <2>2. c \in Cuts /\ c.whole = OnWire(q) /\ c.head \in Wire
    BY CutParameters DEF CutsOf
  <2>3. f \in Frame /\ f.id = q.id /\ DataLen(f) = DataLen(c.head)
    BY <1>1, <2>1, <2>2
  <2>4. DataLen(f) < DataLen(q)
    BY <1>2, <2>2, <2>3, CutParameters
  <2>5. DataLen(q) <= kMaxData => DataLen(f) <= kMaxData
    BY <1>3, <1>4, <2>3, <2>4
  <2>6. /\ c.whole.station = q.station /\ c.whole.txn = q.txn
        /\ c.whole.dst = q.dst /\ c.whole.body = q.body
    BY <2>2 DEF OnWire
  <2>7. /\ f.station = c.head.station /\ f.txn = c.head.txn
        /\ f.dst = c.head.dst /\ f.body = c.head.body
    BY <2>1 DEF Found
  <2>8. /\ c.head.station = c.whole.station
        /\ c.head.txn # {} => /\ c.head.txn = c.whole.txn /\ c.head.dst = c.whole.dst
                              /\ c.head.body \in Prefixes[c.whole.body]
    BY <2>2, CutParameters
  <2>9. QED BY <2>1, <2>3, <2>5, <2>6, <2>7, <2>8
<1>8. QED BY <1>5, <1>6, <1>7 DEF feed, shortest

\* Where neither a request nor its answers are cut, feed cuts neither.
LEMMA UncutFrames ==
    ASSUME NEW q, NEW m, Uncut(q), m.station = q.station, m.txn = q.txn, m.body = q.body
    PROVE  CutsOf(m) = {}
BY DEF Uncut, CutsOf, OnWire

\* What a slave hears was sent to it, unless it is a stray.
LEMMA HeardBySlave ==
    ASSUME NEW s \in Slaves, NEW q \in Frame, NEW m \in ToSlave(s, q)
    PROVE  /\ m \in Frame /\ m.station = 0 /\ m.id = q.id
           /\ StraysOf(q) = {} =>
                 q.station = s /\ (m.txn # {} => m.txn = q.txn /\ Survives(m.body, q))
<1>1. 0 \in Byte
  BY DEF Byte
<1>2. on_tx("master", 0, q) \subseteq {q}
  BY DEF on_tx, Frame
<1>3. PICK f \in feed(q) : m \in publish_frame("slave", s, f)
  BY <1>2 DEF ToSlave
<1>4. f.station = s /\ m = [f EXCEPT !.station = 0]
  BY <1>3 DEF publish_frame
<1>5. f \in Frame
  BY FeedFacts
<1>6. /\ m \in Frame /\ m.station = 0 /\ m.id = f.id
      /\ m.txn = f.txn /\ m.body = f.body
  BY <1>1, <1>4, <1>5 DEF Frame
<1>7. Uncut(q) => CutsOf(q) = {}
  BY UncutFrames
<1>8. QED BY <1>4, <1>6, <1>7, FeedFacts DEF Survives

\* An answer as its slave's driver sends it.
Stamped(s, a) == [a EXCEPT !.station = s]

\* What a slave's driver sends, and what the relay hears of it.
LEMMA HeardByMaster ==
    ASSUME NEW s \in Slaves, NEW a \in Frame, a.txn # {}, Size[a.body] <= kMaxReplyPayload
    PROVE  /\ on_tx("slave", s, a) = {Stamped(s, a)}
           /\ \A m \in ToMaster(s, a) :
                 /\ m \in Frame /\ m.id = a.id
                 /\ m.txn # {} /\ m.dst # {} => Size[m.body] <= kMaxReplyPayload
                 /\ StraysOf(Stamped(s, a)) = {} =>
                       /\ m.station = s
                       /\ m.txn # {} =>
                             /\ m.txn = a.txn /\ m.dst = a.dst /\ m.body \in Prefixes[a.body]
                             /\ CutsOf(Stamped(s, a)) = {} => m.body = a.body
<1> DEFINE sent == Stamped(s, a)
<1>1. s \in Byte
  BY SystemParameters DEF Station, kMinStation, kMaxStation, Byte
<1>2. /\ sent \in Frame /\ sent.station = s /\ sent.txn = a.txn
      /\ sent.dst = a.dst /\ sent.body = a.body /\ sent.id = a.id
  BY <1>1 DEF Stamped, Frame
<1>3. DataLen(a) <= kMaxData /\ DataLen(sent) <= kMaxData
  <2>1. Size[a.body] \in Nat
    BY FrameParameters DEF Frame
  <2>2. DataLen(a) <= kMaxData
    BY <2>1, DataCap DEF DataLen, kMaxReplyPayload, kReplyHeaderLen, kHeaderLen
  <2>3. QED BY <1>2, <2>2 DEF DataLen
<1>4. on_tx("slave", s, a) = {sent}
  <2>1. DataLen(a) \in Nat
    BY FrameParameters DEF Frame, DataLen, kHeaderLen, kReplyHeaderLen
  <2>2. ~(2 + DataLen(a) + 2 > max_frame_len_)
    BY <1>3, <2>1, LinkParameters, DataCap
  <2>3. QED BY <2>2 DEF on_tx, Stamped
<1>5. ASSUME NEW m \in ToMaster(s, a)
      PROVE  m \in feed(sent)
  <2>1. PICK f \in feed(sent) : m \in publish_frame("master", 0, f)
    BY <1>4 DEF ToMaster
  <2>2. f \in Frame
    BY <1>2, FeedFacts
  <2>3. m = [f EXCEPT !.station = f.station]
    BY <2>1 DEF publish_frame
  <2>4. QED BY <2>2, <2>3 DEF Frame
<1>6. ASSUME NEW m \in ToMaster(s, a), m.txn # {}, m.dst # {}
      PROVE  Size[m.body] <= kMaxReplyPayload
  <2>1. m \in Frame /\ DataLen(m) <= kMaxData
    BY <1>2, <1>3, <1>5, FeedFacts
  <2>2. Size[m.body] \in Nat
    BY <2>1, FrameParameters DEF Frame
  <2>3. QED BY <1>6, <2>1, <2>2, DataCap DEF DataLen, kMaxReplyPayload, kReplyHeaderLen, kHeaderLen
<1>7. QED BY <1>2, <1>4, <1>5, <1>6, FeedFacts

\* The table selects one station, or the default.
LEMMA OneRoute ==
    ASSUME NEW routes, DOMAIN routes \subseteq Nat, NEW p \in Payloads,
           \A i \in DOMAIN routes : routes[i].station \in Station
    PROVE  /\ route_lookup(routes, p) \in Optional(Byte)
           /\ \A d \in route_lookup(routes, p) : d = kNoForward \/ is_forwardable(d)
<1>1. default_dst_ \in Byte /\ (default_dst_ = kNoForward \/ is_forwardable(default_dst_))
  BY ResponderParameters
  DEF checked_station, kMinStation, kMaxStation, kNoForward, Byte, is_forwardable
<1>2. Matching(routes, p) \subseteq DOMAIN routes
  BY DEF Matching
<1>3. \A i \in DOMAIN routes : routes[i].station \in Byte /\ is_forwardable(routes[i].station)
  BY DEF Station, kMinStation, kMaxStation, Byte, is_forwardable
<1>4. \A i, j \in Matching(routes, p) : i <= j /\ j <= i => i = j
  BY <1>2
<1>5. QED BY <1>1, <1>2, <1>3, <1>4 DEF route_lookup, Optional

\* It is the station of the first rule whose keyword the payload mentions.
LEMMA FirstRoute ==
    ASSUME NEW routes \in routes_[Slave1], DOMAIN routes \subseteq Nat,
           NEW p, NEW d \in route_lookup(routes, p)
    PROVE  Chosen(d, p)
<1>1. CASE Matching(routes, p) = {}
  BY <1>1 DEF route_lookup, Matching, Chosen
<1>2. CASE Matching(routes, p) # {}
  <2>1. PICK i \in Matching(routes, p) :
          d = routes[i].station /\ \A k \in Matching(routes, p) : i <= k
    BY <1>2 DEF route_lookup
  <2>2. ASSUME NEW j \in DOMAIN routes, j < i, routes[j].keyword \in Mentions[p]
        PROVE  FALSE
    <3>1. i <= j
      BY <2>1, <2>2 DEF Matching
    <3>2. i \in Nat /\ j \in Nat
      BY DEF Matching
    <3>3. QED BY <2>2, <3>1, <3>2
  <2>3. QED BY <2>1, <2>2 DEF Matching, Chosen
<1>3. QED BY <1>1, <1>2

\* The tables of the nodes that came up.
LEMMA ParsedTables ==
    ASSUME NEW spec \in Seq(Entry), NEW routes \in parse_route_map(spec)
    PROVE  /\ DOMAIN routes \subseteq Nat
           /\ \A i \in DOMAIN routes : routes[i].station \in Station
<1>1. /\ routes = [i \in {j \in DOMAIN spec : spec[j].text = "rule"} |-> spec[i]]
      /\ \A i \in DOMAIN spec : spec[i].text = "rule" => checked_station(spec[i].station)
  BY DEF parse_route_map
<1>2. DOMAIN spec \subseteq Nat
  <2>1. Len(spec) \in Nat /\ DOMAIN spec = 1..Len(spec)
    OBVIOUS
  <2>2. QED BY <2>1
<1>3. ASSUME NEW i \in DOMAIN spec PROVE spec[i].station \in Int
  <2>1. spec[i] \in Entry
    OBVIOUS
  <2>2. QED BY <2>1 DEF Entry
<1>4. DOMAIN routes \subseteq DOMAIN spec
  BY <1>1
<1>5. ASSUME NEW i \in DOMAIN routes PROVE routes[i].station \in Station
  <2>1. i \in DOMAIN spec /\ routes[i] = spec[i] /\ checked_station(spec[i].station)
    BY <1>1
  <2>2. spec[i].station \in Int /\ 1 <= spec[i].station /\ spec[i].station <= 247
    BY <2>1, <1>3 DEF checked_station, kMinStation, kMaxStation
  <2>3. routes[i].station = spec[i].station
    BY <2>1
  <2>4. \A x \in Int : 1 <= x /\ x <= 247 => x \in Station
    BY DEF Station, kMinStation, kMaxStation
  <2>5. QED BY <2>2, <2>3, <2>4
<1>6. QED BY <1>2, <1>4, <1>5

-----------------------------------------------------------------------------
(* What a step of the system keeps *)

\* Frames on the air stay there: what holds without stray frames held before as well.
LEMMA AirGrows ==
    ASSUME tx \subseteq tx', \A s \in Slaves : published[s] \subseteq published'[s]
    PROVE  /\ NothingStray' => NothingStray
           /\ \A s \in Slaves : Surfacing(s) \subseteq Surfacing(s)'
<1>1. OnAir \subseteq OnAir'
  BY DEF OnAir
<1>2. QED BY <1>1 DEF NothingStray, Surfacing

\* What may surface from a slave, the request it answers, and what was read of it.
LEMMA SurfacingFacts ==
    ASSUME SystemInv, NEW s \in Slaves, NEW m \in Surfacing(s)
    PROVE  /\ m \in Frame
           /\ m.txn # {} /\ m.dst # {} => Size[m.body] <= kMaxReplyPayload
           /\ NothingStray => m.station = s
           /\ NothingStray /\ m.txn # {} =>
                 \E q \in tx : \E read \in Prefixes[q.body] : \E routes \in routes_[s] :
                    /\ q.station = s /\ q.txn = m.txn /\ q.id = m.id /\ Survives(m.body, q)
                    /\ m.body \in Prefixes[read] /\ (Uncut(q) => read = q.body)
                    /\ Size[m.body] <= kMaxReplyPayload
                    /\ m.dst = route_lookup(routes, read)
<1>1. PICK a \in published[s] : m \in ToMaster(s, a)
  BY DEF Surfacing
<1>2. a \in Frame /\ a.txn # {} /\ Size[a.body] <= kMaxReplyPayload
  BY DEF SystemInv, AnswersWhere
<1> DEFINE sent == Stamped(s, a)
<1>3. on_tx("slave", s, a) = {sent}
  BY <1>2, HeardByMaster
<1>4. /\ m \in Frame /\ m.id = a.id
      /\ m.txn # {} /\ m.dst # {} => Size[m.body] <= kMaxReplyPayload
      /\ StraysOf(sent) = {} =>
            /\ m.station = s
            /\ m.txn # {} =>
                  /\ m.txn = a.txn /\ m.dst = a.dst /\ m.body \in Prefixes[a.body]
                  /\ CutsOf(sent) = {} => m.body = a.body
  BY <1>1, <1>2, HeardByMaster
<1>5. s \in Byte
  BY SystemParameters DEF Station, kMinStation, kMaxStation, Byte
<1>6. sent.station = s /\ sent.txn = a.txn /\ sent.body = a.body
  BY <1>2, <1>5 DEF Stamped, Frame
<1> HIDE DEF sent
<1>7. NothingStray => StraysOf(sent) = {}
  BY <1>3 DEF NothingStray, OnAir
<1>8. ASSUME NothingStray, m.txn # {}
      PROVE  \E q \in tx : \E read \in Prefixes[q.body] : \E routes \in routes_[s] :
                /\ q.station = s /\ q.txn = m.txn /\ q.id = m.id /\ Survives(m.body, q)
                /\ m.body \in Prefixes[read] /\ (Uncut(q) => read = q.body)
                /\ Size[m.body] <= kMaxReplyPayload
                /\ m.dst = route_lookup(routes, read)
  <2>1. PICK q \in tx : q.station = s /\ q.txn = a.txn /\ q.id = a.id /\ Survives(a.body, q)
    BY <1>8 DEF SystemInv, AnswersWhere
  <2>2. PICK routes \in routes_[s] : a.dst = route_lookup(routes, a.body)
    BY DEF SystemInv, AnswersWhere
  <2>3. /\ m.txn = a.txn /\ m.dst = a.dst /\ m.body \in Prefixes[a.body]
        /\ CutsOf(sent) = {} => m.body = a.body
    BY <1>4, <1>7, <1>8
  <2>4. a.body \in Prefixes[q.body] /\ q.body \in Payloads
    BY <2>1 DEF Survives, SystemInv, SafeInv, TypeOK, Frame
  <2>5. m.body \in Prefixes[q.body]
    BY <2>3, <2>4, PrefixParameters
  <2>6. ASSUME Uncut(q) PROVE a.body = q.body /\ m.body = q.body
    <3>1. a.body = q.body
      BY <2>1, <2>6 DEF Survives
    <3>2. CutsOf(sent) = {}
      BY <1>6, <2>1, <2>6, <3>1, UncutFrames
    <3>3. QED BY <2>3, <3>1, <3>2
  <2>7. Size[m.body] <= kMaxReplyPayload
    <3>1. a.body \in Payloads /\ m.body \in Payloads
      BY <1>2, <1>4 DEF Frame
    <3>2. Size[a.body] \in Nat /\ Size[m.body] \in Nat
      BY <3>1, FrameParameters
    <3>3. m.body = a.body \/ Size[m.body] < Size[a.body]
      BY <2>3, <3>1, PrefixParameters
    <3>4. QED BY <1>2, <3>2, <3>3, DataCap DEF kMaxReplyPayload, kReplyHeaderLen, kHeaderLen
  <2>8. Survives(m.body, q) /\ q.txn = m.txn /\ q.id = m.id
    BY <1>4, <2>1, <2>3, <2>5, <2>6 DEF Survives
  <2>9. a.body \in Prefixes[q.body] /\ (Uncut(q) => a.body = q.body)
    BY <2>4, <2>6
  <2>10. m.dst = route_lookup(routes, a.body)
    BY <2>2, <2>3
  <2>11. QED BY <2>1, <2>3, <2>7, <2>8, <2>9, <2>10
<1>9. QED BY <1>4, <1>7, <1>8

\* The reply that handle_reply works on: whose request it answers, what it names.
LEMMA ReplyFacts ==
    ASSUME SystemInv, NothingStray, NEW m \in msg["rx"]
    PROVE  \E q \in tx : /\ q.txn = m.txn /\ q.txn # {} /\ q.id = m.id
                         /\ Size[m.body] <= kMaxReplyPayload /\ Survives(m.body, q)
                         /\ \A f : f.station \in m.dst /\ f.body = m.body => Answers(f, q)
<1>1. PICK s \in Slaves : m \in Surfacing(s)
  BY DEF SystemInv, ReplyWhere
<1>2. s = Slave1 /\ m.txn # {}
  BY <1>1, SurfacingFacts DEF SystemInv, ReplyWhere
<1>3. PICK q \in tx : \E read \in Prefixes[q.body] : \E routes \in routes_[Slave1] :
        /\ q.txn = m.txn /\ q.id = m.id /\ Survives(m.body, q)
        /\ m.body \in Prefixes[read] /\ (Uncut(q) => read = q.body)
        /\ Size[m.body] <= kMaxReplyPayload
        /\ m.dst = route_lookup(routes, read)
  BY <1>1, <1>2, SurfacingFacts
<1>4. PICK read \in Prefixes[q.body] : \E routes \in routes_[Slave1] :
        /\ m.body \in Prefixes[read] /\ (Uncut(q) => read = q.body)
        /\ m.dst = route_lookup(routes, read)
  BY <1>3
<1>5. PICK routes \in routes_[Slave1] : m.dst = route_lookup(routes, read)
  BY <1>4
<1>6. DOMAIN routes \subseteq Nat
  BY <1>1, <1>2 DEF SystemInv, RoutesWhere
<1>7. \A d \in m.dst : Chosen(d, read)
  BY <1>5, <1>6, FirstRoute
<1>8. \A f : f.station \in m.dst /\ f.body = m.body => Answers(f, q)
  BY <1>3, <1>4, <1>7 DEF Answers, Survives
<1>9. QED BY <1>2, <1>3, <1>8

\* While the relay moves, the slaves' side stays as it is.
LEMMA SlavesKept ==
    ASSUME SystemInv, UNCHANGED slaves, tx \subseteq tx'
    PROVE  /\ RoutesWhere' /\ AnswersWhere'
           /\ \A s \in Slaves : Surfacing(s)' = Surfacing(s)
           /\ NothingStray' => NothingStray
           /\ \A f, q : Answers(f, q) => Answers(f, q)'
<1> USE DEF SystemInv, slaves
<1>1. RoutesWhere'
  BY DEF RoutesWhere
<1>2. NothingStray' => NothingStray
  BY AirGrows
<1>3. AnswersWhere'
  BY <1>2 DEF AnswersWhere
<1>4. QED BY <1>1, <1>2, <1>3 DEF Surfacing, Chosen, Answers

\* Requests do not disturb what has been forwarded.
LEMMA ForwardsKept ==
    ASSUME SystemInv, UNCHANGED <<slaves, restarts>>, tx \subseteq tx',
           \A f \in tx' : f \in tx \/ f.txn # {}
    PROVE  ForwardsSomeAnswer' /\ ForwardsItsAnswer'
<1>1. Forwards' = Forwards /\ (NothingStray' => NothingStray)
  BY SlavesKept DEF Forwards
<1>2. \A f, q : Answers(f, q) => Answers(f, q)'
  BY SlavesKept
<1>3. ForwardsSomeAnswer'
  BY <1>1, <1>2 DEF SystemInv, ForwardsSomeAnswer
<1>4. ForwardsItsAnswer'
  BY <1>1, <1>2 DEF SystemInv, ForwardsItsAnswer
<1>5. QED BY <1>3, <1>4

\* What handle_reply works on surfaced before, and still does.
LEMMA ReplyKept ==
    ASSUME SystemInv, \A s \in Slaves : Surfacing(s) \subseteq Surfacing(s)',
           msg'["rx"] \subseteq msg["rx"], at'["rx"] = "idle" => msg'["rx"] = {}
    PROVE  ReplyWhere'
BY DEF SystemInv, ReplyWhere

-----------------------------------------------------------------------------
(* The steps of the system *)

\* A step that publishes no frame and leaves the numbers alone.
LEMMA QuietKeeps ==
    ASSUME SystemInv, SafeInv', UNCHANGED <<slaves, restarts, Numbers, tx>>,
           \/ UNCHANGED Reply
           \/ Cancels
           \/ Returns
    PROVE  SystemInv'
<1> USE DEF Numbers, Reply
<1>1. RoutesWhere' /\ AnswersWhere' /\ ForwardsSomeAnswer' /\ ForwardsItsAnswer'
  BY SlavesKept, ForwardsKept
<1>2. ReplyWhere'
  BY SlavesKept, ReplyKept DEF SystemInv, ReplyWhere, Cancels, Returns
<1>3. ASSUME restarts' = 0 PROVE NumbersWhere'
  <2>1. NumbersWhere /\ (NothingStray' => NothingStray)
    BY <1>3, SlavesKept DEF SystemInv
  <2>2. QED BY <2>1 DEF NumbersWhere, Fresh, Cancels, Returns
<1>4. QED BY <1>1, <1>2, <1>3 DEF SystemInv

LEMMA StartsKeeps ==
    ASSUME SystemInv, SafeInv', UNCHANGED <<slaves, restarts>>, Starts
    PROVE  SystemInv'
<1> USE DEF Starts, Reply
<1>1. RoutesWhere' /\ AnswersWhere' /\ ForwardsSomeAnswer' /\ ForwardsItsAnswer'
  BY SlavesKept, ForwardsKept
<1>2. ReplyWhere' /\ msg["rx"] = {}
  BY SlavesKept, ReplyKept DEF SystemInv, ReplyWhere
<1>3. ASSUME restarts' = 0 PROVE NumbersWhere'
  <2>1. NumbersWhere
    BY <1>3 DEF SystemInv
  <2>2. TxnMod \in Nat \ {0} /\ started \in Nat
    BY FrameParameters DEF SystemInv, SafeInv, TypeOK
  <2>3. pending' = started' % TxnMod
    BY <2>1, <2>2, NextNumber DEF NumbersWhere
  <2>4. QED BY <1>2, <2>1, <2>3 DEF NumbersWhere
<1>4. QED BY <1>1, <1>2, <1>3 DEF SystemInv

LEMMA PublishesKeeps ==
    ASSUME SystemInv, SafeInv', UNCHANGED <<slaves, restarts>>, Publishes
    PROVE  SystemInv'
<1> USE DEF Publishes, Numbers, Reply
<1>1. Request.txn = {pending} /\ Request.id = started
  BY DEF Request, NewFrame
<1>2. tx \subseteq tx' /\ \A f \in tx' : f \in tx \/ (f.txn = {pending} /\ f.id = started)
  BY <1>1
<1>3. RoutesWhere' /\ AnswersWhere' /\ ForwardsSomeAnswer' /\ ForwardsItsAnswer'
  BY <1>2, SlavesKept, ForwardsKept
<1>4. ReplyWhere'
  BY <1>2, SlavesKept, ReplyKept DEF SystemInv, ReplyWhere
<1>5. ASSUME restarts' = 0 PROVE NumbersWhere'
  <2>1. NumbersWhere /\ (NothingStray' => NothingStray)
    BY <1>2, <1>5, SlavesKept DEF SystemInv
  <2>2. \A q \in tx' : q.txn # {} => q.txn = {q.id % TxnMod}
    BY <1>2, <2>1 DEF NumbersWhere
  <2>3. QED BY <2>1, <2>2 DEF NumbersWhere, Fresh
<1>6. QED BY <1>3, <1>4, <1>5 DEF SystemInv

LEMMA AcceptsKeeps ==
    ASSUME SystemInv, SafeInv', UNCHANGED <<slaves, restarts>>, Accepts
    PROVE  SystemInv'
<1> USE DEF Accepts, Numbers
<1>1. RoutesWhere' /\ AnswersWhere' /\ ForwardsSomeAnswer' /\ ForwardsItsAnswer'
  BY SlavesKept, ForwardsKept
<1>2. ReplyWhere'
  BY SlavesKept, ReplyKept DEF SystemInv, ReplyWhere
<1>3. ASSUME restarts' = 0 PROVE NumbersWhere'
  <2>1. NumbersWhere /\ (NothingStray' => NothingStray)
    BY <1>3, SlavesKept DEF SystemInv
  <2>2. ASSUME NothingStray, NEW m \in msg["rx"] PROVE m.id = started
    <3>1. m \in Frame /\ pending \in m.txn
      BY DEF SystemInv, SafeInv, TypeOK, Handlers, Optional
    <3>2. PICK q \in tx : q.txn = m.txn /\ q.txn # {} /\ q.id = m.id
      BY <2>2, ReplyFacts
    <3>3. m.id \in Nat /\ started \in Nat /\ m.id <= started
      BY <3>1, <3>2 DEF SystemInv, SafeInv, TypeOK, PublishedWhere, Frame
    <3>4. started % TxnMod = m.id % TxnMod
      BY <2>1, <3>1, <3>2 DEF NumbersWhere
    <3>5. started - m.id < TxnMod
      BY <2>1 DEF NumbersWhere, Fresh
    <3>6. QED BY <3>3, <3>4, <3>5, FrameParameters, SameNumber
  <2>3. QED BY <2>1, <2>2 DEF NumbersWhere, Fresh
<1>4. QED BY <1>1, <1>2, <1>3 DEF SystemInv

\* What is forwarded is an answer: to the pending request, in the first life of the relay.
LEMMA RelaysKeeps ==
    ASSUME SystemInv, SafeInv', UNCHANGED <<slaves, restarts>>, Relays
    PROVE  SystemInv'
<1> USE DEF Relays, Numbers
<1>1. PICK m \in msg["rx"] : \E d \in m.dst : tx' = tx \cup {Forward(d, m.body)}
  OBVIOUS
<1>2. PICK d \in m.dst : tx' = tx \cup {Forward(d, m.body)}
  BY <1>1
<1> PICK new : new = Forward(d, m.body)
  OBVIOUS
<1>3. /\ tx' = tx \cup {new}
      /\ new.station = d /\ new.body = m.body /\ new.id = started /\ new.txn = {}
  BY <1>2 DEF Forward, NewFrame
<1>4. tx \subseteq tx' /\ Forwards' = Forwards \cup {new}
  BY <1>3 DEF Forwards
<1>5. /\ RoutesWhere' /\ AnswersWhere' /\ (NothingStray' => NothingStray)
      /\ \A s \in Slaves : Surfacing(s)' = Surfacing(s)
      /\ \A f, q : Answers(f, q) => Answers(f, q)'
  BY <1>4, SlavesKept
<1>6. ASSUME NothingStray
      PROVE  \E q \in tx : /\ q.txn # {} /\ q.id <= new.id /\ Answers(new, q)'
                           /\ restarts = 0 => q.id = new.id
  <2>1. PICK q \in tx : q.txn # {} /\ q.id = m.id /\ Answers(new, q)
    BY <1>3, <1>6, ReplyFacts
  <2>2. q.id <= started
    BY DEF SystemInv, SafeInv, PublishedWhere
  <2>3. restarts = 0 => m.id = started
    BY <1>6 DEF SystemInv, NumbersWhere
  <2>4. Answers(new, q)'
    BY <1>5, <2>1
  <2>5. QED BY <1>3, <2>1, <2>2, <2>3, <2>4
<1>7. ForwardsSomeAnswer'
  <2>1. ASSUME NothingStray, NEW f \in Forwards
        PROVE  \E q \in tx : q.txn # {} /\ q.id <= f.id /\ Answers(f, q)'
    BY <1>5, <2>1 DEF SystemInv, ForwardsSomeAnswer
  <2>2. NothingStray => \E q \in tx : q.txn # {} /\ q.id <= new.id /\ Answers(new, q)'
    BY <1>6
  <2>3. NothingStray => \A f \in Forwards' : \E q \in tx' :
          q.txn # {} /\ q.id <= f.id /\ Answers(f, q)'
    <3>1. SUFFICES ASSUME NothingStray, NEW f \in Forwards'
                   PROVE  \E q \in tx : q.txn # {} /\ q.id <= f.id /\ Answers(f, q)'
      BY <1>4
    <3>2. QED BY <1>4, <2>1, <2>2, <3>1
  <2>4. QED BY <1>5, <2>3 DEF ForwardsSomeAnswer
<1>8. ForwardsItsAnswer'
  <2>1. ASSUME restarts = 0, NothingStray, NEW f \in Forwards
        PROVE  \E q \in tx : q.txn # {} /\ q.id = f.id /\ Answers(f, q)'
    BY <1>5, <2>1 DEF SystemInv, ForwardsItsAnswer
  <2>2. restarts = 0 /\ NothingStray =>
          \E q \in tx : q.txn # {} /\ q.id = new.id /\ Answers(new, q)'
    BY <1>6
  <2>3. restarts = 0 /\ NothingStray => \A f \in Forwards' : \E q \in tx' :
          q.txn # {} /\ q.id = f.id /\ Answers(f, q)'
    <3>1. SUFFICES ASSUME restarts = 0, NothingStray, NEW f \in Forwards'
                   PROVE  \E q \in tx : q.txn # {} /\ q.id = f.id /\ Answers(f, q)'
      BY <1>4
    <3>2. QED BY <1>4, <2>1, <2>2, <3>1
  <2>4. QED BY <1>5, <2>3 DEF ForwardsItsAnswer
<1>9. ReplyWhere'
  BY <1>5, ReplyKept
<1>10. ASSUME restarts' = 0 PROVE NumbersWhere'
  <2>1. NumbersWhere
    BY <1>10 DEF SystemInv
  <2>2. \A r \in tx' : r.txn # {} => r.txn = {r.id % TxnMod}
    BY <1>3, <2>1 DEF NumbersWhere
  <2>3. QED BY <2>1, <2>2 DEF NumbersWhere
<1>11. QED BY <1>5, <1>7, <1>8, <1>9, <1>10 DEF SystemInv

LEMMA RelayStepKeeps == ASSUME SystemInv, RelayStep PROVE SystemInv'
<1>1. SafeInv' /\ UNCHANGED <<slaves, restarts>>
  BY LocalSafe DEF SystemInv, RelayStep
<1>2. Quiet \/ Starts \/ Publishes \/ Accepts \/ Cancels \/ Returns \/ Relays
  BY LocalKinds DEF SystemInv, RelayStep
<1>3. QED
  BY <1>1, <1>2, QuietKeeps, StartsKeeps, PublishesKeeps, AcceptsKeeps, RelaysKeeps
  DEF Quiet, Cancels, Returns

LEMMA RelayHearsKeeps == ASSUME SystemInv, RelayHears PROVE SystemInv'
<1>1. PICK m \in Arriving : TakeReply(m) \/ IgnoreForeign(m)
  BY DEF RelayHears
<1>2. UNCHANGED <<slaves, restarts>>
  BY DEF RelayHears
<1>3. CASE IgnoreForeign(m)
  <2>1. SafeInv'
    BY <1>3, IgnoreForeignSafe DEF SystemInv
  <2>2. UNCHANGED <<Numbers, tx, Reply>>
    BY <1>3 DEF IgnoreForeign, Numbers, Reply, core
  <2>3. QED BY <1>2, <2>1, <2>2, QuietKeeps
<1>4. CASE TakeReply(m)
  <2>1. m.station = Slave1 /\ m.txn # {} /\ m \notin Heard
    BY <1>4, SystemParameters DEF TakeReply
  <2>2. PICK s \in Slaves : m \in Surfacing(s)
    BY <1>1, <2>1 DEF Arriving
  <2>3. m \in Frame /\ (m.dst # {} => Size[m.body] <= kMaxReplyPayload) /\ Fresh(m)
    BY <1>1, <2>1, <2>2, SurfacingFacts DEF Arriving
  <2>4. SafeInv'
    BY <1>4, <2>3, TakeReplySafe DEF SystemInv
  <2>5. at'["rx"] = "match" /\ msg'["rx"] = {m} /\ UNCHANGED <<Numbers, tx>>
    BY <1>4 DEF TakeReply, Numbers, core, Go, SystemInv, SafeInv, TypeOK, Handlers
  <2>6. /\ RoutesWhere' /\ AnswersWhere' /\ ForwardsSomeAnswer' /\ ForwardsItsAnswer'
        /\ Surfacing(s)' = Surfacing(s)
    BY <1>2, <2>5, SlavesKept, ForwardsKept
  <2>7. ReplyWhere'
    BY <2>1, <2>2, <2>5, <2>6 DEF ReplyWhere
  <2>8. ASSUME restarts' = 0 PROVE NumbersWhere'
    <3>1. NumbersWhere
      BY <1>2, <2>8 DEF SystemInv
    <3>2. QED BY <2>3, <2>5, <3>1 DEF NumbersWhere, Numbers, Fresh
  <2>9. QED BY <1>2, <2>4, <2>6, <2>7, <2>8 DEF SystemInv
<1>5. QED BY <1>1, <1>3, <1>4

LEMMA SlaveHearsKeeps == ASSUME SystemInv, NEW s \in Slaves, SlaveHears(s) PROVE SystemInv'
<1>1. PICK q \in tx : \E m \in ToSlave(s, q) : \E routes \in routes_[s] :
        published' = [published EXCEPT ![s] = @ \cup respond(routes, m)]
  BY DEF SlaveHears
<1>2. PICK m \in ToSlave(s, q) : \E routes \in routes_[s] :
        published' = [published EXCEPT ![s] = @ \cup respond(routes, m)]
  BY <1>1
<1>3. PICK routes \in routes_[s] :
        published' = [published EXCEPT ![s] = @ \cup respond(routes, m)]
  BY <1>2
<1>4. UNCHANGED <<vars, routes_, restarts>>
  BY DEF SlaveHears
<1>5. q \in Frame
  BY DEF SystemInv, SafeInv, TypeOK
<1>6. /\ m \in Frame /\ m.station = 0 /\ m.id = q.id
      /\ StraysOf(q) = {} =>
            q.station = s /\ (m.txn # {} => m.txn = q.txn /\ Survives(m.body, q))
  BY <1>5, HeardBySlave
<1>7. route_lookup(routes, m.body) \in Optional(Byte)
  BY <1>6, OneRoute DEF SystemInv, RoutesWhere, Frame
<1>8. ASSUME NEW a \in respond(routes, m)
      PROVE  /\ a \in Frame /\ a.station = 0 /\ a.txn # {} /\ Size[a.body] <= kMaxReplyPayload
             /\ a.dst = route_lookup(routes, a.body)
             /\ StraysOf(q) = {} =>
                   q.station = s /\ q.txn = a.txn /\ q.id = a.id /\ Survives(a.body, q)
  <2>1. m.txn # {} /\ ~(Size[m.body] > kMaxReplyPayload)
        /\ a = [m EXCEPT !.station = 0, !.dst = route_lookup(routes, m.body)]
    BY <1>8 DEF respond
  <2>2. a = [station |-> 0, txn |-> m.txn, dst |-> route_lookup(routes, m.body),
             body |-> m.body, id |-> m.id]
    BY <1>6, <2>1 DEF Frame
  <2>3. a \in Frame /\ a.station = 0 /\ a.txn = m.txn /\ a.body = m.body /\ a.id = m.id
        /\ a.dst = route_lookup(routes, m.body)
    BY <1>6, <1>7, <2>2 DEF Frame, Byte
  <2>4. Size[m.body] \in Nat /\ kMaxReplyPayload \in Int
    BY <1>6, FrameParameters, DataCap DEF Frame, kMaxReplyPayload, kReplyHeaderLen, kHeaderLen
  <2>5. QED BY <1>6, <2>1, <2>3, <2>4
<1>9. /\ DOMAIN published' = Slaves /\ tx' = tx /\ routes_' = routes_
      /\ \A t \in Slaves : published[t] \subseteq published'[t]
      /\ \A t \in Slaves : \A a \in published'[t] :
            a \in published[t] \/ (t = s /\ a \in respond(routes, m))
  BY <1>3, <1>4 DEF SystemInv, AnswersWhere, vars
<1>10. /\ NothingStray' => NothingStray
       /\ \A t \in Slaves : Surfacing(t) \subseteq Surfacing(t)'
  BY <1>9, AirGrows
<1>11. NothingStray' => StraysOf(q) = {}
  BY <1>10 DEF NothingStray, OnAir
<1>12. AnswersWhere'
  BY <1>8, <1>9, <1>10, <1>11 DEF SystemInv, AnswersWhere
<1>13. SafeInv'
  BY <1>4, StutterSafe DEF SystemInv
<1>14. RoutesWhere'
  BY <1>4 DEF SystemInv, RoutesWhere
<1>15. ForwardsSomeAnswer' /\ ForwardsItsAnswer'
  <2>1. Forwards' = Forwards /\ \A f, r : Answers(f, r)' = Answers(f, r)
    BY <1>4, <1>9 DEF Forwards, Answers, Chosen
  <2>2. QED BY <1>4, <1>9, <1>10, <2>1 DEF SystemInv, ForwardsSomeAnswer, ForwardsItsAnswer
<1>16. ReplyWhere'
  BY <1>4, <1>10, ReplyKept DEF SystemInv, ReplyWhere, vars
<1>17. (restarts = 0 => NumbersWhere)'
  BY <1>4, <1>10 DEF SystemInv, NumbersWhere, Fresh, vars, core
<1>18. restarts' \in Nat
  BY <1>4 DEF SystemInv
<1>19. QED BY <1>12, <1>13, <1>14, <1>15, <1>16, <1>17, <1>18 DEF SystemInv

\* The relay comes up as on its first start, but for what it has published.
LEMMA RestartKeeps == ASSUME SystemInv, Restart PROVE SystemInv'
<1> USE DEF Restart, SystemInv, SafeInv, Handlers, Senders, Starters
<1>1. TypeOK'
  <2>1. 0 \in Txn /\ 0 \in 0..MaxRetries + 1
    BY RelayParameters, FrameParameters DEF Txn
  <2>2. stats' \in [Counters -> Nat] /\ at' \in [Handlers -> Points]
    BY DEF Counters, Points
  <2>3. \A S : {} \in Optional(S)
    BY DEF Optional
  <2>4. arg' \in [Starters -> Optional(Payloads)] /\ msg' \in [Handlers -> Optional(Frame)]
    BY <2>3
  <2>5. QED BY <2>1, <2>2, <2>4, PayloadParameters DEF TypeOK
<1>2. OneRuns' /\ BusyWhere' /\ TimerWhere' /\ MessageWhere'
  BY DEF OneRuns, BusyWhere, TimerWhere, MessageWhere, StarterPoints, TimerPoints, ReplyPoints, Sending
<1>3. PublishedWhere'
  <2>1. ~asking'
    BY DEF asking
  <2>2. QED BY <2>1 DEF PublishedWhere, OneFramePerPurpose
<1>4. RoutesWhere' /\ AnswersWhere'
  BY SlavesKept
<1>5. ForwardsSomeAnswer'
  <2>1. Forwards' = Forwards /\ (NothingStray' => NothingStray)
        /\ \A f, q : Answers(f, q) => Answers(f, q)'
    BY SlavesKept DEF Forwards
  <2>2. QED BY <2>1 DEF ForwardsSomeAnswer
<1>6. ReplyWhere'
  BY DEF ReplyWhere
<1>7. restarts' \in Nat /\ restarts' # 0
  OBVIOUS
<1>8. ForwardsItsAnswer'
  BY <1>7 DEF ForwardsItsAnswer
<1>9. QED BY <1>1, <1>2, <1>3, <1>4, <1>5, <1>6, <1>7, <1>8

LEMMA SysInitOK == ASSUME SysInit PROVE SystemInv
<1>1. SafeInv
  BY InitIInv DEF SysInit, IInv
<1>2. RoutesWhere
  <2>1. PICK spec \in [Slaves -> UNION {RouteMaps[s] : s \in Slaves}] :
          /\ \A s \in Slaves : spec[s] \in RouteMaps[s]
          /\ routes_ = [s \in Slaves |-> parse_route_map(spec[s])]
    BY DEF SysInit
  <2>2. ASSUME NEW s \in Slaves, NEW routes \in routes_[s]
        PROVE  /\ DOMAIN routes \subseteq Nat
               /\ \A i \in DOMAIN routes : routes[i].station \in Station
    <3>1. spec[s] \in Seq(Entry) /\ routes \in parse_route_map(spec[s])
      BY <2>1, SystemParameters
    <3>2. QED BY <3>1, ParsedTables
  <2>3. QED BY <2>2 DEF RoutesWhere
<1>3. AnswersWhere /\ restarts = 0
  BY DEF SysInit, AnswersWhere
<1>4. ReplyWhere /\ ForwardsSomeAnswer /\ ForwardsItsAnswer
  BY DEF SysInit, Init, ReplyWhere, ForwardsSomeAnswer, ForwardsItsAnswer, Forwards, Handlers
<1>5. NumbersWhere
  BY FrameParameters DEF SysInit, Init, NumbersWhere, Handlers
<1>6. QED BY <1>1, <1>2, <1>3, <1>4, <1>5 DEF SystemInv

LEMMA SysNextKeeps == SystemInv /\ [SysNext]_sysvars => SystemInv'
<1> SUFFICES ASSUME SystemInv, [SysNext]_sysvars PROVE SystemInv'
  OBVIOUS
<1>1. CASE UNCHANGED sysvars
  <2>1. SafeInv' /\ UNCHANGED <<slaves, restarts, Numbers, tx, Reply>>
    BY <1>1, StutterSafe DEF SystemInv, sysvars, vars, core, Numbers, Reply
  <2>2. QED BY <2>1, QuietKeeps
<1>2. QED
  BY <1>1, RelayStepKeeps, SlaveHearsKeeps, RelayHearsKeeps, RestartKeeps DEF SysNext

\* The inductive invariant holds in every state of the system, restarts included.
THEOREM SystemInvariantHolds == SysSpec => []SystemInv
BY SysInitOK, SysNextKeeps, PTL DEF SysSpec

-----------------------------------------------------------------------------
(* What the system promises *)

\* Whatever is lost, repeated, reordered or cut short, and however many slaves hear each
\* other's traffic, what the relay may hear from a slave was asked of that slave.
THEOREM OnlyAnswersToOwnRequests == SysSpec => []AnswersWereAsked
<1>1. SystemInv => AnswersWereAsked
  BY SurfacingFacts DEF AnswersWereAsked
<1>2. QED BY <1>1, SystemInvariantHolds, PTL

\* With any routing table a node can come up with, every answer it publishes passes its
\* driver and names a station the relay can act on.
THEOREM AnswersAlwaysUsable == SysSpec => []AnswersUsable
<1>1. ASSUME SystemInv, NEW s \in Slaves, NEW m \in published[s]
      PROVE  /\ on_tx("slave", s, m) # {}
             /\ \A d \in m.dst : d = kNoForward \/ is_forwardable(d)
  <2>1. m \in Frame /\ m.txn # {} /\ Size[m.body] <= kMaxReplyPayload
        /\ \E routes \in routes_[s] : m.dst = route_lookup(routes, m.body)
    BY <1>1 DEF SystemInv, AnswersWhere
  <2>2. \A d \in m.dst : d = kNoForward \/ is_forwardable(d)
    BY <1>1, <2>1, OneRoute DEF SystemInv, RoutesWhere, Frame
  <2>3. QED BY <2>1, <2>2, HeardByMaster
<1>2. SystemInv => AnswersUsable
  BY <1>1 DEF AnswersUsable
<1>3. QED BY <1>2, SystemInvariantHolds, PTL

\* Even after restarts of the relay, nothing is forwarded but what was asked, or what feed
\* has left of it, and only to the station that slave 1's table selects for what it read.
THEOREM ForwardsAlwaysAnswered == SysSpec => []ForwardsSomeAnswer
<1>1. SystemInv => ForwardsSomeAnswer
  BY DEF SystemInv
<1>2. QED BY <1>1, SystemInvariantHolds, PTL

\* Until the relay restarts, a transaction forwards what answers its own request: no
\* answer to another transaction is mistaken for its own, though the numbers wrap, and
\* the payload is the one asked with, unless a frame of this transaction is cut short.
THEOREM ForwardsOwnAnswer == SysSpec => []ForwardsItsAnswer
<1>1. SystemInv => ForwardsItsAnswer
  BY DEF SystemInv
<1>2. QED BY <1>1, SystemInvariantHolds, PTL

\* A request that is too long for a reply is never taken for answered, unless it arrives
\* cut short.
THEOREM TooLongNeverAnswered == SysSpec => []UnanswerableGivesUp
<1>1. ASSUME SystemInv, restarts = 0, NothingStray, at["rx"] \in {"cancel", "dispatch"},
             Uncut(Request)
      PROVE  Size[payload] <= kMaxReplyPayload
  <2>1. PICK m \in msg["rx"] : m.id = started
    BY <1>1 DEF SystemInv, SafeInv, MessageWhere, NumbersWhere
  <2>2. PICK q \in tx : /\ q.txn # {} /\ q.id = started /\ Survives(m.body, q)
                        /\ Size[m.body] <= kMaxReplyPayload
    BY <1>1, <2>1, ReplyFacts
  <2>3. q = Request
    BY <1>1, <2>2 DEF SystemInv, SafeInv, PublishedWhere, asking
  <2>4. m.body = Request.body
    BY <1>1, <2>2, <2>3 DEF Survives
  <2>5. QED BY <2>2, <2>4 DEF Request, NewFrame
<1>2. SystemInv => UnanswerableGivesUp
  BY <1>1 DEF UnanswerableGivesUp
<1>3. QED BY <1>2, SystemInvariantHolds, PTL

\* A restart in the middle of anything, and answers to an earlier life, leave no
\* transaction without its timer, let every frame fit, and repeat a transaction's
\* frame or none (relay_node.cpp:336-358, 486-558).
THEOREM PromisesSurviveRestarts == SysSpec => [](TimerIffBusy /\ FramesFit /\ OneFramePerPurpose)
<1>1. SystemInv => TimerIffBusy /\ FramesFit /\ OneFramePerPurpose
  BY SafeTimer, SafeFrames DEF SystemInv, SafeInv, PublishedWhere
<1>2. QED BY <1>1, SystemInvariantHolds, PTL

\* But for the restarts, every step of the three hops is a step of OneOutcome or none.
LEMMA SystemStepImplements ==
    ASSUME SystemInv, [SysNext]_sysvars, restarts' = restarts
    PROVE  [Abstract!Next]_(Abstract!vars)
<1>1. SafeInv
  BY DEF SystemInv
<1>2. CASE RelayStep
  BY <1>1, <1>2, LocalImplements DEF RelayStep
<1>3. CASE \E s \in Slaves : SlaveHears(s)
  <2>1. UNCHANGED vars
    BY <1>3 DEF SlaveHears
  <2>2. QED BY <1>1, <2>1, LocalImplements
<1>4. CASE RelayHears
  BY <1>1, <1>4, HearingImplements DEF RelayHears
<1>5. CASE Restart
  <2>1. restarts' = restarts + 1 /\ restarts \in Nat
    BY <1>5 DEF Restart, SystemInv
  <2>2. QED BY <2>1
<1>6. CASE UNCHANGED sysvars
  <2>1. UNCHANGED vars
    BY <1>6 DEF sysvars
  <2>2. QED BY <1>1, <2>1, LocalImplements
<1>7. QED BY <1>2, <1>3, <1>4, <1>5, <1>6 DEF SysNext

\* In each of its lives the relay starts a transaction only when the one before it has had
\* its outcome, and counts one outcome for it, whatever answers to earlier lives, to
\* neighbours or to nothing arrive (relay_node.cpp:336-447, 486-547).
THEOREM EachLifeImplements == SysSpec => OneOutcomePerLife
<1>1. SystemInv /\ [SysNext]_sysvars => [restarts' = restarts => [Abstract!Next]_(Abstract!vars)]_sysvars
  BY SystemStepImplements
<1>2. QED BY <1>1, SystemInvariantHolds, PTL DEF SysSpec, OneOutcomePerLife

=============================================================================
