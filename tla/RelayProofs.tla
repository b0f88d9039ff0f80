----------------------------- MODULE RelayProofs -----------------------------
(***************************************************************************)
(* Relay, proved for every value of its constants: IInv is inductive, it   *)
(* implies the safety properties, and the relay implements OneOutcome.     *)
(* The ...Safe lemmas show that an action keeps each conjunct of SafeInv,  *)
(* the ...Accounts lemmas that it keeps AccountInv.                        *)
(***************************************************************************)
EXTENDS RelayInvariant, TLAPS

LEMMA TakeStartSafe ==
    ASSUME SafeInv, NEW h \in Starters, NEW p \in Payloads, TakeStart(h, p)
    PROVE  SafeInv'
<1> USE DEF SafeInv, TakeStart, core, Go, Handlers, Senders, Starters
<1>1. TypeOK'
  BY DEF TypeOK, Points, Txn, Optional, Frame
<1>2. OneRuns'
  BY DEF TypeOK, OneRuns, StarterPoints, TimerPoints, ReplyPoints, CanTake
<1>3. BusyWhere'
  BY DEF TypeOK, BusyWhere, Sending, StarterPoints, TimerPoints, ReplyPoints, OneRuns, CanTake
<1>4. TimerWhere'
  BY DEF TypeOK, TimerWhere, Sending, OneRuns, BusyWhere, StarterPoints, TimerPoints, ReplyPoints, CanTake
<1>5. MessageWhere'
  BY DEF TypeOK, MessageWhere, OneRuns, Request, NewFrame, CanTake, BusyWhere, Sending
<1>6. PublishedWhere'
  BY DEF TypeOK, PublishedWhere, OneFramePerPurpose, Request, NewFrame, asking, MessageWhere, BusyWhere, Sending, OneRuns
<1>7. QED BY <1>1, <1>2, <1>3, <1>4, <1>5, <1>6

LEMMA StartRefusedSafe ==
    ASSUME SafeInv, NEW h \in Starters, StartRefused(h)
    PROVE  SafeInv'
<1> USE DEF SafeInv, StartRefused, core, Go, Return, Handlers, Senders, Starters
<1>1. TypeOK'
  BY DEF TypeOK, Points, Txn, Optional, Frame
<1>2. OneRuns'
  BY DEF TypeOK, OneRuns, StarterPoints, TimerPoints, ReplyPoints
<1>3. BusyWhere'
  BY DEF TypeOK, BusyWhere, Sending, StarterPoints, TimerPoints, ReplyPoints, OneRuns
<1>4. TimerWhere'
  BY DEF TypeOK, TimerWhere, Sending, OneRuns, BusyWhere, StarterPoints, TimerPoints, ReplyPoints
<1>5. MessageWhere'
  BY DEF TypeOK, MessageWhere, OneRuns, Request, NewFrame, BusyWhere, Sending
<1>6. PublishedWhere'
  BY DEF TypeOK, PublishedWhere, OneFramePerPurpose, Request, NewFrame, asking, MessageWhere, BusyWhere, Sending, OneRuns
<1>7. QED BY <1>1, <1>2, <1>3, <1>4, <1>5, <1>6

LEMMA StartAllowedSafe ==
    ASSUME SafeInv, NEW h \in Starters, StartAllowed(h)
    PROVE  SafeInv'
<1> USE DEF SafeInv, StartAllowed, core, Go, Handlers, Senders, Starters
<1>1. TypeOK'
  BY DEF TypeOK, Points, Txn, Optional, Frame
<1>2. OneRuns'
  BY DEF TypeOK, OneRuns, StarterPoints, TimerPoints, ReplyPoints
<1>3. BusyWhere'
  BY DEF TypeOK, BusyWhere, Sending, StarterPoints, TimerPoints, ReplyPoints, OneRuns
<1>4. TimerWhere'
  BY DEF TypeOK, TimerWhere, Sending, OneRuns, BusyWhere, StarterPoints, TimerPoints, ReplyPoints
<1>5. MessageWhere'
  BY DEF TypeOK, MessageWhere, OneRuns, Request, NewFrame, BusyWhere, Sending
<1>6. PublishedWhere'
  BY DEF TypeOK, PublishedWhere, OneFramePerPurpose, Request, NewFrame, asking, MessageWhere, BusyWhere, Sending, OneRuns
<1>7. QED BY <1>1, <1>2, <1>3, <1>4, <1>5, <1>6

LEMMA PayloadTooLongSafe ==
    ASSUME SafeInv, NEW h \in Starters, PayloadTooLong(h)
    PROVE  SafeInv'
<1> USE DEF SafeInv, PayloadTooLong, core, Go, Return, Bump, Handlers, Senders, Starters
<1>1. TypeOK'
  BY DEF TypeOK, Points, Counters, Txn, Optional, Frame
<1>2. OneRuns'
  BY DEF TypeOK, OneRuns, StarterPoints, TimerPoints, ReplyPoints
<1>3. BusyWhere'
  BY DEF TypeOK, BusyWhere, Sending, StarterPoints, TimerPoints, ReplyPoints, OneRuns
<1>4. TimerWhere'
  BY DEF TypeOK, TimerWhere, Sending, OneRuns, BusyWhere, StarterPoints, TimerPoints, ReplyPoints
<1>5. MessageWhere'
  BY DEF TypeOK, MessageWhere, OneRuns, Request, NewFrame, BusyWhere, Sending
<1>6. PublishedWhere'
  BY DEF TypeOK, PublishedWhere, OneFramePerPurpose, Request, NewFrame, asking, MessageWhere, BusyWhere, Sending, OneRuns
<1>7. QED BY <1>1, <1>2, <1>3, <1>4, <1>5, <1>6

LEMMA StartTransactionSafe ==
    ASSUME SafeInv, NEW h \in Starters, StartTransaction(h)
    PROVE  SafeInv'
<1> USE DEF SafeInv, StartTransaction, FirstAttempt, Go, Handlers, Senders, Starters
<1>1. TypeOK'
  BY RelayParameters, FrameParameters DEF TypeOK, Txn, Points, Optional
<1>2. OneRuns'
  BY DEF TypeOK, OneRuns, StarterPoints, TimerPoints, ReplyPoints
<1>3. BusyWhere'
  BY DEF TypeOK, BusyWhere, Sending, StarterPoints, TimerPoints, ReplyPoints, OneRuns
<1>4. TimerWhere'
  BY DEF TypeOK, TimerWhere, Sending, OneRuns, BusyWhere, StarterPoints, TimerPoints, ReplyPoints
<1>5. MessageWhere'
  BY DEF TypeOK, MessageWhere, OneRuns, Request, NewFrame, BusyWhere, Sending
<1>6. PublishedWhere'
  <2>1. \A m \in tx : m.id < started'
    BY DEF PublishedWhere, Frame, TypeOK
  <2>2. tx' = tx /\ started' = started + 1 /\ started \in Nat
    BY DEF TypeOK
  <2>3. QED BY <2>1, <2>2 DEF PublishedWhere, OneFramePerPurpose, TypeOK, Frame
<1>7. QED BY <1>1, <1>2, <1>3, <1>4, <1>5, <1>6

LEMMA TimerExpiresSafe ==
    ASSUME SafeInv, TimerExpires
    PROVE  SafeInv'
<1> USE DEF SafeInv, TimerExpires, core, Handlers, Senders, Starters
<1>1. TypeOK'
  BY DEF TypeOK, Txn, Optional, Frame
<1>2. OneRuns'
  BY DEF TypeOK, OneRuns, StarterPoints, TimerPoints, ReplyPoints
<1>3. BusyWhere'
  BY DEF TypeOK, BusyWhere, Sending, StarterPoints, TimerPoints, ReplyPoints, OneRuns
<1>4. TimerWhere'
  BY DEF TypeOK, TimerWhere, Sending, OneRuns, BusyWhere, StarterPoints, TimerPoints, ReplyPoints
<1>5. MessageWhere'
  BY DEF TypeOK, MessageWhere, OneRuns, Request, NewFrame, BusyWhere, Sending
<1>6. PublishedWhere'
  BY DEF TypeOK, PublishedWhere, OneFramePerPurpose, Request, NewFrame, asking, MessageWhere, BusyWhere, Sending, OneRuns
<1>7. QED BY <1>1, <1>2, <1>3, <1>4, <1>5, <1>6

LEMMA TakeTimerSafe ==
    ASSUME SafeInv, TakeTimer
    PROVE  SafeInv'
<1> USE DEF SafeInv, TakeTimer, core, Go, Handlers, Senders, Starters
<1>1. TypeOK'
  BY DEF TypeOK, Points, Txn, Optional, Frame
<1>2. OneRuns'
  BY DEF TypeOK, OneRuns, StarterPoints, TimerPoints, ReplyPoints, CanTake
<1>3. BusyWhere'
  BY DEF TypeOK, BusyWhere, Sending, OneRuns, CanTake, TimerWhere
<1>4. TimerWhere'
  BY DEF TypeOK, TimerWhere, Sending, OneRuns, BusyWhere, StarterPoints, TimerPoints, ReplyPoints, CanTake
<1>5. MessageWhere'
  BY DEF TypeOK, MessageWhere, OneRuns, Request, NewFrame, CanTake, BusyWhere, Sending
<1>6. PublishedWhere'
  BY DEF TypeOK, PublishedWhere, OneFramePerPurpose, Request, NewFrame, asking, MessageWhere, BusyWhere, Sending, OneRuns
<1>7. QED BY <1>1, <1>2, <1>3, <1>4, <1>5, <1>6

LEMMA TimerCancelsSafe ==
    ASSUME SafeInv, TimerCancels
    PROVE  SafeInv'
<1> USE DEF SafeInv, TimerCancels, core, Go, Handlers, Senders, Starters
<1>1. TypeOK'
  BY DEF TypeOK, Points, Txn, Optional, Frame
<1>2. OneRuns'
  BY DEF TypeOK, OneRuns, StarterPoints, TimerPoints, ReplyPoints
<1>3. BusyWhere'
  BY DEF TypeOK, BusyWhere, Sending, StarterPoints, TimerPoints, ReplyPoints, OneRuns
<1>4. TimerWhere'
  BY DEF TypeOK, TimerWhere, Sending, OneRuns, BusyWhere, StarterPoints, TimerPoints, ReplyPoints
<1>5. MessageWhere'
  BY DEF TypeOK, MessageWhere, OneRuns, Request, NewFrame, BusyWhere, Sending
<1>6. PublishedWhere'
  BY DEF TypeOK, PublishedWhere, OneFramePerPurpose, Request, NewFrame, asking, MessageWhere, BusyWhere, Sending, OneRuns
<1>7. QED BY <1>1, <1>2, <1>3, <1>4, <1>5, <1>6

LEMMA AttemptSafe ==
    ASSUME SafeInv, NEW h \in Senders, Attempt(h)
    PROVE  SafeInv'
<1> USE DEF SafeInv, Attempt, Exhausted, Go, Return, Bump, Handlers, Senders, Starters
<1>1. TypeOK'
  <2>1. Request \in Frame
    BY RelayParameters, FrameParameters
    DEF TypeOK, Request, NewFrame, Frame, Optional, Byte, Station, kMinStation, kMaxStation
  <2>2. attempt' \in 0..MaxRetries + 1
    BY RelayParameters, FrameParameters DEF TypeOK
  <2>3. msg' \in [Handlers -> Optional(Frame)]
    BY <2>1 DEF TypeOK, Optional
  <2>4. stats' \in [Counters -> Nat]
    BY DEF TypeOK, Counters
  <2>5. at' \in [Handlers -> Points]
    BY DEF TypeOK, Points
  <2>6. QED BY <2>2, <2>3, <2>4, <2>5 DEF TypeOK
<1>2. OneRuns'
  BY DEF TypeOK, OneRuns, StarterPoints, TimerPoints, ReplyPoints
<1>3. BusyWhere'
  BY DEF TypeOK, BusyWhere, Sending, StarterPoints, TimerPoints, ReplyPoints, OneRuns
<1>4. TimerWhere'
  BY DEF TypeOK, TimerWhere, Sending, OneRuns, BusyWhere, StarterPoints, TimerPoints, ReplyPoints
<1>5. MessageWhere'
  BY DEF TypeOK, MessageWhere, OneRuns, Request, NewFrame, BusyWhere, Sending
<1>6. PublishedWhere'
  BY DEF TypeOK, PublishedWhere, OneFramePerPurpose, Request, NewFrame, asking, MessageWhere, BusyWhere, Sending, OneRuns
<1>7. QED BY <1>1, <1>2, <1>3, <1>4, <1>5, <1>6

LEMMA GiveUpSafe ==
    ASSUME SafeInv, NEW h \in Senders, GiveUp(h)
    PROVE  SafeInv'
<1> USE DEF SafeInv, GiveUp, Exhausted, Go, Return, Bump, Handlers, Senders, Starters
<1>1. TypeOK'
  <2>1. stats' \in [Counters -> Nat]
    BY DEF TypeOK, Counters
  <2>2. at' \in [Handlers -> Points] /\ msg' \in [Handlers -> Optional(Frame)]
    BY DEF TypeOK, Points, Optional
  <2>3. QED BY <2>1, <2>2, PayloadParameters, FrameParameters DEF TypeOK
<1>2. OneRuns'
  BY DEF TypeOK, OneRuns, StarterPoints, TimerPoints, ReplyPoints
<1>3. BusyWhere'
  BY DEF TypeOK, BusyWhere, Sending, StarterPoints, TimerPoints, ReplyPoints, OneRuns
<1>4. TimerWhere'
  BY DEF TypeOK, TimerWhere, Sending, OneRuns, BusyWhere, StarterPoints, TimerPoints, ReplyPoints
<1>5. MessageWhere'
  BY DEF TypeOK, MessageWhere, OneRuns, Request, NewFrame, BusyWhere, Sending
<1>6. PublishedWhere'
  BY DEF TypeOK, PublishedWhere, OneFramePerPurpose, Request, NewFrame, asking, MessageWhere, BusyWhere, Sending, OneRuns
<1>7. QED BY <1>1, <1>2, <1>3, <1>4, <1>5, <1>6

\* A request that reaches build() is the pending transaction's, fits, and is published.
LEMMA PublishRequestFacts ==
    ASSUME SafeInv, NEW h \in Senders, PublishRequest(h)
    PROVE  /\ busy /\ msg[h] = {Request} /\ Size[payload] <= kMaxPayload
           /\ at[h] = "publish" /\ Go(h, "arm")
           /\ tx' = tx \cup {Request} /\ Bump({"sent"})
           /\ UNCHANGED <<core, timer, arg, msg, started>>
<1> USE DEF SafeInv, core, Go, Return, Bump, Handlers, Senders, Starters
<1>1. busy /\ msg[h] = {Request} /\ Size[payload] <= kMaxPayload
  BY DEF PublishRequest, TypeOK, MessageWhere, BusyWhere, Sending
<1>2. Size[payload] \in Nat /\ kMaxPayload \in Nat
  BY PayloadParameters, FrameParameters, DataCap DEF TypeOK, kMaxPayload, kHeaderLen, kReplyHeaderLen
<1>3. /\ at[h] = "publish" /\ Go(h, "arm")
      /\ tx' = tx \cup {Request}
      /\ Bump({"sent"})
      /\ UNCHANGED <<core, timer, arg, msg, started>>
  <2>1. PICK m \in msg[h] :
           IF Size[m.body] > kMaxPayload
             THEN Bump({"oversized"}) /\ busy' = FALSE /\ Return(h) /\ UNCHANGED tx
             ELSE tx' = tx \cup {m} /\ Bump({"sent"}) /\ Go(h, "arm") /\ UNCHANGED <<busy, msg>>
    BY DEF PublishRequest
  <2>2. m = Request /\ m.body = payload
    BY <1>1 DEF Request, NewFrame
  <2>3. ~(Size[m.body] > kMaxPayload)
    BY <1>1, <1>2, <2>2
  <2>4. QED BY <2>1, <2>2, <2>3 DEF PublishRequest, core
<1>4. QED BY <1>1, <1>3

LEMMA PublishRequestSafe ==
    ASSUME SafeInv, NEW h \in Senders, PublishRequest(h)
    PROVE  SafeInv'
<1> USE DEF SafeInv, core, Go, Bump, Handlers, Senders, Starters
<1>a. busy /\ msg[h] = {Request} /\ Size[payload] <= kMaxPayload
  BY PublishRequestFacts
<1>c. /\ at[h] = "publish" /\ Go(h, "arm")
      /\ tx' = tx \cup {Request} /\ Bump({"sent"})
      /\ UNCHANGED <<core, timer, arg, msg, started>>
  BY PublishRequestFacts
<1>d. Request \in Frame /\ Request.txn # {} /\ Request.id = started
  BY RelayParameters, FrameParameters
  DEF TypeOK, Request, NewFrame, Frame, Optional, Byte, Station, kMinStation, kMaxStation
<1>1. TypeOK'
  BY <1>a, <1>c, <1>d DEF TypeOK, Points, Counters
<1>2. OneRuns'
  BY <1>a, <1>c DEF TypeOK, OneRuns, StarterPoints, TimerPoints, ReplyPoints
<1>3. BusyWhere'
  BY <1>a, <1>c DEF TypeOK, BusyWhere, Sending, StarterPoints, TimerPoints, ReplyPoints, OneRuns
<1>4. TimerWhere'
  BY <1>a, <1>c DEF TypeOK, TimerWhere, Sending, OneRuns, BusyWhere, StarterPoints, TimerPoints, ReplyPoints
<1>5. MessageWhere'
  BY <1>a, <1>c DEF TypeOK, MessageWhere, OneRuns, Request, NewFrame, BusyWhere, Sending
<1>6. PublishedWhere'
  <2>1. Request' = Request /\ busy' /\ started' = started
    BY <1>a, <1>c DEF Request, NewFrame, core
  <2>2. \A n \in tx' : n \in tx \/ n = Request
    BY <1>a, <1>c
  <2>3. \A n \in tx' : n.id <= started'
    BY <1>d, <2>1, <2>2 DEF PublishedWhere, TypeOK
  <2>4. asking
    BY <1>a DEF asking
  <2>5. \A n \in tx' : n.txn # {} /\ n.id = started' => n = Request'
    BY <2>1, <2>2, <2>4 DEF PublishedWhere
  <2>6. \A n \in tx' : n.txn = {} => n.id # started'
    BY <1>d, <2>1, <2>2, <2>4 DEF PublishedWhere
  <2>7. OneFramePerPurpose'
    BY <1>a, <1>c, <1>d, <2>1, <2>2, <2>5 DEF PublishedWhere, OneFramePerPurpose
  <2>8. QED BY <2>3, <2>5, <2>6, <2>7 DEF PublishedWhere
<1>7. QED BY <1>1, <1>2, <1>3, <1>4, <1>5, <1>6

LEMMA ArmTimerSafe ==
    ASSUME SafeInv, NEW h \in Senders, ArmTimer(h)
    PROVE  SafeInv'
<1> USE DEF SafeInv, ArmTimer, NewTimer, core, Go, Return, Handlers, Senders, Starters
<1>1. TypeOK'
  BY DEF TypeOK, Points, Txn, Optional, Frame
<1>2. OneRuns'
  BY DEF TypeOK, OneRuns, StarterPoints, TimerPoints, ReplyPoints
<1>3. BusyWhere'
  BY DEF TypeOK, BusyWhere, Sending, StarterPoints, TimerPoints, ReplyPoints, OneRuns
<1>4. TimerWhere'
  BY DEF TypeOK, TimerWhere, Sending, OneRuns, BusyWhere, StarterPoints, TimerPoints, ReplyPoints
<1>5. MessageWhere'
  BY DEF TypeOK, MessageWhere, OneRuns, Request, NewFrame, BusyWhere, Sending
<1>6. PublishedWhere'
  BY DEF TypeOK, PublishedWhere, OneFramePerPurpose, Request, NewFrame, asking, MessageWhere, BusyWhere, Sending, OneRuns
<1>7. QED BY <1>1, <1>2, <1>3, <1>4, <1>5, <1>6

LEMMA IgnoreForeignSafe ==
    ASSUME SafeInv, NEW m, IgnoreForeign(m)
    PROVE  SafeInv'
<1> USE DEF SafeInv, IgnoreForeign, core, Bump, Handlers, Senders, Starters
<1>1. TypeOK'
  BY DEF TypeOK, Counters, Txn, Optional, Frame
<1>2. OneRuns'
  BY DEF TypeOK, OneRuns, StarterPoints, TimerPoints, ReplyPoints, CanTake
<1>3. BusyWhere'
  BY DEF TypeOK, BusyWhere, Sending, StarterPoints, TimerPoints, ReplyPoints, OneRuns, CanTake
<1>4. TimerWhere'
  BY DEF TypeOK, TimerWhere, Sending, OneRuns, BusyWhere, StarterPoints, TimerPoints, ReplyPoints, CanTake
<1>5. MessageWhere'
  BY DEF TypeOK, MessageWhere, OneRuns, Request, NewFrame, CanTake, BusyWhere, Sending
<1>6. PublishedWhere'
  BY DEF TypeOK, PublishedWhere, OneFramePerPurpose, Request, NewFrame, asking, MessageWhere, BusyWhere, Sending, OneRuns
<1>7. QED BY <1>1, <1>2, <1>3, <1>4, <1>5, <1>6

\* Any reply that fits a frame may be taken, not only those of Heard.
LEMMA TakeReplySafe ==
    ASSUME SafeInv, NEW m \in Frame, m.dst # {} => Size[m.body] <= kMaxReplyPayload, TakeReply(m)
    PROVE  SafeInv'
<1> USE DEF SafeInv, TakeReply, core, Go, Handlers, Senders, Starters
<1>1. TypeOK'
  BY DEF TypeOK, Points, Optional
<1>2. OneRuns'
  BY DEF TypeOK, OneRuns, StarterPoints, TimerPoints, ReplyPoints, CanTake
<1>3. BusyWhere'
  BY DEF TypeOK, BusyWhere, Sending, StarterPoints, TimerPoints, ReplyPoints, OneRuns, CanTake
<1>4. TimerWhere'
  BY DEF TypeOK, TimerWhere, Sending, OneRuns, BusyWhere, StarterPoints, TimerPoints, ReplyPoints, CanTake
<1>5. MessageWhere'
  BY DEF TypeOK, MessageWhere, OneRuns, Request, NewFrame, CanTake
<1>6. PublishedWhere'
  BY DEF TypeOK, PublishedWhere, OneFramePerPurpose, Request, NewFrame, asking, MessageWhere, BusyWhere, Sending, OneRuns
<1>7. QED BY <1>1, <1>2, <1>3, <1>4, <1>5, <1>6

LEMMA RejectReplySafe ==
    ASSUME SafeInv, RejectReply
    PROVE  SafeInv'
<1> USE DEF SafeInv, RejectReply, Awaited, core, Go, Return, Bump, Handlers, Senders, Starters
<1>1. TypeOK'
  BY DEF TypeOK, Points, Counters, Txn, Optional, Frame
<1>2. OneRuns'
  BY DEF TypeOK, OneRuns, StarterPoints, TimerPoints, ReplyPoints
<1>3. BusyWhere'
  BY DEF TypeOK, BusyWhere, Sending, StarterPoints, TimerPoints, ReplyPoints, OneRuns
<1>4. TimerWhere'
  BY DEF TypeOK, TimerWhere, Sending, OneRuns, BusyWhere, StarterPoints, TimerPoints, ReplyPoints
<1>5. MessageWhere'
  BY DEF TypeOK, MessageWhere, OneRuns, Request, NewFrame, BusyWhere, Sending
<1>6. PublishedWhere'
  BY DEF TypeOK, PublishedWhere, OneFramePerPurpose, Request, NewFrame, asking, MessageWhere, BusyWhere, Sending, OneRuns
<1>7. QED BY <1>1, <1>2, <1>3, <1>4, <1>5, <1>6

LEMMA AcceptReplySafe ==
    ASSUME SafeInv, AcceptReply
    PROVE  SafeInv'
<1> USE DEF SafeInv, AcceptReply, Awaited, Go, Handlers, Senders, Starters
<1>1. TypeOK'
  BY DEF TypeOK, Points
<1>2. OneRuns'
  BY DEF TypeOK, OneRuns, StarterPoints, TimerPoints, ReplyPoints
<1>3. BusyWhere'
  BY DEF TypeOK, BusyWhere, Sending, StarterPoints, TimerPoints, ReplyPoints, OneRuns
<1>4. TimerWhere'
  BY DEF TypeOK, TimerWhere, Sending, OneRuns, BusyWhere, StarterPoints, TimerPoints, ReplyPoints
<1>5. MessageWhere'
  BY DEF TypeOK, MessageWhere, OneRuns, Request, NewFrame, BusyWhere, Sending
<1>6. PublishedWhere'
  BY DEF TypeOK, PublishedWhere, OneFramePerPurpose, Request, NewFrame, asking, MessageWhere, BusyWhere, Sending, OneRuns
<1>7. QED BY <1>1, <1>2, <1>3, <1>4, <1>5, <1>6

LEMMA CancelTimerSafe ==
    ASSUME SafeInv, CancelTimer
    PROVE  SafeInv'
<1> USE DEF SafeInv, CancelTimer, core, Go, Handlers, Senders, Starters
<1>1. TypeOK'
  BY DEF TypeOK, Points, Txn, Optional, Frame
<1>2. OneRuns'
  BY DEF TypeOK, OneRuns, StarterPoints, TimerPoints, ReplyPoints
<1>3. BusyWhere'
  BY DEF TypeOK, BusyWhere, Sending, StarterPoints, TimerPoints, ReplyPoints, OneRuns
<1>4. TimerWhere'
  BY DEF TypeOK, TimerWhere, Sending, OneRuns, BusyWhere, StarterPoints, TimerPoints, ReplyPoints
<1>5. MessageWhere'
  BY DEF TypeOK, MessageWhere, OneRuns, Request, NewFrame, BusyWhere, Sending
<1>6. PublishedWhere'
  BY DEF TypeOK, PublishedWhere, OneFramePerPurpose, Request, NewFrame, asking, MessageWhere, BusyWhere, Sending, OneRuns
<1>7. QED BY <1>1, <1>2, <1>3, <1>4, <1>5, <1>6

LEMMA BadDstSafe ==
    ASSUME SafeInv, BadDst
    PROVE  SafeInv'
<1> USE DEF SafeInv, BadDst, core, Go, Return, Bump, Handlers, Senders, Starters
<1>1. TypeOK'
  BY DEF TypeOK, Points, Counters, Txn, Optional, Frame
<1>2. OneRuns'
  BY DEF TypeOK, OneRuns, StarterPoints, TimerPoints, ReplyPoints
<1>3. BusyWhere'
  BY DEF TypeOK, BusyWhere, Sending, StarterPoints, TimerPoints, ReplyPoints, OneRuns
<1>4. TimerWhere'
  BY DEF TypeOK, TimerWhere, Sending, OneRuns, BusyWhere, StarterPoints, TimerPoints, ReplyPoints
<1>5. MessageWhere'
  BY DEF TypeOK, MessageWhere, OneRuns, Request, NewFrame, BusyWhere, Sending
<1>6. PublishedWhere'
  BY DEF TypeOK, PublishedWhere, OneFramePerPurpose, Request, NewFrame, asking, MessageWhere, BusyWhere, Sending, OneRuns
<1>7. QED BY <1>1, <1>2, <1>3, <1>4, <1>5, <1>6

LEMMA NoForwardSafe ==
    ASSUME SafeInv, NoForward
    PROVE  SafeInv'
<1> USE DEF SafeInv, NoForward, core, Go, Return, Bump, Handlers, Senders, Starters
<1>1. TypeOK'
  BY DEF TypeOK, Points, Counters, Txn, Optional, Frame
<1>2. OneRuns'
  BY DEF TypeOK, OneRuns, StarterPoints, TimerPoints, ReplyPoints
<1>3. BusyWhere'
  BY DEF TypeOK, BusyWhere, Sending, StarterPoints, TimerPoints, ReplyPoints, OneRuns
<1>4. TimerWhere'
  BY DEF TypeOK, TimerWhere, Sending, OneRuns, BusyWhere, StarterPoints, TimerPoints, ReplyPoints
<1>5. MessageWhere'
  BY DEF TypeOK, MessageWhere, OneRuns, Request, NewFrame, BusyWhere, Sending
<1>6. PublishedWhere'
  BY DEF TypeOK, PublishedWhere, OneFramePerPurpose, Request, NewFrame, asking, MessageWhere, BusyWhere, Sending, OneRuns
<1>7. QED BY <1>1, <1>2, <1>3, <1>4, <1>5, <1>6

\* A reply that reaches forward() fits, and is published for the station it names.
LEMMA ForwardReplyFacts ==
    ASSUME SafeInv, ForwardReply
    PROVE  \E m \in msg["rx"] : \E d \in m.dst :
              /\ at["rx"] = "dispatch" /\ Return("rx")
              /\ m \in Frame /\ d \in Station \ {Slave1}
              /\ tx' = tx \cup {Forward(d, m.body)} /\ Forward(d, m.body) \in Frame
              /\ Bump({"forwarded", "ok"})
              /\ UNCHANGED <<core, timer, arg, started>>
<1> USE DEF SafeInv, core, Go, Return, Bump, Handlers, Senders, Starters
<1>1. PICK m \in msg["rx"] : \E d \in m.dst :
        /\ is_forwardable(d) /\ d # Slave1
        /\ IF Size[m.body] > kMaxData
             THEN Bump({"oversized", "ok"}) /\ UNCHANGED tx
             ELSE Bump({"forwarded", "ok"}) /\ tx' = tx \cup {Forward(d, m.body)}
  BY DEF ForwardReply
<1>2. PICK d \in m.dst :
        /\ is_forwardable(d) /\ d # Slave1
        /\ IF Size[m.body] > kMaxData
             THEN Bump({"oversized", "ok"}) /\ UNCHANGED tx
             ELSE Bump({"forwarded", "ok"}) /\ tx' = tx \cup {Forward(d, m.body)}
  BY <1>1
<1>3. m \in Frame /\ d \in Byte /\ Size[m.body] <= kMaxReplyPayload
  BY DEF ForwardReply, TypeOK, MessageWhere, Optional, Frame
<1>4. Size[m.body] \in Nat /\ kMaxData \in Nat /\ kMaxReplyPayload = kMaxData - 5
  BY <1>3, PayloadParameters, FrameParameters, DataCap DEF Frame, kMaxReplyPayload, kReplyHeaderLen, kHeaderLen
<1>5. ~(Size[m.body] > kMaxData)
  BY <1>3, <1>4
<1>6. /\ at["rx"] = "dispatch" /\ Return("rx")
      /\ tx' = tx \cup {Forward(d, m.body)}
      /\ Bump({"forwarded", "ok"})
      /\ UNCHANGED <<core, timer, arg, started>>
  BY <1>2, <1>5 DEF ForwardReply
<1>7. /\ Forward(d, m.body) \in Frame /\ Forward(d, m.body).id = started
      /\ Forward(d, m.body).txn = {} /\ Forward(d, m.body).station = d
      /\ d \in Station \ {Slave1}
  BY <1>2, <1>3 DEF TypeOK, Forward, NewFrame, Frame, Optional, Byte, Station, kMinStation, kMaxStation, is_forwardable
<1>8. QED BY <1>2, <1>3, <1>6, <1>7

LEMMA ForwardReplySafe ==
    ASSUME SafeInv, ForwardReply
    PROVE  SafeInv'
<1> USE DEF SafeInv, core, Go, Return, Bump, Handlers, Senders, Starters
<1> DEFINE Sent(m, d) ==
              /\ at["rx"] = "dispatch" /\ Return("rx")
              /\ m \in Frame /\ d \in Station \ {Slave1}
              /\ tx' = tx \cup {Forward(d, m.body)} /\ Forward(d, m.body) \in Frame
              /\ Bump({"forwarded", "ok"})
              /\ UNCHANGED <<core, timer, arg, started>>
<1>a. PICK m \in msg["rx"] : \E d \in m.dst : Sent(m, d)
  BY ForwardReplyFacts
<1>b. PICK d \in m.dst : Sent(m, d)
  BY <1>a
<1>f. /\ at["rx"] = "dispatch" /\ Return("rx")
      /\ tx' = tx \cup {Forward(d, m.body)} /\ Bump({"forwarded", "ok"})
      /\ UNCHANGED <<core, timer, arg, started>>
  BY <1>b
<1>g. /\ Forward(d, m.body) \in Frame /\ Forward(d, m.body).id = started
      /\ Forward(d, m.body).txn = {} /\ Forward(d, m.body).station = d
      /\ d \in Station \ {Slave1}
  BY <1>b DEF Forward, NewFrame
<1>1. TypeOK'
  BY <1>f, <1>g DEF TypeOK, Points, Counters, Optional
<1>2. OneRuns'
  BY <1>f DEF TypeOK, OneRuns, StarterPoints, TimerPoints, ReplyPoints
<1>3. BusyWhere'
  BY <1>f DEF TypeOK, BusyWhere, Sending, StarterPoints, TimerPoints, ReplyPoints, OneRuns
<1>4. TimerWhere'
  BY <1>f DEF TypeOK, TimerWhere, Sending, OneRuns, BusyWhere, StarterPoints, TimerPoints, ReplyPoints
<1>5. MessageWhere'
  BY <1>f DEF TypeOK, MessageWhere, OneRuns, Request, NewFrame, BusyWhere, Sending
<1>6. PublishedWhere'
  <2>1. asking /\ ~busy /\ ~busy' /\ started' = started /\ ~asking'
    BY <1>f DEF TypeOK, asking, BusyWhere, OneRuns
  <2>2. \A n \in tx' : n \in tx \/ n = Forward(d, m.body)
    BY <1>f
  <2>3. \A n \in tx' : n.id <= started'
    BY <1>g, <2>1, <2>2 DEF PublishedWhere, TypeOK
  <2>4. \A n \in tx : n.txn = {} => n.id # started
    BY <2>1 DEF PublishedWhere
  <2>5. OneFramePerPurpose'
    BY <1>f, <1>g, <2>2, <2>4 DEF PublishedWhere, OneFramePerPurpose
  <2>6. QED BY <2>1, <2>3, <2>5 DEF PublishedWhere
<1>7. QED BY <1>1, <1>2, <1>3, <1>4, <1>5, <1>6

-----------------------------------------------------------------------------
(* Steps of the node on its own *)

LEMMA StutterSafe ==
    ASSUME SafeInv, UNCHANGED vars
    PROVE  SafeInv'
<1> USE DEF SafeInv, vars, core
<1>1. TypeOK' /\ OneRuns' /\ BusyWhere' /\ TimerWhere'
  BY DEF TypeOK, OneRuns, BusyWhere, TimerWhere
<1>2. MessageWhere'
  BY DEF MessageWhere, Request, NewFrame
<1>3. PublishedWhere'
  BY DEF PublishedWhere, OneFramePerPurpose, Request, NewFrame, asking
<1>4. QED BY <1>1, <1>2, <1>3

LEMMA LocalSafe == ASSUME SafeInv, LocalNext PROVE SafeInv'
<1>1. CASE \E h \in Starters, p \in Payloads : TakeStart(h, p)
  BY <1>1, TakeStartSafe
<1>2. CASE TimerExpires \/ TakeTimer \/ TimerCancels
  BY <1>2, TimerExpiresSafe, TakeTimerSafe, TimerCancelsSafe
<1>3. CASE \E h \in Starters : StarterStep(h)
  BY <1>3, StartRefusedSafe, StartAllowedSafe, PayloadTooLongSafe, StartTransactionSafe DEF StarterStep
<1>4. CASE \E h \in Senders : SenderStep(h)
  BY <1>4, AttemptSafe, GiveUpSafe, PublishRequestSafe, ArmTimerSafe DEF SenderStep
<1>5. CASE ReplyStep
  BY <1>5, RejectReplySafe, AcceptReplySafe, CancelTimerSafe, BadDstSafe, NoForwardSafe, ForwardReplySafe
  DEF ReplyStep
<1>6. CASE Spin
  BY <1>6, StutterSafe DEF Spin
<1>7. QED BY <1>1, <1>2, <1>3, <1>4, <1>5, <1>6 DEF LocalNext, HandlerStep

-----------------------------------------------------------------------------
(* The accounts *)

\* A step that neither retries nor gives up, and starts nothing, keeps the budget.
LEMMA BudgetKept ==
    ASSUME BudgetWhere, UNCHANGED <<started, attempt, stats["retried"]>>, busy' => busy,
           stats'["failed"] - stats'["bad_dst"] = stats["failed"] - stats["bad_dst"]
    PROVE  BudgetWhere'
<1>1. count.gave_up' = count.gave_up
  BY DEF count
<1>2. QED BY <1>1 DEF BudgetWhere, RetryBudget

\* A step that starts, ends and sends nothing, and counts only frames or payloads that
\* are dropped, keeps the accounts.
LEMMA QuietAccounts ==
    ASSUME IInv, NEW S \in SUBSET {"ignored", "oversized"}, Bump(S) \/ UNCHANGED stats,
           UNCHANGED <<started, attempt, asking, Owed>>, busy' => busy
    PROVE  AccountInv'
<1> USE DEF IInv, SafeInv, AccountInv, Bump, TypeOK, Counters
<1>1. CountersWhere'
  BY DEF CountersWhere
<1>2. BudgetWhere'
  BY BudgetKept
<1>3. QED BY <1>1, <1>2

LEMMA StarterAccounts ==
    ASSUME IInv, NEW h \in Starters,
           (\E p \in Payloads : TakeStart(h, p)) \/ StartRefused(h) \/ StartAllowed(h) \/ PayloadTooLong(h)
    PROVE  AccountInv'
<1> USE DEF IInv, SafeInv, core, Go, Return, Handlers, Senders, Starters, asking, Owed, TypeOK,
            OneRuns, StarterPoints
<1>1. UNCHANGED <<started, attempt, asking, Owed, busy>>
  BY DEF TakeStart, StartRefused, StartAllowed, PayloadTooLong, CanTake
<1>2. Bump({"oversized"}) \/ UNCHANGED stats
  BY DEF TakeStart, StartRefused, StartAllowed, PayloadTooLong
<1>3. QED BY <1>1, <1>2, QuietAccounts

LEMMA TimerAccounts ==
    ASSUME IInv, TimerExpires \/ TakeTimer \/ TimerCancels \/ \E h \in Senders : ArmTimer(h)
    PROVE  AccountInv'
<1> USE DEF IInv, SafeInv, core, Go, Return, Handlers, Senders, Starters, asking, Owed, TypeOK, OneRuns
<1>1. UNCHANGED <<started, attempt, asking, Owed, busy, stats>>
  BY DEF TimerExpires, TakeTimer, TimerCancels, ArmTimer, CanTake
<1>2. QED BY <1>1, QuietAccounts

LEMMA RxAccounts ==
    ASSUME IInv, (\E m : IgnoreForeign(m) \/ TakeReply(m)) \/ RejectReply \/ AcceptReply \/ CancelTimer
    PROVE  AccountInv'
<1> USE DEF IInv, SafeInv, core, Go, Return, Handlers, Senders, Starters, asking, Owed, TypeOK, OneRuns
<1>1. UNCHANGED <<started, attempt, asking, Owed>> /\ (busy' => busy)
  BY DEF IgnoreForeign, TakeReply, RejectReply, AcceptReply, CancelTimer, CanTake, Awaited
<1>2. Bump({"ignored"}) \/ UNCHANGED stats
  BY DEF IgnoreForeign, TakeReply, RejectReply, AcceptReply, CancelTimer
<1>3. QED BY <1>1, <1>2, QuietAccounts

LEMMA StartTransactionAccounts ==
    ASSUME IInv, NEW h \in Starters, StartTransaction(h)
    PROVE  AccountInv'
<1> USE DEF IInv, SafeInv, AccountInv, StartTransaction, FirstAttempt, core, Go, Return, Bump, Handlers, Senders, Starters
<1>1. CountersWhere'
  BY DEF TypeOK, CountersWhere, Counters, Owed, asking, OneRuns, BusyWhere, Sending
<1>2. BudgetWhere'
  <2>1. MaxRetries * (started + 1) = MaxRetries * started + MaxRetries
    BY RelayParameters, FrameParameters DEF TypeOK
  <2>2. MaxRetries * started \in Nat
    BY RelayParameters, FrameParameters DEF TypeOK
  <2>3. started + 1 - 1 = started
    BY DEF TypeOK
  <2>4. count.gave_up' = count.gave_up
    BY DEF count
  <2>5. busy' /\ attempt' = 0 /\ started' = started + 1 /\ stats'["retried"] = stats["retried"]
    OBVIOUS
  <2>6. stats["retried"] \in Nat /\ MaxRetries \in Nat /\ MaxRetries * count.gave_up \in Int
    BY RelayParameters DEF TypeOK, Counters, count
  <2>7. QED BY <2>1, <2>2, <2>3, <2>4, <2>5, <2>6 DEF BudgetWhere, RetryBudget
<1>3. QED BY <1>1, <1>2

LEMMA AttemptAccounts ==
    ASSUME IInv, NEW h \in Senders, Attempt(h)
    PROVE  AccountInv'
<1> USE DEF IInv, SafeInv, AccountInv, Attempt, Exhausted, core, Go, Return, Bump, Handlers, Senders, Starters
<1>1. CountersWhere'
  BY DEF TypeOK, CountersWhere, Counters, Owed, asking, OneRuns, BusyWhere, Sending, StarterPoints, TimerPoints, ReplyPoints
<1>2. BudgetWhere'
  <2>1. attempt > 0 /\ busy => /\ attempt <= MaxRetries
                               /\ stats["retried"] <= MaxRetries * (started - 1) + (attempt - 1)
    BY RelayParameters, FrameParameters DEF TypeOK, BudgetWhere
  <2>2. busy => started >= 1
    BY DEF TypeOK, CountersWhere, Counters, asking
  <2>3. MaxRetries * started = MaxRetries * (started - 1) + MaxRetries
    BY RelayParameters, FrameParameters DEF TypeOK
  <2>4. MaxRetries * (started - 1) \in Int /\ MaxRetries * started \in Int
    BY RelayParameters, FrameParameters DEF TypeOK
  <2>5. count.gave_up' = count.gave_up /\ MaxRetries * count.gave_up \in Int
    BY RelayParameters DEF TypeOK, Counters, count
  <2>6. stats["retried"] \in Nat /\ MaxRetries \in Nat /\ attempt \in Nat
    BY RelayParameters DEF TypeOK, Counters
  <2>7. CASE ~busy
    BY <2>7 DEF BusyWhere, Sending
  <2>8. CASE busy
    <3>1. busy' /\ attempt' = attempt + 1 /\ started' = started
      BY <2>8
    <3>2. stats'["retried"] = stats["retried"] + (IF attempt = 0 THEN 0 ELSE 1)
      BY <2>6, <2>8 DEF TypeOK, Counters
    <3>3. stats["retried"] >= MaxRetries * count.gave_up + (IF attempt = 0 THEN 0 ELSE attempt - 1)
      BY <2>8 DEF BudgetWhere
    <3>4. stats["retried"] <= MaxRetries * (started - 1) + (IF attempt = 0 THEN 0 ELSE attempt - 1)
      BY <2>8 DEF BudgetWhere
    <3>5. QED BY <2>1, <2>3, <2>4, <2>5, <2>6, <2>8, <3>1, <3>2, <3>3, <3>4 DEF BudgetWhere, RetryBudget
  <2>9. QED BY <2>7, <2>8
<1>3. QED BY <1>1, <1>2

LEMMA GiveUpAccounts ==
    ASSUME IInv, NEW h \in Senders, GiveUp(h)
    PROVE  AccountInv'
<1> USE DEF IInv, SafeInv, AccountInv, GiveUp, Exhausted, core, Go, Return, Bump, Handlers, Senders, Starters
<1>1. CountersWhere'
  BY RelayParameters, FrameParameters
  DEF TypeOK, CountersWhere, Counters, Owed, asking, OneRuns, BusyWhere, Sending, ReplyPoints
<1>2. BudgetWhere'
  <2>1. stats'["retried"] = stats["retried"] /\ started' = started /\ ~busy'
    BY DEF TypeOK, Counters
  <2>2. count.gave_up \in Int /\ count.gave_up' = count.gave_up + 1
    BY DEF TypeOK, Counters, count
  <2>3. \A n \in Int : MaxRetries * n \in Int /\ MaxRetries * (n + 1) = MaxRetries * n + MaxRetries
    BY RelayParameters
  <2>4. attempt - 1 >= MaxRetries /\ stats["retried"] \in Nat /\ attempt > 0
    BY RelayParameters DEF TypeOK, Counters
  <2>5. stats["retried"] >= MaxRetries * count.gave_up + (attempt - 1)
    BY <2>4 DEF BudgetWhere
  <2>6. MaxRetries * count.gave_up' <= stats'["retried"]
    BY <2>1, <2>2, <2>3, <2>4, <2>5, RelayParameters DEF TypeOK
  <2>7. QED BY <2>1, <2>6 DEF BudgetWhere, RetryBudget
<1>3. QED BY <1>1, <1>2

LEMMA PublishRequestAccounts ==
    ASSUME IInv, NEW h \in Senders, PublishRequest(h)
    PROVE  AccountInv'
<1> USE PublishRequestFacts DEF IInv, SafeInv, AccountInv, core, Go, Bump, Handlers, Senders, Starters
<1>1. CountersWhere'
  BY DEF TypeOK, CountersWhere, Owed, asking, OneRuns, BusyWhere, Sending, Counters
<1>2. BudgetWhere'
  BY BudgetKept DEF TypeOK, Counters
<1>3. QED BY <1>1, <1>2

LEMMA BadDstAccounts ==
    ASSUME IInv, BadDst
    PROVE  AccountInv'
<1> USE DEF IInv, SafeInv, AccountInv, BadDst, core, Go, Return, Bump, Handlers, Senders, Starters
<1>1. CountersWhere'
  BY DEF TypeOK, CountersWhere, Counters, Owed, asking, OneRuns, BusyWhere, Sending, StarterPoints, TimerPoints, ReplyPoints
<1>2. BudgetWhere'
  BY BudgetKept DEF TypeOK, Counters
<1>3. QED BY <1>1, <1>2

LEMMA NoForwardAccounts ==
    ASSUME IInv, NoForward
    PROVE  AccountInv'
<1> USE DEF IInv, SafeInv, AccountInv, NoForward, core, Go, Return, Bump, Handlers, Senders, Starters
<1>1. CountersWhere'
  BY DEF TypeOK, CountersWhere, Counters, Owed, asking, OneRuns, BusyWhere, Sending, StarterPoints, TimerPoints, ReplyPoints
<1>2. BudgetWhere'
  BY BudgetKept DEF TypeOK, Counters
<1>3. QED BY <1>1, <1>2

LEMMA ForwardReplyAccounts ==
    ASSUME IInv, ForwardReply
    PROVE  AccountInv'
<1> USE ForwardReplyFacts DEF IInv, SafeInv, AccountInv, core, Go, Return, Bump, Handlers, Senders, Starters
<1>1. CountersWhere'
  BY DEF TypeOK, CountersWhere, Owed, asking, OneRuns, BusyWhere, Counters
<1>2. BudgetWhere'
  BY BudgetKept DEF TypeOK, Counters
<1>3. QED BY <1>1, <1>2

-----------------------------------------------------------------------------
LEMMA InitIInv == Init => IInv
<1> SUFFICES ASSUME Init PROVE IInv
  OBVIOUS
<1> USE DEF Init, Handlers, Senders, Starters
<1>1. TypeOK
  <2>1. 0 \in Txn /\ 0 \in 0..MaxRetries + 1
    BY RelayParameters, FrameParameters DEF Txn
  <2>2. stats \in [Counters -> Nat] /\ at \in [Handlers -> Points]
    BY DEF Counters, Points
  <2>3. \A S : {} \in Optional(S)
    BY DEF Optional
  <2>4. arg \in [Starters -> Optional(Payloads)] /\ msg \in [Handlers -> Optional(Frame)]
    BY <2>3
  <2>5. QED BY <2>1, <2>2, <2>4, PayloadParameters, FrameParameters DEF TypeOK
<1>2. OneRuns /\ BusyWhere /\ TimerWhere /\ MessageWhere
  BY DEF OneRuns, BusyWhere, TimerWhere, MessageWhere, StarterPoints, TimerPoints, ReplyPoints, Sending
<1>3. CountersWhere
  BY DEF CountersWhere, Owed, asking, Counters
<1>4. BudgetWhere
  BY RelayParameters DEF BudgetWhere, RetryBudget, count, Counters
<1>5. PublishedWhere
  BY DEF PublishedWhere, OneFramePerPurpose
<1>6. QED BY <1>1, <1>2, <1>3, <1>4, <1>5 DEF IInv, SafeInv, AccountInv

LEMMA NextKeeps == IInv /\ [Next]_vars => IInv'
<1> SUFFICES ASSUME IInv, [Next]_vars PROVE IInv'
  OBVIOUS
<1>1. SafeInv'
  <2>1. \A m \in Heard : m \in Frame /\ (m.dst # {} => Size[m.body] <= kMaxReplyPayload)
    BY EnvironmentParameters
  <2>2. CASE \E m \in Heard : IgnoreForeign(m) \/ TakeReply(m)
    BY <2>1, <2>2, IgnoreForeignSafe, TakeReplySafe DEF IInv
  <2>3. QED BY <2>2, LocalSafe, StutterSafe DEF IInv, Next
<1>2. AccountInv'
  <2>1. CASE UNCHANGED vars
    BY <2>1 DEF IInv, AccountInv, CountersWhere, BudgetWhere, RetryBudget, count, Owed, asking, vars, core
  <2>2. CASE (\E h \in Starters, p \in Payloads : TakeStart(h, p)) \/ \E h \in Starters : StarterStep(h)
    BY <2>2, StarterAccounts, StartTransactionAccounts DEF StarterStep
  <2>3. CASE TimerExpires \/ TakeTimer \/ TimerCancels
    BY <2>3, TimerAccounts
  <2>4. CASE \E h \in Senders : SenderStep(h)
    BY <2>4, AttemptAccounts, GiveUpAccounts, PublishRequestAccounts, TimerAccounts DEF SenderStep
  <2>5. CASE ReplyStep
    BY <2>5, RxAccounts, BadDstAccounts, NoForwardAccounts, ForwardReplyAccounts DEF ReplyStep
  <2>6. CASE \E m \in Heard : IgnoreForeign(m) \/ TakeReply(m)
    BY <2>6, RxAccounts
  <2>7. QED BY <2>1, <2>2, <2>3, <2>4, <2>5, <2>6 DEF Next, LocalNext, HandlerStep, Spin
<1>3. QED BY <1>1, <1>2 DEF IInv

\* Between callbacks the part of the invariant that a restart keeps says all there is
\* to say of the timer.
LEMMA SafeTimer == SafeInv => TimerIffBusy
  BY DEF SafeInv, TimerWhere, TimerIffBusy, Resting, Sending, Handlers, Senders

\* And of the frames: the pending request and an accepted reply fit.
LEMMA SafeFrames == SafeInv => FramesFit
<1> SUFFICES ASSUME SafeInv PROVE FramesFit
  OBVIOUS
<1>1. ASSUME NEW h \in Senders, at[h] = "publish", NEW m \in msg[h]
      PROVE  Size[m.body] + kHeaderLen <= kMaxData
  <2>1. m.body = payload /\ Size[payload] <= kMaxPayload
    BY <1>1 DEF SafeInv, MessageWhere, BusyWhere, Sending, Request, NewFrame
  <2>2. Size[payload] \in Nat
    BY PayloadParameters, FrameParameters DEF SafeInv, TypeOK
  <2>3. QED BY <2>1, <2>2, DataCap DEF kMaxPayload, kHeaderLen
<1>2. ASSUME at["rx"] = "dispatch", NEW m \in msg["rx"], m.dst # {}
      PROVE  Size[m.body] <= kMaxData
  <2>1. Size[m.body] <= kMaxReplyPayload
    BY <1>2 DEF SafeInv, MessageWhere
  <2>2. m.body \in Payloads
    BY <1>2 DEF SafeInv, TypeOK, Optional, Frame, Handlers
  <2>3. QED
    BY <2>1, <2>2, PayloadParameters, FrameParameters, DataCap DEF kMaxReplyPayload, kReplyHeaderLen, kHeaderLen
<1>3. QED BY <1>1, <1>2 DEF FramesFit

\* The inductive invariant holds in every state of the relay.
THEOREM RelayInvariantHolds == Spec => []IInv
BY InitIInv, NextKeeps, PTL DEF Spec

\* The state, the counters and the frames published have the types of the code.
THEOREM RelayTypes == Spec => []TypeOK
<1>1. IInv => TypeOK
  BY DEF IInv, SafeInv
<1>2. QED BY <1>1, RelayInvariantHolds, PTL

\* Whatever frames arrive and whenever the timer fires, every report on ~/stats adds
\* up: one outcome for each transaction that is not outstanding (relay_node.cpp:560-586).
THEOREM StatsAlwaysAddUp == Spec => []StatsAddUp
<1>1. IInv => StatsAddUp
  <2> SUFFICES ASSUME IInv, Resting PROVE
        /\ stats["sent"] = started + stats["retried"]
        /\ started = stats["ok"] + stats["failed"] + (IF busy THEN 1 ELSE 0)
        /\ stats["timeouts"] + stats["bad_dst"] = stats["retried"] + stats["failed"]
        /\ stats["ok"] = stats["forwarded"] + stats["no_forward"]
    BY DEF StatsAddUp
  <2>1. Owed = 0 /\ (asking <=> busy)
    BY DEF Resting, Owed, asking, Handlers, Senders, Starters
  <2>2. stats["sent"] \in Nat
    BY DEF IInv, SafeInv, AccountInv, TypeOK, Counters
  <2>3. QED BY <2>1, <2>2 DEF IInv, SafeInv, AccountInv, CountersWhere
<1>2. QED BY <1>1, RelayInvariantHolds, PTL

\* No interleaving of replies, triggers and timeouts leaves a transaction without its
\* timer, or a timer without its transaction.
THEOREM NeverWedged == Spec => []TimerIffBusy
<1>1. IInv => TimerIffBusy
  BY SafeTimer DEF IInv
<1>2. QED BY <1>1, RelayInvariantHolds, PTL

\* The branches for requests and forwards that do not fit are unreachable, as the
\* comment in on_timeout says.
THEOREM AlwaysFits == Spec => []FramesFit
<1>1. IInv => FramesFit
  BY SafeFrames DEF IInv
<1>2. QED BY <1>1, RelayInvariantHolds, PTL

\* All attempts of a transaction are one frame, and it is forwarded to at most one
\* station, a legal one that is not slave 1.
THEOREM OneFrameAlways == Spec => []OneFramePerPurpose
<1>1. IInv => OneFramePerPurpose
  BY DEF IInv, SafeInv, PublishedWhere
<1>2. QED BY <1>1, RelayInvariantHolds, PTL

\* The retries of all transactions stay within max_retries for each, and each that is
\* given up has used up its own.
THEOREM RetriesBounded == Spec => []RetryBudget
<1>1. IInv => RetryBudget
  BY DEF IInv, AccountInv, BudgetWhere
<1>2. QED BY <1>1, RelayInvariantHolds, PTL

-----------------------------------------------------------------------------
\* What a step counts, seen by the specification above.
LEMMA CountOutcomes ==
    ASSUME TypeOK, NEW S, Bump(S)
    PROVE  /\ count \in [Abstract!Outcomes -> Int]
           /\ count' = [count EXCEPT
                 !["forwarded"] = @ + (IF "forwarded" \in S THEN 1 ELSE 0),
                 !["kept"] = @ + (IF "no_forward" \in S THEN 1 ELSE 0),
                 !["refused"] = @ + (IF "bad_dst" \in S THEN 1 ELSE 0),
                 !["gave_up"] = @ + (IF "failed" \in S THEN 1 ELSE 0)
                                  - (IF "bad_dst" \in S THEN 1 ELSE 0)]
  BY DEF TypeOK, Counters, Bump, count, Abstract!Outcomes

\* A step that counts none of the four outcomes, and leaves asking alone, is none.
LEMMA SilentStep ==
    ASSUME TypeOK, NEW S \in SUBSET (Counters \ {"forwarded", "no_forward", "bad_dst", "failed"}),
           Bump(S) \/ UNCHANGED stats, UNCHANGED <<started, asking>>
    PROVE  UNCHANGED <<started, asking, count>>
  BY DEF TypeOK, Counters, Bump, count

\* Each step of the relay is a step of OneOutcome or leaves it as it is.
LEMMA LocalImplements ==
    ASSUME SafeInv, LocalNext \/ UNCHANGED vars
    PROVE  [Abstract!Next]_(Abstract!vars)
<1> USE DEF SafeInv
<1>1. CASE UNCHANGED vars
  BY <1>1 DEF vars, core, asking, count, Abstract!vars
<1>2. CASE \E h \in Starters, p \in Payloads : TakeStart(h, p)
  BY <1>2 DEF TakeStart, core, Go, asking, count, Abstract!vars, TypeOK, Handlers, Senders, Starters
<1>3. CASE TimerExpires \/ TakeTimer \/ TimerCancels
  BY <1>3 DEF TimerExpires, TakeTimer, TimerCancels, core, Go, asking, count, Abstract!vars,
     TypeOK, Handlers, Senders, Starters
<1>4. ASSUME NEW h \in Starters, StarterStep(h)
      PROVE  [Abstract!Next]_(Abstract!vars)
  <2> USE DEF Go, Return, core, TypeOK, Handlers, Senders, Starters
  <2>1. CASE StartRefused(h) \/ StartAllowed(h)
    BY <2>1 DEF StartRefused, StartAllowed, asking, count, Abstract!vars
  <2>2. CASE PayloadTooLong(h)
    <3>1. UNCHANGED <<started, asking>> /\ Bump({"oversized"})
      BY <2>2 DEF PayloadTooLong, asking
    <3>2. {"oversized"} \in SUBSET (Counters \ {"forwarded", "no_forward", "bad_dst", "failed"})
      BY DEF Counters
    <3>3. QED BY <3>1, <3>2, SilentStep DEF Abstract!vars
  <2>3. CASE StartTransaction(h)
    <3>1. ~asking /\ asking' /\ started' = started + 1 /\ count' = count
      BY <2>3 DEF StartTransaction, FirstAttempt, asking, count, OneRuns, BusyWhere
    <3>2. QED BY <3>1 DEF Abstract!Next, Abstract!Ask, asking
  <2>4. QED BY <1>4, <2>1, <2>2, <2>3 DEF StarterStep
<1>5. ASSUME NEW h \in Senders, SenderStep(h)
      PROVE  [Abstract!Next]_(Abstract!vars)
  <2> USE DEF Go, Return, core, Handlers, Senders, Starters
  <2>1. CASE Attempt(h)
    <3>1. UNCHANGED <<started, asking>>
      BY <2>1 DEF Attempt, asking, TypeOK
    <3>2. UNCHANGED stats \/ Bump({}) \/ Bump({"timeouts", "retried"})
      BY <2>1 DEF Attempt
    <3>3. {} \in SUBSET (Counters \ {"forwarded", "no_forward", "bad_dst", "failed"})
          /\ {"timeouts", "retried"} \in SUBSET (Counters \ {"forwarded", "no_forward", "bad_dst", "failed"})
      BY DEF Counters
    <3>4. QED BY <3>1, <3>2, <3>3, SilentStep DEF Abstract!vars
  <2>2. CASE GiveUp(h)
    <3>1. asking /\ ~asking' /\ started' = started
      BY <2>2 DEF GiveUp, asking, TypeOK, OneRuns
    <3>2. PICK S \in {{"timeouts", "failed"}, {"failed"}} : Bump(S)
      BY <2>2 DEF GiveUp
    <3>3. count' = [count EXCEPT !["gave_up"] = @ + 1]
      BY <3>2, CountOutcomes DEF Abstract!Outcomes
    <3>4. QED BY <3>1, <3>3 DEF Abstract!Next, Abstract!End, Abstract!Outcomes, asking
  <2>3. CASE PublishRequest(h)
    <3>1. \A m \in msg[h] : ~(Size[m.body] > kMaxPayload)
      <4>1. msg[h] = {Request} /\ Size[payload] <= kMaxPayload
        BY <1>5, <2>3 DEF PublishRequest, MessageWhere, BusyWhere, Sending
      <4>2. Size[payload] \in Nat /\ kMaxPayload \in Int
        BY PayloadParameters, FrameParameters, DataCap DEF TypeOK, kMaxPayload, kHeaderLen
      <4>3. QED BY <4>1, <4>2 DEF Request, NewFrame
    <3>2. Bump({"sent"}) /\ Go(h, "arm") /\ UNCHANGED busy
      BY <2>3, <3>1 DEF PublishRequest
    <3>3. UNCHANGED <<started, asking>>
      BY <1>5, <2>3, <3>2 DEF PublishRequest, asking, TypeOK
    <3>4. {"sent"} \in SUBSET (Counters \ {"forwarded", "no_forward", "bad_dst", "failed"})
      BY DEF Counters
    <3>5. QED BY <3>2, <3>3, <3>4, SilentStep DEF Abstract!vars
  <2>4. CASE ArmTimer(h)
    BY <2>4 DEF ArmTimer, asking, count, Abstract!vars, TypeOK
  <2>5. QED BY <1>5, <2>1, <2>2, <2>3, <2>4 DEF SenderStep
<1>6. CASE ReplyStep
  <2> USE DEF Go, Return, core, Handlers, Senders, Starters
  <2>1. CASE RejectReply
    <3>1. UNCHANGED <<started, asking>> /\ Bump({"ignored"})
      BY <2>1 DEF RejectReply, asking, TypeOK
    <3>2. {"ignored"} \in SUBSET (Counters \ {"forwarded", "no_forward", "bad_dst", "failed"})
      BY DEF Counters
    <3>3. QED BY <3>1, <3>2, SilentStep DEF Abstract!vars
  <2>2. CASE AcceptReply \/ CancelTimer
    BY <2>2 DEF AcceptReply, CancelTimer, Awaited, asking, count, Abstract!vars, TypeOK
  <2>3. ASSUME BadDst \/ NoForward \/ ForwardReply
        PROVE  asking /\ ~asking' /\ started' = started
    BY <2>3 DEF BadDst, NoForward, ForwardReply, asking, TypeOK, BusyWhere
  <2>4. CASE BadDst
    <3>1. count' = [count EXCEPT !["refused"] = @ + 1]
      <4>1. Bump({"bad_dst", "failed"})
        BY <2>4 DEF BadDst
      <4>2. QED BY <4>1, CountOutcomes DEF Abstract!Outcomes
    <3>2. QED BY <2>3, <2>4, <3>1 DEF Abstract!Next, Abstract!End, Abstract!Outcomes, asking
  <2>5. CASE NoForward
    <3>1. count' = [count EXCEPT !["kept"] = @ + 1]
      <4>1. Bump({"no_forward", "ok"})
        BY <2>5 DEF NoForward
      <4>2. QED BY <4>1, CountOutcomes DEF Abstract!Outcomes
    <3>2. QED BY <2>3, <2>5, <3>1 DEF Abstract!Next, Abstract!End, Abstract!Outcomes, asking
  <2>6. CASE ForwardReply
    <3>1. PICK m \in msg["rx"] : m.dst # {} /\ Bump(IF Size[m.body] > kMaxData
                                     THEN {"oversized", "ok"} ELSE {"forwarded", "ok"})
      BY <2>6 DEF ForwardReply
    <3>2. Size[m.body] <= kMaxData
      <4>1. Size[m.body] <= kMaxReplyPayload
        BY <2>6, <3>1 DEF MessageWhere, ForwardReply
      <4>2. m.body \in Payloads
        BY <3>1 DEF TypeOK, Optional, Frame
      <4>3. QED
        BY <4>1, <4>2, PayloadParameters, FrameParameters, DataCap DEF kMaxReplyPayload, kReplyHeaderLen, kHeaderLen
    <3>3. Size[m.body] \in Nat
      BY <3>1, PayloadParameters, FrameParameters DEF TypeOK, Optional, Frame
    <3>4. Bump({"forwarded", "ok"})
      BY <3>1, <3>2, <3>3, DataCap
    <3>5. count' = [count EXCEPT !["forwarded"] = @ + 1]
      BY <3>4, CountOutcomes DEF Abstract!Outcomes
    <3>6. QED BY <2>3, <2>6, <3>5 DEF Abstract!Next, Abstract!End, Abstract!Outcomes, asking
  <2>7. QED BY <1>6, <2>1, <2>2, <2>4, <2>5, <2>6 DEF ReplyStep
<1>7. CASE Spin
  BY <1>7 DEF Spin, vars, core, asking, count, Abstract!vars
<1>8. QED
  BY <1>1, <1>2, <1>3, <1>4, <1>5, <1>6, <1>7 DEF LocalNext, HandlerStep

LEMMA HearingImplements ==
    ASSUME SafeInv, NEW m, IgnoreForeign(m) \/ TakeReply(m)
    PROVE  [Abstract!Next]_(Abstract!vars)
<1> USE DEF SafeInv, Go, core, Handlers, Senders, Starters
<1>1. CASE IgnoreForeign(m)
  <2>1. UNCHANGED <<started, asking>> /\ Bump({"ignored"})
    BY <1>1 DEF IgnoreForeign, asking
  <2>2. {"ignored"} \in SUBSET (Counters \ {"forwarded", "no_forward", "bad_dst", "failed"})
    BY DEF Counters
  <2>3. QED BY <2>1, <2>2, SilentStep DEF Abstract!vars
<1>2. CASE TakeReply(m)
  BY <1>2 DEF TakeReply, CanTake, asking, count, Abstract!vars, TypeOK
<1>3. QED BY <1>1, <1>2

LEMMA StepImplements ==
    ASSUME IInv, [Next]_vars
    PROVE  [Abstract!Next]_(Abstract!vars)
  BY LocalImplements, HearingImplements DEF IInv, Next

\* Whatever arrives, every transaction the relay starts has one outcome at most and
\* the relay starts no other one before: each step is one of OneOutcome or none.
THEOREM RelayImplementsOneOutcome == Spec => Abstract!Spec
<1>1. Init => Abstract!Init
  BY DEF Init, Abstract!Init, asking, count, Abstract!Outcomes, Counters, Handlers, Senders, Starters
<1>2. QED BY <1>1, StepImplements, RelayInvariantHolds, PTL DEF Spec, Abstract!Spec
=============================================================================
