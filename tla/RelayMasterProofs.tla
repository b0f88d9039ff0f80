------------------------- MODULE RelayMasterProofs -------------------------
(***************************************************************************)
(* Proofs about RelayMaster: a reply is forwarded once, and what run_once  *)
(* returns is true as long as no attempt times out under its own reply.    *)
(***************************************************************************)
EXTENDS RelayMasterInvariant, NumberProofs

USE RelayMasterParameters DEF Txn

\* The counts in what has been requested and delivered.
LEMMA Counts ==
    ASSUME TypeOK
    PROVE  /\ run \in Nat /\ begun \in Nat
           /\ \A q \in requests : q.txn \in Txn /\ q.run \in Nat /\ q.id \in Nat
           /\ \A m \in rx : m.run \in Nat /\ m.id \in Nat
           /\ \A i \in DOMAIN delivered : delivered[i].run \in Nat /\ delivered[i].id \in Nat
<1>1. \A i \in DOMAIN delivered : delivered[i] \in Reply
  BY DEF TypeOK
<1>2. QED BY <1>1 DEF TypeOK, Request, Reply

\* A reply that is taken answers the request of the last attempt, which waits for it.
LEMMA ReplyFacts ==
    ASSUME MasterInv, TakeReply
    PROVE  \E m \in Reply :
              /\ rx' = {m} /\ m.id = begun /\ m.run = run /\ pending # {}
              /\ main \in {"wait", "timeout", "collect"}
<1> USE DEF MasterInv, TypeOK
<1>1. PICK q \in requests, dst \in Dsts :
         LET m == [txn |-> q.txn, run |-> q.run, id |-> q.id, dst |-> dst]
         IN  Matches(m) /\ Fresh(m) /\ rx' = {m}
  BY DEF TakeReply
<1> DEFINE m == [txn |-> q.txn, run |-> q.run, id |-> q.id, dst |-> dst]
<1>2. m \in Reply /\ q \in Request /\ q.id \in Nat
  BY DEF Request, Reply
<1>3. q.txn \in pending /\ begun - q.id < TxnMod
  BY <1>1 DEF Matches, Fresh
<1>4. q.id <= begun /\ begun % TxnMod = q.id % TxnMod
  BY <1>3 DEF NumbersWhere
<1>5. q.id = begun
  BY <1>2, <1>3, <1>4, SameNumber
<1>6. q.run = run
  BY <1>3, <1>5 DEF NumbersWhere
<1>7. main \in {"wait", "timeout", "collect"}
  BY <1>3, <1>5 DEF NumbersWhere, PendingWhere, TakeReply
<1>8. QED BY <1>1, <1>2, <1>3, <1>5, <1>6, <1>7

-----------------------------------------------------------------------------
\* The state of the program stays well typed.
LEMMA TypeKeeps ==
    ASSUME MasterInv, [Next]_vars
    PROVE  TypeOK'
<1> USE DEF MasterInv, TypeOK, account, handling
<1>1. CASE RunOnce
  BY <1>1 DEF RunOnce
<1>2. CASE BeginAttempt
  <2>1. (txn + 1) % TxnMod \in 0..TxnMod - 1
    OBVIOUS
  <2>2. QED BY <1>2, <2>1 DEF BeginAttempt, NextTxn
<1>3. CASE ClearDone \/ WaitSucceeds \/ WaitTimesOut \/ Crash
  <2>1. CASE ClearDone
    BY <2>1 DEF ClearDone, Clear
  <2>2. CASE WaitSucceeds
    BY <2>2 DEF WaitSucceeds
  <2>3. CASE WaitTimesOut
    BY <2>3 DEF WaitTimesOut
  <2>4. CASE Crash
    BY <2>4 DEF Crash
  <2>5. QED BY <1>3, <2>1, <2>2, <2>3, <2>4
<1>4. CASE Publish
  <2>1. [txn |-> txn, run |-> run, id |-> begun] \in Request
    BY DEF Request
  <2>2. QED BY <1>4, <2>1 DEF Publish
<1>5. CASE TimeOut \/ Collect
  <2>1. NextAttempt => attempt' \in 0..Retries + 1 /\ outcome' \in {"none", "ok", "failed"}
                       /\ main' \in {"idle", "begin"}
    BY DEF NextAttempt
  <2>2. CASE TimeOut
    BY <2>1, <2>2 DEF TimeOut
  <2>3. CASE Collect
    BY <2>1, <2>3 DEF Collect
  <2>4. QED BY <1>5, <2>2, <2>3
<1>6. CASE TakeReply
  <2>1. PICK m \in Reply : rx' = {m}
    BY <1>6, ReplyFacts
  <2>2. QED BY <1>6, <2>1 DEF TakeReply
<1>7. CASE Forward
  BY <1>7 DEF Forward
<1>8. CASE StoreReply \/ SetDone
  <2>1. CASE StoreReply
    <3>1. reply' \in SUBSET BOOLEAN /\ pending' \in SUBSET Txn
      BY <2>1 DEF StoreReply, Answered, Usable
    <3>2. QED BY <2>1, <3>1 DEF StoreReply
  <2>2. CASE SetDone
    BY <2>2 DEF SetDone
  <2>3. QED BY <1>8, <2>1, <2>2
<1>9. CASE UNCHANGED vars \/ Spin
  <2>1. UNCHANGED vars
    BY <1>9 DEF Spin
  <2>2. QED BY <2>1 DEF vars
<1>10. QED
  BY <1>1, <1>2, <1>3, <1>4, <1>5, <1>6, <1>7, <1>8, <1>9 DEF Next, MainStep, SpinStep

\* Numbers keep their meaning.
LEMMA NumbersKeep ==
    ASSUME MasterInv, [Next]_vars
    PROVE  NumbersWhere'
<1> USE DEF MasterInv, TypeOK, NumbersWhere, account, handling
<1>1. CASE RunOnce
  <2>1. pending = {} /\ run' = run + 1 /\ UNCHANGED <<txn, begun, pending, requests>> /\ main' = "begin"
    BY <1>1 DEF RunOnce, PendingWhere
  <2>2. QED BY <2>1, Counts
<1>2. CASE BeginAttempt
  <2>1. txn' = (begun + 1) % TxnMod
    BY <1>2, NextNumber DEF BeginAttempt, NextTxn
  <2>2. /\ pending' = {txn'} /\ begun' = begun + 1 /\ main' = "clear"
        /\ UNCHANGED <<requests, run>>
    BY <1>2 DEF BeginAttempt
  <2>3. QED BY <2>1, <2>2, Counts
<1>3. CASE ClearDone \/ WaitSucceeds \/ WaitTimesOut \/ Crash
  <2>1. CASE ClearDone
    BY <2>1 DEF ClearDone
  <2>2. CASE WaitSucceeds
    BY <2>2 DEF WaitSucceeds
  <2>3. CASE WaitTimesOut
    BY <2>3 DEF WaitTimesOut
  <2>4. CASE Crash
    BY <2>4 DEF Crash
  <2>5. QED BY <1>3, <2>1, <2>2, <2>3, <2>4
<1>4. CASE Publish
  BY <1>4 DEF Publish
<1>5. CASE TimeOut \/ Collect
  <2>1. CASE TimeOut
    BY <2>1 DEF TimeOut, NextAttempt
  <2>2. CASE Collect
    BY <2>2 DEF Collect, NextAttempt
  <2>3. QED BY <1>5, <2>1, <2>2
<1>6. CASE TakeReply \/ Forward \/ SetDone
  <2>1. CASE TakeReply
    BY <2>1 DEF TakeReply
  <2>2. CASE Forward
    BY <2>2 DEF Forward
  <2>3. CASE SetDone
    BY <2>3 DEF SetDone
  <2>4. QED BY <1>6, <2>1, <2>2, <2>3
<1>7. CASE StoreReply
  BY <1>7 DEF StoreReply, Answered
<1>8. CASE UNCHANGED vars \/ Spin
  <2>1. UNCHANGED vars
    BY <1>8 DEF Spin
  <2>2. QED BY <2>1 DEF vars
<1>9. QED
  BY <1>1, <1>2, <1>3, <1>4, <1>5, <1>6, <1>7, <1>8 DEF Next, MainStep, SpinStep

\* What is pending has not been answered.
LEMMA PendingKeeps ==
    ASSUME MasterInv, [Next]_vars
    PROVE  PendingWhere'
<1> USE DEF MasterInv, TypeOK, PendingWhere, account, handling
<1>1. CASE RunOnce
  <2>1. UNCHANGED <<begun, pending, reply, spin, rx>> /\ pending = {} /\ run' = run + 1
    BY <1>1 DEF RunOnce
  <2>2. \A m \in rx : m.run <= run => m.run <= run'
    BY <2>1, Counts
  <2>3. QED BY <2>1, <2>2
<1>2. CASE BeginAttempt
  <2>1. UNCHANGED <<run, spin, rx>> /\ reply' = {} /\ main' = "clear" /\ begun' = begun + 1
    BY <1>2 DEF BeginAttempt
  <2>2. \A m \in rx : m.id <= begun => m.id <= begun'
    BY <2>1, Counts
  <2>3. QED BY <2>1, <2>2
<1>3. CASE ClearDone \/ WaitSucceeds \/ WaitTimesOut \/ Crash \/ Publish
  <2>1. CASE ClearDone
    BY <2>1 DEF ClearDone
  <2>2. CASE WaitSucceeds
    BY <2>2 DEF WaitSucceeds
  <2>3. CASE WaitTimesOut
    BY <2>3 DEF WaitTimesOut
  <2>4. CASE Crash
    BY <2>4 DEF Crash
  <2>5. CASE Publish
    BY <2>5 DEF Publish
  <2>6. QED BY <1>3, <2>1, <2>2, <2>3, <2>4, <2>5
<1>4. CASE TimeOut \/ Collect
  <2>1. CASE TimeOut
    BY <2>1 DEF TimeOut, NextAttempt
  <2>2. CASE Collect
    BY <2>2 DEF Collect, NextAttempt
  <2>3. QED BY <1>4, <2>1, <2>2
<1>5. CASE TakeReply
  <2>1. PICK m \in Reply : rx' = {m} /\ m.id = begun /\ m.run = run
    BY <1>5, ReplyFacts
  <2>2. QED BY <1>5, <2>1 DEF TakeReply
<1>6. CASE Forward \/ SetDone
  <2>1. CASE Forward
    BY <2>1 DEF Forward
  <2>2. CASE SetDone
    BY <2>2 DEF SetDone
  <2>3. QED BY <1>6, <2>1, <2>2
<1>7. CASE StoreReply
  <2>1. PICK m \in rx : rx = {m}
    BY <1>7 DEF StoreReply
  <2>2. reply' = {Usable(m.dst)}
    BY <1>7, <2>1 DEF StoreReply
  <2>3. QED BY <1>7, <2>2 DEF StoreReply, Answered
<1>8. CASE UNCHANGED vars \/ Spin
  <2>1. UNCHANGED vars
    BY <1>8 DEF Spin
  <2>2. QED BY <2>1 DEF vars
<1>9. QED
  BY <1>1, <1>2, <1>3, <1>4, <1>5, <1>6, <1>7, <1>8 DEF Next, MainStep, SpinStep

\* No reply is delivered twice.
LEMMA DeliveredKeeps ==
    ASSUME MasterInv, [Next]_vars
    PROVE  DeliveredWhere'
<1> USE DEF MasterInv, TypeOK, DeliveredWhere, OncePerAttempt, account, handling
<1>1. CASE RunOnce
  BY <1>1, Counts DEF RunOnce
<1>2. CASE BeginAttempt
  BY <1>2, Counts DEF BeginAttempt
<1>3. CASE ClearDone \/ WaitSucceeds \/ WaitTimesOut \/ Crash \/ Publish
  <2>1. CASE ClearDone
    BY <2>1 DEF ClearDone
  <2>2. CASE WaitSucceeds
    BY <2>2 DEF WaitSucceeds
  <2>3. CASE WaitTimesOut
    BY <2>3 DEF WaitTimesOut
  <2>4. CASE Crash
    BY <2>4 DEF Crash
  <2>5. CASE Publish
    BY <2>5 DEF Publish
  <2>6. QED BY <1>3, <2>1, <2>2, <2>3, <2>4, <2>5
<1>4. CASE TimeOut \/ Collect
  <2>1. CASE TimeOut
    BY <2>1 DEF TimeOut, NextAttempt
  <2>2. CASE Collect
    BY <2>2 DEF Collect, NextAttempt
  <2>3. QED BY <1>4, <2>1, <2>2
<1>5. CASE TakeReply
  <2>1. PICK m \in Reply : rx' = {m} /\ m.id = begun /\ pending # {}
    BY <1>5, ReplyFacts
  <2>2. QED BY <1>5, <2>1 DEF TakeReply
<1>6. CASE Forward
  <2>1. PICK m \in rx : rx = {m} /\ m.id <= begun /\ m.run <= run
    BY <1>6 DEF Forward, PendingWhere
  <2>2. m \in Reply /\ \A i \in DOMAIN delivered : delivered[i].id # m.id
    BY <1>6, <2>1 DEF Forward
  <2>3. CASE Usable(m.dst)
    <3>1. delivered' = Append(delivered, m)
      BY <1>6, <2>1, <2>3 DEF Forward
    <3>2. DOMAIN delivered = 1..Len(delivered) /\ DOMAIN delivered' = 1..Len(delivered) + 1
      BY <2>2, <3>1
    <3>3. /\ \A i \in DOMAIN delivered : delivered'[i] = delivered[i]
          /\ delivered'[Len(delivered) + 1] = m
      BY <2>2, <3>1
    <3>4. QED BY <1>6, <2>1, <2>2, <3>2, <3>3 DEF Forward
  <2>4. CASE ~Usable(m.dst)
    BY <1>6, <2>1, <2>4 DEF Forward
  <2>5. QED BY <2>3, <2>4
<1>7. CASE StoreReply
  BY <1>7 DEF StoreReply, Answered
<1>8. CASE SetDone
  BY <1>8 DEF SetDone
<1>9. CASE UNCHANGED vars \/ Spin
  <2>1. UNCHANGED vars
    BY <1>9 DEF Spin
  <2>2. QED BY <2>1 DEF vars
<1>10. QED
  BY <1>1, <1>2, <1>3, <1>4, <1>5, <1>6, <1>7, <1>8, <1>9 DEF Next, MainStep, SpinStep

-----------------------------------------------------------------------------
\* Answers depend on what was delivered only.
LEMMA SameAnswers ==
    ASSUME UNCHANGED <<delivered, run>>
    PROVE  (OneAnswer' <=> OneAnswer) /\ (NoAnswer' <=> NoAnswer)
  BY DEF OneAnswer, NoAnswer, Answers

\* So do the truth of the last outcome and what is known of the reply in hand.
LEMMA SameHandling ==
    ASSUME UNCHANGED <<main, spin, done, reply, rx, outcome, overtaken, delivered, run>>
    PROVE  HandlingWhere' = HandlingWhere /\ RunTellsTheTruth' = RunTellsTheTruth
  BY DEF HandlingWhere, ReplyWhere, RunTellsTheTruth, OneAnswer, NoAnswer, Answers

\* The threads stay in step.
LEMMA InStepKeeps ==
    ASSUME MasterInv, [Next]_vars, ~overtaken'
    PROVE  InStepWhere'
<1> USE DEF MasterInv, TypeOK, InStepWhere, account, handling
<1>1. CASE RunOnce
  <2>1. \A i \in DOMAIN delivered : delivered[i].run <= run
    BY DEF DeliveredWhere
  <2>2. spin' = "idle" /\ main' = "begin" /\ run' = run + 1 /\ delivered' = delivered
    BY <1>1 DEF RunOnce
  <2>3. \A i \in DOMAIN delivered' : delivered'[i].run # run'
    BY <2>1, <2>2, Counts
  <2>4. NoAnswer'
    BY <2>3 DEF NoAnswer, Answers
  <2>5. QED BY <2>2, <2>4 DEF RunTellsTheTruth
<1>2. CASE BeginAttempt
  BY <1>2, SameAnswers DEF BeginAttempt, RunTellsTheTruth
<1>3. CASE ClearDone
  BY <1>3, SameAnswers DEF ClearDone, Clear, RunTellsTheTruth
<1>4. CASE Publish
  BY <1>4, SameAnswers DEF Publish, RunTellsTheTruth, HandlingWhere, ReplyWhere
<1>5. CASE WaitSucceeds
  BY <1>5, SameAnswers DEF WaitSucceeds, RunTellsTheTruth, HandlingWhere, ReplyWhere
<1>6. CASE WaitTimesOut
  BY <1>6, SameAnswers DEF WaitTimesOut, RunTellsTheTruth, HandlingWhere, ReplyWhere
<1>7. CASE TimeOut
  <2>1. ~overtaken /\ spin = "idle" /\ ~done /\ main = "timeout" /\ NextAttempt
    BY <1>7 DEF TimeOut
  <2>2. NoAnswer
    BY <2>1 DEF HandlingWhere
  <2>3. NoAnswer' /\ spin' = "idle"
    BY <1>7, <2>1, <2>2, SameAnswers DEF TimeOut
  <2>4. main' = "begin" \/ (main' = "idle" /\ outcome' = "failed")
    BY <2>1 DEF NextAttempt
  <2>5. QED BY <2>3, <2>4 DEF RunTellsTheTruth, NoAnswer
<1>8. CASE Collect
  <2>1. ~overtaken /\ main = "collect" /\ HandlingWhere /\ spin' = "idle" /\ UNCHANGED <<delivered, run>>
    BY <1>8 DEF Collect
  <2>2. CASE TRUE \in reply /\ main' = "idle" /\ outcome' = "ok"
    BY <2>1, <2>2, SameAnswers DEF HandlingWhere, ReplyWhere, RunTellsTheTruth, OneAnswer
  <2>3. CASE FALSE \in reply /\ NextAttempt
    <3>1. reply = {FALSE}
      BY <2>3 DEF PendingWhere
    <3>2. NoAnswer'
      BY <2>1, <3>1, SameAnswers DEF HandlingWhere, ReplyWhere
    <3>3. main' = "begin" \/ (main' = "idle" /\ outcome' = "failed")
      BY <2>3 DEF NextAttempt
    <3>4. QED BY <2>1, <3>2, <3>3 DEF RunTellsTheTruth, NoAnswer
  <2>4. QED BY <1>8, <2>2, <2>3 DEF Collect
<1>9. CASE Crash
  BY <1>9 DEF Crash
<1>10. CASE TakeReply
  <2>1. PICK m \in Reply : rx' = {m} /\ m.run = run /\ pending # {}
                          /\ main \in {"wait", "timeout", "collect"}
    BY <1>10, ReplyFacts
  <2>2. /\ ~overtaken /\ spin = "idle" /\ spin' = "forward"
        /\ UNCHANGED <<main, reply, done, delivered, run>>
    BY <1>10 DEF TakeReply
  <2>3. reply = {} /\ ~done /\ NoAnswer /\ main # "collect"
    BY <2>1, <2>2 DEF PendingWhere, HandlingWhere
  <2>4. NoAnswer'
    BY <2>2, <2>3, SameAnswers
  <2>5. HandlingWhere'
    BY <2>1, <2>2, <2>3, <2>4 DEF HandlingWhere, ReplyWhere
  <2>6. QED BY <2>1, <2>2, <2>3, <2>5 DEF RunTellsTheTruth
<1>11. CASE Forward
  <2>1. /\ ~overtaken /\ spin = "forward" /\ spin' = "store"
        /\ UNCHANGED <<main, reply, done, rx, run>>
    BY <1>11 DEF Forward
  <2>2. main \in {"wait", "timeout"} /\ HandlingWhere /\ NoAnswer /\ reply = {} /\ ~done
    BY <2>1 DEF HandlingWhere
  <2>3. PICK m \in rx : rx = {m} /\ m.run = run /\ m \in Reply
    BY <2>1, <2>2 DEF PendingWhere, HandlingWhere
  <2>4. IF Usable(m.dst) THEN OneAnswer' ELSE NoAnswer'
    <3>1. CASE Usable(m.dst)
      <4>1. delivered' = Append(delivered, m)
        BY <1>11, <2>3, <3>1 DEF Forward
      <4>2. DOMAIN delivered = 1..Len(delivered) /\ DOMAIN delivered' = 1..Len(delivered) + 1
        BY <2>3, <4>1
      <4>3. /\ \A i \in DOMAIN delivered : delivered'[i] = delivered[i]
            /\ delivered'[Len(delivered) + 1] = m
        BY <2>3, <4>1
      <4>4. Answers(run)' = {Len(delivered) + 1}
        BY <2>1, <2>2, <2>3, <4>2, <4>3 DEF Answers, NoAnswer
      <4>5. QED BY <3>1, <4>4 DEF OneAnswer
    <3>2. CASE ~Usable(m.dst)
      <4>1. UNCHANGED <<delivered, run>>
        BY <1>11, <2>1, <2>3, <3>2 DEF Forward
      <4>2. QED BY <2>2, <3>2, <4>1, SameAnswers
    <3>3. QED BY <3>1, <3>2
  <2>5. HandlingWhere'
    BY <2>1, <2>2, <2>3, <2>4 DEF HandlingWhere, ReplyWhere, Usable
  <2>6. QED BY <2>1, <2>2, <2>5 DEF RunTellsTheTruth
<1>12. CASE StoreReply
  <2>1. /\ ~overtaken /\ spin = "store" /\ spin' = "set" /\ reply' = {Usable(m.dst) : m \in rx}
        /\ UNCHANGED <<main, done, rx, delivered, run>>
    BY <1>12 DEF StoreReply
  <2>2. main \in {"wait", "timeout"} /\ HandlingWhere /\ ~done
    BY <2>1 DEF HandlingWhere
  <2>3. PICK m \in rx : rx = {m} /\ IF Usable(m.dst) THEN OneAnswer ELSE NoAnswer
    BY <2>1, <2>2 DEF PendingWhere, HandlingWhere
  <2>4. reply' = {Usable(m.dst)} /\ IF Usable(m.dst) THEN OneAnswer' ELSE NoAnswer'
    BY <2>1, <2>3, SameAnswers
  <2>5. HandlingWhere'
    BY <2>1, <2>2, <2>4 DEF HandlingWhere, ReplyWhere
  <2>6. QED BY <2>1, <2>2, <2>5 DEF RunTellsTheTruth
<1>13. CASE SetDone
  <2>1. /\ ~overtaken /\ spin = "set" /\ spin' = "idle" /\ done'
        /\ UNCHANGED <<main, reply, delivered, run>>
    BY <1>13 DEF SetDone
  <2>2. main \in {"wait", "timeout"} /\ HandlingWhere /\ reply # {}
    BY <2>1 DEF HandlingWhere
  <2>3. HandlingWhere'
    BY <2>1, <2>2, SameAnswers DEF HandlingWhere, ReplyWhere
  <2>4. QED BY <2>1, <2>2, <2>3 DEF RunTellsTheTruth
<1>14. CASE UNCHANGED vars \/ Spin
  <2>1. UNCHANGED vars
    BY <1>14 DEF Spin
  <2>2. UNCHANGED <<main, spin, done, reply, rx, outcome, overtaken, delivered, run>>
    BY <2>1 DEF vars
  <2>3. QED BY <2>2, SameAnswers, SameHandling
<1>15. QED
  BY <1>1, <1>2, <1>3, <1>4, <1>5, <1>6, <1>7, <1>8, <1>9, <1>10, <1>11, <1>12, <1>13, <1>14
     DEF Next, MainStep, SpinStep

-----------------------------------------------------------------------------
\* The invariant behind the properties of the script, in every reachable state
\* (_on_rx, _forward, run_once and _attempt in any interleaving).
THEOREM MasterInvariantHolds == Spec => []MasterInv
<1>1. Init => MasterInv
  <2>1. SUFFICES ASSUME Init PROVE MasterInv
    OBVIOUS
  <2>2. TypeOK
    <3>1. 0 \in 0..TxnMod - 1 /\ 0 \in 0..Retries + 1 /\ 0 \in 0..MaxRuns
      OBVIOUS
    <3>2. <<>> \in Seq(Reply)
      OBVIOUS
    <3>3. QED BY <2>1, <3>1, <3>2 DEF Init, TypeOK
  <2>3. 0 % TxnMod = 0 /\ DOMAIN delivered = {}
    BY <2>1 DEF Init
  <2>4. NumbersWhere /\ PendingWhere
    BY <2>1, <2>3 DEF Init, NumbersWhere, PendingWhere
  <2>5. DeliveredWhere /\ InStepWhere
    BY <2>1, <2>3 DEF Init, DeliveredWhere, OncePerAttempt, InStepWhere, RunTellsTheTruth
  <2>6. QED BY <2>2, <2>4, <2>5 DEF MasterInv
<1>2. MasterInv /\ [Next]_vars => MasterInv'
  BY TypeKeeps, NumbersKeep, PendingKeeps, DeliveredKeeps, InStepKeeps DEF MasterInv
<1>3. QED BY <1>1, <1>2, PTL DEF Spec

\* The attempts stay within the retries, and the numbers and replies within their
\* ranges (run_once and _attempt, lines 196-248).
THEOREM MasterTypes == Spec => []TypeOK
<1>1. MasterInv => TypeOK
  BY DEF MasterInv
<1>2. QED BY <1>1, MasterInvariantHolds, PTL

\* However often the slave's answer to an attempt arrives, and whatever the two threads
\* are doing, it is forwarded once (lines 129-165).
THEOREM ForwardsOnce == Spec => []OncePerAttempt
<1>1. MasterInv => OncePerAttempt
  BY DEF MasterInv, DeliveredWhere
<1>2. QED BY <1>1, MasterInvariantHolds, PTL

\* What run_once returns says whether the text went all the way (line 198), unless an
\* attempt timed out while its reply was being handled.
THEOREM RunsTellTheTruth == Spec => []RunTellsTheTruth
<1>1. MasterInv => RunTellsTheTruth
  BY DEF MasterInv, InStepWhere, RunTellsTheTruth
<1>2. QED BY <1>1, MasterInvariantHolds, PTL

\* The script unpacks None (line 247) only after such a time-out.
THEOREM CrashesOnlyOvertaken == Spec => []CrashNeedsOvertaking
<1>1. MasterInv => CrashNeedsOvertaking
  BY DEF MasterInv, InStepWhere, CrashNeedsOvertaking
<1>2. QED BY <1>1, MasterInvariantHolds, PTL
=============================================================================
