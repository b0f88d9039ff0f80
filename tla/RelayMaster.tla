---------------------------- MODULE RelayMaster ----------------------------
(***************************************************************************)
(* The relay as a script (test/ds10_relay_master.py): the main thread runs *)
(* one transaction at a time and waits for an event, the thread that spins *)
(* the node handles replies, forwards them and sets the event.  A critical *)
(* section, or a side effect between two, is one step.  Frames that _on_rx *)
(* ignores change nothing but a counter.                                   *)
(***************************************************************************)
EXTENDS Naturals, Sequences

CONSTANTS TxnMod,   \* transaction numbers wrap at this value, 65536 in the code
          Retries,  \* --retries
          Slave1,   \* --slave1
          Dsts,     \* dst bytes the slave may name
          MaxRuns   \* bound on the texts typed

ASSUME RelayMasterParameters ==
    TxnMod \in Nat \ {0} /\ Retries \in Nat /\ MaxRuns \in Nat /\ Dsts \subseteq 0..255

NO_FORWARD == 0
MIN_STATION == 1
MAX_STATION == 247

VARIABLES txn, pending, reply,  \* under _lock; pending and reply are {} for None
          done,       \* the event
          main, spin, \* program points of the two threads
          rx,         \* {} or the reply _on_rx works on
          attempt,    \* of the running transaction
          outcome,    \* of the last run_once
          requests,   \* requests published so far
          delivered,  \* auxiliary: replies forwarded, or kept as asked, in order
          run, begun, \* auxiliary: runs and attempts so far
          overtaken   \* auxiliary: in this run, a reply was being handled, or its event
                      \* set, while its attempt timed out, or when the run began

vars == <<txn, pending, reply, done, main, spin, rx, attempt, outcome, requests,
          delivered, run, begun, overtaken>>

account == <<outcome, requests, delivered, run>>
handling == <<spin, rx>>

Txn == 0..TxnMod - 1
Request == [txn : Txn, run : Nat, id : Nat]
Reply == [txn : Txn, run : Nat, id : Nat, dst : Dsts]

TypeOK ==
    /\ txn \in Txn /\ pending \in SUBSET Txn /\ reply \in SUBSET BOOLEAN
    /\ done \in BOOLEAN /\ overtaken \in BOOLEAN
    /\ main \in {"idle", "begin", "clear", "publish", "wait", "timeout", "collect", "crashed"}
    /\ spin \in {"idle", "forward", "store", "set"}
    /\ rx \in SUBSET Reply
    /\ attempt \in 0..Retries + 1 /\ run \in 0..MaxRuns /\ begun \in Nat
    /\ outcome \in {"none", "ok", "failed"}
    /\ requests \subseteq Request /\ delivered \in Seq(Reply)

Init ==
    /\ txn = 0 /\ pending = {} /\ reply = {} /\ done = FALSE
    /\ main = "idle" /\ spin = "idle" /\ rx = {}
    /\ attempt = 0 /\ outcome = "none" /\ requests = {}
    /\ delivered = <<>> /\ run = 0 /\ begun = 0 /\ overtaken = FALSE

-----------------------------------------------------------------------------
(* The main thread: run_once and _attempt *)

\* Mutant of NextTxn: the number does not wrap.
NextTxnBare == txn + 1

NextTxn == (txn + 1) % TxnMod

\* Mutant of Clear: the event is not cleared.
ClearNothing == UNCHANGED done

Clear == done' = FALSE

RunOnce ==
    /\ main = "idle" /\ run < MaxRuns
    /\ main' = "begin" /\ attempt' = 1 /\ outcome' = "none"
    /\ run' = run + 1 /\ overtaken' = (spin # "idle")
    /\ UNCHANGED <<txn, pending, reply, done, handling, requests, delivered, begun>>

\* Under the lock.
BeginAttempt ==
    /\ main = "begin" /\ main' = "clear"
    /\ txn' = NextTxn /\ pending' = {txn'} /\ reply' = {}
    /\ begun' = begun + 1
    /\ UNCHANGED <<done, handling, attempt, account, overtaken>>

ClearDone ==
    /\ main = "clear" /\ main' = "publish" /\ Clear
    /\ UNCHANGED <<txn, pending, reply, handling, attempt, account, overtaken, begun>>

Publish ==
    /\ main = "publish" /\ main' = "wait"
    /\ requests' = requests \cup {[txn |-> txn, run |-> run, id |-> begun]}
    /\ UNCHANGED <<txn, pending, reply, done, handling, attempt, outcome, delivered, run, overtaken, begun>>

WaitSucceeds ==
    /\ main = "wait" /\ done /\ main' = "collect"
    /\ UNCHANGED <<txn, pending, reply, done, handling, attempt, account, overtaken, begun>>

\* Mutant of TimesOut: wait() without a timeout.
TimesNever == FALSE

TimesOut == ~done

WaitTimesOut ==
    /\ main = "wait" /\ TimesOut /\ main' = "timeout"
    /\ UNCHANGED <<txn, pending, reply, done, handling, attempt, account, overtaken, begun>>

\* The loop of run_once after an attempt that returned False.
NextAttempt ==
    IF attempt = Retries + 1
      THEN main' = "idle" /\ outcome' = "failed" /\ UNCHANGED attempt
      ELSE main' = "begin" /\ attempt' = attempt + 1 /\ UNCHANGED outcome

\* Under the lock.
TimeOut ==
    /\ main = "timeout" /\ NextAttempt
    /\ pending' = {}
    /\ overtaken' = (overtaken \/ spin # "idle" \/ done)
    /\ UNCHANGED <<txn, reply, done, handling, requests, delivered, run, begun>>

\* Under the lock: the reply stored, and whether it was forwarded as asked.
Collect ==
    /\ main = "collect"
    /\ \/ TRUE \in reply /\ main' = "idle" /\ outcome' = "ok" /\ UNCHANGED attempt
       \/ FALSE \in reply /\ NextAttempt
    /\ UNCHANGED <<txn, pending, reply, done, handling, requests, delivered, run, overtaken, begun>>

\* None cannot be unpacked: the exception ends the script.
Crash ==
    /\ main = "collect" /\ reply = {} /\ main' = "crashed"
    /\ UNCHANGED <<txn, pending, reply, done, handling, attempt, account, overtaken, begun>>

-----------------------------------------------------------------------------
(* The spinning thread: _on_rx and _forward *)

\* Mutant of Matches: any reply while a transaction is pending.
MatchesAny(m) == pending # {}

Matches(m) == m.txn \in pending

\* Replies to what was asked, any number of times, at any time before the numbers have
\* made a full turn.
Fresh(m) == begun - m.id < TxnMod

\* Copies the pending number under the lock, and compares it outside.
TakeReply ==
    /\ spin = "idle" /\ main # "crashed"
    /\ \E q \in requests, dst \in Dsts :
          LET m == [txn |-> q.txn, run |-> q.run, id |-> q.id, dst |-> dst]
          IN  Matches(m) /\ Fresh(m) /\ rx' = {m}
    /\ spin' = "forward"
    /\ UNCHANGED <<txn, pending, reply, done, main, attempt, account, overtaken, begun>>

Usable(dst) == dst = NO_FORWARD \/ (dst \in MIN_STATION..MAX_STATION /\ dst # Slave1)

Forward ==
    /\ spin = "forward" /\ spin' = "store"
    /\ \E m \in rx : delivered' = IF Usable(m.dst) THEN Append(delivered, m) ELSE delivered
    /\ UNCHANGED <<txn, pending, reply, done, main, rx, attempt, outcome, requests, run, overtaken, begun>>

\* Mutant of Answered: the number stays pending.
StillPending == pending

Answered == {}

\* Under the lock.
StoreReply ==
    /\ spin = "store" /\ spin' = "set"
    /\ reply' = {Usable(m.dst) : m \in rx} /\ pending' = Answered
    /\ UNCHANGED <<txn, done, main, rx, attempt, account, overtaken, begun>>

SetDone ==
    /\ spin = "set" /\ spin' = "idle" /\ rx' = {}
    /\ done' = TRUE
    /\ UNCHANGED <<txn, pending, reply, main, attempt, account, overtaken, begun>>

-----------------------------------------------------------------------------
MainStep ==
    BeginAttempt \/ ClearDone \/ Publish \/ WaitSucceeds \/ WaitTimesOut \/ TimeOut \/ Collect \/ Crash
SpinStep == Forward \/ StoreReply \/ SetDone

\* spin() without a reply to handle.
Spin == spin = "idle" /\ UNCHANGED vars

Next == RunOnce \/ MainStep \/ TakeReply \/ SpinStep \/ Spin

Spec == Init /\ [][Next]_vars

\* Both threads run.
FairSpec == Spec /\ WF_vars(MainStep) /\ WF_vars(SpinStep)

-----------------------------------------------------------------------------
(* Properties *)

\* However often the answer to an attempt arrives, it is forwarded once.
OncePerAttempt ==
    \A i, j \in DOMAIN delivered : delivered[i].id = delivered[j].id => i = j

\* The places of the answers to run r among those forwarded or kept.
Answers(r) == {i \in DOMAIN delivered : delivered[i].run = r}

\* What run_once returns is true of the text it was given: True if one answer to it was
\* forwarded or kept, False if none was ("returns True when it went all the way",
\* line 198), late answers to earlier runs notwithstanding; unless an attempt
\* timed out while its reply was being handled.
RunTellsTheTruth ==
    main = "idle" /\ run > 0 /\ ~overtaken =>
        IF outcome = "ok" THEN \E i \in Answers(run) : Answers(run) = {i} ELSE Answers(run) = {}

\* The event may say that there is a reply when _reply is None, and the script crash,
\* only if a reply was being handled while its attempt timed out: clearing the
\* event behind the lock (line 228) is no hazard of its own.
CrashNeedsOvertaking == main = "crashed" => overtaken

\* Every run comes to an end.
RunEnds == main # "idle" ~> main \in {"idle", "crashed"}
=============================================================================
