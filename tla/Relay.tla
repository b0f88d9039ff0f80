------------------------------- MODULE Relay -------------------------------
(***************************************************************************)
(* The relay role of ds10_relay (relay_node.cpp): one request to slave 1   *)
(* outstanding at a time, retries on a one-shot timer, and the reply       *)
(* forwarded to the station the slave named.                               *)
(*                                                                         *)
(* A callback is a handler with a program point of its own, advanced one   *)
(* critical section or side effect at a time; the frames that arrive, the  *)
(* clock and the triggers move in between.  The node creates no callback   *)
(* group, so all its callbacks are in rclcpp's default group, which is     *)
(* mutually exclusive: CanTake.                                            *)
(***************************************************************************)
EXTENDS Ds10Frame

CONSTANTS Slave1,      \* slave1_id_
          MaxRetries,  \* max_retries_
          Empty,       \* the empty payload
          AutoPayload, \* payload of the auto timer's transactions
          Heard,       \* frames that may arrive on the rx topic
          MaxStarts,   \* bound on the triggers taken while idle
          MaxHeard     \* bound on the frames taken from the rx topic

ASSUME RelayParameters ==
    /\ Slave1 \in Station
    /\ MaxRetries \in Nat
ASSUME PayloadParameters ==
    /\ Empty \in Payloads /\ Size[Empty] = 0
    /\ AutoPayload \in Payloads
ASSUME EnvironmentParameters ==
    /\ Heard \subseteq Frame
    /\ \A m \in Heard : m.dst # {} => Size[m.body] <= kMaxReplyPayload
    /\ MaxStarts \in Nat /\ MaxHeard \in Nat

Starters == {"trigger", "auto"}        \* callbacks that start a transaction
Senders == Starters \cup {"timer"}     \* callbacks that run on_timeout
Handlers == Senders \cup {"rx"}

Points == {"idle", "check", "start", "lock", "publish", "arm",
           "match", "cancel", "dispatch"}

Counters == {"sent", "ok", "failed", "retried", "timeouts", "ignored",
             "forwarded", "no_forward", "bad_dst", "oversized"}

VARIABLES busy, txn, pending, attempt, payload,   \* guarded by mutex_
          timer,     \* timeout_timer_: "off" (null or cancelled), "armed", "due"
          stats,     \* the counters of ~/stats
          at,        \* program point of each callback
          arg,       \* {} or the payload a starter was called with
          msg,       \* {} or the frame a callback works on
          started,   \* auxiliary: transactions started since the node came up
          tx         \* frames published on the tx topic so far

core == <<busy, txn, pending, attempt, payload>>
vars == <<core, timer, stats, at, arg, msg, started, tx>>

-----------------------------------------------------------------------------
TypeOK ==
    /\ busy \in BOOLEAN
    /\ txn \in Txn /\ pending \in Txn
    /\ attempt \in 0..MaxRetries + 1
    /\ payload \in Payloads
    /\ timer \in {"off", "armed", "due"}
    /\ stats \in [Counters -> Nat]
    /\ at \in [Handlers -> Points]
    /\ arg \in [Starters -> Optional(Payloads)]
    /\ msg \in [Handlers -> Optional(Frame)]
    /\ started \in Nat
    /\ tx \subseteq Frame

Init ==
    /\ busy = FALSE /\ txn = 0 /\ pending = 0 /\ attempt = 0 /\ payload = Empty
    /\ timer = "off"
    /\ stats = [c \in Counters |-> 0]
    /\ at = [h \in Handlers |-> "idle"]
    /\ arg = [h \in Starters |-> {}]
    /\ msg = [h \in Handlers |-> {}]
    /\ started = 0
    /\ tx = {}

\* Mutant of CanTake: a reentrant callback group.
CanOverlap(h) == at[h] = "idle"

\* The constructor names no callback group for its subscriptions and timers: they
\* share the default one, and one is taken only while no other callback runs.
CanTake(h) == \A g \in Handlers : at[g] = "idle"

Go(h, point) == at' = [at EXCEPT ![h] = point]
Return(h) == Go(h, "idle") /\ msg' = [msg EXCEPT ![h] = {}]
Bump(S) == stats' = [c \in Counters |-> IF c \in S THEN stats[c] + 1 ELSE stats[c]]

\* Frames handled so far: each one is ignored, or ends a transaction.
Handled == stats["ignored"] + stats["ok"] + stats["bad_dst"]

\* A frame the relay puts together.
NewFrame(station, number, body) ==
    [station |-> station, txn |-> number, dst |-> {}, body |-> body, id |-> started]

\* Mutant of Request: every attempt has a number of its own.
RequestRenumbered == NewFrame(Slave1, {(pending + attempt) % TxnMod}, payload)

Request == NewFrame(Slave1, {pending}, payload)

\* Mutant of Forward: the payload asked, not the one the slave returned.
ForwardAsked(dst, body) == NewFrame(dst, {}, payload)

Forward(dst, body) == NewFrame(dst, {}, body)

-----------------------------------------------------------------------------
(* on_trigger, the auto timer's callback and start_transaction *)

\* A trigger message or an auto timer tick is taken by the executor.
TakeStart(h, p) ==
    /\ CanTake(h)
    /\ started + stats["oversized"] < MaxStarts
    /\ h = "auto" => p = AutoPayload
    /\ Go(h, "check")
    /\ arg' = [arg EXCEPT ![h] = {p}]
    /\ UNCHANGED <<core, timer, stats, msg, started, tx>>

\* First critical section: busy, the trigger is dropped or the tick skipped.
StartRefused(h) ==
    /\ at[h] = "check"
    /\ busy
    /\ Return(h)
    /\ arg' = [arg EXCEPT ![h] = {}]
    /\ UNCHANGED <<core, timer, stats, started, tx>>

\* First critical section: idle.  The lock is released before the second one.
StartAllowed(h) ==
    /\ at[h] = "check"
    /\ ~busy
    /\ Go(h, "start")
    /\ UNCHANGED <<core, timer, stats, arg, msg, started, tx>>

PayloadTooLong(h) ==
    /\ at[h] = "start"
    /\ \E p \in arg[h] : Size[p] > kMaxPayload
    /\ Bump({"oversized"})
    /\ Return(h)
    /\ arg' = [arg EXCEPT ![h] = {}]
    /\ UNCHANGED <<core, timer, started, tx>>

\* Mutant of FirstAttempt: the count goes on where the last transaction left it.
AttemptGoesOn == attempt

FirstAttempt == 0

\* Second critical section: allocate the number, then call on_timeout.
StartTransaction(h) ==
    /\ at[h] = "start"
    /\ \E p \in arg[h] : Size[p] <= kMaxPayload /\ payload' = p
    /\ busy' = TRUE
    /\ attempt' = FirstAttempt
    /\ txn' = (txn + 1) % TxnMod
    /\ pending' = txn'
    /\ started' = started + 1
    /\ Go(h, "lock")
    /\ arg' = [arg EXCEPT ![h] = {}]
    /\ UNCHANGED <<timer, stats, msg, tx>>

-----------------------------------------------------------------------------
(* on_timeout and the one-shot timer *)

\* timeout_ elapses on the steady clock: the timer becomes ready.
TimerExpires ==
    /\ timer = "armed"
    /\ timer' = "due"
    /\ UNCHANGED <<core, stats, at, arg, msg, started, tx>>

\* The executor takes the timer; a cancelled timer is never taken.
TakeTimer ==
    /\ CanTake("timer")
    /\ timer = "due"
    /\ Go("timer", "cancel")
    /\ UNCHANGED <<core, timer, stats, arg, msg, started, tx>>

\* The one-shot callback cancels whatever timeout_timer_ points to.
TimerCancels ==
    /\ at["timer"] = "cancel"
    /\ timer' = "off"
    /\ Go("timer", "lock")
    /\ UNCHANGED <<core, stats, arg, msg, started, tx>>

\* Mutant of Exhausted: off by one in the number of retries.
ExhaustedLate == attempt > MaxRetries + 1

Exhausted == attempt > MaxRetries

\* Critical section of on_timeout: attempts left.  (No reply can land between
\* the timer and this lock while the group is exclusive, so the IF never fails.)
Attempt(h) ==
    /\ at[h] = "lock"
    /\ ~(busy /\ Exhausted)
    /\ IF busy
         THEN /\ Bump(IF attempt > 0 THEN {"timeouts", "retried"} ELSE {})
              /\ attempt' = attempt + 1
              /\ msg' = [msg EXCEPT ![h] = {Request}]
              /\ Go(h, "publish")
         ELSE Return(h) /\ UNCHANGED <<stats, attempt>>
    /\ UNCHANGED <<busy, txn, pending, payload, timer, arg, started, tx>>

\* Critical section of on_timeout: retries exhausted.
GiveUp(h) ==
    /\ at[h] = "lock" /\ busy /\ Exhausted
    /\ Bump(IF attempt > 0 THEN {"timeouts", "failed"} ELSE {"failed"})
    /\ busy' = FALSE
    /\ payload' = Empty
    /\ Return(h)
    /\ UNCHANGED <<txn, pending, attempt, timer, arg, started, tx>>

\* build() and publish on the tx topic; a payload that no longer fits aborts the
\* transaction (FramesFit: it always fits).
PublishRequest(h) ==
    /\ at[h] = "publish"
    /\ \E m \in msg[h] :
          IF Size[m.body] > kMaxPayload
            THEN /\ Bump({"oversized"})
                 /\ busy' = FALSE
                 /\ Return(h)
                 /\ UNCHANGED tx
            ELSE /\ tx' = tx \cup {m}
                 /\ Bump({"sent"})
                 /\ Go(h, "arm")
                 /\ UNCHANGED <<busy, msg>>
    /\ UNCHANGED <<txn, pending, attempt, payload, timer, arg, started>>

\* Mutant of NewTimer: the timer is not created.
NoTimer == "off"

NewTimer == "armed"

ArmTimer(h) ==
    /\ at[h] = "arm"
    /\ timer' = NewTimer
    /\ Return(h)
    /\ UNCHANGED <<core, stats, arg, started, tx>>

-----------------------------------------------------------------------------
(* handle_reply and forward *)

\* A frame of another station, or without a header.
IgnoreForeign(m) ==
    /\ CanTake("rx")
    /\ Handled < MaxHeard
    /\ m.station # Slave1 \/ m.txn = {}
    /\ Bump({"ignored"})
    /\ UNCHANGED <<core, timer, at, arg, msg, started, tx>>

TakeReply(m) ==
    /\ CanTake("rx")
    /\ Handled < MaxHeard
    /\ m.station = Slave1 /\ m.txn # {}
    /\ Go("rx", "match")
    /\ msg' = [msg EXCEPT !["rx"] = {m}]
    /\ UNCHANGED <<core, timer, stats, arg, started, tx>>

\* Mutants of Awaited: without the test of busy_, without that of the number.
AwaitedIdle(m) == pending \in m.txn
AwaitedAny(m) == busy

Awaited(m) == busy /\ pending \in m.txn

\* Critical section of handle_reply: idle, or another transaction is pending.
RejectReply ==
    /\ at["rx"] = "match"
    /\ \E m \in msg["rx"] : ~Awaited(m)
    /\ Bump({"ignored"})
    /\ Return("rx")
    /\ UNCHANGED <<core, timer, arg, started, tx>>

AcceptReply ==
    /\ at["rx"] = "match"
    /\ \E m \in msg["rx"] : Awaited(m)
    /\ busy' = FALSE
    /\ Go("rx", "cancel")
    /\ UNCHANGED <<txn, pending, attempt, payload, timer, stats, arg, msg, started, tx>>

\* Outside the lock.
CancelTimer ==
    /\ at["rx"] = "cancel"
    /\ timer' = "off"
    /\ Go("rx", "dispatch")
    /\ UNCHANGED <<core, stats, arg, msg, started, tx>>

\* No dst byte, a dst that is no station, or slave 1 itself.
BadDst ==
    /\ at["rx"] = "dispatch"
    /\ \E m \in msg["rx"] : \A d \in m.dst :
          d # kNoForward /\ (~is_forwardable(d) \/ d = Slave1)
    /\ Bump({"bad_dst", "failed"})
    /\ Return("rx")
    /\ UNCHANGED <<core, timer, arg, started, tx>>

NoForward ==
    /\ at["rx"] = "dispatch"
    /\ \E m \in msg["rx"] : m.dst = {kNoForward}
    /\ Bump({"no_forward", "ok"})
    /\ Return("rx")
    /\ UNCHANGED <<core, timer, arg, started, tx>>

\* forward() refuses a payload above kMaxData and the reply is ok all the same
\* (FramesFit: it always fits).
ForwardReply ==
    /\ at["rx"] = "dispatch"
    /\ \E m \in msg["rx"] : \E d \in m.dst :
          /\ is_forwardable(d) /\ d # Slave1
          /\ IF Size[m.body] > kMaxData
               THEN Bump({"oversized", "ok"}) /\ UNCHANGED tx
               ELSE Bump({"forwarded", "ok"}) /\ tx' = tx \cup {Forward(d, m.body)}
    /\ Return("rx")
    /\ UNCHANGED <<core, timer, arg, started>>

-----------------------------------------------------------------------------
\* Steps inside a callback that is running.
StarterStep(h) ==
    StartRefused(h) \/ StartAllowed(h) \/ PayloadTooLong(h) \/ StartTransaction(h)
SenderStep(h) == Attempt(h) \/ GiveUp(h) \/ PublishRequest(h) \/ ArmTimer(h)
ReplyStep == RejectReply \/ AcceptReply \/ CancelTimer \/ BadDst \/ NoForward \/ ForwardReply

HandlerStep ==
    \/ \E h \in Starters : StarterStep(h)
    \/ \E h \in Senders : SenderStep(h)
    \/ TimerCancels
    \/ ReplyStep

\* spin() with no callback ready and no transaction outstanding.
Spin == ~busy /\ CanTake("rx") /\ UNCHANGED vars

\* Everything but the frames that arrive.
LocalNext ==
    \/ \E h \in Starters, p \in Payloads : TakeStart(h, p)
    \/ TimerExpires
    \/ TakeTimer
    \/ HandlerStep
    \/ Spin

Next == LocalNext \/ \E m \in Heard : IgnoreForeign(m) \/ TakeReply(m)

Spec == Init /\ [][Next]_vars

\* Running callbacks go on, time passes, and a ready timer, which spin() takes
\* before the subscriptions each time the group is free, is taken in the end.
Fairness == WF_vars(HandlerStep) /\ WF_vars(TimerExpires) /\ SF_vars(TakeTimer)

FairSpec == Spec /\ Fairness

-----------------------------------------------------------------------------
(* Properties *)

Resting == \A h \in Handlers : at[h] = "idle"

\* Every report publish_stats can make adds up: each transaction started has sent
\* its first request, and is outstanding or counted once as ok or failed; each
\* timeout led to a retry or to giving up; each ok reply was forwarded or kept.
StatsAddUp ==
    Resting =>
        /\ stats["sent"] = started + stats["retried"]
        /\ started = stats["ok"] + stats["failed"] + (IF busy THEN 1 ELSE 0)
        /\ stats["timeouts"] + stats["bad_dst"] = stats["retried"] + stats["failed"]
        /\ stats["ok"] = stats["forwarded"] + stats["no_forward"]

\* Between callbacks a transaction is outstanding exactly while the one-shot
\* timer is set: no transaction is left that nothing will ever end (busy_ would
\* refuse every later trigger), and no timer is left to fire into the next one.
TimerIffBusy == Resting => (busy <=> timer # "off")

\* The branches the comments call unreachable are: a request that reaches build()
\* and a payload that reaches forward() fit the driver's data field, so that no
\* request is lost between the relay and its driver (relay_node.cpp:527-528).
FramesFit ==
    /\ \A h \in Senders : at[h] = "publish" =>
          \A m \in msg[h] : Size[m.body] + kHeaderLen <= kMaxData
    /\ at["rx"] = "dispatch" => \A m \in msg["rx"] : m.dst # {} => Size[m.body] <= kMaxData

\* All attempts of a transaction are the same frame (same number, same payload), so
\* the answer to any of them ends it; and a transaction is forwarded to one
\* station at most, never to slave 1 and never to an address that is no station.
OneFramePerPurpose ==
    /\ \A m, n \in tx : m.id = n.id /\ (m.txn = {} <=> n.txn = {}) => m = n
    /\ \A m \in tx : m.txn = {} => m.station \in Station \ {Slave1}


\* Every transaction comes to an end: answered, refused or given up.
TransactionEnds == \A t \in Txn : (busy /\ pending = t) ~> ~(busy /\ pending = t)

\* The relay implements OneOutcome: an accepted reply has its outcome at dispatch.
asking == busy \/ at["rx"] \in {"cancel", "dispatch"}
count == [forwarded |-> stats["forwarded"], kept |-> stats["no_forward"],
          refused |-> stats["bad_dst"], gave_up |-> stats["failed"] - stats["bad_dst"]]

Abstract == INSTANCE OneOutcome WITH asked <- started

\* The budget of retries, max_retries for each transaction, is not exceeded, and it is
\* used up by each that is given up: no transaction starts with what another one has
\* left of its attempts (relay_node.cpp:478, 504-516).
RetryBudget ==
    /\ stats["retried"] <= MaxRetries * started
    /\ MaxRetries * count.gave_up <= stats["retried"]

\* Every step of the relay is a step of OneOutcome or leaves it unchanged, and
\* what was asked is answered or given up: one outcome each, none lost, none twice.
OneOutcomeEach == Abstract!FairSpec

\* The timeout timer can fire while an rx callback is in flight (main.cpp:26-28).
TimerNotDeferred == timer = "due" /\ at["rx"] # "idle" => CanTake("timer")
=============================================================================
