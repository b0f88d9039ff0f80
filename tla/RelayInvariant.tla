--------------------------- MODULE RelayInvariant ---------------------------
(***************************************************************************)
(* The inductive invariant behind the safety properties of Relay: what     *)
(* holds between any two steps of a callback, not only when none runs.     *)
(***************************************************************************)
EXTENDS Relay, Integers

\* Program points each callback has.
StarterPoints == {"idle", "check", "start", "lock", "publish", "arm"}
TimerPoints == {"idle", "cancel", "lock", "publish", "arm"}
ReplyPoints == {"idle", "match", "cancel", "dispatch"}

\* Inside on_timeout, from its critical section on.
Sending == {"lock", "publish", "arm"}

\* One callback runs at a time, each along its own points.
OneRuns ==
    /\ \A g, h \in Handlers : at[g] # "idle" /\ at[h] # "idle" => g = h
    /\ \A h \in Starters : at[h] \in StarterPoints
    /\ at["timer"] \in TimerPoints
    /\ at["rx"] \in ReplyPoints

\* What the callback at work may assume of busy_ and of its number of attempts.
BusyWhere ==
    /\ \A h \in Senders : at[h] \in Sending => busy
    /\ \A h \in Starters : at[h] = "start" => ~busy
    /\ at["timer"] = "cancel" => busy
    /\ at["rx"] \in {"cancel", "dispatch"} => ~busy
    /\ \A h \in Starters : at[h] = "lock" => attempt = 0
    /\ busy /\ (\A h \in Starters : at[h] # "lock") => attempt > 0

\* The timer is set while the transaction waits, and until an accepted reply or
\* its own callback has cancelled it.
TimerWhere ==
    timer # "off" <=> \/ at["rx"] = "cancel"
                      \/ busy /\ \A h \in Senders : at[h] \notin Sending

\* A request about to be published is the one of the pending transaction.
MessageWhere ==
    /\ \A h \in Senders : at[h] = "publish" => msg[h] = {Request}
    /\ busy => Size[payload] <= kMaxPayload
    /\ at["rx"] # "idle" =>
          \E m \in msg["rx"] :
              msg["rx"] = {m} /\ (m.dst # {} => Size[m.body] <= kMaxReplyPayload)

\* The first attempt, or a retry already counted, that is not yet counted as sent.
Owed ==
    IF (\E h \in Starters : at[h] \in {"lock", "publish"}) \/ at["timer"] = "publish"
      THEN 1 ELSE 0

CountersWhere ==
    /\ stats["sent"] + Owed = started + stats["retried"]
    /\ started = stats["ok"] + stats["failed"] + (IF asking THEN 1 ELSE 0)
    /\ stats["timeouts"] + stats["bad_dst"] = stats["retried"] + stats["failed"]
    /\ stats["ok"] = stats["forwarded"] + stats["no_forward"]
    /\ stats["bad_dst"] <= stats["failed"]

\* Retries of the transactions before this one, and of this one.
BudgetWhere ==
    /\ RetryBudget
    /\ busy => stats["retried"] >= MaxRetries * count.gave_up
                                     + (IF attempt = 0 THEN 0 ELSE attempt - 1)
    /\ busy => stats["retried"] <= MaxRetries * (started - 1)
                                     + (IF attempt = 0 THEN 0 ELSE attempt - 1)

PublishedWhere ==
    /\ \A m \in tx : m.id <= started
    /\ \A m \in tx : m.txn # {} /\ m.id = started /\ asking => m = Request
    /\ \A m \in tx : m.txn = {} /\ m.id = started => ~asking
    /\ OneFramePerPurpose

\* What a restart of the node does not disturb, and what it does.
SafeInv == TypeOK /\ OneRuns /\ BusyWhere /\ TimerWhere /\ MessageWhere /\ PublishedWhere
AccountInv == CountersWhere /\ BudgetWhere

IInv == SafeInv /\ AccountInv
=============================================================================
