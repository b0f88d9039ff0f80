------------------------ MODULE RelayMasterInvariant ------------------------
(***************************************************************************)
(* The inductive invariant behind the safety properties of RelayMaster:    *)
(* what a number pending, or a reply being handled, says of the attempt.   *)
(***************************************************************************)
EXTENDS RelayMaster

\* A number stands for one attempt in TxnMod, and the pending one for the last.
NumbersWhere ==
    /\ txn = begun % TxnMod /\ pending \subseteq {txn}
    /\ \A q \in requests : q.id <= begun /\ q.run <= run /\ q.txn = q.id % TxnMod
    /\ pending # {} => \A q \in requests : q.id = begun => q.run = run
    /\ main \in {"clear", "publish"} => \A q \in requests : q.id # begun

\* Nothing is pending that has been answered, nor between two runs or attempts.
PendingWhere ==
    /\ reply # {} => pending = {} /\ reply # BOOLEAN
    /\ main \in {"idle", "begin"} => pending = {}
    /\ spin = "idle" <=> rx = {}
    /\ spin # "idle" => \E m \in rx : rx = {m} /\ m.id <= begun /\ m.run <= run

\* What has been delivered is not delivered again.
DeliveredWhere ==
    /\ OncePerAttempt
    /\ \A i \in DOMAIN delivered : delivered[i].id <= begun /\ delivered[i].run <= run
    /\ pending # {} /\ spin # "store" => \A i \in DOMAIN delivered : delivered[i].id # begun
    /\ spin = "forward" => \A i \in DOMAIN delivered : \A m \in rx : delivered[i].id # m.id

OneAnswer == \E i \in Answers(run) : Answers(run) = {i}
NoAnswer == Answers(run) = {}

\* The reply stored is what was delivered for this run.
ReplyWhere == reply # {} => IF TRUE \in reply THEN OneAnswer ELSE NoAnswer

\* The spinning thread at work on the reply to the attempt that waits.
HandlingWhere ==
    /\ spin = "idle" => (done <=> reply # {}) /\ (reply = {} => NoAnswer)
    /\ spin # "idle" => ~done /\ (reply # {} <=> spin = "set")
    /\ spin \in {"forward", "store"} => \A m \in rx : m.run = run
    /\ spin = "forward" => NoAnswer
    /\ spin = "store" => \A m \in rx : IF Usable(m.dst) THEN OneAnswer ELSE NoAnswer
    /\ ReplyWhere

\* As long as no attempt of this run has timed out under a reply being handled.
InStepWhere ==
    /\ main # "crashed"
    /\ main \in {"idle", "begin", "clear", "publish", "collect"} => spin = "idle"
    /\ main \in {"begin", "clear", "publish"} => NoAnswer
    /\ main \in {"clear", "publish"} => reply = {}
    /\ main = "publish" => ~done
    /\ main \in {"wait", "timeout", "collect"} => HandlingWhere
    /\ main = "collect" => reply # {}
    /\ RunTellsTheTruth

MasterInv ==
    /\ TypeOK /\ NumbersWhere /\ PendingWhere /\ DeliveredWhere
    /\ ~overtaken => InStepWhere
=============================================================================
