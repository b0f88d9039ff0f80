----------------------------- MODULE OneOutcome -----------------------------
(***************************************************************************)
(* What the relay promises for the transactions it starts, whatever the    *)
(* radio does: they run one at a time, and each one ends, with exactly one *)
(* outcome, which is counted once.                                         *)
(***************************************************************************)
EXTENDS Naturals

Outcomes == {"forwarded", "kept", "refused", "gave_up"}

VARIABLES asked,   \* transactions started so far
          asking,  \* a transaction has been started and has no outcome yet
          count    \* transactions ended so far, by outcome

vars == <<asked, asking, count>>

TypeOK == asked \in Nat /\ asking \in BOOLEAN /\ count \in [Outcomes -> Nat]

Init == asked = 0 /\ asking = FALSE /\ count = [o \in Outcomes |-> 0]

Ask == ~asking /\ asking' = TRUE /\ asked' = asked + 1 /\ UNCHANGED count

End(o) ==
    /\ asking
    /\ asking' = FALSE
    /\ count' = [count EXCEPT ![o] = @ + 1]
    /\ UNCHANGED asked

Next == Ask \/ \E o \in Outcomes : End(o)

Spec == Init /\ [][Next]_vars

\* Nobody can tell in advance how a transaction ends, but it does.
FairSpec == Spec /\ WF_vars(\E o \in Outcomes : End(o))
=============================================================================
