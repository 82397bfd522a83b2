----------------------------- MODULE EventDelivery -----------------------------
(***************************************************************************)
(* What the outboxes, Kafka and the inboxes promise together: an event     *)
(* that was committed takes effect at each of its consumers, exactly once. *)
(***************************************************************************)
EXTENDS Naturals

CONSTANTS
    Events,
    Subscriptions   \* pairs of a consumer and an event that it handles

VARIABLES
    happened,   \* events whose transaction has committed
    effects     \* how often each subscription has taken effect

vars == <<happened, effects>>

Init ==
    /\ happened = {}
    /\ effects = [s \in Subscriptions |-> 0]

Happen(e) ==
    /\ e \notin happened
    /\ happened' = happened \union {e}
    /\ UNCHANGED effects

TakeEffect(s) ==
    /\ s[2] \in happened
    /\ effects[s] = 0
    /\ effects' = [effects EXCEPT ![s] = 1]
    /\ UNCHANGED happened

Next == (\E e \in Events : Happen(e)) \/ (\E s \in Subscriptions : TakeEffect(s))

Spec == Init /\ [][Next]_vars /\ \A s \in Subscriptions : WF_vars(TakeEffect(s))
=============================================================================
