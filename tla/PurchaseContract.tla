---------------------------- MODULE PurchaseContract ----------------------------
(***************************************************************************)
(* What the payment service promises a user who buys: one purchase at a    *)
(* time, granted if it is paid in time, for the term that was bought, and  *)
(* never taken back before its end.  Guards, webhooks, receipts, the       *)
(* provider and the maintenance job do not appear here.                    *)
(***************************************************************************)
EXTENDS Integers

CONSTANTS
    Users, Orders, Txns, None,
    Terms,    \* durations on sale
    TTL       \* how long an order may be paid

VARIABLES
    stage,    \* of each order: none, ordered, granted, ended, closed, disputed
    buyer,    \* who ordered it
    term,     \* the duration bought
    until,    \* when the order may no longer be paid
    paidBy,   \* the transaction that it was paid with
    start, end,   \* when access begins and ends
    told,     \* what the other services are told of payments: of a dispute, its transaction too
    clock

vars == <<stage, buyer, term, until, paidBy, start, end, told, clock>>
promise == <<buyer, term, until>>
access == <<paidBy, start, end>>

Init ==
    /\ stage = [o \in Orders |-> "none"]
    /\ buyer = [o \in Orders |-> None]
    /\ term = [o \in Orders |-> 0]
    /\ until = [o \in Orders |-> 0]
    /\ paidBy = [o \in Orders |-> None]
    /\ start = [o \in Orders |-> 0]
    /\ end = [o \in Orders |-> 0]
    /\ told = {}
    /\ clock = 0

Over == {o \in Orders : stage[o] = "granted" /\ end[o] <= clock}

\* An order begins when every earlier one of its buyer is settled; those that are over end.
Agree(o, u, over) ==
    /\ stage[o] = "none"
    /\ over \subseteq Over
    /\ \A x \in Orders : buyer[x] = u /\ stage[x] \in {"ordered", "granted"} => x \in over
    /\ stage' = [x \in Orders |-> IF x = o THEN "ordered"
                                  ELSE IF x \in over THEN "ended" ELSE stage[x]]
    /\ buyer' = [buyer EXCEPT ![o] = u]
    /\ \E bought \in Terms : term' = [term EXCEPT ![o] = bought]
    /\ \E asked \in 0..clock : until' = [until EXCEPT ![o] = asked + TTL]
    /\ UNCHANGED <<access, told, clock>>

\* One transaction pays for one order.
Fresh(o, txn) == \A x \in Orders \ {o} : paidBy[x] # txn

\* Paid in time: access begins, for the term bought, and the others are told.
Grant(o, txn) ==
    /\ stage[o] = "ordered"
    /\ clock < until[o]
    /\ Fresh(o, txn)
    /\ stage' = [stage EXCEPT ![o] = "granted"]
    /\ paidBy' = [paidBy EXCEPT ![o] = txn]
    /\ start' = [start EXCEPT ![o] = clock]
    /\ end' = [end EXCEPT ![o] = clock + term[o]]
    /\ told' = told \union {<<"payment.success", o, None>>}
    /\ UNCHANGED <<promise, clock>>

\* Paid too late: nothing is granted, and the money is reported for reconciliation.
Dispute(o, txn) ==
    /\ \/ stage[o] \in {"closed", "disputed"}
       \/ stage[o] = "ordered" /\ until[o] <= clock
    /\ Fresh(o, txn)
    /\ stage' = [stage EXCEPT ![o] = "disputed"]
    /\ paidBy' = [paidBy EXCEPT ![o] = txn]
    /\ told' = told \union {<<"payment.reconciliation_required", o, txn>>}
    /\ UNCHANGED <<promise, start, end, clock>>

Close(o) ==
    /\ stage[o] = "ordered"
    /\ stage' = [stage EXCEPT ![o] = "closed"]
    /\ UNCHANGED <<promise, access, told, clock>>

Extend(o) ==
    /\ stage[o] = "granted"
    /\ clock < end[o]
    /\ end' = [end EXCEPT ![o] = @ + 1]
    /\ UNCHANGED <<stage, promise, paidBy, start, told, clock>>

End(over) ==
    /\ over \subseteq Over
    /\ stage' = [x \in Orders |-> IF x \in over THEN "ended" ELSE stage[x]]
    /\ UNCHANGED <<promise, access, told, clock>>

Tick ==
    /\ clock' = clock + 1
    /\ UNCHANGED <<stage, promise, access, told>>

Next ==
    \/ Tick
    \/ \E over \in SUBSET Over : End(over) \/ \E o \in Orders, u \in Users : Agree(o, u, over)
    \/ \E o \in Orders :
          \/ \E txn \in Txns : Grant(o, txn) \/ Dispute(o, txn)
          \/ Close(o)
          \/ Extend(o)

Spec == Init /\ [][Next]_vars
=============================================================================
