------------------------------- MODULE Payment -------------------------------
(***************************************************************************)
(* The payment service (src/apps/payment-service/src): purchase orders,    *)
(* their payments and subscriptions, the provider webhook, and the         *)
(* maintenance job that reconciles pending orders, expires subscriptions   *)
(* and writes reminders.                                                   *)
(*                                                                         *)
(* A database transaction is one action, except where another actor can    *)
(* run between two of its statements and matter: a purchase checks under   *)
(* the purchase guard of its user and commits later (SubscribeCheck,       *)
(* SubscribeCommit), and the reminder transaction scans on a snapshot and  *)
(* writes later (RemindScan, RemindCommit).  The call to the provider is   *)
(* made after the purchase has committed, so it is an action of its own    *)
(* and may never happen.  A request that the service refuses changes       *)
(* nothing and is a stuttering step.                                       *)
(***************************************************************************)
EXTENDS Integers, FiniteSets

CONSTANTS
    Users,      \* users who may buy
    Orders,     \* payment ids; an order and its subscription share one id here
    Keys,       \* Idempotency-Key values of a user
    Plans,      \* plan ids; the body of a purchase request is its plan
    Workers,    \* instances of the maintenance job
    Events,     \* webhook event ids
    Txns,       \* provider transaction ids
    None,       \* SQL NULL
    TTL,        \* PAYMENT_PENDING_TTL_MINUTES
    Window,     \* the three days before the end in which a reminder is due
    Days,       \* Days[v]: the duration sold by version v of a plan
    MaxPlanVersion, MaxTime, MaxEnd   \* bounds of the finite instance

PlanVersions == 1..MaxPlanVersion

ASSUME ConstantsAssumption ==
    /\ TTL \in Nat
    /\ Window \in Nat
    /\ MaxPlanVersion \in Nat \ {0}
    /\ MaxTime \in Nat
    /\ MaxEnd \in Nat
    /\ Days \in [PlanVersions -> Nat \ {0}]

OrderRecord == [user: Users, key: Keys, plan: Plans, version: PlanVersions]
WebhookState == {"success", "failed", "expired"}
Outcome == {"success", "failed", "expired", "ignored", "reconciliation_required"}
Receipt == [order: Orders, state: WebhookState, txn: Txns \union {None}, outcome: Outcome]

ASSUME NoneAssumption ==
    /\ None \notin Users /\ None \notin Orders /\ None \notin Txns
    /\ None \notin OrderRecord /\ None \notin Receipt

VARIABLES
    plan,       \* plans: version and active flag
    order,      \* order[o]: who bought what, with the snapshot; None before it exists
    request,    \* payment_requests: the order of each (user, key)
    pay,        \* payments: status, provider transaction, expiry, version
    sub,        \* subscriptions: status, start, end, version
    provider,   \* mock_provider_orders.provider_status, "absent" when there is no row
    receipt,    \* payment_webhook_receipts
    outbox,     \* outbox_events, as a set of distinct events
    reminded,   \* subscription_reminders: (subscription, end_at)
    checking,   \* purchases that hold their user's guard and have passed every check
    calling,    \* orders whose handler is between its commit and the provider call
    job,        \* each maintenance worker: where its poll is and what it has read
    now         \* the clock

vars == <<plan, order, request, pay, sub, provider, receipt, outbox, reminded,
          checking, calling, job, now>>

orderVars == <<order, request>>
jobVars == <<reminded, job>>

PaymentStatus == {"absent", "pending", "success", "failed", "expired", "reconciliation_required"}
SubStatus == {"absent", "pending", "active", "expired", "cancelled"}
ProviderStatus == {"absent", "pending", "succeeded", "failed", "expired"}
OpenStatus == {"pending", "active"}
PayRow == [status: PaymentStatus, txn: Txns \union {None}, expires: Nat, version: Nat]
SubRow == [status: SubStatus, start: Nat, end: Nat, version: Nat]
Poll == [pc: {"idle", "reconciling", "reminding"},
         todo: SUBSET (Orders \X {"failed", "expired"}), due: SUBSET Orders, at: Nat]
Checked == [user: Users, key: Keys, plan: Plans, version: PlanVersions, at: Nat]

EventTypes == {"payment.success", "payment.reconciliation_required", "subscription.expiring"}
OutboxEvent == [type: EventTypes, order: Orders, version: Nat, txn: Txns \union {None},
                endAt: Nat, by: Workers \union {None}]

TypeOK ==
    /\ plan \in [Plans -> [version: PlanVersions, active: BOOLEAN]]
    /\ order \in [Orders -> OrderRecord \union {None}]
    /\ request \in [Users -> [Keys -> Orders \union {None}]]
    /\ pay \in [Orders -> PayRow]
    /\ sub \in [Orders -> SubRow]
    /\ provider \in [Orders -> ProviderStatus]
    /\ receipt \in [Events -> Receipt \union {None}]
    /\ outbox \subseteq OutboxEvent
    /\ reminded \subseteq Orders \X Nat
    /\ checking \subseteq Checked
    /\ calling \subseteq Orders
    /\ job \in [Workers -> Poll]
    /\ now \in Nat

Idle == [pc |-> "idle", todo |-> {}, due |-> {}, at |-> 0]

Init ==
    /\ plan = [p \in Plans |-> [version |-> 1, active |-> TRUE]]
    /\ order = [o \in Orders |-> None]
    /\ request = [u \in Users |-> [k \in Keys |-> None]]
    /\ pay = [o \in Orders |-> [status |-> "absent", txn |-> None, expires |-> 0, version |-> 0]]
    /\ sub = [o \in Orders |-> [status |-> "absent", start |-> 0, end |-> 0, version |-> 0]]
    /\ provider = [o \in Orders |-> "absent"]
    /\ receipt = [e \in Events |-> None]
    /\ outbox = {}
    /\ reminded = {}
    /\ checking = {}
    /\ calling = {}
    /\ job = [w \in Workers |-> Idle]
    /\ now = 0

OwnedBy(o, u) == order[o] # None /\ order[o].user = u

Lapsed(o, t) == sub[o].status = "active" /\ sub[o].end <= t

\* UPDATE ... SET status=...,version=version+1 on a subscription and on a payment row.
SubAs(s, status) ==
    [status |-> status, start |-> s.start, end |-> s.end, version |-> s.version + 1]

PayAs(p, status, txn) ==
    [status |-> status, txn |-> txn, expires |-> p.expires, version |-> p.version + 1]

(***************************************************************************)
(* Plans: an administrator edits or deactivates a plan.  A purchase reads  *)
(* the plan FOR SHARE, so the edit waits for purchases that are checking.  *)
(***************************************************************************)
PatchPlan(p, active) ==
    /\ plan[p].version < MaxPlanVersion
    /\ \A c \in checking : c.plan # p
    /\ plan' = [plan EXCEPT ![p] = [version |-> plan[p].version + 1, active |-> active]]
    /\ UNCHANGED <<orderVars, pay, sub, provider, receipt, outbox, jobVars, checking, calling, now>>

(***************************************************************************)
(* The purchase guard: SELECT ... FROM purchase_guards ... FOR UPDATE.     *)
(* Purchases, webhooks and reconciliation of one user wait for each other. *)
(***************************************************************************)
\* Mutant of GuardFree: the guard row is inserted but never locked.
GuardNotLocked(u) == TRUE

GuardFree(u) == \A c \in checking : c.user # u

HasOpenSubscription(u, t) ==
    \E o \in Orders : OwnedBy(o, u) /\ sub[o].status \in OpenStatus /\ ~Lapsed(o, t)

SubscribeCheck(u, k, p) ==
    /\ GuardFree(u)
    /\ request[u][k] = None
    /\ ~HasOpenSubscription(u, now)
    /\ plan[p].active
    /\ checking' = checking \union
         {[user |-> u, key |-> k, plan |-> p, version |-> plan[p].version, at |-> now]}
    /\ UNCHANGED <<plan, orderVars, pay, sub, provider, receipt, outbox, jobVars, calling, now>>

\* The transaction commits: lapsed subscriptions of the user are expired, the
\* pending subscription and payment and the idempotency request are inserted.
SubscribeCommit(c, o) ==
    /\ c \in checking
    /\ order[o] = None
    /\ order' = [order EXCEPT ![o] = [user |-> c.user, key |-> c.key, plan |-> c.plan,
                                      version |-> c.version]]
    /\ request' = [request EXCEPT ![c.user][c.key] = o]
    /\ pay' = [pay EXCEPT ![o] = [status |-> "pending", txn |-> None,
                                  expires |-> c.at + TTL, version |-> 1]]
    /\ sub' = [x \in Orders |->
                 IF x = o THEN [status |-> "pending", start |-> 0, end |-> 0, version |-> 1]
                 ELSE IF OwnedBy(x, c.user) /\ Lapsed(x, c.at) THEN SubAs(sub[x], "expired")
                 ELSE sub[x]]
    /\ checking' = checking \ {c}
    /\ calling' = calling \union {o}
    /\ UNCHANGED <<plan, provider, receipt, outbox, jobVars, now>>

\* The transaction rolls back (an error, or the process dies): nothing is kept.
SubscribeAbort(c) ==
    /\ c \in checking
    /\ checking' = checking \ {c}
    /\ UNCHANGED <<plan, orderVars, pay, sub, provider, receipt, outbox, jobVars, calling, now>>

\* A retry with the same key and body finds the order and calls the provider again.
SubscribeReplay(u, k, p) ==
    /\ GuardFree(u)
    /\ request[u][k] # None
    /\ order[request[u][k]].plan = p
    /\ calling' = calling \union {request[u][k]}
    /\ UNCHANGED <<plan, orderVars, pay, sub, provider, receipt, outbox, jobVars, checking, now>>

\* After the commit: INSERT INTO mock_provider_orders ... ON CONFLICT DO NOTHING.
EnsureMockOrder(o) ==
    /\ o \in calling
    /\ calling' = calling \ {o}
    /\ provider' = [provider EXCEPT ![o] = IF @ = "absent" THEN "pending" ELSE @]
    /\ UNCHANGED <<plan, orderVars, pay, sub, receipt, outbox, jobVars, checking, now>>

\* The process dies, or the provider call fails, after the commit.
HandlerLost(o) ==
    /\ o \in calling
    /\ calling' = calling \ {o}
    /\ UNCHANGED <<plan, orderVars, pay, sub, provider, receipt, outbox, jobVars, checking, now>>

(***************************************************************************)
(* The provider, outside the service: it may decide that an order failed   *)
(* or expired without a webhook ever arriving.                             *)
(***************************************************************************)
ProviderDecides(o, s) ==
    /\ provider[o] = "pending"
    /\ provider' = [provider EXCEPT ![o] = s]
    /\ UNCHANGED <<plan, orderVars, pay, sub, receipt, outbox, jobVars, checking, calling, now>>

(***************************************************************************)
(* The webhook.  Any signed event may arrive at any time, repeated, late   *)
(* or out of order.  WebhookAccepted is what every branch passes first:    *)
(* the order exists, the guard is free, the event id is new, and no other  *)
(* order carries the provider transaction.  A receipt already stored is    *)
(* answered from the receipt, and every mismatch is a 409: no change.      *)
(***************************************************************************)
WebhookAccepted(e, o, txn) ==
    /\ order[o] # None
    /\ GuardFree(order[o].user)
    /\ receipt[e] = None
    /\ txn # None => \A x \in Orders \ {o} : pay[x].txn # txn

\* INSERT INTO payment_webhook_receipts, the last statement of every branch.  The payload
\* hash and the stored response are abstracted to the order, the state reported and, for
\* a success, the provider transaction.
StoreReceipt(e, o, state, txn, outcome) ==
    receipt' = [receipt EXCEPT ![e] = [order |-> o, state |-> state, txn |-> txn,
                                       outcome |-> outcome]]

\* writeEvent: payment.success names the order and its subscription, and no transaction;
\* payment.reconciliation_required names the transaction to look for as well.
PaymentEvent(type, o, version, txn) ==
    [type |-> type, order |-> o, version |-> version, txn |-> txn, endAt |-> 0, by |-> None]

HasOtherActive(o) ==
    \E x \in Orders \ {o} : /\ OwnedBy(x, order[o].user)
                            /\ sub[x].status = "active"
                            /\ sub[x].end > now

\* Mutant of Activatable: the expiry of the order is not looked at.
ActivatableLate(o) ==
    /\ pay[o].status = "pending"
    /\ sub[o].status = "pending"
    /\ ~HasOtherActive(o)

\* The order is still open, in time, and does not overlap another subscription.
Activatable(o) ==
    /\ pay[o].status = "pending"
    /\ pay[o].expires > now
    /\ sub[o].status = "pending"
    /\ ~HasOtherActive(o)

\* Mutant of AlreadyPaid: judged by the subscription instead of the payment.
PaidWhileActive(o) == sub[o].status = "active"

AlreadyPaid(o) == pay[o].status = "success"

\* Mutant of Term: the duration of the plan as it is now, not as it was bought.
TermOfCurrentPlan(o) == Days[plan[order[o].plan].version]

Term(o) == Days[order[o].version]

\* A success on an open order activates the subscription.
WebhookActivates(e, o, txn) ==
    /\ txn # None
    /\ WebhookAccepted(e, o, txn)
    /\ ~AlreadyPaid(o)
    /\ Activatable(o)
    /\ sub' = [sub EXCEPT ![o] = [status |-> "active", start |-> now, end |-> now + Term(o),
                                  version |-> sub[o].version + 1]]
    /\ pay' = [pay EXCEPT ![o] = PayAs(@, "success", txn)]
    /\ provider' = [provider EXCEPT ![o] = IF @ = "absent" THEN @ ELSE "succeeded"]
    /\ outbox' = outbox \union {PaymentEvent("payment.success", o, sub[o].version + 1, None)}
    /\ StoreReceipt(e, o, "success", txn, "success")
    /\ UNCHANGED <<plan, orderVars, jobVars, checking, calling, now>>

\* Mutant of Cancelled: the row is given the status of the payment.
CancelledAsFailed(s) == IF s.status = "pending" THEN SubAs(s, "failed") ELSE s

\* Mutant of Cancelled: the subscription of a closed order is left pending.
StillPending(s) == s

\* UPDATE subscriptions SET status='cancelled' ... WHERE status='pending'.
Cancelled(s) ==
    IF s.status = "pending" THEN SubAs(s, "cancelled") ELSE s

\* A success on an order that is closed, late or overlapping is kept for reconciliation.
WebhookNeedsReconciliation(e, o, txn) ==
    /\ txn # None
    /\ WebhookAccepted(e, o, txn)
    /\ ~AlreadyPaid(o)
    /\ ~Activatable(o)
    /\ pay' = [pay EXCEPT ![o] = PayAs(@, "reconciliation_required", txn)]
    /\ sub' = [sub EXCEPT ![o] = Cancelled(@)]
    /\ provider' = [provider EXCEPT ![o] = IF @ = "absent" THEN @ ELSE "succeeded"]
    /\ outbox' = outbox \union
         {PaymentEvent("payment.reconciliation_required", o, pay[o].version + 1, txn)}
    /\ StoreReceipt(e, o, "success", txn, "reconciliation_required")
    /\ UNCHANGED <<plan, orderVars, jobVars, checking, calling, now>>

\* A second success event of a paid order: acknowledged.  Another transaction is a 409.
WebhookRepeatsSuccess(e, o, txn) ==
    /\ txn # None
    /\ WebhookAccepted(e, o, txn)
    /\ AlreadyPaid(o)
    /\ pay[o].txn \in {None, txn}
    /\ StoreReceipt(e, o, "success", txn, "ignored")
    /\ UNCHANGED <<plan, orderVars, pay, sub, provider, outbox, jobVars, checking, calling, now>>

ClosableByWebhook(o) == pay[o].status = "pending"

\* A failed or expired event closes an order that is still pending.  (Its transaction id
\* only takes part in the check above: it is not linked to the order.)
WebhookCloses(e, o, state, txn) ==
    /\ WebhookAccepted(e, o, txn)
    /\ ClosableByWebhook(o)
    /\ pay' = [pay EXCEPT ![o] = PayAs(@, state, @.txn)]
    /\ sub' = [sub EXCEPT ![o] = Cancelled(@)]
    /\ provider' = [provider EXCEPT ![o] = IF @ = "absent" THEN @ ELSE state]
    /\ StoreReceipt(e, o, state, None, state)
    /\ UNCHANGED <<plan, orderVars, outbox, jobVars, checking, calling, now>>

\* A failed or expired event after the order was settled: acknowledged and ignored.
WebhookIgnored(e, o, state, txn) ==
    /\ WebhookAccepted(e, o, txn)
    /\ ~ClosableByWebhook(o)
    /\ StoreReceipt(e, o, state, None, "ignored")
    /\ UNCHANGED <<plan, orderVars, pay, sub, provider, outbox, jobVars, checking, calling, now>>

Webhook ==
    \E e \in Events, o \in Orders :
        \/ \E txn \in Txns : \/ WebhookActivates(e, o, txn)
                             \/ WebhookNeedsReconciliation(e, o, txn)
                             \/ WebhookRepeatsSuccess(e, o, txn)
        \/ \E state \in {"failed", "expired"}, txn \in Txns \union {None} :
              \/ WebhookCloses(e, o, state, txn)
              \/ WebhookIgnored(e, o, state, txn)

(***************************************************************************)
(* The administrator extends an active subscription by a day.              *)
(***************************************************************************)
Extendable(o) == sub[o].status = "active" /\ sub[o].end > now

ExtendSubscription(o) ==
    /\ Extendable(o)
    /\ sub[o].end < MaxEnd
    /\ sub' = [sub EXCEPT ![o] = [status |-> "active", start |-> sub[o].start,
                                  end |-> sub[o].end + 1, version |-> sub[o].version + 1]]
    /\ UNCHANGED <<plan, orderVars, pay, provider, receipt, outbox, jobVars, checking, calling, now>>

(***************************************************************************)
(* The maintenance job: one poll reconciles, then expires and reminds.     *)
(* Several instances may run; within one instance polls do not overlap.    *)
(***************************************************************************)
\* Mutant of ReconcileCandidate: only a failure at the provider is looked for.
CandidateIfFailed(o) ==
    pay[o].status = "pending" /\ pay[o].expires <= now /\ provider[o] = "failed"

\* The candidates are read before any guard is taken.
ReconcileCandidate(o) ==
    /\ pay[o].status = "pending"
    /\ pay[o].expires <= now
    /\ provider[o] \in {"failed", "expired"}

PollStart(w) ==
    /\ job[w].pc = "idle"
    /\ job' = [job EXCEPT ![w] = [pc |-> "reconciling", due |-> {}, at |-> 0,
          todo |-> {<<o, provider[o]>> : o \in {x \in Orders : ReconcileCandidate(x)}}]]
    /\ UNCHANGED <<plan, orderVars, pay, sub, provider, receipt, outbox, reminded,
                   checking, calling, now>>

\* Mutant of StillClosable: the candidate is trusted as it was read.
ClosableAsRead(o) == TRUE

\* The WHERE clause of the update, evaluated again under the guard.
StillClosable(o) == pay[o].status = "pending" /\ pay[o].expires <= now

CloseCandidate(w, c) ==
    LET o == c[1]
        updated == StillClosable(o)
    IN /\ job[w].pc = "reconciling"
       /\ c \in job[w].todo
       /\ order[o] # None
       /\ GuardFree(order[o].user)
       /\ pay' = [pay EXCEPT ![o] =
            IF updated THEN PayAs(@, c[2], @.txn) ELSE @]
       /\ sub' = [sub EXCEPT ![o] = IF updated THEN Cancelled(@) ELSE @]
       /\ job' = [job EXCEPT ![w].todo = @ \ {c}]
       /\ UNCHANGED <<plan, orderVars, provider, receipt, outbox, reminded, checking, calling, now>>

\* The second transaction begins: its clock is fixed and its scan sees a snapshot.
ReminderDue(o, t) ==
    /\ sub[o].status = "active"
    /\ sub[o].end > t
    /\ sub[o].end <= t + Window

RemindScan(w) ==
    /\ job[w].pc = "reconciling"
    /\ job[w].todo = {}
    /\ job' = [job EXCEPT ![w] = [pc |-> "reminding", todo |-> {}, at |-> now,
          due |-> {o \in Orders : ReminderDue(o, now) /\ <<o, sub[o].end>> \notin reminded}]]
    /\ UNCHANGED <<plan, orderVars, pay, sub, provider, receipt, outbox, reminded,
                   checking, calling, now>>

ExpiringEvent(o, w) ==
    [type |-> "subscription.expiring", order |-> o, version |-> sub[o].version, txn |-> None,
     endAt |-> sub[o].end, by |-> w]

\* Mutant of Remindable: without ON CONFLICT DO NOTHING the scan is trusted.
RemindableAsScanned(o, w) == o \in job[w].due /\ ReminderDue(o, job[w].at)

\* A scanned row, checked again once it is locked, with no reminder for this end yet.
Remindable(o, w) ==
    /\ o \in job[w].due
    /\ ReminderDue(o, job[w].at)
    /\ <<o, sub[o].end>> \notin reminded

\* Mutant of ExpiresAt: the comparison is strict.
ExpiresAfter(o, t) == sub[o].status = "active" /\ sub[o].end < t

\* WHERE status='active' AND end_at<=now()
ExpiresAt(o, t) == Lapsed(o, t)

RemindCommit(w) ==
    LET fresh == {o \in Orders : Remindable(o, w)}
    IN /\ job[w].pc = "reminding"
       /\ sub' = [o \in Orders |-> IF ExpiresAt(o, job[w].at) THEN SubAs(sub[o], "expired") ELSE sub[o]]
       /\ reminded' = reminded \union {<<o, sub[o].end>> : o \in fresh}
       /\ outbox' = outbox \union {ExpiringEvent(o, w) : o \in fresh}
       /\ job' = [job EXCEPT ![w] = Idle]
       /\ UNCHANGED <<plan, orderVars, pay, provider, receipt, checking, calling, now>>

\* An error ends the poll, or the process dies: what had committed stays.
PollFails(w) ==
    /\ job[w].pc # "idle"
    /\ job' = [job EXCEPT ![w] = Idle]
    /\ UNCHANGED <<plan, orderVars, pay, sub, provider, receipt, outbox, reminded,
                   checking, calling, now>>

Tick ==
    /\ now < MaxTime
    /\ now' = now + 1
    /\ UNCHANGED <<plan, orderVars, pay, sub, provider, receipt, outbox, jobVars, checking, calling>>

Purchase ==
    \/ \E u \in Users, k \in Keys, p \in Plans : SubscribeCheck(u, k, p) \/ SubscribeReplay(u, k, p)
    \/ \E c \in checking : SubscribeAbort(c) \/ \E o \in Orders : SubscribeCommit(c, o)
    \/ \E o \in Orders : EnsureMockOrder(o) \/ HandlerLost(o)

Maintenance ==
    \E w \in Workers :
        \/ PollStart(w)
        \/ \E c \in job[w].todo : CloseCandidate(w, c)
        \/ RemindScan(w)
        \/ RemindCommit(w)
        \/ PollFails(w)

Next ==
    \/ Purchase
    \/ Webhook
    \/ Maintenance
    \/ \E o \in Orders, s \in {"failed", "expired"} : ProviderDecides(o, s)
    \/ \E p \in Plans, active \in BOOLEAN : PatchPlan(p, active)
    \/ \E o \in Orders : ExtendSubscription(o)
    \/ Tick

Spec == Init /\ [][Next]_vars

(***************************************************************************)
(* Fairness.  Timers fire again after every poll and an error is not       *)
(* permanent, so a step of a poll that is possible again and again is      *)
(* taken (strong fairness: a poll may fail and start over).  A transaction *)
(* that holds a guard ends, and a handler past its commit reaches the      *)
(* provider or is lost.  Nothing is assumed of users, of the administrator *)
(* or of webhooks.                                                         *)
(***************************************************************************)
MaintenanceFairness ==
    \A w \in Workers :
        /\ WF_vars(PollStart(w))
        /\ SF_vars(\E c \in job[w].todo : CloseCandidate(w, c))
        /\ SF_vars(RemindScan(w))
        /\ SF_vars(RemindCommit(w))

TransactionFairness ==
    /\ WF_vars(\E c \in checking : SubscribeAbort(c) \/ \E o \in Orders : SubscribeCommit(c, o))
    /\ WF_vars(\E o \in Orders : EnsureMockOrder(o) \/ HandlerLost(o))

\* The provider settles every order it was told about, one way or the other.
ProviderFairness ==
    \A o \in Orders : WF_vars(\E s \in {"failed", "expired"} : ProviderDecides(o, s))

FairSpec ==
    Spec /\ WF_vars(Tick) /\ MaintenanceFairness /\ TransactionFairness /\ ProviderFairness

-----------------------------------------------------------------------------
(***************************************************************************)
(* Safety.                                                                 *)
(***************************************************************************)
Created(o) == order[o] # None

\* A user never has two open orders: the purchase guard keeps competing purchases,
\* webhooks and reconciliation apart, so the unique index on open subscriptions
\* (CreatePaymentSchema line 54) never has to refuse an insert.
OneOpenOrderPerUser ==
    \A o1, o2 \in Orders :
        /\ Created(o1) /\ Created(o2) /\ order[o1].user = order[o2].user
        /\ sub[o1].status \in OpenStatus /\ sub[o2].status \in OpenStatus
        => o1 = o2

\* The payment of an order and its subscription are never out of step, whichever of the
\* webhook, the reconciliation job and the expiry job wrote last: a pending payment has a
\* pending subscription, a paid one had its subscription activated, and a payment that
\* failed, expired or awaits reconciliation never leaves an open subscription behind.
SubStatusFor(status) ==
    CASE status = "absent" -> {"absent"}
      [] status = "pending" -> {"pending"}
      [] status = "success" -> {"active", "expired"}
      [] OTHER -> {"cancelled"}

PaymentMatchesSubscription ==
    \A o \in Orders : sub[o].status \in SubStatusFor(pay[o].status)

\* The order of an answered success is paid by the transaction reported, and the other
\* services are told of it.
PaidAndTold(r) ==
    /\ pay[r.order].status = "success"
    /\ pay[r.order].txn = r.txn
    /\ \E v \in outbox : v.type = "payment.success" /\ v.order = r.order

\* The order of an answered success awaits reconciliation, and the outbox names the
\* transaction even when a later one has replaced it in the payment row.
DisputedAndTold(r) ==
    /\ pay[r.order].status = "reconciliation_required"
    /\ \E v \in outbox : /\ v.type = "payment.reconciliation_required"
                         /\ v.order = r.order
                         /\ v.txn = r.txn

\* Money the provider reported is never lost: once a success webhook has been answered,
\* its order stays paid by the transaction it reported, with its activation in the outbox,
\* or stays marked for reconciliation, with an event that names the transaction, even when
\* a reconciliation poll that read the order as failed, or a late failure event, or another
\* success comes after it.
PaidNeverLost ==
    \A e \in Events : receipt[e] # None /\ receipt[e].state = "success" =>
        IF receipt[e].outcome = "reconciliation_required"
        THEN DisputedAndTold(receipt[e])
        ELSE PaidAndTold(receipt[e])

\* An order is activated once: repeated and reordered success webhooks leave exactly one
\* receipt with outcome success and one payment.success event for a paid order, none otherwise.
ActivatedOnce ==
    \A o \in Orders :
        LET activations == {v \in outbox : v.type = "payment.success" /\ v.order = o}
            receipts == {e \in Events : /\ receipt[e] # None
                                        /\ receipt[e].order = o
                                        /\ receipt[e].outcome = "success"}
            expected == IF pay[o].status = "success" THEN 1 ELSE 0
        IN Cardinality(activations) = expected /\ Cardinality(receipts) = expected

\* A paid subscription runs for exactly the duration bought, plus the extensions granted
\* (each step of the row raises its version by one), whatever the plan became since.
TermMatchesPurchase ==
    \A o \in Orders : sub[o].status \in {"active", "expired"} =>
        LET extensions == sub[o].version - IF sub[o].status = "active" THEN 2 ELSE 3
        IN sub[o].end = sub[o].start + Days[order[o].version] + extensions

\* A user is reminded once of each end of a subscription, although two instances of the
\* job may scan the same row before either has recorded its reminder.
RemindedOnce ==
    \A v1, v2 \in outbox :
        /\ v1.type = "subscription.expiring" /\ v2.type = "subscription.expiring"
        /\ v1.order = v2.order /\ v1.endAt = v2.endAt
        => v1 = v2

\* Every order can be reached again with the key that created it: no retry of a purchase
\* ever replaces the order that an idempotency key stands for.
OrderKeepsItsKey ==
    \A o \in Orders : Created(o) => request[order[o].user][order[o].key] = o

(***************************************************************************)
(* Action properties.                                                      *)
(***************************************************************************)
\* No step takes access back or gives it twice: a paid order stays paid by the transaction
\* that paid it, a subscription that was cancelled or has expired is never opened again,
\* and an active one only expires.
ForwardOnly ==
    [][\A o \in Orders :
          /\ pay[o].status = "success" => pay'[o].status = "success" /\ pay'[o].txn = pay[o].txn
          /\ sub[o].status \in {"cancelled", "expired"} => sub'[o].status = sub[o].status
          /\ sub[o].status = "active" => sub'[o].status \in {"active", "expired"}]_<<pay, sub>>

(***************************************************************************)
(* Refinement.  An order is at the stage its payment and its subscription  *)
(* say together; guards, receipts, the provider and the job are hidden.    *)
(***************************************************************************)
Stage(o) ==
    CASE pay[o].status = "absent" -> "none"
      [] pay[o].status = "pending" -> "ordered"
      [] pay[o].status = "success" -> IF sub[o].status = "active" THEN "granted" ELSE "ended"
      [] pay[o].status = "reconciliation_required" -> "disputed"
      [] OTHER -> "closed"

Stages == [o \in Orders |-> Stage(o)]
Buyers == [o \in Orders |-> IF Created(o) THEN order[o].user ELSE None]
Bought == [o \in Orders |-> IF Created(o) THEN Days[order[o].version] ELSE 0]
Deadlines == [o \in Orders |-> pay[o].expires]
Payers == [o \in Orders |-> IF Created(o) THEN pay[o].txn ELSE None]
Starts == [o \in Orders |-> IF Created(o) THEN sub[o].start ELSE 0]
Ends == [o \in Orders |-> IF Created(o) THEN sub[o].end ELSE 0]
PaymentEvents == {v \in outbox : v.type # "subscription.expiring"}
Told == {<<v.type, v.order, v.txn>> : v \in PaymentEvents}

Contract == INSTANCE PurchaseContract WITH
    Terms <- {Days[v] : v \in PlanVersions},
    stage <- Stages, buyer <- Buyers, term <- Bought, until <- Deadlines,
    paidBy <- Payers, start <- Starts, end <- Ends, told <- Told, clock <- now

\* The service keeps what it promises a buyer: whatever purchases, webhooks, polls and
\* retries interleave, an order paid in time is granted and never left to reconciliation,
\* one paid late never is granted, access has the term bought and ends no earlier, one
\* transaction pays for one order, and a new order waits until the last is settled.
KeepsContract == Contract!Spec

(***************************************************************************)
(* Liveness, under FairSpec.                                               *)
(***************************************************************************)
\* A subscription whose end has passed is marked expired.
LapsedExpires ==
    \A o \in Orders : Lapsed(o, now) ~> sub[o].status # "active"

\* A pending order past its expiry that the provider reports failed or expired is closed.
ConfirmedFailureCloses ==
    \A o \in Orders :
        /\ pay[o].status = "pending"
        /\ pay[o].expires <= now
        /\ provider[o] \in {"failed", "expired"}
        ~> pay[o].status # "pending"

\* An abandoned order does not lock the user out of buying for ever: a pending order past
\* its expiry is closed, by the provider's word or by the reconciliation job.
AbandonedOrderCloses ==
    \A o \in Orders :
        pay[o].status = "pending" /\ pay[o].expires <= now ~> pay[o].status # "pending"
=============================================================================
