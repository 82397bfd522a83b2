---------------------------- MODULE PaymentProofs ----------------------------
(***************************************************************************)
(* Theorems of Payment, for any users, orders, plans, workers and clock.   *)
(***************************************************************************)
EXTENDS Payment, FiniteSetTheorems, TLAPS

(***************************************************************************)
(* Type correctness.                                                       *)
(***************************************************************************)
\* The row updates of the service yield rows of the declared types.
LEMMA RowTypes ==
    /\ \A s \in SubRow, status \in SubStatus : SubAs(s, status) \in SubRow
    /\ \A s \in SubRow : Cancelled(s) \in SubRow
    /\ \A p \in PayRow, status \in PaymentStatus, txn \in Txns \union {None} :
          PayAs(p, status, txn) \in PayRow
  BY DEF SubAs, PayAs, Cancelled, SubRow, PayRow, SubStatus

\* The row updates write the status they are given; Cancelled opens nothing.
LEMMA RowStatus ==
    /\ \A s, status : SubAs(s, status).status = status
    /\ \A p, status, txn : PayAs(p, status, txn).status = status
    /\ \A s : Cancelled(s).status = IF s.status = "pending" THEN "cancelled" ELSE s.status
  BY DEF SubAs, PayAs, Cancelled

\* The initial database is well typed.
LEMMA TypeInit == Init => TypeOK
  BY ConstantsAssumption, NoneAssumption
  DEF Init, TypeOK, PlanVersions, Idle, Poll, PayRow, SubRow, PaymentStatus, SubStatus,
      ProviderStatus

\* Every step keeps the types.
LEMMA TypeStep == TypeOK /\ [Next]_vars => TypeOK'
<1> USE ConstantsAssumption, NoneAssumption
<1> SUFFICES ASSUME TypeOK, [Next]_vars PROVE TypeOK'
  OBVIOUS
<1>1. ASSUME NEW u \in Users, NEW k \in Keys, NEW p \in Plans, SubscribeCheck(u, k, p)
      PROVE TypeOK'
  BY <1>1 DEF TypeOK, SubscribeCheck, Checked, orderVars, jobVars
<1>2. ASSUME NEW u \in Users, NEW k \in Keys, NEW p \in Plans, SubscribeReplay(u, k, p)
      PROVE TypeOK'
  BY <1>2 DEF TypeOK, SubscribeReplay, orderVars, jobVars
<1>3. ASSUME NEW c \in checking, SubscribeAbort(c)
      PROVE TypeOK'
  BY <1>3 DEF TypeOK, SubscribeAbort, orderVars, jobVars
<1>4. ASSUME NEW c \in checking, NEW o \in Orders, SubscribeCommit(c, o)
      PROVE TypeOK'
  <2>1. c \in Checked
    BY DEF TypeOK
  <2>2. order' \in [Orders -> OrderRecord \union {None}]
    BY <1>4, <2>1 DEF TypeOK, SubscribeCommit, Checked, OrderRecord
  <2>3. request' \in [Users -> [Keys -> Orders \union {None}]]
    BY <1>4, <2>1 DEF TypeOK, SubscribeCommit, Checked
  <2>4. pay' \in [Orders -> PayRow]
    BY <1>4, <2>1 DEF TypeOK, SubscribeCommit, Checked, PayRow, PaymentStatus
  <2>5. sub' \in [Orders -> SubRow]
    <3>1. \A x \in Orders : SubAs(sub[x], "expired") \in SubRow
      BY RowTypes DEF TypeOK, SubStatus
    <3>2. [status |-> "pending", start |-> 0, end |-> 0, version |-> 1] \in SubRow
      BY DEF SubRow, SubStatus
    <3> QED
      BY <1>4, <3>1, <3>2 DEF TypeOK, SubscribeCommit
  <2> QED
    BY <1>4, <2>1, <2>2, <2>3, <2>4, <2>5 DEF TypeOK, SubscribeCommit, jobVars
<1>5. ASSUME NEW o \in Orders, EnsureMockOrder(o)
      PROVE TypeOK'
  BY <1>5 DEF TypeOK, EnsureMockOrder, orderVars, jobVars, ProviderStatus
<1>6. ASSUME NEW o \in Orders, HandlerLost(o)
      PROVE TypeOK'
  BY <1>6 DEF TypeOK, HandlerLost, orderVars, jobVars
<1>7. ASSUME NEW e \in Events, NEW o \in Orders, NEW txn \in Txns, WebhookActivates(e, o, txn)
      PROVE TypeOK'
  <2>1. Term(o) \in Nat
    BY <1>7 DEF TypeOK, WebhookActivates, WebhookAccepted, Term, OrderRecord
  <2>2. sub' \in [Orders -> SubRow]
    BY <1>7, <2>1 DEF TypeOK, WebhookActivates, SubRow, SubStatus
  <2>5. pay' \in [Orders -> PayRow]
    BY <1>7, RowTypes DEF TypeOK, WebhookActivates, PaymentStatus
  <2>3. outbox' \subseteq OutboxEvent
    BY <1>7 DEF TypeOK, WebhookActivates, PaymentEvent, OutboxEvent, EventTypes, SubRow
  <2>4. receipt' \in [Events -> Receipt \union {None}]
    BY <1>7 DEF TypeOK, WebhookActivates, StoreReceipt, Receipt, WebhookState, Outcome
  <2> QED
    BY <1>7, <2>2, <2>3, <2>4, <2>5
    DEF TypeOK, WebhookActivates, orderVars, jobVars, ProviderStatus
<1>8. ASSUME NEW e \in Events, NEW o \in Orders, NEW txn \in Txns,
             WebhookNeedsReconciliation(e, o, txn)
      PROVE TypeOK'
  <2>1. /\ sub' \in [Orders -> SubRow]
        /\ pay' \in [Orders -> PayRow]
    BY <1>8, RowTypes DEF TypeOK, WebhookNeedsReconciliation, PaymentStatus
  <2>2. outbox' \subseteq OutboxEvent
    BY <1>8 DEF TypeOK, WebhookNeedsReconciliation, PaymentEvent, OutboxEvent, EventTypes, PayRow
  <2>3. receipt' \in [Events -> Receipt \union {None}]
    BY <1>8 DEF TypeOK, WebhookNeedsReconciliation, StoreReceipt, Receipt, WebhookState, Outcome
  <2> QED
    BY <1>8, <2>1, <2>2, <2>3
    DEF TypeOK, WebhookNeedsReconciliation, orderVars, jobVars, ProviderStatus
<1>9. ASSUME NEW e \in Events, NEW o \in Orders, NEW txn \in Txns,
             WebhookRepeatsSuccess(e, o, txn)
      PROVE TypeOK'
  BY <1>9 DEF TypeOK, WebhookRepeatsSuccess, StoreReceipt, Receipt, WebhookState, Outcome,
              orderVars, jobVars
<1>10. ASSUME NEW e \in Events, NEW o \in Orders, NEW state \in {"failed", "expired"},
              NEW txn \in Txns \union {None}, WebhookCloses(e, o, state, txn)
       PROVE TypeOK'
  <2>1. /\ sub' \in [Orders -> SubRow]
        /\ pay' \in [Orders -> PayRow]
    <3>1. state \in PaymentStatus /\ pay[o].txn \in Txns \union {None}
      BY DEF TypeOK, PayRow, PaymentStatus
    <3> QED
      BY <1>10, <3>1, RowTypes DEF TypeOK, WebhookCloses
  <2>2. receipt' \in [Events -> Receipt \union {None}]
    BY <1>10 DEF TypeOK, WebhookCloses, StoreReceipt, Receipt, WebhookState, Outcome
  <2> QED
    BY <1>10, <2>1, <2>2 DEF TypeOK, WebhookCloses, orderVars, jobVars, ProviderStatus
<1>11. ASSUME NEW e \in Events, NEW o \in Orders, NEW state \in {"failed", "expired"},
              NEW txn \in Txns \union {None}, WebhookIgnored(e, o, state, txn)
       PROVE TypeOK'
  BY <1>11 DEF TypeOK, WebhookIgnored, StoreReceipt, Receipt, WebhookState, Outcome,
               orderVars, jobVars
<1>12. ASSUME NEW w \in Workers, PollStart(w)
       PROVE TypeOK'
  <2> DEFINE read == {<<o, provider[o]>> : o \in {x \in Orders : ReconcileCandidate(x)}}
  <2>1. read \subseteq Orders \X {"failed", "expired"}
    BY DEF ReconcileCandidate
  <2>2. job' = [job EXCEPT ![w] = [pc |-> "reconciling", due |-> {}, at |-> 0,
                                     todo |-> read]]
    BY <1>12 DEF PollStart
  <2>3. job' \in [Workers -> Poll]
    BY <2>1, <2>2 DEF TypeOK, Poll
  <2> QED
    BY <1>12, <2>3 DEF TypeOK, PollStart, orderVars
<1>13. ASSUME NEW w \in Workers, NEW c \in job[w].todo, CloseCandidate(w, c)
       PROVE TypeOK'
  <2>1. c \in Orders \X {"failed", "expired"}
    BY <1>13 DEF TypeOK, Poll, CloseCandidate
  <2>2. /\ sub' \in [Orders -> SubRow]
        /\ pay' \in [Orders -> PayRow]
    <3>1. c[1] \in Orders /\ c[2] \in PaymentStatus
      BY <2>1 DEF PaymentStatus
    <3>2. pay[c[1]].txn \in Txns \union {None}
      BY <3>1 DEF TypeOK, PayRow
    <3> QED
      BY <1>13, <3>1, <3>2, RowTypes DEF TypeOK, CloseCandidate
  <2>3. job' \in [Workers -> Poll]
    BY <1>13, ZenonT(40) DEF TypeOK, CloseCandidate, Poll
  <2> QED
    BY <1>13, <2>2, <2>3 DEF TypeOK, CloseCandidate, orderVars
<1>14. ASSUME NEW w \in Workers, RemindScan(w)
       PROVE TypeOK'
  BY <1>14 DEF TypeOK, RemindScan, Poll, orderVars
<1>15. ASSUME NEW w \in Workers, RemindCommit(w)
       PROVE TypeOK'
  <2> DEFINE fresh == {o \in Orders : Remindable(o, w)}
  <2>1. sub' \in [Orders -> SubRow]
    BY <1>15, RowTypes DEF TypeOK, RemindCommit, SubStatus
  <2>2. outbox' \subseteq OutboxEvent
    BY <1>15 DEF TypeOK, RemindCommit, ExpiringEvent, OutboxEvent, EventTypes, SubRow
  <2>3. reminded' \subseteq Orders \X Nat
    BY <1>15 DEF TypeOK, RemindCommit, SubRow
  <2> QED
    BY <1>15, <2>1, <2>2, <2>3 DEF TypeOK, RemindCommit, Idle, Poll, orderVars
<1>16. ASSUME NEW w \in Workers, PollFails(w)
       PROVE TypeOK'
  BY <1>16 DEF TypeOK, PollFails, Idle, Poll, orderVars
<1>17. ASSUME NEW o \in Orders, NEW s \in {"failed", "expired"}, ProviderDecides(o, s)
       PROVE TypeOK'
  BY <1>17 DEF TypeOK, ProviderDecides, ProviderStatus, orderVars, jobVars
<1>18. ASSUME NEW p \in Plans, NEW active \in BOOLEAN, PatchPlan(p, active)
       PROVE TypeOK'
  BY <1>18 DEF TypeOK, PatchPlan, PlanVersions, orderVars, jobVars
<1>19. ASSUME NEW o \in Orders, ExtendSubscription(o)
       PROVE TypeOK'
  BY <1>19 DEF TypeOK, ExtendSubscription, SubRow, SubStatus, orderVars, jobVars
<1>20. CASE Tick
  BY <1>20 DEF TypeOK, Tick, orderVars, jobVars
<1>21. CASE UNCHANGED vars
  BY <1>21 DEF TypeOK, vars
<1> QED
  BY <1>1, <1>2, <1>3, <1>4, <1>5, <1>6, <1>7, <1>8, <1>9, <1>10, <1>11, <1>12, <1>13,
     <1>14, <1>15, <1>16, <1>17, <1>18, <1>19, <1>20, <1>21
  DEF Next, Purchase, Webhook, Maintenance

\* The variables keep their types: in particular no row is ever written with a status
\* that the CHECK constraints of CreatePaymentSchema would refuse.
THEOREM TypeCorrect == Spec => []TypeOK
<1>1. QED
  BY TypeInit, TypeStep, PTL DEF Spec

(***************************************************************************)
(* The purchase guard.  OneOpenOrderPerUser and PaymentMatchesSubscription *)
(* are not inductive: a purchase commits what it checked earlier, so the   *)
(* invariant says what a purchase that holds its guard still knows.        *)
(***************************************************************************)
\* A payment row exists exactly when its order does.
ExistsTogether == \A o \in Orders : order[o] = None <=> pay[o].status = "absent"

\* A purchase past its checks holds the guard of its user alone; its key is still unused
\* and every open subscription of the user is one that its commit will expire.
GuardHolder ==
    \A c \in checking :
        /\ \A d \in checking : d.user = c.user => d = c
        /\ c.at <= now
        /\ request[c.user][c.key] = None
        /\ \A o \in Orders :
              OwnedBy(o, c.user) /\ sub[o].status \in OpenStatus => Lapsed(o, c.at)

IInv ==
    /\ TypeOK
    /\ ExistsTogether
    /\ GuardHolder
    /\ OneOpenOrderPerUser
    /\ PaymentMatchesSubscription
    /\ OrderKeepsItsKey

\* The subscription statuses that a payment status allows.
LEMMA StatusTable ==
    /\ SubStatusFor("absent") = {"absent"}
    /\ SubStatusFor("pending") = {"pending"}
    /\ SubStatusFor("success") = {"active", "expired"}
    /\ \A status \in {"failed", "expired", "reconciliation_required"} :
          SubStatusFor(status) = {"cancelled"}
  BY DEF SubStatusFor

\* The initial database satisfies the invariant.
LEMMA InvInit == Init => IInv
<1> SUFFICES ASSUME Init PROVE IInv
  OBVIOUS
<1>1. TypeOK
  BY TypeInit
<1>2. \A o \in Orders : /\ order[o] = None /\ pay[o].status = "absent"
                        /\ sub[o].status = "absent"
  BY DEF Init
<1>3. ExistsTogether /\ OneOpenOrderPerUser /\ OrderKeepsItsKey
  BY <1>2 DEF ExistsTogether, OneOpenOrderPerUser, OrderKeepsItsKey, Created
<1>4. PaymentMatchesSubscription
  BY <1>2, StatusTable DEF PaymentMatchesSubscription
<1>5. GuardHolder
  BY DEF Init, GuardHolder
<1> QED
  BY <1>1, <1>3, <1>4, <1>5 DEF IInv

\* A step that writes no order, payment or subscription and lets the clock run on.
LEMMA QuietStep ==
    ASSUME IInv, TypeOK', UNCHANGED <<order, request, pay, sub, checking>>, now <= now'
    PROVE  IInv'
<1>1. ExistsTogether' /\ OneOpenOrderPerUser' /\ OrderKeepsItsKey'
  BY DEF IInv, ExistsTogether, OneOpenOrderPerUser, OrderKeepsItsKey, Created
<1>2. PaymentMatchesSubscription'
  BY DEF IInv, PaymentMatchesSubscription
<1>3. GuardHolder'
  <2> SUFFICES ASSUME NEW c \in checking
               PROVE  /\ \A d \in checking : d.user = c.user => d = c
                      /\ c.at <= now'
                      /\ request[c.user][c.key] = None
                      /\ \A o \in Orders :
                           OwnedBy(o, c.user) /\ sub[o].status \in OpenStatus => Lapsed(o, c.at)
    BY DEF GuardHolder, OwnedBy, Lapsed
  <2>1. c.at \in Nat /\ now \in Nat /\ now' \in Nat
    BY DEF IInv, TypeOK, Checked
  <2> QED
    BY <2>1 DEF IInv, GuardHolder
<1> QED
  BY <1>1, <1>2, <1>3 DEF IInv

\* A step that writes the rows of one order whose user's guard is free, keeps them
\* matching and opens nothing.
LEMMA OneOrderStep ==
    ASSUME IInv, TypeOK', NEW o \in Orders, order[o] # None, GuardFree(order[o].user),
           UNCHANGED <<order, request, checking, now>>,
           \A x \in Orders \ {o} : pay'[x] = pay[x] /\ sub'[x] = sub[x],
           pay'[o].status # "absent",
           sub'[o].status \in SubStatusFor(pay'[o].status),
           sub'[o].status \in OpenStatus => sub[o].status \in OpenStatus
    PROVE  IInv'
<1>1. ExistsTogether'
  BY DEF IInv, ExistsTogether
<1>2. OneOpenOrderPerUser'
  BY DEF IInv, OneOpenOrderPerUser, Created
<1>3. OrderKeepsItsKey'
  BY DEF IInv, OrderKeepsItsKey, Created
<1>4. PaymentMatchesSubscription'
  BY DEF IInv, PaymentMatchesSubscription
<1>5. GuardHolder'
  <2> SUFFICES ASSUME NEW c \in checking, NEW x \in Orders,
                      OwnedBy(x, c.user), sub'[x].status \in OpenStatus
               PROVE  Lapsed(x, c.at)'
    BY DEF IInv, GuardHolder, OwnedBy
  <2>1. x # o
    BY DEF OwnedBy, GuardFree
  <2> QED
    BY <2>1 DEF IInv, GuardHolder, Lapsed
<1> QED
  BY <1>1, <1>2, <1>3, <1>4, <1>5 DEF IInv

\* The guarded purchase commits: its order is the only open one of its user.
LEMMA CommitStep ==
    ASSUME IInv, TypeOK', NEW c \in checking, NEW o \in Orders, SubscribeCommit(c, o)
    PROVE  IInv'
<1> USE NoneAssumption
<1>1. /\ c.user \in Users /\ c.key \in Keys /\ c \in Checked
      /\ request[c.user][c.key] = None
      /\ \A d \in checking : d.user = c.user => d = c
  BY DEF IInv, TypeOK, Checked, GuardHolder
<1>2. /\ order[o] = None /\ order'[o] = [user |-> c.user, key |-> c.key, plan |-> c.plan,
                                         version |-> c.version]
      /\ order'[o] # None
      /\ \A x \in Orders \ {o} : order'[x] = order[x]
  BY <1>1 DEF SubscribeCommit, IInv, TypeOK, Checked, OrderRecord
<1>3. /\ pay'[o].status = "pending" /\ sub'[o].status = "pending"
      /\ \A x \in Orders \ {o} : pay'[x] = pay[x]
  BY DEF SubscribeCommit, IInv, TypeOK
<1>4. \A x \in Orders \ {o} :
         sub'[x] = IF OwnedBy(x, c.user) /\ Lapsed(x, c.at) THEN SubAs(sub[x], "expired")
                   ELSE sub[x]
  BY DEF SubscribeCommit
<1>5. \A x \in Orders \ {o} : OwnedBy(x, c.user) => sub'[x].status \notin OpenStatus
  BY <1>4, RowStatus DEF IInv, GuardHolder, OpenStatus
<1>6. \A x \in Orders \ {o} : sub'[x].status \in OpenStatus => sub'[x] = sub[x]
  BY <1>4, RowStatus DEF OpenStatus
<1>7. ExistsTogether'
  BY <1>2, <1>3 DEF IInv, ExistsTogether
<1>8. OneOpenOrderPerUser'
  <2> SUFFICES ASSUME NEW x \in Orders, NEW y \in Orders, order'[x] # None, order'[y] # None,
                      order'[x].user = order'[y].user,
                      sub'[x].status \in OpenStatus, sub'[y].status \in OpenStatus
               PROVE  x = y
    BY DEF OneOpenOrderPerUser, Created
  <2>1. CASE x = o \/ y = o
    BY <2>1, <1>2, <1>5 DEF OwnedBy
  <2>2. CASE x # o /\ y # o
    BY <2>2, <1>2, <1>6 DEF IInv, OneOpenOrderPerUser, Created
  <2> QED
    BY <2>1, <2>2
<1>9. PaymentMatchesSubscription'
  <2> SUFFICES ASSUME NEW x \in Orders PROVE sub'[x].status \in SubStatusFor(pay'[x].status)
    BY DEF PaymentMatchesSubscription
  <2>1. CASE x = o
    BY <2>1, <1>3, StatusTable
  <2>2. CASE x # o /\ ~(OwnedBy(x, c.user) /\ Lapsed(x, c.at))
    BY <2>2, <1>3, <1>4 DEF IInv, PaymentMatchesSubscription
  <2>3. CASE x # o /\ OwnedBy(x, c.user) /\ Lapsed(x, c.at)
    <3>1. pay[x].status = "success"
      BY <2>3, StatusTable
      DEF IInv, TypeOK, PayRow, PaymentStatus, PaymentMatchesSubscription, Lapsed
    <3> QED
      BY <2>3, <3>1, <1>3, <1>4, StatusTable, RowStatus
  <2> QED
    BY <2>1, <2>2, <2>3
<1>10. OrderKeepsItsKey'
  <2>1. \A x \in Orders \ {o} : order[x] # None =>
            request[order[x].user][order[x].key] # None
    BY DEF IInv, OrderKeepsItsKey, Created
  <2>2. \A u \in Users, k \in Keys :
            request'[u][k] = IF u = c.user /\ k = c.key THEN o ELSE request[u][k]
    BY <1>1 DEF SubscribeCommit, IInv, TypeOK
  <2>3. \A x \in Orders : order[x] # None => order[x].user \in Users /\ order[x].key \in Keys
    BY DEF IInv, TypeOK, OrderRecord
  <2> QED
    BY <2>1, <2>2, <2>3, <1>1, <1>2 DEF IInv, OrderKeepsItsKey, Created
<1>11. GuardHolder'
  <2> SUFFICES ASSUME NEW d \in checking, d # c
               PROVE  /\ \A b \in checking : b.user = d.user => b = d
                      /\ d.at <= now
                      /\ request'[d.user][d.key] = None
                      /\ \A x \in Orders :
                           OwnedBy(x, d.user)' /\ sub'[x].status \in OpenStatus
                              => Lapsed(x, d.at)'
    BY DEF SubscribeCommit, GuardHolder
  <2>1. d.user \in Users /\ d.key \in Keys /\ d.user # c.user
    BY <1>1 DEF IInv, TypeOK, Checked
  <2>2. request'[d.user][d.key] = request[d.user][d.key]
    BY <2>1 DEF SubscribeCommit, IInv, TypeOK
  <2>3. ASSUME NEW x \in Orders, OwnedBy(x, d.user)', sub'[x].status \in OpenStatus
        PROVE  Lapsed(x, d.at)'
    <3>1. x # o
      BY <2>1, <2>3, <1>2 DEF OwnedBy
    <3>2. sub'[x] = sub[x] /\ OwnedBy(x, d.user)
      BY <2>3, <3>1, <1>2, <1>6 DEF OwnedBy
    <3> QED
      BY <2>3, <3>2 DEF IInv, GuardHolder, Lapsed
  <2> QED
    BY <2>2, <2>3 DEF IInv, GuardHolder
<1> QED
  BY <1>7, <1>8, <1>9, <1>10, <1>11 DEF IInv

\* The invariant is kept by every step: one case per action.
LEMMA InvStep == IInv /\ [Next]_vars => IInv'
<1> SUFFICES ASSUME IInv, [Next]_vars PROVE IInv'
  OBVIOUS
<1> USE NoneAssumption
<1>0. TypeOK /\ TypeOK' /\ now \in Nat
  BY TypeStep DEF IInv, TypeOK
<1>1. ASSUME NEW u \in Users, NEW k \in Keys, NEW p \in Plans, SubscribeCheck(u, k, p)
      PROVE IInv'
  <2> DEFINE c == [user |-> u, key |-> k, plan |-> p, version |-> plan[p].version, at |-> now]
  <2>1. /\ UNCHANGED <<order, request, pay, sub, now>> /\ checking' = checking \union {c}
        /\ c.user = u /\ c.key = k /\ c.at = now
    BY <1>1 DEF SubscribeCheck, orderVars
  <2> HIDE DEF c
  <2>2. /\ ExistsTogether' /\ OneOpenOrderPerUser' /\ PaymentMatchesSubscription'
        /\ OrderKeepsItsKey'
    BY <2>1 DEF IInv, ExistsTogether, OneOpenOrderPerUser, PaymentMatchesSubscription,
                OrderKeepsItsKey, Created
  <2>3. ASSUME NEW o \in Orders, OwnedBy(o, u), sub[o].status \in OpenStatus
        PROVE  Lapsed(o, now)
    BY <1>1, <2>3 DEF SubscribeCheck, HasOpenSubscription
  <2>4. GuardHolder'
    BY <1>0, <1>1, <2>1, <2>3 DEF IInv, GuardHolder, SubscribeCheck, GuardFree, OwnedBy, Lapsed
  <2> QED
    BY <1>0, <2>2, <2>4 DEF IInv
<1>2. ASSUME NEW c \in checking, SubscribeAbort(c)
      PROVE IInv'
  BY <1>0, <1>2 DEF SubscribeAbort, orderVars, IInv, ExistsTogether, OneOpenOrderPerUser,
     PaymentMatchesSubscription, OrderKeepsItsKey, Created, GuardHolder, OwnedBy, Lapsed
<1>3. ASSUME NEW c \in checking, NEW o \in Orders, SubscribeCommit(c, o)
      PROVE IInv'
  BY <1>0, <1>3, CommitStep
<1>4. ASSUME NEW e \in Events, NEW o \in Orders, NEW txn \in Txns, WebhookActivates(e, o, txn)
      PROVE IInv'
  <2>1. /\ order[o] # None /\ GuardFree(order[o].user)
        /\ UNCHANGED <<order, request, checking, now>>
        /\ \A x \in Orders \ {o} : pay'[x] = pay[x] /\ sub'[x] = sub[x]
        /\ sub[o].status \in OpenStatus
    BY <1>0, <1>4
    DEF WebhookActivates, WebhookAccepted, Activatable, TypeOK, orderVars, OpenStatus
  <2>2. pay'[o].status = "success" /\ sub'[o].status = "active"
    BY <1>0, <1>4, RowStatus DEF WebhookActivates, TypeOK
  <2> QED
    BY <1>0, <2>1, <2>2, StatusTable, OneOrderStep
<1>5. ASSUME NEW e \in Events, NEW o \in Orders, NEW txn \in Txns,
             WebhookNeedsReconciliation(e, o, txn)
      PROVE IInv'
  <2>1. /\ order[o] # None /\ GuardFree(order[o].user)
        /\ UNCHANGED <<order, request, checking, now>>
        /\ \A x \in Orders \ {o} : pay'[x] = pay[x] /\ sub'[x] = sub[x]
    BY <1>0, <1>5 DEF WebhookNeedsReconciliation, WebhookAccepted, TypeOK, orderVars
  <2>2. /\ pay'[o].status = "reconciliation_required" /\ sub'[o] = Cancelled(sub[o])
    BY <1>0, <1>5, RowStatus DEF WebhookNeedsReconciliation, TypeOK
  <2>3. pay[o].status # "absent" /\ pay[o].status # "success"
    BY <1>5, <2>1 DEF WebhookNeedsReconciliation, AlreadyPaid, IInv, ExistsTogether
  <2>4. sub[o].status \in {"pending", "cancelled"}
    BY <1>0, <2>3, StatusTable DEF IInv, PaymentMatchesSubscription, TypeOK, PayRow, PaymentStatus
  <2>5. sub'[o].status = "cancelled"
    BY <2>2, <2>4, RowStatus
  <2> QED
    BY <1>0, <2>1, <2>2, <2>5, StatusTable, OneOrderStep DEF OpenStatus
<1>6. ASSUME NEW e \in Events, NEW o \in Orders, NEW state \in {"failed", "expired"},
             NEW txn \in Txns \union {None}, WebhookCloses(e, o, state, txn)
      PROVE IInv'
  <2>1. /\ order[o] # None /\ GuardFree(order[o].user)
        /\ UNCHANGED <<order, request, checking, now>>
        /\ \A x \in Orders \ {o} : pay'[x] = pay[x] /\ sub'[x] = sub[x]
    BY <1>0, <1>6 DEF WebhookCloses, WebhookAccepted, TypeOK, orderVars
  <2>2. pay'[o].status = state /\ sub'[o].status = "cancelled"
    BY <1>0, <1>6, RowStatus, StatusTable
    DEF WebhookCloses, ClosableByWebhook, TypeOK, IInv, PaymentMatchesSubscription
  <2> QED
    BY <1>0, <2>1, <2>2, StatusTable, OneOrderStep DEF OpenStatus
<1>7. ASSUME NEW w \in Workers, NEW c \in job[w].todo, CloseCandidate(w, c)
      PROVE IInv'
  <2>1. c[1] \in Orders /\ c[2] \in {"failed", "expired"}
    BY <1>0, <1>7 DEF TypeOK, Poll, CloseCandidate
  <2>2. /\ order[c[1]] # None /\ GuardFree(order[c[1]].user)
        /\ UNCHANGED <<order, request, checking, now>>
        /\ \A x \in Orders \ {c[1]} : pay'[x] = pay[x] /\ sub'[x] = sub[x]
    BY <1>0, <1>7, <2>1 DEF CloseCandidate, TypeOK, orderVars
  <2>3. CASE StillClosable(c[1])
    <3>1. pay'[c[1]].status = c[2] /\ sub'[c[1]].status = "cancelled"
      BY <1>0, <1>7, <2>1, <2>3, RowStatus, StatusTable
      DEF CloseCandidate, StillClosable, TypeOK, IInv, PaymentMatchesSubscription
    <3> QED
      BY <1>0, <2>1, <2>2, <3>1, StatusTable, OneOrderStep DEF OpenStatus
  <2>4. CASE ~StillClosable(c[1])
    <3>1. pay' = pay /\ sub' = sub
      BY <1>0, <1>7, <2>1, <2>4 DEF CloseCandidate, TypeOK
    <3> QED
      BY <1>0, <2>2, <3>1, QuietStep
  <2> QED
    BY <2>3, <2>4
<1>8. ASSUME NEW w \in Workers, RemindCommit(w)
      PROVE IInv'
  <2>1. /\ UNCHANGED <<order, request, pay, checking, now>>
        /\ \A o \in Orders :
              sub'[o] = sub[o] \/ (sub[o].status = "active" /\ sub'[o].status = "expired")
    <3>1. \A o \in Orders :
             sub'[o] = IF ExpiresAt(o, job[w].at) THEN SubAs(sub[o], "expired") ELSE sub[o]
      BY <1>8 DEF RemindCommit
    <3>2. ASSUME NEW o \in Orders, ExpiresAt(o, job[w].at)
          PROVE  sub[o].status = "active" /\ sub'[o].status = "expired"
      BY <3>1, <3>2, RowStatus DEF ExpiresAt, Lapsed
    <3>3. ASSUME NEW o \in Orders, ~ExpiresAt(o, job[w].at)
          PROVE  sub'[o] = sub[o]
      BY <3>1, <3>3
    <3> QED
      BY <1>8, <3>2, <3>3 DEF RemindCommit, orderVars
  <2>2. ExistsTogether' /\ OneOpenOrderPerUser' /\ OrderKeepsItsKey'
    BY <2>1 DEF IInv, ExistsTogether, OneOpenOrderPerUser, OrderKeepsItsKey, Created, OpenStatus
  <2>3. PaymentMatchesSubscription'
    BY <1>0, <2>1, StatusTable, SMTT(40)
    DEF IInv, PaymentMatchesSubscription, TypeOK, PayRow, PaymentStatus
  <2>4. GuardHolder'
    BY <2>1 DEF IInv, GuardHolder, OwnedBy, Lapsed, OpenStatus
  <2> QED
    BY <1>0, <2>2, <2>3, <2>4 DEF IInv
<1>9. ASSUME NEW o \in Orders, ExtendSubscription(o)
      PROVE IInv'
  <2>1. order[o] # None
    BY <1>0, <1>9, StatusTable
    DEF ExtendSubscription, Extendable, IInv, ExistsTogether, PaymentMatchesSubscription
  <2>2. GuardFree(order[o].user)
    <3> SUFFICES ASSUME NEW c \in checking, c.user = order[o].user PROVE FALSE
      BY DEF GuardFree
    <3>1. sub[o].end <= c.at /\ c.at <= now
      BY <1>9, <2>1
      DEF ExtendSubscription, Extendable, IInv, GuardHolder, OwnedBy, OpenStatus, Lapsed
    <3>2. sub[o].end \in Nat /\ c.at \in Nat
      BY <1>0 DEF TypeOK, SubRow, Checked
    <3> QED
      BY <1>0, <1>9, <3>1, <3>2 DEF ExtendSubscription, Extendable
  <2>3. /\ UNCHANGED <<order, request, pay, checking, now>>
        /\ \A x \in Orders \ {o} : sub'[x] = sub[x]
        /\ sub[o].status = "active" /\ sub'[o].status = "active"
    BY <1>0, <1>9 DEF ExtendSubscription, Extendable, TypeOK, orderVars
  <2>4. pay'[o].status # "absent" /\ sub'[o].status \in SubStatusFor(pay'[o].status)
    BY <2>1, <2>3 DEF IInv, ExistsTogether, PaymentMatchesSubscription
  <2> QED
    BY <1>0, <2>1, <2>2, <2>3, <2>4, OneOrderStep DEF OpenStatus
<1>10. ASSUME UNCHANGED <<order, request, pay, sub, checking>>, now' = now \/ now' = now + 1
       PROVE IInv'
  BY <1>0, <1>10, QuietStep
<1> QED
  BY <1>1, <1>2, <1>3, <1>4, <1>5, <1>6, <1>7, <1>8, <1>9, <1>10
  DEF Next, Purchase, Webhook, Maintenance, vars, orderVars, SubscribeReplay, EnsureMockOrder,
      HandlerLost, WebhookRepeatsSuccess, WebhookIgnored, PollStart, RemindScan, PollFails,
      ProviderDecides, PatchPlan, Tick

\* The invariant holds throughout.
THEOREM GuardInvariant == Spec => []IInv
<1>1. QED
  BY InvInit, InvStep, PTL DEF Spec

\* A user never has two open orders, however purchases, webhooks, reconciliation, expiry and
\* extensions interleave: the purchase guard alone prevents it.
THEOREM OneOpenOrder == Spec => []OneOpenOrderPerUser
<1>1. IInv => OneOpenOrderPerUser
  BY DEF IInv
<1>2. QED
  BY <1>1, GuardInvariant, PTL

\* A payment and its subscription never get out of step.
THEOREM RowsMatch == Spec => []PaymentMatchesSubscription
<1>1. IInv => PaymentMatchesSubscription
  BY DEF IInv
<1>2. QED
  BY <1>1, GuardInvariant, PTL

\* The order of an idempotency key is never replaced.
THEOREM KeyKept == Spec => []OrderKeepsItsKey
<1>1. IInv => OrderKeepsItsKey
  BY DEF IInv
<1>2. QED
  BY <1>1, GuardInvariant, PTL

(***************************************************************************)
(* What was paid is delivered, once and for the term bought.  Above, which *)
(* rows may exist together; here the rows are related to the receipts of   *)
(* the webhook, the events in the outbox and the reminders sent.           *)
(***************************************************************************)
\* The version of a subscription counts its steps: a pending one has taken none.
PendingIsNew == \A o \in Orders : sub[o].status = "pending" => sub[o].version = 1

Terms == PendingIsNew /\ TermMatchesPurchase

\* An order is paid by a transaction, and its activation is in the outbox.
PaidByEvent ==
    \A o \in Orders : pay[o].status = "success" =>
        /\ pay[o].txn \in Txns
        /\ \E v \in outbox : v.type = "payment.success" /\ v.order = o

Activations(o) == {v \in outbox : v.type = "payment.success" /\ v.order = o}

SuccessReceipts(o) ==
    {e \in Events : receipt[e] # None /\ receipt[e].order = o /\ receipt[e].outcome = "success"}

Single(set) == \E x \in set : set = {x}

\* A paid order has one event and one receipt, another none.
OneOrNone ==
    \A o \in Orders :
        IF pay[o].status = "success" THEN Single(Activations(o)) /\ Single(SuccessReceipts(o))
                                     ELSE Activations(o) = {} /\ SuccessReceipts(o) = {}

Ledger == PaidByEvent /\ PaidNeverLost /\ OneOrNone

\* No reminder is in the outbox that was not recorded with it.
RemindersRecorded ==
    \A v \in outbox : v.type = "subscription.expiring" => <<v.order, v.endAt>> \in reminded

Reminders == RemindersRecorded /\ RemindedOnce

PInv == IInv /\ Terms /\ Ledger /\ Reminders

(***************************************************************************)
(* The three parts, each kept by the steps that are not about it.          *)
(***************************************************************************)
Settled(p) == p.status \in {"success", "reconciliation_required"}

LEMMA TermsKept == ASSUME Terms, UNCHANGED <<order, sub>> PROVE Terms'
  BY DEF Terms, PendingIsNew, TermMatchesPurchase

\* Payments that are settled stay, none becomes a success, and new receipts and events
\* speak of no success.
LEMMA LedgerKept ==
  ASSUME Ledger, outbox \subseteq outbox',
         \A v \in outbox' \ outbox : v.type # "payment.success",
         \A e \in Events : receipt'[e] = receipt[e]
                             \/ (receipt'[e].state # "success" /\ receipt'[e].outcome # "success"),
         \A e \in Events : receipt[e] # None => receipt'[e] = receipt[e],
         \A e \in Events : receipt[e] # None => receipt[e].order \in Orders,
         \A x \in Orders : Settled(pay[x]) => pay'[x] = pay[x],
         \A x \in Orders : pay[x].status # "success" => pay'[x].status # "success"
  PROVE  Ledger'
<1> USE DEF Ledger, Settled
<1>1. PaidByEvent'
  BY DEF PaidByEvent
<1>2. PaidNeverLost'
  BY DEF PaidNeverLost, PaidAndTold, DisputedAndTold
<1>3. \A o \in Orders : Activations(o)' = Activations(o)
  BY DEF Activations
<1>4. \A o \in Orders : SuccessReceipts(o)' = SuccessReceipts(o)
  BY DEF SuccessReceipts
<1>5. OneOrNone'
  <2> SUFFICES ASSUME NEW o \in Orders
               PROVE  IF pay'[o].status = "success"
                      THEN Single(Activations(o)) /\ Single(SuccessReceipts(o))
                      ELSE Activations(o) = {} /\ SuccessReceipts(o) = {}
    BY <1>3, <1>4 DEF OneOrNone, Single
  <2> QED
    BY DEF OneOrNone
<1> QED
  BY <1>1, <1>2, <1>5

LEMMA RemindersKept ==
  ASSUME Reminders, outbox \subseteq outbox', reminded' = reminded,
         \A v \in outbox' \ outbox : v.type # "subscription.expiring"
  PROVE  Reminders'
  BY DEF Reminders, RemindersRecorded, RemindedOnce

LEMMA ReceiptTyped ==
  ASSUME TypeOK, NEW e \in Events, receipt[e] # None
  PROVE  receipt[e].order \in Orders
  BY DEF TypeOK, Receipt

(***************************************************************************)
(* The term bought.                                                        *)
(***************************************************************************)
\* A subscription that is active expires: its version, and nothing of its term, moves.
LEMMA ExpiryKeepsTerm ==
  ASSUME TypeOK, Terms, order' = order,
         \A x \in Orders : sub'[x] = sub[x] \/ (sub[x].status = "active"
                                                  /\ sub'[x] = SubAs(sub[x], "expired"))
  PROVE  Terms'
<1>1. ASSUME NEW x \in Orders, sub[x].status = "active", sub'[x] = SubAs(sub[x], "expired")
      PROVE  /\ sub'[x].status = "expired" /\ sub'[x].version = sub[x].version + 1
             /\ sub'[x].start = sub[x].start /\ sub'[x].end = sub[x].end
  BY <1>1 DEF SubAs
<1>2. PendingIsNew'
  BY <1>1 DEF Terms, PendingIsNew
<1>3. TermMatchesPurchase'
  <2> SUFFICES ASSUME NEW x \in Orders, sub'[x].status \in {"active", "expired"}
               PROVE  sub'[x].end = sub'[x].start + Days[order[x].version]
                        + (sub'[x].version - IF sub'[x].status = "active" THEN 2 ELSE 3)
    BY DEF TermMatchesPurchase
  <2>1. sub[x].version \in Nat
    BY DEF TypeOK, SubRow
  <2>2. sub[x].status \in {"active", "expired"}
    BY <1>1
  <2>3. sub[x].end = sub[x].start + Days[order[x].version]
           + (sub[x].version - IF sub[x].status = "active" THEN 2 ELSE 3)
    BY <2>2 DEF Terms, TermMatchesPurchase
  <2>4. CASE sub'[x] = sub[x]
    BY <2>3, <2>4
  <2>5. CASE sub'[x] # sub[x]
    <3>1. (sub[x].version + 1) - 3 = sub[x].version - 2
      BY <2>1
    <3> QED
      BY <1>1, <2>3, <2>5, <3>1
  <2> QED
    BY <2>4, <2>5
<1> QED
  BY <1>2, <1>3 DEF Terms

LEMMA TermsStep ==
  ASSUME PInv, [Next]_vars
  PROVE  Terms'
<1> USE ConstantsAssumption, NoneAssumption
<1>0. IInv /\ TypeOK /\ Terms
  BY DEF PInv, IInv
<1>1. ASSUME NEW c \in checking, NEW o \in Orders, SubscribeCommit(c, o) PROVE Terms'
  <2>1. /\ sub'[o].status = "pending" /\ sub'[o].version = 1
        /\ \A x \in Orders \ {o} : order'[x] = order[x]
    BY <1>0, <1>1 DEF SubscribeCommit, TypeOK
  <2>2. \A x \in Orders \ {o} :
           sub'[x] = sub[x]
             \/ (sub[x].status = "active" /\ sub'[x] = SubAs(sub[x], "expired"))
    BY <1>1 DEF SubscribeCommit, Lapsed
  <2>3. ASSUME NEW x \in Orders \ {o}
        PROVE  /\ sub'[x].status = "pending" => sub'[x].version = 1
               /\ sub'[x].status \in {"active", "expired"} =>
                    sub'[x].end = sub'[x].start + Days[order'[x].version]
                        + (sub'[x].version - IF sub'[x].status = "active" THEN 2 ELSE 3)
    <3>1. CASE sub'[x] = sub[x]
      BY <1>0, <2>1, <3>1 DEF Terms, PendingIsNew, TermMatchesPurchase
    <3>2. CASE sub[x].status = "active" /\ sub'[x] = SubAs(sub[x], "expired")
      <4>1. /\ sub'[x].status = "expired" /\ sub'[x].version = sub[x].version + 1
            /\ sub'[x].start = sub[x].start /\ sub'[x].end = sub[x].end
        BY <3>2 DEF SubAs
      <4>2. sub[x].end = sub[x].start + Days[order[x].version] + (sub[x].version - 2)
        BY <1>0, <3>2 DEF Terms, TermMatchesPurchase
      <4>3. (sub[x].version + 1) - 3 = sub[x].version - 2
        BY <1>0 DEF TypeOK, SubRow
      <4> QED
        BY <2>1, <4>1, <4>2, <4>3
    <3> QED
      BY <2>2, <3>1, <3>2
  <2> QED
    BY <2>1, <2>3 DEF Terms, PendingIsNew, TermMatchesPurchase
<1>2. ASSUME NEW e \in Events, NEW o \in Orders, NEW txn \in Txns, WebhookActivates(e, o, txn)
      PROVE  Terms'
  <2>1. /\ sub'[o] = [status |-> "active", start |-> now, end |-> now + Days[order[o].version],
                      version |-> sub[o].version + 1]
        /\ \A x \in Orders \ {o} : sub'[x] = sub[x]
        /\ order' = order
    BY <1>0, <1>2 DEF WebhookActivates, Term, TypeOK, orderVars
  <2>2. sub[o].version = 1
    BY <1>0, <1>2 DEF WebhookActivates, Activatable, Terms, PendingIsNew
  <2>3. now \in Nat /\ Days[order[o].version] \in Nat
    BY <1>0, <1>2 DEF TypeOK, WebhookActivates, WebhookAccepted, OrderRecord
  <2>4. /\ sub'[o].status = "active" /\ sub'[o].start = now /\ sub'[o].version = 2
        /\ sub'[o].end = now + Days[order[o].version]
    BY <2>1, <2>2
  <2>5. sub'[o].end = sub'[o].start + Days[order[o].version] + (sub'[o].version - 2)
    BY <2>3, <2>4
  <2> QED
    BY <1>0, <2>1, <2>4, <2>5 DEF Terms, PendingIsNew, TermMatchesPurchase
<1>3. ASSUME NEW o \in Orders, order' = order, sub' = [sub EXCEPT ![o] = Cancelled(@)]
      PROVE  Terms'
  <2>1. /\ \A x \in Orders \ {o} : sub'[x] = sub[x]
        /\ sub'[o] = Cancelled(sub[o])
    BY <1>0, <1>3 DEF TypeOK
  <2>2. sub'[o] = sub[o] \/ sub'[o].status = "cancelled"
    BY <2>1 DEF Cancelled, SubAs
  <2> QED
    BY <1>0, <1>3, <2>1, <2>2 DEF Terms, PendingIsNew, TermMatchesPurchase
<1>4. ASSUME NEW e \in Events, NEW o \in Orders, NEW txn \in Txns,
             WebhookNeedsReconciliation(e, o, txn)
      PROVE  Terms'
  BY <1>3, <1>4 DEF WebhookNeedsReconciliation, orderVars
<1>5. ASSUME NEW e \in Events, NEW o \in Orders, NEW state \in {"failed", "expired"},
             NEW txn \in Txns \union {None}, WebhookCloses(e, o, state, txn)
      PROVE  Terms'
  BY <1>3, <1>5 DEF WebhookCloses, orderVars
<1>6. ASSUME NEW w \in Workers, NEW c \in job[w].todo, CloseCandidate(w, c) PROVE Terms'
  <2>1. c[1] \in Orders /\ order' = order
    BY <1>0, <1>6 DEF CloseCandidate, TypeOK, Poll, orderVars
  <2>2. CASE StillClosable(c[1])
    BY <1>3, <1>6, <2>1, <2>2 DEF CloseCandidate
  <2>3. CASE ~StillClosable(c[1])
    <3>1. sub' = sub
      BY <1>0, <1>6, <2>1, <2>3 DEF CloseCandidate, TypeOK
    <3> QED
      BY <1>0, <2>1, <3>1, TermsKept
  <2> QED
    BY <2>2, <2>3
<1>7. ASSUME NEW w \in Workers, RemindCommit(w) PROVE Terms'
  BY <1>0, <1>7, ExpiryKeepsTerm DEF RemindCommit, ExpiresAt, Lapsed, orderVars
<1>8. ASSUME NEW o \in Orders, ExtendSubscription(o) PROVE Terms'
  <2>1. /\ sub[o].status = "active"
        /\ sub'[o] = [status |-> "active", start |-> sub[o].start, end |-> sub[o].end + 1,
                      version |-> sub[o].version + 1]
        /\ \A x \in Orders \ {o} : sub'[x] = sub[x]
        /\ order' = order
    BY <1>0, <1>8 DEF ExtendSubscription, Extendable, TypeOK, orderVars
  <2>2. /\ sub'[o].status = "active" /\ sub'[o].start = sub[o].start
        /\ sub'[o].end = sub[o].end + 1 /\ sub'[o].version = sub[o].version + 1
    BY <2>1
  <2>3. sub[o].end = sub[o].start + Days[order[o].version] + (sub[o].version - 2)
    BY <1>0, <2>1 DEF Terms, TermMatchesPurchase
  <2>4. order[o] # None
    BY <1>0, <2>1, StatusTable DEF IInv, ExistsTogether, PaymentMatchesSubscription
  <2>5. sub[o].start \in Nat /\ sub[o].version \in Nat /\ Days[order[o].version] \in Nat
    BY <1>0, <2>4 DEF TypeOK, SubRow, OrderRecord
  <2>6. sub'[o].end = sub'[o].start + Days[order[o].version] + (sub'[o].version - 2)
    BY <2>2, <2>3, <2>5
  <2> QED
    BY <1>0, <2>1, <2>2, <2>6 DEF Terms, PendingIsNew, TermMatchesPurchase
<1>9. ASSUME UNCHANGED <<order, sub>> PROVE Terms'
  BY <1>0, <1>9, TermsKept
<1> QED
  BY <1>1, <1>2, <1>4, <1>5, <1>6, <1>7, <1>8, <1>9
  DEF Next, Purchase, Webhook, Maintenance, vars, orderVars, SubscribeCheck, SubscribeAbort,
      SubscribeReplay, EnsureMockOrder, HandlerLost, WebhookRepeatsSuccess, WebhookIgnored,
      PollStart, RemindScan, PollFails, ProviderDecides, PatchPlan, Tick

(***************************************************************************)
(* Receipts, events and payments.                                          *)
(***************************************************************************)
LEMMA ActivatesLedger ==
  ASSUME PInv, NEW e \in Events, NEW o \in Orders, NEW txn \in Txns, WebhookActivates(e, o, txn)
  PROVE  Ledger'
<1> USE NoneAssumption DEF Ledger
<1>0. TypeOK /\ Ledger
  BY DEF PInv, IInv
<1> DEFINE v == PaymentEvent("payment.success", o, sub[o].version + 1, None)
<1>1. /\ v.type = "payment.success" /\ v.order = o
      /\ outbox' = outbox \union {v}
  BY DEF WebhookActivates, PaymentEvent
<1> HIDE DEF v
<1>2. /\ receipt[e] = None /\ pay[o].status = "pending"
      /\ receipt'[e] = [order |-> o, state |-> "success", txn |-> txn, outcome |-> "success"]
      /\ \A d \in Events \ {e} : receipt'[d] = receipt[d]
      /\ pay'[o] = PayAs(pay[o], "success", txn)
      /\ \A x \in Orders \ {o} : pay'[x] = pay[x]
  BY <1>0 DEF WebhookActivates, WebhookAccepted, Activatable, StoreReceipt, TypeOK
<1>3. /\ receipt'[e].order = o /\ receipt'[e].state = "success" /\ receipt'[e].txn = txn
      /\ receipt'[e].outcome = "success"
      /\ pay'[o].status = "success" /\ pay'[o].txn = txn
  BY <1>2 DEF PayAs
<1>4. receipt'[e] # None
  BY <1>2 DEF Receipt, WebhookState, Outcome
<1>5. PaidByEvent'
  BY <1>0, <1>1, <1>2, <1>3 DEF PaidByEvent
<1>6. PaidNeverLost'
  <2> SUFFICES ASSUME NEW d \in Events, receipt'[d] # None, receipt'[d].state = "success"
               PROVE  IF receipt'[d].outcome = "reconciliation_required"
                      THEN DisputedAndTold(receipt[d])'
                      ELSE PaidAndTold(receipt[d])'
    BY DEF PaidNeverLost
  <2>1. CASE d = e
    BY <1>1, <1>3, <2>1 DEF PaidAndTold
  <2>2. CASE d # e
    <3>1. receipt'[d] = receipt[d] /\ receipt[d].order \in Orders
      BY <1>0, <1>1, <1>2, <2>2, ReceiptTyped
    <3>2. receipt[d].order # o
      BY <1>0, <1>2, <3>1 DEF PaidNeverLost, PaidAndTold, DisputedAndTold
    <3> QED
      BY <1>0, <1>1, <1>2, <3>1, <3>2 DEF PaidNeverLost, PaidAndTold, DisputedAndTold
  <2> QED
    BY <2>1, <2>2
<1>7. Activations(o)' = {v} /\ SuccessReceipts(o)' = {e}
  <2>1. Activations(o) = {} /\ SuccessReceipts(o) = {}
    BY <1>0, <1>2 DEF OneOrNone
  <2>2. Activations(o)' = {v}
    BY <1>1, <2>1 DEF Activations
  <2>3. SuccessReceipts(o)' = {e}
    BY <1>2, <1>3, <1>4, <2>1 DEF SuccessReceipts
  <2> QED
    BY <2>2, <2>3
<1>8. \A x \in Orders \ {o} :
         Activations(x)' = Activations(x) /\ SuccessReceipts(x)' = SuccessReceipts(x)
  BY <1>1, <1>2, <1>3 DEF Activations, SuccessReceipts
<1>9. OneOrNone'
  <2>1. Single({v}) /\ Single({e})
    BY DEF Single
  <2>2. IF pay'[o].status = "success"
        THEN Single(Activations(o)') /\ Single(SuccessReceipts(o)')
        ELSE Activations(o)' = {} /\ SuccessReceipts(o)' = {}
    BY <1>3, <1>7, <2>1
  <2>3. ASSUME NEW x \in Orders, x # o
        PROVE  IF pay'[x].status = "success"
               THEN Single(Activations(x)') /\ Single(SuccessReceipts(x)')
               ELSE Activations(x)' = {} /\ SuccessReceipts(x)' = {}
    BY <1>0, <1>2, <1>8, <2>3 DEF OneOrNone
  <2> QED
    BY <2>2, <2>3 DEF OneOrNone, Single
<1> QED
  BY <1>5, <1>6, <1>9

\* A success that is not activated is answered by a receipt of another outcome: the event
\* that names its transaction is written with it, or the activation of its order was before.
LEMMA AnsweredLedger ==
  ASSUME PInv, NEW e \in Events, NEW o \in Orders, NEW txn \in Txns,
         WebhookNeedsReconciliation(e, o, txn) \/ WebhookRepeatsSuccess(e, o, txn)
  PROVE  Ledger'
<1> USE NoneAssumption DEF Ledger
<1>0. TypeOK /\ Ledger
  BY DEF PInv, IInv
<1>1. /\ receipt[e] = None
      /\ receipt'[e].order = o /\ receipt'[e].state = "success" /\ receipt'[e].txn = txn
      /\ receipt'[e].outcome \in {"ignored", "reconciliation_required"}
      /\ \A d \in Events \ {e} : receipt'[d] = receipt[d]
  BY <1>0 DEF WebhookNeedsReconciliation, WebhookRepeatsSuccess, WebhookAccepted, StoreReceipt,
     TypeOK
<1>2. /\ outbox \subseteq outbox'
      /\ \A v \in outbox' \ outbox : v.type # "payment.success"
      /\ IF receipt'[e].outcome = "reconciliation_required"
         THEN DisputedAndTold(receipt[e])'
         ELSE PaidAndTold(receipt[e])'
  <2>1. CASE WebhookNeedsReconciliation(e, o, txn)
    <3> DEFINE v == PaymentEvent("payment.reconciliation_required", o, pay[o].version + 1, txn)
    <3>1. v.type = "payment.reconciliation_required" /\ v.order = o /\ v.txn = txn
      BY DEF PaymentEvent
    <3>2. outbox' = outbox \union {v}
      BY <2>1 DEF WebhookNeedsReconciliation
    <3> HIDE DEF v
    <3>3. receipt'[e].outcome = "reconciliation_required"
      BY <1>0, <2>1 DEF WebhookNeedsReconciliation, StoreReceipt, TypeOK
    <3>4. pay'[o].status = "reconciliation_required"
      BY <1>0, <2>1, RowStatus DEF WebhookNeedsReconciliation, TypeOK
    <3> QED
      BY <1>1, <3>1, <3>2, <3>3, <3>4 DEF DisputedAndTold
  <2>2. CASE WebhookRepeatsSuccess(e, o, txn)
    <3>1. receipt'[e].outcome = "ignored"
      BY <1>0, <2>2 DEF WebhookRepeatsSuccess, StoreReceipt, TypeOK
    <3>2. pay' = pay /\ outbox' = outbox /\ pay[o].status = "success" /\ pay[o].txn = txn
      BY <1>0, <2>2 DEF WebhookRepeatsSuccess, AlreadyPaid, PaidByEvent
    <3> QED
      BY <1>0, <1>1, <3>1, <3>2 DEF PaidAndTold, PaidByEvent
  <2> QED
    BY <2>1, <2>2
<1>3. /\ \A x \in Orders \ {o} : pay'[x] = pay[x]
      /\ \/ pay'[o] = pay[o] /\ pay[o].status = "success"
         \/ pay'[o].status = "reconciliation_required" /\ pay[o].status # "success"
  BY <1>0, RowStatus
  DEF WebhookNeedsReconciliation, WebhookRepeatsSuccess, AlreadyPaid, TypeOK
<1>4. PaidByEvent'
  BY <1>0, <1>2, <1>3 DEF PaidByEvent
<1>5. PaidNeverLost'
  <2> SUFFICES ASSUME NEW d \in Events, receipt'[d] # None, receipt'[d].state = "success"
               PROVE  IF receipt'[d].outcome = "reconciliation_required"
                      THEN DisputedAndTold(receipt[d])'
                      ELSE PaidAndTold(receipt[d])'
    BY DEF PaidNeverLost
  <2>1. CASE d = e
    BY <1>2, <2>1
  <2>2. CASE d # e
    <3>1. receipt'[d] = receipt[d] /\ receipt[d].order \in Orders
      BY <1>0, <1>1, <2>2, ReceiptTyped
    <3> QED
      BY <1>0, <1>2, <1>3, <3>1 DEF PaidNeverLost, PaidAndTold, DisputedAndTold
  <2> QED
    BY <2>1, <2>2
<1>6. \A x \in Orders : Activations(x)' = Activations(x)
  BY <1>2 DEF Activations
<1>7. \A x \in Orders : SuccessReceipts(x)' = SuccessReceipts(x)
  BY <1>1 DEF SuccessReceipts
<1>8. OneOrNone'
  BY <1>0, <1>3, <1>6, <1>7 DEF OneOrNone, Single
<1> QED
  BY <1>4, <1>5, <1>8

LEMMA LedgerStep ==
  ASSUME PInv, [Next]_vars
  PROVE  Ledger'
<1> USE NoneAssumption
<1>0. IInv /\ TypeOK /\ Ledger /\ \A e \in Events : receipt[e] # None => receipt[e].order \in Orders
  BY ReceiptTyped DEF PInv, IInv
<1>1. ASSUME NEW c \in checking, NEW o \in Orders, SubscribeCommit(c, o) PROVE Ledger'
  <2>1. pay[o].status = "absent" /\ pay'[o].status = "pending"
        /\ \A x \in Orders \ {o} : pay'[x] = pay[x]
    BY <1>0, <1>1 DEF SubscribeCommit, IInv, ExistsTogether, TypeOK
  <2> QED
    BY <1>0, <1>1, <2>1, LedgerKept DEF SubscribeCommit, Settled
<1>2. ASSUME NEW e \in Events, NEW o \in Orders, NEW txn \in Txns,
             \/ WebhookActivates(e, o, txn) \/ WebhookNeedsReconciliation(e, o, txn)
             \/ WebhookRepeatsSuccess(e, o, txn)
      PROVE  Ledger'
  BY <1>2, ActivatesLedger, AnsweredLedger
<1>3. ASSUME NEW e \in Events, NEW o \in Orders, NEW state \in {"failed", "expired"},
             NEW txn \in Txns \union {None},
             WebhookCloses(e, o, state, txn) \/ WebhookIgnored(e, o, state, txn)
      PROVE  Ledger'
  <2>1. /\ receipt[e] = None
        /\ receipt'[e].state # "success" /\ receipt'[e].outcome # "success"
        /\ \A d \in Events \ {e} : receipt'[d] = receipt[d]
    BY <1>0, <1>3 DEF WebhookCloses, WebhookIgnored, WebhookAccepted, StoreReceipt, TypeOK
  <2>2. /\ \A x \in Orders : Settled(pay[x]) => pay'[x] = pay[x]
        /\ \A x \in Orders : pay[x].status # "success" => pay'[x].status # "success"
    BY <1>0, <1>3, RowStatus
    DEF WebhookCloses, WebhookIgnored, ClosableByWebhook, Settled, TypeOK
  <2>3. outbox' = outbox
    BY <1>3 DEF WebhookCloses, WebhookIgnored
  <2> QED
    BY <1>0, <2>1, <2>2, <2>3, LedgerKept
<1>4. ASSUME NEW w \in Workers, NEW c \in job[w].todo, CloseCandidate(w, c) PROVE Ledger'
  <2>1. c[1] \in Orders /\ c[2] \in {"failed", "expired"}
    BY <1>0, <1>4 DEF CloseCandidate, TypeOK, Poll
  <2>2. /\ \A x \in Orders : Settled(pay[x]) => pay'[x] = pay[x]
        /\ \A x \in Orders : pay[x].status # "success" => pay'[x].status # "success"
    BY <1>0, <1>4, <2>1, RowStatus DEF CloseCandidate, StillClosable, Settled, TypeOK
  <2> QED
    BY <1>0, <1>4, <2>2, LedgerKept DEF CloseCandidate
<1>5. ASSUME NEW w \in Workers, RemindCommit(w) PROVE Ledger'
  <2>1. \A v \in outbox' \ outbox : v.type = "subscription.expiring"
    BY <1>5 DEF RemindCommit, ExpiringEvent
  <2> QED
    BY <1>0, <1>5, <2>1, LedgerKept DEF RemindCommit
<1>6. ASSUME UNCHANGED <<pay, receipt, outbox>> PROVE Ledger'
  BY <1>0, <1>6, LedgerKept
<1> QED
  BY <1>1, <1>2, <1>3, <1>4, <1>5, <1>6
  DEF Next, Purchase, Webhook, Maintenance, vars, SubscribeCheck, SubscribeAbort, SubscribeReplay,
      EnsureMockOrder, HandlerLost, PollStart, RemindScan, PollFails, ProviderDecides, PatchPlan,
      ExtendSubscription, Tick

(***************************************************************************)
(* Reminders.                                                              *)
(***************************************************************************)
LEMMA RemindersStep ==
  ASSUME PInv, [Next]_vars
  PROVE  Reminders'
<1> USE NoneAssumption
<1>0. Reminders
  BY DEF PInv
<1>1. ASSUME NEW w \in Workers, RemindCommit(w) PROVE Reminders'
  <2> DEFINE fresh == {o \in Orders : Remindable(o, w)}
  <2>1. /\ reminded' = reminded \union {<<o, sub[o].end>> : o \in fresh}
        /\ outbox' = outbox \union {ExpiringEvent(o, w) : o \in fresh}
    BY <1>1 DEF RemindCommit
  <2>2. \A o \in fresh : <<o, sub[o].end>> \notin reminded
    BY DEF Remindable
  <2>3. \A o : ExpiringEvent(o, w).order = o /\ ExpiringEvent(o, w).endAt = sub[o].end
    BY DEF ExpiringEvent
  <2> HIDE DEF fresh
  <2>4. RemindersRecorded'
    BY <1>0, <2>1, <2>3 DEF Reminders, RemindersRecorded
  <2>5. RemindedOnce'
    <3> SUFFICES ASSUME NEW v1 \in outbox', NEW v2 \in outbox',
                        v1.type = "subscription.expiring", v2.type = "subscription.expiring",
                        v1.order = v2.order, v1.endAt = v2.endAt
                 PROVE  v1 = v2
      BY DEF RemindedOnce
    <3>1. ASSUME NEW v \in outbox', v \notin outbox
          PROVE  \E o \in fresh : v = ExpiringEvent(o, w) /\ v.order = o /\ v.endAt = sub[o].end
      BY <2>1, <2>3, <3>1
    <3>2. \A v \in outbox : v.type = "subscription.expiring" => <<v.order, v.endAt>> \in reminded
      BY <1>0 DEF Reminders, RemindersRecorded
    <3>3. CASE v1 \in outbox /\ v2 \in outbox
      BY <1>0, <3>3 DEF Reminders, RemindedOnce
    <3>4. CASE v1 \notin outbox /\ v2 \notin outbox
      BY <3>1, <3>4
    <3>5. CASE v1 \in outbox /\ v2 \notin outbox
      BY <2>2, <3>1, <3>2, <3>5
    <3>6. CASE v1 \notin outbox /\ v2 \in outbox
      BY <2>2, <3>1, <3>2, <3>6
    <3> QED
      BY <3>3, <3>4, <3>5, <3>6
  <2> QED
    BY <2>4, <2>5 DEF Reminders
<1>2. ASSUME NEW type \in {"payment.success", "payment.reconciliation_required"},
             NEW o \in Orders, NEW version, NEW txn,
             outbox' = outbox \union {PaymentEvent(type, o, version, txn)}, reminded' = reminded
      PROVE  Reminders'
  <2>1. PaymentEvent(type, o, version, txn).type # "subscription.expiring"
    BY DEF PaymentEvent
  <2> QED
    BY <1>0, <1>2, <2>1, RemindersKept
<1>3. ASSUME NEW e \in Events, NEW o \in Orders, NEW txn \in Txns,
             WebhookActivates(e, o, txn) \/ WebhookNeedsReconciliation(e, o, txn)
      PROVE  Reminders'
  BY <1>2, <1>3 DEF WebhookActivates, WebhookNeedsReconciliation, jobVars
<1>4. ASSUME UNCHANGED <<outbox, reminded>> PROVE Reminders'
  BY <1>0, <1>4, RemindersKept
<1>5. CASE Purchase \/ UNCHANGED vars
  <2>1. UNCHANGED <<outbox, reminded>>
    BY <1>5 DEF Purchase, vars, jobVars, SubscribeCheck, SubscribeAbort, SubscribeReplay,
       SubscribeCommit, EnsureMockOrder, HandlerLost
  <2> QED
    BY <2>1, <1>4
<1>6. CASE Webhook
  BY <1>3, <1>4, <1>6 DEF Webhook, WebhookRepeatsSuccess, WebhookCloses, WebhookIgnored, jobVars
<1>7. CASE Maintenance
  BY <1>1, <1>4, <1>7 DEF Maintenance, PollStart, CloseCandidate, RemindScan, PollFails
<1>8. CASE ~(Purchase \/ Webhook \/ Maintenance)
  BY <1>4, <1>5, <1>8 DEF Next, ProviderDecides, PatchPlan, ExtendSubscription, Tick, jobVars
<1> QED
  BY <1>5, <1>6, <1>7, <1>8



(***************************************************************************)
(* The theorems.                                                           *)
(***************************************************************************)
THEOREM PurchaseInvariant == Spec => []PInv
<1>1. Init => PInv
  <2> SUFFICES ASSUME Init PROVE PInv
    OBVIOUS
  <2>1. Terms
    BY DEF Init, Terms, PendingIsNew, TermMatchesPurchase
  <2>2. Ledger
    BY DEF Init, Ledger, PaidByEvent, PaidNeverLost, OneOrNone, Activations, SuccessReceipts
  <2>3. Reminders
    BY DEF Init, Reminders, RemindersRecorded, RemindedOnce
  <2> QED
    BY <2>1, <2>2, <2>3, InvInit DEF PInv
<1>2. PInv /\ [Next]_vars => PInv'
  BY InvStep, TermsStep, LedgerStep, RemindersStep DEF PInv
<1> QED
  BY <1>1, <1>2, PTL DEF Spec

\* Money the provider reported is never lost.
THEOREM NothingPaidIsLost == Spec => []PaidNeverLost
<1>1. PInv => PaidNeverLost
  BY DEF PInv, Ledger
<1> QED
  BY <1>1, PurchaseInvariant, PTL

\* A paid order has one activation and one success receipt, another order none.
THEOREM PaidOnce == Spec => []ActivatedOnce
<1>1. PInv => ActivatedOnce
  <2> SUFFICES ASSUME PInv, NEW o \in Orders
               PROVE  LET expected == IF pay[o].status = "success" THEN 1 ELSE 0
                      IN  /\ Cardinality(Activations(o)) = expected
                          /\ Cardinality(SuccessReceipts(o)) = expected
    BY DEF ActivatedOnce, Activations, SuccessReceipts
  <2>1. \A S : Single(S) => Cardinality(S) = 1
    BY FS_Singleton DEF Single
  <2>2. \A S : S = {} => Cardinality(S) = 0
    BY FS_EmptySet
  <2> QED
    BY <2>1, <2>2 DEF PInv, Ledger, OneOrNone
<1> QED
  BY <1>1, PurchaseInvariant, PTL

\* A subscription runs for the duration bought and the extensions granted.
THEOREM TermAsBought == Spec => []TermMatchesPurchase
<1>1. PInv => TermMatchesPurchase
  BY DEF PInv, Terms
<1> QED
  BY <1>1, PurchaseInvariant, PTL

\* Any number of instances of the job remind a user once of each end.
THEOREM OneReminder == Spec => []RemindedOnce
<1>1. PInv => RemindedOnce
  BY DEF PInv, Reminders
<1> QED
  BY <1>1, PurchaseInvariant, PTL

\* A paid order stays paid by its transaction; what was closed is never opened again.
THEOREM NeverTakenBack == Spec => ForwardOnly
<1> DEFINE Forward ==
      \A o \in Orders :
        /\ pay[o].status = "success" => pay'[o].status = "success" /\ pay'[o].txn = pay[o].txn
        /\ sub[o].status \in {"cancelled", "expired"} => sub'[o].status = sub[o].status
        /\ sub[o].status = "active" => sub'[o].status \in {"active", "expired"}
<1>1. ASSUME IInv, [Next]_vars PROVE [Forward]_<<pay, sub>>
  <2> USE NoneAssumption
  <2>0. TypeOK
    BY <1>1 DEF IInv
  <2>1. ASSUME NEW o \in Orders, \A x \in Orders \ {o} : pay'[x] = pay[x] /\ sub'[x] = sub[x],
               pay[o].status # "success", sub[o].status \notin {"active", "cancelled", "expired"}
                                             \/ sub'[o].status = sub[o].status
        PROVE  Forward
    BY <2>1
  <2>2. ASSUME NEW c \in checking, NEW o \in Orders, SubscribeCommit(c, o) PROVE Forward
    <3>1. pay[o].status = "absent" /\ sub[o].status = "absent"
      BY <1>1, <2>2, StatusTable
      DEF SubscribeCommit, IInv, ExistsTogether, PaymentMatchesSubscription
    <3>2. \A x \in Orders \ {o} :
             /\ pay'[x] = pay[x]
             /\ \/ sub'[x] = sub[x]
                \/ sub[x].status = "active" /\ sub'[x].status = "expired"
      BY <2>0, <2>2, RowStatus DEF SubscribeCommit, Lapsed, TypeOK
    <3> QED
      BY <3>1, <3>2
  <2>3. ASSUME NEW e \in Events, NEW o \in Orders, NEW txn \in Txns, WebhookActivates(e, o, txn)
        PROVE  Forward
    BY <2>0, <2>1, <2>3 DEF WebhookActivates, Activatable, TypeOK
  <2>4. ASSUME NEW o \in Orders, sub' = [sub EXCEPT ![o] = Cancelled(@)],
               \A x \in Orders \ {o} : pay'[x] = pay[x], pay[o].status # "success"
        PROVE  Forward
    <3>1. sub'[o] = Cancelled(sub[o]) /\ \A x \in Orders \ {o} : sub'[x] = sub[x]
      BY <2>0, <2>4 DEF TypeOK
    <3>2. sub[o].status = "pending" \/ sub'[o].status = sub[o].status
      BY <3>1, RowStatus
    <3> QED
      BY <2>1, <2>4, <3>1, <3>2
  <2> HIDE DEF Forward
  <2>5. ASSUME NEW e \in Events, NEW o \in Orders, NEW txn \in Txns,
               WebhookNeedsReconciliation(e, o, txn)
        PROVE  Forward
    BY <2>0, <2>4, <2>5 DEF WebhookNeedsReconciliation, AlreadyPaid, TypeOK
  <2>6. ASSUME NEW e \in Events, NEW o \in Orders, NEW state \in {"failed", "expired"},
               NEW txn \in Txns \union {None}, WebhookCloses(e, o, state, txn)
        PROVE  Forward
    BY <2>0, <2>4, <2>6 DEF WebhookCloses, ClosableByWebhook, TypeOK
  <2>7. ASSUME UNCHANGED <<pay, sub>> PROVE Forward
    BY <2>7 DEF Forward
  <2>8. ASSUME NEW w \in Workers, NEW c \in job[w].todo, CloseCandidate(w, c) PROVE Forward
    <3>1. c[1] \in Orders
      BY <2>0, <2>8 DEF CloseCandidate, TypeOK, Poll
    <3>2. CASE StillClosable(c[1])
      BY <2>0, <2>4, <2>8, <3>1, <3>2 DEF CloseCandidate, StillClosable, TypeOK
    <3>3. CASE ~StillClosable(c[1])
      BY <2>0, <2>7, <2>8, <3>1, <3>3 DEF CloseCandidate, TypeOK
    <3> QED
      BY <3>2, <3>3
  <2>9. ASSUME NEW w \in Workers, RemindCommit(w) PROVE Forward
    <3>1. \A o \in Orders :
             sub'[o] = sub[o] \/ (sub[o].status = "active" /\ sub'[o].status = "expired")
      BY <2>9, RowStatus DEF RemindCommit, ExpiresAt, Lapsed
    <3> QED
      BY <2>9, <3>1 DEF Forward, RemindCommit
  <2>10. ASSUME NEW o \in Orders, ExtendSubscription(o) PROVE Forward
    BY <2>0, <2>10 DEF Forward, ExtendSubscription, Extendable, TypeOK
  <2>11. Forward
    BY <1>1, <2>2, <2>3, <2>5, <2>6, <2>7, <2>8, <2>9, <2>10
    DEF Next, Purchase, Webhook, Maintenance, vars, SubscribeCheck, SubscribeAbort,
        SubscribeReplay, EnsureMockOrder, HandlerLost, WebhookRepeatsSuccess, WebhookIgnored,
        PollStart, RemindScan, PollFails, ProviderDecides, PatchPlan, Tick
  <2> QED
    BY <2>11 DEF Forward
<1> QED
  BY <1>1, GuardInvariant, PTL DEF Spec, ForwardOnly
=============================================================================
