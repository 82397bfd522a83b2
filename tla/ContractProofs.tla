---------------------------- MODULE ContractProofs ----------------------------
(***************************************************************************)
(* The payment service implements PurchaseContract: under the mapping of   *)
(* Payment, every initial state of the service is one of the contract, and *)
(* every step of it is a step that the contract allows, or is not seen by  *)
(* the buyer at all.  The invariant is the one of PaymentProofs, and that  *)
(* no poll works with a clock ahead of time.                               *)
(***************************************************************************)
EXTENDS PaymentProofs

JobsLookBack == \A w \in Workers : job[w].at <= now

CInv == IInv /\ JobsLookBack

LEMMA JobsInit == Init => JobsLookBack
  BY DEF Init, JobsLookBack, Idle

LEMMA JobsStep == TypeOK /\ JobsLookBack /\ [Next]_vars => JobsLookBack'
<1> SUFFICES ASSUME TypeOK, JobsLookBack, [Next]_vars PROVE JobsLookBack'
  OBVIOUS
<1>1. now \in Nat /\ \A w \in Workers : job[w].at \in Nat
  BY DEF TypeOK, Poll
<1>2. CASE job' = job /\ (now' = now \/ now' = now + 1)
  BY <1>1, <1>2 DEF JobsLookBack
<1>3. ASSUME NEW w \in Workers, now' = now, job' = [job EXCEPT ![w] = job'[w]],
             job'[w].at \in {0, job[w].at, now}
      PROVE  JobsLookBack'
  BY <1>1, <1>3 DEF JobsLookBack, TypeOK
<1>4. ASSUME NEW w \in Workers, PollStart(w) PROVE JobsLookBack'
  BY <1>3, <1>4 DEF PollStart, TypeOK
<1>5. ASSUME NEW w \in Workers, NEW c \in job[w].todo, CloseCandidate(w, c) PROVE JobsLookBack'
  <2>1. job' = [job EXCEPT ![w].todo = @ \ {c}] /\ now' = now
    BY <1>5 DEF CloseCandidate
  <2>2. job'[w].at = job[w].at /\ job' = [job EXCEPT ![w] = job'[w]]
    BY <2>1 DEF TypeOK
  <2> QED
    BY <1>3, <2>1, <2>2
<1>6. ASSUME NEW w \in Workers, RemindScan(w) PROVE JobsLookBack'
  BY <1>3, <1>6 DEF RemindScan, TypeOK
<1>7. ASSUME NEW w \in Workers, RemindCommit(w) \/ PollFails(w) PROVE JobsLookBack'
  BY <1>3, <1>7 DEF RemindCommit, PollFails, TypeOK, Idle
<1>8. CASE Maintenance
  BY <1>4, <1>5, <1>6, <1>7, <1>8 DEF Maintenance
<1>9. CASE Purchase
  BY <1>2, <1>9 DEF Purchase, SubscribeCheck, SubscribeReplay, SubscribeCommit, SubscribeAbort,
     EnsureMockOrder, HandlerLost, jobVars
<1>10. CASE Webhook
  BY <1>2, <1>10 DEF Webhook, WebhookActivates, WebhookNeedsReconciliation,
     WebhookRepeatsSuccess, WebhookCloses, WebhookIgnored, jobVars
<1>11. ASSUME NEW o \in Orders, (\E s \in {"failed", "expired"} : ProviderDecides(o, s))
                                  \/ ExtendSubscription(o)
       PROVE  JobsLookBack'
  BY <1>2, <1>11 DEF ProviderDecides, ExtendSubscription, jobVars
<1>12. ASSUME NEW p \in Plans, NEW active \in BOOLEAN, PatchPlan(p, active) PROVE JobsLookBack'
  BY <1>2, <1>12 DEF PatchPlan, jobVars
<1>13. CASE Tick
  BY <1>2, <1>13 DEF Tick, jobVars
<1>14. CASE UNCHANGED vars
  BY <1>2, <1>14 DEF vars
<1> QED
  BY <1>8, <1>9, <1>10, <1>11, <1>12, <1>13, <1>14 DEF Next

(***************************************************************************)
(* The mapping: what a step that leaves an order alone leaves of its       *)
(* contract, and what an event adds to what was told.                      *)
(***************************************************************************)
LEMMA ContractInit == Init => Contract!Init
<1> SUFFICES ASSUME Init PROVE Contract!Init
  OBVIOUS
<1>1. \A o \in Orders : pay[o].status = "absent" /\ ~Created(o)
  BY DEF Init, Created
<1>2. Stages = [o \in Orders |-> "none"]
  BY <1>1 DEF Stages, Stage
<1>3. Buyers = [o \in Orders |-> None] /\ Bought = [o \in Orders |-> 0]
  BY <1>1 DEF Buyers, Bought
<1>4. Deadlines = [o \in Orders |-> 0] /\ Payers = [o \in Orders |-> None]
  BY <1>1 DEF Init, Deadlines, Payers
<1>5. Starts = [o \in Orders |-> 0] /\ Ends = [o \in Orders |-> 0]
  BY <1>1 DEF Init, Starts, Ends
<1>6. Told = {}
  BY DEF Init, Told, PaymentEvents
<1> QED
  BY <1>2, <1>3, <1>4, <1>5, <1>6 DEF Init, Contract!Init

\* A step that writes none of the rows the buyer sees.
LEMMA Unseen ==
    ASSUME UNCHANGED <<order, pay, sub, outbox, now>> PROVE UNCHANGED Contract!vars
<1>1. Stages' = Stages
  BY DEF Stages, Stage
<1>2. Buyers' = Buyers /\ Bought' = Bought
  BY DEF Buyers, Bought, Created
<1>3. /\ Deadlines' = Deadlines /\ Payers' = Payers
      /\ Starts' = Starts /\ Ends' = Ends
  BY DEF Deadlines, Payers, Starts, Ends, Created
<1>4. Told' = Told
  BY DEF Told, PaymentEvents
<1> QED
  BY <1>1, <1>2, <1>3, <1>4 DEF Contract!vars

\* A step of one order: the payment and the subscription of the others stay.
LEMMA OneOrder ==
  ASSUME TypeOK, NEW o \in Orders, Created(o), order' = order,
         pay' = [pay EXCEPT ![o] = pay'[o]], sub' = [sub EXCEPT ![o] = sub'[o]]
  PROVE  /\ Stages' = [Stages EXCEPT ![o] = Stage(o)']
         /\ Buyers' = Buyers /\ Bought' = Bought
         /\ Deadlines' = [Deadlines EXCEPT ![o] = pay'[o].expires]
         /\ Payers' = [Payers EXCEPT ![o] = pay'[o].txn]
         /\ Starts' = [Starts EXCEPT ![o] = sub'[o].start]
         /\ Ends' = [Ends EXCEPT ![o] = sub'[o].end]
<1>1. \A x \in Orders \ {o} : pay'[x] = pay[x] /\ sub'[x] = sub[x]
  BY DEF TypeOK
<1>2. Stages' = [Stages EXCEPT ![o] = Stage(o)']
  BY <1>1, ZenonT(40) DEF Stages, Stage
<1>3. Buyers' = Buyers /\ Bought' = Bought
  BY DEF Buyers, Bought, Created
<1>4. Deadlines' = [Deadlines EXCEPT ![o] = pay'[o].expires]
  BY <1>1 DEF Deadlines
<1>5. Payers' = [Payers EXCEPT ![o] = pay'[o].txn]
  BY <1>1 DEF Payers, Created
<1>6. Starts' = [Starts EXCEPT ![o] = sub'[o].start]
  BY <1>1 DEF Starts, Created
<1>7. Ends' = [Ends EXCEPT ![o] = sub'[o].end]
  BY <1>1 DEF Ends, Created
<1> QED
  BY <1>2, <1>3, <1>4, <1>5, <1>6, <1>7

LEMMA Tells ==
  ASSUME NEW v, v.type # "subscription.expiring", outbox' = outbox \union {v}
  PROVE  Told' = Told \union {<<v.type, v.order, v.txn>>}
<1>1. PaymentEvents' = PaymentEvents \union {v}
  BY DEF PaymentEvents
<1> QED
  BY <1>1 DEF Told

LEMMA TellsNothing ==
  ASSUME NEW reminders, \A v \in reminders : v.type = "subscription.expiring",
         outbox' = outbox \union reminders
  PROVE  Told' = Told
<1>1. PaymentEvents' = PaymentEvents
  BY DEF PaymentEvents
<1> QED
  BY <1>1 DEF Told

\* Another order with the same transaction would have refused the webhook.
LEMMA AcceptedIsFresh ==
  ASSUME NEW e \in Events, NEW o \in Orders, NEW txn \in Txns, WebhookAccepted(e, o, txn)
  PROVE  Contract!Fresh(o, txn)
  BY NoneAssumption DEF WebhookAccepted, Contract!Fresh, Payers, Created

(***************************************************************************)
(* The steps, each with the step of the contract that it is.               *)
(***************************************************************************)
LEMMA CommitAgrees ==
  ASSUME CInv, NEW c \in checking, NEW o \in Orders, SubscribeCommit(c, o)
  PROVE  Contract!Agree(o, c.user, {x \in Orders : OwnedBy(x, c.user) /\ Lapsed(x, c.at)})
<1> DEFINE over == {x \in Orders : OwnedBy(x, c.user) /\ Lapsed(x, c.at)}
<1> USE NoneAssumption, ConstantsAssumption
<1>1. /\ TypeOK /\ GuardHolder /\ ExistsTogether /\ PaymentMatchesSubscription
      /\ c \in Checked /\ c.at \in 0..now /\ now \in Nat /\ c.user \in Users
  BY DEF CInv, IInv, TypeOK, GuardHolder, Checked
<1>2. pay[o].status = "absent" /\ order[o] = None
  BY <1>1 DEF SubscribeCommit, ExistsTogether
<1>3. Stages[o] = "none"
  BY <1>2 DEF Stages, Stage
<1>4. \A x \in over : /\ x \in Orders \ {o} /\ sub[x].status = "active" /\ sub[x].end <= now
                      /\ pay[x].status = "success"
  <2> SUFFICES ASSUME NEW x \in over
               PROVE  /\ x \in Orders \ {o} /\ sub[x].status = "active" /\ sub[x].end <= now
                      /\ pay[x].status = "success"
    OBVIOUS
  <2>1. x # o /\ sub[x].status = "active" /\ sub[x].end <= c.at
    BY <1>2 DEF OwnedBy, Lapsed
  <2>2. sub[x].end \in Nat
    BY <1>1 DEF TypeOK, SubRow
  <2>3. pay[x].status = "success"
    BY <1>1, <2>1, StatusTable DEF PaymentMatchesSubscription, TypeOK, PayRow, PaymentStatus
  <2> QED
    BY <1>1, <2>1, <2>2, <2>3
<1>5. over \subseteq Contract!Over
  <2>1. \A x \in over : Stages[x] = "granted" /\ Ends[x] = sub[x].end
    BY <1>4 DEF Stages, Stage, Ends, OwnedBy, Created
  <2> QED
    BY <1>4, <2>1 DEF Contract!Over
<1>6. ASSUME NEW x \in Orders, Buyers[x] = c.user, Stages[x] \in {"ordered", "granted"}
      PROVE  x \in over
  <2>1. OwnedBy(x, c.user)
    BY <1>1, <1>6 DEF Buyers, OwnedBy, Created
  <2>2. sub[x].status \in OpenStatus
    <3>1. CASE pay[x].status = "pending"
      BY <1>1, <3>1, StatusTable DEF PaymentMatchesSubscription, OpenStatus
    <3>2. CASE pay[x].status = "success"
      BY <1>6, <3>2 DEF Stages, Stage, OpenStatus
    <3> QED
      BY <1>6, <3>1, <3>2 DEF Stages, Stage
  <2> QED
    BY <1>1, <2>1, <2>2 DEF GuardHolder
<1>7. \A x \in Orders \ {o} : pay'[x] = pay[x] /\ order'[x] = order[x]
  BY <1>1 DEF SubscribeCommit, TypeOK
<1>8. /\ pay'[o].status = "pending" /\ pay'[o].txn = None /\ pay'[o].expires = c.at + TTL
      /\ order'[o] = [user |-> c.user, key |-> c.key, plan |-> c.plan, version |-> c.version]
  BY <1>1 DEF SubscribeCommit, TypeOK
<1>9. /\ sub'[o].status = "pending" /\ sub'[o].start = 0 /\ sub'[o].end = 0
      /\ \A x \in over : /\ sub'[x].status = "expired"
                         /\ sub'[x].start = sub[x].start /\ sub'[x].end = sub[x].end
      /\ \A x \in Orders \ {o} : x \notin over => sub'[x] = sub[x]
  BY <1>4 DEF SubscribeCommit, SubAs
<1>10. Stages' = [x \in Orders |-> IF x = o THEN "ordered"
                                   ELSE IF x \in over THEN "ended" ELSE Stages[x]]
  <2> HIDE DEF over
  <2>1. \A x \in Orders : Stage(x)' = IF x = o THEN "ordered"
                                      ELSE IF x \in over THEN "ended" ELSE Stage(x)
    <3>1. Stage(o)' = "ordered"
      BY <1>8 DEF Stage
    <3>2. \A x \in over : Stage(x)' = "ended" /\ x # o
      BY <1>4, <1>7, <1>9 DEF Stage
    <3>3. \A x \in Orders \ {o} : x \notin over => Stage(x)' = Stage(x)
      BY <1>7, <1>9 DEF Stage
    <3> QED
      BY <3>1, <3>2, <3>3
  <2> QED
    BY <2>1 DEF Stages
<1>11. order'[o] # None /\ order'[o].user = c.user /\ order'[o].version = c.version
  BY <1>1, <1>8 DEF Checked, OrderRecord
<1>12. Buyers' = [Buyers EXCEPT ![o] = c.user]
  BY <1>7, <1>11 DEF Buyers, Created
<1>13. Bought' = [Bought EXCEPT ![o] = Days[c.version]] /\ c.version \in PlanVersions
  BY <1>1, <1>7, <1>11 DEF Bought, Created, Checked
<1>14. Deadlines' = [Deadlines EXCEPT ![o] = c.at + TTL]
  BY <1>7, <1>8 DEF Deadlines
<1>15. \A x \in Orders \ {o} : sub'[x].start = sub[x].start /\ sub'[x].end = sub[x].end
  BY <1>9
<1>16. sub'[o].start = 0 /\ sub'[o].end = 0 /\ pay'[o].txn = None
  BY <1>8, <1>9
<1>17. Payers' = Payers
  BY <1>2, <1>7, <1>16 DEF Payers, Created
<1>18. Starts' = Starts /\ Ends' = Ends
  BY <1>2, <1>7, <1>11, <1>15, <1>16 DEF Starts, Ends, Created
<1>19. Told' = Told /\ now' = now
  BY DEF SubscribeCommit, Told, PaymentEvents
<1> HIDE DEF over
<1>20. /\ \E asked \in 0..now : Deadlines' = [Deadlines EXCEPT ![o] = asked + TTL]
       /\ \E bought \in {Days[v] : v \in PlanVersions} : Bought' = [Bought EXCEPT ![o] = bought]
  BY <1>1, <1>13, <1>14
<1>21. Contract!Agree(o, c.user, over)
  BY <1>3, <1>5, <1>6, <1>10, <1>12, <1>17, <1>18, <1>19, <1>20
     DEF Contract!Agree, Contract!access
<1> QED
  BY <1>21 DEF over

LEMMA ActivationGrants ==
  ASSUME CInv, NEW e \in Events, NEW o \in Orders, NEW txn \in Txns, WebhookActivates(e, o, txn)
  PROVE  Contract!Grant(o, txn)
<1> USE NoneAssumption
<1>1. TypeOK /\ Created(o)
  BY DEF CInv, IInv, WebhookActivates, WebhookAccepted, Created
<1>2. /\ pay[o].status = "pending" /\ now < pay[o].expires /\ now' = now
      /\ order' = order
  BY <1>1 DEF WebhookActivates, Activatable, TypeOK, PayRow, orderVars
<1>3. /\ sub' = [sub EXCEPT ![o] = sub'[o]] /\ sub'[o].status = "active"
      /\ sub'[o].start = now /\ sub'[o].end = now + Term(o)
  BY <1>1 DEF WebhookActivates, TypeOK
<1>4. /\ pay' = [pay EXCEPT ![o] = pay'[o]] /\ pay'[o].status = "success"
      /\ pay'[o].txn = txn /\ pay'[o].expires = pay[o].expires
  BY <1>1 DEF WebhookActivates, PayAs, TypeOK
<1>5. Stages[o] = "ordered" /\ Stage(o)' = "granted"
  BY <1>2, <1>3, <1>4 DEF Stages, Stage
<1>6. Deadlines[o] = pay[o].expires /\ Bought[o] = Term(o)
  BY <1>1 DEF Deadlines, Bought, Term
<1>7. [Deadlines EXCEPT ![o] = pay'[o].expires] = Deadlines
  BY <1>4, <1>6 DEF Deadlines
<1>8. Told' = Told \union {<<"payment.success", o, None>>}
  <2> DEFINE v == PaymentEvent("payment.success", o, sub[o].version + 1, None)
  <2>1. outbox' = outbox \union {v}
    BY DEF WebhookActivates
  <2>2. v.type = "payment.success" /\ v.order = o /\ v.txn = None
    BY DEF PaymentEvent
  <2> HIDE DEF v
  <2> QED
    BY <2>1, <2>2, Tells
<1>9. Contract!Fresh(o, txn)
  BY AcceptedIsFresh DEF WebhookActivates
<1> QED
  BY <1>1, <1>2, <1>3, <1>4, <1>5, <1>6, <1>7, <1>8, <1>9, OneOrder
     DEF Contract!Grant, Contract!promise

\* The subscription of an order that closes begins and ends when it did.
LEMMA CancelledTimes ==
  ASSUME NEW s PROVE Cancelled(s).start = s.start /\ Cancelled(s).end = s.end
  BY DEF Cancelled, SubAs

\* Where a success finds an order that it cannot activate: closed, disputed, or out of time.
\* Its own subscription is pending while its payment is, and the user has no other.
LEMMA TooLate ==
  ASSUME IInv, NEW o \in Orders, Created(o), ~AlreadyPaid(o), ~Activatable(o)
  PROVE  \/ Stages[o] \in {"closed", "disputed"}
         \/ Stages[o] = "ordered" /\ Deadlines[o] <= now
<1>1. /\ pay[o].status \in PaymentStatus \ {"absent", "success"}
      /\ pay[o].expires \in Nat /\ now \in Nat
  BY DEF IInv, TypeOK, PayRow, ExistsTogether, Created, AlreadyPaid
<1>2. CASE pay[o].status # "pending"
  BY <1>1, <1>2 DEF Stages, Stage, PaymentStatus
<1>3. CASE pay[o].status = "pending"
  <2>1. sub[o].status = "pending"
    BY <1>3, StatusTable DEF IInv, PaymentMatchesSubscription
  <2>2. ~HasOtherActive(o)
    BY <2>1 DEF IInv, OneOpenOrderPerUser, HasOtherActive, OwnedBy, OpenStatus, Created
  <2> QED
    BY <1>1, <1>3, <2>1, <2>2 DEF Activatable, Stages, Stage, Deadlines
<1> QED
  BY <1>2, <1>3

LEMMA ReconciliationDisputes ==
  ASSUME CInv, NEW e \in Events, NEW o \in Orders, NEW txn \in Txns,
         WebhookNeedsReconciliation(e, o, txn)
  PROVE  Contract!Dispute(o, txn)
<1> USE NoneAssumption
<1>1. TypeOK /\ IInv /\ Created(o)
  BY DEF CInv, IInv, WebhookNeedsReconciliation, WebhookAccepted, Created
<1>2. now' = now /\ order' = order
  BY DEF WebhookNeedsReconciliation, orderVars
<1>3. /\ sub' = [sub EXCEPT ![o] = sub'[o]]
      /\ sub'[o].start = sub[o].start /\ sub'[o].end = sub[o].end
  <2>1. sub' = [sub EXCEPT ![o] = Cancelled(@)]
    BY DEF WebhookNeedsReconciliation
  <2> QED
    BY <1>1, <2>1, CancelledTimes DEF TypeOK
<1>4. /\ pay' = [pay EXCEPT ![o] = pay'[o]] /\ pay'[o].status = "reconciliation_required"
      /\ pay'[o].txn = txn /\ pay'[o].expires = pay[o].expires
  BY <1>1 DEF WebhookNeedsReconciliation, PayAs, TypeOK
<1>5. Stage(o)' = "disputed"
  BY <1>4 DEF Stage
<1>6. /\ [Deadlines EXCEPT ![o] = pay'[o].expires] = Deadlines
      /\ [Starts EXCEPT ![o] = sub'[o].start] = Starts
      /\ [Ends EXCEPT ![o] = sub'[o].end] = Ends
  BY <1>1, <1>3, <1>4 DEF Deadlines, Starts, Ends
<1>7. Told' = Told \union {<<"payment.reconciliation_required", o, txn>>}
  <2> DEFINE v == PaymentEvent("payment.reconciliation_required", o, pay[o].version + 1, txn)
  <2>1. outbox' = outbox \union {v}
    BY DEF WebhookNeedsReconciliation
  <2>2. v.type = "payment.reconciliation_required" /\ v.order = o /\ v.txn = txn
    BY DEF PaymentEvent
  <2> HIDE DEF v
  <2> QED
    BY <2>1, <2>2, Tells
<1>8. Contract!Fresh(o, txn)
  BY AcceptedIsFresh DEF WebhookNeedsReconciliation
<1>9. \/ Stages[o] \in {"closed", "disputed"}
      \/ Stages[o] = "ordered" /\ Deadlines[o] <= now
  BY <1>1, TooLate DEF WebhookNeedsReconciliation
<1> QED
  BY <1>1, <1>2, <1>3, <1>4, <1>5, <1>6, <1>7, <1>8, <1>9, OneOrder
     DEF Contract!Dispute, Contract!promise

\* A pending order that is closed, by a webhook or by a poll.
ClosesAs(o, status) ==
    /\ pay[o].status = "pending"
    /\ pay' = [pay EXCEPT ![o] = PayAs(@, status, @.txn)]
    /\ sub' = [sub EXCEPT ![o] = Cancelled(@)]
    /\ UNCHANGED <<order, outbox, now>>

LEMMA ClosingCloses ==
  ASSUME CInv, NEW o \in Orders, NEW status \in {"failed", "expired"}, Created(o),
         ClosesAs(o, status)
  PROVE  Contract!Close(o)
<1>1. TypeOK
  BY DEF CInv, IInv
<1>2. /\ sub' = [sub EXCEPT ![o] = sub'[o]]
      /\ sub'[o].start = sub[o].start /\ sub'[o].end = sub[o].end
  BY <1>1, CancelledTimes DEF TypeOK, ClosesAs
<1>3. /\ pay' = [pay EXCEPT ![o] = pay'[o]] /\ pay'[o].status = status
      /\ pay'[o].txn = pay[o].txn /\ pay'[o].expires = pay[o].expires
  BY <1>1 DEF PayAs, TypeOK, ClosesAs
<1>4. Stages[o] = "ordered" /\ Stage(o)' = "closed"
  BY <1>3 DEF ClosesAs, Stages, Stage
<1>5. /\ [Deadlines EXCEPT ![o] = pay'[o].expires] = Deadlines
      /\ [Starts EXCEPT ![o] = sub'[o].start] = Starts
      /\ [Ends EXCEPT ![o] = sub'[o].end] = Ends
  BY <1>2, <1>3 DEF Deadlines, Starts, Ends
<1>6. [Payers EXCEPT ![o] = pay'[o].txn] = Payers
  BY <1>3 DEF Payers
<1>7. Told' = Told /\ order' = order /\ now' = now
  BY DEF ClosesAs, Told, PaymentEvents
<1> QED
  BY <1>1, <1>2, <1>3, <1>4, <1>5, <1>6, <1>7, OneOrder
     DEF Contract!Close, Contract!promise, Contract!access

LEMMA CandidateCloses ==
  ASSUME CInv, NEW w \in Workers, NEW c \in job[w].todo, CloseCandidate(w, c)
  PROVE  Contract!Close(c[1]) \/ UNCHANGED Contract!vars
<1>1. c[1] \in Orders /\ c[2] \in {"failed", "expired"} /\ TypeOK
  BY DEF CInv, IInv, TypeOK, Poll
<1>2. CASE StillClosable(c[1])
  <2>1. ClosesAs(c[1], c[2]) /\ Created(c[1])
    BY <1>2 DEF CloseCandidate, StillClosable, ClosesAs, Created, orderVars
  <2> QED
    BY <1>1, <2>1, ClosingCloses
<1>3. CASE ~StillClosable(c[1])
  <2>1. pay' = pay /\ sub' = sub /\ UNCHANGED <<order, outbox, now>>
    BY <1>1, <1>3 DEF CloseCandidate, TypeOK, orderVars
  <2> QED
    BY <2>1, Unseen
<1> QED
  BY <1>2, <1>3

LEMMA ExtensionExtends ==
  ASSUME CInv, NEW o \in Orders, ExtendSubscription(o)
  PROVE  Contract!Extend(o)
<1>1. TypeOK /\ sub[o].status = "active" /\ now < sub[o].end
  BY DEF CInv, IInv, ExtendSubscription, Extendable, TypeOK, SubRow
<1>2. pay[o].status = "success" /\ Created(o)
  BY <1>1, StatusTable DEF CInv, IInv, PaymentMatchesSubscription, ExistsTogether, Created,
     TypeOK, PayRow, PaymentStatus
<1>3. UNCHANGED <<order, pay, outbox, now>>
  BY DEF ExtendSubscription, orderVars
<1>4. /\ sub' = [sub EXCEPT ![o] = sub'[o]] /\ sub'[o].status = "active"
      /\ sub'[o].start = sub[o].start /\ sub'[o].end = sub[o].end + 1
  BY <1>1 DEF ExtendSubscription, TypeOK
<1>5. Stages[o] = "granted" /\ Stage(o)' = "granted"
  BY <1>1, <1>2, <1>3, <1>4 DEF Stages, Stage
<1>6. pay' = [pay EXCEPT ![o] = pay'[o]]
  BY <1>1, <1>3 DEF TypeOK
<1>7. /\ [Stages EXCEPT ![o] = Stage(o)'] = Stages
      /\ [Deadlines EXCEPT ![o] = pay'[o].expires] = Deadlines
      /\ [Payers EXCEPT ![o] = pay'[o].txn] = Payers
      /\ [Starts EXCEPT ![o] = sub'[o].start] = Starts
      /\ Ends[o] = sub[o].end
  BY <1>2, <1>3, <1>4, <1>5 DEF Stages, Deadlines, Payers, Starts, Ends
<1>8. Told' = Told
  BY <1>3 DEF Told, PaymentEvents
<1> QED
  BY <1>1, <1>2, <1>3, <1>4, <1>5, <1>6, <1>7, <1>8, OneOrder
     DEF Contract!Extend, Contract!promise

LEMMA ExpiryEnds ==
  ASSUME CInv, NEW w \in Workers, RemindCommit(w)
  PROVE  Contract!End({x \in Orders : ExpiresAt(x, job[w].at)})
<1> DEFINE over == {x \in Orders : ExpiresAt(x, job[w].at)}
           fresh == {o \in Orders : Remindable(o, w)}
<1>1. /\ TypeOK /\ PaymentMatchesSubscription /\ ExistsTogether
      /\ job[w].at \in Nat /\ now \in Nat /\ job[w].at <= now
  BY DEF CInv, IInv, JobsLookBack, TypeOK, Poll
<1>2. UNCHANGED <<order, pay, now>>
  BY DEF RemindCommit, orderVars
<1>3. \A x \in over : /\ x \in Orders /\ sub[x].status = "active" /\ sub[x].end <= now
                      /\ pay[x].status = "success" /\ Created(x)
  <2> SUFFICES ASSUME NEW x \in over
               PROVE  /\ sub[x].status = "active" /\ sub[x].end <= now
                      /\ pay[x].status = "success" /\ Created(x)
    OBVIOUS
  <2>1. sub[x].status = "active" /\ sub[x].end <= job[w].at
    BY DEF ExpiresAt, Lapsed
  <2>2. sub[x].end \in Nat
    BY <1>1 DEF TypeOK, SubRow
  <2>3. pay[x].status = "success" /\ Created(x)
    BY <1>1, <2>1, StatusTable DEF PaymentMatchesSubscription, ExistsTogether, Created,
       TypeOK, PayRow, PaymentStatus
  <2> QED
    BY <1>1, <2>1, <2>2, <2>3
<1>4. /\ \A x \in over : /\ sub'[x].status = "expired"
                         /\ sub'[x].start = sub[x].start /\ sub'[x].end = sub[x].end
      /\ \A x \in Orders : x \notin over => sub'[x] = sub[x]
  BY DEF RemindCommit, SubAs
<1>5. \A v \in {ExpiringEvent(o, w) : o \in fresh} : v.type = "subscription.expiring"
  BY DEF ExpiringEvent
<1>6. outbox' = outbox \union {ExpiringEvent(o, w) : o \in fresh}
  BY DEF RemindCommit
<1>7. Told' = Told
  BY <1>5, <1>6, TellsNothing
<1> HIDE DEF over
<1>8. over \subseteq Contract!Over
  <2>1. \A x \in over : Stages[x] = "granted" /\ Ends[x] = sub[x].end
    BY <1>3 DEF Stages, Stage, Ends
  <2> QED
    BY <1>3, <2>1 DEF Contract!Over
<1>9. Stages' = [x \in Orders |-> IF x \in over THEN "ended" ELSE Stages[x]]
  <2>1. \A x \in over : Stage(x)' = "ended"
    BY <1>2, <1>3, <1>4 DEF Stage
  <2>2. \A x \in Orders : x \notin over => Stage(x)' = Stage(x)
    BY <1>2, <1>4 DEF Stage
  <2> QED
    BY <2>1, <2>2 DEF Stages
<1>10. /\ Buyers' = Buyers /\ Bought' = Bought /\ Deadlines' = Deadlines /\ Payers' = Payers
  BY <1>2 DEF Buyers, Bought, Deadlines, Payers, Created
<1>11. \A x \in Orders : sub'[x].start = sub[x].start /\ sub'[x].end = sub[x].end
  BY <1>4
<1>12. Starts' = Starts /\ Ends' = Ends
  BY <1>2, <1>11 DEF Starts, Ends, Created
<1>13. Contract!End(over)
  BY <1>2, <1>7, <1>8, <1>9, <1>10, <1>12 DEF Contract!End, Contract!promise, Contract!access
<1> QED
  BY <1>13 DEF over

LEMMA TimePasses == ASSUME Tick PROVE Contract!Tick
<1>1. UNCHANGED <<order, pay, sub, outbox>> /\ now' = now + 1
  BY DEF Tick, orderVars
<1>2. Stages' = Stages
  BY <1>1 DEF Stages, Stage
<1>3. UNCHANGED <<Buyers, Bought, Deadlines, Payers, Starts, Ends>>
  BY <1>1 DEF Buyers, Bought, Deadlines, Payers, Starts, Ends, Created
<1>4. Told' = Told
  BY <1>1 DEF Told, PaymentEvents
<1> QED
  BY <1>1, <1>2, <1>3, <1>4 DEF Contract!Tick, Contract!promise, Contract!access

(***************************************************************************)
(* The refinement.                                                         *)
(***************************************************************************)
LEMMA ContractStep == CInv /\ [Next]_vars => [Contract!Next]_Contract!vars
<1> SUFFICES ASSUME CInv, [Next]_vars PROVE Contract!Next \/ UNCHANGED Contract!vars
  OBVIOUS
<1> USE DEF Contract!Next
<1>1. ASSUME NEW c \in checking, NEW o \in Orders, SubscribeCommit(c, o) PROVE Contract!Next
  <2> DEFINE over == {x \in Orders : OwnedBy(x, c.user) /\ Lapsed(x, c.at)}
  <2>1. Contract!Agree(o, c.user, over)
    BY <1>1, CommitAgrees
  <2>2. c.user \in Users
    BY DEF CInv, IInv, TypeOK, Checked
  <2> HIDE DEF over
  <2>3. over \in SUBSET Contract!Over
    BY <2>1 DEF Contract!Agree
  <2> QED
    BY <2>1, <2>2, <2>3
<1>2. CASE Purchase
  BY <1>1, <1>2, Unseen DEF Purchase, SubscribeCheck, SubscribeReplay, SubscribeAbort,
     EnsureMockOrder, HandlerLost, orderVars
<1>3. ASSUME NEW e \in Events, NEW o \in Orders, NEW txn \in Txns,
             \/ WebhookActivates(e, o, txn)
             \/ WebhookNeedsReconciliation(e, o, txn)
             \/ WebhookRepeatsSuccess(e, o, txn)
      PROVE  Contract!Next \/ UNCHANGED Contract!vars
  <2>1. CASE WebhookActivates(e, o, txn)
    BY <2>1, ActivationGrants
  <2>2. CASE WebhookNeedsReconciliation(e, o, txn)
    BY <2>2, ReconciliationDisputes
  <2>3. CASE WebhookRepeatsSuccess(e, o, txn)
    BY <2>3, Unseen DEF WebhookRepeatsSuccess, orderVars
  <2> QED
    BY <1>3, <2>1, <2>2, <2>3
<1>4. ASSUME NEW e \in Events, NEW o \in Orders, NEW state \in {"failed", "expired"},
             NEW txn \in Txns \union {None},
             WebhookCloses(e, o, state, txn) \/ WebhookIgnored(e, o, state, txn)
      PROVE  Contract!Next \/ UNCHANGED Contract!vars
  <2>1. CASE WebhookCloses(e, o, state, txn)
    <3>1. ClosesAs(o, state) /\ Created(o)
      BY <2>1 DEF WebhookCloses, WebhookAccepted, ClosableByWebhook, ClosesAs, Created, orderVars
    <3> QED
      BY <3>1, ClosingCloses
  <2>2. CASE WebhookIgnored(e, o, state, txn)
    BY <2>2, Unseen DEF WebhookIgnored, orderVars
  <2> QED
    BY <1>4, <2>1, <2>2
<1>5. CASE Webhook
  BY <1>3, <1>4, <1>5 DEF Webhook
<1>6. ASSUME NEW w \in Workers, NEW c \in job[w].todo, CloseCandidate(w, c)
      PROVE  Contract!Next \/ UNCHANGED Contract!vars
  <2>1. c[1] \in Orders
    BY DEF CInv, IInv, TypeOK, Poll
  <2> QED
    BY <1>6, <2>1, CandidateCloses
<1>7. ASSUME NEW w \in Workers, RemindCommit(w) PROVE Contract!Next
  <2> DEFINE over == {x \in Orders : ExpiresAt(x, job[w].at)}
  <2>1. Contract!End(over)
    BY <1>7, ExpiryEnds
  <2> HIDE DEF over
  <2>2. over \in SUBSET Contract!Over
    BY <2>1 DEF Contract!End
  <2> QED
    BY <2>1, <2>2
<1>8. CASE Maintenance
  BY <1>6, <1>7, <1>8, Unseen DEF Maintenance, PollStart, RemindScan, PollFails, orderVars
<1>9. ASSUME NEW o \in Orders, ExtendSubscription(o) PROVE Contract!Next
  BY <1>9, ExtensionExtends
<1>10. ASSUME NEW o \in Orders, NEW s \in {"failed", "expired"}, ProviderDecides(o, s)
       PROVE  UNCHANGED Contract!vars
  BY <1>10, Unseen DEF ProviderDecides, orderVars
<1>11. ASSUME NEW p \in Plans, NEW active \in BOOLEAN, PatchPlan(p, active)
       PROVE  UNCHANGED Contract!vars
  BY <1>11, Unseen DEF PatchPlan, orderVars
<1>12. CASE Tick
  BY <1>12, TimePasses
<1>13. CASE UNCHANGED vars
  BY <1>13, Unseen DEF vars
<1> QED
  BY <1>2, <1>5, <1>8, <1>9, <1>10, <1>11, <1>12, <1>13 DEF Next

\* The clock of a poll is never ahead of the service's: with the invariant of
\* PaymentProofs, this is what the refinement stands on.
THEOREM JobsInvariant == Spec => []JobsLookBack
<1>1. Init => JobsLookBack
  BY JobsInit
<1>2. TypeOK /\ JobsLookBack /\ [Next]_vars => JobsLookBack'
  BY JobsStep
<1> QED
  BY <1>1, <1>2, TypeCorrect, PTL DEF Spec

\* The payment service keeps the purchase contract (KeepsContract) for every number of
\* users, orders, transactions, workers and plan versions, with no bound on time.
THEOREM PurchaseContractKept == Spec => KeepsContract
<1>1. Init => Contract!Init
  BY ContractInit
<1>2. IInv /\ JobsLookBack /\ [Next]_vars => [Contract!Next]_Contract!vars
  BY ContractStep DEF CInv
<1> QED
  BY <1>1, <1>2, GuardInvariant, JobsInvariant, PTL DEF Spec, KeepsContract, Contract!Spec
=============================================================================
