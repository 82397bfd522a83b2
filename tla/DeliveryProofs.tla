---------------------------- MODULE DeliveryProofs ----------------------------
(***************************************************************************)
(* Theorems of Delivery, for any profiles, events, publishers, notifiers,  *)
(* batch sizes and limits: the quota of profiles, what a publisher may     *)
(* say, and that every step is a step, or a stutter, of EventDelivery.     *)
(***************************************************************************)
EXTENDS Delivery, TLAPS, FiniteSetTheorems

(***************************************************************************)
(* The inductive invariant, in three parts.                                *)
(***************************************************************************)
\* A transaction of create that has counted keeps room for what it inserts, alone.
Quota ==
    /\ IsFiniteSet(ActiveProfiles)
    /\ counted \in {0, 1}
    /\ Cardinality(ActiveProfiles) + counted <= ActiveProfileLimit

\* What is claimed or sent was committed, and what is being marked was sent.
Backed ==
    /\ log \subseteq Committed
    /\ \A p \in Publishers : batch[p] \subseteq Committed /\ sent[p] \subseteq log
    /\ PublishedIsSent

\* The inboxes know which events have taken effect.
Effective ==
    /\ \A e \in Notices : effects[<<"notification", e>>] = IF e \in inbox THEN 1 ELSE 0
    /\ \A e \in Recommended : effects[<<"recommendation", e>>] = IF e \in processed THEN 1 ELSE 0

IInv == TypeOK /\ Quota /\ Backed /\ Effective

(***************************************************************************)
(* The outbox.                                                             *)
(***************************************************************************)
\* A business transaction adds its event to what was committed, and disturbs no publisher.
LEMMA WriteStep ==
  ASSUME OutboxTypeOK, Backed, NEW e \in Events, WriteEvent(e), UNCHANGED <<batch, sent, log, faults>>
  PROVE  OutboxTypeOK' /\ Backed' /\ Committed' = Committed \union {e}
<1>1. OutboxTypeOK'
  BY DEF OutboxTypeOK, WriteEvent
<1>2. Committed' = Committed \union {e}
  BY DEF OutboxTypeOK, WriteEvent, Committed
<1>3. PublishedIsSent'
  BY DEF OutboxTypeOK, WriteEvent, Backed, PublishedIsSent
<1> QED
  BY <1>1, <1>2, <1>3 DEF Backed

\* A publisher commits nothing and forgets nothing.
LEMMA PublishCommits ==
  ASSUME OutboxTypeOK, Backed, NEW p \in Publishers, Publish(p) \/ PublisherFails(p)
  PROVE  Committed' = Committed
<1>1. ASSUME NEW taken \in SUBSET OwnEvents(p), ClaimBatch(p, taken)
      PROVE Committed' = Committed
  BY <1>1 DEF OutboxTypeOK, ClaimBatch, Committed
<1>2. ASSUME NEW e \in batch[p], SendEvent(p, e)
      PROVE Committed' = Committed
  BY <1>2 DEF SendEvent, Committed
<1>3. ASSUME MarkPublished(p)
      PROVE Committed' = Committed
  BY <1>3 DEF OutboxTypeOK, Backed, MarkPublished, Committed
<1>4. ASSUME PublisherFails(p)
      PROVE Committed' = Committed
  BY <1>4 DEF OutboxTypeOK, PublisherFails, Reschedule, UnlockAll, PublisherStops, Released, Committed
<1> QED
  BY <1>1, <1>2, <1>3, <1>4 DEF Publish

\* Whatever a publisher does or suffers, it marks only what it has sent.
LEMMA PublisherKeeps ==
  ASSUME OutboxTypeOK, Backed, NEW p \in Publishers, Publish(p) \/ PublisherFails(p)
  PROVE  OutboxTypeOK' /\ Backed'
<1>0. Committed' = Committed
  BY PublishCommits
<1>1. ASSUME NEW taken \in SUBSET OwnEvents(p), ClaimBatch(p, taken)
      PROVE OutboxTypeOK' /\ Backed'
  <2>1. OutboxTypeOK'
    BY <1>1 DEF OutboxTypeOK, ClaimBatch, OwnEvents
  <2>2. PublishedIsSent'
    BY <1>1 DEF OutboxTypeOK, ClaimBatch, Backed, PublishedIsSent
  <2>3. taken \subseteq Committed
    BY <1>1 DEF ClaimBatch, Committed, OwnEvents
  <2> QED
    BY <1>0, <1>1, <2>1, <2>2, <2>3 DEF OutboxTypeOK, ClaimBatch, Backed
<1>2. ASSUME NEW e \in batch[p], SendEvent(p, e)
      PROVE OutboxTypeOK' /\ Backed'
  <2>1. e \in Events /\ e \in Committed
    BY DEF OutboxTypeOK, Backed
  <2> QED
    BY <1>0, <1>2, <2>1 DEF OutboxTypeOK, SendEvent, Backed, PublishedIsSent
<1>3. ASSUME MarkPublished(p)
      PROVE OutboxTypeOK' /\ Backed'
  <2>1. OutboxTypeOK'
    BY <1>3 DEF OutboxTypeOK, MarkPublished
  <2>2. PublishedIsSent'
    BY <1>3 DEF OutboxTypeOK, MarkPublished, Backed, PublishedIsSent
  <2> QED
    BY <1>0, <1>3, <2>1, <2>2 DEF OutboxTypeOK, MarkPublished, Backed
<1>4. ASSUME PublisherFails(p)
      PROVE OutboxTypeOK' /\ Backed'
  <2>1. OutboxTypeOK'
    BY <1>4, OutboxAssumption
    DEF OutboxTypeOK, PublisherFails, Reschedule, UnlockAll, PublisherStops, Released, LetGo, Fault
  <2>2. PublishedIsSent'
    BY <1>4 DEF OutboxTypeOK, PublisherFails, Reschedule, UnlockAll, PublisherStops, Released,
                Backed, PublishedIsSent
  <2>3. log' = log /\ LetGo(p)
    BY <1>4 DEF PublisherFails, Reschedule, UnlockAll, PublisherStops
  <2> QED
    BY <1>0, <2>1, <2>2, <2>3 DEF OutboxTypeOK, LetGo, Backed
<1> QED
  BY <1>1, <1>2, <1>3, <1>4 DEF Publish

\* A lease that lapses makes its row free again, and no more.
LEMMA LeaseKeeps ==
  ASSUME OutboxTypeOK, Backed, NEW e \in Events, LeaseLapses(e)
  PROVE  OutboxTypeOK' /\ Backed' /\ Committed' = Committed
<1>1. OutboxTypeOK'
  BY OutboxAssumption DEF OutboxTypeOK, LeaseLapses, Fault
<1>2. Committed' = Committed
  BY DEF OutboxTypeOK, LeaseLapses, Committed
<1>3. PublishedIsSent'
  BY DEF OutboxTypeOK, LeaseLapses, Backed, PublishedIsSent
<1> QED
  BY <1>1, <1>2, <1>3 DEF Backed, LeaseLapses

(***************************************************************************)
(* Profiles.                                                               *)
(***************************************************************************)
\* Profiles that stay as they are stay within the quota; so do those of which one is deleted.
LEMMA QuotaStays ==
  ASSUME Quota, ProfilesTypeOK, ActiveProfiles' = ActiveProfiles, counted' \in {0, counted}
  PROVE  Quota'
<1>1. Cardinality(ActiveProfiles) \in Nat
  BY FS_CardinalityType DEF Quota
<1> QED
  BY <1>1, ProfilesAssumption DEF Quota

\* The steps of the profile service that change no outbox row.
LEMMA ManageKeeps ==
  ASSUME ProfilesTypeOK, Quota, ManageProfiles
  PROVE  ProfilesTypeOK' /\ Quota'
<1>0. Cardinality(ActiveProfiles) \in Nat
  BY FS_CardinalityType DEF Quota
<1>1. ASSUME CreateCount
      PROVE ProfilesTypeOK' /\ Quota'
  <2>1. ActiveProfiles' = ActiveProfiles
    BY <1>1 DEF CreateCount, ActiveProfiles
  <2>2. counted' = 1 /\ Cardinality(ActiveProfiles) < ActiveProfileLimit
    BY <1>1 DEF CreateCount, QuotaFree
  <2> QED
    BY <1>0, <1>1, <2>1, <2>2, ProfilesAssumption DEF CreateCount, ProfilesTypeOK, Quota
<1>2. ASSUME NEW p \in Profiles, NEW kind \in Active, CreateInsert(p, kind)
      PROVE ProfilesTypeOK' /\ Quota'
  <2>1. ActiveProfiles' = ActiveProfiles \union {p} /\ p \notin ActiveProfiles
    BY <1>2 DEF CreateInsert, ActiveProfiles, Active, ProfilesTypeOK
  <2>2. /\ IsFiniteSet(ActiveProfiles')
        /\ Cardinality(ActiveProfiles') = Cardinality(ActiveProfiles) + 1
    BY <2>1, FS_AddElement DEF Quota
  <2>3. counted = 1 /\ counted' = 0
    BY <1>2 DEF CreateInsert, Quota
  <2> QED
    BY <1>0, <1>2, <2>2, <2>3, ProfilesAssumption DEF CreateInsert, ProfilesTypeOK, Quota
<1>3. ASSUME CreateAborts
      PROVE ProfilesTypeOK' /\ Quota'
  <2>1. ActiveProfiles' = ActiveProfiles /\ counted' = 0
    BY <1>3 DEF CreateAborts, ActiveProfiles, Quota
  <2> QED
    BY <1>3, <2>1, QuotaStays DEF CreateAborts, ProfilesTypeOK
<1>4. ASSUME NEW p \in Profiles, NEW kind \in Active, UpdateProfile(p, kind)
      PROVE ProfilesTypeOK' /\ Quota'
  <2>1. ActiveProfiles' = ActiveProfiles
    BY <1>4 DEF UpdateProfile, ActiveProfiles, ProfilesTypeOK
  <2> QED
    BY <1>4, <2>1, QuotaStays DEF UpdateProfile, ProfilesTypeOK
<1>5. ASSUME NEW p \in Profiles, AddFavoriteCheck(p) \/ AddFavoriteInsert(p) \/ RemoveFavorite(p)
      PROVE ProfilesTypeOK' /\ Quota'
  <2>1. ActiveProfiles' = ActiveProfiles /\ counted' = counted /\ profile' = profile
    BY <1>5 DEF AddFavoriteCheck, AddFavoriteInsert, RemoveFavorite, ActiveProfiles
  <2>2. ProfilesTypeOK'
    BY <1>5, <2>1 DEF AddFavoriteCheck, AddFavoriteInsert, RemoveFavorite, ProfilesTypeOK
  <2> QED
    BY <2>1, <2>2, QuotaStays
<1> QED
  BY <1>1, <1>2, <1>3, <1>4, <1>5 DEF ManageProfiles

\* A deletion makes room.
LEMMA DeleteKeeps ==
  ASSUME ProfilesTypeOK, Quota, NEW p \in Profiles, DeleteProfile(p)
  PROVE  ProfilesTypeOK' /\ Quota'
<1>1. ActiveProfiles' = ActiveProfiles \ {p} /\ p \in ActiveProfiles
  BY DEF DeleteProfile, ActiveProfiles, Active, ProfilesTypeOK
<1>2. /\ IsFiniteSet(ActiveProfiles')
      /\ Cardinality(ActiveProfiles') = Cardinality(ActiveProfiles) - 1
  BY <1>1, FS_RemoveElement DEF Quota
<1>3. Cardinality(ActiveProfiles) \in Nat
  BY FS_CardinalityType DEF Quota
<1> QED
  BY <1>2, <1>3, ProfilesAssumption DEF DeleteProfile, ProfilesTypeOK, Quota

(***************************************************************************)
(* Notifications.                                                          *)
(***************************************************************************)
\* The delivery workers and the replay keep the rows well typed, and touch no inbox.
LEMMA NotifierKeeps ==
  ASSUME NotificationsTypeOK,
         \/ \E n \in Notifiers : NotifierStep(n) \/ NotifierFails(n)
         \/ \E d \in Deliveries : ReplayStep(d)
  PROVE  NotificationsTypeOK' /\ inbox' = inbox
<1>1. ASSUME NEW n \in Notifiers, NEW taken \in SUBSET Deliveries, ClaimDeliveries(n, taken)
      PROVE NotificationsTypeOK' /\ inbox' = inbox
  BY <1>1 DEF NotificationsTypeOK, ClaimDeliveries
<1>2. ASSUME NEW n \in Notifiers, NEW d \in working[n], Deliver(n, d)
      PROVE NotificationsTypeOK' /\ inbox' = inbox
  <2>1. Outcome(n, d) \in {"delivered", "dlq", "pending"}
    BY DEF Outcome
  <2> QED
    BY <1>2, <2>1 DEF NotificationsTypeOK, Deliver
<1>3. ASSUME NEW n \in Notifiers, NotifierStops(n)
      PROVE NotificationsTypeOK' /\ inbox' = inbox
  BY <1>3 DEF NotificationsTypeOK, NotifierStops
<1>4. ASSUME NEW d \in Deliveries, Replay(d)
      PROVE NotificationsTypeOK' /\ inbox' = inbox
  BY <1>4 DEF NotificationsTypeOK, Replay
<1> QED
  BY <1>1, <1>2, <1>3, <1>4 DEF NotifierStep, NotifierFails, ReplayStep

\* receive adds an event to the inbox, and its deliveries.
LEMMA ReceiveKeeps ==
  ASSUME NotificationsTypeOK, NEW e \in Notices, Receive(e)
  PROVE  NotificationsTypeOK'
  BY DEF NotificationsTypeOK, Receive

(***************************************************************************)
(* The invariant.                                                          *)
(***************************************************************************)
\* It holds of the empty databases.
LEMMA InvInit == Init => IInv
<1> SUFFICES ASSUME Init PROVE IInv
  OBVIOUS
<1>1. TypeOK
  BY OutboxAssumption, DeliveryAssumption
  DEF Init, ProfilesInit, OutboxInit, NotificationsInit,
      TypeOK, ProfilesTypeOK, OutboxTypeOK, NotificationsTypeOK
<1>2. Quota
  <2>1. ActiveProfiles = {}
    BY DEF Init, ProfilesInit, ActiveProfiles, Active
  <2> QED
    BY <2>1, FS_EmptySet, ProfilesAssumption DEF Init, ProfilesInit, Quota
<1>3. Backed
  BY DEF Init, OutboxInit, Backed, PublishedIsSent
<1>4. Effective
  BY DEF Init, NotificationsInit, Effective, Subscriptions
<1> QED
  BY <1>1, <1>2, <1>3, <1>4 DEF IInv

\* An event takes effect at a consumer that has not seen it, and is counted once.
LEMMA CountStep ==
  ASSUME TypeOK, NEW s \in Subscriptions, effects[s] = 0,
         effects' = [effects EXCEPT ![s] = @ + 1]
  PROVE  effects' = [effects EXCEPT ![s] = 1] /\ effects' \in [Subscriptions -> Nat]
  BY DEF TypeOK

\* Every step keeps the invariant.
LEMMA InvStep == IInv /\ [Next]_vars => IInv'
<1> USE DeliveryAssumption DEF IInv
<1> SUFFICES ASSUME IInv, [Next]_vars PROVE IInv'
  OBVIOUS
<1>1. ASSUME ManageProfiles
      PROVE IInv'
  <2>1. ProfilesTypeOK' /\ Quota'
    BY <1>1, ManageKeeps DEF TypeOK
  <2>2. requests' \in 0..MaxRequests
    BY <1>1 DEF ManageProfiles, Request, TypeOK
  <2>3. UNCHANGED <<outboxVars, faults, noticeVars, recommendationVars, effects>>
    BY <1>1 DEF ManageProfiles
  <2> QED
    BY <2>1, <2>2, <2>3
    DEF TypeOK, OutboxTypeOK, NotificationsTypeOK, Backed, PublishedIsSent, Committed, Effective,
        outboxVars, noticeVars, recommendationVars
<1>2. ASSUME NEW p \in Profiles, Delete(p)
      PROVE IInv'
  <2>1. ProfilesTypeOK' /\ Quota'
    BY <1>2, DeleteKeeps DEF Delete, TypeOK
  <2>2. About("profile.deleted", p) \in Events
    BY DeliveryAssumption
  <2>3. OutboxTypeOK' /\ Backed'
    BY <1>2, <2>2, WriteStep DEF Delete, TypeOK
  <2> QED
    BY <1>2, <2>1, <2>3
    DEF Delete, Request, TypeOK, NotificationsTypeOK, Effective, noticeVars, recommendationVars
<1>3. ASSUME NEW e \in Events, CommitElsewhere(e)
      PROVE IInv'
  <2>1. OutboxTypeOK' /\ Backed'
    BY <1>3, WriteStep DEF CommitElsewhere, TypeOK
  <2> QED
    BY <1>3, <2>1
    DEF CommitElsewhere, Request, TypeOK, ProfilesTypeOK, NotificationsTypeOK, Quota,
        ActiveProfiles, Effective, profileVars, noticeVars, recommendationVars
<1>4. ASSUME NEW e \in Events, LeaseStep(e)
      PROVE IInv'
  <2>1. OutboxTypeOK' /\ Backed'
    BY <1>4, LeaseKeeps DEF LeaseStep, TypeOK
  <2> QED
    BY <1>4, <2>1
    DEF LeaseStep, TypeOK, ProfilesTypeOK, NotificationsTypeOK, Quota, ActiveProfiles, Effective,
        profileVars, noticeVars, recommendationVars
<1>5. ASSUME NEW p \in Publishers, PublisherStep(p)
      PROVE IInv'
  <2>1. OutboxTypeOK' /\ Backed'
    BY <1>5, PublisherKeeps DEF PublisherStep, TypeOK
  <2> QED
    BY <1>5, <2>1
    DEF PublisherStep, TypeOK, ProfilesTypeOK, NotificationsTypeOK, Quota, ActiveProfiles,
        Effective, profileVars, noticeVars, recommendationVars
<1>6. ASSUME NEW e \in Notices, Notify(e)
      PROVE IInv'
  <2>1. <<"notification", e>> \in Subscriptions
    BY DEF Subscriptions
  <2>2. effects[<<"notification", e>>] = 0
    BY <1>6 DEF Notify, UnseenByNotification, Effective
  <2>3. /\ effects' = [effects EXCEPT ![<<"notification", e>>] = 1]
        /\ effects' \in [Subscriptions -> Nat]
    BY <1>6, <2>1, <2>2, CountStep DEF Notify, Count
  <2>4. NotificationsTypeOK' /\ inbox' = inbox \union {e}
    BY <1>6, ReceiveKeeps DEF Notify, Receive, TypeOK
  <2>5. Effective'
    BY <1>6, <2>1, <2>3, <2>4
    DEF Notify, Effective, TypeOK, Subscriptions, Recommended, recommendationVars
  <2> QED
    BY <1>6, <2>3, <2>4, <2>5
    DEF Notify, TypeOK, ProfilesTypeOK, OutboxTypeOK, Quota, ActiveProfiles, Backed, Committed,
        PublishedIsSent, profileVars, outboxVars, recommendationVars
<1>7. ASSUME NEW e \in Recommended, ProcessQualified(e) \/ ProcessProfileDeleted(e)
      PROVE IInv'
  <2>1. <<"recommendation", e>> \in Subscriptions
    BY DEF Subscriptions
  <2>2. effects[<<"recommendation", e>>] = 0
    BY <1>7 DEF ProcessQualified, ProcessProfileDeleted, UnseenByRecommendation, Effective
  <2>3. /\ effects' = [effects EXCEPT ![<<"recommendation", e>>] = 1]
        /\ effects' \in [Subscriptions -> Nat]
    BY <1>7, <2>1, <2>2, CountStep DEF ProcessQualified, ProcessProfileDeleted, Count
  <2>4. /\ processed' = processed \union {e}
        /\ UNCHANGED <<profileVars, outboxVars, faults, noticeVars, requests>>
    BY <1>7 DEF ProcessQualified, ProcessProfileDeleted
  <2>5. Effective'
    BY <2>1, <2>3, <2>4 DEF Effective, TypeOK, Subscriptions, Recommended, noticeVars
  <2>6. watched' \subseteq Profiles
    BY <1>7, DeliveryAssumption
    DEF ProcessQualified, ProcessProfileDeleted, Recommended, TypeOK
  <2> QED
    BY <2>3, <2>4, <2>5, <2>6
    DEF TypeOK, ProfilesTypeOK, OutboxTypeOK, NotificationsTypeOK, Quota, ActiveProfiles, Backed,
        Committed, PublishedIsSent, profileVars, outboxVars, noticeVars
<1>8. ASSUME \/ \E n \in Notifiers : NotifierStep(n) \/ NotifierFails(n)
             \/ \E d \in Deliveries : ReplayStep(d)
      PROVE IInv'
  <2>1. NotificationsTypeOK' /\ inbox' = inbox
    BY <1>8, NotifierKeeps DEF TypeOK
  <2>2. /\ UNCHANGED <<profileVars, outboxVars, recommendationVars, effects>>
        /\ faults' \in 0..MaxFaults /\ requests' \in 0..MaxRequests
    BY <1>8, OutboxAssumption
    DEF NotifierStep, NotifierFails, ReplayStep, Request, Fault, TypeOK, OutboxTypeOK
  <2> QED
    BY <2>1, <2>2
    DEF TypeOK, ProfilesTypeOK, OutboxTypeOK, Quota, ActiveProfiles, Backed, Committed,
        PublishedIsSent, Effective, profileVars, outboxVars, recommendationVars
<1>9. ASSUME UNCHANGED vars
      PROVE IInv'
  BY <1>9
  DEF vars, TypeOK, ProfilesTypeOK, OutboxTypeOK, NotificationsTypeOK, Quota, ActiveProfiles,
      Backed, Committed, PublishedIsSent, Effective, profileVars, outboxVars, noticeVars,
      recommendationVars
<1> QED
  BY <1>1, <1>2, <1>3, <1>4, <1>5, <1>6, <1>7, <1>8, <1>9 DEF Next, Consume

\* The invariant holds throughout.
THEOREM DeliveryInvariant == Spec => []IInv
<1>1. QED
  BY InvInit, InvStep, PTL DEF Spec

(***************************************************************************)
(* What follows of it.                                                     *)
(***************************************************************************)
\* The tables of the five services are well typed in every reachable state.
THEOREM TypeCorrect == Spec => []TypeOK
<1>1. IInv => TypeOK
  BY DEF IInv
<1>2. QED
  BY <1>1, DeliveryInvariant, PTL

\* No crash, failure, lapse or takeover makes a publisher mark what no topic holds.
THEOREM NothingMarkedUnsent == Spec => []PublishedIsSent
<1>1. IInv => PublishedIsSent
  BY DEF IInv, Backed
<1>2. QED
  BY <1>1, DeliveryInvariant, PTL

\* The lock of the quota row keeps any number of competing creations within the limit.
THEOREM QuotaHolds == Spec => []ProfilesWithinLimit
<1>1. IInv => ProfilesWithinLimit
  <2> SUFFICES ASSUME IInv PROVE Cardinality(ActiveProfiles) <= ActiveProfileLimit
    BY DEF ProfilesWithinLimit
  <2>1. Cardinality(ActiveProfiles) \in Nat
    BY FS_CardinalityType DEF IInv, Quota
  <2> QED
    BY <2>1, ProfilesAssumption DEF IInv, Quota
<1>2. QED
  BY <1>1, DeliveryInvariant, PTL

(***************************************************************************)
(* Refinement.                                                             *)
(***************************************************************************)
\* Every step commits one event more, or lets one take effect for the first time, or is of
\* no concern to EventDelivery.
LEMMA StepSimulated == IInv /\ [Next]_vars => [Promise!Next]_(Promise!vars)
<1> SUFFICES ASSUME IInv, [Next]_vars PROVE Promise!Next \/ UNCHANGED <<Committed, effects>>
  BY DEF Promise!vars
<1> USE DEF IInv
<1>1. ASSUME NEW e \in Events, Committed' = Committed \union {e}, effects' = effects
      PROVE Promise!Next \/ UNCHANGED <<Committed, effects>>
  BY <1>1 DEF Promise!Next, Promise!Happen
<1>2. ASSUME NEW s \in Subscriptions, s[2] \in Committed, effects[s] = 0, Committed' = Committed,
             effects' = [effects EXCEPT ![s] = @ + 1]
      PROVE Promise!Next
  BY <1>2, CountStep DEF Promise!Next, Promise!TakeEffect
<1>3. ASSUME NEW p \in Profiles, Delete(p)
      PROVE Promise!Next \/ UNCHANGED <<Committed, effects>>
  <2>1. About("profile.deleted", p) \in Events
    BY DeliveryAssumption
  <2> QED
    BY <1>1, <1>3, <2>1, WriteStep DEF Delete, TypeOK
<1>4. ASSUME NEW e \in Events, CommitElsewhere(e)
      PROVE Promise!Next \/ UNCHANGED <<Committed, effects>>
  BY <1>1, <1>4, WriteStep DEF CommitElsewhere, TypeOK
<1>5. ASSUME NEW e \in Events, LeaseStep(e)
      PROVE UNCHANGED <<Committed, effects>>
  BY <1>5, LeaseKeeps DEF LeaseStep, TypeOK
<1>6. ASSUME NEW p \in Publishers, PublisherStep(p)
      PROVE UNCHANGED <<Committed, effects>>
  BY <1>6, PublishCommits DEF PublisherStep, TypeOK
<1>7. ASSUME NEW e \in Notices, Notify(e)
      PROVE Promise!Next
  <2>1. <<"notification", e>> \in Subscriptions /\ e \in Committed
    BY <1>7 DEF Notify, Subscriptions, Backed
  <2>2. effects[<<"notification", e>>] = 0 /\ Committed' = Committed
    BY <1>7 DEF Notify, UnseenByNotification, Effective, Committed, outboxVars
  <2> QED
    BY <1>2, <1>7, <2>1, <2>2 DEF Notify, Count
<1>8. ASSUME NEW e \in Recommended, ProcessQualified(e) \/ ProcessProfileDeleted(e)
      PROVE Promise!Next
  <2>1. <<"recommendation", e>> \in Subscriptions /\ e \in Committed
    BY <1>8 DEF ProcessQualified, ProcessProfileDeleted, Subscriptions, Backed
  <2>2. effects[<<"recommendation", e>>] = 0 /\ Committed' = Committed
    BY <1>8 DEF ProcessQualified, ProcessProfileDeleted, UnseenByRecommendation, Effective,
                Committed, outboxVars
  <2> QED
    BY <1>2, <1>8, <2>1, <2>2 DEF ProcessQualified, ProcessProfileDeleted, Count
<1>9. ASSUME UNCHANGED <<row, effects>>
      PROVE UNCHANGED <<Committed, effects>>
  BY <1>9 DEF Committed
<1> QED
  BY <1>3, <1>4, <1>5, <1>6, <1>7, <1>8, <1>9
  DEF Next, Consume, ManageProfiles, NotifierStep, NotifierFails, ReplayStep, vars, outboxVars

\* Outboxes that send at least once and inboxes that remember implement exactly-once effects:
\* nothing takes effect that was not committed, and nothing takes effect twice.
THEOREM ExactlyOnceSafety == Spec => Promise!Init /\ [][Promise!Next]_(Promise!vars)
<1>1. Init => Promise!Init
  BY DEF Init, OutboxInit, Promise!Init, Committed
<1>2. QED
  BY <1>1, StepSimulated, DeliveryInvariant, PTL DEF Spec

(***************************************************************************)
(* Deliveries.                                                             *)
(***************************************************************************)
\* What an instance works on is marked so, and no other instance works on it.
Held ==
    \A n \in Notifiers, d \in Deliveries :
        d \in working[n] => /\ delivery[d].status = "processing"
                            /\ \A other \in Notifiers \ {n} : d \notin working[other]

\* A delivery that was made stays as it is, in this step.
Final == \A d \in Deliveries : delivery[d].status = "delivered" => delivery'[d] = delivery[d]

LEMMA HeldInit == Init => Held
  BY DEF Init, NotificationsInit, Held

\* Claims take what is pending only, so an outcome is written over no other outcome.
LEMMA HeldStep == NotificationsTypeOK /\ Held /\ [Next]_vars => Held' /\ Final
<1> SUFFICES ASSUME NotificationsTypeOK, Held, [Next]_vars PROVE Held' /\ Final
  OBVIOUS
<1>1. ASSUME NEW e \in Notices, Receive(e)
      PROVE Held' /\ Final
  BY <1>1 DEF Receive, NotificationsTypeOK, Held, Final
<1>2. ASSUME NEW n \in Notifiers, NEW taken \in SUBSET Deliveries, ClaimDeliveries(n, taken)
      PROVE Held' /\ Final
  BY <1>2 DEF ClaimDeliveries, Claimable, NotificationsTypeOK, Held, Final
<1>3. ASSUME NEW n \in Notifiers, NEW d \in working[n], Deliver(n, d)
      PROVE Held' /\ Final
  <2>1. d \in Deliveries /\ delivery[d].status = "processing"
    BY DEF NotificationsTypeOK, Held
  <2>2. \A x \in Deliveries \ {d} : delivery'[x] = delivery[x]
    BY <1>3 DEF Deliver, NotificationsTypeOK
  <2>3. /\ working'[n] = working[n] \ {d}
        /\ \A other \in Notifiers \ {n} : working'[other] = working[other] /\ d \notin working[other]
    BY <1>3, <2>1 DEF Deliver, NotificationsTypeOK, Held
  <2>4. Held'
    BY <2>1, <2>2, <2>3 DEF Held
  <2> QED
    BY <2>1, <2>2, <2>4 DEF Final
<1>4. ASSUME NEW n \in Notifiers, NotifierStops(n)
      PROVE Held' /\ Final
  BY <1>4 DEF NotifierStops, NotificationsTypeOK, Held, Final
<1>5. ASSUME NEW d \in Deliveries, Replay(d)
      PROVE Held' /\ Final
  BY <1>5 DEF Replay, NotificationsTypeOK, Held, Final
<1>6. ASSUME UNCHANGED noticeVars
      PROVE Held' /\ Final
  BY <1>6 DEF noticeVars, Held, Final
<1> QED
  BY <1>1, <1>2, <1>3, <1>4, <1>5, <1>6
  DEF Next, ManageProfiles, Delete, CommitElsewhere, LeaseStep, PublisherStep, Consume, Notify,
      ProcessQualified, ProcessProfileDeleted, NotifierStep, NotifierFails, ReplayStep, vars

\* A notification that was delivered is never delivered again, with any number of instances,
\* batches, stops and replays.
THEOREM DeliveredForGood == Spec => DeliveredIsFinal
<1>1. TypeOK /\ Held /\ [Next]_vars => Held'
  BY HeldStep DEF TypeOK
<1>2. TypeOK /\ Held /\ [Next]_vars => [Final]_vars
  BY HeldStep DEF TypeOK
<1>3. Spec => []TypeOK
  BY TypeCorrect
<1>4. Spec => [][Final]_vars
  BY <1>1, <1>2, <1>3, HeldInit, PTL DEF Spec
<1>5. QED
  BY <1>4 DEF DeliveredIsFinal, Final
=============================================================================
