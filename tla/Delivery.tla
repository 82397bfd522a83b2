-------------------------------- MODULE Delivery --------------------------------
(***************************************************************************)
(* From a committed transaction to its effects in other services: the      *)
(* profile service and its deletions, the outboxes and their publishers,   *)
(* Kafka, the notification service and the recommendation service          *)
(* (src/apps/recommendation-service/src).                                  *)
(*                                                                         *)
(* Kafka delivers an event that is in its topic at least once, in no order *)
(* between topics; handling is retried until it commits.  A redelivery of  *)
(* a handled event is ignored by its inbox and is no step.  The events of  *)
(* the payment and streaming services are written at any time: Payment,    *)
(* Playback and MediaPipeline say when.                                    *)
(***************************************************************************)
EXTENDS Profiles, Outbox, Notifications

CONSTANT MaxRequests    \* bound: requests of clients, and events of the other services

VARIABLES
    processed,  \* processed_events of the recommendation service
    watched,    \* profiles with rows in watch_events
    effects,    \* history: how often each event took effect at each consumer
    requests

recommendationVars == <<processed, watched>>
vars == <<profileVars, outboxVars, faults, noticeVars, recommendationVars, effects, requests>>

About(type, p) == [type |-> type, of |-> p]

Recommended == {e \in Events : e.type \in {"playback.qualified", "profile.deleted"}}

Subscriptions ==
    ({"notification"} \X Notices) \union ({"recommendation"} \X Recommended)

ASSUME DeliveryAssumption ==
    /\ Notices \subseteq Events
    /\ \A p \in Profiles : About("profile.deleted", p) \in Events
    /\ \A e \in Events : e.type = "playback.qualified" => e.of \in Profiles
    /\ MaxRequests \in Nat

TypeOK ==
    /\ ProfilesTypeOK
    /\ OutboxTypeOK
    /\ NotificationsTypeOK
    /\ processed \subseteq Recommended
    /\ watched \subseteq Profiles
    /\ effects \in [Subscriptions -> Nat]
    /\ requests \in 0..MaxRequests

Init ==
    /\ ProfilesInit
    /\ OutboxInit
    /\ NotificationsInit
    /\ processed = {}
    /\ watched = {}
    /\ effects = [s \in Subscriptions |-> 0]
    /\ requests = 0

Request ==
    /\ requests < MaxRequests
    /\ requests' = requests + 1

(***************************************************************************)
(* Steps of the producers.                                                 *)
(***************************************************************************)
\* The steps of the profile service that write no event; each but the last two of them
\* begins a request.
ManageProfiles ==
    /\ \/ Request /\ CreateCount
       \/ Request /\ \E p \in Profiles, kind \in Active : UpdateProfile(p, kind)
       \/ Request /\ \E p \in Profiles : AddFavoriteCheck(p) \/ RemoveFavorite(p)
       \/ UNCHANGED requests /\ \E p \in Profiles : AddFavoriteInsert(p)
       \/ UNCHANGED requests
          /\ (CreateAborts \/ \E p \in Profiles, kind \in Active : CreateInsert(p, kind))
    /\ UNCHANGED <<outboxVars, faults, noticeVars, recommendationVars, effects>>

\* delete: the row and the event in one transaction.
Delete(p) ==
    /\ Request
    /\ DeleteProfile(p)
    /\ WriteEvent(About("profile.deleted", p))
    /\ UNCHANGED <<batch, sent, log, faults, noticeVars, recommendationVars, effects>>

\* A transaction of the payment, catalog or streaming service.  A session that was running
\* when its profile was deleted may qualify afterwards.
CommitElsewhere(e) ==
    /\ Request
    /\ e.type # "profile.deleted"
    /\ e.type = "playback.qualified" => profile[e.of] # "absent"
    /\ row[e] = "none"
    /\ WriteEvent(e)
    /\ UNCHANGED <<profileVars, batch, sent, log, faults, noticeVars, recommendationVars, effects>>

PublisherStep(p) ==
    /\ Publish(p) \/ PublisherFails(p)
    /\ UNCHANGED <<profileVars, noticeVars, recommendationVars, effects, requests>>

LeaseStep(e) ==
    /\ LeaseLapses(e)
    /\ UNCHANGED <<profileVars, noticeVars, recommendationVars, effects, requests>>

(***************************************************************************)
(* Steps of the consumers.                                                 *)
(***************************************************************************)
Count(consumer, e) == effects' = [effects EXCEPT ![<<consumer, e>>] = @ + 1]

\* Mutant of UnseenByNotification: receive does not look at its inbox.
NotificationForgets(e) == TRUE

\* INSERT ... ON CONFLICT DO NOTHING inserted a row.
UnseenByNotification(e) == e \notin inbox

Notify(e) ==
    /\ e \in log
    /\ UnseenByNotification(e)
    /\ Receive(e)
    /\ Count("notification", e)
    /\ UNCHANGED <<profileVars, outboxVars, faults, recommendationVars, requests>>

\* The duplicate check; the primary key refuses two transactions that both pass it.
UnseenByRecommendation(e) == e \notin processed

ProcessQualified(e) ==
    /\ e.type = "playback.qualified"
    /\ e \in log
    /\ UnseenByRecommendation(e)
    /\ watched' = watched \union {e.of}
    /\ processed' = processed \union {e}
    /\ Count("recommendation", e)
    /\ UNCHANGED <<profileVars, outboxVars, faults, noticeVars, requests>>

ProcessProfileDeleted(e) ==
    /\ e.type = "profile.deleted"
    /\ e \in log
    /\ UnseenByRecommendation(e)
    /\ watched' = watched \ {e.of}
    /\ processed' = processed \union {e}
    /\ Count("recommendation", e)
    /\ UNCHANGED <<profileVars, outboxVars, faults, noticeVars, requests>>

\* The poll of the delivery worker.
NotifierStep(n) ==
    /\ \/ \E taken \in SUBSET Deliveries : ClaimDeliveries(n, taken)
       \/ \E d \in working[n] : Deliver(n, d)
    /\ UNCHANGED <<profileVars, outboxVars, faults, recommendationVars, effects, requests>>

NotifierFails(n) ==
    /\ Fault
    /\ NotifierStops(n)
    /\ UNCHANGED <<profileVars, outboxVars, recommendationVars, effects, requests>>

ReplayStep(d) ==
    /\ Request
    /\ Replay(d)
    /\ UNCHANGED <<profileVars, outboxVars, faults, recommendationVars, effects>>

(***************************************************************************)
(* The specification.                                                      *)
(***************************************************************************)
Consume ==
    \/ \E e \in Notices : Notify(e)
    \/ \E e \in Recommended : ProcessQualified(e) \/ ProcessProfileDeleted(e)

Next ==
    \/ ManageProfiles
    \/ \E p \in Profiles : Delete(p)
    \/ \E e \in Events : CommitElsewhere(e) \/ LeaseStep(e)
    \/ \E p \in Publishers : PublisherStep(p)
    \/ Consume
    \/ \E n \in Notifiers : NotifierStep(n) \/ NotifierFails(n)
    \/ \E d \in Deliveries : ReplayStep(d)

\* Publishers, consumers and delivery workers poll; leases are times; faults end.  It is
\* enough that some instance of each kind goes on.
PublishStep ==
    /\ \E p \in Publishers : Publish(p)
    /\ UNCHANGED <<profileVars, noticeVars, recommendationVars, effects, requests>>

Fairness ==
    /\ WF_vars(PublishStep)
    /\ WF_vars(\E e \in Events : LeaseStep(e))
    /\ WF_vars(Consume)
    /\ WF_vars(\E n \in Notifiers : NotifierStep(n))

Spec == Init /\ [][Next]_vars /\ Fairness

(***************************************************************************)
(* Properties.                                                             *)
(***************************************************************************)
\* At-least-once publishing and the inboxes implement exactly-once effects: nothing takes
\* effect that was not committed, or twice, and everything committed does in the end.
Promise == INSTANCE EventDelivery WITH happened <- Committed

ExactlyOnce == Promise!Spec

\* A delivery that was made is not made again, whatever other instances or replays do.
DeliveredIsFinal ==
    [][\A d \in Deliveries : delivery[d].status = "delivered" => delivery'[d] = delivery[d]]_vars

\* Once nothing new is asked for, every delivery is made or given up, except those whose
\* instance stopped with them: no order of retries, batches and stops leaves one pending.
DeliveriesSettle ==
    <>[](\A d \in Deliveries :
            delivery[d].status \in {"none", "delivered", "dlq"} \/ d \in abandoned)
=============================================================================
