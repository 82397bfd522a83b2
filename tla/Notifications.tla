----------------------------- MODULE Notifications -----------------------------
(***************************************************************************)
(* The notification service (src/apps/notification-service/src): its inbox,*)
(* the deliveries that an event asks for, the delivery workers of its      *)
(* instances and the replay of a delivery that was given up.               *)
(***************************************************************************)
EXTENDS Naturals

CONSTANTS
    Notices,            \* the events of the four topics that it reads
    Notifiers,          \* instances of the service
    FailRecipients,     \* mockFailRecipients in the configuration of each instance
    MaxAttempts         \* maxAttempts of the configuration

ASSUME NotificationsAssumption == MaxAttempts \in Nat \ {0}

VARIABLES
    inbox,      \* notification_inbox_events
    delivery,   \* notification_deliveries
    working,    \* the deliveries that each instance has claimed and not settled
    abandoned   \* history: deliveries whose instance stopped with them

noticeVars == <<inbox, delivery, working, abandoned>>

\* policy: the recipients and channels of an event.
PolicyOf(e) ==
    CASE e.type = "payment.success" -> {<<"user", "email">>}
      [] e.type = "subscription.expiring" -> {<<"user", "push">>, <<"user", "email">>}
      [] e.type = "movie.published" -> {<<"catalog-announcements", "push">>}
      [] e.type = "video.transcode_failed" -> {<<"content-admins", "email">>}

\* UNIQUE(event_id, recipient_id, channel)
Deliveries == UNION {{[event |-> e, recipient |-> r[1], channel |-> r[2]] : r \in PolicyOf(e)} :
                     e \in Notices}

NotificationsTypeOK ==
    /\ inbox \subseteq Notices
    /\ delivery \in [Deliveries -> [status: {"none", "pending", "processing", "delivered", "dlq"},
                                    attempts: Nat]]
    /\ working \in [Notifiers -> SUBSET Deliveries]
    /\ abandoned \subseteq Deliveries

NotificationsInit ==
    /\ inbox = {}
    /\ delivery = [d \in Deliveries |-> [status |-> "none", attempts |-> 0]]
    /\ working = [n \in Notifiers |-> {}]
    /\ abandoned = {}

\* receive, for an event that the inbox does not hold.
Receive(e) ==
    /\ inbox' = inbox \union {e}
    /\ delivery' = [d \in Deliveries |->
                       IF d.event = e /\ delivery[d].status = "none"
                       THEN [status |-> "pending", attempts |-> 0] ELSE delivery[d]]
    /\ UNCHANGED <<working, abandoned>>

\* Mutant of Claimable: what another instance works on is claimed as well.
ClaimableTwice(d) == delivery[d].status \in {"pending", "processing"}

Claimable(d) == delivery[d].status = "pending"

\* There is no lease: a claimed delivery is the claimer's for good.
ClaimDeliveries(n, taken) ==
    /\ working[n] = {}
    /\ taken # {}
    /\ \A d \in taken : Claimable(d)
    /\ delivery' = [d \in Deliveries |->
                       IF d \in taken
                       THEN [status |-> "processing", attempts |-> delivery[d].attempts + 1]
                       ELSE delivery[d]]
    /\ working' = [working EXCEPT ![n] = taken]
    /\ UNCHANGED <<inbox, abandoned>>

Exhausted(d) == delivery[d].attempts >= MaxAttempts

\* Mutants of Outcome: the status is not one of the table; the last failure changes nothing.
OutcomeNamed(n, d) ==
    IF d.recipient \notin FailRecipients[n] THEN "delivered"
    ELSE IF Exhausted(d) THEN "failed" ELSE "pending"

OutcomeForgotten(n, d) ==
    IF d.recipient \notin FailRecipients[n] THEN "delivered"
    ELSE IF Exhausted(d) THEN "processing" ELSE "pending"

Outcome(n, d) ==
    IF d.recipient \notin FailRecipients[n] THEN "delivered"
    ELSE IF Exhausted(d) THEN "dlq" ELSE "pending"

Deliver(n, d) ==
    /\ d \in working[n]
    /\ delivery' = [delivery EXCEPT ![d].status = Outcome(n, d)]
    /\ working' = [working EXCEPT ![n] = @ \ {d}]
    /\ UNCHANGED <<inbox, abandoned>>

\* The instance stops or its database fails: what it had claimed stays "processing", and
\* no lease returns it.
NotifierStops(n) ==
    /\ working[n] # {}
    /\ abandoned' = abandoned \union working[n]
    /\ working' = [working EXCEPT ![n] = {}]
    /\ UNCHANGED <<inbox, delivery>>

Replay(d) ==
    /\ delivery[d].status = "dlq"
    /\ delivery' = [delivery EXCEPT ![d] = [status |-> "pending", attempts |-> 0]]
    /\ UNCHANGED <<inbox, working, abandoned>>
=============================================================================
