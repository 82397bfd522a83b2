-------------------------------- MODULE Outbox --------------------------------
(***************************************************************************)
(* The outbox tables of the profile, streaming, payment and catalog        *)
(* services and the publishers that send their rows to Kafka.  A service   *)
(* may run several instances, each with a publisher.                       *)
(*                                                                         *)
(* A publisher claims a batch under a lease, then sends and marks one      *)
(* event at a time.  Covered: a publisher that stops between any two       *)
(* steps, a broker or a database that fails, a lease that lapses while its *)
(* publisher still sends.  Times (available_at, locked_until) are left to  *)
(* chance: a free row may be claimed later, a lease may lapse at any time. *)
(***************************************************************************)
EXTENDS Naturals, FiniteSets

CONSTANTS
    Events,         \* records of a type and what the event is about
    Publishers,     \* instances, each a record with the service it belongs to
    BatchSize,      \* events claimed at once: 25, or 20 in payment and catalog
    MaxFaults       \* bound: failures, stops and lapses, of publishers and consumers

ASSUME OutboxAssumption == BatchSize \in Nat \ {0} /\ MaxFaults \in Nat

VARIABLES
    row,    \* outbox_events: not there, free, leased or published
    batch,  \* the events that each publisher has claimed and not settled
    sent,   \* those of them that are sent and not marked yet
    log,    \* the Kafka topics: the events sent at least once
    faults

outboxVars == <<row, batch, sent, log>>

OutboxTypeOK ==
    /\ row \in [Events -> {"none", "pending", "leased", "published"}]
    /\ batch \in [Publishers -> SUBSET Events]
    /\ sent \in [Publishers -> SUBSET Events]
    /\ log \subseteq Events
    /\ faults \in 0..MaxFaults

OutboxInit ==
    /\ row = [e \in Events |-> "none"]
    /\ batch = [p \in Publishers |-> {}]
    /\ sent = [p \in Publishers |-> {}]
    /\ log = {}
    /\ faults = 0

Fault ==
    /\ faults < MaxFaults
    /\ faults' = faults + 1

Committed == {e \in Events : row[e] # "none"}

\* The INSERT of a business transaction.
WriteEvent(e) == row' = [row EXCEPT ![e] = "pending"]

\* The service in whose outbox an event is.
ServiceOf(e) ==
    CASE e.type = "profile.deleted" -> "profile"
      [] e.type \in {"playback.qualified", "video.transcode_failed"} -> "streaming"
      [] e.type \in {"payment.success", "subscription.expiring"} -> "payment"
      [] e.type = "movie.published" -> "catalog"

OwnEvents(p) == {e \in Events : ServiceOf(e) = p.service}

\* Rows that another publisher locks at the moment are skipped.
ClaimBatch(p, taken) ==
    /\ batch[p] = {}
    /\ taken # {} /\ Cardinality(taken) <= BatchSize
    /\ \A e \in taken : row[e] = "pending"
    /\ row' = [e \in Events |-> IF e \in taken THEN "leased" ELSE row[e]]
    /\ batch' = [batch EXCEPT ![p] = taken]
    /\ UNCHANGED <<sent, log, faults>>

SendEvent(p, e) ==
    /\ e \in batch[p]
    /\ sent[p] = {}
    /\ log' = log \union {e}
    /\ sent' = [sent EXCEPT ![p] = {e}]
    /\ UNCHANGED <<row, batch, faults>>

\* Mutant of MarkPublished: the batch is marked before it is sent.
MarkBatch(p) ==
    /\ batch[p] # {}
    /\ row' = [e \in Events |-> IF e \in batch[p] THEN "published" ELSE row[e]]
    /\ batch' = [batch EXCEPT ![p] = @ \ sent[p]]
    /\ sent' = [sent EXCEPT ![p] = {}]
    /\ UNCHANGED <<log, faults>>

\* Whoever holds the lease by now.
MarkPublished(p) ==
    /\ sent[p] # {}
    /\ row' = [e \in Events |-> IF e \in sent[p] THEN "published" ELSE row[e]]
    /\ batch' = [batch EXCEPT ![p] = @ \ sent[p]]
    /\ sent' = [sent EXCEPT ![p] = {}]
    /\ UNCHANGED <<log, faults>>

Released(es) == [e \in Events |-> IF e \in es /\ row[e] = "leased" THEN "pending" ELSE row[e]]

LetGo(p) ==
    /\ batch' = [batch EXCEPT ![p] = {}]
    /\ sent' = [sent EXCEPT ![p] = {}]

\* A send or its update fails; in profile and streaming also the connection to the broker.
Reschedule(p) ==
    /\ batch[p] # {}
    /\ Fault
    /\ row' = Released(batch[p])
    /\ LetGo(p)
    /\ UNCHANGED log

\* In payment and catalog a failed connection ends the poll: every leased row of the
\* service is released, those that other instances are sending included.
UnlockAll(p) ==
    /\ p.service \in {"payment", "catalog"}
    /\ batch[p] # {}
    /\ Fault
    /\ row' = Released(OwnEvents(p))
    /\ LetGo(p)
    /\ UNCHANGED log

\* The instance stops; its leases remain.
PublisherStops(p) ==
    /\ batch[p] # {}
    /\ Fault
    /\ LetGo(p)
    /\ UNCHANGED <<row, log>>

LeaseLapses(e) ==
    /\ row[e] = "leased"
    /\ row' = [row EXCEPT ![e] = "pending"]
    /\ IF \E p \in Publishers : e \in batch[p] THEN Fault ELSE UNCHANGED faults
    /\ UNCHANGED <<batch, sent, log>>

Publish(p) ==
    \/ \E taken \in SUBSET OwnEvents(p) : ClaimBatch(p, taken)
    \/ \E e \in batch[p] : SendEvent(p, e)
    \/ MarkPublished(p)

PublisherFails(p) == Reschedule(p) \/ UnlockAll(p) \/ PublisherStops(p)

\* An event that is marked published is in its topic.
PublishedIsSent == \A e \in Events : row[e] = "published" => e \in log
=============================================================================
