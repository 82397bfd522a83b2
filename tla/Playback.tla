------------------------------- MODULE Playback -------------------------------
(***************************************************************************)
(* The playback sessions of one user and one profile in the streaming      *)
(* service (src/apps/streaming-service/src): sessions in PostgreSQL, the   *)
(* slots that bound how many may run at once in a Redis sorted set, watch  *)
(* progress and its cache, playback events, the reaper of expired sessions *)
(* and the consumer of profile.deleted.                                    *)
(*                                                                         *)
(* PostgreSQL and Redis share no transaction, so a handler is a sequence   *)
(* of steps: a request is validated, later its transaction commits, later  *)
(* still its slot is released or its progress cached, and it may end       *)
(* between any two of them.  The transaction of a new session and of a     *)
(* repeated one is split once more, at its call to Redis.                  *)
(***************************************************************************)
EXTENDS Integers, FiniteSets

CONSTANTS
    Sessions,   \* playback session ids
    Handlers,   \* concurrent requests
    Keys,       \* Idempotency-Key values
    SentTypes,  \* the types of the events that clients send
    None,       \* SQL NULL, no row, no request
    Limit,      \* maxConcurrentStreams of the user's entitlement
    TTL,        \* STREAMING_SESSION_TTL_SECONDS
    MaxSeq, MaxTime,    \* bounds of the finite instance
    MaxUnrecorded       \* bound: failures that the database could not record

Seqs == 1..MaxSeq
EventTypes == {"started", "qualified", "stopped", "failed"}

ASSUME PlaybackAssumption ==
    /\ Limit \in Nat \ {0}
    /\ TTL \in Nat \ {0}
    /\ MaxSeq \in Nat /\ MaxTime \in Nat /\ MaxUnrecorded \in Nat
    /\ SentTypes \subseteq EventTypes
    /\ None \notin Sessions

VARIABLES
    profile,    \* profiles.status in the profile service
    processed,  \* processed_events holds the profile.deleted event
    session,    \* playback_sessions
    requestOf,  \* playback_requests: the session of each key
    slot,       \* the sorted set: the score of each session, 0 when it has none
    progress,   \* watch_progress: <<session ordinal, seq>>, <<0, 0>> when there is no row
    cache,      \* the progress cache in Redis, likewise
    qualified,  \* playback.qualified events in the outbox, for each session
    request,    \* what each handler is doing
    releasing,  \* sessions whose slot is about to be released
    unrecorded, \* sessions that failed while the database refused the update
    now

dataVars == <<session, requestOf, progress, qualified>>
vars == <<profile, processed, dataVars, slot, cache, request, releasing, unrecorded, now>>

Open == {"reserved", "ready", "playing"}
Terminal == {"stopped", "failed", "expired"}

Row == [state: Open \union Terminal \union {"absent"}, ordinal: Nat, expires: Nat, lastSeq: Nat,
        qualified: BOOLEAN]

Idle == [pc |-> "idle"]

Request ==
    {Idle} \union [pc: {"create"}, key: Keys]
           \union [pc: {"inserting", "refreshing"}, key: Keys, s: Sessions]
           \union [pc: {"resolving", "heartbeat"}, s: Sessions]
           \union [pc: {"progress"}, s: Sessions, seq: Seqs]
           \union [pc: {"event"}, s: Sessions, type: EventTypes]
           \union [pc: {"caching"}, entry: Nat \X Nat]

TypeOK ==
    /\ profile \in {"active", "deleted"}
    /\ processed \in BOOLEAN
    /\ session \in [Sessions -> Row]
    /\ requestOf \in [Keys -> Sessions \union {None}]
    /\ slot \in [Sessions -> Nat]
    /\ progress \in Nat \X Nat
    /\ cache \in Nat \X Nat
    /\ qualified \in [Sessions -> Nat]
    /\ request \in [Handlers -> Request]
    /\ releasing \subseteq Sessions
    /\ unrecorded \subseteq Sessions
    /\ now \in Nat

Init ==
    /\ profile = "active"
    /\ processed = FALSE
    /\ session = [s \in Sessions |-> [state |-> "absent", ordinal |-> 0, expires |-> 0,
                                      lastSeq |-> 0, qualified |-> FALSE]]
    /\ requestOf = [k \in Keys |-> None]
    /\ slot = [s \in Sessions |-> 0]
    /\ progress = <<0, 0>>
    /\ cache = <<0, 0>>
    /\ qualified = [s \in Sessions |-> 0]
    /\ request = [h \in Handlers |-> Idle]
    /\ releasing = {}
    /\ unrecorded = {}
    /\ now = 0

(***************************************************************************)
(* Sessions and slots.                                                     *)
(***************************************************************************)
Created == {s \in Sessions : session[s].state # "absent"}

InTime(s) == session[s].expires > now

\* assertActive
Active(s) == session[s].state \in {"ready", "playing"} /\ InTime(s)

Live(s) == session[s].state \in Open /\ InTime(s)

Held(s) == slot[s] > now

\* Mutant of CanReserve: a session that the sorted set does not hold is always added.
AlwaysReserves(s) == TRUE

\* RESERVE_SCRIPT: the session holds a slot already, or there is one left.
CanReserve(s) == Held(s) \/ Cardinality({x \in Sessions : Held(x)}) < Limit

\* Expired scores are removed and the session is given a new one.
Scored(s) ==
    [x \in Sessions |-> CASE x = s -> now + TTL
                          [] x # s /\ Held(x) -> slot[x]
                          [] OTHER -> 0]

Closed(set, state) ==
    [s \in Sessions |-> IF s \in set /\ session[s].state \in Open
                        THEN [session[s] EXCEPT !.state = state] ELSE session[s]]

Becomes(h, r) == request' = [request EXCEPT ![h] = r]

\* pg_advisory_xact_lock on the user and the key
KeyFree(k) ==
    \A h \in Handlers : request[h].pc \in {"inserting", "refreshing"} => request[h].key # k

(***************************************************************************)
(* A request arrives and its account, profile and content are validated by *)
(* the other services.  The account and the content do not change here.    *)
(***************************************************************************)
Validated(h, r) ==
    /\ request[h] = Idle
    /\ profile = "active"
    /\ Becomes(h, r)
    /\ UNCHANGED <<profile, processed, dataVars, slot, cache, releasing, unrecorded, now>>

ReceiveCreate(h, k) == Validated(h, [pc |-> "create", key |-> k])

ReceiveHeartbeat(h, s) == Active(s) /\ Validated(h, [pc |-> "heartbeat", s |-> s])

ReceiveProgress(h, s, seq) ==
    Active(s) /\ Validated(h, [pc |-> "progress", s |-> s, seq |-> seq])

ReceiveEvent(h, s, type) ==
    s \in Created /\ Validated(h, [pc |-> "event", s |-> s, type |-> type])

\* The request ends without a further effect: a check refuses it, its transaction rolls
\* back, or the process dies.
RequestEnds(h) ==
    /\ request[h] # Idle
    /\ Becomes(h, Idle)
    /\ UNCHANGED <<profile, processed, dataVars, slot, cache, releasing, unrecorded, now>>

(***************************************************************************)
(* POST playback-sessions.                                                 *)
(***************************************************************************)
\* A new key: a slot is reserved for a session that is not yet inserted.
ReserveNew(h, s) ==
    /\ request[h].pc = "create"
    /\ KeyFree(request[h].key)
    /\ requestOf[request[h].key] = None
    /\ session[s].state = "absent" /\ slot[s] = 0 /\ s \notin releasing
    /\ \A x \in Handlers : request[x].pc = "inserting" => request[x].s # s
    /\ CanReserve(s)
    /\ slot' = Scored(s)
    /\ Becomes(h, [pc |-> "inserting", key |-> request[h].key, s |-> s])
    /\ UNCHANGED <<profile, processed, dataVars, cache, releasing, unrecorded, now>>

InsertCommit(h) ==
    /\ request[h].pc = "inserting"
    /\ session' = [session EXCEPT ![request[h].s] =
          [state |-> "reserved", ordinal |-> Cardinality(Created) + 1, expires |-> now + TTL,
           lastSeq |-> 0, qualified |-> FALSE]]
    /\ requestOf' = [requestOf EXCEPT ![request[h].key] = request[h].s]
    /\ Becomes(h, [pc |-> "resolving", s |-> request[h].s])
    /\ UNCHANGED <<profile, processed, progress, qualified, slot, cache, releasing,
                   unrecorded, now>>

\* The transaction fails after the slot was reserved, which is then released.
InsertFails(h) ==
    /\ request[h].pc = "inserting"
    /\ releasing' = releasing \union {request[h].s}
    /\ Becomes(h, Idle)
    /\ UNCHANGED <<profile, processed, dataVars, slot, cache, unrecorded, now>>

\* A key used before: the slot of its session is extended, or taken again, ...
ReserveAgain(h) ==
    /\ request[h].pc = "create"
    /\ KeyFree(request[h].key)
    /\ LET s == requestOf[request[h].key]
       IN /\ s # None
          /\ Active(s)
          /\ CanReserve(s)
          /\ slot' = Scored(s)
          /\ Becomes(h, [pc |-> "refreshing", key |-> request[h].key, s |-> s])
    /\ UNCHANGED <<profile, processed, dataVars, cache, releasing, unrecorded, now>>

\* ... and then the session itself, ...
RefreshCommit(h) ==
    /\ request[h].pc = "refreshing"
    /\ Active(request[h].s)
    /\ session' = [session EXCEPT ![request[h].s].expires = now + TTL]
    /\ Becomes(h, [pc |-> "resolving", s |-> request[h].s])
    /\ UNCHANGED <<profile, processed, requestOf, progress, qualified, slot, cache,
                   releasing, unrecorded, now>>

\* ... unless it was closed in between.
RefreshRefused(h) ==
    /\ request[h].pc = "refreshing"
    /\ ~Active(request[h].s)
    /\ releasing' = releasing \union {request[h].s}
    /\ Becomes(h, Idle)
    /\ UNCHANGED <<profile, processed, dataVars, slot, cache, unrecorded, now>>

StillOpen(s) == Live(s)

\* The source was resolved.
ResolveCommit(h) ==
    /\ request[h].pc = "resolving"
    /\ StillOpen(request[h].s)
    /\ session' = [session EXCEPT ![request[h].s].state =
                     IF @ \in {"ready", "playing"} THEN @ ELSE "ready"]
    /\ Becomes(h, Idle)
    /\ UNCHANGED <<profile, processed, requestOf, progress, qualified, slot, cache,
                   releasing, unrecorded, now>>

\* Mutant of FailedSession: the slot is released and the session left as it was.
FailureIgnored(s) == session

\* Mutant of FailedSession: a state that the table does not know.
FailedAsError(s) == Closed({s}, "error")

FailedSession(s) == Closed({s}, "failed")

\* The source could not be resolved, or the session was closed or expired meanwhile.
ResolveFails(h) ==
    /\ request[h].pc = "resolving"
    /\ session' = FailedSession(request[h].s)
    /\ releasing' = releasing \union {request[h].s}
    /\ Becomes(h, Idle)
    /\ UNCHANGED <<profile, processed, requestOf, progress, qualified, slot, cache,
                   unrecorded, now>>

\* The same, but the database refuses the update: the slot is released all the same.
ResolveFailsUnrecorded(h) ==
    /\ request[h].pc = "resolving"
    /\ Cardinality(unrecorded) < MaxUnrecorded
    /\ unrecorded' = unrecorded \union {request[h].s}
    /\ releasing' = releasing \union {request[h].s}
    /\ Becomes(h, Idle)
    /\ UNCHANGED <<profile, processed, dataVars, slot, cache, now>>

\* DELETE of the slot in Redis, by whoever closed the session.
Release(s) ==
    /\ s \in releasing
    /\ releasing' = releasing \ {s}
    /\ slot' = [slot EXCEPT ![s] = 0]
    /\ UNCHANGED <<profile, processed, dataVars, cache, request, unrecorded, now>>

\* The call fails, or the process dies before it: the score expires instead.
ReleaseLost(s) ==
    /\ s \in releasing
    /\ releasing' = releasing \ {s}
    /\ UNCHANGED <<profile, processed, dataVars, slot, cache, request, unrecorded, now>>

(***************************************************************************)
(* POST heartbeat.                                                         *)
(***************************************************************************)
Renewable(s) == Active(s) /\ Held(s)

HeartbeatCommit(h) ==
    /\ request[h].pc = "heartbeat"
    /\ Renewable(request[h].s)
    /\ slot' = Scored(request[h].s)
    /\ session' = [session EXCEPT ![request[h].s].expires = now + TTL]
    /\ Becomes(h, Idle)
    /\ UNCHANGED <<profile, processed, requestOf, progress, qualified, cache, releasing,
                   unrecorded, now>>

\* The slot is renewed and the transaction rolls back.
HeartbeatRollsBack(h) ==
    /\ request[h].pc = "heartbeat"
    /\ Renewable(request[h].s)
    /\ slot' = Scored(request[h].s)
    /\ Becomes(h, Idle)
    /\ UNCHANGED <<profile, processed, dataVars, cache, releasing, unrecorded, now>>

(***************************************************************************)
(* POST progress.  Reports are ordered by the ordinal of their session,    *)
(* then by their sequence number.                                          *)
(***************************************************************************)
Before(p, q) == p[1] < q[1] \/ (p[1] = q[1] /\ p[2] < q[2])

\* Mutant of Newer: every report that its own session accepts is applied.
LastToArrive(p, q) == TRUE

\* The WHERE clause of the upsert, and the comparison of PROGRESS_CACHE_SCRIPT.
Newer(p, q) == Before(p, q)

\* Mutant of Accepts: the session is trusted as it was when the request was validated.
AcceptsAsValidated(s, seq) == session[s].lastSeq < seq

Accepts(s, seq) == Active(s) /\ session[s].lastSeq < seq

ProgressCommit(h) ==
    /\ request[h].pc = "progress"
    /\ Accepts(request[h].s, request[h].seq)
    /\ LET s == request[h].s
           entry == <<session[s].ordinal, request[h].seq>>
           applied == Newer(progress, entry)
       IN /\ session' = [session EXCEPT ![s].lastSeq = request[h].seq]
          /\ progress' = IF applied THEN entry ELSE progress
          /\ Becomes(h, IF applied THEN [pc |-> "caching", entry |-> entry] ELSE Idle)
    /\ UNCHANGED <<profile, processed, requestOf, qualified, slot, cache, releasing,
                   unrecorded, now>>

CacheProgress(h) ==
    /\ request[h].pc = "caching"
    /\ cache' = IF Newer(cache, request[h].entry) THEN request[h].entry ELSE cache
    /\ Becomes(h, Idle)
    /\ UNCHANGED <<profile, processed, dataVars, slot, releasing, unrecorded, now>>

CacheExpires ==
    /\ cache' = <<0, 0>>
    /\ UNCHANGED <<profile, processed, dataVars, slot, request, releasing, unrecorded, now>>

(***************************************************************************)
(* POST events.  The table of the event ids seen is abstracted: an event   *)
(* with a known id is answered as a duplicate or refused, and changes      *)
(* nothing (RequestEnds); here the id is new.                              *)
(***************************************************************************)
EventAccepted(h, type) ==
    /\ request[h].pc = "event"
    /\ request[h].type = type
    /\ Active(request[h].s)
    /\ Becomes(h, Idle)
    /\ UNCHANGED <<profile, processed, requestOf, progress, slot, cache, unrecorded, now>>

EventStarted(h) ==
    /\ EventAccepted(h, "started")
    /\ session' = [session EXCEPT ![request[h].s].state = "playing"]
    /\ UNCHANGED <<qualified, releasing>>

\* Mutant of FirstView: every qualified event counts.
AnyView(s) == TRUE

FirstView(s) == ~session[s].qualified

EventQualified(h) ==
    /\ EventAccepted(h, "qualified")
    /\ session[request[h].s].state = "playing"
    /\ session' = [session EXCEPT ![request[h].s].qualified = TRUE]
    /\ qualified' = [qualified EXCEPT ![request[h].s] =
                       IF FirstView(request[h].s) THEN @ + 1 ELSE @]
    /\ UNCHANGED releasing

EventCloses(h, type) ==
    /\ type \in {"stopped", "failed"}
    /\ EventAccepted(h, type)
    /\ session' = Closed({request[h].s}, type)
    /\ releasing' = releasing \union {request[h].s}
    /\ UNCHANGED qualified

(***************************************************************************)
(* The administrator, the reaper, and the deletion of the profile.         *)
(***************************************************************************)
Terminate(s) ==
    /\ s \in Created
    /\ session' = Closed({s}, "stopped")
    /\ releasing' = releasing \union {s}
    /\ UNCHANGED <<profile, processed, requestOf, progress, qualified, slot, cache, request,
                   unrecorded, now>>

Reap ==
    LET lapsed == {s \in Sessions : session[s].state \in Open /\ ~InTime(s)}
    IN /\ lapsed # {}
       /\ session' = Closed(lapsed, "expired")
       /\ releasing' = releasing \union lapsed
       /\ UNCHANGED <<profile, processed, requestOf, progress, qualified, slot, cache, request,
                      unrecorded, now>>

DeleteProfile ==
    /\ profile = "active"
    /\ profile' = "deleted"
    /\ UNCHANGED <<processed, dataVars, slot, cache, request, releasing, unrecorded, now>>

Ended == {s \in Sessions : session[s].state \in Open}

\* profile.deleted is delivered at least once.  Only the first delivery deletes the watch
\* progress; when no session is left to stop, the slots of stopped ones are released again.
\* The last call, to the cache, may fail.
ProfileDeleted ==
    /\ profile = "deleted"
    /\ processed' = TRUE
    /\ session' = Closed(Ended, "stopped")
    /\ progress' = IF processed THEN progress ELSE <<0, 0>>
    /\ releasing' = releasing \union
         IF Ended # {} THEN Ended ELSE {s \in Sessions : session[s].state = "stopped"}
    /\ cache' \in {cache, <<0, 0>>}
    /\ UNCHANGED <<profile, requestOf, qualified, slot, request, unrecorded, now>>

\* A transaction lasts far less than the unit of the clock, a fraction of the session TTL.
TransactionOpen == \E h \in Handlers : request[h].pc \in {"inserting", "refreshing"}

Tick ==
    /\ now < MaxTime
    /\ ~TransactionOpen
    /\ now' = now + 1
    /\ UNCHANGED <<profile, processed, dataVars, slot, cache, request, releasing, unrecorded>>

Receive(h) ==
    \/ \E k \in Keys : ReceiveCreate(h, k)
    \/ \E s \in Sessions :
          \/ ReceiveHeartbeat(h, s)
          \/ \E seq \in Seqs : ReceiveProgress(h, s, seq)
          \/ \E type \in SentTypes : ReceiveEvent(h, s, type)

Create(h) ==
    \/ \E s \in Sessions : ReserveNew(h, s)
    \/ InsertCommit(h)
    \/ InsertFails(h)
    \/ ReserveAgain(h)
    \/ RefreshCommit(h)
    \/ RefreshRefused(h)
    \/ ResolveCommit(h)
    \/ ResolveFails(h)
    \/ ResolveFailsUnrecorded(h)

Report(h) ==
    \/ HeartbeatCommit(h)
    \/ HeartbeatRollsBack(h)
    \/ ProgressCommit(h)
    \/ CacheProgress(h)
    \/ EventStarted(h)
    \/ EventQualified(h)
    \/ \E type \in EventTypes : EventCloses(h, type)

Next ==
    \/ \E h \in Handlers : Receive(h) \/ Create(h) \/ Report(h) \/ RequestEnds(h)
    \/ \E s \in Sessions : Release(s) \/ ReleaseLost(s) \/ Terminate(s)
    \/ Reap
    \/ DeleteProfile
    \/ ProfileDeleted
    \/ CacheExpires
    \/ Tick

Spec == Init /\ [][Next]_vars

-----------------------------------------------------------------------------
(***************************************************************************)
(* Safety.                                                                 *)
(***************************************************************************)
\* A session that the database holds live keeps its slot in Redis until it expires, although
\* the two stores share no transaction and slots are released by calls that come late: no
\* release ever hits a session that is live, unless its failure could not be recorded.
LiveHoldsSlot ==
    \A s \in Sessions \ unrecorded : Live(s) => slot[s] >= session[s].expires

\* Never more streams than the user's plan allows, counting every session whose failure the
\* database recorded, whatever creations, retries, heartbeats and closings compete.
Streaming == {s \in Sessions \ unrecorded : Live(s)}

StreamsWithinLimit == Cardinality(Streaming) <= Limit

\* Once the deletion of the profile has been processed no watch progress of it is left, and
\* none comes back from a report that was validated before.
DeletedProfileKeepsNoProgress == processed => progress = <<0, 0>>

\* One view per session: exactly one playback.qualified for a session that qualified, none
\* for another, however many qualified events with different ids arrive.
ViewCountedOnce == \A s \in Sessions : qualified[s] = IF session[s].qualified THEN 1 ELSE 0

(***************************************************************************)
(* Action properties.                                                      *)
(***************************************************************************)
\* A session that was stopped, has failed or has expired is never opened again, by a retry
\* with its key, by a source that is resolved late, or by a heartbeat.
ClosedStaysClosed ==
    [][\A s \in Sessions : session[s].state \in Terminal => session'[s].state = session[s].state
      ]_session

\* Watch progress never moves back, whichever of two devices reports last, in the database
\* and in the cache alike; it only disappears, with its profile or when the cache expires.
ProgressForward ==
    [][/\ Before(progress, progress') \/ progress' \in {progress, <<0, 0>>}
       /\ Before(cache, cache') \/ cache' \in {cache, <<0, 0>>}]_<<progress, cache>>

(***************************************************************************)
(* Playback implements StreamLimit.                                        *)
(***************************************************************************)
Phase(s) ==
    CASE session[s].state = "absent" -> "none"
      [] session[s].state \in Open -> "open"
      [] OTHER -> "closed"

Phases == [s \in Sessions |-> Phase(s)]

Allowance == INSTANCE StreamLimit WITH phase <- Phases, streaming <- Streaming

\* The limit as its user understands it: a session starts once and only while fewer than the
\* plan's number stream, and one that was closed, or whose time was over, never streams again,
\* though PostgreSQL and Redis share no transaction and requests are retried and come late.
KeepsLimit == Allowance!Spec
=============================================================================
