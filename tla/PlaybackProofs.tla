---------------------------- MODULE PlaybackProofs ----------------------------
(***************************************************************************)
(* Theorems about Playback, for any number of sessions, handlers and keys  *)
(* and any stream limit, session lifetime and bounds.                      *)
(*                                                                         *)
(* Redis and PostgreSQL share no transaction, so the limit is argued in    *)
(* two halves: Redis never holds more slots than the limit, and a session  *)
(* that PostgreSQL holds live has its slot.  The second half is where the  *)
(* order of the two writes matters: a slot is taken before the row is      *)
(* written, and released only after the row was closed.                    *)
(***************************************************************************)
EXTENDS Playback, FiniteSetTheorems, TLAPS

(***************************************************************************)
(* The inductive invariant.                                                *)
(***************************************************************************)
HeldSessions == {s \in Sessions : Held(s)}

WithinLimit == IsFiniteSet(HeldSessions) /\ Cardinality(HeldSessions) <= Limit

\* No session outlives a slot that is taken now.
Terms == \A s \in Sessions : session[s].expires <= now + TTL

\* A slot is released only of a session that is not open, or was given up unrecorded.
ReleasesClosed == \A s \in releasing : s \in unrecorded \/ session[s].state \notin Open

\* The transaction that inserts a session has its slot and is alone with it.
InsertsAlone ==
    \A h \in Handlers : request[h].pc = "inserting" =>
        LET s == request[h].s
        IN  /\ session[s].state = "absent" /\ s \notin releasing
            /\ slot[s] >= now + TTL
            /\ \A g \in Handlers \ {h} : request[g].pc = "inserting" => request[g].s # s

\* The transaction that extends a session has its slot unless the session was closed.
RefreshesHeld ==
    \A h \in Handlers : request[h].pc = "refreshing" =>
        LET s == request[h].s
        IN  /\ InTime(s) /\ session[s].state \in {"ready", "playing"} \union Terminal
            /\ session[s].state \in Open /\ s \notin unrecorded => slot[s] >= now + TTL

\* A source is resolved for a session that was inserted.
ResolvesInserted ==
    \A h \in Handlers : request[h].pc = "resolving" => session[request[h].s].state # "absent"

Slots ==
    /\ Terms /\ ReleasesClosed /\ InsertsAlone /\ RefreshesHeld /\ ResolvesInserted
    /\ LiveHoldsSlot

\* A report in flight is about a session that exists, and that was stopped if the deletion
\* of the profile has been processed.
ReportsStopped ==
    \A h \in Handlers : request[h].pc = "progress" =>
        /\ session[request[h].s].state # "absent"
        /\ processed => session[request[h].s].state \in Terminal

Rows ==
    /\ IsFiniteSet(Created)
    /\ \A s \in Sessions : session[s].state = "absent" => ~session[s].qualified
    /\ ViewCountedOnce
    /\ processed => profile = "deleted"
    /\ ReportsStopped
    /\ DeletedProfileKeepsNoProgress

IInv == TypeOK /\ WithinLimit /\ Slots /\ Rows

(***************************************************************************)
(* Records.                                                                *)
(***************************************************************************)
LEMMA RequestTyped ==
  ASSUME TypeOK, NEW h \in Handlers
  PROVE  /\ request[h] \in Request
         /\ request[h].pc \in {"create", "inserting", "refreshing"} => request[h].key \in Keys
         /\ request[h].pc \in {"inserting", "refreshing", "resolving", "heartbeat", "progress",
                               "event"} => request[h].s \in Sessions
         /\ request[h].pc = "progress" => request[h].seq \in Seqs
         /\ request[h].pc = "caching" => request[h].entry \in Nat \X Nat
  BY DEF TypeOK, Request, Idle

LEMMA RowTyped ==
  ASSUME TypeOK, NEW s \in Sessions
  PROVE  /\ session[s] \in Row
         /\ session[s].state \in Open \union Terminal \union {"absent"}
         /\ session[s].ordinal \in Nat /\ session[s].expires \in Nat
         /\ session[s].lastSeq \in Nat
         /\ slot[s] \in Nat /\ qualified[s] \in Nat
  BY DEF TypeOK, Row

\* Closing changes the state of open sessions and nothing else.
LEMMA ClosedRows ==
  ASSUME TypeOK, NEW set, NEW state \in Terminal
  PROVE  /\ Closed(set, state) \in [Sessions -> Row]
         /\ \A s \in Sessions :
               /\ s \in set /\ session[s].state \in Open => Closed(set, state)[s].state = state
               /\ s \notin set \/ session[s].state \notin Open =>
                     Closed(set, state)[s] = session[s]
               /\ Closed(set, state)[s].expires = session[s].expires
               /\ Closed(set, state)[s].qualified = session[s].qualified
<1>1. ASSUME NEW s \in Sessions PROVE [session[s] EXCEPT !.state = state] \in Row
  BY DEF TypeOK, Row
<1> QED
  BY <1>1, RowTyped DEF Closed, TypeOK, Row

(***************************************************************************)
(* Redis never holds more slots than the limit.                            *)
(***************************************************************************)
LEMMA FewerSlots ==
  ASSUME WithinLimit, TypeOK, HeldSessions' \subseteq HeldSessions
  PROVE  WithinLimit'
<1>1. IsFiniteSet(HeldSessions') /\ Cardinality(HeldSessions') <= Cardinality(HeldSessions)
  BY FS_Subset DEF WithinLimit
<1>2. Cardinality(HeldSessions) \in Nat /\ Cardinality(HeldSessions') \in Nat
  BY <1>1, FS_CardinalityType DEF WithinLimit
<1> QED
  BY <1>1, <1>2, PlaybackAssumption DEF WithinLimit

\* The scores after s was given one: all that were held and that of s.
LEMMA ScoredSlots ==
  ASSUME TypeOK, NEW s \in Sessions
  PROVE  /\ Scored(s) \in [Sessions -> Nat]
         /\ Scored(s)[s] = now + TTL
         /\ \A x \in Sessions \ {s} : Scored(s)[x] = IF Held(x) THEN slot[x] ELSE 0
  BY PlaybackAssumption DEF Scored, TypeOK, Held

LEMMA OneMoreSlot ==
  ASSUME WithinLimit, TypeOK, NEW s \in Sessions, CanReserve(s), slot' = Scored(s), now' = now
  PROVE  WithinLimit'
<1>1. HeldSessions' = HeldSessions \union {s}
  BY ScoredSlots, PlaybackAssumption DEF HeldSessions, Held, TypeOK
<1>2. Cardinality(HeldSessions) \in Nat
  BY FS_CardinalityType DEF WithinLimit
<1>3. CASE s \in HeldSessions
  BY <1>1, <1>3 DEF WithinLimit
<1>4. CASE s \notin HeldSessions
  <2>1. Cardinality(HeldSessions) < Limit
    BY <1>4 DEF CanReserve, HeldSessions
  <2>2. IsFiniteSet(HeldSessions') /\ Cardinality(HeldSessions') = Cardinality(HeldSessions) + 1
    BY <1>1, <1>4, FS_AddElement DEF WithinLimit
  <2> QED
    BY <1>2, <2>1, <2>2, PlaybackAssumption DEF WithinLimit
<1> QED
  BY <1>3, <1>4

(***************************************************************************)
(* Types.                                                                  *)
(***************************************************************************)
\* The invariant in the terms a step is about: all but the clock, the profile and the caches.
LEMMA TypeKept ==
  ASSUME TypeOK, session' \in [Sessions -> Row], request' \in [Handlers -> Request],
         slot' \in [Sessions -> Nat], releasing' \subseteq Sessions, unrecorded' \subseteq Sessions,
         progress' \in Nat \X Nat, cache' \in Nat \X Nat, qualified' \in [Sessions -> Nat],
         requestOf' \in [Keys -> Sessions \union {None}], UNCHANGED <<profile, processed, now>>
  PROVE  TypeOK'
<1>1. processed' \in BOOLEAN
  BY Zenon DEF TypeOK
<1> QED
  BY <1>1 DEF TypeOK

LEMMA BecomesTyped ==
  ASSUME TypeOK, NEW h \in Handlers, NEW r \in Request, Becomes(h, r)
  PROVE  request' \in [Handlers -> Request]
  BY DEF TypeOK, Becomes

LEMMA IdleTyped == Idle \in Request
  BY DEF Request

LEMMA ReceiveTyped ==
  ASSUME TypeOK, NEW h \in Handlers, Receive(h)
  PROVE  TypeOK'
<1>1. ASSUME NEW r \in Request, Validated(h, r) PROVE TypeOK'
  <2> USE <1>1 DEF Validated
  <2>1. request' \in [Handlers -> Request]
    BY BecomesTyped
  <2> QED
    BY <2>1, TypeKept DEF dataVars, TypeOK
<1>2. ASSUME NEW k \in Keys, ReceiveCreate(h, k) PROVE TypeOK'
  BY <1>1, <1>2 DEF ReceiveCreate, Request
<1>3. ASSUME NEW s \in Sessions, ReceiveHeartbeat(h, s) PROVE TypeOK'
  BY <1>1, <1>3 DEF ReceiveHeartbeat, Request
<1>4. ASSUME NEW s \in Sessions, NEW seq \in Seqs, ReceiveProgress(h, s, seq) PROVE TypeOK'
  BY <1>1, <1>4 DEF ReceiveProgress, Request
<1>5. ASSUME NEW s \in Sessions, NEW type \in SentTypes, ReceiveEvent(h, s, type) PROVE TypeOK'
  BY <1>1, <1>5, PlaybackAssumption DEF ReceiveEvent, Request
<1> QED
  BY <1>2, <1>3, <1>4, <1>5 DEF Receive

LEMMA CreateTyped ==
  ASSUME TypeOK, IsFiniteSet(Created), NEW h \in Handlers, Create(h)
  PROVE  TypeOK'
<1> USE PlaybackAssumption, RequestTyped, IdleTyped
<1>1. ASSUME NEW s \in Sessions, ReserveNew(h, s) PROVE TypeOK'
  <2>1. [pc |-> "inserting", key |-> request[h].key, s |-> s] \in Request
    BY <1>1 DEF ReserveNew, Request
  <2>2. slot' \in [Sessions -> Nat] /\ request' \in [Handlers -> Request]
    BY <1>1, <2>1, ScoredSlots, BecomesTyped DEF ReserveNew
  <2> QED
    BY <1>1, <2>2, TypeKept DEF ReserveNew, dataVars, TypeOK
<1>2. CASE InsertCommit(h)
  <2>1. [pc |-> "resolving", s |-> request[h].s] \in Request
    BY <1>2 DEF InsertCommit, Request
  <2>2. [state |-> "reserved", ordinal |-> Cardinality(Created) + 1, expires |-> now + TTL,
         lastSeq |-> 0, qualified |-> FALSE] \in Row
    <3>1. Cardinality(Created) + 1 \in Nat /\ now + TTL \in Nat
      BY FS_CardinalityType DEF TypeOK
    <3> QED
      BY <3>1 DEF Row, Open
  <2>3. session' \in [Sessions -> Row] /\ request' \in [Handlers -> Request]
    BY <1>2, <2>1, <2>2, BecomesTyped DEF InsertCommit, TypeOK
  <2>4. requestOf' \in [Keys -> Sessions \union {None}]
    BY <1>2 DEF InsertCommit, TypeOK
  <2> QED
    BY <1>2, <2>3, <2>4, TypeKept DEF InsertCommit, TypeOK
<1>3. CASE InsertFails(h) \/ RefreshRefused(h)
  <2>1. request' \in [Handlers -> Request] /\ releasing' \subseteq Sessions
    BY <1>3, BecomesTyped DEF InsertFails, RefreshRefused, TypeOK
  <2> QED
    BY <1>3, <2>1, TypeKept DEF InsertFails, RefreshRefused, dataVars, TypeOK
<1>4. CASE ReserveAgain(h)
  <2> DEFINE s == requestOf[request[h].key]
  <2>1. s \in Sessions
    BY <1>4 DEF ReserveAgain, TypeOK
  <2>2. [pc |-> "refreshing", key |-> request[h].key, s |-> s] \in Request
    BY <1>4, <2>1 DEF ReserveAgain, Request
  <2>3. slot' \in [Sessions -> Nat] /\ request' \in [Handlers -> Request]
    BY <1>4, <2>1, <2>2, ScoredSlots, BecomesTyped DEF ReserveAgain
  <2> QED
    BY <1>4, <2>3, TypeKept DEF ReserveAgain, dataVars, TypeOK
<1>5. CASE RefreshCommit(h)
  <2>1. [pc |-> "resolving", s |-> request[h].s] \in Request
    BY <1>5 DEF RefreshCommit, Request
  <2>2. [session[request[h].s] EXCEPT !.expires = now + TTL] \in Row
    BY <1>5, RowTyped DEF RefreshCommit, Row, TypeOK
  <2>3. session' \in [Sessions -> Row] /\ request' \in [Handlers -> Request]
    BY <1>5, <2>1, <2>2, BecomesTyped DEF RefreshCommit, TypeOK
  <2> QED
    BY <1>5, <2>3, TypeKept DEF RefreshCommit, TypeOK
<1>6. CASE ResolveCommit(h)
  <2>1. ASSUME NEW state \in Open
        PROVE  [session[request[h].s] EXCEPT !.state = state] \in Row
    BY <1>6, RowTyped DEF ResolveCommit, Row, TypeOK
  <2>2. session' \in [Sessions -> Row] /\ request' \in [Handlers -> Request]
    BY <1>6, <2>1, BecomesTyped DEF ResolveCommit, TypeOK, Open
  <2> QED
    BY <1>6, <2>2, TypeKept DEF ResolveCommit, TypeOK
<1>7. CASE ResolveFails(h)
  <2>1. session' \in [Sessions -> Row] /\ request' \in [Handlers -> Request]
    BY <1>7, ClosedRows, BecomesTyped DEF ResolveFails, FailedSession, Terminal
  <2> QED
    BY <1>7, <2>1, TypeKept DEF ResolveFails, TypeOK
<1>8. CASE ResolveFailsUnrecorded(h)
  <2>1. request' \in [Handlers -> Request]
    BY <1>8, BecomesTyped DEF ResolveFailsUnrecorded
  <2> QED
    BY <1>8, <2>1, TypeKept DEF ResolveFailsUnrecorded, dataVars, TypeOK
<1> QED
  BY <1>1, <1>2, <1>3, <1>4, <1>5, <1>6, <1>7, <1>8 DEF Create

LEMMA ReportTyped ==
  ASSUME TypeOK, NEW h \in Handlers, Report(h) \/ RequestEnds(h)
  PROVE  TypeOK'
<1> USE PlaybackAssumption, RequestTyped, IdleTyped
<1>1. CASE HeartbeatCommit(h)
  <2>1. [session[request[h].s] EXCEPT !.expires = now + TTL] \in Row
    BY <1>1, RowTyped DEF HeartbeatCommit, Row, TypeOK
  <2>2. session' \in [Sessions -> Row] /\ slot' \in [Sessions -> Nat]
        /\ request' \in [Handlers -> Request]
    BY <1>1, <2>1, ScoredSlots, BecomesTyped DEF HeartbeatCommit, TypeOK
  <2> QED
    BY <1>1, <2>2, TypeKept DEF HeartbeatCommit, TypeOK
<1>2. CASE HeartbeatRollsBack(h)
  <2>1. slot' \in [Sessions -> Nat] /\ request' \in [Handlers -> Request]
    BY <1>2, ScoredSlots, BecomesTyped DEF HeartbeatRollsBack
  <2> QED
    BY <1>2, <2>1, TypeKept DEF HeartbeatRollsBack, dataVars, TypeOK
<1>3. CASE ProgressCommit(h)
  <2> DEFINE s == request[h].s
             entry == <<session[s].ordinal, request[h].seq>>
  <2>1. s \in Sessions /\ entry \in Nat \X Nat
    BY <1>3, RowTyped DEF ProgressCommit, Seqs
  <2>2. [session[s] EXCEPT !.lastSeq = request[h].seq] \in Row
    BY <1>3, <2>1, RowTyped DEF ProgressCommit, Row, Seqs
  <2>3. session' \in [Sessions -> Row]
    BY <1>3, <2>1, <2>2 DEF ProgressCommit, TypeOK
  <2>4. [pc |-> "caching", entry |-> entry] \in Request
    BY <2>1 DEF Request
  <2>5. progress' \in Nat \X Nat /\ request' \in [Handlers -> Request]
    BY <1>3, <2>1, <2>4, BecomesTyped DEF ProgressCommit, TypeOK
  <2> QED
    BY <1>3, <2>3, <2>5, TypeKept DEF ProgressCommit, TypeOK
<1>4. CASE CacheProgress(h)
  <2>1. cache' \in Nat \X Nat /\ request' \in [Handlers -> Request]
    BY <1>4, BecomesTyped DEF CacheProgress, TypeOK
  <2> QED
    BY <1>4, <2>1, TypeKept DEF CacheProgress, dataVars, TypeOK
<1>5. CASE EventStarted(h)
  <2>1. [session[request[h].s] EXCEPT !.state = "playing"] \in Row
    BY <1>5, RowTyped DEF EventStarted, EventAccepted, Row, Open
  <2>2. session' \in [Sessions -> Row] /\ request' \in [Handlers -> Request]
    BY <1>5, <2>1, BecomesTyped DEF EventStarted, EventAccepted, TypeOK
  <2> QED
    BY <1>5, <2>2, TypeKept DEF EventStarted, EventAccepted, TypeOK
<1>6. CASE EventQualified(h)
  <2>1. [session[request[h].s] EXCEPT !.qualified = TRUE] \in Row
    BY <1>6, RowTyped DEF EventQualified, EventAccepted, Row
  <2>2. session' \in [Sessions -> Row] /\ request' \in [Handlers -> Request]
    BY <1>6, <2>1, BecomesTyped DEF EventQualified, EventAccepted, TypeOK
  <2>3. qualified' \in [Sessions -> Nat]
    BY <1>6 DEF EventQualified, EventAccepted, TypeOK
  <2> QED
    BY <1>6, <2>2, <2>3, TypeKept DEF EventQualified, EventAccepted, TypeOK
<1>7. ASSUME NEW type \in EventTypes, EventCloses(h, type) PROVE TypeOK'
  <2>1. session' \in [Sessions -> Row] /\ request' \in [Handlers -> Request]
    BY <1>7, ClosedRows, BecomesTyped DEF EventCloses, EventAccepted, Terminal
  <2> QED
    BY <1>7, <2>1, TypeKept DEF EventCloses, EventAccepted, TypeOK
<1>8. CASE RequestEnds(h)
  <2>1. request' \in [Handlers -> Request]
    BY <1>8, BecomesTyped DEF RequestEnds
  <2> QED
    BY <1>8, <2>1, TypeKept DEF RequestEnds, dataVars, TypeOK
<1> QED
  BY <1>1, <1>2, <1>3, <1>4, <1>5, <1>6, <1>7, <1>8 DEF Report

LEMMA TypeStep ==
  ASSUME TypeOK, IsFiniteSet(Created), [Next]_vars
  PROVE  TypeOK'
<1>1. ASSUME NEW h \in Handlers, Receive(h) \/ Create(h) \/ Report(h) \/ RequestEnds(h)
      PROVE  TypeOK'
  BY <1>1, ReceiveTyped, CreateTyped, ReportTyped
<1>2. ASSUME NEW s \in Sessions, Release(s) \/ ReleaseLost(s) PROVE TypeOK'
  <2>1. slot' \in [Sessions -> Nat] /\ releasing' \subseteq Sessions
    BY <1>2 DEF Release, ReleaseLost, TypeOK
  <2> QED
    BY <1>2, <2>1, TypeKept DEF Release, ReleaseLost, dataVars, TypeOK
<1>3. ASSUME NEW s \in Sessions, Terminate(s) PROVE TypeOK'
  <2>1. session' \in [Sessions -> Row]
    BY <1>3, ClosedRows DEF Terminate, Terminal
  <2> QED
    BY <1>3, <2>1, TypeKept DEF Terminate, TypeOK
<1>4. CASE Reap
  <2>1. session' \in [Sessions -> Row]
    BY <1>4, ClosedRows DEF Reap, Terminal
  <2> QED
    BY <1>4, <2>1, TypeKept DEF Reap, TypeOK
<1>5. CASE DeleteProfile
  <2>1. processed' \in BOOLEAN
    BY <1>5, Zenon DEF DeleteProfile, TypeOK
  <2> QED
    BY <1>5, <2>1 DEF DeleteProfile, dataVars, TypeOK
<1>6. CASE ProfileDeleted
  <2>1. session' \in [Sessions -> Row]
    BY <1>6, ClosedRows DEF ProfileDeleted, Terminal
  <2>2. releasing' \subseteq Sessions
    BY <1>6 DEF ProfileDeleted, Ended, TypeOK
  <2> QED
    BY <1>6, <2>1, <2>2 DEF ProfileDeleted, TypeOK
<1>7. CASE CacheExpires
  <2>1. cache' \in Nat \X Nat
    BY <1>7 DEF CacheExpires
  <2> QED
    BY <1>7, <2>1, TypeKept DEF CacheExpires, dataVars, TypeOK
<1>8. CASE Tick
  <2>1. processed' \in BOOLEAN
    BY <1>8, Zenon DEF Tick, TypeOK
  <2> QED
    BY <1>8, <2>1 DEF Tick, dataVars, TypeOK
<1>9. CASE UNCHANGED vars
  BY <1>9, TypeKept DEF vars, dataVars, TypeOK
<1> QED
  BY <1>1, <1>2, <1>3, <1>4, <1>5, <1>6, <1>7, <1>8, <1>9 DEF Next

(***************************************************************************)
(* The limit: a slot is added only by a script that has counted them.      *)
(***************************************************************************)
LEMMA SlotsUntouched == ASSUME IInv, UNCHANGED <<slot, now>> PROVE WithinLimit'
  BY FewerSlots DEF IInv, HeldSessions, Held

LEMMA LimitStep ==
  ASSUME IInv, [Next]_vars
  PROVE  WithinLimit'
<1> USE DEF IInv
<1>1. ASSUME NEW h \in Handlers, Receive(h) \/ RequestEnds(h) PROVE WithinLimit'
  BY <1>1, SlotsUntouched DEF Receive, ReceiveCreate, ReceiveHeartbeat, ReceiveProgress,
     ReceiveEvent, Validated, RequestEnds
<1>2. ASSUME NEW h \in Handlers, NEW s \in Sessions, ReserveNew(h, s) PROVE WithinLimit'
  BY <1>2, OneMoreSlot DEF ReserveNew
<1>3. ASSUME NEW h \in Handlers, ReserveAgain(h) PROVE WithinLimit'
  <2>1. requestOf[request[h].key] \in Sessions
    BY <1>3, RequestTyped DEF ReserveAgain, TypeOK
  <2> QED
    BY <1>3, <2>1, OneMoreSlot DEF ReserveAgain
<1>4. ASSUME NEW h \in Handlers, HeartbeatCommit(h) \/ HeartbeatRollsBack(h) PROVE WithinLimit'
  <2>1. request[h].s \in Sessions
    BY <1>4, RequestTyped DEF HeartbeatCommit, HeartbeatRollsBack
  <2>2. CanReserve(request[h].s)
    BY <1>4 DEF HeartbeatCommit, HeartbeatRollsBack, Renewable, CanReserve
  <2> QED
    BY <1>4, <2>1, <2>2, OneMoreSlot DEF HeartbeatCommit, HeartbeatRollsBack
<1>5. ASSUME NEW h \in Handlers,
             \/ InsertCommit(h) \/ InsertFails(h) \/ RefreshCommit(h) \/ RefreshRefused(h)
             \/ ResolveCommit(h) \/ ResolveFails(h) \/ ResolveFailsUnrecorded(h)
      PROVE  WithinLimit'
  BY <1>5, SlotsUntouched DEF InsertCommit, InsertFails, RefreshCommit, RefreshRefused,
     ResolveCommit, ResolveFails, ResolveFailsUnrecorded
<1>6. ASSUME NEW h \in Handlers,
             \/ ProgressCommit(h) \/ CacheProgress(h) \/ EventStarted(h) \/ EventQualified(h)
             \/ \E type \in EventTypes : EventCloses(h, type)
      PROVE  WithinLimit'
  BY <1>6, SlotsUntouched DEF ProgressCommit, CacheProgress, EventStarted, EventQualified,
     EventCloses, EventAccepted
<1>7. ASSUME NEW s \in Sessions, Release(s) PROVE WithinLimit'
  <2>1. HeldSessions' \subseteq HeldSessions
    BY <1>7 DEF Release, HeldSessions, Held, TypeOK
  <2> QED
    BY <2>1, FewerSlots
<1>8. ASSUME NEW s \in Sessions, ReleaseLost(s) \/ Terminate(s) PROVE WithinLimit'
  BY <1>8, SlotsUntouched DEF ReleaseLost, Terminate
<1>9. CASE Reap \/ DeleteProfile \/ ProfileDeleted \/ CacheExpires \/ UNCHANGED vars
  BY <1>9, SlotsUntouched DEF Reap, DeleteProfile, ProfileDeleted, CacheExpires, vars
<1>10. CASE Tick
  <2>1. HeldSessions' \subseteq HeldSessions
    BY <1>10 DEF Tick, HeldSessions, Held, TypeOK
  <2> QED
    BY <2>1, FewerSlots
<1> QED
  BY <1>1, <1>2, <1>3, <1>4, <1>5, <1>6, <1>7, <1>8, <1>9, <1>10 DEF Next, Create, Report

(***************************************************************************)
(* Sessions and their slots.                                               *)
(***************************************************************************)
\* A request that holds no transaction and resolves no source.
Apart(r) == r.pc \notin {"inserting", "refreshing", "resolving"}

\* Requests end or arrive; the slots about to be released are not of open sessions, nor of
\* one that is being inserted.
LEMMA SlotsAtRest ==
  ASSUME IInv, UNCHANGED <<session, slot, now>>, unrecorded \subseteq unrecorded',
         \A s \in releasing' \ releasing :
            /\ s \in unrecorded' \/ session[s].state \notin Open
            /\ \A h \in Handlers : request'[h].pc = "inserting" => request'[h].s # s,
         \A h \in Handlers : request'[h] = request[h] \/ Apart(request'[h])
  PROVE  Slots'
<1> USE DEF IInv, Slots, Apart
<1>1. Terms' /\ ReleasesClosed' /\ LiveHoldsSlot'
  BY DEF Terms, ReleasesClosed, LiveHoldsSlot, Live, InTime
<1>2. InsertsAlone'
  BY DEF InsertsAlone
<1>3. RefreshesHeld' /\ ResolvesInserted'
  BY DEF RefreshesHeld, ResolvesInserted, InTime
<1> QED
  BY <1>1, <1>2, <1>3

\* A slot is given to a session that is in time, or is about to be inserted.
LEMMA SlotTaken ==
  ASSUME IInv, NEW s \in Sessions, slot' = Scored(s),
         UNCHANGED <<session, now, releasing, unrecorded>>
  PROVE  /\ Terms' /\ ReleasesClosed' /\ LiveHoldsSlot'
         /\ \A x \in Sessions : slot[x] >= now + TTL => slot'[x] >= now + TTL
<1> USE PlaybackAssumption, RowTyped, ScoredSlots DEF IInv, Slots
<1>1. Terms' /\ ReleasesClosed'
  BY DEF Terms, ReleasesClosed
<1>2. now \in Nat
  BY DEF TypeOK
<1>3. LiveHoldsSlot'
  BY <1>2 DEF Terms, LiveHoldsSlot, Live, InTime, Held
<1>4. \A x \in Sessions : slot[x] >= now + TTL => slot'[x] >= now + TTL
  <2> SUFFICES ASSUME NEW x \in Sessions, slot[x] >= now + TTL PROVE slot'[x] >= now + TTL
    OBVIOUS
  <2>1. slot[x] \in Nat /\ TTL > 0 /\ TTL \in Nat
    OBVIOUS
  <2>2. CASE x = s
    BY <1>2, <2>1, <2>2
  <2>3. CASE x # s
    <3>1. Held(x)
      BY <1>2, <2>1 DEF Held
    <3> QED
      BY <2>3, <3>1
  <2> QED
    BY <2>2, <2>3
<1> QED
  BY <1>1, <1>3, <1>4

\* Sessions are closed, and their slots, or those of sessions closed before, are about to
\* be released.
LEMMA SlotsClosed ==
  ASSUME IInv, NEW set, NEW state \in Terminal, session' = Closed(set, state),
         releasing \subseteq releasing', releasing' \subseteq Sessions,
         \A s \in releasing' \ releasing :
            session[s].state # "absent" /\ (s \in set \/ session[s].state \notin Open),
         UNCHANGED <<slot, now, unrecorded>>,
         \A h \in Handlers : request'[h] = request[h] \/ Apart(request'[h])
  PROVE  Slots'
<1> USE ClosedRows, RequestTyped DEF IInv, Slots, Apart
<1>1. \A s \in Sessions : session'[s].state = session[s].state \/ session'[s].state = state
  OBVIOUS
<1>2. \A s \in Sessions : session[s].state = "absent" => session'[s].state = "absent"
  BY DEF Open
<1>3. \A s \in Sessions : session[s].state # "absent" => session'[s].state # "absent"
  BY DEF Terminal
<1>4. \A s \in Sessions : session'[s].state \in Open => session[s].state = session'[s].state
  BY <1>1 DEF Open, Terminal
<1>5. Terms' /\ LiveHoldsSlot'
  BY <1>4 DEF Terms, LiveHoldsSlot, Live, InTime
<1>6. ReleasesClosed'
  <2> SUFFICES ASSUME NEW s \in releasing', s \notin unrecorded PROVE session'[s].state \notin Open
    BY DEF ReleasesClosed
  <2>1. CASE s \in releasing
    BY <2>1, <1>4 DEF ReleasesClosed
  <2>2. CASE s \notin releasing
    BY <2>2, <1>4 DEF Open, Terminal
  <2> QED
    BY <2>1, <2>2
<1>7. InsertsAlone'
  BY <1>2 DEF InsertsAlone
<1>8. RefreshesHeld'
  BY <1>1, <1>4 DEF RefreshesHeld, InTime
<1>9. ResolvesInserted'
  BY <1>3 DEF ResolvesInserted
<1> QED
  BY <1>5, <1>6, <1>7, <1>8, <1>9

\* An open session changes; it stays open and within its slot.
LEMMA SlotsOpened ==
  ASSUME IInv, NEW s \in Sessions, NEW row \in Row, session' = [session EXCEPT ![s] = row],
         session[s].state \in Open, row.state \in Open,
         session[s].state \in {"ready", "playing"} => row.state \in {"ready", "playing"},
         row.expires > now, row.expires <= now + TTL, s \notin unrecorded => slot[s] >= row.expires,
         UNCHANGED <<slot, now, releasing, unrecorded>>,
         \A h \in Handlers : request'[h] = request[h] \/ Apart(request'[h])
                               \/ request'[h] = [pc |-> "resolving", s |-> s]
  PROVE  Slots'
<1> USE RequestTyped, RowTyped DEF IInv, Slots, Apart
<1>1. /\ session'[s] = row
      /\ \A x \in Sessions \ {s} : session'[x] = session[x]
  BY DEF TypeOK
<1>2. Terms' /\ LiveHoldsSlot'
  BY <1>1 DEF Terms, LiveHoldsSlot, Live, InTime
<1>3. ReleasesClosed'
  BY <1>1 DEF ReleasesClosed, TypeOK
<1>4. InsertsAlone'
  BY <1>1 DEF InsertsAlone, Open
<1>5. RefreshesHeld'
  <2> SUFFICES ASSUME NEW h \in Handlers, request[h].pc = "refreshing", request'[h] = request[h],
                      request[h].s = s
               PROVE  /\ row.state \in {"ready", "playing"}
                      /\ s \notin unrecorded => slot[s] >= now + TTL
    BY <1>1 DEF RefreshesHeld, InTime
  <2> QED
    BY DEF RefreshesHeld, Terminal, Open
<1>6. ResolvesInserted'
  BY <1>1 DEF ResolvesInserted, Open
<1> QED
  BY <1>2, <1>3, <1>4, <1>5, <1>6

LEMMA CreateSlots ==
  ASSUME IInv, NEW h \in Handlers, Create(h)
  PROVE  Slots'
<1> USE PlaybackAssumption, RequestTyped, RowTyped DEF IInv
<1>1. ASSUME NEW s \in Sessions, ReserveNew(h, s) PROVE Slots'
  <2> USE <1>1 DEF ReserveNew, Becomes, Slots
  <2>1. /\ request'[h] = [pc |-> "inserting", key |-> request[h].key, s |-> s]
        /\ \A g \in Handlers \ {h} : request'[g] = request[g]
    BY DEF TypeOK
  <2>2. /\ Terms' /\ ReleasesClosed' /\ LiveHoldsSlot'
        /\ \A x \in Sessions : slot[x] >= now + TTL => slot'[x] >= now + TTL
    BY SlotTaken DEF dataVars
  <2>3. slot'[s] = now + TTL
    BY ScoredSlots
  <2>4. slot'[s] >= now + TTL
    BY <2>3 DEF TypeOK
  <2>5. InsertsAlone'
    BY <2>1, <2>2, <2>4 DEF InsertsAlone, dataVars
  <2>6. RefreshesHeld' /\ ResolvesInserted'
    BY <2>1, <2>2 DEF RefreshesHeld, ResolvesInserted, InTime, dataVars
  <2> QED
    BY <2>2, <2>5, <2>6
<1>2. CASE InsertCommit(h)
  <2> USE <1>2 DEF InsertCommit, Becomes, Slots
  <2> DEFINE s == request[h].s
  <2>1. /\ request'[h] = [pc |-> "resolving", s |-> s]
        /\ \A g \in Handlers \ {h} : request'[g] = request[g]
    BY DEF TypeOK
  <2>2. /\ s \in Sessions
        /\ session'[s].state = "reserved" /\ session'[s].expires = now + TTL
        /\ \A x \in Sessions \ {s} : session'[x] = session[x]
    BY DEF TypeOK
  <2>3. /\ session[s].state = "absent" /\ s \notin releasing /\ slot[s] >= now + TTL
        /\ \A g \in Handlers \ {h} : request[g].pc = "inserting" => request[g].s # s
    BY DEF InsertsAlone
  <2>4. now + TTL \in Nat /\ now + TTL <= now + TTL
    BY DEF TypeOK
  <2>5. Terms' /\ LiveHoldsSlot'
    BY <2>2, <2>3, <2>4 DEF Terms, LiveHoldsSlot, Live, InTime
  <2>6. ReleasesClosed'
    BY <2>2, <2>3 DEF ReleasesClosed, TypeOK
  <2>7. InsertsAlone'
    BY <2>1, <2>2, <2>3 DEF InsertsAlone
  <2>8. RefreshesHeld'
    BY <2>1, <2>2, <2>3 DEF RefreshesHeld, InTime, Terminal
  <2>9. ResolvesInserted'
    BY <2>1, <2>2 DEF ResolvesInserted
  <2> QED
    BY <2>5, <2>6, <2>7, <2>8, <2>9
<1>3. CASE InsertFails(h)
  <2>1. /\ request'[h] = Idle /\ \A g \in Handlers \ {h} : request'[g] = request[g]
    BY <1>3 DEF InsertFails, Becomes, TypeOK
  <2>2. /\ session[request[h].s].state = "absent"
        /\ \A g \in Handlers \ {h} : request[g].pc = "inserting" => request[g].s # request[h].s
    BY <1>3 DEF InsertFails, Slots, InsertsAlone
  <2> QED
    BY <1>3, <2>1, <2>2, SlotsAtRest DEF InsertFails, Open, Idle, Apart, dataVars
<1>4. CASE ReserveAgain(h)
  <2> USE <1>4 DEF ReserveAgain, Becomes, Slots
  <2> DEFINE s == requestOf[request[h].key]
  <2>1. s \in Sessions
    BY DEF TypeOK
  <2>2. /\ request'[h] = [pc |-> "refreshing", key |-> request[h].key, s |-> s]
        /\ \A g \in Handlers \ {h} : request'[g] = request[g]
    BY DEF TypeOK
  <2>3. /\ Terms' /\ ReleasesClosed' /\ LiveHoldsSlot'
        /\ \A x \in Sessions : slot[x] >= now + TTL => slot'[x] >= now + TTL
    BY <2>1, SlotTaken DEF dataVars
  <2>4. slot'[s] >= now + TTL
    BY <2>1, ScoredSlots DEF TypeOK
  <2>5. InsertsAlone'
    BY <2>2, <2>3 DEF InsertsAlone, dataVars
  <2>6. InTime(s) /\ session[s].state \in {"ready", "playing"} /\ UNCHANGED <<session, now>>
    BY DEF Active, dataVars
  <2> HIDE DEF s
  <2>7. RefreshesHeld'
    <3> SUFFICES ASSUME NEW g \in Handlers, request'[g].pc = "refreshing"
                 PROVE  LET x == request'[g].s
                        IN  /\ session[x].expires > now
                            /\ session[x].state \in {"ready", "playing"} \union Terminal
                            /\ session[x].state \in Open /\ x \notin unrecorded =>
                                  slot'[x] >= now + TTL
      BY <2>6 DEF RefreshesHeld, InTime
    <3>1. CASE g = h
      BY <2>2, <2>4, <2>6, <3>1 DEF InTime
    <3>2. CASE g # h
      BY <2>2, <2>3, <3>2 DEF RefreshesHeld, InTime
    <3> QED
      BY <3>1, <3>2
  <2>8. ResolvesInserted'
    BY <2>2, <2>6 DEF ResolvesInserted
  <2> QED
    BY <2>3, <2>5, <2>7, <2>8
<1>5. CASE RefreshCommit(h)
  <2> DEFINE s == request[h].s
             row == [session[s] EXCEPT !.expires = now + TTL]
  <2>1. s \in Sessions /\ now + TTL \in Nat /\ session' = [session EXCEPT ![s] = row]
    BY <1>5 DEF RefreshCommit, TypeOK
  <2>2. session[s].state \in {"ready", "playing"} /\ row.state = session[s].state
        /\ row.expires = now + TTL /\ row \in Row
    BY <1>5, <2>1 DEF RefreshCommit, Active, Row
  <2>3. now + TTL > now /\ now + TTL <= now + TTL
    BY DEF TypeOK
  <2>4. s \notin unrecorded => slot[s] >= row.expires
    BY <1>5, <2>2 DEF RefreshCommit, Slots, RefreshesHeld, Open
  <2>5. \A g \in Handlers : request'[g] = request[g] \/ request'[g] = [pc |-> "resolving", s |-> s]
    BY <1>5 DEF RefreshCommit, Becomes, TypeOK
  <2>6. UNCHANGED <<slot, now, releasing, unrecorded>>
    BY <1>5 DEF RefreshCommit
  <2> HIDE DEF s, row
  <2> QED
    BY <2>1, <2>2, <2>3, <2>4, <2>5, <2>6, SlotsOpened, ZenonT(40) DEF Open
<1>6. CASE RefreshRefused(h)
  <2>1. /\ request'[h] = Idle /\ \A g \in Handlers \ {h} : request'[g] = request[g]
    BY <1>6 DEF RefreshRefused, Becomes, TypeOK
  <2>2. session[request[h].s].state \in Terminal
    BY <1>6 DEF RefreshRefused, Active, Slots, RefreshesHeld
  <2>3. session[request[h].s].state # "absent" /\ session[request[h].s].state \notin Open
    BY <2>2 DEF Open, Terminal
  <2>4. \A g \in Handlers : request'[g].pc = "inserting" => request'[g].s # request[h].s
    BY <2>1, <2>3 DEF Idle, Slots, InsertsAlone
  <2> QED
    BY <1>6, <2>1, <2>3, <2>4, SlotsAtRest DEF RefreshRefused, Idle, Apart, dataVars
<1>7. CASE ResolveCommit(h)
  <2> DEFINE s == request[h].s
             row == [session[s] EXCEPT !.state = IF @ \in {"ready", "playing"} THEN @ ELSE "ready"]
  <2>1. s \in Sessions /\ session' = [session EXCEPT ![s] = row]
    BY <1>7 DEF ResolveCommit
  <2>2. /\ session[s].state \in Open /\ row.state \in {"ready", "playing"}
        /\ row.expires = session[s].expires /\ row \in Row
    BY <1>7, <2>1 DEF ResolveCommit, StillOpen, Live, Row, Open
  <2>3. row.expires > now /\ row.expires <= now + TTL
        /\ (s \notin unrecorded => slot[s] >= row.expires)
    BY <1>7, <2>1, <2>2 DEF ResolveCommit, StillOpen, Live, InTime, Slots, Terms, LiveHoldsSlot
  <2>4. \A g \in Handlers : request'[g] = request[g] \/ Apart(request'[g])
    BY <1>7 DEF ResolveCommit, Becomes, TypeOK, Apart, Idle
  <2> HIDE DEF s, row
  <2> QED
    BY <1>7, <2>1, <2>2, <2>3, <2>4, SlotsOpened DEF ResolveCommit, Open
<1>8. CASE ResolveFails(h)
  <2>1. session[request[h].s].state # "absent" /\ request[h].s \in Sessions
    BY <1>8 DEF ResolveFails, Slots, ResolvesInserted
  <2>2. \A g \in Handlers : request'[g] = request[g] \/ Apart(request'[g])
    BY <1>8 DEF ResolveFails, Becomes, TypeOK, Apart, Idle
  <2> QED
    BY <1>8, <2>1, <2>2, SlotsClosed DEF ResolveFails, FailedSession, Terminal, TypeOK
<1>9. CASE ResolveFailsUnrecorded(h)
  <2>1. session[request[h].s].state # "absent"
    BY <1>9 DEF ResolveFailsUnrecorded, Slots, ResolvesInserted
  <2>2. \A g \in Handlers : request'[g] = request[g] \/ request'[g] = Idle
    BY <1>9 DEF ResolveFailsUnrecorded, Becomes, TypeOK
  <2>3. \A g \in Handlers : request'[g].pc = "inserting" => request'[g].s # request[h].s
    BY <2>1, <2>2 DEF Idle, Slots, InsertsAlone
  <2> QED
    BY <1>9, <2>2, <2>3, SlotsAtRest DEF ResolveFailsUnrecorded, Idle, Apart, dataVars
<1> QED
  BY <1>1, <1>2, <1>3, <1>4, <1>5, <1>6, <1>7, <1>8, <1>9 DEF Create

\* A slot is renewed with, or without, the session it belongs to.
LEMMA HeartbeatSlots ==
  ASSUME IInv, NEW h \in Handlers, HeartbeatCommit(h) \/ HeartbeatRollsBack(h)
  PROVE  Slots'
<1> USE PlaybackAssumption, RequestTyped, RowTyped DEF IInv, Slots
<1> DEFINE s == request[h].s
<1>1. s \in Sessions /\ Active(s) /\ Held(s) /\ slot' = Scored(s)
  BY DEF HeartbeatCommit, HeartbeatRollsBack, Renewable
<1>2. \A g \in Handlers : request'[g] = request[g] \/ Apart(request'[g])
  BY DEF HeartbeatCommit, HeartbeatRollsBack, Becomes, TypeOK, Apart, Idle
<1>3. UNCHANGED <<now, releasing, unrecorded>>
  BY DEF HeartbeatCommit, HeartbeatRollsBack
<1>4. /\ slot'[s] = now + TTL /\ now + TTL \in Nat /\ now \in Nat
      /\ now + TTL >= now + TTL /\ now + TTL > now
  BY <1>1, ScoredSlots DEF TypeOK
<1>5. \A x \in Sessions : slot[x] >= now + TTL => slot'[x] >= now + TTL
  <2> SUFFICES ASSUME NEW x \in Sessions, x # s, slot[x] >= now + TTL
               PROVE  slot'[x] >= now + TTL
    BY <1>4
  <2>1. Held(x)
    BY <1>4 DEF Held
  <2> QED
    BY <1>1, <2>1, ScoredSlots
<1>6. /\ \A x \in Sessions \ {s} : session'[x] = session[x]
      /\ session'[s].state = session[s].state
      /\ session'[s].expires \in {session[s].expires, now + TTL}
  BY <1>1, <1>4 DEF HeartbeatCommit, HeartbeatRollsBack, dataVars, TypeOK, Row
<1> HIDE DEF s
<1>7. session[s].expires > now /\ session[s].state \in {"ready", "playing"}
  BY <1>1 DEF Active, InTime
<1>8. session'[s].expires > now /\ session'[s].expires <= now + TTL
  BY <1>1, <1>4, <1>6, <1>7 DEF Terms
<1>9. Terms'
  BY <1>3, <1>6, <1>8 DEF Terms
<1>10. ReleasesClosed'
  BY <1>3, <1>6 DEF ReleasesClosed, TypeOK
<1>11. InsertsAlone'
  BY <1>2, <1>3, <1>5, <1>6 DEF InsertsAlone, Apart
<1>12. RefreshesHeld'
  <2> SUFFICES ASSUME NEW g \in Handlers, request'[g] = request[g], request[g].pc = "refreshing"
               PROVE  LET x == request[g].s
                      IN  /\ session'[x].expires > now
                          /\ session'[x].state \in {"ready", "playing"} \union Terminal
                          /\ session'[x].state \in Open /\ x \notin unrecorded =>
                                slot'[x] >= now + TTL
    BY <1>2, <1>3 DEF RefreshesHeld, InTime, Apart
  <2> QED
    BY <1>4, <1>5, <1>6, <1>7, <1>8 DEF RefreshesHeld, InTime
<1>13. ResolvesInserted'
  BY <1>2, <1>6 DEF ResolvesInserted, Apart
<1>14. LiveHoldsSlot'
  <2> SUFFICES ASSUME NEW x \in Sessions, x \notin unrecorded, x # s,
                      session[x].state \in Open, session[x].expires > now
               PROVE  slot'[x] >= session[x].expires
    BY <1>3, <1>4, <1>6, <1>8 DEF LiveHoldsSlot, Live, InTime
  <2>1. slot[x] >= session[x].expires /\ Held(x)
    BY <1>4 DEF LiveHoldsSlot, Live, InTime, Held
  <2> QED
    BY <1>1, <2>1, ScoredSlots
<1> QED
  BY <1>9, <1>10, <1>11, <1>12, <1>13, <1>14

LEMMA ReportSlots ==
  ASSUME IInv, NEW h \in Handlers, Receive(h) \/ Report(h) \/ RequestEnds(h)
  PROVE  Slots'
<1> USE PlaybackAssumption, RequestTyped, RowTyped DEF IInv
<1>1. ASSUME NEW r, Validated(h, r), Apart(r) PROVE Slots'
  BY <1>1, SlotsAtRest DEF Validated, Becomes, TypeOK, dataVars
<1>2. CASE Receive(h)
  BY <1>1, <1>2 DEF Receive, ReceiveCreate, ReceiveHeartbeat, ReceiveProgress, ReceiveEvent, Apart
<1>3. CASE HeartbeatCommit(h) \/ HeartbeatRollsBack(h)
  BY <1>3, HeartbeatSlots
<1>4. CASE CacheProgress(h) \/ RequestEnds(h)
  BY <1>4, SlotsAtRest DEF CacheProgress, RequestEnds, Becomes, TypeOK, Apart, Idle, dataVars
<1>5. ASSUME NEW row \in Row, session' = [session EXCEPT ![request[h].s] = row],
             Active(request[h].s), request[h].s \in Sessions,
             row.state \in {"ready", "playing"}, row.expires = session[request[h].s].expires,
             UNCHANGED <<slot, now, releasing, unrecorded>>,
             \A g \in Handlers : request'[g] = request[g] \/ Apart(request'[g])
      PROVE  Slots'
  <2> DEFINE s == request[h].s
  <2>1. session[s].state \in Open /\ row.state \in Open /\ s \in Sessions
    BY <1>5 DEF Active, Open
  <2>2. row.expires > now /\ row.expires <= now + TTL
        /\ (s \notin unrecorded => slot[s] >= row.expires)
    BY <1>5, <2>1 DEF Active, Live, InTime, Slots, Terms, LiveHoldsSlot
  <2> HIDE DEF s
  <2> QED
    BY <1>5, <2>1, <2>2, SlotsOpened DEF s
<1>6. CASE ProgressCommit(h)
  <2> DEFINE s == request[h].s
             row == [session[s] EXCEPT !.lastSeq = request[h].seq]
  <2>1. s \in Sessions /\ Active(s) /\ request[h].seq \in Nat
    BY <1>6 DEF ProgressCommit, Accepts, Seqs
  <2>2. session' = [session EXCEPT ![s] = row]
        /\ UNCHANGED <<slot, now, releasing, unrecorded>>
    BY <1>6 DEF ProgressCommit
  <2>3. row \in Row /\ row.state = session[s].state /\ row.expires = session[s].expires
    BY <2>1 DEF Row
  <2>4. \A g \in Handlers : request'[g] = request[g] \/ Apart(request'[g])
    BY <1>6 DEF ProgressCommit, Becomes, TypeOK, Apart, Idle
  <2> HIDE DEF row
  <2> QED
    BY <1>5, <2>1, <2>2, <2>3, <2>4 DEF Active
<1>7. CASE EventStarted(h)
  <2> DEFINE s == request[h].s
             row == [session[s] EXCEPT !.state = "playing"]
  <2>1. s \in Sessions /\ Active(s)
    BY <1>7 DEF EventStarted, EventAccepted
  <2>2. session' = [session EXCEPT ![s] = row]
        /\ UNCHANGED <<slot, now, releasing, unrecorded>>
    BY <1>7 DEF EventStarted, EventAccepted
  <2>3. row \in Row /\ row.state = "playing" /\ row.expires = session[s].expires
    BY <2>1 DEF Row, Open
  <2>4. \A g \in Handlers : request'[g] = request[g] \/ Apart(request'[g])
    BY <1>7 DEF EventStarted, EventAccepted, Becomes, TypeOK, Apart, Idle
  <2> HIDE DEF row
  <2> QED
    BY <1>5, <2>1, <2>2, <2>3, <2>4
<1>8. CASE EventQualified(h)
  <2> DEFINE s == request[h].s
             row == [session[s] EXCEPT !.qualified = TRUE]
  <2>1. s \in Sessions /\ Active(s)
    BY <1>8 DEF EventQualified, EventAccepted
  <2>2. session' = [session EXCEPT ![s] = row]
        /\ UNCHANGED <<slot, now, releasing, unrecorded>>
    BY <1>8 DEF EventQualified, EventAccepted
  <2>3. row \in Row /\ row.state = session[s].state /\ row.expires = session[s].expires
    BY <2>1 DEF Row
  <2>4. \A g \in Handlers : request'[g] = request[g] \/ Apart(request'[g])
    BY <1>8 DEF EventQualified, EventAccepted, Becomes, TypeOK, Apart, Idle
  <2> HIDE DEF row
  <2> QED
    BY <1>5, <2>1, <2>2, <2>3, <2>4 DEF Active
<1>9. ASSUME NEW type \in EventTypes, EventCloses(h, type) PROVE Slots'
  <2>1. type \in Terminal /\ request[h].s \in Sessions /\ session[request[h].s].state # "absent"
    BY <1>9 DEF EventCloses, EventAccepted, Terminal, Active
  <2>2. \A g \in Handlers : request'[g] = request[g] \/ Apart(request'[g])
    BY <1>9 DEF EventCloses, EventAccepted, Becomes, TypeOK, Apart, Idle
  <2> QED
    BY <1>9, <2>1, <2>2, SlotsClosed DEF EventCloses, EventAccepted, TypeOK
<1> QED
  BY <1>2, <1>3, <1>4, <1>6, <1>7, <1>8, <1>9 DEF Report

LEMMA SlotsStep ==
  ASSUME IInv, [Next]_vars
  PROVE  Slots'
<1> USE PlaybackAssumption, RequestTyped, RowTyped DEF IInv
<1>1. ASSUME NEW h \in Handlers, Receive(h) \/ Create(h) \/ Report(h) \/ RequestEnds(h)
      PROVE  Slots'
  BY <1>1, CreateSlots, ReportSlots
<1>2. ASSUME NEW s \in Sessions, Release(s) PROVE Slots'
  <2> USE <1>2 DEF Release, Slots
  <2>1. slot'[s] = 0 /\ \A x \in Sessions \ {s} : slot'[x] = slot[x]
    BY DEF TypeOK
  <2>2. s \in unrecorded \/ session[s].state \notin Open
    BY DEF ReleasesClosed
  <2>3. Terms' /\ ReleasesClosed'
    BY DEF Terms, ReleasesClosed, dataVars
  <2>4. LiveHoldsSlot'
    BY <2>1, <2>2 DEF LiveHoldsSlot, Live, InTime, dataVars
  <2>5. InsertsAlone'
    BY <2>1 DEF InsertsAlone, dataVars
  <2>6. RefreshesHeld' /\ ResolvesInserted'
    BY <2>1, <2>2 DEF RefreshesHeld, ResolvesInserted, InTime, dataVars
  <2> QED
    BY <2>3, <2>4, <2>5, <2>6
<1>3. ASSUME NEW s \in Sessions, ReleaseLost(s) PROVE Slots'
  BY <1>3, SlotsAtRest DEF ReleaseLost, dataVars
<1>4. ASSUME NEW s \in Sessions, Terminate(s) PROVE Slots'
  BY <1>4, SlotsClosed DEF Terminate, Created, Terminal, TypeOK
<1>5. CASE Reap
  <2> DEFINE lapsed == {s \in Sessions : session[s].state \in Open /\ ~InTime(s)}
  <2>1. session' = Closed(lapsed, "expired") /\ releasing' = releasing \union lapsed
    BY <1>5 DEF Reap
  <2>2. \A s \in lapsed : s \in Sessions /\ session[s].state # "absent"
    BY DEF Open
  <2> HIDE DEF lapsed
  <2> QED
    BY <1>5, <2>1, <2>2, SlotsClosed DEF Reap, Terminal, TypeOK
<1>6. CASE ProfileDeleted
  <2>1. \A s \in releasing' \ releasing :
           /\ s \in Sessions /\ session[s].state # "absent"
           /\ s \in Ended \/ session[s].state \notin Open
    BY <1>6 DEF ProfileDeleted, Ended, Open
  <2>2. releasing \subseteq releasing' /\ releasing' \subseteq Sessions
    BY <1>6 DEF ProfileDeleted, Ended, TypeOK
  <2> QED
    BY <1>6, <2>1, <2>2, SlotsClosed DEF ProfileDeleted, Terminal
<1>7. CASE DeleteProfile \/ CacheExpires \/ UNCHANGED vars
  BY <1>7, SlotsAtRest DEF DeleteProfile, CacheExpires, vars, dataVars
<1>8. CASE Tick
  <2> USE <1>8 DEF Tick, Slots
  <2>1. \A h \in Handlers : request[h].pc \notin {"inserting", "refreshing"}
    BY DEF TransactionOpen
  <2>2. InsertsAlone' /\ RefreshesHeld' /\ ResolvesInserted'
    BY <2>1 DEF InsertsAlone, RefreshesHeld, ResolvesInserted, dataVars
  <2>3. ReleasesClosed'
    BY DEF ReleasesClosed, dataVars
  <2>4. Terms' /\ LiveHoldsSlot'
    BY DEF Terms, LiveHoldsSlot, Live, InTime, dataVars, TypeOK
  <2> QED
    BY <2>2, <2>3, <2>4
<1> QED
  BY <1>1, <1>2, <1>3, <1>4, <1>5, <1>6, <1>7, <1>8 DEF Next

(***************************************************************************)
(* Views, progress and the deletion of the profile.                        *)
(***************************************************************************)
LEMMA RowsKept ==
  ASSUME IInv, UNCHANGED <<processed, profile, qualified>>,
         \A s \in Sessions : session'[s].state = "absent" <=> session[s].state = "absent",
         \A s \in Sessions : session[s].state \in Terminal => session'[s].state \in Terminal,
         \A s \in Sessions : session'[s].qualified = session[s].qualified,
         progress' = progress \/ ~processed,
         \A h \in Handlers :
            \/ request'[h] = request[h] \/ request'[h].pc # "progress"
            \/ /\ ~processed /\ request'[h].s \in Sessions
               /\ session[request'[h].s].state # "absent"
  PROVE  Rows'
<1> USE RequestTyped DEF IInv, Rows
<1>1. IsFiniteSet(Created')
  <2>1. Created' = Created
    BY DEF Created
  <2> QED
    BY <2>1
<1>2. (\A s \in Sessions : session[s].state = "absent" => ~session[s].qualified)'
  OBVIOUS
<1>3. ViewCountedOnce'
  BY DEF ViewCountedOnce
<1>4. (processed => profile = "deleted")' /\ DeletedProfileKeepsNoProgress'
  BY DEF DeletedProfileKeepsNoProgress
<1>5. ReportsStopped'
  <2> SUFFICES ASSUME NEW h \in Handlers, request'[h].pc = "progress"
               PROVE  /\ session'[request'[h].s].state # "absent"
                      /\ processed => session'[request'[h].s].state \in Terminal
    BY DEF ReportsStopped
  <2>1. CASE request'[h] = request[h]
    BY <2>1 DEF ReportsStopped
  <2>2. CASE request'[h] # request[h]
    BY <2>2
  <2> QED
    BY <2>1, <2>2
<1> QED
  BY <1>1, <1>2, <1>3, <1>4, <1>5

LEMMA RowsAtRest ==
  ASSUME IInv, UNCHANGED <<session, processed, profile, qualified, progress>>,
         \A h \in Handlers : request'[h] = request[h] \/ request'[h].pc # "progress"
  PROVE  Rows'
  BY RowsKept

LEMMA RowsClosed ==
  ASSUME IInv, NEW set, NEW state \in Terminal, session' = Closed(set, state),
         UNCHANGED <<processed, profile, qualified, progress>>,
         \A h \in Handlers : request'[h] = request[h] \/ request'[h].pc # "progress"
  PROVE  Rows'
<1>1. \A s \in Sessions :
         /\ session'[s].state = "absent" <=> session[s].state = "absent"
         /\ session[s].state \in Terminal => session'[s].state \in Terminal
         /\ session'[s].qualified = session[s].qualified
  BY ClosedRows DEF IInv, Open, Terminal
<1> QED
  BY <1>1, RowsKept

\* An open session is changed, and neither its view nor that it is open.
LEMMA RowsOpened ==
  ASSUME IInv, NEW s \in Sessions, session[s].state \in Open,
         \A x \in Sessions \ {s} : session'[x] = session[x],
         session'[s].state \in Open, session'[s].qualified = session[s].qualified,
         UNCHANGED <<processed, profile, qualified>>, progress' = progress \/ ~processed,
         \A h \in Handlers : request'[h] = request[h] \/ request'[h].pc # "progress"
  PROVE  Rows'
<1>1. \A x \in Sessions :
         /\ session'[x].state = "absent" <=> session[x].state = "absent"
         /\ session[x].state \in Terminal => session'[x].state \in Terminal
         /\ session'[x].qualified = session[x].qualified
  BY DEF Open, Terminal
<1> QED
  BY <1>1, RowsKept

LEMMA CreateRows ==
  ASSUME IInv, NEW h \in Handlers, Create(h)
  PROVE  Rows'
<1> USE RequestTyped, RowTyped DEF IInv
<1>1. ASSUME NEW s \in Sessions, ReserveNew(h, s) PROVE Rows'
  BY <1>1, RowsAtRest DEF ReserveNew, Becomes, TypeOK, dataVars
<1>2. CASE InsertCommit(h)
  <2> USE <1>2 DEF InsertCommit, Becomes, Rows
  <2> DEFINE s == request[h].s
  <2>1. /\ s \in Sessions /\ session[s].state = "absent"
        /\ session'[s].state = "reserved" /\ session'[s].qualified = FALSE
        /\ \A x \in Sessions \ {s} : session'[x] = session[x]
    BY DEF Slots, InsertsAlone, TypeOK
  <2>2. \A g \in Handlers : request'[g] = request[g] \/ request'[g].pc = "resolving"
    BY DEF TypeOK
  <2> HIDE DEF s
  <2>3. IsFiniteSet(Created')
    <3>1. Created' = Created \union {s}
      BY <2>1 DEF Created
    <3> QED
      BY <3>1, FS_AddElement
  <2>4. (\A x \in Sessions : session[x].state = "absent" => ~session[x].qualified)'
    BY <2>1
  <2>5. ViewCountedOnce'
    BY <2>1 DEF ViewCountedOnce
  <2>6. ReportsStopped'
    BY <2>1, <2>2 DEF ReportsStopped
  <2>7. (processed => profile = "deleted")' /\ DeletedProfileKeepsNoProgress'
    BY DEF DeletedProfileKeepsNoProgress
  <2> QED
    BY <2>3, <2>4, <2>5, <2>6, <2>7
<1>3. CASE InsertFails(h) \/ ReserveAgain(h) \/ RefreshRefused(h) \/ ResolveFailsUnrecorded(h)
  BY <1>3, RowsAtRest DEF InsertFails, ReserveAgain, RefreshRefused, ResolveFailsUnrecorded,
     Becomes, Idle, TypeOK, dataVars
<1>4. CASE RefreshCommit(h)
  <2>1. /\ request[h].s \in Sessions /\ session[request[h].s].state \in Open
        /\ \A x \in Sessions \ {request[h].s} : session'[x] = session[x]
        /\ session'[request[h].s].state = session[request[h].s].state
        /\ session'[request[h].s].qualified = session[request[h].s].qualified
    BY <1>4 DEF RefreshCommit, Active, Open, TypeOK, Row
  <2>2. \A g \in Handlers : request'[g] = request[g] \/ request'[g].pc # "progress"
    BY <1>4 DEF RefreshCommit, Becomes, TypeOK
  <2> QED
    BY <1>4, <2>1, <2>2, RowsOpened DEF RefreshCommit
<1>5. CASE ResolveCommit(h)
  <2>1. /\ request[h].s \in Sessions /\ session[request[h].s].state \in Open
        /\ \A x \in Sessions \ {request[h].s} : session'[x] = session[x]
        /\ session'[request[h].s].state \in Open
        /\ session'[request[h].s].qualified = session[request[h].s].qualified
    BY <1>5 DEF ResolveCommit, StillOpen, Live, Open, TypeOK, Row
  <2>2. \A g \in Handlers : request'[g] = request[g] \/ request'[g].pc # "progress"
    BY <1>5 DEF ResolveCommit, Becomes, TypeOK, Idle
  <2> QED
    BY <1>5, <2>1, <2>2, RowsOpened DEF ResolveCommit
<1>6. CASE ResolveFails(h)
  BY <1>6, RowsClosed DEF ResolveFails, FailedSession, Terminal, Becomes, Idle, TypeOK
<1> QED
  BY <1>1, <1>2, <1>3, <1>4, <1>5, <1>6 DEF Create

LEMMA ReceiveRows ==
  ASSUME IInv, NEW h \in Handlers, Receive(h)
  PROVE  Rows'
<1> USE DEF IInv
<1>1. ASSUME NEW r, Validated(h, r), r.pc # "progress" PROVE Rows'
  BY <1>1, RowsAtRest DEF Validated, Becomes, TypeOK, dataVars
<1>2. ASSUME NEW s \in Sessions, NEW seq \in Seqs, ReceiveProgress(h, s, seq) PROVE Rows'
  <2>1. ~processed /\ session[s].state # "absent"
    BY <1>2 DEF ReceiveProgress, Validated, Active, Rows
  <2>2. \A g \in Handlers :
           request'[g] = request[g] \/ request'[g] = [pc |-> "progress", s |-> s, seq |-> seq]
    BY <1>2 DEF ReceiveProgress, Validated, Becomes, TypeOK
  <2> QED
    BY <1>2, <2>1, <2>2, RowsKept DEF ReceiveProgress, Validated, dataVars
<1> QED
  BY <1>1, <1>2 DEF Receive, ReceiveCreate, ReceiveHeartbeat, ReceiveEvent

LEMMA ReportRows ==
  ASSUME IInv, NEW h \in Handlers, Report(h) \/ RequestEnds(h)
  PROVE  Rows'
<1> USE RequestTyped, RowTyped DEF IInv
<1>1. CASE HeartbeatCommit(h)
  <2>1. /\ request[h].s \in Sessions /\ session[request[h].s].state \in Open
        /\ \A x \in Sessions \ {request[h].s} : session'[x] = session[x]
        /\ session'[request[h].s].state = session[request[h].s].state
        /\ session'[request[h].s].qualified = session[request[h].s].qualified
    BY <1>1 DEF HeartbeatCommit, Renewable, Active, Open, TypeOK, Row
  <2>2. \A g \in Handlers : request'[g] = request[g] \/ request'[g].pc # "progress"
    BY <1>1 DEF HeartbeatCommit, Becomes, TypeOK, Idle
  <2> QED
    BY <1>1, <2>1, <2>2, RowsOpened DEF HeartbeatCommit
<1>2. CASE HeartbeatRollsBack(h) \/ CacheProgress(h) \/ RequestEnds(h)
  BY <1>2, RowsAtRest DEF HeartbeatRollsBack, CacheProgress, RequestEnds, Becomes, Idle, TypeOK,
     dataVars
<1>3. CASE ProgressCommit(h)
  <2>1. /\ request[h].s \in Sessions /\ session[request[h].s].state \in Open
        /\ \A x \in Sessions \ {request[h].s} : session'[x] = session[x]
        /\ session'[request[h].s].state = session[request[h].s].state
        /\ session'[request[h].s].qualified = session[request[h].s].qualified
    BY <1>3 DEF ProgressCommit, Accepts, Active, Open, TypeOK, Row
  <2>2. \A g \in Handlers : request'[g] = request[g] \/ request'[g].pc # "progress"
    BY <1>3 DEF ProgressCommit, Becomes, TypeOK, Idle
  <2>3. ~processed
    BY <1>3, <2>1 DEF ProgressCommit, Rows, ReportsStopped, Open, Terminal
  <2> QED
    BY <1>3, <2>1, <2>2, <2>3, RowsOpened DEF ProgressCommit
<1>4. CASE EventStarted(h)
  <2>1. /\ request[h].s \in Sessions /\ session[request[h].s].state \in Open
        /\ \A x \in Sessions \ {request[h].s} : session'[x] = session[x]
        /\ session'[request[h].s].state \in Open
        /\ session'[request[h].s].qualified = session[request[h].s].qualified
    BY <1>4 DEF EventStarted, EventAccepted, Active, Open, TypeOK, Row
  <2>2. \A g \in Handlers : request'[g] = request[g] \/ request'[g].pc # "progress"
    BY <1>4 DEF EventStarted, EventAccepted, Becomes, TypeOK, Idle
  <2> QED
    BY <1>4, <2>1, <2>2, RowsOpened DEF EventStarted, EventAccepted
<1>5. CASE EventQualified(h)
  <2> USE <1>5 DEF EventQualified, EventAccepted, Becomes, Rows
  <2> DEFINE s == request[h].s
  <2>1. /\ s \in Sessions /\ session[s].state = "playing"
        /\ session'[s].state = session[s].state /\ session'[s].qualified = TRUE
        /\ \A x \in Sessions \ {s} : session'[x] = session[x]
    BY DEF TypeOK, Row
  <2>2. /\ qualified'[s] = IF FirstView(s) THEN qualified[s] + 1 ELSE qualified[s]
        /\ \A x \in Sessions \ {s} : qualified'[x] = qualified[x]
    BY DEF TypeOK
  <2>3. \A g \in Handlers : request'[g] = request[g] \/ request'[g].pc # "progress"
    BY DEF TypeOK, Idle
  <2> HIDE DEF s
  <2>4. IsFiniteSet(Created')
    <3>1. Created' = Created
      BY <2>1 DEF Created
    <3> QED
      BY <3>1
  <2>5. (\A x \in Sessions : session[x].state = "absent" => ~session[x].qualified)'
    BY <2>1
  <2>6. ViewCountedOnce'
    <3>1. qualified'[s] = 1
      BY <2>1, <2>2 DEF ViewCountedOnce, FirstView
    <3>2. qualified'[s] = IF session'[s].qualified THEN 1 ELSE 0
      BY <2>1, <3>1
    <3>3. ASSUME NEW x \in Sessions, x # s
          PROVE  qualified'[x] = IF session'[x].qualified THEN 1 ELSE 0
      <4>1. qualified'[x] = qualified[x] /\ session'[x] = session[x]
        BY <2>1, <2>2, <3>3
      <4>2. qualified[x] = IF session[x].qualified THEN 1 ELSE 0
        BY Zenon DEF ViewCountedOnce
      <4> QED
        BY <4>1, <4>2, Zenon
    <3> QED
      BY <3>2, <3>3 DEF ViewCountedOnce
  <2>7. ReportsStopped'
    BY <2>1, <2>3 DEF ReportsStopped
  <2>8. (processed => profile = "deleted")' /\ DeletedProfileKeepsNoProgress'
    BY DEF DeletedProfileKeepsNoProgress
  <2> QED
    BY <2>4, <2>5, <2>6, <2>7, <2>8
<1>6. ASSUME NEW type \in EventTypes, EventCloses(h, type) PROVE Rows'
  <2>1. type \in Terminal
    BY <1>6 DEF EventCloses, Terminal
  <2>2. \A g \in Handlers : request'[g] = request[g] \/ request'[g].pc # "progress"
    BY <1>6 DEF EventCloses, EventAccepted, Becomes, TypeOK, Idle
  <2> QED
    BY <1>6, <2>1, <2>2, RowsClosed DEF EventCloses, EventAccepted
<1> QED
  BY <1>1, <1>2, <1>3, <1>4, <1>5, <1>6 DEF Report

LEMMA RowsStep ==
  ASSUME IInv, [Next]_vars
  PROVE  Rows'
<1> USE RequestTyped, RowTyped DEF IInv
<1>1. ASSUME NEW h \in Handlers, Receive(h) \/ Create(h) \/ Report(h) \/ RequestEnds(h)
      PROVE  Rows'
  BY <1>1, CreateRows, ReceiveRows, ReportRows
<1>2. ASSUME NEW s \in Sessions, Release(s) \/ ReleaseLost(s) PROVE Rows'
  BY <1>2, RowsAtRest DEF Release, ReleaseLost, dataVars
<1>3. ASSUME NEW s \in Sessions, Terminate(s) PROVE Rows'
  BY <1>3, RowsClosed DEF Terminate, Terminal
<1>4. CASE Reap
  BY <1>4, RowsClosed DEF Reap, Terminal
<1>5. CASE DeleteProfile
  BY <1>5 DEF DeleteProfile, Rows, dataVars, Created, ViewCountedOnce, ReportsStopped,
     DeletedProfileKeepsNoProgress
<1>6. CASE ProfileDeleted
  <2> USE <1>6 DEF ProfileDeleted, Rows
  <2>1. session' = Closed(Ended, "stopped") /\ "stopped" \in Terminal
    BY DEF Terminal
  <2>2. \A s \in Sessions :
           /\ session'[s].state = "absent" <=> session[s].state = "absent"
           /\ session[s].state # "absent" => session'[s].state \in Terminal
           /\ session'[s].qualified = session[s].qualified
    BY <2>1, ClosedRows DEF Open, Terminal, Ended
  <2>3. IsFiniteSet(Created')
    <3>1. Created' = Created
      BY <2>2 DEF Created
    <3> QED
      BY <3>1
  <2>4. (\A s \in Sessions : session[s].state = "absent" => ~session[s].qualified)'
    BY <2>2
  <2>5. ViewCountedOnce'
    BY <2>2 DEF ViewCountedOnce
  <2>6. ReportsStopped'
    BY <2>2 DEF ReportsStopped
  <2>7. (processed => profile = "deleted")' /\ DeletedProfileKeepsNoProgress'
    BY DEF DeletedProfileKeepsNoProgress
  <2> QED
    BY <2>3, <2>4, <2>5, <2>6, <2>7
<1>7. CASE CacheExpires \/ Tick \/ UNCHANGED vars
  BY <1>7, RowsAtRest DEF CacheExpires, Tick, vars, dataVars
<1> QED
  BY <1>1, <1>2, <1>3, <1>4, <1>5, <1>6, <1>7 DEF Next

(***************************************************************************)
(* The theorems.                                                           *)
(***************************************************************************)
\* The invariant holds at the start, and every step keeps it.
THEOREM PlaybackInvariant == Spec => []IInv
<1>1. Init => IInv
  <2> SUFFICES ASSUME Init PROVE IInv
    OBVIOUS
  <2> USE PlaybackAssumption DEF Init
  <2>1. TypeOK
    BY DEF TypeOK, Row, Request
  <2>2. WithinLimit
    <3>1. HeldSessions = {}
      BY DEF HeldSessions, Held
    <3> QED
      BY <3>1, FS_EmptySet DEF WithinLimit
  <2>3. Slots
    BY DEF Slots, Terms, ReleasesClosed, InsertsAlone, RefreshesHeld, ResolvesInserted,
       LiveHoldsSlot, Live, Open, Idle
  <2>4. IsFiniteSet(Created)
    <3>1. Created = {}
      BY DEF Created
    <3> QED
      BY <3>1, FS_EmptySet
  <2>5. Rows
    BY <2>4 DEF Rows, ViewCountedOnce, ReportsStopped, DeletedProfileKeepsNoProgress, Idle
  <2> QED
    BY <2>1, <2>2, <2>3, <2>5 DEF IInv
<1>2. IInv /\ [Next]_vars => IInv'
  <2> SUFFICES ASSUME IInv, [Next]_vars PROVE IInv'
    OBVIOUS
  <2>1. TypeOK'
    BY TypeStep DEF IInv, Rows
  <2> QED
    BY <2>1, LimitStep, SlotsStep, RowsStep DEF IInv
<1> QED
  BY <1>1, <1>2, PTL DEF Spec

\* Every variable keeps its type, with sessions, handlers and keys in any number.
THEOREM TypeCorrect == Spec => []TypeOK
<1>1. IInv => TypeOK
  BY DEF IInv
<1> QED
  BY <1>1, PlaybackInvariant, PTL

\* A session that the database holds live keeps its slot until it expires: no release that
\* comes late ever hits a live session whose failures were recorded.
THEOREM SlotKept == Spec => []LiveHoldsSlot
<1>1. IInv => LiveHoldsSlot
  BY DEF IInv, Slots
<1> QED
  BY <1>1, PlaybackInvariant, PTL

\* What streams has a slot in Redis.
LEMMA StreamsHeld == ASSUME IInv PROVE Streaming \subseteq HeldSessions
<1> SUFFICES ASSUME NEW s \in Sessions \ unrecorded, Live(s) PROVE slot[s] > now
  BY DEF Streaming, HeldSessions, Held
<1>1. slot[s] >= session[s].expires /\ session[s].expires > now
  BY DEF IInv, Slots, LiveHoldsSlot, Live, InTime
<1> QED
  BY <1>1, RowTyped DEF IInv, TypeOK

\* The plan's number of streams is never exceeded, for any limit and any number of
\* competing creations, retries, heartbeats and closings.
THEOREM LimitHolds == Spec => []StreamsWithinLimit
<1>1. IInv => StreamsWithinLimit
  <2> SUFFICES ASSUME IInv PROVE StreamsWithinLimit
    OBVIOUS
  <2>1. Streaming \subseteq HeldSessions
    BY StreamsHeld
  <2>2. /\ IsFiniteSet(HeldSessions) /\ Cardinality(HeldSessions) <= Limit
        /\ IsFiniteSet(Streaming) /\ Cardinality(Streaming) <= Cardinality(HeldSessions)
    BY <2>1, FS_Subset DEF IInv, WithinLimit
  <2>3. Cardinality(HeldSessions) \in Nat /\ Cardinality(Streaming) \in Nat
    BY <2>2, FS_CardinalityType
  <2> QED
    BY <2>2, <2>3, PlaybackAssumption DEF StreamsWithinLimit
<1> QED
  BY <1>1, PlaybackInvariant, PTL

\* However many qualified events arrive, a session counts as one view.
THEOREM OneViewEach == Spec => []ViewCountedOnce
<1>1. IInv => ViewCountedOnce
  BY DEF IInv, Rows
<1> QED
  BY <1>1, PlaybackInvariant, PTL

\* Reports validated before the profile was deleted bring none of its progress back.
THEOREM ProgressGone == Spec => []DeletedProfileKeepsNoProgress
<1>1. IInv => DeletedProfileKeepsNoProgress
  BY DEF IInv, Rows
<1> QED
  BY <1>1, PlaybackInvariant, PTL

\* A session that was stopped, has failed or has expired is never opened again.
THEOREM ClosedForGood == Spec => ClosedStaysClosed
<1> DEFINE Step == [\A s \in Sessions : session[s].state \in Terminal =>
                        session'[s].state = session[s].state]_session
<1>1. ASSUME IInv, [Next]_vars PROVE Step
  <2> USE <1>1, RequestTyped, RowTyped DEF IInv
  <2> DEFINE Kept == \A s \in Sessions : session[s].state \in Terminal =>
                         session'[s].state = session[s].state
  <2>1. ASSUME NEW set, NEW state \in Terminal, session' = Closed(set, state) PROVE Kept
    BY <2>1, ClosedRows DEF Open, Terminal
  <2>2. ASSUME NEW s \in Sessions, session[s].state \notin Terminal,
               \A x \in Sessions \ {s} : session'[x] = session[x]
        PROVE  Kept
    BY <2>2
  <2> HIDE DEF Kept
  <2>3. ASSUME NEW h \in Handlers, InsertCommit(h) PROVE Kept
    <3>1. request[h].s \in Sessions /\ session[request[h].s].state \notin Terminal
      BY <2>3 DEF InsertCommit, Slots, InsertsAlone, Terminal
    <3> QED
      BY <2>2, <2>3, <3>1 DEF InsertCommit, TypeOK
  <2>4. ASSUME NEW h \in Handlers, Active(request[h].s) \/ Live(request[h].s),
               request[h].s \in Sessions,
               \A x \in Sessions \ {request[h].s} : session'[x] = session[x]
        PROVE  Kept
    BY <2>2, <2>4 DEF Active, Live, Open, Terminal
  <2>5. ASSUME NEW h \in Handlers, RefreshCommit(h) \/ ResolveCommit(h) PROVE Kept
    BY <2>4, <2>5 DEF RefreshCommit, ResolveCommit, StillOpen, TypeOK
  <2>6. ASSUME NEW h \in Handlers,
               HeartbeatCommit(h) \/ ProgressCommit(h) \/ EventStarted(h) \/ EventQualified(h)
        PROVE  Kept
    BY <2>4, <2>6 DEF HeartbeatCommit, Renewable, ProgressCommit, Accepts, EventStarted,
       EventQualified, EventAccepted, TypeOK
  <2>7. ASSUME NEW h \in Handlers,
               ResolveFails(h) \/ \E type \in EventTypes : EventCloses(h, type)
        PROVE  Kept
    BY <2>1, <2>7 DEF ResolveFails, FailedSession, EventCloses, Terminal
  <2>8. ASSUME NEW s \in Sessions, Terminate(s) PROVE Kept
    BY <2>1, <2>8 DEF Terminate, Terminal
  <2>9. ASSUME Reap \/ ProfileDeleted PROVE Kept
    BY <2>1, <2>9 DEF Reap, ProfileDeleted, Terminal
  <2>10. ASSUME session' = session PROVE Kept
    BY <2>10 DEF Kept
  <2>11. ASSUME NEW h \in Handlers, Receive(h) \/ RequestEnds(h) PROVE Kept
    BY <2>10, <2>11 DEF Receive, ReceiveCreate, ReceiveHeartbeat, ReceiveProgress, ReceiveEvent,
       Validated, RequestEnds, dataVars
  <2>12. ASSUME NEW h \in Handlers, Create(h) PROVE Kept
    BY <2>3, <2>5, <2>7, <2>10, <2>12 DEF Create, ReserveNew, InsertFails, ReserveAgain,
       RefreshRefused, ResolveFailsUnrecorded, dataVars
  <2>13. ASSUME NEW h \in Handlers, Report(h) PROVE Kept
    BY <2>6, <2>7, <2>10, <2>13 DEF Report, HeartbeatRollsBack, CacheProgress, dataVars
  <2>14. ASSUME NEW s \in Sessions, Release(s) \/ ReleaseLost(s) PROVE Kept
    BY <2>10, <2>14 DEF Release, ReleaseLost, dataVars
  <2>15. ASSUME DeleteProfile \/ CacheExpires \/ Tick \/ UNCHANGED vars PROVE Kept
    BY <2>10, <2>15 DEF DeleteProfile, CacheExpires, Tick, vars, dataVars
  <2>16. Kept
    BY <1>1, <2>8, <2>9, <2>11, <2>12, <2>13, <2>14, <2>15 DEF Next
  <2> QED
    BY <2>16 DEF Kept
<1> QED
  BY <1>1, PlaybackInvariant, PTL DEF Spec, ClosedStaysClosed

\* Progress never moves back, in the database or in the cache.
THEOREM NeverBackwards == Spec => ProgressForward
<1> DEFINE Forward == /\ Before(progress, progress') \/ progress' \in {progress, <<0, 0>>}
                      /\ Before(cache, cache') \/ cache' \in {cache, <<0, 0>>}
<1>1. ASSUME [Next]_vars PROVE [Forward]_<<progress, cache>>
  <2>1. ASSUME NEW h \in Handlers, ProgressCommit(h) \/ CacheProgress(h) PROVE Forward
    BY <2>1 DEF ProgressCommit, CacheProgress, Newer, dataVars
  <2>2. ASSUME ProfileDeleted \/ CacheExpires PROVE Forward
    BY <2>2 DEF ProfileDeleted, CacheExpires, dataVars
  <2>3. ASSUME UNCHANGED <<progress, cache>> PROVE Forward
    BY <2>3
  <2> HIDE DEF Forward
  <2> DEFINE Done == [Forward]_<<progress, cache>>
  <2>4. ASSUME NEW h \in Handlers, Receive(h) \/ RequestEnds(h) PROVE Done
    BY <2>3, <2>4 DEF Receive, ReceiveCreate, ReceiveHeartbeat, ReceiveProgress, ReceiveEvent,
       Validated, RequestEnds, dataVars
  <2>5. ASSUME NEW h \in Handlers, Create(h) PROVE Done
    BY <2>3, <2>5 DEF Create, ReserveNew, InsertCommit, InsertFails, ReserveAgain,
       RefreshCommit, RefreshRefused, ResolveCommit, ResolveFails, ResolveFailsUnrecorded, dataVars
  <2>6. ASSUME NEW h \in Handlers, Report(h) PROVE Done
    BY <2>1, <2>3, <2>6 DEF Report, HeartbeatCommit, HeartbeatRollsBack, EventStarted,
       EventQualified, EventCloses, EventAccepted, dataVars
  <2>7. ASSUME NEW s \in Sessions, Release(s) \/ ReleaseLost(s) \/ Terminate(s) PROVE Done
    BY <2>3, <2>7 DEF Release, ReleaseLost, Terminate, dataVars
  <2>8. ASSUME Reap \/ DeleteProfile \/ Tick \/ UNCHANGED vars PROVE Done
    BY <2>3, <2>8 DEF Reap, DeleteProfile, Tick, vars, dataVars
  <2> HIDE DEF Done
  <2>9. ASSUME Forward PROVE Done
    BY <2>9 DEF Done
  <2>10. Done
    BY <1>1, <2>2, <2>4, <2>5, <2>6, <2>7, <2>8, <2>9 DEF Next
  <2> QED
    BY <2>10 DEF Done
<1> QED
  BY <1>1, PTL DEF Spec, ProgressForward

(***************************************************************************)
(* Playback implements StreamLimit: the insertion of a session starts a    *)
(* stream, every other step stops some or is not seen.                     *)
(***************************************************************************)
\* A failure that was not recorded is one of a session that was inserted.
UnrecordedExist == \A s \in unrecorded : session[s].state # "absent"

\* A row goes on: it is not inserted, not opened again, and is not live if it was not.
GoesOn(s) ==
    /\ \/ session'[s].state = session[s].state
       \/ session[s].state \in Open /\ session'[s].state \in Open \union Terminal
    /\ Live(s)' => Live(s)

LEMMA PhaseNext ==
  \A s : /\ session'[s].state = "absent" => Phase(s)' = "none"
         /\ session'[s].state \in Open => Phase(s)' = "open"
         /\ session'[s].state \in Terminal => Phase(s)' = "closed"
         /\ session[s].state = "absent" => Phase(s) = "none"
         /\ session[s].state \in Open => Phase(s) = "open"
         /\ session[s].state \in Terminal => Phase(s) = "closed"
  BY DEF Phase, Open, Terminal

LEMMA StopsOrGoesOn ==
  ASSUME TypeOK, unrecorded \subseteq unrecorded', \A s \in Sessions : GoesOn(s)
  PROVE  Allowance!Next
<1> DEFINE closed == {s \in Sessions : Phase(s)' # Phase(s)}
           lapsed == Streaming \ Streaming'
<1>1. \A s \in closed : Phase(s) = "open" /\ Phase(s)' = "closed" /\ ~Live(s)'
  <2> SUFFICES ASSUME NEW s \in closed
               PROVE  Phase(s) = "open" /\ Phase(s)' = "closed" /\ ~Live(s)'
    OBVIOUS
  <2>1. session[s].state \in Open \union Terminal \union {"absent"}
    BY RowTyped
  <2>2. session'[s].state # session[s].state
    BY DEF Phase
  <2>3. session[s].state \in Open /\ session'[s].state \in Terminal
    BY <2>2, PhaseNext DEF GoesOn
  <2> QED
    BY <2>3, PhaseNext DEF Live, Open, Terminal
<1>2. Streaming' \subseteq Streaming
  BY DEF Streaming, GoesOn
<1>3. \A s \in closed : s \notin Streaming'
  BY <1>1 DEF Streaming
<1>4. Phases' = [s \in Sessions |-> IF s \in closed THEN "closed" ELSE Phases[s]]
  BY <1>1 DEF Phases
<1>5. Streaming' = Streaming \ (closed \union lapsed)
  BY <1>2, <1>3
<1>6. \A s \in closed : Phases[s] = "open"
  BY <1>1 DEF Phases
<1>7. closed \in SUBSET Sessions /\ lapsed \in SUBSET Streaming
  OBVIOUS
<1> HIDE DEF closed, lapsed
<1>8. Allowance!Stop(closed, lapsed)
  BY <1>4, <1>5, <1>6 DEF Allowance!Stop
<1> QED
  BY <1>7, <1>8 DEF Allowance!Next

\* A session is inserted with a slot of its own, so that the others left one to take.
LEMMA InsertStarts ==
  ASSUME IInv, UnrecordedExist, NEW h \in Handlers, InsertCommit(h),
         NEW s \in Sessions, request[h].s = s
  PROVE  Allowance!Start(s)
<1>0. TypeOK
  BY DEF IInv
<1>1. /\ session[s].state = "absent" /\ slot[s] >= now + TTL
      /\ UNCHANGED <<unrecorded, now>>
      /\ session'[s].state = "reserved" /\ session'[s].expires = now + TTL
      /\ \A x \in Sessions \ {s} : session'[x] = session[x]
  BY <1>0 DEF IInv, Slots, InsertsAlone, InsertCommit, TypeOK
<1>2. s \notin unrecorded /\ s \notin Streaming /\ s \in HeldSessions
  BY <1>0, <1>1, RowTyped, PlaybackAssumption
  DEF UnrecordedExist, Streaming, Live, Open, HeldSessions, Held, TypeOK
<1>3. Cardinality(Streaming) < Limit
  <2>1. IsFiniteSet(HeldSessions) /\ Cardinality(HeldSessions) <= Limit
    BY DEF IInv, WithinLimit
  <2>2. Streaming \in SUBSET (HeldSessions \ {s})
    BY <1>2, StreamsHeld
  <2>3. /\ IsFiniteSet(HeldSessions \ {s})
        /\ Cardinality(HeldSessions \ {s}) = Cardinality(HeldSessions) - 1
    BY <1>2, <2>1, FS_RemoveElement
  <2>4. IsFiniteSet(Streaming) /\ Cardinality(Streaming) <= Cardinality(HeldSessions \ {s})
    BY <2>2, <2>3, FS_Subset
  <2>5. Cardinality(HeldSessions) \in Nat /\ Cardinality(Streaming) \in Nat
    BY <2>1, <2>4, FS_CardinalityType
  <2> QED
    BY <2>1, <2>3, <2>4, <2>5, PlaybackAssumption
<1>4. Phases' = [Phases EXCEPT ![s] = "open"]
  <2>1. Phase(s)' = "open" /\ \A x \in Sessions \ {s} : Phase(x)' = Phase(x)
    BY <1>1, PhaseNext DEF Phase, Open
  <2> QED
    BY <2>1 DEF Phases
<1>5. Streaming' = Streaming \union {s}
  <2>1. Live(s)'
    BY <1>0, <1>1, PlaybackAssumption DEF Live, InTime, Open, TypeOK
  <2>2. \A x \in Sessions \ {s} : Live(x)' <=> Live(x)
    BY <1>1 DEF Live, InTime
  <2> QED
    BY <1>0, <1>1, <1>2, <2>1, <2>2 DEF Streaming
<1>6. Phases[s] = "none"
  BY <1>0, <1>1, PhaseNext DEF Phases
<1> QED
  BY <1>3, <1>4, <1>5, <1>6 DEF Allowance!Start, Cardinality, Allowance!Cardinality

\* Rows that stay, that are closed, and the row of a live session.
LEMMA RowStays ==
  ASSUME TypeOK, UNCHANGED session, now' \in Nat, now <= now'
  PROVE  \A s \in Sessions : GoesOn(s)
  BY RowTyped DEF GoesOn, Live, InTime, TypeOK

LEMMA RowsClose ==
  ASSUME TypeOK, NEW set, NEW state \in Terminal, session' = Closed(set, state), now' = now
  PROVE  \A s \in Sessions : GoesOn(s)
  BY ClosedRows DEF GoesOn, Live, InTime

LEMMA LiveGoesOn ==
  ASSUME TypeOK, NEW s \in Sessions, Live(s), now' = now,
         session'[s].state \in Open, \A x \in Sessions \ {s} : session'[x] = session[x]
  PROVE  \A x \in Sessions : GoesOn(x)
  BY DEF GoesOn, Live, InTime

LEMMA SessionsGoOn ==
  ASSUME IInv, [Next]_vars
  PROVE  \/ \E h \in Handlers : InsertCommit(h)
         \/ unrecorded \subseteq unrecorded' /\ \A s \in Sessions : GoesOn(s)
<1> DEFINE On == unrecorded \subseteq unrecorded' /\ \A s \in Sessions : GoesOn(s)
<1>0. TypeOK
  BY DEF IInv
<1>1. ASSUME UNCHANGED <<session, now>>, unrecorded \subseteq unrecorded' PROVE On
  BY <1>0, <1>1, RowStays DEF TypeOK
<1>2. ASSUME NEW set, NEW state \in Terminal, session' = Closed(set, state),
             UNCHANGED <<unrecorded, now>>
      PROVE  On
  BY <1>0, <1>2, RowsClose
<1>3. ASSUME NEW s \in Sessions, Live(s), session'[s].state \in Open,
             \A x \in Sessions \ {s} : session'[x] = session[x], UNCHANGED <<unrecorded, now>>
      PROVE  On
  BY <1>0, <1>3, LiveGoesOn
<1> HIDE DEF On
<1> USE RequestTyped, RowTyped
<1>4. ASSUME NEW h \in Handlers, RefreshCommit(h) \/ HeartbeatCommit(h) \/ ProgressCommit(h) PROVE On
  <2>1. request[h].s \in Sessions /\ Live(request[h].s) /\ session[request[h].s].state \in Open
    BY <1>0, <1>4 DEF RefreshCommit, HeartbeatCommit, Renewable, ProgressCommit, Accepts, Active,
       Live, Open
  <2>2. /\ session'[request[h].s].state = session[request[h].s].state
        /\ \A x \in Sessions \ {request[h].s} : session'[x] = session[x]
        /\ UNCHANGED <<unrecorded, now>>
    BY <1>0, <1>4, <2>1 DEF RefreshCommit, HeartbeatCommit, ProgressCommit, TypeOK, Row
  <2> QED
    BY <1>3, <2>1, <2>2
<1>5. ASSUME NEW h \in Handlers, ResolveCommit(h) \/ EventStarted(h) \/ EventQualified(h) PROVE On
  <2>1. request[h].s \in Sessions /\ Live(request[h].s) /\ session[request[h].s].state \in Open
    BY <1>0, <1>5 DEF ResolveCommit, StillOpen, EventStarted, EventQualified, EventAccepted, Active,
       Live, Open
  <2>2. /\ session'[request[h].s].state \in Open
        /\ \A x \in Sessions \ {request[h].s} : session'[x] = session[x]
        /\ UNCHANGED <<unrecorded, now>>
    BY <1>0, <1>5, <2>1 DEF ResolveCommit, EventStarted, EventQualified, EventAccepted, TypeOK, Row, Open
  <2> QED
    BY <1>3, <2>1, <2>2
<1>6. ASSUME NEW h \in Handlers,
             ResolveFails(h) \/ \E type \in EventTypes : EventCloses(h, type)
      PROVE  On
  BY <1>2, <1>6 DEF ResolveFails, FailedSession, EventCloses, EventAccepted, Terminal
<1>7. ASSUME NEW h \in Handlers, Create(h) PROVE InsertCommit(h) \/ On
  BY <1>1, <1>4, <1>5, <1>6, <1>7 DEF Create, ReserveNew, InsertFails, ReserveAgain,
     RefreshRefused, ResolveFailsUnrecorded, dataVars
<1>8. ASSUME NEW h \in Handlers, Report(h) PROVE On
  BY <1>1, <1>4, <1>5, <1>6, <1>8 DEF Report, HeartbeatRollsBack, CacheProgress, dataVars
<1>9. ASSUME NEW h \in Handlers, Receive(h) \/ RequestEnds(h) PROVE On
  BY <1>1, <1>9 DEF Receive, ReceiveCreate, ReceiveHeartbeat, ReceiveProgress, ReceiveEvent,
     Validated, RequestEnds, dataVars
<1>10. ASSUME NEW s \in Sessions, Release(s) \/ ReleaseLost(s) PROVE On
  BY <1>1, <1>10 DEF Release, ReleaseLost, dataVars
<1>11. ASSUME (\E s \in Sessions : Terminate(s)) \/ Reap \/ ProfileDeleted PROVE On
  BY <1>2, <1>11 DEF Terminate, Reap, ProfileDeleted, Terminal
<1>12. ASSUME Tick PROVE On
  BY <1>0, <1>12, RowStays DEF Tick, dataVars, TypeOK, On
<1>13. ASSUME DeleteProfile \/ CacheExpires \/ UNCHANGED vars PROVE On
  BY <1>1, <1>13 DEF DeleteProfile, CacheExpires, vars, dataVars
<1>14. On \/ \E h \in Handlers : InsertCommit(h)
  BY <1>7, <1>8, <1>9, <1>10, <1>11, <1>12, <1>13 DEF Next
<1> QED
  BY <1>14 DEF On

LEMMA UnrecordedStep ==
  ASSUME IInv, UnrecordedExist, [Next]_vars
  PROVE  UnrecordedExist'
<1>0. TypeOK
  BY DEF IInv
<1>1. CASE \E h \in Handlers : InsertCommit(h)
  <2>1. PICK h \in Handlers : InsertCommit(h)
    BY <1>1
  <2> QED
    BY <1>0, <2>1, RequestTyped DEF InsertCommit, UnrecordedExist, TypeOK
<1>2. CASE \A s \in Sessions : GoesOn(s)
  <2>1. unrecorded' = unrecorded \/ \E h \in Handlers : ResolveFailsUnrecorded(h)
    <3>1. ASSUME NEW h \in Handlers, Receive(h) PROVE UNCHANGED unrecorded
      BY <3>1 DEF Receive, ReceiveCreate, ReceiveHeartbeat, ReceiveProgress, ReceiveEvent, Validated
    <3>2. ASSUME NEW h \in Handlers, Create(h)
          PROVE  UNCHANGED unrecorded \/ ResolveFailsUnrecorded(h)
      BY <3>2 DEF Create, ReserveNew, InsertCommit, InsertFails, ReserveAgain, RefreshCommit,
         RefreshRefused, ResolveCommit, ResolveFails
    <3>3. ASSUME NEW h \in Handlers, Report(h) PROVE UNCHANGED unrecorded
      BY <3>3 DEF Report, HeartbeatCommit, HeartbeatRollsBack, ProgressCommit, CacheProgress,
         EventStarted, EventQualified, EventCloses, EventAccepted
    <3>4. ASSUME NEW h \in Handlers, RequestEnds(h) PROVE UNCHANGED unrecorded
      BY <3>4 DEF RequestEnds
    <3>5. ASSUME NEW s \in Sessions, Release(s) \/ ReleaseLost(s) \/ Terminate(s)
          PROVE  UNCHANGED unrecorded
      BY <3>5 DEF Release, ReleaseLost, Terminate
    <3>6. ASSUME Reap \/ DeleteProfile \/ ProfileDeleted \/ CacheExpires \/ Tick
          PROVE  UNCHANGED unrecorded
      BY <3>6 DEF Reap, DeleteProfile, ProfileDeleted, CacheExpires, Tick
    <3>7. CASE UNCHANGED vars
      BY <3>7 DEF vars
    <3> QED
      BY <3>1, <3>2, <3>3, <3>4, <3>5, <3>6, <3>7 DEF Next
  <2>2. \A s \in unrecorded' : session[s].state # "absent"
    BY <1>0, <2>1, RequestTyped DEF UnrecordedExist, ResolveFailsUnrecorded, IInv, Slots,
       ResolvesInserted
  <2>3. unrecorded' \subseteq Sessions
    BY TypeStep, <1>0 DEF IInv, Rows, TypeOK
  <2> QED
    BY <1>2, <2>2, <2>3 DEF UnrecordedExist, GoesOn, Open, Terminal
<1> QED
  BY <1>1, <1>2, SessionsGoOn

\* Playback keeps the limit as its user understands it (KeepsLimit), for any number of
\* sessions, requests and keys, any limit and any session lifetime.
THEOREM StreamLimitKept == Spec => KeepsLimit
<1>1. Init => Allowance!Init /\ UnrecordedExist
  BY DEF Init, Allowance!Init, UnrecordedExist, Phases, Phase, Streaming, Live, Open
<1>2. IInv /\ UnrecordedExist /\ [Next]_vars => UnrecordedExist'
  BY UnrecordedStep
<1>3. IInv /\ UnrecordedExist /\ [Next]_vars => [Allowance!Next]_Allowance!vars
  <2> SUFFICES ASSUME IInv, UnrecordedExist, [Next]_vars PROVE Allowance!Next
    OBVIOUS
  <2>1. ASSUME NEW h \in Handlers, InsertCommit(h) PROVE Allowance!Next
    BY <2>1, InsertStarts, RequestTyped DEF Allowance!Next, InsertCommit, IInv
  <2>2. CASE unrecorded \subseteq unrecorded' /\ \A s \in Sessions : GoesOn(s)
    BY <2>2, StopsOrGoesOn DEF IInv
  <2> QED
    BY <2>1, <2>2, SessionsGoOn
<1> QED
  BY <1>1, <1>2, <1>3, PlaybackInvariant, PTL DEF Spec, KeepsLimit, Allowance!Spec
=============================================================================
