------------------------- MODULE SourceCircuitProofs -------------------------
(***************************************************************************)
(* Theorems of SourceCircuit, for any sources, requests, threshold, cap    *)
(* and documents of the provider, and of its client.                       *)
(***************************************************************************)
EXTENDS SourceCircuit, FiniteSetTheorems, TLAPS

(***************************************************************************)
(* What the theorems assume of the constants: the requests at one time are *)
(* finitely many, the cap is a number, and a backoff is no negative time.  *)
(***************************************************************************)
Setting ==
    /\ IsFiniteSet(Handlers)
    /\ MaxResolves \in Nat
    /\ \A n \in Nat \ {0} : n <= MaxFailures => Backoff[n] \in Nat

(***************************************************************************)
(* The inductive invariant.                                                *)
(***************************************************************************)
CircuitState == [failures : Nat, openUntil : Nat, probe : BOOLEAN]

Request ==
    {Idle} \union [pc : {"selected", "reporting"}, source : Sources, retry : Nat]
           \union [pc : {"resolving"}, source : Sources]

TypeOK ==
    /\ circuit \in [Sources -> CircuitState]
    /\ retryAfter \in [Sources -> Nat]
    /\ request \in [Handlers -> Request]
    /\ resolving \in Nat
    /\ now \in Nat

\* Only a circuit that tripped has a probe.
ProbesTripped == \A x \in Sources : circuit[x].probe => TripsAt(x)

IInv == Setting /\ TypeOK /\ ProbesTripped /\ CapHolds

\* A request that is not idle names a source, and keeps a retry time unless it resolves.
LEMMA RequestTyped ==
  ASSUME TypeOK, NEW h \in Handlers
  PROVE  /\ request[h].pc \in {"idle", "selected", "resolving", "reporting"}
         /\ request[h].pc # "idle" => request[h].source \in Sources
         /\ request[h].pc \in {"selected", "reporting"} => request[h].retry \in Nat
<1>1. request[h] \in Request
  BY DEF TypeOK
<1> QED
  BY <1>1 DEF Request, Idle

(***************************************************************************)
(* How the places change.                                                  *)
(***************************************************************************)
\* A request takes a place, gives it back, or changes without touching the places.
LEMMA PlaceTaken ==
  ASSUME TypeOK, NEW h \in Handlers, NEW r, Becomes(h, r), h \notin Places,
         r.pc \in {"resolving", "reporting"}
  PROVE  Places' = Places \union {h}
  BY DEF TypeOK, Becomes, Places

LEMMA PlaceGivenBack ==
  ASSUME TypeOK, NEW h \in Handlers, NEW r, Becomes(h, r), r.pc \notin {"resolving", "reporting"}
  PROVE  Places' = Places \ {h}
  BY DEF TypeOK, Becomes, Places

LEMMA PlaceKept ==
  ASSUME TypeOK, NEW h \in Handlers, NEW r, Becomes(h, r),
         r.pc \in {"resolving", "reporting"} <=> h \in Places
  PROVE  Places' = Places
  BY DEF TypeOK, Becomes, Places

\* The places are finitely many, as the requests are.
LEMMA PlacesFinite == Setting => IsFiniteSet(Places)
  BY FS_Subset DEF Setting, Places

LEMMA CapTaken ==
  ASSUME IInv, NEW h \in Handlers, h \notin Places, Places' = Places \union {h},
         resolving' = resolving + 1, resolving < MaxResolves
  PROVE  CapHolds'
<1>1. Cardinality(Places') = Cardinality(Places) + 1
  BY PlacesFinite, FS_AddElement DEF IInv
<1> QED
  BY <1>1 DEF IInv, CapHolds, TypeOK, Setting

LEMMA CapGivenBack ==
  ASSUME IInv, NEW h \in Places, Places' = Places \ {h}, resolving' = resolving - 1
  PROVE  CapHolds' /\ resolving' \in Nat
<1>1. Cardinality(Places') = Cardinality(Places) - 1 /\ Cardinality(Places') \in Nat
  BY PlacesFinite, FS_RemoveElement, FS_CardinalityType, FS_Subset DEF IInv
<1> QED
  BY <1>1 DEF IInv, CapHolds, TypeOK, Setting

LEMMA CapKept ==
  ASSUME IInv, Places' = Places, resolving' = resolving
  PROVE  CapHolds'
  BY DEF IInv, CapHolds

(***************************************************************************)
(* The invariant is inductive.                                             *)
(***************************************************************************)
LEMMA InvInit == Setting /\ Init => IInv
<1> SUFFICES ASSUME Setting, Init PROVE IInv
  OBVIOUS
<1>1. TypeOK /\ ProbesTripped
  BY DEF Init, TypeOK, ProbesTripped, CircuitState, Request, Closed, Idle
<1>2. Places = {}
  BY DEF Init, Places, Idle
<1> QED
  BY <1>1, <1>2, FS_EmptySet DEF IInv, CapHolds, Init, Setting

\* beforeResolve may set the flag of the probe, and only of a circuit that tripped.
LEMMA ProbedTyped ==
  ASSUME TypeOK, ProbesTripped, NEW x \in Sources, circuit' = Probed(x)
  PROVE  circuit' \in [Sources -> CircuitState] /\ ProbesTripped'
<1>1. \A y \in Sources \ {x} : circuit'[y] = circuit[y]
  BY DEF TypeOK, Probed
<1>2. /\ circuit'[x] \in CircuitState /\ circuit'[x].failures = circuit[x].failures
      /\ circuit'[x].probe <=> circuit[x].probe \/ TripsAt(x)
  BY DEF TypeOK, Probed, CircuitState, TripsAt
<1>3. circuit' \in [Sources -> CircuitState]
  BY <1>1, <1>2 DEF TypeOK, Probed
<1>4. ProbesTripped'
  BY <1>1, <1>2 DEF ProbesTripped, TripsAt
<1> QED
  BY <1>3, <1>4

\* The end of a resolve clears the probe of its source.
LEMMA SettledTyped ==
  ASSUME TypeOK, ProbesTripped, NEW x \in Sources, NEW s \in CircuitState, ~s.probe,
         circuit' = [circuit EXCEPT ![x] = s]
  PROVE  circuit' \in [Sources -> CircuitState] /\ ProbesTripped'
  BY DEF TypeOK, ProbesTripped, TripsAt

LEMMA RequestKept ==
  ASSUME TypeOK, NEW h \in Handlers, NEW r \in Request, Becomes(h, r)
  PROVE  request' \in [Handlers -> Request]
  BY DEF TypeOK, Becomes

LEMMA InvStep == IInv /\ [Next]_vars => IInv'
<1> SUFFICES ASSUME IInv, [Next]_vars PROVE IInv'
  OBVIOUS
<1>0. Setting /\ TypeOK /\ ProbesTripped /\ CapHolds /\ Setting'
  BY DEF IInv, Setting
<1>1. CASE UNCHANGED vars
  <2>1. TypeOK' /\ ProbesTripped'
    BY <1>0, <1>1 DEF vars, TypeOK, ProbesTripped, TripsAt
  <2>2. Places' = Places /\ resolving' = resolving
    BY <1>1 DEF vars, Places
  <2> QED
    BY <1>0, <2>1, <2>2, CapKept DEF IInv
<1>2. ASSUME NEW h \in Handlers, NEW x \in Sources, Select(h, x) PROVE IInv'
  <2> DEFINE r == [pc |-> "selected", source |-> x, retry |-> retryAfter[x]]
  <2>1. r \in Request /\ Becomes(h, r) /\ UNCHANGED <<circuit, retryAfter, resolving, now>>
    BY <1>0, <1>2 DEF Select, Request, TypeOK
  <2>2. h \notin Places
    BY <1>2 DEF Select, Places, Idle
  <2>3. Places' = Places
    BY <1>0, <2>1, <2>2, PlaceKept
  <2>4. TypeOK' /\ ProbesTripped'
    BY <1>0, <2>1, RequestKept DEF TypeOK, ProbesTripped, TripsAt
  <2> QED
    BY <1>0, <2>1, <2>3, <2>4, CapKept DEF IInv
<1>3. ASSUME NEW h \in Handlers, Rejected(h) \/ Busy(h) PROVE IInv'
  <2>1. /\ request[h].pc = "selected" /\ Becomes(h, Idle) /\ Idle \in Request
        /\ UNCHANGED <<retryAfter, resolving, now>>
        /\ circuit' = circuit \/ circuit' = Probed(request[h].source)
    BY <1>3 DEF Rejected, Busy, Request
  <2>2. Places' = Places
    BY <1>0, <2>1, PlaceKept DEF Places, Idle
  <2>3. circuit' \in [Sources -> CircuitState] /\ ProbesTripped'
    BY <1>0, <2>1, RequestTyped, ProbedTyped DEF TypeOK, ProbesTripped, TripsAt
  <2>4. TypeOK'
    BY <1>0, <2>1, <2>3, RequestKept DEF TypeOK
  <2> QED
    BY <1>0, <2>1, <2>2, <2>3, <2>4, CapKept DEF IInv
<1>4. ASSUME NEW h \in Handlers, Resolve(h) PROVE IInv'
  <2> DEFINE r == [pc |-> "resolving", source |-> request[h].source]
  <2>1. /\ request[h].pc = "selected" /\ Becomes(h, r) /\ UNCHANGED <<retryAfter, now>>
        /\ resolving < MaxResolves /\ resolving' = resolving + 1
        /\ circuit' = Probed(request[h].source)
    BY <1>4 DEF Resolve
  <2>2. request[h].source \in Sources /\ r \in Request
    BY <1>0, <2>1, RequestTyped DEF Request
  <2>3. h \notin Places /\ Places' = Places \union {h}
    BY <1>0, <2>1, PlaceTaken DEF Places
  <2>4. circuit' \in [Sources -> CircuitState] /\ ProbesTripped'
    BY <1>0, <2>1, <2>2, ProbedTyped
  <2>5. TypeOK'
    BY <1>0, <2>1, <2>2, <2>4, RequestKept DEF TypeOK
  <2> QED
    BY <1>0, <2>1, <2>3, <2>4, <2>5, CapTaken DEF IInv
<1>5. ASSUME NEW h \in Handlers, request[h].pc = "resolving", UNCHANGED <<retryAfter, resolving, now>>,
             NEW s \in CircuitState, ~s.probe, circuit' = [circuit EXCEPT ![request[h].source] = s],
             NEW t \in Nat,
             Becomes(h, [pc |-> "reporting", source |-> request[h].source, retry |-> t])
      PROVE  IInv'
  <2> DEFINE x == request[h].source
  <2>1. x \in Sources
    BY <1>0, <1>5, RequestTyped
  <2>2. [pc |-> "reporting", source |-> x, retry |-> t] \in Request
    BY <2>1 DEF Request
  <2>3. Places' = Places
    BY <1>0, <1>5, PlaceKept DEF Places
  <2>4. circuit' \in [Sources -> CircuitState] /\ ProbesTripped'
    BY <1>0, <1>5, <2>1, SettledTyped
  <2>5. TypeOK'
    BY <1>0, <1>5, <2>2, <2>4, RequestKept DEF TypeOK
  <2> QED
    BY <1>0, <1>5, <2>3, <2>4, <2>5, CapKept DEF IInv
<1>6. ASSUME NEW h \in Handlers, Succeeds(h) PROVE IInv'
  <2>1. Closed \in CircuitState /\ ~Closed.probe
    BY DEF Closed, CircuitState
  <2> QED
    BY <1>5, <1>6, <2>1 DEF Succeeds
<1>7. ASSUME NEW h \in Handlers, Fails(h) PROVE IInv'
  <2> DEFINE x == request[h].source
             n == circuit[x].failures + 1
             s == [failures |-> n, openUntil |-> now + Backoff[n], probe |-> FALSE]
  <2>1. x \in Sources
    BY <1>0, <1>7, RequestTyped DEF Fails
  <2>2. n \in Nat \ {0} /\ n <= MaxFailures
    BY <1>0, <1>7, <2>1 DEF Fails, TypeOK, CircuitState
  <2>3. now + Backoff[n] \in Nat
    BY <1>0, <2>2 DEF Setting, TypeOK
  <2>4. s \in CircuitState /\ ~s.probe
    BY <2>2, <2>3 DEF CircuitState
  <2>5. /\ request[h].pc = "resolving" /\ UNCHANGED <<retryAfter, resolving, now>>
        /\ circuit' = [circuit EXCEPT ![x] = s]
        /\ Becomes(h, [pc |-> "reporting", source |-> x, retry |-> now + Backoff[n]])
    BY <1>7 DEF Fails
  <2> HIDE DEF s
  <2> QED
    BY <1>5, <2>3, <2>4, <2>5
<1>8. ASSUME NEW h \in Handlers, NoPlaylist(h) PROVE IInv'
  <2>1. /\ request[h].pc = "resolving" /\ Becomes(h, Idle) /\ Idle \in Request
        /\ UNCHANGED <<retryAfter, now>> /\ resolving' = resolving - 1
        /\ circuit' = [circuit EXCEPT ![request[h].source] = Closed]
    BY <1>8 DEF NoPlaylist, Request
  <2>2. h \in Places /\ Places' = Places \ {h}
    BY <1>0, <2>1, PlaceGivenBack DEF Places, Idle
  <2>3. request[h].source \in Sources /\ Closed \in CircuitState /\ ~Closed.probe
    BY <1>0, <2>1, RequestTyped DEF Closed, CircuitState
  <2>4. circuit' \in [Sources -> CircuitState] /\ ProbesTripped'
    BY <1>0, <2>1, <2>3, SettledTyped
  <2>5. CapHolds' /\ resolving' \in Nat
    BY <2>1, <2>2, CapGivenBack
  <2>6. TypeOK'
    BY <1>0, <2>1, <2>4, <2>5, RequestKept DEF TypeOK
  <2> QED
    BY <1>0, <2>4, <2>5, <2>6 DEF IInv
<1>9. ASSUME NEW h \in Handlers, Reported(h) PROVE IInv'
  <2>1. /\ request[h].pc = "reporting" /\ Becomes(h, Idle) /\ Idle \in Request
        /\ UNCHANGED <<circuit, now>> /\ resolving' = resolving - 1
    BY <1>9 DEF Reported, Request
  <2>2. h \in Places /\ Places' = Places \ {h}
    BY <1>0, <2>1, PlaceGivenBack DEF Places, Idle
  <2>3. request[h].source \in Sources /\ request[h].retry \in Nat
    BY <1>0, <2>1, RequestTyped
  <2>4. retryAfter' \in [Sources -> Nat]
    BY <1>0, <1>9, <2>3 DEF Reported, TypeOK
  <2>5. CapHolds' /\ resolving' \in Nat
    BY <2>1, <2>2, CapGivenBack
  <2>6. TypeOK' /\ ProbesTripped'
    BY <1>0, <2>1, <2>4, <2>5, RequestKept DEF TypeOK, ProbesTripped, TripsAt
  <2> QED
    BY <1>0, <2>5, <2>6 DEF IInv
<1>10. CASE Tick
  <2>1. TypeOK' /\ ProbesTripped'
    BY <1>0, <1>10 DEF Tick, TypeOK, ProbesTripped, TripsAt
  <2>2. Places' = Places /\ resolving' = resolving
    BY <1>10 DEF Tick, Places
  <2> QED
    BY <1>0, <2>1, <2>2, CapKept DEF IInv
<1> QED
  BY <1>1, <1>2, <1>3, <1>4, <1>6, <1>7, <1>8, <1>9, <1>10 DEF Next

(***************************************************************************)
(* What a step does to a source: nothing, or it ends a resolve of it and   *)
(* with it the probe, or starts one where there was no probe, or the cap   *)
(* refuses a request that the circuit let through.                         *)
(***************************************************************************)
Resolvers(x) == {h \in Handlers : request[h].pc = "resolving" /\ request[h].source = x}

Untouched(x) == (circuit'[x].probe <=> circuit[x].probe) /\ Resolvers(x)' = Resolvers(x)

Ends(x) == ~circuit'[x].probe /\ Resolvers(x) # {}

Starts(x) == ~circuit[x].probe /\ Resolvers(x)' # {}

Refused(x) ==
    /\ ~circuit[x].probe
    /\ resolving = MaxResolves
    /\ \E h \in Handlers : h \notin Places

\* A request changes between two states in which it resolves nothing.
LEMMA ResolversKept ==
  ASSUME TypeOK, NEW h \in Handlers, NEW r, Becomes(h, r), request[h].pc # "resolving",
         r.pc # "resolving", NEW x \in Sources
  PROVE  Resolvers(x)' = Resolvers(x)
  BY DEF TypeOK, Becomes, Resolvers

\* The end of a resolve of one source.
LEMMA ResolveEnds ==
  ASSUME TypeOK, NEW h \in Handlers, NEW r, Becomes(h, r), request[h].pc = "resolving",
         r.pc # "resolving", NEW s, circuit' = [circuit EXCEPT ![request[h].source] = s], ~s.probe,
         NEW x \in Sources
  PROVE  Untouched(x) \/ Ends(x)
<1>1. CASE request[h].source = x
  BY <1>1 DEF TypeOK, Ends, Resolvers
<1>2. CASE request[h].source # x
  <2>1. circuit'[x] = circuit[x]
    BY <1>2 DEF TypeOK
  <2>2. Resolvers(x)' = Resolvers(x)
    BY <1>2 DEF TypeOK, Becomes, Resolvers
  <2> QED
    BY <2>1, <2>2 DEF Untouched
<1> QED
  BY <1>1, <1>2

\* A probe that is in flight admits no request.
LEMMA ProbeShuts ==
  ASSUME ProbesTripped, NEW x \in Sources, NEW retry, Admits(x, retry)
  PROVE  ~circuit[x].probe
  BY DEF ProbesTripped, Admits

LEMMA SourceStep ==
  ASSUME IInv, [Next]_vars, NEW x \in Sources
  PROVE  Untouched(x) \/ Ends(x) \/ Starts(x) \/ Refused(x)
<1>0. TypeOK /\ ProbesTripped /\ CapHolds
  BY DEF IInv
<1>1. CASE Tick \/ UNCHANGED vars
  BY <1>1 DEF Tick, vars, Untouched, Resolvers
<1>2. ASSUME NEW h \in Handlers, NEW y \in Sources, Select(h, y) PROVE Untouched(x)
  <2>1. Resolvers(x)' = Resolvers(x)
    BY <1>0, <1>2, ResolversKept DEF Select, Idle
  <2> QED
    BY <1>2, <2>1 DEF Select, Untouched
<1>3. ASSUME NEW h \in Handlers, Rejected(h) \/ Reported(h) PROVE Untouched(x)
  <2>1. Resolvers(x)' = Resolvers(x)
    BY <1>0, <1>3, ResolversKept DEF Rejected, Reported, Idle
  <2> QED
    BY <1>3, <2>1 DEF Rejected, Reported, Untouched
<1>4. ASSUME NEW h \in Handlers, Busy(h) PROVE Untouched(x) \/ Refused(x)
  <2>1. Resolvers(x)' = Resolvers(x)
    BY <1>0, <1>4, ResolversKept DEF Busy, Idle
  <2>2. CASE request[h].source = x
    <3>1. ~circuit[x].probe
      BY <1>0, <1>4, <2>2, ProbeShuts DEF Busy
    <3>2. resolving = MaxResolves /\ h \notin Places
      BY <1>0, <1>4 DEF Busy, CapHolds, Places, TypeOK, IInv, Setting
    <3> QED
      BY <3>1, <3>2 DEF Refused
  <2>3. CASE request[h].source # x
    <3>1. circuit'[x] = circuit[x]
      BY <1>0, <1>4, <2>3 DEF Busy, Probed, TypeOK
    <3> QED
      BY <2>1, <3>1 DEF Untouched
  <2> QED
    BY <2>2, <2>3
<1>5. ASSUME NEW h \in Handlers, Resolve(h) PROVE Untouched(x) \/ Starts(x)
  <2>1. CASE request[h].source = x
    <3>1. ~circuit[x].probe
      BY <1>0, <1>5, <2>1, ProbeShuts DEF Resolve
    <3>2. h \in Resolvers(x)'
      BY <1>0, <1>5, <2>1 DEF Resolve, Becomes, Resolvers, TypeOK
    <3> QED
      BY <3>1, <3>2 DEF Starts
  <2>2. CASE request[h].source # x
    <3>1. circuit'[x] = circuit[x]
      BY <1>0, <1>5, <2>2 DEF Resolve, Probed, TypeOK
    <3>2. Resolvers(x)' = Resolvers(x)
      BY <1>0, <1>5, <2>2 DEF Resolve, Becomes, Resolvers, TypeOK
    <3> QED
      BY <3>1, <3>2 DEF Untouched
  <2> QED
    BY <2>1, <2>2
<1>6. ASSUME NEW h \in Handlers, Succeeds(h) \/ NoPlaylist(h) PROVE Untouched(x) \/ Ends(x)
  BY <1>0, <1>6, ResolveEnds DEF Succeeds, NoPlaylist, Closed, Idle
<1>7. ASSUME NEW h \in Handlers, Fails(h) PROVE Untouched(x) \/ Ends(x)
  <2> DEFINE n == circuit[request[h].source].failures + 1
             s == [failures |-> n, openUntil |-> now + Backoff[n], probe |-> FALSE]
             r == [pc |-> "reporting", source |-> request[h].source, retry |-> now + Backoff[n]]
  <2>1. /\ request[h].pc = "resolving" /\ Becomes(h, r)
        /\ circuit' = [circuit EXCEPT ![request[h].source] = s]
    BY <1>7 DEF Fails
  <2>2. ~s.probe /\ r.pc # "resolving"
    OBVIOUS
  <2> HIDE DEF s, r
  <2> QED
    BY <1>0, <2>1, <2>2, ResolveEnds
<1> QED
  BY <1>1, <1>2, <1>3, <1>4, <1>5, <1>6, <1>7 DEF Next

(***************************************************************************)
(* The theorems.                                                           *)
(***************************************************************************)
THEOREM CircuitInvariant == Setting /\ Spec => []IInv
<1>1. Setting /\ Init => IInv
  BY InvInit
<1>2. IInv /\ [Next]_vars => IInv'
  BY InvStep
<1> QED
  BY <1>1, <1>2, PTL DEF Spec

\* Every resolve counts against the cap for as long as it runs, and the cap holds.
THEOREM PlacesAreCapped == Setting /\ Spec => []CapHolds
<1>1. IInv => CapHolds
  BY DEF IInv
<1> QED
  BY <1>1, CircuitInvariant, PTL

LEMMA StrandedMeans ==
  \A x : Stranded(x) <=> circuit[x].probe /\ Resolvers(x) = {}
  BY DEF Stranded, Resolvers

LEMMA StrandedNext ==
  \A x : Stranded(x)' <=> circuit'[x].probe /\ Resolvers(x)' = {}
  BY DEF Stranded, Resolvers

\* No step strands a probe but one in which the cap refuses a request that was let through.
THEOREM CapAloneStrands == Setting /\ Spec => OnlyTheCapStrands
<1>1. ASSUME IInv, [Next]_vars, NEW x \in Sources, Stranded(x)', ~Stranded(x)
      PROVE  resolving = MaxResolves
  BY <1>1, SourceStep, StrandedMeans, StrandedNext DEF Untouched, Ends, Starts, Refused
<1>2. IInv /\ [Next]_vars =>
        [\A x \in Sources : Stranded(x)' /\ ~Stranded(x) => resolving = MaxResolves]_vars
  BY <1>1
<1> QED
  BY <1>2, CircuitInvariant, PTL DEF Spec, OnlyTheCapStrands

\* A source whose probe was stranded is never resolved again by the process.
THEOREM NoWayBack == Setting /\ Spec => StrandedForGood
<1>1. ASSUME IInv, [Next]_vars, NEW x \in Sources, Stranded(x)
      PROVE  /\ Stranded(x)'
             /\ \A h \in Handlers : request'[h].pc = "resolving" => request'[h].source # x
  <2>1. Untouched(x)
    BY <1>1, SourceStep, StrandedMeans DEF Ends, Starts, Refused
  <2>2. Stranded(x)'
    BY <1>1, <2>1, StrandedMeans, StrandedNext DEF Untouched
  <2> QED
    BY <2>2 DEF Stranded
<1>2. IInv /\ [Next]_vars =>
        [\A x \in Sources : Stranded(x) =>
            /\ Stranded(x)'
            /\ \A h \in Handlers : request'[h].pc = "resolving" => request'[h].source # x]_vars
  BY <1>1
<1> QED
  BY <1>2, CircuitInvariant, PTL DEF Spec, StrandedForGood

\* Where the cap is no less than the requests there can be, every source can recover.
NoneStranded == \A x \in Sources : ~Stranded(x)

LEMMA CapUnmet ==
  ASSUME IInv, Cardinality(Handlers) <= MaxResolves, NEW h \in Handlers, h \notin Places
  PROVE  resolving # MaxResolves
<1>1. IsFiniteSet(Handlers) /\ IsFiniteSet(Places) /\ Cardinality(Handlers) \in Nat
  BY PlacesFinite, FS_CardinalityType DEF IInv, Setting
<1>2. Cardinality(Places) + 1 <= Cardinality(Handlers)
  <2>1. Places \union {h} \in SUBSET Handlers
    BY DEF Places
  <2>2. Cardinality(Places \union {h}) = Cardinality(Places) + 1
    BY <1>1, FS_AddElement
  <2> QED
    BY <1>1, <2>1, <2>2, FS_Subset
<1> QED
  BY <1>1, <1>2, FS_CardinalityType DEF IInv, CapHolds, Setting, TypeOK

THEOREM RecoversBelowTheCap ==
  Setting /\ Cardinality(Handlers) <= MaxResolves /\ Spec => []SourceCanRecover
<1> DEFINE Unmet == Cardinality(Handlers) <= MaxResolves
           Inv == IInv /\ Unmet /\ NoneStranded
<1>1. Setting /\ Unmet /\ Init => Inv
  BY InvInit DEF Init, NoneStranded, Stranded, Closed
<1>2. Inv /\ [Next]_vars => Inv'
  <2> SUFFICES ASSUME Inv, [Next]_vars PROVE Inv'
    OBVIOUS
  <2>1. ASSUME NEW x \in Sources, Stranded(x)' PROVE FALSE
    <3>1. Refused(x)
      BY <2>1, SourceStep, StrandedMeans, StrandedNext DEF NoneStranded, Untouched, Ends, Starts
    <3> QED
      BY <3>1, CapUnmet DEF Refused
  <2> QED
    BY <2>1, InvStep DEF NoneStranded
<1>3. Inv => SourceCanRecover
  BY DEF IInv, TypeOK, NoneStranded, SourceCanRecover, Admits, Stranded
<1> QED
  BY <1>1, <1>2, <1>3, PTL DEF Spec

(***************************************************************************)
(* The client of the provider.                                             *)
(***************************************************************************)
\* Of the replies to the attempts of a call, Get keeps the first that no further attempt can
\* better.
LEMMA FirstSettled ==
  ASSUME NEW replies, NEW m \in 1..Attempts, ~Repeated(replies[m])
  PROVE  \E n \in 1..Attempts :
            /\ ~Repeated(replies[n])
            /\ \A k \in 1..Attempts : ~Repeated(replies[k]) => n <= k
<1>1. Attempts = 3
  BY DEF Attempts
<1>2. CASE ~Repeated(replies[1])
  BY <1>1, <1>2
<1>3. CASE Repeated(replies[1]) /\ ~Repeated(replies[2])
  BY <1>1, <1>3
<1>4. CASE Repeated(replies[1]) /\ Repeated(replies[2])
  BY <1>1, <1>4
<1> QED
  BY <1>2, <1>3, <1>4

LEMMA GetIsOne ==
  ASSUME NEW replies
  PROVE  \E n \in 1..Attempts :
            /\ Get(replies) = replies[n]
            /\ Repeated(replies[n]) => \A k \in 1..Attempts : Repeated(replies[k])
<1> DEFINE settled == {n \in 1..Attempts : ~Repeated(replies[n])}
<1>1. CASE settled = {}
  <2>1. Get(replies) = replies[Attempts] /\ Attempts \in 1..Attempts
    BY <1>1 DEF Get, Attempts
  <2> QED
    BY <1>1, <2>1
<1>2. CASE settled # {}
  <2>1. \E n \in settled : \A k \in settled : n <= k
    BY <1>2, FirstSettled
  <2> DEFINE first == CHOOSE n \in settled : \A k \in settled : n <= k
  <2>2. first \in settled
    BY <2>1
  <2>3. Get(replies) = replies[first]
    BY <1>2 DEF Get
  <2> HIDE DEF first
  <2> QED
    BY <2>2, <2>3
<1> QED
  BY <1>1, <1>2

LEMMA GetReplies ==
  ASSUME NEW replies \in [1..Attempts -> Reply]
  PROVE  Get(replies) \in Reply
  BY GetIsOne

\* A call comes to "busy" only when each of its attempts did: no answer that an attempt got is
\* given up for the failure of another.
THEOREM BusyOnlyIfAllAre ==
  ASSUME NEW replies
  PROVE  Get(replies) = "busy" <=> \A n \in 1..Attempts : replies[n] = "busy"
<1>1. PICK n \in 1..Attempts :
         /\ Get(replies) = replies[n]
         /\ Repeated(replies[n]) => \A k \in 1..Attempts : Repeated(replies[k])
  BY GetIsOne
<1> QED
  BY <1>1 DEF Repeated

IsServers(servers) == servers \in Seq(Server)

LEMMA ServersIndexed ==
  ASSUME NEW servers, IsServers(servers), NEW n \in DOMAIN servers
  PROVE  DOMAIN servers \subseteq Nat \ {0} /\ DOMAIN servers[n].episodes \subseteq Nat
<1>1. servers \in Seq(Server)
  BY DEF IsServers
<1>2. DOMAIN servers = 1..Len(servers) /\ Len(servers) \in Nat
  BY <1>1
<1>3. servers[n] \in Server
  BY <1>1, <1>2
<1>4. servers[n].episodes \in Seq(Episode)
  BY <1>3 DEF Server
<1>5. DOMAIN servers[n].episodes = 1..Len(servers[n].episodes) /\ Len(servers[n].episodes) \in Nat
  BY <1>4
<1> QED
  BY <1>2, <1>5

\* A lookup finds a member with the key, and only the member if no other has the key.
LEMMA FindsTheOne ==
  ASSUME NEW seq, NEW keys, NEW n \in DOMAIN seq, DOMAIN seq \subseteq Nat,
         \A k \in DOMAIN seq : keys[k] = keys[n] => k = n
  PROVE  Find(seq, keys, keys[n]) = {seq[n]}
<1> DEFINE hits == {k \in DOMAIN seq : keys[k] = keys[n]}
<1>1. hits = {n}
  OBVIOUS
<1>2. {k \in hits : \A l \in hits : k <= l} = {n}
  BY <1>1
<1> QED
  BY <1>2 DEF Find

LEMMA FindsNone ==
  ASSUME NEW seq, NEW keys, NEW key, \A k \in DOMAIN seq : keys[k] # key
  PROVE  Find(seq, keys, key) = {}
  BY DEF Find

\* In a document that was not refused, a server and a selector name one episode, so that a
\* source is taken for the episode it was imported with and for no other.
THEOREM OneEpisodeNamed ==
  ASSUME NEW doc, IsServers(Parsed(doc)), ParseServers(Parsed(doc)) = "servers",
         NEW n \in DOMAIN Parsed(doc), NEW e \in DOMAIN Parsed(doc)[n].episodes
  PROVE  Selected(doc, ServerKeys(Parsed(doc))[n], SelectorKeys(Parsed(doc)[n].episodes)[e])
           = {Parsed(doc)[n].episodes[e]}
<1> DEFINE servers == Parsed(doc)
           episodes == servers[n].episodes
           key == ServerKeys(servers)[n]
           selector == SelectorKeys(episodes)[e]
<1>1. ~Twice(ServerKeys(servers)) /\ ~Twice(SelectorKeys(episodes))
  BY DEF ParseServers, Members
<1>2. DOMAIN servers \subseteq Nat /\ DOMAIN episodes \subseteq Nat
  BY ServersIndexed
<1>3. Find(servers, ServerKeys(servers), key) = {servers[n]}
  <2>1. \A k \in DOMAIN servers : ServerKeys(servers)[k] = key => k = n
    BY <1>1 DEF Twice, ServerKeys
  <2> QED
    BY <1>2, <2>1, FindsTheOne
<1>4. Find(episodes, SelectorKeys(episodes), selector) = {episodes[e]}
  <2>1. \A k \in DOMAIN episodes : SelectorKeys(episodes)[k] = selector => k = e
    BY <1>1 DEF Twice, SelectorKeys
  <2> QED
    BY <1>2, <2>1, FindsTheOne
<1>5. Selected(doc, key, selector)
        = UNION {Find(s.episodes, SelectorKeys(s.episodes), selector) : s \in {servers[n]}}
  BY <1>3 DEF Selected
<1> QED
  BY <1>4, <1>5

\* The lookup in the document finds the episode that the metadata names, or none.
LEMMA RawEpisode ==
  ASSUME NEW doc, IsServers(Parsed(doc)), ParseServers(Parsed(doc)) = "servers",
         RawServers(doc) = Parsed(doc),
         NEW n \in DOMAIN Parsed(doc), NEW e \in DOMAIN Parsed(doc)[n].episodes
  PROVE  LET server == Parsed(doc)[n]
             episode == server.episodes[e]
         IN  RawSelected(doc, ServerKeys(Parsed(doc))[n], SelectorKeys(server.episodes)[e])
               = IF server.name # 0 /\ RawKey(episode) = SelectorKey(episode)
                 THEN {episode} ELSE {}
<1> DEFINE servers == Parsed(doc)
           episodes == servers[n].episodes
           key == ServerKeys(servers)[n]
           selector == SelectorKeys(episodes)[e]
<1>1. /\ ~Twice(ServerKeys(servers)) /\ ~Twice(SelectorKeys(episodes))
      /\ Selectable(SelectorKey(episodes[e]))
  BY DEF ParseServers, Members
<1>2. DOMAIN servers \subseteq Nat \ {0} /\ DOMAIN episodes \subseteq Nat
  BY ServersIndexed
<1>3. \A k \in DOMAIN servers : servers[k].name = key => k = n /\ servers[n].name # 0
  <2> SUFFICES ASSUME NEW k \in DOMAIN servers, servers[k].name = key
               PROVE  k = n /\ servers[n].name # 0
    OBVIOUS
  <2>1. key # 0
    BY <1>2 DEF ServerKeys
  <2>2. ServerKeys(servers)[k] = key
    BY <2>1 DEF ServerKeys
  <2>3. k = n
    BY <1>1, <2>2 DEF Twice, ServerKeys
  <2> QED
    BY <2>1, <2>3
<1>4. \A k \in DOMAIN episodes :
         RawKey(episodes[k]) = selector => k = e /\ RawKey(episodes[e]) = SelectorKey(episodes[e])
  <2> SUFFICES ASSUME NEW k \in DOMAIN episodes, RawKey(episodes[k]) = selector
               PROVE  k = e /\ RawKey(episodes[e]) = SelectorKey(episodes[e])
    OBVIOUS
  <2>1. selector = SelectorKey(episodes[e])
    BY DEF SelectorKeys
  <2>2. SelectorKey(episodes[k]) = selector
    BY <1>1, <2>1 DEF RawKey, SelectorKey, Selectable
  <2>3. k = e
    BY <1>1, <2>2 DEF Twice, SelectorKeys
  <2> QED
    BY <2>1, <2>3
<1>5. CASE servers[n].name # 0 /\ RawKey(episodes[e]) = SelectorKey(episodes[e])
  <2>1. RawNames(servers)[n] = key /\ \A k \in DOMAIN servers : RawNames(servers)[k] = key => k = n
    BY <1>3, <1>5 DEF RawNames, ServerKeys
  <2>2. Find(servers, RawNames(servers), key) = {servers[n]}
    <3>1. \A k \in DOMAIN servers : RawNames(servers)[k] = RawNames(servers)[n] => k = n
      BY <2>1
    <3>2. Find(servers, RawNames(servers), RawNames(servers)[n]) = {servers[n]}
      BY <1>2, <3>1, FindsTheOne
    <3> QED
      BY <2>1, <3>2
  <2>3. /\ RawKeys(episodes)[e] = selector
        /\ \A k \in DOMAIN episodes : RawKeys(episodes)[k] = selector => k = e
    BY <1>4, <1>5 DEF RawKeys, SelectorKeys
  <2>4. Find(episodes, RawKeys(episodes), selector) = {episodes[e]}
    <3>1. \A k \in DOMAIN episodes : RawKeys(episodes)[k] = RawKeys(episodes)[e] => k = e
      BY <2>3
    <3>2. Find(episodes, RawKeys(episodes), RawKeys(episodes)[e]) = {episodes[e]}
      BY <1>2, <3>1, FindsTheOne
    <3> QED
      BY <2>3, <3>2
  <2>5. RawSelected(doc, key, selector)
          = UNION {Find(s.episodes, RawKeys(s.episodes), selector) : s \in {servers[n]}}
    BY <2>2 DEF RawSelected
  <2> QED
    BY <1>5, <2>4, <2>5
<1>6. CASE servers[n].name = 0
  <2>1. \A k \in DOMAIN servers : RawNames(servers)[k] # key
    BY <1>3, <1>6 DEF RawNames
  <2>2. Find(servers, RawNames(servers), key) = {}
    BY <2>1, FindsNone
  <2> QED
    BY <1>6, <2>2 DEF RawSelected
<1>7. CASE RawKey(episodes[e]) # SelectorKey(episodes[e])
  <2>1. \A k \in DOMAIN episodes : RawKeys(episodes)[k] # selector
    BY <1>4, <1>7 DEF RawKeys
  <2>2. Find(episodes, RawKeys(episodes), selector) = {}
    BY <2>1, FindsNone
  <2>3. \A s \in Find(servers, RawNames(servers), key) : s = servers[n]
    BY <1>3 DEF Find, RawNames
  <2> QED
    BY <1>7, <2>2, <2>3 DEF RawSelected
<1> QED
  BY <1>5, <1>6, <1>7

\* In an accepted document whose servers both lookups read, resolving a source comes to the
\* link of the episode that the source names if the server has a name and the first text
\* given of the episode is its selector.  If not, it comes to no link, and never to that of
\* another episode.  When the servers lie beside the movie alone it comes to an error.
THEOREM ResolvesWhatIsNamed ==
  ASSUME NEW replies \in [1..Attempts -> Reply], NEW doc,
         FetchMetadata(replies, doc) = "detail", IsServers(Parsed(doc)),
         NEW n \in DOMAIN Parsed(doc), NEW e \in DOMAIN Parsed(doc)[n].episodes
  PROVE  LET server == Parsed(doc)[n]
             episode == server.episodes[e]
             resolved == ResolvePlayback(replies, doc, ServerKeys(Parsed(doc))[n],
                                         SelectorKeys(server.episodes)[e])
         IN  /\ DOMAIN doc = {"data"} => resolved = "unusable"
             /\ DOMAIN doc # {"data"} /\ RawServers(doc) = Parsed(doc)
                => resolved = IF server.name # 0 /\ RawKey(episode) = SelectorKey(episode)
                              THEN Link(episode, episode) ELSE "none"
<1> DEFINE server == Parsed(doc)[n]
           episode == server.episodes[e]
           key == ServerKeys(Parsed(doc))[n]
           selector == SelectorKeys(server.episodes)[e]
           selected == Selected(doc, key, selector)
           raw == RawSelected(doc, key, selector)
           resolved == ResolvePlayback(replies, doc, key, selector)
<1>1. ParseServers(Parsed(doc)) = "servers"
  <2>1. Get(replies) \in Reply
    BY GetReplies
  <2>2. ParseProviderDetail(doc) = "detail"
    BY <2>1 DEF FetchMetadata, Reply
  <2> QED
    BY <2>2 DEF ParseProviderDetail, ParseServers
<1>2. selected = {episode}
  BY <1>1, OneEpisodeNamed
<1>3. ASSUME DOMAIN doc = {"data"} PROVE resolved = "unusable"
  BY <1>2, <1>3 DEF ResolvePlayback
<1>4. ASSUME DOMAIN doc # {"data"}, RawServers(doc) = Parsed(doc)
      PROVE  resolved = IF server.name # 0 /\ RawKey(episode) = SelectorKey(episode)
                        THEN Link(episode, episode) ELSE "none"
  <2>1. raw = IF server.name # 0 /\ RawKey(episode) = SelectorKey(episode) THEN {episode} ELSE {}
    BY <1>1, <1>4, RawEpisode
  <2>2. CASE raw = {}
    <3>1. resolved = "none"
      BY <1>2, <1>4, <2>2 DEF ResolvePlayback
    <3> QED
      BY <2>1, <2>2, <3>1
  <2>3. CASE raw = {episode}
    <3>1. {Link(s, r) : s \in selected, r \in raw} = {Link(episode, episode)}
      BY <1>2, <2>3
    <3>2. resolved = CHOOSE link \in {Link(s, r) : s \in selected, r \in raw} : TRUE
      BY <1>2, <1>4, <2>3 DEF ResolvePlayback
    <3>3. resolved = Link(episode, episode)
      BY <3>1, <3>2
    <3> QED
      BY <2>1, <2>3, <3>3
  <2> QED
    BY <2>1, <2>2, <2>3
<1> QED
  BY <1>3, <1>4
=============================================================================
