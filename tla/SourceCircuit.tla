---------------------------- MODULE SourceCircuit ----------------------------
(***************************************************************************)
(* Resolving external sources in one instance of the streaming service     *)
(* (source-circuit.ts, and resolveSelection in streaming.service.ts): each *)
(* source has a circuit in the memory of the process, the process caps the *)
(* resolves it runs at once, and the catalog keeps a retry time for each   *)
(* source, read before a resolve and reported back after it.               *)
(*                                                                         *)
(* JavaScript runs from one await to the next without interruption, so     *)
(* each action is what happens between two awaits of resolveSelection.     *)
(***************************************************************************)
EXTENDS Integers, FiniteSets, ContentProvider

CONSTANTS
    Sources,    \* external source items
    Selectors,  \* the server and the episode that each source names
    Handlers,   \* concurrent requests
    Threshold,  \* STREAMING_CIRCUIT_FAILURE_THRESHOLD
    MaxResolves,    \* STREAMING_MAX_PROVIDER_RESOLVES
    Backoff,    \* Backoff[n]: the backoff after n failures in a row
    MaxFailures, MaxTime    \* bounds of the finite instance

VARIABLES
    circuit,    \* states: failures, openUntil, probeInFlight
    retryAfter, \* source_items.retry_after in the catalog, 0 when it is null
    request,    \* what each handler is doing
    resolving,  \* activeProviderResolves
    now

vars == <<circuit, retryAfter, request, resolving, now>>

Closed == [failures |-> 0, openUntil |-> 0, probe |-> FALSE]
Idle == [pc |-> "idle"]

Init ==
    /\ circuit = [x \in Sources |-> Closed]
    /\ retryAfter = [x \in Sources |-> 0]
    /\ request = [h \in Handlers |-> Idle]
    /\ resolving = 0
    /\ now = 0

Becomes(h, r) == request' = [request EXCEPT ![h] = r]

\* The catalog's view of the source is read, then others run.
Select(h, x) ==
    /\ request[h] = Idle
    /\ Becomes(h, [pc |-> "selected", source |-> x, retry |-> retryAfter[x]])
    /\ UNCHANGED <<circuit, retryAfter, resolving, now>>

\* beforeResolve
TripsAt(x) == circuit[x].failures >= Threshold

Admits(x, retry) ==
    /\ circuit[x].openUntil <= now
    /\ retry <= now
    /\ TripsAt(x) => ~circuit[x].probe

Probed(x) == [circuit EXCEPT ![x].probe = @ \/ TripsAt(x)]

Rejected(h) ==
    /\ request[h].pc = "selected"
    /\ ~Admits(request[h].source, request[h].retry)
    /\ Becomes(h, Idle)
    /\ UNCHANGED <<circuit, retryAfter, resolving, now>>

\* The circuit lets the request through, and the cap on resolves refuses it.
Busy(h) ==
    /\ request[h].pc = "selected"
    /\ Admits(request[h].source, request[h].retry)
    /\ resolving >= MaxResolves
    /\ circuit' = Probed(request[h].source)
    /\ Becomes(h, Idle)
    /\ UNCHANGED <<retryAfter, resolving, now>>

Resolve(h) ==
    /\ request[h].pc = "selected"
    /\ Admits(request[h].source, request[h].retry)
    /\ resolving < MaxResolves
    /\ circuit' = Probed(request[h].source)
    /\ resolving' = resolving + 1
    /\ Becomes(h, [pc |-> "resolving", source |-> request[h].source])
    /\ UNCHANGED <<retryAfter, now>>

\* What resolving a source can come to.  The call to the provider is given up after the time
\* of all its attempts; "unsafe" is a playlist of a host that is not allowed.
Resolutions(x) == Resolved(Selectors[x].key, Selectors[x].selector) \union {"over_budget"}

\* recordSuccess deletes the state of the source.
Succeeds(h) ==
    /\ request[h].pc = "resolving"
    /\ "hls" \in Resolutions(request[h].source)
    /\ circuit' = [circuit EXCEPT ![request[h].source] = Closed]
    /\ Becomes(h, [pc |-> "reporting", source |-> request[h].source, retry |-> 0])
    /\ UNCHANGED <<retryAfter, resolving, now>>

\* The provider answers and has no playlist: a success for the circuit, which the catalog
\* does not hear of.
NoPlaylist(h) ==
    /\ request[h].pc = "resolving"
    /\ {"embed", "none"} \intersect Resolutions(request[h].source) # {}
    /\ circuit' = [circuit EXCEPT ![request[h].source] = Closed]
    /\ resolving' = resolving - 1
    /\ Becomes(h, Idle)
    /\ UNCHANGED <<retryAfter, now>>

\* recordFailure: one failure more, the probe is over, the source backs off.
Fails(h) ==
    /\ request[h].pc = "resolving"
    /\ Resolutions(request[h].source) \ {"hls", "embed", "none"} # {}
    /\ LET x == request[h].source
           n == circuit[x].failures + 1
       IN /\ n <= MaxFailures
          /\ circuit' = [circuit EXCEPT ![x] =
                [failures |-> n, openUntil |-> now + Backoff[n], probe |-> FALSE]]
          /\ Becomes(h, [pc |-> "reporting", source |-> x, retry |-> now + Backoff[n]])
    /\ UNCHANGED <<retryAfter, resolving, now>>

\* The catalog takes the report, or the call fails and is ignored; then the finally block
\* gives the place back.
Reported(h) ==
    /\ request[h].pc = "reporting"
    /\ retryAfter' \in {retryAfter, [retryAfter EXCEPT ![request[h].source] = request[h].retry]}
    /\ resolving' = resolving - 1
    /\ Becomes(h, Idle)
    /\ UNCHANGED <<circuit, now>>

Tick ==
    /\ now < MaxTime
    /\ now' = now + 1
    /\ UNCHANGED <<circuit, retryAfter, request, resolving>>

Next ==
    \/ \E h \in Handlers :
          \/ \E x \in Sources : Select(h, x)
          \/ Rejected(h)
          \/ Busy(h)
          \/ Resolve(h)
          \/ Succeeds(h)
          \/ NoPlaylist(h)
          \/ Fails(h)
          \/ Reported(h)
    \/ Tick

Spec == Init /\ [][Next]_vars

-----------------------------------------------------------------------------
\* A source is never shut out for ever by an error of the past: once its backoff is over
\* and no request is resolving it, the circuit admits the next request.
SourceCanRecover ==
    \A x \in Sources :
        /\ circuit[x].openUntil <= now
        /\ \A h \in Handlers : request[h].pc = "resolving" => request[h].source # x
        => Admits(x, 0)

\* The process never runs more resolves than its cap, and counts each of them until the finally
\* block gave its place back, whatever the resolve came to.
Places == {h \in Handlers : request[h].pc \in {"resolving", "reporting"}}

CapHolds == resolving = Cardinality(Places) /\ resolving <= MaxResolves

\* A probe that no request carries out: its flag shuts the source out, and only the end of a
\* resolve of the source would clear it.
Stranded(x) ==
    /\ circuit[x].probe
    /\ \A h \in Handlers : request[h].pc = "resolving" => request[h].source # x

\* Nothing but the cap strands a probe: no failure, late answer or lost report does, however
\* the requests for a source interleave.
OnlyTheCapStrands ==
    [][\A x \in Sources : Stranded(x)' /\ ~Stranded(x) => resolving = MaxResolves]_vars

\* A probe that is stranded stays so: no request resolves its source in this process again.
StrandedForGood ==
    [][\A x \in Sources : Stranded(x) =>
          /\ Stranded(x)'
          /\ \A h \in Handlers : request'[h].pc = "resolving" => request'[h].source # x]_vars
=============================================================================
