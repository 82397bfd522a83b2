------------------------------ MODULE StreamLimit ------------------------------
(***************************************************************************)
(* What the limit on concurrent streams means to its user: a session is    *)
(* started once, and only while fewer than Limit others stream; it streams *)
(* without a break until it stops for good.  Slots, requests, retries,     *)
(* heartbeats and the reaper do not appear here.                           *)
(***************************************************************************)
EXTENDS Naturals, FiniteSets

CONSTANTS Sessions, Limit

VARIABLES
    phase,      \* of each session: none, open, closed
    streaming   \* the sessions that may stream now

vars == <<phase, streaming>>

Init ==
    /\ phase = [s \in Sessions |-> "none"]
    /\ streaming = {}

Start(s) ==
    /\ phase[s] = "none"
    /\ Cardinality(streaming) < Limit
    /\ phase' = [phase EXCEPT ![s] = "open"]
    /\ streaming' = streaming \union {s}

\* Some sessions are closed; those, and others that lapse, stream no more.
Stop(closed, lapsed) ==
    /\ \A s \in closed : phase[s] = "open"
    /\ phase' = [s \in Sessions |-> IF s \in closed THEN "closed" ELSE phase[s]]
    /\ streaming' = streaming \ (closed \union lapsed)

Next ==
    \/ \E s \in Sessions : Start(s)
    \/ \E closed \in SUBSET Sessions, lapsed \in SUBSET streaming : Stop(closed, lapsed)

Spec == Init /\ [][Next]_vars
=============================================================================
