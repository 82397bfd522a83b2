------------------------------ MODULE MCDelivery ------------------------------
(***************************************************************************)
(* Instance of Delivery for TLC.                                           *)
(***************************************************************************)
EXTENDS Delivery

CONSTANTS p1, p2, n1, n2

MCNotices == {[type |-> "movie.published", of |-> m] : m \in {1, 2}}

MCEvents ==
    MCNotices
    \union {[type |-> "profile.deleted", of |-> p] : p \in {p1, p2}}
    \union {[type |-> "playback.qualified", of |-> p1]}

MCPublishers ==
    {[service |-> "catalog", id |-> 1], [service |-> "catalog", id |-> 2],
     [service |-> "profile", id |-> 1], [service |-> "streaming", id |-> 1]}

MCFailRecipients == [n \in {n1, n2} |-> IF n = n1 THEN {"catalog-announcements"} ELSE {}]
=============================================================================
