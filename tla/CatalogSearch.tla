----------------------------- MODULE CatalogSearch -----------------------------
(***************************************************************************)
(* The search index of the catalog and the process that projects movies    *)
(* into it (catalog-search.projection.ts, catalog-search.service.ts).  The *)
(* projection reads a row and writes the index later; an event is handled  *)
(* again until its inbox row commits.  There is one instance: two of them  *)
(* may write stale rows over each other's.                                 *)
(***************************************************************************)
EXTENDS CatalogMovies

VARIABLES
    index,      \* OpenSearch: movies with a document
    projector   \* start and project: where they are and what they have read

searchVars == <<index, projector>>

Projector(state, about, rows) == [state |-> state, about |-> about, rows |-> rows]

SearchTypeOK ==
    /\ index \subseteq Movies
    /\ projector \in [state: {"down", "deferred", "reindexing", "running", "read"},
                      about: Movies \union {None}, rows: SUBSET Movies]

SearchInit ==
    /\ index = {}
    /\ projector = Projector("down", None, {})

Published == {m \in Movies : movie[m].status = "published"}

\* reindexPublished, at the start of the process.
ReindexRead ==
    /\ projector.state = "down"
    /\ projector' = Projector("reindexing", None, Published)
    /\ UNCHANGED <<index, movieVars>>

\* The bulk requests write up to 200 documents each, and one of them may be taken in part.
Reindexed(part) == index' = index \union part

ReindexWrite ==
    /\ projector.state = "reindexing"
    /\ Reindexed(projector.rows)
    /\ projector' = Projector("running", None, {})
    /\ UNCHANGED movieVars

\* project: the inbox does not hold the event, indexCurrentMovie reads the row.
ProjectRead(m) ==
    /\ projector.state = "running"
    /\ m \in unseen
    /\ projector' = Projector("read", m, Published \intersect {m})
    /\ unseen' = unseen \ {m}
    /\ UNCHANGED <<index, movie, playable, source, locked, item, tx, announced>>

\* Mutant of Projected: a movie that is not published is left alone.
ProjectedWhenPublished == index \union projector.rows

\* PUT of the document, or DELETE when the row was not published.
Projected == (index \ {projector.about}) \union projector.rows

\* The document, then the inbox row.
ProjectWrite ==
    /\ projector.state = "read"
    /\ index' = Projected
    /\ projector' = Projector("running", None, {})
    /\ UNCHANGED movieVars

\* A failure while start awaits ends it, before, between or after the bulk requests, or in
\* connecting to the broker: nothing starts the projection again.
StartFails ==
    /\ projector.state \in {"down", "reindexing"}
    /\ \E part \in SUBSET projector.rows : Reindexed(part)
    /\ projector' = Projector("deferred", None, {})
    /\ UNCHANGED movieVars

\* Mutant of GiveBack: the inbox row is written before the document.
TakenForHandled == UNCHANGED movieVars

\* The inbox holds no row of the event that was being handled.
GiveBack ==
    /\ unseen' = unseen \union ({projector.about} \ {None})
    /\ UNCHANGED <<movie, playable, source, locked, item, tx, announced>>

\* A request or the inbox fails, before or after the document was written: the consumer
\* begins again at the event.
ProjectFails ==
    /\ projector.state = "read"
    /\ index' \in {index, Projected}
    /\ projector' = Projector("running", None, {})
    /\ GiveBack

ProcessRestarts ==
    /\ projector.state # "down"
    /\ IF projector.state = "read" THEN index' \in {index, Projected}
       ELSE \E part \in SUBSET projector.rows : Reindexed(part)
    /\ projector' = Projector("down", None, {})
    /\ GiveBack

Project == ReindexRead \/ ReindexWrite \/ (\E m \in Movies : ProjectRead(m)) \/ ProjectWrite

ProjectorFails == StartFails \/ ProjectFails \/ ProcessRestarts

\* The index is wrong about a movie only while an event of it is still to be handled, or
\* is being handled: whatever a reindexing or a projection read before the movie changed,
\* failed or was restarted, no wrong document is left that nothing will correct.
IndexFollows ==
    \A m \in Movies :
        m \in unseen \/ m = projector.about \/ (m \in index <=> m \in Published)
=============================================================================
