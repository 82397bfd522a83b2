------------------------------ MODULE CatalogHome ------------------------------
(***************************************************************************)
(* The collections of the home page (refreshHomeCollections of             *)
(* catalog.service.ts, catalog-home-projection.worker.ts): copies of a     *)
(* ranking, rewritten in one transaction under an advisory lock when a     *)
(* process starts, at midnight and after a sync run.  home stands for the  *)
(* new releases, which all of these rewrite; a ranking keeps 20 movies at  *)
(* most, more than there are here.                                         *)
(***************************************************************************)
EXTENDS CatalogSearch

VARIABLE home       \* catalog_home_collection_items

readVars == <<searchVars, home>>

HomeTypeOK == home \subseteq Movies

HomeInit == home = {}

\* newReleaseHomeMovieIds; the other rankings choose among the same movies.
Ranked == Published

ReplaceHomeCollection(ids) == home' = ids

RefreshHomeCollections == ReplaceHomeCollection(Ranked)

\* home: the join leaves out a movie that was archived after the collection was written.
HomeShows == home \intersect Published

\* The timer; a refresh that fails waits for the next one.
Refresh ==
    /\ RefreshHomeCollections
    /\ UNCHANGED <<movieVars, searchVars>>
=============================================================================
