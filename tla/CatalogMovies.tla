----------------------------- MODULE CatalogMovies -----------------------------
(***************************************************************************)
(* Movies, their content sources and source items in the catalog service   *)
(* (src/apps/catalog-service/src/catalog.service.ts): the editors' calls,  *)
(* the reports of the streaming service, and the import of an item of the  *)
(* provider, a transaction that other transactions interleave with.        *)
(*                                                                         *)
(* A movie has one playable, an owned source and the sources of provider   *)
(* items; a source has one source item.  Of a movie's fields the title     *)
(* stands for those that metadata_locked protects.  Versions and the       *)
(* status of a whole source are left out: nothing reads them back.         *)
(***************************************************************************)
EXTENDS Naturals

CONSTANTS
    Movies,
    Drafts,         \* movies that the editors have made ready before the runs begin
    ProviderItems,  \* external ids of the provider, in its order
    Given,          \* the draft that the editors have attached an item to before, if any
    Streamed,       \* those of them for which it has a link to play
    Workers,        \* sync workers, one per instance of the service
    None

ASSUME MoviesAssumption ==
    /\ ProviderItems \subseteq Nat \ {0}
    /\ Drafts \subseteq Movies
    /\ Given \in [ProviderItems -> Drafts \union {None}]
    /\ Movies \cap ProviderItems = {} /\ None \notin Movies \union ProviderItems

VARIABLES
    movie,      \* movies
    playable,   \* movies with a playable item
    source,     \* content_sources: the movie of each source
    locked,     \* provider items whose source is metadata_locked
    item,       \* source_items: source_status of the item of each source
    tx,         \* importMetadata: the transaction of each worker, its locks and what it has read
    announced,  \* outbox_events: how many movie.published there are of each movie
    unseen      \* outbox_events: movies with an event that the search projection has to handle

movieVars == <<movie, playable, source, locked, item, tx, announced, unseen>>

MovieStatus == {"none", "draft", "published", "archived"}

\* The owned source of a movie, and the source of a provider item.
Sources == Movies \union ProviderItems

NoTx == [pc |-> "none", item |-> None, movie |-> None, found |-> FALSE, saw |-> "none"]

MoviesTypeOK ==
    /\ movie \in [Movies -> [status: MovieStatus, title: {"edited", "provider"}]]
    /\ playable \subseteq Movies
    /\ source \in [Sources -> Movies \union {None}]
    /\ locked \subseteq ProviderItems
    /\ item \in [Sources -> {"none", "unknown", "available", "unavailable", "error"}]
    /\ tx \in [Workers -> [pc: {"none", "found", "read"}, item: ProviderItems \union {None},
                           movie: Movies \union {None}, found: BOOLEAN, saw: MovieStatus]]
    /\ announced \in [Movies -> Nat]
    /\ unseen \subseteq Movies

\* A movie that is ready was created, given a playable and an owned source, and uploaded; a
\* source of the provider may have been added to it as well.
MoviesInit ==
    /\ movie = [m \in Movies |-> [status |-> IF m \in Drafts THEN "draft" ELSE "none",
                                  title |-> "edited"]]
    /\ playable = Drafts
    /\ source = [s \in Sources |-> IF s \in ProviderItems THEN Given[s]
                                   ELSE IF s \in Drafts THEN s ELSE None]
    /\ locked = {}
    /\ item = [s \in Sources |-> IF s \in Drafts THEN "available" ELSE "none"]
    /\ tx = [w \in Workers |-> NoTx]
    /\ announced = [m \in Movies |-> 0]
    /\ unseen = {}

\* Several events of a movie are one here: each is handled by reading the movie as it is.
WriteEvent(m) == unseen' = unseen \union {m}

Announce(m) == announced' = [announced EXCEPT ![m] = @ + 1]

\* Mutant of MovieFree: importMetadata reads the movie without FOR UPDATE.
MovieNeverLocked(m) == TRUE

\* No import holds the row lock of the movie.
MovieFree(m) == \A w \in Workers : tx[w].pc = "read" /\ tx[w].saw # "none" => tx[w].movie # m

SourceFree(s) == \A w \in Workers : tx[w].found => tx[w].item # s

(***************************************************************************)
(* Calls of the editors and of the streaming service.                      *)
(***************************************************************************)
CreateMovie(m) ==
    /\ movie[m].status = "none"
    /\ \A w \in Workers : tx[w].movie # m
    /\ movie' = [movie EXCEPT ![m] = [status |-> "draft", title |-> "edited"]]
    /\ UNCHANGED <<playable, source, locked, item, tx, announced, unseen>>

PatchMovie(m) ==
    /\ movie[m].status \in {"draft", "published"}
    /\ MovieFree(m)
    /\ movie' = [movie EXCEPT ![m].title = "edited"]
    /\ WriteEvent(m)
    /\ UNCHANGED <<playable, source, locked, item, tx, announced>>

AddPlayable(m) ==
    /\ movie[m].status # "none"
    /\ MovieFree(m)
    /\ playable' = playable \union {m}
    /\ UNCHANGED <<movie, source, locked, item, tx, announced, unseen>>

\* The unique index refuses a second source of a provider item.
AddContentSource(s, m, lock) ==
    /\ movie[m].status # "none"
    /\ MovieFree(m)
    /\ source[s] = None
    /\ s \in Movies => s = m
    /\ source' = [source EXCEPT ![s] = m]
    /\ locked' = IF lock /\ s \in ProviderItems THEN locked \union {s} ELSE locked
    /\ UNCHANGED <<movie, playable, item, tx, announced, unseen>>

\* An owned item starts unknown: the streaming service says when it is ready.
AddSourceItem(s, status) ==
    /\ source[s] \in playable
    /\ SourceFree(s)
    /\ item[s] = "none"
    /\ status \in (IF s \in Movies THEN {"unknown"} ELSE {"unknown", "available"})
    /\ item' = [item EXCEPT ![s] = status]
    /\ UNCHANGED <<movie, playable, source, locked, tx, announced, unseen>>

MetadataLock(s, lock) ==
    /\ source[s] # None /\ s \in ProviderItems
    /\ SourceFree(s)
    /\ locked' = IF lock THEN locked \union {s} ELSE locked \ {s}
    /\ UNCHANGED <<movie, playable, source, item, tx, announced, unseen>>

\* At least one item can be played; the items are not locked.
Playable(m) == \E s \in Sources : source[s] = m /\ item[s] = "available"

PublishMovie(m) ==
    /\ movie[m].status = "draft"
    /\ MovieFree(m)
    /\ Playable(m)
    /\ movie' = [movie EXCEPT ![m].status = "published"]
    /\ Announce(m)
    /\ WriteEvent(m)
    /\ UNCHANGED <<playable, source, locked, item, tx>>

ArchiveMovie(m) ==
    /\ movie[m].status \in {"draft", "published"}
    /\ MovieFree(m)
    /\ movie' = [movie EXCEPT ![m].status = "archived"]
    /\ WriteEvent(m)
    /\ UNCHANGED <<playable, source, locked, item, tx, announced>>

SetItem(s, status) ==
    /\ item[s] # "none"
    /\ SourceFree(s)
    /\ item' = [item EXCEPT ![s] = status]
    /\ IF item[s] = status THEN UNCHANGED unseen ELSE WriteEvent(source[s])
    /\ UNCHANGED <<movie, playable, source, locked, tx, announced>>

MarkOwnedReady(s) == s \in Movies /\ SetItem(s, "available")

ReportSourceStatus(s, status) == s \in ProviderItems /\ SetItem(s, status)

\* refresh: the provider does not know the item any more.
MarkSourceUnavailable(s) ==
    /\ SourceFree(s)
    /\ item' = [item EXCEPT ![s] = IF @ = "none" THEN @ ELSE "unavailable"]
    /\ WriteEvent(source[s])
    /\ UNCHANGED <<movie, playable, source, locked, tx, announced>>

(***************************************************************************)
(* importMetadata.                                                         *)
(***************************************************************************)
\* The movie that the item belongs to, is to be attached to, or a new one.
MayBelongTo(x, target, m) ==
    IF source[x] # None THEN m = source[x] /\ target \in {None, m}
    ELSE IF target # None THEN m = target
    ELSE movie[m].status = "none" /\ \A w \in Workers : tx[w].movie # m

\* SELECT the source FOR UPDATE.
ImportFind(w, x, target) ==
    /\ tx[w] = NoTx
    /\ SourceFree(x)
    /\ \E m \in Movies :
          /\ MayBelongTo(x, target, m)
          /\ tx' = [tx EXCEPT ![w] = [NoTx EXCEPT !.pc = "found", !.item = x, !.movie = m,
                                                  !.found = source[x] # None]]
    /\ UNCHANGED <<movie, playable, source, locked, item, announced, unseen>>

\* SELECT the movie FOR UPDATE.
ImportRead(w) ==
    /\ tx[w].pc = "found"
    /\ MovieFree(tx[w].movie)
    /\ tx' = [tx EXCEPT ![w].pc = "read", ![w].saw = movie[tx[w].movie].status]
    /\ UNCHANGED <<movie, playable, source, locked, item, announced, unseen>>

\* Mutant of PublishedTransition: every import of a movie that is not archived announces it.
PublishedEachTime(saw) == saw # "archived"

PublishedTransition(saw) == saw \in {"none", "draft"}

\* metadata_locked of the source as it was read, which is locked as well.
Kept(w) == tx[w].found /\ tx[w].item \in locked

ImportedMovie(w) ==
    [status |-> IF tx[w].saw = "archived" THEN "archived" ELSE "published",
     title |-> IF Kept(w) THEN movie[tx[w].movie].title ELSE "provider"]

\* syncPlayablesAndSourceItems: the playable and the source item, or what they become.
Offered(x) == IF x \in Streamed THEN "available" ELSE "unknown"

\* The writes and the commit; other says whether a field changed that no lock protects.
ImportCommit(w, other) ==
    LET x == tx[w].item
        m == tx[w].movie
        published == PublishedTransition(tx[w].saw)
        changed == published \/ ImportedMovie(w) # movie[m] \/ other
        moved == item[x] # Offered(x) \/ ~tx[w].found
    IN
    /\ tx[w].pc = "read"
    /\ tx[w].saw = "none" => movie[m].status = "none"     \* PRIMARY KEY
    /\ ~tx[w].found => source[x] = None                  \* unique index on provider, external_id
    /\ movie' = [movie EXCEPT ![m] = ImportedMovie(w)]
    /\ source' = [source EXCEPT ![x] = m]
    /\ playable' = playable \union {m}
    /\ item' = [item EXCEPT ![x] = Offered(x)]
    /\ IF published THEN Announce(m) ELSE UNCHANGED announced
    /\ IF changed \/ moved THEN WriteEvent(m) ELSE UNCHANGED unseen
    /\ tx' = [tx EXCEPT ![w] = NoTx]
    /\ UNCHANGED locked

\* A conflict of the mapping, a unique index, a lost connection.
ImportRollback(w) ==
    /\ tx' = [tx EXCEPT ![w] = NoTx]
    /\ UNCHANGED <<movie, playable, source, locked, item, announced, unseen>>
=============================================================================
