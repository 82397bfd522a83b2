----------------------------- MODULE CatalogProofs -----------------------------
(***************************************************************************)
(* Theorems about Catalog, for any movies, provider items, workers, runs   *)
(* and bounds.                                                             *)
(*                                                                         *)
(* The row lock of the movie carries the argument: what an import that     *)
(* holds it has read of the movie is still so when the import commits.     *)
(* Where there was no row to lock, the primary key takes its place.        *)
(***************************************************************************)
EXTENDS Catalog, WellFoundedInduction, TLAPS

(***************************************************************************)
(* The inductive invariant.                                                *)
(***************************************************************************)
\* An item has a source, and a transaction that has begun names its item and its movie.
Named ==
    /\ \A s \in Sources : item[s] # "none" => source[s] # None
    /\ \A w \in Workers : tx[w].pc # "none" => tx[w].item # None /\ tx[w].movie # None

\* The import holds the row lock of its movie.
Reading(w) == tx[w].pc = "read" /\ tx[w].saw # "none"

ReadsStand ==
    \A w \in Workers : Reading(w) =>
        /\ movie[tx[w].movie].status = tx[w].saw
        /\ \A v \in Workers \ {w} : Reading(v) => tx[v].movie # tx[w].movie

\* A movie that was never published was never announced.
Unannounced == \A m \in Movies : movie[m].status \in {"none", "draft"} => announced[m] = 0

MovieInv == MoviesTypeOK /\ Named /\ ReadsStand /\ Unannounced /\ PublishedOnce

\* A worker at work has a run that exists, and something to do where it is about to do it;
\* a refresh goes through sources that exist.
WorkOK(w) ==
    \/ work[w] = Idle
    \/ /\ work[w].pc # "idle" /\ work[w].run # None /\ run[work[w].run].status # "none"
       /\ work[w].pc \in {"import", "done"} => work[w].todo # {}
       /\ run[work[w].run].mode = "refresh" => work[w].todo \subseteq Attached

RunOK(r) ==
    run[r].status # "none" =>
        /\ run[r].mode = "import" => run[r].item # None
        /\ run[r].mode = "discovery" => run[r].scan # None

SyncInv == (\A w \in Workers : WorkOK(w)) /\ (\A r \in Runs : RunOK(r))

IInv == TypeOK /\ MovieInv /\ SyncInv

-----------------------------------------------------------------------------
(***************************************************************************)
(* What a step does to the movies.                                         *)
(***************************************************************************)
\* EditorsDecide, of one step.
Decided ==
    /\ \A m \in Movies : movie[m].status = "archived" => movie'[m].status = "archived"
    /\ \A w \in Workers :
          tx[w].found /\ tx[w].item \in locked /\ tx'[w] = NoTx
          => \A m \in Movies : movie'[m].title = movie[m].title

\* A source is never taken away.
SourcesKept == \A s \in Sources : source[s] # None => source'[s] # None

\* What has to be shown of a step of the movies.
MovieKept == MovieInv' /\ Decided /\ SourcesKept

\* The calls that leave the transactions alone and change one movie's row at most.
LEMMA QuietStep ==
  ASSUME MovieInv, MoviesTypeOK', tx' = tx, SourcesKept,
         \A s \in Sources : item'[s] # "none" => item[s] # "none" \/ source[s] # None,
         NEW m \in Movies, \A n \in Movies \ {m} : movie'[n] = movie[n] /\ announced'[n] = announced[n],
         movie'[m].status # movie[m].status => \A w \in Workers : Reading(w) => tx[w].movie # m,
         movie[m].status = "archived" => movie'[m].status = "archived",
         movie'[m].status \in {"none", "draft"} => announced'[m] = 0,
         announced'[m] <= 1,
         movie'[m].status = "published" => announced'[m] = 1
  PROVE  MovieKept
<1>1. Named'
  BY DEF MovieInv, Named, SourcesKept, Sources
<1>2. ReadsStand'
  <2>1. \A w \in Workers : Reading(w) =>
            tx[w].movie \in Movies /\ movie'[tx[w].movie].status = movie[tx[w].movie].status
    BY DEF MovieInv, Named, Reading, MoviesTypeOK
  <2> QED
    BY <2>1 DEF MovieInv, ReadsStand, Reading
<1>3. Unannounced' /\ PublishedOnce'
  BY DEF MovieInv, Unannounced, PublishedOnce
<1>4. Decided
  <2>1. \A w \in Workers : ~(tx[w].found /\ tx'[w] = NoTx)
    BY DEF NoTx
  <2> QED
    BY <2>1 DEF Decided
<1> QED
  BY <1>1, <1>2, <1>3, <1>4 DEF MovieInv, MovieKept

LEMMA UnmovedStep ==
  ASSUME MovieInv, MoviesTypeOK', UNCHANGED <<movie, announced, tx>>, SourcesKept,
         \A s \in Sources : item'[s] # "none" => item[s] # "none" \/ source[s] # None
  PROVE  MovieKept
<1>1. Named'
  BY DEF MovieInv, Named, SourcesKept
<1>2. ReadsStand' /\ Unannounced' /\ PublishedOnce'
  BY DEF MovieInv, ReadsStand, Reading, Unannounced, PublishedOnce
<1>3. \A w \in Workers : ~(tx[w].found /\ tx'[w] = NoTx)
  BY DEF NoTx
<1> QED
  BY <1>1, <1>2, <1>3 DEF MovieInv, MovieKept, Decided

\* The calls of editors and of the streaming service, and what a sync takes off.
EditorCall ==
    \/ \E m \in Movies :
          \/ CreateMovie(m) \/ PatchMovie(m) \/ PublishMovie(m) \/ ArchiveMovie(m)
          \/ AddPlayable(m)
          \/ \E s \in Sources, lock \in BOOLEAN : AddContentSource(s, m, lock)
    \/ \E s \in Sources, status \in {"unknown", "available"} : AddSourceItem(s, status)
    \/ \E s \in Sources, lock \in BOOLEAN : MetadataLock(s, lock)

ItemCall ==
    \E s \in Sources :
        \/ \E status \in {"available", "error"} : SetItem(s, status)
        \/ source[s] # None /\ MarkSourceUnavailable(s)

\* Reading the events, and having them back, changes no row.
EventsRead ==
    /\ unseen' \subseteq Movies
    /\ UNCHANGED <<movie, playable, source, locked, item, tx, announced>>

ImportStepOf(w) ==
    \/ \E x \in ProviderItems, target \in Movies \union {None} : ImportFind(w, x, target)
    \/ ImportRead(w)
    \/ \E other \in BOOLEAN : ImportCommit(w, other)
    \/ ImportRollback(w)

MovieStep == EditorCall \/ ItemCall \/ EventsRead \/ \E w \in Workers : ImportStepOf(w)

LEMMA RowTyped ==
  ASSUME MovieInv, NEW m \in Movies, NEW status \in MovieStatus
  PROVE  /\ [movie EXCEPT ![m] = [status |-> status, title |-> "edited"]]
               \in [Movies -> [status: MovieStatus, title: {"edited", "provider"}]]
         /\ [movie EXCEPT ![m].status = status]
               \in [Movies -> [status: MovieStatus, title: {"edited", "provider"}]]
         /\ [movie EXCEPT ![m].title = "edited"]
               \in [Movies -> [status: MovieStatus, title: {"edited", "provider"}]]
  BY DEF MovieInv, MoviesTypeOK

LEMMA EditorCallKeeps == ASSUME MovieInv, EditorCall PROVE MovieKept
<1> USE MoviesAssumption
<1>0. /\ \A n \in Movies : announced[n] \in {0, 1}
      /\ \A n \in Movies : movie[n].status \in {"none", "draft"} => announced[n] = 0
      /\ \A n \in Movies : movie[n].status = "published" => announced[n] = 1
  BY DEF MovieInv, Unannounced, PublishedOnce, MoviesTypeOK
<1>1. ASSUME NEW m \in Movies, CreateMovie(m) PROVE MovieKept
  <2>1. MoviesTypeOK'
    <3>1. "draft" \in MovieStatus
      BY DEF MovieStatus
    <3> QED
      BY <1>1, <3>1, RowTyped DEF CreateMovie, MovieInv, MoviesTypeOK
  <2>2. /\ movie' = [movie EXCEPT ![m] = [status |-> "draft", title |-> "edited"]]
        /\ movie[m].status = "none" /\ \A w \in Workers : tx[w].movie # m
        /\ tx' = tx /\ announced' = announced /\ SourcesKept /\ item' = item
    BY <1>1 DEF CreateMovie, SourcesKept
  <2>3. /\ movie'[m].status = "draft"
        /\ \A n \in Movies \ {m} : movie'[n] = movie[n] /\ announced'[n] = announced[n]
    BY <2>2 DEF MovieInv, MoviesTypeOK
  <2> QED
    BY <1>0, <2>1, <2>2, <2>3, QuietStep
<1>2. ASSUME NEW m \in Movies, PatchMovie(m) PROVE MovieKept
  <2>1. MoviesTypeOK'
    BY <1>2, RowTyped, "none" \in MovieStatus DEF PatchMovie, WriteEvent, MovieInv, MoviesTypeOK, MovieStatus
  <2>2. /\ movie' = [movie EXCEPT ![m].title = "edited"]
        /\ movie[m].status \in {"draft", "published"}
        /\ tx' = tx /\ announced' = announced /\ SourcesKept /\ item' = item
    BY <1>2 DEF PatchMovie, SourcesKept
  <2>3. /\ movie'[m].status = movie[m].status
        /\ \A n \in Movies \ {m} : movie'[n] = movie[n] /\ announced'[n] = announced[n]
    BY <2>2 DEF MovieInv, MoviesTypeOK
  <2> QED
    BY <1>0, <2>1, <2>2, <2>3, QuietStep
<1>3. ASSUME NEW m \in Movies, PublishMovie(m) PROVE MovieKept
  <2>1. MoviesTypeOK'
    <3>1. "published" \in MovieStatus
      BY DEF MovieStatus
    <3>2. announced' \in [Movies -> Nat]
      BY <1>3 DEF PublishMovie, Announce, MovieInv, MoviesTypeOK
    <3> QED
      BY <1>3, <3>1, <3>2, RowTyped DEF PublishMovie, WriteEvent, MovieInv, MoviesTypeOK
  <2>2. /\ movie' = [movie EXCEPT ![m].status = "published"]
        /\ announced' = [announced EXCEPT ![m] = @ + 1]
        /\ movie[m].status = "draft" /\ MovieFree(m)
        /\ tx' = tx /\ SourcesKept /\ item' = item
    BY <1>3 DEF PublishMovie, SourcesKept, Announce
  <2>3. /\ movie'[m].status = "published" /\ announced'[m] = 1
        /\ \A n \in Movies \ {m} : movie'[n] = movie[n] /\ announced'[n] = announced[n]
    BY <1>0, <2>2 DEF MovieInv, MoviesTypeOK
  <2>4. \A w \in Workers : Reading(w) => tx[w].movie # m
    BY <2>2 DEF MovieFree, Reading
  <2> QED
    BY <1>0, <2>1, <2>2, <2>3, <2>4, QuietStep
<1>4. ASSUME NEW m \in Movies, ArchiveMovie(m) PROVE MovieKept
  <2>1. MoviesTypeOK'
    <3>1. "archived" \in MovieStatus
      BY DEF MovieStatus
    <3> QED
      BY <1>4, <3>1, RowTyped DEF ArchiveMovie, WriteEvent, MovieInv, MoviesTypeOK
  <2>2. /\ movie' = [movie EXCEPT ![m].status = "archived"]
        /\ MovieFree(m)
        /\ tx' = tx /\ announced' = announced /\ SourcesKept /\ item' = item
    BY <1>4 DEF ArchiveMovie, SourcesKept
  <2>3. /\ movie'[m].status = "archived"
        /\ \A n \in Movies \ {m} : movie'[n] = movie[n] /\ announced'[n] = announced[n]
    BY <2>2 DEF MovieInv, MoviesTypeOK
  <2>4. \A w \in Workers : Reading(w) => tx[w].movie # m
    BY <2>2 DEF MovieFree, Reading
  <2> QED
    BY <1>0, <2>1, <2>2, <2>3, <2>4, QuietStep
<1>5. ASSUME movie' = movie, announced' = announced, tx' = tx, SourcesKept, MoviesTypeOK',
             \A s \in Sources : item'[s] # "none" => item[s] # "none" \/ source[s] # None
      PROVE  MovieKept
  BY <1>5, UnmovedStep
<1>6. ASSUME NEW m \in Movies, AddPlayable(m) PROVE MovieKept
  <2>1. MoviesTypeOK'
    BY <1>6 DEF AddPlayable, MovieInv, MoviesTypeOK
  <2> QED
    BY <1>5, <1>6, <2>1 DEF AddPlayable, SourcesKept
<1>7. ASSUME NEW m \in Movies, NEW s \in Sources, NEW lock \in BOOLEAN, AddContentSource(s, m, lock)
      PROVE  MovieKept
  <2>1. source' \in [Sources -> Movies \union {None}] /\ locked' \subseteq ProviderItems
    BY <1>7 DEF AddContentSource, MovieInv, MoviesTypeOK
  <2>2. MoviesTypeOK'
    BY <1>7, <2>1 DEF AddContentSource, MovieInv, MoviesTypeOK
  <2>3. SourcesKept
    BY <1>7 DEF AddContentSource, SourcesKept, MovieInv, MoviesTypeOK
  <2> QED
    BY <1>5, <1>7, <2>2, <2>3 DEF AddContentSource
<1>8. ASSUME NEW s \in Sources, NEW status \in {"unknown", "available"}, AddSourceItem(s, status)
      PROVE  MovieKept
  <2>1. MoviesTypeOK'
    BY <1>8 DEF AddSourceItem, MovieInv, MoviesTypeOK
  <2>2. source[s] # None
    BY <1>8 DEF AddSourceItem, MovieInv, MoviesTypeOK
  <2>3. \A x \in Sources : item'[x] # "none" => item[x] # "none" \/ source[x] # None
    BY <1>8, <2>2 DEF AddSourceItem, MovieInv, MoviesTypeOK
  <2> QED
    BY <1>5, <1>8, <2>1, <2>3 DEF AddSourceItem, SourcesKept
<1>9. ASSUME NEW s \in Sources, NEW lock \in BOOLEAN, MetadataLock(s, lock) PROVE MovieKept
  <2>1. MoviesTypeOK'
    BY <1>9 DEF MetadataLock, MovieInv, MoviesTypeOK
  <2> QED
    BY <1>5, <1>9, <2>1 DEF MetadataLock, SourcesKept
<1> QED
  BY <1>1, <1>2, <1>3, <1>4, <1>6, <1>7, <1>8, <1>9 DEF EditorCall

LEMMA ItemCallKeeps == ASSUME MovieInv, ItemCall PROVE MovieKept
<1> USE MoviesAssumption
<1>1. PICK s \in Sources :
          \/ \E status \in {"available", "error"} : SetItem(s, status)
          \/ source[s] # None /\ MarkSourceUnavailable(s)
  BY DEF ItemCall
<1>2. /\ source[s] \in Movies
      /\ unseen' \subseteq unseen \union {source[s]}
      /\ UNCHANGED <<movie, playable, source, locked, tx, announced>>
  BY <1>1 DEF SetItem, MarkSourceUnavailable, WriteEvent, MovieInv, MoviesTypeOK, Named
<1>3. item' \in [Sources -> {"none", "unknown", "available", "unavailable", "error"}]
  BY <1>1 DEF SetItem, MarkSourceUnavailable, MovieInv, MoviesTypeOK
<1>4. \A x \in Sources : item'[x] # "none" => item[x] # "none" \/ source[x] # None
  BY <1>1 DEF SetItem, MarkSourceUnavailable, MovieInv, MoviesTypeOK
<1>5. MoviesTypeOK'
  BY <1>2, <1>3 DEF MovieInv, MoviesTypeOK
<1> QED
  BY <1>2, <1>4, <1>5, UnmovedStep DEF SourcesKept

LEMMA EventsReadKeep == ASSUME MovieInv, EventsRead PROVE MovieKept
<1>1. MoviesTypeOK'
  BY DEF EventsRead, MovieInv, MoviesTypeOK
<1> QED
  BY <1>1, UnmovedStep DEF EventsRead, SourcesKept

\* A step of one import that leaves the rows alone.
LEMMA TxStep ==
  ASSUME MovieInv, NEW w \in Workers, NEW t,
         t \in [pc: {"none", "found", "read"}, item: ProviderItems \union {None},
               movie: Movies \union {None}, found: BOOLEAN, saw: MovieStatus],
         tx' = [tx EXCEPT ![w] = t],
         UNCHANGED <<movie, playable, source, locked, item, announced, unseen>>,
         t.pc # "none" => t.item # None /\ t.movie # None,
         t.pc = "read" /\ t.saw # "none" =>
            t.saw = movie[t.movie].status /\ MovieFree(t.movie)
  PROVE  MovieKept
<1>1. tx'[w] = t /\ \A v \in Workers \ {w} : tx'[v] = tx[v]
  BY DEF MovieInv, MoviesTypeOK
<1>2. MoviesTypeOK'
  BY DEF MovieInv, MoviesTypeOK
<1>3. Named'
  BY <1>1 DEF MovieInv, Named
<1>4. ReadsStand'
  <2>1. Reading(w)' => \A v \in Workers : Reading(v) => tx[v].movie # t.movie
    BY <1>1 DEF Reading, MovieFree
  <2>2. \A v \in Workers \ {w} : Reading(v)' => Reading(v)
    BY <1>1 DEF Reading
  <2>3. Reading(w)' => movie'[tx'[w].movie].status = tx'[w].saw
    BY <1>1 DEF Reading
  <2>4. ASSUME NEW v \in Workers, Reading(v)'
        PROVE  /\ movie'[tx'[v].movie].status = tx'[v].saw
               /\ \A u \in Workers \ {v} : Reading(u)' => tx'[u].movie # tx'[v].movie
    BY <1>1, <2>1, <2>2, <2>3, <2>4 DEF MovieInv, ReadsStand
  <2> QED
    BY <2>4 DEF ReadsStand
<1>5. Unannounced' /\ PublishedOnce'
  BY DEF MovieInv, Unannounced, PublishedOnce
<1> QED
  BY <1>2, <1>3, <1>4, <1>5 DEF MovieInv, MovieKept, Decided, SourcesKept

LEMMA ImportCommitKeeps ==
  ASSUME MovieInv, NEW w \in Workers, NEW other \in BOOLEAN, ImportCommit(w, other)
  PROVE  MovieKept
<1> USE MoviesAssumption
<1> DEFINE x == tx[w].item
           m == tx[w].movie
           saw == tx[w].saw
<1>1. /\ x \in ProviderItems /\ x \in Sources /\ m \in Movies /\ saw \in MovieStatus
      /\ tx[w].pc = "read"
  BY DEF ImportCommit, MovieInv, Named, MoviesTypeOK, Sources
<1>2. saw = movie[m].status
  BY <1>1 DEF ImportCommit, MovieInv, ReadsStand, Reading
<1>3. /\ movie' = [movie EXCEPT ![m] = ImportedMovie(w)]
      /\ source' = [source EXCEPT ![x] = m] /\ item' = [item EXCEPT ![x] = Offered(x)]
      /\ playable' = playable \union {m}
      /\ announced' = IF PublishedTransition(saw) THEN [announced EXCEPT ![m] = @ + 1]
                                                 ELSE announced
      /\ unseen' \subseteq unseen \union {m}
      /\ tx' = [tx EXCEPT ![w] = NoTx] /\ locked' = locked
  BY DEF ImportCommit, Announce, WriteEvent
<1>4. ImportedMovie(w) \in [status: MovieStatus, title: {"edited", "provider"}]
  BY <1>1 DEF ImportedMovie, MovieInv, MoviesTypeOK, MovieStatus
<1>5. ImportedMovie(w).status = IF saw = "archived" THEN "archived" ELSE "published"
  BY DEF ImportedMovie
<1>6. /\ movie'[m].status = IF saw = "archived" THEN "archived" ELSE "published"
      /\ \A n \in Movies \ {m} : movie'[n] = movie[n] /\ announced'[n] = announced[n]
      /\ announced'[m] = IF PublishedTransition(saw) THEN announced[m] + 1 ELSE announced[m]
  BY <1>1, <1>3, <1>5 DEF MovieInv, MoviesTypeOK
<1>7. tx'[w] = NoTx /\ \A v \in Workers \ {w} : tx'[v] = tx[v]
  BY <1>3 DEF MovieInv, MoviesTypeOK
<1>8. MoviesTypeOK'
  <2>1. NoTx \in [pc: {"none", "found", "read"}, item: ProviderItems \union {None},
                  movie: Movies \union {None}, found: BOOLEAN, saw: MovieStatus]
    BY DEF NoTx, MovieStatus
  <2>2. announced' \in [Movies -> Nat]
    BY <1>1, <1>3 DEF MovieInv, MoviesTypeOK
  <2>3. movie' \in [Movies -> [status: MovieStatus, title: {"edited", "provider"}]]
    BY <1>1, <1>3, <1>4 DEF MovieInv, MoviesTypeOK
  <2>4. /\ playable' \subseteq Movies /\ unseen' \subseteq Movies /\ locked' \subseteq ProviderItems
        /\ source' \in [Sources -> Movies \union {None}]
    BY <1>1, <1>3 DEF MovieInv, MoviesTypeOK
  <2>5. item' \in [Sources -> {"none", "unknown", "available", "unavailable", "error"}]
    BY <1>1, <1>3 DEF MovieInv, MoviesTypeOK, Offered
  <2>6. tx' \in [Workers -> [pc: {"none", "found", "read"}, item: ProviderItems \union {None},
                             movie: Movies \union {None}, found: BOOLEAN, saw: MovieStatus]]
    BY <1>3, <2>1 DEF MovieInv, MoviesTypeOK
  <2> QED
    BY <2>2, <2>3, <2>4, <2>5, <2>6 DEF MoviesTypeOK
<1>9. SourcesKept /\ source'[x] # None
  BY <1>1, <1>3 DEF SourcesKept, MovieInv, MoviesTypeOK
<1>10. Named'
  <2>1. \A s \in Sources \ {x} : item'[s] = item[s] /\ source'[s] = source[s]
    BY <1>3 DEF MovieInv, MoviesTypeOK
  <2> QED
    BY <1>7, <1>9, <2>1 DEF MovieInv, Named, NoTx
<1>11. ReadsStand'
  <2>1. \A v \in Workers \ {w} : Reading(v) => tx[v].movie # m
    <3>1. CASE saw # "none"
      BY <1>1, <3>1 DEF Reading, MovieInv, ReadsStand
    <3>2. CASE saw = "none"
      BY <1>2, <3>2 DEF Reading, MovieInv, ReadsStand
    <3> QED
      BY <3>1, <3>2
  <2>2. ~Reading(w)' /\ \A v \in Workers \ {w} : Reading(v)' <=> Reading(v)
    BY <1>7 DEF Reading, NoTx
  <2>3. \A v \in Workers : Reading(v) => tx[v].movie \in Movies
    BY DEF Reading, MovieInv, Named, MoviesTypeOK
  <2> QED
    BY <1>6, <1>7, <2>1, <2>2, <2>3 DEF MovieInv, ReadsStand
<1>12. Unannounced' /\ PublishedOnce'
  <2>1. \A n \in Movies : announced[n] \in {0, 1}
    BY DEF MovieInv, PublishedOnce, MoviesTypeOK
  <2>2. announced'[m] <= 1 /\ (movie'[m].status = "published" => announced'[m] = 1)
        /\ movie'[m].status \notin {"none", "draft"}
    BY <1>1, <1>2, <1>6, <2>1 DEF MovieInv, Unannounced, PublishedOnce, PublishedTransition, MovieStatus
  <2> QED
    BY <1>6, <2>2 DEF MovieInv, Unannounced, PublishedOnce
<1>13. Decided
  <2>1. \A n \in Movies : movie[n].status = "archived" => movie'[n].status = "archived"
    BY <1>2, <1>6
  <2>2. \A v \in Workers \ {w} : ~(tx[v].found /\ tx'[v] = NoTx)
    BY <1>7 DEF NoTx
  <2>3. ASSUME tx[w].found, x \in locked PROVE \A n \in Movies : movie'[n].title = movie[n].title
    <3>1. ImportedMovie(w).title = movie[m].title
      BY <2>3 DEF ImportedMovie, Kept
    <3>2. movie'[m] = ImportedMovie(w)
      BY <1>1, <1>3 DEF MovieInv, MoviesTypeOK
    <3> QED
      BY <1>6, <3>1, <3>2
  <2> QED
    BY <2>1, <2>2, <2>3 DEF Decided
<1> QED
  BY <1>8, <1>9, <1>10, <1>11, <1>12, <1>13 DEF MovieInv, MovieKept

LEMMA ImportKeeps == ASSUME MovieInv, NEW w \in Workers, ImportStepOf(w) PROVE MovieKept
<1> USE MoviesAssumption
<1>1. ASSUME NEW x \in ProviderItems, NEW target \in Movies \union {None}, ImportFind(w, x, target)
      PROVE  MovieKept
  <2> DEFINE Begun(m, found) ==
               [NoTx EXCEPT !.pc = "found", !.item = x, !.movie = m, !.found = found]
  <2>1. PICK m \in Movies, found \in BOOLEAN : tx' = [tx EXCEPT ![w] = Begun(m, found)]
    <3>1. (source[x] # None) \in BOOLEAN
      OBVIOUS
    <3> QED
      BY <1>1, <3>1 DEF ImportFind
  <2>2. /\ Begun(m, found) \in [pc: {"none", "found", "read"}, item: ProviderItems \union {None},
                                movie: Movies \union {None}, found: BOOLEAN, saw: MovieStatus]
        /\ Begun(m, found).pc = "found" /\ Begun(m, found).item # None
        /\ Begun(m, found).movie # None /\ Begun(m, found).saw = "none"
    BY DEF NoTx, MovieStatus
  <2> HIDE DEF Begun
  <2> QED
    BY <1>1, <2>1, <2>2, TxStep DEF ImportFind
<1>2. ASSUME ImportRead(w) PROVE MovieKept
  <2> DEFINE t == [tx[w] EXCEPT !.pc = "read", !.saw = movie[tx[w].movie].status]
  <2>1. tx' = [tx EXCEPT ![w] = t]
    BY <1>2 DEF ImportRead, MovieInv, MoviesTypeOK
  <2>2. tx[w].movie \in Movies /\ tx[w].item \in ProviderItems /\ MovieFree(tx[w].movie)
    BY <1>2 DEF ImportRead, MovieInv, Named, MoviesTypeOK
  <2>3. movie[tx[w].movie].status \in MovieStatus
    BY <2>2 DEF MovieInv, MoviesTypeOK
  <2>4. /\ t \in [pc: {"none", "found", "read"}, item: ProviderItems \union {None},
                  movie: Movies \union {None}, found: BOOLEAN, saw: MovieStatus]
        /\ t.item = tx[w].item /\ t.movie = tx[w].movie /\ t.saw = movie[tx[w].movie].status
    <3>1. tx[w] \in [pc: {"none", "found", "read"}, item: ProviderItems \union {None},
                     movie: Movies \union {None}, found: BOOLEAN, saw: MovieStatus]
      BY DEF MovieInv, MoviesTypeOK
    <3>2. t \in [pc: {"none", "found", "read"}, item: ProviderItems \union {None},
                 movie: Movies \union {None}, found: BOOLEAN, saw: MovieStatus]
      BY <2>3, <3>1
    <3>3. t.item = tx[w].item /\ t.movie = tx[w].movie /\ t.saw = movie[tx[w].movie].status
      BY <3>1
    <3> QED
      BY <3>2, <3>3
  <2> HIDE DEF t
  <2> QED
    BY <1>2, <2>1, <2>2, <2>4, TxStep, ZenonT(40) DEF ImportRead
<1>3. ASSUME ImportRollback(w) PROVE MovieKept
  <2>1. NoTx \in [pc: {"none", "found", "read"}, item: ProviderItems \union {None},
                  movie: Movies \union {None}, found: BOOLEAN, saw: MovieStatus]
        /\ NoTx.pc = "none"
    BY DEF NoTx, MovieStatus
  <2> QED
    BY <1>3, <2>1, TxStep DEF ImportRollback
<1> QED
  BY <1>1, <1>2, <1>3, ImportCommitKeeps DEF ImportStepOf

LEMMA MovieStepKeeps == ASSUME MovieInv, MovieStep PROVE MovieKept
  BY EditorCallKeeps, ItemCallKeeps, EventsReadKeep, ImportKeeps DEF MovieStep

\* Movies that no step touches.
LEMMA MoviesUnchanged == ASSUME MovieInv, UNCHANGED movieVars PROVE MovieKept
<1>1. EventsRead
  BY DEF EventsRead, movieVars, MovieInv, MoviesTypeOK
<1> QED
  BY <1>1, EventsReadKeep

-----------------------------------------------------------------------------
(***************************************************************************)
(* Runs, workers and readers.                                              *)
(***************************************************************************)
SyncTypeOK ==
    /\ run \in [Runs -> SyncRun]
    /\ work \in [Workers -> Job]
    /\ tried \in [Runs -> SUBSET (Nat \X ProviderItems)]
    /\ requests \in 0..MaxRequests
    /\ faults \in 0..MaxFaults

ReadTypeOK == SearchTypeOK /\ HomeTypeOK

\* What has to be shown of each step.
Good == SyncTypeOK' /\ SyncInv' /\ ReadTypeOK' /\ MovieKept

LEMMA TypeParts == TypeOK <=> MoviesTypeOK /\ SyncTypeOK /\ ReadTypeOK
  BY DEF TypeOK, SyncTypeOK, ReadTypeOK

\* A worker at work that has something to do has a first item to do.
LEMMA FirstItem ==
  ASSUME SyncTypeOK, NEW w \in Workers, work[w].todo # {}
  PROVE  /\ ItemOf(w) \in work[w].todo /\ ItemOf(w) \in ProviderItems /\ ItemOf(w) \in Nat
         /\ \A y \in work[w].todo : ItemOf(w) <= y
<1> DEFINE todo == work[w].todo
<1>1. todo \subseteq ProviderItems /\ ProviderItems \subseteq Nat
  BY MoviesAssumption DEF SyncTypeOK, SyncRun, Job
<1> DEFINE Less == OpToRel(<, Nat)
<1>2. IsWellFoundedOn(Less, Nat)
  BY NatLessThanWellFounded, Zenon
<1>3. \A y, x \in Nat : y < x => <<y, x>> \in Less
  BY DEF OpToRel
<1> HIDE DEF Less
<1>4. \E x \in todo : \A y \in todo : x <= y
  <2>1. PICK x \in todo : \A y \in todo : ~(<<y, x>> \in Less)
    BY <1>1, <1>2, WFMin
  <2>2. ASSUME NEW y \in todo PROVE x <= y
    <3>1. x \in Nat /\ y \in Nat
      BY <1>1
    <3>2. ~(y < x)
      BY <1>3, <2>1, <3>1
    <3> QED
      BY <3>1, <3>2
  <2> QED
    BY <2>2
<1>5. ItemOf(w) \in todo /\ \A y \in todo : ItemOf(w) <= y
  BY <1>4 DEF ItemOf
<1> QED
  BY <1>1, <1>5

\* Runs keep what was asked for, and workers go on with what they have or stop.
LEMMA SyncKept ==
  ASSUME SyncTypeOK, SyncInv, SourcesKept,
         \A r \in Runs : /\ run'[r].mode = run[r].mode /\ run'[r].item = run[r].item /\ run'[r].scan = run[r].scan
                         /\ run'[r].status = "none" <=> run[r].status = "none",
         \A w \in Workers :
            \/ work'[w] = work[w]
            \/ work'[w] = Idle
            \/ /\ work[w] # Idle /\ work'[w].run = work[w].run /\ work'[w].pc # "idle"
               /\ work'[w].todo \subseteq work[w].todo \/ run[work[w].run].mode = "discovery"
               /\ work'[w].pc \in {"import", "done"} => work'[w].todo # {}
  PROVE  SyncInv'
<1>1. \A r \in Runs : RunOK(r)'
  BY DEF SyncInv, RunOK
<1>2. Attached \subseteq Attached'
  BY DEF Attached, SourcesKept, Sources
<1>3. ASSUME NEW w \in Workers PROVE WorkOK(w)'
  <2>1. CASE work'[w] = Idle
    BY <2>1 DEF WorkOK
  <2>2. CASE work[w] = Idle /\ work'[w] = work[w]
    BY <2>2 DEF WorkOK
  <2>3. CASE work[w] # Idle /\ work'[w] # Idle
    <3>1. /\ work[w].pc # "idle" /\ work[w].run # None /\ run[work[w].run].status # "none"
          /\ work[w].pc \in {"import", "done"} => work[w].todo # {}
          /\ run[work[w].run].mode = "refresh" => work[w].todo \subseteq Attached
      BY <2>3 DEF SyncInv, WorkOK
    <3>2. work[w].run \in Runs
      BY <3>1 DEF SyncTypeOK, SyncRun, Job
    <3>3. /\ work'[w].run = work[w].run /\ work'[w].pc # "idle"
          /\ work'[w].todo \subseteq work[w].todo \/ run[work[w].run].mode = "discovery"
          /\ work'[w].pc \in {"import", "done"} => work'[w].todo # {}
      BY <2>3, <3>1
    <3> QED
      BY <1>2, <3>1, <3>2, <3>3 DEF WorkOK
  <2> QED
    BY <2>1, <2>2, <2>3
<1> QED
  BY <1>1, <1>3 DEF SyncInv

\* A worker that is not idle has a run.
LEMMA AtWork ==
  ASSUME SyncTypeOK, SyncInv, NEW w \in Workers, work[w] # Idle \/ work[w].pc # "idle"
  PROVE  /\ work[w] # Idle /\ work[w].pc # "idle" /\ work[w].run \in Runs
         /\ work[w].run # None
         /\ run[work[w].run].status # "none"
         /\ work[w].pc \in {"import", "done"} => work[w].todo # {}
         /\ run[work[w].run].mode = "refresh" => work[w].todo \subseteq Attached
<1>1. Idle.pc = "idle"
  BY DEF Idle
<1> QED
  BY <1>1 DEF SyncTypeOK, SyncRun, Job, SyncInv, WorkOK

LEMMA RenewTyped ==
  ASSUME SyncTypeOK, NEW r \in Runs, NEW page \in Nat, Renew(r, page)
  PROVE  /\ run' \in [Runs -> SyncRun]
         /\ \A q \in Runs : /\ run'[q].mode = run[q].mode /\ run'[q].item = run[q].item
                            /\ run'[q].scan = run[q].scan /\ run'[q].status = run[q].status
<1> DEFINE renewed == [run[r] EXCEPT !.page = page, !.lease = TRUE]
<1>0. run[r] \in SyncRun
  BY DEF SyncTypeOK
<1>1. renewed \in SyncRun
      /\ renewed.mode = run[r].mode /\ renewed.item = run[r].item /\ renewed.scan = run[r].scan
      /\ renewed.status = run[r].status
  BY <1>0 DEF SyncRun
<1>2. run' = run \/ run' = [run EXCEPT ![r] = renewed]
  BY DEF Renew, SyncTypeOK
<1> HIDE DEF renewed
<1> QED
  BY <1>1, <1>2, SMTT(40) DEF SyncTypeOK

LEMMA SyncUnchanged ==
  ASSUME SyncTypeOK, SyncInv, SourcesKept, UNCHANGED <<run, work>>
  PROVE  SyncInv'
  BY SyncKept

LEMMA ReadUnchanged == ASSUME ReadTypeOK, UNCHANGED readVars PROVE ReadTypeOK'
  BY DEF ReadTypeOK, SearchTypeOK, HomeTypeOK, readVars, searchVars

LEMMA FaultTyped == ASSUME SyncTypeOK, Fault PROVE faults' \in 0..MaxFaults
  BY CatalogAssumption DEF SyncTypeOK, Fault

LEMMA RequestTyped == ASSUME SyncTypeOK, Request PROVE requests' \in 0..MaxRequests
  BY CatalogAssumption DEF SyncTypeOK, Request

\* Calls that change movies only.
LEMMA CallStep == ASSUME IInv, EditorStep \/ StreamingStep PROVE Good
<1>0. SyncTypeOK /\ ReadTypeOK /\ SyncInv /\ MovieInv
  BY TypeParts DEF IInv
<1>1. Request /\ UNCHANGED <<readVars, syncVars, faults>>
  BY DEF EditorStep, StreamingStep
<1>2. EditorCall \/ ItemCall
  BY DEF EditorStep, StreamingStep, EditorCall, ItemCall, MarkOwnedReady, ReportSourceStatus
<1>3. MovieKept
  BY <1>0, <1>2, EditorCallKeeps, ItemCallKeeps
<1>4. SyncInv'
  BY <1>0, <1>1, <1>3, SyncUnchanged DEF syncVars, MovieKept
<1>5. SyncTypeOK'
  BY <1>0, <1>1, RequestTyped DEF SyncTypeOK, syncVars
<1> QED
  BY <1>0, <1>1, <1>3, <1>4, <1>5, ReadUnchanged DEF Good

LEMMA CreateRunStep == ASSUME IInv, RunStep PROVE Good
<1>0. SyncTypeOK /\ ReadTypeOK /\ SyncInv /\ MovieInv
  BY TypeParts DEF IInv
<1>1. PICK r \in Runs, order \in Orders : CreateSyncRun(r, order)
  BY DEF RunStep
<1> DEFINE created == [NoRun EXCEPT !.status = "queued", !.mode = order.mode,
                                    !.item = order.item, !.target = order.target,
                                    !.scan = order.scan]
<1>2. /\ run' = [run EXCEPT ![r] = created] /\ run[r].status = "none"
      /\ UNCHANGED <<movieVars, readVars, work, tried, faults, requests>>
      /\ order.mode = "import" => order.item # None
      /\ order.mode = "discovery" => order.scan # None
  BY <1>1, CatalogAssumption DEF CreateSyncRun, RunStep
<1>3. /\ created \in SyncRun
      /\ created.mode = "import" => created.item # None
      /\ created.mode = "discovery" => created.scan # None
  <2>1. order \in [mode: Modes, item: ProviderItems \union {None}, target: Movies \union {None},
                   scan: Scans \union {None}]
    BY CatalogAssumption DEF Modes
  <2> QED
    BY <1>2, <2>1 DEF NoRun, SyncRun
<1> HIDE DEF created
<1>4. SyncTypeOK'
  BY <1>0, <1>2, <1>3 DEF SyncTypeOK
<1>5. run'[r] = created /\ \A q \in Runs \ {r} : run'[q] = run[q]
  BY <1>0, <1>2 DEF SyncTypeOK
<1>6. MovieKept
  BY <1>0, <1>2, MoviesUnchanged
<1>7. \A w \in Workers : WorkOK(w)'
  <2> SUFFICES ASSUME NEW w \in Workers PROVE WorkOK(w)'
    OBVIOUS
  <2>1. work'[w] = work[w] /\ source' = source
    BY <1>2 DEF movieVars
  <2>2. CASE work[w] = Idle
    BY <2>1, <2>2 DEF WorkOK
  <2>3. CASE work[w] # Idle
    <3>1. run'[work[w].run] = run[work[w].run] /\ run[work[w].run].status # "none"
      BY <1>0, <1>2, <1>5, <2>3, AtWork
    <3>2. Attached' = Attached
      BY <2>1 DEF Attached
    <3> QED
      BY <1>0, <2>1, <2>3, <3>1, <3>2 DEF WorkOK, SyncInv
  <2> QED
    BY <2>2, <2>3
<1>8. \A q \in Runs : RunOK(q)'
  BY <1>0, <1>3, <1>5 DEF SyncInv, RunOK
<1> QED
  BY <1>0, <1>2, <1>4, <1>6, <1>7, <1>8, ReadUnchanged DEF Good, SyncInv

LEMMA LeaseKeeps == ASSUME IInv, LeaseStep PROVE Good
<1>0. SyncTypeOK /\ ReadTypeOK /\ SyncInv /\ MovieInv
  BY TypeParts DEF IInv
<1>1. PICK r \in Runs : LeaseLapses(r)
  BY DEF LeaseStep
<1>2. /\ UNCHANGED <<movieVars, readVars, work, tried, requests>>
      /\ run' = [run EXCEPT ![r].lease = FALSE]
  BY <1>1 DEF LeaseLapses, LeaseStep
<1>3. faults' \in 0..MaxFaults
  <2>1. Fault \/ faults' = faults
    BY <1>1 DEF LeaseLapses
  <2> QED
    BY <1>0, <2>1, FaultTyped DEF SyncTypeOK
<1>4. MovieKept
  BY <1>0, <1>2, MoviesUnchanged
<1> DEFINE lapsed == [run[r] EXCEPT !.lease = FALSE]
<1>5. /\ lapsed \in SyncRun
      /\ lapsed.mode = run[r].mode /\ lapsed.item = run[r].item /\ lapsed.scan = run[r].scan
      /\ lapsed.status = run[r].status
      /\ run' = [run EXCEPT ![r] = lapsed]
  <2>1. run[r] \in SyncRun
    BY <1>0 DEF SyncTypeOK
  <2>2. run' = [run EXCEPT ![r] = lapsed]
    BY <1>0, <1>2 DEF SyncTypeOK
  <2> QED
    BY <2>1, <2>2 DEF SyncRun
<1> HIDE DEF lapsed
<1>6. \A q \in Runs : /\ run'[q].mode = run[q].mode /\ run'[q].item = run[q].item
                      /\ run'[q].scan = run[q].scan /\ run'[q].status = run[q].status
  BY <1>0, <1>5 DEF SyncTypeOK
<1>8. SyncTypeOK'
  <2>1. run' \in [Runs -> SyncRun]
    BY <1>0, <1>5 DEF SyncTypeOK
  <2>2. UNCHANGED <<work, tried, requests>>
    BY <1>2
  <2> QED
    BY <1>0, <1>3, <2>1, <2>2 DEF SyncTypeOK
<1>7. SyncInv'
  BY <1>0, <1>2, <1>4, <1>6, SyncKept DEF MovieKept
<1> QED
  BY <1>0, <1>2, <1>4, <1>7, <1>8, ReadUnchanged DEF Good

\* The readers read the movies and write what is theirs.
LEMMA ReadersStep == ASSUME IInv, ProjectStep \/ ProjectFaults \/ HomeStep PROVE Good
<1>0. SyncTypeOK /\ ReadTypeOK /\ SyncInv /\ MovieInv
  BY TypeParts DEF IInv
<1>1. UNCHANGED <<syncVars, requests>> /\ faults' \in 0..MaxFaults
  BY <1>0, FaultTyped DEF ProjectStep, ProjectFaults, HomeStep, SyncTypeOK
<1>2. EventsRead \/ UNCHANGED movieVars
  BY <1>0 DEF ProjectStep, ProjectFaults, HomeStep, Project, ProjectorFails, ReindexRead, ReindexWrite,
       ProjectRead, ProjectWrite, StartFails, ProjectFails, ProcessRestarts, GiveBack, Refresh,
       EventsRead, MovieInv, MoviesTypeOK, ReadTypeOK, SearchTypeOK
<1>3. MovieKept
  BY <1>0, <1>2, EventsReadKeep, MoviesUnchanged
<1>4. ReadTypeOK'
  <2>1. Published \subseteq Movies /\ Projected \subseteq Movies
    BY <1>0 DEF Published, Projected, ReadTypeOK, SearchTypeOK
  <2>2. CASE HomeStep
    BY <1>0, <2>1, <2>2 DEF HomeStep, Refresh, RefreshHomeCollections, ReplaceHomeCollection, Ranked,
         searchVars, ReadTypeOK, SearchTypeOK, HomeTypeOK
  <2>3. CASE ProjectStep \/ ProjectFaults
    <3>1. home' = home
      BY <2>3 DEF ProjectStep, ProjectFaults
    <3>2. index' \subseteq Movies
      <4>1. index \subseteq Movies /\ projector.rows \subseteq Movies
        BY <1>0 DEF ReadTypeOK, SearchTypeOK
      <4> QED
        BY <2>1, <2>3, <4>1
        DEF ProjectStep, ProjectFaults, Project, ProjectorFails, ReindexRead, ReindexWrite,
            Reindexed, ProjectRead, ProjectWrite, StartFails, ProjectFails, ProcessRestarts
    <3>3. \E state \in {"down", "deferred", "reindexing", "running", "read"},
             about \in Movies \union {None}, rows \in SUBSET Movies :
                projector' = Projector(state, about, rows)
      BY <2>1, <2>3
      DEF ProjectStep, ProjectFaults, Project, ProjectorFails, ReindexRead, ReindexWrite, ProjectRead,
          ProjectWrite, StartFails, ProjectFails, ProcessRestarts
    <3> QED
      BY <1>0, <3>1, <3>2, <3>3 DEF Projector, ReadTypeOK, SearchTypeOK, HomeTypeOK
  <2> QED
    BY <2>2, <2>3
<1>5. SyncInv'
  BY <1>0, <1>1, <1>3, SyncUnchanged DEF syncVars, MovieKept
<1>6. SyncTypeOK'
  BY <1>0, <1>1 DEF SyncTypeOK, syncVars
<1> QED
  BY <1>3, <1>4, <1>5, <1>6 DEF Good

-----------------------------------------------------------------------------
(***************************************************************************)
(* The workers.                                                            *)
(***************************************************************************)
\* What a page lists is of the provider, and what the loop finds there is of the page.
LEMMA ListedTyped ==
  ASSUME NEW scan \in Scans, NEW page
  PROVE  /\ Listed(scan, page) \subseteq ProviderItems
         /\ PageItems(scan, page) \subseteq ProviderItems
         /\ scan.total \in Nat \union {None} /\ scan.max \in Nat
<1>1. /\ scan.pages \in Seq(SUBSET ProviderItems)
      /\ scan.total \in Nat \union {None} /\ scan.max \in Nat
  BY CatalogAssumption
<1>2. Listed(scan, page) \subseteq ProviderItems
  BY <1>1 DEF Listed
<1> QED
  BY <1>1, <1>2 DEF PageItems

LEMMA ClaimKeeps ==
  ASSUME IInv, NEW w \in Workers, NEW r \in Runs, ClaimSyncRun(w, r), UNCHANGED requests
  PROVE  Good
<1>0. SyncTypeOK /\ ReadTypeOK /\ SyncInv /\ MovieInv
  BY TypeParts DEF IInv
<1> DEFINE claimed == [run[r] EXCEPT !.status = "running", !.lease = TRUE]
           started == [run |-> r, pc |-> "next", todo |-> Todo(r), erred |-> run[r].erred,
                       page |-> IF run[r].mode = "discovery" THEN FirstPage(r) ELSE 0]
<1>1. /\ run' = [run EXCEPT ![r] = claimed] /\ work' = [work EXCEPT ![w] = started]
      /\ Claimable(r) /\ UNCHANGED <<movieVars, readVars, tried, faults>>
  BY <1>0 DEF ClaimSyncRun, SyncTypeOK
<1>2. /\ claimed \in SyncRun
      /\ claimed.mode = run[r].mode /\ claimed.item = run[r].item /\ claimed.scan = run[r].scan
      /\ claimed.status = "running"
      /\ run[r].status # "none"
  <2>1. run[r] \in SyncRun
    BY <1>0 DEF SyncTypeOK
  <2>2. run[r].status # "none"
    BY <1>1 DEF Claimable
  <2> QED
    BY <2>1, <2>2 DEF SyncRun
<1>3. Todo(r) \subseteq ProviderItems /\ (run[r].mode = "refresh" => Todo(r) \subseteq Attached)
  <2>1. Attached \subseteq ProviderItems
    BY DEF Attached
  <2>2. run[r].mode = "import" => run[r].item \in ProviderItems
    BY <1>0, <1>2 DEF SyncInv, RunOK, SyncTypeOK, SyncRun, Job
  <2>3. run[r].mode \in {"discovery", "refresh", "import"}
    BY <1>0 DEF SyncTypeOK, SyncRun, Job, Modes
  <2>4. CASE run[r].mode = "import"
    BY <2>2, <2>4 DEF Todo
  <2>5. CASE run[r].mode = "discovery"
    <3>1. run[r].scan \in Scans
      BY <1>0, <1>2, <2>5 DEF SyncInv, RunOK, SyncTypeOK, SyncRun
    <3> QED
      BY <2>5, <3>1, ListedTyped DEF Todo
  <2>6. CASE run[r].mode = "refresh"
    BY <2>1, <2>6 DEF Todo, Batch
  <2> QED
    BY <2>3, <2>4, <2>5, <2>6
<1>4. /\ started \in Job
      /\ started.run = r /\ started.pc = "next" /\ started.todo = Todo(r)
  <2>1. run[r].erred \in BOOLEAN /\ run[r].page \in Nat
    BY <1>0 DEF SyncTypeOK, SyncRun
  <2>2. FirstPage(r) \in Nat
    BY <2>1 DEF FirstPage
  <2>3. started.page \in Nat
    BY <2>2
  <2> QED
    BY <1>3, <2>1, <2>3 DEF Job
<1> HIDE DEF claimed, started
<1>5. SyncTypeOK'
  BY <1>0, <1>1, <1>2, <1>4 DEF SyncTypeOK
<1>6. MovieKept
  BY <1>0, <1>1, MoviesUnchanged
<1>7. /\ \A q \in Runs : /\ run'[q].mode = run[q].mode /\ run'[q].item = run[q].item /\ run'[q].scan = run[q].scan
                         /\ run'[q].status = "none" <=> run[q].status = "none"
      /\ work'[w] = started /\ \A v \in Workers \ {w} : work'[v] = work[v]
      /\ source' = source
  BY <1>0, <1>1, <1>2 DEF SyncTypeOK, movieVars
<1>8. \A v \in Workers : WorkOK(v)'
  <2>1. ASSUME NEW v \in Workers \ {w} PROVE WorkOK(v)'
    <3>1. work'[v] = work[v] /\ Attached' = Attached
      BY <1>7 DEF Attached
    <3>2. CASE work[v] = Idle
      BY <3>1, <3>2 DEF WorkOK
    <3>3. CASE work[v] # Idle
      <4>1. work[v].run \in Runs
        BY <1>0, <3>3, AtWork
      <4>2. WorkOK(v)
        BY <1>0 DEF SyncInv
      <4> QED
        BY <1>7, <3>1, <3>3, <4>1, <4>2 DEF WorkOK
    <3> QED
      BY <3>2, <3>3
  <2>2. WorkOK(w)'
    <3>1. Attached' = Attached
      BY <1>7 DEF Attached
    <3>2. \/ started = Idle
          \/ started.run # None
      BY <1>4, CatalogAssumption
    <3> QED
      BY <1>2, <1>3, <1>4, <1>7, <3>1, <3>2 DEF WorkOK
  <2> QED
    BY <2>1, <2>2
<1>10. \A q \in Runs : RunOK(q)'
  BY <1>0, <1>7 DEF SyncInv, RunOK
<1> QED
  BY <1>0, <1>1, <1>5, <1>6, <1>8, <1>10, ReadUnchanged DEF Good, SyncInv

\* A worker takes a step in its run: what has to be shown of it.
LEMMA RoundStep ==
  ASSUME IInv, NEW w \in Workers, UNCHANGED <<readVars, requests>>, MovieKept,
         work[w].pc # "idle",
         run' \in [Runs -> SyncRun],
         \A r \in Runs : /\ run'[r].mode = run[r].mode /\ run'[r].item = run[r].item /\ run'[r].scan = run[r].scan
                         /\ run'[r].status = "none" <=> run[r].status = "none",
         faults' = faults,
         NEW job \in Job, job.run = work[w].run, job.pc # "idle",
         job.todo \subseteq work[w].todo \/ run[work[w].run].mode = "discovery",
         job.pc \in {"import", "done"} => job.todo # {},
         work' = [work EXCEPT ![w] = job],
         tried' = tried \/ Tried(w),
         ItemOf(w) \in ProviderItems
  PROVE  Good
<1>0. SyncTypeOK /\ ReadTypeOK /\ SyncInv /\ MovieInv
  BY TypeParts DEF IInv
<1>2. work'[w] = job /\ \A v \in Workers \ {w} : work'[v] = work[v]
  BY <1>0 DEF SyncTypeOK
<1>3. work[w] # Idle /\ work[w].run \in Runs
  BY <1>0, AtWork
<1>4. tried' \in [Runs -> SUBSET (Nat \X ProviderItems)]
  <2>1. <<work[w].page, ItemOf(w)>> \in Nat \X ProviderItems
    BY <1>0 DEF SyncTypeOK, Job
  <2> QED
    BY <1>0, <1>3, <2>1 DEF SyncTypeOK, Tried
<1>5. SyncTypeOK'
  BY <1>0, <1>4 DEF SyncTypeOK
<1>6. SyncInv'
  <2>1. \A v \in Workers :
            \/ work'[v] = work[v]
            \/ work'[v] = Idle
            \/ /\ work[v] # Idle /\ work'[v].run = work[v].run /\ work'[v].pc # "idle"
               /\ work'[v].todo \subseteq work[v].todo \/ run[work[v].run].mode = "discovery"
               /\ work'[v].pc \in {"import", "done"} => work'[v].todo # {}
    BY <1>2, <1>3
  <2> QED
    BY <1>0, <2>1, SyncKept DEF MovieKept
<1> QED
  BY <1>0, <1>5, <1>6, ReadUnchanged DEF Good

\* A worker leaves its run.
LEMMA LeaveStep ==
  ASSUME IInv, NEW w \in Workers, UNCHANGED <<searchVars, tried, requests>>, MovieKept,
         home' \subseteq Movies,
         run' \in [Runs -> SyncRun],
         \A r \in Runs : /\ run'[r].mode = run[r].mode /\ run'[r].item = run[r].item /\ run'[r].scan = run[r].scan
                         /\ run'[r].status = "none" <=> run[r].status = "none",
         faults' = faults \/ Fault,
         work' = [work EXCEPT ![w] = Idle]
  PROVE  Good
<1>0. SyncTypeOK /\ ReadTypeOK /\ SyncInv /\ MovieInv
  BY TypeParts DEF IInv
<1>1. Idle \in Job
  BY DEF Idle, Job
<1>2. SyncTypeOK'
  BY <1>0, <1>1, FaultTyped DEF SyncTypeOK
<1>3. \A v \in Workers : work'[v] = work[v] \/ work'[v] = Idle
  BY <1>0 DEF SyncTypeOK
<1>4. SyncInv'
  BY <1>0, <1>3, SyncKept DEF MovieKept
<1>5. ReadTypeOK'
  BY <1>0 DEF ReadTypeOK, SearchTypeOK, HomeTypeOK, searchVars
<1> QED
  BY <1>2, <1>4, <1>5 DEF Good

LEMMA SettleTyped ==
  ASSUME SyncTypeOK, NEW w \in Workers, work[w].run \in Runs,
         run[work[w].run].status # "none",
         NEW status \in {"queued"} \union Finished, NEW erred \in BOOLEAN, NEW lease \in BOOLEAN,
         Settle(w, status, erred, lease)
  PROVE  /\ run' \in [Runs -> SyncRun]
         /\ \A r \in Runs : /\ run'[r].mode = run[r].mode /\ run'[r].item = run[r].item /\ run'[r].scan = run[r].scan
                            /\ run'[r].status = "none" <=> run[r].status = "none"
         /\ work' = [work EXCEPT ![w] = Idle] /\ UNCHANGED <<searchVars, tried>>
<1> DEFINE settled == [run[work[w].run] EXCEPT !.status = status, !.erred = erred, !.lease = lease]
<1>1. /\ settled \in SyncRun
      /\ settled.mode = run[work[w].run].mode /\ settled.item = run[work[w].run].item
      /\ settled.scan = run[work[w].run].scan
      /\ settled.status # "none"
  <2>1. run[work[w].run] \in SyncRun
    BY DEF SyncTypeOK
  <2>2. settled.status = status /\ settled.mode = run[work[w].run].mode
        /\ settled.item = run[work[w].run].item /\ settled.scan = run[work[w].run].scan
        /\ settled \in SyncRun
    BY <2>1 DEF SyncRun
  <2>3. status # "none"
    BY DEF Finished
  <2> QED
    BY <2>2, <2>3
<1>2. run' = [run EXCEPT ![work[w].run] = settled]
  BY DEF Settle, SyncTypeOK
<1> HIDE DEF settled
<1> QED
  BY <1>1, <1>2, ZenonT(40) DEF Settle, SyncTypeOK

LEMMA RoundKeeps ==
  ASSUME IInv, NEW w \in Workers, UNCHANGED requests,
         BeginItem(w) \/ ImportStep(w) \/ FetchFails(w) \/ ImportFails(w) \/ EndItem(w) \/ EndPage(w)
  PROVE  Good
<1> DEFINE r == work[w].run
           x == ItemOf(w)
           todo == work[w].todo
           RunTyped == run' \in [Runs -> SyncRun]
           RunAsked == \A q \in Runs :
               /\ run'[q].mode = run[q].mode /\ run'[q].item = run[q].item /\ run'[q].scan = run[q].scan
               /\ run'[q].status = "none" <=> run[q].status = "none"
<1>0. SyncTypeOK /\ ReadTypeOK /\ SyncInv /\ MovieInv
  BY TypeParts DEF IInv
<1>1. work[w].pc \notin {"idle", "over"} /\ (work[w].pc = "next" => todo # {})
  BY DEF BeginItem, ImportStep, FetchFails, ImportFails, EndItem, EndPage
<1>2. r \in Runs /\ todo # {} /\ (run[r].mode = "refresh" => todo \subseteq Attached)
  BY <1>0, <1>1, AtWork DEF SyncTypeOK, Job
<1>3. x \in todo /\ x \in ProviderItems /\ x \in Nat
  BY <1>0, <1>2, FirstItem
<1>4. /\ work[w] \in Job /\ work[w].page \in Nat /\ work[w].erred \in BOOLEAN
      /\ todo \in SUBSET ProviderItems /\ work[w].pc \in {"next", "import", "done", "over"}
  BY <1>0, <1>1 DEF SyncTypeOK, Job
<1>5. ASSUME run' = run PROVE RunTyped /\ RunAsked
  BY <1>0, <1>5 DEF SyncTypeOK
<1>6. ASSUME NEW page \in Nat, Renew(r, page) PROVE RunTyped /\ RunAsked
  BY <1>0, <1>2, <1>6, RenewTyped
<1>15. ASSUME Checkpoint(w) PROVE RunTyped /\ RunAsked
  <2>1. run[r].mode \in {"import", "discovery", "refresh"}
    BY <1>0, <1>2 DEF SyncTypeOK, SyncRun, Modes
  <2>2. run' = run \/ Renew(r, work[w].page) \/ Renew(r, x)
    BY <1>15, <2>1 DEF Checkpoint, ModeOf
  <2> QED
    BY <1>3, <1>4, <1>5, <1>6, <2>2
<1> HIDE DEF RunTyped, RunAsked
\* What they have in common.
<1>7. ASSUME NEW job \in Job, job.run = r, job.pc # "idle",
             job.todo \subseteq todo \/ run[r].mode = "discovery",
             job.pc \in {"import", "done"} => job.todo # {},
             work' = [work EXCEPT ![w] = job],
             tried' = tried \/ Tried(w),
             MovieKept, RunTyped, RunAsked, UNCHANGED <<readVars, faults>>
      PROVE  Good
  BY <1>1, <1>3, <1>7, RoundStep DEF RunTyped, RunAsked
\* Within a page, with the fields of the worker that they set.
<1>14. ASSUME NEW pc \in {"next", "import", "done"}, NEW rest \in SUBSET todo,
              NEW erred \in BOOLEAN, pc \in {"import", "done"} => rest # {},
              work' = [work EXCEPT ![w] = [@ EXCEPT !.pc = pc, !.todo = rest, !.erred = erred]],
              tried' = tried \/ Tried(w),
              MovieKept, RunTyped, RunAsked, UNCHANGED <<readVars, faults>>
       PROVE  Good
  <2> DEFINE job == [work[w] EXCEPT !.pc = pc, !.todo = rest, !.erred = erred]
  <2>1. job \in Job /\ job.run = r /\ job.pc = pc /\ job.todo = rest
    BY <1>4, <1>14 DEF Job
  <2>2. work' = [work EXCEPT ![w] = job]
    BY <1>14
  <2> HIDE DEF job
  <2>3. job.pc # "idle" /\ job.todo \subseteq todo
        /\ (job.pc \in {"import", "done"} => job.todo # {})
    BY <1>14, <2>1
  <2> QED
    BY <1>7, <1>14, <2>1, <2>2, <2>3
<1>8. CASE BeginItem(w)
  <2>1. ImportTarget(w) \in Movies \union {None}
    BY <1>0, <1>2, <1>3
    DEF ImportTarget, ModeOf, SyncTypeOK, SyncRun, MovieInv, MoviesTypeOK, Sources
  <2>2. MovieKept
    BY <1>0, <1>3, <1>8, <2>1, ImportKeeps DEF BeginItem, ImportStepOf
  <2>3. RunTyped /\ RunAsked
    BY <1>8, <1>15 DEF BeginItem
  <2>4. work' = [work EXCEPT ![w] = [@ EXCEPT !.pc = "import", !.todo = todo, !.erred = work[w].erred]]
    BY <1>0, <1>4, <1>8 DEF BeginItem, SyncTypeOK, Job
  <2>5. UNCHANGED <<readVars, tried, faults>>
    BY <1>8 DEF BeginItem
  <2> QED
    BY <1>2, <1>4, <1>14, <2>2, <2>3, <2>4, <2>5
<1>9. CASE ImportStep(w)
  <2>1. MovieKept
    BY <1>0, <1>9, ImportKeeps DEF ImportStep, ImportStepOf
  <2>2. UNCHANGED <<readVars, run, faults>> /\ work[w].pc = "import"
    BY <1>9 DEF ImportStep
  <2>3. CASE UNCHANGED <<work, tried>>
    <3>1. work' = [work EXCEPT ![w] =
              [@ EXCEPT !.pc = work[w].pc, !.todo = todo, !.erred = work[w].erred]]
      BY <1>0, <1>4, <2>3 DEF SyncTypeOK, Job
    <3> QED
      BY <1>2, <1>4, <1>5, <1>14, <2>1, <2>2, <2>3, <3>1
  <2>4. CASE Tried(w) /\ work' = [work EXCEPT ![w].pc = "done"]
    <3>1. work' = [work EXCEPT ![w] =
              [@ EXCEPT !.pc = "done", !.todo = todo, !.erred = work[w].erred]]
      BY <1>0, <1>4, <2>4 DEF SyncTypeOK, Job
    <3> QED
      BY <1>2, <1>4, <1>5, <1>14, <2>1, <2>2, <2>4, <3>1
  <2> QED
    BY <1>9, <2>3, <2>4 DEF ImportStep
<1>10. ASSUME Skip(w), MovieKept, RunTyped, RunAsked PROVE Good
  <2>1. /\ Tried(w) /\ UNCHANGED <<readVars, faults>>
        /\ work' = [work EXCEPT ![w].pc = "done", ![w].erred = TRUE]
    BY <1>10 DEF Skip
  <2>2. work' = [work EXCEPT ![w] = [@ EXCEPT !.pc = "done", !.todo = todo, !.erred = TRUE]]
    BY <1>0, <1>4, <2>1 DEF SyncTypeOK, Job
  <2> QED
    BY <1>2, <1>4, <1>14, <1>10, <2>1, <2>2
<1>11. CASE FetchFails(w)
  <2>1. (MarkSourceUnavailable(x) /\ run[r].mode = "refresh") \/ UNCHANGED movieVars
    BY <1>11 DEF FetchFails, ModeOf
  <2>2. ASSUME MarkSourceUnavailable(x), run[r].mode = "refresh" PROVE ItemCall
    BY <1>2, <1>3, <2>2 DEF ItemCall, Attached, Sources
  <2>3. MovieKept
    BY <1>0, <2>1, <2>2, ItemCallKeeps, MoviesUnchanged
  <2> QED
    BY <1>10, <1>11, <1>15, <2>3 DEF FetchFails
<1>12. CASE ImportFails(w)
  <2>1. MovieKept
    BY <1>0, <1>12, ImportKeeps DEF ImportFails, ImportStepOf
  <2> QED
    BY <1>5, <1>10, <1>12, <2>1 DEF ImportFails
<1>13. CASE EndItem(w)
  <2>1. UNCHANGED <<movieVars, readVars, tried, faults>>
        /\ work' = [work EXCEPT ![w].pc = "next", ![w].todo = @ \ {x}]
    BY <1>13 DEF EndItem
  <2>2. MovieKept
    BY <1>0, <2>1, MoviesUnchanged
  <2>3. RunTyped /\ RunAsked
    BY <1>13, <1>15 DEF EndItem
  <2>4. work' = [work EXCEPT ![w] =
            [@ EXCEPT !.pc = "next", !.todo = todo \ {x}, !.erred = work[w].erred]]
    BY <1>0, <1>4, <2>1 DEF SyncTypeOK, Job
  <2> QED
    BY <1>4, <1>14, <2>1, <2>2, <2>3, <2>4
<1>16. CASE EndPage(w)
  <2> DEFINE next == work[w].page + 1
             over == ScanOf(w).total # None /\ next > ScanOf(w).total
             pc == IF over THEN "over" ELSE "next"
             rest == IF over THEN {} ELSE PageItems(ScanOf(w), next)
  <2>1. /\ UNCHANGED <<movieVars, readVars, tried, faults>> /\ run[r].mode = "discovery"
        /\ Renew(r, next)
        /\ work' = [work EXCEPT ![w] = [@ EXCEPT !.page = next, !.pc = pc, !.todo = rest]]
    BY <1>16 DEF EndPage, ModeOf
  <2>2. MovieKept
    BY <1>0, <2>1, MoviesUnchanged
  <2>3. next \in Nat /\ pc \in {"next", "over"}
    BY <1>4
  <2>4. ScanOf(w) \in Scans
    <3>1. run[r].status # "none" /\ RunOK(r)
      BY <1>0, <1>1, <1>2, AtWork DEF SyncInv
    <3>2. run[r].scan \in Scans \union {None}
      BY <1>0, <1>2 DEF SyncTypeOK, SyncRun
    <3> QED
      BY <2>1, <3>1, <3>2 DEF ScanOf, RunOK
  <2>5. rest \in SUBSET ProviderItems
    BY <2>4, ListedTyped
  <2> HIDE DEF next, pc, rest
  <2>6. RunTyped /\ RunAsked
    BY <1>6, <2>1, <2>3
  <2> DEFINE job == [work[w] EXCEPT !.page = next, !.pc = pc, !.todo = rest]
  <2>7. job \in Job /\ job.run = r /\ job.pc = pc
    BY <1>4, <2>3, <2>5 DEF Job
  <2>8. work' = [work EXCEPT ![w] = job]
    BY <2>1
  <2> HIDE DEF job
  <2>9. job.pc # "idle" /\ job.pc \notin {"import", "done"}
    BY <2>3, <2>7
  <2> QED
    BY <1>7, <2>1, <2>2, <2>6, <2>7, <2>8, <2>9
<1> QED
  BY <1>8, <1>9, <1>11, <1>12, <1>13, <1>16

LEMMA LeavingKeeps ==
  ASSUME IInv, NEW w \in Workers, UNCHANGED requests,
         FinishRun(w) \/ FailRun(w) \/ RequeueRun(w) \/ WorkerStops(w)
  PROVE  Good
<1> DEFINE r == work[w].run
<1>0. SyncTypeOK /\ ReadTypeOK /\ SyncInv /\ MovieInv
  BY TypeParts DEF IInv
<1>1. r \in Runs /\ run[r].status # "none" /\ run[r].erred \in BOOLEAN /\ run[r].lease \in BOOLEAN
      /\ work[w].erred \in BOOLEAN
  <2>1. work[w].pc # "idle" \/ work[w] # Idle
    BY DEF FinishRun, LoopEnds, FailRun, RequeueRun, WorkerStops
  <2> QED
    BY <1>0, <2>1, AtWork DEF SyncTypeOK, SyncRun, Job
<1>2. home \subseteq Movies /\ Published \subseteq Movies
  BY <1>0 DEF ReadTypeOK, HomeTypeOK, Published
<1>3. MovieKept
  <2>1. ImportRollback(w) \/ UNCHANGED movieVars
    BY DEF FinishRun, FailRun, RequeueRun, WorkerStops
  <2> QED
    BY <1>0, <2>1, ImportKeeps, MoviesUnchanged DEF ImportStepOf
<1>4. home' \subseteq Movies /\ (faults' = faults \/ Fault)
  BY <1>2 DEF FinishRun, FailRun, RequeueRun, WorkerStops, RefreshHomeCollections,
       ReplaceHomeCollection, Ranked, readVars
<1>5. ASSUME NEW status \in {"queued"} \union Finished, NEW erred \in BOOLEAN,
             NEW lease \in BOOLEAN, Settle(w, status, erred, lease)
      PROVE  Good
  BY <1>0, <1>1, <1>3, <1>4, <1>5, SettleTyped, LeaveStep
<1>6. CASE WorkerStops(w)
  BY <1>0, <1>3, <1>4, <1>6, LeaveStep DEF WorkerStops, readVars, SyncTypeOK
<1>7. CASE FinishRun(w)
  <2>1. Ended(work[w].erred) \in {"queued"} \union Finished
    BY DEF Ended, Finished
  <2> QED
    BY <1>1, <1>5, <1>7, <2>1 DEF FinishRun
<1>8. CASE FailRun(w)
  BY <1>1, <1>5, <1>8 DEF FailRun, Finished
<1>9. CASE RequeueRun(w)
  BY <1>1, <1>5, <1>9 DEF RequeueRun
<1> QED
  BY <1>6, <1>7, <1>8, <1>9

LEMMA InvStep == ASSUME IInv, [Next]_vars PROVE IInv' /\ Decided
<1>0. SyncTypeOK /\ ReadTypeOK /\ SyncInv /\ MovieInv
  BY TypeParts DEF IInv
<1>1. CASE UNCHANGED vars
  <2>1. MovieKept
    BY <1>0, <1>1, MoviesUnchanged DEF vars
  <2>2. SyncInv' /\ SyncTypeOK' /\ ReadTypeOK'
    BY <1>0, <1>1, <2>1, SyncUnchanged, ReadUnchanged DEF vars, syncVars, SyncTypeOK, MovieKept
  <2> QED
    BY <2>1, <2>2, TypeParts DEF IInv, MovieKept, MovieInv, TypeOK, SyncTypeOK, ReadTypeOK
<1>2. CASE Next
  <2>1. Good
    BY <1>2, CallStep, CreateRunStep, LeaseKeeps, ReadersStep, ClaimKeeps, RoundKeeps, LeavingKeeps
    DEF Next, SyncStep, SyncFails, WorkerStep
  <2> QED
    BY <2>1 DEF Good, MovieKept, MovieInv, IInv, TypeOK, SyncTypeOK, ReadTypeOK
<1> QED
  BY <1>1, <1>2

(***************************************************************************)
(* The theorems.                                                           *)
(***************************************************************************)
LEMMA InvInit == ASSUME Init PROVE IInv
<1> USE MoviesAssumption, CatalogAssumption
<1>1. MoviesTypeOK
  <2>1. NoTx \in [pc: {"none", "found", "read"}, item: ProviderItems \union {None},
                  movie: Movies \union {None}, found: BOOLEAN, saw: MovieStatus]
    BY DEF NoTx, MovieStatus
  <2> QED
    BY <2>1 DEF Init, MoviesInit, MoviesTypeOK, MovieStatus, Sources
<1>2. Named /\ ReadsStand
  BY DEF Init, MoviesInit, Named, ReadsStand, Reading, NoTx
<1>3. Unannounced /\ PublishedOnce
  BY DEF Init, MoviesInit, Unannounced, PublishedOnce
<1>4. SyncTypeOK /\ SyncInv
  <2>1. /\ NoRun \in SyncRun
        /\ Idle \in Job
        /\ NoRun.status = "none"
    BY DEF NoRun, Idle, Modes, SyncRun, Job
  <2> QED
    BY <2>1 DEF Init, SyncTypeOK, SyncInv, WorkOK, RunOK
<1>5. ReadTypeOK
  BY DEF Init, SearchInit, HomeInit, Projector, ReadTypeOK, SearchTypeOK, HomeTypeOK
<1> QED
  BY <1>1, <1>2, <1>3, <1>4, <1>5, TypeParts DEF IInv, MovieInv

\* What an import read of a locked movie stands until it commits, and what goes with it.
THEOREM CatalogInvariant == Spec => []IInv
<1>1. Init => IInv
  BY InvInit
<1>2. IInv /\ [Next]_vars => IInv'
  BY InvStep
<1> QED
  BY <1>1, <1>2, PTL DEF Spec

\* Every variable of the catalog keeps its type.
THEOREM TypeCorrect == Spec => []TypeOK
<1>1. IInv => TypeOK
  BY DEF IInv
<1> QED
  BY <1>1, CatalogInvariant, PTL

\* A movie is announced once, by the transaction that publishes it.
THEOREM AnnouncedOnce == Spec => []PublishedOnce
<1>1. IInv => PublishedOnce
  BY DEF IInv, MovieInv
<1> QED
  BY <1>1, CatalogInvariant, PTL

\* No import undoes what an editor has decided.
THEOREM EditorsPrevail == Spec => EditorsDecide
<1>1. IInv /\ [Next]_vars => [Decided]_vars
  BY InvStep
<1>2. Spec => [][Decided]_vars
  BY <1>1, CatalogInvariant, PTL DEF Spec
<1> QED
  BY <1>2 DEF Decided, EditorsDecide

-----------------------------------------------------------------------------
(***************************************************************************)
(* The index.  A step that changes which movies are published leaves an    *)
(* event of each of them, and only the projection takes events.            *)
(***************************************************************************)
Tells ==
    /\ unseen \subseteq unseen'
    /\ \A m \in Movies : m \in Published' /\ m \notin Published => m \in unseen'
    /\ \A m \in Movies : m \in Published /\ m \notin Published' => m \in unseen'

LEMMA SameMoviesTell == ASSUME movie' = movie, unseen \subseteq unseen' PROVE Tells
  BY DEF Tells, Published

LEMMA EditorCallTells == ASSUME MovieInv, EditorCall PROVE Tells
<1>1. ASSUME NEW m \in Movies, CreateMovie(m) \/ PatchMovie(m) \/ PublishMovie(m) \/ ArchiveMovie(m)
      PROVE  Tells
  <2>1. \A n \in Movies \ {m} : movie'[n] = movie[n]
    <3>1. \E row : movie' = [movie EXCEPT ![m] = row]
      BY <1>1 DEF CreateMovie, PatchMovie, PublishMovie, ArchiveMovie
    <3> QED
      BY <3>1 DEF MovieInv, MoviesTypeOK
  <2>2. CASE CreateMovie(m)
    <3>1. movie[m].status = "none" /\ movie'[m].status = "draft" /\ unseen' = unseen
      BY <2>2 DEF CreateMovie, MovieInv, MoviesTypeOK
    <3> QED
      BY <2>1, <3>1 DEF Tells, Published
  <2>3. CASE PatchMovie(m) \/ PublishMovie(m) \/ ArchiveMovie(m)
    <3>1. unseen' = unseen \union {m}
      BY <2>3 DEF PatchMovie, PublishMovie, ArchiveMovie, WriteEvent
    <3> QED
      BY <2>1, <3>1 DEF Tells, Published
  <2> QED
    BY <1>1, <2>2, <2>3
<1>2. CASE UNCHANGED <<movie, unseen>>
  BY <1>2, SameMoviesTell
<1> QED
  BY <1>1, <1>2 DEF EditorCall, AddPlayable, AddContentSource, AddSourceItem, MetadataLock

LEMMA ItemCallTells == ASSUME ItemCall PROVE Tells
<1>1. movie' = movie /\ unseen \subseteq unseen'
  BY DEF ItemCall, SetItem, MarkSourceUnavailable, WriteEvent
<1> QED
  BY <1>1, SameMoviesTell

\* An import publishes what it read as unpublished, and leaves the rest as it is: what it
\* read still stands, for it holds the row of the movie.
LEMMA ImportTells == ASSUME MovieInv, NEW w \in Workers, ImportStepOf(w) PROVE Tells
<1>1. ASSUME NEW other \in BOOLEAN, ImportCommit(w, other) PROVE Tells
  <2> DEFINE m == tx[w].movie
  <2>1. m \in Movies /\ tx[w].saw \in MovieStatus /\ unseen \subseteq unseen'
    BY <1>1 DEF ImportCommit, WriteEvent, MovieInv, Named, MoviesTypeOK
  <2>2. movie' = [movie EXCEPT ![m] = ImportedMovie(w)] /\ tx[w].pc = "read"
    BY <1>1 DEF ImportCommit
  <2>3. /\ \A n \in Movies \ {m} : movie'[n] = movie[n]
        /\ movie'[m].status = IF tx[w].saw = "archived" THEN "archived" ELSE "published"
    BY <2>1, <2>2 DEF ImportedMovie, MovieInv, MoviesTypeOK
  <2>4. CASE tx[w].saw \in {"none", "draft"}
    <3>1. m \in unseen'
      BY <1>1, <2>4 DEF ImportCommit, PublishedTransition, WriteEvent
    <3> QED
      BY <2>1, <2>3, <3>1 DEF Tells, Published
  <2>5. CASE tx[w].saw \in {"published", "archived"}
    <3>1. movie[m].status = tx[w].saw
      BY <2>2, <2>5 DEF MovieInv, ReadsStand, Reading
    <3> QED
      BY <2>1, <2>3, <2>5, <3>1 DEF Tells, Published
  <2> QED
    BY <2>1, <2>4, <2>5 DEF MovieStatus
<1>2. CASE UNCHANGED <<movie, unseen>>
  BY <1>2, SameMoviesTell
<1> QED
  BY <1>1, <1>2 DEF ImportStepOf, ImportFind, ImportRead, ImportRollback

\* What the projection holds: in a start, rows that are published or have an event; in the
\* handling of an event, the row as it is unless there is another event of it.
ProjectorOK ==
    /\ projector.about # None <=> projector.state = "read"
    /\ projector.state \notin {"reindexing", "read"} => projector.rows = {}
    /\ projector.state = "read" => projector.rows \subseteq {projector.about}
    /\ projector.state = "read" /\ projector.about \notin unseen
          => (projector.about \in projector.rows <=> projector.about \in Published)
    /\ projector.state = "reindexing" => projector.rows \ Published \subseteq unseen

IndexInv == ProjectorOK /\ IndexFollows

LEMMA IndexKept ==
  ASSUME ReadTypeOK, IndexInv, Tells, UNCHANGED searchVars PROVE IndexInv'
<1>1. projector.about \in Movies \union {None} /\ projector.rows \subseteq Movies
  BY DEF ReadTypeOK, SearchTypeOK
<1>2. IndexFollows'
  BY DEF IndexInv, IndexFollows, Tells, searchVars
<1>3. projector.state = "read" /\ projector.about \notin unseen'
        => (projector.about \in projector.rows <=> projector.about \in Published')
  BY <1>1 DEF IndexInv, ProjectorOK, Tells
<1>4. projector.state = "reindexing" => projector.rows \ Published' \subseteq unseen'
  BY <1>1 DEF IndexInv, ProjectorOK, Tells
<1>5. ProjectorOK'
  BY <1>3, <1>4 DEF IndexInv, ProjectorOK, searchVars
<1> QED
  BY <1>2, <1>5 DEF IndexInv

\* The projection: an event that it takes is in its hands until the document is written, or
\* is given back.
LEMMA ProjectionKeeps ==
  ASSUME ReadTypeOK, IndexInv, ProjectStep \/ ProjectFaults PROVE IndexInv'
<1> USE MoviesAssumption
<1>0. /\ projector.about \in Movies \union {None} /\ projector.rows \subseteq Movies
      /\ index \subseteq Movies /\ None \notin Movies /\ Published \subseteq Movies
  BY DEF ReadTypeOK, SearchTypeOK, Published
<1>1. CASE ReindexRead
  <2>1. /\ projector' = [state |-> "reindexing", about |-> None, rows |-> Published]
        /\ index' = index /\ unseen' = unseen /\ Published' = Published
        /\ projector.state = "down"
    BY <1>1 DEF ReindexRead, Projector, movieVars, Published
  <2>2. ProjectorOK'
    BY <2>1 DEF ProjectorOK
  <2>3. IndexFollows'
    BY <1>0, <2>1 DEF IndexInv, IndexFollows, ProjectorOK
  <2> QED
    BY <2>2, <2>3 DEF IndexInv
<1>2. CASE ReindexWrite
  <2>1. /\ projector' = [state |-> "running", about |-> None, rows |-> {}]
        /\ index' = index \union projector.rows /\ unseen' = unseen /\ Published' = Published
        /\ projector.state = "reindexing"
    BY <1>2 DEF ReindexWrite, Reindexed, Projector, movieVars, Published
  <2>2. ProjectorOK'
    BY <2>1 DEF ProjectorOK
  <2>3. IndexFollows'
    BY <1>0, <2>1 DEF IndexInv, IndexFollows, ProjectorOK
  <2> QED
    BY <2>2, <2>3 DEF IndexInv
<1>3. ASSUME NEW m \in Movies, ProjectRead(m) PROVE IndexInv'
  <2>1. /\ projector' = [state |-> "read", about |-> m, rows |-> Published \intersect {m}]
        /\ index' = index /\ unseen' = unseen \ {m} /\ Published' = Published
        /\ projector.state = "running"
    BY <1>3 DEF ProjectRead, Projector, Published
  <2>2. ProjectorOK'
    BY <1>0, <2>1 DEF ProjectorOK
  <2>3. IndexFollows'
    BY <1>0, <2>1 DEF IndexInv, IndexFollows, ProjectorOK
  <2> QED
    BY <2>2, <2>3 DEF IndexInv
<1>4. CASE ProjectWrite
  <2>1. /\ projector' = [state |-> "running", about |-> None, rows |-> {}]
        /\ index' = (index \ {projector.about}) \union projector.rows
        /\ unseen' = unseen /\ Published' = Published
        /\ projector.state = "read"
    BY <1>4 DEF ProjectWrite, Projected, Projector, movieVars, Published
  <2>2. ProjectorOK'
    BY <2>1 DEF ProjectorOK
  <2>3. IndexFollows'
    BY <1>0, <2>1 DEF IndexInv, IndexFollows, ProjectorOK
  <2> QED
    BY <2>2, <2>3 DEF IndexInv
<1>5. CASE StartFails
  <2>1. /\ projector' = [state |-> "deferred", about |-> None, rows |-> {}]
        /\ index \subseteq index' /\ index' \subseteq index \union projector.rows
        /\ unseen' = unseen /\ Published' = Published
        /\ projector.state \in {"down", "reindexing"}
    BY <1>5 DEF StartFails, Reindexed, Projector, movieVars, Published
  <2>2. ProjectorOK'
    BY <2>1 DEF ProjectorOK
  <2>3. IndexFollows'
    BY <1>0, <2>1 DEF IndexInv, IndexFollows, ProjectorOK
  <2> QED
    BY <2>2, <2>3 DEF IndexInv
<1>6. CASE ProjectFails \/ ProcessRestarts
  <2>1. /\ projector' \in {[state |-> "running", about |-> None, rows |-> {}],
                           [state |-> "down", about |-> None, rows |-> {}]}
        /\ unseen' = unseen \union ({projector.about} \ {None}) /\ Published' = Published
    BY <1>6 DEF ProjectFails, ProcessRestarts, GiveBack, Projector, Published
  <2>2. ASSUME NEW m \in Movies, m # projector.about
        PROVE  (m \in index => m \in index') /\ (m \in index' => m \in index \union projector.rows)
    BY <1>6, <2>2 DEF ProjectFails, ProcessRestarts, Projected, Reindexed
  <2>3. ProjectorOK'
    BY <2>1 DEF ProjectorOK
  <2>4. ASSUME NEW m \in Movies, m \notin unseen'
        PROVE  m \in index' <=> m \in Published'
    <3>1. m \notin unseen /\ m # projector.about
      BY <1>0, <2>1, <2>4
    <3>2. m \in index <=> m \in Published
      BY <3>1 DEF IndexInv, IndexFollows
    <3>3. m \in projector.rows => m \in Published
      BY <3>1 DEF IndexInv, ProjectorOK
    <3> QED
      BY <2>1, <2>2, <3>1, <3>2, <3>3
  <2>5. IndexFollows'
    BY <2>4 DEF IndexFollows
  <2> QED
    BY <2>3, <2>5 DEF IndexInv
<1> QED
  BY <1>1, <1>2, <1>3, <1>4, <1>5, <1>6 DEF ProjectStep, ProjectFaults, Project, ProjectorFails

LEMMA IndexStep == ASSUME IInv, IndexInv, [Next]_vars PROVE IndexInv'
<1>0. SyncTypeOK /\ ReadTypeOK /\ SyncInv /\ MovieInv
  BY TypeParts DEF IInv
<1>1. CASE ProjectStep \/ ProjectFaults
  BY <1>0, <1>1, ProjectionKeeps
<1>2. CASE EditorStep \/ StreamingStep
  <2>1. EditorCall \/ ItemCall
    BY <1>2 DEF EditorStep, StreamingStep, EditorCall, ItemCall, MarkOwnedReady, ReportSourceStatus
  <2>2. UNCHANGED searchVars
    BY <1>2 DEF EditorStep, StreamingStep, readVars
  <2> QED
    BY <1>0, <2>1, <2>2, EditorCallTells, ItemCallTells, IndexKept
<1>3. CASE RunStep \/ LeaseStep \/ HomeStep \/ UNCHANGED vars
  <2>1. UNCHANGED <<movieVars, searchVars>>
    BY <1>3 DEF RunStep, LeaseStep, HomeStep, vars, readVars, CreateSyncRun, LeaseLapses, Refresh
  <2> QED
    BY <1>0, <2>1, SameMoviesTell, IndexKept DEF movieVars
<1>4. ASSUME NEW w \in Workers, WorkerStep(w) \/ RequeueRun(w) \/ WorkerStops(w) PROVE IndexInv'
  <2>1. UNCHANGED searchVars
    BY <1>4 DEF WorkerStep, RequeueRun, WorkerStops, ClaimSyncRun, BeginItem, ImportStep, FetchFails,
         ImportFails, EndItem, EndPage, FinishRun, FailRun, Skip, Settle, readVars
  <2>2. Tells
    <3>1. CASE UNCHANGED movieVars
      BY <3>1, SameMoviesTell DEF movieVars
    <3>2. CASE ImportRollback(w) \/ ImportRead(w) \/ \E other \in BOOLEAN : ImportCommit(w, other)
      BY <1>0, <3>2, ImportTells DEF ImportStepOf
    <3>3. CASE BeginItem(w)
      <4>1. movie' = movie /\ unseen' = unseen
        BY <3>3 DEF BeginItem, ImportFind
      <4> QED
        BY <4>1, SameMoviesTell
    <3>4. CASE FetchFails(w)
      <4>1. UNCHANGED movieVars \/ MarkSourceUnavailable(ItemOf(w))
        BY <3>4 DEF FetchFails
      <4>2. movie' = movie /\ unseen \subseteq unseen'
        BY <4>1 DEF MarkSourceUnavailable, WriteEvent, movieVars
      <4> QED
        BY <4>2, SameMoviesTell
    <3> QED
      BY <1>4, <3>1, <3>2, <3>3, <3>4
      DEF WorkerStep, RequeueRun, WorkerStops, ClaimSyncRun, ImportStep, ImportFails, EndItem, EndPage,
          FinishRun, FailRun
  <2> QED
    BY <1>0, <2>1, <2>2, IndexKept
<1> QED
  BY <1>1, <1>2, <1>3, <1>4 DEF Next, SyncStep, SyncFails

\* No wrong document is left that nothing will correct.
THEOREM IndexCorrected == Spec => []IndexFollows
<1>1. Init => IInv /\ IndexInv
  <2>1. ASSUME Init PROVE IndexInv
    BY <2>1 DEF Init, MoviesInit, SearchInit, Projector, IndexInv, ProjectorOK, IndexFollows, Published
  <2> QED
    BY <2>1, InvInit
<1>2. IInv /\ IndexInv /\ [Next]_vars => IInv' /\ IndexInv'
  BY InvStep, IndexStep
<1>3. IndexInv => IndexFollows
  BY DEF IndexInv
<1> QED
  BY <1>1, <1>2, <1>3, PTL DEF Spec

-----------------------------------------------------------------------------
(***************************************************************************)
(* The coverage of a discovery.  The checkpoint of a run and the page that *)
(* a worker is at may differ, as two workers may be at the same run: both  *)
(* have only pages before them that the run has tried, and a worker leaves *)
(* out of its page only what the run has tried.                            *)
(***************************************************************************)
TriedBefore(r, page) == \A p \in Nat \ {0} : p < page => PageTried(r, p)

Passed(r) == run[r].mode = "discovery" => TriedBefore(r, run[r].page)

\* What is left of the page, and how a worker may come to have nothing left.
OfPage(w) ==
    LET items == PageItems(ScanOf(w), work[w].page)
    IN  /\ work[w].todo \subseteq items
        /\ work[w].todo = {} => items = {}
        /\ \A x \in items \ work[w].todo : <<work[w].page, x>> \in tried[work[w].run]
        /\ work[w].pc = "done" => <<work[w].page, ItemOf(w)>> \in tried[work[w].run]

AtEnd(w) ==
    /\ work[w].todo = {} /\ work[w].page > 1
    /\ ScanOf(w).total # None /\ work[w].page > ScanOf(w).total

Behind(w) ==
    work[w] # Idle /\ ModeOf(w) = "discovery" =>
        /\ work[w].page \in Nat \ {0}
        /\ TriedBefore(work[w].run, work[w].page)
        /\ IF work[w].pc = "over" THEN AtEnd(w) ELSE OfPage(w)

CoverInv == (\A r \in Runs : Passed(r)) /\ (\A w \in Workers : Behind(w)) /\ PagesTried

LEMMA ItemTried ==
  \A r, p : PageTried(r, p) <=> \A x \in Listed(run[r].scan, p) : <<p, x>> \in tried[r]
  BY DEF PageTried

\* What a run has tried it has tried for good.
LEMMA TriedKept ==
  ASSUME NEW r, run'[r].scan = run[r].scan, tried[r] \subseteq tried'[r]
  PROVE  /\ \A p : PageTried(r, p) => PageTried(r, p)'
         /\ \A page : TriedBefore(r, page) => TriedBefore(r, page)'
<1>1. \A p : PageTried(r, p) => PageTried(r, p)'
  BY DEF PageTried
<1> QED
  BY <1>1 DEF TriedBefore

\* A run that exists keeps what was asked for and what it has tried; its checkpoint goes on to
\* where everything before is tried, and it ends when every page due is.
LEMMA CoverKept ==
  ASSUME SyncTypeOK, SyncInv, CoverInv,
         \A r \in Runs : /\ run'[r].mode = run[r].mode /\ run'[r].scan = run[r].scan
                         /\ tried[r] \subseteq tried'[r],
         \A r \in Runs : run'[r].page = run[r].page \/ Passed(r)',
         \A r \in Runs : run[r].mode = "discovery" /\ run'[r].status \in {"completed", "partial"}
             => \/ run[r].status \in {"completed", "partial"}
                \/ \A p \in PagesDue(run[r].scan) : PageTried(r, p),
         \A w \in Workers : work'[w] = work[w] \/ work'[w] = Idle \/ Behind(w)'
  PROVE  CoverInv'
<1>1. ASSUME NEW r \in Runs PROVE Passed(r)'
  <2>1. CASE run'[r].page = run[r].page
    BY <2>1, TriedKept DEF CoverInv, Passed
  <2> QED
    BY <2>1
<1>2. ASSUME NEW w \in Workers PROVE Behind(w)'
  <2>1. CASE work'[w] = Idle
    BY <2>1 DEF Behind
  <2>2. CASE work'[w] = work[w] /\ work[w] # Idle
    <3>1. ItemOf(w)' = ItemOf(w)
      BY <2>2 DEF ItemOf
    <3>2. work[w].run \in Runs
      BY <2>2, AtWork
    <3>3. Behind(w)
      BY DEF CoverInv
    <3>4. ModeOf(w)' = ModeOf(w) /\ ScanOf(w)' = ScanOf(w)
      BY <2>2, <3>2 DEF ModeOf, ScanOf
    <3>5. AtEnd(w) => AtEnd(w)'
      BY <2>2, <3>4 DEF AtEnd
    <3>6. OfPage(w) => OfPage(w)'
      BY <2>2, <3>1, <3>2, <3>4 DEF OfPage
    <3> QED
      BY <2>2, <3>2, <3>3, <3>4, <3>5, <3>6, TriedKept DEF Behind
  <2> QED
    BY <2>1, <2>2
<1>3. PagesTried'
  <2> SUFFICES ASSUME NEW r \in Runs, run'[r].mode = "discovery",
                      run'[r].status \in {"completed", "partial"},
                      NEW p \in PagesDue(run'[r].scan)
               PROVE  PageTried(r, p)'
    BY DEF PagesTried
  <2>1. PageTried(r, p)
    BY DEF CoverInv, PagesTried
  <2> QED
    BY <2>1, TriedKept
<1> QED
  BY <1>1, <1>2, <1>3 DEF CoverInv

\* A run begins before the first page, and no worker is at a run that does not exist.
LEMMA CreatedCovers ==
  ASSUME IInv, CoverInv, NEW r \in Runs, NEW order \in Orders, CreateSyncRun(r, order)
  PROVE  CoverInv'
<1>0. SyncTypeOK /\ SyncInv
  BY TypeParts DEF IInv
<1> DEFINE created == [NoRun EXCEPT !.status = "queued", !.mode = order.mode,
                                    !.item = order.item, !.target = order.target,
                                    !.scan = order.scan]
<1>1. run[r].status = "none" /\ work' = work /\ tried' = tried /\ run' = [run EXCEPT ![r] = created]
  BY DEF CreateSyncRun
<1>2. created.page = 0 /\ created.status = "queued"
  BY DEF NoRun
<1> HIDE DEF created
<1>3. run'[r] = created /\ \A q \in Runs \ {r} : run'[q] = run[q]
  BY <1>0, <1>1 DEF SyncTypeOK
<1>4. \A q \in Runs \ {r} :
         /\ \A p : PageTried(q, p) => PageTried(q, p)'
         /\ \A page : TriedBefore(q, page) => TriedBefore(q, page)'
  BY <1>1, <1>3, TriedKept
<1>5. ASSUME NEW q \in Runs PROVE Passed(q)'
  <2>1. CASE q = r
    <3>1. TriedBefore(r, 0)'
      BY DEF TriedBefore
    <3> QED
      BY <1>2, <1>3, <2>1, <3>1 DEF Passed
  <2>2. CASE q # r
    BY <1>3, <1>4, <2>2 DEF CoverInv, Passed
  <2> QED
    BY <2>1, <2>2
<1>6. ASSUME NEW w \in Workers PROVE Behind(w)'
  <2>1. CASE work[w] = Idle
    BY <1>1, <2>1 DEF Behind
  <2>2. CASE work[w] # Idle
    <3>1. work[w].run \in Runs \ {r}
      BY <1>0, <1>1, <2>2, AtWork
    <3>2. /\ ItemOf(w)' = ItemOf(w) /\ ModeOf(w)' = ModeOf(w) /\ ScanOf(w)' = ScanOf(w)
          /\ work'[w] = work[w]
      BY <1>1, <1>3, <3>1 DEF ItemOf, ModeOf, ScanOf
    <3>3. (AtEnd(w) => AtEnd(w)') /\ (OfPage(w) => OfPage(w)')
      BY <1>1, <3>2 DEF AtEnd, OfPage
    <3>4. Behind(w)
      BY DEF CoverInv
    <3> QED
      BY <1>4, <3>1, <3>2, <3>3, <3>4 DEF Behind
  <2> QED
    BY <2>1, <2>2
<1>7. PagesTried'
  <2> SUFFICES ASSUME NEW q \in Runs, run'[q].mode = "discovery",
                      run'[q].status \in {"completed", "partial"},
                      NEW p \in PagesDue(run'[q].scan)
               PROVE  PageTried(q, p)'
    BY DEF PagesTried
  <2>1. q # r
    BY <1>2, <1>3
  <2> QED
    BY <1>3, <1>4, <2>1 DEF CoverInv, PagesTried
<1> QED
  BY <1>5, <1>6, <1>7 DEF CoverInv

\* Who claims a run begins at its checkpoint, with the whole page.
LEMMA ClaimedCovers ==
  ASSUME IInv, CoverInv, NEW w \in Workers, NEW r \in Runs, ClaimSyncRun(w, r)
  PROVE  CoverInv'
<1>0. SyncTypeOK /\ SyncInv
  BY TypeParts DEF IInv
<1> DEFINE claimed == [run[r] EXCEPT !.status = "running", !.lease = TRUE]
           started == [run |-> r, pc |-> "next", todo |-> Todo(r), erred |-> run[r].erred,
                       page |-> IF run[r].mode = "discovery" THEN FirstPage(r) ELSE 0]
<1>1. /\ run' = [run EXCEPT ![r] = claimed] /\ work' = [work EXCEPT ![w] = started]
      /\ tried' = tried
  BY <1>0 DEF ClaimSyncRun, SyncTypeOK
<1>2. /\ claimed.mode = run[r].mode /\ claimed.page = run[r].page /\ claimed.status = "running"
      /\ claimed.scan = run[r].scan
      /\ started.run = r /\ started.pc = "next" /\ started.todo = Todo(r)
      /\ run[r].mode = "discovery" => started.page = FirstPage(r)
  BY <1>0 DEF SyncTypeOK, SyncRun
<1> HIDE DEF claimed, started
<1>3. /\ run'[r] = claimed /\ \A q \in Runs \ {r} : run'[q] = run[q]
      /\ work'[w] = started /\ \A v \in Workers \ {w} : work'[v] = work[v]
  BY <1>0, <1>1 DEF SyncTypeOK
<1>4. Behind(w)'
  <2>p. PICK first : first = FirstPage(r)
    OBVIOUS
  <2>0. ModeOf(w)' = run[r].mode /\ ScanOf(w)' = run[r].scan
    BY <1>2, <1>3 DEF ModeOf, ScanOf
  <2> SUFFICES ASSUME run[r].mode = "discovery"
               PROVE  /\ work'[w].page = first /\ first \in Nat \ {0} /\ TriedBefore(r, first)'
                      /\ work'[w].pc # "over" /\ OfPage(w)'
    BY <1>2, <1>3, <2>0 DEF Behind
  <2>1. run[r].page \in Nat
    BY <1>0 DEF SyncTypeOK, SyncRun
  <2>2. first \in Nat \ {0} /\ \A p \in Nat \ {0} : p < first => p < run[r].page
    BY <2>p, <2>1 DEF FirstPage
  <2>3. TriedBefore(r, first)
    BY <2>2 DEF CoverInv, Passed, TriedBefore
  <2>4. TriedBefore(r, first)'
    BY <1>1, <1>2, <1>3, <2>3, TriedKept
  <2>5. Todo(r) = PageItems(run[r].scan, first)
    BY <2>p DEF Todo
  <2>6. OfPage(w)'
    BY <1>2, <1>3, <2>p, <2>0, <2>5 DEF OfPage
  <2> QED
    BY <1>2, <1>3, <2>p, <2>2, <2>4, <2>6
<1> QED
  BY <1>0, <1>1, <1>2, <1>3, <1>4, CoverKept

\* The checkpoint may be moved to a page before which everything is tried.
LEMMA RenewCovers ==
  ASSUME SyncTypeOK, NEW r \in Runs, NEW page \in Nat, Renew(r, page)
  PROVE  \A q \in Runs : /\ run'[q].mode = run[q].mode /\ run'[q].status = run[q].status
                         /\ run'[q].scan = run[q].scan
                         /\ run'[q].page = run[q].page \/ (q = r /\ run'[q].page = page)
<1> DEFINE renewed == [run[r] EXCEPT !.page = page, !.lease = TRUE]
<1>1. /\ renewed.mode = run[r].mode /\ renewed.status = run[r].status /\ renewed.page = page
      /\ renewed.scan = run[r].scan
  BY DEF SyncTypeOK, SyncRun
<1>2. run' = run \/ run' = [run EXCEPT ![r] = renewed]
  BY DEF Renew, SyncTypeOK
<1> HIDE DEF renewed
<1> QED
  BY <1>1, <1>2 DEF SyncTypeOK

LEMMA RoundCovers ==
  ASSUME IInv, CoverInv, NEW w \in Workers,
         BeginItem(w) \/ ImportStep(w) \/ FetchFails(w) \/ ImportFails(w) \/ EndItem(w) \/ EndPage(w)
  PROVE  CoverInv'
<1>p. PICK r, x, todo, page : r = work[w].run /\ x = ItemOf(w) /\ todo = work[w].todo
                              /\ page = work[w].page
  OBVIOUS
<1> USE <1>p
<1> DEFINE Discovery == run[r].mode = "discovery"
<1>0. SyncTypeOK /\ SyncInv
  BY TypeParts DEF IInv
<1>1. work[w].pc \notin {"idle", "over"} /\ (work[w].pc = "next" => todo # {})
  BY DEF BeginItem, ImportStep, FetchFails, ImportFails, EndItem, EndPage
<1>2. r \in Runs /\ todo # {} /\ work[w] # Idle /\ work[w] \in Job /\ page \in Nat
  BY <1>0, <1>1, AtWork DEF SyncTypeOK, Job
<1>3. x \in todo /\ x \in ProviderItems /\ x \in Nat
  BY <1>0, <1>2, FirstItem
<1>4. Discovery => page \in Nat \ {0} /\ TriedBefore(r, page) /\ OfPage(w)
  BY <1>1, <1>2 DEF CoverInv, Behind, ModeOf
<1>5. tried' = tried \/ Tried(w)
  BY DEF BeginItem, ImportStep, FetchFails, ImportFails, EndItem, EndPage, Skip
<1>6. \A q \in Runs : tried[q] \subseteq tried'[q]
  BY <1>0, <1>5 DEF SyncTypeOK, Tried
\* The page that ends is tried.
<1>7. ASSUME Discovery, work[w].pc = "done", todo = {x} PROVE TriedBefore(r, page + 1)
  <2>1. \A y \in PageItems(ScanOf(w), page) : <<page, y>> \in tried[r]
    BY <1>4, <1>7 DEF OfPage
  <2>2. PageItems(ScanOf(w), page) = Listed(ScanOf(w), page)
    BY <1>3, <1>4, <1>7 DEF OfPage, PageItems
  <2>3. PageTried(r, page)
    BY <2>1, <2>2, ItemTried DEF ScanOf
  <2>4. \A p \in Nat \ {0} : p < page + 1 => p < page \/ p = page
    BY <1>4, <1>7
  <2> QED
    BY <1>4, <1>7, <2>3, <2>4 DEF TriedBefore
<1>8. ASSUME NEW next \in Nat, Renew(r, next), Discovery => TriedBefore(r, next)
      PROVE  /\ \A q \in Runs : /\ run'[q].mode = run[q].mode /\ run'[q].status = run[q].status
                                /\ run'[q].scan = run[q].scan
             /\ \A q \in Runs : run'[q].page = run[q].page \/ Passed(q)'
  <2>1. \A q \in Runs : /\ run'[q].mode = run[q].mode /\ run'[q].status = run[q].status
                        /\ run'[q].scan = run[q].scan
                        /\ run'[q].page = run[q].page \/ (q = r /\ run'[q].page = next)
    BY <1>0, <1>2, <1>8, RenewCovers
  <2>2. Discovery => TriedBefore(r, next)'
    BY <1>2, <1>6, <1>8, <2>1, TriedKept
  <2> QED
    BY <1>2, <2>1, <2>2 DEF Passed
<1>9. /\ \A q \in Runs : /\ run'[q].mode = run[q].mode /\ run'[q].status = run[q].status
                         /\ run'[q].scan = run[q].scan
      /\ \A q \in Runs : run'[q].page = run[q].page \/ Passed(q)'
  <2>1. CASE run' = run
    BY <2>1
  <2>2. CASE Checkpoint(w)
    <3>1. run[r].mode \in {"import", "discovery", "refresh"}
      BY <1>0, <1>2 DEF SyncTypeOK, SyncRun, Modes
    <3>2. run' = run \/ (Discovery /\ Renew(r, page)) \/ (~Discovery /\ Renew(r, x))
      BY <2>2, <3>1 DEF Checkpoint, ModeOf
    <3> HIDE DEF Discovery
    <3> QED
      BY <1>2, <1>3, <1>4, <1>8, <2>1, <3>2
  <2>3. CASE EndPage(w)
    <3>1. Discovery /\ Renew(r, page + 1) /\ TriedBefore(r, page + 1)
      BY <1>7, <2>3 DEF EndPage, ModeOf
    <3>2. page + 1 \in Nat
      BY <1>2
    <3> HIDE DEF Discovery
    <3> QED
      BY <1>8, <3>1, <3>2
  <2> QED
    BY <2>1, <2>2, <2>3 DEF BeginItem, ImportStep, FetchFails, ImportFails, EndItem
<1>10. \A v \in Workers \ {w} : work'[v] = work[v]
  BY <1>0 DEF BeginItem, ImportStep, FetchFails, ImportFails, EndItem, EndPage, Skip, SyncTypeOK
<1>11. (ScanOf(w)' = ScanOf(w) /\ ModeOf(w)' = ModeOf(w)) \/ work'[w].run # r
  BY <1>2, <1>9 DEF ScanOf, ModeOf
\* A step within the page.
<1>12. ASSUME work'[w].run = r, work'[w].page = page, work'[w].pc # "over",
              work'[w].todo = todo \/ (work'[w].todo = todo \ {x} /\ todo # {x}
                                       /\ work'[w].pc = "next" /\ work[w].pc = "done"),
              work'[w].pc = "done" => work'[w].todo = todo /\ <<page, x>> \in tried'[r]
       PROVE  Behind(w)'
  <2> SUFFICES ASSUME Discovery PROVE TriedBefore(r, page)' /\ OfPage(w)'
    BY <1>4, <1>11, <1>12 DEF Behind, ModeOf
  <2>1. TriedBefore(r, page)'
    BY <1>2, <1>4, <1>6, <1>9, TriedKept
  <2>2. tried[r] \subseteq tried'[r] /\ ScanOf(w)' = ScanOf(w)
    BY <1>2, <1>6, <1>11, <1>12
  <2>3. work'[w].todo = todo => ItemOf(w)' = x
    BY DEF ItemOf
  <2>4. OfPage(w)
    BY <1>4
  <2>5. OfPage(w)'
    BY <1>2, <1>12, <2>2, <2>3, <2>4 DEF OfPage
  <2> QED
    BY <2>1, <2>5
<1>13. work'[w] = work[w] \/ Behind(w)'
  <2>1. CASE BeginItem(w)
    <3>1. /\ work'[w].run = r /\ work'[w].todo = todo /\ work'[w].pc = "import"
          /\ work'[w].page = page
      BY <1>0, <1>2, <2>1 DEF BeginItem, SyncTypeOK, Job
    <3> QED
      BY <1>12, <3>1
  <2>2. CASE /\ work' = [work EXCEPT ![w].pc = "done"] \/ work' = [work EXCEPT ![w].pc = "done", ![w].erred = TRUE]
             /\ Tried(w)
    <3>1. /\ work'[w].run = r /\ work'[w].todo = todo /\ work'[w].pc = "done"
          /\ work'[w].page = page
      BY <1>0, <1>2, <2>2 DEF SyncTypeOK, Job
    <3>2. <<page, x>> \in tried'[r]
      BY <1>0, <1>2, <2>2 DEF SyncTypeOK, Tried
    <3> QED
      BY <1>12, <3>1, <3>2
  <2>3. CASE EndItem(w) /\ Discovery
    <3>1. /\ work'[w].run = r /\ work'[w].todo = todo \ {x} /\ work'[w].pc = "next"
          /\ work'[w].page = page
      BY <1>0, <1>2, <2>3 DEF EndItem, SyncTypeOK, Job
    <3>2. todo # {x} /\ work[w].pc = "done"
      BY <2>3 DEF EndItem, ModeOf
    <3> QED
      BY <1>12, <3>1, <3>2
  <2>4. CASE EndItem(w) /\ ~Discovery
    <3>1. work'[w].run = r
      BY <1>0, <1>2, <2>4 DEF EndItem, SyncTypeOK, Job
    <3> QED
      BY <1>11, <2>4, <3>1 DEF Behind, ModeOf
  <2>5. CASE EndPage(w)
    <3>p. PICK next : next = page + 1
      OBVIOUS
    <3> USE <3>p
    <3> DEFINE over == ScanOf(w).total # None /\ next > ScanOf(w).total
    <3>1. /\ work'[w].run = r /\ work'[w].page = next
          /\ work'[w].pc = IF over THEN "over" ELSE "next"
          /\ work'[w].todo = IF over THEN {} ELSE PageItems(ScanOf(w), next)
      BY <1>0, <1>2, <2>5 DEF EndPage, SyncTypeOK, Job
    <3>2. Discovery /\ TriedBefore(r, next)
      BY <1>7, <2>5 DEF EndPage, ModeOf
    <3>3. TriedBefore(r, next)'
      BY <1>2, <1>6, <1>9, <3>2, TriedKept
    <3>4. next \in Nat \ {0} /\ next > 1
      BY <1>4, <3>2
    <3>5. ScanOf(w)' = ScanOf(w)
      BY <1>11, <3>1
    <3>6. CASE over
      <4>1. AtEnd(w)'
        BY <3>1, <3>4, <3>5, <3>6 DEF AtEnd
      <4> QED
        BY <3>1, <3>3, <3>4, <3>6, <4>1 DEF Behind
    <3>7. CASE ~over
      <4>1. OfPage(w)'
        BY <3>1, <3>5, <3>7 DEF OfPage
      <4> QED
        BY <3>1, <3>3, <3>4, <3>7, <4>1 DEF Behind
    <3> QED
      BY <3>6, <3>7
  <2>6. CASE UNCHANGED work
    BY <2>6
  <2> QED
    BY <2>1, <2>2, <2>3, <2>4, <2>5, <2>6 DEF ImportStep, FetchFails, ImportFails, Skip
<1> QED
  BY <1>0, <1>6, <1>9, <1>10, <1>13, CoverKept

\* A worker whose loop ends has tried every page due.
LEMMA EndCovers ==
  ASSUME SyncTypeOK, SyncInv, CoverInv, NEW w \in Workers, LoopEnds(w), ModeOf(w) = "discovery",
         NEW p \in PagesDue(ScanOf(w))
  PROVE  PageTried(work[w].run, p)
<1> DEFINE page == work[w].page
           scan == ScanOf(w)
<1>1. work[w] # Idle /\ work[w].run \in Runs
  BY AtWork DEF LoopEnds
<1>2. page \in Nat \ {0} /\ TriedBefore(work[w].run, page)
  BY <1>1 DEF CoverInv, Behind
<1>3. scan \in Scans
  <2>1. run[work[w].run].status # "none" /\ RunOK(work[w].run)
    BY <1>1, AtWork DEF SyncInv
  <2> QED
    BY <1>1, <2>1 DEF RunOK, ScanOf, ModeOf, SyncTypeOK, SyncRun
<1>4. scan.total \in Nat \union {None} /\ scan.max \in Nat
  BY <1>3, ListedTyped
<1>5. /\ p \in Nat \ {0} /\ p <= scan.max
      /\ p = 1 \/ scan.total = None \/ p <= scan.total
      /\ \A q \in 1..p : Listed(scan, q) # {}
  BY <1>4 DEF PagesDue
<1>6. p < page
  <2>1. CASE work[w].pc = "over"
    <3>1. page > 1 /\ scan.total # None /\ page > scan.total
      BY <1>1, <2>1 DEF CoverInv, Behind, AtEnd
    <3> QED
      BY <1>2, <1>4, <1>5, <3>1
  <2>2. CASE work[w].pc = "next" /\ work[w].todo = {}
    <3>1. PageItems(scan, page) = {}
      BY <1>1, <2>2 DEF CoverInv, Behind, OfPage
    <3>2. Listed(scan, page) = {} \/ ~(page <= scan.max)
      BY <3>1 DEF PageItems
    <3>3. ~(page \in 1..p)
      BY <1>2, <1>4, <1>5, <3>2
    <3> QED
      BY <1>2, <1>5, <3>3
  <2> QED
    BY <2>1, <2>2 DEF LoopEnds
<1> QED
  BY <1>2, <1>5, <1>6 DEF TriedBefore

\* A run is ended by a worker whose loop has ended.
LEMMA LeavingCovers ==
  ASSUME IInv, CoverInv, NEW w \in Workers,
         FinishRun(w) \/ FailRun(w) \/ RequeueRun(w) \/ WorkerStops(w)
  PROVE  CoverInv'
<1> DEFINE r == work[w].run
<1>0. SyncTypeOK /\ SyncInv
  BY TypeParts DEF IInv
<1>1. work[w] # Idle /\ r \in Runs
  <2>1. work[w].pc # "idle" \/ work[w] # Idle
    BY DEF FinishRun, LoopEnds, FailRun, RequeueRun, WorkerStops
  <2> QED
    BY <1>0, <2>1, AtWork
<1>2. work' = [work EXCEPT ![w] = Idle] /\ tried' = tried
  BY DEF FinishRun, FailRun, RequeueRun, WorkerStops, Settle
<1>3. \A v \in Workers : work'[v] = work[v] \/ work'[v] = Idle
  BY <1>0, <1>2 DEF SyncTypeOK
<1>4. ASSUME NEW status, NEW erred, NEW lease, Settle(w, status, erred, lease)
      PROVE  /\ \A q \in Runs : /\ run'[q].mode = run[q].mode /\ run'[q].page = run[q].page
                                /\ run'[q].scan = run[q].scan
             /\ \A q \in Runs \ {r} : run'[q] = run[q]
             /\ run'[r].status = status
  <2> DEFINE settled == [run[r] EXCEPT !.status = status, !.erred = erred, !.lease = lease]
  <2>1. /\ settled.mode = run[r].mode /\ settled.page = run[r].page /\ settled.status = status
        /\ settled.scan = run[r].scan
    BY <1>0, <1>1 DEF SyncTypeOK, SyncRun
  <2>2. run' = [run EXCEPT ![r] = settled]
    BY <1>0, <1>1, <1>4 DEF Settle, SyncTypeOK
  <2> HIDE DEF settled
  <2> QED
    BY <1>0, <1>1, <2>1, <2>2 DEF SyncTypeOK
<1>5. CASE WorkerStops(w)
  BY <1>0, <1>2, <1>3, <1>5, CoverKept DEF WorkerStops
<1>6. CASE FinishRun(w)
  <2>1. run[r].mode = "discovery" => \A p \in PagesDue(run[r].scan) : PageTried(r, p)
    BY <1>0, <1>6, EndCovers DEF FinishRun, ModeOf, ScanOf
  <2>2. /\ \A q \in Runs : /\ run'[q].mode = run[q].mode /\ run'[q].page = run[q].page
                           /\ run'[q].scan = run[q].scan
        /\ \A q \in Runs \ {r} : run'[q] = run[q]
    BY <1>4, <1>6 DEF FinishRun
  <2> QED
    BY <1>0, <1>2, <1>3, <2>1, <2>2, CoverKept
<1>7. CASE FailRun(w) \/ RequeueRun(w)
  <2>1. /\ \A q \in Runs : /\ run'[q].mode = run[q].mode /\ run'[q].page = run[q].page
                           /\ run'[q].scan = run[q].scan
        /\ \A q \in Runs \ {r} : run'[q] = run[q]
        /\ run'[r].status \in {"failed", "queued"}
    BY <1>4, <1>7 DEF FailRun, RequeueRun
  <2> QED
    BY <1>0, <1>2, <1>3, <2>1, CoverKept
<1> QED
  BY <1>5, <1>6, <1>7

LEMMA CoverStep == ASSUME IInv, CoverInv, [Next]_vars PROVE CoverInv'
<1>0. SyncTypeOK /\ SyncInv
  BY TypeParts DEF IInv
<1>1. CASE RunStep
  BY <1>0, <1>1, CreatedCovers DEF RunStep
<1>2. CASE SyncStep \/ SyncFails
  BY <1>0, <1>2, ClaimedCovers, RoundCovers, LeavingCovers DEF SyncStep, SyncFails, WorkerStep
<1>3. CASE LeaseStep
  <2>1. PICK r \in Runs : LeaseLapses(r)
    BY <1>3 DEF LeaseStep
  <2> DEFINE lapsed == [run[r] EXCEPT !.lease = FALSE]
  <2>2. /\ lapsed.mode = run[r].mode /\ lapsed.page = run[r].page /\ lapsed.status = run[r].status
        /\ lapsed.scan = run[r].scan
        /\ run' = [run EXCEPT ![r] = lapsed] /\ work' = work /\ tried' = tried
    BY <1>0, <2>1 DEF LeaseLapses, SyncTypeOK, SyncRun
  <2> HIDE DEF lapsed
  <2>3. \A q \in Runs : /\ run'[q].mode = run[q].mode /\ run'[q].page = run[q].page
                        /\ run'[q].status = run[q].status /\ run'[q].scan = run[q].scan
    BY <1>0, <2>2 DEF SyncTypeOK
  <2> QED
    BY <1>0, <2>2, <2>3, CoverKept
<1>4. CASE UNCHANGED syncVars
  <2>1. run' = run /\ work' = work /\ tried' = tried
    BY <1>4 DEF syncVars
  <2> QED
    BY <1>0, <2>1, CoverKept
<1>5. UNCHANGED vars => UNCHANGED syncVars
  BY DEF vars
<1> QED
  BY <1>1, <1>2, <1>3, <1>4, <1>5
  DEF Next, EditorStep, StreamingStep, ProjectStep, HomeStep, ProjectFaults

\* A discovery that ended without being given up has tried every item of every page due.
THEOREM DiscoveryCovers == Spec => []PagesTried
<1>1. Init => IInv /\ CoverInv
  <2>1. ASSUME Init PROVE CoverInv
    <3>1. \A r \in Runs : TriedBefore(r, 0)
      BY DEF TriedBefore
    <3>2. NoRun.page = 0 /\ NoRun.status = "none"
      BY DEF NoRun
    <3> QED
      BY <2>1, <3>1, <3>2 DEF Init, CoverInv, Passed, Behind, PagesTried
  <2> QED
    BY <2>1, InvInit
<1>2. IInv /\ CoverInv /\ [Next]_vars => IInv' /\ CoverInv'
  BY InvStep, CoverStep
<1>3. CoverInv => PagesTried
  BY DEF CoverInv
<1> QED
  BY <1>1, <1>2, <1>3, PTL DEF Spec

=============================================================================
