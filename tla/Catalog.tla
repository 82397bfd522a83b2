-------------------------------- MODULE Catalog --------------------------------
(***************************************************************************)
(* The catalog service: sync runs and the workers that carry them out      *)
(* (runSyncJob), composed with the movies that they import, the editors,   *)
(* the home page and the search projection.                                *)
(*                                                                         *)
(* A run is claimed under a lease that each item renews.  A worker may     *)
(* stop, or outlive its lease and go on while another one takes the run    *)
(* over: its later writes to the run do not check who holds it.            *)
(*                                                                         *)
(* A discovery goes through the pages of the provider's list.  The list    *)
(* stays as it is while a run goes on, but may name an item on two pages;  *)
(* a page is read when the run comes to it, or the call fails there.       *)
(***************************************************************************)
EXTENDS CatalogHome, ContentProvider, FiniteSets

CONSTANTS
    Runs,
    Scans,          \* what a discovery may be asked for and find: pages, and where they end
    Orders,         \* what administrators ask for: a mode, the item and target of an import, a scan
    RefreshLimit,   \* sources that a refresh takes at most: 30 in the code
    MaxRequests,    \* bound: calls of the editors and of the streaming service
    MaxFaults       \* bound: failures, stops, and leases that lapse too early

ASSUME CatalogAssumption ==
    /\ None \notin Runs \union Scans
    /\ Scans \subseteq [pages: Seq(SUBSET ProviderItems), total: Nat \union {None}, max: Nat \ {0}]
    /\ Orders \subseteq [mode: {"discovery", "refresh", "import"},
                        item: ProviderItems \union {None}, target: Movies \union {None},
                        scan: Scans \union {None}]
    /\ \A order \in Orders : order.mode = "discovery" => order.scan # None
    /\ RefreshLimit \in Nat \ {0}
    /\ MaxRequests \in Nat /\ MaxFaults \in Nat

VARIABLES
    run,        \* sync_runs
    work,       \* runSyncJob: the run of each worker and its local variables
    tried,      \* history: the items that each run has imported, or failed to, with their page
    requests,
    faults

syncVars == <<run, work, tried>>
vars == <<movieVars, readVars, syncVars, requests, faults>>

Modes == {"discovery", "refresh", "import"}

Finished == {"completed", "partial", "failed"}

SyncRun == [status: {"none", "queued", "running"} \union Finished, mode: Modes,
            item: ProviderItems \union {None}, target: Movies \union {None},
            scan: Scans \union {None}, page: Nat, erred: BOOLEAN, lease: BOOLEAN]

Job == [run: Runs \union {None}, pc: {"idle", "next", "import", "done", "over"},
        page: Nat, todo: SUBSET ProviderItems, erred: BOOLEAN]

\* page is the checkpoint, 0 for none: in discovery the page to do next, in refresh the last
\* item begun.
NoRun == [status |-> "none", mode |-> "discovery", item |-> None, target |-> None, scan |-> None,
          page |-> 0, erred |-> FALSE, lease |-> FALSE]

\* page is the page that a discovery is at, 0 in the other modes.
Idle == [run |-> None, pc |-> "idle", page |-> 0, todo |-> {}, erred |-> FALSE]

TypeOK ==
    /\ MoviesTypeOK
    /\ SearchTypeOK
    /\ HomeTypeOK
    /\ run \in [Runs -> SyncRun]
    /\ work \in [Workers -> Job]
    /\ tried \in [Runs -> SUBSET (Nat \X ProviderItems)]
    /\ requests \in 0..MaxRequests
    /\ faults \in 0..MaxFaults

Init ==
    /\ MoviesInit
    /\ SearchInit
    /\ HomeInit
    /\ run = [r \in Runs |-> NoRun]
    /\ work = [w \in Workers |-> Idle]
    /\ tried = [r \in Runs |-> {}]
    /\ requests = 0
    /\ faults = 0

Request ==
    /\ requests < MaxRequests
    /\ requests' = requests + 1

Fault ==
    /\ faults < MaxFaults
    /\ faults' = faults + 1

(***************************************************************************)
(* Sync runs.                                                              *)
(***************************************************************************)
CreateSyncRun(r, order) ==
    /\ run[r].status = "none"
    /\ order.mode = "import" => order.item # None
    /\ run' = [run EXCEPT ![r] = [NoRun EXCEPT !.status = "queued", !.mode = order.mode,
                                               !.item = order.item, !.target = order.target,
                                               !.scan = order.scan]]
    /\ UNCHANGED <<movieVars, readVars, work, tried, faults>>

\* Mutant of Claimable: a run whose worker stopped stays with it.
ClaimableWhenQueued(r) == run[r].status = "queued"

\* The delay of a retry is a time, and passes.
Claimable(r) == run[r].status = "queued" \/ (run[r].status = "running" /\ ~run[r].lease)

Attached == {x \in ProviderItems : source[x] # None}

\* What discover returns of a page: no item after the last page, nor of a page whose items
\* are all filtered out.
Listed(scan, page) == IF page \in DOMAIN scan.pages THEN scan.pages[page] ELSE {}

\* What the loop finds to do at a page: nothing beyond maxPages.
PageItems(scan, page) == IF page <= scan.max THEN Listed(scan, page) ELSE {}

\* The sources that a refresh takes: it begins again when none is after its checkpoint.
Batch(r) ==
    LET after == {x \in Attached : x > run[r].page}
        from == IF after = {} THEN Attached ELSE after
    IN  {x \in from : Cardinality({y \in from : y < x}) < RefreshLimit}

\* Mutant of FirstPage: the page of the checkpoint is taken for done.
FirstPageAfter(r) == run[r].page + 1

\* Where a discovery begins, or goes on.
FirstPage(r) == IF run[r].page = 0 THEN 1 ELSE run[r].page

\* What a worker sets out to do.
Todo(r) ==
    CASE run[r].mode = "import" -> {run[r].item}
      [] run[r].mode = "discovery" -> PageItems(run[r].scan, FirstPage(r))
      [] run[r].mode = "refresh" -> Batch(r)

ClaimSyncRun(w, r) ==
    /\ work[w] = Idle
    /\ Claimable(r)
    /\ run' = [run EXCEPT ![r].status = "running", ![r].lease = TRUE]
    /\ work' = [work EXCEPT ![w] =
          [run |-> r, pc |-> "next", todo |-> Todo(r), erred |-> run[r].erred,
           page |-> IF run[r].mode = "discovery" THEN FirstPage(r) ELSE 0]]
    /\ UNCHANGED <<movieVars, readVars, tried, faults>>

ModeOf(w) == run[work[w].run].mode
ScanOf(w) == run[work[w].run].scan

\* The next item of a discovery's page, or the next source of a refresh.
ItemOf(w) == CHOOSE x \in work[w].todo : \A y \in work[w].todo : x <= y

\* renewRunLease: whoever holds the run, as long as it is running.
Renew(r, page) ==
    run' = IF run[r].status = "running"
           THEN [run EXCEPT ![r].page = page, ![r].lease = TRUE] ELSE run

\* Before and after an item: the page of a discovery, the item of a refresh.
Checkpoint(w) ==
    CASE ModeOf(w) = "import" -> UNCHANGED run
      [] ModeOf(w) = "discovery" -> Renew(work[w].run, work[w].page)
      [] ModeOf(w) = "refresh" -> Renew(work[w].run, ItemOf(w))

ImportTarget(w) ==
    IF ModeOf(w) = "refresh" THEN source[ItemOf(w)] ELSE run[work[w].run].target

\* One round of the loop begins: the checkpoint, the metadata, the transaction.
BeginItem(w) ==
    /\ work[w].pc = "next" /\ work[w].todo # {}
    /\ "detail" \in Fetched
    /\ ImportFind(w, ItemOf(w), ImportTarget(w))
    /\ Checkpoint(w)
    /\ work' = [work EXCEPT ![w].pc = "import"]
    /\ UNCHANGED <<readVars, tried, faults>>

Tried(w) == tried' = [tried EXCEPT ![work[w].run] = @ \union {<<work[w].page, ItemOf(w)>>}]

ImportStep(w) ==
    /\ work[w].pc = "import"
    /\ \/ ImportRead(w) /\ UNCHANGED <<work, tried>>
       \/ /\ \E other \in BOOLEAN : ImportCommit(w, other)
          /\ Tried(w)
          /\ work' = [work EXCEPT ![w].pc = "done"]
    /\ UNCHANGED <<readVars, run, faults>>

\* An item of a discovery or of a refresh fails, and the run goes on.
Skip(w) ==
    /\ ModeOf(w) # "import"
    /\ Tried(w)
    /\ work' = [work EXCEPT ![w].pc = "done", ![w].erred = TRUE]
    /\ UNCHANGED <<readVars, faults>>

\* The provider gives no metadata; an item that it does not know any more is taken off.
FetchFails(w) ==
    /\ work[w].pc = "next" /\ work[w].todo # {}
    /\ Skip(w)
    /\ Checkpoint(w)
    /\ \E outcome \in Fetched \ {"detail"} :
          IF outcome = "not_found" /\ ModeOf(w) = "refresh"
          THEN MarkSourceUnavailable(ItemOf(w)) ELSE UNCHANGED movieVars

ImportFails(w) ==
    /\ work[w].pc = "import"
    /\ Skip(w)
    /\ ImportRollback(w)
    /\ UNCHANGED run

\* More of the page, or of the batch, may follow.
EndItem(w) ==
    /\ work[w].pc = "done"
    /\ ModeOf(w) = "discovery" => work[w].todo # {ItemOf(w)}
    /\ Checkpoint(w)
    /\ work' = [work EXCEPT ![w].pc = "next", ![w].todo = @ \ {ItemOf(w)}]
    /\ UNCHANGED <<movieVars, readVars, tried, faults>>

\* The last item of a page: the checkpoint names the next page in place of this one, and the
\* announced number of pages may end the loop.
EndPage(w) ==
    LET next == work[w].page + 1
        total == ScanOf(w).total
        over == total # None /\ next > total
    IN
    /\ work[w].pc = "done"
    /\ ModeOf(w) = "discovery" /\ work[w].todo = {ItemOf(w)}
    /\ Renew(work[w].run, next)
    /\ work' = [work EXCEPT ![w] =
          [@ EXCEPT !.page = next, !.pc = IF over THEN "over" ELSE "next",
                    !.todo = IF over THEN {} ELSE PageItems(ScanOf(w), next)]]
    /\ UNCHANGED <<movieVars, readVars, tried, faults>>

\* Written by id alone: also over what another worker has made of the run.
Settle(w, status, erred, lease) ==
    /\ run' = [run EXCEPT ![work[w].run] = [@ EXCEPT !.status = status, !.erred = erred,
                                                     !.lease = lease]]
    /\ work' = [work EXCEPT ![w] = Idle]
    /\ UNCHANGED <<searchVars, tried>>

\* Mutant of Ended: the CHECK of sync_runs knows no such status.
EndedWithErrors(erred) == IF erred THEN "completed_with_errors" ELSE "completed"

Ended(erred) == IF erred THEN "partial" ELSE "completed"

\* The loop ends, a discovery's after the last page announced, at maxPages, or at a page
\* without items, whatever number of pages was announced.
LoopEnds(w) == work[w].pc = "over" \/ (work[w].pc = "next" /\ work[w].todo = {})

\* The refresh of the home page may fail.
FinishRun(w) ==
    /\ LoopEnds(w)
    /\ RefreshHomeCollections \/ UNCHANGED home
    /\ Settle(w, Ended(work[w].erred), work[w].erred, FALSE)
    /\ UNCHANGED <<movieVars, faults>>

\* isRetryableProviderError
Retryable(outcome) == outcome = "busy"

\* The list of a page, or the one item of an import, is refused for now: the run is queued
\* again, with its checkpoint.
RequeueRun(w) ==
    /\ work[w].pc = "next"
    /\ \/ ModeOf(w) = "import" /\ work[w].todo # {}
       \/ /\ ModeOf(w) = "discovery" /\ work[w].page <= ScanOf(w).max
          /\ work[w].todo = Listed(ScanOf(w), work[w].page)
    /\ \E outcome \in Fetched : Retryable(outcome)
    /\ Fault
    /\ Settle(w, "queued", TRUE, run[work[w].run].lease)
    /\ UNCHANGED <<movieVars, home>>

\* Another error of the provider or of the import, or of the database.
FailRun(w) ==
    /\ work[w].pc \in {"next", "done", "over"}
          \/ (work[w].pc = "import" /\ ModeOf(w) = "import")
    /\ Settle(w, "failed", run[work[w].run].erred, FALSE)
    /\ ImportRollback(w)
    /\ UNCHANGED <<home, faults>>

WorkerStops(w) ==
    /\ work[w] # Idle
    /\ Fault
    /\ work' = [work EXCEPT ![w] = Idle]
    /\ ImportRollback(w)
    /\ UNCHANGED <<readVars, run, tried>>

LeaseLapses(r) ==
    /\ run[r].status = "running" /\ run[r].lease
    /\ run' = [run EXCEPT ![r].lease = FALSE]
    /\ IF \E w \in Workers : work[w].run = r THEN Fault ELSE UNCHANGED faults
    /\ UNCHANGED <<movieVars, readVars, work, tried>>

WorkerStep(w) ==
    \/ \E r \in Runs : ClaimSyncRun(w, r)
    \/ BeginItem(w) \/ ImportStep(w) \/ FetchFails(w) \/ ImportFails(w)
    \/ EndItem(w) \/ EndPage(w) \/ FinishRun(w) \/ FailRun(w)

(***************************************************************************)
(* The specification.                                                      *)
(***************************************************************************)
EditorStep ==
    /\ Request
    /\ \/ \E m \in Movies :
             \/ CreateMovie(m) \/ PatchMovie(m) \/ PublishMovie(m) \/ ArchiveMovie(m)
             \/ AddPlayable(m)
             \/ \E s \in Sources, lock \in BOOLEAN : AddContentSource(s, m, lock)
       \/ \E s \in Sources, status \in {"unknown", "available"} : AddSourceItem(s, status)
       \/ \E s \in Sources, lock \in BOOLEAN : MetadataLock(s, lock)
    /\ UNCHANGED <<readVars, syncVars, faults>>

StreamingStep ==
    /\ Request
    /\ \E s \in Sources, status \in {"available", "error"} :
          MarkOwnedReady(s) \/ ReportSourceStatus(s, status)
    /\ UNCHANGED <<readVars, syncVars, faults>>

RunStep ==
    /\ UNCHANGED requests
    /\ \E r \in Runs, order \in Orders : CreateSyncRun(r, order)

SyncStep ==
    /\ \E w \in Workers : WorkerStep(w)
    /\ UNCHANGED requests

SyncFails ==
    /\ \E w \in Workers : RequeueRun(w) \/ WorkerStops(w)
    /\ UNCHANGED requests

LeaseStep ==
    /\ \E r \in Runs : LeaseLapses(r)
    /\ UNCHANGED requests

ProjectStep ==
    /\ Project
    /\ UNCHANGED <<home, syncVars, requests, faults>>

HomeStep ==
    /\ Refresh
    /\ UNCHANGED <<syncVars, requests, faults>>

ProjectFaults ==
    /\ Fault
    /\ ProjectorFails
    /\ UNCHANGED <<home, syncVars, requests>>

Next ==
    \/ EditorStep \/ StreamingStep \/ RunStep
    \/ SyncStep \/ SyncFails \/ LeaseStep
    \/ HomeStep
    \/ ProjectStep \/ ProjectFaults

\* The workers and the projection poll, leases and midnight are times; faults end.
Fairness ==
    WF_vars(SyncStep) /\ WF_vars(LeaseStep) /\ WF_vars(ProjectStep) /\ WF_vars(HomeStep)

Spec == Init /\ [][Next]_vars /\ Fairness

(***************************************************************************)
(* Properties.                                                             *)
(***************************************************************************)
\* What an editor has decided no import undoes, whatever was read before: an archived
\* movie stays archived, and a commit under metadata_locked keeps the title.
EditorsDecide ==
    [][/\ \A m \in Movies : movie[m].status = "archived" => movie'[m].status = "archived"
       /\ \A w \in Workers :
             tx[w].found /\ tx[w].item \in locked /\ tx'[w] = NoTx
             => \A m \in Movies : movie'[m].title = movie[m].title]_vars

\* However often a movie is imported or published, and by whomever at once,
\* movie.published is written once, in the transaction that publishes it.
PublishedOnce ==
    \A m \in Movies :
        /\ announced[m] <= 1
        /\ movie[m].status = "published" => announced[m] = 1

\* Whatever was read before a movie changed, failed or was restarted, readers come to see
\* the published movies and no other: on the home page, and in the index of a projection
\* that runs.
ReadersConverge ==
    <>[](/\ HomeShows = Published
         /\ projector.state = "running" => index = Published)

\* The pages that a discovery is to do: no more than were asked for or announced, and none
\* from the first one on that lists nothing.
PagesDue(scan) ==
    {p \in 1..scan.max : /\ p = 1 \/ scan.total = None \/ p <= scan.total
                        /\ \A q \in 1..p : Listed(scan, q) # {}}

PageTried(r, p) == {p} \X Listed(run[r].scan, p) \subseteq tried[r]

\* The checkpoints of a discovery pass over no page before its end, however often its lease
\* lapses, its worker stops or two of them renew it at once: a run that ended without being
\* given up has tried every item of every page due.  A page that lists nothing ends the run,
\* although more pages may be announced.
PagesTried ==
    \A r \in Runs :
        run[r].mode = "discovery" /\ run[r].status \in {"completed", "partial"}
        => \A p \in PagesDue(run[r].scan) : PageTried(r, p)

\* Every run ends, whatever stops or is taken over.
RunsSettle == <>[](\A r \in Runs : run[r].status \in Finished \union {"none"})
=============================================================================
