# A formal model of the movie backend

TLA+ modules, TLC configurations and TLAPS proofs for the backend of the movie
application in `src/` (NestJS services in `src/apps`, shared libraries in
`src/libs`). Every definition is translated from the TypeScript and the SQL of
the migrations; `PROJECT.json` maps each one to the lines it stands for.

Contents: 1 the system, 2 modules and their correspondence to the code, 3 the
checks, 4 bounds and fairness, 5 proofs, 6 where code and documents disagree,
7 what is not modelled, 8 what could follow.

## 1. The system

Eight HTTP services and two media processes, each with a PostgreSQL schema of
its own, some with Redis, joined by HTTP calls and by Kafka topics fed from
transactional outboxes.

| part | state | operations | talks to |
|---|---|---|---|
| api-gateway | none (a cache of signing keys) | verify the token, validate the session, check the role, forward | every service |
| auth-service | `users`, `auth_sessions`, `refresh_tokens`, `admin_audit_logs` | register, login, refresh, logout, validate; suspend, delete, revoke, staff roles | called by the gateway |
| payment-service | `plans`, `purchase_guards`, `payment_requests`, `payments`, `subscriptions`, `payment_webhook_receipts`, `subscription_reminders`, `mock_provider_orders`, outbox | subscribe, webhook, plan edits, extension; job: reconcile, expire, remind | the provider; Kafka |
| streaming-service | `playback_sessions`, `playback_requests`, `watch_progress`, `playback_events`, `processed_events`, `video_assets`, `upload_completions`, outbox; Redis slots and progress cache; circuits in memory | create or repeat a session, heartbeat, progress, events, terminate, reap; uploads; transcode callbacks | catalog, payment, profile, auth, content provider, Kafka |
| transcode-worker | `transcode_jobs`, `worker_inbox` | take `video.uploaded`; poll, claim, transcode, report | streaming, object storage, Kafka |
| media-edge | none | verify a signed cookie, stream an object | object storage |
| profile-service | `profiles`, `profile_quotas`, `favorite_movies`, outbox | create, update, delete, validate, favorites | Kafka |
| catalog-service | `movies`, `playable_items`, `content_sources`, `source_items`, `sync_runs`, home collections, search inbox, outbox | edit, publish, archive, import with leases, source status; refresh the home page; project into the index | content provider, search index, Kafka |
| notification-service | `notification_inbox_events`, `notification_deliveries` | receive, deliver, retry, replay | Kafka |
| recommendation-service | `watch_events`, `processed_events` | process qualified views, profile deletion, recommend | Kafka |

What is hard here, and what makes each part correct:

* **Payments.** Purchases of one user compete; the webhook, the reconciliation
  job, the expiry job, extensions and plan edits all write the same two rows,
  in any order, repeated and late. Correct means: one open order per user, the
  two rows of an order in step, money never lost or counted twice, the term that
  was bought, one reminder for each end, and nothing stuck.
* **Accounts and sessions.** Refresh locks the session, login and the ban lock
  the user; administrators act on a role the gateway read earlier. Correct means:
  revocation is complete, rotation is one chain, a banned account has nothing
  live, one session per device, an administrator always remains.
* **Playback.** Sessions are in PostgreSQL, slots in Redis, without a common
  transaction, and releases come late or never. Correct means: a live session
  holds a slot, streams stay within the plan, closed is closed, progress moves
  forward and dies with its profile, one view per session.
* **Sources.** A circuit with a half-open probe next to a cap on concurrent
  resolves. Correct means: an old error never bans a source for ever.
* **Owned media.** An upload, a job and the callbacks of its attempts cross two
  services without a common transaction; leases lapse under workers that go on.
  Correct means: viewers of a ready asset get a complete manifest made of the
  object the asset names, a final outcome stands, an asset is given up only when
  its attempts are, and a completed upload is not forgotten.
* **Delivery.** Publishers crash between sending and marking, release rows that
  others are sending, and Kafka repeats and reorders. Correct means: what was
  committed takes effect once at each consumer, and a notification is made once
  or given up.
* **Catalog.** Editors, imports and reports write the same movies; runs change
  hands when a lease lapses; the home page and the index are copies. Correct
  means: a publication is announced once, an import never undoes an editor's
  decision, the copies converge, every run ends, and a discovery passes over no page.

`PROJECT.json` lists every component and each hazard at its line.

## 2. Modules

| module | models | code |
|---|---|---|
| `Payment` | purchase, webhook, plan edit, extension, maintenance job | `payment-service/src/payment.service.ts`, `payment-jobs.service.ts`, schema migration |
| `PurchaseContract` | abstract: what a buyer is promised of an order; implemented by `Payment` | |
| `Auth` | accounts, sessions, refresh tokens, administrator operations and the gateway's check | `auth-service/src/auth/auth.service.ts`, `api-gateway/src/auth/role.guard.ts` |
| `Playback` | sessions, slots, progress, events, reaper, profile deletion, of one user and profile | `streaming-service/src/streaming.service.ts`, `playback-lease.store.ts` |
| `StreamLimit` | abstract: what the limit on streams means to its user; implemented by `Playback` | |
| `SourceCircuit` | the circuit of each source in one process | `source-circuit.ts`, `resolveSelection` |
| `ContentProvider` | what a call of the provider's client comes to | `libs/content-provider/src/index.ts` |
| `MediaPipeline` | uploads, the asset of one source item, jobs, workers, callbacks | `streaming.service.ts:334-407`, `transcode-worker/src/transcode.service.ts` |
| `EventDelivery` | abstract: committed events take effect exactly once | |
| `Profiles` | profiles under the quota, favorites | `profile-service/src/profiles/profile.service.ts` |
| `Outbox` | the outbox tables and the four publishers | `outbox-publisher.service.ts`, `*-outbox.publisher.ts` |
| `Notifications` | inbox, deliveries, delivery workers, replay | `notification-service/src/notification.service.ts` |
| `Delivery` | composes the three with the recommendation service; implements `EventDelivery` | `recommendation.service.ts`, the consumers |
| `CatalogMovies` | movies, sources, items, editors' calls, the import transaction | `catalog-service/src/catalog.service.ts` |
| `CatalogSearch` | the index and its projection | `catalog-search.projection.ts`, `catalog-search.service.ts` |
| `CatalogHome` | the collections of the home page | `catalog.service.ts:252-367`, `catalog-home-projection.worker.ts` |
| `Catalog` | sync runs and workers, composed with the three and with `ContentProvider` | `runSyncJob`, `catalog-sync.worker.ts`, `catalog.controller.ts` |
| `PaymentProofs`, `ContractProofs`, `AuthProofs`, `PlaybackProofs`, `SourceCircuitProofs`, `MediaProofs`, `DeliveryProofs`, `CatalogProofs` | theorems (section 5) | |
| `MCPayment`, `MCAuth`, `MCPlayback`, `MCSourceCircuit`, `MCMediaPipeline`, `MCDelivery`, `MCCatalog` | instances for TLC: function-valued constants and symmetry sets | |

A database transaction that takes every lock it needs is one action, enabled
when the locks are free. A transaction in the middle of which another actor can
run and matter is split, and its locks are state. An `await` of another store or
service between two effects always separates two actions. A refused request
changes nothing and is a stuttering step.

### Payment

An order and its subscription are one-to-one, so both are indexed by `Orders`;
`order[o]` is `None` until the purchase commits. `checking` holds the purchases
that have their user's guard (`SELECT ... FROM purchase_guards ... FOR UPDATE`)
and have passed every check; `GuardFree` is the lock the webhook and
reconciliation also wait for. `SubscribeCommit` inserts all rows; the provider is
called after the commit (`payment.service.ts:177`), so `EnsureMockOrder` and
`HandlerLost` are actions of their own. The webhook has one action per branch of
`handleWebhook`. A poll of the job reads its candidates without a lock
(`PollStart`), closes them one transaction at a time (`CloseCandidate`, whose
`WHERE` clause is evaluated again as `StillClosable`), and then expires and
reminds in a transaction whose scan precedes its writes (`RemindScan`,
`RemindCommit`). Amounts, signatures and checks of mismatched amounts are
abstracted to refusals. `ProviderDecides` is the external provider.

`Payment` implements `PurchaseContract` (`KeepsContract`). An order's stage is read off
its two rows (`Stages`), the term bought off the plan version of its row, and what the
other services were told off the outbox, reminders apart. Guards, checks, receipts, candidates of the
job and the provider are not seen. In the contract an order is granted only if it is paid
before its deadline and disputed only after it or once closed, one transaction pays for one order,
access begins when it is granted, ends no earlier than its term, and nothing is taken back.

### Auth

`login[u]` holds the lock of user `u` with the sessions the login decided to
revoke; `refresh[h]` holds the lock of the token's session; `revokeAll[u]` is
between the two `UPDATE`s of `revokeAllSessions`; `removal[u]` is past the
unlocked count of administrators. `authorised` holds the requests the gateway
has let through, with the role it saw: the service never reads the role again.
Sessions and tokens are numbered in order of creation, which is the order by which
a login evicts.

### Playback

One user with the limit `Limit`, one profile, one playable. `request[h]` is what
a handler holds between its awaits; `slot[s]` is the score in the Redis sorted
set; `releasing` are sessions whose `ZREM` is still to come, which `ReleaseLost`
drops. The creation transaction is split at its Redis call (`ReserveNew` /
`InsertCommit`, `ReserveAgain` / `RefreshCommit`). `unrecorded` are sessions for
which `failSession` could not write `failed` and released the slot all the
same (`streaming.service.ts:718-721`): the two slot properties exempt exactly
these, because the code gives them up knowingly. Event ids are abstracted (a
known id changes nothing). The clock stands still inside a transaction: its unit
is a fraction of the session TTL, a transaction takes milliseconds; the
millisecond-sized gaps are listed as hazards. The 24-hour expiry of keys, the
loss of Redis data and commits of unknown outcome are not modelled. The limit
applies as with `STREAMING_CONCURRENT_LIMIT_ENABLED=true`.

`Playback` implements `StreamLimit` (`KeepsLimit`): the state of a row becomes a phase, a
session streams while it is live in PostgreSQL and not in `unrecorded`, and Redis, requests and
the reaper are not seen. In `StreamLimit` a session starts once, only while fewer than `Limit`
stream, and never streams again after it was closed or its time was over.

### SourceCircuit

Each action is the code between two awaits of `resolveSelection`. The catalog's
`retry_after` is read at `Select` and reported at `Reported`, where the report
may be lost. A restart of the process, which clears the circuits, is left out.
What resolving can come to is computed by `ContentProvider` from the replies to
three attempts and the document of the last one: a link, no link, a conflict of
keys, no answer. `resolvePlayback` looks a source up twice, and both lookups are
modelled: in the metadata, where a server without a name gets a key by its position
(`ServerKeys`) and an episode the first text that can be a key (`SelectorKey`), and
then in the document itself, where a server has only the name given and an episode
the first text given (`RawNames`, `RawKey`), and where servers beside the movie
(`data`) are not looked for. A document has a place for each of these. A provider that answers without a playlist counts as a success
of the circuit and is not reported (`NoPlaylist`).

### MediaPipeline

`asset` is the row of `video_assets` with its generation, the raw object it
names and the attempt it records; `job[g]` is the row of `transcode_jobs` of a
generation; `worker[w]` is what an instance is doing with the attempt it claimed;
`calls` are the callbacks the streaming service has not finished, with how far it
is: the update of `applyTranscoded` commits before the catalog is called, and
that before the outbox row is written (`ApplyOutcome`, `ReportOwnedReady`,
`WriteMediaOutbox`), so `HandlingFails` can cut in between, or lose a callback before
anything of it is done. `unheard` is a history variable: the generations for which
what was lost is repeated by nobody (`Decisive`). A worker that gives up
a call leaves the call behind. Two first uploads may both find no row; the second
insert then replaces the row of the first without a new generation
(`InsertFirstUpload`). After that race, kept in `raced`, the asset and the job
speak of different uploads under one number, and `ReadyServesUpload` and
`SucceededIsSettled` do not hold; they exclude it by name.

### Profiles, Outbox, Notifications, Delivery, EventDelivery

`row[e]` is an outbox row, which a publisher claims, sends and marks one at a
time; `UnlockAll` is the `catch` of the payment and catalog publishers, which
releases also what another instance is sending. `log` is Kafka: an event that was
sent may be handled at any time and in any order, a redelivery of a handled one is
ignored by the inbox and is a stutter. That a consumer group exists before the
first event is assumed (`fromBeginning: false`). A notification has one delivery for
each recipient and channel; a claim has no lease, so an instance that stops
abandons what it held (`abandoned`). Of the payment, catalog and streaming services
only the commit of an event is here (`CommitElsewhere`). `Delivery` implements
`EventDelivery` with `happened <- Committed`.

### CatalogMovies, CatalogSearch, CatalogHome, Catalog

`tx[w]` is the import transaction of a worker: `ImportFind` locks the source,
`ImportRead` the movie, and `ImportCommit` writes what follows from what was read;
where it found nothing to lock, the primary key or the unique index refuses a
second insert. Editors' calls wait for the locks they take in the code and no
others. The search projection reads a row and writes the index later; it may
fail, restart or never start. Events of a movie that wait for the projection are a
set (`unseen`), since each is handled by reading the row as it is then. A run of
a sync is claimed under a lease that the rounds of the loop renew; a worker whose
lease lapsed goes on, and its last write to the run is by id alone (`Settle`).

What a discovery is to find is chosen when it is created: the pages of the provider's
list, the number of pages that it announces, and the most that were asked for
(`Scans`). A worker takes the items of a page in turn (`BeginItem` to `EndItem`) and
moves to the next page after the last of them (`EndPage`); the loop ends after the last
page announced, at the bound asked for, or at a page that lists nothing (`LoopEnds`).
A page whose items are all filtered out by the client lists nothing. A refresh takes a
batch after its checkpoint, and begins again when nothing is after it (`Batch`).
`tried` is a history variable: what each run imported or failed to import.

## 3. The checks

Passing runs:

| run | distinct states | what it shows |
|---|---|---|
| `payment_orders` | 577,646 | two keys, two orders, two webhook events and transactions, two plan versions: six invariants, and the refinement of `PurchaseContract` |
| `payment_jobs` | about 80,000 | two job instances, one order: reminders are single; lapsed subscriptions expire and confirmed failures close (liveness) |
| `auth_sessions` | 1,307,614 | an administrator and a user, two devices, two refresh handlers, three sessions, three tokens, two administrator requests |
| `playback_slots` | 727,033 | two sessions compete for one slot, with retries, lost releases and one unrecorded failure: two invariants, and the refinement of `StreamLimit` |
| `playback_reports` | 949,121 | two live sessions report progress and views while the profile is deleted and its event redelivered |
| `media_pipeline` | 199,350 | two upload keys, two generations, two workers, one fault: five invariants, `OutcomeStands`, and that a queued upload settles and is announced |
| `event_delivery` | 122,328 | two profiles, five events, two publishers of one service, two notifiers of which one cannot reach a recipient, one fault: the refinement with its liveness, and the deliveries |
| `catalog` | 478,850 | two movies, two provider items, one run in any of three modes and, of a discovery, any of three lists of pages, two workers, one request, one fault |

Runs that exhibit a disagreement (section 6): `payment_abandoned`, `auth_device`,
`staff_last_admin`, `circuit_probe`.

Payment properties: `OneOpenOrderPerUser` (the unique index never has to refuse),
`PaymentMatchesSubscription`, `PaidNeverLost` (a success answered to the provider
stays paid by the transaction it reported, with the activation of its order in the
outbox, or marked for reconciliation, with an event that names the transaction,
whatever stale poll or late failure follows; `payment.success` names the order only,
as `payment.service.ts:288-290` writes it), `ActivatedOnce`, `TermMatchesPurchase` (the
end follows from the version bought and the extensions, never from the plan as it
became), `RemindedOnce`, `KeepsContract` (the refinement), `LapsedExpires`,
`ConfirmedFailureCloses`.

Auth properties: `RevokedKeepsNoToken` (also for a token that a concurrent
refresh was creating), `OneChain`, `InactiveKeepsNoSession`.

Playback properties: `LiveHoldsSlot`, `KeepsLimit` (the refinement),
`DeletedProfileKeepsNoProgress`, `ViewCountedOnce`, `ProgressForward` (database
and cache).

Media properties: `ReadyServesUpload`, `FailedIsExhausted`, `SucceededIsSettled`,
`OutcomeStands` (the attempt never goes back and a final outcome is changed by no
callback), `WaitingIsCarried` (an asset that waits has an event still to be taken, or a job
of its very object that is claimed again, until the job has had all its attempts),
`QueuedSettles` (liveness: a queued upload becomes ready, with its event in the outbox and
the catalog told, or fails, with its event in the outbox; a failed job is no end of it, and
the only exemptions are the race of first uploads and the generations in `unheard`).

Delivery properties: `ExactlyOnce` (the refinement), `PublishedIsSent`,
`ProfilesWithinLimit`, `DeliveredIsFinal`, `DeliveriesSettle` (liveness).

Catalog properties: `PublishedOnce` (`movie.published` is written once, in the
transaction that publishes), `EditorsDecide` (an archived movie stays archived, a
locked title stays), `IndexFollows` (the index is wrong about a movie only while an event of
it is to be handled or in hand), `PagesTried` (a discovery that ended without being given up
has tried every item of every page due: up to the bound asked for or announced, and before
the first page that lists nothing), `ReadersConverge` and `RunsSettle` (liveness).

Stated in the modules and proved (section 5) without a run of their own:
`OrderKeepsItsKey`, `ForwardOnly`, `StaffAreActive`, and `StreamsWithinLimit` and
`ClosedStaysClosed`, which the refinement of `StreamLimit` says in other words; and the two action
properties of `SourceCircuit` (`OnlyTheCapStrands`, `StrandedForGood`) and its `CapHolds`.

Each property has a mutant in `PROJECT.json`: a plausible bug in one mapped
definition (a lock not taken, a `WHERE` clause trusted as read, an off-by-one in
the expiry) which breaks it. The mutated forms stand before the definitions they
replace, marked *Mutant of*.

## 4. Bounds and fairness

Bounds are constants whose name begins with `Max`, in the guards of the actions
they limit, plus the sizes of the sets.

* `payment_orders`: one user, since guard, open order and reminders are all per
  user and orders of different users share only the uniqueness of provider
  transactions, for which two orders of one user do as well. Two orders are
  enough for an overlap, two webhook events for a repetition, a contradiction or
  a late answer. `MaxTime` = 2 with a TTL of 1 lets an order expire and a
  subscription lapse. `Window` = 0 here: reminders belong to the next run.
* `payment_jobs`: one order, two workers, time to 3: the subscription is activated,
  enters its window, is extended, and lapses. One worker fewer would hide the race
  of two scans.
* `auth_sessions`: the limit of one device forces evictions; the third session is
  the administrator's, without which no administrator request is authorised. Three
  tokens are two exchanges. Two requests are a ban and its lifting, or two
  conflicting operations.
* `playback_slots`: one slot and two sessions is the smallest instance in which
  the limit refuses; TTL 2 and time to 3 let a heartbeat extend a session past the
  moment another would have had its slot. `MaxSeq` = 0 leaves out progress, which
  does not touch slots.
* `playback_reports`: two sessions give two ordinals. `MaxSeq` = 1 suffices because the
  order of reports within one session is kept by `lastSeq` and is the same comparison.
  Time stands still, because expiry only removes behaviours here.
* `media_pipeline`: two generations are an upload and its replacement, with late
  callbacks of the first; three attempts are one before, one at and one after a
  takeover (four in the code); one fault is one stop, lapse or lost answer at any step.
* `event_delivery`: the catalog has two publishers, which compete; the profile and
  streaming services one each, which order a deletion and a view of one profile in both
  ways. One fault and three requests at any step; a limit of one profile makes two
  creations compete. `DeliveriesSettle` and the refinement need the bound on requests:
  an administrator who replays for ever keeps a delivery from settling.
* `catalog`: two workers and one fault are a takeover with the old worker still
  running; one request is an archive, a publication, a lock or a report at any step of an
  import. The second provider item is attached to the first movie from the start, so that
  an import of the first may make or find a movie and a refresh has more than its batch of
  one. Of the three lists of pages one has an item on two pages, as it has when the list
  moves while it is read; one has a page that lists nothing before its last; one announces
  no number and has more pages than were asked for. Two workers may so be at
  different pages of one run. The owned item of the first movie is available from
  the start, so that `MarkOwnedReady` repeats what is known.
* `CHECK_DEADLOCK FALSE` stands where the system may stop: requests and faults are
  bounded, clients may stay silent, and all jobs may be done.
* Symmetry is used over orders, keys, events, transactions, devices, handlers and
  sessions in runs of safety properties only. The runs with liveness have none.

In `Payment!FairSpec`, `setInterval` starts the next poll
whatever happened to the last, and an error in a poll is not permanent: strong
fairness on each step of a poll, since a poll may be cut short and started again.
A transaction ends and a handler past its commit either reaches the provider or is
lost: weak fairness on the disjunction, so that nothing promises the provider is
ever called. The provider settles the orders it knows. Users, administrators and
webhooks are under no obligation.

In the later modules fairness is weak: the timers of publishers, workers, delivery
workers and of the projection start again after an error, some instance of each kind
goes on, a lease is a time and lapses, a request is answered or times out, Kafka
redelivers until a handler commits, midnight comes. Faults end, because they are
counted. Clients, editors and administrators are under no obligation, and neither is a
discovery's retry under one to succeed: `RequeueRun` counts as a fault.

## 5. Proofs

Each proof module extends the module it is about. The theorems hold for every value of
the constants that satisfies the assumption named; every run of the component evaluates
that assumption. `SourceCircuit` has no passing run, so its assumption is a hypothesis of
its theorems: the requests at one time are finitely many, the cap is a number and no backoff is
negative.

| module | from | theorems |
|---|---|---|
| `PaymentProofs` | `ConstantsAssumption`, `NoneAssumption` | `GuardInvariant`; `TypeCorrect`, `OneOpenOrder`, `RowsMatch`, `KeyKept`; `PurchaseInvariant`; `NothingPaidIsLost`, `PaidOnce`, `TermAsBought`, `OneReminder`, and `NeverTakenBack` for the action property |
| `ContractProofs` | the same | `JobsInvariant`; `PurchaseContractKept`, the refinement |
| `AuthProofs` | `AuthAssumption`, `NoneAssumption` | `AuthInvariant`; `TypeCorrect`, `RevocationComplete`, `RotationIsOneChain`, `BanIsComplete`, `StaffActive` |
| `PlaybackProofs` | `PlaybackAssumption` | `PlaybackInvariant`; `TypeCorrect`, `SlotKept`, `LimitHolds`, `OneViewEach`, `ProgressGone`, and `ClosedForGood`, `NeverBackwards` for the action properties; `StreamLimitKept`, the refinement |
| `SourceCircuitProofs` | the hypothesis `Setting` | `CircuitInvariant`; `PlacesAreCapped`, `CapAloneStrands`, `NoWayBack`, `RecoversBelowTheCap`; of the provider's client `BusyOnlyIfAllAre`, `OneEpisodeNamed`, `ResolvesWhatIsNamed` |
| `MediaProofs` | `MediaAssumption` | `MediaInvariant`; `TypeCorrect`, `ReadyIsServable`, `GivenUpLast`, `SuccessSettles`, `WaitingCarriedOn`, and `OutcomeKept` for the action property |
| `DeliveryProofs` | `DeliveryAssumption` and those of its parts | `DeliveryInvariant`; `TypeCorrect`, `NothingMarkedUnsent`, `QuotaHolds`, `DeliveredForGood`, and `ExactlyOnceSafety`, the refinement |
| `CatalogProofs` | `MoviesAssumption`, `CatalogAssumption` | `CatalogInvariant`; `TypeCorrect`, `AnnouncedOnce`, `IndexCorrected`, `DiscoveryCovers`, and `EditorsPrevail` for the action property |

**Payment.** `OneOpenOrderPerUser` is not inductive: a purchase commits long after it looked
for an open order. `IInv` adds `GuardHolder` (two purchases past their checks never
belong to one user; the user of such a purchase has no open subscription but those
lapsed when it looked, which its commit expires; its key is still unused) and
`ExistsTogether` (the order, its payment and its subscription exist together). The
guard then carries the argument: every action that could open a subscription of
that user waits for it, and those that do not wait can only extend a subscription
that has not lapsed, or close one. The second half of
`PaymentProofs` adds to it `Terms` (a pending
subscription still has its first version, so an activation never lands on an extended
one), `Ledger` (a paid order has exactly one success receipt and one
activation event, and an unpaid one has neither: `PaidByEvent`, `OneOrNone`) and `Reminders` (no reminder is in the
outbox without its record, so the second job finds the record).

`ContractProofs` shows the refinement step by step. One lemma says what a step that leaves an
order's rows alone leaves of its contract; then each action is mapped: `SubscribeCommit` to
`Agree`, where `GuardHolder` gives that every earlier order of the buyer is settled or over; an
activation to `Grant`, a late success to `Dispute`; closings to `Close`; expiry to `End`, which needs
`JobsLookBack`: no poll works with a clock ahead of the service's, so that nothing ends early.

**Auth.** Two locks carry it. `ExchangeHolds`: an exchange in flight has the only lock of its
session, which is not revoked and which no revocation in progress has chosen.
`TokensHaveSessions`, `UsedIsReplaced` and `OneLast` make rotation a chain.
`LoginIsActive`: the account of a login in flight is active, since a ban waits for the lock.

**Playback.** The limit is argued in two halves. `WithinLimit`: Redis never holds more
scores than the limit. `Slots`: a live session has its slot, because a slot is
taken before the row is written (`InsertsAlone`, `RefreshesHeld`, `ResolvesInserted`), lasts
as long as the row may (`Terms`), and is released only after the row was closed
(`ReleasesClosed`). `ReportsStopped` says that once the deletion of the profile is processed, a
report still in flight is of a terminal session, and the transaction refuses it.

`StreamLimitKept` needs the first half once more: at `InsertCommit` the new session has one of the
at most `Limit` slots, and every session that streams has another, so fewer than `Limit` stream.
Every other step leaves or closes rows and makes none live that was not (`GoesOn`), which is a
`Stop` of those that changed. `UnrecordedExist` keeps a failure from preceding its session.

**Sources.** `IInv` counts the places: as many resolves as requests that resolve or report
(`CapHolds`), and a probe only in a circuit that tripped. `SourceStep` says all that a step can do
to a source: nothing; end a resolve, and the probe with it; start one where there was no probe;
or be refused by the cap. From it follow that the cap alone strands a probe, that a stranded one
stays so, and that with a cap no smaller than the requests at one time `SourceCanRecover` holds.
`OneEpisodeNamed` says that in an accepted document the keys of a server and of an episode select
that episode and no other. `ResolvesWhatIsNamed` says what the two lookups of `resolvePlayback`
make of it when they read the same servers: the link of that episode exactly if its server has a
name and the first text given of the episode is its selector; otherwise no link, and never that of
another episode; and an error if the servers lie beside the movie alone.

**Media.** `IInv` says that every job goes back to an upload and none is ahead of the asset
(`JobsHaveUploads`, `UploadsBehind`), every callback and worker to an attempt that was
claimed (`AttemptsBegun`), what a callback reports happened (`ReportsTrue`), and the row is in
step with itself (`RowOK`); `SuccessNoticed` follows a success until the asset has it.
`WaitingCarriedOn` adds `RowCarried` (the event of a completed upload is in the outbox and is never
taken out) and `JobsCarry` (an event in the inbox has its job, and a job fails only when its
attempts are used up).

**Delivery.** `Quota` (the active profiles, with the one a creation has counted but not yet
inserted, are within the limit), `Backed` (what is
marked, or about to be, is on the broker) and `Effective` (an effect is of an event that was
sent and happened once). `ExactlyOnceSafety` proves that the initial states map to initial
states of `EventDelivery` and every step to a step or a stutter; that what happened takes
effect in the end is the other half of the refinement and is checked by TLC.

**Catalog.** `PublishedOnce` is not inductive, since an import writes what follows from what it
read earlier. `ReadsStand` says that what an import read of a movie it holds is still so, and
that no other import holds that movie; where there was no movie to lock, the guard that stands
for the primary key takes its place at the commit. `Unannounced` counts the announcements of
what was never published. `SyncInv` says that a worker at work has a run and something to do,
without which its steps have no item. `IndexCorrected` follows a movie from its change over
the event to the document: `Tells` (a step that changes which movies are published leaves an
event of each of them) and `ProjectorOK`
(the row in the projector's hand is as published as the movie is, or an event has come since).
`DiscoveryCovers` follows the checkpoint: every page before it was tried (`Passed`), also when a
worker that lost its lease writes a checkpoint of its own, since before that worker's own page all
was tried too, and of its page what it has not got left (`Behind`, `OfPage`). A worker whose loop
ends is past every page due (`EndCovers`). That the least item to do exists is the
well-foundedness of the naturals, from the library.

Model-checked only: the runs that exhibit a disagreement, and all liveness (`LapsedExpires`,
`ConfirmedFailureCloses`, `QueuedSettles`, `DeliveriesSettle`, `ReadersConverge`, `RunsSettle` and the
second half of `ExactlyOnce`), for which the prover has no rule for fairness and `ENABLED`. Every
invariant and action property of a passing run is proved.

## 6. Where code and documents disagree

* `payment_abandoned` / `AbandonedOrderCloses`. `backend-chi-tiet.md:434` promises that an
  abandoned order does not lock purchases for ever. If the process dies between
  the commit and the provider call, there is no row in `mock_provider_orders`, the
  join at `payment.service.ts:312` never finds the order, and the user stays
  locked out unless the client retries with the same key.
* `auth_device` / `OneSessionPerDevice`. `backend-chi-tiet.md:75` promises one session in
  force per user and device. A login that finds a session expired does not revoke it;
  a refresh that passed its check before the expiry and commits after it extends
  that session.
* `staff_last_admin` / `AdminRemains`. `thiet-ke-web-admin.md:290` forbids lowering one's
  own role and removing the last administrator. `promoteStaff` checks neither.
* `circuit_probe` / `SourceCanRecover`. `backend-chi-tiet.md:217` promises no permanent
  ban by an old flag. When the cap on resolves refuses the request that has just been
  admitted as the probe (`streaming.service.ts:535-536`), the flag stays set.

Other disagreements have no run that exhibits them. The properties of the passing runs
state what the code does, with the case exempted or bounded by name, so that it can be read off them:

* `QueuedSettles`, `unheard`, a lost failure. `backend-chi-tiet.md:424` says that when the retries
  are used up `video.transcode_failed` is emitted, Streaming marks the asset failed, and no error
  is lost silently. The worker ignores a failed callback (`transcode.service.ts:115`) and ends its
  job: the asset stays `processing`, refuses another upload, and no event is written.
* `QueuedSettles`, `unheard`, a lost announcement. `backend-chi-tiet.md:423` says that
  `video.ready` is emitted and the catalog updated. A failure of the catalog's call, or a stop, after
  the update of `applyTranscoded` has committed (`streaming.service.ts:396-397`) leaves both undone,
  since the repeated callback applies to nothing.
* The token of an attempt. `backend-chi-tiet.md:426` lets only the holder of the present token
  commit a result. The callbacks carry the token and no handler compares it
  (`streaming.service.ts:394`, `403`); the attempt number decides, so an attempt whose lease lapsed
  may still settle the asset if it reports first (`Applies`). `OutcomeStands` and
  `FailedIsExhausted` say what holds all the same.
* `PagesTried`, `PagesDue`. `backend-chi-tiet.md:203` says that `maxPages: 10000` scans to the last
  page the provider announces. The loop also breaks at a page without items
  (`catalog.service.ts:447`), which a page is whose items are all filtered out, and the run ends as
  `completed`.

And one that is about a lookup: `resolvePlayback` accepts a document by keys that its second lookup
does not have (`content-provider/src/index.ts:356-361`), so a server without a name, an episode whose
file name is an address, or servers beside the movie resolve to no link or to an error
(`ResolvesWhatIsNamed`). `backend-chi-tiet.md:567` says that `profile.deleted` deletes related watch
events; one that arrives after it stays (a hazard without a property).

## 7. Not modelled

Password hashing, JWT signing and key caching, rate limits, validation of request
bodies, response envelopes, pagination and read-only queries: no state of the
system depends on them. The object storage client and the media edge are pure
I/O; of the content provider's client the replies, retries and refusals are modelled
and the parsing of fields is not. The audit row is written in the same transaction as
each operation of the auth service and is left out of `Auth`. The gateway forwards
and keeps no state; its second call, for the audit record of an operation of another
service, is a listed hazard. Deployment files and test drivers are not part of the
running system.

Of the catalog: seasons, several playables and servers of one movie, taxonomies, edits of
an item's selector, row versions and the status of a whole source. Nothing that is
modelled reads them; the grouping of episodes is a computation over one document.
Two instances of the search projection are left out: they may write a stale row over
a newer one, and the property of the index holds for one.

## 8. What could follow

1. An abstract specification of a session of the auth service (open, exchanged, revoked),
   implemented by `Auth`, proved from `AuthInvariant`.
2. The safety half of `DeliveriesSettle`: a delivery that is not settled is claimed again, or its
   instance stopped with it.
3. Several search projections, with the property that a stale write is overtaken.
4. A restart of the streaming process in `SourceCircuit`.
