----------------------------- MODULE MediaPipeline -----------------------------
(***************************************************************************)
(* The owned media of one source item: the upload and the asset row of the *)
(* streaming service (src/apps/streaming-service/src), the jobs and the    *)
(* instances of the transcode worker (src/apps/transcode-worker/src), and  *)
(* the HTTP callbacks between them.                                        *)
(*                                                                         *)
(* The two services share no transaction.  Covered: a worker that stops at *)
(* any step, a lease that lapses while its worker still runs, a callback   *)
(* that never arrives or is handled after its sender gave up, an answer    *)
(* that is lost, a handler that ends between its transactions, a failing   *)
(* transcode, and two requests that both create the asset row.  The clock is left out: an *)
(* upload expires and a lease lapses at any time.                          *)
(***************************************************************************)
EXTENDS Integers, FiniteSets

CONSTANTS
    Keys,           \* Idempotency-Key values of upload requests
    Workers,        \* instances of the transcode worker
    MaxAttempts,    \* attempts before a job fails: 4 in the code
    MaxGen,         \* bound: generations of the asset
    MaxFaults       \* bound: stops, lapses under a running worker, lost calls and answers, races for the row

ASSUME MediaAssumption ==
    MaxAttempts \in Nat \ {0} /\ MaxGen \in Nat \ {0} /\ MaxFaults \in Nat

VARIABLES
    asset,      \* the row of video_assets
    opening,    \* upload requests that found no row and have not inserted theirs
    raced,      \* history: one of them found the row of another when it did
    checked,    \* some request of completeUpload is past its checks
    stored,     \* the uploads bucket holds the raw object of the row
    media,      \* master manifests in the media bucket
    outbox,     \* outbox_events of the streaming service
    catalog,    \* the catalog was told that the item is ready
    inbox,      \* worker_inbox
    job,        \* transcode_jobs, one for each generation
    worker,     \* what each instance is doing
    calls,      \* callbacks that the streaming service has not finished
    unheard,    \* history: generations whose outcome, or its announcement, was lost on the way
    faults

uploadVars == <<opening, raced, checked, stored>>
vars == <<asset, uploadVars, media, outbox, catalog, inbox, job, worker, calls, unheard, faults>>

Gens == 1..MaxGen
AssetStatus == {"absent", "upload_pending", "queued", "processing", "ready", "failed"}
JobState == {"none", "queued", "processing", "retry_wait", "succeeded", "failed"}

\* live: upload_expires_at is set and not past; attempt: processed_attempt, 0 for NULL.
Asset == [status: AssetStatus, gen: Nat, raw: Nat, live: BOOLEAN, attempt: Nat]

\* lapsed: lease_until is past.
Job == [state: JobState, raw: Nat, attempt: Nat, lapsed: BOOLEAN]

Event == [type: {"video.uploaded", "video.ready", "video.transcode_failed"}, gen: Nat, raw: Nat]

\* at: how far the streaming service is with it.
Call == [type: {"processing", "transcoded", "failed"}, gen: Gens, attempt: Nat,
         at: {"sent", "reporting", "announcing"}]

Idle == [pc |-> "idle"]

Instance ==
    {Idle} \union
    [pc: {"starting", "transcoding", "reporting", "succeeding", "erring", "confessing", "failing"},
     gen: Gens, attempt: Nat]

TypeOK ==
    /\ asset \in Asset
    /\ opening \subseteq Keys
    /\ raced \in BOOLEAN
    /\ checked \in BOOLEAN
    /\ stored \in BOOLEAN
    /\ media \subseteq [gen: Gens, attempt: Nat, raw: Nat]
    /\ outbox \subseteq Event
    /\ catalog \in BOOLEAN
    /\ inbox \subseteq Event
    /\ job \in [Gens -> Job]
    /\ worker \in [Workers -> Instance]
    /\ calls \subseteq Call
    /\ unheard \subseteq Gens
    /\ faults \in 0..MaxFaults

Init ==
    /\ asset = [status |-> "absent", gen |-> 0, raw |-> 0, live |-> FALSE, attempt |-> 0]
    /\ opening = {}
    /\ raced = FALSE
    /\ checked = FALSE
    /\ stored = FALSE
    /\ media = {}
    /\ outbox = {}
    /\ catalog = FALSE
    /\ inbox = {}
    /\ job = [g \in Gens |-> [state |-> "none", raw |-> 0, attempt |-> 0, lapsed |-> FALSE]]
    /\ worker = [w \in Workers |-> Idle]
    /\ calls = {}
    /\ unheard = {}
    /\ faults = 0

Fault ==
    /\ faults < MaxFaults
    /\ faults' = faults + 1

(***************************************************************************)
(* The upload.  An existing row is locked for the whole transaction; a row *)
(* that does not exist cannot be, so two requests may both create it.      *)
(***************************************************************************)
\* The row of a new upload.  Its raw key is new in every case.
NewUpload(gen) ==
    [status |-> "upload_pending", gen |-> gen, raw |-> asset.raw + 1, live |-> TRUE, attempt |-> 0]

OpenFirstUpload(k) ==
    /\ asset.status = "absent"
    /\ opening' = opening \union {k}
    /\ UNCHANGED <<asset, raced, checked, stored, media, outbox, catalog, inbox, job, worker,
                   calls, unheard, faults>>

\* INSERT ... ON CONFLICT DO UPDATE: the generation was computed when there was no row.
InsertFirstUpload(k) ==
    /\ k \in opening
    /\ opening' = opening \ {k}
    /\ asset' = NewUpload(1)
    /\ stored' = FALSE
    /\ IF asset.status = "absent" THEN UNCHANGED <<raced, faults>> ELSE raced' = TRUE /\ Fault
    /\ UNCHANGED <<checked, media, outbox, catalog, inbox, job, worker, calls, unheard>>

\* A pending upload is answered with the row itself or refused, like an active job.
Reusable ==
    \/ asset.status \in {"ready", "failed"}
    \/ asset.status = "upload_pending" /\ ~asset.live

ReplaceUpload ==
    /\ Reusable
    /\ asset.gen < MaxGen
    /\ asset' = NewUpload(asset.gen + 1)
    /\ stored' = FALSE
    /\ UNCHANGED <<opening, raced, checked, media, outbox, catalog, inbox, job, worker, calls, unheard, faults>>

\* The client sends the file to the presigned URL.
PutObject ==
    /\ asset.live
    /\ ~stored
    /\ stored' = TRUE
    /\ UNCHANGED <<asset, opening, raced, checked, media, outbox, catalog, inbox, job, worker,
                   calls, unheard, faults>>

UploadExpires ==
    /\ asset.live
    /\ asset' = [asset EXCEPT !.live = FALSE]
    /\ UNCHANGED <<uploadVars, media, outbox, catalog, inbox, job, worker, calls, unheard, faults>>

CompleteCheck ==
    /\ ~checked
    /\ asset.status = "upload_pending"
    /\ asset.live
    /\ stored
    /\ checked' = TRUE
    /\ UNCHANGED <<asset, opening, raced, stored, media, outbox, catalog, inbox, job, worker,
                   calls, unheard, faults>>

\* Under the row lock: the status and the object are checked again, the expiry is not.
\* Any number of requests may be past their checks, so "checked" remains.
CompleteCommit ==
    /\ checked
    /\ asset.status = "upload_pending"
    /\ stored
    /\ asset' = [asset EXCEPT !.status = "queued", !.live = FALSE]
    /\ outbox' = outbox \union
                 {[type |-> "video.uploaded", gen |-> asset.gen, raw |-> asset.raw]}
    /\ UNCHANGED <<uploadVars, media, catalog, inbox, job, worker, calls, unheard, faults>>

(***************************************************************************)
(* The worker.                                                             *)
(***************************************************************************)
\* The event reaches the worker once or more; worker_inbox and the primary key of the
\* jobs leave the other deliveries, and another event of the generation, without effect.
PersistUploaded(e) ==
    /\ e.type = "video.uploaded"
    /\ e \notin inbox
    /\ inbox' = inbox \union {e}
    /\ job' = [job EXCEPT ![e.gen] =
                  IF @.state = "none" THEN [@ EXCEPT !.state = "queued", !.raw = e.raw] ELSE @]
    /\ UNCHANGED <<asset, uploadVars, media, outbox, catalog, worker, calls, unheard, faults>>

\* Mutant of Claimable: a job whose worker is gone is never claimed again.
ClaimableOnce(g) == job[g].state \in {"queued", "retry_wait"}

Claimable(g) ==
    \/ job[g].state \in {"queued", "retry_wait"}
    \/ job[g].state = "processing" /\ job[g].lapsed

Sent(type, gen, attempt) ==
    [type |-> type, gen |-> gen, attempt |-> attempt, at |-> "sent"]

\* claim, then the callback that announces the attempt.
Claim(w, g) ==
    /\ worker[w] = Idle
    /\ Claimable(g)
    /\ job' = [job EXCEPT ![g].state = "processing", ![g].attempt = @ + 1, ![g].lapsed = FALSE]
    /\ worker' = [worker EXCEPT ![w] =
                     [pc |-> "starting", gen |-> g, attempt |-> job[g].attempt + 1]]
    /\ calls' = calls \union {Sent("processing", g, job[g].attempt + 1)}
    /\ UNCHANGED <<asset, uploadVars, media, outbox, catalog, inbox, unheard, faults>>

At(w, pc) == worker[w].pc = pc

\* The manifest is put last, when every segment of it is stored.
Transcode(w) ==
    /\ At(w, "transcoding")
    /\ media' = media \union {[gen |-> worker[w].gen, attempt |-> worker[w].attempt,
                               raw |-> job[worker[w].gen].raw]}
    /\ calls' = calls \union {Sent("transcoded", worker[w].gen, worker[w].attempt)}
    /\ worker' = [worker EXCEPT ![w].pc = "reporting"]
    /\ UNCHANGED <<asset, uploadVars, outbox, catalog, inbox, job, unheard, faults>>

TranscodeFails(w) ==
    /\ At(w, "transcoding")
    /\ worker' = [worker EXCEPT ![w].pc = "erring"]
    /\ UNCHANGED <<asset, uploadVars, media, outbox, catalog, inbox, job, calls, unheard, faults>>

\* Mutant of HoldsToken: the job is updated whoever claimed it last.
HoldsAnyToken(w) == TRUE

\* WHERE attempt_token: the token changes with the attempt.
HoldsToken(w) == job[worker[w].gen].attempt = worker[w].attempt

JobAs(w, state) ==
    IF HoldsToken(w)
    THEN [job EXCEPT ![worker[w].gen] = [@ EXCEPT !.state = state, !.lapsed = FALSE]]
    ELSE job

Succeed(w) ==
    /\ At(w, "succeeding")
    /\ job' = JobAs(w, "succeeded")
    /\ worker' = [worker EXCEPT ![w] = Idle]
    /\ UNCHANGED <<asset, uploadVars, media, outbox, catalog, inbox, calls, unheard, faults>>

\* Mutant of LastAttempt: one retry less than the job is entitled to.
LastAttemptEarly(w) == worker[w].attempt >= MaxAttempts - 1

LastAttempt(w) == worker[w].attempt >= MaxAttempts

Retry(w) ==
    /\ At(w, "erring")
    /\ ~LastAttempt(w)
    /\ job' = JobAs(w, "retry_wait")
    /\ worker' = [worker EXCEPT ![w] = Idle]
    /\ UNCHANGED <<asset, uploadVars, media, outbox, catalog, inbox, calls, unheard, faults>>

Confess(w) ==
    /\ At(w, "erring")
    /\ LastAttempt(w)
    /\ calls' = calls \union {Sent("failed", worker[w].gen, worker[w].attempt)}
    /\ worker' = [worker EXCEPT ![w].pc = "confessing"]
    /\ UNCHANGED <<asset, uploadVars, media, outbox, catalog, inbox, job, unheard, faults>>

Fail(w) ==
    /\ At(w, "failing")
    /\ job' = JobAs(w, "failed")
    /\ worker' = [worker EXCEPT ![w] = Idle]
    /\ UNCHANGED <<asset, uploadVars, media, outbox, catalog, inbox, calls, unheard, faults>>

\* The instance stops; what it had begun is lost, its callbacks are not.
Crash(w) ==
    /\ worker[w] # Idle
    /\ Fault
    /\ worker' = [worker EXCEPT ![w] = Idle]
    /\ UNCHANGED <<asset, uploadVars, media, outbox, catalog, inbox, job, calls, unheard>>

\* Some instance works on the attempt that the job is at.
Running(g) == \E w \in Workers : worker[w] # Idle /\ worker[w].gen = g /\ HoldsToken(w)

\* The lease is not renewed, so it may lapse under a worker that still runs.
LeaseLapses(g) ==
    /\ job[g].state = "processing"
    /\ ~job[g].lapsed
    /\ job' = [job EXCEPT ![g].lapsed = TRUE]
    /\ IF Running(g) THEN Fault ELSE UNCHANGED faults
    /\ UNCHANGED <<asset, uploadVars, media, outbox, catalog, inbox, worker, calls, unheard>>

(***************************************************************************)
(* The callbacks.                                                          *)
(***************************************************************************)
\* The callback that an instance waits for.
Awaits(w, c) ==
    /\ worker[w] # Idle
    /\ worker[w].gen = c.gen
    /\ worker[w].attempt = c.attempt
    /\ worker[w].pc = CASE c.type = "processing" -> "starting"
                        [] c.type = "transcoded" -> "reporting"
                        [] c.type = "failed" -> "confessing"

AfterAnswer == [starting |-> "transcoding", reporting |-> "succeeding", confessing |-> "failing"]

\* The handler ends with 200, whether it applied the callback or not; its answer arrives,
\* or is lost.
Answer(c) ==
    /\ calls' = calls \ {c}
    /\ \/ /\ worker' = [w \in Workers |->
                          IF Awaits(w, c) THEN [worker[w] EXCEPT !.pc = AfterAnswer[@]]
                          ELSE worker[w]]
          /\ UNCHANGED faults
       \/ /\ Fault
          /\ UNCHANGED worker

\* fetch fails: after a lost answer or an error, or after five seconds.
GiveUp(w) ==
    /\ worker[w].pc \in DOMAIN AfterAnswer
    /\ IF \E c \in calls : Awaits(w, c) THEN Fault ELSE UNCHANGED faults
    /\ worker' = [worker EXCEPT ![w] =
                     CASE At(w, "starting") -> Idle
                       [] At(w, "reporting") -> [@ EXCEPT !.pc = "erring"]
                       [] At(w, "confessing") -> [@ EXCEPT !.pc = "failing"]]
    /\ UNCHANGED <<asset, uploadVars, media, outbox, catalog, inbox, job, calls, unheard>>

\* Mutant of Applies: a callback of an attempt that a later one has superseded counts.
AppliesLate(c) ==
    asset.gen = c.gen /\ asset.status \in {"queued", "processing"}

\* Mutant of Applies: a callback of an earlier generation counts.
AppliesToAny(c) ==
    asset.status \in {"queued", "processing"} /\ asset.attempt <= c.attempt

\* The WHERE clause of the three updates; the token that the callback carries is not compared.
Applies(c) ==
    /\ asset.gen = c.gen
    /\ asset.status \in {"queued", "processing"}
    /\ asset.attempt <= c.attempt

\* Mutant of StatusOf: the status is named like the event.
StatusOfEvent ==
    [processing |-> "processing", transcoded |-> "ready", failed |-> "transcode_failed"]

StatusOf == [processing |-> "processing", transcoded |-> "ready", failed |-> "failed"]

AssetAs(c) == [asset EXCEPT !.status = StatusOf[c.type], !.attempt = c.attempt]

ApplyProcessing(c) ==
    /\ c.type = "processing"
    /\ asset' = IF Applies(c) THEN AssetAs(c) ELSE asset
    /\ Answer(c)
    /\ UNCHANGED <<uploadVars, media, outbox, catalog, inbox, job, unheard>>

\* applyTranscoded and applyTranscodeFailed: the update commits by itself.
ApplyOutcome(c) ==
    /\ c.type # "processing" /\ c.at = "sent"
    /\ Applies(c)
    /\ asset' = AssetAs(c)
    /\ calls' = (calls \ {c}) \union
                {[c EXCEPT !.at = IF c.type = "transcoded" THEN "reporting" ELSE "announcing"]}
    /\ UNCHANGED <<uploadVars, media, outbox, catalog, inbox, job, worker, unheard, faults>>

IgnoreOutcome(c) ==
    /\ c.type # "processing" /\ c.at = "sent"
    /\ ~Applies(c)
    /\ Answer(c)
    /\ UNCHANGED <<asset, uploadVars, media, outbox, catalog, inbox, job, unheard>>

ReportOwnedReady(c) ==
    /\ c.at = "reporting"
    /\ catalog' = TRUE
    /\ calls' = (calls \ {c}) \union {[c EXCEPT !.at = "announcing"]}
    /\ UNCHANGED <<asset, uploadVars, media, outbox, inbox, job, worker, unheard, faults>>

WriteMediaOutbox(c) ==
    /\ c.at = "announcing"
    /\ outbox' = outbox \union
                 {[type |-> IF c.type = "transcoded" THEN "video.ready" ELSE "video.transcode_failed",
                   gen |-> c.gen, raw |-> 0]}
    /\ Answer(c)
    /\ UNCHANGED <<asset, uploadVars, media, catalog, inbox, job, unheard>>

\* The failure that a job ends with, or what an update that has committed still owes.
Decisive(c) == c.at # "sent" \/ (c.type = "failed" /\ Applies(c))

\* The callback never arrives, the catalog refuses, or the service stops: an update that
\* has committed stays, and the rest is never done.
HandlingFails(c) ==
    /\ Fault
    /\ calls' = calls \ {c}
    /\ unheard' = IF Decisive(c) THEN unheard \union {c.gen} ELSE unheard
    /\ UNCHANGED <<asset, uploadVars, media, outbox, catalog, inbox, job, worker>>

(***************************************************************************)
(* The next-state relation.                                                *)
(***************************************************************************)
Upload ==
    \/ \E k \in Keys : OpenFirstUpload(k) \/ InsertFirstUpload(k)
    \/ ReplaceUpload \/ PutObject \/ UploadExpires
    \/ CompleteCheck \/ CompleteCommit

Run(w) ==
    \/ Transcode(w) \/ TranscodeFails(w) \/ Succeed(w) \/ Retry(w) \/ Confess(w) \/ Fail(w)

Handle(c) ==
    \/ ApplyProcessing(c) \/ ApplyOutcome(c) \/ IgnoreOutcome(c)
    \/ ReportOwnedReady(c) \/ WriteMediaOutbox(c)

Next ==
    \/ Upload
    \/ \E e \in outbox : PersistUploaded(e)
    \/ \E w \in Workers, g \in Gens : Claim(w, g)
    \/ \E w \in Workers : Run(w) \/ GiveUp(w) \/ Crash(w)
    \/ \E g \in Gens : LeaseLapses(g)
    \/ \E c \in calls : Handle(c) \/ HandlingFails(c)

\* The publisher and the consumer of video.uploaded retry; the poll claims whatever is due
\* and runs it; a lease is a time, so it lapses; a request is answered or times out.
\* Nothing makes a client upload or complete.
Fairness ==
    /\ WF_vars(\E e \in outbox : PersistUploaded(e))
    /\ \A g \in Gens : WF_vars(\E w \in Workers : Claim(w, g)) /\ WF_vars(LeaseLapses(g))
    /\ \A w \in Workers : WF_vars(Run(w)) /\ WF_vars(GiveUp(w))
    /\ WF_vars(\E c \in calls : Handle(c))

Spec == Init /\ [][Next]_vars /\ Fairness

(***************************************************************************)
(* Properties.  A request that creates the row a second time keeps its     *)
(* generation, and the job of the first upload answers for the second; the *)
(* properties that tell uploads apart by generation leave that race out.   *)
(***************************************************************************)
\* The manifest that viewers of a ready asset are sent to is stored complete, and was made
\* of the object that the asset names, however late or often its attempts reported.
ReadyServesUpload ==
    asset.status = "ready" /\ ~raced =>
        [gen |-> asset.gen, attempt |-> asset.attempt, raw |-> asset.raw] \in media

\* For one upload the attempt that the asset records never goes back, and a ready or failed
\* asset is changed by no callback of any attempt: only another upload replaces it.
OutcomeStands ==
    [][asset'.raw = asset.raw =>
          /\ asset'.attempt >= asset.attempt
          /\ asset.status \in {"ready", "failed"} => asset' = asset]_vars

\* An asset is given up only when its job has had all its attempts.
FailedIsExhausted ==
    asset.status = "failed" => job[asset.gen].attempt >= MaxAttempts

\* A job that succeeded has settled its asset: no asset waits for a job that is done.
SucceededIsSettled ==
    ~raced => \A g \in Gens :
        job[g].state = "succeeded" /\ asset.gen = g => asset.status \in {"ready", "failed"}

\* Whatever stops, lapses or is lost, an asset that waits has something that carries it on:
\* the event of its upload that the worker has not taken, or a job of the very object it
\* names that is still claimed again. Only a job that has had all its attempts leaves it.
WaitingIsCarried ==
    asset.status \in {"queued", "processing"} /\ ~raced =>
        \/ \E e \in outbox \ inbox :
              e.type = "video.uploaded" /\ e.gen = asset.gen /\ e.raw = asset.raw
        \/ /\ job[asset.gen].state \in {"queued", "processing", "retry_wait"}
           /\ job[asset.gen].raw = asset.raw
        \/ job[asset.gen].state = "failed" /\ job[asset.gen].attempt >= MaxAttempts

\* The outcome of a generation is in the outbox, the catalog knows of a ready one, and the
\* asset, unless another upload has replaced it, is what the event says.
Announced(g) ==
    \/ /\ \E e \in outbox : e.type = "video.ready" /\ e.gen = g
       /\ catalog
       /\ asset.gen = g => asset.status = "ready"
    \/ /\ \E e \in outbox : e.type = "video.transcode_failed" /\ e.gen = g
       /\ asset.gen = g => asset.status = "failed"

\* An upload that was completed is not forgotten, and a job that fails is no end of it: the
\* asset becomes ready, and the catalog and the outbox hear of it, or it fails and the
\* outbox names the failure.  The code keeps this promise only as long as nothing is lost
\* between the commit of an outcome and its announcement, and the last failure arrives:
\* what is lost there is repeated by nobody (unheard).
QueuedSettles ==
    \A g \in Gens :
        (asset.status = "queued" /\ asset.gen = g) ~> (Announced(g) \/ g \in unheard \/ raced)
=============================================================================
