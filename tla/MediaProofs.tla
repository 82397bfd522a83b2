------------------------------ MODULE MediaProofs ------------------------------
(***************************************************************************)
(* Theorems about MediaPipeline, for any number of upload keys, workers,   *)
(* attempts, generations and faults.                                       *)
(*                                                                         *)
(* A callback tells the streaming service a generation and an attempt and  *)
(* nothing else.  The argument is that these two numbers are enough: what  *)
(* is in flight always goes back to a claimed attempt of a job, the job to *)
(* the event of a completed upload, and that event to the row as it was.   *)
(***************************************************************************)
EXTENDS MediaPipeline, TLAPS

(***************************************************************************)
(* The inductive invariant.                                                *)
(***************************************************************************)
\* The row exists from the first generation on, and only a pending upload may still expire.
RowOK ==
    /\ asset.gen \in 0..MaxGen
    /\ asset.gen = 0 <=> asset.status = "absent"
    /\ asset.live => asset.status = "upload_pending"

Uploaded(g, raw) == [type |-> "video.uploaded", gen |-> g, raw |-> raw]

\* Every job goes back to the event of an upload.
JobsHaveUploads ==
    /\ inbox \subseteq outbox
    /\ \A g \in Gens : job[g].state # "none" => Uploaded(g, job[g].raw) \in outbox

\* The events speak of the uploads that were completed: none is ahead of the row, and the
\* one of the row's generation names the object that the row names.
UploadsBehind ==
    ~raced => \A e \in outbox : e.type = "video.uploaded" =>
        /\ e.gen <= asset.gen
        /\ e.gen = asset.gen => e.raw = asset.raw /\ asset.status # "upload_pending"

\* Attempt a of the job of generation g was claimed.
Begun(g, a) == job[g].state # "none" /\ a <= job[g].attempt

AttemptsBegun ==
    /\ \A w \in Workers : worker[w] # Idle => Begun(worker[w].gen, worker[w].attempt)
    /\ \A c \in calls : Begun(c.gen, c.attempt)
    /\ \A g \in Gens : asset.gen = g => asset.attempt <= job[g].attempt

\* What an attempt reports is so: the manifest is stored, or no attempt is left.
ReportsTrue ==
    \A c \in calls :
        /\ c.type = "transcoded" =>
              [gen |-> c.gen, attempt |-> c.attempt, raw |-> job[c.gen].raw] \in media
        /\ c.type = "failed" => c.attempt >= MaxAttempts
        /\ c.at = "reporting" => c.type = "transcoded"

\* The asset has taken notice of attempt a: it is settled, or belongs to a later attempt
\* or upload.
Settled == asset.status \in {"ready", "failed"}
Noticed(g, a) == asset.gen > g \/ (asset.gen = g /\ (Settled \/ asset.attempt > a))

SuccessNoticed ==
    ~raced =>
        /\ \A c \in calls : c.type = "transcoded" /\ c.at # "sent" => Noticed(c.gen, c.attempt)
        /\ \A w \in Workers : worker[w].pc = "succeeding" => Noticed(worker[w].gen, worker[w].attempt)

IInv ==
    /\ TypeOK /\ RowOK /\ JobsHaveUploads /\ UploadsBehind /\ AttemptsBegun /\ ReportsTrue
    /\ SuccessNoticed /\ ReadyServesUpload /\ FailedIsExhausted /\ SucceededIsSettled

(***************************************************************************)
(* Records.                                                                *)
(***************************************************************************)
LEMMA AtWork ==
  ASSUME TypeOK, NEW w \in Workers, worker[w].pc # "idle"
  PROVE  /\ worker[w] # Idle
         /\ worker[w].gen \in Gens /\ worker[w].attempt \in Nat
  BY DEF TypeOK, Instance, Idle

LEMMA CallTyped ==
  ASSUME TypeOK, NEW c \in calls
  PROVE  c \in Call /\ c.gen \in Gens /\ c.attempt \in Nat
  BY DEF TypeOK, Call

(***************************************************************************)
(* The upload: no job, worker or callback moves.                           *)
(***************************************************************************)
LEMMA RowReplaced ==
  ASSUME IInv, NEW gen \in 1..MaxGen, asset' = NewUpload(gen),
         UNCHANGED <<media, outbox, catalog, inbox, job, worker, calls, unheard>>,
         opening' \subseteq Keys, checked' = checked, stored' = FALSE, raced' \in BOOLEAN,
         faults' \in 0..MaxFaults,
         raced' \/ (~raced /\ gen = asset.gen + 1)
  PROVE  IInv'
<1> USE DEF IInv
<1>1. asset' = [status |-> "upload_pending", gen |-> gen, raw |-> asset.raw + 1,
                live |-> TRUE, attempt |-> 0]
  BY DEF NewUpload
<1>2. TypeOK'
  <2>1. asset' \in Asset
    BY <1>1 DEF TypeOK, Asset, AssetStatus
  <2>2. stored' \in BOOLEAN /\ checked' \in BOOLEAN
    BY Zenon DEF TypeOK
  <2> QED
    BY <2>1, <2>2 DEF TypeOK
<1>3. RowOK'
  BY <1>1 DEF RowOK
<1>4. JobsHaveUploads' /\ ReportsTrue'
  BY DEF JobsHaveUploads, ReportsTrue, Uploaded
<1>5. UploadsBehind'
  BY <1>1 DEF UploadsBehind, TypeOK, Event, Asset
<1>6. AttemptsBegun'
  BY <1>1 DEF AttemptsBegun, Begun, TypeOK, Job
<1>7. SuccessNoticed'
  <2> SUFFICES ASSUME ~raced' PROVE SuccessNoticed'
    BY DEF SuccessNoticed
  <2>1. ASSUME NEW g \in Gens, NEW a \in Nat, Noticed(g, a) PROVE Noticed(g, a)'
    BY <1>1, <2>1 DEF Noticed, Gens, TypeOK, Asset, RowOK
  <2>2. \A c \in calls : c.gen \in Gens /\ c.attempt \in Nat
    BY CallTyped
  <2>3. \A w \in Workers : worker[w].pc = "succeeding" =>
            worker[w].gen \in Gens /\ worker[w].attempt \in Nat
    BY AtWork
  <2> QED
    BY <2>1, <2>2, <2>3 DEF SuccessNoticed
<1>8. ReadyServesUpload' /\ FailedIsExhausted'
  BY <1>1 DEF ReadyServesUpload, FailedIsExhausted
<1>9. SucceededIsSettled'
  <2> SUFFICES ASSUME ~raced', NEW g \in Gens, job[g].state = "succeeded", g = gen PROVE FALSE
    BY <1>1 DEF SucceededIsSettled
  <2>1. Uploaded(g, job[g].raw) \in outbox
    BY DEF JobsHaveUploads
  <2> QED
    BY <2>1 DEF UploadsBehind, Uploaded, TypeOK, Asset, RowOK, Gens
<1> QED
  BY <1>2, <1>3, <1>4, <1>5, <1>6, <1>7, <1>8, <1>9

LEMMA UploadKeeps == ASSUME IInv, Upload PROVE IInv'
<1> USE MediaAssumption DEF IInv
<1>1. ASSUME NEW k \in Keys, OpenFirstUpload(k) PROVE IInv'
  BY <1>1 DEF OpenFirstUpload, TypeOK, RowOK, JobsHaveUploads, Uploaded, UploadsBehind, AttemptsBegun,
     Begun, ReportsTrue, SuccessNoticed, Noticed, Settled, ReadyServesUpload, FailedIsExhausted,
     SucceededIsSettled
<1>2. ASSUME NEW k \in Keys, InsertFirstUpload(k) PROVE IInv'
  <2>1. 1 \in 1..MaxGen
    OBVIOUS
  <2>2. raced' \/ (~raced /\ 1 = asset.gen + 1)
    BY <1>2 DEF InsertFirstUpload, RowOK
  <2>3. raced' \in BOOLEAN
    BY <1>2, Zenon DEF InsertFirstUpload, TypeOK
  <2>4. faults' \in 0..MaxFaults
    BY <1>2 DEF InsertFirstUpload, Fault, TypeOK
  <2> QED
    BY <1>2, <2>1, <2>2, <2>3, <2>4, RowReplaced DEF InsertFirstUpload, TypeOK
<1>3. CASE ReplaceUpload
  <2>1. asset.gen + 1 \in 1..MaxGen
    BY <1>3 DEF ReplaceUpload, RowOK
  <2>2. raced' \in BOOLEAN /\ (raced' \/ ~raced)
    BY <1>3 DEF ReplaceUpload, TypeOK
  <2> QED
    BY <1>3, <2>1, <2>2, RowReplaced DEF ReplaceUpload, TypeOK
<1>4. CASE PutObject \/ CompleteCheck
  BY <1>4 DEF PutObject, CompleteCheck, TypeOK, RowOK, JobsHaveUploads, Uploaded, UploadsBehind,
     AttemptsBegun, Begun, ReportsTrue, SuccessNoticed, Noticed, Settled, ReadyServesUpload,
     FailedIsExhausted, SucceededIsSettled
<1>5. CASE UploadExpires
  <2>1. /\ asset' \in Asset /\ ~asset'.live
        /\ asset'.status = asset.status /\ asset'.gen = asset.gen
        /\ asset'.raw = asset.raw /\ asset'.attempt = asset.attempt
    BY <1>5 DEF UploadExpires, TypeOK, Asset
  <2> QED
    BY <1>5, <2>1 DEF UploadExpires, uploadVars, TypeOK, RowOK, JobsHaveUploads, Uploaded, UploadsBehind,
       AttemptsBegun, Begun, ReportsTrue, SuccessNoticed, Noticed, Settled, ReadyServesUpload,
       FailedIsExhausted, SucceededIsSettled
<1>6. CASE CompleteCommit
  <2> DEFINE e == Uploaded(asset.gen, asset.raw)
  <2>1. /\ asset' \in Asset /\ ~asset'.live /\ asset'.status = "queued" /\ asset'.gen = asset.gen
        /\ asset'.raw = asset.raw /\ asset'.attempt = asset.attempt
        /\ asset.status = "upload_pending"
    BY <1>6 DEF CompleteCommit, TypeOK, Asset, AssetStatus
  <2>2. outbox' = outbox \union {e} /\ e \in Event /\ e.gen = asset.gen /\ e.raw = asset.raw
    BY <1>6 DEF CompleteCommit, Uploaded, TypeOK, Asset, Event
  <2>3. UNCHANGED <<opening, raced, checked, stored, media, catalog, inbox, job, worker, calls, unheard, faults>>
    BY <1>6 DEF CompleteCommit, uploadVars
  <2>4. TypeOK' /\ RowOK'
    BY <2>1, <2>2, <2>3 DEF TypeOK, RowOK
  <2>5. JobsHaveUploads' /\ ReportsTrue' /\ AttemptsBegun'
    BY <2>1, <2>2, <2>3 DEF JobsHaveUploads, Uploaded, ReportsTrue, AttemptsBegun, Begun
  <2>6. UploadsBehind'
    BY <2>1, <2>2, <2>3 DEF UploadsBehind, TypeOK, Asset
  <2>7. SuccessNoticed' /\ ReadyServesUpload' /\ FailedIsExhausted'
    BY <2>1, <2>3 DEF SuccessNoticed, Noticed, Settled, ReadyServesUpload, FailedIsExhausted
  <2>8. SucceededIsSettled'
    BY <2>1, <2>3 DEF SucceededIsSettled
  <2> QED
    BY <2>4, <2>5, <2>6, <2>7, <2>8
<1> QED
  BY <1>1, <1>2, <1>3, <1>4, <1>5, <1>6 DEF Upload

(***************************************************************************)
(* The worker: the row does not move, jobs only grow.                      *)
(***************************************************************************)
JobsGrow ==
    \A g \in Gens :
        /\ job[g].state # "none" => job'[g].state # "none" /\ job'[g].raw = job[g].raw
        /\ job[g].attempt <= job'[g].attempt
        /\ job'[g].state # "none" => Uploaded(g, job'[g].raw) \in outbox
        /\ job'[g].state = "succeeded" /\ ~raced /\ asset.gen = g => Settled

LEMMA JobsSame == IInv /\ job' = job => JobsGrow
  BY DEF IInv, TypeOK, Job, JobsGrow, JobsHaveUploads, SucceededIsSettled, Settled

\* What a new callback says is so once it is sent.
FreshCall(c) ==
    /\ job'[c.gen].state # "none" /\ c.attempt <= job'[c.gen].attempt
    /\ c.at = "sent"
    /\ c.type = "transcoded" =>
          [gen |-> c.gen, attempt |-> c.attempt, raw |-> job'[c.gen].raw] \in media'
    /\ c.type = "failed" => c.attempt >= MaxAttempts

LEMMA JobsMove ==
  ASSUME IInv, JobsGrow, UNCHANGED <<asset, uploadVars, outbox, catalog, unheard>>,
         job' \in [Gens -> Job], inbox' \subseteq outbox,
         media \subseteq media', media' \subseteq [gen: Gens, attempt: Nat, raw: Nat],
         worker' \in [Workers -> Instance], calls' \subseteq Call, faults' \in 0..MaxFaults,
         \A w \in Workers : worker'[w].pc # "idle" =>
             /\ Begun(worker[w].gen, worker[w].attempt)'
             /\ worker'[w].pc = "succeeding" => worker'[w] = worker[w],
         \A c \in calls' : c \in calls \/ FreshCall(c)
  PROVE  IInv'
<1> USE DEF IInv
<1>1. TypeOK' /\ RowOK'
  BY DEF TypeOK, RowOK, uploadVars
<1>2. JobsHaveUploads'
  BY DEF JobsHaveUploads, JobsGrow, Uploaded
<1>3. UploadsBehind'
  BY DEF UploadsBehind, uploadVars
<1>4. ASSUME NEW g \in Gens, NEW a \in Nat, Begun(g, a) PROVE Begun(g, a)'
  BY <1>4 DEF Begun, JobsGrow, TypeOK, Job
<1>5. AttemptsBegun'
  <2>1. \A w \in Workers : worker'[w] # Idle => Begun(worker[w].gen, worker[w].attempt)'
    BY DEF Instance, Idle
  <2>2. ASSUME NEW c \in calls' PROVE Begun(c.gen, c.attempt)'
    <3>1. CASE c \in calls
      BY <3>1, <1>4, CallTyped DEF AttemptsBegun
    <3>2. CASE FreshCall(c)
      BY <3>2 DEF FreshCall, Begun
    <3> QED
      BY <3>1, <3>2
  <2>3. ASSUME NEW g \in Gens, asset'.gen = g PROVE asset'.attempt <= job'[g].attempt
    <3>1. /\ job[g].attempt \in Nat /\ job'[g].attempt \in Nat /\ asset.attempt \in Nat
          /\ job[g].attempt <= job'[g].attempt
      BY DEF TypeOK, Job, Asset, JobsGrow
    <3> QED
      BY <2>3, <3>1 DEF AttemptsBegun
  <2> QED
    BY <2>1, <2>2, <2>3 DEF AttemptsBegun
<1>6. ReportsTrue'
  <2> SUFFICES ASSUME NEW c \in calls'
               PROVE  /\ c.type = "transcoded" =>
                            [gen |-> c.gen, attempt |-> c.attempt, raw |-> job'[c.gen].raw] \in media'
                      /\ c.type = "failed" => c.attempt >= MaxAttempts
                      /\ c.at = "reporting" => c.type = "transcoded"
    BY DEF ReportsTrue
  <2>1. CASE c \in calls
    <3>1. c.gen \in Gens /\ job'[c.gen].raw = job[c.gen].raw
      BY <2>1, CallTyped DEF AttemptsBegun, Begun, JobsGrow
    <3> QED
      BY <2>1, <3>1 DEF ReportsTrue
  <2>2. CASE FreshCall(c)
    BY <2>2 DEF FreshCall
  <2> QED
    BY <2>1, <2>2
<1>7. SuccessNoticed'
  <2>1. \A c \in calls' : c.at # "sent" => c \in calls
    BY DEF FreshCall
  <2> QED
    BY <2>1 DEF SuccessNoticed, Noticed, Settled, uploadVars
<1>8. ReadyServesUpload'
  <2> SUFFICES ASSUME asset.status = "ready", ~raced
               PROVE  [gen |-> asset.gen, attempt |-> asset.attempt, raw |-> asset.raw] \in media'
    BY DEF ReadyServesUpload, uploadVars
  <2> QED
    BY DEF ReadyServesUpload
<1>9. FailedIsExhausted'
  <2> SUFFICES ASSUME asset.status = "failed" PROVE job'[asset.gen].attempt >= MaxAttempts
    BY DEF FailedIsExhausted
  <2>1. asset.gen \in Gens
    BY DEF RowOK, Gens
  <2>2. job[asset.gen].attempt >= MaxAttempts /\ job[asset.gen].attempt <= job'[asset.gen].attempt
    BY <2>1 DEF FailedIsExhausted, JobsGrow
  <2>3. job[asset.gen].attempt \in Nat /\ job'[asset.gen].attempt \in Nat
    BY <2>1 DEF TypeOK, Job
  <2> QED
    BY <2>2, <2>3, MediaAssumption
<1>10. SucceededIsSettled'
  BY DEF SucceededIsSettled, JobsGrow, Settled, uploadVars
<1> QED
  BY <1>1, <1>2, <1>3, <1>5, <1>6, <1>7, <1>8, <1>9, <1>10

\* The types a working instance may have next.
LEMMA Working ==
  ASSUME TypeOK, NEW w \in Workers, worker[w].pc # "idle",
         NEW pc \in {"starting", "transcoding", "reporting", "succeeding", "erring", "confessing",
                     "failing"}
  PROVE  /\ [worker[w] EXCEPT !.pc = pc] \in Instance
         /\ [worker[w] EXCEPT !.pc = pc].pc = pc
         /\ [worker[w] EXCEPT !.pc = pc].gen = worker[w].gen
         /\ [worker[w] EXCEPT !.pc = pc].attempt = worker[w].attempt
  BY DEF TypeOK, Instance, Idle

LEMMA PersistKeeps ==
  ASSUME IInv, NEW e \in outbox, PersistUploaded(e)
  PROVE  IInv'
<1> USE DEF IInv
<1>1. job' \in [Gens -> Job]
  <2>1. e.raw \in Nat /\ job \in [Gens -> Job]
    BY DEF TypeOK, Event
  <2>2. ASSUME NEW g \in Gens PROVE [job[g] EXCEPT !.state = "queued", !.raw = e.raw] \in Job
    BY <2>1 DEF Job, JobState
  <2> QED
    BY <2>1, <2>2 DEF PersistUploaded
<1>2. JobsGrow
  <2> SUFFICES ASSUME NEW g \in Gens
               PROVE  /\ job[g].state # "none" => job'[g].state # "none" /\ job'[g].raw = job[g].raw
                      /\ job[g].attempt <= job'[g].attempt
                      /\ job'[g].state # "none" => Uploaded(g, job'[g].raw) \in outbox
                      /\ job'[g].state = "succeeded" /\ ~raced /\ asset.gen = g => Settled
    BY DEF JobsGrow
  <2>0. job[g] \in Job /\ e \in Event
    BY DEF TypeOK
  <2>1. CASE job'[g] = job[g]
    BY <2>0, <2>1 DEF JobsHaveUploads, SucceededIsSettled, Settled, Job
  <2>2. CASE job'[g] # job[g]
    <3>1. /\ g = e.gen /\ job[g].state = "none"
          /\ job'[g].state = "queued" /\ job'[g].raw = e.raw /\ job'[g].attempt = job[g].attempt
      BY <2>0, <2>2 DEF PersistUploaded, TypeOK, Job
    <3>2. e = Uploaded(g, e.raw)
      BY <2>0, <3>1 DEF PersistUploaded, Event, Uploaded
    <3> QED
      BY <2>0, <3>1, <3>2 DEF Job
  <2> QED
    BY <2>1, <2>2
<1>3. \A w \in Workers : worker[w].pc # "idle" =>
          Begun(worker[w].gen, worker[w].attempt)'
  BY <1>2, AtWork DEF PersistUploaded, AttemptsBegun, Begun, JobsGrow, TypeOK, Job
<1>4. inbox' \subseteq outbox
  BY DEF PersistUploaded, JobsHaveUploads
<1> QED
  BY <1>1, <1>2, <1>3, <1>4, JobsMove DEF PersistUploaded, TypeOK

LEMMA ClaimKeeps ==
  ASSUME IInv, NEW w \in Workers, NEW g \in Gens, Claim(w, g)
  PROVE  IInv'
<1> USE DEF IInv
<1> DEFINE a == job[g].attempt + 1
<1>1. /\ job' \in [Gens -> Job]
      /\ \A x \in Gens \ {g} : job'[x] = job[x]
      /\ job'[g].state = "processing" /\ job'[g].raw = job[g].raw /\ job'[g].attempt = a
      /\ job[g].state # "none" /\ a \in Nat
  <2>1. job[g] \in Job /\ a \in Nat /\ job[g].state # "none"
    BY DEF Claim, Claimable, TypeOK, Job
  <2> DEFINE claimed == [job[g] EXCEPT !.state = "processing", !.attempt = @ + 1, !.lapsed = FALSE]
  <2>2. claimed \in Job /\ claimed.state = "processing" /\ claimed.raw = job[g].raw /\ claimed.attempt = a
    BY <2>1 DEF Job, JobState
  <2>3. job' = [job EXCEPT ![g] = claimed]
    BY DEF Claim
  <2> HIDE DEF claimed
  <2> QED
    BY <2>1, <2>2, <2>3 DEF TypeOK
<1>2. JobsGrow
  BY <1>1 DEF JobsGrow, JobsHaveUploads, SucceededIsSettled, Settled, TypeOK, Job
<1>3. /\ worker' \in [Workers -> Instance]
      /\ \A x \in Workers \ {w} : worker'[x] = worker[x]
      /\ worker'[w].pc = "starting" /\ worker'[w].gen = g /\ worker'[w].attempt = a
  BY <1>1 DEF Claim, TypeOK, Instance
<1>4. \A x \in Workers : worker'[x].pc # "idle" =>
          /\ Begun(worker[x].gen, worker[x].attempt)'
          /\ worker'[x].pc = "succeeding" => worker'[x] = worker[x]
  BY <1>1, <1>2, <1>3, AtWork DEF AttemptsBegun, Begun, JobsGrow, TypeOK, Job
<1>5. calls' \subseteq Call /\ \A c \in calls' : c \in calls \/ FreshCall(c)
  BY <1>1 DEF Claim, Sent, Call, TypeOK, FreshCall, Begun
<1> QED
  BY <1>1, <1>2, <1>3, <1>4, <1>5, JobsMove DEF Claim, TypeOK, JobsHaveUploads

\* An instance that goes on, or stops, with the attempt it has.
LEMMA WorkerMoves ==
  ASSUME IInv, NEW w \in Workers, worker[w].pc # "idle",
         NEW pc \in {"starting", "transcoding", "reporting", "erring", "confessing", "failing"},
         worker' \in {[worker EXCEPT ![w] = Idle], [worker EXCEPT ![w].pc = pc]},
         job' = job,
         UNCHANGED <<asset, uploadVars, outbox, catalog, inbox, unheard>>,
         media \subseteq media', media' \subseteq [gen: Gens, attempt: Nat, raw: Nat],
         calls' \subseteq Call, \A c \in calls' : c \in calls \/ FreshCall(c),
         faults' \in 0..MaxFaults
  PROVE  IInv'
<1> USE DEF IInv
<1>1. /\ worker' \in [Workers -> Instance]
      /\ \A x \in Workers \ {w} : worker'[x] = worker[x]
      /\ worker'[w] = Idle \/ (/\ worker'[w].pc # "succeeding" /\ worker'[w].gen = worker[w].gen
                               /\ worker'[w].attempt = worker[w].attempt)
  <2>0. pc \in {"starting", "transcoding", "reporting", "succeeding", "erring", "confessing",
                "failing"}
    OBVIOUS
  <2>1. /\ [worker[w] EXCEPT !.pc = pc] \in Instance
        /\ [worker[w] EXCEPT !.pc = pc].pc = pc
        /\ [worker[w] EXCEPT !.pc = pc].gen = worker[w].gen
        /\ [worker[w] EXCEPT !.pc = pc].attempt = worker[w].attempt
    BY <2>0, Working, Zenon
  <2>2. Idle \in Instance /\ pc # "succeeding"
    BY DEF Instance
  <2>3. CASE worker' = [worker EXCEPT ![w] = Idle]
    BY <2>2, <2>3 DEF TypeOK
  <2>4. CASE worker' = [worker EXCEPT ![w].pc = pc]
    <3> DEFINE moved == [worker[w] EXCEPT !.pc = pc]
    <3>1. worker' = [worker EXCEPT ![w] = moved]
      BY <2>4
    <3> HIDE DEF moved
    <3>2. moved \in Instance /\ moved.pc = pc /\ moved.gen = worker[w].gen
          /\ moved.attempt = worker[w].attempt
      BY <2>1 DEF moved
    <3> QED
      BY <2>2, <3>1, <3>2 DEF TypeOK
  <2> QED
    BY <2>3, <2>4
<1>2. \A x \in Workers : worker'[x].pc # "idle" =>
          /\ Begun(worker[x].gen, worker[x].attempt)'
          /\ worker'[x].pc = "succeeding" => worker'[x] = worker[x]
  BY <1>1 DEF AttemptsBegun, Begun, Idle
<1> QED
  BY <1>1, <1>2, JobsSame, JobsMove DEF TypeOK, JobsHaveUploads

\* The end of an attempt.  An attempt that succeeded has been noticed by the asset, and one
\* that a later attempt took over writes nothing.
LEMMA EndKeeps ==
  ASSUME IInv, NEW w \in Workers, worker[w].pc # "idle",
         NEW state \in {"retry_wait", "failed", "succeeded"},
         job' = JobAs(w, state), worker' = [worker EXCEPT ![w] = Idle],
         state = "succeeded" => worker[w].pc = "succeeding",
         UNCHANGED <<asset, uploadVars, media, outbox, catalog, inbox, calls, unheard, faults>>
  PROVE  IInv'
<1> USE DEF IInv
<1> DEFINE g == worker[w].gen
           ended == [job[g] EXCEPT !.state = state, !.lapsed = FALSE]
<1>0. /\ g \in Gens /\ worker[w].attempt \in Nat /\ job[g] \in Job
      /\ Begun(g, worker[w].attempt)
  BY AtWork DEF TypeOK, AttemptsBegun
<1>1. /\ ended \in Job /\ ended.state = state /\ ended.raw = job[g].raw
      /\ ended.attempt = job[g].attempt
  BY <1>0 DEF Job, JobState
<1>2. (job' = [job EXCEPT ![g] = ended] /\ job[g].attempt = worker[w].attempt) \/ job' = job
  BY DEF JobAs, HoldsToken
<1> HIDE DEF g, ended
<1>3. job' \in [Gens -> Job]
  BY <1>0, <1>1, <1>2 DEF TypeOK
<1>4. ASSUME job[g].attempt = worker[w].attempt, state = "succeeded", ~raced, asset.gen = g
      PROVE  Settled
  BY <1>0, <1>4 DEF SuccessNoticed, Noticed, AttemptsBegun, g, TypeOK, Asset
<1>5. JobsGrow
  <2>1. CASE job' = job
    BY <2>1, JobsSame
  <2>2. CASE job' = [job EXCEPT ![g] = ended] /\ job[g].attempt = worker[w].attempt
    <3>1. \A x \in Gens : job'[x] = IF x = g THEN ended ELSE job[x]
      BY <2>2 DEF TypeOK
    <3> QED
      BY <3>1, <2>2, <1>0, <1>1, <1>4
      DEF JobsGrow, Begun, JobsHaveUploads, SucceededIsSettled, Settled, TypeOK, Job
  <2> QED
    BY <1>2, <2>1, <2>2
<1>6. worker' \in [Workers -> Instance] /\ \A x \in Workers : worker'[x] \in {Idle, worker[x]}
  BY DEF TypeOK, Instance
<1>7. \A x \in Workers : worker'[x].pc # "idle" =>
          /\ Begun(worker[x].gen, worker[x].attempt)'
          /\ worker'[x].pc = "succeeding" => worker'[x] = worker[x]
  BY <1>3, <1>5, <1>6, AtWork DEF AttemptsBegun, Begun, JobsGrow, TypeOK, Job, Idle
<1> QED
  BY <1>3, <1>5, <1>6, <1>7, JobsMove DEF TypeOK, JobsHaveUploads

LEMMA RunKeeps ==
  ASSUME IInv, NEW w \in Workers, Run(w) \/ GiveUp(w) \/ Crash(w)
  PROVE  IInv'
<1> USE DEF IInv
<1>0. worker[w] # Idle => worker[w].pc # "idle"
  BY DEF TypeOK, Instance
<1>1. CASE Transcode(w)
  <2> DEFINE g == worker[w].gen
             a == worker[w].attempt
             c == Sent("transcoded", g, a)
             made == [gen |-> g, attempt |-> a, raw |-> job[g].raw]
  <2>1. worker[w].pc # "idle" /\ g \in Gens /\ a \in Nat /\ Begun(g, a) /\ job[g].raw \in Nat
    BY <1>1, AtWork DEF Transcode, At, AttemptsBegun, TypeOK, Job
  <2>2. media' = media \union {made} /\ calls' = calls \union {c} /\ job' = job
    BY <1>1 DEF Transcode
  <2>3. FreshCall(c) /\ c \in Call /\ made \in [gen: Gens, attempt: Nat, raw: Nat]
    BY <2>1, <2>2 DEF FreshCall, Sent, Call, Begun
  <2> HIDE DEF c, made
  <2>4. \A x \in calls' : x \in calls \/ FreshCall(x)
    BY <2>2, <2>3
  <2> QED
    BY <1>1, <2>1, <2>2, <2>3, <2>4, WorkerMoves DEF Transcode, TypeOK
<1>2. CASE TranscodeFails(w)
  BY <1>2, WorkerMoves DEF TranscodeFails, At, TypeOK
<1>3. CASE Succeed(w) \/ Retry(w) \/ Fail(w)
  BY <1>3, EndKeeps DEF Succeed, Retry, Fail, At
<1>4. CASE Confess(w)
  <2> DEFINE c == Sent("failed", worker[w].gen, worker[w].attempt)
  <2>1. /\ worker[w].pc # "idle" /\ worker[w].gen \in Gens /\ worker[w].attempt \in Nat
        /\ Begun(worker[w].gen, worker[w].attempt)
    BY <1>4, AtWork DEF Confess, At, AttemptsBegun
  <2>2. FreshCall(c) /\ c \in Call /\ calls' = calls \union {c}
    BY <1>4, <2>1 DEF Confess, LastAttempt, FreshCall, Sent, Call, Begun
  <2> HIDE DEF c
  <2>3. calls' \subseteq Call /\ \A x \in calls' : x \in calls \/ FreshCall(x)
    BY <2>2 DEF TypeOK
  <2> QED
    BY <1>4, <2>1, <2>3, WorkerMoves DEF Confess, TypeOK
<1>5. CASE Crash(w)
  <2>1. faults' \in 0..MaxFaults
    BY <1>5, MediaAssumption DEF Crash, Fault, TypeOK
  <2> QED
    BY <1>0, <1>5, <2>1, WorkerMoves DEF Crash, TypeOK
<1>6. CASE GiveUp(w)
  <2>1. faults' \in 0..MaxFaults
    BY <1>6, MediaAssumption DEF GiveUp, Fault, TypeOK
  <2>2. worker[w].pc # "idle"
    BY <1>6 DEF GiveUp, AfterAnswer
  <2>3. worker' = [worker EXCEPT ![w] = Idle] \/ worker' = [worker EXCEPT ![w].pc = "erring"]
        \/ worker' = [worker EXCEPT ![w].pc = "failing"]
    BY <1>6 DEF GiveUp, AfterAnswer, At
  <2> QED
    BY <1>6, <2>1, <2>2, <2>3, WorkerMoves DEF GiveUp, TypeOK
<1> QED
  BY <1>1, <1>2, <1>3, <1>4, <1>5, <1>6 DEF Run

LEMMA LapseKeeps ==
  ASSUME IInv, NEW g \in Gens, LeaseLapses(g)
  PROVE  IInv'
<1> USE DEF IInv
<1>0. faults' \in 0..MaxFaults
  BY MediaAssumption DEF LeaseLapses, Fault, TypeOK
<1>1. /\ job' \in [Gens -> Job]
      /\ \A x \in Gens : /\ job'[x].state = job[x].state /\ job'[x].raw = job[x].raw
                         /\ job'[x].attempt = job[x].attempt
  BY DEF LeaseLapses, TypeOK, Job
<1>2. JobsGrow
  BY <1>1 DEF JobsGrow, JobsHaveUploads, SucceededIsSettled, Settled, TypeOK, Job
<1>3. \A w \in Workers : worker'[w].pc # "idle" => Begun(worker[w].gen, worker[w].attempt)'
  BY <1>1, AtWork DEF LeaseLapses, AttemptsBegun, Begun
<1> QED
  BY <1>0, <1>1, <1>2, <1>3, JobsMove DEF LeaseLapses, TypeOK, JobsHaveUploads

(***************************************************************************)
(* The callbacks.                                                          *)
(***************************************************************************)
\* The row takes an outcome for itself, and what was noticed stays noticed.
LEMMA RowApplies ==
  ASSUME IInv, NEW c \in calls, asset' = IF Applies(c) THEN AssetAs(c) ELSE asset,
         UNCHANGED <<uploadVars, job>>
  PROVE  /\ asset' \in Asset /\ RowOK'
         /\ asset'.gen = asset.gen /\ asset'.raw = asset.raw /\ asset'.live = asset.live
         /\ asset'.status = asset.status \/ (Applies(c) /\ asset'.status = StatusOf[c.type])
         /\ \A g \in Gens, a \in Nat : Noticed(g, a) => Noticed(g, a)'
         /\ ~raced /\ c.type # "processing" => Noticed(c.gen, c.attempt)'
         /\ \A g \in Gens : asset.gen = g => asset'.attempt <= job[g].attempt
<1> USE DEF IInv
<1>0. c \in Call /\ c.gen \in Gens /\ c.attempt \in Nat /\ Begun(c.gen, c.attempt)
  BY CallTyped DEF AttemptsBegun
<1>1. ~raced => /\ asset.gen >= c.gen
                /\ asset.gen = c.gen => asset.status \notin {"absent", "upload_pending"}
  <2>1. Uploaded(c.gen, job[c.gen].raw) \in outbox
    BY <1>0 DEF Begun, JobsHaveUploads
  <2>2. ~raced => /\ c.gen <= asset.gen
                  /\ c.gen = asset.gen => asset.status # "upload_pending"
    BY <2>1 DEF UploadsBehind, Uploaded
  <2>3. asset.gen \in Nat /\ c.gen >= 1 /\ c.gen \in Nat
    BY <1>0 DEF TypeOK, Asset, Gens
  <2> QED
    BY <2>2, <2>3 DEF RowOK
<1>2. CASE Applies(c)
  <2>1. /\ asset' \in Asset /\ asset'.gen = asset.gen /\ asset'.raw = asset.raw
        /\ asset'.live = asset.live
        /\ asset'.status = StatusOf[c.type] /\ asset'.attempt = c.attempt
    <3>1. StatusOf[c.type] \in AssetStatus
      BY <1>0 DEF StatusOf, AssetStatus, Call
    <3>2. asset' = AssetAs(c)
      BY <1>2
    <3> QED
      BY <1>0, <3>1, <3>2 DEF AssetAs, TypeOK, Asset
  <2>2. StatusOf[c.type] \in {"processing", "ready", "failed"}
        /\ (c.type # "processing" => StatusOf[c.type] \in {"ready", "failed"})
    BY <1>0 DEF StatusOf, Call
  <2>3. RowOK'
    BY <1>2, <2>1, <2>2 DEF RowOK, Applies
  <2> QED
    BY <1>0, <1>2, <2>1, <2>2, <2>3
    DEF Applies, Noticed, Settled, AttemptsBegun, Begun, TypeOK, Asset, Gens
<1>3. CASE ~Applies(c)
  BY <1>0, <1>1, <1>3
  DEF Applies, Noticed, Settled, RowOK, AttemptsBegun, TypeOK, Asset, AssetStatus, Gens
<1> QED
  BY <1>2, <1>3

\* What a handler of callback c leaves behind is enough for the invariant.
LEMMA HandlerKeeps ==
  ASSUME IInv, NEW c \in calls,
         asset' \in {asset, IF Applies(c) THEN AssetAs(c) ELSE asset},
         UNCHANGED <<uploadVars, media, inbox, job>>,
         catalog' \in BOOLEAN, unheard' \subseteq Gens, faults' \in 0..MaxFaults,
         outbox \subseteq outbox', outbox' \subseteq Event,
         \A e \in outbox' : e.type = "video.uploaded" => e \in outbox,
         calls' \subseteq Call,
         \A x \in calls' : \/ x \in calls
                           \/ /\ x.type = c.type /\ x.gen = c.gen /\ x.attempt = c.attempt
                              /\ x.at = "reporting" => c.type = "transcoded"
                              /\ x.type = "transcoded" /\ ~raced => Noticed(x.gen, x.attempt)',
         worker' \in [Workers -> Instance],
         \A w \in Workers : \/ worker'[w] = worker[w]
                            \/ /\ worker[w].pc # "idle" /\ worker'[w].gen = worker[w].gen
                               /\ worker'[w].attempt = worker[w].attempt
                               /\ worker'[w].pc = "succeeding" /\ ~raced =>
                                      Noticed(worker[w].gen, worker[w].attempt)'
  PROVE  IInv'
<1> USE DEF IInv
<1>0. c \in Call /\ c.gen \in Gens /\ c.attempt \in Nat /\ Begun(c.gen, c.attempt)
  BY CallTyped DEF AttemptsBegun
<1>1. /\ asset' \in Asset /\ RowOK'
      /\ asset'.gen = asset.gen /\ asset'.raw = asset.raw
      /\ asset'.status = asset.status \/ (Applies(c) /\ asset'.status = StatusOf[c.type])
      /\ \A g \in Gens, a \in Nat : Noticed(g, a) => Noticed(g, a)'
      /\ \A g \in Gens : asset.gen = g => asset'.attempt <= job[g].attempt
  <2>1. CASE asset' = asset
    BY <2>1 DEF TypeOK, RowOK, Noticed, Settled, AttemptsBegun
  <2>2. CASE asset' = IF Applies(c) THEN AssetAs(c) ELSE asset
    BY <2>2, RowApplies
  <2> QED
    BY <2>1, <2>2
<1>2. TypeOK'
  BY <1>1 DEF TypeOK, uploadVars
<1>3. JobsHaveUploads'
  BY DEF JobsHaveUploads, Uploaded
<1>4. UploadsBehind'
  BY <1>0, <1>1 DEF UploadsBehind, uploadVars, StatusOf, Call
<1>5. AttemptsBegun'
  <2>1. \A w \in Workers : worker'[w] # Idle => worker[w] # Idle /\ worker'[w].gen = worker[w].gen
                                                /\ worker'[w].attempt = worker[w].attempt
    BY DEF Idle
  <2> QED
    BY <1>0, <1>1, <2>1 DEF AttemptsBegun, Begun
<1>6. ReportsTrue'
  BY <1>0 DEF ReportsTrue
<1>7. SuccessNoticed'
  <2> SUFFICES ASSUME ~raced PROVE SuccessNoticed'
    BY DEF SuccessNoticed, uploadVars
  <2>1. \A x \in calls' : x.type = "transcoded" /\ x.at # "sent" => Noticed(x.gen, x.attempt)'
    BY <1>1, CallTyped DEF SuccessNoticed
  <2>2. ASSUME NEW w \in Workers, worker'[w].pc = "succeeding"
        PROVE  Noticed(worker[w].gen, worker[w].attempt)'
    BY <1>1, <2>2, AtWork DEF SuccessNoticed, Noticed, Settled
  <2> QED
    BY <2>1, <2>2 DEF SuccessNoticed, Noticed, Settled
<1>8. ReadyServesUpload' /\ FailedIsExhausted' /\ SucceededIsSettled'
  <2>1. CASE asset' = asset
    BY <2>1 DEF ReadyServesUpload, FailedIsExhausted, SucceededIsSettled, uploadVars
  <2>2. CASE Applies(c) /\ asset' = AssetAs(c)
    <3>1. /\ asset'.gen = c.gen /\ asset'.attempt = c.attempt /\ asset'.raw = asset.raw
          /\ asset'.status = StatusOf[c.type] /\ asset.gen = c.gen
          /\ asset.status \notin {"ready", "failed"}
      BY <2>2 DEF Applies, AssetAs, TypeOK, Asset
    <3>2. ~raced => job[c.gen].raw = asset.raw
      BY <1>0, <3>1 DEF Begun, JobsHaveUploads, UploadsBehind, Uploaded
    <3>3. ReadyServesUpload'
      BY <1>0, <3>1, <3>2 DEF ReadyServesUpload, ReportsTrue, StatusOf, Call, uploadVars
    <3>4. FailedIsExhausted'
      <4> SUFFICES ASSUME c.type = "failed" PROVE job[c.gen].attempt >= MaxAttempts
        BY <1>0, <3>1 DEF FailedIsExhausted, StatusOf, Call
      <4>1. c.attempt >= MaxAttempts /\ c.attempt <= job[c.gen].attempt
        BY <1>0 DEF ReportsTrue, Begun
      <4>2. job[c.gen].attempt \in Nat
        BY <1>0 DEF TypeOK, Job
      <4> QED
        BY <1>0, <4>1, <4>2, MediaAssumption
    <3>5. SucceededIsSettled'
      BY <1>0, <3>1 DEF SucceededIsSettled, uploadVars
    <3> QED
      BY <3>3, <3>4, <3>5
  <2> QED
    BY <2>1, <2>2
<1> QED
  BY <1>1, <1>2, <1>3, <1>4, <1>5, <1>6, <1>7, <1>8

\* The answer reaches the instance that waits for it, or no one.
LEMMA Answered ==
  ASSUME TypeOK, NEW c \in calls, Answer(c)
  PROVE  /\ calls' \subseteq calls /\ calls' \subseteq Call
         /\ faults' \in 0..MaxFaults
         /\ worker' \in [Workers -> Instance]
         /\ \A w \in Workers : \/ worker'[w] = worker[w]
                               \/ /\ worker[w].pc # "idle" /\ worker'[w].gen = worker[w].gen
                                  /\ worker'[w].attempt = worker[w].attempt
                                  /\ worker'[w].pc = "succeeding" =>
                                        /\ c.type = "transcoded"
                                        /\ worker[w].gen = c.gen /\ worker[w].attempt = c.attempt
<1>1. calls' \subseteq calls /\ calls' \subseteq Call
  BY DEF Answer, TypeOK
<1>2. faults' \in 0..MaxFaults
  BY MediaAssumption DEF Answer, Fault, TypeOK
<1>3. CASE UNCHANGED worker
  BY <1>1, <1>2, <1>3 DEF TypeOK
<1>4. CASE worker' = [w \in Workers |-> IF Awaits(w, c) THEN [worker[w] EXCEPT !.pc = AfterAnswer[@]]
                                        ELSE worker[w]]
  <2>1. ASSUME NEW w \in Workers, Awaits(w, c)
        PROVE  /\ worker[w].pc # "idle" /\ worker[w].gen = c.gen /\ worker[w].attempt = c.attempt
               /\ AfterAnswer[worker[w].pc] \in {"transcoding", "succeeding", "failing"}
               /\ AfterAnswer[worker[w].pc] = "succeeding" => c.type = "transcoded"
    BY <2>1, CallTyped DEF Awaits, AfterAnswer, Call
  <2>2. ASSUME NEW w \in Workers, Awaits(w, c)
        PROVE  /\ worker'[w] \in Instance
               /\ worker'[w].pc = AfterAnswer[worker[w].pc]
               /\ worker'[w].gen = worker[w].gen /\ worker'[w].attempt = worker[w].attempt
    <3>1. worker'[w] = [worker[w] EXCEPT !.pc = AfterAnswer[worker[w].pc]]
      BY <1>4, <2>2
    <3>2. /\ worker[w].pc # "idle"
          /\ AfterAnswer[worker[w].pc] \in {"starting", "transcoding", "reporting", "succeeding",
                                            "erring", "confessing", "failing"}
      BY <2>1, <2>2
    <3> QED
      BY <3>1, <3>2 DEF TypeOK, Instance, Idle
  <2>3. \A w \in Workers : ~Awaits(w, c) => worker'[w] = worker[w] /\ worker'[w] \in Instance
    BY <1>4 DEF TypeOK
  <2>4. worker' \in [Workers -> Instance]
    BY <1>4, <2>2, <2>3
  <2> QED
    BY <1>1, <1>2, <2>1, <2>2, <2>3, <2>4
<1> QED
  BY <1>3, <1>4 DEF Answer

\* A handler that ends answers only what the row has noticed by then.
LEMMA EndOfHandler ==
  ASSUME IInv, NEW c \in calls, Answer(c),
         asset' \in {asset, IF Applies(c) THEN AssetAs(c) ELSE asset},
         c.type = "transcoded" /\ ~raced => Noticed(c.gen, c.attempt)',
         UNCHANGED <<uploadVars, media, inbox, job, catalog, unheard>>,
         outbox \subseteq outbox', outbox' \subseteq Event,
         \A e \in outbox' : e.type = "video.uploaded" => e \in outbox
  PROVE  IInv'
<1> USE DEF IInv
<1>1. /\ calls' \subseteq calls /\ calls' \subseteq Call
      /\ faults' \in 0..MaxFaults /\ worker' \in [Workers -> Instance]
  BY Answered
<1>2. ASSUME NEW w \in Workers
      PROVE  \/ worker'[w] = worker[w]
             \/ /\ worker[w].pc # "idle" /\ worker'[w].gen = worker[w].gen
                /\ worker'[w].attempt = worker[w].attempt
                /\ worker'[w].pc = "succeeding" /\ ~raced =>
                       Noticed(worker[w].gen, worker[w].attempt)'
  <2>1. \/ worker'[w] = worker[w]
        \/ /\ worker[w].pc # "idle" /\ worker'[w].gen = worker[w].gen
           /\ worker'[w].attempt = worker[w].attempt
           /\ worker'[w].pc = "succeeding" =>
                 c.type = "transcoded" /\ worker[w].gen = c.gen /\ worker[w].attempt = c.attempt
    BY Answered
  <2> QED
    BY <2>1 DEF Noticed, Settled
<1>3. catalog' \in BOOLEAN
  BY Zenon DEF TypeOK
<1>4. unheard' \subseteq Gens
  BY DEF TypeOK
<1> QED
  BY <1>1, <1>2, <1>3, <1>4, HandlerKeeps

LEMMA HandleKeeps ==
  ASSUME IInv, NEW c \in calls, Handle(c) \/ HandlingFails(c)
  PROVE  IInv'
<1> USE DEF IInv
<1>0. c \in Call /\ c.gen \in Gens /\ c.attempt \in Nat
  BY CallTyped
<1>1. CASE ApplyProcessing(c)
  BY <1>1, EndOfHandler DEF ApplyProcessing, TypeOK
<1>2. CASE ApplyOutcome(c)
  <2> DEFINE x == [c EXCEPT !.at = IF c.type = "transcoded" THEN "reporting" ELSE "announcing"]
  <2>1. /\ x \in Call /\ x.type = c.type /\ x.gen = c.gen /\ x.attempt = c.attempt
        /\ x.at = "reporting" => c.type = "transcoded"
    BY <1>0 DEF Call
  <2>2. ~raced => Noticed(c.gen, c.attempt)'
    BY <1>2, RowApplies DEF ApplyOutcome
  <2>3. calls' \subseteq Call /\ \A y \in calls' : y \in calls \/ y = x
    BY <1>2, <2>1 DEF ApplyOutcome, TypeOK
  <2> HIDE DEF x
  <2>4. \A y \in calls' : \/ y \in calls
                          \/ /\ y.type = c.type /\ y.gen = c.gen /\ y.attempt = c.attempt
                             /\ y.at = "reporting" => c.type = "transcoded"
                             /\ y.type = "transcoded" /\ ~raced => Noticed(y.gen, y.attempt)'
    BY <2>1, <2>2, <2>3 DEF Noticed, Settled
  <2> QED
    BY <1>2, <2>3, <2>4, HandlerKeeps DEF ApplyOutcome, TypeOK
<1>3. CASE IgnoreOutcome(c)
  <2>1. ~raced => Noticed(c.gen, c.attempt)'
    BY <1>3, RowApplies DEF IgnoreOutcome
  <2> QED
    BY <1>3, <2>1, EndOfHandler DEF IgnoreOutcome, TypeOK
<1>4. CASE ReportOwnedReady(c)
  <2> DEFINE x == [c EXCEPT !.at = "announcing"]
  <2>1. x \in Call /\ x.type = c.type /\ x.gen = c.gen /\ x.attempt = c.attempt /\ x.at = "announcing"
    BY <1>0 DEF Call
  <2>2. c.type = "transcoded" /\ ~raced => Noticed(c.gen, c.attempt)'
    BY <1>4 DEF ReportOwnedReady, SuccessNoticed, Noticed, Settled
  <2>3. calls' \subseteq Call /\ \A y \in calls' : y \in calls \/ y = x
    BY <1>4, <2>1 DEF ReportOwnedReady, TypeOK
  <2>4. catalog' \in BOOLEAN
    BY <1>4, Zenon DEF ReportOwnedReady
  <2> HIDE DEF x
  <2>5. \A y \in calls' : \/ y \in calls
                          \/ /\ y.type = c.type /\ y.gen = c.gen /\ y.attempt = c.attempt
                             /\ y.at = "reporting" => c.type = "transcoded"
                             /\ y.type = "transcoded" /\ ~raced => Noticed(y.gen, y.attempt)'
    BY <2>1, <2>2, <2>3 DEF Noticed, Settled
  <2> QED
    BY <1>4, <2>3, <2>4, <2>5, HandlerKeeps DEF ReportOwnedReady, TypeOK
<1>5. CASE WriteMediaOutbox(c)
  <2> DEFINE e == [type |-> IF c.type = "transcoded" THEN "video.ready" ELSE "video.transcode_failed",
                   gen |-> c.gen, raw |-> 0]
  <2>1. e \in Event /\ e.type # "video.uploaded" /\ outbox' = outbox \union {e}
    BY <1>0, <1>5 DEF WriteMediaOutbox, Event, Gens
  <2> HIDE DEF e
  <2>2. outbox \subseteq outbox' /\ outbox' \subseteq Event
        /\ \A y \in outbox' : y.type = "video.uploaded" => y \in outbox
    BY <2>1 DEF TypeOK
  <2>3. c.type = "transcoded" /\ ~raced => Noticed(c.gen, c.attempt)'
    BY <1>5 DEF WriteMediaOutbox, SuccessNoticed, Noticed, Settled
  <2> QED
    BY <1>5, <2>2, <2>3, EndOfHandler DEF WriteMediaOutbox
<1>6. CASE HandlingFails(c)
  <2>1. faults' \in 0..MaxFaults
    BY <1>6, MediaAssumption DEF HandlingFails, Fault, TypeOK
  <2>2. unheard' \subseteq Gens
    BY <1>0, <1>6 DEF HandlingFails, TypeOK
  <2> QED
    BY <1>6, <2>1, <2>2, HandlerKeeps DEF HandlingFails, TypeOK
<1> QED
  BY <1>1, <1>2, <1>3, <1>4, <1>5, <1>6 DEF Handle

(***************************************************************************)
(* The invariant and what follows from it.                                 *)
(***************************************************************************)
LEMMA InvInit == Init => IInv
<1> SUFFICES ASSUME Init PROVE IInv
  OBVIOUS
<1>1. TypeOK
  <2>1. asset \in Asset /\ job \in [Gens -> Job] /\ worker \in [Workers -> Instance]
    BY DEF Init, Asset, AssetStatus, Job, JobState, Instance
  <2>2. raced \in BOOLEAN /\ checked \in BOOLEAN /\ stored \in BOOLEAN /\ catalog \in BOOLEAN
    BY Zenon DEF Init
  <2>3. faults \in 0..MaxFaults
    BY MediaAssumption DEF Init
  <2> QED
    BY <2>1, <2>2, <2>3 DEF Init, TypeOK
<1>2. RowOK /\ JobsHaveUploads /\ UploadsBehind
  BY MediaAssumption DEF Init, RowOK, JobsHaveUploads, UploadsBehind
<1>3. AttemptsBegun /\ ReportsTrue /\ SuccessNoticed
  BY DEF Init, Idle, AttemptsBegun, ReportsTrue, SuccessNoticed, Gens
<1>4. ReadyServesUpload /\ FailedIsExhausted /\ SucceededIsSettled
  BY DEF Init, ReadyServesUpload, FailedIsExhausted, SucceededIsSettled
<1> QED
  BY <1>1, <1>2, <1>3, <1>4 DEF IInv

LEMMA InvStep == IInv /\ [Next]_vars => IInv'
<1> SUFFICES ASSUME IInv, [Next]_vars PROVE IInv'
  OBVIOUS
<1>1. CASE UNCHANGED vars
  BY <1>1 DEF IInv, vars, uploadVars, TypeOK, RowOK, JobsHaveUploads, Uploaded, UploadsBehind,
     AttemptsBegun, Begun, ReportsTrue, SuccessNoticed, Noticed, Settled, ReadyServesUpload,
     FailedIsExhausted, SucceededIsSettled
<1>2. CASE Next
  BY <1>2, UploadKeeps, PersistKeeps, ClaimKeeps, RunKeeps, LapseKeeps, HandleKeeps DEF Next
<1> QED
  BY <1>1, <1>2

\* The streaming service and the worker agree on which upload, job and attempt they speak of.
THEOREM MediaInvariant == Spec => []IInv
<1>1. QED
  BY InvInit, InvStep, PTL DEF Spec

\* Every variable keeps its type.
THEOREM TypeCorrect == Spec => []TypeOK
<1>1. IInv => TypeOK
  BY DEF IInv
<1>2. QED
  BY <1>1, MediaInvariant, PTL

\* Viewers of a ready asset get a complete manifest made of the object that the asset names.
THEOREM ReadyIsServable == Spec => []ReadyServesUpload
<1>1. IInv => ReadyServesUpload
  BY DEF IInv
<1>2. QED
  BY <1>1, MediaInvariant, PTL

\* An asset is given up only when its job has had all its attempts.
THEOREM GivenUpLast == Spec => []FailedIsExhausted
<1>1. IInv => FailedIsExhausted
  BY DEF IInv
<1>2. QED
  BY <1>1, MediaInvariant, PTL

\* No asset waits for a job that has succeeded.
THEOREM SuccessSettles == Spec => []SucceededIsSettled
<1>1. IInv => SucceededIsSettled
  BY DEF IInv
<1>2. QED
  BY <1>1, MediaInvariant, PTL

\* For one upload the attempt never goes back, and no callback changes a final outcome.
THEOREM OutcomeKept == Spec => OutcomeStands
<1> DEFINE Stands == asset'.raw = asset.raw =>
                         /\ asset'.attempt >= asset.attempt
                         /\ asset.status \in {"ready", "failed"} => asset' = asset
<1>1. IInv /\ [Next]_vars => [Stands]_vars
  <2> SUFFICES ASSUME IInv, Next PROVE Stands
    BY DEF IInv
  <2> USE DEF IInv
  <2>0. asset.raw \in Nat /\ asset.attempt \in Nat
    BY DEF TypeOK, Asset
  <2>1. CASE asset' = asset
    BY <2>0, <2>1
  <2>2. ASSUME NEW gen, asset' = NewUpload(gen) PROVE Stands
    BY <2>0, <2>2 DEF NewUpload
  <2>3. CASE UploadExpires \/ CompleteCommit
    <3>1. asset'.attempt = asset.attempt
      BY <2>3 DEF UploadExpires, CompleteCommit, TypeOK, Asset
    <3>2. asset.status = "upload_pending"
      BY <2>3 DEF UploadExpires, CompleteCommit, RowOK
    <3> QED
      BY <2>0, <3>1, <3>2
  <2>4. ASSUME NEW c \in calls, Applies(c), asset' = AssetAs(c) PROVE Stands
    BY <2>0, <2>4, CallTyped DEF Applies, AssetAs, TypeOK, Asset
  <2> QED
    BY <2>1, <2>2, <2>3, <2>4
    DEF Next, Upload, OpenFirstUpload, InsertFirstUpload, ReplaceUpload, PutObject, CompleteCheck,
        PersistUploaded, Claim, Run, Transcode, TranscodeFails, Succeed, Retry, Confess, Fail, GiveUp,
        Crash, LeaseLapses, Handle, ApplyProcessing, ApplyOutcome, IgnoreOutcome, ReportOwnedReady,
        WriteMediaOutbox, HandlingFails
<1>2. QED
  BY <1>1, MediaInvariant, PTL DEF Spec, OutcomeStands

-----------------------------------------------------------------------------
(***************************************************************************)
(* What waits is carried on: the safety half of QueuedSettles.             *)
(***************************************************************************)
\* The row waits for an event that was written, or for a job.
RowCarried ==
    /\ asset.status = "queued" /\ ~raced => Uploaded(asset.gen, asset.raw) \in outbox
    /\ asset.status = "processing" => job[asset.gen].state # "none"

\* What the worker has taken has a job, and a job is given up by an instance that had its
\* last attempt.
JobsCarry ==
    /\ \A e \in outbox : e.gen \in Gens
    /\ \A e \in inbox : job[e.gen].state # "none"
    /\ \A g \in Gens : job[g].state = "failed" => job[g].attempt >= MaxAttempts
    /\ \A w \in Workers :
          worker[w].pc \in {"confessing", "failing"} => worker[w].attempt >= MaxAttempts

JobsStay == \A g \in Gens : job[g].state # "none" => job'[g].state # "none"

\* No job is lost, and none is given up but after its last attempt.
LEMMA JobsOnly ==
  ASSUME IInv, JobsCarry,
         \A e \in outbox' : e.gen \in Gens,
         \A e \in inbox' : e \in inbox \/ job'[e.gen].state # "none",
         \A g \in Gens : \/ job'[g] = job[g]
                         \/ /\ job'[g].state # "none"
                            /\ job'[g].state = "failed" => job'[g].attempt >= MaxAttempts,
         \A w \in Workers : worker'[w].pc \in {"confessing", "failing"} =>
             worker'[w] = worker[w] \/ worker'[w].attempt >= MaxAttempts
  PROVE  JobsCarry' /\ JobsStay
<1>1. \A e \in inbox : e.gen \in Gens
  BY DEF IInv, JobsHaveUploads, JobsCarry
<1>2. \A g \in Gens : /\ job[g].state # "none" => job'[g].state # "none"
                      /\ job'[g].state = "failed" => job'[g].attempt >= MaxAttempts
  BY DEF JobsCarry
<1>3. \A e \in inbox' : job'[e.gen].state # "none"
  BY <1>1, <1>2 DEF JobsCarry
<1>4. \A w \in Workers :
          worker'[w].pc \in {"confessing", "failing"} => worker'[w].attempt >= MaxAttempts
  BY DEF JobsCarry
<1> QED
  BY <1>2, <1>3, <1>4 DEF JobsCarry, JobsStay

\* The instance and the job of an attempt, after a step of the instance.
LEMMA RunCarries ==
  ASSUME IInv, JobsCarry, NEW w \in Workers, Run(w) \/ GiveUp(w) \/ Crash(w)
  PROVE  JobsCarry' /\ JobsStay
<1> DEFINE g == worker[w].gen
<1>0. TypeOK /\ inbox' = inbox /\ outbox' = outbox
  BY DEF IInv, Run, Transcode, TranscodeFails, Succeed, Retry, Confess, Fail, GiveUp, Crash
<1>1. Idle.pc = "idle"
  BY DEF Idle
<1>2. ASSUME worker' = [worker EXCEPT ![w] = Idle],
             \A x \in Gens : \/ job'[x] = job[x]
                             \/ /\ job'[x].state # "none"
                                /\ job'[x].state = "failed" => job'[x].attempt >= MaxAttempts
      PROVE  JobsCarry' /\ JobsStay
  <2>1. \A v \in Workers : worker'[v] = worker[v] \/ worker'[v] = Idle
    BY <1>0, <1>2 DEF TypeOK
  <2>2. \A v \in Workers : worker'[v].pc \in {"confessing", "failing"} => worker'[v] = worker[v]
    BY <1>1, <2>1
  <2> QED
    BY <1>0, <1>2, <2>2, JobsOnly DEF JobsCarry
<1>3. ASSUME NEW pc, worker' = [worker EXCEPT ![w].pc = pc], worker[w].pc # "idle", job' = job,
             pc \in {"confessing", "failing"} => worker[w].attempt >= MaxAttempts
      PROVE  JobsCarry' /\ JobsStay
  <2> DEFINE moved == [worker[w] EXCEPT !.pc = pc]
  <2>1. moved.pc = pc /\ moved.attempt = worker[w].attempt
    BY <1>0, <1>3, AtWork DEF TypeOK, Instance
  <2>2. worker' = [worker EXCEPT ![w] = moved]
    BY <1>3
  <2> HIDE DEF moved
  <2>3. worker'[w] = moved /\ \A v \in Workers \ {w} : worker'[v] = worker[v]
    BY <1>0, <2>2 DEF TypeOK
  <2>4. \A v \in Workers : worker'[v].pc \in {"confessing", "failing"} =>
            worker'[v] = worker[v] \/ worker'[v].attempt >= MaxAttempts
    BY <1>3, <2>1, <2>3
  <2> QED
    BY <1>0, <1>3, <2>4, JobsOnly DEF JobsCarry
<1>4. CASE Transcode(w) \/ TranscodeFails(w) \/ Confess(w)
  <2>1. worker[w].pc # "idle" /\ job' = job
    BY <1>4 DEF Transcode, TranscodeFails, Confess, At
  <2>2. worker[w].attempt \in Nat
    BY <1>0, <2>1, AtWork
  <2>3. \/ worker' = [worker EXCEPT ![w].pc = "reporting"]
        \/ worker' = [worker EXCEPT ![w].pc = "erring"]
        \/ worker' = [worker EXCEPT ![w].pc = "confessing"] /\ worker[w].attempt >= MaxAttempts
    BY <1>4 DEF Transcode, TranscodeFails, Confess, LastAttempt
  <2> QED
    BY <1>3, <2>1, <2>3
<1>5. CASE Succeed(w) \/ Retry(w) \/ Fail(w)
  <2>1. /\ worker' = [worker EXCEPT ![w] = Idle] /\ worker[w].pc # "idle"
        /\ job' = JobAs(w, "succeeded") \/ job' = JobAs(w, "retry_wait")
           \/ (job' = JobAs(w, "failed") /\ worker[w].pc = "failing")
    BY <1>5 DEF Succeed, Retry, Fail, At
  <2>2. g \in Gens /\ job[g] \in Job
    BY <1>0, <2>1, AtWork DEF TypeOK
  <2>3. ASSUME NEW state \in {"succeeded", "retry_wait", "failed"}, job' = JobAs(w, state),
               state = "failed" => worker[w].pc = "failing"
        PROVE  JobsCarry' /\ JobsStay
    <3> DEFINE ended == [job[g] EXCEPT !.state = state, !.lapsed = FALSE]
    <3>1. ended.state = state /\ ended.attempt = job[g].attempt
      BY <2>2 DEF Job
    <3>2. job' = job \/ (job' = [job EXCEPT ![g] = ended] /\ job[g].attempt = worker[w].attempt)
      BY <2>3 DEF JobAs, HoldsToken
    <3> HIDE DEF ended
    <3>3. \A x \in Gens : \/ job'[x] = job[x]
                          \/ /\ job'[x].state # "none"
                             /\ job'[x].state = "failed" => job'[x].attempt >= MaxAttempts
      BY <1>0, <2>2, <2>3, <3>1, <3>2 DEF JobsCarry, TypeOK
    <3> QED
      BY <1>2, <2>1, <3>3
  <2> QED
    BY <2>1, <2>3
<1>6. CASE Crash(w)
  BY <1>2, <1>6 DEF Crash
<1>7. CASE GiveUp(w)
  <2>1. worker[w].pc # "idle" /\ job' = job
    BY <1>7 DEF GiveUp, AfterAnswer
  <2>2. \/ worker' = [worker EXCEPT ![w] = Idle]
        \/ worker' = [worker EXCEPT ![w].pc = "erring"]
        \/ worker' = [worker EXCEPT ![w].pc = "failing"] /\ worker[w].pc = "confessing"
    BY <1>7 DEF GiveUp, AfterAnswer, At
  <2> QED
    BY <1>2, <1>3, <2>1, <2>2 DEF JobsCarry
<1> QED
  BY <1>4, <1>5, <1>6, <1>7 DEF Run

\* An answer moves an instance on to what it does after the last attempt only from there.
LEMMA AnswerCarries ==
  ASSUME IInv, JobsCarry, NEW c \in calls, Answer(c), UNCHANGED <<inbox, job>>,
         \A e \in outbox' : e.gen \in Gens
  PROVE  JobsCarry' /\ JobsStay
<1>0. TypeOK
  BY DEF IInv
<1>1. CASE worker' = worker
  BY <1>1, JobsOnly
<1>2. CASE worker' = [w \in Workers |->
                       IF Awaits(w, c) THEN [worker[w] EXCEPT !.pc = AfterAnswer[@]] ELSE worker[w]]
  <2>1. ASSUME NEW w \in Workers, worker'[w].pc \in {"confessing", "failing"}
        PROVE  worker'[w] = worker[w] \/ worker'[w].attempt >= MaxAttempts
    <3>1. CASE ~Awaits(w, c)
      BY <1>2, <3>1
    <3>2. CASE Awaits(w, c)
      <4>1. worker'[w] = [worker[w] EXCEPT !.pc = AfterAnswer[@]] /\ worker[w] # Idle
        BY <1>2, <3>2 DEF Awaits
      <4>2. worker[w].pc \in {"starting", "reporting", "confessing"}
        BY <1>0, <3>2 DEF Awaits, TypeOK, Call
      <4>3. worker'[w].pc = AfterAnswer[worker[w].pc] /\ worker'[w].attempt = worker[w].attempt
        BY <1>0, <4>1, <4>2 DEF TypeOK, Instance, Idle
      <4>4. worker[w].pc = "confessing"
        BY <2>1, <4>2, <4>3 DEF AfterAnswer
      <4> QED
        BY <4>3, <4>4 DEF JobsCarry
    <3> QED
      BY <3>1, <3>2
  <2> QED
    BY <2>1, JobsOnly
<1> QED
  BY <1>1, <1>2 DEF Answer

LEMMA JobsCarryStep == ASSUME IInv, JobsCarry, [Next]_vars PROVE JobsCarry' /\ JobsStay
<1>0. TypeOK
  BY DEF IInv
<1>1. CASE Upload \/ UNCHANGED vars
  <2>1. inbox' = inbox /\ job' = job /\ worker' = worker
    BY <1>1 DEF Upload, OpenFirstUpload, InsertFirstUpload, ReplaceUpload, PutObject, UploadExpires,
       CompleteCheck, CompleteCommit, vars
  <2>2. outbox' = outbox \/ CompleteCommit
    BY <1>1 DEF Upload, OpenFirstUpload, InsertFirstUpload, ReplaceUpload, PutObject, UploadExpires,
       CompleteCheck, vars
  <2>3. CompleteCommit => asset.gen \in Gens
    BY DEF CompleteCommit, IInv, RowOK, Gens
  <2>4. \A e \in outbox' : e.gen \in Gens
    BY <2>2, <2>3 DEF CompleteCommit, JobsCarry
  <2> QED
    BY <2>1, <2>4, JobsOnly
<1>2. ASSUME NEW e \in outbox, PersistUploaded(e) PROVE JobsCarry' /\ JobsStay
  <2>1. /\ inbox' = inbox \union {e} /\ outbox' = outbox /\ worker' = worker /\ e.gen \in Gens
        /\ job[e.gen] \in Job
    BY <1>0, <1>2 DEF PersistUploaded, JobsCarry, TypeOK
  <2>2. /\ \A g \in Gens \ {e.gen} : job'[g] = job[g]
        /\ \/ job'[e.gen] = job[e.gen] /\ job[e.gen].state # "none"
           \/ job'[e.gen].state = "queued"
    BY <1>0, <1>2, <2>1 DEF PersistUploaded, TypeOK, Job
  <2> QED
    BY <2>1, <2>2, JobsOnly DEF JobsCarry
<1>3. ASSUME NEW w \in Workers, NEW g \in Gens, Claim(w, g) PROVE JobsCarry' /\ JobsStay
  <2>1. inbox' = inbox /\ outbox' = outbox
    BY <1>3 DEF Claim
  <2>2. \A x \in Gens : job'[x] = job[x] \/ job'[x].state = "processing"
    BY <1>0, <1>3 DEF Claim, TypeOK, Job
  <2>3. \A v \in Workers : worker'[v] = worker[v] \/ worker'[v].pc = "starting"
    BY <1>0, <1>3 DEF Claim, TypeOK
  <2> QED
    BY <2>1, <2>2, <2>3, JobsOnly DEF JobsCarry
<1>4. ASSUME NEW w \in Workers, Run(w) \/ GiveUp(w) \/ Crash(w) PROVE JobsCarry' /\ JobsStay
  BY <1>4, RunCarries
<1>5. ASSUME NEW g \in Gens, LeaseLapses(g) PROVE JobsCarry' /\ JobsStay
  <2>1. inbox' = inbox /\ outbox' = outbox /\ worker' = worker
    BY <1>5 DEF LeaseLapses
  <2>2. \A x \in Gens : job'[x] = job[x] \/ job'[x].state = "processing"
    BY <1>0, <1>5 DEF LeaseLapses, TypeOK, Job
  <2> QED
    BY <2>1, <2>2, JobsOnly DEF JobsCarry
<1>6. ASSUME NEW c \in calls, Handle(c) \/ HandlingFails(c) PROVE JobsCarry' /\ JobsStay
  <2>1. inbox' = inbox /\ job' = job
    BY <1>6 DEF Handle, HandlingFails, ApplyProcessing, ApplyOutcome, IgnoreOutcome, ReportOwnedReady,
       WriteMediaOutbox
  <2>2. outbox' = outbox \/ \E type : outbox' = outbox \union {[type |-> type, gen |-> c.gen, raw |-> 0]}
    BY <1>6 DEF Handle, HandlingFails, ApplyProcessing, ApplyOutcome, IgnoreOutcome, ReportOwnedReady,
       WriteMediaOutbox
  <2>3. \A e \in outbox' : e.gen \in Gens
    BY <1>0, <2>2, CallTyped DEF JobsCarry
  <2>4. Answer(c) \/ worker' = worker
    BY <1>6 DEF Handle, HandlingFails, ApplyProcessing, ApplyOutcome, IgnoreOutcome, ReportOwnedReady,
       WriteMediaOutbox
  <2> QED
    BY <2>1, <2>3, <2>4, AnswerCarries, JobsOnly
<1> QED
  BY <1>1, <1>2, <1>3, <1>4, <1>5, <1>6 DEF Next

LEMMA RowCarriedStep == ASSUME IInv, RowCarried, JobsCarry, [Next]_vars PROVE RowCarried'
<1>0. /\ asset.gen \in Gens \/ asset.status = "absent"
      /\ asset.live => asset.status = "upload_pending"
      /\ TypeOK
  BY DEF IInv, RowOK, Gens
<1>1. /\ outbox \subseteq outbox' /\ (raced => raced')
      /\ \A g \in Gens : job[g].state # "none" => job'[g].state # "none"
  <2>1. CASE Upload \/ UNCHANGED vars
    BY <2>1 DEF Upload, OpenFirstUpload, InsertFirstUpload, ReplaceUpload, PutObject, UploadExpires,
       CompleteCheck, CompleteCommit, uploadVars, vars
  <2>2. ASSUME NEW e \in outbox, PersistUploaded(e) PROVE outbox' = outbox /\ raced' = raced
    BY <2>2 DEF PersistUploaded, uploadVars
  <2>3. ASSUME NEW w \in Workers, NEW g \in Gens, Claim(w, g) PROVE outbox' = outbox /\ raced' = raced
    BY <2>3 DEF Claim, uploadVars
  <2>4. ASSUME NEW w \in Workers, Run(w) \/ GiveUp(w) \/ Crash(w)
        PROVE outbox' = outbox /\ raced' = raced
    BY <2>4 DEF Run, Transcode, TranscodeFails, Succeed, Retry, Confess, Fail, GiveUp, Crash, uploadVars
  <2>5. ASSUME NEW g \in Gens, LeaseLapses(g) PROVE outbox' = outbox /\ raced' = raced
    BY <2>5 DEF LeaseLapses, uploadVars
  <2>6. ASSUME NEW c \in calls, Handle(c) \/ HandlingFails(c)
        PROVE outbox \subseteq outbox' /\ raced' = raced
    BY <2>6 DEF Handle, HandlingFails, ApplyProcessing, ApplyOutcome, IgnoreOutcome, ReportOwnedReady,
       WriteMediaOutbox, uploadVars
  <2>7. outbox \subseteq outbox' /\ (raced => raced')
    BY <2>1, <2>2, <2>3, <2>4, <2>5, <2>6 DEF Next
  <2> QED
    BY <2>7, JobsCarryStep DEF JobsStay
<1>2. CASE asset' = asset
  BY <1>0, <1>1, <1>2 DEF RowCarried
<1>3. CASE \E gen : asset' = NewUpload(gen)
  BY <1>3 DEF NewUpload, RowCarried
<1>4. CASE UploadExpires
  <2>1. asset'.status = "upload_pending"
    BY <1>0, <1>4 DEF UploadExpires, TypeOK, Asset
  <2> QED
    BY <2>1 DEF RowCarried
<1>5. CASE CompleteCommit
  <2>1. asset'.status = "queued" /\ asset'.gen = asset.gen /\ asset'.raw = asset.raw
    BY <1>0, <1>5 DEF CompleteCommit, TypeOK, Asset
  <2>2. Uploaded(asset.gen, asset.raw) \in outbox'
    BY <1>5 DEF CompleteCommit, Uploaded
  <2> QED
    BY <2>1, <2>2 DEF RowCarried, Uploaded
<1>6. ASSUME NEW c \in calls, Applies(c), asset' = AssetAs(c) PROVE RowCarried'
  <2>1. c.gen \in Gens /\ asset.gen = c.gen /\ job[c.gen].state # "none" /\ c \in Call
    BY <1>0, <1>6, CallTyped DEF IInv, AttemptsBegun, Begun, Applies
  <2>2. asset'.gen = c.gen /\ asset'.status \in {"processing", "ready", "failed"}
    BY <1>0, <1>6, <2>1 DEF AssetAs, StatusOf, TypeOK, Asset, Call
  <2> QED
    BY <1>1, <2>1, <2>2 DEF RowCarried
<1> QED
  BY <1>2, <1>3, <1>4, <1>5, <1>6
  DEF Next, Upload, OpenFirstUpload, InsertFirstUpload, ReplaceUpload, PutObject, CompleteCheck,
      PersistUploaded, Claim, Run, Transcode, TranscodeFails, Succeed, Retry, Confess, Fail, GiveUp,
      Crash, LeaseLapses, Handle, ApplyProcessing, ApplyOutcome, IgnoreOutcome, ReportOwnedReady,
      WriteMediaOutbox, HandlingFails, vars

\* An asset that waits has an event that the worker has still to take, or a job of its own.
LEMMA CarriedOn == ASSUME IInv, RowCarried, JobsCarry PROVE WaitingIsCarried
<1> SUFFICES ASSUME asset.status \in {"queued", "processing"}, ~raced PROVE WaitingIsCarried
  BY DEF WaitingIsCarried
<1>0. TypeOK /\ asset.gen \in Gens
  BY DEF IInv, RowOK, Gens
<1> DEFINE g == asset.gen
           e == Uploaded(g, asset.raw)
<1>1. e.type = "video.uploaded" /\ e.gen = g /\ e.raw = asset.raw
  BY DEF Uploaded
<1>2. CASE job[g].state = "none"
  <2>1. e \in outbox
    BY <1>2 DEF RowCarried
  <2>2. e \notin inbox
    BY <1>1, <1>2 DEF JobsCarry
  <2> QED
    BY <1>1, <2>1, <2>2 DEF WaitingIsCarried
<1>3. CASE job[g].state # "none"
  <2>1. Uploaded(g, job[g].raw) \in outbox
    BY <1>0, <1>3 DEF IInv, JobsHaveUploads
  <2>2. job[g].raw = asset.raw
    BY <2>1 DEF IInv, UploadsBehind, Uploaded
  <2>3. job[g].state # "succeeded"
    BY <1>0 DEF IInv, SucceededIsSettled
  <2>4. job[g].state \in {"queued", "processing", "retry_wait", "failed"}
    BY <1>0, <1>3, <2>3 DEF TypeOK, Job, JobState
  <2> QED
    BY <1>0, <2>2, <2>4 DEF WaitingIsCarried, JobsCarry
<1> QED
  BY <1>2, <1>3

\* An upload that waits is carried on, whatever stops, lapses or is lost.
THEOREM WaitingCarriedOn == Spec => []WaitingIsCarried
<1>1. Init => IInv /\ RowCarried /\ JobsCarry
  <2>1. ASSUME Init PROVE RowCarried /\ JobsCarry
    BY <2>1 DEF Init, RowCarried, JobsCarry, Idle
  <2> QED
    BY <2>1, InvInit
<1>2. IInv /\ RowCarried /\ JobsCarry /\ [Next]_vars => IInv' /\ RowCarried' /\ JobsCarry'
  BY InvStep, RowCarriedStep, JobsCarryStep
<1>3. IInv /\ RowCarried /\ JobsCarry => WaitingIsCarried
  BY CarriedOn
<1> QED
  BY <1>1, <1>2, <1>3, PTL DEF Spec
=============================================================================
