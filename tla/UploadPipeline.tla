--------------------------- MODULE UploadPipeline ---------------------------
(***************************************************************************)
(* Upload onboarding: store rows, uploaded media, analysis jobs and the    *)
(* GPU workers that poll for them over HTTP.                               *)
(*                                                                         *)
(* The API side is DatabaseRepository (one transaction per operation, row  *)
(* lock with SKIP LOCKED in the claim) and the handlers of main.py; the    *)
(* worker side is main / process_claim of upload_job_worker.py.  An HTTP   *)
(* call can be lost before or after it takes effect (the worker sees an    *)
(* exception either way), a worker can crash anywhere, the API can abort   *)
(* an open claim, and a store can be deleted at any time.                  *)
(***************************************************************************)
EXTENDS Integers, FiniteSets

CONSTANTS Worker, NoWorker,
          MaxStores,      \* bound on store numbers (store-001, store-002, ...)
          MaxMedia,       \* bound on uploads
          MaxJobs,        \* bound on analysis jobs
          Frames,         \* frames a video or ZIP yields
          ProgressEvery,  \* progress is reported every so many frames (5)
          MaxFaults,      \* bound on lost HTTP calls and API aborts
          MaxCrashes,     \* bound on worker crashes
          MaxDeletes      \* bound on deleted stores

ASSUME WorkerAssumption == NoWorker \notin Worker
ASSUME BoundsAssumption ==
  /\ MaxStores \in Nat \ {0} /\ MaxMedia \in Nat /\ MaxJobs \in Nat
  /\ Frames \in Nat \ {0} /\ ProgressEvery \in Nat \ {0}
  /\ MaxFaults \in Nat /\ MaxCrashes \in Nat /\ MaxDeletes \in Nat

Store == 1..MaxStores
Media == 1..MaxMedia
Job   == 1..MaxJobs
FrameIndex == 0..(Frames - 1)

VARIABLES
  stores,     \* rows of the stores table
  uploading,  \* uploading[s]: upload handlers past their store_exists check
  media,      \* media[m]: store of an uploaded file's row, 0 if there is none
  uploads,    \* media rows inserted so far; ids are given in created_at order
  jobs,       \* jobs[j]: row of the analysis_jobs table
  handler,    \* handler[w]: the claim request the API is serving for w
  worker,     \* worker[w]: program counter and locals of a worker process
  cache,      \* cache[w][s]: job whose frames are in w's replay cache of s
  posted,     \* posted[j]: frames of job j whose state the API has stored
  unreadable, \* unreadable[j]: frames cv2 could not read, which are skipped
  faults, crashes, deletes

dbvars == <<stores, uploading, media, uploads>>
ghosts == <<posted, unreadable>>
bounds == <<faults, crashes, deletes>>
vars == <<dbvars, jobs, handler, worker, cache, ghosts, bounds>>

Live == {"queued", "running", "completed", "failed"}
Terminal == {"completed", "failed"}

\* Where process_claim and the polling loop around it can be.
Processing == {"start", "download", "extract", "extracted", "state",
               "occupancy", "report", "finish"}
PC == Processing \cup {"poll", "claiming", "failure", "dead"}

NoRow == [status |-> "none", store |-> 0, media |-> 0,
          owner |-> NoWorker, progress |-> 0]
Idle == [pc |-> "poll", job |-> 0, store |-> 0, frame |-> 0]
NoRequest == [step |-> "none", job |-> 0]

Init == /\ stores = Store
        /\ uploading = [s \in Store |-> 0]
        /\ media = [m \in Media |-> 0]
        /\ uploads = 0
        /\ jobs = [j \in Job |-> NoRow]
        /\ handler = [w \in Worker |-> NoRequest]
        /\ worker = [w \in Worker |-> Idle]
        /\ cache = [w \in Worker |-> [s \in Store |-> 0]]
        /\ posted = [j \in Job |-> {}]
        /\ unreadable = [j \in Job |-> {}]
        /\ faults = 0 /\ crashes = 0 /\ deletes = 0

\* One more lost call or aborted transaction.
Fault == faults < MaxFaults /\ faults' = faults + 1

-----------------------------------------------------------------------------
(* Dashboard and administrator *)

\* create_store: the number after the highest registered one, so the number
\* of a deleted last store is given again.
CreateStore(s) ==
  /\ s \notin stores
  /\ \A t \in stores : t < s
  /\ s = 1 \/ s - 1 \in stores
  /\ stores' = stores \cup {s}
  /\ UNCHANGED <<uploading, media, uploads, jobs, handler, worker, cache,
                 ghosts, bounds>>

\* upload_store_media up to the await that reads the body.
BeginUpload(s) ==
  /\ s \in stores
  /\ uploads + uploading[s] < MaxMedia
  /\ uploading' = [uploading EXCEPT ![s] = @ + 1]
  /\ UNCHANGED <<stores, media, uploads, jobs, handler, worker, cache,
                 ghosts, bounds>>

\* The rest of it: file, then row.  The store is not looked up again.
FinishUpload(s) ==
  /\ uploading[s] > 0
  /\ uploads < MaxMedia
  /\ uploading' = [uploading EXCEPT ![s] = @ - 1]
  /\ uploads' = uploads + 1
  /\ media' = [media EXCEPT ![uploads + 1] = s]
  /\ UNCHANGED <<stores, jobs, handler, worker, cache, ghosts, bounds>>

\* create_analysis_job: a medium of the store, named or the newest; the job
\* keeps its store and medium.  Job ids stand for the order of created_at.
CreateJob(j, m) ==
  /\ jobs[j].status = "none"
  /\ \A i \in Job : i < j => jobs[i].status # "none"
  /\ media[m] # 0
  /\ jobs' = [jobs EXCEPT ![j] = [status |-> "queued", store |-> media[m],
                                  media |-> m, owner |-> NoWorker,
                                  progress |-> 0]]
  /\ UNCHANGED <<dbvars, handler, worker, cache, ghosts, bounds>>

\* Mutant of DeleteStore: the jobs are left behind (no cascade).
DeleteStoreKeepsJobs(s) ==
  /\ s \in stores
  /\ deletes < MaxDeletes
  /\ media' = [m \in Media |-> IF media[m] = s THEN 0 ELSE media[m]]
  /\ stores' = stores \ {s}
  /\ deletes' = deletes + 1
  /\ UNCHANGED <<uploading, uploads, jobs, handler, worker, cache, ghosts,
                 faults, crashes>>

\* delete_store: jobs, media and the store in one transaction, which waits
\* for the row locks of open claims.
DeleteStore(s) ==
  /\ s \in stores
  /\ deletes < MaxDeletes
  /\ \A w \in Worker :
       handler[w].step = "locked" => jobs[handler[w].job].store # s
  /\ jobs' = [j \in Job |->
                IF jobs[j].status \in Live /\ jobs[j].store = s
                THEN [jobs[j] EXCEPT !.status = "deleted"] ELSE jobs[j]]
  /\ media' = [m \in Media |-> IF media[m] = s THEN 0 ELSE media[m]]
  /\ stores' = stores \ {s}
  /\ deletes' = deletes + 1
  /\ UNCHANGED <<uploading, uploads, handler, worker, cache, ghosts, faults,
                 crashes>>

-----------------------------------------------------------------------------
(* Claiming *)
\* Mutant of Locked: the SELECT takes no row lock.
NeverLocked(j) == j \notin Job

Locked(j) == \E w \in Worker : handler[w].step = "locked" /\ handler[w].job = j
\* The row the claim's SELECT ... SKIP LOCKED LIMIT 1 returns.
Oldest(j) == /\ jobs[j].status = "queued" /\ ~Locked(j)
             /\ \A i \in Job : jobs[i].status = "queued" /\ ~Locked(i) => j <= i

\* The worker polls and the API's transaction locks the oldest queued row.
\* (With no such row the answer is 404 and the worker polls again.)
PollAndLock(w, j) ==
  /\ worker[w].pc = "poll"
  /\ handler[w].step = "none"
  /\ Oldest(j)
  /\ handler' = [handler EXCEPT ![w] = [step |-> "locked", job |-> j]]
  /\ worker' = [worker EXCEPT ![w].pc = "claiming"]
  /\ UNCHANGED <<dbvars, jobs, cache, ghosts, bounds>>

Handed(row, w) == [row EXCEPT !.status = "running", !.owner = w]

CommitClaim(w) ==
  /\ handler[w].step = "locked"
  /\ handler' = [handler EXCEPT ![w].step = "committed"]
  /\ jobs' = [jobs EXCEPT ![handler[w].job] = Handed(jobs[handler[w].job], w)]
  /\ UNCHANGED <<dbvars, worker, cache, ghosts, bounds>>

\* The API process dies, or the database refuses, before the commit.
AbortClaim(w) ==
  /\ handler[w].step = "locked"
  /\ Fault
  /\ handler' = [handler EXCEPT ![w] = NoRequest]
  /\ worker' = [worker EXCEPT ![w].pc = IF @ = "claiming" THEN "poll" ELSE @]
  /\ UNCHANGED <<dbvars, jobs, cache, ghosts, crashes, deletes>>

\* After the commit the handler looks the medium up.  A job without one is
\* answered with 404, which the worker reads as "nothing queued".
Claimed(w, j) == IF media[jobs[j].media] # 0
                 THEN [pc |-> "start", job |-> j, store |-> jobs[j].store,
                       frame |-> 0]
                 ELSE Idle

AnswerClaim(w) ==
  /\ handler[w].step = "committed"
  /\ handler' = [handler EXCEPT ![w] = NoRequest]
  /\ worker' = [worker EXCEPT ![w] =
                  IF @.pc = "claiming" THEN Claimed(w, handler[w].job) ELSE @]
  /\ UNCHANGED <<dbvars, jobs, cache, ghosts, bounds>>

\* Mutant of LoseClaimAnswer: the API puts an unanswered claim back.
RequeueOnLostAnswer(w) ==
  /\ handler[w].step = "committed"
  /\ worker[w].pc = "claiming"
  /\ Fault
  /\ handler' = [handler EXCEPT ![w] = NoRequest]
  /\ worker' = [worker EXCEPT ![w] = Idle]
  /\ jobs' = [jobs EXCEPT ![handler[w].job].status = "queued"]
  /\ UNCHANGED <<dbvars, cache, ghosts, crashes, deletes>>

\* The answer is lost: the claim stands, the worker sleeps and polls again.
LoseClaimAnswer(w) ==
  /\ handler[w].step = "committed"
  /\ worker[w].pc = "claiming"
  /\ Fault
  /\ handler' = [handler EXCEPT ![w] = NoRequest]
  /\ worker' = [worker EXCEPT ![w] = Idle]
  /\ UNCHANGED <<dbvars, jobs, cache, ghosts, crashes, deletes>>

-----------------------------------------------------------------------------
(* Processing a claim *)
\* Percentage report_progress sends after n frames.
Percent(n) == LET p == 15 + (80 * n) \div Frames IN IF p > 98 THEN 98 ELSE p

\* Mutant of Reported: a failure report resets the progress.
ReportedResetting(row, w, st, pct) ==
  [row EXCEPT !.status = st, !.owner = w, !.progress = pct]

\* A PATCH of worker w on its job.  If the row is there the update is
\* unconditional: no guard on its current status.  A missing row (404) and a
\* lost call are exceptions, and a lost call may have taken effect.
Reported(row, w, st, pct) ==
  [row EXCEPT !.status = st, !.owner = w,
              !.progress = IF st = "failed" THEN row.progress ELSE pct]

Written(w, st, pct) ==
  [jobs EXCEPT ![worker[w].job] = Reported(jobs[worker[w].job], w, st, pct)]

Exists(w) == jobs[worker[w].job].status \in Live

Patch(w, st, pct, next, onError) ==
  \/ /\ Exists(w)
     /\ jobs' = Written(w, st, pct)
     /\ worker' = [worker EXCEPT ![w] = next]
     /\ UNCHANGED faults
  \/ /\ ~Exists(w)
     /\ worker' = [worker EXCEPT ![w] = onError]
     /\ UNCHANGED <<jobs, faults>>
  \/ /\ Fault
     /\ worker' = [worker EXCEPT ![w] = onError]
     /\ \/ UNCHANGED jobs
        \/ Exists(w) /\ jobs' = Written(w, st, pct)

At(w, pc) == worker[w].pc = pc
Go(w, pc) == [worker[w] EXCEPT !.pc = pc]
Failure(w) == Go(w, "failure")

StartJob(w) ==
  /\ At(w, "start")
  /\ Patch(w, "running", 5, Go(w, "download"), Failure(w))
  /\ UNCHANGED <<dbvars, handler, cache, ghosts, crashes, deletes>>

\* GET .../media answers 404 when the job or its medium is gone.
Download(w) ==
  /\ At(w, "download")
  /\ \/ /\ Exists(w) /\ media[jobs[worker[w].job].media] # 0
        /\ worker' = [worker EXCEPT ![w] = Go(w, "extract")]
        /\ UNCHANGED faults
     \/ /\ ~(Exists(w) /\ media[jobs[worker[w].job].media] # 0)
        /\ worker' = [worker EXCEPT ![w] = Failure(w)]
        /\ UNCHANGED faults
     \/ /\ Fault
        /\ worker' = [worker EXCEPT ![w] = Failure(w)]
  /\ UNCHANGED <<dbvars, jobs, handler, cache, ghosts, crashes, deletes>>

\* extract_frames raises on a file without frames; otherwise cache_frames
\* replaces the store's replay cache before the API hears of it.
Extract(w) ==
  /\ At(w, "extract")
  /\ \/ /\ cache' = [cache EXCEPT ![w][worker[w].store] = worker[w].job]
        /\ worker' = [worker EXCEPT ![w] = Go(w, "extracted")]
     \/ /\ worker' = [worker EXCEPT ![w] = Failure(w)]
        /\ UNCHANGED cache
  /\ UNCHANGED <<dbvars, jobs, handler, ghosts, bounds>>

ReportExtracted(w) ==
  /\ At(w, "extracted")
  /\ Patch(w, "running", 15, Go(w, "state"), Failure(w))
  /\ UNCHANGED <<dbvars, handler, cache, ghosts, crashes, deletes>>

\* Mutant of NextFrame: the pass ends one frame early.
NextFrameShort(w) == IF worker[w].frame + 2 < Frames
                     THEN [worker[w] EXCEPT !.pc = "state", !.frame = @ + 1]
                     ELSE Go(w, "finish")

\* The next frame, or the end of the pass.
NextFrame(w) == IF worker[w].frame + 1 < Frames
                THEN [worker[w] EXCEPT !.pc = "state", !.frame = @ + 1]
                ELSE Go(w, "finish")

\* An unreadable frame is skipped: nothing is posted, no progress reported.
SkipFrame(w) ==
  /\ At(w, "state")
  /\ unreadable' = [unreadable EXCEPT ![worker[w].job] = @ \cup {worker[w].frame}]
  /\ worker' = [worker EXCEPT ![w] = NextFrame(w)]
  /\ UNCHANGED <<dbvars, jobs, handler, cache, posted, bounds>>

\* POST /internal/store-states: accepted for any store id.
PostState(w) ==
  LET stored == [posted EXCEPT ![worker[w].job] = @ \cup {worker[w].frame}] IN
  /\ At(w, "state")
  /\ \/ /\ posted' = stored
        /\ worker' = [worker EXCEPT ![w] = Go(w, "occupancy")]
        /\ UNCHANGED faults
     \/ /\ Fault
        /\ posted' \in {posted, stored}
        /\ worker' = [worker EXCEPT ![w] = Failure(w)]
  /\ UNCHANGED <<dbvars, jobs, handler, cache, unreadable, crashes, deletes>>

\* POST .../occupancy: 404 for a store that is not registered.  Progress is
\* reported for every ProgressEvery-th frame and for the last one.
PostOccupancy(w) ==
  LET f == worker[w].frame
      reports == f % ProgressEvery = 0 \/ f + 1 = Frames IN
  /\ At(w, "occupancy")
  /\ \/ /\ worker[w].store \in stores
        /\ worker' = [worker EXCEPT ![w] =
                        IF reports THEN Go(w, "report") ELSE NextFrame(w)]
        /\ UNCHANGED faults
     \/ /\ worker[w].store \notin stores
        /\ worker' = [worker EXCEPT ![w] = Failure(w)]
        /\ UNCHANGED faults
     \/ /\ Fault
        /\ worker' = [worker EXCEPT ![w] = Failure(w)]
  /\ UNCHANGED <<dbvars, jobs, handler, cache, ghosts, crashes, deletes>>

ReportProgress(w) ==
  /\ At(w, "report")
  /\ Patch(w, "running", Percent(worker[w].frame + 1), NextFrame(w), Failure(w))
  /\ UNCHANGED <<dbvars, handler, cache, ghosts, crashes, deletes>>

\* Mutant of ReportCompleted: on an error the job is done over.
CompletedOrRetry(w) ==
  /\ At(w, "finish")
  /\ Patch(w, "completed", 100, Idle, [Go(w, "start") EXCEPT !.frame = 0])
  /\ UNCHANGED <<dbvars, handler, cache, ghosts, crashes, deletes>>

ReportCompleted(w) ==
  /\ At(w, "finish")
  /\ Patch(w, "completed", 100, Idle, Failure(w))
  /\ UNCHANGED <<dbvars, handler, cache, ghosts, crashes, deletes>>

\* Mutant of ReportFailure: the failure is logged and not reported.
FailureUnreported(w) ==
  /\ At(w, "failure")
  /\ worker' = [worker EXCEPT ![w] = Idle]
  /\ UNCHANGED <<dbvars, jobs, handler, cache, ghosts, bounds>>

\* The except branch of the loop: its own PATCH is not guarded, so an error
\* there ends the process.
ReportFailure(w) ==
  /\ At(w, "failure")
  /\ Patch(w, "failed", 0, Idle, [Idle EXCEPT !.pc = "dead"])
  /\ UNCHANGED <<dbvars, handler, cache, ghosts, crashes, deletes>>

\* Power, OOM, Ctrl-C: memory is lost, the replay cache on disk is not.
Crash(w) ==
  /\ worker[w].pc # "dead"
  /\ crashes < MaxCrashes
  /\ crashes' = crashes + 1
  /\ worker' = [worker EXCEPT ![w] = [Idle EXCEPT !.pc = "dead"]]
  /\ UNCHANGED <<dbvars, jobs, handler, cache, ghosts, faults, deletes>>

\* An operator starts the worker again.
Restart(w) ==
  /\ At(w, "dead")
  /\ worker' = [worker EXCEPT ![w] = Idle]
  /\ UNCHANGED <<dbvars, jobs, handler, cache, ghosts, bounds>>

-----------------------------------------------------------------------------
ClientStep == \/ \E s \in Store : CreateStore(s) \/ BeginUpload(s)
                                  \/ FinishUpload(s) \/ DeleteStore(s)
              \/ \E j \in Job, m \in Media : CreateJob(j, m)

ApiStep(w) == CommitClaim(w) \/ AbortClaim(w) \/ AnswerClaim(w)
              \/ LoseClaimAnswer(w)

WorkerStep(w) == \/ \E j \in Job : PollAndLock(w, j)
                 \/ StartJob(w) \/ Download(w) \/ Extract(w)
                 \/ ReportExtracted(w) \/ SkipFrame(w) \/ PostState(w)
                 \/ PostOccupancy(w) \/ ReportProgress(w)
                 \/ ReportCompleted(w) \/ ReportFailure(w)

Next == \/ ClientStep
        \/ \E w \in Worker : ApiStep(w) \/ WorkerStep(w) \/ Crash(w) \/ Restart(w)

Spec == Init /\ [][Next]_vars

\* A running process takes its next step and the API finishes what it
\* serves.  Nobody is obliged to upload, to delete, or to restart a worker.
Fairness == \A w \in Worker : WF_vars(ApiStep(w)) /\ WF_vars(WorkerStep(w))

FairSpec == Spec /\ Fairness

-----------------------------------------------------------------------------
(* Properties *)

Row == [status: Live \cup {"none", "deleted"}, store: 0..MaxStores,
        media: 0..MaxMedia, owner: Worker \cup {NoWorker}, progress: 0..100]

\* Every variable has its type.
TypeOK ==
  /\ stores \subseteq Store
  /\ uploading \in [Store -> Nat]
  /\ media \in [Media -> 0..MaxStores]
  /\ uploads \in 0..MaxMedia
  /\ jobs \in [Job -> Row]
  /\ handler \in [Worker -> [step: {"none", "locked", "committed"}, job: 0..MaxJobs]]
  /\ worker \in [Worker -> [pc: PC, job: 0..MaxJobs, store: 0..MaxStores,
                            frame: FrameIndex]]
  /\ cache \in [Worker -> [Store -> 0..MaxJobs]]
  /\ posted \in [Job -> SUBSET FrameIndex]
  /\ unreadable \in [Job -> SUBSET FrameIndex]
  /\ faults \in 0..MaxFaults /\ crashes \in 0..MaxCrashes /\ deletes \in 0..MaxDeletes

Working(w) == worker[w].pc \in Processing \cup {"failure"}

\* The claim that worker w, or the handler serving it, has on job j.
Holds(w, j) == \/ Working(w) /\ worker[w].job = j
               \/ handler[w].step # "none" /\ handler[w].job = j

\* SKIP LOCKED with the status change in one transaction hands a job to one
\* worker: no two workers process it, or are being answered with it, whatever
\* claims, crashes and lost answers came before.
ExclusiveProcessing ==
  \A j \in Job : \A v, w \in Worker : Holds(v, j) /\ Holds(w, j) => v = w

\* A job the API shows as completed had every frame of its upload stored as a
\* store state (or skipped as unreadable), and its frames are in the replay
\* cache of the worker that did it, for the auto-replay to loop.
CompletedIsComplete ==
  \A j \in Job : jobs[j].status = "completed" =>
    /\ posted[j] \cup unreadable[j] = FrameIndex
    /\ cache[jobs[j].owner][jobs[j].store] # 0

\* A job that can be listed, claimed or downloaded has its medium, and the
\* medium is of the job's own store: the foreign key, delete_store and the
\* check in create_analysis_job together, with uploads that outlive a store.
JobHasItsMedia ==
  \A j \in Job : jobs[j].status \in Live =>
    jobs[j].media \in Media /\ media[jobs[j].media] = jobs[j].store

\* A finished job is not reported running, nor a completed one failed, unless
\* an HTTP call was lost; a failed one is final in any case (the unguarded
\* UPDATE of update_analysis_job never does harm by itself).
FinishedStays ==
  [][\A j \in Job :
       /\ jobs[j].status \in Terminal =>
            jobs'[j].status \in Terminal \cup {"deleted"}
       /\ jobs[j].status = "failed" => jobs'[j].status # "completed"
       /\ jobs[j].status = "completed" /\ jobs'[j].status = "failed"
            => faults > 0]_vars

\* The progress bar of a job never goes back, over every report of a run.
ProgressOnlyGrows == [][\A j \in Job : jobs'[j].progress >= jobs[j].progress]_vars

\* The job table, seen through its rows, is the abstract job queue.
Queue == INSTANCE AnalysisQueue WITH
           status <- [j \in Job |-> jobs[j].status],
           owner  <- [j \in Job |-> jobs[j].owner]
ImplementsQueue == Queue!QueueSpec

\* With no lost call and no deletion every queued job is finished, unless a
\* worker crashed (no lease gives the job of a crashed worker to another).
QueuedIsFinished ==
  \A j \in Job : jobs[j].status = "queued" ~>
                   jobs[j].status \in Terminal \/ crashes > 0

\* One worker's crash does not hold the queue up as long as another runs: a
\* queued job is claimed, also after an aborted claim left it in the queue.
QueuedIsClaimed ==
  \A j \in Job : jobs[j].status = "queued" ~> jobs[j].status # "queued"

\* The queue is emptied, and without crashes every job in it is finished.
QueueIsEmptied == QueuedIsClaimed /\ QueuedIsFinished

=============================================================================
