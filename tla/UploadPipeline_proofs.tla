----------------------- MODULE UploadPipeline_proofs -----------------------
(***************************************************************************)
(* Machine-checked safety of UploadPipeline for every number of workers,   *)
(* stores, media, jobs, frames and failures.  The inductive invariant IInv *)
(* says who holds a job row (HandlerInv, WorkerInv), how far a pass over   *)
(* the frames has come (FrameInv), and that media rows are given out in    *)
(* order (UploadInv); the listed properties follow from it.                *)
(***************************************************************************)
EXTENDS UploadPipeline, TLAPS

\* A claim holding the row lock sees a queued row; after its commit the row
\* is its worker's.  A worker processes nothing while it is being served.
HandlerInv ==
  \A w \in Worker :
    /\ handler[w].step # "none" => ~Working(w)
    /\ handler[w].step = "locked" =>
         /\ handler[w].job \in Job
         /\ jobs[handler[w].job].status = "queued"
    /\ handler[w].step = "committed" =>
         /\ handler[w].job \in Job
         /\ jobs[handler[w].job].owner = w
         /\ jobs[handler[w].job].status \in {"running", "deleted"}
         /\ jobs[handler[w].job].store \in Store

\* A worker that processes a job owns its row (OwnRow) and knows its store.
WorkerInv ==
  \A w \in Worker : Working(w) =>
    /\ worker[w].job \in Job
    /\ worker[w].store \in Store
    /\ worker[w].store = jobs[worker[w].job].store
    /\ jobs[worker[w].job].owner = w
    /\ \/ jobs[worker[w].job].status \in {"running", "deleted"}
       \/ /\ jobs[worker[w].job].status \in Terminal
          /\ worker[w].pc = "failure"
          /\ faults > 0

Done(j) == posted[j] \cup unreadable[j]

\* Frames before the current one are done, the current one too once its
\* state is posted, and the frames are cached from Extract on.
FrameInv ==
  \A w \in Worker :
    /\ worker[w].pc = "state" =>
         \A f \in FrameIndex : f < worker[w].frame => f \in Done(worker[w].job)
    /\ worker[w].pc \in {"occupancy", "report"} =>
         \A f \in FrameIndex : f <= worker[w].frame => f \in Done(worker[w].job)
    /\ worker[w].pc = "finish" =>
         \A f \in FrameIndex : f \in Done(worker[w].job)
    /\ worker[w].pc \in {"start", "download", "extract", "extracted"} =>
         worker[w].frame = 0
    /\ worker[w].pc \in {"extracted", "state", "occupancy", "report", "finish"} =>
         cache[w][worker[w].store] # 0

\* A completed row was completed by its owner, with everything done.
CompletedInv ==
  \A j \in Job : jobs[j].status = "completed" =>
    /\ jobs[j].owner \in Worker
    /\ jobs[j].store \in Store
    /\ \A f \in FrameIndex : f \in Done(j)
    /\ cache[jobs[j].owner][jobs[j].store] # 0

\* Media ids are given in order; a live row refers to a medium of its store.
UploadInv ==
  /\ \A m \in Media : m > uploads => media[m] = 0
  /\ \A j \in Job : jobs[j].status \in Live =>
       /\ jobs[j].media \in Media
       /\ jobs[j].store \in Store
       /\ media[jobs[j].media] = jobs[j].store

IInv == /\ TypeOK
        /\ HandlerInv
        /\ WorkerInv
        /\ ExclusiveProcessing
        /\ FrameInv
        /\ CompletedInv
        /\ UploadInv

-----------------------------------------------------------------------------
(* Facts about the operators the actions are built from *)

WorkerRecord == [pc: PC, job: 0..MaxJobs, store: 0..MaxStores, frame: FrameIndex]

LEMMA PercentRange == \A n \in Nat : Percent(n) \in 0..100
BY BoundsAssumption, SMTT(30) DEF Percent

\* What FrameInv asks of a worker record r when the frames in D are done and
\* the cache entry of its store is c.
FramesDone(r, D, c) ==
  /\ r.pc = "state" => \A f \in FrameIndex : f < r.frame => f \in D
  /\ r.pc \in {"occupancy", "report"} =>
       \A f \in FrameIndex : f <= r.frame => f \in D
  /\ r.pc = "finish" => \A f \in FrameIndex : f \in D
  /\ r.pc \in {"start", "download", "extract", "extracted"} => r.frame = 0
  /\ r.pc \in {"extracted", "state", "occupancy", "report", "finish"} => c # 0

\* A PATCH preserves the invariant when it moves its worker somewhere that
\* still belongs to the same job, or lets go of it.
LEMMA PatchStep ==
  ASSUME IInv, NEW w \in Worker, Working(w),
         NEW st \in {"running", "completed", "failed"}, NEW pct \in 0..100,
         NEW next \in WorkerRecord, NEW onError \in WorkerRecord,
         Patch(w, st, pct, next, onError),
         UNCHANGED <<dbvars, handler, cache, ghosts, crashes, deletes>>,
         next.pc \in Processing =>
           /\ next.job = worker[w].job /\ next.store = worker[w].store
           /\ st = "running",
         next.pc # "failure",
         onError.pc \in {"failure", "dead"},
         onError.pc = "failure" =>
           onError.job = worker[w].job /\ onError.store = worker[w].store,
         worker[w].pc = "failure" => st = "failed" /\ onError.pc = "dead",
         FramesDone(next, Done(worker[w].job), cache[w][worker[w].store]),
         st = "completed" => worker[w].pc = "finish"
  PROVE  IInv'
<1> DEFINE j == worker[w].job
           row == Reported(jobs[j], w, st, pct)
<1>1. /\ j \in Job /\ worker[w].store \in Store
      /\ worker[w].store = jobs[j].store /\ jobs[j].owner = w
      /\ \/ jobs[j].status \in {"running", "deleted"}
         \/ jobs[j].status \in Terminal /\ worker[w].pc = "failure" /\ faults > 0
  BY DEF IInv, WorkerInv
<1>2. \A v \in Worker : v # w => ~Holds(v, j)
  BY <1>1 DEF IInv, ExclusiveProcessing, Holds
<1>3. PICK r \in {next, onError} :
        /\ worker' = [worker EXCEPT ![w] = r]
        /\ \/ /\ r = next /\ faults' = faults
              /\ jobs' = Written(w, st, pct) /\ jobs[j].status \in Live
           \/ /\ r = onError /\ faults' = faults /\ jobs' = jobs
              /\ jobs[j].status \notin Live
           \/ /\ r = onError /\ faults' = faults + 1
              /\ \/ jobs' = jobs
                 \/ jobs' = Written(w, st, pct) /\ jobs[j].status \in Live
  BY Zenon DEF Patch, Exists, Fault
<1>4. \/ jobs' = jobs
      \/ jobs' = Written(w, st, pct) /\ jobs[j].status \in Live
  BY <1>3
<1>5. jobs' \in [Job -> Row]
  <2>1. CASE jobs' = jobs
    BY <2>1 DEF IInv, TypeOK
  <2>2. CASE jobs' = Written(w, st, pct)
    <3>1. row \in Row
      <4>1. jobs[j] \in Row
        BY <1>1 DEF IInv, TypeOK
      <4>2. st \in Live \cup {"none", "deleted"} /\ w \in Worker \cup {NoWorker}
        BY DEF Live
      <4>3. (IF st = "failed" THEN jobs[j].progress ELSE pct) \in 0..100
        BY <4>1 DEF Row
      <4> QED
        BY <4>1, <4>2, <4>3 DEF Row, Reported
    <3>2. jobs' = [jobs EXCEPT ![j] = row]
      BY <2>2 DEF Written
    <3> QED
      BY <1>1, <3>1, <3>2 DEF IInv, TypeOK
  <2> QED
    BY <1>4, <2>1, <2>2
<1>6. \A i \in Job : i # j => jobs'[i] = jobs[i]
  BY <1>1, <1>4 DEF Written, IInv, TypeOK
<1>7. /\ jobs'[j].store = jobs[j].store /\ jobs'[j].media = jobs[j].media
      /\ jobs'[j].owner = w
      /\ \/ jobs'[j].status = jobs[j].status
         \/ jobs'[j].status = st /\ jobs[j].status \in Live
  <2>1. CASE jobs' = jobs
    BY <1>1, <2>1
  <2>2. CASE jobs' = Written(w, st, pct) /\ jobs[j].status \in Live
    <3>1. jobs'[j] = row
      BY <1>1, <2>2 DEF Written, IInv, TypeOK
    <3>2. jobs[j] \in Row
      BY <1>1 DEF IInv, TypeOK
    <3>3. row.store = jobs[j].store /\ row.media = jobs[j].media
          /\ row.owner = w /\ row.status = st
      BY <3>2 DEF Row, Reported
    <3> QED
      BY <2>2, <3>1, <3>3
  <2> QED
    BY <1>4, <2>1, <2>2
<1>8. TypeOK'
  <2>1. worker' \in [Worker -> WorkerRecord]
    BY <1>3 DEF IInv, TypeOK, WorkerRecord
  <2>2. faults' \in 0..MaxFaults
    BY BoundsAssumption DEF IInv, TypeOK, Patch, Fault
  <2> QED
    BY <1>5, <2>1, <2>2 DEF IInv, TypeOK, WorkerRecord, dbvars, ghosts
<1>9. worker'[w] = r /\ \A v \in Worker : v # w => worker'[v] = worker[v]
  BY <1>3 DEF IInv, TypeOK
<1>10. ExclusiveProcessing'
  <2>1. \A v \in Worker, i \in Job : Holds(v, i)' => Holds(v, i)
    <3>1. Working(w)' => worker'[w].job = j
      BY <1>9 DEF Working, Processing
    <3> QED
      BY <1>9, <3>1 DEF Holds, Working
  <2> QED
    BY <2>1 DEF IInv, ExclusiveProcessing
<1>11. HandlerInv'
  <2>1. \A v \in Worker : handler[v].step # "none" => v # w /\ handler[v].job # j
    BY <1>1, <1>2 DEF Holds, IInv, HandlerInv
  <2>2. \A v \in Worker : handler[v].step # "none" =>
          ~Working(v)' /\ jobs'[handler[v].job] = jobs[handler[v].job]
    <3> SUFFICES ASSUME NEW v \in Worker, handler[v].step # "none"
                 PROVE  ~Working(v)' /\ jobs'[handler[v].job] = jobs[handler[v].job]
      OBVIOUS
    <3>1. handler[v].job \in Job
      BY DEF IInv, HandlerInv, TypeOK
    <3> QED
      BY <1>6, <1>9, <2>1, <3>1 DEF IInv, HandlerInv, Working
  <2> QED
    BY <2>2 DEF IInv, HandlerInv
<1>12. WorkerInv'
  <2>1. ASSUME NEW v \in Worker, v # w, Working(v)'
        PROVE  Working(v) /\ worker[v].job # j /\ worker'[v] = worker[v]
               /\ jobs'[worker[v].job] = jobs[worker[v].job]
    <3>1. worker'[v] = worker[v] /\ Working(v)
      BY <1>9, <2>1 DEF Working
    <3>2. worker[v].job # j /\ worker[v].job \in Job
      BY <1>1, <1>2, <2>1, <3>1 DEF Holds, IInv, WorkerInv
    <3> QED
      BY <1>6, <3>1, <3>2
  <2>2. faults' >= faults
    BY <1>3 DEF IInv, TypeOK
  <2>3. ASSUME Working(w)'
        PROVE  /\ worker'[w].job = j /\ worker'[w].store = worker[w].store
               /\ \/ jobs'[j].status \in {"running", "deleted"}
                  \/ /\ jobs'[j].status \in Terminal /\ worker'[w].pc = "failure"
                     /\ faults' > 0
    <3>1. CASE r = next /\ next.pc \in Processing
      <4>1. st = "running" /\ worker[w].pc # "failure"
        BY <3>1
      <4> QED
        BY <1>1, <1>7, <1>9, <3>1, <4>1
    <3>2. CASE r = onError /\ onError.pc = "failure"
      <4>1. jobs[j].status \in {"running", "deleted"}
        BY <1>1, <3>2
      <4>2. jobs' = jobs \/ (jobs'[j].status = st /\ faults' > 0)
              \/ jobs'[j].status = jobs[j].status
              \/ (r = next /\ jobs'[j].status = st)
        BY <1>3, <1>7 DEF IInv, TypeOK
      <4>3. jobs' = jobs \/ jobs'[j].status = jobs[j].status
              \/ (jobs'[j].status = st /\ (faults' > 0 \/ next = onError))
        BY <4>2, <3>2
      <4>4. next # onError
        BY <3>2
      <4> QED
        BY <1>9, <3>2, <4>1, <4>3, <4>4 DEF Terminal
    <3> QED
      BY <1>9, <2>3, <3>1, <3>2 DEF Working, Processing
  <2>4. ASSUME NEW v \in Worker, Working(v)', v # w
        PROVE  /\ worker'[v].job \in Job /\ worker'[v].store \in Store
               /\ worker'[v].store = jobs'[worker'[v].job].store
               /\ jobs'[worker'[v].job].owner = v
               /\ \/ jobs'[worker'[v].job].status \in {"running", "deleted"}
                  \/ /\ jobs'[worker'[v].job].status \in Terminal
                     /\ worker'[v].pc = "failure" /\ faults' > 0
    <3>1. faults > 0 => faults' > 0
      BY <1>3, BoundsAssumption DEF IInv, TypeOK
    <3>2. /\ Working(v) /\ worker'[v] = worker[v]
          /\ jobs'[worker[v].job] = jobs[worker[v].job]
      BY <2>1, <2>4
    <3> QED
      BY <3>1, <3>2 DEF IInv, WorkerInv
  <2>5. Working(w)' => worker'[w].job \in Job /\ worker'[w].store \in Store
          /\ worker'[w].store = jobs'[worker'[w].job].store
          /\ jobs'[worker'[w].job].owner = w
    BY <1>1, <1>7, <2>3
  <2> QED
    BY <2>3, <2>4, <2>5 DEF WorkerInv
<1>13. FrameInv'
  <2>1. posted' = posted /\ unreadable' = unreadable /\ cache' = cache
    BY DEF ghosts
  <2>2. \/ worker[w].job = worker'[w].job /\ worker'[w].store = worker[w].store
        \/ worker'[w].pc \notin Processing
    BY <1>9 DEF Processing
  <2>3. worker'[w] = next \/ worker'[w].pc \notin Processing
    BY <1>9 DEF Processing
  <2>4. FramesDone(worker'[w], Done(worker'[w].job), cache[w][worker'[w].store])
    BY <2>2, <2>3, Zenon DEF FramesDone, Processing
  <2> QED
    BY <1>9, <2>1, <2>4 DEF IInv, FrameInv, FramesDone, Done
<1>14. CompletedInv'
  <2>1. posted' = posted /\ unreadable' = unreadable /\ cache' = cache
    BY DEF ghosts
  <2>2. CASE jobs'[j].status = "completed" /\ jobs'[j].status # jobs[j].status
    <3>1. worker[w].pc = "finish"
      BY <1>7, <2>2
    <3>2. (\A f \in FrameIndex : f \in Done(j)) /\ cache[w][worker[w].store] # 0
      BY <3>1 DEF IInv, FrameInv
    <3> QED
      BY <1>1, <1>6, <1>7, <2>1, <3>2 DEF IInv, CompletedInv, Done
  <2>3. CASE jobs'[j].status # "completed" \/ jobs'[j].status = jobs[j].status
    <3>1. jobs'[j].owner = jobs[j].owner
      BY <1>1, <1>7
    <3> QED
      <4>1. \A i \in Job : jobs'[i].status = "completed" =>
              jobs[i].status = "completed" /\ jobs'[i].owner = jobs[i].owner /\ jobs'[i].store = jobs[i].store
        BY <1>1, <1>6, <1>7, <2>3, <3>1
      <4>2. posted' = posted /\ unreadable' = unreadable /\ cache' = cache
        BY <2>1
      <4> QED
        BY <4>1, <4>2 DEF IInv, CompletedInv, Done
  <2> QED
    BY <2>2, <2>3
<1>15. UploadInv'
  <2>1. media' = media /\ uploads' = uploads
    BY DEF dbvars
  <2>2. \A i \in Job : jobs'[i].status \in Live =>
          jobs[i].status \in Live /\ jobs'[i].media = jobs[i].media /\ jobs'[i].store = jobs[i].store
    <3>1. jobs'[j].status \in Live => jobs[j].status \in Live
      BY <1>1, <1>7 DEF Live
    <3> QED
      BY <1>1, <1>6, <1>7, <3>1
  <2> QED
    BY <2>1, <2>2 DEF IInv, UploadInv
<1> QED
  BY <1>8, <1>10, <1>11, <1>12, <1>13, <1>14, <1>15 DEF IInv

\* So does a step that moves a worker on within its job, or to the failure
\* report, while frames get done and cache entries are filled.
LEMMA MoveStep ==
  ASSUME IInv, NEW w \in Worker, Working(w), worker[w].pc # "failure",
         NEW r \in WorkerRecord,
         worker' = [worker EXCEPT ![w] = r],
         UNCHANGED <<dbvars, jobs, handler, crashes, deletes>>,
         faults' \in 0..MaxFaults, faults' >= faults,
         posted' \in [Job -> SUBSET FrameIndex],
         unreadable' \in [Job -> SUBSET FrameIndex],
         \A i \in Job : posted[i] \subseteq posted'[i]
                        /\ unreadable[i] \subseteq unreadable'[i],
         cache' \in [Worker -> [Store -> 0..MaxJobs]],
         \A v \in Worker, s \in Store : cache[v][s] # 0 => cache'[v][s] # 0,
         r.pc \in Processing \cup {"failure"},
         r.job = worker[w].job, r.store = worker[w].store,
         FramesDone(r, posted'[r.job] \cup unreadable'[r.job], cache'[w][r.store])
  PROVE  IInv'
<1>1. TypeOK'
  BY DEF IInv, TypeOK, WorkerRecord, dbvars
<1>2. worker'[w] = r /\ \A v \in Worker : v # w => worker'[v] = worker[v]
  BY DEF IInv, TypeOK
<1>3. \A v \in Worker : (Working(v)' <=> Working(v)) /\ worker'[v].job = worker[v].job
                        /\ worker'[v].store = worker[v].store
  BY <1>2 DEF Working
<1>4. HandlerInv'
  BY <1>3 DEF IInv, HandlerInv
<1>5. WorkerInv'
  <2>1. faults > 0 => faults' > 0
    BY BoundsAssumption DEF IInv, TypeOK
  <2>2. jobs[worker[w].job].status \in {"running", "deleted"}
    BY DEF IInv, WorkerInv
  <2> QED
    BY <1>2, <1>3, <2>1, <2>2 DEF IInv, WorkerInv
<1>6. ExclusiveProcessing'
  BY <1>3 DEF IInv, ExclusiveProcessing, Holds
<1>7. \A i \in Job : Done(i) \subseteq Done(i)'
  BY DEF Done
<1>8. FrameInv'
  <2>1. ASSUME NEW v \in Worker
        PROVE  FramesDone(worker'[v],
                          posted'[worker'[v].job] \cup unreadable'[worker'[v].job],
                          cache'[v][worker'[v].store])
    <3>1. CASE v = w
      BY <1>2, <3>1
    <3>2. CASE v # w /\ worker[v].pc \in Processing
      <4>1. /\ worker'[v] = worker[v]
            /\ worker[v].job \in Job /\ worker[v].store \in Store
        BY <1>2, <3>2 DEF IInv, WorkerInv, Working
      <4>2. FramesDone(worker[v], Done(worker[v].job), cache[v][worker[v].store])
        BY DEF IInv, FrameInv, FramesDone
      <4>3. Done(worker[v].job) \subseteq
              posted'[worker[v].job] \cup unreadable'[worker[v].job]
        BY <4>1 DEF Done
      <4> QED
        BY <4>1, <4>2, <4>3 DEF FramesDone
    <3>3. CASE v # w /\ worker[v].pc \notin Processing
      BY <1>2, <3>3 DEF Processing, FramesDone
    <3> QED
      BY <3>1, <3>2, <3>3
  <2> QED
    BY <2>1 DEF FrameInv, FramesDone, Done
<1>9. CompletedInv'
  BY <1>7 DEF IInv, CompletedInv
<1>10. UploadInv'
  BY DEF IInv, UploadInv, dbvars
<1> QED
  BY <1>1, <1>4, <1>5, <1>6, <1>8, <1>9, <1>10 DEF IInv

-----------------------------------------------------------------------------
(* Initial state, clients and claims *)

\* The rows a claim and delete_store write.
LEMMA HandedRow ==
  ASSUME NEW row \in Row, NEW w \in Worker
  PROVE  /\ Handed(row, w) \in Row /\ Handed(row, w).owner = w
         /\ Handed(row, w).store = row.store /\ Handed(row, w).media = row.media
         /\ Handed(row, w).status = "running"
BY DEF Row, Live, Handed

LEMMA DeletedRow ==
  ASSUME NEW row \in Row, NEW new, new = [row EXCEPT !.status = "deleted"]
  PROVE  /\ new \in Row /\ new.owner = row.owner /\ new.store = row.store
         /\ new.media = row.media /\ new.status = "deleted"
BY DEF Row, Live

LEMMA InitIInv == Init => IInv
<1> SUFFICES ASSUME Init PROVE IInv
  OBVIOUS
<1>1. TypeOK
  BY BoundsAssumption DEF Init, TypeOK, Row, NoRow, Idle, NoRequest, Store, Media,
     Job, FrameIndex, PC
<1>2. \A w \in Worker : ~Working(w) /\ handler[w].step = "none"
  BY DEF Init, Working, Processing, Idle, NoRequest
<1>3. FrameInv
  BY DEF Init, FrameInv, Idle
<1>4. HandlerInv /\ WorkerInv /\ ExclusiveProcessing
  BY <1>2 DEF HandlerInv, WorkerInv, ExclusiveProcessing, Holds
<1>5. CompletedInv /\ UploadInv
  BY DEF Init, CompletedInv, UploadInv, NoRow, Live
<1> QED
  BY <1>1, <1>3, <1>4, <1>5 DEF IInv

LEMMA CreateStoreStep ==
  ASSUME IInv, NEW s \in Store, CreateStore(s) PROVE IInv'
<1>1. TypeOK'
  BY DEF IInv, TypeOK, CreateStore, ghosts, bounds
<1> QED
  BY <1>1 DEF IInv, HandlerInv, WorkerInv, ExclusiveProcessing, FrameInv, CompletedInv,
     UploadInv, CreateStore, ghosts, bounds, Working, Holds, Done

LEMMA BeginUploadStep ==
  ASSUME IInv, NEW s \in Store, BeginUpload(s) PROVE IInv'
<1>1. TypeOK'
  BY DEF IInv, TypeOK, BeginUpload, ghosts, bounds
<1> QED
  BY <1>1 DEF IInv, HandlerInv, WorkerInv, ExclusiveProcessing, FrameInv, CompletedInv,
     UploadInv, BeginUpload, ghosts, bounds, Working, Holds, Done

LEMMA FinishUploadStep ==
  ASSUME IInv, NEW s \in Store, FinishUpload(s) PROVE IInv'
<1>1. uploads + 1 \in Media /\ uploads \in Nat /\ media' = [media EXCEPT ![uploads + 1] = s]
  BY BoundsAssumption DEF IInv, TypeOK, FinishUpload, Media
<1>2. TypeOK'
  <2>1. media' \in [Media -> 0..MaxStores]
    BY <1>1, BoundsAssumption DEF IInv, TypeOK, Store
  <2>2. uploading' \in [Store -> Nat] /\ uploads' \in 0..MaxMedia
    BY BoundsAssumption DEF IInv, TypeOK, FinishUpload
  <2> QED
    BY <2>1, <2>2 DEF IInv, TypeOK, FinishUpload, ghosts, bounds
<1>3. UploadInv'
  <2>1. \A m \in Media : m # uploads + 1 => media'[m] = media[m]
    BY <1>1 DEF IInv, TypeOK
  <2>2. \A j \in Job : jobs[j].status \in Live => jobs[j].media # uploads + 1
    BY <1>1, BoundsAssumption DEF IInv, UploadInv, Store
  <2>3. \A m \in Media : m > uploads + 1 => m > uploads /\ m # uploads + 1
    BY <1>1 DEF Media
  <2> QED
    BY <2>1, <2>2, <2>3 DEF IInv, UploadInv, FinishUpload
<1> QED
  BY <1>2, <1>3 DEF IInv, HandlerInv, WorkerInv, ExclusiveProcessing, FrameInv,
     CompletedInv, FinishUpload, ghosts, bounds, Working, Holds, Done

LEMMA CreateJobStep ==
  ASSUME IInv, NEW j \in Job, NEW m \in Media, CreateJob(j, m) PROVE IInv'
<1>1. media[m] \in Store
  BY BoundsAssumption DEF IInv, TypeOK, CreateJob, Store
<1>2. /\ jobs'[j].status = "queued" /\ jobs'[j].store = media[m] /\ jobs'[j].media = m
      /\ jobs'[j] \in Row
  <2>1. media[m] \in 0..MaxStores /\ m \in 0..MaxMedia
    BY BoundsAssumption DEF IInv, TypeOK, Media
  <2>2. jobs'[j] = [status |-> "queued", store |-> media[m], media |-> m,
                    owner |-> NoWorker, progress |-> 0]
    BY DEF IInv, TypeOK, CreateJob
  <2> QED
    BY <2>1, <2>2 DEF Row, Live
<1>3. \A i \in Job : i # j => jobs'[i] = jobs[i]
  BY DEF IInv, TypeOK, CreateJob
<1>4. TypeOK'
  <2>1. jobs' \in [Job -> Row]
    BY <1>2, <1>3 DEF IInv, TypeOK, CreateJob
  <2> QED
    BY <2>1 DEF IInv, TypeOK, CreateJob, dbvars, ghosts, bounds
<1>5. UNCHANGED <<worker, handler, media, uploads, cache, posted, unreadable, faults>>
  BY DEF CreateJob, dbvars, ghosts, bounds
<1>6. \A w \in Worker : ~Holds(w, j)
  <2> SUFFICES ASSUME NEW w \in Worker, Holds(w, j) PROVE FALSE
    OBVIOUS
  <2>1. jobs[j].status = "none"
    BY DEF CreateJob
  <2>2. CASE Working(w) /\ worker[w].job = j
    BY <2>1, <2>2 DEF IInv, WorkerInv, Terminal
  <2>3. CASE handler[w].step # "none" /\ handler[w].job = j
    <3>1. handler[w].step \in {"locked", "committed"}
      BY <2>3 DEF IInv, TypeOK
    <3> QED
      BY <2>1, <2>3, <3>1 DEF IInv, HandlerInv
  <2> QED
    BY <2>2, <2>3 DEF Holds
<1>7. HandlerInv'
  <2>1. \A w \in Worker : handler[w].step # "none" =>
          handler[w].job \in Job /\ handler[w].job # j
    BY <1>6 DEF IInv, HandlerInv, TypeOK, Holds
  <2> QED
    BY <1>3, <1>5, <2>1 DEF IInv, HandlerInv, Working
<1>8. WorkerInv'
  <2>1. \A w \in Worker : Working(w) => worker[w].job \in Job /\ worker[w].job # j
    BY <1>6 DEF IInv, WorkerInv, Holds
  <2> QED
    BY <1>3, <1>5, <2>1 DEF IInv, WorkerInv, Working
<1>9. ExclusiveProcessing' /\ FrameInv'
  BY <1>5 DEF IInv, ExclusiveProcessing, FrameInv, Holds, Working, Done
<1>10. CompletedInv' /\ UploadInv'
  BY <1>1, <1>2, <1>3, <1>5 DEF IInv, CompletedInv, UploadInv, Done, CreateJob
<1> QED
  BY <1>4, <1>7, <1>8, <1>9, <1>10 DEF IInv

LEMMA DeleteStoreStep ==
  ASSUME IInv, NEW s \in Store, DeleteStore(s) PROVE IInv'
<1> DEFINE gone(j) == jobs[j].status \in Live /\ jobs[j].store = s
<1>1. \A j \in Job : /\ jobs'[j] = IF gone(j) THEN [jobs[j] EXCEPT !.status = "deleted"]
                                              ELSE jobs[j]
                     /\ jobs'[j] \in Row
  <2> SUFFICES ASSUME NEW j \in Job
               PROVE  /\ jobs'[j] = IF gone(j) THEN [jobs[j] EXCEPT !.status = "deleted"]
                                               ELSE jobs[j]
                      /\ jobs'[j] \in Row
    OBVIOUS
  <2>1. jobs'[j] = IF gone(j) THEN [jobs[j] EXCEPT !.status = "deleted"] ELSE jobs[j]
    BY DEF DeleteStore
  <2>2. jobs[j] \in Row
    BY DEF IInv, TypeOK
  <2> QED
    BY <2>1, <2>2, DeletedRow, ZenonT(30)
<1>2. \A j \in Job : /\ jobs'[j].store = jobs[j].store /\ jobs'[j].media = jobs[j].media
                     /\ jobs'[j].owner = jobs[j].owner
                     /\ jobs'[j].status = IF gone(j) THEN "deleted" ELSE jobs[j].status
  <2> SUFFICES ASSUME NEW j \in Job
               PROVE  /\ jobs'[j].store = jobs[j].store /\ jobs'[j].media = jobs[j].media
                      /\ jobs'[j].owner = jobs[j].owner
                      /\ jobs'[j].status = IF gone(j) THEN "deleted" ELSE jobs[j].status
    OBVIOUS
  <2>1. jobs[j] \in Row
    BY DEF IInv, TypeOK
  <2> QED
    BY <1>1, <2>1, DeletedRow, ZenonT(30)
<1>3. UNCHANGED <<worker, handler, uploads, cache, posted, unreadable, faults>>
  BY DEF DeleteStore, ghosts
<1>4. TypeOK'
  <2>1. jobs' \in [Job -> Row]
    BY <1>1 DEF DeleteStore
  <2>2. media' \in [Media -> 0..MaxStores] /\ deletes' \in 0..MaxDeletes
        /\ stores' \subseteq Store
    BY BoundsAssumption DEF IInv, TypeOK, DeleteStore
  <2> QED
    BY <1>3, <2>1, <2>2 DEF IInv, TypeOK, DeleteStore
<1>5. HandlerInv'
  <2>1. \A w \in Worker : handler[w].step = "locked" => ~gone(handler[w].job)
    BY DEF DeleteStore
  <2> QED
    BY <1>2, <1>3, <2>1, SMTT(20) DEF IInv, HandlerInv, TypeOK, Working
<1>6. WorkerInv'
  BY <1>2, <1>3 DEF IInv, WorkerInv, Working
<1>7. ExclusiveProcessing' /\ FrameInv'
  BY <1>3 DEF IInv, ExclusiveProcessing, FrameInv, Holds, Working, Done
<1>8. CompletedInv'
  BY <1>2, <1>3 DEF IInv, CompletedInv, Done
<1>9. UploadInv'
  <2>1. \A m \in Media : media'[m] = IF media[m] = s THEN 0 ELSE media[m]
    BY DEF DeleteStore
  <2> QED
    BY <1>2, <1>3, <2>1 DEF IInv, UploadInv, Live
<1> QED
  BY <1>4, <1>5, <1>6, <1>7, <1>8, <1>9 DEF IInv

LEMMA PollAndLockStep ==
  ASSUME IInv, NEW w \in Worker, NEW j \in Job, PollAndLock(w, j) PROVE IInv'
<1>1. /\ handler' = [handler EXCEPT ![w] = [step |-> "locked", job |-> j]]
      /\ worker' = [worker EXCEPT ![w].pc = "claiming"]
      /\ UNCHANGED <<stores, uploading, media, uploads, jobs, cache, posted, unreadable,
                     faults, crashes, deletes>>
  BY DEF PollAndLock, dbvars, ghosts, bounds
<1>2. /\ worker'[w].pc = "claiming" /\ handler'[w].step = "locked" /\ handler'[w].job = j
      /\ \A v \in Worker : v # w => worker'[v] = worker[v] /\ handler'[v] = handler[v]
  BY <1>1 DEF IInv, TypeOK
<1>3. TypeOK'
  <2>1. j \in 0..MaxJobs
    BY DEF Job
  <2>2. handler' \in [Worker -> [step: {"none", "locked", "committed"}, job: 0..MaxJobs]]
    BY <1>1, <2>1 DEF IInv, TypeOK
  <2>3. worker' \in [Worker -> WorkerRecord]
    BY <1>1 DEF IInv, TypeOK, WorkerRecord, PC
  <2> QED
    BY <1>1, <2>2, <2>3 DEF IInv, TypeOK, WorkerRecord
<1>4. jobs[j].status = "queued" /\ ~Locked(j)
  BY DEF PollAndLock, Oldest
<1>5. ~Working(w)' /\ \A v \in Worker : v # w => (Working(v)' <=> Working(v))
  BY <1>2 DEF Working, Processing
<1>6. \A v \in Worker : ~Holds(v, j)
  <2> SUFFICES ASSUME NEW v \in Worker, Holds(v, j) PROVE FALSE
    OBVIOUS
  <2>1. CASE Working(v) /\ worker[v].job = j
    BY <1>4, <2>1 DEF IInv, WorkerInv, Terminal
  <2>2. CASE handler[v].step # "none" /\ handler[v].job = j
    <3>1. handler[v].step \in {"locked", "committed"}
      BY <2>2 DEF IInv, TypeOK
    <3> QED
      BY <1>4, <2>2, <3>1 DEF IInv, HandlerInv, Locked
  <2> QED
    BY <2>1, <2>2 DEF Holds
<1>7. HandlerInv'
  BY <1>1, <1>2, <1>4, <1>5 DEF IInv, HandlerInv
<1>8. WorkerInv'
  BY <1>1, <1>2, <1>5 DEF IInv, WorkerInv
<1>9. ExclusiveProcessing'
  <2>1. \A v \in Worker, i \in Job : Holds(v, i)' => Holds(v, i) \/ (v = w /\ i = j)
    BY <1>2, <1>5 DEF Holds
  <2> QED
    BY <1>6, <2>1 DEF IInv, ExclusiveProcessing
<1>10. FrameInv' /\ CompletedInv' /\ UploadInv'
  BY <1>1, <1>2 DEF IInv, FrameInv, CompletedInv, UploadInv, Done
<1> QED
  BY <1>3, <1>7, <1>8, <1>9, <1>10 DEF IInv

LEMMA CommitClaimStep ==
  ASSUME IInv, NEW w \in Worker, CommitClaim(w) PROVE IInv'
<1> DEFINE j == handler[w].job
<1>1. /\ handler' = [handler EXCEPT ![w].step = "committed"]
      /\ jobs' = [jobs EXCEPT ![j] = Handed(jobs[j], w)]
      /\ UNCHANGED <<stores, uploading, media, uploads, worker, cache, posted, unreadable,
                     faults, crashes, deletes>>
  BY DEF CommitClaim, dbvars, ghosts, bounds
<1>2. j \in Job /\ jobs[j].status = "queued" /\ handler[w].step = "locked"
  BY DEF IInv, HandlerInv, CommitClaim
<1>3. /\ handler'[w].step = "committed" /\ handler'[w].job = j
      /\ \A v \in Worker : v # w => handler'[v] = handler[v]
  BY <1>1 DEF IInv, TypeOK
<1>4. /\ jobs'[j] \in Row /\ jobs'[j].owner = w /\ jobs'[j].status = "running"
      /\ jobs'[j].store = jobs[j].store /\ jobs'[j].media = jobs[j].media
      /\ \A i \in Job : i # j => jobs'[i] = jobs[i]
  <2>1. jobs[j] \in Row /\ jobs'[j] = Handed(jobs[j], w)
    BY <1>1, <1>2 DEF IInv, TypeOK
  <2>2. \A i \in Job : i # j => jobs'[i] = jobs[i]
    BY <1>1, <1>2 DEF IInv, TypeOK
  <2> QED
    BY <2>1, <2>2, HandedRow
<1>5. TypeOK'
  <2>1. jobs' \in [Job -> Row]
    BY <1>1, <1>4 DEF IInv, TypeOK
  <2>2. handler' \in [Worker -> [step: {"none", "locked", "committed"}, job: 0..MaxJobs]]
    BY <1>1 DEF IInv, TypeOK
  <2> QED
    BY <1>1, <2>1, <2>2 DEF IInv, TypeOK
<1>6. \A v \in Worker : v # w => ~Holds(v, j)
  BY <1>2 DEF IInv, ExclusiveProcessing, Holds
<1>7. HandlerInv'
  <2>1. \A v \in Worker : v # w /\ handler[v].step # "none" =>
          handler[v].job \in Job /\ handler[v].job # j
    <3> SUFFICES ASSUME NEW v \in Worker, v # w, handler[v].step # "none"
                 PROVE  handler[v].job \in Job /\ handler[v].job # j
      OBVIOUS
    <3>1. handler[v].step \in {"locked", "committed"}
      BY DEF IInv, TypeOK
    <3> QED
      BY <1>6, <3>1 DEF IInv, HandlerInv, Holds
  <2>2. jobs[j].store \in Store
    BY <1>2 DEF IInv, UploadInv, Live
  <2> QED
    BY <1>1, <1>2, <1>3, <1>4, <2>1, <2>2 DEF IInv, HandlerInv, Working
<1>8. WorkerInv'
  <2>1. \A v \in Worker : Working(v) => worker[v].job \in Job /\ worker[v].job # j
    BY <1>2 DEF IInv, WorkerInv, Terminal
  <2> QED
    BY <1>1, <1>4, <2>1 DEF IInv, WorkerInv, Working
<1>9. ExclusiveProcessing'
  <2>1. \A v \in Worker, i \in Job : Holds(v, i)' => Holds(v, i)
    BY <1>1, <1>2, <1>3 DEF Holds, Working
  <2> QED
    BY <2>1 DEF IInv, ExclusiveProcessing
<1>10. FrameInv'
  BY <1>1 DEF IInv, FrameInv, Done
<1>11. CompletedInv'
  BY <1>1, <1>4 DEF IInv, CompletedInv, Done
<1>12. UploadInv'
  <2>1. \A i \in Job : jobs'[i].status \in Live =>
          jobs[i].status \in Live /\ jobs'[i].media = jobs[i].media /\ jobs'[i].store = jobs[i].store
    BY <1>2, <1>4 DEF Live
  <2> QED
    BY <1>1, <2>1 DEF IInv, UploadInv
<1> QED
  BY <1>5, <1>7, <1>8, <1>9, <1>10, <1>11, <1>12 DEF IInv

\* A worker that lets go of everything, and a handler that is done, disturb
\* nothing: AbortClaim, LoseClaimAnswer, Crash, Restart.
LEMMA ReleaseStep ==
  ASSUME IInv, NEW w \in Worker, NEW r \in WorkerRecord,
         NEW h \in {NoRequest, handler[w]},
         worker' = [worker EXCEPT ![w] = r],
         handler' = [handler EXCEPT ![w] = h],
         r.pc \in {"poll", "dead"} \/ (r = worker[w] /\ r.pc # "claiming"),
         UNCHANGED <<dbvars, jobs, cache, ghosts, deletes>>,
         faults' \in 0..MaxFaults, faults' >= faults, crashes' \in 0..MaxCrashes
  PROVE  IInv'
<1>1. /\ worker'[w] = r /\ handler'[w] = h
      /\ \A v \in Worker : v # w => worker'[v] = worker[v] /\ handler'[v] = handler[v]
  BY DEF IInv, TypeOK
<1>2. TypeOK'
  <2>1. h \in [step: {"none", "locked", "committed"}, job: 0..MaxJobs]
    BY BoundsAssumption DEF IInv, TypeOK, NoRequest
  <2>2. handler' \in [Worker -> [step: {"none", "locked", "committed"}, job: 0..MaxJobs]]
    BY <2>1 DEF IInv, TypeOK
  <2>3. worker' \in [Worker -> WorkerRecord]
    BY DEF IInv, TypeOK, WorkerRecord
  <2> QED
    BY <2>2, <2>3 DEF IInv, TypeOK, WorkerRecord, dbvars, ghosts
<1>3. \A v \in Worker : Working(v)' => Working(v) /\ worker'[v] = worker[v]
  BY <1>1 DEF Working, Processing
<1>4. \A v \in Worker : handler'[v].step # "none" => handler'[v] = handler[v]
  BY <1>1 DEF NoRequest
<1>5. HandlerInv'
  <2>1. \A v \in Worker : handler'[v].step # "none" => ~Working(v)'
    BY <1>3, <1>4 DEF IInv, HandlerInv
  <2>2. \A v \in Worker : handler'[v].step \in {"locked", "committed"} =>
          handler'[v] = handler[v]
    BY <1>4
  <2> QED
    BY <2>1, <2>2 DEF IInv, HandlerInv
<1>6. WorkerInv'
  <2>1. faults > 0 => faults' > 0
    BY BoundsAssumption DEF IInv, TypeOK
  <2> QED
    BY <1>3, <2>1 DEF IInv, WorkerInv
<1>7. ExclusiveProcessing'
  <2>1. \A v \in Worker, i \in Job : Holds(v, i)' => Holds(v, i)
    BY <1>3, <1>4 DEF Holds
  <2> QED
    BY <2>1 DEF IInv, ExclusiveProcessing
<1>8. FrameInv'
  <2>1. \A v \in Worker : worker'[v].pc \in Processing => worker'[v] = worker[v]
    BY <1>3 DEF Working
  <2> QED
    BY <2>1 DEF IInv, FrameInv, Done, ghosts, Processing
<1>9. CompletedInv' /\ UploadInv'
  BY DEF IInv, CompletedInv, UploadInv, Done, ghosts, dbvars
<1> QED
  BY <1>2, <1>5, <1>6, <1>7, <1>8, <1>9 DEF IInv

\* The two records a worker is reset to.
LEMMA IdleRecord ==
  /\ Idle \in WorkerRecord /\ Idle.pc = "poll"
  /\ [Idle EXCEPT !.pc = "dead"] \in WorkerRecord
  /\ [Idle EXCEPT !.pc = "dead"].pc = "dead"
BY BoundsAssumption DEF Idle, WorkerRecord, PC, FrameIndex

LEMMA AbortClaimStep ==
  ASSUME IInv, NEW w \in Worker, AbortClaim(w) PROVE IInv'
<1> DEFINE r == [worker[w] EXCEPT !.pc = IF worker[w].pc = "claiming" THEN "poll"
                                         ELSE worker[w].pc]
<1>1. worker[w] \in WorkerRecord
  BY DEF IInv, TypeOK, WorkerRecord
<1>2. /\ r \in WorkerRecord
      /\ r.pc \in {"poll", "dead"} \/ (r = worker[w] /\ r.pc # "claiming")
  BY <1>1 DEF WorkerRecord, PC
<1>3. worker' = [worker EXCEPT ![w] = r]
  BY DEF AbortClaim
<1>4. /\ handler' = [handler EXCEPT ![w] = NoRequest]
      /\ UNCHANGED <<dbvars, jobs, cache, ghosts, crashes, deletes>>
      /\ faults' = faults + 1 /\ faults < MaxFaults
  BY DEF AbortClaim, Fault
<1>5. faults' \in 0..MaxFaults /\ faults' >= faults /\ crashes' \in 0..MaxCrashes
  BY <1>4, BoundsAssumption DEF IInv, TypeOK
<1> HIDE DEF r
<1> QED
  BY <1>2, <1>3, <1>4, <1>5, ReleaseStep

LEMMA LoseClaimAnswerStep ==
  ASSUME IInv, NEW w \in Worker, LoseClaimAnswer(w) PROVE IInv'
<1>1. /\ handler' = [handler EXCEPT ![w] = NoRequest]
      /\ worker' = [worker EXCEPT ![w] = Idle]
      /\ UNCHANGED <<dbvars, jobs, cache, ghosts, crashes, deletes>>
      /\ faults' = faults + 1 /\ faults < MaxFaults
  BY DEF LoseClaimAnswer, Fault
<1>2. faults' \in 0..MaxFaults /\ faults' >= faults /\ crashes' \in 0..MaxCrashes
  BY <1>1, BoundsAssumption DEF IInv, TypeOK
<1> QED
  BY <1>1, <1>2, IdleRecord, ReleaseStep

LEMMA CrashStep ==
  ASSUME IInv, NEW w \in Worker, Crash(w) PROVE IInv'
<1>1. /\ worker' = [worker EXCEPT ![w] = [Idle EXCEPT !.pc = "dead"]]
      /\ handler' = [handler EXCEPT ![w] = handler[w]]
      /\ UNCHANGED <<dbvars, jobs, cache, ghosts, faults, deletes>>
      /\ crashes' = crashes + 1 /\ crashes < MaxCrashes
  BY DEF Crash, IInv, TypeOK
<1>2. faults' \in 0..MaxFaults /\ faults' >= faults /\ crashes' \in 0..MaxCrashes
  BY <1>1, BoundsAssumption DEF IInv, TypeOK
<1> DEFINE r == [Idle EXCEPT !.pc = "dead"]
<1>3. r \in WorkerRecord /\ r.pc = "dead"
  BY IdleRecord
<1>4. worker' = [worker EXCEPT ![w] = r]
  BY <1>1
<1> HIDE DEF r
<1> QED
  BY <1>1, <1>2, <1>3, <1>4, ReleaseStep

LEMMA RestartStep ==
  ASSUME IInv, NEW w \in Worker, Restart(w) PROVE IInv'
<1>1. /\ worker' = [worker EXCEPT ![w] = Idle]
      /\ handler' = [handler EXCEPT ![w] = handler[w]]
      /\ UNCHANGED <<dbvars, jobs, cache, ghosts, faults, crashes, deletes>>
  BY DEF Restart, bounds, IInv, TypeOK
<1>2. faults' \in 0..MaxFaults /\ faults' >= faults /\ crashes' \in 0..MaxCrashes
  BY <1>1, BoundsAssumption DEF IInv, TypeOK
<1> QED
  BY <1>1, <1>2, IdleRecord, ReleaseStep

LEMMA AnswerClaimStep ==
  ASSUME IInv, NEW w \in Worker, AnswerClaim(w) PROVE IInv'
<1> DEFINE j == handler[w].job
<1>1. /\ handler' = [handler EXCEPT ![w] = NoRequest]
      /\ UNCHANGED <<dbvars, jobs, cache, ghosts, bounds>>
      /\ handler[w].step = "committed"
  BY DEF AnswerClaim
<1>2. /\ j \in Job /\ jobs[j].owner = w /\ jobs[j].status \in {"running", "deleted"}
      /\ jobs[j].store \in Store /\ ~Working(w)
  BY <1>1 DEF IInv, HandlerInv
<1>3. faults' \in 0..MaxFaults /\ faults' >= faults /\ crashes' \in 0..MaxCrashes
  BY <1>1, BoundsAssumption DEF IInv, TypeOK, bounds
<1>4. CASE worker[w].pc # "claiming"
  <2>1. worker' = [worker EXCEPT ![w] = worker[w]]
    BY <1>4 DEF AnswerClaim, IInv, TypeOK
  <2>2. worker[w] \in WorkerRecord
    BY DEF IInv, TypeOK, WorkerRecord
  <2> QED
    BY <1>1, <1>3, <1>4, <2>1, <2>2, ReleaseStep DEF bounds
<1>5. CASE worker[w].pc = "claiming" /\ media[jobs[j].media] = 0
  <2>1. worker' = [worker EXCEPT ![w] = Idle]
    BY <1>5 DEF AnswerClaim, Claimed
  <2> QED
    BY <1>1, <1>3, <2>1, IdleRecord, ReleaseStep DEF bounds
<1>6. CASE worker[w].pc = "claiming" /\ media[jobs[j].media] # 0
  <2> DEFINE r == [pc |-> "start", job |-> j, store |-> jobs[j].store, frame |-> 0]
  <2>1. /\ r \in WorkerRecord /\ r.pc = "start" /\ r.job = j
        /\ r.store = jobs[j].store /\ r.frame = 0
    BY <1>2, BoundsAssumption DEF WorkerRecord, PC, Processing, FrameIndex, Job, Store
  <2>2. worker' = [worker EXCEPT ![w] = r]
    BY <1>6 DEF AnswerClaim, Claimed
  <2> HIDE DEF r
  <2>3. /\ worker'[w] = r /\ handler'[w] = NoRequest
        /\ \A v \in Worker : v # w => worker'[v] = worker[v] /\ handler'[v] = handler[v]
    BY <1>1, <2>2 DEF IInv, TypeOK
  <2>4. TypeOK'
    <3>1. worker' \in [Worker -> WorkerRecord]
      BY <2>1, <2>2 DEF IInv, TypeOK, WorkerRecord
    <3>2. handler' \in [Worker -> [step: {"none", "locked", "committed"}, job: 0..MaxJobs]]
      BY <1>1, BoundsAssumption DEF IInv, TypeOK, NoRequest
    <3> QED
      BY <1>1, <3>1, <3>2 DEF IInv, TypeOK, WorkerRecord, dbvars, ghosts, bounds
  <2>5. \A v \in Worker : v # w => ~Holds(v, j)
    BY <1>1, <1>2 DEF IInv, ExclusiveProcessing, Holds
  <2>6. ExclusiveProcessing'
    <3>1. \A v \in Worker, i \in Job : Holds(v, i)' => Holds(v, i) \/ (v = w /\ i = j)
      BY <2>1, <2>3 DEF Holds, Working, NoRequest
    <3> QED
      BY <2>5, <3>1 DEF IInv, ExclusiveProcessing
  <2>7. HandlerInv'
    BY <1>1, <2>3 DEF IInv, HandlerInv, Working, NoRequest
  <2>8. WorkerInv'
    BY <1>1, <1>2, <2>1, <2>3 DEF IInv, WorkerInv, Working, bounds
  <2>9. FrameInv'
    BY <1>1, <2>1, <2>3 DEF IInv, FrameInv, Done, ghosts
  <2>10. CompletedInv' /\ UploadInv'
    BY <1>1 DEF IInv, CompletedInv, UploadInv, Done, ghosts, dbvars
  <2> QED
    BY <2>4, <2>6, <2>7, <2>8, <2>9, <2>10 DEF IInv
<1> QED
  BY <1>4, <1>5, <1>6

-----------------------------------------------------------------------------
(* The worker's steps *)

\* The records a worker in the middle of a job can be sent to.
LEMMA GoRecord ==
  ASSUME IInv, NEW w \in Worker, NEW pc \in PC
  PROVE  /\ Go(w, pc) \in WorkerRecord /\ Go(w, pc).pc = pc
         /\ Go(w, pc).job = worker[w].job /\ Go(w, pc).store = worker[w].store
         /\ Go(w, pc).frame = worker[w].frame
<1>1. worker[w] \in WorkerRecord
  BY DEF IInv, TypeOK, WorkerRecord
<1> QED
  BY <1>1 DEF Go, WorkerRecord

LEMMA NextFrameRecord ==
  ASSUME IInv, NEW w \in Worker
  PROVE  /\ NextFrame(w) \in WorkerRecord
         /\ NextFrame(w).job = worker[w].job /\ NextFrame(w).store = worker[w].store
         /\ \/ /\ NextFrame(w).pc = "state"
               /\ NextFrame(w).frame = worker[w].frame + 1
            \/ NextFrame(w).pc = "finish" /\ worker[w].frame + 1 >= Frames
<1>1. worker[w] \in WorkerRecord /\ worker[w].frame \in FrameIndex
  BY DEF IInv, TypeOK, WorkerRecord
<1>2. CASE worker[w].frame + 1 < Frames
  <2>1. worker[w].frame + 1 \in FrameIndex
    BY <1>1, <1>2, BoundsAssumption DEF FrameIndex
  <2> QED
    BY <1>1, <1>2, <2>1 DEF NextFrame, WorkerRecord, PC, Processing
<1>3. CASE ~(worker[w].frame + 1 < Frames)
  <2>1. NextFrame(w) = Go(w, "finish")
    BY <1>3 DEF NextFrame
  <2>2. worker[w].frame + 1 >= Frames
    BY <1>1, <1>3, BoundsAssumption DEF FrameIndex
  <2> QED
    BY <2>1, <2>2, GoRecord DEF PC, Processing
<1> QED
  BY <1>2, <1>3

\* Moving on after the current frame keeps the books right.
LEMMA NextFrameDone ==
  ASSUME IInv, NEW w \in Worker, NEW D, NEW c, c # 0,
         \A f \in FrameIndex : f <= worker[w].frame => f \in D
  PROVE  FramesDone(NextFrame(w), D, c)
<1>1. worker[w].frame \in FrameIndex
  BY DEF IInv, TypeOK
<1> QED
  BY <1>1, NextFrameRecord, BoundsAssumption DEF FramesDone, FrameIndex

LEMMA StartJobStep ==
  ASSUME IInv, NEW w \in Worker, StartJob(w) PROVE IInv'
<1>1. Working(w) /\ worker[w].pc = "start"
  BY DEF StartJob, At, Working, Processing
<1>2. worker[w].frame = 0
  BY <1>1 DEF IInv, FrameInv
<1> DEFINE next == Go(w, "download")
           fail == Go(w, "failure")
           pct == 5
<1>3. /\ next \in WorkerRecord /\ next.pc = "download" /\ next.job = worker[w].job
      /\ next.store = worker[w].store /\ next.frame = 0
      /\ fail \in WorkerRecord /\ fail.pc = "failure" /\ fail.job = worker[w].job
      /\ fail.store = worker[w].store
  BY <1>2, GoRecord DEF PC, Processing
<1>4. /\ Patch(w, "running", pct, next, fail)
      /\ UNCHANGED <<dbvars, handler, cache, ghosts, crashes, deletes>>
  BY DEF StartJob, Failure
<1>5. FramesDone(next, Done(worker[w].job), cache[w][worker[w].store])
  BY <1>3 DEF FramesDone
<1>6. pct \in 0..100
  OBVIOUS
<1> HIDE DEF next, fail, pct
<1> QED
  BY <1>6, <1>1, <1>3, <1>4, <1>5, PatchStep

LEMMA ReportExtractedStep ==
  ASSUME IInv, NEW w \in Worker, ReportExtracted(w) PROVE IInv'
<1>1. Working(w) /\ worker[w].pc = "extracted"
  BY DEF ReportExtracted, At, Working, Processing
<1>2. worker[w].frame = 0 /\ cache[w][worker[w].store] # 0
  BY <1>1 DEF IInv, FrameInv
<1> DEFINE next == Go(w, "state")
           fail == Go(w, "failure")
           pct == 15
<1>3. /\ next \in WorkerRecord /\ next.pc = "state" /\ next.job = worker[w].job
      /\ next.store = worker[w].store /\ next.frame = 0
      /\ fail \in WorkerRecord /\ fail.pc = "failure" /\ fail.job = worker[w].job
      /\ fail.store = worker[w].store
  BY <1>2, GoRecord DEF PC, Processing
<1>4. /\ Patch(w, "running", pct, next, fail)
      /\ UNCHANGED <<dbvars, handler, cache, ghosts, crashes, deletes>>
  BY DEF ReportExtracted, Failure
<1>5. FramesDone(next, Done(worker[w].job), cache[w][worker[w].store])
  BY <1>2, <1>3, BoundsAssumption DEF FramesDone, FrameIndex
<1>6. pct \in 0..100
  OBVIOUS
<1> HIDE DEF next, fail, pct
<1> QED
  BY <1>6, <1>1, <1>3, <1>4, <1>5, PatchStep

LEMMA ReportProgressStep ==
  ASSUME IInv, NEW w \in Worker, ReportProgress(w) PROVE IInv'
<1>1. Working(w) /\ worker[w].pc = "report"
  BY DEF ReportProgress, At, Working, Processing
<1>2. /\ cache[w][worker[w].store] # 0
      /\ \A f \in FrameIndex : f <= worker[w].frame => f \in Done(worker[w].job)
  BY <1>1 DEF IInv, FrameInv
<1> DEFINE next == NextFrame(w)
           fail == Go(w, "failure")
           pct == Percent(worker[w].frame + 1)
<1>3. /\ fail \in WorkerRecord /\ fail.pc = "failure" /\ fail.job = worker[w].job
      /\ fail.store = worker[w].store
  BY GoRecord DEF PC, Processing
<1>4. /\ next \in WorkerRecord /\ next.pc \in {"state", "finish"}
      /\ next.job = worker[w].job /\ next.store = worker[w].store
  BY NextFrameRecord
<1>5. /\ Patch(w, "running", pct, next, fail)
      /\ UNCHANGED <<dbvars, handler, cache, ghosts, crashes, deletes>>
  BY DEF ReportProgress, Failure
<1>6. pct \in 0..100
  <2>1. worker[w].frame + 1 \in Nat
    BY BoundsAssumption DEF IInv, TypeOK, FrameIndex
  <2> QED
    BY <2>1, PercentRange
<1>7. FramesDone(next, Done(worker[w].job), cache[w][worker[w].store])
  BY <1>2, NextFrameDone
<1> HIDE DEF next, fail, pct
<1> QED
  BY <1>1, <1>3, <1>4, <1>5, <1>6, <1>7, PatchStep

LEMMA ReportCompletedStep ==
  ASSUME IInv, NEW w \in Worker, ReportCompleted(w) PROVE IInv'
<1>1. Working(w) /\ worker[w].pc = "finish"
  BY DEF ReportCompleted, At, Working, Processing
<1> DEFINE fail == Go(w, "failure")
           pct == 100
<1>2. /\ fail \in WorkerRecord /\ fail.pc = "failure" /\ fail.job = worker[w].job
      /\ fail.store = worker[w].store
  BY GoRecord DEF PC, Processing
<1>3. /\ Patch(w, "completed", pct, Idle, fail)
      /\ UNCHANGED <<dbvars, handler, cache, ghosts, crashes, deletes>>
  BY DEF ReportCompleted, Failure
<1>4. FramesDone(Idle, Done(worker[w].job), cache[w][worker[w].store])
  BY IdleRecord DEF FramesDone
<1>5. Idle.pc \notin Processing /\ Idle.pc # "failure"
  BY IdleRecord DEF Processing
<1>6. pct \in 0..100
  OBVIOUS
<1> HIDE DEF fail, pct
<1> QED
  BY <1>6, <1>1, <1>2, <1>3, <1>4, <1>5, IdleRecord, PatchStep

LEMMA ReportFailureStep ==
  ASSUME IInv, NEW w \in Worker, ReportFailure(w) PROVE IInv'
<1>1. Working(w) /\ worker[w].pc = "failure"
  BY DEF ReportFailure, At, Working
<1> DEFINE exit == [Idle EXCEPT !.pc = "dead"]
           pct == 0
<1>2. exit \in WorkerRecord /\ exit.pc = "dead"
  BY IdleRecord
<1>3. /\ Patch(w, "failed", pct, Idle, exit)
      /\ UNCHANGED <<dbvars, handler, cache, ghosts, crashes, deletes>>
  BY DEF ReportFailure
<1>4. FramesDone(Idle, Done(worker[w].job), cache[w][worker[w].store])
  BY IdleRecord DEF FramesDone
<1>5. Idle.pc \notin Processing /\ Idle.pc # "failure"
  BY IdleRecord DEF Processing
<1>6. pct \in 0..100
  OBVIOUS
<1> HIDE DEF exit, pct
<1> QED
  BY <1>6, <1>1, <1>2, <1>3, <1>4, <1>5, IdleRecord, PatchStep

\* What the steps between two PATCHes have in common.
LEMMA FailStep ==
  ASSUME IInv, NEW w \in Worker, Working(w), worker[w].pc # "failure",
         worker' = [worker EXCEPT ![w] = Failure(w)],
         UNCHANGED <<dbvars, jobs, handler, cache, unreadable, crashes, deletes>>,
         posted' \in [Job -> SUBSET FrameIndex],
         \A i \in Job : posted[i] \subseteq posted'[i],
         faults' = faults \/ Fault
  PROVE  IInv'
<1> DEFINE r == Go(w, "failure")
<1>1. /\ r \in WorkerRecord /\ r.pc = "failure" /\ r.job = worker[w].job
      /\ r.store = worker[w].store
  BY GoRecord DEF PC, Processing
<1>2. worker' = [worker EXCEPT ![w] = r]
  BY DEF Failure
<1>3. faults' \in 0..MaxFaults /\ faults' >= faults
  BY BoundsAssumption DEF IInv, TypeOK, Fault
<1>4. FramesDone(r, posted'[r.job] \cup unreadable'[r.job], cache'[w][r.store])
  BY <1>1 DEF FramesDone
<1>5. /\ unreadable' \in [Job -> SUBSET FrameIndex]
      /\ cache' \in [Worker -> [Store -> 0..MaxJobs]]
      /\ \A i \in Job : unreadable[i] \subseteq unreadable'[i]
      /\ \A v \in Worker, s \in Store : cache[v][s] # 0 => cache'[v][s] # 0
  BY DEF IInv, TypeOK
<1> HIDE DEF r
<1> QED
  BY <1>1, <1>2, <1>3, <1>4, <1>5, MoveStep

LEMMA DownloadStep ==
  ASSUME IInv, NEW w \in Worker, Download(w) PROVE IInv'
<1>1. Working(w) /\ worker[w].pc = "download"
  BY DEF Download, At, Working, Processing
<1>2. UNCHANGED <<dbvars, jobs, handler, cache, posted, unreadable, crashes, deletes>>
  BY DEF Download, ghosts
<1>3. posted' \in [Job -> SUBSET FrameIndex] /\ unreadable' \in [Job -> SUBSET FrameIndex]
      /\ cache' \in [Worker -> [Store -> 0..MaxJobs]]
  BY <1>2 DEF IInv, TypeOK
<1>4. CASE worker' = [worker EXCEPT ![w] = Failure(w)]
  <2>1. faults' = faults \/ Fault
    BY DEF Download
  <2> QED
    BY <1>1, <1>2, <1>3, <1>4, <2>1, FailStep
<1>5. CASE worker' = [worker EXCEPT ![w] = Go(w, "extract")] /\ faults' = faults
  <2> DEFINE r == Go(w, "extract")
  <2>1. /\ r \in WorkerRecord /\ r.pc = "extract" /\ r.job = worker[w].job
        /\ r.store = worker[w].store /\ r.frame = worker[w].frame
    BY GoRecord DEF PC, Processing
  <2>2. FramesDone(r, posted'[r.job] \cup unreadable'[r.job], cache'[w][r.store])
    BY <1>1, <2>1 DEF FramesDone, IInv, FrameInv
  <2>3. worker' = [worker EXCEPT ![w] = r]
    BY <1>5
  <2>4. faults' \in 0..MaxFaults /\ faults' >= faults
    BY <1>5, BoundsAssumption DEF IInv, TypeOK
  <2>5. r.pc \in Processing \cup {"failure"}
    BY <2>1 DEF Processing
  <2> HIDE DEF r
  <2> QED
    BY <1>1, <1>2, <1>3, <2>1, <2>2, <2>3, <2>4, <2>5, MoveStep
<1> QED
  BY <1>4, <1>5 DEF Download

LEMMA ExtractStep ==
  ASSUME IInv, NEW w \in Worker, Extract(w) PROVE IInv'
<1>1. Working(w) /\ worker[w].pc = "extract"
  BY DEF Extract, At, Working, Processing
<1>2. UNCHANGED <<dbvars, jobs, handler, posted, unreadable, faults, crashes, deletes>>
  BY DEF Extract, ghosts, bounds
<1>3. /\ posted' \in [Job -> SUBSET FrameIndex] /\ unreadable' \in [Job -> SUBSET FrameIndex]
      /\ faults' \in 0..MaxFaults /\ faults' >= faults
  BY <1>2, BoundsAssumption DEF IInv, TypeOK
<1>4. CASE worker' = [worker EXCEPT ![w] = Failure(w)] /\ cache' = cache
  BY <1>1, <1>2, <1>3, <1>4, FailStep
<1>5. CASE /\ cache' = [cache EXCEPT ![w][worker[w].store] = worker[w].job]
           /\ worker' = [worker EXCEPT ![w] = Go(w, "extracted")]
  <2> DEFINE r == Go(w, "extracted")
  <2>1. /\ r \in WorkerRecord /\ r.pc = "extracted" /\ r.job = worker[w].job
        /\ r.store = worker[w].store /\ r.frame = worker[w].frame
    BY GoRecord DEF PC, Processing
  <2>2. worker[w].job \in Job /\ worker[w].store \in Store /\ worker[w].frame = 0
    BY <1>1 DEF IInv, WorkerInv, FrameInv
  <2>3. worker[w].job \in 0..MaxJobs /\ worker[w].job # 0
    BY <2>2, BoundsAssumption DEF Job
  <2>4. /\ cache' \in [Worker -> [Store -> 0..MaxJobs]]
        /\ cache'[w][worker[w].store] = worker[w].job
        /\ \A v \in Worker, s \in Store : cache[v][s] # 0 => cache'[v][s] # 0
    <3>1. cache \in [Worker -> [Store -> 0..MaxJobs]]
      BY DEF IInv, TypeOK
    <3>2. cache[w] \in [Store -> 0..MaxJobs]
      BY <3>1
    <3> DEFINE c == [cache[w] EXCEPT ![worker[w].store] = worker[w].job]
    <3>3. /\ c \in [Store -> 0..MaxJobs] /\ c[worker[w].store] = worker[w].job
          /\ \A s \in Store : cache[w][s] # 0 => c[s] # 0
      BY <2>2, <2>3, <3>2
    <3>4. cache' = [cache EXCEPT ![w] = c]
      BY <1>5
    <3> HIDE DEF c
    <3> QED
      BY <3>1, <3>3, <3>4
  <2>5. FramesDone(r, posted'[r.job] \cup unreadable'[r.job], cache'[w][r.store])
    BY <2>1, <2>2, <2>3, <2>4 DEF FramesDone
  <2>6. worker' = [worker EXCEPT ![w] = r]
    BY <1>5
  <2>7. r.pc \in Processing \cup {"failure"}
    BY <2>1 DEF Processing
  <2> HIDE DEF r
  <2> QED
    BY <1>1, <1>2, <1>3, <2>1, <2>4, <2>5, <2>6, <2>7, MoveStep
<1> QED
  BY <1>4, <1>5 DEF Extract

LEMMA SkipFrameStep ==
  ASSUME IInv, NEW w \in Worker, SkipFrame(w) PROVE IInv'
<1> DEFINE j == worker[w].job
           r == NextFrame(w)
<1>1. Working(w) /\ worker[w].pc = "state"
  BY DEF SkipFrame, At, Working, Processing
<1>2. UNCHANGED <<dbvars, jobs, handler, cache, posted, faults, crashes, deletes>>
  BY DEF SkipFrame, bounds
<1>3. /\ j \in Job /\ worker[w].frame \in FrameIndex /\ cache[w][worker[w].store] # 0
      /\ \A f \in FrameIndex : f < worker[w].frame => f \in Done(j)
  BY <1>1 DEF IInv, TypeOK, WorkerInv, FrameInv
<1>4. /\ r \in WorkerRecord /\ r.pc \in Processing \cup {"failure"} /\ r.job = j
      /\ r.store = worker[w].store
  BY NextFrameRecord DEF Processing
<1>5. unreadable' = [unreadable EXCEPT ![j] = unreadable[j] \cup {worker[w].frame}]
  BY DEF SkipFrame
<1>6. /\ unreadable' \in [Job -> SUBSET FrameIndex]
      /\ unreadable'[j] = unreadable[j] \cup {worker[w].frame}
      /\ \A i \in Job : unreadable[i] \subseteq unreadable'[i]
  BY <1>3, <1>5 DEF IInv, TypeOK
<1>7. /\ posted' \in [Job -> SUBSET FrameIndex] /\ cache' \in [Worker -> [Store -> 0..MaxJobs]]
      /\ faults' \in 0..MaxFaults /\ faults' >= faults
  BY <1>2, BoundsAssumption DEF IInv, TypeOK
<1>8. \A f \in FrameIndex : f <= worker[w].frame => f \in posted'[j] \cup unreadable'[j]
  BY <1>2, <1>3, <1>6, BoundsAssumption DEF Done, FrameIndex
<1>9. FramesDone(r, posted'[r.job] \cup unreadable'[r.job], cache'[w][r.store])
  BY <1>2, <1>3, <1>4, <1>8, NextFrameDone
<1>10. worker' = [worker EXCEPT ![w] = r]
  BY DEF SkipFrame
<1> HIDE DEF r
<1> QED
  BY <1>1, <1>2, <1>4, <1>6, <1>7, <1>9, <1>10, MoveStep

LEMMA PostStateStep ==
  ASSUME IInv, NEW w \in Worker, PostState(w) PROVE IInv'
<1> DEFINE j == worker[w].job
           stored == [posted EXCEPT ![j] = posted[j] \cup {worker[w].frame}]
<1>1. Working(w) /\ worker[w].pc = "state"
  BY DEF PostState, At, Working, Processing
<1>2. UNCHANGED <<dbvars, jobs, handler, cache, unreadable, crashes, deletes>>
  BY DEF PostState
<1>3. /\ j \in Job /\ worker[w].frame \in FrameIndex /\ cache[w][worker[w].store] # 0
      /\ \A f \in FrameIndex : f < worker[w].frame => f \in Done(j)
  BY <1>1 DEF IInv, TypeOK, WorkerInv, FrameInv
<1>4. /\ stored \in [Job -> SUBSET FrameIndex]
      /\ stored[j] = posted[j] \cup {worker[w].frame}
      /\ \A i \in Job : posted[i] \subseteq stored[i]
  BY <1>3 DEF IInv, TypeOK
<1>5. CASE worker' = [worker EXCEPT ![w] = Failure(w)] /\ Fault /\ posted' \in {posted, stored}
  <2>1. posted' \in [Job -> SUBSET FrameIndex] /\ \A i \in Job : posted[i] \subseteq posted'[i]
    BY <1>4, <1>5 DEF IInv, TypeOK
  <2> HIDE DEF stored
  <2> QED
    BY <1>1, <1>2, <1>5, <2>1, FailStep
<1>6. CASE posted' = stored /\ worker' = [worker EXCEPT ![w] = Go(w, "occupancy")]
           /\ faults' = faults
  <2> DEFINE r == Go(w, "occupancy")
  <2>1. /\ r \in WorkerRecord /\ r.pc = "occupancy" /\ r.job = j
        /\ r.store = worker[w].store /\ r.frame = worker[w].frame
    BY GoRecord DEF PC, Processing
  <2>2. \A f \in FrameIndex : f <= worker[w].frame => f \in posted'[j] \cup unreadable'[j]
    BY <1>2, <1>3, <1>4, <1>6, BoundsAssumption DEF Done, FrameIndex
  <2>3. FramesDone(r, posted'[r.job] \cup unreadable'[r.job], cache'[w][r.store])
    BY <1>2, <1>3, <2>1, <2>2 DEF FramesDone
  <2>4. /\ unreadable' \in [Job -> SUBSET FrameIndex] /\ cache' \in [Worker -> [Store -> 0..MaxJobs]]
        /\ posted' \in [Job -> SUBSET FrameIndex]
        /\ \A i \in Job : posted[i] \subseteq posted'[i]
        /\ faults' \in 0..MaxFaults /\ faults' >= faults
    BY <1>2, <1>4, <1>6, BoundsAssumption DEF IInv, TypeOK
  <2>5. worker' = [worker EXCEPT ![w] = r]
    BY <1>6
  <2>6. r.pc \in Processing \cup {"failure"}
    BY <2>1 DEF Processing
  <2> HIDE DEF r, stored
  <2> QED
    BY <1>1, <1>2, <2>1, <2>3, <2>4, <2>5, <2>6, MoveStep
<1> QED
  BY <1>5, <1>6 DEF PostState

LEMMA PostOccupancyStep ==
  ASSUME IInv, NEW w \in Worker, PostOccupancy(w) PROVE IInv'
<1> DEFINE j == worker[w].job
<1>1. Working(w) /\ worker[w].pc = "occupancy"
  BY DEF PostOccupancy, At, Working, Processing
<1>2. UNCHANGED <<dbvars, jobs, handler, cache, posted, unreadable, crashes, deletes>>
  BY DEF PostOccupancy, ghosts
<1>3. /\ cache[w][worker[w].store] # 0
      /\ \A f \in FrameIndex : f <= worker[w].frame => f \in Done(j)
  BY <1>1 DEF IInv, FrameInv
<1>4. /\ posted' \in [Job -> SUBSET FrameIndex] /\ unreadable' \in [Job -> SUBSET FrameIndex]
      /\ cache' \in [Worker -> [Store -> 0..MaxJobs]]
  BY <1>2 DEF IInv, TypeOK
<1>5. CASE worker' = [worker EXCEPT ![w] = Failure(w)] /\ (faults' = faults \/ Fault)
  BY <1>1, <1>2, <1>4, <1>5, FailStep
<1>6. ASSUME NEW r \in {Go(w, "report"), NextFrame(w)},
             worker' = [worker EXCEPT ![w] = r], faults' = faults
      PROVE  IInv'
  <2>1. /\ r \in WorkerRecord /\ r.pc \in Processing \cup {"failure"} /\ r.job = j
        /\ r.store = worker[w].store
    BY GoRecord, NextFrameRecord DEF PC, Processing
  <2>2. FramesDone(r, Done(j), cache[w][worker[w].store])
    <3>1. CASE r = NextFrame(w)
      BY <1>3, <3>1, NextFrameDone
    <3>2. CASE r = Go(w, "report")
      <4>1. r.pc = "report" /\ r.frame = worker[w].frame
        BY <3>2, GoRecord DEF PC, Processing
      <4> QED
        BY <1>3, <4>1 DEF FramesDone
    <3> QED
      BY <3>1, <3>2
  <2>3. FramesDone(r, posted'[r.job] \cup unreadable'[r.job], cache'[w][r.store])
    BY <1>2, <2>1, <2>2 DEF Done
  <2>4. faults' \in 0..MaxFaults /\ faults' >= faults
    BY <1>6, BoundsAssumption DEF IInv, TypeOK
  <2> QED
    BY <1>1, <1>2, <1>4, <1>6, <2>1, <2>3, <2>4, MoveStep
<1> QED
  BY <1>5, <1>6 DEF PostOccupancy

-----------------------------------------------------------------------------
(* The inductive invariant and what follows from it *)

LEMMA StutterStep == ASSUME IInv, UNCHANGED vars PROVE IInv'
BY DEF IInv, TypeOK, HandlerInv, WorkerInv, ExclusiveProcessing, FrameInv, CompletedInv,
   UploadInv, Working, Holds, Done, vars, dbvars, ghosts, bounds

LEMMA NextStep == ASSUME IInv, [Next]_vars PROVE IInv'
<1>1. CASE UNCHANGED vars
  BY <1>1, StutterStep
<1>2. CASE ClientStep
  BY <1>2, CreateStoreStep, BeginUploadStep, FinishUploadStep, DeleteStoreStep,
     CreateJobStep DEF ClientStep
<1>3. ASSUME NEW w \in Worker, ApiStep(w) PROVE IInv'
  BY <1>3, CommitClaimStep, AbortClaimStep, AnswerClaimStep, LoseClaimAnswerStep DEF ApiStep
<1>4. ASSUME NEW w \in Worker, WorkerStep(w) PROVE IInv'
  BY <1>4, PollAndLockStep, StartJobStep, DownloadStep, ExtractStep, ReportExtractedStep,
     SkipFrameStep, PostStateStep, PostOccupancyStep, ReportProgressStep,
     ReportCompletedStep, ReportFailureStep DEF WorkerStep
<1>5. ASSUME NEW w \in Worker, Crash(w) \/ Restart(w) PROVE IInv'
  BY <1>5, CrashStep, RestartStep
<1> QED
  BY <1>1, <1>2, <1>3, <1>4, <1>5 DEF Next

LEMMA Invariance == Spec => []IInv
<1>1. Init => IInv
  BY InitIInv
<1>2. IInv /\ [Next]_vars => IInv'
  BY NextStep
<1> QED
  BY <1>1, <1>2, PTL DEF Spec

\* Every reachable state of the upload pipeline is well-typed.
THEOREM TypeCorrect == Spec => []TypeOK
<1>1. IInv => TypeOK
  BY DEF IInv
<1> QED
  BY <1>1, Invariance, PTL

\* For any number of workers and any pattern of crashes, lost calls and
\* aborted claims, no job is ever in the hands of two workers.
THEOREM ExclusiveClaim == Spec => []ExclusiveProcessing
<1>1. IInv => ExclusiveProcessing
  BY DEF IInv
<1> QED
  BY <1>1, Invariance, PTL

\* A worker only ever PATCHes a row that names it as worker_id and that is
\* running, unless the store was deleted or its own last call got lost.
OwnRow ==
  \A w \in Worker : Working(w) =>
    LET row == jobs[worker[w].job] IN
    /\ row.owner = w
    /\ \/ row.status \in {"running", "deleted"}
       \/ row.status \in Terminal /\ At(w, "failure") /\ faults > 0

\* A worker only reports on a row that is its own and running, up to deletion
\* and its own lost calls.
THEOREM WorkerOwnsItsRow == Spec => []OwnRow
<1>1. IInv => OwnRow
  BY DEF IInv, WorkerInv, OwnRow, At
<1> QED
  BY <1>1, Invariance, PTL

\* A completed job had all its frames stored or skipped, and is cached.
THEOREM CompletedMeansComplete == Spec => []CompletedIsComplete
<1>1. IInv => CompletedIsComplete
  BY DEF IInv, TypeOK, CompletedInv, CompletedIsComplete, Done
<1> QED
  BY <1>1, Invariance, PTL

\* Live job rows refer to media of their own store.
THEOREM MediaReferences == Spec => []JobHasItsMedia
<1>1. IInv => JobHasItsMedia
  BY DEF IInv, UploadInv, JobHasItsMedia
<1> QED
  BY <1>1, Invariance, PTL

-----------------------------------------------------------------------------
(* Steps: finished jobs stay finished, and the job table is the queue *)

\* What a PATCH does to the job rows.
LEMMA PatchEffect ==
  ASSUME IInv, NEW w \in Worker, Working(w),
         NEW st \in {"running", "completed", "failed"}, NEW pct, NEW next, NEW onError,
         Patch(w, st, pct, next, onError), worker[w].pc = "failure" => st = "failed"
  PROVE  LET j == worker[w].job IN
         /\ j \in Job /\ jobs[j].owner = w /\ jobs'[j].owner = w
         /\ \A i \in Job : i # j => jobs'[i] = jobs[i]
         /\ \/ jobs'[j].status = jobs[j].status
            \/ /\ jobs'[j].status = st
               /\ \/ jobs[j].status = "running"
                  \/ jobs[j].status \in Terminal /\ faults > 0 /\ st = "failed"
<1> DEFINE j == worker[w].job
<1>1. /\ j \in Job /\ jobs[j].owner = w
      /\ \/ jobs[j].status \in {"running", "deleted"}
         \/ jobs[j].status \in Terminal /\ worker[w].pc = "failure" /\ faults > 0
  BY DEF IInv, WorkerInv
<1>2. \/ jobs' = jobs
      \/ jobs' = Written(w, st, pct) /\ jobs[j].status \in Live
  BY DEF Patch, Exists
<1>3. CASE jobs' = jobs
  BY <1>1, <1>3
<1>4. CASE jobs' = Written(w, st, pct) /\ jobs[j].status \in Live
  <2>1. jobs[j] \in Row
    BY <1>1 DEF IInv, TypeOK
  <2>2. /\ jobs'[j] = Reported(jobs[j], w, st, pct)
        /\ \A i \in Job : i # j => jobs'[i] = jobs[i]
    BY <1>1, <1>4 DEF Written, IInv, TypeOK
  <2>3. jobs'[j].status = st /\ jobs'[j].owner = w
    BY <2>1, <2>2 DEF Row, Reported
  <2>4. jobs[j].status = "running" \/ (jobs[j].status \in Terminal /\ faults > 0 /\ st = "failed")
    BY <1>1, <1>4 DEF Live
  <2> QED
    BY <1>1, <2>2, <2>3, <2>4
<1> QED
  BY <1>2, <1>3, <1>4

\* The steps that PATCH, and what they send.
Reports(w) ==
  \/ StartJob(w) \/ ReportExtracted(w) \/ ReportProgress(w)
  \/ ReportCompleted(w) \/ ReportFailure(w)

LEMMA ReportEffect ==
  ASSUME IInv, NEW w \in Worker, Reports(w)
  PROVE  \E j \in Job, st \in {"running", "completed", "failed"} :
           /\ jobs[j].owner = w /\ jobs'[j].owner = w
           /\ \A i \in Job : i # j => jobs'[i] = jobs[i]
           /\ \/ jobs'[j].status = jobs[j].status
              \/ /\ jobs'[j].status = st
                 /\ \/ jobs[j].status = "running"
                    \/ jobs[j].status \in Terminal /\ faults > 0 /\ st = "failed"
<1>1. CASE StartJob(w)
  <2>1. Working(w) /\ worker[w].pc # "failure" /\ Patch(w, "running", 5, Go(w, "download"), Failure(w))
    BY <1>1 DEF StartJob, At, Working, Processing
  <2> QED
    BY <2>1, PatchEffect
<1>2. CASE ReportExtracted(w)
  <2>1. Working(w) /\ worker[w].pc # "failure" /\ Patch(w, "running", 15, Go(w, "state"), Failure(w))
    BY <1>2 DEF ReportExtracted, At, Working, Processing
  <2> QED
    BY <2>1, PatchEffect
<1>3. CASE ReportProgress(w)
  <2>1. /\ Working(w) /\ worker[w].pc # "failure"
        /\ Patch(w, "running", Percent(worker[w].frame + 1), NextFrame(w), Failure(w))
    BY <1>3 DEF ReportProgress, At, Working, Processing
  <2> QED
    BY <2>1, PatchEffect
<1>4. CASE ReportCompleted(w)
  <2>1. Working(w) /\ worker[w].pc # "failure" /\ Patch(w, "completed", 100, Idle, Failure(w))
    BY <1>4 DEF ReportCompleted, At, Working, Processing
  <2> QED
    BY <2>1, PatchEffect
<1>5. CASE ReportFailure(w)
  <2>1. Working(w) /\ Patch(w, "failed", 0, Idle, [Idle EXCEPT !.pc = "dead"])
    BY <1>5 DEF ReportFailure, At, Working
  <2> QED
    BY <2>1, PatchEffect
<1> QED
  BY <1>1, <1>2, <1>3, <1>4, <1>5 DEF Reports

\* Every other step but these three leaves the job rows alone.
LEMMA JobSteps ==
  ASSUME IInv, [Next]_vars
  PROVE  \/ jobs' = jobs
         \/ \E j \in Job, m \in Media : CreateJob(j, m)
         \/ \E s \in Store : DeleteStore(s)
         \/ \E w \in Worker : CommitClaim(w) \/ Reports(w)
BY DEF Next, ClientStep, ApiStep, WorkerStep, Reports, CreateStore, BeginUpload,
   FinishUpload, PollAndLock, AbortClaim, AnswerClaim, LoseClaimAnswer, Download, Extract,
   SkipFrame, PostState, PostOccupancy, Crash, Restart, vars

\* The action FinishedStays asserts of every step.
KeepsFinished ==
  \A j \in Job :
    /\ jobs[j].status \in Terminal => jobs'[j].status \in Terminal \cup {"deleted"}
    /\ jobs[j].status = "failed" => jobs'[j].status # "completed"
    /\ jobs[j].status = "completed" /\ jobs'[j].status = "failed" => faults > 0

LEMMA KeepsFinishedStep == ASSUME IInv, [Next]_vars PROVE KeepsFinished
<1>1. CASE jobs' = jobs
  BY <1>1 DEF KeepsFinished, Terminal
<1>2. ASSUME NEW j \in Job, NEW m \in Media, CreateJob(j, m) PROVE KeepsFinished
  <2>1. jobs[j].status = "none" /\ \A i \in Job : i # j => jobs'[i] = jobs[i]
    BY <1>2 DEF CreateJob, IInv, TypeOK
  <2> QED
    BY <2>1 DEF KeepsFinished, Terminal
<1>3. ASSUME NEW s \in Store, DeleteStore(s) PROVE KeepsFinished
  <2>1. \A i \in Job : jobs'[i].status \in {jobs[i].status, "deleted"}
    <3> SUFFICES ASSUME NEW i \in Job PROVE jobs'[i].status \in {jobs[i].status, "deleted"}
      OBVIOUS
    <3>1. jobs[i] \in Row
      BY DEF IInv, TypeOK
    <3>2. jobs'[i] = jobs[i] \/ jobs'[i] = [jobs[i] EXCEPT !.status = "deleted"]
      BY <1>3 DEF DeleteStore
    <3> QED
      BY <3>1, <3>2, DeletedRow
  <2> QED
    BY <2>1 DEF KeepsFinished, Terminal
<1>4. ASSUME NEW w \in Worker, CommitClaim(w) PROVE KeepsFinished
  <2>1. /\ handler[w].job \in Job /\ jobs[handler[w].job].status = "queued"
        /\ \A i \in Job : i # handler[w].job => jobs'[i] = jobs[i]
    BY <1>4 DEF CommitClaim, IInv, HandlerInv, TypeOK
  <2> QED
    BY <2>1 DEF KeepsFinished, Terminal
<1>5. ASSUME NEW w \in Worker, Reports(w) PROVE KeepsFinished
  BY <1>5, ReportEffect DEF KeepsFinished, Terminal
<1> QED
  BY <1>1, <1>2, <1>3, <1>4, <1>5, JobSteps

\* No step takes a job out of a finished state, except a lost reply's failure
\* report and a deletion, however many workers and failures there are.
THEOREM FinishedJobsStay == Spec => FinishedStays
<1>1. IInv /\ [Next]_vars => [KeepsFinished]_vars
  BY KeepsFinishedStep
<1> QED
  BY <1>1, Invariance, PTL DEF Spec, FinishedStays, KeepsFinished

LEMMA QueueStep ==
  ASSUME IInv, [Next]_vars PROVE [Queue!QueueNext]_(Queue!qvars)
<1> DEFINE st == [j \in Job |-> jobs[j].status]
           ow == [j \in Job |-> jobs[j].owner]
<1>1. CASE jobs' = jobs
  BY <1>1 DEF Queue!qvars
<1>2. ASSUME NEW j \in Job, NEW m \in Media, CreateJob(j, m) PROVE Queue!Enqueue(j)
  <2>1. /\ jobs[j].status = "none" /\ \A i \in Job : i # j => jobs'[i] = jobs[i]
        /\ jobs'[j].status = "queued" /\ jobs'[j].owner = NoWorker
    BY <1>2 DEF CreateJob, IInv, TypeOK
  <2> QED
    BY <2>1 DEF Queue!Enqueue
<1>3. ASSUME NEW s \in Store, DeleteStore(s)
      PROVE  \E J \in SUBSET Job : Queue!Remove(J)
  <2> DEFINE J == {j \in Job : jobs[j].status \in Live /\ jobs[j].store = s}
  <2>1. \A i \in Job : /\ jobs'[i].owner = jobs[i].owner
                       /\ jobs'[i].status = IF i \in J THEN "deleted" ELSE jobs[i].status
    <3> SUFFICES ASSUME NEW i \in Job
                 PROVE  /\ jobs'[i].owner = jobs[i].owner
                        /\ jobs'[i].status = IF i \in J THEN "deleted" ELSE jobs[i].status
      OBVIOUS
    <3>1. jobs[i] \in Row
      BY DEF IInv, TypeOK
    <3>2. jobs'[i] = IF i \in J THEN [jobs[i] EXCEPT !.status = "deleted"] ELSE jobs[i]
      BY <1>3 DEF DeleteStore
    <3> QED
      BY <3>1, <3>2, DeletedRow
  <2>2. \A i \in J : jobs[i].status \in Live
    OBVIOUS
  <2> HIDE DEF J
  <2>3. J \in SUBSET Job
    BY DEF J
  <2> QED
    BY <2>1, <2>2, <2>3 DEF Queue!Remove, Queue!Live, Live
<1>4. ASSUME NEW w \in Worker, CommitClaim(w)
      PROVE  \E j \in Job : Queue!Claim(w, j)
  <2> DEFINE j == handler[w].job
  <2>1. /\ j \in Job /\ jobs[j].status = "queued"
        /\ jobs'[j] = Handed(jobs[j], w)
        /\ \A i \in Job : i # j => jobs'[i] = jobs[i]
    BY <1>4 DEF CommitClaim, IInv, HandlerInv, TypeOK
  <2>2. jobs'[j].status = "running" /\ jobs'[j].owner = w
    BY <2>1, HandedRow DEF IInv, TypeOK
  <2> QED
    BY <2>1, <2>2 DEF Queue!Claim
<1>5. ASSUME NEW w \in Worker, Reports(w)
      PROVE  [\E j \in Job, s \in Queue!Terminal \cup {"running"} : Queue!Report(j, s)]_(Queue!qvars)
  <2>1. PICK j \in Job, s \in {"running", "completed", "failed"} :
           /\ jobs[j].owner = w /\ jobs'[j].owner = w
           /\ \A i \in Job : i # j => jobs'[i] = jobs[i]
           /\ \/ jobs'[j].status = jobs[j].status
              \/ /\ jobs'[j].status = s
                 /\ \/ jobs[j].status = "running"
                    \/ jobs[j].status \in Terminal /\ faults > 0 /\ s = "failed"
    BY <1>5, ReportEffect
  <2>2. [i \in Job |-> jobs'[i].owner] = [i \in Job |-> jobs[i].owner]
    BY <2>1
  <2>3. CASE jobs'[j].status = jobs[j].status
    <3>1. [i \in Job |-> jobs'[i].status] = [i \in Job |-> jobs[i].status]
      BY <2>1, <2>3
    <3> QED
      BY <2>2, <3>1 DEF Queue!qvars
  <2>4. CASE /\ jobs'[j].status = s /\ jobs'[j].status # jobs[j].status
             /\ \/ jobs[j].status = "running"
                \/ jobs[j].status \in Terminal /\ faults > 0 /\ s = "failed"
    <3>1. jobs[j].status = "running" \/ (jobs[j].status = "completed" /\ s = "failed")
      BY <2>4 DEF Terminal
    <3>2. [i \in Job |-> jobs'[i].status] = [[i \in Job |-> jobs[i].status] EXCEPT ![j] = s]
      BY <2>1, <2>4
    <3>3. s \in Queue!Terminal \cup {"running"}
      BY DEF Queue!Terminal
    <3>4. Queue!Report(j, s)
      BY <2>1, <2>2, <3>1, <3>2 DEF Queue!Report
    <3> QED
      BY <3>3, <3>4
  <2> QED
    BY <2>1, <2>3, <2>4
<1> QED
  BY <1>1, <1>2, <1>3, <1>4, <1>5, JobSteps DEF Queue!QueueNext

\* The job table, with its transactions, lost calls, crashes and deletions,
\* implements the atomic job queue.
THEOREM PipelineImplementsQueue == Spec => ImplementsQueue
<1>1. Init => Queue!QueueInit
  BY DEF Init, Queue!QueueInit, NoRow
<1>2. IInv /\ [Next]_vars => [Queue!QueueNext]_(Queue!qvars)
  BY QueueStep
<1> QED
  BY <1>1, <1>2, Invariance, PTL DEF Spec, ImplementsQueue, Queue!QueueSpec

-----------------------------------------------------------------------------
(* The progress of a job *)

\* How far the row of a worker's job can be, from where the worker is.
Within(r, pct) ==
  /\ r.pc = "start" => pct = 0
  /\ r.pc \in {"download", "extract", "extracted"} => pct <= 5
  /\ r.pc \in {"state", "occupancy", "report"} => pct <= Percent(r.frame)

\* A row nobody has begun is at 0, and no row is ahead of its worker.
ProgressInv ==
  /\ \A j \in Job : jobs[j].status \in {"none", "queued"} => jobs[j].progress = 0
  /\ \A w \in Worker : handler[w].step = "committed" => jobs[handler[w].job].progress = 0
  /\ \A w \in Worker : Working(w) => Within(worker[w], jobs[worker[w].job].progress)

\* The action ProgressOnlyGrows asserts of every step.
Grows == \A j \in Job : jobs'[j].progress >= jobs[j].progress

LEMMA PercentGrows ==
  ASSUME NEW n \in Nat PROVE 15 <= Percent(n) /\ Percent(n) <= Percent(n + 1)
<1> DEFINE a == (80 * n) \div Frames
           b == (80 * (n + 1)) \div Frames
<1>1. a \in Nat /\ b \in Nat /\ a <= b
  <2>1. Frames \in Nat /\ Frames > 0
    BY BoundsAssumption
  <2>2. PICK x \in Nat : x = a
    BY <2>1, SMTT(30)
  <2>3. PICK y \in Nat : y = b
    BY <2>1, SMTT(30)
  <2>4. Frames * x <= 80 * n
    BY <2>1, <2>2, SMTT(30)
  <2>5. 80 * (n + 1) < Frames * (y + 1)
    BY <2>1, <2>3, SMTT(30)
  <2>6. Frames * x < Frames * (y + 1)
    BY <2>1, <2>2, <2>3, <2>4, <2>5, SMTT(30)
  <2>7. x < y + 1
    BY <2>1, <2>2, <2>3, <2>6, SMTT(30)
  <2> QED
    BY <2>2, <2>3, <2>7
<1> HIDE DEF a, b
<1>2. /\ Percent(n) = IF 15 + a > 98 THEN 98 ELSE 15 + a
      /\ Percent(n + 1) = IF 15 + b > 98 THEN 98 ELSE 15 + b
  BY DEF Percent, a, b
<1> QED
  BY <1>1, <1>2

\* The worker moves, or the handler does, and the rows stay.
LEMMA MoveProgress ==
  ASSUME IInv, ProgressInv, NEW w \in Worker, NEW r \in WorkerRecord, NEW h,
         worker' = [worker EXCEPT ![w] = r], handler' = [handler EXCEPT ![w] = h], jobs' = jobs,
         h = handler[w] \/ h.step # "committed",
         r = worker[w] \/ r.pc \notin Processing \/ Within(r, jobs[r.job].progress)
  PROVE  ProgressInv' /\ Grows
<1>1. /\ worker'[w] = r /\ handler'[w] = h
      /\ \A v \in Worker : v # w => worker'[v] = worker[v] /\ handler'[v] = handler[v]
  BY DEF IInv, TypeOK
<1>2. Grows
  <2>1. \A j \in Job : jobs[j].progress \in 0..100
    BY DEF IInv, TypeOK, Row
  <2> QED
    BY <2>1 DEF Grows
<1>3. \A v \in Worker : handler'[v].step = "committed" => handler'[v] = handler[v]
  BY <1>1
<1>4. \A v \in Worker : Working(v)' => Within(worker'[v], jobs[worker'[v].job].progress)
  <2> SUFFICES ASSUME NEW v \in Worker, Working(v)' PROVE Within(worker'[v], jobs[worker'[v].job].progress)
    OBVIOUS
  <2>1. CASE worker'[v] = worker[v]
    BY <2>1 DEF ProgressInv, Working
  <2>2. CASE v = w /\ r.pc \notin Processing
    BY <1>1, <2>2 DEF Within, Processing
  <2>3. CASE v = w /\ Within(r, jobs[r.job].progress)
    BY <1>1, <2>3
  <2> QED
    BY <1>1, <2>1, <2>2, <2>3
<1> QED
  BY <1>2, <1>3, <1>4 DEF ProgressInv, Within

\* A report whose percentage is not below the row's.
LEMMA ReportProgresses ==
  ASSUME IInv, ProgressInv, NEW w \in Worker, Working(w),
         NEW st \in {"running", "completed", "failed"}, NEW pct \in 0..100,
         NEW next \in WorkerRecord, NEW onError \in WorkerRecord,
         Patch(w, st, pct, next, onError), UNCHANGED handler,
         st # "failed" => jobs[worker[w].job].progress <= pct,
         next.pc \in Processing => next.job = worker[w].job /\ st # "failed" /\ Within(next, pct),
         onError.pc \notin Processing
  PROVE  ProgressInv' /\ Grows
<1> DEFINE j == worker[w].job
<1>1. j \in Job /\ jobs[j] \in Row
  BY DEF IInv, TypeOK, WorkerInv
<1>2. /\ jobs[j].status \notin {"none", "queued"}
      /\ \A v \in Worker : v # w => ~Holds(v, j)
  BY <1>1 DEF IInv, WorkerInv, ExclusiveProcessing, Holds, Terminal
<1>3. PICK r \in {next, onError} : worker' = [worker EXCEPT ![w] = r]
  BY DEF Patch
<1>4. /\ worker'[w] = r /\ \A v \in Worker : v # w => worker'[v] = worker[v]
  BY <1>3 DEF IInv, TypeOK
<1>5. CASE jobs' = jobs /\ worker'[w].pc \notin Processing
  <2>1. handler' = [handler EXCEPT ![w] = handler[w]]
    BY DEF IInv, TypeOK
  <2>2. r \in WorkerRecord /\ r.pc \notin Processing
    BY <1>4, <1>5
  <2> QED
    BY <1>3, <1>5, <2>1, <2>2, MoveProgress
<1>6. CASE jobs' = Written(w, st, pct)
  <2>1. /\ jobs'[j] = Reported(jobs[j], w, st, pct)
        /\ \A i \in Job : i # j => jobs'[i] = jobs[i]
    BY <1>1, <1>6 DEF Written, IInv, TypeOK
  <2>2. /\ jobs'[j].status = st
        /\ jobs'[j].progress = IF st = "failed" THEN jobs[j].progress ELSE pct
    BY <1>1, <2>1 DEF Row, Reported
  <2>3. \A i \in Job : jobs[i].progress \in 0..100
    BY DEF IInv, TypeOK, Row
  <2>4. Grows
    BY <1>1, <2>1, <2>2, <2>3, SMTT(20) DEF Grows
  <2>5. \A v \in Worker : handler[v].step = "committed" => handler[v].job \in Job /\ handler[v].job # j
    <3>1. handler[w].step = "none"
      BY DEF IInv, HandlerInv
    <3> QED
      BY <1>2, <3>1 DEF IInv, HandlerInv, Holds
  <2>6. \A v \in Worker : v # w /\ Working(v) => worker[v].job \in Job /\ worker[v].job # j
    BY <1>2 DEF IInv, WorkerInv, Holds
  <2>7. ASSUME NEW v \in Worker, Working(v)' PROVE Within(worker'[v], jobs'[worker'[v].job].progress)
    <3>1. CASE v # w
      BY <1>4, <2>1, <2>6, <2>7, <3>1 DEF ProgressInv, Working
    <3>2. CASE v = w /\ worker'[w].pc \notin Processing
      BY <3>2 DEF Within, Processing
    <3>3. CASE v = w /\ worker'[w].pc \in Processing
      <4>1. r = next
        BY <1>3, <1>4, <3>3
      <4>2. next.job = j /\ st # "failed" /\ Within(next, pct)
        BY <1>4, <3>3, <4>1
      <4> QED
        BY <1>4, <2>2, <3>3, <4>1, <4>2
    <3> QED
      BY <3>1, <3>2, <3>3
  <2>8. \A i \in Job : jobs'[i].status \in {"none", "queued"} => jobs'[i] = jobs[i]
    BY <2>1, <2>2
  <2>9. \A i \in Job : jobs'[i].status \in {"none", "queued"} => jobs'[i].progress = 0
    BY <2>8 DEF ProgressInv
  <2>10. \A v \in Worker : handler'[v].step = "committed" => jobs'[handler'[v].job].progress = 0
    BY <2>1, <2>5 DEF ProgressInv
  <2>11. ProgressInv'
    BY <2>7, <2>9, <2>10 DEF ProgressInv
  <2> QED
    BY <2>4, <2>11
<1>7. \/ jobs' = Written(w, st, pct)
      \/ jobs' = jobs /\ worker' = [worker EXCEPT ![w] = onError]
  BY DEF Patch
<1>8. worker' = [worker EXCEPT ![w] = onError] => worker'[w].pc \notin Processing
  BY DEF IInv, TypeOK
<1> QED
  BY <1>5, <1>6, <1>7, <1>8

-----------------------------------------------------------------------------
(* Its steps *)

\* What a report leaves behind: nobody else is disturbed, and where to go next.
LEMMA WorkerFacts ==
  ASSUME IInv, NEW w \in Worker
  PROVE  /\ worker[w] \in WorkerRecord /\ worker[w].frame \in Nat
         /\ handler' = handler => handler' = [handler EXCEPT ![w] = handler[w]]
         /\ Working(w) => worker[w].job \in Job /\ jobs[worker[w].job].progress \in 0..100
  BY BoundsAssumption, SMTT(20) DEF IInv, TypeOK, WorkerRecord, FrameIndex, WorkerInv, Row

LEMMA StartJobProgress ==
  ASSUME IInv, ProgressInv, NEW w \in Worker, StartJob(w) PROVE ProgressInv' /\ Grows
<1> DEFINE next == Go(w, "download")
           fail == Go(w, "failure")
           pct == 5
<1>1. Working(w) /\ worker[w].pc = "start"
  BY DEF StartJob, At, Working, Processing
<1>2. /\ next \in WorkerRecord /\ next.pc = "download" /\ next.job = worker[w].job
      /\ fail \in WorkerRecord /\ fail.pc = "failure"
  BY GoRecord DEF PC, Processing
<1>3. Patch(w, "running", pct, next, fail) /\ UNCHANGED handler
  BY DEF StartJob, Failure
<1>4. pct \in 0..100 /\ jobs[worker[w].job].progress <= pct
  BY <1>1 DEF ProgressInv, Within
<1>5. Within(next, pct)
  BY <1>2 DEF Within
<1>6. fail.pc \notin Processing
  BY <1>2 DEF Processing
<1> HIDE DEF next, fail, pct
<1> QED
  BY <1>1, <1>2, <1>3, <1>4, <1>5, <1>6, ReportProgresses

LEMMA ReportExtractedProgress ==
  ASSUME IInv, ProgressInv, NEW w \in Worker, ReportExtracted(w) PROVE ProgressInv' /\ Grows
<1> DEFINE next == Go(w, "state")
           fail == Go(w, "failure")
           pct == 15
<1>1. Working(w) /\ worker[w].pc = "extracted"
  BY DEF ReportExtracted, At, Working, Processing
<1>2. /\ next \in WorkerRecord /\ next.pc = "state" /\ next.job = worker[w].job
      /\ next.frame = worker[w].frame
      /\ fail \in WorkerRecord /\ fail.pc = "failure"
  BY GoRecord DEF PC, Processing
<1>3. Patch(w, "running", pct, next, fail) /\ UNCHANGED handler
  BY DEF ReportExtracted, Failure
<1>4. pct \in 0..100 /\ jobs[worker[w].job].progress <= pct
  <2>1. jobs[worker[w].job].progress <= 5
    BY <1>1 DEF ProgressInv, Within
  <2> QED
    BY <1>1, <2>1, WorkerFacts
<1>5. Within(next, pct)
  BY <1>2, WorkerFacts, PercentGrows DEF Within
<1>6. fail.pc \notin Processing
  BY <1>2 DEF Processing
<1> HIDE DEF next, fail, pct
<1> QED
  BY <1>1, <1>2, <1>3, <1>4, <1>5, <1>6, ReportProgresses

LEMMA ReportProgressProgress ==
  ASSUME IInv, ProgressInv, NEW w \in Worker, ReportProgress(w) PROVE ProgressInv' /\ Grows
<1> DEFINE next == NextFrame(w)
           fail == Go(w, "failure")
           pct == Percent(worker[w].frame + 1)
<1>1. Working(w) /\ worker[w].pc = "report"
  BY DEF ReportProgress, At, Working, Processing
<1>2. /\ next \in WorkerRecord /\ next.job = worker[w].job
      /\ next.pc = "finish" \/ (next.pc = "state" /\ next.frame = worker[w].frame + 1)
      /\ fail \in WorkerRecord /\ fail.pc = "failure"
  BY NextFrameRecord, GoRecord DEF PC, Processing
<1>3. Patch(w, "running", pct, next, fail) /\ UNCHANGED handler
  BY DEF ReportProgress, Failure
<1>4. pct \in 0..100 /\ jobs[worker[w].job].progress <= pct
  <2>1. jobs[worker[w].job].progress <= Percent(worker[w].frame)
    BY <1>1 DEF ProgressInv, Within
  <2>2. worker[w].frame \in Nat /\ worker[w].frame + 1 \in Nat
    BY WorkerFacts
  <2>3. PICK a \in 0..100, b \in 0..100 : /\ a = Percent(worker[w].frame) /\ b = Percent(worker[w].frame + 1)
                                         /\ a <= b
    BY <2>2, PercentRange, PercentGrows
  <2>4. jobs[worker[w].job].progress \in 0..100
    BY <1>1, WorkerFacts
  <2> QED
    BY <2>1, <2>3, <2>4, SMTT(20)
<1>5. Within(next, pct)
  <2>1. pct <= pct
    BY <1>4
  <2> QED
    BY <1>2, <2>1 DEF Within
<1>6. fail.pc \notin Processing
  BY <1>2 DEF Processing
<1> HIDE DEF next, fail, pct
<1> QED
  BY <1>1, <1>2, <1>3, <1>4, <1>5, <1>6, ReportProgresses

\* The two reports that end a job.
LEMMA EndJobProgress ==
  ASSUME IInv, ProgressInv, NEW w \in Worker, ReportCompleted(w) \/ ReportFailure(w)
  PROVE  ProgressInv' /\ Grows
<1> DEFINE dead == [Idle EXCEPT !.pc = "dead"]
           fail == Go(w, "failure")
<1>1. /\ Working(w) /\ UNCHANGED handler
      /\ \/ Patch(w, "completed", 100, Idle, fail)
         \/ Patch(w, "failed", 0, Idle, dead)
  BY DEF ReportCompleted, ReportFailure, Failure, At, Working, Processing
<1>2. /\ Idle \in WorkerRecord /\ Idle.pc \notin Processing
      /\ dead \in WorkerRecord /\ dead.pc \notin Processing
      /\ fail \in WorkerRecord /\ fail.pc \notin Processing
  BY IdleRecord, GoRecord DEF PC, Processing
<1>3. jobs[worker[w].job].progress <= 100
  BY <1>1, WorkerFacts, SMTT(20)
<1> HIDE DEF dead, fail
<1>4. CASE Patch(w, "completed", 100, Idle, fail)
  <2>1. 100 \in 0..100
    OBVIOUS
  <2> QED
    BY <1>1, <1>2, <1>3, <1>4, <2>1, ReportProgresses
<1>5. CASE Patch(w, "failed", 0, Idle, dead)
  <2>1. 0 \in 0..100
    OBVIOUS
  <2> QED
    BY <1>1, <1>2, <1>5, <2>1, ReportProgresses
<1> QED
  BY <1>1, <1>4, <1>5

\* The worker's steps between two reports.
LEMMA WorkProgress ==
  ASSUME IInv, ProgressInv, NEW w \in Worker,
         Download(w) \/ Extract(w) \/ SkipFrame(w) \/ PostState(w) \/ PostOccupancy(w)
  PROVE  ProgressInv' /\ Grows
<1>1. PICK r : /\ worker' = [worker EXCEPT ![w] = r]
               /\ r \in {Go(w, "extract"), Go(w, "extracted"), Go(w, "occupancy"), Go(w, "report"),
                         Go(w, "failure"), NextFrame(w)}
               /\ r = Go(w, "extract") => worker[w].pc = "download"
               /\ r = Go(w, "extracted") => worker[w].pc = "extract"
               /\ r \in {Go(w, "occupancy"), Go(w, "report"), NextFrame(w)} => worker[w].pc \in {"state", "occupancy"}
               /\ worker[w].pc \in Processing
  <2>0. /\ \A pc \in {"extract", "extracted", "occupancy", "report", "failure"} : Go(w, pc).pc = pc
        /\ NextFrame(w).pc \in {"state", "finish"}
    BY GoRecord, NextFrameRecord DEF PC, Processing
  <2>1. CASE Download(w)
    <3>1. PICK r \in {Go(w, "extract"), Go(w, "failure")} : worker' = [worker EXCEPT ![w] = r]
      BY <2>1 DEF Download, Failure
    <3>2. /\ worker[w].pc = "download" /\ r.pc \in {"extract", "failure"}
          /\ Go(w, "extracted").pc = "extracted" /\ Go(w, "occupancy").pc = "occupancy" /\ Go(w, "report").pc = "report"
          /\ NextFrame(w).pc \in {"state", "finish"}
      BY <2>0, <2>1, <3>1 DEF Download, At
    <3> QED
      BY <3>1, <3>2 DEF Processing
  <2>2. CASE Extract(w)
    <3>1. PICK r \in {Go(w, "extracted"), Go(w, "failure")} : worker' = [worker EXCEPT ![w] = r]
      BY <2>2 DEF Extract, Failure
    <3>2. /\ worker[w].pc = "extract" /\ r.pc \in {"extracted", "failure"}
          /\ Go(w, "extract").pc = "extract" /\ Go(w, "occupancy").pc = "occupancy" /\ Go(w, "report").pc = "report"
          /\ NextFrame(w).pc \in {"state", "finish"}
      BY <2>0, <2>2, <3>1 DEF Extract, At
    <3> QED
      BY <3>1, <3>2 DEF Processing
  <2>3. CASE SkipFrame(w) \/ PostState(w) \/ PostOccupancy(w)
    <3>1. PICK r \in {Go(w, "occupancy"), Go(w, "report"), Go(w, "failure"), NextFrame(w)} :
             worker' = [worker EXCEPT ![w] = r]
      BY <2>3 DEF SkipFrame, PostState, PostOccupancy, Failure
    <3>2. /\ worker[w].pc \in {"state", "occupancy"} /\ r.pc \in {"occupancy", "report", "failure", "state", "finish"}
          /\ Go(w, "extract").pc = "extract" /\ Go(w, "extracted").pc = "extracted"
      BY <2>0, <2>3, <3>1 DEF SkipFrame, PostState, PostOccupancy, At
    <3> QED
      BY <3>1, <3>2 DEF Processing
  <2> QED
    BY <2>1, <2>2, <2>3
<1>2. jobs' = jobs /\ handler' = handler
  BY DEF Download, Extract, SkipFrame, PostState, PostOccupancy, bounds
<1>3. Working(w) /\ worker[w].frame \in Nat
  BY <1>1, WorkerFacts DEF Working
<1> DEFINE now == jobs[worker[w].job].progress
<1>4. r \in WorkerRecord /\ r.job = worker[w].job
  BY <1>1, GoRecord, NextFrameRecord DEF PC, Processing
<1>5. r.pc \in Processing => Within(r, now)
  <2>1. Within(worker[w], now) /\ now \in 0..100
    BY <1>3, WorkerFacts DEF ProgressInv
  <2> HIDE DEF now
  <2>2. CASE r \in {Go(w, "extract"), Go(w, "extracted")}
    BY <1>1, <2>1, <2>2, GoRecord DEF Within, PC, Processing
  <2>3. CASE r \in {Go(w, "occupancy"), Go(w, "report")}
    BY <1>1, <2>1, <2>3, GoRecord DEF Within, PC, Processing
  <2>4. CASE r = NextFrame(w)
    <3>1. worker[w].pc \in {"state", "occupancy"}
      BY <1>1, <2>4
    <3>2. now <= Percent(worker[w].frame)
      BY <2>1, <3>1 DEF Within
    <3>3. Percent(worker[w].frame) <= Percent(worker[w].frame + 1) /\ Percent(worker[w].frame) \in 0..100
          /\ Percent(worker[w].frame + 1) \in 0..100
      BY <1>3, PercentGrows, PercentRange
    <3>4. now <= Percent(worker[w].frame + 1)
      BY <2>1, <3>2, <3>3
    <3> QED
      BY <2>4, <3>4, NextFrameRecord DEF Within
  <2>5. CASE r = Go(w, "failure")
    BY <2>5, GoRecord DEF Processing, PC
  <2> QED
    BY <1>1, <2>2, <2>3, <2>4, <2>5
<1> QED
  BY <1>1, <1>2, <1>4, <1>5, WorkerFacts, MoveProgress

\* The steps in which a worker begins or lets go.
LEMMA ReleaseProgress ==
  ASSUME IInv, ProgressInv, NEW w \in Worker,
         \/ \E j \in Job : PollAndLock(w, j)
         \/ AbortClaim(w) \/ LoseClaimAnswer(w) \/ AnswerClaim(w) \/ Crash(w) \/ Restart(w)
  PROVE  ProgressInv' /\ Grows
<1>1. jobs' = jobs
  BY DEF PollAndLock, AbortClaim, LoseClaimAnswer, AnswerClaim, Crash, Restart
<1>2. ASSUME NEW j \in Job, PollAndLock(w, j) PROVE ProgressInv' /\ Grows
  <2>1. PICK h : h = [step |-> "locked", job |-> j]
    OBVIOUS
  <2>2. PICK r : r = Go(w, "claiming")
    OBVIOUS
  <2>3. r \in WorkerRecord /\ r.pc = "claiming"
    BY <2>2, GoRecord DEF PC
  <2>4. worker' = [worker EXCEPT ![w] = r] /\ handler' = [handler EXCEPT ![w] = h]
    BY <1>2, <2>1, <2>2 DEF PollAndLock, Go
  <2>5. r.pc \notin Processing /\ h.step # "committed"
    BY <2>1, <2>3 DEF Processing
  <2> QED
    BY <1>1, <2>3, <2>4, <2>5, MoveProgress
<1>3. CASE AbortClaim(w)
  <2>1. PICK r : r = [worker[w] EXCEPT !.pc = IF worker[w].pc = "claiming" THEN "poll" ELSE worker[w].pc]
    OBVIOUS
  <2>2. r \in WorkerRecord /\ (r = worker[w] \/ r.pc = "poll")
    BY <2>1, WorkerFacts DEF WorkerRecord, PC
  <2>3. worker' = [worker EXCEPT ![w] = r] /\ handler' = [handler EXCEPT ![w] = NoRequest]
    BY <1>3, <2>1 DEF AbortClaim
  <2>4. NoRequest.step # "committed" /\ (r = worker[w] \/ r.pc \notin Processing)
    BY <2>2 DEF NoRequest, Processing
  <2> QED
    BY <1>1, <2>2, <2>3, <2>4, MoveProgress
<1>4. CASE LoseClaimAnswer(w)
  <2>1. worker' = [worker EXCEPT ![w] = Idle] /\ handler' = [handler EXCEPT ![w] = NoRequest]
    BY <1>4 DEF LoseClaimAnswer
  <2>2. NoRequest.step # "committed" /\ Idle.pc \notin Processing
    BY IdleRecord DEF NoRequest, Processing
  <2> QED
    BY <1>1, <2>1, <2>2, IdleRecord, MoveProgress
<1>5. CASE AnswerClaim(w)
  <2> DEFINE j == handler[w].job
  <2>1. j \in Job /\ jobs[j].progress = 0 /\ jobs[j].store \in Store
    BY <1>5 DEF AnswerClaim, ProgressInv, IInv, HandlerInv
  <2>2. PICK r : r = IF worker[w].pc = "claiming" THEN Claimed(w, j) ELSE worker[w]
    OBVIOUS
  <2>3. worker' = [worker EXCEPT ![w] = r] /\ handler' = [handler EXCEPT ![w] = NoRequest]
    BY <1>5, <2>2 DEF AnswerClaim
  <2>4. NoRequest.step # "committed"
    BY DEF NoRequest
  <2>5. CASE r = worker[w]
    BY <1>1, <2>3, <2>4, <2>5, WorkerFacts, MoveProgress
  <2>6. CASE r = Idle
    <3>1. r \in WorkerRecord /\ r.pc \notin Processing
      BY <2>6, IdleRecord DEF Processing
    <3> QED
      BY <1>1, <2>3, <2>4, <3>1, MoveProgress
  <2>7. CASE r = [pc |-> "start", job |-> j, store |-> jobs[j].store, frame |-> 0]
    <3>1. r.pc = "start" /\ r.job = j
      BY <2>7
    <3>2. r \in WorkerRecord
      BY <2>1, <2>7, BoundsAssumption DEF WorkerRecord, Job, Store, FrameIndex, PC, Processing
    <3>3. Within(r, jobs[r.job].progress)
      BY <2>1, <3>1 DEF Within
    <3> QED
      BY <1>1, <2>3, <2>4, <3>2, <3>3, MoveProgress
  <2> QED
    BY <2>2, <2>5, <2>6, <2>7 DEF Claimed
<1>6. CASE Crash(w) \/ Restart(w)
  <2>1. PICK r \in {Idle, [Idle EXCEPT !.pc = "dead"]} : worker' = [worker EXCEPT ![w] = r]
    BY <1>6 DEF Crash, Restart
  <2>2. r \in WorkerRecord /\ r.pc \notin Processing
    BY <2>1, IdleRecord DEF Processing
  <2>3. handler' = [handler EXCEPT ![w] = handler[w]]
    BY <1>6, WorkerFacts DEF Crash, Restart
  <2> QED
    BY <1>1, <2>1, <2>2, <2>3, MoveProgress
<1> QED
  BY <1>2, <1>3, <1>4, <1>5, <1>6

\* Clients' steps and the claim change rows that nobody works on yet, or keep their progress.
LEMMA RowProgress ==
  ASSUME IInv, ProgressInv, ClientStep \/ (\E w \in Worker : CommitClaim(w)) \/ UNCHANGED vars
  PROVE  ProgressInv' /\ Grows
<1>p. \A j \in Job : jobs[j] \in Row /\ jobs[j].progress \in 0..100
  BY DEF IInv, TypeOK, Row
<1>w. \A w \in Worker :
        /\ Working(w) => worker[w].job \in Job /\ jobs[worker[w].job].status \notin {"none", "queued"}
        /\ handler[w].step = "committed" =>
             handler[w].job \in Job /\ jobs[handler[w].job].status \notin {"none", "queued"}
  BY DEF IInv, WorkerInv, HandlerInv, Terminal
<1>1. ASSUME worker' = worker,
             \A v \in Worker : handler'[v].step = "committed" =>
                 handler'[v] = handler[v] \/ jobs'[handler'[v].job].progress = 0,
             \A j \in Job : /\ jobs'[j].progress = jobs[j].progress
                            /\ jobs'[j].status \in {"none", "queued"} => jobs[j].status \in {"none", "queued"}
      PROVE  ProgressInv' /\ Grows
  <2>1. Grows
    BY <1>p, <1>1 DEF Grows
  <2>2. \A j \in Job : jobs'[j].status \in {"none", "queued"} => jobs'[j].progress = 0
    BY <1>1 DEF ProgressInv
  <2>3. \A v \in Worker : handler'[v].step = "committed" => jobs'[handler'[v].job].progress = 0
    BY <1>1, <1>w DEF ProgressInv
  <2>4. \A v \in Worker : Working(v)' => Within(worker'[v], jobs'[worker'[v].job].progress)
    BY <1>1, <1>w DEF ProgressInv, Working
  <2> QED
    BY <2>1, <2>2, <2>3, <2>4 DEF ProgressInv
<1>2. CASE jobs' = jobs /\ UNCHANGED <<handler, worker>>
  BY <1>1, <1>2
<1>3. ASSUME NEW j \in Job, NEW m \in Media, CreateJob(j, m) PROVE ProgressInv' /\ Grows
  <2>1. /\ jobs[j].status = "none" /\ jobs'[j].progress = 0 /\ \A i \in Job : i # j => jobs'[i] = jobs[i]
        /\ UNCHANGED <<handler, worker>>
    BY <1>3 DEF CreateJob, IInv, TypeOK
  <2>2. \A i \in Job : jobs'[i].progress = jobs[i].progress
    BY <2>1 DEF ProgressInv
  <2> QED
    BY <1>1, <2>1, <2>2
<1>4. ASSUME NEW s \in Store, DeleteStore(s) PROVE ProgressInv' /\ Grows
  <2>1. \A i \in Job : jobs'[i] = jobs[i] \/ jobs'[i] = [jobs[i] EXCEPT !.status = "deleted"]
    BY <1>4 DEF DeleteStore
  <2>2. \A i \in Job : jobs'[i].progress = jobs[i].progress /\ jobs'[i].status \in {jobs[i].status, "deleted"}
    BY <1>p, <2>1 DEF Row
  <2>3. UNCHANGED <<handler, worker>>
    BY <1>4 DEF DeleteStore
  <2> QED
    BY <1>1, <2>2, <2>3
<1>5. ASSUME NEW w \in Worker, CommitClaim(w) PROVE ProgressInv' /\ Grows
  <2> DEFINE j == handler[w].job
  <2>1. /\ j \in Job /\ jobs[j].status = "queued" /\ jobs'[j] = Handed(jobs[j], w)
        /\ \A i \in Job : i # j => jobs'[i] = jobs[i]
        /\ worker' = worker
        /\ handler'[w] = [handler[w] EXCEPT !.step = "committed"]
        /\ \A v \in Worker : v # w => handler'[v] = handler[v]
    BY <1>5 DEF CommitClaim, IInv, HandlerInv, TypeOK
  <2>2. jobs'[j].status = "running" /\ jobs'[j].progress = jobs[j].progress /\ handler'[w].job = j
    BY <1>p, <2>1 DEF Handed, Row, IInv, TypeOK
  <2>3. jobs'[j].progress = 0
    BY <2>1, <2>2 DEF ProgressInv
  <2> QED
    BY <1>1, <2>1, <2>2, <2>3
<1> QED
  BY <1>2, <1>3, <1>4, <1>5 DEF ClientStep, CreateStore, BeginUpload, FinishUpload, vars

LEMMA ProgressStep == ASSUME IInv, ProgressInv, [Next]_vars PROVE ProgressInv' /\ Grows
<1>1. CASE ClientStep \/ UNCHANGED vars
  BY <1>1, RowProgress
<1>2. ASSUME NEW w \in Worker, ApiStep(w) PROVE ProgressInv' /\ Grows
  BY <1>2, RowProgress, ReleaseProgress DEF ApiStep
<1>3. ASSUME NEW w \in Worker, WorkerStep(w) PROVE ProgressInv' /\ Grows
  BY <1>3, ReleaseProgress, WorkProgress, StartJobProgress, ReportExtractedProgress, ReportProgressProgress,
     EndJobProgress DEF WorkerStep
<1>4. ASSUME NEW w \in Worker, Crash(w) \/ Restart(w) PROVE ProgressInv' /\ Grows
  BY <1>4, ReleaseProgress
<1> QED
  BY <1>1, <1>2, <1>3, <1>4 DEF Next

\* The progress of a job never goes back, whatever reports are lost or fail
\* (update_analysis_job keeps the progress of a failed job).
THEOREM ProgressNeverGoesBack == Spec => ProgressOnlyGrows
<1>1. Init => ProgressInv
  BY DEF Init, ProgressInv, NoRow, NoRequest, Idle, Working, Processing
<1>2. IInv /\ ProgressInv /\ [Next]_vars => ProgressInv' /\ [Grows]_vars
  BY ProgressStep
<1> QED
  BY <1>1, <1>2, Invariance, PTL DEF Spec, ProgressOnlyGrows, Grows
=============================================================================
