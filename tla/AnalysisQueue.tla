--------------------------- MODULE AnalysisQueue ---------------------------
(***************************************************************************)
(* What the API's analysis-job table promises to the dashboard and to the  *)
(* GPU workers (services/api/app/repository.py, the in-memory repository,  *)
(* in which every operation runs under one lock): a job is queued once, is *)
(* handed to one worker, only that worker reports on it afterwards, a job  *)
(* never goes back to the queue, and a finished job never runs again.      *)
(* UploadPipeline implements it with transactions, HTTP and crashes.       *)
(***************************************************************************)
EXTENDS Naturals

CONSTANTS Worker,   \* the GPU workers
          Job,      \* job ids
          NoWorker  \* worker_id of a job nobody has claimed, no worker

VARIABLES status,   \* status[j]: state of the row of job j
          owner     \* owner[j]: worker_id of the row

qvars == <<status, owner>>

Live == {"queued", "running", "completed", "failed"}
Terminal == {"completed", "failed"}

QueueInit == /\ status = [j \in Job |-> "none"]
             /\ owner = [j \in Job |-> NoWorker]

\* A row is inserted for a job id that was never used.
Enqueue(j) == /\ status[j] = "none"
              /\ status' = [status EXCEPT ![j] = "queued"]
              /\ owner' = [owner EXCEPT ![j] = NoWorker]

\* One queued job is handed to one worker.
Claim(w, j) == /\ status[j] = "queued"
               /\ status' = [status EXCEPT ![j] = "running"]
               /\ owner' = [owner EXCEPT ![j] = w]

\* The owner reports; a finished job is never reported running again, and a
\* failure report is the last word.
Report(j, st) == /\ owner[j] \in Worker
                 /\ \/ status[j] = "running"
                    \/ status[j] = "completed" /\ st = "failed"
                 /\ st \in {"running", "completed", "failed"}
                 /\ status' = [status EXCEPT ![j] = st]
                 /\ UNCHANGED owner

\* The rows of a deleted store disappear, whatever their state.
Remove(J) == /\ \A j \in J : status[j] \in Live
             /\ status' = [j \in Job |-> IF j \in J THEN "deleted" ELSE status[j]]
             /\ UNCHANGED owner

QueueNext == \/ \E j \in Job : Enqueue(j)
             \/ \E j \in Job, w \in Worker : Claim(w, j)
             \/ \E j \in Job, st \in Terminal \cup {"running"} : Report(j, st)
             \/ \E J \in SUBSET Job : Remove(J)

QueueSpec == QueueInit /\ [][QueueNext]_qvars
=============================================================================
