--------------------------- MODULE ReplayThreads ---------------------------
(***************************************************************************)
(* One upload worker process: its main thread, which polls for jobs and    *)
(* processes them, and the replay threads AutoReplayManager starts, one    *)
(* per store with cached frames, which post the frames again and again.    *)
(* Before a job the main thread asks every replay thread to stop and joins *)
(* it with a timeout; a thread looks at its stop event only between two    *)
(* passes over its frames, so it can outlive the join.  All passes over a  *)
(* store use the one YOLO tracker get_model keeps for it.                  *)
(***************************************************************************)
EXTENDS Integers, FiniteSets

CONSTANTS Store,       \* stores the worker has jobs or cached frames of
          NoStore,     \* no store
          Frames,      \* frames a pass goes through
          MaxThreads,  \* bound on replay threads started
          MaxJobs,     \* bound on jobs claimed
          MaxCrashes   \* bound on crashes of the process

ASSUME StoreAssumption == NoStore \notin Store
ASSUME BoundsAssumption == /\ Frames \in Nat \ {0} /\ MaxThreads \in Nat
                           /\ MaxJobs \in Nat /\ MaxCrashes \in Nat

Thread == 1..MaxThreads

VARIABLES
  files,    \* files[s]: replay cache of s on disk: "none", "partial", "whole"
  slot,     \* slot[s]: _threads[s], 0 if the store never had a thread
  stop,     \* stop[t]: the stop event of thread t is set
  thread,   \* thread[t]: store, program counter and frame of thread t
  started,  \* threads started so far
  main,     \* the main thread
  tracker,  \* tracker[s]: who reset the tracker of s last, 0 the main thread
  lastJob,  \* how the last job ended
  jobs, crashes

vars == <<files, slot, stop, thread, started, main, tracker, lastJob, jobs, crashes>>

Unborn == [store |-> NoStore, pc |-> "unborn", frame |-> 0]
Alive(t) == thread[t].pc \in {"load", "check", "pass"}
MainAt(pc) == main.pc = pc
\* resume_cached_stores at the start, or after a completed job.
Resume == [pc |-> "resume", todo |-> Store, store |-> NoStore, frame |-> 0]

Init == /\ files \in [Store -> {"none", "whole"}]
        /\ slot = [s \in Store |-> 0]
        /\ stop = [t \in Thread |-> FALSE]
        /\ thread = [t \in Thread |-> Unborn]
        /\ started = 0
        /\ main = Resume
        /\ tracker = [s \in Store |-> 0]
        /\ lastJob = "none"
        /\ jobs = 0 /\ crashes = 0

-----------------------------------------------------------------------------
(* stop_store: set the event, then join the thread for a while *)

\* The stop events with the one of the thread registered for s set.
StopSet(s) == IF slot[s] = 0 THEN stop ELSE [stop EXCEPT ![slot[s]] = TRUE]
Joins(s) == slot[s] # 0 /\ Alive(slot[s])

\* stop_all before a job: the next registered store.
StopNext(s) ==
  /\ MainAt("stop")
  /\ s \in main.todo
  /\ stop' = StopSet(s)
  /\ main' = [main EXCEPT !.todo = @ \ {s},
                          !.pc = IF Joins(s) THEN "join" ELSE "stop"]
  /\ UNCHANGED <<files, slot, thread, started, tracker, lastJob, jobs, crashes>>

\* The join ends when its thread does, or after the timeout: by then the
\* thread may or may not have ended.
JoinEnds ==
  /\ MainAt("join")
  /\ main' = [main EXCEPT !.pc = "stop"]
  /\ UNCHANGED <<files, slot, stop, thread, started, tracker, lastJob, jobs, crashes>>

AllStopped ==
  /\ MainAt("stop")
  /\ main.todo = {}
  /\ main' = [main EXCEPT !.pc = "extract"]
  /\ UNCHANGED <<files, slot, stop, thread, started, tracker, lastJob, jobs, crashes>>

-----------------------------------------------------------------------------
(* resume_cached_stores and start_store *)

\* A store without cached frames is passed over (a directory a crash left
\* half written may have some or none).
SkipStore(s) ==
  /\ MainAt("resume")
  /\ s \in main.todo
  /\ files[s] # "whole"
  /\ main' = [main EXCEPT !.todo = @ \ {s}]
  /\ UNCHANGED <<files, slot, stop, thread, started, tracker, lastJob, jobs, crashes>>
\* start_store begins with stop_store; JoinEnds of this join is StartThread.
ResumeStore(s) ==
  /\ MainAt("resume")
  /\ s \in main.todo
  /\ files[s] # "none"
  /\ stop' = StopSet(s)
  /\ main' = [main EXCEPT !.todo = @ \ {s}, !.store = s, !.pc = "start"]
  /\ UNCHANGED <<files, slot, thread, started, tracker, lastJob, jobs, crashes>>

\* Mutant of StartThread: the new thread is not registered.
StartUnregistered ==
  /\ MainAt("start")
  /\ started < MaxThreads
  /\ started' = started + 1
  /\ thread' = [thread EXCEPT ![started + 1] =
                  [store |-> main.store, pc |-> "load", frame |-> 0]]
  /\ main' = [main EXCEPT !.store = NoStore, !.pc = "resume"]
  /\ UNCHANGED <<files, slot, stop, tracker, lastJob, jobs, crashes>>

StartThread ==
  /\ MainAt("start")
  /\ started < MaxThreads
  /\ started' = started + 1
  /\ slot' = [slot EXCEPT ![main.store] = started + 1]
  /\ thread' = [thread EXCEPT ![started + 1] =
                  [store |-> main.store, pc |-> "load", frame |-> 0]]
  /\ main' = [main EXCEPT !.store = NoStore, !.pc = "resume"]
  /\ UNCHANGED <<files, stop, tracker, lastJob, jobs, crashes>>

Resumed ==
  /\ MainAt("resume")
  /\ main.todo = {}
  /\ main' = [main EXCEPT !.pc = "poll"]
  /\ UNCHANGED <<files, slot, stop, thread, started, tracker, lastJob, jobs, crashes>>

-----------------------------------------------------------------------------
(* A job *)

Claim(s) ==
  /\ MainAt("poll")
  /\ jobs < MaxJobs
  /\ jobs' = jobs + 1
  /\ main' = [pc |-> "stop", todo |-> {u \in Store : slot[u] # 0}, store |-> s,
              frame |-> 0]
  /\ UNCHANGED <<files, slot, stop, thread, started, tracker, lastJob, crashes>>

\* Download and extract_frames; cache_frames then unlinks the old frames ...
ClearCache ==
  /\ MainAt("extract")
  /\ files' = [files EXCEPT ![main.store] = "partial"]
  /\ main' = [main EXCEPT !.pc = "cache"]
  /\ UNCHANGED <<slot, stop, thread, started, tracker, lastJob, jobs, crashes>>

\* ... and writes the new ones.
WriteCache ==
  /\ MainAt("cache")
  /\ files' = [files EXCEPT ![main.store] = "whole"]
  /\ main' = [main EXCEPT !.pc = "seed"]
  /\ UNCHANGED <<slot, stop, thread, started, tracker, lastJob, jobs, crashes>>

\* analyze_frames of the job: one pass, with a tracker of its own.
SeedPass ==
  /\ MainAt("seed")
  /\ tracker' = [tracker EXCEPT ![main.store] = 0]
  /\ main' = [main EXCEPT !.pc = "pass", !.frame = 0]
  /\ UNCHANGED <<files, slot, stop, thread, started, lastJob, jobs, crashes>>

SeedFrame ==
  /\ MainAt("pass")
  /\ main.frame < Frames
  /\ main' = [main EXCEPT !.frame = @ + 1]
  /\ UNCHANGED <<files, slot, stop, thread, started, tracker, lastJob, jobs, crashes>>
\* Mutant of JobCompleted: only the job's own store is resumed.
OwnStoreResumed ==
  /\ MainAt("pass")
  /\ main.frame = Frames
  /\ lastJob' = "completed"
  /\ main' = [Resume EXCEPT !.todo = {main.store}]
  /\ UNCHANGED <<files, slot, stop, thread, started, tracker, jobs, crashes>>

JobCompleted ==
  /\ MainAt("pass")
  /\ main.frame = Frames
  /\ lastJob' = "completed"
  /\ main' = Resume
  /\ UNCHANGED <<files, slot, stop, thread, started, tracker, jobs, crashes>>

\* Any exception of process_claim: reported, and on to the next poll.
JobFailed ==
  /\ main.pc \in {"extract", "cache", "seed", "pass"}
  /\ lastJob' = "failed"
  /\ main' = [Resume EXCEPT !.pc = "poll", !.todo = {}]
  /\ UNCHANGED <<files, slot, stop, thread, started, tracker, jobs, crashes>>

\* The process dies and is started again: its threads are gone.
CrashAndRestart ==
  /\ crashes < MaxCrashes
  /\ crashes' = crashes + 1
  /\ thread' = [t \in Thread |-> IF Alive(t)
                                 THEN [thread[t] EXCEPT !.pc = "done", !.frame = 0]
                                 ELSE thread[t]]
  /\ slot' = [s \in Store |-> 0]
  /\ main' = Resume
  /\ tracker' = [s \in Store |-> 0]
  /\ lastJob' = "none"
  /\ UNCHANGED <<files, stop, started, jobs>>

-----------------------------------------------------------------------------
(* _run_store *)

\* load_cached_frames raises when there is no frame in the directory.
Load(t) ==
  /\ thread[t].pc = "load"
  /\ \/ /\ files[thread[t].store] # "none"
        /\ thread' = [thread EXCEPT ![t].pc = "check"]
     \/ /\ files[thread[t].store] # "whole"
        /\ thread' = [thread EXCEPT ![t].pc = "done"]
  /\ UNCHANGED <<files, slot, stop, started, main, tracker, lastJob, jobs, crashes>>
\* Mutant of CheckStop: the loop does not look at its stop event.
LoopForEver(t) ==
  /\ thread[t].pc = "check"
  /\ thread' = [thread EXCEPT ![t].pc = "pass"]
  /\ tracker' = [tracker EXCEPT ![thread[t].store] = t]
  /\ UNCHANGED <<files, slot, stop, started, main, lastJob, jobs, crashes>>

\* The head of the loop; a pass begins by resetting the store's tracker.
CheckStop(t) ==
  /\ thread[t].pc = "check"
  /\ IF stop[t]
     THEN /\ thread' = [thread EXCEPT ![t].pc = "done"]
          /\ UNCHANGED tracker
     ELSE /\ thread' = [thread EXCEPT ![t].pc = "pass"]
          /\ tracker' = [tracker EXCEPT ![thread[t].store] = t]
  /\ UNCHANGED <<files, slot, stop, started, main, lastJob, jobs, crashes>>

\* Track and post the next frame, or end the pass; an error ends it early.
PlayFrame(t) ==
  /\ thread[t].pc = "pass"
  /\ \/ /\ thread[t].frame < Frames
        /\ thread' = [thread EXCEPT ![t].frame = @ + 1]
     \/ thread' = [thread EXCEPT ![t].pc = "check", ![t].frame = 0]
  /\ UNCHANGED <<files, slot, stop, started, main, tracker, lastJob, jobs, crashes>>

ThreadStep(t) == Load(t) \/ CheckStop(t) \/ PlayFrame(t)

ProcessStep == \/ ClearCache \/ WriteCache \/ SeedPass \/ SeedFrame
               \/ JobCompleted \/ JobFailed
MainStep == \/ \E s \in Store : StopNext(s) \/ SkipStore(s) \/ ResumeStore(s)
            \/ JoinEnds \/ AllStopped \/ StartThread \/ Resumed \/ ProcessStep

Next == \/ \E t \in Thread : ThreadStep(t)
        \/ \E s \in Store : Claim(s)
        \/ MainStep
        \/ CrashAndRestart

Spec == Init /\ [][Next]_vars

-----------------------------------------------------------------------------
(* Properties *)

\* Every variable has its type.
TypeOK ==
  /\ files \in [Store -> {"none", "partial", "whole"}]
  /\ slot \in [Store -> 0..MaxThreads]
  /\ stop \in [Thread -> BOOLEAN]
  /\ thread \in [Thread -> [store: Store \cup {NoStore},
                            pc: {"unborn", "load", "check", "pass", "done"},
                            frame: 0..Frames]]
  /\ started \in 0..MaxThreads
  /\ main \in [pc: {"resume", "start", "poll", "stop", "join", "extract", "cache",
                    "seed", "pass"},
               todo: SUBSET Store, store: Store \cup {NoStore}, frame: 0..Frames]
  /\ tracker \in [Store -> 0..MaxThreads]
  /\ lastJob \in {"none", "completed", "failed"}
  /\ jobs \in 0..MaxJobs /\ crashes \in 0..MaxCrashes

Looping(t) == Alive(t) /\ ~stop[t]

\* A thread nobody can stop any more, because its slot was given to another,
\* has been told to stop.
NoOrphanLoop == TypeOK /\ \A t \in Thread : Looping(t) => slot[thread[t].store] = t

\* After a completed job, and after a restart, every store with cached frames
\* is being replayed when the worker polls again, including the stores whose
\* threads were stopped for somebody else's job.
CachedStoresReplay ==
  MainAt("poll") /\ lastJob # "failed" =>
    \A s \in Store : files[s] = "whole" =>
      slot[s] # 0 /\ thread[slot[s]].store = s /\ Looping(slot[s])

\* All passes over a store share one tracker.  Nobody resets it under the
\* pass of a job, or under the pass of the store's current thread: a thread
\* that outlived its join finishes its pass but never begins another.
TrackerKept ==
  /\ MainAt("pass") => tracker[main.store] = 0
  /\ \A t \in Thread : thread[t].pc = "pass" /\ Looping(t)
                         => tracker[thread[t].store] = t

=============================================================================
