----------------------------- MODULE FrameStore -----------------------------
(***************************************************************************)
(* What the API keeps of one store's last frame: the row of the state, the  *)
(* occupancy frame in memory and in the database (occupancy.py), and the    *)
(* picture with its description on disk (vision_snapshots.py).              *)
(*                                                                          *)
(* Plain handlers run in threads and may overlap; an async handler runs on  *)
(* the one event loop and is not interrupted by another.  A client that     *)
(* gives up does not stop the handler.  A frame is its number.              *)
(***************************************************************************)
EXTENDS Integers, FiniteSets

CONSTANTS Thread,    \* the threads that answer plain requests
          MaxFaults  \* bound on everything that goes wrong

VARIABLES
  state,     \* row of current_store_states
  memory,    \* LatestOccupancyRepository._frames
  row,       \* current_store_occupancy
  threads,   \* what each thread is busy with
  image,     \* the picture on disk: the number of its frame
  meta,      \* its description: the number of its frame
  loop,      \* the picture the event loop is busy with, 0 for none
  faults,    \* things that went wrong
  lastSave,  \* history: the frame last put into memory by a save
  mixed,     \* history: the last save overlapped another or a load, or was not persisted
  torn       \* history: the last description was never written

apiVars == <<state, memory, row, threads, image, meta, loop, lastSave, mixed, torn>>
diskVars == <<image, meta, loop>>
frameVars == <<memory, row, lastSave, mixed>>

NoFrame == 0
Free == [does |-> "nothing", frame |-> NoFrame]

StoreInit ==
    /\ state = NoFrame /\ memory = NoFrame /\ row = NoFrame
    /\ threads = [t \in Thread |-> Free]
    /\ image = 0 /\ meta = 0 /\ loop = 0
    /\ faults = 0 /\ lastSave = NoFrame /\ mixed = FALSE /\ torn = FALSE

Fault == faults < MaxFaults /\ faults' = faults + 1

Handling(t, does) == threads[t].does = does
Saving == \E t \in Thread : Handling(t, "persist")
Loading == \E t \in Thread : Handling(t, "fill")
Sets(t, does, f) == threads' = [threads EXCEPT ![t] = [does |-> does, frame |-> f]]
Frees(t) == threads' = [threads EXCEPT ![t] = Free]

-----------------------------------------------------------------------------
\* A posted state or occupancy frame reaches a thread.
Take(t, does, f) ==
    /\ Handling(t, "nothing") /\ Sets(t, does, f)
    /\ UNCHANGED <<state, frameVars, diskVars, torn>>

\* save_store_state is one transaction, see StateIngest.
CommitState(t) ==
    /\ Handling(t, "state")
    /\ state' = threads[t].frame /\ Frees(t)
    /\ UNCHANGED <<frameVars, diskVars, torn>>

\* Mutant of SaveOccupancy: the frame is kept in memory only.
SaveInMemory(t) ==
    /\ Handling(t, "occupancy")
    /\ memory' = threads[t].frame /\ lastSave' = memory'
    /\ Frees(t) /\ mixed' = (Saving \/ Loading)
    /\ UNCHANGED <<state, row, diskVars, torn>>

\* save: into memory under the lock, ...
SaveOccupancy(t) ==
    /\ Handling(t, "occupancy")
    /\ memory' = threads[t].frame /\ lastSave' = memory'
    /\ Sets(t, "persist", memory')
    /\ mixed' = (Saving \/ Loading)
    /\ UNCHANGED <<state, row, diskVars, torn>>

\* ... then to the database, without it.
Persist(t) ==
    /\ Handling(t, "persist")
    /\ row' = threads[t].frame /\ Frees(t)
    /\ UNCHANGED <<state, memory, lastSave, mixed, diskVars, torn>>

\* _persist_frame logs the error; the answer is the same.
PersistFails(t) ==
    /\ Handling(t, "persist")
    /\ mixed' = TRUE /\ Frees(t)
    /\ UNCHANGED <<state, memory, row, lastSave, diskVars, torn>>

\* get, when memory has nothing: the row is read without the lock ...
Load(t) ==
    /\ Handling(t, "nothing") /\ memory = NoFrame /\ row # NoFrame
    /\ Sets(t, "fill", row)
    /\ mixed' = (mixed \/ Saving)
    /\ UNCHANGED <<state, memory, row, lastSave, diskVars, torn>>

\* ... and put into memory, whatever is there by now.
Fill(t) ==
    /\ Handling(t, "fill")
    /\ memory' = threads[t].frame /\ Frees(t)
    /\ UNCHANGED <<state, row, lastSave, mixed, diskVars, torn>>

-----------------------------------------------------------------------------
\* Mutant of PutImage: the description goes first.
PutMetaFirst(n) ==
    /\ loop = 0
    /\ meta' = n /\ loop' = n
    /\ UNCHANGED <<state, frameVars, threads, image, torn>>

\* save_snapshot: the temporary file replaces the picture, ...
PutImage(n) ==
    /\ loop = 0
    /\ image' = n /\ loop' = n
    /\ UNCHANGED <<state, frameVars, threads, meta, torn>>

\* ... and the description follows.
PutMeta ==
    /\ loop # 0
    /\ meta' = loop /\ image' = loop /\ loop' = 0 /\ torn' = FALSE
    /\ UNCHANGED <<state, frameVars, threads>>

PutMetaFails ==
    /\ loop # 0
    /\ loop' = 0 /\ torn' = TRUE
    /\ UNCHANGED <<state, frameVars, threads, image, meta>>

-----------------------------------------------------------------------------
\* The process ends and starts again; transactions under way are rolled back.
Restart ==
    /\ memory' = NoFrame /\ threads' = [t \in Thread |-> Free]
    /\ mixed' = (mixed \/ Saving)
    /\ torn' = (torn \/ loop # 0) /\ loop' = 0
    /\ UNCHANGED <<state, row, image, meta, lastSave>>

-----------------------------------------------------------------------------
Quiet == loop = 0 /\ \A t \in Thread : threads[t] = Free

\* Once no request is under way the frame served is the one last saved, from
\* memory and, after a restart, from the database; unless that save overlapped
\* another or the load after a restart, or its persist was lost.
LatestUnlessOverlap ==
    Quiet /\ ~ mixed => row = lastSave /\ memory \in {NoFrame, lastSave}

=============================================================================
