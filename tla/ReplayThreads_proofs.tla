------------------------ MODULE ReplayThreads_proofs ------------------------
(***************************************************************************)
(* The safety properties of ReplayThreads for any number of stores,        *)
(* threads, frames, jobs and crashes.  The inductive invariant says which  *)
(* thread a slot names (SlotInv), that what may still loop is on the list  *)
(* of stores to be stopped (StopInv), and how far a resume has come        *)
(* (ResumeInv); the listed properties follow from it.                      *)
(***************************************************************************)
EXTENDS ReplayThreads, TLAPS

\* The main thread is at work for a store.
AtStore == {"start", "stop", "join", "extract", "cache", "seed", "pass"}

\* Threads are numbered as they are started; a slot names one of its store's;
\* the main thread knows its store.
SlotInv ==
  /\ \A t \in Thread : t > started => thread[t].pc = "unborn" /\ ~stop[t]
  /\ \A t \in Thread : t <= started => thread[t].pc # "unborn" /\ thread[t].store \in Store
  /\ \A s \in Store : slot[s] # 0 => slot[s] <= started /\ thread[slot[s]].store = s
  /\ main.pc \in AtStore => main.store \in Store

\* Once the stores have been stopped for a job no thread loops, and before that
\* only those of the stores that are left; a store that is being started has none.
StopInv ==
  \A t \in Thread : Looping(t) =>
    /\ slot[thread[t].store] = t
    /\ main.pc \in {"stop", "join"} => thread[t].store \in main.todo
    /\ main.pc \notin {"extract", "cache", "seed", "pass"}
    /\ main.pc = "start" => thread[t].store # main.store

\* A store that is replayed if it has cached frames.
Covered(s) ==
  files[s] = "whole" => slot[s] # 0 /\ thread[slot[s]].store = s /\ Looping(slot[s])

\* A resume has covered the stores it has been through.
ResumeInv ==
  \A s \in Store :
    /\ main.pc = "resume" /\ s \notin main.todo => Covered(s)
    /\ main.pc = "start" /\ s \notin main.todo \cup {main.store} => Covered(s)
    /\ main.pc = "poll" /\ lastJob # "failed" => Covered(s)

IInv == TypeOK /\ SlotInv /\ StopInv /\ ResumeInv /\ TrackerKept

-----------------------------------------------------------------------------
LEMMA InitInv == Init => IInv
BY BoundsAssumption, StoreAssumption
   DEF Init, IInv, TypeOK, SlotInv, StopInv, ResumeInv, TrackerKept, Covered, Looping, Alive,
       Unborn, Resume, MainAt, AtStore, Thread

ThreadRecord == [store: Store \cup {NoStore},
                 pc: {"unborn", "load", "check", "pass", "done"}, frame: 0..Frames]

MainRecord == [pc: {"resume", "start", "poll", "stop", "join", "extract", "cache", "seed", "pass"},
               todo: SUBSET Store, store: Store \cup {NoStore}, frame: 0..Frames]

LEMMA RecordFields ==
  ASSUME NEW r \in ThreadRecord, NEW p \in {"check", "pass", "done"}, NEW f \in 0..Frames
  PROVE  /\ [r EXCEPT !.pc = p] = [store |-> r.store, pc |-> p, frame |-> r.frame]
         /\ [r EXCEPT !.frame = f] = [store |-> r.store, pc |-> r.pc, frame |-> f]
         /\ [[r EXCEPT !.pc = p] EXCEPT !.frame = f] = [store |-> r.store, pc |-> p, frame |-> f]
<1>1. [r EXCEPT !.pc = p] = [store |-> r.store, pc |-> p, frame |-> r.frame]
  BY DEF ThreadRecord
<1>2. [r EXCEPT !.frame = f] = [store |-> r.store, pc |-> r.pc, frame |-> f]
  BY DEF ThreadRecord
<1>3. [[r EXCEPT !.pc = p] EXCEPT !.frame = f] = [store |-> r.store, pc |-> p, frame |-> f]
  <2> DEFINE q == [r EXCEPT !.pc = p]
  <2>1. q \in ThreadRecord /\ q.store = r.store /\ q.pc = p
    BY <1>1 DEF ThreadRecord
  <2> HIDE DEF q
  <2>2. [q EXCEPT !.frame = f] = [store |-> r.store, pc |-> p, frame |-> f]
    BY <2>1 DEF ThreadRecord
  <2> QED
    BY <2>2 DEF q
<1> QED
  BY <1>1, <1>2, <1>3

LEMMA StopNextStep == ASSUME IInv, NEW s \in Store, StopNext(s) PROVE IInv'
<1>1. TypeOK'
  BY BoundsAssumption, StoreAssumption DEF StopNext, MainAt, StopSet, Joins, IInv, TypeOK
<1>2. SlotInv'
  BY BoundsAssumption, StoreAssumption DEF StopNext, MainAt, StopSet, Joins, IInv, TypeOK, SlotInv, AtStore, Thread
<1>3. StopInv'
  BY BoundsAssumption, StoreAssumption DEF StopNext, MainAt, StopSet, Joins, IInv, TypeOK, SlotInv, StopInv, AtStore, Looping, Alive, Thread
<1>4. ResumeInv'
  BY BoundsAssumption, StoreAssumption DEF StopNext, MainAt, StopSet, Joins, IInv, TypeOK, SlotInv, StopInv, ResumeInv, Covered, AtStore, Looping, Alive, Thread
<1>5. TrackerKept'
  BY BoundsAssumption, StoreAssumption, SMTT(20) DEF StopNext, MainAt, StopSet, Joins, IInv, TypeOK, SlotInv, StopInv, TrackerKept, AtStore, Looping, Alive, Thread
<1> QED
  BY <1>1, <1>2, <1>3, <1>4, <1>5 DEF IInv

LEMMA JoinEndsStep == ASSUME IInv, JoinEnds PROVE IInv'
<1>1. TypeOK'
  BY BoundsAssumption, StoreAssumption DEF JoinEnds, MainAt, IInv, TypeOK
<1>2. SlotInv'
  BY BoundsAssumption, StoreAssumption DEF JoinEnds, MainAt, IInv, TypeOK, SlotInv, AtStore, Thread
<1>3. StopInv'
  BY BoundsAssumption, StoreAssumption DEF JoinEnds, MainAt, IInv, TypeOK, SlotInv, StopInv, AtStore, Looping, Alive, Thread
<1>4. ResumeInv'
  BY BoundsAssumption, StoreAssumption DEF JoinEnds, MainAt, IInv, TypeOK, SlotInv, StopInv, ResumeInv, Covered, AtStore, Looping, Alive, Thread
<1>5. TrackerKept'
  BY BoundsAssumption, StoreAssumption DEF JoinEnds, MainAt, IInv, TypeOK, SlotInv, StopInv, TrackerKept, AtStore, Looping, Alive, Thread
<1> QED
  BY <1>1, <1>2, <1>3, <1>4, <1>5 DEF IInv

LEMMA AllStoppedStep == ASSUME IInv, AllStopped PROVE IInv'
<1>1. TypeOK'
  BY BoundsAssumption, StoreAssumption DEF AllStopped, MainAt, IInv, TypeOK
<1>2. SlotInv'
  BY BoundsAssumption, StoreAssumption DEF AllStopped, MainAt, IInv, TypeOK, SlotInv, AtStore, Thread
<1>3. StopInv'
  BY BoundsAssumption, StoreAssumption DEF AllStopped, MainAt, IInv, TypeOK, SlotInv, StopInv, AtStore, Looping, Alive, Thread
<1>4. ResumeInv'
  BY BoundsAssumption, StoreAssumption DEF AllStopped, MainAt, IInv, TypeOK, SlotInv, StopInv, ResumeInv, Covered, AtStore, Looping, Alive, Thread
<1>5. TrackerKept'
  BY BoundsAssumption, StoreAssumption DEF AllStopped, MainAt, IInv, TypeOK, SlotInv, StopInv, TrackerKept, AtStore, Looping, Alive, Thread
<1> QED
  BY <1>1, <1>2, <1>3, <1>4, <1>5 DEF IInv

LEMMA SkipStoreStep == ASSUME IInv, NEW s \in Store, SkipStore(s) PROVE IInv'
<1>1. TypeOK'
  BY BoundsAssumption, StoreAssumption DEF SkipStore, MainAt, IInv, TypeOK
<1>2. SlotInv'
  BY BoundsAssumption, StoreAssumption DEF SkipStore, MainAt, IInv, TypeOK, SlotInv, AtStore, Thread
<1>3. StopInv'
  BY BoundsAssumption, StoreAssumption DEF SkipStore, MainAt, IInv, TypeOK, SlotInv, StopInv, AtStore, Looping, Alive, Thread
<1>4. ResumeInv'
  BY BoundsAssumption, StoreAssumption DEF SkipStore, MainAt, IInv, TypeOK, SlotInv, StopInv, ResumeInv, Covered, AtStore, Looping, Alive, Thread
<1>5. TrackerKept'
  BY BoundsAssumption, StoreAssumption DEF SkipStore, MainAt, IInv, TypeOK, SlotInv, StopInv, TrackerKept, AtStore, Looping, Alive, Thread
<1> QED
  BY <1>1, <1>2, <1>3, <1>4, <1>5 DEF IInv

LEMMA ResumeStoreStep == ASSUME IInv, NEW s \in Store, ResumeStore(s) PROVE IInv'
<1>1. TypeOK'
  BY BoundsAssumption, StoreAssumption DEF ResumeStore, MainAt, StopSet, IInv, TypeOK
<1>2. SlotInv'
  BY BoundsAssumption, StoreAssumption DEF ResumeStore, MainAt, StopSet, IInv, TypeOK, SlotInv, AtStore, Thread
<1>3. StopInv'
  BY BoundsAssumption, StoreAssumption, SMTT(20) DEF ResumeStore, MainAt, StopSet, IInv, TypeOK, SlotInv, StopInv, AtStore, Looping, Alive, Thread
<1>4. ResumeInv'
  BY BoundsAssumption, StoreAssumption DEF ResumeStore, MainAt, StopSet, IInv, TypeOK, SlotInv, StopInv, ResumeInv, Covered, AtStore, Looping, Alive, Thread
<1>5. TrackerKept'
  BY BoundsAssumption, StoreAssumption DEF ResumeStore, MainAt, StopSet, IInv, TypeOK, SlotInv, StopInv, TrackerKept, AtStore, Looping, Alive, Thread
<1> QED
  BY <1>1, <1>2, <1>3, <1>4, <1>5 DEF IInv

LEMMA StartThreadStep == ASSUME IInv, StartThread PROVE IInv'
<1>0. /\ started + 1 \in Thread /\ started' = started + 1 /\ main.store \in Store
      /\ thread' = [thread EXCEPT ![started + 1] = [store |-> main.store, pc |-> "load", frame |-> 0]]
      /\ [store |-> main.store, pc |-> "load", frame |-> 0] \in ThreadRecord
  BY BoundsAssumption DEF StartThread, MainAt, IInv, TypeOK, SlotInv, AtStore, Thread, ThreadRecord
<1>1. TypeOK'
  <2>1. thread' \in [Thread -> ThreadRecord]
    BY <1>0 DEF IInv, TypeOK, ThreadRecord
  <2>2. slot' \in [Store -> 0..MaxThreads] /\ started' \in 0..MaxThreads
    BY <1>0, BoundsAssumption DEF StartThread, IInv, TypeOK, Thread
  <2>3. main' \in MainRecord
    BY DEF StartThread, IInv, TypeOK, MainRecord
  <2> QED
    BY <2>1, <2>2, <2>3 DEF StartThread, IInv, TypeOK, MainRecord, ThreadRecord
<1>2. SlotInv'
  <2>1. \A t \in Thread : t # started + 1 => thread'[t] = thread[t]
    BY <1>0
  <2>2. thread'[started + 1].pc = "load" /\ thread'[started + 1].store = main.store
    BY <1>0 DEF IInv, TypeOK
  <2>3. \A t \in Thread : t > started' => thread'[t].pc = "unborn" /\ ~stop[t]
    BY <1>0, <2>1 DEF IInv, TypeOK, SlotInv, Thread
  <2>4. \A t \in Thread : t <= started' => thread'[t].pc # "unborn" /\ thread'[t].store \in Store
    BY <1>0, <2>1, <2>2 DEF IInv, TypeOK, SlotInv, Thread
  <2>5. ASSUME NEW s \in Store, slot'[s] # 0 PROVE slot'[s] <= started' /\ thread'[slot'[s]].store = s
    <3>1. CASE s = main.store
      BY <1>0, <2>2, <3>1 DEF StartThread, IInv, TypeOK, Thread
    <3>2. CASE s # main.store
      <4>1. slot'[s] = slot[s] /\ slot[s] # 0
        BY <2>5, <3>2 DEF StartThread, IInv, TypeOK
      <4>2. slot[s] <= started /\ thread[slot[s]].store = s
        BY <4>1 DEF IInv, SlotInv
      <4>3. started \in Nat /\ slot[s] \in Nat /\ slot[s] \in Thread
        BY <4>1, BoundsAssumption DEF IInv, TypeOK, Thread
      <4>4. slot[s] # started + 1 /\ slot[s] <= started + 1
        BY <4>2, <4>3
      <4> QED
        BY <1>0, <2>1, <4>1, <4>2, <4>3, <4>4
    <3> QED
      BY <3>1, <3>2
  <2>6. main'.pc = "resume" /\ stop' = stop
    BY DEF StartThread, IInv, TypeOK
  <2> QED
    BY <2>3, <2>4, <2>5, <2>6 DEF SlotInv, AtStore
<1>3. StopInv'
  BY BoundsAssumption, StoreAssumption DEF StartThread, MainAt, IInv, TypeOK, SlotInv, StopInv, AtStore, Looping, Alive, Thread
<1>4. ResumeInv'
  BY BoundsAssumption, StoreAssumption, SMTT(20) DEF StartThread, MainAt, IInv, TypeOK, SlotInv, StopInv, ResumeInv, Covered, AtStore, Looping, Alive, Thread
<1>5. TrackerKept'
  BY BoundsAssumption, StoreAssumption DEF StartThread, MainAt, IInv, TypeOK, SlotInv, StopInv, TrackerKept, AtStore, Looping, Alive, Thread
<1> QED
  BY <1>1, <1>2, <1>3, <1>4, <1>5 DEF IInv

LEMMA ResumedStep == ASSUME IInv, Resumed PROVE IInv'
<1>1. TypeOK'
  BY BoundsAssumption, StoreAssumption DEF Resumed, MainAt, IInv, TypeOK
<1>2. SlotInv'
  BY BoundsAssumption, StoreAssumption DEF Resumed, MainAt, IInv, TypeOK, SlotInv, AtStore, Thread
<1>3. StopInv'
  BY BoundsAssumption, StoreAssumption DEF Resumed, MainAt, IInv, TypeOK, SlotInv, StopInv, AtStore, Looping, Alive, Thread
<1>4. ResumeInv'
  BY BoundsAssumption, StoreAssumption DEF Resumed, MainAt, IInv, TypeOK, SlotInv, StopInv, ResumeInv, Covered, AtStore, Looping, Alive, Thread
<1>5. TrackerKept'
  BY BoundsAssumption, StoreAssumption DEF Resumed, MainAt, IInv, TypeOK, SlotInv, StopInv, TrackerKept, AtStore, Looping, Alive, Thread
<1> QED
  BY <1>1, <1>2, <1>3, <1>4, <1>5 DEF IInv

LEMMA ClaimStep == ASSUME IInv, NEW s \in Store, Claim(s) PROVE IInv'
<1>1. TypeOK'
  BY BoundsAssumption, StoreAssumption DEF Claim, MainAt, IInv, TypeOK
<1>2. SlotInv'
  BY BoundsAssumption, StoreAssumption DEF Claim, MainAt, IInv, TypeOK, SlotInv, AtStore, Thread
<1>3. StopInv'
  <2>1. /\ thread' = thread /\ slot' = slot /\ stop' = stop
        /\ main'.pc = "stop" /\ main'.todo = {u \in Store : slot[u] # 0}
    BY DEF Claim
  <2>2. ASSUME NEW t \in Thread, Looping(t)
        PROVE  slot[thread[t].store] = t /\ thread[t].store \in Store /\ t # 0
    <3>1. thread[t].pc # "unborn"
      BY <2>2 DEF Looping, Alive
    <3> QED
      BY <2>2, <3>1, BoundsAssumption DEF IInv, TypeOK, SlotInv, StopInv, Thread
  <2> QED
    BY <2>1, <2>2 DEF StopInv, Looping, Alive
<1>4. ResumeInv'
  BY BoundsAssumption, StoreAssumption DEF Claim, MainAt, IInv, TypeOK, SlotInv, StopInv, ResumeInv, Covered, AtStore, Looping, Alive, Thread
<1>5. TrackerKept'
  BY BoundsAssumption, StoreAssumption DEF Claim, MainAt, IInv, TypeOK, SlotInv, StopInv, TrackerKept, AtStore, Looping, Alive, Thread
<1> QED
  BY <1>1, <1>2, <1>3, <1>4, <1>5 DEF IInv

LEMMA ClearCacheStep == ASSUME IInv, ClearCache PROVE IInv'
<1>1. TypeOK'
  BY BoundsAssumption, StoreAssumption DEF ClearCache, MainAt, IInv, TypeOK
<1>2. SlotInv'
  BY BoundsAssumption, StoreAssumption DEF ClearCache, MainAt, IInv, TypeOK, SlotInv, AtStore, Thread
<1>3. StopInv'
  BY BoundsAssumption, StoreAssumption DEF ClearCache, MainAt, IInv, TypeOK, SlotInv, StopInv, AtStore, Looping, Alive, Thread
<1>4. ResumeInv'
  BY BoundsAssumption, StoreAssumption DEF ClearCache, MainAt, IInv, TypeOK, SlotInv, StopInv, ResumeInv, Covered, AtStore, Looping, Alive, Thread
<1>5. TrackerKept'
  BY BoundsAssumption, StoreAssumption DEF ClearCache, MainAt, IInv, TypeOK, SlotInv, StopInv, TrackerKept, AtStore, Looping, Alive, Thread
<1> QED
  BY <1>1, <1>2, <1>3, <1>4, <1>5 DEF IInv

LEMMA WriteCacheStep == ASSUME IInv, WriteCache PROVE IInv'
<1>1. TypeOK'
  BY BoundsAssumption, StoreAssumption DEF WriteCache, MainAt, IInv, TypeOK
<1>2. SlotInv'
  BY BoundsAssumption, StoreAssumption DEF WriteCache, MainAt, IInv, TypeOK, SlotInv, AtStore, Thread
<1>3. StopInv'
  BY BoundsAssumption, StoreAssumption DEF WriteCache, MainAt, IInv, TypeOK, SlotInv, StopInv, AtStore, Looping, Alive, Thread
<1>4. ResumeInv'
  BY BoundsAssumption, StoreAssumption DEF WriteCache, MainAt, IInv, TypeOK, SlotInv, StopInv, ResumeInv, Covered, AtStore, Looping, Alive, Thread
<1>5. TrackerKept'
  BY BoundsAssumption, StoreAssumption DEF WriteCache, MainAt, IInv, TypeOK, SlotInv, StopInv, TrackerKept, AtStore, Looping, Alive, Thread
<1> QED
  BY <1>1, <1>2, <1>3, <1>4, <1>5 DEF IInv

LEMMA SeedPassStep == ASSUME IInv, SeedPass PROVE IInv'
<1>1. TypeOK'
  <2> DEFINE m == [main EXCEPT !.pc = "pass"]
  <2>1. m \in MainRecord
    BY DEF IInv, TypeOK, MainRecord
  <2>2. main' = [m EXCEPT !.frame = 0]
    BY DEF SeedPass
  <2> HIDE DEF m
  <2>3. main' \in MainRecord
    BY <2>1, <2>2, BoundsAssumption DEF MainRecord
  <2>4. tracker' \in [Store -> 0..MaxThreads]
    <3>1. tracker \in [Store -> 0..MaxThreads] /\ 0 \in 0..MaxThreads
      BY BoundsAssumption DEF IInv, TypeOK
    <3>2. tracker' = [tracker EXCEPT ![main.store] = 0]
      BY DEF SeedPass
    <3> QED
      BY <3>1, <3>2
  <2> QED
    BY <2>3, <2>4 DEF SeedPass, IInv, TypeOK, MainRecord
<1>2. SlotInv'
  BY BoundsAssumption, StoreAssumption DEF SeedPass, MainAt, IInv, TypeOK, SlotInv, AtStore, Thread
<1>3. StopInv'
  BY BoundsAssumption, StoreAssumption DEF SeedPass, MainAt, IInv, TypeOK, SlotInv, StopInv, AtStore, Looping, Alive, Thread
<1>4. ResumeInv'
  BY BoundsAssumption, StoreAssumption DEF SeedPass, MainAt, IInv, TypeOK, SlotInv, StopInv, ResumeInv, Covered, AtStore, Looping, Alive, Thread
<1>5. TrackerKept'
  BY BoundsAssumption, StoreAssumption DEF SeedPass, MainAt, IInv, TypeOK, SlotInv, StopInv, TrackerKept, AtStore, Looping, Alive, Thread
<1> QED
  BY <1>1, <1>2, <1>3, <1>4, <1>5 DEF IInv

LEMMA SeedFrameStep == ASSUME IInv, SeedFrame PROVE IInv'
<1>1. TypeOK'
  BY BoundsAssumption, StoreAssumption DEF SeedFrame, MainAt, IInv, TypeOK
<1>2. SlotInv'
  BY BoundsAssumption, StoreAssumption DEF SeedFrame, MainAt, IInv, TypeOK, SlotInv, AtStore, Thread
<1>3. StopInv'
  BY BoundsAssumption, StoreAssumption DEF SeedFrame, MainAt, IInv, TypeOK, SlotInv, StopInv, AtStore, Looping, Alive, Thread
<1>4. ResumeInv'
  BY BoundsAssumption, StoreAssumption DEF SeedFrame, MainAt, IInv, TypeOK, SlotInv, StopInv, ResumeInv, Covered, AtStore, Looping, Alive, Thread
<1>5. TrackerKept'
  BY BoundsAssumption, StoreAssumption DEF SeedFrame, MainAt, IInv, TypeOK, SlotInv, StopInv, TrackerKept, AtStore, Looping, Alive, Thread
<1> QED
  BY <1>1, <1>2, <1>3, <1>4, <1>5 DEF IInv

LEMMA JobCompletedStep == ASSUME IInv, JobCompleted PROVE IInv'
<1>1. TypeOK'
  BY BoundsAssumption, StoreAssumption DEF JobCompleted, MainAt, Resume, IInv, TypeOK
<1>2. SlotInv'
  BY BoundsAssumption, StoreAssumption DEF JobCompleted, MainAt, Resume, IInv, TypeOK, SlotInv, AtStore, Thread
<1>3. StopInv'
  BY BoundsAssumption, StoreAssumption DEF JobCompleted, MainAt, Resume, IInv, TypeOK, SlotInv, StopInv, AtStore, Looping, Alive, Thread
<1>4. ResumeInv'
  BY BoundsAssumption, StoreAssumption DEF JobCompleted, MainAt, Resume, IInv, TypeOK, SlotInv, StopInv, ResumeInv, Covered, AtStore, Looping, Alive, Thread
<1>5. TrackerKept'
  BY BoundsAssumption, StoreAssumption DEF JobCompleted, MainAt, Resume, IInv, TypeOK, SlotInv, StopInv, TrackerKept, AtStore, Looping, Alive, Thread
<1> QED
  BY <1>1, <1>2, <1>3, <1>4, <1>5 DEF IInv

LEMMA JobFailedStep == ASSUME IInv, JobFailed PROVE IInv'
<1>1. TypeOK'
  <2>1. main' = [pc |-> "poll", todo |-> {}, store |-> NoStore, frame |-> 0]
    BY DEF JobFailed, Resume
  <2> QED
    BY <2>1, BoundsAssumption DEF JobFailed, IInv, TypeOK
<1>2. SlotInv'
  BY BoundsAssumption, StoreAssumption DEF JobFailed, MainAt, Resume, IInv, TypeOK, SlotInv, AtStore, Thread
<1>3. StopInv'
  BY BoundsAssumption, StoreAssumption DEF JobFailed, MainAt, Resume, IInv, TypeOK, SlotInv, StopInv, AtStore, Looping, Alive, Thread
<1>4. ResumeInv'
  BY BoundsAssumption, StoreAssumption DEF JobFailed, MainAt, Resume, IInv, TypeOK, SlotInv, StopInv, ResumeInv, Covered, AtStore, Looping, Alive, Thread
<1>5. TrackerKept'
  BY BoundsAssumption, StoreAssumption DEF JobFailed, MainAt, Resume, IInv, TypeOK, SlotInv, StopInv, TrackerKept, AtStore, Looping, Alive, Thread
<1> QED
  BY <1>1, <1>2, <1>3, <1>4, <1>5 DEF IInv

LEMMA CrashAndRestartStep == ASSUME IInv, CrashAndRestart PROVE IInv'
<1>1. ASSUME NEW t \in Thread
      PROVE  /\ thread'[t] \in ThreadRecord /\ thread'[t].store = thread[t].store
             /\ thread'[t].pc = IF Alive(t) THEN "done" ELSE thread[t].pc
  <2>1. thread[t] \in ThreadRecord /\ 0 \in 0..Frames
    BY BoundsAssumption DEF IInv, TypeOK, ThreadRecord
  <2>2. CASE Alive(t)
    <3>1. thread'[t] = [thread[t] EXCEPT !.pc = "done", !.frame = 0]
      BY <2>2 DEF CrashAndRestart
    <3>2. [[thread[t] EXCEPT !.pc = "done"] EXCEPT !.frame = 0]
            = [store |-> thread[t].store, pc |-> "done", frame |-> 0]
      BY <2>1, RecordFields, ZenonT(30)
    <3>3. [thread[t] EXCEPT !.pc = "done", !.frame = 0] = [[thread[t] EXCEPT !.pc = "done"] EXCEPT !.frame = 0]
      OBVIOUS
    <3>4. thread[t].store \in Store \cup {NoStore}
      BY <2>1 DEF ThreadRecord
    <3> QED
      BY <2>1, <2>2, <3>1, <3>2, <3>3, <3>4 DEF ThreadRecord
  <2>3. CASE ~Alive(t)
    BY <2>1, <2>3 DEF CrashAndRestart
  <2> QED
    BY <2>2, <2>3
<1>2. /\ slot' = [s \in Store |-> 0] /\ tracker' = [s \in Store |-> 0]
      /\ main' = [pc |-> "resume", todo |-> Store, store |-> NoStore, frame |-> 0]
      /\ lastJob' = "none" /\ UNCHANGED <<files, stop, started, jobs>>
      /\ thread' = [t \in Thread |-> thread'[t]] /\ crashes' \in 0..MaxCrashes
      /\ \A t \in Thread : thread'[t] \in ThreadRecord
  <2>1. crashes' \in 0..MaxCrashes
    <3>1. crashes \in 0..MaxCrashes /\ MaxCrashes \in Nat
      BY BoundsAssumption DEF IInv, TypeOK
    <3>2. crashes < MaxCrashes /\ crashes' = crashes + 1
      BY DEF CrashAndRestart
    <3> QED
      BY <3>1, <3>2
  <2> QED
    BY <1>1, <2>1 DEF CrashAndRestart, Resume
<1>3. \A t \in Thread : ~Alive(t)'
  BY <1>1 DEF Alive
<1>4. TypeOK'
  <2>1. thread' \in [Thread -> ThreadRecord]
    BY <1>2
  <2> QED
    BY <1>2, <2>1, BoundsAssumption DEF IInv, TypeOK, ThreadRecord
<1>5. SlotInv'
  <2>1. \A t \in Thread : t > started => thread'[t].pc = "unborn" /\ ~stop[t]
    BY <1>1 DEF IInv, SlotInv, Alive
  <2>2. \A t \in Thread : t <= started => thread'[t].pc # "unborn" /\ thread'[t].store \in Store
    BY <1>1 DEF IInv, SlotInv, Alive
  <2> QED
    BY <1>2, <2>1, <2>2 DEF SlotInv, AtStore
<1>6. StopInv'
  BY <1>3 DEF StopInv, Looping
<1>7. ResumeInv'
  BY <1>2 DEF ResumeInv
<1>8. TrackerKept'
  BY <1>2, <1>3 DEF TrackerKept, MainAt, Looping
<1> QED
  BY <1>4, <1>5, <1>6, <1>7, <1>8 DEF IInv

-----------------------------------------------------------------------------
(* The steps of a replay thread *)

\* What a step of thread t does: it goes on, or ends where it was told to stop
\* or has no frames, and it takes the tracker only when it was not told to stop.
ThreadEffect(t) ==
  /\ t <= started /\ thread[t].store \in Store /\ Alive(t)
  /\ \A u \in Thread : u # t => thread'[u] = thread[u]
  /\ thread'[t] \in ThreadRecord
  /\ thread'[t].store = thread[t].store
  /\ thread'[t].pc \in {"check", "pass", "done"}
  /\ thread'[t].pc = "done" => stop[t] \/ files[thread[t].store] # "whole"
  /\ \/ /\ tracker' = tracker
        /\ thread'[t].pc = "pass" => thread[t].pc = "pass"
     \/ /\ tracker' = [tracker EXCEPT ![thread[t].store] = t]
        /\ ~stop[t]
  /\ thread' \in [Thread -> ThreadRecord]
  /\ UNCHANGED <<files, slot, stop, started, main, lastJob, jobs, crashes>>

LEMMA ThreadSteps == ASSUME IInv, NEW t \in Thread, ThreadStep(t) PROVE ThreadEffect(t)
<1>1. /\ thread \in [Thread -> ThreadRecord] /\ thread[t] \in ThreadRecord
      /\ t \in Nat /\ started \in Nat /\ Frames \in Nat
  BY BoundsAssumption DEF IInv, TypeOK, ThreadRecord, Thread
<1>2. Alive(t) => t <= started /\ thread[t].store \in Store
  BY <1>1 DEF IInv, SlotInv, Alive
<1>3. ASSUME NEW p \in {"check", "pass", "done"}, NEW f \in 0..Frames
      PROVE  /\ [thread[t] EXCEPT !.pc = p] = [store |-> thread[t].store, pc |-> p, frame |-> thread[t].frame]
             /\ [thread[t] EXCEPT !.frame = f] = [store |-> thread[t].store, pc |-> thread[t].pc, frame |-> f]
             /\ [thread[t] EXCEPT !.pc = p, !.frame = f] = [store |-> thread[t].store, pc |-> p, frame |-> f]
  <2> DEFINE q == thread[t]
  <2>1. q \in ThreadRecord
    BY <1>1
  <2> HIDE DEF q
  <2>2. [q EXCEPT !.pc = p] = [store |-> q.store, pc |-> p, frame |-> q.frame]
    BY <2>1, RecordFields
  <2>3. [q EXCEPT !.frame = f] = [store |-> q.store, pc |-> q.pc, frame |-> f]
    BY <2>1, RecordFields, ZenonT(30)
  <2>4. [[q EXCEPT !.pc = p] EXCEPT !.frame = f] = [store |-> q.store, pc |-> p, frame |-> f]
    <3> DEFINE w == [q EXCEPT !.pc = p]
    <3>1. w \in ThreadRecord /\ w.store = q.store /\ w.pc = p
      BY <2>1 DEF ThreadRecord
    <3> HIDE DEF w
    <3>2. [w EXCEPT !.frame = f] = [store |-> q.store, pc |-> p, frame |-> f]
      BY <3>1, RecordFields, ZenonT(30)
    <3> QED
      BY <3>2 DEF w
  <2>5. [q EXCEPT !.pc = p, !.frame = f] = [[q EXCEPT !.pc = p] EXCEPT !.frame = f]
    OBVIOUS
  <2> QED
    BY <2>2, <2>3, <2>4, <2>5 DEF q
<1>4. ASSUME NEW r \in ThreadRecord, thread' = [thread EXCEPT ![t] = r]
      PROVE  /\ thread' \in [Thread -> ThreadRecord] /\ thread'[t] = r
             /\ \A u \in Thread : u # t => thread'[u] = thread[u]
  BY <1>1, <1>4
<1>5. CASE Load(t)
  <2>1. PICK p \in {"check", "done"} :
           /\ thread' = [thread EXCEPT ![t] = [thread[t] EXCEPT !.pc = p]]
           /\ p = "done" => files[thread[t].store] # "whole"
    BY <1>5 DEF Load
  <2> DEFINE r == [store |-> thread[t].store, pc |-> p, frame |-> thread[t].frame]
  <2>2. thread' = [thread EXCEPT ![t] = r] /\ r \in ThreadRecord
    BY <1>1, <1>3, <2>1 DEF ThreadRecord
  <2> QED
    <3>1. Alive(t) /\ UNCHANGED <<files, slot, stop, started, main, tracker, lastJob, jobs, crashes>>
      BY <1>5 DEF Load, Alive
    <3>2. r.store = thread[t].store /\ r.pc = p
      OBVIOUS
    <3> HIDE DEF r
    <3> QED
      BY <1>2, <1>4, <2>1, <2>2, <3>1, <3>2 DEF ThreadEffect
<1>6. CASE CheckStop(t)
  <2>1. PICK p \in {"pass", "done"} :
           /\ thread' = [thread EXCEPT ![t] = [thread[t] EXCEPT !.pc = p]]
           /\ p = "done" => stop[t] /\ tracker' = tracker
           /\ p = "pass" => ~stop[t] /\ tracker' = [tracker EXCEPT ![thread[t].store] = t]
    BY <1>6 DEF CheckStop
  <2> DEFINE r == [store |-> thread[t].store, pc |-> p, frame |-> thread[t].frame]
  <2>2. thread' = [thread EXCEPT ![t] = r] /\ r \in ThreadRecord
    BY <1>1, <1>3, <2>1 DEF ThreadRecord
  <2> QED
    <3>1. Alive(t) /\ UNCHANGED <<files, slot, stop, started, main, lastJob, jobs, crashes>>
      BY <1>6 DEF CheckStop, Alive
    <3>2. r.store = thread[t].store /\ r.pc = p
      OBVIOUS
    <3> HIDE DEF r
    <3> QED
      BY <1>2, <1>4, <2>1, <2>2, <3>1, <3>2 DEF ThreadEffect
<1>7. CASE PlayFrame(t)
  <2>1. CASE thread[t].frame < Frames /\ thread' = [thread EXCEPT ![t] = [thread[t] EXCEPT !.frame = thread[t].frame + 1]]
    <3> DEFINE r == [store |-> thread[t].store, pc |-> "pass", frame |-> thread[t].frame + 1]
    <3>0. thread[t].frame + 1 \in 0..Frames
      BY <1>1, <2>1 DEF ThreadRecord
    <3>1. thread' = [thread EXCEPT ![t] = r] /\ r \in ThreadRecord
      BY <1>1, <1>3, <1>7, <2>1, <3>0 DEF ThreadRecord, PlayFrame
    <3>2. /\ Alive(t) /\ thread[t].pc = "pass"
          /\ UNCHANGED <<files, slot, stop, started, main, tracker, lastJob, jobs, crashes>>
      BY <1>7 DEF PlayFrame, Alive
    <3>3. r.store = thread[t].store /\ r.pc \in {"check", "pass"}
      OBVIOUS
    <3> HIDE DEF r
    <3> QED
      BY <1>2, <1>4, <3>1, <3>2, <3>3 DEF ThreadEffect
  <2>2. CASE thread' = [thread EXCEPT ![t] = [thread[t] EXCEPT !.pc = "check", !.frame = 0]]
    <3> DEFINE r == [store |-> thread[t].store, pc |-> "check", frame |-> 0]
    <3>0. 0 \in 0..Frames
      BY <1>1
    <3>1. thread' = [thread EXCEPT ![t] = r] /\ r \in ThreadRecord
      BY <1>1, <1>3, <2>2, <3>0 DEF ThreadRecord
    <3>2. /\ Alive(t) /\ thread[t].pc = "pass"
          /\ UNCHANGED <<files, slot, stop, started, main, tracker, lastJob, jobs, crashes>>
      BY <1>7 DEF PlayFrame, Alive
    <3>3. r.store = thread[t].store /\ r.pc \in {"check", "pass"}
      OBVIOUS
    <3> HIDE DEF r
    <3> QED
      BY <1>2, <1>4, <3>1, <3>2, <3>3 DEF ThreadEffect
  <2> QED
    BY <1>7, <2>1, <2>2 DEF PlayFrame
<1> QED
  BY <1>5, <1>6, <1>7 DEF ThreadStep

LEMMA ThreadInv == ASSUME IInv, NEW t \in Thread, ThreadEffect(t) PROVE IInv'
<1>1. TypeOK'
  <2>1. tracker' \in [Store -> 0..MaxThreads]
    BY BoundsAssumption DEF ThreadEffect, IInv, TypeOK, Thread
  <2>2. thread' \in [Thread -> ThreadRecord]
    BY DEF ThreadEffect
  <2> QED
    BY <2>1, <2>2 DEF ThreadEffect, ThreadRecord, IInv, TypeOK
<1>2. SlotInv'
  <2>1. started \in Nat /\ t \in Nat
    BY DEF IInv, TypeOK, Thread
  <2>2. \A u \in Thread : thread'[u].store = thread[u].store
    BY DEF ThreadEffect
  <2>3. \A u \in Thread : u > started => thread'[u].pc = "unborn" /\ ~stop[u]
    BY <2>1 DEF ThreadEffect, IInv, SlotInv, Thread
  <2>4. \A u \in Thread : u <= started => thread'[u].pc # "unborn" /\ thread'[u].store \in Store
    BY <2>2 DEF ThreadEffect, IInv, SlotInv
  <2>5. \A s \in Store : slot[s] # 0 => slot[s] <= started /\ slot[s] \in Thread /\ thread'[slot[s]].store = s
    BY <2>2 DEF IInv, TypeOK, SlotInv, Thread
  <2> QED
    BY <2>3, <2>4, <2>5 DEF ThreadEffect, IInv, SlotInv
<1>3. \A u \in Thread : Looping(u)' => Looping(u) /\ thread'[u].store = thread[u].store
  BY DEF ThreadEffect, Looping, Alive
<1>4. StopInv'
  BY <1>3 DEF ThreadEffect, IInv, StopInv
<1>5. \A s \in Store : Covered(s) => Covered(s)'
  BY DEF ThreadEffect, IInv, TypeOK, SlotInv, Covered, Looping, Alive, Thread
<1>6. ResumeInv'
  BY <1>5 DEF ThreadEffect, IInv, ResumeInv
<1>7. TrackerKept'
  <2>1. thread[t].store \in Store /\ tracker \in [Store -> 0..MaxThreads]
    BY DEF ThreadEffect, IInv, TypeOK
  <2>2. CASE /\ tracker' = tracker
             /\ thread'[t].pc = "pass" => thread[t].pc = "pass"
    BY <1>3, <2>2 DEF ThreadEffect, IInv, TrackerKept, MainAt
  <2>3. CASE tracker' = [tracker EXCEPT ![thread[t].store] = t] /\ ~stop[t]
    <3>1. Looping(t) /\ UNCHANGED main
      BY <2>3 DEF ThreadEffect, Looping
    <3>2. ~MainAt("pass")
      BY <3>1 DEF IInv, StopInv, MainAt
    <3>3. \A u \in Thread : Looping(u) /\ u # t => thread[u].store # thread[t].store
      BY <3>1 DEF IInv, StopInv
    <3> QED
      BY <1>3, <2>1, <2>3, <3>1, <3>2, <3>3 DEF ThreadEffect, IInv, TrackerKept, MainAt
  <2> QED
    BY <2>2, <2>3 DEF ThreadEffect
<1> QED
  BY <1>1, <1>2, <1>4, <1>6, <1>7 DEF IInv

-----------------------------------------------------------------------------
LEMMA NextStep == ASSUME IInv, [Next]_vars PROVE IInv'
<1>1. CASE UNCHANGED vars
  BY <1>1 DEF vars, IInv, TypeOK, SlotInv, StopInv, ResumeInv, TrackerKept, Covered, Looping, Alive, MainAt
<1>2. ASSUME NEW t \in Thread, ThreadStep(t) PROVE IInv'
  BY <1>2, ThreadSteps, ThreadInv
<1>3. CASE MainStep
  BY <1>3, StopNextStep, SkipStoreStep, ResumeStoreStep, JoinEndsStep, AllStoppedStep,
     StartThreadStep, ResumedStep, ClearCacheStep, WriteCacheStep, SeedPassStep,
     SeedFrameStep, JobCompletedStep, JobFailedStep DEF MainStep, ProcessStep
<1> QED
  BY <1>1, <1>2, <1>3, ClaimStep, CrashAndRestartStep DEF Next

LEMMA Invariance == Spec => []IInv
BY InitInv, NextStep, PTL DEF Spec

\* Every variable keeps its type.
THEOREM TypeCorrect == Spec => []TypeOK
<1>1. IInv => TypeOK
  BY DEF IInv
<1> QED
  BY <1>1, Invariance, PTL

\* However long a thread outlives its join, a thread that no slot names any more
\* has been told to stop: the loops a worker cannot end are none.
THEOREM NoThreadIsOrphaned == Spec => []NoOrphanLoop
<1>1. IInv => NoOrphanLoop
  BY DEF IInv, StopInv, NoOrphanLoop
<1> QED
  BY <1>1, Invariance, PTL

\* When the worker polls again after a completed job or a restart, every store
\* with cached frames is being replayed.
THEOREM StoresAreReplayed == Spec => []CachedStoresReplay
<1>1. IInv => CachedStoresReplay
  BY DEF IInv, ResumeInv, Covered, CachedStoresReplay, MainAt
<1> QED
  BY <1>1, Invariance, PTL

\* Nobody resets the tracker of a store under the pass of its job or of its
\* current thread.
THEOREM TrackersAreKept == Spec => []TrackerKept
<1>1. IInv => TrackerKept
  BY DEF IInv
<1> QED
  BY <1>1, Invariance, PTL
=============================================================================
