------------------------- MODULE ReplayFeed_proofs -------------------------
(***************************************************************************)
(* The feed of one store for any film, any zones and any number of          *)
(* threads, polls, frames and faults.  The inductive invariant follows a    *)
(* frame's number: through the picture and its description (SnapInv), the   *)
(* memory and the row of the occupancy (SaveInv), the request the worker    *)
(* waits for (WaitInv), and from the state to the screen (FrameInv,         *)
(* OrderInv); and it follows the version of the ROI through the frames      *)
(* between two checks (RoiInv).  A second invariant follows a number from   *)
(* picture to picture (PeopleInv): the track that has it is where it was    *)
(* last given, so many frames ago as it was missed.                         *)
(***************************************************************************)
EXTENDS ReplayFeed, FiniteSetTheorems, SequenceTheorems, WellFoundedInduction, TLAPS

Request == [does : {"nothing", "state", "occupancy", "persist", "fill"}, frame : Nat]
Worker == [at : {"roi", "image", "state", "occupancy", "sleep", "down"}, on : SUBSET (Thread \cup {"loop"}),
           tries : Nat, tick : Nat, cycle : Nat]

TypeInv ==
  /\ state \in Nat /\ memory \in Nat /\ row \in Nat /\ lastSave \in Nat
  /\ image \in Nat /\ meta \in Nat /\ loop \in Nat
  /\ threads \in [Thread -> Request]
  /\ mixed \in BOOLEAN /\ torn \in BOOLEAN /\ missed \in BOOLEAN /\ lost \in BOOLEAN /\ live \in BOOLEAN
  /\ polls \in [Poll -> [at : {"idle", "state", "image"}, read : Nat]]
  /\ shown \in Nat
  /\ w \in Worker
  /\ roi \in [version : Nat, age : 0..Refresh]
  /\ file \in Nat /\ approved \in Nat
  /\ before \in Seq(Nat) /\ Len(before) = Refresh
  /\ out.n \in Nat

\* The picture is never older than its description, nor newer than the frame being sent.
SnapInv ==
  /\ meta <= image /\ image <= out.n
  /\ loop # 0 => loop = image
  /\ loop = 0 /\ ~ torn => meta = image
  /\ \A p \in Poll : polls[p].at = "image" => polls[p].read <= image

\* What is on its way to the row or into memory is what was saved last.
SaveInv ==
  ~ mixed =>
    /\ memory \in {NoFrame, lastSave}
    /\ \A t \in Thread : threads[t].does \in {"persist", "fill"} => threads[t].frame = lastSave
    /\ ~ Saving => row = lastSave

\* The versions approved at the last frames, and the one cached among them: the check
\* was as many frames ago as the cache is old.
Checked == IF w.at = "roi" THEN Refresh - roi.age + 1 ELSE Refresh - roi.age

RoiInv ==
  /\ \A i \in 1..Refresh : before[i] <= approved
  /\ \A i, j \in 1..Refresh : i <= j => before[i] <= before[j]
  /\ roi.version <= approved /\ file <= approved
  /\ ~ missed /\ roi.age < Refresh => Checked \in 1..Refresh /\ before[Checked] <= roi.version

\* The worker waits for the request it made for this frame.
WaitInv ==
  w.on # {} =>
    \/ w.at = "image" /\ w.on = {"loop"}
    \/ \E t \in Thread : /\ w.on = {t} /\ threads[t].frame = out.n
                         /\ \/ w.at = "state" /\ threads[t].does = "state"
                            \/ w.at = "occupancy" /\ threads[t].does \in {"occupancy", "persist"}

\* No frame is ahead of the one being sent.
FrameInv ==
  /\ state <= out.n /\ memory <= out.n /\ row <= out.n
  /\ \A t \in Thread : threads[t].frame <= out.n
  /\ \A p \in Poll : polls[p].at = "state" => polls[p].read <= out.n

\* Unless a state was lost, no occupancy is ahead of the state.
OrderInv ==
  ~ lost =>
    /\ memory <= state /\ row <= state
    /\ \A t \in Thread : threads[t].does \in {"occupancy", "persist", "fill"} => threads[t].frame <= state
    /\ \A t \in Thread : threads[t].does = "state" => threads[t].frame = out.n /\ w.at = "state"
    /\ \A p \in Poll : polls[p].at = "state" => polls[p].read <= state
    /\ w.at = "occupancy" => out.n <= state

IInv == TypeInv /\ SnapInv /\ SaveInv /\ RoiInv /\ WaitInv /\ FrameInv /\ OrderInv
-----------------------------------------------------------------------------
(* What most steps leave alone *)

LEMMA SnapKept ==
  ASSUME TypeInv, SnapInv, image' = image, meta' = meta, loop' = loop, torn' = torn,
         out'.n \in Nat, out.n <= out'.n,
         \A p \in Poll : polls'[p].at = "image" => polls'[p] = polls[p]
  PROVE  SnapInv'
BY DEF TypeInv, SnapInv

LEMMA SaveKept ==
  ASSUME TypeInv, SaveInv, memory' = memory, row' = row, lastSave' = lastSave, mixed' = mixed,
         \A t \in Thread : \/ threads'[t] = threads[t]
                           \/ threads[t].does \notin {"persist", "fill"} /\ threads'[t].does \notin {"persist", "fill"}
  PROVE  SaveInv'
<1>1. Saving' <=> Saving
  BY DEF Saving, Handling
<1>2. \A t \in Thread : threads'[t].does \in {"persist", "fill"} => threads'[t] = threads[t]
  OBVIOUS
<1> QED
  BY <1>1, <1>2 DEF SaveInv

LEMMA RoiKept ==
  ASSUME RoiInv, roi' = roi, file' = file, approved' = approved, before' = before, missed' = missed,
         w'.at = "roi" <=> w.at = "roi"
  PROVE  RoiInv'
<1>1. Checked' = Checked
  BY DEF Checked
<1> QED
  BY <1>1 DEF RoiInv

LEMMA WaitKept ==
  ASSUME WaitInv, w' = w, out' = out, threads' = threads
  PROVE  WaitInv'
BY DEF WaitInv

\* What the worker does when it is answered, and when it is not.
LEMMA Answers ==
  ASSUME w \in Worker, w.at \in {"image", "state", "occupancy"}
  PROVE  /\ Answered \in Worker /\ Answered.on = {}
         /\ Answered.at = CASE w.at = "image" -> "state" [] w.at = "state" -> "occupancy" [] w.at = "occupancy" -> "sleep"
<1>1. After(w.at) = CASE w.at = "image" -> "state" [] w.at = "state" -> "occupancy" [] w.at = "occupancy" -> "sleep"
  BY DEF After
<1>2. PICK a \in {"state", "occupancy", "sleep"} : a = After(w.at)
  BY <1>1
<1>3. PICK v : v = [w EXCEPT !.at = a, !.on = {}, !.tries = 0]
  OBVIOUS
<1>4. v \in Worker /\ v.on = {} /\ v.at = a
  BY <1>3 DEF Worker
<1> QED
  BY <1>1, <1>2, <1>3, <1>4 DEF Answered

LEMMA Failures ==
  ASSUME w \in Worker, w.at \in {"image", "state", "occupancy"}, NEW bare \in BOOLEAN
  PROVE  /\ Failed(bare) \in Worker /\ Failed(bare).on = {}
         /\ Failed(bare).at \in {w.at, "down", After(w.at)}
<1>1. CASE w.tries + 1 < Tries
  <2>0. PICK n \in Nat : n = w.tries + 1
    BY DEF Worker
  <2>1. PICK v : v = [w EXCEPT !.on = {}, !.tries = n]
    OBVIOUS
  <2>2. v \in Worker /\ v.on = {} /\ v.at = w.at
    BY <2>1 DEF Worker
  <2> QED
    BY <1>1, <2>0, <2>1, <2>2 DEF Failed
<1>2. CASE ~ (w.tries + 1 < Tries) /\ bare /\ ~ live
  <2>1. PICK v : v = [w EXCEPT !.at = "down", !.on = {}]
    OBVIOUS
  <2>2. v \in Worker /\ v.on = {} /\ v.at = "down"
    BY <2>1 DEF Worker
  <2> QED
    BY <1>2, <2>1, <2>2 DEF Failed
<1>3. CASE ~ (w.tries + 1 < Tries) /\ ~ (bare /\ ~ live)
  <2>1. Failed(bare) = Answered
    BY <1>3 DEF Failed
  <2> QED
    BY <2>1, Answers DEF After
<1> QED
  BY <1>1, <1>2, <1>3

-----------------------------------------------------------------------------
(* The threads of the API *)

LEMMA SaveOccupancyKeeps ==
  ASSUME IInv, NEW t \in Thread, SaveOccupancy(t), Others, UNCHANGED <<faults, viewVars>>
  PROVE  IInv'
<1>0. TypeInv /\ SnapInv /\ SaveInv /\ RoiInv /\ WaitInv /\ FrameInv /\ OrderInv
  BY DEF IInv
<1>1. /\ w' = w /\ roi' = roi /\ file' = file /\ out' = out /\ approved' = approved /\ before' = before
      /\ missed' = missed /\ lost' = lost /\ live' = live /\ polls' = polls /\ shown' = shown
      /\ state' = state /\ row' = row /\ image' = image /\ meta' = meta /\ loop' = loop /\ torn' = torn
  BY DEF SaveOccupancy, Others, workVars, viewVars, diskVars
<1>2. PICK f \in Nat : f = threads[t].frame /\ threads[t].does = "occupancy"
  BY <1>0 DEF TypeInv, Request, SaveOccupancy, Handling
<1>3. /\ memory' = f /\ lastSave' = f /\ mixed' = (Saving \/ Loading)
      /\ threads' = [threads EXCEPT ![t] = [does |-> "persist", frame |-> f]]
  BY <1>2 DEF SaveOccupancy, Sets
<1>4. /\ threads'[t].does = "persist" /\ threads'[t].frame = f
      /\ \A u \in Thread : u # t => threads'[u] = threads[u]
  BY <1>0, <1>3 DEF TypeInv
<1>5. TypeInv'
  <2>1. threads' \in [Thread -> Request]
    BY <1>0, <1>3 DEF TypeInv, Request
  <2>2. mixed' \in BOOLEAN
    BY <1>3
  <2> QED
    BY <1>0, <1>1, <1>3, <2>1, <2>2 DEF TypeInv
<1>6. SnapInv'
  BY <1>0, <1>1, SnapKept DEF TypeInv
<1>7. SaveInv'
  <2> SUFFICES ASSUME ~ mixed' PROVE /\ memory' \in {NoFrame, lastSave'}
                                     /\ \A u \in Thread : threads'[u].does \in {"persist", "fill"} => threads'[u].frame = lastSave'
                                     /\ Saving'
    BY DEF SaveInv
  <2>1. \A u \in Thread : threads[u].does # "persist" /\ threads[u].does # "fill"
    BY <1>3 DEF Saving, Loading, Handling
  <2>2. Saving'
    BY <1>4 DEF Saving, Handling
  <2> QED
    BY <1>3, <1>4, <2>1, <2>2
<1>8. RoiInv'
  BY <1>0, <1>1, RoiKept
<1>9. WaitInv'
  BY <1>0, <1>1, <1>2, <1>4 DEF WaitInv
<1>10. FrameInv'
  BY <1>0, <1>1, <1>2, <1>3, <1>4 DEF FrameInv
<1>11. OrderInv'
  BY <1>0, <1>1, <1>2, <1>3, <1>4 DEF OrderInv
<1> QED
  BY <1>5, <1>6, <1>7, <1>8, <1>9, <1>10, <1>11 DEF IInv

LEMMA FillKeeps ==
  ASSUME IInv, NEW t \in Thread, Fill(t), Others, UNCHANGED <<faults, viewVars>>
  PROVE  IInv'
<1>0. TypeInv /\ SnapInv /\ SaveInv /\ RoiInv /\ WaitInv /\ FrameInv /\ OrderInv
  BY DEF IInv
<1>1. /\ w' = w /\ roi' = roi /\ file' = file /\ out' = out /\ approved' = approved /\ before' = before
      /\ missed' = missed /\ lost' = lost /\ live' = live /\ polls' = polls /\ shown' = shown
      /\ state' = state /\ row' = row /\ image' = image /\ meta' = meta /\ loop' = loop /\ torn' = torn
      /\ lastSave' = lastSave /\ mixed' = mixed
  BY DEF Fill, Others, workVars, viewVars, diskVars
<1>2. PICK f \in Nat : f = threads[t].frame /\ threads[t].does = "fill"
  BY <1>0 DEF TypeInv, Request, Fill, Handling
<1>3. memory' = f /\ threads' = [threads EXCEPT ![t] = Free]
  BY <1>2 DEF Fill, Frees
<1>4. /\ threads'[t].does = "nothing" /\ threads'[t].frame = 0
      /\ \A u \in Thread : u # t => threads'[u] = threads[u]
  BY <1>0, <1>3 DEF TypeInv, Free, NoFrame
<1>5. TypeInv'
  <2>1. threads' \in [Thread -> Request]
    BY <1>0, <1>3 DEF TypeInv, Request, Free, NoFrame
  <2> QED
    BY <1>0, <1>1, <1>3, <2>1 DEF TypeInv
<1>6. SnapInv'
  BY <1>0, <1>1, SnapKept DEF TypeInv
<1>7. SaveInv'
  <2>1. Saving' <=> Saving
    BY <1>2, <1>4 DEF Saving, Handling
  <2> QED
    BY <1>0, <1>1, <1>2, <1>3, <1>4, <2>1 DEF SaveInv
<1>8. RoiInv'
  BY <1>0, <1>1, RoiKept
<1>9. WaitInv'
  BY <1>0, <1>1, <1>2, <1>4 DEF WaitInv
<1>10. FrameInv'
  BY <1>0, <1>1, <1>2, <1>3, <1>4 DEF FrameInv, TypeInv
<1>11. OrderInv'
  BY <1>0, <1>1, <1>2, <1>3, <1>4 DEF OrderInv
<1> QED
  BY <1>5, <1>6, <1>7, <1>8, <1>9, <1>10, <1>11 DEF IInv

\* What a state that is committed, or an occupancy that is written, leaves alone.
LEMMA StateDoneKeeps == ASSUME IInv, NEW t \in Thread, StateDone(t) PROVE IInv'
<1>0. TypeInv /\ SnapInv /\ SaveInv /\ RoiInv /\ WaitInv /\ FrameInv /\ OrderInv
  BY DEF IInv
<1>1. /\ roi' = roi /\ file' = file /\ out' = out /\ approved' = approved /\ before' = before
      /\ missed' = missed /\ live' = live /\ polls' = polls /\ shown' = shown
      /\ memory' = memory /\ row' = row /\ lastSave' = lastSave /\ mixed' = mixed
      /\ image' = image /\ meta' = meta /\ loop' = loop /\ torn' = torn
  BY DEF StateDone, CommitState, filmVars, roiVars, sendVars, viewVars, diskVars, frameVars
<1>2. PICK f \in Nat : f = threads[t].frame /\ threads[t].does = "state"
  BY <1>0 DEF TypeInv, Request, StateDone, CommitState, Handling
<1>3. /\ state' = f /\ threads' = [threads EXCEPT ![t] = Free]
      /\ w' = IF w.on = {t} THEN Answered ELSE w
      /\ lost' = ((lost /\ w.on # {t}) \/ \E u \in Thread \ {t} : Handling(u, "state"))
  BY <1>2 DEF StateDone, CommitState, Frees
<1>4. /\ threads'[t].does = "nothing" /\ threads'[t].frame = 0
      /\ \A u \in Thread : u # t => threads'[u] = threads[u]
  BY <1>0, <1>3 DEF TypeInv, Free, NoFrame
\* The worker is answered only when it waits for this state.
<1>5. w.on = {t} => w.at = "state" /\ f = out.n
  <2> SUFFICES ASSUME w.on = {t} PROVE w.at = "state" /\ f = out.n
    OBVIOUS
  <2>1. w.on # {"loop"}
    BY FeedAssumption
  <2>2. PICK u \in Thread : /\ w.on = {u} /\ threads[u].frame = out.n
                            /\ \/ w.at = "state" /\ threads[u].does = "state"
                               \/ w.at = "occupancy" /\ threads[u].does \in {"occupancy", "persist"}
    BY <1>0, <2>1 DEF WaitInv
  <2>3. u = t
    BY <2>2
  <2> QED
    BY <1>2, <2>2, <2>3
<1>6. /\ w' \in Worker
      /\ w.on = {t} => w'.on = {} /\ w'.at = "occupancy" /\ w.at = "state" /\ f = out.n
      /\ w.on # {t} => w' = w
  <2>1. w \in Worker
    BY <1>0 DEF TypeInv
  <2>2. CASE w.on = {t}
    BY <1>3, <1>5, <2>1, <2>2, Answers
  <2>3. CASE w.on # {t}
    BY <1>3, <2>1, <2>3
  <2> QED
    BY <2>2, <2>3
<1>7. TypeInv'
  <2>1. threads' \in [Thread -> Request]
    BY <1>0, <1>3 DEF TypeInv, Request, Free, NoFrame
  <2>2. lost' \in BOOLEAN
    BY <1>3
  <2> QED
    BY <1>0, <1>1, <1>3, <1>6, <2>1, <2>2 DEF TypeInv
<1>8. SnapInv'
  BY <1>0, <1>1, SnapKept DEF TypeInv
<1>9. SaveInv'
  BY <1>0, <1>1, <1>2, <1>4, SaveKept
<1>10. RoiInv'
  <2>1. w'.at = "roi" <=> w.at = "roi"
    BY <1>6
  <2> QED
    BY <1>0, <1>1, <2>1, RoiKept
<1>11. WaitInv'
  <2>1. CASE w.on = {t}
    BY <1>6, <2>1 DEF WaitInv
  <2>2. CASE w.on # {t}
    BY <1>0, <1>1, <1>4, <1>6, <2>2 DEF WaitInv
  <2> QED
    BY <2>1, <2>2
<1>12. FrameInv'
  BY <1>0, <1>1, <1>2, <1>3, <1>4, SMTT(20) DEF FrameInv, TypeInv
<1>13. OrderInv'
  <2> SUFFICES ASSUME ~ lost' PROVE OrderInv'
    BY DEF OrderInv
  <2>1. f = out.n
    BY <1>0, <1>2, <1>3, <1>6 DEF OrderInv
  <2>2. \A u \in Thread : u # t => threads[u].does # "state"
    BY <1>3 DEF Handling
  <2> QED
    BY <1>0, <1>1, <1>3, <1>4, <1>6, <2>1, <2>2 DEF OrderInv, FrameInv, TypeInv
<1> QED
  BY <1>7, <1>8, <1>9, <1>10, <1>11, <1>12, <1>13 DEF IInv

LEMMA OccupancyDoneKeeps == ASSUME IInv, NEW t \in Thread, OccupancyDone(t) PROVE IInv'
<1>0. TypeInv /\ SnapInv /\ SaveInv /\ RoiInv /\ WaitInv /\ FrameInv /\ OrderInv
  BY DEF IInv
<1>1. /\ roi' = roi /\ file' = file /\ out' = out /\ approved' = approved /\ before' = before
      /\ missed' = missed /\ live' = live /\ polls' = polls /\ shown' = shown /\ lost' = lost
      /\ memory' = memory /\ lastSave' = lastSave /\ state' = state
      /\ image' = image /\ meta' = meta /\ loop' = loop /\ torn' = torn
  BY DEF OccupancyDone, Persist, PersistFails, filmVars, roiVars, sendVars, viewVars, diskVars
<1>2. PICK f \in Nat : f = threads[t].frame /\ threads[t].does = "persist"
  BY <1>0 DEF TypeInv, Request, OccupancyDone, Persist, PersistFails, Handling
<1>3. /\ threads' = [threads EXCEPT ![t] = Free]
      /\ w' = IF w.on = {t} THEN Answered ELSE w
      /\ (row' = f /\ mixed' = mixed) \/ (row' = row /\ mixed' = TRUE)
  BY <1>2 DEF OccupancyDone, Persist, PersistFails, Frees
<1>4. /\ threads'[t].does = "nothing" /\ threads'[t].frame = 0
      /\ \A u \in Thread : u # t => threads'[u] = threads[u]
  BY <1>0, <1>3 DEF TypeInv, Free, NoFrame
<1>5. w.on = {t} => w.at = "occupancy" /\ f = out.n
  <2> SUFFICES ASSUME w.on = {t} PROVE w.at = "occupancy" /\ f = out.n
    OBVIOUS
  <2>1. w.on # {"loop"}
    BY FeedAssumption
  <2>2. PICK u \in Thread : /\ w.on = {u} /\ threads[u].frame = out.n
                            /\ \/ w.at = "state" /\ threads[u].does = "state"
                               \/ w.at = "occupancy" /\ threads[u].does \in {"occupancy", "persist"}
    BY <1>0, <2>1 DEF WaitInv
  <2>3. u = t
    BY <2>2
  <2> QED
    BY <1>2, <2>2, <2>3
<1>6. /\ w' \in Worker
      /\ w.on = {t} => w'.on = {} /\ w'.at = "sleep" /\ w.at = "occupancy"
      /\ w.on # {t} => w' = w
  <2>1. w \in Worker
    BY <1>0 DEF TypeInv
  <2>2. CASE w.on = {t}
    BY <1>3, <1>5, <2>1, <2>2, Answers
  <2>3. CASE w.on # {t}
    BY <1>3, <2>1, <2>3
  <2> QED
    BY <2>2, <2>3
<1>7. TypeInv'
  <2>1. threads' \in [Thread -> Request]
    BY <1>0, <1>3 DEF TypeInv, Request, Free, NoFrame
  <2>2. row' \in Nat /\ mixed' \in BOOLEAN
    BY <1>0, <1>3 DEF TypeInv
  <2> QED
    BY <1>0, <1>1, <1>6, <2>1, <2>2 DEF TypeInv
<1>8. SnapInv'
  BY <1>0, <1>1, SnapKept DEF TypeInv
<1>9. SaveInv'
  <2> SUFFICES ASSUME ~ mixed' PROVE /\ memory' \in {NoFrame, lastSave'}
                                     /\ \A u \in Thread : threads'[u].does \in {"persist", "fill"} => threads'[u].frame = lastSave'
                                     /\ row' = lastSave'
    BY DEF SaveInv
  <2>1. row' = f /\ ~ mixed
    BY <1>3
  <2> QED
    BY <1>0, <1>1, <1>2, <1>4, <2>1 DEF SaveInv
<1>10. RoiInv'
  <2>1. w'.at = "roi" <=> w.at = "roi"
    BY <1>6
  <2> QED
    BY <1>0, <1>1, <2>1, RoiKept
<1>11. WaitInv'
  <2>1. CASE w.on = {t}
    BY <1>6, <2>1 DEF WaitInv
  <2>2. CASE w.on # {t}
    BY <1>0, <1>1, <1>4, <1>6, <2>2 DEF WaitInv
  <2> QED
    BY <2>1, <2>2
<1>12. FrameInv'
  BY <1>0, <1>1, <1>2, <1>3, <1>4 DEF FrameInv, TypeInv
<1>13. OrderInv'
  BY <1>0, <1>1, <1>2, <1>3, <1>4, <1>6 DEF OrderInv, FrameInv, TypeInv
<1> QED
  BY <1>7, <1>8, <1>9, <1>10, <1>11, <1>12, <1>13 DEF IInv

-----------------------------------------------------------------------------
(* The requests of the worker *)

\* A request not answered: what the worker goes on with.
LEMMA FailedStep ==
  ASSUME IInv, NEW bare \in BOOLEAN, w.at \in {"image", "state", "occupancy"}, w' = Failed(bare),
         lost' = (lost \/ GivesUp(w'))
  PROVE  /\ w' \in Worker /\ w'.on = {} /\ w'.at # "roi" /\ w.at # "roi" /\ lost' \in BOOLEAN
         /\ ~ lost' => /\ ~ lost /\ (w.at = "state" => w'.at = "state")
                       /\ w'.at = "occupancy" => w.at = "occupancy"
<1>1. w \in Worker /\ lost \in BOOLEAN
  BY DEF IInv, TypeInv
<1>2. w' \in Worker /\ w'.on = {} /\ w'.at \in {w.at, "down", After(w.at)}
  BY <1>1, Failures
<1>3. w'.at = w.at \/ w'.at = "down" \/ (w.at = "image" /\ w'.at = "state") \/ (w.at = "state" /\ w'.at = "occupancy")
        \/ (w.at = "occupancy" /\ w'.at = "sleep")
  BY <1>2 DEF After
<1>4. GivesUp(w') <=> w.at = "state" /\ w'.at # "state"
  BY DEF GivesUp
<1> QED
  BY <1>1, <1>2, <1>3, <1>4

LEMMA UnansweredKeeps ==
  ASSUME IInv, NEW bare \in BOOLEAN, w.at \in {"image", "state", "occupancy"}, w' = Failed(bare),
         lost' = (lost \/ GivesUp(w')),
         UNCHANGED <<filmVars, roiVars, sendVars, apiVars, viewVars>>
  PROVE  IInv'
<1>0. TypeInv /\ SnapInv /\ SaveInv /\ RoiInv /\ WaitInv /\ FrameInv /\ OrderInv
  BY DEF IInv
<1>1. /\ roi' = roi /\ file' = file /\ out' = out /\ approved' = approved /\ before' = before
      /\ missed' = missed /\ live' = live /\ polls' = polls /\ shown' = shown /\ threads' = threads
      /\ memory' = memory /\ row' = row /\ lastSave' = lastSave /\ state' = state /\ mixed' = mixed
      /\ image' = image /\ meta' = meta /\ loop' = loop /\ torn' = torn
  BY DEF filmVars, roiVars, sendVars, apiVars, viewVars
<1>2. /\ w' \in Worker /\ w'.on = {} /\ w'.at # "roi" /\ w.at # "roi" /\ lost' \in BOOLEAN
      /\ ~ lost' => /\ ~ lost /\ (w.at = "state" => w'.at = "state")
                    /\ w'.at = "occupancy" => w.at = "occupancy"
  BY FailedStep
<1>3. TypeInv'
  BY <1>0, <1>1, <1>2 DEF TypeInv
<1>4. SnapInv'
  BY <1>0, <1>1, SnapKept DEF TypeInv
<1>5. SaveInv'
  BY <1>0, <1>1, SaveKept
<1>6. RoiInv'
  BY <1>0, <1>1, <1>2, RoiKept
<1>7. WaitInv'
  BY <1>2 DEF WaitInv
<1>8. FrameInv'
  BY <1>0, <1>1 DEF FrameInv
<1>9. OrderInv'
  BY <1>0, <1>1, <1>2 DEF OrderInv
<1> QED
  BY <1>3, <1>4, <1>5, <1>6, <1>7, <1>8, <1>9 DEF IInv

\* Who waits has asked for a picture, a state or an occupancy to be stored.
LEMMA Waiting == ASSUME IInv, w.on # {} PROVE w.at \in {"image", "state", "occupancy"}
BY DEF IInv, WaitInv

LEMMA PostRefusedKeeps == ASSUME IInv, PostRefused PROVE IInv'
BY UnansweredKeeps DEF PostRefused

LEMMA PostTimesOutKeeps == ASSUME IInv, PostTimesOut PROVE IInv'
BY UnansweredKeeps, Waiting DEF PostTimesOut

LEMMA PostKeeps == ASSUME IInv, Post PROVE IInv'
<1>0. TypeInv /\ SnapInv /\ SaveInv /\ RoiInv /\ WaitInv /\ FrameInv /\ OrderInv
  BY DEF IInv
<1>1. /\ roi' = roi /\ file' = file /\ out' = out /\ approved' = approved /\ before' = before
      /\ missed' = missed /\ live' = live /\ polls' = polls /\ shown' = shown /\ lost' = lost
      /\ w.at \in {"image", "state", "occupancy"} /\ w.on = {}
  BY DEF Post, filmVars, roiVars, sendVars, viewVars
<1>2. CASE w.at = "image"
  <2>1. /\ w' = [w EXCEPT !.on = {"loop"}] /\ image' = out.n /\ loop' = out.n /\ loop = 0
        /\ threads' = threads /\ memory' = memory /\ row' = row /\ lastSave' = lastSave /\ state' = state
        /\ mixed' = mixed /\ meta' = meta /\ torn' = torn
    BY <1>2 DEF Post, PutImage, frameVars
  <2>2. w' \in Worker /\ w'.at = "image" /\ w'.on = {"loop"}
    BY <1>0, <1>2, <2>1 DEF TypeInv, Worker
  <2>3. TypeInv'
    BY <1>0, <1>1, <2>1, <2>2 DEF TypeInv
  <2>4. SnapInv'
    BY <1>0, <1>1, <2>1, SMTT(20) DEF SnapInv, TypeInv
  <2>5. SaveInv'
    BY <1>0, <2>1, SaveKept
  <2>6. RoiInv'
    BY <1>0, <1>1, <1>2, <2>2, RoiKept
  <2>7. WaitInv'
    BY <2>2 DEF WaitInv
  <2>8. FrameInv' /\ OrderInv'
    BY <1>0, <1>1, <1>2, <2>1, <2>2 DEF FrameInv, OrderInv
  <2> QED
    BY <2>3, <2>4, <2>5, <2>6, <2>7, <2>8 DEF IInv
<1>3. CASE w.at # "image"
  <2>1. PICK t \in Thread : Take(t, w.at, out.n) /\ w' = [w EXCEPT !.on = {t}]
    BY <1>3 DEF Post
  <2>2. /\ threads[t].does = "nothing" /\ threads' = [threads EXCEPT ![t] = [does |-> w.at, frame |-> out.n]]
        /\ memory' = memory /\ row' = row /\ lastSave' = lastSave /\ state' = state
        /\ mixed' = mixed /\ meta' = meta /\ torn' = torn /\ image' = image /\ loop' = loop
    BY <2>1 DEF Take, Sets, Handling, frameVars, diskVars
  <2>3. w' \in Worker /\ w'.at = w.at /\ w'.on = {t}
    BY <1>0, <2>1 DEF TypeInv, Worker
  <2>4. /\ threads'[t].does = w.at /\ threads'[t].frame = out.n
        /\ \A u \in Thread : u # t => threads'[u] = threads[u]
    BY <1>0, <2>2 DEF TypeInv
  <2>5. TypeInv'
    <3>1. PICK r \in Request : r = [does |-> w.at, frame |-> out.n]
      BY <1>0, <1>1, <1>3 DEF TypeInv, Request
    <3>2. threads' \in [Thread -> Request]
      BY <1>0, <2>2, <3>1 DEF TypeInv
    <3> QED
      BY <1>0, <1>1, <2>2, <2>3, <3>2 DEF TypeInv
  <2>6. SnapInv'
    BY <1>0, <1>1, <2>2, SnapKept DEF TypeInv
  <2>7. SaveInv'
    BY <1>0, <1>1, <2>2, <2>4, SaveKept
  <2>8. RoiInv'
    BY <1>0, <1>1, <2>3, RoiKept
  <2>9. WaitInv'
    BY <1>1, <1>3, <2>3, <2>4 DEF WaitInv
  <2>10. FrameInv'
    BY <1>0, <1>1, <2>2, <2>4 DEF FrameInv, TypeInv
  <2>11. OrderInv'
    BY <1>0, <1>1, <1>3, <2>2, <2>3, <2>4 DEF OrderInv
  <2> QED
    BY <2>5, <2>6, <2>7, <2>8, <2>9, <2>10, <2>11 DEF IInv
<1> QED
  BY <1>2, <1>3

LEMMA ImageDoneKeeps == ASSUME IInv, ImageDone PROVE IInv'
<1>0. TypeInv /\ SnapInv /\ SaveInv /\ RoiInv /\ WaitInv /\ FrameInv /\ OrderInv
  BY DEF IInv
<1>1. /\ roi' = roi /\ file' = file /\ out' = out /\ approved' = approved /\ before' = before
      /\ missed' = missed /\ live' = live /\ polls' = polls /\ shown' = shown /\ lost' = lost
      /\ threads' = threads /\ state' = state
      /\ memory' = memory /\ row' = row /\ lastSave' = lastSave /\ mixed' = mixed
  BY DEF ImageDone, PutMeta, PutMetaFails, frameVars, filmVars, roiVars, sendVars, viewVars
<1>2. /\ image' = image /\ loop # 0 /\ loop' = 0
      /\ (meta' = image /\ torn' = FALSE) \/ (meta' = meta /\ torn' = TRUE)
  BY <1>0 DEF ImageDone, PutMeta, PutMetaFails, SnapInv
\* The event loop has the picture the worker waits for, or one it gave up.
<1>3. w.on = {"loop"} => w.at = "image"
  BY <1>0, FeedAssumption DEF WaitInv
<1>4. /\ w' \in Worker
      /\ w.on = {"loop"} => w.at = "image" /\ w'.on = {} /\ w'.at # "roi" /\ w'.at # "occupancy"
      /\ w.on # {"loop"} => w' = w
  <2>1. w \in Worker /\ w' \in {Answered, Failed(FALSE), w} /\ (w.on # {"loop"} => w' = w)
          /\ (w.on = {"loop"} => w' \in {Answered, Failed(FALSE)})
    BY <1>0 DEF ImageDone, TypeInv
  <2>2. CASE w.on # {"loop"}
    BY <2>1, <2>2
  <2>3. CASE w.on = {"loop"}
    <3>1. w.at = "image"
      BY <1>3, <2>3
    <3>2. Answered \in Worker /\ Answered.on = {} /\ Answered.at = "state"
      BY <2>1, <3>1, Answers
    <3>3. /\ Failed(FALSE) \in Worker /\ Failed(FALSE).on = {}
          /\ Failed(FALSE).at \in {"image", "down", "state"}
      BY <2>1, <3>1, Failures DEF After
    <3> QED
      BY <2>1, <2>3, <3>1, <3>2, <3>3
  <2> QED
    BY <2>2, <2>3
<1>5. TypeInv'
  BY <1>0, <1>1, <1>2, <1>4 DEF TypeInv
<1>6. SnapInv'
  BY <1>0, <1>1, <1>2 DEF SnapInv, TypeInv
<1>7. SaveInv'
  BY <1>0, <1>1, SaveKept
<1>8. RoiInv'
  <2>1. w'.at = "roi" <=> w.at = "roi"
    BY <1>4
  <2> QED
    BY <1>0, <1>1, <2>1, RoiKept
<1>9. WaitInv'
  <2>1. CASE w.on = {"loop"}
    BY <1>4, <2>1 DEF WaitInv
  <2>2. CASE w.on # {"loop"}
    BY <1>0, <1>1, <1>4, <2>2, WaitKept
  <2> QED
    BY <2>1, <2>2
<1>10. FrameInv'
  BY <1>0, <1>1 DEF FrameInv
<1>11. OrderInv'
  BY <1>0, <1>1, <1>4 DEF OrderInv
<1> QED
  BY <1>5, <1>6, <1>7, <1>8, <1>9, <1>10, <1>11 DEF IInv

LEMMA ApiRestartsKeeps == ASSUME IInv, ApiRestarts PROVE IInv'
<1>0. TypeInv /\ SnapInv /\ SaveInv /\ RoiInv /\ WaitInv /\ FrameInv /\ OrderInv
  BY DEF IInv
<1>1. /\ roi' = roi /\ file' = file /\ out' = out /\ approved' = approved /\ before' = before
      /\ missed' = missed /\ live' = live /\ polls' = polls /\ shown' = shown
      /\ state' = state /\ row' = row /\ lastSave' = lastSave /\ image' = image /\ meta' = meta
      /\ memory' = 0 /\ threads' = [t \in Thread |-> Free]
      /\ mixed' = (mixed \/ Saving) /\ torn' = (torn \/ loop # 0) /\ loop' = 0
      /\ lost' = (lost \/ GivesUp(w')) /\ w' = IF w.on # {} THEN Failed(TRUE) ELSE w
  BY DEF ApiRestarts, Restart, filmVars, roiVars, sendVars, viewVars, NoFrame
<1>2. \A t \in Thread : threads'[t].does = "nothing" /\ threads'[t].frame = 0
  BY <1>1 DEF Free, NoFrame
<1>3. threads' \in [Thread -> Request]
  BY <1>1 DEF Request, Free, NoFrame
\* Who waited gets no answer, and gives up or tries again.
<1>4. /\ w' \in Worker /\ w'.on = {} /\ lost' \in BOOLEAN
      /\ w'.at = "roi" <=> w.at = "roi"
      /\ ~ lost' => ~ lost /\ (w'.at = "occupancy" => w.at = "occupancy")
  <2>1. CASE w.on # {}
    <3>1. w.at \in {"image", "state", "occupancy"}
      BY <2>1, Waiting
    <3>2. w' = Failed(TRUE)
      BY <1>1, <2>1
    <3> QED
      BY <1>1, <3>1, <3>2, FailedStep
  <2>2. CASE w.on = {}
    BY <1>0, <1>1, <2>2 DEF TypeInv, GivesUp
  <2> QED
    BY <2>1, <2>2
<1>5. TypeInv'
  <2>1. mixed' \in BOOLEAN /\ torn' \in BOOLEAN
    BY <1>1
  <2> QED
    BY <1>0, <1>1, <1>3, <1>4, <2>1 DEF TypeInv
<1>6. SnapInv'
  BY <1>0, <1>1 DEF SnapInv
<1>7. SaveInv'
  BY <1>0, <1>1, <1>2 DEF SaveInv, NoFrame
<1>8. RoiInv'
  BY <1>0, <1>1, <1>4, RoiKept
<1>9. WaitInv'
  BY <1>4 DEF WaitInv
<1>10. FrameInv'
  BY <1>0, <1>1, <1>2 DEF FrameInv, TypeInv
<1>11. OrderInv'
  <2> SUFFICES ASSUME ~ lost' PROVE OrderInv'
    BY DEF OrderInv
  <2>1. memory' <= state'
    BY <1>0, <1>1 DEF TypeInv
  <2>2. \A t \in Thread : threads'[t].does \notin {"state", "occupancy", "persist", "fill"}
    BY <1>2
  <2>3. w'.at = "occupancy" => out'.n <= state'
    BY <1>0, <1>1, <1>4 DEF OrderInv
  <2>4. ~ lost
    BY <1>4
  <2> QED
    BY <1>0, <1>1, <2>1, <2>2, <2>3, <2>4 DEF OrderInv
<1> QED
  BY <1>5, <1>6, <1>7, <1>8, <1>9, <1>10, <1>11 DEF IInv

-----------------------------------------------------------------------------
(* Between frames *)

LEMMA MinTwo == ASSUME NEW a \in Int, NEW b \in Int PROVE Min({a, b}) = IF a <= b THEN a ELSE b
<1> DEFINE m == IF a <= b THEN a ELSE b
<1>1. m \in {a, b} /\ \A y \in {a, b} : m <= y
  OBVIOUS
<1>2. \A x \in {a, b} : (\A y \in {a, b} : x <= y) => x = m
  OBVIOUS
<1> HIDE DEF m
<1>3. Min({a, b}) = m
  BY <1>1, <1>2 DEF Min
<1> QED
  BY <1>3 DEF m

\* The worker, the cache and the approvals change; the API does not.
LEMMA ApiKept ==
  ASSUME SnapInv, SaveInv, FrameInv, TypeInv, UNCHANGED <<apiVars, viewVars>>, out'.n \in Nat, out.n <= out'.n
  PROVE  SnapInv' /\ SaveInv' /\ FrameInv'
<1>1. /\ polls' = polls /\ shown' = shown /\ threads' = threads
      /\ memory' = memory /\ row' = row /\ lastSave' = lastSave /\ state' = state /\ mixed' = mixed
      /\ image' = image /\ meta' = meta /\ loop' = loop /\ torn' = torn
  BY DEF apiVars, viewVars
<1>2. SnapInv'
  BY <1>1, SnapKept
<1>3. SaveInv'
  BY <1>1, SaveKept
<1>4. FrameInv'
  BY <1>1 DEF FrameInv, TypeInv, Request
<1> QED
  BY <1>2, <1>3, <1>4

LEMMA ApproveKeeps == ASSUME IInv, Approve PROVE IInv'
<1>0. TypeInv /\ SnapInv /\ SaveInv /\ RoiInv /\ WaitInv /\ FrameInv /\ OrderInv
  BY DEF IInv
<1>1. /\ w' = w /\ roi' = roi /\ file' = file /\ out' = out /\ before' = before
      /\ missed' = missed /\ live' = live /\ lost' = lost
      /\ polls' = polls /\ shown' = shown /\ threads' = threads
      /\ memory' = memory /\ row' = row /\ lastSave' = lastSave /\ state' = state /\ mixed' = mixed
      /\ image' = image /\ meta' = meta /\ loop' = loop /\ torn' = torn
      /\ approved' = approved + 1
  BY DEF Approve, filmVars, sendVars, apiVars, viewVars
<1>2. approved' \in Nat /\ approved <= approved'
  BY <1>0, <1>1 DEF TypeInv
<1>3. TypeInv'
  BY <1>0, <1>1, <1>2 DEF TypeInv
<1>4. SnapInv' /\ SaveInv' /\ FrameInv'
  BY <1>0, <1>1, ApiKept DEF apiVars, viewVars, TypeInv
<1>5. RoiInv'
  <2>1. Checked' = Checked
    BY <1>1 DEF Checked
  <2>2. \A i \in 1..Refresh : before[i] \in Nat
    BY <1>0, ElementOfSeq DEF TypeInv
  <2>3. \A i \in 1..Refresh : before[i] <= approved'
    BY <1>0, <1>2, <2>2 DEF RoiInv, TypeInv
  <2>4. roi.version <= approved' /\ file <= approved'
    BY <1>0, <1>2 DEF RoiInv, TypeInv
  <2> QED
    BY <1>0, <1>1, <2>1, <2>3, <2>4 DEF RoiInv
<1>6. WaitInv'
  BY <1>0, <1>1, WaitKept
<1>7. OrderInv'
  BY <1>0, <1>1 DEF OrderInv
<1> QED
  BY <1>3, <1>4, <1>5, <1>6, <1>7 DEF IInv

LEMMA SleepKeeps == ASSUME IInv, Sleep PROVE IInv'
<1>0. TypeInv /\ SnapInv /\ SaveInv /\ RoiInv /\ WaitInv /\ FrameInv /\ OrderInv
  BY DEF IInv
<1>1. /\ file' = file /\ out' = out /\ before' = before /\ approved' = approved
      /\ missed' = missed /\ live' = live /\ lost' = lost
      /\ polls' = polls /\ shown' = shown /\ threads' = threads
      /\ memory' = memory /\ row' = row /\ lastSave' = lastSave /\ state' = state /\ mixed' = mixed
      /\ image' = image /\ meta' = meta /\ loop' = loop /\ torn' = torn
      /\ w.at = "sleep"
  BY DEF Sleep, filmVars, apiVars, viewVars
<1>2. w.on = {}
  BY <1>0, <1>1 DEF WaitInv
<1>3. w' \in Worker /\ w'.at = "roi" /\ w'.on = {}
  <2>1. PICK n, c : w' = [w EXCEPT !.at = "roi", !.tick = n, !.cycle = c] /\ n \in Nat /\ c \in Nat
    <3>1. w.tick + 1 \in Nat /\ w.cycle + 1 \in Nat /\ w.cycle \in Nat /\ w.tick \in Nat
      BY <1>0 DEF TypeInv, Worker
    <3>2. CASE w.tick = Len(footage)
      BY <3>1, <3>2 DEF Sleep
    <3>3. CASE w.tick # Len(footage)
      BY <3>1, <3>3 DEF Sleep
    <3> QED
      BY <3>2, <3>3
  <2> QED
    BY <1>0, <1>2, <2>1 DEF TypeInv, Worker
<1>4. PICK a \in 0..Refresh : a = Min({roi.age + 1, Refresh}) /\ a = IF roi.age + 1 <= Refresh THEN roi.age + 1 ELSE Refresh
  <2>1. PICK k \in Nat : k = roi.age + 1
    BY <1>0 DEF TypeInv
  <2>2. Min({k, Refresh}) = IF k <= Refresh THEN k ELSE Refresh
    BY MinTwo, FeedAssumption
  <2> QED
    BY <2>1, <2>2, FeedAssumption
<1>5. roi'.version = roi.version /\ roi'.age = a /\ roi' \in [version : Nat, age : 0..Refresh]
  BY <1>0, <1>4 DEF Sleep, TypeInv
<1>6. TypeInv'
  BY <1>0, <1>1, <1>3, <1>5 DEF TypeInv
<1>7. SnapInv' /\ SaveInv' /\ FrameInv'
  BY <1>0, <1>1, ApiKept DEF apiVars, viewVars, TypeInv
\* The cache is a frame older, and so is the frame of the check.
<1>8. RoiInv'
  <2>1. ASSUME roi'.age < Refresh PROVE roi.age < Refresh /\ Checked' = Checked
    BY <1>0, <1>1, <1>3, <1>4, <1>5, <2>1, FeedAssumption DEF TypeInv, Checked
  <2> QED
    BY <1>0, <1>1, <1>5, <2>1 DEF RoiInv
<1>9. WaitInv'
  BY <1>3 DEF WaitInv
<1>10. OrderInv'
  BY <1>0, <1>1, <1>3 DEF OrderInv
<1> QED
  BY <1>6, <1>7, <1>8, <1>9, <1>10 DEF IInv

LEMMA WorkerRestartsKeeps == ASSUME IInv, WorkerRestarts PROVE IInv'
<1>0. TypeInv /\ SnapInv /\ SaveInv /\ RoiInv /\ WaitInv /\ FrameInv /\ OrderInv
  BY DEF IInv
<1>1. /\ file' = file /\ out' = out /\ before' = before /\ approved' = approved
      /\ missed' = missed /\ live' = live
      /\ polls' = polls /\ shown' = shown /\ threads' = threads
      /\ memory' = memory /\ row' = row /\ lastSave' = lastSave /\ state' = state /\ mixed' = mixed
      /\ image' = image /\ meta' = meta /\ loop' = loop /\ torn' = torn
      /\ lost' = (lost \/ \E t \in Thread : Handling(t, "state"))
      /\ roi' = [version |-> 0, age |-> Refresh]
  BY DEF WorkerRestarts, filmVars, apiVars, viewVars
<1>2. w' \in Worker /\ w'.at = "roi" /\ w'.on = {}
  BY DEF WorkerRestarts, Start, Worker
<1>3. roi' \in [version : Nat, age : 0..Refresh]
  BY <1>1, FeedAssumption
<1>4. TypeInv'
  <2>1. lost' \in BOOLEAN
    BY <1>1
  <2> QED
    BY <1>0, <1>1, <1>2, <1>3, <2>1 DEF TypeInv
<1>5. SnapInv' /\ SaveInv' /\ FrameInv'
  BY <1>0, <1>1, ApiKept DEF apiVars, viewVars, TypeInv
<1>6. RoiInv'
  BY <1>0, <1>1, FeedAssumption DEF RoiInv, TypeInv
<1>7. WaitInv'
  BY <1>2 DEF WaitInv
<1>8. OrderInv'
  BY <1>0, <1>1, <1>2 DEF OrderInv, Handling
<1> QED
  BY <1>4, <1>5, <1>6, <1>7, <1>8 DEF IInv

-----------------------------------------------------------------------------
(* One frame *)

\* The version the frame is judged by: the one approved now, the one there was, or
\* that of the file.
LEMMA RoiChecked ==
  ASSUME TypeInv, RoiInv, IF live THEN LiveRoi ELSE ReplayRoi
  PROVE  /\ missed' \in BOOLEAN /\ file' \in {file, approved}
         /\ roi' \in [version : Nat, age : 0..Refresh]
         /\ roi'.version <= approved
         /\ live \/ roi'.version >= roi.version
         /\ \/ roi' = roi /\ missed' = missed /\ roi.age < Refresh
            \/ roi'.age = 0 /\ (missed' \/ roi'.version >= approved)
<1>1. /\ roi \in [version : Nat, age : 0..Refresh] /\ approved \in Nat /\ file \in Nat
      /\ roi.version <= approved /\ file <= approved
  BY DEF TypeInv, RoiInv
<1>2. PICK v \in Nat : v = roi.version
  BY <1>1
\* What the steps come to.
<1>3. \/ roi' = roi /\ missed' = missed /\ file' = file /\ roi.age < Refresh
      \/ roi' = [version |-> approved, age |-> 0] /\ missed' = FALSE /\ file' \in {file, approved}
      \/ /\ live /\ roi' = [version |-> file, age |-> 0] /\ file' = file
         /\ missed' = TRUE \/ (missed' = FALSE /\ approved = 0)
      \/ /\ roi' = [roi EXCEPT !.age = 0] /\ file' = file
         /\ missed' = TRUE \/ (missed' = FALSE /\ approved = 0)
  <2>1. CASE live
    <3>1. LiveRoi
      BY <2>1
    <3>2. ~ Due => roi.age < Refresh
      BY <1>1, FeedAssumption DEF Due
    <3> QED
      BY <2>1, <3>1, <3>2 DEF LiveRoi
  <2>2. CASE ~ live
    <3>1. ReplayRoi
      BY <2>2
    <3>2. ~ Due => roi.age < Refresh
      BY <1>1, FeedAssumption DEF Due
    <3>3. CASE ~ Due
      BY <3>1, <3>2, <3>3 DEF ReplayRoi
    <3>4. CASE Due
      BY <3>1, <3>4 DEF ReplayRoi, Fetched
    <3> QED
      BY <3>3, <3>4
  <2> QED
    BY <2>1, <2>2
<1>4. missed' \in BOOLEAN
  BY <1>3 DEF TypeInv
<1>5. CASE roi' = roi /\ missed' = missed /\ file' = file /\ roi.age < Refresh
  BY <1>1, <1>2, <1>4, <1>5
<1>6. CASE roi' = [version |-> approved, age |-> 0] /\ missed' = FALSE /\ file' \in {file, approved}
  <2>1. roi'.version = approved /\ roi'.age = 0 /\ roi' \in [version : Nat, age : 0..Refresh]
    BY <1>1, <1>6, FeedAssumption
  <2> QED
    BY <1>1, <1>2, <1>4, <1>6, <2>1
<1>7. CASE /\ live /\ roi' = [version |-> file, age |-> 0] /\ file' = file
           /\ missed' = TRUE \/ (missed' = FALSE /\ approved = 0)
  <2>1. roi'.version = file /\ roi'.age = 0 /\ roi' \in [version : Nat, age : 0..Refresh]
    BY <1>1, <1>7, FeedAssumption
  <2> QED
    BY <1>1, <1>2, <1>4, <1>7, <2>1
<1>8. CASE /\ roi' = [roi EXCEPT !.age = 0] /\ file' = file
           /\ missed' = TRUE \/ (missed' = FALSE /\ approved = 0)
  <2>1. roi'.version = v /\ roi'.age = 0 /\ roi' \in [version : Nat, age : 0..Refresh]
    BY <1>1, <1>2, <1>8, FeedAssumption
  <2> QED
    BY <1>1, <1>2, <1>4, <1>8, <2>1
<1> QED
  BY <1>3, <1>5, <1>6, <1>7, <1>8

\* What was approved at the last frames, with this one.
LEMMA BeforeShifts ==
  ASSUME TypeInv, RoiInv, before' = Append(Tail(before), approved)
  PROVE  /\ before' \in Seq(Nat) /\ Len(before') = Refresh
         /\ before'[Refresh] = approved
         /\ \A i \in 1..Refresh : i < Refresh => before'[i] = before[i + 1]
<1>0. PICK r \in Nat : r = Refresh /\ r > 0
  BY FeedAssumption
<1>1. before \in Seq(Nat) /\ Len(before) = r /\ before # <<>> /\ approved \in Nat
  BY <1>0 DEF TypeInv
<1>2. PICK q : q = Tail(before)
  OBVIOUS
<1>3. q \in Seq(Nat) /\ Len(q) = r - 1 /\ \A i \in 1..r - 1 : q[i] = before[i + 1]
  BY <1>0, <1>1, <1>2
<1>4. /\ Append(q, approved) \in Seq(Nat) /\ Len(Append(q, approved)) = r
      /\ Append(q, approved)[r] = approved
      /\ \A i \in 1..r - 1 : Append(q, approved)[i] = q[i]
  BY <1>0, <1>1, <1>3
<1>5. \A i \in 1..r : i < r => i \in 1..r - 1
  BY <1>0
<1> QED
  BY <1>0, <1>2, <1>3, <1>4, <1>5

\* RoiInv at the next frame, before the worker leaves it.
LEMMA RoiShifts ==
  ASSUME TypeInv, RoiInv, w.at = "roi", w'.at # "roi", IF live THEN LiveRoi ELSE ReplayRoi,
         before' = Append(Tail(before), approved), approved' = approved
  PROVE  RoiInv' /\ (missed' \/ roi'.version >= before'[1])
<1>0. PICK r \in Nat : r = Refresh /\ r > 0
  BY FeedAssumption
<1>a. r \in Nat /\ r > 0
  BY <1>0
<1>1. /\ missed' \in BOOLEAN /\ file' \in {file, approved}
      /\ roi'.version \in Nat /\ roi'.age \in 0..r
      /\ roi'.version <= approved
      /\ \/ roi' = roi /\ missed' = missed /\ roi.age < r
         \/ roi'.age = 0 /\ (missed' \/ roi'.version >= approved)
  BY <1>0, RoiChecked
<1>2. /\ before' \in Seq(Nat) /\ Len(before') = r /\ before'[r] = approved
      /\ \A i \in 1..r : i < r => before'[i] = before[i + 1]
  BY <1>0, BeforeShifts
<1>3. /\ approved \in Nat /\ file \in Nat /\ roi.version \in Nat /\ roi.age \in 0..r
      /\ before \in Seq(Nat) /\ Len(before) = r
  BY <1>0 DEF TypeInv
<1>4. \A i \in 1..r : before[i] \in Nat /\ before'[i] \in Nat
  BY <1>2, <1>3, ElementOfSeq
<1>5. /\ \A i \in 1..r : before[i] <= approved
      /\ \A i, j \in 1..r : i <= j => before[i] <= before[j]
      /\ file <= approved
      /\ ~ missed /\ roi.age < r => r - roi.age + 1 \in 1..r /\ before[r - roi.age + 1] <= roi.version
  BY <1>0 DEF RoiInv, Checked
<1>6. \A i \in 1..r : i < r => i + 1 \in 1..r
  BY <1>0
<1>7. \A i \in 1..r : before'[i] <= approved
  <2> SUFFICES ASSUME NEW i \in 1..r PROVE before'[i] <= approved
    OBVIOUS
  <2>1. CASE i < r
    BY <1>2, <1>5, <1>6, <2>1
  <2>2. CASE i = r
    BY <1>2, <1>3, <2>2
  <2>3. i < r \/ i = r
    BY <1>a
  <2> QED
    BY <2>1, <2>2, <2>3
<1>8. \A i, j \in 1..r : i <= j => before'[i] <= before'[j]
  <2> SUFFICES ASSUME NEW i \in 1..r, NEW j \in 1..r, i <= j PROVE before'[i] <= before'[j]
    OBVIOUS
  <2>1. CASE j < r
    <3>1. i < r /\ i + 1 <= j + 1
      BY <1>0, <2>1
    <3> QED
      BY <1>2, <1>5, <1>6, <2>1, <3>1
  <2>2. CASE j = r
    BY <1>2, <1>7, <2>2
  <2>3. j < r \/ j = r
    BY <1>a
  <2> QED
    BY <2>1, <2>2, <2>3
<1>9. /\ Checked' = r - roi'.age
      /\ ~ missed' /\ roi'.age < r => r - roi'.age \in 1..r /\ before'[r - roi'.age] <= roi'.version
  <2>1. Checked' = r - roi'.age
    BY <1>0 DEF Checked
  <2>2. ASSUME ~ missed', roi'.age < r PROVE r - roi'.age \in 1..r /\ before'[r - roi'.age] <= roi'.version
    <3>1. CASE roi'.age = 0
      <4>1. roi'.version >= approved \/ roi' = roi
        BY <1>1, <2>2
      <4>2. ASSUME roi' = roi, missed' = missed PROVE FALSE
        BY <1>0, <1>5, <2>2, <3>1, <4>2
      <4>3. roi'.version >= approved
        BY <1>1, <2>2, <4>2
      <4> QED
        BY <1>0, <1>2, <1>3, <3>1, <4>3
    <3>2. CASE roi'.age # 0
      <4>1. roi' = roi /\ ~ missed
        BY <1>1, <2>2, <3>2
      <4>2. PICK k \in 1..r : k = r - roi.age /\ k < r
        BY <1>0, <1>3, <2>2, <3>2, <4>1
      <4>3. r - roi.age + 1 = k + 1
        BY <1>0, <1>3, <4>2
      <4>4. before'[k] = before[k + 1] /\ before[k + 1] <= roi.version
        BY <1>2, <1>5, <2>2, <4>1, <4>2, <4>3
      <4> QED
        BY <4>1, <4>2, <4>4
    <3> QED
      BY <3>1, <3>2
  <2> QED
    BY <2>1, <2>2
<1>10. roi'.version <= approved' /\ file' <= approved'
  BY <1>1, <1>3, <1>5
<1>11. RoiInv'
  BY <1>0, <1>7, <1>8, <1>9, <1>10 DEF RoiInv
<1>12. missed' \/ roi'.version >= before'[1]
  <2> SUFFICES ASSUME ~ missed' PROVE roi'.version >= before'[1]
    BY <1>1
  <2>1. roi'.age < r
    BY <1>a, <1>1
  <2>2. PICK k \in 1..r : k = r - roi'.age
    BY <1>9, <2>1
  <2>3. 1 \in 1..r
    BY <1>a
  <2>4. before'[1] <= before'[k]
    <3>1. 1 <= k
      BY <1>a
    <3> QED
      BY <1>8, <2>3, <3>1
  <2>5. before'[k] <= roi'.version
    BY <1>9, <2>1, <2>2
  <2>6. before'[1] \in Nat /\ before'[k] \in Nat /\ roi'.version \in Nat
    BY <1>1, <1>4, <2>3
  <2>7. \A x, y, z \in Nat : x <= y /\ y <= z => z >= x
    OBVIOUS
  <2> QED
    BY <2>4, <2>5, <2>6, <2>7
<1> QED
  BY <1>11, <1>12

\* The frame that starts has the next number and the version checked.
LEMMA FrameStarts ==
  ASSUME TypeInv, StartFrame
  PROVE  out'.n = out.n + 1 /\ out'.roi = roi'.version /\ (w'.at = "image" \/ w'.at = "state")
         /\ w' \in Worker /\ w'.on = w.on
<1>1. ASSUME NEW v, NEW ids, NEW n
      PROVE  \E q, s, g : Prepared(Shot, v, ids, n) = [n |-> n, roi |-> v, queue |-> q, visible |-> s, agents |-> g]
  BY DEF Prepared
<1>2. out'.n = out.n + 1 /\ out'.roi = roi'.version
  <2>1. CASE live
    <3>1. out' = [Prepared(Shot, 0, [k \in DOMAIN Shot.positions |-> k], out.n + 1) EXCEPT !.roi = roi'.version]
      BY <2>1 DEF StartFrame
    <3>2. PICK q, s, g : Prepared(Shot, 0, [k \in DOMAIN Shot.positions |-> k], out.n + 1)
                           = [n |-> out.n + 1, roi |-> 0, queue |-> q, visible |-> s, agents |-> g]
      BY <1>1
    <3> QED
      BY <3>1, <3>2
  <2>2. CASE ~ live
    <3>1. PICK ids : out' = Prepared(Shot, roi'.version, ids, out.n + 1)
      BY <2>2 DEF StartFrame
    <3>2. PICK q, s, g : Prepared(Shot, roi'.version, ids, out.n + 1)
                           = [n |-> out.n + 1, roi |-> roi'.version, queue |-> q, visible |-> s, agents |-> g]
      BY <1>1
    <3> QED
      BY <3>1, <3>2
  <2> QED
    BY <2>1, <2>2
<1>3. PICK a : a = (IF Shot.raw THEN "image" ELSE "state") /\ w' = [w EXCEPT !.at = a]
  BY DEF StartFrame
<1>4. a \in {"image", "state"}
  BY <1>3
<1>5. w' \in Worker /\ w'.at = a /\ w'.on = w.on
  BY <1>3, <1>4 DEF TypeInv, Worker
<1> QED
  BY <1>2, <1>4, <1>5

LEMMA StartFrameKeeps == ASSUME IInv, StartFrame PROVE IInv'
<1>0. TypeInv /\ SnapInv /\ SaveInv /\ RoiInv /\ WaitInv /\ FrameInv /\ OrderInv
  BY DEF IInv
<1>1. /\ approved' = approved /\ live' = live /\ lost' = lost
      /\ polls' = polls /\ shown' = shown /\ threads' = threads
      /\ memory' = memory /\ row' = row /\ lastSave' = lastSave /\ state' = state /\ mixed' = mixed
      /\ image' = image /\ meta' = meta /\ loop' = loop /\ torn' = torn
      /\ w.at = "roi" /\ before' = Append(Tail(before), approved)
      /\ IF live THEN LiveRoi ELSE ReplayRoi
  BY DEF StartFrame, filmVars, apiVars, viewVars
<1>2. w.on = {}
  BY <1>0, <1>1 DEF WaitInv
<1>3. /\ out'.n = out.n + 1 /\ out'.n \in Nat /\ out.n <= out'.n
      /\ w' \in Worker /\ w'.on = {} /\ w'.at \in {"image", "state"}
  BY <1>0, <1>2, FrameStarts DEF TypeInv
<1>4. /\ missed' \in BOOLEAN /\ file' \in Nat
      /\ roi' \in [version : Nat, age : 0..Refresh]
  <2>1. /\ missed' \in BOOLEAN /\ file' \in {file, approved}
        /\ roi' \in [version : Nat, age : 0..Refresh]
    BY <1>0, <1>1, RoiChecked
  <2> QED
    BY <1>0, <2>1 DEF TypeInv
<1>5. before' \in Seq(Nat) /\ Len(before') = Refresh
  BY <1>0, <1>1, BeforeShifts
<1>6. TypeInv'
  BY <1>0, <1>1, <1>3, <1>4, <1>5 DEF TypeInv
<1>7. SnapInv' /\ SaveInv' /\ FrameInv'
  BY <1>0, <1>1, <1>3, ApiKept DEF apiVars, viewVars
<1>8. RoiInv'
  BY <1>0, <1>1, <1>3, RoiShifts
<1>9. WaitInv'
  BY <1>3 DEF WaitInv
\* No state is under way unless one was lost.
<1>10. OrderInv'
  BY <1>0, <1>1, <1>3 DEF OrderInv
<1> QED
  BY <1>6, <1>7, <1>8, <1>9, <1>10 DEF IInv

-----------------------------------------------------------------------------
(* The screen *)

LEMMA ViewKeeps == ASSUME IInv, ViewNext, Others PROVE IInv'
<1>0. TypeInv /\ SnapInv /\ SaveInv /\ RoiInv /\ WaitInv /\ FrameInv /\ OrderInv
  BY DEF IInv
<1>1. /\ w' = w /\ roi' = roi /\ file' = file /\ out' = out /\ approved' = approved /\ before' = before
      /\ missed' = missed /\ live' = live /\ lost' = lost
  BY DEF Others, workVars
<1>2. RoiInv'
  BY <1>0, <1>1, RoiKept
<1>3. PICK p \in Poll : \/ PollOccupancy(p) \/ PollState(p) \/ ReadHeaders(p) \/ SendImage(p)
                         \/ \E t \in Thread : PollLoads(p, t)
  BY DEF ViewNext
\* The screen alone.
<1>4. ASSUME NEW at \in {"idle", "state", "image"}, NEW n \in Nat,
             polls' = [polls EXCEPT ![p] = [at |-> at, read |-> n]], shown' \in Nat,
             UNCHANGED apiVars,
             at = "state" => n = memory \/ n = row,
             at = "image" => n = meta
      PROVE  IInv'
  <2>1. /\ threads' = threads /\ memory' = memory /\ row' = row /\ lastSave' = lastSave /\ state' = state
        /\ mixed' = mixed /\ image' = image /\ meta' = meta /\ loop' = loop /\ torn' = torn
    BY <1>4 DEF apiVars
  <2>2. /\ polls' \in [Poll -> [at : {"idle", "state", "image"}, read : Nat]]
        /\ polls'[p].at = at /\ polls'[p].read = n
        /\ \A q \in Poll : q # p => polls'[q] = polls[q]
    BY <1>0, <1>4 DEF TypeInv
  <2>3. TypeInv'
    BY <1>0, <1>1, <1>4, <2>1, <2>2 DEF TypeInv
  <2>4. SnapInv'
    BY <1>0, <1>1, <1>4, <2>1, <2>2 DEF SnapInv
  <2>5. SaveInv'
    BY <1>0, <2>1, SaveKept
  <2>6. WaitInv'
    BY <1>0, <1>1, <2>1, WaitKept
  <2>7. FrameInv'
    BY <1>0, <1>1, <1>4, <2>1, <2>2 DEF FrameInv
  <2>8. OrderInv'
    BY <1>0, <1>1, <1>4, <2>1, <2>2 DEF OrderInv
  <2> QED
    BY <1>2, <2>3, <2>4, <2>5, <2>6, <2>7, <2>8 DEF IInv
<1>5. CASE PollOccupancy(p)
  BY <1>0, <1>4, <1>5 DEF PollOccupancy, Reads, TypeInv
<1>6. CASE PollState(p)
  <2>1. shown' \in Nat
    BY <1>0, <1>6 DEF PollState, TypeInv
  <2> QED
    BY <1>4, <1>6, <2>1 DEF PollState, NoPoll, NoFrame
<1>7. CASE ReadHeaders(p)
  BY <1>0, <1>4, <1>7 DEF ReadHeaders, Reads, TypeInv
<1>8. CASE SendImage(p)
  BY <1>0, <1>4, <1>8 DEF SendImage, NoPoll, NoFrame, TypeInv
\* Memory is empty, so a thread reads the row for the poll, and fills the memory.
<1>9. ASSUME NEW t \in Thread, PollLoads(p, t) PROVE IInv'
  <2>1. /\ memory' = memory /\ row' = row /\ lastSave' = lastSave /\ state' = state
        /\ image' = image /\ meta' = meta /\ loop' = loop /\ torn' = torn /\ shown' = shown
        /\ mixed' = (mixed \/ Saving) /\ threads[t].does = "nothing"
        /\ threads' = [threads EXCEPT ![t] = [does |-> "fill", frame |-> row]]
        /\ polls' = [polls EXCEPT ![p] = [at |-> "state", read |-> row]]
    BY <1>9 DEF PollLoads, Load, Reads, Sets, Handling, diskVars
  <2>2. /\ polls' \in [Poll -> [at : {"idle", "state", "image"}, read : Nat]]
        /\ polls'[p].at = "state" /\ polls'[p].read = row
        /\ \A q \in Poll : q # p => polls'[q] = polls[q]
    BY <1>0, <2>1 DEF TypeInv
  <2>3. threads' \in [Thread -> Request]
    <3>1. PICK r \in Request : r = [does |-> "fill", frame |-> row]
      BY <1>0 DEF TypeInv, Request
    <3> QED
      BY <1>0, <2>1, <3>1 DEF TypeInv
  <2>4. /\ threads'[t].does = "fill" /\ threads'[t].frame = row
        /\ \A u \in Thread : u # t => threads'[u] = threads[u]
    BY <1>0, <2>1 DEF TypeInv
  <2>5. TypeInv'
    <3>1. mixed' \in BOOLEAN
      BY <2>1
    <3> QED
      BY <1>0, <1>1, <2>1, <2>2, <2>3, <3>1 DEF TypeInv
  <2>6. SnapInv'
    BY <1>0, <1>1, <2>1, <2>2 DEF SnapInv
  <2>7. SaveInv'
    <3> SUFFICES ASSUME ~ mixed' PROVE /\ memory' \in {NoFrame, lastSave'}
                                       /\ \A u \in Thread : threads'[u].does \in {"persist", "fill"} => threads'[u].frame = lastSave'
                                       /\ row' = lastSave'
      BY DEF SaveInv
    <3>1. ~ mixed /\ row = lastSave
      BY <1>0, <2>1 DEF SaveInv
    <3> QED
      BY <1>0, <2>1, <2>4, <3>1 DEF SaveInv
  <2>8. WaitInv'
    BY <1>0, <1>1, <2>1, <2>4 DEF WaitInv
  <2>9. FrameInv'
    BY <1>0, <1>1, <2>1, <2>2, <2>4 DEF FrameInv
  <2>10. OrderInv'
    BY <1>0, <1>1, <2>1, <2>2, <2>4 DEF OrderInv
  <2> QED
    BY <1>2, <2>5, <2>6, <2>7, <2>8, <2>9, <2>10 DEF IInv
<1> QED
  BY <1>3, <1>5, <1>6, <1>7, <1>8, <1>9

-----------------------------------------------------------------------------
(* The theorems *)

LEMMA InitHolds == ASSUME Init PROVE IInv
<1>1. /\ state = 0 /\ memory = 0 /\ row = 0 /\ threads = [t \in Thread |-> Free]
      /\ image = 0 /\ meta = 0 /\ loop = 0 /\ lastSave = 0 /\ mixed = FALSE /\ torn = FALSE
      /\ polls = [p \in Poll |-> NoPoll] /\ shown = 0 /\ live \in BOOLEAN /\ w = Start
      /\ roi = [version |-> 0, age |-> Refresh] /\ file = 0 /\ out = NotSent
      /\ approved = 0 /\ before = [i \in 1..Refresh |-> 0] /\ missed = FALSE /\ lost = FALSE
  BY DEF Init, StoreInit, ViewInit, NoFrame
<1>2. /\ \A t \in Thread : threads[t].does = "nothing" /\ threads[t].frame = 0
      /\ \A p \in Poll : polls[p].at = "idle"
      /\ w.at = "roi" /\ w.on = {} /\ out.n = 0
      /\ roi.version = 0 /\ roi.age = Refresh
  BY <1>1 DEF Free, NoPoll, NoFrame, Start, NotSent
<1>3. before \in Seq(Nat) /\ Len(before) = Refresh /\ \A i \in 1..Refresh : before[i] = 0
  BY <1>1, FeedAssumption
<1>4. threads \in [Thread -> Request] /\ polls \in [Poll -> [at : {"idle", "state", "image"}, read : Nat]]
  BY <1>1 DEF Request, Free, NoPoll, NoFrame
<1>5. w \in Worker
  BY <1>1 DEF Worker, Start
<1>6. roi \in [version : Nat, age : 0..Refresh]
  BY <1>1, FeedAssumption
<1>7. TypeInv
  BY <1>1, <1>2, <1>3, <1>4, <1>5, <1>6 DEF TypeInv
<1>8. SnapInv /\ WaitInv /\ FrameInv /\ OrderInv
  BY <1>1, <1>2 DEF SnapInv, WaitInv, FrameInv, OrderInv
<1>9. SaveInv
  BY <1>1, <1>2 DEF SaveInv, NoFrame
<1>10. RoiInv
  BY <1>1, <1>2, <1>3, <1>6 DEF RoiInv
<1> QED
  BY <1>7, <1>8, <1>9, <1>10 DEF IInv

LEMMA StutterKeeps == ASSUME IInv, UNCHANGED vars PROVE IInv'
<1>0. TypeInv /\ SnapInv /\ SaveInv /\ RoiInv /\ WaitInv /\ FrameInv /\ OrderInv
  BY DEF IInv
<1>1. UNCHANGED <<apiVars, viewVars>> /\ UNCHANGED workVars
  BY DEF vars
<1>2. /\ polls' = polls /\ shown' = shown /\ threads' = threads
      /\ memory' = memory /\ row' = row /\ lastSave' = lastSave /\ state' = state /\ mixed' = mixed
      /\ image' = image /\ meta' = meta /\ loop' = loop /\ torn' = torn
  BY <1>1 DEF apiVars, viewVars
<1>3. /\ w' = w /\ roi' = roi /\ file' = file /\ out' = out /\ approved' = approved /\ before' = before
      /\ missed' = missed /\ live' = live /\ lost' = lost
  BY <1>1 DEF workVars
<1>4. SnapInv' /\ SaveInv' /\ FrameInv'
  BY <1>0, <1>1, <1>3, ApiKept DEF TypeInv
<1>5. RoiInv' /\ WaitInv'
  BY <1>0, <1>2, <1>3, RoiKept, WaitKept
<1>6. TypeInv'
  BY <1>0, <1>2, <1>3 DEF TypeInv
<1>7. OrderInv'
  BY <1>0, <1>2, <1>3 DEF OrderInv
<1> QED
  BY <1>4, <1>5, <1>6, <1>7 DEF IInv

LEMMA StepHolds == ASSUME IInv, [Next]_vars PROVE IInv'
<1>1. CASE Approve
  BY <1>1, ApproveKeeps
<1>2. CASE StartFrame
  BY <1>2, StartFrameKeeps
<1>3. CASE Post
  BY <1>3, PostKeeps
<1>4. CASE PostRefused
  BY <1>4, PostRefusedKeeps
<1>5. CASE PostTimesOut
  BY <1>5, PostTimesOutKeeps
<1>6. CASE ImageDone
  BY <1>6, ImageDoneKeeps
<1>7. CASE ApiRestarts
  BY <1>7, ApiRestartsKeeps
<1>8. CASE Sleep
  BY <1>8, SleepKeeps
<1>9. CASE WorkerRestarts
  BY <1>9, WorkerRestartsKeeps
<1>10. ASSUME NEW t \in Thread, StateDone(t) PROVE IInv'
  BY <1>10, StateDoneKeeps
<1>11. ASSUME NEW t \in Thread, OccupancyDone(t) PROVE IInv'
  BY <1>11, OccupancyDoneKeeps
<1>12. ASSUME NEW t \in Thread, SaveOccupancy(t) /\ Others /\ UNCHANGED <<faults, viewVars>> PROVE IInv'
  BY <1>12, SaveOccupancyKeeps
<1>13. ASSUME NEW t \in Thread, Fill(t) /\ Others /\ UNCHANGED <<faults, viewVars>> PROVE IInv'
  BY <1>13, FillKeeps
<1>14. CASE ViewNext /\ Others
  BY <1>14, ViewKeeps
<1>15. CASE UNCHANGED vars
  BY <1>15, StutterKeeps
<1> QED
  BY <1>1, <1>2, <1>3, <1>4, <1>5, <1>6, <1>7, <1>8, <1>9, <1>10, <1>11, <1>12, <1>13, <1>14, <1>15 DEF Next

LEMMA InvHolds == Spec => []IInv
<1>1. Init => IInv
  BY InitHolds
<1>2. IInv /\ [Next]_vars => IInv'
  BY StepHolds
<1> QED
  BY <1>1, <1>2, PTL DEF Spec

\* The API, the worker and the dashboard keep to their data, at every size.
THEOREM TypeCorrect == Spec => []TypeInv
<1>1. IInv => TypeInv
  BY DEF IInv
<1> QED
  BY <1>1, InvHolds, PTL

\* Once nothing is under way the frame served is the one last saved, unless its save
\* met another, a load or a failure; and no picture is sent with the headers of a
\* later one, whatever is retried, given up or restarted.
THEOREM QuietStoreServesLatest == Spec => []ApiServesLatest
<1>1. IInv => LatestUnlessOverlap
  <2> SUFFICES ASSUME IInv, Quiet, ~ mixed PROVE row = lastSave /\ memory \in {NoFrame, lastSave}
    BY DEF LatestUnlessOverlap
  <2>1. ~ Saving
    BY DEF Quiet, Saving, Handling, Free
  <2> QED
    BY <2>1 DEF IInv, SaveInv
<1>2. IInv => HeadersNotAhead
  BY DEF IInv, SnapInv, HeadersNotAhead
<1> QED
  BY <1>1, <1>2, InvHolds, PTL DEF ApiServesLatest

\* A frame is sent only by StartFrame.
LEMMA OnlyStartFrameSends == ASSUME [Next]_vars, out' # out PROVE StartFrame
BY DEF Next, vars, workVars, Others, sendVars, Approve, Post, PostRefused, PostTimesOut, ImageDone,
       ApiRestarts, Sleep, WorkerRestarts, StateDone, OccupancyDone

\* A frame is judged by a version at least as new as the one approved Refresh frames
\* ago unless the last check failed, and the replay never goes back to an older one:
\* for any refresh, any number of versions and whatever fails.
THEOREM JudgedByRecentRoi == Spec => RoiFollows
<1>1. ASSUME IInv, [Next]_vars, out' # out
      PROVE  /\ missed' \/ out'.roi >= before'[1]
             /\ live \/ out'.roi >= roi.version
  <2>1. StartFrame
    BY <1>1, OnlyStartFrameSends
  <2>2. TypeInv /\ RoiInv
    BY <1>1 DEF IInv
  <2>3. /\ approved' = approved /\ w.at = "roi" /\ before' = Append(Tail(before), approved)
        /\ IF live THEN LiveRoi ELSE ReplayRoi
    BY <2>1 DEF StartFrame
  <2>4. out'.roi = roi'.version /\ w'.at # "roi"
    BY <2>1, <2>2, FrameStarts
  <2>5. missed' \/ roi'.version >= before'[1]
    BY <2>2, <2>3, <2>4, RoiShifts
  <2>6. live \/ roi'.version >= roi.version
    BY <2>2, <2>3, RoiChecked
  <2> QED
    BY <2>4, <2>5, <2>6
<1> QED
  BY <1>1, InvHolds, PTL DEF Spec, RoiFollows

\* The state shown beside a frame is that of the frame or of a later one unless a
\* state was lost: for any number of polls, threads, retries and restarts.
THEOREM StateKeepsUp == Spec => ShownStateNotOlder
<1>1. ASSUME IInv, [Next]_vars, shown' # shown PROVE lost \/ state >= shown'
  <2>1. PICK p \in Poll : PollState(p)
    BY <1>1 DEF Next, vars, viewVars, Approve, StartFrame, Post, PostRefused, PostTimesOut, ImageDone,
                ApiRestarts, Sleep, WorkerRestarts, StateDone, OccupancyDone,
                ViewNext, PollOccupancy, PollLoads, ReadHeaders, SendImage, Reads
  <2>2. polls[p].at = "state" /\ shown' = polls[p].read
    BY <1>1, <2>1 DEF PollState
  <2>3. ~ lost => polls[p].read <= state
    BY <1>1, <2>2 DEF IInv, OrderInv
  <2>4. polls[p].read \in Nat /\ state \in Nat /\ lost \in BOOLEAN
    BY <1>1 DEF IInv, TypeInv
  <2> QED
    BY <2>2, <2>3, <2>4
<1> QED
  BY <1>1, InvHolds, PTL DEF Spec, ShownStateNotOlder
-----------------------------------------------------------------------------
(* Who is who: numbers, ranks and folds *)

\* In a strict total order every element has a rank of its own, and every rank an element.
Under(R, S, a) == {b \in S : <<b, a>> \in R}
Ordered(R, S) ==
  /\ \A a \in S : <<a, a>> \notin R
  /\ \A a, b \in S : a # b => <<a, b>> \in R \/ <<b, a>> \in R
  /\ \A a, b, c \in S : <<a, b>> \in R /\ <<b, c>> \in R => <<a, c>> \in R

\* ... which is the number of those before it.
LEMMA Ranks ==
  ASSUME NEW S, IsFiniteSet(S), NEW R, Ordered(R, S)
  PROVE  /\ \A a \in S : Cardinality(Under(R, S, a)) \in 0..Cardinality(S)-1
         /\ \A a, b \in S : <<a, b>> \in R => Cardinality(Under(R, S, a)) < Cardinality(Under(R, S, b))
         /\ \A a, b \in S : Cardinality(Under(R, S, a)) = Cardinality(Under(R, S, b)) => a = b
         /\ \A k \in 0..Cardinality(S)-1 : \E a \in S : Cardinality(Under(R, S, a)) = k
<1> DEFINE r == [a \in S |-> Cardinality(Under(R, S, a))]
<1>1. Cardinality(S) \in Nat
  BY FS_CardinalityType
<1>2. \A a \in S : /\ IsFiniteSet(Under(R, S, a)) /\ Cardinality(Under(R, S, a)) \in Nat
                   /\ Cardinality(Under(R, S, a)) < Cardinality(S)
  <2> TAKE a \in S
  <2>1. Under(R, S, a) \in SUBSET S /\ a \notin Under(R, S, a)
    BY DEF Under, Ordered
  <2>2. /\ IsFiniteSet(Under(R, S, a)) /\ Cardinality(Under(R, S, a)) <= Cardinality(S)
        /\ Cardinality(Under(R, S, a)) # Cardinality(S)
    BY <2>1, FS_Subset
  <2>3. Cardinality(Under(R, S, a)) \in Nat
    BY <2>2, FS_CardinalityType
  <2> QED
    BY <1>1, <2>2, <2>3
<1>3. \A a, b \in S : <<a, b>> \in R => Cardinality(Under(R, S, a)) < Cardinality(Under(R, S, b))
  <2> SUFFICES ASSUME NEW a \in S, NEW b \in S, <<a, b>> \in R
               PROVE  Cardinality(Under(R, S, a)) < Cardinality(Under(R, S, b))
    OBVIOUS
  <2>1. Under(R, S, a) \in SUBSET Under(R, S, b) /\ a \in Under(R, S, b) /\ a \notin Under(R, S, a)
    BY DEF Under, Ordered
  <2>2. /\ Cardinality(Under(R, S, a)) <= Cardinality(Under(R, S, b))
        /\ Cardinality(Under(R, S, a)) # Cardinality(Under(R, S, b))
    BY <1>2, <2>1, FS_Subset
  <2> QED
    BY <1>2, <2>2
<1>4. \A a, b \in S : Cardinality(Under(R, S, a)) = Cardinality(Under(R, S, b)) => a = b
  <2> SUFFICES ASSUME NEW a \in S, NEW b \in S, a # b
               PROVE  Cardinality(Under(R, S, a)) # Cardinality(Under(R, S, b))
    OBVIOUS
  <2>1. <<a, b>> \in R \/ <<b, a>> \in R
    BY DEF Ordered
  <2>2. Cardinality(Under(R, S, a)) \in Nat /\ Cardinality(Under(R, S, b)) \in Nat
    BY <1>2
  <2>3. \/ Cardinality(Under(R, S, a)) < Cardinality(Under(R, S, b))
        \/ Cardinality(Under(R, S, b)) < Cardinality(Under(R, S, a))
    BY <1>3, <2>1
  <2> QED
    BY <2>2, <2>3
<1>5. r \in [S -> 0..Cardinality(S)-1]
  BY <1>1, <1>2
<1>6. r \in Injection(S, 0..Cardinality(S)-1)
  BY <1>4, <1>5 DEF Injection, IsInjective
<1>7. IsFiniteSet(0..Cardinality(S)-1) /\ Cardinality(0..Cardinality(S)-1) = Cardinality(S)
  <2>1. PICK N \in Nat : N = Cardinality(S)
    BY ONLY <1>1
  <2>2. N - 1 \in Int /\ IF 0 > N - 1 THEN N = 0 ELSE (N - 1) - 0 + 1 = N
    BY ONLY <2>1
  <2>3. IsFiniteSet(0..N-1) /\ Cardinality(0..N-1) = N
    BY ONLY <2>1, <2>2, FS_Interval
  <2> QED
    BY ONLY <2>1, <2>3
<1>8. r \in Surjection(S, 0..Cardinality(S)-1)
  BY <1>6, <1>7, FS_Injection
<1>9. \A k \in 0..Cardinality(S)-1 : \E a \in S : Cardinality(Under(R, S, a)) = k
  BY <1>8 DEF Surjection
<1> QED
  BY <1>1, <1>2, <1>3, <1>4, <1>9

\* The greatest of a set of numbers, as the folds of sequences take it.
LEMMA MaxIn ==
  ASSUME NEW n \in Nat, NEW s \in SUBSET (1..n), s # {}
  PROVE  Max(s) \in s /\ \A y \in s : y <= Max(s)
<1> DEFINE D == {d \in Nat : \E x \in s : d = n - x}
<1>1. D # {} /\ D \subseteq Nat
  <2>1. PICK x \in s : x \in 1..n
    OBVIOUS
  <2>2. n - x \in Nat
    BY <2>1
  <2>3. n - x \in D
    BY <2>1, <2>2
  <2> QED
    BY <2>3
<1>2. PICK d \in D : \A e \in D : ~ (<<e, d>> \in OpToRel(<, Nat))
  BY <1>1, NatLessThanWellFounded, WFMin
<1>3. PICK x \in s : d = n - x
  BY <1>2
<1>4. \A y \in s : ~ (n - y < d)
  <2> TAKE y \in s
  <2>1. n - y \in D
    BY DEF D
  <2> QED
    BY <1>1, <1>2, <2>1 DEF OpToRel
<1>5. \A y \in s : y <= x
  BY <1>3, <1>4
<1>6. \A y \in s : x >= y
  BY <1>5
<1>7. Max(s) \in s /\ \A y \in s : Max(s) >= y
  BY <1>3, <1>6 DEF Max
<1>8. \A a, b \in 1..n : a >= b => b <= a
  OBVIOUS
<1> QED
  BY <1>7, <1>8

\* What a fold over the places 1..n goes through, for a step that stays within A.
Folds(f, n, A, a, G) ==
  /\ f \in [SUBSET (1..n) -> A]
  /\ \A s \in SUBSET (1..n) : f[s] = IF s = {} THEN a ELSE G[<<f[s \ {Max(s)}], Max(s)>>]

\* There is such a run: a shortest prefix without one could be extended.
LEMMA FoldExists ==
  ASSUME NEW n \in Nat, NEW A, NEW a \in A, NEW G \in [A \X (1..n) -> A]
  PROVE  \E f : Folds(f, n, A, a, G)
<1> DEFINE Bad == {k \in 0..n : ~ \E f : Folds(f, k, A, a, G)}
<1> SUFFICES ASSUME Bad # {} PROVE FALSE
  OBVIOUS
<1>1. PICK k \in Bad : \A e \in Bad : ~ (<<e, k>> \in OpToRel(<, Nat))
  <2>1. Bad \subseteq Nat
    OBVIOUS
  <2> QED
    BY <2>1, NatLessThanWellFounded, WFMin
<1>2. k \in 0..n /\ \A e \in Bad : ~ (e < k)
  <2>1. k \in 0..n /\ Bad \subseteq 0..n
    BY <1>1
  <2>2. \A e \in Bad : ~ (<<e, k>> \in OpToRel(<, Nat))
    BY <1>1
  <2> HIDE DEF Bad
  <2>3. \A e \in Bad : e \in Nat /\ k \in Nat
    BY <2>1
  <2> QED
    BY <2>1, <2>2, <2>3 DEF OpToRel
<1>3. ~ \E f : Folds(f, k, A, a, G)
  BY <1>1
<1>4. CASE k = 0
  <2> DEFINE f == [s \in SUBSET (1..k) |-> a]
  <2>1. \A s \in SUBSET (1..k) : s = {}
    BY <1>4
  <2>2. Folds(f, k, A, a, G)
    BY <2>1 DEF Folds
  <2> QED
    BY <1>3, <2>2
<1>5. CASE k # 0
  <2>1. k - 1 \in 0..n /\ k - 1 \notin Bad /\ k \in 1..n
    BY <1>2, <1>5
  <2>2. PICK f : Folds(f, k - 1, A, a, G)
    BY <2>1
  <2> HIDE DEF Bad
  <2> DEFINE g == [s \in SUBSET (1..k) |-> IF k \in s THEN G[<<f[s \ {k}], k>>] ELSE f[s]]
  <2>3. \A s \in SUBSET (1..k) : s \ {k} \in SUBSET (1..(k - 1))
    BY <2>1
  <2>4. \A s \in SUBSET (1..k) : k \notin s => s \in SUBSET (1..(k - 1))
    BY <2>3
  <2>5. \A s \in SUBSET (1..(k - 1)) : f[s] \in A
    BY <2>2 DEF Folds
  <2>6. g \in [SUBSET (1..k) -> A]
    <3> SUFFICES ASSUME NEW s \in SUBSET (1..k)
                 PROVE  (IF k \in s THEN G[<<f[s \ {k}], k>>] ELSE f[s]) \in A
      OBVIOUS
    <3>1. ASSUME k \in s PROVE G[<<f[s \ {k}], k>>] \in A
      <4>1. f[s \ {k}] \in A
        BY <2>3, <2>5
      <4>2. <<f[s \ {k}], k>> \in A \X (1..n)
        BY <2>1, <4>1
      <4> QED
        BY <4>2
    <3>2. ASSUME k \notin s PROVE f[s] \in A
      BY <2>4, <2>5, <3>2
    <3> QED
      BY <3>1, <3>2
  <2>7. \A s \in SUBSET (1..k) : s # {} => g[s] = G[<<g[s \ {Max(s)}], Max(s)>>]
    <3> SUFFICES ASSUME NEW s \in SUBSET (1..k), s # {}
                 PROVE  g[s] = G[<<g[s \ {Max(s)}], Max(s)>>]
      OBVIOUS
    <3>1. k \in Nat
      BY <2>1
    <3>2. PICK m : m = Max(s)
      OBVIOUS
    <3>3. m \in s /\ \A y \in s : y <= m
      BY <3>1, <3>2, MaxIn
    <3>4. s \ {m} \in SUBSET (1..k) /\ k \notin s \ {m}
      BY <2>1, <3>1, <3>3
    <3>5. g[s \ {m}] = f[s \ {m}]
      BY <3>4
    <3>6. CASE k \in s
      <4>1. m = k
        BY <3>1, <3>3, <3>6
      <4> QED
        BY <3>2, <3>5, <3>6, <4>1
    <3>7. CASE k \notin s
      <4>1. s \in SUBSET (1..(k - 1)) /\ g[s] = f[s]
        BY <2>4, <3>7
      <4>2. f[s] = G[<<f[s \ {m}], m>>]
        BY <2>2, <3>2, <4>1 DEF Folds
      <4> QED
        BY <3>2, <3>5, <4>1, <4>2
    <3> QED
      BY <3>6, <3>7
  <2>8. g[{}] = a
    <3>1. {} \in SUBSET (1..(k - 1)) /\ {} \in SUBSET (1..k)
      OBVIOUS
    <3>2. f[{}] = a
      BY <2>2, <3>1 DEF Folds
    <3> QED
      BY <3>1, <3>2
  <2>9. Folds(g, k, A, a, G)
    <3> HIDE DEF g
    <3> QED
      BY <2>6, <2>7, <2>8 DEF Folds
  <2> QED
    BY <1>3, <2>9
<1> QED
  BY <1>4, <1>5

\* A fold as far as it stays in a set, and sets it goes through.
FoldIn(h, n, A, a, G) ==
  /\ h[{}] = a
  /\ \A s \in SUBSET (1..n) : s # {} /\ h[s \ {Max(s)}] \in A => h[s] = G[<<h[s \ {Max(s)}], Max(s)>>]
Stages(B, n, A, a, G) ==
  /\ B \in [0..n -> SUBSET A] /\ a \in B[0]
  /\ \A k \in 1..n : \A x \in B[k - 1] : G[<<x, k>>] \in B[k]

\* Where every step leads from the k-th of some sets to the next, a fold ends in the last.
LEMMA FoldStays ==
  ASSUME NEW n \in Nat, NEW A, NEW a, NEW G, NEW B, Stages(B, n, A, a, G), NEW h, FoldIn(h, n, A, a, G)
  PROVE  h[1..n] \in B[n]
<1>0. /\ B \in [0..n -> SUBSET A] /\ a \in B[0]
      /\ \A k \in 1..n : \A x \in B[k - 1] : G[<<x, k>>] \in B[k]
      /\ h[{}] = a
      /\ \A s \in SUBSET (1..n) : s # {} /\ h[s \ {Max(s)}] \in A => h[s] = G[<<h[s \ {Max(s)}], Max(s)>>]
  BY DEF Stages, FoldIn
<1> DEFINE Bad == {k \in 0..n : h[1..k] \notin B[k]}
<1>1. SUFFICES ASSUME Bad # {} PROVE FALSE
  <2>1. n \in 0..n
    OBVIOUS
  <2> QED
    BY <2>1
<1>2. PICK k \in Bad : \A e \in Bad : ~ (<<e, k>> \in OpToRel(<, Nat))
  <2>1. Bad \subseteq Nat
    OBVIOUS
  <2> QED
    BY <1>1, <2>1, NatLessThanWellFounded, WFMin
<1>3. k \in 0..n /\ h[1..k] \notin B[k]
  BY <1>2
<1>4. CASE k = 0
  <2>1. 1..k = {}
    BY <1>4
  <2> QED
    BY <1>0, <1>3, <1>4, <2>1
<1>5. CASE k # 0
  <2>1. k \in 1..n /\ k - 1 \in 0..n
    BY <1>3, <1>5
  <2>2. <<k - 1, k>> \in OpToRel(<, Nat)
    BY <2>1 DEF OpToRel
  <2>3. k - 1 \notin Bad
    BY <1>2, <2>2
  <2>4. h[1..(k - 1)] \in B[k - 1] /\ h[1..(k - 1)] \in A
    BY <1>0, <2>1, <2>3
  <2>5. Max(1..k) = k
    <3>1. 1..k \in SUBSET (1..n) /\ 1..k # {} /\ k \in 1..k
      BY ONLY <2>1, n \in Nat
    <3>2. Max(1..k) \in 1..k /\ k <= Max(1..k)
      BY <3>1, MaxIn
    <3> QED
      BY <2>1, <3>2
  <2>6. (1..k) \ {k} = 1..(k - 1) /\ 1..k # {} /\ 1..k \in SUBSET (1..n)
    BY ONLY <2>1, n \in Nat
  <2>7. h[1..k] = G[<<h[1..(k - 1)], k>>]
    BY <1>0, <2>4, <2>5, <2>6
  <2> QED
    BY <1>0, <1>3, <2>1, <2>4, <2>7
<1> QED
  BY <1>4, <1>5

-----------------------------------------------------------------------------
(* Pairing *)

TrackType == [at : Spot, v : Spot, missed : Nat]
Numbered(tracks, next) ==
  /\ tracks \in [DOMAIN tracks -> TrackType]
  /\ DOMAIN tracks \subseteq 1..(next - 1)

LEMMA FarIs == ASSUME NEW p \in Spot, NEW q \in Spot PROVE Far(p, q) \in Int
<1>1. p.x \in Int /\ p.y \in Int /\ q.x \in Int /\ q.y \in Int
  BY DEF Spot
<1>2. PICK a \in Int : a = p.x - q.x
  BY <1>1
<1>3. PICK b \in Int : b = p.y - q.y
  BY <1>1
<1>4. a * a + b * b \in Int
  OBVIOUS
<1> QED
  BY <1>2, <1>3, <1>4 DEF Far, Square

LEMMA PairIs ==
  ASSUME NEW next \in Nat \ {0}, NEW tracks, Numbered(tracks, next), NEW ps \in Seq(Seen),
         NEW id \in DOMAIN tracks, NEW k \in DOMAIN ps, NEW r, r = Pair(tracks, ps, id, k)
  PROVE  r.d \in Int /\ r.id = id /\ r.k = k /\ id \in Nat /\ k \in 1..Len(ps)
<1>1. tracks[id] \in TrackType /\ id \in Nat
  BY DEF Numbered
<1>2. ps[k] \in Seen /\ k \in 1..Len(ps)
  OBVIOUS
<1>3. PICK e : e = Expected(tracks[id])
  OBVIOUS
<1>4. e \in Spot
  BY <1>1, <1>3 DEF Expected, Pt, Spot, TrackType
<1>5. ps[k].at \in Spot
  BY <1>2 DEF Seen
<1>6. PICK d : d = Far(ps[k].at, e)
  OBVIOUS
<1>7. d \in Int
  BY <1>4, <1>5, <1>6, FarIs
<1>8. r = [d |-> d, id |-> id, k |-> k]
  BY <1>3, <1>6 DEF Pair
<1> QED
  BY <1>1, <1>2, <1>7, <1>8

\* A pair is of a track and a position, of which it is the only one, and they are near each other.
LEMMA ReachIs ==
  ASSUME NEW next \in Nat \ {0}, NEW tracks, Numbered(tracks, next), NEW ps \in Seq(Seen),
         NEW S, S = Reach(tracks, ps)
  PROVE  /\ IsFiniteSet(S)
         /\ \A r \in S : /\ r.d \in Int /\ r.id \in DOMAIN tracks /\ r.id \in Nat /\ r.k \in 1..Len(ps)
                         /\ Far(ps[r.k].at, tracks[r.id].at) <= Square(MaxDistance)
         /\ \A r, s \in S : r.id = s.id /\ r.k = s.k => r = s
<1>1. \A r \in S : \E id \in DOMAIN tracks : \E k \in DOMAIN ps :
         /\ r = Pair(tracks, ps, id, k)
         /\ Far(ps[r.k].at, tracks[r.id].at) <= Square(MaxDistance)
  BY DEF Reach
<1>2. \A r \in S : /\ r.d \in Int /\ r.id \in DOMAIN tracks /\ r.id \in Nat /\ r.k \in 1..Len(ps)
                   /\ r = Pair(tracks, ps, r.id, r.k)
                   /\ Far(ps[r.k].at, tracks[r.id].at) <= Square(MaxDistance)
  <2> TAKE r \in S
  <2>1. PICK id \in DOMAIN tracks, k \in DOMAIN ps :
          r = Pair(tracks, ps, id, k) /\ Far(ps[r.k].at, tracks[r.id].at) <= Square(MaxDistance)
    BY <1>1
  <2>2. r.d \in Int /\ r.id = id /\ r.k = k /\ id \in Nat /\ k \in 1..Len(ps)
    BY <2>1, PairIs
  <2> QED
    BY <2>1, <2>2
<1>3. \A r, s \in S : r.id = s.id /\ r.k = s.k => r = s
  BY <1>2
<1>4. IsFiniteSet(S)
  <2>1. PICK m \in Nat : m = Len(ps)
    OBVIOUS
  <2>2. PICK T : T = (1..(next - 1)) \X (1..m)
    OBVIOUS
  <2>3. IsFiniteSet(T)
    <3>1. IsFiniteSet(1..(next - 1)) /\ IsFiniteSet(1..m)
      BY FS_Interval
    <3> QED
      BY <2>2, <3>1, FS_Product
  <2> DEFINE f == [r \in S |-> <<r.id, r.k>>]
  <2>4. f \in [S -> T]
    <3> SUFFICES ASSUME NEW r \in S PROVE <<r.id, r.k>> \in T
      OBVIOUS
    <3> QED
      BY <1>2, <2>1, <2>2 DEF Numbered
  <2>5. f \in Injection(S, T)
    BY <1>3, <2>4 DEF Injection, IsInjective
  <2> QED
    BY <2>3, <2>5, FS_Injection
<1> QED
  BY <1>2, <1>3, <1>4

\* The pairs come one by one, in an order in which each has a place.
LEMMA PairsAre ==
  ASSUME NEW next \in Nat \ {0}, NEW tracks, Numbered(tracks, next), NEW ps \in Seq(Seen)
  PROVE  \E n \in Nat : Pairs(tracks, ps) \in [1..n -> Reach(tracks, ps)]
<1>1. PICK S : S = Reach(tracks, ps)
  OBVIOUS
<1>2. /\ IsFiniteSet(S)
      /\ \A r \in S : r.d \in Int /\ r.id \in Nat /\ r.k \in 1..Len(ps)
      /\ \A r, s \in S : r.id = s.id /\ r.k = s.k => r = s
  BY <1>1, ReachIs
<1>3. PICK R : R = {p \in S \X S : Sooner(p[1], p[2])}
  OBVIOUS
<1>4. \A a, b \in S : <<a, b>> \in R <=> Sooner(a, b)
  BY <1>3
<1>5. Ordered(R, S)
  <2>1. \A a, b \in S : Sooner(a, b) <=> \/ a.d < b.d
                                         \/ a.d = b.d /\ a.id < b.id
                                         \/ a.d = b.d /\ a.id = b.id /\ a.k < b.k
    BY ONLY DEF Sooner
  <2>2. \A a \in S : <<a, a>> \notin R
    BY <1>2, <1>4, <2>1
  <2>3. \A a, b \in S : a # b => <<a, b>> \in R \/ <<b, a>> \in R
    <3> SUFFICES ASSUME NEW a \in S, NEW b \in S, a # b PROVE <<a, b>> \in R \/ <<b, a>> \in R
      OBVIOUS
    <3>1. a.id # b.id \/ a.k # b.k
      BY <1>2
    <3>2. /\ a.d \in Int /\ a.id \in Nat /\ a.k \in 1..Len(ps)
          /\ b.d \in Int /\ b.id \in Nat /\ b.k \in 1..Len(ps)
      BY <1>2
    <3>3. Sooner(a, b) \/ Sooner(b, a)
      BY <2>1, <3>1, <3>2
    <3> QED
      BY <1>4, <3>3
  <2>4. \A a, b, c \in S : <<a, b>> \in R /\ <<b, c>> \in R => <<a, c>> \in R
    <3> SUFFICES ASSUME NEW a \in S, NEW b \in S, NEW c \in S, <<a, b>> \in R, <<b, c>> \in R
                 PROVE  <<a, c>> \in R
      OBVIOUS
    <3>1. /\ a.d \in Int /\ a.id \in Nat /\ a.k \in Nat /\ b.d \in Int /\ b.id \in Nat /\ b.k \in Nat
          /\ c.d \in Int /\ c.id \in Nat /\ c.k \in Nat
      BY <1>2
    <3>2. /\ \/ a.d < b.d
             \/ a.d = b.d /\ a.id < b.id
             \/ a.d = b.d /\ a.id = b.id /\ a.k < b.k
          /\ \/ b.d < c.d
             \/ b.d = c.d /\ b.id < c.id
             \/ b.d = c.d /\ b.id = c.id /\ b.k < c.k
      BY <1>4, <2>1
    <3>3. \/ a.d < c.d
          \/ a.d = c.d /\ a.id < c.id
          \/ a.d = c.d /\ a.id = c.id /\ a.k < c.k
      <4>1. a.d <= b.d /\ b.d <= c.d
        BY ONLY <3>1, <3>2
      <4>2. CASE a.d < b.d \/ b.d < c.d
        BY ONLY <3>1, <4>1, <4>2
      <4>3. CASE a.d = b.d /\ b.d = c.d
        BY ONLY <3>1, <3>2, <4>3
      <4> QED
        BY ONLY <3>1, <4>1, <4>2, <4>3
    <3> QED
      BY <1>4, <2>1, <3>3
  <2> QED
    BY <2>2, <2>3, <2>4 DEF Ordered
<1>6. \A k \in 0..Cardinality(S)-1 : \E a \in S : Cardinality(Under(R, S, a)) = k
  BY ONLY <1>2, <1>5, Ranks
<1>7. Cardinality(S) \in Nat
  BY <1>2, FS_CardinalityType
<1> DEFINE c(k) == CHOOSE r \in S : Cardinality({s \in S : Sooner(s, r)}) = k - 1
<1>8. Pairs(tracks, ps) = [k \in 1..Cardinality(S) |-> c(k)]
  BY ONLY <1>1 DEF Pairs
<1>9. \A a \in S : Under(R, S, a) = {s \in S : Sooner(s, a)}
  BY <1>4 DEF Under
<1>10. \A k \in 1..Cardinality(S) : c(k) \in S
  <2> TAKE k \in 1..Cardinality(S)
  <2>1. k - 1 \in 0..Cardinality(S)-1
    BY <1>7
  <2> HIDE DEF c
  <2>2. PICK a \in S : Cardinality(Under(R, S, a)) = k - 1
    BY <1>6, <2>1
  <2>3. Cardinality({s \in S : Sooner(s, a)}) = k - 1
    BY <1>9, <2>2
  <2> QED
    BY <2>3 DEF c
<1> HIDE DEF c
<1>11. Pairs(tracks, ps) \in [1..Cardinality(S) -> S]
  BY <1>8, <1>10
<1> QED
  BY <1>1, <1>7, <1>11

\* Nobody is paired twice.
Single(S) == \A r, s \in S : r.id = s.id \/ r.k = s.k => r = s

LEMMA MatchedIs ==
  ASSUME NEW next \in Nat \ {0}, NEW tracks, Numbered(tracks, next), NEW ps \in Seq(Seen)
  PROVE  Matched(tracks, ps) \in SUBSET Reach(tracks, ps) /\ Single(Matched(tracks, ps))
<1>1. PICK pairs : pairs = Pairs(tracks, ps)
  OBVIOUS
<1>2. PICK n \in Nat : pairs \in [1..n -> Reach(tracks, ps)]
  BY <1>1, PairsAre
<1> DEFINE A == {S \in SUBSET Reach(tracks, ps) : Single(S)}
<1>3. {} \in A
  BY DEF Single
<1>4. \A S \in A : \A r \in Reach(tracks, ps) : Taken(S, r) \in A
  <2> SUFFICES ASSUME NEW S \in A, NEW r \in Reach(tracks, ps) PROVE Taken(S, r) \in A
    OBVIOUS
  <2>1. S \subseteq Reach(tracks, ps) /\ Single(S)
    OBVIOUS
  <2>2. CASE \E s \in S : s.id = r.id \/ s.k = r.k
    BY <2>2 DEF Taken
  <2>3. CASE ~ \E s \in S : s.id = r.id \/ s.k = r.k
    <3>1. Taken(S, r) = S \cup {r}
      BY <2>3 DEF Taken
    <3>2. Single(S \cup {r})
      BY <2>1, <2>3 DEF Single
    <3> QED
      BY <2>1, <3>1, <3>2
  <2> QED
    BY <2>2, <2>3
<1> HIDE DEF A
<1> DEFINE G == [p \in A \X (1..n) |-> Taken(p[1], pairs[p[2]])]
           B == [k \in 0..n |-> A]
<1>5. G \in [A \X (1..n) -> A]
  BY <1>2, <1>4
<1>6. PICK f : Folds(f, n, A, {}, G)
  <2> HIDE DEF G
  <2> QED
    BY <1>3, <1>5, FoldExists
<1> DEFINE Runs(x) == x = [s \in SUBSET (1..n) |->
                             IF s = {} THEN {} ELSE Taken(x[s \ {Max(s)}], pairs[Max(s)])]
           h == CHOOSE x : Runs(x)
<1>7. \A S \in A : \A k \in 1..n : G[<<S, k>>] = Taken(S, pairs[k])
  OBVIOUS
<1>8. \A s \in SUBSET (1..n) : s # {} => Max(s) \in 1..n /\ s \ {Max(s)} \in SUBSET (1..n)
  BY MaxIn
<1>9. /\ B \in [0..n -> SUBSET A] /\ {} \in B[0]
      /\ \A k \in 1..n : \A x \in B[k - 1] : G[<<x, k>>] \in B[k]
  <2> HIDE DEF G
  <2>1. \A k \in 0..n : B[k] = A
    OBVIOUS
  <2>2. \A k \in 1..n : k \in 0..n /\ k - 1 \in 0..n
    OBVIOUS
  <2>3. B \in [0..n -> SUBSET A] /\ 0 \in 0..n
    OBVIOUS
  <2> QED
    BY <1>3, <1>5, <2>1, <2>2, <2>3
<1> HIDE DEF G, B
<1>10. Runs(f)
  <2>1. \A s \in SUBSET (1..n) : f[s] = IF s = {} THEN {} ELSE Taken(f[s \ {Max(s)}], pairs[Max(s)])
    BY <1>6, <1>7, <1>8 DEF Folds
  <2> QED
    BY <1>6, <2>1 DEF Folds
<1>11. Runs(h)
  BY <1>10
<1>12. /\ h[{}] = {}
       /\ \A s \in SUBSET (1..n) : s # {} /\ h[s \ {Max(s)}] \in A =>
            h[s] = G[<<h[s \ {Max(s)}], Max(s)>>]
  <2>1. \A s \in SUBSET (1..n) : h[s] = IF s = {} THEN {} ELSE Taken(h[s \ {Max(s)}], pairs[Max(s)])
    <3> HIDE DEF h
    <3> QED
      BY <1>11
  <2> HIDE DEF h, Runs
  <2> QED
    BY <1>7, <1>8, <2>1
<1>13. h[1..n] \in B[n]
  <2> HIDE DEF h
  <2>1. PICK a, g, b, H : a = {} /\ g = G /\ b = B /\ H = h
    OBVIOUS
  <2>2. Stages(b, n, A, a, g)
    BY ONLY <1>9, <2>1 DEF Stages
  <2>3. FoldIn(H, n, A, a, g)
    BY ONLY <1>12, <2>1 DEF FoldIn
  <2>5. H[1..n] \in b[n]
    BY ONLY <2>2, <2>3, n \in Nat, FoldStays
  <2> QED
    BY ONLY <2>1, <2>5
<1>14. Matched(tracks, ps) = h[1..n]
  <2>1. DOMAIN pairs = 1..n
    BY <1>2
  <2>2. Matched(tracks, ps) =
          (CHOOSE x : x = [s \in SUBSET DOMAIN pairs |->
                             IF s = {} THEN {} ELSE Taken(x[s \ {Max(s)}], pairs[Max(s)])])[DOMAIN pairs]
    BY ONLY <1>1 DEF Matched, FoldLeft, MapThenFoldSet
  <2> QED
    BY ONLY <2>1, <2>2
<1>15. B[n] = A
  BY DEF B
<1> QED
  BY <1>13, <1>14, <1>15 DEF A

-----------------------------------------------------------------------------
(* Numbering *)

\* Where the track of a number stands after a picture: on the person who has the number
\* now, or where it was, missed once more.
Follows(tracks, ps, ids, id, t) ==
  \/ \E k \in 1..Len(ps) : ids[k] = id /\ t.at = ps[k].at /\ t.missed = 0
  \/ /\ id \in DOMAIN tracks /\ \A k \in 1..Len(ps) : ids[k] # id
     /\ t.at = tracks[id].at /\ t.missed = tracks[id].missed + 1

Lower(new, k) == {j \in new : j < k}

\* Those without a track get numbers of their own, from the next one on.
LEMMA NewNumbers ==
  ASSUME NEW n \in Nat, NEW new \in SUBSET (1..n), NEW next \in Nat \ {0}
  PROVE  /\ Cardinality(new) \in Nat
         /\ \A k \in new : next + Cardinality(Lower(new, k)) \in next..(next + Cardinality(new) - 1)
         /\ \A j, k \in new : Cardinality(Lower(new, j)) = Cardinality(Lower(new, k)) => j = k
<1>1. IsFiniteSet(new) /\ new \subseteq Nat
  <2>1. PICK T : T = 1..n
    OBVIOUS
  <2>2. IsFiniteSet(T) /\ new \in SUBSET T
    BY <2>1, FS_Interval
  <2>3. IsFiniteSet(new)
    BY ONLY <2>2, FS_Subset
  <2> QED
    BY <2>3
<1>2. PICK R : R = {p \in new \X new : p[1] < p[2]}
  OBVIOUS
<1>3. \A a, b \in new : <<a, b>> \in R <=> a < b
  BY <1>2
<1>4. Ordered(R, new)
  BY <1>1, <1>3 DEF Ordered
<1>5. PICK c \in Nat : c = Cardinality(new)
  BY <1>1, FS_CardinalityType
<1>6. /\ \A k \in new : Cardinality(Under(R, new, k)) \in 0..c-1
      /\ \A j, k \in new : Cardinality(Under(R, new, j)) = Cardinality(Under(R, new, k)) => j = k
  BY ONLY <1>1, <1>4, <1>5, Ranks
<1>7. \A k \in new : Under(R, new, k) = Lower(new, k)
  BY <1>3 DEF Under, Lower
<1>8. \A k \in new : Cardinality(Lower(new, k)) \in 0..c-1
  BY <1>6, <1>7
<1>9. \A j, k \in new : Cardinality(Lower(new, j)) = Cardinality(Lower(new, k)) => j = k
  BY <1>6, <1>7
<1>10. \A k \in new : next + Cardinality(Lower(new, k)) \in next..(next + c - 1)
  <2> TAKE k \in new
  <2>1. PICK x \in 0..c-1 : x = Cardinality(Lower(new, k))
    BY <1>8
  <2>2. next + x \in next..(next + c - 1)
    BY ONLY <2>1, c \in Nat, next \in Nat \ {0}
  <2>3. \A y : y = x => next + y \in next..(next + c - 1)
    BY <2>2
  <2> QED
    BY ONLY <2>1, <2>3
<1> QED
  BY ONLY <1>5, <1>9, <1>10

\* What the numbers of a picture are.
Numbers(ids, tracks, next, m, ps, pairs, new) ==
  /\ new \subseteq 1..Len(ps)
  /\ ids \in [1..Len(ps) -> 1..(m - 1)]
  /\ \A j, k \in 1..Len(ps) : ids[j] = ids[k] => j = k
  /\ \A k \in new : ids[k] >= next
  /\ \A k \in 1..Len(ps) : k \notin new =>
       /\ \E r \in pairs : r.k = k /\ r.id = ids[k]
       /\ ids[k] \in DOMAIN tracks /\ ids[k] < next /\ Far(ps[k].at, tracks[ids[k]].at) <= Square(MaxDistance)

LEMMA NumbersAre ==
  ASSUME NEW next \in Nat \ {0}, NEW tracks, Numbered(tracks, next), NEW ps \in Seq(Seen),
         NEW pairs, pairs = Matched(tracks, ps), NEW new, new = Unpaired(pairs, ps),
         NEW ids, ids = [k \in DOMAIN ps |-> IdOf(next, pairs, new, k)]
  PROVE  Cardinality(new) \in Nat /\ Numbers(ids, tracks, next, next + Cardinality(new), ps, pairs, new)
<1>1. PICK n \in Nat : n = Len(ps) /\ DOMAIN ps = 1..n
  OBVIOUS
<1>2. /\ Single(pairs)
      /\ \A r \in pairs : /\ r.id \in DOMAIN tracks /\ r.id \in 1..(next - 1) /\ r.k \in 1..n
                          /\ Far(ps[r.k].at, tracks[r.id].at) <= Square(MaxDistance)
  <2>1. PICK S : S = Reach(tracks, ps)
    OBVIOUS
  <2>2. pairs \in SUBSET S /\ Single(pairs)
    BY <2>1, MatchedIs
  <2>3. \A r \in S : /\ r.id \in DOMAIN tracks /\ r.k \in 1..Len(ps)
                     /\ Far(ps[r.k].at, tracks[r.id].at) <= Square(MaxDistance)
    BY <2>1, ReachIs
  <2>4. \A r \in S : r.id \in 1..(next - 1)
    BY <2>3 DEF Numbered
  <2> QED
    BY <1>1, <2>2, <2>3, <2>4
<1>3. new = {k \in 1..n : ~ \E r \in pairs : r.k = k}
  BY <1>1 DEF Unpaired
<1>4. PICK c \in Nat : c = Cardinality(new)
  BY <1>3, NewNumbers
<1>5. /\ \A k \in new : next + Cardinality(Lower(new, k)) \in next..(next + c - 1)
      /\ \A j, k \in new : Cardinality(Lower(new, j)) = Cardinality(Lower(new, k)) => j = k
  BY <1>3, <1>4, NewNumbers
<1>6. \A k \in 1..n : ids[k] = IF k \in new THEN next + Cardinality(Lower(new, k))
                               ELSE (CHOOSE r \in pairs : r.k = k).id
  BY <1>1 DEF IdOf, Lower
<1>7. \A k \in new : ids[k] \in next..(next + c - 1)
  <2> TAKE k \in new
  <2>1. k \in 1..n
    BY <1>3
  <2>2. ids[k] = next + Cardinality(Lower(new, k))
    BY <1>6, <2>1
  <2> QED
    BY <1>5, <2>2
<1>8. \A k \in 1..n : k \notin new => \E r \in pairs : r.k = k /\ r.id = ids[k]
  <2> SUFFICES ASSUME NEW k \in 1..n, k \notin new PROVE \E r \in pairs : r.k = k /\ r.id = ids[k]
    OBVIOUS
  <2>1. \E r \in pairs : r.k = k
    BY <1>3
  <2>2. (CHOOSE r \in pairs : r.k = k) \in pairs /\ (CHOOSE r \in pairs : r.k = k).k = k
    BY <2>1
  <2> QED
    BY <1>6, <2>2
<1>9. \A k \in 1..n : k \notin new =>
        /\ ids[k] \in DOMAIN tracks /\ ids[k] \in 1..(next - 1)
        /\ Far(ps[k].at, tracks[ids[k]].at) <= Square(MaxDistance)
  BY <1>2, <1>8
<1>10. ids \in [1..n -> 1..(next + c - 1)]
  <2> SUFFICES ASSUME NEW k \in 1..n PROVE ids[k] \in 1..(next + c - 1)
    BY <1>1
  <2>1. CASE k \in new
    <3>1. ids[k] \in next..(next + c - 1)
      BY <1>7, <2>1
    <3> QED
      BY ONLY <3>1, next \in Nat \ {0}, c \in Nat
  <2>2. CASE k \notin new
    <3>1. ids[k] \in 1..(next - 1)
      BY <1>9, <2>2
    <3> QED
      BY ONLY <3>1, next \in Nat \ {0}, c \in Nat
  <2> QED
    BY <2>1, <2>2
<1>11. \A k \in 1..n : (k \in new => ids[k] >= next) /\ (k \notin new => ids[k] < next)
  <2>1. \A x \in next..(next + c - 1) : x >= next
    BY ONLY next \in Nat \ {0}, c \in Nat
  <2>2. \A x \in 1..(next - 1) : x < next
    BY ONLY next \in Nat \ {0}
  <2> QED
    BY <1>7, <1>9, <2>1, <2>2
<1>12. \A j, k \in 1..n : ids[j] = ids[k] => j = k
  <2> SUFFICES ASSUME NEW j \in 1..n, NEW k \in 1..n, ids[j] = ids[k] PROVE j = k
    OBVIOUS
  <2>0. ids[j] \in Int /\ ids[k] \in Int
    BY <1>10
  <2>1. CASE j \in new /\ k \in new
    <3>1. PICK x, y : x = Cardinality(Lower(new, j)) /\ y = Cardinality(Lower(new, k))
      OBVIOUS
    <3>2. next + x = next + y
      <4>1. ids[j] = next + x /\ ids[k] = next + y
        BY <1>6, <2>1, <3>1
      <4> QED
        BY <4>1
    <3>3. x \in Int /\ y \in Int
      <4>1. IsFiniteSet(new)
        <5>1. IsFiniteSet(1..n)
          BY FS_Interval
        <5> QED
          BY <1>3, <5>1, FS_Subset
      <4>2. Lower(new, j) \in SUBSET new /\ Lower(new, k) \in SUBSET new
        BY DEF Lower
      <4> QED
        BY <3>1, <4>1, <4>2, FS_Subset, FS_CardinalityType
    <3>4. x = y
      BY ONLY <3>2, <3>3, next \in Nat \ {0}
    <3> QED
      BY <1>5, <2>1, <3>1, <3>4
  <2>2. CASE j \notin new /\ k \notin new
    BY <1>2, <1>8, <2>2 DEF Single
  <2>3. CASE ~ (j \in new <=> k \in new)
    BY ONLY <1>11, <2>0, <2>3, ids[j] = ids[k], j \in 1..n, k \in 1..n, next \in Nat \ {0}
  <2> QED
    BY <2>1, <2>2, <2>3
<1>13. Numbers(ids, tracks, next, next + c, ps, pairs, new)
  <2>1. new \subseteq 1..n
    BY <1>3
  <2>2. \A k \in new : ids[k] >= next
    BY <1>11, <2>1
  <2>3. PICK m : m = next + c
    OBVIOUS
  <2>4. ids \in [1..n -> 1..(m - 1)]
    BY <1>10, <2>3
  <2>5. \A k \in 1..n : k \notin new =>
           /\ \E r \in pairs : r.k = k /\ r.id = ids[k]
           /\ ids[k] \in DOMAIN tracks /\ ids[k] < next
           /\ Far(ps[k].at, tracks[ids[k]].at) <= Square(MaxDistance)
    BY <1>8, <1>9, <1>11
  <2>6. Numbers(ids, tracks, next, m, ps, pairs, new)
    BY ONLY <1>1, <1>12, <2>1, <2>2, <2>4, <2>5 DEF Numbers
  <2> QED
    BY <2>3, <2>6
<1> QED
  BY <1>4, <1>13

\* The tracks that were there: moved to whom they are paired with, or missed once more.
LEMMA KeptAre ==
  ASSUME NEW next \in Nat \ {0}, NEW tracks, Numbered(tracks, next), NEW ps \in Seq(Seen),
         NEW pairs, pairs = Matched(tracks, ps), NEW new, new = Unpaired(pairs, ps),
         NEW m, NEW ids, Numbers(ids, tracks, next, m, ps, pairs, new), NEW old, old = Kept(tracks, pairs, ps)
  PROVE  /\ old \in [DOMAIN tracks -> TrackType]
         /\ \A id \in DOMAIN tracks : Follows(tracks, ps, ids, id, old[id])
<1>1. PICK n \in Nat : n = Len(ps) /\ DOMAIN ps = 1..n
  OBVIOUS
<1>2. /\ Single(pairs) /\ \A r \in pairs : r.id \in DOMAIN tracks /\ r.k \in 1..n
  BY <1>1, MatchedIs, ReachIs
<1>3. new = {k \in 1..n : ~ \E r \in pairs : r.k = k}
  BY <1>1 DEF Unpaired
<1>4. \A id \in DOMAIN tracks : old[id] \in TrackType /\ Follows(tracks, ps, ids, id, old[id])
  <2> TAKE id \in DOMAIN tracks
  <2>1. PICK t \in TrackType : t = tracks[id]
    BY DEF Numbered
  <2>2. PICK hit : hit = {r \in pairs : r.id = id}
    OBVIOUS
  <2>3. old[id] = IF hit = {} THEN [t EXCEPT !.missed = @ + 1]
                  ELSE Moved(t, ps[(CHOOSE r \in hit : TRUE).k].at)
    BY <2>1, <2>2 DEF Kept
  <2>4. id \in 1..(next - 1)
    BY DEF Numbered
  <2>5. CASE hit = {}
    <3>1. old[id] = [t EXCEPT !.missed = @ + 1]
      BY <2>3, <2>5
    <3>2. old[id] \in TrackType /\ old[id].at = t.at /\ old[id].missed = t.missed + 1
      BY ONLY <2>1, <3>1 DEF TrackType
    <3>3. \A k \in 1..n : ids[k] # id
      <4> SUFFICES ASSUME NEW k \in 1..n, ids[k] = id PROVE FALSE
        OBVIOUS
      <4>1. k \notin new
        BY <1>1, <2>4 DEF Numbers
      <4>2. PICK r \in pairs : r.k = k /\ r.id = ids[k]
        BY <1>1, <4>1 DEF Numbers
      <4> QED
        BY <2>2, <2>5, <4>2
    <3> QED
      BY <1>1, <2>1, <3>2, <3>3 DEF Follows
  <2>6. CASE hit # {}
    <3>1. PICK r : r = CHOOSE q \in hit : TRUE
      OBVIOUS
    <3>2. r \in pairs /\ r.id = id /\ r.k \in 1..n
      BY <1>2, <2>2, <2>6, <3>1
    <3>3. PICK p : p = ps[r.k].at
      OBVIOUS
    <3>9. ps[r.k] \in Seen
      BY <1>1, <3>2
    <3>4. p \in Spot
      BY <3>3, <3>9 DEF Seen
    <3>5. old[id] = Moved(t, p)
      BY <2>3, <2>6, <3>1, <3>3
    <3>6. old[id] \in TrackType /\ old[id].at = p /\ old[id].missed = 0
      BY ONLY <2>1, <3>4, <3>5 DEF TrackType, Moved, Track, Pt, Spot
    <3>7. ids[r.k] = id
      <4>1. r.k \notin new
        BY <1>3, <3>2
      <4>2. PICK q \in pairs : q.k = r.k /\ q.id = ids[r.k]
        BY <1>1, <3>2, <4>1 DEF Numbers
      <4> QED
        BY <1>2, <3>2, <4>2 DEF Single
    <3> QED
      BY <1>1, <3>2, <3>3, <3>6, <3>7 DEF Follows
  <2> QED
    BY <2>5, <2>6
<1> QED
  BY <1>4 DEF Kept

\* ... and those that begin.
Starting(tracks, ps, ids, new, fresh) ==
  /\ fresh \in [DOMAIN fresh -> TrackType]
  /\ \A id \in DOMAIN fresh : \E k \in new : id = ids[k]
  /\ \A id \in DOMAIN fresh : Follows(tracks, ps, ids, id, fresh[id])

LEMMA BegunAre ==
  ASSUME NEW next \in Nat \ {0}, NEW tracks, NEW ps \in Seq(Seen), NEW pairs, NEW new,
         NEW m, NEW ids, Numbers(ids, tracks, next, m, ps, pairs, new), NEW fresh, fresh = Begun(ids, new, ps)
  PROVE  Starting(tracks, ps, ids, new, fresh)
<1>1. PICK n \in Nat : n = Len(ps) /\ DOMAIN ps = 1..n
  OBVIOUS
<1>2. \A id \in DOMAIN fresh : \E k \in new : id = ids[k]
  BY DEF Begun
<1>3. \A id \in DOMAIN fresh : fresh[id] \in TrackType /\ Follows(tracks, ps, ids, id, fresh[id])
  <2> TAKE id \in DOMAIN fresh
  <2>1. \E k \in new : ids[k] = id
    BY <1>2
  <2>2. PICK k : k = CHOOSE j \in new : ids[j] = id
    OBVIOUS
  <2>3. k \in new /\ ids[k] = id /\ k \in 1..n
    BY <1>1, <2>1, <2>2 DEF Numbers
  <2>0. ps[k] \in Seen
    BY <1>1, <2>3
  <2>4. PICK p \in Spot : p = ps[k].at
    BY <2>0 DEF Seen
  <2>5. fresh[id] = Track(p, Pt(0, 0))
    BY <1>2, <2>2, <2>4 DEF Begun
  <2>6. fresh[id] \in TrackType /\ fresh[id].at = p /\ fresh[id].missed = 0
    BY ONLY <2>4, <2>5 DEF TrackType, Track, Pt, Spot
  <2> QED
    BY <1>1, <2>3, <2>4, <2>6 DEF Follows
<1>4. fresh \in [DOMAIN fresh -> TrackType]
  BY <1>3 DEF Begun
<1> QED
  BY ONLY <1>2, <1>3, <1>4 DEF Starting

\* A picture's numbers: each given once, an earlier one only to somebody near; and the
\* tracks after it.
Assigned(a, tr, ps) ==
  /\ a.tracker.next \in Nat \ {0} /\ tr.next <= a.tracker.next
  /\ a.tracker = [next |-> a.tracker.next, tracks |-> a.tracker.tracks]
  /\ Numbered(a.tracker.tracks, a.tracker.next)
  /\ a.ids \in [1..Len(ps) -> 1..(a.tracker.next - 1)]
  /\ \A j, k \in 1..Len(ps) : a.ids[j] = a.ids[k] => j = k
  /\ \A k \in 1..Len(ps) :
       \/ a.ids[k] >= tr.next
       \/ a.ids[k] \in DOMAIN tr.tracks /\ Far(ps[k].at, tr.tracks[a.ids[k]].at) <= Square(MaxDistance)
  /\ \A id \in DOMAIN a.tracker.tracks :
       /\ a.tracker.tracks[id].missed <= MaxMissed
       /\ Follows(tr.tracks, ps, a.ids, id, a.tracker.tracks[id])

LEMMA AssignIs ==
  ASSUME NEW tr, tr.next \in Nat \ {0}, Numbered(tr.tracks, tr.next), NEW ps \in Seq(Seen),
         NEW a, a = Assign(tr, ps)
  PROVE  Assigned(a, tr, ps)
<1>1. PICK next, tracks : /\ next = tr.next /\ tracks = tr.tracks
                          /\ next \in Nat \ {0} /\ Numbered(tracks, next)
  OBVIOUS
<1>2. PICK pairs : pairs = Matched(tracks, ps)
  OBVIOUS
<1>3. PICK new : new = Unpaired(pairs, ps)
  OBVIOUS
<1>4. PICK ids : ids = [k \in DOMAIN ps |-> IdOf(next, pairs, new, k)]
  OBVIOUS
<1>5. PICK c \in Nat : c = Cardinality(new) /\ Numbers(ids, tracks, next, next + c, ps, pairs, new)
  <2>1. Cardinality(new) \in Nat /\ Numbers(ids, tracks, next, next + Cardinality(new), ps, pairs, new)
    BY ONLY <1>1, <1>2, <1>3, <1>4, ps \in Seq(Seen), NumbersAre
  <2> QED
    BY <2>1
<1>6. PICK m : m = next + c
  OBVIOUS
<1>7. m \in Nat \ {0} /\ next <= m
  BY ONLY <1>1, <1>5, <1>6
<1>8. Numbers(ids, tracks, next, m, ps, pairs, new)
  BY <1>5, <1>6
<1>9. PICK old : old = Kept(tracks, pairs, ps)
  OBVIOUS
<1>10. /\ old \in [DOMAIN tracks -> TrackType]
       /\ \A id \in DOMAIN tracks : Follows(tracks, ps, ids, id, old[id])
  BY ONLY <1>1, <1>2, <1>3, <1>8, <1>9, ps \in Seq(Seen), KeptAre
<1>11. PICK fresh : fresh = Begun(ids, new, ps)
  OBVIOUS
<1>12. /\ fresh \in [DOMAIN fresh -> TrackType]
       /\ \A id \in DOMAIN fresh : \E k \in new : id = ids[k]
       /\ \A id \in DOMAIN fresh : Follows(tracks, ps, ids, id, fresh[id])
  <2>1. Starting(tracks, ps, ids, new, fresh)
    BY ONLY <1>1, <1>8, <1>11, ps \in Seq(Seen), BegunAre
  <2> QED
    BY ONLY <2>1 DEF Starting
<1>13. PICK all : all = Joined(old, fresh)
  OBVIOUS
<1>14. /\ all \in [DOMAIN tracks \cup DOMAIN fresh -> TrackType]
       /\ \A id \in DOMAIN all : Follows(tracks, ps, ids, id, all[id])
  BY <1>10, <1>12, <1>13 DEF Joined
<1>15. PICK kept : kept = Pruned(all)
  OBVIOUS
<1>16. /\ DOMAIN kept \subseteq DOMAIN all /\ kept \in [DOMAIN kept -> TrackType]
       /\ \A id \in DOMAIN kept : kept[id].missed <= MaxMissed /\ kept[id] = all[id]
  BY <1>14, <1>15 DEF Pruned
<1>17. a = [ids |-> ids, tracker |-> [next |-> m, tracks |-> kept]]
  <2>1. a = [ids |-> ids, tracker |-> [next |-> next + c, tracks |-> kept]]
    BY ONLY <1>1, <1>2, <1>3, <1>4, <1>5, <1>9, <1>11, <1>13, <1>15, a = Assign(tr, ps) DEF Assign
  <2> QED
    BY ONLY <1>6, <2>1
<1>18. /\ a.ids = ids /\ a.tracker.next = m /\ a.tracker.tracks = kept
       /\ a.tracker = [next |-> a.tracker.next, tracks |-> a.tracker.tracks]
  BY ONLY <1>17
<1>19. /\ ids \in [1..Len(ps) -> 1..(m - 1)]
       /\ \A j, k \in 1..Len(ps) : ids[j] = ids[k] => j = k
       /\ \A k \in 1..Len(ps) : \/ ids[k] >= next
                                \/ /\ ids[k] \in DOMAIN tracks
                                   /\ Far(ps[k].at, tracks[ids[k]].at) <= Square(MaxDistance)
  BY ONLY <1>8 DEF Numbers
<1>20. Numbered(kept, m)
  <2>1. \A id \in DOMAIN tracks : id \in 1..(m - 1)
    <3> TAKE id \in DOMAIN tracks
    <3>1. id \in 1..(next - 1)
      BY <1>1 DEF Numbered
    <3> QED
      BY ONLY <1>1, <1>7, <3>1
  <2>2. new \subseteq 1..Len(ps)
    BY ONLY <1>8 DEF Numbers
  <2>3. \A id \in DOMAIN fresh : id \in 1..(m - 1)
    BY ONLY <1>12, <1>19, <2>2
  <2>4. DOMAIN all = DOMAIN tracks \cup DOMAIN fresh
    BY <1>14
  <2>5. DOMAIN kept \subseteq 1..(m - 1)
    BY ONLY <1>16, <2>1, <2>3, <2>4
  <2> QED
    BY ONLY <1>16, <2>5 DEF Numbered
<1>21. \A id \in DOMAIN kept : kept[id].missed <= MaxMissed /\ Follows(tracks, ps, ids, id, kept[id])
  BY <1>14, <1>16
<1>22. \A k \in 1..Len(ps) : \/ ids[k] >= tr.next
                             \/ /\ ids[k] \in DOMAIN tr.tracks
                                /\ Far(ps[k].at, tr.tracks[ids[k]].at) <= Square(MaxDistance)
  BY ONLY <1>1, <1>19
<1> QED
  BY ONLY <1>1, <1>7, <1>18, <1>19, <1>20, <1>21, <1>22 DEF Assigned

-----------------------------------------------------------------------------
(* The agents *)

\* What is said of the k-th position by the end of the queue or before it.
Agent(ps, ids, k, q) == [id |-> ids[k], at |-> ps[k].at, role |-> ps[k].type, state |-> AgentState(ps[k], q)]
AgentsOf(ps, ids, n) == {Agent(ps, ids, k, q) : k \in 1..n, q \in Int}
ToldSoFar(ps, ids, n) == [queue : Int, list : Seq(AgentsOf(ps, ids, n))]
ToldOf(ps, ids, n, k) ==
  {a \in ToldSoFar(ps, ids, n) : /\ Len(a.list) = k
                                 /\ \A i \in 1..k : a.list[i].id = ids[i] /\ a.list[i].at = ps[i].at}

LEMMA ToldIs ==
  ASSUME NEW n \in Nat, NEW ps, NEW ids, NEW k \in 1..n, NEW a \in ToldSoFar(ps, ids, n)
  PROVE  /\ Told(ps, ids, a, k) \in ToldSoFar(ps, ids, n)
         /\ a \in ToldOf(ps, ids, n, k - 1) => Told(ps, ids, a, k) \in ToldOf(ps, ids, n, k)
<1>1. PICK e : e = Agent(ps, ids, k, a.queue)
  OBVIOUS
<1>2. PICK S : S = AgentsOf(ps, ids, n)
  OBVIOUS
<1>3. a.queue \in Int /\ a.list \in Seq(S)
  BY <1>2 DEF ToldSoFar
<1>4. e \in S /\ e.id = ids[k] /\ e.at = ps[k].at
  BY <1>1, <1>2, <1>3 DEF AgentsOf, Agent
<1>5. PICK list : list = Append(a.list, e)
  OBVIOUS
<1>6. /\ list \in Seq(S) /\ Len(list) = Len(a.list) + 1
      /\ \A i \in 1..Len(a.list) : list[i] = a.list[i]
      /\ list[Len(a.list) + 1] = e
  BY ONLY <1>3, <1>4, <1>5, AppendProperties
<1>7. PICK q \in Int : Told(ps, ids, a, k) = [queue |-> q, list |-> list]
  <2>1. PICK s : s = AgentState(ps[k], a.queue)
    OBVIOUS
  <2>2. PICK q : q = IF s = "queue" /\ a.queue > 0 THEN a.queue - 1 ELSE a.queue
    OBVIOUS
  <2>3. q \in Int
    BY <1>3, <2>2
  <2>4. e = [id |-> ids[k], at |-> ps[k].at, role |-> ps[k].type, state |-> s]
    BY <1>1, <2>1 DEF Agent
  <2>5. Told(ps, ids, a, k) = [queue |-> q, list |-> list]
    BY ONLY <1>5, <2>1, <2>2, <2>4 DEF Told
  <2> QED
    BY <2>3, <2>5
<1>8. PICK r : r = Told(ps, ids, a, k)
  OBVIOUS
<1>9. r.list = list /\ r \in ToldSoFar(ps, ids, n)
  BY ONLY <1>2, <1>6, <1>7, <1>8 DEF ToldSoFar
<1>10. ASSUME a \in ToldOf(ps, ids, n, k - 1) PROVE r \in ToldOf(ps, ids, n, k)
  <2>1. /\ Len(a.list) = k - 1
        /\ \A i \in 1..(k - 1) : a.list[i].id = ids[i] /\ a.list[i].at = ps[i].at
    BY <1>10 DEF ToldOf
  <2>2. Len(list) = k /\ list[k] = e
    BY <1>6, <2>1
  <2>3. \A i \in 1..k : i \in 1..(k - 1) \/ i = k
    OBVIOUS
  <2>4. \A i \in 1..k : list[i].id = ids[i] /\ list[i].at = ps[i].at
    BY <1>4, <1>6, <2>1, <2>2, <2>3
  <2> QED
    BY ONLY <1>9, <2>2, <2>4 DEF ToldOf
<1> QED
  BY ONLY <1>8, <1>9, <1>10

\* One agent for each position, at its place and with its number.
LEMMA AgentsAre ==
  ASSUME NEW n \in Nat, NEW ps, DOMAIN ps = 1..n, NEW ids, NEW queue \in Int,
         NEW agents, agents = Agents(ps, queue, ids)
  PROVE  /\ agents \in Seq(AgentsOf(ps, ids, n)) /\ Len(agents) = n
         /\ \A k \in 1..n : agents[k].id = ids[k] /\ agents[k].at = ps[k].at
<1>1. PICK nums : nums = [k \in DOMAIN ps |-> k]
  OBVIOUS
<1>2. DOMAIN nums = 1..n /\ \A k \in 1..n : nums[k] = k
  BY <1>1
<1>3. PICK A : A = ToldSoFar(ps, ids, n)
  OBVIOUS
<1>4. PICK a : a = [queue |-> queue, list |-> <<>>]
  OBVIOUS
<1>5. a \in A /\ a \in ToldOf(ps, ids, n, 0)
  BY <1>3, <1>4 DEF ToldSoFar, ToldOf
<1>6. PICK G : G = [p \in A \X (1..n) |-> Told(ps, ids, p[1], p[2])]
  OBVIOUS
<1>7. \A x \in A : \A k \in 1..n : G[<<x, k>>] = Told(ps, ids, x, k)
  BY <1>6
<1>8. \A x \in A : \A k \in 1..n :
        /\ Told(ps, ids, x, k) \in A
        /\ x \in ToldOf(ps, ids, n, k - 1) => Told(ps, ids, x, k) \in ToldOf(ps, ids, n, k)
  BY <1>3, ToldIs
<1>9. G \in [A \X (1..n) -> A]
  BY <1>6, <1>8
<1>10. PICK B : B = [k \in 0..n |-> ToldOf(ps, ids, n, k)]
  OBVIOUS
<1>11. /\ B \in [0..n -> SUBSET A] /\ a \in B[0]
       /\ \A k \in 1..n : \A x \in B[k - 1] : G[<<x, k>>] \in B[k]
  <2>1. \A k \in 0..n : B[k] = ToldOf(ps, ids, n, k) /\ B[k] \subseteq A
    BY <1>3, <1>10 DEF ToldOf
  <2>2. \A k \in 1..n : k \in 0..n /\ k - 1 \in 0..n
    OBVIOUS
  <2>3. B \in [0..n -> SUBSET A] /\ 0 \in 0..n
    BY <1>10, <2>1
  <2>4. \A k \in 1..n : \A x \in B[k - 1] : G[<<x, k>>] \in B[k]
    BY <1>7, <1>8, <2>1, <2>2
  <2> QED
    BY <1>5, <2>1, <2>3, <2>4
<1>12. PICK f : Folds(f, n, A, a, G)
  BY ONLY <1>5, <1>9, n \in Nat, FoldExists
<1> DEFINE Runs(x) == x = [s \in SUBSET (1..n) |->
                             IF s = {} THEN a ELSE Told(ps, ids, x[s \ {Max(s)}], nums[Max(s)])]
           h == CHOOSE x : Runs(x)
<1>13. \A s \in SUBSET (1..n) : s # {} => Max(s) \in 1..n /\ s \ {Max(s)} \in SUBSET (1..n)
  BY MaxIn
<1>21. \A x \in A : \A s \in SUBSET (1..n) : s # {} =>
         G[<<x, Max(s)>>] = Told(ps, ids, x, nums[Max(s)])
  <2> SUFFICES ASSUME NEW x \in A, NEW s \in SUBSET (1..n), s # {}
               PROVE  G[<<x, Max(s)>>] = Told(ps, ids, x, nums[Max(s)])
    OBVIOUS
  <2>1. PICK m \in 1..n : m = Max(s)
    BY <1>13
  <2>2. nums[m] = m /\ G[<<x, m>>] = Told(ps, ids, x, m)
    BY <1>2, <1>7
  <2> QED
    BY ONLY <2>1, <2>2
<1>14. Runs(f)
  <2>1. \A s \in SUBSET (1..n) : f[s] = IF s = {} THEN a ELSE Told(ps, ids, f[s \ {Max(s)}], nums[Max(s)])
    <3>1. f[{}] = a
      BY <1>12 DEF Folds
    <3>2. \A s \in SUBSET (1..n) : f[s] \in A
      BY <1>12 DEF Folds
    <3>3. \A s \in SUBSET (1..n) : s # {} => f[s] = G[<<f[s \ {Max(s)}], Max(s)>>]
      BY <1>12 DEF Folds
    <3>4. \A s \in SUBSET (1..n) : s # {} => f[s \ {Max(s)}] \in A
      BY <1>13, <3>2
    <3> QED
      BY ONLY <3>1, <3>3, <3>4, <1>21
  <2> QED
    BY <1>12, <2>1 DEF Folds
<1>15. Runs(h)
  BY <1>14
<1>16. /\ h[{}] = a
       /\ \A s \in SUBSET (1..n) : s # {} /\ h[s \ {Max(s)}] \in A =>
            h[s] = G[<<h[s \ {Max(s)}], Max(s)>>]
  <2>1. \A s \in SUBSET (1..n) : h[s] = IF s = {} THEN a ELSE Told(ps, ids, h[s \ {Max(s)}], nums[Max(s)])
    <3> HIDE DEF h
    <3> QED
      BY <1>15
  <2> HIDE DEF h, Runs
  <2>2. h[{}] = a
    BY <2>1
  <2>3. \A s \in SUBSET (1..n) : s # {} => h[s] = Told(ps, ids, h[s \ {Max(s)}], nums[Max(s)])
    BY ONLY <2>1
  <2> QED
    BY ONLY <1>21, <2>2, <2>3
<1>17. PICK H : H = h
  OBVIOUS
<1>18. H[1..n] \in B[n]
  <2>1. Stages(B, n, A, a, G)
    BY ONLY <1>11 DEF Stages
  <2>2. FoldIn(H, n, A, a, G)
    BY ONLY <1>16, <1>17 DEF FoldIn
  <2> QED
    BY ONLY <2>1, <2>2, n \in Nat, FoldStays
<1>19. agents = H[1..n].list
  <2>1. agents = (CHOOSE x : x = [s \in SUBSET DOMAIN nums |->
                    IF s = {} THEN a ELSE Told(ps, ids, x[s \ {Max(s)}], nums[Max(s)])])[DOMAIN nums].list
    BY ONLY <1>1, <1>4, agents = Agents(ps, queue, ids) DEF Agents, FoldLeft, MapThenFoldSet
  <2> QED
    BY ONLY <1>2, <1>17, <2>1
<1>20. H[1..n] \in ToldOf(ps, ids, n, n)
  BY <1>10, <1>18
<1> QED
  BY <1>19, <1>20 DEF ToldOf, ToldSoFar

\* Judging a picture moves nobody.
LEMMA JudgedIs ==
  ASSUME NEW n \in Nat, NEW tick, DOMAIN tick.positions = 1..n, tick.queue \in Nat,
         NEW v, NEW s, s = Judged(tick, v)
  PROVE  /\ s.queue \in Int /\ DOMAIN s.positions = 1..n
         /\ \A k \in 1..n : tick.positions[k] \in Seen => s.positions[k].at = tick.positions[k].at
<1>1. CASE v = 0
  BY <1>1 DEF Judged
<1>2. CASE v # 0
  <2>1. PICK zones : zones = Config[v]
    OBVIOUS
  <2>2. PICK ps : ps = [k \in DOMAIN tick.positions |-> InRoi(tick.positions[k], zones)]
    OBVIOUS
  <2>3. PICK S : S = {k \in DOMAIN ps : ps[k].zone = "waiting"}
    OBVIOUS
  <2>4. s.positions = ps /\ s.queue = Cardinality(S)
    <3>1. s = LET r == Reclassified(tick, [zones |-> Config[v], version |-> v])
              IN  [positions |-> r.positions, queue |-> r.queue, visible |-> r.visible]
      BY <1>2 DEF Judged
    <3> QED
      BY <2>1, <2>2, <2>3, <3>1 DEF Reclassified
  <2>5. DOMAIN ps = 1..n
    BY <2>2
  <2>6. Cardinality(S) \in Nat
    <3>1. PICK T : T = 1..n
      OBVIOUS
    <3>2. IsFiniteSet(T) /\ S \in SUBSET T
      BY <2>3, <2>5, <3>1, FS_Interval
    <3> QED
      BY ONLY <3>2, FS_Subset, FS_CardinalityType
  <2>7. ASSUME NEW k \in 1..n, tick.positions[k] \in Seen PROVE ps[k].at = tick.positions[k].at
    <3>1. PICK p : p = tick.positions[k]
      OBVIOUS
    <3>2. ps[k] = InRoi(p, zones)
      BY <2>2, <3>1
    <3>3. PICK z, y, x : InRoi(p, zones) = [p EXCEPT !.zone = z, !.type = y, !.state = x]
      BY DEF InRoi
    <3>4. p \in Seen
      BY <2>7, <3>1
    <3> QED
      BY ONLY <3>1, <3>2, <3>3, <3>4 DEF Seen
  <2> QED
    BY <2>4, <2>5, <2>6, <2>7
<1> QED
  BY <1>1, <1>2

-----------------------------------------------------------------------------
(* Numbers and people *)

\* A track is where its number was last given, so many frames ago as it was missed; and
\* no number given is the next one's.
PeopleInv ==
  /\ footage \in Film /\ w.tick \in 1..Len(footage)
  /\ tracker = [next |-> tracker.next, tracks |-> tracker.tracks]
  /\ tracker.next \in Nat \ {0} /\ Numbered(tracker.tracks, tracker.next)
  /\ DOMAIN seen \subseteq 1..(tracker.next - 1)
  /\ live => DOMAIN tracker.tracks = {}
  /\ ~ live => \A id \in DOMAIN tracker.tracks :
       /\ id \in DOMAIN seen /\ seen[id].n \in Nat
       /\ seen[id].at = tracker.tracks[id].at /\ seen[id].cycle = w.cycle
       /\ out.n - seen[id].n = tracker.tracks[id].missed /\ tracker.tracks[id].missed <= MaxMissed

LEMMA PeopleKept ==
  ASSUME PeopleInv, footage' = footage, live' = live, tracker' = tracker, seen' = seen, out' = out,
         w'.tick = w.tick, w'.cycle = w.cycle
  PROVE  PeopleInv'
BY DEF PeopleInv

LEMMA NoTracks == ASSUME NEW next PROVE Numbered(NoTracker.tracks, next) /\ DOMAIN NoTracker.tracks = {}
BY DEF Numbered, NoTracker

LEMMA PeopleInit == ASSUME Init PROVE PeopleInv
<1>1. /\ footage \in Film /\ w.tick = 1 /\ w.cycle = 0
      /\ tracker = NoTracker /\ seen = NoTracker.tracks
  BY FilmAssumption DEF Init, Start
<1>2. footage \in Seq([positions : Seq(Seen), queue : Nat, visible : Nat, raw : BOOLEAN]) /\ footage # <<>>
  BY <1>1 DEF Film
<1>3. Len(footage) \in Nat /\ Len(footage) # 0
  BY <1>2, EmptySeq
<1>4. /\ tracker.next = 1 /\ tracker.tracks = NoTracker.tracks
      /\ tracker = [next |-> tracker.next, tracks |-> tracker.tracks]
  BY <1>1 DEF NoTracker
<1>5. 1 \in 1..Len(footage)
  BY <1>3
<1> QED
  BY <1>1, <1>4, <1>5, NoTracks DEF PeopleInv

\* The picture that is taken, and what is made of it.
LEMMA ShotIs ==
  ASSUME PeopleInv, NEW ps, ps = Shot.positions
  PROVE  ps \in Seq(Seen) /\ Shot.queue \in Nat
<1>1. PICK R : R = [positions : Seq(Seen), queue : Nat, visible : Nat, raw : BOOLEAN]
  OBVIOUS
<1>2. footage \in Seq(R) /\ w.tick \in 1..Len(footage)
  BY <1>1 DEF PeopleInv, Film
<1>3. footage[w.tick] \in R
  BY ONLY <1>2, ElementOfSeq
<1> QED
  BY <1>1, <1>3 DEF Shot

LEMMA PeopleSent ==
  ASSUME PeopleInv, StartFrame, ~ live, NEW a, a = Assign(tracker, Shot.positions),
         NEW n \in Nat, n = Len(Shot.positions)
  PROVE  /\ DOMAIN out'.agents = 1..n
         /\ \A k \in 1..n : out'.agents[k].id = a.ids[k] /\ out'.agents[k].at = Shot.positions[k].at
         /\ tracker' = a.tracker /\ seen' = Given(out'.agents, out'.n, w.cycle)
<1>1. PICK ps, v : ps = Shot.positions /\ v = roi'.version
  OBVIOUS
<1>2. ps \in Seq(Seen) /\ Shot.queue \in Nat /\ DOMAIN ps = 1..n
  BY <1>1, ShotIs
<1>3. PICK s : s = Judged(Shot, v)
  OBVIOUS
<1>4. /\ s.queue \in Int /\ DOMAIN s.positions = 1..n
      /\ \A k \in 1..n : Shot.positions[k] \in Seen => s.positions[k].at = Shot.positions[k].at
  BY <1>1, <1>2, <1>3, JudgedIs
<1>5. \A k \in 1..n : s.positions[k].at = ps[k].at
  BY <1>1, <1>2, <1>4
<1>6. PICK g : g = Agents(s.positions, s.queue, a.ids)
  OBVIOUS
<1>7. PICK P, q, ids : P = s.positions /\ q = s.queue /\ ids = a.ids
  OBVIOUS
<1>8. Len(g) = n /\ g \in Seq(AgentsOf(P, ids, n)) /\ \A k \in 1..n : g[k].id = ids[k] /\ g[k].at = P[k].at
  <2>1. q \in Int /\ DOMAIN P = 1..n /\ g = Agents(P, q, ids)
    BY ONLY <1>4, <1>6, <1>7
  <2> QED
    BY ONLY <2>1, n \in Nat, AgentsAre
<1>9. DOMAIN g = 1..n
  BY <1>8
<1>10. out'.agents = g /\ tracker' = a.tracker /\ seen' = Given(out'.agents, out'.n, w.cycle)
  <2>1. /\ out' = Prepared(Shot, roi'.version, a.ids, out.n + 1) /\ tracker' = a.tracker
        /\ seen' = Given(out'.agents, out'.n, w.cycle)
    BY DEF StartFrame
  <2> QED
    BY <1>1, <1>3, <1>6, <2>1 DEF Prepared
<1> QED
  BY <1>1, <1>5, <1>7, <1>8, <1>9, <1>10

Places(agents, n, id) == {agents[k].at : k \in {j \in 1..n : agents[j].id = id}}

\* Where a number was last given after a picture.
LEMMA GivenIs ==
  ASSUME NEW n \in Nat, NEW agents, DOMAIN agents = 1..n, NEW m, NEW c,
         \A j, k \in 1..n : agents[j].id = agents[k].id => j = k,
         NEW g, g = Given(agents, m, c)
  PROVE  /\ \A id \in DOMAIN g : id \in DOMAIN seen \/ \E k \in 1..n : agents[k].id = id
         /\ \A k \in 1..n : /\ agents[k].id \in DOMAIN g
                            /\ g[agents[k].id] = [n |-> m, at |-> agents[k].at, cycle |-> c]
         /\ \A id \in DOMAIN seen : (\A k \in 1..n : agents[k].id # id) => id \in DOMAIN g /\ g[id] = seen[id]
<1>1. DOMAIN g = DOMAIN seen \cup {agents[k].id : k \in 1..n}
  BY DEF Given
<1>2. \A id \in DOMAIN g :
        g[id] = IF Places(agents, n, id) = {} THEN seen[id]
                ELSE [n |-> m, at |-> CHOOSE p \in Places(agents, n, id) : TRUE, cycle |-> c]
  BY DEF Given, Places
<1>3. ASSUME NEW k \in 1..n
      PROVE  /\ agents[k].id \in DOMAIN g
             /\ g[agents[k].id] = [n |-> m, at |-> agents[k].at, cycle |-> c]
  <2>1. PICK id : id = agents[k].id
    OBVIOUS
  <2>2. id \in DOMAIN g
    BY <1>1, <2>1
  <2>3. {j \in 1..n : agents[j].id = id} = {k}
    BY <2>1
  <2>4. PICK at : at = Places(agents, n, id)
    OBVIOUS
  <2>5. at = {agents[k].at}
    BY <2>3, <2>4 DEF Places
  <2>6. g[id] = IF at = {} THEN seen[id] ELSE [n |-> m, at |-> CHOOSE p \in at : TRUE, cycle |-> c]
    BY <1>2, <2>2, <2>4
  <2>7. (CHOOSE p \in at : TRUE) = agents[k].at
    BY <2>5
  <2> QED
    BY <2>1, <2>2, <2>5, <2>6, <2>7
<1>4. ASSUME NEW id \in DOMAIN seen, \A k \in 1..n : agents[k].id # id
      PROVE  id \in DOMAIN g /\ g[id] = seen[id]
  <2>1. id \in DOMAIN g
    BY <1>1
  <2>2. PICK at : at = Places(agents, n, id)
    OBVIOUS
  <2>3. at = {}
    BY <1>4, <2>2 DEF Places
  <2>4. g[id] = IF at = {} THEN seen[id] ELSE [n |-> m, at |-> CHOOSE p \in at : TRUE, cycle |-> c]
    BY <1>2, <2>1, <2>2
  <2> QED
    BY <2>1, <2>3, <2>4
<1>5. \A id \in DOMAIN g : id \in DOMAIN seen \/ \E k \in 1..n : agents[k].id = id
  BY <1>1
<1> QED
  BY <1>3, <1>4, <1>5

\* Tracks and numbers after a frame.
LEMMA PeopleStart ==
  ASSUME TypeInv, PeopleInv, StartFrame PROVE PeopleInv'
<1>1. /\ footage' = footage /\ live' = live /\ w'.tick = w.tick /\ w'.cycle = w.cycle
  <2>1. PICK at : w' = [w EXCEPT !.at = at]
    BY DEF StartFrame
  <2> QED
    BY <2>1 DEF StartFrame, filmVars, TypeInv, Worker
<1>2. CASE live
  <2>1. tracker' = tracker /\ seen' = seen
    BY <1>2 DEF StartFrame
  <2> QED
    BY <1>1, <1>2, <2>1 DEF PeopleInv
<1>3. CASE ~ live
  <2>1. PICK a : a = Assign(tracker, Shot.positions)
    OBVIOUS
  <2>2. PICK ps : ps = Shot.positions
    OBVIOUS
  <2>3. ps \in Seq(Seen)
    BY <2>2, ShotIs
  <2>4. PICK n \in Nat : n = Len(ps)
    BY <2>3
  <2>5. /\ DOMAIN out'.agents = 1..n
        /\ \A k \in 1..n : out'.agents[k].id = a.ids[k] /\ out'.agents[k].at = ps[k].at
        /\ tracker' = a.tracker /\ seen' = Given(out'.agents, out'.n, w.cycle)
    BY <1>3, <2>1, <2>2, <2>4, PeopleSent
  <2>6. /\ tracker.next \in Nat \ {0} /\ Numbered(tracker.tracks, tracker.next)
        /\ DOMAIN seen \subseteq 1..(tracker.next - 1)
    BY DEF PeopleInv
  <2>7. /\ a.tracker.next \in Nat \ {0} /\ tracker.next <= a.tracker.next
        /\ a.tracker = [next |-> a.tracker.next, tracks |-> a.tracker.tracks]
        /\ Numbered(a.tracker.tracks, a.tracker.next)
        /\ a.ids \in [1..n -> 1..(a.tracker.next - 1)]
        /\ \A j, k \in 1..n : a.ids[j] = a.ids[k] => j = k
        /\ \A id \in DOMAIN a.tracker.tracks :
             /\ a.tracker.tracks[id].missed <= MaxMissed
             /\ Follows(tracker.tracks, ps, a.ids, id, a.tracker.tracks[id])
    <3>1. PICK tr : tr = tracker
      OBVIOUS
    <3>2. tr.next \in Nat \ {0} /\ Numbered(tr.tracks, tr.next) /\ a = Assign(tr, ps)
      BY <2>1, <2>2, <2>6, <3>1
    <3>3. Assigned(a, tr, ps)
      BY ONLY <2>3, <3>2, AssignIs
    <3> QED
      BY ONLY <2>4, <3>1, <3>3 DEF Assigned
  <2>8. PICK agents, m, g : agents = out'.agents /\ m = out'.n /\ g = seen'
    OBVIOUS
  <2>9. /\ \A id \in DOMAIN g : id \in DOMAIN seen \/ \E k \in 1..n : agents[k].id = id
        /\ \A k \in 1..n : /\ agents[k].id \in DOMAIN g
                           /\ g[agents[k].id] = [n |-> m, at |-> agents[k].at, cycle |-> w.cycle]
        /\ \A id \in DOMAIN seen : (\A k \in 1..n : agents[k].id # id) => id \in DOMAIN g /\ g[id] = seen[id]
    <3>1. PICK c : c = w.cycle
      OBVIOUS
    <3>2. g = Given(agents, m, c) /\ DOMAIN agents = 1..n
      BY <2>5, <2>8, <3>1
    <3>3. \A j, k \in 1..n : agents[j].id = agents[k].id => j = k
      BY <2>5, <2>7, <2>8
    <3> QED
      BY ONLY <3>1, <3>2, <3>3, n \in Nat, GivenIs
  <2>10. m = out.n + 1 /\ out.n \in Nat
    BY <2>8, FrameStarts DEF TypeInv
  <2>11. PICK next, tracks, ids : next = a.tracker.next /\ tracks = a.tracker.tracks /\ ids = a.ids
    OBVIOUS
  <2>12. DOMAIN g \subseteq 1..(next - 1)
    <3> SUFFICES ASSUME NEW id \in DOMAIN g PROVE id \in 1..(next - 1)
      OBVIOUS
    <3>1. CASE id \in DOMAIN seen
      <4>1. id \in 1..(tracker.next - 1)
        BY <2>6, <3>1
      <4> QED
        BY ONLY <4>1, <2>6, <2>7, <2>11
    <3>2. CASE id \notin DOMAIN seen
      <4>1. PICK k \in 1..n : agents[k].id = id
        BY <2>9, <3>2
      <4>2. id = ids[k]
        BY <2>5, <2>8, <2>11, <4>1
      <4> QED
        BY ONLY <2>7, <2>11, <4>1, <4>2
    <3> QED
      BY <3>1, <3>2
  <2>13. ASSUME NEW id \in DOMAIN tracks
         PROVE  /\ id \in DOMAIN g /\ g[id].n \in Nat
                /\ g[id].at = tracks[id].at /\ g[id].cycle = w.cycle
                /\ m - g[id].n = tracks[id].missed /\ tracks[id].missed <= MaxMissed
    <3>1. /\ tracks[id].missed <= MaxMissed
          /\ Follows(tracker.tracks, ps, ids, id, tracks[id])
      BY ONLY <2>7, <2>11, <2>13
    <3>2. CASE \E k \in 1..n : ids[k] = id
      <4>1. PICK k \in 1..n : ids[k] = id /\ tracks[id].at = ps[k].at /\ tracks[id].missed = 0
        BY <2>4, <3>1, <3>2 DEF Follows
      <4>2. agents[k].id = id /\ agents[k].at = ps[k].at
        BY <2>5, <2>8, <2>11, <4>1
      <4>3. id \in DOMAIN g /\ g[id] = [n |-> m, at |-> agents[k].at, cycle |-> w.cycle]
        BY ONLY <2>9, <4>1, <4>2
      <4> QED
        BY ONLY <2>10, <3>1, <4>1, <4>2, <4>3
    <3>3. CASE ~ \E k \in 1..n : ids[k] = id
      <4>1. /\ id \in DOMAIN tracker.tracks
            /\ tracks[id].at = tracker.tracks[id].at /\ tracks[id].missed = tracker.tracks[id].missed + 1
        BY <2>4, <3>1, <3>3 DEF Follows
      <4>2. /\ id \in DOMAIN seen /\ seen[id].n \in Nat
            /\ seen[id].at = tracker.tracks[id].at /\ seen[id].cycle = w.cycle
            /\ out.n - seen[id].n = tracker.tracks[id].missed
        BY <1>3, <4>1 DEF PeopleInv
      <4>3. \A k \in 1..n : agents[k].id # id
        BY <2>5, <2>8, <2>11, <3>3
      <4>4. id \in DOMAIN g /\ g[id] = seen[id]
        BY ONLY <2>9, <4>2, <4>3
      <4>5. PICK s : s = seen[id].n
        OBVIOUS
      <4>6. m - s = (out.n - s) + 1
        BY ONLY <2>10, <4>2, <4>5
      <4> QED
        BY ONLY <3>1, <4>1, <4>2, <4>4, <4>5, <4>6
    <3> QED
      BY <3>2, <3>3
  <2>14. /\ footage' \in Film /\ w'.tick \in 1..Len(footage')
    BY <1>1 DEF PeopleInv
  <2>15. /\ tracker'.next = next /\ tracker'.tracks = tracks /\ next \in Nat \ {0} /\ Numbered(tracks, next)
         /\ tracker' = [next |-> tracker'.next, tracks |-> tracker'.tracks]
    BY <2>5, <2>7, <2>11
  <2>16. ~ live' /\ w'.cycle = w.cycle
    BY <1>1, <1>3
  <2> QED
    BY ONLY <2>8, <2>12, <2>13, <2>14, <2>15, <2>16 DEF PeopleInv
<1> QED
  BY <1>2, <1>3

LEMMA PeopleSleep == ASSUME TypeInv, PeopleInv, Sleep PROVE PeopleInv'
<1>1. footage' = footage /\ live' = live /\ out' = out /\ seen' = seen
  BY DEF Sleep, filmVars
<1>2. CASE w.tick = Len(footage)
  <2>1. /\ w'.tick = 1 /\ tracker' = [tracker EXCEPT !.tracks = NoTracker.tracks]
    BY <1>2 DEF Sleep, TypeInv, Worker
  <2>2. tracker = [next |-> tracker.next, tracks |-> tracker.tracks]
    BY DEF PeopleInv
  <2>3. /\ tracker' = [next |-> tracker'.next, tracks |-> tracker'.tracks]
        /\ tracker'.next = tracker.next /\ tracker'.tracks = NoTracker.tracks
    BY ONLY <2>1, <2>2
  <2>4. 1 \in 1..Len(footage)
    BY <1>2 DEF PeopleInv
  <2> QED
    BY <1>1, <2>1, <2>3, <2>4, NoTracks DEF PeopleInv
<1>3. CASE w.tick # Len(footage)
  <2>1. w'.tick = w.tick + 1 /\ w'.cycle = w.cycle /\ tracker' = tracker
    BY <1>3 DEF Sleep, TypeInv, Worker
  <2>2. Len(footage) \in Nat /\ w.tick \in 1..Len(footage)
    <3>1. PICK R : R = [positions : Seq(Seen), queue : Nat, visible : Nat, raw : BOOLEAN]
      OBVIOUS
    <3>2. footage \in Seq(R)
      BY <3>1 DEF PeopleInv, Film
    <3> QED
      BY <3>2 DEF PeopleInv
  <2>3. w'.tick \in 1..Len(footage)
    BY ONLY <1>3, <2>1, <2>2
  <2> QED
    BY <1>1, <2>1, <2>3 DEF PeopleInv
<1> QED
  BY <1>2, <1>3

LEMMA PeopleRestart == ASSUME PeopleInv, WorkerRestarts PROVE PeopleInv'
<1>1. /\ footage' = footage /\ live' = live /\ w'.tick = 1
      /\ tracker' = NoTracker /\ seen' = NoTracker.tracks
  BY DEF WorkerRestarts, filmVars, Start
<1>2. /\ tracker'.next = 1 /\ tracker'.tracks = NoTracker.tracks
      /\ tracker' = [next |-> tracker'.next, tracks |-> tracker'.tracks]
  BY <1>1 DEF NoTracker
<1>3. 1 \in 1..Len(footage)
  BY DEF PeopleInv, Film
<1> QED
  BY <1>1, <1>2, <1>3, NoTracks DEF PeopleInv

\* No other step goes on to another picture, or numbers anybody.
LEMMA WorkersTick ==
  ASSUME TypeInv, NEW bare \in BOOLEAN, w' \in {w, Answered, Failed(bare)}
         \/ \E at, on : w' = [w EXCEPT !.at = at] \/ w' = [w EXCEPT !.on = on]
  PROVE  w'.tick = w.tick /\ w'.cycle = w.cycle
BY DEF TypeInv, Worker, Answered, Failed

LEMMA PeopleStep == ASSUME TypeInv, PeopleInv, [Next]_vars PROVE PeopleInv'
<1>1. CASE StartFrame
  BY <1>1, PeopleStart
<1>2. CASE Sleep
  BY <1>2, PeopleSleep
<1>3. CASE WorkerRestarts
  BY <1>3, PeopleRestart
<1>4. ASSUME footage' = footage, live' = live, tracker' = tracker, seen' = seen, out' = out,
             \E bare \in BOOLEAN : \/ w' \in {w, Answered, Failed(bare)}
                                   \/ \E on : w' = [w EXCEPT !.on = on]
      PROVE  PeopleInv'
  BY <1>4, WorkersTick, PeopleKept
<1>5. CASE Approve
  BY <1>4, <1>5 DEF Approve, filmVars, sendVars
<1>6. CASE Post
  BY <1>4, <1>6 DEF Post, filmVars, sendVars
<1>7. CASE PostRefused
  BY <1>4, <1>7 DEF PostRefused, filmVars, sendVars
<1>8. CASE PostTimesOut
  BY <1>4, <1>8 DEF PostTimesOut, filmVars, sendVars
<1>9. CASE ImageDone
  BY <1>4, <1>9 DEF ImageDone, filmVars, sendVars
<1>10. CASE ApiRestarts
  BY <1>4, <1>10 DEF ApiRestarts, filmVars, sendVars
<1>11. ASSUME NEW t \in Thread, StateDone(t) PROVE PeopleInv'
  BY <1>4, <1>11 DEF StateDone, filmVars, sendVars
<1>12. ASSUME NEW t \in Thread, OccupancyDone(t) PROVE PeopleInv'
  BY <1>4, <1>12 DEF OccupancyDone, filmVars, sendVars
<1>13. CASE Others \/ UNCHANGED vars
  BY <1>4, <1>13 DEF Others, workVars, vars
<1> QED
  BY <1>1, <1>2, <1>3, <1>5, <1>6, <1>7, <1>8, <1>9, <1>10, <1>11, <1>12, <1>13 DEF Next

LEMMA PeopleHold == Spec => [](TypeInv /\ PeopleInv)
<1>1. IInv => TypeInv
  BY DEF IInv
<1>2. Init => PeopleInv
  BY PeopleInit
<1>3. TypeInv /\ PeopleInv /\ [Next]_vars => PeopleInv'
  BY PeopleStep
<1> QED
  BY <1>1, <1>2, <1>3, InvHolds, PTL DEF Spec

\* Nobody shares a number in a picture, and who gets a number again is near the place
\* where it was last given, within the frames it may be missed, in the same run of the
\* film: for any film, any number of people and whatever fails.
THEOREM IdsFollow == Spec => IdsFollowPeople
<1>1. ASSUME TypeInv, PeopleInv, [Next]_vars, out' # out, ~ live
      PROVE  \A k \in DOMAIN out'.agents :
               LET b == out'.agents[k]
               IN  /\ \A j \in DOMAIN out'.agents : out'.agents[j].id = b.id => j = k
                   /\ b.id \in DOMAIN seen =>
                        /\ seen[b.id].cycle = w.cycle
                        /\ out'.n - seen[b.id].n <= MaxMissed + 1
                        /\ Far(b.at, seen[b.id].at) <= Square(MaxDistance)
  <2>0. StartFrame
    BY <1>1, OnlyStartFrameSends
  <2>1. PICK a, ps : a = Assign(tracker, Shot.positions) /\ ps = Shot.positions
    OBVIOUS
  <2>2. ps \in Seq(Seen)
    BY <1>1, <2>1, ShotIs
  <2>3. PICK n \in Nat : n = Len(ps)
    BY <2>2
  <2>4. /\ DOMAIN out'.agents = 1..n
        /\ \A k \in 1..n : out'.agents[k].id = a.ids[k] /\ out'.agents[k].at = ps[k].at
    BY <1>1, <2>0, <2>1, <2>3, PeopleSent
  <2>5. PICK next, tracks, ids : next = tracker.next /\ tracks = tracker.tracks /\ ids = a.ids
    OBVIOUS
  <2>6. next \in Nat \ {0} /\ Numbered(tracks, next) /\ DOMAIN seen \subseteq 1..(next - 1)
    BY <1>1, <2>5 DEF PeopleInv
  <2>7. /\ \A j, k \in 1..n : ids[j] = ids[k] => j = k
        /\ \A k \in 1..n :
             \/ ids[k] >= next
             \/ ids[k] \in DOMAIN tracks /\ Far(ps[k].at, tracks[ids[k]].at) <= Square(MaxDistance)
    <3>1. PICK tr : tr = tracker
      OBVIOUS
    <3>2. tr.next \in Nat \ {0} /\ Numbered(tr.tracks, tr.next) /\ a = Assign(tr, ps)
      BY <2>1, <2>5, <2>6, <3>1
    <3>3. Assigned(a, tr, ps)
      BY ONLY <2>2, <3>2, AssignIs
    <3>4. tr.next = next /\ tr.tracks = tracks /\ a.ids = ids /\ Len(ps) = n
      BY ONLY <2>3, <2>5, <3>1
    <3> QED
      BY ONLY <3>3, <3>4 DEF Assigned
  <2>8. out'.n = out.n + 1 /\ out.n \in Nat
    BY <1>1, <2>0, FrameStarts DEF TypeInv
  <2>9. PICK agents, m : agents = out'.agents /\ m = out'.n
    OBVIOUS
  <2>10. ASSUME NEW k \in 1..n
         PROVE  /\ \A j \in 1..n : agents[j].id = agents[k].id => j = k
                /\ agents[k].id \in DOMAIN seen =>
                     /\ seen[agents[k].id].cycle = w.cycle
                     /\ m - seen[agents[k].id].n <= MaxMissed + 1
                     /\ Far(agents[k].at, seen[agents[k].id].at) <= Square(MaxDistance)
    <3>1. \A j \in 1..n : agents[j].id = agents[k].id => j = k
      BY <2>4, <2>5, <2>7, <2>9
    <3>2. PICK id : id = agents[k].id
      OBVIOUS
    <3>3. id = ids[k] /\ agents[k].at = ps[k].at
      BY <2>4, <2>5, <2>9, <3>2
    <3>4. ASSUME id \in DOMAIN seen
          PROVE  /\ seen[id].cycle = w.cycle /\ m - seen[id].n <= MaxMissed + 1
                 /\ Far(agents[k].at, seen[id].at) <= Square(MaxDistance)
      <4>1. id \in 1..(next - 1)
        BY <2>6, <3>4
      <4>2. ~ (id >= next)
        BY ONLY <2>6, <4>1
      <4>3. id \in DOMAIN tracks /\ Far(ps[k].at, tracks[id].at) <= Square(MaxDistance)
        BY ONLY <2>7, <2>10, <3>3, <4>2
      <4>4. /\ seen[id].at = tracks[id].at /\ seen[id].cycle = w.cycle /\ seen[id].n \in Nat
            /\ out.n - seen[id].n = tracks[id].missed /\ tracks[id].missed <= MaxMissed
        BY <1>1, <2>5, <4>3 DEF PeopleInv
      <4>5. PICK s, f : s = seen[id].n /\ f = tracks[id].missed
        OBVIOUS
      <4>6. m = out.n + 1 /\ out.n \in Nat /\ s \in Nat /\ out.n - s = f /\ f <= MaxMissed /\ MaxMissed \in Nat
        BY <2>8, <2>9, <4>4, <4>5, FeedAssumption
      <4>7. m - s <= MaxMissed + 1
        BY ONLY <4>6
      <4> QED
        BY <3>3, <4>3, <4>4, <4>5, <4>7
    <3> QED
      BY ONLY <3>1, <3>2, <3>4
  <2> QED
    BY <2>4, <2>9, <2>10
<1> QED
  BY <1>1, PeopleHold, PTL DEF Spec, IdsFollowPeople
=============================================================================
