------------------------- MODULE OrderEvents_proofs -------------------------
(***************************************************************************)
(* The log of the simulator's orders and the status a customer is told,    *)
(* for any number of orders, attempts and lost calls.  The inductive       *)
(* invariant says that the rows of an order are numbered by their statuses *)
(* (LogInv), which calls may still be on their way and with what time      *)
(* (CallInv), and that the time of a task's event is the latest (TimeInv). *)
(* From it: the figures follow the log.  A sum over a set is the size of a *)
(* set of pairs, whichever element the fold takes first (SumIs); pairs of  *)
(* an order and an instant at which it waits are the active time, summed   *)
(* by orders, by instants or by buckets.  The changes of a period come     *)
(* sorted (SortedIs), and after each of them those are counted who wait at *)
(* one instant (HereWaits, WaitersHere): the peak of the sweep is the      *)
(* largest of these counts.                                                *)
(***************************************************************************)
EXTENDS OrderSummaries, FiniteSetTheorems, SequenceTheorems, WellFoundedInduction, TLAPS

Phases == {"none", "sleeping", "sending", "backoff"} \cup Ended
EventRow == [order : Order \cup TillOrder, status : {Transitions[s] : s \in Steps} \cup Terminal,
             at : Time, created : Nat \ {0}]
TaskRecord == [phase : Phases, step : Steps, at : Time, attempt : 1..MaxAttempts]
CallRecord == [order : Order, step : Steps, at : Time, attempt : 1..MaxAttempts,
               phase : {"reading", "inserting", "answered"}]

Count(o) == Cardinality(Log(o))

\* The rows of an order have the numbers of their statuses, from the first without a gap.
LogInv ==
  /\ IsFiniteSet(rows)
  /\ \A o \in Order :
       /\ \A e \in Log(o) : e.created \in Steps /\ e.created <= Count(o) /\ e.status = Transitions[e.created]
       /\ \A s \in 1..Count(o) : \E e \in Log(o) : e.created = s
       /\ \A d, e \in Log(o) : d.created = e.created => d = e

\* What is confirmed is in the log, and one status more at most.
CountInv == \A o \in Order : Confirmed(o) <= Count(o) /\ Count(o) <= Confirmed(o) + 1

\* A row is no later than a row after it, or than the task's event.
TimeInv ==
  \A o \in Order :
    /\ task[o].at <= clock
    /\ \A e \in Log(o) : e.at <= task[o].at
    /\ \A d, e \in Log(o) : d.created <= e.created => d.at <= e.at

\* No call is ahead of its task; one for the task's own event has its time; one that is
\* answered is in the log.
CallInv ==
  \A r \in requests :
    /\ r.step <= task[r.order].step
    /\ r.step = task[r.order].step => task[r.order].phase \notin {"none", "sleeping"} /\ r.at = task[r.order].at
    /\ r.phase = "answered" => r.step <= Count(r.order)

\* A task that is about to try again has an attempt left; one that has not begun is at the first status.
TaskInv ==
  \A o \in Order : /\ task[o].phase = "backoff" => task[o].attempt < MaxAttempts
                   /\ task[o].phase = "none" => task[o].step = 1

\* A status whose event takes time: only ready may come at once.
Apart(s, q) == s < q /\ ~(s = 2 /\ q = 3)

\* The call of a task's status has been made, or will be made again.
Called(o) == task[o].phase \in {"sending", "backoff"} \/ \E r \in requests : r.order = o /\ r.step = task[o].step

\* Rows whose statuses are apart are of different times, also from the event on its way.
SpaceInv ==
  \A o \in Order :
    /\ \A d, e \in Log(o) : Apart(d.created, e.created) => d.at < e.at
    /\ Called(o) => \A e \in Log(o) : Apart(e.created, task[o].step) => e.at < task[o].at

\* The till posts the reception of an order once.
TillInv == \A o \in TillOrder : \A d, e \in WithStatus(Log(o), {"received"}) : d = e

IInv == TypeOK /\ LogInv /\ CountInv /\ TimeInv /\ CallInv /\ TaskInv /\ SpaceInv /\ TillInv
-----------------------------------------------------------------------------
(* The log of an order *)

LEMMA StatusNumbers == \A s, q \in Steps : Transitions[s] = Transitions[q] => s = q
BY DEF Transitions, Steps

LEMMA LogCounts ==
  ASSUME LogInv, NEW o \in Order PROVE IsFiniteSet(Log(o)) /\ Count(o) \in Nat /\ Count(o) <= 4
<1>1. IsFiniteSet(Log(o))
  BY FS_Subset DEF LogInv, Log, EventsOf
<1>2. Count(o) \in Nat
  BY <1>1, FS_CardinalityType DEF Count
<1>3. Count(o) <= 4
  <2> SUFFICES ASSUME Count(o) > 4 PROVE FALSE
    BY <1>2
  <2>1. Count(o) \in 1..Count(o)
    BY <1>2
  <2>2. PICK e \in Log(o) : e.created = Count(o)
    BY <2>1 DEF LogInv
  <2>3. e.created \in Steps
    BY DEF LogInv
  <2> QED
    BY <1>2, <2>2, <2>3 DEF Steps
<1> QED
  BY <1>1, <1>2, <1>3

\* A status is known if its number is not above the rows of its order.
LEMMA KnownByNumber ==
  ASSUME LogInv, NEW r \in CallRecord
  PROVE  Known(r) <=> r.step <= Count(r.order)
<1>1. r.order \in Order /\ r.step \in Steps
  BY DEF CallRecord
<1>2. Count(r.order) \in Nat
  BY <1>1, LogCounts
<1>3. ASSUME Known(r) PROVE r.step <= Count(r.order)
  <2>1. PICK e \in Log(r.order) : e.status = Transitions[r.step]
    BY <1>3 DEF Known, Log, EventsOf
  <2>2. e.created \in Steps /\ e.created <= Count(r.order) /\ e.status = Transitions[e.created]
    BY <1>1 DEF LogInv
  <2>3. e.created = r.step
    BY <1>1, <2>1, <2>2, StatusNumbers
  <2> QED
    BY <2>2, <2>3
<1>4. ASSUME r.step <= Count(r.order) PROVE Known(r)
  <2>1. r.step \in 1..Count(r.order)
    BY <1>1, <1>2, <1>4 DEF Steps
  <2>2. PICK e \in Log(r.order) : e.created = r.step
    BY <1>1, <2>1 DEF LogInv
  <2>3. e.status = Transitions[r.step] /\ e \in rows /\ e.order = r.order
    BY <1>1, <2>2 DEF LogInv, Log, EventsOf
  <2> QED
    BY <2>3 DEF Known
<1> QED
  BY <1>3, <1>4

\* The numbers of the rows are the numbers of the statuses.
LEMMA StoredNumbers ==
  ASSUME LogInv, NEW o \in Order
  PROVE  /\ \A e \in Log(o) : StepOf(e) = e.created
         /\ Stored(o) = 1..Count(o)
<1>1. ASSUME NEW e \in Log(o) PROVE StepOf(e) = e.created
  <2>1. e.created \in Steps /\ Transitions[e.created] = e.status
    BY DEF LogInv
  <2> QED
    BY <2>1, StatusNumbers DEF StepOf
<1>2. \A e \in Log(o) : e.created \in 1..Count(o)
  BY LogCounts DEF LogInv, Steps
<1>3. \A n \in 1..Count(o) : \E e \in Log(o) : e.created = n
  BY DEF LogInv
<1> QED
  BY <1>1, <1>2, <1>3 DEF Stored

\* The status a customer is told is the last of the log.
LEMMA LatestIsLast ==
  ASSUME LogInv, TimeInv, TypeOK, NEW o \in Order PROVE LatestStep(o) = Count(o)
<1>1. IsFiniteSet(Log(o)) /\ Count(o) \in Nat
  BY LogCounts
<1>2. CASE Log(o) = {}
  BY <1>2, FS_EmptySet DEF LatestStep, Count
<1>3. CASE Log(o) # {}
  <2>1. Count(o) # 0
    BY <1>1, <1>3, FS_EmptySet DEF Count
  <2>2. PICK l \in Log(o) : l.created = Count(o)
    BY <1>1, <2>1 DEF LogInv
  <2>3. \A e \in Log(o) : e.at \in Nat /\ e.created \in Nat /\ e.created <= Count(o)
    BY ConstantsAssumption DEF LogInv, TypeOK, Log, EventsOf, Time, Steps
  <2>4. \A f \in Log(o) : f.at < l.at \/ (f.at = l.at /\ f.created <= l.created)
    BY <2>2, <2>3 DEF TimeInv
  <2>5. ASSUME NEW e \in Log(o), \A f \in Log(o) : f.at < e.at \/ (f.at = e.at /\ f.created <= e.created)
        PROVE  e = l
    <3>1. l.at < e.at \/ (l.at = e.at /\ l.created <= e.created)
      BY <2>5
    <3>2. e.at <= l.at
      BY <2>2, <2>3 DEF TimeInv
    <3>3. e.created = l.created
      BY <2>2, <2>3, <3>1, <3>2
    <3> QED
      BY <3>3 DEF LogInv
  <2>6. Latest(o) = l
    BY <2>4, <2>5 DEF Latest
  <2> QED
    BY <1>3, <2>2, <2>6, StoredNumbers DEF LatestStep
<1> QED
  BY <1>2, <1>3

-----------------------------------------------------------------------------
(* Steps of the API *)

LEMMA PhaseField ==
  ASSUME NEW r \in CallRecord, NEW p \in {"inserting", "answered"}
  PROVE  LET q == [r EXCEPT !.phase = p]
         IN  q \in CallRecord /\ q.phase = p /\ q.order = r.order /\ q.step = r.step /\ q.at = r.at
             /\ q.attempt = r.attempt
BY DEF CallRecord

LEMMA ReadEventStep == ASSUME IInv, NEW r \in requests, ReadEvent(r) PROVE IInv'
<1>1. requests \subseteq CallRecord /\ r \in CallRecord
  BY DEF IInv, TypeOK, CallRecord
<1>2. UNCHANGED <<clock, rows, task, simulator, faults, posted>>
  BY DEF ReadEvent
<1>3. \A q \in requests' : \/ q \in requests
                           \/ /\ q \in CallRecord /\ q.order = r.order /\ q.step = r.step /\ q.at = r.at
                              /\ q.phase = "answered" => r.step <= Count(r.order)
  BY <1>1, PhaseField, KnownByNumber, ZenonT(30) DEF ReadEvent, Answer, IInv
<1>4. TypeOK'
  BY <1>1, <1>2, <1>3 DEF IInv, TypeOK, CallRecord
<1>5. CallInv'
  BY <1>1, <1>2, <1>3 DEF IInv, CallInv, Count, Log
<1>6. SpaceInv'
  <2>1. \A o \in Order : Called(o)' => Called(o)
    BY <1>2, <1>3 DEF Called
  <2> QED
    BY <1>2, <2>1 DEF IInv, SpaceInv, Log
<1> QED
  BY <1>2, <1>4, <1>5, <1>6 DEF IInv, LogInv, CountInv, TimeInv, TaskInv, TillInv, Count, Log, Confirmed

\* A row joins the log of order o.
LEMMA LogGrows ==
  ASSUME LogInv, NEW row, rows' = rows \cup {row}
  PROVE  \A o : Log(o)' = IF row.order = o THEN Log(o) \cup {row} ELSE Log(o)
BY DEF Log, EventsOf

LEMMA CommitEventStep == ASSUME IInv, NEW r \in requests, CommitEvent(r) PROVE IInv'
<1>1. requests \subseteq CallRecord /\ r \in CallRecord
  BY DEF IInv, TypeOK, CallRecord
<1>2. UNCHANGED <<clock, task, simulator, faults, posted>>
  BY DEF CommitEvent
<1>3. \A q \in requests' : \/ q \in requests
                           \/ /\ q \in CallRecord /\ q.order = r.order /\ q.step = r.step /\ q.at = r.at
  BY <1>1, PhaseField DEF CommitEvent, Answer
<1>o. PICK o \in Order : o = r.order
  BY <1>1 DEF CallRecord
<1>c. \A x \in Order : Called(x)' => Called(x)
  BY <1>2, <1>3 DEF Called
<1>4. LogInv /\ Count(o) \in Nat /\ r.step \in Nat /\ IsFiniteSet(Log(o))
  BY <1>1, LogCounts DEF IInv, CallRecord, Steps
<1>5. CASE Known(r)
  <2>1. rows' = rows /\ r.step <= Count(r.order)
    BY <1>1, <1>4, <1>5, KnownByNumber DEF CommitEvent
  <2>2. TypeOK'
    BY <1>1, <1>2, <1>3, <2>1 DEF IInv, TypeOK, CallRecord
  <2>3. CallInv'
    BY <1>1, <1>2, <1>3, <2>1 DEF IInv, CallInv, Count, Log
  <2>4. SpaceInv'
    BY <1>2, <1>c, <2>1 DEF IInv, SpaceInv, Log
  <2> QED
    BY <1>2, <2>1, <2>2, <2>3, <2>4 DEF IInv, LogInv, CountInv, TimeInv, TaskInv, TillInv, Count, Log, Confirmed
<1>6. CASE ~Known(r)
  <2>r. PICK row : row = Row(o, Transitions[r.step], r.at)
    OBVIOUS
  <2>1. rows' = rows \cup {row}
    BY <1>6, <1>o, <2>r DEF CommitEvent
  <2>2. r.step > Count(o)
    BY <1>1, <1>4, <1>6, <1>o, KnownByNumber
  <2>3. r.step = Count(o) + 1 /\ r.at = task[o].at /\ Confirmed(o) = Count(o) /\ Count(o) < 4
    <3>1. r.step \in Steps /\ task[o].step \in Steps /\ r.step <= task[o].step
      BY <1>1, <1>o DEF IInv, TypeOK, CallRecord, CallInv
    <3>2. r.step = task[o].step => task[o].phase # "none" /\ r.at = task[o].at
      BY <1>o DEF IInv, CallInv
    <3>3. task[o].phase = "none" => task[o].step = 1
      BY DEF IInv, TaskInv
    <3>4. Confirmed(o) <= Count(o)
      BY DEF IInv, CountInv
    <3>5. task[o].phase # "none"
      BY <3>1, <3>2, <3>3 DEF Steps
    <3>6. Confirmed(o) = IF task[o].phase = "done" THEN 4 ELSE task[o].step - 1
      BY <3>5 DEF Confirmed
    <3> QED
      BY <1>4, <2>2, <3>1, <3>2, <3>4, <3>6 DEF Steps
  <2>14. Called(o) /\ r.step = task[o].step
    <3>1. r.step \in Nat /\ task[o].step \in Nat /\ r.step <= task[o].step
      BY <1>1, <1>o DEF IInv, TypeOK, CallRecord, CallInv, Steps
    <3>2. task[o].phase = "none" => task[o].step = 1
      BY DEF IInv, TaskInv
    <3>3. task[o].phase = "none" => r.step # task[o].step
      BY <1>o DEF IInv, CallInv
    <3>4. Confirmed(o) = Count(o) /\ r.step = Count(o) + 1 /\ Count(o) < 4
      BY <2>3
    <3>5. Confirmed(o) = CASE task[o].phase = "none" -> 0 [] task[o].phase = "done" -> 4 [] OTHER -> task[o].step - 1
      BY DEF Confirmed
    <3>6. r.step = task[o].step
      BY <1>4, <3>1, <3>2, <3>3, <3>4, <3>5
    <3> QED
      BY <1>o, <3>6 DEF Called
  <2>4. row.order = o /\ row.status = Transitions[r.step] /\ row.at = r.at /\ row.created = r.step
    BY <2>r, <2>3 DEF Row, Count
  <2>5. row \in EventRow
    BY <1>1, <2>r, <2>3 DEF Row, Count, EventRow, CallRecord, Steps
  <2>6. Log(o)' = Log(o) \cup {row} /\ \A x : x # o => Log(x)' = Log(x)
    BY <1>4, <2>1, <2>4, LogGrows
  <2>7. row \notin Log(o)
    BY <1>4, <2>2, <2>4 DEF LogInv
  <2>8. Count(o)' = Count(o) + 1 /\ \A x : x # o => Count(x)' = Count(x)
    <3>1. Cardinality(Log(o) \cup {row}) = Cardinality(Log(o)) + 1
      BY <1>4, <2>7, FS_AddElement
    <3> QED
      BY <2>6, <3>1 DEF Count
  <2>9. TypeOK'
    BY <1>1, <1>2, <1>3, <2>1, <2>5 DEF IInv, TypeOK, CallRecord, EventRow
  <2>10. LogInv'
    <3>1. IsFiniteSet(rows')
      BY <1>4, <2>1, FS_AddElement DEF LogInv
    <3>2. ASSUME NEW x \in Order
          PROVE  /\ \A e \in Log(x)' : e.created \in Steps /\ e.created <= Count(x)' /\ e.status = Transitions[e.created]
                 /\ \A n \in 1..Count(x)' : \E e \in Log(x)' : e.created = n
                 /\ \A d, e \in Log(x)' : d.created = e.created => d = e
      <4>1. CASE x # o
        BY <1>4, <2>6, <2>8, <4>1 DEF LogInv
      <4>2. CASE x = o
        <5>1. \A e \in Log(o)' : e.created \in Steps /\ e.created <= Count(o) + 1 /\ e.status = Transitions[e.created]
          BY <1>1, <1>4, <2>3, <2>4, <2>6 DEF LogInv, CallRecord, Steps
        <5>2. \A n \in 1..Count(o) + 1 : \E e \in Log(o)' : e.created = n
          BY <1>4, <2>3, <2>4, <2>6 DEF LogInv
        <5>3. \A d, e \in Log(o)' : d.created = e.created => d = e
          BY <1>4, <2>2, <2>4, <2>6 DEF LogInv
        <5> QED
          BY <2>8, <4>2, <5>1, <5>2, <5>3
      <4> QED
        BY <4>1, <4>2
    <3> QED
      BY <3>1, <3>2 DEF LogInv
  <2>11. CountInv'
    BY <1>2, <1>4, <2>3, <2>8 DEF IInv, CountInv, Confirmed
  <2>12. TimeInv'
    <3>1. ASSUME NEW x \in Order
          PROVE  /\ \A e \in Log(x)' : e.at <= task[x].at
                 /\ \A d, e \in Log(x)' : d.created <= e.created => d.at <= e.at
      <4>1. CASE x # o
        BY <2>6, <4>1 DEF IInv, TimeInv
      <4>2. CASE x = o
        <5>1. task[o].at \in Nat
          BY ConstantsAssumption DEF IInv, TypeOK, Time
        <5>2. \A e \in Log(o) : e.at <= task[o].at /\ e.created \in Nat /\ e.created < row.created
          BY <1>4, <2>3, <2>4 DEF IInv, TimeInv, LogInv, Steps
        <5>3. row.created \in Nat /\ row.at = task[o].at
          BY <1>4, <2>3, <2>4
        <5> QED
          BY <2>6, <4>2, <5>1, <5>2, <5>3 DEF IInv, TimeInv
      <4> QED
        BY <4>1, <4>2
    <3> QED
      BY <1>2, <3>1 DEF IInv, TimeInv
  <2>13. CallInv'
    <3> SUFFICES ASSUME NEW q \in requests'
                 PROVE  /\ q.step <= task[q.order].step
                        /\ q.step = task[q.order].step =>
                             task[q.order].phase \notin {"none", "sleeping"} /\ q.at = task[q.order].at
                        /\ q.phase = "answered" => q.step <= Count(q.order)'
      BY <1>2 DEF CallInv, Count, Log
    <3>1. CASE q \in requests
      <4>1. q.order \in Order /\ q.step \in Nat
        BY <1>1, <3>1 DEF CallRecord, Steps
      <4>2. Count(q.order) \in Nat /\ Count(q.order) <= Count(q.order)' /\ Count(q.order)' \in Nat
        <5>1. Count(q.order) \in Nat
          BY <1>4, <4>1, LogCounts
        <5> QED
          BY <2>8, <5>1
      <4> QED
        BY <3>1, <4>1, <4>2 DEF IInv, CallInv
    <3>2. CASE q.order = o /\ q.step = r.step /\ q.at = r.at
      BY <1>4, <1>o, <2>3, <2>8, <3>2 DEF IInv, CallInv
    <3> QED
      BY <1>3, <1>o, <3>1, <3>2
  <2>15. SpaceInv'
    <3>1. \A e \in Log(o) : e.created \in Nat /\ e.created < row.created /\ row.created \in Nat
      BY <1>4, <2>3, <2>4 DEF LogInv, Steps
    <3>2. \A e \in Log(o) : Apart(e.created, row.created) => e.at < row.at
      BY <2>3, <2>4, <2>14 DEF IInv, SpaceInv
    <3>3. ~Apart(row.created, row.created) /\ \A e \in Log(o) : ~Apart(row.created, e.created)
      BY <1>4, <2>3, <2>4, <3>1 DEF Apart
    <3>4. ~Apart(row.created, task[o].step)
      BY <1>4, <2>3, <2>4, <2>14 DEF Apart
    <3>5. \A d, e \in Log(o)' : Apart(d.created, e.created) => d.at < e.at
      BY <2>6, <3>2, <3>3 DEF IInv, SpaceInv
    <3>6. \A e \in Log(o)' : Apart(e.created, task[o].step) => e.at < task[o].at
      BY <2>6, <2>14, <3>4 DEF IInv, SpaceInv
    <3> QED
      BY <1>2, <1>c, <2>6, <3>5, <3>6 DEF IInv, SpaceInv
  <2>16. TillInv'
    <3>1. \A x \in TillOrder : x # o
      BY ConstantsAssumption
    <3> QED
      BY <2>6, <3>1 DEF IInv, TillInv
  <2> QED
    BY <1>2, <2>9, <2>10, <2>11, <2>12, <2>13, <2>15, <2>16 DEF IInv, TaskInv
<1> QED
  BY <1>5, <1>6

LEMMA PostTillStep ==
  ASSUME IInv, NEW o \in TillOrder, NEW status \in {"received", "cancelled"}, NEW at \in 0..clock, PostTill(o, status, at)
  PROVE  IInv'
<1>1. PICK row : row = Row(o, status, at)
  OBVIOUS
<1>2. /\ rows' = rows \cup {row} /\ posted < MaxTill /\ posted' = posted + 1
      /\ UNCHANGED <<clock, task, requests, simulator, faults>>
  BY <1>1 DEF PostTill
<1>3. row.order = o /\ o \notin Order
  BY <1>1, ConstantsAssumption DEF Row
<1>4. \A x \in Order : Log(x)' = Log(x)
  BY <1>2, <1>3, LogGrows DEF IInv
<1>5. row \in EventRow
  <2>1. Cardinality(Log(o)) \in Nat
    BY FS_Subset, FS_CardinalityType DEF IInv, LogInv, Log, EventsOf
  <2>2. status \in {Transitions[s] : s \in Steps} \cup Terminal
    BY DEF Transitions, Steps, Terminal
  <2>3. at \in Time
    BY ConstantsAssumption DEF IInv, TypeOK, Time
  <2> QED
    BY <1>1, <2>1, <2>2, <2>3 DEF Row, EventRow
<1>6. TypeOK'
  <2>1. posted' \in 0..MaxTill
    BY <1>2, ConstantsAssumption DEF IInv, TypeOK
  <2> QED
    BY <1>2, <1>5, <2>1 DEF IInv, TypeOK, EventRow
<1>7. LogInv'
  <2>1. IsFiniteSet(rows')
    BY <1>2, FS_AddElement DEF IInv, LogInv
  <2> QED
    BY <1>4, <2>1 DEF IInv, LogInv, Count
<1>8. CallInv'
  BY <1>2, <1>4 DEF IInv, TypeOK, CallInv, Count
<1>9. SpaceInv'
  BY <1>2, <1>4 DEF IInv, SpaceInv, Called
<1>10. TillInv'
  <2>1. \A x : Log(x)' = IF x = o THEN Log(o) \cup {row} ELSE Log(x)
    BY <1>2, <1>3, LogGrows DEF IInv
  <2>2. row.status = status /\ (status = "received" <=> Log(o) = {})
    BY <1>1 DEF Row, PostTill
  <2> QED
    BY <2>1, <2>2 DEF IInv, TillInv, WithStatus
<1> QED
  BY <1>2, <1>4, <1>6, <1>7, <1>8, <1>9, <1>10 DEF IInv, CountInv, TimeInv, TaskInv, Count, Confirmed

-----------------------------------------------------------------------------
(* Steps of a task *)

\* A task that has become t calls, or has called.
MayCall(o, t) == t.phase \in {"sending", "backoff"} \/ \E q \in requests : q.order = o /\ q.step = t.step

\* Task o becomes t, and may have a new call for its event.
TaskMoves(o, t) ==
  /\ task' = [task EXCEPT ![o] = t]
  /\ UNCHANGED <<clock, rows, simulator, posted>>
  /\ faults' \in 0..MaxFaults
  /\ \A q \in requests' : q \in requests \/ /\ q \in CallRecord /\ q.order = o /\ q.step = t.step /\ q.at = t.at
                                            /\ q.phase = "reading" /\ t.phase = "sending"
  /\ \A q \in requests : q.order = o => /\ q.step <= t.step
                                        /\ q.step = t.step => t.phase \notin {"none", "sleeping"} /\ q.at = t.at
  /\ task[o].at <= t.at
  /\ t.at <= clock
  /\ t.phase = "backoff" => t.attempt < MaxAttempts
  /\ t.phase # "none"
  /\ t.phase = "done" => Count(o) = 4
  /\ t.phase # "done" => t.step - 1 <= Count(o) /\ Count(o) <= t.step
  /\ MayCall(o, t) => \A e \in Log(o) : Apart(e.created, t.step) => e.at < t.at

LEMMA TaskStep == ASSUME IInv, NEW o \in Order, NEW t \in TaskRecord, TaskMoves(o, t) PROVE IInv'
<1>m. /\ task' = [task EXCEPT ![o] = t]
      /\ UNCHANGED <<clock, rows, simulator, posted>>
      /\ faults' \in 0..MaxFaults
      /\ \A q \in requests' : q \in requests \/ /\ q \in CallRecord /\ q.order = o /\ q.step = t.step /\ q.at = t.at
                                                /\ q.phase = "reading" /\ t.phase = "sending"
      /\ \A q \in requests : q.order = o => /\ q.step <= t.step
                                            /\ q.step = t.step => t.phase \notin {"none", "sleeping"} /\ q.at = t.at
      /\ task[o].at <= t.at
      /\ t.at <= clock
      /\ t.phase = "backoff" => t.attempt < MaxAttempts
      /\ t.phase # "none"
      /\ t.phase = "done" => Count(o) = 4
      /\ t.phase # "done" => t.step - 1 <= Count(o) /\ Count(o) <= t.step
      /\ MayCall(o, t) => \A e \in Log(o) : Apart(e.created, t.step) => e.at < t.at
  BY DEF TaskMoves
<1>1. task \in [Order -> TaskRecord]
  BY DEF IInv, TypeOK, TaskRecord, Phases
<1>2. task' \in [Order -> TaskRecord] /\ task'[o] = t /\ \A x \in Order : x # o => task'[x] = task[x]
  BY <1>1, <1>m
<1>3. \A x : Log(x)' = Log(x) /\ Count(x)' = Count(x)
  BY <1>m DEF Log, Count
<1>4. TypeOK'
  BY <1>2, <1>m DEF IInv, TypeOK, TaskRecord, Phases, CallRecord
<1>5. LogInv'
  BY <1>3, <1>m DEF IInv, LogInv
<1>6. CountInv'
  <2>1. Confirmed(o)' = IF t.phase = "done" THEN 4 ELSE t.step - 1
    BY <1>2, <1>m DEF Confirmed
  <2>2. \A x \in Order : x # o => Confirmed(x)' = Confirmed(x)
    BY <1>2, <1>m DEF Confirmed
  <2>3. Count(o) \in Nat /\ t.step \in Nat
    BY LogCounts DEF IInv, TaskRecord, Steps
  <2> QED
    BY <1>3, <1>m, <2>1, <2>2, <2>3 DEF IInv, CountInv
<1>7. TimeInv'
  <2>1. task[o].at \in Nat /\ t.at \in Nat /\ \A e \in Log(o) : e.at \in Nat
    BY <1>1 DEF TaskRecord, Time, IInv, TypeOK, Log, EventsOf
  <2> QED
    BY <1>2, <1>m, <1>3, <2>1 DEF IInv, TimeInv
<1>8. CallInv'
  <2> SUFFICES ASSUME NEW q \in requests'
               PROVE  /\ q.step <= task'[q.order].step
                      /\ q.step = task'[q.order].step =>
                           task'[q.order].phase \notin {"none", "sleeping"} /\ q.at = task'[q.order].at
                      /\ q.phase = "answered" => q.step <= Count(q.order)
    BY <1>3, <1>m DEF CallInv
  <2>1. CASE q \in requests
    <3>1. q.order \in Order
      BY <2>1 DEF IInv, TypeOK
    <3> QED
      BY <1>2, <1>m, <2>1, <3>1 DEF IInv, CallInv
  <2>2. CASE q \in CallRecord /\ q.order = o /\ q.step = t.step /\ q.at = t.at /\ q.phase = "reading" /\ t.phase = "sending"
    BY <1>2, <1>m, <2>2 DEF TaskRecord, Steps
  <2> QED
    BY <1>m, <2>1, <2>2
<1>9. TaskInv'
  BY <1>2, <1>m DEF IInv, TaskInv
<1>10. SpaceInv'
  <2>1. Called(o)' => MayCall(o, t)
    BY <1>2, <1>m DEF Called, MayCall
  <2>2. \A x \in Order : x # o /\ Called(x)' => Called(x)
    BY <1>2, <1>m DEF Called
  <2> QED
    BY <1>2, <1>3, <1>m, <2>1, <2>2 DEF IInv, SpaceInv
<1>11. TillInv'
  BY <1>3 DEF IInv, TillInv
<1> QED
  BY <1>4, <1>5, <1>6, <1>7, <1>8, <1>9, <1>10, <1>11 DEF IInv

\* What the invariant says of one task.
LEMMA TaskFacts ==
  ASSUME IInv, NEW o \in Order
  PROVE  /\ task[o] \in TaskRecord /\ Count(o) \in Nat /\ task[o].at \in Nat /\ clock \in Nat /\ faults \in 0..MaxFaults
         /\ task[o].at <= clock
         /\ task[o].phase \notin {"none", "done"} => task[o].step - 1 <= Count(o) /\ Count(o) <= task[o].step
         /\ \A q \in requests : q.order = o =>
              /\ q.step \in Steps /\ q.step <= task[o].step
              /\ q.step = task[o].step => task[o].phase \notin {"none", "sleeping"} /\ q.at = task[o].at
              /\ q.phase = "answered" => q.step <= Count(o)
<1>1. task[o] \in TaskRecord /\ clock \in Nat /\ faults \in 0..MaxFaults
  BY DEF IInv, TypeOK, TaskRecord, Phases, Time
<1>2. Count(o) \in Nat
  BY LogCounts DEF IInv
<1>3. task[o].phase \notin {"none", "done"} => Confirmed(o) = task[o].step - 1
  BY DEF Confirmed
<1>4. task[o].phase \notin {"none", "done"} => task[o].step - 1 <= Count(o) /\ Count(o) <= task[o].step
  BY <1>1, <1>2, <1>3 DEF IInv, CountInv, TaskRecord, Steps
<1>5. task[o].at \in Nat /\ task[o].at <= clock
  BY <1>1 DEF IInv, TimeInv, TaskRecord, Time
<1> QED
  BY <1>1, <1>2, <1>4, <1>5 DEF IInv, CallInv, TypeOK

LEMMA AnsweredStep == ASSUME IInv, NEW o \in Order, Answered(o) PROVE IInv'
<1> DEFINE p == IF task[o].step = 4 THEN "done" ELSE "sleeping"
           n == IF task[o].step = 4 THEN 4 ELSE task[o].step + 1
<1>q. PICK q \in TaskRecord : q = task[o]
  BY TaskFacts
<1>1. PICK t : t = [[[q EXCEPT !.phase = p] EXCEPT !.step = n] EXCEPT !.attempt = 1]
  OBVIOUS
<1>2. /\ t \in TaskRecord /\ t.phase = p /\ t.step = n /\ t.attempt = 1 /\ t.at = q.at
  <2>1. p \in Phases /\ n \in Steps /\ 1 \in 1..MaxAttempts
    BY <1>q, ConstantsAssumption DEF TaskRecord, Phases, Steps, Ended
  <2> HIDE DEF p, n
  <2> QED
    BY <1>1, <2>1 DEF TaskRecord
<1>3. task' = [task EXCEPT ![o] = t]
  BY <1>1, <1>q DEF Answered
<1>4. /\ task[o].phase = "sending" /\ UNCHANGED <<clock, rows, simulator, faults, posted>>
      /\ \E r \in requests : r.order = o /\ r.step = task[o].step /\ r.phase = "answered" /\ requests' = requests \ {r}
  BY DEF Answered, CurrentCall, Awaited
<1>5. Count(o) = task[o].step /\ task[o].step \in Steps
  BY <1>4, TaskFacts DEF TaskRecord, Steps
<1>6. \A r \in requests : r.order = o => r.step \in Steps /\ r.step <= task[o].step /\ (r.step = task[o].step => r.at = q.at)
  BY <1>q, TaskFacts
<1>7. task[o].at <= t.at /\ t.at <= clock /\ faults \in 0..MaxFaults
  BY <1>q, <1>2, TaskFacts
<1>8. \A r \in requests : r.order = o => /\ r.step <= t.step
                                         /\ r.step = t.step => t.phase \notin {"none", "sleeping"} /\ r.at = t.at
  BY <1>2, <1>5, <1>6 DEF Steps
<1>9. /\ t.phase # "backoff" /\ t.phase # "none" /\ (t.phase = "done" => Count(o) = 4)
      /\ (t.phase # "done" => t.step - 1 <= Count(o) /\ Count(o) <= t.step)
  BY <1>2, <1>5 DEF Steps
<1>10. faults' \in 0..MaxFaults /\ requests' \subseteq requests
  BY <1>4, <1>7
<1>11. MayCall(o, t) => \A e \in Log(o) : Apart(e.created, t.step) => e.at < t.at
  <2>1. MayCall(o, t) => t.step = task[o].step
    BY <1>2, <1>5, <1>6 DEF MayCall, Steps
  <2>2. Called(o)
    BY <1>4 DEF Called
  <2> QED
    BY <1>2, <1>q, <2>1, <2>2 DEF IInv, SpaceInv
<1>m. TaskMoves(o, t)
  BY <1>2, <1>3, <1>4, <1>7, <1>8, <1>9, <1>10, <1>11 DEF TaskMoves
<1> QED
  BY <1>2, <1>m, TaskStep

LEMMA CallFailsStep ==
  ASSUME IInv, NEW o \in Order, NEW drop \in BOOLEAN, NEW timeout \in BOOLEAN, CallFails(o, drop, timeout)
  PROVE  IInv'
<1> DEFINE p == IF timeout \/ task[o].attempt = MaxAttempts THEN "failed" ELSE "backoff"
<1>q. PICK q \in TaskRecord : q = task[o]
  BY TaskFacts
<1>1. PICK t : t = [q EXCEPT !.phase = p]
  OBVIOUS
<1>2. t \in TaskRecord /\ t.phase = p /\ t.step = q.step /\ t.attempt = q.attempt /\ t.at = q.at
  <2>1. p \in Phases
    BY DEF Phases, Ended
  <2> HIDE DEF p
  <2> QED
    BY <1>1, <2>1 DEF TaskRecord
<1>3. task' = [task EXCEPT ![o] = t]
  BY <1>1, <1>q DEF CallFails
<1>4. /\ task[o].phase = "sending" /\ faults < MaxFaults /\ faults' = faults + 1
      /\ requests' \subseteq requests /\ UNCHANGED <<clock, rows, simulator, posted>>
  BY DEF CallFails
<1>5. faults' \in 0..MaxFaults /\ task[o].at <= t.at /\ t.at <= clock
  BY <1>2, <1>4, <1>q, TaskFacts, ConstantsAssumption
<1>6. \A r \in requests : r.order = o => /\ r.step <= t.step
                                         /\ r.step = t.step => t.phase \notin {"none", "sleeping"} /\ r.at = t.at
  BY <1>2, <1>q, TaskFacts
<1>7. /\ t.phase # "none" /\ t.phase # "done"
      /\ t.phase = "backoff" => t.attempt < MaxAttempts
      /\ t.step - 1 <= Count(o) /\ Count(o) <= t.step
  BY <1>2, <1>4, <1>q, TaskFacts, ConstantsAssumption DEF TaskRecord
<1>8. MayCall(o, t) => \A e \in Log(o) : Apart(e.created, t.step) => e.at < t.at
  BY <1>2, <1>4, <1>q DEF IInv, SpaceInv, Called
<1>m. TaskMoves(o, t)
  BY <1>2, <1>3, <1>4, <1>5, <1>6, <1>7, <1>8 DEF TaskMoves
<1> QED
  BY <1>2, <1>m, TaskStep

LEMMA RetryStep == ASSUME IInv, NEW o \in Order, Retry(o) PROVE IInv'
<1>q. PICK q \in TaskRecord : q = task[o]
  BY TaskFacts
<1>1. PICK t : t = [[q EXCEPT !.phase = "sending"] EXCEPT !.attempt = q.attempt + 1]
  OBVIOUS
<1>4. /\ q.phase = "backoff" /\ requests' = requests \cup {Call(o, q.attempt + 1)}
      /\ UNCHANGED <<clock, rows, simulator, faults, posted>>
  BY <1>q DEF Retry
<1>a. q.attempt + 1 \in 1..MaxAttempts
  BY <1>q, <1>4, ConstantsAssumption DEF IInv, TaskInv, TaskRecord
<1>2. t \in TaskRecord /\ t.phase = "sending" /\ t.step = q.step /\ t.at = q.at
  BY <1>1, <1>a DEF TaskRecord, Phases
<1>3. task' = [task EXCEPT ![o] = t]
  BY <1>1, <1>q DEF Retry
<1>5. faults' \in 0..MaxFaults /\ task[o].at <= t.at /\ t.at <= clock
  BY <1>2, <1>4, <1>q, TaskFacts
<1>6. \A r \in requests : r.order = o => /\ r.step <= t.step
                                         /\ r.step = t.step => t.phase \notin {"none", "sleeping"} /\ r.at = t.at
  BY <1>2, <1>q, TaskFacts
<1>7. t.step - 1 <= Count(o) /\ Count(o) <= t.step
  BY <1>2, <1>4, <1>q, TaskFacts
<1>8. PICK c : c = Call(o, q.attempt + 1)
  OBVIOUS
<1>9. c \in CallRecord /\ c.order = o /\ c.step = t.step /\ c.at = t.at /\ c.phase = "reading"
  BY <1>2, <1>8, <1>a, <1>q DEF Call, CallRecord, TaskRecord
<1>10. \A r \in requests' : r \in requests \/ /\ r \in CallRecord /\ r.order = o /\ r.step = t.step /\ r.at = t.at
                                              /\ r.phase = "reading" /\ t.phase = "sending"
  BY <1>2, <1>4, <1>8, <1>9
<1>11. MayCall(o, t) => \A e \in Log(o) : Apart(e.created, t.step) => e.at < t.at
  BY <1>2, <1>4, <1>q DEF IInv, SpaceInv, Called
<1>m. TaskMoves(o, t)
  BY <1>2, <1>3, <1>4, <1>5, <1>6, <1>7, <1>10, <1>11 DEF TaskMoves
<1> QED
  BY <1>2, <1>m, TaskStep

LEMMA ProduceStep == ASSUME IInv, NEW o \in Order, Produce(o) PROVE IInv'
<1>q. PICK q \in TaskRecord : q = NoTask
  <2>1. 1 \in Steps /\ 0 \in Time /\ 1 \in 1..MaxAttempts /\ "none" \in Phases
    BY ConstantsAssumption DEF Steps, Time, Phases
  <2>2. NoTask \in TaskRecord
    BY <2>1 DEF NoTask, TaskRecord
  <2> QED
    BY <2>2
<1>n. q.step = 1
  BY <1>q DEF NoTask
<1>1. PICK t : t = [[q EXCEPT !.phase = "sending"] EXCEPT !.at = clock]
  OBVIOUS
<1>2. t \in TaskRecord /\ t.phase = "sending" /\ t.step = 1 /\ t.at = clock
  BY <1>1, <1>n, <1>q DEF TaskRecord, Phases, IInv, TypeOK
<1>3. task' = [task EXCEPT ![o] = t]
  BY <1>1, <1>q DEF Produce
<1>4. PICK c : c = [order |-> o, step |-> 1, at |-> clock, attempt |-> 1, phase |-> "reading"]
  OBVIOUS
<1>5. c \in CallRecord /\ c.order = o /\ c.step = t.step /\ c.at = t.at /\ c.phase = "reading"
  BY <1>2, <1>4, ConstantsAssumption DEF CallRecord, Steps, IInv, TypeOK
<1>6. task[o].phase = "none" /\ requests' = requests \cup {c} /\ UNCHANGED <<clock, rows, simulator, faults, posted>>
  BY <1>4 DEF Produce
<1>7. faults' \in 0..MaxFaults /\ task[o].at <= t.at /\ t.at <= clock
  BY <1>2, <1>6, TaskFacts
<1>8. task[o].step = 1
  BY <1>6 DEF IInv, TaskInv
<1>9. \A r \in requests : r.order = o => /\ r.step <= t.step
                                         /\ r.step = t.step => t.phase \notin {"none", "sleeping"} /\ r.at = t.at
  BY <1>2, <1>6, <1>8, TaskFacts DEF Steps
<1>10. t.step - 1 <= Count(o) /\ Count(o) <= t.step
  BY <1>2, <1>6, TaskFacts DEF IInv, CountInv, Confirmed
<1>11. \A r \in requests' : r \in requests \/ /\ r \in CallRecord /\ r.order = o /\ r.step = t.step /\ r.at = t.at
                                              /\ r.phase = "reading" /\ t.phase = "sending"
  BY <1>2, <1>5, <1>6
<1>12. \A e \in Log(o) : ~Apart(e.created, t.step)
  BY <1>2 DEF IInv, LogInv, Steps, Apart
<1>m. TaskMoves(o, t)
  BY <1>2, <1>3, <1>6, <1>7, <1>9, <1>10, <1>11, <1>12 DEF TaskMoves
<1> QED
  BY <1>2, <1>m, TaskStep

LEMMA NextEventStep == ASSUME IInv, NEW o \in Order, NextEvent(o) PROVE IInv'
<1>q. PICK q \in TaskRecord : q = task[o]
  BY TaskFacts
<1>1. PICK t : t = [[q EXCEPT !.phase = "sending"] EXCEPT !.at = clock]
  OBVIOUS
<1>2. t \in TaskRecord /\ t.phase = "sending" /\ t.step = q.step /\ t.at = clock
  BY <1>1 DEF TaskRecord, Phases, IInv, TypeOK
<1>3. task' = [task EXCEPT ![o] = t]
  BY <1>1, <1>q DEF NextEvent
<1>4. PICK c : c = [Call(o, 1) EXCEPT !.at = clock]
  OBVIOUS
<1>5. c \in CallRecord /\ c.order = o /\ c.step = t.step /\ c.at = t.at /\ c.phase = "reading"
  BY <1>2, <1>4, <1>q, ConstantsAssumption DEF Call, CallRecord, TaskRecord, IInv, TypeOK
<1>6. q.phase = "sleeping" /\ requests' = requests \cup {c} /\ UNCHANGED <<clock, rows, simulator, faults, posted>>
  BY <1>4, <1>q DEF NextEvent
<1>7. faults' \in 0..MaxFaults /\ task[o].at <= t.at /\ t.at <= clock
  BY <1>2, <1>6, TaskFacts
<1>9. \A r \in requests : r.order = o => /\ r.step <= t.step
                                         /\ r.step = t.step => t.phase \notin {"none", "sleeping"} /\ r.at = t.at
  BY <1>2, <1>6, <1>q, TaskFacts
<1>10. t.step - 1 <= Count(o) /\ Count(o) <= t.step
  BY <1>2, <1>6, <1>q, TaskFacts
<1>11. \A r \in requests' : r \in requests \/ /\ r \in CallRecord /\ r.order = o /\ r.step = t.step /\ r.at = t.at
                                              /\ r.phase = "reading" /\ t.phase = "sending"
  BY <1>2, <1>5, <1>6
<1>12. ASSUME NEW e \in Log(o), Apart(e.created, t.step) PROVE e.at < t.at
  <2>1. clock > q.at \/ q.step = 3
    BY <1>q DEF NextEvent, MayBeImmediate
  <2>2. /\ e.at \in Nat /\ q.at \in Nat /\ clock \in Nat /\ q.at <= clock
        /\ \A d \in Log(o) : d.at \in Nat /\ d.at <= q.at
    BY <1>q, TaskFacts DEF IInv, TypeOK, TimeInv, Log, EventsOf, Time
  <2>3. CASE clock > q.at
    BY <1>2, <2>2, <2>3
  <2>4. CASE q.step = 3
    <3>1. e.created = 1
      BY <1>2, <1>12, <2>4 DEF IInv, LogInv, Steps, Apart
    <3>2. 2 \in 1..Count(o)
      BY <1>6, <1>q, <2>4, TaskFacts
    <3>3. PICK d \in Log(o) : d.created = 2
      BY <3>2 DEF IInv, LogInv
    <3>4. e.at < d.at
      BY <3>1, <3>3 DEF IInv, SpaceInv, Apart
    <3> QED
      BY <1>2, <2>2, <3>4
  <2> QED
    BY <2>1, <2>3, <2>4
<1>m. TaskMoves(o, t)
  BY <1>2, <1>3, <1>6, <1>7, <1>9, <1>10, <1>11, <1>12 DEF TaskMoves
<1> QED
  BY <1>2, <1>m, TaskStep

-----------------------------------------------------------------------------
(* Steps of the simulator, and time *)

LEMMA GraceOverStep == ASSUME IInv, GraceOver PROVE IInv'
<1>1. task \in [Order -> TaskRecord]
  BY DEF IInv, TypeOK, TaskRecord, Phases
<1>2. /\ task' \in [Order -> TaskRecord]
      /\ \A o \in Order : /\ task'[o].step = task[o].step /\ task'[o].at = task[o].at
                          /\ \/ task'[o].phase = task[o].phase /\ task'[o].attempt = task[o].attempt
                             \/ /\ task[o].phase \notin Ended \cup {"none"} /\ task'[o].phase = "cancelled"
  <2>1. ASSUME NEW q \in TaskRecord
        PROVE  LET t == [q EXCEPT !.phase = "cancelled"]
               IN t \in TaskRecord /\ t.phase = "cancelled" /\ t.step = q.step /\ t.at = q.at
    BY DEF TaskRecord, Phases, Ended
  <2>2. task' = [o \in Order |-> IF o \in Running THEN [task[o] EXCEPT !.phase = "cancelled"] ELSE task[o]]
    BY DEF GraceOver
  <2>3. \A o \in Order : o \in Running => task[o].phase \notin Ended \cup {"none"}
    BY DEF Running
  <2> QED
    BY <1>1, <2>1, <2>2, <2>3
<1>3. simulator' = "ended" /\ requests' \subseteq requests /\ UNCHANGED <<clock, rows, faults, posted>>
  BY DEF GraceOver
<1>4. TypeOK'
  BY <1>2, <1>3 DEF IInv, TypeOK, TaskRecord, Phases
<1>5. \A o : Log(o)' = Log(o) /\ Count(o)' = Count(o)
  BY <1>3 DEF Log, Count
<1>6. \A o \in Order : Confirmed(o)' = Confirmed(o)
  BY <1>2 DEF Confirmed, Ended
<1>7. LogInv' /\ CountInv' /\ TimeInv' /\ TaskInv'
  BY <1>2, <1>3, <1>5, <1>6 DEF IInv, LogInv, CountInv, TimeInv, TaskInv
<1>8. CallInv'
  BY <1>2, <1>3, <1>5 DEF IInv, TypeOK, CallInv
<1>9. SpaceInv'
  <2>1. \A o \in Order : Called(o)' => Called(o)
    BY <1>2, <1>3 DEF Called
  <2> QED
    BY <1>2, <1>5, <2>1 DEF IInv, SpaceInv
<1>10. TillInv'
  BY <1>5 DEF IInv, TillInv
<1> QED
  BY <1>4, <1>7, <1>8, <1>9, <1>10 DEF IInv

\* The other steps of the simulator and of the clock change neither tasks nor the log.
LEMMA QuietStep ==
  ASSUME IInv, Stop \/ ProducersEnd \/ Drained \/ Tick \/ UNCHANGED vars PROVE IInv'
<1>1. /\ UNCHANGED <<rows, task, requests, faults, posted>> /\ clock' \in Time /\ clock <= clock' /\ clock \in Nat
      /\ simulator' \in {"running", "stopping", "draining", "ended"}
  BY ConstantsAssumption DEF Stop, ProducersEnd, Drained, Tick, vars, IInv, TypeOK, Time
<1>2. TypeOK'
  BY <1>1 DEF IInv, TypeOK
<1>3. TimeInv'
  <2>1. \A o \in Order : task[o].at \in Nat
    BY DEF IInv, TypeOK, Time
  <2> QED
    BY <1>1, <2>1 DEF IInv, TypeOK, Time, TimeInv, Log
<1>4. SpaceInv' /\ TillInv'
  BY <1>1 DEF IInv, SpaceInv, TillInv, Called, Log
<1> QED
  BY <1>1, <1>2, <1>3, <1>4 DEF IInv, LogInv, CountInv, CallInv, TaskInv, Count, Log, Confirmed

-----------------------------------------------------------------------------
(* The invariant and what follows from it *)

LEMMA InitInv == Init => IInv
<1> SUFFICES ASSUME Init PROVE IInv
  OBVIOUS
<1>1. NoTask \in TaskRecord /\ NoTask.phase = "none" /\ NoTask.step = 1 /\ NoTask.at = 0
  BY ConstantsAssumption DEF NoTask, TaskRecord, Phases, Steps, Time
<1>2. /\ clock = 0 /\ rows = {} /\ requests = {} /\ simulator = "running" /\ faults = 0 /\ posted = 0
      /\ task = [o \in Order |-> NoTask]
  BY DEF Init
<1> HIDE DEF NoTask
<1>3. TypeOK
  BY <1>1, <1>2, ConstantsAssumption DEF TypeOK, TaskRecord, Phases, Time
<1>4. \A o : Log(o) = {} /\ Count(o) = 0
  BY <1>2, FS_EmptySet DEF Log, EventsOf, Count
<1>5. LogInv
  BY <1>2, <1>4, FS_EmptySet DEF LogInv
<1>6. SpaceInv /\ TillInv
  BY <1>4 DEF SpaceInv, TillInv, WithStatus
<1> QED
  BY <1>1, <1>2, <1>3, <1>4, <1>5, <1>6 DEF IInv, CountInv, TimeInv, CallInv, TaskInv, Confirmed

LEMMA NextInv == IInv /\ [Next]_vars => IInv'
<1> SUFFICES ASSUME IInv, [Next]_vars PROVE IInv'
  OBVIOUS
<1>1. CASE Api
  BY <1>1, ReadEventStep, CommitEventStep DEF Api
<1>2. CASE Tasks
  BY <1>2, ProduceStep, NextEventStep, AnsweredStep, RetryStep, CallFailsStep DEF Tasks
<1>3. CASE Till
  BY <1>3, PostTillStep DEF Till
<1>4. CASE GraceOver
  BY <1>4, GraceOverStep
<1> QED
  BY <1>1, <1>2, <1>3, <1>4, QuietStep DEF Next, Shutdown

LEMMA Invariance == Spec => []IInv
BY InitInv, NextInv, PTL DEF Spec

\* For any number of simulated orders, attempts and lost calls, the log of an order has each
\* status once and without a gap, in the order of time, and what the API has confirmed and one
\* status more at most (send_event_with_retry, save_order_event).
THEOREM LogsArePrefixes == Spec => []LogIsPrefix
<1>1. ASSUME IInv, NEW o \in Order
      PROVE  /\ Stored(o) = 1..Cardinality(Log(o))
             /\ Cardinality(Log(o)) \in Confirmed(o)..Confirmed(o) + 1
             /\ \A d, e \in Log(o) : StepOf(d) < StepOf(e) => d.at <= e.at
  <2>1. LogInv /\ Count(o) \in Nat
    BY <1>1, LogCounts DEF IInv
  <2>2. Stored(o) = 1..Count(o) /\ \A e \in Log(o) : StepOf(e) = e.created /\ e.created \in Steps
    BY <2>1, StoredNumbers DEF LogInv
  <2>3. Confirmed(o) \in Nat
    BY <1>1 DEF IInv, TypeOK, Confirmed, Steps
  <2>4. Count(o) \in Confirmed(o)..Confirmed(o) + 1
    BY <1>1, <2>1, <2>3 DEF IInv, CountInv
  <2>5. \A d, e \in Log(o) : StepOf(d) < StepOf(e) => d.at <= e.at
    BY <1>1, <2>2 DEF IInv, TimeInv, Steps
  <2> QED
    BY <2>2, <2>4, <2>5 DEF Count
<1>2. IInv => LogIsPrefix
  BY <1>1 DEF IInv, LogIsPrefix
<1> QED
  BY <1>2, Invariance, PTL

\* No step takes the status a customer is told about an order of the simulator back
\* (get_latest_order_event).
THEOREM StatusNeverGoesBack == Spec => StatusOnlyAdvances
<1>1. IInv => \A o \in Order : LatestStep(o) = Count(o)
  BY LatestIsLast DEF IInv
<1>2. IInv' => (\A o \in Order : LatestStep(o) = Count(o))'
  BY <1>1, PTL
<1>3. [Next]_vars => rows \subseteq rows'
  <2> SUFFICES ASSUME [Next]_vars PROVE rows \subseteq rows'
    OBVIOUS
  <2>1. CASE Api
    BY <2>1 DEF Api, ReadEvent, CommitEvent
  <2>2. CASE Tasks
    BY <2>2 DEF Tasks, Produce, NextEvent, Answered, Retry, CallFails
  <2>3. CASE Till
    BY <2>3 DEF Till, PostTill
  <2>4. CASE Shutdown \/ Stop \/ Tick \/ UNCHANGED vars
    BY <2>4 DEF Shutdown, ProducersEnd, Drained, GraceOver, Stop, Tick, vars
  <2> QED
    BY <2>1, <2>2, <2>3, <2>4 DEF Next
<1>4. ASSUME IInv, IInv', [Next]_vars, NEW o \in Order PROVE LatestStep(o) <= LatestStep(o)'
  <2>1. IsFiniteSet(rows')
    BY <1>4 DEF IInv, LogInv
  <2>2. Log(o)' = {e \in rows' : e.order = o} /\ Log(o) = {e \in rows : e.order = o}
    BY DEF Log, EventsOf
  <2>3. IsFiniteSet(Log(o)') /\ Log(o) \subseteq Log(o)'
    BY <1>3, <1>4, <2>1, <2>2, FS_Subset
  <2>4. Count(o) <= Count(o)'
    BY <2>3, FS_Subset DEF Count
  <2>5. LatestStep(o) = Count(o) /\ LatestStep(o)' = Count(o)'
    BY <1>1, <1>2, <1>4
  <2> QED
    BY <2>4, <2>5
<1>5. IInv /\ IInv' /\ [Next]_vars => \A o \in Order : LatestStep(o) <= LatestStep(o)'
  BY <1>4
<1> QED
  BY <1>5, Invariance, PTL DEF Spec, StatusOnlyAdvances

-----------------------------------------------------------------------------
(* The waiting at a frame *)

\* The least of a set of numbers, and the larger of two.
LEMMA MinIsLeast ==
  ASSUME NEW S, S \subseteq Nat, S # {} PROVE Min(S) \in S /\ \A x \in S : Min(S) <= x
<1>1. PICK m \in S : \A n \in S : ~(<<n, m>> \in OpToRel(<, Nat))
  BY NatLessThanWellFounded, WFMin
<1>2. \A n \in S : ~(n < m)
  BY <1>1 DEF OpToRel
<1>3. \A n \in S : m <= n
  BY <1>2
<1> QED
  BY <1>3 DEF Min

\* The maximum of two times.
LEMMA MaxOfTwo ==
  ASSUME NEW a \in Nat, NEW b \in Nat
  PROVE  Max({a, b}) \in {a, b} /\ a <= Max({a, b}) /\ b <= Max({a, b})
<1>1. \E x \in {a, b} : \A y \in {a, b} : x >= y
  BY a <= b \/ b <= a
<1> QED
  BY <1>1 DEF Max

\* An order waits from its first reception, or the first event there is, until an end of it.
LEMMA IntervalSays ==
  ASSUME NEW E, NEW o, EventsOf(E, o) # {}, \A e \in EventsOf(E, o) : e.at \in Nat, NEW t \in Nat,
         NEW first, first = IF WithStatus(EventsOf(E, o), {"received"}) # {}
                            THEN WithStatus(EventsOf(E, o), {"received"}) ELSE EventsOf(E, o)
  PROVE  WaitsAt(IntervalOf(E, o), t) <=>
           (\E s \in first : s.at <= t) /\ \A e \in WithStatus(EventsOf(E, o), Terminal) : t < e.at
<1> DEFINE own == EventsOf(E, o)
           ended == WithStatus(own, Terminal)
           start == Earliest(first)
           i == IntervalOf(E, o)
<1>1. first # {} /\ first \subseteq own /\ ended \subseteq own
  BY DEF WithStatus
<1>2. {e.at : e \in first} \subseteq Nat /\ {e.at : e \in first} # {}
  BY <1>1
<1>3. start \in {e.at : e \in first} /\ \A x \in {e.at : e \in first} : start <= x
  BY <1>2, MinIsLeast DEF Earliest
<1>4. start \in Nat /\ (start <= t <=> \E s \in first : s.at <= t)
  <2>1. PICK s \in first : start = s.at
    BY <1>3
  <2>2. \A e \in first : e.at \in Nat /\ start <= e.at
    BY <1>1, <1>3
  <2> HIDE DEF start
  <2> QED
    BY <2>1, <2>2
<1>5. i.start = start /\ i.end = IF ended = {} THEN Open ELSE Max({start, Earliest(ended)})
  BY DEF IntervalOf
<1> HIDE DEF i, start
<1>6. CASE ended = {}
  BY <1>4, <1>5, <1>6 DEF WaitsAt, i
<1>7. CASE ended # {}
  <2>1. {e.at : e \in ended} \subseteq Nat /\ {e.at : e \in ended} # {}
    BY <1>1, <1>7
  <2> DEFINE stop == Earliest(ended)
  <2>2. stop \in {e.at : e \in ended} /\ \A x \in {e.at : e \in ended} : stop <= x
    BY <2>1, MinIsLeast DEF Earliest
  <2>3. stop \in Nat /\ (t < stop <=> \A e \in ended : t < e.at)
    <3>1. PICK s \in ended : stop = s.at
      BY <2>2
    <3>2. \A e \in ended : e.at \in Nat /\ stop <= e.at
      BY <1>1, <2>2
    <3> HIDE DEF stop, ended
    <3> QED
      BY <3>1, <3>2
  <2> HIDE DEF stop, ended
  <2>4. i.end \in {start, stop} /\ start <= i.end /\ stop <= i.end
    BY <1>4, <1>5, <1>7, <2>3, MaxOfTwo DEF stop
  <2>5. i.end \in Nat /\ i.end # Open
    BY <1>4, <2>3, <2>4 DEF Open
  <2>6. start <= t => (t < i.end <=> t < stop)
    BY <1>4, <2>3, <2>4, <2>5
  <2>7. WaitsAt(i, t) <=> start <= t /\ t < i.end
    BY <1>5, <2>5 DEF WaitsAt
  <2> QED
    BY <1>4, <2>3, <2>6, <2>7 DEF ended, i
<1> QED
  BY <1>6, <1>7

\* The reception of a simulated order is its first event, its completion the last.
LEMMA LogFacts ==
  ASSUME IInv, NEW o \in Order
  PROVE  /\ \A e \in Log(o) : e.at \in Nat /\ e.order = o
         /\ \A d, e \in Log(o) : d.status = "received" => d.at <= e.at
         /\ \A d, e \in Log(o) : e.status \in Terminal => d.at <= e.at
<1>1. \A e \in Log(o) : e.at \in Nat /\ e.order = o
  BY ConstantsAssumption DEF IInv, TypeOK, Log, EventsOf, Time
<1>2. \A e \in Log(o) : e.created \in 1..4 /\ e.status = Transitions[e.created]
  BY DEF IInv, LogInv, Steps
<1>3. \A n \in 1..4 : /\ Transitions[n] = "received" => n = 1
                      /\ Transitions[n] \in Terminal => n = 4
  BY DEF Transitions, Terminal
<1>4. \A d, e \in Log(o) : d.created <= e.created => d.at <= e.at
  BY DEF IInv, TimeInv
<1>5. \A d \in Log(o) : /\ d.created \in Nat /\ 1 <= d.created /\ d.created <= 4
                        /\ d.status = "received" => d.created = 1
                        /\ d.status \in Terminal => d.created = 4
  BY <1>2, <1>3
<1> QED
  BY <1>1, <1>4, <1>5

\* What count_waiting_orders_at reads of an order decides whether it waits.
LEMMA WaitsInWindow ==
  ASSUME IInv, NEW o \in Order, NEW t \in Time, NEW F,
         F = Fetched({e \in rows : e.order \in Order}, t - Window, t + Window)
  PROVE  (o \in OrdersOf(F) /\ WaitsAt(IntervalOf(F, o), t)) <=>
           (TrulyWaiting(o, t) /\ \E e \in Log(o) : t - Window <= e.at /\ e.at <= t)
<1> DEFINE own == EventsOf(F, o)
           seen == IF WithStatus(own, {"received"}) # {} THEN WithStatus(own, {"received"}) ELSE own
<1>1. t \in Nat /\ Window \in Nat /\ Window > 0
  BY ConstantsAssumption DEF Time
<1>2. own = {e \in Log(o) : t - Window <= e.at /\ e.at < t + Window}
  BY DEF Fetched, Log, EventsOf
<1>3. o \in OrdersOf(F) <=> own # {}
  BY DEF OrdersOf, EventsOf
<1>4. \A e \in own : e.at \in Nat /\ e \in Log(o) /\ t - Window <= e.at
  BY <1>2, LogFacts
<1>5. own # {} => (WaitsAt(IntervalOf(F, o), t) <=>
         (\E s \in seen : s.at <= t) /\ \A e \in WithStatus(own, Terminal) : t < e.at)
  BY <1>1, <1>4, IntervalSays
<1>6. \A e \in Log(o) : e.at \in Nat
  BY LogFacts
<1>7. \A e \in Log(o) : t - Window <= e.at /\ e.at <= t => e \in own
  BY <1>1, <1>2, <1>6
<1> HIDE DEF own
<1>8. ASSUME own # {}, NEW s \in seen, s.at <= t, \A e \in WithStatus(own, Terminal) : t < e.at
      PROVE  TrulyWaiting(o, t) /\ \E e \in Log(o) : t - Window <= e.at /\ e.at <= t
  <2>1. s \in own
    BY DEF WithStatus
  <2>2. s \in Log(o) /\ t - Window <= s.at
    BY <1>4, <2>1
  <2>3. ASSUME NEW e \in Log(o), e.status \in Terminal PROVE t < e.at
    <3>1. s.at <= e.at /\ s.at \in Nat /\ e.at \in Nat
      BY <1>6, <2>2, <2>3, LogFacts
    <3>2. e.at <= t => e \in own
      BY <1>1, <1>7, <2>2, <3>1
    <3> QED
      BY <1>1, <1>8, <2>3, <3>1, <3>2 DEF WithStatus
  <2> QED
    BY <1>8, <2>2, <2>3 DEF TrulyWaiting
<1>9. ASSUME NEW d \in Log(o), t - Window <= d.at, d.at <= t, TrulyWaiting(o, t)
      PROVE  /\ own # {} /\ \E s \in seen : s.at <= t
             /\ \A e \in WithStatus(own, Terminal) : t < e.at
  <2>1. d \in own
    BY <1>7, <1>9
  <2>2. \A e \in WithStatus(own, Terminal) : t < e.at
    BY <1>4, <1>9 DEF WithStatus, TrulyWaiting
  <2>3. CASE WithStatus(own, {"received"}) = {}
    BY <1>9, <2>1, <2>2, <2>3
  <2>4. CASE WithStatus(own, {"received"}) # {}
    <3>1. PICK s \in WithStatus(own, {"received"}) : TRUE
      BY <2>4
    <3>2. s \in Log(o) /\ s.status = "received"
      BY <1>4, <3>1 DEF WithStatus
    <3>3. s.at <= d.at /\ s.at \in Nat /\ d.at \in Nat
      BY <1>6, <1>9, <3>2, LogFacts
    <3>4. s.at <= t
      BY <1>1, <1>9, <3>3
    <3> QED
      BY <2>1, <2>2, <2>4, <3>4
  <2> QED
    BY <2>3, <2>4
<1> HIDE DEF seen
<1> QED
  BY <1>3, <1>5, <1>8, <1>9

\* Two sets have the same size when one is indexed by the other.
LEMMA CountedOnce ==
  ASSUME NEW S, IsFiniteSet(S), NEW T, NEW g \in [S -> T],
         \A x \in T : \E o \in S : g[o] = x, \A a, b \in S : g[a] = g[b] => a = b
  PROVE  Cardinality(T) = Cardinality(S)
<1>1. g \in Surjection(S, T) /\ g \in Injection(S, T)
  BY DEF Surjection, Injection, IsInjective
<1> QED
  BY <1>1, FS_Surjection

\* However the posts of the simulator are delayed, repeated or lost, count_waiting_orders_at
\* counts at every instant the orders that wait and have taken a step within its window.
THEOREM WaitingIsCounted == Spec => []WaitingCountExact
<1>1. IInv => WaitingCountExact
  <2> SUFFICES ASSUME IInv, NEW t \in Time
               PROVE  CountWaitingAt({e \in rows : e.order \in Order}, t, Window)
                        = Cardinality({o \in Order : /\ TrulyWaiting(o, t)
                                                     /\ \E e \in Log(o) : t - Window <= e.at /\ e.at <= t})
    BY DEF WaitingCountExact
  <2> DEFINE F == Fetched({e \in rows : e.order \in Order}, t - Window, t + Window)
             W == {o \in Order : /\ TrulyWaiting(o, t)
                                 /\ \E e \in Log(o) : t - Window <= e.at /\ e.at <= t}
             g == [o \in W |-> IntervalOf(F, o)]
             I == {i \in WaitingIntervals(F) : WaitsAt(i, t)}
  <2>1. \A o \in Order : (o \in OrdersOf(F) /\ WaitsAt(IntervalOf(F, o), t)) <=> o \in W
    BY WaitsInWindow
  <2>2. OrdersOf(F) \subseteq Order
    BY DEF OrdersOf, Fetched
  <2>3. IsFiniteSet(W)
    <3>1. IsFiniteSet(F)
      BY FS_Subset DEF IInv, LogInv, Fetched
    <3> HIDE DEF F
    <3> DEFINE f == [e \in F |-> e.order]
    <3>2. f \in Surjection(F, OrdersOf(F))
      BY DEF OrdersOf, Surjection
    <3>3. IsFiniteSet(OrdersOf(F))
      BY <3>1, <3>2, FS_Surjection
    <3>4. W \subseteq OrdersOf(F)
      BY <2>1
    <3> QED
      BY <3>3, <3>4, FS_Subset
  <2>4. I = {IntervalOf(F, o) : o \in W}
    <3>1. \A i \in I : \E o \in W : i = IntervalOf(F, o)
      BY <2>1, <2>2 DEF WaitingIntervals
    <3>2. \A o \in W : IntervalOf(F, o) \in I
      BY <2>1 DEF WaitingIntervals
    <3> HIDE DEF I, W, F
    <3> QED
      BY <3>1, <3>2
  <2>5. \A o \in W : IntervalOf(F, o).order = o
    BY DEF IntervalOf
  <2> HIDE DEF I, W, F
  <2>6. g \in [W -> I] /\ \A x \in I : \E o \in W : g[o] = x
    BY <2>4
  <2>7. \A a, b \in W : g[a] = g[b] => a = b
    BY <2>5
  <2> HIDE DEF g
  <2>8. Cardinality(I) = Cardinality(W)
    BY <2>3, <2>6, <2>7, CountedOnce
  <2> QED
    BY <2>8 DEF CountWaitingAt, ConcurrencyAt, I, W, F
<1> QED
  BY <1>1, Invariance, PTL

-----------------------------------------------------------------------------
(* The points of a timeline *)

\* The quotient of x by w is the one number of times w is in x.
LEMMA Quotient ==
  ASSUME NEW x \in Nat, NEW w \in Nat, w > 0
  PROVE  /\ x \div w \in Nat /\ w * (x \div w) <= x /\ x < w * (x \div w) + w
         /\ \A i \in Nat : w * i <= x /\ x < w * i + w => i = x \div w
<1>1. x \div w \in Nat /\ w * (x \div w) <= x /\ x < w * (x \div w) + w
  BY SMTT(30)
<1>2. \A i \in Nat : w * i <= x /\ x < w * i + w => i = x \div w
  BY SMTT(30)
<1> QED
  BY <1>1, <1>2

\* Bucket i of width w from a is from a + w * i up to a + w * (i + 1).
Indexed(a, w) ==
  \A x \in Nat : a <= x => /\ BucketIndex(x, a, w) \in Nat
                           /\ \A i \in Nat : BucketIndex(x, a, w) = i <=>
                                a + w * i <= x /\ x < a + w * (i + 1)

\* Those of the first N begin before b.
Cover(N, a, b, w) == \A i \in Nat : i < N <=> a + w * i < b

\* The buckets from a begin before b, and every instant before b has its one bucket.
LEMMA Buckets ==
  ASSUME NEW a \in Nat, NEW b \in Nat, a < b, NEW w \in Nat, w > 0, NEW N, N = BucketCount(a, b, w)
  PROVE  /\ N \in Nat
         /\ Cover(N, a, b, w)
         /\ Indexed(a, w)
<1>1. b - a + w - 1 \in Nat
  OBVIOUS
<1>2. N \in Nat /\ w * N <= b - a + w - 1 /\ b - a + w - 1 < w * N + w
  BY <1>1, Quotient DEF BucketCount
<1>3. \A i \in Nat : i < N => a + w * i < b
  <2> SUFFICES ASSUME NEW i \in Nat, i < N PROVE a + w * i < b
    OBVIOUS
  <2>1. w * i + w <= w * N
    BY <1>2, SMTT(30)
  <2>2. w * i \in Nat /\ w * N \in Nat
    BY <1>2, SMTT(30)
  <2> QED
    BY <1>2, <2>1, <2>2
<1>4. \A i \in Nat : a + w * i < b => i < N
  <2> SUFFICES ASSUME NEW i \in Nat, ~(i < N) PROVE ~(a + w * i < b)
    BY <1>2
  <2>1. w * N <= w * i
    BY <1>2, SMTT(30)
  <2>2. w * i \in Nat /\ w * N \in Nat
    BY <1>2, SMTT(30)
  <2> QED
    BY <1>2, <2>1, <2>2
<1>5. ASSUME NEW x \in Nat, a <= x
      PROVE  /\ BucketIndex(x, a, w) \in Nat
             /\ \A i \in Nat : BucketIndex(x, a, w) = i <=> a + w * i <= x /\ x < a + w * (i + 1)
  <2>1. x - a \in Nat
    BY <1>5
  <2>2. PICK q \in Nat : /\ q = BucketIndex(x, a, w) /\ w * q <= x - a /\ x - a < w * q + w
                         /\ \A i \in Nat : w * i <= x - a /\ x - a < w * i + w => i = q
    BY <2>1, Quotient DEF BucketIndex
  <2>3. \A i \in Nat : w * (i + 1) = w * i + w /\ w * i \in Nat
    BY SMTT(30)
  <2>4. \A i, n \in Nat : a + n <= x /\ x < a + (n + w) <=> n <= x - a /\ x - a < n + w
    BY <1>5
  <2>5. \A i \in Nat : (a + w * i <= x /\ x < a + w * (i + 1)) <=> (w * i <= x - a /\ x - a < w * i + w)
    BY <2>3, <2>4
  <2> QED
    BY <2>2, <2>5
<1> QED
  BY <1>2, <1>3, <1>4, <1>5 DEF Indexed, Cover

\* The minimum of two times.
LEMMA MinOfTwo ==
  ASSUME NEW a \in Nat, NEW b \in Nat
  PROVE  \A n \in Nat : n < Min({a, b}) <=> n < a /\ n < b
<1>1. Min({a, b}) \in {a, b} /\ Min({a, b}) <= a /\ Min({a, b}) <= b
  BY MinIsLeast
<1> QED
  BY <1>1

\* Rows that have a time.
Timed(events) == \A e \in events : e.at \in Nat

\* A timeline divides its events, whatever they are.
LEMMA EventsHaveBuckets ==
  ASSUME NEW events, Timed(events), NEW a \in Nat, NEW b \in Nat, a < b, NEW w \in Nat, w > 0
  PROVE  Divide(Timeline(events, a, b, w), WithStatus(TimelineRows(events, a, b), {"received"}))
<1> DEFINE received == WithStatus(TimelineRows(events, a, b), {"received"})
           points == Timeline(events, a, b, w)
<1>1. PICK N : N = BucketCount(a, b, w)
  OBVIOUS
<1>a. N \in Nat /\ Cover(N, a, b, w)
  BY <1>1, Buckets
<1>2. N \in Nat /\ \A i \in Nat : i < N <=> a + w * i < b
  BY <1>a DEF Cover
<1>3. Indexed(a, w)
  BY <1>1, Buckets
<1>4. \A e \in received : e.at \in Nat /\ a <= e.at /\ e.at < b
  BY DEF Timed, WithStatus, TimelineRows
<1>5. DOMAIN points = 0..N-1
  BY <1>1 DEF Timeline
<1>6. \A i \in 0..N-1 : /\ points[i].from = a + w * i /\ points[i].to = Min({a + w * (i + 1), b})
                        /\ points[i].orders = {e.order : e \in {r \in received : BucketIndex(r.at, a, w) = i}}
  BY <1>1 DEF Timeline
<1>7. \A i \in 0..N-1 : i \in Nat /\ i < N
  BY <1>2
<1>8. \A i \in Nat : i < N => i \in 0..N-1
  BY <1>2
<1>9. \A i \in Nat : w * i \in Nat /\ a + w * i \in Nat /\ a + w * (i + 1) \in Nat /\ a + w * i < a + w * (i + 1)
  BY SMTT(30)
<1> HIDE DEF points, received
<1>10. ASSUME NEW i \in DOMAIN points
       PROVE  /\ points[i].from < points[i].to
              /\ points[i].orders = OrdersOf({e \in received : points[i].from <= e.at /\ e.at < points[i].to})
  <2>1. i \in 0..N-1 /\ i \in Nat /\ i < N
    BY <1>5, <1>7, <1>10
  <2>2. PICK lo \in Nat, hi \in Nat : lo = a + w * i /\ hi = a + w * (i + 1)
    BY <1>9, <2>1
  <2>3. lo < hi /\ lo < b
    BY <1>2, <1>9, <2>1, <2>2
  <2>4. \A n \in Nat : n < Min({hi, b}) <=> n < hi /\ n < b
    BY MinOfTwo
  <2>5. \A e \in received : BucketIndex(e.at, a, w) = i <=> lo <= e.at /\ e.at < Min({hi, b})
    <3> SUFFICES ASSUME NEW e \in received
                 PROVE  BucketIndex(e.at, a, w) = i <=> lo <= e.at /\ e.at < Min({hi, b})
      OBVIOUS
    <3>1. e.at \in Nat /\ a <= e.at /\ e.at < b
      BY <1>4
    <3>2. BucketIndex(e.at, a, w) = i <=> a + w * i <= e.at /\ e.at < a + w * (i + 1)
      BY <1>3, <2>1, <3>1, ZenonT(20) DEF Indexed
    <3>3. BucketIndex(e.at, a, w) = i <=> lo <= e.at /\ e.at < hi
      BY <2>2, <3>2, ZenonT(20)
    <3> QED
      BY <2>4, <3>1, <3>3
  <2>6. {r \in received : BucketIndex(r.at, a, w) = i} = {e \in received : lo <= e.at /\ e.at < Min({hi, b})}
    BY <2>5
  <2>7. points[i].from = lo /\ points[i].to = Min({hi, b})
    BY <1>6, <2>1, <2>2, ZenonT(20)
  <2>8. points[i].orders = {e.order : e \in {r \in received : BucketIndex(r.at, a, w) = i}}
    BY <1>6, <2>1, ZenonT(20)
  <2> QED
    BY <2>3, <2>4, <2>6, <2>7, <2>8 DEF OrdersOf
<1>11. UNION {points[i].orders : i \in DOMAIN points} = OrdersOf(received)
  <2>1. \A i \in DOMAIN points : points[i].orders \subseteq OrdersOf(received)
    BY <1>10 DEF OrdersOf
  <2>2. ASSUME NEW e \in received PROVE \E i \in DOMAIN points : e.order \in points[i].orders
    <3>1. e.at \in Nat /\ a <= e.at /\ e.at < b
      BY <1>4, <2>2
    <3>2. PICK i \in Nat : i = BucketIndex(e.at, a, w)
      BY <1>3, <3>1, ZenonT(20) DEF Indexed
    <3>3. a + w * i <= e.at
      BY <1>3, <3>1, <3>2, ZenonT(20) DEF Indexed
    <3>4. a + w * i \in Nat
      BY <1>9, ZenonT(20)
    <3>5. a + w * i < b
      <4> DEFINE lo == a + w * i
      <4>1. lo \in Nat /\ lo <= e.at
        BY <3>3, <3>4
      <4> HIDE DEF lo
      <4>2. lo < b
        BY <3>1, <4>1
      <4> QED
        BY <4>2 DEF lo
    <3>6. i \in DOMAIN points /\ i \in 0..N-1
      BY <1>2, <1>5, <1>8, <3>5, ZenonT(20)
    <3>7. e \in {r \in received : BucketIndex(r.at, a, w) = i}
      BY <2>2, <3>2
    <3>8. points[i].orders = {d.order : d \in {r \in received : BucketIndex(r.at, a, w) = i}}
      BY <1>6, <3>6, ZenonT(20)
    <3> QED
      BY <3>6, <3>7, <3>8
  <2> QED
    BY <2>1, <2>2 DEF OrdersOf
<1> QED
  BY <1>10, <1>11 DEF Divide, points, received

\* The timeline of a period, whatever its length and the interval's, has each reception
\* in the one point it happened in, the last point cut at the period's end (build_store_timeline).
EventsInTheirBuckets ==
  \A a \in Time : \A b \in a + 1..MaxClock + 1 :
    Divide(Timeline(rows, a, b, BucketWidth), WithStatus(TimelineRows(rows, a, b), {"received"}))

\* That holds of the log in every state.
THEOREM TimelineDividesItsPeriod == Spec => []EventsInTheirBuckets
<1>1. IInv => EventsInTheirBuckets
  <2> SUFFICES ASSUME IInv, NEW a \in Time, NEW b \in a + 1..MaxClock + 1
               PROVE  Divide(Timeline(rows, a, b, BucketWidth), WithStatus(TimelineRows(rows, a, b), {"received"}))
    BY DEF EventsInTheirBuckets
  <2>1. a \in Nat /\ b \in Nat /\ a < b /\ BucketWidth \in Nat /\ BucketWidth > 0
    BY ConstantsAssumption DEF Time
  <2>2. Timed(rows)
    BY ConstantsAssumption DEF IInv, TypeOK, Time, Timed
  <2> QED
    BY <2>1, <2>2, EventsHaveBuckets
<1> QED
  BY <1>1, Invariance, PTL

-----------------------------------------------------------------------------
(* Folds over sequences *)

\* The greatest of a set of numbers, as the folds of sequences take it.
LEMMA MaxIn ==
  ASSUME NEW n \in Nat, NEW s \in SUBSET (1..n), s # {}
  PROVE  Max(s) \in s /\ \A y \in s : y <= Max(s)
<1> DEFINE D == {d \in Nat : \E x \in s : d = n - x}
<1>1. D # {} /\ D \subseteq Nat
  <2>1. PICK x \in s : x \in 1..n
    OBVIOUS
  <2>2. n - x \in Nat
    BY <2>1
  <2>3. n - x \in D
    BY <2>1, <2>2
  <2> QED
    BY <2>3
<1>2. PICK d \in D : \A e \in D : ~ (<<e, d>> \in OpToRel(<, Nat))
  BY <1>1, NatLessThanWellFounded, WFMin
<1>3. PICK x \in s : d = n - x
  BY <1>2
<1>4. \A y \in s : ~ (n - y < d)
  <2> TAKE y \in s
  <2>1. n - y \in D
    BY DEF D
  <2> QED
    BY <1>1, <1>2, <2>1 DEF OpToRel
<1>5. \A y \in s : y <= x
  BY <1>3, <1>4
<1>6. \A y \in s : x >= y
  BY <1>5
<1>7. Max(s) \in s /\ \A y \in s : Max(s) >= y
  BY <1>3, <1>6 DEF Max
<1>8. \A a, b \in 1..n : a >= b => b <= a
  OBVIOUS
<1> QED
  BY <1>7, <1>8

\* What a fold over the places 1..n goes through, for a step that stays within A.
Folds(f, n, A, a, G) ==
  /\ f \in [SUBSET (1..n) -> A]
  /\ \A s \in SUBSET (1..n) : f[s] = IF s = {} THEN a ELSE G[<<f[s \ {Max(s)}], Max(s)>>]

\* There is such a run: a shortest prefix without one could be extended.
LEMMA FoldExists ==
  ASSUME NEW n \in Nat, NEW A, NEW a \in A, NEW G \in [A \X (1..n) -> A]
  PROVE  \E f : Folds(f, n, A, a, G)
<1> DEFINE Bad == {k \in 0..n : ~ \E f : Folds(f, k, A, a, G)}
<1> SUFFICES ASSUME Bad # {} PROVE FALSE
  OBVIOUS
<1>1. PICK k \in Bad : \A e \in Bad : ~ (<<e, k>> \in OpToRel(<, Nat))
  <2>1. Bad \subseteq Nat
    OBVIOUS
  <2> QED
    BY <2>1, NatLessThanWellFounded, WFMin
<1>2. k \in 0..n /\ \A e \in Bad : ~ (e < k)
  <2>1. k \in 0..n /\ Bad \subseteq 0..n
    BY <1>1
  <2>2. \A e \in Bad : ~ (<<e, k>> \in OpToRel(<, Nat))
    BY <1>1
  <2> HIDE DEF Bad
  <2>3. \A e \in Bad : e \in Nat /\ k \in Nat
    BY <2>1
  <2> QED
    BY <2>1, <2>2, <2>3 DEF OpToRel
<1>3. ~ \E f : Folds(f, k, A, a, G)
  BY <1>1
<1>4. CASE k = 0
  <2> DEFINE f == [s \in SUBSET (1..k) |-> a]
  <2>1. \A s \in SUBSET (1..k) : s = {}
    BY <1>4
  <2>2. Folds(f, k, A, a, G)
    BY <2>1 DEF Folds
  <2> QED
    BY <1>3, <2>2
<1>5. CASE k # 0
  <2>1. k - 1 \in 0..n /\ k - 1 \notin Bad /\ k \in 1..n
    BY <1>2, <1>5
  <2>2. PICK f : Folds(f, k - 1, A, a, G)
    BY <2>1
  <2> HIDE DEF Bad
  <2> DEFINE g == [s \in SUBSET (1..k) |-> IF k \in s THEN G[<<f[s \ {k}], k>>] ELSE f[s]]
  <2>3. \A s \in SUBSET (1..k) : s \ {k} \in SUBSET (1..(k - 1))
    BY <2>1
  <2>4. \A s \in SUBSET (1..k) : k \notin s => s \in SUBSET (1..(k - 1))
    BY <2>3
  <2>5. \A s \in SUBSET (1..(k - 1)) : f[s] \in A
    BY <2>2 DEF Folds
  <2>6. g \in [SUBSET (1..k) -> A]
    <3> SUFFICES ASSUME NEW s \in SUBSET (1..k)
                 PROVE  (IF k \in s THEN G[<<f[s \ {k}], k>>] ELSE f[s]) \in A
      OBVIOUS
    <3>1. ASSUME k \in s PROVE G[<<f[s \ {k}], k>>] \in A
      <4>1. f[s \ {k}] \in A
        BY <2>3, <2>5
      <4>2. <<f[s \ {k}], k>> \in A \X (1..n)
        BY <2>1, <4>1
      <4> QED
        BY <4>2
    <3>2. ASSUME k \notin s PROVE f[s] \in A
      BY <2>4, <2>5, <3>2
    <3> QED
      BY <3>1, <3>2
  <2>7. \A s \in SUBSET (1..k) : s # {} => g[s] = G[<<g[s \ {Max(s)}], Max(s)>>]
    <3> SUFFICES ASSUME NEW s \in SUBSET (1..k), s # {}
                 PROVE  g[s] = G[<<g[s \ {Max(s)}], Max(s)>>]
      OBVIOUS
    <3>1. k \in Nat
      BY <2>1
    <3>2. PICK m : m = Max(s)
      OBVIOUS
    <3>3. m \in s /\ \A y \in s : y <= m
      BY <3>1, <3>2, MaxIn
    <3>4. s \ {m} \in SUBSET (1..k) /\ k \notin s \ {m}
      BY <2>1, <3>1, <3>3
    <3>5. g[s \ {m}] = f[s \ {m}]
      BY <3>4
    <3>6. CASE k \in s
      <4>1. m = k
        BY <3>1, <3>3, <3>6
      <4> QED
        BY <3>2, <3>5, <3>6, <4>1
    <3>7. CASE k \notin s
      <4>1. s \in SUBSET (1..(k - 1)) /\ g[s] = f[s]
        BY <2>4, <3>7
      <4>2. f[s] = G[<<f[s \ {m}], m>>]
        BY <2>2, <3>2, <4>1 DEF Folds
      <4> QED
        BY <3>2, <3>5, <4>1, <4>2
    <3> QED
      BY <3>6, <3>7
  <2>8. g[{}] = a
    <3>1. {} \in SUBSET (1..(k - 1)) /\ {} \in SUBSET (1..k)
      OBVIOUS
    <3>2. f[{}] = a
      BY <2>2, <3>1 DEF Folds
    <3> QED
      BY <3>1, <3>2
  <2>9. Folds(g, k, A, a, G)
    <3> HIDE DEF g
    <3> QED
      BY <2>6, <2>7, <2>8 DEF Folds
  <2> QED
    BY <1>3, <2>9
<1> QED
  BY <1>4, <1>5

\* A fold as far as it stays in a set, and sets it goes through.
FoldIn(h, n, A, a, G) ==
  /\ h[{}] = a
  /\ \A s \in SUBSET (1..n) : s # {} /\ h[s \ {Max(s)}] \in A => h[s] = G[<<h[s \ {Max(s)}], Max(s)>>]
Stages(B, n, A, a, G) ==
  /\ B \in [0..n -> SUBSET A] /\ a \in B[0]
  /\ \A k \in 1..n : \A x \in B[k - 1] : G[<<x, k>>] \in B[k]

\* Where every step leads from the k-th of some sets to the next, a fold ends in the last.
LEMMA FoldStays ==
  ASSUME NEW n \in Nat, NEW A, NEW a, NEW G, NEW B, Stages(B, n, A, a, G), NEW h, FoldIn(h, n, A, a, G)
  PROVE  h[1..n] \in B[n]
<1>0. /\ B \in [0..n -> SUBSET A] /\ a \in B[0]
      /\ \A k \in 1..n : \A x \in B[k - 1] : G[<<x, k>>] \in B[k]
      /\ h[{}] = a
      /\ \A s \in SUBSET (1..n) : s # {} /\ h[s \ {Max(s)}] \in A => h[s] = G[<<h[s \ {Max(s)}], Max(s)>>]
  BY DEF Stages, FoldIn
<1> DEFINE Bad == {k \in 0..n : h[1..k] \notin B[k]}
<1>1. SUFFICES ASSUME Bad # {} PROVE FALSE
  <2>1. n \in 0..n
    OBVIOUS
  <2> QED
    BY <2>1
<1>2. PICK k \in Bad : \A e \in Bad : ~ (<<e, k>> \in OpToRel(<, Nat))
  <2>1. Bad \subseteq Nat
    OBVIOUS
  <2> QED
    BY <1>1, <2>1, NatLessThanWellFounded, WFMin
<1>3. k \in 0..n /\ h[1..k] \notin B[k]
  BY <1>2
<1>4. CASE k = 0
  <2>1. 1..k = {}
    BY <1>4
  <2> QED
    BY <1>0, <1>3, <1>4, <2>1
<1>5. CASE k # 0
  <2>1. k \in 1..n /\ k - 1 \in 0..n
    BY <1>3, <1>5
  <2>2. <<k - 1, k>> \in OpToRel(<, Nat)
    BY <2>1 DEF OpToRel
  <2>3. k - 1 \notin Bad
    BY <1>2, <2>2
  <2>4. h[1..(k - 1)] \in B[k - 1] /\ h[1..(k - 1)] \in A
    BY <1>0, <2>1, <2>3
  <2>5. Max(1..k) = k
    <3>1. 1..k \in SUBSET (1..n) /\ 1..k # {} /\ k \in 1..k
      BY ONLY <2>1, n \in Nat
    <3>2. Max(1..k) \in 1..k /\ k <= Max(1..k)
      BY <3>1, MaxIn
    <3> QED
      BY <2>1, <3>2
  <2>6. (1..k) \ {k} = 1..(k - 1) /\ 1..k # {} /\ 1..k \in SUBSET (1..n)
    BY ONLY <2>1, n \in Nat
  <2>7. h[1..k] = G[<<h[1..(k - 1)], k>>]
    BY <1>0, <2>4, <2>5, <2>6
  <2> QED
    BY <1>0, <1>3, <2>1, <2>4, <2>7
<1> QED
  BY <1>4, <1>5

-----------------------------------------------------------------------------
(* Folds over sets *)

\* What a fold over a set goes through: c chooses the element that is taken last.
Chooses(c, S) == \A s \in SUBSET S : s # {} => c[s] \in s
SetFolds(f, S, A, a, G, c) ==
  /\ f \in [SUBSET S -> A]
  /\ \A s \in SUBSET S : f[s] = IF s = {} THEN a ELSE G[<<c[s], f[s \ {c[s]}]>>]

\* The same for the subsets of k elements at most.
SetFoldsTo(f, k, S, A, a, G, c) ==
  /\ f \in [SUBSET S -> A]
  /\ \A s \in SUBSET S : Cardinality(s) <= k => f[s] = IF s = {} THEN a ELSE G[<<c[s], f[s \ {c[s]}]>>]

\* A set without one of its elements.
LEMMA OneLess ==
  ASSUME NEW S, IsFiniteSet(S), NEW s \in SUBSET S, NEW x \in s
  PROVE  /\ s \ {x} \in SUBSET S /\ IsFiniteSet(s) /\ Cardinality(s) \in Nat /\ Cardinality(s) > 0
         /\ Cardinality(s \ {x}) = Cardinality(s) - 1
<1>1. IsFiniteSet(s) /\ Cardinality(s) \in Nat
  BY FS_Subset, FS_CardinalityType
<1>2. IsFiniteSet(s \ {x}) /\ Cardinality(s \ {x}) = Cardinality(s) - 1
  BY <1>1, FS_RemoveElement
<1>3. Cardinality(s \ {x}) \in Nat
  BY <1>2, FS_CardinalityType
<1> QED
  BY <1>1, <1>2, <1>3

\* There is a fold for every step and every way to choose: the smallest set without one is
\* either empty or has an element that is taken last.
LEMMA SetFoldExists ==
  ASSUME NEW S, IsFiniteSet(S), NEW A, NEW a \in A, NEW G \in [S \X A -> A], NEW c, Chooses(c, S)
  PROVE  \E f : SetFolds(f, S, A, a, G, c)
<1>0. \A s \in SUBSET S : s # {} => c[s] \in s
  BY DEF Chooses
<1> DEFINE Bad == {k \in Nat : ~ \E f : SetFoldsTo(f, k, S, A, a, G, c)}
<1>1. Bad = {}
  <2> SUFFICES ASSUME Bad # {} PROVE FALSE
    OBVIOUS
  <2>1. PICK k \in Bad : \A e \in Bad : ~ (<<e, k>> \in OpToRel(<, Nat))
    <3>1. Bad \subseteq Nat
      OBVIOUS
    <3> QED
      BY <3>1, NatLessThanWellFounded, WFMin
  <2>2. k \in Nat /\ ~ \E f : SetFoldsTo(f, k, S, A, a, G, c)
    BY <2>1
  <2>3. CASE k = 0
    <3>1. PICK f : f = [s \in SUBSET S |-> a]
      OBVIOUS
    <3>2. \A s \in SUBSET S : Cardinality(s) <= k => s = {}
      <4> SUFFICES ASSUME NEW s \in SUBSET S, s # {} PROVE ~ (Cardinality(s) <= k)
        OBVIOUS
      <4>1. PICK x \in s : TRUE
        OBVIOUS
      <4>2. Cardinality(s) \in Nat /\ Cardinality(s) > 0
        BY <4>1, OneLess
      <4> QED
        BY <2>3, <4>2
    <3>3. SetFoldsTo(f, k, S, A, a, G, c)
      BY <3>1, <3>2 DEF SetFoldsTo
    <3> QED
      BY <2>2, <3>3
  <2>4. CASE k # 0
    <3>1. k - 1 \in Nat /\ k - 1 \notin Bad
      <4>1. k - 1 \in Nat /\ <<k - 1, k>> \in OpToRel(<, Nat)
        BY <2>2, <2>4 DEF OpToRel
      <4> QED
        BY <2>1, <4>1
    <3>2. PICK f : SetFoldsTo(f, k - 1, S, A, a, G, c)
      BY <3>1
    <3> HIDE DEF Bad
    <3>3. PICK g : g = [s \in SUBSET S |-> IF s = {} THEN a ELSE G[<<c[s], f[s \ {c[s]}]>>]]
      OBVIOUS
    <3>4. \A s \in SUBSET S : s # {} => /\ s \ {c[s]} \in SUBSET S /\ Cardinality(s) \in Nat
                                        /\ Cardinality(s \ {c[s]}) = Cardinality(s) - 1
      BY <1>0, OneLess
    <3>5. \A s \in SUBSET S : s # {} => f[s \ {c[s]}] \in A /\ c[s] \in S
      BY <1>0, <3>2, <3>4 DEF SetFoldsTo
    <3>6. g \in [SUBSET S -> A]
      BY <3>3, <3>5
    <3>7. \A s \in SUBSET S : Cardinality(s) <= k - 1 => f[s] = g[s]
      BY <3>2, <3>3 DEF SetFoldsTo
    <3>8. \A s \in SUBSET S : s # {} /\ Cardinality(s) <= k => g[s] = G[<<c[s], g[s \ {c[s]}]>>]
      <4> SUFFICES ASSUME NEW s \in SUBSET S, s # {}, Cardinality(s) <= k
                   PROVE  g[s] = G[<<c[s], g[s \ {c[s]}]>>]
        OBVIOUS
      <4>0. PICK r : r = s \ {c[s]}
        OBVIOUS
      <4>1. r \in SUBSET S /\ r = s \ {c[s]} /\ Cardinality(r) <= k - 1
        <5>1. r \in SUBSET S /\ Cardinality(s) \in Nat /\ Cardinality(r) = Cardinality(s) - 1
          BY ONLY <3>4, <4>0, s \in SUBSET S, s # {}
        <5>2. PICK q \in Nat : q = Cardinality(s)
          BY ONLY <5>1
        <5>3. q - 1 <= k - 1
          BY ONLY <2>2, <5>2, Cardinality(s) <= k
        <5> QED
          BY ONLY <4>0, <5>1, <5>2, <5>3
      <4>2. f[r] = g[r]
        BY <3>7, <4>1
      <4> QED
        BY <3>3, <4>1, <4>2
    <3>9. g[{}] = a
      BY <3>3
    <3>10. SetFoldsTo(g, k, S, A, a, G, c)
      BY <3>6, <3>8, <3>9 DEF SetFoldsTo
    <3> QED
      BY <2>2, <3>10
  <2> QED
    BY <2>3, <2>4
<1>2. PICK n \in Nat : n = Cardinality(S)
  BY FS_CardinalityType
<1>3. PICK f : SetFoldsTo(f, n, S, A, a, G, c)
  BY <1>1
<1> HIDE DEF Bad
<1>4. \A s \in SUBSET S : Cardinality(s) <= n
  BY <1>2, FS_Subset
<1>5. SetFolds(f, S, A, a, G, c)
  BY <1>3, <1>4 DEF SetFolds, SetFoldsTo
<1> QED
  BY <1>5

\* A fold as far as it stays in a set, and sets it goes through.
SetFoldIn(h, S, A, a, G, c) ==
  /\ h[{}] = a
  /\ \A s \in SUBSET S : s # {} /\ h[s \ {c[s]}] \in A => h[s] = G[<<c[s], h[s \ {c[s]}]>>]
SetStages(B, S, A, a, G) ==
  /\ B \in [SUBSET S -> SUBSET A] /\ a \in B[{}]
  /\ \A s \in SUBSET S : \A x \in s : \A y \in B[s \ {x}] : G[<<x, y>>] \in B[s]

\* Where an element more leads from the set for the others to the set for all, the fold ends
\* in the set for S.
LEMMA SetFoldStays ==
  ASSUME NEW S, IsFiniteSet(S), NEW A, NEW a, NEW G, NEW c, Chooses(c, S),
         NEW B, SetStages(B, S, A, a, G), NEW h, SetFoldIn(h, S, A, a, G, c)
  PROVE  h[S] \in B[S]
<1>0. /\ \A s \in SUBSET S : s # {} => c[s] \in s
      /\ B \in [SUBSET S -> SUBSET A] /\ a \in B[{}]
      /\ \A s \in SUBSET S : \A x \in s : \A y \in B[s \ {x}] : G[<<x, y>>] \in B[s]
      /\ h[{}] = a
      /\ \A s \in SUBSET S : s # {} /\ h[s \ {c[s]}] \in A => h[s] = G[<<c[s], h[s \ {c[s]}]>>]
  BY DEF Chooses, SetStages, SetFoldIn
<1> DEFINE Bad == {k \in Nat : \E s \in SUBSET S : Cardinality(s) = k /\ h[s] \notin B[s]}
<1>1. Bad = {}
  <2> SUFFICES ASSUME Bad # {} PROVE FALSE
    OBVIOUS
  <2>1. PICK k \in Bad : \A e \in Bad : ~ (<<e, k>> \in OpToRel(<, Nat))
    <3>1. Bad \subseteq Nat
      OBVIOUS
    <3> QED
      BY <3>1, NatLessThanWellFounded, WFMin
  <2>2. PICK s \in SUBSET S : Cardinality(s) = k /\ h[s] \notin B[s]
    BY <2>1
  <2>3. s # {}
    BY <1>0, <2>2
  <2>4. PICK x \in s : x = c[s]
    BY <1>0, <2>3
  <2>0. PICK r : r = s \ {x}
    OBVIOUS
  <2>5. r \in SUBSET S /\ r = s \ {x} /\ Cardinality(r) = k - 1 /\ k \in Nat /\ k > 0
    <3>1. /\ s \ {x} \in SUBSET S /\ IsFiniteSet(s) /\ Cardinality(s) \in Nat /\ Cardinality(s) > 0
          /\ Cardinality(s \ {x}) = Cardinality(s) - 1
      BY ONLY IsFiniteSet(S), s \in SUBSET S, x \in s, OneLess
    <3> QED
      BY ONLY <2>0, <2>2, <3>1
  <2>6. k - 1 \notin Bad /\ k - 1 \in Nat
    <3>1. k - 1 \in Nat /\ <<k - 1, k>> \in OpToRel(<, Nat)
      BY <2>5 DEF OpToRel
    <3> QED
      BY <2>1, <3>1
  <2>7. h[r] \in B[r] /\ h[r] \in A
    BY <1>0, <2>5, <2>6
  <2>8. h[s] = G[<<x, h[r]>>]
    BY <1>0, <2>3, <2>4, <2>5, <2>7
  <2> QED
    BY <1>0, <2>2, <2>5, <2>7, <2>8
<1>2. Cardinality(S) \in Nat /\ S \in SUBSET S
  BY FS_CardinalityType
<1> QED
  BY <1>1, <1>2

\* Whom the folds of the community modules take.
Taken(S) == [s \in SUBSET S |-> CHOOSE x \in s : TRUE]

\* They take one that is there.
LEMMA TakenChooses ==
  ASSUME NEW S
  PROVE  Chooses(Taken(S), S) /\ \A s \in SUBSET S : Taken(S)[s] = CHOOSE x \in s : TRUE
<1>1. \A s \in SUBSET S : Taken(S)[s] = CHOOSE x \in s : TRUE
  BY DEF Taken
<1>2. \A s \in SUBSET S : s # {} => (CHOOSE x \in s : TRUE) \in s
  OBVIOUS
<1> QED
  BY ONLY <1>1, <1>2 DEF Chooses

-----------------------------------------------------------------------------
(* A sum of sizes is the size of a set of pairs *)

Pairs(s, T, P) == {p \in s \X T : p[2] \in P[p[1]]}
Sizes(F, S, T, P) == \A x \in S : P[x] \in SUBSET T /\ IsFiniteSet(P[x]) /\ F[x] = Cardinality(P[x]) /\ F[x] \in Nat
Sums(h, S, F, c) == \A s \in SUBSET S : h[s] = IF s = {} THEN 0 ELSE F[c[s]] + h[s \ {c[s]}]

\* An element more adds its pairs.
LEMMA PairsMore ==
  ASSUME NEW F, NEW S, NEW T, NEW P, Sizes(F, S, T, P), NEW s \in SUBSET S, NEW x \in s,
         IsFiniteSet(Pairs(s \ {x}, T, P))
  PROVE  /\ IsFiniteSet(Pairs(s, T, P))
         /\ Cardinality(Pairs(s, T, P)) = F[x] + Cardinality(Pairs(s \ {x}, T, P))
<1>1. PICK X : X = P[x]
  OBVIOUS
<1>2. X \in SUBSET T /\ IsFiniteSet(X) /\ F[x] = Cardinality(X) /\ Cardinality(X) \in Nat
  BY <1>1 DEF Sizes
<1>3. PICK Y : Y = {x} \X X
  OBVIOUS
<1>4. IsFiniteSet(Y) /\ Cardinality(Y) = Cardinality(X)
  <2>1. PICK g : g = [y \in X |-> <<x, y>>]
    OBVIOUS
  <2>2. g \in [X -> Y] /\ (\A p \in Y : \E y \in X : g[y] = p) /\ (\A y, z \in X : g[y] = g[z] => y = z)
    BY <1>3, <2>1
  <2>3. Cardinality(Y) = Cardinality(X)
    BY <1>2, <2>2, CountedOnce
  <2>4. g \in Surjection(X, Y)
    BY <2>2 DEF Surjection
  <2> QED
    BY <1>2, <2>3, <2>4, FS_Surjection
<1>5. PICK Z : Z = Pairs(s \ {x}, T, P)
  OBVIOUS
<1>6. Pairs(s, T, P) = Z \cup Y
  BY <1>1, <1>2, <1>3, <1>5 DEF Pairs
<1>7. Z \cap Y = {}
  BY <1>3, <1>5 DEF Pairs
<1>8. IsFiniteSet(Z) /\ Cardinality(Z) \in Nat
  BY <1>5, FS_CardinalityType
<1>9. IsFiniteSet(Z \cup Y) /\ Cardinality(Z \cup Y) = Cardinality(Z) + Cardinality(Y) - Cardinality(Z \cap Y)
  BY <1>4, <1>8, FS_Union
<1>10. Cardinality(Z \cup Y) = Cardinality(X) + Cardinality(Z)
  BY ONLY <1>2, <1>4, <1>7, <1>8, <1>9, FS_EmptySet
<1> QED
  BY <1>2, <1>5, <1>6, <1>9, <1>10

SumRuns(S, F, c) == \E h : h = [s \in SUBSET S |-> IF s = {} THEN 0 ELSE F[c[s]] + h[s \ {c[s]}]]
SumCountsTo(S, F, c, X) == \A h : Sums(h, S, F, c) => h[S] = Cardinality(X) /\ IsFiniteSet(X)

\* A sum of sizes goes through the sizes of sets of pairs.
LEMMA SumCounts ==
  ASSUME NEW S, IsFiniteSet(S), NEW F, NEW T, NEW P, Sizes(F, S, T, P), NEW c, Chooses(c, S)
  PROVE  SumRuns(S, F, c) /\ SumCountsTo(S, F, c, Pairs(S, T, P))
<1>1. PICK G : G = [p \in S \X Nat |-> F[p[1]] + p[2]]
  OBVIOUS
<1>2. \A x \in S : \A y \in Nat : G[<<x, y>>] = F[x] + y /\ G[<<x, y>>] \in Nat
  BY <1>1 DEF Sizes
<1>3. G \in [S \X Nat -> Nat]
  BY <1>1, <1>2
<1>4. \A s \in SUBSET S : s # {} => c[s] \in S /\ s \ {c[s]} \in SUBSET S
  BY DEF Chooses
<1>5. PICK f : SetFolds(f, S, Nat, 0, G, c)
  BY ONLY <1>3, IsFiniteSet(S), Chooses(c, S), SetFoldExists
<1>6. f = [s \in SUBSET S |-> IF s = {} THEN 0 ELSE F[c[s]] + f[s \ {c[s]}]]
  <2>1. f \in [SUBSET S -> Nat] /\ \A s \in SUBSET S : f[s] = IF s = {} THEN 0 ELSE G[<<c[s], f[s \ {c[s]}]>>]
    BY <1>5 DEF SetFolds
  <2>2. \A s \in SUBSET S : f[s] = IF s = {} THEN 0 ELSE F[c[s]] + f[s \ {c[s]}]
    BY <1>2, <1>4, <2>1
  <2> QED
    BY <2>1, <2>2
<1>7. ASSUME NEW h, Sums(h, S, F, c)
      PROVE  h[S] = Cardinality(Pairs(S, T, P)) /\ IsFiniteSet(Pairs(S, T, P))
  <2>1. PICK B : B = [s \in SUBSET S |-> {n \in Nat : IsFiniteSet(Pairs(s, T, P)) /\ n = Cardinality(Pairs(s, T, P))}]
    OBVIOUS
  <2>2. \A s \in SUBSET S : \A n : n \in B[s] <=> n \in Nat /\ IsFiniteSet(Pairs(s, T, P)) /\ n = Cardinality(Pairs(s, T, P))
    BY <2>1
  <2>3. B \in [SUBSET S -> SUBSET Nat]
    BY <2>1
  <2>4. 0 \in B[{}]
    <3>1. Pairs({}, T, P) = {}
      BY DEF Pairs
    <3>2. IsFiniteSet(Pairs({}, T, P)) /\ 0 = Cardinality(Pairs({}, T, P))
      BY ONLY <3>1, FS_EmptySet
    <3>3. {} \in SUBSET S /\ 0 \in Nat
      OBVIOUS
    <3> QED
      BY ONLY <2>2, <3>2, <3>3
  <2>5. ASSUME NEW s \in SUBSET S, NEW x \in s, NEW y \in B[s \ {x}] PROVE G[<<x, y>>] \in B[s]
    <3>1. s \ {x} \in SUBSET S /\ x \in S
      OBVIOUS
    <3>2. y \in Nat /\ IsFiniteSet(Pairs(s \ {x}, T, P)) /\ y = Cardinality(Pairs(s \ {x}, T, P))
      BY <2>2, <3>1
    <3>3. IsFiniteSet(Pairs(s, T, P)) /\ Cardinality(Pairs(s, T, P)) = F[x] + y
      BY <3>2, PairsMore
    <3> QED
      BY <1>2, <2>2, <3>1, <3>2, <3>3
  <2>6. SetStages(B, S, Nat, 0, G)
    BY ONLY <2>3, <2>4, <2>5 DEF SetStages
  <2>7. SetFoldIn(h, S, Nat, 0, G, c)
    <3>1. h[{}] = 0
      BY <1>7 DEF Sums
    <3>2. \A s \in SUBSET S : s # {} => h[s] = F[c[s]] + h[s \ {c[s]}]
      BY <1>7 DEF Sums
    <3>3. \A s \in SUBSET S : s # {} /\ h[s \ {c[s]}] \in Nat => h[s] = G[<<c[s], h[s \ {c[s]}]>>]
      BY <1>2, <1>4, <3>2
    <3> QED
      BY ONLY <3>1, <3>3 DEF SetFoldIn
  <2>8. h[S] \in B[S]
    BY ONLY <2>6, <2>7, IsFiniteSet(S), Chooses(c, S), SetFoldStays
  <2> QED
    BY <2>2, <2>8
<1>8. SumRuns(S, F, c)
  BY ONLY <1>6 DEF SumRuns
<1>9. SumCountsTo(S, F, c, Pairs(S, T, P))
  BY ONLY <1>7 DEF SumCountsTo
<1> QED
  BY ONLY <1>8, <1>9

\* The sum of F over S, as the community modules take it.
SumOver(F, S) ==
  (CHOOSE x : x = [s \in SUBSET S |-> IF s = {} THEN 0
                                     ELSE F[CHOOSE z \in s : TRUE] + x[s \ {CHOOSE z \in s : TRUE}]])[S]

\* So the sum is the number of pairs, whatever the order in which it was taken.
LEMMA SumIs ==
  ASSUME NEW S, IsFiniteSet(S), NEW F, NEW T, NEW P, Sizes(F, S, T, P)
  PROVE  SumOver(F, S) = Cardinality(Pairs(S, T, P)) /\ IsFiniteSet(Pairs(S, T, P))
<1>1. PICK c : Chooses(c, S) /\ \A s \in SUBSET S : c[s] = CHOOSE x \in s : TRUE
  <2>1. PICK t : t = Taken(S)
    OBVIOUS
  <2>2. Chooses(t, S) /\ \A s \in SUBSET S : t[s] = CHOOSE x \in s : TRUE
    BY ONLY <2>1, TakenChooses
  <2> QED
    BY ONLY <2>2
<1>0. SumRuns(S, F, c) /\ SumCountsTo(S, F, c, Pairs(S, T, P))
  BY ONLY <1>1, IsFiniteSet(S), Sizes(F, S, T, P), SumCounts
<1>2. /\ \E h : h = [s \in SUBSET S |-> IF s = {} THEN 0 ELSE F[c[s]] + h[s \ {c[s]}]]
      /\ \A h : Sums(h, S, F, c) => h[S] = Cardinality(Pairs(S, T, P)) /\ IsFiniteSet(Pairs(S, T, P))
  BY ONLY <1>0 DEF SumRuns, SumCountsTo
<1> DEFINE Runs(x) == x = [s \in SUBSET S |-> IF s = {} THEN 0
                             ELSE F[CHOOSE z \in s : TRUE] + x[s \ {CHOOSE z \in s : TRUE}]]
<1>3. PICK f : f = [s \in SUBSET S |-> IF s = {} THEN 0 ELSE F[c[s]] + f[s \ {c[s]}]]
  BY <1>2
<1>4. Runs(f)
  BY <1>1, <1>3
<1>5. PICK h : h = (CHOOSE x : Runs(x)) /\ Runs(h)
  <2> HIDE DEF Runs
  <2>1. Runs(CHOOSE x : Runs(x))
    BY ONLY <1>4, Zenon
  <2> QED
    BY ONLY <2>1
<1>6. SumOver(F, S) = h[S]
  BY ONLY <1>5 DEF SumOver
<1>7. Sums(h, S, F, c)
  <2>1. \A s \in SUBSET S : h[s] = IF s = {} THEN 0
                             ELSE F[CHOOSE z \in s : TRUE] + h[s \ {CHOOSE z \in s : TRUE}]
    BY <1>5
  <2> QED
    BY <1>1, <2>1 DEF Sums
<1> QED
  BY <1>2, <1>6, <1>7

-----------------------------------------------------------------------------
(* How long orders wait *)

\* Intervals, one of each order.
Interval == [order : Order \cup TillOrder, start : Nat, end : Nat \cup {Open}]
Spans(I) == IsFiniteSet(I) /\ I \subseteq Interval /\ \A i, j \in I : i.order = j.order => i = j

\* The interval of an order is an interval, of that order.
LEMMA IntervalIs ==
  ASSUME NEW E, E \subseteq EventRow, NEW o \in OrdersOf(E)
  PROVE  IntervalOf(E, o) \in Interval /\ IntervalOf(E, o).order = o
<1> DEFINE own == EventsOf(E, o)
           ended == WithStatus(own, Terminal)
           first == IF WithStatus(own, {"received"}) # {} THEN WithStatus(own, {"received"}) ELSE own
           start == Earliest(first)
<1>1. own # {} /\ own \subseteq E /\ \A e \in own : e.order = o
  BY DEF OrdersOf, EventsOf
<1>2. \A e \in own : e.at \in Nat /\ e.order \in Order \cup TillOrder
  BY <1>1, ConstantsAssumption DEF EventRow, Time
<1>3. first # {} /\ first \subseteq own /\ ended \subseteq own
  BY <1>1 DEF WithStatus
<1>4. o \in Order \cup TillOrder
  BY <1>1, <1>2
<1> HIDE DEF own, first, ended
<1>5. ASSUME NEW F, F # {}, F \subseteq own PROVE Earliest(F) \in Nat
  <2>1. {e.at : e \in F} \subseteq Nat /\ {e.at : e \in F} # {}
    BY <1>2, <1>5
  <2> QED
    BY <2>1, MinIsLeast DEF Earliest
<1>6. start \in Nat
  BY <1>3, <1>5
<1>7. (IF ended = {} THEN Open ELSE Max({start, Earliest(ended)})) \in Nat \cup {Open}
  <2>1. CASE ended = {}
    BY <2>1
  <2>2. CASE ended # {}
    <3>1. PICK stop \in Nat : stop = Earliest(ended)
      BY <1>3, <1>5, <2>2
    <3>2. Max({start, stop}) \in {start, stop}
      BY <1>6, MaxOfTwo
    <3> QED
      BY <1>6, <2>2, <3>1, <3>2
  <2> QED
    BY <2>1, <2>2
<1>8. IntervalOf(E, o) = [order |-> o, start |-> start,
                          end |-> IF ended = {} THEN Open ELSE Max({start, Earliest(ended)})]
  BY DEF IntervalOf, own, first, ended
<1> HIDE DEF start
<1> QED
  BY <1>4, <1>6, <1>7, <1>8 DEF Interval

\* A set of events gives each order one interval.
LEMMA IntervalsAre ==
  ASSUME NEW E, IsFiniteSet(E), E \subseteq EventRow
  PROVE  Spans(WaitingIntervals(E))
<1>1. \A o \in OrdersOf(E) : IntervalOf(E, o) \in Interval /\ IntervalOf(E, o).order = o
  BY IntervalIs
<1>2. IsFiniteSet(WaitingIntervals(E))
  <2>1. PICK f : f = [e \in E |-> IntervalOf(E, e.order)]
    OBVIOUS
  <2>2. f \in Surjection(E, WaitingIntervals(E))
    BY <2>1 DEF Surjection, WaitingIntervals, OrdersOf
  <2> QED
    BY <2>2, FS_Surjection
<1>3. \A i \in WaitingIntervals(E) : i \in Interval /\ i = IntervalOf(E, i.order)
  BY <1>1 DEF WaitingIntervals
<1> QED
  BY <1>2, <1>3 DEF Spans

\* The larger of two numbers.
LEMMA LargerOf ==
  ASSUME NEW a \in Int, NEW b \in Int
  PROVE  Max({a, b}) = IF a < b THEN b ELSE a
<1>1. CASE a < b
  <2>1. \A y \in {a, b} : b >= y
    BY <1>1
  <2>2. \A x \in {a, b} : (\A y \in {a, b} : x >= y) => x = b
    BY <1>1
  <2> QED
    BY <1>1, <2>1, <2>2 DEF Max
<1>2. CASE ~(a < b)
  <2>1. \A y \in {a, b} : a >= y
    BY <1>2
  <2>2. \A x \in {a, b} : (\A y \in {a, b} : x >= y) => x = a
    BY <1>2
  <2> QED
    BY <1>2, <2>1, <2>2 DEF Max
<1> QED
  BY <1>1, <1>2

\* A clipped interval is the part of the wait that lies in the period.
LEMMA ClippedIs ==
  ASSUME NEW i \in Interval, NEW a \in Nat, NEW b \in Nat, NEW c, c = Clipped(i, a, b)
  PROVE  /\ c = [order |-> i.order, start |-> c.start, end |-> c.end]
         /\ c.order = i.order /\ c.start \in Nat /\ c.end \in Nat /\ a <= c.start /\ c.end <= b
         /\ \A t \in Nat : a <= t /\ t < b => (WaitsAt(i, t) <=> c.start <= t /\ t < c.end)
<1>1. i = [order |-> i.order, start |-> i.start, end |-> i.end] /\ i.start \in Nat /\ i.end \in Nat \cup {Open}
  BY DEF Interval
<1>2. PICK s \in Nat : s = Max({i.start, a}) /\ i.start <= s /\ a <= s /\ s \in {i.start, a}
  BY <1>1, MaxOfTwo
<1>3. PICK x \in Nat : x = IF i.end = Open THEN b ELSE i.end
  BY <1>1
<1>4. PICK e \in Nat : e = Min({x, b}) /\ e <= b /\ \A n \in Nat : n < e <=> n < x /\ n < b
  <2>1. Min({x, b}) \in {x, b} /\ Min({x, b}) <= b
    BY MinIsLeast
  <2> QED
    BY <2>1, MinOfTwo
<1>5. c = [i EXCEPT !.start = s, !.end = e]
  BY <1>2, <1>3, <1>4 DEF Clipped
<1>6. c = [order |-> i.order, start |-> s, end |-> e]
  BY <1>1, <1>5
<1>7. ASSUME NEW t \in Nat, a <= t, t < b PROVE WaitsAt(i, t) <=> s <= t /\ t < e
  BY <1>1, <1>2, <1>3, <1>4, <1>7 DEF WaitsAt
<1> QED
  BY <1>2, <1>4, <1>6, <1>7

\* It is as long as there are instants at which the order waits.
LEMMA TimeWaited ==
  ASSUME NEW i \in Interval, NEW a \in Nat, NEW b \in Nat, NEW c, c = Clipped(i, a, b),
         NEW T, T = {t \in a..b-1 : WaitsAt(i, t)}
  PROVE  /\ T \in SUBSET (a..b-1) /\ IsFiniteSet(T)
         /\ Max({0, c.end - c.start}) = Cardinality(T) /\ Max({0, c.end - c.start}) \in Nat
<1>1. PICK s \in Nat, e \in Nat : s = c.start /\ e = c.end
  BY ClippedIs
<1>2. a <= s /\ e <= b /\ \A t \in Nat : a <= t /\ t < b => (WaitsAt(i, t) <=> s <= t /\ t < e)
  BY <1>1, ClippedIs
<1>3. T = s..e-1
  <2>1. \A t : t \in a..b-1 <=> t \in Nat /\ a <= t /\ t < b
    OBVIOUS
  <2>2. \A t : t \in s..e-1 <=> t \in Nat /\ s <= t /\ t < e
    OBVIOUS
  <2>3. \A t : t \in T <=> t \in s..e-1
    BY <1>2, <2>1, <2>2
  <2> QED
    BY <2>3
<1>4. Max({0, e - s}) = IF 0 < e - s THEN e - s ELSE 0
  BY LargerOf
<1>5. IsFiniteSet(s..e-1) /\ Cardinality(s..e-1) = IF s > e-1 THEN 0 ELSE e-1-s+1
  BY FS_Interval
<1>6. Max({0, e - s}) = Cardinality(s..e-1) /\ Max({0, e - s}) \in Nat
  BY <1>4, <1>5
<1> QED
  BY <1>1, <1>3, <1>5, <1>6

\* The instants at which orders wait.
Waits(I, a, b) == {p \in I \X (a..b-1) : WaitsAt(p[1], p[2])}

\* ActiveTime counts them.
LEMMA ActiveIs ==
  ASSUME NEW I, Spans(I), NEW a \in Nat, NEW b \in Nat
  PROVE  ActiveTime(I, a, b) = Cardinality(Waits(I, a, b)) /\ IsFiniteSet(Waits(I, a, b))
<1>1. IsFiniteSet(I) /\ I \subseteq Interval
  BY DEF Spans
<1>2. PICK F, P : /\ F = [i \in I |-> Max({0, Clipped(i, a, b).end - Clipped(i, a, b).start})]
                  /\ P = [i \in I |-> {t \in a..b-1 : WaitsAt(i, t)}]
  OBVIOUS
<1>3. Sizes(F, I, a..b-1, P)
  <2> SUFFICES ASSUME NEW i \in I
               PROVE  /\ P[i] \in SUBSET (a..b-1) /\ IsFiniteSet(P[i])
                      /\ F[i] = Cardinality(P[i]) /\ F[i] \in Nat
    BY DEF Sizes
  <2>1. i \in Interval
    BY <1>1
  <2>2. P[i] = {t \in a..b-1 : WaitsAt(i, t)} /\ F[i] = Max({0, Clipped(i, a, b).end - Clipped(i, a, b).start})
    BY <1>2
  <2> QED
    BY <2>1, <2>2, TimeWaited
<1>4. Pairs(I, a..b-1, P) = Waits(I, a, b)
  <2>1. \A p \in I \X (a..b-1) : p[2] \in P[p[1]] <=> WaitsAt(p[1], p[2])
    BY <1>2
  <2> QED
    BY <2>1 DEF Pairs, Waits
<1>5. PICK c : Chooses(c, I) /\ \A s \in SUBSET I : c[s] = CHOOSE x \in s : TRUE
  <2>1. PICK t : t = Taken(I)
    OBVIOUS
  <2>2. Chooses(t, I) /\ \A s \in SUBSET I : t[s] = CHOOSE x \in s : TRUE
    BY ONLY <2>1, TakenChooses
  <2> QED
    BY ONLY <2>2
<1>14. SumRuns(I, F, c) /\ SumCountsTo(I, F, c, Pairs(I, a..b-1, P))
  BY ONLY <1>1, <1>3, <1>5, SumCounts
<1>6. /\ \E h : h = [s \in SUBSET I |-> IF s = {} THEN 0 ELSE F[c[s]] + h[s \ {c[s]}]]
      /\ \A h : Sums(h, I, F, c) => /\ h[I] = Cardinality(Pairs(I, a..b-1, P))
                                    /\ IsFiniteSet(Pairs(I, a..b-1, P))
  BY ONLY <1>14 DEF SumRuns, SumCountsTo
<1> DEFINE Runs(x) == x = [s \in SUBSET I |-> IF s = {} THEN 0
                             ELSE Max({0, Clipped(CHOOSE z \in s : TRUE, a, b).end - Clipped(CHOOSE z \in s : TRUE, a, b).start})
                                    + x[s \ {CHOOSE z \in s : TRUE}]]
<1>7. \A s \in SUBSET I : s # {} => F[c[s]] = Max({0, Clipped(CHOOSE z \in s : TRUE, a, b).end
                                                        - Clipped(CHOOSE z \in s : TRUE, a, b).start})
  BY <1>2, <1>5
<1>8. PICK f : f = [s \in SUBSET I |-> IF s = {} THEN 0 ELSE F[c[s]] + f[s \ {c[s]}]]
  BY <1>6
<1>9. Runs(f)
  BY <1>5, <1>7, <1>8
<1>10. PICK h : h = (CHOOSE x : Runs(x)) /\ Runs(h)
  <2> HIDE DEF Runs
  <2>1. Runs(CHOOSE x : Runs(x))
    BY ONLY <1>9, Zenon
  <2> QED
    BY ONLY <2>1
<1>11. ActiveTime(I, a, b) = h[I]
  BY ONLY <1>10 DEF ActiveTime, MapThenSumSet, MapThenFoldSet
<1>12. Sums(h, I, F, c)
  <2>1. \A s \in SUBSET I : h[s] = IF s = {} THEN 0
                             ELSE Max({0, Clipped(CHOOSE z \in s : TRUE, a, b).end - Clipped(CHOOSE z \in s : TRUE, a, b).start})
                                    + h[s \ {CHOOSE z \in s : TRUE}]
    BY <1>10
  <2> SUFFICES ASSUME NEW s \in SUBSET I
               PROVE  h[s] = IF s = {} THEN 0 ELSE F[c[s]] + h[s \ {c[s]}]
    BY DEF Sums
  <2>2. PICK z : z = c[s] /\ z = CHOOSE x \in s : TRUE
    BY <1>5
  <2>3. s # {} => F[z] = Max({0, Clipped(z, a, b).end - Clipped(z, a, b).start})
    BY ONLY <1>7, <2>2, s \in SUBSET I
  <2>4. h[s] = IF s = {} THEN 0 ELSE Max({0, Clipped(z, a, b).end - Clipped(z, a, b).start}) + h[s \ {z}]
    BY ONLY <2>1, <2>2, s \in SUBSET I
  <2> QED
    BY ONLY <2>2, <2>3, <2>4
<1> QED
  BY <1>4, <1>6, <1>11, <1>12

\* The sums of the properties.
WaitingSum(waiting, S) == MapThenSumSet(LAMBDA t : waiting[t], S)
ActiveSum(points) == MapThenSumSet(LAMBDA i : points[i].active, DOMAIN points)

\* So does the sum of how many wait at each instant.
LEMMA WaitingAdds ==
  ASSUME NEW I, Spans(I), NEW a \in Nat, NEW b \in Nat,
         NEW waiting, \A t \in a..b-1 : waiting[t] = ConcurrencyAt(I, t)
  PROVE  WaitingSum(waiting, a..b-1) = Cardinality(Waits(I, a, b))
<1>1. PICK S : S = a..b-1 /\ IsFiniteSet(S)
  BY FS_Interval
<1>2. PICK P : P = [t \in S |-> {i \in I : WaitsAt(i, t)}]
  OBVIOUS
<1>3. Sizes(waiting, S, I, P)
  <2> SUFFICES ASSUME NEW t \in S
               PROVE  /\ P[t] \in SUBSET I /\ IsFiniteSet(P[t])
                      /\ waiting[t] = Cardinality(P[t]) /\ waiting[t] \in Nat
    BY DEF Sizes
  <2>1. P[t] = {i \in I : WaitsAt(i, t)} /\ waiting[t] = Cardinality({i \in I : WaitsAt(i, t)})
    BY <1>1, <1>2 DEF ConcurrencyAt
  <2>2. P[t] \in SUBSET I /\ IsFiniteSet(I)
    BY <2>1 DEF Spans
  <2>3. IsFiniteSet(P[t]) /\ Cardinality(P[t]) \in Nat
    BY <2>2, FS_Subset, FS_CardinalityType
  <2> QED
    BY <2>1, <2>2, <2>3
<1>4. Cardinality(Pairs(S, I, P)) = Cardinality(Waits(I, a, b))
  <2>1. PICK g : g = [p \in Waits(I, a, b) |-> <<p[2], p[1]>>]
    OBVIOUS
  <2>2. \A p \in S \X I : p[2] \in P[p[1]] <=> WaitsAt(p[2], p[1])
    BY <1>2
  <2>3. g \in [Waits(I, a, b) -> Pairs(S, I, P)]
    BY <1>1, <2>1, <2>2 DEF Waits, Pairs
  <2>4. \A x \in Pairs(S, I, P) : \E p \in Waits(I, a, b) : g[p] = x
    <3> TAKE x \in Pairs(S, I, P)
    <3>1. x \in S \X I /\ WaitsAt(x[2], x[1]) /\ x = <<x[1], x[2]>>
      BY <2>2 DEF Pairs
    <3>2. <<x[2], x[1]>> \in Waits(I, a, b)
      BY <1>1, <3>1 DEF Waits
    <3> QED
      BY <2>1, <3>1, <3>2
  <2>5. \A p, q \in Waits(I, a, b) : g[p] = g[q] => p = q
    BY <2>1 DEF Waits
  <2>6. IsFiniteSet(Waits(I, a, b))
    BY ActiveIs
  <2> QED
    BY ONLY <2>3, <2>4, <2>5, <2>6, CountedOnce
<1>5. SumOver(waiting, S) = Cardinality(Pairs(S, I, P))
  BY <1>1, <1>3, SumIs
<1>6. WaitingSum(waiting, S) = SumOver(waiting, S)
  BY ONLY DEF WaitingSum, MapThenSumSet, MapThenFoldSet, SumOver
<1> QED
  BY ONLY <1>1, <1>4, <1>5, <1>6

-----------------------------------------------------------------------------
(* What a timeline misses *)

\* An order that waits by what the timeline fetched waits by the whole log; the other way
\* round too, if it did not wait just before the period.
LEMMA SeenWaits ==
  ASSUME IInv, NEW o \in Order, NEW a \in Time, NEW b \in Nat, NEW t \in Nat, a <= t, t < b,
         NEW S, S = {e \in rows : e.order \in Order}, NEW F, F = TimelineRows(S, a, b)
  PROVE  /\ o \in OrdersOf(F) /\ WaitsAt(IntervalOf(F, o), t) => o \in OrdersOf(S) /\ WaitsAt(IntervalOf(S, o), t)
         /\ o \in OrdersOf(S) /\ WaitsAt(IntervalOf(S, o), t) /\ ~(TrulyWaiting(o, a) /\ TrulyWaiting(o, a - 1))
              => o \in OrdersOf(F) /\ WaitsAt(IntervalOf(F, o), t)
<1> DEFINE all == EventsOf(S, o)
           own == EventsOf(F, o)
           first == IF WithStatus(all, {"received"}) # {} THEN WithStatus(all, {"received"}) ELSE all
           seen == IF WithStatus(own, {"received"}) # {} THEN WithStatus(own, {"received"}) ELSE own
<1>1. a \in Nat
  BY ConstantsAssumption DEF Time
<1>2. all = Log(o) /\ own = {e \in Log(o) : a <= e.at /\ e.at < b}
  BY DEF TimelineRows, Log, EventsOf
<1>3. (o \in OrdersOf(S) <=> all # {}) /\ (o \in OrdersOf(F) <=> own # {})
  BY DEF OrdersOf, EventsOf
<1>4. /\ \A e \in Log(o) : e.at \in Nat
      /\ \A d, e \in Log(o) : d.status = "received" => d.at <= e.at
      /\ \A d, e \in Log(o) : e.status \in Terminal => d.at <= e.at
  BY LogFacts
<1>5. all # {} => (WaitsAt(IntervalOf(S, o), t) <=>
         (\E s \in first : s.at <= t) /\ \A e \in WithStatus(all, Terminal) : t < e.at)
  BY <1>2, <1>4, IntervalSays
<1>6. own # {} => (WaitsAt(IntervalOf(F, o), t) <=>
         (\E s \in seen : s.at <= t) /\ \A e \in WithStatus(own, Terminal) : t < e.at)
  BY <1>2, <1>4, IntervalSays
<1>7. \A e : /\ e \in own <=> e \in all /\ a <= e.at /\ e.at < b
             /\ e \in all <=> e \in Log(o)
  BY <1>2
<1> HIDE DEF all, own
<1>8. ASSUME NEW s \in seen, s.at <= t, \A e \in WithStatus(own, Terminal) : t < e.at
      PROVE  all # {} /\ (\E r \in first : r.at <= t) /\ \A e \in WithStatus(all, Terminal) : t < e.at
  <2>1. s \in all /\ s \in Log(o) /\ a <= s.at /\ s.at \in Nat
    BY <1>4, <1>7 DEF WithStatus
  <2>2. \E r \in first : r.at <= t
    <3>1. CASE WithStatus(all, {"received"}) = {}
      BY <1>8, <2>1, <3>1
    <3>2. CASE WithStatus(all, {"received"}) # {}
      <4>1. PICK r \in WithStatus(all, {"received"}) : TRUE
        BY <3>2
      <4>2. r \in Log(o) /\ r.status = "received"
        BY <1>7, <4>1 DEF WithStatus
      <4>3. r.at <= s.at /\ r.at \in Nat
        BY <1>4, <2>1, <4>2
      <4>4. r.at <= t
        BY <1>8, <2>1, <4>3
      <4> QED
        BY <3>2, <4>1, <4>4
    <3> QED
      BY <3>1, <3>2
  <2>3. ASSUME NEW e \in WithStatus(all, Terminal) PROVE t < e.at
    <3>1. e \in Log(o) /\ e \in all /\ e.status \in Terminal /\ e.at \in Nat
      BY <1>4, <1>7 DEF WithStatus
    <3>2. s.at <= e.at
      BY <1>4, <2>1, <3>1
    <3>3. CASE e.at < b
      <4>1. e \in WithStatus(own, Terminal)
        BY <1>1, <1>7, <2>1, <3>1, <3>2, <3>3 DEF WithStatus
      <4> QED
        BY <1>8, <4>1
    <3>4. CASE ~(e.at < b)
      BY <3>1, <3>4
    <3> QED
      BY <3>3, <3>4
  <2> QED
    BY <2>1, <2>2, <2>3
<1>9. ASSUME NEW s \in first, s.at <= t, \A e \in WithStatus(all, Terminal) : t < e.at,
             ~(TrulyWaiting(o, a) /\ TrulyWaiting(o, a - 1))
      PROVE  own # {} /\ (\E r \in seen : r.at <= t) /\ \A e \in WithStatus(own, Terminal) : t < e.at
  <2>1. s \in Log(o) /\ s \in all /\ s.at \in Nat
    BY <1>4, <1>7 DEF WithStatus
  <2>2. \A e \in Log(o) : e.status \in Terminal => t < e.at /\ e.at \in Nat
    BY <1>4, <1>7, <1>9 DEF WithStatus
  <2>3. a <= s.at
    <3> SUFFICES ASSUME s.at < a PROVE FALSE
      BY <1>1, <2>1
    <3>1. s.at <= a - 1 /\ s.at <= a
      BY <1>1, <2>1
    <3>2. \A e \in Log(o) : e.status \in Terminal => a < e.at /\ a - 1 < e.at
      BY <1>1, <2>2
    <3>3. TrulyWaiting(o, a) /\ TrulyWaiting(o, a - 1)
      BY <2>1, <3>1, <3>2 DEF TrulyWaiting
    <3> QED
      BY <1>9, <3>3
  <2>4. s \in own
    BY <1>7, <1>9, <2>1, <2>3
  <2>5. \E r \in seen : r.at <= t
    <3>1. CASE WithStatus(own, {"received"}) = {}
      BY <1>9, <2>4, <3>1
    <3>2. CASE WithStatus(own, {"received"}) # {}
      <4>1. PICK r \in WithStatus(own, {"received"}) : TRUE
        BY <3>2
      <4>2. r \in Log(o) /\ r.status = "received" /\ r.at \in Nat
        BY <1>4, <1>7, <4>1 DEF WithStatus
      <4>3. r.at <= s.at
        BY <1>4, <2>1, <4>2
      <4>4. r.at <= t
        BY <1>9, <2>1, <4>2, <4>3
      <4> QED
        BY <3>2, <4>1, <4>4
    <3> QED
      BY <3>1, <3>2
  <2>6. \A e \in WithStatus(own, Terminal) : t < e.at
    BY <1>7, <2>2 DEF WithStatus
  <2> QED
    BY <2>4, <2>5, <2>6
<1> HIDE DEF first, seen
<1>10. o \in OrdersOf(F) /\ WaitsAt(IntervalOf(F, o), t) => o \in OrdersOf(S) /\ WaitsAt(IntervalOf(S, o), t)
  BY <1>3, <1>5, <1>6, <1>8
<1>11. o \in OrdersOf(S) /\ WaitsAt(IntervalOf(S, o), t) /\ ~(TrulyWaiting(o, a) /\ TrulyWaiting(o, a - 1))
         => o \in OrdersOf(F) /\ WaitsAt(IntervalOf(F, o), t)
  BY <1>3, <1>5, <1>6, <1>9
<1> QED
  BY <1>10, <1>11

\* Where what waits by some events waits by others, the first waiting is no longer.
LEMMA WaitsMore ==
  ASSUME NEW E, IsFiniteSet(E), E \subseteq EventRow, NEW G, IsFiniteSet(G), G \subseteq EventRow,
         NEW a \in Nat, NEW b \in Nat,
         \A o \in OrdersOf(E) : \A t \in a..b-1 : WaitsAt(IntervalOf(E, o), t) =>
           o \in OrdersOf(G) /\ WaitsAt(IntervalOf(G, o), t)
  PROVE  /\ ActiveTime(WaitingIntervals(E), a, b) <= ActiveTime(WaitingIntervals(G), a, b)
         /\ ActiveTime(WaitingIntervals(E), a, b) \in Nat
<1>1. PICK I, J : I = WaitingIntervals(E) /\ J = WaitingIntervals(G)
  OBVIOUS
<1>2. Spans(I) /\ Spans(J)
  BY <1>1, IntervalsAre
<1>3. PICK V, W : V = Waits(I, a, b) /\ W = Waits(J, a, b)
  OBVIOUS
<1>4. /\ ActiveTime(I, a, b) = Cardinality(V) /\ IsFiniteSet(V)
      /\ ActiveTime(J, a, b) = Cardinality(W) /\ IsFiniteSet(W)
  BY <1>2, <1>3, ActiveIs
<1>5. PICK g : g = [p \in V |-> <<IntervalOf(G, p[1].order), p[2]>>]
  OBVIOUS
<1>6. \A i \in I : i.order \in OrdersOf(E) /\ i = IntervalOf(E, i.order)
  BY <1>1, IntervalIs DEF WaitingIntervals
<1>7. \A o \in OrdersOf(G) : IntervalOf(G, o) \in J /\ IntervalOf(G, o).order = o
  BY <1>1, IntervalIs DEF WaitingIntervals
<1>8. ASSUME NEW p \in V
      PROVE  /\ p = <<p[1], p[2]>> /\ p[1] \in I /\ p[2] \in a..b-1
             /\ p[1].order \in OrdersOf(G)
             /\ <<IntervalOf(G, p[1].order), p[2]>> \in W
  <2>1. p = <<p[1], p[2]>> /\ p[1] \in I /\ p[2] \in a..b-1 /\ WaitsAt(p[1], p[2])
    BY <1>3 DEF Waits
  <2>2. p[1].order \in OrdersOf(E) /\ WaitsAt(IntervalOf(E, p[1].order), p[2])
    BY <1>6, <2>1
  <2>3. p[1].order \in OrdersOf(G) /\ WaitsAt(IntervalOf(G, p[1].order), p[2])
    BY <2>1, <2>2
  <2> QED
    BY <1>3, <1>7, <2>1, <2>3 DEF Waits
<1>9. g \in [V -> W]
  BY <1>5, <1>8
<1>10. \A p, q \in V : g[p] = g[q] => p = q
  <2> SUFFICES ASSUME NEW p \in V, NEW q \in V, g[p] = g[q] PROVE p = q
    OBVIOUS
  <2>1. p[2] = q[2] /\ IntervalOf(G, p[1].order) = IntervalOf(G, q[1].order)
    BY <1>5
  <2>2. p[1].order = q[1].order
    BY <1>7, <1>8, <2>1
  <2>4. PICK i, j : i = p[1] /\ j = q[1]
    OBVIOUS
  <2>5. i \in I /\ j \in I /\ i.order = j.order
    BY <1>8, <2>2, <2>4
  <2>6. i = IntervalOf(E, i.order) /\ j = IntervalOf(E, j.order)
    BY ONLY <1>6, <2>5
  <2>3. p[1] = q[1]
    BY ONLY <2>4, <2>5, <2>6
  <2> QED
    BY <1>8, <2>1, <2>3
<1>11. g \in Injection(V, W)
  BY <1>9, <1>10 DEF Injection, IsInjective
<1>12. Cardinality(V) <= Cardinality(W) /\ Cardinality(V) \in Nat
  BY <1>4, <1>11, FS_Injection, FS_CardinalityType
<1> QED
  BY <1>1, <1>4, <1>12

\* What the timeline does not fetch shortens a wait, and only one from before the period.
LEMMA TimelineMisses == IInv => TimelineMissesOnlyEarlier
<1> SUFFICES ASSUME IInv PROVE TimelineMissesOnlyEarlier
  OBVIOUS
<1>1. PICK S : S = {e \in rows : e.order \in Order}
  OBVIOUS
<1>2. IsFiniteSet(S) /\ S \subseteq EventRow
  BY <1>1, FS_Subset DEF IInv, LogInv, TypeOK, EventRow
<1> SUFFICES ASSUME NEW a \in Time, NEW b \in a + 1..MaxClock + 1, NEW F, F = TimelineRows(S, a, b)
             PROVE  /\ ActiveTime(WaitingIntervals(F), a, b) <= ActiveTime(WaitingIntervals(S), a, b)
                    /\ (\A o \in Order : TrulyWaiting(o, a) => ~TrulyWaiting(o, a - 1)) =>
                         ActiveTime(WaitingIntervals(F), a, b) = ActiveTime(WaitingIntervals(S), a, b)
  BY <1>1 DEF TimelineMissesOnlyEarlier
<1>3. a \in Nat /\ b \in Nat /\ a < b
  BY ConstantsAssumption DEF Time
<1>4. IsFiniteSet(F) /\ F \subseteq EventRow
  BY <1>2, FS_Subset DEF TimelineRows
<1>5. OrdersOf(S) \subseteq Order /\ OrdersOf(F) \subseteq Order
  BY <1>1 DEF OrdersOf, TimelineRows
<1>6. \A t \in a..b-1 : t \in Nat /\ a <= t /\ t < b
  BY <1>3
<1>7. ASSUME NEW o \in Order, NEW t \in a..b-1
      PROVE  /\ o \in OrdersOf(F) /\ WaitsAt(IntervalOf(F, o), t) => o \in OrdersOf(S) /\ WaitsAt(IntervalOf(S, o), t)
             /\ o \in OrdersOf(S) /\ WaitsAt(IntervalOf(S, o), t) /\ ~(TrulyWaiting(o, a) /\ TrulyWaiting(o, a - 1))
                  => o \in OrdersOf(F) /\ WaitsAt(IntervalOf(F, o), t)
  BY <1>1, <1>3, <1>6, SeenWaits
<1>8. /\ ActiveTime(WaitingIntervals(F), a, b) <= ActiveTime(WaitingIntervals(S), a, b)
      /\ ActiveTime(WaitingIntervals(F), a, b) \in Nat
  BY <1>2, <1>3, <1>4, <1>5, <1>7, WaitsMore
<1>9. ASSUME \A o \in Order : TrulyWaiting(o, a) => ~TrulyWaiting(o, a - 1)
      PROVE  /\ ActiveTime(WaitingIntervals(S), a, b) <= ActiveTime(WaitingIntervals(F), a, b)
             /\ ActiveTime(WaitingIntervals(S), a, b) \in Nat
  BY <1>2, <1>3, <1>4, <1>5, <1>7, <1>9, WaitsMore
<1> QED
  BY <1>8, <1>9

-----------------------------------------------------------------------------
(* The waiting in the points of a timeline *)

\* The points of a timeline divide the instants of its period.
InstantsDivided(points, N, a, b, w) ==
  /\ DOMAIN points = 0..N-1
  /\ \A k \in 0..N-1 : points[k].from \in Nat /\ points[k].to \in Nat
  /\ \A k \in 0..N-1 : \A t \in Nat :
       t \in points[k].from..points[k].to-1 <=> t \in a..b-1 /\ BucketIndex(t, a, w) = k
  /\ \A t \in a..b-1 : t \in Nat /\ BucketIndex(t, a, w) \in 0..N-1

\* Every instant of the period is in the one bucket of its index.
LEMMA InstantsHaveBuckets ==
  ASSUME NEW E, NEW a \in Nat, NEW b \in Nat, a < b, NEW w \in Nat, w > 0, NEW N, N = BucketCount(a, b, w)
  PROVE  N \in Nat /\ InstantsDivided(Timeline(E, a, b, w), N, a, b, w)
<1>1. PICK points : points = Timeline(E, a, b, w)
  OBVIOUS
<1>2. N \in Nat /\ Cover(N, a, b, w) /\ Indexed(a, w)
  BY Buckets
<1>3. DOMAIN points = 0..N-1
  BY <1>1 DEF Timeline
<1>4. \A k \in 0..N-1 : points[k].from = a + w * k /\ points[k].to = Min({a + w * (k + 1), b})
  BY <1>1 DEF Timeline
<1>5. \A k \in Nat : w * k \in Nat /\ a + w * k \in Nat /\ a + w * (k + 1) \in Nat
  BY SMTT(30)
<1>6. ASSUME NEW k \in 0..N-1
      PROVE  /\ points[k].from \in Nat /\ points[k].to \in Nat
             /\ \A t \in Nat : t \in points[k].from..points[k].to-1 <=> t \in a..b-1 /\ BucketIndex(t, a, w) = k
  <2>1. k \in Nat
    BY <1>2
  <2>2. PICK lo \in Nat, hi \in Nat : lo = a + w * k /\ hi = a + w * (k + 1)
    BY <1>5, <2>1
  <2>3. PICK to : to = Min({hi, b})
    OBVIOUS
  <2>4. to \in Nat /\ \A n \in Nat : n < to <=> n < hi /\ n < b
    <3>1. {hi, b} \subseteq Nat /\ {hi, b} # {}
      OBVIOUS
    <3>2. to \in {hi, b}
      BY <2>3, <3>1, MinIsLeast
    <3> QED
      BY <2>3, <3>2, MinOfTwo
  <2>5. points[k].from = lo /\ points[k].to = to
    BY <1>4, <2>2, <2>3, ZenonT(20)
  <2>6. a <= lo
    <3>1. w * k \in Nat
      BY <1>5, <2>1, ZenonT(20)
    <3>2. PICK x \in Nat : x = w * k
      BY <3>1
    <3> QED
      BY <2>2, <3>2
  <2>7. ASSUME NEW t \in Nat PROVE t \in lo..to-1 <=> t \in a..b-1 /\ BucketIndex(t, a, w) = k
    <3>1. a <= t => (BucketIndex(t, a, w) = k <=> a + w * k <= t /\ t < a + w * (k + 1))
      BY <1>2, <2>1, ZenonT(20) DEF Indexed
    <3>2. a <= t => (BucketIndex(t, a, w) = k <=> lo <= t /\ t < hi)
      BY <2>2, <3>1, ZenonT(20)
    <3>3. (t \in lo..to-1 <=> lo <= t /\ t < to) /\ (t \in a..b-1 <=> a <= t /\ t < b)
      BY <2>4
    <3> QED
      BY ONLY <2>4, <2>6, <3>2, <3>3, t \in Nat, a \in Nat, lo \in Nat
  <2> QED
    BY <2>4, <2>5, <2>7
<1>7. ASSUME NEW t \in a..b-1 PROVE t \in Nat /\ BucketIndex(t, a, w) \in 0..N-1
  <2>1. t \in Nat /\ a <= t /\ t < b
    OBVIOUS
  <2>2. PICK k \in Nat : k = BucketIndex(t, a, w)
    BY <1>2, <2>1, ZenonT(20) DEF Indexed
  <2>3. a + w * k <= t
    BY <1>2, <2>1, <2>2, ZenonT(20) DEF Indexed
  <2>4. PICK lo \in Nat : lo = a + w * k
    BY <1>5, ZenonT(20)
  <2>5. lo < b
    BY <2>1, <2>3, <2>4
  <2>6. k < N
    BY <1>2, <2>4, <2>5, ZenonT(20) DEF Cover
  <2> QED
    BY <1>2, <2>1, <2>2, <2>6
<1> QED
  BY ONLY <1>1, <1>2, <1>3, <1>6, <1>7 DEF InstantsDivided

\* What waits in the points is what waits in the period.
LEMMA ActiveAddsUp ==
  ASSUME NEW E, IsFiniteSet(E), E \subseteq EventRow, NEW a \in Nat, NEW b \in Nat, a < b, NEW w \in Nat, w > 0,
         NEW points, points = Timeline(E, a, b, w)
  PROVE  ActiveSum(points) = ActiveTime(WaitingIntervals(TimelineRows(E, a, b)), a, b)
<1>1. PICK N : N = BucketCount(a, b, w)
  OBVIOUS
<1>2. N \in Nat /\ InstantsDivided(points, N, a, b, w)
  BY <1>1, InstantsHaveBuckets
<1>3. /\ DOMAIN points = 0..N-1
      /\ \A k \in 0..N-1 : points[k].from \in Nat /\ points[k].to \in Nat
      /\ \A k \in 0..N-1 : \A t \in Nat :
           t \in points[k].from..points[k].to-1 <=> t \in a..b-1 /\ BucketIndex(t, a, w) = k
      /\ \A t \in a..b-1 : t \in Nat /\ BucketIndex(t, a, w) \in 0..N-1
  BY <1>2 DEF InstantsDivided
<1>4. PICK I : I = WaitingIntervals(TimelineRows(E, a, b))
  OBVIOUS
<1>5. Spans(I)
  <2>1. IsFiniteSet(TimelineRows(E, a, b)) /\ TimelineRows(E, a, b) \subseteq EventRow
    BY FS_Subset DEF TimelineRows
  <2> QED
    BY <1>4, <2>1, IntervalsAre
<1>6. PICK S : S = DOMAIN points
  OBVIOUS
<1>7. \A k \in S : points[k].active = ActiveTime(I, points[k].from, points[k].to)
  BY <1>3, <1>4, <1>6 DEF Timeline
<1>8. PICK T : T = Waits(I, a, b) /\ IsFiniteSet(T) /\ ActiveTime(I, a, b) = Cardinality(T)
  BY <1>5, ActiveIs
<1>9. PICK F, P : /\ F = [k \in S |-> points[k].active]
                  /\ P = [k \in S |-> Waits(I, points[k].from, points[k].to)]
  OBVIOUS
<1>10. ASSUME NEW k \in S, NEW q
       PROVE  q \in P[k] <=> q \in T /\ BucketIndex(q[2], a, w) = k
  <2>1. k \in 0..N-1 /\ P[k] = Waits(I, points[k].from, points[k].to)
    BY <1>3, <1>6, <1>9
  <2>2. points[k].from \in Nat /\ points[k].to \in Nat
    BY <1>3, <2>1
  <2>3. q \in P[k] <=> q \in I \X (points[k].from..points[k].to-1) /\ WaitsAt(q[1], q[2])
    BY ONLY <2>1 DEF Waits
  <2>4. q \in T <=> q \in I \X (a..b-1) /\ WaitsAt(q[1], q[2])
    BY ONLY <1>8 DEF Waits
  <2>5. \A t : t \in points[k].from..points[k].to-1 <=> t \in a..b-1 /\ BucketIndex(t, a, w) = k
    <3>1. \A t : t \in points[k].from..points[k].to-1 => t \in Nat
      BY <2>2
    <3> QED
      BY <1>3, <2>1, <3>1
  <2> HIDE DEF BucketIndex, WaitsAt
  <2> QED
    BY ONLY <2>3, <2>4, <2>5
<1>11. Sizes(F, S, T, P)
  <2> SUFFICES ASSUME NEW k \in S
               PROVE  P[k] \in SUBSET T /\ IsFiniteSet(P[k]) /\ F[k] = Cardinality(P[k]) /\ F[k] \in Nat
    BY DEF Sizes
  <2>1. P[k] \in SUBSET T /\ IsFiniteSet(P[k])
    BY <1>8, <1>10, FS_Subset
  <2>2. points[k].from \in Nat /\ points[k].to \in Nat
    BY <1>3, <1>6
  <2>3. F[k] = ActiveTime(I, points[k].from, points[k].to) /\ P[k] = Waits(I, points[k].from, points[k].to)
    BY <1>7, <1>9
  <2>4. F[k] = Cardinality(P[k])
    BY <1>5, <2>2, <2>3, ActiveIs
  <2> QED
    BY <2>1, <2>4, FS_CardinalityType
<1>12. Cardinality(Pairs(S, T, P)) = Cardinality(T)
  <2>1. PICK g : g = [q \in T |-> <<BucketIndex(q[2], a, w), q>>]
    OBVIOUS
  <2>2. \A q \in T : BucketIndex(q[2], a, w) \in S
    BY <1>3, <1>6, <1>8 DEF Waits
  <2>3. g \in [T -> Pairs(S, T, P)]
    BY <1>10, <2>1, <2>2 DEF Pairs
  <2>4. \A x \in Pairs(S, T, P) : \E q \in T : g[q] = x
    <3> TAKE x \in Pairs(S, T, P)
    <3>1. x = <<x[1], x[2]>> /\ x[1] \in S /\ x[2] \in T /\ x[2] \in P[x[1]]
      BY DEF Pairs
    <3>2. BucketIndex(x[2][2], a, w) = x[1]
      BY <1>10, <3>1
    <3> QED
      BY <2>1, <3>1, <3>2
  <2>5. \A p, q \in T : g[p] = g[q] => p = q
    BY <2>1
  <2> QED
    BY ONLY <1>8, <2>3, <2>4, <2>5, CountedOnce
<1>13. IsFiniteSet(S)
  BY <1>2, <1>3, <1>6, FS_Interval
<1>14. PICK c : Chooses(c, S) /\ \A s \in SUBSET S : c[s] = CHOOSE x \in s : TRUE
  <2>1. PICK t : t = Taken(S)
    OBVIOUS
  <2>2. Chooses(t, S) /\ \A s \in SUBSET S : t[s] = CHOOSE x \in s : TRUE
    BY ONLY <2>1, TakenChooses
  <2> QED
    BY ONLY <2>2
<1>22. SumRuns(S, F, c) /\ SumCountsTo(S, F, c, Pairs(S, T, P))
  BY ONLY <1>11, <1>13, <1>14, SumCounts
<1>15. /\ \E h : h = [s \in SUBSET S |-> IF s = {} THEN 0 ELSE F[c[s]] + h[s \ {c[s]}]]
       /\ \A h : Sums(h, S, F, c) => h[S] = Cardinality(Pairs(S, T, P)) /\ IsFiniteSet(Pairs(S, T, P))
  BY ONLY <1>22 DEF SumRuns, SumCountsTo
<1> DEFINE Runs(x) == x = [s \in SUBSET S |-> IF s = {} THEN 0
                             ELSE points[CHOOSE z \in s : TRUE].active + x[s \ {CHOOSE z \in s : TRUE}]]
<1>16. \A s \in SUBSET S : s # {} => F[c[s]] = points[CHOOSE z \in s : TRUE].active
  BY <1>9, <1>14
<1>17. PICK f : f = [s \in SUBSET S |-> IF s = {} THEN 0 ELSE F[c[s]] + f[s \ {c[s]}]]
  BY <1>15
<1>18. Runs(f)
  <2>1. \A s \in SUBSET S : (IF s = {} THEN 0 ELSE F[c[s]] + f[s \ {c[s]}])
                            = IF s = {} THEN 0 ELSE points[CHOOSE z \in s : TRUE].active + f[s \ {CHOOSE z \in s : TRUE}]
    <3> TAKE s \in SUBSET S
    <3>1. PICK z : z = c[s] /\ z = CHOOSE x \in s : TRUE
      BY <1>14
    <3>2. s # {} => F[z] = points[z].active
      BY ONLY <1>16, <3>1, s \in SUBSET S
    <3> QED
      BY ONLY <3>1, <3>2
  <2> QED
    BY ONLY <1>17, <2>1
<1>19. PICK h : h = (CHOOSE x : Runs(x)) /\ Runs(h)
  <2> HIDE DEF Runs
  <2>1. Runs(CHOOSE x : Runs(x))
    BY ONLY <1>18, Zenon
  <2> QED
    BY ONLY <2>1
<1>20. ActiveSum(points) = h[S]
  BY ONLY <1>6, <1>19 DEF ActiveSum, MapThenSumSet, MapThenFoldSet
<1>21. Sums(h, S, F, c)
  <2>1. \A s \in SUBSET S : h[s] = IF s = {} THEN 0
                             ELSE points[CHOOSE z \in s : TRUE].active + h[s \ {CHOOSE z \in s : TRUE}]
    BY <1>19
  <2> SUFFICES ASSUME NEW s \in SUBSET S
               PROVE  h[s] = IF s = {} THEN 0 ELSE F[c[s]] + h[s \ {c[s]}]
    BY DEF Sums
  <2>2. PICK z : z = c[s] /\ z = CHOOSE x \in s : TRUE
    BY <1>14
  <2>3. s # {} => F[z] = points[z].active
    BY ONLY <1>16, <2>2, s \in SUBSET S
  <2>4. h[s] = IF s = {} THEN 0 ELSE points[z].active + h[s \ {z}]
    BY ONLY <2>1, <2>2, s \in SUBSET S
  <2> QED
    BY ONLY <2>2, <2>3, <2>4
<1> QED
  BY <1>4, <1>6, <1>8, <1>12, <1>15, <1>20, <1>21

\* The points of a timeline share out the receptions and the waiting.
LEMMA Partitioned == IInv => BucketsPartition
<1> SUFFICES ASSUME IInv, NEW a \in Time, NEW b \in a + 1..MaxClock + 1,
                    NEW points, points = Timeline(rows, a, b, BucketWidth)
             PROVE  /\ Divide(points, WithStatus(TimelineRows(rows, a, b), {"received"}))
                    /\ MapThenSumSet(LAMBDA i : points[i].active, DOMAIN points)
                         = ActiveTime(WaitingIntervals(TimelineRows(rows, a, b)), a, b)
  BY DEF BucketsPartition
<1>1. a \in Nat /\ b \in Nat /\ a < b /\ BucketWidth \in Nat /\ BucketWidth > 0
  BY ConstantsAssumption DEF Time
<1>2. IsFiniteSet(rows) /\ rows \subseteq EventRow /\ Timed(rows)
  BY ConstantsAssumption DEF IInv, LogInv, TypeOK, EventRow, Time, Timed
<1>3. Divide(points, WithStatus(TimelineRows(rows, a, b), {"received"}))
  BY <1>1, <1>2, EventsHaveBuckets
<1>4. ActiveSum(points) = ActiveTime(WaitingIntervals(TimelineRows(rows, a, b)), a, b)
  BY ONLY <1>1, <1>2, points = Timeline(rows, a, b, BucketWidth), ActiveAddsUp
<1> QED
  BY ONLY <1>3, <1>4 DEF ActiveSum

-----------------------------------------------------------------------------
(* The changes in their order *)

\* A set of places that leaves no gap is an interval.
LEMMA NoGap ==
  ASSUME NEW n \in Nat, NEW S \in SUBSET (1..n), \A k \in S : \A j \in 1..n : j < k => j \in S
  PROVE  Cardinality(S) \in 0..n /\ S = 1..Cardinality(S)
<1>1. CASE S = {}
  <2>1. Cardinality(S) = 0
    BY <1>1, FS_EmptySet
  <2> QED
    BY <1>1, <2>1
<1>2. CASE S # {}
  <2>1. PICK m \in 1..n : m = Max(S) /\ m \in S /\ \A y \in S : y <= m
    BY <1>2, MaxIn
  <2>2. S = 1..m
    <3>1. \A j \in 1..m : j \in 1..n /\ (j < m \/ j = m)
      BY <2>1
    <3>2. \A j \in 1..m : j \in S
      BY <2>1, <3>1
    <3>3. \A j \in S : j \in 1..m
      BY <2>1
    <3> QED
      BY <3>2, <3>3
  <2>3. Cardinality(1..m) = m
    BY <2>1, FS_Interval
  <2> QED
    BY ONLY <2>1, <2>2, <2>3, n \in Nat
<1> QED
  BY <1>1, <1>2

\* What InsertAt does: m elements come before the new one.
Inserted(r, q, m, x) ==
  /\ Len(r) = Len(q) + 1
  /\ \A k \in 1..Len(r) : r[k] = IF k <= m THEN q[k] ELSE IF k = m + 1 THEN x ELSE q[k - 1]

LEMMA InsertIs ==
  ASSUME NEW D, NEW q \in Seq(D), NEW x \in D, NEW m \in 0..Len(q), NEW r, r = InsertAt(q, 1 + m, x)
  PROVE  r \in Seq(D) /\ Inserted(r, q, m, x)
<1>1. PICK n \in Nat : n = Len(q)
  BY LenProperties
<1>2. m \in Nat /\ m <= n
  BY <1>1
<1>3. PICK u : /\ u = SubSeq(q, 1, m) /\ u \in Seq(D) /\ Len(u) = m /\ \A k \in 1..m : u[k] = q[k]
  <2>1. 1 \in Int /\ m \in Int /\ (1 <= m => 1 \in 1..Len(q) /\ m \in 1..Len(q))
    BY <1>1, <1>2
  <2>2. \A k \in 1..m : k \in 1..Len(q) /\ 1 + k - 1 = k
    BY <1>1, <1>2
  <2>3. SubSeq(q, 1, m) = [k \in 1..m |-> q[k]]
    BY <1>1, <1>2, <2>2
  <2>4. SubSeq(q, 1, m) \in Seq(D) /\ Len(SubSeq(q, 1, m)) = m
    BY <1>1, <1>2, <2>2, <2>3, ElementOfSeq
  <2> QED
    BY <2>3, <2>4
<1>4. PICK v : /\ v = SubSeq(q, m + 1, n) /\ v \in Seq(D) /\ Len(v) = n - m
               /\ \A k \in 1..(n - m) : v[k] = q[k + m]
  <2>1. n - m \in Nat /\ \A k \in 1..(n - m) : k + m \in 1..Len(q) /\ (m + 1) + k - 1 = k + m
    BY <1>1, <1>2
  <2>2. SubSeq(q, m + 1, n) = [k \in 1..(n - m) |-> q[k + m]]
    BY <1>1, <1>2, <2>1
  <2>3. SubSeq(q, m + 1, n) \in Seq(D) /\ Len(SubSeq(q, m + 1, n)) = n - m
    BY <1>1, <1>2, <2>1, <2>2, ElementOfSeq
  <2> QED
    BY <2>2, <2>3
<1>5. r = (u \o <<x>>) \o v
  <2>1. (1 + m) - 1 = m /\ 1 + m = m + 1
    BY ONLY <1>2
  <2>2. r = (SubSeq(q, 1, (1 + m) - 1) \o <<x>>) \o SubSeq(q, 1 + m, Len(q))
    BY ONLY r = InsertAt(q, 1 + m, x) DEF InsertAt
  <2> QED
    BY ONLY <1>1, <1>3, <1>4, <2>1, <2>2
<1>6. PICK y : y = u \o <<x>>
  OBVIOUS
<1>7. y \in Seq(D) /\ Len(y) = m + 1 /\ (\A k \in 1..m : y[k] = q[k]) /\ y[m + 1] = x
  <2>1. <<x>> \in Seq(D) /\ Len(<<x>>) = 1 /\ <<x>>[1] = x
    OBVIOUS
  <2>2. y \in Seq(D) /\ Len(y) = m + 1
    BY <1>2, <1>3, <1>6, <2>1, ConcatProperties
  <2>3. \A k \in 1..(m + 1) : y[k] = IF k <= m THEN u[k] ELSE <<x>>[k - m]
    BY <1>2, <1>3, <1>6, <2>1, ConcatProperties
  <2> QED
    BY <1>2, <1>3, <2>1, <2>2, <2>3
<1>8. r \in Seq(D) /\ Len(r) = n + 1
  <2>1. r \in Seq(D) /\ Len(r) = Len(y) + Len(v)
    BY ONLY <1>4, <1>5, <1>6, <1>7, ConcatProperties
  <2>2. (m + 1) + (n - m) = n + 1
    BY ONLY <1>2, n \in Nat
  <2> QED
    BY ONLY <1>4, <1>7, <2>1, <2>2
<1>9. \A k \in 1..(n + 1) : r[k] = IF k <= m + 1 THEN y[k] ELSE v[k - (m + 1)]
  <2>1. \A k \in 1..(Len(y) + Len(v)) : r[k] = IF k <= Len(y) THEN y[k] ELSE v[k - Len(y)]
    BY ONLY <1>4, <1>5, <1>6, <1>7, ConcatProperties
  <2>2. (m + 1) + (n - m) = n + 1
    BY ONLY <1>2, n \in Nat
  <2> QED
    BY ONLY <1>4, <1>7, <2>1, <2>2
<1>10. \A k \in 1..(n + 1) : r[k] = IF k <= m THEN q[k] ELSE IF k = m + 1 THEN x ELSE q[k - 1]
  <2> TAKE k \in 1..(n + 1)
  <2>1. CASE k <= m
    BY <1>2, <1>7, <1>9, <2>1
  <2>2. CASE k = m + 1
    BY <1>2, <1>7, <1>9, <2>2
  <2>3. CASE k > m + 1
    <3>1. k - (m + 1) \in 1..(n - m) /\ k - (m + 1) + m = k - 1
      BY <1>1, <1>2, <2>3
    <3> QED
      BY <1>2, <1>4, <1>9, <2>3, <3>1
  <2> QED
    BY <1>2, <2>1, <2>2, <2>3
<1> QED
  BY <1>1, <1>8, <1>10 DEF Inserted

\* Changes: they have a time, and are an arrival or a departure.
Changes(D) == \A d \in D : d.at \in Int /\ d.change \in {1, -1}

\* Each of s once, none after one it comes before.
Arranges(q, s) ==
  /\ q \in Seq(s)
  /\ \A x \in s : \E k \in 1..Len(q) : q[k] = x
  /\ \A j, k \in 1..Len(q) : q[j] = q[k] => j = k
  /\ \A j, k \in 1..Len(q) : j < k => ~Before(q[k], q[j])

\* Those before a change come first.
LEMMA FirstOfThem ==
  ASSUME NEW D, Changes(D), NEW q \in Seq(D), NEW x \in D,
         \A j, k \in 1..Len(q) : j < k => ~Before(q[k], q[j]),
         NEW S, S = {k \in DOMAIN q : Before(q[k], x)}
  PROVE  Cardinality(S) \in 0..Len(q) /\ S = 1..Cardinality(S)
<1>1. PICK n \in Nat : n = Len(q) /\ DOMAIN q = 1..n
  BY LenProperties
<1>2. S \in SUBSET (1..n)
  BY <1>1
<1>3. ASSUME NEW k \in S, NEW j \in 1..n, j < k PROVE j \in S
  <2>1. k \in 1..n /\ Before(q[k], x) /\ ~Before(q[k], q[j])
    BY <1>1, <1>3
  <2>2. q[j] \in D /\ q[k] \in D
    BY <1>1, <2>1
  <2>3. /\ q[j].at \in Int /\ q[j].change \in {1, -1} /\ q[k].at \in Int /\ q[k].change \in {1, -1}
        /\ x.at \in Int /\ x.change \in {1, -1}
    BY <2>2 DEF Changes
  <2>4. Before(q[j], x)
    BY ONLY <2>1, <2>3 DEF Before
  <2> QED
    BY <1>1, <2>4
<1> QED
  BY ONLY <1>1, <1>2, <1>3, NoGap

\* One more, put behind those that come before it, leaves the changes arranged.
LEMMA InsertedIs ==
  ASSUME NEW D, Changes(D), NEW s \in SUBSET D, NEW x \in s, NEW q, Arranges(q, s \ {x}),
         NEW r, r = InsertAt(q, 1 + Cardinality({k \in DOMAIN q : Before(q[k], x)}), x)
  PROVE  Arranges(r, s)
<1>1. /\ q \in Seq(s \ {x})
      /\ \A y \in s \ {x} : \E k \in 1..Len(q) : q[k] = y
      /\ \A j, k \in 1..Len(q) : q[j] = q[k] => j = k
      /\ \A j, k \in 1..Len(q) : j < k => ~Before(q[k], q[j])
  BY DEF Arranges
<1>2. PICK n \in Nat : n = Len(q) /\ DOMAIN q = 1..n
  BY <1>1, LenProperties
<1>3. \A k \in 1..n : q[k] \in s \ {x}
  BY <1>1, <1>2
<1>4. q \in Seq(s) /\ q \in Seq(D)
  BY <1>1, <1>2, <1>3, ElementOfSeq
<1>5. PICK S : S = {k \in DOMAIN q : Before(q[k], x)}
  OBVIOUS
<1>6. PICK m \in 0..n : m = Cardinality(S) /\ S = 1..m
  <2>1. x \in D
    OBVIOUS
  <2>3. q \in Seq(D) /\ \A j, k \in 1..Len(q) : j < k => ~Before(q[k], q[j])
    BY ONLY <1>1, <1>4
  <2>2. Cardinality(S) \in 0..Len(q) /\ S = 1..Cardinality(S)
    BY ONLY Changes(D), <1>5, <2>1, <2>3, FirstOfThem
  <2> QED
    BY ONLY <1>2, <2>2
<1>7. r = InsertAt(q, 1 + m, x)
  BY <1>5, <1>6
<1>8. /\ r \in Seq(s) /\ Len(r) = n + 1
      /\ \A k \in 1..(n + 1) : r[k] = IF k <= m THEN q[k] ELSE IF k = m + 1 THEN x ELSE q[k - 1]
  <2>1. m \in 0..Len(q) /\ x \in s
    BY <1>2
  <2>2. r \in Seq(s) /\ Inserted(r, q, m, x)
    BY ONLY <1>4, <1>7, <2>1, InsertIs
  <2> QED
    BY ONLY <1>2, <2>2 DEF Inserted
<1>9. \A k \in 1..n : Before(q[k], x) <=> k <= m
  <2>1. \A k \in 1..n : k \in S <=> k <= m
    <3> TAKE k \in 1..n
    <3>1. k \in Int /\ 1 <= k
      BY ONLY n \in Nat, k \in 1..n
    <3>2. k \in 1..m <=> k <= m
      BY ONLY <3>1, m \in 0..n, n \in Nat
    <3> QED
      BY ONLY <1>6, <3>2
  <2> QED
    BY <1>2, <1>5, <2>1
\* From where an element of r comes.
<1>10. \A k \in 1..(n + 1) : \/ k <= m /\ k \in 1..n /\ r[k] = q[k]
                             \/ k = m + 1 /\ r[k] = x
                             \/ k > m + 1 /\ k - 1 \in 1..n /\ r[k] = q[k - 1]
  BY <1>6, <1>8
<1>11. \A y \in s : \E k \in 1..Len(r) : r[k] = y
  <2> TAKE y \in s
  <2>1. CASE y = x
    <3>1. m + 1 \in 1..(n + 1) /\ ~(m + 1 <= m)
      BY <1>6
    <3>2. r[m + 1] = x
      BY <1>8, <3>1
    <3> QED
      BY <1>8, <2>1, <3>1, <3>2
  <2>2. CASE y # x
    <3>1. PICK k \in 1..n : q[k] = y
      BY <1>1, <1>2, <2>2
    <3>2. CASE k <= m
      <4>1. k \in 1..(n + 1)
        OBVIOUS
      <4>2. r[k] = y
        BY <1>8, <3>1, <3>2, <4>1
      <4> QED
        BY <1>8, <4>1, <4>2
    <3>3. CASE k > m
      <4>1. k + 1 \in 1..(n + 1) /\ ~(k + 1 <= m) /\ k + 1 # m + 1 /\ k + 1 - 1 = k
        BY <1>6, <3>3
      <4>2. r[k + 1] = y
        BY <1>8, <3>1, <4>1
      <4> QED
        BY <1>8, <4>1, <4>2
    <3>4. k \in Int /\ m \in Int
      BY ONLY n \in Nat, k \in 1..n, m \in 0..n
    <3>5. k <= m \/ k > m
      BY ONLY <3>4
    <3> QED
      BY ONLY <3>2, <3>3, <3>5
  <2> QED
    BY <2>1, <2>2
<1>12. ASSUME NEW j \in 1..(n + 1), NEW k \in 1..(n + 1), r[j] = r[k] PROVE j = k
  <2>1. \A i \in 1..n : q[i] # x
    BY <1>3
  <2>2. \A i, l \in 1..n : q[i] = q[l] => i = l
    BY <1>1, <1>2
  <2> QED
    BY <1>6, <1>10, <1>12, <2>1, <2>2
<1>13. ASSUME NEW j \in 1..(n + 1), NEW k \in 1..(n + 1), j < k PROVE ~Before(r[k], r[j])
  <2>1. \A i, l \in 1..n : i < l => ~Before(q[l], q[i])
    BY <1>1, <1>2
  <2>2. \A i \in 1..n : Before(q[i], x) => ~Before(x, q[i])
    <3> SUFFICES ASSUME NEW i \in 1..n, Before(q[i], x) PROVE ~Before(x, q[i])
      OBVIOUS
    <3>1. q[i].at \in Int /\ q[i].change \in {1, -1} /\ x.at \in Int /\ x.change \in {1, -1}
      BY <1>3 DEF Changes
    <3> QED
      BY <3>1 DEF Before
  <2>3. CASE k <= m /\ j <= m
    BY <1>6, <1>8, <1>13, <2>1, <2>3
  <2>4. CASE k = m + 1 /\ j <= m
    <3>1. k \in 1..(n + 1) /\ ~(k <= m) /\ j \in 1..n
      BY ONLY <2>4, m \in 0..n, n \in Nat, j \in 1..(n + 1), k \in 1..(n + 1)
    <3>2. r[k] = x /\ r[j] = q[j]
      BY ONLY <1>8, <2>4, <3>1, j \in 1..(n + 1)
    <3>3. Before(q[j], x)
      BY ONLY <1>9, <2>4, <3>1
    <3> QED
      BY ONLY <2>2, <3>1, <3>2, <3>3
  <2>5. CASE k > m + 1 /\ j <= m
    <3>1. k - 1 \in 1..n /\ j \in 1..n /\ j < k - 1 /\ ~(k <= m) /\ k # m + 1
      BY <1>6, <2>5
    <3> QED
      BY <1>8, <2>1, <2>5, <3>1
  <2>6. CASE k > m + 1 /\ j = m + 1
    <3>1. k - 1 \in 1..n /\ ~(k - 1 <= m) /\ ~(k <= m) /\ k # m + 1 /\ ~(j <= m)
      BY ONLY <2>6, m \in 0..n, n \in Nat, j \in 1..(n + 1), k \in 1..(n + 1)
    <3> QED
      BY <1>8, <1>9, <2>6, <3>1
  <2>7. CASE k > m + 1 /\ j > m + 1
    <3>1. k - 1 \in 1..n /\ j - 1 \in 1..n /\ j - 1 < k - 1 /\ ~(k <= m) /\ k # m + 1 /\ ~(j <= m) /\ j # m + 1
      BY <1>6, <1>13, <2>7
    <3> QED
      BY <1>8, <2>1, <3>1
  <2> QED
    BY <1>6, <1>13, <2>3, <2>4, <2>5, <2>6, <2>7
<1> QED
  BY <1>8, <1>11, <1>12, <1>13 DEF Arranges

\* Sorted arranges the changes.
LEMMA SortedIs ==
  ASSUME NEW D, IsFiniteSet(D), Changes(D)
  PROVE  Arranges(Sorted(D), D)
<1> DEFINE Put(d, q) == InsertAt(q, 1 + Cardinality({k \in DOMAIN q : Before(q[k], d)}), d)
<1>1. PICK A : A = Seq(D)
  OBVIOUS
<1>2. \A d \in D : \A q \in A : Put(d, q) \in A
  <2> SUFFICES ASSUME NEW d \in D, NEW q \in Seq(D) PROVE Put(d, q) \in Seq(D)
    BY <1>1
  <2>1. PICK n \in Nat : n = Len(q) /\ DOMAIN q = 1..n
    BY LenProperties
  <2>2. PICK S : S = {k \in DOMAIN q : Before(q[k], d)}
    OBVIOUS
  <2>3. Cardinality(S) \in 0..n
    <3>1. IsFiniteSet(1..n) /\ Cardinality(1..n) = n
      BY FS_Interval
    <3>2. S \in SUBSET (1..n)
      BY <2>1, <2>2
    <3>3. PICK T : T = 1..n
      OBVIOUS
    <3>4. IsFiniteSet(S) /\ Cardinality(S) <= n
      BY ONLY <3>1, <3>2, <3>3, FS_Subset
    <3>5. Cardinality(S) \in Nat
      BY ONLY <3>4, FS_CardinalityType
    <3> QED
      BY ONLY <3>4, <3>5, n \in Nat
  <2>4. PICK m \in 0..Len(q) : m = Cardinality(S)
    BY <2>1, <2>3
  <2>5. PICK r : r = InsertAt(q, 1 + m, d)
    OBVIOUS
  <2>6. r \in Seq(D)
    BY ONLY <2>5, q \in Seq(D), d \in D, m \in 0..Len(q), InsertIs
  <2> QED
    BY ONLY <2>2, <2>4, <2>5, <2>6
<1> HIDE DEF Put
<1>3. PICK G : G = [p \in D \X A |-> Put(p[1], p[2])]
  OBVIOUS
<1>4. G \in [D \X A -> A] /\ \A d \in D : \A q \in A : G[<<d, q>>] = Put(d, q)
  BY <1>2, <1>3
<1>5. PICK c : Chooses(c, D) /\ \A s \in SUBSET D : c[s] = CHOOSE x \in s : TRUE
  <2>1. PICK t : t = Taken(D)
    OBVIOUS
  <2>2. Chooses(t, D) /\ \A s \in SUBSET D : t[s] = CHOOSE x \in s : TRUE
    BY ONLY <2>1, TakenChooses
  <2> QED
    BY ONLY <2>2
<1>6. <<>> \in A
  BY <1>1
<1>7. PICK f : SetFolds(f, D, A, <<>>, G, c)
  BY ONLY <1>4, <1>5, <1>6, IsFiniteSet(D), SetFoldExists
<1>8. \A s \in SUBSET D : s # {} => c[s] \in D /\ s \ {c[s]} \in SUBSET D
  BY <1>5 DEF Chooses
<1> DEFINE Runs(x) == x = [s \in SUBSET D |-> IF s = {} THEN <<>>
                             ELSE Put(CHOOSE z \in s : TRUE, x[s \ {CHOOSE z \in s : TRUE}])]
<1>9. Runs(f)
  <2>1. f \in [SUBSET D -> A] /\ \A s \in SUBSET D : f[s] = IF s = {} THEN <<>> ELSE G[<<c[s], f[s \ {c[s]}]>>]
    BY <1>7 DEF SetFolds
  <2>2. \A s \in SUBSET D : s # {} => G[<<c[s], f[s \ {c[s]}]>>] = Put(c[s], f[s \ {c[s]}])
    BY <1>4, <1>8, <2>1
  <2>3. \A s \in SUBSET D : f[s] = IF s = {} THEN <<>> ELSE Put(c[s], f[s \ {c[s]}])
    BY ONLY <2>1, <2>2
  <2>4. \A s \in SUBSET D : f[s] = IF s = {} THEN <<>>
                                  ELSE Put(CHOOSE z \in s : TRUE, f[s \ {CHOOSE z \in s : TRUE}])
    BY ONLY <1>5, <2>3
  <2> QED
    BY ONLY <2>1, <2>4
<1>10. PICK h : h = (CHOOSE x : Runs(x)) /\ Runs(h)
  <2> HIDE DEF Runs
  <2>1. Runs(CHOOSE x : Runs(x))
    BY ONLY <1>9, Zenon
  <2> QED
    BY ONLY <2>1
<1>11. Sorted(D) = h[D]
  BY ONLY <1>10 DEF Sorted, FoldSet, MapThenFoldSet, Put
<1>12. SetFoldIn(h, D, A, <<>>, G, c)
  <2>1. \A s \in SUBSET D : h[s] = IF s = {} THEN <<>>
                                  ELSE Put(CHOOSE z \in s : TRUE, h[s \ {CHOOSE z \in s : TRUE}])
    BY <1>10
  <2>2. h[{}] = <<>>
    BY <2>1
  <2>3. \A s \in SUBSET D : s # {} => h[s] = Put(c[s], h[s \ {c[s]}])
    BY <1>5, <2>1
  <2>4. \A s \in SUBSET D : s # {} /\ h[s \ {c[s]}] \in A => h[s] = G[<<c[s], h[s \ {c[s]}]>>]
    BY <1>4, <1>8, <2>3
  <2> QED
    BY ONLY <2>2, <2>4 DEF SetFoldIn
<1>13. PICK B : B = [s \in SUBSET D |-> {q \in A : Arranges(q, s)}]
  OBVIOUS
<1>14. \A s \in SUBSET D : \A q : q \in B[s] <=> q \in A /\ Arranges(q, s)
  BY <1>13
<1>15. SetStages(B, D, A, <<>>, G)
  <2>1. B \in [SUBSET D -> SUBSET A]
    BY <1>13
  <2>2. <<>> \in B[{}]
    <3>1. Len(<<>>) = 0 /\ <<>> \in Seq({})
      OBVIOUS
    <3>2. Arranges(<<>>, {})
      BY <3>1 DEF Arranges
    <3> QED
      BY <1>6, <1>14, <3>2
  <2>3. ASSUME NEW s \in SUBSET D, NEW x \in s, NEW y \in B[s \ {x}] PROVE G[<<x, y>>] \in B[s]
    <3>1. s \ {x} \in SUBSET D /\ x \in D
      OBVIOUS
    <3>2. y \in A /\ Arranges(y, s \ {x})
      BY <1>14, <3>1
    <3>3. Arranges(Put(x, y), s)
      BY <3>2, InsertedIs DEF Put
    <3>4. G[<<x, y>>] = Put(x, y) /\ Put(x, y) \in A
      BY <1>2, <1>4, <3>1, <3>2
    <3> QED
      BY <1>14, <3>3, <3>4
  <2> QED
    BY ONLY <2>1, <2>2, <2>3 DEF SetStages
<1>16. h[D] \in B[D]
  BY ONLY <1>5, <1>12, <1>15, IsFiniteSet(D), SetFoldStays
<1> QED
  BY <1>11, <1>14, <1>16

-----------------------------------------------------------------------------
(* The sweep *)

\* A change passed.
Passed(acc, d) == [running |-> acc.running + d.change, peak |-> Max({acc.peak, acc.running + d.change})]
Still == [running |-> 0, peak |-> 0]
Swept(q) ==
  FoldLeft(LAMBDA acc, d : LET running == acc.running + d.change
                           IN [running |-> running, peak |-> Max({acc.peak, running})],
           [running |-> 0, peak |-> 0], q)

\* The numbers a sweep runs through, and the largest of them.
RunsThrough(R, n, q) ==
  /\ DOMAIN q = 1..n /\ \A k \in 1..n : q[k].change \in Int
  /\ R \in [0..n -> Nat] /\ R[0] = 0 /\ \A k \in 1..n : R[k] = R[k - 1] + q[k].change
Largest(p, R, n) == (\E j \in 0..n : p = R[j]) /\ (\A j \in 0..n : R[j] <= p)

\* A sweep has the largest of the numbers it runs through.
LEMMA SweptIs ==
  ASSUME NEW n \in Nat, NEW q, NEW R, RunsThrough(R, n, q)
  PROVE  Largest(Swept(q).peak, R, n)
<1>0. /\ DOMAIN q = 1..n /\ \A k \in 1..n : q[k].change \in Int
      /\ R \in [0..n -> Nat] /\ R[0] = 0 /\ \A k \in 1..n : R[k] = R[k - 1] + q[k].change
  BY DEF RunsThrough
<1>1. PICK A : A = [running : Int, peak : Int]
  OBVIOUS
<1>2. \A x \in A : \A k \in 1..n : Passed(x, q[k]) \in A
  <2> SUFFICES ASSUME NEW x \in A, NEW k \in 1..n PROVE Passed(x, q[k]) \in A
    OBVIOUS
  <2>1. x.running \in Int /\ x.peak \in Int /\ q[k].change \in Int
    BY <1>0, <1>1
  <2>2. PICK u \in Int, w \in Int : u = x.peak /\ w = x.running + q[k].change
    BY <2>1
  <2>3. Max({u, w}) \in Int
    BY LargerOf
  <2> QED
    BY <1>1, <2>1, <2>2, <2>3 DEF Passed
<1>3. PICK G : G = [p \in A \X (1..n) |-> Passed(p[1], q[p[2]])]
  OBVIOUS
<1>4. G \in [A \X (1..n) -> A] /\ \A x \in A : \A k \in 1..n : G[<<x, k>>] = Passed(x, q[k])
  BY <1>2, <1>3
<1>5. Still \in A
  BY <1>1 DEF Still
<1>6. PICK f : Folds(f, n, A, Still, G)
  BY ONLY <1>4, <1>5, n \in Nat, FoldExists
<1>7. \A s \in SUBSET (1..n) : s # {} => Max(s) \in 1..n /\ s \ {Max(s)} \in SUBSET (1..n)
  BY MaxIn
<1> DEFINE Runs(x) == x = [s \in SUBSET (1..n) |->
                             IF s = {} THEN Still ELSE Passed(x[s \ {Max(s)}], q[Max(s)])]
<1>8. Runs(f)
  <2>1. f \in [SUBSET (1..n) -> A] /\ \A s \in SUBSET (1..n) : f[s] = IF s = {} THEN Still ELSE G[<<f[s \ {Max(s)}], Max(s)>>]
    BY <1>6 DEF Folds
  <2>2. \A s \in SUBSET (1..n) : s # {} => G[<<f[s \ {Max(s)}], Max(s)>>] = Passed(f[s \ {Max(s)}], q[Max(s)])
    BY <1>4, <1>7, <2>1
  <2>3. \A s \in SUBSET (1..n) : f[s] = IF s = {} THEN Still ELSE Passed(f[s \ {Max(s)}], q[Max(s)])
    BY ONLY <2>1, <2>2
  <2> QED
    BY ONLY <2>1, <2>3
<1>9. PICK h : h = (CHOOSE x : Runs(x)) /\ Runs(h)
  <2> HIDE DEF Runs
  <2>1. Runs(CHOOSE x : Runs(x))
    BY ONLY <1>8, Zenon
  <2> QED
    BY ONLY <2>1
<1>10. Swept(q) = h[1..n]
  <2>1. Swept(q) = (CHOOSE x : x = [s \in SUBSET DOMAIN q |->
                      IF s = {} THEN Still ELSE Passed(x[s \ {Max(s)}], q[Max(s)])])[DOMAIN q]
    BY ONLY DEF Swept, FoldLeft, MapThenFoldSet, Passed, Still
  <2> QED
    BY ONLY <1>0, <1>9, <2>1
<1>11. FoldIn(h, n, A, Still, G)
  <2>1. \A s \in SUBSET (1..n) : h[s] = IF s = {} THEN Still ELSE Passed(h[s \ {Max(s)}], q[Max(s)])
    BY <1>9
  <2>2. h[{}] = Still
    BY <2>1
  <2>3. \A s \in SUBSET (1..n) : s # {} => h[s] = Passed(h[s \ {Max(s)}], q[Max(s)])
    BY ONLY <2>1
  <2>4. \A s \in SUBSET (1..n) : s # {} /\ h[s \ {Max(s)}] \in A => h[s] = G[<<h[s \ {Max(s)}], Max(s)>>]
    BY <1>4, <1>7, <2>3
  <2> QED
    BY ONLY <2>2, <2>4 DEF FoldIn
<1>12. PICK B : B = [k \in 0..n |-> {x \in A : /\ x.running = R[k]
                                              /\ (\E j \in 0..k : x.peak = R[j])
                                              /\ (\A j \in 0..k : R[j] <= x.peak)}]
  OBVIOUS
<1>13. \A k \in 0..n : \A x : x \in B[k] <=> /\ x \in A /\ x.running = R[k]
                                             /\ \E j \in 0..k : x.peak = R[j]
                                             /\ \A j \in 0..k : R[j] <= x.peak
  BY <1>12
<1>14. Stages(B, n, A, Still, G)
  <2>1. B \in [0..n -> SUBSET A]
    BY <1>12
  <2>2. Still \in B[0]
    <3>1. 0 \in 0..n /\ \A j \in 0..0 : j = 0
      OBVIOUS
    <3>2. Still.running = 0 /\ Still.peak = 0
      BY DEF Still
    <3>3. R[0] = 0 /\ 0 \in 0..0 /\ 0 <= 0
      BY ONLY <1>0
    <3>4. PICK x : x = Still
      OBVIOUS
    <3>5. x \in A /\ x.running = R[0] /\ (\E j \in 0..0 : x.peak = R[j]) /\ \A j \in 0..0 : R[j] <= x.peak
      BY ONLY <1>5, <3>1, <3>2, <3>3, <3>4
    <3> QED
      BY ONLY <1>13, <3>1, <3>4, <3>5
  <2>3. ASSUME NEW k \in 1..n, NEW x \in B[k - 1] PROVE G[<<x, k>>] \in B[k]
    <3>1. k - 1 \in 0..n /\ k \in 0..n /\ k \in 0..k
      OBVIOUS
    <3>2. /\ x \in A /\ x.running = R[k - 1] /\ \E j \in 0..(k - 1) : x.peak = R[j]
          /\ \A j \in 0..(k - 1) : R[j] <= x.peak
      BY <1>13, <3>1
    <3>3. PICK y : y = Passed(x, q[k])
      OBVIOUS
    <3>4. y.running = R[k]
      BY <1>0, <3>2, <3>3 DEF Passed
    <3>5. y.peak = Max({x.peak, R[k]}) /\ x.peak \in Int /\ R[k] \in Nat
      BY <1>0, <1>1, <3>1, <3>2, <3>3 DEF Passed
    <3>6. y.peak = IF x.peak < R[k] THEN R[k] ELSE x.peak
      <4>1. PICK u \in Int, w \in Int : u = x.peak /\ w = R[k]
        BY <3>5
      <4>2. Max({u, w}) = IF u < w THEN w ELSE u
        BY LargerOf
      <4> QED
        BY ONLY <3>5, <4>1, <4>2
    <3>7. \A j \in 0..k : j \in 0..(k - 1) \/ j = k
      OBVIOUS
    <3>8. \A j \in 0..(k - 1) : j \in 0..k /\ R[j] \in Nat
      BY <1>0
    <3>9. \E j \in 0..k : y.peak = R[j]
      BY <3>1, <3>2, <3>6, <3>8
    <3>10. \A j \in 0..k : R[j] <= y.peak
      <4> TAKE j \in 0..k
      <4>1. CASE j = k
        BY <3>5, <3>6, <4>1
      <4>2. CASE j \in 0..(k - 1)
        <5>1. R[j] <= x.peak /\ R[j] \in Nat
          BY <3>2, <3>8, <4>2
        <5> QED
          BY <3>5, <3>6, <5>1
      <4> QED
        BY <3>7, <4>1, <4>2
    <3>11. G[<<x, k>>] = y /\ y \in A
      BY <1>2, <1>4, <3>2, <3>3
    <3> QED
      BY <1>13, <3>1, <3>4, <3>9, <3>10, <3>11
  <2> QED
    BY ONLY <2>1, <2>2, <2>3 DEF Stages
<1>15. h[1..n] \in B[n]
  BY ONLY <1>11, <1>14, n \in Nat, FoldStays
<1>16. n \in 0..n
  OBVIOUS
<1> QED
  BY <1>10, <1>13, <1>15, <1>16 DEF Largest

\* The arrival and the departure of a wait.
Arrival(i) == [at |-> i.start, change |-> 1, order |-> i.order]
Departure(i) == [at |-> i.end, change |-> -1, order |-> i.order]

\* Waits that begin and end in a period.
Inside(I, a, b) == {i \in {Clipped(j, a, b) : j \in I} : i.start < i.end}
Within(J, a, b) ==
  /\ IsFiniteSet(J)
  /\ \A i \in J : i.start \in Nat /\ i.end \in Nat /\ a <= i.start /\ i.start < i.end /\ i.end <= b
  /\ \A i, j \in J : i.order = j.order => i = j
Ends(J) == UNION {{Arrival(i), Departure(i)} : i \in J}

\* Those that wait at an instant of the period are those whose part within it covers the instant.
LEMMA InsideIs ==
  ASSUME NEW I, Spans(I), NEW a \in Nat, NEW b \in Nat
  PROVE  /\ Within(Inside(I, a, b), a, b)
         /\ \A t \in a..b-1 : Cardinality({i \in Inside(I, a, b) : i.start <= t /\ t < i.end}) = ConcurrencyAt(I, t)
<1>1. IsFiniteSet(I) /\ I \subseteq Interval /\ \A i, j \in I : i.order = j.order => i = j
  BY DEF Spans
<1>2. PICK J : J = Inside(I, a, b)
  OBVIOUS
<1>3. PICK g : g = [i \in I |-> Clipped(i, a, b)]
  OBVIOUS
<1>4. \A i \in I : /\ g[i].order = i.order /\ g[i].start \in Nat /\ g[i].end \in Nat
                   /\ a <= g[i].start /\ g[i].end <= b
                   /\ \A t \in Nat : a <= t /\ t < b => (WaitsAt(i, t) <=> g[i].start <= t /\ t < g[i].end)
  <2> TAKE i \in I
  <2>1. i \in Interval /\ g[i] = Clipped(i, a, b)
    BY <1>1, <1>3
  <2> QED
    BY <2>1, ClippedIs
<1>5. \A x : x \in J <=> \E i \in I : x = g[i] /\ x.start < x.end
  BY <1>2, <1>3 DEF Inside
<1>6. IsFiniteSet(J)
  <2>1. g \in Surjection(I, {g[i] : i \in I})
    BY <1>3 DEF Surjection
  <2>2. IsFiniteSet({g[i] : i \in I})
    BY <1>1, <2>1, FS_Surjection
  <2>3. J \subseteq {g[i] : i \in I}
    BY <1>5
  <2> QED
    BY <2>2, <2>3, FS_Subset
<1>7. Within(J, a, b)
  <2>1. \A i \in J : i.start \in Nat /\ i.end \in Nat /\ a <= i.start /\ i.start < i.end /\ i.end <= b
    BY <1>4, <1>5
  <2>2. \A i, j \in J : i.order = j.order => i = j
    BY <1>1, <1>4, <1>5
  <2> QED
    BY <1>6, <2>1, <2>2 DEF Within
<1>8. ASSUME NEW t \in a..b-1
      PROVE  Cardinality({i \in J : i.start <= t /\ t < i.end}) = ConcurrencyAt(I, t)
  <2>1. t \in Nat /\ a <= t /\ t < b
    OBVIOUS
  <2>2. PICK U, V : U = {i \in I : WaitsAt(i, t)} /\ V = {i \in J : i.start <= t /\ t < i.end}
    OBVIOUS
  <2>3. IsFiniteSet(U)
    BY <1>1, <2>2, FS_Subset
  <2>4. \A i \in I : i \in U <=> g[i].start <= t /\ t < g[i].end
    BY <1>4, <2>1, <2>2
  <2>5. \A i \in U : g[i] \in V
    <3> TAKE i \in U
    <3>1. i \in I /\ g[i].start <= t /\ t < g[i].end /\ g[i].start \in Nat /\ g[i].end \in Nat
      BY <1>4, <2>2, <2>4
    <3>2. g[i].start < g[i].end
      BY <2>1, <3>1
    <3> QED
      BY <1>5, <2>2, <3>1, <3>2
  <2>6. \A x \in V : \E i \in U : g[i] = x
    BY <1>5, <2>2, <2>4
  <2>7. PICK f : f = [i \in U |-> g[i]]
    OBVIOUS
  <2>8. f \in [U -> V] /\ (\A x \in V : \E i \in U : f[i] = x) /\ \A i, j \in U : f[i] = f[j] => i = j
    <3>1. \A i, j \in U : i \in I /\ j \in I
      BY <2>2
    <3>2. \A i, j \in U : g[i] = g[j] => i = j
      BY <1>1, <1>4, <3>1
    <3> QED
      BY <2>5, <2>6, <2>7, <3>2
  <2>9. Cardinality(V) = Cardinality(U)
    BY ONLY <2>3, <2>8, CountedOnce
  <2> QED
    BY <2>2, <2>9 DEF ConcurrencyAt
<1> QED
  BY <1>2, <1>7, <1>8

\* Their changes are finitely many, and each is the arrival or the departure of one wait.
LEMMA EndsAre ==
  ASSUME NEW J, NEW a \in Nat, NEW b \in Nat, Within(J, a, b)
  PROVE  /\ IsFiniteSet(Ends(J)) /\ Changes(Ends(J))
         /\ \A i \in J : Arrival(i) \in Ends(J) /\ Departure(i) \in Ends(J)
         /\ \A d \in Ends(J) : \E i \in J : d = Arrival(i) \/ d = Departure(i)
         /\ \A i, j \in J : /\ Arrival(i) # Departure(j) /\ (Arrival(i) = Arrival(j) => i = j)
                            /\ (Departure(i) = Departure(j) => i = j)
         /\ \A i \in J : Before(Arrival(i), Departure(i))
<1>1. /\ IsFiniteSet(J)
      /\ \A i \in J : i.start \in Nat /\ i.end \in Nat /\ a <= i.start /\ i.start < i.end /\ i.end <= b
      /\ \A i, j \in J : i.order = j.order => i = j
  BY DEF Within
<1>2. PICK X, Y : X = {Arrival(i) : i \in J} /\ Y = {Departure(i) : i \in J}
  OBVIOUS
<1>3. Ends(J) = X \cup Y
  BY <1>2 DEF Ends
<1>4. IsFiniteSet(X) /\ IsFiniteSet(Y)
  <2>1. PICK f, g : f = [i \in J |-> Arrival(i)] /\ g = [i \in J |-> Departure(i)]
    OBVIOUS
  <2>2. f \in Surjection(J, X) /\ g \in Surjection(J, Y)
    BY <1>2, <2>1 DEF Surjection
  <2> QED
    BY <1>1, <2>2, FS_Surjection
<1>5. IsFiniteSet(Ends(J))
  BY <1>3, <1>4, FS_Union
<1>6. /\ \A i \in J : Arrival(i) \in Ends(J) /\ Departure(i) \in Ends(J)
      /\ \A d \in Ends(J) : \E i \in J : d = Arrival(i) \/ d = Departure(i)
  BY <1>2, <1>3
<1>7. \A i : /\ Arrival(i).at = i.start /\ Arrival(i).change = 1 /\ Arrival(i).order = i.order
             /\ Departure(i).at = i.end /\ Departure(i).change = -1 /\ Departure(i).order = i.order
  BY DEF Arrival, Departure
<1>8. Changes(Ends(J))
  <2> SUFFICES ASSUME NEW d \in Ends(J) PROVE d.at \in Int /\ d.change \in {1, -1}
    BY DEF Changes
  <2>1. PICK i \in J : d = Arrival(i) \/ d = Departure(i)
    BY <1>6
  <2>2. i.start \in Int /\ i.end \in Int
    BY <1>1
  <2>3. d.at \in {i.start, i.end}
    BY ONLY <1>7, <2>1
  <2>4. d.change \in {1, -1}
    BY ONLY <1>7, <2>1
  <2> QED
    BY ONLY <2>2, <2>3, <2>4
<1>9. \A i, j \in J : /\ Arrival(i) # Departure(j) /\ (Arrival(i) = Arrival(j) => i = j)
                      /\ (Departure(i) = Departure(j) => i = j)
  <2> SUFFICES ASSUME NEW i \in J, NEW j \in J
               PROVE  /\ Arrival(i) # Departure(j) /\ (Arrival(i) = Arrival(j) => i = j)
                      /\ (Departure(i) = Departure(j) => i = j)
    OBVIOUS
  <2>1. Arrival(i) # Departure(j)
    <3>1. Arrival(i).change = 1 /\ Departure(j).change = -1
      BY <1>7
    <3> QED
      BY <3>1
  <2>2. Arrival(i) = Arrival(j) \/ Departure(i) = Departure(j) => i.order = j.order
    <3>1. Arrival(i).order = i.order /\ Arrival(j).order = j.order
      BY ONLY <1>7
    <3>2. Departure(i).order = i.order /\ Departure(j).order = j.order
      BY ONLY <1>7
    <3>3. PICK x, y, u, w : x = Arrival(i) /\ y = Arrival(j) /\ u = Departure(i) /\ w = Departure(j)
      OBVIOUS
    <3> QED
      BY ONLY <3>1, <3>2, <3>3
  <2>3. i.order = j.order => i = j
    BY ONLY <1>1, i \in J, j \in J
  <2> QED
    BY ONLY <2>1, <2>2, <2>3
<1>10. \A i \in J : Before(Arrival(i), Departure(i))
  BY <1>1, <1>7 DEF Before
<1> QED
  BY <1>5, <1>6, <1>8, <1>9, <1>10

\* Those here once the changes of s have happened.
Here(J, s) == {i \in J : Arrival(i) \in s /\ Departure(i) \notin s}
Prefix(q, k) == {q[j] : j \in 1..k}

\* A change more is one here more or less.
LEMMA HereChanges ==
  ASSUME NEW J, NEW a \in Nat, NEW b \in Nat, Within(J, a, b), NEW q, Arranges(q, Ends(J)), NEW k \in 1..Len(q)
  PROVE  /\ Cardinality(Here(J, Prefix(q, k))) = Cardinality(Here(J, Prefix(q, k - 1))) + q[k].change
         /\ Cardinality(Here(J, Prefix(q, k))) \in Nat
<1>1. /\ Changes(Ends(J))
      /\ \A i \in J : Arrival(i) \in Ends(J) /\ Departure(i) \in Ends(J)
      /\ \A d \in Ends(J) : \E i \in J : d = Arrival(i) \/ d = Departure(i)
      /\ \A i, j \in J : /\ Arrival(i) # Departure(j) /\ (Arrival(i) = Arrival(j) => i = j)
                         /\ (Departure(i) = Departure(j) => i = j)
      /\ \A i \in J : Before(Arrival(i), Departure(i))
  BY EndsAre
<1>2. PICK n \in Nat : n = Len(q) /\ DOMAIN q = 1..n
  BY LenProperties DEF Arranges
<1>3. /\ \A l \in 1..n : q[l] \in Ends(J)
      /\ \A x \in Ends(J) : \E l \in 1..n : q[l] = x
      /\ \A l, m \in 1..n : q[l] = q[m] => l = m
      /\ \A l, m \in 1..n : l < m => ~Before(q[m], q[l])
  BY <1>2 DEF Arranges
<1>4. k \in 1..n /\ k - 1 \in 0..n
  BY <1>2
<1>5. PICK s, r : s = Prefix(q, k) /\ r = Prefix(q, k - 1)
  OBVIOUS
<1>6. \A x : /\ x \in s <=> \E l \in 1..k : x = q[l]
             /\ x \in r <=> \E l \in 1..(k - 1) : x = q[l]
  BY <1>5 DEF Prefix
<1>7. q[k] \notin r /\ s = r \cup {q[k]}
  <2>1. \A l \in 1..k : l \in 1..(k - 1) \/ l = k
    BY <1>4
  <2>2. \A l \in 1..(k - 1) : l \in 1..k /\ l \in 1..n /\ l # k
    BY <1>4
  <2>3. k \in 1..k
    BY <1>4
  <2> QED
    BY <1>3, <1>4, <1>6, <2>1, <2>2, <2>3
<1>8. IsFiniteSet(Here(J, r)) /\ IsFiniteSet(Here(J, s))
  BY FS_Subset DEF Within, Here
<1>9. PICK i \in J : q[k] = Arrival(i) \/ q[k] = Departure(i)
  BY <1>1, <1>3, <1>4
<1>10. CASE q[k] = Arrival(i)
  <2>1. Departure(i) \notin s
    <3> SUFFICES ASSUME Departure(i) \in s PROVE FALSE
      OBVIOUS
    <3>1. PICK l \in 1..k : q[l] = Departure(i)
      BY <1>6
    <3>2. l # k /\ l \in 1..n /\ l < k
      BY <1>1, <1>4, <1>10, <3>1
    <3> QED
      BY <1>1, <1>3, <1>4, <1>10, <3>1, <3>2
  <2>2. Here(J, s) = Here(J, r) \cup {i}
    BY <1>1, <1>7, <1>10, <2>1 DEF Here
  <2>3. i \notin Here(J, r)
    BY <1>7, <1>10 DEF Here
  <2>4. Cardinality(Here(J, s)) = Cardinality(Here(J, r)) + 1
    BY <1>8, <2>2, <2>3, FS_AddElement
  <2>5. q[k].change = 1
    BY <1>10 DEF Arrival
  <2> QED
    BY <1>5, <1>8, <2>4, <2>5, FS_CardinalityType
<1>11. CASE q[k] = Departure(i)
  <2>1. Arrival(i) \in r
    <3>1. PICK l \in 1..n : q[l] = Arrival(i)
      BY <1>1, <1>3
    <3>2. l # k
      BY <1>1, <1>11, <3>1
    <3>3. ~(k < l)
      BY <1>1, <1>3, <1>4, <1>11, <3>1
    <3>4. l \in 1..(k - 1)
      BY <1>4, <3>1, <3>2, <3>3
    <3> QED
      BY <1>6, <3>1, <3>4
  <2>2. Here(J, s) = Here(J, r) \ {i}
    BY <1>1, <1>7, <1>11, <2>1 DEF Here
  <2>3. i \in Here(J, r)
    BY <1>7, <1>11, <2>1 DEF Here
  <2>4. Cardinality(Here(J, s)) = Cardinality(Here(J, r)) - 1
    BY <1>8, <2>2, <2>3, FS_RemoveElement
  <2>5. q[k].change = -1
    BY <1>11 DEF Departure
  <2>6. Cardinality(Here(J, r)) \in Nat /\ Cardinality(Here(J, s)) \in Nat
    BY <1>8, FS_CardinalityType
  <2> QED
    BY <1>5, <2>4, <2>5, <2>6
<1> QED
  BY <1>9, <1>10, <1>11

\* Whoever is here after a change waits at an instant of the period.
LEMMA HereWaits ==
  ASSUME NEW J, NEW a \in Nat, NEW b \in Nat, Within(J, a, b), NEW q, Arranges(q, Ends(J)), NEW k \in 1..Len(q)
  PROVE  \E t \in a..b-1 : \A i \in Here(J, Prefix(q, k)) : i.start <= t /\ t < i.end
<1>1. /\ Changes(Ends(J))
      /\ \A i \in J : Arrival(i) \in Ends(J) /\ Departure(i) \in Ends(J)
      /\ \A d \in Ends(J) : \E i \in J : d = Arrival(i) \/ d = Departure(i)
  BY EndsAre
<1>2. PICK n \in Nat : n = Len(q) /\ DOMAIN q = 1..n
  BY LenProperties DEF Arranges
<1>3. /\ \A l \in 1..n : q[l] \in Ends(J)
      /\ \A x \in Ends(J) : \E l \in 1..n : q[l] = x
      /\ \A l, m \in 1..n : l < m => ~Before(q[m], q[l])
  BY <1>2 DEF Arranges
<1>4. k \in 1..n
  BY <1>2
<1>5. PICK s : s = Prefix(q, k)
  OBVIOUS
<1>6. \A x : x \in s <=> \E l \in 1..k : x = q[l]
  BY <1>5 DEF Prefix
<1>7. PICK i \in J : q[k] = Arrival(i) \/ q[k] = Departure(i)
  BY <1>1, <1>3, <1>4
<1>8. \A j \in J : j.start \in Nat /\ j.end \in Nat /\ a <= j.start /\ j.start < j.end /\ j.end <= b
  BY DEF Within
<1>9. \A j : /\ Arrival(j).at = j.start /\ Arrival(j).change = 1
             /\ Departure(j).at = j.end /\ Departure(j).change = -1
  BY DEF Arrival, Departure
<1>13. \A j, l \in J :
         /\ ~Before(Arrival(l), Arrival(j)) => j.start <= l.start
         /\ ~Before(Departure(j), Arrival(l)) => l.start < j.end
         /\ ~Before(Departure(l), Departure(j)) => j.end <= l.end
  <2> TAKE j, l \in J
  <2>1. PICK x, y : x = Arrival(j) /\ y = Departure(j)
    OBVIOUS
  <2>2. PICK u, w : u = Arrival(l) /\ w = Departure(l)
    OBVIOUS
  <2>3. /\ x.at = j.start /\ x.change = 1 /\ y.at = j.end /\ y.change = -1
        /\ u.at = l.start /\ u.change = 1 /\ w.at = l.end /\ w.change = -1
    BY ONLY <1>9, <2>1, <2>2
  <2>4. j.start \in Nat /\ j.end \in Nat /\ l.start \in Nat /\ l.end \in Nat
    BY ONLY <1>8
  <2>5. /\ ~Before(u, x) => j.start <= l.start
        /\ ~Before(y, u) => l.start < j.end
        /\ ~Before(w, y) => j.end <= l.end
    BY ONLY <2>3, <2>4 DEF Before
  <2> QED
    BY ONLY <2>1, <2>2, <2>5
\* What is in the prefix does not come after the change, what is not, not before it.
<1>10. ASSUME NEW j \in Here(J, s)
       PROVE  j \in J /\ (Arrival(j) = q[k] \/ ~Before(q[k], Arrival(j))) /\ (~Before(Departure(j), q[k])) /\ Departure(j) # q[k]
  <2>1. j \in J /\ Arrival(j) \in s /\ Departure(j) \notin s
    BY DEF Here
  <2>2. PICK l \in 1..k : q[l] = Arrival(j)
    BY <1>6, <2>1
  <2>3. l = k \/ (l < k /\ l \in 1..n)
    BY <1>4
  <2>4. Arrival(j) = q[k] \/ ~Before(q[k], Arrival(j))
    BY <1>3, <1>4, <2>2, <2>3
  <2>5. PICK m \in 1..n : q[m] = Departure(j)
    BY <1>1, <1>3, <2>1
  <2>6. m \notin 1..k
    BY <1>6, <2>1, <2>5
  <2>7. k < m
    BY <1>4, <2>6
  <2>8. k \in 1..k
    BY <1>4
  <2> QED
    BY <1>3, <1>4, <1>6, <2>1, <2>4, <2>5, <2>7, <2>8
<1>11. CASE q[k] = Arrival(i)
  <2>1. i.start \in a..b-1
    BY <1>8
  <2>2. ASSUME NEW j \in Here(J, s) PROVE j.start <= i.start /\ i.start < j.end
    <3>1. j \in J /\ j.start \in Nat /\ j.end \in Nat /\ i.start \in Nat
      BY <1>8, <1>10, <2>2
    <3>2. j.start <= i.start
      <4>1. Arrival(j) = Arrival(i) \/ ~Before(Arrival(i), Arrival(j))
        BY <1>10, <1>11, <2>2
      <4>2. Arrival(j) = Arrival(i) => j.start = i.start
        BY <1>9
      <4> QED
        BY ONLY <1>13, <3>1, <4>1, <4>2, i \in J
    <3>3. i.start < j.end
      <4>1. ~Before(Departure(j), Arrival(i))
        BY <1>10, <1>11, <2>2
      <4> QED
        BY ONLY <1>13, <3>1, <4>1, i \in J
    <3> QED
      BY <3>2, <3>3
  <2> QED
    BY <1>5, <2>1, <2>2
<1>12. CASE q[k] = Departure(i)
  <2>1. i.end - 1 \in a..b-1
    BY <1>8
  <2>2. ASSUME NEW j \in Here(J, s) PROVE j.start <= i.end - 1 /\ i.end - 1 < j.end
    <3>1. j \in J /\ j.start \in Nat /\ j.end \in Nat /\ i.end \in Nat
      BY <1>8, <1>10, <2>2
    <3>2. j.start < i.end
      <4>1. ~Before(Departure(i), Arrival(j))
        <5>1. Arrival(j) # Departure(i)
          <6>1. Arrival(j).change = 1 /\ Departure(i).change = -1
            BY <1>9
          <6> QED
            BY <6>1
        <5> QED
          BY <1>10, <1>12, <2>2, <5>1
      <4> QED
        BY ONLY <1>13, <3>1, <4>1, i \in J
    <3>3. i.end <= j.end
      <4>1. ~Before(Departure(j), Departure(i))
        BY <1>10, <1>12, <2>2
      <4> QED
        BY ONLY <1>13, <3>1, <4>1, i \in J
    <3> QED
      BY <3>1, <3>2, <3>3
  <2> QED
    BY <1>5, <2>1, <2>2
<1> QED
  BY <1>7, <1>11, <1>12

\* Those who wait at an instant.
HereAt(J, t) == {i \in J : i.start <= t /\ t < i.end}

\* After the changes up to an instant those are here who wait at it.
LEMMA WaitersHere ==
  ASSUME NEW J, NEW a \in Nat, NEW b \in Nat, Within(J, a, b), NEW q, Arranges(q, Ends(J)), NEW t \in Nat
  PROVE  \E k \in 0..Len(q) : Here(J, Prefix(q, k)) = HereAt(J, t)
<1>1. Changes(Ends(J)) /\ \A i \in J : Arrival(i) \in Ends(J) /\ Departure(i) \in Ends(J)
  BY EndsAre
<1>2. PICK n \in Nat : n = Len(q) /\ DOMAIN q = 1..n
  BY LenProperties DEF Arranges
<1>3. /\ \A l \in 1..n : q[l] \in Ends(J)
      /\ \A x \in Ends(J) : \E l \in 1..n : q[l] = x
      /\ \A l, m \in 1..n : l < m => ~Before(q[m], q[l])
  BY <1>2 DEF Arranges
<1>4. PICK S \in SUBSET (1..n) : S = {l \in 1..n : q[l].at <= t}
  OBVIOUS
<1>5. ASSUME NEW m \in S, NEW l \in 1..n, l < m PROVE l \in S
  <2>1. m \in 1..n /\ q[m].at <= t /\ ~Before(q[m], q[l])
    BY <1>3, <1>4, <1>5
  <2>2. q[m].at \in Int /\ q[l].at \in Int
    BY <1>1, <1>3, <2>1 DEF Changes
  <2>3. q[l].at <= t
    BY <2>1, <2>2 DEF Before
  <2> QED
    BY <1>4, <2>3
<1>6. PICK k \in 0..n : S = 1..k
  BY ONLY <1>4, <1>5, n \in Nat, NoGap
<1>7. \A x \in Ends(J) : x \in Prefix(q, k) <=> x.at <= t
  <2> TAKE x \in Ends(J)
  <2>1. PICK l \in 1..n : q[l] = x
    BY <1>3
  <2>2. x.at <= t => x \in Prefix(q, k)
    BY <1>4, <1>6, <2>1 DEF Prefix
  <2>3. x \in Prefix(q, k) => x.at <= t
    BY <1>4, <1>6 DEF Prefix
  <2> QED
    BY <2>2, <2>3
<1>8. \A i \in J : i.start \in Nat /\ i.end \in Nat /\ Arrival(i).at = i.start /\ Departure(i).at = i.end
  BY DEF Within, Arrival, Departure
<1>9. \A i \in J : i \in Here(J, Prefix(q, k)) <=> i.start <= t /\ t < i.end
  BY <1>1, <1>7, <1>8 DEF Here
<1>10. Here(J, Prefix(q, k)) = HereAt(J, t)
  BY ONLY <1>9 DEF Here, HereAt
<1> QED
  BY ONLY <1>2, <1>10, k \in 0..n

\* The peak of a period is the largest number that wait at one of its instants.
LEMMA PeakIs ==
  ASSUME NEW I, Spans(I), NEW a \in Nat, NEW b \in Nat, a < b,
         NEW waiting, \A t \in a..b-1 : waiting[t] = ConcurrencyAt(I, t)
  PROVE  PeakConcurrency(I, a, b) = Max({waiting[t] : t \in a..b-1})
<1>1. PICK J : J = Inside(I, a, b)
  OBVIOUS
<1>2. Within(J, a, b) /\ \A t \in a..b-1 : Cardinality({i \in J : i.start <= t /\ t < i.end}) = waiting[t]
  BY <1>1, InsideIs
<1>3. Deltas(I, a, b) = Ends(J)
  BY <1>1 DEF Deltas, Ends, Inside, Arrival, Departure
<1>4. PICK q : q = Sorted(Ends(J)) /\ Arranges(q, Ends(J))
  BY <1>2, EndsAre, SortedIs
<1>5. PICK n \in Nat : n = Len(q) /\ DOMAIN q = 1..n
  BY <1>4, LenProperties DEF Arranges
<1>6. PICK p : p = PeakConcurrency(I, a, b) /\ p = Swept(q).peak
  BY <1>3, <1>4 DEF PeakConcurrency, Swept
<1>7. PICK R : R = [k \in 0..n |-> Cardinality(Here(J, Prefix(q, k)))]
  OBVIOUS
<1>8. \A k \in 0..n : IsFiniteSet(Here(J, Prefix(q, k))) /\ R[k] = Cardinality(Here(J, Prefix(q, k))) /\ R[k] \in Nat
  BY <1>2, <1>7, FS_Subset, FS_CardinalityType DEF Within, Here
<1>9. R \in [0..n -> Nat]
  BY <1>7, <1>8
<1>10. R[0] = 0
  <2>1. Prefix(q, 0) = {}
    BY DEF Prefix
  <2>2. Here(J, Prefix(q, 0)) = {}
    BY <2>1 DEF Here
  <2> QED
    BY <1>8, <2>2, FS_EmptySet
<1>11. \A k \in 1..n : R[k] = R[k - 1] + q[k].change
  <2> TAKE k \in 1..n
  <2>1. k \in 0..n /\ k - 1 \in 0..n /\ k \in 1..Len(q)
    BY <1>5
  <2> QED
    BY <1>2, <1>4, <1>8, <2>1, HereChanges
<1>12. \A k \in 1..n : q[k].change \in Int
  <2>1. Changes(Ends(J)) /\ \A k \in 1..n : q[k] \in Ends(J)
    BY <1>2, <1>4, <1>5, EndsAre DEF Arranges
  <2> QED
    BY <2>1 DEF Changes
<1>22. RunsThrough(R, n, q)
  BY ONLY <1>5, <1>9, <1>10, <1>11, <1>12 DEF RunsThrough
<1>13. (\E k \in 0..n : p = R[k]) /\ \A k \in 0..n : R[k] <= p
  <2>1. Largest(p, R, n)
    BY ONLY <1>6, <1>22, n \in Nat, SweptIs
  <2> QED
    BY ONLY <2>1 DEF Largest
<1>14. p \in Nat
  BY <1>8, <1>13
<1>15. \A t \in a..b-1 : waiting[t] \in Nat /\ waiting[t] <= p
  <2> TAKE t \in a..b-1
  <2>1. t \in Nat
    OBVIOUS
  <2>2. PICK k \in 0..Len(q) : Here(J, Prefix(q, k)) = HereAt(J, t)
    BY ONLY <1>2, <1>4, <2>1, a \in Nat, b \in Nat, WaitersHere
  <2>4. k \in 0..n
    BY ONLY <1>5, <2>2
  <2>3. waiting[t] = R[k]
    BY <1>2, <1>8, <2>2, <2>4 DEF HereAt
  <2> QED
    BY <1>8, <1>13, <2>3, <2>4
<1>16. \E t \in a..b-1 : p <= waiting[t]
  <2>1. PICK k \in 0..n : p = R[k]
    BY <1>13
  <2>2. CASE k = 0
    <3>1. a \in a..b-1
      OBVIOUS
    <3>2. p = 0 /\ waiting[a] \in Nat
      BY <1>10, <1>15, <2>1, <2>2, <3>1
    <3> QED
      BY <3>1, <3>2
  <2>3. CASE k # 0
    <3>1. k \in 1..n /\ k \in 1..Len(q)
      BY <1>5, <2>3
    <3>2. PICK t \in a..b-1 : \A i \in Here(J, Prefix(q, k)) : i.start <= t /\ t < i.end
      BY <1>2, <1>4, <3>1, HereWaits
    <3>3. PICK V : V = {i \in J : i.start <= t /\ t < i.end}
      OBVIOUS
    <3>4. Here(J, Prefix(q, k)) \subseteq V /\ IsFiniteSet(V)
      <4>1. IsFiniteSet(J)
        BY <1>2 DEF Within
      <4>2. IsFiniteSet(V)
        BY <3>3, <4>1, FS_Subset
      <4> QED
        BY <3>2, <3>3, <4>2 DEF Here
    <3>5. Cardinality(Here(J, Prefix(q, k))) <= Cardinality(V)
      BY <3>4, FS_Subset
    <3>6. p = Cardinality(Here(J, Prefix(q, k))) /\ waiting[t] = Cardinality(V)
      BY <1>2, <1>8, <2>1, <3>3
    <3> QED
      BY <3>5, <3>6
  <2> QED
    BY <2>2, <2>3
<1>17. PICK t \in a..b-1 : waiting[t] = p
  <2>1. PICK t \in a..b-1 : p <= waiting[t]
    BY <1>16
  <2>2. waiting[t] \in Nat /\ waiting[t] <= p
    BY <1>15
  <2> QED
    BY <1>14, <2>1, <2>2
<1>18. PICK X : X = {waiting[u] : u \in a..b-1}
  OBVIOUS
<1>19. p \in X /\ \A y \in X : y \in Nat /\ p >= y
  <2>1. \A u \in a..b-1 : p >= waiting[u]
    BY <1>14, <1>15
  <2> QED
    BY <1>15, <1>17, <1>18, <2>1
<1>20. Max(X) \in X /\ \A y \in X : Max(X) >= y
  BY <1>19 DEF Max
<1>21. Max(X) = p
  <2>1. PICK m : m = Max(X)
    OBVIOUS
  <2>2. m \in Nat /\ p >= m /\ m >= p
    BY ONLY <1>19, <1>20, <2>1
  <2>3. m = p
    BY ONLY <1>14, <2>2
  <2> QED
    BY ONLY <2>1, <2>3
<1> QED
  BY <1>6, <1>18, <1>21

-----------------------------------------------------------------------------
(* The figures *)

\* The sweep and the sums agree with the instants.
LEMMA Agreed == IInv => AggregatesAgree
<1> SUFFICES ASSUME IInv PROVE AggregatesAgree
  OBVIOUS
<1> DEFINE I == WaitingIntervals(rows)
           waiting == [t \in Time |-> ConcurrencyAt(I, t)]
<1> SUFFICES ASSUME NEW a \in Time, NEW b \in a + 1..MaxClock + 1
             PROVE  /\ PeakConcurrency(I, a, b) = Max({waiting[t] : t \in a..b - 1})
                    /\ ActiveTime(I, a, b) = MapThenSumSet(LAMBDA t : waiting[t], a..b - 1)
  BY DEF AggregatesAgree, MapThenSumSet, MapThenFoldSet
<1>1. Spans(I)
  <2>1. IsFiniteSet(rows) /\ rows \subseteq EventRow
    BY DEF IInv, LogInv, TypeOK, EventRow
  <2> QED
    BY <2>1, IntervalsAre
<1>2. a \in Nat /\ b \in Nat /\ a < b /\ a..b-1 \subseteq Time
  BY ConstantsAssumption DEF Time
<1>3. \A t \in a..b-1 : waiting[t] = ConcurrencyAt(I, t)
  BY <1>2
<1> HIDE DEF I, waiting
<1>4. PeakConcurrency(I, a, b) = Max({waiting[t] : t \in a..b - 1})
  BY ONLY <1>1, <1>2, <1>3, PeakIs
<1>5. WaitingSum(waiting, a..b - 1) = Cardinality(Waits(I, a, b))
  BY ONLY <1>1, <1>2, <1>3, WaitingAdds
<1>6. ActiveTime(I, a, b) = Cardinality(Waits(I, a, b))
  BY ONLY <1>1, <1>2, ActiveIs
<1>7. ActiveTime(I, a, b) = WaitingSum(waiting, a..b - 1)
  BY ONLY <1>5, <1>6
<1>8. ActiveTime(I, a, b) = MapThenSumSet(LAMBDA t : waiting[t], a..b - 1)
  BY ONLY <1>7 DEF WaitingSum, MapThenSumSet, MapThenFoldSet
<1> QED
  BY ONLY <1>4, <1>8 DEF MapThenSumSet, MapThenFoldSet

\* However the posts are delayed, repeated, lost or wrongly timed: the waiting at a frame, the
\* peak and the mean of a period and the points of its timeline are those of the log, the
\* timeline short by no more than what it says, for any number of orders, windows and buckets.
THEOREM FiguresAreRight == Spec => []FiguresFollowLog
<1>1. IInv => AggregatesAgree /\ BucketsPartition /\ TimelineMissesOnlyEarlier
  BY Agreed, Partitioned, TimelineMisses
<1>2. WaitingCountExact /\ AggregatesAgree /\ BucketsPartition /\ TimelineMissesOnlyEarlier => FiguresFollowLog
  BY DEF FiguresFollowLog
<1> QED
  BY <1>1, <1>2, WaitingIsCounted, Invariance, PTL
=============================================================================
