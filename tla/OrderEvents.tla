---------------------------- MODULE OrderEvents ----------------------------
(***************************************************************************)
(* The order event log of one store and what writes it: the live order     *)
(* simulator, whose tasks send each order's four status events with        *)
(* retries, a till that posts events of its own, and the API's             *)
(* save_order_event, which reads whether the event is known and then       *)
(* inserts it.  A call that fails may still be on its way to the database; *)
(* after an error the task sends the same event again, after a timeout of  *)
(* the answer it ends.  The simulator stops when asked to: no new orders,  *)
(* a grace time for the running ones, then their tasks are cancelled,      *)
(* though not the call a thread is sending.                                *)
(***************************************************************************)
EXTENDS OrderQueue

CONSTANTS Order,        \* orders of the simulator
          TillOrder,    \* orders of the till
          MaxTill,      \* bound: events the till posts
          MaxClock,     \* bound: time ends here
          MaxAttempts,  \* max_attempts of send_event_with_retry
          MaxFaults,    \* bound: calls without an answer
          Window,       \* WAITING_LOOKUP_WINDOW
          BucketWidth   \* interval of the timeline

ASSUME ConstantsAssumption ==
  /\ MaxTill \in Nat /\ MaxClock \in Nat /\ MaxFaults \in Nat
  /\ MaxAttempts \in Nat \ {0} /\ Window \in Nat \ {0} /\ BucketWidth \in Nat \ {0}
  /\ Order \cap TillOrder = {}

VARIABLES clock,     \* time
          rows,      \* order_events
          task,      \* _run_order of each order
          requests,  \* calls of save_order_event the API has not finished
          simulator, \* LiveOrderSimulator.run
          faults,    \* calls lost so far
          posted     \* events the till has posted

vars == <<clock, rows, task, requests, simulator, faults, posted>>

Transitions == <<"received", "preparing", "ready", "completed">>

Steps == 1..4

Time == 0..MaxClock

\* ready_offset may be the 15 s of preparing: no sleep between the two.
MayBeImmediate(step) == step = 3

Log(o) == EventsOf(rows, o)

\* A row of order_events; created numbers the rows of an order.
Row(o, status, at) == [order |-> o, status |-> status, at |-> at, created |-> Cardinality(Log(o)) + 1]

\* An order that has not been produced.
NoTask == [phase |-> "none", step |-> 1, at |-> 0, attempt |-> 1]

Ended == {"done", "failed", "cancelled"}

Running == {o \in Order : task[o].phase \notin Ended \cup {"none"}}

TypeOK ==
  /\ clock \in Time
  /\ rows \subseteq [order : Order \cup TillOrder, status : {Transitions[s] : s \in Steps} \cup Terminal, at : Time, created : Nat \ {0}]
  /\ task \in [Order -> [phase : {"none", "sleeping", "sending", "backoff"} \cup Ended,
                         step : Steps, at : Time, attempt : 1..MaxAttempts]]
  /\ requests \subseteq [order : Order, step : Steps, at : Time, attempt : 1..MaxAttempts,
                         phase : {"reading", "inserting", "answered"}]
  /\ simulator \in {"running", "stopping", "draining", "ended"}
  /\ faults \in 0..MaxFaults
  /\ posted \in 0..MaxTill

Init ==
  /\ clock = 0
  /\ rows = {}
  /\ task = [o \in Order |-> NoTask]
  /\ requests = {}
  /\ simulator = "running"
  /\ faults = 0
  /\ posted = 0

-----------------------------------------------------------------------------
\* save_order_event.  event_id is made of the order and the status.

Known(r) == \E e \in rows : e.order = r.order /\ e.status = Transitions[r.step]

\* The calls the simulator's tasks are waiting for.
Awaited(r) ==
  /\ task[r.order].phase = "sending"
  /\ r.step = task[r.order].step /\ r.attempt = task[r.order].attempt

\* An answer nobody waits for is dropped.
Answer(r) == IF Awaited(r) THEN {[r EXCEPT !.phase = "answered"]} ELSE {}

\* A known event is returned, another one goes into the session.
ReadEvent(r) ==
  /\ r.phase = "reading"
  /\ requests' = (requests \ {r}) \cup (IF Known(r) THEN Answer(r) ELSE {[r EXCEPT !.phase = "inserting"]})
  /\ UNCHANGED <<clock, rows, task, simulator, faults, posted>>

\* Mutant of CommitEvent: no primary key.
CommitUnchecked(r) ==
  /\ r.phase = "inserting"
  /\ rows' = rows \cup {Row(r.order, Transitions[r.step], r.at)}
  /\ requests' = (requests \ {r}) \cup Answer(r)
  /\ UNCHANGED <<clock, task, simulator, faults, posted>>

\* Mutant of CommitEvent: the row is replaced, with the time of arrival.
CommitAtArrival(r) ==
  /\ r.phase = "inserting"
  /\ rows' = {e \in rows : ~(e.order = r.order /\ e.status = Transitions[r.step])}
               \cup {Row(r.order, Transitions[r.step], clock)}
  /\ requests' = (requests \ {r}) \cup Answer(r)
  /\ UNCHANGED <<clock, task, simulator, faults, posted>>

\* The insert, or the violation of the primary key and the second read.
CommitEvent(r) ==
  /\ r.phase = "inserting"
  /\ rows' = IF Known(r) THEN rows ELSE rows \cup {Row(r.order, Transitions[r.step], r.at)}
  /\ requests' = (requests \ {r}) \cup Answer(r)
  /\ UNCHANGED <<clock, task, simulator, faults, posted>>

\* The till posts the reception of an order before its end, each once; the
\* times are those of its clock, which may be wrong.
PostTill(o, status, at) ==
  /\ posted < MaxTill
  /\ status = "received" <=> Log(o) = {}
  /\ rows' = rows \cup {Row(o, status, at)}
  /\ posted' = posted + 1
  /\ UNCHANGED <<clock, task, requests, simulator, faults>>

-----------------------------------------------------------------------------
\* send_event_with_retry of the task of order o.

Call(o, attempt) == [order |-> o, step |-> task[o].step, at |-> task[o].at,
                     attempt |-> attempt, phase |-> "reading"]

CurrentCall(o) == {r \in requests : r.order = o /\ Awaited(r)}

\* The answer arrives: the next status, or the end of the task.
Answered(o) ==
  /\ task[o].phase = "sending"
  /\ \E r \in CurrentCall(o) : r.phase = "answered" /\ requests' = requests \ {r}
  /\ task' = [task EXCEPT ![o].phase = IF task[o].step = 4 THEN "done" ELSE "sleeping",
                          ![o].step = IF @ = 4 THEN 4 ELSE @ + 1,
                          ![o].attempt = 1]
  /\ UNCHANGED <<clock, rows, simulator, faults, posted>>

\* Mutant of CallFails: one attempt too many.
CallFailsLate(o, drop, timeout) ==
  /\ task[o].phase = "sending"
  /\ faults < MaxFaults
  /\ faults' = faults + 1
  /\ requests' = requests \ CurrentCall(o)
  /\ task' = [task EXCEPT ![o].phase = IF task[o].attempt > MaxAttempts THEN "failed" ELSE "backoff"]
  /\ UNCHANGED <<clock, rows, simulator, posted>>

\* The call fails before it reaches the API (drop) or its answer is lost: an error
\* is retried, a timeout of the answer is no RuntimeError and ends the task.
CallFails(o, drop, timeout) ==
  /\ task[o].phase = "sending"
  /\ faults < MaxFaults
  /\ faults' = faults + 1
  /\ requests' = requests \ {r \in CurrentCall(o) : r.phase = "answered" \/ (drop /\ r.phase = "reading")}
  /\ task' = [task EXCEPT ![o].phase = IF timeout \/ task[o].attempt = MaxAttempts THEN "failed" ELSE "backoff"]
  /\ UNCHANGED <<clock, rows, simulator, posted>>

\* After the back-off the same event is sent again.
Retry(o) ==
  /\ task[o].phase = "backoff"
  /\ task' = [task EXCEPT ![o].phase = "sending", ![o].attempt = @ + 1]
  /\ requests' = requests \cup {Call(o, task[o].attempt + 1)}
  /\ UNCHANGED <<clock, rows, simulator, faults, posted>>

-----------------------------------------------------------------------------
\* LiveOrderSimulator.

\* _produce_store starts a task; the first transition has no delay.
Produce(o) ==
  /\ simulator = "running"
  /\ task[o].phase = "none"
  /\ task' = [task EXCEPT ![o] = [NoTask EXCEPT !.phase = "sending", !.at = clock]]
  /\ requests' = requests \cup {[order |-> o, step |-> 1, at |-> clock, attempt |-> 1, phase |-> "reading"]}
  /\ UNCHANGED <<clock, rows, simulator, faults, posted>>

\* The sleep ends and the next event is created and sent.
NextEvent(o) ==
  /\ task[o].phase = "sleeping"
  /\ clock > task[o].at \/ MayBeImmediate(task[o].step)
  /\ task' = [task EXCEPT ![o].phase = "sending", ![o].at = clock]
  /\ requests' = requests \cup {[Call(o, 1) EXCEPT !.at = clock]}
  /\ UNCHANGED <<clock, rows, simulator, faults, posted>>

Stop ==
  /\ simulator = "running"
  /\ simulator' = "stopping"
  /\ UNCHANGED <<clock, rows, task, requests, faults, posted>>

\* gather(*producers) returns, asyncio.wait begins unless no task is active.
ProducersEnd ==
  /\ simulator = "stopping"
  /\ simulator' = IF Running = {} THEN "ended" ELSE "draining"
  /\ UNCHANGED <<clock, rows, task, requests, faults, posted>>

Drained ==
  /\ simulator = "draining"
  /\ Running = {}
  /\ simulator' = "ended"
  /\ UNCHANGED <<clock, rows, task, requests, faults, posted>>

\* The grace time is over: pending tasks are cancelled, their calls are not.
GraceOver ==
  /\ simulator = "draining"
  /\ Running # {}
  /\ task' = [o \in Order |-> IF o \in Running THEN [task[o] EXCEPT !.phase = "cancelled"] ELSE task[o]]
  /\ simulator' = "ended"
  /\ requests' = {r \in requests : r.phase # "answered"}
  /\ UNCHANGED <<clock, rows, faults, posted>>

Tick ==
  /\ clock < MaxClock
  /\ clock' = clock + 1
  /\ UNCHANGED <<rows, task, requests, simulator, faults, posted>>

Api == \E r \in requests : ReadEvent(r) \/ CommitEvent(r)

Shutdown == ProducersEnd \/ Drained \/ GraceOver

Till == \E o \in TillOrder, status \in {"received", "cancelled"}, at \in 0..clock : PostTill(o, status, at)

Tasks == \E o \in Order :
           \/ Produce(o) \/ NextEvent(o) \/ Answered(o) \/ Retry(o)
           \/ \E drop, timeout \in BOOLEAN : CallFails(o, drop, timeout)

Next == Api \/ Tasks \/ Shutdown \/ Till \/ Stop \/ Tick

Spec == Init /\ [][Next]_vars

-----------------------------------------------------------------------------
StepOf(e) == CHOOSE s \in Steps : Transitions[s] = e.status

Stored(o) == {StepOf(e) : e \in Log(o)}

\* The last status the simulator has had confirmed; 0 for none.
Confirmed(o) == CASE task[o].phase = "none" -> 0
                  [] task[o].phase = "done" -> 4
                  [] OTHER -> task[o].step - 1

\* get_latest_order_event: the last by time, then by creation; 0 for none.
Latest(o) == CHOOSE e \in Log(o) : \A f \in Log(o) :
               f.at < e.at \/ (f.at = e.at /\ f.created <= e.created)

LatestStep(o) == IF Log(o) = {} THEN 0 ELSE StepOf(Latest(o))

\* Whatever calls are lost, late or repeated, the log of an order has each
\* status once and no gap, its times are in the order of its statuses, and
\* it holds what has been confirmed and at most one status more.
LogIsPrefix == TypeOK /\
  \A o \in Order :
    /\ Stored(o) = 1..Cardinality(Log(o))
    /\ Cardinality(Log(o)) \in Confirmed(o)..Confirmed(o) + 1
    /\ \A d, e \in Log(o) : StepOf(d) < StepOf(e) => d.at <= e.at

\* What a customer is told about an order never goes back, whatever calls
\* are late, repeated or cancelled.
StatusOnlyAdvances ==
  [][\A o \in Order : LatestStep(o) <= LatestStep(o)']_vars

-----------------------------------------------------------------------------
\* Waiting by the definition: received, and not ended, in the whole log.
TrulyWaiting(o, t) ==
  /\ \E e \in Log(o) : e.at <= t
  /\ \A e \in Log(o) : e.status \in Terminal => t < e.at

\* count_waiting_orders_at reads one hour around the frame; of the simulated
\* orders it counts those waiting, except one whose last step is older.
WaitingCountExact ==
  \A t \in Time :
    LET simulated == {e \in rows : e.order \in Order}
    IN CountWaitingAt(simulated, t, Window)
         = Cardinality({o \in Order : /\ TrulyWaiting(o, t)
                                      /\ \E e \in Log(o) : t - Window <= e.at /\ e.at <= t})

\* The sweep finds the largest number of orders waiting at once, the
\* clipped times add up to the waiting counted instant by instant.
AggregatesAgree ==
  LET intervals == WaitingIntervals(rows)
      waiting == [t \in Time |-> ConcurrencyAt(intervals, t)]
  IN \A a \in Time : \A b \in a + 1..MaxClock + 1 :
       /\ PeakConcurrency(intervals, a, b) = Max({waiting[t] : t \in a..b - 1})
       /\ ActiveTime(intervals, a, b) = MapThenSumSet(LAMBDA t : waiting[t], a..b - 1)

\* Each received event is in the one point it happened in.
Divide(points, received) ==
  /\ \A i \in DOMAIN points :
       LET p == points[i]
       IN p.from < p.to /\ p.orders = OrdersOf({e \in received : p.from <= e.at /\ e.at < p.to})
  /\ UNION {points[i].orders : i \in DOMAIN points} = OrdersOf(received)

\* The points of a timeline divide its period: each received event is in
\* the point it happened in, and the points' waiting adds up to the period's.
BucketsPartition ==
  \A a \in Time : \A b \in a + 1..MaxClock + 1 :
    LET points == Timeline(rows, a, b, BucketWidth)
        fetched == TimelineRows(rows, a, b)
    IN /\ Divide(points, WithStatus(fetched, {"received"}))
       /\ MapThenSumSet(LAMBDA i : points[i].active, DOMAIN points)
            = ActiveTime(WaitingIntervals(fetched), a, b)

\* get_store_timeline fetches the events of its period only.  It still gets
\* the waiting of the simulated orders right that no order brings from before
\* the period; those it sees for too short, never for too long.
TimelineMissesOnlyEarlier ==
  LET simulated == {e \in rows : e.order \in Order}
      intervals == WaitingIntervals(simulated)
  IN \A a \in Time : \A b \in a + 1..MaxClock + 1 :
       LET seen == ActiveTime(WaitingIntervals(TimelineRows(simulated, a, b)), a, b)
           true == ActiveTime(intervals, a, b)
       IN /\ seen <= true
          /\ (\A o \in Order : TrulyWaiting(o, a) => ~TrulyWaiting(o, a - 1)) => seen = true

\* However the posts are ordered: the waiting count at a frame, the peak and the
\* mean of a period and the points of its timeline are those of the log, the
\* timeline short by no more than what it says (timeline.py, count_waiting_orders_at).
FiguresFollowLog ==
  WaitingCountExact /\ AggregatesAgree /\ BucketsPartition /\ TimelineMissesOnlyEarlier
=============================================================================
