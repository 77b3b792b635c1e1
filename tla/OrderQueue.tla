----------------------------- MODULE OrderQueue -----------------------------
(***************************************************************************)
(* How many orders wait: order_queue.py rebuilds each order's waiting      *)
(* interval from its status events, count_waiting_orders_at and the store  *)
(* timeline aggregate the intervals.                                       *)
(*                                                                         *)
(* An event is a record with fields order, status and at; a set of events  *)
(* is what a query returned.  Times are natural numbers.                   *)
(***************************************************************************)
EXTENDS Integers, FiniteSets, FiniteSetsExt, SequencesExt

Terminal == {"completed", "cancelled", "rejected"}

\* The end of an order that no event has ended.
Open == -1

OrdersOf(events) == {e.order : e \in events}

EventsOf(events, o) == {e \in events : e.order = o}

WithStatus(events, statuses) == {e \in events : e.status \in statuses}

Earliest(events) == Min({e.at : e \in events})

\* An order's wait, from its reception to its first end.  An end before the
\* start is moved to the start.
IntervalOf(events, o) ==
  LET own == EventsOf(events, o)
      received == WithStatus(own, {"received"})
      terminal == WithStatus(own, Terminal)
      start == Earliest(IF received # {} THEN received ELSE own)
  IN [order |-> o,
      start |-> start,
      end |-> IF terminal = {} THEN Open ELSE Max({start, Earliest(terminal)})]

WaitingIntervals(events) == {IntervalOf(events, o) : o \in OrdersOf(events)}

\* Half open: an order waits at its start and no longer at its end.
WaitsAt(i, t) == i.start <= t /\ (i.end = Open \/ t < i.end)

ConcurrencyAt(intervals, t) == Cardinality({i \in intervals : WaitsAt(i, t)})

\* An interval cut to the window from a to b.
Clipped(i, a, b) ==
  [i EXCEPT !.start = Max({@, a}), !.end = Min({IF @ = Open THEN b ELSE @, b})]

\* average_concurrency divides this by b - a.
ActiveTime(intervals, a, b) ==
  MapThenSumSet(LAMBDA i : LET c == Clipped(i, a, b) IN Max({0, c.end - c.start}), intervals)

Deltas(intervals, a, b) ==
  LET inside == {i \in {Clipped(j, a, b) : j \in intervals} : i.start < i.end}
  IN UNION {{[at |-> i.start, change |-> 1, order |-> i.order],
             [at |-> i.end, change |-> -1, order |-> i.order]} : i \in inside}

\* Mutant of Before: the arrivals first.
ArrivalsFirst(d, e) == d.at < e.at \/ (d.at = e.at /\ d.change > e.change)

\* At one instant the departures come first.
Before(d, e) == d.at < e.at \/ (d.at = e.at /\ d.change < e.change)

\* The changes in the order of Before.
Sorted(deltas) ==
  FoldSet(LAMBDA d, seq : InsertAt(seq, 1 + Cardinality({k \in DOMAIN seq : Before(seq[k], d)}), d),
          <<>>, deltas)

PeakConcurrency(intervals, a, b) ==
  FoldLeft(LAMBDA acc, d : LET running == acc.running + d.change
                           IN [running |-> running,
                               peak |-> Max({acc.peak, running})],
           [running |-> 0, peak |-> 0],
           Sorted(Deltas(intervals, a, b))).peak

-----------------------------------------------------------------------------
\* Mutant of Fetched: the start of the period left out.
FetchedAfter(events, a, b) == {e \in events : a < e.at /\ e.at < b}

\* list_order_events: the rows of a half open period.
Fetched(events, a, b) == {e \in events : a <= e.at /\ e.at < b}

\* count_waiting_orders_at, which looks window far back and ahead.
CountWaitingAt(events, t, window) ==
  ConcurrencyAt(WaitingIntervals(Fetched(events, t - window, t + window)), t)

\* Mutant of TimelineRows: filtered by status.
ReceivedRows(events, a, b) == {e \in WithStatus(events, {"received"}) : a <= e.at /\ e.at < b}

\* get_store_timeline: the rows of the period, of every status.
TimelineRows(events, a, b) == {e \in events : a <= e.at /\ e.at < b}

\* Mutant of BucketCount: rounded down.
WholeBuckets(a, b, width) == (b - a) \div width

\* The timeline's buckets of length width from a to b, numbered from 0.
BucketCount(a, b, width) == (b - a + width - 1) \div width

BucketIndex(t, a, width) == (t - a) \div width

\* One point per bucket; the last one ends at b.
Timeline(events, a, b, width) ==
  LET rows == TimelineRows(events, a, b)
      intervals == WaitingIntervals(rows)
      received == WithStatus(rows, {"received"})
  IN [i \in 0..BucketCount(a, b, width) - 1 |->
        LET from == a + width * i
            to == Min({a + width * (i + 1), b})
        IN [from |-> from, to |-> to,
            orders |-> {e.order : e \in {r \in received :
                                           BucketIndex(r.at, a, width) = i}},
            active |-> ActiveTime(intervals, from, to),
            peak |-> PeakConcurrency(intervals, from, to)]]
=============================================================================
