---------------------------- MODULE StoreSummary ----------------------------
(***************************************************************************)
(* The summary of a store the head office reads (summary.py), from the rows *)
(* of a period: who was seen, what was ordered, how good the pictures were. *)
(*                                                                          *)
(* An order row is as in OrderQueue.  A state is [at, people, queue,        *)
(* quality]; states come in the order of their times, as the query sorts    *)
(* them.                                                                    *)
(***************************************************************************)
EXTENDS OrderQueue

CONSTANTS Menu,           \* menu numbers, in the order they are sorted by
          Ordered(_, _),  \* how many of a menu an order is for
          Simulated(_),   \* the order's number begins with sim-
          TopMenuLimit    \* TOP_MENU_LIMIT

ASSUME MenuAssumption == Menu \subseteq Nat /\ IsFiniteSet(Menu) /\ TopMenuLimit \in Nat

NoSummary == [there |-> FALSE]

Statuses == {"received", "preparing", "ready", "completed", "cancelled", "rejected"}

\* get_store_summary: the events of the period.
SummaryRows(events, a, b) == {e \in events : a <= e.at /\ e.at < b}

\* Events of one time are told apart by their number, which ends in the status.
ByName == <<"cancelled", "completed", "preparing", "ready", "received", "rejected">>
Rank(status) == CHOOSE n \in DOMAIN ByName : ByName[n] = status
LaterEvent(d, e) == d.at > e.at \/ (d.at = e.at /\ Rank(d.status) >= Rank(e.status))

LastEvent(events, o) ==
    LET own == EventsOf(events, o) IN CHOOSE e \in own : \A d \in own : LaterEvent(e, d)

\* Mutant of Relevant: an order counts where any of its events is.
RelevantOfAny(events) == events

\* Only orders received within the period count, with all their events there.
Relevant(events) == {e \in events : e.order \in OrdersOf(WithStatus(events, {"received"}))}

\* How many of a menu some orders are for.
Quantity(orders, m) == MapThenSumSet(LAMBDA o : Ordered(o, m), orders)

\* The menus of some orders that were sold, most of them first, of equal ones the least number.
TopMenus(quantity) ==
    LET sale == {m \in Menu : quantity[m] > 0}
        ahead(m) == {n \in sale : quantity[n] > quantity[m] \/ (quantity[n] = quantity[m] /\ n < m)}
    IN  [k \in 1..Min({TopMenuLimit, Cardinality(sale)}) |-> CHOOSE m \in sale : Cardinality(ahead(m)) = k - 1]

OrderSummary(events) ==
    LET rows == Relevant(events)
        last == [o \in OrdersOf(rows) |-> LastEvent(rows, o)]
        sold == {o \in OrdersOf(rows) : last[o].status \notin {"cancelled", "rejected"}}
        quantity == [m \in Menu |-> Quantity(sold, m)]
    IN  [there   |-> TRUE,
         total   |-> Cardinality(OrdersOf(rows)),
         events  |-> Cardinality(rows),
         sources |-> {IF Simulated(o) THEN "synthetic" ELSE "order" : o \in OrdersOf(rows)},
         counts  |-> [s \in Statuses |-> Cardinality({o \in OrdersOf(rows) : last[o].status = s})],
         sold    |-> quantity,
         menus   |-> TopMenus(quantity)]

\* max by time: of equal times the first.
LastState(states) ==
    states[CHOOSE k \in DOMAIN states :
        /\ \A j \in DOMAIN states : states[j].at <= states[k].at
        /\ \A j \in 1..k-1 : states[j].at < states[k].at]

\* max by a count and the time: of equal peaks the latest, of equal times the first.
PeakOf(states, count) ==
    states[CHOOSE k \in DOMAIN states :
        /\ \A j \in DOMAIN states :
             \/ states[j][count] < states[k][count]
             \/ states[j][count] = states[k][count] /\ states[j].at <= states[k].at
        /\ \A j \in 1..k-1 : states[j][count] < states[k][count] \/ states[j].at < states[k].at]

\* Averages are kept as their sum.
TrafficSummary(states) ==
    IF states = <<>> THEN NoSummary
    ELSE LET latest == LastState(states)
         IN  [there |-> TRUE, observations |-> Len(states),
              latestQueue |-> latest.queue, latestPeople |-> latest.people,
              queueSum |-> FoldLeft(LAMBDA n, s : n + s.queue, 0, states),
              peakPeople |-> PeakOf(states, "people").people,
              peakQueue |-> PeakOf(states, "queue").queue,
              peakQueueAt |-> PeakOf(states, "queue").at]

VideoSummary(states) ==
    IF states = <<>> THEN NoSummary
    ELSE [there |-> TRUE, latest |-> LastState(states).quality,
          issues |-> Len(SelectSeq(states, LAMBDA s : s.quality # "normal"))]

StoreSummaryOf(store, states, events) ==
    [store |-> store, traffic |-> TrafficSummary(states), orders |-> OrderSummary(events),
     video |-> VideoSummary(states)]

-----------------------------------------------------------------------------
TotalOf(counts) == MapThenSumSet(LAMBDA s : counts[s], Statuses)

\* Of any log: every order received in a period is counted once, under one status,
\* so that the totals of two periods that meet add up; and an order counts for its
\* menus unless its last event of the period ends it without a sale.
SummaryCountsOnce(log, a, b, c) ==
    LET whole == OrderSummary(SummaryRows(log, a, c))
        first == OrderSummary(SummaryRows(log, a, b))
        second == OrderSummary(SummaryRows(log, b, c))
    IN  /\ whole.total = Cardinality({o \in OrdersOf(log) :
                \E e \in WithStatus(EventsOf(log, o), {"received"}) : a <= e.at /\ e.at < c})
        /\ whole.total = first.total + second.total
        /\ TotalOf(whole.counts) = whole.total
        /\ \A k \in DOMAIN whole.menus : \A m \in Menu \ ToSet(whole.menus) :
             whole.sold[whole.menus[k]] >= whole.sold[m]
=============================================================================
