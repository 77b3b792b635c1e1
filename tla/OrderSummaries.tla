--------------------------- MODULE OrderSummaries ---------------------------
(***************************************************************************)
(* The log of one store beside the summary of its periods: what the head   *)
(* office reads (summary.py) is what the store and its customers are told. *)
(***************************************************************************)
EXTENDS OrderEvents, StoreSummary

\* An order is for some of each menu or none.
ASSUME QuantityAssumption == \A o \in Order \cup TillOrder, m \in Menu : Ordered(o, m) \in Nat

\* Whatever the order of the posts, any two periods of the log that meet are
\* summarised without an order lost or counted twice, and the status the summary
\* gives an order of the simulator is the one its customer is told, although the
\* summary settles equal times by the number of the event and the status by its
\* arrival (summary.py, get_latest_order_event).
SummaryFollowsLog ==
  /\ \A a \in Time : \A b \in a + 1..MaxClock + 1 : \A c \in b + 1..MaxClock + 1 :
       SummaryCountsOnce(rows, a, b, c)
  /\ \A o \in Order : Log(o) # {} => LastEvent(rows, o) = Latest(o)
=============================================================================
