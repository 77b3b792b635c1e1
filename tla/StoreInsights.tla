--------------------------- MODULE StoreInsights ---------------------------
(***************************************************************************)
(* The diagnosis of the stores for the head office (franchise_insights.py   *)
(* and POST /insights): the summary is narrowed to the stores asked for and *)
(* given to a model; where that fails, rules write it from the figures.     *)
(***************************************************************************)
EXTENDS StoreSummary

CONSTANTS HighQueue,   \* a peak from which a wait is grave (8)
          MediumQueue  \* and from which it is a congestion (4)

ASSUME QueueAssumption == MediumQueue \in Nat \ {0} /\ HighQueue \in Nat /\ MediumQueue <= HighQueue

HasOrderData(orders) ==
    \/ orders.total > 0 \/ orders.events > 0 \/ orders.sources # {} \/ orders.menus # <<>>
    \/ \E s \in Statuses : orders.counts[s] > 0

\* Mutant of HasAnalysisData: a store without pictures is passed over.
HasPictures(s) == s.traffic.there \/ s.video.there

HasAnalysisData(s) == s.traffic.there \/ HasOrderData(s.orders) \/ s.video.there

Severity(peak) ==
    CASE peak >= HighQueue   -> "high"
      [] peak >= MediumQueue /\ peak < HighQueue -> "medium"
      [] peak > 0 /\ peak < MediumQueue          -> "low"
      [] OTHER               -> "info"

Insight(store, kind, severity, figure) ==
    [store |-> store, kind |-> kind, severity |-> severity, figure |-> figure]

\* A poor picture before the queue, the queue before the orders.
RuleInsight(s) ==
    LET poor == s.video.there /\ (s.video.issues > 0 \/ s.video.latest # "normal")
    IN  IF poor THEN Insight(s.store, "video_issue", "medium", s.video.issues)
        ELSE IF s.traffic.there
        THEN Insight(s.store,
                     IF s.traffic.peakQueue >= MediumQueue THEN "congestion" ELSE "operating_status",
                     Severity(s.traffic.peakQueue), s.traffic.peakQueue)
        ELSE Insight(s.store, "order_activity", "info", s.orders.total)

Analyzable(stores) == SelectSeq(stores, HasAnalysisData)

\* build_rule_based_insights; compared are the peaks of the queues, from two on.
RuleBased(stores) ==
    LET some == Analyzable(stores)
        insights == [k \in DOMAIN some |-> RuleInsight(some[k])]
        queues == SelectSeq(insights, LAMBDA i : i.kind \in {"congestion", "operating_status"})
    IN  [insights |-> insights,
         compared |-> IF Len(queues) >= 2
                      THEN [k \in DOMAIN queues |-> <<queues[k].store, queues[k].figure>>]
                      ELSE <<>>]

Narrowed(stores, asked) ==
    IF asked = {} THEN stores ELSE SelectSeq(stores, LAMBDA s : s.store \in asked)

(* What the model does: no client, an error, a text that is no JSON or has no  *)
(* insights, insights of the wrong form, or an answer.                         *)
Replies == {"none", "error", "not_json", "no_insights", "malformed", "good"}

\* generate_insights raises InsightsUnavailableError, before the model is asked
\* where there is nothing to analyse.
Unavailable(stores, reply) ==
    Analyzable(stores) = <<>> \/ reply \notin {"good", "malformed"}

Failed(status) == [status |-> status, source |-> "none", insights |-> <<>>, compared |-> <<>>]

\* create_insights.  An answer of the wrong form is only found out when the
\* response is written.
CreateInsights(stores, asked, reply) ==
    LET some == Narrowed(stores, asked)
        rules == RuleBased(some)
    IN  IF Unavailable(some, reply)
        THEN IF Analyzable(some) = <<>> THEN Failed(503)
             ELSE [status |-> 200, source |-> "rule_based_fallback",
                   insights |-> rules.insights, compared |-> rules.compared]
        ELSE IF reply = "malformed" THEN Failed(500)
        ELSE [status |-> 200, source |-> "gemini", insights |-> <<>>, compared |-> <<>>]

-----------------------------------------------------------------------------
\* From the rows up: without the model every store asked for that has any row in
\* the period gets one diagnosis; it is grave exactly where the pictures were good
\* and the queue was once so long, however short it is now; a store with orders
\* alone is not silent; and the request fails only where there is nothing at all.
\* States is a sequence of states per store, Log a set of order rows per store.
DiagnosisFollowsRows(Stores, States, Log, asked, reply) ==
    LET list == SetToSeq(Stores)
        stores == [k \in DOMAIN list |-> StoreSummaryOf(list[k], States[list[k]], Log[list[k]])]
        wanted == IF asked = {} THEN Stores ELSE asked \cap Stores
        withRows == {s \in wanted : States[s] # <<>> \/ WithStatus(Log[s], {"received"}) # {}}
        answer == CreateInsights(stores, asked, reply)
        of(s) == {k \in DOMAIN answer.insights : answer.insights[k].store = s}
        rows(s) == {States[s][k] : k \in DOMAIN States[s]}
    IN  /\ answer.status = 503 <=> withRows = {}
        /\ answer.source = "rule_based_fallback" =>
             \A s \in Stores :
               /\ Cardinality(of(s)) = (IF s \in withRows THEN 1 ELSE 0)
               /\ \A k \in of(s) :
                    answer.insights[k].severity = "high" <=>
                      /\ rows(s) # {} /\ \A r \in rows(s) : r.quality = "normal"
                      /\ \E r \in rows(s) : r.queue >= HighQueue
               /\ \A k \in DOMAIN answer.compared : answer.compared[k][1] = s =>
                    \A r \in rows(s) : r.queue <= answer.compared[k][2]
=============================================================================
