----------------------- MODULE MCOperationsSimulation -----------------------
(* A store of one seat, three customers and up to two staff; and the agent,  *)
(* with all the scripts of two calls and one more, on days of 4 hours.        *)
EXTENDS OperationsAgent

MCCustomers == 1..3
MCProfiles == {<<Segment(0, 1, 0), Segment(1, 6, 24)>>}
MCFallback == <<1, 2, 1>>

\* A quiet day, a busy morning, an evening, an hour above what the API takes.
Timelines == {<<>>, <<<<0, 2>>, <<0, 1>>, <<1, 1>>>>, <<<<2, 1>>, <<3, 1>>, <<3, 2>>>>,
              <<<<1, 9>>, <<2, 1>>, <<3, 0>>>>}

MCCall == [tool : {"summary"}, fails : {FALSE}, store : {"absent", "synthetic"}, points : {<<>>}]
   \cup [tool : {"timeline"}, fails : {FALSE}, store : {"absent"}, points : Timelines]
   \cup [tool : {"compare", "unknown"}, fails : {FALSE}, store : {"absent"}, points : {<<>>}]
   \cup [tool : {"summary", "timeline", "compare"}, fails : {TRUE}, store : {"absent"}, points : {<<>>}]

Says(calls) == [fails |-> FALSE, calls |-> calls]
Short == {[fails |-> TRUE, calls |-> <<>>], Says(<<>>)} \cup {Says(<<c>>) : c \in MCCall}
Turns == Short \cup {Says(<<c, d>>) : c, d \in MCCall}

Rules == {<<s, t, c>> : s \in {x \in MCCall : x.tool = "summary"},
                        t \in {x \in MCCall : x.tool = "timeline"}, c \in {x \in MCCall : x.tool = "compare"}}

MCScripts == {[turns |-> <<t, u>>, rules |-> r] : t \in Turns, u \in Short, r \in Rules}
=============================================================================
