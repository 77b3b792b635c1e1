--------------------------- MODULE MCOrderEvents ---------------------------
(***************************************************************************)
(* The order log and what is read from it: the summary of the period, and   *)
(* the diagnosis the head office gets, tried on all small logs of 2 stores; *)
(* and the log the simulator's seed mode leaves, cut short anywhere.        *)
(***************************************************************************)
EXTENDS OrderSummaries, StoreInsights, SeedOrders, TLC

MCMenu == {1, 2}
MCOrdered(o, m) == IF o \in Order THEN 3 - m ELSE m
MCSimulated(o) == o \in Order

-----------------------------------------------------------------------------
Begins == clock = 0 /\ rows = {} /\ requests = {} /\ posted = 0 /\ simulator = "running"
          /\ \A o \in Order : task[o].phase = "none"

\* The states of a store in a period: none, one or two, poor or good.
Sample(at) == [at : {at}, people : {1}, queue : {0, MediumQueue, HighQueue}, quality : {"normal", "low"}]
Observed == {<<>>} \cup {<<s>> : s \in Sample(0)} \cup {<<s, t>> : s \in Sample(0), t \in Sample(1)}

\* Its orders: none, one that is under way, one whose reception was earlier.
Event(o, status) == [order |-> o, status |-> status, at |-> 0]
Logs == {{}, {Event("o", "received"), Event("o", "rejected")}, {Event("o", "completed")}}

\* The diagnosis of any two stores says of each what its rows say, whatever the
\* model answers and whichever stores are asked for.
DiagnosisFollowsLog ==
  Begins =>
    \A S \in Observed, T \in {R \in Observed : Len(R) < 2}, l, m \in Logs, asked \in SUBSET {1, 2}, reply \in Replies :
      DiagnosisFollowsRows({1, 2}, <<S, T>>, <<l, m>>, asked, reply)

Menu1(prep) == [store |-> 1, available |-> TRUE, prep |-> prep]
SoldOut == [store |-> 1, available |-> FALSE, prep |-> 1]
Elsewhere == [store |-> 2, available |-> TRUE, prep |-> 2]
SeedMenus == {<<Menu1(1)>>, <<Menu1(4), SoldOut>>, <<Elsewhere, Menu1(4), Menu1(1)>>, <<SoldOut, Menu1(0)>>}
SeedRun_(menu, stop, apply) ==
    [menu |-> <<menu, <<Elsewhere>>>>, received |-> <<<<0, 2>>, <<1>>>>, stop |-> stop, apply |-> apply]
SeedRuns(stops) == {SeedRun_(menu, stop, TRUE) : menu \in SeedMenus, stop \in stops}
                     \cup {SeedRun_(menu, 12, FALSE) : menu \in SeedMenus}

\* Two orders of one store and one of another, planned from every pair of menus,
\* with a first run cut short after any of its events: see SeedIsRepeatable.
SeedRepeats == Begins => \A first \in SeedRuns(0..12), again \in SeedRuns({5, 12}) : SeedIsRepeatable(first, again)

OrderSymmetry == Permutations(Order)
=============================================================================
