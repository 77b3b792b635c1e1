----------------------------- MODULE SeedOrders -----------------------------
(***************************************************************************)
(* The order simulator's seed mode: the orders of past days are planned     *)
(* from the stores' menus and sent one event after the other to the log     *)
(* (order_simulator.py).  A run that fails on the way leaves what it has    *)
(* sent; run again, it sends everything again, and save_order_event keeps   *)
(* what it knows by the event's number, of order and status.                *)
(*                                                                          *)
(* A run has, for each store, the rows its menu answers, the instants the   *)
(* orders come, which depend on period and seed alone, and the number of    *)
(* events sent before it ends.  An order is <<store, sequence>>; the menu   *)
(* drawn for it is the one at its sequence, round the list.                 *)
(***************************************************************************)
EXTENDS Integers, Sequences, SequencesExt, FiniteSetsExt

CONSTANTS PreparingOffset,  \* an order is prepared so long after its reception
          CompletedOffset   \* and picked up so long after it is ready

ASSUME OffsetAssumption == PreparingOffset \in Nat \ {0} /\ CompletedOffset \in Nat \ {0}

\* parse_available_menus: what the store has on sale, with the time it takes.
OnSale(menu, store) ==
    SelectSeq(menu, LAMBDA r : r.store = store /\ r.available /\ r.prep > 0)

\* create_order_plan.
Drawn(menus, sequence) == menus[((sequence - 1) % Len(menus)) + 1]
ReadyOffset(menus, sequence) == Max({PreparingOffset, Drawn(menus, sequence).prep})

\* materialize_order_events.
PlanEvents(order, received, ready) ==
    {[order |-> order, status |-> "received",  at |-> received],
     [order |-> order, status |-> "preparing", at |-> received + PreparingOffset],
     [order |-> order, status |-> "ready",     at |-> received + ready],
     [order |-> order, status |-> "completed", at |-> received + ready + CompletedOffset]}

\* Where the number of an event comes in the alphabet.
Alphabet == <<"completed", "preparing", "ready", "received">>
Place(status) == CHOOSE n \in DOMAIN Alphabet : Alphabet[n] = status

Earlier(d, e) ==
    \/ d.at < e.at
    \/ d.at = e.at /\ \/ d.order[1] < e.order[1]
                      \/ d.order[1] = e.order[1] /\ \/ d.order[2] < e.order[2]
                                                    \/ d.order[2] = e.order[2] /\ Place(d.status) < Place(e.status)

\* generate_seed_events: the events of all stores, in the order of their times.
SeedEvents(run) ==
    LET of(s) == UNION {PlanEvents(<<s, k>>, run.received[s][k], ReadyOffset(OnSale(run.menu[s], s), k)) :
                          k \in DOMAIN run.received[s]}
        all == UNION {of(s) : s \in DOMAIN run.received}
    IN  [n \in 1..Cardinality(all) |->
            CHOOSE e \in all : Cardinality({d \in all : Earlier(d, e)}) = n - 1]

KnownEvent(log, event) == \E e \in log : e.order = event.order /\ e.status = event.status

\* Mutant of SaveSeed: the number of an event is not unique.
SaveSeedUnchecked(log, event) == log \cup {event}

\* save_order_event, of one call at a time.
SaveSeed(log, event) == IF KnownEvent(log, event) THEN log ELSE log \cup {event}

\* main and _run_seed_command: without --apply, or where a store has nothing on
\* sale, nothing is sent; otherwise all events, or those before the one that fails.
SeedRun(log, run) ==
    IF ~run.apply \/ \E s \in DOMAIN run.menu : OnSale(run.menu[s], s) = <<>> THEN log
    ELSE LET events == SeedEvents(run)
         IN  FoldLeft(SaveSeed, log, SubSeq(events, 1, Min({run.stop, Len(events)})))

-----------------------------------------------------------------------------
Reached(log, o) == {e \in log : e.order = o}

\* An order is received, prepared, ready and completed, in this order.
InSequence(log) ==
    \A d, e \in log : /\ d.order = e.order
                      /\ <<d.status, e.status>> \in {<<"received", "preparing">>, <<"preparing", "ready">>,
                                                     <<"ready", "completed">>}
                      => d.at <= e.at

\* A seed run may be repeated: what is stored stays, one cut short and run again
\* leaves what one run leaves, in sequence.  With a menu that has changed in
\* between every order still gets each status once, and only the orders the first
\* run has left half way are mixed from two plans: of the others, every event is
\* of one of the runs.
SeedIsRepeatable(first, again) ==
    LET cut == SeedRun({}, first)
        log == SeedRun(cut, again)
        whole == SeedRun({}, again)
        plan(run) == ToSet(SeedEvents(run))
        orders == {e.order : e \in log}
        complete(run) == run.apply /\ (\A s \in DOMAIN run.menu : OnSale(run.menu[s], s) # <<>>)
                            /\ run.stop >= Len(SeedEvents(run))
    IN  /\ cut \subseteq log
        /\ SeedRun(log, again) = log
        /\ complete(again) =>
             /\ first.menu = again.menu => log = whole /\ InSequence(log)
             /\ \A o \in orders : \A s \in ToSet(Alphabet) :
                  Cardinality({e \in Reached(log, o) : e.status = s}) = 1
             /\ \A o \in orders :
                  \/ Reached(log, o) \subseteq plan(again)
                  \/ Reached(log, o) \subseteq plan(first)
                  \/ Reached(cut, o) # {} /\ Cardinality(Reached(cut, o)) < 4
=============================================================================
