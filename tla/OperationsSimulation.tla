------------------------ MODULE OperationsSimulation ------------------------
(***************************************************************************)
(* The what-if simulation of the head office (operations_simulation.py): a  *)
(* discrete-event run of one store on a demand trace drawn beforehand, and  *)
(* the comparison that runs the same trace with 1, 2, ... members of staff  *)
(* and recommends the first number that meets the targets.                  *)
(*                                                                          *)
(* Time is counted in ticks.  What happens at one instant happens in any    *)
(* order; the clock moves when nothing is left to do at its instant.        *)
(* env.run(until=duration) stops before the events due at the end itself.   *)
(***************************************************************************)
EXTENDS Integers, Sequences, FiniteSetsExt

CONSTANTS Customers,     \* the customers of the trace, numbered from 1
          Duration,      \* duration_minutes
          MaxStaff,      \* max_staff_count of the comparison
          SeatCount,     \* seat_count
          EnterTicks,    \* from the door to the queue
          OrderTicks,    \* the part of the service spent ordering, at most
          PickupTicks,   \* PICKUP_MINUTES
          LeaveTicks,    \* from the table or counter to the door
          FallbackRate,  \* fallback_arrivals_per_hour
          Profiles,      \* the profiles a request may bring
          LastArrival,   \* bound: nobody arrives later
          Services, Patiences, Stays,   \* what a customer is drawn from
          WaitTarget,        \* max_average_wait_minutes
          AbandonTarget,     \* max_abandonment_rate_percent
          BusyTarget         \* max_staff_utilization_percent

ASSUME TimesAssumption ==
    /\ Duration \in Nat \ {0} /\ MaxStaff \in Nat \ {0} /\ SeatCount \in Nat
    /\ LastArrival \in 0..Duration-1
    /\ {EnterTicks, OrderTicks, PickupTicks, LeaveTicks} \subseteq Nat \ {0}
    /\ Services \cup Patiences \cup Stays \subseteq Nat \ {0}

ASSUME CustomersAssumption == IsFiniteSet(Customers) /\ Customers \subseteq Nat

VARIABLES demand,      \* the trace: one record per customer
          staff,       \* staff_count of the run under way
          now,         \* env.now
          phase,       \* how far customer_process has come
          wake,        \* the instant its timeout ends
          orderState,  \* order_states
          users,       \* staff.users: the requests granted
          queue,       \* staff.queue: the requests waiting
          seated,      \* seats.users
          completed, abandoned, maxQueue, waits, busy, seatBusy,
          options,     \* staffing_options: the metrics of the runs that ended
          recommended, \* recommended_staff_count, 0 before it is chosen
          served       \* history: staff-ticks spent on orders, seat-ticks used

run == <<phase, wake, orderState, users, queue, seated>>
counters == <<completed, abandoned, maxQueue, waits, busy, seatBusy>>
vars == <<demand, staff, now, run, counters, options, recommended, served>>

-----------------------------------------------------------------------------
(* Demand. *)

DemandCustomer == [arrival : 0..LastArrival, patience : Patiences,
                   service : Services, sits : BOOLEAN, stay : Stays]

Segment(from, to, rate) == [from |-> from, to |-> to, rate |-> rate]

\* The profile used when the request brings none: a third of the time each, at
\* 80, 125 and 100 percent of the rate.
DefaultProfile(rate) ==
    << Segment(0, Duration \div 3, 80 * rate),
       Segment(Duration \div 3, (2 * Duration) \div 3, 125 * rate),
       Segment((2 * Duration) \div 3, Duration, 100 * rate) >>

\* What the request's validator accepts (the segments in order of their start).
ValidProfile(p) ==
    /\ p[1].from = 0 /\ p[Len(p)].to = Duration
    /\ \A i \in 1..Len(p) : p[i].from < p[i].to
    /\ \A i \in 1..Len(p)-1 : p[i].to = p[i+1].from

\* Customers come, in order, in segments with a rate, and sit down only where
\* the store has seats.
Demands(p) ==
    LET times == {t \in 0..LastArrival : \E i \in DOMAIN p :
                    p[i].rate > 0 /\ t \in p[i].from..p[i].to-1}
        person == {d \in DemandCustomer : d.arrival \in times /\ (d.sits => SeatCount > 0)}
    IN  {d \in [Customers -> person] : \A c \in Customers :
            c + 1 \in Customers => d[c].arrival <= d[c+1].arrival}

-----------------------------------------------------------------------------
(* What a frame of the playback shows. *)

AgentState(c) ==
    CASE phase[c] \in {"making", "ready"} -> "waiting"
      [] OTHER -> phase[c]

Active == {c \in Customers : phase[c] \notin {"coming", "left"}}
Showing(s) == Cardinality({c \in Active : AgentState(c) = s})
StatusCount(s) == Cardinality({c \in Customers : orderState[c] = s})

Frame == [queue     |-> Showing("queue"),
          inService |-> Showing("ordering") + Showing("waiting"),
          seated    |-> Showing("seated"),
          completed |-> completed,
          abandoned |-> abandoned,
          status    |-> [s \in {"waiting", "preparing", "ready", "completed",
                                "abandoned"} |-> StatusCount(s)]]

-----------------------------------------------------------------------------
(* Members of staff: simpy.Resource, first come first served. *)

\* Mutant of Grant: the last to come is served first.
GrantLast(u, q) ==
    LET n == Min({Len(q), staff - Cardinality(u)})
    IN  [users |-> u \cup {q[i] : i \in Len(q)-n+1..Len(q)}, queue |-> SubSeq(q, 1, Len(q) - n)]

\* Requests granted as long as there is capacity.
Grant(u, q) ==
    LET n == Min({Len(q), staff - Cardinality(u)})
    IN  [users |-> u \cup {q[i] : i \in 1..n}, queue |-> SubSeq(q, n + 1, Len(q))]

\* The request of c is cancelled: taken out of the queue if it is there.
Without(q, c) ==
    IF \E i \in DOMAIN q : q[i] = c
    THEN LET i == CHOOSE i \in DOMAIN q : q[i] = c
         IN  SubSeq(q, 1, i - 1) \o SubSeq(q, i + 1, Len(q))
    ELSE q

\* The part of a stretch that begins now and lies before the end of the run.
Clipped(ticks) == Min({ticks, Duration - now})

-----------------------------------------------------------------------------
StartRun(n) ==
    /\ staff' = n /\ now' = 0
    /\ phase' = [c \in Customers |-> "coming"]
    /\ wake' = [c \in Customers |-> demand[c].arrival]
    /\ orderState' = [c \in Customers |-> "none"]
    /\ users' = {} /\ queue' = <<>> /\ seated' = {}
    /\ completed' = 0 /\ abandoned' = 0 /\ maxQueue' = 0 /\ waits' = <<0, 0>>
    /\ busy' = 0 /\ seatBusy' = 0 /\ served' = <<0, 0>>

Init ==
    /\ \E p \in Profiles \cup {DefaultProfile(FallbackRate)} :
         /\ ValidProfile(p)
         /\ demand \in Demands(p)
    /\ staff = 1 /\ now = 0
    /\ phase = [c \in Customers |-> "coming"]
    /\ wake = [c \in Customers |-> demand[c].arrival]
    /\ orderState = [c \in Customers |-> "none"]
    /\ users = {} /\ queue = <<>> /\ seated = {}
    /\ completed = 0 /\ abandoned = 0 /\ maxQueue = 0 /\ waits = <<0, 0>>
    /\ busy = 0 /\ seatBusy = 0 /\ served = <<0, 0>>
    /\ options = <<>> /\ recommended = 0

\* The timeout customer c waits for in phase p is over.
Due(c, p) == phase[c] = p /\ wake[c] = now /\ now < Duration

Goes(c, p, ticks) ==
    /\ phase' = [phase EXCEPT ![c] = p]
    /\ wake' = [wake EXCEPT ![c] = now + ticks]

Fixed == UNCHANGED <<demand, staff, now, options, recommended, served>>

Enter(c) ==
    /\ Due(c, "coming")
    /\ Goes(c, "entering", EnterTicks)
    /\ Fixed /\ UNCHANGED <<orderState, users, queue, seated, counters>>

\* order_received: the request for a member of staff is made, and granted at
\* once when one is free.
Queue(c) ==
    /\ Due(c, "entering")
    /\ Goes(c, "queue", demand[c].patience)
    /\ orderState' = [orderState EXCEPT ![c] = "waiting"]
    /\ LET g == Grant(users, Append(queue, c))
       IN  /\ users' = g.users
           /\ queue' = g.queue
           /\ maxQueue' = Max({maxQueue, Len(g.queue)})
    /\ Fixed /\ UNCHANGED <<seated, completed, abandoned, waits, busy, seatBusy>>

\* A release is taken up by those waiting at the same instant.
TakeUp ==
    /\ queue # <<>> /\ Cardinality(users) < staff /\ now < Duration
    /\ users' = Grant(users, queue).users
    /\ queue' = Grant(users, queue).queue
    /\ Fixed /\ UNCHANGED <<phase, wake, orderState, seated, counters>>

\* The request is among the outcome: the wait is over.  Mutant of Serve: the
\* whole service counts as work, even past the end.
ServeUnclipped(c) ==
    /\ phase[c] = "queue" /\ c \in users /\ now < Duration
    /\ waits' = <<waits[1] + demand[c].patience - (wake[c] - now), waits[2] + 1>>
    /\ orderState' = [orderState EXCEPT ![c] = "preparing"]
    /\ busy' = busy + demand[c].service
    /\ Goes(c, "ordering", Min({OrderTicks, demand[c].service}))
    /\ Fixed /\ UNCHANGED <<users, queue, seated, completed, abandoned, maxQueue, seatBusy>>

Serve(c) ==
    /\ phase[c] = "queue" /\ c \in users /\ now < Duration
    /\ waits' = <<waits[1] + demand[c].patience - (wake[c] - now), waits[2] + 1>>
    /\ orderState' = [orderState EXCEPT ![c] = "preparing"]
    /\ busy' = busy + Clipped(demand[c].service)
    /\ Goes(c, "ordering", Min({OrderTicks, demand[c].service}))
    /\ Fixed /\ UNCHANGED <<users, queue, seated, completed, abandoned, maxQueue, seatBusy>>

\* Patience is over first.  The request stays where it is, waiting or even
\* granted at this very instant, until the customer has left.
Abandon(c) ==
    /\ Due(c, "queue")
    /\ abandoned' = abandoned + 1
    /\ orderState' = [orderState EXCEPT ![c] = "abandoned"]
    /\ Goes(c, "exiting", LeaveTicks)
    /\ Fixed /\ UNCHANGED <<users, queue, seated, completed, maxQueue, waits, busy, seatBusy>>

\* The member of staff is given back and the order is ready.
Hands(c) ==
    /\ users' = users \ {c}
    /\ orderState' = [orderState EXCEPT ![c] = "ready"]
    /\ Goes(c, "ready", PickupTicks)

\* Mutant of EndOrdering: the member of staff is free once the order is taken.
EndOrderingFrees(c) ==
    /\ Due(c, "ordering")
    /\ IF demand[c].service > OrderTicks
       THEN /\ Goes(c, "making", demand[c].service - OrderTicks)
            /\ users' = users \ {c}
            /\ UNCHANGED orderState
       ELSE Hands(c)
    /\ Fixed /\ UNCHANGED <<queue, seated, counters>>

EndOrdering(c) ==
    /\ Due(c, "ordering")
    /\ IF demand[c].service > OrderTicks
       THEN /\ Goes(c, "making", demand[c].service - OrderTicks)
            /\ UNCHANGED <<users, orderState>>
       ELSE Hands(c)
    /\ Fixed /\ UNCHANGED <<queue, seated, counters>>

EndMaking(c) ==
    /\ Due(c, "making")
    /\ Hands(c)
    /\ Fixed /\ UNCHANGED <<queue, seated, counters>>

\* The order is picked up; a customer who wants to sit takes a free seat, and
\* leaves when there is none.
Complete(c) ==
    /\ Due(c, "ready")
    /\ completed' = completed + 1
    /\ orderState' = [orderState EXCEPT ![c] = "completed"]
    /\ IF demand[c].sits /\ Cardinality(seated) < SeatCount
       THEN /\ seated' = seated \cup {c}
            /\ seatBusy' = seatBusy + Clipped(demand[c].stay)
            /\ Goes(c, "seated", demand[c].stay)
       ELSE /\ Goes(c, "exiting", LeaveTicks)
            /\ UNCHANGED <<seated, seatBusy>>
    /\ Fixed /\ UNCHANGED <<users, queue, abandoned, maxQueue, waits, busy>>

StandUp(c) ==
    /\ Due(c, "seated")
    /\ seated' = seated \ {c}
    /\ Goes(c, "exiting", LeaveTicks)
    /\ Fixed /\ UNCHANGED <<orderState, users, queue, counters>>

\* Leaving ends the "with" of one who gave up: the request is cancelled or
\* given back.
Exit(c) ==
    /\ Due(c, "exiting")
    /\ phase' = [phase EXCEPT ![c] = "left"]
    /\ queue' = Without(queue, c)
    /\ users' = users \ {c}
    /\ wake' = [wake EXCEPT ![c] = 0]
    /\ Fixed /\ UNCHANGED <<orderState, seated, counters>>

\* Nothing is left to do at this instant.
Idle ==
    /\ \A c \in Customers : phase[c] = "left" \/ wake[c] > now
    /\ \A c \in users : phase[c] # "queue"
    /\ queue = <<>> \/ Cardinality(users) = staff

Tick ==
    /\ now < Duration /\ Idle
    /\ now' = now + 1
    /\ served' = << served[1] + Cardinality({c \in Customers : phase[c] \in {"ordering", "making"}}),
                    served[2] + Cardinality(seated) >>
    /\ UNCHANGED <<demand, staff, run, counters, options, recommended>>

-----------------------------------------------------------------------------
(* The comparison. *)

Metrics == [visitors |-> Cardinality(Customers), completed |-> completed,
            abandoned |-> abandoned,
            inProgress |-> Cardinality({c \in Customers :
                             orderState[c] \in {"waiting", "preparing", "ready"}}),
            waits |-> waits, busy |-> busy]

\* The targets the run with n members of staff does not meet.
Unmet(m, n) ==
    {t \in {"wait", "abandonment", "utilization"} :
        CASE t = "wait"        -> m.waits[2] > 0 /\ m.waits[1] > WaitTarget * m.waits[2]
          [] t = "abandonment" -> m.abandoned * 100 > AbandonTarget * m.visitors
          [] t = "utilization" -> m.busy * 100 > BusyTarget * n * Duration}

Meets(opts, n) == opts[n].unmet = {}

\* Mutant of Recommendation: the last number that meets the targets.
RecommendationLast(opts) ==
    LET good == {n \in DOMAIN opts : Meets(opts, n)}
    IN  IF good = {} THEN Len(opts) ELSE CHOOSE n \in good : \A k \in good : k <= n

\* next(option for option in staffing_options if it meets them), else the last.
Recommendation(opts) ==
    LET good == {n \in DOMAIN opts : Meets(opts, n)}
    IN  IF good = {} THEN Len(opts) ELSE CHOOSE n \in good : \A k \in good : n <= k

EndRun ==
    /\ now = Duration /\ recommended = 0
    /\ LET opts == Append(options, [metrics |-> Metrics, unmet |-> Unmet(Metrics, staff)])
       IN  /\ options' = opts
           /\ IF staff < MaxStaff
              THEN /\ StartRun(staff + 1)
                   /\ UNCHANGED recommended
              ELSE /\ recommended' = Recommendation(opts)
                   /\ UNCHANGED <<staff, now, run, counters, served>>
    /\ UNCHANGED demand

Next ==
    \/ \E c \in Customers :
         \/ Enter(c) \/ Queue(c) \/ Serve(c) \/ Abandon(c) \/ EndOrdering(c)
         \/ EndMaking(c) \/ Complete(c) \/ StandUp(c) \/ Exit(c)
    \/ TakeUp \/ Tick \/ EndRun

Spec == Init /\ [][Next]_vars

-----------------------------------------------------------------------------
(* Properties. *)

\* Staff is never overbooked, an order is made by a member of staff who holds
\* nothing else, and the only others who can hold one are a customer just
\* called and one who gave up and is still leaving (customer_process keeps the
\* request open until then); who has left holds nothing and waits for nothing.
StaffAccounted ==
    /\ Cardinality(users) <= staff /\ Cardinality(seated) <= SeatCount
    /\ \A c \in Customers :
         /\ phase[c] \in {"ordering", "making"} => c \in users
         /\ c \in users \/ (\E i \in DOMAIN queue : queue[i] = c) =>
              \/ phase[c] \in {"queue", "ordering", "making"}
              \/ phase[c] = "exiting" /\ orderState[c] = "abandoned"
         /\ c \in seated <=> phase[c] = "seated"

Joined(c) == wake[c] - demand[c].patience

\* Nobody is served while one who queued earlier still waits and has not been
\* called.
FirstComeFirstServed ==
    [][\A c, d \in Customers :
          (/\ phase[c] = "queue" /\ phase'[c] = "ordering"
           /\ phase[d] = "queue" /\ Joined(d) < Joined(c)) => d \in users]_vars

\* The figures of a run are what happened in it: the playback's frame agrees
\* with the counters, every visitor is counted once, max_queue bounds the
\* queue, and the minutes charged when a service or a stay begins are, at the
\* end of the run, the minutes really worked and sat (so that utilization
\* cannot exceed 100 percent).
KpisAreExact ==
    /\ Frame.completed = Frame.status["completed"]
    /\ Frame.abandoned = Frame.status["abandoned"]
    /\ Frame.queue = Frame.status["waiting"]
    /\ Len(queue) <= maxQueue
    /\ waits[2] = Cardinality({c \in Customers :
                     orderState[c] \in {"preparing", "ready", "completed"}})
    /\ Metrics.completed + Metrics.abandoned + Metrics.inProgress
         + StatusCount("none") = Metrics.visitors
    /\ served[1] <= busy /\ served[2] <= seatBusy
    /\ now = Duration => <<busy, seatBusy>> = served
    /\ busy <= staff * Duration /\ seatBusy <= SeatCount * Duration

\* The comparison recommends a number of staff that meets the three targets
\* whenever one does, and no smaller number does.
RecommendationIsLeast ==
    recommended # 0 =>
      /\ recommended \in 1..MaxStaff
      /\ \A n \in 1..recommended-1 : ~ Meets(options, n)
      /\ Meets(options, recommended) \/ \A n \in 1..MaxStaff : ~ Meets(options, n)

\* A run is sound at every instant: staff, seats and figures.
RunIsSound == StaffAccounted /\ KpisAreExact
=============================================================================
