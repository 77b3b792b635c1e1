-------------------- MODULE OperationsSimulation_proofs --------------------
(***************************************************************************)
(* The what-if simulation for any number of customers, members of staff    *)
(* and seats, and any demand.  The inductive invariant says what a         *)
(* customer's order can be in each phase (PhaseInv), who may hold a member *)
(* of staff or wait for one and in which order (HoldInv, TurnInv), that    *)
(* the counters count (CountInv), and that what has been charged is what   *)
(* has been worked and what is still to be worked before the end           *)
(* (WorkInv, SitInv).                                                      *)
(*                                                                         *)
(* The operations agent works its number of staff out again from the       *)
(* options of the comparison (OneNumber).  A run of the agent is two       *)
(* folds: what holds while the model calls tools is ModelInv, and what     *)
(* holds after k calls of the rules, of what the model left, is RuleInv;   *)
(* the lemmas on folds carry them to the end of the run (AgentEnds).       *)
(***************************************************************************)
EXTENDS OperationsAgent, FiniteSetTheorems, SequenceTheorems, WellFoundedInduction, TLAPS

Phases == {"coming", "entering", "queue", "ordering", "making", "ready", "seated", "exiting", "left"}
OrderStates == {"none", "waiting", "preparing", "ready", "completed", "abandoned"}
Persons == [Customers -> DemandCustomer]
Figures == [visitors : Nat, completed : Nat, abandoned : Nat, inProgress : Nat, waits : Int \X Nat, busy : Nat]
Option == [metrics : Figures, unmet : SUBSET {"wait", "abandonment", "utilization"}]

TypeInv ==
  /\ demand \in Persons
  /\ staff \in 1..MaxStaff
  /\ now \in 0..Duration
  /\ phase \in [Customers -> Phases]
  /\ wake \in [Customers -> Nat]
  /\ orderState \in [Customers -> OrderStates]
  /\ users \subseteq Customers
  /\ queue \in Seq(Customers)
  /\ seated \subseteq Customers
  /\ completed \in Nat /\ abandoned \in Nat /\ maxQueue \in Nat /\ busy \in Nat /\ seatBusy \in Nat
  /\ waits \in Int \X Nat
  /\ options \in Seq(Option)
  /\ recommended \in 0..MaxStaff
  /\ served \in Nat \X Nat

\* What has become of an order while its customer is in phase p.
OrderOf(p) ==
  CASE p \in {"coming", "entering"} -> {"none"}
    [] p = "queue"                  -> {"waiting"}
    [] p \in {"ordering", "making"} -> {"preparing"}
    [] p = "ready"                  -> {"ready"}
    [] p = "seated"                 -> {"completed"}
    [] OTHER                        -> {"completed", "abandoned"}

\* No timeout is missed, and nobody joins the queue in the future.
PhaseInv ==
  \A c \in Customers :
    /\ orderState[c] \in OrderOf(phase[c])
    /\ phase[c] # "left" => now <= wake[c]
    /\ phase[c] = "queue" => Joined(c) <= now

\* Who holds one of n members of staff (u) or waits for one (q), by phase and order state.
Distinct(q) == \A i, j \in 1..Len(q) : q[i] = q[j] => i = j
In(c, q) == \E i \in 1..Len(q) : q[i] = c
GaveUp(c, ph, os) == ph[c] = "exiting" /\ os[c] = "abandoned"
Line(n, u, q, ph, os) ==
  /\ Cardinality(u) <= n
  /\ Distinct(q)
  /\ \A c \in u : ~ In(c, q) /\ (ph[c] \in {"queue", "ordering", "making"} \/ GaveUp(c, ph, os))
  /\ \A c \in Customers : In(c, q) => ph[c] = "queue" \/ GaveUp(c, ph, os)
  /\ \A c \in Customers : /\ ph[c] \in {"ordering", "making"} => c \in u
                          /\ ph[c] = "queue" => c \in u \/ In(c, q)

HoldInv == Line(staff, users, queue, phase, orderState)

\* The queue is in the order of joining, and those just called joined before all who wait.
InTurn(u, q, ph, jn) ==
  /\ \A i, j \in 1..Len(q) : i < j /\ ph[q[i]] = "queue" /\ ph[q[j]] = "queue" => jn[q[i]] <= jn[q[j]]
  /\ \A c \in u : \A i \in 1..Len(q) : ph[c] = "queue" /\ ph[q[i]] = "queue" => jn[c] <= jn[q[i]]

JoinTimes == [c \in Customers |-> Joined(c)]
TurnInv == InTurn(users, queue, phase, JoinTimes)

SeatInv ==
  /\ Cardinality(seated) <= SeatCount
  /\ \A c \in Customers : c \in seated <=> phase[c] = "seated"

InStatus(S) == {c \in Customers : orderState[c] \in S}

CountInv ==
  /\ completed = Cardinality(InStatus({"completed"}))
  /\ abandoned = Cardinality(InStatus({"abandoned"}))
  /\ waits[2] = Cardinality(InStatus({"preparing", "ready", "completed"}))
  /\ Len(queue) <= maxQueue

\* The instants before the end in which the orders under way will still be worked on, and
\* the seats taken still be used.
WorkEnd(c) == IF phase[c] = "ordering" /\ demand[c].service > OrderTicks
              THEN wake[c] + (demand[c].service - OrderTicks) ELSE wake[c]
Worked == {c \in Customers : phase[c] \in {"ordering", "making"}}
Ahead(W, e, n) == {p \in Customers \X (0..Duration-1) : p[1] \in W /\ n <= p[2] /\ p[2] < e[p[1]]}
WorkAhead == Ahead(Worked, [c \in Customers |-> WorkEnd(c)], now)
SitAhead == Ahead(seated, wake, now)

WorkInv ==
  /\ busy = served[1] + Cardinality(WorkAhead)
  /\ served[1] <= staff * now

SitInv ==
  /\ seatBusy = served[2] + Cardinality(SitAhead)
  /\ served[2] <= SeatCount * now

ChoiceInv ==
  /\ recommended = 0 => Len(options) = staff - 1
  /\ recommended # 0 => /\ Len(options) = MaxStaff /\ staff = MaxStaff /\ now = Duration
                        /\ recommended = Recommendation(options)

IInv == TypeInv /\ PhaseInv /\ HoldInv /\ TurnInv /\ SeatInv /\ CountInv /\ WorkInv /\ SitInv /\ ChoiceInv
-----------------------------------------------------------------------------
(* Numbers, the demand and the queue *)

LEMMA MinTwo == ASSUME NEW a \in Int, NEW b \in Int PROVE Min({a, b}) = IF a <= b THEN a ELSE b
<1> DEFINE m == IF a <= b THEN a ELSE b
<1>1. m \in {a, b} /\ \A y \in {a, b} : m <= y
  OBVIOUS
<1>2. \A x \in {a, b} : (\A y \in {a, b} : x <= y) => x = m
  OBVIOUS
<1> HIDE DEF m
<1>3. Min({a, b}) = m
  BY <1>1, <1>2 DEF Min
<1> QED
  BY <1>3 DEF m

LEMMA MaxTwo == ASSUME NEW a \in Int, NEW b \in Int PROVE Max({a, b}) = IF a >= b THEN a ELSE b
<1> DEFINE m == IF a >= b THEN a ELSE b
<1>1. m \in {a, b} /\ \A y \in {a, b} : m >= y
  OBVIOUS
<1>2. \A x \in {a, b} : (\A y \in {a, b} : x >= y) => x = m
  OBVIOUS
<1> HIDE DEF m
<1>3. Max({a, b}) = m
  BY <1>1, <1>2 DEF Max
<1> QED
  BY <1>3 DEF m

LEMMA Numbers ==
  /\ Duration \in Nat /\ Duration > 0 /\ MaxStaff \in Nat /\ MaxStaff > 0 /\ SeatCount \in Nat
  /\ EnterTicks \in Nat /\ EnterTicks > 0 /\ OrderTicks \in Nat /\ OrderTicks > 0
  /\ PickupTicks \in Nat /\ PickupTicks > 0 /\ LeaveTicks \in Nat /\ LeaveTicks > 0
  /\ IsFiniteSet(Customers)
BY TimesAssumption, CustomersAssumption

LEMMA DemandNumbers ==
  ASSUME demand \in Persons, NEW c \in Customers
  PROVE  /\ demand[c].arrival \in Nat
         /\ demand[c].patience \in Nat /\ demand[c].patience > 0
         /\ demand[c].service \in Nat /\ demand[c].service > 0
         /\ demand[c].stay \in Nat /\ demand[c].stay > 0
         /\ demand[c].sits \in BOOLEAN
<1>1. demand[c] \in DemandCustomer
  BY DEF Persons
<1> QED
  BY <1>1, TimesAssumption DEF DemandCustomer

\* What a grant does: the first n of the queue are called.
LEMMA GrantEffect ==
  ASSUME NEW u \in SUBSET Customers, NEW q \in Seq(Customers), staff \in Nat, Cardinality(u) <= staff
  PROVE  \E n \in 0..Len(q) :
           /\ Grant(u, q).users = u \cup {q[i] : i \in 1..n}
           /\ Grant(u, q).queue \in Seq(Customers)
           /\ Len(Grant(u, q).queue) = Len(q) - n
           /\ \A i \in 1..Len(q) - n : Grant(u, q).queue[i] = q[n + i]
           /\ Cardinality(Grant(u, q).users) <= staff
           /\ Grant(u, q).users \subseteq Customers
<1> DEFINE n == Min({Len(q), staff - Cardinality(u)})
<1>0. Len(q) \in Nat /\ \A i \in 1..Len(q) : q[i] \in Customers
  BY ElementOfSeq
<1>1. IsFiniteSet(u) /\ Cardinality(u) \in Nat
  BY Numbers, FS_Subset, FS_CardinalityType
<1>2. n \in 0..Len(q) /\ n <= staff - Cardinality(u)
  <2>0. PICK a \in Int, b \in Int : a = Len(q) /\ b = staff - Cardinality(u)
    BY <1>0, <1>1
  <2>1. n = IF Len(q) <= staff - Cardinality(u) THEN Len(q) ELSE staff - Cardinality(u)
    <3>1. Min({a, b}) = IF a <= b THEN a ELSE b
      BY <2>0, MinTwo
    <3> QED
      BY <2>0, <3>1
  <2> HIDE DEF n
  <2> QED
    BY <1>0, <1>1, <2>1
<1>3. Grant(u, q) = [users |-> u \cup {q[i] : i \in 1..n}, queue |-> SubSeq(q, n + 1, Len(q))]
  BY DEF Grant
<1> HIDE DEF n
<1>4. /\ SubSeq(q, n + 1, Len(q)) \in Seq(Customers)
      /\ Len(SubSeq(q, n + 1, Len(q))) = Len(q) - n
      /\ \A i \in 1..Len(q) - n : SubSeq(q, n + 1, Len(q))[i] = q[n + i]
  <2>1. \A i \in n+1..Len(q) : q[i] \in Customers
    BY <1>0, <1>2
  <2>2. /\ SubSeq(q, n + 1, Len(q)) \in Seq(Customers)
        /\ Len(SubSeq(q, n + 1, Len(q))) = IF n + 1 <= Len(q) THEN Len(q) - (n + 1) + 1 ELSE 0
        /\ \A i \in 1..Len(q) - (n + 1) + 1 : SubSeq(q, n + 1, Len(q))[i] = q[n + 1 + i - 1]
    BY <1>0, <1>2, <2>1, SubSeqProperties
  <2> QED
    BY <1>0, <1>2, <2>2
<1> DEFINE called == {q[i] : i \in 1..n}
<1>5. IsFiniteSet(called) /\ Cardinality(called) <= n
  <2> DEFINE f == [i \in 1..n |-> q[i]]
  <2>1. f \in Surjection(1..n, called)
    BY DEF Surjection
  <2>2. IsFiniteSet(1..n) /\ Cardinality(1..n) = n
    BY <1>2, FS_Interval
  <2> HIDE DEF f, called
  <2> QED
    BY <2>1, <2>2, FS_Surjection
<1>6. called \subseteq Customers
  BY <1>0, <1>2
<1>7. Cardinality(u \cup called) <= staff
  <2> HIDE DEF called
  <2>1. /\ Cardinality(u \cup called) = Cardinality(u) + Cardinality(called) - Cardinality(u \cap called)
        /\ Cardinality(u \cap called) \in Nat /\ Cardinality(called) \in Nat
    BY <1>1, <1>5, FS_Union, FS_Intersection, FS_CardinalityType
  <2> QED
    BY <1>0, <1>1, <1>2, <1>5, <2>1
<1>8. Grant(u, q).users = u \cup called /\ Grant(u, q).queue = SubSeq(q, n + 1, Len(q))
  <2> DEFINE r == SubSeq(q, n + 1, Len(q))
  <2>1. Grant(u, q) = [users |-> u \cup called, queue |-> r]
    BY <1>3
  <2> HIDE DEF called, r
  <2>2. Grant(u, q).users = u \cup called /\ Grant(u, q).queue = r
    BY <2>1
  <2> QED
    BY <2>2 DEF r
<1> USE <1>2
<1> WITNESS n \in 0..Len(q)
<1>9. /\ Cardinality(Grant(u, q).users) <= staff
      /\ Grant(u, q).users \subseteq Customers
  <2> HIDE DEF called
  <2> QED
    BY <1>6, <1>7, <1>8
<1>10. Grant(u, q).users = u \cup {q[i] : i \in 1..n}
  BY <1>8
<1>11. /\ Grant(u, q).queue \in Seq(Customers)
       /\ Len(Grant(u, q).queue) = Len(q) - n
       /\ \A i \in 1..Len(q) - n : Grant(u, q).queue[i] = q[n + i]
  BY <1>4, <1>8
<1> QED
  BY <1>2, <1>9, <1>10, <1>11

LEMMA GrantLine ==
  ASSUME NEW u \in SUBSET Customers, NEW q \in Seq(Customers), staff \in Nat,
         NEW ph, NEW os, Line(staff, u, q, ph, os)
  PROVE  Line(staff, Grant(u, q).users, Grant(u, q).queue, ph, os)
<1>1. PICK n \in 0..Len(q) :
           /\ Grant(u, q).users = u \cup {q[i] : i \in 1..n}
           /\ Len(Grant(u, q).queue) = Len(q) - n
           /\ \A i \in 1..Len(q) - n : Grant(u, q).queue[i] = q[n + i]
           /\ Cardinality(Grant(u, q).users) <= staff
  BY GrantEffect DEF Line
<1> DEFINE v == Grant(u, q).users
           r == Grant(u, q).queue
<1>0. Len(q) \in Nat /\ \A i \in 1..Len(q) : q[i] \in Customers
  BY ElementOfSeq
<1>2. \A i \in 1..Len(r) : n + i \in 1..Len(q) /\ r[i] = q[n + i]
  BY <1>0, <1>1
<1>3. \A c : In(c, r) <=> \E i \in n+1..Len(q) : q[i] = c
  <2>1. ASSUME NEW c, NEW i \in n+1..Len(q), q[i] = c PROVE In(c, r)
    <3>1. i - n \in 1..Len(r) /\ n + (i - n) = i
      BY <1>0, <1>1
    <3>2. r[i - n] = c
      BY <1>2, <2>1, <3>1
    <3> QED
      BY <3>1, <3>2 DEF In
  <2>2. ASSUME NEW c, In(c, r) PROVE \E i \in n+1..Len(q) : q[i] = c
    <3>1. PICK i \in 1..Len(r) : r[i] = c
      BY <2>2 DEF In
    <3>2. n + i \in n+1..Len(q)
      BY <1>0, <1>1
    <3> QED
      BY <1>2, <3>1, <3>2
  <2> QED
    BY <2>1, <2>2
<1>4. \A c \in v : c \in u \/ \E i \in 1..n : q[i] = c
  BY <1>1
<1>5. \A i \in 1..n : i \in 1..Len(q) /\ q[i] \in v
  BY <1>0, <1>1
<1>6. u \subseteq v /\ Cardinality(v) <= staff /\ Len(r) \in Nat
  BY <1>0, <1>1
<1> HIDE DEF v, r
<1>7. Distinct(r)
  BY <1>0, <1>2, <1>6 DEF Line, Distinct
<1>8. ASSUME NEW c \in v PROVE ~ In(c, r) /\ (ph[c] \in {"queue", "ordering", "making"} \/ GaveUp(c, ph, os))
  <2>1. CASE c \in u
    <3>1. ~ In(c, q)
      BY <2>1 DEF Line
    <3>2. ~ In(c, r)
      BY <1>0, <1>3, <3>1 DEF In
    <3> QED
      BY <2>1, <3>2 DEF Line
  <2>2. ASSUME NEW i \in 1..n, q[i] = c PROVE ~ In(c, r) /\ (ph[c] \in {"queue", "ordering", "making"} \/ GaveUp(c, ph, os))
    <3>1. ~ In(c, r)
      BY <1>0, <1>3, <1>5, <2>2 DEF Line, Distinct
    <3>2. In(c, q) /\ c \in Customers
      BY <1>0, <1>5, <2>2 DEF In
    <3> QED
      BY <3>1, <3>2 DEF Line
  <2> QED
    BY <1>4, <2>1, <2>2
<1>9. \A c : In(c, r) => In(c, q)
  <2> SUFFICES ASSUME NEW c, In(c, r) PROVE In(c, q)
    OBVIOUS
  <2>1. PICK i \in n+1..Len(q) : q[i] = c
    BY <1>3
  <2>2. i \in 1..Len(q)
    BY <1>0, <1>1, <2>1
  <2> QED
    BY <2>1, <2>2 DEF In
<1>10. \A c : In(c, q) => In(c, r) \/ c \in v
  <2> SUFFICES ASSUME NEW c, NEW i \in 1..Len(q), q[i] = c, ~ In(c, r) PROVE c \in v
    BY DEF In
  <2>1. i \in 1..n
    BY <1>0, <1>3
  <2> QED
    BY <1>5, <2>1
<1>11. /\ \A c \in Customers : In(c, r) => ph[c] = "queue" \/ GaveUp(c, ph, os)
       /\ \A c \in Customers : /\ ph[c] \in {"ordering", "making"} => c \in v
                               /\ ph[c] = "queue" => c \in v \/ In(c, r)
  BY <1>6, <1>9, <1>10 DEF Line
<1>12. Line(staff, v, r, ph, os)
  BY <1>6, <1>7, <1>8, <1>11 DEF Line
<1> QED
  BY <1>12 DEF v, r

LEMMA GrantTurns ==
  ASSUME NEW u \in SUBSET Customers, NEW q \in Seq(Customers), staff \in Nat,
         NEW ph, NEW os, NEW jn, Line(staff, u, q, ph, os), InTurn(u, q, ph, jn)
  PROVE  InTurn(Grant(u, q).users, Grant(u, q).queue, ph, jn)
<1>1. PICK n \in 0..Len(q) :
           /\ Grant(u, q).users = u \cup {q[i] : i \in 1..n}
           /\ Len(Grant(u, q).queue) = Len(q) - n
           /\ \A i \in 1..Len(q) - n : Grant(u, q).queue[i] = q[n + i]
  BY GrantEffect DEF Line
<1> DEFINE v == Grant(u, q).users
           r == Grant(u, q).queue
<1>0. Len(q) \in Nat
  OBVIOUS
<1>2. \A i \in 1..Len(r) : n + i \in 1..Len(q) /\ r[i] = q[n + i] /\ i \in Nat
  BY <1>0, <1>1
<1>3. \A c \in v : c \in u \/ \E i \in 1..n : q[i] = c
  BY <1>1
<1> HIDE DEF v, r
<1>4. ASSUME NEW i \in 1..Len(r), NEW j \in 1..Len(r), i < j, ph[r[i]] = "queue", ph[r[j]] = "queue"
      PROVE  jn[r[i]] <= jn[r[j]]
  <2>1. n + i < n + j
    BY <1>1, <1>2, <1>4
  <2> QED
    BY <1>2, <1>4, <2>1 DEF InTurn
<1>5. ASSUME NEW c \in v, NEW i \in 1..Len(r), ph[c] = "queue", ph[r[i]] = "queue"
      PROVE  jn[c] <= jn[r[i]]
  <2>1. CASE c \in u
    BY <1>2, <1>5, <2>1 DEF InTurn
  <2>2. ASSUME NEW k \in 1..n, q[k] = c PROVE jn[c] <= jn[r[i]]
    <3>1. k \in 1..Len(q) /\ k < n + i
      BY <1>0, <1>1, <1>2
    <3> QED
      BY <1>2, <1>5, <2>2, <3>1 DEF InTurn
  <2> QED
    BY <1>3, <2>1, <2>2
<1>6. InTurn(v, r, ph, jn)
  BY <1>4, <1>5 DEF InTurn
<1> QED
  BY <1>6 DEF v, r

\* Cancelling leaves the others in their order.
Cancelled(q, c, r) ==
  /\ r \in Seq(Customers) /\ Len(r) <= Len(q) /\ Distinct(r)
  /\ \A d : In(d, r) <=> In(d, q) /\ d # c
  /\ \A i, j \in 1..Len(r) : i < j =>
       \E k, l \in 1..Len(q) : k < l /\ q[k] = r[i] /\ q[l] = r[j]

LEMMA WithoutEffect ==
  ASSUME NEW q \in Seq(Customers), NEW c \in Customers, Distinct(q)
  PROVE  Cancelled(q, c, Without(q, c))
<1>0. Len(q) \in Nat /\ DOMAIN q = 1..Len(q) /\ \A i \in 1..Len(q) : q[i] \in Customers
  BY ElementOfSeq, LenProperties
<1>1. CASE ~ In(c, q)
  <2>1. Without(q, c) = q
    BY <1>0, <1>1 DEF Without, In
  <2>2. \A i, j \in 1..Len(q) : i < j => \E k, l \in 1..Len(q) : k < l /\ q[k] = q[i] /\ q[l] = q[j]
    OBVIOUS
  <2> QED
    BY <1>0, <1>1, <2>1, <2>2 DEF Cancelled
<1>2. CASE In(c, q)
  <2>1. PICK h \in 1..Len(q) : q[h] = c /\ Without(q, c) = SubSeq(q, 1, h - 1) \o SubSeq(q, h + 1, Len(q))
    <3>1. \E i \in DOMAIN q : q[i] = c
      BY <1>0, <1>2 DEF In
    <3>2. PICK h : h = CHOOSE i \in DOMAIN q : q[i] = c
      OBVIOUS
    <3>3. h \in 1..Len(q) /\ q[h] = c
      BY <1>0, <3>1, <3>2
    <3>4. Without(q, c) = SubSeq(q, 1, h - 1) \o SubSeq(q, h + 1, Len(q))
      BY <3>1, <3>2 DEF Without
    <3> USE <3>3
    <3> WITNESS h \in 1..Len(q)
    <3> QED
      BY <3>4
  <2> DEFINE a == SubSeq(q, 1, h - 1)
             b == SubSeq(q, h + 1, Len(q))
             w == a \o b
  <2>2. a \in Seq(Customers) /\ Len(a) = h - 1 /\ \A i \in 1..h-1 : a[i] = q[i]
    <3>1. \A i \in 1..h-1 : q[i] \in Customers
      BY <1>0
    <3>2. /\ a \in Seq(Customers) /\ Len(a) = IF 1 <= h - 1 THEN h - 1 - 1 + 1 ELSE 0
          /\ \A i \in 1..h - 1 - 1 + 1 : a[i] = q[1 + i - 1]
      BY <1>0, <3>1, SubSeqProperties
    <3> QED
      BY <1>0, <3>2
  <2>3. b \in Seq(Customers) /\ Len(b) = Len(q) - h /\ \A i \in 1..Len(q)-h : b[i] = q[h + i]
    <3>1. \A i \in h+1..Len(q) : q[i] \in Customers
      BY <1>0
    <3>2. PICK r : r = SubSeq(q, h + 1, Len(q))
      OBVIOUS
    <3>3. PICK m \in Int : m = Len(q)
      OBVIOUS
    <3>4. /\ r \in Seq(Customers) /\ Len(r) = IF h + 1 <= m THEN m - (h + 1) + 1 ELSE 0
          /\ \A i \in 1..m - (h + 1) + 1 : r[i] = q[h + 1 + i - 1]
      BY <1>0, <3>1, <3>2, <3>3, SubSeqProperties
    <3>5. h \in 1..m
      BY <2>1, <3>3
    <3>6. Len(r) = m - h /\ \A i \in 1..m - h : i \in 1..m - (h + 1) + 1 /\ h + 1 + i - 1 = h + i
      BY <3>4, <3>5, <3>3
    <3>7. \A i \in 1..m - h : r[i] = q[h + i]
      BY <3>4, <3>6
    <3> QED
      BY <3>2, <3>3, <3>4, <3>6, <3>7
  <2> HIDE DEF a, b
  <2>4. /\ w \in Seq(Customers) /\ Len(w) = Len(q) - 1
        /\ \A i \in 1..Len(q)-1 : w[i] = IF i < h THEN q[i] ELSE q[i + 1]
    <3>1. /\ w \in Seq(Customers) /\ Len(w) = Len(a) + Len(b)
          /\ \A i \in 1..Len(a) + Len(b) : w[i] = IF i <= Len(a) THEN a[i] ELSE b[i - Len(a)]
      BY <2>2, <2>3, ConcatProperties
    <3>2. ASSUME NEW i \in 1..Len(q)-1 PROVE w[i] = IF i < h THEN q[i] ELSE q[i + 1]
      <4>1. i \in 1..Len(a) + Len(b)
        BY <1>0, <2>2, <2>3
      <4>2. CASE i < h
        BY <1>0, <2>2, <3>1, <4>1, <4>2
      <4>3. CASE ~ (i < h)
        <5>1. i - Len(a) \in 1..Len(q)-h /\ h + (i - Len(a)) = i + 1
          BY <1>0, <2>2, <4>3
        <5>2. b[i - Len(a)] = q[i + 1]
          BY <2>3, <5>1
        <5> QED
          BY <2>2, <3>1, <4>1, <4>3, <5>1, <5>2
      <4> QED
        BY <4>2, <4>3
    <3> QED
      BY <1>0, <2>2, <2>3, <3>1, <3>2
  <2> HIDE DEF w
  <2>5. PICK k : k = [i \in 1..Len(q)-1 |-> IF i < h THEN i ELSE i + 1]
    OBVIOUS
  <2>6. /\ \A i \in 1..Len(w) : k[i] \in 1..Len(q) /\ k[i] # h /\ w[i] = q[k[i]]
        /\ \A i, j \in 1..Len(w) : i < j => k[i] < k[j]
        /\ \A l \in 1..Len(q) : l # h => \E i \in 1..Len(w) : k[i] = l
    <3>1. \A l \in 1..Len(q) : l # h => \E i \in 1..Len(w) : k[i] = l
      <4> SUFFICES ASSUME NEW l \in 1..Len(q), l # h PROVE \E i \in 1..Len(w) : k[i] = l
        OBVIOUS
      <4>1. CASE l < h
        BY <1>0, <2>4, <2>5, <4>1
      <4>2. CASE l > h
        <5>1. l - 1 \in 1..Len(w) /\ k[l - 1] = l
          BY <1>0, <2>4, <2>5, <4>2
        <5> QED
          BY <5>1
      <4> QED
        BY <1>0, <4>1, <4>2
    <3> QED
      BY <1>0, <2>4, <2>5, <3>1
  <2>7. Distinct(w)
    <3> SUFFICES ASSUME NEW i \in 1..Len(w), NEW j \in 1..Len(w), w[i] = w[j], i # j PROVE FALSE
      BY DEF Distinct
    <3>1. k[i] = k[j]
      <4>1. k[i] \in 1..Len(q) /\ k[j] \in 1..Len(q) /\ q[k[i]] = q[k[j]]
        BY <2>6
      <4>2. \A x, y \in 1..Len(q) : q[x] = q[y] => x = y
        BY DEF Distinct
      <4> QED
        BY <4>1, <4>2
    <3>2. i \in Int /\ j \in Int /\ (i < j \/ j < i)
      BY <1>0, <2>4
    <3> QED
      BY <1>0, <2>6, <3>1, <3>2
  <2>8. \A d : In(d, w) <=> In(d, q) /\ d # c
    <3>1. ASSUME NEW d, In(d, w) PROVE In(d, q) /\ d # c
      BY <2>1, <2>6, <3>1 DEF In, Distinct
    <3>2. ASSUME NEW d, In(d, q), d # c PROVE In(d, w)
      BY <2>1, <2>6, <3>2, SMTT(20) DEF In
    <3> QED
      BY <3>1, <3>2
  <2>9. \A i, j \in 1..Len(w) : i < j => \E l, m \in 1..Len(q) : l < m /\ q[l] = w[i] /\ q[m] = w[j]
    BY <2>6
  <2>10. Without(q, c) = w
    BY <2>1 DEF w, a, b
  <2>11. Len(w) <= Len(q) /\ w \in Seq(Customers)
    BY <1>0, <2>4
  <2> QED
    BY <2>7, <2>8, <2>9, <2>10, <2>11 DEF Cancelled
<1> QED
  BY <1>1, <1>2

\* One customer moves on: what is left of the line keeps its order, and what the customer
\* holds or waits for fits the new phase.
Remains(u, q, v, r, c) ==
  /\ v \subseteq u /\ u \subseteq v \cup {c}
  /\ r \in Seq(Customers) /\ Distinct(r)
  /\ \A d : d # c => (In(d, r) <=> In(d, q))

Fits(c, v, r, t, o) ==
  /\ c \in v => ~ In(c, r) /\ (t \in {"queue", "ordering", "making"} \/ (t = "exiting" /\ o = "abandoned"))
  /\ In(c, r) => t = "queue" \/ (t = "exiting" /\ o = "abandoned")
  /\ t \in {"ordering", "making"} => c \in v
  /\ t = "queue" => c \in v \/ In(c, r)

LEMMA LineMoves ==
  ASSUME NEW n \in Nat, NEW u \in SUBSET Customers, NEW q, NEW v, NEW r, NEW c \in Customers,
         NEW ph \in [Customers -> Phases], NEW os \in [Customers -> OrderStates], NEW t, NEW o,
         Line(n, u, q, ph, os), Remains(u, q, v, r, c), Fits(c, v, r, t, o)
  PROVE  Line(n, v, r, [ph EXCEPT ![c] = t], [os EXCEPT ![c] = o])
<1>1. PICK ph2 : ph2 = [ph EXCEPT ![c] = t]
  OBVIOUS
<1>2. PICK os2 : os2 = [os EXCEPT ![c] = o]
  OBVIOUS
<1>3. ph2[c] = t /\ os2[c] = o
  BY <1>1, <1>2
<1>4. \A d \in Customers : d # c => ph2[d] = ph[d] /\ os2[d] = os[d]
  BY <1>1, <1>2
<1>5. Cardinality(v) <= n
  <2>1. IsFiniteSet(u) /\ v \subseteq u
    BY Numbers, FS_Subset DEF Remains
  <2>2. Cardinality(v) <= Cardinality(u) /\ Cardinality(v) \in Nat /\ Cardinality(u) \in Nat
    BY <2>1, FS_Subset, FS_CardinalityType
  <2> QED
    BY <2>2 DEF Line
<1>6. ASSUME NEW d \in v
      PROVE  ~ In(d, r) /\ (ph2[d] \in {"queue", "ordering", "making"} \/ GaveUp(d, ph2, os2))
  <2>1. d \in u /\ d \in Customers
    BY DEF Remains
  <2>2. CASE d = c
    BY <1>3, <1>6, <2>2 DEF Fits, GaveUp
  <2>3. CASE d # c
    <3>1. ~ In(d, q) /\ (ph[d] \in {"queue", "ordering", "making"} \/ GaveUp(d, ph, os))
      BY <2>1 DEF Line
    <3> QED
      BY <1>4, <2>1, <2>3, <3>1 DEF Remains, GaveUp
  <2> QED
    BY <2>2, <2>3
<1>7. ASSUME NEW d \in Customers, In(d, r) PROVE ph2[d] = "queue" \/ GaveUp(d, ph2, os2)
  <2>1. CASE d = c
    BY <1>3, <1>7, <2>1 DEF Fits, GaveUp
  <2>2. CASE d # c
    <3>1. ph[d] = "queue" \/ GaveUp(d, ph, os)
      BY <1>7, <2>2 DEF Line, Remains
    <3> QED
      BY <1>4, <2>2, <3>1 DEF GaveUp
  <2> QED
    BY <2>1, <2>2
<1>8. ASSUME NEW d \in Customers PROVE /\ ph2[d] \in {"ordering", "making"} => d \in v
                                       /\ ph2[d] = "queue" => d \in v \/ In(d, r)
  <2>1. CASE d = c
    BY <1>3, <2>1 DEF Fits
  <2>2. CASE d # c
    <3>1. d \in u => d \in v
      BY <2>2 DEF Remains
    <3>2. /\ ph[d] \in {"ordering", "making"} => d \in u
          /\ ph[d] = "queue" => d \in u \/ In(d, q)
      BY DEF Line
    <3>3. In(d, q) => In(d, r)
      BY <2>2 DEF Remains
    <3> QED
      BY <1>4, <2>2, <3>1, <3>2, <3>3
  <2> QED
    BY <2>1, <2>2
<1>9. Distinct(r)
  BY DEF Remains
<1>10. Line(n, v, r, ph2, os2)
  BY <1>5, <1>6, <1>7, <1>8, <1>9 DEF Line
<1> QED
  BY <1>1, <1>2, <1>10

\* The same of their turns, when the customer is not about to wait.
Ordered(q, r, c) ==
  \A i, j \in 1..Len(r) : i < j /\ r[i] # c /\ r[j] # c =>
     \E k, l \in 1..Len(q) : k < l /\ q[k] = r[i] /\ q[l] = r[j]

LEMMA TurnsMove ==
  ASSUME NEW u \in SUBSET Customers, NEW q, NEW v, NEW r, NEW c \in Customers,
         NEW ph \in [Customers -> Phases], NEW t, NEW jn, NEW jn2,
         \A d \in Customers : d # c => jn2[d] = jn[d],
         InTurn(u, q, ph, jn), Remains(u, q, v, r, c), Ordered(q, r, c), t # "queue"
  PROVE  InTurn(v, r, [ph EXCEPT ![c] = t], jn2)
<1>1. PICK ph2 : ph2 = [ph EXCEPT ![c] = t]
  OBVIOUS
<1>2. ph2[c] # "queue" /\ \A d \in Customers : d # c => ph2[d] = ph[d]
  BY <1>1
<1>3. \A i \in 1..Len(r) : r[i] \in Customers
  BY ElementOfSeq DEF Remains
<1>4. ASSUME NEW i \in 1..Len(r), NEW j \in 1..Len(r), i < j, ph2[r[i]] = "queue", ph2[r[j]] = "queue"
      PROVE  jn2[r[i]] <= jn2[r[j]]
  <2>1. r[i] # c /\ r[j] # c /\ r[i] \in Customers /\ r[j] \in Customers
    BY <1>2, <1>3, <1>4
  <2>2. PICK k \in 1..Len(q), l \in 1..Len(q) : k < l /\ q[k] = r[i] /\ q[l] = r[j]
    BY <1>4, <2>1 DEF Ordered
  <2>3. ph[q[k]] = "queue" /\ ph[q[l]] = "queue"
    BY <1>2, <1>4, <2>1, <2>2
  <2>4. jn[q[k]] <= jn[q[l]]
    BY <2>2, <2>3 DEF InTurn
  <2> QED
    BY <2>1, <2>2, <2>4
<1>5. ASSUME NEW d \in v, NEW i \in 1..Len(r), ph2[d] = "queue", ph2[r[i]] = "queue"
      PROVE  jn2[d] <= jn2[r[i]]
  <2>1. d # c /\ r[i] # c /\ d \in u /\ d \in Customers /\ r[i] \in Customers
    BY <1>2, <1>3, <1>5 DEF Remains
  <2>2. In(r[i], r)
    BY DEF In
  <2>3. PICK k \in 1..Len(q) : q[k] = r[i]
    BY <2>1, <2>2 DEF Remains, In
  <2>4. jn[d] <= jn[q[k]]
    BY <1>2, <1>5, <2>1, <2>3 DEF InTurn
  <2> QED
    BY <2>1, <2>3, <2>4
<1>6. InTurn(v, r, ph2, jn2)
  BY <1>4, <1>5 DEF InTurn
<1> QED
  BY <1>1, <1>6

\* Joining at the end of the queue.
LEMMA AppendEffect ==
  ASSUME NEW q \in Seq(Customers), NEW c \in Customers, Distinct(q), ~ In(c, q)
  PROVE  /\ Append(q, c) \in Seq(Customers) /\ Len(Append(q, c)) = Len(q) + 1
         /\ \A i \in 1..Len(q) : Append(q, c)[i] = q[i]
         /\ Append(q, c)[Len(q) + 1] = c
         /\ Distinct(Append(q, c))
         /\ \A d : In(d, Append(q, c)) <=> In(d, q) \/ d = c
<1>1. PICK w : w = Append(q, c)
  OBVIOUS
<1>2. PICK m \in Nat : m = Len(q)
  OBVIOUS
<1>3. /\ w \in Seq(Customers) /\ Len(w) = m + 1
      /\ \A i \in 1..m : w[i] = q[i]
      /\ w[m + 1] = c
  BY <1>1, <1>2, AppendProperties
<1>4. \A i \in 1..m+1 : i \in 1..m \/ i = m + 1
  BY <1>2
<1>5. \A i \in 1..m : q[i] # c
  BY <1>2 DEF In
<1>6. \A i, j \in 1..m : q[i] = q[j] => i = j
  BY <1>2 DEF Distinct
<1>7. Distinct(w)
  <2> SUFFICES ASSUME NEW i \in 1..m+1, NEW j \in 1..m+1, w[i] = w[j] PROVE i = j
    BY <1>3 DEF Distinct
  <2> QED
    BY <1>3, <1>4, <1>5, <1>6
<1>8. \A d : In(d, w) <=> In(d, q) \/ d = c
  <2>1. ASSUME NEW d, NEW i \in 1..m, q[i] = d PROVE In(d, w)
    <3>1. i \in 1..Len(w) /\ w[i] = d
      BY <1>2, <1>3, <2>1
    <3> QED
      BY <3>1 DEF In
  <2>2. In(c, w)
    <3>1. m + 1 \in 1..Len(w)
      BY <1>2, <1>3
    <3> QED
      BY <1>3, <3>1 DEF In
  <2>3. ASSUME NEW d, NEW i \in 1..m+1, w[i] = d PROVE In(d, q) \/ d = c
    BY <1>2, <1>3, <1>4, <2>3 DEF In
  <2>4. \A d : In(d, q) => In(d, w)
    BY <1>2, <2>1 DEF In
  <2>5. \A d : In(d, w) => In(d, q) \/ d = c
    BY <1>3, <2>3 DEF In
  <2> QED
    BY <2>2, <2>4, <2>5
<1> QED
  BY <1>1, <1>2, <1>3, <1>7, <1>8
-----------------------------------------------------------------------------
(* What is still to be worked or sat *)

LEMMA AheadIsFinite ==
  ASSUME NEW W, NEW e, NEW n PROVE IsFiniteSet(Ahead(W, e, n)) /\ Cardinality(Ahead(W, e, n)) \in Nat
<1> DEFINE T == 0..Duration-1
<1>1. IsFiniteSet(T)
  BY Numbers, FS_Interval
<1>2. Ahead(W, e, n) \subseteq Customers \X T
  BY DEF Ahead
<1> HIDE DEF T
<1>3. IsFiniteSet(Customers \X T)
  BY <1>1, Numbers, FS_Product
<1> DEFINE P == Customers \X T
<1> HIDE DEF P
<1>4. IsFiniteSet(P) /\ Ahead(W, e, n) \subseteq P
  BY <1>2, <1>3 DEF P
<1>5. IsFiniteSet(Ahead(W, e, n))
  BY <1>4, FS_Subset
<1> QED
  BY <1>5, FS_CardinalityType

\* A stretch that begins or ends now changes nothing; nor does one elsewhere.
LEMMA AheadKept ==
  ASSUME NEW W, NEW W2, NEW e, NEW e2, NEW n \in Nat,
         \A c \in Customers : e[c] \in Int /\ e2[c] \in Int,
         \A c \in Customers : (c \in W /\ n < e[c]) <=> (c \in W2 /\ n < e2[c]),
         \A c \in W \cap W2 : e[c] = e2[c] \/ (e[c] <= n /\ e2[c] <= n)
  PROVE  Ahead(W, e, n) = Ahead(W2, e2, n)
<1>1. ASSUME NEW p \in Customers \X (0..Duration-1)
      PROVE  p[1] \in W /\ n <= p[2] /\ p[2] < e[p[1]] <=> p[1] \in W2 /\ n <= p[2] /\ p[2] < e2[p[1]]
  <2>1. PICK c \in Customers : c = p[1]
    OBVIOUS
  <2>2. PICK m \in Int : m = p[2]
    BY Numbers
  <2>3. c \in W /\ n <= m /\ m < e[c] <=> c \in W2 /\ n <= m /\ m < e2[c]
    <3>1. e[c] \in Int /\ e2[c] \in Int
      OBVIOUS
    <3> QED
      BY <3>1
  <2> QED
    BY <2>1, <2>2, <2>3
<1> QED
  BY <1>1 DEF Ahead

\* A stretch of k instants that begins now counts for what lies before the end.
LEMMA AheadBegins ==
  ASSUME NEW W, NEW e, NEW e2, NEW n \in Nat, n <= Duration, NEW c \in Customers, NEW k \in Nat,
         c \notin W, \A d \in W : d # c => e2[d] = e[d], e2[c] = n + k
  PROVE  Cardinality(Ahead(W \cup {c}, e2, n)) = Cardinality(Ahead(W, e, n)) + Min({k, Duration - n})
<1>1. PICK a \in Int, b \in Int : a = k /\ b = Duration - n
  BY Numbers
<1>2. PICK m \in Nat : m = Min({k, Duration - n}) /\ m = IF k <= Duration - n THEN k ELSE Duration - n
  <2>1. Min({a, b}) = IF a <= b THEN a ELSE b
    BY MinTwo
  <2> QED
    BY <1>1, <2>1, Numbers
<1> DEFINE A == Ahead(W, e, n)
<1>0. PICK T : T = n..n+m-1
  OBVIOUS
<1>b. PICK B : B = {c} \X T
  OBVIOUS
<1>3. Ahead(W \cup {c}, e2, n) = A \cup B
  <2>1. ASSUME NEW p \in Customers \X (0..Duration-1)
        PROVE  p[1] \in W \cup {c} /\ n <= p[2] /\ p[2] < e2[p[1]]
                 <=> (p[1] \in W /\ n <= p[2] /\ p[2] < e[p[1]]) \/ (p[1] = c /\ n <= p[2] /\ p[2] < n + m)
    <3>1. PICK d \in Customers : d = p[1]
      OBVIOUS
    <3>2. PICK i \in Int : i = p[2] /\ i < Duration /\ 0 <= i
      BY Numbers
    <3>3. d \in W \cup {c} /\ n <= i /\ i < e2[d]
            <=> (d \in W /\ n <= i /\ i < e[d]) \/ (d = c /\ n <= i /\ i < n + m)
      <4>1. CASE d = c
        <5>1. i < n + k /\ n <= i <=> i < n + m /\ n <= i
          BY <1>2, <3>2, Numbers
        <5> QED
          BY <4>1, <5>1
      <4>2. CASE d # c
        BY <4>2
      <4> QED
        BY <4>1, <4>2
    <3> QED
      BY <3>1, <3>2, <3>3
  <2>2. \A p \in B : p \in Customers \X (0..Duration-1) /\ p[1] = c /\ n <= p[2] /\ p[2] < n + m
    BY <1>0, <1>b, <1>2, Numbers, SMTT(20)
  <2>3. \A p \in Customers \X (0..Duration-1) : p[1] = c /\ n <= p[2] /\ p[2] < n + m => p \in B
    BY <1>0, <1>b, <1>2, Numbers
  <2> QED
    BY <2>1, <2>2, <2>3 DEF Ahead
<1>4. A \cap B = {}
  BY <1>b DEF Ahead
<1>5. IsFiniteSet(T) /\ Cardinality(T) = m
  <2>1. PICK z \in Int : z = n + m - 1
    BY <1>2
  <2>2. IsFiniteSet(n..z) /\ Cardinality(n..z) = IF n > z THEN 0 ELSE z - n + 1
    BY FS_Interval
  <2>3. Cardinality(n..z) = m
    BY <1>2, <2>1, <2>2
  <2> QED
    BY <1>0, <2>1, <2>2, <2>3
<1>6. IsFiniteSet(B) /\ Cardinality(B) = m
  <2>1. PICK C : C = {c}
    OBVIOUS
  <2>2. IsFiniteSet(C) /\ Cardinality(C) = 1
    BY <2>1, FS_Singleton
  <2>3. IsFiniteSet(C \X T) /\ Cardinality(C \X T) = 1 * m
    BY <1>5, <2>2, FS_Product
  <2>4. C \X T = B
    BY <1>b, <2>1
  <2>5. 1 * m = m
    BY <1>2
  <2> QED
    BY <2>3, <2>4, <2>5
<1>7. IsFiniteSet(A) /\ Cardinality(A) \in Nat
  BY AheadIsFinite
<1> HIDE DEF A
<1>8. Cardinality(A \cup B) = Cardinality(A) + Cardinality(B) - Cardinality({})
  BY <1>4, <1>6, <1>7, FS_Union
<1>9. Cardinality(A \cup B) = Cardinality(A) + m
  BY <1>2, <1>6, <1>7, <1>8, FS_EmptySet
<1> QED
  BY <1>2, <1>3, <1>9 DEF A

\* An instant that passes is worked by everyone who works.
LEMMA AheadTicks ==
  ASSUME NEW W \in SUBSET Customers, NEW e, NEW n \in Nat, n < Duration,
         \A c \in W : e[c] \in Int /\ n < e[c]
  PROVE  Cardinality(Ahead(W, e, n)) = Cardinality(W) + Cardinality(Ahead(W, e, n + 1))
<1> DEFINE A == Ahead(W, e, n + 1)
           N == {n}
           B == W \X N
<1>1. Ahead(W, e, n) = A \cup B
  <2>1. ASSUME NEW p \in Customers \X (0..Duration-1)
        PROVE  p[1] \in W /\ n <= p[2] /\ p[2] < e[p[1]]
                 <=> (p[1] \in W /\ n + 1 <= p[2] /\ p[2] < e[p[1]]) \/ (p[1] \in W /\ p[2] = n)
    <3>1. PICK d \in Customers : d = p[1]
      OBVIOUS
    <3>2. PICK i \in Int : i = p[2]
      BY Numbers
    <3>3. d \in W /\ n <= i /\ i < e[d] <=> (d \in W /\ n + 1 <= i /\ i < e[d]) \/ (d \in W /\ i = n)
      OBVIOUS
    <3> QED
      BY <3>1, <3>2, <3>3
  <2>2. \A p \in B : p \in Customers \X (0..Duration-1) /\ p[1] \in W /\ p[2] = n
    BY Numbers
  <2>3. \A p \in Customers \X (0..Duration-1) : p[1] \in W /\ p[2] = n => p \in B
    OBVIOUS
  <2> HIDE DEF B
  <2> QED
    BY <2>1, <2>2, <2>3 DEF Ahead
<1>2. A \cap B = {}
  BY DEF Ahead
<1>3. IsFiniteSet(N) /\ Cardinality(N) = 1
  BY FS_Singleton
<1>4. IsFiniteSet(W) /\ Cardinality(W) \in Nat
  BY Numbers, FS_Subset, FS_CardinalityType
<1>5. IsFiniteSet(B) /\ Cardinality(B) = Cardinality(W)
  <2> HIDE DEF N
  <2>1. IsFiniteSet(B) /\ Cardinality(B) = Cardinality(W) * Cardinality(N)
    BY <1>3, <1>4, FS_Product
  <2> QED
    BY <1>3, <1>4, <2>1
<1>6. IsFiniteSet(A) /\ Cardinality(A) \in Nat
  BY AheadIsFinite
<1> HIDE DEF A, B, N
<1>7. Cardinality(A \cup B) = Cardinality(A) + Cardinality(B) - Cardinality({})
  BY <1>2, <1>5, <1>6, FS_Union
<1>8. Cardinality(A \cup B) = Cardinality(W) + Cardinality(A)
  BY <1>4, <1>5, <1>6, <1>7, FS_EmptySet
<1> QED
  BY <1>1, <1>8 DEF A

\* What lies ahead is bounded by who works and the time left.
LEMMA AheadBound ==
  ASSUME NEW W \in SUBSET Customers, NEW e, NEW n \in Nat, n <= Duration, NEW k \in Nat, Cardinality(W) <= k
  PROVE  Cardinality(Ahead(W, e, n)) <= k * (Duration - n)
<1> DEFINE T == n..Duration-1
           P == W \X T
<1>1. Ahead(W, e, n) \subseteq P
  BY Numbers DEF Ahead
<1>2. IsFiniteSet(T) /\ Cardinality(T) = Duration - n
  BY Numbers, FS_Interval
<1>3. IsFiniteSet(W) /\ Cardinality(W) \in Nat
  BY Numbers, FS_Subset, FS_CardinalityType
<1>4. IsFiniteSet(P) /\ Cardinality(P) = Cardinality(W) * (Duration - n)
  <2> HIDE DEF T
  <2> QED
    BY <1>2, <1>3, FS_Product
<1> HIDE DEF P, T
<1>5. Cardinality(Ahead(W, e, n)) <= Cardinality(P)
  BY <1>1, <1>4, FS_Subset
<1>6. \A a, b, d \in Nat : a <= b => a * d <= b * d
  OBVIOUS
<1>7. Duration - n \in Nat
  BY Numbers
<1> QED
  BY <1>3, <1>4, <1>5, <1>6, <1>7, AheadIsFinite

LEMMA AheadAtEnd == ASSUME NEW W, NEW e PROVE Cardinality(Ahead(W, e, Duration)) = 0
<1>1. Ahead(W, e, Duration) = {}
  BY Numbers DEF Ahead
<1> QED
  BY <1>1, FS_EmptySet
-----------------------------------------------------------------------------
(* One customer moves on *)

LEMMA CountMoves ==
  ASSUME NEW f \in [Customers -> OrderStates], NEW c \in Customers, NEW o, NEW S
  PROVE  Cardinality({x \in Customers : [f EXCEPT ![c] = o][x] \in S}) =
           Cardinality({x \in Customers : f[x] \in S})
             + (IF o \in S THEN 1 ELSE 0) - (IF f[c] \in S THEN 1 ELSE 0)
<1>1. PICK g : g = [f EXCEPT ![c] = o]
  OBVIOUS
<1>2. PICK X : X = {x \in Customers : f[x] \in S}
  OBVIOUS
<1>3. PICK Y : Y = {x \in Customers : g[x] \in S}
  OBVIOUS
<1>4. PICK R : R = X \ {c}
  OBVIOUS
<1>5. IsFiniteSet(X)
  BY <1>2, Numbers, FS_Subset
<1>6. IsFiniteSet(R) /\ Cardinality(R) = IF c \in X THEN Cardinality(X) - 1 ELSE Cardinality(X)
  BY <1>4, <1>5, FS_RemoveElement
<1>7. Cardinality(X) \in Nat /\ Cardinality(R) \in Nat
  BY <1>5, <1>6, FS_CardinalityType
<1>8. Y = IF o \in S THEN R \cup {c} ELSE R
  BY <1>1, <1>2, <1>3, <1>4
<1>9. Cardinality(R \cup {c}) = Cardinality(R) + 1
  BY <1>4, <1>6, FS_AddElement
<1>10. c \in X <=> f[c] \in S
  BY <1>2
<1>11. Cardinality(Y) = Cardinality(X) + (IF o \in S THEN 1 ELSE 0) - (IF f[c] \in S THEN 1 ELSE 0)
  <2>1. CASE o \in S
    BY <1>6, <1>7, <1>8, <1>9, <1>10, <2>1
  <2>2. CASE o \notin S
    BY <1>6, <1>7, <1>8, <1>10, <2>2
  <2> QED
    BY <2>1, <2>2
<1> QED
  BY <1>1, <1>2, <1>3, <1>11

Moves(c, t, w, o) ==
  /\ phase' = [phase EXCEPT ![c] = t]
  /\ wake' = [wake EXCEPT ![c] = w]
  /\ orderState' = [orderState EXCEPT ![c] = o]
  /\ Fixed

\* What a customer may become, with users v and queue r.
Sound(c, t, w, o, v, r) ==
  /\ t \in Phases /\ t # "queue" /\ w \in Nat /\ o \in OrderOf(t)
  /\ t # "left" => now <= w
  /\ Remains(users, queue, v, r, c) /\ Ordered(queue, r, c) /\ Fits(c, v, r, t, o)
  /\ seated' = IF t = "seated" THEN seated \cup {c} ELSE seated \ {c}
  /\ t = "seated" => Cardinality(seated) < SeatCount

TypeOfMove ==
  /\ demand \in Persons /\ staff \in 1..MaxStaff /\ now \in 0..Duration
  /\ phase \in [Customers -> Phases] /\ wake \in [Customers -> Nat]
  /\ orderState \in [Customers -> OrderStates]
  /\ options \in Seq(Option) /\ recommended \in 0..MaxStaff /\ served \in Nat \X Nat

LEMMA OrderOfStates == \A p \in Phases : OrderOf(p) \subseteq OrderStates
BY DEF OrderOf, OrderStates, Phases

LEMMA MoveKeepsType ==
  ASSUME TypeInv, NEW c \in Customers, NEW t \in Phases, NEW w \in Nat, NEW o \in OrderStates,
         Moves(c, t, w, o)
  PROVE  TypeOfMove'
BY DEF TypeInv, TypeOfMove, Moves, Fixed

LEMMA MoveKeeps ==
  ASSUME TypeInv, PhaseInv, HoldInv, TurnInv, SeatInv, ChoiceInv,
         NEW c \in Customers, NEW t, NEW w, NEW o, NEW v, NEW r,
         Moves(c, t, w, o), Sound(c, t, w, o, v, r), users' = v, queue' = r
  PROVE  /\ TypeOfMove' /\ users' \subseteq Customers /\ queue' \in Seq(Customers) /\ seated' \subseteq Customers
         /\ PhaseInv' /\ HoldInv' /\ TurnInv' /\ SeatInv' /\ ChoiceInv'
<1>1. t \in Phases /\ w \in Nat /\ o \in OrderStates /\ t # "queue"
  BY OrderOfStates DEF Sound
<1>2. TypeOfMove'
  BY <1>1, MoveKeepsType
<1>3. users' \subseteq Customers /\ queue' \in Seq(Customers) /\ seated' \subseteq Customers
  BY DEF Sound, Remains, TypeInv
<1>4. /\ phase'[c] = t /\ wake'[c] = w /\ orderState'[c] = o
      /\ \A d \in Customers : d # c => phase'[d] = phase[d] /\ wake'[d] = wake[d] /\ orderState'[d] = orderState[d]
      /\ demand' = demand /\ staff' = staff /\ now' = now
  BY DEF Moves, Fixed, TypeInv
<1>5. PhaseInv'
  <2> SUFFICES ASSUME NEW d \in Customers
               PROVE  /\ orderState'[d] \in OrderOf(phase'[d])
                      /\ phase'[d] # "left" => now' <= wake'[d]
                      /\ phase'[d] = "queue" => wake'[d] - demand'[d].patience <= now'
    BY DEF PhaseInv, Joined
  <2>1. CASE d = c
    BY <1>1, <1>4, <2>1 DEF Sound
  <2>2. CASE d # c
    BY <1>4, <2>2 DEF PhaseInv, Joined
  <2> QED
    BY <2>1, <2>2
<1>6. HoldInv'
  <2>1. Line(staff, v, r, [phase EXCEPT ![c] = t], [orderState EXCEPT ![c] = o])
    <3>1. staff \in Nat /\ users \in SUBSET Customers /\ phase \in [Customers -> Phases]
          /\ orderState \in [Customers -> OrderStates]
      BY Numbers DEF TypeInv
    <3>2. Line(staff, users, queue, phase, orderState) /\ Remains(users, queue, v, r, c) /\ Fits(c, v, r, t, o)
      BY DEF HoldInv, Sound
    <3> QED
      BY <3>1, <3>2, LineMoves
  <2> QED
    BY <2>1 DEF HoldInv, Moves, Fixed
<1>7. TurnInv'
  <2>1. PICK jn : jn = JoinTimes
    OBVIOUS
  <2>2. PICK jn2 : jn2 = JoinTimes'
    OBVIOUS
  <2>3. \A d \in Customers : d # c => jn2[d] = jn[d]
    BY <1>4, <2>1, <2>2 DEF JoinTimes, Joined
  <2>4. users \in SUBSET Customers /\ phase \in [Customers -> Phases]
    BY DEF TypeInv
  <2>5. InTurn(users, queue, phase, jn) /\ Remains(users, queue, v, r, c) /\ Ordered(queue, r, c)
    BY <2>1 DEF TurnInv, Sound
  <2>6. InTurn(v, r, [phase EXCEPT ![c] = t], jn2)
    BY <1>1, <2>3, <2>4, <2>5, TurnsMove
  <2> QED
    BY <2>2, <2>6 DEF TurnInv, Moves
<1>8. SeatInv'
  <2>1. IsFiniteSet(seated) /\ Cardinality(seated) \in Nat /\ Cardinality(seated) <= SeatCount
    BY Numbers, FS_Subset, FS_CardinalityType DEF TypeInv, SeatInv
  <2>2. Cardinality(seated \cup {c}) <= Cardinality(seated) + 1
    <3>1. Cardinality(seated \cup {c}) = IF c \in seated THEN Cardinality(seated) ELSE Cardinality(seated) + 1
      BY <2>1, FS_AddElement
    <3> QED
      BY <2>1, <3>1
  <2>3. Cardinality(seated \ {c}) <= Cardinality(seated)
    <3>1. Cardinality(seated \ {c}) = IF c \in seated THEN Cardinality(seated) - 1 ELSE Cardinality(seated)
      BY <2>1, FS_RemoveElement
    <3> QED
      BY <2>1, <3>1
  <2>4. Cardinality(seated \cup {c}) \in Nat /\ Cardinality(seated \ {c}) \in Nat
    BY <2>1, FS_AddElement, FS_RemoveElement, FS_CardinalityType
  <2>5. Cardinality(seated') <= SeatCount
    <3>1. CASE t = "seated"
      BY <2>1, <2>2, <2>4, <3>1, Numbers DEF Sound
    <3>2. CASE t # "seated"
      BY <2>1, <2>3, <2>4, <3>2, Numbers DEF Sound
    <3> QED
      BY <3>1, <3>2
  <2>6. ASSUME NEW d \in Customers PROVE d \in seated' <=> phase'[d] = "seated"
    <3>1. d \in seated <=> phase[d] = "seated"
      BY DEF SeatInv
    <3>2. CASE d = c
      BY <1>4, <3>2 DEF Sound
    <3>3. CASE d # c
      BY <1>4, <3>1, <3>3 DEF Sound
    <3> QED
      BY <3>2, <3>3
  <2> QED
    BY <2>5, <2>6 DEF SeatInv
<1>9. ChoiceInv'
  BY DEF ChoiceInv, Moves, Fixed, Recommendation, Meets
<1> QED
  BY <1>2, <1>3, <1>5, <1>6, <1>7, <1>8, <1>9

\* What a customer holds in each phase.
LEMMA Holding ==
  ASSUME TypeInv, PhaseInv, HoldInv, NEW c \in Customers
  PROVE  /\ phase[c] \in {"coming", "entering", "ready", "seated", "left"} => c \notin users /\ ~ In(c, queue)
         /\ phase[c] \in {"ordering", "making"} => c \in users /\ ~ In(c, queue)
         /\ c \in users => ~ In(c, queue)
         /\ phase[c] = "queue" => c \in users \/ In(c, queue)
         /\ Remains(users, queue, users, queue, c) /\ Remains(users, queue, users \ {c}, queue, c)
         /\ Ordered(queue, queue, c)
<1>1. Distinct(queue) /\ queue \in Seq(Customers)
  BY DEF HoldInv, Line, TypeInv
<1>2. Ordered(queue, queue, c)
  BY DEF Ordered
<1>3. Remains(users, queue, users, queue, c) /\ Remains(users, queue, users \ {c}, queue, c)
  BY <1>1 DEF Remains
<1>4. /\ c \in users => ~ In(c, queue) /\ (phase[c] \in {"queue", "ordering", "making"} \/ phase[c] = "exiting")
      /\ In(c, queue) => phase[c] = "queue" \/ phase[c] = "exiting"
      /\ phase[c] \in {"ordering", "making"} => c \in users
      /\ phase[c] = "queue" => c \in users \/ In(c, queue)
  BY DEF HoldInv, Line, GaveUp
<1> QED
  BY <1>2, <1>3, <1>4

\* The counters after an order has become o.
Counted(c, o) ==
  /\ completed' = completed + (IF o = "completed" THEN 1 ELSE 0) - (IF orderState[c] = "completed" THEN 1 ELSE 0)
  /\ abandoned' = abandoned + (IF o = "abandoned" THEN 1 ELSE 0) - (IF orderState[c] = "abandoned" THEN 1 ELSE 0)
  /\ waits'[2] = waits[2] + (IF o \in {"preparing", "ready", "completed"} THEN 1 ELSE 0)
                   - (IF orderState[c] \in {"preparing", "ready", "completed"} THEN 1 ELSE 0)
  /\ Len(queue') <= maxQueue'

LEMMA CountKept ==
  ASSUME TypeInv, CountInv, NEW c \in Customers, NEW t, NEW w, NEW o, Moves(c, t, w, o), Counted(c, o)
  PROVE  CountInv'
<1> DEFINE N(f, S) == Cardinality({x \in Customers : f[x] \in S})
<1>1. \A S : N(orderState', S) = N(orderState, S) + (IF o \in S THEN 1 ELSE 0) - (IF orderState[c] \in S THEN 1 ELSE 0)
  <2> SUFFICES ASSUME NEW S PROVE N(orderState', S) = N(orderState, S) + (IF o \in S THEN 1 ELSE 0) - (IF orderState[c] \in S THEN 1 ELSE 0)
    OBVIOUS
  <2>1. PICK f \in [Customers -> OrderStates] : f = orderState
    BY DEF TypeInv
  <2>2. N([f EXCEPT ![c] = o], S) = N(f, S) + (IF o \in S THEN 1 ELSE 0) - (IF f[c] \in S THEN 1 ELSE 0)
    BY CountMoves
  <2>3. orderState' = [f EXCEPT ![c] = o]
    BY <2>1 DEF Moves
  <2> HIDE DEF N
  <2> QED
    BY <2>1, <2>2, <2>3
<1>2. \A S : Cardinality(InStatus(S)) = N(orderState, S) /\ Cardinality(InStatus(S)') = N(orderState', S)
  BY DEF InStatus
<1> HIDE DEF N
<1>3. completed' = N(orderState', {"completed"})
  BY <1>1, <1>2 DEF Counted, CountInv
<1>4. abandoned' = N(orderState', {"abandoned"})
  BY <1>1, <1>2 DEF Counted, CountInv
<1>5. waits'[2] = N(orderState', {"preparing", "ready", "completed"})
  BY <1>1, <1>2 DEF Counted, CountInv
<1>6. Len(queue') <= maxQueue'
  BY DEF Counted
<1> QED
  BY <1>2, <1>3, <1>4, <1>5, <1>6 DEF CountInv, InStatus

\* When the work of a customer in phase t ends.
Ends(c, t, w) == IF t = "ordering" /\ demand[c].service > OrderTicks THEN w + (demand[c].service - OrderTicks) ELSE w

LEMMA WorkEnds ==
  ASSUME TypeInv, NEW c \in Customers, NEW t \in Phases, NEW w \in Nat, NEW o, Moves(c, t, w, o)
  PROVE  /\ \A d \in Customers : WorkEnd(d) \in Nat /\ WorkEnd(d)' \in Nat
         /\ WorkEnd(c)' = Ends(c, t, w) /\ (c \in Worked' <=> t \in {"ordering", "making"})
         /\ \A d \in Customers : d # c => WorkEnd(d)' = WorkEnd(d) /\ (d \in Worked' <=> d \in Worked)
         /\ Worked \subseteq Customers /\ Worked' \subseteq Customers
<1>1. \A d \in Customers : demand[d].service \in Nat
  BY DemandNumbers DEF TypeInv
<1>2. /\ \A d \in Customers : phase'[d] = (IF d = c THEN t ELSE phase[d]) /\ wake'[d] = (IF d = c THEN w ELSE wake[d])
      /\ demand' = demand
      /\ \A d \in Customers : wake[d] \in Nat
  BY DEF Moves, Fixed, TypeInv
<1>3. ASSUME NEW d \in Customers PROVE WorkEnd(d) \in Nat /\ WorkEnd(d)' \in Nat
  BY <1>1, <1>2, Numbers DEF WorkEnd
<1> QED
  BY <1>2, <1>3 DEF WorkEnd, Ends, Worked

LEMMA WorkKept ==
  ASSUME TypeInv, WorkInv, NEW c \in Customers, NEW t \in Phases, NEW w \in Nat, NEW o, Moves(c, t, w, o),
         busy' = busy,
         (c \in Worked /\ now < WorkEnd(c)) <=> (t \in {"ordering", "making"} /\ now < Ends(c, t, w)),
         c \in Worked /\ t \in {"ordering", "making"} => WorkEnd(c) = Ends(c, t, w)
  PROVE  WorkInv'
<1>1. PICK e : e = [d \in Customers |-> WorkEnd(d)]
  OBVIOUS
<1>2. PICK e2 : e2 = [d \in Customers |-> WorkEnd(d)']
  OBVIOUS
<1>3. PICK W : W = Worked
  OBVIOUS
<1>4. PICK W2 : W2 = Worked'
  OBVIOUS
<1>5. /\ \A d \in Customers : e[d] \in Int /\ e2[d] \in Int
      /\ \A d \in Customers : (d \in W /\ now < e[d]) <=> (d \in W2 /\ now < e2[d])
      /\ \A d \in W \cap W2 : e[d] = e2[d] \/ (e[d] <= now /\ e2[d] <= now)
  BY <1>1, <1>2, <1>3, <1>4, WorkEnds
<1>6. now \in Nat /\ now' = now /\ served' = served /\ staff' = staff
  BY DEF TypeInv, Moves, Fixed
<1>7. Ahead(W, e, now) = Ahead(W2, e2, now)
  BY <1>5, <1>6, AheadKept
<1>8. WorkAhead = Ahead(W, e, now)
  BY <1>1, <1>3 DEF WorkAhead
<1>9. WorkAhead' = Ahead(W2, e2, now)
  BY <1>2, <1>4, <1>6 DEF WorkAhead, Ahead
<1>10. WorkAhead' = WorkAhead
  BY <1>7, <1>8, <1>9
<1> QED
  BY <1>6, <1>10 DEF WorkInv

LEMMA SitKept ==
  ASSUME TypeInv, SitInv, NEW c \in Customers, NEW t \in Phases, NEW w \in Nat, NEW o, Moves(c, t, w, o),
         seatBusy' = seatBusy, seated' = seated \ {c}, c \in seated => wake[c] <= now
  PROVE  SitInv'
<1>1. now \in Nat /\ now' = now /\ served' = served
  BY DEF TypeInv, Moves, Fixed
<1>2. \A d \in Customers : wake[d] \in Int /\ wake'[d] \in Int /\ (d # c => wake'[d] = wake[d])
  BY DEF TypeInv, Moves
<1>3. /\ \A d \in Customers : (d \in seated /\ now < wake[d]) <=> (d \in seated' /\ now < wake'[d])
      /\ \A d \in seated \cap seated' : wake[d] = wake'[d] \/ (wake[d] <= now /\ wake'[d] <= now)
  BY <1>1, <1>2, SMTT(20) DEF TypeInv
<1>4. Ahead(seated, wake, now) = Ahead(seated', wake', now)
  BY <1>1, <1>2, <1>3, AheadKept
<1>5. SitAhead' = SitAhead
  BY <1>1, <1>4 DEF SitAhead, Ahead
<1> QED
  BY <1>1, <1>5 DEF SitInv

LEMMA EnterKeeps == ASSUME IInv, NEW c \in Customers, Enter(c) PROVE IInv'
<1>0. /\ TypeInv /\ PhaseInv /\ HoldInv /\ TurnInv /\ SeatInv /\ CountInv /\ WorkInv /\ SitInv /\ ChoiceInv
      /\ phase[c] = "coming" /\ c \notin seated /\ c \notin Worked
  BY DEF IInv, Enter, Due, SeatInv, Worked
<1>1. PICK w \in Nat : w = now + EnterTicks /\ now <= w
  BY <1>0, Numbers DEF TypeInv
<1>2. orderState[c] = "none"
  BY <1>0 DEF PhaseInv, OrderOf
<1>3. Moves(c, "entering", w, "none")
  BY <1>0, <1>1, <1>2 DEF Enter, Goes, Moves, TypeInv
<1>4. users' = users /\ queue' = queue /\ seated' = seated \ {c}
  BY <1>0 DEF Enter
<1>5. Sound(c, "entering", w, "none", users, queue)
  BY <1>0, <1>1, <1>4, Holding DEF Sound, Fits, OrderOf, Phases
<1>6. /\ TypeOfMove' /\ users' \subseteq Customers /\ queue' \in Seq(Customers) /\ seated' \subseteq Customers
      /\ PhaseInv' /\ HoldInv' /\ TurnInv' /\ SeatInv' /\ ChoiceInv'
  BY <1>0, <1>3, <1>4, <1>5, MoveKeeps
<1>7. Counted(c, "none")
  BY <1>0, <1>2, SMTT(20) DEF Counted, Enter, counters, CountInv, TypeInv
<1>8. CountInv'
  BY <1>0, <1>3, <1>7, CountKept
<1>9. WorkInv'
  BY <1>0, <1>3, WorkKept DEF Enter, counters, Phases
<1>10. SitInv'
  BY <1>0, <1>3, <1>4, SitKept DEF Enter, counters, Phases
<1>11. TypeInv'
  BY <1>0, <1>6 DEF TypeInv, TypeOfMove, Enter, counters
<1> QED
  BY <1>6, <1>8, <1>9, <1>10, <1>11 DEF IInv

LEMMA AbandonKeeps == ASSUME IInv, NEW c \in Customers, Abandon(c) PROVE IInv'
<1>0. /\ TypeInv /\ PhaseInv /\ HoldInv /\ TurnInv /\ SeatInv /\ CountInv /\ WorkInv /\ SitInv /\ ChoiceInv
      /\ phase[c] = "queue" /\ c \notin seated /\ c \notin Worked
  BY DEF IInv, Abandon, Due, SeatInv, Worked
<1>1. PICK w \in Nat : w = now + LeaveTicks /\ now <= w
  BY <1>0, Numbers DEF TypeInv
<1>2. orderState[c] = "waiting"
  BY <1>0 DEF PhaseInv, OrderOf
<1>3. Moves(c, "exiting", w, "abandoned")
  BY <1>0, <1>1 DEF Abandon, Goes, Moves
<1>4. users' = users /\ queue' = queue /\ seated' = seated \ {c}
  BY <1>0 DEF Abandon
<1>5. Sound(c, "exiting", w, "abandoned", users, queue)
  BY <1>0, <1>1, <1>4, Holding DEF Sound, Fits, OrderOf, Phases
<1>6. /\ TypeOfMove' /\ users' \subseteq Customers /\ queue' \in Seq(Customers) /\ seated' \subseteq Customers
      /\ PhaseInv' /\ HoldInv' /\ TurnInv' /\ SeatInv' /\ ChoiceInv'
  BY <1>0, <1>3, <1>4, <1>5, MoveKeeps
<1>7. Counted(c, "abandoned")
  <2>1. /\ completed' = completed /\ abandoned' = abandoned + 1 /\ waits' = waits /\ queue' = queue /\ maxQueue' = maxQueue
    BY DEF Abandon
  <2>2. completed \in Nat /\ abandoned \in Nat /\ waits[2] \in Nat /\ Len(queue) <= maxQueue
    BY <1>0 DEF TypeInv, CountInv
  <2> QED
    BY <1>2, <2>1, <2>2 DEF Counted
<1>8. CountInv'
  BY <1>0, <1>3, <1>7, CountKept
<1>9. WorkInv'
  BY <1>0, <1>3, WorkKept DEF Abandon, Phases
<1>10. SitInv'
  BY <1>0, <1>3, <1>4, SitKept DEF Abandon, Phases
<1>11. TypeInv'
  <2>1. /\ completed' = completed /\ abandoned' = abandoned + 1 /\ waits' = waits /\ maxQueue' = maxQueue
        /\ busy' = busy /\ seatBusy' = seatBusy
    BY DEF Abandon
  <2>2. /\ completed \in Nat /\ abandoned \in Nat /\ maxQueue \in Nat /\ busy \in Nat /\ seatBusy \in Nat
        /\ waits \in Int \X Nat
    BY <1>0 DEF TypeInv
  <2>3. abandoned' \in Nat
    BY <2>1, <2>2
  <2> QED
    BY <1>6, <2>1, <2>2, <2>3 DEF TypeInv, TypeOfMove
<1> QED
  BY <1>6, <1>8, <1>9, <1>10, <1>11 DEF IInv

LEMMA StandUpKeeps == ASSUME IInv, NEW c \in Customers, StandUp(c) PROVE IInv'
<1>0. /\ TypeInv /\ PhaseInv /\ HoldInv /\ TurnInv /\ SeatInv /\ CountInv /\ WorkInv /\ SitInv /\ ChoiceInv
      /\ phase[c] = "seated" /\ c \notin Worked /\ wake[c] <= now
  BY DEF IInv, StandUp, Due, Worked, TypeInv
<1>1. PICK w \in Nat : w = now + LeaveTicks /\ now <= w
  BY <1>0, Numbers DEF TypeInv
<1>2. orderState[c] = "completed"
  BY <1>0 DEF PhaseInv, OrderOf
<1>3. Moves(c, "exiting", w, "completed")
  BY <1>0, <1>1, <1>2 DEF StandUp, Goes, Moves, TypeInv
<1>4. users' = users /\ queue' = queue /\ seated' = seated \ {c}
  BY <1>0 DEF StandUp
<1>5. Sound(c, "exiting", w, "completed", users, queue)
  BY <1>0, <1>1, <1>4, Holding DEF Sound, Fits, OrderOf, Phases
<1>6. /\ TypeOfMove' /\ users' \subseteq Customers /\ queue' \in Seq(Customers) /\ seated' \subseteq Customers
      /\ PhaseInv' /\ HoldInv' /\ TurnInv' /\ SeatInv' /\ ChoiceInv'
  BY <1>0, <1>3, <1>4, <1>5, MoveKeeps
<1>7. Counted(c, "completed")
  BY <1>0, <1>2, SMTT(20) DEF Counted, StandUp, counters, CountInv, TypeInv
<1>8. CountInv'
  BY <1>0, <1>3, <1>7, CountKept
<1>9. WorkInv'
  BY <1>0, <1>3, WorkKept DEF StandUp, counters, Phases
<1>10. SitInv'
  BY <1>0, <1>3, <1>4, SitKept DEF StandUp, counters, Phases
<1>11. TypeInv'
  BY <1>0, <1>6 DEF TypeInv, TypeOfMove, StandUp, counters
<1> QED
  BY <1>6, <1>8, <1>9, <1>10, <1>11 DEF IInv

\* Who leaves gives back what is held, and is taken out of the queue.
LEMMA ExitKeeps == ASSUME IInv, NEW c \in Customers, Exit(c) PROVE IInv'
<1>0. /\ TypeInv /\ PhaseInv /\ HoldInv /\ TurnInv /\ SeatInv /\ CountInv /\ WorkInv /\ SitInv /\ ChoiceInv
      /\ phase[c] = "exiting" /\ c \notin seated /\ c \notin Worked
  BY DEF IInv, Exit, Due, SeatInv, Worked
<1>1. PICK o \in {"completed", "abandoned"} : o = orderState[c]
  BY <1>0 DEF PhaseInv, OrderOf
<1>2. PICK r : r = Without(queue, c)
  OBVIOUS
<1>3. Moves(c, "left", 0, o)
  BY <1>0, <1>1 DEF Exit, Moves, TypeInv
<1>4. users' = users \ {c} /\ queue' = r /\ seated' = seated \ {c}
  BY <1>0, <1>2 DEF Exit
<1>5. /\ r \in Seq(Customers) /\ Len(r) <= Len(queue) /\ Distinct(r)
      /\ \A d : In(d, r) <=> In(d, queue) /\ d # c
      /\ \A i, j \in 1..Len(r) : i < j => \E k, l \in 1..Len(queue) : k < l /\ queue[k] = r[i] /\ queue[l] = r[j]
  <2>1. PICK q \in Seq(Customers) : q = queue /\ Distinct(q)
    BY <1>0 DEF TypeInv, HoldInv, Line
  <2>2. r = Without(q, c)
    BY <1>2, <2>1
  <2>3. Cancelled(q, c, r)
    BY <2>1, <2>2, WithoutEffect
  <2> QED
    BY <2>1, <2>3 DEF Cancelled
<1>6. Remains(users, queue, users \ {c}, r, c) /\ Ordered(queue, r, c)
  BY <1>5 DEF Remains, Ordered
<1>7. Fits(c, users \ {c}, r, "left", o)
  BY <1>5 DEF Fits
<1>8. Sound(c, "left", 0, o, users \ {c}, r)
  BY <1>0, <1>1, <1>4, <1>6, <1>7 DEF Sound, OrderOf, Phases
<1>9. /\ TypeOfMove' /\ users' \subseteq Customers /\ queue' \in Seq(Customers) /\ seated' \subseteq Customers
      /\ PhaseInv' /\ HoldInv' /\ TurnInv' /\ SeatInv' /\ ChoiceInv'
  BY <1>0, <1>3, <1>4, <1>8, MoveKeeps
<1>10. Counted(c, o)
  <2>1. Len(r) \in Nat /\ Len(queue) \in Nat /\ Len(queue) <= maxQueue
    BY <1>0, <1>5, SMTT(20) DEF TypeInv, CountInv
  <2>2. completed' = completed /\ abandoned' = abandoned /\ waits' = waits /\ maxQueue' = maxQueue
    BY DEF Exit, counters
  <2>3. completed \in Nat /\ abandoned \in Nat /\ maxQueue \in Nat /\ waits[2] \in Nat
    BY <1>0 DEF TypeInv
  <2>4. Len(queue') <= maxQueue'
    BY <1>4, <1>5, <2>1, <2>2, <2>3
  <2>5. CASE o = "completed"
    BY <1>1, <2>2, <2>3, <2>4, <2>5 DEF Counted
  <2>6. CASE o = "abandoned"
    BY <1>1, <2>2, <2>3, <2>4, <2>6 DEF Counted
  <2> QED
    BY <1>1, <2>5, <2>6
<1>11. CountInv'
  BY <1>0, <1>3, <1>10, CountKept
<1>12. WorkInv'
  BY <1>0, <1>3, WorkKept DEF Exit, counters, Phases
<1>13. SitInv'
  BY <1>0, <1>3, <1>4, SitKept DEF Exit, counters, Phases
<1>14. TypeInv'
  BY <1>0, <1>9 DEF TypeInv, TypeOfMove, Exit, counters
<1> QED
  BY <1>9, <1>11, <1>12, <1>13, <1>14 DEF IInv

\* The member of staff is given back when the work is done.
LEMMA HandsKeeps ==
  ASSUME IInv, NEW c \in Customers, phase[c] \in {"ordering", "making"}, WorkEnd(c) = now,
         Hands(c), Fixed, UNCHANGED <<queue, seated, counters>>
  PROVE  IInv'
<1>0. /\ TypeInv /\ PhaseInv /\ HoldInv /\ TurnInv /\ SeatInv /\ CountInv /\ WorkInv /\ SitInv /\ ChoiceInv
      /\ c \notin seated
  BY DEF IInv, SeatInv
<1>1. PICK w \in Nat : w = now + PickupTicks /\ now <= w
  BY <1>0, Numbers DEF TypeInv
<1>2. orderState[c] = "preparing"
  BY <1>0 DEF PhaseInv, OrderOf
<1>3. Moves(c, "ready", w, "ready")
  BY <1>0, <1>1 DEF Hands, Goes, Moves
<1>4. users' = users \ {c} /\ queue' = queue /\ seated' = seated \ {c}
  BY <1>0 DEF Hands
<1>5. Sound(c, "ready", w, "ready", users \ {c}, queue)
  BY <1>0, <1>1, <1>4, Holding DEF Sound, Fits, OrderOf, Phases
<1>6. /\ TypeOfMove' /\ users' \subseteq Customers /\ queue' \in Seq(Customers) /\ seated' \subseteq Customers
      /\ PhaseInv' /\ HoldInv' /\ TurnInv' /\ SeatInv' /\ ChoiceInv'
  BY <1>0, <1>3, <1>4, <1>5, MoveKeeps
<1>7. Counted(c, "ready")
  BY <1>0, <1>2, SMTT(20) DEF Counted, counters, CountInv, TypeInv
<1>8. CountInv'
  BY <1>0, <1>3, <1>7, CountKept
<1>9. WorkInv'
  <2>1. ~ (now < WorkEnd(c))
    BY <1>0 DEF TypeInv
  <2> QED
    BY <1>0, <1>3, <2>1, WorkKept DEF counters, Phases
<1>10. SitInv'
  BY <1>0, <1>3, <1>4, SitKept DEF counters, Phases
<1>11. TypeInv'
  BY <1>0, <1>6 DEF TypeInv, TypeOfMove, counters
<1> QED
  BY <1>6, <1>8, <1>9, <1>10, <1>11 DEF IInv

LEMMA EndMakingKeeps == ASSUME IInv, NEW c \in Customers, EndMaking(c) PROVE IInv'
<1>1. phase[c] = "making" /\ WorkEnd(c) = now
  BY DEF EndMaking, Due, WorkEnd
<1> QED
  BY <1>1, HandsKeeps DEF EndMaking

\* The work on an order goes on where ordering ends.
LEMMA EndOrderingKeeps == ASSUME IInv, NEW c \in Customers, EndOrdering(c) PROVE IInv'
<1>0. /\ TypeInv /\ PhaseInv /\ HoldInv /\ TurnInv /\ SeatInv /\ CountInv /\ WorkInv /\ SitInv /\ ChoiceInv
      /\ phase[c] = "ordering" /\ c \notin seated /\ wake[c] = now /\ c \in Worked
  BY DEF IInv, EndOrdering, Due, SeatInv, Worked
<1>1. CASE demand[c].service > OrderTicks
  <2>0. demand[c].service \in Nat /\ now \in Nat
    BY <1>0, DemandNumbers DEF TypeInv
  <2>1. PICK w \in Nat : w = now + (demand[c].service - OrderTicks) /\ now <= w
    BY <1>1, <2>0, Numbers
  <2>2. orderState[c] = "preparing"
    BY <1>0 DEF PhaseInv, OrderOf
  <2>3. Moves(c, "making", w, "preparing")
    <3>1. orderState' = [orderState EXCEPT ![c] = "preparing"]
      BY <1>0, <1>1, <2>2 DEF EndOrdering, TypeInv
    <3> QED
      BY <1>1, <2>1, <3>1 DEF EndOrdering, Goes, Moves
  <2>4. users' = users /\ queue' = queue /\ seated' = seated \ {c} /\ UNCHANGED counters
    BY <1>0, <1>1 DEF EndOrdering
  <2>5. Sound(c, "making", w, "preparing", users, queue)
    BY <1>0, <2>1, <2>4, Holding DEF Sound, Fits, OrderOf, Phases
  <2>6. /\ TypeOfMove' /\ users' \subseteq Customers /\ queue' \in Seq(Customers) /\ seated' \subseteq Customers
        /\ PhaseInv' /\ HoldInv' /\ TurnInv' /\ SeatInv' /\ ChoiceInv'
    BY <1>0, <2>3, <2>4, <2>5, MoveKeeps
  <2>7. Counted(c, "preparing")
    BY <1>0, <2>2, <2>4, SMTT(20) DEF Counted, counters, CountInv, TypeInv
  <2>8. CountInv'
    BY <1>0, <2>3, <2>7, CountKept
  <2>9. WorkInv'
    <3>1. WorkEnd(c) = Ends(c, "making", w)
      BY <1>0, <1>1, <2>1 DEF WorkEnd, Ends
    <3> QED
      BY <1>0, <2>3, <2>4, <3>1, WorkKept DEF counters, Phases
  <2>10. SitInv'
    BY <1>0, <2>3, <2>4, SitKept DEF counters, Phases
  <2>11. TypeInv'
    BY <1>0, <2>4, <2>6 DEF TypeInv, TypeOfMove, counters
  <2> QED
    BY <2>6, <2>8, <2>9, <2>10, <2>11 DEF IInv
<1>2. CASE ~ (demand[c].service > OrderTicks)
  <2>1. WorkEnd(c) = now
    BY <1>0, <1>2 DEF WorkEnd
  <2>2. Hands(c) /\ Fixed /\ UNCHANGED <<queue, seated, counters>>
    BY <1>2 DEF EndOrdering
  <2> QED
    BY <1>0, <2>1, <2>2, HandsKeeps
<1> QED
  BY <1>1, <1>2

\* What is charged when a stretch begins is what lies ahead of it.
LEMMA ClippedIsNat ==
  ASSUME TypeInv, NEW k \in Nat PROVE Clipped(k) = Min({k, Duration - now}) /\ Clipped(k) \in Nat
<1>1. PICK a \in Int, b \in Nat : a = k /\ b = Duration - now
  BY Numbers DEF TypeInv
<1>2. Min({a, b}) = IF a <= b THEN a ELSE b
  BY MinTwo
<1> QED
  BY <1>1, <1>2 DEF Clipped

LEMMA SitBegins ==
  ASSUME TypeInv, SitInv, NEW c \in Customers, NEW k \in Nat, NEW t \in Phases, NEW o,
         Moves(c, t, now + k, o), c \notin seated, seated' = seated \cup {c},
         seatBusy' = seatBusy + Clipped(k)
  PROVE  SitInv'
<1>1. now \in Nat /\ now <= Duration /\ now' = now /\ served' = served
  BY Numbers DEF TypeInv, Moves, Fixed
<1>2. wake'[c] = now + k /\ \A d \in seated : d # c => wake'[d] = wake[d]
  BY DEF TypeInv, Moves
<1>3. Cardinality(Ahead(seated \cup {c}, wake', now)) = Cardinality(Ahead(seated, wake, now)) + Min({k, Duration - now})
  BY <1>1, <1>2, AheadBegins
<1>4. SitAhead' = Ahead(seated \cup {c}, wake', now)
  BY <1>1 DEF SitAhead, Ahead
<1>5. Cardinality(SitAhead') = Cardinality(SitAhead) + Clipped(k)
  BY <1>3, <1>4, ClippedIsNat DEF SitAhead
<1>6. /\ seatBusy = served[2] + Cardinality(SitAhead) /\ Cardinality(SitAhead) \in Nat
      /\ Clipped(k) \in Nat /\ served[2] \in Nat
  BY ClippedIsNat, AheadIsFinite DEF SitInv, SitAhead, TypeInv
<1>7. seatBusy' = served'[2] + Cardinality(SitAhead')
  BY <1>1, <1>5, <1>6
<1> QED
  BY <1>1, <1>7 DEF SitInv

LEMMA WorkBegins ==
  ASSUME TypeInv, WorkInv, NEW c \in Customers, NEW k \in Nat, NEW w \in Nat, NEW o,
         Moves(c, "ordering", w, o), c \notin Worked, Ends(c, "ordering", w) = now + k,
         busy' = busy + Clipped(k)
  PROVE  WorkInv'
<1>1. now \in Nat /\ now <= Duration /\ now' = now /\ served' = served /\ staff' = staff
  BY Numbers DEF TypeInv, Moves, Fixed
<1>2. PICK e : e = [d \in Customers |-> WorkEnd(d)]
  OBVIOUS
<1>3. PICK e2 : e2 = [d \in Customers |-> WorkEnd(d)']
  OBVIOUS
<1>4. PICK W : W = Worked
  OBVIOUS
<1>5. PICK W2 : W2 = Worked'
  OBVIOUS
<1>6. "ordering" \in Phases
  BY DEF Phases
<1>7. /\ c \notin W /\ W2 = W \cup {c} /\ e2[c] = now + k
      /\ \A d \in W : d # c => e2[d] = e[d]
  <2>1. /\ WorkEnd(c)' = now + k /\ c \in Worked'
        /\ \A d \in Customers : d # c => WorkEnd(d)' = WorkEnd(d) /\ (d \in Worked' <=> d \in Worked)
        /\ Worked \subseteq Customers /\ Worked' \subseteq Customers
    BY <1>6, WorkEnds
  <2> QED
    BY <1>2, <1>3, <1>4, <1>5, <2>1
<1>8. Cardinality(Ahead(W \cup {c}, e2, now)) = Cardinality(Ahead(W, e, now)) + Min({k, Duration - now})
  BY <1>1, <1>7, AheadBegins
<1>9. WorkAhead = Ahead(W, e, now)
  BY <1>2, <1>4 DEF WorkAhead
<1>10. WorkAhead' = Ahead(W2, e2, now)
  BY <1>1, <1>3, <1>5 DEF WorkAhead, Ahead
<1>11. Cardinality(WorkAhead') = Cardinality(WorkAhead) + Clipped(k)
  BY <1>7, <1>8, <1>9, <1>10, ClippedIsNat
<1>12. /\ busy = served[1] + Cardinality(WorkAhead) /\ Cardinality(WorkAhead) \in Nat
       /\ Clipped(k) \in Nat /\ served[1] \in Nat
  BY ClippedIsNat, AheadIsFinite DEF WorkInv, WorkAhead, TypeInv
<1>13. busy' = served'[1] + Cardinality(WorkAhead')
  BY <1>1, <1>11, <1>12
<1> QED
  BY <1>1, <1>13 DEF WorkInv

LEMMA ServeKeeps == ASSUME IInv, NEW c \in Customers, Serve(c) PROVE IInv'
<1>0. /\ TypeInv /\ PhaseInv /\ HoldInv /\ TurnInv /\ SeatInv /\ CountInv /\ WorkInv /\ SitInv /\ ChoiceInv
      /\ phase[c] = "queue" /\ c \in users /\ c \notin seated /\ c \notin Worked
  BY DEF IInv, Serve, SeatInv, Worked
<1>1. PICK k \in Nat : k = demand[c].service /\ demand[c].patience \in Nat /\ wake[c] \in Nat /\ now \in Nat
  <2>1. demand \in Persons
    BY ONLY <1>0 DEF TypeInv
  <2>2. wake[c] \in Nat /\ now \in Nat
    BY <1>0 DEF TypeInv
  <2>3. demand[c].service \in Nat /\ demand[c].patience \in Nat
    BY ONLY <2>1, c \in Customers, DemandNumbers
  <2> QED
    BY ONLY <2>2, <2>3
<1>2. PICK m \in Nat : m = Min({OrderTicks, demand[c].service}) /\ m = IF OrderTicks <= k THEN OrderTicks ELSE k
  <2>1. OrderTicks \in Nat /\ OrderTicks \in Int /\ k \in Int
    BY Numbers
  <2>2. Min({OrderTicks, k}) = IF OrderTicks <= k THEN OrderTicks ELSE k
    BY <2>1, MinTwo
  <2> QED
    BY <1>1, <2>1, <2>2
<1>3. PICK w \in Nat : w = now + m /\ now <= w
  BY <1>1
<1>4. orderState[c] = "waiting"
  BY <1>0 DEF PhaseInv, OrderOf
<1>5. Moves(c, "ordering", w, "preparing")
  BY <1>2, <1>3 DEF Serve, Goes, Moves
<1>6. users' = users /\ queue' = queue /\ seated' = seated \ {c}
  BY <1>0 DEF Serve
<1>7. Sound(c, "ordering", w, "preparing", users, queue)
  BY <1>0, <1>3, <1>6, Holding DEF Sound, Fits, OrderOf, Phases
<1>8. /\ TypeOfMove' /\ users' \subseteq Customers /\ queue' \in Seq(Customers) /\ seated' \subseteq Customers
      /\ PhaseInv' /\ HoldInv' /\ TurnInv' /\ SeatInv' /\ ChoiceInv'
  BY <1>0, <1>5, <1>6, <1>7, MoveKeeps
<1>9. /\ completed' = completed /\ abandoned' = abandoned /\ maxQueue' = maxQueue
      /\ busy' = busy + Clipped(k) /\ seatBusy' = seatBusy
      /\ waits' = <<waits[1] + demand[c].patience - (wake[c] - now), waits[2] + 1>>
  BY <1>1 DEF Serve
<1>10. /\ completed \in Nat /\ abandoned \in Nat /\ maxQueue \in Nat /\ busy \in Nat /\ seatBusy \in Nat
       /\ waits \in Int \X Nat /\ waits[1] \in Int /\ waits[2] \in Nat /\ Len(queue) <= maxQueue
  BY <1>0 DEF TypeInv, CountInv
<1>11. Counted(c, "preparing")
  BY <1>4, <1>6, <1>9, <1>10 DEF Counted
<1>12. CountInv'
  BY <1>0, <1>5, <1>11, CountKept
<1>13. WorkInv'
  <2>1. Ends(c, "ordering", w) = now + k
    BY <1>1, <1>2, <1>3, Numbers DEF Ends
  <2> QED
    BY <1>0, <1>5, <1>9, <2>1, WorkBegins
<1>14. SitInv'
  BY <1>0, <1>5, <1>6, <1>9, SitKept DEF Phases
<1>15. busy' \in Nat
  <2>1. Clipped(k) \in Nat
    BY <1>0, ClippedIsNat
  <2> QED
    BY <1>9, <1>10, <2>1
<1>16. waits' \in Int \X Nat
  <2>1. waits[1] + demand[c].patience - (wake[c] - now) \in Int /\ waits[2] + 1 \in Nat
    BY <1>1, <1>10, SMTT(20)
  <2> QED
    BY <1>9, <2>1
<1>17. TypeInv'
  BY <1>8, <1>9, <1>10, <1>15, <1>16 DEF TypeInv, TypeOfMove
<1> QED
  BY <1>8, <1>12, <1>13, <1>14, <1>17 DEF IInv

LEMMA CompleteKeeps == ASSUME IInv, NEW c \in Customers, Complete(c) PROVE IInv'
<1>0. /\ TypeInv /\ PhaseInv /\ HoldInv /\ TurnInv /\ SeatInv /\ CountInv /\ WorkInv /\ SitInv /\ ChoiceInv
      /\ phase[c] = "ready" /\ c \notin seated /\ c \notin Worked
  BY DEF IInv, Complete, Due, SeatInv, Worked
<1>1. demand[c].stay \in Nat /\ now \in Nat
  BY <1>0, DemandNumbers DEF TypeInv
<1>2. orderState[c] = "ready"
  BY <1>0 DEF PhaseInv, OrderOf
<1>3. /\ completed' = completed + 1 /\ abandoned' = abandoned /\ waits' = waits /\ maxQueue' = maxQueue
      /\ busy' = busy /\ users' = users /\ queue' = queue
      /\ orderState' = [orderState EXCEPT ![c] = "completed"] /\ Fixed
  BY DEF Complete
<1>4. /\ completed \in Nat /\ abandoned \in Nat /\ maxQueue \in Nat /\ busy \in Nat /\ seatBusy \in Nat
      /\ waits \in Int \X Nat /\ waits[2] \in Nat /\ Len(queue) <= maxQueue
  BY <1>0 DEF TypeInv, CountInv
<1>5. Counted(c, "completed") /\ completed' \in Nat
  BY <1>2, <1>3, <1>4 DEF Counted
<1>6. CASE demand[c].sits /\ Cardinality(seated) < SeatCount
  <2>1. PICK w \in Nat : w = now + demand[c].stay /\ now <= w
    BY <1>1
  <2>2. seated' = seated \cup {c} /\ seatBusy' = seatBusy + Clipped(demand[c].stay) /\ Goes(c, "seated", demand[c].stay)
    BY <1>6 DEF Complete
  <2>3. Moves(c, "seated", w, "completed")
    BY <1>3, <2>1, <2>2 DEF Goes, Moves
  <2>4. Sound(c, "seated", w, "completed", users, queue)
    BY <1>0, <1>6, <2>1, <2>2, Holding DEF Sound, Fits, OrderOf, Phases
  <2>5. /\ TypeOfMove' /\ users' \subseteq Customers /\ queue' \in Seq(Customers) /\ seated' \subseteq Customers
        /\ PhaseInv' /\ HoldInv' /\ TurnInv' /\ SeatInv' /\ ChoiceInv'
    BY <1>0, <1>3, <2>3, <2>4, MoveKeeps
  <2>6. CountInv'
    BY <1>0, <1>5, <2>3, CountKept
  <2>7. WorkInv'
    BY <1>0, <1>3, <2>3, WorkKept DEF Phases
  <2>8. SitInv'
    <3>1. "seated" \in Phases
      BY DEF Phases
    <3>2. Moves(c, "seated", now + demand[c].stay, "completed")
      BY <2>1, <2>3
    <3> QED
      BY <1>0, <1>1, <2>2, <3>1, <3>2, SitBegins
  <2>9. seatBusy' \in Nat
    <3>1. Clipped(demand[c].stay) \in Nat
      BY <1>0, <1>1, ClippedIsNat
    <3> QED
      BY <1>4, <2>2, <3>1
  <2>10. TypeInv'
    BY <1>3, <1>4, <1>5, <2>5, <2>9 DEF TypeInv, TypeOfMove
  <2> QED
    BY <2>5, <2>6, <2>7, <2>8, <2>10 DEF IInv
<1>7. CASE ~ (demand[c].sits /\ Cardinality(seated) < SeatCount)
  <2>1. PICK w \in Nat : w = now + LeaveTicks /\ now <= w
    BY <1>1, Numbers
  <2>2. seated' = seated \ {c} /\ seatBusy' = seatBusy /\ Goes(c, "exiting", LeaveTicks)
    BY <1>0, <1>7 DEF Complete
  <2>3. Moves(c, "exiting", w, "completed")
    BY <1>3, <2>1, <2>2 DEF Goes, Moves
  <2>4. Sound(c, "exiting", w, "completed", users, queue)
    BY <1>0, <2>1, <2>2, Holding DEF Sound, Fits, OrderOf, Phases
  <2>5. /\ TypeOfMove' /\ users' \subseteq Customers /\ queue' \in Seq(Customers) /\ seated' \subseteq Customers
        /\ PhaseInv' /\ HoldInv' /\ TurnInv' /\ SeatInv' /\ ChoiceInv'
    BY <1>0, <1>3, <2>3, <2>4, MoveKeeps
  <2>6. CountInv'
    BY <1>0, <1>5, <2>3, CountKept
  <2>7. WorkInv'
    BY <1>0, <1>3, <2>3, WorkKept DEF Phases
  <2>8. SitInv'
    BY <1>0, <2>2, <2>3, SitKept DEF Phases
  <2>9. TypeInv'
    BY <1>3, <1>4, <1>5, <2>2, <2>5 DEF TypeInv, TypeOfMove
  <2> QED
    BY <2>5, <2>6, <2>7, <2>8, <2>9 DEF IInv
<1> QED
  BY <1>6, <1>7

\* What the queue and the users cannot disturb.
Unmoved == /\ phase' = phase /\ wake' = wake /\ orderState' = orderState /\ seated' = seated
           /\ demand' = demand /\ staff' = staff /\ now' = now /\ served' = served
           /\ busy' = busy /\ seatBusy' = seatBusy /\ options' = options /\ recommended' = recommended

LEMMA UnmovedKeeps ==
  ASSUME PhaseInv, SeatInv, WorkInv, SitInv, ChoiceInv, Unmoved
  PROVE  PhaseInv' /\ SeatInv' /\ WorkInv' /\ SitInv' /\ ChoiceInv'
<1>1. PhaseInv'
  BY DEF PhaseInv, Unmoved, Joined
<1>2. SeatInv'
  BY DEF SeatInv, Unmoved
<1>3. WorkInv'
  <2>1. WorkAhead' = WorkAhead
    BY DEF WorkAhead, Ahead, Worked, WorkEnd, Unmoved
  <2> QED
    BY <2>1 DEF WorkInv, Unmoved
<1>4. SitInv'
  <2>1. SitAhead' = SitAhead
    BY DEF SitAhead, Ahead, Unmoved
  <2> QED
    BY <2>1 DEF SitInv, Unmoved
<1>5. ChoiceInv'
  BY DEF ChoiceInv, Unmoved, Recommendation, Meets
<1> QED
  BY <1>1, <1>2, <1>3, <1>4, <1>5

LEMMA TakeUpKeeps == ASSUME IInv, TakeUp PROVE IInv'
<1>0. /\ TypeInv /\ PhaseInv /\ HoldInv /\ TurnInv /\ SeatInv /\ CountInv /\ WorkInv /\ SitInv /\ ChoiceInv
  BY DEF IInv
<1>1. Unmoved /\ completed' = completed /\ abandoned' = abandoned /\ maxQueue' = maxQueue /\ waits' = waits
  BY DEF TakeUp, Unmoved, Fixed, counters
<1>2. PhaseInv' /\ SeatInv' /\ WorkInv' /\ SitInv' /\ ChoiceInv'
  BY <1>0, <1>1, UnmovedKeeps
<1>3. PICK u \in SUBSET Customers, q \in Seq(Customers) : u = users /\ q = queue
  BY <1>0 DEF TypeInv
<1>4. users' = Grant(u, q).users /\ queue' = Grant(u, q).queue
  BY <1>3 DEF TakeUp
<1>5. staff \in Nat /\ Line(staff, u, q, phase, orderState) /\ InTurn(u, q, phase, JoinTimes)
  BY <1>0, <1>3, Numbers DEF HoldInv, TurnInv, TypeInv
<1>6. HoldInv'
  <2>1. Line(staff, Grant(u, q).users, Grant(u, q).queue, phase, orderState)
    BY <1>5, GrantLine
  <2> QED
    BY <1>1, <1>4, <2>1 DEF HoldInv, Unmoved
<1>7. TurnInv'
  <2>1. PICK jn : jn = JoinTimes
    OBVIOUS
  <2>2. InTurn(Grant(u, q).users, Grant(u, q).queue, phase, jn)
    BY <1>5, <2>1, GrantTurns
  <2>3. JoinTimes' = jn
    BY <1>1, <2>1 DEF JoinTimes, Joined, Unmoved
  <2> QED
    BY <1>1, <1>4, <2>2, <2>3 DEF TurnInv, Unmoved
<1>8. PICK n \in 0..Len(q) : /\ Grant(u, q).queue \in Seq(Customers) /\ Len(Grant(u, q).queue) = Len(q) - n
                             /\ Grant(u, q).users \subseteq Customers
  BY <1>5, GrantEffect DEF Line
<1>9. TypeInv'
  BY <1>0, <1>1, <1>4, <1>8 DEF TypeInv, Unmoved
<1>10. CountInv'
  <2>1. Len(queue') <= maxQueue'
    <3>1. Len(q) \in Nat /\ maxQueue \in Nat /\ Len(q) <= maxQueue
      BY <1>0, <1>3 DEF CountInv, TypeInv
    <3>2. Len(queue') <= Len(q) /\ Len(queue') \in Nat
      BY <1>4, <1>8, <3>1
    <3> QED
      BY <1>1, <3>1, <3>2
  <2> QED
    BY <1>0, <1>1, <2>1 DEF CountInv, InStatus, Unmoved
<1> QED
  BY <1>2, <1>6, <1>7, <1>9, <1>10 DEF IInv

\* Who joins the queue joins behind everyone who waits.
LEMMA QueueKeeps == ASSUME IInv, NEW c \in Customers, Queue(c) PROVE IInv'
<1>0. /\ TypeInv /\ PhaseInv /\ HoldInv /\ TurnInv /\ SeatInv /\ CountInv /\ WorkInv /\ SitInv /\ ChoiceInv
      /\ phase[c] = "entering" /\ c \notin seated /\ c \notin Worked
  BY DEF IInv, Queue, Due, SeatInv, Worked
<1>1. demand[c].patience \in Nat /\ now \in Nat
  BY <1>0, DemandNumbers DEF TypeInv
<1>2. PICK w \in Nat : w = now + demand[c].patience /\ now <= w /\ w - demand[c].patience = now
  BY <1>1
<1>3. orderState[c] = "none" /\ c \notin users /\ ~ In(c, queue)
  BY <1>0, Holding DEF PhaseInv, OrderOf
<1>4. Moves(c, "queue", w, "waiting")
  BY <1>2 DEF Queue, Goes, Moves
<1>5. PICK u \in SUBSET Customers, q \in Seq(Customers) : u = users /\ q = queue
  BY <1>0 DEF TypeInv
<1>6. PICK r : r = Append(q, c)
  OBVIOUS
<1>7. /\ users' = Grant(u, r).users /\ queue' = Grant(u, r).queue /\ seated' = seated
      /\ maxQueue' = Max({maxQueue, Len(Grant(u, r).queue)})
      /\ completed' = completed /\ abandoned' = abandoned /\ waits' = waits /\ busy' = busy /\ seatBusy' = seatBusy
  BY <1>5, <1>6 DEF Queue
<1>8. PICK m \in Nat : m = Len(q)
  OBVIOUS
<1>9. /\ r \in Seq(Customers) /\ Len(r) = m + 1
      /\ \A i \in 1..m : r[i] = q[i]
      /\ r[m + 1] = c
      /\ Distinct(r)
      /\ \A d : In(d, r) <=> In(d, q) \/ d = c
  <2>1. Distinct(q) /\ ~ In(c, q)
    BY <1>0, <1>3, <1>5 DEF HoldInv, Line
  <2> QED
    BY <1>6, <1>8, <2>1, AppendEffect
<1>10. staff \in Nat /\ Line(staff, u, r, phase', orderState')
  <2>1. Remains(u, q, u, r, c)
    BY <1>9 DEF Remains
  <2>2. Fits(c, u, r, "queue", "waiting")
    BY <1>3, <1>5, <1>9 DEF Fits
  <2>3. /\ staff \in Nat /\ phase \in [Customers -> Phases] /\ orderState \in [Customers -> OrderStates]
        /\ Line(staff, u, q, phase, orderState)
    BY <1>0, <1>5, Numbers DEF TypeInv, HoldInv
  <2>4. Line(staff, u, r, [phase EXCEPT ![c] = "queue"], [orderState EXCEPT ![c] = "waiting"])
    BY <2>1, <2>2, <2>3, LineMoves
  <2> QED
    BY <1>4, <2>3, <2>4 DEF Moves
<1>11. PICK jn2 : jn2 = JoinTimes'
  OBVIOUS
<1>12. /\ jn2[c] = now /\ phase'[c] = "queue"
       /\ \A d \in Customers : d # c => phase'[d] = phase[d] /\ jn2[d] = Joined(d)
       /\ \A d \in Customers : d # c /\ phase[d] = "queue" => Joined(d) <= now
  <2>1. /\ phase'[c] = "queue" /\ wake'[c] = w
        /\ \A d \in Customers : d # c => phase'[d] = phase[d] /\ wake'[d] = wake[d]
        /\ demand' = demand
    BY <1>0, <1>4 DEF Moves, Fixed, TypeInv
  <2>2. \A d \in Customers : jn2[d] = wake'[d] - demand'[d].patience
    BY <1>11 DEF JoinTimes, Joined
  <2> QED
    BY <1>0, <1>2, <2>1, <2>2 DEF PhaseInv, Joined
<1>13. InTurn(u, r, phase', jn2)
  <2>1. \A i \in 1..m : q[i] \in Customers /\ q[i] # c
    BY <1>3, <1>5, <1>8, ElementOfSeq DEF In
  <2>2. InTurn(u, q, phase, JoinTimes) /\ c \notin u
    BY <1>0, <1>3, <1>5 DEF TurnInv
  <2>3. \A d \in Customers : JoinTimes[d] = Joined(d)
    BY DEF JoinTimes
  <2>4. \A i \in 1..m+1 : i \in 1..m \/ i = m + 1
    BY <1>8
  <2>5. ASSUME NEW i \in 1..m+1, NEW j \in 1..m+1, i < j, phase'[r[i]] = "queue", phase'[r[j]] = "queue"
        PROVE  jn2[r[i]] <= jn2[r[j]]
    <3>1. i \in 1..m
      BY <1>8, <2>5
    <3>2. r[i] = q[i] /\ phase[q[i]] = "queue" /\ jn2[r[i]] = Joined(q[i]) /\ Joined(q[i]) <= now
      BY <1>9, <1>12, <2>1, <2>5, <3>1
    <3>3. CASE j = m + 1
      BY <1>9, <1>12, <3>2, <3>3
    <3>4. CASE j \in 1..m
      <4>1. r[j] = q[j] /\ phase[q[j]] = "queue" /\ jn2[r[j]] = Joined(q[j])
        BY <1>9, <1>12, <2>1, <2>5, <3>4
      <4>2. JoinTimes[q[i]] <= JoinTimes[q[j]]
        BY <1>8, <2>2, <2>5, <3>1, <3>2, <3>4, <4>1 DEF InTurn
      <4> QED
        BY <2>1, <2>3, <3>1, <3>2, <3>4, <4>1, <4>2
    <3> QED
      BY <2>4, <3>3, <3>4
  <2>6. ASSUME NEW d \in u, NEW i \in 1..m+1, phase'[d] = "queue", phase'[r[i]] = "queue"
        PROVE  jn2[d] <= jn2[r[i]]
    <3>1. d \in Customers /\ d # c
      BY <2>2
    <3>2. phase[d] = "queue" /\ jn2[d] = Joined(d) /\ Joined(d) <= now
      BY <1>12, <2>6, <3>1
    <3>3. CASE i = m + 1
      BY <1>9, <1>12, <3>2, <3>3
    <3>4. CASE i \in 1..m
      <4>1. r[i] = q[i] /\ phase[q[i]] = "queue" /\ jn2[r[i]] = Joined(q[i])
        BY <1>9, <1>12, <2>1, <2>6, <3>4
      <4>2. JoinTimes[d] <= JoinTimes[q[i]]
        BY <1>8, <2>2, <3>2, <3>4, <4>1 DEF InTurn
      <4> QED
        BY <2>1, <2>3, <3>1, <3>2, <3>4, <4>1, <4>2
    <3> QED
      BY <2>4, <3>3, <3>4
  <2> QED
    BY <1>9, <2>5, <2>6 DEF InTurn
<1>14. HoldInv'
  <2>1. PICK ph, os : ph = phase' /\ os = orderState'
    OBVIOUS
  <2>2. Line(staff, Grant(u, r).users, Grant(u, r).queue, ph, os)
    BY <1>9, <1>10, <2>1, GrantLine
  <2> QED
    BY <1>4, <1>7, <2>1, <2>2 DEF HoldInv, Moves, Fixed
<1>15. TurnInv'
  <2>1. PICK ph, os : ph = phase' /\ os = orderState'
    OBVIOUS
  <2>2. InTurn(Grant(u, r).users, Grant(u, r).queue, ph, jn2)
    BY <1>9, <1>10, <1>13, <2>1, GrantTurns
  <2> QED
    BY <1>7, <1>11, <2>1, <2>2 DEF TurnInv
<1>16. PICK n \in 0..Len(r) : /\ Grant(u, r).queue \in Seq(Customers) /\ Len(Grant(u, r).queue) = Len(r) - n
                              /\ Grant(u, r).users \subseteq Customers
  BY <1>9, <1>10, GrantEffect DEF Line
<1>17. "queue" \in Phases /\ "waiting" \in OrderStates
  BY DEF Phases, OrderStates
<1>18. TypeOfMove'
  BY <1>0, <1>4, <1>17, MoveKeepsType
<1>19. maxQueue' \in Nat /\ Len(queue') <= maxQueue'
  <2>0. maxQueue \in Nat /\ Len(Grant(u, r).queue) \in Nat
    <3>1. PICK z \in Seq(Customers) : z = Grant(u, r).queue
      BY <1>16
    <3> QED
      BY <1>0, <3>1 DEF TypeInv
  <2>1. PICK a \in Int, b \in Int : a = maxQueue /\ b = Len(Grant(u, r).queue) /\ a \in Nat /\ b \in Nat
    BY <2>0
  <2>2. Max({a, b}) = IF a >= b THEN a ELSE b
    BY MaxTwo
  <2> QED
    BY <1>7, <2>1, <2>2
<1>20. TypeInv'
  BY <1>0, <1>7, <1>16, <1>18, <1>19 DEF TypeInv, TypeOfMove
<1>21. PhaseInv'
  <2> SUFFICES ASSUME NEW d \in Customers
               PROVE  /\ orderState'[d] \in OrderOf(phase'[d])
                      /\ phase'[d] # "left" => now' <= wake'[d]
                      /\ phase'[d] = "queue" => wake'[d] - demand'[d].patience <= now'
    BY DEF PhaseInv, Joined
  <2>1. /\ phase'[d] = (IF d = c THEN "queue" ELSE phase[d]) /\ wake'[d] = (IF d = c THEN w ELSE wake[d])
        /\ orderState'[d] = (IF d = c THEN "waiting" ELSE orderState[d]) /\ demand' = demand /\ now' = now
    BY <1>0, <1>4 DEF Moves, Fixed, TypeInv
  <2>2. CASE d = c
    <3>1. "waiting" \in OrderOf("queue")
      BY DEF OrderOf
    <3>2. w - demand[c].patience <= now
      BY <1>1, <1>2
    <3> QED
      BY <1>2, <2>1, <2>2, <3>1, <3>2
  <2>3. CASE d # c
    BY <1>0, <2>1, <2>3 DEF PhaseInv, Joined
  <2> QED
    BY <2>2, <2>3
<1>22. SeatInv'
  BY <1>0, <1>4, <1>7 DEF SeatInv, Moves, TypeInv
<1>23. Counted(c, "waiting")
  BY <1>0, <1>3, <1>7, <1>19 DEF Counted, TypeInv
<1>24. CountInv'
  BY <1>0, <1>4, <1>23, CountKept
<1>25. WorkInv'
  BY <1>0, <1>4, <1>7, <1>17, WorkKept
<1>26. SitInv'
  <2>1. seated' = seated \ {c}
    BY <1>0, <1>7
  <2> QED
    BY <1>0, <1>4, <1>7, <1>17, <2>1, SitKept
<1>27. ChoiceInv'
  BY <1>0, <1>4 DEF ChoiceInv, Moves, Fixed, Recommendation, Meets
<1> QED
  BY <1>14, <1>15, <1>20, <1>21, <1>22, <1>24, <1>25, <1>26, <1>27 DEF IInv
-----------------------------------------------------------------------------
(* The clock, and the runs that follow each other *)

LEMMA TickKeeps == ASSUME IInv, Tick PROVE IInv'
<1>0. /\ TypeInv /\ PhaseInv /\ HoldInv /\ TurnInv /\ SeatInv /\ CountInv /\ WorkInv /\ SitInv /\ ChoiceInv
  BY DEF IInv
<1>1. /\ now' = now + 1 /\ now < Duration /\ demand' = demand /\ staff' = staff
      /\ phase' = phase /\ wake' = wake /\ orderState' = orderState /\ users' = users /\ queue' = queue /\ seated' = seated
      /\ completed' = completed /\ abandoned' = abandoned /\ maxQueue' = maxQueue /\ waits' = waits
      /\ busy' = busy /\ seatBusy' = seatBusy /\ options' = options /\ recommended' = recommended
  BY DEF Tick, run, counters
<1>2. served' = <<served[1] + Cardinality(Worked), served[2] + Cardinality(seated)>>
  BY DEF Tick, Worked
<1>3. \A c \in Customers : phase[c] = "left" \/ now < wake[c]
  BY <1>0 DEF Tick, Idle, TypeInv
<1>4. now \in Nat /\ staff \in Nat /\ served[1] \in Nat /\ served[2] \in Nat /\ served \in Nat \X Nat
  BY <1>0, Numbers DEF TypeInv
<1>5. \A c \in Customers : wake[c] \in Nat /\ demand[c].patience \in Nat /\ demand[c].service \in Nat
  BY <1>0, DemandNumbers DEF TypeInv
<1>6. PICK W \in SUBSET Customers : W = Worked
  BY DEF Worked
<1>7. Cardinality(W) \in Nat /\ Cardinality(W) <= staff
  <2>1. W \subseteq users /\ users \subseteq Customers
    BY <1>0, <1>6 DEF Worked, HoldInv, Line, TypeInv
  <2>2. IsFiniteSet(users) /\ IsFiniteSet(W)
    BY <2>1, Numbers, FS_Subset
  <2>3. Cardinality(W) <= Cardinality(users) /\ Cardinality(W) \in Nat /\ Cardinality(users) \in Nat
    BY <2>1, <2>2, FS_Subset, FS_CardinalityType
  <2> QED
    BY <1>0, <1>4, <2>3 DEF HoldInv, Line
<1>8. Cardinality(seated) \in Nat /\ Cardinality(seated) <= SeatCount /\ seated \in SUBSET Customers
  BY <1>0, Numbers, FS_Subset, FS_CardinalityType DEF SeatInv, TypeInv
<1>9. TypeInv'
  <2>1. now' \in 0..Duration
    BY <1>1, <1>4, Numbers
  <2>2. served' \in Nat \X Nat
    BY <1>2, <1>4, <1>6, <1>7, <1>8
  <2> QED
    BY <1>0, <1>1, <2>1, <2>2 DEF TypeInv
<1>10. PhaseInv'
  <2> SUFFICES ASSUME NEW c \in Customers
               PROVE  /\ orderState'[c] \in OrderOf(phase'[c])
                      /\ phase'[c] # "left" => now' <= wake'[c]
                      /\ phase'[c] = "queue" => wake'[c] - demand'[c].patience <= now'
    BY DEF PhaseInv, Joined
  <2>1. now < wake[c] => now + 1 <= wake[c]
    BY <1>4, <1>5
  <2>2. wake[c] - demand[c].patience <= now => wake[c] - demand[c].patience <= now + 1
    BY <1>4, <1>5
  <2> QED
    BY <1>0, <1>1, <1>3, <2>1, <2>2 DEF PhaseInv, Joined
<1>11. HoldInv' /\ TurnInv' /\ SeatInv' /\ CountInv'
  <2>1. JoinTimes' = JoinTimes
    BY <1>1 DEF JoinTimes, Joined
  <2> QED
    BY <1>0, <1>1, <2>1 DEF HoldInv, TurnInv, SeatInv, CountInv, InStatus
<1>12. WorkInv'
  <2>1. PICK e : e = [c \in Customers |-> WorkEnd(c)]
    OBVIOUS
  <2>2. \A c \in W : e[c] \in Int /\ now < e[c]
    <3>1. ASSUME NEW c \in Customers, c \in W PROVE WorkEnd(c) \in Int /\ now < WorkEnd(c)
      <4>1. now < wake[c] /\ wake[c] \in Nat /\ demand[c].service \in Nat
        BY <1>3, <1>5, <1>6, <3>1 DEF Worked
      <4> QED
        BY <1>4, <4>1, Numbers DEF WorkEnd
    <3> QED
      BY <2>1, <3>1
  <2>3. Cardinality(Ahead(W, e, now)) = Cardinality(W) + Cardinality(Ahead(W, e, now + 1))
    BY <1>1, <1>4, <2>2, AheadTicks
  <2>4. WorkAhead = Ahead(W, e, now)
    BY <1>6, <2>1 DEF WorkAhead
  <2>5. WorkAhead' = Ahead(W, e, now + 1)
    BY <1>1, <1>6, <2>1 DEF WorkAhead, Ahead, Worked, WorkEnd
  <2>6. Cardinality(Ahead(W, e, now + 1)) \in Nat
    BY AheadIsFinite
  <2>7. busy' = served'[1] + Cardinality(WorkAhead')
    BY <1>0, <1>1, <1>2, <1>4, <1>6, <1>7, <2>3, <2>4, <2>5, <2>6 DEF WorkInv
  <2>8. served'[1] <= staff' * now'
    <3>1. served[1] <= staff * now /\ staff * (now + 1) = staff * now + staff /\ staff * now \in Nat
      BY <1>0, <1>4 DEF WorkInv
    <3> QED
      BY <1>1, <1>2, <1>4, <1>6, <1>7, <3>1
  <2> QED
    BY <2>7, <2>8 DEF WorkInv
<1>13. SitInv'
  <2>1. \A c \in seated : wake[c] \in Int /\ now < wake[c]
    BY <1>0, <1>3, <1>5 DEF SeatInv, TypeInv
  <2>2. Cardinality(Ahead(seated, wake, now)) = Cardinality(seated) + Cardinality(Ahead(seated, wake, now + 1))
    BY <1>1, <1>4, <1>8, <2>1, AheadTicks
  <2>3. SitAhead = Ahead(seated, wake, now)
    BY DEF SitAhead
  <2>4. SitAhead' = Ahead(seated, wake, now + 1)
    BY <1>1 DEF SitAhead, Ahead
  <2>5. Cardinality(Ahead(seated, wake, now + 1)) \in Nat
    BY AheadIsFinite
  <2>6. seatBusy' = served'[2] + Cardinality(SitAhead')
    BY <1>0, <1>1, <1>2, <1>4, <1>8, <2>2, <2>3, <2>4, <2>5 DEF SitInv
  <2>7. served'[2] <= SeatCount * now'
    <3>1. served[2] <= SeatCount * now /\ SeatCount * (now + 1) = SeatCount * now + SeatCount /\ SeatCount * now \in Nat
      BY <1>0, <1>4, Numbers DEF SitInv
    <3> QED
      BY <1>1, <1>2, <1>4, <1>8, <3>1, Numbers
  <2> QED
    BY <2>6, <2>7 DEF SitInv
<1>14. ChoiceInv'
  BY <1>0, <1>1, <1>4, Numbers DEF ChoiceInv, Recommendation, Meets
<1> QED
  BY <1>9, <1>10, <1>11, <1>12, <1>13, <1>14 DEF IInv

\* The state a run begins in is sound.
FreshRun ==
  /\ demand \in Persons /\ staff \in 1..MaxStaff /\ now = 0
  /\ phase = [c \in Customers |-> "coming"]
  /\ wake = [c \in Customers |-> demand[c].arrival]
  /\ orderState = [c \in Customers |-> "none"]
  /\ users = {} /\ queue = <<>> /\ seated = {}
  /\ completed = 0 /\ abandoned = 0 /\ maxQueue = 0 /\ waits = <<0, 0>>
  /\ busy = 0 /\ seatBusy = 0 /\ served = <<0, 0>>
  /\ options \in Seq(Option) /\ recommended \in 0..MaxStaff

LEMMA FreshIsSound ==
  FreshRun => TypeInv /\ PhaseInv /\ HoldInv /\ TurnInv /\ SeatInv /\ CountInv /\ WorkInv /\ SitInv
<1> SUFFICES ASSUME FreshRun PROVE TypeInv /\ PhaseInv /\ HoldInv /\ TurnInv /\ SeatInv /\ CountInv /\ WorkInv /\ SitInv
  OBVIOUS
<1>1. \A c \in Customers : demand[c].arrival \in Nat /\ demand[c].patience \in Nat
  BY DemandNumbers DEF FreshRun
<1>2. TypeInv
  <2>1. 0 \in 0..Duration
    BY Numbers
  <2>2. phase \in [Customers -> Phases] /\ orderState \in [Customers -> OrderStates]
    BY DEF FreshRun, Phases, OrderStates
  <2>3. wake \in [Customers -> Nat]
    BY <1>1 DEF FreshRun
  <2>4. queue \in Seq(Customers) /\ waits \in Int \X Nat /\ served \in Nat \X Nat
    BY DEF FreshRun
  <2> QED
    BY <2>1, <2>2, <2>3, <2>4 DEF TypeInv, FreshRun
<1>3. PhaseInv
  <2>1. ASSUME NEW c \in Customers
        PROVE  orderState[c] \in OrderOf(phase[c]) /\ now <= wake[c] /\ phase[c] # "queue"
    <3>1. phase[c] = "coming" /\ orderState[c] = "none" /\ wake[c] = demand[c].arrival /\ now = 0
      BY DEF FreshRun
    <3> QED
      BY <1>1, <3>1 DEF OrderOf
  <2> QED
    BY <2>1 DEF PhaseInv
<1>4. Len(queue) = 0 /\ \A i \in 1..Len(queue) : FALSE
  BY DEF FreshRun
<1>5. HoldInv
  <2>1. staff \in Nat /\ Cardinality(users) = 0
    BY FS_EmptySet, Numbers DEF FreshRun
  <2>2. Cardinality(users) <= staff
    BY <2>1
  <2>3. \A c \in Customers : phase[c] = "coming" /\ ~ In(c, queue)
    BY <1>4 DEF FreshRun, In
  <2>4. users = {}
    BY DEF FreshRun
  <2> QED
    BY <1>4, <2>2, <2>3, <2>4 DEF HoldInv, Line, Distinct
<1>6. TurnInv
  BY <1>4 DEF TurnInv, InTurn, FreshRun
<1>7. SeatInv
  BY FS_EmptySet, Numbers DEF SeatInv, FreshRun
<1>8. CountInv
  <2>1. InStatus({"completed"}) = {} /\ InStatus({"abandoned"}) = {} /\ InStatus({"preparing", "ready", "completed"}) = {}
    BY DEF InStatus, FreshRun
  <2>2. completed = 0 /\ abandoned = 0 /\ waits[2] = 0 /\ maxQueue = 0
    BY DEF FreshRun
  <2>3. Cardinality({}) = 0
    BY FS_EmptySet
  <2>4. /\ completed = Cardinality(InStatus({"completed"})) /\ abandoned = Cardinality(InStatus({"abandoned"}))
        /\ waits[2] = Cardinality(InStatus({"preparing", "ready", "completed"}))
    BY <2>1, <2>2, <2>3
  <2>5. Len(queue) <= maxQueue
    BY <1>4, <2>2
  <2> QED
    BY <2>4, <2>5 DEF CountInv
<1>9. WorkInv
  <2>1. WorkAhead = {}
    BY DEF WorkAhead, Ahead, Worked, FreshRun
  <2>2. busy = 0 /\ served[1] = 0 /\ now = 0 /\ staff \in Nat
    BY Numbers DEF FreshRun
  <2> QED
    BY <2>1, <2>2, FS_EmptySet DEF WorkInv
<1>10. SitInv
  <2>1. SitAhead = {}
    BY DEF SitAhead, Ahead, FreshRun
  <2>2. seatBusy = 0 /\ served[2] = 0 /\ now = 0
    BY DEF FreshRun
  <2> QED
    BY <2>1, <2>2, FS_EmptySet, Numbers DEF SitInv
<1> QED
  BY <1>2, <1>3, <1>5, <1>6, <1>7, <1>8, <1>9, <1>10

\* The recommended number is the least that meets the targets, or the last.
LEMMA LeastChosen ==
  ASSUME NEW opts, NEW n \in Nat, n > 0, DOMAIN opts = 1..n, Len(opts) = n
  PROVE  /\ Recommendation(opts) \in 1..n
         /\ \A k \in 1..Recommendation(opts)-1 : ~ Meets(opts, k)
         /\ Meets(opts, Recommendation(opts)) \/ \A k \in 1..n : ~ Meets(opts, k)
<1>1. PICK good : good = {k \in DOMAIN opts : Meets(opts, k)}
  OBVIOUS
<1>2. PICK x : x = Recommendation(opts)
  OBVIOUS
<1>3. CASE good = {}
  <2>1. x = n
    BY <1>1, <1>2, <1>3 DEF Recommendation
  <2> QED
    BY <1>1, <1>2, <1>3, <2>1
<1>4. CASE good # {}
  <2>1. x = CHOOSE k \in good : \A j \in good : k <= j
    BY <1>1, <1>2, <1>4 DEF Recommendation
  <2>2. good \subseteq 1..n /\ good \subseteq Nat
    BY <1>1
  <2>3. PICK k \in good : \A j \in good : ~ (<<j, k>> \in OpToRel(<, Nat))
    BY <1>4, <2>2, NatLessThanWellFounded, WFMin
  <2>4. \A j \in good : ~ (j < k)
    BY <2>2, <2>3 DEF OpToRel
  <2>5. \A j \in good : k <= j
    <3>1. \A a, b \in Nat : ~ (a < b) => b <= a
      OBVIOUS
    <3>2. k \in Nat /\ \A j \in good : j \in Nat
      BY <2>2, <2>3
    <3> QED
      BY <2>4, <3>1, <3>2
  <2>6. x \in good /\ \A j \in good : x <= j
    BY <2>1, <2>3, <2>5
  <2>7. \A j \in 1..x-1 : ~ Meets(opts, j)
    BY <1>1, <2>2, <2>6
  <2> QED
    BY <1>1, <1>2, <2>2, <2>6, <2>7
<1> QED
  BY <1>3, <1>4

LEMMA EndRunKeeps == ASSUME IInv, EndRun PROVE IInv'
<1>0. /\ TypeInv /\ PhaseInv /\ HoldInv /\ TurnInv /\ SeatInv /\ CountInv /\ WorkInv /\ SitInv /\ ChoiceInv
  BY DEF IInv
<1>1. PICK x : x = [metrics |-> Metrics, unmet |-> Unmet(Metrics, staff)]
  OBVIOUS
<1>2. PICK opts : opts = Append(options, x)
  OBVIOUS
<1>3. recommended = 0 /\ now = Duration /\ options' = opts /\ demand' = demand
  BY <1>1, <1>2 DEF EndRun
<1>4. x \in Option
  <2>1. \A S \in SUBSET Customers : Cardinality(S) \in Nat
    BY Numbers, FS_Subset, FS_CardinalityType
  <2>2. Cardinality(Customers) \in Nat /\ Cardinality(InStatus({"waiting", "preparing", "ready"})) \in Nat
    BY <2>1 DEF InStatus
  <2>3. Metrics \in Figures
    BY <1>0, <2>2 DEF Metrics, Figures, TypeInv, InStatus
  <2>4. Unmet(Metrics, staff) \in SUBSET {"wait", "abandonment", "utilization"}
    BY DEF Unmet
  <2> QED
    BY <1>1, <2>3, <2>4 DEF Option
<1>5. staff \in 1..MaxStaff /\ staff \in Nat /\ Len(options) = staff - 1 /\ options \in Seq(Option)
  BY <1>0, <1>3, Numbers DEF TypeInv, ChoiceInv
<1>6. opts \in Seq(Option) /\ Len(opts) = staff /\ DOMAIN opts = 1..staff
  <2>1. opts \in Seq(Option) /\ Len(opts) = Len(options) + 1
    BY <1>2, <1>4, <1>5, AppendProperties
  <2>2. DOMAIN opts = 1..Len(opts)
    BY <2>1, LenProperties
  <2>3. Len(opts) = staff
    BY <1>5, <2>1
  <2> QED
    BY <2>1, <2>2, <2>3
<1>7. CASE staff < MaxStaff
  <2>1. StartRun(staff + 1) /\ recommended' = recommended
    BY <1>7 DEF EndRun
  <2>2. staff + 1 \in 1..MaxStaff
    BY <1>5, <1>7, Numbers
  <2>3. FreshRun'
    <3>1. demand' \in Persons /\ staff' \in 1..MaxStaff /\ now' = 0 /\ options' \in Seq(Option) /\ recommended' \in 0..MaxStaff
      BY <1>0, <1>3, <1>6, <2>1, <2>2 DEF TypeInv, StartRun
    <3> QED
      BY <1>3, <2>1, <3>1 DEF FreshRun, StartRun
  <2>4. TypeInv' /\ PhaseInv' /\ HoldInv' /\ TurnInv' /\ SeatInv' /\ CountInv' /\ WorkInv' /\ SitInv'
    BY <2>3, FreshIsSound, PTL
  <2>5. ChoiceInv'
    <3>1. staff' = staff + 1 /\ Len(options') = staff /\ recommended' = 0
      BY <1>3, <1>6, <2>1 DEF StartRun
    <3> QED
      BY <1>5, <3>1 DEF ChoiceInv
  <2> QED
    BY <2>4, <2>5 DEF IInv
<1>8. CASE ~ (staff < MaxStaff)
  <2>1. staff = MaxStaff
    BY <1>5, <1>8, Numbers
  <2>2. recommended' = Recommendation(opts)
    BY <1>1, <1>2, <1>8 DEF EndRun
  <2>3. Recommendation(opts) \in 1..staff
    BY <1>5, <1>6, LeastChosen
  <2>4. /\ phase' = phase /\ wake' = wake /\ orderState' = orderState /\ seated' = seated
        /\ staff' = staff /\ now' = now /\ served' = served /\ users' = users /\ queue' = queue
        /\ completed' = completed /\ abandoned' = abandoned /\ maxQueue' = maxQueue /\ waits' = waits
        /\ busy' = busy /\ seatBusy' = seatBusy
    BY <1>8 DEF EndRun, run, counters
  <2>5. TypeInv'
    BY <1>0, <1>3, <1>6, <2>1, <2>2, <2>3, <2>4, Numbers DEF TypeInv
  <2>6. PhaseInv' /\ HoldInv' /\ SeatInv' /\ CountInv'
    BY <1>0, <1>3, <2>4 DEF PhaseInv, Joined, HoldInv, SeatInv, CountInv, InStatus
  <2>7. TurnInv'
    <3>1. JoinTimes' = JoinTimes
      BY <1>3, <2>4 DEF JoinTimes, Joined
    <3> QED
      BY <1>0, <2>4, <3>1 DEF TurnInv
  <2>8. WorkInv'
    <3>1. WorkAhead' = WorkAhead
      BY <1>3, <2>4 DEF WorkAhead, Ahead, Worked, WorkEnd
    <3> QED
      BY <1>0, <2>4, <3>1 DEF WorkInv
  <2>9. SitInv'
    <3>1. SitAhead' = SitAhead
      BY <2>4 DEF SitAhead, Ahead
    <3> QED
      BY <1>0, <2>4, <3>1 DEF SitInv
  <2>10. ChoiceInv'
    <3>1. recommended' # 0 /\ Len(options') = MaxStaff /\ staff' = MaxStaff /\ now' = Duration
      BY <1>3, <1>6, <2>1, <2>2, <2>3, <2>4
    <3>2. recommended' = Recommendation(options')
      BY <1>3, <2>2
    <3>3. Recommendation(options)' = Recommendation(options')
      BY DEF Recommendation, Meets
    <3> QED
      BY <3>1, <3>2, <3>3 DEF ChoiceInv
  <2> QED
    BY <2>5, <2>6, <2>7, <2>8, <2>9, <2>10 DEF IInv
<1> QED
  BY <1>7, <1>8
-----------------------------------------------------------------------------
(* The theorems *)

LEMMA InitKeeps == Init => IInv
<1> SUFFICES ASSUME Init PROVE IInv
  OBVIOUS
<1>1. demand \in Persons
  <2>1. PICK p \in Profiles \cup {DefaultProfile(FallbackRate)} : demand \in Demands(p)
    BY DEF Init
  <2> QED
    BY <2>1 DEF Demands, Persons
<1>2. FreshRun
  <2>1. 1 \in 1..MaxStaff /\ 0 \in 0..MaxStaff
    BY Numbers
  <2>2. <<>> \in Seq(Option)
    OBVIOUS
  <2> QED
    BY <1>1, <2>1, <2>2 DEF Init, FreshRun
<1>3. ChoiceInv
  BY DEF Init, ChoiceInv
<1> QED
  BY <1>2, <1>3, FreshIsSound DEF IInv

LEMMA NextKeeps == IInv /\ [Next]_vars => IInv'
<1> SUFFICES ASSUME IInv, [Next]_vars PROVE IInv'
  OBVIOUS
<1>1. ASSUME NEW c \in Customers,
             \/ Enter(c) \/ Queue(c) \/ Serve(c) \/ Abandon(c) \/ EndOrdering(c)
             \/ EndMaking(c) \/ Complete(c) \/ StandUp(c) \/ Exit(c)
      PROVE  IInv'
  BY <1>1, EnterKeeps, QueueKeeps, ServeKeeps, AbandonKeeps, EndOrderingKeeps, EndMakingKeeps,
     CompleteKeeps, StandUpKeeps, ExitKeeps
<1>2. CASE TakeUp
  BY <1>2, TakeUpKeeps
<1>3. CASE Tick
  BY <1>3, TickKeeps
<1>4. CASE EndRun
  BY <1>4, EndRunKeeps
<1>5. CASE UNCHANGED vars
  <2>1. TypeInv' /\ PhaseInv' /\ HoldInv' /\ SeatInv' /\ CountInv' /\ ChoiceInv'
    BY <1>5 DEF IInv, vars, run, counters, TypeInv, PhaseInv, Joined, HoldInv, SeatInv, CountInv, InStatus, ChoiceInv,
                Recommendation, Meets
  <2>2. TurnInv'
    <3>1. JoinTimes' = JoinTimes
      BY <1>5 DEF vars, run, JoinTimes, Joined
    <3> QED
      BY <1>5, <3>1 DEF IInv, vars, run, TurnInv
  <2>3. WorkInv'
    <3>1. WorkAhead' = WorkAhead
      BY <1>5 DEF vars, run, WorkAhead, Ahead, Worked, WorkEnd
    <3> QED
      BY <1>5, <3>1 DEF IInv, vars, run, counters, WorkInv
  <2>4. SitInv'
    <3>1. SitAhead' = SitAhead
      BY <1>5 DEF vars, run, SitAhead, Ahead
    <3> QED
      BY <1>5, <3>1 DEF IInv, vars, run, counters, SitInv
  <2> QED
    BY <2>1, <2>2, <2>3, <2>4 DEF IInv
<1> QED
  BY <1>1, <1>2, <1>3, <1>4, <1>5 DEF Next

\* Every variable keeps to its type: in particular the clock stays within the run and the
\* queue holds customers.
THEOREM TypeCorrect == Spec => []TypeInv
<1>1. IInv => TypeInv
  BY DEF IInv
<1> QED
  BY InitKeeps, NextKeeps, <1>1, PTL DEF Spec

\* Staff and seats are never overbooked, and only those hold one who should.
LEMMA SoundStaff == IInv => StaffAccounted
<1> SUFFICES ASSUME IInv PROVE StaffAccounted
  OBVIOUS
<1>0. TypeInv /\ PhaseInv /\ HoldInv /\ SeatInv
  BY DEF IInv
<1>1. DOMAIN queue = 1..Len(queue)
  BY <1>0, LenProperties DEF TypeInv
<1>2. Cardinality(users) <= staff /\ Cardinality(seated) <= SeatCount
  BY <1>0 DEF HoldInv, Line, SeatInv
<1>3. ASSUME NEW c \in Customers
      PROVE  /\ phase[c] \in {"ordering", "making"} => c \in users
             /\ c \in users \/ In(c, queue) =>
                  \/ phase[c] \in {"queue", "ordering", "making"}
                  \/ phase[c] = "exiting" /\ orderState[c] = "abandoned"
             /\ c \in seated <=> phase[c] = "seated"
  BY <1>0 DEF HoldInv, Line, GaveUp, SeatInv
<1> QED
  BY <1>1, <1>2, <1>3 DEF StaffAccounted, In

\* The customers by what has become of their order.
LEMMA OrdersPartition ==
  ASSUME orderState \in [Customers -> OrderStates]
  PROVE  Cardinality(InStatus({"completed"})) + Cardinality(InStatus({"abandoned"}))
           + Cardinality(InStatus({"waiting", "preparing", "ready"})) + Cardinality(InStatus({"none"}))
           = Cardinality(Customers)
<1>1. PICK A : A = InStatus({"completed"})
  OBVIOUS
<1>2. PICK B : B = InStatus({"abandoned"})
  OBVIOUS
<1>3. PICK C : C = InStatus({"waiting", "preparing", "ready"})
  OBVIOUS
<1>4. PICK D : D = InStatus({"none"})
  OBVIOUS
<1>5. /\ IsFiniteSet(A) /\ IsFiniteSet(B) /\ IsFiniteSet(C) /\ IsFiniteSet(D)
  BY <1>1, <1>2, <1>3, <1>4, Numbers, FS_Subset DEF InStatus
<1>6. PICK E : E = A \cup B
  OBVIOUS
<1>7. PICK F : F = C \cup D
  OBVIOUS
<1>8. A \cap B = {} /\ C \cap D = {} /\ E \cap F = {} /\ E \cup F = Customers
  <2>1. \A c \in Customers : orderState[c] \in OrderStates
    OBVIOUS
  <2> QED
    BY <1>1, <1>2, <1>3, <1>4, <1>6, <1>7, <2>1 DEF InStatus, OrderStates
<1>9. Cardinality({}) = 0
  BY FS_EmptySet
<1>10. /\ IsFiniteSet(E) /\ Cardinality(E) = Cardinality(A) + Cardinality(B) - Cardinality({})
       /\ IsFiniteSet(F) /\ Cardinality(F) = Cardinality(C) + Cardinality(D) - Cardinality({})
  <2>1. IsFiniteSet(A \cup B) /\ Cardinality(A \cup B) = Cardinality(A) + Cardinality(B) - Cardinality(A \cap B)
    BY <1>5, FS_Union
  <2>2. IsFiniteSet(C \cup D) /\ Cardinality(C \cup D) = Cardinality(C) + Cardinality(D) - Cardinality(C \cap D)
    BY <1>5, FS_Union
  <2> QED
    BY <1>6, <1>7, <1>8, <2>1, <2>2
<1>11. Cardinality(Customers) = Cardinality(E) + Cardinality(F) - Cardinality({})
  BY <1>8, <1>10, FS_Union
<1>12. /\ Cardinality(A) \in Nat /\ Cardinality(B) \in Nat /\ Cardinality(C) \in Nat /\ Cardinality(D) \in Nat
  BY <1>5, FS_CardinalityType
<1> QED
  BY <1>1, <1>2, <1>3, <1>4, <1>9, <1>10, <1>11, <1>12

\* What is charged never exceeds what the staff, or the seats, could give.
LEMMA ChargedWithin ==
  ASSUME NEW k \in Nat, NEW W \in SUBSET Customers, Cardinality(W) <= k, NEW e, NEW s \in Nat,
         now \in 0..Duration, s <= k * now
  PROVE  s + Cardinality(Ahead(W, e, now)) <= k * Duration
<1>1. PICK n \in Nat, d \in Nat : n = now /\ d = Duration - now /\ Duration = n + d
  BY Numbers
<1>2. Cardinality(Ahead(W, e, n)) <= k * (Duration - n)
  BY <1>1, Numbers, AheadBound
<1>3. k * (n + d) = k * n + k * d
  BY <1>1
<1>4. Cardinality(Ahead(W, e, n)) \in Nat /\ k * n \in Nat /\ k * d \in Nat
  BY <1>1, AheadIsFinite
<1> QED
  BY <1>1, <1>2, <1>3, <1>4

LEMMA ExactKpis == IInv => KpisAreExact
<1> SUFFICES ASSUME IInv PROVE KpisAreExact
  OBVIOUS
<1>0. TypeInv /\ PhaseInv /\ HoldInv /\ SeatInv /\ CountInv /\ WorkInv /\ SitInv
  BY DEF IInv
<1>1. \A x : StatusCount(x) = Cardinality(InStatus({x}))
  BY DEF StatusCount, InStatus
<1>2. Frame.completed = Frame.status["completed"]
  <2>1. Frame.completed = completed /\ Frame.status["completed"] = StatusCount("completed")
    BY DEF Frame
  <2> QED
    BY <1>0, <1>1, <2>1 DEF CountInv
<1>3. Frame.abandoned = Frame.status["abandoned"]
  <2>1. Frame.abandoned = abandoned /\ Frame.status["abandoned"] = StatusCount("abandoned")
    BY DEF Frame
  <2> QED
    BY <1>0, <1>1, <2>1 DEF CountInv
<1>4. Frame.queue = Frame.status["waiting"]
  <2>1. Frame.queue = Showing("queue") /\ Frame.status["waiting"] = StatusCount("waiting")
    BY DEF Frame
  <2>2. {c \in Active : AgentState(c) = "queue"} = {c \in Customers : orderState[c] = "waiting"}
    <3>1. ASSUME NEW c \in Customers PROVE (c \in Active /\ AgentState(c) = "queue") <=> orderState[c] = "waiting"
      <4>1. phase[c] \in Phases /\ orderState[c] \in OrderOf(phase[c])
        BY <1>0 DEF TypeInv, PhaseInv
      <4>2. (c \in Active /\ AgentState(c) = "queue") <=> phase[c] = "queue"
        BY DEF Active, AgentState
      <4>3. orderState[c] = "waiting" <=> phase[c] = "queue"
        BY <4>1 DEF OrderOf, Phases
      <4> QED
        BY <4>2, <4>3
    <3>2. Active \subseteq Customers
      BY DEF Active
    <3> QED
      BY <3>1, <3>2
  <2> QED
    BY <2>1, <2>2 DEF Showing, StatusCount
<1>5. Len(queue) <= maxQueue
  BY <1>0 DEF CountInv
<1>6. waits[2] = Cardinality({c \in Customers : orderState[c] \in {"preparing", "ready", "completed"}})
  BY <1>0 DEF CountInv, InStatus
<1>7. Metrics.completed + Metrics.abandoned + Metrics.inProgress + StatusCount("none") = Metrics.visitors
  <2>1. /\ Metrics.completed = completed /\ Metrics.abandoned = abandoned /\ Metrics.visitors = Cardinality(Customers)
        /\ Metrics.inProgress = Cardinality(InStatus({"waiting", "preparing", "ready"}))
    BY DEF Metrics, InStatus
  <2>2. orderState \in [Customers -> OrderStates]
    BY <1>0 DEF TypeInv
  <2> QED
    BY <1>0, <1>1, <2>1, <2>2, OrdersPartition DEF CountInv
<1>8. PICK W \in SUBSET Customers : W = Worked
  BY DEF Worked
<1>e. PICK e : e = [c \in Customers |-> WorkEnd(c)]
  OBVIOUS
<1>9. /\ busy = served[1] + Cardinality(Ahead(W, e, now)) /\ seatBusy = served[2] + Cardinality(Ahead(seated, wake, now))
      /\ served[1] \in Nat /\ served[2] \in Nat /\ served[1] <= staff * now /\ served[2] <= SeatCount * now
      /\ served \in Nat \X Nat
  BY <1>0, <1>8, <1>e DEF WorkInv, SitInv, WorkAhead, SitAhead, TypeInv
<1>10. Cardinality(Ahead(W, e, now)) \in Nat /\ Cardinality(Ahead(seated, wake, now)) \in Nat
  BY AheadIsFinite
<1>11. served[1] <= busy /\ served[2] <= seatBusy
  BY <1>9, <1>10
<1>12. now = Duration => <<busy, seatBusy>> = served
  <2> SUFFICES ASSUME now = Duration PROVE <<busy, seatBusy>> = served
    OBVIOUS
  <2>1. Cardinality(Ahead(W, e, now)) = 0 /\ Cardinality(Ahead(seated, wake, now)) = 0
    BY AheadAtEnd
  <2>2. busy = served[1] /\ seatBusy = served[2]
    BY <1>9, <2>1
  <2> QED
    BY <1>9, <2>2
<1>13. Cardinality(W) <= staff /\ staff \in Nat
  <2>1. W \subseteq users /\ users \subseteq Customers
    BY <1>0, <1>8 DEF Worked, HoldInv, Line, TypeInv
  <2>2. IsFiniteSet(users) /\ IsFiniteSet(W)
    BY <2>1, Numbers, FS_Subset
  <2>3. Cardinality(W) <= Cardinality(users) /\ Cardinality(W) \in Nat /\ Cardinality(users) \in Nat
    BY <2>1, <2>2, FS_Subset, FS_CardinalityType
  <2>4. staff \in Nat /\ Cardinality(users) <= staff
    BY <1>0, Numbers DEF HoldInv, Line, TypeInv
  <2> QED
    BY <2>3, <2>4
<1>14. now \in 0..Duration /\ seated \in SUBSET Customers /\ Cardinality(seated) <= SeatCount /\ SeatCount \in Nat
  BY <1>0, Numbers DEF TypeInv, SeatInv
<1>15. busy <= staff * Duration
  BY <1>9, <1>13, <1>14, ChargedWithin
<1>16. seatBusy <= SeatCount * Duration
  BY <1>9, <1>14, ChargedWithin
<1> QED
  BY <1>2, <1>3, <1>4, <1>5, <1>6, <1>7, <1>11, <1>12, <1>15, <1>16 DEF KpisAreExact

\* A run is sound at every instant: no member of staff and no seat is taken twice, each held by
\* a customer who should hold it, and every figure of the run is what happened in it.
THEOREM RunsAreSound == Spec => []RunIsSound
<1>1. IInv => RunIsSound
  BY SoundStaff, ExactKpis DEF RunIsSound
<1> QED
  BY InitKeeps, NextKeeps, <1>1, PTL DEF Spec

\* Nobody is served while one who queued earlier still waits and has not been called.
LEMMA ServedInTurn ==
  ASSUME IInv, [Next]_vars, NEW c \in Customers, NEW d \in Customers,
         phase[c] = "queue", phase'[c] = "ordering", phase[d] = "queue", Joined(d) < Joined(c)
  PROVE  d \in users
<1>0. TypeInv /\ HoldInv /\ TurnInv
  BY DEF IInv
<1>1. c \in users
  <2>1. ASSUME NEW b \in Customers, NEW t, phase' = [phase EXCEPT ![b] = t], t # "ordering" PROVE FALSE
    BY <1>0, <2>1 DEF TypeInv
  <2>2. ASSUME phase' = phase PROVE FALSE
    BY <2>2
  <2>3. ASSUME phase' = [x \in Customers |-> "coming"] PROVE FALSE
    BY <2>3
  <2>4. ASSUME NEW b \in Customers, Serve(b) PROVE c \in users
    <3>1. phase' = [phase EXCEPT ![b] = "ordering"] /\ b \in users
      BY <2>4 DEF Serve, Goes
    <3> QED
      BY <1>0, <3>1 DEF TypeInv
  <2>5. ASSUME NEW b \in Customers,
               Enter(b) \/ Queue(b) \/ Abandon(b) \/ EndOrdering(b) \/ EndMaking(b) \/ Complete(b) \/ StandUp(b) \/ Exit(b)
        PROVE  FALSE
    <3>1. \E t : phase' = [phase EXCEPT ![b] = t] /\ t # "ordering"
      BY <2>5, ZenonT(30) DEF Enter, Queue, Abandon, EndOrdering, EndMaking, Complete, StandUp, Exit, Goes, Hands
    <3> QED
      BY <2>1, <3>1
  <2>6. ASSUME TakeUp \/ Tick \/ UNCHANGED vars PROVE FALSE
    BY <2>2, <2>6 DEF TakeUp, Tick, vars, run
  <2>7. ASSUME EndRun PROVE FALSE
    BY <2>2, <2>3, <2>7 DEF EndRun, StartRun, run
  <2> QED
    BY <2>4, <2>5, <2>6, <2>7 DEF Next
<1>2. CASE d \notin users
  <2>1. In(d, queue)
    BY <1>0, <1>2 DEF HoldInv, Line
  <2>2. PICK i \in 1..Len(queue) : queue[i] = d
    BY <2>1 DEF In
  <2>3. JoinTimes[c] <= JoinTimes[d]
    BY <1>0, <1>1, <2>2 DEF TurnInv, InTurn
  <2>4. Joined(c) <= Joined(d)
    BY <2>3 DEF JoinTimes
  <2>5. Joined(c) \in Int /\ Joined(d) \in Int
    <3>1. demand \in Persons /\ wake[c] \in Nat /\ wake[d] \in Nat
      BY <1>0 DEF TypeInv
    <3>2. demand[c].patience \in Nat /\ demand[d].patience \in Nat
      BY <3>1, DemandNumbers
    <3> QED
      BY <3>1, <3>2 DEF Joined
  <2> QED
    BY <2>4, <2>5
<1> QED
  BY <1>2

\* The queue is a queue: who is served has queued no later than anyone not yet called.
THEOREM FirstServed == Spec => FirstComeFirstServed
<1>1. IInv /\ [Next]_vars =>
        [\A c, d \in Customers :
          (/\ phase[c] = "queue" /\ phase'[c] = "ordering"
           /\ phase[d] = "queue" /\ Joined(d) < Joined(c)) => d \in users]_vars
  BY ServedInTurn
<1> QED
  BY InitKeeps, NextKeeps, <1>1, PTL DEF Spec, FirstComeFirstServed

\* The comparison recommends the least number of staff that meets the three targets, and the
\* last one only when none does.
THEOREM RecommendsLeast == Spec => []RecommendationIsLeast
<1>1. IInv => RecommendationIsLeast
  <2> SUFFICES ASSUME IInv, recommended # 0
               PROVE  /\ recommended \in 1..MaxStaff
                      /\ \A n \in 1..recommended-1 : ~ Meets(options, n)
                      /\ Meets(options, recommended) \/ \A n \in 1..MaxStaff : ~ Meets(options, n)
    BY DEF RecommendationIsLeast
  <2>1. Len(options) = MaxStaff /\ recommended = Recommendation(options)
    BY DEF IInv, ChoiceInv
  <2>2. DOMAIN options = 1..MaxStaff
    BY <2>1, LenProperties DEF IInv, TypeInv
  <2> QED
    BY <2>1, <2>2, Numbers, LeastChosen
<1> QED
  BY InitKeeps, NextKeeps, <1>1, PTL DEF Spec
\* The API's way and the agent's way to the number of staff, over the same options.
LEMMA OneChoice ==
  ASSUME NEW opts, NEW n \in Nat, n > 0, DOMAIN opts = 1..n, Len(opts) = n, NEW current \in 1..n
  PROVE  VerifiedAgrees(opts, Recommendation(opts), current)
<1>1. PICK good : good = {k \in DOMAIN opts : Meets(opts, k)}
  OBVIOUS
<1>2. PICK x : x = Recommendation(opts)
  OBVIOUS
<1>3. good = {k \in DOMAIN opts : opts[k].unmet = {}}
  BY <1>1 DEF Meets
<1>4. /\ x \in 1..n
      /\ \A k \in 1..x-1 : ~ Meets(opts, k)
      /\ Meets(opts, x) \/ \A k \in 1..n : ~ Meets(opts, k)
  BY <1>2, LeastChosen
<1>5. good \subseteq 1..n
  BY <1>1
<1>6. PICK v : v = VerifiedRecommendation(opts, current)
  OBVIOUS
<1>7. /\ v.selected = IF good # {} THEN Min(good) ELSE Max(DOMAIN opts)
      /\ v.sufficient = (good # {})
      /\ v.advice = "fewer" => good # {}
  <2>1. PICK s : s = IF good # {} THEN Min(good) ELSE Max(DOMAIN opts)
    OBVIOUS
  <2>2. /\ v.selected = s
        /\ v.sufficient = (good # {})
        /\ v.advice = CASE good = {} -> "insufficient"
                        [] good # {} /\ s > current -> "more"
                        [] good # {} /\ s < current -> "fewer"
                        [] OTHER -> "keep"
    BY ONLY <1>3, <1>6, <2>1 DEF VerifiedRecommendation
  <2>3. v.advice = "fewer" => good # {}
    BY ONLY <2>2
  <2> QED
    BY <2>1, <2>2, <2>3
<1>8. CASE good # {}
  <2>1. x \in good
    BY <1>1, <1>4, <1>5, <1>8
  <2>2. \A k \in good : x <= k
    BY <1>1, <1>4, <1>5
  <2>3. \A y \in good : (\A k \in good : y <= k) => y = x
    BY <1>4, <1>5, <2>1, <2>2
  <2>4. Min(good) = x
    BY <2>1, <2>2, <2>3 DEF Min
  <2>5. Meets(opts, x)
    BY <1>1, <2>1
  <2> QED
    BY <1>2, <1>6, <1>7, <1>8, <2>4, <2>5 DEF VerifiedAgrees
<1>9. CASE good = {}
  <2>1. x = n
    BY <1>1, <1>2, <1>9 DEF Recommendation
  <2>2. n \in 1..n /\ \A k \in 1..n : n >= k
    OBVIOUS
  <2>3. \A y \in 1..n : (\A k \in 1..n : y >= k) => y = n
    OBVIOUS
  <2>4. Max(1..n) = n
    BY <2>2, <2>3 DEF Max
  <2>5. ~ Meets(opts, x)
    BY <1>1, <1>4, <1>9
  <2> QED
    BY <1>2, <1>6, <1>7, <1>9, <2>1, <2>4, <2>5 DEF VerifiedAgrees
<1> QED
  BY <1>8, <1>9

\* Nobody who reads the comparison or the agent's report is told another number of staff.
THEOREM OneNumber == Spec => []OneNumberRecommended
<1>1. IInv /\ RecommendationIsLeast => OneNumberRecommended
  <2> SUFFICES ASSUME IInv, recommended # 0, NEW current \in 1..MaxStaff
               PROVE  VerifiedAgrees(options, recommended, current)
    BY DEF OneNumberRecommended
  <2>1. Len(options) = MaxStaff /\ recommended = Recommendation(options)
    BY DEF IInv, ChoiceInv
  <2>2. DOMAIN options = 1..MaxStaff
    BY <2>1, LenProperties DEF IInv, TypeInv
  <2> QED
    BY <2>1, <2>2, Numbers, OneChoice
<1> QED
  BY InitKeeps, NextKeeps, RecommendsLeast, <1>1, PTL DEF Spec

-----------------------------------------------------------------------------
(* Folds *)

\* The greatest of a set of numbers, as the folds of sequences take it.
LEMMA MaxIn ==
  ASSUME NEW n \in Nat, NEW s \in SUBSET (1..n), s # {}
  PROVE  Max(s) \in s /\ \A y \in s : y <= Max(s)
<1> DEFINE D == {d \in Nat : \E x \in s : d = n - x}
<1>1. D # {} /\ D \subseteq Nat
  <2>1. PICK x \in s : x \in 1..n
    OBVIOUS
  <2>2. n - x \in Nat
    BY <2>1
  <2>3. n - x \in D
    BY <2>1, <2>2
  <2> QED
    BY <2>3
<1>2. PICK d \in D : \A e \in D : ~ (<<e, d>> \in OpToRel(<, Nat))
  BY <1>1, NatLessThanWellFounded, WFMin
<1>3. PICK x \in s : d = n - x
  BY <1>2
<1>4. \A y \in s : ~ (n - y < d)
  <2> TAKE y \in s
  <2>1. n - y \in D
    BY DEF D
  <2> QED
    BY <1>1, <1>2, <2>1 DEF OpToRel
<1>5. \A y \in s : y <= x
  BY <1>3, <1>4
<1>6. \A y \in s : x >= y
  BY <1>5
<1>7. Max(s) \in s /\ \A y \in s : Max(s) >= y
  BY <1>3, <1>6 DEF Max
<1>8. \A a, b \in 1..n : a >= b => b <= a
  OBVIOUS
<1> QED
  BY <1>7, <1>8

\* What a fold over the places 1..n goes through, for a step that stays within A.
Folds(f, n, A, a, G) ==
  /\ f \in [SUBSET (1..n) -> A]
  /\ \A s \in SUBSET (1..n) : f[s] = IF s = {} THEN a ELSE G[<<f[s \ {Max(s)}], Max(s)>>]

\* There is such a run: a shortest prefix without one could be extended.
LEMMA FoldExists ==
  ASSUME NEW n \in Nat, NEW A, NEW a \in A, NEW G \in [A \X (1..n) -> A]
  PROVE  \E f : Folds(f, n, A, a, G)
<1> DEFINE Bad == {k \in 0..n : ~ \E f : Folds(f, k, A, a, G)}
<1> SUFFICES ASSUME Bad # {} PROVE FALSE
  OBVIOUS
<1>1. PICK k \in Bad : \A e \in Bad : ~ (<<e, k>> \in OpToRel(<, Nat))
  <2>1. Bad \subseteq Nat
    OBVIOUS
  <2> QED
    BY <2>1, NatLessThanWellFounded, WFMin
<1>2. k \in 0..n /\ \A e \in Bad : ~ (e < k)
  <2>1. k \in 0..n /\ Bad \subseteq 0..n
    BY <1>1
  <2>2. \A e \in Bad : ~ (<<e, k>> \in OpToRel(<, Nat))
    BY <1>1
  <2> HIDE DEF Bad
  <2>3. \A e \in Bad : e \in Nat /\ k \in Nat
    BY <2>1
  <2> QED
    BY <2>1, <2>2, <2>3 DEF OpToRel
<1>3. ~ \E f : Folds(f, k, A, a, G)
  BY <1>1
<1>4. CASE k = 0
  <2> DEFINE f == [s \in SUBSET (1..k) |-> a]
  <2>1. \A s \in SUBSET (1..k) : s = {}
    BY <1>4
  <2>2. Folds(f, k, A, a, G)
    BY <2>1 DEF Folds
  <2> QED
    BY <1>3, <2>2
<1>5. CASE k # 0
  <2>1. k - 1 \in 0..n /\ k - 1 \notin Bad /\ k \in 1..n
    BY <1>2, <1>5
  <2>2. PICK f : Folds(f, k - 1, A, a, G)
    BY <2>1
  <2> HIDE DEF Bad
  <2> DEFINE g == [s \in SUBSET (1..k) |-> IF k \in s THEN G[<<f[s \ {k}], k>>] ELSE f[s]]
  <2>3. \A s \in SUBSET (1..k) : s \ {k} \in SUBSET (1..(k - 1))
    BY <2>1
  <2>4. \A s \in SUBSET (1..k) : k \notin s => s \in SUBSET (1..(k - 1))
    BY <2>3
  <2>5. \A s \in SUBSET (1..(k - 1)) : f[s] \in A
    BY <2>2 DEF Folds
  <2>6. g \in [SUBSET (1..k) -> A]
    <3> SUFFICES ASSUME NEW s \in SUBSET (1..k)
                 PROVE  (IF k \in s THEN G[<<f[s \ {k}], k>>] ELSE f[s]) \in A
      OBVIOUS
    <3>1. ASSUME k \in s PROVE G[<<f[s \ {k}], k>>] \in A
      <4>1. f[s \ {k}] \in A
        BY <2>3, <2>5
      <4>2. <<f[s \ {k}], k>> \in A \X (1..n)
        BY <2>1, <4>1
      <4> QED
        BY <4>2
    <3>2. ASSUME k \notin s PROVE f[s] \in A
      BY <2>4, <2>5, <3>2
    <3> QED
      BY <3>1, <3>2
  <2>7. \A s \in SUBSET (1..k) : s # {} => g[s] = G[<<g[s \ {Max(s)}], Max(s)>>]
    <3> SUFFICES ASSUME NEW s \in SUBSET (1..k), s # {}
                 PROVE  g[s] = G[<<g[s \ {Max(s)}], Max(s)>>]
      OBVIOUS
    <3>1. k \in Nat
      BY <2>1
    <3>2. PICK m : m = Max(s)
      OBVIOUS
    <3>3. m \in s /\ \A y \in s : y <= m
      BY <3>1, <3>2, MaxIn
    <3>4. s \ {m} \in SUBSET (1..k) /\ k \notin s \ {m}
      BY <2>1, <3>1, <3>3
    <3>5. g[s \ {m}] = f[s \ {m}]
      BY <3>4
    <3>6. CASE k \in s
      <4>1. m = k
        BY <3>1, <3>3, <3>6
      <4> QED
        BY <3>2, <3>5, <3>6, <4>1
    <3>7. CASE k \notin s
      <4>1. s \in SUBSET (1..(k - 1)) /\ g[s] = f[s]
        BY <2>4, <3>7
      <4>2. f[s] = G[<<f[s \ {m}], m>>]
        BY <2>2, <3>2, <4>1 DEF Folds
      <4> QED
        BY <3>2, <3>5, <4>1, <4>2
    <3> QED
      BY <3>6, <3>7
  <2>8. g[{}] = a
    <3>1. {} \in SUBSET (1..(k - 1)) /\ {} \in SUBSET (1..k)
      OBVIOUS
    <3>2. f[{}] = a
      BY <2>2, <3>1 DEF Folds
    <3> QED
      BY <3>1, <3>2
  <2>9. Folds(g, k, A, a, G)
    <3> HIDE DEF g
    <3> QED
      BY <2>6, <2>7, <2>8 DEF Folds
  <2> QED
    BY <1>3, <2>9
<1> QED
  BY <1>4, <1>5

\* A fold as far as it stays in a set, and sets it goes through.
FoldIn(h, n, A, a, G) ==
  /\ h[{}] = a
  /\ \A s \in SUBSET (1..n) : s # {} /\ h[s \ {Max(s)}] \in A => h[s] = G[<<h[s \ {Max(s)}], Max(s)>>]
Stages(B, n, A, a, G) ==
  /\ B \in [0..n -> SUBSET A] /\ a \in B[0]
  /\ \A k \in 1..n : \A x \in B[k - 1] : G[<<x, k>>] \in B[k]

\* Where every step leads from the k-th of some sets to the next, a fold ends in the last.
LEMMA FoldStays ==
  ASSUME NEW n \in Nat, NEW A, NEW a, NEW G, NEW B, Stages(B, n, A, a, G), NEW h, FoldIn(h, n, A, a, G)
  PROVE  h[1..n] \in B[n]
<1>0. /\ B \in [0..n -> SUBSET A] /\ a \in B[0]
      /\ \A k \in 1..n : \A x \in B[k - 1] : G[<<x, k>>] \in B[k]
      /\ h[{}] = a
      /\ \A s \in SUBSET (1..n) : s # {} /\ h[s \ {Max(s)}] \in A => h[s] = G[<<h[s \ {Max(s)}], Max(s)>>]
  BY DEF Stages, FoldIn
<1> DEFINE Bad == {k \in 0..n : h[1..k] \notin B[k]}
<1>1. SUFFICES ASSUME Bad # {} PROVE FALSE
  <2>1. n \in 0..n
    OBVIOUS
  <2> QED
    BY <2>1
<1>2. PICK k \in Bad : \A e \in Bad : ~ (<<e, k>> \in OpToRel(<, Nat))
  <2>1. Bad \subseteq Nat
    OBVIOUS
  <2> QED
    BY <1>1, <2>1, NatLessThanWellFounded, WFMin
<1>3. k \in 0..n /\ h[1..k] \notin B[k]
  BY <1>2
<1>4. CASE k = 0
  <2>1. 1..k = {}
    BY <1>4
  <2> QED
    BY <1>0, <1>3, <1>4, <2>1
<1>5. CASE k # 0
  <2>1. k \in 1..n /\ k - 1 \in 0..n
    BY <1>3, <1>5
  <2>2. <<k - 1, k>> \in OpToRel(<, Nat)
    BY <2>1 DEF OpToRel
  <2>3. k - 1 \notin Bad
    BY <1>2, <2>2
  <2>4. h[1..(k - 1)] \in B[k - 1] /\ h[1..(k - 1)] \in A
    BY <1>0, <2>1, <2>3
  <2>5. Max(1..k) = k
    <3>1. 1..k \in SUBSET (1..n) /\ 1..k # {} /\ k \in 1..k
      BY ONLY <2>1, n \in Nat
    <3>2. Max(1..k) \in 1..k /\ k <= Max(1..k)
      BY <3>1, MaxIn
    <3> QED
      BY <2>1, <3>2
  <2>6. (1..k) \ {k} = 1..(k - 1) /\ 1..k # {} /\ 1..k \in SUBSET (1..n)
    BY ONLY <2>1, n \in Nat
  <2>7. h[1..k] = G[<<h[1..(k - 1)], k>>]
    BY <1>0, <2>4, <2>5, <2>6
  <2> QED
    BY <1>0, <1>3, <2>1, <2>4, <2>7
<1> QED
  BY <1>4, <1>5

-----------------------------------------------------------------------------
(* The tools *)

Events == {"started", "completed"} \X STRING
Found == {NoProfile} \cup {PeakProfile(p) : p \in Seq(Nat \X Nat)}
Labels == {"none", "synthetic_order_simulator", "presentation_fallback", "selected_period_hourly_orders"}
RunOf == [summary : {"none", "absent", "synthetic"}, profile : Found, compared : Found, label : Labels,
          trace : Seq(Events), failed : BOOLEAN, answered : BOOLEAN]

LEMMA CountNext ==
  ASSUME NEW n \in Nat, NEW S \in SUBSET (1..n)
  PROVE  /\ Cardinality(S) \in Nat
         /\ Cardinality(S \cup {n + 1}) = Cardinality(S) + 1
<1>1. PICK T : T = 1..n
  OBVIOUS
<1>2. IsFiniteSet(T) /\ S \in SUBSET T
  BY <1>1, FS_Interval
<1>3. IsFiniteSet(S)
  BY ONLY <1>2, FS_Subset
<1>4. n + 1 \notin S
  <2>1. n + 1 \notin 1..n
    OBVIOUS
  <2> QED
    BY <2>1
<1> QED
  BY <1>3, <1>4, FS_AddElement, FS_CardinalityType

LEMMA StepsAre == ASSUME NEW trace \in Seq(Events), NEW step PROVE Steps(trace, step) \in Nat
<1>1. PICK n \in Nat : DOMAIN trace = 1..n
  OBVIOUS
<1>2. {k \in 1..n : trace[k][1] = step} \in SUBSET (1..n)
  OBVIOUS
<1> QED
  BY <1>1, <1>2, CountNext DEF Steps

\* What an event more adds to the counts.
Adds(trace, e, t) ==
  /\ \A step : /\ Steps(trace, step) \in Nat
               /\ Steps(t, step) = IF e[1] = step THEN Steps(trace, step) + 1 ELSE Steps(trace, step)
  /\ \A event : /\ Traced(trace, event) \in Nat
                /\ Traced(t, event) = IF e = event THEN Traced(trace, event) + 1 ELSE Traced(trace, event)

LEMMA EventCounted ==
  ASSUME NEW trace \in Seq(Events), NEW e \in Events, NEW t, t = Append(trace, e)
  PROVE  Adds(trace, e, t)
<1>1. PICK n \in Nat : n = Len(trace) /\ DOMAIN trace = 1..n
  OBVIOUS
<1>2. /\ DOMAIN t = 1..(n + 1) /\ t[n + 1] = e
      /\ \A i \in 1..n : t[i] = trace[i]
  <2>1. /\ t \in Seq(Events) /\ Len(t) = n + 1 /\ t[n + 1] = e
        /\ \A i \in 1..n : t[i] = trace[i]
    BY <1>1, AppendProperties
  <2> QED
    BY <2>1
<1>3. \A k : k \in 1..(n + 1) <=> k \in 1..n \/ k = n + 1
  OBVIOUS
<1>4. ASSUME NEW step
      PROVE  /\ Steps(trace, step) \in Nat
             /\ Steps(t, step) = IF e[1] = step THEN Steps(trace, step) + 1 ELSE Steps(trace, step)
  <2>1. PICK S : S = {k \in DOMAIN trace : trace[k][1] = step}
    OBVIOUS
  <2>2. S \in SUBSET (1..n) /\ Steps(trace, step) = Cardinality(S)
    BY <1>1, <2>1 DEF Steps
  <2>3. PICK T : T = {k \in DOMAIN t : t[k][1] = step}
    OBVIOUS
  <2>4. T = IF e[1] = step THEN S \cup {n + 1} ELSE S
    BY <1>1, <1>2, <1>3, <2>1, <2>3
  <2>5. Steps(t, step) = Cardinality(T)
    BY <2>3 DEF Steps
  <2> QED
    BY <2>2, <2>4, <2>5, CountNext
<1>5. ASSUME NEW event
      PROVE  /\ Traced(trace, event) \in Nat
             /\ Traced(t, event) = IF e = event THEN Traced(trace, event) + 1 ELSE Traced(trace, event)
  <2>1. PICK S : S = {k \in DOMAIN trace : trace[k] = event}
    OBVIOUS
  <2>2. S \in SUBSET (1..n) /\ Traced(trace, event) = Cardinality(S)
    BY <1>1, <2>1 DEF Traced
  <2>3. PICK T : T = {k \in DOMAIN t : t[k] = event}
    OBVIOUS
  <2>4. T = IF e = event THEN S \cup {n + 1} ELSE S
    BY <1>1, <1>2, <1>3, <2>1, <2>3
  <2>5. Traced(t, event) = Cardinality(T)
    BY <2>3 DEF Traced
  <2> QED
    BY <2>2, <2>4, <2>5, CountNext
<1> QED
  BY ONLY <1>4, <1>5 DEF Adds

LEMMA ProfileIs ==
  ASSUME NEW points \in Seq(Nat \X Nat), NEW p, p = PeakProfile(points)
  PROVE  p \in Found /\ p # NoProfile
<1>1. p \in Found
  BY DEF Found
<1>2. p.source = "presentation_fallback" \/ p.source = "selected_period_hourly_orders"
  BY DEF PeakProfile, PeakFrom, ProfileAt
<1>3. NoProfile.source = "none"
  BY DEF NoProfile
<1> QED
  BY <1>1, <1>2, <1>3

LEMMA SourceIs == ASSUME NEW p \in Found PROVE p.source \in Labels
<1>1. CASE p = NoProfile
  BY <1>1 DEF NoProfile, Labels
<1>2. CASE p # NoProfile
  <2>1. PICK points : p = PeakProfile(points)
    BY <1>2 DEF Found
  <2> QED
    BY <2>1 DEF PeakProfile, PeakFrom, ProfileAt, Labels
<1> QED
  BY <1>1, <1>2

\* What a call changes: the trace, and the result of its tool.
Called(a, c, call) ==
  /\ c \in RunOf /\ c.answered = a.answered
  /\ c.trace = LET t == Append(a.trace, <<"started", call.tool>>)
               IN  IF c.failed THEN t ELSE Append(t, <<"completed", call.tool>>)
  /\ call.tool # "summary" => c.summary = a.summary
  /\ IF call.tool = "timeline" THEN IF c.failed THEN c.profile = a.profile ELSE c.profile # NoProfile
     ELSE c.profile = a.profile
  /\ IF call.tool = "compare" /\ a.profile # NoProfile /\ ~ c.failed
     THEN c.compared = a.profile /\ Accepted(Segments(c.compared))
     ELSE c.compared = a.compared

LEMMA CallIs ==
  ASSUME NEW a \in RunOf, ~ a.failed, NEW call \in Call, NEW c, c = CallTool(a, call)
  PROVE  Called(a, c, call)
<1>1. PICK tool : tool = call.tool
  OBVIOUS
<1>2. tool \in STRING /\ call.fails \in BOOLEAN /\ call.store \in {"absent", "synthetic"} /\ call.points \in Seq(Nat \X Nat)
  BY <1>1 DEF Call
<1>3. PICK t : t = Append(a.trace, <<"started", tool>>)
  OBVIOUS
<1>4. t \in Seq(Events)
  <2>1. <<"started", tool>> \in Events /\ a.trace \in Seq(Events)
    BY <1>2 DEF Events, RunOf
  <2> QED
    BY ONLY <1>3, <2>1, AppendProperties
<1>5. PICK b : b = Logged(a, "started", call)
  OBVIOUS
<1>6. b = [a EXCEPT !.trace = t]
  BY <1>1, <1>3, <1>5 DEF Logged
<1>7. /\ b \in RunOf /\ ~ b.failed /\ b.trace = t /\ b.answered = a.answered
      /\ b.summary = a.summary /\ b.profile = a.profile /\ b.compared = a.compared
  BY ONLY <1>4, <1>6, a \in RunOf, ~ a.failed DEF RunOf
<1>8. PICK e : e = Execute(b, call)
  OBVIOUS
<1>9. /\ e \in RunOf /\ e.trace = t /\ e.answered = a.answered
      /\ tool # "summary" => e.summary = a.summary
      /\ IF tool = "timeline" THEN IF e.failed THEN e.profile = a.profile ELSE e.profile # NoProfile
         ELSE e.profile = a.profile
      /\ IF tool = "compare" /\ a.profile # NoProfile /\ ~ e.failed
         THEN e.compared = a.profile /\ Accepted(Segments(e.compared))
         ELSE e.compared = a.compared
  <2>1. CASE tool = "summary"
    <3>1. e = IF call.fails THEN [b EXCEPT !.failed = TRUE] ELSE [b EXCEPT !.summary = call.store]
      BY <1>1, <1>8, <2>1 DEF Execute
    <3> QED
      BY ONLY <1>2, <1>7, <2>1, <3>1 DEF RunOf
  <2>2. CASE tool = "timeline"
    <3>1. PICK p : p = PeakProfile(call.points)
      OBVIOUS
    <3>2. p \in Found /\ p # NoProfile
      BY <1>2, <3>1, ProfileIs
    <3>3. e = IF call.fails THEN [b EXCEPT !.failed = TRUE] ELSE [b EXCEPT !.profile = p]
      BY <1>1, <1>8, <2>2, <3>1 DEF Execute
    <3> QED
      BY ONLY <1>2, <1>7, <2>2, <3>2, <3>3 DEF RunOf
  <2>3. CASE tool = "compare" /\ a.profile # NoProfile
    <3>1. PICK s \in Labels : s = IF b.summary = "synthetic" THEN "synthetic_order_simulator" ELSE b.profile.source
      <4>1. b.profile \in Found
        BY <1>7 DEF RunOf
      <4>2. b.profile.source \in Labels
        BY <4>1, SourceIs
      <4> QED
        BY ONLY <4>2 DEF Labels
    <3>2. e = IF call.fails \/ ~ Accepted(Segments(b.profile)) THEN [b EXCEPT !.failed = TRUE]
              ELSE [b EXCEPT !.compared = b.profile, !.label = s]
      BY <1>1, <1>7, <1>8, <2>3, <3>1 DEF Execute
    <3>3. PICK ok \in BOOLEAN : ok <=> ~ (call.fails \/ ~ Accepted(Segments(b.profile)))
      OBVIOUS
    <3>4. CASE ~ ok
      <4>1. e = [b EXCEPT !.failed = TRUE]
        BY <3>2, <3>3, <3>4
      <4> QED
        BY ONLY <1>7, <2>3, <4>1 DEF RunOf
    <3>5. CASE ok
      <4>1. e = [b EXCEPT !.compared = b.profile, !.label = s]
        BY <3>2, <3>3, <3>5
      <4>2. Accepted(Segments(a.profile))
        BY <1>7, <3>3, <3>5
      <4>3. /\ e \in RunOf /\ e.trace = t /\ e.answered = a.answered /\ ~ e.failed
            /\ e.summary = a.summary /\ e.profile = a.profile /\ e.compared = a.profile
        BY ONLY <1>7, <3>1, <4>1 DEF RunOf
      <4> QED
        BY <2>3, <4>2, <4>3
    <3> QED
      BY <3>4, <3>5
  <2>4. CASE tool \notin {"summary", "timeline"} /\ ~ (tool = "compare" /\ a.profile # NoProfile)
    <3>1. e = b
      BY <1>1, <1>7, <1>8, <2>4 DEF Execute
    <3> QED
      BY <1>7, <2>4, <3>1
  <2> QED
    BY <2>1, <2>2, <2>3, <2>4
<1>10. c = IF e.failed THEN e ELSE Logged(e, "completed", call)
  BY <1>5, <1>8 DEF CallTool, Reported
<1>11. CASE e.failed
  <2>1. c = e
    BY <1>10, <1>11
  <2> QED
    BY <1>1, <1>3, <1>9, <1>11, <2>1 DEF Called
<1>12. CASE ~ e.failed
  <2>1. PICK u : u = Append(t, <<"completed", tool>>)
    OBVIOUS
  <2>2. u \in Seq(Events)
    <3>1. <<"completed", tool>> \in Events
      BY <1>2 DEF Events
    <3> QED
      BY ONLY <1>4, <2>1, <3>1, AppendProperties
  <2>3. c = [e EXCEPT !.trace = u]
    BY <1>1, <1>9, <1>10, <1>12, <2>1 DEF Logged
  <2>4. /\ c \in RunOf /\ ~ c.failed /\ c.trace = u /\ c.answered = e.answered
        /\ c.summary = e.summary /\ c.profile = e.profile /\ c.compared = e.compared
    BY ONLY <1>9, <1>12, <2>2, <2>3 DEF RunOf
  <2> QED
    BY <1>1, <1>3, <1>9, <1>12, <2>1, <2>4 DEF Called
<1> QED
  BY <1>11, <1>12

-----------------------------------------------------------------------------
(* The calls of a turn, the turns of the model, the calls of the rules *)

\* Where each call leads from the k-th of some sets of runs to the next, a turn ends in the last;
CallToolStages(B, n, seq, A, a) ==
  /\ B \in [0..n -> SUBSET A] /\ a \in B[0]
  /\ \A k \in 1..n : \A x \in A : CallTool(x, seq[k]) \in A
  /\ \A k \in 1..n : \A x \in B[k - 1] : CallTool(x, seq[k]) \in B[k]

LEMMA CallToolFolds ==
  ASSUME NEW n \in Nat, NEW seq, DOMAIN seq = 1..n, NEW A, NEW a, NEW B, CallToolStages(B, n, seq, A, a)
  PROVE  FoldLeft(CallTool, a, seq) \in B[n]
<1>1. /\ B \in [0..n -> SUBSET A] /\ a \in B[0]
      /\ \A k \in 1..n : \A x \in A : CallTool(x, seq[k]) \in A
      /\ \A k \in 1..n : \A x \in B[k - 1] : CallTool(x, seq[k]) \in B[k]
  BY DEF CallToolStages
<1>2. PICK G : G = [p \in A \X (1..n) |-> CallTool(p[1], seq[p[2]])]
  OBVIOUS
<1>3. \A x \in A : \A k \in 1..n : G[<<x, k>>] = CallTool(x, seq[k])
  BY <1>2
<1>4. G \in [A \X (1..n) -> A]
  BY <1>1, <1>2
<1>5. a \in A /\ \A k \in 1..n : B[k - 1] \subseteq A
  <2>1. 0 \in 0..n /\ \A k \in 1..n : k - 1 \in 0..n
    OBVIOUS
  <2> QED
    BY <1>1, <2>1
<1>6. Stages(B, n, A, a, G)
  <2>1. \A k \in 1..n : \A x \in B[k - 1] : G[<<x, k>>] \in B[k]
    BY <1>1, <1>3, <1>5
  <2> QED
    BY ONLY <1>1, <2>1 DEF Stages
<1>7. PICK f : Folds(f, n, A, a, G)
  BY ONLY <1>4, <1>5, n \in Nat, FoldExists
<1> DEFINE Runs(x) == x = [s \in SUBSET (1..n) |->
                             IF s = {} THEN a ELSE CallTool(x[s \ {Max(s)}], seq[Max(s)])]
           h == CHOOSE x : Runs(x)
<1>8. \A s \in SUBSET (1..n) : s # {} => Max(s) \in 1..n /\ s \ {Max(s)} \in SUBSET (1..n)
  BY MaxIn
<1>9. \A x \in A : \A s \in SUBSET (1..n) : s # {} => G[<<x, Max(s)>>] = CallTool(x, seq[Max(s)])
  BY <1>3, <1>8
<1>10. Runs(f)
  <2>1. \A s \in SUBSET (1..n) : f[s] = IF s = {} THEN a ELSE CallTool(f[s \ {Max(s)}], seq[Max(s)])
    <3>1. f[{}] = a
      BY <1>7 DEF Folds
    <3>2. \A s \in SUBSET (1..n) : f[s] \in A
      BY <1>7 DEF Folds
    <3>3. \A s \in SUBSET (1..n) : s # {} => f[s] = G[<<f[s \ {Max(s)}], Max(s)>>]
      BY <1>7 DEF Folds
    <3>4. \A s \in SUBSET (1..n) : s # {} => f[s \ {Max(s)}] \in A
      BY <1>8, <3>2
    <3> QED
      BY ONLY <1>9, <3>1, <3>3, <3>4
  <2> QED
    BY <1>7, <2>1 DEF Folds
<1>11. Runs(h)
  BY <1>10
<1>12. /\ h[{}] = a
       /\ \A s \in SUBSET (1..n) : s # {} /\ h[s \ {Max(s)}] \in A =>
            h[s] = G[<<h[s \ {Max(s)}], Max(s)>>]
  <2>1. \A s \in SUBSET (1..n) : h[s] = IF s = {} THEN a ELSE CallTool(h[s \ {Max(s)}], seq[Max(s)])
    <3> HIDE DEF h
    <3> QED
      BY <1>11
  <2> HIDE DEF h, Runs
  <2>2. h[{}] = a
    BY <2>1
  <2>3. \A s \in SUBSET (1..n) : s # {} => h[s] = CallTool(h[s \ {Max(s)}], seq[Max(s)])
    BY ONLY <2>1
  <2> QED
    BY ONLY <1>9, <2>2, <2>3
<1>13. PICK H : H = h
  OBVIOUS
<1>14. H[1..n] \in B[n]
  <2>1. FoldIn(H, n, A, a, G)
    BY ONLY <1>12, <1>13 DEF FoldIn
  <2> QED
    BY ONLY <1>6, <2>1, n \in Nat, FoldStays
<1>15. FoldLeft(CallTool, a, seq) = H[1..n]
  <2>1. FoldLeft(CallTool, a, seq) = (CHOOSE x : x = [s \in SUBSET DOMAIN seq |->
          IF s = {} THEN a ELSE CallTool(x[s \ {Max(s)}], seq[Max(s)])])[DOMAIN seq]
    BY ONLY DEF FoldLeft, MapThenFoldSet
  <2> QED
    BY ONLY <1>13, <2>1, DOMAIN seq = 1..n
<1> QED
  BY <1>14, <1>15

\* ... so do the turns,
TurnStages(B, n, seq, A, a) ==
  /\ B \in [0..n -> SUBSET A] /\ a \in B[0]
  /\ \A k \in 1..n : \A x \in A : Turn(x, seq[k]) \in A
  /\ \A k \in 1..n : \A x \in B[k - 1] : Turn(x, seq[k]) \in B[k]

LEMMA TurnFolds ==
  ASSUME NEW n \in Nat, NEW seq, DOMAIN seq = 1..n, NEW A, NEW a, NEW B, TurnStages(B, n, seq, A, a)
  PROVE  FoldLeft(Turn, a, seq) \in B[n]
<1>1. /\ B \in [0..n -> SUBSET A] /\ a \in B[0]
      /\ \A k \in 1..n : \A x \in A : Turn(x, seq[k]) \in A
      /\ \A k \in 1..n : \A x \in B[k - 1] : Turn(x, seq[k]) \in B[k]
  BY DEF TurnStages
<1>2. PICK G : G = [p \in A \X (1..n) |-> Turn(p[1], seq[p[2]])]
  OBVIOUS
<1>3. \A x \in A : \A k \in 1..n : G[<<x, k>>] = Turn(x, seq[k])
  BY <1>2
<1>4. G \in [A \X (1..n) -> A]
  BY <1>1, <1>2
<1>5. a \in A /\ \A k \in 1..n : B[k - 1] \subseteq A
  <2>1. 0 \in 0..n /\ \A k \in 1..n : k - 1 \in 0..n
    OBVIOUS
  <2> QED
    BY <1>1, <2>1
<1>6. Stages(B, n, A, a, G)
  <2>1. \A k \in 1..n : \A x \in B[k - 1] : G[<<x, k>>] \in B[k]
    BY <1>1, <1>3, <1>5
  <2> QED
    BY ONLY <1>1, <2>1 DEF Stages
<1>7. PICK f : Folds(f, n, A, a, G)
  BY ONLY <1>4, <1>5, n \in Nat, FoldExists
<1> DEFINE Runs(x) == x = [s \in SUBSET (1..n) |->
                             IF s = {} THEN a ELSE Turn(x[s \ {Max(s)}], seq[Max(s)])]
           h == CHOOSE x : Runs(x)
<1>8. \A s \in SUBSET (1..n) : s # {} => Max(s) \in 1..n /\ s \ {Max(s)} \in SUBSET (1..n)
  BY MaxIn
<1>9. \A x \in A : \A s \in SUBSET (1..n) : s # {} => G[<<x, Max(s)>>] = Turn(x, seq[Max(s)])
  BY <1>3, <1>8
<1>10. Runs(f)
  <2>1. \A s \in SUBSET (1..n) : f[s] = IF s = {} THEN a ELSE Turn(f[s \ {Max(s)}], seq[Max(s)])
    <3>1. f[{}] = a
      BY <1>7 DEF Folds
    <3>2. \A s \in SUBSET (1..n) : f[s] \in A
      BY <1>7 DEF Folds
    <3>3. \A s \in SUBSET (1..n) : s # {} => f[s] = G[<<f[s \ {Max(s)}], Max(s)>>]
      BY <1>7 DEF Folds
    <3>4. \A s \in SUBSET (1..n) : s # {} => f[s \ {Max(s)}] \in A
      BY <1>8, <3>2
    <3> QED
      BY ONLY <1>9, <3>1, <3>3, <3>4
  <2> QED
    BY <1>7, <2>1 DEF Folds
<1>11. Runs(h)
  BY <1>10
<1>12. /\ h[{}] = a
       /\ \A s \in SUBSET (1..n) : s # {} /\ h[s \ {Max(s)}] \in A =>
            h[s] = G[<<h[s \ {Max(s)}], Max(s)>>]
  <2>1. \A s \in SUBSET (1..n) : h[s] = IF s = {} THEN a ELSE Turn(h[s \ {Max(s)}], seq[Max(s)])
    <3> HIDE DEF h
    <3> QED
      BY <1>11
  <2> HIDE DEF h, Runs
  <2>2. h[{}] = a
    BY <2>1
  <2>3. \A s \in SUBSET (1..n) : s # {} => h[s] = Turn(h[s \ {Max(s)}], seq[Max(s)])
    BY ONLY <2>1
  <2> QED
    BY ONLY <1>9, <2>2, <2>3
<1>13. PICK H : H = h
  OBVIOUS
<1>14. H[1..n] \in B[n]
  <2>1. FoldIn(H, n, A, a, G)
    BY ONLY <1>12, <1>13 DEF FoldIn
  <2> QED
    BY ONLY <1>6, <2>1, n \in Nat, FoldStays
<1>15. FoldLeft(Turn, a, seq) = H[1..n]
  <2>1. FoldLeft(Turn, a, seq) = (CHOOSE x : x = [s \in SUBSET DOMAIN seq |->
          IF s = {} THEN a ELSE Turn(x[s \ {Max(s)}], seq[Max(s)])])[DOMAIN seq]
    BY ONLY DEF FoldLeft, MapThenFoldSet
  <2> QED
    BY ONLY <1>13, <2>1, DOMAIN seq = 1..n
<1> QED
  BY <1>14, <1>15

\* ... and the calls of the rules.
RuledStages(B, n, seq, A, a) ==
  /\ B \in [0..n -> SUBSET A] /\ a \in B[0]
  /\ \A k \in 1..n : \A x \in A : Ruled(x, seq[k]) \in A
  /\ \A k \in 1..n : \A x \in B[k - 1] : Ruled(x, seq[k]) \in B[k]

LEMMA RuledFolds ==
  ASSUME NEW n \in Nat, NEW seq, DOMAIN seq = 1..n, NEW A, NEW a, NEW B, RuledStages(B, n, seq, A, a)
  PROVE  FoldLeft(Ruled, a, seq) \in B[n]
<1>1. /\ B \in [0..n -> SUBSET A] /\ a \in B[0]
      /\ \A k \in 1..n : \A x \in A : Ruled(x, seq[k]) \in A
      /\ \A k \in 1..n : \A x \in B[k - 1] : Ruled(x, seq[k]) \in B[k]
  BY DEF RuledStages
<1>2. PICK G : G = [p \in A \X (1..n) |-> Ruled(p[1], seq[p[2]])]
  OBVIOUS
<1>3. \A x \in A : \A k \in 1..n : G[<<x, k>>] = Ruled(x, seq[k])
  BY <1>2
<1>4. G \in [A \X (1..n) -> A]
  BY <1>1, <1>2
<1>5. a \in A /\ \A k \in 1..n : B[k - 1] \subseteq A
  <2>1. 0 \in 0..n /\ \A k \in 1..n : k - 1 \in 0..n
    OBVIOUS
  <2> QED
    BY <1>1, <2>1
<1>6. Stages(B, n, A, a, G)
  <2>1. \A k \in 1..n : \A x \in B[k - 1] : G[<<x, k>>] \in B[k]
    BY <1>1, <1>3, <1>5
  <2> QED
    BY ONLY <1>1, <2>1 DEF Stages
<1>7. PICK f : Folds(f, n, A, a, G)
  BY ONLY <1>4, <1>5, n \in Nat, FoldExists
<1> DEFINE Runs(x) == x = [s \in SUBSET (1..n) |->
                             IF s = {} THEN a ELSE Ruled(x[s \ {Max(s)}], seq[Max(s)])]
           h == CHOOSE x : Runs(x)
<1>8. \A s \in SUBSET (1..n) : s # {} => Max(s) \in 1..n /\ s \ {Max(s)} \in SUBSET (1..n)
  BY MaxIn
<1>9. \A x \in A : \A s \in SUBSET (1..n) : s # {} => G[<<x, Max(s)>>] = Ruled(x, seq[Max(s)])
  BY <1>3, <1>8
<1>10. Runs(f)
  <2>1. \A s \in SUBSET (1..n) : f[s] = IF s = {} THEN a ELSE Ruled(f[s \ {Max(s)}], seq[Max(s)])
    <3>1. f[{}] = a
      BY <1>7 DEF Folds
    <3>2. \A s \in SUBSET (1..n) : f[s] \in A
      BY <1>7 DEF Folds
    <3>3. \A s \in SUBSET (1..n) : s # {} => f[s] = G[<<f[s \ {Max(s)}], Max(s)>>]
      BY <1>7 DEF Folds
    <3>4. \A s \in SUBSET (1..n) : s # {} => f[s \ {Max(s)}] \in A
      BY <1>8, <3>2
    <3> QED
      BY ONLY <1>9, <3>1, <3>3, <3>4
  <2> QED
    BY <1>7, <2>1 DEF Folds
<1>11. Runs(h)
  BY <1>10
<1>12. /\ h[{}] = a
       /\ \A s \in SUBSET (1..n) : s # {} /\ h[s \ {Max(s)}] \in A =>
            h[s] = G[<<h[s \ {Max(s)}], Max(s)>>]
  <2>1. \A s \in SUBSET (1..n) : h[s] = IF s = {} THEN a ELSE Ruled(h[s \ {Max(s)}], seq[Max(s)])
    <3> HIDE DEF h
    <3> QED
      BY <1>11
  <2> HIDE DEF h, Runs
  <2>2. h[{}] = a
    BY <2>1
  <2>3. \A s \in SUBSET (1..n) : s # {} => h[s] = Ruled(h[s \ {Max(s)}], seq[Max(s)])
    BY ONLY <2>1
  <2> QED
    BY ONLY <1>9, <2>2, <2>3
<1>13. PICK H : H = h
  OBVIOUS
<1>14. H[1..n] \in B[n]
  <2>1. FoldIn(H, n, A, a, G)
    BY ONLY <1>12, <1>13 DEF FoldIn
  <2> QED
    BY ONLY <1>6, <2>1, n \in Nat, FoldStays
<1>15. FoldLeft(Ruled, a, seq) = H[1..n]
  <2>1. FoldLeft(Ruled, a, seq) = (CHOOSE x : x = [s \in SUBSET DOMAIN seq |->
          IF s = {} THEN a ELSE Ruled(x[s \ {Max(s)}], seq[Max(s)])])[DOMAIN seq]
    BY ONLY DEF FoldLeft, MapThenFoldSet
  <2> QED
    BY ONLY <1>13, <2>1, DOMAIN seq = 1..n
<1> QED
  BY <1>14, <1>15

-----------------------------------------------------------------------------
(* A run of the agent *)

\* What a call adds to the trace: that it was started and, unless it failed, completed.
Grown(a, c, tool) ==
  /\ a.trace \in Seq(Events) /\ c.trace \in Seq(Events)
  /\ Len(a.trace) < Len(c.trace) /\ \A i \in 1..Len(a.trace) : c.trace[i] = a.trace[i]
  /\ Last(c.trace) = IF c.failed THEN <<"started", tool>> ELSE <<"completed", tool>>
  /\ \A step : Steps(a.trace, step) \in Nat /\ Steps(c.trace, step) \in Nat
  /\ Steps(c.trace, "started") = Steps(a.trace, "started") + 1
  /\ Steps(c.trace, "completed") = IF c.failed THEN Steps(a.trace, "completed") ELSE Steps(a.trace, "completed") + 1
  /\ \A t : /\ Traced(a.trace, <<"started", t>>) \in Nat
            /\ Traced(c.trace, <<"started", t>>) =
                 IF t = tool THEN Traced(a.trace, <<"started", t>>) + 1 ELSE Traced(a.trace, <<"started", t>>)

LEMMA TraceGrows ==
  ASSUME NEW a \in RunOf, NEW call \in Call, NEW c, Called(a, c, call)
  PROVE  Grown(a, c, call.tool)
<1>1. PICK tool \in STRING : tool = call.tool
  BY DEF Call
<1>2. PICK trace \in Seq(Events) : trace = a.trace
  BY DEF RunOf
<1>3. <<"started", tool>> \in Events /\ <<"completed", tool>> \in Events
  BY DEF Events
<1>4. PICK e, f : e = <<"started", tool>> /\ f = <<"completed", tool>>
  OBVIOUS
<1>5. PICK t : t = Append(trace, e)
  OBVIOUS
<1>6. PICK u : u = Append(t, f)
  OBVIOUS
<1>7. PICK n \in Nat : n = Len(trace)
  OBVIOUS
<1>8. t \in Seq(Events) /\ Len(t) = n + 1 /\ t[n + 1] = e /\ \A i \in 1..n : t[i] = trace[i]
  BY <1>3, <1>4, <1>5, <1>7, AppendProperties
<1>9. u \in Seq(Events) /\ Len(u) = n + 2 /\ u[n + 2] = f /\ \A i \in 1..(n + 1) : u[i] = t[i]
  BY <1>3, <1>4, <1>6, <1>8, AppendProperties
<1>10. \A i \in 1..n : u[i] = trace[i]
  BY <1>8, <1>9
<1>11. e[1] = "started" /\ f[1] = "completed"
  BY <1>4
<1>18. Adds(trace, e, t) /\ Adds(t, f, u)
  BY ONLY <1>3, <1>4, <1>5, <1>6, <1>8, trace \in Seq(Events), EventCounted
<1>12. /\ \A step : Steps(trace, step) \in Nat /\ Steps(t, step) \in Nat
       /\ Steps(t, "started") = Steps(trace, "started") + 1
       /\ Steps(t, "completed") = Steps(trace, "completed")
       /\ \A event : /\ Traced(trace, event) \in Nat
                     /\ Traced(t, event) = IF e = event THEN Traced(trace, event) + 1 ELSE Traced(trace, event)
  BY ONLY <1>11, <1>18 DEF Adds
<1>13. /\ \A step : Steps(u, step) \in Nat
       /\ Steps(u, "started") = Steps(t, "started")
       /\ Steps(u, "completed") = Steps(t, "completed") + 1
       /\ \A event : Traced(u, event) = IF f = event THEN Traced(t, event) + 1 ELSE Traced(t, event)
  <2>1. \A step : Steps(u, step) = IF f[1] = step THEN Steps(t, step) + 1 ELSE Steps(t, step)
    BY ONLY <1>18 DEF Adds
  <2>2. \A event : Traced(u, event) = IF f = event THEN Traced(t, event) + 1 ELSE Traced(t, event)
    BY ONLY <1>18 DEF Adds
  <2> QED
    BY <1>11, <1>12, <2>1, <2>2
<1>14. \A s : /\ <<"started", s>> = e <=> s = tool
              /\ <<"started", s>> # f
  BY <1>4
<1>15. c.trace = IF c.failed THEN t ELSE u
  BY <1>1, <1>2, <1>4, <1>5, <1>6 DEF Called
<1>16. CASE c.failed
  <2>1. c.trace = t
    BY <1>15, <1>16
  <2>2. Last(t) = e /\ Len(trace) < Len(t)
    BY <1>7, <1>8 DEF Last
  <2>3. \A s : Traced(t, <<"started", s>>) =
                 IF s = tool THEN Traced(trace, <<"started", s>>) + 1 ELSE Traced(trace, <<"started", s>>)
    BY <1>12, <1>14
  <2> QED
    BY ONLY <1>1, <1>2, <1>4, <1>7, <1>8, <1>12, <1>16, <2>1, <2>2, <2>3 DEF Grown
<1>17. CASE ~ c.failed
  <2>1. c.trace = u
    BY <1>15, <1>17
  <2>2. Last(u) = f /\ Len(trace) < Len(u)
    BY <1>7, <1>9 DEF Last
  <2>3. \A s : Traced(u, <<"started", s>>) =
                 IF s = tool THEN Traced(trace, <<"started", s>>) + 1 ELSE Traced(trace, <<"started", s>>)
    BY <1>12, <1>13, <1>14
  <2>4. /\ Steps(u, "started") = Steps(trace, "started") + 1
        /\ Steps(u, "completed") = Steps(trace, "completed") + 1
    BY <1>12, <1>13
  <2> QED
    BY ONLY <1>1, <1>2, <1>4, <1>7, <1>9, <1>10, <1>12, <1>13, <1>17, <2>1, <2>2, <2>3, <2>4 DEF Grown
<1> QED
  BY <1>16, <1>17

\* A run so far.  A profile comes from a timeline that was completed, a comparison is of a
\* profile the API took, and what was started was completed unless it failed.
Told(a) == \E k \in 1..Len(a.trace) : a.trace[k] = <<"completed", "timeline">>
Pending(a) == Steps(a.trace, "started") - Steps(a.trace, "completed")
ModelInv(a) ==
  /\ a \in RunOf
  /\ a.profile # NoProfile => Told(a)
  /\ a.compared # NoProfile => a.profile # NoProfile /\ Accepted(Segments(a.compared))
  /\ Pending(a) <= IF a.failed THEN 1 ELSE 0

\* Whatever is called, a call keeps what was found, and finds no less.
LEMMA CallFinds ==
  ASSUME NEW a \in RunOf, ~ a.failed, a.profile # NoProfile => Told(a),
         a.compared # NoProfile => a.profile # NoProfile /\ Accepted(Segments(a.compared)),
         NEW call \in Call, NEW c, Called(a, c, call)
  PROVE  /\ c \in RunOf
         /\ c.profile # NoProfile => Told(c)
         /\ c.compared # NoProfile => c.profile # NoProfile /\ Accepted(Segments(c.compared))
         /\ Pending(a) \in Int /\ Pending(c) = IF c.failed THEN Pending(a) + 1 ELSE Pending(a)
<1>1. PICK tool : tool = call.tool
  OBVIOUS
<1>2. Grown(a, c, tool)
  BY <1>1, TraceGrows
<1>3. c \in RunOf
  BY DEF Called
<1>4. Pending(a) \in Int /\ Pending(c) = IF c.failed THEN Pending(a) + 1 ELSE Pending(a)
  <2>1. PICK x, y \in Nat : x = Steps(a.trace, "started") /\ y = Steps(a.trace, "completed")
    BY <1>2 DEF Grown
  <2>2. /\ Steps(c.trace, "started") = x + 1
        /\ Steps(c.trace, "completed") = IF c.failed THEN y ELSE y + 1
    BY <1>2, <2>1 DEF Grown
  <2>3. /\ x - y \in Int /\ (x + 1) - y = (x - y) + 1 /\ (x + 1) - (y + 1) = x - y
    OBVIOUS
  <2> QED
    BY <2>1, <2>2, <2>3 DEF Pending
<1>5. Told(a) => Told(c)
  <2>1. /\ Len(a.trace) \in Nat /\ Len(c.trace) \in Nat /\ Len(a.trace) < Len(c.trace)
        /\ \A i \in 1..Len(a.trace) : c.trace[i] = a.trace[i]
    <3>1. /\ a.trace \in Seq(Events) /\ c.trace \in Seq(Events) /\ Len(a.trace) < Len(c.trace)
          /\ \A i \in 1..Len(a.trace) : c.trace[i] = a.trace[i]
      BY ONLY <1>2 DEF Grown
    <3> QED
      BY ONLY <3>1, LenProperties
  <2>2. \A i \in 1..Len(a.trace) : i \in 1..Len(c.trace)
    BY <2>1
  <2> QED
    BY <2>1, <2>2 DEF Told
<1>6. c.profile # NoProfile => Told(c)
  <2>1. CASE tool = "timeline" /\ ~ c.failed
    <3>1. Last(c.trace) = <<"completed", "timeline">> /\ Len(c.trace) \in Nat /\ Len(c.trace) > 0
      BY <1>2, <2>1 DEF Grown
    <3>2. Len(c.trace) \in 1..Len(c.trace)
      BY <3>1
    <3> QED
      BY <3>1, <3>2 DEF Told, Last
  <2>2. CASE ~ (tool = "timeline" /\ ~ c.failed)
    <3>1. c.profile = a.profile
      BY <1>1, <2>2 DEF Called
    <3> QED
      BY <1>5, <3>1
  <2> QED
    BY <2>1, <2>2
<1>7. c.compared # NoProfile => c.profile # NoProfile /\ Accepted(Segments(c.compared))
  <2>1. CASE tool = "compare" /\ a.profile # NoProfile /\ ~ c.failed
    BY <1>1, <2>1 DEF Called
  <2>2. CASE ~ (tool = "compare" /\ a.profile # NoProfile /\ ~ c.failed)
    <3>1. c.compared = a.compared
      BY <1>1, <2>2 DEF Called
    <3>2. a.profile # NoProfile => c.profile # NoProfile
      BY <1>1 DEF Called
    <3> QED
      BY <3>1, <3>2
  <2> QED
    BY <2>1, <2>2
<1> QED
  BY <1>3, <1>4, <1>6, <1>7

LEMMA CallStays ==
  ASSUME NEW a, ModelInv(a), NEW call \in Call PROVE ModelInv(CallTool(a, call))
<1>1. CASE a.failed
  BY <1>1 DEF CallTool
<1>2. CASE ~ a.failed
  <2>1. PICK c : c = CallTool(a, call)
    OBVIOUS
  <2>2. a \in RunOf
    BY DEF ModelInv
  <2>3. Called(a, c, call)
    BY <1>2, <2>1, <2>2, CallIs
  <2>4. /\ c \in RunOf
        /\ c.profile # NoProfile => Told(c)
        /\ c.compared # NoProfile => c.profile # NoProfile /\ Accepted(Segments(c.compared))
        /\ Pending(a) \in Int /\ Pending(c) = IF c.failed THEN Pending(a) + 1 ELSE Pending(a)
    BY <1>2, <2>2, <2>3, CallFinds DEF ModelInv
  <2>5. Pending(a) <= 0
    BY <1>2 DEF ModelInv
  <2>6. Pending(c) <= IF c.failed THEN 1 ELSE 0
    BY ONLY <2>4, <2>5
  <2> QED
    BY ONLY <2>1, <2>4, <2>6 DEF ModelInv
<1> QED
  BY <1>1, <1>2

LEMMA TurnStays ==
  ASSUME NEW a, ModelInv(a), NEW turn \in ModelTurn PROVE ModelInv(Turn(a, turn))
<1>1. a \in RunOf
  BY DEF ModelInv
<1>2. CASE a.failed \/ a.answered
  BY <1>2 DEF Turn
<1>3. CASE ~ (a.failed \/ a.answered) /\ turn.fails
  <2>1. PICK b : b = [a EXCEPT !.failed = TRUE]
    OBVIOUS
  <2>2. Turn(a, turn) = b
    BY <1>3, <2>1 DEF Turn
  <2>3. /\ b \in RunOf /\ b.failed /\ b.trace = a.trace /\ b.profile = a.profile /\ b.compared = a.compared
    BY ONLY <1>1, <2>1 DEF RunOf
  <2>4. Pending(a) <= 0 /\ Pending(b) = Pending(a) /\ Pending(a) \in Int
    <3>1. \A step : Steps(a.trace, step) \in Nat
      <4>1. a.trace \in Seq(Events)
        BY <1>1 DEF RunOf
      <4> QED
        BY <4>1, StepsAre
    <3> QED
      BY <1>3, <2>3, <3>1 DEF ModelInv, Pending
  <2>5. Told(a) => Told(b)
    BY <2>3 DEF Told
  <2>6. Pending(b) <= IF b.failed THEN 1 ELSE 0
    BY ONLY <2>3, <2>4
  <2>7. /\ b.profile # NoProfile => Told(b)
        /\ b.compared # NoProfile => b.profile # NoProfile /\ Accepted(Segments(b.compared))
    BY <2>3, <2>5 DEF ModelInv
  <2>8. ModelInv(b)
    BY ONLY <2>3, <2>6, <2>7 DEF ModelInv
  <2> QED
    BY <2>2, <2>8
<1>4. CASE ~ (a.failed \/ a.answered) /\ ~ turn.fails /\ turn.calls = <<>>
  <2>1. PICK b : b = [a EXCEPT !.answered = TRUE]
    OBVIOUS
  <2>2. Turn(a, turn) = b
    BY <1>4, <2>1 DEF Turn
  <2>3. /\ b \in RunOf /\ b.failed = a.failed /\ b.trace = a.trace
        /\ b.profile = a.profile /\ b.compared = a.compared
    BY ONLY <1>1, <2>1 DEF RunOf
  <2>4. ModelInv(b)
    BY <2>3 DEF ModelInv, Pending, Told
  <2> QED
    BY <2>2, <2>4
<1>5. CASE ~ (a.failed \/ a.answered) /\ ~ turn.fails /\ turn.calls # <<>>
  <2>1. PICK calls \in Seq(Call) : calls = turn.calls
    BY DEF ModelTurn
  <2>2. PICK n \in Nat : n = Len(calls) /\ DOMAIN calls = 1..n
    OBVIOUS
  <2>3. PICK A : A = {b \in RunOf : ModelInv(b)}
    OBVIOUS
  <2>4. PICK B : B = [k \in 0..n |-> A]
    OBVIOUS
  <2>5. a \in A /\ \A k \in 0..n : B[k] = A
    BY <1>1, <2>3, <2>4
  <2>6. \A k \in 1..n : \A x \in A : CallTool(x, calls[k]) \in A
    <3> SUFFICES ASSUME NEW k \in 1..n, NEW x \in A PROVE CallTool(x, calls[k]) \in A
      OBVIOUS
    <3>1. calls[k] \in Call
      BY <2>1, <2>2
    <3>2. ModelInv(CallTool(x, calls[k]))
      BY <2>3, <3>1, CallStays
    <3> QED
      BY <2>3, <3>2 DEF ModelInv
  <2>7. \A k \in 1..n : k - 1 \in 0..n /\ k \in 0..n
    OBVIOUS
  <2>8. CallToolStages(B, n, calls, A, a)
    <3>1. B \in [0..n -> SUBSET A] /\ 0 \in 0..n
      BY <2>4, <2>5
    <3>2. \A k \in 1..n : \A x \in B[k - 1] : CallTool(x, calls[k]) \in B[k]
      BY <2>5, <2>6, <2>7
    <3> QED
      BY ONLY <2>5, <2>6, <3>1, <3>2 DEF CallToolStages
  <2>9. FoldLeft(CallTool, a, calls) \in B[n]
    BY ONLY <2>2, <2>8, n \in Nat, CallToolFolds
  <2>10. Turn(a, turn) = FoldLeft(CallTool, a, calls)
    BY <1>5, <2>1 DEF Turn
  <2>11. n \in 0..n
    OBVIOUS
  <2> QED
    BY <2>3, <2>5, <2>9, <2>10, <2>11
<1>6. turn.fails \in BOOLEAN /\ a.failed \in BOOLEAN /\ a.answered \in BOOLEAN
  BY <1>1 DEF ModelTurn, RunOf
<1> QED
  BY <1>2, <1>3, <1>4, <1>5, <1>6

LEMMA FreshIs == Fresh \in RunOf /\ ModelInv(Fresh)
<1>1. <<>> \in Seq(Events)
  BY EmptySeq
<1>2. Fresh \in RunOf /\ Fresh.trace = <<>> /\ Fresh.profile = NoProfile /\ Fresh.compared = NoProfile /\ ~ Fresh.failed
  BY <1>1 DEF Fresh, RunOf, Found, Labels
<1>3. \A step : Steps(<<>>, step) = 0
  <2> TAKE step
  <2>1. {k \in DOMAIN <<>> : <<>>[k][1] = step} = {}
    OBVIOUS
  <2> QED
    BY <2>1, FS_EmptySet DEF Steps
<1>4. Pending(Fresh) = 0
  BY <1>2, <1>3 DEF Pending
<1> QED
  BY <1>2, <1>4 DEF ModelInv

LEMMA ModelStays ==
  ASSUME NEW turns \in Seq(ModelTurn) PROVE ModelInv(ModelRun(turns))
<1>1. PICK n \in Nat : n = Min({Len(turns), MaxAgentTurns}) /\ n <= Len(turns)
  <2>1. PICK x, y \in Nat : x = Len(turns) /\ y = MaxAgentTurns
    BY AgentAssumption
  <2>2. (x <= y => Min({x, y}) = x) /\ (y <= x => Min({x, y}) = y)
    BY DEF Min
  <2> QED
    BY <2>1, <2>2
<1>2. PICK seq : seq = SubSeq(turns, 1, n)
  OBVIOUS
<1>3. seq \in Seq(ModelTurn) /\ Len(seq) = n
  <2>1. \A i \in 1..n : turns[i] \in ModelTurn
    <3> TAKE i \in 1..n
    <3>1. i \in 1..Len(turns)
      BY <1>1
    <3> QED
      BY <3>1, ElementOfSeq
  <2>2. 1 \in Int /\ n \in Int
    OBVIOUS
  <2> QED
    BY <1>2, <2>1, <2>2, SubSeqProperties
<1>4. DOMAIN seq = 1..n
  BY <1>3
<1>5. PICK A : A = {b \in RunOf : ModelInv(b)}
  OBVIOUS
<1>6. PICK B : B = [k \in 0..n |-> A]
  OBVIOUS
<1>7. Fresh \in A /\ \A k \in 0..n : B[k] = A
  BY <1>5, <1>6, FreshIs
<1>8. \A k \in 1..n : \A x \in A : Turn(x, seq[k]) \in A
  <2> SUFFICES ASSUME NEW k \in 1..n, NEW x \in A PROVE Turn(x, seq[k]) \in A
    OBVIOUS
  <2>1. seq[k] \in ModelTurn
    BY <1>3, <1>4
  <2>2. ModelInv(Turn(x, seq[k]))
    BY <1>5, <2>1, TurnStays
  <2> QED
    BY <1>5, <2>2 DEF ModelInv
<1>9. TurnStages(B, n, seq, A, Fresh)
  <2>1. \A k \in 1..n : k - 1 \in 0..n /\ k \in 0..n
    OBVIOUS
  <2>2. B \in [0..n -> SUBSET A] /\ 0 \in 0..n
    BY <1>6, <1>7
  <2>3. \A k \in 1..n : \A x \in B[k - 1] : Turn(x, seq[k]) \in B[k]
    BY <1>7, <1>8, <2>1
  <2> QED
    BY ONLY <1>7, <1>8, <2>2, <2>3 DEF TurnStages
<1>10. FoldLeft(Turn, Fresh, seq) \in B[n]
  BY ONLY <1>4, <1>9, n \in Nat, TurnFolds
<1>11. n \in 0..n
  OBVIOUS
<1>12. ModelRun(turns) = FoldLeft(Turn, Fresh, seq)
  BY <1>1, <1>2 DEF ModelRun
<1> QED
  BY <1>5, <1>7, <1>10, <1>11, <1>12

\* What was found of the j-th tool.
Lacks(a, j) == Missing(a, Tools[j])

\* A run after k calls of the rules, which began where the model left it in a.
RuleInv(a, k, b) ==
  /\ b \in RunOf
  /\ b.profile # NoProfile => Told(b)
  /\ b.compared # NoProfile => b.profile # NoProfile /\ Accepted(Segments(b.compared))
  /\ Pending(b) <= IF b.failed THEN Pending(a) + 1 ELSE Pending(a)
  /\ Len(a.trace) <= Len(b.trace) /\ \A i \in 1..Len(a.trace) : b.trace[i] = a.trace[i]
  /\ b.failed => Len(a.trace) < Len(b.trace) /\ Last(b.trace)[1] = "started"
  /\ ~ b.failed => b.trace = a.trace \/ Last(b.trace)[1] = "completed"
  /\ \A j \in 1..3 : /\ Traced(b.trace, <<"started", Tools[j]>>) \in Nat
                     /\ Traced(a.trace, <<"started", Tools[j]>>) \in Nat
                     /\ Traced(b.trace, <<"started", Tools[j]>>)
                          <= Traced(a.trace, <<"started", Tools[j]>>) + (IF j <= k /\ Lacks(a, j) THEN 1 ELSE 0)
  /\ k < 1 => b.summary = a.summary
  /\ k < 2 => b.profile = a.profile
  /\ k < 3 \/ a.compared # NoProfile => b.compared = a.compared
  /\ ~ b.failed /\ k >= 2 => b.profile # NoProfile
  /\ ~ b.failed /\ k >= 3 => b.compared # NoProfile

LEMMA ToolIs ==
  ASSUME NEW j \in 1..3
  PROVE  /\ Tools[j] = IF j = 1 THEN "summary" ELSE IF j = 2 THEN "timeline" ELSE "compare"
         /\ \A i \in 1..3 : Tools[i] = Tools[j] => i = j
<1>1. \A i \in 1..3 : i = 1 \/ i = 2 \/ i = 3
  OBVIOUS
<1>2. Tools[1] = "summary" /\ Tools[2] = "timeline" /\ Tools[3] = "compare"
  BY DEF Tools
<1> QED
  BY <1>1, <1>2

LEMMA LacksIs ==
  ASSUME NEW a, NEW j \in 1..3
  PROVE  Lacks(a, j) <=> \/ j = 1 /\ a.summary = "none"
                         \/ j = 2 /\ a.profile = NoProfile
                         \/ j = 3 /\ a.compared = NoProfile
<1>1. CASE j = 1
  <2>1. Tools[j] = "summary"
    BY <1>1, ToolIs
  <2> QED
    BY ONLY <1>1, <2>1 DEF Lacks, Missing
<1>2. CASE j = 2
  <2>1. Tools[j] = "timeline"
    BY <1>2, ToolIs
  <2> QED
    BY ONLY <1>2, <2>1 DEF Lacks, Missing
<1>3. CASE j = 3
  <2>1. Tools[j] = "compare"
    BY <1>3, ToolIs
  <2> QED
    BY ONLY <1>3, <2>1 DEF Lacks, Missing
<1>4. j = 1 \/ j = 2 \/ j = 3
  OBVIOUS
<1> QED
  BY <1>1, <1>2, <1>3, <1>4

\* The calls of the rules that are left do not depend on those that were made.
LEMMA RuleStays ==
  ASSUME NEW a, ModelInv(a), NEW k \in 1..3, NEW b, RuleInv(a, k - 1, b),
         NEW call \in Call, call.tool = Tools[k]
  PROVE  RuleInv(a, k, Ruled(b, call))
<1>0. k - 1 \in Nat /\ (k - 1 < 1 <=> k = 1) /\ (k - 1 < 2 <=> k < 3) /\ k - 1 < 3
  OBVIOUS
<1>1. /\ b \in RunOf /\ a \in RunOf
      /\ b.profile # NoProfile => Told(b)
      /\ b.compared # NoProfile => b.profile # NoProfile /\ Accepted(Segments(b.compared))
      /\ Pending(b) <= IF b.failed THEN Pending(a) + 1 ELSE Pending(a)
      /\ Len(a.trace) <= Len(b.trace) /\ \A i \in 1..Len(a.trace) : b.trace[i] = a.trace[i]
      /\ b.failed => Len(a.trace) < Len(b.trace) /\ Last(b.trace)[1] = "started"
      /\ ~ b.failed => b.trace = a.trace \/ Last(b.trace)[1] = "completed"
  BY DEF RuleInv, ModelInv
<1>2. \A j \in 1..3 : /\ Traced(b.trace, <<"started", Tools[j]>>) \in Nat
                      /\ Traced(a.trace, <<"started", Tools[j]>>) \in Nat
                      /\ Traced(b.trace, <<"started", Tools[j]>>)
                           <= Traced(a.trace, <<"started", Tools[j]>>) + (IF j <= k - 1 /\ Lacks(a, j) THEN 1 ELSE 0)
  BY DEF RuleInv
<1>3. /\ k = 1 => b.summary = a.summary
      /\ k < 3 => b.profile = a.profile
      /\ b.compared = a.compared
      /\ ~ b.failed /\ k = 3 => b.profile # NoProfile
  BY <1>0 DEF RuleInv
<1>4. Lacks(b, k) <=> Lacks(a, k)
  BY <1>3, LacksIs
<1>5. /\ Len(a.trace) \in Nat /\ Len(b.trace) \in Nat
      /\ \A step : Steps(a.trace, step) \in Nat /\ Steps(b.trace, step) \in Nat
      /\ a.failed \in BOOLEAN /\ b.failed \in BOOLEAN
  <2>1. a.trace \in Seq(Events) /\ b.trace \in Seq(Events)
    BY <1>1 DEF RunOf
  <2> QED
    BY <1>1, <2>1, StepsAre DEF RunOf
\* As it was: the result is there, or a call has failed.
<1>6. CASE ~ Lacks(b, k) \/ b.failed
  <2>1. Ruled(b, call) = b
    <3>1. Lacks(b, k) <=> Missing(b, call.tool)
      BY DEF Lacks
    <3> QED
      BY <1>6, <3>1 DEF Ruled, CallTool
  <2>2. \A j \in 1..3 :
          Traced(b.trace, <<"started", Tools[j]>>)
            <= Traced(a.trace, <<"started", Tools[j]>>) + (IF j <= k /\ Lacks(a, j) THEN 1 ELSE 0)
    <3> TAKE j \in 1..3
    <3>1. PICK x, y \in Nat : x = Traced(b.trace, <<"started", Tools[j]>>) /\ y = Traced(a.trace, <<"started", Tools[j]>>)
      BY <1>2
    <3>2. x <= y + (IF j <= k - 1 /\ Lacks(a, j) THEN 1 ELSE 0)
      BY <1>2, <3>1
    <3>3. x <= y + (IF j <= k /\ Lacks(a, j) THEN 1 ELSE 0)
      BY <3>2
    <3> QED
      BY <3>1, <3>3
  <2>3. ~ b.failed /\ k >= 2 => b.profile # NoProfile
    <3>1. CASE k = 2
      BY <1>6, <3>1, LacksIs
    <3>2. CASE k = 3
      BY <1>3, <3>2
    <3> QED
      BY <3>1, <3>2
  <2>4. ~ b.failed /\ k >= 3 => b.compared # NoProfile
    BY <1>6, LacksIs
  <2>5. (k < 1 => b.summary = a.summary) /\ (k < 2 => b.profile = a.profile) /\ b.compared = a.compared
    BY <1>0, <1>3
  <2>6. RuleInv(a, k, b)
    BY ONLY <1>1, <1>2, <2>2, <2>3, <2>4, <2>5 DEF RuleInv
  <2> QED
    BY <2>1, <2>6
<1>7. CASE Lacks(b, k) /\ ~ b.failed
  <2>1. PICK c : c = CallTool(b, call)
    OBVIOUS
  <2>2. Ruled(b, call) = c
    <3>1. Lacks(b, k) <=> Missing(b, call.tool)
      BY DEF Lacks
    <3> QED
      BY <1>7, <2>1, <3>1 DEF Ruled
  <2>3. Called(b, c, call)
    BY <1>1, <1>7, <2>1, CallIs
  <2>4. /\ c \in RunOf
        /\ c.profile # NoProfile => Told(c)
        /\ c.compared # NoProfile => c.profile # NoProfile /\ Accepted(Segments(c.compared))
        /\ Pending(b) \in Int /\ Pending(c) = IF c.failed THEN Pending(b) + 1 ELSE Pending(b)
    BY <1>1, <1>7, <2>3, CallFinds
  <2>5. PICK tool : tool = call.tool
    OBVIOUS
  <2>6. Grown(b, c, tool)
    BY <1>1, <2>3, <2>5, TraceGrows
  <2>7. Pending(c) <= IF c.failed THEN Pending(a) + 1 ELSE Pending(a)
    <3>1. Pending(a) \in Int
      BY <1>5 DEF Pending
    <3>2. Pending(b) <= Pending(a)
      BY <1>1, <1>7
    <3> QED
      BY ONLY <2>4, <3>1, <3>2
  <2>8. /\ Len(a.trace) < Len(c.trace) /\ \A i \in 1..Len(a.trace) : c.trace[i] = a.trace[i]
    <3>1. /\ Len(b.trace) < Len(c.trace) /\ Len(c.trace) \in Nat
          /\ \A i \in 1..Len(b.trace) : c.trace[i] = b.trace[i]
      BY <2>6 DEF Grown
    <3>2. \A i \in 1..Len(a.trace) : i \in 1..Len(b.trace)
      BY <1>1, <1>5
    <3> QED
      BY <1>1, <1>5, <3>1, <3>2
  <2>9. /\ c.failed => Last(c.trace)[1] = "started"
        /\ ~ c.failed => Last(c.trace)[1] = "completed"
    BY <2>6 DEF Grown
  <2>10. \A j \in 1..3 :
           /\ Traced(c.trace, <<"started", Tools[j]>>) \in Nat
           /\ Traced(c.trace, <<"started", Tools[j]>>)
                <= Traced(a.trace, <<"started", Tools[j]>>) + (IF j <= k /\ Lacks(a, j) THEN 1 ELSE 0)
    <3> TAKE j \in 1..3
    <3>1. PICK x, y \in Nat : x = Traced(b.trace, <<"started", Tools[j]>>) /\ y = Traced(a.trace, <<"started", Tools[j]>>)
      BY <1>2
    <3>2. x <= y + (IF j <= k - 1 /\ Lacks(a, j) THEN 1 ELSE 0)
      BY <1>2, <3>1
    <3>3. Traced(c.trace, <<"started", Tools[j]>>) = IF Tools[j] = tool THEN x + 1 ELSE x
      BY <2>6, <3>1 DEF Grown
    <3>4. Tools[j] = tool <=> j = k
      BY <2>5, ToolIs
    <3>5. Lacks(a, k)
      BY <1>4, <1>7
    <3>6. CASE j = k
      <4>1. x <= y
        BY <3>2, <3>6
      <4>2. x + 1 \in Nat /\ x + 1 <= y + 1
        BY ONLY <4>1, x \in Nat, y \in Nat
      <4> QED
        BY <3>1, <3>3, <3>4, <3>5, <3>6, <4>2
    <3>7. CASE j # k
      <4>1. x <= y + (IF j <= k /\ Lacks(a, j) THEN 1 ELSE 0)
        BY <3>2, <3>7
      <4> QED
        BY <3>1, <3>3, <3>4, <3>7, <4>1
    <3> QED
      BY <3>6, <3>7
  <2>11. /\ tool # "summary" => c.summary = b.summary
         /\ IF tool = "timeline" THEN IF c.failed THEN c.profile = b.profile ELSE c.profile # NoProfile
            ELSE c.profile = b.profile
         /\ IF tool = "compare" /\ b.profile # NoProfile /\ ~ c.failed
            THEN c.compared = b.profile
            ELSE c.compared = b.compared
    BY <2>3, <2>5 DEF Called
  <2>12. tool = IF k = 1 THEN "summary" ELSE IF k = 2 THEN "timeline" ELSE "compare"
    BY <2>5, ToolIs
  <2>13. /\ k < 2 => c.profile = a.profile
         /\ k < 3 \/ a.compared # NoProfile => c.compared = a.compared
         /\ ~ c.failed /\ k >= 2 => c.profile # NoProfile
         /\ ~ c.failed /\ k >= 3 => c.compared # NoProfile
    <3>1. CASE k = 1
      BY <1>3, <2>11, <2>12, <3>1
    <3>2. CASE k = 2
      BY <1>3, <2>11, <2>12, <3>2
    <3>3. CASE k = 3
      <4>1. a.compared = NoProfile
        BY <1>4, <1>7, <3>3, LacksIs
      <4> QED
        BY <1>3, <1>7, <2>11, <2>12, <3>3, <4>1
    <3> QED
      BY <3>1, <3>2, <3>3
  <2>14. RuleInv(a, k, c)
    <3>1. ~ (k < 1) /\ Len(a.trace) <= Len(c.trace)
      <4>1. Len(c.trace) \in Nat
        BY <2>6 DEF Grown
      <4> QED
        BY <1>5, <2>8, <4>1
    <3> QED
      BY ONLY <1>2, <2>4, <2>7, <2>8, <2>9, <2>10, <2>13, <3>1 DEF RuleInv
  <2> QED
    BY <2>2, <2>14
<1> QED
  BY <1>5, <1>6, <1>7

LEMMA RulesBegin ==
  ASSUME NEW a, ModelInv(a), NEW b, b = [a EXCEPT !.failed = FALSE] PROVE RuleInv(a, 0, b)
<1>1. a \in RunOf
  BY DEF ModelInv
<1>2. /\ b \in RunOf /\ ~ b.failed /\ b.trace = a.trace /\ b.summary = a.summary
      /\ b.profile = a.profile /\ b.compared = a.compared
  BY ONLY <1>1, b = [a EXCEPT !.failed = FALSE] DEF RunOf
<1>3. PICK trace \in Seq(Events) : trace = a.trace
  BY <1>1 DEF RunOf
<1>4. \A event : Traced(trace, event) \in Nat
  <2> TAKE event
  <2>1. PICK n \in Nat : DOMAIN trace = 1..n
    OBVIOUS
  <2>2. {k \in 1..n : trace[k] = event} \in SUBSET (1..n)
    OBVIOUS
  <2> QED
    BY <2>1, <2>2, CountNext DEF Traced
<1>5. Pending(a) \in Int /\ Pending(b) = Pending(a)
  BY <1>2, <1>3, StepsAre DEF Pending
<1>6. (b.profile # NoProfile => Told(b)) /\ (b.compared # NoProfile => b.profile # NoProfile /\ Accepted(Segments(b.compared)))
  BY <1>2 DEF ModelInv, Told
<1>7. \A j \in 1..3 : \A x \in Nat : x <= x + (IF j <= 0 /\ Lacks(a, j) THEN 1 ELSE 0)
  OBVIOUS
<1>8. Len(a.trace) <= Len(b.trace)
  BY <1>2, <1>3
<1>9. Pending(b) <= Pending(a)
  BY <1>5
<1>10. ~ (0 >= 2) /\ ~ (0 >= 3)
  OBVIOUS
<1> QED
  BY ONLY <1>2, <1>3, <1>4, <1>6, <1>7, <1>8, <1>9, <1>10 DEF RuleInv

LEMMA RuledIn == ASSUME NEW b \in RunOf, NEW call \in Call PROVE Ruled(b, call) \in RunOf
<1>1. CASE b.failed \/ ~ Missing(b, call.tool)
  BY <1>1 DEF Ruled, CallTool
<1>2. CASE ~ b.failed /\ Missing(b, call.tool)
  <2>1. PICK c : c = CallTool(b, call)
    OBVIOUS
  <2>2. Called(b, c, call)
    BY <1>2, <2>1, CallIs
  <2> QED
    BY <1>2, <2>1, <2>2 DEF Ruled, Called
<1> QED
  BY <1>1, <1>2

LEMMA RulesStay ==
  ASSUME NEW a, ModelInv(a), NEW rules \in Seq(Call), Len(rules) = 3, \A k \in 1..3 : rules[k].tool = Tools[k]
  PROVE  RuleInv(a, 3, FallbackRun(a, rules))
<1>1. PICK b : b = [a EXCEPT !.failed = FALSE]
  OBVIOUS
<1>2. DOMAIN rules = 1..3 /\ \A k \in 1..3 : rules[k] \in Call
  BY ONLY rules \in Seq(Call), Len(rules) = 3, LenProperties, ElementOfSeq
<1>3. PICK B : B = [k \in 0..3 |-> {c \in RunOf : RuleInv(a, k, c)}]
  OBVIOUS
<1>4. \A k \in 0..3 : \A c : c \in B[k] <=> c \in RunOf /\ RuleInv(a, k, c)
  BY <1>3
<1>5. b \in B[0]
  <2>1. RuleInv(a, 0, b)
    BY <1>1, RulesBegin
  <2>2. b \in RunOf /\ 0 \in 0..3
    BY <2>1 DEF RuleInv
  <2> QED
    BY <1>4, <2>1, <2>2
<1>6. \A k \in 1..3 : \A c \in RunOf : Ruled(c, rules[k]) \in RunOf
  BY <1>2, RuledIn
<1>7. \A k \in 1..3 : \A c \in B[k - 1] : Ruled(c, rules[k]) \in B[k]
  <2> SUFFICES ASSUME NEW k \in 1..3, NEW c \in B[k - 1] PROVE Ruled(c, rules[k]) \in B[k]
    OBVIOUS
  <2>1. k - 1 \in 0..3 /\ k \in 0..3
    OBVIOUS
  <2>2. c \in RunOf /\ RuleInv(a, k - 1, c)
    BY <1>4, <2>1
  <2>3. PICK call \in Call : call = rules[k] /\ call.tool = Tools[k]
    BY <1>2
  <2>4. RuleInv(a, k, Ruled(c, call))
    BY <2>2, <2>3, RuleStays
  <2> QED
    BY <1>4, <1>6, <2>1, <2>2, <2>3, <2>4
<1>8. RuledStages(B, 3, rules, RunOf, b)
  <2>1. B \in [0..3 -> SUBSET RunOf]
    BY <1>3
  <2> QED
    BY ONLY <1>5, <1>6, <1>7, <2>1 DEF RuledStages
<1>9. FoldLeft(Ruled, b, rules) \in B[3]
  <2>1. 3 \in Nat
    OBVIOUS
  <2> QED
    BY ONLY <1>2, <1>8, <2>1, RuledFolds
<1>10. FallbackRun(a, rules) = FoldLeft(Ruled, b, rules)
  BY <1>1 DEF FallbackRun
<1>11. 3 \in 0..3
  OBVIOUS
<1> QED
  BY <1>4, <1>9, <1>10, <1>11

\* One trace begins another.
LEMMA Begun ==
  ASSUME NEW s \in Seq(Events), NEW t \in Seq(Events), Len(s) <= Len(t), \A i \in 1..Len(s) : t[i] = s[i]
  PROVE  IsPrefix(s, t)
<1>1. PICK n \in Nat : n = Len(s) /\ n <= Len(t)
  OBVIOUS
<1>2. PICK x, y : x = SubSeq(s, 1, n) /\ y = SubSeq(t, 1, n)
  OBVIOUS
<1>3. \A i \in 1..n : s[i] \in Events /\ t[i] \in Events
  BY <1>1, ElementOfSeq
<1>4. 1 \in Int /\ n \in Int
  OBVIOUS
<1>5. x \in Seq(Events) /\ Len(x) = n /\ \A i \in 1..n : x[i] = s[i]
  BY <1>2, <1>3, <1>4, SubSeqProperties
<1>6. y \in Seq(Events) /\ Len(y) = n /\ \A i \in 1..n : y[i] = t[i]
  BY <1>2, <1>3, <1>4, SubSeqProperties
<1>7. x = y
  <2>1. \A i \in 1..Len(x) : x[i] = y[i]
    BY <1>1, <1>5, <1>6
  <2> QED
    BY ONLY <1>5, <1>6, <2>1, SeqEqual
<1> QED
  BY <1>1, <1>2, <1>7 DEF IsPrefix

LEMMA PendingIs == ASSUME NEW a \in RunOf PROVE Pending(a) \in Int
<1>1. a.trace \in Seq(Events)
  BY DEF RunOf
<1> QED
  BY <1>1, StepsAre DEF Pending

LEMMA TracedIs == ASSUME NEW a \in RunOf, NEW event PROVE Traced(a.trace, event) \in Nat
<1>1. PICK trace \in Seq(Events) : trace = a.trace
  BY DEF RunOf
<1>2. PICK n \in Nat : DOMAIN trace = 1..n
  OBVIOUS
<1>3. {k \in 1..n : trace[k] = event} \in SUBSET (1..n)
  OBVIOUS
<1> QED
  BY <1>1, <1>2, <1>3, CountNext DEF Traced

\* A run the rules were not needed for, and one they were.
LEMMA AloneFinishes ==
  ASSUME NEW a, ModelInv(a), ~ RulesNeeded(a)
  PROVE  Finishes("run_completed", "gemini_tool_agent", a, a)
<1>1. a \in RunOf /\ a.compared # NoProfile /\ ~ a.failed
  BY DEF ModelInv, RulesNeeded
<1>2. Accepted(Segments(a.compared)) /\ Told(a)
  BY <1>1 DEF ModelInv
<1>3. PICK n \in Nat : n = Len(a.trace) /\ DOMAIN a.trace = 1..n
  BY <1>1 DEF RunOf
<1>4. \E k \in DOMAIN a.trace : a.trace[k] = <<"completed", "timeline">>
  BY <1>2, <1>3 DEF Told
<1>5. \A t \in ToSet(Tools) : Traced(a.trace, <<"started", t>>) - Traced(a.trace, <<"started", t>>) <= 0
  <2>1. \A x \in Nat : x - x <= 0
    OBVIOUS
  <2> QED
    BY <1>1, <2>1, TracedIs
<1>6. IsPrefix(a.trace, a.trace)
  <2>1. a.trace \in Seq(Events)
    BY <1>1 DEF RunOf
  <2> QED
    BY <1>3, <2>1, Begun
<1>7. Steps(a.trace, "started") - Steps(a.trace, "completed") <= 2
  <2>1. Pending(a) <= 0 /\ Pending(a) \in Int
    BY <1>1, PendingIs DEF ModelInv
  <2>2. Pending(a) <= 2
    BY <2>1
  <2> QED
    BY <2>2 DEF Pending
<1> QED
  BY ONLY <1>1, <1>2, <1>4, <1>5, <1>6, <1>7 DEF Finishes

LEMMA RuledFinishes ==
  ASSUME NEW a, ModelInv(a), NEW b, RuleInv(a, 3, b), NEW outcome,
         outcome = IF b.failed THEN "run_failed" ELSE "run_completed"
  PROVE  Finishes(outcome, "rule_fallback", a, b)
<1>1. /\ a \in RunOf /\ b \in RunOf /\ b.failed \in BOOLEAN
  BY DEF ModelInv, RuleInv, RunOf
<1>2. /\ b.profile # NoProfile => Told(b)
      /\ b.compared # NoProfile => b.profile # NoProfile /\ Accepted(Segments(b.compared))
      /\ Pending(b) <= IF b.failed THEN Pending(a) + 1 ELSE Pending(a)
      /\ Len(a.trace) <= Len(b.trace) /\ \A i \in 1..Len(a.trace) : b.trace[i] = a.trace[i]
      /\ b.failed => Len(a.trace) < Len(b.trace) /\ Last(b.trace)[1] = "started"
      /\ ~ b.failed => b.trace = a.trace \/ Last(b.trace)[1] = "completed"
      /\ a.compared # NoProfile => b.compared = a.compared
      /\ ~ b.failed => b.compared # NoProfile
  BY DEF RuleInv
<1>3. /\ a.trace \in Seq(Events) /\ b.trace \in Seq(Events)
      /\ Len(a.trace) \in Nat /\ Len(b.trace) \in Nat /\ DOMAIN b.trace = 1..Len(b.trace)
  BY <1>1 DEF RunOf
<1>4. outcome = "run_completed" <=> ~ b.failed
  BY <1>1
<1>5. outcome = "run_failed" <=> b.failed
  BY <1>1
<1>6. outcome = "run_completed" =>
        /\ b.compared # NoProfile /\ Accepted(Segments(b.compared))
        /\ \E k \in DOMAIN b.trace : b.trace[k] = <<"completed", "timeline">>
  BY <1>2, <1>3, <1>4 DEF Told
<1>7. outcome = "run_failed" <=>
        /\ "rule_fallback" = "rule_fallback"
        /\ Last(b.trace)[1] = "started" /\ b.trace # a.trace
  <2>1. CASE b.failed
    <3>1. b.trace # a.trace
      BY <1>2, <1>3, <2>1
    <3> QED
      BY <1>2, <1>5, <2>1, <3>1
  <2>2. CASE ~ b.failed
    BY <1>2, <1>5, <2>2
  <2> QED
    BY <2>1, <2>2
<1>8. \A t \in ToSet(Tools) :
        Traced(b.trace, <<"started", t>>) - Traced(a.trace, <<"started", t>>)
          <= (IF "rule_fallback" = "rule_fallback" /\ Missing(a, t) THEN 1 ELSE 0)
  <2> SUFFICES ASSUME NEW t \in ToSet(Tools)
               PROVE  Traced(b.trace, <<"started", t>>) - Traced(a.trace, <<"started", t>>)
                        <= (IF Missing(a, t) THEN 1 ELSE 0)
    OBVIOUS
  <2>1. PICK j \in 1..3 : t = Tools[j]
    BY DEF ToSet, Tools
  <2>2. PICK x, y \in Nat : x = Traced(b.trace, <<"started", t>>) /\ y = Traced(a.trace, <<"started", t>>)
    BY <1>1, TracedIs
  <2>3. PICK lacks \in BOOLEAN : lacks <=> Missing(a, t)
    OBVIOUS
  <2>4. j <= 3
    OBVIOUS
  <2>5. x <= y + (IF lacks THEN 1 ELSE 0)
    BY <2>1, <2>2, <2>3, <2>4 DEF RuleInv, Lacks
  <2>6. x - y <= (IF lacks THEN 1 ELSE 0)
    BY ONLY <2>5, x \in Nat, y \in Nat
  <2> QED
    BY <2>2, <2>3, <2>6
<1>9. IsPrefix(a.trace, b.trace)
  BY <1>2, <1>3, Begun
<1>10. Steps(b.trace, "started") - Steps(b.trace, "completed") <= 2
  <2>1. Pending(a) <= IF a.failed THEN 1 ELSE 0
    BY DEF ModelInv
  <2>2. Pending(b) <= IF b.failed THEN Pending(a) + 1 ELSE Pending(a)
    BY <1>2
  <2>3. Pending(a) \in Int /\ Pending(b) \in Int
    BY <1>1, PendingIs
  <2>4. Pending(b) <= 2
    BY ONLY <2>1, <2>2, <2>3
  <2> QED
    BY <2>4 DEF Pending
<1> QED
  BY ONLY <1>2, <1>6, <1>7, <1>8, <1>9, <1>10 DEF Finishes

LEMMA EveryRunFinishes == ASSUME NEW script \in Script PROVE AgentFinishes(script)
<1>1. /\ script.turns \in Seq(ModelTurn) /\ script.rules \in Seq(Call) /\ Len(script.rules) = 3
      /\ \A k \in 1..3 : script.rules[k].tool = Tools[k]
  BY DEF Script
<1>2. PICK a : a = ModelRun(script.turns)
  OBVIOUS
<1>3. ModelInv(a)
  BY <1>1, <1>2, ModelStays
<1>4. PICK b : b = IF RulesNeeded(a) THEN FallbackRun(a, script.rules) ELSE a
  OBVIOUS
<1>5. PICK outcome, source :
        /\ outcome = IF b.failed THEN "run_failed" ELSE "run_completed"
        /\ source = IF RulesNeeded(a) THEN "rule_fallback" ELSE "gemini_tool_agent"
  OBVIOUS
<1>6. PICK r : r = AgentRun(script)
  OBVIOUS
<1>7. r.outcome = outcome /\ r.source = source /\ r.model = a /\ r.state = b
  BY <1>2, <1>4, <1>5, <1>6 DEF AgentRun, AfterModel, Ended
<1>8. Finishes(outcome, source, a, b)
  <2>1. CASE RulesNeeded(a)
    <3>1. RuleInv(a, 3, b)
      BY <1>1, <1>3, <1>4, <2>1, RulesStay
    <3> QED
      BY <1>3, <1>5, <2>1, <3>1, RuledFinishes
  <2>2. CASE ~ RulesNeeded(a)
    <3>1. ~ a.failed
      BY <2>2 DEF RulesNeeded
    <3>2. b = a /\ outcome = "run_completed" /\ source = "gemini_tool_agent"
      BY <1>4, <1>5, <2>2, <3>1
    <3> QED
      BY <1>3, <2>2, <3>2, AloneFinishes
  <2> QED
    BY <2>1, <2>2
<1> QED
  BY <1>6, <1>7, <1>8 DEF AgentFinishes

\* However the model calls the tools and whatever fails, a run of the agent ends with a
\* comparison of a profile the API took, or because a call of the rules failed, and the
\* rules repeat nothing the model has found out.
THEOREM AgentEnds == Spec => []AgentAlwaysFinishes
<1>1. \A script \in Scripts : AgentFinishes(script)
  BY ScriptAssumption, EveryRunFinishes
<1>2. AgentAlwaysFinishes
  BY <1>1 DEF AgentAlwaysFinishes
<1> QED
  BY <1>2, PTL
=============================================================================
