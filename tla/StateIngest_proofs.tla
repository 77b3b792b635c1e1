------------------------- MODULE StateIngest_proofs -------------------------
(***************************************************************************)
(* The safety properties of StateIngest for any number of request threads, *)
(* frame ids, capture times and posts.  The inductive invariant adds to    *)
(* the properties what a running transaction knows: its loaded metric was  *)
(* not too large (LoadedBelow), and without overlap it is the only one and *)
(* what it loaded is still in the tables (Alone); NumberInv bounds the     *)
(* rows ever stored by the posts begun.                                    *)
(*                                                                         *)
(* The states that are posted come from PersonTracking.  Its properties    *)
(* are proved in the second part, for any footage, staff and sightings;    *)
(* the invariant there (TrackInv) holds the tallies, the locks and the     *)
(* staff kept out of sight to the scene they belong to.                    *)
(***************************************************************************)
EXTENDS StateIngest, PersonTracking, FiniteSetTheorems, SequenceTheorems, WellFoundedInduction, TLAPS

Step == {"idle", "raw", "history", "hourly", "flush"}
Transaction == [pc: Step, state: StateRow, current: Columns, known: BOOLEAN, sample: Columns, metric: Metric]

Busy == {h \in Handler : tx[h].pc # "idle"}

\* A transaction runs for a state that was posted.
StateInv == \A h \in Handler : tx[h].pc # "idle" => tx[h].state \in State

\* Rows are numbered from 1, and every one of them had a post of its own that has ended.
NumberInv ==
  /\ IsFiniteSet(accepted)
  /\ \A r \in accepted : r.id <= Cardinality(accepted)
  /\ Cardinality(accepted) + Cardinality(Busy) <= posts

\* The metric a new state goes by counts no more than what its hour has stored.
LoadedBelow ==
  \A h \in Handler : tx[h].pc = "flush" /\ ~tx[h].known =>
    /\ tx[h].metric.count <= Cardinality(InHour(Hour(tx[h].state.at)))
    /\ tx[h].metric.sum <= People(InHour(Hour(tx[h].state.at)))

\* Without overlap there is one transaction, and what it has loaded has not changed.
Alone ==
  ~overlapped =>
    /\ \A g, h \in Handler : tx[g].pc # "idle" /\ tx[h].pc # "idle" => g = h
    /\ \A h \in Handler :
         /\ tx[h].pc # "idle" => tx[h].current = current
         /\ tx[h].pc = "hourly" \/ (tx[h].pc = "flush" /\ ~tx[h].known)
              => tx[h].sample = history[Sample(tx[h].state.at)]
         /\ tx[h].pc = "flush" /\ ~tx[h].known => tx[h].metric = hourly[Hour(tx[h].state.at)]

\* A bucket or an hour in which nothing was stored has no row.
Empty ==
  ~overlapped =>
    /\ \A b \in Samples : InSample(b) = {} => history[b] = NoRow
    /\ \A hr \in Hours : InHour(hr) = {} => hourly[hr] = NoMetric

IInv == /\ RawOnce /\ StateInv /\ NumberInv /\ NothingOvercounted /\ LoadedBelow
        /\ Alone /\ CurrentUnlessOverlap /\ Empty /\ HistoryKeepsLast /\ HourlyExact

-----------------------------------------------------------------------------
(* Counting the rows of an hour and the people in them *)

Heads(S) == {p \in S \X (1..MaxPeople) : p[2] <= p[1].people}

LEMMA HeadsFinite ==
  ASSUME NEW S, IsFiniteSet(S)
  PROVE  /\ IsFiniteSet(Heads(S)) /\ People(S) = Cardinality(Heads(S)) /\ People(S) \in Nat
         /\ People(S) <= Cardinality(S) * MaxPeople
<1>1. IsFiniteSet(1..MaxPeople) /\ Cardinality(1..MaxPeople) = MaxPeople
  BY BoundsAssumption, FS_Interval
<1>2. IsFiniteSet(S \X (1..MaxPeople)) /\ Cardinality(S \X (1..MaxPeople)) = Cardinality(S) * MaxPeople
  BY <1>1, FS_Product
<1>3. IsFiniteSet(Heads(S)) /\ Cardinality(Heads(S)) <= Cardinality(S \X (1..MaxPeople))
  BY <1>2, FS_Subset DEF Heads
<1>4. People(S) = Cardinality(Heads(S))
  BY DEF People, Heads
<1>5. Cardinality(Heads(S)) \in Nat
  BY <1>3, FS_CardinalityType
<1> QED
  BY <1>2, <1>3, <1>4, <1>5

LEMMA OneMore ==
  ASSUME NEW S, IsFiniteSet(S), NEW r \in RawRow, r \notin S
  PROVE  /\ IsFiniteSet(S \cup {r}) /\ Cardinality(S) \in Nat
         /\ Cardinality(S \cup {r}) = Cardinality(S) + 1
         /\ People(S) \in Nat /\ People(S \cup {r}) = People(S) + r.people
<1>1. r.people \in 0..MaxPeople /\ r.people \in Nat
  BY BoundsAssumption DEF RawRow
<1>2. IsFiniteSet(S \cup {r}) /\ Cardinality(S \cup {r}) = Cardinality(S) + 1 /\ Cardinality(S) \in Nat
  BY FS_AddElement, FS_CardinalityType
<1> DEFINE A == {r}
           B == 1..r.people
           C == A \X B
<1>3. IsFiniteSet(C) /\ Cardinality(C) = r.people
  <2>1. IsFiniteSet(A) /\ Cardinality(A) = 1
    BY FS_Singleton
  <2>2. IsFiniteSet(B) /\ Cardinality(B) = r.people
    <3>1. \A n \in Nat : IsFiniteSet(1..n) /\ Cardinality(1..n) = n
      BY FS_Interval
    <3> QED
      BY <1>1, <3>1
  <2> HIDE DEF A, B
  <2>3. IsFiniteSet(C) /\ Cardinality(C) = 1 * r.people
    BY <2>1, <2>2, FS_Product
  <2> QED
    BY <1>1, <2>3
<1>4. Heads(S \cup {r}) = Heads(S) \cup C
  BY <1>1, BoundsAssumption DEF Heads
<1>5. Heads(S) \cap C = {}
  BY DEF Heads
<1>6. IsFiniteSet(Heads(S)) /\ People(S) = Cardinality(Heads(S)) /\ People(S) \in Nat
  BY HeadsFinite
<1>7. Cardinality(Heads(S \cup {r})) = Cardinality(Heads(S)) + r.people
  <2> HIDE DEF C
  <2>1. Cardinality(Heads(S) \cup C) = Cardinality(Heads(S)) + Cardinality(C) - Cardinality(Heads(S) \cap C)
    BY <1>3, <1>6, FS_Union
  <2>2. Cardinality(Heads(S) \cap C) = 0
    BY <1>5, FS_EmptySet
  <2>3. Cardinality(Heads(S)) \in Nat
    BY <1>6
  <2>4. Cardinality(Heads(S \cup {r})) = Cardinality(Heads(S) \cup C)
    BY <1>4
  <2>5. Cardinality(C) = r.people /\ r.people \in Nat
    BY <1>1, <1>3
  <2> QED
    BY <2>1, <2>2, <2>3, <2>4, <2>5
<1> QED
  BY <1>2, <1>6, <1>7, HeadsFinite

-----------------------------------------------------------------------------
(* Columns of a row *)

LEMMA UpdatedSame ==
  /\ \A row, wanted \in Columns : Updated(row, row, wanted) = wanted
  /\ \A row, wanted \in Metric : Updated(row, row, wanted) = wanted
BY DEF Updated, Columns, Metric

LEMMA UpdatedColumns ==
  ASSUME NEW row \in Columns, NEW loaded \in Columns, NEW wanted \in Columns
  PROVE  Updated(row, loaded, wanted) \in Columns
BY DEF Updated, Columns

LEMMA UpdatedMetric ==
  ASSUME NEW row \in Metric, NEW loaded \in Metric, NEW wanted \in Metric
  PROVE  LET m == Updated(row, loaded, wanted)
         IN  /\ m \in Metric
             /\ m.count = IF wanted.count = loaded.count THEN row.count ELSE wanted.count
             /\ m.sum = IF wanted.sum = loaded.sum THEN row.sum ELSE wanted.sum
BY DEF Updated, Metric

LEMMA NewMetricFits ==
  ASSUME NEW m \in Metric, NEW q \in State
  PROVE  LET n == NewMetric(m, q)
         IN  /\ n.count = m.count + 1 /\ n.sum = m.sum + q.people
             /\ n.peak \in 0..MaxPeople /\ n.latestAt \in 0..MaxTime /\ n.latestPeople \in 0..MaxPeople
BY BoundsAssumption DEF NewMetric, Metric, State, Time

LEMMA NewSampleFits ==
  ASSUME NEW c \in Columns, NEW q \in State PROVE NewSample(c, q) \in Columns
BY BoundsAssumption DEF NewSample, Columns, State, Time

LEMMA InHourFinite ==
  ASSUME IInv, NEW hr
  PROVE  /\ IsFiniteSet(InHour(hr)) /\ Cardinality(InHour(hr)) \in Nat
         /\ Cardinality(InHour(hr)) <= Cardinality(accepted) /\ Cardinality(accepted) \in Nat
         /\ People(InHour(hr)) \in Nat
         /\ People(InHour(hr)) <= Cardinality(InHour(hr)) * MaxPeople
<1>1. IsFiniteSet(accepted) /\ InHour(hr) \in SUBSET accepted
  BY DEF IInv, NumberInv, InHour
<1>2. IsFiniteSet(InHour(hr)) /\ Cardinality(InHour(hr)) <= Cardinality(accepted)
  BY <1>1, FS_Subset
<1> QED
  BY <1>1, <1>2, HeadsFinite, FS_CardinalityType

-----------------------------------------------------------------------------
(* Steps that leave the tables alone *)

LEMMA Quiet ==
  ASSUME IInv, UNCHANGED <<tables, accepted, last>>, overlapped => overlapped', TypeOK'
  PROVE  RawOnce' /\ NothingOvercounted' /\ CurrentUnlessOverlap' /\ Empty' /\ HistoryKeepsLast' /\ HourlyExact'
BY DEF tables, IInv, RawOnce, NothingOvercounted, CurrentUnlessOverlap, CurrentIsLastReceived, Empty,
       HistoryKeepsLast, HourlyExact, InHour, InSample

\* Thread h's transaction becomes t, the others stay.
Becomes(h, t) ==
  /\ tx' \in [Handler -> Transaction] /\ tx'[h] = t
  /\ \A g \in Handler : g # h => tx'[g] = tx[g]

LEMMA IdleIsTransaction == Idle \in Transaction /\ Idle.pc = "idle"
BY BoundsAssumption DEF Idle, Transaction, Step, NoRow, NoMetric, StateRow, Columns, Metric

LEMMA BusyNumbers ==
  ASSUME IInv
  PROVE  /\ IsFiniteSet(Busy) /\ Cardinality(Busy) \in Nat /\ Cardinality(accepted) \in Nat
         /\ posts \in Nat /\ Cardinality(accepted) <= MaxPosts
<1>1. IsFiniteSet(Busy) /\ IsFiniteSet(accepted)
  BY BoundsAssumption, FS_Subset DEF IInv, NumberInv, Busy
<1>2. Cardinality(Busy) \in Nat /\ Cardinality(accepted) \in Nat
  BY <1>1, FS_CardinalityType
<1> QED
  BY <1>1, <1>2, BoundsAssumption DEF IInv, RawOnce, TypeOK, NumberInv

\* While a transaction runs there is a post without a row.
LEMMA RoomForOne ==
  ASSUME IInv, NEW h \in Busy
  PROVE  Cardinality(Busy \ {h}) = Cardinality(Busy) - 1 /\ Cardinality(accepted) + 1 <= MaxPosts
<1>1. Cardinality(Busy \ {h}) = Cardinality(Busy) - 1 /\ Cardinality(Busy \ {h}) \in Nat
  BY BusyNumbers, FS_RemoveElement, FS_CardinalityType
<1> QED
  BY <1>1, BusyNumbers, BoundsAssumption DEF IInv, RawOnce, TypeOK, NumberInv

LEMMA BeginStep == ASSUME IInv, NEW h \in Handler, NEW s \in State, Begin(h, s) PROVE IInv'
<1> DEFINE t == [Idle EXCEPT !.pc = "raw", !.state = s, !.current = current]
<1>1. tx \in [Handler -> Transaction] /\ current \in Columns
  BY DEF IInv, RawOnce, TypeOK, Transaction, Step
<1>2. t \in Transaction /\ t.pc = "raw" /\ t.state = s /\ t.current = current
  BY <1>1, IdleIsTransaction DEF Transaction, Step, StateRow
<1>3. tx[h].pc = "idle" /\ posts < MaxPosts /\ posts' = posts + 1
  BY DEF Begin
<1>4. UNCHANGED <<tables, accepted, last>>
  BY DEF Begin
<1>5. overlapped' = (overlapped \/ \E g \in Handler : tx[g].pc # "idle")
  BY DEF Begin
<1>6. Becomes(h, t)
  BY <1>1, <1>2 DEF Begin, Becomes
<1> HIDE DEF t
<1>7. TypeOK'
  <2>1. overlapped' \in BOOLEAN
    BY <1>5
  <2>2. posts' \in 0..MaxPosts
    BY <1>3, BusyNumbers, BoundsAssumption DEF IInv, RawOnce, TypeOK
  <2> QED
    BY <1>4, <1>6, <2>1, <2>2 DEF IInv, RawOnce, TypeOK, tables, Becomes, Transaction, Step
<1>8. StateInv'
  BY <1>2, <1>6 DEF IInv, StateInv, Becomes
<1>9. NumberInv'
  <2>1. Busy' = Busy \cup {h} /\ h \notin Busy
    BY <1>2, <1>3, <1>6 DEF Busy, Becomes
  <2>2. Cardinality(Busy') = Cardinality(Busy) + 1
    BY <2>1, BusyNumbers, FS_AddElement
  <2> QED
    BY <1>3, <1>4, <2>2, BusyNumbers DEF IInv, NumberInv
<1>10. LoadedBelow'
  BY <1>2, <1>4, <1>6 DEF IInv, LoadedBelow, Becomes, InHour, People
<1>11. Alone'
  BY <1>2, <1>4, <1>5, <1>6 DEF IInv, Alone, Becomes, tables
<1> QED
  BY <1>4, <1>5, <1>7, <1>8, <1>9, <1>10, <1>11, Quiet DEF IInv

\* What the SELECTs do to a transaction.
LEMMA ReadStep ==
  ASSUME IInv, NEW h \in Handler, FindRaw(h) \/ ReadHistory(h) \/ ReadHourly(h) PROVE IInv'
<1>1. tx \in [Handler -> Transaction] /\ tx[h] \in Transaction
  BY DEF IInv, RawOnce, TypeOK, Transaction, Step
<1>2. UNCHANGED <<tables, posts, accepted, last, overlapped>>
  BY DEF FindRaw, ReadHistory, ReadHourly
<1>3. PICK t \in Transaction :
        /\ Becomes(h, t) /\ t.state = tx[h].state /\ t.current = tx[h].current /\ t.pc # "idle" /\ tx[h].pc # "idle"
        /\ \/ tx[h].pc = "raw" /\ t.pc = "flush" /\ t.known
           \/ tx[h].pc = "raw" /\ t.pc = "history"
           \/ tx[h].pc = "history" /\ t.pc = "hourly" /\ t.sample = history[Sample(tx[h].state.at)]
           \/ /\ tx[h].pc = "hourly" /\ t.pc = "flush" /\ t.sample = tx[h].sample
              /\ t.metric = hourly[Hour(tx[h].state.at)]
  <2> DEFINE q == tx[h]
  <2>1. CASE FindRaw(h)
    <3> DEFINE k == \E r \in raw : SameState(r, tx[h].state)
               n == [q EXCEPT !.known = k]
               t == [n EXCEPT !.pc = IF k THEN "flush" ELSE "history"]
    <3>1. tx' = [tx EXCEPT ![h] = t] /\ q.pc = "raw"
      BY <2>1 DEF FindRaw
    <3>2. k \in BOOLEAN
      OBVIOUS
    <3>3. /\ t \in Transaction /\ t.known = k /\ t.pc = (IF k THEN "flush" ELSE "history")
          /\ t.state = q.state /\ t.current = q.current
      <4> HIDE DEF q, k
      <4> QED
        BY <1>1, <3>2 DEF q, Transaction, Step
    <3> HIDE DEF n, t, k
    <3> QED
      BY <1>1, <3>1, <3>3 DEF Becomes
  <2>2. CASE ReadHistory(h)
    <3> DEFINE n == [q EXCEPT !.sample = history[Sample(tx[h].state.at)]]
               t == [n EXCEPT !.pc = "hourly"]
    <3>1. tx' = [tx EXCEPT ![h] = t] /\ q.pc = "history"
      BY <2>2 DEF ReadHistory
    <3>2. history[Sample(tx[h].state.at)] \in Columns
      BY <2>2 DEF ReadHistory, IInv, RawOnce, TypeOK, StateInv, State, Samples
    <3>3. /\ t \in Transaction /\ t.sample = history[Sample(tx[h].state.at)] /\ t.pc = "hourly"
          /\ t.state = q.state /\ t.current = q.current
      BY <1>1, <3>2 DEF Transaction, Step
    <3> HIDE DEF n, t
    <3> QED
      BY <1>1, <3>1, <3>3 DEF Becomes
  <2>3. CASE ReadHourly(h)
    <3> DEFINE n == [q EXCEPT !.metric = hourly[Hour(tx[h].state.at)]]
               t == [n EXCEPT !.pc = "flush"]
    <3>1. tx' = [tx EXCEPT ![h] = t] /\ q.pc = "hourly"
      BY <2>3 DEF ReadHourly
    <3>2. hourly[Hour(tx[h].state.at)] \in Metric
      BY <2>3 DEF ReadHourly, IInv, RawOnce, TypeOK, StateInv, State, Hours
    <3>3. /\ t \in Transaction /\ t.metric = hourly[Hour(tx[h].state.at)] /\ t.pc = "flush"
          /\ t.state = q.state /\ t.current = q.current /\ t.sample = q.sample
      BY <1>1, <3>2 DEF Transaction, Step
    <3> HIDE DEF n, t
    <3> QED
      BY <1>1, <3>1, <3>3 DEF Becomes
  <2> QED
    BY <2>1, <2>2, <2>3
<1>4. TypeOK'
  BY <1>2, <1>3 DEF IInv, RawOnce, TypeOK, tables, Becomes, Transaction, Step
<1>5. StateInv'
  BY <1>3 DEF IInv, StateInv, Becomes
<1>6. NumberInv'
  <2>1. Busy' = Busy
    BY <1>3 DEF Busy, Becomes
  <2> QED
    BY <1>2, <2>1 DEF IInv, NumberInv
<1>7. LoadedBelow'
  <2> SUFFICES ASSUME NEW g \in Handler, tx'[g].pc = "flush", ~tx'[g].known
               PROVE  /\ tx'[g].metric.count <= Cardinality(InHour(Hour(tx'[g].state.at)))
                      /\ tx'[g].metric.sum <= People(InHour(Hour(tx'[g].state.at)))
    BY <1>2 DEF LoadedBelow, InHour, People
  <2>1. CASE g # h
    BY <1>3, <2>1 DEF IInv, LoadedBelow, Becomes
  <2>2. CASE g = h
    <3>1. tx'[h].metric = hourly[Hour(tx[h].state.at)] /\ tx'[h].state = tx[h].state
      BY <1>3, <2>2 DEF Becomes
    <3>2. Hour(tx[h].state.at) \in Hours
      BY <1>3 DEF IInv, StateInv, State, Hours
    <3> QED
      BY <2>2, <3>1, <3>2 DEF IInv, NothingOvercounted
  <2> QED
    BY <2>1, <2>2
<1>8. Alone'
  BY <1>2, <1>3 DEF IInv, Alone, Becomes, tables
<1> QED
  BY <1>2, <1>4, <1>5, <1>6, <1>7, <1>8, Quiet DEF IInv

\* A transaction that leaves the tables alone is over.
LEMMA OverStep ==
  ASSUME IInv, NEW h \in Handler, Refuse(h) \/ Abort(h) PROVE IInv'
<1>1. /\ tx[h].pc # "idle" /\ Becomes(h, Idle)
      /\ UNCHANGED <<tables, posts, accepted, last, overlapped>>
  BY IdleIsTransaction DEF Refuse, Abort, IInv, RawOnce, TypeOK, Becomes, Transaction, Step
<1>2. TypeOK'
  BY <1>1 DEF IInv, RawOnce, TypeOK, tables, Becomes, Transaction, Step
<1>3. StateInv'
  BY <1>1, IdleIsTransaction DEF IInv, StateInv, Becomes
<1>4. NumberInv'
  <2>1. Busy' = Busy \ {h} /\ h \in Busy
    BY <1>1, IdleIsTransaction DEF Busy, Becomes
  <2> QED
    BY <1>1, <2>1, RoomForOne, BusyNumbers DEF IInv, NumberInv
<1>5. LoadedBelow'
  <2>1. \A g \in Handler : tx'[g].pc = "flush" => tx'[g] = tx[g]
    BY <1>1, IdleIsTransaction DEF IInv, RawOnce, TypeOK, Becomes
  <2>2. LoadedBelow /\ accepted' = accepted
    BY <1>1 DEF IInv
  <2> QED
    BY <2>1, <2>2 DEF LoadedBelow, InHour, People
<1>6. Alone'
  BY <1>1, IdleIsTransaction DEF IInv, Alone, Becomes, tables
<1> QED
  BY <1>1, <1>2, <1>3, <1>4, <1>5, <1>6, Quiet DEF IInv

-----------------------------------------------------------------------------
(* Steps that commit *)

\* What a transaction that may commit writes into the current row: without overlap the state itself.
LEMMA CurrentWritten ==
  ASSUME IInv, NEW h \in Handler, tx[h].pc = "flush", ~Violation(h)
  PROVE  LET w == Written(tx[h].current, current, tx[h].state, NoRow)
         IN  w \in Columns /\ (~overlapped => w = tx[h].state)
<1>1. tx[h].current \in Columns /\ current \in Columns /\ tx[h].state \in Columns
  BY DEF IInv, RawOnce, TypeOK, StateInv, State, Columns, Time
<1>2. ~overlapped => tx[h].current = current
  BY DEF IInv, Alone
<1>3. Updated(current, tx[h].current, tx[h].state) \in Columns
  BY <1>1, UpdatedColumns
<1>4. ~overlapped => Updated(current, tx[h].current, tx[h].state) = tx[h].state
  BY <1>1, <1>2, UpdatedSame
<1> QED
  BY <1>1, <1>3, <1>4 DEF Written, Inserts

LEMMA CommitKnownStep == ASSUME IInv, NEW h \in Handler, CommitKnown(h) PROVE IInv'
<1>1. /\ tx[h].pc = "flush" /\ Becomes(h, Idle) /\ ~Violation(h)
      /\ UNCHANGED <<raw, history, hourly, posts, accepted, overlapped>>
      /\ current' = Written(tx[h].current, current, tx[h].state, NoRow) /\ last' = tx[h].state
  BY IdleIsTransaction DEF CommitKnown, IInv, RawOnce, TypeOK, Becomes, Transaction, Step
<1>2. current' \in Columns /\ (~overlapped => current' = tx[h].state)
  BY <1>1, CurrentWritten
<1>3. TypeOK'
  <2>1. last' \in StateRow
    BY <1>1 DEF IInv, RawOnce, TypeOK, Transaction
  <2> QED
    BY <1>1, <1>2, <2>1 DEF IInv, RawOnce, TypeOK, Becomes, Transaction, Step
<1>4. StateInv'
  BY <1>1, IdleIsTransaction DEF IInv, StateInv, Becomes
<1>5. NumberInv'
  <2>1. Busy' = Busy \ {h} /\ h \in Busy
    BY <1>1, IdleIsTransaction DEF Busy, Becomes
  <2> QED
    BY <1>1, <2>1, RoomForOne, BusyNumbers DEF IInv, NumberInv
<1>6. LoadedBelow'
  <2>1. \A x : InHour(x)' = InHour(x) /\ People(InHour(x))' = People(InHour(x))
    BY <1>1 DEF InHour, People
  <2> QED
    BY <1>1, <2>1, IdleIsTransaction DEF IInv, LoadedBelow, Becomes
<1>7. Alone'
  BY <1>1, IdleIsTransaction DEF IInv, Alone, Becomes
<1>8. CurrentUnlessOverlap'
  BY <1>1, <1>2 DEF CurrentUnlessOverlap, CurrentIsLastReceived
<1> QED
  BY <1>1, <1>3, <1>4, <1>5, <1>6, <1>7, <1>8
     DEF IInv, RawOnce, NothingOvercounted, Empty, HistoryKeepsLast, HourlyExact, InHour, InSample, People

\* The row a new state adds to store_states was never there before.
LEMMA RowIsNew ==
  ASSUME IInv, NEW h \in Busy
  PROVE  LET row == Row(Cardinality(accepted) + 1, tx[h].state)
         IN  row \in RawRow /\ row \notin accepted
<1> DEFINE q == tx[h].state
           n == Cardinality(accepted) + 1
<1>1. q \in State
  BY DEF Busy, IInv, StateInv
<1>2. n \in 1..MaxPosts
  <2>1. Cardinality(accepted) + 1 <= MaxPosts
    BY RoomForOne
  <2> QED
    BY <2>1, BusyNumbers, BoundsAssumption
<1>3. \A r \in accepted : r.id \in Nat /\ r.id < n
  BY BusyNumbers DEF IInv, RawOnce, TypeOK, RawRow, NumberInv
<1> HIDE DEF q, n
<1>4. Row(n, q) \in RawRow /\ Row(n, q).id = n
  BY <1>1, <1>2 DEF Row, RawRow, State
<1>5. Row(n, q) \notin accepted
  BY <1>2, <1>3, <1>4
<1> QED
  BY <1>4, <1>5 DEF n, q

\* The hours and the buckets when a row is stored.
LEMMA RowsOfHours ==
  ASSUME NEW row, accepted' = accepted \cup {row}
  PROVE  /\ \A x : InHour(x)' = IF x = Hour(row.at) THEN InHour(x) \cup {row} ELSE InHour(x)
         /\ \A x : InSample(x)' = IF x = Sample(row.at) THEN InSample(x) \cup {row} ELSE InSample(x)
BY DEF InHour, InSample

\* A metric that was exact for the rows S of its hour is exact when row r joins them.
MetricExact(m, S) ==
  /\ m.count = Cardinality(S)
  /\ m.sum = People(S)
  /\ \A r \in S : r.people <= m.peak /\ r.at <= m.latestAt
  /\ S # {} => /\ \E r \in S : r.people = m.peak
               /\ \E r \in LatestOf(S) : m.latestAt = r.at /\ m.latestPeople = r.people

LEMMA MetricStaysExact ==
  ASSUME NEW m \in Metric, NEW S \in SUBSET RawRow, IsFiniteSet(S), NEW q \in State, NEW r \in RawRow,
         r \notin S, r.at = q.at, r.people = q.people, MetricExact(m, S), S = {} => m = NoMetric
  PROVE  MetricExact(NewMetric(m, q), S \cup {r})
<1> DEFINE n == NewMetric(m, q)
           T == S \cup {r}
<1>1. /\ n.count = m.count + 1 /\ n.sum = m.sum + q.people
      /\ n.peak = IF q.people > m.peak THEN q.people ELSE m.peak
      /\ n.latestAt = IF q.at >= m.latestAt THEN q.at ELSE m.latestAt
      /\ n.latestPeople = IF q.at >= m.latestAt THEN q.people ELSE m.latestPeople
  BY DEF NewMetric
<1>2. /\ m.peak \in Nat /\ m.latestAt \in Nat /\ q.people \in Nat /\ q.at \in Nat /\ q.at > 0
      /\ \A s \in T : s.people \in Nat /\ s.at \in Nat
  BY BoundsAssumption DEF Metric, State, Time, RawRow
<1>3. S = {} => m.peak = 0 /\ m.latestAt = 0
  BY DEF NoMetric
<1>4. n.count = Cardinality(T) /\ n.sum = People(T)
  BY <1>1, OneMore DEF MetricExact
<1> HIDE DEF n
<1>5. \A s \in T : s.people <= n.peak /\ s.at <= n.latestAt
  BY <1>1, <1>2 DEF MetricExact
<1>6. \E s \in T : s.people = n.peak
  <2>1. CASE n.peak = q.people
    BY <2>1
  <2>2. CASE n.peak # q.people
    BY <1>1, <1>2, <1>3, <2>2 DEF MetricExact
  <2> QED
    BY <2>1, <2>2
<1>7. \E s \in LatestOf(T) : n.latestAt = s.at /\ n.latestPeople = s.people
  <2>1. CASE q.at >= m.latestAt
    <3>1. r \in LatestOf(T)
      BY <1>1, <1>2, <1>5, <2>1 DEF LatestOf
    <3> QED
      BY <1>1, <2>1, <3>1
  <2>2. CASE ~(q.at >= m.latestAt)
    <3>1. S # {}
      BY <1>2, <1>3, <2>2
    <3>2. PICK s \in LatestOf(S) : m.latestAt = s.at /\ m.latestPeople = s.people
      BY <3>1 DEF MetricExact
    <3>3. s \in LatestOf(T)
      BY <1>2, <2>2, <3>2 DEF LatestOf
    <3> QED
      BY <1>1, <2>2, <3>2, <3>3
  <2> QED
    BY <2>1, <2>2
<1> QED
  BY <1>4, <1>5, <1>6, <1>7 DEF MetricExact, n

\* A sample that was the latest row of its bucket stays it when a row joins.
LEMMA SampleStaysLatest ==
  ASSUME NEW c \in Columns, NEW S \in SUBSET RawRow, NEW q \in State, NEW r \in RawRow,
         r.frame = q.frame, r.at = q.at, r.people = q.people, S = {} => c = NoRow,
         S # {} => \E s \in LatestOf(S) : c = [frame |-> s.frame, at |-> s.at, people |-> s.people]
  PROVE  \E s \in LatestOf(S \cup {r}) : NewSample(c, q) = [frame |-> s.frame, at |-> s.at, people |-> s.people]
<1> DEFINE T == S \cup {r}
<1>1. c.at \in Nat /\ q.at \in Nat /\ q.at > 0 /\ \A s \in T : s.at \in Nat
  BY BoundsAssumption DEF Columns, State, Time, RawRow
<1>2. \A s \in S : s.at <= c.at
  BY DEF LatestOf
<1>3. CASE q.at >= c.at
  <2>1. r \in LatestOf(T)
    BY <1>1, <1>2, <1>3 DEF LatestOf
  <2>2. NewSample(c, q) = q /\ q = [frame |-> r.frame, at |-> r.at, people |-> r.people]
    BY <1>3 DEF NewSample, State
  <2> QED
    BY <2>1, <2>2
<1>4. CASE ~(q.at >= c.at)
  <2>1. S # {}
    BY <1>1, <1>4 DEF NoRow
  <2>2. PICK s \in LatestOf(S) : c = [frame |-> s.frame, at |-> s.at, people |-> s.people]
    BY <2>1
  <2>3. s \in LatestOf(T)
    BY <1>1, <1>4, <2>2 DEF LatestOf
  <2>4. NewSample(c, q) = c
    BY <1>4 DEF NewSample
  <2> QED
    BY <2>2, <2>3, <2>4
<1> QED
  BY <1>3, <1>4

LEMMA ProductGrows ==
  ASSUME NEW a \in Nat, NEW n \in Nat, NEW c \in Nat, a + 1 <= n PROVE a * c + c <= n * c /\ a * c \in Nat
<1>1. PICK d \in Nat : n = a + 1 + d
  <2>1. n - (a + 1) \in Nat /\ n = a + 1 + (n - (a + 1))
    OBVIOUS
  <2> QED
    BY <2>1
<1>2. n * c = a * c + c + d * c /\ d * c \in Nat /\ a * c \in Nat
  BY <1>1
<1> QED
  BY <1>2

LEMMA CommitNewStep == ASSUME IInv, NEW h \in Handler, CommitNew(h) PROVE IInv'
<1>q. PICK q : q = tx[h].state
  OBVIOUS
<1>b. PICK b : b = Sample(q.at)
  OBVIOUS
<1>h. PICK hr : hr = Hour(q.at)
  OBVIOUS
<1>r. PICK row : row = Row(Cardinality(accepted) + 1, q)
  OBVIOUS
<1> DEFINE sample == Written(tx[h].sample, history[b], NewSample(tx[h].sample, q), NoRow)
           metric == Written(tx[h].metric, hourly[hr], NewMetric(tx[h].metric, q), NoMetric)
<1>1. /\ tx[h].pc = "flush" /\ ~tx[h].known /\ ~Violation(h) /\ h \in Busy
      /\ current' = Written(tx[h].current, current, q, NoRow)
      /\ raw' = raw \cup {row} /\ accepted' = accepted \cup {row}
      /\ history' = [history EXCEPT ![b] = sample]
      /\ hourly' = [hourly EXCEPT ![hr] = metric]
      /\ last' = q /\ UNCHANGED <<posts, overlapped>>
  BY <1>q, <1>b, <1>h, <1>r DEF CommitNew, Busy
<1>2. Becomes(h, Idle)
  BY IdleIsTransaction DEF CommitNew, IInv, RawOnce, TypeOK, Becomes, Transaction, Step
<1>3. q \in State /\ b \in Samples /\ hr \in Hours
  BY <1>1, <1>q, <1>b, <1>h DEF IInv, StateInv, Busy, State, Samples, Hours
<1>4. row \in RawRow /\ row \notin accepted
  BY <1>1, <1>q, <1>r, RowIsNew
<1>5. row.frame = q.frame /\ row.at = q.at /\ row.people = q.people /\ row.id = Cardinality(accepted) + 1
  BY <1>r DEF Row
<1>6. /\ tx[h].sample \in Columns /\ history[b] \in Columns
      /\ tx[h].metric \in Metric /\ hourly[hr] \in Metric
  BY <1>3 DEF IInv, RawOnce, TypeOK
<1>7. ~overlapped => tx[h].sample = history[b] /\ tx[h].metric = hourly[hr]
  BY <1>1, <1>q, <1>b, <1>h DEF IInv, Alone
<1>8. current' \in Columns /\ (~overlapped => current' = q)
  BY <1>1, <1>q, CurrentWritten
<1>9. sample \in Columns /\ (~overlapped => sample = NewSample(history[b], q))
  <2>1. NewSample(tx[h].sample, q) \in Columns
    BY <1>3, <1>6, NewSampleFits
  <2> QED
    BY <1>6, <1>7, <2>1, UpdatedSame, UpdatedColumns DEF Written
<1>10. accepted \in SUBSET RawRow /\ IsFiniteSet(accepted) /\ Cardinality(accepted) \in Nat
  BY FS_CardinalityType DEF IInv, RawOnce, TypeOK, NumberInv
<1>11. /\ Cardinality(accepted') = Cardinality(accepted) + 1 /\ IsFiniteSet(accepted')
  BY <1>1, <1>4, <1>10, OneMore
<1>12. /\ InHour(hr)' = InHour(hr) \cup {row} /\ row \notin InHour(hr) /\ IsFiniteSet(InHour(hr))
       /\ \A x : x # hr => InHour(x)' = InHour(x)
       /\ InSample(b)' = InSample(b) \cup {row}
       /\ \A x : x # b => InSample(x)' = InSample(x)
  <2>1. row \notin InHour(hr) /\ IsFiniteSet(InHour(hr))
    BY <1>4, InHourFinite DEF InHour
  <2> QED
    BY <1>1, <1>5, <1>b, <1>h, <2>1, RowsOfHours
<1>13. NewMetric(tx[h].metric, q).count = tx[h].metric.count + 1
       /\ NewMetric(tx[h].metric, q).sum = tx[h].metric.sum + q.people
  BY DEF NewMetric
\* The metric counts no more than the hour's rows, the new one included.
<1>14. /\ metric.count <= Cardinality(InHour(hr)) + 1 /\ metric.sum <= People(InHour(hr)) + q.people
       /\ metric \in Metric /\ NewMetric(tx[h].metric, q) \in Metric
  <2> DEFINE S == InHour(hr)
             L == tx[h].metric
             N == NewMetric(L, q)
  <2>1. /\ Cardinality(S) \in Nat /\ Cardinality(S) + 1 <= MaxPosts
        /\ People(S) \in Nat /\ People(S) <= Cardinality(S) * MaxPeople
    <3>1. Cardinality(accepted) + 1 <= MaxPosts
      BY <1>1, RoomForOne
    <3> QED
      BY <3>1, InHourFinite, BoundsAssumption
  <2>2. L.count <= Cardinality(S) /\ L.sum <= People(S)
    BY <1>1, <1>q, <1>h DEF IInv, LoadedBelow
  <2>3. hourly[hr].count <= Cardinality(S) /\ hourly[hr].sum <= People(S)
    BY <1>3 DEF IInv, NothingOvercounted
  <2>4. /\ L.count \in Nat /\ L.sum \in Nat /\ hourly[hr].count \in Nat /\ hourly[hr].sum \in Nat
        /\ q.people \in 0..MaxPeople /\ q.people \in Nat
    BY <1>3, <1>6, BoundsAssumption DEF Metric, State
  <2>5. N.count \in 0..MaxPosts /\ N.count <= Cardinality(S) + 1 /\ N.count # L.count
    BY <1>13, <2>1, <2>2, <2>4, BoundsAssumption
  <2>6. N.sum \in 0..(MaxPosts * MaxPeople) /\ N.sum <= People(S) + q.people
    <3>1. Cardinality(S) * MaxPeople + MaxPeople <= MaxPosts * MaxPeople /\ Cardinality(S) * MaxPeople \in Nat
      BY <2>1, BoundsAssumption, ProductGrows
    <3>2. MaxPosts * MaxPeople \in Nat
      BY BoundsAssumption
    <3>3. N.sum \in Nat /\ N.sum <= People(S) + q.people
      BY <1>13, <2>1, <2>2, <2>4
    <3>4. People(S) + q.people <= MaxPosts * MaxPeople
      BY <2>1, <2>4, <3>1, <3>2, BoundsAssumption
    <3> QED
      BY <2>1, <2>4, <3>2, <3>3, <3>4
  <2>7. N \in Metric
    <3>1. N.peak \in 0..MaxPeople /\ N.latestAt \in 0..MaxTime /\ N.latestPeople \in 0..MaxPeople
      BY <1>3, <1>6, NewMetricFits
    <3>2. N = [count |-> N.count, sum |-> N.sum, peak |-> N.peak, latestAt |-> N.latestAt,
               latestPeople |-> N.latestPeople]
      BY DEF NewMetric
    <3> HIDE DEF N
    <3> QED
      BY <2>5, <2>6, <3>1, <3>2 DEF Metric
  <2> HIDE DEF N, L, S
  <2>8. ASSUME metric = N
       PROVE  metric \in Metric /\ metric.count <= Cardinality(S) + 1 /\ metric.sum <= People(S) + q.people
    <3> HIDE DEF metric
    <3> QED
      BY <2>5, <2>6, <2>7, <2>8
  <2>9. ASSUME metric = Updated(hourly[hr], L, N)
       PROVE  metric \in Metric /\ metric.count <= Cardinality(S) + 1 /\ metric.sum <= People(S) + q.people
    <3>1. /\ metric \in Metric /\ metric.count = N.count
          /\ metric.sum = hourly[hr].sum \/ metric.sum = N.sum
      BY <1>6, <2>5, <2>7, <2>9, UpdatedMetric DEF L
    <3> HIDE DEF metric
    <3> QED
      BY <2>1, <2>3, <2>4, <2>5, <2>6, <3>1
  <2> QED
    BY <2>7, <2>8, <2>9 DEF Written, N, L, S
<1>15. TypeOK'
  <2>1. last' \in StateRow /\ tx' \in [Handler -> Transaction]
    BY <1>1, <1>2, <1>3 DEF StateRow, Becomes
  <2>2. history' \in [Samples -> Columns]
    BY <1>1, <1>9 DEF IInv, RawOnce, TypeOK
  <2>3. hourly' \in [Hours -> Metric]
    BY <1>1, <1>14 DEF IInv, RawOnce, TypeOK
  <2>4. raw' \in SUBSET RawRow /\ accepted' \in SUBSET RawRow
    BY <1>1, <1>4 DEF IInv, RawOnce, TypeOK
  <2> QED
    BY <1>1, <1>8, <2>1, <2>2, <2>3, <2>4 DEF IInv, RawOnce, TypeOK, Transaction, Step
<1>16. RawOnce'
  <2>1. q.frame # NoFrame => \A r \in raw : r.frame # q.frame
    BY <1>1, <1>q DEF Violation, FrameTaken
  <2> QED
    BY <1>1, <1>5, <1>15, <2>1 DEF IInv, RawOnce
<1>17. StateInv'
  BY <1>1, <1>2, IdleIsTransaction DEF IInv, StateInv, Becomes
<1>18. NumberInv'
  <2>1. Busy' = Busy \ {h}
    BY <1>1, <1>2, IdleIsTransaction DEF Busy, Becomes
  <2>2. \A r \in accepted' : r.id <= Cardinality(accepted')
    BY <1>1, <1>5, <1>10, <1>11 DEF IInv, NumberInv, RawRow
  <2>3. Cardinality(Busy \ {h}) = Cardinality(Busy) - 1
    BY <1>1, RoomForOne
  <2>4. Cardinality(Busy') = Cardinality(Busy) - 1 /\ Cardinality(Busy) \in Nat
    BY <2>1, <2>3, BusyNumbers
  <2>5. Cardinality(accepted) + Cardinality(Busy) <= posts /\ posts \in Nat
    BY BusyNumbers DEF IInv, NumberInv
  <2>6. Cardinality(accepted') + Cardinality(Busy') <= posts'
    BY <1>1, <1>10, <1>11, <2>4, <2>5
  <2> QED
    BY <1>11, <2>2, <2>6 DEF NumberInv
<1>19. \A x : /\ Cardinality(InHour(x)) <= Cardinality(InHour(x)')
              /\ People(InHour(x)) <= People(InHour(x)')
              /\ Cardinality(InHour(x)) \in Nat /\ People(InHour(x)) \in Nat
              /\ Cardinality(InHour(x)') \in Nat /\ People(InHour(x)') \in Nat
  <2> TAKE x
  <2>1. Cardinality(InHour(x)) \in Nat /\ People(InHour(x)) \in Nat
    BY InHourFinite
  <2>2. CASE x = hr
    <3>1. row.people \in Nat
      BY <1>4, BoundsAssumption DEF RawRow
    <3>2. /\ Cardinality(InHour(hr) \cup {row}) = Cardinality(InHour(hr)) + 1
          /\ People(InHour(hr) \cup {row}) = People(InHour(hr)) + row.people
      BY <1>4, <1>12, OneMore
    <3> QED
      BY <1>12, <2>1, <2>2, <3>1, <3>2
  <2>3. CASE x # hr
    BY <1>12, <2>1, <2>3
  <2> QED
    BY <2>2, <2>3
<1>20. NothingOvercounted'
  <2> SUFFICES ASSUME NEW x \in Hours
               PROVE  hourly'[x].count <= Cardinality(InHour(x)') /\ hourly'[x].sum <= People(InHour(x)')
    BY DEF NothingOvercounted, People
  <2>1. CASE x = hr
    <3>1. hourly'[hr] = metric
      BY <1>1, <1>3 DEF IInv, RawOnce, TypeOK
    <3>2. /\ Cardinality(InHour(hr)') = Cardinality(InHour(hr)) + 1
          /\ People(InHour(hr)') = People(InHour(hr)) + q.people
      BY <1>4, <1>5, <1>12, OneMore
    <3> QED
      BY <1>14, <2>1, <3>1, <3>2
  <2>2. CASE x # hr
    BY <1>1, <1>12, <2>2 DEF IInv, RawOnce, TypeOK, NothingOvercounted
  <2> QED
    BY <2>1, <2>2
<1>21. LoadedBelow'
  <2>1. ASSUME NEW g \in Handler, tx'[g].pc = "flush", ~tx'[g].known, NEW x, x = Hour(tx'[g].state.at)
       PROVE  tx'[g].metric.count <= Cardinality(InHour(x)') /\ tx'[g].metric.sum <= People(InHour(x)')
    <3>1. g # h /\ tx'[g] = tx[g] /\ tx[g].metric \in Metric
      BY <1>2, <2>1, IdleIsTransaction DEF Becomes, IInv, RawOnce, TypeOK
    <3>2. tx[g].metric.count <= Cardinality(InHour(x)) /\ tx[g].metric.sum <= People(InHour(x))
      BY <2>1, <3>1 DEF IInv, LoadedBelow
    <3>3. tx[g].metric.count \in Nat /\ tx[g].metric.sum \in Nat
      BY <3>1, BoundsAssumption DEF Metric
    <3>4. /\ Cardinality(InHour(x)) <= Cardinality(InHour(x)') /\ People(InHour(x)) <= People(InHour(x)')
          /\ Cardinality(InHour(x)) \in Nat /\ People(InHour(x)) \in Nat
          /\ Cardinality(InHour(x)') \in Nat /\ People(InHour(x)') \in Nat
      BY <1>19
    <3> QED
      BY <3>1, <3>2, <3>3, <3>4
  <2> QED
    BY <2>1 DEF LoadedBelow, InHour, People
<1>22. Alone'
  BY <1>1, <1>2, IdleIsTransaction DEF IInv, Alone, Becomes
<1>23. CurrentUnlessOverlap'
  BY <1>1, <1>8 DEF CurrentUnlessOverlap, CurrentIsLastReceived
<1>24. Empty'
  BY <1>1, <1>3, <1>12 DEF IInv, RawOnce, TypeOK, Empty
<1>25. HistoryKeepsLast'
  <2> SUFFICES ASSUME ~overlapped', NEW x \in Samples, InSample(x)' # {}
               PROVE  \E r \in LatestOf(InSample(x)') :
                        history'[x] = [frame |-> r.frame, at |-> r.at, people |-> r.people]
    BY DEF HistoryKeepsLast, LatestOf
  <2>1. ~overlapped /\ history \in [Samples -> Columns]
    BY <1>1 DEF IInv, RawOnce, TypeOK
  <2>2. InSample(x) # {} => \E r \in LatestOf(InSample(x)) :
                              history[x] = [frame |-> r.frame, at |-> r.at, people |-> r.people]
    BY <2>1 DEF IInv, HistoryKeepsLast
  <2>3. CASE x = b
    <3>1. history'[b] = NewSample(history[b], q)
      BY <1>1, <1>3, <1>9, <2>1
    <3>2. InSample(b) \in SUBSET RawRow /\ (InSample(b) = {} => history[b] = NoRow)
      BY <1>3, <1>10, <2>1 DEF InSample, IInv, Empty
    <3>3. \E r \in LatestOf(InSample(b) \cup {row}) :
            NewSample(history[b], q) = [frame |-> r.frame, at |-> r.at, people |-> r.people]
      BY <1>3, <1>4, <1>5, <1>6, <2>2, <2>3, <3>2, SampleStaysLatest
    <3> QED
      BY <1>12, <2>3, <3>1, <3>3
  <2>4. CASE x # b
    BY <1>1, <1>12, <2>1, <2>2, <2>4
  <2> QED
    BY <2>3, <2>4
<1>26. HourlyExact'
  <2> SUFFICES ASSUME ~overlapped', NEW x \in Hours PROVE MetricExact(hourly'[x], InHour(x)')
    BY DEF HourlyExact, MetricExact, People, LatestOf
  <2>1. ~overlapped /\ hourly \in [Hours -> Metric]
    BY <1>1 DEF IInv, RawOnce, TypeOK
  <2>2. MetricExact(hourly[x], InHour(x))
    BY <2>1 DEF IInv, HourlyExact, MetricExact
  <2>3. CASE x = hr
    <3>1. hourly'[hr] = NewMetric(hourly[hr], q)
      <4>1. hourly'[hr] = metric /\ tx[h].metric = hourly[hr]
        BY <1>1, <1>3, <1>7, <2>1
      <4>2. Updated(hourly[hr], hourly[hr], NewMetric(hourly[hr], q)) = NewMetric(hourly[hr], q)
        BY <1>6, <1>14, <4>1, UpdatedSame
      <4> QED
        BY <4>1, <4>2 DEF Written
    <3>2. InHour(hr) \in SUBSET RawRow /\ (InHour(hr) = {} => hourly[hr] = NoMetric)
      BY <1>3, <1>10, <2>1 DEF InHour, IInv, Empty
    <3>3. MetricExact(NewMetric(hourly[hr], q), InHour(hr) \cup {row})
      BY <1>3, <1>4, <1>5, <1>6, <1>12, <2>2, <2>3, <3>2, MetricStaysExact
    <3> QED
      BY <1>12, <2>3, <3>1, <3>3
  <2>4. CASE x # hr
    BY <1>1, <1>12, <2>1, <2>2, <2>4
  <2> QED
    BY <2>3, <2>4
<1> QED
  BY <1>16, <1>17, <1>18, <1>20, <1>21, <1>22, <1>23, <1>24, <1>25, <1>26 DEF IInv

-----------------------------------------------------------------------------
(* The invariant and what follows from it *)

LEMMA CleanupStep == ASSUME IInv, NEW c \in Time, Cleanup(c) PROVE IInv'
<1>1. raw' \subseteq raw /\ UNCHANGED <<current, history, hourly, tx, posts, accepted, last, overlapped>>
  BY DEF Cleanup
<1>2. RawOnce'
  BY <1>1 DEF IInv, RawOnce, TypeOK
<1> QED
  BY <1>1, <1>2 DEF IInv, StateInv, NumberInv, Busy, NothingOvercounted, LoadedBelow, Alone, CurrentUnlessOverlap,
     CurrentIsLastReceived, Empty, HistoryKeepsLast, HourlyExact, InHour, InSample

LEMMA InitInv == Init => IInv
<1> SUFFICES ASSUME Init PROVE IInv
  OBVIOUS
<1>1. NoRow \in Columns /\ NoMetric \in Metric
  <2>1. MaxPosts * MaxPeople \in Nat
    BY BoundsAssumption
  <2> QED
    BY <2>1, BoundsAssumption DEF NoRow, NoMetric, Columns, Metric
<1>2. Idle \in Transaction /\ Idle.pc = "idle"
  BY IdleIsTransaction
<1>3. /\ current = NoRow /\ raw = {} /\ posts = 0 /\ accepted = {} /\ last = NoRow /\ overlapped = FALSE
      /\ \A h \in Handler : tx[h] = Idle
  BY DEF Init
<1>4. /\ history = [b \in Samples |-> NoRow] /\ hourly = [h \in Hours |-> NoMetric]
      /\ tx = [h \in Handler |-> Idle]
  BY DEF Init
<1> HIDE DEF Idle, NoRow, NoMetric
<1>5. TypeOK
  <2>1. overlapped \in BOOLEAN
    BY <1>3, Zenon
  <2>2. posts \in 0..MaxPosts
    BY <1>3, BoundsAssumption
  <2>3. tx \in [Handler -> Transaction]
    BY <1>2, <1>4
  <2> QED
    BY <1>1, <1>3, <1>4, <2>1, <2>2, <2>3 DEF TypeOK, StateRow, Transaction, Step
<1>6. Busy = {}
  BY <1>2, <1>3 DEF Busy
<1>7. \A x : InHour(x) = {} /\ InSample(x) = {} /\ People({}) = 0
  <2>1. \A x : InHour(x) = {} /\ InSample(x) = {}
    BY <1>3 DEF InHour, InSample
  <2>2. Heads({}) = {}
    BY DEF Heads
  <2> QED
    BY <2>1, <2>2, FS_EmptySet DEF People, Heads
<1>8. NumberInv
  BY <1>3, <1>6, FS_EmptySet DEF NumberInv
<1>9. \A x \in Hours : hourly[x].count = 0 /\ hourly[x].sum = 0
  BY <1>4 DEF NoMetric
<1>10. NothingOvercounted /\ HourlyExact
  BY <1>7, <1>9, FS_EmptySet DEF NothingOvercounted, HourlyExact
<1> QED
  BY <1>2, <1>3, <1>4, <1>5, <1>7, <1>8, <1>10
     DEF IInv, RawOnce, StateInv, LoadedBelow, Alone, CurrentUnlessOverlap, CurrentIsLastReceived, Empty,
         HistoryKeepsLast

LEMMA NextInv == IInv /\ [Next]_vars => IInv'
<1> SUFFICES ASSUME IInv, [Next]_vars PROVE IInv'
  OBVIOUS
<1>1. ASSUME NEW h \in Handler, NEW s \in State, Begin(h, s) PROVE IInv'
  BY <1>1, BeginStep
<1>2. ASSUME NEW h \in Handler, FindRaw(h) \/ ReadHistory(h) \/ ReadHourly(h) PROVE IInv'
  BY <1>2, ReadStep
<1>3. ASSUME NEW h \in Handler, Refuse(h) \/ Abort(h) PROVE IInv'
  BY <1>3, OverStep
<1>4. ASSUME NEW h \in Handler, CommitKnown(h) \/ CommitNew(h) PROVE IInv'
  BY <1>4, CommitKnownStep, CommitNewStep
<1>5. ASSUME NEW c \in Time, Cleanup(c) PROVE IInv'
  BY <1>5, CleanupStep
<1>6. CASE UNCHANGED vars
  <2>1. /\ raw' = raw /\ history' = history /\ hourly' = hourly /\ current' = current /\ tx' = tx
        /\ posts' = posts /\ accepted' = accepted /\ last' = last /\ overlapped' = overlapped
    BY <1>6 DEF vars, tables
  <2>2. RawOnce' /\ StateInv' /\ NumberInv' /\ Alone'
    BY <2>1 DEF IInv, RawOnce, TypeOK, StateInv, NumberInv, Busy, Alone
  <2>3. NothingOvercounted' /\ LoadedBelow' /\ HourlyExact'
    BY <2>1 DEF IInv, NothingOvercounted, LoadedBelow, HourlyExact, InHour, InSample, People
  <2>4. CurrentUnlessOverlap' /\ HistoryKeepsLast' /\ Empty'
    BY <2>1 DEF IInv, CurrentUnlessOverlap, CurrentIsLastReceived, HistoryKeepsLast, Empty, InSample, InHour, LatestOf
  <2> QED
    BY <2>2, <2>3, <2>4 DEF IInv
<1> QED
  BY <1>1, <1>2, <1>3, <1>4, <1>5, <1>6 DEF Next

LEMMA Invariance == Spec => []IInv
BY InitInv, NextInv, PTL DEF Spec

\* The tables and the transactions are well typed, and however posts overlap a frame id has one
\* row of store_states (docs/api-contract.md).
THEOREM FramesAreStoredOnce == Spec => []RawOnce
<1>1. IInv => RawOnce
  BY DEF IInv
<1> QED
  BY <1>1, Invariance, PTL

\* While no two posts of the camera have overlapped, its current row is the state that was
\* received last (save_store_state).
THEOREM CurrentIsReceivedLast == Spec => []CurrentUnlessOverlap
<1>1. IInv => CurrentUnlessOverlap
  BY DEF IInv
<1> QED
  BY <1>1, Invariance, PTL

\* However posts overlap an hour counts nothing twice, and without overlap the samples and the
\* hours' metrics are exact, in whatever order states arrive and whatever is cleaned up.
THEOREM DerivedRowsAreExact == Spec => []DerivedRowsFollowRaw
<1>1. IInv => DerivedRowsFollowRaw
  BY DEF IInv, DerivedRowsFollowRaw
<1> QED
  BY <1>1, Invariance, PTL


-----------------------------------------------------------------------------
(* The camera analysis whose states are posted (PersonTracking).  The tally of  *)
(* a track, the locks and the staff out of sight are kept by numbers that mean  *)
(* something within one scene only; so the invariant ties each of them to the   *)
(* scene, and what was published to the samples read so far.                    *)

\* A set and its image under a one-to-one map.
LEMMA OneToOne ==
  ASSUME NEW S, IsFiniteSet(S), NEW Q, NEW f \in [S -> Q],
         \A a, b \in S : f[a] = f[b] => a = b, \A q \in Q : \E a \in S : f[a] = q
  PROVE  IsFiniteSet(Q) /\ Cardinality(Q) = Cardinality(S)
<1>1. f \in Surjection(S, Q)
  BY DEF Surjection
<1>2. f \in Injection(S, Q)
  BY DEF Injection, IsInjective
<1> QED
  BY <1>1, <1>2, FS_Surjection

\* In a strict total order every element has a rank of its own, and every rank an element.
Under(R, S, a) == {b \in S : <<b, a>> \in R}
Ordered(R, S) ==
  /\ \A a \in S : <<a, a>> \notin R
  /\ \A a, b \in S : a # b => <<a, b>> \in R \/ <<b, a>> \in R
  /\ \A a, b, c \in S : <<a, b>> \in R /\ <<b, c>> \in R => <<a, c>> \in R

\* ... which is the number of those before it.
LEMMA Ranks ==
  ASSUME NEW S, IsFiniteSet(S), NEW R, Ordered(R, S)
  PROVE  /\ \A a \in S : Cardinality(Under(R, S, a)) \in 0..Cardinality(S)-1
         /\ \A a, b \in S : <<a, b>> \in R => Cardinality(Under(R, S, a)) < Cardinality(Under(R, S, b))
         /\ \A a, b \in S : Cardinality(Under(R, S, a)) = Cardinality(Under(R, S, b)) => a = b
         /\ \A k \in 0..Cardinality(S)-1 : \E a \in S : Cardinality(Under(R, S, a)) = k
<1> DEFINE r == [a \in S |-> Cardinality(Under(R, S, a))]
<1>1. Cardinality(S) \in Nat
  BY FS_CardinalityType
<1>2. \A a \in S : /\ IsFiniteSet(Under(R, S, a)) /\ Cardinality(Under(R, S, a)) \in Nat
                   /\ Cardinality(Under(R, S, a)) < Cardinality(S)
  <2> TAKE a \in S
  <2>1. Under(R, S, a) \in SUBSET S /\ a \notin Under(R, S, a)
    BY DEF Under, Ordered
  <2>2. /\ IsFiniteSet(Under(R, S, a)) /\ Cardinality(Under(R, S, a)) <= Cardinality(S)
        /\ Cardinality(Under(R, S, a)) # Cardinality(S)
    BY <2>1, FS_Subset
  <2>3. Cardinality(Under(R, S, a)) \in Nat
    BY <2>2, FS_CardinalityType
  <2> QED
    BY <1>1, <2>2, <2>3
<1>3. \A a, b \in S : <<a, b>> \in R => Cardinality(Under(R, S, a)) < Cardinality(Under(R, S, b))
  <2> SUFFICES ASSUME NEW a \in S, NEW b \in S, <<a, b>> \in R
               PROVE  Cardinality(Under(R, S, a)) < Cardinality(Under(R, S, b))
    OBVIOUS
  <2>1. Under(R, S, a) \in SUBSET Under(R, S, b) /\ a \in Under(R, S, b) /\ a \notin Under(R, S, a)
    BY DEF Under, Ordered
  <2>2. /\ Cardinality(Under(R, S, a)) <= Cardinality(Under(R, S, b))
        /\ Cardinality(Under(R, S, a)) # Cardinality(Under(R, S, b))
    BY <1>2, <2>1, FS_Subset
  <2> QED
    BY <1>2, <2>2
<1>4. \A a, b \in S : Cardinality(Under(R, S, a)) = Cardinality(Under(R, S, b)) => a = b
  <2> SUFFICES ASSUME NEW a \in S, NEW b \in S, a # b
               PROVE  Cardinality(Under(R, S, a)) # Cardinality(Under(R, S, b))
    OBVIOUS
  <2>1. <<a, b>> \in R \/ <<b, a>> \in R
    BY DEF Ordered
  <2>2. Cardinality(Under(R, S, a)) \in Nat /\ Cardinality(Under(R, S, b)) \in Nat
    BY <1>2
  <2>3. \/ Cardinality(Under(R, S, a)) < Cardinality(Under(R, S, b))
        \/ Cardinality(Under(R, S, b)) < Cardinality(Under(R, S, a))
    BY <1>3, <2>1
  <2> QED
    BY <2>2, <2>3
<1>5. r \in [S -> 0..Cardinality(S)-1]
  BY <1>1, <1>2
<1>6. r \in Injection(S, 0..Cardinality(S)-1)
  BY <1>4, <1>5 DEF Injection, IsInjective
<1>7. IsFiniteSet(0..Cardinality(S)-1) /\ Cardinality(0..Cardinality(S)-1) = Cardinality(S)
  <2>1. PICK N \in Nat : N = Cardinality(S)
    BY ONLY <1>1
  <2>2. N - 1 \in Int /\ IF 0 > N - 1 THEN N = 0 ELSE (N - 1) - 0 + 1 = N
    BY ONLY <2>1
  <2>3. IsFiniteSet(0..N-1) /\ Cardinality(0..N-1) = N
    BY ONLY <2>1, <2>2, FS_Interval
  <2> QED
    BY ONLY <2>1, <2>3
<1>8. r \in Surjection(S, 0..Cardinality(S)-1)
  BY <1>6, <1>7, FS_Injection
<1>9. \A k \in 0..Cardinality(S)-1 : \E a \in S : Cardinality(Under(R, S, a)) = k
  BY <1>8 DEF Surjection
<1> QED
  BY <1>1, <1>2, <1>3, <1>4, <1>9

\* The first m of them are at most m.
FirstOf(R, S, m) == {a \in S : Cardinality(Under(R, S, a)) < m}

LEMMA FirstOnes ==
  ASSUME NEW S, IsFiniteSet(S), NEW R, Ordered(R, S), NEW m \in Int, NEW F, F = FirstOf(R, S, m)
  PROVE  IsFiniteSet(F) /\ Cardinality(F) \in Nat /\ (m >= 0 => Cardinality(F) <= m) /\ (m <= 0 => F = {})
<1>1. \A a \in S : Cardinality(Under(R, S, a)) \in Nat
  BY Ranks, FS_CardinalityType
<1>2. F = {a \in S : Cardinality(Under(R, S, a)) < m}
  BY DEF FirstOf
<1>3. F \in SUBSET S /\ (m <= 0 => F = {})
  BY <1>1, <1>2
<1>4. IsFiniteSet(F) /\ Cardinality(F) \in Nat
  BY <1>3, FS_Subset, FS_CardinalityType
<1>5. ASSUME m >= 0 PROVE Cardinality(F) <= m
  <2> DEFINE f == [a \in F |-> Cardinality(Under(R, S, a))]
  <2>1. f \in [F -> 0..m-1]
    BY <1>1, <1>5, <1>2
  <2>2. \A a, b \in F : f[a] = f[b] => a = b
    BY <1>3, Ranks
  <2>3. f \in Injection(F, 0..m-1)
    BY <2>1, <2>2 DEF Injection, IsInjective
  <2>4. IsFiniteSet(0..m-1) /\ Cardinality(0..m-1) = m
    BY <1>5, FS_Interval
  <2> QED
    BY <2>3, <2>4, FS_Injection
<1> QED
  BY <1>3, <1>4, <1>5

\* Numbers from the least to the greatest, and the entries of a sequence picked in that order.
LEMMA AscendingIs ==
  ASSUME NEW S, IsFiniteSet(S), S \subseteq Int
  PROVE  /\ Ascending(S) \in [1..Cardinality(S) -> S]
         /\ \A i, j \in 1..Cardinality(S) : Ascending(S)[i] = Ascending(S)[j] => i = j
         /\ \A x \in S : \E k \in 1..Cardinality(S) : Ascending(S)[k] = x
<1>1. PICK R : R = {p \in S \X S : p[1] < p[2]}
  OBVIOUS
<1>2. Ordered(R, S)
  <2>1. \A a, b \in S : <<a, b>> \in R <=> a < b
    BY <1>1
  <2>2. \A a, b, c \in Int : ~ (a < a) /\ (a # b => a < b \/ b < a) /\ (a < b /\ b < c => a < c)
    OBVIOUS
  <2> QED
    BY <2>1, <2>2 DEF Ordered
<1>3. \A k \in 0..Cardinality(S)-1 : \E a \in S : Cardinality(Under(R, S, a)) = k
  BY ONLY IsFiniteSet(S), <1>2, Ranks
<1>4. \A a \in S : Cardinality(Under(R, S, a)) = Cardinality({b \in S : b < a})
  <2> TAKE a \in S
  <2>1. Under(R, S, a) = {b \in S : b < a}
    BY <1>1 DEF Under
  <2> QED
    BY <2>1
<1>5. PICK n : n = Cardinality(S) /\ n \in Nat
  BY FS_CardinalityType
<1>6. PICK s : s = Ascending(S)
  OBVIOUS
<1> DEFINE c(k) == CHOOSE a \in S : Cardinality({b \in S : b < a}) = k - 1
<1>7. s = [k \in 1..n |-> c(k)]
  <2>1. Ascending(S) = [k \in 1..Cardinality(S) |-> CHOOSE a \in S : Cardinality({b \in S : b < a}) = k - 1]
    BY DEF Ascending, Ranked
  <2>2. Cardinality(S) = n
    BY <1>5
  <2> QED
    BY ONLY <1>6, <2>1, <2>2
<1>8. \A k \in 1..n : c(k) \in S /\ Cardinality(Under(R, S, c(k))) = k - 1
  <2> TAKE k \in 1..n
  <2>1. k - 1 \in 0..Cardinality(S)-1
    BY <1>5
  <2> HIDE DEF c
  <2>2. PICK a \in S : Cardinality(Under(R, S, a)) = k - 1
    BY <1>3, <2>1
  <2>3. Cardinality({b \in S : b < a}) = k - 1
    BY <1>4, <2>2
  <2>4. c(k) \in S /\ Cardinality({b \in S : b < c(k)}) = k - 1
    BY <2>3 DEF c
  <2> QED
    BY <1>4, <2>4
<1> HIDE DEF c
<1>9. s \in [1..n -> S] /\ \A k \in 1..n : s[k] = c(k)
  BY <1>7, <1>8
<1>10. \A i, j \in 1..n : s[i] = s[j] => i = j
  <2> SUFFICES ASSUME NEW i \in 1..n, NEW j \in 1..n, s[i] = s[j] PROVE i = j
    OBVIOUS
  <2>1. i - 1 = j - 1
    BY <1>8, <1>9
  <2> QED
    BY <1>5, <2>1
<1>11. \A x \in S : \E k \in 1..n : s[k] = x
  <2> TAKE x \in S
  <2>1. Cardinality(Under(R, S, x)) \in 0..n-1
    BY <1>2, <1>5, Ranks
  <2>2. PICK k \in 1..n : k = Cardinality(Under(R, S, x)) + 1
    BY <1>5, <2>1
  <2>3. s[k] \in S /\ Cardinality(Under(R, S, s[k])) = Cardinality(Under(R, S, x))
    BY <1>8, <1>9, <2>1, <2>2
  <2> QED
    BY <1>2, <2>3, Ranks
<1> QED
  BY <1>5, <1>6, <1>9, <1>10, <1>11

PicksBy(s, ps, P) ==
  /\ s \in [1..Cardinality(P) -> P]
  /\ \A i, j \in 1..Cardinality(P) : s[i] = s[j] => i = j
  /\ \A x \in P : \E k \in 1..Cardinality(P) : s[k] = x
  /\ Picked(ps, P) = [k \in 1..Cardinality(P) |-> ps[s[k]]]

LEMMA PickedIs ==
  ASSUME NEW ps, NEW P, IsFiniteSet(P), P \subseteq Int
  PROVE  \E s : PicksBy(s, ps, P)
<1>1. PICK s : s = Ascending(P)
  OBVIOUS
<1>2. /\ s \in [1..Cardinality(P) -> P]
      /\ \A i, j \in 1..Cardinality(P) : s[i] = s[j] => i = j
      /\ \A x \in P : \E k \in 1..Cardinality(P) : s[k] = x
  BY <1>1, AscendingIs
<1>3. Picked(ps, P) = [k \in 1..Cardinality(P) |-> ps[s[k]]]
  BY ONLY <1>1 DEF Picked
<1> QED
  BY ONLY <1>2, <1>3 DEF PicksBy

\* The greatest of a set of numbers, as the folds of sequences take it.
LEMMA MaxIn ==
  ASSUME NEW n \in Nat, NEW s \in SUBSET (1..n), s # {}
  PROVE  Max(s) \in s /\ \A y \in s : y <= Max(s)
<1> DEFINE D == {d \in Nat : \E x \in s : d = n - x}
<1>1. D # {} /\ D \subseteq Nat
  <2>1. PICK x \in s : x \in 1..n
    OBVIOUS
  <2>2. n - x \in Nat
    BY <2>1
  <2>3. n - x \in D
    BY <2>1, <2>2
  <2> QED
    BY <2>3
<1>2. PICK d \in D : \A e \in D : ~ (<<e, d>> \in OpToRel(<, Nat))
  BY <1>1, NatLessThanWellFounded, WFMin
<1>3. PICK x \in s : d = n - x
  BY <1>2
<1>4. \A y \in s : ~ (n - y < d)
  <2> TAKE y \in s
  <2>1. n - y \in D
    BY DEF D
  <2> QED
    BY <1>1, <1>2, <2>1 DEF OpToRel
<1>5. \A y \in s : y <= x
  BY <1>3, <1>4
<1>6. \A y \in s : x >= y
  BY <1>5
<1>7. Max(s) \in s /\ \A y \in s : Max(s) >= y
  BY <1>3, <1>6 DEF Max
<1>8. \A a, b \in 1..n : a >= b => b <= a
  OBVIOUS
<1> QED
  BY <1>7, <1>8

\* What a fold over the places 1..n goes through, for a step that stays within A.
Folds(f, n, A, a, G) ==
  /\ f \in [SUBSET (1..n) -> A]
  /\ \A s \in SUBSET (1..n) : f[s] = IF s = {} THEN a ELSE G[<<f[s \ {Max(s)}], Max(s)>>]

\* There is such a run: a shortest prefix without one could be extended.
LEMMA FoldExists ==
  ASSUME NEW n \in Nat, NEW A, NEW a \in A, NEW G \in [A \X (1..n) -> A]
  PROVE  \E f : Folds(f, n, A, a, G)
<1> DEFINE Bad == {k \in 0..n : ~ \E f : Folds(f, k, A, a, G)}
<1> SUFFICES ASSUME Bad # {} PROVE FALSE
  OBVIOUS
<1>1. PICK k \in Bad : \A e \in Bad : ~ (<<e, k>> \in OpToRel(<, Nat))
  <2>1. Bad \subseteq Nat
    OBVIOUS
  <2> QED
    BY <2>1, NatLessThanWellFounded, WFMin
<1>2. k \in 0..n /\ \A e \in Bad : ~ (e < k)
  <2>1. k \in 0..n /\ Bad \subseteq 0..n
    BY <1>1
  <2>2. \A e \in Bad : ~ (<<e, k>> \in OpToRel(<, Nat))
    BY <1>1
  <2> HIDE DEF Bad
  <2>3. \A e \in Bad : e \in Nat /\ k \in Nat
    BY <2>1
  <2> QED
    BY <2>1, <2>2, <2>3 DEF OpToRel
<1>3. ~ \E f : Folds(f, k, A, a, G)
  BY <1>1
<1>4. CASE k = 0
  <2> DEFINE f == [s \in SUBSET (1..k) |-> a]
  <2>1. \A s \in SUBSET (1..k) : s = {}
    BY <1>4
  <2>2. Folds(f, k, A, a, G)
    BY <2>1 DEF Folds
  <2> QED
    BY <1>3, <2>2
<1>5. CASE k # 0
  <2>1. k - 1 \in 0..n /\ k - 1 \notin Bad /\ k \in 1..n
    BY <1>2, <1>5
  <2>2. PICK f : Folds(f, k - 1, A, a, G)
    BY <2>1
  <2> HIDE DEF Bad
  <2> DEFINE g == [s \in SUBSET (1..k) |-> IF k \in s THEN G[<<f[s \ {k}], k>>] ELSE f[s]]
  <2>3. \A s \in SUBSET (1..k) : s \ {k} \in SUBSET (1..(k - 1))
    BY <2>1
  <2>4. \A s \in SUBSET (1..k) : k \notin s => s \in SUBSET (1..(k - 1))
    BY <2>3
  <2>5. \A s \in SUBSET (1..(k - 1)) : f[s] \in A
    BY <2>2 DEF Folds
  <2>6. g \in [SUBSET (1..k) -> A]
    <3> SUFFICES ASSUME NEW s \in SUBSET (1..k)
                 PROVE  (IF k \in s THEN G[<<f[s \ {k}], k>>] ELSE f[s]) \in A
      OBVIOUS
    <3>1. ASSUME k \in s PROVE G[<<f[s \ {k}], k>>] \in A
      <4>1. f[s \ {k}] \in A
        BY <2>3, <2>5
      <4>2. <<f[s \ {k}], k>> \in A \X (1..n)
        BY <2>1, <4>1
      <4> QED
        BY <4>2
    <3>2. ASSUME k \notin s PROVE f[s] \in A
      BY <2>4, <2>5, <3>2
    <3> QED
      BY <3>1, <3>2
  <2>7. \A s \in SUBSET (1..k) : s # {} => g[s] = G[<<g[s \ {Max(s)}], Max(s)>>]
    <3> SUFFICES ASSUME NEW s \in SUBSET (1..k), s # {}
                 PROVE  g[s] = G[<<g[s \ {Max(s)}], Max(s)>>]
      OBVIOUS
    <3>1. k \in Nat
      BY <2>1
    <3>2. PICK m : m = Max(s)
      OBVIOUS
    <3>3. m \in s /\ \A y \in s : y <= m
      BY <3>1, <3>2, MaxIn
    <3>4. s \ {m} \in SUBSET (1..k) /\ k \notin s \ {m}
      BY <2>1, <3>1, <3>3
    <3>5. g[s \ {m}] = f[s \ {m}]
      BY <3>4
    <3>6. CASE k \in s
      <4>1. m = k
        BY <3>1, <3>3, <3>6
      <4> QED
        BY <3>2, <3>5, <3>6, <4>1
    <3>7. CASE k \notin s
      <4>1. s \in SUBSET (1..(k - 1)) /\ g[s] = f[s]
        BY <2>4, <3>7
      <4>2. f[s] = G[<<f[s \ {m}], m>>]
        BY <2>2, <3>2, <4>1 DEF Folds
      <4> QED
        BY <3>2, <3>5, <4>1, <4>2
    <3> QED
      BY <3>6, <3>7
  <2>8. g[{}] = a
    <3>1. {} \in SUBSET (1..(k - 1)) /\ {} \in SUBSET (1..k)
      OBVIOUS
    <3>2. f[{}] = a
      BY <2>2, <3>1 DEF Folds
    <3> QED
      BY <3>1, <3>2
  <2>9. Folds(g, k, A, a, G)
    <3> HIDE DEF g
    <3> QED
      BY <2>6, <2>7, <2>8 DEF Folds
  <2> QED
    BY <1>3, <2>9
<1> QED
  BY <1>4, <1>5

\* What satisfies the equation of a fold whenever it is in A stays in A to the end.
LEMMA FoldStays ==
  ASSUME NEW n \in Nat, NEW A, NEW a \in A, NEW G \in [A \X (1..n) -> A], NEW h, h[{}] = a,
         \A s \in SUBSET (1..n) : s # {} /\ h[s \ {Max(s)}] \in A => h[s] = G[<<h[s \ {Max(s)}], Max(s)>>]
  PROVE  h[1..n] \in A
<1> DEFINE Bad == {k \in 0..n : h[1..k] \notin A}
<1>1. SUFFICES ASSUME Bad # {} PROVE FALSE
  <2>1. n \in 0..n
    OBVIOUS
  <2> QED
    BY <2>1
<1>2. PICK k \in Bad : \A e \in Bad : ~ (<<e, k>> \in OpToRel(<, Nat))
  <2>1. Bad \subseteq Nat
    OBVIOUS
  <2> QED
    BY <1>1, <2>1, NatLessThanWellFounded, WFMin
<1>3. k \in 0..n /\ h[1..k] \notin A
  BY <1>2
<1>4. CASE k = 0
  <2>1. 1..k = {}
    BY <1>4
  <2> QED
    BY <1>3, <2>1
<1>5. CASE k # 0
  <2>1. k \in 1..n /\ k - 1 \in 0..n
    BY <1>3, <1>5
  <2>2. <<k - 1, k>> \in OpToRel(<, Nat)
    BY <2>1 DEF OpToRel
  <2>3. k - 1 \notin Bad
    BY <1>2, <2>2
  <2>4. h[1..(k - 1)] \in A
    BY <2>1, <2>3
  <2>5. Max(1..k) = k
    <3>1. 1..k \in SUBSET (1..n) /\ 1..k # {} /\ k \in 1..k
      BY <2>1
    <3>2. Max(1..k) \in 1..k /\ k <= Max(1..k)
      BY <3>1, MaxIn
    <3> QED
      BY <2>1, <3>2
  <2>6. (1..k) \ {k} = 1..(k - 1) /\ 1..k # {} /\ 1..k \in SUBSET (1..n)
    BY <2>1
  <2>7. h[1..k] = G[<<h[1..(k - 1)], k>>]
    BY <2>4, <2>5, <2>6
  <2>8. <<h[1..(k - 1)], k>> \in A \X (1..n)
    BY <2>1, <2>4
  <2> QED
    BY <1>3, <2>7, <2>8
<1> QED
  BY <1>4, <1>5

-----------------------------------------------------------------------------
(* Relinking *)

PublicIds == {NoPublicId} \cup (Int \X Nat)
PositionType == [id : PublicIds, track : PublicIds, x : Int, type : {"staff", "customer"},
             state : {"working", "queue", "seated", "unknown"}, occluded : BOOLEAN]
Unlike(ps) == \A j, k \in DOMAIN ps : j # k /\ ps[j].id # NoPublicId => ps[j].id # ps[k].id
SameButId(p, q) == /\ p.track = q.track /\ p.x = q.x /\ p.type = q.type
                   /\ p.state = q.state /\ p.occluded = q.occluded

LEMMA ApartIs ==
  ASSUME NEW p \in PositionType, NEW q \in PositionType PROVE Apart(p, q) \in Nat /\ Apart(p, q) = Apart(q, p)
BY DEF Apart, PositionType

\* The links come one by one, each of them once.
LEMMA InOrderIs ==
  ASSUME NEW lst \in Seq(PositionType), NEW seen \in Seq(PositionType)
  PROVE  \E n \in Nat : InOrder(lst, seen) \in [1..n -> Links(lst, seen)]
<1>1. PICK S : S = Links(lst, seen)
  OBVIOUS
<1>2. S \subseteq (1..Len(lst)) \X (1..Len(seen))
  BY <1>1 DEF Links
<1>3. IsFiniteSet(S)
  <2>1. IsFiniteSet(1..Len(lst)) /\ IsFiniteSet(1..Len(seen))
    BY FS_Interval
  <2>2. IsFiniteSet((1..Len(lst)) \X (1..Len(seen)))
    BY <2>1, FS_Product
  <2> QED
    BY <1>2, <2>2, FS_Subset
<1>4. PICK R : R = {p \in S \X S : Nearer(lst, seen, p[1], p[2])}
  OBVIOUS
<1>5. Ordered(R, S)
  <2>1. \A a \in S : /\ a[1] \in Nat /\ a[2] \in Nat /\ a = <<a[1], a[2]>>
                     /\ Apart(lst[a[1]], seen[a[2]]) \in Nat
    <3> TAKE a \in S
    <3>1. a \in (1..Len(lst)) \X (1..Len(seen))
      BY <1>2
    <3>2. a[1] \in 1..Len(lst) /\ a[2] \in 1..Len(seen) /\ a = <<a[1], a[2]>>
      BY <3>1
    <3>3. lst[a[1]] \in PositionType /\ seen[a[2]] \in PositionType
      BY <3>2
    <3>4. Apart(lst[a[1]], seen[a[2]]) \in Nat
      BY ONLY <3>3, ApartIs
    <3> QED
      BY <3>2, <3>4
  <2>2. \A a, b \in S : <<a, b>> \in R <=> Nearer(lst, seen, a, b)
    BY <1>4
  <2> DEFINE d(a) == Apart(lst[a[1]], seen[a[2]])
  <2>3. \A a, b \in S : Nearer(lst, seen, a, b) <=>
                          \/ d(a) < d(b)
                          \/ d(a) = d(b) /\ a[1] < b[1]
                          \/ d(a) = d(b) /\ a[1] = b[1] /\ a[2] < b[2]
    BY ONLY DEF Nearer
  <2>4. \A a \in S : d(a) \in Nat
    BY <2>1
  <2> HIDE DEF d
  <2>5. \A a \in S : <<a, a>> \notin R
    BY <2>1, <2>2, <2>3, <2>4
  <2>6. \A a, b \in S : a # b => <<a, b>> \in R \/ <<b, a>> \in R
    <3> SUFFICES ASSUME NEW a \in S, NEW b \in S, a # b PROVE <<a, b>> \in R \/ <<b, a>> \in R
      OBVIOUS
    <3>1. a[1] # b[1] \/ a[2] # b[2]
      BY <2>1
    <3>2. a[1] \in Nat /\ a[2] \in Nat /\ b[1] \in Nat /\ b[2] \in Nat /\ d(a) \in Nat /\ d(b) \in Nat
      BY <2>1, <2>4
    <3>3. Nearer(lst, seen, a, b) \/ Nearer(lst, seen, b, a)
      BY <2>3, <3>1, <3>2
    <3> QED
      BY <2>2, <3>3
  <2>7. \A a, b, c \in S : <<a, b>> \in R /\ <<b, c>> \in R => <<a, c>> \in R
    <3> SUFFICES ASSUME NEW a \in S, NEW b \in S, NEW c \in S, <<a, b>> \in R, <<b, c>> \in R
                 PROVE  <<a, c>> \in R
      OBVIOUS
    <3>1. /\ a[1] \in Nat /\ a[2] \in Nat /\ b[1] \in Nat /\ b[2] \in Nat /\ c[1] \in Nat /\ c[2] \in Nat
          /\ d(a) \in Nat /\ d(b) \in Nat /\ d(c) \in Nat
      BY <2>1, <2>4
    <3>2. /\ \/ d(a) < d(b)
             \/ d(a) = d(b) /\ a[1] < b[1]
             \/ d(a) = d(b) /\ a[1] = b[1] /\ a[2] < b[2]
          /\ \/ d(b) < d(c)
             \/ d(b) = d(c) /\ b[1] < c[1]
             \/ d(b) = d(c) /\ b[1] = c[1] /\ b[2] < c[2]
      BY <2>2, <2>3
    <3>3. \/ d(a) < d(c)
          \/ d(a) = d(c) /\ a[1] < c[1]
          \/ d(a) = d(c) /\ a[1] = c[1] /\ a[2] < c[2]
      <4>1. d(a) <= d(b) /\ d(b) <= d(c)
        BY ONLY <3>1, <3>2
      <4>2. CASE d(a) < d(b) \/ d(b) < d(c)
        BY ONLY <3>1, <4>1, <4>2
      <4>3. CASE d(a) = d(b) /\ d(b) = d(c)
        BY ONLY <3>1, <3>2, <4>3
      <4> QED
        BY ONLY <3>1, <4>1, <4>2, <4>3
    <3> QED
      BY <2>2, <2>3, <3>3
  <2> QED
    BY <2>5, <2>6, <2>7 DEF Ordered
<1>6. \A k \in 0..Cardinality(S)-1 : \E a \in S : Cardinality(Under(R, S, a)) = k
  BY ONLY <1>3, <1>5, Ranks
<1>7. Cardinality(S) \in Nat
  BY <1>3, FS_CardinalityType
<1> DEFINE c(k) == CHOOSE a \in S : Cardinality({b \in S : Nearer(lst, seen, b, a)}) = k - 1
<1>8. InOrder(lst, seen) = [k \in 1..Cardinality(S) |-> c(k)]
  BY ONLY <1>1 DEF InOrder, Ranked
<1>9. \A a \in S : Cardinality(Under(R, S, a)) = Cardinality({b \in S : Nearer(lst, seen, b, a)})
  <2> TAKE a \in S
  <2>1. Under(R, S, a) = {b \in S : Nearer(lst, seen, b, a)}
    BY <1>4 DEF Under
  <2> QED
    BY <2>1
<1>10. \A k \in 1..Cardinality(S) : c(k) \in S
  <2> TAKE k \in 1..Cardinality(S)
  <2>1. k - 1 \in 0..Cardinality(S)-1
    BY <1>7
  <2> HIDE DEF c
  <2>2. PICK a \in S : Cardinality(Under(R, S, a)) = k - 1
    BY <1>6, <2>1
  <2>3. Cardinality({b \in S : Nearer(lst, seen, b, a)}) = k - 1
    BY <1>9, <2>2
  <2> QED
    BY <2>3 DEF c
<1> HIDE DEF c
<1>11. InOrder(lst, seen) \in [1..Cardinality(S) -> S]
  BY <1>8, <1>10
<1> QED
  BY <1>1, <1>7, <1>11

\* An earlier number is given once, to one who had another, and nothing else of anybody changes.
LEMMA RelinkedIs ==
  ASSUME NEW lst \in Seq(PositionType), NEW seen \in Seq(PositionType), Unlike(seen)
  PROVE  /\ Relinked(lst, seen) \in [1..Len(seen) -> PositionType]
         /\ Unlike(Relinked(lst, seen))
         /\ \A k \in 1..Len(seen) : /\ SameButId(Relinked(lst, seen)[k], seen[k])
                                    /\ Relinked(lst, seen)[k].id \in {seen[k].id} \cup IdsOf(lst)
<1>1. PICK pairs : pairs = InOrder(lst, seen)
  OBVIOUS
<1>2. PICK n \in Nat : pairs \in [1..n -> Links(lst, seen)]
  BY <1>1, InOrderIs
<1> DEFINE m == Len(seen)
           free == IdsOf(lst) \ IdsOf(seen)
           Good(acc) ==
             /\ Unlike(acc.out)
             /\ \A k \in 1..m : SameButId(acc.out[k], seen[k]) /\ acc.out[k].id \in {seen[k].id} \cup acc.given
           A == {acc \in [given : SUBSET free, replaced : SUBSET PublicIds, out : [1..m -> PositionType]] : Good(acc)}
           base == [given |-> {}, replaced |-> {}, out |-> seen]
<1>3. base \in A
  <2>1. seen \in [1..m -> PositionType]
    OBVIOUS
  <2>2. Good(base)
    BY DEF SameButId
  <2> QED
    BY <2>1, <2>2
<1>4. \A acc \in A : \A pair \in Links(lst, seen) : Relink(lst, acc, pair) \in A
  <2> SUFFICES ASSUME NEW acc \in A, NEW pair \in Links(lst, seen) PROVE Relink(lst, acc, pair) \in A
    OBVIOUS
  <2>1. /\ pair[1] \in 1..Len(lst) /\ pair[2] \in 1..m
        /\ lst[pair[1]].id # NoPublicId /\ lst[pair[1]].id \notin IdsOf(seen)
    BY DEF Links
  <2>2. PICK old : old = lst[pair[1]].id
    OBVIOUS
  <2>3. PICK now : now = acc.out[pair[2]].id
    OBVIOUS
  <2>4. /\ acc.given \subseteq free /\ acc.replaced \subseteq PublicIds /\ acc.out \in [1..m -> PositionType]
        /\ Good(acc)
    OBVIOUS
  <2>5. old \in free /\ old \in PublicIds /\ old # NoPublicId
    <3>1. lst[pair[1]] \in PositionType /\ pair[1] \in DOMAIN lst
      BY <2>1
    <3>2. old \in PublicIds /\ old # NoPublicId /\ old \notin IdsOf(seen)
      BY <2>1, <2>2, <3>1 DEF PositionType
    <3>3. old \in IdsOf(lst)
      BY <2>2, <3>1, <3>2 DEF IdsOf
    <3> QED
      BY <3>2, <3>3
  <2>6. now \in PublicIds
    BY <2>1, <2>3, <2>4 DEF PositionType
  <2>7. CASE old \in acc.given \/ now \in acc.replaced
    BY <2>2, <2>3, <2>7 DEF Relink
  <2>8. CASE old \notin acc.given /\ now \notin acc.replaced
    <3>1. PICK o : o = [acc.out EXCEPT ![pair[2]].id = old]
      OBVIOUS
    <3>2. Relink(lst, acc, pair) = [given |-> acc.given \cup {old}, replaced |-> acc.replaced \cup {now}, out |-> o]
      BY ONLY <2>2, <2>3, <2>8, <3>1 DEF Relink
    <3>3. /\ o \in [1..m -> PositionType]
          /\ \A k \in 1..m : k # pair[2] => o[k] = acc.out[k]
          /\ o[pair[2]].id = old /\ SameButId(o[pair[2]], acc.out[pair[2]])
      <4>1. PICK q : q = [acc.out[pair[2]] EXCEPT !.id = old]
        OBVIOUS
      <4>2. acc.out[pair[2]] \in PositionType
        BY ONLY <2>1, <2>4
      <4>3. q \in PositionType /\ q.id = old /\ SameButId(q, acc.out[pair[2]])
        BY ONLY <2>5, <4>1, <4>2 DEF PositionType, SameButId
      <4>4. o = [acc.out EXCEPT ![pair[2]] = q]
        BY ONLY <3>1, <4>1
      <4> QED
        BY ONLY <2>1, <2>4, <4>3, <4>4
    <3>4. \A k \in 1..m : acc.out[k].id # old
      <4> SUFFICES ASSUME NEW k \in 1..m, acc.out[k].id = old PROVE FALSE
        OBVIOUS
      <4>1. seen[k].id = old
        BY <2>4, <2>8
      <4>2. old \in IdsOf(seen)
        BY <2>5, <4>1 DEF IdsOf
      <4> QED
        BY <2>5, <4>2
    <3>5. Unlike(o)
      <4>1. DOMAIN o = 1..m /\ DOMAIN acc.out = 1..m
        BY <2>4, <3>3
      <4>2. \A j, k \in 1..m : j # k /\ acc.out[j].id # NoPublicId => acc.out[j].id # acc.out[k].id
        BY <2>4, <4>1 DEF Unlike
      <4> SUFFICES ASSUME NEW j \in 1..m, NEW k \in 1..m, j # k, o[j].id # NoPublicId
                   PROVE  o[j].id # o[k].id
        BY <4>1 DEF Unlike
      <4> QED
        BY <3>3, <3>4, <4>2
    <3>6. \A k \in 1..m : SameButId(o[k], seen[k]) /\ o[k].id \in {seen[k].id} \cup (acc.given \cup {old})
      <4> TAKE k \in 1..m
      <4>1. SameButId(acc.out[k], seen[k]) /\ acc.out[k].id \in {seen[k].id} \cup acc.given
        BY <2>4
      <4>2. CASE k = pair[2]
        BY <3>3, <4>1, <4>2 DEF SameButId
      <4>3. CASE k # pair[2]
        BY <3>3, <4>1, <4>3
      <4> QED
        BY <4>2, <4>3
    <3>7. acc.given \cup {old} \in SUBSET free /\ acc.replaced \cup {now} \in SUBSET PublicIds
      BY <2>4, <2>5, <2>6
    <3> QED
      BY ONLY <3>2, <3>3, <3>5, <3>6, <3>7
  <2> QED
    BY <2>7, <2>8
<1> HIDE DEF A
<1> DEFINE G == [p \in A \X (1..n) |-> Relink(lst, p[1], pairs[p[2]])]
<1>5. G \in [A \X (1..n) -> A]
  BY <1>2, <1>4
<1>6. PICK f : Folds(f, n, A, base, G)
  <2> HIDE DEF G, base
  <2> QED
    BY <1>3, <1>5, FoldExists
<1> DEFINE Runs(x) == x = [s \in SUBSET (1..n) |->
                             IF s = {} THEN base ELSE Relink(lst, x[s \ {Max(s)}], pairs[Max(s)])]
           h == CHOOSE x : Runs(x)
<1>7. \A acc \in A : \A k \in 1..n : G[<<acc, k>>] = Relink(lst, acc, pairs[k])
  OBVIOUS
<1>8. \A s \in SUBSET (1..n) : s # {} => Max(s) \in 1..n /\ s \ {Max(s)} \in SUBSET (1..n)
  BY MaxIn
<1> HIDE DEF G, base
<1>9. Runs(f)
  <2>1. \A s \in SUBSET (1..n) : f[s] = IF s = {} THEN base
                                        ELSE Relink(lst, f[s \ {Max(s)}], pairs[Max(s)])
    BY <1>6, <1>7, <1>8 DEF Folds
  <2> QED
    BY <1>6, <2>1 DEF Folds
<1>10. Runs(h)
  BY <1>9
<1>11. /\ h[{}] = base
       /\ \A s \in SUBSET (1..n) : s # {} /\ h[s \ {Max(s)}] \in A =>
            h[s] = G[<<h[s \ {Max(s)}], Max(s)>>]
  <2>1. \A s \in SUBSET (1..n) : h[s] = IF s = {} THEN base
                                        ELSE Relink(lst, h[s \ {Max(s)}], pairs[Max(s)])
    <3> HIDE DEF h
    <3> QED
      BY <1>10
  <2> HIDE DEF h, Runs
  <2> QED
    BY <1>7, <1>8, <2>1
<1>12. h[1..n] \in A
  <2> HIDE DEF h
  <2> QED
    BY <1>3, <1>5, <1>11, FoldStays
<1>13. Relinked(lst, seen) = h[1..n].out
  <2>1. DOMAIN pairs = 1..n
    BY <1>2
  <2>2. Relinked(lst, seen) =
          (CHOOSE x : x = [s \in SUBSET DOMAIN pairs |->
                             IF s = {} THEN base ELSE Relink(lst, x[s \ {Max(s)}], pairs[Max(s)])])[DOMAIN pairs].out
    BY ONLY <1>1 DEF Relinked, FoldLeft, MapThenFoldSet, base
  <2> QED
    BY ONLY <2>1, <2>2
<1> HIDE DEF h
<1>14. PICK acc : acc = h[1..n]
  OBVIOUS
<1>15. acc \in [given : SUBSET free, replaced : SUBSET PublicIds, out : [1..m -> PositionType]] /\ Good(acc)
  BY <1>12, <1>14 DEF A
<1>16. Relinked(lst, seen) = acc.out
  BY <1>13, <1>14
<1> QED
  BY ONLY <1>15, <1>16

-----------------------------------------------------------------------------
(* Staff that is seen, and staff that is held *)

OfScene(e) == {NoPublicId} \cup ({e} \X Nat)
Presences == [last : Seq(PositionType), count : Nat, missing : Nat]
Working(p) == p.type = "staff" /\ p.state = "working"

\* What is kept of the staff of scene e.
Team(pr, e) ==
  /\ Unlike(pr.last)
  /\ \A k \in DOMAIN pr.last : Working(pr.last[k]) /\ pr.last[k].id \in OfScene(e)
  /\ pr.last # <<>> => pr.count = Len(pr.last)

\* What is shown of the n boxes ps: the same people, some of them as staff, and hidden staff.
Shows(qs, ps, e) ==
  /\ qs \in Seq(PositionType) /\ Unlike(qs) /\ Len(ps) <= Len(qs)
  /\ \A k \in DOMAIN qs : qs[k].id \in OfScene(e)
  /\ \A k \in 1..Len(ps) : /\ qs[k].track = ps[k].track /\ qs[k].x = ps[k].x
                           /\ Working(qs[k]) \/ (qs[k].type = ps[k].type /\ qs[k].state = ps[k].state)
  /\ \A k \in 1..Len(qs) : k > Len(ps) => Working(qs[k])

Alike(ps, seen) ==
  /\ seen \in Seq(PositionType) /\ Len(seen) = Len(ps)
  /\ \A k \in 1..Len(ps) : /\ seen[k].id = ps[k].id /\ seen[k].track = ps[k].track /\ seen[k].x = ps[k].x
                           /\ seen[k].type = ps[k].type /\ seen[k].state = ps[k].state

\* What is seen is what the boxes say, with nobody hidden.
LEMMA SeenIs ==
  ASSUME NEW ps \in Seq(PositionType), Unlike(ps)
  PROVE  /\ Alike(ps, [i \in DOMAIN ps |-> Shown(ps[i])])
         /\ Unlike([i \in DOMAIN ps |-> Shown(ps[i])])
         /\ StaffIn([i \in DOMAIN ps |-> Shown(ps[i])]) = StaffIn(ps)
<1>1. PICK n \in Nat : n = Len(ps) /\ DOMAIN ps = 1..n
  OBVIOUS
<1>2. PICK seen : seen = [i \in 1..n |-> Shown(ps[i])]
  OBVIOUS
<1>3. \A k \in 1..n : /\ seen[k] \in PositionType /\ seen[k].id = ps[k].id /\ seen[k].track = ps[k].track
                      /\ seen[k].x = ps[k].x /\ seen[k].type = ps[k].type /\ seen[k].state = ps[k].state
  <2> TAKE k \in 1..n
  <2>1. ps[k] \in PositionType
    BY <1>1
  <2>2. seen[k] = [ps[k] EXCEPT !.occluded = FALSE]
    BY <1>2 DEF Shown
  <2> QED
    BY ONLY <2>1, <2>2 DEF PositionType
<1>4. seen \in Seq(PositionType) /\ Len(seen) = n /\ DOMAIN seen = 1..n
  <2>1. DOMAIN seen = 1..n /\ seen \in [1..n -> PositionType]
    BY <1>2, <1>3
  <2> QED
    BY <1>1, <2>1
<1>5. Alike(ps, seen)
  BY <1>1, <1>3, <1>4 DEF Alike
<1>6. Unlike(seen)
  BY <1>1, <1>3, <1>4 DEF Unlike
<1>7. StaffIn(seen) = StaffIn(ps)
  BY <1>1, <1>3, <1>4 DEF StaffIn, IsStaff
<1> QED
  BY ONLY <1>1, <1>2, <1>5, <1>6, <1>7

\* The staff of a sequence is finite and counted.
LEMMA StaffCount ==
  ASSUME NEW ps \in Seq(PositionType)
  PROVE  /\ IsFiniteSet(StaffIn(ps)) /\ StaffIn(ps) \subseteq 1..Len(ps)
         /\ Cardinality(StaffIn(ps)) \in Nat
         /\ Cardinality(StaffIn(ps)) = 0 <=> StaffIn(ps) = {}
<1>1. StaffIn(ps) \in SUBSET (1..Len(ps))
  BY DEF StaffIn
<1>2. IsFiniteSet(1..Len(ps))
  BY FS_Interval
<1>3. IsFiniteSet(StaffIn(ps))
  BY <1>1, <1>2, FS_Subset
<1>4. Cardinality(StaffIn(ps)) \in Nat /\ (Cardinality(StaffIn(ps)) = 0 <=> StaffIn(ps) = {})
  BY <1>3, FS_CardinalityType, FS_EmptySet
<1> QED
  BY <1>1, <1>3, <1>4

\* Somebody of the staff is seen: earlier numbers are given back, the staff seen is kept.
LEMMA StaffIsSeen ==
  ASSUME NEW e, NEW ps \in Seq(PositionType), Unlike(ps), \A k \in DOMAIN ps : ps[k].id \in OfScene(e),
         \A k \in DOMAIN ps : IsStaff(ps[k]) => Working(ps[k]),
         NEW pr \in Presences, Team(pr, e), NEW seen, Alike(ps, seen), Unlike(seen),
         StaffIn(seen) = StaffIn(ps), StaffIn(ps) # {},
         NEW linked, linked = Relinked(pr.last, seen),
         NEW kept, kept = [last |-> Picked(linked, StaffIn(linked)),
                           count |-> Cardinality(StaffIn(ps)), missing |-> 0]
  PROVE  /\ kept \in Presences /\ Team(kept, e)
         /\ Shows(linked, ps, e)
         /\ StaffIn(linked) = StaffIn(ps)
         /\ Len(kept.last) = Cardinality(StaffIn(ps))
<1>1. PICK n \in Nat : n = Len(ps) /\ DOMAIN ps = 1..n /\ n = Len(seen) /\ DOMAIN seen = 1..n /\ seen \in Seq(PositionType)
  BY DEF Alike
<1>2. PICK lst \in Seq(PositionType) : lst = pr.last
  BY DEF Presences
<1>3. /\ linked \in [1..n -> PositionType] /\ Unlike(linked)
      /\ \A k \in 1..n : SameButId(linked[k], seen[k]) /\ linked[k].id \in {seen[k].id} \cup IdsOf(lst)
  BY <1>1, <1>2, RelinkedIs
<1>4. linked \in Seq(PositionType) /\ Len(linked) = n /\ DOMAIN linked = 1..n
  <2>1. PICK f : f = linked /\ f \in [1..n -> PositionType]
    BY ONLY <1>3
  <2>2. f \in Seq(PositionType) /\ Len(f) = n /\ DOMAIN f = 1..n
    BY ONLY <2>1, n \in Nat
  <2> QED
    BY ONLY <2>1, <2>2
<1>5. \A k \in 1..n : /\ linked[k].track = ps[k].track /\ linked[k].x = ps[k].x
                      /\ linked[k].type = ps[k].type /\ linked[k].state = ps[k].state
  BY <1>1, <1>3 DEF Alike, SameButId
<1>6. IdsOf(lst) \subseteq OfScene(e)
  BY <1>2 DEF IdsOf, Team
<1>7. \A k \in 1..n : linked[k].id \in OfScene(e)
  BY <1>1, <1>3, <1>6 DEF Alike
<1>8. StaffIn(linked) = StaffIn(ps)
  BY <1>1, <1>4, <1>5 DEF StaffIn, IsStaff
<1>9. Shows(linked, ps, e)
  BY <1>1, <1>3, <1>4, <1>5, <1>7 DEF Shows
<1>10. PICK c \in Nat : c = Cardinality(StaffIn(ps))
  BY StaffCount
<1>11. IsFiniteSet(StaffIn(ps)) /\ StaffIn(ps) \subseteq 1..n /\ StaffIn(ps) \subseteq Int
  BY <1>1, StaffCount
<1>12. PICK s \in [1..c -> StaffIn(ps)] :
         /\ \A i, j \in 1..c : s[i] = s[j] => i = j
         /\ Picked(linked, StaffIn(ps)) = [k \in 1..c |-> linked[s[k]]]
  <2>1. PICK s : PicksBy(s, linked, StaffIn(ps))
    BY ONLY <1>11, PickedIs
  <2>2. s \in [1..c -> StaffIn(ps)]
    BY ONLY <1>10, <2>1 DEF PicksBy
  <2>3. \A i, j \in 1..c : s[i] = s[j] => i = j
    BY ONLY <1>10, <2>1 DEF PicksBy
  <2>4. Picked(linked, StaffIn(ps)) = [k \in 1..c |-> linked[s[k]]]
    BY ONLY <1>10, <2>1 DEF PicksBy
  <2> QED
    BY ONLY <2>2, <2>3, <2>4
<1>13. PICK team : team = [k \in 1..c |-> linked[s[k]]]
  OBVIOUS
<1>14. \A k \in 1..c : s[k] \in 1..n /\ IsStaff(ps[s[k]])
  BY <1>1, <1>11, <1>12 DEF StaffIn
<1>15. team \in Seq(PositionType) /\ Len(team) = c /\ DOMAIN team = 1..c /\ \A k \in 1..c : team[k] = linked[s[k]]
  <2>1. team \in [1..c -> PositionType]
    BY <1>3, <1>13, <1>14
  <2> QED
    BY <1>13, <2>1
<1>16. \A k \in 1..c : Working(team[k]) /\ team[k].id \in OfScene(e)
  <2> TAKE k \in 1..c
  <2>1. PICK i \in 1..n : i = s[k] /\ IsStaff(ps[i]) /\ team[k] = linked[i]
    BY <1>14, <1>15
  <2>2. Working(ps[i])
    BY <1>1, <2>1
  <2> QED
    BY <1>5, <1>7, <2>1, <2>2 DEF Working
<1>17. Unlike(team)
  <2> SUFFICES ASSUME NEW j \in 1..c, NEW k \in 1..c, j # k, team[j].id # NoPublicId PROVE team[j].id # team[k].id
    BY <1>15 DEF Unlike
  <2>1. s[j] # s[k] /\ s[j] \in 1..n /\ s[k] \in 1..n
    BY <1>12, <1>14
  <2> QED
    BY <1>3, <1>4, <1>15, <2>1 DEF Unlike
<1>18. kept = [last |-> team, count |-> c, missing |-> 0]
  BY <1>8, <1>10, <1>12, <1>13
<1>19. kept \in Presences /\ kept.last = team /\ kept.count = c
  BY <1>15, <1>18 DEF Presences
<1> QED
  BY <1>8, <1>9, <1>10, <1>15, <1>16, <1>17, <1>19 DEF Team

\* The number that is held is the number of those shown: who is still seen, and who is not.
StillSeen(lst, seen) == {k \in 1..Len(seen) : seen[k].id \in IdsOf(lst)}
NotSeen(lst, seen) == {i \in 1..Len(lst) : lst[i].id \notin IdsOf(seen)}

\* Staff still seen under its number and staff that is not make up the staff that was kept.
LEMMA HeldAre ==
  ASSUME NEW lst \in Seq(PositionType), Unlike(lst), NEW seen \in Seq(PositionType), Unlike(seen),
         NEW M, M = StillSeen(lst, seen), NEW P, P = NotSeen(lst, seen)
  PROVE  /\ IsFiniteSet(M) /\ IsFiniteSet(P) /\ Cardinality(M) \in Nat /\ Cardinality(P) \in Nat
         /\ Cardinality(M) + Cardinality(P) = Len(lst)
<1>1. /\ M = {k \in 1..Len(seen) : seen[k].id \in IdsOf(lst)}
       /\ P = {i \in 1..Len(lst) : lst[i].id \notin IdsOf(seen)}
  BY DEF StillSeen, NotSeen
<1>2. PICK Q : Q = (1..Len(lst)) \ P
  OBVIOUS
<1> DEFINE f == [k \in M |-> CHOOSE i \in Q : lst[i].id = seen[k].id]
<1>3. Len(lst) \in Nat /\ Len(seen) \in Nat
  OBVIOUS
<1>4. IsFiniteSet(1..Len(lst)) /\ Cardinality(1..Len(lst)) = Len(lst) /\ IsFiniteSet(1..Len(seen))
  <2>1. \A n \in Nat : IsFiniteSet(1..n) /\ Cardinality(1..n) = n
    <3> TAKE n \in Nat
    <3> QED
      BY FS_Interval
  <2> QED
    BY ONLY <1>3, <2>1
<1>5. IsFiniteSet(M) /\ IsFiniteSet(P) /\ IsFiniteSet(Q)
  BY <1>4, <1>2, <1>1, FS_Subset
<1>6. Cardinality(M) \in Nat /\ Cardinality(P) \in Nat /\ Cardinality(Q) \in Nat
  BY <1>5, FS_CardinalityType
<1>7. \A k \in M : \E i \in Q : lst[i].id = seen[k].id
  <2> SUFFICES ASSUME NEW k \in M PROVE \E i \in Q : lst[i].id = seen[k].id
    OBVIOUS
  <2>1. k \in 1..Len(seen) /\ seen[k].id \in IdsOf(lst)
    BY <1>1
  <2>2. PICK i \in 1..Len(lst) : lst[i].id = seen[k].id /\ seen[k].id # NoPublicId
    BY <2>1 DEF IdsOf
  <2>3. lst[i].id \in IdsOf(seen)
    BY <2>1, <2>2 DEF IdsOf
  <2> QED
    BY <1>2, <1>1, <2>2, <2>3
<1>8. f \in [M -> Q] /\ \A k \in M : lst[f[k]].id = seen[k].id
  BY <1>7
<1> HIDE DEF f
<1>9. \A j, k \in M : f[j] = f[k] => j = k
  <2> SUFFICES ASSUME NEW j \in M, NEW k \in M, f[j] = f[k] PROVE j = k
    OBVIOUS
  <2>1. seen[j].id = seen[k].id /\ j \in DOMAIN seen /\ k \in DOMAIN seen
    BY <1>8, <1>1
  <2>2. seen[j].id # NoPublicId
    BY <1>1 DEF IdsOf
  <2> QED
    BY <2>1, <2>2 DEF Unlike
<1>10. \A i \in Q : \E k \in M : f[k] = i
  <2> SUFFICES ASSUME NEW i \in Q PROVE \E k \in M : f[k] = i
    OBVIOUS
  <2>1. i \in 1..Len(lst) /\ lst[i].id \in IdsOf(seen)
    BY <1>2, <1>1
  <2>2. PICK k \in 1..Len(seen) : seen[k].id = lst[i].id /\ lst[i].id # NoPublicId
    BY ONLY <2>1 DEF IdsOf
  <2>3. k \in M
    BY <1>1, <2>1, <2>2 DEF IdsOf
  <2>4. lst[f[k]].id = lst[i].id /\ f[k] \in 1..Len(lst)
    BY <1>8, <1>2, <2>2, <2>3
  <2>5. f[k] = i
    BY <2>1, <2>2, <2>4 DEF Unlike
  <2> QED
    BY <2>3, <2>5
<1>11. Cardinality(Q) = Cardinality(M)
  BY ONLY <1>5, <1>8, <1>9, <1>10, OneToOne
<1>12. (1..Len(lst)) \cap P = P
  BY <1>1
<1>13. Cardinality(Q) = Len(lst) - Cardinality(P)
  <2>1. Cardinality((1..Len(lst)) \ P) = Cardinality(1..Len(lst)) - Cardinality((1..Len(lst)) \cap P)
    BY ONLY <1>4, FS_Difference
  <2> QED
    BY ONLY <1>4, <1>12, <1>2, <2>1
<1>14. Cardinality(M) + Cardinality(P) = Len(lst)
  BY ONLY <1>6, <1>11, <1>13, <1>3
<1> QED
  BY <1>5, <1>6, <1>14

\* Staff out of sight is shown once, whether under a box or where it was last, or given up.
LEMMA StaffIsHeld ==
  ASSUME CountGrace \in Nat, NEW e, NEW ps \in Seq(PositionType), Unlike(ps),
         \A k \in DOMAIN ps : ps[k].id \in OfScene(e),
         NEW pr \in Presences, Team(pr, e), NEW seen, Alike(ps, seen), Unlike(seen),
         StaffIn(seen) = {}, NEW res, res = Hold(pr, seen)
  PROVE  /\ res.presence \in Presences /\ Team(res.presence, e) /\ Shows(res.positions, ps, e)
         /\ res.staff = Cardinality(StaffIn(res.positions)) /\ res.staff \in {0, Len(pr.last)}
         /\ Len(res.presence.last) <= Len(pr.last)
<1>1. PICK n \in Nat : n = Len(ps) /\ DOMAIN ps = 1..n /\ n = Len(seen) /\ DOMAIN seen = 1..n /\ seen \in [1..n -> PositionType]
  BY DEF Alike
<1>2. PICK lst \in Seq(PositionType) : lst = pr.last
  BY DEF Presences
<1>3. \A k \in 1..n : /\ seen[k].id = ps[k].id /\ seen[k].track = ps[k].track /\ seen[k].x = ps[k].x
                      /\ seen[k].type = ps[k].type /\ seen[k].state = ps[k].state /\ seen[k].id \in OfScene(e)
  BY <1>1 DEF Alike
<1>4. \A k \in 1..n : seen[k].type # "staff"
  BY <1>1 DEF StaffIn, IsStaff
<1>5. Unlike(lst) /\ \A k \in 1..Len(lst) : lst[k] \in PositionType /\ Working(lst[k]) /\ lst[k].id \in OfScene(e)
  BY <1>2 DEF Team
<1>6. pr.count \in Nat /\ pr.missing \in Nat
  BY DEF Presences
<1> DEFINE held == (pr.count > 0 /\ pr.missing + 1 <= CountGrace) /\ lst # <<>>
<1>7. CASE ~ held
  <2>1. res = Result([pr EXCEPT !.missing = CountGrace + 1, !.last = <<>>], seen, 0)
    BY ONLY <1>2, <1>7, res = Hold(pr, seen) DEF Hold
  <2>2. PICK p : p = [pr EXCEPT !.missing = CountGrace + 1, !.last = <<>>]
    OBVIOUS
  <2>3. res.presence = p /\ res.positions = seen /\ res.staff = 0
    BY ONLY <2>1, <2>2 DEF Result
  <2>4. p \in Presences /\ p.last = <<>>
    <3>1. <<>> \in Seq(PositionType) /\ CountGrace + 1 \in Nat
      OBVIOUS
    <3>2. p = [last |-> <<>>, count |-> pr.count, missing |-> CountGrace + 1]
      BY ONLY <2>2, pr \in Presences DEF Presences
    <3> QED
      BY ONLY <1>6, <3>1, <3>2 DEF Presences
  <2>5. Team(p, e)
    BY <2>4 DEF Team, Unlike
  <2>6. Shows(seen, ps, e)
    BY <1>1, <1>3 DEF Shows, Alike
  <2>7. Cardinality(StaffIn(seen)) = 0
    BY FS_EmptySet
  <2>8. Len(p.last) <= Len(lst)
    BY <2>4
  <2> QED
    BY <1>2, <2>3, <2>4, <2>5, <2>6, <2>7, <2>8
<1>8. CASE held
  <2> DEFINE ids == IdsOf(lst)
             raise(k) == IF seen[k].id \in ids
                         THEN [seen[k] EXCEPT !.type = "staff", !.state = "working", !.occluded = TRUE]
                         ELSE seen[k]
  <2>1. PICK P : P = {i \in 1..Len(lst) : lst[i].id \notin IdsOf(seen)}
    OBVIOUS
  <2>2. PICK M : M = {k \in 1..n : seen[k].id \in ids}
    OBVIOUS
  <2>3. /\ IsFiniteSet(M) /\ IsFiniteSet(P) /\ Cardinality(M) \in Nat /\ Cardinality(P) \in Nat
        /\ Cardinality(M) + Cardinality(P) = Len(lst)
    <3>1. seen \in Seq(PositionType) /\ n = Len(seen)
      BY <1>1
    <3>2. M = StillSeen(lst, seen) /\ P = NotSeen(lst, seen)
      BY ONLY <2>1, <2>2, <3>1 DEF StillSeen, NotSeen
    <3>3. lst \in Seq(PositionType) /\ Unlike(lst) /\ Unlike(seen)
      BY <1>5
    <3> HIDE DEF ids
    <3> QED
      BY ONLY <3>1, <3>2, <3>3, HeldAre
  <2>4. PICK g \in Nat : g = Cardinality(P)
    BY <2>3
  <2>5. PICK s : PicksBy(s, lst, P)
    <3>1. P \subseteq Int
      BY <2>1
    <3> QED
      BY ONLY <2>3, <3>1, PickedIs
  <2>6. /\ \A i \in 1..g : s[i] \in 1..Len(lst) /\ lst[s[i]].id \notin IdsOf(seen)
        /\ \A i, j \in 1..g : s[i] = s[j] => i = j
        /\ Picked(lst, P) = [k \in 1..g |-> lst[s[k]]]
    BY <2>1, <2>4, <2>5 DEF PicksBy
  <2>7. PICK kept : kept = [k \in 1..n |-> raise(k)]
    OBVIOUS
  <2>8. PICK gone : gone = [i \in 1..g |-> Hidden(lst[s[i]])]
    OBVIOUS
  <2>9. \A k \in 1..n : /\ kept[k] \in PositionType /\ kept[k].id = seen[k].id
                        /\ kept[k].track = seen[k].track /\ kept[k].x = seen[k].x
                        /\ k \in M => Working(kept[k])
                        /\ k \notin M => kept[k] = seen[k]
    <3> TAKE k \in 1..n
    <3>1. kept[k] = raise(k) /\ seen[k] \in PositionType
      BY <1>1, <2>7
    <3>2. CASE k \in M
      <4>1. kept[k] = [seen[k] EXCEPT !.type = "staff", !.state = "working", !.occluded = TRUE]
        BY <2>2, <3>1, <3>2
      <4> QED
        BY ONLY <3>1, <3>2, <4>1 DEF PositionType, Working
    <3>3. CASE k \notin M
      BY <2>2, <3>1, <3>3
    <3> QED
      BY <3>2, <3>3
  <2>10. \A i \in 1..g : /\ gone[i] \in PositionType /\ Working(gone[i]) /\ gone[i].id = lst[s[i]].id
    <3> TAKE i \in 1..g
    <3>1. PICK q \in PositionType : q = lst[s[i]] /\ Working(q)
      BY <1>5, <2>6
    <3>2. gone[i] = [q EXCEPT !.occluded = TRUE]
      BY <2>8, <3>1 DEF Hidden
    <3> QED
      BY ONLY <3>1, <3>2 DEF PositionType, Working
  <2>11. PICK qs : qs = kept \o gone
    OBVIOUS
  <2>12. kept \in Seq(PositionType) /\ gone \in Seq(PositionType) /\ Len(kept) = n /\ Len(gone) = g
    <3>1. kept \in [1..n -> PositionType] /\ gone \in [1..g -> PositionType]
      BY <2>7, <2>8, <2>9, <2>10
    <3> QED
      BY ONLY <3>1, n \in Nat, g \in Nat
  <2>13. /\ qs \in Seq(PositionType) /\ Len(qs) = n + g /\ DOMAIN qs = 1..(n + g)
         /\ \A k \in 1..n : qs[k] = kept[k]
         /\ \A k \in 1..(n + g) : k > n => k - n \in 1..g /\ qs[k] = gone[k - n]
    <3>1. /\ qs \in Seq(PositionType) /\ Len(qs) = n + g
          /\ \A k \in 1..(n + g) : qs[k] = IF k <= n THEN kept[k] ELSE gone[k - n]
      BY <2>11, <2>12, ConcatProperties
    <3> QED
      BY ONLY <3>1, n \in Nat, g \in Nat
  <2> DEFINE p == [pr EXCEPT !.missing = @ + 1]
  <2>14. res = Result(p, qs, pr.count)
    <3>1. IdsOf(pr.last) = ids /\ DOMAIN seen = 1..n /\ DOMAIN pr.last = 1..Len(lst)
      BY <1>1, <1>2
    <3>2. res = Result(p, [i \in DOMAIN seen |->
                    IF seen[i].id \in IdsOf(pr.last)
                    THEN [seen[i] EXCEPT !.type = "staff", !.state = "working", !.occluded = TRUE]
                    ELSE seen[i]]
                    \o [i \in DOMAIN Picked(pr.last, {j \in DOMAIN pr.last : pr.last[j].id \notin IdsOf(seen)})
                        |-> Hidden(Picked(pr.last, {j \in DOMAIN pr.last : pr.last[j].id \notin IdsOf(seen)})[i])],
                    pr.count)
      BY ONLY <1>2, <1>8, res = Hold(pr, seen) DEF Hold
    <3>3. Picked(pr.last, {j \in DOMAIN pr.last : pr.last[j].id \notin IdsOf(seen)}) = Picked(lst, P)
      BY <1>2, <2>1, <3>1
    <3>4. [i \in DOMAIN Picked(lst, P) |-> Hidden(Picked(lst, P)[i])] = gone
      BY <2>6, <2>8
    <3>5. kept = [i \in DOMAIN seen |->
                    IF seen[i].id \in IdsOf(pr.last)
                    THEN [seen[i] EXCEPT !.type = "staff", !.state = "working", !.occluded = TRUE]
                    ELSE seen[i]]
      BY ONLY <2>7, <3>1
    <3> QED
      BY ONLY <2>11, <3>2, <3>3, <3>4, <3>5
  <2>15. res.presence = p /\ res.positions = qs /\ res.staff = pr.count
    BY ONLY <2>14 DEF Result
  <2>16. p \in Presences /\ p.last = lst /\ p.count = pr.count
    <3>1. /\ pr \in [last : Seq(PositionType), count : Nat, missing : Nat]
          /\ p = [pr EXCEPT !.missing = pr.missing + 1] /\ pr.missing + 1 \in Nat
      BY ONLY <1>6, pr \in Presences DEF Presences
    <3> QED
      BY ONLY <1>2, <3>1 DEF Presences
  <2>17. Team(p, e) /\ pr.count = Len(lst)
    BY <1>2, <1>5, <1>8, <2>16 DEF Team
  <2>18. Unlike(qs)
    <3>1. \A k \in 1..n : qs[k].id = seen[k].id
      BY <2>9, <2>13
    <3>2. \A k \in 1..(n + g) : k > n => qs[k].id = lst[s[k - n]].id /\ k - n \in 1..g
      BY <2>10, <2>13
    <3> SUFFICES ASSUME NEW j \in 1..(n + g), NEW k \in 1..(n + g), j # k, qs[j].id # NoPublicId
                 PROVE  qs[j].id # qs[k].id
      BY <2>13 DEF Unlike
    <3>3. CASE j <= n /\ k <= n
      <4>1. j \in DOMAIN seen /\ k \in DOMAIN seen /\ j \in 1..n /\ k \in 1..n
        BY <1>1, <3>3
      <4> QED
        BY <3>1, <4>1 DEF Unlike
    <3>4. CASE j > n /\ k > n
      <4>1. /\ j - n \in 1..g /\ k - n \in 1..g /\ j - n # k - n
            /\ qs[j].id = lst[s[j - n]].id /\ qs[k].id = lst[s[k - n]].id
        BY <3>2, <3>4
      <4>2. s[j - n] # s[k - n] /\ s[j - n] \in DOMAIN lst /\ s[k - n] \in DOMAIN lst
        <5>1. PICK a, b : a = j - n /\ b = k - n
          OBVIOUS
        <5>2. a \in 1..g /\ b \in 1..g /\ a # b
          BY ONLY <4>1, <5>1
        <5>3. s[a] # s[b] /\ s[a] \in DOMAIN lst /\ s[b] \in DOMAIN lst
          BY ONLY <2>6, <5>2
        <5> QED
          BY ONLY <5>1, <5>3
      <4> QED
        BY <1>5, <4>1, <4>2 DEF Unlike
    <3>5. \A x \in 1..n : seen[x].id # NoPublicId => seen[x].id \in IdsOf(seen)
      BY <1>1 DEF IdsOf
    <3>6. CASE j <= n /\ k > n
      <4>1. qs[k].id \notin IdsOf(seen)
        BY <2>6, <3>2, <3>6
      <4>2. qs[j].id \in IdsOf(seen)
        BY <3>1, <3>5, <3>6
      <4> QED
        BY <4>1, <4>2
    <3>7. CASE j > n /\ k <= n
      <4>1. qs[j].id \notin IdsOf(seen)
        BY <2>6, <3>2, <3>7
      <4>2. qs[k].id # NoPublicId => qs[k].id \in IdsOf(seen)
        BY <3>1, <3>5, <3>7
      <4> QED
        BY <4>1, <4>2
    <3> QED
      BY <3>3, <3>4, <3>6, <3>7
  <2>19. Shows(qs, ps, e)
    <3>1. \A k \in 1..(n + g) : qs[k].id \in OfScene(e)
      <4> TAKE k \in 1..(n + g)
      <4>1. CASE k <= n
        <5>1. k \in 1..n
          BY ONLY <4>1, k \in 1..(n + g), n \in Nat
        <5> QED
          BY ONLY <1>3, <2>9, <2>13, <5>1
      <4>2. CASE k > n
        <5>1. k - n \in 1..g /\ qs[k] = gone[k - n]
          BY <2>13, <4>2
        <5> QED
          BY <1>5, <2>6, <2>10, <5>1
      <4> QED
        BY <4>1, <4>2
    <3>2. \A k \in 1..(n + g) : k > n => Working(qs[k])
      BY <2>10, <2>13
    <3>3. \A k \in 1..n : /\ qs[k].track = ps[k].track /\ qs[k].x = ps[k].x
                          /\ Working(qs[k]) \/ (qs[k].type = ps[k].type /\ qs[k].state = ps[k].state)
      <4> TAKE k \in 1..n
      <4>1. qs[k] = kept[k]
        BY ONLY <2>13, k \in 1..n
      <4>2. qs[k].track = ps[k].track /\ qs[k].x = ps[k].x
        BY ONLY <1>3, <2>9, <4>1, k \in 1..n
      <4>3. Working(qs[k]) \/ (qs[k].type = ps[k].type /\ qs[k].state = ps[k].state)
        BY ONLY <1>3, <2>9, <4>1, k \in 1..n
      <4> QED
        BY ONLY <4>2, <4>3
    <3>4. Len(ps) = n /\ n <= n + g
      BY <1>1
    <3> QED
      BY ONLY <2>13, <2>18, <3>1, <3>2, <3>3, <3>4 DEF Shows
  <2>20. Cardinality(StaffIn(qs)) = Len(lst)
    <3>1. PICK H : H = (n + 1)..(n + g)
      OBVIOUS
    <3>2. StaffIn(qs) = M \cup H
      <4>1. StaffIn(qs) = {k \in 1..(n + g) : qs[k].type = "staff"}
        BY <2>13 DEF StaffIn, IsStaff
      <4>2. \A k \in 1..n : qs[k].type = "staff" <=> k \in M
        BY <1>4, <2>9, <2>13 DEF Working
      <4>3. \A k \in 1..(n + g) : k > n => qs[k].type = "staff"
        <5>1. \A k \in 1..(n + g) : k > n => Working(qs[k])
          BY ONLY <2>10, <2>13
        <5> QED
          BY ONLY <5>1 DEF Working
      <4>4. M \subseteq 1..n
        BY <2>2
      <4>5. \A k \in 1..(n + g) : k \in 1..n \/ k > n
        OBVIOUS
      <4>6. \A k : k \in 1..n => k \in 1..(n + g)
        OBVIOUS
      <4>7. \A k : k \in H <=> k \in 1..(n + g) /\ k > n
        BY <3>1
      <4>8. \A k \in 1..n : ~ (k > n)
        OBVIOUS
      <4> QED
        BY ONLY <4>1, <4>2, <4>3, <4>4, <4>5, <4>6, <4>7, <4>8
    <3>3. IsFiniteSet(H) /\ Cardinality(H) = g
      BY <3>1, FS_Interval
    <3>4. M \cap H = {}
      BY <2>2, <3>1
    <3>5. Cardinality(M \cup H) = Cardinality(M) + Cardinality(H) - Cardinality(M \cap H)
      BY <2>3, <3>3, FS_Union
    <3>6. Cardinality(M \cap H) = 0
      BY <3>4, FS_EmptySet
    <3> QED
      BY <2>3, <2>4, <3>2, <3>3, <3>5, <3>6
  <2> HIDE DEF p
  <2> QED
    BY <1>2, <2>15, <2>16, <2>17, <2>19, <2>20
<1> QED
  BY <1>7, <1>8

\* After an update the number of staff is that of the positions, and the team kept is of this scene.
LEMMA PresenceIs ==
  ASSUME CountGrace \in Nat, NEW e, NEW ps \in Seq(PositionType), Unlike(ps),
         \A k \in DOMAIN ps : ps[k].id \in OfScene(e),
         \A k \in DOMAIN ps : IsStaff(ps[k]) => Working(ps[k]),
         NEW pr \in Presences, Team(pr, e), NEW res, res = PresenceUpdate(pr, ps)
  PROVE  /\ res.presence \in Presences /\ Team(res.presence, e) /\ Shows(res.positions, ps, e)
         /\ res.staff = Cardinality(StaffIn(res.positions))
         /\ \A m \in Nat : Len(pr.last) <= m /\ Cardinality(StaffIn(ps)) <= m
                             => Len(res.presence.last) <= m /\ Cardinality(StaffIn(res.positions)) <= m
<1>1. PICK seen : seen = [i \in DOMAIN ps |-> Shown(ps[i])]
  OBVIOUS
<1>2. Alike(ps, seen) /\ Unlike(seen) /\ StaffIn(seen) = StaffIn(ps)
  BY ONLY ps \in Seq(PositionType), Unlike(ps), <1>1, SeenIs
<1>3. /\ Cardinality(StaffIn(seen)) = Cardinality(StaffIn(ps)) /\ Cardinality(StaffIn(ps)) \in Nat
      /\ Cardinality(StaffIn(ps)) = 0 <=> StaffIn(ps) = {}
  BY <1>2, StaffCount
<1>4. PICK linked : linked = Relinked(pr.last, seen)
  OBVIOUS
<1>5. pr.last \in Seq(PositionType) /\ Len(pr.last) \in Nat
  BY DEF Presences
<1>6. CASE StaffIn(ps) # {}
  <2>1. PICK kept : kept = [last |-> Picked(linked, StaffIn(linked)),
                            count |-> Cardinality(StaffIn(ps)), missing |-> 0]
    OBVIOUS
  <2>2. /\ kept \in Presences /\ Team(kept, e) /\ Shows(linked, ps, e)
        /\ StaffIn(linked) = StaffIn(ps) /\ Len(kept.last) = Cardinality(StaffIn(ps))
    BY <1>2, <1>4, <1>6, <2>1, StaffIsSeen
  <2>3. Cardinality(StaffIn(seen)) > 0
    BY <1>3, <1>6
  <2>4. res = Result([last |-> Picked(linked, StaffIn(linked)),
                          count |-> Cardinality(StaffIn(seen)), missing |-> 0],
                         linked, Cardinality(StaffIn(seen)))
    BY ONLY <1>1, <1>4, <2>3, res = PresenceUpdate(pr, ps) DEF PresenceUpdate
  <2>5. res.presence = kept /\ res.positions = linked /\ res.staff = Cardinality(StaffIn(ps))
    BY ONLY <1>3, <2>1, <2>4 DEF Result
  <2> QED
    BY <2>2, <2>5
<1>7. CASE StaffIn(ps) = {}
  <2>1. ~ (Cardinality(StaffIn(seen)) > 0) /\ StaffIn(seen) = {}
    BY <1>2, <1>3, <1>7
  <2>2. CASE WalkedOff(pr, seen)
    <3>1. res = Result(NoPresence, seen, 0)
      BY ONLY <1>1, <2>1, <2>2, res = PresenceUpdate(pr, ps) DEF PresenceUpdate
    <3>2. res.presence = NoPresence /\ res.positions = seen /\ res.staff = 0
      BY ONLY <3>1 DEF Result
    <3>3. <<>> \in Seq(PositionType) /\ Len(<<>>) = 0 /\ DOMAIN <<>> = {}
      OBVIOUS
    <3>4. NoPresence \in Presences /\ NoPresence.last = <<>>
      BY <3>3 DEF NoPresence, Presences
    <3>5. Team(NoPresence, e)
      BY <3>3, <3>4 DEF Team, Unlike
    <3>6. Shows(seen, ps, e)
      <4>1. seen \in Seq(PositionType) /\ Len(seen) = Len(ps) /\ DOMAIN seen = 1..Len(ps) /\ DOMAIN ps = 1..Len(ps)
        BY <1>2 DEF Alike
      <4>2. \A k \in 1..Len(ps) : /\ seen[k].id = ps[k].id /\ seen[k].track = ps[k].track /\ seen[k].x = ps[k].x
                                  /\ seen[k].type = ps[k].type /\ seen[k].state = ps[k].state
        BY <1>2 DEF Alike
      <4>3. Len(ps) \in Nat /\ Len(ps) <= Len(seen) /\ \A k \in 1..Len(seen) : ~ (k > Len(ps))
        BY <4>1
      <4> QED
        BY <1>2, <4>1, <4>2, <4>3 DEF Shows
    <3>7. Cardinality(StaffIn(seen)) = 0
      BY <2>1, FS_EmptySet
    <3> QED
      BY <3>2, <3>3, <3>4, <3>5, <3>6, <3>7
  <2>3. CASE ~ WalkedOff(pr, seen)
    <3>1. res = Hold(pr, seen)
      BY ONLY <1>1, <2>1, <2>3, res = PresenceUpdate(pr, ps) DEF PresenceUpdate
    <3>2. /\ res.presence \in Presences /\ Team(res.presence, e) /\ Shows(res.positions, ps, e)
          /\ res.staff = Cardinality(StaffIn(res.positions)) /\ res.staff \in {0, Len(pr.last)}
          /\ Len(res.presence.last) <= Len(pr.last)
      BY <1>2, <2>1, <3>1, StaffIsHeld
    <3>3. Len(res.presence.last) \in Nat
      BY <3>2 DEF Presences
    <3> QED
      BY <1>5, <3>2, <3>3
  <2> QED
    BY <2>2, <2>3
<1> QED
  BY <1>6, <1>7

-----------------------------------------------------------------------------
(* Roles *)

Boxed == [id : RawIds \cup {NoId}, place : Places, pose : Poses]
Single(dets) == \A j, k \in DOMAIN dets : j # k /\ dets[j].id # NoId => dets[j].id # dets[k].id
Roles == [history : [RawIds -> Seq(BOOLEAN)], locked : SUBSET RawIds, missing : [RawIds -> Nat]]
PolicyType == [max : Nat, overlap : Nat, lockedOverlap : Nat, grace : Nat, useBox : BOOLEAN]

\* The last votes of every track.
LEMMA VotedIs ==
  ASSUME NEW votes \in [RawIds -> Seq(BOOLEAN)], NEW dets \in Seq(Boxed), NEW pol \in PolicyType
  PROVE  Voted(votes, dets, pol) \in [RawIds -> Seq(BOOLEAN)]
<1>1. \A k \in DOMAIN dets : Candidate(dets[k], pol) \in BOOLEAN
  BY DEF Candidate, Boxed, Places, PolicyType
<1>2. \A s \in Seq(BOOLEAN) : LastOf(s) = s \/ (Len(s) > Window /\ LastOf(s) = Tail(s))
  BY DEF LastOf
<1>3. \A s \in Seq(BOOLEAN), b \in BOOLEAN : LastOf(Append(s, b)) \in Seq(BOOLEAN)
  <2> TAKE s \in Seq(BOOLEAN), b \in BOOLEAN
  <2>1. PICK q : q = Append(s, b)
    OBVIOUS
  <2>2. q \in Seq(BOOLEAN) /\ q # <<>>
    BY <2>1, AppendProperties
  <2>3. Tail(q) \in Seq(BOOLEAN)
    BY <2>2, HeadTailProperties
  <2>4. LastOf(q) \in Seq(BOOLEAN)
    BY <1>2, <2>2, <2>3
  <2> QED
    BY <2>1, <2>4
<1> DEFINE seen(i) == {k \in DOMAIN dets : dets[k].id = i}
           new(i) == LastOf(Append(votes[i], Candidate(dets[CHOOSE k \in seen(i) : TRUE], pol)))
<1>4. Voted(votes, dets, pol) = [i \in RawIds |-> IF seen(i) = {} THEN votes[i] ELSE new(i)]
  BY ONLY DEF Voted
<1>5. ASSUME NEW i \in RawIds, seen(i) # {} PROVE new(i) \in Seq(BOOLEAN)
  <2>1. PICK k : k = CHOOSE j \in seen(i) : TRUE
    OBVIOUS
  <2>2. k \in DOMAIN dets
    BY <1>5, <2>1
  <2> QED
    BY <1>1, <1>3, <2>1, <2>2
<1> HIDE DEF seen, new
<1> QED
  BY <1>4, <1>5

LEMMA VotesAre ==
  ASSUME NEW votes \in [RawIds -> Seq(BOOLEAN)], NEW i \in RawIds
  PROVE  Votes(votes, i) \in Nat
<1>1. PICK S : S = {k \in DOMAIN votes[i] : votes[i][k]}
  OBVIOUS
<1>2. S \subseteq 1..Len(votes[i]) /\ Len(votes[i]) \in Nat
  BY <1>1
<1>3. IsFiniteSet(S)
  <2>1. PICK n \in Nat : n = Len(votes[i]) /\ S \in SUBSET (1..n)
    BY <1>2
  <2>2. IsFiniteSet(1..n)
    BY FS_Interval
  <2> QED
    BY <2>1, <2>2, FS_Subset
<1>4. Cardinality(S) \in Nat
  BY <1>3, FS_CardinalityType
<1>5. Votes(votes, i) = Cardinality(S)
  BY ONLY <1>1 DEF Votes
<1> QED
  BY <1>4, <1>5

\* Rankings by several numbers, the first that differ deciding.
Outranks(x, y) ==
  \/ x[1] > y[1]
  \/ x[1] = y[1] /\ x[2] > y[2]
  \/ x[1] = y[1] /\ x[2] = y[2] /\ x[3] > y[3]
  \/ x[1] = y[1] /\ x[2] = y[2] /\ x[3] = y[3] /\ x[4] > y[4]

\* A ranking whose last number differs for any two is a strict total order.
LEMMA OutranksOrders ==
  ASSUME NEW S, NEW rank, \A a \in S : rank[a] \in Int \X Int \X Int \X Int,
         \A a, b \in S : a # b => rank[a][4] # rank[b][4],
         NEW R, \A a, b \in S : <<a, b>> \in R <=> Outranks(rank[a], rank[b])
  PROVE  Ordered(R, S)
<1>1. \A a \in S : rank[a][1] \in Int /\ rank[a][2] \in Int /\ rank[a][3] \in Int /\ rank[a][4] \in Int
  OBVIOUS
<1>2. \A a \in S : <<a, a>> \notin R
  BY <1>1 DEF Outranks
<1>3. \A a, b \in S : a # b => <<a, b>> \in R \/ <<b, a>> \in R
  <2> SUFFICES ASSUME NEW a \in S, NEW b \in S, a # b PROVE Outranks(rank[a], rank[b]) \/ Outranks(rank[b], rank[a])
    OBVIOUS
  <2>1. rank[a][4] # rank[b][4]
    OBVIOUS
  <2> QED
    BY ONLY a \in S, b \in S, <1>1, <2>1 DEF Outranks
<1>4. \A a, b, c \in S : <<a, b>> \in R /\ <<b, c>> \in R => <<a, c>> \in R
  <2> SUFFICES ASSUME NEW a \in S, NEW b \in S, NEW c \in S, Outranks(rank[a], rank[b]), Outranks(rank[b], rank[c])
               PROVE  Outranks(rank[a], rank[c])
    OBVIOUS
  <2> QED
    BY ONLY a \in S, b \in S, c \in S, <1>1, Outranks(rank[a], rank[b]), Outranks(rank[b], rank[c]) DEF Outranks
<1> QED
  BY <1>2, <1>3, <1>4 DEF Ordered

\* ... as that of the candidates for a lock is, by their place in the list.
LEMMA BeforeOrders ==
  ASSUME NEW votes \in [RawIds -> Seq(BOOLEAN)], NEW dets \in Seq(Boxed),
         NEW S, S \subseteq DOMAIN dets, \A k \in S : dets[k].id \in RawIds,
         NEW R, R = {p \in S \X S : Before(p[1], p[2], dets, votes)}
  PROVE  Ordered(R, S)
<1> DEFINE rank == [k \in S |-> << IF dets[k].place.foot THEN 1 ELSE 0, Votes(votes, dets[k].id),
                                   dets[k].place.overlap, 0 - k >>]
<1>1. \A k \in S : rank[k] \in Int \X Int \X Int \X Int /\ rank[k][4] = 0 - k /\ k \in Nat
  <2> TAKE k \in S
  <2>1. k \in Nat /\ dets[k] \in Boxed /\ Votes(votes, dets[k].id) \in Nat
    BY VotesAre
  <2>2. dets[k].place.overlap \in Nat
    BY <2>1 DEF Boxed, Places
  <2> QED
    BY <2>1, <2>2
<1>2. \A a, b \in S : Before(a, b, dets, votes) <=> Outranks(rank[a], rank[b])
  <2> TAKE a, b \in S
  <2>1. Before(a, b, dets, votes) <=>
          \E n \in 1..4 : rank[a][n] > rank[b][n] /\ \A m \in 1..n-1 : rank[a][m] = rank[b][m]
    BY ONLY a \in S, b \in S DEF Before
  <2> HIDE DEF rank
  <2>2. 1..4 = {1, 2, 3, 4} /\ 1..(1-1) = {} /\ 1..(2-1) = {1} /\ 1..(3-1) = {1, 2} /\ 1..(4-1) = {1, 2, 3}
    OBVIOUS
  <2> QED
    BY ONLY <2>1, <2>2 DEF Outranks
<1>3. \A a, b \in S : <<a, b>> \in R <=> Outranks(rank[a], rank[b])
  BY <1>2
<1> HIDE DEF rank
<1>4. \A a, b \in S : a # b => rank[a][4] # rank[b][4]
  BY <1>1
<1> QED
  BY ONLY <1>1, <1>3, <1>4, OutranksOrders

\* Who is staff by an update of the locks; never more than there are.
LEMMA StaffUpdateIs ==
  ASSUME RawIds \subseteq Nat \ {0}, IsFiniteSet(RawIds),
         NEW dets \in Seq(Boxed), Single(dets), NEW pol \in PolicyType,
         NEW roles \in Roles, NEW r, r = StaffUpdate(roles, dets, pol)
  PROVE  /\ r.roles \in Roles /\ r.staff \in SUBSET DOMAIN dets
         /\ pol.max > 0 => /\ Cardinality(roles.locked) <= pol.max =>
                                 /\ Cardinality(r.roles.locked) <= pol.max
                                 /\ Cardinality(r.staff) <= pol.max
                           /\ (/\ Cardinality(roles.locked) = pol.max
                               /\ \A i \in roles.locked : roles.missing[i] < pol.grace)
                                 => \A k \in r.staff : dets[k].id \in roles.locked
<1>1. PICK votes : votes = Voted(roles.history, dets, pol)
  OBVIOUS
<1>2. PICK flagged : flagged = ByVotes(votes, dets, pol)
  OBVIOUS
<1>3. PICK kept : kept = Kept(roles.locked, dets, pol)
  OBVIOUS
<1>4. PICK keptIds : keptIds = {dets[k].id : k \in kept}
  OBVIOUS
<1>5. PICK missing : missing = [i \in RawIds |-> IF i \in roles.locked \ keptIds THEN roles.missing[i] + 1 ELSE 0]
  OBVIOUS
<1>6. PICK stay : stay = {i \in roles.locked : missing[i] <= pol.grace}
  OBVIOUS
<1>7. PICK open : open = {k \in flagged \cap Tracked(dets) : dets[k].id \notin stay}
  OBVIOUS
<1>8. PICK new : new = {k \in open : Cardinality({j \in open : Before(j, k, dets, votes)})
                                       < pol.max - Cardinality(stay)}
  OBVIOUS
<1> DEFINE locked == stay \cup {dets[k].id : k \in new}
           rest == [history |-> votes, locked |-> locked,
                    missing |-> [i \in RawIds |-> IF i \in stay THEN missing[i] ELSE 0]]
<1>9. r = IF pol.max = 0 THEN [roles |-> [roles EXCEPT !.history = votes], staff |-> flagged]
          ELSE [roles |-> rest, staff |-> kept \cup new]
  <2>1. CASE pol.max = 0
    BY ONLY <2>1, <1>1, <1>2, r = StaffUpdate(roles, dets, pol) DEF StaffUpdate
  <2>2. CASE pol.max # 0
    <3> DEFINE V == Voted(roles.history, dets, pol)
               F == ByVotes(V, dets, pol)
               K == Kept(roles.locked, dets, pol)
               KI == {dets[k].id : k \in K}
               M == [i \in RawIds |-> IF i \in roles.locked \ KI THEN roles.missing[i] + 1 ELSE 0]
               ST == {i \in roles.locked : M[i] <= pol.grace}
               OP == {k \in F \cap Tracked(dets) : dets[k].id \notin ST}
               NW == {k \in OP : Cardinality({j \in OP : Before(j, k, dets, V)})
                                   < pol.max - Cardinality(ST)}
    <3>1. r = [roles |-> [history |-> V,
                          locked  |-> ST \cup {dets[k].id : k \in NW},
                          missing |-> [i \in RawIds |-> IF i \in ST THEN M[i] ELSE 0]],
               staff |-> K \cup NW]
      BY ONLY <2>2, r = StaffUpdate(roles, dets, pol) DEF StaffUpdate
    <3> HIDE DEF NW
    <3>2. V = votes
      BY ONLY <1>1
    <3>3. NW = {k \in OP : Cardinality({j \in OP : Before(j, k, dets, V)})
                               < pol.max - Cardinality(ST)}
      BY ONLY DEF NW
    <3> HIDE DEF V, OP
    <3>4. F = flagged
      BY ONLY <1>2, <3>2
    <3>5. OP = {k \in F \cap Tracked(dets) : dets[k].id \notin ST}
      BY ONLY DEF OP
    <3> HIDE DEF F, ST
    <3>6. ST = {i \in roles.locked : M[i] <= pol.grace}
      BY ONLY DEF ST
    <3> HIDE DEF M
    <3>7. M = [i \in RawIds |-> IF i \in roles.locked \ KI THEN roles.missing[i] + 1 ELSE 0]
      BY ONLY DEF M
    <3> HIDE DEF KI
    <3>8. K = kept
      BY ONLY <1>3
    <3>9. KI = {dets[k].id : k \in K}
      BY ONLY DEF KI
    <3> HIDE DEF K
    <3>10. KI = keptIds
      BY ONLY <1>4, <3>8, <3>9
    <3>11. M = missing
      BY ONLY <1>5, <3>7, <3>10
    <3>12. ST = stay
      BY ONLY <1>6, <3>6, <3>11
    <3>13. OP = open
      BY ONLY <1>7, <3>4, <3>5, <3>12
    <3>14. NW = new
      BY ONLY <1>8, <3>2, <3>3, <3>12, <3>13
    <3> QED
      BY ONLY <2>2, <3>1, <3>2, <3>8, <3>11, <3>12, <3>14
  <2> QED
    BY ONLY <2>1, <2>2
<1>10. PICK n \in Nat : n = Len(dets) /\ DOMAIN dets = 1..n /\ IsFiniteSet(1..n)
  <2>1. PICK n \in Nat : n = Len(dets) /\ DOMAIN dets = 1..n
    OBVIOUS
  <2> QED
    BY <2>1, FS_Interval
<1>11. /\ roles.history \in [RawIds -> Seq(BOOLEAN)] /\ roles.locked \in SUBSET RawIds
       /\ roles.missing \in [RawIds -> Nat]
  BY DEF Roles
<1>12. votes \in [RawIds -> Seq(BOOLEAN)]
  BY <1>1, <1>11, VotedIs
<1>13. \A k \in 1..n : dets[k].id \in RawIds \cup {0}
  <2> TAKE k \in 1..n
  <2>1. dets[k] \in Boxed
    BY <1>10
  <2> QED
    BY <2>1 DEF Boxed, NoId
<1>14. \A k \in open : k \in 1..n /\ dets[k].id \in RawIds /\ dets[k].id \notin stay
  BY <1>7, <1>10, <1>13 DEF Tracked, NoId
<1>15. \A k \in kept : k \in 1..n /\ dets[k].id \in roles.locked /\ dets[k].id \in RawIds /\ dets[k].id # 0
  BY <1>3, <1>10, <1>11 DEF Kept
<1>16. new \subseteq open /\ flagged \subseteq 1..n /\ kept \subseteq 1..n
  BY <1>2, <1>8, <1>10, <1>15 DEF ByVotes
<1>17. stay \subseteq roles.locked /\ stay \subseteq RawIds
  BY <1>6, <1>11
<1>18. keptIds \subseteq stay
  <2>1. keptIds \subseteq roles.locked /\ keptIds \subseteq RawIds
    BY <1>4, <1>15
  <2>2. \A i \in keptIds : missing[i] = 0
    BY <1>5, <2>1
  <2>3. 0 <= pol.grace
    BY DEF PolicyType
  <2> QED
    BY <1>6, <2>1, <2>2, <2>3
<1>19. missing \in [RawIds -> Nat]
  BY <1>5, <1>11
<1>20. locked \in SUBSET RawIds
  BY <1>14, <1>16, <1>17
<1>21. r.roles \in Roles /\ r.staff \in SUBSET (1..n)
  <2>1. CASE pol.max = 0
    <3>1. r.roles = [roles EXCEPT !.history = votes] /\ r.staff = flagged
      BY ONLY <1>9, <2>1
    <3>2. [roles EXCEPT !.history = votes] \in Roles
      BY <1>12 DEF Roles
    <3> QED
      BY <1>16, <3>1, <3>2
  <2>2. CASE pol.max # 0
    <3>1. r.roles = rest /\ r.staff = kept \cup new
      BY ONLY <1>9, <2>2
    <3>2. [i \in RawIds |-> IF i \in stay THEN missing[i] ELSE 0] \in [RawIds -> Nat]
      BY <1>19
    <3>3. rest \in Roles
      BY ONLY <1>12, <1>20, <3>2 DEF Roles
    <3>4. kept \cup new \subseteq 1..n
      BY <1>14, <1>16
    <3> QED
      BY ONLY <3>1, <3>3, <3>4
  <2> QED
    BY <2>1, <2>2
<1>22. PICK R : R = {p \in open \X open : Before(p[1], p[2], dets, votes)}
  OBVIOUS
<1>23. Ordered(R, open)
  <2>1. open \subseteq DOMAIN dets /\ \A k \in open : dets[k].id \in RawIds
    BY <1>10, <1>14
  <2> QED
    BY <1>12, <1>22, <2>1, BeforeOrders
<1>24. IsFiniteSet(open) /\ IsFiniteSet(kept) /\ IsFiniteSet(stay)
  <2>1. open \in SUBSET (1..n) /\ kept \in SUBSET (1..n) /\ stay \in SUBSET RawIds
    BY <1>14, <1>16, <1>17
  <2> QED
    BY <1>10, <2>1, FS_Subset
<1>25. Cardinality(stay) \in Nat /\ pol.max \in Nat /\ pol.grace \in Nat
  BY <1>24, FS_CardinalityType DEF PolicyType
<1>26. PICK m \in Int : m = pol.max - Cardinality(stay)
  BY <1>25
<1>27. new = FirstOf(R, open, m)
  <2>1. \A k \in open : Cardinality({j \in open : Before(j, k, dets, votes)}) = Cardinality(Under(R, open, k))
    <3> TAKE k \in open
    <3>1. {j \in open : Before(j, k, dets, votes)} = Under(R, open, k)
      BY <1>22 DEF Under
    <3> QED
      BY <3>1
  <2>2. new = {k \in open : Cardinality(Under(R, open, k)) < m}
    BY ONLY <1>8, <1>26, <2>1
  <2> QED
    BY ONLY <2>2 DEF FirstOf
<1>28. IsFiniteSet(new) /\ Cardinality(new) \in Nat /\ (m >= 0 => Cardinality(new) <= m) /\ (m <= 0 => new = {})
  BY ONLY <1>23, <1>24, <1>26, <1>27, FirstOnes
<1>29. ASSUME pol.max > 0, Cardinality(roles.locked) <= pol.max
       PROVE  Cardinality(r.roles.locked) <= pol.max /\ Cardinality(r.staff) <= pol.max
  <2>1. r.roles.locked = locked /\ r.staff = kept \cup new
    BY ONLY <1>9, <1>29
  <2>2. Cardinality(stay) <= pol.max
    <3>1. IsFiniteSet(roles.locked)
      BY <1>11, FS_Subset
    <3>2. Cardinality(roles.locked) \in Nat /\ Cardinality(stay) <= Cardinality(roles.locked)
      BY <1>17, <3>1, FS_Subset, FS_CardinalityType
    <3> QED
      BY <1>25, <1>29, <3>2
  <2>3. Cardinality(new) + Cardinality(stay) <= pol.max
    BY <1>25, <1>26, <1>28, <2>2
  <2>4. Cardinality(kept) \in Nat /\ Cardinality(kept) <= Cardinality(stay)
    <3> DEFINE f == [k \in kept |-> dets[k].id]
    <3>1. f \in [kept -> stay]
      BY <1>4, <1>18
    <3>2. \A j, k \in kept : f[j] = f[k] => j = k
      BY <1>10, <1>15 DEF Single, NoId
    <3>3. f \in Injection(kept, stay)
      BY <3>1, <3>2 DEF Injection, IsInjective
    <3> QED
      BY <1>24, <3>3, FS_Injection, FS_CardinalityType
  <2>5. Cardinality(kept \cup new) <= Cardinality(kept) + Cardinality(new)
    <3>1. Cardinality(kept \cup new) = Cardinality(kept) + Cardinality(new) - Cardinality(kept \cap new)
      BY <1>24, <1>28, FS_Union
    <3>2. Cardinality(kept \cap new) \in Nat
      BY <1>24, FS_Intersection, FS_CardinalityType
    <3> QED
      BY <1>28, <2>4, <3>1, <3>2
  <2>6. PICK newIds : newIds = {dets[k].id : k \in new}
    OBVIOUS
  <2>7. IsFiniteSet(newIds) /\ Cardinality(newIds) \in Nat /\ Cardinality(newIds) <= Cardinality(new)
    <3> DEFINE f == [k \in new |-> dets[k].id]
    <3>1. f \in [new -> newIds] /\ \A i \in newIds : \E k \in new : f[k] = i
      BY <2>6
    <3>2. f \in Surjection(new, newIds)
      BY <3>1 DEF Surjection
    <3> QED
      BY <1>28, <3>2, FS_Surjection, FS_CardinalityType
  <2>8. Cardinality(stay \cup newIds) <= Cardinality(stay) + Cardinality(newIds)
    <3>1. Cardinality(stay \cup newIds) = Cardinality(stay) + Cardinality(newIds) - Cardinality(stay \cap newIds)
      BY <1>24, <2>7, FS_Union
    <3>2. Cardinality(stay \cap newIds) \in Nat
      BY <1>24, FS_Intersection, FS_CardinalityType
    <3> QED
      BY <1>25, <2>7, <3>1, <3>2
  <2>9. Cardinality(stay \cup newIds) \in Nat /\ Cardinality(kept \cup new) \in Nat
    BY <1>24, <1>28, <2>7, FS_Union, FS_CardinalityType
  <2>10. Cardinality(stay \cup newIds) <= pol.max /\ Cardinality(kept \cup new) <= pol.max
    BY ONLY <1>25, <1>28, <2>3, <2>4, <2>5, <2>7, <2>8, <2>9
  <2> QED
    BY <2>1, <2>6, <2>10
<1>30. ASSUME pol.max > 0, Cardinality(roles.locked) = pol.max,
              \A i \in roles.locked : roles.missing[i] < pol.grace
       PROVE  \A k \in r.staff : dets[k].id \in roles.locked
  <2>1. r.staff = kept \cup new
    BY ONLY <1>9, <1>30
  <2>2. stay = roles.locked
    <3>1. \A i \in roles.locked : missing[i] <= pol.grace
      <4> TAKE i \in roles.locked
      <4>1. i \in RawIds /\ roles.missing[i] \in Nat /\ roles.missing[i] < pol.grace
        BY <1>11, <1>30
      <4>2. missing[i] \in {0, roles.missing[i] + 1}
        BY <1>5, <4>1
      <4> QED
        BY <1>25, <4>1, <4>2
    <3> QED
      BY <1>6, <3>1
  <2>3. new = {}
    BY <1>25, <1>26, <1>28, <1>30, <2>2
  <2> QED
    BY <1>15, <2>1, <2>3
<1> QED
  BY <1>10, <1>21, <1>29, <1>30

-----------------------------------------------------------------------------
(* What is seen in a picture *)

\* What is assumed of a camera and of the store's rules.
LEMMA ConstantsAre ==
  ASSUME TrackingConstants
  PROVE  /\ FramesEach \in Nat /\ FramesEach > 0 /\ Interval \in Nat /\ Interval > 0
         /\ RawIds \subseteq Nat \ {0} /\ IsFiniteSet(RawIds) /\ CountGrace \in Nat
         /\ Footages \subseteq Seq(Segments) /\ \A f \in Footages : \A k \in DOMAIN f : InFrameOrder(f[k])
         /\ Policies \subseteq PolicyType
         /\ Sightings \subseteq Places \X Poses
         /\ NDwell \in Nat /\ NearDistance \in Nat
BY DEF TrackingConstants, FootageConstants, RolesConstants, PolicyType

\* No two boxes of a picture have one number.
LEMMA BoxesAre ==
  ASSUME TrackingConstants, NEW pic \in Pictures
  PROVE  Boxes(pic) \in Seq(Boxed) /\ Single(Boxes(pic))
<1>1. PICK S : S = {i \in RawIds : pic.seen[i] # Nobody}
  OBVIOUS
<1>2. S \in SUBSET RawIds /\ RawIds \subseteq Nat \ {0} /\ IsFiniteSet(RawIds)
  BY <1>1, ConstantsAre
<1>3. IsFiniteSet(S) /\ S \subseteq Int
  <2>1. IsFiniteSet(S)
    BY <1>2, FS_Subset
  <2>2. S \subseteq Int
    BY ONLY <1>2
  <2> QED
    BY <2>1, <2>2
<1>4. PICK n \in Nat : n = Cardinality(S)
  BY <1>3, FS_CardinalityType
<1>5. PICK ids : ids = Ascending(S)
  OBVIOUS
<1>6. /\ ids \in [1..n -> S] /\ \A i, j \in 1..n : ids[i] = ids[j] => i = j
  BY ONLY <1>3, <1>4, <1>5, AscendingIs
<1>7. \A i \in S : pic.seen[i][1] \in Places /\ pic.seen[i][2] \in Poses
  <2> TAKE i \in S
  <2>1. pic.seen \in [RawIds -> Sightings \cup {Nobody}]
    BY DEF Pictures
  <2>2. pic.seen[i] \in Sightings
    BY <1>1, <2>1
  <2>3. pic.seen[i] \in Places \X Poses
    BY <2>2, ConstantsAre
  <2> QED
    BY <2>3
<1> DEFINE box(k) == [id    |-> IF pic.tracked THEN ids[k] ELSE NoId,
                      place |-> pic.seen[ids[k]][1], pose |-> pic.seen[ids[k]][2]]
<1>8. Boxes(pic) = [k \in 1..n |-> box(k)]
  <2>1. Boxes(pic) = [k \in DOMAIN ids |-> box(k)]
    BY ONLY <1>1, <1>5 DEF Boxes
  <2>2. DOMAIN ids = 1..n
    BY <1>6
  <2> QED
    BY ONLY <2>1, <2>2
<1>9. \A k \in 1..n : box(k) \in Boxed /\ (box(k).id # NoId => box(k).id = ids[k])
  <2> TAKE k \in 1..n
  <2>1. ids[k] \in S /\ ids[k] \in RawIds
    BY <1>2, <1>6
  <2> QED
    BY <1>7, <2>1 DEF Boxed
<1> HIDE DEF box
<1>10. PICK bs : bs = Boxes(pic)
  OBVIOUS
<1>11. bs \in [1..n -> Boxed] /\ \A k \in 1..n : bs[k] = box(k)
  BY <1>8, <1>9, <1>10
<1>12. Single(bs)
  BY <1>6, <1>9, <1>11 DEF Single
<1>13. bs \in Seq(Boxed)
  BY <1>11, SeqDef
<1> QED
  BY <1>10, <1>12, <1>13

Tallies == [RawIds -> [Zones -> [Poses -> Nat]]]

\* A picture adds to every tally as many as it shows.
LEMMA AddedAre ==
  ASSUME NEW counts \in Tallies, NEW dets \in Seq(Boxed)
  PROVE  Added(counts, dets) \in Tallies
<1> DEFINE S(i, z, p) == {k \in DOMAIN dets : dets[k].id = i /\ dets[k].place.zone = z /\ dets[k].pose = p}
           c(i, z, p) == Cardinality(S(i, z, p))
<1>1. PICK n \in Nat : DOMAIN dets = 1..n
  OBVIOUS
<1>2. \A i, z, p : c(i, z, p) \in Nat
  <2> TAKE i, z, p
  <2>1. S(i, z, p) \in SUBSET (1..n)
    BY <1>1
  <2> HIDE DEF S
  <2>2. IsFiniteSet(S(i, z, p))
    BY <1>1, <2>1, FS_Interval, FS_Subset
  <2> QED
    BY <2>2, FS_CardinalityType
<1>3. Added(counts, dets) =
        [i \in RawIds |-> [z \in Zones |-> [p \in Poses |-> counts[i][z][p] + c(i, z, p)]]]
  BY DEF Added
<1> HIDE DEF c
<1>4. \A i \in RawIds, z \in Zones, p \in Poses : counts[i][z][p] + c(i, z, p) \in Nat
  BY <1>2 DEF Tallies
<1> QED
  BY ONLY <1>3, <1>4 DEF Tallies

LEMMA NoPosesAre == NoPoses \in Tallies
BY DEF NoPoses, Tallies

\* What the positions of the boxes say before the presence is asked.
Placed(p, box, staff, feet, e) ==
  /\ p \in PositionType /\ p.id = PublicId(box.id, e) /\ p.track = PublicId(box.id, e)
  /\ p.id \in OfScene(e) /\ p.x = box.place.x
  /\ IsStaff(p) <=> staff
  /\ IsStaff(p) => Working(p)
  /\ p.state = "queue" <=> ~staff /\ NearFoot(box.place.x, feet.waiting)

\* A box is placed as staff, or by the foot it stands near.
LEMMA PositionIs ==
  ASSUME RawIds \subseteq Nat \ {0}, NEW box \in Boxed, NEW feet, NEW staff \in BOOLEAN, NEW e \in Int
  PROVE  Placed(Position(box, feet, staff, e), box, staff, feet, e)
<1>1. PICK w \in BOOLEAN : w <=> NearFoot(box.place.x, feet.waiting)
  OBVIOUS
<1>2. PICK t \in BOOLEAN : t <=> NearFoot(box.place.x, feet.seating)
  OBVIOUS
<1>3. PICK state : state = IF staff THEN "working" ELSE IF w THEN "queue" ELSE IF t THEN "seated" ELSE "unknown"
  OBVIOUS
<1>4. PICK i : i = PublicId(box.id, e)
  OBVIOUS
<1>5. PICK p : p = [id |-> i, track |-> i, x |-> box.place.x, type |-> IF staff THEN "staff" ELSE "customer",
                    state |-> state, occluded |-> FALSE]
  OBVIOUS
<1>6. /\ staff => state = "working"
      /\ ~staff => state \in {"queue", "seated", "unknown"} /\ (state = "queue" <=> w)
  BY <1>3
<1>7. i \in OfScene(e) /\ i \in PublicIds
  BY <1>4 DEF PublicId, OfScene, PublicIds, Boxed, NoId
<1>8. box.place.x \in Int
  BY DEF Boxed, Places
<1>9. p \in PositionType
  BY ONLY <1>5, <1>6, <1>7, <1>8, staff \in BOOLEAN DEF PositionType
<1>10. /\ p.id = i /\ p.track = i /\ p.x = box.place.x /\ p.state = state
       /\ p.type = IF staff THEN "staff" ELSE "customer"
  BY ONLY <1>5
<1>11. Placed(p, box, staff, feet, e)
  BY ONLY <1>1, <1>4, <1>6, <1>7, <1>9, <1>10, staff \in BOOLEAN DEF Placed, IsStaff, Working
<1>12. p = Position(box, feet, staff, e)
  BY <1>1, <1>2, <1>3, <1>4, <1>5 DEF Position
<1> QED
  BY <1>11, <1>12

LEMMA PositionsAre ==
  ASSUME RawIds \subseteq Nat \ {0}, NEW dets \in Seq(Boxed), Single(dets), NEW feet,
         NEW staff \in SUBSET DOMAIN dets, NEW e \in Int, NEW ps, ps = Positions(dets, feet, staff, e)
  PROVE  /\ ps \in Seq(PositionType) /\ Unlike(ps) /\ Len(ps) = Len(dets) /\ StaffIn(ps) = staff
         /\ \A k \in 1..Len(dets) : Placed(ps[k], dets[k], k \in staff, feet, e)
<1>1. PICK n \in Nat : n = Len(dets) /\ DOMAIN dets = 1..n
  OBVIOUS
<1> DEFINE c(k) == Position(dets[k], feet, k \in staff, e)
<1>2. ps = [k \in 1..n |-> c(k)]
  BY <1>1 DEF Positions
<1>3. \A k \in 1..n : Placed(c(k), dets[k], k \in staff, feet, e)
  <2> TAKE k \in 1..n
  <2>1. dets[k] \in Boxed /\ (k \in staff) \in BOOLEAN
    BY <1>1
  <2> QED
    BY <2>1, PositionIs
<1> HIDE DEF c
<1>4. ps \in [1..n -> PositionType] /\ \A k \in 1..n : Placed(ps[k], dets[k], k \in staff, feet, e)
  <2>1. \A k \in 1..n : c(k) \in PositionType
    BY <1>3 DEF Placed
  <2> QED
    BY <1>2, <1>3, <2>1
<1>5. ps \in Seq(PositionType) /\ Len(ps) = n /\ DOMAIN ps = 1..n
  BY <1>4, SeqDef
<1>6. StaffIn(ps) = staff
  BY <1>1, <1>4, <1>5 DEF StaffIn, Placed
<1>7. Unlike(ps)
  <2> SUFFICES ASSUME NEW j \in 1..n, NEW k \in 1..n, j # k, ps[j].id # NoPublicId PROVE ps[j].id # ps[k].id
    BY <1>5 DEF Unlike
  <2>1. ps[j].id = PublicId(dets[j].id, e) /\ ps[k].id = PublicId(dets[k].id, e)
    BY <1>4 DEF Placed
  <2>2. dets[j].id # NoId
    BY <2>1 DEF PublicId
  <2>3. dets[j].id # dets[k].id
    BY <1>1, <2>2 DEF Single
  <2> QED
    BY <2>1, <2>2, <2>3 DEF PublicId, NoPublicId
<1> QED
  BY <1>1, <1>4, <1>5, <1>6, <1>7

-----------------------------------------------------------------------------
(* The frames of the footage *)

Shot == [segment : Nat, at : Nat, reason : {"initial", "segment_gap", "scene_cut", "none"}]
InTime(film) == \A i, j \in DOMAIN film : i < j => film[i].at < film[j].at

\* The samples of a segment, one after the other.
LEMMA SegmentIs ==
  ASSUME FramesEach \in Nat, FramesEach > 0, NEW seg \in Segments, InFrameOrder(seg), seg.frames # <<>>,
         NEW elapsed \in Nat, NEW previous \in Nat
  PROVE  /\ SegmentSamples(seg, elapsed, previous) \in Seq(Shot)
         /\ InTime(SegmentSamples(seg, elapsed, previous))
         /\ elapsed + seg.frames[Len(seg.frames)] - seg.frames[1] + FramesEach \in Nat
         /\ elapsed < elapsed + seg.frames[Len(seg.frames)] - seg.frames[1] + FramesEach
         /\ \A i \in DOMAIN SegmentSamples(seg, elapsed, previous) :
              LET at == SegmentSamples(seg, elapsed, previous)[i].at
              IN  elapsed <= at /\ at < elapsed + seg.frames[Len(seg.frames)] - seg.frames[1] + FramesEach
<1>1. PICK fs \in Seq(Nat) : fs = seg.frames
  BY DEF Segments
<1>2. PICK m \in Nat : m = Len(fs) /\ m > 0 /\ DOMAIN fs = 1..m /\ fs \in [1..m -> Nat]
  BY <1>1
<1>3. \A i, j \in 1..m : i < j => fs[i] < fs[j]
  BY <1>1, <1>2 DEF InFrameOrder
<1>4. \A i \in 1..m : fs[i] \in Nat /\ fs[1] <= fs[i] /\ fs[i] <= fs[m]
  <2> TAKE i \in 1..m
  <2>1. fs[i] \in Nat /\ fs[1] \in Nat /\ fs[m] \in Nat /\ 1 \in 1..m /\ m \in 1..m
    BY <1>2
  <2>2. i = 1 \/ 1 < i
    OBVIOUS
  <2>3. i = m \/ i < m
    BY m \in Nat
  <2> QED
    BY <1>3, <2>1, <2>2, <2>3
<1>5. PICK why : why = Reason(previous, seg)
  OBVIOUS
<1>6. why \in {"initial", "segment_gap", "scene_cut", "none"}
  BY <1>5 DEF Reason
<1> DEFINE shot(i) == [segment |-> seg.number, at |-> elapsed + fs[i] - fs[1], reason |-> IF i = 1 THEN why ELSE "none"]
<1>7. SegmentSamples(seg, elapsed, previous) = [i \in 1..m |-> shot(i)]
  BY ONLY <1>1, <1>2, <1>5 DEF SegmentSamples
<1>8. \A i \in 1..m : shot(i) \in Shot /\ shot(i).at = elapsed + fs[i] - fs[1]
  <2> TAKE i \in 1..m
  <2>1. elapsed + fs[i] - fs[1] \in Nat
    <3>1. fs[i] \in Nat /\ fs[1] \in Nat /\ fs[1] <= fs[i]
      BY <1>2, <1>4
    <3> QED
      BY <3>1
  <2>2. seg.number \in Nat
    BY DEF Segments
  <2> QED
    BY <1>6, <2>1, <2>2 DEF Shot
<1> HIDE DEF shot
<1>9. PICK film : film = SegmentSamples(seg, elapsed, previous)
  OBVIOUS
<1>10. film \in [1..m -> Shot] /\ \A i \in 1..m : film[i].at = elapsed + fs[i] - fs[1]
  BY <1>7, <1>8, <1>9
<1>11. film \in Seq(Shot) /\ DOMAIN film = 1..m
  BY <1>10, SeqDef
<1>12. InTime(film)
  <2> SUFFICES ASSUME NEW i \in 1..m, NEW j \in 1..m, i < j PROVE film[i].at < film[j].at
    BY <1>11 DEF InTime
  <2>1. fs[i] < fs[j] /\ fs[i] \in Nat /\ fs[j] \in Nat /\ fs[1] \in Nat
    BY <1>2, <1>3, <1>4
  <2>2. film[i].at = elapsed + fs[i] - fs[1] /\ film[j].at = elapsed + fs[j] - fs[1]
    BY <1>10
  <2>3. \A e, a, b, c \in Nat : b < c => e + b - a < e + c - a
    OBVIOUS
  <2>4. elapsed + fs[i] - fs[1] < elapsed + fs[j] - fs[1]
    BY ONLY <2>1, <2>3, elapsed \in Nat
  <2> QED
    BY ONLY <2>2, <2>4
<1>13. PICK end \in Int : end = elapsed + fs[m] - fs[1] + FramesEach
  BY <1>2, <1>4
<1>14. end \in Nat /\ elapsed < end
  BY <1>2, <1>4, <1>13
<1>15. \A i \in 1..m : elapsed <= film[i].at /\ film[i].at < end
  <2> TAKE i \in 1..m
  <2>1. fs[i] \in Nat /\ fs[1] \in Nat /\ fs[m] \in Nat /\ fs[1] <= fs[i] /\ fs[i] <= fs[m]
    BY <1>2, <1>4
  <2>2. PICK first \in Nat, now \in Nat, final \in Nat :
          first = fs[1] /\ now = fs[i] /\ final = fs[m] /\ first <= now /\ now <= final
    BY <2>1
  <2>3. film[i].at = elapsed + now - first
    BY <1>10, <2>2
  <2>4. end = elapsed + final - first + FramesEach
    BY <1>13, <2>2
  <2>5. \A e, a, b, c, d \in Nat : a <= b /\ b <= c /\ d > 0 => e <= e + b - a /\ e + b - a < e + c - a + d
    OBVIOUS
  <2>6. elapsed <= elapsed + now - first /\ elapsed + now - first < elapsed + final - first + FramesEach
    BY ONLY <2>2, <2>5, elapsed \in Nat, FramesEach \in Nat, FramesEach > 0
  <2> QED
    BY ONLY <2>3, <2>4, <2>5, <2>6
<1>16. end = elapsed + seg.frames[Len(seg.frames)] - seg.frames[1] + FramesEach
  BY <1>1, <1>2, <1>13
<1> QED
  BY <1>9, <1>11, <1>12, <1>14, <1>15, <1>16

Reels == [samples : Seq(Shot), elapsed : Nat, previous : Nat]
Reel(acc) == /\ acc \in Reels /\ InTime(acc.samples)
             /\ \A i \in DOMAIN acc.samples : acc.samples[i].at < acc.elapsed

\* A segment is added after all that was filmed before, and an empty one changes nothing.
LEMMA FilmedIs ==
  ASSUME FramesEach \in Nat, FramesEach > 0, NEW seg \in Segments, InFrameOrder(seg),
         NEW acc, Reel(acc)
  PROVE  Reel(Filmed(acc, seg))
<1>1. CASE seg.frames = <<>>
  BY <1>1 DEF Filmed
<1>2. CASE seg.frames # <<>>
  <2>1. /\ acc.samples \in Seq(Shot) /\ acc.elapsed \in Nat /\ acc.previous \in Nat /\ InTime(acc.samples)
        /\ \A i \in DOMAIN acc.samples : acc.samples[i].at < acc.elapsed
    BY DEF Reel, Reels
  <2>2. PICK film : film = SegmentSamples(seg, acc.elapsed, acc.previous)
    OBVIOUS
  <2>3. PICK end : end = acc.elapsed + seg.frames[Len(seg.frames)] - seg.frames[1] + FramesEach
    OBVIOUS
  <2>4. /\ film \in Seq(Shot) /\ InTime(film) /\ end \in Nat /\ acc.elapsed < end
        /\ \A i \in DOMAIN film : acc.elapsed <= film[i].at /\ film[i].at < end
    BY ONLY <1>2, <2>1, <2>2, <2>3, SegmentIs, FramesEach \in Nat, FramesEach > 0, seg \in Segments, InFrameOrder(seg)
  <2>5. PICK all : all = acc.samples \o film
    OBVIOUS
  <2>6. PICK next : next = [samples |-> all, elapsed |-> end, previous |-> seg.number]
    OBVIOUS
  <2>7. Filmed(acc, seg) = next
    BY ONLY <1>2, <2>2, <2>3, <2>5, <2>6 DEF Filmed
  <2>8. PICK n \in Nat, m \in Nat : /\ n = Len(acc.samples) /\ m = Len(film)
                                    /\ DOMAIN acc.samples = 1..n /\ DOMAIN film = 1..m
    BY <2>1, <2>4
  <2>9. /\ all \in Seq(Shot) /\ DOMAIN all = 1..(n + m)
        /\ \A i \in 1..n : all[i] = acc.samples[i]
        /\ \A i \in (n + 1)..(n + m) : all[i] = film[i - n] /\ i - n \in 1..m
    <3>1. all \in Seq(Shot) /\ Len(all) = n + m
      BY <2>1, <2>4, <2>5, <2>8, ConcatProperties
    <3>2. \A i \in 1..(n + m) : all[i] = IF i <= n THEN acc.samples[i] ELSE film[i - n]
      BY <2>1, <2>4, <2>5, <2>8, ConcatProperties
    <3>3. DOMAIN all = 1..(n + m)
      BY <3>1
    <3> QED
      BY <2>8, <3>1, <3>2, <3>3
  <2>10. \A i \in 1..(n + m) : /\ all[i].at \in Nat
                               /\ i <= n => all[i].at < acc.elapsed
                               /\ i > n => acc.elapsed <= all[i].at
                               /\ all[i].at < end
    <3> TAKE i \in 1..(n + m)
    <3>1. all[i] \in Shot
      BY <2>9
    <3>2. all[i].at \in Nat
      BY <3>1 DEF Shot
    <3>3. CASE i <= n
      <4>1. i \in 1..n
        BY <3>3
      <4>2. all[i].at < acc.elapsed
        BY <2>1, <2>8, <2>9, <4>1
      <4> QED
        BY <2>1, <2>4, <3>2, <3>3, <4>2
    <3>4. CASE i > n
      <4>1. i \in (n + 1)..(n + m)
        BY <3>4
      <4>2. acc.elapsed <= all[i].at /\ all[i].at < end
        BY <2>4, <2>8, <2>9, <4>1
      <4> QED
        BY <3>2, <3>4, <4>2
    <3> QED
      BY <3>3, <3>4
  <2>11. \A i, j \in 1..(n + m) : i < j => all[i].at < all[j].at
    <3> TAKE i, j \in 1..(n + m)
    <3> HAVE i < j
    <3>1. CASE j <= n
      <4>1. i \in 1..n /\ j \in 1..n
        BY <3>1
      <4> QED
        BY <2>1, <2>8, <2>9, <4>1 DEF InTime
    <3>2. CASE i <= n /\ j > n
      BY <2>1, <2>10, <3>2
    <3>3. CASE i > n /\ j > n
      <4>1. i \in (n + 1)..(n + m) /\ j \in (n + 1)..(n + m) /\ i - n < j - n
        BY <3>3
      <4>2. film[i - n].at < film[j - n].at
        BY <2>4, <2>8, <2>9, <4>1 DEF InTime
      <4> QED
        BY <2>9, <4>1, <4>2
    <3> QED
      BY <3>1, <3>2, <3>3
  <2>12. seg.number \in Nat
    BY DEF Segments
  <2>13. next \in Reels /\ next.samples = all /\ next.elapsed = end
    BY ONLY <2>4, <2>6, <2>9, <2>12 DEF Reels
  <2> QED
    BY <2>7, <2>9, <2>10, <2>11, <2>13 DEF Reel, InTime
<1> QED
  BY <1>1, <1>2

\* The samples of a piece of footage, each later than the ones before it.
LEMMA FramesAre ==
  ASSUME TrackingConstants, NEW footage \in Footages
  PROVE  CameraFrames(footage) \in Seq(Shot) /\ InTime(CameraFrames(footage))
<1>1. /\ FramesEach \in Nat /\ FramesEach > 0 /\ footage \in Seq(Segments)
      /\ \A k \in DOMAIN footage : InFrameOrder(footage[k])
  BY ConstantsAre
<1>2. PICK n \in Nat : DOMAIN footage = 1..n
  BY <1>1
<1> DEFINE A == {acc \in Reels : Reel(acc)}
           base == [samples |-> <<>>, elapsed |-> 0, previous |-> 0]
           G == [p \in A \X (1..n) |-> Filmed(p[1], footage[p[2]])]
<1>3. base \in A
  <2>1. base \in Reels /\ base.samples = <<>>
    BY DEF Reels
  <2>2. \A i \in DOMAIN base.samples : FALSE
    BY <2>1
  <2> QED
    BY <2>1, <2>2 DEF Reel, InTime
<1>4. \A acc \in A : \A k \in 1..n : Filmed(acc, footage[k]) \in A
  <2> TAKE acc \in A
  <2> TAKE k \in 1..n
  <2>1. footage[k] \in Segments /\ InFrameOrder(footage[k])
    BY <1>1, <1>2
  <2>2. Reel(Filmed(acc, footage[k]))
    BY <1>1, <2>1, FilmedIs
  <2> QED
    BY <2>2 DEF Reel
<1> HIDE DEF A
<1>5. G \in [A \X (1..n) -> A]
  BY <1>4
<1>6. PICK f : Folds(f, n, A, base, G)
  <2> HIDE DEF G, base
  <2> QED
    BY <1>3, <1>5, FoldExists
<1> DEFINE Runs(x) == x = [s \in SUBSET (1..n) |->
                             IF s = {} THEN base ELSE Filmed(x[s \ {Max(s)}], footage[Max(s)])]
           h == CHOOSE x : Runs(x)
<1>7. \A acc \in A : \A k \in 1..n : G[<<acc, k>>] = Filmed(acc, footage[k])
  OBVIOUS
<1>8. \A s \in SUBSET (1..n) : s # {} => Max(s) \in 1..n /\ s \ {Max(s)} \in SUBSET (1..n)
  BY MaxIn
<1> HIDE DEF G, base
<1>9. Runs(f)
  <2>1. \A s \in SUBSET (1..n) : f[s] = IF s = {} THEN base
                                        ELSE Filmed(f[s \ {Max(s)}], footage[Max(s)])
    BY <1>6, <1>7, <1>8 DEF Folds
  <2> QED
    BY <1>6, <2>1 DEF Folds
<1>10. Runs(h)
  BY <1>9
<1>11. /\ h[{}] = base
       /\ \A s \in SUBSET (1..n) : s # {} /\ h[s \ {Max(s)}] \in A =>
            h[s] = G[<<h[s \ {Max(s)}], Max(s)>>]
  <2>1. \A s \in SUBSET (1..n) : h[s] = IF s = {} THEN base
                                        ELSE Filmed(h[s \ {Max(s)}], footage[Max(s)])
    <3> HIDE DEF h
    <3> QED
      BY <1>10
  <2> HIDE DEF h, Runs
  <2> QED
    BY <1>7, <1>8, <2>1
<1>12. h[1..n] \in A
  <2> HIDE DEF h
  <2> QED
    BY <1>3, <1>5, <1>11, FoldStays
<1>13. CameraFrames(footage) = h[1..n].samples
  <2>1. CameraFrames(footage) =
          (CHOOSE x : x = [s \in SUBSET DOMAIN footage |->
                             IF s = {} THEN base ELSE Filmed(x[s \ {Max(s)}], footage[Max(s)])])[DOMAIN footage].samples
    BY ONLY DEF CameraFrames, FoldLeft, MapThenFoldSet, base
  <2> QED
    BY ONLY <1>2, <2>1
<1> HIDE DEF h
<1>14. Reel(h[1..n])
  BY <1>12 DEF A
<1> QED
  BY <1>13, <1>14 DEF Reel, Reels

-----------------------------------------------------------------------------
(* What is published *)

\* The counts of a state are those of its positions.
Matches(o, max) ==
  LET qs == o.positions
      staffed == StaffIn(qs)
  IN  /\ o.staff = Cardinality(staffed)
      /\ o.waiting = Cardinality({k \in DOMAIN qs : qs[k].state = "queue"})
      /\ o.customers = Len(qs) - Cardinality(staffed)
      /\ \A j, k \in DOMAIN qs : j # k /\ qs[j].id # NoPublicId => qs[j].id # qs[k].id
      /\ max > 0 => Cardinality(staffed) <= max
      /\ \A k \in DOMAIN qs : qs[k].id # NoPublicId => qs[k].id[1] = o.epoch

\* The counts published are those of the positions shown.
LEMMA CountsMatch ==
  ASSUME NEW ps \in Seq(PositionType), NEW dets \in Seq(Boxed), Len(ps) = Len(dets), NEW e \in Int, NEW feet,
         NEW staff, \A k \in 1..Len(dets) : Placed(ps[k], dets[k], k \in staff, feet, e),
         NEW max \in Nat, NEW res, Shows(res.positions, ps, e),
         res.staff = Cardinality(StaffIn(res.positions)),
         max > 0 => Cardinality(StaffIn(res.positions)) <= max,
         NEW at, NEW cut
  PROVE  Matches(Published(at, e, cut, dets, feet, staff, res), max)
<1>1. PICK o : o = Published(at, e, cut, dets, feet, staff, res)
  OBVIOUS
<1>2. PICK qs : qs = res.positions
  OBVIOUS
<1>3. /\ o.positions = qs /\ o.epoch = e /\ o.staff = res.staff
      /\ o.waiting = WaitingCount(dets, feet, qs) /\ o.customers = Cardinality(DOMAIN qs \ StaffIn(qs))
  BY ONLY <1>1, <1>2 DEF Published
<1>4. PICK n \in Nat, m \in Nat : /\ n = Len(ps) /\ m = Len(qs) /\ n <= m /\ qs \in Seq(PositionType)
                                  /\ DOMAIN qs = 1..m /\ DOMAIN dets = 1..n /\ DOMAIN ps = 1..n
  BY <1>2 DEF Shows
<1>5. /\ Unlike(qs) /\ \A k \in 1..m : qs[k].id \in OfScene(e)
      /\ \A k \in 1..n : Working(qs[k]) \/ (qs[k].type = ps[k].type /\ qs[k].state = ps[k].state)
      /\ \A k \in 1..m : k > n => Working(qs[k])
  BY <1>2, <1>4 DEF Shows
<1>6. \A k \in 1..n : Placed(ps[k], dets[k], k \in staff, feet, e)
  BY <1>4
<1>7. \A k \in 1..m : qs[k].state = "queue" <=> k \in 1..n /\ ~IsStaff(qs[k]) /\ NearFoot(dets[k].place.x, feet.waiting)
  <2> TAKE k \in 1..m
  <2>1. CASE Working(qs[k])
    BY <2>1 DEF Working, IsStaff
  <2>2. CASE ~Working(qs[k])
    <3>1. k \in 1..n /\ qs[k].type = ps[k].type /\ qs[k].state = ps[k].state
      BY <1>4, <1>5, <2>2
    <3>2. Placed(ps[k], dets[k], k \in staff, feet, e)
      BY <1>6, <3>1
    <3>3. IsStaff(qs[k]) <=> k \in staff
      BY <3>1, <3>2 DEF Placed, IsStaff
    <3>4. qs[k].state = "queue" <=> k \notin staff /\ NearFoot(dets[k].place.x, feet.waiting)
      BY <3>1, <3>2 DEF Placed
    <3> QED
      BY <3>1, <3>3, <3>4
  <2> QED
    BY <2>1, <2>2
<1>8. o.waiting = Cardinality({k \in DOMAIN qs : qs[k].state = "queue"})
  <2>1. {k \in DOMAIN qs : qs[k].state = "queue"}
          = {k \in DOMAIN dets : ~IsStaff(qs[k]) /\ NearFoot(dets[k].place.x, feet.waiting)}
    <3>1. PICK A : A = {k \in DOMAIN qs : qs[k].state = "queue"}
      OBVIOUS
    <3>2. PICK B : B = {k \in DOMAIN dets : ~IsStaff(qs[k]) /\ NearFoot(dets[k].place.x, feet.waiting)}
      OBVIOUS
    <3>3. \A k \in 1..n : k \in 1..m
      BY <1>4
    <3>4. \A k : k \in A <=> k \in B
      BY ONLY <1>4, <1>7, <3>1, <3>2, <3>3
    <3> QED
      BY ONLY <3>1, <3>2, <3>4
  <2>2. WaitingCount(dets, feet, qs)
          = Cardinality({k \in DOMAIN dets : ~IsStaff(qs[k]) /\ NearFoot(dets[k].place.x, feet.waiting)})
    BY DEF WaitingCount
  <2> QED
    BY ONLY <1>3, <2>1, <2>2
<1>9. PICK staffed : staffed = StaffIn(qs)
  OBVIOUS
<1>10. /\ IsFiniteSet(staffed) /\ staffed \subseteq 1..m /\ Cardinality(staffed) \in Nat
  BY <1>4, <1>9, StaffCount
<1>11. o.customers = m - Cardinality(staffed)
  <2>1. PICK all : all = 1..m /\ IsFiniteSet(all) /\ Cardinality(all) = m
    <3>1. 1 \in Int /\ m \in Int /\ IF 1 > m THEN m = 0 ELSE m - 1 + 1 = m
      BY ONLY m \in Nat
    <3>2. IsFiniteSet(1..m) /\ Cardinality(1..m) = m
      BY ONLY <3>1, FS_Interval
    <3> QED
      BY ONLY <3>2
  <2>2. all \cap staffed = staffed
    BY <1>10, <2>1
  <2>3. Cardinality(all \ staffed) = Cardinality(all) - Cardinality(all \cap staffed)
    BY <1>10, <2>1, FS_Difference
  <2>4. Cardinality(all \ staffed) = m - Cardinality(staffed)
    BY <2>1, <2>2, <2>3
  <2> QED
    BY ONLY <1>3, <1>4, <1>9, <2>1, <2>4
<1>12. \A k \in 1..m : qs[k].id # NoPublicId => qs[k].id[1] = e
  BY <1>5 DEF OfScene
<1>13. /\ o.staff = Cardinality(staffed) /\ (max > 0 => Cardinality(staffed) <= max)
  BY <1>2, <1>3, <1>9
<1>14. \A j, k \in DOMAIN qs : j # k /\ qs[j].id # NoPublicId => qs[j].id # qs[k].id
  BY <1>5 DEF Unlike
<1>15. Matches(o, max)
  BY ONLY <1>3, <1>4, <1>8, <1>9, <1>10, <1>11, <1>12, <1>13, <1>14 DEF Matches
<1> QED
  BY <1>1, <1>15

\* Who is shown waiting is near a track that has stood in the waiting zone long enough.
Waited(counts, i) == /\ counts[i]["waiting"]["stand"] >= NDwell
                     /\ counts[i]["waiting"]["stand"] > counts[i]["waiting"]["sit"]
Dwelled(qs, counts) ==
  \A k \in DOMAIN qs : qs[k].state = "queue" =>
    \E j \in DOMAIN qs : /\ qs[j].track # NoPublicId /\ Waited(counts, qs[j].track[2])
                         /\ Apart(qs[j], qs[k]) <= NearDistance

\* A foot that makes somebody wait belongs to a track of the picture that dwelled there.
LEMMA WaitersStood ==
  ASSUME NearDistance \in Nat, NEW ps \in Seq(PositionType), NEW dets \in Seq(Boxed), Len(ps) = Len(dets), NEW e \in Int,
         NEW counts \in Tallies, NEW feet, feet = Feet(counts, dets),
         NEW staff, \A k \in 1..Len(dets) : Placed(ps[k], dets[k], k \in staff, feet, e),
         NEW qs, Shows(qs, ps, e)
  PROVE  Dwelled(qs, counts)
<1>1. PICK n \in Nat, m \in Nat : /\ n = Len(ps) /\ m = Len(qs) /\ n <= m /\ qs \in Seq(PositionType)
                                  /\ DOMAIN qs = 1..m /\ DOMAIN dets = 1..n /\ DOMAIN ps = 1..n
  BY DEF Shows
<1>2. /\ \A k \in 1..n : qs[k].track = ps[k].track /\ qs[k].x = ps[k].x
      /\ \A k \in 1..n : Working(qs[k]) \/ qs[k].state = ps[k].state
      /\ \A k \in 1..m : k > n => Working(qs[k])
  BY <1>1 DEF Shows
<1>3. SUFFICES ASSUME NEW k \in 1..m, qs[k].state = "queue"
               PROVE  \E j \in 1..m : /\ qs[j].track # NoPublicId /\ Waited(counts, qs[j].track[2])
                                      /\ Apart(qs[j], qs[k]) <= NearDistance
  BY <1>1 DEF Dwelled
<1>4. k \in 1..n /\ ps[k].state = "queue"
  <2>1. ~Working(qs[k])
    BY <1>3 DEF Working
  <2>2. k \in 1..n
    BY <1>1, <1>2, <2>1
  <2> QED
    BY <1>2, <1>3, <2>1, <2>2
<1>5. ps[k].x = dets[k].place.x /\ NearFoot(dets[k].place.x, feet.waiting)
  <2>1. Placed(ps[k], dets[k], k \in staff, feet, e)
    BY <1>1, <1>4
  <2> QED
    BY <1>4, <2>1 DEF Placed
<1>6. PICK foot \in feet.waiting : foot - dets[k].place.x \in (0 - NearDistance)..NearDistance
  BY <1>5 DEF NearFoot
<1>7. feet.waiting = {dets[j].place.x : j \in {j \in DOMAIN dets : Dwells(counts, dets[j], "waiting", "stand", NDwell)}}
  BY DEF Feet
<1>8. PICK j \in 1..n : Dwells(counts, dets[j], "waiting", "stand", NDwell) /\ foot = dets[j].place.x
  BY <1>1, <1>6, <1>7
<1>9. /\ dets[j].id # NoId /\ counts[dets[j].id]["waiting"]["stand"] >= NDwell
      /\ counts[dets[j].id]["waiting"]["stand"] > counts[dets[j].id]["waiting"]["sit"]
  <2>1. "sit" \in Poses \ {"stand"}
    BY DEF Poses
  <2> QED
    BY <1>8, <2>1 DEF Dwells
<1>10. ps[j].track = <<e, dets[j].id>> /\ ps[j].x = dets[j].place.x
  <2>1. Placed(ps[j], dets[j], j \in staff, feet, e)
    BY <1>1
  <2> QED
    BY <1>9, <2>1 DEF Placed, PublicId
<1>11. qs[j].track # NoPublicId /\ Waited(counts, qs[j].track[2])
  <2>1. qs[j].track = <<e, dets[j].id>>
    BY <1>2, <1>10
  <2>2. qs[j].track # NoPublicId /\ qs[j].track[2] = dets[j].id
    BY ONLY <2>1 DEF NoPublicId
  <2>3. Waited(counts, dets[j].id)
    BY ONLY <1>9 DEF Waited
  <2> QED
    BY ONLY <2>2, <2>3
<1>12. PICK a \in Int, b \in Int : a = qs[j].x /\ b = qs[k].x /\ a - b \in (0 - NearDistance)..NearDistance
  <2>1. dets[j].place.x \in Int /\ dets[k].place.x \in Int
    <3>1. dets[j] \in Boxed /\ dets[k] \in Boxed
      BY <1>1, <1>4
    <3> QED
      BY <3>1 DEF Boxed, Places
  <2>2. qs[j].x = dets[j].place.x /\ qs[k].x = dets[k].place.x
    BY <1>2, <1>4, <1>5, <1>10
  <2> QED
    BY <1>6, <1>8, <2>1, <2>2
<1>13. Apart(qs[j], qs[k]) <= NearDistance
  <2>1. Apart(qs[j], qs[k]) = IF a > b THEN a - b ELSE b - a
    BY <1>12 DEF Apart
  <2>2. PICK d \in Int : d = a - b /\ d \in (0 - NearDistance)..NearDistance
    BY <1>12
  <2>3. 0 - NearDistance <= d /\ d <= NearDistance
    BY <2>2
  <2> QED
    BY <2>1, <2>2, <2>3
<1> QED
  BY <1>1, <1>11, <1>13

-----------------------------------------------------------------------------
(* The scene *)

\* What is kept within a scene: no more locks and no more held staff than the store has.
SceneOk(s, max) ==
  /\ \E t : s \in [tracker : {t}, epoch : Int, dwell : Tallies, roles : Roles, presence : Presences]
  /\ Team(s.presence, s.epoch)
  /\ max > 0 => Cardinality(s.roles.locked) <= max /\ Len(s.presence.last) <= max

\* A scene begins with nothing kept.
LEMMA SceneIsFresh ==
  ASSUME NEW max \in Nat, NEW e \in Int, NEW new,
         new = [tracker |-> 0, epoch |-> e, dwell |-> NoPoses, roles |-> NoRoles, presence |-> NoPresence]
  PROVE  SceneOk(new, max) /\ new.dwell = NoPoses
<1>1. NoRoles \in Roles /\ NoRoles.locked = {}
  BY DEF NoRoles, Roles
<1>2. NoPresence \in Presences /\ NoPresence.last = <<>> /\ Team(NoPresence, e)
  BY DEF NoPresence, Presences, Team, Unlike
<1>3. new \in [tracker : {0}, epoch : Int, dwell : Tallies, roles : Roles, presence : Presences]
  BY <1>1, <1>2, NoPosesAre
<1>4. /\ new.epoch = e /\ new.dwell = NoPoses /\ new.roles.locked = {}
      /\ new.presence = NoPresence /\ Len(new.presence.last) = 0
  BY <1>1, <1>2
<1>5. Cardinality({}) = 0
  BY FS_EmptySet
<1> QED
  BY ONLY <1>2, <1>3, <1>4, <1>5, max \in Nat DEF SceneOk

\* ... and it does so at a cut, or goes on as it was.
LEMMA SceneStarts ==
  ASSUME NEW max \in Nat, NEW s, SceneOk(s, max), NEW cut \in BOOLEAN
  PROVE  /\ SceneOk(SceneStart(cut, s), max)
         /\ SceneStart(cut, s).dwell = IF cut THEN NoPoses ELSE s.dwell
<1>1. CASE ~cut
  BY <1>1 DEF SceneStart
<1>2. CASE cut
  <2>1. PICK new : new = SceneStart(cut, s)
    OBVIOUS
  <2>2. new = [tracker |-> 0, epoch |-> s.epoch + 1, dwell |-> NoPoses, roles |-> NoRoles,
               presence |-> NoPresence]
    BY <1>2, <2>1 DEF SceneStart, NoScene
  <2>3. s.epoch + 1 \in Int
    BY DEF SceneOk
  <2>4. SceneOk(new, max) /\ new.dwell = NoPoses
    BY <2>2, <2>3, SceneIsFresh
  <2> QED
    BY <1>2, <2>1, <2>4
<1> QED
  BY <1>1, <1>2

\* What a picture leaves of a scene, and what is published of it.
Analysed(pic, s, pol, dets, feet, rs, res, seen, kept, o) ==
  /\ dets = Boxes(pic) /\ feet = Feet(Added(s.dwell, dets), dets) /\ rs = StaffUpdate(s.roles, dets, pol)
  /\ res = PresenceUpdate(s.presence, Positions(dets, feet, rs.staff, s.epoch))
  /\ \E m : seen = [s EXCEPT !.dwell = Added(s.dwell, dets), !.tracker = m]
  /\ kept = [seen EXCEPT !.roles = rs.roles, !.presence = res.presence]
  /\ \E at, cut : o = Published(at, s.epoch, cut, dets, feet, rs.staff, res)

LEMMA PictureIs ==
  ASSUME TrackingConstants, NEW pol \in PolicyType, NEW s, SceneOk(s, pol.max), NEW pic \in Pictures,
         NEW dets, NEW feet, NEW rs, NEW res, NEW seen, NEW kept, NEW o,
         Analysed(pic, s, pol, dets, feet, rs, res, seen, kept, o)
  PROVE  /\ SceneOk(seen, pol.max) /\ seen.epoch = s.epoch /\ seen.dwell = Added(s.dwell, dets)
         /\ SceneOk(kept, pol.max) /\ kept.epoch = s.epoch /\ kept.dwell = Added(s.dwell, dets)
         /\ Matches(o, pol.max) /\ Dwelled(o.positions, Added(s.dwell, dets))
         /\ (/\ pol.max > 0 /\ Cardinality(s.roles.locked) = pol.max
             /\ \A i \in s.roles.locked : s.roles.missing[i] < pol.grace) => o.flagged \subseteq s.roles.locked
<1>1. PICK counts : counts = Added(s.dwell, dets)
  OBVIOUS
<1>2. /\ dets = Boxes(pic) /\ feet = Feet(counts, dets) /\ rs = StaffUpdate(s.roles, dets, pol)
       /\ res = PresenceUpdate(s.presence, Positions(dets, feet, rs.staff, s.epoch))
       /\ kept = [seen EXCEPT !.roles = rs.roles, !.presence = res.presence]
  BY ONLY <1>1, Analysed(pic, s, pol, dets, feet, rs, res, seen, kept, o) DEF Analysed
<1>3. PICK m : seen = [s EXCEPT !.dwell = counts, !.tracker = m]
  BY ONLY <1>1, Analysed(pic, s, pol, dets, feet, rs, res, seen, kept, o) DEF Analysed
<1>4. PICK at, cut : o = Published(at, s.epoch, cut, dets, feet, rs.staff, res)
  BY ONLY Analysed(pic, s, pol, dets, feet, rs, res, seen, kept, o) DEF Analysed
<1>5. PICK t : s \in [tracker : {t}, epoch : Int, dwell : Tallies, roles : Roles, presence : Presences]
  BY DEF SceneOk
<1>6. /\ s.epoch \in Int /\ s.dwell \in Tallies /\ s.roles \in Roles /\ s.presence \in Presences
      /\ Team(s.presence, s.epoch)
      /\ pol.max > 0 => Cardinality(s.roles.locked) <= pol.max /\ Len(s.presence.last) <= pol.max
  BY <1>5 DEF SceneOk
<1>7. dets \in Seq(Boxed) /\ Single(dets)
  BY <1>2, BoxesAre
<1>8. counts \in Tallies
  BY <1>6, <1>7, <1>1, AddedAre
<1>9. /\ RawIds \subseteq Nat \ {0} /\ IsFiniteSet(RawIds) /\ CountGrace \in Nat /\ NearDistance \in Nat
      /\ pol.max \in Nat
  BY ConstantsAre DEF PolicyType
<1>10. /\ rs.roles \in Roles /\ rs.staff \in SUBSET DOMAIN dets
       /\ pol.max > 0 => /\ Cardinality(rs.roles.locked) <= pol.max /\ Cardinality(rs.staff) <= pol.max
                         /\ (/\ Cardinality(s.roles.locked) = pol.max
                             /\ \A i \in s.roles.locked : s.roles.missing[i] < pol.grace)
                              => \A k \in rs.staff : dets[k].id \in s.roles.locked
  BY <1>6, <1>7, <1>9, <1>2, StaffUpdateIs
<1>11. PICK ps : ps = Positions(dets, feet, rs.staff, s.epoch)
  OBVIOUS
<1>12. /\ ps \in Seq(PositionType) /\ Unlike(ps) /\ Len(ps) = Len(dets) /\ StaffIn(ps) = rs.staff
       /\ \A k \in 1..Len(dets) : Placed(ps[k], dets[k], k \in rs.staff, feet, s.epoch)
  BY <1>6, <1>7, <1>9, <1>10, <1>11, PositionsAre
<1>13. /\ \A k \in DOMAIN ps : ps[k].id \in OfScene(s.epoch)
       /\ \A k \in DOMAIN ps : IsStaff(ps[k]) => Working(ps[k])
  <2>1. DOMAIN ps = 1..Len(dets)
    BY <1>12
  <2> QED
    BY <1>12, <2>1 DEF Placed
<1>14. res = PresenceUpdate(s.presence, ps)
  BY <1>11, <1>2
<1>15. /\ res.presence \in Presences /\ Team(res.presence, s.epoch) /\ Shows(res.positions, ps, s.epoch)
       /\ res.staff = Cardinality(StaffIn(res.positions))
       /\ \A n \in Nat : Len(s.presence.last) <= n /\ Cardinality(StaffIn(ps)) <= n
                           => Len(res.presence.last) <= n /\ Cardinality(StaffIn(res.positions)) <= n
  <2>1. PICK e, pr : e = s.epoch /\ pr = s.presence
    OBVIOUS
  <2>2. /\ ps \in Seq(PositionType) /\ Unlike(ps) /\ CountGrace \in Nat /\ pr \in Presences /\ Team(pr, e)
        /\ res = PresenceUpdate(pr, ps)
    BY ONLY <1>6, <1>9, <1>12, <1>14, <2>1
  <2>3. /\ \A k \in DOMAIN ps : ps[k].id \in OfScene(e)
        /\ \A k \in DOMAIN ps : IsStaff(ps[k]) => Working(ps[k])
    BY ONLY <1>13, <2>1
  <2>4. /\ res.presence \in Presences /\ Team(res.presence, e) /\ Shows(res.positions, ps, e)
        /\ res.staff = Cardinality(StaffIn(res.positions))
        /\ \A n \in Nat : Len(pr.last) <= n /\ Cardinality(StaffIn(ps)) <= n
                           => Len(res.presence.last) <= n /\ Cardinality(StaffIn(res.positions)) <= n
    BY ONLY <2>2, <2>3, PresenceIs
  <2> QED
    BY ONLY <2>1, <2>4
<1>16. pol.max > 0 => /\ Len(res.presence.last) <= pol.max
                      /\ Cardinality(StaffIn(res.positions)) <= pol.max
  BY <1>6, <1>9, <1>10, <1>12, <1>15
<1>17. /\ seen \in [tracker : {m}, epoch : Int, dwell : Tallies, roles : Roles, presence : Presences]
       /\ seen.dwell = counts /\ seen.epoch = s.epoch /\ seen.roles = s.roles /\ seen.presence = s.presence
  BY ONLY <1>5, <1>8, <1>3
<1>18. SceneOk(seen, pol.max)
  BY <1>6, <1>17 DEF SceneOk
<1>19. /\ kept \in [tracker : {m}, epoch : Int, dwell : Tallies, roles : Roles, presence : Presences]
       /\ kept.dwell = counts /\ kept.epoch = s.epoch /\ kept.roles = rs.roles /\ kept.presence = res.presence
  <2>1. PICK a, b : a = rs.roles /\ b = res.presence /\ a \in Roles /\ b \in Presences
    BY ONLY <1>10, <1>15
  <2>2. kept = [seen EXCEPT !.roles = a, !.presence = b]
    BY ONLY <1>2, <2>1
  <2>3. /\ kept \in [tracker : {m}, epoch : Int, dwell : Tallies, roles : Roles, presence : Presences]
        /\ kept.dwell = seen.dwell /\ kept.epoch = seen.epoch /\ kept.roles = a /\ kept.presence = b
    BY ONLY <1>17, <2>1, <2>2
  <2> QED
    BY ONLY <1>17, <2>1, <2>3
<1>20. SceneOk(kept, pol.max)
  BY <1>10, <1>15, <1>16, <1>19 DEF SceneOk
<1>21. Matches(o, pol.max)
  BY ONLY <1>6, <1>7, <1>9, <1>12, <1>15, <1>16, <1>4, CountsMatch
<1>22. /\ o.positions = res.positions
       /\ o.flagged = {dets[k].id : k \in rs.staff}
  BY ONLY <1>4 DEF Published
<1>23. Dwelled(o.positions, counts)
  <2>1. Dwelled(res.positions, counts)
    BY ONLY <1>6, <1>7, <1>8, <1>9, <1>12, <1>15, <1>2, WaitersStood
  <2> QED
    BY ONLY <1>22, <2>1
<1>24. (/\ pol.max > 0 /\ Cardinality(s.roles.locked) = pol.max
        /\ \A i \in s.roles.locked : s.roles.missing[i] < pol.grace) => o.flagged \subseteq s.roles.locked
  <2>1. ASSUME pol.max > 0, Cardinality(s.roles.locked) = pol.max,
               \A i \in s.roles.locked : s.roles.missing[i] < pol.grace
        PROVE  \A k \in rs.staff : dets[k].id \in s.roles.locked
    BY ONLY <1>10, <2>1
  <2> QED
    BY ONLY <1>22, <2>1
<1> QED
  BY <1>17, <1>18, <1>19, <1>20, <1>21, <1>22, <1>23, <1>24, <1>1

-----------------------------------------------------------------------------
(* The output times *)

\* What division by the interval leaves.
LEMMA Dividing ==
  ASSUME NEW x \in Nat, NEW w \in Nat, w > 0
  PROVE  x \div w \in Nat /\ w * (x \div w) <= x /\ x < w * (x \div w) + w
BY SMTT(30)

\* Multiples of the interval.
LEMMA Multiples ==
  ASSUME NEW w \in Nat, w > 0, NEW q \in Nat
  PROVE  /\ w * q \in Nat /\ (w * q) % w = 0
         /\ \A k \in Nat : w * q + w * (k + 1) = w * (q + k + 1) /\ w * (k + 1) = w * k + w
<1>1. w * q \in Nat
  OBVIOUS
<1>2. (w * q) % w = 0
  BY SMTT(30)
<1>3. \A k \in Nat : w * (k + 1) = w * k + w
  BY SMTT(30)
<1>4. \A k \in Nat : w * q + w * (k + 1) = w * (q + k + 1)
  BY SMTT(30)
<1> QED
  BY <1>1, <1>2, <1>3, <1>4

\* The next output is a multiple of the interval from the anchor, and ahead of the last one.
OnGrid(next, from, shown) ==
  next # NoTime => /\ \E q \in Nat : next = from + Interval * q
                   /\ shown < next /\ next <= shown + Interval /\ from <= shown

\* The sampler's next output keeps to the grid, however late a frame comes.
LEMMA OutputStays ==
  ASSUME Interval \in Nat, Interval > 0, NEW next \in Int, NEW from \in Int, NEW shown \in Int,
         OnGrid(next, from, shown), NEW at \in Nat, NEW force \in BOOLEAN,
         NEW next2, next2 = NextOutput(next, at, force),
         NEW from2, from2 = IF next = NoTime \/ force THEN at ELSE from,
         NEW shown2, shown2 = IF ShouldEmit(next, at, force) THEN at ELSE shown
  PROVE  next2 \in Int /\ from2 \in Int /\ shown2 \in Int /\ OnGrid(next2, from2, shown2)
<1>1. CASE next = NoTime \/ force
  <2>1. next2 = at + Interval /\ from2 = at /\ shown2 = at
    BY <1>1 DEF NextOutput, ShouldEmit
  <2>2. 1 \in Nat /\ next2 = from2 + Interval * 1
    BY <2>1
  <2>3. next2 \in Int /\ from2 \in Int /\ shown2 \in Int /\ shown2 < next2 /\ next2 <= shown2 + Interval /\ from2 <= shown2
    <3>1. \A a, b \in Nat : b > 0 => a + b \in Int /\ a < a + b /\ a + b <= a + b /\ a <= a /\ a \in Int
      OBVIOUS
    <3> QED
      BY <2>1, <3>1
  <2> QED
    BY <2>2, <2>3 DEF OnGrid
<1>2. CASE ~(next = NoTime \/ force) /\ at < next
  <2>1. next2 = next /\ from2 = from /\ shown2 = shown
    BY <1>2 DEF NextOutput, ShouldEmit
  <2> QED
    BY <2>1
<1>3. CASE ~(next = NoTime \/ force) /\ ~(at < next)
  <2>1. PICK x \in Nat : x = at - next
    BY <1>3
  <2>2. PICK k \in Nat : k = x \div Interval /\ Interval * k <= x /\ x < Interval * k + Interval
    BY Dividing
  <2>3. PICK q \in Nat : next = from + Interval * q
    BY <1>3 DEF OnGrid
  <2>4. from <= shown /\ shown < next
    BY <1>3 DEF OnGrid
  <2>5. next2 = next + Interval * (k + 1) /\ from2 = from /\ shown2 = at
    BY <1>3, <2>1, <2>2 DEF NextOutput, ShouldEmit
  <2>6. PICK y \in Nat : y = Interval * k
    BY Multiples
  <2>7. Interval * (k + 1) = y + Interval /\ Interval * q + Interval * (k + 1) = Interval * (q + k + 1)
    BY <2>6, Multiples
  <2>8. next2 = next + y + Interval
    BY <2>5, <2>6, <2>7
  <2>9. next2 \in Int /\ at < next2 /\ next2 <= at + Interval /\ from <= at
    BY <1>3, <2>1, <2>2, <2>4, <2>6, <2>8
  <2>10. PICK z \in Nat : z = Interval * q
    BY Multiples
  <2>11. next2 = from + Interval * (q + k + 1)
    BY <2>3, <2>5, <2>6, <2>7, <2>10
  <2>12. PICK p \in Nat : p = q + k + 1
    OBVIOUS
  <2>13. next2 = from2 + Interval * p
    BY ONLY <2>5, <2>11, <2>12
  <2>14. from2 \in Int /\ shown2 \in Int /\ shown2 < next2 /\ next2 <= shown2 + Interval /\ from2 <= shown2
    BY ONLY <2>5, <2>9, from \in Int, at \in Nat
  <2> QED
    BY ONLY <2>9, <2>12, <2>13, <2>14 DEF OnGrid
<1> QED
  BY <1>1, <1>2, <1>3

-----------------------------------------------------------------------------
(* The properties of PersonTracking *)

\* What was published, was published for a sample that has been read; and while it is the
\* last one, whoever is shown waiting is near a track that stood long enough.
ShownInv ==
  out.at # NoTime => /\ \E j \in 1..done : out.at = samples[j].at
                     /\ done > 0 /\ out.at = samples[done].at => Dwelled(out.positions, tally)

TrackInv ==
  /\ samples \in Seq(Shot) /\ InTime(samples) /\ policy \in PolicyType /\ done \in 0..Len(samples)
  /\ SceneOk(scene, policy.max) /\ scene.dwell = tally
  /\ nextOut \in Int /\ anchor \in Int /\ out.at \in Int /\ OnGrid(nextOut, anchor, out.at)
  /\ Matches(out, policy.max) /\ ShownInv

\* The invariant holds at first, is kept by both steps, and so always.
LEMMA TrackStarts == ASSUME TrackingConstants, TrackingInit PROVE TrackInv
<1>1. /\ samples \in {CameraFrames(f) : f \in Footages} /\ policy \in Policies
      /\ done = 0 /\ scene = NoScene /\ nextOut = NoTime /\ anchor = NoTime
      /\ tally = NoPoses /\ out = NothingYet
  BY DEF TrackingInit
<1>2. samples \in Seq(Shot) /\ InTime(samples)
  BY <1>1, FramesAre
<1>3. policy \in PolicyType /\ policy.max \in Nat
  BY <1>1, ConstantsAre DEF PolicyType
<1>4. done \in 0..Len(samples)
  BY <1>1, <1>2
<1>5. SceneOk(scene, policy.max) /\ scene.dwell = tally
  <2>1. scene = [tracker |-> 0, epoch |-> -1, dwell |-> NoPoses, roles |-> NoRoles, presence |-> NoPresence]
    BY <1>1 DEF NoScene
  <2>2. -1 \in Int
    OBVIOUS
  <2>3. SceneOk(scene, policy.max) /\ scene.dwell = NoPoses
    BY ONLY <1>3, <2>1, <2>2, SceneIsFresh
  <2> QED
    BY <1>1, <2>3
<1>6. out = [at |-> -1, epoch |-> -1, reset |-> FALSE, positions |-> <<>>,
             staff |-> 0, waiting |-> 0, customers |-> 0, flagged |-> {}]
  BY <1>1 DEF NothingYet, NoTime
<1>7. /\ out.at = -1 /\ out.staff = 0 /\ out.waiting = 0 /\ out.customers = 0 /\ out.positions = <<>>
  BY ONLY <1>6
<1>8. Matches(out, policy.max)
  <2>1. DOMAIN out.positions = {} /\ Len(out.positions) = 0
    BY ONLY <1>7
  <2>2. StaffIn(out.positions) = {} /\ {k \in DOMAIN out.positions : out.positions[k].state = "queue"} = {}
    BY <2>1 DEF StaffIn
  <2>3. Cardinality({}) = 0
    BY FS_EmptySet
  <2>4. PICK qs : qs = out.positions /\ qs = <<>>
    BY <1>7
  <2>5. \A k \in DOMAIN qs : FALSE
    BY <2>1, <2>4
  <2>6. Cardinality(StaffIn(qs)) = 0 /\ Len(qs) = 0
        /\ Cardinality({k \in DOMAIN qs : qs[k].state = "queue"}) = 0
    BY ONLY <2>1, <2>2, <2>3, <2>4
  <2> QED
    BY ONLY <1>3, <1>7, <2>4, <2>5, <2>6 DEF Matches
<1>9. /\ nextOut \in Int /\ anchor \in Int /\ out.at \in Int /\ OnGrid(nextOut, anchor, out.at) /\ ShownInv
  BY <1>1, <1>7 DEF OnGrid, ShownInv, NoTime
<1> QED
  BY <1>2, <1>3, <1>4, <1>5, <1>8, <1>9 DEF TrackInv

\* A sample that is read is later than any a state was published for.
LEMMA SampleIs ==
  ASSUME TrackInv, done < Len(samples)
  PROVE  /\ done \in Nat /\ done + 1 \in 1..Len(samples) /\ CurrentSample = samples[done + 1]
         /\ CurrentSample.at \in Nat /\ ResetBefore(CurrentSample) \in BOOLEAN
         /\ \A j \in 1..done : samples[j].at # CurrentSample.at
<1>1. samples \in Seq(Shot) /\ InTime(samples) /\ done \in 0..Len(samples)
  BY DEF TrackInv
<1>2. done \in Nat /\ done + 1 \in 1..Len(samples) /\ CurrentSample = samples[done + 1]
  BY <1>1 DEF CurrentSample
<1>3. CurrentSample \in Shot
  BY <1>1, <1>2
<1>4. \A j \in 1..done : samples[j].at # CurrentSample.at
  <2> TAKE j \in 1..done
  <2>1. j \in DOMAIN samples /\ done + 1 \in DOMAIN samples /\ j < done + 1
    BY <1>1, <1>2
  <2>2. samples[j].at < samples[done + 1].at
    BY <1>1, <2>1 DEF InTime
  <2>3. samples[j] \in Shot
    BY <1>1, <2>1
  <2> QED
    BY <1>2, <1>3, <2>2, <2>3 DEF Shot
<1> QED
  BY <1>2, <1>3, <1>4 DEF Shot, ResetBefore

\* Nothing is published: the last state is no longer that of the last sample.
LEMMA NothingShown ==
  ASSUME TrackInv, done < Len(samples), done' = done + 1, samples' = samples, out' = out
  PROVE  ShownInv'
<1>1. done \in Nat
  BY SampleIs
<1>2. ASSUME out.at # NoTime PROVE (\E j \in 1..(done + 1) : out.at = samples[j].at) /\ out.at # samples[done + 1].at
  <2>1. ShownInv
    BY DEF TrackInv
  <2>2. PICK j \in 1..done : out.at = samples[j].at
    BY <1>2, <2>1 DEF ShownInv
  <2>3. j \in 1..(done + 1)
    BY <1>1
  <2> QED
    BY <2>2, <2>3, SampleIs
<1> QED
  BY <1>2 DEF ShownInv, NoTime

\* A sample that cannot be decoded may begin a scene, and publishes nothing.
LEMMA SkipKeeps == ASSUME TrackInv, SkipFrame PROVE TrackInv'
<1>1. /\ done < Len(samples) /\ scene' = SceneStart(ResetBefore(CurrentSample), scene)
      /\ tally' = IF ResetBefore(CurrentSample) THEN NoPoses ELSE tally
      /\ done' = done + 1 /\ samples' = samples /\ policy' = policy
      /\ nextOut' = nextOut /\ anchor' = anchor /\ out' = out
  BY DEF SkipFrame
<1>2. PICK cut \in BOOLEAN : cut = ResetBefore(CurrentSample)
  BY <1>1, SampleIs
<1>3. PICK max \in Nat : max = policy.max
  BY DEF TrackInv, PolicyType
<1>4. SceneOk(scene, max) /\ scene.dwell = tally
  BY <1>3 DEF TrackInv
<1>5. SceneOk(scene', max) /\ scene'.dwell = tally'
  <2>1. PICK s : s = SceneStart(cut, scene)
    OBVIOUS
  <2>2. SceneOk(s, max) /\ s.dwell = IF cut THEN NoPoses ELSE scene.dwell
    BY ONLY <1>4, <2>1, SceneStarts
  <2> QED
    BY ONLY <1>1, <1>2, <1>4, <2>1, <2>2
<1>6. done' \in 0..Len(samples')
  BY <1>1, SampleIs
<1>7. ShownInv'
  BY <1>1, NothingShown
<1> QED
  BY <1>1, <1>3, <1>5, <1>6, <1>7 DEF TrackInv

\* What AnalyseFrame does, each part of it named.
LEMMA AnalysedAre ==
  ASSUME TrackingConstants, TrackInv, NEW pic \in Pictures, AnalyseFrame(pic)
  PROVE  /\ done < Len(samples) /\ done' = done + 1 /\ samples' = samples /\ policy' = policy
         /\ nextOut' \in Int /\ anchor' \in Int /\ out'.at \in Int /\ OnGrid(nextOut', anchor', out'.at)
         /\ SceneOk(scene', policy.max) /\ scene'.dwell = tally'
         /\ \/ out' = out
            \/ /\ Matches(out', policy.max) /\ Dwelled(out'.positions, tally') /\ out'.at = CurrentSample.at
               /\ (/\ policy.max > 0 /\ scene'.epoch = scene.epoch /\ Cardinality(scene.roles.locked) = policy.max
                   /\ \A i \in scene.roles.locked : scene.roles.missing[i] < policy.grace)
                     => out'.flagged \subseteq scene.roles.locked
<1>1. /\ done < Len(samples) /\ done' = done + 1 /\ samples' = samples /\ policy' = policy
  BY DEF AnalyseFrame
<1>2. PICK cut \in BOOLEAN, at \in Nat : cut = ResetBefore(CurrentSample) /\ at = CurrentSample.at
  BY <1>1, SampleIs
<1>3. PICK force \in BOOLEAN : force = (cut /\ CurrentSample.reason # "initial")
  OBVIOUS
<1>4. PICK emit \in BOOLEAN : emit = ShouldEmit(nextOut, at, force)
  BY DEF ShouldEmit
<1>5. PICK s : s = SceneStart(cut, scene)
  OBVIOUS
<1>6. PICK dets : dets = Boxes(pic)
  OBVIOUS
<1>7. PICK counts : counts = Added(s.dwell, dets)
  OBVIOUS
<1>8. PICK feet : feet = Feet(counts, dets)
  OBVIOUS
<1>9. PICK rs : rs = StaffUpdate(s.roles, dets, policy)
  OBVIOUS
<1>10. PICK res : res = PresenceUpdate(s.presence, Positions(dets, feet, rs.staff, s.epoch))
  OBVIOUS
<1>11. PICK m : m = Max({s.tracker} \cup {dets[k].id : k \in DOMAIN dets})
  OBVIOUS
<1>12. PICK seen : seen = [s EXCEPT !.dwell = counts, !.tracker = m]
  OBVIOUS
<1>13. PICK kept : kept = [seen EXCEPT !.roles = rs.roles, !.presence = res.presence]
  OBVIOUS
<1>14. PICK o : o = Published(at, s.epoch, cut, dets, feet, rs.staff, res)
  OBVIOUS
<1>15. /\ tally' = Added(IF cut THEN NoPoses ELSE tally, dets)
       /\ nextOut' = NextOutput(nextOut, at, force)
       /\ anchor' = IF nextOut = NoTime \/ force THEN at ELSE anchor
       /\ IF emit THEN scene' = kept /\ out' = o ELSE scene' = seen /\ out' = out
  <2>1. /\ tally' = Added(IF cut THEN NoPoses ELSE tally, dets)
        /\ nextOut' = NextOutput(nextOut, at, force)
        /\ anchor' = IF nextOut = NoTime \/ force THEN at ELSE anchor
    BY ONLY AnalyseFrame(pic), <1>2, <1>3, <1>6 DEF AnalyseFrame
  <2>2. CASE emit
    <3>1. out' = o
      BY ONLY AnalyseFrame(pic), <1>2, <1>3, <1>4, <1>5, <1>6, <1>7, <1>8, <1>9, <1>10, <1>14, <2>2 DEF AnalyseFrame
    <3>2. scene' = kept
      BY ONLY AnalyseFrame(pic), <1>2, <1>3, <1>4, <1>5, <1>6, <1>7, <1>8, <1>9, <1>10, <1>11, <1>12, <1>13, <2>2
         DEF AnalyseFrame
    <3> QED
      BY <2>1, <2>2, <3>1, <3>2
  <2>3. CASE ~emit
    <3>1. out' = out
      BY ONLY AnalyseFrame(pic), <1>2, <1>3, <1>4, <2>3 DEF AnalyseFrame
    <3>2. scene' = seen
      BY ONLY AnalyseFrame(pic), <1>2, <1>3, <1>4, <1>5, <1>6, <1>7, <1>11, <1>12, <2>3 DEF AnalyseFrame
    <3> QED
      BY <2>1, <2>3, <3>1, <3>2
  <2> QED
    BY <2>2, <2>3
<1>16. Analysed(pic, s, policy, dets, feet, rs, res, seen, kept, o)
  BY ONLY <1>6, <1>7, <1>8, <1>9, <1>10, <1>12, <1>13, <1>14 DEF Analysed
<1>17. PICK pol \in PolicyType : pol = policy /\ pol.max \in Nat
  BY DEF TrackInv, PolicyType
<1>18. SceneOk(scene, pol.max) /\ scene.dwell = tally
  BY <1>17 DEF TrackInv
<1>19. SceneOk(s, pol.max) /\ s.dwell = IF cut THEN NoPoses ELSE tally
  BY ONLY <1>5, <1>17, <1>18, SceneStarts
<1>20. tally' = counts
  BY ONLY <1>7, <1>15, <1>19
<1>21. Analysed(pic, s, pol, dets, feet, rs, res, seen, kept, o)
  BY ONLY <1>17, <1>16
<1>22. /\ SceneOk(seen, pol.max) /\ seen.dwell = counts
       /\ SceneOk(kept, pol.max) /\ kept.dwell = counts /\ kept.epoch = s.epoch
       /\ Matches(o, pol.max) /\ Dwelled(o.positions, counts)
       /\ (/\ pol.max > 0 /\ Cardinality(s.roles.locked) = pol.max
           /\ \A i \in s.roles.locked : s.roles.missing[i] < pol.grace) => o.flagged \subseteq s.roles.locked
  BY ONLY TrackingConstants, pic \in Pictures, <1>7, <1>17, <1>19, <1>21, PictureIs
<1>23. o.at = at
  BY ONLY <1>14 DEF Published
<1>24. SceneOk(scene', policy.max) /\ scene'.dwell = tally'
  BY ONLY <1>15, <1>17, <1>20, <1>22
<1>25. /\ nextOut \in Int /\ anchor \in Int /\ out.at \in Int /\ OnGrid(nextOut, anchor, out.at)
       /\ Interval \in Nat /\ Interval > 0
  BY ConstantsAre DEF TrackInv
<1>26. out'.at = IF ShouldEmit(nextOut, at, force) THEN at ELSE out.at
  BY ONLY <1>4, <1>15, <1>23
<1>27. nextOut' \in Int /\ anchor' \in Int /\ out'.at \in Int /\ OnGrid(nextOut', anchor', out'.at)
  BY ONLY <1>15, <1>25, <1>26, OutputStays
<1>28. CASE ~emit
  BY <1>1, <1>15, <1>24, <1>27, <1>28
<1>29. CASE emit
  <2>1. out' = o /\ scene' = kept
    BY <1>15, <1>29
  <2>2. Matches(out', policy.max) /\ Dwelled(out'.positions, tally') /\ out'.at = CurrentSample.at
    BY ONLY <1>2, <1>17, <1>20, <1>22, <1>23, <2>1
  <2>3. ASSUME scene'.epoch = scene.epoch PROVE s = scene
    <3>1. CASE cut
      <4>1. scene.epoch \in Int
        BY <1>18 DEF SceneOk
      <4>2. s.epoch = scene.epoch + 1
        BY <1>5, <3>1 DEF SceneStart, NoScene
      <4>3. kept.epoch = s.epoch
        BY ONLY <1>22
      <4> QED
        BY ONLY <2>1, <2>3, <4>1, <4>2, <4>3
    <3>2. CASE ~cut
      BY <1>5, <3>2 DEF SceneStart
    <3> QED
      BY <3>1, <3>2
  <2>4. ASSUME policy.max > 0, scene'.epoch = scene.epoch, Cardinality(scene.roles.locked) = policy.max,
               \A i \in scene.roles.locked : scene.roles.missing[i] < policy.grace
        PROVE  out'.flagged \subseteq scene.roles.locked
    BY ONLY <1>17, <1>22, <2>1, <2>3, <2>4
  <2> QED
    BY <1>1, <1>24, <1>27, <2>2, <2>4
<1> QED
  BY <1>28, <1>29

\* A sample that is analysed keeps the invariant, whether it is published or not.
LEMMA AnalyseKeeps ==
  ASSUME TrackingConstants, TrackInv, NEW pic \in Pictures, AnalyseFrame(pic) PROVE TrackInv'
<1>1. /\ done < Len(samples) /\ done' = done + 1 /\ samples' = samples /\ policy' = policy
      /\ nextOut' \in Int /\ anchor' \in Int /\ out'.at \in Int /\ OnGrid(nextOut', anchor', out'.at)
      /\ SceneOk(scene', policy.max) /\ scene'.dwell = tally'
      /\ \/ out' = out
         \/ Matches(out', policy.max) /\ Dwelled(out'.positions, tally') /\ out'.at = CurrentSample.at
  BY AnalysedAre
<1>2. done' \in 0..Len(samples') /\ done \in Nat
  BY <1>1, SampleIs
<1>3. Matches(out', policy.max)
  BY <1>1 DEF TrackInv
<1>4. ShownInv'
  <2>1. CASE out' = out
    BY <1>1, <2>1, NothingShown
  <2>2. CASE Dwelled(out'.positions, tally') /\ out'.at = CurrentSample.at
    <3>1. done + 1 \in 1..(done + 1) /\ out'.at = samples[done + 1].at
      BY <1>1, <1>2, <2>2, SampleIs
    <3> QED
      BY <1>1, <2>2, <3>1 DEF ShownInv
  <2> QED
    BY <1>1, <2>1, <2>2
<1> QED
  BY <1>1, <1>2, <1>3, <1>4 DEF TrackInv

LEMMA TrackSteps == ASSUME TrackingConstants, TrackInv, [TrackingNext]_trackingVars PROVE TrackInv'
<1>1. CASE SkipFrame
  BY <1>1, SkipKeeps
<1>2. ASSUME NEW pic \in Pictures, AnalyseFrame(pic) PROVE TrackInv'
  BY <1>2, AnalyseKeeps
<1>3. CASE UNCHANGED trackingVars
  BY <1>3 DEF trackingVars, TrackInv, ShownInv
<1> QED
  BY <1>1, <1>2, <1>3 DEF TrackingNext

LEMMA TrackAlways == TrackingSpec => []TrackInv
<1>1. TrackingInit => TrackInv
  BY TrackingAssumption, TrackStarts
<1>2. TrackInv /\ [TrackingNext]_trackingVars => TrackInv'
  BY TrackingAssumption, TrackSteps
<1> QED
  BY <1>1, <1>2, PTL DEF TrackingSpec

\* The published times lie on the grid of the last forced output: for any interval, whatever
\* footage there is and however many samples lie between two outputs (OutputSampler).
THEOREM OutputsAreOnGrid == TrackingSpec => []OutputsOnGrid
<1>1. TrackInv => OutputsOnGrid
  <2> SUFFICES ASSUME TrackInv, nextOut # NoTime
               PROVE  /\ (nextOut - anchor) % Interval = 0
                      /\ out.at < nextOut /\ nextOut <= out.at + Interval /\ anchor <= out.at
    BY DEF OutputsOnGrid
  <2>1. OnGrid(nextOut, anchor, out.at) /\ anchor \in Int /\ nextOut \in Int /\ Interval \in Nat /\ Interval > 0
    BY TrackingAssumption, ConstantsAre DEF TrackInv
  <2>2. PICK q \in Nat : nextOut = anchor + Interval * q
    BY <2>1 DEF OnGrid
  <2>3. PICK x \in Nat : x = Interval * q /\ x % Interval = 0
    BY <2>1, Multiples
  <2>4. nextOut - anchor = x
    BY ONLY <2>1, <2>2, <2>3
  <2> QED
    BY <2>1, <2>3, <2>4 DEF OnGrid
<1> QED
  BY <1>1, TrackAlways, PTL

\* A state says what the pictures of its scene have shown -- its counts are those of its
\* positions, no number is shown twice or comes from another scene, no more are staff than the
\* store has, and whoever waits is near a track that stood long enough -- for any number of
\* tracks, people, cuts and samples (analyze_store_stream).
THEOREM StatesFollowPictures == TrackingSpec => []StateFollowsPictures
<1>1. TrackInv => StateMatchesPositions
  <2> SUFFICES ASSUME TrackInv PROVE StateMatchesPositions
    OBVIOUS
  <2>1. Matches(out, policy.max)
    BY DEF TrackInv
  <2> QED
    BY ONLY <2>1 DEF Matches, StateMatchesPositions, Staffed
<1>2. TrackInv => WaitersDwelled
  <2> SUFFICES ASSUME TrackInv, out.at # NoTime, done > 0, out.at = samples[done].at,
                      NEW k \in DOMAIN out.positions, out.positions[k].state = "queue"
               PROVE  \E j \in DOMAIN out.positions :
                        /\ out.positions[j].track # NoPublicId
                        /\ tally[out.positions[j].track[2]]["waiting"]["stand"] >= NDwell
                        /\ tally[out.positions[j].track[2]]["waiting"]["stand"]
                             > tally[out.positions[j].track[2]]["waiting"]["sit"]
                        /\ Apart(out.positions[j], out.positions[k]) <= NearDistance
    BY DEF WaitersDwelled
  <2>1. Dwelled(out.positions, tally)
    BY DEF TrackInv, ShownInv
  <2> QED
    BY <2>1 DEF Dwelled, Waited
<1>3. TrackInv => StateFollowsPictures
  BY <1>1, <1>2 DEF StateFollowsPictures
<1> QED
  BY <1>3, TrackAlways, PTL

\* A locked role does not jump to another person while every lock has its evidence or its
\* grace: for any number of staff, tracks and frames (StaffRoleState.update_evidence).
THEOREM LocksAreHeld == TrackingSpec => LocksHold
<1> DEFINE Held == (/\ policy.max > 0 /\ scene'.epoch = scene.epoch /\ out' # out
                    /\ Cardinality(scene.roles.locked) = policy.max
                    /\ \A i \in scene.roles.locked : scene.roles.missing[i] < policy.grace)
                     => out'.flagged \subseteq scene.roles.locked
<1>1. TrackInv /\ [TrackingNext]_trackingVars => [Held]_trackingVars
  <2> SUFFICES ASSUME TrackInv, TrackingNext, policy.max > 0, scene'.epoch = scene.epoch, out' # out,
                      Cardinality(scene.roles.locked) = policy.max,
                      \A i \in scene.roles.locked : scene.roles.missing[i] < policy.grace
               PROVE  out'.flagged \subseteq scene.roles.locked
    OBVIOUS
  <2>1. PICK pic \in Pictures : AnalyseFrame(pic)
    BY DEF TrackingNext, SkipFrame
  <2> QED
    BY <2>1, TrackingAssumption, AnalysedAre
<1>2. LocksHold <=> [][Held]_trackingVars
  BY DEF LocksHold
<1> QED
  BY <1>1, <1>2, TrackAlways, PTL DEF TrackingSpec
=============================================================================
