---------------------------- MODULE StateIngest ----------------------------
(***************************************************************************)
(* save_store_state of DatabaseRepository: what one POST of a store state  *)
(* does to the four tables it feeds, for one camera of one store, and the  *)
(* clean-up job that deletes old raw rows.                                 *)
(*                                                                         *)
(* The session is created with autoflush=False, so a transaction first     *)
(* runs its SELECTs, each against what is committed at that moment, and    *)
(* writes everything when it commits.  The writes start with the row of    *)
(* the camera in current_store_states, whose lock lets one transaction of  *)
(* the camera flush at a time: flush and commit are one step here.  An     *)
(* UPDATE sets the columns whose value differs from the one loaded.        *)
(* Posts overlap when two workers replay one store, when a replay thread   *)
(* outlives a job's stop_all, and when a client times out and retries.     *)
(***************************************************************************)
EXTENDS Integers, FiniteSets

CONSTANTS Handler,     \* request threads of the API
          Frame,       \* frame ids the workers use, again and again
          NoFrame,     \* a state without frame_id
          MaxTime,     \* capture times are 1..MaxTime
          MaxPeople,   \* bound on visible_person_count
          SampleTime,  \* length of a history sample (30 s)
          HourTime,    \* length of an hour
          MaxPosts     \* bound on posts

ASSUME FrameAssumption == NoFrame \notin Frame
ASSUME BoundsAssumption ==
  /\ MaxTime \in Nat \ {0} /\ MaxPeople \in Nat /\ MaxPosts \in Nat
  /\ SampleTime \in Nat \ {0} /\ HourTime \in Nat \ {0}
  /\ IsFiniteSet(Handler)

Time == 1..MaxTime
State == [frame: Frame \cup {NoFrame}, at: Time, people: 0..MaxPeople]
\* A row that is not there; its time and count are never looked at.
NoRow == [frame |-> NoFrame, at |-> 0, people |-> 0]

Sample(t) == t \div SampleTime
Hour(t) == t \div HourTime
Samples == {Sample(t) : t \in Time}
Hours == {Hour(t) : t \in Time}

NoMetric == [count |-> 0, sum |-> 0, peak |-> 0, latestAt |-> 0, latestPeople |-> 0]

VARIABLES
  current,   \* the camera's row of current_store_states
  raw,       \* store_states: rows with their ids
  history,   \* history[b]: the sample row of bucket b
  hourly,    \* hourly[h]: the metric row of hour h
  tx,        \* tx[h]: the transaction a request thread runs
  posts,     \* posts begun
  accepted,  \* rows ever inserted into store_states, deleted ones included
  last,      \* state of the last transaction that committed
  overlapped \* two transactions have run at the same time

vars == <<current, raw, history, hourly, tx, posts, accepted, last, overlapped>>
tables == <<current, raw, history, hourly>>

Idle == [pc |-> "idle", state |-> NoRow, current |-> NoRow, known |-> FALSE,
         sample |-> NoRow, metric |-> NoMetric]

Init == /\ current = NoRow
        /\ raw = {}
        /\ history = [b \in Samples |-> NoRow]
        /\ hourly = [h \in Hours |-> NoMetric]
        /\ tx = [h \in Handler |-> Idle]
        /\ posts = 0
        /\ accepted = {}
        /\ last = NoRow
        /\ overlapped = FALSE

\* What an UPDATE leaves in a row: the columns that were given another value
\* than the loaded one, the others as they are in the database now.
Updated(row, loaded, wanted) ==
  [f \in DOMAIN row |-> IF wanted[f] = loaded[f] THEN row[f] ELSE wanted[f]]
-----------------------------------------------------------------------------
(* The statements of one transaction *)

\* POST /internal/store-states, then the SELECT of the current row.
Begin(h, s) ==
  /\ tx[h].pc = "idle"
  /\ posts < MaxPosts
  /\ posts' = posts + 1
  /\ overlapped' = (overlapped \/ \E g \in Handler : tx[g].pc # "idle")
  /\ tx' = [tx EXCEPT ![h] = [Idle EXCEPT !.pc = "raw", !.state = s,
                                          !.current = current]]
  /\ UNCHANGED <<tables, accepted, last>>

\* _find_raw_store_state: by frame id, or every column without one.
SameState(r, s) == IF s.frame # NoFrame THEN r.frame = s.frame
                   ELSE r.frame = NoFrame /\ r.at = s.at /\ r.people = s.people

FindRaw(h) ==
  /\ tx[h].pc = "raw"
  /\ LET known == \E r \in raw : SameState(r, tx[h].state)
     IN tx' = [tx EXCEPT ![h].known = known,
                         ![h].pc = IF known THEN "flush" ELSE "history"]
  /\ UNCHANGED <<tables, posts, accepted, last, overlapped>>

ReadHistory(h) ==
  /\ tx[h].pc = "history"
  /\ tx' = [tx EXCEPT ![h].sample = history[Sample(tx[h].state.at)],
                      ![h].pc = "hourly"]
  /\ UNCHANGED <<tables, posts, accepted, last, overlapped>>

ReadHourly(h) ==
  /\ tx[h].pc = "hourly"
  /\ tx' = [tx EXCEPT ![h].metric = hourly[Hour(tx[h].state.at)],
                      ![h].pc = "flush"]
  /\ UNCHANGED <<tables, posts, accepted, last, overlapped>>

\* Values computed from the loaded rows

\* Mutant of NewSample: the sample takes whatever arrives.
LastArrived(loaded, s) == s

NewSample(loaded, s) == IF s.at >= loaded.at THEN s ELSE loaded

\* Mutant of NewMetric: the latest counts are taken from the last arrival.
MetricOfLastArrived(m, s) ==
  [count |-> m.count + 1, sum |-> m.sum + s.people,
   peak |-> IF s.people > m.peak THEN s.people ELSE m.peak,
   latestAt |-> s.at, latestPeople |-> s.people]

NewMetric(m, s) ==
  [count |-> m.count + 1,
   sum |-> m.sum + s.people,
   peak |-> IF s.people > m.peak THEN s.people ELSE m.peak,
   latestAt |-> IF s.at >= m.latestAt THEN s.at ELSE m.latestAt,
   latestPeople |-> IF s.at >= m.latestAt THEN s.people ELSE m.latestPeople]

\* An INSERT of a row another transaction has inserted since the SELECT is a
\* unique violation; an UPDATE goes by the loaded row.
Inserts(loaded, empty) == loaded = empty
Clashes(loaded, row, empty) == Inserts(loaded, empty) /\ row # empty
Written(loaded, row, wanted, empty) ==
  IF Inserts(loaded, empty) THEN wanted ELSE Updated(row, loaded, wanted)
\* Mutant of FrameTaken: store_states has no unique index on frame_id.
NeverTaken(s) == s.at < 0

\* The unique index on (store, camera, frame_id) of store_states.
FrameTaken(s) == s.frame # NoFrame /\ \E r \in raw : r.frame = s.frame

Violation(h) ==
  LET t == tx[h] IN
  \/ Clashes(t.current, current, NoRow)
  \/ /\ ~t.known
     /\ \/ Clashes(t.sample, history[Sample(t.state.at)], NoRow)
        \/ Clashes(t.metric, hourly[Hour(t.state.at)], NoMetric)
        \/ FrameTaken(t.state)

Row(id, s) == [id |-> id, frame |-> s.frame, at |-> s.at, people |-> s.people]

\* Mutant of CommitKnown: a known state returns before the upsert.
CommitKnownStale(h) ==
  /\ tx[h].pc = "flush" /\ tx[h].known
  /\ ~Violation(h)
  /\ last' = tx[h].state
  /\ tx' = [tx EXCEPT ![h] = Idle]
  /\ UNCHANGED <<tables, posts, accepted, overlapped>>
\* Mutant of CommitKnown: a repeated state is counted again.
CommitKnownCounted(h) ==
  LET t == tx[h]
      hr == Hour(t.state.at) IN
  /\ t.pc = "flush" /\ t.known
  /\ ~Violation(h)
  /\ current' = Written(t.current, current, t.state, NoRow)
  /\ hourly' = [hourly EXCEPT ![hr] = NewMetric(@, t.state)]
  /\ last' = t.state
  /\ tx' = [tx EXCEPT ![h] = Idle]
  /\ UNCHANGED <<raw, history, posts, accepted, overlapped>>

\* A state that is known already only refreshes the current row.
CommitKnown(h) ==
  LET t == tx[h] IN
  /\ t.pc = "flush" /\ t.known
  /\ ~Violation(h)
  /\ current' = Written(t.current, current, t.state, NoRow)
  /\ last' = t.state
  /\ tx' = [tx EXCEPT ![h] = Idle]
  /\ UNCHANGED <<raw, history, hourly, posts, accepted, overlapped>>

CommitNew(h) ==
  LET t == tx[h]
      b == Sample(t.state.at)
      hr == Hour(t.state.at)
      row == Row(Cardinality(accepted) + 1, t.state) IN
  /\ t.pc = "flush" /\ ~t.known
  /\ ~Violation(h)
  /\ current' = Written(t.current, current, t.state, NoRow)
  /\ raw' = raw \cup {row}
  /\ history' = [history EXCEPT ![b] =
                   Written(t.sample, history[b], NewSample(t.sample, t.state), NoRow)]
  /\ hourly' = [hourly EXCEPT ![hr] =
                   Written(t.metric, hourly[hr], NewMetric(t.metric, t.state), NoMetric)]
  /\ accepted' = accepted \cup {row}
  /\ last' = t.state
  /\ tx' = [tx EXCEPT ![h] = Idle]
  /\ UNCHANGED <<posts, overlapped>>

\* IntegrityError: everything is rolled back, answer 500.
Refuse(h) ==
  /\ tx[h].pc = "flush"
  /\ Violation(h)
  /\ tx' = [tx EXCEPT ![h] = Idle]
  /\ UNCHANGED <<tables, posts, accepted, last, overlapped>>

\* The API dies, or the connection drops, before the commit.
Abort(h) ==
  /\ tx[h].pc # "idle"
  /\ tx' = [tx EXCEPT ![h] = Idle]
  /\ UNCHANGED <<tables, posts, accepted, last, overlapped>>

-----------------------------------------------------------------------------
\* delete_expired_store_states: one DELETE of the raw rows before the cutoff.
Cleanup(cutoff) ==
  /\ raw' = {r \in raw : r.at >= cutoff}
  /\ UNCHANGED <<current, history, hourly, tx, posts, accepted, last, overlapped>>

Next == \/ \E h \in Handler : \/ \E s \in State : Begin(h, s)
                              \/ FindRaw(h) \/ ReadHistory(h) \/ ReadHourly(h)
                              \/ CommitKnown(h) \/ CommitNew(h)
                              \/ Refuse(h) \/ Abort(h)
        \/ \E t \in Time : Cleanup(t)

Spec == Init /\ [][Next]_vars

-----------------------------------------------------------------------------
(* Properties *)

Metric == [count: 0..MaxPosts, sum: 0..(MaxPosts * MaxPeople), peak: 0..MaxPeople,
           latestAt: 0..MaxTime, latestPeople: 0..MaxPeople]
StateRow == State \cup {NoRow}
Columns == [frame: Frame \cup {NoFrame}, at: 0..MaxTime, people: 0..MaxPeople]
RawRow == [id: 1..MaxPosts, frame: Frame \cup {NoFrame}, at: Time, people: 0..MaxPeople]

\* Every variable has its type.
TypeOK ==
  /\ current \in Columns
  /\ raw \in SUBSET RawRow
  /\ history \in [Samples -> Columns]
  /\ hourly \in [Hours -> Metric]
  /\ tx \in [Handler -> [pc: {"idle", "raw", "history", "hourly", "flush"},
                         state: StateRow, current: Columns, known: BOOLEAN,
                         sample: Columns, metric: Metric]]
  /\ posts \in 0..MaxPosts
  /\ accepted \in SUBSET RawRow
  /\ last \in StateRow
  /\ overlapped \in BOOLEAN

InHour(hr) == {r \in accepted : Hour(r.at) = hr}
InSample(b) == {r \in accepted : Sample(r.at) = b}
\* The people in all the rows of S together, one pair for each.
People(S) == Cardinality({p \in S \X (1..MaxPeople) : p[2] <= p[1].people})
LatestOf(S) == {r \in S : \A q \in S : q.at <= r.at}

\* docs/api-contract.md: a state with a frame id is stored once per camera in
\* the raw history, also when two requests look for it before either stores
\* it.
RawOnce == TypeOK /\ \A q, r \in raw : q.frame = r.frame /\ r.frame # NoFrame => q = r

\* However requests overlap, an hour never counts more observations or people
\* than were stored: lost updates only lose.
NothingOvercounted ==
  \A hr \in Hours : /\ hourly[hr].count <= Cardinality(InHour(hr))
                    /\ hourly[hr].sum <= People(InHour(hr))

\* The current row is the state received last, whatever its capture time and
\* whether it is new or repeated (db_models.py, CurrentStoreStateRecord).
CurrentIsLastReceived == current = last

\* That holds as long as no two requests of the camera overlap.
CurrentUnlessOverlap == ~overlapped => CurrentIsLastReceived

\* A 30-second sample is the latest stored state of its bucket in capture
\* order, although states arrive in any order (docs/data-retention.md).
HistoryKeepsLast ==
  ~overlapped => \A b \in Samples : InSample(b) # {} =>
    \E r \in LatestOf(InSample(b)) :
      history[b] = [frame |-> r.frame, at |-> r.at, people |-> r.people]

\* An hour's metric is the sum, the peak and the latest of all that was ever
\* stored in it, deleted raw rows included, whatever the order of arrival.
HourlyExact ==
  ~overlapped => \A hr \in Hours : LET S == InHour(hr)  m == hourly[hr] IN
    /\ m.count = Cardinality(S)
    /\ m.sum = People(S)
    /\ \A r \in S : r.people <= m.peak /\ r.at <= m.latestAt
    /\ S # {} => /\ \E r \in S : r.people = m.peak
                 /\ \E r \in LatestOf(S) : m.latestAt = r.at /\ m.latestPeople = r.people

\* What is derived from the raw rows, the samples and the hours' metrics, follows
\* them: exactly without overlap, and never with too much.
DerivedRowsFollowRaw == NothingOvercounted /\ HistoryKeepsLast /\ HourlyExact
=============================================================================
