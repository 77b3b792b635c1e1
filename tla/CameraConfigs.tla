--------------------------- MODULE CameraConfigs ---------------------------
(***************************************************************************)
(* Concurrent save_roi_config / approve_roi_config (and their scene twins) *)
(* of one camera in DatabaseRepository, on PostgreSQL at READ COMMITTED.   *)
(* Every statement sees the rows committed when it starts; FOR UPDATE and  *)
(* UPDATE lock row by row, waiting for a holder and then looking at the    *)
(* row's new state, but never at rows that were committed meanwhile.  Two  *)
(* unique indexes guard the table: (store, camera, version), and one       *)
(* approved row per (store, camera).  Configurations of different cameras  *)
(* share no row, so one camera stands for all.                             *)
(***************************************************************************)
EXTENDS Integers, FiniteSets

CONSTANTS Client,      \* request handler threads of the API
          MaxVersion,  \* bound on saved versions
          MaxFaults    \* bound on transactions the database or API aborts

ASSUME BoundsAssumption == MaxVersion \in Nat \ {0} /\ MaxFaults \in Nat

Version == 1..MaxVersion

VARIABLES rows,   \* rows[v]: committed status of version v, "none" if absent
          tx,     \* tx[c]: the transaction client c is running
          faults  \* transactions aborted so far

vars == <<rows, tx, faults>>

\* op      what the request does
\* pc      lock: SELECT ... FOR UPDATE, archive: UPDATE to archived,
\*         commit: the approved row is written but not committed
\* target  version to approve or, from archive on, to insert
\* todo    rows the running statement has yet to lock, in version order
\* locked, archived  rows it locked, and those it set to archived
\* answer  what the last request of the client was told
Idle(a) == [op |-> "none", pc |-> "idle", target |-> 0, todo |-> {},
            locked |-> {}, archived |-> {}, answer |-> a]

Init == /\ rows = [v \in Version |-> "none"]
        /\ tx = [c \in Client |-> Idle("none")]
        /\ faults = 0

Existing == {v \in Version : rows[v] # "none"}
ApprovedRows == {v \in Version : rows[v] = "approved"}
LockedByOther(c, v) == \E d \in Client \ {c} : v \in tx[d].locked
First(S, v) == v \in S /\ \A u \in S : v <= u

-----------------------------------------------------------------------------
BeginSave(c) ==
  /\ tx[c].pc = "idle"
  /\ Existing # Version
  /\ tx' = [tx EXCEPT ![c] = [Idle("none") EXCEPT !.op = "save", !.pc = "lock",
                                                  !.todo = Existing]]
  /\ UNCHANGED <<rows, faults>>

\* Mutant of BeginApprove: the version is not looked up.
ApproveUnknown(c, v) ==
  /\ tx[c].pc = "idle"
  /\ tx' = [tx EXCEPT ![c] = [Idle("none") EXCEPT !.op = "approve", !.pc = "lock",
                                                  !.target = v, !.todo = {v}]]
  /\ UNCHANGED <<rows, faults>>

\* A version nobody saved is answered with 404 and changes nothing.
BeginApprove(c, v) ==
  /\ tx[c].pc = "idle"
  /\ v \in Existing
  /\ tx' = [tx EXCEPT ![c] = [Idle("none") EXCEPT !.op = "approve", !.pc = "lock",
                                                  !.target = v, !.todo = {v}]]
  /\ UNCHANGED <<rows, faults>>

LockRow(c, v) ==
  /\ tx[c].pc = "lock"
  /\ First(tx[c].todo, v)
  /\ ~LockedByOther(c, v)
  /\ tx' = [tx EXCEPT ![c].todo = @ \ {v}, ![c].locked = @ \cup {v}]
  /\ UNCHANGED <<rows, faults>>
\* Mutant of NextVersion: any higher number, as a shared sequence gives.
HigherVersion(seen, v) == \A u \in seen : u < v

\* max of the versions read, plus one; 1 for the first.
NextVersion(seen, v) == /\ \A u \in seen : u < v
                        /\ v = 1 \/ v - 1 \in seen

\* All rows read and locked; the UPDATE starts with a snapshot of its own.
StartArchive(c, v) ==
  /\ tx[c].pc = "lock"
  /\ tx[c].todo = {}
  /\ IF tx[c].op = "save" THEN NextVersion(tx[c].locked, v) ELSE v = tx[c].target
  /\ tx' = [tx EXCEPT ![c].pc = "archive", ![c].target = v, ![c].todo = ApprovedRows]
  /\ UNCHANGED <<rows, faults>>

\* The WHERE clause, evaluated again on the locked row.
StillApproved(v) == rows[v] = "approved"

ArchiveRow(c, v) ==
  /\ tx[c].pc = "archive"
  /\ First(tx[c].todo, v)
  /\ ~LockedByOther(c, v)
  /\ tx' = [tx EXCEPT ![c].todo = @ \ {v}, ![c].locked = @ \cup {v},
                      ![c].archived = IF StillApproved(v) THEN @ \cup {v} ELSE @]
  /\ UNCHANGED <<rows, faults>>
-----------------------------------------------------------------------------
(* Writing the approved row against the two unique indexes *)

\* Transactions whose outcome decides whether the approved row is a
\* duplicate: they wrote one, or they archived the one there was.
Undecided(c) == {d \in Client \ {c} : tx[d].pc = "commit" \/ tx[d].archived # {}}
\* Mutant of Duplicate: the index on one approved row is missing.
DuplicateVersion(c) == tx[c].op = "save" /\ tx[c].target \in Existing

Duplicate(c) ==
  \/ tx[c].op = "save" /\ tx[c].target \in Existing
  \/ /\ Undecided(c) = {}
     /\ \E v \in ApprovedRows : v \notin tx[c].archived /\ v # tx[c].target

AtWrite(c) == tx[c].pc = "archive" /\ tx[c].todo = {}

WriteApproved(c) ==
  /\ AtWrite(c)
  /\ Undecided(c) = {}
  /\ ~Duplicate(c)
  /\ tx' = [tx EXCEPT ![c].pc = "commit"]
  /\ UNCHANGED <<rows, faults>>

\* A unique violation: rollback, IntegrityError, answer 500.
Refuse(c) ==
  /\ AtWrite(c)
  /\ Duplicate(c)
  /\ tx' = [tx EXCEPT ![c] = Idle("error")]
  /\ UNCHANGED <<rows, faults>>

Commit(c) ==
  /\ tx[c].pc = "commit"
  /\ rows' = [v \in Version |->
                IF v = tx[c].target THEN "approved"
                ELSE IF v \in tx[c].archived THEN "archived" ELSE rows[v]]
  /\ tx' = [tx EXCEPT ![c] = Idle("ok")]
  /\ UNCHANGED faults

\* Whom c waits for.
WaitsFor(c) ==
  IF tx[c].todo # {}
  THEN {d \in Client \ {c} : \E v \in tx[d].locked : First(tx[c].todo, v)}
  ELSE IF AtWrite(c) /\ ~Duplicate(c) THEN Undecided(c) ELSE {}
\* Mutant of OnCycle: nobody looks for deadlocks.
NoDetection(c) == c \notin Client

\* A set of transactions, c one of them, in which each waits for another one
\* and each is waited for.
OnCycle(c) == \E S \in SUBSET Client :
  /\ c \in S
  /\ \A d \in S : /\ \E e \in S : e \in WaitsFor(d)
                  /\ \E e \in S : d \in WaitsFor(e)

\* PostgreSQL aborts a transaction that closes a cycle: answer 500.
DeadlockAbort(c) ==
  /\ OnCycle(c)
  /\ tx' = [tx EXCEPT ![c] = Idle("error")]
  /\ UNCHANGED <<rows, faults>>

\* The API process or its connection dies before the commit.
Abort(c) ==
  /\ tx[c].pc # "idle"
  /\ faults < MaxFaults
  /\ faults' = faults + 1
  /\ tx' = [tx EXCEPT ![c] = Idle("error")]
  /\ UNCHANGED rows

-----------------------------------------------------------------------------
Begin(c) == BeginSave(c) \/ \E v \in Version : BeginApprove(c, v)

Step(c) == \/ \E v \in Version : LockRow(c, v) \/ StartArchive(c, v) \/ ArchiveRow(c, v)
           \/ WriteApproved(c) \/ Refuse(c) \/ Commit(c) \/ DeadlockAbort(c)

Next == \E c \in Client : Begin(c) \/ Step(c) \/ Abort(c)

Spec == Init /\ [][Next]_vars

\* Lock queues are first come, first served, so a transaction that can go on
\* again and again does go on.
FairSpec == Spec /\ \A c \in Client : SF_vars(Step(c))

-----------------------------------------------------------------------------
(* Properties *)

\* Every variable has its type.
TypeOK ==
  /\ rows \in [Version -> {"none", "approved", "archived"}]
  /\ tx \in [Client -> [op: {"none", "save", "approve"},
                        pc: {"idle", "lock", "archive", "commit"},
                        target: 0..MaxVersion, todo: SUBSET Version,
                        locked: SUBSET Version, archived: SUBSET Version,
                        answer: {"none", "ok", "error"}]]
  /\ faults \in 0..MaxFaults

\* A camera that ever had a configuration has exactly one approved version,
\* so get_approved_roi_config (LIMIT 1, no order) is never ambiguous and a
\* vision worker never falls back to the legacy zones: the FOR UPDATE locks,
\* the archiving UPDATE and the partial index together, in every interleaving.
OneApproved == Existing # {} => \E v \in Version : ApprovedRows = {v}

\* Versions are numbered 1, 2, 3, ... without a gap or a duplicate although
\* the next number is computed from rows read before others committed.
VersionsContiguous == \A v \in Existing : \A u \in 1..v : u \in Existing

\* Concurrent transactions leave the history one-at-a-time operations leave.
Versions == INSTANCE ConfigVersions WITH status <- rows
ImplementsVersions == Versions!VersionsSpec

\* Every request is answered: no set of transactions waits for itself for ever.
RequestsEnd == \A c \in Client : tx[c].pc # "idle" ~> tx[c].pc = "idle"
=============================================================================
