------------------------ MODULE CameraConfigs_proofs ------------------------
(***************************************************************************)
(* The safety properties of CameraConfigs for any number of clients and    *)
(* versions.  The inductive invariant says who holds which row and what a  *)
(* transaction that has written its approved row knows: the one committed  *)
(* approved row is the one it archives, and nobody else has written or     *)
(* archived anything.                                                      *)
(***************************************************************************)
EXTENDS CameraConfigs, TLAPS

\* Locked rows are committed rows and have one holder; archived rows are
\* locked and still the committed approved one.
LockInv ==
  /\ \A c \in Client : /\ tx[c].locked \subseteq Existing
                       /\ tx[c].archived \subseteq tx[c].locked
                       /\ tx[c].archived \subseteq ApprovedRows
                       /\ tx[c].todo \subseteq Existing
  /\ \A c, d \in Client : \A v \in Version :
       v \in tx[c].locked /\ v \in tx[d].locked => c = d

\* A save's number follows a committed one; an approval holds its row.
TargetInv ==
  \A c \in Client :
    /\ tx[c].pc \in {"archive", "commit"} => tx[c].op \in {"save", "approve"}
    /\ tx[c].pc = "lock" => tx[c].op \in {"save", "approve"} /\ tx[c].archived = {}
    /\ tx[c].op = "save" /\ tx[c].pc \in {"archive", "commit"} =>
         /\ tx[c].target \in Version
         /\ \/ tx[c].target = 1
            \/ tx[c].target - 1 \in Existing
    /\ tx[c].op = "approve" => /\ tx[c].target \in Existing
                               /\ \/ tx[c].target \in tx[c].locked
                                  \/ tx[c].pc = "lock" /\ tx[c].target \in tx[c].todo

\* What holds between the write of the approved row and the commit.
CommitInv ==
  \A c \in Client : tx[c].pc = "commit" =>
    /\ \A v \in ApprovedRows : v \in tx[c].archived \/ v = tx[c].target
    /\ tx[c].op = "save" => tx[c].target \notin Existing
    /\ \A d \in Client \ {c} : tx[d].pc # "commit" /\ tx[d].archived = {}

RowsInv == /\ \A u, v \in ApprovedRows : u = v
           /\ Existing # {} => ApprovedRows # {}
           /\ VersionsContiguous

IInv == TypeOK /\ LockInv /\ TargetInv /\ CommitInv /\ RowsInv

-----------------------------------------------------------------------------
LEMMA InitInv == Init => IInv
BY BoundsAssumption DEF Init, IInv, TypeOK, LockInv, TargetInv, CommitInv, RowsInv, Idle,
   Version, Existing, ApprovedRows, VersionsContiguous

\* A step that only changes the transaction of c.
LEMMA OwnStep ==
  ASSUME IInv, NEW c \in Client, UNCHANGED rows, faults' \in 0..MaxFaults,
         NEW r, tx' = [tx EXCEPT ![c] = r],
         r \in [op: {"none", "save", "approve"},
                pc: {"idle", "lock", "archive", "commit"},
                target: 0..MaxVersion, todo: SUBSET Version,
                locked: SUBSET Version, archived: SUBSET Version,
                answer: {"none", "ok", "error"}],
         r.locked \subseteq Existing, r.todo \subseteq Existing,
         r.archived \subseteq r.locked, r.archived \subseteq ApprovedRows,
         \A v \in r.locked : ~LockedByOther(c, v),
         r.pc \in {"archive", "commit"} => r.op \in {"save", "approve"},
         r.pc = "lock" => r.op \in {"save", "approve"} /\ r.archived = {},
         r.op = "save" /\ r.pc \in {"archive", "commit"} =>
           /\ r.target \in Version
           /\ \/ r.target = 1
              \/ r.target - 1 \in Existing,
         r.op = "approve" => /\ r.target \in Existing
                             /\ \/ r.target \in r.locked
                                \/ r.pc = "lock" /\ r.target \in r.todo,
         r.pc = "commit" =>
           /\ \A v \in ApprovedRows : v \in r.archived \/ v = r.target
           /\ r.op = "save" => r.target \notin Existing
           /\ \A d \in Client \ {c} : tx[d].pc # "commit" /\ tx[d].archived = {},
         (\E d \in Client \ {c} : tx[d].pc = "commit") => r.archived = {}
  PROVE  IInv'
<1>1. tx'[c] = r /\ \A d \in Client \ {c} : tx'[d] = tx[d]
  BY DEF IInv, TypeOK
<1>2. Existing' = Existing /\ ApprovedRows' = ApprovedRows
  BY DEF Existing, ApprovedRows
<1>3. TypeOK'
  BY DEF IInv, TypeOK
<1>4. LockInv'
  <2>1. \A d \in Client : /\ tx'[d].locked \subseteq Existing
                          /\ tx'[d].archived \subseteq tx'[d].locked
                          /\ tx'[d].archived \subseteq ApprovedRows
                          /\ tx'[d].todo \subseteq Existing
    BY <1>1 DEF IInv, LockInv
  <2>2. \A d, e \in Client : \A v \in Version :
          v \in tx'[d].locked /\ v \in tx'[e].locked => d = e
    BY <1>1 DEF IInv, LockInv, LockedByOther
  <2> QED
    BY <1>2, <2>1, <2>2 DEF LockInv
<1>5. TargetInv'
  BY <1>1, <1>2 DEF IInv, TargetInv
<1>6. CommitInv'
  BY <1>1, <1>2 DEF IInv, CommitInv
<1>7. RowsInv'
  BY <1>2 DEF IInv, RowsInv, VersionsContiguous
<1> QED
  BY <1>3, <1>4, <1>5, <1>6, <1>7 DEF IInv

\* A transaction that ends without a commit.
LEMMA RollbackStep ==
  ASSUME IInv, NEW c \in Client, NEW a \in {"none", "ok", "error"}, UNCHANGED rows,
         faults' \in 0..MaxFaults, tx' = [tx EXCEPT ![c] = Idle(a)]
  PROVE  IInv'
<1> DEFINE r == Idle(a)
<1>1. /\ r.op = "none" /\ r.pc = "idle" /\ r.locked = {} /\ r.todo = {}
      /\ r.archived = {} /\ r.target = 0
      /\ r \in [op: {"none", "save", "approve"},
                pc: {"idle", "lock", "archive", "commit"},
                target: 0..MaxVersion, todo: SUBSET Version,
                locked: SUBSET Version, archived: SUBSET Version,
                answer: {"none", "ok", "error"}]
  BY BoundsAssumption DEF Idle
<1>2. tx' = [tx EXCEPT ![c] = r]
  OBVIOUS
<1> HIDE DEF r
<1> QED
  BY <1>1, <1>2, OwnStep

-----------------------------------------------------------------------------
TxType == [op: {"none", "save", "approve"}, pc: {"idle", "lock", "archive", "commit"},
           target: 0..MaxVersion, todo: SUBSET Version, locked: SUBSET Version,
           archived: SUBSET Version, answer: {"none", "ok", "error"}]

LEMMA BeginStep == ASSUME IInv, NEW c \in Client, Begin(c) PROVE IInv'
<1>1. CASE BeginSave(c)
  <2> DEFINE r == [Idle("none") EXCEPT !.op = "save", !.pc = "lock", !.todo = Existing]
  <2>1. /\ r.op = "save" /\ r.pc = "lock" /\ r.locked = {} /\ r.archived = {}
        /\ r.todo = Existing /\ r \in TxType
    <3>1. Existing \in SUBSET Version /\ 0 \in 0..MaxVersion
      BY BoundsAssumption DEF Existing
    <3> QED
      BY <3>1 DEF Idle, TxType
  <2>2. tx' = [tx EXCEPT ![c] = r] /\ UNCHANGED rows /\ faults' \in 0..MaxFaults
    BY <1>1 DEF BeginSave, IInv, TypeOK
  <2> HIDE DEF r
  <2> QED
    BY <2>1, <2>2, OwnStep DEF TxType
<1>2. ASSUME NEW v \in Version, BeginApprove(c, v) PROVE IInv'
  <2> DEFINE r == [Idle("none") EXCEPT !.op = "approve", !.pc = "lock",
                                       !.target = v, !.todo = {v}]
  <2>1. /\ r.op = "approve" /\ r.pc = "lock" /\ r.locked = {} /\ r.archived = {}
        /\ r.todo = {v} /\ r.target = v /\ r \in TxType
    <3>1. {v} \in SUBSET Version /\ v \in 0..MaxVersion
      BY BoundsAssumption DEF Version
    <3> QED
      BY <3>1 DEF Idle, TxType
  <2>2. tx' = [tx EXCEPT ![c] = r] /\ UNCHANGED rows /\ faults' \in 0..MaxFaults
    BY <1>2 DEF BeginApprove, IInv, TypeOK
  <2>3. v \in Existing
    BY <1>2 DEF BeginApprove
  <2> HIDE DEF r
  <2> QED
    BY <2>1, <2>2, <2>3, OwnStep DEF TxType
<1> QED
  BY <1>1, <1>2 DEF Begin

LEMMA LockRowStep ==
  ASSUME IInv, NEW c \in Client, NEW v \in Version, LockRow(c, v) PROVE IInv'
<1> DEFINE r == [tx[c] EXCEPT !.todo = @ \ {v}, !.locked = @ \cup {v}]
<1>1. tx[c] \in TxType /\ tx[c].pc = "lock" /\ v \in tx[c].todo /\ ~LockedByOther(c, v)
  BY DEF IInv, TypeOK, TxType, LockRow, First
<1>2. /\ r.op = tx[c].op /\ r.pc = "lock" /\ r.locked = tx[c].locked \cup {v}
      /\ r.archived = tx[c].archived /\ r.todo = tx[c].todo \ {v}
      /\ r.target = tx[c].target /\ r \in TxType
  BY <1>1 DEF TxType
<1>3. tx' = [tx EXCEPT ![c] = r] /\ UNCHANGED rows /\ faults' \in 0..MaxFaults
  BY DEF LockRow, IInv, TypeOK
<1> HIDE DEF r
<1>4. /\ r.locked \subseteq Existing /\ r.todo \subseteq Existing
      /\ r.archived = {}
      /\ \A u \in r.locked : ~LockedByOther(c, u)
  BY <1>1, <1>2 DEF IInv, LockInv, TargetInv, LockedByOther, Existing
<1>5. /\ r.op \in {"save", "approve"}
      /\ r.op = "approve" => /\ r.target \in Existing
                             /\ \/ r.target \in r.locked
                                \/ r.pc = "lock" /\ r.target \in r.todo
  BY <1>1, <1>2 DEF IInv, TargetInv
<1> QED
  BY <1>1, <1>2, <1>3, <1>4, <1>5, OwnStep DEF TxType

LEMMA StartArchiveStep ==
  ASSUME IInv, NEW c \in Client, NEW v \in Version, StartArchive(c, v) PROVE IInv'
<1> DEFINE r == [tx[c] EXCEPT !.pc = "archive", !.target = v, !.todo = ApprovedRows]
<1>1. tx[c] \in TxType /\ tx[c].pc = "lock" /\ tx[c].todo = {}
  BY DEF IInv, TypeOK, TxType, StartArchive
<1>2. /\ r.op = tx[c].op /\ r.pc = "archive" /\ r.locked = tx[c].locked
      /\ r.archived = tx[c].archived /\ r.todo = ApprovedRows
      /\ r.target = v /\ r \in TxType
  <2>1. ApprovedRows \in SUBSET Version /\ v \in 0..MaxVersion
    BY BoundsAssumption DEF ApprovedRows, Version
  <2> QED
    BY <1>1, <2>1 DEF TxType
<1>3. tx' = [tx EXCEPT ![c] = r] /\ UNCHANGED rows /\ faults' \in 0..MaxFaults
  BY DEF StartArchive, IInv, TypeOK
<1> HIDE DEF r
<1>4. /\ r.locked \subseteq Existing /\ r.todo \subseteq Existing
      /\ r.archived = {}
      /\ \A u \in r.locked : ~LockedByOther(c, u)
  BY <1>1, <1>2 DEF IInv, LockInv, TargetInv, LockedByOther, Existing, ApprovedRows
<1>5. /\ r.op \in {"save", "approve"}
      /\ r.op = "approve" => r.target \in Existing /\ r.target \in r.locked
  BY <1>1, <1>2 DEF IInv, TargetInv, StartArchive
<1>6. r.op = "save" => \/ r.target = 1
                       \/ r.target - 1 \in Existing
  BY <1>2, <1>4 DEF StartArchive, NextVersion
<1> QED
  BY <1>1, <1>2, <1>3, <1>4, <1>5, <1>6, OwnStep DEF TxType

LEMMA ArchiveRowStep ==
  ASSUME IInv, NEW c \in Client, NEW v \in Version, ArchiveRow(c, v) PROVE IInv'
<1> DEFINE A == IF StillApproved(v) THEN tx[c].archived \cup {v} ELSE tx[c].archived
           r == [tx[c] EXCEPT !.todo = @ \ {v}, !.locked = @ \cup {v}, !.archived = A]
<1>1. tx[c] \in TxType /\ tx[c].pc = "archive" /\ v \in tx[c].todo /\ ~LockedByOther(c, v)
  BY DEF IInv, TypeOK, TxType, ArchiveRow, First
<1>2. /\ r.op = tx[c].op /\ r.pc = "archive" /\ r.locked = tx[c].locked \cup {v}
      /\ r.archived = A /\ r.todo = tx[c].todo \ {v}
      /\ r.target = tx[c].target /\ r \in TxType
  BY <1>1 DEF TxType
<1>3. tx' = [tx EXCEPT ![c] = r] /\ UNCHANGED rows /\ faults' \in 0..MaxFaults
  BY DEF ArchiveRow, IInv, TypeOK
<1>4. /\ A \subseteq tx[c].locked \cup {v} /\ A \subseteq ApprovedRows
      /\ A # {} => tx[c].archived # {} \/ v \in ApprovedRows
  BY DEF IInv, LockInv, StillApproved, ApprovedRows
<1> HIDE DEF r, A
<1>5. /\ r.locked \subseteq Existing /\ r.todo \subseteq Existing
      /\ \A u \in r.locked : ~LockedByOther(c, u)
  BY <1>1, <1>2 DEF IInv, LockInv, LockedByOther, Existing
<1>6. (\E d \in Client \ {c} : tx[d].pc = "commit") => r.archived = {}
  <2> SUFFICES ASSUME NEW d \in Client \ {c}, tx[d].pc = "commit", A # {} PROVE FALSE
    BY <1>2
  <2>1. tx[c].archived = {} /\ v \in ApprovedRows
    BY <1>4 DEF IInv, CommitInv
  <2>2. v \in tx[d].archived \/ (v = tx[d].target /\ tx[d].op # "save")
    BY <2>1 DEF IInv, CommitInv, ApprovedRows, Existing
  <2>3. v \in tx[d].locked
    BY <2>2 DEF IInv, TargetInv, LockInv
  <2> QED
    BY <2>3, <1>1 DEF LockedByOther
<1>7. TargetInv
  BY DEF IInv
<1> QED
  BY <1>1, <1>2, <1>3, <1>4, <1>5, <1>6, <1>7, OwnStep DEF TxType, TargetInv

LEMMA WriteStep == ASSUME IInv, NEW c \in Client, WriteApproved(c) PROVE IInv'
<1> DEFINE r == [tx[c] EXCEPT !.pc = "commit"]
<1>1. tx[c] \in TxType /\ tx[c].pc = "archive" /\ tx[c].todo = {} /\ Undecided(c) = {}
  BY DEF IInv, TypeOK, TxType, WriteApproved, AtWrite
<1>2. /\ r.op = tx[c].op /\ r.pc = "commit" /\ r.locked = tx[c].locked
      /\ r.archived = tx[c].archived /\ r.todo = {}
      /\ r.target = tx[c].target /\ r \in TxType
  BY <1>1 DEF TxType
<1>3. tx' = [tx EXCEPT ![c] = r] /\ UNCHANGED rows /\ faults' \in 0..MaxFaults
  BY DEF WriteApproved, IInv, TypeOK
<1> HIDE DEF r
<1>4. /\ \A v \in ApprovedRows : v \in r.archived \/ v = r.target
      /\ r.op = "save" => r.target \notin Existing
      /\ \A d \in Client \ {c} : tx[d].pc # "commit" /\ tx[d].archived = {}
  BY <1>1, <1>2 DEF WriteApproved, Duplicate, Undecided
<1>5. /\ r.locked \subseteq Existing
      /\ r.archived \subseteq r.locked /\ r.archived \subseteq ApprovedRows
      /\ \A u \in r.locked : ~LockedByOther(c, u)
  BY <1>1, <1>2 DEF IInv, LockInv, LockedByOther, Existing
<1>6. TargetInv
  BY DEF IInv
<1> QED
  BY <1>1, <1>2, <1>3, <1>4, <1>5, <1>6, OwnStep DEF TxType, TargetInv

LEMMA CommitStep == ASSUME IInv, NEW c \in Client, Commit(c) PROVE IInv'
<1> DEFINE t == tx[c].target
<1>1. /\ tx[c].pc = "commit" /\ faults' = faults
      /\ rows' = [v \in Version |-> IF v = t THEN "approved"
                                   ELSE IF v \in tx[c].archived THEN "archived" ELSE rows[v]]
      /\ tx' = [tx EXCEPT ![c] = Idle("ok")]
  BY DEF Commit
<1>2. /\ tx'[c].pc = "idle" /\ tx'[c].op = "none" /\ tx'[c].locked = {}
      /\ tx'[c].archived = {} /\ tx'[c].todo = {}
      /\ \A d \in Client \ {c} : tx'[d] = tx[d]
  BY <1>1 DEF IInv, TypeOK, Idle
<1>3. t \in Version
  BY <1>1 DEF IInv, TargetInv, Existing
<1>4. /\ Existing' = Existing \cup {t}
      /\ ApprovedRows' = {t}
  <2>1. \A v \in tx[c].archived : v \in Existing
    BY DEF IInv, LockInv
  <2>2. \A v \in ApprovedRows : v \in tx[c].archived \/ v = t
    BY <1>1 DEF IInv, CommitInv
  <2> HIDE DEF t
  <2>3. \A v \in Version : rows'[v] # "none" <=> v \in Existing \/ v = t
    BY <1>1, <2>1 DEF Existing
  <2>4. \A v \in Version : rows'[v] = "approved" <=> v = t
    BY <1>1, <2>2 DEF ApprovedRows
  <2> QED
    BY <2>3, <2>4, <1>3 DEF Existing, ApprovedRows
<1>5. \A d \in Client \ {c} : tx[d].pc # "commit" /\ tx[d].archived = {}
  BY <1>1 DEF IInv, CommitInv
<1>6. TypeOK'
  <2>1. Idle("ok") \in TxType
    BY BoundsAssumption DEF Idle, TxType
  <2>2. tx' \in [Client -> TxType]
    BY <1>1, <2>1 DEF IInv, TypeOK, TxType
  <2>3. rows' \in [Version -> {"none", "approved", "archived"}]
    BY <1>1 DEF IInv, TypeOK
  <2> QED
    BY <1>1, <2>2, <2>3 DEF IInv, TypeOK, TxType
<1> HIDE DEF t
<1>7. LockInv'
  <2>1. \A d \in Client : /\ tx'[d].locked \subseteq Existing'
                          /\ tx'[d].archived \subseteq tx'[d].locked
                          /\ tx'[d].archived \subseteq ApprovedRows'
                          /\ tx'[d].todo \subseteq Existing'
    BY <1>2, <1>4, <1>5 DEF IInv, LockInv
  <2>2. \A d, e \in Client : \A v \in Version :
          v \in tx'[d].locked /\ v \in tx'[e].locked => d = e
    BY <1>2 DEF IInv, LockInv
  <2> QED
    BY <2>1, <2>2 DEF LockInv
<1>8. TargetInv'
  BY <1>2, <1>4 DEF IInv, TargetInv
<1>9. CommitInv'
  BY <1>2, <1>5 DEF CommitInv
<1>10. RowsInv'
  <2>1. t = 1 \/ t - 1 \in Existing \/ t \in Existing
    BY <1>1 DEF t, IInv, TargetInv
  <2>2. \A v \in Existing : \A u \in 1..v : u \in Existing
    BY DEF IInv, RowsInv, VersionsContiguous
  <2>3. \A u \in 1..t : u \in Existing \cup {t}
    BY <2>1, <2>2, <1>3, BoundsAssumption DEF Version
  <2> QED
    BY <2>2, <2>3, <1>4 DEF RowsInv, VersionsContiguous
<1> QED
  BY <1>6, <1>7, <1>8, <1>9, <1>10 DEF IInv
\* Every step keeps the inductive invariant.
LEMMA NextInv == IInv /\ [Next]_vars => IInv'
<1> SUFFICES ASSUME IInv, [Next]_vars PROVE IInv'
  OBVIOUS
<1>1. CASE UNCHANGED vars
  BY <1>1 DEF vars, IInv, TypeOK, LockInv, TargetInv, CommitInv, RowsInv, Existing,
     ApprovedRows, VersionsContiguous
<1>2. ASSUME NEW c \in Client, Begin(c) PROVE IInv'
  BY <1>2, BeginStep
<1>3. ASSUME NEW c \in Client, Step(c) PROVE IInv'
  <2>1. ASSUME NEW v \in Version, LockRow(c, v) PROVE IInv'
    BY <2>1, LockRowStep
  <2>2. ASSUME NEW v \in Version, StartArchive(c, v) PROVE IInv'
    BY <2>2, StartArchiveStep
  <2>3. ASSUME NEW v \in Version, ArchiveRow(c, v) PROVE IInv'
    BY <2>3, ArchiveRowStep
  <2>4. CASE WriteApproved(c)
    BY <2>4, WriteStep
  <2>5. CASE Refuse(c)
    BY <2>5, RollbackStep DEF Refuse, IInv, TypeOK
  <2>6. CASE Commit(c)
    BY <2>6, CommitStep
  <2>7. CASE DeadlockAbort(c)
    BY <2>7, RollbackStep DEF DeadlockAbort, IInv, TypeOK
  <2> QED
    BY <1>3, <2>1, <2>2, <2>3, <2>4, <2>5, <2>6, <2>7 DEF Step
<1>4. ASSUME NEW c \in Client, Abort(c) PROVE IInv'
  <2>1. faults' \in 0..MaxFaults
    BY <1>4, BoundsAssumption DEF Abort, IInv, TypeOK
  <2> QED
    BY <1>4, <2>1, RollbackStep DEF Abort
<1> QED
  BY <1>1, <1>2, <1>3, <1>4 DEF Next

LEMMA Invariance == Spec => []IInv
BY InitInv, NextInv, PTL DEF Spec

-----------------------------------------------------------------------------
\* Every reachable state is well typed.
THEOREM TypeCorrect == Spec => []TypeOK
<1>1. IInv => TypeOK
  BY DEF IInv
<1> QED
  BY <1>1, Invariance, PTL

\* A camera that ever had a configuration has exactly one approved version.
THEOREM ExactlyOneApproved == Spec => []OneApproved
<1>1. IInv => OneApproved
  BY DEF IInv, RowsInv, OneApproved, ApprovedRows
<1> QED
  BY <1>1, Invariance, PTL

\* Versions have no gap and no duplicate.
THEOREM NoGapsInVersions == Spec => []VersionsContiguous
<1>1. IInv => VersionsContiguous
  BY DEF IInv, RowsInv
<1> QED
  BY <1>1, Invariance, PTL

\* Two transactions never stand before their commits at once: the second
\* would commit a state computed without the first.
OneWriter == \A c, d \in Client : tx[c].pc = "commit" /\ tx[d].pc = "commit" => c = d

\* No two transactions are between the write and the commit.
THEOREM WritersExclude == Spec => []OneWriter
<1>1. IInv => OneWriter
  BY DEF IInv, CommitInv, OneWriter
<1> QED
  BY <1>1, Invariance, PTL

\* What the commit of c does to the rows is one abstract operation.
LEMMA CommitIsAtomic ==
  ASSUME IInv, NEW c \in Client, Commit(c)
  PROVE  \E v \in Version : Versions!Save(v) \/ Versions!Approve(v)
<1> DEFINE t == tx[c].target
<1>1. /\ tx[c].pc = "commit"
      /\ rows' = [v \in Version |-> IF v = t THEN "approved"
                                   ELSE IF v \in tx[c].archived THEN "archived" ELSE rows[v]]
  BY DEF Commit
<1>2. t \in Version
  BY <1>1 DEF IInv, TargetInv, Existing
<1>3. rows' = Versions!Approved(t)
  <2>1. \A v \in tx[c].archived : v \in ApprovedRows
    BY DEF IInv, LockInv
  <2>2. \A v \in ApprovedRows : v \in tx[c].archived \/ v = t
    BY <1>1 DEF IInv, CommitInv
  <2> HIDE DEF t
  <2> QED
    BY <1>1, <2>1, <2>2 DEF ApprovedRows, Versions!Approved
<1>4. CASE tx[c].op = "approve"
  BY <1>2, <1>3, <1>4 DEF IInv, TargetInv, Existing, Versions!Approve
<1>5. CASE tx[c].op = "save"
  <2>1. /\ t \notin Existing
        /\ \/ t = 1
           \/ t - 1 \in Existing
        /\ \A v \in Existing : \A u \in 1..v : u \in Existing
    BY <1>1, <1>5 DEF IInv, CommitInv, TargetInv, RowsInv, VersionsContiguous
  <2> HIDE DEF t
  <2>2. \A u \in Version : u \in Existing <=> u < t
    BY <2>1, <1>2, BoundsAssumption DEF Version, Existing
  <2> QED
    BY <1>2, <1>3, <2>2 DEF Existing, Versions!Save
<1> QED
  BY <1>1, <1>4, <1>5 DEF IInv, TargetInv

\* The transactions implement the one-at-a-time version history.
THEOREM TransactionsImplementVersions == Spec => ImplementsVersions
<1>1. Init => Versions!VersionsInit
  BY DEF Init, Versions!VersionsInit
<1>2. IInv /\ [Next]_vars =>
        [\E v \in Version : Versions!Save(v) \/ Versions!Approve(v)]_rows
  <2> SUFFICES ASSUME IInv, [Next]_vars, rows' # rows
               PROVE  \E v \in Version : Versions!Save(v) \/ Versions!Approve(v)
    OBVIOUS
  <2>1. \E c \in Client : Commit(c)
    BY ZenonT(30) DEF Next, Begin, Step, BeginSave, BeginApprove, LockRow, StartArchive, ArchiveRow,
       WriteApproved, Refuse, DeadlockAbort, Abort, vars
  <2> QED
    BY <2>1, CommitIsAtomic
<1> QED
  BY <1>1, <1>2, Invariance, PTL DEF Spec, ImplementsVersions, Versions!VersionsSpec
=============================================================================
