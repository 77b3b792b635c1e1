------------------------ MODULE StoreAccounts_proofs ------------------------
(***************************************************************************)
(* The safety properties of StoreAccounts for any number of requests,      *)
(* addresses and names.  The inductive invariant says which request an     *)
(* account and a store belong to and where that request is (UserInv,       *)
(* RowInv), that numbers stay below the number of requests begun (IdInv),  *)
(* that the store of an account, of a creation and of a deletion is its    *)
(* own (OwnInv), and who still cleans up what (CleanInv).                  *)
(*                                                                         *)
(* Who a question is asked of, once the stores are there, is KakaoChannel; *)
(* its safety property is proved in the last part, for any customers and   *)
(* messages: what a message knows at its step (its session, the list it    *)
(* shows) is what the channel knew when it was served.                     *)
(***************************************************************************)
EXTENDS StoreAccounts, KakaoChannel, FiniteSetTheorems, WellFoundedInduction, NaturalsInduction, TLAPS

Results == {"none", "created", "deleted", "conflict", "refused", "failed", "broken"}

ReqRecord == [pc: Steps, hq: BOOLEAN, email: Email \cup {""}, name: Name \cup {""},
              id: 0..MaxId, uid: Request \cup {""}, result: Results]

\* What a request knows at a step.
ReqInv ==
  /\ req \in [Request -> ReqRecord]
  /\ \A r \in Request :
       /\ req[r].pc = "insert" => req[r].name \in Name /\ req[r].id > 0
       /\ req[r].pc \in {"insert", "lookup", "create"} => req[r].email \in Email
       /\ req[r].pc \in {"new", "insert", "undo"} => ~req[r].hq
       /\ req[r].pc \in {"delete", "store"} => req[r].uid \in Request

\* Numbers are given out one by one at most.
Begun == {r \in Request : req[r].pc # "new"}
IdInv ==
  /\ \A s \in rows : s.id <= Cardinality(Begun)
  /\ \A u \in users : u.store <= Cardinality(Begun)
  /\ \A r \in Request : req[r].id <= Cardinality(Begun)

\* An account belongs to a request that has created it; a deletion knows the
\* account's store, and has removed the account before it removes the store.
UserRecord == [uid: Request, email: Email, role: {"none", "store_manager", "admin"}, store: 0..MaxId]

UserTyped == users \in SUBSET UserRecord
UserBegun == \A u \in users : req[u.uid].pc \in {"claims", "reload", "remove", "undo", "over", "ended"}
UserSet ==
  \A u \in users :
    /\ At(u.uid, "claims") => u.role = "none"
    /\ At(u.uid, "reload") => u.role # "none" /\ u.store = req[u.uid].id
DeletionKnows ==
  \A d \in Request : At(d, "delete") =>
    /\ \A u \in users : u.uid = req[d].uid => u.role = "store_manager" /\ u.store = req[d].id
    /\ req[req[d].uid].pc \in {"claims", "reload", "remove", "undo", "over", "ended"}
DeletionHasRemoved ==
  \A d \in Request : At(d, "store") =>
    /\ \A u \in users : u.uid # req[d].uid
    /\ req[req[d].uid].pc \in {"claims", "reload", "remove", "undo", "over", "ended"}
    /\ \A e \in Request : At(e, "store") /\ req[e].uid = req[d].uid => e = d

UserInv == UserTyped /\ UserBegun /\ UserSet /\ DeletionKnows /\ DeletionHasRemoved

\* A store belongs to a manager's creation that has inserted it.
RowInv ==
  \A s \in rows :
    /\ req[s.by].pc \in {"lookup", "create", "claims", "reload", "remove", "undo", "ended"}
    /\ req[s.by].id = s.id /\ ~req[s.by].hq

\* A store of number n that request r has inserted.
HasStore(r, n) == \E s \in rows : s.id = n /\ s.by = r

\* With one fault at most, and no account deleted too early, the store that a
\* creation works on, an account names or a deletion is about to remove is its own.
OwnInv ==
  faults <= 1 /\ ~early =>
    /\ \A u \in users : u.role = "store_manager" => HasStore(u.uid, u.store)
    /\ \A r \in Request :
         /\ req[r].pc \in {"lookup", "create", "claims", "reload", "remove", "undo"} /\ ~req[r].hq
              => HasStore(r, req[r].id)
         /\ At(r, "store") => At(req[r].uid, "ended") /\ HasStore(req[r].uid, req[r].id)
         /\ At(r, "undo") => \A u \in User(r) : u.role # "store_manager"
         /\ At(r, "remove") => \A u \in User(r) : u.role = "store_manager" => faults = 1

\* Without a fault, a store has its account or a request at work on it, an account
\* without a role is about to get one, and what is undone has no account.
CleanInv ==
  faults = 0 =>
    /\ \A s \in rows :
         \/ ~At(s.by, "ended")
         \/ \E u \in users : u.uid = s.by /\ u.store = s.id
         \/ \E d \in Request : At(d, "store") /\ req[d].id = s.id
    /\ \A u \in users : u.role = "none" => At(u.uid, "claims")
    /\ \A r \in Request :
         /\ req[r].pc \in {"undo", "over"} => User(r) = {}
         /\ req[r].result = "failed" => At(r, "ended") /\ User(r) = {} /\ \A s \in rows : s.by # r

IInv == TypeOK /\ ReqInv /\ IdInv /\ UserInv /\ RowInv /\ OwnInv /\ CleanInv

-----------------------------------------------------------------------------
(* Steps of a request *)

\* Request r goes to step p, with result res; it keeps the rest of what it knows.
Moves(r, p, res) ==
  /\ req' \in [Request -> ReqRecord]
  /\ \A o \in Request : o # r => req'[o] = req[o]
  /\ req'[r].pc = p /\ req'[r].result = res
  /\ req'[r].hq = req[r].hq /\ req'[r].email = req[r].email /\ req'[r].name = req[r].name
  /\ req'[r].id = req[r].id /\ req'[r].uid = req[r].uid

\* Records r and q agree but for the step, or but for the result.
SameBesides(f, r, q) ==
  /\ f # "pc" => r.pc = q.pc
  /\ r.hq = q.hq /\ r.email = q.email /\ r.name = q.name /\ r.id = q.id /\ r.uid = q.uid
  /\ f # "result" => r.result = q.result

LEMMA StepField ==
  ASSUME NEW q \in ReqRecord, NEW p \in Steps
  PROVE  [q EXCEPT !.pc = p] \in ReqRecord /\ [q EXCEPT !.pc = p].pc = p
         /\ SameBesides("pc", [q EXCEPT !.pc = p], q)
BY DEF ReqRecord, SameBesides

LEMMA ResultField ==
  ASSUME NEW q \in ReqRecord, NEW res \in Results
  PROVE  [q EXCEPT !.result = res] \in ReqRecord /\ [q EXCEPT !.result = res].result = res
         /\ SameBesides("result", [q EXCEPT !.result = res], q)
BY DEF ReqRecord, SameBesides

LEMMA GoMoves ==
  ASSUME ReqInv, NEW r \in Request, NEW p \in Steps, Go(r, p) PROVE Moves(r, p, req[r].result)
<1> DEFINE q == req[r]
           n == [q EXCEPT !.pc = p]
<1>1. req \in [Request -> ReqRecord] /\ q \in ReqRecord
  BY DEF ReqInv
<1>2. req' = [req EXCEPT ![r] = n]
  BY DEF Go
<1>3. n \in ReqRecord /\ n.pc = p /\ SameBesides("pc", n, q)
  <2> HIDE DEF q
  <2> QED
    BY <1>1, StepField
<1> HIDE DEF n
<1> QED
  BY <1>1, <1>2, <1>3 DEF Moves, SameBesides

LEMMA EndMoves ==
  ASSUME ReqInv, NEW r \in Request, NEW res \in Results, End(r, res) PROVE Moves(r, "ended", res)
<1> DEFINE q == req[r]
           m == [q EXCEPT !.pc = "ended"]
           n == [m EXCEPT !.result = res]
<1>1. req \in [Request -> ReqRecord] /\ q \in ReqRecord
  BY DEF ReqInv
<1>2. req' = [req EXCEPT ![r] = n]
  BY DEF End
<1>3. m \in ReqRecord /\ m.pc = "ended" /\ SameBesides("pc", m, q)
  <2> HIDE DEF q
  <2> QED
    BY <1>1, StepField DEF Steps
<1>4. n \in ReqRecord /\ n.result = res /\ SameBesides("result", n, m)
  <2> HIDE DEF q, m
  <2> QED
    BY <1>3, ResultField
<1> HIDE DEF m, n
<1> QED
  BY <1>1, <1>2, <1>3, <1>4 DEF Moves, SameBesides

LEMMA FailCounts == ASSUME TypeOK, Fail PROVE faults \in Nat /\ faults' = faults + 1 /\ faults' \in 0..MaxFaults
BY BoundsAssumption DEF TypeOK, Fail

LEMMA MaxIdNat == MaxId \in Nat
BY BoundsAssumption, FS_CardinalityType DEF MaxId

LEMMA BegunNat == Cardinality(Begun) \in Nat
BY BoundsAssumption, FS_Subset, FS_CardinalityType DEF Begun

LEMMA UserFields ==
  ASSUME IInv
  PROVE  \A u \in users : /\ u.uid \in Request /\ u.email \in Email /\ u.store \in 0..MaxId
                          /\ u.role \in {"none", "store_manager", "admin"}
BY DEF IInv, TypeOK

\* Setting the claims of r's account leaves the other accounts alone.
LEMMA ClaimedFacts ==
  ASSUME IInv, NEW r \in Request
  PROVE  /\ Claimed(r) \in SUBSET UserRecord
         /\ \A v \in Claimed(r) : \E u \in users :
              /\ v.uid = u.uid /\ v.email = u.email
              /\ u.uid # r => v = u
              /\ u.uid = r => /\ v.role = IF req[r].hq THEN "admin" ELSE "store_manager"
                              /\ v.store = req[r].id
         /\ \A u \in users : \E v \in Claimed(r) :
              /\ v.uid = u.uid /\ v.email = u.email
              /\ u.uid # r => v = u
              /\ u.uid = r => v.store = req[r].id
<1> DEFINE role == IF req[r].hq THEN "admin" ELSE "store_manager"
           F(u) == IF u.uid # r THEN u ELSE [u EXCEPT !.role = role, !.store = req[r].id]
<1>1. ASSUME NEW u \in users
      PROVE  /\ F(u) \in UserRecord /\ F(u).uid = u.uid /\ F(u).email = u.email
             /\ u.uid # r => F(u) = u
             /\ u.uid = r => F(u).role = role /\ F(u).store = req[r].id
  <2>1. u \in UserRecord /\ role \in {"none", "store_manager", "admin"} /\ req[r].id \in 0..MaxId
    BY DEF IInv, UserInv, UserTyped, TypeOK
  <2> HIDE DEF role
  <2> QED
    BY <2>1 DEF UserRecord
<1>2. Claimed(r) = {F(u) : u \in users}
  BY DEF Claimed
<1> HIDE DEF F
<1> QED
  BY <1>1, <1>2

LEMMA ClaimedTwins ==
  ASSUME IInv, NEW r \in Request, NEW u \in Claimed(r), NEW v \in Claimed(r), u.email = v.email \/ u.uid = v.uid
  PROVE  u = v
<1>1. \A a, b \in users : a.email = b.email \/ a.uid = b.uid => a = b
  BY DEF IInv, TypeOK
<1>2. PICK a \in users : u = IF a.uid # r THEN a
                            ELSE [a EXCEPT !.role = IF req[r].hq THEN "admin" ELSE "store_manager",
                                           !.store = req[r].id]
  BY DEF Claimed
<1>3. PICK b \in users : v = IF b.uid # r THEN b
                            ELSE [b EXCEPT !.role = IF req[r].hq THEN "admin" ELSE "store_manager",
                                           !.store = req[r].id]
  BY DEF Claimed
<1>4. a \in UserRecord /\ b \in UserRecord
  BY DEF IInv, UserInv, UserTyped
<1>5. u.uid = a.uid /\ u.email = a.email /\ v.uid = b.uid /\ v.email = b.email
  BY <1>2, <1>3, <1>4 DEF UserRecord
<1> QED
  BY <1>1, <1>2, <1>3, <1>5

\* A step after the first leaves the numbers below the requests begun.
LEMMA SameBegun ==
  ASSUME NEW r \in Request, NEW p, NEW res, Moves(r, p, res), ~At(r, "new"), p # "new"
  PROVE  Begun' = Begun
BY DEF Moves, At, Begun

-----------------------------------------------------------------------------
LEMMA InsertStoreStep == ASSUME IInv, NEW r \in Request, InsertStore(r) PROVE IInv'
<1>1. /\ At(r, "insert") /\ UNCHANGED <<users, early>>
     /\ LET stored == rows \cup {[id |-> req[r].id, name |-> req[r].name, by |-> r]}
        IN \/ rows' = rows /\ Moves(r, "ended", "conflict") /\ faults' = faults
           \/ /\ rows' = stored /\ Moves(r, "lookup", req[r].result) /\ faults' = faults
              /\ \A s \in rows : s.id # req[r].id /\ s.name # req[r].name
           \/ /\ rows' = stored /\ Moves(r, "ended", "broken") /\ Fail
              /\ \A s \in rows : s.id # req[r].id /\ s.name # req[r].name
           \/ rows' = rows /\ Moves(r, "ended", "broken") /\ Fail
  BY GoMoves, EndMoves DEF InsertStore, Works, IInv, Steps, Results, AfterFailure
<1>2. faults' \in 0..MaxFaults /\ faults \in Nat /\ (faults' = faults \/ faults' = faults + 1)
  BY <1>1, FailCounts DEF IInv, TypeOK
<1>3. Begun' = Begun
  BY <1>1, SameBegun DEF At, AfterFailure
<1>4. TypeOK'
  <2>1. \A u \in users' : /\ u.uid \in Request /\ u.email \in Email /\ u.store \in 0..MaxId
                          /\ u.role \in {"none", "store_manager", "admin"}
    BY <1>1 DEF IInv, TypeOK
  <2>2. \A s \in rows' : s.id \in 1..MaxId /\ s.name \in Name /\ s.by \in Request
    <3>1. req[r] \in ReqRecord /\ req[r].name \in Name /\ req[r].id > 0
      BY <1>1 DEF IInv, ReqInv, At
    <3>a. req[r].id \in 0..MaxId
      BY <3>1 DEF ReqRecord
    <3>2. req[r].id \in 1..MaxId
      BY <3>1, <3>a, MaxIdNat
    <3> QED
      BY <1>1, <3>1, <3>2 DEF IInv, TypeOK
  <2>3. \A u, v \in users' : u.email = v.email \/ u.uid = v.uid => u = v
    BY <1>1 DEF IInv, TypeOK
  <2>4. \A s, t \in rows' : s.id = t.id \/ s.name = t.name => s = t
    BY <1>1 DEF IInv, TypeOK
  <2>5. \A o \in Request : req'[o] \in ReqRecord
    BY <1>1 DEF Moves
  <2>6. early' \in BOOLEAN
    BY <1>1 DEF IInv, TypeOK
  <2> QED
    BY <1>2, <2>1, <2>2, <2>3, <2>4, <2>5, <2>6 DEF TypeOK, ReqRecord, Results
<1>5. ReqInv'
  BY <1>1 DEF IInv, ReqInv, At, Moves
<1>6. IdInv'
  BY <1>1, <1>3 DEF IInv, IdInv, Moves
<1>7. UserInv'
  <2>1. UserTyped'
    BY <1>1 DEF IInv, ReqInv, UserInv, UserTyped, UserRecord, At, Moves, User
  <2>2. UserBegun'
    BY <1>1, UserFields DEF IInv, ReqInv, UserInv, UserTyped, UserBegun, At, Moves, User
  <2>3. UserSet'
    BY <1>1, UserFields DEF IInv, ReqInv, UserInv, UserTyped, UserSet, UserBegun, At, Moves, User
  <2>4. DeletionKnows'
    BY <1>1, UserFields DEF IInv, ReqInv, UserInv, UserTyped, DeletionKnows, UserBegun, At, Moves, User
  <2>5. DeletionHasRemoved'
    BY <1>1, UserFields DEF IInv, ReqInv, UserInv, UserTyped, DeletionHasRemoved, UserBegun, At, Moves, User
  <2> QED
    BY <2>1, <2>2, <2>3, <2>4, <2>5 DEF UserInv
<1>8. RowInv'
  BY <1>1 DEF IInv, TypeOK, ReqInv, RowInv, At, Moves
<1>9. OwnInv'
  <2> DEFINE Own == /\ \A u \in users : u.role = "store_manager" => HasStore(u.uid, u.store)
                    /\ \A o \in Request :
                         /\ req[o].pc \in {"lookup", "create", "claims", "reload", "remove", "undo"} /\ ~req[o].hq
                              => HasStore(o, req[o].id)
                         /\ At(o, "store") => At(req[o].uid, "ended") /\ HasStore(req[o].uid, req[o].id)
                         /\ At(o, "undo") => \A u \in User(o) : u.role # "store_manager"
                         /\ At(o, "remove") => \A u \in User(o) : u.role = "store_manager" => faults = 1
  <2> SUFFICES ASSUME faults' <= 1, ~early' PROVE Own'
    BY DEF OwnInv
  <2>0. faults <= 1 /\ ~early /\ Own
    BY <1>1, <1>2 DEF IInv, TypeOK, OwnInv
  <2>1. \A o, n : HasStore(o, n) => HasStore(o, n)'
    BY <1>1 DEF HasStore
  <2>7. \A o \in Request : At(o, "store") => req[o].uid \in Request
    BY DEF IInv, ReqInv, At
  <2>2. \A u \in users' : u.role = "store_manager" => HasStore(u.uid, u.store)'
    BY <1>1, <2>0, <2>1
  <2>3. ASSUME NEW o \in Request,
              req'[o].pc \in {"lookup", "create", "claims", "reload", "remove", "undo"}, ~req'[o].hq
       PROVE  HasStore(o, req[o].id)'
    <3>1. CASE o # r
      BY <1>1, <2>3, <2>0, <2>1, <3>1 DEF Moves, HasStore
    <3>2. CASE o = r
      <4>1. rows' = rows \cup {[id |-> req[r].id, name |-> req[r].name, by |-> r]} /\ req'[r].id = req[r].id
        BY <1>1, <2>3, <3>2 DEF Moves
      <4> DEFINE new == [id |-> req[r].id, name |-> req[r].name, by |-> r]
      <4>2. new \in rows' /\ new.id = req'[r].id /\ new.by = r
        BY <4>1
      <4> HIDE DEF new
      <4> QED
        BY <3>2, <4>2 DEF HasStore
    <3> QED
      BY <3>1, <3>2
  <2>4. ASSUME NEW o \in Request, At(o, "store")'
       PROVE  At(req[o].uid, "ended")' /\ HasStore(req[o].uid, req[o].id)'
    BY <1>1, <2>4, <2>0, <2>1, <2>7 DEF At, Moves
  <2>5. ASSUME NEW o \in Request, At(o, "undo")' PROVE \A u \in User(o)' : u.role # "store_manager"
    BY <1>1, <2>5, <2>0 DEF At, Moves, User
  <2>6. ASSUME NEW o \in Request, At(o, "remove")' PROVE \A u \in User(o)' : u.role = "store_manager" => faults' = 1
    BY <1>1, <1>2, <2>6, <2>0 DEF At, Moves, User
  <2> QED
    BY <2>2, <2>3, <2>4, <2>5, <2>6
<1>10. CleanInv'
  <2> SUFFICES ASSUME faults' = 0 PROVE CleanInv'
    BY DEF CleanInv
  <2>0. /\ \A s \in rows :
             \/ ~At(s.by, "ended")
             \/ \E u \in users : u.uid = s.by /\ u.store = s.id
             \/ \E d \in Request : At(d, "store") /\ req[d].id = s.id
        /\ \A u \in users : u.role = "none" => At(u.uid, "claims")
        /\ \A o \in Request :
             /\ req[o].pc \in {"undo", "over"} => User(o) = {}
             /\ req[o].result = "failed" => At(o, "ended") /\ User(o) = {} /\ \A s \in rows : s.by # o
    BY <1>1, <1>2, FailCounts DEF IInv, TypeOK, CleanInv
  <2>1. /\ \A u \in users : u.uid \in Request /\ req[u.uid].pc \in {"claims", "reload", "remove", "undo", "over", "ended"}
        /\ \A s \in rows : s.by \in Request
                           /\ req[s.by].pc \in {"lookup", "create", "claims", "reload", "remove", "undo", "ended"}
    BY DEF IInv, TypeOK, UserInv, UserBegun, RowInv
  <2>2. \/ rows' = rows /\ Moves(r, "ended", "conflict")
        \/ /\ rows' = rows \cup {[id |-> req[r].id, name |-> req[r].name, by |-> r]}
           /\ Moves(r, "lookup", req[r].result)
    BY <1>1, <1>2, FailCounts DEF IInv
  <2>3. ASSUME NEW s \in rows'
        PROVE  \/ ~At(s.by, "ended")'
               \/ \E u \in users' : u.uid = s.by /\ u.store = s.id
               \/ \E d \in Request : At(d, "store")' /\ req'[d].id = s.id
    <3>1. CASE s \in rows
      BY <1>1, <2>0, <2>1, <2>2, <3>1 DEF At, Moves
    <3>2. CASE s \notin rows
      BY <2>2, <2>3, <3>2 DEF At, Moves
    <3> QED
      BY <3>1, <3>2
  <2>4. \A u \in users' : u.role = "none" => At(u.uid, "claims")'
    BY <1>1, <2>0, <2>1, <2>2 DEF At, Moves
  <2>5. \A o \in Request : req'[o].pc \in {"undo", "over"} => User(o)' = {}
    BY <1>1, <2>0, <2>1, <2>2 DEF At, Moves, User
  <2>6. \A o \in Request : req'[o].result = "failed" =>
          At(o, "ended")' /\ User(o)' = {} /\ \A s \in rows' : s.by # o
    BY <1>1, <2>0, <2>1, <2>2 DEF At, Moves, User
  <2> QED
    BY <2>3, <2>4, <2>5, <2>6 DEF CleanInv
<1> QED
  BY <1>4, <1>5, <1>6, <1>7, <1>8, <1>9, <1>10 DEF IInv

LEMMA LookUpEmailStep == ASSUME IInv, NEW r \in Request, LookUpEmail(r) PROVE IInv'
<1>1. /\ At(r, "lookup") /\ UNCHANGED <<users, rows, early>>
     /\ \/ Moves(r, AfterFailure(r), req[r].result) /\ faults' = faults
        \/ Moves(r, "create", req[r].result) /\ faults' = faults
        \/ Moves(r, AfterFailure(r), req[r].result) /\ Fail
  BY GoMoves, EndMoves DEF LookUpEmail, Works, IInv, Steps, Results, AfterFailure
<1>2. faults' \in 0..MaxFaults /\ faults \in Nat /\ (faults' = faults \/ faults' = faults + 1)
  BY <1>1, FailCounts DEF IInv, TypeOK
<1>3. Begun' = Begun
  BY <1>1, SameBegun DEF At, AfterFailure
<1>4. TypeOK'
  BY <1>1, <1>2 DEF IInv, TypeOK, ReqInv, UserInv, User, At, Moves, Steps, ReqRecord, AfterFailure
<1>5. ReqInv'
  BY <1>1 DEF IInv, ReqInv, At, Moves, AfterFailure
<1>6. IdInv'
  BY <1>1, <1>3 DEF IInv, IdInv, Moves
<1>7. UserInv'
  <2>1. UserTyped'
    BY <1>1 DEF IInv, ReqInv, UserInv, UserTyped, UserRecord, At, Moves, User, AfterFailure
  <2>2. UserBegun'
    BY <1>1, UserFields DEF IInv, ReqInv, UserInv, UserTyped, UserBegun, At, Moves, User, AfterFailure
  <2>3. UserSet'
    BY <1>1, UserFields DEF IInv, ReqInv, UserInv, UserTyped, UserSet, UserBegun, At, Moves, User, AfterFailure
  <2>4. DeletionKnows'
    BY <1>1, UserFields DEF IInv, ReqInv, UserInv, UserTyped, DeletionKnows, UserBegun, At, Moves, User, AfterFailure
  <2>5. DeletionHasRemoved'
    BY <1>1, UserFields DEF IInv, ReqInv, UserInv, UserTyped, DeletionHasRemoved, UserBegun, At, Moves, User, AfterFailure
  <2> QED
    BY <2>1, <2>2, <2>3, <2>4, <2>5 DEF UserInv
<1>8. RowInv'
  BY <1>1 DEF IInv, TypeOK, ReqInv, RowInv, At, Moves, AfterFailure
<1>9. OwnInv'
  <2> SUFFICES ASSUME faults' <= 1, ~early'
               PROVE  /\ \A u \in users' : u.role = "store_manager" => HasStore(u.uid, u.store)'
                      /\ \A o \in Request :
                           /\ req'[o].pc \in {"lookup", "create", "claims", "reload", "remove", "undo"} /\ ~req'[o].hq
                                => HasStore(o, req[o].id)'
                           /\ At(o, "store")' => At(req[o].uid, "ended")' /\ HasStore(req[o].uid, req[o].id)'
                           /\ At(o, "undo")' => \A u \in User(o)' : u.role # "store_manager"
                           /\ At(o, "remove")' => \A u \in User(o)' : u.role = "store_manager" => faults' = 1
    BY DEF OwnInv
  <2>0. /\ faults <= 1 /\ ~early
        /\ \A u \in users : u.role = "store_manager" => HasStore(u.uid, u.store)
        /\ \A o \in Request :
             /\ req[o].pc \in {"lookup", "create", "claims", "reload", "remove", "undo"} /\ ~req[o].hq
                  => HasStore(o, req[o].id)
             /\ At(o, "store") => At(req[o].uid, "ended") /\ HasStore(req[o].uid, req[o].id)
             /\ At(o, "undo") => \A u \in User(o) : u.role # "store_manager"
             /\ At(o, "remove") => \A u \in User(o) : u.role = "store_manager" => faults = 1
    BY <1>1, <1>2 DEF IInv, TypeOK, OwnInv
  <2>1. \A o, n : HasStore(o, n)' <=> HasStore(o, n)
    BY <1>1 DEF HasStore
  <2>7. \A o \in Request : At(o, "store") => req[o].uid \in Request
    BY DEF IInv, ReqInv, At
  <2>a. /\ AfterFailure(r) \in {"undo", "over"} /\ (AfterFailure(r) = "undo" => ~req[r].hq)
        /\ User(r) = {}
    BY <1>1 DEF AfterFailure, IInv, UserInv, UserBegun, User, At, ReqInv
  <2>2. \A u \in users' : u.role = "store_manager" => HasStore(u.uid, u.store)'
    BY <1>1, <2>0, <2>1
  <2>3. ASSUME NEW o \in Request,
              req'[o].pc \in {"lookup", "create", "claims", "reload", "remove", "undo"}, ~req'[o].hq
       PROVE  HasStore(o, req[o].id)'
    BY <1>1, <2>0, <2>1, <2>3, <2>a DEF At, Moves
  <2>4. ASSUME NEW o \in Request, At(o, "store")'
       PROVE  At(req[o].uid, "ended")' /\ HasStore(req[o].uid, req[o].id)'
    BY <1>1, <2>0, <2>1, <2>4, <2>7, <2>a DEF At, Moves
  <2>5. ASSUME NEW o \in Request, At(o, "undo")' PROVE \A u \in User(o)' : u.role # "store_manager"
    BY <1>1, <2>0, <2>5, <2>a DEF At, Moves, User
  <2>6. ASSUME NEW o \in Request, At(o, "remove")' PROVE \A u \in User(o)' : u.role = "store_manager" => faults' = 1
    BY <1>1, <1>2, <2>0, <2>6, <2>a DEF At, Moves, User
  <2> QED
    BY <2>2, <2>3, <2>4, <2>5, <2>6
<1>10. CleanInv'
  <2> SUFFICES ASSUME faults' = 0 PROVE CleanInv'
    BY DEF CleanInv
  <2>0. /\ \A s \in rows :
             \/ ~At(s.by, "ended")
             \/ \E u \in users : u.uid = s.by /\ u.store = s.id
             \/ \E d \in Request : At(d, "store") /\ req[d].id = s.id
        /\ \A u \in users : u.role = "none" => At(u.uid, "claims")
        /\ \A o \in Request :
             /\ req[o].pc \in {"undo", "over"} => User(o) = {}
             /\ req[o].result = "failed" => At(o, "ended") /\ User(o) = {} /\ \A s \in rows : s.by # o
    BY <1>1, <1>2, FailCounts DEF IInv, TypeOK, CleanInv
  <2>1. /\ \A u \in users : u.uid \in Request /\ req[u.uid].pc \in {"claims", "reload", "remove", "undo", "over", "ended"}
        /\ \A s \in rows : s.by \in Request
                           /\ req[s.by].pc \in {"lookup", "create", "claims", "reload", "remove", "undo", "ended"}
    BY DEF IInv, TypeOK, UserInv, UserBegun, RowInv
  <2>2. Moves(r, AfterFailure(r), req[r].result) \/ Moves(r, "create", req[r].result)
    BY <1>1, <1>2, FailCounts DEF IInv
  <2>a. AfterFailure(r) \in {"undo", "over"} /\ User(r) = {}
    BY <1>1, <2>1 DEF AfterFailure, User, At
  <2>3. ASSUME NEW s \in rows'
        PROVE  \/ ~At(s.by, "ended")'
               \/ \E u \in users' : u.uid = s.by /\ u.store = s.id
               \/ \E d \in Request : At(d, "store")' /\ req'[d].id = s.id
    BY <2>a, <2>3, <1>1, <2>0, <2>1, <2>2 DEF At, Moves
  <2>4. \A u \in users' : u.role = "none" => At(u.uid, "claims")'
    BY <2>a, <1>1, <2>0, <2>1, <2>2 DEF At, Moves
  <2>5. \A o \in Request : req'[o].pc \in {"undo", "over"} => User(o)' = {}
    BY <2>a, <1>1, <2>0, <2>1, <2>2 DEF At, Moves, User
  <2>6. \A o \in Request : req'[o].result = "failed" =>
          At(o, "ended")' /\ User(o)' = {} /\ \A s \in rows' : s.by # o
    BY <2>a, <1>1, <2>0, <2>1, <2>2 DEF At, Moves, User
  <2> QED
    BY <2>3, <2>4, <2>5, <2>6 DEF CleanInv
<1> QED
  BY <1>4, <1>5, <1>6, <1>7, <1>8, <1>9, <1>10 DEF IInv

LEMMA CreateUserStep == ASSUME IInv, NEW r \in Request, CreateUser(r) PROVE IInv'
<1>1. /\ At(r, "create") /\ UNCHANGED <<rows, early>>
     /\ LET made == users \cup {Fresh(r, req[r].email)}
            free == \A u \in users : u.email # req[r].email
        IN \/ free /\ users' = made /\ Moves(r, "claims", req[r].result) /\ faults' = faults
           \/ users' = users /\ Moves(r, AfterFailure(r), req[r].result) /\ faults' = faults
           \/ free /\ users' = made /\ Moves(r, AfterFailure(r), req[r].result) /\ Fail
           \/ users' = users /\ Moves(r, AfterFailure(r), req[r].result) /\ Fail
  BY GoMoves, EndMoves DEF CreateUser, Works, IInv, Steps, Results, AfterFailure
<1>2. faults' \in 0..MaxFaults /\ faults \in Nat /\ (faults' = faults \/ faults' = faults + 1)
  BY <1>1, FailCounts DEF IInv, TypeOK
<1>3. Begun' = Begun
  BY <1>1, SameBegun DEF At, AfterFailure
<1>4. TypeOK'
  <2>1. \A u \in users' : /\ u.uid \in Request /\ u.email \in Email /\ u.store \in 0..MaxId
                          /\ u.role \in {"none", "store_manager", "admin"}
    BY <1>1, UserFields, MaxIdNat DEF IInv, ReqInv, At, Fresh, NoStore
  <2>2. \A s \in rows' : s.id \in 1..MaxId /\ s.name \in Name /\ s.by \in Request
    BY <1>1 DEF IInv, TypeOK
  <2>3. \A u, v \in users' : u.email = v.email \/ u.uid = v.uid => u = v
    BY <1>1 DEF IInv, TypeOK, UserInv, UserBegun, At, Fresh
  <2>4. \A s, t \in rows' : s.id = t.id \/ s.name = t.name => s = t
    BY <1>1 DEF IInv, TypeOK
  <2>5. \A o \in Request : req'[o] \in ReqRecord
    BY <1>1 DEF Moves
  <2>6. early' \in BOOLEAN
    BY <1>1 DEF IInv, TypeOK
  <2> QED
    BY <1>2, <2>1, <2>2, <2>3, <2>4, <2>5, <2>6 DEF TypeOK, ReqRecord, Results
<1>5. ReqInv'
  BY <1>1 DEF IInv, ReqInv, At, Moves, AfterFailure
<1>6. IdInv'
  BY <1>1, BegunNat, <1>3 DEF IInv, IdInv, Moves, Fresh, NoStore
<1>7. UserInv'
  <2>1. UserTyped'
    <3>1. users \in SUBSET UserRecord /\ req[r].email \in Email
      BY <1>1 DEF IInv, ReqInv, UserInv, UserTyped, At
    <3>2. Fresh(r, req[r].email) \in UserRecord
      BY <3>1, MaxIdNat DEF Fresh, NoStore, UserRecord
    <3> QED
      BY <1>1, <3>1, <3>2 DEF UserTyped
  <2>2. UserBegun'
    BY <1>1, UserFields DEF IInv, ReqInv, UserInv, UserTyped, UserBegun, At, Moves, User, AfterFailure, Fresh, NoStore
  <2>3. UserSet'
    BY <1>1, UserFields DEF IInv, ReqInv, UserInv, UserTyped, UserSet, UserBegun, At, Moves, User, AfterFailure, Fresh, NoStore
  <2>4. DeletionKnows'
    <3>1. \A u \in users' : u \in users \/ u.uid = r
      BY <1>1 DEF Fresh
    <3>2. \A d \in Request : At(d, "delete")' => d # r /\ req'[d] = req[d] /\ At(d, "delete") /\ req[d].uid # r
      BY <1>1 DEF IInv, UserInv, DeletionKnows, At, Moves, AfterFailure
    <3> QED
      BY <1>1, <3>1, <3>2 DEF IInv, ReqInv, UserInv, DeletionKnows, At, Moves
  <2>5. DeletionHasRemoved'
    <3>1. \A u \in users' : u \in users \/ u.uid = r
      BY <1>1 DEF Fresh
    <3>2. \A d \in Request : At(d, "store")' => d # r /\ req'[d] = req[d] /\ At(d, "store") /\ req[d].uid # r
      BY <1>1 DEF IInv, UserInv, DeletionHasRemoved, At, Moves, AfterFailure
    <3> QED
      BY <1>1, <3>1, <3>2 DEF IInv, ReqInv, UserInv, DeletionHasRemoved, At, Moves
  <2> QED
    BY <2>1, <2>2, <2>3, <2>4, <2>5 DEF UserInv
<1>8. RowInv'
  BY <1>1 DEF IInv, TypeOK, ReqInv, RowInv, At, Moves, AfterFailure, Fresh, NoStore
<1>9. OwnInv'
  <2> SUFFICES ASSUME faults' <= 1, ~early'
               PROVE  /\ \A u \in users' : u.role = "store_manager" => HasStore(u.uid, u.store)'
                      /\ \A o \in Request :
                           /\ req'[o].pc \in {"lookup", "create", "claims", "reload", "remove", "undo"} /\ ~req'[o].hq
                                => HasStore(o, req[o].id)'
                           /\ At(o, "store")' => At(req[o].uid, "ended")' /\ HasStore(req[o].uid, req[o].id)'
                           /\ At(o, "undo")' => \A u \in User(o)' : u.role # "store_manager"
                           /\ At(o, "remove")' => \A u \in User(o)' : u.role = "store_manager" => faults' = 1
    BY DEF OwnInv
  <2>0. /\ faults <= 1 /\ ~early
        /\ \A u \in users : u.role = "store_manager" => HasStore(u.uid, u.store)
        /\ \A o \in Request :
             /\ req[o].pc \in {"lookup", "create", "claims", "reload", "remove", "undo"} /\ ~req[o].hq
                  => HasStore(o, req[o].id)
             /\ At(o, "store") => At(req[o].uid, "ended") /\ HasStore(req[o].uid, req[o].id)
             /\ At(o, "undo") => \A u \in User(o) : u.role # "store_manager"
             /\ At(o, "remove") => \A u \in User(o) : u.role = "store_manager" => faults = 1
    BY <1>1, <1>2 DEF IInv, TypeOK, OwnInv
  <2>1. \A o, n : HasStore(o, n)' <=> HasStore(o, n)
    BY <1>1 DEF HasStore
  <2>7. \A o \in Request : At(o, "store") => req[o].uid \in Request
    BY DEF IInv, ReqInv, At
  <2>a. /\ AfterFailure(r) \in {"undo", "over"} /\ (AfterFailure(r) = "undo" => ~req[r].hq)
        /\ User(r) = {}
    BY <1>1 DEF AfterFailure, IInv, UserInv, UserBegun, User, At, ReqInv
  <2>2. \A u \in users' : u.role = "store_manager" => HasStore(u.uid, u.store)'
    BY <1>1, <2>0, <2>1 DEF Fresh
  <2>3. ASSUME NEW o \in Request,
              req'[o].pc \in {"lookup", "create", "claims", "reload", "remove", "undo"}, ~req'[o].hq
       PROVE  HasStore(o, req[o].id)'
    BY <1>1, <2>0, <2>1, <2>3, <2>a DEF At, Moves
  <2>4. ASSUME NEW o \in Request, At(o, "store")'
       PROVE  At(req[o].uid, "ended")' /\ HasStore(req[o].uid, req[o].id)'
    BY <1>1, <2>0, <2>1, <2>4, <2>7, <2>a DEF At, Moves
  <2>5. ASSUME NEW o \in Request, At(o, "undo")' PROVE \A u \in User(o)' : u.role # "store_manager"
    BY <1>1, <2>0, <2>5, <2>a DEF At, Moves, User, Fresh
  <2>6. ASSUME NEW o \in Request, At(o, "remove")' PROVE \A u \in User(o)' : u.role = "store_manager" => faults' = 1
    BY <1>1, <1>2, <2>0, <2>6, <2>a DEF At, Moves, User, Fresh
  <2> QED
    BY <2>2, <2>3, <2>4, <2>5, <2>6
<1>10. CleanInv'
  <2> SUFFICES ASSUME faults' = 0 PROVE CleanInv'
    BY DEF CleanInv
  <2>0. /\ \A s \in rows :
             \/ ~At(s.by, "ended")
             \/ \E u \in users : u.uid = s.by /\ u.store = s.id
             \/ \E d \in Request : At(d, "store") /\ req[d].id = s.id
        /\ \A u \in users : u.role = "none" => At(u.uid, "claims")
        /\ \A o \in Request :
             /\ req[o].pc \in {"undo", "over"} => User(o) = {}
             /\ req[o].result = "failed" => At(o, "ended") /\ User(o) = {} /\ \A s \in rows : s.by # o
    BY <1>1, <1>2, FailCounts DEF IInv, TypeOK, CleanInv
  <2>1. /\ \A u \in users : u.uid \in Request /\ req[u.uid].pc \in {"claims", "reload", "remove", "undo", "over", "ended"}
        /\ \A s \in rows : s.by \in Request
                           /\ req[s.by].pc \in {"lookup", "create", "claims", "reload", "remove", "undo", "ended"}
    BY DEF IInv, TypeOK, UserInv, UserBegun, RowInv
  <2>2. \/ users' = users \cup {Fresh(r, req[r].email)} /\ Moves(r, "claims", req[r].result)
        \/ users' = users /\ Moves(r, AfterFailure(r), req[r].result)
    BY <1>1, <1>2, FailCounts DEF IInv
  <2>a. AfterFailure(r) \in {"undo", "over"} /\ User(r) = {}
    BY <1>1, <2>1 DEF AfterFailure, User, At
  <2>3. ASSUME NEW s \in rows'
        PROVE  \/ ~At(s.by, "ended")'
               \/ \E u \in users' : u.uid = s.by /\ u.store = s.id
               \/ \E d \in Request : At(d, "store")' /\ req'[d].id = s.id
    BY <2>a, <1>1, <2>0, <2>1, <2>2 DEF At, Moves
  <2>4. \A u \in users' : u.role = "none" => At(u.uid, "claims")'
    BY <2>a, <1>1, <2>0, <2>1, <2>2 DEF At, Moves, Fresh
  <2>5. \A o \in Request : req'[o].pc \in {"undo", "over"} => User(o)' = {}
    BY <2>a, <1>1, <2>0, <2>1, <2>2 DEF At, Moves, User, Fresh
  <2>6. \A o \in Request : req'[o].result = "failed" =>
          At(o, "ended")' /\ User(o)' = {} /\ \A s \in rows' : s.by # o
    BY <2>a, <1>1, <2>0, <2>1, <2>2 DEF At, Moves, User, Fresh
  <2> QED
    BY <2>3, <2>4, <2>5, <2>6 DEF CleanInv
<1> QED
  BY <1>4, <1>5, <1>6, <1>7, <1>8, <1>9, <1>10 DEF IInv

LEMMA SetClaimsStep == ASSUME IInv, NEW r \in Request, SetClaims(r) PROVE IInv'
<1>1. /\ At(r, "claims") /\ UNCHANGED <<rows, early>>
     /\ \/ users' = Claimed(r) /\ Moves(r, "reload", req[r].result) /\ faults' = faults
        \/ users' = Claimed(r) /\ Moves(r, "remove", req[r].result) /\ Fail
        \/ users' = users /\ Moves(r, "remove", req[r].result) /\ Fail
  BY GoMoves, EndMoves DEF SetClaims, Works, IInv, Steps, Results, AfterFailure
<1>c. /\ \A v \in Claimed(r) : \E u \in users :
              /\ v.uid = u.uid /\ v.email = u.email
              /\ u.uid # r => v = u
              /\ u.uid = r => /\ v.role = IF req[r].hq THEN "admin" ELSE "store_manager"
                              /\ v.store = req[r].id
     /\ \A u \in users : \E v \in Claimed(r) :
              /\ v.uid = u.uid /\ v.email = u.email
              /\ u.uid # r => v = u
              /\ u.uid = r => v.store = req[r].id
  BY ClaimedFacts
<1>2. faults' \in 0..MaxFaults /\ faults \in Nat /\ (faults' = faults \/ faults' = faults + 1)
  BY <1>1, FailCounts DEF IInv, TypeOK
<1>3. Begun' = Begun
  BY <1>1, SameBegun DEF At, AfterFailure
<1>4. TypeOK'
  <2>1. \A u \in users' : /\ u.uid \in Request /\ u.email \in Email /\ u.store \in 0..MaxId
                          /\ u.role \in {"none", "store_manager", "admin"}
    BY <1>1, ClaimedFacts, UserFields DEF UserRecord
  <2>2. \A s \in rows' : s.id \in 1..MaxId /\ s.name \in Name /\ s.by \in Request
    BY <1>1 DEF IInv, TypeOK
  <2>3. \A u, v \in users' : u.email = v.email \/ u.uid = v.uid => u = v
    BY <1>1, ClaimedTwins DEF IInv, TypeOK
  <2>4. \A s, t \in rows' : s.id = t.id \/ s.name = t.name => s = t
    BY <1>1 DEF IInv, TypeOK
  <2>5. \A o \in Request : req'[o] \in ReqRecord
    BY <1>1 DEF Moves
  <2>6. early' \in BOOLEAN
    BY <1>1 DEF IInv, TypeOK
  <2> QED
    BY <1>2, <2>1, <2>2, <2>3, <2>4, <2>5, <2>6 DEF TypeOK, ReqRecord, Results
<1>5. ReqInv'
  BY <1>1 DEF IInv, ReqInv, At, Moves
<1>6. IdInv'
  BY <1>1, <1>c, <1>3 DEF IInv, IdInv, Moves
<1>7. UserInv'
  <2>1. UserTyped'
    BY <1>1, ClaimedFacts DEF IInv, UserInv, UserTyped
  <2>2. UserBegun'
    BY <1>1, <1>c, UserFields DEF IInv, ReqInv, UserInv, UserTyped, UserBegun, At, Moves, User
  <2>3. UserSet'
    BY <1>1, <1>c, UserFields DEF IInv, ReqInv, UserInv, UserTyped, UserSet, UserBegun, At, Moves, User
  <2>4. DeletionKnows'
    <3> SUFFICES ASSUME NEW d \in Request, At(d, "delete")'
                 PROVE  /\ \A u \in users' : u.uid = req'[d].uid => u.role = "store_manager" /\ u.store = req'[d].id
                        /\ req'[req'[d].uid].pc \in {"claims", "reload", "remove", "undo", "over", "ended"}
      BY DEF DeletionKnows
    <3>1. At(d, "delete") /\ req'[d] = req[d] /\ req[d].uid \in Request
      BY <1>1 DEF IInv, ReqInv, At, Moves
    <3>2. /\ \A u \in users : u.uid = req[d].uid => u.role = "store_manager" /\ u.store = req[d].id
          /\ req[req[d].uid].pc \in {"claims", "reload", "remove", "undo", "over", "ended"}
      BY <3>1 DEF IInv, UserInv, DeletionKnows
    <3>3. \A u \in users : u.uid = r => u.role = "none"
      BY <1>1 DEF IInv, UserInv, UserSet
    <3>4. ASSUME NEW u \in users', u.uid = req'[d].uid PROVE u.role = "store_manager" /\ u.store = req'[d].id
      BY <1>1, <1>c, <3>1, <3>2, <3>3, <3>4
    <3>5. req'[req[d].uid].pc \in {"claims", "reload", "remove", "undo", "over", "ended"}
      BY <1>1, <3>1, <3>2 DEF Moves
    <3> QED
      BY <3>1, <3>4, <3>5
  <2>5. DeletionHasRemoved'
    BY <1>1, <1>c, UserFields DEF IInv, ReqInv, UserInv, UserTyped, DeletionHasRemoved, UserBegun, At, Moves, User
  <2> QED
    BY <2>1, <2>2, <2>3, <2>4, <2>5 DEF UserInv
<1>8. RowInv'
  BY <1>1 DEF IInv, TypeOK, ReqInv, RowInv, At, Moves
<1>9. OwnInv'
  <2> DEFINE Own == /\ \A u \in users : u.role = "store_manager" => HasStore(u.uid, u.store)
                    /\ \A o \in Request :
                         /\ req[o].pc \in {"lookup", "create", "claims", "reload", "remove", "undo"} /\ ~req[o].hq
                              => HasStore(o, req[o].id)
                         /\ At(o, "store") => At(req[o].uid, "ended") /\ HasStore(req[o].uid, req[o].id)
                         /\ At(o, "undo") => \A u \in User(o) : u.role # "store_manager"
                         /\ At(o, "remove") => \A u \in User(o) : u.role = "store_manager" => faults = 1
  <2> SUFFICES ASSUME faults' <= 1, ~early' PROVE Own'
    BY DEF OwnInv
  <2>0. faults <= 1 /\ ~early /\ Own
    BY <1>1, <1>2 DEF IInv, TypeOK, OwnInv
  <2>1. \A o, n : HasStore(o, n) => HasStore(o, n)'
    BY <1>1 DEF HasStore
  <2>7. \A o \in Request : At(o, "store") => req[o].uid \in Request
    BY DEF IInv, ReqInv, At
  <2>8. \A u \in User(r) : u.role = "none"
    BY <1>1 DEF IInv, UserInv, UserSet, User
  <2>2. \A u \in users' : u.role = "store_manager" => HasStore(u.uid, u.store)'
    BY <1>1, <1>c, <2>0, <2>1 DEF At, IInv, ReqInv
  <2>3. ASSUME NEW o \in Request,
              req'[o].pc \in {"lookup", "create", "claims", "reload", "remove", "undo"}, ~req'[o].hq
       PROVE  HasStore(o, req[o].id)'
    BY <1>1, <2>3, <2>0, <2>1 DEF At, Moves
  <2>4. ASSUME NEW o \in Request, At(o, "store")'
       PROVE  At(req[o].uid, "ended")' /\ HasStore(req[o].uid, req[o].id)'
    BY <1>1, <2>4, <2>0, <2>1, <2>7 DEF At, Moves
  <2>5. ASSUME NEW o \in Request, At(o, "undo")' PROVE \A u \in User(o)' : u.role # "store_manager"
    BY <1>1, <2>5, <2>0, <1>c DEF At, Moves, User
  <2>6. ASSUME NEW o \in Request, At(o, "remove")' PROVE \A u \in User(o)' : u.role = "store_manager" => faults' = 1
    BY <1>1, <1>c, <1>2, <2>6, <2>0, <2>8, FailCounts DEF At, Moves, User, IInv
  <2> QED
    BY <2>2, <2>3, <2>4, <2>5, <2>6
<1>10. CleanInv'
  <2> SUFFICES ASSUME faults' = 0 PROVE CleanInv'
    BY DEF CleanInv
  <2>0. faults = 0 /\ users' = Claimed(r) /\ Moves(r, "reload", req[r].result)
    BY <1>1, <1>2, FailCounts DEF IInv
  <2>1. ASSUME NEW s \in rows
       PROVE  \/ ~At(s.by, "ended")'
              \/ \E u \in users' : u.uid = s.by /\ u.store = s.id
              \/ \E d \in Request : At(d, "store")' /\ req'[d].id = s.id
    <3>1. CASE s.by = r
      BY <2>0, <3>1 DEF Moves, At
    <3>2. CASE s.by # r
      <4>1. s.by \in Request /\ req'[s.by] = req[s.by]
        BY <2>0, <3>2 DEF IInv, TypeOK, Moves
      <4>2. CASE ~At(s.by, "ended")
        BY <4>1, <4>2 DEF At
      <4>3. CASE \E u \in users : u.uid = s.by /\ u.store = s.id
        <5>1. PICK u \in users : u.uid = s.by /\ u.store = s.id
          BY <4>3
        <5>2. u \in Claimed(r)
          <6>1. \E v \in Claimed(r) : u.uid # r => v = u
            BY <1>c, <5>1
          <6> QED
            BY <5>1, <3>2, <6>1
        <5> QED
          BY <5>1, <5>2, <2>0
      <4>4. CASE \E d \in Request : At(d, "store") /\ req[d].id = s.id
        BY <4>4, <1>1, <2>0 DEF At, Moves
      <4> QED
        BY <4>2, <4>3, <4>4, <2>0 DEF IInv, CleanInv
    <3> QED
      BY <3>1, <3>2
  <2>2. ASSUME NEW u \in users', u.role = "none" PROVE At(u.uid, "claims")'
    BY <2>0, <2>2, <1>c, UserFields DEF IInv, ReqInv, CleanInv, At, Moves
  <2>3. ASSUME NEW o \in Request, req'[o].pc \in {"undo", "over"} PROVE User(o)' = {}
    BY <2>0, <2>3, <1>1, <1>c DEF IInv, CleanInv, At, Moves, User
  <2>4. ASSUME NEW o \in Request, req'[o].result = "failed"
       PROVE  At(o, "ended")' /\ User(o)' = {} /\ \A s \in rows' : s.by # o
    BY <2>0, <2>4, <1>1, <1>c DEF IInv, CleanInv, At, Moves, User
  <2> QED
    BY <1>1, <2>1, <2>2, <2>3, <2>4 DEF CleanInv
<1> QED
  BY <1>4, <1>5, <1>6, <1>7, <1>8, <1>9, <1>10 DEF IInv

LEMMA ReloadStep == ASSUME IInv, NEW r \in Request, Reload(r) PROVE IInv'
<1>1. /\ At(r, "reload") /\ UNCHANGED <<users, rows, early>>
     /\ \/ User(r) # {} /\ Moves(r, "ended", "created") /\ faults' = faults
        \/ User(r) = {} /\ Moves(r, "remove", req[r].result) /\ faults' = faults
        \/ Moves(r, "remove", req[r].result) /\ Fail
  BY GoMoves, EndMoves DEF Reload, Works, IInv, Steps, Results, AfterFailure, User
<1>2. faults' \in 0..MaxFaults /\ faults \in Nat /\ (faults' = faults \/ faults' = faults + 1)
  BY <1>1, FailCounts DEF IInv, TypeOK
<1>3. Begun' = Begun
  BY <1>1, SameBegun DEF At, AfterFailure
<1>4. TypeOK'
  BY <1>1, <1>2, ZenonT(30) DEF IInv, TypeOK, ReqInv, UserInv, User, At, Moves, Steps, ReqRecord
<1>5. ReqInv'
  BY <1>1 DEF IInv, ReqInv, At, Moves
<1>6. IdInv'
  BY <1>1, <1>3 DEF IInv, IdInv, Moves
<1>7. UserInv'
  <2>1. UserTyped'
    BY <1>1 DEF IInv, ReqInv, UserInv, UserTyped, UserRecord, At, Moves, User
  <2>2. UserBegun'
    BY <1>1, UserFields DEF IInv, ReqInv, UserInv, UserTyped, UserBegun, At, Moves, User
  <2>3. UserSet'
    BY <1>1, UserFields DEF IInv, ReqInv, UserInv, UserTyped, UserSet, UserBegun, At, Moves, User
  <2>4. DeletionKnows'
    BY <1>1, UserFields DEF IInv, ReqInv, UserInv, UserTyped, DeletionKnows, UserBegun, At, Moves, User
  <2>5. DeletionHasRemoved'
    BY <1>1, UserFields DEF IInv, ReqInv, UserInv, UserTyped, DeletionHasRemoved, UserBegun, At, Moves, User
  <2> QED
    BY <2>1, <2>2, <2>3, <2>4, <2>5 DEF UserInv
<1>8. RowInv'
  BY <1>1 DEF IInv, TypeOK, ReqInv, RowInv, At, Moves
<1>9. OwnInv'
  <2> SUFFICES ASSUME faults' <= 1, ~early'
               PROVE  /\ \A u \in users' : u.role = "store_manager" => HasStore(u.uid, u.store)'
                      /\ \A o \in Request :
                           /\ req'[o].pc \in {"lookup", "create", "claims", "reload", "remove", "undo"} /\ ~req'[o].hq
                                => HasStore(o, req[o].id)'
                           /\ At(o, "store")' => At(req[o].uid, "ended")' /\ HasStore(req[o].uid, req[o].id)'
                           /\ At(o, "undo")' => \A u \in User(o)' : u.role # "store_manager"
                           /\ At(o, "remove")' => \A u \in User(o)' : u.role = "store_manager" => faults' = 1
    BY DEF OwnInv
  <2>0. /\ faults <= 1 /\ ~early
        /\ \A u \in users : u.role = "store_manager" => HasStore(u.uid, u.store)
        /\ \A o \in Request :
             /\ req[o].pc \in {"lookup", "create", "claims", "reload", "remove", "undo"} /\ ~req[o].hq
                  => HasStore(o, req[o].id)
             /\ At(o, "store") => At(req[o].uid, "ended") /\ HasStore(req[o].uid, req[o].id)
             /\ At(o, "undo") => \A u \in User(o) : u.role # "store_manager"
             /\ At(o, "remove") => \A u \in User(o) : u.role = "store_manager" => faults = 1
    BY <1>1, <1>2 DEF IInv, TypeOK, OwnInv
  <2>1. \A o, n : HasStore(o, n)' <=> HasStore(o, n)
    BY <1>1 DEF HasStore
  <2>7. \A o \in Request : At(o, "store") => req[o].uid \in Request
    BY DEF IInv, ReqInv, At
  <2>2. \A u \in users' : u.role = "store_manager" => HasStore(u.uid, u.store)'
    BY <1>1, <2>0, <2>1
  <2>3. ASSUME NEW o \in Request,
              req'[o].pc \in {"lookup", "create", "claims", "reload", "remove", "undo"}, ~req'[o].hq
       PROVE  HasStore(o, req[o].id)'
    BY <1>1, <2>0, <2>1, <2>3 DEF At, Moves
  <2>4. ASSUME NEW o \in Request, At(o, "store")'
       PROVE  At(req[o].uid, "ended")' /\ HasStore(req[o].uid, req[o].id)'
    BY <1>1, <2>0, <2>1, <2>4, <2>7 DEF At, Moves
  <2>5. ASSUME NEW o \in Request, At(o, "undo")' PROVE \A u \in User(o)' : u.role # "store_manager"
    BY <1>1, <2>0, <2>5 DEF At, Moves, User
  <2>6. ASSUME NEW o \in Request, At(o, "remove")' PROVE \A u \in User(o)' : u.role = "store_manager" => faults' = 1
    BY <1>1, <1>2, <2>0, <2>6, FailCounts DEF At, Moves, User, IInv
  <2> QED
    BY <2>2, <2>3, <2>4, <2>5, <2>6
<1>10. CleanInv'
  <2> SUFFICES ASSUME faults' = 0 PROVE CleanInv'
    BY DEF CleanInv
  <2>0. /\ \A s \in rows :
             \/ ~At(s.by, "ended")
             \/ \E u \in users : u.uid = s.by /\ u.store = s.id
             \/ \E d \in Request : At(d, "store") /\ req[d].id = s.id
        /\ \A u \in users : u.role = "none" => At(u.uid, "claims")
        /\ \A o \in Request :
             /\ req[o].pc \in {"undo", "over"} => User(o) = {}
             /\ req[o].result = "failed" => At(o, "ended") /\ User(o) = {} /\ \A s \in rows : s.by # o
    BY <1>1, <1>2, FailCounts DEF IInv, TypeOK, CleanInv
  <2>1. /\ \A u \in users : u.uid \in Request /\ req[u.uid].pc \in {"claims", "reload", "remove", "undo", "over", "ended"}
        /\ \A s \in rows : s.by \in Request
                           /\ req[s.by].pc \in {"lookup", "create", "claims", "reload", "remove", "undo", "ended"}
    BY DEF IInv, TypeOK, UserInv, UserBegun, RowInv
  <2>2. \/ User(r) # {} /\ Moves(r, "ended", "created")
        \/ User(r) = {} /\ Moves(r, "remove", req[r].result)
    BY <1>1, <1>2, FailCounts DEF IInv
  <2>a. \A u \in users : u.uid = r => u.store = req[r].id
    BY <1>1 DEF IInv, UserInv, UserSet, At
  <2>b. \A s \in rows : s.by = r => s.id = req[r].id
    BY DEF IInv, RowInv
  <2>3. ASSUME NEW s \in rows'
        PROVE  \/ ~At(s.by, "ended")'
               \/ \E u \in users' : u.uid = s.by /\ u.store = s.id
               \/ \E d \in Request : At(d, "store")' /\ req'[d].id = s.id
    BY <2>a, <2>b, <2>3, <1>1, <2>0, <2>1, <2>2 DEF At, Moves, User
  <2>4. \A u \in users' : u.role = "none" => At(u.uid, "claims")'
    BY <1>1, <2>0, <2>1, <2>2 DEF At, Moves
  <2>5. \A o \in Request : req'[o].pc \in {"undo", "over"} => User(o)' = {}
    BY <1>1, <2>0, <2>1, <2>2 DEF At, Moves, User
  <2>6. \A o \in Request : req'[o].result = "failed" =>
          At(o, "ended")' /\ User(o)' = {} /\ \A s \in rows' : s.by # o
    BY <1>1, <2>0, <2>1, <2>2 DEF At, Moves, User
  <2> QED
    BY <2>3, <2>4, <2>5, <2>6 DEF CleanInv
<1> QED
  BY <1>4, <1>5, <1>6, <1>7, <1>8, <1>9, <1>10 DEF IInv

LEMMA RemoveUserStep == ASSUME IInv, NEW r \in Request, RemoveUser(r) PROVE IInv'
<1>1. /\ At(r, "remove") /\ UNCHANGED <<rows, early>>
     /\ Moves(r, AfterFailure(r), req[r].result)
     /\ \/ users' = users \ User(r) /\ (faults' = faults \/ Fail)
        \/ users' = users /\ Fail
  BY GoMoves, EndMoves DEF RemoveUser, Works, IInv, Steps, Results, AfterFailure
<1>2. faults' \in 0..MaxFaults /\ faults \in Nat /\ (faults' = faults \/ faults' = faults + 1)
  BY <1>1, FailCounts DEF IInv, TypeOK
<1>3. Begun' = Begun
  BY <1>1, SameBegun DEF At, AfterFailure
<1>4. TypeOK'
  BY <1>1, <1>2, ZenonT(30) DEF IInv, TypeOK, ReqInv, UserInv, User, At, Moves, Steps, ReqRecord, AfterFailure
<1>5. ReqInv'
  BY <1>1 DEF IInv, ReqInv, At, Moves, AfterFailure
<1>6. IdInv'
  BY <1>1, <1>3 DEF IInv, IdInv, Moves
<1>7. UserInv'
  <2>1. UserTyped'
    BY <1>1 DEF IInv, ReqInv, UserInv, UserTyped, UserRecord, At, Moves, User, AfterFailure
  <2>2. UserBegun'
    BY <1>1, UserFields DEF IInv, ReqInv, UserInv, UserTyped, UserBegun, At, Moves, User, AfterFailure
  <2>3. UserSet'
    BY <1>1, UserFields DEF IInv, ReqInv, UserInv, UserTyped, UserSet, UserBegun, At, Moves, User, AfterFailure
  <2>4. DeletionKnows'
    BY <1>1, UserFields DEF IInv, ReqInv, UserInv, UserTyped, DeletionKnows, UserBegun, At, Moves, User, AfterFailure
  <2>5. DeletionHasRemoved'
    BY <1>1, UserFields DEF IInv, ReqInv, UserInv, UserTyped, DeletionHasRemoved, UserBegun, At, Moves, User, AfterFailure
  <2> QED
    BY <2>1, <2>2, <2>3, <2>4, <2>5 DEF UserInv
<1>8. RowInv'
  BY <1>1 DEF IInv, TypeOK, ReqInv, RowInv, At, Moves, AfterFailure
<1>9. OwnInv'
  <2> SUFFICES ASSUME faults' <= 1, ~early'
               PROVE  /\ \A u \in users' : u.role = "store_manager" => HasStore(u.uid, u.store)'
                      /\ \A o \in Request :
                           /\ req'[o].pc \in {"lookup", "create", "claims", "reload", "remove", "undo"} /\ ~req'[o].hq
                                => HasStore(o, req[o].id)'
                           /\ At(o, "store")' => At(req[o].uid, "ended")' /\ HasStore(req[o].uid, req[o].id)'
                           /\ At(o, "undo")' => \A u \in User(o)' : u.role # "store_manager"
                           /\ At(o, "remove")' => \A u \in User(o)' : u.role = "store_manager" => faults' = 1
    BY DEF OwnInv
  <2>0. /\ faults <= 1 /\ ~early
        /\ \A u \in users : u.role = "store_manager" => HasStore(u.uid, u.store)
        /\ \A o \in Request :
             /\ req[o].pc \in {"lookup", "create", "claims", "reload", "remove", "undo"} /\ ~req[o].hq
                  => HasStore(o, req[o].id)
             /\ At(o, "store") => At(req[o].uid, "ended") /\ HasStore(req[o].uid, req[o].id)
             /\ At(o, "undo") => \A u \in User(o) : u.role # "store_manager"
             /\ At(o, "remove") => \A u \in User(o) : u.role = "store_manager" => faults = 1
    BY <1>1, <1>2 DEF IInv, TypeOK, OwnInv
  <2>1. \A o, n : HasStore(o, n)' <=> HasStore(o, n)
    BY <1>1 DEF HasStore
  <2>7. \A o \in Request : At(o, "store") => req[o].uid \in Request
    BY DEF IInv, ReqInv, At
  <2>a. /\ AfterFailure(r) \in {"undo", "over"} /\ (AfterFailure(r) = "undo" => ~req[r].hq)
    BY <1>1 DEF AfterFailure
  <2>b. faults' = 1 \/ (users' = users \ User(r) /\ faults' = faults)
    BY <1>1, <1>2, <2>0, FailCounts DEF IInv
  <2>c. users' = users => \A u \in User(r) : u.role # "store_manager"
    <3>1. users' = users /\ Fail => faults = 0
      BY <2>0, FailCounts DEF IInv
    <3> QED
      BY <1>1, <2>0, <3>1, FailCounts DEF IInv, User
  <2>2. \A u \in users' : u.role = "store_manager" => HasStore(u.uid, u.store)'
    BY <1>1, <2>0, <2>1 DEF User
  <2>3. ASSUME NEW o \in Request,
              req'[o].pc \in {"lookup", "create", "claims", "reload", "remove", "undo"}, ~req'[o].hq
       PROVE  HasStore(o, req[o].id)'
    BY <1>1, <2>0, <2>1, <2>3, <2>a DEF At, Moves
  <2>4. ASSUME NEW o \in Request, At(o, "store")'
       PROVE  At(req[o].uid, "ended")' /\ HasStore(req[o].uid, req[o].id)'
    BY <1>1, <2>0, <2>1, <2>4, <2>7, <2>a DEF At, Moves
  <2>5. ASSUME NEW o \in Request, At(o, "undo")' PROVE \A u \in User(o)' : u.role # "store_manager"
    BY <1>1, <2>0, <2>5, <2>a, <2>c DEF At, Moves, User
  <2>6. ASSUME NEW o \in Request, At(o, "remove")' PROVE \A u \in User(o)' : u.role = "store_manager" => faults' = 1
    BY <1>1, <1>2, <2>0, <2>6, <2>a DEF At, Moves, User
  <2> QED
    BY <2>2, <2>3, <2>4, <2>5, <2>6
<1>10. CleanInv'
  <2> SUFFICES ASSUME faults' = 0 PROVE CleanInv'
    BY DEF CleanInv
  <2>0. /\ \A s \in rows :
             \/ ~At(s.by, "ended")
             \/ \E u \in users : u.uid = s.by /\ u.store = s.id
             \/ \E d \in Request : At(d, "store") /\ req[d].id = s.id
        /\ \A u \in users : u.role = "none" => At(u.uid, "claims")
        /\ \A o \in Request :
             /\ req[o].pc \in {"undo", "over"} => User(o) = {}
             /\ req[o].result = "failed" => At(o, "ended") /\ User(o) = {} /\ \A s \in rows : s.by # o
    BY <1>1, <1>2, FailCounts DEF IInv, TypeOK, CleanInv
  <2>1. /\ \A u \in users : u.uid \in Request /\ req[u.uid].pc \in {"claims", "reload", "remove", "undo", "over", "ended"}
        /\ \A s \in rows : s.by \in Request
                           /\ req[s.by].pc \in {"lookup", "create", "claims", "reload", "remove", "undo", "ended"}
    BY DEF IInv, TypeOK, UserInv, UserBegun, RowInv
  <2>2. users' = users \ User(r) /\ Moves(r, AfterFailure(r), req[r].result)
    BY <1>1, <1>2, FailCounts DEF IInv
  <2>a. AfterFailure(r) \in {"undo", "over"}
    BY <1>1 DEF AfterFailure
  <2>3. ASSUME NEW s \in rows'
        PROVE  \/ ~At(s.by, "ended")'
               \/ \E u \in users' : u.uid = s.by /\ u.store = s.id
               \/ \E d \in Request : At(d, "store")' /\ req'[d].id = s.id
    BY <2>a, <2>3, <1>1, <2>0, <2>1, <2>2 DEF At, Moves, User
  <2>4. \A u \in users' : u.role = "none" => At(u.uid, "claims")'
    BY <2>a, <1>1, <2>0, <2>1, <2>2 DEF At, Moves, User
  <2>5. \A o \in Request : req'[o].pc \in {"undo", "over"} => User(o)' = {}
    BY <2>a, <1>1, <2>0, <2>1, <2>2 DEF At, Moves, User
  <2>6. \A o \in Request : req'[o].result = "failed" =>
          At(o, "ended")' /\ User(o)' = {} /\ \A s \in rows' : s.by # o
    BY <2>a, <1>1, <2>0, <2>1, <2>2 DEF At, Moves, User
  <2> QED
    BY <2>3, <2>4, <2>5, <2>6 DEF CleanInv
<1> QED
  BY <1>4, <1>5, <1>6, <1>7, <1>8, <1>9, <1>10 DEF IInv

LEMMA UndoStep == ASSUME IInv, NEW r \in Request, Undo(r) PROVE IInv'
<1>1. /\ At(r, "undo") /\ UNCHANGED <<users, early>>
     /\ Moves(r, "ended", "failed")
     /\ \/ rows' = Without(req[r].id) /\ faults' = faults
        \/ rows' = rows /\ Fail
  BY GoMoves, EndMoves DEF Undo, Works, IInv, Steps, Results, AfterFailure
<1>2. faults' \in 0..MaxFaults /\ faults \in Nat /\ (faults' = faults \/ faults' = faults + 1)
  BY <1>1, FailCounts DEF IInv, TypeOK
<1>3. Begun' = Begun
  BY <1>1, SameBegun DEF At, AfterFailure
<1>4. TypeOK'
  BY <1>1, <1>2, ZenonT(30) DEF IInv, TypeOK, ReqInv, UserInv, User, At, Moves, Steps, ReqRecord, Without
<1>5. ReqInv'
  BY <1>1 DEF IInv, ReqInv, At, Moves
<1>6. IdInv'
  BY <1>1, <1>3 DEF IInv, IdInv, Moves, Without
<1>7. UserInv'
  <2>1. UserTyped'
    BY <1>1 DEF IInv, ReqInv, UserInv, UserTyped, UserRecord, At, Moves, User, Without
  <2>2. UserBegun'
    BY <1>1, UserFields DEF IInv, ReqInv, UserInv, UserTyped, UserBegun, At, Moves, User, Without
  <2>3. UserSet'
    BY <1>1, UserFields DEF IInv, ReqInv, UserInv, UserTyped, UserSet, UserBegun, At, Moves, User, Without
  <2>4. DeletionKnows'
    BY <1>1, UserFields DEF IInv, ReqInv, UserInv, UserTyped, DeletionKnows, UserBegun, At, Moves, User, Without
  <2>5. DeletionHasRemoved'
    BY <1>1, UserFields DEF IInv, ReqInv, UserInv, UserTyped, DeletionHasRemoved, UserBegun, At, Moves, User, Without
  <2> QED
    BY <2>1, <2>2, <2>3, <2>4, <2>5 DEF UserInv
<1>8. RowInv'
  BY <1>1 DEF IInv, TypeOK, ReqInv, RowInv, At, Moves, Without
<1>9. OwnInv'
  <2> SUFFICES ASSUME faults' <= 1, ~early'
               PROVE  /\ \A u \in users' : u.role = "store_manager" => HasStore(u.uid, u.store)'
                      /\ \A o \in Request :
                           /\ req'[o].pc \in {"lookup", "create", "claims", "reload", "remove", "undo"} /\ ~req'[o].hq
                                => HasStore(o, req[o].id)'
                           /\ At(o, "store")' => At(req[o].uid, "ended")' /\ HasStore(req[o].uid, req[o].id)'
                           /\ At(o, "undo")' => \A u \in User(o)' : u.role # "store_manager"
                           /\ At(o, "remove")' => \A u \in User(o)' : u.role = "store_manager" => faults' = 1
    BY DEF OwnInv
  <2>0. /\ faults <= 1 /\ ~early
        /\ \A u \in users : u.role = "store_manager" => HasStore(u.uid, u.store)
        /\ \A o \in Request :
             /\ req[o].pc \in {"lookup", "create", "claims", "reload", "remove", "undo"} /\ ~req[o].hq
                  => HasStore(o, req[o].id)
             /\ At(o, "store") => At(req[o].uid, "ended") /\ HasStore(req[o].uid, req[o].id)
             /\ At(o, "undo") => \A u \in User(o) : u.role # "store_manager"
             /\ At(o, "remove") => \A u \in User(o) : u.role = "store_manager" => faults = 1
    BY <1>1, <1>2 DEF IInv, TypeOK, OwnInv
  <2>7. \A o \in Request : At(o, "store") => req[o].uid \in Request
    BY DEF IInv, ReqInv, At
  <2>1. ASSUME NEW o, NEW n, HasStore(o, n), o # r PROVE HasStore(o, n)'
    <3>1. PICK t \in rows : t.id = req[r].id /\ t.by = r
      BY <1>1, <2>0 DEF HasStore, At, IInv, ReqInv
    <3>2. PICK s \in rows : s.id = n /\ s.by = o
      BY <2>1 DEF HasStore
    <3>3. s.id # req[r].id
      BY <2>1, <3>1, <3>2 DEF IInv, TypeOK
    <3> QED
      BY <1>1, <3>2, <3>3 DEF HasStore, Without
  <2>8. \A u \in users : u.role = "store_manager" => u.uid # r
    BY <1>1, <2>0 DEF User
  <2>2. \A u \in users' : u.role = "store_manager" => HasStore(u.uid, u.store)'
    BY <1>1, <2>0, <2>1, <2>8
  <2>3. ASSUME NEW o \in Request,
              req'[o].pc \in {"lookup", "create", "claims", "reload", "remove", "undo"}, ~req'[o].hq
       PROVE  HasStore(o, req[o].id)'
    BY <1>1, <2>0, <2>1, <2>3 DEF At, Moves
  <2>4. ASSUME NEW o \in Request, At(o, "store")'
       PROVE  At(req[o].uid, "ended")' /\ HasStore(req[o].uid, req[o].id)'
    BY <1>1, <2>0, <2>1, <2>4, <2>7 DEF At, Moves
  <2>5. ASSUME NEW o \in Request, At(o, "undo")' PROVE \A u \in User(o)' : u.role # "store_manager"
    BY <1>1, <2>0, <2>5 DEF At, Moves, User
  <2>6. ASSUME NEW o \in Request, At(o, "remove")' PROVE \A u \in User(o)' : u.role = "store_manager" => faults' = 1
    BY <1>1, <1>2, <2>0, <2>6 DEF At, Moves, User
  <2> QED
    BY <2>2, <2>3, <2>4, <2>5, <2>6
<1>10. CleanInv'
  <2> SUFFICES ASSUME faults' = 0 PROVE CleanInv'
    BY DEF CleanInv
  <2>0. /\ \A s \in rows :
             \/ ~At(s.by, "ended")
             \/ \E u \in users : u.uid = s.by /\ u.store = s.id
             \/ \E d \in Request : At(d, "store") /\ req[d].id = s.id
        /\ \A u \in users : u.role = "none" => At(u.uid, "claims")
        /\ \A o \in Request :
             /\ req[o].pc \in {"undo", "over"} => User(o) = {}
             /\ req[o].result = "failed" => At(o, "ended") /\ User(o) = {} /\ \A s \in rows : s.by # o
    BY <1>1, <1>2, FailCounts DEF IInv, TypeOK, CleanInv
  <2>1. /\ \A u \in users : u.uid \in Request /\ req[u.uid].pc \in {"claims", "reload", "remove", "undo", "over", "ended"}
        /\ \A s \in rows : s.by \in Request
                           /\ req[s.by].pc \in {"lookup", "create", "claims", "reload", "remove", "undo", "ended"}
    BY DEF IInv, TypeOK, UserInv, UserBegun, RowInv
  <2>2. rows' = Without(req[r].id) /\ Moves(r, "ended", "failed")
    BY <1>1, <1>2, FailCounts DEF IInv
  <2>a. \A s \in rows : s.by = r => s.id = req[r].id
    BY DEF IInv, RowInv
  <2>b. User(r) = {}
    BY <1>1, <2>0 DEF At
  <2>3. ASSUME NEW s \in rows'
        PROVE  \/ ~At(s.by, "ended")'
               \/ \E u \in users' : u.uid = s.by /\ u.store = s.id
               \/ \E d \in Request : At(d, "store")' /\ req'[d].id = s.id
    <3>1. s \in rows /\ s.by # r
      BY <2>2, <2>3, <2>a DEF Without
    <3> QED
      BY <1>1, <2>0, <2>1, <2>2, <3>1 DEF At, Moves
  <2>4. \A u \in users' : u.role = "none" => At(u.uid, "claims")'
    BY <1>1, <2>0, <2>1, <2>2 DEF At, Moves
  <2>5. \A o \in Request : req'[o].pc \in {"undo", "over"} => User(o)' = {}
    BY <1>1, <2>0, <2>1, <2>2 DEF At, Moves, User
  <2>6. \A o \in Request : req'[o].result = "failed" =>
          At(o, "ended")' /\ User(o)' = {} /\ \A s \in rows' : s.by # o
    BY <2>a, <2>b, <1>1, <2>0, <2>1, <2>2 DEF At, Moves, User, Without
  <2> QED
    BY <2>3, <2>4, <2>5, <2>6 DEF CleanInv
<1> QED
  BY <1>4, <1>5, <1>6, <1>7, <1>8, <1>9, <1>10 DEF IInv

LEMMA OverStep == ASSUME IInv, NEW r \in Request, Over(r) PROVE IInv'
<1>1. /\ At(r, "over") /\ UNCHANGED <<users, rows, early, faults>>
     /\ Moves(r, "ended", "failed")
  BY GoMoves, EndMoves DEF Over, Works, IInv, Steps, Results, AfterFailure
<1>2. faults' \in 0..MaxFaults /\ faults \in Nat /\ (faults' = faults \/ faults' = faults + 1)
  BY <1>1, FailCounts DEF IInv, TypeOK
<1>3. Begun' = Begun
  BY <1>1, SameBegun DEF At, AfterFailure
<1>4. TypeOK'
  BY <1>1, <1>2 DEF IInv, TypeOK, ReqInv, UserInv, User, At, Moves, Steps, ReqRecord
<1>5. ReqInv'
  BY <1>1 DEF IInv, ReqInv, At, Moves
<1>6. IdInv'
  BY <1>1, <1>3 DEF IInv, IdInv, Moves
<1>7. UserInv'
  <2>1. UserTyped'
    BY <1>1 DEF IInv, ReqInv, UserInv, UserTyped, UserRecord, At, Moves, User
  <2>2. UserBegun'
    BY <1>1, UserFields DEF IInv, ReqInv, UserInv, UserTyped, UserBegun, At, Moves, User
  <2>3. UserSet'
    BY <1>1, UserFields DEF IInv, ReqInv, UserInv, UserTyped, UserSet, UserBegun, At, Moves, User
  <2>4. DeletionKnows'
    BY <1>1, UserFields DEF IInv, ReqInv, UserInv, UserTyped, DeletionKnows, UserBegun, At, Moves, User
  <2>5. DeletionHasRemoved'
    BY <1>1, UserFields DEF IInv, ReqInv, UserInv, UserTyped, DeletionHasRemoved, UserBegun, At, Moves, User
  <2> QED
    BY <2>1, <2>2, <2>3, <2>4, <2>5 DEF UserInv
<1>8. RowInv'
  BY <1>1 DEF IInv, TypeOK, ReqInv, RowInv, At, Moves
<1>9. OwnInv'
  BY <1>1, <1>2, FailCounts, UserFields DEF IInv, TypeOK, ReqInv, UserInv, UserBegun, UserSet, DeletionKnows, DeletionHasRemoved, RowInv, OwnInv, HasStore, User, At, Moves
<1>10. CleanInv'
  BY <1>1, <1>2, FailCounts, UserFields DEF IInv, TypeOK, ReqInv, UserInv, UserBegun, UserSet, DeletionKnows, DeletionHasRemoved, RowInv, CleanInv, User, At, Moves
<1> QED
  BY <1>4, <1>5, <1>6, <1>7, <1>8, <1>9, <1>10 DEF IInv

LEMMA DeleteUserStep == ASSUME IInv, NEW r \in Request, DeleteUser(r) PROVE IInv'
<1>1. /\ At(r, "delete") /\ UNCHANGED rows
     /\ early' = (early \/ (users' # users /\ ~At(req[r].uid, "ended")))
     /\ LET found == User(req[r].uid)
        IN \/ found # {} /\ users' = users \ found /\ Moves(r, "store", req[r].result) /\ faults' = faults
           \/ found = {} /\ users' = users /\ Moves(r, "ended", "failed") /\ faults' = faults
           \/ users' = users \ found /\ Moves(r, "ended", "failed") /\ Fail
           \/ users' = users /\ Moves(r, "ended", "failed") /\ Fail
  BY GoMoves, EndMoves DEF DeleteUser, Works, IInv, Steps, Results, AfterFailure
<1>2. faults' \in 0..MaxFaults /\ faults \in Nat /\ (faults' = faults \/ faults' = faults + 1)
  BY <1>1, FailCounts DEF IInv, TypeOK
<1>3. Begun' = Begun
  BY <1>1, SameBegun DEF At, AfterFailure
<1>4. TypeOK'
  BY <1>1, <1>2, ZenonT(30) DEF IInv, TypeOK, ReqInv, UserInv, User, At, Moves, Steps, ReqRecord
<1>5. ReqInv'
  BY <1>1 DEF IInv, ReqInv, At, Moves
<1>6. IdInv'
  BY <1>1, <1>3 DEF IInv, IdInv, Moves
<1>7. UserInv'
  <2>1. UserTyped'
    BY <1>1 DEF IInv, ReqInv, UserInv, UserTyped, UserRecord, At, Moves, User
  <2>2. UserBegun'
    BY <1>1, UserFields DEF IInv, ReqInv, UserInv, UserTyped, UserBegun, At, Moves, User
  <2>3. UserSet'
    BY <1>1, UserFields DEF IInv, ReqInv, UserInv, UserTyped, UserSet, UserBegun, At, Moves, User
  <2>4. DeletionKnows'
    BY <1>1, UserFields, SMTT(20) DEF IInv, ReqInv, UserInv, UserTyped, DeletionKnows, UserBegun, At, Moves, User
  <2>5. DeletionHasRemoved'
    <3> SUFFICES ASSUME NEW d \in Request, At(d, "store")'
                 PROVE  /\ \A u \in users' : u.uid # req'[d].uid
                        /\ req'[req'[d].uid].pc \in {"claims", "reload", "remove", "undo", "over", "ended"}
                        /\ \A e \in Request : At(e, "store")' /\ req'[e].uid = req'[d].uid => e = d
      BY DEF DeletionHasRemoved
    <3>1. \A o \in Request : At(o, "store") \/ At(o, "delete") => req[o].uid \in Request
      BY DEF IInv, ReqInv, At
    <3>2. \A o \in Request : At(o, "store") =>
            /\ \A u \in users : u.uid # req[o].uid
            /\ req[req[o].uid].pc \in {"claims", "reload", "remove", "undo", "over", "ended"}
            /\ \A e \in Request : At(e, "store") /\ req[e].uid = req[o].uid => e = o
      BY DEF IInv, UserInv, DeletionHasRemoved
    <3>3. CASE d # r
      <4>1. req'[d] = req[d] /\ At(d, "store") /\ users' \subseteq users
        BY <1>1, <3>3 DEF At, Moves
      <4>2. At(r, "store")' => User(req[r].uid) # {} /\ req'[r].uid = req[r].uid
        BY <1>1 DEF At, Moves
      <4>3. req[d].uid # r
        BY <1>1, <3>2, <4>1 DEF At
      <4> QED
        BY <1>1, <3>1, <3>2, <4>1, <4>2, <4>3 DEF At, Moves, User
    <3>4. CASE d = r
      <4>1. User(req[r].uid) # {} /\ users' = users \ User(req[r].uid) /\ Moves(r, "store", req[r].result)
        BY <1>1, <3>4 DEF At, Moves
      <4>2. req[req[r].uid].pc \in {"claims", "reload", "remove", "undo", "over", "ended"} /\ req[r].uid # r
        BY <1>1 DEF IInv, UserInv, DeletionKnows, At
      <4> QED
        BY <1>1, <3>1, <3>2, <3>4, <4>1, <4>2 DEF At, Moves, User
    <3> QED
      BY <3>3, <3>4
  <2> QED
    BY <2>1, <2>2, <2>3, <2>4, <2>5 DEF UserInv
<1>8. RowInv'
  BY <1>1 DEF IInv, TypeOK, ReqInv, RowInv, At, Moves
<1>9. OwnInv'
  <2> DEFINE Own == /\ \A u \in users : u.role = "store_manager" => HasStore(u.uid, u.store)
                    /\ \A o \in Request :
                         /\ req[o].pc \in {"lookup", "create", "claims", "reload", "remove", "undo"} /\ ~req[o].hq
                              => HasStore(o, req[o].id)
                         /\ At(o, "store") => At(req[o].uid, "ended") /\ HasStore(req[o].uid, req[o].id)
                         /\ At(o, "undo") => \A u \in User(o) : u.role # "store_manager"
                         /\ At(o, "remove") => \A u \in User(o) : u.role = "store_manager" => faults = 1
  <2> SUFFICES ASSUME faults' <= 1, ~early' PROVE Own'
    BY DEF OwnInv
  <2>0. faults <= 1 /\ ~early /\ Own
    BY <1>1, <1>2 DEF IInv, TypeOK, OwnInv
  <2>1. \A o, n : HasStore(o, n) => HasStore(o, n)'
    BY <1>1 DEF HasStore
  <2>2. \A u \in users' : u.role = "store_manager" => HasStore(u.uid, u.store)'
    BY <1>1, <2>0, <2>1 DEF User
  <2>3. ASSUME NEW o \in Request,
              req'[o].pc \in {"lookup", "create", "claims", "reload", "remove", "undo"}, ~req'[o].hq
       PROVE  HasStore(o, req[o].id)'
    BY <1>1, <2>3, <2>0, <2>1 DEF At, Moves
  <2>4. ASSUME NEW o \in Request, At(o, "store")'
       PROVE  At(req[o].uid, "ended")' /\ HasStore(req[o].uid, req[o].id)'
    <3>1. CASE o # r
      BY <1>1, <2>4, <2>0, <2>1, <3>1 DEF IInv, ReqInv, UserInv, DeletionHasRemoved, At, Moves
    <3>2. CASE o = r
      <4>1. /\ users' = users \ User(req[r].uid) /\ User(req[r].uid) # {}
            /\ req'[r].uid = req[r].uid /\ req'[r].id = req[r].id
        BY <1>1, <2>4, <3>2 DEF Moves, At
      <4>2. PICK u \in users : u.uid = req[r].uid
        BY <4>1 DEF User
      <4>3. At(req[r].uid, "ended")
        <5>1. users' # users
          BY <4>1, <4>2 DEF User
        <5> QED
          BY <1>1, <5>1
      <4>4. u.role = "store_manager" /\ u.store = req[r].id
        BY <1>1, <4>2 DEF IInv, UserInv, DeletionKnows
      <4>5. HasStore(req[r].uid, req[r].id)'
        BY <1>1, <2>0, <4>1, <4>2, <4>4 DEF HasStore
      <4>6. req'[req[r].uid] = req[req[r].uid]
        BY <1>1, <4>2, <4>3, UserFields DEF At, Moves
      <4> QED
        BY <3>2, <4>1, <4>3, <4>5, <4>6 DEF At, HasStore
    <3> QED
      BY <3>1, <3>2
  <2>5. ASSUME NEW o \in Request, At(o, "undo")' PROVE \A u \in User(o)' : u.role # "store_manager"
    BY <1>1, <2>5, <2>0 DEF At, Moves, User
  <2>6. ASSUME NEW o \in Request, At(o, "remove")' PROVE \A u \in User(o)' : u.role = "store_manager" => faults' = 1
    BY <1>1, <1>2, <2>6, <2>0 DEF At, Moves, User
  <2> QED
    BY <2>2, <2>3, <2>4, <2>5, <2>6
<1>10. CleanInv'
  <2> SUFFICES ASSUME faults' = 0 PROVE CleanInv'
    BY DEF CleanInv
  <2>0. /\ \A s \in rows :
             \/ ~At(s.by, "ended")
             \/ \E u \in users : u.uid = s.by /\ u.store = s.id
             \/ \E d \in Request : At(d, "store") /\ req[d].id = s.id
        /\ \A u \in users : u.role = "none" => At(u.uid, "claims")
        /\ \A o \in Request :
             /\ req[o].pc \in {"undo", "over"} => User(o) = {}
             /\ req[o].result = "failed" => At(o, "ended") /\ User(o) = {} /\ \A s \in rows : s.by # o
    BY <1>1, <1>2, FailCounts DEF IInv, TypeOK, CleanInv
  <2>1. /\ \A u \in users : u.uid \in Request /\ req[u.uid].pc \in {"claims", "reload", "remove", "undo", "over", "ended"}
        /\ \A s \in rows : s.by \in Request
                           /\ req[s.by].pc \in {"lookup", "create", "claims", "reload", "remove", "undo", "ended"}
    BY DEF IInv, TypeOK, UserInv, UserBegun, RowInv
  <2>2. \/ users' = users \ User(req[r].uid) /\ Moves(r, "store", req[r].result)
        \/ users' = users /\ User(req[r].uid) = {} /\ Moves(r, "ended", "failed")
    BY <1>1, <1>2, FailCounts DEF IInv
  <2>a. \A u \in User(req[r].uid) : u.store = req[r].id
    BY <1>1 DEF IInv, UserInv, DeletionKnows, User
  <2>b. \A s \in rows : s.by # r
    BY <1>1, <2>1 DEF At
  <2>c. User(r) = {}
    BY <1>1, <2>1 DEF At, User
  <2>3. ASSUME NEW s \in rows'
        PROVE  \/ ~At(s.by, "ended")'
               \/ \E u \in users' : u.uid = s.by /\ u.store = s.id
               \/ \E d \in Request : At(d, "store")' /\ req'[d].id = s.id
    <3>1. s \in rows /\ s.by # r
      BY <1>1, <2>b, <2>3
    <3>2. CASE ~At(s.by, "ended") \/ \E d \in Request : At(d, "store") /\ req[d].id = s.id
      BY <1>1, <2>1, <2>2, <3>1, <3>2 DEF At, Moves
    <3>3. ASSUME NEW u \in users, u.uid = s.by, u.store = s.id
          PROVE  u \in users' \/ (At(r, "store")' /\ req'[r].id = s.id)
      BY <2>2, <2>a, <3>3 DEF At, Moves, User
    <3> QED
      BY <2>0, <3>1, <3>2, <3>3
  <2>4. \A u \in users' : u.role = "none" => At(u.uid, "claims")'
    BY <1>1, <2>0, <2>1, <2>2 DEF At, Moves, User
  <2>5. \A o \in Request : req'[o].pc \in {"undo", "over"} => User(o)' = {}
    BY <1>1, <2>0, <2>1, <2>2 DEF At, Moves, User
  <2>6. \A o \in Request : req'[o].result = "failed" =>
          At(o, "ended")' /\ User(o)' = {} /\ \A s \in rows' : s.by # o
    BY <2>b, <2>c, <1>1, <2>0, <2>1, <2>2 DEF At, Moves, User
  <2> QED
    BY <2>3, <2>4, <2>5, <2>6 DEF CleanInv
<1> QED
  BY <1>4, <1>5, <1>6, <1>7, <1>8, <1>9, <1>10 DEF IInv

LEMMA DeleteStoreStep == ASSUME IInv, NEW r \in Request, DeleteStore(r) PROVE IInv'
<1>1. /\ At(r, "store") /\ UNCHANGED <<users, early>>
     /\ \/ rows' = Without(req[r].id) /\ Moves(r, "ended", "deleted") /\ faults' = faults
        \/ rows' = rows /\ Moves(r, "ended", "failed") /\ Fail
  BY GoMoves, EndMoves DEF DeleteStore, Works, IInv, Steps, Results, AfterFailure
<1>2. faults' \in 0..MaxFaults /\ faults \in Nat /\ (faults' = faults \/ faults' = faults + 1)
  BY <1>1, FailCounts DEF IInv, TypeOK
<1>3. Begun' = Begun
  BY <1>1, SameBegun DEF At, AfterFailure
<1>4. TypeOK'
  BY <1>1, <1>2, ZenonT(30) DEF IInv, TypeOK, ReqInv, UserInv, User, At, Moves, Steps, ReqRecord, Without
<1>5. ReqInv'
  BY <1>1 DEF IInv, ReqInv, At, Moves
<1>6. IdInv'
  BY <1>1, <1>3 DEF IInv, IdInv, Moves, Without
<1>7. UserInv'
  <2>1. UserTyped'
    BY <1>1 DEF IInv, ReqInv, UserInv, UserTyped, UserRecord, At, Moves, User, Without
  <2>2. UserBegun'
    BY <1>1, UserFields DEF IInv, ReqInv, UserInv, UserTyped, UserBegun, At, Moves, User, Without
  <2>3. UserSet'
    BY <1>1, UserFields DEF IInv, ReqInv, UserInv, UserTyped, UserSet, UserBegun, At, Moves, User, Without
  <2>4. DeletionKnows'
    BY <1>1, UserFields DEF IInv, ReqInv, UserInv, UserTyped, DeletionKnows, UserBegun, At, Moves, User, Without
  <2>5. DeletionHasRemoved'
    BY <1>1, UserFields DEF IInv, ReqInv, UserInv, UserTyped, DeletionHasRemoved, UserBegun, At, Moves, User, Without
  <2> QED
    BY <2>1, <2>2, <2>3, <2>4, <2>5 DEF UserInv
<1>8. RowInv'
  BY <1>1 DEF IInv, TypeOK, ReqInv, RowInv, At, Moves, Without
<1>9. OwnInv'
  <2> SUFFICES ASSUME faults' <= 1, ~early'
               PROVE  /\ \A u \in users' : u.role = "store_manager" => HasStore(u.uid, u.store)'
                      /\ \A o \in Request :
                           /\ req'[o].pc \in {"lookup", "create", "claims", "reload", "remove", "undo"} /\ ~req'[o].hq
                                => HasStore(o, req[o].id)'
                           /\ At(o, "store")' => At(req[o].uid, "ended")' /\ HasStore(req[o].uid, req[o].id)'
                           /\ At(o, "undo")' => \A u \in User(o)' : u.role # "store_manager"
                           /\ At(o, "remove")' => \A u \in User(o)' : u.role = "store_manager" => faults' = 1
    BY DEF OwnInv
  <2>0. /\ faults <= 1 /\ ~early
        /\ \A u \in users : u.role = "store_manager" => HasStore(u.uid, u.store)
        /\ \A o \in Request :
             /\ req[o].pc \in {"lookup", "create", "claims", "reload", "remove", "undo"} /\ ~req[o].hq
                  => HasStore(o, req[o].id)
             /\ At(o, "store") => At(req[o].uid, "ended") /\ HasStore(req[o].uid, req[o].id)
             /\ At(o, "undo") => \A u \in User(o) : u.role # "store_manager"
             /\ At(o, "remove") => \A u \in User(o) : u.role = "store_manager" => faults = 1
    BY <1>1, <1>2 DEF IInv, TypeOK, OwnInv
  <2>7. \A o \in Request : At(o, "store") => req[o].uid \in Request
    BY DEF IInv, ReqInv, At
  <2>1. ASSUME NEW o, NEW n, HasStore(o, n), o # req[r].uid PROVE HasStore(o, n)'
    <3>1. PICK t \in rows : t.id = req[r].id /\ t.by = req[r].uid
      BY <1>1, <2>0 DEF HasStore
    <3>2. PICK s \in rows : s.id = n /\ s.by = o
      BY <2>1 DEF HasStore
    <3>3. s.id # req[r].id
      BY <2>1, <3>1, <3>2 DEF IInv, TypeOK
    <3> QED
      BY <1>1, <3>2, <3>3 DEF HasStore, Without
  <2>8. /\ At(req[r].uid, "ended") /\ req[r].uid \in Request
        /\ \A u \in users : u.uid # req[r].uid
        /\ \A e \in Request : At(e, "store") /\ req[e].uid = req[r].uid => e = r
    BY <1>1, <2>0, <2>7 DEF IInv, UserInv, DeletionHasRemoved
  <2>2. \A u \in users' : u.role = "store_manager" => HasStore(u.uid, u.store)'
    BY <1>1, <2>0, <2>1, <2>8
  <2>3. ASSUME NEW o \in Request,
              req'[o].pc \in {"lookup", "create", "claims", "reload", "remove", "undo"}, ~req'[o].hq
       PROVE  HasStore(o, req[o].id)'
    BY <1>1, <2>0, <2>1, <2>3, <2>8 DEF At, Moves
  <2>4. ASSUME NEW o \in Request, At(o, "store")'
       PROVE  At(req[o].uid, "ended")' /\ HasStore(req[o].uid, req[o].id)'
    BY <1>1, <2>0, <2>1, <2>4, <2>7, <2>8 DEF At, Moves
  <2>5. ASSUME NEW o \in Request, At(o, "undo")' PROVE \A u \in User(o)' : u.role # "store_manager"
    BY <1>1, <2>0, <2>5 DEF At, Moves, User
  <2>6. ASSUME NEW o \in Request, At(o, "remove")' PROVE \A u \in User(o)' : u.role = "store_manager" => faults' = 1
    BY <1>1, <1>2, <2>0, <2>6 DEF At, Moves, User
  <2> QED
    BY <2>2, <2>3, <2>4, <2>5, <2>6
<1>10. CleanInv'
  <2> SUFFICES ASSUME faults' = 0 PROVE CleanInv'
    BY DEF CleanInv
  <2>0. /\ \A s \in rows :
             \/ ~At(s.by, "ended")
             \/ \E u \in users : u.uid = s.by /\ u.store = s.id
             \/ \E d \in Request : At(d, "store") /\ req[d].id = s.id
        /\ \A u \in users : u.role = "none" => At(u.uid, "claims")
        /\ \A o \in Request :
             /\ req[o].pc \in {"undo", "over"} => User(o) = {}
             /\ req[o].result = "failed" => At(o, "ended") /\ User(o) = {} /\ \A s \in rows : s.by # o
    BY <1>1, <1>2, FailCounts DEF IInv, TypeOK, CleanInv
  <2>1. /\ \A u \in users : u.uid \in Request /\ req[u.uid].pc \in {"claims", "reload", "remove", "undo", "over", "ended"}
        /\ \A s \in rows : s.by \in Request
                           /\ req[s.by].pc \in {"lookup", "create", "claims", "reload", "remove", "undo", "ended"}
    BY DEF IInv, TypeOK, UserInv, UserBegun, RowInv
  <2>2. rows' = Without(req[r].id) /\ Moves(r, "ended", "deleted")
    BY <1>1, <1>2, FailCounts DEF IInv
  <2>a. User(r) = {}
    BY <1>1, <2>1 DEF User, At
  <2>3. ASSUME NEW s \in rows'
        PROVE  \/ ~At(s.by, "ended")'
               \/ \E u \in users' : u.uid = s.by /\ u.store = s.id
               \/ \E d \in Request : At(d, "store")' /\ req'[d].id = s.id
    <3>1. s \in rows /\ s.id # req[r].id /\ s.by # r
      BY <1>1, <2>1, <2>2, <2>3 DEF Without, At
    <3> QED
      BY <1>1, <2>0, <2>1, <2>2, <3>1 DEF At, Moves
  <2>4. \A u \in users' : u.role = "none" => At(u.uid, "claims")'
    BY <1>1, <2>0, <2>1, <2>2 DEF At, Moves
  <2>5. \A o \in Request : req'[o].pc \in {"undo", "over"} => User(o)' = {}
    BY <1>1, <2>0, <2>1, <2>2 DEF At, Moves, User
  <2>6. \A o \in Request : req'[o].result = "failed" =>
          At(o, "ended")' /\ User(o)' = {} /\ \A s \in rows' : s.by # o
    BY <1>1, <2>0, <2>1, <2>2 DEF At, Moves, User, Without
  <2> QED
    BY <2>3, <2>4, <2>5, <2>6 DEF CleanInv
<1> QED
  BY <1>4, <1>5, <1>6, <1>7, <1>8, <1>9, <1>10 DEF IInv

-----------------------------------------------------------------------------
(* New requests *)

\* A set of numbers with 0 in it and a bound has a largest number.
LEMMA LargestNumber ==
  ASSUME NEW S, S \subseteq Nat, 0 \in S, NEW b \in Nat, \A x \in S : x <= b
  PROVE  Max(S) \in S /\ Max(S) <= b /\ \A x \in S : x <= Max(S)
<1> DEFINE T == {n \in Nat : \A x \in S : x <= n}
<1>1. T \subseteq Nat /\ T # {}
  OBVIOUS
<1>2. PICK m \in T : \A n \in T : ~(<<n, m>> \in OpToRel(<, Nat))
  BY <1>1, NatLessThanWellFounded, WFMin
<1>3. \A n \in T : ~(n < m)
  BY <1>1, <1>2 DEF OpToRel
<1>4. m \in S
  <2>1. SUFFICES ASSUME m \notin S PROVE FALSE
    OBVIOUS
  <2>2. \A x \in S : x < m
    BY <2>1
  <2>3. m - 1 \in T /\ m - 1 < m
    BY <2>2
  <2> QED
    BY <1>3, <2>3
<1>5. \A x \in S : m >= x
  OBVIOUS
<1>6. Max(S) \in S /\ \A x \in S : Max(S) >= x
  BY <1>4, <1>5 DEF Max
<1> QED
  BY <1>6

\* A new store's number is at most one more than the requests begun.
LEMMA NextIdBound ==
  ASSUME IInv PROVE NextId \in Nat /\ NextId > 0 /\ NextId <= Cardinality(Begun) + 1
<1> DEFINE S == {s.id : s \in rows} \cup {0}
<1>1. Cardinality(Begun) \in Nat
  BY BegunNat
<1>2. S \subseteq Nat /\ 0 \in S /\ \A x \in S : x <= Cardinality(Begun)
  BY <1>1, MaxIdNat DEF IInv, TypeOK, IdInv
<1>3. NextId = Max(S) + 1
  BY DEF NextId
<1> HIDE DEF S
<1>4. Max(S) \in S /\ Max(S) <= Cardinality(Begun)
  BY <1>1, <1>2, LargestNumber
<1>5. Max(S) \in Nat
  BY <1>2, <1>4
<1> HIDE DEF Max
<1> QED
  BY <1>1, <1>3, <1>4, <1>5

\* A first step adds its request to those begun.
LEMMA OneMoreBegun ==
  ASSUME IInv, NEW r \in Request, At(r, "new"), req'[r].pc # "new", \A o \in Request : o # r => req'[o] = req[o]
  PROVE  /\ Cardinality(Begun)' = Cardinality(Begun) + 1
         /\ Cardinality(Begun) \in Nat /\ Cardinality(Begun) + 1 <= MaxId
<1>1. Begun' = Begun \cup {r} /\ r \notin Begun
  BY DEF Begun, At
<1>2. IsFiniteSet(Begun) /\ Begun \cup {r} \subseteq Request
  BY BoundsAssumption, FS_Subset DEF Begun
<1>3. Cardinality(Begun \cup {r}) = Cardinality(Begun) + 1
  BY <1>1, <1>2, FS_AddElement
<1>4. Cardinality(Begun \cup {r}) <= MaxId
  BY <1>2, BoundsAssumption, FS_Subset DEF MaxId
<1>5. Cardinality(Begun) \in Nat
  BY <1>2, FS_CardinalityType
<1> QED
  BY <1>1, <1>3, <1>4, <1>5

LEMMA BeginCreateStep ==
  ASSUME IInv, NEW r \in Request, NEW e \in Email, NEW n \in Name, BeginCreate(r, e, n) PROVE IInv'
<1>1. /\ At(r, "new") /\ UNCHANGED <<users, rows, early, faults>>
      /\ req' \in [Request -> ReqRecord] /\ \A o \in Request : o # r => req'[o] = req[o]
      /\ req'[r].pc = "insert" /\ req'[r].hq = req[r].hq /\ req'[r].email = e /\ req'[r].name = n
      /\ req'[r].id = NextId /\ req'[r].result = req[r].result
  <2>1. At(r, "new") /\ UNCHANGED <<users, rows, early, faults>>
    BY DEF BeginCreate
  <2>2. req \in [Request -> ReqRecord] /\ req[r] \in ReqRecord
    BY DEF IInv, ReqInv
  <2>q. PICK q \in ReqRecord : q = req[r]
    BY <2>2
  <2>3. PICK m : m = [q EXCEPT !.pc = "insert", !.email = e, !.name = n, !.id = NextId]
    OBVIOUS
  <2>4. req' = [req EXCEPT ![r] = m]
    BY <2>q, <2>3 DEF BeginCreate
  <2>5. NextId \in 0..MaxId
    <3>1. NextId \in Nat /\ NextId <= Cardinality(Begun) + 1
      BY NextIdBound
    <3>2. Cardinality(Begun) + 1 <= MaxId /\ Cardinality(Begun) \in Nat
      <4>1. req'[r].pc # "new" /\ \A o \in Request : o # r => req'[o] = req[o]
        BY <2>2, <2>q, <2>3, <2>4 DEF ReqRecord
      <4> QED
        BY <2>1, <4>1, OneMoreBegun
    <3> QED
      BY <3>1, <3>2, MaxIdNat
  <2>6. /\ m \in ReqRecord /\ m.pc = "insert" /\ m.email = e /\ m.name = n /\ m.id = NextId
        /\ m.hq = req[r].hq /\ m.result = req[r].result
    BY <2>q, <2>3, <2>5 DEF ReqRecord, Steps
  <2> QED
    BY <2>1, <2>2, <2>4, <2>6
<1>2. faults' \in 0..MaxFaults /\ faults \in Nat /\ (faults' = faults \/ faults' = faults + 1)
  BY <1>1, FailCounts DEF IInv, TypeOK
<1>4. TypeOK'
  BY <1>1, <1>2 DEF IInv, TypeOK, ReqRecord, Results
<1>5. ReqInv'
  BY <1>1, NextIdBound DEF IInv, ReqInv, At
<1>3. Cardinality(Begun)' = Cardinality(Begun) + 1 /\ Cardinality(Begun) \in Nat
  BY <1>1, OneMoreBegun DEF At
<1>6. IdInv'
  BY <1>1, <1>3, NextIdBound, MaxIdNat DEF IInv, IdInv, TypeOK
<1>7. UserInv'
  <2>1. UserTyped'
    BY <1>1 DEF IInv, UserInv, UserTyped
  <2>2. UserBegun'
    BY <1>1, UserFields DEF IInv, UserInv, UserBegun, At
  <2>3. UserSet'
    BY <1>1, UserFields DEF IInv, UserInv, UserSet, At
  <2>4. DeletionKnows'
    BY <1>1, UserFields DEF IInv, ReqInv, UserInv, UserBegun, DeletionKnows, At, User
  <2>5. DeletionHasRemoved'
    BY <1>1, UserFields DEF IInv, ReqInv, UserInv, DeletionHasRemoved, At
  <2> QED
    BY <2>1, <2>2, <2>3, <2>4, <2>5 DEF UserInv
<1>8. RowInv'
  BY <1>1 DEF IInv, TypeOK, RowInv, At
<1>9. OwnInv'
  BY <1>1, <1>2, FailCounts, UserFields DEF IInv, ReqInv, TypeOK, OwnInv, HasStore, User, At
<1>10. CleanInv'
  BY <1>1, <1>2, FailCounts, UserFields DEF IInv, TypeOK, UserInv, UserBegun, RowInv, CleanInv, User, At
<1> QED
  BY <1>4, <1>5, <1>6, <1>7, <1>8, <1>9, <1>10 DEF IInv

LEMMA SignUpStep ==
  ASSUME IInv, NEW r \in Request, NEW e \in Email, SignUp(r, e) PROVE IInv'
<1>1. /\ At(r, "new") /\ UNCHANGED <<users, rows, early, faults>>
      /\ req' \in [Request -> ReqRecord] /\ \A o \in Request : o # r => req'[o] = req[o]
      /\ req'[r].pc = "lookup" /\ req'[r].hq /\ req'[r].email = e
      /\ req'[r].id = req[r].id /\ req'[r].result = req[r].result
  <2>1. At(r, "new") /\ UNCHANGED <<users, rows, early, faults>>
    BY DEF SignUp
  <2>2. req \in [Request -> ReqRecord] /\ req[r] \in ReqRecord
    BY DEF IInv, ReqInv
  <2>q. PICK q \in ReqRecord : q = req[r]
    BY <2>2
  <2>3. PICK m : m = [q EXCEPT !.pc = "lookup", !.email = e, !.hq = TRUE]
    OBVIOUS
  <2>4. req' = [req EXCEPT ![r] = m]
    BY <2>q, <2>3 DEF SignUp
  <2>5. /\ m \in ReqRecord /\ m.pc = "lookup" /\ m.email = e /\ m.hq
        /\ m.id = req[r].id /\ m.result = req[r].result
    BY <2>q, <2>3 DEF ReqRecord, Steps
  <2> QED
    BY <2>1, <2>2, <2>4, <2>5
<1>2. faults' \in 0..MaxFaults /\ faults \in Nat /\ (faults' = faults \/ faults' = faults + 1)
  BY <1>1, FailCounts DEF IInv, TypeOK
<1>4. TypeOK'
  BY <1>1, <1>2 DEF IInv, TypeOK, ReqRecord, Results
<1>5. ReqInv'
  BY <1>1 DEF IInv, ReqInv, At
<1>3. Cardinality(Begun)' = Cardinality(Begun) + 1 /\ Cardinality(Begun) \in Nat
  BY <1>1, OneMoreBegun DEF At
<1>6. IdInv'
  BY <1>1, <1>3, MaxIdNat DEF IInv, IdInv, TypeOK
<1>7. UserInv'
  <2>1. UserTyped'
    BY <1>1 DEF IInv, UserInv, UserTyped
  <2>2. UserBegun'
    BY <1>1, UserFields DEF IInv, UserInv, UserBegun, At
  <2>3. UserSet'
    BY <1>1, UserFields DEF IInv, UserInv, UserSet, At
  <2>4. DeletionKnows'
    BY <1>1, UserFields DEF IInv, ReqInv, UserInv, UserBegun, DeletionKnows, At, User
  <2>5. DeletionHasRemoved'
    BY <1>1, UserFields DEF IInv, ReqInv, UserInv, DeletionHasRemoved, At
  <2> QED
    BY <2>1, <2>2, <2>3, <2>4, <2>5 DEF UserInv
<1>8. RowInv'
  BY <1>1 DEF IInv, TypeOK, RowInv, At
<1>9. OwnInv'
  BY <1>1, <1>2, FailCounts, UserFields DEF IInv, ReqInv, TypeOK, OwnInv, HasStore, User, At
<1>10. CleanInv'
  BY <1>1, <1>2, FailCounts, UserFields DEF IInv, TypeOK, UserInv, UserBegun, RowInv, CleanInv, User, At
<1> QED
  BY <1>4, <1>5, <1>6, <1>7, <1>8, <1>9, <1>10 DEF IInv

LEMMA BeginDeleteStep ==
  ASSUME IInv, NEW r \in Request, NEW uid \in Request, BeginDelete(r, uid) PROVE IInv'
<1>1. /\ At(r, "new") /\ UNCHANGED <<users, rows, early>>
      /\ req' \in [Request -> ReqRecord] /\ \A o \in Request : o # r => req'[o] = req[o]
      /\ req'[r].hq = req[r].hq
      /\ \/ /\ req'[r].pc = "delete" /\ req'[r].uid = uid /\ req'[r].result = req[r].result
            /\ faults' = faults
            /\ \E u \in users : u.uid = uid /\ u.role = "store_manager" /\ u.store = req'[r].id
         \/ /\ req'[r].pc = "ended" /\ req'[r].id = req[r].id
            /\ req'[r].result = "refused" /\ faults' = faults
         \/ /\ req'[r].pc = "ended" /\ req'[r].id = req[r].id
            /\ req'[r].result = "failed" /\ Fail
  <2>1. At(r, "new") /\ UNCHANGED <<users, rows, early>>
    BY DEF BeginDelete
  <2>2. req \in [Request -> ReqRecord] /\ req[r] \in ReqRecord
    BY DEF IInv, ReqInv
  <2>q. PICK q \in ReqRecord : q = req[r]
    BY <2>2
  <2>3. CASE End(r, "refused") /\ Works
    BY <2>1, <2>3, EndMoves DEF IInv, Moves, Results, Works
  <2>4. CASE End(r, "failed") /\ Fail
    BY <2>1, <2>4, EndMoves DEF IInv, Moves, Results
  <2>5. CASE \E u \in User(uid) :
               /\ u.role = "store_manager"
               /\ req' = [req EXCEPT ![r] = [@ EXCEPT !.pc = "delete", !.uid = uid, !.id = u.store]]
               /\ Works
    <3>1. PICK u \in User(uid) :
            /\ u.role = "store_manager"
            /\ req' = [req EXCEPT ![r] = [req[r] EXCEPT !.pc = "delete", !.uid = uid, !.id = u.store]]
            /\ faults' = faults
      BY <2>5 DEF Works
    <3>2. PICK m : m = [q EXCEPT !.pc = "delete", !.uid = uid, !.id = u.store]
      OBVIOUS
    <3>3. u \in users /\ u.uid = uid /\ u.store \in 0..MaxId
      BY <3>1, UserFields DEF User
    <3>4. /\ m \in ReqRecord /\ m.pc = "delete" /\ m.uid = uid /\ m.id = u.store
          /\ m.hq = req[r].hq /\ m.result = req[r].result
      BY <2>q, <3>2, <3>3 DEF ReqRecord, Steps
    <3>5. req' = [req EXCEPT ![r] = m]
      BY <2>q, <3>1, <3>2
    <3> QED
      BY <2>1, <2>2, <3>1, <3>3, <3>4, <3>5
  <2> QED
    BY <2>3, <2>4, <2>5 DEF BeginDelete
<1>2. faults' \in 0..MaxFaults /\ faults \in Nat /\ (faults' = faults \/ faults' = faults + 1)
  BY <1>1, FailCounts DEF IInv, TypeOK
<1>4. TypeOK'
  BY <1>1, <1>2 DEF IInv, TypeOK, ReqRecord, Results
<1>5. ReqInv'
  BY <1>1 DEF IInv, ReqInv, At
<1>3. Cardinality(Begun)' = Cardinality(Begun) + 1 /\ Cardinality(Begun) \in Nat
  BY <1>1, OneMoreBegun DEF At
<1>6. IdInv'
  BY <1>1, <1>3, MaxIdNat DEF IInv, IdInv, TypeOK
<1>7. UserInv'
  <2>1. UserTyped'
    BY <1>1 DEF IInv, UserInv, UserTyped
  <2>2. UserBegun'
    BY <1>1, UserFields DEF IInv, UserInv, UserBegun, At
  <2>3. UserSet'
    BY <1>1, UserFields DEF IInv, UserInv, UserSet, At
  <2>4. DeletionKnows'
    <3> SUFFICES ASSUME NEW d \in Request, At(d, "delete")'
                 PROVE  /\ \A u \in users : u.uid = req'[d].uid => u.role = "store_manager" /\ u.store = req'[d].id
                        /\ req'[req'[d].uid].pc \in {"claims", "reload", "remove", "undo", "over", "ended"}
      BY <1>1 DEF DeletionKnows
    <3>1. CASE d # r
      BY <1>1, <3>1 DEF IInv, ReqInv, UserInv, DeletionKnows, At
    <3>2. CASE d = r
      <4>1. req'[r].uid = uid /\ \E u \in users : u.uid = uid /\ u.role = "store_manager" /\ u.store = req'[r].id
        BY <1>1, <3>2 DEF At
      <4>2. \A u, v \in users : u.uid = v.uid => u = v
        BY DEF IInv, TypeOK
      <4>3. req[uid].pc \in {"claims", "reload", "remove", "undo", "over", "ended"}
        BY <4>1 DEF IInv, UserInv, UserBegun
      <4>4. req'[uid] = req[uid]
        BY <1>1, <4>3 DEF At
      <4> QED
        BY <3>2, <4>1, <4>2, <4>3, <4>4
    <3> QED
      BY <3>1, <3>2
  <2>5. DeletionHasRemoved'
    BY <1>1, UserFields DEF IInv, ReqInv, UserInv, DeletionHasRemoved, At
  <2> QED
    BY <2>1, <2>2, <2>3, <2>4, <2>5 DEF UserInv
<1>8. RowInv'
  BY <1>1 DEF IInv, TypeOK, RowInv, At
<1>9. OwnInv'
  BY <1>1, <1>2, FailCounts, UserFields DEF IInv, ReqInv, TypeOK, OwnInv, HasStore, User, At
<1>10. CleanInv'
  BY <1>1, <1>2, FailCounts, UserFields DEF IInv, TypeOK, UserInv, UserBegun, RowInv, CleanInv, User, At
<1> QED
  BY <1>4, <1>5, <1>6, <1>7, <1>8, <1>9, <1>10 DEF IInv

-----------------------------------------------------------------------------
(* The invariant and what follows from it *)

LEMMA InitInv == Init => IInv
<1> SUFFICES ASSUME Init PROVE IInv
  OBVIOUS
<1>1. users = {} /\ rows = {} /\ early = FALSE /\ faults = 0 /\ MaxId \in Nat
  BY MaxIdNat DEF Init
<1>2. NewRequest \in ReqRecord
  BY <1>1 DEF NewRequest, NoStore, ReqRecord, Steps, Results
<1>3. /\ NewRequest.pc = "new" /\ ~NewRequest.hq /\ NewRequest.id = 0 /\ NewRequest.result = "none"
  BY DEF NewRequest, NoStore
<1>4. req = [r \in Request |-> NewRequest]
  BY DEF Init
<1> HIDE DEF NewRequest
<1>5. \A r \in Request : req[r] \in ReqRecord /\ req[r] = NewRequest
  BY <1>2, <1>4
<1>6. TypeOK
  <2>1. \A r \in Request : req[r].pc \in Steps /\ req[r].id \in 0..MaxId /\ req[r].result \in Results
    BY <1>5 DEF ReqRecord
  <2>2. early \in BOOLEAN
    BY <1>1, Zenon
  <2>3. faults \in 0..MaxFaults
    BY <1>1, BoundsAssumption
  <2> QED
    BY <1>1, <2>1, <2>2, <2>3 DEF TypeOK, Results
<1>7. ReqInv
  BY <1>3, <1>4, <1>5 DEF ReqInv
<1>8. IdInv
  BY <1>1, <1>3, <1>5, BegunNat DEF IdInv
<1> QED
  BY <1>1, <1>3, <1>5, <1>6, <1>7, <1>8
     DEF IInv, UserInv, UserTyped, UserBegun, UserSet, DeletionKnows, DeletionHasRemoved, RowInv, OwnInv,
         CleanInv, At, User

LEMMA NextInv == IInv /\ [Next]_vars => IInv'
<1> SUFFICES ASSUME IInv, [Next]_vars PROVE IInv'
  OBVIOUS
<1>1. ASSUME NEW r \in Request, Step(r) PROVE IInv'
  BY <1>1, InsertStoreStep, LookUpEmailStep, CreateUserStep, SetClaimsStep, ReloadStep, RemoveUserStep,
     UndoStep, OverStep, DeleteUserStep, DeleteStoreStep DEF Step
<1>2. ASSUME NEW r \in Request, NEW e \in Email, SignUp(r, e) PROVE IInv'
  BY <1>2, SignUpStep
<1>3. ASSUME NEW r \in Request, NEW e \in Email, NEW n \in Name, BeginCreate(r, e, n) PROVE IInv'
  BY <1>3, BeginCreateStep
<1>4. ASSUME NEW r \in Request, NEW uid \in Request, BeginDelete(r, uid) PROVE IInv'
  BY <1>4, BeginDeleteStep
<1>5. CASE UNCHANGED vars
  BY <1>5 DEF vars, IInv, TypeOK, ReqInv, IdInv, Begun, UserInv, UserTyped, UserBegun, UserSet,
     DeletionKnows, DeletionHasRemoved, RowInv, OwnInv, HasStore, CleanInv, At, User
<1> QED
  BY <1>1, <1>2, <1>3, <1>4, <1>5 DEF Next

LEMMA Invariance == Spec => []IInv
BY InitInv, NextInv, PTL DEF Spec

\* Accounts, stores and requests are well typed; addresses, store numbers and names are unique,
\* and no number is larger than the number of requests.
THEOREM TypeCorrect == Spec => []TypeOK
<1>1. IInv => TypeOK
  BY DEF IInv
<1> QED
  BY <1>1, Invariance, PTL

\* While one call at most has failed, a manager's account refers to a store that is there and
\* that its own request made (create_store, delete_admin_user), however requests interleave.
THEOREM ManagersKeepTheirStore == Spec => []ManagersHaveTheirStore
<1>1. IInv => ManagersHaveTheirStore
  BY DEF IInv, OwnInv, HasStore, ManagersHaveTheirStore, Manager, StoreOf
<1> QED
  BY <1>1, Invariance, PTL

\* As long as no call fails no store, half-made account or store of a failed request is left
\* behind by interleaved requests.
THEOREM FailuresAreCleanedUp == Spec => []NothingLeftBehind
<1>1. ASSUME IInv, faults = 0, NEW s \in rows, \A u \in users : u.store # s.id
      PROVE  \E r \in Request : ~At(r, "ended") /\ req[r].id = s.id
  BY <1>1 DEF IInv, TypeOK, RowInv, CleanInv, At
<1>2. IInv => NothingLeftBehind
  BY <1>1 DEF IInv, CleanInv, NothingLeftBehind, At
<1> QED
  BY <1>2, Invariance, PTL

-----------------------------------------------------------------------------
(***************************************************************************)
(* The Kakao channel, whose customers ask about those stores (module       *)
(* KakaoChannel).  The inductive invariant says that a session holds what  *)
(* its customer was last told (SessionSaysTold) and that the directory in  *)
(* the cache tells of every store that has not changed since it was        *)
(* fetched (CacheSaysStores).                                              *)
(***************************************************************************)

\* What a session holds is what its customer was last told, until it expires; one
\* that is not there has expired or was taken back.
SessionSaysTold ==
  \A c \in Customer :
    \/ /\ session[c].store # NoChoice
       /\ session[c].store = told[c].store
       /\ session[c].expires = told[c].at + SessionTTL
    \/ /\ session[c] = NoSession
       /\ told[c].store = NoChoice \/ clock > told[c].at + SessionTTL

\* The cache holds the stores there were when they were fetched: those that have
\* not changed since the request began that fetched them are as they were.
CacheSaysStores ==
  /\ cache.at <= clock /\ started <= clock
  /\ \A s \in Store : since[s] <= clock
  /\ cache.listed => \A s \in Store : since[s] < cache.at => (s \in cache.stores <=> s \in stores)
  /\ \A m \in Message : InPhase(m, "route") => started <= cache.at + DirectoryTTL

Msg == [phase: Phases, in: Inputs, store: Store \cup {NoChoice}]
Sessions == [Customer -> [store: Store \cup {NoChoice}, expires: 0..(MaxClock + SessionTTL)]]
Tellings == [Customer -> [store: Store \cup {NoChoice}, at: 0..MaxClock]]

ChannelInv == ChannelTypeOK /\ SessionSaysTold /\ CacheSaysStores

LEMMA ChannelBegins ==
  ASSUME ChannelConstants, ChannelInit
  PROVE  ChannelInv
<1> USE DEF NoChoice, ChannelConstants
<1>1. Unsent \in [phase: Phases, in: Inputs, store: Store \cup {NoChoice}]
  BY DEF Unsent, NoInput, Inputs, Phases
<1>2. /\ clock \in 0..MaxClock /\ stores \subseteq Store /\ since \in [Store -> 0..MaxClock]
      /\ started \in 0..MaxClock /\ changes \in 0..MaxChanges /\ losses \in 0..MaxLost
  BY DEF ChannelInit
<1>3. /\ session \in [Customer -> [store: Store \cup {NoChoice}, expires: 0..(MaxClock + SessionTTL)]]
      /\ cache \in [stores: SUBSET Store, at: 0..MaxClock, filled: BOOLEAN, listed: BOOLEAN]
      /\ told \in [Customer -> [store: Store \cup {NoChoice}, at: 0..MaxClock]]
  BY DEF ChannelInit, NoSession, NotTold, NoCache
<1>4. /\ msg \in [Message -> [phase: Phases, in: Inputs, store: Store \cup {NoChoice}]]
      /\ \A m \in Message : msg[m] = Unsent
  BY <1>1 DEF ChannelInit
<1>5. \A m \in Message : loop # m /\ msg[m].phase = "unsent"
  BY <1>4 DEF ChannelInit, Message, NoMessage, Unsent
<1>6. ChannelTypeOK
  BY <1>2, <1>3, <1>4, <1>5 DEF ChannelTypeOK, InPhase
<1>7. SessionSaysTold
  BY DEF SessionSaysTold, ChannelInit, NoSession, NotTold
<1>8. CacheSaysStores
  BY <1>5 DEF CacheSaysStores, ChannelInit, NoCache, InPhase
<1> QED BY <1>6, <1>7, <1>8 DEF ChannelInv

\* The parts of the type invariant, and what it says of the event loop.
LEMMA ChannelTypes ==
  ASSUME ChannelConstants, ChannelTypeOK
  PROVE  /\ clock \in 0..MaxClock /\ stores \subseteq Store /\ since \in [Store -> 0..MaxClock]
         /\ session \in Sessions /\ told \in Tellings /\ msg \in [Message -> Msg]
         /\ cache \in [stores: SUBSET Store, at: 0..MaxClock, filled: BOOLEAN, listed: BOOLEAN]
         /\ started \in 0..MaxClock /\ changes \in 0..MaxChanges /\ losses \in 0..MaxLost
         /\ \A m \in Message :
              loop = m <=> \/ msg[m].phase \in {"directory", "route"}
                           \/ msg[m].phase = "agent" /\ ~msg[m].in.callback
BY DEF ChannelTypeOK, Sessions, Tellings, Msg, InPhase

\* One message changes.
LEMMA OneMessage ==
  ASSUME msg \in [Message -> Msg], NEW m \in Message, NEW r \in Msg,
         msg' = [msg EXCEPT ![m] = r]
  PROVE  /\ msg' \in [Message -> Msg] /\ msg'[m] = r
         /\ \A n \in Message : n # m => msg'[n] = msg[n]
OBVIOUS

\* What a message may become.
LEMMA Messages ==
  ASSUME ChannelConstants, NEW r \in Msg
  PROVE  /\ r.phase \in Phases /\ r.in \in Inputs /\ r.store \in Store \cup {NoChoice}
         /\ \A p \in Phases : [r EXCEPT !.phase = p] \in Msg
         /\ \A p \in Phases : [Unsent EXCEPT !.phase = p] \in Msg
         /\ \A p \in Phases, in \in Inputs : [r EXCEPT !.phase = p, !.in = in] \in Msg
         /\ \A p \in Phases, s \in Store \cup {NoChoice} : [r EXCEPT !.phase = p, !.store = s] \in Msg
         /\ \A b \in BOOLEAN : [Unsent EXCEPT !.phase = "sent", !.in = [NoInput EXCEPT !.callback = b]] \in Msg
<1> USE DEF NoChoice, ChannelConstants
<1>1. Unsent \in Msg
  BY DEF Unsent, NoInput, Inputs, Phases, Msg
<1>2. \A b \in BOOLEAN : [NoInput EXCEPT !.callback = b] \in Inputs
  BY DEF NoInput, Inputs
<1>3. \A p \in Phases : [Unsent EXCEPT !.phase = p] \in Msg
  BY <1>1 DEF Msg
<1>4. \A b \in BOOLEAN : [Unsent EXCEPT !.phase = "sent", !.in = [NoInput EXCEPT !.callback = b]] \in Msg
  BY <1>1, <1>2 DEF Msg, Phases
<1> QED BY <1>3, <1>4 DEF Msg

\* The operations on the sessions.
LEMMA SessionsTyped ==
  ASSUME ChannelConstants, ChannelTypeOK,
         NEW c \in Customer \cup {Nobody}, NEW s \in Store
  PROVE  /\ Remember(c, s) \in Sessions /\ Forget(c) \in Sessions
         /\ Recalled(c) \in Sessions /\ Recall(c) \in Store \cup {NoChoice}
<1> USE ChannelTypes DEF NoChoice, ChannelConstants
<1>1. [store |-> s, expires |-> clock + SessionTTL] \in [store: Store \cup {0}, expires: 0..(MaxClock + SessionTTL)]
  OBVIOUS
<1>2. NoSession \in [store: Store \cup {0}, expires: 0..(MaxClock + SessionTTL)]
  BY DEF NoSession
<1>3. Remember(c, s) \in Sessions /\ Forget(c) \in Sessions
  BY <1>1, <1>2 DEF Remember, Forget, Sessions
<1>4. Recalled(c) \in Sessions
  BY <1>3 DEF Recalled
<1>5. Recall(c) \in Store \cup {NoChoice}
  BY DEF Recall, Sessions
<1> QED BY <1>3, <1>4, <1>5

\* The same of a message.
LEMMA MessageSessions ==
  ASSUME ChannelConstants, ChannelTypeOK, NEW m \in Message
  PROVE  /\ msg[m] \in Msg /\ msg[m].in.customer \in Customer \cup {Nobody}
         /\ msg[m].in.link \in Store \cup {NoChoice} /\ msg[m].in.callback \in BOOLEAN
         /\ Known(m) \in Store \cup {NoChoice}
         /\ Looked(m) \in Sessions /\ Forget(msg[m].in.customer) \in Sessions
         /\ Target(m) \in Store
         /\ \A s \in Store : Remember(msg[m].in.customer, s) \in Sessions
         /\ \A s \in Store \cup {NoChoice} : Tell(m, s) => told' \in Tellings
         /\ TellLink(m) => told' \in Tellings
<1> USE DEF NoChoice
<1>1. /\ msg[m] \in Msg /\ msg[m].in.customer \in Customer \cup {Nobody}
      /\ msg[m].in.link \in Store \cup {0} /\ msg[m].in.callback \in BOOLEAN
  BY ChannelTypes DEF Msg, Inputs
<1>2. Known(m) \in Store \cup {0}
  BY <1>1, SessionsTyped DEF Known, ChannelConstants
<1>3. Looked(m) \in Sessions /\ Forget(msg[m].in.customer) \in Sessions
  BY <1>1, SessionsTyped DEF Looked, ChannelConstants
<1>4. Target(m) \in Store
  BY <1>2 DEF Target, ChannelConstants
<1>5. \A s \in Store : Remember(msg[m].in.customer, s) \in Sessions
  BY <1>1, SessionsTyped
<1>6. ASSUME NEW s \in Store \cup {0}, Tell(m, s)
      PROVE  told' \in Tellings
  <2>1. [store |-> s, at |-> clock] \in [store: Store \cup {0}, at: 0..MaxClock]
    BY ChannelTypes
  <2> QED BY <1>6, <2>1, <1>1, ChannelTypes DEF Tell, Tellings
<1>7. TellLink(m) => told' \in Tellings
  BY <1>1, <1>6, ChannelTypes DEF TellLink
<1> QED BY <1>1, <1>2, <1>3, <1>4, <1>5, <1>6, <1>7

\* The store a name stands for is one of the directory.
LEMMA ResolvesToStore ==
  ASSUME ChannelConstants, NEW dir \in SUBSET Store, NEW named
  PROVE  Resolve(dir, named) \in Store \cup {NoChoice}
<1> DEFINE matching == {s \in dir : s = named \/ <<s, named>> \in NamePrefix}
<1>1. CASE matching = {}
  BY <1>1 DEF Resolve
<1>2. CASE matching # {}
  <2> /\ matching # {} /\ matching \subseteq Nat
    BY <1>2 DEF ChannelConstants
  <2> HIDE DEF matching
  <2>1. PICK x \in matching : \A y \in matching : ~(<<y, x>> \in OpToRel(<, Nat))
    BY NatLessThanWellFounded, WFMin
  <2>2. \A y \in matching : ~(y < x)
    BY <2>1 DEF OpToRel
  <2>2a. \A y \in matching : x <= y
    BY <2>2
  <2>3. Min(matching) \in matching
    BY <2>2a DEF Min
  <2> QED BY <1>2, <2>3 DEF Resolve, matching
<1> QED BY <1>1, <1>2

\* A message is done when its request ends.
LEMMA Responds ==
  ASSUME ChannelConstants, ChannelTypeOK, NEW m \in Message,
         InPhase(m, "route"), Respond(m)
  PROVE  /\ msg' \in [Message -> Msg]
         /\ \A n \in Message :
              loop' = n <=> \/ msg'[n].phase \in {"directory", "route"}
                            \/ msg'[n].phase = "agent" /\ ~msg'[n].in.callback
         /\ \A n \in Message : msg'[n].phase # "route"
<1> DEFINE r == [Unsent EXCEPT !.phase = "done"]
<1>1. r \in Msg /\ r.phase = "done"
  BY Messages, ChannelTypes DEF Phases, Unsent
<1> HIDE DEF r
<1>2. msg' = [msg EXCEPT ![m] = r] /\ loop' = 0
  BY DEF Respond, r, NoMessage
<1>3. /\ msg' \in [Message -> Msg] /\ msg'[m] = r
      /\ \A n \in Message : n # m => msg'[n] = msg[n]
  BY <1>1, <1>2, OneMessage, ChannelTypes
<1>4. loop = m /\ \A n \in Message : n # m => loop # n
  BY ChannelTypes DEF InPhase
<1>5. \A n \in Message : loop' # n
  BY <1>2 DEF Message
<1>6. \A n \in Message : /\ msg'[n].phase \notin {"directory", "route"}
                                 /\ ~(msg'[n].phase = "agent" /\ ~msg'[n].in.callback)
  BY <1>1, <1>3, <1>4, ChannelTypes
<1> QED BY <1>3, <1>5, <1>6

\* The type invariant, one step at a time.
LEMMA ChannelStaysTyped ==
  ASSUME ChannelConstants, ChannelTypeOK, [ChannelNext]_channelVars
  PROVE  ChannelTypeOK'
<1> DEFINE Busy(n) == \/ msg[n].phase \in {"directory", "route"}
                      \/ msg[n].phase = "agent" /\ ~msg[n].in.callback
<1> USE ChannelTypes
<1>1. ASSUME NEW m \in Message, NEW b \in BOOLEAN, Send(m, b)
      PROVE  ChannelTypeOK'
  <2> DEFINE r == [Unsent EXCEPT !.phase = "sent", !.in = [NoInput EXCEPT !.callback = b]]
  <2>1. r \in Msg /\ r.phase = "sent" /\ msg[m].phase = "unsent"
    BY <1>1, Messages DEF Unsent, Send, InPhase
  <2> HIDE DEF r
  <2>2. msg' = [msg EXCEPT ![m] = r] /\ UNCHANGED <<clock, stores, since, changes, session, cache, started, loop, told, losses>>
    BY <1>1 DEF Send, world, r
  <2>3. /\ msg' \in [Message -> Msg] /\ msg'[m] = r
        /\ \A n \in Message : n # m => msg'[n] = msg[n]
    BY <2>1, <2>2, OneMessage
  <2>4. \A n \in Message : loop' = n <=> Busy(n)'
    BY <2>1, <2>2, <2>3
  <2> QED BY <2>2, <2>3, <2>4 DEF ChannelTypeOK, InPhase, Sessions, Tellings, Msg
<1>2. ASSUME NEW m \in Message, NEW in \in Input, TakeUp(m, in)
      PROVE  ChannelTypeOK'
  <2> DEFINE r == [msg[m] EXCEPT !.phase = IF FreshDirectory THEN "route" ELSE "directory", !.in = in]
  <2>0. msg[m] \in Msg /\ in \in Inputs /\ "route" \in Phases /\ "directory" \in Phases
    BY DEF Phases, ChannelConstants
  <2>1. r \in Msg /\ r.phase \in {"route", "directory"}
    <3>1. r = [msg[m] EXCEPT !.phase = "route", !.in = in] \/ r = [msg[m] EXCEPT !.phase = "directory", !.in = in]
      OBVIOUS
    <3> HIDE DEF r
    <3> QED BY ONLY <2>0, <3>1 DEF Msg
  <2>6. msg[m].phase = "sent"
    BY <1>2 DEF TakeUp, InPhase
  <2> HIDE DEF r
  <2>2. /\ msg' = [msg EXCEPT ![m] = r] /\ loop = 0 /\ loop' = m /\ started' = clock
        /\ UNCHANGED <<clock, stores, since, changes, session, cache, told, losses>>
    BY <1>2 DEF TakeUp, world, r, NoMessage
  <2>3. /\ msg' \in [Message -> Msg] /\ msg'[m] = r
        /\ \A n \in Message : n # m => msg'[n] = msg[n]
    BY <2>1, <2>2, OneMessage
  <2>4. \A n \in Message : loop # n
    BY <2>2 DEF Message
  <2>5. \A n \in Message : loop' = n <=> Busy(n)'
    BY <2>1, <2>2, <2>3, <2>4, <2>6
  <2> QED BY <2>2, <2>3, <2>5 DEF ChannelTypeOK, InPhase, Sessions, Tellings, Msg
<1>3. ASSUME NEW m \in Message, FetchDirectory(m)
      PROVE  ChannelTypeOK'
  <2> DEFINE r == [msg[m] EXCEPT !.phase = "route"]
  <2>1. r \in Msg /\ r.phase = "route" /\ msg[m].phase = "directory"
    BY <1>3 DEF FetchDirectory, InPhase, Phases, Msg
  <2> HIDE DEF r
  <2>2. /\ msg' = [msg EXCEPT ![m] = r]
        /\ UNCHANGED <<clock, stores, since, changes, session, started, loop, told>>
    BY <1>3 DEF FetchDirectory, Move, world, r
  <2>3. /\ msg' \in [Message -> Msg] /\ msg'[m] = r
        /\ \A n \in Message : n # m => msg'[n] = msg[n]
    BY <2>1, <2>2, OneMessage
  <2>4. \A n \in Message : loop' = n <=> Busy(n)'
    BY <2>1, <2>2, <2>3
  <2>5. losses' \in 0..MaxLost /\ cache' \in [stores: SUBSET Store, at: 0..MaxClock, filled: BOOLEAN, listed: BOOLEAN]
    <3>1. \A dir \in SUBSET Store, listed \in BOOLEAN :
            Filled(dir, listed) \in [stores: SUBSET Store, at: 0..MaxClock, filled: BOOLEAN, listed: BOOLEAN]
      BY DEF Filled
    <3>2. stores \in SUBSET Store /\ Configured \in SUBSET Store /\ MaxLost \in Nat
      BY DEF ChannelConstants
    <3>5. losses' = losses \/ (losses < MaxLost /\ losses' = losses + 1)
      BY <1>3 DEF FetchDirectory
    <3>6. losses \in 0..MaxLost
      OBVIOUS
    <3>3. losses' \in 0..MaxLost
      BY <3>2, <3>5, <3>6
    <3>4. cache' = Filled(stores, TRUE) \/ cache' = Filled(Configured, FALSE)
      BY <1>3 DEF FetchDirectory
    <3> QED BY <3>1, <3>2, <3>3, <3>4
  <2> QED BY <2>2, <2>3, <2>4, <2>5 DEF ChannelTypeOK, InPhase, Sessions, Tellings, Msg
<1>4. ASSUME NEW m \in Message, Route(m)
      PROVE  ChannelTypeOK'
  <2>1. /\ InPhase(m, "route") /\ session' \in Sessions /\ told' \in Tellings
        /\ UNCHANGED <<clock, stores, since, changes, cache, started, losses>>
        /\ Respond(m) \/ Ask(m)
    <3>1. CASE ChangeStore(m)
      BY <3>1, MessageSessions DEF ChangeStore, Respond, world
    <3>2. CASE SelectStore(m)
      <4>1. Chosen(m) \in Store
        BY <3>2, ResolvesToStore DEF SelectStore, Chosen
      <4> QED BY <3>2, <4>1, MessageSessions DEF SelectStore, Respond, world
    <3>3. CASE ShowStores(m)
      BY <3>3, MessageSessions DEF ShowStores, Respond, world
    <3>4. CASE ShowMenu(m)
      BY <3>4, MessageSessions DEF ShowMenu, Respond, Decided, world
    <3>5. CASE Ask(m)
      BY <3>5, MessageSessions DEF Ask, Decided, world
    <3> QED BY <1>4, <3>1, <3>2, <3>3, <3>4, <3>5 DEF Route
  <2>2. CASE Respond(m)
    BY <2>1, <2>2, Responds DEF ChannelTypeOK, InPhase, Sessions, Tellings, Msg
  <2>3. CASE Ask(m)
    <3> DEFINE r == [msg[m] EXCEPT !.phase = "agent", !.store = Target(m)]
    <3>0. Target(m) \in Store
      BY MessageSessions
    <3>1. r \in Msg /\ r.phase = "agent" /\ r.in = msg[m].in
      BY <3>0 DEF Phases, Msg
    <3> HIDE DEF r
    <3>2. msg' = [msg EXCEPT ![m] = r] /\ loop' = IF msg[m].in.callback THEN 0 ELSE m
      BY <2>3 DEF Ask, NoMessage, r
    <3>3. /\ msg' \in [Message -> Msg] /\ msg'[m] = r
          /\ \A n \in Message : n # m => msg'[n] = msg[n]
      BY <3>1, <3>2, OneMessage
    <3>4. loop = m /\ 0 \notin Message
      BY <2>1 DEF InPhase, Message
    <3>5. \A n \in Message : loop' = n <=> Busy(n)'
      BY <3>1, <3>2, <3>3, <3>4
    <3> QED BY <2>1, <3>3, <3>5 DEF ChannelTypeOK, InPhase, Sessions, Tellings, Msg
  <2> QED BY <2>1, <2>2, <2>3
<1>5. ASSUME NEW m \in Message, Agent(m)
      PROVE  ChannelTypeOK'
  <2>1. PICK r \in Msg : /\ msg' = [msg EXCEPT ![m] = r] /\ r.phase \in {"post", "done", "undelivered"}
                         /\ \/ msg[m].phase = "post" /\ loop' = loop
                            \/ msg[m].phase = "agent" /\ loop' = IF msg[m].in.callback THEN loop ELSE 0
    <3>1. CASE Answer(m)
      <4>1. CASE msg[m].in.callback
        <5> DEFINE r == [msg[m] EXCEPT !.phase = "post"]
        <5>1. r \in Msg
          BY Messages DEF Phases
        <5>2. r.phase = "post"
          BY DEF Msg
        <5> QED BY <3>1, <4>1, <5>1, <5>2 DEF Answer, InPhase, NoMessage
      <4>2. CASE ~msg[m].in.callback
        <5> DEFINE r == [Unsent EXCEPT !.phase = "done"]
        <5>1. r \in Msg /\ r.phase = "done"
          BY Messages DEF Phases, Unsent
        <5> QED BY <3>1, <4>2, <5>1 DEF Answer, InPhase, NoMessage
      <4> QED BY <4>1, <4>2
    <3>2. CASE PostCallback(m)
      <4> DEFINE r == [Unsent EXCEPT !.phase = "done"]
      <4>1. r \in Msg /\ r.phase = "done"
        BY Messages DEF Phases, Unsent
      <4> QED BY <3>2, <4>1 DEF PostCallback, InPhase
    <3>3. CASE CallbackFails(m)
      <4> DEFINE r == [Unsent EXCEPT !.phase = "undelivered"]
      <4>1. r \in Msg /\ r.phase = "undelivered"
        BY Messages DEF Phases, Unsent
      <4> QED BY <3>3, <4>1 DEF CallbackFails, InPhase
    <3> QED BY <1>5, <3>1, <3>2, <3>3 DEF Agent
  <2>2. losses' \in 0..MaxLost /\ UNCHANGED <<clock, stores, since, changes, session, cache, started, told>>
    BY <1>5 DEF Agent, Answer, PostCallback, CallbackFails, world,
                ChannelConstants
  <2>3. /\ msg' \in [Message -> Msg] /\ msg'[m] = r
        /\ \A n \in Message : n # m => msg'[n] = msg[n]
    BY <2>1, OneMessage
  <2>4. 0 \notin Message
    BY DEF Message
  <2>5. \A n \in Message : loop' = n <=> Busy(n)'
    BY <2>1, <2>3, <2>4
  <2> QED BY <2>2, <2>3, <2>5 DEF ChannelTypeOK, InPhase, Sessions, Tellings, Msg
<1>6. ASSUME NEW s \in Changing, ChangeStores(s)
      PROVE  ChannelTypeOK'
  <2>1. /\ stores' \subseteq Store /\ since' \in [Store -> 0..MaxClock] /\ changes' \in 0..MaxChanges
        /\ UNCHANGED <<clock, session, cache, started, msg, loop, told, losses>>
    BY <1>6 DEF ChangeStores, ChannelConstants
  <2> QED BY <2>1 DEF ChannelTypeOK, InPhase, Sessions, Tellings, Msg
<1>7. CASE Tick
  <2>1. clock' \in 0..MaxClock /\ UNCHANGED <<stores, since, session, cache, started, msg, loop, told, changes, losses>>
    BY <1>7 DEF Tick, ChannelConstants
  <2> QED BY <2>1 DEF ChannelTypeOK, InPhase, Sessions, Tellings, Msg
<1>8. CASE Restart
  <2>1. /\ session' \in Sessions /\ told' \in Tellings /\ losses' \in 0..MaxLost
        /\ cache' \in [stores: SUBSET Store, at: 0..MaxClock, filled: BOOLEAN, listed: BOOLEAN]
        /\ UNCHANGED <<clock, stores, since, changes, started>>
    BY <1>8 DEF Restart, world, ChannelConstants, NoSession, NotTold,
                NoCache, Sessions, Tellings
  <2>2. [Unsent EXCEPT !.phase = "lost"] \in Msg /\ [Unsent EXCEPT !.phase = "lost"].phase = "lost"
    <3>1. \A m \in Message : [Unsent EXCEPT !.phase = "lost"] \in Msg
      BY Messages DEF Phases
    <3>2. Unsent \in Msg
      BY DEF Unsent, Msg, NoInput, Inputs, Phases, ChannelConstants
    <3> QED BY <3>2, Messages DEF Phases, Unsent
  <2> DEFINE lost == [Unsent EXCEPT !.phase = "lost"]
  <2> HIDE DEF lost
  <2>3. msg' = [m \in Message |->
                  IF msg[m].phase \in {"directory", "route", "agent", "post"} THEN lost ELSE msg[m]]
    BY <1>8 DEF Restart, lost
  <2>4. lost \in Msg /\ lost.phase = "lost"
    BY <2>2 DEF lost
  <2>5. msg' \in [Message -> Msg] /\ \A n \in Message : ~Busy(n)'
    BY <2>3, <2>4
  <2>6. \A n \in Message : loop' # n
    BY <1>8 DEF Restart, NoMessage, Message
  <2> QED BY <2>1, <2>5, <2>6 DEF ChannelTypeOK, InPhase, Sessions, Tellings, Msg
<1>9. CASE UNCHANGED channelVars
  BY <1>9 DEF channelVars, ChannelTypeOK, InPhase
<1> QED BY <1>1, <1>2, <1>3, <1>4, <1>5, <1>6, <1>7, <1>8, <1>9 DEF ChannelNext, Handle

\* A customer is told nothing and its session is left alone.
LEMMA CustomerLeftAlone ==
  ASSUME ChannelConstants, ChannelInv, NEW c \in Customer, clock <= clock', clock' \in Nat,
         session'[c] = session[c], told'[c] = told[c]
  PROVE  \/ /\ session'[c].store # NoChoice
            /\ session'[c].store = told'[c].store
            /\ session'[c].expires = told'[c].at + SessionTTL
         \/ /\ session'[c] = NoSession
            /\ told'[c].store = NoChoice \/ clock' > told'[c].at + SessionTTL
<1>1. told[c].at \in Nat /\ SessionTTL \in Nat /\ clock \in Nat
  BY ChannelTypes DEF ChannelInv, Tellings, ChannelConstants
<1> QED BY <1>1 DEF ChannelInv, SessionSaysTold

\* What a message that is routed leaves in the session of its customer is what the
\* customer is told.
LEMMA RoutedTold ==
  ASSUME ChannelConstants, ChannelInv, NEW m \in Message, Route(m)
  PROVE  SessionSaysTold'
<1> DEFINE c == msg[m].in.customer
           link == msg[m].in.link
<1> USE DEF NoChoice
<1>0. /\ session \in Sessions /\ told \in Tellings /\ clock \in Nat /\ SessionTTL \in Nat
      /\ c \in Customer \cup {Nobody} /\ Nobody \notin Customer /\ ChannelTypeOK
      /\ 0 \notin Store /\ link \in Store \cup {0} /\ clock' = clock
  <2>1. ChannelTypeOK /\ 0 \notin Store /\ Nobody \notin Customer /\ SessionTTL \in Nat
    BY DEF ChannelInv, ChannelConstants
  <2>2. clock' = clock
    BY DEF Route, ChangeStore, SelectStore, ShowStores, ShowMenu,
           Ask, Respond, world
  <2>3. session \in Sessions /\ told \in Tellings /\ clock \in Nat
    BY <2>1, ChannelTypes
  <2> QED BY <2>1, <2>2, <2>3, MessageSessions
<1> HIDE DEF c, link
<1>1. ASSUME NEW s \in Store, session' = Remember(c, s), Tell(m, s)
      PROVE  SessionSaysTold'
  <2>1. CASE c = Nobody
    <3>1. session' = session /\ told' = told
      BY <1>1, <2>1 DEF Remember, Tell, c
    <3> QED BY <3>1, <1>0, CustomerLeftAlone DEF SessionSaysTold, NoSession
  <2>2. CASE c # Nobody
    <3>1. /\ session' = [session EXCEPT ![c] = [store |-> s, expires |-> clock + SessionTTL]]
          /\ told' = [told EXCEPT ![c] = [store |-> s, at |-> clock]]
      BY <1>1, <2>2 DEF Remember, Tell, c
    <3>2. session'[c] = [store |-> s, expires |-> clock + SessionTTL] /\ told'[c] = [store |-> s, at |-> clock]
      BY <3>1, <2>2, <1>0 DEF Sessions, Tellings
    <3>3. \A d \in Customer : d # c => session'[d] = session[d] /\ told'[d] = told[d]
      BY <3>1, <1>0 DEF Sessions, Tellings
    <3> QED BY <1>0, <3>2, <3>3, CustomerLeftAlone DEF SessionSaysTold
  <2> QED BY <2>1, <2>2
<1>2. ASSUME session' = Forget(c), Tell(m, 0)
      PROVE  SessionSaysTold'
  <2>1. CASE c = Nobody
    <3>1. session' = session /\ told' = told
      BY <1>2, <2>1 DEF Forget, Tell, c
    <3> QED BY <3>1, <1>0, CustomerLeftAlone DEF SessionSaysTold
  <2>2. CASE c # Nobody
    <3>1. /\ session' = [session EXCEPT ![c] = NoSession]
          /\ told' = [told EXCEPT ![c] = [store |-> 0, at |-> clock]]
      BY <1>2, <2>2 DEF Forget, Tell, c
    <3>2. session'[c] = NoSession /\ told'[c] = [store |-> 0, at |-> clock]
      BY <3>1, <2>2, <1>0 DEF Sessions, Tellings
    <3>3. \A d \in Customer : d # c => session'[d] = session[d] /\ told'[d] = told[d]
      BY <3>1, <1>0 DEF Sessions, Tellings
    <3> QED BY <1>0, <3>2, <3>3, CustomerLeftAlone DEF SessionSaysTold
  <2> QED BY <2>1, <2>2
<1>3. ASSUME session' = Recalled(c), told' = told
      PROVE  SessionSaysTold'
  <2>1. CASE session' = session
    BY <1>0, <1>3, <2>1, CustomerLeftAlone DEF SessionSaysTold
  <2>2. CASE session' # session
    <3>1. c # Nobody /\ c \in Customer /\ session' = [session EXCEPT ![c] = NoSession]
      BY <1>3, <2>2, <1>0 DEF Recalled, Forget
    <3>2. session[c].expires < clock \/ session[c].store = 0
      BY <1>3, <2>2, <3>1 DEF Recalled, Recall
    <3>3. session'[c] = NoSession /\ \A d \in Customer : d # c => session'[d] = session[d]
      BY <3>1, <1>0 DEF Sessions
    <3>4. told[c].store = 0 \/ clock > told[c].at + SessionTTL
      BY <3>1, <3>2 DEF ChannelInv, SessionSaysTold, NoSession
    <3> QED BY <1>0, <1>3, <3>3, <3>4, CustomerLeftAlone DEF SessionSaysTold
  <2> QED BY <2>1, <2>2
<1>4. ASSUME session' = Looked(m), TellLink(m)
      PROVE  SessionSaysTold'
  <2>1. CASE link = 0
    BY <1>3, <1>4, <2>1 DEF Looked, TellLink, c, link
  <2>2. CASE link # 0
    <3>1. link \in Store
      BY <1>0, <2>2
    <3> QED BY <1>1, <1>4, <2>2, <3>1 DEF Looked, TellLink, c, link
  <2> QED BY <2>1, <2>2
<1>5. CASE ChangeStore(m)
  BY <1>2, <1>5 DEF ChangeStore, c
<1>6. CASE SelectStore(m)
  <2>1. Chosen(m) \in Store
    BY <1>6, ResolvesToStore, ChannelTypes DEF SelectStore, Chosen, ChannelInv
  <2> QED BY <1>1, <1>6, <2>1 DEF SelectStore, c
<1>7. CASE ShowStores(m)
  <2>1. link = 0 /\ Recall(c) = 0
    BY <1>7, <1>0 DEF ShowStores, Undecided, Known, c, link
  <2>2. session' = Forget(c)
    BY <1>7, <2>1 DEF ShowStores, Looked, Recalled, c, link
  <2> QED BY <1>2, <1>7, <2>2 DEF ShowStores
<1>8. CASE ShowMenu(m)
  BY <1>4, <1>8 DEF ShowMenu
<1>9. CASE Ask(m)
  BY <1>4, <1>9 DEF Ask
<1> QED BY <1>5, <1>6, <1>7, <1>8, <1>9 DEF Route

LEMMA SessionsStayTold ==
  ASSUME ChannelConstants, ChannelInv, [ChannelNext]_channelVars
  PROVE  SessionSaysTold'
<1>1. clock \in Nat
  BY ChannelTypes DEF ChannelInv
<1>2. ASSUME session' = session, told' = told, clock' = clock \/ clock' = clock + 1
      PROVE  SessionSaysTold'
  BY <1>1, <1>2, CustomerLeftAlone DEF SessionSaysTold
<1>3. ASSUME NEW m \in Message, Handle(m)
      PROVE  SessionSaysTold'
  <2>1. CASE Route(m)
    BY <2>1, RoutedTold
  <2>2. CASE (\E in \in Input : TakeUp(m, in)) \/ FetchDirectory(m)
    BY <1>2, <2>2 DEF TakeUp, FetchDirectory, world
  <2> QED BY <1>3, <2>1, <2>2 DEF Handle
<1>4. ASSUME NEW m \in Message, Agent(m) \/ \E b \in BOOLEAN : Send(m, b)
      PROVE  SessionSaysTold'
  BY <1>2, <1>4 DEF Agent, Answer, PostCallback, CallbackFails, Send, world
<1>5. ASSUME NEW s \in Changing, ChangeStores(s)
      PROVE  SessionSaysTold'
  BY <1>2, <1>5 DEF ChangeStores
<1>6. CASE Tick
  BY <1>2, <1>6 DEF Tick
<1>7. CASE Restart
  BY <1>7 DEF Restart, SessionSaysTold, NoSession, NotTold
<1>8. CASE UNCHANGED channelVars
  BY <1>2, <1>8 DEF channelVars
<1> QED BY <1>3, <1>4, <1>5, <1>6, <1>7, <1>8 DEF ChannelNext

\* The cache and the message that is routed by it.
LEMMA CacheStaysRecent ==
  ASSUME ChannelConstants, ChannelInv, [ChannelNext]_channelVars
  PROVE  CacheSaysStores'
<1>0. /\ clock \in Nat /\ cache.at \in Nat /\ started \in Nat /\ DirectoryTTL \in Nat
      /\ since \in [Store -> Nat] /\ msg \in [Message -> Msg] /\ Changing \subseteq Store
      /\ cache \in [stores: SUBSET Store, at: 0..MaxClock, filled: BOOLEAN, listed: BOOLEAN]
      /\ cache.at <= clock /\ started <= clock /\ \A s \in Store : since[s] <= clock
      /\ cache.listed => \A s \in Store : since[s] < cache.at => (s \in cache.stores <=> s \in stores)
      /\ \A m \in Message : msg[m].phase = "route" => started <= cache.at + DirectoryTTL
      /\ \A m \in Message : msg[m].phase \in {"directory", "route"} => loop = m
  <2>1. ChannelInv /\ ChannelTypeOK /\ CacheSaysStores
    BY DEF ChannelInv
  <2>2. since \in [Store -> Nat] /\ clock \in Nat /\ started \in Nat /\ cache.at \in Nat
    BY <2>1, ChannelTypes
  <2>3. DirectoryTTL \in Nat /\ Changing \subseteq Store
    BY DEF ChannelConstants
  <2> QED BY <2>1, <2>2, <2>3, ChannelTypes DEF CacheSaysStores, InPhase
<1>1. ASSUME stores' = stores, since' = since, cache' = cache, started' = started,
             clock' = clock \/ clock' = clock + 1,
             \A m \in Message : msg'[m].phase = "route" => msg[m].phase = "route"
      PROVE  CacheSaysStores'
  BY <1>0, <1>1 DEF CacheSaysStores, InPhase
<1>2. ASSUME NEW m \in Message, NEW b \in BOOLEAN, Send(m, b)
      PROVE  CacheSaysStores'
  <2>1. \A n \in Message : msg'[n].phase = "route" => msg[n].phase = "route"
    BY <1>0, <1>2 DEF Send, Unsent
  <2> QED BY <1>1, <1>2, <2>1 DEF Send, world
<1>3. ASSUME NEW m \in Message, NEW in \in Input, TakeUp(m, in)
      PROVE  CacheSaysStores'
  <2>1. /\ UNCHANGED <<clock, stores, since, cache>> /\ started' = clock /\ loop = 0
        /\ msg' = [msg EXCEPT ![m].phase = IF FreshDirectory THEN "route" ELSE "directory", ![m].in = in]
    BY <1>3 DEF TakeUp, world, NoMessage
  <2>2. \A n \in Message : loop # n
    BY <2>1 DEF Message
  <2>3. \A n \in Message : msg'[n].phase = "route" => n = m /\ FreshDirectory
    BY <1>0, <2>1, <2>2
  <2>4. FreshDirectory => clock <= cache.at + DirectoryTTL
    BY <1>0 DEF FreshDirectory
  <2> QED BY <1>0, <2>1, <2>3, <2>4 DEF CacheSaysStores, InPhase
<1>4. ASSUME NEW m \in Message, FetchDirectory(m)
      PROVE  CacheSaysStores'
  <2>1. /\ UNCHANGED <<clock, stores, since, started>> /\ cache'.at = started
        /\ cache'.listed => cache'.stores = stores
    BY <1>4 DEF FetchDirectory, world, Filled
  <2> QED BY <1>0, <2>1 DEF CacheSaysStores, InPhase
<1>5. ASSUME NEW m \in Message, Route(m)
      PROVE  CacheSaysStores'
  <2>1. /\ UNCHANGED <<clock, stores, since, cache, started>> /\ InPhase(m, "route")
        /\ Respond(m) \/ Ask(m)
    BY <1>5 DEF Route, ChangeStore, SelectStore, ShowStores, ShowMenu,
                Ask, Respond, Decided, world
  <2>2. \A n \in Message : msg'[n].phase = "route" => msg[n].phase = "route"
    <3>1. CASE Respond(m)
      BY <1>0, <3>1 DEF Respond, Unsent
    <3>2. CASE Ask(m)
      <4>1. \A n \in Message : n # m => msg'[n] = msg[n]
        BY <1>0, <3>2 DEF Ask
      <4>2. msg'[m].phase = "agent"
        BY <1>0, <3>2 DEF Ask, Msg
      <4> QED BY <4>1, <4>2
    <3> QED BY <2>1, <3>1, <3>2
  <2> QED BY <1>1, <2>1, <2>2
<1>6. ASSUME NEW m \in Message, Agent(m)
      PROVE  CacheSaysStores'
  <2>2. CASE Answer(m)
    <3>1. msg'[m].phase # "route"
      BY <1>0, <2>2 DEF Answer, Unsent, Msg
    <3>2. \A n \in Message : n # m => msg'[n] = msg[n]
      BY <1>0, <2>2 DEF Answer
    <3> QED BY <1>1, <2>2, <3>1, <3>2 DEF Answer, world
  <2>3. CASE PostCallback(m) \/ CallbackFails(m)
    <3>1. \A n \in Message : msg'[n].phase = "route" => msg[n].phase = "route"
      BY <1>0, <2>3 DEF PostCallback, CallbackFails, Unsent
    <3> QED BY <1>1, <2>3, <3>1 DEF PostCallback, CallbackFails, world
  <2> QED BY <1>6, <2>2, <2>3 DEF Agent
<1>7. ASSUME NEW s \in Changing, ChangeStores(s)
      PROVE  CacheSaysStores'
  <2>1. UNCHANGED <<clock, cache, started, msg>> /\ since' = [since EXCEPT ![s] = clock]
        /\ stores' = IF s \in stores THEN stores \ {s} ELSE stores \cup {s}
    BY <1>7 DEF ChangeStores
  <2>2. since'[s] = clock /\ \A t \in Store : t # s => since'[t] = since[t] /\ (t \in stores' <=> t \in stores)
    BY <1>0, <2>1
  <2> QED BY <1>0, <2>1, <2>2 DEF CacheSaysStores, InPhase
<1>8. CASE Tick
  BY <1>1, <1>8 DEF Tick
<1>9. CASE Restart
  <2>1. UNCHANGED <<clock, stores, since, started>> /\ cache' = NoCache
    BY <1>9 DEF Restart, world
  <2>2. \A n \in Message : msg'[n].phase # "route"
    BY <1>9 DEF Restart, Unsent
  <2> QED BY <1>0, <2>1, <2>2 DEF CacheSaysStores, InPhase, NoCache
<1>10. CASE UNCHANGED channelVars
  BY <1>1, <1>10 DEF channelVars
<1> QED BY <1>2, <1>3, <1>4, <1>5, <1>6, <1>7, <1>8, <1>9, <1>10 DEF ChannelNext, Handle

\* Questions and the stores shown, at one step.
LEMMA QuestionStep ==
  ASSUME ChannelConstants, ChannelInv, [ChannelNext]_channelVars
  PROVE  \A m \in Message : ~InPhase(m, "agent") /\ InPhase(m, "agent")' =>
           \/ msg'[m].store = TalksAbout(m)
           \/ TalksAbout(m) = NoChoice /\ msg'[m].store = Default /\ ~Multiple
<1> USE DEF NoChoice
<1> SUFFICES ASSUME NEW m \in Message, ~InPhase(m, "agent"), InPhase(m, "agent")'
             PROVE  \/ msg'[m].store = TalksAbout(m)
                    \/ TalksAbout(m) = 0 /\ msg'[m].store = Default /\ ~Multiple
  OBVIOUS
<1>0. /\ ChannelTypeOK /\ msg \in [Message -> Msg] /\ SessionTTL \in Nat /\ clock \in Nat
      /\ session \in Sessions /\ told \in Tellings /\ 0 \notin Store
  <2>1. ChannelTypeOK /\ 0 \notin Store /\ SessionTTL \in Nat
    BY DEF ChannelInv, ChannelConstants
  <2> QED BY <2>1, ChannelTypes
<1>1. Ask(m)
  <2>1. \A n \in Message, b \in BOOLEAN : ~Send(n, b)
    BY <1>0 DEF Send, Unsent, InPhase
  <2>2. ASSUME NEW n \in Message, NEW in \in Input PROVE ~TakeUp(n, in)
    <3>1. SUFFICES ASSUME TakeUp(n, in) PROVE FALSE
      OBVIOUS
    <3>2. msg'[n].phase # "agent"
      BY <1>0, <3>1 DEF TakeUp, Msg
    <3>3. \A l \in Message : l # n => msg'[l] = msg[l]
      BY <1>0, <3>1 DEF TakeUp
    <3> QED BY <3>2, <3>3 DEF InPhase
  <2>3. ASSUME NEW n \in Message PROVE ~FetchDirectory(n)
    <3>1. SUFFICES ASSUME FetchDirectory(n) PROVE FALSE
      OBVIOUS
    <3>2. msg'[n].phase # "agent"
      BY <1>0, <3>1 DEF FetchDirectory, Move, Msg
    <3>3. \A l \in Message : l # n => msg'[l] = msg[l]
      BY <1>0, <3>1 DEF FetchDirectory, Move
    <3> QED BY <3>2, <3>3 DEF InPhase
  <2>4. \A n \in Message : ~Respond(n)
    BY <1>0 DEF Respond, Unsent, InPhase
  <2>5. ASSUME NEW n \in Message PROVE ~Answer(n)
    <3>1. SUFFICES ASSUME Answer(n) PROVE FALSE
      OBVIOUS
    <3>2. msg'[n].phase # "agent" /\ msg[n].phase = "agent"
      BY <1>0, <3>1 DEF Answer, Unsent, InPhase, Msg
    <3>3. \A l \in Message : l # n => msg'[l] = msg[l]
      BY <1>0, <3>1 DEF Answer
    <3> QED BY <3>2, <3>3 DEF InPhase
  <2>6. \A n \in Message : ~PostCallback(n) /\ ~CallbackFails(n)
    BY <1>0 DEF PostCallback, CallbackFails, Unsent, InPhase
  <2>7. \A s \in Changing : ~ChangeStores(s)
    BY DEF ChangeStores, InPhase
  <2>8. ~Tick /\ ~(UNCHANGED channelVars)
    BY DEF Tick, channelVars, InPhase
  <2>9. ~Restart
    BY <1>0 DEF Restart, Unsent, InPhase
  <2>10. PICK n \in Message : Route(n)
    BY <2>1, <2>2, <2>3, <2>5, <2>6, <2>7, <2>8, <2>9 DEF ChannelNext, Handle, Agent
  <2>11. Ask(n)
    BY <2>4, <2>10 DEF Route, ChangeStore, SelectStore, ShowStores, ShowMenu
  <2>12. n = m
    BY <1>0, <2>11 DEF Ask, InPhase
  <2> QED BY <2>11, <2>12
<1> DEFINE c == msg[m].in.customer
           link == msg[m].in.link
<1>2. msg'[m].store = Target(m)
  BY <1>0, <1>1 DEF Ask, Msg
<1>3. c \in Customer \cup {Nobody} /\ link \in Store \cup {0}
  BY <1>0, MessageSessions
<1> HIDE DEF c, link
<1>4. CASE link # 0
  BY <1>2, <1>4 DEF Target, Known, TalksAbout, link
<1>5. CASE link = 0
  <2>1. Known(m) = Recall(c)
    BY <1>5 DEF Known, c, link
  <2>2. TalksAbout(m) = IF c = Nobody \/ clock > told[c].at + SessionTTL THEN 0 ELSE told[c].store
    BY <1>5 DEF TalksAbout, c, link
  <2>3. Recall(c) = TalksAbout(m)
    <3>1. CASE c = Nobody
      BY <2>2, <3>1 DEF Recall
    <3>2. CASE c # Nobody
      <4>1. c \in Customer /\ told[c].at \in Nat
        BY <1>0, <1>3, <3>2 DEF Tellings
      <4>2. CASE session[c] = NoSession /\ (told[c].store = 0 \/ clock > told[c].at + SessionTTL)
        BY <2>2, <3>2, <4>2 DEF Recall, NoSession
      <4>3. CASE session[c].store = told[c].store /\ session[c].expires = told[c].at + SessionTTL
        BY <1>0, <2>2, <3>2, <4>1, <4>3 DEF Recall
      <4> QED BY <4>1, <4>2, <4>3 DEF ChannelInv, SessionSaysTold
    <3> QED BY <3>1, <3>2
  <2>4. Known(m) = 0 => ~Multiple
    BY <1>1 DEF Ask, Decided, Undecided, AsksToChange
  <2> QED BY <1>2, <2>1, <2>3, <2>4 DEF Target
<1> QED BY <1>4, <1>5

LEMMA ShownStep ==
  ASSUME ChannelConstants, ChannelInv, [ChannelNext]_channelVars
  PROVE  (\E m \in Message : InPhase(m, "route") /\ ~InPhase(m, "route")' /\ ~InPhase(m, "lost")') /\ cache.listed =>
           \A s \in Store : since[s] + DirectoryTTL < started => (s \in cache.stores <=> s \in stores)
<1>1. /\ since \in [Store -> Nat] /\ started \in Nat /\ cache.at \in Nat /\ DirectoryTTL \in Nat
  <2>1. ChannelTypeOK /\ DirectoryTTL \in Nat
    BY DEF ChannelInv, ChannelConstants
  <2> QED BY <2>1, ChannelTypes
<1> QED BY <1>1 DEF ChannelInv, CacheSaysStores

\* Whatever is answered is answered for the store the customer last chose, from a
\* list of stores as recent as the directory is kept, and the event loop is busy
\* exactly while it should be (route_kakao_message, SessionStore, _directory).
THEOREM AnswersAreRight == ChannelSpec => AnswersAreCurrent
<1>1. ChannelInit => ChannelInv
  BY ChannelAssumption, ChannelBegins
<1>2. ChannelInv /\ [ChannelNext]_channelVars => ChannelInv'
  BY ChannelAssumption, ChannelStaysTyped, SessionsStayTold, CacheStaysRecent DEF ChannelInv
<1>3. ChannelInv => ChannelTypeOK
  BY DEF ChannelInv
<1>4. ChannelInv /\ [ChannelNext]_channelVars =>
        [\A m \in Message : ~InPhase(m, "agent") /\ InPhase(m, "agent")' =>
           \/ msg'[m].store = TalksAbout(m)
           \/ TalksAbout(m) = NoChoice /\ msg'[m].store = Default /\ ~Multiple]_channelVars
  BY ChannelAssumption, QuestionStep
<1>5. ChannelInv /\ [ChannelNext]_channelVars =>
        [(\E m \in Message : InPhase(m, "route") /\ ~InPhase(m, "route")' /\ ~InPhase(m, "lost")') /\ cache.listed =>
           \A s \in Store : since[s] + DirectoryTTL < started => (s \in cache.stores <=> s \in stores)]_channelVars
  BY ChannelAssumption, ShownStep
<1> QED
  BY <1>1, <1>2, <1>3, <1>4, <1>5, PTL
     DEF ChannelSpec, AnswersAreCurrent, QuestionsGoToTheStoreChosen, StoresShownAreRecent
=============================================================================
