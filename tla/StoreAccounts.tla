---------------------------- MODULE StoreAccounts ----------------------------
(***************************************************************************)
(* Accounts live in Firebase, stores in PostgreSQL.  The head office       *)
(* creates a store manager's account together with its store and deletes   *)
(* both together; head office accounts sign up without a store.  A request *)
(* is a chain of calls to the two systems without a common transaction:    *)
(* any call may fail, done or not, and requests interleave at every call.  *)
(***************************************************************************)
EXTENDS Naturals, FiniteSets, FiniteSetsExt

CONSTANTS Request,   \* requests of the head office
          Email,     \* e-mail addresses of accounts
          Name,      \* names of stores
          MaxFaults  \* bound on calls that fail

ASSUME BoundsAssumption == MaxFaults \in Nat /\ IsFiniteSet(Request)

VARIABLES
  users,   \* Firebase's accounts, uids being the requests that created them
  rows,    \* table stores
  req,     \* req[r]: a request and the step it is at
  early,   \* an account was deleted before its creation had ended
  faults

vars == <<users, rows, req, early, faults>>

NoStore == 0
MaxId == Cardinality(Request)
Fresh(uid, email) == [uid |-> uid, email |-> email, role |-> "none", store |-> NoStore]
NewRequest == [pc |-> "new", hq |-> FALSE, email |-> "", name |-> "", id |-> NoStore, uid |-> "",
               result |-> "none"]

Init == /\ users = {} /\ rows = {}
        /\ req = [r \in Request |-> NewRequest]
        /\ early = FALSE /\ faults = 0

At(r, pc) == req[r].pc = pc
Go(r, pc) == req' = [req EXCEPT ![r].pc = pc]
End(r, result) == req' = [req EXCEPT ![r].pc = "ended", ![r].result = result]
Fail == faults < MaxFaults /\ faults' = faults + 1
Works == UNCHANGED faults
User(uid) == {u \in users : u.uid = uid}

-----------------------------------------------------------------------------
(* create_store: the number is computed from a snapshot, then inserted *)

\* _next_store_id: one more than the largest number there is.
NextId == Max({s.id : s \in rows} \cup {0}) + 1

BeginCreate(r, e, n) ==
  /\ At(r, "new")
  /\ req' = [req EXCEPT ![r] = [@ EXCEPT !.pc = "insert", !.email = e, !.name = n, !.id = NextId]]
  /\ UNCHANGED <<users, rows, early, faults>>

\* Mutant of InsertStore: only names are unique.
InsertByName(r) ==
  /\ At(r, "insert")
  /\ \A s \in rows : s.name # req[r].name
  /\ rows' = rows \cup {[id |-> req[r].id, name |-> req[r].name, by |-> r]}
  /\ Go(r, "lookup")
  /\ UNCHANGED <<users, early, faults>>

\* Primary key and unique name; a violation of either is taken for the name's.
InsertStore(r) ==
  LET taken  == \E s \in rows : s.id = req[r].id \/ s.name = req[r].name
      stored == rows \cup {[id |-> req[r].id, name |-> req[r].name, by |-> r]}
  IN  /\ At(r, "insert")
      /\ \/ taken /\ UNCHANGED rows /\ End(r, "conflict") /\ Works
         \/ ~taken /\ rows' = stored /\ Go(r, "lookup") /\ Works
         \/ ~taken /\ rows' = stored /\ End(r, "broken") /\ Fail
         \/ UNCHANGED rows /\ End(r, "broken") /\ Fail
      /\ UNCHANGED <<users, early>>

\* delete_store
Without(id) == {s \in rows : s.id # id}

-----------------------------------------------------------------------------
(* create_store_manager_account and create_hq_admin_account *)

SignUp(r, e) ==
  /\ At(r, "new")
  /\ req' = [req EXCEPT ![r] = [@ EXCEPT !.pc = "lookup", !.email = e, !.hq = TRUE]]
  /\ UNCHANGED <<users, rows, early, faults>>

\* Mutant of AfterFailure: the store is left behind.
StoreLeft(r) == "over"

\* Where an exception leads: a manager's store is deleted again.
AfterFailure(r) == IF req[r].hq THEN "over" ELSE "undo"

\* get_user_by_email finds the address, or not, or fails.
LookUpEmail(r) ==
  /\ At(r, "lookup")
  /\ \/ \E u \in users : u.email = req[r].email /\ Go(r, AfterFailure(r)) /\ Works
     \/ (\A u \in users : u.email # req[r].email) /\ Go(r, "create") /\ Works
     \/ Go(r, AfterFailure(r)) /\ Fail
  /\ UNCHANGED <<users, rows, early>>

\* create_user: Firebase accepts an address once.  It is outside the try that
\* removes a half-made account.
CreateUser(r) ==
  LET taken == \E u \in users : u.email = req[r].email
      made  == users \cup {Fresh(r, req[r].email)}
  IN  /\ At(r, "create")
      /\ \/ ~taken /\ users' = made /\ Go(r, "claims") /\ Works
         \/ taken /\ UNCHANGED users /\ Go(r, AfterFailure(r)) /\ Works
         \/ ~taken /\ users' = made /\ Go(r, AfterFailure(r)) /\ Fail
         \/ UNCHANGED users /\ Go(r, AfterFailure(r)) /\ Fail
      /\ UNCHANGED <<rows, early>>

Claimed(r) == {IF u.uid # r THEN u
               ELSE [u EXCEPT !.role = IF req[r].hq THEN "admin" ELSE "store_manager",
                              !.store = req[r].id] : u \in users}

\* set_custom_user_claims
SetClaims(r) ==
  /\ At(r, "claims")
  /\ \/ users' = Claimed(r) /\ Go(r, "reload") /\ Works
     \/ users' = Claimed(r) /\ Go(r, "remove") /\ Fail
     \/ UNCHANGED users /\ Go(r, "remove") /\ Fail
  /\ UNCHANGED <<rows, early>>

\* get_user: the answer is made from it.
Reload(r) ==
  /\ At(r, "reload")
  /\ \/ User(r) # {} /\ End(r, "created") /\ Works
     \/ User(r) = {} /\ Go(r, "remove") /\ Works
     \/ Go(r, "remove") /\ Fail
  /\ UNCHANGED <<users, rows, early>>

\* delete_user in the except branch; if it fails the exception is another one.
RemoveUser(r) ==
  /\ At(r, "remove")
  /\ \/ users' = users \ User(r) /\ Works
     \/ users' = users \ User(r) /\ Fail
     \/ UNCHANGED users /\ Fail
  /\ Go(r, AfterFailure(r))
  /\ UNCHANGED <<rows, early>>

\* create_admin_user deletes the store again, by its number.
Undo(r) ==
  /\ At(r, "undo")
  /\ \/ rows' = Without(req[r].id) /\ Works
     \/ UNCHANGED rows /\ Fail
  /\ End(r, "failed")
  /\ UNCHANGED <<users, early>>

Over(r) ==
  /\ At(r, "over")
  /\ End(r, "failed")
  /\ UNCHANGED <<users, rows, early, faults>>

-----------------------------------------------------------------------------
(* delete_admin_user and delete_store_manager_account *)

\* get_user: only a store manager's account goes on.
BeginDelete(r, uid) ==
  /\ At(r, "new")
  /\ \/ \E u \in User(uid) :
          /\ u.role = "store_manager"
          /\ req' = [req EXCEPT ![r] = [@ EXCEPT !.pc = "delete", !.uid = uid, !.id = u.store]]
          /\ Works
     \/ (\A u \in User(uid) : u.role # "store_manager") /\ End(r, "refused") /\ Works
     \/ End(r, "failed") /\ Fail
  /\ UNCHANGED <<users, rows, early>>

\* Mutant of DeleteUser: the store is deleted although the account is gone.
DeleteAnyway(r) ==
  /\ At(r, "delete")
  /\ users' = users \ User(req[r].uid)
  /\ Go(r, "store")
  /\ UNCHANGED <<rows, early, faults>>

DeleteUser(r) ==
  LET found == User(req[r].uid)
  IN  /\ At(r, "delete")
      /\ \/ found # {} /\ users' = users \ found /\ Go(r, "store") /\ Works
         \/ found = {} /\ UNCHANGED users /\ End(r, "failed") /\ Works
         \/ users' = users \ found /\ End(r, "failed") /\ Fail
         \/ UNCHANGED users /\ End(r, "failed") /\ Fail
      /\ early' = (early \/ (users' # users /\ ~At(req[r].uid, "ended")))
      /\ UNCHANGED rows

DeleteStore(r) ==
  /\ At(r, "store")
  /\ \/ rows' = Without(req[r].id) /\ End(r, "deleted") /\ Works
     \/ UNCHANGED rows /\ End(r, "failed") /\ Fail
  /\ UNCHANGED <<users, early>>

Step(r) == \/ InsertStore(r) \/ LookUpEmail(r) \/ CreateUser(r) \/ SetClaims(r) \/ Reload(r)
           \/ RemoveUser(r) \/ Undo(r) \/ Over(r) \/ DeleteUser(r) \/ DeleteStore(r)

Next == \E r \in Request :
          \/ Step(r)
          \/ \E e \in Email : SignUp(r, e) \/ \E n \in Name : BeginCreate(r, e, n)
          \/ \E uid \in Request : BeginDelete(r, uid)

Spec == Init /\ [][Next]_vars

-----------------------------------------------------------------------------
(* Properties *)

Steps == {"new", "insert", "lookup", "create", "claims", "reload", "remove", "undo", "over",
          "delete", "store", "ended"}

\* The state is well typed; addresses, store numbers and names are unique.
TypeOK ==
  /\ \A u \in users : /\ u.uid \in Request /\ u.email \in Email
                      /\ u.role \in {"none", "store_manager", "admin"}
                      /\ u.store \in 0..MaxId
  /\ \A s \in rows : s.id \in 1..MaxId /\ s.name \in Name /\ s.by \in Request
  /\ \A r \in Request : /\ req[r].pc \in Steps /\ req[r].id \in 0..MaxId
                          /\ req[r].result \in {"none", "created", "deleted", "conflict",
                                                "refused", "failed", "broken"}
  /\ \A u, v \in users : u.email = v.email \/ u.uid = v.uid => u = v
  /\ \A s, t \in rows : s.id = t.id \/ s.name = t.name => s = t
  /\ early \in BOOLEAN /\ faults \in 0..MaxFaults

Manager(u) == u.role = "store_manager"
StoreOf(u) == {s \in rows : s.id = u.store}

\* Even when one call fails, a manager's account never refers to a store that
\* is not there or is somebody else's: stores are made before and removed
\* after the accounts that name them, although a removed number is given to
\* the next store.
ManagersHaveTheirStore ==
  TypeOK /\ (faults <= 1 /\ ~early =>
                \A u \in users : Manager(u) => \E s \in StoreOf(u) : s.by = u.uid)

\* As long as no call fails nothing is left behind: a store without an account
\* has a request at work on it, as has an account without a role; a create
\* request that failed left neither, so its name and address are free again.
NothingLeftBehind ==
  faults = 0 =>
    /\ \A s \in rows : (\A u \in users : u.store # s.id) =>
         \E r \in Request : ~At(r, "ended") /\ req[r].id = s.id
    /\ \A u \in users : u.role = "none" => ~At(u.uid, "ended")
    /\ \A r \in Request : req[r].result = "failed" =>
         User(r) = {} /\ \A s \in rows : s.by # r

\* The comment in the except branches (firebase_users.py): no half-made
\* account, one without its role, is left behind.
NoHalfAccounts == \A u \in users : u.role = "none" => ~At(u.uid, "ended")
=============================================================================
