--------------------------- MODULE ConfigVersions ---------------------------
(***************************************************************************)
(* The version history of one camera's ROI (or scene) configuration as the *)
(* in-memory repository keeps it, every operation under one lock: saving   *)
(* appends the next version and approves it, approving brings an old       *)
(* version back, and exactly the version that was approved before is       *)
(* archived.  CameraConfigs implements it with database transactions.      *)
(***************************************************************************)
EXTENDS Naturals

CONSTANT Version  \* version numbers, 1, 2, ...

VARIABLE status   \* status[v]: state of version v, "none" before it is saved

VersionsInit == status = [v \in Version |-> "none"]

\* Version v is approved and the others are not.
Approved(v) == [u \in Version |-> IF u = v THEN "approved"
                                  ELSE IF status[u] = "approved" THEN "archived"
                                  ELSE status[u]]

Save(v) == /\ \A u \in Version : status[u] # "none" <=> u < v
           /\ status' = Approved(v)

Approve(v) == /\ status[v] # "none"
              /\ status' = Approved(v)

VersionsSpec == VersionsInit /\ [][\E v \in Version : Save(v) \/ Approve(v)]_status
=============================================================================
