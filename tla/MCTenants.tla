------------------------------ MODULE MCTenants -------------------------------
(* Instances of Tenants for TLC. *)
EXTENDS Tenants

CONSTANTS r1, r2

\* r1 changes the staff, r2 what an organisation owns; both may open /me.
StaffAndOwnership ==
  [r \in Requests |-> IF r = r1 THEN {"invite", "role"}
                                ELSE {"branch", "service", "queue", "publish", "operate", "manage"}]

\* Model bound: the staff no longer changes, and is indexed, once an organisation owns
\* something.
NothingOwned ==
  /\ \A b \in Branches : branchOf[b] = None
  /\ \A s \in Services : serviceOf[s] = None
  /\ directory = {}
StaffFirst == NothingOwned \/ (request[r1].pc = "idle" /\ request[r2].pc # "link" /\ index = rows)
===============================================================================
