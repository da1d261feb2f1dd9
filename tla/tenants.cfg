SPECIFICATION Spec
CONSTANTS
  Users = {ann, bob}
  Pendings = {p1}
  Orgs = {acme}
  Platform = platform
  Operators = {bob}
  Branches = {b1}
  Services = {s1}
  Queues = {q1}
  r1 = r1
  r2 = r2
  Requests = {r1, r2}
  OpsOf <- StaffAndOwnership
  Asked = {"STAFF", "ORGANIZATION_ADMIN"}
  InviteModes = {"cognito", "pending"}
  Linkable = {ann, bob}
  None = None
CONSTRAINT StaffFirst
INVARIANTS IInv CreatorStaysAdmin ActorsAreMembers
PROPERTY MembershipIsGranted
CHECK_DEADLOCK FALSE
