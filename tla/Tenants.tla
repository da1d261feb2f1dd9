------------------------------- MODULE Tenants --------------------------------
(***************************************************************************)
(* Organisations, their staff and what they own: services/orgs.js,          *)
(* services/staff.js, the authorization context of shared/auth.js and the   *)
(* routes that use them.                                                    *)
(*                                                                         *)
(* A person is their Cognito sub, and stands for their e-mail address too:  *)
(* the pool lets an address belong to one account.  A request first resolves *)
(* its caller's role and acts on it after other awaits, so requests          *)
(* interleave at each call of the store.  The staff records are found        *)
(* through two indexes, which lag behind the table.                          *)
(*                                                                         *)
(* Reads that only answer (lists, the public directory) are left out.       *)
(***************************************************************************)
EXTENDS Naturals

CONSTANTS
  Users,        \* people
  Pendings,     \* opaque ids of invitations without an account
  Orgs,         \* ids createOrganization may draw
  Platform,     \* the reserved organisation of the platform's admins
  Operators,    \* the people who have a staff record there from the start
  Branches, Services, Queues,   \* ids that may be drawn
  Requests,     \* requests in progress
  OpsOf,        \* the operations each of them may be
  Asked,        \* the roles that are given
  InviteModes,  \* "cognito" where the API knows a user pool, "pending" without
  Linkable,     \* the people whose token's username is their e-mail address
  None          \* nobody, no organisation

Tenancies == Orgs \cup {Platform}
Subs == Users \cup Pendings

Operations == {"invite", "role", "publish", "branch", "service", "queue", "manage", "operate"}
Assignable == {"STAFF", "MANAGER", "ORGANIZATION_ADMIN"}

ASSUME TenancyAssumption == Platform \notin Orgs /\ None \notin Tenancies
ASSUME SubsAssumption == Users \cap Pendings = {} /\ None \notin Subs
ASSUME PeopleAssumption == Operators \subseteq Users /\ Linkable \subseteq Users
ASSUME ModesAssumption == InviteModes \subseteq {"cognito", "pending"}
ASSUME OperationsAssumption == OpsOf \in [Requests -> SUBSET Operations] /\ Asked \subseteq Assignable

VARIABLES
  subs,       \* the subs Cognito, and the opaque ids opaqueId, have given out
  rows,       \* ORG#/STAFF#: the staff record of a sub in an organisation
  index,      \* the same records as a lagging index shows them
  creator,    \* ORG#/META: who created it
  branchOf,   \* ORG#/BR#: the organisation of a branch
  serviceOf,  \* ORG#/SVC#: the organisation of a service
  queue,      \* Q#/META: organisation, branch and service of a queue
  directory,  \* DIR#: the organisations that are published
  request     \* the requests

staffStore == <<rows, index, subs>>
catalogue == <<creator, branchOf, serviceOf, queue, directory>>
vars == <<subs, rows, index, creator, branchOf, serviceOf, queue, directory, request>>

Roles == Assignable \cup {"PLATFORM_ADMIN"}
Rank == [role \in Roles \cup {"none"} |->
           CASE role = "none" -> 0 [] role = "STAFF" -> 1 [] role = "MANAGER" -> 2
             [] role = "ORGANIZATION_ADMIN" -> 3 [] role = "PLATFORM_ADMIN" -> 4]

\* A record without a status is what an update of a deleted record leaves behind;
\* `email` is None where the record is not in the index by e-mail address.
Records == [status : {"none", "bare", "PENDING_LINK", "ACTIVE"},
            role : Roles \cup {"none"}, email : Users \cup {None}]
NoRecord == [status |-> "none", role |-> "none", email |-> None]
Record(status, role, email) == [status |-> status, role |-> role, email |-> email]

\* An index read may be served from before or after the last changes.
Views == {rows, index}

Idle == [pc |-> "idle", user |-> None, org |-> None, role |-> "none",
         subject |-> None, asked |-> "none", links |-> {}]
RequestTo(r, s) == request' = [request EXCEPT ![r] = s]

Init ==
  /\ subs = Operators
  /\ rows = [o \in Tenancies |-> [s \in Subs |->
               IF o = Platform /\ s \in Operators
                 THEN Record("ACTIVE", "PLATFORM_ADMIN", None) ELSE NoRecord]]
  /\ index = rows
  /\ creator = [o \in Tenancies |-> None]
  /\ branchOf = [b \in Branches |-> None]
  /\ serviceOf = [s \in Services |-> None]
  /\ queue = [q \in Queues |-> [org |-> None, branch |-> None, service |-> None]]
  /\ directory = {}
  /\ request = [r \in Requests |-> Idle]

\* Somebody signs up with Cognito.
SignUp(u) ==
  /\ u \notin subs
  /\ subs' = subs \cup {u}
  /\ UNCHANGED <<rows, index, catalogue, request>>

\* The indexes catch up.
Propagate ==
  /\ index' = rows
  /\ UNCHANGED <<subs, rows, catalogue, request>>

-------------------------------------------------------------------------------
OrgExists(o) == creator[o] # None

\* createOrganization: the organisation and its creator's record in one transaction,
\* under an id that was just drawn.
CreateOrganization(u, o) ==
  /\ u \in subs /\ ~ OrgExists(o)
  /\ creator' = [creator EXCEPT ![o] = u]
  /\ rows' = [rows EXCEPT ![o][u] = Record("ACTIVE", "ORGANIZATION_ADMIN", None)]
  /\ UNCHANGED <<subs, index, branchOf, serviceOf, queue, directory, request>>

-------------------------------------------------------------------------------
\* AUTHORIZATION.

IsMember(v, u, o) == v[o][u].status = "ACTIVE"

\* A variant that looks for the role in whatever organisation the caller has one.
RoleAnywhere(v, u, o) ==
  IF \E t \in Tenancies : IsMember(v, u, t)
    THEN v[CHOOSE t \in Tenancies : IsMember(v, u, t)][u].role ELSE "none"

\* resolveContext: the role of an active member, which also replaces the role of an
\* admin of the platform.
ResolvedRole(v, u, o) ==
  IF IsMember(v, u, o) THEN v[o][u].role
  ELSE IF IsMember(v, u, Platform) THEN "PLATFORM_ADMIN"
  ELSE "none"

\* requireRole in the services, and the minimum of the queue routes.
MinRole(op) ==
  CASE op \in {"invite", "role", "publish"} -> "ORGANIZATION_ADMIN"
    [] op \in {"branch", "service", "queue", "manage"} -> "MANAGER"
    [] op = "operate" -> "STAFF"
HasAtLeast(role, min) == Rank[role] >= Rank[min]

\* The queue routes take the organisation from the queue, the others from the path: an
\* id that somebody can know, `Platform` standing for all that were never drawn.
Addressed(op, o) ==
  IF op \in {"manage", "operate"} THEN \E q \in Queues : queue[q].org = o
                                  ELSE o = Platform \/ OrgExists(o)

Authorize(r, u, o, op) ==
  /\ request[r].pc = "idle" /\ u \in subs
  /\ Addressed(op, o)
  /\ \E v \in Views :
       LET role == ResolvedRole(v, u, o)
       IN  /\ HasAtLeast(role, MinRole(op))
           /\ RequestTo(r, [Idle EXCEPT !.pc = op, !.user = u, !.org = o, !.role = role])
  /\ UNCHANGED <<staffStore, catalogue>>

\* The engine runs the operation; nothing of an organisation changes.
Operate(r) ==
  /\ request[r].pc \in {"operate", "manage"}
  /\ RequestTo(r, Idle)
  /\ UNCHANGED <<staffStore, catalogue>>

-------------------------------------------------------------------------------
\* INVITE: the index by e-mail address, the account, the record.

Listed(v, o, e) == { s \in Subs : v[o][s].email = e }

InviteLookup(r) ==
  /\ request[r].pc = "invite"
  /\ \E e \in Users, role \in Asked, v \in Views :
       RequestTo(r, IF Listed(v, request[r].org, e) = {}
                      THEN [request[r] EXCEPT !.pc = "account", !.subject = e, !.asked = role]
                      ELSE Idle)
  /\ UNCHANGED <<staffStore, catalogue>>

\* A variant for a pool that hands back the account an address already has.
AccountIsFreeAlways(e) == TRUE
\* AdminCreateUser fails for an address that has an account.
AccountIsFree(e) == e \notin subs

InviteAccount(r) ==
  LET e == request[r].subject IN
  /\ request[r].pc = "account" /\ "cognito" \in InviteModes
  /\ \/ /\ AccountIsFree(e)
        /\ subs' = subs \cup {e}
        /\ RequestTo(r, [request[r] EXCEPT !.pc = "put"])
     \/ ~ AccountIsFree(e) /\ RequestTo(r, Idle) /\ UNCHANGED subs
  /\ UNCHANGED <<rows, index, catalogue>>

InvitePut(r) ==
  LET q == request[r] IN
  /\ q.pc = "put"
  /\ rows' = [rows EXCEPT ![q.org][q.subject] = Record("ACTIVE", q.asked, q.subject)]
  /\ RequestTo(r, Idle)
  /\ UNCHANGED <<subs, index, catalogue>>

\* Without a pool the record waits under an opaque id for its addressee.
InvitePending(r) ==
  LET q == request[r] IN
  /\ q.pc = "account" /\ "pending" \in InviteModes
  /\ \E p \in Pendings \ subs :
       /\ subs' = subs \cup {p}
       /\ rows' = [rows EXCEPT ![q.org][p] = Record("PENDING_LINK", q.asked, q.subject)]
  /\ RequestTo(r, Idle)
  /\ UNCHANGED <<index, catalogue>>

-------------------------------------------------------------------------------
\* GET /me: linkStaffOnSignup.

\* A variant that links whatever is pending.
InvitationsToAnyone(v, u) ==
  { l \in [org : Tenancies, key : Pendings, role : Assignable] :
      v[l.org][l.key].status = "PENDING_LINK" /\ v[l.org][l.key].role = l.role }

\* The pending records under the caller's e-mail address, as the index shows them.
Invitations(v, u) ==
  { l \in [org : Tenancies, key : Pendings, role : Assignable] :
      /\ u \in Linkable
      /\ v[l.org][l.key] = Record("PENDING_LINK", l.role, u) }

OpenMe(r, u) ==
  /\ request[r].pc = "idle" /\ u \in subs
  /\ \E v \in Views :
       /\ Invitations(v, u) # {}
       /\ RequestTo(r, [Idle EXCEPT !.pc = "link", !.user = u, !.links = Invitations(v, u)])
  /\ UNCHANGED <<staffStore, catalogue>>

\* A variant without attribute_not_exists.
MayLinkAlways(o, u) == TRUE
\* The condition of the link transaction: the caller has no record there.
MayLink(o, u) == rows[o][u].status = "none"

\* One transaction per invitation; the first that fails ends the request.
Link(r) ==
  LET q == request[r] IN
  /\ q.pc = "link"
  /\ \E l \in q.links :
       \/ /\ MayLink(l.org, q.user)
          /\ rows' = [rows EXCEPT ![l.org][q.user] = Record("ACTIVE", l.role, q.user),
                                  ![l.org][l.key] = NoRecord]
          /\ RequestTo(r, IF q.links = {l} THEN Idle ELSE [q EXCEPT !.links = @ \ {l}])
       \/ /\ ~ MayLink(l.org, q.user)
          /\ RequestTo(r, Idle)
          /\ UNCHANGED rows
  /\ UNCHANGED <<subs, index, catalogue>>

-------------------------------------------------------------------------------
\* updateStaffRole: the record by e-mail address, then its role.

RoleLookup(r) ==
  LET q == request[r] IN
  /\ q.pc = "role"
  /\ \E e \in Users, role \in Asked, v \in Views :
       \/ \E s \in Listed(v, q.org, e) :
            RequestTo(r, [q EXCEPT !.pc = "update", !.subject = s, !.asked = role])
       \/ Listed(v, q.org, e) = {} /\ RequestTo(r, Idle)
  /\ UNCHANGED <<staffStore, catalogue>>

\* An unconditional SET: it makes a bare item where there is none.
WithRole(record, role) ==
  [record EXCEPT !.role = role, !.status = IF @ = "none" THEN "bare" ELSE @]

RoleUpdate(r) ==
  LET q == request[r] IN
  /\ q.pc = "update"
  /\ rows' = [rows EXCEPT ![q.org][q.subject] = WithRole(@, q.asked)]
  /\ RequestTo(r, Idle)
  /\ UNCHANGED <<subs, index, catalogue>>

-------------------------------------------------------------------------------
\* What an organisation owns.

CreateBranch(r) ==
  /\ request[r].pc = "branch"
  /\ \E b \in Branches : /\ branchOf[b] = None
                         /\ branchOf' = [branchOf EXCEPT ![b] = request[r].org]
  /\ RequestTo(r, Idle)
  /\ UNCHANGED <<staffStore, creator, serviceOf, queue, directory>>

CreateService(r) ==
  /\ request[r].pc = "service"
  /\ \E s \in Services : /\ serviceOf[s] = None
                         /\ serviceOf' = [serviceOf EXCEPT ![s] = request[r].org]
  /\ RequestTo(r, Idle)
  /\ UNCHANGED <<staffStore, creator, branchOf, queue, directory>>

\* The three items createQueue reads, which never change: the keys of the branch and
\* the service hold the organisation of the request.
Offers(o, b, s) == OrgExists(o) /\ branchOf[b] = o /\ serviceOf[s] = o

CreateQueue(r) ==
  LET o == request[r].org IN
  /\ request[r].pc = "queue"
  /\ \E q \in Queues, b \in Branches, s \in Services :
       /\ queue[q].org = None
       /\ Offers(o, b, s)
       /\ queue' = [queue EXCEPT ![q] = [org |-> o, branch |-> b, service |-> s]]
  /\ RequestTo(r, Idle)
  /\ UNCHANGED <<staffStore, creator, branchOf, serviceOf, directory>>

\* publishOrganization reads the organisation, of which it shows the name.
MayPublish(o) == OrgExists(o)

PublishOrganization(r) ==
  LET o == request[r].org IN
  /\ request[r].pc = "publish"
  /\ \/ MayPublish(o) /\ directory' \in {directory \cup {o}, directory \ {o}}
     \/ ~ MayPublish(o) /\ UNCHANGED directory
  /\ RequestTo(r, Idle)
  /\ UNCHANGED <<staffStore, creator, branchOf, serviceOf, queue>>

\* A request that stops between two calls: an error, a timeout, a lost Lambda.
RequestFails(r) ==
  /\ request[r].pc # "idle"
  /\ RequestTo(r, Idle)
  /\ UNCHANGED <<staffStore, catalogue>>

-------------------------------------------------------------------------------
RequestStep(r) ==
  \/ \E u \in Users, o \in Tenancies, op \in OpsOf[r] : Authorize(r, u, o, op)
  \/ Operate(r) \/ InviteLookup(r) \/ InviteAccount(r) \/ InvitePut(r) \/ InvitePending(r)
  \/ (\E u \in Users : OpenMe(r, u)) \/ Link(r)
  \/ RoleLookup(r) \/ RoleUpdate(r)
  \/ CreateBranch(r) \/ CreateService(r) \/ CreateQueue(r) \/ PublishOrganization(r)
  \/ RequestFails(r)

Next ==
  \/ \E u \in Users : SignUp(u) \/ \E o \in Orgs : CreateOrganization(u, o)
  \/ \E r \in Requests : RequestStep(r)
  \/ Propagate

Spec == Init /\ [][Next]_vars

-------------------------------------------------------------------------------
\* PROPERTIES

Links == [org : Tenancies, key : Pendings, role : Assignable]
RequestPcs == Operations \cup {"idle", "account", "put", "update", "link"}
RequestType ==
  [pc : RequestPcs, user : Users \cup {None}, org : Tenancies \cup {None},
   role : Roles \cup {"none"}, subject : Subs \cup {None},
   asked : Assignable \cup {"none"}, links : SUBSET Links]

\* A request under way has its caller, and what it is about to write has a name.
Aims(q) ==
  /\ q.pc # "idle" => q.user \in Users
  /\ q.pc \notin {"idle", "link"} => q.org \in Tenancies
  /\ q.pc \in {"account", "put"} => q.subject \in Users
  /\ q.pc = "update" => q.subject \in Subs
  /\ q.pc \in {"account", "put", "update"} => q.asked \in Assignable

\* Every item and every request has the shape the code gives it.
TypeOK ==
  /\ subs \subseteq Subs
  /\ rows \in [Tenancies -> [Subs -> Records]]
  /\ index \in [Tenancies -> [Subs -> Records]]
  /\ creator \in [Tenancies -> Users \cup {None}]
  /\ branchOf \in [Branches -> Tenancies \cup {None}]
  /\ serviceOf \in [Services -> Tenancies \cup {None}]
  /\ queue \in [Queues -> [org : Tenancies \cup {None}, branch : Branches \cup {None},
                           service : Services \cup {None}]]
  /\ directory \subseteq Tenancies
  /\ request \in [Requests -> RequestType]
  /\ \A r \in Requests : Aims(request[r])

\* Whoever created an organisation stays its active admin: no invitation, no link and
\* no change of a role, however stale what it read, takes the record over.
CreatorStaysAdmin ==
  \A o \in Tenancies :
    creator[o] # None => rows[o][creator[o]] = Record("ACTIVE", "ORGANIZATION_ADMIN", None)

\* resolveContext: a request that acts on an organisation is that of an active member of
\* it or of the platform, also when the index lagged and while it is under way.
Member(u, o) == rows[o][u].status = "ACTIVE"
Acting(q) == q.pc \notin {"idle", "link"}
ActorsAreMembers ==
  \A r \in Requests :
    Acting(request[r]) => \/ Member(request[r].user, request[r].org)
                          \/ Member(request[r].user, Platform)

\* Nobody becomes a member but by creating the organisation, by an invitation an admin
\* of it (or of the platform) is carrying out, or by taking up a pending invitation
\* that is addressed to them and was not taken up before.
InvitedBy(r, u, o) ==
  /\ request[r].pc = "put" /\ request[r].subject = u /\ request[r].org = o
  /\ HasAtLeast(request[r].role, "ORGANIZATION_ADMIN")
Awaited(u, o) == \E p \in Pendings : rows[o][p].status = "PENDING_LINK" /\ rows[o][p].email = u
MembershipIsGranted ==
  [][\A u \in Users, o \in Tenancies :
       ~ Member(u, o) /\ Member(u, o)'
         => creator'[o] = u \/ Awaited(u, o) \/ \E r \in Requests : InvitedBy(r, u, o)]_vars

-------------------------------------------------------------------------------
\* INDUCTIVE INVARIANT

\* Only organisations that were created have records, and only those are published.
\* Their creator has an account, and the index by e-mail address never finds it.
Known(o) == o = Platform \/ OrgExists(o)
CreatorsInv ==
  /\ creator[Platform] = None /\ Platform \notin directory
  /\ \A o \in Orgs :
       IF creator[o] = None
         THEN o \notin directory /\ \A s \in Subs : rows[o][s] = NoRecord /\ index[o][s] = NoRecord
         ELSE creator[o] \in subs /\ index[o][creator[o]].email = None

\* An invitation is pending, or its addressee has a record in the organisation.
Taken(o, p, u) ==
  \/ rows[o][p].status = "PENDING_LINK" /\ rows[o][p].email = u
  \/ rows[o][u].status # "none"

\* The index may show a member late, but never one who is none; and an invitation it
\* still shows was not lost.  Invitations are under ids that were given out.
IndexInv ==
  /\ \A o \in Tenancies, u \in Users : index[o][u].status = "ACTIVE" => Member(u, o)
  /\ \A o \in Tenancies, p \in Pendings, u \in Users :
       index[o][p].status = "PENDING_LINK" /\ index[o][p].email = u => Taken(o, p, u)
  /\ \A o \in Tenancies, p \in Pendings : rows[o][p].status = "PENDING_LINK" => p \in subs

\* A queue belongs to an organisation that exists, and so do its branch and its service.
OwnershipInv ==
  \A q \in Queues :
    queue[q].org # None => /\ OrgExists(queue[q].org)
                           /\ branchOf[queue[q].branch] = queue[q].org
                           /\ serviceOf[queue[q].service] = queue[q].org

\* A request acts for a member on something known, with the role its operation asks
\* for; whose record it is about to write is no creator, and one it is about to put
\* belongs to an account that was given out.
RequestOK(q) ==
  /\ Acting(q) => Known(q.org) /\ (Member(q.user, q.org) \/ Member(q.user, Platform))
  /\ q.pc \in {"invite", "account", "put"} => HasAtLeast(q.role, "ORGANIZATION_ADMIN")
  /\ q.pc \in {"put", "update"} => q.subject # creator[q.org]
  /\ q.pc = "put" => q.subject \in subs
  /\ q.pc = "link" => \A l \in q.links : Known(l.org) /\ Taken(l.org, l.key, q.user)
RequestsInv == \A r \in Requests : RequestOK(request[r])

IInv == TypeOK /\ CreatorsInv /\ CreatorStaysAdmin /\ IndexInv /\ OwnershipInv /\ RequestsInv
===============================================================================
