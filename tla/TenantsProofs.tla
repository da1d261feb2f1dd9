---------------------------- MODULE TenantsProofs -----------------------------
(***************************************************************************)
(* Theorems about Tenants: the inductive invariant, and that creators stay   *)
(* admins, that whoever acts is a member and that memberships are granted.   *)
(***************************************************************************)
EXTENDS Tenants, TLAPS

USE TenancyAssumption, SubsAssumption, PeopleAssumption, ModesAssumption, OperationsAssumption

\* Ranks: somebody without a role may do nothing.
LEMMA NobodyMayNot ==
  ASSUME NEW op \in Operations
  PROVE  ~ HasAtLeast("none", MinRole(op))
<1>1. Rank["none"] = 0 BY DEF Rank
<1>2. MinRole(op) \in {"STAFF", "MANAGER", "ORGANIZATION_ADMIN"} BY DEF MinRole, Operations
<1>3. Rank["STAFF"] = 1 /\ Rank["MANAGER"] = 2 /\ Rank["ORGANIZATION_ADMIN"] = 3
  BY DEF Rank, Roles, Assignable
<1> QED BY <1>1, <1>2, <1>3 DEF HasAtLeast

\* What a step may do to the store without disturbing a request under way: nothing
\* known is forgotten.
Grows ==
  /\ subs \subseteq subs'
  /\ \A o \in Tenancies : creator[o] # None => creator'[o] = creator[o]
  /\ \A o \in Tenancies, u \in Users : Member(u, o) => Member(u, o)'
  /\ \A o \in Tenancies, p \in Pendings, u \in Users : Taken(o, p, u) => Taken(o, p, u)'

LEMMA NothingGrows ==
  ASSUME UNCHANGED <<subs, creator, rows>>
  PROVE  Grows
BY DEF Grows, Member, Taken

\* A request keeps its promise while the store grows.
LEMMA RequestGrows ==
  ASSUME Grows, NEW q \in RequestType, Aims(q), RequestOK(q), creator[Platform] = None,
         creator'[Platform] = None
  PROVE  RequestOK(q)'
<1>1. Acting(q) => q.org \in Tenancies /\ q.user \in Users
  BY DEF Acting, Aims
<1>2. Acting(q) => Known(q.org)' /\ (Member(q.user, q.org) \/ Member(q.user, Platform))'
  BY <1>1 DEF RequestOK, Grows, Known, OrgExists, Tenancies
<1>3. q.pc \in {"put", "update"} => q.subject \in Subs /\ Known(q.org) /\ q.org \in Tenancies
  BY <1>1 DEF Aims, Subs, RequestOK, Acting
<1>4. q.pc \in {"put", "update"} => q.subject # creator'[q.org]
  BY <1>3 DEF RequestOK, Grows, Known, OrgExists
<1>5. q.pc = "link" => \A l \in q.links : l \in Links
  BY DEF RequestType
<1>6. q.pc = "link" => \A l \in q.links : (Known(l.org) /\ Taken(l.org, l.key, q.user))'
  <2> SUFFICES ASSUME q.pc = "link", NEW l \in q.links
               PROVE  Known(l.org)' /\ Taken(l.org, l.key, q.user)'
    OBVIOUS
  <2>1. l.org \in Tenancies /\ l.key \in Pendings BY <1>5 DEF Links
  <2>2. q.user \in Users BY DEF Aims
  <2>3. Known(l.org) /\ Taken(l.org, l.key, q.user) BY DEF RequestOK
  <2> QED BY <2>1, <2>2, <2>3 DEF Grows, Known, OrgExists
<1> QED BY <1>2, <1>4, <1>6 DEF RequestOK, Grows, Acting

\* The request a step moves on, and all others, keep their promise.
LEMMA RequestsKeep ==
  ASSUME TypeOK, CreatorsInv, RequestsInv, Grows, creator'[Platform] = None,
         NEW r \in Requests, NEW q, RequestTo(r, q), RequestOK(q)'
  PROVE  RequestsInv'
<1> SUFFICES ASSUME NEW k \in Requests PROVE RequestOK(request[k])'
  BY DEF RequestsInv
<1>1. CASE k = r
  <2>1. request'[k] = q BY <1>1 DEF RequestTo, TypeOK
  <2> QED BY <2>1 DEF RequestOK, Acting
<1>2. CASE k # r
  <2>1. request'[k] = request[k] BY <1>2 DEF RequestTo, TypeOK
  <2>2. request[k] \in RequestType /\ Aims(request[k]) /\ RequestOK(request[k])
    BY DEF TypeOK, RequestsInv
  <2>3. PICK c : c = request[k] OBVIOUS
  <2>4. c \in RequestType /\ Aims(c) /\ RequestOK(c) BY <2>2, <2>3
  <2>5. RequestOK(c)' BY <2>4, RequestGrows DEF CreatorsInv
  <2>6. request'[k] = c BY <2>1, <2>3
  <2> QED BY <2>5, <2>6 DEF RequestOK, Acting
<1> QED BY <1>1, <1>2

-------------------------------------------------------------------------------
\* The request a step moves on has its type.
LEMMA RequestTyped ==
  ASSUME TypeOK, NEW r \in Requests, NEW q \in RequestType, Aims(q), RequestTo(r, q)
  PROVE  request' \in [Requests -> RequestType] /\ \A k \in Requests : Aims(request'[k])
BY DEF TypeOK, RequestTo

LEMMA IdleRequest == Idle \in RequestType /\ Aims(Idle) /\ RequestOK(Idle) /\ RequestOK(Idle)'
BY DEF Idle, RequestType, RequestPcs, Aims, RequestOK, Acting

\* A step that only reads.
LEMMA ReadOnly ==
  ASSUME IInv, UNCHANGED <<staffStore, catalogue>>, NEW r \in Requests,
         NEW q \in RequestType, Aims(q), RequestOK(q), RequestTo(r, q)
  PROVE  IInv'
<1> USE DEF IInv, staffStore, catalogue
<1>1. TypeOK' BY RequestTyped DEF TypeOK
<1>2. CreatorsInv' /\ creator'[Platform] = None BY DEF CreatorsInv, OrgExists
<1>3. CreatorStaysAdmin' BY DEF CreatorStaysAdmin
<1>4. IndexInv' BY DEF IndexInv, Member, Taken
<1>5. OwnershipInv' BY DEF OwnershipInv, OrgExists
<1>6. Grows BY NothingGrows
<1>7. RequestOK(q)' BY DEF RequestOK, Known, OrgExists, Member, Taken
<1>8. RequestsInv' BY <1>2, <1>6, <1>7, RequestsKeep
<1> QED BY <1>1, <1>2, <1>3, <1>4, <1>5, <1>8

\* A record written over that of nobody's creator forgets no member and no invitation.
LEMMA RowWrite ==
  ASSUME IInv, NEW o \in Tenancies, NEW s \in Subs, NEW x \in Records,
         rows' = [rows EXCEPT ![o][s] = x], UNCHANGED <<index, catalogue>>,
         subs \subseteq subs', Known(o), s # creator[o],
         s \in Users => x.status # "none" /\ (Member(s, o) => x.status = "ACTIVE"),
         s \in Pendings /\ rows[o][s].status = "PENDING_LINK"
           => x.status = "PENDING_LINK" /\ x.email = rows[o][s].email,
         s \in Pendings /\ x.status = "PENDING_LINK" => s \in subs'
  PROVE  /\ rows' \in [Tenancies -> [Subs -> Records]]
         /\ Grows /\ CreatorsInv' /\ CreatorStaysAdmin' /\ IndexInv' /\ OwnershipInv'
<1> USE DEF IInv, catalogue
<1>1. rows' \in [Tenancies -> [Subs -> Records]] BY DEF TypeOK
<1>2. rows'[o][s] = x BY DEF TypeOK
<1>3. \A p \in Tenancies, t \in Subs : p # o \/ t # s => rows'[p][t] = rows[p][t]
  BY DEF TypeOK
<1>4. \A p \in Tenancies, u \in Users : rows[p][u].status # "none" => rows'[p][u].status # "none"
  BY <1>2, <1>3 DEF Subs
<1>5. \A p \in Tenancies, u \in Users : Member(u, p) => Member(u, p)'
  BY <1>2, <1>3 DEF Subs, Member
<1>6. \A p \in Tenancies, t \in Pendings, u \in Users : Taken(p, t, u) => Taken(p, t, u)'
  BY <1>2, <1>3, <1>4 DEF Subs, Taken
<1>7. Grows BY <1>5, <1>6 DEF Grows
<1>8. CreatorsInv'
  <2>1. \A p \in Orgs : creator[p] = None => p # o
    BY DEF Known, OrgExists
  <2> QED BY <2>1, <1>3 DEF CreatorsInv, Tenancies
<1>9. CreatorStaysAdmin'
  BY <1>3 DEF CreatorStaysAdmin, TypeOK, Subs
<1>10. IndexInv' BY <1>2, <1>3, <1>5, <1>6 DEF IndexInv, Subs
<1>11. OwnershipInv' BY DEF OwnershipInv, OrgExists
<1> QED BY <1>1, <1>7, <1>8, <1>9, <1>10, <1>11

-------------------------------------------------------------------------------
\* One lemma per action.

LEMMA SignUpStep == ASSUME IInv, NEW u \in Users, SignUp(u) PROVE IInv'
<1> USE DEF IInv, SignUp, catalogue
<1>1. TypeOK' BY DEF TypeOK, Subs
<1>2. CreatorsInv' BY DEF CreatorsInv
<1>3. CreatorStaysAdmin' /\ OwnershipInv'
  BY DEF CreatorStaysAdmin, OwnershipInv, OrgExists
<1>4. IndexInv' BY DEF IndexInv, Member, Taken
<1>5. RequestsInv' BY DEF RequestsInv, RequestOK, Known, OrgExists, Member, Taken
<1> QED BY <1>1, <1>2, <1>3, <1>4, <1>5

LEMMA PropagateStep == ASSUME IInv, Propagate PROVE IInv'
<1> USE DEF IInv, Propagate, catalogue
<1>1. TypeOK' BY DEF TypeOK
<1>2. CreatorsInv'
  BY DEF CreatorsInv, CreatorStaysAdmin, Record, Tenancies
<1>3. CreatorStaysAdmin' /\ OwnershipInv'
  BY DEF CreatorStaysAdmin, OwnershipInv, OrgExists
<1>4. IndexInv' BY DEF IndexInv, Member, Taken
<1>5. RequestsInv' BY DEF RequestsInv, RequestOK, Known, OrgExists, Member, Taken
<1> QED BY <1>1, <1>2, <1>3, <1>4, <1>5

LEMMA CreateOrganizationStep ==
  ASSUME IInv, NEW u \in Users, NEW o \in Orgs, CreateOrganization(u, o) PROVE IInv'
<1> USE DEF IInv, CreateOrganization
<1> DEFINE x == Record("ACTIVE", "ORGANIZATION_ADMIN", None)
<1>0. o \in Tenancies /\ u \in Subs /\ o # Platform /\ u # None
  BY DEF Tenancies, Subs
<1>1. x \in Records BY DEF Record, Records, Roles, Assignable
<1>2. rows'[o][u] = x /\ \A p \in Tenancies, t \in Subs : p # o \/ t # u => rows'[p][t] = rows[p][t]
  BY <1>0 DEF TypeOK
<1>3. creator'[o] = u /\ \A p \in Tenancies : p # o => creator'[p] = creator[p]
  BY <1>0 DEF TypeOK
<1>4. creator[o] = None BY DEF OrgExists
<1>5. TypeOK' BY <1>0, <1>1 DEF TypeOK
<1>6. \A t \in Subs : rows[o][t] = NoRecord /\ index[o][t] = NoRecord
  BY <1>4 DEF CreatorsInv
<1>7. o \notin directory /\ Platform \notin directory BY <1>4 DEF CreatorsInv
<1>8. creator'[Platform] = None BY <1>0, <1>3 DEF CreatorsInv, Tenancies
<1>9. CreatorsInv'
  BY <1>0, <1>2, <1>3, <1>6, <1>7, <1>8 DEF CreatorsInv, Tenancies, NoRecord
<1>10. CreatorStaysAdmin'
  BY <1>0, <1>2, <1>3 DEF CreatorStaysAdmin, TypeOK, Subs
<1>11. Grows
  <2>1. \A p \in Tenancies, v \in Users : Member(v, p) => Member(v, p)'
    BY <1>0, <1>2 DEF Member, Record, Subs
  <2>2. \A p \in Tenancies, t \in Pendings, v \in Users : Taken(p, t, v) => Taken(p, t, v)'
    BY <1>0, <1>2 DEF Taken, Record, Subs
  <2>3. \A p \in Tenancies : creator[p] # None => creator'[p] = creator[p]
    BY <1>3, <1>4
  <2> QED BY <2>1, <2>2, <2>3 DEF Grows
<1>12. IndexInv' BY <1>0, <1>2, <1>11 DEF IndexInv, Grows, Subs
<1>13. OwnershipInv' BY <1>0, <1>3, <1>4 DEF OwnershipInv, OrgExists, TypeOK
<1>14. RequestsInv'
  <2> SUFFICES ASSUME NEW k \in Requests PROVE RequestOK(request[k])'
    BY DEF RequestsInv
  <2>1. PICK c : c = request[k] OBVIOUS
  <2>2. c \in RequestType /\ Aims(c) /\ RequestOK(c) BY <2>1 DEF TypeOK, RequestsInv
  <2>3. RequestOK(c)' BY <2>2, <1>8, <1>11, RequestGrows DEF CreatorsInv
  <2> QED BY <2>1, <2>3 DEF RequestOK, Acting
<1> QED BY <1>5, <1>9, <1>10, <1>12, <1>13, <1>14

\* What a member of the index may do, a member of the table may.
LEMMA IndexedAreMembers ==
  ASSUME IInv, NEW v \in Views, NEW u \in Users, NEW o \in Tenancies
  PROVE  IsMember(v, u, o) => Member(u, o)
BY DEF IInv, IndexInv, Views, IsMember, Member

LEMMA AuthorizeStep ==
  ASSUME IInv, NEW r \in Requests, NEW u \in Users, NEW o \in Tenancies,
         NEW op \in Operations, Authorize(r, u, o, op)
  PROVE  IInv'
<1>1. PICK v \in Views :
        /\ HasAtLeast(ResolvedRole(v, u, o), MinRole(op))
        /\ RequestTo(r, [Idle EXCEPT !.pc = op, !.user = u, !.org = o,
                                     !.role = ResolvedRole(v, u, o)])
  BY DEF Authorize
<1> DEFINE role == ResolvedRole(v, u, o)
           q == [Idle EXCEPT !.pc = op, !.user = u, !.org = o, !.role = role]
<1>2. Platform \in Tenancies BY DEF Tenancies
<1>3. role # "none" BY <1>1, NobodyMayNot
<1>4. Member(u, o) \/ Member(u, Platform)
  BY <1>2, <1>3, IndexedAreMembers DEF ResolvedRole
<1>5. v[o][u] \in Records BY DEF IInv, TypeOK, Views, Subs
<1>6. role \in Roles \cup {"none"} BY <1>5 DEF ResolvedRole, Records, Roles
<1>7. q \in RequestType /\ q.pc = op /\ q.user = u /\ q.org = o /\ q.role = role
  BY <1>6 DEF Idle, RequestType, RequestPcs
<1>8. Aims(q) BY <1>7 DEF Aims, Operations
<1>9. Known(o)
  BY DEF Authorize, Addressed, Known, IInv, OwnershipInv, Tenancies
<1>10. op = "invite" => MinRole(op) = "ORGANIZATION_ADMIN" BY DEF MinRole, Operations
<1>11. RequestOK(q) BY <1>1, <1>4, <1>7, <1>9, <1>10 DEF RequestOK, Operations
<1>12. PICK c : c = q OBVIOUS
<1>13. c \in RequestType /\ Aims(c) /\ RequestOK(c) /\ RequestTo(r, c)
  BY <1>1, <1>7, <1>8, <1>11, <1>12
<1> QED BY <1>13, ReadOnly DEF Authorize

\* Steps that end the request.
LEMMA EndStep ==
  ASSUME IInv, NEW r \in Requests, UNCHANGED <<staffStore, catalogue>>, RequestTo(r, Idle)
  PROVE  IInv'
BY IdleRequest, ReadOnly

LEMMA InviteLookupStep ==
  ASSUME IInv, NEW r \in Requests, InviteLookup(r) PROVE IInv'
<1>1. PICK e \in Users, role \in Asked :
        \/ RequestTo(r, [request[r] EXCEPT !.pc = "account", !.subject = e, !.asked = role])
        \/ RequestTo(r, Idle)
  BY DEF InviteLookup
<1>2. CASE RequestTo(r, Idle) BY <1>2, EndStep DEF InviteLookup
<1>3. CASE RequestTo(r, [request[r] EXCEPT !.pc = "account", !.subject = e, !.asked = role])
  <2>1. PICK c : c = [request[r] EXCEPT !.pc = "account", !.subject = e, !.asked = role]
    OBVIOUS
  <2>2. request[r] \in RequestType /\ Aims(request[r]) /\ RequestOK(request[r])
        /\ request[r].pc = "invite"
    BY DEF IInv, TypeOK, RequestsInv, InviteLookup
  <2>3. c \in RequestType /\ c.pc = "account" /\ c.subject = e /\ c.asked = role
        /\ c.user = request[r].user /\ c.org = request[r].org /\ c.role = request[r].role
    BY <2>1, <2>2 DEF RequestType, RequestPcs, Subs
  <2>4. Aims(c) BY <2>2, <2>3 DEF Aims
  <2>5. RequestOK(c) BY <2>2, <2>3 DEF RequestOK, Acting
  <2>6. RequestTo(r, c) BY <1>3, <2>1
  <2> QED BY <2>3, <2>4, <2>5, <2>6, ReadOnly DEF InviteLookup
<1> QED BY <1>1, <1>2, <1>3

LEMMA RoleLookupStep ==
  ASSUME IInv, NEW r \in Requests, RoleLookup(r) PROVE IInv'
<1> DEFINE q == request[r]
<1>0. q \in RequestType /\ Aims(q) /\ RequestOK(q) /\ q.pc = "role"
  BY DEF IInv, TypeOK, RequestsInv, RoleLookup
<1>1. CASE RequestTo(r, Idle) BY <1>1, EndStep DEF RoleLookup
<1>2. CASE ~ RequestTo(r, Idle)
  <2>1. PICK e \in Users, role \in Asked, v \in Views : \E s \in Listed(v, q.org, e) :
          RequestTo(r, [q EXCEPT !.pc = "update", !.subject = s, !.asked = role])
    BY <1>2 DEF RoleLookup
  <2>2. PICK s \in Listed(v, q.org, e) :
          RequestTo(r, [q EXCEPT !.pc = "update", !.subject = s, !.asked = role])
    BY <2>1
  <2>3. q.org \in Tenancies /\ Known(q.org) BY <1>0 DEF Aims, RequestOK, Acting
  <2>4. s \in Subs /\ v[q.org][s].email = e /\ e # None BY DEF Listed, Subs
  <2>5. s # creator[q.org]
    <3>1. CASE q.org = Platform BY <3>1, <2>4 DEF IInv, CreatorsInv
    <3>2. CASE q.org # Platform
      <4>1. q.org \in Orgs /\ creator[q.org] # None BY <2>3, <3>2 DEF Tenancies, Known, OrgExists
      <4>2. index[q.org][creator[q.org]].email = None
        BY <4>1 DEF IInv, CreatorsInv
      <4>3. rows[q.org][creator[q.org]].email = None
        BY <2>3, <4>1 DEF IInv, CreatorStaysAdmin, Record
      <4> QED BY <4>2, <4>3, <2>4 DEF Views
    <3> QED BY <3>1, <3>2
  <2>6. PICK c : c = [q EXCEPT !.pc = "update", !.subject = s, !.asked = role] OBVIOUS
  <2>7. c \in RequestType /\ c.pc = "update" /\ c.subject = s /\ c.asked = role
        /\ c.user = q.user /\ c.org = q.org
    BY <1>0, <2>4, <2>6 DEF RequestType, RequestPcs
  <2>8. Aims(c) BY <1>0, <2>3, <2>4, <2>7 DEF Aims
  <2>9. RequestOK(c) BY <1>0, <2>5, <2>7 DEF RequestOK, Acting
  <2>10. RequestTo(r, c) BY <2>2, <2>6
  <2> QED BY <2>7, <2>8, <2>9, <2>10, ReadOnly DEF RoleLookup
<1> QED BY <1>1, <1>2

LEMMA OpenMeStep ==
  ASSUME IInv, NEW r \in Requests, NEW u \in Users, OpenMe(r, u) PROVE IInv'
<1>1. PICK v \in Views :
        RequestTo(r, [Idle EXCEPT !.pc = "link", !.user = u, !.links = Invitations(v, u)])
  BY DEF OpenMe
<1>2. Invitations(v, u) \in SUBSET Links BY DEF Invitations, Links
<1>3. PICK c : c = [Idle EXCEPT !.pc = "link", !.user = u, !.links = Invitations(v, u)]
  OBVIOUS
<1>4. c \in RequestType /\ c.pc = "link" /\ c.user = u /\ c.links = Invitations(v, u)
  BY <1>2, <1>3 DEF Idle, RequestType, RequestPcs
<1>5. Aims(c) BY <1>4 DEF Aims
<1>6. \A l \in Invitations(v, u) : Known(l.org) /\ Taken(l.org, l.key, u)
  <2> SUFFICES ASSUME NEW l \in Invitations(v, u) PROVE Known(l.org) /\ Taken(l.org, l.key, u)
    OBVIOUS
  <2>1. l.org \in Tenancies /\ l.key \in Pendings /\ l.key \in Subs
        /\ v[l.org][l.key].status = "PENDING_LINK" /\ v[l.org][l.key].email = u
    BY DEF Invitations, Record, Subs
  <2>2. Taken(l.org, l.key, u)
    <3>1. CASE v = rows BY <2>1, <3>1 DEF Taken
    <3>2. CASE v = index BY <2>1, <3>2 DEF IInv, IndexInv
    <3> QED BY <3>1, <3>2 DEF Views
  <2>3. Known(l.org)
    <3> SUFFICES ASSUME l.org \in Orgs, creator[l.org] = None PROVE FALSE
      BY <2>1 DEF Known, OrgExists, Tenancies
    <3>1. rows[l.org][l.key].status = "none" /\ index[l.org][l.key].status = "none"
      BY <2>1 DEF IInv, CreatorsInv, NoRecord
    <3> QED BY <2>1, <3>1 DEF Views
  <2> QED BY <2>2, <2>3
<1>7. RequestOK(c) BY <1>4, <1>6 DEF RequestOK, Acting
<1>8. RequestTo(r, c) BY <1>1, <1>3
<1> QED BY <1>4, <1>5, <1>7, <1>8, ReadOnly DEF OpenMe

LEMMA InviteAccountStep ==
  ASSUME IInv, NEW r \in Requests, InviteAccount(r) PROVE IInv'
<1> DEFINE q == request[r]
<1>0. q \in RequestType /\ Aims(q) /\ RequestOK(q) /\ q.pc = "account" /\ q.subject \in Users
      /\ q.org \in Tenancies
  BY DEF IInv, TypeOK, RequestsInv, InviteAccount, Aims
<1>1. CASE ~ AccountIsFree(q.subject)
  BY <1>1, EndStep DEF InviteAccount, staffStore
<1>2. CASE AccountIsFree(q.subject)
  <2>1. subs' = subs \cup {q.subject} /\ RequestTo(r, [q EXCEPT !.pc = "put"])
        /\ q.subject \notin subs
    BY <1>2 DEF InviteAccount, AccountIsFree
  <2>2. UNCHANGED <<rows, index, creator, branchOf, serviceOf, queue, directory>>
    BY DEF InviteAccount, catalogue
  <2>3. PICK c : c = [q EXCEPT !.pc = "put"] OBVIOUS
  <2>4. c \in RequestType /\ c.pc = "put" /\ c.subject = q.subject /\ c.asked = q.asked
        /\ c.user = q.user /\ c.org = q.org /\ c.role = q.role
    BY <1>0, <2>3 DEF RequestType, RequestPcs
  <2>5. Aims(c) BY <1>0, <2>4 DEF Aims
  <2>6. RequestTo(r, c) BY <2>1, <2>3
  <2>7. TypeOK' BY <1>0, <2>1, <2>2, <2>4, <2>5, <2>6, RequestTyped DEF IInv, TypeOK, Subs
  <2>8. CreatorsInv' /\ creator'[Platform] = None BY <2>1, <2>2 DEF IInv, CreatorsInv
  <2>9. CreatorStaysAdmin' /\ OwnershipInv' /\ IndexInv'
    BY <2>1, <2>2 DEF IInv, CreatorStaysAdmin, OwnershipInv, OrgExists, IndexInv, Member, Taken
  <2>10. Grows BY <2>1, <2>2 DEF Grows, Member, Taken
  <2>11. creator[q.org] # q.subject
    BY <1>0, <2>1 DEF IInv, CreatorsInv, Tenancies, Subs
  <2>12. RequestOK(c)'
    BY <1>0, <2>1, <2>2, <2>4, <2>11 DEF RequestOK, Acting, Known, OrgExists, Member
  <2>13. RequestsInv' BY <2>6, <2>8, <2>10, <2>12, RequestsKeep DEF IInv
  <2> QED BY <2>7, <2>8, <2>9, <2>13 DEF IInv
<1> QED BY <1>1, <1>2

\* The record is that of an account that was just made, of nobody's creator.
LEMMA InvitePutStep == ASSUME IInv, NEW r \in Requests, InvitePut(r) PROVE IInv'
<1> DEFINE q == request[r]
           x == Record("ACTIVE", q.asked, q.subject)
<1>1. q \in RequestType /\ Aims(q) /\ RequestOK(q) /\ q.pc = "put"
  BY DEF IInv, TypeOK, RequestsInv, InvitePut
<1>2. q.subject \in Users /\ q.subject \in Subs /\ q.org \in Tenancies /\ q.asked \in Assignable
      /\ Known(q.org) /\ q.subject # creator[q.org]
  BY <1>1 DEF Aims, RequestOK, Acting, Subs
<1>3. x \in Records /\ x.status = "ACTIVE" BY <1>2 DEF Record, Records, Roles
<1>4. rows' = [rows EXCEPT ![q.org][q.subject] = x] /\ RequestTo(r, Idle)
      /\ UNCHANGED <<subs, index, catalogue>>
  BY DEF InvitePut
<1>5. q.subject \notin Pendings BY <1>2
<1>6. /\ rows' \in [Tenancies -> [Subs -> Records]]
      /\ Grows /\ CreatorsInv' /\ CreatorStaysAdmin' /\ IndexInv' /\ OwnershipInv'
  BY <1>2, <1>3, <1>4, <1>5, RowWrite
<1>7. TypeOK' BY <1>4, <1>6, IdleRequest, RequestTyped DEF IInv, TypeOK, catalogue
<1>8. RequestsInv' BY <1>4, <1>6, IdleRequest, RequestsKeep DEF IInv, CreatorsInv
<1> QED BY <1>6, <1>7, <1>8 DEF IInv

\* The id is new, so nothing waits under it.
LEMMA InvitePendingStep == ASSUME IInv, NEW r \in Requests, InvitePending(r) PROVE IInv'
<1> DEFINE q == request[r]
           x == Record("PENDING_LINK", q.asked, q.subject)
<1>1. q \in RequestType /\ Aims(q) /\ RequestOK(q) /\ q.pc = "account"
  BY DEF IInv, TypeOK, RequestsInv, InvitePending
<1>2. q.subject \in Users /\ q.org \in Tenancies /\ q.asked \in Assignable /\ Known(q.org)
  BY <1>1 DEF Aims, RequestOK, Acting
<1>3. x \in Records /\ x.status = "PENDING_LINK" /\ x.email = q.subject
  BY <1>2 DEF Record, Records, Roles
<1>4. PICK p \in Pendings \ subs :
        subs' = subs \cup {p} /\ rows' = [rows EXCEPT ![q.org][p] = x]
  BY DEF InvitePending
<1>5. RequestTo(r, Idle) /\ UNCHANGED <<index, catalogue>> BY DEF InvitePending
<1>6. p \in Subs /\ p \notin Users BY DEF Subs
<1>7. p # creator[q.org]
  BY <1>2, <1>6 DEF IInv, TypeOK, Subs
<1>8. rows[q.org][p].status # "PENDING_LINK" BY <1>2 DEF IInv, IndexInv
<1>9. /\ rows' \in [Tenancies -> [Subs -> Records]]
      /\ Grows /\ CreatorsInv' /\ CreatorStaysAdmin' /\ IndexInv' /\ OwnershipInv'
  BY <1>2, <1>3, <1>4, <1>5, <1>6, <1>7, <1>8, RowWrite
<1>10. TypeOK' BY <1>4, <1>5, <1>6, <1>9, IdleRequest, RequestTyped DEF IInv, TypeOK, catalogue
<1>11. RequestsInv' BY <1>5, <1>9, IdleRequest, RequestsKeep DEF IInv, CreatorsInv
<1> QED BY <1>9, <1>10, <1>11 DEF IInv

\* An update keeps who is a member and what is pending.
LEMMA RoleUpdateStep == ASSUME IInv, NEW r \in Requests, RoleUpdate(r) PROVE IInv'
<1> DEFINE q == request[r]
           x == WithRole(rows[q.org][q.subject], q.asked)
<1>1. q \in RequestType /\ Aims(q) /\ RequestOK(q) /\ q.pc = "update"
  BY DEF IInv, TypeOK, RequestsInv, RoleUpdate
<1>2. q.subject \in Subs /\ q.org \in Tenancies /\ q.asked \in Assignable
      /\ Known(q.org) /\ q.subject # creator[q.org]
  BY <1>1 DEF Aims, RequestOK, Acting
<1>3. rows[q.org][q.subject] \in Records BY <1>2 DEF IInv, TypeOK
<1>4. /\ x \in Records /\ x.status # "none" /\ x.email = rows[q.org][q.subject].email
      /\ rows[q.org][q.subject].status # "none" => x.status = rows[q.org][q.subject].status
      /\ x.status = "PENDING_LINK" => rows[q.org][q.subject].status = "PENDING_LINK"
  BY <1>2, <1>3 DEF WithRole, Records, Roles
<1>5. rows' = [rows EXCEPT ![q.org][q.subject] = x]
  BY <1>2 DEF RoleUpdate
<1>6. RequestTo(r, Idle) /\ UNCHANGED <<subs, index, catalogue>> BY DEF RoleUpdate
<1>7. q.subject \in Pendings /\ x.status = "PENDING_LINK" => q.subject \in subs'
  BY <1>2, <1>4, <1>6 DEF IInv, IndexInv
<1>8. Member(q.subject, q.org) => x.status = "ACTIVE" BY <1>4 DEF Member
<1>9. /\ rows' \in [Tenancies -> [Subs -> Records]]
      /\ Grows /\ CreatorsInv' /\ CreatorStaysAdmin' /\ IndexInv' /\ OwnershipInv'
  BY <1>2, <1>4, <1>5, <1>6, <1>7, <1>8, RowWrite
<1>10. TypeOK' BY <1>6, <1>9, IdleRequest, RequestTyped DEF IInv, TypeOK, catalogue
<1>11. RequestsInv' BY <1>6, <1>9, IdleRequest, RequestsKeep DEF IInv, CreatorsInv
<1> QED BY <1>9, <1>10, <1>11 DEF IInv

\* The link moves a record from the opaque id to a person who has none: two writes.
LEMMA LinkStep == ASSUME IInv, NEW r \in Requests, Link(r) PROVE IInv'
<1> DEFINE q == request[r]
<1>1. q \in RequestType /\ Aims(q) /\ RequestOK(q) /\ q.pc = "link" /\ q.user \in Users
  BY DEF IInv, TypeOK, RequestsInv, Link, Aims
<1>2. PICK l \in q.links :
        \/ /\ MayLink(l.org, q.user)
           /\ rows' = [rows EXCEPT ![l.org][q.user] = Record("ACTIVE", l.role, q.user),
                                   ![l.org][l.key] = NoRecord]
           /\ RequestTo(r, IF q.links = {l} THEN Idle ELSE [q EXCEPT !.links = @ \ {l}])
        \/ /\ ~ MayLink(l.org, q.user)
           /\ RequestTo(r, Idle)
           /\ UNCHANGED rows
  BY <1>1 DEF Link
<1>3. UNCHANGED <<subs, index, creator, branchOf, serviceOf, queue, directory>>
  BY DEF Link, catalogue
<1>4. CASE ~ MayLink(l.org, q.user)
  BY <1>2, <1>3, <1>4, EndStep DEF staffStore, catalogue
<1>5. CASE MayLink(l.org, q.user)
  <2> DEFINE o == l.org
             u == q.user
             p == l.key
             x == Record("ACTIVE", l.role, u)
  <2>1. /\ o \in Tenancies /\ p \in Pendings /\ l.role \in Assignable
        /\ Known(o) /\ u \in Subs /\ p \in Subs /\ u # p
    BY <1>1 DEF RequestType, Links, RequestOK, Subs
  <2>2. rows[o][u].status = "none" BY <1>5 DEF MayLink
  <2>3. x \in Records /\ NoRecord \in Records /\ x.status = "ACTIVE"
    BY <1>1, <2>1 DEF Record, Records, NoRecord, Roles
  <2>4. rows' \in [Tenancies -> [Subs -> Records]]
    <3>1. rows \in [Tenancies -> [Subs -> Records]] BY DEF IInv, TypeOK
    <3>2. PICK m : m = [rows EXCEPT ![o][u] = x] OBVIOUS
    <3>3. m \in [Tenancies -> [Subs -> Records]] BY <2>1, <2>3, <3>1, <3>2
    <3>4. rows' = [m EXCEPT ![o][p] = NoRecord] BY <1>2, <1>5, <3>2
    <3> QED BY <2>1, <2>3, <3>3, <3>4
  <2>5. /\ rows'[o][u] = x /\ rows'[o][p] = NoRecord
        /\ \A t \in Tenancies, s \in Subs :
             t # o \/ (s # u /\ s # p) => rows'[t][s] = rows[t][s]
    BY <1>2, <1>5, <2>1 DEF IInv, TypeOK
  <2>6. \A t \in Tenancies, v \in Users : rows[t][v].status # "none" => rows'[t][v].status # "none"
    BY <2>1, <2>3, <2>5 DEF Subs
  <2>7. \A t \in Tenancies, v \in Users : Member(v, t) => Member(v, t)'
    BY <2>1, <2>3, <2>5 DEF Subs, Member
  <2>8. rows[o][p].status = "PENDING_LINK" /\ rows[o][p].email = u
    BY <1>1, <2>2 DEF RequestOK, Taken
  <2>9. \A t \in Tenancies, k \in Pendings, v \in Users : Taken(t, k, v) => Taken(t, k, v)'
    <3> SUFFICES ASSUME NEW t \in Tenancies, NEW k \in Pendings, NEW v \in Users, Taken(t, k, v)
                 PROVE  Taken(t, k, v)'
      OBVIOUS
    <3>1. CASE rows[t][v].status # "none" BY <2>6, <3>1 DEF Taken
    <3>2. CASE t = o /\ k = p /\ rows[t][v].status = "none"
      <4>1. v = u BY <2>8, <3>2 DEF Taken
      <4> QED BY <2>3, <2>5, <3>2, <4>1 DEF Taken
    <3>3. CASE (t # o \/ k # p) /\ rows[t][v].status = "none"
      <4>1. k \in Subs /\ k # u BY <1>1 DEF Subs
      <4>2. rows'[t][k] = rows[t][k] BY <2>5, <3>3, <4>1
      <4> QED BY <3>3, <4>2 DEF Taken
    <3> QED BY <3>1, <3>2, <3>3
  <2>10. Grows BY <1>3, <2>7, <2>9 DEF Grows
  <2>11. creator[o] # u /\ creator[o] # p
    <3>1. CASE creator[o] = None BY <2>1, <3>1
    <3>2. CASE creator[o] # None
      <4>1. rows[o][creator[o]].status = "ACTIVE" /\ creator[o] \in Users
        BY <2>1, <3>2 DEF IInv, CreatorStaysAdmin, Record, TypeOK
      <4> QED BY <2>1, <2>2, <4>1
    <3> QED BY <3>1, <3>2
  <2>12. CreatorsInv' /\ creator'[Platform] = None
    <3>1. \A t \in Orgs : creator[t] = None => t # o BY <2>1 DEF Known, OrgExists, IInv, CreatorsInv
    <3> QED BY <1>3, <2>5, <3>1 DEF IInv, CreatorsInv, Tenancies
  <2>13. CreatorStaysAdmin'
    BY <1>3, <2>5, <2>11 DEF IInv, CreatorStaysAdmin, TypeOK, Subs
  <2>14. IndexInv'
    BY <1>3, <2>3, <2>5, <2>7, <2>9 DEF IInv, IndexInv, NoRecord, Subs
  <2>15. OwnershipInv' BY <1>3 DEF IInv, OwnershipInv, OrgExists
  <2>16. PICK c : c = IF q.links = {l} THEN Idle ELSE [q EXCEPT !.links = @ \ {l}] OBVIOUS
  <2>17. c \in RequestType /\ Aims(c) /\ RequestOK(c)
    <3>1. CASE q.links = {l} BY <2>16, <3>1, IdleRequest
    <3>2. CASE q.links # {l}
      <4>1. /\ c \in RequestType /\ c.pc = "link" /\ c.user = q.user
            /\ c.links = q.links \ {l}
        BY <1>1, <2>16, <3>2 DEF RequestType
      <4> QED BY <1>1, <4>1 DEF Aims, RequestOK, Acting
    <3> QED BY <3>1, <3>2
  <2>18. RequestTo(r, c) BY <1>2, <1>5, <2>16
  <2>19. RequestOK(c)' BY <2>10, <2>12, <2>17, RequestGrows DEF IInv, CreatorsInv
  <2>20. TypeOK' BY <1>3, <2>4, <2>17, <2>18, RequestTyped DEF IInv, TypeOK
  <2>21. RequestsInv' BY <2>10, <2>12, <2>18, <2>19, RequestsKeep DEF IInv
  <2> QED BY <2>12, <2>13, <2>14, <2>15, <2>20, <2>21 DEF IInv
<1> QED BY <1>4, <1>5

LEMMA IdleStep ==
  ASSUME IInv, NEW r \in Requests, Operate(r) \/ RequestFails(r) PROVE IInv'
BY EndStep DEF Operate, RequestFails

\* What an organisation comes to own disturbs no staff record and no request.
LEMMA Ownership ==
  ASSUME IInv, UNCHANGED <<subs, rows, index, creator>>,
         NEW r \in Requests, RequestTo(r, Idle),
         branchOf' \in [Branches -> Tenancies \cup {None}],
         serviceOf' \in [Services -> Tenancies \cup {None}],
         queue' \in [Queues -> [org : Tenancies \cup {None}, branch : Branches \cup {None},
                                service : Services \cup {None}]],
         directory' \subseteq Tenancies, OwnershipInv',
         \A o \in directory' : OrgExists(o) /\ o # Platform
  PROVE  IInv'
<1> USE DEF IInv
<1>1. TypeOK' BY IdleRequest, RequestTyped DEF TypeOK
<1>2. CreatorsInv' /\ creator'[Platform] = None BY DEF CreatorsInv, OrgExists
<1>3. CreatorStaysAdmin' /\ IndexInv' BY DEF CreatorStaysAdmin, IndexInv, Member, Taken
<1>4. Grows BY NothingGrows
<1>5. RequestsInv' BY <1>2, <1>4, IdleRequest, RequestsKeep
<1> QED BY <1>1, <1>2, <1>3, <1>5

LEMMA Published == ASSUME IInv PROVE \A o \in directory : OrgExists(o) /\ o # Platform
BY DEF IInv, CreatorsInv, TypeOK, Tenancies, OrgExists

\* A branch is created under a new id, so no queue has it yet.
LEMMA CreateBranchStep == ASSUME IInv, NEW r \in Requests, CreateBranch(r) PROVE IInv'
<1>1. PICK b \in Branches : branchOf[b] = None
        /\ branchOf' = [branchOf EXCEPT ![b] = request[r].org]
  BY DEF CreateBranch
<1>2. request[r].org \in Tenancies BY DEF IInv, TypeOK, Aims, CreateBranch
<1>3. OwnershipInv'
  BY <1>1 DEF IInv, TypeOK, OwnershipInv, OrgExists, CreateBranch
<1>4. branchOf' \in [Branches -> Tenancies \cup {None}] BY <1>1, <1>2 DEF IInv, TypeOK
<1> QED BY <1>3, <1>4, Ownership, Published DEF IInv, TypeOK, CreateBranch, staffStore

LEMMA CreateServiceStep == ASSUME IInv, NEW r \in Requests, CreateService(r) PROVE IInv'
<1>1. PICK s \in Services : serviceOf[s] = None
        /\ serviceOf' = [serviceOf EXCEPT ![s] = request[r].org]
  BY DEF CreateService
<1>2. request[r].org \in Tenancies BY DEF IInv, TypeOK, Aims, CreateService
<1>3. OwnershipInv'
  BY <1>1 DEF IInv, TypeOK, OwnershipInv, OrgExists, CreateService
<1>4. serviceOf' \in [Services -> Tenancies \cup {None}] BY <1>1, <1>2 DEF IInv, TypeOK
<1> QED BY <1>3, <1>4, Ownership, Published DEF IInv, TypeOK, CreateService, staffStore

LEMMA CreateQueueStep == ASSUME IInv, NEW r \in Requests, CreateQueue(r) PROVE IInv'
<1> DEFINE o == request[r].org
<1>1. PICK q \in Queues, b \in Branches, s \in Services :
        Offers(o, b, s) /\ queue' = [queue EXCEPT ![q] = [org |-> o, branch |-> b, service |-> s]]
  BY DEF CreateQueue
<1>2. o \in Tenancies BY DEF IInv, TypeOK, Aims, CreateQueue
<1>3. OwnershipInv'
  BY <1>1, <1>2 DEF IInv, TypeOK, OwnershipInv, OrgExists, Offers, CreateQueue, staffStore
<1>4. queue' \in [Queues -> [org : Tenancies \cup {None}, branch : Branches \cup {None},
                             service : Services \cup {None}]]
  BY <1>1, <1>2 DEF IInv, TypeOK
<1> QED BY <1>3, <1>4, Ownership, Published DEF IInv, TypeOK, CreateQueue, staffStore

LEMMA PublishStep == ASSUME IInv, NEW r \in Requests, PublishOrganization(r) PROVE IInv'
<1> DEFINE o == request[r].org
<1>1. o \in Tenancies BY DEF IInv, TypeOK, Aims, PublishOrganization
<1>2. \A p \in directory' : OrgExists(p) /\ p # Platform
  BY Published DEF PublishOrganization, MayPublish, IInv, CreatorsInv, OrgExists
<1>3. directory' \subseteq Tenancies BY <1>1 DEF PublishOrganization, IInv, TypeOK
<1>4. OwnershipInv'
  BY DEF IInv, OwnershipInv, OrgExists, PublishOrganization, staffStore
<1> QED BY <1>2, <1>3, <1>4, Ownership DEF IInv, TypeOK, PublishOrganization, staffStore

-------------------------------------------------------------------------------
LEMMA InitIInv == ASSUME Init PROVE IInv
<1> USE DEF Init
<1>1. TypeOK
  BY IdleRequest DEF TypeOK, Record, NoRecord, Records, Roles, Subs, Tenancies
<1>2. CreatorsInv BY DEF CreatorsInv, Tenancies
<1>3. CreatorStaysAdmin /\ OwnershipInv BY DEF CreatorStaysAdmin, OwnershipInv
<1>4. IndexInv BY DEF IndexInv, Member, Taken, Record, NoRecord, Subs
<1>5. RequestsInv BY IdleRequest DEF RequestsInv
<1> QED BY <1>1, <1>2, <1>3, <1>4, <1>5 DEF IInv

LEMMA StepIInv == ASSUME IInv, [Next]_vars PROVE IInv'
<1>1. CASE UNCHANGED vars
  BY <1>1 DEF vars, IInv, TypeOK, CreatorsInv, CreatorStaysAdmin, IndexInv, OwnershipInv,
    RequestsInv, RequestOK, Known, OrgExists, Member, Taken
<1>2. CASE \E u \in Users : SignUp(u) \/ \E o \in Orgs : CreateOrganization(u, o)
  BY <1>2, SignUpStep, CreateOrganizationStep
<1>3. CASE Propagate BY <1>3, PropagateStep
<1>4. ASSUME NEW r \in Requests, RequestStep(r) PROVE IInv'
  <2>1. CASE \E u \in Users, o \in Tenancies, op \in OpsOf[r] : Authorize(r, u, o, op)
    BY <2>1, AuthorizeStep
  <2>2. CASE \E u \in Users : OpenMe(r, u) BY <2>2, OpenMeStep
  <2>3. CASE Operate(r) \/ RequestFails(r) BY <2>3, IdleStep
  <2>4. CASE InviteLookup(r) \/ InviteAccount(r) \/ InvitePut(r) \/ InvitePending(r)
    BY <2>4, InviteLookupStep, InviteAccountStep, InvitePutStep, InvitePendingStep
  <2>5. CASE Link(r) \/ RoleLookup(r) \/ RoleUpdate(r)
    BY <2>5, LinkStep, RoleLookupStep, RoleUpdateStep
  <2>6. CASE CreateBranch(r) \/ CreateService(r) \/ CreateQueue(r) \/ PublishOrganization(r)
    BY <2>6, CreateBranchStep, CreateServiceStep, CreateQueueStep, PublishStep
  <2> QED BY <1>4, <2>1, <2>2, <2>3, <2>4, <2>5, <2>6 DEF RequestStep
<1> QED BY <1>1, <1>2, <1>3, <1>4 DEF Next

\* The inductive invariant: what the staff records, their index and the requests under
\* way have to do with each other.
THEOREM Invariant == Spec => []IInv
<1>1. Init => IInv BY InitIInv
<1>2. IInv /\ [Next]_vars => IInv' BY StepIInv
<1> QED BY <1>1, <1>2, PTL DEF Spec

\* createOrganization's creator stays an active admin, for any number of people,
\* organisations and requests, and however far the index lags.
THEOREM CreatorsStay == Spec => []CreatorStaysAdmin
<1>1. IInv => CreatorStaysAdmin BY DEF IInv
<1> QED BY <1>1, Invariant, PTL

\* resolveContext lets nobody act who is not an active member.
THEOREM OnlyMembersAct == Spec => []ActorsAreMembers
<1>1. IInv => ActorsAreMembers
  BY DEF IInv, RequestsInv, RequestOK, ActorsAreMembers
<1> QED BY <1>1, Invariant, PTL

LEMMA GrantedStep ==
  ASSUME IInv, [Next]_vars, NEW u \in Users, NEW o \in Tenancies,
         ~ Member(u, o), Member(u, o)'
  PROVE  creator'[o] = u \/ Awaited(u, o) \/ \E r \in Requests : InvitedBy(r, u, o)
<1> DEFINE Granted == creator'[o] = u \/ Awaited(u, o) \/ \E r \in Requests : InvitedBy(r, u, o)
<1> u \in Subs /\ rows \in [Tenancies -> [Subs -> Records]] BY DEF IInv, TypeOK, Subs
<1>1. CASE rows' = rows BY <1>1 DEF Member
<1>2. ASSUME NEW v \in Users, NEW p \in Orgs, CreateOrganization(v, p) PROVE Granted
  <2>1. v \in Subs /\ p \in Tenancies BY DEF Subs, Tenancies
  <2>2. o = p /\ u = v BY <1>2, <2>1 DEF CreateOrganization, Member
  <2> QED BY <1>2, <2>1, <2>2 DEF CreateOrganization, IInv, TypeOK
<1>3. ASSUME NEW r \in Requests, InvitePut(r) PROVE Granted
  <2>1. request[r].org \in Tenancies /\ request[r].subject \in Subs /\ RequestOK(request[r])
    BY <1>3 DEF InvitePut, IInv, TypeOK, Aims, Subs, RequestsInv
  <2>2. request[r].org = o /\ request[r].subject = u
    BY <1>3, <2>1 DEF InvitePut, Member
  <2> QED BY <1>3, <2>1, <2>2 DEF InvitePut, InvitedBy, RequestOK
<1>4. ASSUME NEW r \in Requests, InvitePending(r) PROVE Granted
  <2>1. PICK p \in Pendings :
          rows' = [rows EXCEPT ![request[r].org][p] =
                     Record("PENDING_LINK", request[r].asked, request[r].subject)]
    BY <1>4 DEF InvitePending
  <2>2. p # u OBVIOUS
  <2> QED BY <2>1, <2>2 DEF Member
<1>5. ASSUME NEW r \in Requests, Link(r) PROVE Granted
  <2> DEFINE q == request[r]
  <2>1. PICK l \in q.links :
          \/ /\ MayLink(l.org, q.user)
             /\ rows' = [rows EXCEPT ![l.org][q.user] = Record("ACTIVE", l.role, q.user),
                                     ![l.org][l.key] = NoRecord]
          \/ UNCHANGED rows
    BY <1>5 DEF Link
  <2>2. q \in RequestType /\ RequestOK(q) /\ q.pc = "link" /\ q.user \in Users
    BY <1>5 DEF IInv, TypeOK, RequestsInv, Link, Aims
  <2>3. l.org \in Tenancies /\ l.key \in Pendings /\ l.key \in Subs /\ q.user \in Subs
    BY <2>2 DEF RequestType, Links, Subs
  <2>4. rows' # rows BY DEF Member
  <2>5. o = l.org /\ u = q.user
    <3>1. PICK m : m = [rows EXCEPT ![l.org][q.user] = Record("ACTIVE", l.role, q.user)] OBVIOUS
    <3>2. rows' = [m EXCEPT ![l.org][l.key] = NoRecord] BY <2>1, <2>4, <3>1
    <3>3. u # l.key BY <2>3
    <3>4. rows'[o][u] = m[o][u] BY <2>3, <3>1, <3>2, <3>3
    <3> QED BY <2>3, <3>1, <3>4 DEF Member
  <2>6. rows[o][u].status = "none" BY <2>1, <2>4, <2>5 DEF MayLink
  <2> QED BY <2>2, <2>3, <2>5, <2>6 DEF RequestOK, Taken, Awaited
<1>6. ASSUME NEW r \in Requests, RoleUpdate(r) PROVE Granted
  <2>1. request[r].org \in Tenancies /\ request[r].subject \in Subs
    BY <1>6 DEF RoleUpdate, IInv, TypeOK, Aims
  <2>2. rows' = [rows EXCEPT ![request[r].org][request[r].subject] =
                   WithRole(rows[request[r].org][request[r].subject], request[r].asked)]
    BY <1>6, <2>1 DEF RoleUpdate
  <2>3. rows[request[r].org][request[r].subject] \in Records BY <2>1
  <2> QED BY <2>1, <2>2, <2>3 DEF Member, WithRole, Records
<1> QED
  BY <1>1, <1>2, <1>3, <1>4, <1>5, <1>6
  DEF Next, RequestStep, vars, SignUp, Propagate, Authorize, Operate, InviteLookup, InviteAccount,
    OpenMe, RoleLookup, CreateBranch, CreateService, CreateQueue, PublishOrganization,
    RequestFails, staffStore

\* linkStaffOnSignup, inviteStaff and createOrganization are the only ways in, whatever
\* the requests read before.
THEOREM MembershipGranted == Spec => MembershipIsGranted
<1>1. IInv /\ [Next]_vars
        => [\A u \in Users, o \in Tenancies :
              ~ Member(u, o) /\ Member(u, o)'
                => creator'[o] = u \/ Awaited(u, o)
                   \/ \E r \in Requests : InvitedBy(r, u, o)]_vars
  BY GrantedStep
<1> QED BY <1>1, Invariant, PTL DEF MembershipIsGranted, Spec
===============================================================================
