------------------------- MODULE OrganizationsProofs -------------------------
(***************************************************************************)
(* What Organizations guarantees for every set of users, organisations,    *)
(* invitations and concurrent requests, with row level security or         *)
(* without it.                                                             *)
(***************************************************************************)
EXTENDS Organizations, FiniteSetTheorems, TLAPS

\* An issued invitation has an organisation, an address and a role.
InviteShape ==
  \A i \in Invites :
    \/ invites[i].org = None /\ invites[i].email = None
    \/ invites[i].org \in Orgs /\ invites[i].email \in Users /\ invites[i].role \in Roles

\* A request in flight holds the parameters its next steps use.
Shaped(q) ==
  /\ q.step # "idle" => q.org \in Orgs
  /\ q.step \in {"check", "write", "account", "insert", "accept"} => q.target \in Users
  /\ q.step \in {"account", "insert", "accept"} => q.role \in Roles
  /\ q.step \in {"rotate", "send", "accept"} => q.inv \in Invites
  /\ q.step = "audit" => Subject(q) \in Invites \cup Users

TypeInv ==
  /\ TypeOK
  /\ InviteShape
  /\ \A r \in Requests : Shaped(req[r])

-----------------------------------------------------------------------------
(* The records a request becomes.                                          *)

\* A request nobody has made is a request, and a well formed one.
LEMMA IdleRequest == Idle \in Request /\ Shaped(Idle)
BY DEF Idle, Request, Steps, Actions, Roles, Shaped

\* A request that only goes to its next step keeps its arguments.
LEMMA StepRequest ==
  ASSUME NEW q \in Request, NEW s \in Steps
  PROVE  LET p == [q EXCEPT !.step = s]
         IN  /\ p \in Request
             /\ p.step = s /\ p.action = q.action /\ p.org = q.org /\ p.target = q.target
             /\ p.role = q.role /\ p.inv = q.inv /\ p.token = q.token
             /\ p.owners = q.owners /\ p.access = q.access
BY DEF Request

\* A request that has changed its row and is to record the action is well
\* formed whatever step it came from.
LEMMA AuditRequest ==
  ASSUME NEW q \in Request, q.org \in Orgs, Subject(q) \in Invites \cup Users
  PROVE  LET p == [q EXCEPT !.step = "audit"]
         IN  p \in Request /\ Shaped(p)
<1> DEFINE p == [q EXCEPT !.step = "audit"]
<1>1. p \in Request /\ p.step = "audit" /\ p.org = q.org /\ p.target = q.target /\ p.inv = q.inv
  BY DEF Request, Steps
<1> HIDE DEF p
<1>2. Subject(p) = Subject(q)
  BY <1>1 DEF Subject
<1>3. Shaped(p)
  BY <1>1, <1>2 DEF Shaped
<1> QED BY <1>1, <1>3 DEF p

\* One request moves to a well formed record and the others stay as they are.
LEMMA RequestUpdate ==
  ASSUME TypeInv, NEW r \in Requests, NEW p \in Request, Shaped(p), Becomes(r, p)
  PROVE  /\ req' \in [Requests -> Request]
         /\ \A x \in Requests : Shaped(req'[x])
BY DEF TypeInv, TypeOK, Becomes

-----------------------------------------------------------------------------
(* Type correctness.                                                       *)

\* The empty database is well typed.
LEMMA TypeInit == Init => TypeInv
BY OrganizationsAssumption, IdleRequest
DEF Init, TypeInv, TypeOK, InviteShape, Invitation, Unissued, Roles

\* A step that leaves the tables alone and moves one request.
LEMMA TypeMove ==
  ASSUME TypeInv, NEW r \in Requests, NEW p \in Request, Shaped(p), Becomes(r, p),
         UNCHANGED <<accounts, created, members, invites, links, joined, audit>>
  PROVE  TypeInv'
BY RequestUpdate DEF TypeInv, TypeOK, InviteShape

\* Every step keeps the tables and the requests well typed.
LEMMA TypeStep == TypeInv /\ [Next]_vars => TypeInv'
<1> SUFFICES ASSUME TypeInv, [Next]_vars PROVE TypeInv'
  OBVIOUS
<1> USE OrganizationsAssumption
<1>1. ASSUME NEW u \in Users, NEW o \in Orgs, CreateOrganization(u, o) PROVE TypeInv'
  BY <1>1 DEF CreateOrganization, TypeInv, TypeOK, InviteShape, Roles
<1>2. ASSUME NEW r \in Requests, NEW u \in Users, NEW o \in Orgs, Manage(r, u, o)
      PROVE TypeInv'
  <2> members[o][u] \in Roles \cup {None}
    BY DEF TypeInv, TypeOK
  <2>1. ASSUME NEW t \in Users, NEW role \in UpdateRoles,
               UpdateOrganizationMemberRole(r, u, o, t, role)
        PROVE TypeInv'
    <3> DEFINE s == IF role = "owner" THEN "write" ELSE "check"
               p == [[Idle EXCEPT !.action = "member_role_updated", !.step = s,
                                  !.target = t, !.role = role]
                      EXCEPT !.org = o, !.access = members[o][u]]
    <3>1. s \in {"write", "check"}
      OBVIOUS
    <3> HIDE DEF s
    <3>2. p \in Request /\ Shaped(p)
      BY <3>1 DEF Idle, Request, Steps, Actions, Roles, Shaped
    <3>3. Becomes(r, p)
      BY <2>1 DEF UpdateOrganizationMemberRole, Start, s
    <3> QED BY <2>1, <3>2, <3>3, TypeMove DEF UpdateOrganizationMemberRole
  <2>2. ASSUME NEW t \in Users, RemoveOrganizationMember(r, u, o, t) PROVE TypeInv'
    <3> DEFINE p == [[Idle EXCEPT !.action = "member_removed", !.step = "check",
                                  !.target = t, !.role = None]
                      EXCEPT !.org = o, !.access = members[o][u]]
    <3>1. p \in Request /\ Shaped(p)
      BY DEF Idle, Request, Steps, Actions, Roles, Shaped
    <3> QED BY <2>2, <3>1, TypeMove DEF RemoveOrganizationMember, Start
  <2>3. ASSUME NEW t \in Users, NEW role \in InviteRoles,
               InviteOrganizationMember(r, u, o, t, role)
        PROVE TypeInv'
    <3> DEFINE s == IF t \in accounts THEN "insert" ELSE "account"
               p == [[Idle EXCEPT !.action = "invitation_created", !.step = s,
                                  !.target = t, !.role = role]
                      EXCEPT !.org = o, !.access = members[o][u]]
    <3>1. s \in {"insert", "account"}
      OBVIOUS
    <3> HIDE DEF s
    <3>2. p \in Request /\ Shaped(p)
      BY <3>1 DEF Idle, Request, Steps, Actions, Roles, Shaped
    <3>3. Becomes(r, p)
      BY <2>3 DEF InviteOrganizationMember, Start, s
    <3> QED BY <2>3, <3>2, <3>3, TypeMove DEF InviteOrganizationMember
  <2>4. ASSUME NEW i \in Invites, ResendOrganizationInvitation(r, u, o, i) PROVE TypeInv'
    <3> DEFINE p == [[Idle EXCEPT !.action = "invitation_resent", !.step = "rotate",
                                  !.inv = i]
                      EXCEPT !.org = o, !.access = members[o][u]]
    <3>1. p \in Request /\ Shaped(p)
      BY DEF Idle, Request, Steps, Actions, Roles, Shaped
    <3> QED BY <2>4, <3>1, TypeMove DEF ResendOrganizationInvitation, Start
  <2> QED BY <1>2, <2>1, <2>2, <2>3, <2>4 DEF Manage
<1>3. ASSUME NEW r \in Requests, NEW u \in Users, NEW i \in Invites,
             NEW k \in {l[2] : l \in links}, GetOrganizationInvitation(r, u, i, k)
      PROVE TypeInv'
  <2> DEFINE o == invites[i].org
             role == invites[i].role
             p == [Idle EXCEPT !.step = "accept", !.action = "invitation_accepted",
                               !.target = u, !.org = o, !.role = role,
                               !.inv = i, !.token = k]
  <2>1. k \in Nat
    BY DEF TypeInv, TypeOK
  <2>2. o \in Orgs /\ role \in Roles
    BY <1>3 DEF GetOrganizationInvitation, TypeInv, InviteShape
  <2>3. Becomes(r, p)
    BY <1>3 DEF GetOrganizationInvitation
  <2> HIDE DEF o, role
  <2>4. p \in Request /\ Shaped(p)
    BY <2>1, <2>2 DEF Idle, Request, Steps, Actions, Roles, Shaped
  <2> QED BY <1>3, <2>3, <2>4, TypeMove DEF GetOrganizationInvitation
<1>4. ASSUME NEW r \in Requests, Proceed(r) PROVE TypeInv'
  <2> DEFINE q == req[r]
             At(s) == [q EXCEPT !.step = s]
  <2> q \in Request /\ Shaped(q)
    BY DEF TypeInv, TypeOK
  <2> q.inv \in Invites \cup {None}
    BY DEF Request
  <2>1. CASE ensureNotLastOwner(r)
    <3> DEFINE p == [q EXCEPT !.step = "write", !.owners = Owners(q.org)]
    <3>1. p \in Request /\ (q.step = "check" => Shaped(p))
      BY DEF Request, Steps, Shaped, Owners, Subject
    <3> QED BY <2>1, <3>1, IdleRequest, TypeMove DEF ensureNotLastOwner, Finish
  <2>2. CASE WriteMember(r)
    <3>1. At("audit") \in Request /\ Shaped(At("audit"))
      <4>1. q.org \in Orgs /\ Subject(q) \in Invites \cup Users
        BY <2>2, OrganizationsAssumption DEF WriteMember, Shaped, Subject
      <4> QED BY <4>1, AuditRequest
    <3>2. req' \in [Requests -> Request] /\ \A x \in Requests : Shaped(req'[x])
      BY <2>2, <3>1, IdleRequest, RequestUpdate DEF WriteMember, Continue, Finish
    <3>3. q.org \in Orgs /\ q.target \in Users /\ q.role \in Roles \cup {None}
      BY <2>2 DEF WriteMember, Shaped, Request
    <3> QED BY <2>2, <3>2, <3>3 DEF WriteMember, TypeInv, TypeOK, InviteShape
  <2>3. CASE CreateUser(r)
    <3>1. q.step = "account" => At("insert") \in Request /\ Shaped(At("insert"))
      BY ZenonT(60), StepRequest DEF Steps, Shaped
    <3>2. req' \in [Requests -> Request] /\ \A x \in Requests : Shaped(req'[x])
      BY <2>3, <3>1, IdleRequest, RequestUpdate DEF CreateUser, Continue, Finish
    <3> QED BY <2>3, <3>2 DEF CreateUser, TypeInv, TypeOK, InviteShape, Shaped
  <2>4. ASSUME NEW i \in Invites, CreateOrganizationInvitation(r, i) PROVE TypeInv'
    <3> DEFINE p == [q EXCEPT !.step = "send", !.inv = i, !.token = 1]
    <3>1. p \in Request /\ (q.step = "insert" => Shaped(p))
      BY DEF Request, Steps, Shaped
    <3>2. req' \in [Requests -> Request] /\ \A x \in Requests : Shaped(req'[x])
      BY <2>4, <3>1, RequestUpdate DEF CreateOrganizationInvitation
    <3>3. q.org \in Orgs /\ q.target \in Users /\ q.role \in Roles
      BY <2>4 DEF CreateOrganizationInvitation, Shaped
    <3> QED BY <2>4, <3>2, <3>3
            DEF CreateOrganizationInvitation, TypeInv, TypeOK, InviteShape, Invitation
  <2>5. CASE UpdateOrganizationInvitationToken(r)
    <3> DEFINE i == q.inv
               k == invites[i].token + 1
               p == [q EXCEPT !.step = "send", !.token = k]
               v == [invites[i] EXCEPT !.token = k, !.expired = FALSE]
    <3>1. q.step = "rotate" /\ i \in Invites /\ q.org \in Orgs
      BY <2>5 DEF UpdateOrganizationInvitationToken, Shaped
    <3>2. invites[i] \in Invitation /\ k \in Nat
      BY <3>1 DEF TypeInv, TypeOK, Invitation
    <3>3. p \in Request /\ Shaped(p)
      BY <3>1, <3>2 DEF Request, Steps, Shaped
    <3>4. req' \in [Requests -> Request] /\ \A x \in Requests : Shaped(req'[x])
      BY <2>5, <3>3, IdleRequest, RequestUpdate
      DEF UpdateOrganizationInvitationToken, Finish
    <3>5. /\ v \in Invitation
          /\ v.org = invites[i].org /\ v.email = invites[i].email
          /\ v.role = invites[i].role
      BY <3>2 DEF Invitation
    <3>6. CASE Resendable(i, q.org)
      <4>1. invites' = [invites EXCEPT ![i] = v]
        BY <2>5, <3>6 DEF UpdateOrganizationInvitationToken
      <4> QED BY <2>5, <3>1, <3>4, <3>5, <4>1
              DEF UpdateOrganizationInvitationToken, TypeInv, TypeOK, InviteShape
    <3>7. CASE ~Resendable(i, q.org)
      BY <2>5, <3>4, <3>7
      DEF UpdateOrganizationInvitationToken, TypeInv, TypeOK, InviteShape
    <3> QED BY <3>6, <3>7
  <2>6. CASE SendInvitation(r)
    <3>1. At("audit") \in Request /\ Shaped(At("audit"))
      <4>1. q.org \in Orgs /\ Subject(q) \in Invites \cup Users
        BY <2>6, OrganizationsAssumption DEF SendInvitation, Shaped, Subject
      <4> QED BY <4>1, AuditRequest
    <3>2. req' \in [Requests -> Request] /\ \A x \in Requests : Shaped(req'[x])
      BY <2>6, <3>1, RequestUpdate DEF SendInvitation, Continue
    <3>3. q.inv \in Invites /\ q.token \in Nat
      BY <2>6 DEF SendInvitation, Shaped, Request
    <3> QED BY <2>6, <3>2, <3>3 DEF SendInvitation, TypeInv, TypeOK, InviteShape
  <2>7. CASE AcceptOrganizationInvitation(r)
    <3> DEFINE i == q.inv
               v == [invites[i] EXCEPT !.accepted = TRUE]
    <3>1. At("audit") \in Request /\ Shaped(At("audit"))
      <4>1. q.org \in Orgs /\ Subject(q) \in Invites \cup Users
        BY <2>7, OrganizationsAssumption DEF AcceptOrganizationInvitation, Shaped, Subject
      <4> QED BY <4>1, AuditRequest
    <3>2. req' \in [Requests -> Request] /\ \A x \in Requests : Shaped(req'[x])
      BY <2>7, <3>1, IdleRequest, RequestUpdate
      DEF AcceptOrganizationInvitation, Continue, Finish
    <3>3. q.org \in Orgs /\ q.target \in Users /\ q.role \in Roles /\ i \in Invites
      BY <2>7 DEF AcceptOrganizationInvitation, Shaped
    <3>4. invites[i] \in Invitation
      BY <3>3 DEF TypeInv, TypeOK
    <3>5. /\ v \in Invitation
          /\ v.org = invites[i].org /\ v.email = invites[i].email
          /\ v.role = invites[i].role
      BY <3>4 DEF Invitation
    <3>6. CASE Acceptable(q)
      <4>1. invites' = [invites EXCEPT ![i] = v]
        BY <2>7, <3>6 DEF AcceptOrganizationInvitation
      <4>2. invites' \in [Invites -> Invitation] /\ InviteShape'
        BY <3>3, <3>5, <4>1 DEF TypeInv, TypeOK, InviteShape
      <4>3. members' \in [Orgs -> [Users -> Roles \cup {None}]] /\ joined' \in [Invites -> Nat]
        <5>1. /\ members' = [members EXCEPT ![q.org][q.target] = q.role]
              /\ joined' = [joined EXCEPT ![i] = joined[i] + 1]
          BY <2>7, <3>6 DEF AcceptOrganizationInvitation
        <5>2. joined[i] \in Nat
          BY <3>3 DEF TypeInv, TypeOK
        <5> HIDE DEF q
        <5> QED BY <3>3, <5>1, <5>2 DEF TypeInv, TypeOK
      <4> QED BY <2>7, <3>2, <4>2, <4>3 DEF AcceptOrganizationInvitation, TypeInv, TypeOK
    <3>7. CASE ~Acceptable(q)
      BY <2>7, <3>2, <3>7 DEF AcceptOrganizationInvitation, TypeInv, TypeOK, InviteShape
    <3> QED BY <3>6, <3>7
  <2>8. CASE recordAudit(r)
    <3>1. req' \in [Requests -> Request] /\ \A x \in Requests : Shaped(req'[x])
      BY <2>8, IdleRequest, RequestUpdate DEF recordAudit, Finish
    <3>2. q.action \in Actions /\ q.org \in Orgs /\ Subject(q) \in Invites \cup Users
      BY <2>8 DEF recordAudit, Shaped, Request
    <3> QED BY <2>8, <3>1, <3>2 DEF recordAudit, TypeInv, TypeOK, InviteShape
  <2> QED BY <1>4, <2>1, <2>2, <2>3, <2>4, <2>5, <2>6, <2>7, <2>8 DEF Proceed
<1>5. ASSUME NEW r \in Requests, Abort(r) PROVE TypeInv'
  BY <1>5, IdleRequest, TypeMove DEF Abort, Finish
<1>6. ASSUME NEW i \in Invites, Expire(i) PROVE TypeInv'
  <2> DEFINE v == [invites[i] EXCEPT !.expired = TRUE]
  <2>1. /\ v \in Invitation
        /\ v.org = invites[i].org /\ v.email = invites[i].email
        /\ v.role = invites[i].role
    BY ZenonT(60) DEF TypeInv, TypeOK, Invitation
  <2>2. invites' = [invites EXCEPT ![i] = v]
    BY <1>6 DEF Expire
  <2> QED BY <1>6, <2>1, <2>2 DEF Expire, TypeInv, TypeOK, InviteShape
<1>7. CASE UNCHANGED vars
  BY <1>7 DEF vars, TypeInv, TypeOK, InviteShape
<1> QED BY <1>1, <1>2, <1>3, <1>4, <1>5, <1>6, <1>7 DEF Next

\* Every step of every interleaving of requests keeps the tables well typed.
THEOREM TypeCorrect == Spec => []TypeOK
<1>1. TypeInv => TypeOK
  BY DEF TypeInv
<1> QED BY TypeInit, TypeStep, <1>1, PTL DEF Spec

-----------------------------------------------------------------------------
(* Invitations.                                                            *)

\* What one step may do to an invitation: leave its use alone, and its token
\* too once it is accepted, or accept it and count that.
InviteChange ==
  \A i \in Invites :
    \/ /\ invites'[i].accepted = invites[i].accepted
       /\ joined'[i] = joined[i]
       /\ invites[i].accepted => invites'[i].token = invites[i].token
    \/ /\ ~invites[i].accepted
       /\ invites'[i].accepted
       /\ joined'[i] = joined[i] + 1

\* What a step can do to an invitation: nothing to it once it is accepted, and
\* the one step that counts a use also closes it.
LEMMA InvitationStep == TypeInv /\ [Next]_vars => InviteChange
<1> SUFFICES ASSUME TypeInv, [Next]_vars PROVE InviteChange
  OBVIOUS
<1>1. CASE UNCHANGED <<invites, joined>>
  BY <1>1 DEF InviteChange
<1>2. ASSUME NEW r \in Requests, NEW i \in Invites, CreateOrganizationInvitation(r, i)
      PROVE InviteChange
  <2> DEFINE v == [org |-> req[r].org, email |-> req[r].target, role |-> req[r].role,
                   token |-> 1, expired |-> FALSE, accepted |-> FALSE]
  <2>1. v.accepted = FALSE /\ invites[i].accepted = FALSE
    BY <1>2 DEF CreateOrganizationInvitation, Unissued
  <2>2. invites' = [invites EXCEPT ![i] = v] /\ joined' = joined
    BY <1>2 DEF CreateOrganizationInvitation
  <2> HIDE DEF v
  <2> QED BY <2>1, <2>2 DEF InviteChange, TypeInv, TypeOK
<1>3. ASSUME NEW r \in Requests, UpdateOrganizationInvitationToken(r) PROVE InviteChange
  <2> DEFINE i == req[r].inv
             v == [invites[i] EXCEPT !.token = invites[i].token + 1, !.expired = FALSE]
  <2>1. CASE Resendable(i, req[r].org)
    <3>1. i \in Invites
      BY <1>3 DEF UpdateOrganizationInvitationToken, TypeInv, Shaped
    <3>2. v.accepted = invites[i].accepted /\ ~invites[i].accepted
      BY <2>1, <3>1 DEF Resendable, TypeInv, TypeOK, Invitation
    <3>3. invites' = [invites EXCEPT ![i] = v] /\ joined' = joined
      BY <1>3, <2>1 DEF UpdateOrganizationInvitationToken
    <3> HIDE DEF i, v
    <3> QED BY <3>1, <3>2, <3>3 DEF InviteChange, TypeInv, TypeOK
  <2>2. CASE ~Resendable(i, req[r].org)
    BY <1>1, <1>3, <2>2 DEF UpdateOrganizationInvitationToken
  <2> QED BY <2>1, <2>2
<1>4. ASSUME NEW r \in Requests, AcceptOrganizationInvitation(r) PROVE InviteChange
  <2> DEFINE i == req[r].inv
             v == [invites[i] EXCEPT !.accepted = TRUE]
  <2>1. CASE Acceptable(req[r])
    <3>1. i \in Invites
      BY <1>4 DEF AcceptOrganizationInvitation, TypeInv, Shaped
    <3>2. v.accepted /\ ~invites[i].accepted
      BY <2>1, <3>1 DEF Acceptable, TypeInv, TypeOK, Invitation
    <3>3. invites' = [invites EXCEPT ![i] = v] /\ joined' = [joined EXCEPT ![i] = @ + 1]
      BY <1>4, <2>1 DEF AcceptOrganizationInvitation
    <3> HIDE DEF i, v
    <3> QED BY <3>1, <3>2, <3>3 DEF InviteChange, TypeInv, TypeOK
  <2>2. CASE ~Acceptable(req[r])
    BY <1>1, <1>4, <2>2 DEF AcceptOrganizationInvitation
  <2> QED BY <2>1, <2>2
<1>5. ASSUME NEW i \in Invites, Expire(i) PROVE InviteChange
  <2> DEFINE v == [invites[i] EXCEPT !.expired = TRUE]
  <2>1. v.accepted = invites[i].accepted /\ v.token = invites[i].token
    BY DEF TypeInv, TypeOK, Invitation
  <2>2. invites' = [invites EXCEPT ![i] = v] /\ joined' = joined
    BY <1>5 DEF Expire
  <2> HIDE DEF v
  <2> QED BY <2>1, <2>2 DEF InviteChange, TypeInv, TypeOK
<1>6. ASSUME NEW r \in Requests, NEW u \in Users, NEW o \in Orgs, Manage(r, u, o)
      PROVE UNCHANGED <<invites, joined>>
  BY <1>6 DEF Manage, UpdateOrganizationMemberRole, RemoveOrganizationMember,
              InviteOrganizationMember, ResendOrganizationInvitation
<1>7. ASSUME NEW r \in Requests, Proceed(r) PROVE InviteChange
  BY <1>1, <1>2, <1>3, <1>4, <1>7
  DEF Proceed, ensureNotLastOwner, WriteMember, CreateUser, SendInvitation, recordAudit
<1> QED BY <1>1, <1>5, <1>6, <1>7
        DEF Next, vars, CreateOrganization, GetOrganizationInvitation, Abort

\* The uses counted are the acceptances recorded in accepted_at.
UseInv == \A i \in Invites : joined[i] = IF invites[i].accepted THEN 1 ELSE 0

\* However many links of an invitation are used at the same time, it grants
\* its role at most once: the second transaction of the acceptance looks at
\* accepted_at again under the row's lock.
THEOREM InvitationUsedOnce == Spec => []OneUsePerInvitation
<1>1. Init => UseInv
  BY DEF Init, UseInv, Unissued
<1>2. TypeInv /\ UseInv /\ [Next]_vars => UseInv'
  BY InvitationStep DEF InviteChange, UseInv, TypeInv, TypeOK, Invitation
<1>3. UseInv => OneUsePerInvitation
  BY DEF UseInv, OneUsePerInvitation
<1> QED BY TypeInit, TypeStep, <1>1, <1>2, <1>3, PTL DEF Spec

\* A resend never reopens an accepted invitation nor gives it a new token.
THEOREM AcceptanceIsFinal == Spec => AcceptedIsFinal
<1>1. TypeInv /\ [Next]_vars
      => [\A i \in Invites :
            invites[i].accepted => /\ invites'[i].accepted
                                   /\ invites'[i].token = invites[i].token]_vars
  BY InvitationStep DEF InviteChange
<1> QED BY TypeInit, TypeStep, <1>1, PTL DEF Spec, AcceptedIsFinal

-----------------------------------------------------------------------------
(* The last owner.                                                         *)

\* Where the target is not the only owner, another owner is left.
LEMMA AnotherOwner ==
  ASSUME NEW S, IsFiniteSet(S), S # {}, NEW t, ~IsLastOwner(S, t)
  PROVE  \E u \in S : u # t
<1> SUFFICES ASSUME \A u \in S : u = t PROVE FALSE
  OBVIOUS
<1>1. S = {t}
  OBVIOUS
<1>2. Cardinality(S) = 1
  BY <1>1, FS_Singleton
<1> QED BY <1>1, <1>2 DEF IsLastOwner

\* A request that is about to write and has listed the owners found another
\* one besides its target.
Checked(q) == (q.step = "write" /\ q.owners # {}) => ~IsLastOwner(q.owners, q.target)
CheckInv == \A r \in Requests : Checked(req[r])

\* One request moves to a record whose check is done, the others stay.
LEMMA CheckMove ==
  ASSUME TypeInv, CheckInv, NEW r \in Requests, NEW p, Becomes(r, p), Checked(p)
  PROVE  CheckInv'
BY DEF CheckInv, Becomes, TypeInv, TypeOK

\* No step brings a request to its statement without ensureNotLastOwner.
LEMMA CheckStep == TypeInv /\ CheckInv /\ [Next]_vars => CheckInv'
<1> SUFFICES ASSUME TypeInv, CheckInv, [Next]_vars PROVE CheckInv'
  OBVIOUS
<1> USE DEF Checked
<1>0. CASE UNCHANGED req
  BY <1>0 DEF CheckInv
<1>1. Idle.step = "idle" /\ Idle.owners = {}
  BY DEF Idle
<1>2. ASSUME NEW r \in Requests, Finish(r) PROVE CheckInv'
  BY <1>1, <1>2, CheckMove DEF Finish
<1>3. ASSUME NEW r \in Requests, NEW s \in Steps \ {"write"}, Continue(r, s) PROVE CheckInv'
  <2>1. [req[r] EXCEPT !.step = s].step = s
    BY StepRequest DEF TypeInv, TypeOK
  <2> QED BY <1>3, <2>1, CheckMove DEF Continue
<1>4. ASSUME NEW r \in Requests, NEW u \in Users, NEW o \in Orgs, Manage(r, u, o)
      PROVE CheckInv'
  <2>1. ASSUME NEW p, p.owners = {}, Becomes(r, p) PROVE CheckInv'
    BY <2>1, CheckMove
  <2> USE DEF Start, Idle
  <2>2. ASSUME NEW t, NEW role, UpdateOrganizationMemberRole(r, u, o, t, role)
        PROVE CheckInv'
    BY <2>1, <2>2 DEF UpdateOrganizationMemberRole
  <2>3. ASSUME NEW t, RemoveOrganizationMember(r, u, o, t) PROVE CheckInv'
    BY <2>1, <2>3 DEF RemoveOrganizationMember
  <2>4. ASSUME NEW t, NEW role, InviteOrganizationMember(r, u, o, t, role) PROVE CheckInv'
    BY <2>1, <2>4 DEF InviteOrganizationMember
  <2>5. ASSUME NEW i, ResendOrganizationInvitation(r, u, o, i) PROVE CheckInv'
    BY <2>1, <2>5 DEF ResendOrganizationInvitation
  <2> QED BY <1>4, <2>2, <2>3, <2>4, <2>5 DEF Manage
<1>5. ASSUME NEW r \in Requests, Proceed(r) PROVE CheckInv'
  <2> req[r] \in Request
    BY DEF TypeInv, TypeOK
  <2>1. CASE ensureNotLastOwner(r)
    <3> DEFINE q == req[r]
               S == Owners(q.org)
               p == [q EXCEPT !.step = "write", !.owners = S]
    <3>1. p.owners = S /\ p.target = q.target
      BY DEF Request
    <3>2. CASE ~IsLastOwner(S, q.target)
      <4>1. Becomes(r, p)
        BY <2>1, <3>2 DEF ensureNotLastOwner
      <4> QED BY <3>1, <3>2, <4>1, CheckMove
    <3> QED BY <1>2, <2>1, <3>2 DEF ensureNotLastOwner
  <2>2. ASSUME NEW i \in Invites, CreateOrganizationInvitation(r, i) PROVE CheckInv'
    <3>1. [req[r] EXCEPT !.step = "send", !.inv = i, !.token = 1].step = "send"
      BY DEF Request
    <3> QED BY <2>2, <3>1, CheckMove DEF CreateOrganizationInvitation
  <2>3. CASE UpdateOrganizationInvitationToken(r)
    <3> DEFINE k == invites[req[r].inv].token + 1
    <3>1. [req[r] EXCEPT !.step = "send", !.token = k].step = "send"
      BY DEF Request
    <3> QED BY <1>2, <2>3, <3>1, CheckMove DEF UpdateOrganizationInvitationToken
  <2> QED BY <1>2, <1>3, <1>5, <2>1, <2>2, <2>3
          DEF Proceed, WriteMember, CreateUser, SendInvitation, Steps,
              AcceptOrganizationInvitation, recordAudit
<1>6. ASSUME NEW r \in Requests, NEW u \in Users, NEW i \in Invites, NEW k,
             GetOrganizationInvitation(r, u, i, k)
      PROVE CheckInv'
  <2> DEFINE p == [Idle EXCEPT !.step = "accept", !.action = "invitation_accepted",
                               !.target = u, !.org = invites[i].org,
                               !.role = invites[i].role, !.inv = i, !.token = k]
  <2>1. p.owners = {}
    BY DEF Idle
  <2>2. Becomes(r, p)
    BY <1>6 DEF GetOrganizationInvitation
  <2> QED BY <2>1, <2>2, CheckMove
<1> QED BY <1>0, <1>2, <1>4, <1>5, <1>6
        DEF Next, vars, CreateOrganization, Abort, Expire

\* Only the statement itself takes a request from "write" to "audit".
LEMMA OnlyWriteMember ==
  ASSUME TypeInv, Next, NEW r \in Requests, req[r].step = "write", req'[r].step = "audit"
  PROVE  WriteMember(r)
<1>1. ASSUME NEW x \in Requests, NEW p, Becomes(x, p) PROVE x = r /\ p = req'[r]
  BY <1>1 DEF Becomes, TypeInv, TypeOK
<1>2. Idle.step = "idle"
  BY DEF Idle
<1>3. ~UNCHANGED req
  OBVIOUS
<1>4. ASSUME NEW x \in Requests, NEW u \in Users, NEW o \in Orgs, Manage(x, u, o) PROVE FALSE
  BY <1>1, <1>2, <1>4
  DEF Manage, UpdateOrganizationMemberRole, RemoveOrganizationMember, Start, Admitted,
      InviteOrganizationMember, ResendOrganizationInvitation
<1>5. ASSUME NEW x \in Requests, NEW u \in Users, NEW i \in Invites, NEW k,
             GetOrganizationInvitation(x, u, i, k)
      PROVE FALSE
  BY <1>1, <1>2, <1>5 DEF GetOrganizationInvitation
<1>6. ASSUME NEW x \in Requests, Abort(x) PROVE FALSE
  BY <1>1, <1>2, <1>6 DEF Abort, Finish
<1>7. ASSUME NEW x \in Requests, Proceed(x) PROVE WriteMember(r)
  <2>1. x = r
    BY <1>1, <1>7
    DEF Proceed, ensureNotLastOwner, WriteMember, CreateUser, CreateOrganizationInvitation,
        UpdateOrganizationInvitationToken, SendInvitation, AcceptOrganizationInvitation,
        recordAudit, Continue, Finish
  <2> QED BY <1>7, <2>1
          DEF Proceed, ensureNotLastOwner, CreateUser, CreateOrganizationInvitation,
              UpdateOrganizationInvitationToken, SendInvitation,
              AcceptOrganizationInvitation, recordAudit
<1> QED BY <1>3, <1>4, <1>5, <1>6, <1>7 DEF Next, CreateOrganization, Expire

\* A role change or removal decided on an owner list that is still current
\* leaves the organisation with an owner.
THEOREM FreshOwnerCheck == Spec => FreshCheckKeepsOwner
<1> DEFINE Fresh(r) ==
      LET q == req[r]
      IN  (/\ q.step = "write" /\ req'[r].step = "audit"
           /\ q.owners # {} /\ q.owners = Owners(q.org))
          => \E u \in Users : members'[q.org][u] = "owner"
<1>1. Init => CheckInv
  BY DEF Init, CheckInv, Checked, Idle
<1>2. TypeInv /\ CheckInv /\ [Next]_vars => [\A r \in Requests : Fresh(r)]_vars
  <2> SUFFICES ASSUME TypeInv, CheckInv, Next, NEW r \in Requests,
                      req[r].step = "write", req'[r].step = "audit",
                      req[r].owners # {}, req[r].owners = Owners(req[r].org)
               PROVE  \E u \in Users : members'[req[r].org][u] = "owner"
    BY DEF vars
  <2> DEFINE q == req[r]
  <2>1. PICK u \in q.owners : u # q.target
    <3>1. IsFiniteSet(q.owners)
      BY OrganizationsAssumption, FS_Subset DEF Owners
    <3> QED BY <3>1, AnotherOwner DEF CheckInv, Checked
  <2>2. u \in Users /\ members[q.org][u] = "owner" /\ q.org \in Orgs /\ q.target \in Users
    BY <2>1 DEF Owners, TypeInv, Shaped
  <2>3. members'[q.org][u] = "owner"
    <3>1. WriteMember(r)
      BY OnlyWriteMember
    <3> QED BY <2>1, <2>2, <3>1 DEF WriteMember, TypeInv, TypeOK
  <2> QED BY <2>2, <2>3
<1> QED BY TypeInit, TypeStep, CheckStep, <1>1, <1>2, PTL DEF Spec, FreshCheckKeepsOwner

-----------------------------------------------------------------------------
(* The audit log.                                                          *)

\* What a request will claim in the audit log has happened, or happens on the
\* steps that are left.
Honest(q) ==
  /\ q.step \in {"check", "write"} => q.action \in {"member_role_updated", "member_removed"}
  /\ q.step \in {"account", "insert"} => q.action = "invitation_created"
  /\ q.step = "rotate" => q.action = "invitation_resent"
  /\ q.step = "accept" => q.action = "invitation_accepted" /\ invites[q.inv].org = q.org
  /\ q.step = "send" =>
       /\ q.action \in {"invitation_created", "invitation_resent"}
       /\ q.action = "invitation_created" => q.token = 1 /\ invites[q.inv].org = q.org
  /\ q.step = "audit" =>
       /\ q.action = "invitation_accepted" =>
            q.inv \in Invites /\ invites[q.inv].accepted /\ invites[q.inv].org = q.org
       /\ q.action = "invitation_created" =>
            q.inv \in Invites /\ <<q.inv, 1>> \in links /\ invites[q.inv].org = q.org

AuditInv == AuditTruthful /\ \A r \in Requests : Honest(req[r])

\* A mailed link stays mailed, an issued invitation keeps its organisation and
\* an accepted one stays accepted.
Lasting ==
  /\ links \subseteq links'
  /\ \A i \in Invites :
       /\ invites[i].org # None => invites'[i].org = invites[i].org
       /\ invites[i].accepted => invites'[i].accepted

LEMMA LastingStep == TypeInv /\ [Next]_vars => Lasting
<1> SUFFICES ASSUME TypeInv, [Next]_vars PROVE Lasting
  OBVIOUS
<1>1. \A i \in Invites : invites[i].accepted => invites'[i].accepted
  BY InvitationStep DEF InviteChange
<1>2. links \subseteq links'
  <2>1. ASSUME NEW r \in Requests, NEW u \in Users, NEW o \in Orgs, Manage(r, u, o)
        PROVE  UNCHANGED links
    BY <2>1 DEF Manage, UpdateOrganizationMemberRole, RemoveOrganizationMember,
                InviteOrganizationMember, ResendOrganizationInvitation
  <2>2. ASSUME NEW r \in Requests, Proceed(r) PROVE links \subseteq links'
    BY <2>2 DEF Proceed, ensureNotLastOwner, WriteMember, CreateUser,
                CreateOrganizationInvitation, UpdateOrganizationInvitationToken, SendInvitation,
                AcceptOrganizationInvitation, recordAudit
  <2> QED BY <2>1, <2>2 DEF Next, vars, CreateOrganization, GetOrganizationInvitation, Abort, Expire
<1>3. ASSUME UNCHANGED invites PROVE Lasting
  BY <1>2, <1>3 DEF Lasting
<1>4. ASSUME NEW i \in Invites, NEW v, invites' = [invites EXCEPT ![i] = v],
             invites[i].org # None => v.org = invites[i].org
      PROVE  Lasting
  BY <1>1, <1>2, <1>4 DEF Lasting, TypeInv, TypeOK
<1>5. ASSUME NEW r \in Requests, NEW i \in Invites, CreateOrganizationInvitation(r, i) PROVE Lasting
  <2>1. invites[i].org = None
    BY <1>5 DEF CreateOrganizationInvitation, Unissued
  <2> QED BY <1>4, <1>5, <2>1 DEF CreateOrganizationInvitation
<1>6. ASSUME NEW r \in Requests, UpdateOrganizationInvitationToken(r) PROVE Lasting
  <2>1. PICK i : i = req[r].inv
    OBVIOUS
  <2>2. CASE Resendable(i, req[r].org)
    <3>1. PICK v : v = [invites[i] EXCEPT !.token = invites[i].token + 1, !.expired = FALSE]
      OBVIOUS
    <3>2. i \in Invites
      BY <1>6, <2>1 DEF UpdateOrganizationInvitationToken, TypeInv, Shaped
    <3>3. v.org = invites[i].org
      BY <3>1, <3>2 DEF TypeInv, TypeOK, Invitation
    <3>4. invites' = [invites EXCEPT ![i] = v]
      BY <1>6, <2>1, <2>2, <3>1 DEF UpdateOrganizationInvitationToken
    <3> QED BY <1>4, <3>2, <3>3, <3>4
  <2> QED BY <1>3, <1>6, <2>1, <2>2 DEF UpdateOrganizationInvitationToken
<1>7. ASSUME NEW r \in Requests, AcceptOrganizationInvitation(r) PROVE Lasting
  <2>1. PICK i : i = req[r].inv
    OBVIOUS
  <2>2. CASE Acceptable(req[r])
    <3>1. PICK v : v = [invites[i] EXCEPT !.accepted = TRUE]
      OBVIOUS
    <3>2. i \in Invites
      BY <1>7, <2>1 DEF AcceptOrganizationInvitation, TypeInv, Shaped
    <3>3. v.org = invites[i].org
      BY <3>1, <3>2 DEF TypeInv, TypeOK, Invitation
    <3>4. invites' = [invites EXCEPT ![i] = v]
      BY <1>7, <2>1, <2>2, <3>1 DEF AcceptOrganizationInvitation
    <3> QED BY <1>4, <3>2, <3>3, <3>4
  <2> QED BY <1>3, <1>7, <2>2 DEF AcceptOrganizationInvitation
<1>8. ASSUME NEW i \in Invites, Expire(i) PROVE Lasting
  <2>1. PICK v : v = [invites[i] EXCEPT !.expired = TRUE]
    OBVIOUS
  <2>2. v.org = invites[i].org /\ invites' = [invites EXCEPT ![i] = v]
    BY <1>8, <2>1 DEF Expire, TypeInv, TypeOK, Invitation
  <2> QED BY <1>4, <2>2
<1>9. ASSUME NEW r \in Requests, NEW u \in Users, NEW o \in Orgs, Manage(r, u, o)
      PROVE  UNCHANGED invites
  BY <1>9 DEF Manage, UpdateOrganizationMemberRole, RemoveOrganizationMember,
              InviteOrganizationMember, ResendOrganizationInvitation
<1>10. ASSUME NEW r \in Requests, Proceed(r) PROVE Lasting
  BY <1>3, <1>5, <1>6, <1>7, <1>10
  DEF Proceed, ensureNotLastOwner, WriteMember, CreateUser, SendInvitation, recordAudit
<1> QED BY <1>3, <1>8, <1>9, <1>10
        DEF Next, vars, CreateOrganization, GetOrganizationInvitation, Abort

\* What has been true of a request stays true of it.
LEMMA HonestLasts ==
  ASSUME Lasting, NEW q, Shaped(q), Honest(q)
  PROVE  Honest(q)'
BY OrganizationsAssumption DEF Lasting, Shaped, Honest

\* The request that moves is honest about what it has done by then.
LEMMA HonestMove ==
  ASSUME TypeInv, Lasting, \A x \in Requests : Honest(req[x]),
         NEW r \in Requests, NEW p, Becomes(r, p), Honest(p)'
  PROVE  \A x \in Requests : Honest(req[x])'
<1> SUFFICES ASSUME NEW x \in Requests PROVE Honest(req[x])'
  OBVIOUS
<1>1. PICK q : q = req'[x]
  OBVIOUS
<1>2. q = p \/ q = req[x]
  BY <1>1 DEF Becomes, TypeInv, TypeOK
<1>3. Honest(q)'
  BY <1>2, HonestLasts DEF TypeInv
<1> QED BY <1>1, <1>3 DEF Honest

LEMMA IdleHonest == Honest(Idle)'
BY DEF Idle, Honest

LEMMA HonestStep ==
  TypeInv /\ AuditInv /\ [Next]_vars => \A x \in Requests : Honest(req[x])'
<1> SUFFICES ASSUME TypeInv, AuditInv, [Next]_vars PROVE \A x \in Requests : Honest(req[x])'
  OBVIOUS
<1> USE OrganizationsAssumption
<1>1. Lasting /\ \A x \in Requests : Shaped(req[x]) /\ Honest(req[x])
  BY LastingStep DEF TypeInv, AuditInv
<1>2. ASSUME NEW r \in Requests, NEW p, Becomes(r, p), Honest(p)'
      PROVE  \A x \in Requests : Honest(req[x])'
  BY <1>1, <1>2, HonestMove
<1>3. ASSUME NEW r \in Requests, Finish(r) PROVE \A x \in Requests : Honest(req[x])'
  BY <1>2, <1>3, IdleHonest DEF Finish
<1>4. CASE UNCHANGED req
  <2> SUFFICES ASSUME NEW x \in Requests PROVE Honest(req[x])'
    OBVIOUS
  <2>1. PICK q : q = req'[x]
    OBVIOUS
  <2>2. Honest(q)'
    BY <1>1, <1>4, <2>1, HonestLasts
  <2> QED BY <2>1, <2>2 DEF Honest
<1>5. ASSUME NEW r \in Requests, NEW u \in Users, NEW o \in Orgs, Manage(r, u, o)
      PROVE  \A x \in Requests : Honest(req[x])'
  <2>1. ASSUME NEW p, Becomes(r, p),
               \/ p.step \in {"check", "write"} /\ p.action \in {"member_role_updated", "member_removed"}
               \/ p.step \in {"account", "insert"} /\ p.action = "invitation_created"
               \/ p.step = "rotate" /\ p.action = "invitation_resent"
        PROVE  \A x \in Requests : Honest(req[x])'
    <3>1. Honest(p)'
      BY <2>1 DEF Honest
    <3> QED BY <1>2, <2>1, <3>1
  <2> USE DEF Start, Idle
  <2>2. ASSUME NEW t, NEW role, UpdateOrganizationMemberRole(r, u, o, t, role)
        PROVE  \A x \in Requests : Honest(req[x])'
    BY <2>1, <2>2 DEF UpdateOrganizationMemberRole
  <2>3. ASSUME NEW t, RemoveOrganizationMember(r, u, o, t)
        PROVE  \A x \in Requests : Honest(req[x])'
    BY <2>1, <2>3 DEF RemoveOrganizationMember
  <2>4. ASSUME NEW t, NEW role, InviteOrganizationMember(r, u, o, t, role)
        PROVE  \A x \in Requests : Honest(req[x])'
    BY <2>1, <2>4 DEF InviteOrganizationMember
  <2>5. ASSUME NEW i, ResendOrganizationInvitation(r, u, o, i)
        PROVE  \A x \in Requests : Honest(req[x])'
    BY <2>1, <2>5 DEF ResendOrganizationInvitation
  <2> QED BY <1>5, <2>2, <2>3, <2>4, <2>5 DEF Manage
<1>6. ASSUME NEW r \in Requests, NEW u \in Users, NEW i \in Invites, NEW k,
             GetOrganizationInvitation(r, u, i, k)
      PROVE  \A x \in Requests : Honest(req[x])'
  <2>1. PICK o : o = invites[i].org
    OBVIOUS
  <2>2. PICK p : p = [Idle EXCEPT !.step = "accept", !.action = "invitation_accepted",
                                  !.target = u, !.org = o, !.role = invites[i].role,
                                  !.inv = i, !.token = k]
    OBVIOUS
  <2>3. p.step = "accept" /\ p.action = "invitation_accepted" /\ p.org = o /\ p.inv = i
    BY <2>2 DEF Idle
  <2>4. UNCHANGED invites /\ Becomes(r, p)
    BY <1>6, <2>1, <2>2 DEF GetOrganizationInvitation
  <2>5. Honest(p)'
    BY <2>1, <2>3, <2>4 DEF Honest
  <2> QED BY <1>2, <2>4, <2>5
<1>7. ASSUME NEW r \in Requests, Proceed(r) PROVE \A x \in Requests : Honest(req[x])'
  <2>1. PICK q : q = req[r]
    OBVIOUS
  <2>2. q \in Request /\ Shaped(q) /\ Honest(q) /\ Honest(q)'
    BY <1>1, <2>1, HonestLasts DEF TypeInv, TypeOK
  <2>3. ASSUME NEW s \in Steps, Continue(r, s),
               Honest([q EXCEPT !.step = s])'
        PROVE  \A x \in Requests : Honest(req[x])'
    BY <1>2, <2>1, <2>3 DEF Continue
  <2>4. ASSUME NEW s \in Steps
        PROVE  \E p : /\ p = [q EXCEPT !.step = s] /\ p.step = s /\ p.action = q.action
                      /\ p.org = q.org /\ p.inv = q.inv /\ p.token = q.token
    <3>1. PICK p : p = [q EXCEPT !.step = s]
      OBVIOUS
    <3>2. /\ p.step = s /\ p.action = q.action
          /\ p.org = q.org /\ p.inv = q.inv /\ p.token = q.token
      BY <2>2, <3>1 DEF Request
    <3> QED BY <3>1, <3>2
  <2>5. CASE ensureNotLastOwner(r)
    <3>1. PICK p : p = [q EXCEPT !.step = "write", !.owners = Owners(q.org)]
      OBVIOUS
    <3>2. p.step = "write" /\ p.action = q.action
      BY <2>2, <3>1 DEF Request
    <3>3. Honest(p)' \/ q.step # "check"
      BY <2>2, <3>2 DEF Honest
    <3> QED BY <1>2, <1>3, <2>1, <2>5, <3>1, <3>3 DEF ensureNotLastOwner
  <2>6. CASE WriteMember(r)
    <3>1. PICK p : /\ p = [q EXCEPT !.step = "audit"] /\ p.step = "audit" /\ p.action = q.action
      BY <2>4 DEF Steps
    <3>2. q.step = "write" /\ (Continue(r, "audit") \/ Finish(r))
      BY <2>1, <2>6 DEF WriteMember
    <3>3. Honest(p)'
      BY <2>2, <3>1, <3>2 DEF Honest
    <3> QED BY <1>3, <2>3, <3>1, <3>2, <3>3 DEF Steps
  <2>7. CASE CreateUser(r)
    <3>1. PICK p : /\ p = [q EXCEPT !.step = "insert"] /\ p.step = "insert" /\ p.action = q.action
      BY <2>4 DEF Steps
    <3>2. q.step = "account" /\ (Continue(r, "insert") \/ Finish(r))
      BY <2>1, <2>7 DEF CreateUser
    <3>3. Honest(p)'
      BY <2>2, <3>1, <3>2 DEF Honest
    <3> QED BY <1>3, <2>3, <3>1, <3>2, <3>3 DEF Steps
  <2>8. ASSUME NEW i \in Invites, CreateOrganizationInvitation(r, i)
        PROVE  \A x \in Requests : Honest(req[x])'
    <3>1. PICK p : p = [q EXCEPT !.step = "send", !.inv = i, !.token = 1]
      OBVIOUS
    <3>2. /\ p.step = "send" /\ p.action = q.action /\ p.inv = i /\ p.token = 1 /\ p.org = q.org
      BY <2>2, <3>1 DEF Request
    <3>3. q.step = "insert" /\ Becomes(r, p) /\ invites'[i].org = q.org
      BY <2>1, <2>8, <3>1 DEF CreateOrganizationInvitation, TypeInv, TypeOK
    <3>4. Honest(p)'
      BY <2>2, <3>2, <3>3 DEF Honest
    <3> QED BY <1>2, <3>3, <3>4
  <2>9. CASE UpdateOrganizationInvitationToken(r)
    <3>1. PICK k : k = invites[q.inv].token + 1
      OBVIOUS
    <3>2. PICK p : p = [q EXCEPT !.step = "send", !.token = k]
      OBVIOUS
    <3>3. p.step = "send" /\ p.action = q.action
      BY <2>2, <3>2 DEF Request
    <3>4. q.step = "rotate" /\ (Becomes(r, p) \/ Finish(r))
      BY <2>1, <2>9, <3>1, <3>2 DEF UpdateOrganizationInvitationToken
    <3>5. Honest(p)'
      BY <2>2, <3>3, <3>4 DEF Honest
    <3> QED BY <1>2, <1>3, <3>4, <3>5
  <2>10. CASE SendInvitation(r)
    <3>1. PICK p : /\ p = [q EXCEPT !.step = "audit"] /\ p.step = "audit" /\ p.action = q.action
                   /\ p.org = q.org /\ p.inv = q.inv
      BY <2>4 DEF Steps
    <3>2. /\ q.step = "send" /\ Continue(r, "audit") /\ q.inv \in Invites
          /\ <<q.inv, q.token>> \in links' /\ UNCHANGED invites
      BY <2>1, <2>2, <2>10 DEF SendInvitation, Shaped
    <3>3. Honest(p)'
      BY <2>2, <3>1, <3>2 DEF Honest
    <3> QED BY <2>3, <3>1, <3>2, <3>3 DEF Steps
  <2>11. CASE AcceptOrganizationInvitation(r)
    <3>1. PICK p : /\ p = [q EXCEPT !.step = "audit"] /\ p.step = "audit" /\ p.action = q.action
                   /\ p.org = q.org /\ p.inv = q.inv
      BY <2>4 DEF Steps
    <3>2. CASE Acceptable(q)
      <4>1. PICK v : v = [invites[q.inv] EXCEPT !.accepted = TRUE]
        OBVIOUS
      <4>2. q.step = "accept" /\ Continue(r, "audit") /\ invites' = [invites EXCEPT ![q.inv] = v]
        BY <2>1, <2>11, <3>2, <4>1 DEF AcceptOrganizationInvitation
      <4>3. q.inv \in Invites
        BY <2>2, <4>2 DEF Shaped
      <4>4. v.accepted
        BY <4>1, <4>3 DEF TypeInv, TypeOK, Invitation
      <4>5. invites'[q.inv].accepted
        BY <4>2, <4>3, <4>4 DEF TypeInv, TypeOK
      <4>6. invites'[q.inv].org = q.org
        BY <2>2, <4>2 DEF Honest
      <4>7. Honest(p)'
        BY <2>2, <3>1, <4>2, <4>3, <4>5, <4>6 DEF Honest
      <4> QED BY <2>3, <3>1, <4>2, <4>7 DEF Steps
    <3> QED BY <1>3, <2>1, <2>11, <3>2 DEF AcceptOrganizationInvitation
  <2>12. CASE recordAudit(r)
    BY <1>3, <2>12 DEF recordAudit
  <2> QED BY <1>7, <2>5, <2>6, <2>7, <2>8, <2>9, <2>10, <2>11, <2>12 DEF Proceed
<1>8. ASSUME NEW r \in Requests, Abort(r) PROVE \A x \in Requests : Honest(req[x])'
  BY <1>3, <1>8 DEF Abort
<1> QED BY <1>4, <1>5, <1>6, <1>7, <1>8 DEF Next, vars, CreateOrganization, Expire

\* A row of the audit log was written by a request at its last step.
LEMMA AuditRow ==
  ASSUME [Next]_vars, NEW row \in audit', row \notin audit
  PROVE  \E r \in Requests :
           req[r].step = "audit" /\ row = <<req[r].action, req[r].org, Subject(req[r])>>
<1>1. ASSUME NEW r \in Requests, NEW u \in Users, NEW o \in Orgs, Manage(r, u, o)
      PROVE  UNCHANGED audit
  BY <1>1 DEF Manage, UpdateOrganizationMemberRole, RemoveOrganizationMember,
              InviteOrganizationMember, ResendOrganizationInvitation
<1>2. ASSUME NEW r \in Requests, Proceed(r) PROVE UNCHANGED audit \/ recordAudit(r)
  BY <1>2 DEF Proceed, ensureNotLastOwner, WriteMember, CreateUser,
              CreateOrganizationInvitation, UpdateOrganizationInvitationToken, SendInvitation,
              AcceptOrganizationInvitation
<1>3. PICK r \in Requests : recordAudit(r)
  BY <1>1, <1>2 DEF Next, vars, CreateOrganization, GetOrganizationInvitation, Abort, Expire
<1> QED BY <1>3 DEF recordAudit

LEMMA AuditStep == TypeInv /\ AuditInv /\ [Next]_vars => AuditInv'
<1> SUFFICES ASSUME TypeInv, AuditInv, [Next]_vars PROVE AuditTruthful'
  BY HonestStep DEF AuditInv
<1> USE OrganizationsAssumption
<1> SUFFICES ASSUME NEW o \in Orgs, NEW i \in Invites
             PROVE  /\ <<"invitation_accepted", o, i>> \in audit'
                         => invites'[i].accepted /\ invites'[i].org = o
                    /\ <<"invitation_created", o, i>> \in audit'
                         => <<i, 1>> \in links' /\ invites'[i].org = o
  BY DEF AuditTruthful
<1>1. Lasting
  BY LastingStep
<1>2. <<"invitation_accepted", o, i>> \in audit' => invites[i].accepted /\ invites[i].org = o
  <2>1. CASE <<"invitation_accepted", o, i>> \in audit
    BY <2>1 DEF AuditInv, AuditTruthful
  <2>2. CASE <<"invitation_accepted", o, i>> \in audit' \ audit
    <3>1. PICK r \in Requests : /\ req[r].step = "audit" /\ req[r].action = "invitation_accepted"
                                /\ req[r].org = o /\ Subject(req[r]) = i
      BY <2>2, AuditRow
    <3>2. Honest(req[r]) /\ req[r].inv # None
      BY <3>1 DEF AuditInv, Honest
    <3> QED BY <3>1, <3>2 DEF Honest, Subject
  <2> QED BY <2>1, <2>2
<1>3. <<"invitation_created", o, i>> \in audit' => <<i, 1>> \in links /\ invites[i].org = o
  <2>1. CASE <<"invitation_created", o, i>> \in audit
    BY <2>1 DEF AuditInv, AuditTruthful
  <2>2. CASE <<"invitation_created", o, i>> \in audit' \ audit
    <3>1. PICK r \in Requests : /\ req[r].step = "audit" /\ req[r].action = "invitation_created"
                                /\ req[r].org = o /\ Subject(req[r]) = i
      BY <2>2, AuditRow
    <3>2. Honest(req[r]) /\ req[r].inv # None
      BY <3>1 DEF AuditInv, Honest
    <3> QED BY <3>1, <3>2 DEF Honest, Subject
  <2> QED BY <2>1, <2>2
<1> QED BY <1>1, <1>2, <1>3 DEF Lasting

\* Whatever fails on the way and however requests interleave, an acceptance
\* the audit log shows closed that invitation of that organisation, and an
\* invitation it shows was mailed.
THEOREM AuditNeverLies == Spec => []AuditTruthful
<1>1. Init => AuditInv
  BY DEF Init, AuditInv, AuditTruthful, Honest, Idle
<1>2. AuditInv => AuditTruthful
  BY DEF AuditInv
<1> QED BY TypeInit, TypeStep, AuditStep, <1>1, <1>2, PTL DEF Spec
=============================================================================
