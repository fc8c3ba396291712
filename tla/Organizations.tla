---------------------------- MODULE Organizations ----------------------------
(***************************************************************************)
(* Organisations, their members and the invitations to join them: the      *)
(* organisation half of AuthService (internal/usecase/auth.go), the        *)
(* statements it runs (internal/adapters/postgres/store.go) and the row    *)
(* level security policies of migration 032.                               *)
(*                                                                         *)
(* Every HTTP request is a process of several database transactions: the   *)
(* middleware reads the caller's role, ensureNotLastOwner reads the owners *)
(* and the statement that changes the membership runs last.  Requests      *)
(* interleave between these transactions.  A request the code refuses      *)
(* changes nothing and is left out until it holds state of its own.        *)
(*                                                                         *)
(* An email address is identified with its user: users.email is unique.    *)
(***************************************************************************)
EXTENDS Naturals, FiniteSets

CONSTANTS
  Users,
  Orgs,
  Invites,       \* invitation ids the database may hand out
  Requests,      \* concurrent HTTP requests
  UpdateRoles,   \* roles callers ask for when they change a member's role
  InviteRoles,   \* roles callers ask for when they invite
  RLSEnforced,   \* the API connects as a role that is subject to RLS
  Faults,        \* a statement or a mail may fail
  MaxToken       \* bound on the number of times an invitation is resent

\* No role, no user, no organisation: an empty column or an unused field.
None == "none"

ASSUME OrganizationsAssumption ==
  /\ IsFiniteSet(Users)
  /\ None \notin Users \cup Orgs \cup Invites
  /\ UpdateRoles \cup InviteRoles \subseteq {"owner", "admin", "member", "viewer"}
  /\ RLSEnforced \in BOOLEAN
  /\ Faults \in BOOLEAN
  /\ MaxToken \in Nat \ {0}

VARIABLES
  accounts,   \* active rows of users
  created,    \* rows of organizations
  members,    \* organization_members: members[o][u] is a role or NoRole
  invites,    \* organization_invitations
  links,      \* <<i, k>>: the k-th link of invitation i was mailed
  joined,     \* joined[i]: times invitation i has granted its role (history)
  audit,      \* audit_logs, as <<action, organisation, subject>>
  req         \* the requests in flight

vars == <<accounts, created, members, invites, links, joined, audit, req>>

Roles == {"owner", "admin", "member", "viewer"}
Managers == {"owner", "admin"}

Invitation == [org : Orgs \cup {None}, email : Users \cup {None},
               role : Roles \cup {None}, token : Nat,
               expired : BOOLEAN, accepted : BOOLEAN]

Unissued == [org |-> None, email |-> None, role |-> None, token |-> 0,
             expired |-> FALSE, accepted |-> FALSE]

Steps == {"idle", "check", "write", "account", "insert", "rotate", "send",
          "accept", "audit"}
Actions == {"none", "member_role_updated", "member_removed", "invitation_created",
            "invitation_resent", "invitation_accepted"}

(***************************************************************************)
(* A request: its next step, the audit action that names the operation,    *)
(* its parameters, and what it read earlier: the role the middleware found *)
(* (access), the owners ensureNotLastOwner saw, the invitation's token.    *)
(***************************************************************************)
Request == [step : Steps, action : Actions,
            org : Orgs \cup {None}, access : Roles \cup {None},
            target : Users \cup {None}, role : Roles \cup {None},
            inv : Invites \cup {None}, token : Nat, owners : SUBSET Users]

Idle == [step |-> "idle", action |-> "none", org |-> None,
         access |-> None, target |-> None, role |-> None, inv |-> None,
         token |-> 0, owners |-> {}]

Owners(o) == {u \in Users : members[o][u] = "owner"}

canManageMembers(role) == role \in Managers

Becomes(r, q) == req' = [req EXCEPT ![r] = q]
Continue(r, s) == Becomes(r, [req[r] EXCEPT !.step = s])
Finish(r) == Becomes(r, Idle)

-----------------------------------------------------------------------------
(* Row level security (migration 032).  The invitation routes run with the *)
(* caller's user id and no organisation, the others with both.             *)

\* organizations_member_select: only a member sees the organisation row the
\* invitation queries join with.
OrganizationVisibleTo(u, o) == RLSEnforced => members[o][u] # None

\* organizations_admin_update and organization_members_org_update: which rows
\* SELECT ... FOR UPDATE may lock and ON CONFLICT DO UPDATE may rewrite.
UpdateAllowed(role) == RLSEnforced => role \in Managers

\* audit_logs_org_insert: the context must name the organisation, which the
\* context of the accept route does not.
AuditAllowed(q) == RLSEnforced => q.action # "invitation_accepted"

-----------------------------------------------------------------------------
Init ==
  /\ accounts \in SUBSET Users
  /\ created = {}
  /\ members = [o \in Orgs |-> [u \in Users |-> None]]
  /\ invites = [i \in Invites |-> Unissued]
  /\ links = {}
  /\ joined = [i \in Invites |-> 0]
  /\ audit = {}
  /\ req = [r \in Requests |-> Idle]

(***************************************************************************)
(* CreateOrganizationWithOwner: one transaction inserts the organisation   *)
(* and its first owner.                                                    *)
(***************************************************************************)
CreateOrganization(u, o) ==
  /\ u \in accounts
  /\ o \notin created
  /\ created' = created \cup {o}
  /\ members' = [members EXCEPT ![o][u] = "owner"]
  /\ UNCHANGED <<accounts, invites, links, joined, audit, req>>

(***************************************************************************)
(* authMiddleware, then the role test every management operation starts    *)
(* with.  The caller's role is read once, in a transaction of its own, and *)
(* is what the rest of the request goes by.                                *)
(***************************************************************************)
Admitted(r, u, o) ==
  /\ req[r] = Idle
  /\ u \in accounts
  /\ o \in created
  /\ canManageMembers(members[o][u])

Start(r, u, o, q) ==
  Becomes(r, [q EXCEPT !.org = o, !.access = members[o][u]])

UpdateOrganizationMemberRole(r, u, o, t, role) ==
  /\ Admitted(r, u, o)
  /\ Start(r, u, o, [Idle EXCEPT !.action = "member_role_updated",
                                 !.step = IF role = "owner" THEN "write" ELSE "check",
                                 !.target = t, !.role = role])
  /\ UNCHANGED <<accounts, created, members, invites, links, joined, audit>>

RemoveOrganizationMember(r, u, o, t) ==
  /\ Admitted(r, u, o)
  /\ Start(r, u, o, [Idle EXCEPT !.action = "member_removed", !.step = "check",
                                 !.target = t, !.role = None])
  /\ UNCHANGED <<accounts, created, members, invites, links, joined, audit>>

(***************************************************************************)
(* ensureNotLastOwner: lists the members in one transaction; the request   *)
(* goes on to its own transaction only if the target is not the one owner. *)
(***************************************************************************)
\* Mutated form: an off-by-one in the owner count.
MIsLastOwner(owners, t) == t \in owners /\ Cardinality(owners) < 1

IsLastOwner(owners, t) == t \in owners /\ Cardinality(owners) <= 1

ensureNotLastOwner(r) ==
  LET q == req[r]
      owners == Owners(q.org)
  IN  /\ q.step = "check"
      /\ IF IsLastOwner(owners, q.target)
           THEN Finish(r)
           ELSE Becomes(r, [q EXCEPT !.step = "write", !.owners = owners])
      /\ UNCHANGED <<accounts, created, members, invites, links, joined, audit>>

(***************************************************************************)
(* The store's update or delete of one membership row; no row is an error. *)
(* A removal is the role None.                                             *)
(***************************************************************************)
\* Mutated form: the removal writes the member into the role column.
MWriteMember(r) ==
  LET q == req[r]
  IN  /\ q.step = "write"
      /\ members' = [members EXCEPT ![q.org][q.target] = q.target]
      /\ Continue(r, "audit")
      /\ UNCHANGED <<accounts, created, invites, links, joined, audit>>

WriteMember(r) ==
  LET q == req[r]
  IN  /\ q.step = "write"
      /\ IF members[q.org][q.target] # None
           THEN /\ members' = [members EXCEPT ![q.org][q.target] = q.role]
                /\ Continue(r, "audit")
           ELSE /\ Finish(r)
                /\ UNCHANGED members
      /\ UNCHANGED <<accounts, created, invites, links, joined, audit>>

(***************************************************************************)
(* InviteOrganizationMember: an account for an unknown address, then the   *)
(* invitation, then the mail, each on its own; no one is invited as owner. *)
(***************************************************************************)
InvitableRole(role) == role # "owner"

\* Bound: an invitation is asked for only while an id is left for it.
InviteLeft ==
  Cardinality({r \in Requests : req[r].step \in {"account", "insert"}})
    < Cardinality({i \in Invites : invites[i] = Unissued})

InviteOrganizationMember(r, u, o, t, role) ==
  /\ Admitted(r, u, o)
  /\ InviteLeft
  /\ InvitableRole(role)
  /\ Start(r, u, o, [Idle EXCEPT !.action = "invitation_created",
                                 !.step = IF t \in accounts THEN "insert" ELSE "account",
                                 !.target = t, !.role = role])
  /\ UNCHANGED <<accounts, created, members, invites, links, joined, audit>>

CreateUser(r) ==
  /\ req[r].step = "account"
  /\ IF req[r].target \in accounts     \* users_email_unique: another request was first
       THEN Finish(r)
       ELSE Continue(r, "insert")
  /\ accounts' = accounts \cup {req[r].target}
  /\ UNCHANGED <<created, members, invites, links, joined, audit>>

CreateOrganizationInvitation(r, i) ==
  LET q == req[r]
  IN  /\ q.step = "insert"
      /\ invites[i] = Unissued
      /\ invites' = [invites EXCEPT ![i] =
                       [org |-> q.org, email |-> q.target, role |-> q.role,
                        token |-> 1, expired |-> FALSE, accepted |-> FALSE]]
      /\ Becomes(r, [q EXCEPT !.step = "send", !.inv = i, !.token = 1])
      /\ UNCHANGED <<accounts, created, members, links, joined, audit>>

ResendOrganizationInvitation(r, u, o, i) ==
  /\ Admitted(r, u, o)
  /\ invites[i].token < MaxToken
  /\ Start(r, u, o, [Idle EXCEPT !.action = "invitation_resent", !.step = "rotate",
                                 !.inv = i])
  /\ UNCHANGED <<accounts, created, members, invites, links, joined, audit>>

\* Mutated form: "accepted_at is null" is forgotten.
MResendable(i, o) == invites[i].org = o

Resendable(i, o) == invites[i].org = o /\ ~invites[i].accepted

UpdateOrganizationInvitationToken(r) ==
  LET q == req[r]
      k == invites[q.inv].token + 1
  IN  /\ q.step = "rotate"
      /\ IF Resendable(q.inv, q.org)
           THEN /\ invites' = [invites EXCEPT ![q.inv].token = k, ![q.inv].expired = FALSE]
                /\ Becomes(r, [q EXCEPT !.step = "send", !.token = k])
           ELSE Finish(r) /\ UNCHANGED invites
      /\ UNCHANGED <<accounts, created, members, links, joined, audit>>

\* SendMagicLink: the mail reaches the address with the link made for it.
SendInvitation(r) ==
  /\ req[r].step = "send"
  /\ links' = links \cup {<<req[r].inv, req[r].token>>}
  /\ Continue(r, "audit")
  /\ UNCHANGED <<accounts, created, members, invites, joined, audit>>

\* Seven days pass.
Expire(i) ==
  /\ invites[i] # Unissued
  /\ ~invites[i].expired
  /\ invites' = [invites EXCEPT ![i].expired = TRUE]
  /\ UNCHANGED <<accounts, created, members, links, joined, audit, req>>

(***************************************************************************)
(* AcceptOrganizationInvitation: the link is looked up and matched with    *)
(* the session's user in one transaction, and used in another that selects *)
(* it again FOR UPDATE.                                                    *)
(***************************************************************************)
LinkLive(i, k) == invites[i].token = k /\ ~invites[i].expired

GetOrganizationInvitation(r, u, i, k) ==
  /\ req[r] = Idle
  /\ u \in accounts
  /\ <<i, k>> \in links
  /\ LinkLive(i, k)
  /\ invites[i].email = u
  /\ OrganizationVisibleTo(u, invites[i].org)
  /\ Becomes(r, [Idle EXCEPT !.step = "accept", !.action = "invitation_accepted",
                             !.target = u, !.org = invites[i].org,
                             !.role = invites[i].role, !.inv = i, !.token = k])
  /\ UNCHANGED <<accounts, created, members, invites, links, joined, audit>>

\* Mutated form: accepted_at is not looked at in the second transaction.
MAcceptable(q) ==
  /\ LinkLive(q.inv, q.token)
  /\ UpdateAllowed(q.role)

Acceptable(q) ==
  /\ LinkLive(q.inv, q.token)
  /\ ~invites[q.inv].accepted
  /\ UpdateAllowed(q.role)

\* Mutated form: the request goes on to the audit log whatever came of it.
MAcceptOrganizationInvitation(r) ==
  LET q == req[r]
  IN  /\ q.step = "accept"
      /\ Continue(r, "audit")
      /\ UNCHANGED <<accounts, created, members, invites, links, joined, audit>>

AcceptOrganizationInvitation(r) ==
  LET q == req[r]
  IN  /\ q.step = "accept"
      /\ IF Acceptable(q)
           THEN /\ members' = [members EXCEPT ![q.org][q.target] = q.role]
                /\ invites' = [invites EXCEPT ![q.inv].accepted = TRUE]
                /\ joined' = [joined EXCEPT ![q.inv] = @ + 1]
                /\ Continue(r, "audit")
           ELSE /\ Finish(r)
                /\ UNCHANGED <<members, invites, joined>>
      /\ UNCHANGED <<accounts, created, links, audit>>

\* What an audit row is about: the invitation, or the member.
Subject(q) == IF q.inv # None THEN q.inv ELSE q.target

\* recordAudit: after the change has committed; an error is only logged.
recordAudit(r) ==
  LET q == req[r]
  IN  /\ q.step = "audit"
      /\ IF AuditAllowed(q)
           THEN audit' = audit \cup {<<q.action, q.org, Subject(q)>>}
           ELSE UNCHANGED audit
      /\ Finish(r)
      /\ UNCHANGED <<accounts, created, members, invites, links, joined>>

\* A statement or the mail fails, or the process stops: what has committed
\* stays and the request ends where it is.
Abort(r) ==
  /\ Faults
  /\ req[r] # Idle
  /\ Finish(r)
  /\ UNCHANGED <<accounts, created, members, invites, links, joined, audit>>

-----------------------------------------------------------------------------
Manage(r, u, o) ==
  \/ \E t \in Users, role \in UpdateRoles : UpdateOrganizationMemberRole(r, u, o, t, role)
  \/ \E t \in Users : RemoveOrganizationMember(r, u, o, t)
  \/ \E t \in Users, role \in InviteRoles : InviteOrganizationMember(r, u, o, t, role)
  \/ \E i \in Invites : ResendOrganizationInvitation(r, u, o, i)

Proceed(r) ==
  \/ ensureNotLastOwner(r)
  \/ WriteMember(r)
  \/ CreateUser(r)
  \/ \E i \in Invites : CreateOrganizationInvitation(r, i)
  \/ UpdateOrganizationInvitationToken(r)
  \/ SendInvitation(r)
  \/ AcceptOrganizationInvitation(r)
  \/ recordAudit(r)

Next ==
  \/ \E u \in Users, o \in Orgs : CreateOrganization(u, o)
  \/ \E r \in Requests, u \in Users, o \in Orgs : Manage(r, u, o)
  \/ \E r \in Requests, u \in Users, i \in Invites, k \in {l[2] : l \in links} :
       GetOrganizationInvitation(r, u, i, k)
  \/ \E r \in Requests : Proceed(r)
  \/ \E r \in Requests : Abort(r)
  \/ \E i \in Invites : Expire(i)

Spec == Init /\ [][Next]_vars

-----------------------------------------------------------------------------
(* Properties.                                                             *)

\* Every column and every value a request holds is of its kind; in
\* particular a request about to write names an organisation and a member.
TypeOK ==
  /\ accounts \subseteq Users
  /\ created \subseteq Orgs
  /\ members \in [Orgs -> [Users -> Roles \cup {None}]]
  /\ invites \in [Invites -> Invitation]
  /\ links \subseteq Invites \X Nat
  /\ joined \in [Invites -> Nat]
  /\ audit \subseteq Actions \X Orgs \X (Invites \cup Users)
  /\ req \in [Requests -> Request]

\* What ensureNotLastOwner does guarantee: a role change or removal whose
\* list of owners is still the current one when its statement runs leaves
\* the organisation with an owner.
FreshCheckKeepsOwner ==
  [][\A r \in Requests :
       LET q == req[r]
       IN  (/\ q.step = "write" /\ req'[r].step = "audit"
            /\ q.owners # {} /\ q.owners = Owners(q.org))
           => \E u \in Users : members'[q.org][u] = "owner"]_vars

\* An invitation grants its role at most once, however many links were
\* mailed for it and however many requests use them at the same time.
OneUsePerInvitation == \A i \in Invites : joined[i] <= 1

\* An accepted invitation is closed: a resend that races with the acceptance
\* neither reopens it nor gives it a new link.
AcceptedIsFinal ==
  [][\A i \in Invites :
       invites[i].accepted => /\ invites'[i].accepted
                              /\ invites'[i].token = invites[i].token]_vars

\* The audit log does not claim what did not happen: an acceptance it shows
\* closed that invitation of that organisation, an invitation it shows was
\* mailed.
AuditTruthful ==
  \A o \in Orgs, i \in Invites :
    /\ <<"invitation_accepted", o, i>> \in audit
         => invites[i].accepted /\ invites[i].org = o
    /\ <<"invitation_created", o, i>> \in audit
         => <<i, 1>> \in links /\ invites[i].org = o
=============================================================================
