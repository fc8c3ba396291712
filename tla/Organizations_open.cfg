SPECIFICATION Spec
CONSTANTS
  Users = {u1, u2}
  Orgs = {o1}
  Invites = {i1}
  Requests = {r1, r2}
  UpdateRoles <- OwnerOrMember
  InviteRoles <- OwnerOrAdmin
  RLSEnforced = FALSE
  Faults = TRUE
  MaxToken = 2
SYMMETRY Symmetry
CHECK_DEADLOCK FALSE
INVARIANT TypeOK
INVARIANT OneUsePerInvitation
INVARIANT AuditTruthful
PROPERTY FreshCheckKeepsOwner
PROPERTY AcceptedIsFinal
