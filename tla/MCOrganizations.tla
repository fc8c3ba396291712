--------------------------- MODULE MCOrganizations ---------------------------
(***************************************************************************)
(* Values of the constants of Organizations for TLC.                       *)
(***************************************************************************)
EXTENDS Organizations, TLC

OwnerOrAdmin == {"owner", "admin"}
OwnerOrMember == {"owner", "member"}
\* Users, organisations, invitations and requests are only compared.
Symmetry == Permutations(Users) \cup Permutations(Orgs) \cup
            Permutations(Invites) \cup Permutations(Requests)
=============================================================================
