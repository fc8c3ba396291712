------------------------------- MODULE SignIn -------------------------------
(***************************************************************************)
(* Signing in by magic link, sessions, API tokens and their clean-up:      *)
(* AuthService (internal/usecase/auth.go), HousekeepingService             *)
(* (internal/usecase/housekeeping.go) and their statements                 *)
(* (internal/adapters/postgres/store.go, api_tokens.go, housekeeping.go).  *)
(*                                                                         *)
(* Every statement is a transaction of its own; requests interleave        *)
(* between statements and may stop after any of them.  A token is          *)
(* random, so a link or session that has been used up is never issued      *)
(* again.  Times count from 1; 0 stands for "not yet".                     *)
(***************************************************************************)
EXTENDS Naturals, FiniteSets

CONSTANTS
  Emails,
  Bootstrap,     \* BOOTSTRAP_OWNER_EMAIL
  AllowSignup,
  Links, Sessions, Tokens,
  Requests,      \* sign-ins in flight at the same time
  LinkLife, SessionLife, Retention,
  MaxTime,       \* bound on the clock
  RLS,           \* row level security binds the database role
  None

ASSUME SignInAssumption ==
  /\ Bootstrap \in Emails /\ None \notin Emails \cup Links
  /\ AllowSignup \in BOOLEAN /\ RLS \in BOOLEAN
  /\ LinkLife \in Nat \ {0} /\ SessionLife \in Nat \ {0} /\ Retention \in Nat /\ MaxTime \in Nat

VARIABLES
  now,
  users,      \* rows of the users table, by address
  active,     \* those with users.active
  invited,    \* addresses whose account came with an invitation (history)
  members,    \* members of the organisation the API tokens are for
  links,      \* magic_links
  mailed,     \* links whose token has reached a mailbox
  sessions,
  tokens,     \* tokens[t]: the user, None before its creation and after its revocation
  req,
  cleanup     \* the housekeeper's step and the time it read

vars == <<now, users, active, invited, members, links, mailed, sessions, tokens, req, cleanup>>

Link == [state : {"unissued", "row", "deleted"}, email : Emails \cup {None},
         expires : Nat, consumed : Nat]
NoLink == [state |-> "unissued", email |-> None, expires |-> 0, consumed |-> 0]

Session == [state : {"unissued", "row", "deleted"}, user : Emails \cup {None},
            expires : Nat, revoked : Nat,
            origin : Links \cup {None}]      \* the link that opened it (history)
NoSession == [state |-> "unissued", user |-> None, expires |-> 0, revoked |-> 0, origin |-> None]

Request == [step : {"idle", "hasUsers", "signup", "owner", "link", "send", "find", "session"},
            email : Emails \cup {None}, link : Links \cup {None}]
Idle == [step |-> "idle", email |-> None, link |-> None]

Becomes(r, q) == req' = [req EXCEPT ![r] = q]
Goes(r, s) == Becomes(r, [req[r] EXCEPT !.step = s])

\* A link that can still be consumed, and a session that still admits.
LiveLink(l) == links[l].state = "row" /\ links[l].consumed = 0 /\ links[l].expires > now
LiveSession(k) ==
  /\ sessions[k].state = "row" /\ sessions[k].revoked = 0 /\ sessions[k].expires > now
  /\ sessions[k].user \in active

Init ==
  /\ now = 1
  /\ users \in {{}, Emails \ {Bootstrap}}   \* the table may have rows when the server starts
  /\ active = users
  /\ invited = {}
  /\ members = {}
  /\ links = [l \in Links |-> NoLink]
  /\ mailed = {}
  /\ sessions = [k \in Sessions |-> NoSession]
  /\ tokens = [t \in Tokens |-> None]
  /\ req = [r \in Requests |-> Idle]
  /\ cleanup = [step |-> "idle", at |-> 0]

-----------------------------------------------------------------------------
(* RequestMagicLink and ensureCanLogin.                                    *)

\* ActiveUserByEmail, and where the request goes from there.
RequestMagicLink(r, e, signup) ==
  /\ req[r].step = "idle"
  /\ \E l \in Links : links[l].state = "unissued"
  /\ Becomes(r, [Idle EXCEPT !.email = e,
                             !.step = IF e \in active THEN "link"
                                      ELSE IF signup /\ AllowSignup THEN "signup"
                                      ELSE "hasUsers"])
  /\ UNCHANGED <<now, users, active, invited, members, links, mailed, sessions, tokens, cleanup>>

\* Mutated form: the bootstrap address gets in without HasUsers.
MHasUsers(r) ==
  /\ req[r].step = "hasUsers"
  /\ IF req[r].email = Bootstrap THEN Goes(r, "owner") ELSE Becomes(r, Idle)
  /\ UNCHANGED <<now, users, active, invited, members, links, mailed, sessions, tokens, cleanup>>

HasUsers(r) ==
  /\ req[r].step = "hasUsers"
  /\ IF users = {} /\ req[r].email = Bootstrap THEN Goes(r, "owner") ELSE Becomes(r, Idle)
  /\ UNCHANGED <<now, users, active, invited, members, links, mailed, sessions, tokens, cleanup>>

\* users_email_unique refuses an address that is there, active or not.
CreateUser(r) ==
  /\ req[r].step \in {"signup", "owner"}
  /\ IF req[r].email \in users
     THEN Becomes(r, Idle) /\ UNCHANGED <<users, active>>
     ELSE /\ users' = users \cup {req[r].email}
          /\ active' = active \cup {req[r].email}
          /\ Goes(r, "link")
  /\ UNCHANGED <<now, invited, members, links, mailed, sessions, tokens, cleanup>>

CreateMagicLink(r, l) ==
  /\ req[r].step = "link"
  /\ links[l].state = "unissued"
  /\ links' = [links EXCEPT ![l] = [state |-> "row", email |-> req[r].email,
                                    expires |-> now + LinkLife, consumed |-> 0]]
  /\ Becomes(r, [req[r] EXCEPT !.step = "send", !.link = l])
  /\ UNCHANGED <<now, users, active, invited, members, mailed, sessions, tokens, cleanup>>

SendMagicLink(r) ==
  /\ req[r].step = "send"
  /\ mailed' = mailed \cup {req[r].link}
  /\ Becomes(r, Idle)
  /\ UNCHANGED <<now, users, active, invited, members, links, sessions, tokens, cleanup>>

-----------------------------------------------------------------------------
(* VerifyMagicLink: three transactions.                                    *)

\* Mutated form: consumed_at is not looked at.
MConsumeMagicLink(r, l) ==
  /\ req[r].step = "idle"
  /\ l \in mailed
  /\ links[l].state = "row" /\ links[l].expires > now
  /\ links' = [links EXCEPT ![l].consumed = now]
  /\ Becomes(r, [step |-> "find", email |-> links[l].email, link |-> l])
  /\ UNCHANGED <<now, users, active, invited, members, mailed, sessions, tokens, cleanup>>

\* The row is locked from the test of consumed_at to its update.
ConsumeMagicLink(r, l) ==
  /\ req[r].step = "idle"
  /\ l \in mailed
  /\ LiveLink(l)
  /\ links' = [links EXCEPT ![l].consumed = now]
  /\ Becomes(r, [step |-> "find", email |-> links[l].email, link |-> l])
  /\ UNCHANGED <<now, users, active, invited, members, mailed, sessions, tokens, cleanup>>

ActiveUserByEmail(r) ==
  /\ req[r].step = "find"
  /\ IF req[r].email \in active THEN Goes(r, "session") ELSE Becomes(r, Idle)
  /\ UNCHANGED <<now, users, active, invited, members, links, mailed, sessions, tokens, cleanup>>

CreateSession(r, k) ==
  /\ req[r].step = "session"
  /\ sessions[k].state = "unissued"
  /\ sessions' = [sessions EXCEPT ![k] =
       [state |-> "row", user |-> req[r].email, expires |-> now + SessionLife,
        revoked |-> 0, origin |-> req[r].link]]
  /\ Becomes(r, Idle)
  /\ UNCHANGED <<now, users, active, invited, members, links, mailed, tokens, cleanup>>

\* A statement or the mailer fails, or the process stops.
Abandon(r) ==
  /\ req[r].step # "idle"
  /\ Becomes(r, Idle)
  /\ UNCHANGED <<now, users, active, invited, members, links, mailed, sessions, tokens, cleanup>>

-----------------------------------------------------------------------------
(* Sessions and tokens in use.                                             *)

\* RevokeSession: an expired session is revoked like any other.
Logout(k) ==
  /\ sessions[k].state = "row" /\ sessions[k].revoked = 0
  /\ sessions' = [sessions EXCEPT ![k].revoked = now]
  /\ UNCHANGED <<now, users, active, invited, members, links, mailed, tokens, req, cleanup>>

\* By a signed-in member, for itself.
CreateAPIToken(k, t) ==
  /\ LiveSession(k) /\ sessions[k].user \in members
  /\ tokens[t] = None
  /\ tokens' = [tokens EXCEPT ![t] = sessions[k].user]
  /\ UNCHANGED <<now, users, active, invited, members, links, mailed, sessions, req, cleanup>>

RevokeAPIToken(k, t) ==
  /\ LiveSession(k) /\ sessions[k].user \in members
  /\ tokens[t] = sessions[k].user
  /\ tokens' = [tokens EXCEPT ![t] = None]
  /\ UNCHANGED <<now, users, active, invited, members, links, mailed, sessions, req, cleanup>>

\* Members the authenticator's context sees: it names no user and no
\* organisation, so organization_members_org_select shows it none.
MembersSeen == IF RLS THEN {} ELSE members

\* The update joins users and organization_members.
UserByAPIToken(t) == tokens[t] # None /\ tokens[t] \in active \cap MembersSeen

-----------------------------------------------------------------------------
(* HousekeepingService: the time is read once, each table is cleaned in a  *)
(* transaction of its own.                                                 *)

Run ==
  /\ cleanup.step = "idle"
  /\ cleanup' = [step |-> "links", at |-> now]
  /\ UNCHANGED <<now, users, active, invited, members, links, mailed, sessions, tokens, req>>

CleanMagicLinks ==
  /\ cleanup.step = "links"
  /\ links' = [l \in Links |->
       IF links[l].state = "row" /\ (links[l].consumed # 0 \/ links[l].expires <= cleanup.at)
       THEN [links[l] EXCEPT !.state = "deleted"] ELSE links[l]]
  /\ cleanup' = [cleanup EXCEPT !.step = "sessions"]
  /\ UNCHANGED <<now, users, active, invited, members, mailed, sessions, tokens, req>>

\* Mutated form: the retention is taken from the expiry, too, and on the
\* wrong side.
MStale(k) ==
  /\ sessions[k].state = "row"
  /\ \/ sessions[k].expires <= cleanup.at + Retention
     \/ sessions[k].revoked # 0 /\ sessions[k].revoked + Retention <= cleanup.at

Stale(k) ==
  /\ sessions[k].state = "row"
  /\ \/ sessions[k].expires <= cleanup.at
     \/ sessions[k].revoked # 0 /\ sessions[k].revoked + Retention <= cleanup.at

CleanSessions ==
  /\ cleanup.step = "sessions"
  /\ sessions' = [k \in Sessions |->
       IF Stale(k) THEN [sessions[k] EXCEPT !.state = "deleted"] ELSE sessions[k]]
  /\ cleanup' = [step |-> "idle", at |-> 0]
  /\ UNCHANGED <<now, users, active, invited, members, links, mailed, tokens, req>>

CleanupFails ==
  /\ cleanup.step # "idle"
  /\ cleanup' = [step |-> "idle", at |-> 0]
  /\ UNCHANGED <<now, users, active, invited, members, links, mailed, sessions, tokens, req>>

-----------------------------------------------------------------------------
(* What goes on around.                                                    *)

Tick ==
  /\ now < MaxTime
  /\ now' = now + 1
  /\ UNCHANGED <<users, active, invited, members, links, mailed, sessions, tokens, req, cleanup>>

\* InviteOrganizationMember of somebody without an account; Organizations
\* has the rest of it.
Invite(e) ==
  /\ active # {} /\ e \notin users
  /\ users' = users \cup {e}
  /\ active' = active \cup {e}
  /\ invited' = invited \cup {e}
  /\ UNCHANGED <<now, members, links, mailed, sessions, tokens, req, cleanup>>

\* The operator switches an account off; no code does.
Deactivate(e) ==
  /\ e \in active
  /\ active' = active \ {e}
  /\ UNCHANGED <<now, users, invited, members, links, mailed, sessions, tokens, req, cleanup>>

\* The user's membership comes or goes (Organizations).
ChangeMembership(e) ==
  /\ e \in users
  /\ members' = IF e \in members THEN members \ {e} ELSE members \cup {e}
  /\ UNCHANGED <<now, users, active, invited, links, mailed, sessions, tokens, req, cleanup>>

Next ==
  \/ \E r \in Requests, e \in Emails, signup \in BOOLEAN : RequestMagicLink(r, e, signup)
  \/ \E r \in Requests : \/ HasUsers(r) \/ CreateUser(r) \/ SendMagicLink(r)
                         \/ ActiveUserByEmail(r) \/ Abandon(r)
  \/ \E r \in Requests, l \in Links : CreateMagicLink(r, l) \/ ConsumeMagicLink(r, l)
  \/ \E r \in Requests, k \in Sessions : CreateSession(r, k)
  \/ \E k \in Sessions : Logout(k)
  \/ \E k \in Sessions, t \in Tokens : CreateAPIToken(k, t) \/ RevokeAPIToken(k, t)
  \/ Run \/ CleanMagicLinks \/ CleanSessions \/ CleanupFails
  \/ Tick
  \/ \E e \in Emails : Invite(e) \/ Deactivate(e) \/ ChangeMembership(e)

Spec == Init /\ [][Next]_vars

-----------------------------------------------------------------------------
(* Properties.                                                             *)

\* However often a link is followed, and however the clean-up comes in
\* between, it opens one session at most, and only its addressee's.
LinkOpensOneSession ==
  \A k, m \in Sessions :
    sessions[k].origin # None =>
      /\ sessions[k].user = links[sessions[k].origin].email
      /\ sessions[k].origin = sessions[m].origin => k = m

\* While signing up is closed, the bootstrap address comes into the users
\* table of an empty installation or by invitation, even when the table was
\* looked at some steps before the insert.
BootstrapFirst ==
  [][(Bootstrap \in users' \ users) => users = {} \/ Bootstrap \in invited']_vars

\* The clean-up, which works with the time it read at its start, takes away
\* no link or session that still works, and no session whose revocation is
\* younger than the retention.
HousekeepingSparesLive ==
  [][/\ \A l \in Links : LiveLink(l) => links'[l].state = "row"
     /\ \A k \in Sessions :
          (/\ sessions[k].state = "row" /\ sessions[k].expires > now
           /\ sessions[k].revoked = 0 \/ sessions[k].revoked + Retention > now)
          => sessions'[k].state = "row"]_vars

=============================================================================
