---------------------------- MODULE SignInProofs ----------------------------
(***************************************************************************)
(* A magic link opens one session at most, the first account of a closed   *)
(* installation is its owner's, and the clean-up takes nothing that still  *)
(* works: for every number of links, sessions, addresses and sign-ins in   *)
(* flight.                                                                 *)
(***************************************************************************)
EXTENDS SignIn, TLAPS

\* The parts of the state the argument is about.
LinkTypes ==
  /\ now \in Nat \ {0}
  /\ links \in [Links -> Link]
  /\ sessions \in [Sessions -> Session]
  /\ req \in [Requests -> Request]

\* consumed_at is set; the row may have been cleaned away since.
Used(l) == links[l].state # "unissued" /\ links[l].consumed # 0

\* The request has consumed a link and not opened its session yet.
Verifying(r) == req[r].step \in {"find", "session"}

\* A request that verifies a link is the only one to do so, and the link has
\* not opened a session yet.
OneVerifier ==
  \A r \in Requests : Verifying(r) =>
    /\ req[r].link \in Links /\ Used(req[r].link)
    /\ req[r].email = links[req[r].link].email
    /\ \A q \in Requests : Verifying(q) /\ req[q].link = req[r].link => q = r
    /\ \A k \in Sessions : sessions[k].origin # req[r].link

\* The link of a session has been used.
OriginUsed ==
  \A k \in Sessions : sessions[k].origin # None =>
    sessions[k].origin \in Links /\ Used(sessions[k].origin)

LinkInv ==
  /\ LinkTypes
  /\ OneVerifier
  /\ OriginUsed
  /\ LinkOpensOneSession

-----------------------------------------------------------------------------
\* Nothing has been issued in the initial state.
LEMMA LinkInit == Init => LinkInv
BY SignInAssumption
DEF Init, LinkInv, LinkTypes, OneVerifier, OriginUsed, LinkOpensOneSession, Verifying,
    Link, NoLink, Session, NoSession, Request, Idle

\* Steps that move no request into a verification and leave the addresses,
\* the uses of links and the origins of sessions alone.
LEMMA LinkFrame ==
  ASSUME LinkInv, LinkTypes',
         \A r \in Requests : Verifying(r)' =>
            Verifying(r) /\ req'[r].link = req[r].link /\ req'[r].email = req[r].email,
         \A l \in Links : Used(l) => Used(l)' /\ links'[l].email = links[l].email,
         \A k \in Sessions : sessions'[k].origin = sessions[k].origin
                             /\ sessions'[k].user = sessions[k].user
  PROVE  LinkInv'
<1>1. OneVerifier'
  BY DEF LinkInv, OneVerifier
<1>2. OriginUsed'
  BY DEF LinkInv, OriginUsed
<1>3. LinkOpensOneSession'
  BY DEF LinkInv, LinkOpensOneSession, OriginUsed
<1> QED BY <1>1, <1>2, <1>3 DEF LinkInv

\* A request that goes on without verifying anything.
LEMMA LinkMove ==
  ASSUME LinkInv, NEW r \in Requests, NEW q \in Request, Becomes(r, q),
         q.step \notin {"find", "session"}, UNCHANGED <<now, links, sessions>>
  PROVE  LinkInv'
<1>1. LinkTypes'
  BY DEF LinkInv, LinkTypes, Becomes
<1>2. \A x \in Requests : Verifying(x)' =>
         Verifying(x) /\ req'[x].link = req[x].link /\ req'[x].email = req[x].email
  BY DEF LinkInv, LinkTypes, Becomes, Verifying
<1> QED BY <1>1, <1>2, LinkFrame DEF Used

\* The row's lock makes the request that sets consumed_at the first one.
LEMMA LinkConsumed ==
  ASSUME LinkInv, NEW r \in Requests, NEW l \in Links, ConsumeMagicLink(r, l)
  PROVE  LinkInv'
<1>t. LinkTypes
  BY DEF LinkInv
<1>1. /\ links[l].state = "row" /\ links[l].consumed = 0 /\ req[r].step = "idle"
      /\ UNCHANGED <<now, sessions>>
  BY DEF ConsumeMagicLink, LiveLink
<1>2. PICK q \in Request : q = [step |-> "find", email |-> links[l].email, link |-> l]
  BY <1>t DEF LinkTypes, Link, Request
<1>3. req' = [req EXCEPT ![r] = q] /\ q.step = "find" /\ q.link = l /\ q.email = links[l].email
  BY <1>2 DEF ConsumeMagicLink, Becomes
<1>4. /\ links' = [links EXCEPT ![l].consumed = now]
      /\ links'[l].email = links[l].email /\ links'[l].state = "row" /\ links'[l].consumed = now
      /\ \A x \in Links \ {l} : links'[x] = links[x]
  BY <1>t, <1>1 DEF ConsumeMagicLink, LinkTypes, Link
<1>5. LinkTypes'
  BY <1>t, <1>1, <1>3, <1>4 DEF LinkTypes, Link
<1>6. \A x \in Links : Used(x) => Used(x)' /\ links'[x].email = links[x].email /\ x # l
  BY <1>1, <1>4 DEF Used
<1>7. Used(l)' /\ links'[l].email = links[l].email
  BY <1>t, <1>4 DEF Used, LinkTypes
<1>8. OneVerifier'
  <2>1. ASSUME NEW x \in Requests, x # r, Verifying(x)'
        PROVE  Verifying(x) /\ req'[x] = req[x] /\ req[x].link # l
    BY <1>t, <1>3, <1>6, <2>1 DEF Verifying, LinkTypes, LinkInv, OneVerifier
  <2>2. req'[r] = q
    BY <1>t, <1>3 DEF LinkTypes
  <2>3. \A k \in Sessions : sessions'[k].origin # l
    BY <1>1, <1>6, SignInAssumption DEF LinkInv, OriginUsed
  <2> QED BY <1>1, <1>3, <1>6, <1>7, <2>1, <2>2, <2>3 DEF LinkInv, OneVerifier, Verifying
<1>9. OriginUsed' /\ LinkOpensOneSession'
  BY <1>1, <1>6 DEF LinkInv, OriginUsed, LinkOpensOneSession
<1> QED BY <1>5, <1>8, <1>9 DEF LinkInv

\* The only request that verifies the link opens its first session.
LEMMA LinkOpens ==
  ASSUME LinkInv, NEW r \in Requests, NEW k \in Sessions, CreateSession(r, k)
  PROVE  LinkInv'
<1>t. LinkTypes
  BY DEF LinkInv
<1> DEFINE l == req[r].link
<1>1. /\ Verifying(r) /\ UNCHANGED <<now, links>>
      /\ l \in Links /\ Used(l) /\ req[r].email = links[l].email
  BY DEF CreateSession, Verifying, LinkInv, OneVerifier
<1>2. PICK s \in Session : s = [state |-> "row", user |-> req[r].email,
                                expires |-> now + SessionLife, revoked |-> 0, origin |-> l]
  <2>1. now + SessionLife \in Nat /\ req[r].email \in Emails \cup {None}
    BY <1>t, SignInAssumption DEF LinkTypes, Request
  <2> QED BY <1>1, <2>1 DEF Session
<1>3. sessions' = [sessions EXCEPT ![k] = s] /\ s.origin = l /\ s.user = links[l].email
  BY <1>1, <1>2 DEF CreateSession
<1>4. Idle \in Request /\ Idle.step = "idle" /\ req' = [req EXCEPT ![r] = Idle]
  BY DEF CreateSession, Becomes, Idle, Request
<1>5. LinkTypes'
  BY <1>t, <1>1, <1>3, <1>4 DEF LinkTypes
<1>6. sessions'[k] = s /\ \A m \in Sessions \ {k} : sessions'[m] = sessions[m]
  BY <1>t, <1>3 DEF LinkTypes
<1>7. \A m \in Sessions : sessions[m].origin # l
  BY <1>1 DEF LinkInv, OneVerifier
<1>8. \A x \in Requests : Verifying(x)' => x # r /\ Verifying(x) /\ req'[x] = req[x]
  BY <1>t, <1>4 DEF LinkTypes, Verifying
<1>9. OneVerifier'
  <2>1. \A x \in Requests : Verifying(x) /\ x # r => req[x].link # l
    BY <1>1 DEF LinkInv, OneVerifier
  <2> QED BY <1>1, <1>3, <1>6, <1>8, <2>1 DEF LinkInv, OneVerifier, Used
<1>10. OriginUsed'
  BY <1>1, <1>3, <1>6 DEF LinkInv, OriginUsed, Used
<1>11. LinkOpensOneSession'
  BY <1>1, <1>3, <1>6, <1>7 DEF LinkInv, LinkOpensOneSession
<1> QED BY <1>5, <1>9, <1>10, <1>11 DEF LinkInv

\* Every step keeps the invariant.
LEMMA LinkStep == LinkInv /\ [Next]_vars => LinkInv'
<1> SUFFICES ASSUME LinkInv, [Next]_vars PROVE LinkInv'
  OBVIOUS
<1>t. LinkTypes
  BY DEF LinkInv
<1>i. Idle \in Request /\ Idle.step = "idle"
  BY DEF Idle, Request
<1>1. ASSUME NEW r \in Requests, NEW e \in Emails, NEW signup \in BOOLEAN,
             RequestMagicLink(r, e, signup)
      PROVE LinkInv'
  <2> DEFINE s == IF e \in active THEN "link" ELSE IF signup /\ AllowSignup THEN "signup"
                  ELSE "hasUsers"
             q == [Idle EXCEPT !.email = e, !.step = s]
  <2>1. s \in {"link", "signup", "hasUsers"}
    OBVIOUS
  <2>2. Becomes(r, q) /\ UNCHANGED <<now, links, sessions>>
    BY <1>1 DEF RequestMagicLink
  <2> HIDE DEF s
  <2>3. q \in Request /\ q.step \notin {"find", "session"}
    BY <2>1 DEF Idle, Request
  <2> QED BY <2>2, <2>3, LinkMove
<1>2. ASSUME NEW r \in Requests, HasUsers(r) \/ CreateUser(r) \/ SendMagicLink(r) \/ Abandon(r)
      PROVE LinkInv'
  <2>1. \A s \in {"owner", "link"} : [req[r] EXCEPT !.step = s] \in Request
                                     /\ [req[r] EXCEPT !.step = s].step = s
    BY <1>t DEF LinkTypes, Request
  <2>2. /\ Becomes(r, Idle) \/ Goes(r, "owner") \/ Goes(r, "link")
        /\ UNCHANGED <<now, links, sessions>>
    BY <1>2 DEF HasUsers, CreateUser, SendMagicLink, Abandon
  <2> QED BY <1>i, <2>1, <2>2, LinkMove DEF Goes
<1>3. ASSUME NEW r \in Requests, ActiveUserByEmail(r) PROVE LinkInv'
  <2>1. CASE Becomes(r, Idle)
    BY <1>3, <1>i, <2>1, LinkMove DEF ActiveUserByEmail
  <2>2. CASE Goes(r, "session")
    <3>1. PICK q \in Request : q = [req[r] EXCEPT !.step = "session"]
      BY <1>t DEF LinkTypes, Request
    <3>2. /\ req' = [req EXCEPT ![r] = q] /\ req[r].step = "find"
          /\ q.link = req[r].link /\ q.email = req[r].email
          /\ UNCHANGED <<now, links, sessions>>
      BY <1>3, <1>t, <2>2, <3>1 DEF ActiveUserByEmail, Goes, Becomes, LinkTypes, Request
    <3>3. LinkTypes'
      BY <1>t, <3>2 DEF LinkTypes
    <3>4. \A x \in Requests : Verifying(x)' =>
            Verifying(x) /\ req'[x].link = req[x].link /\ req'[x].email = req[x].email
      BY <1>t, <3>2 DEF LinkTypes, Verifying
    <3> QED BY <3>2, <3>3, <3>4, LinkFrame DEF Used
  <2> QED BY <1>3, <2>1, <2>2 DEF ActiveUserByEmail
<1>4. ASSUME NEW r \in Requests, NEW l \in Links, CreateMagicLink(r, l) PROVE LinkInv'
  <2>1. PICK row \in Link : row = [state |-> "row", email |-> req[r].email,
                                   expires |-> now + LinkLife, consumed |-> 0]
    <3>1. now + LinkLife \in Nat /\ req[r].email \in Emails \cup {None}
      BY <1>t, SignInAssumption DEF LinkTypes, Request
    <3> QED BY <3>1 DEF Link
  <2>2. PICK q \in Request : q = [req[r] EXCEPT !.step = "send", !.link = l]
    BY <1>t DEF LinkTypes, Request
  <2>3. /\ links' = [links EXCEPT ![l] = row] /\ links[l].state = "unissued"
        /\ req' = [req EXCEPT ![r] = q] /\ q.step = "send"
        /\ UNCHANGED <<now, sessions>>
    BY <1>4, <1>t, <2>1, <2>2 DEF CreateMagicLink, Becomes, LinkTypes, Request
  <2>4. LinkTypes'
    BY <1>t, <2>3 DEF LinkTypes
  <2>5. \A x \in Links : Used(x) => Used(x)' /\ links'[x].email = links[x].email
    BY <1>t, <2>3 DEF LinkTypes, Used
  <2>6. \A x \in Requests : Verifying(x)' =>
          Verifying(x) /\ req'[x].link = req[x].link /\ req'[x].email = req[x].email
    BY <1>t, <2>3 DEF LinkTypes, Verifying
  <2> QED BY <2>3, <2>4, <2>5, <2>6, LinkFrame
<1>5. ASSUME NEW r \in Requests, NEW l \in Links, ConsumeMagicLink(r, l) PROVE LinkInv'
  BY <1>5, LinkConsumed
<1>6. ASSUME NEW r \in Requests, NEW k \in Sessions, CreateSession(r, k) PROVE LinkInv'
  BY <1>6, LinkOpens
<1>7. ASSUME NEW k \in Sessions, Logout(k) PROVE LinkInv'
  <2>1. /\ sessions' = [sessions EXCEPT ![k].revoked = now] /\ UNCHANGED <<now, links, req>>
    BY <1>7 DEF Logout
  <2>2. LinkTypes'
    BY <1>t, <2>1 DEF LinkTypes, Session
  <2>3. \A m \in Sessions : sessions'[m].origin = sessions[m].origin
                            /\ sessions'[m].user = sessions[m].user
    BY <1>t, <2>1 DEF LinkTypes, Session
  <2> QED BY <2>1, <2>2, <2>3, LinkFrame DEF Verifying, Used
<1>8. CASE CleanMagicLinks
  <2>1. /\ UNCHANGED <<now, sessions, req>>
        /\ \A l \in Links : \/ links'[l] = links[l]
                            \/ links[l].state = "row"
                               /\ links'[l] = [links[l] EXCEPT !.state = "deleted"]
        /\ links' \in [Links -> {links'[l] : l \in Links}]
    BY <1>8 DEF CleanMagicLinks
  <2>2. \A l \in Links : links'[l] \in Link /\ links'[l].email = links[l].email
                         /\ links'[l].consumed = links[l].consumed
                         /\ (links[l].state # "unissued" => links'[l].state # "unissued")
    <3> TAKE l \in Links
    <3>1. links[l] \in Link
      BY <1>t DEF LinkTypes
    <3>2. LET d == [links[l] EXCEPT !.state = "deleted"]
          IN  /\ d \in Link /\ d.email = links[l].email /\ d.consumed = links[l].consumed
              /\ d.state = "deleted"
      BY <3>1 DEF Link
    <3> QED BY <2>1, <3>1, <3>2
  <2>3. LinkTypes'
    BY <1>t, <2>1, <2>2 DEF LinkTypes
  <2> QED BY <2>1, <2>2, <2>3, LinkFrame DEF Verifying, Used
<1>9. CASE CleanSessions
  <2>1. /\ UNCHANGED <<now, links, req>>
        /\ \A k \in Sessions : \/ sessions'[k] = sessions[k]
                               \/ sessions'[k] = [sessions[k] EXCEPT !.state = "deleted"]
        /\ sessions' \in [Sessions -> {sessions'[k] : k \in Sessions}]
    BY <1>9 DEF CleanSessions
  <2>2. \A k \in Sessions : sessions'[k] \in Session /\ sessions'[k].origin = sessions[k].origin
                            /\ sessions'[k].user = sessions[k].user
    <3> TAKE k \in Sessions
    <3>1. sessions[k] \in Session
      BY <1>t DEF LinkTypes
    <3>2. LET d == [sessions[k] EXCEPT !.state = "deleted"]
          IN  d \in Session /\ d.origin = sessions[k].origin /\ d.user = sessions[k].user
      BY <3>1 DEF Session
    <3> QED BY <2>1, <3>1, <3>2
  <2>3. LinkTypes'
    BY <1>t, <2>1, <2>2 DEF LinkTypes
  <2> QED BY <2>1, <2>2, <2>3, LinkFrame DEF Verifying, Used
<1>10. CASE Tick
  <2>1. now' = now + 1 /\ UNCHANGED <<links, sessions, req>>
    BY <1>10 DEF Tick
  <2>2. LinkTypes'
    BY <1>t, <2>1 DEF LinkTypes
  <2> QED BY <2>1, <2>2, LinkFrame DEF Verifying, Used
<1>11. CASE UNCHANGED <<now, links, sessions, req>>
  BY <1>11, <1>t, LinkFrame DEF Verifying, Used, LinkTypes
<1>12. ASSUME NEW k \in Sessions, NEW t \in Tokens, CreateAPIToken(k, t) \/ RevokeAPIToken(k, t)
       PROVE LinkInv'
  BY <1>12, <1>11 DEF CreateAPIToken, RevokeAPIToken
<1>13. ASSUME NEW e \in Emails, Invite(e) \/ Deactivate(e) \/ ChangeMembership(e)
       PROVE LinkInv'
  BY <1>13, <1>11 DEF Invite, Deactivate, ChangeMembership
<1>14. CASE Run \/ CleanupFails \/ UNCHANGED vars
  BY <1>14, <1>11 DEF Run, CleanupFails, vars
<1> QED
  BY <1>1, <1>2, <1>3, <1>4, <1>5, <1>6, <1>7, <1>8, <1>9, <1>10, <1>12, <1>13, <1>14 DEF Next

\* However many requests follow a link at once, it opens one session at most,
\* and only its addressee's (ConsumeMagicLink's "for update").
THEOREM LinkUsedOnce == Spec => []LinkOpensOneSession
<1>1. LinkInv => LinkOpensOneSession
  BY DEF LinkInv
<1> QED BY <1>1, LinkInit, LinkStep, PTL DEF Spec

-----------------------------------------------------------------------------
(* The first account.                                                      *)

\* Who is about to become the owner found an empty table, which at most the
\* same address has come into since: an invitation takes an account to make.
OwnerInv ==
  /\ active \subseteq users
  /\ req \in [Requests -> Request]
  /\ \A r \in Requests :
       /\ req[r].step # "signup"
       /\ req[r].step = "owner" => req[r].email = Bootstrap /\ (users = {} \/ Bootstrap \in users)

LEMMA OwnerInit == Init => OwnerInv
BY SignInAssumption DEF Init, OwnerInv, Request, Idle

\* What a step may do to the table and to requests.
LEMMA OwnerFrame ==
  ASSUME OwnerInv, active' \subseteq users', req' \in [Requests -> Request],
         users \subseteq users', users' # {} => users # {} \/ Bootstrap \in users',
         \A r \in Requests :
           \/ req'[r] = req[r]
           \/ req'[r].step \notin {"signup", "owner"}
           \/ req'[r].step = "owner" /\ req'[r].email = Bootstrap /\ users = {} /\ users' = users
  PROVE  OwnerInv'
BY DEF OwnerInv

LEMMA OwnerMoves ==
  ASSUME OwnerInv, NEW r \in Requests, NEW q \in Request, Becomes(r, q), q.step \notin {"signup", "owner"},
         users \subseteq users', active' \subseteq users', users' # {} => users # {} \/ Bootstrap \in users'
  PROVE  OwnerInv'
<1>1. req' \in [Requests -> Request] /\ req'[r] = q /\ \A x \in Requests \ {r} : req'[x] = req[x]
  BY DEF OwnerInv, Becomes
<1> QED
  BY <1>1, OwnerFrame

LEMMA OwnerStep ==
  ASSUME ~AllowSignup, LinkInv, OwnerInv, [Next]_vars
  PROVE  OwnerInv' /\ (Bootstrap \in users' \ users => users = {} \/ Bootstrap \in invited')
<1> DEFINE Goal == OwnerInv' /\ (Bootstrap \in users' \ users => users = {} \/ Bootstrap \in invited')
<1>t. active \subseteq users /\ req \in [Requests -> Request]
  BY DEF OwnerInv
<1>i. Idle \in Request /\ Idle.step = "idle"
  BY DEF Idle, Request
<1>s. ASSUME NEW r \in Requests, NEW step \in {"link", "session", "owner"}
      PROVE  LET q == [req[r] EXCEPT !.step = step]
             IN q \in Request /\ q.step = step /\ q.email = req[r].email
  BY <1>t DEF Request
<1>1. ASSUME NEW r \in Requests, NEW e \in Emails, NEW signup \in BOOLEAN, RequestMagicLink(r, e, signup)
      PROVE  Goal
  <2> DEFINE step == IF e \in active THEN "link" ELSE "hasUsers"
             q == [Idle EXCEPT !.email = e, !.step = step]
  <2>1. Becomes(r, q) /\ UNCHANGED <<users, active>>
    BY <1>1 DEF RequestMagicLink
  <2>2. q \in Request /\ q.step \notin {"signup", "owner"}
    BY DEF Idle, Request
  <2> HIDE DEF q
  <2> QED
    BY <1>t, <2>1, <2>2, OwnerMoves
<1>2. ASSUME NEW r \in Requests, HasUsers(r) PROVE Goal
  <2>1. UNCHANGED <<users, active>>
    BY <1>2 DEF HasUsers
  <2>2. CASE Becomes(r, Idle)
    BY <1>t, <1>i, <2>1, <2>2, OwnerMoves
  <2>3. CASE users = {} /\ req[r].email = Bootstrap /\ Goes(r, "owner")
    <3>1. PICK q \in Request : q = [req[r] EXCEPT !.step = "owner"] /\ q.step = "owner" /\ q.email = Bootstrap
      BY <1>s, <2>3
    <3>2. /\ req' \in [Requests -> Request] /\ req'[r] = q
          /\ \A x \in Requests \ {r} : req'[x] = req[x]
      BY <1>t, <2>3, <3>1 DEF Goes, Becomes
    <3> QED
      BY <1>t, <2>1, <2>3, <3>1, <3>2, OwnerFrame
  <2> QED
    BY <1>2, <2>2, <2>3 DEF HasUsers
<1>3. ASSUME NEW r \in Requests, CreateUser(r) PROVE Goal
  <2>1. req[r].email = Bootstrap /\ (users = {} \/ Bootstrap \in users)
    BY <1>3 DEF CreateUser, OwnerInv
  <2>2. CASE Becomes(r, Idle) /\ UNCHANGED <<users, active>>
    BY <1>t, <1>i, <2>2, OwnerMoves
  <2>3. CASE /\ Bootstrap \notin users /\ Goes(r, "link")
             /\ users' = users \cup {Bootstrap} /\ active' = active \cup {Bootstrap}
    <3>1. PICK q \in Request : q = [req[r] EXCEPT !.step = "link"] /\ q.step = "link"
      BY <1>s
    <3>2. OwnerInv'
      BY <1>t, <2>3, <3>1, OwnerMoves DEF Goes
    <3> QED
      BY <2>1, <2>3, <3>2
  <2> QED
    BY <1>3, <2>1, <2>2, <2>3 DEF CreateUser
<1>4. ASSUME NEW r \in Requests, SendMagicLink(r) \/ Abandon(r) \/ ActiveUserByEmail(r) PROVE Goal
  <2>1. UNCHANGED <<users, active>> /\ (Becomes(r, Idle) \/ Goes(r, "session"))
    BY <1>4 DEF SendMagicLink, Abandon, ActiveUserByEmail
  <2>2. CASE Becomes(r, Idle)
    BY <1>t, <1>i, <2>1, <2>2, OwnerMoves
  <2>3. CASE Goes(r, "session")
    <3>1. PICK q \in Request : q = [req[r] EXCEPT !.step = "session"] /\ q.step = "session"
      BY <1>s
    <3> QED
      BY <1>t, <2>1, <2>3, <3>1, OwnerMoves DEF Goes
  <2> QED
    BY <2>1, <2>2, <2>3
<1>5. ASSUME NEW r \in Requests, NEW l \in Links, CreateMagicLink(r, l) PROVE Goal
  <2> DEFINE q == [req[r] EXCEPT !.step = "send", !.link = l]
  <2>1. q \in Request /\ q.step = "send"
    BY <1>t DEF Request
  <2>2. Becomes(r, q) /\ UNCHANGED <<users, active>>
    BY <1>5 DEF CreateMagicLink
  <2> HIDE DEF q
  <2> QED
    BY <1>t, <2>1, <2>2, OwnerMoves
<1>6. ASSUME NEW r \in Requests, NEW k \in Sessions, CreateSession(r, k) PROVE Goal
  <2>1. Becomes(r, Idle) /\ UNCHANGED <<users, active>>
    BY <1>6 DEF CreateSession
  <2> QED
    BY <1>t, <1>i, <2>1, OwnerMoves
<1>7. ASSUME NEW e \in Emails, Invite(e) PROVE Goal
  <2>1. /\ users' = users \cup {e} /\ active' = active \cup {e} /\ UNCHANGED req
        /\ active # {} /\ invited' = invited \cup {e}
    BY <1>7 DEF Invite
  <2>2. OwnerInv'
    BY <1>t, <2>1, OwnerFrame
  <2> QED
    BY <2>1, <2>2
<1>8. ASSUME NEW e \in Emails, Deactivate(e) PROVE Goal
  <2>1. active' \subseteq active /\ UNCHANGED <<users, req>>
    BY <1>8 DEF Deactivate
  <2> QED
    BY <1>t, <2>1, OwnerFrame
<1>9. CASE UNCHANGED <<users, active, req>>
  BY <1>t, <1>9, OwnerFrame
<1>10. ASSUME NEW k \in Sessions, NEW t \in Tokens, CreateAPIToken(k, t) \/ RevokeAPIToken(k, t)
       PROVE  Goal
  BY <1>9, <1>10 DEF CreateAPIToken, RevokeAPIToken
<1>11. ASSUME NEW k \in Sessions, Logout(k) PROVE Goal
  BY <1>9, <1>11 DEF Logout
<1>12. ASSUME NEW e \in Emails, ChangeMembership(e) PROVE Goal
  BY <1>9, <1>12 DEF ChangeMembership
<1>13. CASE Run \/ CleanMagicLinks \/ CleanSessions \/ CleanupFails \/ Tick \/ UNCHANGED vars
  BY <1>9, <1>13 DEF Run, CleanMagicLinks, CleanSessions, CleanupFails, Tick, vars
\* A link is consumed by a request that goes on to verify it.
<1>14. ASSUME NEW r \in Requests, NEW l \in Links, ConsumeMagicLink(r, l) PROVE Goal
  <2> DEFINE q == [step |-> "find", email |-> links[l].email, link |-> l]
  <2>1. req' = [req EXCEPT ![r] = q] /\ UNCHANGED <<users, active>>
    BY <1>14 DEF ConsumeMagicLink, Becomes
  <2>2. q \in Request /\ q.step = "find"
    BY DEF LinkInv, LinkTypes, Link, Request
  <2> HIDE DEF q
  <2> QED
    BY <1>t, <2>1, <2>2, OwnerMoves DEF Becomes
<1> QED
  BY <1>1, <1>2, <1>3, <1>4, <1>5, <1>6, <1>7, <1>8, <1>10, <1>11, <1>12, <1>13, <1>14 DEF Next

\* While signing up is closed, the bootstrap address comes into the users table
\* of an empty installation or by invitation (ensureCanLogin).
THEOREM OwnerFirst ==
  ASSUME ~AllowSignup
  PROVE  Spec => BootstrapFirst
<1>1. Init => LinkInv /\ OwnerInv
  BY LinkInit, OwnerInit
<1>2. LinkInv /\ OwnerInv /\ [Next]_vars => (LinkInv /\ OwnerInv)'
  BY LinkStep, OwnerStep
<1>3. LinkInv /\ OwnerInv /\ [Next]_vars =>
        [(Bootstrap \in users' \ users) => users = {} \/ Bootstrap \in invited']_vars
  BY OwnerStep
<1> QED
  BY <1>1, <1>2, <1>3, PTL DEF Spec, BootstrapFirst

-----------------------------------------------------------------------------
(* The clean-up.                                                           *)

\* The time the housekeeper works with is not ahead of the clock.
CleanupInv ==
  /\ cleanup \in [step : {"idle", "links", "sessions"}, at : Nat]
  /\ cleanup.at <= now

LEMMA CleanupInit == Init => CleanupInv
BY DEF Init, CleanupInv

LEMMA CleanupStep == LinkInv /\ CleanupInv /\ [Next]_vars => CleanupInv'
<1> SUFFICES ASSUME LinkInv, CleanupInv, [Next]_vars PROVE CleanupInv'
  OBVIOUS
<1>1. now \in Nat /\ now' \in {now, now + 1}
  <2>1. now' = now \/ now' = now + 1
    BY DEF Next, vars, RequestMagicLink, HasUsers, CreateUser, SendMagicLink, ActiveUserByEmail, Abandon,
           CreateMagicLink, ConsumeMagicLink, CreateSession, Logout, CreateAPIToken, RevokeAPIToken,
           Run, CleanMagicLinks, CleanSessions, CleanupFails, Tick, Invite, Deactivate, ChangeMembership
  <2> QED
    BY <2>1 DEF LinkInv, LinkTypes
<1>2. \/ UNCHANGED cleanup
      \/ cleanup' = [step |-> "links", at |-> now]
      \/ cleanup' = [cleanup EXCEPT !.step = "sessions"]
      \/ cleanup' = [step |-> "idle", at |-> 0]
  BY DEF Next, vars, RequestMagicLink, HasUsers, CreateUser, SendMagicLink, ActiveUserByEmail, Abandon,
         CreateMagicLink, ConsumeMagicLink, CreateSession, Logout, CreateAPIToken, RevokeAPIToken,
         Run, CleanMagicLinks, CleanSessions, CleanupFails, Tick, Invite, Deactivate, ChangeMembership
<1> QED
  BY <1>1, <1>2 DEF CleanupInv

\* A step that deletes a link deletes one that no longer works.
LEMMA LinkSpared ==
  ASSUME LinkInv, CleanupInv, [Next]_vars, NEW l \in Links, LiveLink(l)
  PROVE  links'[l].state = "row"
<1>t. links \in [Links -> Link] /\ links[l] \in Link /\ links[l].state = "row" /\ links[l].consumed = 0
      /\ links[l].expires > now /\ now \in Nat /\ cleanup.at \in Nat /\ cleanup.at <= now
  BY DEF LinkInv, LinkTypes, LiveLink, CleanupInv
<1>1. CASE UNCHANGED links
  BY <1>t, <1>1
<1>2. ASSUME NEW r \in Requests, NEW x \in Links, CreateMagicLink(r, x) PROVE links'[l].state = "row"
  BY <1>t, <1>2 DEF CreateMagicLink
<1>3. ASSUME NEW r \in Requests, NEW x \in Links, ConsumeMagicLink(r, x) PROVE links'[l].state = "row"
  <2>1. links' = [links EXCEPT ![x].consumed = now]
    BY <1>3 DEF ConsumeMagicLink
  <2> QED
    BY <1>t, <2>1 DEF Link
<1>4. CASE CleanMagicLinks
  <2>1. ~(links[l].consumed # 0 \/ links[l].expires <= cleanup.at)
    BY <1>t DEF Link
  <2> QED
    BY <1>t, <1>4, <2>1 DEF CleanMagicLinks
<1>5. \/ UNCHANGED links \/ CleanMagicLinks
      \/ \E r \in Requests, x \in Links : CreateMagicLink(r, x) \/ ConsumeMagicLink(r, x)
  BY DEF Next, vars, RequestMagicLink, HasUsers, CreateUser, SendMagicLink, ActiveUserByEmail, Abandon,
         CreateSession, Logout, CreateAPIToken, RevokeAPIToken,
         Run, CleanSessions, CleanupFails, Tick, Invite, Deactivate, ChangeMembership
<1> QED
  BY <1>1, <1>2, <1>3, <1>4, <1>5

\* A step that deletes a session deletes one that has expired, or whose
\* revocation is as old as the retention.
LEMMA SessionSpared ==
  ASSUME LinkInv, CleanupInv, [Next]_vars, NEW k \in Sessions,
         sessions[k].state = "row", sessions[k].expires > now,
         sessions[k].revoked = 0 \/ sessions[k].revoked + Retention > now
  PROVE  sessions'[k].state = "row"
<1>t. sessions \in [Sessions -> Session] /\ sessions[k] \in Session
      /\ now \in Nat /\ cleanup.at \in Nat /\ cleanup.at <= now /\ Retention \in Nat
  BY SignInAssumption DEF LinkInv, LinkTypes, CleanupInv
<1>1. CASE UNCHANGED sessions
  BY <1>1
<1>2. ASSUME NEW r \in Requests, NEW x \in Sessions, CreateSession(r, x) PROVE sessions'[k].state = "row"
  BY <1>t, <1>2 DEF CreateSession
<1>3. ASSUME NEW x \in Sessions, Logout(x) PROVE sessions'[k].state = "row"
  <2>1. sessions' = [sessions EXCEPT ![x].revoked = now]
    BY <1>3 DEF Logout
  <2> QED
    BY <1>t, <2>1 DEF Session
<1>4. CASE CleanSessions
  <2>1. ~Stale(k)
    BY <1>t DEF Session, Stale
  <2> QED
    BY <1>4, <2>1 DEF CleanSessions
<1>5. \/ UNCHANGED sessions \/ CleanSessions
      \/ \E r \in Requests, x \in Sessions : CreateSession(r, x)
      \/ \E x \in Sessions : Logout(x)
  BY DEF Next, vars, RequestMagicLink, HasUsers, CreateUser, SendMagicLink, ActiveUserByEmail, Abandon,
         CreateMagicLink, ConsumeMagicLink, CreateAPIToken, RevokeAPIToken,
         Run, CleanMagicLinks, CleanupFails, Tick, Invite, Deactivate, ChangeMembership
<1> QED
  BY <1>1, <1>2, <1>3, <1>4, <1>5

\* The clean-up, which works with the time it read at its start, takes away no
\* link or session that still works, and no session revoked too recently.
THEOREM CleanupSparesLive == Spec => HousekeepingSparesLive
<1> DEFINE A == /\ \A l \in Links : LiveLink(l) => links'[l].state = "row"
                /\ \A k \in Sessions :
                     (/\ sessions[k].state = "row" /\ sessions[k].expires > now
                      /\ sessions[k].revoked = 0 \/ sessions[k].revoked + Retention > now)
                     => sessions'[k].state = "row"
<1>1. Init => LinkInv /\ CleanupInv
  BY LinkInit, CleanupInit
<1>2. LinkInv /\ CleanupInv /\ [Next]_vars => (LinkInv /\ CleanupInv)'
  BY LinkStep, CleanupStep
<1>3. LinkInv /\ CleanupInv /\ [Next]_vars => [A]_vars
  BY LinkSpared, SessionSpared
<1> QED
  BY <1>1, <1>2, <1>3, PTL DEF Spec, HousekeepingSparesLive
=============================================================================
