----------------------------- MODULE Suggestions -----------------------------
(***************************************************************************)
(* From mail to suggestion to contact: processFetchedMessage of the email  *)
(* sync (internal/usecase/email.go) and SuggestionService                  *)
(* (internal/usecase/suggestions.go) over the statements of                *)
(* internal/adapters/postgres (ai_email.go, crm.go, tx.go).                *)
(*                                                                         *)
(* Each unit of work (WithinTx) is a worker: the background sync, a sync   *)
(* asked for over HTTP, a user's request.  It reads committed rows, its    *)
(* own writes wait in its record until Commit, and a failure before that   *)
(* drops them.  CreateActivity and AddPersonEmail open a transaction of    *)
(* their own and commit at once, inside the unit of work or not.           *)
(*                                                                         *)
(* People and companies are both entities found by an identifier, an       *)
(* address or a domain; Kind tells which.  Bodies, names, touch dates and  *)
(* the person-company link are left out.                                   *)
(***************************************************************************)
EXTENDS Naturals, Sequences, FiniteSets, SequencesExt

CONSTANTS
  Addresses,     \* correspondents' addresses
  Domains,       \* their domains that are not personal mail providers
  DomainOf,      \* DomainOf[a] \in Domains, or None for a personal one
  Messages,      \* Message-IDs
  Sender,        \* Sender[m] \in Addresses, or None for the account's own
  Recipients,    \* Recipients[m]: the other addresses in To
  SentAt,        \* SentAt[m]: when it was sent
  HistoryLimit,  \* messages that a listing of old mail returns, 200
  Entities,      \* ids of people and companies
  Known,         \* entities there from the start, with their identifier
  Deals,
  DealPeople,    \* deal_people, as <<deal, person>>
  Workers,
  RLSEnforced,
  Faults,        \* a statement may fail, the process may stop
  MaxActivities, \* bound on activities
  MaxRequests    \* bound on users' requests

None == "none"
Targets == Addresses \cup Domains
Kind(t) == IF t \in Addresses THEN "new_contact" ELSE "new_company"

ASSUME SuggestionsAssumption ==
  /\ None \notin Addresses \cup Domains \cup Messages \cup Entities \cup Deals
  /\ Addresses \cap Domains = {}
  /\ DomainOf \in [Addresses -> Domains \cup {None}]
  /\ Sender \in [Messages -> Addresses \cup {None}]
  /\ Recipients \in [Messages -> SUBSET Addresses]
  /\ SentAt \in [Messages -> Nat] /\ HistoryLimit \in Nat \ {0}
  /\ DOMAIN Known \subseteq Entities /\ \A e \in DOMAIN Known : Known[e] \in Targets
  /\ \A e, f \in DOMAIN Known : Known[e] = Known[f] => e = f
  /\ DealPeople \subseteq Deals \X Entities /\ IsFiniteSet(Deals)
  /\ RLSEnforced \in BOOLEAN /\ Faults \in BOOLEAN /\ MaxActivities \in Nat
  /\ MaxRequests \in Nat

VARIABLES
  stored,       \* email_messages
  activityOf,   \* email_messages.activity_id
  activities,   \* activities with their activity_links; the index is the id
  prompts,      \* ai_prompts; the index is the id
  suppressed,   \* suggestion_suppressions, as <<kind, target>>
  primary,      \* people.email, companies.domain
  extra,        \* person_emails, company_domains, as <<entity, identifier>>
  work,         \* the units of work in flight
  requests,     \* how many users have made, for the bound
  overtaken,    \* history: what was suppressed or suggested while each was in flight
  overlooked    \* history: messages that no unit of work answers for alone

vars == <<stored, activityOf, activities, prompts, suppressed, primary, extra, work,
          requests, overtaken, overlooked>>

Suggest(t) == [kind |-> Kind(t), target |-> t, deal |-> None, status |-> "open"]
SuggestDeal(d, a) ==
  [kind |-> "email_deal_link", target |-> a, deal |-> d, status |-> "open"]

(***************************************************************************)
(* A unit of work: its next step, what it is about, what it has read (the  *)
(* senders still to screen, the historical mail still to link, with the    *)
(* activity_id the listing returned) and what it will commit.              *)
(***************************************************************************)
NoWork == [step |-> "idle", msg |-> None, prompt |-> 0, entity |-> None,
           screen |-> <<>>, history |-> {},
           create |-> None, link |-> {}, attach |-> {}, suggest |-> <<>>]

Becomes(w, t) == work' = [work EXCEPT ![w] = t]

Counted == requests < MaxRequests /\ requests' = requests + 1

\* FindPersonByEmail and FindCompanyByDomain: the first column or the second.
Owners(t) == {e \in Entities : primary[e] = t \/ <<e, t>> \in extra}

\* AIPromptExists, by the title made from kind and target, among open ones.
OpenPrompt(kind, t) ==
  \E p \in DOMAIN prompts : /\ prompts[p].kind = kind /\ prompts[p].target = t
                            /\ prompts[p].status = "open"
OpenDealPrompt(d) ==
  \E p \in DOMAIN prompts : prompts[p].deal = d /\ prompts[p].status = "open"

\* Mutated form: the sender is forgotten.
MrelevantEmails(m) == Recipients[m] \ {None}

\* relevantEmails: sender and recipients without the account's own address.
relevantEmails(m) == ({Sender[m]} \cup Recipients[m]) \ {None}

\* What is open, as <<kind, target>>.
Opened == {<<prompts[p].kind, prompts[p].target>> :
             p \in {q \in DOMAIN prompts : prompts[q].status = "open"}}

\* A unit of work that stores a message, or gives an address that the message
\* is from or to, to somebody.
About(t, m) ==
  \/ t.msg = m
  \/ /\ t.step = "create" \/ t.entity # None
     /\ prompts[t.prompt].target \in relevantEmails(m)

\* What the history variables note of a step: what it suppresses or suggests
\* overtakes the units of work that have a message in hand; a message is
\* overlooked that the step leaves aside, or that two units of work are about.
Note(aside) ==
  /\ overtaken' = [w \in Workers |->
                     IF work'[w].msg = None THEN {}
                     ELSE overtaken[w] \cup (suppressed' \ suppressed) \cup (Opened' \ Opened)]
  /\ overlooked' = overlooked \cup aside \cup
                     {m \in Messages : \E v, w \in Workers :
                        v # w /\ About(work[v], m)' /\ About(work[w], m)'}

-----------------------------------------------------------------------------
Init ==
  /\ stored = {}
  /\ activityOf = [m \in Messages |-> 0]
  /\ activities = <<>>
  /\ prompts = <<>>
  /\ suppressed = {}
  /\ primary = [e \in Entities |-> IF e \in DOMAIN Known THEN Known[e] ELSE None]
  /\ extra = {}
  /\ work = [w \in Workers |-> NoWork]
  /\ requests = 0
  /\ overtaken = [w \in Workers |-> {}]
  /\ overlooked = {}

-----------------------------------------------------------------------------
(* processFetchedMessage.                                                  *)

\* suggestEntitiesFromMessage looks at the sender, unless it is the account
\* itself, and then at the sender's domain, unless it is a personal one.
Screening(m) ==
  IF Sender[m] = None THEN <<>>
  ELSE IF DomainOf[Sender[m]] = None THEN <<Sender[m]>>
  ELSE <<Sender[m], DomainOf[Sender[m]]>>

\* insert ... on conflict do nothing: a message that is stored is skipped, one
\* that another unit of work is inserting makes this one wait.
UpsertEmailMessage(w, m) ==
  /\ work[w] = NoWork
  /\ m \notin stored
  /\ \A v \in Workers : work[v].msg # m
  /\ Becomes(w, [NoWork EXCEPT !.step = "match", !.msg = m, !.screen = Screening(m)])
  /\ UNCHANGED <<stored, activityOf, activities, prompts, suppressed, primary, extra, requests>>
  /\ Note({})

\* linkEmailToTimeline: one activity for the people found, if any, committed
\* by CreateActivity; the message is to point to it.  An address that two
\* people have finds either.
linkEmailToTimeline(w) ==
  LET t == work[w]
      known == {a \in relevantEmails(t.msg) : Owners(a) # {}}
      id == Len(activities) + 1
  IN  /\ t.step = "match"
      /\ \/ /\ known = {}
            /\ Becomes(w, [t EXCEPT !.step = "screen"])
            /\ UNCHANGED activities
         \/ /\ known # {}
            /\ Len(activities) < MaxActivities
            /\ \E found \in [known -> Entities] :
                 /\ \A a \in known : found[a] \in Owners(a)
                 /\ activities' = Append(activities,
                                         [msg |-> t.msg, links |-> {found[a] : a \in known}])
            /\ Becomes(w, [t EXCEPT !.step = "deals", !.attach = {<<t.msg, id>>}])
      /\ UNCHANGED <<stored, activityOf, prompts, suppressed, primary, extra, requests>>
      /\ Note({})

\* suggestDealLinks: a suggestion for every deal of the people found that has
\* no open one.
suggestDealLinks(w) ==
  LET t == work[w]
      id == (CHOOSE x \in t.attach : TRUE)[2]
      deals == {d \in Deals : /\ \E e \in activities[id].links : <<d, e>> \in DealPeople
                              /\ ~OpenDealPrompt(d)}
  IN  /\ t.step = "deals"
      /\ Becomes(w, [t EXCEPT !.step = "screen",
                              !.suggest = SetToSeq({SuggestDeal(d, id) : d \in deals})])
      /\ UNCHANGED <<stored, activityOf, activities, prompts, suppressed, primary, extra, requests>>
      /\ Note({})

\* Mutated form: suppressions are not looked at.
MScreenAsks(w) ==
  LET t == work[w]
      s == Head(t.screen)
  IN  /\ t.step = "screen"
      /\ Becomes(w,
           IF t.screen = <<>> THEN [t EXCEPT !.step = "commit"]
           ELSE IF Owners(s) # {} THEN [t EXCEPT !.screen = Tail(@)]
           ELSE [t EXCEPT !.step = "exists"])
      /\ UNCHANGED <<stored, activityOf, activities, prompts, suppressed, primary, extra, requests>>
      /\ Note({})

\* suggestEntitiesFromMessage, FindPersonByEmail and IsSuggestionSuppressed:
\* a known sender is passed over, a suppressed one ends the screening.
ScreenSender(w) ==
  LET t == work[w]
      s == Head(t.screen)
  IN  /\ t.step = "screen"
      /\ Becomes(w,
           IF t.screen = <<>> THEN [t EXCEPT !.step = "commit"]
           ELSE IF Owners(s) # {} THEN [t EXCEPT !.screen = Tail(@)]
           ELSE IF <<Kind(s), s>> \in suppressed THEN [t EXCEPT !.step = "commit"]
           ELSE [t EXCEPT !.step = "exists"])
      /\ UNCHANGED <<stored, activityOf, activities, prompts, suppressed, primary, extra, requests>>
      /\ Note({})

\* Mutated form: the test for an open suggestion is inverted.
MSuggestSender(w) ==
  LET t == work[w]
      s == Head(t.screen)
  IN  /\ t.step = "exists"
      /\ Becomes(w, [t EXCEPT !.step = "screen", !.screen = Tail(@),
                              !.suggest = IF ~OpenPrompt(Kind(s), s) THEN @
                                          ELSE Append(@, Suggest(s))])
      /\ UNCHANGED <<stored, activityOf, activities, prompts, suppressed, primary, extra, requests>>
      /\ Note({})

\* Mutated form: AIPromptExists is not asked.
MSuggestAlways(w) ==
  LET t == work[w]
  IN  /\ t.step = "exists"
      /\ Becomes(w, [t EXCEPT !.step = "screen", !.screen = Tail(@),
                              !.suggest = Append(@, Suggest(Head(t.screen)))])
      /\ UNCHANGED <<stored, activityOf, activities, prompts, suppressed, primary, extra, requests>>
      /\ Note({})

\* suggestEntitiesFromMessage, AIPromptExists and CreateAIPrompt.
SuggestSender(w) ==
  LET t == work[w]
      s == Head(t.screen)
  IN  /\ t.step = "exists"
      /\ Becomes(w, [t EXCEPT !.step = "screen", !.screen = Tail(@),
                              !.suggest = IF OpenPrompt(Kind(s), s) THEN @
                                          ELSE Append(@, Suggest(s))])
      /\ UNCHANGED <<stored, activityOf, activities, prompts, suppressed, primary, extra, requests>>
      /\ Note({})

-----------------------------------------------------------------------------
(* Resolving suggestions.                                                  *)

\* acceptPrompt reads the suggestion, which must be open, and looks for the
\* entity; a deal link goes straight to its one statement.
AcceptPrompt(w, p) ==
  LET s == prompts[p]
  IN  /\ work[w] = NoWork
      /\ Counted
      /\ s.status = "open"
      /\ Becomes(w,
           IF s.kind = "email_deal_link"
             THEN [NoWork EXCEPT !.step = "commit", !.prompt = p,
                                 !.link = {<<s.target, s.deal>>}]
           ELSE [NoWork EXCEPT !.step = IF Owners(s.target) = {} THEN "create" ELSE "commit",
                               !.prompt = p])
      /\ UNCHANGED <<stored, activityOf, activities, prompts, suppressed, primary, extra>>
      /\ Note({})

\* Mutated form: no unique index on the address or domain.
MIdentifierFree(t) == TRUE

\* people_organization_email_unique, companies_organization_domain_unique.
IdentifierFree(t) == \A e \in Entities : primary[e] # t

\* CreatePerson or CreateCompany.  A row another unit of work is inserting
\* with the same identifier makes this one wait, and fails it if it commits.
CreateEntity(w, e) ==
  LET t == work[w]
      s == prompts[t.prompt]
  IN  /\ t.step = "create"
      /\ primary[e] = None
      /\ \A v \in Workers : work[v].create # None =>
           work[v].entity # e /\ work[v].create # s.target
      /\ IF IdentifierFree(s.target)
           THEN Becomes(w, [t EXCEPT !.entity = e, !.create = s.target,
                                     !.step = IF s.kind = "new_contact" THEN "list"
                                              ELSE "commit"])
           ELSE Becomes(w, NoWork)
      /\ UNCHANGED <<stored, activityOf, activities, prompts, suppressed, primary, extra, requests>>
      /\ Note({})

\* linkSuggestionToPerson does not look at the status.  AddPersonEmail
\* commits the address at once; another person's address is an error.
LinkSuggestionToPerson(w, p, e) ==
  LET s == prompts[p]
  IN  /\ work[w] = NoWork
      /\ Counted
      /\ s.kind = "new_contact"
      /\ primary[e] \in Addresses
      /\ \A f \in Entities \ {e} : <<f, s.target>> \notin extra
      /\ extra' = extra \cup {<<e, s.target>>}
      /\ Becomes(w, [NoWork EXCEPT !.step = "list", !.prompt = p, !.entity = e])
      /\ UNCHANGED <<stored, activityOf, activities, prompts, suppressed, primary>>
      /\ Note({})

\* linkSuggestionToCompany: everything in one transaction.
LinkSuggestionToCompany(w, p, e) ==
  LET s == prompts[p]
  IN  /\ work[w] = NoWork
      /\ Counted
      /\ s.kind = "new_company"
      /\ primary[e] \in Domains
      /\ \A f \in Entities \ {e} : <<f, s.target>> \notin extra
      /\ extra' = extra \cup {<<e, s.target>>}
      /\ prompts' = [prompts EXCEPT ![p].status = "accepted"]
      /\ UNCHANGED <<stored, activityOf, activities, suppressed, primary, work>>
      /\ Note({})

\* The mail from or to an address.
MailOf(a) == {m \in stored : a \in relevantEmails(m)}

\* ListEmailMessagesForAddress, order by sent_at desc limit 200: the newest, in
\* any order those sent at one time.
Newest(l, mail) ==
  /\ Cardinality(l) <= HistoryLimit
  /\ l # mail => Cardinality(l) = HistoryLimit
  /\ \A x \in l, y \in mail \ l : SentAt[y] <= SentAt[x]

\* linkHistoricalEmails lists the mail of the address ...
ListHistory(w) ==
  LET t == work[w]
      mail == MailOf(prompts[t.prompt].target)
  IN  /\ t.step = "list"
      /\ \E listed \in SUBSET mail :
           /\ Newest(listed, mail)
           /\ Becomes(w, [t EXCEPT !.step = "history",
                                   !.history = {<<m, activityOf[m]>> : m \in listed}])
           /\ UNCHANGED <<stored, activityOf, activities, prompts, suppressed, primary, extra,
                          requests>>
           /\ Note(mail \ listed)

\* activity_links_org_insert (migration 030) wants the person to be visible
\* to the transaction of CreateActivity, which a person that is being created
\* is not.
EntityVisible(t) == RLSEnforced => t.create = None

\* ... and links each message's activity, or makes one with CreateActivity.
LinkHistoricalEmail(w) ==
  LET t == work[w]
      id == Len(activities) + 1
  IN  /\ t.step = "history"
      /\ \/ /\ t.history = {}
            /\ Becomes(w, [t EXCEPT !.step = "commit"])
            /\ UNCHANGED activities
         \/ \E h \in t.history :
              /\ h[2] # 0
              /\ Becomes(w, [t EXCEPT !.history = @ \ {h}, !.link = @ \cup {<<h[2], t.entity>>}])
              /\ UNCHANGED activities
         \/ \E h \in t.history :
              /\ h[2] = 0
              /\ Len(activities) < MaxActivities
              /\ IF EntityVisible(t)
                   THEN /\ activities' = Append(activities,
                                                [msg |-> h[1], links |-> {t.entity}])
                        /\ Becomes(w, [t EXCEPT !.history = @ \ {h},
                                                !.attach = @ \cup {<<h[1], id>>}])
                   ELSE Becomes(w, NoWork) /\ UNCHANGED activities
      /\ UNCHANGED <<stored, activityOf, prompts, suppressed, primary, extra, requests>>
      /\ Note({})

\* ResolvePrompt: "Dismiss", and undoing it.
ResolvePrompt(w, p, status) ==
  /\ work[w] = NoWork
  /\ Counted
  /\ prompts' = [prompts EXCEPT ![p].status = status]
  /\ UNCHANGED <<stored, activityOf, activities, suppressed, primary, extra, work>>
  /\ Note({})

\* SuppressPrompt ("Never ask again") and UnsuppressPrompt: the suppression
\* and the status are two transactions.
SuppressPrompt(w, p) ==
  /\ work[w] = NoWork
  /\ Counted
  /\ suppressed' = suppressed \cup {<<prompts[p].kind, prompts[p].target>>}
  /\ Becomes(w, [NoWork EXCEPT !.step = "dismissed", !.prompt = p])
  /\ UNCHANGED <<stored, activityOf, activities, prompts, primary, extra>>
  /\ Note({})

UnsuppressPrompt(w, p) ==
  /\ work[w] = NoWork
  /\ Counted
  /\ suppressed' = suppressed \ {<<prompts[p].kind, prompts[p].target>>}
  /\ Becomes(w, [NoWork EXCEPT !.step = "open", !.prompt = p])
  /\ UNCHANGED <<stored, activityOf, activities, prompts, primary, extra>>
  /\ Note({})

ResolveSuppressed(w) ==
  /\ work[w].step \in {"dismissed", "open"}
  /\ prompts' = [prompts EXCEPT ![work[w].prompt].status = work[w].step]
  /\ Becomes(w, NoWork)
  /\ UNCHANGED <<stored, activityOf, activities, suppressed, primary, extra, requests>>
  /\ Note({})

-----------------------------------------------------------------------------
\* SetEmailMessageActivity: the first activity stays.
Attach(t) ==
  [m \in Messages |-> IF activityOf[m] = 0 /\ \E x \in t.attach : x[1] = m
                        THEN (CHOOSE x \in t.attach : x[1] = m)[2] ELSE activityOf[m]]

\* The last statement of a unit of work, ResolveAIPrompt if it is about a
\* suggestion, and its commit.
Commit(w) ==
  LET t == work[w]
  IN  /\ t.step = "commit"
      /\ stored' = IF t.msg = None THEN stored ELSE stored \cup {t.msg}
      /\ activityOf' = Attach(t)
      /\ activities' = [a \in DOMAIN activities |->
                          [activities[a] EXCEPT
                             !.links = @ \cup {x[2] : x \in {y \in t.link : y[1] = a}}]]
      /\ prompts' = [p \in DOMAIN prompts |->
                       IF p = t.prompt THEN [prompts[p] EXCEPT !.status = "accepted"]
                       ELSE prompts[p]] \o t.suggest
      /\ primary' = IF t.create = None THEN primary
                    ELSE [primary EXCEPT ![t.entity] = t.create]
      /\ Becomes(w, NoWork)
      /\ UNCHANGED <<suppressed, extra, requests>>
      /\ Note({})

\* A statement fails or the process stops: the deferred Rollback, or the
\* server's, drops what has not committed: not the address that
\* LinkSuggestionToPerson has added, whose mail is left aside.
Rollback(w) ==
  LET t == work[w]
  IN  /\ Faults
      /\ t # NoWork
      /\ Becomes(w, NoWork)
      /\ UNCHANGED <<stored, activityOf, activities, prompts, suppressed, primary, extra, requests>>
      /\ Note(IF t.entity # None /\ t.create = None THEN MailOf(prompts[t.prompt].target) ELSE {})

-----------------------------------------------------------------------------
Sync(w) ==
  \/ \E m \in Messages : UpsertEmailMessage(w, m)
  \/ linkEmailToTimeline(w)
  \/ suggestDealLinks(w)
  \/ ScreenSender(w)
  \/ SuggestSender(w)

Resolve(w) ==
  \/ \E p \in DOMAIN prompts : AcceptPrompt(w, p)
  \/ \E e \in Entities : CreateEntity(w, e)
  \/ \E p \in DOMAIN prompts, e \in Entities : LinkSuggestionToPerson(w, p, e)
  \/ ListHistory(w)
  \/ LinkHistoricalEmail(w)
  \/ \E p \in DOMAIN prompts, e \in Entities : LinkSuggestionToCompany(w, p, e)
  \/ \E p \in DOMAIN prompts, status \in {"accepted", "dismissed", "open"} :
       ResolvePrompt(w, p, status)
  \/ \E p \in DOMAIN prompts : SuppressPrompt(w, p)
  \/ \E p \in DOMAIN prompts : UnsuppressPrompt(w, p)
  \/ ResolveSuppressed(w)

Next ==
  \/ \E w \in Workers : Sync(w)
  \/ \E w \in Workers : Resolve(w)
  \/ \E w \in Workers : Commit(w)
  \/ \E w \in Workers : Rollback(w)

Spec == Init /\ [][Next]_vars

-----------------------------------------------------------------------------
(* Properties.                                                             *)

\* However many requests accept the suggestions for one address or domain at
\* once, one person or company has it as people.email or companies.domain; it
\* may be another one's additional address besides (crm.go:80).
OneEntityPerIdentifier ==
  \A e, f \in Entities : primary[e] # None /\ primary[e] = primary[f] => e = f

\* No stored message is forgotten: its sender is a known person or has had a
\* suggestion, whatever was suppressed, dismissed or accepted meanwhile.
SenderAccountedFor ==
  \A m \in stored : Sender[m] # None =>
    \/ Owners(Sender[m]) # {}
    \/ \E p \in DOMAIN prompts : prompts[p].target = Sender[m]

\* The unit of work whose commit this step is, with the suggestion p.
CommittedBy(w, p) ==
  work[w].step = "commit" /\ work'[w] = NoWork /\ p \in DOMAIN prompts' \ DOMAIN prompts

\* "Never ask again suppresses future suggestions for that email/domain": a
\* suggestion for a suppressed address or domain is made only by the sync of a
\* message that was in hand when it was suppressed (email.go:424).
NeverAskAgain ==
  [][\A w \in Workers, p \in DOMAIN prompts' :
       LET asked == <<prompts'[p].kind, prompts'[p].target>>
       IN  /\ CommittedBy(w, p)
           /\ asked[1] # "email_deal_link"
           /\ asked \in suppressed
           => asked \in overtaken[w]]_vars

\* "Unknown person should produce one person-first suggestion": none is made
\* while another one for the same address or domain is open, but by the sync of
\* a message that was in hand when that one was made or opened again.
OneOpenSuggestion ==
  [][\A w \in Workers, p \in DOMAIN prompts' :
       LET asked == <<prompts'[p].kind, prompts'[p].target>>
       IN  /\ CommittedBy(w, p)
           /\ asked[1] # "email_deal_link"
           /\ asked \in Opened
           => asked \in overtaken[w]]_vars

\* "Added UnitOfWork transaction boundary and applied it to ... email sync
\* message processing" (TODO.md:10): a message and its timeline entry are stored
\* together.  CreateActivity commits on its own (crm.go:352), so it fails.
TimelineOfStoredMail ==
  \A a \in DOMAIN activities :
    \/ activities[a].msg \in stored
    \/ \E w \in Workers : work[w].msg = activities[a].msg

\* "Link emails to people by address": once nothing is in flight, stored mail
\* from an address that people have is on the timeline of one of them, unless a
\* listing's limit or a failed "Link" has left it aside, or its sync and the
\* acceptance of one of its addresses were in flight at once (suggestions.go:293).
MailOnTimeline ==
  (\A w \in Workers : work[w] = NoWork)
  => \A m \in stored \ overlooked :
       (Sender[m] # None /\ Owners(Sender[m]) # {})
       => /\ activityOf[m] # 0
          /\ activities[activityOf[m]].links \cap Owners(Sender[m]) # {}
=============================================================================
