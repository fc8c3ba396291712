----------------------- MODULE SuggestionReviewProofs -----------------------
(***************************************************************************)
(* The list of a page shows the latest answer only, and once it has        *)
(* settled it is that of the chosen organization and filter.               *)
(* The page of suggestions is such a page, whatever its handlers do; what  *)
(* it shows as busy has a handler that releases it; and the undo it offers *)
(* is of something settled, and takes back the whole of it.                *)
(***************************************************************************)
EXTENDS SuggestionReview, FiniteSetTheorems, TLAPS

Choice == Orgs \cup {None, Former}

List == [req : Nat, loading : BOOLEAN, error : BOOLEAN, shown : Nat, org : Choice,
         filter : Filters \cup {None}, page : Nat, stale : BOOLEAN, rows : SUBSET Rows]

AskRecord == [id : Nat \ {0}, org : Choice, filter : Filters, page : Nat, stale : BOOLEAN,
              found : (SUBSET Rows) \cup {None}]

\* What the list is made of, and the numbers of the requests.
ListTypes ==
  /\ list \in List
  /\ asks \subseteq AskRecord
  /\ filter \in Filters
  /\ chosen \in Choice
  /\ \A a \in asks : a.id <= list.req

Shell == [state : {"loading", "ready", "error", "unauthorized", "needs-organization"},
          req : Nat, org : Orgs \cup {None}, orgs : SUBSET Orgs]
VisitRecord == [id : Nat, step : {"me", "workspaces"}, org : Choice \cup {Event}]

\* The shell waits for the answer to its last question, or has heard it.
ShellInv ==
  /\ member \in SUBSET Orgs
  /\ founding \in Orgs \cup {None}
  /\ shell \in Shell
  /\ visits \subseteq VisitRecord
  /\ \A v \in visits : v.id <= shell.req /\ (v.id = shell.req => shell.state = "loading")
  /\ \A v, w \in visits : v.id = w.id => v = w

\* Asked for what is chosen now: the organization, and the filter unless the
\* handler that asked had an older one.
Current(x) == x.org = chosen /\ (x.stale \/ x.filter = filter)

\* There is nothing left to start: the shell is ready, the debounce is over.
Started == shell.state = "ready" /\ ~timer /\ chosen # None

\* The last request is current, and so is what it has put on the screen.
SettledInv ==
  Started =>
    /\ \A a \in asks : a.id = list.req => Current(a)
    /\ ~list.loading /\ ~list.error => list.shown = list.req /\ list.shown # 0 /\ Current(list)

-----------------------------------------------------------------------------
\* The shell has no part in the list's variables but the debounce.
ShellStep ==
  \/ \E o \in Orgs : SwitchOrganization(o) \/ CreateOrganization(o)
  \/ Logout \/ SignIn \/ Retry
  \/ \E v \in visits : MeAnswers(v) \/ WorkspacesAnswer(v) \/ LateVisit(v) \/ ShellRefused(v)
                       \/ ShellFails(v, "error")
  \/ OrganizationCreated \/ LogoutAnswers \/ LogoutFails

\* Where a load comes from.
LoadStep ==
  \/ ListTimer
  \/ \E p \in 0..MaxLoads : ChangePage(p)
  \/ \E f \in Filters, p \in Nat : Reload(f, p)

\* A step of the page, where a handler may load any page again.
PageStep == Next \/ \E f \in Filters, p \in Nat : Reload(f, p)

LEMMA StepKinds ==
  ASSUME PageStep
  PROVE  \/ ShellStep \/ LoadStep \/ Remount
         \/ \E f \in Filters : SetFilter(f)
         \/ \E a \in asks : ListAnswers(a) \/ ListFails(a)
         \/ \E a \in asks, found \in SUBSET Rows : ListRead(a, found)
<1>1. ASSUME NEW p \in 0..MaxLoads PROVE p \in Nat
  BY PagedListAssumption
<1> QED BY <1>1 DEF PageStep, Next, Browse, Arrive, Trouble, ShellStep, LoadStep, ListRefused

LEMMA ShellKeeps ==
  ASSUME ShellStep
  PROVE  UNCHANGED <<filter, list, asks>>
BY DEF ShellStep, SwitchOrganization, CreateOrganization, Logout, SignIn, Retry, MeAnswers,
       WorkspacesAnswer, LateVisit, ShellRefused, ShellFails, OrganizationCreated,
       LogoutAnswers, LogoutFails, flow, server

\* A load asks for what is chosen, with a filter of its own.
LEMMA LoadAsks ==
  ASSUME ListTypes, LoadStep
  PROVE  /\ UNCHANGED <<chosen, filter, shell>>
         /\ timer' \in {timer, FALSE}
         /\ \E f \in Filters, p \in Nat : Load(f, p)
<1>1. ASSUME NEW p \in 0..MaxLoads PROVE p \in Nat
  BY PagedListAssumption
<1> QED BY <1>1 DEF ListTypes, LoadStep, ListTimer, ChangePage, Reload, flow

\* The user's organizations are organizations, so the shell chooses one.
LEMMA SelectedIsChoice ==
  ASSUME ListTypes, ShellInv, NEW o \in Choice \cup {Event}, Selected(o) # None
  PROVE  Selected(o) \in Orgs
<1>1. Cardinality(member) = 1 => member # {}
  BY FS_EmptySet
<1> QED BY <1>1 DEF Selected, ShellInv

LEMMA LoadShellKeeps ==
  ASSUME ShellInv, NEW o \in Choice \cup {Event}, LoadShell(o),
         UNCHANGED member, founding' \in {founding, None}
  PROVE  ShellInv'
<1>1. shell' = [state |-> "loading", req |-> shell.req + 1, org |-> shell.org, orgs |-> shell.orgs]
  BY DEF ShellInv, Shell, LoadShell
<1>2. shell' \in Shell /\ shell'.req = shell.req + 1 /\ shell'.state = "loading"
  BY <1>1 DEF ShellInv, Shell
<1>3. visits' = visits \cup {Visit(shell.req + 1, "me", o)}
  BY DEF LoadShell
<1>4. Visit(shell.req + 1, "me", o) \in VisitRecord
  BY DEF ShellInv, Shell, Visit, VisitRecord
<1>5. Visit(shell.req + 1, "me", o).id = shell.req + 1
  BY DEF Visit
<1> QED BY <1>2, <1>3, <1>4, <1>5 DEF ShellInv, Shell, VisitRecord

LEMMA MeAnswersKeeps ==
  ASSUME ListTypes, ShellInv, NEW v \in visits, MeAnswers(v)
  PROVE  ShellInv' /\ shell'.state # "ready" /\ chosen' \in Choice
<1> DEFINE found == Selected(v.org)
<1> DEFINE state == IF found = None THEN "needs-organization" ELSE shell.state
<1> DEFINE later == [id |-> v.id, step |-> "workspaces", org |-> None]
<1>1. found # None => found \in Orgs
  BY SelectedIsChoice DEF ShellInv, VisitRecord
<1>2. shell' = [[[shell EXCEPT !.orgs = member] EXCEPT !.org = found] EXCEPT !.state = state]
  BY DEF MeAnswers, ShellInv, Shell
<1>3. visits' \subseteq (visits \ {v}) \cup {later} /\ (found = None => visits' = visits \ {v})
  BY DEF MeAnswers, Visit
<1>4. v.id = shell.req /\ UNCHANGED <<member, founding>> /\ shell.state = "loading"
  BY DEF MeAnswers, server, ShellInv
<1>5. chosen' \in Choice
  BY <1>1 DEF MeAnswers, ListTypes, Choice
<1> HIDE DEF found
<1>6. state \in {"loading", "needs-organization"} /\ (found # None => state = "loading")
  BY <1>4
<1> HIDE DEF state
<1>7. shell' = [state |-> state, req |-> shell.req, org |-> found, orgs |-> member]
  BY <1>2 DEF ShellInv, Shell
<1>8. /\ shell' \in Shell /\ shell'.req = shell.req /\ shell'.state = state
  BY <1>1, <1>6, <1>7 DEF Shell, ShellInv
<1>9. later \in VisitRecord /\ later.id = v.id
  BY DEF ShellInv, Choice, VisitRecord
<1> HIDE DEF later
<1>10. \A w \in visits \ {v} : w.id # shell.req
  BY <1>4 DEF ShellInv
<1>11. visits' \subseteq VisitRecord
  BY <1>3, <1>9 DEF ShellInv
<1>12. \A w \in visits' : w.id <= shell'.req /\ (w.id = shell'.req => shell'.state = "loading")
  BY <1>3, <1>4, <1>6, <1>8, <1>9, <1>10 DEF ShellInv
<1>13. \A w, x \in visits' : w.id = x.id => w = x
  BY <1>3, <1>4, <1>9, <1>10 DEF ShellInv
<1> QED BY <1>4, <1>5, <1>6, <1>8, <1>11, <1>12, <1>13 DEF ShellInv

LEMMA ShellStepKeeps ==
  ASSUME ListTypes, ShellInv, ShellStep
  PROVE  /\ ShellInv'
         /\ chosen' \in Choice
         /\ Started' => Started /\ UNCHANGED chosen
<1>1. CASE \E o \in Orgs : SwitchOrganization(o)
  <2>1. PICK o \in Orgs : SwitchOrganization(o)
    BY <1>1
  <2>2. ShellInv'
    BY <2>1, LoadShellKeeps DEF SwitchOrganization, server, Choice
  <2> QED BY <2>1, <2>2 DEF SwitchOrganization, LoadShell, Started, Choice, ShellInv
<1>2. CASE \E o \in Orgs : CreateOrganization(o)
  BY <1>2 DEF CreateOrganization, ShellInv, ListTypes, Started
<1>3. CASE Logout
  BY <1>3 DEF Logout, ShellInv, ListTypes, Started, server, Choice
<1>4. CASE SignIn
  BY <1>4 DEF SignIn, ShellInv, ListTypes, Started, flow
<1>5. CASE Retry
  <2>1. ShellInv'
    BY <1>5, LoadShellKeeps DEF Retry, server
  <2> QED BY <1>5, <2>1 DEF Retry, LoadShell, Started, ShellInv, ListTypes
<1>6. CASE \E v \in visits : MeAnswers(v)
  BY <1>6, MeAnswersKeeps DEF Started
<1>7. CASE \E v \in visits : WorkspacesAnswer(v)
  <2>1. PICK v \in visits : WorkspacesAnswer(v)
    BY <1>7
  <2>2. shell' = [state |-> "ready", req |-> shell.req, org |-> shell.org, orgs |-> shell.orgs]
    BY <2>1 DEF WorkspacesAnswer, ShellInv, Shell
  <2>3. /\ visits' = visits \ {v} /\ \A w \in visits' : w.id # shell.req
        /\ UNCHANGED <<member, founding, chosen>> /\ timer'
    BY <2>1 DEF WorkspacesAnswer, ShellInv, server
  <2>4. shell' \in Shell /\ shell'.req = shell.req
    BY <2>2 DEF ShellInv, Shell
  <2> QED BY <2>3, <2>4 DEF ShellInv, ListTypes, Started
<1>8. CASE \E v \in visits : LateVisit(v)
  BY <1>8 DEF LateVisit, ShellInv, ListTypes, Started, server
<1>9. CASE \E v \in visits : ShellRefused(v) \/ ShellFails(v, "error")
  <2>1. PICK v \in visits, why \in {"error", "unauthorized"} : ShellFails(v, why)
    BY <1>9 DEF ShellRefused
  <2>2. shell' = [state |-> why, req |-> shell.req, org |-> shell.org, orgs |-> shell.orgs]
    BY <2>1 DEF ShellFails, ShellInv, Shell
  <2>3. /\ visits' = visits \ {v} /\ \A w \in visits' : w.id # shell.req
        /\ UNCHANGED <<member, founding, chosen>>
    BY <2>1 DEF ShellFails, ShellInv, server
  <2>4. shell' \in Shell /\ shell'.req = shell.req /\ shell'.state # "ready"
    BY <2>2 DEF ShellInv, Shell
  <2> QED BY <2>3, <2>4 DEF ShellInv, ListTypes, Started
<1>10. CASE OrganizationCreated
  <2>1. ShellInv'
    BY <1>10, LoadShellKeeps DEF OrganizationCreated, server, Choice, ShellInv
  <2> QED BY <1>10, <2>1 DEF OrganizationCreated, LoadShell, Started, ShellInv, ListTypes
<1>11. CASE LogoutAnswers
  <2>1. ShellInv'
    BY <1>11, LoadShellKeeps DEF LogoutAnswers, Choice
  <2> QED BY <1>11, <2>1 DEF LogoutAnswers, LoadShell, Started, ShellInv, ListTypes
<1>12. CASE LogoutFails
  BY <1>12 DEF LogoutFails, ShellInv, ListTypes, Started
<1> QED BY <1>1, <1>2, <1>3, <1>4, <1>5, <1>6, <1>7, <1>8, <1>9, <1>10, <1>11, <1>12 DEF ShellStep

-----------------------------------------------------------------------------
Inv == ListTypes /\ ShellInv /\ SettledInv

LEMMA InitInv ==
  ASSUME Init
  PROVE  Inv /\ list.req = 0 /\ list.shown = 0
<1>1. ListTypes /\ list.req = 0 /\ list.shown = 0
  BY PagedListAssumption DEF Init, ListTypes, NoList, List, Choice
<1>2. ShellInv
  BY DEF Init, ShellInv, Shell, VisitRecord, Visit, Choice
<1> QED BY <1>1, <1>2 DEF Init, Inv, SettledInv, Started

\* A load is the only question of its number, and about what is chosen now.
LEMMA LoadKeeps ==
  ASSUME Inv, NEW f \in Filters, NEW p \in Nat, Load(f, p), UNCHANGED <<chosen, filter>>
  PROVE  /\ ListTypes' /\ SettledInv'
         /\ list'.req = list.req + 1 /\ list'.shown = list.shown
<1> DEFINE asked == [id |-> list.req + 1, org |-> chosen, filter |-> f, page |-> p,
                     stale |-> f # filter, found |-> None]
<1> USE DEF Inv
<1>1. list \in List /\ list.req \in Nat
  BY DEF ListTypes, List
<1>2. asked \in AskRecord /\ asked.id = list.req + 1 /\ Current(asked)
  <2> DEFINE stale == f # filter
  <2>1. stale \in BOOLEAN /\ (stale \/ f = filter)
    OBVIOUS
  <2> HIDE DEF stale
  <2>2. asked = [id |-> list.req + 1, org |-> chosen, filter |-> f, page |-> p,
                 stale |-> stale, found |-> None]
    BY DEF stale
  <2> HIDE DEF asked
  <2>3. asked \in AskRecord
    BY <1>1, <2>1, <2>2 DEF ListTypes, AskRecord
  <2>4. asked.id = list.req + 1 /\ asked.org = chosen /\ asked.filter = f /\ asked.stale = stale
    BY <2>2
  <2> QED BY <2>1, <2>3, <2>4 DEF Current
<1>3. asks' = asks \cup {asked}
  BY DEF Load, storedOrganizationId
<1>4. list' = [req |-> list.req + 1, loading |-> TRUE, error |-> FALSE, shown |-> list.shown,
                org |-> list.org, filter |-> list.filter, page |-> list.page,
                stale |-> list.stale, rows |-> list.rows]
  BY <1>1 DEF Load, List
<1>5. /\ list' \in List /\ list'.req = list.req + 1 /\ list'.loading = TRUE
      /\ list'.shown = list.shown
  BY <1>1, <1>4 DEF List
<1> HIDE DEF asked
<1>6. \A a \in asks : a.id \in Nat /\ a.id <= list.req
  BY DEF ListTypes, AskRecord
<1>7. ListTypes'
  BY <1>1, <1>2, <1>3, <1>5, <1>6 DEF ListTypes
<1>8. \A a \in asks' : a.id = list'.req => a = asked
  BY <1>1, <1>2, <1>3, <1>5, <1>6
<1>9. SettledInv'
  BY <1>2, <1>5, <1>8 DEF SettledInv, Started, Current
<1> QED BY <1>5, <1>7, <1>9

LEMMA RemountKeeps ==
  ASSUME Inv, Remount
  PROVE  Inv' /\ list'.req = list.req /\ list'.shown = 0
<1>1. ListTypes' /\ list'.req = list.req /\ list'.shown = 0
  BY DEF Inv, Remount, ListTypes, NoList, List, Choice
<1>2. ShellInv'
  BY DEF Inv, Remount, ShellInv, Shell, VisitRecord, Visit, Choice, server
<1> QED BY <1>1, <1>2 DEF Inv, Remount, SettledInv, Started

\* A page that was read is an answer to the same question.
LEMMA ReadKeeps ==
  ASSUME Inv, NEW a \in asks, NEW found \in SUBSET Rows, ListRead(a, found)
  PROVE  Inv' /\ UNCHANGED list
<1> DEFINE read == [a EXCEPT !.found = found]
<1>1. UNCHANGED <<list, filter, timer, chosen, member, founding, shell, visits>>
  BY DEF ListRead, server, flow
<1>2. read \in AskRecord /\ read.id = a.id /\ (Current(a) => Current(read))
  BY DEF Inv, ListTypes, AskRecord, Current
<1>3. asks' = (asks \ {a}) \cup {read}
  BY DEF ListRead
<1> HIDE DEF read
<1>4. ListTypes'
  BY <1>1, <1>2, <1>3 DEF Inv, ListTypes
<1>5. ShellInv'
  BY <1>1 DEF Inv, ShellInv
<1>6. SettledInv'
  BY <1>1, <1>2, <1>3 DEF Inv, SettledInv, Started, Current
<1> QED BY <1>1, <1>4, <1>5, <1>6 DEF Inv

\* An answer of the last request is shown, any other is dropped.
LEMMA AnswerKeeps ==
  ASSUME Inv, NEW a \in asks, ListAnswers(a) \/ ListFails(a)
  PROVE  /\ Inv' /\ list'.req = list.req
         /\ \/ list'.shown = list.shown
            \/ list'.shown = list.req /\ list.req > 0
<1>1. /\ UNCHANGED <<filter, timer, chosen, member, founding, shell, visits>>
      /\ asks' = asks \ {a}
  BY DEF ListAnswers, ListFails, server, flow
<1>2. ShellInv'
  BY <1>1 DEF Inv, ShellInv
<1>3. a \in AskRecord /\ a.id \in Nat \ {0} /\ list \in List
  BY DEF Inv, ListTypes, AskRecord
<1>4. CASE list' = list
  BY <1>1, <1>2, <1>4 DEF Inv, ListTypes, SettledInv, Started, Current
<1>5. CASE ListAnswers(a) /\ a.id = list.req
  <2>1. list' = [req |-> list.req, loading |-> FALSE, error |-> list.error, shown |-> a.id,
                 org |-> a.org, filter |-> a.filter, page |-> a.page, stale |-> a.stale,
                 rows |-> a.found]
    BY <1>3, <1>5 DEF ListAnswers, List
  <2>2. a.found \in SUBSET Rows
    BY <1>3, <1>5 DEF ListAnswers, AskRecord
  <2>3. list' \in List
    BY <1>3, <2>1, <2>2 DEF List, AskRecord
  <2>4. ListTypes'
    BY <1>1, <2>1, <2>3 DEF Inv, ListTypes
  <2>5. SettledInv'
    BY <1>1, <1>3, <1>5, <2>1 DEF Inv, SettledInv, Started, Current
  <2> QED BY <1>2, <1>3, <1>5, <2>1, <2>4, <2>5 DEF Inv
<1>6. CASE ListFails(a) /\ a.id = list.req
  <2>1. list' = [[list EXCEPT !.loading = FALSE] EXCEPT !.error = TRUE]
    BY <1>3, <1>6 DEF ListFails, List
  <2>2. /\ list' \in List /\ list'.req = list.req /\ list'.shown = list.shown
        /\ list'.error = TRUE
    BY <1>3, <2>1 DEF List
  <2>3. ListTypes'
    BY <1>1, <2>2 DEF Inv, ListTypes
  <2>4. SettledInv'
    BY <1>1, <2>2 DEF Inv, SettledInv, Started, Current
  <2> QED BY <1>2, <2>2, <2>3, <2>4 DEF Inv
<1> QED BY <1>4, <1>5, <1>6 DEF ListAnswers, ListFails

-----------------------------------------------------------------------------
\* Every step keeps the invariant, and is one of the abstract screen.
LEMMA NextKeeps ==
  ASSUME Inv, [PageStep]_pages
  PROVE  /\ Inv'
         /\ \/ list'.req = list.req + 1 /\ list'.shown = list.shown
            \/ list'.req = list.req
               /\ \/ list'.shown \in {list.shown, 0}
                  \/ list'.shown = list.req /\ list.req > 0
<1>1. CASE ShellStep
  <2>1. UNCHANGED <<filter, list, asks>>
    BY <1>1, ShellKeeps
  <2>2. ShellInv' /\ chosen' \in Choice /\ (Started' => Started /\ UNCHANGED chosen)
    BY <1>1, ShellStepKeeps DEF Inv
  <2>3. ListTypes' /\ SettledInv'
    BY <2>1, <2>2 DEF Inv, ListTypes, SettledInv, Current
  <2> QED BY <2>1, <2>2, <2>3 DEF Inv
<1>2. CASE LoadStep
  <2>1. UNCHANGED <<chosen, filter, shell>> /\ \E f \in Filters, p \in Nat : Load(f, p)
    BY <1>2, LoadAsks DEF Inv
  <2>2. UNCHANGED <<visits, member, founding>>
    BY <1>2 DEF LoadStep, ListTimer, ChangePage, Reload, flow, server
  <2>3. ShellInv'
    BY <2>1, <2>2 DEF Inv, ShellInv
  <2> QED BY <2>1, <2>3, LoadKeeps DEF Inv
<1>3. CASE Remount
  BY <1>3, RemountKeeps
<1>4. CASE \E f \in Filters : SetFilter(f)
  <2>1. PICK f \in Filters : SetFilter(f)
    BY <1>4
  <2>2. /\ UNCHANGED <<list, asks, chosen, shell, visits, member, founding>> /\ filter' = f
        /\ ~Started'
    BY <2>1 DEF SetFilter, flow, server, Started
  <2> QED BY <2>2 DEF Inv, ListTypes, ShellInv, SettledInv
<1>5. CASE \E a \in asks : ListAnswers(a) \/ ListFails(a)
  BY <1>5, AnswerKeeps
<1>6. CASE \E a \in asks, found \in SUBSET Rows : ListRead(a, found)
  BY <1>6, ReadKeeps
<1>7. CASE UNCHANGED pages
  <2>1. UNCHANGED <<list, asks, chosen, shell, visits, member, founding, filter, timer>>
    BY <1>7 DEF pages, flow, server
  <2> QED BY <2>1 DEF Inv, ListTypes, ShellInv, SettledInv, Started, Current
<1> QED BY <1>1, <1>2, <1>3, <1>4, <1>5, <1>6, <1>7, StepKinds

LEMMA SpecInv == Spec => []Inv
<1>1. Init => Inv
  BY InitInv
<1>2. Inv /\ [Next]_pages => Inv'
  BY NextKeeps DEF PageStep
<1> QED BY <1>1, <1>2, PTL DEF Spec

LEMMA LatestStep ==
  ASSUME Inv, [PageStep]_pages
  PROVE  [Latest!Next]_<<list.req, list.shown>>
BY NextKeeps DEF Latest!Next, Latest!Ask, Latest!Show, Latest!Clear, Inv, ListTypes, List

\* The list implements the screen that shows the latest answer only: a load is
\* a question, an answer of another request changes nothing (requestIdRef of
\* use-paged-list.ts).
THEOREM ListShowsLatest == Spec => ShowsLatest
<1>1. Init => Latest!Init
  BY InitInv DEF Latest!Init
<1>2. Inv /\ [Next]_pages => [Latest!Next]_<<list.req, list.shown>>
  BY LatestStep DEF PageStep
<1> QED BY <1>1, <1>2, SpecInv, PTL DEF Spec, ShowsLatest, Latest!Spec

LEMMA InvSettled ==
  ASSUME Inv
  PROVE  SettledListMatches
BY DEF Inv, SettledInv, Started, Current, SettledListMatches

\* Once the shell is ready and nothing is on its way, the list is that of the
\* chosen organization and of the filter above it, however late the answers of
\* earlier organizations and filters came.
THEOREM SettledList == Spec => []SettledListMatches
<1>1. Inv => SettledListMatches
  BY InvSettled
<1> QED BY <1>1, SpecInv, PTL

-----------------------------------------------------------------------------
(* The page of suggestions.                                                *)

Offer == [s : Suggestions, entity : BOOLEAN]

What == {"accept", "dismiss", "link", "delete", "reopen"}
Step == {"sent", "done", "failed", "load"}

CallRecord ==
  [kind : {"act", "batch", "undo", "orphan"}, s : Suggestions, what : What, step : Step,
   org : Choice, todo : SUBSET Suggestions, entity : BOOLEAN,
   created : BOOLEAN, filter : Filters, page : Nat, load : Nat, mine : BOOLEAN]

\* A handler that has sent nothing yet.
Draft ==
  [kind : {"act", "batch", "undo", "orphan"}, s : Suggestions \cup {None},
   what : What \cup {None}, step : Step \cup {"new"}, org : Choice, todo : SUBSET Suggestions,
   entity : BOOLEAN, created : BOOLEAN, filter : Filters, page : Nat, load : Nat, mine : BOOLEAN]

ReviewTypes ==
  /\ calls \in [Slots -> CallRecord \cup {Idle}]
  /\ toast \in Slots \cup {0}
  /\ undo \in Offer \cup {None} /\ stored \in Offer \cup {None}

ReviewInv == Inv /\ ReviewTypes /\ BusyHasHandler

-----------------------------------------------------------------------------
\* What a handler under way may become: the same handler, about the same.
Follows(new, call) ==
  new \in CallRecord /\ new.kind = call.kind /\ new.mine = call.mine

LEMMA SteppedFollows ==
  ASSUME NEW call \in CallRecord, NEW step \in Step
  PROVE  /\ Follows([call EXCEPT !.step = step], call)
         /\ \A created \in BOOLEAN :
              Follows([[call EXCEPT !.step = step] EXCEPT !.created = created], call)
         /\ \A load \in Nat : Follows([[call EXCEPT !.step = step] EXCEPT !.load = load], call)
         /\ \A todo \in SUBSET Suggestions : Follows([call EXCEPT !.todo = todo], call)
BY DEF CallRecord, Follows, Step

\* What a request that is sent leaves alone in its handler.
Resent(new, call, s, what) ==
  /\ new.s = s /\ new.what = what /\ new.step = "sent" /\ new.org = chosen
  /\ new.kind = call.kind /\ new.mine = call.mine

LEMMA SentFields ==
  ASSUME ListTypes, NEW call \in Draft \cup CallRecord, NEW s \in Suggestions, NEW what \in What
  PROVE  Sent(call, s, what) \in CallRecord /\ Resent(Sent(call, s, what), call, s, what)
<1>1. chosen \in Choice /\ call \in Draft
  BY DEF Draft, CallRecord, ListTypes
<1>2. Sent(call, s, what) =
        [[[[call EXCEPT !.s = s] EXCEPT !.what = what] EXCEPT !.step = "sent"]
           EXCEPT !.org = chosen]
  BY <1>1 DEF Sent, storedOrganizationId, Draft
<1> DEFINE a == [call EXCEPT !.s = s]
<1>3. a \in Draft /\ a.s = s /\ a.kind = call.kind /\ a.mine = call.mine
  BY <1>1 DEF Draft
<1> HIDE DEF a
<1> DEFINE b == [a EXCEPT !.what = what]
<1>4. /\ b \in Draft /\ b.s = s /\ b.what = what
      /\ b.kind = call.kind /\ b.mine = call.mine
  BY <1>3 DEF Draft
<1> HIDE DEF b
<1> DEFINE d == [b EXCEPT !.step = "sent"]
<1>5. /\ d \in Draft /\ d.s = s /\ d.what = what /\ d.step = "sent"
      /\ d.kind = call.kind /\ d.mine = call.mine
  BY <1>4 DEF Draft, Step
<1> HIDE DEF d
<1> DEFINE e == [d EXCEPT !.org = chosen]
<1>6. e \in Draft /\ Resent(e, call, s, what)
  BY <1>1, <1>5 DEF Draft, Resent
<1>7. Sent(call, s, what) = e
  BY <1>2 DEF a, b, d
<1> HIDE DEF e
<1>8. e \in CallRecord
  BY <1>6 DEF Draft, CallRecord, Resent, Step
<1> QED BY <1>6, <1>7, <1>8

LEMMA SentFollows ==
  ASSUME ListTypes, NEW call \in Draft \cup CallRecord, NEW s \in Suggestions, NEW what \in What
  PROVE  Follows(Sent(call, s, what), call)
BY SentFields DEF Follows, Resent

\* A handler that has just begun.
Begun(new, kind) ==
  new \in CallRecord /\ new.kind = kind /\ new.mine = TRUE

LEMMA BegunIsRecord ==
  ASSUME ListTypes, NEW kind \in {"act", "batch", "undo"}, NEW todo \in SUBSET Suggestions,
         NEW entity \in BOOLEAN, NEW s \in Suggestions, NEW what \in What
  PROVE  Begun(Sent(Call(kind, todo, entity), s, what), kind)
<1> DEFINE call == Call(kind, todo, entity)
<1>1. list.page \in Nat
  BY DEF ListTypes, List
<1>2. call \in Draft /\ call.kind = kind /\ call.mine = TRUE
  BY <1>1 DEF Call, Draft, ListTypes, Choice
<1> HIDE DEF call
<1>3. Follows(Sent(call, s, what), call)
  BY <1>2, SentFollows
<1> QED BY <1>2, <1>3 DEF Follows, Begun, call

LEMMA CallReplaced ==
  ASSUME ReviewTypes, NEW c \in Slots, NEW new \in CallRecord \cup {Idle},
         calls' = [calls EXCEPT ![c] = new]
  PROVE  /\ calls' \in [Slots -> CallRecord \cup {Idle}]
         /\ \A d \in Slots : calls'[d] = IF d = c THEN new ELSE calls[d]
BY DEF ReviewTypes

LEMMA Handlers ==
  ASSUME ReviewTypes
  PROVE  /\ \A c \in Slots : calls[c].kind # "idle" => calls[c] \in CallRecord
         /\ 0 \notin Slots /\ (toast # 0 => toast \in Slots)
         /\ \A c \in FreeSlots : c \in Slots /\ calls[c].kind = "idle"
         /\ \A r \in CallRecord : r.kind # "idle"
<1>1. \A r \in CallRecord : r.kind # "idle"
  BY DEF CallRecord
<1>2. Idle.kind = "idle"
  BY DEF Idle
<1>3. 0 \notin Slots
  BY SuggestionReviewAssumption
<1> QED BY <1>1, <1>2, <1>3 DEF ReviewTypes, FreeSlots

\* A handler goes on: what is busy keeps its handler.
LEMMA FollowKeeps ==
  ASSUME ReviewTypes, BusyHasHandler, NEW c \in Slots, NEW new,
         calls[c].kind # "idle", Follows(new, calls[c]), calls' = [calls EXCEPT ![c] = new],
         busy' = busy, toast' \in {toast, 0}, undo' # None \/ toast' = 0, UNCHANGED shell
  PROVE  calls' \in [Slots -> CallRecord \cup {Idle}] /\ BusyHasHandler'
<1>1. new \in CallRecord /\ new.kind = calls[c].kind /\ new.mine = calls[c].mine
  BY DEF Follows
<1>2. /\ calls' \in [Slots -> CallRecord \cup {Idle}]
      /\ \A d \in Slots : calls'[d] = IF d = c THEN new ELSE calls[d]
  BY <1>1, CallReplaced
<1> QED BY ZenonT(60), <1>1, <1>2, Handlers DEF BusyHasHandler, Offered

\* A new handler takes a free slot, and becomes what is busy.
LEMMA BeginKeeps ==
  ASSUME ReviewTypes, BusyHasHandler, NEW c \in FreeSlots, NEW new \in CallRecord, new.mine = TRUE,
         calls' = [calls EXCEPT ![c] = new], UNCHANGED <<undo, shell>>,
         \/ new.kind \in {"act", "batch"} /\ UNCHANGED toast
         \/ new.kind = "undo" /\ UNCHANGED busy /\ toast' = c /\ Offered
  PROVE  calls' \in [Slots -> CallRecord \cup {Idle}] /\ BusyHasHandler'
<1>1. c \in Slots /\ calls[c].kind = "idle" /\ (toast # 0 => toast \in Slots)
  BY Handlers
<1>2. /\ calls' \in [Slots -> CallRecord \cup {Idle}]
      /\ \A d \in Slots : calls'[d] = IF d = c THEN new ELSE calls[d]
  BY <1>1, CallReplaced
<1> QED BY <1>1, <1>2 DEF BusyHasHandler, Offered

\* A handler is over, and releases what it made busy.
LEMMA OverKeeps ==
  ASSUME ReviewTypes, BusyHasHandler, NEW c \in Slots, Over(c), undo' \in {undo, None},
         UNCHANGED shell
  PROVE  calls' \in [Slots -> CallRecord \cup {Idle}] /\ toast' \in {toast, 0} /\ BusyHasHandler'
<1>1. /\ calls' \in [Slots -> CallRecord \cup {Idle}]
      /\ \A d \in Slots : calls'[d] = IF d = c THEN Idle ELSE calls[d]
  BY CallReplaced DEF Over
<1>2. busy' = IF calls[c].kind # "undo" /\ calls[c].mine THEN "" ELSE busy
  BY DEF Over
<1>3. toast' = IF toast = c \/ undo' = None THEN 0 ELSE toast
  BY DEF Over
<1>4. busy' # "" => \E d \in Slots : calls'[d].kind \in {"act", "batch"} /\ calls'[d].mine
  BY <1>1, <1>2 DEF BusyHasHandler
<1>5. toast' # 0 => calls'[toast'].kind = "undo" /\ Offered'
  BY <1>1, <1>3, Handlers DEF BusyHasHandler, Offered
<1> QED BY <1>1, <1>3, <1>4, <1>5 DEF BusyHasHandler

-----------------------------------------------------------------------------
\* What a step of the page shows in the review: a step of the list, and of the
\* handlers.
Kept ==
  /\ [PageStep]_pages
  /\ calls' \in [Slots -> CallRecord \cup {Idle}]
  /\ toast' \in Slots \cup {0}
  /\ undo' \in Offer \cup {None} /\ stored' \in Offer \cup {None}
  /\ BusyHasHandler'

LEMMA LoadAgainFollows ==
  ASSUME ReviewInv, NEW c \in Slots, calls[c].kind # "idle", LoadAgain(c)
  PROVE  /\ PageStep /\ UNCHANGED shell
         /\ \E new : Follows(new, calls[c]) /\ calls' = [calls EXCEPT ![c] = new]
<1>1. calls[c] \in CallRecord
  BY Handlers DEF ReviewInv
<1>2. calls[c].filter \in Filters /\ calls[c].page \in Nat
  BY <1>1 DEF CallRecord
<1>3. Reload(calls[c].filter, calls[c].page)
  BY DEF LoadAgain
<1>4. PageStep /\ UNCHANGED shell
  BY <1>2, <1>3 DEF PageStep, Reload, flow
<1>5. list'.req \in Nat
  BY <1>4, NextKeeps DEF ReviewInv, Inv, ListTypes, List
<1> DEFINE new == [[calls[c] EXCEPT !.step = "load"] EXCEPT !.load = list'.req]
<1>6. Follows(new, calls[c])
  BY <1>1, <1>5, SteppedFollows DEF Step
<1>7. calls' = [calls EXCEPT ![c] = new]
  BY DEF LoadAgain, ReviewInv, ReviewTypes
<1> QED BY <1>4, <1>6, <1>7

LEMMA BeginsKeep ==
  ASSUME ReviewInv, NEW c \in Slots,
         \/ \E s \in Suggestions, what \in {"accept", "dismiss", "link"} :
              Act(c, s, what) \/ BatchAct(c, s, what)
         \/ RunUndo(c)
  PROVE  Kept
<1> USE DEF ReviewInv
<1>1. ListTypes /\ ReviewTypes /\ BusyHasHandler /\ c \in FreeSlots
  BY DEF Inv, Act, BatchAct, RunUndo
<1>2. CASE \E s \in Suggestions, what \in {"accept", "dismiss", "link"} : Act(c, s, what)
  <2>1. PICK s \in Suggestions, what \in {"accept", "dismiss", "link"} : Act(c, s, what)
    BY <1>2
  <2>2. Begun(Sent(Call("act", {}, FALSE), s, what), "act")
    BY <1>1, BegunIsRecord DEF What
  <2>3. /\ calls' = [calls EXCEPT ![c] = Sent(Call("act", {}, FALSE), s, what)]
        /\ UNCHANGED <<pages, undo, shell, toast, stored>>
    BY <2>1 DEF Act, offers, pages, flow
  <2>4. calls' \in [Slots -> CallRecord \cup {Idle}] /\ BusyHasHandler'
    BY <1>1, <2>2, <2>3, BeginKeeps DEF Begun
  <2> QED BY <1>1, <2>3, <2>4 DEF Kept, ReviewTypes
<1>3. CASE \E s \in Suggestions, what \in {"accept", "dismiss", "link"} : BatchAct(c, s, what)
  <2>1. PICK s \in Suggestions, what \in {"accept", "dismiss", "link"} : BatchAct(c, s, what)
    BY <1>3
  <2> DEFINE todo == (picked \cap list.rows) \ {s}
  <2>2. todo \in SUBSET Suggestions
    BY <1>1, SuggestionReviewAssumption DEF ListTypes, List
  <2>3. /\ calls' = [calls EXCEPT ![c] = Sent(Call("batch", todo, FALSE), s, what)]
        /\ UNCHANGED <<pages, undo, shell, toast, stored>>
    BY <2>1 DEF BatchAct, offers, pages, flow
  <2> HIDE DEF todo
  <2>4. Begun(Sent(Call("batch", todo, FALSE), s, what), "batch")
    BY <1>1, <2>2, BegunIsRecord DEF What
  <2>5. calls' \in [Slots -> CallRecord \cup {Idle}] /\ BusyHasHandler'
    BY <1>1, <2>3, <2>4, BeginKeeps DEF Begun
  <2> QED BY <1>1, <2>3, <2>5 DEF Kept, ReviewTypes
<1>4. CASE RunUndo(c)
  <2> DEFINE what == IF undo.entity THEN "delete" ELSE "reopen"
  <2>1. undo \in Offer /\ undo.s \in Suggestions /\ undo.entity \in BOOLEAN /\ what \in What
    BY <1>1, <1>4 DEF RunUndo, Offered, ReviewTypes, Offer, What
  <2>2. /\ calls' = [calls EXCEPT ![c] = Sent(Call("undo", {}, undo.entity), undo.s, what)]
        /\ UNCHANGED <<pages, undo, shell, busy, stored>> /\ toast' = c /\ Offered
    BY <1>4 DEF RunUndo, panel, pages, flow
  <2> HIDE DEF what
  <2>3. Begun(Sent(Call("undo", {}, undo.entity), undo.s, what), "undo")
    BY <1>1, <2>1, BegunIsRecord
  <2>4. calls' \in [Slots -> CallRecord \cup {Idle}] /\ BusyHasHandler'
    BY <1>1, <2>2, <2>3, BeginKeeps DEF Begun
  <2> QED BY <1>1, <2>2, <2>4 DEF Kept, ReviewTypes
<1> QED BY <1>2, <1>3, <1>4

\* The server's part: the handler learns what became of its request.
LEMMA ServeKeeps ==
  ASSUME ReviewInv, NEW c \in Slots, Serve(c) \/ Fails(c)
  PROVE  Kept
<1>1. ReviewTypes /\ BusyHasHandler /\ calls[c].kind # "idle" /\ calls[c] \in CallRecord
  BY Handlers DEF ReviewInv, Serve, Fails
<1>2. UNCHANGED <<pages, undo, stored, shell, busy, toast>>
  BY DEF Serve, Fails, panel, offers, pages, flow
<1>3. \E new : Follows(new, calls[c]) /\ calls' = [calls EXCEPT ![c] = new]
  <2>1. CASE Serve(c)
    <3>1. PICK created \in BOOLEAN : Done(c, created)
      BY <2>1 DEF Serve, Accept, Resolve, Delete
    <3>2. calls' = [calls EXCEPT ![c] = [[calls[c] EXCEPT !.step = "done"]
                                                   EXCEPT !.created = created]]
      BY <1>1, <3>1 DEF Done, ReviewTypes
    <3> QED BY <1>1, <3>2, SteppedFollows DEF Step
  <2>2. CASE Fails(c)
    <3>1. calls' = [calls EXCEPT ![c] = [calls[c] EXCEPT !.step = "failed"]]
      BY <1>1, <2>2 DEF Fails, ReviewTypes
    <3> QED BY <1>1, <3>1, SteppedFollows DEF Step
  <2> QED BY <2>1, <2>2
<1>4. undo' # None \/ toast' = 0
  BY <1>1, <1>2 DEF BusyHasHandler, Offered
<1>5. calls' \in [Slots -> CallRecord \cup {Idle}] /\ BusyHasHandler'
  BY <1>1, <1>2, <1>3, <1>4, FollowKeeps
<1> QED BY <1>1, <1>2, <1>5 DEF Kept, ReviewTypes

\* An act or a batch is done: the toast offers to undo the act, and is gone
\* after a batch.
LEMMA AnswersKeep ==
  ASSUME ReviewInv, NEW c \in Slots, ActAnswers(c) \/ BatchAnswers(c) \/ UndoAnswers(c)
  PROVE  Kept
<1>1. /\ ReviewTypes /\ BusyHasHandler /\ calls[c].kind # "idle" /\ calls[c] \in CallRecord
      /\ ListTypes
  BY Handlers DEF ReviewInv, Inv, ActAnswers, BatchAnswers, UndoAnswers
<1>2. calls[c].s \in Suggestions /\ calls[c].created \in BOOLEAN /\ calls[c].what \in What
      /\ calls[c].todo \in SUBSET Suggestions
  BY <1>1 DEF CallRecord
<1>3. \A e \in BOOLEAN : Undo(calls[c].s, e) \in Offer /\ Undo(calls[c].s, e) # None
  <2>1. \A e \in BOOLEAN : Undo(calls[c].s, e) \in Offer
    BY <1>2 DEF Undo, Offer
  <2> QED BY <2>1, SuggestionReviewAssumption DEF Offer
<1>4. toast # 0 => undo # None
  BY <1>1 DEF BusyHasHandler, Offered
<1>5. CASE ActAnswers(c)
  <2>1. LoadAgain(c) /\ UNCHANGED <<busy, toast>> /\ undo' \in Offer /\ undo' # None
        /\ stored' \in Offer \cup {None}
    BY <1>1, <1>2, <1>3, <1>5 DEF ActAnswers, panel, ReviewTypes
  <2> QED BY <1>1, <2>1, LoadAgainFollows, FollowKeeps DEF Kept, ReviewTypes
<1>6. CASE BatchAnswers(c)
  <2>1. UNCHANGED <<busy, stored>>
    BY <1>6 DEF BatchAnswers
  <2>2. CASE \E s \in calls[c].todo :
               calls' = [calls EXCEPT ![c] =
                           [Sent(calls[c], s, calls[c].what) EXCEPT !.todo = @ \ {s}]]
             /\ UNCHANGED <<pages, undo, toast>>
    <3>1. PICK s \in calls[c].todo :
                 calls' = [calls EXCEPT ![c] =
                             [Sent(calls[c], s, calls[c].what) EXCEPT !.todo = @ \ {s}]]
      BY <2>2
    <3> DEFINE sent == Sent(calls[c], s, calls[c].what)
    <3>2. Follows(sent, calls[c])
      BY <1>1, <1>2, SentFollows
    <3>3. calls' = [calls EXCEPT ![c] = [sent EXCEPT !.todo = sent.todo \ {s}]]
      BY <3>1
    <3> HIDE DEF sent
    <3>4. sent.todo \ {s} \in SUBSET Suggestions
      BY <3>2 DEF Follows, CallRecord
    <3>5. Follows([sent EXCEPT !.todo = sent.todo \ {s}], calls[c])
      BY ZenonT(60), <3>2, <3>4, SteppedFollows DEF Follows, Step
    <3>6. UNCHANGED shell
      BY <2>2 DEF pages, flow
    <3> QED BY <1>1, <1>4, <2>1, <2>2, <3>3, <3>5, <3>6, FollowKeeps DEF Kept, ReviewTypes
  <2>3. CASE LoadAgain(c) /\ undo' = None /\ toast' = 0
    BY <1>1, <2>1, <2>3, LoadAgainFollows, FollowKeeps DEF Kept, ReviewTypes
  <2> QED BY <1>6, <2>2, <2>3 DEF BatchAnswers
<1>7. CASE UndoAnswers(c)
  <2>1. UNCHANGED <<busy, undo, toast>>
    BY <1>7 DEF UndoAnswers, panel
  <2>2. CASE calls' = [calls EXCEPT ![c] = Sent(@, @.s, "reopen")] /\ UNCHANGED <<pages, stored>>
    <3>1. calls' = [calls EXCEPT ![c] = Sent(calls[c], calls[c].s, "reopen")]
      BY <1>1, <2>2 DEF ReviewTypes
    <3>2. Follows(Sent(calls[c], calls[c].s, "reopen"), calls[c])
      BY <1>1, <1>2, SentFollows DEF What
    <3>3. UNCHANGED shell
      BY <2>2 DEF pages, flow
    <3> QED BY <1>1, <1>4, <2>1, <2>2, <3>1, <3>2, <3>3, FollowKeeps DEF Kept, ReviewTypes
  <2>3. CASE stored' = None /\ LoadAgain(c)
    BY <1>1, <1>4, <2>1, <2>3, LoadAgainFollows, FollowKeeps DEF Kept, ReviewTypes
  <2> QED BY <1>7, <2>2, <2>3 DEF UndoAnswers
<1> QED BY <1>5, <1>6, <1>7

LEMMA EndsKeep ==
  ASSUME ReviewInv, NEW c \in Slots, HandlerFails(c) \/ HandlerEnds(c) \/ OrphanEnds(c)
  PROVE  Kept
<1>1. ReviewTypes /\ BusyHasHandler
  BY DEF ReviewInv
<1>2. UNCHANGED <<pages, shell, stored>>
  BY DEF HandlerFails, HandlerEnds, OrphanEnds, offers, pages, flow
<1>3. CASE HandlerFails(c) \/ HandlerEnds(c)
  <2>1. Over(c) /\ undo' \in {undo, None}
    BY <1>3 DEF HandlerFails, HandlerEnds
  <2> QED BY <1>1, <1>2, <2>1, OverKeeps DEF Kept, ReviewTypes
<1>4. CASE OrphanEnds(c)
  <2>1. /\ calls[c].kind = "orphan" /\ calls' = [calls EXCEPT ![c] = Idle]
        /\ UNCHANGED <<busy, toast, undo>>
    BY <1>4 DEF OrphanEnds, panel, offers
  <2>2. /\ calls' \in [Slots -> CallRecord \cup {Idle}]
        /\ \A d \in Slots : calls'[d] = IF d = c THEN Idle ELSE calls[d]
    BY <1>1, <2>1, CallReplaced
  <2>3. BusyHasHandler'
    BY <1>1, <1>2, <2>1, <2>2, Handlers DEF BusyHasHandler, Offered
  <2> QED BY <1>1, <1>2, <2>1, <2>2, <2>3 DEF Kept, ReviewTypes
<1> QED BY <1>3, <1>4

\* The panel and the toast go with what they stand on, and their handlers lose
\* the state they had made busy.
LEMMA AroundKeeps ==
  ASSUME ReviewInv, Around
  PROVE  Kept
<1>1. ReviewTypes /\ BusyHasHandler
  BY DEF ReviewInv
<1>2. [PageStep]_pages /\ UNCHANGED <<undo, stored>>
  BY DEF Around, PageStep, Next, Unmounts
<1>3. toast' = (IF Offered' THEN toast ELSE 0)
  BY DEF Around, Unmounts
<1>4. CASE UNCHANGED <<busy, calls>>
  BY <1>1, <1>2, <1>3, <1>4 DEF Kept, ReviewTypes, BusyHasHandler
<1>5. CASE /\ busy' = ""
           /\ calls' = [c \in Slots |-> IF calls[c] = Idle THEN Idle
                                         ELSE [calls[c] EXCEPT !.mine = FALSE]]
  <2>1. \A call \in CallRecord : /\ [call EXCEPT !.mine = FALSE] \in CallRecord
                                 /\ [call EXCEPT !.mine = FALSE].kind = call.kind
    BY DEF CallRecord
  <2>2. \A c \in Slots : calls'[c] \in CallRecord \cup {Idle} /\ calls'[c].kind = calls[c].kind
    BY <1>1, <1>5, <2>1 DEF ReviewTypes
  <2>3. calls' \in [Slots -> CallRecord \cup {Idle}]
    BY <1>5, <2>2
  <2> QED BY <1>1, <1>2, <1>3, <1>5, <2>2, <2>3, Handlers DEF Kept, ReviewTypes, BusyHasHandler
<1> QED BY <1>4, <1>5 DEF Around, Unmounts

LEMMA OpenAnewKeeps ==
  ASSUME ReviewInv, OpenAnew
  PROVE  Kept
<1>1. [PageStep]_pages /\ busy' = "" /\ toast' = 0 /\ undo' = stored /\ stored' = stored
  BY DEF OpenAnew, PageStep, Next
<1>2. calls' = [c \in Slots |->
                  IF calls[c].kind # "idle" /\ calls[c].step \in {"sent", "done"}
                    THEN [calls[c] EXCEPT !.kind = "orphan"] ELSE Idle]
  BY DEF OpenAnew
<1>3. \A call \in CallRecord : [call EXCEPT !.kind = "orphan"] \in CallRecord
  BY DEF CallRecord
<1>4. calls' \in [Slots -> CallRecord \cup {Idle}]
  BY <1>2, <1>3, Handlers DEF ReviewInv
<1> QED BY <1>1, <1>4 DEF Kept, BusyHasHandler, ReviewInv, ReviewTypes

\* Every step of the review is a step of its page, and keeps a handler for
\* what is busy.
LEMMA ReviewNextKeeps ==
  ASSUME ReviewInv, [ReviewNext]_vars
  PROVE  Kept
<1>1. ReviewTypes /\ BusyHasHandler
  BY DEF ReviewInv
<1>2. CASE Around \/ OpenAnew
  BY <1>2, AroundKeeps, OpenAnewKeeps
<1>3. CASE \E c \in Slots : Handler(c)
  BY <1>3, ServeKeeps, AnswersKeep, EndsKeep DEF Handler
<1>4. CASE \/ \E c \in Slots, s \in Suggestions :
                \/ \E what \in {"accept", "dismiss", "link"} : Act(c, s, what)
                \/ \E what \in {"accept", "dismiss"} : BatchAct(c, s, what)
           \/ \E c \in Slots : RunUndo(c)
  BY <1>4, BeginsKeep
<1>5. CASE \E a \in asks : OpenRead(a)
  <2>1. PICK a \in asks, found \in SUBSET Suggestions : ListRead(a, found) /\ UNCHANGED review
    BY <1>5 DEF OpenRead
  <2>2. PageStep /\ UNCHANGED <<shell, busy, calls, undo, stored, toast>>
    BY <2>1, SuggestionReviewAssumption
       DEF PageStep, Next, ListRead, flow, review, panel, offers
  <2> QED BY <1>1, <2>2 DEF Kept, ReviewTypes, BusyHasHandler, Offered
<1>6. CASE (\E s \in Suggestions : Toggle(s)) \/ ToggleAll
  <2>1. UNCHANGED <<pages, shell, busy, calls, undo, stored, toast>>
    BY <1>6 DEF Toggle, ToggleAll, offers, pages, flow
  <2> QED BY <1>1, <2>1 DEF Kept, ReviewTypes, BusyHasHandler, Offered
<1>7. CASE CloseToast
  <2>1. UNCHANGED <<pages, busy, calls, stored, toast>> /\ toast = 0 /\ undo' = None
    BY <1>7 DEF CloseToast, panel
  <2> QED BY <1>1, <2>1 DEF Kept, ReviewTypes, BusyHasHandler
<1>8. CASE UNCHANGED vars
  <2>1. UNCHANGED <<pages, shell, busy, calls, undo, stored, toast>>
    BY <1>8 DEF vars, review, panel, offers, pages, flow
  <2> QED BY <1>1, <2>1 DEF Kept, ReviewTypes, BusyHasHandler, Offered
<1> QED BY <1>2, <1>3, <1>4, <1>5, <1>6, <1>7, <1>8 DEF ReviewNext

LEMMA ReviewSpecInv == ReviewSpec => []ReviewInv /\ [][PageStep]_pages
<1>1. ReviewInit => ReviewInv
  BY InitInv DEF ReviewInit, ReviewInv, ReviewTypes, BusyHasHandler
<1>2. ReviewInv /\ [ReviewNext]_vars => ReviewInv' /\ [PageStep]_pages
  BY ReviewNextKeeps, NextKeeps DEF ReviewInv, ReviewTypes, Kept
<1> QED BY <1>1, <1>2, PTL DEF ReviewSpec

\* The list of suggestions shows the latest answer only, also when a handler
\* loads it again with the filter and the page of when it began
\* (suggestions-view.tsx onChanged).
THEOREM SuggestionsShowLatest == ReviewSpec => ShowsLatest
<1>1. ReviewInit => Latest!Init
  BY InitInv DEF ReviewInit, Latest!Init
<1>2. ReviewInv /\ [PageStep]_pages => [Latest!Next]_<<list.req, list.shown>>
  BY LatestStep DEF ReviewInv
<1> QED BY <1>1, <1>2, ReviewSpecInv, PTL DEF ReviewSpec, ShowsLatest, Latest!Spec

\* Once nothing is on its way the suggestions on the screen are those of the
\* chosen organization.
THEOREM SettledSuggestions == ReviewSpec => []SettledListMatches
<1>1. ReviewInv => SettledListMatches
  BY InvSettled DEF ReviewInv
<1> QED BY <1>1, ReviewSpecInv, PTL

\* Whatever fails and whatever is unmounted under a handler, a card, the batch
\* and the toast are busy only while a handler that releases them is under way
\* (the finally of suggestions-panel.tsx and of UndoToast).
THEOREM NeverBusyForGood == ReviewSpec => []BusyHasHandler
<1>1. ReviewInv => BusyHasHandler
  BY DEF ReviewInv
<1> QED BY <1>1, ReviewSpecInv, PTL

-----------------------------------------------------------------------------
(* What an undo offers, and what it takes back.                             *)

Calm(s) == s \notin twice \cup unsure
Clean(s) == Calm(s) /\ s \notin astray

\* A toast, or the local storage, that speaks of s.
OfferOf(o, s) == o # None /\ o.s = s

\* The handler acts on its suggestion: it is no undo.
Acts(c) == calls[c].what \in {"accept", "dismiss", "link"}

\* A request to o is never served in the organization of s.
Elsewhere(o, s) == o # home[s] /\ (o = None => \E m \in member : m # home[s])

\* An act under way is alone with its suggestion: no undo is offered for it,
\* and none is running.
ActAlone(s) ==
  Calm(s) => \A c \in About(s) : Acts(c) /\ calls[c].step \in {"sent", "done"} =>
    /\ About(s) = {c}
    /\ ~OfferOf(undo, s) /\ ~OfferOf(stored, s)
    /\ calls[c].step = "sent" <=> status[s] = "open"

\* What was reopened is offered for undoing only until the undo hears of it.
StoredWaits(s) ==
  Calm(s) /\ OfferOf(stored, s) /\ status[s] = "open" =>
    \E c \in About(s) : calls[c].what = "reopen" /\ calls[c].step = "done"

ToastWaits(s) ==
  Calm(s) /\ OfferOf(undo, s) /\ status[s] = "open" =>
    \E c \in About(s) : /\ calls[c].what = "reopen"
                        /\ \/ calls[c].step = "done"
                           \/ calls[c].step = "load" /\ calls[c].kind = "undo"

\* An open suggestion, an offer that deletes nothing, and an undo past its
\* deletion: what the acceptance made is not there.
NothingMade(s) ==
  Clean(s) =>
    /\ status[s] = "open" => made[s] # "alive"
    /\ \A o \in {undo, stored} : OfferOf(o, s) /\ ~o.entity => made[s] # "alive"
    /\ \A c \in About(s) :
         /\ Acts(c) /\ calls[c].step = "done" /\ ~calls[c].created => made[s] # "alive"
         /\ \/ calls[c].what = "delete" /\ calls[c].step = "done"
            \/ calls[c].what = "reopen" /\ calls[c].step = "sent"
            => made[s] # "alive" \/ Elsewhere(calls[c].org, s)

UndoTypes ==
  /\ status \in [Suggestions -> {"open", "accepted", "dismissed"}]
  /\ made \in [Suggestions -> {"none", "alive", "gone"}]
  /\ \A c \in Slots : calls[c].kind \in {"act", "batch"} => Acts(c)

\* The part of the invariant about one suggestion.
UndoPart(s) == ActAlone(s) /\ StoredWaits(s) /\ ToastWaits(s) /\ NothingMade(s)

UndoInv == UndoTypes /\ \A s \in Suggestions : UndoPart(s)

\* What a handler was sent for, and what has become of the request.
SameRequest(new, call) ==
  new.s = call.s /\ new.what = call.what /\ new.step = call.step /\ new.org = call.org
  /\ new.created = call.created

\* The history variables only grow.
Remembers == twice \subseteq twice' /\ unsure \subseteq unsure' /\ astray \subseteq astray'

LEMMA StaysElsewhere ==
  ASSUME NEW o, NEW s, Elsewhere(o, s), member \subseteq member'
  PROVE  Elsewhere(o, s)'
BY DEF Elsewhere

\* Nothing is forgotten, and no request sent or answered: an offer may go.
LEMMA UndoFrame ==
  ASSUME UndoInv, Remembers, member \subseteq member', UNCHANGED <<status, made, stored>>,
         undo' \in {undo, None},
         \A d \in Slots : /\ calls'[d].kind = calls[d].kind
                          /\ calls[d].kind # "idle" => SameRequest(calls'[d], calls[d])
  PROVE  UndoInv'
<1>1. UndoTypes'
  BY Handlers DEF UndoInv, UndoTypes, Acts, SameRequest
<1>2. ASSUME NEW s \in Suggestions PROVE UndoPart(s)'
  <2>1. About(s)' = About(s) /\ \A c \in About(s) : SameRequest(calls'[c], calls[c]) /\ c \in Slots
    BY DEF About, SameRequest
  <2>2. UndoPart(s)
    BY DEF UndoInv
  <2>3. Calm(s)' => Calm(s)
    BY DEF Calm, Remembers
  <2>4. Clean(s)' => Clean(s)
    BY DEF Clean, Calm, Remembers
  <2>5. ActAlone(s)'
    BY <2>1, <2>2, <2>3 DEF UndoPart, ActAlone, Acts, OfferOf, SameRequest
  <2>6. StoredWaits(s)' /\ ToastWaits(s)'
    BY <2>1, <2>2, <2>3 DEF UndoPart, StoredWaits, ToastWaits, OfferOf, SameRequest
  <2>7. NothingMade(s)'
    BY <2>1, <2>2, <2>4, StaysElsewhere DEF UndoPart, NothingMade, Acts, OfferOf, SameRequest
  <2> QED BY <2>5, <2>6, <2>7 DEF UndoPart
<1> QED BY <1>1, <1>2 DEF UndoInv

\* A request has been heard of, or nobody waits for it: an act leaves an
\* offer, and what was reopened is offered no more.
LEMMA HeardKeeps ==
  ASSUME ReviewTypes, UndoInv, Remembers, UNCHANGED <<status, made, member>>,
         NEW c \in Slots, calls[c].kind # "idle", NEW new \in CallRecord \cup {Idle},
         calls' = [calls EXCEPT ![c] = new],
         \/ new = Idle
         \/ /\ new.kind = calls[c].kind /\ new.s = calls[c].s /\ new.what = calls[c].what
            /\ new.step \in {"failed", "load"},
         \/ undo' \in {undo, None} /\ stored' \in {stored, None}
         \/ /\ Acts(c) /\ calls[c].step = "done"
            /\ undo' = Undo(calls[c].s, calls[c].created) /\ stored' \in {stored, undo'},
         calls[c].what = "reopen" /\ calls[c].step = "done" =>
           \/ calls[c].s \in unsure'
           \/ stored' = None /\ new # Idle /\ new.step = "load" /\ new.kind = "undo",
         calls[c].what = "reopen" /\ calls[c].step = "load" /\ calls[c].kind = "undo" => undo' = None
  PROVE  UndoInv'
<1>1. /\ \A d \in Slots \ {c} : calls'[d] = calls[d]
      /\ calls'[c] = new
  BY CallReplaced
<1>2. Idle.kind = "idle" /\ calls[c] \in CallRecord
  BY Handlers DEF Idle
<1>3. UndoTypes'
  BY <1>1, <1>2 DEF UndoInv, UndoTypes, Acts
<1>4. ASSUME NEW s \in Suggestions PROVE UndoPart(s)'
  <2>1. UndoPart(s)
    BY DEF UndoInv
  <2>2. (Calm(s)' => Calm(s)) /\ (Clean(s)' => Clean(s))
    BY DEF Clean, Calm, Remembers
  <2>3. About(s)' \subseteq About(s) /\ About(s) \ {c} \subseteq About(s)'
    BY <1>1, <1>2 DEF About
  <2>4. \A d \in About(s)' : /\ d # c => calls'[d] = calls[d]
                             /\ d = c => /\ calls'[d].step \in {"failed", "load"}
                                         /\ calls'[d].what = calls[c].what
                                         /\ calls'[d].kind = calls[c].kind
    BY <1>1, <1>2 DEF About
  <2>5. c \in About(s) <=> calls[c].s = s
    BY DEF About
  <2>6. OfferOf(undo', s) => OfferOf(undo, s) \/ c \in About(s)
    BY <2>5 DEF OfferOf, Undo
  <2>7. OfferOf(stored', s) => OfferOf(stored, s) \/ c \in About(s)
    BY <2>5 DEF OfferOf, Undo
  <2>8. ActAlone(s)'
    <3> SUFFICES ASSUME Calm(s)', NEW d \in About(s)', Acts(d)', calls'[d].step \in {"sent", "done"}
                 PROVE  /\ About(s)' = {d}
                        /\ ~OfferOf(undo', s) /\ ~OfferOf(stored', s)
                        /\ calls'[d].step = "sent" <=> status'[s] = "open"
      BY DEF ActAlone, OfferOf
    <3>1. d # c /\ calls'[d] = calls[d] /\ d \in About(s)
      BY <2>3, <2>4
    <3>2. /\ About(s) = {d} /\ ~OfferOf(undo, s) /\ ~OfferOf(stored, s)
          /\ calls[d].step = "sent" <=> status[s] = "open"
      BY <2>1, <2>2, <3>1 DEF UndoPart, ActAlone, Acts
    <3> QED BY <2>3, <2>6, <2>7, <3>1, <3>2
  <2>9. StoredWaits(s)'
    <3> SUFFICES ASSUME Calm(s)', OfferOf(stored', s), status'[s] = "open"
                 PROVE  \E d \in About(s)' : calls'[d].what = "reopen" /\ calls'[d].step = "done"
      BY DEF StoredWaits, OfferOf
    <3>1. stored' = stored /\ OfferOf(stored, s)
      BY <2>1, <2>2, <2>5 DEF UndoPart, ActAlone, OfferOf, Undo
    <3>2. PICK d \in About(s) : calls[d].what = "reopen" /\ calls[d].step = "done"
      BY <2>1, <2>2, <3>1 DEF UndoPart, StoredWaits
    <3>3. d # c
      BY <2>5, <3>1, <3>2 DEF OfferOf, Calm
    <3> QED BY <2>3, <2>4, <3>2, <3>3
  <2>10. ToastWaits(s)'
    <3> SUFFICES ASSUME Calm(s)', OfferOf(undo', s), status'[s] = "open"
                 PROVE  \E d \in About(s)' :
                          /\ calls'[d].what = "reopen"
                          /\ \/ calls'[d].step = "done"
                             \/ calls'[d].step = "load" /\ calls'[d].kind = "undo"
      BY DEF ToastWaits, OfferOf
    <3>1. undo' = undo /\ OfferOf(undo, s)
      BY <2>1, <2>2, <2>5 DEF UndoPart, ActAlone, OfferOf, Undo
    <3>2. PICK d \in About(s) : /\ calls[d].what = "reopen"
                                /\ \/ calls[d].step = "done"
                                   \/ calls[d].step = "load" /\ calls[d].kind = "undo"
      BY <2>1, <2>2, <3>1 DEF UndoPart, ToastWaits
    <3>3. CASE d # c
      BY <2>3, <2>4, <3>2, <3>3
    <3>4. CASE d = c
      <4>1. calls[c].step = "done" /\ new # Idle /\ new.step = "load" /\ new.kind = "undo"
        BY <2>5, <3>1, <3>2, <3>4 DEF OfferOf, Calm
      <4>2. c \in About(s)'
        BY <1>1, <2>5, <3>2, <3>4, <4>1 DEF About
      <4> QED BY <1>1, <2>4, <3>2, <3>4, <4>1, <4>2
    <3> QED BY <3>3, <3>4
  <2>11. NothingMade(s)'
    <3> SUFFICES ASSUME Clean(s)' PROVE NothingMade(s)'
      BY DEF NothingMade
    <3>1. NothingMade(s) /\ Clean(s) /\ Calm(s)
      BY <2>1, <2>2 DEF UndoPart, Clean
    <3>2. ASSUME NEW p \in {undo', stored'}, OfferOf(p, s), ~p.entity PROVE made[s] # "alive"
      <4>1. CASE p \in {undo, stored}
        BY <3>1, <3>2, <4>1 DEF NothingMade
      <4>2. CASE p \notin {undo, stored}
        <5>1. Acts(c) /\ calls[c].step = "done" /\ p = Undo(calls[c].s, calls[c].created)
          BY <3>2, <4>2 DEF OfferOf
        <5>2. calls[c].s = s /\ ~calls[c].created
          BY <3>2, <5>1 DEF OfferOf, Undo
        <5> QED BY <2>5, <3>1, <5>1, <5>2 DEF NothingMade
      <4> QED BY <4>1, <4>2
    <3>3. \A d \in About(s)' : calls'[d].step \in {"sent", "done"} => d \in About(s) /\ calls'[d] = calls[d]
      BY <2>3, <2>4
    <3> QED BY <3>1, <3>2, <3>3 DEF NothingMade, OfferOf, Acts, Elsewhere
  <2> QED BY <2>8, <2>9, <2>10, <2>11 DEF UndoPart
<1> QED BY <1>3, <1>4 DEF UndoInv

\* An act is sent: if it is the only one with its suggestion, which is open,
\* nothing has been offered for it.
LEMMA ActBegins ==
  ASSUME ReviewTypes, UndoInv, UNCHANGED <<status, made, undo, stored, member, unsure, astray>>,
         NEW c \in Slots, NEW new \in CallRecord, calls' = [calls EXCEPT ![c] = new],
         calls[c].kind = "idle" \/ Acts(c),
         new.step = "sent", new.what \in {"accept", "dismiss", "link"}, twice' = Twice(new.s)
  PROVE  UndoInv'
<1>1. /\ \A d \in Slots \ {c} : calls'[d] = calls[d]
      /\ calls'[c] = new /\ new.kind # "idle"
  BY CallReplaced, Handlers
<1>2. UndoTypes'
  BY <1>1 DEF UndoInv, UndoTypes, Acts
<1>3. ASSUME NEW s \in Suggestions PROVE UndoPart(s)'
  <2>1. UndoPart(s)
    BY DEF UndoInv
  <2>2. (Calm(s)' => Calm(s)) /\ (Clean(s)' => Clean(s) /\ Calm(s)')
    BY DEF Clean, Calm, Twice
  <2>3. /\ About(s) \ {c} \subseteq About(s)'
        /\ \A d \in About(s)' : d # c => d \in About(s) /\ calls'[d] = calls[d]
        /\ c \in About(s)' => new.s = s
        /\ new.s = s => c \in About(s)'
    BY <1>1 DEF About
  <2>4. c \in About(s) => Acts(c)
    BY DEF About
  <2>5. Calm(s)' /\ new.s = s =>
          /\ status[s] = "open" /\ About(s) = {} /\ About(s)' = {c}
          /\ ~OfferOf(undo, s) /\ ~OfferOf(stored, s)
    <3> SUFFICES ASSUME Calm(s)', new.s = s
                 PROVE  /\ status[s] = "open" /\ About(s) = {} /\ About(s)' = {c}
                        /\ ~OfferOf(undo, s) /\ ~OfferOf(stored, s)
      OBVIOUS
    <3>1. status[s] = "open" /\ About(s) = {}
      BY DEF Calm, Twice
    <3>2. ~OfferOf(undo, s) /\ ~OfferOf(stored, s)
      BY <2>1, <2>2, <3>1 DEF UndoPart, StoredWaits, ToastWaits
    <3> QED BY <2>3, <3>1, <3>2
  <2>6. ActAlone(s)'
    <3> SUFFICES ASSUME Calm(s)', NEW d \in About(s)', Acts(d)', calls'[d].step \in {"sent", "done"}
                 PROVE  /\ About(s)' = {d}
                        /\ ~OfferOf(undo, s) /\ ~OfferOf(stored, s)
                        /\ calls'[d].step = "sent" <=> status[s] = "open"
      BY DEF ActAlone, OfferOf
    <3>1. CASE new.s = s
      BY <1>1, <2>5, <3>1
    <3>2. CASE new.s # s
      <4>1. d # c /\ c \notin About(s)' /\ calls'[d] = calls[d] /\ d \in About(s)
        BY <2>3, <3>2
      <4>2. /\ About(s) = {d} /\ ~OfferOf(undo, s) /\ ~OfferOf(stored, s)
            /\ calls[d].step = "sent" <=> status[s] = "open"
        BY <2>1, <2>2, <4>1 DEF UndoPart, ActAlone, Acts
      <4> QED BY <2>3, <4>1, <4>2
    <3> QED BY <3>1, <3>2
  <2>7. StoredWaits(s)' /\ ToastWaits(s)'
    <3>1. \A d \in About(s) : calls[d].what = "reopen" => d \in About(s)' /\ calls'[d] = calls[d]
      BY <1>1, <2>3, <2>4 DEF Acts, About
    <3> QED BY <2>1, <2>2, <3>1 DEF UndoPart, StoredWaits, ToastWaits, OfferOf
  <2>8. NothingMade(s)'
    <3> SUFFICES ASSUME Clean(s)' PROVE NothingMade(s)'
      BY DEF NothingMade
    <3>1. NothingMade(s) /\ Clean(s)
      BY <2>1, <2>2 DEF UndoPart
    <3> QED BY <1>1, <2>3, <3>1 DEF NothingMade, OfferOf, Acts, Elsewhere
  <2> QED BY <2>6, <2>7, <2>8 DEF UndoPart
<1> QED BY <1>2, <1>3 DEF UndoInv

\* An undo sends its request: the deletion, or after it, or when there is
\* nothing to delete, the reopening.
LEMMA UndoSends ==
  ASSUME ReviewTypes, UndoInv, UNCHANGED <<status, made, undo, stored, member, twice, unsure>>,
         astray \subseteq astray',
         NEW c \in Slots, NEW new \in CallRecord, calls' = [calls EXCEPT ![c] = new],
         \/ calls[c].kind = "idle" /\ OfferOf(undo, new.s)
         \/ calls[c].kind # "idle" /\ calls[c].s = new.s /\ calls[c].what = "delete",
         new.kind = "undo", new.step = "sent", new.what \in {"delete", "reopen"},
         new.what = "reopen" /\ Clean(new.s)' => made[new.s] # "alive" \/ Elsewhere(new.org, new.s)
  PROVE  UndoInv'
<1>1. /\ \A d \in Slots \ {c} : calls'[d] = calls[d]
      /\ calls'[c] = new /\ new.kind # "idle"
  BY CallReplaced, Handlers
<1>2. UndoTypes'
  BY <1>1 DEF UndoInv, UndoTypes, Acts
<1>3. ASSUME NEW s \in Suggestions PROVE UndoPart(s)'
  <2>1. UndoPart(s)
    BY DEF UndoInv
  <2>2. (Calm(s)' => Calm(s)) /\ (Clean(s)' => Clean(s))
    BY DEF Clean, Calm
  <2>3. /\ About(s) \subseteq About(s)'
        /\ \A d \in About(s)' : d # c => d \in About(s) /\ calls'[d] = calls[d]
        /\ c \in About(s)' => new.s = s
    BY <1>1 DEF About
  <2>4. c \in About(s) => calls[c].what = "delete"
    BY DEF About
  <2>5. ActAlone(s)'
    <3> SUFFICES ASSUME Calm(s)', NEW d \in About(s)', Acts(d)', calls'[d].step \in {"sent", "done"}
                 PROVE  /\ About(s)' = {d}
                        /\ ~OfferOf(undo, s) /\ ~OfferOf(stored, s)
                        /\ calls'[d].step = "sent" <=> status[s] = "open"
      BY DEF ActAlone, OfferOf
    <3>1. d # c /\ calls'[d] = calls[d] /\ d \in About(s)
      BY <1>1, <2>3 DEF Acts
    <3>2. /\ About(s) = {d} /\ ~OfferOf(undo, s) /\ ~OfferOf(stored, s)
          /\ calls[d].step = "sent" <=> status[s] = "open"
      BY <2>1, <2>2, <3>1 DEF UndoPart, ActAlone, Acts
    <3>3. c \notin About(s)'
      BY <2>3, <3>1, <3>2 DEF About
    <3> QED BY <2>3, <3>1, <3>2, <3>3
  <2>6. StoredWaits(s)' /\ ToastWaits(s)'
    <3>1. \A d \in About(s) : calls[d].what = "reopen" => d \in About(s)' /\ calls'[d] = calls[d]
      BY <1>1, <2>3, <2>4 DEF About
    <3> QED BY <2>1, <2>2, <3>1 DEF UndoPart, StoredWaits, ToastWaits, OfferOf
  <2>7. NothingMade(s)'
    <3> SUFFICES ASSUME Clean(s)' PROVE NothingMade(s)'
      BY DEF NothingMade
    <3>1. NothingMade(s) /\ Clean(s)
      BY <2>1, <2>2 DEF UndoPart
    <3>2. c \in About(s)' /\ new.what = "reopen" => made[s] # "alive" \/ Elsewhere(new.org, s)
      BY <2>3
    <3> QED BY <1>1, <2>3, <3>1, <3>2 DEF NothingMade, OfferOf, Acts, Elsewhere
  <2> QED BY <2>5, <2>6, <2>7 DEF UndoPart
<1> QED BY <1>2, <1>3 DEF UndoInv

\* The page is opened anew, and offers what was stored.
LEMMA AnewKeeps ==
  ASSUME ReviewTypes, UndoInv, OpenAnew
  PROVE  UndoInv'
<1>1. /\ UNCHANGED <<status, made, stored, twice, unsure, astray, member>> /\ undo' = stored
      /\ calls' = [c \in Slots |->
                     IF calls[c].kind # "idle" /\ calls[c].step \in {"sent", "done"}
                       THEN [calls[c] EXCEPT !.kind = "orphan"] ELSE Idle]
  BY DEF OpenAnew, Remount, prompts, server
<1>2. ASSUME NEW c \in Slots
      PROVE  \/ calls'[c].kind = "idle"
                /\ ~(calls[c].kind # "idle" /\ calls[c].step \in {"sent", "done"})
             \/ calls[c].kind # "idle" /\ calls'[c].kind = "orphan"
                /\ calls[c].step \in {"sent", "done"} /\ SameRequest(calls'[c], calls[c])
  <2>1. CASE calls[c].kind # "idle" /\ calls[c].step \in {"sent", "done"}
    <3>1. calls[c] \in CallRecord /\ calls'[c] = [calls[c] EXCEPT !.kind = "orphan"]
      BY <1>1, <2>1, Handlers
    <3> QED BY <2>1, <3>1 DEF CallRecord, SameRequest
  <2>2. CASE ~(calls[c].kind # "idle" /\ calls[c].step \in {"sent", "done"})
    BY <1>1, <2>2 DEF Idle
  <2> QED BY <2>1, <2>2
<1>3. UndoTypes'
  BY <1>1, <1>2 DEF UndoInv, UndoTypes
<1>4. ASSUME NEW s \in Suggestions PROVE UndoPart(s)'
  <2>1. UndoPart(s)
    BY DEF UndoInv
  <2>2. About(s)' = {c \in About(s) : calls[c].step \in {"sent", "done"}}
    BY <1>2 DEF About, SameRequest
  <2>3. \A c \in About(s)' : SameRequest(calls'[c], calls[c])
    BY <1>2 DEF About
  <2>4. StoredWaits(s)'
    <3>1. \A c \in About(s) : calls[c].what = "reopen" /\ calls[c].step = "done" =>
            c \in About(s)' /\ calls'[c].what = "reopen" /\ calls'[c].step = "done"
      BY <2>2, <2>3 DEF SameRequest
    <3> QED BY <1>1, <2>1, <3>1 DEF UndoPart, StoredWaits, OfferOf, Calm
  <2>5. ToastWaits(s)'
    BY <1>1, <2>4 DEF StoredWaits, ToastWaits, OfferOf, Calm
  <2>7. ActAlone(s)'
    <3> SUFFICES ASSUME Calm(s)', NEW d \in About(s)', Acts(d)', calls'[d].step \in {"sent", "done"}
                 PROVE  /\ About(s)' = {d} /\ ~OfferOf(stored, s)
                        /\ calls'[d].step = "sent" <=> status[s] = "open"
      BY <1>1 DEF ActAlone, OfferOf
    <3>1. d \in About(s) /\ SameRequest(calls'[d], calls[d])
      BY <2>2, <2>3
    <3>2. /\ About(s) = {d} /\ ~OfferOf(stored, s)
          /\ calls[d].step = "sent" <=> status[s] = "open"
      BY <1>1, <2>1, <3>1 DEF UndoPart, ActAlone, Acts, Calm, SameRequest
    <3> QED BY <2>2, <3>1, <3>2 DEF SameRequest
  <2>6. NothingMade(s)'
    BY <1>1, <2>1, <2>2, <2>3
       DEF UndoPart, NothingMade, Acts, OfferOf, Clean, Calm, Elsewhere, SameRequest
  <2> QED BY <2>4, <2>5, <2>6, <2>7 DEF UndoPart
<1> QED BY <1>3, <1>4 DEF UndoInv

\* A request is served in the organization of s, or goes elsewhere.
LEMMA ServedOrElsewhere ==
  ASSUME ShellInv, NEW o \in Choice, NEW s \in Suggestions, Served(o) # None
  PROVE  Elsewhere(o, s) <=> Served(o) # home[s]
<1>1. home[s] \in Orgs /\ None \notin Orgs /\ member \subseteq Orgs /\ IsFiniteSet(member)
  BY FS_Subset, PagedListAssumption, SuggestionReviewAssumption DEF ShellInv
<1>2. CASE o \in member
  <2>1. Served(o) = o /\ o # None
    BY <1>1, <1>2 DEF Served
  <2> QED BY <2>1 DEF Elsewhere
<1>3. CASE o \notin member
  <2>1. o = None /\ Cardinality(member) = 1 /\ Served(o) = CHOOSE m \in member : TRUE
    BY <1>3 DEF Served
  <2>2. PICK m : member = {m}
    BY <1>1, <2>1, FS_Singleton
  <2>3. Served(o) = m
    BY <2>1, <2>2
  <2> QED BY <1>1, <2>1, <2>2, <2>3 DEF Elsewhere
<1> QED BY <1>2, <1>3

\* What the server does to the suggestion of a handler.
LEMMA ServeEffect ==
  ASSUME ReviewTypes, UndoTypes, NEW c \in Slots, Serve(c)
  PROVE  LET s == calls[c].s IN
         /\ \E created \in BOOLEAN :
              /\ Done(c, created)
              /\ made' = IF created THEN [made EXCEPT ![s] = "alive"]
                         ELSE IF calls[c].what = "delete" /\ OwnOrg(c)
                                THEN [made EXCEPT ![s] = "gone"] ELSE made
              /\ created => calls[c].what = "accept"
         /\ \/ Acts(c) /\ \E to \in {"accepted", "dismissed"} : status' = [status EXCEPT ![s] = to]
            \/ calls[c].what = "reopen" /\ OwnOrg(c) /\ status' = [status EXCEPT ![s] = "open"]
            \/ calls[c].what = "delete" /\ Served(calls[c].org) # None /\ UNCHANGED status
<1>1. CASE \E created \in BOOLEAN : Accept(c, created)
  BY <1>1 DEF Accept, Acts
<1>2. CASE Resolve(c)
  <2>1. Done(c, FALSE) /\ UNCHANGED made /\ calls[c].what # "delete"
    BY <1>2 DEF Resolve
  <2>2. status' = [status EXCEPT ![calls[c].s] = Becomes(calls[c].what)]
    BY <1>2 DEF Resolve
  <2>3. CASE calls[c].what = "reopen"
    BY <1>2, <2>1, <2>2, <2>3 DEF Resolve, Becomes
  <2>4. CASE calls[c].what \in {"dismiss", "link"}
    <3>1. Becomes(calls[c].what) \in {"accepted", "dismissed"}
      BY <2>4 DEF Becomes
    <3> QED BY <2>1, <2>2, <2>4, <3>1 DEF Acts
  <2> QED BY <1>2, <2>3, <2>4 DEF Resolve
<1>3. CASE Delete(c)
  BY <1>3 DEF Delete
<1> QED BY <1>1, <1>2, <1>3 DEF Serve

LEMMA ServesUndo ==
  ASSUME ReviewInv, UndoInv, NEW c \in Slots, Serve(c)
  PROVE  UndoInv'
<1>1. /\ UNCHANGED <<undo, stored, twice, unsure, astray, member>>
      /\ calls[c].kind # "idle" /\ calls[c].step = "sent" /\ calls[c] \in CallRecord
  BY Handlers DEF Serve, offers, counts, pages, server, ReviewInv
<1>2. calls[c].s \in Suggestions /\ calls[c].org \in Choice
  BY <1>1 DEF CallRecord
<1>3. ReviewTypes /\ UndoTypes /\ ShellInv
  BY DEF ReviewInv, Inv, UndoInv
<1>4. PICK created \in BOOLEAN :
        /\ Done(c, created)
        /\ made' = IF created THEN [made EXCEPT ![calls[c].s] = "alive"]
                   ELSE IF calls[c].what = "delete" /\ OwnOrg(c)
                          THEN [made EXCEPT ![calls[c].s] = "gone"] ELSE made
        /\ created => calls[c].what = "accept"
  BY <1>3, ServeEffect
<1>5. \/ Acts(c) /\ \E to \in {"accepted", "dismissed"} : status' = [status EXCEPT ![calls[c].s] = to]
      \/ calls[c].what = "reopen" /\ OwnOrg(c) /\ status' = [status EXCEPT ![calls[c].s] = "open"]
      \/ calls[c].what = "delete" /\ Served(calls[c].org) # None /\ UNCHANGED status
  BY <1>3, ServeEffect
<1> DEFINE new == [[calls[c] EXCEPT !.step = "done"] EXCEPT !.created = created]
<1>6. /\ new \in CallRecord /\ new.kind = calls[c].kind /\ new.s = calls[c].s
      /\ new.what = calls[c].what /\ new.org = calls[c].org
      /\ new.step = "done" /\ new.created = created
  BY <1>1 DEF CallRecord, Step
<1>7. calls' = [calls EXCEPT ![c] = new]
  BY <1>1, <1>3, <1>4 DEF Done, ReviewTypes
<1> HIDE DEF new
<1>8. /\ \A d \in Slots \ {c} : calls'[d] = calls[d]
      /\ calls'[c] = new
  BY <1>3, <1>6, <1>7, CallReplaced
<1>9. /\ \A d \in Slots : /\ calls'[d].kind = calls[d].kind
                          /\ calls[d].kind # "idle" => /\ calls'[d].s = calls[d].s
                                                       /\ calls'[d].what = calls[d].what
                                                       /\ calls'[d].org = calls[d].org
  BY <1>6, <1>8
<1>10. UndoTypes'
  <2>1. \A d \in Slots : calls'[d].kind \in {"act", "batch"} => Acts(d)'
    BY <1>3, <1>6, <1>8 DEF UndoTypes, Acts
  <2>2. made' \in [Suggestions -> {"none", "alive", "gone"}]
    BY <1>3, <1>4 DEF UndoTypes
  <2>3. status' \in [Suggestions -> {"open", "accepted", "dismissed"}]
    BY <1>3, <1>5 DEF UndoTypes
  <2> QED BY <2>1, <2>2, <2>3 DEF UndoTypes
<1>11. ASSUME NEW s \in Suggestions PROVE UndoPart(s)'
  <2>1. UndoPart(s)
    BY DEF UndoInv
  <2>2. About(s)' = About(s) /\ (c \in About(s) <=> calls[c].s = s)
    BY <1>1, <1>9 DEF About
  <2>3. (Calm(s)' <=> Calm(s)) /\ (Clean(s)' <=> Clean(s)) /\ (Clean(s) => Calm(s))
    BY <1>1 DEF Calm, Clean
  <2>4. \A d \in About(s) : d # c => calls'[d] = calls[d]
    BY <1>8 DEF About
  <2>5. CASE calls[c].s # s
    <3>1. UNCHANGED <<status[s], made[s]>>
      BY <1>3, <1>4, <1>5, <2>5 DEF UndoTypes
    <3>2. \A d \in About(s) : calls'[d] = calls[d]
      BY <2>2, <2>4, <2>5
    <3>3. ActAlone(s)'
      BY <1>1, <2>1, <2>2, <2>3, <3>1, <3>2 DEF UndoPart, ActAlone, Acts, OfferOf
    <3>4. StoredWaits(s)' /\ ToastWaits(s)'
      BY <1>1, <2>1, <2>2, <2>3, <3>1, <3>2 DEF UndoPart, StoredWaits, ToastWaits, OfferOf
    <3>5. NothingMade(s)'
      BY <1>1, <2>1, <2>2, <2>3, <3>1, <3>2 DEF UndoPart, NothingMade, Acts, OfferOf, Elsewhere
    <3> QED BY <3>3, <3>4, <3>5 DEF UndoPart
  <2>6. CASE calls[c].s = s /\ Acts(c)
    <3>1. c \in About(s) /\ status'[s] # "open" /\ Acts(c)'
      BY <1>2, <1>3, <1>5, <1>6, <1>8, <2>2, <2>6 DEF UndoTypes, Acts
    <3>2. Calm(s) => /\ About(s) = {c} /\ ~OfferOf(undo, s) /\ ~OfferOf(stored, s)
                     /\ status[s] = "open"
      BY <1>1, <2>1, <2>6, <3>1 DEF UndoPart, ActAlone
    <3>3. ActAlone(s)'
      BY <1>1, <1>6, <1>8, <2>2, <2>3, <3>1, <3>2 DEF ActAlone, OfferOf
    <3>4. StoredWaits(s)' /\ ToastWaits(s)'
      BY <3>1 DEF StoredWaits, ToastWaits
    <3>5. Clean(s) /\ ~created => made'[s] # "alive"
      BY <1>4, <2>1, <2>3, <2>6, <3>2 DEF UndoPart, NothingMade, Acts
    <3>6. NothingMade(s)'
      BY <1>1, <1>6, <1>8, <2>2, <2>3, <2>6, <3>1, <3>2, <3>5 DEF NothingMade, OfferOf, Acts
    <3> QED BY <3>3, <3>4, <3>6 DEF UndoPart
  <2>7. CASE calls[c].s = s /\ calls[c].what = "reopen"
    <3>1. c \in About(s) /\ status'[s] = "open" /\ made' = made /\ OwnOrg(c) /\ ~Acts(c)'
      BY <1>2, <1>3, <1>4, <1>5, <1>6, <1>8, <2>2, <2>7 DEF UndoTypes, Acts
    <3>2. ActAlone(s)'
      <4>1. \A d \in About(s) : Acts(d) /\ calls[d].step \in {"sent", "done"} => ~Calm(s)
        BY <2>1, <2>7, <3>1 DEF UndoPart, ActAlone, Acts
      <4> QED BY <2>2, <2>3, <2>4, <3>1, <4>1 DEF ActAlone, Acts
    <3>3. StoredWaits(s)' /\ ToastWaits(s)'
      BY <1>6, <1>8, <2>2, <2>7, <3>1 DEF StoredWaits, ToastWaits
    <3>4. Clean(s) => made[s] # "alive"
      <4>1. Served(calls[c].org) = home[s] /\ home[s] # None
        BY <1>2, <2>7, <3>1, PagedListAssumption, SuggestionReviewAssumption DEF OwnOrg
      <4>2. ~Elsewhere(calls[c].org, s)
        BY <1>2, <1>3, <4>1, ServedOrElsewhere
      <4> QED BY <1>1, <2>1, <2>7, <3>1, <4>2 DEF UndoPart, NothingMade
    <3>5. NothingMade(s)'
      BY <2>3, <3>1, <3>4 DEF NothingMade
    <3> QED BY <3>2, <3>3, <3>5 DEF UndoPart
  <2>8. CASE calls[c].s = s /\ calls[c].what = "delete"
    <3>1. c \in About(s) /\ status' = status /\ Served(calls[c].org) # None /\ ~created
      BY <1>4, <1>5, <2>2, <2>8 DEF Acts
    <3>2. made'[s] = made[s] \/ made'[s] = "gone"
      BY <1>2, <1>3, <1>4, <2>8, <3>1 DEF UndoTypes
    <3>3. made'[s] # "alive" \/ Elsewhere(calls[c].org, s)
      <4>1. CASE OwnOrg(c)
        BY <1>2, <1>3, <1>4, <2>8, <3>1, <4>1 DEF UndoTypes
      <4>2. CASE ~OwnOrg(c)
        BY <1>2, <1>3, <2>8, <3>1, <4>2, ServedOrElsewhere DEF OwnOrg
      <4> QED BY <4>1, <4>2
    <3>4. ~Acts(c) /\ ~Acts(c)'
      BY <1>6, <1>8, <2>8 DEF Acts
    <3>5. ActAlone(s)'
      <4>1. \A d \in About(s) : Acts(d) /\ calls[d].step \in {"sent", "done"} => ~Calm(s)
        BY <2>1, <3>1, <3>4 DEF UndoPart, ActAlone
      <4> QED BY <2>2, <2>3, <2>4, <3>4, <4>1 DEF ActAlone, Acts
    <3>6. StoredWaits(s)' /\ ToastWaits(s)'
      BY <1>1, <1>6, <1>8, <2>1, <2>2, <2>3, <2>4, <2>8, <3>1
         DEF UndoPart, StoredWaits, ToastWaits, OfferOf
    <3>7. NothingMade(s)'
      <4> SUFFICES ASSUME Clean(s) PROVE NothingMade(s)'
        BY <2>3 DEF NothingMade
      <4>1. NothingMade(s)
        BY <2>1 DEF UndoPart
      <4> QED BY <1>1, <1>6, <1>8, <2>2, <2>4, <2>8, <3>1, <3>2, <3>3, <3>4, <4>1
              DEF NothingMade, OfferOf, Acts, Elsewhere
    <3> QED BY <3>5, <3>6, <3>7 DEF UndoPart
  <2> QED BY <1>5, <2>5, <2>6, <2>7, <2>8
<1> QED BY <1>10, <1>11 DEF UndoInv

\* What a handler hears of: its act is done, its undo too, or it failed.
LEMMA AnswersUndo ==
  ASSUME ReviewInv, UndoInv, NEW c \in Slots,
         ActAnswers(c) \/ BatchAnswers(c) \/ UndoAnswers(c)
  PROVE  UndoInv'
<1>1. ReviewTypes /\ ListTypes /\ calls[c].kind # "idle" /\ calls[c] \in CallRecord
  BY Handlers DEF ReviewInv, Inv, ActAnswers, BatchAnswers, UndoAnswers
<1>2. UNCHANGED <<status, made, unsure>>
  BY DEF ActAnswers, BatchAnswers, UndoAnswers, prompts, counts
<1>3. ASSUME LoadAgain(c)
      PROVE  /\ UNCHANGED member
             /\ \E new \in CallRecord :
                  /\ calls' = [calls EXCEPT ![c] = new]
                  /\ new.kind = calls[c].kind /\ new.s = calls[c].s /\ new.what = calls[c].what
                  /\ new.step = "load"
  <2> DEFINE new == [[calls[c] EXCEPT !.step = "load"] EXCEPT !.load = list'.req]
  <2>1. Reload(calls[c].filter, calls[c].page) /\ calls[c].filter \in Filters /\ calls[c].page \in Nat
    BY <1>1, <1>3 DEF LoadAgain, CallRecord
  <2>2. PageStep /\ UNCHANGED member
    BY <2>1 DEF PageStep, Reload, server
  <2>3. list'.req \in Nat
    BY <2>2, NextKeeps DEF ReviewInv, Inv, ListTypes, List
  <2>4. /\ new \in CallRecord
        /\ new.kind = calls[c].kind /\ new.s = calls[c].s /\ new.what = calls[c].what
        /\ new.step = "load"
    BY <1>1, <2>3 DEF CallRecord, Step
  <2>5. calls' = [calls EXCEPT ![c] = new]
    BY <1>1, <1>3 DEF LoadAgain, ReviewTypes
  <2> HIDE DEF new
  <2> QED BY <2>2, <2>4, <2>5
<1>4. CASE ActAnswers(c)
  <2>1. /\ Acts(c) /\ calls[c].step = "done" /\ LoadAgain(c) /\ UNCHANGED <<twice, astray>>
        /\ undo' = Undo(calls[c].s, calls[c].created) /\ stored' \in {stored, undo'}
    BY <1>4 DEF ActAnswers, UndoInv, UndoTypes, counts
  <2>2. calls[c].what # "reopen"
    BY <2>1 DEF Acts
  <2> QED BY <1>1, <1>2, <1>3, <2>1, <2>2, HeardKeeps DEF Remembers
<1>5. CASE BatchAnswers(c)
  <2>1. /\ Acts(c) /\ calls[c].what # "reopen" /\ calls[c].what \in {"accept", "dismiss", "link"}
        /\ UNCHANGED <<stored, astray>>
    BY <1>5 DEF BatchAnswers, UndoInv, UndoTypes, Acts
  <2>2. CASE calls[c].todo = {} /\ undo' = None /\ LoadAgain(c) /\ UNCHANGED twice
    BY <1>1, <1>2, <1>3, <2>1, <2>2, HeardKeeps DEF Remembers
  <2>3. ASSUME NEW s \in calls[c].todo,
               calls' = [calls EXCEPT ![c] =
                           [Sent(calls[c], s, calls[c].what) EXCEPT !.todo = @ \ {s}]],
               twice' = Twice(s), UNCHANGED <<pages, undo>>
        PROVE  UndoInv'
    <3> DEFINE sent == Sent(calls[c], s, calls[c].what)
    <3> DEFINE new == [sent EXCEPT !.todo = @ \ {s}]
    <3>1. s \in Suggestions /\ calls[c].what \in What
      BY <1>1 DEF CallRecord
    <3>2. sent \in CallRecord /\ sent.s = s /\ sent.what = calls[c].what /\ sent.step = "sent"
      BY <1>1, <3>1, SentFields DEF Resent
    <3> HIDE DEF sent
    <3>3. new \in CallRecord /\ new.s = s /\ new.what = calls[c].what /\ new.step = "sent"
      BY <3>2 DEF CallRecord
    <3>4. calls' = [calls EXCEPT ![c] = new]
      BY <2>3 DEF sent
    <3> HIDE DEF new
    <3>5. UNCHANGED member
      BY <2>3 DEF pages, server
    <3> QED BY <1>1, <1>2, <2>1, <2>3, <3>3, <3>4, <3>5, ActBegins
  <2> QED BY <1>5, <2>2, <2>3 DEF BatchAnswers
<1>6. CASE UndoAnswers(c)
  <2>1. calls[c].kind = "undo" /\ calls[c].step = "done" /\ UNCHANGED <<undo, twice>>
    BY <1>6 DEF UndoAnswers
  <2>2. CASE calls[c].what = "reopen" /\ stored' = None /\ LoadAgain(c) /\ UNCHANGED astray
    <3>1. UNCHANGED member /\ \E new \in CallRecord :
            /\ calls' = [calls EXCEPT ![c] = new]
            /\ new.kind = calls[c].kind /\ new.s = calls[c].s /\ new.what = calls[c].what
            /\ new.step = "load"
      BY <1>3, <2>2
    <3>2. PICK new \in CallRecord :
            /\ calls' = [calls EXCEPT ![c] = new]
            /\ new.kind = calls[c].kind /\ new.s = calls[c].s /\ new.what = calls[c].what
            /\ new.step = "load"
      BY <3>1
    <3>3. new # Idle
      BY Handlers, <1>1 DEF Idle
    <3> QED BY <1>1, <1>2, <2>1, <2>2, <3>1, <3>2, <3>3, HeardKeeps DEF Remembers
  <2>3. CASE /\ calls[c].what = "delete"
             /\ calls' = [calls EXCEPT ![c] = Sent(@, @.s, "reopen")]
             /\ astray' = IF calls[c].org = storedOrganizationId THEN astray
                          ELSE astray \cup {calls[c].s}
             /\ UNCHANGED <<pages, stored>>
    <3>1. calls[c].s \in Suggestions /\ "reopen" \in What
      BY <1>1 DEF CallRecord, What
    <3>2. PICK new \in CallRecord :
            /\ calls' = [calls EXCEPT ![c] = new]
            /\ new.s = calls[c].s /\ new.what = "reopen" /\ new.step = "sent"
            /\ new.org = chosen /\ new.kind = "undo"
      <4> DEFINE sent == Sent(calls[c], calls[c].s, "reopen")
      <4>1. calls' = [calls EXCEPT ![c] = sent]
        BY <1>1, <2>3 DEF ReviewTypes
      <4>2. sent \in CallRecord /\ Resent(sent, calls[c], calls[c].s, "reopen")
        BY <1>1, <3>1, SentFields
      <4> QED BY <2>1, <4>1, <4>2 DEF Resent
    <3>4. UNCHANGED member
      BY <2>3 DEF pages, server
    <3>5. Clean(new.s)' => made[new.s] # "alive" \/ Elsewhere(new.org, new.s)
      <4> SUFFICES ASSUME Clean(new.s)' PROVE made[new.s] # "alive" \/ Elsewhere(new.org, new.s)
        OBVIOUS
      <4>1. new.s \notin astray' /\ Clean(new.s)
        BY <1>2, <2>1, <2>3 DEF Clean, Calm
      <4>3. calls[c].org = chosen
        BY <2>3, <3>2, <4>1 DEF storedOrganizationId
      <4>2. NothingMade(new.s) /\ c \in About(new.s)
        BY <1>1, <3>1, <3>2 DEF UndoInv, UndoPart, About
      <4> QED BY <2>1, <2>3, <3>2, <4>1, <4>2, <4>3 DEF NothingMade
    <3>6. astray \subseteq astray'
      BY <2>3
    <3> QED BY <1>1, <1>2, <2>1, <2>3, <3>2, <3>4, <3>5, <3>6, UndoSends
  <2> QED BY <1>6, <2>2, <2>3 DEF UndoAnswers
<1> QED BY <1>4, <1>5, <1>6

LEMMA EndsUndo ==
  ASSUME ReviewInv, UndoInv, NEW c \in Slots,
         Fails(c) \/ HandlerFails(c) \/ HandlerEnds(c) \/ OrphanEnds(c)
  PROVE  UndoInv'
<1>1. /\ ReviewTypes /\ calls[c].kind # "idle" /\ calls[c] \in CallRecord
      /\ UNCHANGED <<status, made, member, stored, twice, astray>>
  BY Handlers DEF ReviewInv, Fails, HandlerFails, HandlerEnds, OrphanEnds, prompts, pages, server,
                  offers, counts
<1>2. CASE Fails(c)
  <2> DEFINE new == [calls[c] EXCEPT !.step = "failed"]
  <2>1. new \in CallRecord /\ new.kind = calls[c].kind /\ new.s = calls[c].s
        /\ new.what = calls[c].what /\ new.step = "failed"
    BY <1>1 DEF CallRecord, Step
  <2>2. calls' = [calls EXCEPT ![c] = new]
    BY <1>1, <1>2 DEF Fails, ReviewTypes
  <2> HIDE DEF new
  <2>3. /\ UNCHANGED undo /\ unsure \subseteq unsure' /\ calls[c].step # "load"
        /\ calls[c].what = "reopen" /\ calls[c].step = "done" => calls[c].s \in unsure'
    BY <1>2 DEF Fails, offers
  <2> QED BY <1>1, <2>1, <2>2, <2>3, HeardKeeps DEF Remembers
<1>3. CASE HandlerFails(c)
  BY <1>1, <1>3, HeardKeeps DEF HandlerFails, Over, counts, Remembers
<1>4. CASE HandlerEnds(c)
  BY <1>1, <1>4, HeardKeeps DEF HandlerEnds, Over, counts, Remembers
<1>5. CASE OrphanEnds(c)
  BY <1>1, <1>5, HeardKeeps DEF OrphanEnds, offers, Remembers
<1> QED BY <1>2, <1>3, <1>4, <1>5

LEMMA BeginsUndo ==
  ASSUME ReviewInv, UndoInv, NEW c \in Slots,
         \/ \E s \in Suggestions, what \in {"accept", "dismiss", "link"} :
              Act(c, s, what) \/ BatchAct(c, s, what)
         \/ RunUndo(c)
  PROVE  UndoInv'
<1>1. /\ ReviewTypes /\ ListTypes /\ calls[c].kind = "idle"
      /\ UNCHANGED <<status, made, member, undo, stored, unsure, astray>>
  BY Handlers DEF ReviewInv, Inv, Act, BatchAct, RunUndo, prompts, pages, server, offers
<1>2. ASSUME NEW s \in Suggestions, NEW what \in {"accept", "dismiss", "link"},
             Act(c, s, what) \/ BatchAct(c, s, what)
      PROVE  UndoInv'
  <2>1. what \in What
    BY DEF What
  <2>2. PICK kind \in {"act", "batch"}, todo \in SUBSET Suggestions :
               calls' = [calls EXCEPT ![c] = Sent(Call(kind, todo, FALSE), s, what)]
    <3>1. (picked \cap list.rows) \ {s} \in SUBSET Suggestions
      BY <1>1, SuggestionReviewAssumption DEF ListTypes, List
    <3> QED BY <1>2, <3>1 DEF Act, BatchAct
  <2> DEFINE call == Call(kind, todo, FALSE)
  <2>3. call \in Draft
    BY <1>1 DEF Call, Draft, ListTypes, List, Choice
  <2>4. twice' = Twice(s)
    BY <1>2 DEF Act, BatchAct
  <2> HIDE DEF call
  <2> DEFINE new == Sent(call, s, what)
  <2>5. new \in CallRecord /\ new.s = s /\ new.what = what /\ new.step = "sent"
    BY <1>1, <2>1, <2>3, SentFields DEF Resent
  <2>6. calls' = [calls EXCEPT ![c] = new]
    BY <2>2 DEF call
  <2> HIDE DEF new
  <2> QED BY <1>1, <2>4, <2>5, <2>6, ActBegins
<1>3. CASE RunUndo(c)
  <2> DEFINE what == IF undo.entity THEN "delete" ELSE "reopen"
  <2> DEFINE call == Call("undo", {}, undo.entity)
  <2>1. /\ undo # None /\ undo.s \in Suggestions /\ undo.entity \in BOOLEAN
        /\ what \in {"delete", "reopen"} /\ what \in What
    BY <1>1, <1>3 DEF RunUndo, Offered, ReviewTypes, Offer, What
  <2>2. call \in Draft /\ call.kind = "undo"
    BY <1>1, <2>1 DEF Call, Draft, ListTypes, List, Choice
  <2>3. calls' = [calls EXCEPT ![c] = Sent(call, undo.s, what)] /\ UNCHANGED twice
    BY <1>3 DEF RunUndo
  <2>4. OfferOf(undo, undo.s) /\ (what = "reopen" => ~undo.entity)
    BY <2>1 DEF OfferOf
  <2> HIDE DEF call, what
  <2>5. Sent(call, undo.s, what) \in CallRecord
        /\ Resent(Sent(call, undo.s, what), call, undo.s, what)
    BY <1>1, <2>1, <2>2, SentFields
  <2>6. PICK new \in CallRecord :
          /\ calls' = [calls EXCEPT ![c] = new]
          /\ new.s = undo.s /\ new.what = what /\ new.step = "sent" /\ new.kind = "undo"
    BY <2>2, <2>3, <2>5 DEF Resent
  <2>7. new.what = "reopen" /\ Clean(new.s)' => made[new.s] # "alive"
    <3>1. NothingMade(new.s)
      BY <2>1, <2>6 DEF UndoInv, UndoPart
    <3>2. Clean(new.s)' => Clean(new.s)
      BY <1>1, <2>3 DEF Clean, Calm
    <3>3. OfferOf(undo, new.s) /\ (new.what = "reopen" => ~undo.entity)
      BY <2>4, <2>6
    <3> QED BY <3>1, <3>2, <3>3 DEF NothingMade
  <2>8. OfferOf(undo, new.s) /\ new.what \in {"delete", "reopen"}
    BY <2>1, <2>4, <2>6
  <2> QED BY <1>1, <2>3, <2>6, <2>7, <2>8, UndoSends
<1> QED BY <1>2, <1>3

\* The user's organizations only get more.
LEMMA MembersGrow ==
  ASSUME [PageStep]_pages
  PROVE  member \subseteq member'
BY StepKinds DEF PageStep, Next, Browse, Arrive, Trouble, SwitchOrganization, CreateOrganization,
     Logout, SignIn, Retry, MeAnswers, WorkspacesAnswer, LateVisit, ShellRefused, ShellFails,
     OrganizationCreated, LogoutAnswers, LogoutFails, ListTimer, ChangePage, Reload, SetFilter,
     ListAnswers, ListFails, ListRefused, ListRead, Remount, server, pages

LEMMA UndoNext ==
  ASSUME ReviewInv, UndoInv, [ReviewNext]_vars
  PROVE  UndoInv'
<1>1. ReviewTypes /\ [PageStep]_pages /\ member \subseteq member'
  BY ReviewNextKeeps, MembersGrow DEF ReviewInv, Kept
<1>2. CASE Around
  <2>1. /\ UNCHANGED <<status, made, undo, stored, twice, unsure, astray>>
        /\ \/ UNCHANGED calls
           \/ calls' = [c \in Slots |-> IF calls[c] = Idle THEN Idle
                                        ELSE [calls[c] EXCEPT !.mine = FALSE]]
    BY <1>2 DEF Around, Unmounts, prompts
  <2>2. \A call \in CallRecord : /\ [call EXCEPT !.mine = FALSE].kind = call.kind
                                 /\ SameRequest([call EXCEPT !.mine = FALSE], call)
    BY DEF CallRecord, SameRequest
  <2>3. \A d \in Slots : /\ calls'[d].kind = calls[d].kind
                         /\ calls[d].kind # "idle" => SameRequest(calls'[d], calls[d])
    <3>1. CASE UNCHANGED calls
      BY <3>1 DEF SameRequest
    <3>2. CASE calls' = [c \in Slots |-> IF calls[c] = Idle THEN Idle
                                         ELSE [calls[c] EXCEPT !.mine = FALSE]]
      <4> TAKE d \in Slots
      <4>1. CASE calls[d] = Idle
        BY <3>2, <4>1 DEF Idle
      <4>2. CASE calls[d] # Idle
        <5>1. calls[d] \in CallRecord /\ calls'[d] = [calls[d] EXCEPT !.mine = FALSE]
          BY <1>1, <3>2, <4>2 DEF ReviewTypes
        <5> QED BY <2>2, <5>1
      <4> QED BY <4>1, <4>2
    <3> QED BY <2>1, <3>1, <3>2
  <2> QED BY <1>1, <2>1, <2>3, UndoFrame DEF Remembers
<1>3. CASE OpenAnew
  BY <1>1, <1>3, AnewKeeps
<1>4. CASE \E c \in Slots : Handler(c)
  BY <1>4, ServesUndo, AnswersUndo, EndsUndo DEF Handler
<1>5. CASE \/ \E c \in Slots, s \in Suggestions :
                \/ \E what \in {"accept", "dismiss", "link"} : Act(c, s, what)
                \/ \E what \in {"accept", "dismiss"} : BatchAct(c, s, what)
           \/ \E c \in Slots : RunUndo(c)
  BY <1>5, BeginsUndo
<1>6. CASE \/ \E a \in asks : OpenRead(a)
           \/ \E s \in Suggestions : Toggle(s)
           \/ ToggleAll \/ CloseToast \/ UNCHANGED vars
  <2>1. /\ UNCHANGED <<status, made, stored, twice, unsure, astray, calls>>
        /\ undo' \in {undo, None}
    BY <1>6 DEF OpenRead, Toggle, ToggleAll, CloseToast, vars, review, prompts, offers, counts
  <2> QED BY <1>1, <2>1, UndoFrame DEF Remembers, SameRequest
<1> QED BY <1>2, <1>3, <1>4, <1>5, <1>6 DEF ReviewNext

LEMMA UndoSpecInv == ReviewSpec => []UndoInv
<1>1. ReviewInit => UndoInv
  <2> SUFFICES ASSUME ReviewInit PROVE UndoInv
    OBVIOUS
  <2>1. \A c \in Slots : calls[c].kind = "idle"
    BY DEF ReviewInit, Idle
  <2>2. UndoTypes
    BY <2>1 DEF ReviewInit, UndoTypes
  <2>3. \A s \in Suggestions : About(s) = {}
    BY <2>1 DEF About
  <2>4. ASSUME NEW s \in Suggestions PROVE UndoPart(s)
    BY <2>3 DEF ReviewInit, UndoPart, ActAlone, StoredWaits, ToastWaits, NothingMade, OfferOf
  <2> QED BY <2>2, <2>4 DEF UndoInv
<1>2. ReviewInv /\ UndoInv /\ [ReviewNext]_vars => UndoInv'
  BY UndoNext
<1> QED BY <1>1, <1>2, ReviewSpecInv, PTL DEF ReviewSpec

\* What the page offers to undo when it is opened anew is settled: the undo is
\* cleared when it was run (clearLastUndo of suggestions-panel.tsx).  Exempt are
\* a suggestion that was acted on while another act on it was under way or done
\* (twice), and one whose undo reached the server unheard (unsure).
THEOREM StoredUndoLive == ReviewSpec => []StoredUndoIsLive
<1>1. ReviewInv /\ UndoInv => StoredUndoIsLive
  <2> SUFFICES ASSUME ReviewInv, UndoInv, stored # None, status[stored.s] = "open",
                      stored.s \notin twice \cup unsure
               PROVE  \E c \in About(stored.s) : calls[c].what = "reopen"
    BY DEF StoredUndoIsLive
  <2>1. stored.s \in Suggestions
    BY DEF ReviewInv, ReviewTypes, Offer
  <2>2. StoredWaits(stored.s)
    BY <2>1 DEF UndoInv, UndoPart
  <2> QED BY <2>2 DEF StoredWaits, Calm, OfferOf
<1> QED BY <1>1, ReviewSpecInv, UndoSpecInv, PTL

\* An undo takes back all that the acceptance did: it reopens the suggestion
\* when the person or company it made is gone (runUndo of suggestions-panel.tsx).
\* Exempt are twice and unsure as above, and a suggestion opened again though its
\* deletion had gone to another organization (astray).
THEOREM UndoTakesBackAll == ReviewSpec => UndoIsWhole
<1>1. ReviewInv /\ UndoInv /\ [ReviewNext]_vars =>
        [\A s \in Suggestions :
           status[s] # "open" /\ status'[s] = "open" /\ made[s] = "alive" =>
             s \in twice \cup unsure \cup astray]_vars
  <2> SUFFICES ASSUME ReviewInv, UndoInv, ReviewNext, NEW s \in Suggestions,
                      status[s] # "open", status'[s] = "open", made[s] = "alive", Clean(s)
               PROVE  FALSE
    BY DEF Clean, Calm
  <2>1. PICK c \in Slots : Serve(c)
    BY DEF ReviewNext, Around, Unmounts, OpenAnew, OpenRead, Act, BatchAct, Toggle, ToggleAll,
           RunUndo, CloseToast, Handler, Fails, ActAnswers, BatchAnswers, UndoAnswers,
           HandlerFails, HandlerEnds, OrphanEnds, prompts, review
  <2>2. /\ ReviewTypes /\ UndoTypes /\ ShellInv /\ calls[c].kind # "idle"
        /\ calls[c].step = "sent" /\ calls[c] \in CallRecord
    BY <2>1, Handlers DEF ReviewInv, Inv, UndoInv, Serve
  <2>3. calls[c].s \in Suggestions /\ calls[c].org \in Choice
    BY <2>2 DEF CallRecord
  <2>4. \/ Acts(c) /\ \E to \in {"accepted", "dismissed"} :
                         status' = [status EXCEPT ![calls[c].s] = to]
        \/ calls[c].what = "reopen" /\ OwnOrg(c)
           /\ status' = [status EXCEPT ![calls[c].s] = "open"]
        \/ UNCHANGED status
    BY <2>1, <2>2, ServeEffect
  <2>5. calls[c].s = s /\ calls[c].what = "reopen" /\ OwnOrg(c)
    BY <2>2, <2>3, <2>4 DEF UndoTypes
  <2>6. Elsewhere(calls[c].org, s)
    BY <2>2, <2>5 DEF UndoInv, UndoPart, NothingMade, About
  <2>7. Served(calls[c].org) = home[s] /\ home[s] # None
    BY <2>5, PagedListAssumption, SuggestionReviewAssumption DEF OwnOrg
  <2> QED BY <2>2, <2>3, <2>6, <2>7, ServedOrElsewhere
<1> QED BY <1>1, ReviewSpecInv, UndoSpecInv, PTL DEF ReviewSpec, UndoIsWhole
=============================================================================
