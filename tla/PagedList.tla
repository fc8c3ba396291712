------------------------------ MODULE PagedList ------------------------------
(***************************************************************************)
(* A page of the web app: the shell that finds out who the user is and     *)
(* which organization is chosen (hooks/use-crm-shell.ts), and the list it  *)
(* shows, with filter and pages (hooks/use-paged-list.ts).                 *)
(*                                                                         *)
(* Every request may be answered late, after the user has moved on.  The   *)
(* shell and the list number their requests and drop an answer that is not *)
(* of the last.  The chosen organization is no part of a request's         *)
(* closure: it is a variable of the module lib/api.ts, kept in the local   *)
(* storage and read when a request is sent.                                *)
(***************************************************************************)
EXTENDS Naturals, FiniteSets

CONSTANTS
  Orgs,       \* organizations
  Former,     \* one that was chosen once and the user is no member of
  Event,      \* what "I already signed in" passes for an organization
  None,       \* the empty string
  Filters,    \* values of the filters above the list
  Cookie,     \* the one the page begins with
  Rows,       \* what a list can show
  PageSize,
  MaxShells, MaxLoads   \* requests of the shell and of the list

ASSUME PagedListAssumption ==
  /\ IsFiniteSet(Orgs)
  /\ {Former, Event, None} \cap Orgs = {}
  /\ None \notin {Former, Event}
  /\ \A found \in SUBSET Rows : found # None
  /\ Cookie \in Filters
  /\ PageSize \in Nat \ {0}
  /\ MaxShells \in Nat /\ MaxLoads \in Nat

VARIABLES
  session,  \* whether the session cookie is good
  member,   \* the user's organizations
  chosen,   \* selectedOrganizationId of lib/api.ts
  shell,    \* state, requestIdRef, the organization shown, those known
  visits,   \* loadShell under way: [id, step, org]
  leaving,  \* a sign-out is under way
  founding, \* the organization the gate is creating
  filter,
  timer,    \* the list's debounce is running
  list,     \* requestIdRef, loading, loadError, and what is shown
  asks      \* loads of the list under way

server == <<session, member>>
flow == <<shell, visits, leaving, founding>>
pages == <<server, chosen, flow, filter, timer, list, asks>>

\* Where a request with this organization_id ends up (currentAccess): without
\* one in the user's only organization; None stands for a refusal.
Served(o) ==
  CASE ~session -> None
    [] session /\ o \in member -> o
    [] session /\ o = None /\ Cardinality(member) = 1 -> CHOOSE m \in member : TRUE
    [] OTHER -> None

\* The organization a request is sent to (pathWithOrganization).
storedOrganizationId == chosen

NoList == [req |-> 0, loading |-> FALSE, error |-> FALSE, shown |-> 0, org |-> None,
           filter |-> None, page |-> 0, stale |-> FALSE, rows |-> {}]

Visit(id, step, o) == [id |-> id, step |-> step, org |-> o]

Init ==
  /\ session \in BOOLEAN /\ member \in SUBSET Orgs
  /\ chosen \in member \cup {None, Former}
  /\ shell = [state |-> "loading", req |-> 1, org |-> None, orgs |-> {}]
  /\ visits = {Visit(1, "me", None)}
  /\ leaving = FALSE /\ founding = None
  /\ filter = Cookie
  /\ timer = FALSE
  /\ list = NoList
  /\ asks = {}

-----------------------------------------------------------------------------
(***************************************************************************)
(* The shell.                                                              *)
(***************************************************************************)

\* loadShell(organizationIdOverride): the list is disabled, so its timer goes.
LoadShell(o) ==
  /\ shell.req < MaxShells
  /\ shell' = [shell EXCEPT !.req = @ + 1, !.state = "loading"]
  /\ visits' = visits \cup {Visit(shell.req + 1, "me", o)}
  /\ timer' = FALSE

\* The override or what is stored, if the user is a member; else the only one.
Selected(o) ==
  LET wanted == IF o = None THEN storedOrganizationId ELSE o
  IN  CASE wanted \in member -> wanted
        [] wanted \notin member /\ Cardinality(member) = 1 -> CHOOSE m \in member : TRUE
        [] OTHER -> None

MeAnswers(v) ==
  /\ v \in visits /\ v.step = "me" /\ session /\ v.id = shell.req
  /\ shell' = [shell EXCEPT !.orgs = member, !.org = Selected(v.org),
                            !.state = IF Selected(v.org) = None THEN "needs-organization" ELSE @]
  /\ chosen' = IF Selected(v.org) = None THEN chosen ELSE Selected(v.org)
  /\ visits' = (visits \ {v}) \cup IF Selected(v.org) = None THEN {}
                                   ELSE {Visit(v.id, "workspaces", None)}
  /\ UNCHANGED <<server, leaving, founding, filter, timer, list, asks>>

\* The shell is ready, which starts the debounce of the list.
WorkspacesAnswer(v) ==
  /\ v \in visits /\ v.step = "workspaces" /\ Served(chosen) # None /\ v.id = shell.req
  /\ shell' = [shell EXCEPT !.state = "ready"]
  /\ visits' = visits \ {v}
  /\ timer' = TRUE
  /\ UNCHANGED <<server, chosen, leaving, founding, filter, list, asks>>

\* setLoadError: the server knows no session, or something else went wrong.
ShellFails(v, why) ==
  /\ v \in visits /\ v.id = shell.req
  /\ shell' = [shell EXCEPT !.state = why]
  /\ visits' = visits \ {v}
  /\ UNCHANGED <<server, chosen, leaving, founding, filter, timer, list, asks>>

\* The server refuses: no session, or no organization to serve.
ShellRefused(v) ==
  \/ ~session /\ ShellFails(v, "unauthorized")
  \/ session /\ v.step = "workspaces" /\ Served(chosen) = None /\ ShellFails(v, "error")

\* An answer that is not of the last loadShell is dropped.
LateVisit(v) ==
  /\ v \in visits /\ v.id # shell.req
  /\ visits' = visits \ {v}
  /\ UNCHANGED <<server, chosen, shell, leaving, founding, filter, timer, list, asks>>

\* The frame with the two selects and the account menu is on the screen.
Framed == shell.state \in {"loading", "ready", "error"}

\* The select of the frame, which reports a change only, and the gate.
OrganizationSelect(o) == Framed /\ o \in shell.orgs /\ o # shell.org
OrganizationGate(o) == shell.state = "needs-organization" /\ o \in shell.orgs

\* useOrganizationSwitcher
SwitchOrganization(o) ==
  /\ OrganizationSelect(o) \/ OrganizationGate(o)
  /\ chosen' = o
  /\ LoadShell(o)
  /\ UNCHANGED <<server, leaving, founding, filter, list, asks>>

\* OrganizationGate: the form creates one, and loads the shell for it.
CreateOrganization(o) ==
  /\ shell.state = "needs-organization" /\ session
  /\ founding = None /\ o \in Orgs \ member
  /\ founding' = o
  /\ member' = member \cup {o}
  /\ UNCHANGED <<session, chosen, shell, visits, leaving, filter, timer, list, asks>>

OrganizationCreated ==
  /\ founding # None
  /\ LoadShell(founding)
  /\ founding' = None
  /\ UNCHANGED <<server, chosen, leaving, filter, list, asks>>

\* useLogout: the choice is forgotten before the request is sent.
Logout ==
  /\ Framed /\ ~leaving
  /\ leaving' = TRUE
  /\ chosen' = None
  /\ UNCHANGED <<server, shell, visits, founding, filter, timer, list, asks>>

LogoutAnswers ==
  /\ leaving
  /\ leaving' = FALSE
  /\ session' = FALSE
  /\ LoadShell(None)
  /\ UNCHANGED <<member, chosen, founding, filter, list, asks>>

\* The rest of logout() does not run; the request may have come through.
LogoutFails ==
  /\ leaving
  /\ leaving' = FALSE
  /\ session' \in {session, FALSE}
  /\ UNCHANGED <<member, chosen, shell, visits, founding, filter, timer, list, asks>>

\* The link of the mail is opened in another tab.
SignIn ==
  /\ shell.state = "unauthorized" /\ ~session
  /\ session' = TRUE
  /\ UNCHANGED <<member, chosen, flow, filter, timer, list, asks>>

\* "I already signed in" (onRetry): the click event becomes the override.
Retry ==
  /\ shell.state = "unauthorized"
  /\ LoadShell(Event)
  /\ UNCHANGED <<server, chosen, leaving, founding, filter, list, asks>>

\* The page is opened anew; the counters go on, which nobody can tell.
Remount ==
  /\ shell.req < MaxShells
  /\ shell' = [state |-> "loading", req |-> shell.req + 1, org |-> None, orgs |-> {}]
  /\ visits' = {Visit(shell.req + 1, "me", None)}
  /\ leaving' = FALSE /\ founding' = None
  /\ timer' = FALSE
  /\ list' = [NoList EXCEPT !.req = list.req]
  /\ asks' = {}
  /\ UNCHANGED <<server, chosen, filter>>

-----------------------------------------------------------------------------
(***************************************************************************)
(* The list.                                                               *)
(***************************************************************************)

\* load(nextPage) of a closure that was made for filter f.
Load(f, p) ==
  /\ list.req < MaxLoads
  /\ list' = [list EXCEPT !.req = @ + 1, !.loading = TRUE, !.error = FALSE]
  /\ asks' = asks \cup {[id |-> list.req + 1, org |-> storedOrganizationId, filter |-> f,
                         page |-> p, stale |-> f # filter, found |-> None]}

\* Mutated form: the filter is no dependency of the effect that loads.
MSetFilter(f) ==
  /\ Framed /\ f # filter
  /\ filter' = f
  /\ UNCHANGED <<server, chosen, flow, timer, list, asks>>

\* WorkspaceFilter, or a filter of the page's own.
Filterable(f) == Framed /\ f # filter

\* A filter changes: the list gets a new load, and that starts the debounce.
SetFilter(f) ==
  /\ Filterable(f)
  /\ filter' = f
  /\ timer' = (shell.state = "ready")
  /\ UNCHANGED <<server, chosen, flow, list, asks>>

\* The debounce is over.
ListTimer ==
  /\ timer
  /\ Load(filter, 0)
  /\ timer' = FALSE
  /\ UNCHANGED <<server, chosen, flow, filter>>

\* What PagedTable wraps is on the screen.
Listed == shell.state = "ready" /\ ~list.error

\* "Previous" and "Next" of PagedTable.
ChangePage(p) ==
  /\ Listed /\ ~list.loading
  /\ \/ p + 1 = list.page
     \/ p = list.page + 1 /\ (Cardinality(list.rows) = PageSize \/ list.shown = 0)
  /\ Load(filter, p)
  /\ UNCHANGED <<server, chosen, flow, filter, timer>>

\* A handler that is done loads the list again, with the filter and the page
\* of when it began.
Reload(f, p) ==
  /\ Load(f, p)
  /\ UNCHANGED <<server, chosen, flow, filter, timer>>

\* The server reads the page that is asked for.
ListRead(a, found) ==
  /\ a \in asks /\ a.found = None /\ Served(a.org) # None
  /\ Cardinality(found) <= PageSize
  /\ asks' = (asks \ {a}) \cup {[a EXCEPT !.found = found]}
  /\ UNCHANGED <<server, chosen, flow, filter, timer, list>>

\* Mutated form: the answer counts whoever asked for it.
MListAnswers(a) ==
  /\ a \in asks /\ a.found # None
  /\ asks' = asks \ {a}
  /\ list' = [list EXCEPT !.loading = FALSE, !.shown = a.id, !.org = a.org, !.filter = a.filter,
                          !.page = a.page, !.stale = a.stale, !.rows = a.found]
  /\ UNCHANGED <<server, chosen, flow, filter, timer>>

ListAnswers(a) ==
  /\ a \in asks /\ a.found # None
  /\ asks' = asks \ {a}
  /\ list' = IF a.id = list.req
               THEN [list EXCEPT !.loading = FALSE, !.shown = a.id, !.org = a.org,
                                 !.filter = a.filter, !.page = a.page, !.stale = a.stale,
                                 !.rows = a.found]
               ELSE list
  /\ UNCHANGED <<server, chosen, flow, filter, timer>>

ListFails(a) ==
  /\ a \in asks
  /\ asks' = asks \ {a}
  /\ list' = IF a.id = list.req THEN [list EXCEPT !.loading = FALSE, !.error = TRUE] ELSE list
  /\ UNCHANGED <<server, chosen, flow, filter, timer>>

ListRefused(a) == a.found = None /\ Served(a.org) = None /\ ListFails(a)

-----------------------------------------------------------------------------
\* What the user does, on the shell and on the list.
Browse ==
  \/ \E o \in Orgs : SwitchOrganization(o) \/ CreateOrganization(o)
  \/ Logout \/ SignIn \/ Retry
  \/ \E f \in Filters : SetFilter(f)
  \/ \E p \in 0..MaxLoads : ChangePage(p)

\* What answers and timers do.
Arrive ==
  \/ \E v \in visits : MeAnswers(v) \/ WorkspacesAnswer(v) \/ LateVisit(v) \/ ShellRefused(v)
  \/ OrganizationCreated \/ LogoutAnswers
  \/ ListTimer
  \/ \E a \in asks : ListAnswers(a) \/ ListRefused(a)

\* A request fails.
Trouble ==
  \/ \E v \in visits : ShellFails(v, "error")
  \/ \E a \in asks : ListFails(a)
  \/ LogoutFails

Next ==
  \/ Browse \/ Arrive \/ Trouble \/ Remount
  \/ \E f \in Filters, p \in 0..MaxLoads : Reload(f, p)
  \/ \E a \in asks, found \in SUBSET Rows : ListRead(a, found)

Spec == Init /\ [][Next]_pages

-----------------------------------------------------------------------------
\* Once the shell is ready and nothing is on its way, the list on the screen
\* is one of the chosen organization, and of the filter above it - also after
\* the user changed either while requests were under way.  Exempt is a list
\* that a handler loaded again with the filter of when it began, and the
\* time after a sign-out that did not come through.
SettledListMatches ==
  shell.state = "ready" /\ ~timer /\ ~list.loading /\ ~list.error /\ chosen # None =>
    /\ list.shown = list.req /\ list.shown # 0
    /\ list.org = chosen
    /\ list.stale \/ list.filter = filter

\* The list shows an answer only if nothing was asked after it.
Latest == INSTANCE LatestAnswer WITH asked <- list.req, shown <- list.shown
ShowsLatest == Latest!Spec
=============================================================================
