---------------------------- MODULE SettingsPage ----------------------------
(***************************************************************************)
(* The page of settings (views/settings-view.tsx and settings-panel.tsx):  *)
(* lists of members, invitations, email accounts and API tokens, a button  *)
(* or two for every row, and forms that invite, make a token and connect a *)
(* mailbox.                                                                *)
(*                                                                         *)
(* A handler sends its request, loads the page again and only then is      *)
(* done.  What it loads with is a closure of when it began: a handler that *)
(* ends after another organization was chosen loads the former one again.  *)
(* The organization of members and invitations is that of the closure, the *)
(* one of accounts and tokens the one lib/api.ts has in store.             *)
(*                                                                         *)
(* The user is signed in and a member of all organizations; what else may  *)
(* become of the shell is in PagedList.  Which rows a list holds is left   *)
(* open: each may be in it.                                                *)
(***************************************************************************)
EXTENDS Naturals, FiniteSets

CONSTANTS
  Teams,     \* organizations
  Managed,   \* those the user is an owner or admin of
  Members, Invitations, Tokens, Accounts,  \* rows of the four lists
  Nobody,    \* no row, and no organization: a list that is empty
  MaxSteps,  \* things the user does, but for opening and closing a sheet
  MaxJobs,   \* handlers under way
  MaxLost    \* requests that fail

ASSUME SettingsAssumption ==
  /\ Managed \subseteq Teams
  /\ Nobody \notin Teams \cup Members \cup Invitations \cup Tokens \cup Accounts
  /\ MaxSteps \in Nat /\ MaxJobs \in Nat /\ MaxLost \in Nat

VARIABLES
  header,     \* storedOrganizationId
  selected,   \* shell.selectedOrganizationId
  arriving,   \* what the shell waits for: "me", "workspaces", "none" or an "error"
  panel,      \* [state, req, members, invitations, accounts, stale]
  loads,      \* loadSettings under way
  jobs,       \* handlers under way
  busy,       \* busyMemberId
  account,    \* [open, draft, test]: the form of a new account, and emailTestState
  steps, lost,
  proven,     \* accounts whose connection was tested with success
  hasty       \* accounts that were typed while a test was under way

shellVars == <<header, selected, arriving>>
ghostVars == <<proven, hasty>>
settingsVars == <<shellVars, panel, loads, jobs, busy, account, steps, lost, ghostVars>>

ShellReady == arriving = "none"
canManage == selected \in Managed

\* A sheet is modal: nothing behind it can be clicked.
NoSheet == ~account.open

Asked(id, o, j) ==
  [id |-> id, org |-> o, box |-> header, job |-> j, stale |-> o # selected]

SettingsInit ==
  /\ header \in Teams /\ selected = header
  /\ arriving = "none"
  /\ panel = [state |-> "loading", req |-> 1, members |-> Nobody, invitations |-> Nobody,
              accounts |-> Nobody, stale |-> FALSE]
  /\ loads = {Asked(1, header, 0)}
  /\ jobs = {}
  /\ busy = Nobody
  /\ account = [open |-> FALSE, draft |-> 0, test |-> "idle"]
  /\ steps = 0 /\ lost = 0
  /\ proven = {} /\ hasty = {}

-----------------------------------------------------------------------------
(***************************************************************************)
(* The shell, and loadSettings.                                            *)
(***************************************************************************)
Step == steps < MaxSteps /\ steps' = steps + 1

\* loadSettings for organization o; j is the handler that waits for it.
loadSettings(o, j) ==
  /\ panel' = [panel EXCEPT !.req = @ + 1, !.state = "loading"]
  /\ loads' = loads \cup {Asked(panel.req + 1, o, j)}

SwitchTeam(o) ==
  /\ NoSheet /\ o # selected
  /\ Step
  /\ header' = o /\ arriving' = "me"
  /\ UNCHANGED <<selected, panel, loads, jobs, busy, account, lost, ghostVars>>

TeamAnswers ==
  /\ arriving = "me"
  /\ selected' = header /\ arriving' = "workspaces"
  /\ UNCHANGED <<header, panel, loads, jobs, busy, account, steps, lost, ghostVars>>

\* The effect on shell.state runs.
TeamReady ==
  /\ arriving = "workspaces"
  /\ arriving' = "none"
  /\ loadSettings(selected, 0)
  /\ UNCHANGED <<header, selected, jobs, busy, account, steps, lost, ghostVars>>

TeamFails ==
  /\ arriving \in {"me", "workspaces"} /\ lost < MaxLost
  /\ arriving' = "error" /\ lost' = lost + 1
  /\ UNCHANGED <<header, selected, panel, loads, jobs, busy, account, steps, ghostVars>>

\* A handler is done: its finally.
Done(j) ==
  /\ jobs' = {k \in jobs : k.n # j}
  /\ busy' = IF \E k \in jobs : k.n = j /\ k.row # Nobody THEN Nobody ELSE busy

\* Mutated form: an answer counts whoever asked for it.
MSettingsAnswer(l) ==
  /\ l \in loads
  /\ loads' = loads \ {l} /\ Done(l.job)
  /\ panel' = [panel EXCEPT !.state = "ready", !.members = l.org, !.invitations = l.org,
                            !.accounts = l.box, !.stale = l.stale]
  /\ UNCHANGED <<shellVars, account, steps, lost, ghostVars>>

SettingsAnswer(l) ==
  /\ l \in loads
  /\ loads' = loads \ {l} /\ Done(l.job)
  /\ panel' = IF l.id = panel.req
                THEN [panel EXCEPT !.state = "ready", !.members = l.org, !.invitations = l.org,
                                   !.accounts = l.box, !.stale = l.stale]
                ELSE panel
  /\ UNCHANGED <<shellVars, account, steps, lost, ghostVars>>

\* All lists are emptied but the one of invitations.
SettingsFail(l) ==
  /\ l \in loads /\ lost < MaxLost
  /\ lost' = lost + 1
  /\ loads' = loads \ {l} /\ Done(l.job)
  /\ panel' = IF l.id = panel.req
                THEN [panel EXCEPT !.state = "error", !.members = Nobody, !.accounts = Nobody]
                ELSE panel
  /\ UNCHANGED <<shellVars, account, steps, ghostVars>>

-----------------------------------------------------------------------------
(***************************************************************************)
(* Handlers send a request, with the organization and the loadSettings of  *)
(* when they were clicked.                                                 *)
(***************************************************************************)
Running(op) == \E j \in jobs : j.op = op

\* A name for a handler that no other has.
Unused == CHOOSE n \in 1..MaxJobs : \A j \in jobs : j.n # n

Begin(op, row, data) ==
  /\ Step
  /\ Cardinality(jobs) < MaxJobs
  /\ jobs' = jobs \cup {[op |-> op, row |-> row, data |-> data, n |-> Unused, org |-> selected,
                         ready |-> ShellReady, state |-> "sent"]}

\* A handler of a row, which is busy meanwhile: one row at a time.  What it
\* changes is the server's matter.
RowJob(row) ==
  /\ NoSheet /\ busy # row
  /\ Begin("row", row, 0)
  /\ busy' = row
  /\ UNCHANGED <<shellVars, panel, loads, account, lost, ghostVars>>

\* MembersSection: the role, and the removal.  It shows no rows while the page
\* loads.  Who is the last owner, who cannot be changed, is left open.
ChangeMember(row) ==
  /\ row \in Members /\ canManage
  /\ panel.state = "ready" /\ panel.members # Nobody
  /\ RowJob(row)

\* InvitationsSection
ResendInvitation(row) ==
  /\ row \in Invitations /\ canManage /\ panel.invitations # Nobody
  /\ RowJob(row)

\* ApiTokensSection
TokenRow(row) == row \in Tokens /\ panel.accounts # Nobody
RevokeToken(row) == TokenRow(row) /\ RowJob(row)

\* EmailIntegrationsSection: the switch, the removal, and the editor of a row,
\* of which one is open at most; which one is left open.
AccountRow(row) == row \in Accounts /\ panel.accounts # Nobody
ChangeAccount(row) == AccountRow(row) /\ RowJob(row)

\* The form of InvitationsSection, disabled while it is sent.
InviteForm == NoSheet /\ canManage /\ ~Running("invite")
Invite ==
  /\ InviteForm
  /\ Begin("invite", Nobody, 0)
  /\ UNCHANGED <<shellVars, panel, loads, busy, account, lost, ghostVars>>

\* The sheet that makes a token, whose opening and closing is left out.
CreateToken ==
  /\ NoSheet /\ ~Running("token")
  /\ Begin("token", Nobody, 0)
  /\ UNCHANGED <<shellVars, panel, loads, busy, account, lost, ghostVars>>

-----------------------------------------------------------------------------
(***************************************************************************)
(* The sheet that connects a mailbox.  A draft is the number of the step   *)
(* that typed it, 0 the empty form; the fields for SMTP, which the test    *)
(* does not use, are no part of it.                                        *)
(***************************************************************************)
AddAccount ==
  /\ NoSheet
  /\ account' = [open |-> TRUE, draft |-> 0, test |-> "idle"]
  /\ UNCHANGED <<shellVars, panel, loads, jobs, busy, steps, lost, ghostVars>>

CloseAccount ==
  /\ account.open
  /\ account' = [account EXCEPT !.open = FALSE]
  /\ UNCHANGED <<shellVars, panel, loads, jobs, busy, steps, lost, ghostVars>>

Typing == hasty' = IF Running("test") THEN hasty \cup {steps + 1} ELSE hasty

\* Mutated form: what was tested before stays tested.
MTypeAccount ==
  /\ account.open
  /\ Step
  /\ account' = [account EXCEPT !.draft = steps + 1] /\ Typing
  /\ UNCHANGED <<shellVars, panel, loads, jobs, busy, lost, proven>>

TypeAccount ==
  /\ account.open
  /\ Step
  /\ account' = [account EXCEPT !.draft = steps + 1, !.test = "idle"] /\ Typing
  /\ UNCHANGED <<shellVars, panel, loads, jobs, busy, lost, proven>>

testEmailAccount ==
  /\ account.open /\ account.test # "testing"
  /\ Begin("test", Nobody, account.draft)
  /\ account' = [account EXCEPT !.test = "testing"]
  /\ UNCHANGED <<shellVars, panel, loads, busy, lost, ghostVars>>

\* An empty form does not pass the browser's check of required fields.
saveEmailAccount ==
  /\ account.open /\ account.draft # 0
  /\ account.test = "success" /\ ~Running("account")
  /\ Begin("account", Nobody, account.draft)
  /\ UNCHANGED <<shellVars, panel, loads, busy, account, lost, ghostVars>>

-----------------------------------------------------------------------------
(***************************************************************************)
(* A request is answered.                                                  *)
(***************************************************************************)

\* The handler loads the page again.  A loadSettings made while the shell was
\* loading does nothing.
Refresh(j) ==
  IF j.ready
    THEN /\ jobs' = (jobs \ {j}) \cup {[j EXCEPT !.state = "refreshing"]}
         /\ loadSettings(j.org, j.n)
         /\ UNCHANGED busy
    ELSE Done(j.n) /\ UNCHANGED <<panel, loads>>

\* A new account closes the form, whatever it holds by now.
JobSucceeds(j) ==
  /\ j \in jobs /\ j.state = "sent" /\ j.op # "test"
  /\ account' = IF j.op = "account" THEN [open |-> FALSE, draft |-> 0, test |-> "idle"] ELSE account
  /\ Refresh(j)
  /\ UNCHANGED <<shellVars, steps, lost, ghostVars>>

JobFails(j) ==
  /\ j \in jobs /\ j.state = "sent" /\ j.op # "test" /\ lost < MaxLost
  /\ lost' = lost + 1
  /\ Done(j.n)
  /\ UNCHANGED <<shellVars, panel, loads, account, steps, ghostVars>>

\* The server connects to the mailbox, or does not; an empty form it refuses.
TestAnswers(j) ==
  /\ j \in jobs /\ j.op = "test"
  /\ Done(j.n)
  /\ \/ /\ j.data # 0
        /\ account' = [account EXCEPT !.test = "success"]
        /\ proven' = proven \cup {j.data}
     \/ account' = [account EXCEPT !.test = "error"] /\ UNCHANGED proven
  /\ UNCHANGED <<shellVars, panel, loads, steps, lost, hasty>>

-----------------------------------------------------------------------------
RowClicks ==
  \/ \E row \in Members : ChangeMember(row)
  \/ \E row \in Invitations : ResendInvitation(row)
  \/ \E row \in Tokens : RevokeToken(row)
  \/ \E row \in Accounts : ChangeAccount(row)

SheetClicks ==
  \/ AddAccount \/ CloseAccount \/ TypeAccount \/ testEmailAccount \/ saveEmailAccount

SettingsNext ==
  \/ \E o \in Teams : SwitchTeam(o)
  \/ TeamAnswers \/ TeamReady \/ TeamFails
  \/ \E l \in loads : SettingsAnswer(l) \/ SettingsFail(l)
  \/ Invite \/ CreateToken \/ RowClicks \/ SheetClicks
  \/ \E j \in jobs : JobSucceeds(j) \/ JobFails(j) \/ TestAnswers(j)

-----------------------------------------------------------------------------
\* Once the page has been loaded, all its lists are of the organization that is
\* chosen - members and invitations by their path, accounts and tokens by what
\* lib/api.ts adds - whatever was still under way when it was chosen.  Exempt
\* is a page that a handler of before the choice has loaded again.
SettingsOfChosenTeam ==
  ShellReady /\ panel.state = "ready" /\ ~panel.stale =>
    /\ panel.members = selected
    /\ panel.invitations = selected
    /\ panel.accounts = selected

\* "The account cannot be saved until the test succeeds" (settings-panel.tsx:333):
\* what is sent is what was tested, unless it was typed while a test was under way.
SavedAsTested ==
  \A j \in jobs : j.op = "account" => j.data \in proven \cup hasty
=============================================================================
