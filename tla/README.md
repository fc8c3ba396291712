# A TLA+ verification project for CRME

CRME (`src/README.md`) is a self-hosted CRM: a Go API over PostgreSQL
(`src/internal`, `src/cmd/server`), a Next.js frontend, a browser extension, a
command line and an importer.  This directory models the part of it in which
something can go wrong that a unit test hardly reaches: on the server, requests
and background jobs that interleave between database transactions, statements
that fail half way, row level security (RLS) that hides rows from the very
caller they are for; in the web app and the extension, answers that come in
another order than they were asked for, handlers that go on after the user has
moved elsewhere, chains of requests of which one is lost.

Contents: [components](#1-the-system) · [modules](#2-modules-and-the-code) ·
[runs](#3-runs) · [bounds](#4-bounds) · [fairness](#5-fairness) ·
[proofs](#6-proofs) · [what is left out](#7-what-is-not-modelled) ·
[plan](#8-plan)

Source paths below are relative to `src/internal` unless they start with
`src/`.

## 1. The system

The server is one process: an HTTP server with a goroutine per request and two
optional background goroutines, `runEmailSync` and `runHousekeeping`
(`src/cmd/server/main.go`).  Handlers call use-case services; these call stores
that run SQL through one connection pool.  There is no in-memory state shared
between requests except the rate limiters: **the database is the shared
state**, every statement outside `WithinTx` is its own transaction at READ
COMMITTED, and a "process" of these models is a request or job that runs several
of them in a row.  Every statement sets `app.user_id`, `app.organization_id`
and `app.role` for the policies of the migrations.  There are two deployments: a
development database owned by a superuser, where policies bind nobody, and
production, where the role must not be the owner (`src/docs/database-roles.md`).
The models have this as a constant (`RLSEnforced`, `RLS`).

| Component | State | Operations | Interacts with | What is hard |
|---|---|---|---|---|
| Organisations, members, invitations (`usecase/auth.go`, `adapters/postgres/store.go`) | `organizations`, `organization_members`, `organization_invitations`, `audit_logs` | create organisation, change and remove members, invite, resend, accept, audit | RLS, mail provider, `users` of sign-in | checks and writes in different transactions; resend against accept; audit row after the commit; policies on joined tables |
| Sign-in, sessions, API tokens (`usecase/auth.go`) | `users`, `magic_links`, `sessions`, `api_tokens` | request link, verify, log out, create and revoke token | housekeeping, mail provider, rate limiter | one-use links, bootstrap race, expiry, failure after consumption |
| Housekeeping (`usecase/housekeeping.go`) | none of its own | delete dead links, sessions, conversations | sign-in, assistant | deletes with a time read earlier; RLS |
| Email accounts and secrets (`usecase/email.go`, `secrets/`) | `email_accounts`, `runtime_secrets` | create, test, update, delete | IMAP, sync | secret stored before the account |
| Sync scheduler (`usecase/email.go` `SyncAccounts`) | `last_synced_at` | take up to *limit* mailboxes, longest unsynced first | ticker, `POST /email/sync` | starvation by mailboxes that never advance |
| Folder sync (`usecase/email.go`, `adapters/email/imap.go`) | `email_sync_cursors`, `email_messages` | list folders, fetch, process, mark | IMAP server | cursor against arriving mail, overlap of syncs, partial failure |
| Mail processing and suggestions (`usecase/email.go`, `usecase/suggestions.go`) | `email_messages`, `activities`, `activity_links`, `ai_prompts`, `suggestion_suppressions`, `people`, `companies` | process message, accept, link, dismiss, suppress, link history | unit of work, CRM records | units of work see only committed rows; nested transactions; duplicates |
| CRM records (`usecase/crm.go`, `adapters/postgres/crm.go`) | people, companies, deals, relations, tasks, activities, tags, workspaces | CRUD, PATCH, link, tag, touch | everything | tables that name an entity without a foreign key; PATCH as read, modify, write |
| Connections and units of work (`adapters/postgres/store.go`, `tx.go`) | the pool | statement, `WithinTx`, nested `begin` | everything | a unit of work that needs a second connection |
| Assistant (`usecase/ai.go`, `adapters/postgres/assistant.go`) | `assistant_conversations` | chat with read tools, propose and execute an action, save | language model, CRM, suggestions, `crmctl chat` | clients that give up while the server goes on, confirmation sent twice, whole-list overwrite |
| Rate limiter (`adapters/httpapi/ratelimit.go`) | hits per key | allow | sign-in handler | unbounded map, two limiters in a row |
| Administration, audit listing, HTTP routing, configuration, notifications, tracing | none or read only | | | |
| Browser extension (`src/extension`) | a tab's status, data and panel (`content.ts`); requests of the background script; the list of recent captures | scrape, check, add, update, search, pick | HTTP API, the page of LinkedIn, navigation inside a tab | nothing is cancelled when the address changes; a save is a chain of requests |
| Shell, lists, suggestion review (`src/frontend/src/hooks`, `lib/api.ts`, `views/suggestions-view.tsx`, `suggestions-panel.tsx`, `crm-shared.tsx`) | the session, the chosen organisation (a variable of `api.ts` and of the local storage), `requestIdRef`, the list and its page, busy marks, the toast and its stored undo | sign-in and out, choose, filter, turn pages, accept, dismiss, link, batch, undo | HTTP API | late answers; an organisation that is read when a request is sent and not when its handler began; undo in two requests |
| Record sheets (`components/views/*-view.tsx`, `components/sheets`) | the list, the copy of a record in the sheet, its details, the forms | open, close, save, switch, delete, link, create | HTTP API | answers for a sheet that shows another record; whole objects written back |
| Settings page (`settings-view.tsx`, `settings-panel.tsx`, `settings-sections.tsx`) | lists of two kinds of organisation, busy marks, the account form and the state of its test | load, invite, change and remove rows, test and save an account | shell, HTTP API | closures of the former organisation; a test of what is no longer in the form |
| `crmctl`, `import-twenty`, landing and login pages | outside the server | | HTTP API, database | partial imports |

What makes each modelled component correct is in section 3; the hazards, each
at its line and with the properties that would catch it, are in
`PROJECT.json`.

## 2. Modules and the code

Common conventions.  One action is one transaction (or one call of an external
service) of a handler, named after the function or method; `req[r]`, `work[w]`
or `sync[s]` is the request, unit of work or sync in flight, with `step` the
place it has reached and further fields for what it has read and not used yet.
`Idle`, `NoWork` and `NoSync` stand for "no request".  Guards are the code's
conditions and `where` clauses, and a refused request changes nothing.  `Faults`
adds a failing statement and a process that stops to every step.  Variables
marked *(history)* in a module are observations that no guard of the code reads.

**Organizations** — `AuthService`'s organisation half.  `members[o][u]` is
`organization_members`, `invites[i]` a row of `organization_invitations` with
its token as a number that a resend increases, `links` what has been mailed,
`audit` the audit rows.  `ensureNotLastOwner` (`OwnersRead`) and the statement
that changes a member are two steps; the acceptance is the transaction of
`AcceptOrganizationInvitation` with the re-check of `accepted_at`, `expires_at`
and token inside; `recordAudit` is a step after the change.  An e-mail address
is identified with its user (`users.email` is unique).

**Suggestions** — `processFetchedMessage` and `SuggestionService`.  A worker is
a unit of work: its uncommitted writes are in its own record and appear at
`Commit`; `CreateActivity` and `AddPersonEmail` commit at once, because their
store begins a transaction of its own.  People and companies are entities found
by an identifier (address or domain).  `ListHistory` returns the newest
`HistoryLimit` messages of an address (200 in the code), in any order those sent
at one time (`Newest`).  `overtaken[w]` *(history)* is what has been suppressed or
suggested since `w` took its message in hand, `overlooked` *(history)* the messages
that a listing or a failed "Link" has left aside or that two units of work were
about at once (`About`).

**FolderSync** — the folder loop for one mailbox.  `cursor[f]` is
`last_synced_at`, `arrived[m]` the day a message came, `stored` is
`email_messages`, `missed` those a sync saw and gave up: beyond the fetch limit
or failed in processing.  A sync reads all cursors first and marks the folder
with the time at which it is done.

**SyncRotation** — which mailboxes a sync takes.  `unsynced \o synced` is the
result of `order by coalesce(last_synced_at,'epoch'), created_at`; `queue[s]` is
the list a sync has read, `silent` the accounts whose mail server does not
answer: only the dial has a timeout (`adapters/email/imap.go:175`), so the sync at
such an account goes on when the server does (`Hangs`).  The rest of a mailbox's
sync is FolderSync's subject.

**SignIn** — magic links, sessions, tokens and the housekeeper with their
times.

**ConnectionPool** — who holds and who waits for a connection, as a FIFO
`queue`; `left` the nested transactions a unit of work has still to do.

**Records** — entities with the three tables that name them without a foreign
key (`todos`, `activity_links`, `entity_tags`).  A deletion is a transaction of
four deletes, each of which sees what has committed before it started; a second
writer of a deleted row waits (`LockedRow`, `LockedTodo`, `LockedLinks`), and an
insert of a key that is being deleted waits too and then succeeds (`LateInsert`).
A PATCH reads the row in the handler and writes all columns later; `touch`
(`last_touch_at`) and a task's `status` and `about` stand for them.  A deal
behaves like a person nobody touches.

**Assistant** — the chat loop of `crmctl` (`src/cmd/crmctl/main.go`, `chat[cl]`)
against `chatAI` and `executeAssistantAction` (`request[r]`) and the table
`assistant_conversations` (`row[c]`).  A turn is a number that its question, its
answer and the action it proposes carry; the words of the model are a choice
between forms (`PendingAction`).  A client that gives up clears `waits` and its
request lives on until it fails or has nobody to answer.  What an executed
action writes is Records' and Suggestions' subject; here it is one step that may
fail.  `SignIn` stands for all that changes what requests are signed with.

**LinkedIn, Capture** — the extension.  LinkedIn has the pure part: what the
scraper makes of a page and how lists of employers are cleaned, merged and cut.
Capture is one tab: `page` and `drawn` are the address and what the page shows
so far, `ui` the status of the button with the record it found, `calls[s]` a
handler with its place (`step`) in `content.ts` or, once it was sent, in the
background script and `crme-api.ts`; `people`, `companies` and `links` are the
CRM.  `Elsewhere` is another client that adds one of the `Newcomers`.  The searches do
what the server does with them: a name of two words is compared with each column
by itself and finds nobody (`SameName`), and a search that returns
`SearchLimit` rows may miss whom it looks for among those who contain it
(`MayMiss`).  `seen`
*(history)* are the addresses the CRM had when the script last looked, `stranded`
*(history)* the passing statuses that updates noted as the one to go back to.

**LatestAnswer, PagedList** — `use-crm-shell.ts` and `use-paged-list.ts`.
LatestAnswer is the abstract screen: ask, show the answer to the last question,
clear.  In PagedList `shell.req` and `list.req` are the two `requestIdRef`,
`visits` and `asks` the requests under way, `chosen` the organisation in
`lib/api.ts`, which a request takes when it is sent; `session` and `member` are
what the server knows.  `ShowsLatest` is `Latest!Spec` under
`asked <- list.req, shown <- list.shown`.

**SuggestionReview** — the page of suggestions on top of PagedList: every step
of it is a step of the page or leaves the page alone.  `calls[c]` is a handler
of the panel or of the toast, with its place in its chain of requests and the
filter and page of the render it was made in.  `mine` is false once the panel it
belongs to is gone, and an `orphan` is a request nobody waits for any more.

**RecordSheet, PersonSheet, CompanySheet, DealSheet, TaskSheet, RecordPages** —
the pages of records.  RecordSheet has what they share: `rows` on the server,
`list` as read last, `row` the object in the sheet, `drafts` what its form
holds, `detail` what is loaded about it, `calls` the requests under way, each
`live` until an effect voids it.  A record has two numbers, one the form edits
and one a button switches; every change writes a new number.  The four sheets
say what each of them lets the user do and in which order its handlers go on;
RecordPages is one open page of five (`kind`).  Only the page of deals has a
loading state that hides what is linked until it has come (`detail.state`); on
those of people and companies what was loaded last stays, and can be clicked, with
`detail.of` the record it is about.  The sets `crossed` and `resent` *(history)*
say where two writes were under way together, or where a record was opened from a
row that the list under way was to replace (`Outdated`).

**SettingsPage, Pages** — the settings with `loadSettings` and the handlers of
rows and forms (`jobs`).  `header` is the organisation in `lib/api.ts`,
`selected` the shell's; a load takes members and invitations for the
organisation of its closure (`org`) and accounts and tokens for `header`
(`box`).  Pages composes the two sorts of page: one is open.

`MCxxx` modules give the constants their values; `xxxProofs` modules hold the
theorems.  The modules are separate on purpose: they share tables only where
one of them abstracts the table (FolderSync's "processed" message is a whole
unit of work of Suggestions, SyncRotation's visit is a whole sync of FolderSync,
ConnectionPool's unit of work is any `WithinTx`).  The models of the web app and
the extension see the server as single requests that are answered, refused or
lost.

## 3. Runs

TLC explores all reachable states of each and finds no violation, except in
`mail_nested`, which shows that the code breaks a promise of `src/TODO.md`:

| Run | Instance | Shows |
|---|---|---|
| `org` | 2 users, 1 organisation, 1 invitation with 2 links, 2 requests, failures, RLS off | An invitation grants its role once (`OneUsePerInvitation`) and stays accepted (`AcceptedIsFinal`); a role change or removal whose owner list is current leaves an owner (`FreshCheckKeepsOwner`); every audit row is about something that happened (`AuditTruthful`) |
| `mail` | 2 units of work, 2 addresses, 1 domain, 2 messages, a deal, a listing of 1 message, failures | One person or company per primary address or domain (`OneEntityPerIdentifier`); each sender of stored mail is known or has had a suggestion (`SenderAccountedFor`); stored mail is on the timeline of who it is from unless it was overlooked (`MailOnTimeline`); what is suppressed, or open already, is suggested only by a sync that this overtook (`NeverAskAgain`, `OneOpenSuggestion`) |
| `mail_nested` | the same | **Violated**: the timeline shows stored mail only (`TimelineOfStoredMail`).  The activity of a message has committed, the unit of work that was to store the message fails |
| `sync` | 1 folder, 2 messages, fetch limit 1, 2 overlapping syncs, failures | The cursor passes over no message that no sync has seen (`NothingPassedOver`); the ticker brings every message in once its syncs meet no more setbacks (`MailBroughtIn`) |
| `rotation` | 4 mailboxes, 2 that may fail, servers that fall silent, a ticker that takes 2 and a request that takes 1 | Every healthy mailbox is visited again and again, unless a silent server keeps the ticker or failing mailboxes fill the front of the rotation (`EveryMailboxVisited`) |
| `signin` | 2 sign-ins, 1 link, 2 sessions, 1 token, housekeeper | One session per link, the addressee's (`LinkOpensOneSession`); the bootstrap address enters an empty installation only or by invitation (`BootstrapFirst`); the clean-up spares what still works (`HousekeepingSparesLive`) |
| `pool` | 4 workers, 3 connections, 2 nested transactions | Nobody starves unless every connection is for good with units of work that wait for another one (`OnlyGridlockStarves`) |
| `records` | 1 entity, task, activity, tag; 2 requests, failures, RLS on | A deletion leaves nothing behind that it could see (`NothingLeftBehind`); a link or tag of a deleted entity was written while it was being deleted (`StrayNeedsOverlap`) |
| `assistant` | 1 client, 1 conversation, 3 turns, 2 requests, 2 sessions, housekeeper | A proposed action takes effect at most once, only as confirmed and only from the list (`RunsOnceAsConfirmed`), whatever is lost or given up; a conversation keeps its session (`ConversationKeepsSession`); a client that has seen the end of the stored history finds all it has seen there, up to the cut (`NoSeenAnswerIsLost`); every turn ends (`TurnEnds`) |
| `capture` | one tab, 2 profiles, a company, a feed, a namesake of the first who is added elsewhere; 2 handlers, 3 calls, a search that may miss, failures | An update hits the record of its page (`UpdateHitsItsRecord`); a second row for one address needs a row that came after the check (`TwinOnlyByStaleCheck`); a save that is reported has linked every employer the page shows (`SavedMeansLinked`); the button does not spin for good (`BusyEnds`) |
| `review` | 2 suggestions, 2 organisations, 2 filters, 2 handlers, a failure | Only the last answer is shown (`ShowsLatest`); a settled list is that of the chosen organisation and filter (`SettledListMatches`); taking an acceptance back deletes what it created (`UndoIsWhole`); the stored undo is of a settled suggestion (`StoredUndoIsLive`); what is busy has a handler (`BusyHasHandler`) |
| `sheets` | one of five pages with 2 records, or the settings of 2 organisations; 3 requests, a failure | Details belong to the record in the sheet and include what the user added, or are about to be replaced by such (`DetailsOfShownRecord`); a deleted record stays away from sheet and list (`DeletedStaysAway`); a save takes back no change of the user's own (`OwnChangesKept`); a form makes one record (`OneRecordPerForm`); settings are of one organisation (`SettingsOfChosenTeam`); an account is saved as it was tested (`SavedAsTested`) |

The exemptions are part of what the runs say: each names an overlap in which the
code does not keep the promise, and the property says that nothing else breaks it.

- `mail`: a suppression or suggestion that commits while a sync has a message in
  hand (`overtaken`); mail `overlooked`, as section 2 says.
- `rotation`: a server that never answers again while the ticker talks to it
  (`Hangs`), and as many failing mailboxes in front as the ticker takes
  (`FrontBlocked`).
- `review`: a suggestion that was acted on while another act was under way or done
  (`twice`) and one whose undo got through unheard (`unsure`); `UndoIsWhole` also
  one that an undo opened again though its deletion had gone to another
  organisation (`astray`).
- `capture`: a handler under which the address changed, or that read a page not
  yet drawn (`crossed`), for `TwinOnlyByStaleCheck` and `UpdateHitsItsRecord`; a
  passing status that an update noted as the one to go back to (`stranded`), for
  `TwinOnlyByStaleCheck` and `BusyEnds`.  `TwinOnlyByStaleCheck` does not say that
  there are no twins: a row that came after the check, by somebody else or by a
  second click that relies on the same check, makes one.
- `sheets`: `crossed` are records with two writes under way together, a write whose
  answer was lost or one that was sent before the form that made the record was
  answered, and records opened from an outdated row while the list was loading.
  The last is the update that users are likely to lose: save, close, and switch
  something after opening the old row again, which sends the whole old object
  (`person-sheet.tsx:115`).  `resent` are forms sent twice; `stale` settings were
  loaded again by a handler of the former organisation, and `hasty` ones typed
  during a test.

Each property of a passing run has a mutant in `PROJECT.json`: the definition
with a plausible bug (dropped guard, missing reset, wrong order), under which the
same run fails.  The mutated forms stand in the modules next to the definitions
they replace.

Three places where the code does otherwise than a text of the repository says.
An activity that is committed inside a unit of work that rolls back stays on the
timeline without its message (`crm.go:352`), though `src/TODO.md:10` says that the
transaction boundary was "applied to [...] email sync message processing": run
`mail_nested`, a finding of `PROJECT.json`.  Two owners who demote each other, or
remove themselves, at once both pass `ensureNotLastOwner` (`auth.go:249`), and no
owner is left, though `auth.go:413` says "cannot remove or demote the last owner".
And under RLS the lookup of an API token joins `organization_members` in a context
that sees none of its rows (`api_tokens.go:51`, migration 032, line 20), so that no
token authenticates in the deployment of `src/docs/database-roles.md`.

Observed while modelling, on the server: the last owner who
accepts an invitation to the own organisation is demoted (`store.go:513`); under
RLS the audit row of an acceptance is refused and only logged (`auth.go:388`); a
suppression that commits during a sync's screening is followed by one more
suggestion (`email.go:424`), and two syncs may suggest one sender twice
(`email.go:428`); a message processed while its sender is
being accepted may be linked by neither, and of older mail 200 messages are linked
(`suggestions.go:293`); a mail server that is silent after the dial stops the
ticker for as long (`imap.go:175`); a task created
with status `done` has no completion date; a task may be created for an entity
that is gone.  For the same reason as that of API tokens, the lookup of an invitation
joins `organizations`, which its invitee may not see yet, so that under RLS nobody
can join (`store.go:483`; the model has the policy in `OrganizationVisibleTo`);
and the housekeeper, whose context has no organisation, deletes no conversation
(`assistant.go:59`).  `pending_action` stays in its row after the action has run,
until the next answer: a client that offered it again on resuming would run it
twice (no client of the repository does).  A conversation cannot be continued
after the session has changed: the turn is paid for and its save refused
(`assistant.go:53`).  All API-token clients of an organisation share the
conversations of the empty session (`api.go:309`).  `crmctl` reports an outcome
as "Action result:" where the server looks for "ACTION_RESULT:" (`ai.go:503`).

And in the web app: the sheets of people and companies show the links of the record
before, with buttons that remove them from the record in the sheet, until the new
ones arrive (`people-view.tsx:46`, `companies-view.tsx:46`); the extension finds
nobody by a name of two words (`src/extension/utils/crme-api.ts:41`,
`crm.go:48`); "I already signed in" passes its click event as the
organisation to load (`crm-shared.tsx:150`); signing out forgets the chosen
organisation before the request is sent, so one that fails leaves a shell
without it (`lib/api.ts:304`); "load more" in the task sheet appends the page of
an older query (`task-sheet.tsx:178`); an undo that ends closes the toast of a
newer act (`crm-shared.tsx:166`); the recent captures are read, changed and
written without a lock (`src/extension/utils/storage.ts:53`); an update that
waited for its page notes the status only then and goes back to it when it
fails, so that "Add" may be offered for a person who has been added meanwhile
(`src/extension/entrypoints/content.ts:678`); the account editor
sends back the sync switch of when it was opened (`settings-panel.tsx:206`); a
load of the settings that fails leaves the invitations of the former
organisation listed (`settings-view.tsx:52`).

## 4. Bounds

Every bound is a constant of its module.

- *Two requests* (units of work, syncs): every hazard listed is between two
  actors; the theorems of section 6 lift this for the properties they cover.
- *One invitation, one link, one message (two in `mail` and `sync`), one
  entity*: rows of one table do not influence each other except through the
  uniqueness the model has; the second message is there for de-duplication and
  for the limits of the fetch and of the listing.
- *One client in `assistant`*: it leaves, resumes and gives up, so that its own
  older requests play the second client; three turns let a late save overtake a
  newer one, and `Keep` 3 of six messages makes the cut bind.  `MaxRounds` 2: a
  round that is not the last and one that is.
- `MaxToken` 2: an old and a new link.  `MaxActivities` 2: an activity per
  message, or one and its repetition after a failure.  `MaxRequests` 3 requests of
  users, beside the syncs: two that meet and one before or after, as in
  suppressing, or dismissing and opening again.  `MaxNested` 2: a unit of work that returns to the
  pool more than once.  `MaxTouch` 1: never and once touched.
- `MaxTime` 3 with lifetimes of 1 or 2: every timestamp can be before, at and
  after every limit.  In `sync` three days are enough for mail before, during
  and after a sync and one day beyond the overlap.
- `FetchLimit` and `HistoryLimit` 1 of 2 messages, `limit` 2 of 4 mailboxes of
  which 2 fail, `SearchLimit` 1, `Conns` 3 of 4 workers: the limits bind.
- `capture`: two handlers are the second click and the one it overtakes; two
  profiles of which one name contains the other, and a namesake of the shorter one,
  because the search is by name; `MaxVisits` 1 and
  `MaxElsewhere` 1: one change of the address and one row from elsewhere under
  way with up to three calls, that row for the profile of `Newcomers` which has an
  employer; the other one has an experience section, so that its save waits and
  reads twice.  `MaxKept` 3 stands for the 8 of the code: more than any page of
  the run names.
  The theorems lift the bounds of the three safety properties.
- `review`: two suggestions, so that a batch has a rest and a card a neighbour;
  `MaxMoves` 3 acts, `MaxShells` 3 and `MaxLoads` 3 requests of the shell and the
  list: an act, its undo and a change of organisation between them, each with
  its reload.  The theorems lift the bounds for all five properties.
- `sheets`: two records, the second to open while the first has requests under
  way, or not made yet; `MaxCalls` 3 of them, `MaxMoves` 4 (a change, another
  one, a close and an opening), one failure.  Settings: one row of each list, as
  rows do not influence each other, `MaxSteps` 4 and `MaxJobs` 1, a handler under
  the user's steps and the loads.  Theorems lift the bounds of this run too.
- Symmetry is used only for model values that are merely compared, and in no run
  with a liveness property.
- `CHECK_DEADLOCK FALSE` where the bounded ids or the clock run out and every
  request is idle.  `rotation` and `pool` check deadlock.

## 5. Fairness

`Spec` never assumes fairness of users, requests or failures.  `FairSpec` of
FolderSync and SyncRotation is weakly fair to the ticker's sync only:
`runEmailSync` loops for as long as the process lives, and statements return.
Mail servers need not: only the dial has a timeout (`imap.go:175`), the commands
after it wait for as long as the server is silent, and no context ends them.  In
SyncRotation a sync at a silent server has no step, servers fall silent and answer
again as they like, and `EveryMailboxVisited` has two premises instead of a fairness
of servers: the ticker is not kept for ever (`<>[]~Hangs(Ticker)`), and not all
that it takes are mailboxes that fail (`<>[]~FrontBlocked`), since what fails
before `last_synced_at` is set stays in front (`ai_email.go:105`).  FolderSync is
about one mailbox whose server answers or drops the connection; `Setback` in
`MailBroughtIn` names what the ticker's syncs must stop meeting.  Assistant is weakly fair to each request of the server: a completion has
a client timeout of 30 seconds (`adapters/ai/openrouter.go:46`), statements
return, and a failure ends a request as well; users and clients that give up are
not fair.  ConnectionPool is weakly fair to the pool (`Acquire`
serves its queue) and to the end of running statements, never to beginnings or
cancellations; that no gridlock is permanent is a premise of its property.
Capture is weakly fair to each handler: timers fire, a scrape ends, and a request is answered
or fails, which is a step of the handler too; users and navigation are not fair.
PagedList, SuggestionReview and the pages have safety properties only and no fairness.

## 6. Proofs

`tlapm` checks these for every value of the constants that the modules'
assumptions admit.

**OrganizationsProofs.**  `TypeCorrect` (`Spec => []TypeOK`) rests on `TypeInv`:
`TypeOK` alone is not inductive, since a request writes what it has read; so
`InviteShape` says that an issued invitation names an organisation, a user and a
role, and `Shaped(req[r])` which fields are set at which step.  From it,
`InvitationStep` lists the only ways an invitation may change, and
`InvitationUsedOnce` follows from `UseInv`: the count of grants is 1 exactly if
`accepted` is set, which the transaction of the acceptance tests again.
`AcceptanceIsFinal` is the action property from the same lemma, because
a resend requires an unaccepted invitation in its `where`.  `FreshOwnerCheck`
needs that the owners a request has read are still the owners: `CheckInv` ties
them to the step at which they were read.  `AuditNeverLies` (`[]AuditTruthful`)
needs that what a request is going to claim has happened by the time it writes
the row (`Honest`), and that it lasts: mailed links, organisations of invitations
and acceptances do (`Lasting`).

**IntakeProofs** has the proofs of FolderSync and of Capture.  `NoMailPassedOver` (`Spec => []NothingPassedOver`).  The
inductive `PassInv` adds, for each sync in flight, that a message it has not
fetched and nobody has stored or given up is in reach of the cursor it is about
to write (`SyncInv`), at each of its steps.  The assumption `MaxSync <= Overlap`
is needed: a sync that takes longer than the day by which the search goes back
could mark a time beyond a message that came after its search.

For the extension, `TabInv` (`TabInvariant`) says what fields a handler has at
each step (`IsCall`), what its look found (`Looked`: "Add" is on offer only where
nobody had the address), and that until the address changes under a handler
everything is about one page (`UiOf`, `CallOf`): the button, its data and record,
and each handler with its own.  `NoTwins` (`TwinOnlyByStaleCheck`) and
`UpdatesOwnRecord` (`UpdateHitsItsRecord`) are read off it.  `DoneMeansLinked`
(`[]SavedMeansLinked`) adds `ChainInv`: the companies a save still has to link are
a tail of those it read, and the person is linked to all before it; links are
never taken away (`LinksStay`).  Its hypothesis, that the scraper reads the top
card of each page (`ReadsShown`), is about data alone and is the subject of
"Hypotheses" below.

**SignInProofs.**  `LinkUsedOnce` (`Spec => []LinkOpensOneSession`) with
`LinkInv`: a link that a request has consumed is held by that request alone or
has become one session, and no row of it can be consumed again.
`OwnerFirst` (`BootstrapFirst`, while signing up is closed) has `OwnerInv`: who is
about to become the owner found an empty table, into which at most the same
address has come since, because inviting takes an account.  `CleanupSparesLive`
(`HousekeepingSparesLive`) needs that the housekeeper's time is not ahead of the
clock (`CleanupInv`).

**AssistantProofs.**  `RunsOnce` (`Spec => []RunsOnceAsConfirmed`) with `RunInv`:
a turn has one request in flight at most (`OneRequestPerTurn`), which answers it
while its action is not confirmed or executes it once it is (`RequestsInOrder`);
an offer is open in one client only, and its turn is over (`OneOfferPerTurn`);
a request is waited for by one client (`OneWaiter`), so that one gets the answer.
Most steps begin no request and no offer, and `QuietStep` covers them together;
the proof then follows a turn through `ChatTurn`, `RespondChat`, `Confirm` and
`ExecuteAction`.  `NoneAssumption` says only that `None` is not a request.

`SessionsKept` (`Spec => ConversationKeepsSession`) needs only the types: the
`where` of the save compares the session.  `SeenAnswersStay`
(`Spec => []NoSeenAnswerIsLost`) is about all that has ever been told of a
conversation: a *story* is the set of answers that a client's history, a turn
being answered or the row has of it.  `StoryInv` says that histories are in the
order of their turns, that nobody has a turn's answer before it is saved
(`Unsaid`), that an answer belongs to one conversation, and, the heart of it
(`Current`), that whoever has the answer a row ends in has no later one, and of
the earlier ones only such that the row has too or has lost to the cut.  What the
cut keeps is a lemma of its own (`Trimmed`) over sequences of any length.

**SuggestionReviewProofs.**  `ListShowsLatest` (`Spec => ShowsLatest`) is the
refinement of LatestAnswer by PagedList: a load is a question, the answer that
carries the last number is shown, opening the page anew clears it, and every
other step stutters.
`SettledList` (`Spec => []SettledListMatches`) is not inductive as it stands;
`SettledInv` adds that the last request, too, was asked for what is chosen now,
as soon as the shell is ready and the debounce is over.  That needs `ShellInv`:
while an answer of the last `loadShell` is awaited the shell is loading, so that
it never changes the organisation under a ready list; every change makes the
shell load, or starts the debounce, before the list can settle.

Every step of the review is a step of its page (`ReviewNextKeeps`), where a
handler may load with an older filter and page (`PageStep`), so both theorems
hold of the specification the run checks: `SuggestionsShowLatest`,
`SettledSuggestions`.  `NeverBusyForGood` (`ReviewSpec => []BusyHasHandler`) goes
through the handlers: one that goes on keeps what is busy (`FollowKeeps`), one
that begins makes it busy (`BeginKeeps`), one that is over releases it
(`OverKeeps`), and the panel and the toast forget it when they go (`AroundKeeps`,
`OpenAnewKeeps`).

`StoredUndoLive` (`[]StoredUndoIsLive`) and `UndoTakesBackAll` (`UndoIsWhole`)
share `UndoInv`, a statement about each suggestion that was acted on once:
an act under way is alone with it, and no undo of it is offered yet (`ActAlone`);
a suggestion that was reopened is still offered only while the undo has not heard
of it, in the storage and on the toast (`StoredWaits`, `ToastWaits`); and where it
is open, where the offer has nothing to delete, or where the undo is past its
deletion, what the acceptance made is not there, or in another organisation
(`NothingMade`).

**PagesProofs.**  `SheetsShowTheirRecord` (`Spec => []DetailsOfShownRecord`)
with `DetailInv`: a request for details that is live asks for the record in the
sheet, and an answer that is there already has all links the user was told of
(`Fresh`); what is shown is such an answer, or such a request is under way
(`Awaited`), which is all that holds on the pages without a loading state.  That is why the counter `detailRefresh` has to make the questions
under way void, not only ask again.  A click leaves the requests as they are but
for one more, or opens or closes the sheet (`ClicksKeep`); the server only adds
links (`ServeKeeps`); an answer loads anew what the sheet shows (`AnswersKeep`).

`FormsMakeOne` (`Spec => []OneRecordPerForm`) with
`FormInv`: a form that was not sent again is under way once at most, has made no
record before its answer (`FormsApart`), and while it is open has made none but
one whose answer is still to come (`OpenFormFresh`), so the handler that shows
the record also closes the form it came from.  No load makes a form void
(`FormsOfLoads`), so most steps keep the forms under way (`FormsStay`).

`DeletedStay` (`[]DeletedStaysAway`) and `OwnChangesStay` (`OwnChangesKept`)
follow from `RecordInv`.  A record has been changed in order of the numbers its
writes carry (`AtLeast`).  Unless it is in `crossed`, its writes do not meet
(`WritesApart`): one is under way at a time, what it carries is no older than the
row, and none while the form that made the record waits.  Hence what the page has
listed, what a list under way brings, what the sheet shows and what its form is
filled with are the row's or newer, but for a write whose answer is still to come
(`ListUpToDate`, `SheetUpToDate`); a record that was not made yet is nowhere
(`Unknown`, `Unasked`).  Proving this found one more overlap that `crossed` has to
name: a listed record can be written before the form that made it was answered,
and that answer then brings the older object (`Making`).

`OpenPage` carries these four to `PagesSpec`, which the run checks.
`SettingsAreOfChosenTeam` (`[]SettingsOfChosenTeam`) needs that the load with the
last number, once the shell is ready, was asked for what is chosen now
(`ChosenInv`); `MailboxSavedAsTested` (`[]SavedAsTested`) that the draft under a
test is what the test was sent with, or was typed meanwhile (`TestedInv`).

**SuggestionsProofs.**  `SuggestInvariant` (`Spec => []SuggestInv`) holds for any
number of units of work that interleave and fail: what a unit holds uncommitted
is shaped as its step needs (`Shaped`), the sender of the message in hand is still
to be screened, met, or among what it will suggest (`SenderInHand`), and no two
units are about to insert one entity or one identifier (`Claimed`, `Apart`: the
unique index).  `OneEntity` and `SendersAccountedFor` are parts of it.
`OneEntity` is about the primary columns, which the unique indexes cover.

The other three have no hypotheses either.  `NeverAskedAgain` and `OneOpen` are
read off `InTime`: what a unit holds for its commit was not suppressed and not open
when it was screened, so if it is now, that came about while the message was in
hand, and is in `overtaken` (`AskedInTime`); a unit without a message suggests
nothing.  `MailIsOnTimeline` has `MailInv`: two units of work are about one message only if
it is overlooked (`Alone`); every other stored message from an address that
somebody has is on the timeline, or a unit that has just linked the address is about
to put it there (`MailPlaced`); and what a unit holds will do so: each listed
message is still to be linked, or is linked by what it will commit (`LinksHistory`),
the message in hand has an activity with its sender (`LinksMessage`), and no message
gets two (`OneActivity`).  A failure takes nothing away that was on a timeline
(`MailRollback`); mail of an address that "Link" had committed by then is
overlooked.

**RecordsProofs.**  `RecordsInvariant` (`Spec => []RecordsInv`) follows a
deletion through its four statements: what was there when it began is deleted
already, gone otherwise, or still to be found by a statement to come (`Cleared`),
and what names the entity and will not be found met the deletion (`Covered`).
`NothingLeft` (`NothingLeftBehind`) and `StrayMeansOverlap` (`StrayNeedsOverlap`,
under RLS, whose insert policies refuse what names a row that is gone; links and
tags only, as no policy looks at the entity of a task) are read off it.

**Hypotheses.**  The modules' assumptions say what the code gives: finite sets
where something is counted or put into a sequence, `None` apart from
the values it stands beside; in `SuggestionsAssumption` people and companies that
are known from the start have identifiers of their own, as the unique indexes
demand.  Hypotheses of single theorems (`RLSEnforced`, `~AllowSignup`) are
instances the runs check as well.  `ReadsShown` is a fact
about folds over lists of any length, which would need induction over data; it
is true as long as a top card has no more names than
`dedupeCompanyExperiences` keeps (8 in the code), and TLC evaluates it for the pages of `capture`
and for every top card of two labels and two links (`ReadsTopCards` in
MCCapture), and the merge itself against a definition by its result for all
lists up to three entries (`MergesByName`).

The definitions the theorems name are those TLC checks in the runs.  Only
model-checked: all liveness (`MailBroughtIn`, `EveryMailboxVisited`,
`OnlyGridlockStarves`, `TurnEnds`, `BusyEnds`; the prover does not cover
fairness), and with it ConnectionPool and SyncRotation, which promise nothing
else.  Every invariant and every action property of the passing runs has a
theorem.

## 7. What is not modelled

- Rate limiter, secrets: planned below.
- Relations between entities, workspaces and further addresses: foreign keys and
  `on conflict` make them single statements without a second actor's window.
- The assistant's entity search and ranking and `DraftPrompt`; which words make a
  message a search.
- `CreatePrompt` of the assistant, whose titles are free text.
- Listings, searches, administration, capabilities: reads without a later write.
- Migration 037 is taken as applied, although it uses a marker of another tool.
- HTTP decoding, configuration, tracing, mail provider, encryption, language
  model: libraries and services, present only as a call that may fail.
- `crmctl` except its chat, importer: clients of the API; their requests are
  among the requests the models let anybody send at any time.
- Extension: profiles whose address contains another one's, which the search by address
  may take for it; the popup and its settings, the list of recent captures, the places
  on a page that LinkedIn's layouts differ in (a page is what the selectors find).
- Record sheets: the searches inside a sheet and "load more", the dashboard's
  cache of relations, a change of workspace while a sheet is open.  Typing is part of
  the save that sends it, and "create and link" is one request.
- Settings: the token sheet before its request, the account editor, the texts of
  rows.
- Landing page, onboarding, login and invitation pages: texts, or one request
  without state that outlives it.  The UI kit is a library.

## 8. Plan

Done, in this order: Organizations, Suggestions, FolderSync, SyncRotation,
SignIn, ConnectionPool, Records, Assistant; PagedList with LatestAnswer and
SuggestionReview; LinkedIn and Capture; the record sheets; SettingsPage and
Pages; the proofs of section 6.

1. Rate limiter: the window per key, two limiters in a row, a clock read before
   the lock, against the abstract "at most *maxHits* in any window".
2. The searches inside sheets and the account editor; the importer's order of
   inserts and its restart after a failure.
3. Secrets with the accounts of SyncRotation; relations and workspaces in Records.
4. Further refinements: a mailbox as a set of messages that only grows, which
   FolderSync implements; a one-use ticket, which invitations, magic links and
   confirmed actions implement.
5. Proofs that are left: the abstract specifications of item 4 as refinements,
   step by step; induction over data, and with it `ReadsShown` for every page,
   and liveness stay with TLC.
