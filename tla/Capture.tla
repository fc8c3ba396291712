------------------------------- MODULE Capture -------------------------------
(***************************************************************************)
(* The browser extension at work in one tab: the button the content script *)
(* puts on LinkedIn pages, the background that calls the CRM for it, and   *)
(* the rows it leaves there.                                               *)
(*                                                                         *)
(* LinkedIn is one page application: the address changes under a script    *)
(* that stays, and the document follows later.  The script resets its      *)
(* state on a new profile and cancels nothing that is under way, so an     *)
(* answer about one page can arrive on the next.  A call is one handler    *)
(* waiting for its answer; between two of its steps the user, the page,    *)
(* the timers and the rest of the world move.                              *)
(*                                                                         *)
(* The menu in front of "update" and "link" and the toasts are left out:   *)
(* a click on an option stands for opening the menu and choosing it.  So   *)
(* is the list of recent captures, which nothing here reads.               *)
(***************************************************************************)
EXTENDS LinkedIn, FiniteSets

CONSTANTS
  Profiles,     \* pages /in/...
  Firms,        \* pages /company/...
  Feed,         \* any page that is neither
  None,         \* undefined
  NameOf,       \* the name a page's document shows
  OneWord,      \* the names of a single word
  SearchLimit,  \* rows a search of the CRM returns
  Dom,          \* what the selectors find in a page's document
  Slots,        \* handlers that may wait at once
  MaxPeople, MaxCompanies,  \* rows the CRM takes before it only refuses
  MaxVisits,    \* changes of address
  MaxCalls,     \* handlers started
  Newcomers,    \* addresses of the people that somebody else may add
  MaxElsewhere  \* people added by somebody else

Pages == Profiles \cup Firms

ASSUME CaptureAssumption ==
  /\ Feed \notin Pages
  /\ None \notin Pages \cup {Feed}
  /\ Profiles \cap Firms = {} /\ (Firms \cup {Feed}) \cap Newcomers = {}
  /\ Slots \subseteq Nat /\ SearchLimit \in Nat \ {0}
  /\ MaxPeople \in Nat /\ MaxCompanies \in Nat
  /\ MaxVisits \in Nat /\ MaxCalls \in Nat /\ MaxElsewhere \in Nat

VARIABLES
  page,       \* window.location
  drawn,      \* the page whose document is on the screen
  ui,         \* the script's state, and for which page it was found
  panel,      \* whether the search panel is open
  checkDue,   \* pending timers that check the page
  calls,      \* the handler in each slot
  people,     \* rows of the CRM: address and name
  companies,  \* names
  links,      \* [person, company, as]: as is the name the company had
  visits, started, elsewhere,  \* counted for the bounds
  crossed,    \* the address changed under a handler, or a handler read a
              \* document that was not yet the address's
  stranded    \* passing statuses that updates took for the one to go back to

tab == <<page, drawn, ui, panel, checkDue>>
crm == <<people, companies, links>>
ghosts == <<crossed, stranded>>
bounds == <<visits, started, elsewhere>>
captureVars == <<tab, calls, crm, bounds, ghosts>>

IsPerson(p) == p \in Profiles

(***************************************************************************)
(* What a scrape reads: the address from the location, the rest from the   *)
(* document.  Without a name there is nothing.                             *)
(***************************************************************************)
scrapeCurrentPage ==
  IF (IsPerson(page) /\ HasProfile(Dom[drawn])) \/ (page \in Firms /\ scrapeCompanyPage(Dom[drawn]))
    THEN [url |-> page, of |-> drawn]
    ELSE None

Lagging == page \in Pages /\ drawn # page

Profile == [p \in Pages \cup {Feed} |-> scrapePersonProfile(Dom[p])]
Employers == [p \in Pages \cup {Feed} |-> profileCompanyExperiences(Profile[p])]

Experiences(data) == IF IsPerson(data.url) THEN Employers[data.of] ELSE <<>>

\* No company found: the page is scrolled to that section and read again.
ScrapesTwice ==
  /\ scrapeCurrentPage # None /\ IsPerson(page)
  /\ NoCompanyFound(Profile[drawn]) /\ Dom[drawn].section

InitialState == [status |-> "idle", record |-> None, data |-> None,
                 about |-> None, seen |-> {}]

Free == [kind |-> "free"]
\* Slots are alike: a new handler takes the first that is free.
FreeSlots ==
  {s \in Slots : /\ started < MaxCalls
                 /\ calls[s] = Free
                 /\ \A t \in Slots : calls[t] = Free => s <= t}
Flows == {s \in Slots : calls[s].kind # "free"}
Busy == ui.status \in {"loading", "saving"}
Passing == {"loading", "saving", "ready"}

\* The addresses that somebody in the CRM has.
Addresses == {people[i].url : i \in DOMAIN people}

CaptureInit ==
  /\ page \in Pages /\ drawn = page
  /\ ui = InitialState
  /\ panel = FALSE
  /\ checkDue = 1
  /\ calls = [s \in Slots |-> Free]
  /\ people = <<>> /\ companies = <<>> /\ links = {}
  /\ visits = 0 /\ started = 0 /\ elsewhere = 0
  /\ crossed = FALSE /\ stranded = {}

-----------------------------------------------------------------------------
(***************************************************************************)
(* The page.                                                               *)
(***************************************************************************)
\* Mutated form: the state of the last page is kept.
MNavigate(p) ==
  /\ visits < MaxVisits /\ p # page
  /\ page' = p /\ visits' = visits + 1
  /\ IF p \in Pages
       THEN /\ panel' = FALSE
            /\ checkDue' = checkDue + 1
            /\ crossed' = (crossed \/ Flows # {})
       ELSE UNCHANGED <<panel, checkDue, crossed>>
  /\ UNCHANGED <<drawn, ui, calls, crm, started, elsewhere, stranded>>

\* The observer sees the new address; only a profile or a company resets.
Navigate(p) ==
  /\ visits < MaxVisits /\ p # page
  /\ page' = p /\ visits' = visits + 1
  /\ IF p \in Pages
       THEN /\ ui' = InitialState
            /\ panel' = FALSE
            /\ checkDue' = checkDue + 1
            /\ crossed' = (crossed \/ Flows # {})
       ELSE UNCHANGED <<ui, panel, checkDue, crossed>>
  /\ UNCHANGED <<drawn, calls, crm, started, elsewhere, stranded>>

Draw ==
  /\ drawn # page
  /\ drawn' = page
  /\ UNCHANGED <<page, ui, panel, checkDue, calls, crm, bounds, ghosts>>

(***************************************************************************)
(* Looking the page up.                                                    *)
(***************************************************************************)
checkExisting(s) ==
  /\ calls' = [calls EXCEPT ![s] = [kind |-> "check", step |-> "url", page |-> page,
                                    data |-> scrapeCurrentPage, found |-> None,
                                    seen |-> {}]]
  /\ ui' = [ui EXCEPT !.status = "loading"]
  /\ started' = started + 1
  /\ crossed' = (crossed \/ Lagging)

CheckTimer ==
  /\ checkDue > 0
  /\ checkDue' = checkDue - 1
  /\ \/ page \notin Pages /\ UNCHANGED <<calls, ui, started, crossed>>
     \/ page \in Pages /\ \E s \in FreeSlots : checkExisting(s)
  /\ UNCHANGED <<page, drawn, panel, crm, visits, elsewhere, stranded>>

ClickToCheck ==
  /\ ui.status \in {"error", "idle"} /\ page \in Pages
  /\ \E s \in FreeSlots : checkExisting(s)
  /\ UNCHANGED <<page, drawn, panel, checkDue, crm, visits, elsewhere, stranded>>

-----------------------------------------------------------------------------
(***************************************************************************)
(* Saving: capture, link to a picked record, update of the known one.      *)
(* With the data in hand each shows "saving" and sends.  The update reads  *)
(* the status to go back to and the record only now; without a record it   *)
(* throws, which its handler turns into the status it noted.               *)
(***************************************************************************)
Send(s, c, data) ==
  IF data = None
    THEN calls' = [calls EXCEPT ![s] = Free] /\ UNCHANGED <<ui, stranded>>
    ELSE IF c.kind = "update" /\ ui.record = None
    THEN /\ calls' = [calls EXCEPT ![s] = Free]
         /\ ui' = [ui EXCEPT !.data = data]
         /\ UNCHANGED stranded
    ELSE /\ calls' = [calls EXCEPT ![s] =
              [kind |-> c.kind, step |-> IF c.kind = "capture" THEN "post" ELSE "put",
               data |-> data, seen |-> c.seen,
               about |-> IF c.kind = "update" THEN ui.about ELSE c.about,
               record |-> IF c.kind = "update" THEN ui.record ELSE c.record,
               prev |-> IF c.kind = "update" THEN ui.status ELSE "error",
               todo |-> Experiences(data), company |-> 0]]
         /\ ui' = [ui EXCEPT !.status = "saving", !.data = data]
         /\ stranded' = IF c.kind = "update" THEN stranded \cup ({ui.status} \cap Passing)
                                           ELSE stranded

FreshData == IF scrapeCurrentPage # None THEN scrapeCurrentPage ELSE ui.data

Save(s, c) ==
  /\ started' = started + 1
  /\ crossed' = (crossed \/ Lagging)
  /\ IF ScrapesTwice
       THEN calls' = [calls EXCEPT ![s] = c] /\ UNCHANGED <<ui, stranded>>
       ELSE Send(s, c, FreshData)

Waiting(kind, record) ==
  [kind |-> kind, step |-> "scroll", record |-> record, about |-> ui.about, seen |-> ui.seen]

\* 1.2 seconds later, on whatever page that is.
ScrapeAgain(s) ==
  /\ calls[s].kind # "free" /\ calls[s].step = "scroll"
  /\ crossed' = (crossed \/ Lagging)
  /\ Send(s, calls[s], FreshData)
  /\ panel' = (panel /\ ~(calls[s].kind = "link" /\ FreshData # None))
  /\ UNCHANGED <<page, drawn, checkDue, crm, bounds>>

\* Mutated form: after an error "Add" is offered again at once.
MhandleCapture(s) ==
  /\ ui.status \in {"ready", "error"} /\ s \in FreeSlots
  /\ Save(s, Waiting("capture", None))
  /\ UNCHANGED <<page, drawn, panel, checkDue, crm, visits, elsewhere>>

handleCapture(s) ==
  /\ ui.status = "ready" /\ s \in FreeSlots
  /\ Save(s, Waiting("capture", None))
  /\ UNCHANGED <<page, drawn, panel, checkDue, crm, visits, elsewhere>>

updateExistingRecord(s) ==
  /\ ui.status = "exists" /\ ui.record # None /\ s \in FreeSlots
  /\ Save(s, Waiting("update", None))
  /\ panel' = FALSE
  /\ UNCHANGED <<page, drawn, checkDue, crm, visits, elsewhere>>

\* The panel stays open whatever the status becomes.
linkToRecord(s, r) ==
  /\ panel /\ s \in FreeSlots
  /\ Save(s, Waiting("link", r))
  /\ panel' = (ScrapesTwice \/ FreshData = None)
  /\ UNCHANGED <<page, drawn, checkDue, crm, visits, elsewhere>>

(***************************************************************************)
(* The search panel lists the rows of the CRM that have the name asked for *)
(* and are of the kind of the page the query was typed on.  Nothing tells  *)
(* which query an answer belongs to, so the last to arrive may be one of   *)
(* an earlier page: any row may be on offer.                               *)
(***************************************************************************)
Offered == [type : {"person"}, id : DOMAIN people] \cup [type : {"company"}, id : DOMAIN companies]

OpenPanel ==
  /\ ui.status = "ready"
  /\ panel' = TRUE
  /\ UNCHANGED <<page, drawn, ui, checkDue, calls, crm, bounds, ghosts>>

ClosePanel ==
  /\ panel
  /\ panel' = FALSE
  /\ UNCHANGED <<page, drawn, ui, checkDue, calls, crm, bounds, ghosts>>

-----------------------------------------------------------------------------
(***************************************************************************)
(* The background, one request to the CRM at a time.                       *)
(***************************************************************************)
Background(s, steps) == calls[s].kind # "free" /\ calls[s].step \in steps

Goto(s, step) == calls' = [calls EXCEPT ![s].step = step]

AnswerCheck(s, r) == calls' = [calls EXCEPT ![s].step = "done", ![s].found = r]

\* A search returns the rows that changed last and that have what is asked for
\* anywhere in a column: what is looked for is missed when as many rows as it
\* returns have it within something longer.
MayMiss(rows, hits) == Len(rows) - Cardinality(hits) >= SearchLimit

\* People with the address; then, if there is data, people of the same name.
\* Addresses that contain the address asked for are left out.
findPersonByLinkedInUrl(s) ==
  /\ Background(s, {"url"}) /\ IsPerson(calls[s].page)
  /\ LET hits == {i \in DOMAIN people : people[i].url = calls[s].page}
     IN  IF hits # {}
           THEN \E i \in hits : AnswerCheck(s, [type |-> "person", id |-> i])
           ELSE calls' = [calls EXCEPT ![s].step = IF calls[s].data = None THEN "done" ELSE "name",
                                       ![s].seen = Addresses]
  /\ UNCHANGED <<tab, crm, bounds, ghosts>>

\* First and last name are asked for in one piece, and the server compares it
\* with each column by itself: nobody whose name fills both is ever found.
SameName(n) == {i \in DOMAIN people : people[i].name = n /\ n \in OneWord}

findPersonByName(s) ==
  /\ Background(s, {"name"}) /\ IsPerson(calls[s].page)
  /\ LET hits == SameName(NameOf[calls[s].data.of])
     IN  \/ \E i \in hits : AnswerCheck(s, [type |-> "person", id |-> i])
         \/ (hits = {} \/ MayMiss(people, hits)) /\ Goto(s, "done")
  /\ UNCHANGED <<tab, crm, bounds, ghosts>>

\* A company is known by its name only.
findCompanyByName(s) ==
  /\ Background(s, {"url"}) /\ ~IsPerson(calls[s].page)
  /\ LET hits == {i \in DOMAIN companies :
                    calls[s].data # None /\ companies[i] = NameOf[calls[s].data.of]}
     IN  \/ \E i \in hits : AnswerCheck(s, [type |-> "company", id |-> i])
         \/ (hits = {} \/ MayMiss(companies, hits)) /\ Goto(s, "done")
  /\ UNCHANGED <<tab, crm, bounds, ghosts>>

Row(data) == [url |-> data.url, name |-> NameOf[data.of]]
LastStep(c) == IF c.kind = "capture" THEN "remember" ELSE "done"
AfterPerson(c) == IF c.todo = <<>> THEN LastStep(c) ELSE "find"

createPerson(s) ==
  /\ Background(s, {"post"}) /\ IsPerson(calls[s].data.url) /\ Len(people) < MaxPeople
  /\ people' = Append(people, Row(calls[s].data))
  /\ calls' = [calls EXCEPT ![s].step = AfterPerson(calls[s]),
                            ![s].record = [type |-> "person", id |-> Len(people) + 1]]
  /\ UNCHANGED <<tab, companies, links, bounds, ghosts>>

createCompany(s) ==
  /\ Background(s, {"post"}) /\ ~IsPerson(calls[s].data.url) /\ Len(companies) < MaxCompanies
  /\ companies' = Append(companies, NameOf[calls[s].data.of])
  /\ calls' = [calls EXCEPT ![s].step = "remember",
                            ![s].record = [type |-> "company", id |-> Len(companies) + 1]]
  /\ UNCHANGED <<tab, people, links, bounds, ghosts>>

\* The type of the data chooses the endpoint; a record of the other type is
\* not found there, which leaves only Fails.
updatePerson(s) ==
  /\ Background(s, {"put"}) /\ IsPerson(calls[s].data.url)
  /\ calls[s].record.type = "person"
  /\ people' = [people EXCEPT ![calls[s].record.id] = Row(calls[s].data)]
  /\ Goto(s, AfterPerson(calls[s]))
  /\ UNCHANGED <<tab, companies, links, bounds, ghosts>>

updateCompany(s) ==
  /\ Background(s, {"put"}) /\ ~IsPerson(calls[s].data.url)
  /\ calls[s].record.type = "company"
  /\ companies' = [companies EXCEPT ![calls[s].record.id] = NameOf[calls[s].data.of]]
  /\ Goto(s, "done")
  /\ UNCHANGED <<tab, people, links, bounds, ghosts>>

(***************************************************************************)
(* ensurePersonCompanyLink: for each experience find the company by name,  *)
(* or make it, then link it.                                               *)
(***************************************************************************)
FindEmployer(s) ==
  /\ Background(s, {"find"})
  /\ LET hits == {i \in DOMAIN companies : companies[i] = calls[s].todo[1].name}
     IN  \/ \E i \in hits : calls' = [calls EXCEPT ![s].step = "link", ![s].company = i]
         \/ (hits = {} \/ MayMiss(companies, hits)) /\ Goto(s, "make")
  /\ UNCHANGED <<tab, crm, bounds, ghosts>>

MakeEmployer(s) ==
  /\ Background(s, {"make"}) /\ Len(companies) < MaxCompanies
  /\ companies' = Append(companies, calls[s].todo[1].name)
  /\ calls' = [calls EXCEPT ![s].step = "link", ![s].company = Len(companies) + 1]
  /\ UNCHANGED <<tab, people, links, bounds, ghosts>>

linkPersonCompany(s) ==
  /\ Background(s, {"link"})
  /\ links' = links \cup {[person |-> calls[s].record.id, company |-> calls[s].company,
                           as |-> calls[s].todo[1].name]}
  /\ calls' = [calls EXCEPT
       ![s].todo = Tail(@), ![s].company = 0,
       ![s].step = IF Len(calls[s].todo) > 1 THEN "find" ELSE LastStep(calls[s])]
  /\ UNCHANGED <<tab, people, companies, bounds, ghosts>>

\* addToRecentCaptures
Remember(s) ==
  /\ Background(s, {"remember"})
  /\ Goto(s, "done")
  /\ UNCHANGED <<tab, crm, bounds, ghosts>>

-----------------------------------------------------------------------------
(***************************************************************************)
(* The answers, taken in whatever state the script is in by then.          *)
(***************************************************************************)
Answered(s, steps) ==
  /\ Background(s, steps)
  /\ calls' = [calls EXCEPT ![s] = Free]
  /\ UNCHANGED <<page, drawn, panel, checkDue, crm, bounds, ghosts>>

CheckAnswers(s) ==
  /\ Answered(s, {"done"}) /\ calls[s].kind = "check"
  /\ ui' = IF calls[s].found # None
             THEN [ui EXCEPT !.status = "exists", !.record = calls[s].found,
                             !.about = calls[s].page, !.seen = Addresses]
             ELSE [ui EXCEPT !.status = "ready", !.data = calls[s].data,
                             !.about = calls[s].page, !.seen = calls[s].seen]

\* Settings missing, a request refused or unanswered, the background gone, at
\* any request: what was done before stays done.
Requests == {"url", "name", "post", "put", "find", "make", "link", "remember"}

\* Mutated form: the hint is shown and the status left.
MCheckFailed(s) ==
  /\ Answered(s, Requests) /\ calls[s].kind = "check"
  /\ \/ UNCHANGED ui
     \/ ui' = [ui EXCEPT !.status = "error"]

\* Not configured: back to idle with a hint.
CheckFailed(s) ==
  /\ Answered(s, Requests) /\ calls[s].kind = "check"
  /\ \E status \in {"idle", "error"} : ui' = [ui EXCEPT !.status = status]

\* An update keeps the record the script has now.
SaveAnswers(s) ==
  /\ Answered(s, {"done"}) /\ calls[s].kind # "check"
  /\ ui' = IF calls[s].kind = "update"
             THEN [ui EXCEPT !.status = "saved", !.data = calls[s].data]
             ELSE [ui EXCEPT !.status = "saved", !.data = calls[s].data,
                             !.record = calls[s].record, !.about = calls[s].data.url,
                             !.seen = Addresses]

\* Mutated form: a link that fails is passed over.
MSaveFailed(s) ==
  \/ /\ Background(s, {"link"})
     /\ Goto(s, "done")
     /\ UNCHANGED <<tab, crm, bounds, ghosts>>
  \/ /\ Answered(s, Requests \ {"link"}) /\ calls[s].kind # "check"
     /\ ui' = [ui EXCEPT !.status = calls[s].prev, !.data = calls[s].data]

SaveFailed(s) ==
  /\ Answered(s, Requests) /\ calls[s].kind # "check"
  /\ ui' = [ui EXCEPT !.status = calls[s].prev, !.data = calls[s].data]

\* Two seconds after a save; the timer of an older save does as well.
SavedTimer ==
  /\ ui.status = "saved"
  /\ ui' = [ui EXCEPT !.status = "exists"]
  /\ UNCHANGED <<page, drawn, panel, checkDue, calls, crm, bounds, ghosts>>

\* Another tab or a colleague adds the person.
Elsewhere(p) ==
  /\ elsewhere < MaxElsewhere /\ Len(people) < MaxPeople
  /\ elsewhere' = elsewhere + 1
  /\ people' = Append(people, Row([url |-> p, of |-> p]))
  /\ UNCHANGED <<tab, calls, companies, links, visits, started, ghosts>>

-----------------------------------------------------------------------------
BackgroundStep(s) ==
  \/ findPersonByLinkedInUrl(s) \/ findPersonByName(s) \/ findCompanyByName(s)
  \/ createPerson(s) \/ createCompany(s) \/ updatePerson(s) \/ updateCompany(s)
  \/ FindEmployer(s) \/ MakeEmployer(s) \/ linkPersonCompany(s) \/ Remember(s)

Answers(s) ==
  \/ CheckAnswers(s) \/ CheckFailed(s) \/ SaveAnswers(s) \/ SaveFailed(s)

\* A handler under way, whatever it waits for.
Handler(s) == ScrapeAgain(s) \/ BackgroundStep(s) \/ Answers(s)

User(s) ==
  \/ handleCapture(s) \/ updateExistingRecord(s)
  \/ \E r \in Offered : linkToRecord(s, r)

CaptureNext ==
  \/ \E p \in Pages \cup {Feed} : Navigate(p)
  \/ Draw \/ CheckTimer \/ ClickToCheck \/ OpenPanel \/ ClosePanel \/ SavedTimer
  \/ \E s \in Slots : User(s) \/ Handler(s)
  \/ \E p \in Newcomers : Elsewhere(p)

(***************************************************************************)
(* A handler under way gets on: its timer fires, every request is answered *)
(* or fails, and the answer reaches the script.  Nobody has to click.      *)
(***************************************************************************)
Fairness == \A s \in Slots : WF_captureVars(Handler(s))

CaptureSpec == CaptureInit /\ [][CaptureNext]_captureVars /\ Fairness

-----------------------------------------------------------------------------
\* A person is made only on the strength of a check of that very address that
\* found nobody who had it (checkExisting offers "Add", handleCapture takes it).
\* So a second row for one address comes only of a check that is stale by then:
\* the other row was made after the check had looked, by somebody else, or by a
\* second click on the same "Add" while the first waits for the page to be read
\* again.  Exempt are an address that changed under a handler or was read off a
\* document not yet drawn (crossed), and an update that noted "ready" while it
\* waited for its data and offers "Add" again when it fails (stranded).
TwinOnlyByStaleCheck ==
  [][\A s \in Slots :
       createPerson(s) /\ ~crossed /\ "ready" \notin stranded =>
         /\ calls[s].about = calls[s].data.url
         /\ calls[s].data.url \notin calls[s].seen]_captureVars

\* "Update from LinkedIn" writes a page over a record only if that record was
\* found, made or picked for that page, unless the address changed under a
\* handler (updateExistingRecord takes the record when the data has come).
UpdateHitsItsRecord ==
  [][\A s \in Slots :
       (updatePerson(s) \/ updateCompany(s)) /\ calls[s].kind = "update" /\ ~crossed =>
         calls[s].about = calls[s].data.url]_captureVars

\* A save that is reported as done has linked the person to every company
\* the top card of the page names with an address: no step of the chain of
\* requests in ensurePersonCompanyLink is skipped, nor lost in a merge of
\* the scraped lists.
SavedMeansLinked ==
  \A s \in Flows :
    calls[s].kind # "check" /\ calls[s].step = "done" /\ IsPerson(calls[s].data.url) =>
      \A n \in Shown(Dom[calls[s].data.of]) :
        \E l \in links : l.person = calls[s].record.id /\ l.as = n

\* The button does not spin for ever: "Checking" and "Saving" end.  The one
\* exception is an update that waited for its data while another handler made
\* the button busy: it notes that status, and goes back to it when it fails.
BusyEnds == Busy ~> (~Busy \/ {"loading", "saving"} \cap stranded # {})
=============================================================================
