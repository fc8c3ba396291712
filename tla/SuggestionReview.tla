-------------------------- MODULE SuggestionReview --------------------------
(***************************************************************************)
(* The page of suggestions: a PagedList of the open suggestions of the     *)
(* chosen organization, the panel that acts on them, one or a selection at *)
(* a time, and the toast that takes the last act back                      *)
(* (suggestions-view.tsx, suggestions-panel.tsx, UndoToast in              *)
(* crm-shared.tsx).                                                        *)
(*                                                                         *)
(* A handler is a chain of requests and of a reload of the list at its     *)
(* end.  Each request goes to the organization chosen when it is sent.     *)
(* Between two steps of one the user may start another, leave the          *)
(* organization, or open the page anew: then the request that is on its    *)
(* way still arrives, and nobody waits for its answer.                     *)
(***************************************************************************)
EXTENDS PagedList

CONSTANTS
  Suggestions,
  home,     \* the organization of each
  Slots,    \* handlers that may wait at once
  MaxMoves, \* things the user does
  MaxFails  \* requests that fail

ASSUME SuggestionReviewAssumption ==
  /\ Rows = Suggestions
  /\ home \in [Suggestions -> Orgs]
  /\ {"", "batch"} \cap Suggestions = {}
  /\ None \notin Suggestions
  /\ None \notin [s : Suggestions, entity : BOOLEAN]
  /\ Slots \subseteq Nat \ {0}
  /\ MaxMoves \in Nat /\ MaxFails \in Nat

VARIABLES
  status,   \* of each suggestion, on the server
  made,     \* the person or company its acceptance created: "none", "alive", "gone"
  busy,     \* busyId of the panel: "", a suggestion, or "batch"
  picked,   \* selectedIds
  undo,     \* what the toast takes back
  stored,   \* the same in the local storage
  toast,    \* the handler that keeps the toast's button busy, 0 for none
  calls,    \* the handler in each slot
  moves, fails,   \* counted for the bounds
  twice,    \* suggestions acted on while they were not open, or under another act
  unsure,   \* reopened by a request nobody heard the answer of
  astray    \* reopened where the deletion had gone to another organization

prompts == <<status, made>>
panel == <<busy, picked>>
offers == <<undo, stored, toast>>
counts == <<moves, fails, twice, unsure, astray>>
review == <<prompts, panel, offers, calls, counts>>
vars == <<pages, review>>

Undo(s, entity) == [s |-> s, entity |-> entity]

Idle == [kind |-> "idle"]
\* Slots are alike: a new handler takes the first that is free.
FreeSlots == {c \in Slots : calls[c] = Idle /\ \A d \in Slots : calls[d] = Idle => c <= d}

\* One more thing the user does, one more request that fails.
Move == moves < MaxMoves /\ moves' = moves + 1
Fail == fails < MaxFails /\ fails' = fails + 1

ReviewInit ==
  /\ Init
  /\ status = [s \in Suggestions |-> "open"]
  /\ made = [s \in Suggestions |-> "none"]
  /\ busy = "" /\ picked = {}
  /\ undo = None /\ stored = None /\ toast = 0
  /\ calls = [c \in Slots |-> Idle]
  /\ moves = 0 /\ fails = 0 /\ twice = {} /\ unsure = {} /\ astray = {}

-----------------------------------------------------------------------------
(***************************************************************************)
(* The panel.                                                              *)
(***************************************************************************)

\* The request of slot c for suggestion s is sent.
Sent(call, s, what) ==
  [call EXCEPT !.s = s, !.what = what, !.step = "sent", !.org = storedOrganizationId]

\* A handler begins: it keeps the load of the render that it was made in.
Call(kind, todo, entity) ==
  [kind |-> kind, s |-> None, what |-> None, step |-> "new", org |-> None, todo |-> todo,
   entity |-> entity, created |-> FALSE,
   filter |-> filter, page |-> list.page, load |-> 0, mine |-> TRUE]

About(s) == {c \in Slots : calls[c].kind # "idle" /\ calls[c].s = s}
Twice(s) == IF status[s] # "open" \/ About(s) # {} THEN twice \cup {s} ELSE twice

\* The buttons of the card: "Approve", "Dismiss for now", "Never ask again" and
\* "Link existing".
Enabled(s) == Listed /\ s \in list.rows /\ busy \notin {s, "batch"}

Act(c, s, what) ==
  /\ Enabled(s) /\ c \in FreeSlots /\ Move
  /\ busy' = s
  /\ calls' = [calls EXCEPT ![c] = Sent(Call("act", {}, FALSE), s, what)]
  /\ twice' = Twice(s)
  /\ UNCHANGED <<pages, prompts, picked, offers, fails, unsure, astray>>

\* toggleSelected, and "Select suggestions" for all of them.
Toggle(s) ==
  /\ Listed /\ s \in list.rows /\ busy # "batch" /\ Move
  /\ picked' = IF s \in picked THEN picked \ {s} ELSE picked \cup {s}
  /\ UNCHANGED <<pages, prompts, busy, offers, calls, fails, twice, unsure, astray>>

ToggleAll ==
  /\ Listed /\ list.rows # {} /\ busy # "batch" /\ Move
  /\ picked' = IF list.rows \subseteq picked THEN {} ELSE list.rows
  /\ UNCHANGED <<pages, prompts, busy, offers, calls, fails, twice, unsure, astray>>

\* "Approve selected", "Dismiss selected", "Never ask again".
BatchEnabled(s) == Listed /\ s \in picked \cap list.rows /\ busy # "batch"

\* batchAct: the selected ones that are shown, one after the other.
BatchAct(c, s, what) ==
  /\ BatchEnabled(s)
  /\ c \in FreeSlots /\ Move
  /\ busy' = "batch"
  /\ calls' = [calls EXCEPT ![c] =
                 Sent(Call("batch", (picked \cap list.rows) \ {s}, FALSE), s, what)]
  /\ twice' = Twice(s)
  /\ UNCHANGED <<pages, prompts, picked, offers, fails, unsure, astray>>

\* The toast is on the screen.
Offered == undo # None /\ shell.state \notin {"unauthorized", "needs-organization"}

\* runUndo: what the acceptance created is deleted first.
RunUndo(c) ==
  /\ Offered /\ toast = 0 /\ c \in FreeSlots /\ Move
  /\ toast' = c
  /\ calls' = [calls EXCEPT ![c] =
                 Sent(Call("undo", {}, undo.entity), undo.s,
                      IF undo.entity THEN "delete" ELSE "reopen")]
  /\ UNCHANGED <<pages, prompts, panel, undo, stored, fails, twice, unsure, astray>>

\* The toast is closed, or goes after ten seconds; not while it is busy.
CloseToast ==
  /\ Offered /\ toast = 0 /\ Move
  /\ undo' = None
  /\ UNCHANGED <<pages, prompts, panel, stored, toast, calls, fails, twice, unsure, astray>>

-----------------------------------------------------------------------------
(***************************************************************************)
(* The server.                                                             *)
(***************************************************************************)
Done(c, created) == calls' = [calls EXCEPT ![c].step = "done", ![c].created = created]
OwnOrg(c) == Served(calls[c].org) = home[calls[c].s]

\* acceptPrompt: only an open one; it finds the person or company, or makes it.
Accept(c, created) ==
  LET s == calls[c].s IN
  /\ calls[c].what = "accept" /\ OwnOrg(c) /\ status[s] = "open"
  /\ created => made[s] # "alive"
  /\ status' = [status EXCEPT ![s] = "accepted"]
  /\ made' = IF created THEN [made EXCEPT ![s] = "alive"] ELSE made
  /\ Done(c, created)

\* ResolvePrompt, SuppressPrompt, UnsuppressPrompt and the links do not ask for
\* the status.
Becomes(what) ==
  CASE what = "dismiss" -> "dismissed" [] what = "link" -> "accepted" [] what = "reopen" -> "open"

Resolve(c) ==
  LET s == calls[c].s IN
  /\ calls[c].what \in {"dismiss", "link", "reopen"} /\ OwnOrg(c)
  /\ status' = [status EXCEPT ![s] = Becomes(calls[c].what)]
  /\ UNCHANGED made
  /\ Done(c, FALSE)

\* DeletePerson, DeleteCompany: a row that is not there, or not in this
\* organization, is no error.
Delete(c) ==
  LET s == calls[c].s IN
  /\ calls[c].what = "delete" /\ Served(calls[c].org) # None
  /\ made' = IF OwnOrg(c) THEN [made EXCEPT ![s] = "gone"] ELSE made
  /\ UNCHANGED status
  /\ Done(c, FALSE)

Serve(c) ==
  /\ calls[c].kind # "idle" /\ calls[c].step = "sent"
  /\ (\E created \in BOOLEAN : Accept(c, created)) \/ Resolve(c) \/ Delete(c)
  /\ UNCHANGED <<pages, panel, offers, counts>>

\* A request is refused; or it does not arrive, or its answer does not.
Refused(c) ==
  /\ calls[c].step = "sent"
  /\ \/ calls[c].what = "delete" /\ Served(calls[c].org) = None
     \/ calls[c].what # "delete" /\ ~OwnOrg(c)
     \/ calls[c].what = "accept" /\ status[calls[c].s] # "open"

Fails(c) ==
  /\ calls[c].kind # "idle" /\ calls[c].step \in {"sent", "done"}
  /\ \/ Refused(c) /\ UNCHANGED fails
     \/ ~Refused(c) /\ Fail
  /\ calls' = [calls EXCEPT ![c].step = "failed"]
  /\ unsure' = IF calls[c].what = "reopen" /\ calls[c].step = "done"
                 THEN unsure \cup {calls[c].s} ELSE unsure
  /\ UNCHANGED <<pages, prompts, panel, offers, moves, twice, astray>>

-----------------------------------------------------------------------------
(***************************************************************************)
(* Answers.                                                                *)
(***************************************************************************)

\* onChanged, onDone: the handler reloads the list and waits for that.
LoadAgain(c) ==
  /\ Reload(calls[c].filter, calls[c].page)
  /\ calls' = [calls EXCEPT ![c].step = "load", ![c].load = list'.req]

\* act, linkToExistingPerson, linkToExistingCompany: links are not stored.
ActAnswers(c) ==
  /\ calls[c].kind = "act" /\ calls[c].step = "done"
  /\ undo' = Undo(calls[c].s, calls[c].created)
  /\ stored' = IF calls[c].what = "link" THEN stored ELSE Undo(calls[c].s, calls[c].created)
  /\ LoadAgain(c)
  /\ UNCHANGED <<prompts, panel, toast, counts>>

BatchAnswers(c) ==
  /\ calls[c].kind = "batch" /\ calls[c].step = "done"
  /\ \/ /\ \E s \in calls[c].todo :
             /\ calls' = [calls EXCEPT ![c] =
                            [Sent(calls[c], s, calls[c].what) EXCEPT !.todo = @ \ {s}]]
             /\ twice' = Twice(s)
        /\ UNCHANGED <<pages, picked, undo, toast>>
     \/ /\ calls[c].todo = {}
        /\ picked' = IF calls[c].mine THEN {} ELSE picked
        /\ undo' = None /\ toast' = 0
        /\ LoadAgain(c)
        /\ UNCHANGED twice
  /\ UNCHANGED <<prompts, busy, stored, moves, fails, unsure, astray>>

\* Mutated form: the suggestion is reopened whatever became of the deletion.
MUndoAnswers(c) ==
  /\ calls[c].kind = "undo" /\ calls[c].step \in {"done", "failed"}
  /\ \/ /\ calls[c].what = "delete"
        /\ calls' = [calls EXCEPT ![c] = Sent(@, @.s, "reopen")]
        /\ astray' = IF calls[c].org = storedOrganizationId THEN astray ELSE astray \cup {calls[c].s}
        /\ UNCHANGED <<pages, stored>>
     \/ /\ calls[c].what = "reopen"
        /\ stored' = None
        /\ LoadAgain(c)
        /\ UNCHANGED astray
  /\ UNCHANGED <<prompts, panel, undo, toast, moves, fails, twice, unsure>>

\* Mutated form: the undo stays in the local storage.
MUndoKept(c) ==
  /\ calls[c].kind = "undo" /\ calls[c].step = "done"
  /\ \/ /\ calls[c].what = "delete"
        /\ calls' = [calls EXCEPT ![c] = Sent(@, @.s, "reopen")]
        /\ astray' = IF calls[c].org = storedOrganizationId THEN astray ELSE astray \cup {calls[c].s}
        /\ UNCHANGED pages
     \/ calls[c].what = "reopen" /\ LoadAgain(c) /\ UNCHANGED astray
  /\ UNCHANGED <<prompts, panel, undo, stored, toast, moves, fails, twice, unsure>>

UndoAnswers(c) ==
  /\ calls[c].kind = "undo" /\ calls[c].step = "done"
  /\ \/ /\ calls[c].what = "delete"
        /\ calls' = [calls EXCEPT ![c] = Sent(@, @.s, "reopen")]
        /\ astray' = IF calls[c].org = storedOrganizationId THEN astray ELSE astray \cup {calls[c].s}
        /\ UNCHANGED <<pages, stored>>
     \/ /\ calls[c].what = "reopen"
        /\ stored' = None
        /\ LoadAgain(c)
        /\ UNCHANGED astray
  /\ UNCHANGED <<prompts, panel, undo, toast, moves, fails, twice, unsure>>

\* Mutated form: a failed act leaves its card busy.
MOver(c) ==
  /\ calls' = [calls EXCEPT ![c] = Idle]
  /\ busy' = IF calls[c].kind # "undo" /\ calls[c].mine /\ calls[c].step = "load" THEN "" ELSE busy
  /\ toast' = IF toast = c \/ undo' = None THEN 0 ELSE toast

\* finally: whatever the panel or the toast is busy with now, it no longer is.
Over(c) ==
  /\ calls' = [calls EXCEPT ![c] = Idle]
  /\ busy' = IF calls[c].kind # "undo" /\ calls[c].mine THEN "" ELSE busy
  /\ toast' = IF toast = c \/ undo' = None THEN 0 ELSE toast

HandlerFails(c) ==
  /\ calls[c].kind \in {"act", "batch", "undo"} /\ calls[c].step = "failed"
  /\ UNCHANGED <<pages, prompts, picked, undo, stored, counts>>
  /\ Over(c)

\* The reload has been answered, by then dropped, or has failed.
HandlerEnds(c) ==
  /\ calls[c].kind \in {"act", "batch", "undo"} /\ calls[c].step = "load"
  /\ \A a \in asks : a.id # calls[c].load
  /\ undo' = IF calls[c].kind = "undo" THEN None ELSE undo
  /\ Over(c)
  /\ UNCHANGED <<pages, prompts, picked, stored, counts>>

\* Nobody waits for what the page sent before it was opened anew.
OrphanEnds(c) ==
  /\ calls[c].kind = "orphan" /\ calls[c].step \in {"done", "failed"}
  /\ calls' = [calls EXCEPT ![c] = Idle]
  /\ unsure' = IF calls[c].what = "reopen" THEN unsure \cup {calls[c].s} ELSE unsure
  /\ UNCHANGED <<pages, prompts, panel, offers, moves, fails, twice, astray>>

-----------------------------------------------------------------------------
(***************************************************************************)
(* The page around them: the panel is unmounted when the shell is not      *)
(* ready or the list has failed, the toast when its frame goes.  What they *)
(* keep in their own state is lost.                                        *)
(***************************************************************************)
Unmounts ==
  /\ UNCHANGED <<prompts, undo, stored, twice, unsure, astray>>
  /\ IF Listed' THEN UNCHANGED <<busy, picked, calls>>
     ELSE /\ busy' = "" /\ picked' = {}
          /\ calls' = [c \in Slots |-> IF calls[c] = Idle THEN Idle
                                       ELSE [calls[c] EXCEPT !.mine = FALSE]]
  /\ toast' = IF Offered' THEN toast ELSE 0

Around ==
  /\ \/ Browse /\ Move /\ UNCHANGED fails
     \/ Arrive /\ UNCHANGED <<moves, fails>>
     \/ Trouble /\ Fail /\ UNCHANGED moves
  /\ Unmounts

\* The open suggestions of the organization, the page that is asked for.
OpenRead(a) ==
  LET open == {s \in Suggestions : home[s] = Served(a.org) /\ status[s] = "open"}
      left == IF Cardinality(open) > a.page * PageSize
                THEN Cardinality(open) - a.page * PageSize ELSE 0
  IN  \E found \in SUBSET open :
        /\ Cardinality(found) = IF left < PageSize THEN left ELSE PageSize
        /\ ListRead(a, found)
        /\ UNCHANGED review

OpenAnew ==
  /\ Remount /\ Move
  /\ busy' = "" /\ picked' = {} /\ toast' = 0
  /\ undo' = stored
  /\ calls' = [c \in Slots |->
                 IF calls[c].kind # "idle" /\ calls[c].step \in {"sent", "done"}
                   THEN [calls[c] EXCEPT !.kind = "orphan"] ELSE Idle]
  /\ UNCHANGED <<prompts, stored, fails, twice, unsure, astray>>

Handler(c) ==
  \/ Serve(c) \/ Fails(c)
  \/ ActAnswers(c) \/ BatchAnswers(c) \/ UndoAnswers(c)
  \/ HandlerFails(c) \/ HandlerEnds(c) \/ OrphanEnds(c)

ReviewNext ==
  \/ Around \/ OpenAnew
  \/ \E a \in asks : OpenRead(a)
  \/ \E c \in Slots, s \in Suggestions :
       \/ \E what \in {"accept", "dismiss", "link"} : Act(c, s, what)
       \/ \E what \in {"accept", "dismiss"} : BatchAct(c, s, what)
  \/ \E s \in Suggestions : Toggle(s)
  \/ ToggleAll
  \/ \E c \in Slots : RunUndo(c) \/ Handler(c)
  \/ CloseToast

ReviewSpec == ReviewInit /\ [][ReviewNext]_vars

-----------------------------------------------------------------------------
\* Taking an acceptance back takes back what it created: when a suggestion is
\* open again, the person or company is gone (runUndo).  Exempt is a suggestion
\* that was acted on twice, where the toast speaks of the later act; one whose
\* undo was not heard of, where the toast still speaks of an earlier one; and
\* one that an undo reopened though its deletion had gone to another
\* organization, where what the first acceptance made is still there.
UndoIsWhole ==
  [][\A s \in Suggestions :
       status[s] # "open" /\ status'[s] = "open" /\ made[s] = "alive" =>
         s \in twice \cup unsure \cup astray]_vars

\* The undo in the local storage, offered again when the page is opened anew,
\* is of a suggestion that has been settled: it is cleared when it was run.
\* Exempt is one that was acted on twice, and one whose undo was not heard of.
StoredUndoIsLive ==
  stored # None /\ status[stored.s] = "open" =>
    \/ stored.s \in twice \cup unsure
    \/ \E c \in About(stored.s) : calls[c].what = "reopen"

\* What is busy has a handler that will release it: a card, the batch or the
\* toast never spins for good, whatever fails and whatever is unmounted under
\* the handler (finally).
BusyHasHandler ==
  /\ busy # "" => \E c \in Slots : calls[c].kind \in {"act", "batch"} /\ calls[c].mine
  /\ toast # 0 => calls[toast].kind = "undo" /\ Offered
=============================================================================
