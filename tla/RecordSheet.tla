---------------------------- MODULE RecordSheet ----------------------------
(***************************************************************************)
(* What the pages of people, companies, deals and tasks have in common: a  *)
(* list, a sheet that shows one record of it, what is loaded about that    *)
(* record, and a form that makes a new one.  PersonSheet, CompanySheet,    *)
(* DealSheet and TaskSheet say what each sheet lets the user do, and       *)
(* RecordPages puts them together.                                         *)
(*                                                                         *)
(* The sheet works on a copy of the record: the object in the state        *)
(* variable selectedPerson, selectedCompany and so on.  A save sends the   *)
(* whole object.  A sheet is modal, but it can be closed, and another      *)
(* record opened, while its requests are under way; their handlers go on   *)
(* and put their answers into the state they find.                         *)
(*                                                                         *)
(* A record has two fields: one the sheet's form edits, one that is        *)
(* switched by a button (a status).  Every change writes a new number.     *)
(* What is linked to the record is counted.                                *)
(***************************************************************************)
EXTENDS Naturals, FiniteSets

CONSTANTS
  Ids,       \* records, those that do not exist yet included
  None,
  MaxCalls,  \* requests under way at once
  MaxMoves,  \* things the user does
  MaxFails   \* requests that fail

ASSUME RecordSheetAssumption ==
  /\ None \notin Ids
  /\ MaxCalls \in Nat /\ MaxMoves \in Nat /\ MaxFails \in Nat

VARIABLES
  kind,     \* the page: of "people", "companies", "deals" or "tasks", or the "dashboard"
  life,     \* of each record, on the server: "new", "alive" or "gone"
  rows,     \* its fields there
  related,  \* how often what is linked to it has changed
  list,     \* [ids, rows, shown]: what the page read last, and whether it shows it
  shown,    \* the record in the sheet
  row,      \* the copy the sheet works on
  detail,   \* [of, seen, state]: what is loaded, about which record; the state is
            \* relationState of the page of deals
  drafts,   \* what the sheet's form holds for each record
  editing,  \* the record whose form is open
  form,     \* the move that opened the form for a new record, 0 if it is closed
  calls,    \* requests under way
  moves, fails,
  crossed,  \* records opened or written while a write to them was under way, opened
            \* from a row that a list still loading was to replace, written with an
            \* answer that was lost, or before the form that made them was answered
  known,    \* the links of each record the user was told of
  born,     \* the form that made it
  resent    \* forms sent again under way, or with an answer lost

server == <<life, rows, related>>
sheet == <<shown, row, detail>>
edits == <<drafts, editing>>
ghosts == <<crossed, known, born, resent>>
vars == <<kind, server, list, sheet, edits, form, calls, moves, fails, ghosts>>

Kinds == {"people", "companies", "deals", "tasks", "dashboard"}
NoRow == [typed |-> 0, flag |-> 0]
NoDetail == [of |-> None, seen |-> 0, state |-> "idle"]
Alive == {id \in Ids : life[id] = "alive"}
Page == [ids |-> Alive, rows |-> rows]
NoPage == [ids |-> {}, rows |-> [id \in Ids |-> NoRow]]

Init ==
  /\ kind \in Kinds
  /\ life \in [Ids -> {"new", "alive"}]
  /\ rows = [id \in Ids |-> NoRow]
  /\ related = [id \in Ids |-> 0]
  /\ list = [ids |-> Alive, rows |-> rows, shown |-> TRUE]
  /\ shown = None /\ row = NoRow /\ detail = NoDetail
  /\ drafts = [id \in Ids |-> NoRow] /\ editing = None
  /\ form = 0
  /\ calls = {}
  /\ moves = 0 /\ fails = 0
  /\ crossed = {} /\ known = related /\ born = [id \in Ids |-> 0] /\ resent = {}

-----------------------------------------------------------------------------
(***************************************************************************)
(* Requests.  A load is live until the next load of its sort makes its     *)
(* answer void; a deletion while the dialog that asked for it is there.    *)
(***************************************************************************)

Request(op, id) ==
  [op |-> op, id |-> id, n |-> moves + 1, data |-> NoRow, live |-> TRUE,
   state |-> "sent", page |-> NoPage, seen |-> 0]

Send(op, id, data) == [Request(op, id) EXCEPT !.data = data]

\* Loads are told apart by live alone.
Load(op, id) == [Request(op, id) EXCEPT !.n = 0]

Writes == {"save", "toggle", "delete"}
Writing(id) == \E c \in calls : c.op \in Writes /\ c.id = id
Making(id) == \E c \in calls : c.op = "create" /\ c.id = id
UnderWay(ops) == \E c \in calls : c.op \in ops

\* Requests of one sort lose whoever waited for them.
Void(cs, op) == {[c EXCEPT !.live = c.live /\ c.op # op] : c \in cs}

\* usePagedResource: the page reads its list again.
Relist(cs) == Void(cs, "list") \cup {Load("list", None)}

\* The page loads what is linked to the record in the sheet: the effect on
\* the record and on detailRefresh.  The page of tasks has none.
Detailed == kind \in {"people", "companies", "deals"}
LoadDetails(cs, id) ==
  Void(cs, "detail") \cup IF id # None /\ Detailed THEN {Load("detail", id)} ELSE {}
\* Without a record there is nothing to show.  The page of deals says that it is
\* loading; on those of people and companies what was loaded last stays, also if
\* it was about another record.
DetailsLoading(id) ==
  CASE id = None \/ ~Detailed -> NoDetail
    [] id # None /\ kind = "deals" -> [detail EXCEPT !.state = "loading"]
    [] OTHER -> detail

Move == moves < MaxMoves /\ moves' = moves + 1
Room(n) == Cardinality(calls) + n <= MaxCalls

-----------------------------------------------------------------------------
(***************************************************************************)
(* The sheet is opened, closed, and given another object to show.          *)
(***************************************************************************)

\* The forms of deals and tasks are state of the sheet, set anew with every
\* object it shows; those of people and companies are kept for each record.
FormOfObject == kind \in {"deals", "tasks", "dashboard"}

Show(id, r) ==
  /\ shown' = id
  /\ row' = IF id = None THEN NoRow ELSE r
  /\ detail' = DetailsLoading(id)

\* Mutated form: the form is filled when a record is opened, and not again
\* when the sheet is given a newer object of the same record.
MRefill(id, r) ==
  IF FormOfObject
    THEN /\ drafts' = IF id = None \/ id = shown THEN drafts ELSE [drafts EXCEPT ![id] = r]
         /\ editing' = None
    ELSE UNCHANGED edits

Refill(id, r) ==
  IF FormOfObject
    THEN /\ drafts' = IF id = None THEN drafts ELSE [drafts EXCEPT ![id] = r]
         /\ editing' = None
    ELSE UNCHANGED edits

Loading == \E c \in calls : c.op = "list" /\ c.live

\* The rows of the table, unless an error stands in its place.
Listed(id) == list.shown /\ id \in list.ids

\* The server has another row by now, or none.
Outdated(id) == life[id] # "alive" \/ list.rows[id] # rows[id]

Select(id) ==
  /\ shown = None /\ form = 0 /\ Listed(id)
  /\ Move /\ Room(1)
  /\ Show(id, list.rows[id]) /\ Refill(id, list.rows[id])
  /\ calls' = LoadDetails(calls, id)
  /\ crossed' = IF Writing(id) \/ (Loading /\ Outdated(id)) THEN crossed \cup {id} ELSE crossed
  /\ UNCHANGED <<kind, server, list, form, fails, known, born, resent>>

\* The dialogs of the sheet go with it.
Close ==
  /\ shown # None
  /\ Move
  /\ Show(None, NoRow) /\ Refill(None, NoRow)
  /\ calls' = Void(LoadDetails(calls, None), "delete")
  /\ UNCHANGED <<kind, server, list, form, fails, ghosts>>

-----------------------------------------------------------------------------
(***************************************************************************)
(* What the sheets' handlers send.                                         *)
(***************************************************************************)

\* A write of the record in the sheet.
Write(op, data) ==
  /\ shown # None
  /\ Move /\ Room(1)
  /\ calls' = calls \cup {Send(op, shown, data)}
  /\ crossed' = IF Writing(shown) \/ Making(shown) THEN crossed \cup {shown} ELSE crossed
  /\ UNCHANGED <<kind, server, list, sheet, form, fails, known, born, resent>>

\* What the form holds, after the user has typed in it or not.
Typed == {drafts[shown], [drafts[shown] EXCEPT !.typed = moves + 1]}

Save ==
  \E d \in Typed :
    /\ Write("save", d)
    /\ drafts' = [drafts EXCEPT ![shown] = d]
    /\ UNCHANGED editing

Toggle == Write("toggle", [row EXCEPT !.flag = moves + 1]) /\ UNCHANGED edits

\* ConfirmAction: its button is disabled while the dialog waits.
Delete ==
  /\ ~\E c \in calls : c.op = "delete" /\ c.live
  /\ Write("delete", NoRow) /\ UNCHANGED edits

\* A link, a task or an activity is added to the record, changed or removed.
Relate(op, id) ==
  /\ shown # None
  /\ Move /\ Room(1)
  /\ calls' = calls \cup {Request(op, id)}
  /\ UNCHANGED <<kind, server, list, sheet, edits, form, fails, ghosts>>

\* ActivityComposer, and an ActivityCard for each activity that is loaded, for
\* whatever record: each of them is disabled by its own request alone.
ComposeActivity == Detailed /\ Relate("activity", shown)
ChangeActivity == Detailed /\ detail.of # None /\ Relate("activity", detail.of)

OpenForm ==
  /\ shown = None /\ form = 0
  /\ Move
  /\ form' = moves + 1
  /\ UNCHANGED <<kind, server, list, sheet, edits, calls, fails, ghosts>>

CloseForm ==
  /\ form # 0
  /\ Move
  /\ form' = 0
  /\ UNCHANGED <<kind, server, list, sheet, edits, calls, fails, ghosts>>

\* The button is never disabled.
Submit ==
  /\ form # 0
  /\ Move /\ Room(1)
  /\ calls' = calls \cup {Send("create", None, [NoRow EXCEPT !.typed = form])}
  /\ resent' = IF \E c \in calls : c.op = "create" /\ c.data.typed = form
                 THEN resent \cup {form} ELSE resent
  /\ UNCHANGED <<kind, server, list, sheet, edits, form, fails, crossed, known, born>>

-----------------------------------------------------------------------------
(***************************************************************************)
(* The server.                                                             *)
(***************************************************************************)
Becomes(c, s) == calls' = (calls \ {c}) \cup {[c EXCEPT !.state = s]}
Served(c) == Becomes(c, "ok") /\ UNCHANGED <<kind, list, sheet, edits, form, moves, fails>>

ServeSave(c) ==
  /\ c.op \in {"save", "toggle"} /\ life[c.id] = "alive"
  /\ rows' = [rows EXCEPT ![c.id] = c.data]
  /\ Served(c) /\ UNCHANGED <<life, related, ghosts>>

\* The record is deleted, or was before.
ServeDelete(c) ==
  /\ c.op = "delete"
  /\ life' = [life EXCEPT ![c.id] = "gone"]
  /\ Served(c) /\ UNCHANGED <<rows, related, ghosts>>

Relations == {"link", "task", "done", "activity"}
ServeRelate(c) ==
  /\ c.op \in Relations /\ life[c.id] = "alive"
  /\ related' = [related EXCEPT ![c.id] = @ + 1]
  /\ calls' = (calls \ {c}) \cup {[c EXCEPT !.state = "ok", !.seen = related[c.id] + 1]}
  /\ UNCHANGED <<kind, life, rows, list, sheet, edits, form, moves, fails, ghosts>>

ServeCreate(c) ==
  /\ c.op = "create"
  /\ \E id \in Ids :
       /\ life[id] = "new"
       /\ life' = [life EXCEPT ![id] = "alive"]
       /\ rows' = [rows EXCEPT ![id] = c.data]
       /\ born' = [born EXCEPT ![id] = c.data.typed]
       /\ calls' = (calls \ {c}) \cup {[c EXCEPT !.state = "ok", !.id = id]}
  /\ UNCHANGED <<kind, related, list, sheet, edits, form, moves, fails, crossed, known, resent>>

ServeList(c) ==
  /\ c.op = "list"
  /\ calls' = (calls \ {c}) \cup {[c EXCEPT !.state = "ok", !.page = Page]}
  /\ UNCHANGED <<kind, server, list, sheet, edits, form, moves, fails, ghosts>>

ServeDetails(c) ==
  /\ c.op = "detail"
  /\ calls' = (calls \ {c}) \cup {[c EXCEPT !.state = "ok", !.seen = related[c.id]]}
  /\ UNCHANGED <<kind, server, list, sheet, edits, form, moves, fails, ghosts>>

Serve(c) ==
  /\ c.state = "sent"
  /\ \/ ServeSave(c) \/ ServeDelete(c) \/ ServeRelate(c) \/ ServeCreate(c)
     \/ ServeList(c) \/ ServeDetails(c)

\* Nothing is left to write to.
Refuse(c) ==
  /\ c.state = "sent" /\ c.op \in {"save", "toggle"} \cup Relations /\ life[c.id] # "alive"
  /\ Becomes(c, "error")
  /\ UNCHANGED <<kind, server, list, sheet, edits, form, moves, fails, ghosts>>

\* The request is lost, or its answer.
Fail(c) ==
  /\ c.state # "error" /\ fails < MaxFails
  /\ fails' = fails + 1
  /\ Becomes(c, "error")
  /\ crossed' = IF c.state = "ok" /\ c.op \in Writes THEN crossed \cup {c.id} ELSE crossed
  /\ resent' = IF c.state = "ok" /\ c.op = "create" THEN resent \cup {c.data.typed} ELSE resent
  /\ UNCHANGED <<kind, server, list, sheet, edits, form, moves, known, born>>

-----------------------------------------------------------------------------
(***************************************************************************)
(* What the handlers of the page do with an answer.                        *)
(***************************************************************************)
Answered(c, ops, s) == c \in calls /\ c.op \in ops /\ c.state = s

\* onSave: the sheet shows what was saved, whatever it showed before.
Saved(c) ==
  /\ Answered(c, {"save", "toggle"}, "ok") /\ Room(1)
  /\ Show(c.id, c.data)
  /\ calls' = LoadDetails(Relist(calls \ {c}), c.id)
  /\ UNCHANGED <<kind, server, list, form, moves, fails, ghosts>>

\* Mutated form: the list is not read again.
MDeleted(c) ==
  /\ Answered(c, {"delete"}, "ok")
  /\ Show(None, NoRow) /\ Refill(None, NoRow)
  /\ calls' = Void(LoadDetails(calls \ {c}, None), "delete")
  /\ UNCHANGED <<kind, server, list, form, moves, fails, ghosts>>

\* onDelete: the sheet closes, whatever it shows.
Deleted(c) ==
  /\ Answered(c, {"delete"}, "ok")
  /\ Show(None, NoRow) /\ Refill(None, NoRow)
  /\ calls' = Void(LoadDetails(Relist(calls \ {c}), None), "delete")
  /\ UNCHANGED <<kind, server, list, form, moves, fails, ghosts>>

\* detailRefresh, relationRefresh
Related(c) ==
  /\ Answered(c, Relations, "ok")
  /\ known' = [known EXCEPT ![c.id] = IF c.seen > @ THEN c.seen ELSE @]
  /\ detail' = DetailsLoading(shown)
  /\ calls' = LoadDetails(calls \ {c}, shown)
  /\ UNCHANGED <<kind, server, list, shown, row, edits, form, moves, fails, crossed, born, resent>>

\* Mutated form: the form stays open.
MCreated(c) ==
  /\ Answered(c, {"create"}, "ok") /\ Room(1)
  /\ Show(c.id, c.data) /\ Refill(c.id, c.data)
  /\ calls' = LoadDetails(Relist(calls \ {c}), c.id)
  /\ UNCHANGED <<kind, server, list, form, moves, fails, ghosts>>

\* onCreated, after close(false): the sheet shows what was made.
Created(c) ==
  /\ Answered(c, {"create"}, "ok") /\ Room(1)
  /\ form' = 0
  /\ Show(c.id, c.data) /\ Refill(c.id, c.data)
  /\ calls' = LoadDetails(Relist(calls \ {c}), c.id)
  /\ UNCHANGED <<kind, server, list, moves, fails, ghosts>>

\* The handler ends with an error, which it shows or not.
Failed(c) ==
  /\ c \in calls /\ c.state = "error" /\ c.op \notin {"list", "detail"}
  /\ calls' = calls \ {c}
  /\ UNCHANGED <<kind, server, list, sheet, form, moves, fails, ghosts>>

ListAnswers(c) ==
  /\ c \in calls /\ c.op = "list" /\ c.state # "sent"
  /\ calls' = calls \ {c}
  /\ list' = CASE ~c.live -> list
               [] c.live /\ c.state = "ok" -> [ids |-> c.page.ids, rows |-> c.page.rows, shown |-> TRUE]
               [] OTHER -> [list EXCEPT !.shown = FALSE]
  /\ UNCHANGED <<kind, server, sheet, edits, form, moves, fails, ghosts>>

\* Mutated form: an effect is not cancelled when the next one runs.
MDetailsAnswer(c) ==
  /\ Answered(c, {"detail"}, "ok")
  /\ calls' = calls \ {c}
  /\ detail' = [of |-> c.id, seen |-> c.seen, state |-> "ready"]
  /\ UNCHANGED <<kind, server, list, shown, row, edits, form, moves, fails, ghosts>>

\* The answer of an effect that has not been cleaned up.
DetailsAnswer(c) ==
  /\ Answered(c, {"detail"}, "ok")
  /\ calls' = calls \ {c}
  /\ detail' = IF c.live THEN [of |-> c.id, seen |-> c.seen, state |-> "ready"] ELSE detail
  /\ UNCHANGED <<kind, server, list, shown, row, edits, form, moves, fails, ghosts>>

\* Nothing is shown as linked: on the page of deals with an error.
DetailsFail(c) ==
  /\ Answered(c, {"detail"}, "error")
  /\ calls' = calls \ {c}
  /\ detail' = IF c.live THEN [NoDetail EXCEPT !.state = "failed"] ELSE detail
  /\ UNCHANGED <<kind, server, list, shown, row, edits, form, moves, fails, ghosts>>
=============================================================================
