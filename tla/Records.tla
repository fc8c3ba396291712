------------------------------- MODULE Records -------------------------------
(***************************************************************************)
(* The CRM records: CRMService (internal/usecase/crm.go) and the handlers  *)
(* of the HTTP API that call it (internal/adapters/httpapi/api.go) over    *)
(* the statements of internal/adapters/postgres/crm.go.                    *)
(*                                                                         *)
(* People, companies and deals are entities.  Tasks, activity links and    *)
(* tags name an entity by type and id without a foreign key, so the        *)
(* deletion of an entity removes them with statements of its own, each     *)
(* under READ COMMITTED: it sees what has committed before the statement   *)
(* starts.  A PATCH reads the row in one transaction and writes all of its *)
(* columns in another; the status of a task and last_touch_at of a person  *)
(* or company (0 is null) stand for the columns another request may have   *)
(* written in between.                                                     *)
(*                                                                         *)
(* Ids are random: an id is never used twice.  Relations between entities  *)
(* and memberships of workspaces have foreign keys and are left out.       *)
(***************************************************************************)
EXTENDS Naturals

CONSTANTS
  Entities,
  Todos, Activities, Tags,
  Requests,      \* requests in flight at the same time
  RLSEnforced,
  Faults,        \* a statement may fail, the process may stop
  MaxTouch       \* bound on last_touch_at

\* A deal has no last_touch_at: it behaves like a person nobody touches.
Kinds == {"person", "company"}
Omit == ""         \* a field that is not in the PATCH
None == "none"

ASSUME RecordsAssumption ==
  /\ {None, Omit} \cap (Entities \cup Todos \cup Activities) = {}
  /\ Activities \cap Tags = {}
  /\ RLSEnforced \in BOOLEAN /\ Faults \in BOOLEAN /\ MaxTouch \in Nat

VARIABLES
  rows,      \* people, companies, deals
  todos,
  notes,     \* activities: "unused", "here" or "gone"
  links,     \* activity_links, as <<activity, entity>>
  tagged,    \* entity_tags, as <<tag, entity>>
  late,      \* inserts into links and tagged that wait for a deletion
  overlap,   \* entities whose deletion met an insert about them (history)
  req

vars == <<rows, todos, notes, links, tagged, late, overlap, req>>

Row == [state : {"unused", "here", "gone"}, kind : Kinds, touch : 0..MaxTouch]
NoRow == [state |-> "unused", kind |-> "person", touch |-> 0]

NoTodo == [state |-> "unused", about |-> None, status |-> "open", completed |-> FALSE]

\* What a PATCH of a task is about to write.
TodoInput == [about : Entities \cup {None}, status : {"open", "done", Omit}]
NoInput == [about |-> None, status |-> Omit]

(***************************************************************************)
(* A request: what it works on, the PATCH it was sent, the row it has read *)
(* and, for a deletion, the rows its statements have deleted so far and    *)
(* those that were there when it began and that no update has written      *)
(* since (history).                                                        *)
(***************************************************************************)
Things == (Todos \X {"todo"}) \cup (Activities \X {"link"}) \cup (Tags \X {"tag"})

Request == [step : {"idle", "row", "todo", "refill", "todos", "links", "tags", "entity",
                    "commit", "activity", "refillTodo"},
            on : Entities \cup Todos \cup Activities \cup {None},
            row : Row, todo : TodoInput, want : SUBSET Entities, linked : SUBSET Entities,
            deleted : SUBSET Things, before : SUBSET Things]
Idle == [step |-> "idle", on |-> None, row |-> NoRow, todo |-> NoInput,
         want |-> {}, linked |-> {}, deleted |-> {}, before |-> {}]

Becomes(r, q) == req' = [req EXCEPT ![r] = q]
Finish(r) == Becomes(r, Idle)

Here(e) == rows[e].state = "here"

\* What names an entity without a foreign key.
About(e) == {<<t, "todo">> : t \in {t \in Todos : todos[t].state = "here" /\ todos[t].about = e}}
       \cup {<<a, "link">> : a \in {a \in Activities : <<a, e>> \in links}}
       \cup {<<g, "tag">> : g \in {g \in Tags : <<g, e>> \in tagged}}

\* A deletion of e is in flight; a row another transaction has deleted and not
\* committed yet makes a second writer wait.
DeletingSteps == {"todos", "links", "tags", "entity", "commit"}
Deleting(e) == \E r \in Requests : req[r].step \in DeletingSteps /\ req[r].on = e
LockedRow(e) == \E r \in Requests : req[r].step = "commit" /\ req[r].on = e
LockedTodo(t) == \E r \in Requests : <<t, "todo">> \in req[r].deleted
LockedLinks(a) == \E r \in Requests : <<a, "link">> \in req[r].deleted

\* A deletion of e that has not ended has deleted x's row about e: an insert of
\* the same key, past its policy already, waits to see whether it commits.
Waits(x, e) ==
  \E r \in Requests : req[r].on = e /\ \E k \in {"link", "tag"} : <<x, k>> \in req[r].deleted

\* An insert about e, or one that waits for its commit, meets a deletion of e.
Met(e) == IF Deleting(e) THEN overlap \cup {e} ELSE overlap

\* Mutated form: the policies before migration 030.
MMayName(e) == TRUE

\* The insert policies of activity_links and entity_tags (migration 030) look
\* the entity up; the table's own constraints do not.
MayName(e) == RLSEnforced => Here(e)

Init ==
  /\ rows = [e \in Entities |-> NoRow]
  /\ todos = [t \in Todos |-> NoTodo]
  /\ notes = [a \in Activities |-> "unused"]
  /\ links = {}
  /\ tagged = {}
  /\ late = {}
  /\ overlap = {}
  /\ req = [r \in Requests |-> Idle]

-----------------------------------------------------------------------------
(* Entities.                                                               *)

\* CreatePerson, CreateCompany, CreateDeal; CreatePersonInWorkspace and its
\* counterparts commit the row and its workspace together.
Create(e, k) ==
  /\ rows[e].state = "unused"
  /\ rows' = [rows EXCEPT ![e] = [NoRow EXCEPT !.state = "here", !.kind = k]]
  /\ UNCHANGED <<todos, notes, links, tagged, late, overlap, req>>

\* PATCH without ?replace=true: the handler reads the row first.
GetRow(r, e) ==
  /\ req[r] = Idle /\ Here(e)
  /\ Becomes(r, [Idle EXCEPT !.step = "row", !.on = e, !.row = rows[e]])
  /\ UNCHANGED <<rows, todos, notes, links, tagged, late, overlap>>

\* ?replace=true starts from the zero row instead.
Replace(r, e) ==
  /\ req[r] = Idle /\ rows[e].state # "unused"
  /\ Becomes(r, [Idle EXCEPT !.step = "row", !.on = e])
  /\ UNCHANGED <<rows, todos, notes, links, tagged, late, overlap>>

\* UpdateCompany reads the row once more and fills what is empty from it.
Refill(r) ==
  LET q == req[r]
      e == q.on
  IN  /\ q.step = "row" /\ rows[e].kind = "company"
      /\ IF Here(e)
         THEN Becomes(r, [q EXCEPT !.step = "refill",
                                   !.row.touch = IF @ = 0 THEN rows[e].touch ELSE @])
         ELSE Finish(r)
      /\ UNCHANGED <<rows, todos, notes, links, tagged, late, overlap>>

\* The update statement of a person or a company writes every column,
\* last_touch_at included, from what the request has read.
UpdateRow(r) ==
  LET q == req[r]
      e == q.on
  IN  /\ q.step \in {"row", "refill"}
      /\ q.step = "refill" <=> rows[e].kind = "company"
      /\ ~LockedRow(e)
      /\ rows' = IF Here(e) THEN [rows EXCEPT ![e].touch = q.row.touch] ELSE rows
      /\ Finish(r)
      /\ UNCHANGED <<todos, notes, links, tagged, late, overlap>>

\* TouchPerson and TouchCompany.
Touch(e, at) ==
  /\ Here(e) /\ ~LockedRow(e)
  /\ rows' = [rows EXCEPT ![e].touch = IF at > @ THEN at ELSE @]
  /\ UNCHANGED <<todos, notes, links, tagged, late, overlap, req>>

-----------------------------------------------------------------------------
(* DeletePerson, DeleteCompany, DeleteDeal: one transaction.               *)

BeginDelete(r, e) ==
  /\ req[r] = Idle /\ rows[e].state # "unused"
  /\ Becomes(r, [Idle EXCEPT !.step = "todos", !.on = e, !.before = About(e)])
  /\ overlap' = IF \E x \in Requests : e \in req[x].linked THEN overlap \cup {e} ELSE overlap
  /\ UNCHANGED <<rows, todos, notes, links, tagged, late>>

\* The rows about e of one of the three tables, as the statement finds them.
\* It waits for another transaction that has deleted one of them.
DeleteAbout(r, step, kind, next) ==
  LET q == req[r]
      found == {x \in About(q.on) : x[2] = kind}
  IN  /\ q.step = step
      /\ \A x \in Requests \ {r} : found \cap req[x].deleted = {} \/ req[x].on # q.on
      /\ Becomes(r, [q EXCEPT !.step = next, !.deleted = @ \cup found])
      /\ UNCHANGED <<rows, todos, notes, links, tagged, late, overlap>>

DeleteTodos(r) == DeleteAbout(r, "todos", "todo", "links")
DeleteLinks(r) == DeleteAbout(r, "links", "link", "tags")

\* Mutated form: the tags are left to a foreign key that does not exist.
MDeleteTags(r) == DeleteAbout(r, "tags", "none", "entity")

DeleteTags(r) == DeleteAbout(r, "tags", "tag", "entity")

DeleteRow(r) ==
  /\ req[r].step = "entity" /\ ~LockedRow(req[r].on)
  /\ Becomes(r, [req[r] EXCEPT !.step = "commit"])
  /\ UNCHANGED <<rows, todos, notes, links, tagged, late, overlap>>

\* What the statements have deleted goes.
CommitDelete(r) ==
  LET q == req[r]
      e == q.on
  IN  /\ q.step = "commit"
      /\ rows' = [rows EXCEPT ![e] = [@ EXCEPT !.state = "gone", !.touch = 0]]
      /\ todos' = [t \in Todos |-> IF <<t, "todo">> \in q.deleted
                                   THEN [NoTodo EXCEPT !.state = "gone"] ELSE todos[t]]
      /\ links' = {l \in links : l[2] # e \/ <<l[1], "link">> \notin q.deleted}
      /\ tagged' = {l \in tagged : l[2] # e \/ <<l[1], "tag">> \notin q.deleted}
      /\ Finish(r)
      /\ UNCHANGED <<notes, late, overlap>>

-----------------------------------------------------------------------------
(* Activities and tags.                                                    *)

\* CreateActivity: the activity and its links are one transaction of several
\* statements; nobody sees them before the commit.
CreateActivity(r, a, L) ==
  /\ req[r] = Idle /\ notes[a] = "unused" /\ \A x \in Requests : req[x].on # a
  /\ \A e \in L : rows[e].state # "unused"
  /\ Becomes(r, [Idle EXCEPT !.step = "activity", !.on = a, !.want = L])
  /\ UNCHANGED <<rows, todos, notes, links, tagged, late, overlap>>

\* One insert into activity_links; a refused one ends the transaction.
InsertLink(r, e) ==
  LET q == req[r]
  IN  /\ q.step = "activity" /\ e \in q.want \ q.linked
      /\ IF MayName(e)
         THEN Becomes(r, [q EXCEPT !.linked = @ \cup {e}]) /\ overlap' = Met(e)
         ELSE Finish(r) /\ UNCHANGED overlap
      /\ UNCHANGED <<rows, todos, notes, links, tagged, late>>

CommitActivity(r) ==
  LET q == req[r]
  IN  /\ q.step = "activity" /\ q.linked = q.want
      /\ notes' = [notes EXCEPT ![q.on] = "here"]
      /\ links' = links \cup ({q.on} \X q.linked)
      /\ Finish(r)
      /\ UNCHANGED <<rows, todos, tagged, late, overlap>>

LinkActivity(a, e) ==
  /\ notes[a] = "here" /\ rows[e].state # "unused" /\ MayName(e)
  /\ IF Waits(a, e) THEN late' = late \cup {<<a, e>>} /\ UNCHANGED links
                    ELSE links' = links \cup {<<a, e>>} /\ UNCHANGED late
  /\ overlap' = Met(e)
  /\ UNCHANGED <<rows, todos, notes, tagged, req>>

\* DeleteActivity and DeleteNote: the links go with the row.
DeleteActivity(a) ==
  /\ notes[a] = "here" /\ ~LockedLinks(a)
  /\ notes' = [notes EXCEPT ![a] = "gone"]
  /\ links' = {l \in links : l[1] # a}
  /\ UNCHANGED <<rows, todos, tagged, late, overlap, req>>

TagEntity(g, e) ==
  /\ rows[e].state # "unused" /\ MayName(e)
  /\ IF Waits(g, e) THEN late' = late \cup {<<g, e>>} /\ UNCHANGED tagged
                    ELSE tagged' = tagged \cup {<<g, e>>} /\ UNCHANGED late
  /\ overlap' = Met(e)
  /\ UNCHANGED <<rows, todos, notes, links, req>>

\* An insert whose wait is over.  The activity's foreign key is still checked.
LateInsert(x, e) ==
  /\ <<x, e>> \in late /\ ~Waits(x, e)
  /\ late' = late \ {<<x, e>>}
  /\ links' = IF x \in Activities /\ notes[x] = "here" THEN links \cup {<<x, e>>} ELSE links
  /\ tagged' = IF x \in Tags THEN tagged \cup {<<x, e>>} ELSE tagged
  /\ UNCHANGED <<rows, todos, notes, overlap, req>>

-----------------------------------------------------------------------------
(* Tasks.                                                                  *)

\* CreateTodo: no one looks the entity up, and completed_at stays null even
\* for a task that is created done.
CreateTodo(t, e, s) ==
  /\ todos[t].state = "unused"
  /\ e # None => rows[e].state # "unused"
  /\ todos' = [todos EXCEPT ![t] = [state |-> "here", about |-> e,
                                   status |-> s, completed |-> FALSE]]
  /\ UNCHANGED <<rows, notes, links, tagged, late, overlap, req>>

\* What a field of the PATCH makes of a column.
Apply(field, column) == IF field = Omit THEN column ELSE field

\* PATCH /tasks/{id}: the handler reads the task and applies the patch to it,
\* or with ?replace=true to the zero task.
GetTodo(r, t, s, about) ==
  /\ req[r] = Idle /\ todos[t].state = "here"
  /\ Becomes(r, [Idle EXCEPT !.step = "todo", !.on = t,
                   !.todo = [about |-> Apply(about, todos[t].about),
                             status |-> Apply(s, todos[t].status)]])
  /\ UNCHANGED <<rows, todos, notes, links, tagged, late, overlap>>

ReplaceTodo(r, t, s, about) ==
  /\ req[r] = Idle
  /\ Becomes(r, [Idle EXCEPT !.step = "todo", !.on = t,
                   !.todo = [about |-> Apply(about, None), status |-> s]])
  /\ UNCHANGED <<rows, todos, notes, links, tagged, late, overlap>>

Refilled(status, t) == IF status = Omit THEN t.status ELSE status

\* CRMService.UpdateTodo reads the task again and fills what is empty.
RefillTodo(r) ==
  LET q == req[r]
      t == todos[q.on]
  IN  /\ q.step = "todo"
      /\ IF t.state = "here"
         THEN Becomes(r, [q EXCEPT !.step = "refillTodo",
                                   !.todo.status = Refilled(@, t)])
         ELSE Finish(r)
      /\ UNCHANGED <<rows, todos, notes, links, tagged, late, overlap>>

\* "case when $10='done' and completed_at is null then now() when $10='open'
\* then null else completed_at end"
CompletedAt(t, s) == s = "done"

\* The update statement: status and entity as the request holds them.
UpdateTodo(r) ==
  LET q == req[r]
      t == q.on
  IN  /\ q.step = "refillTodo" /\ ~LockedTodo(t)
      /\ todos' = IF todos[t].state = "here"
                  THEN [todos EXCEPT ![t] =
                         [@ EXCEPT !.about = q.todo.about, !.status = q.todo.status,
                                   !.completed = CompletedAt(todos[t], q.todo.status)]]
                  ELSE todos
      /\ req' = [x \in Requests |->
                   IF x = r THEN Idle ELSE [req[x] EXCEPT !.before = @ \ {<<t, "todo">>}]]
      /\ UNCHANGED <<rows, notes, links, tagged, late, overlap>>

CompleteTodo(t) ==
  /\ todos[t].state = "here" /\ ~LockedTodo(t)
  /\ todos' = [todos EXCEPT ![t].status = "done", ![t].completed = TRUE]
  /\ UNCHANGED <<rows, notes, links, tagged, late, overlap, req>>

DeleteTodo(t) ==
  /\ todos[t].state = "here" /\ ~LockedTodo(t)
  /\ todos' = [todos EXCEPT ![t] = [NoTodo EXCEPT !.state = "gone"]]
  /\ UNCHANGED <<rows, notes, links, tagged, late, overlap, req>>

-----------------------------------------------------------------------------
\* A failing statement or a process that stops: the transaction rolls back.
Abort(r) ==
  /\ Faults /\ req[r] # Idle
  /\ Finish(r)
  /\ UNCHANGED <<rows, todos, notes, links, tagged, late, overlap>>

Deletion(r) ==
  \/ DeleteTodos(r) \/ DeleteLinks(r) \/ DeleteTags(r)
  \/ DeleteRow(r) \/ CommitDelete(r)

Next ==
  \/ \E e \in Entities :
       \/ \E k \in Kinds : Create(e, k)
       \/ \E at \in 1..MaxTouch : Touch(e, at)
       \/ \E a \in Activities : LinkActivity(a, e)
       \/ \E g \in Tags : TagEntity(g, e)
       \/ \E x \in Activities \cup Tags : LateInsert(x, e)
  \/ \E a \in Activities : DeleteActivity(a)
  \/ \E t \in Todos :
       \/ \E e \in Entities \cup {None}, s \in {"open", "done"} : CreateTodo(t, e, s)
       \/ CompleteTodo(t)
       \/ DeleteTodo(t)
  \/ \E r \in Requests :
       \/ \E e \in Entities :
            \/ GetRow(r, e) \/ Replace(r, e)
            \/ BeginDelete(r, e)
            \/ InsertLink(r, e)
       \/ Refill(r) \/ UpdateRow(r)
       \/ Deletion(r)
       \/ \E a \in Activities, L \in SUBSET Entities : CreateActivity(r, a, L)
       \/ CommitActivity(r)
       \/ \E t \in Todos, s \in {"open", "done", Omit}, about \in Entities \cup {None, Omit} :
            GetTodo(r, t, s, about) \/ ReplaceTodo(r, t, s, about)
       \/ RefillTodo(r) \/ UpdateTodo(r)
       \/ Abort(r)

Spec == Init /\ [][Next]_vars

-----------------------------------------------------------------------------
\* A deletion leaves nothing behind that was there when it began: no task that
\* no update has written since, no activity link and no tag about the entity,
\* whatever other requests do between its statements.
NothingLeftBehind ==
  [][\A r \in Requests, e \in Entities :
       (/\ req[r].step = "commit" /\ req[r].on = e
        /\ Here(e) /\ rows'[e].state = "gone")
       => req[r].before \cap About(e)' = {}]_vars

\* Although nothing but the insert policies ties activity links and tags to an
\* entity, one that names an entity that is gone was written by a transaction
\* that ran while the entity was being deleted.
StrayNeedsOverlap ==
  \A e \in Entities :
    (/\ rows[e].state = "gone"
     /\ \/ \E a \in Activities : <<a, e>> \in links
        \/ \E g \in Tags : <<g, e>> \in tagged)
    => e \in overlap
=============================================================================
