---------------------------- MODULE RecordsProofs ----------------------------
(***************************************************************************)
(* A deletion removes what names the entity without a foreign key, and     *)
(* only what was written while the entity was being deleted outlives it.   *)
(***************************************************************************)
EXTENDS Records, TLAPS

Statuses == {"open", "done", Omit}
Todo == [state : {"unused", "here", "gone"}, about : Entities \cup {None},
         status : Statuses, completed : BOOLEAN]

Types ==
  /\ rows \in [Entities -> Row]
  /\ todos \in [Todos -> Todo]
  /\ notes \in [Activities -> {"unused", "here", "gone"}]
  /\ links \subseteq Activities \X Entities
  /\ tagged \subseteq Tags \X Entities
  /\ late \subseteq (Activities \cup Tags) \X Entities
  /\ overlap \subseteq Entities
  /\ req \in [Requests -> Request]

-----------------------------------------------------------------------------
\* What a request works on is there, and it holds only what its step needs.
Fits(q) ==
  /\ q.step # "activity" => q.linked = {}
  /\ q.step \notin DeletingSteps => q.deleted = {} /\ q.before = {}
  /\ q.step \in DeletingSteps \cup {"row", "refill"} =>
       q.on \in Entities /\ rows[q.on].state # "unused"
  /\ q.step \in {"todo", "refillTodo"} => q.on \in Todos
  /\ q.step = "activity" => q.on \in Activities /\ notes[q.on] = "unused"
  /\ \A t \in Todos : <<t, "todo">> \in q.before => todos[t].state # "unused"

\* What will name an entity that is being deleted, or is gone, met its
\* deletion: the inserts of a transaction that has not ended, and the rows that
\* a deletion has not found.
Covered(q) ==
  RLSEnforced =>
    /\ \A e \in q.linked : Deleting(e) \/ rows[e].state = "gone" => e \in overlap
    /\ q.step \in {"tags", "entity", "commit"} =>
         \A a \in Activities :
           <<a, q.on>> \in links => <<a, "link">> \in q.deleted \/ q.on \in overlap
    /\ q.step \in {"entity", "commit"} =>
         \A g \in Tags : <<g, q.on>> \in tagged => <<g, "tag">> \in q.deleted \/ q.on \in overlap

\* The steps before the one that deletes rows of a kind.
StepsBefore(k) ==
  CASE k = "todo" -> {"todos"} [] k = "link" -> {"todos", "links"}
    [] k = "tag" -> {"todos", "links", "tags"}

\* What was there when a deletion began is deleted by it, gone without it, or
\* still to be found.
TodoCleared(q, t) ==
  \/ <<t, "todo">> \in q.deleted
  \/ todos[t].state = "gone"
  \/ q.step \in StepsBefore("todo") /\ todos[t].state = "here" /\ todos[t].about = q.on
LinkCleared(q, a) ==
  \/ <<a, "link">> \in q.deleted
  \/ notes[a] = "gone"
  \/ q.step \in StepsBefore("link") /\ <<a, q.on>> \in links
TagCleared(q, g) ==
  \/ <<g, "tag">> \in q.deleted
  \/ q.step \in StepsBefore("tag") /\ <<g, q.on>> \in tagged

Cleared(q) ==
  q.step \in DeletingSteps /\ Here(q.on) =>
    /\ \A t \in Todos : <<t, "todo">> \in q.before => TodoCleared(q, t)
    /\ \A a \in Activities : <<a, "link">> \in q.before => LinkCleared(q, a)
    /\ \A g \in Tags : <<g, "tag">> \in q.before => TagCleared(q, g)

Good(q) == Fits(q) /\ Covered(q) /\ Cleared(q)

\* An activity is made by one request, and one has deleted a row and not
\* committed yet.
OneWriter ==
  \A r, x \in Requests :
    (req[r].step \in {"activity", "commit"} /\ req[x].step = req[r].step
       /\ req[r].on = req[x].on) => r = x

LinksOfNotes == \A l \in links : notes[l[1]] = "here"
LateMet == \A l \in late : l[2] \in overlap

RecordsInv ==
  /\ Types
  /\ \A r \in Requests : Good(req[r])
  /\ OneWriter
  /\ LinksOfNotes
  /\ LateMet
  /\ RLSEnforced => StrayNeedsOverlap

-----------------------------------------------------------------------------
\* A request has its fields.
LEMMA RequestFields ==
  ASSUME NEW q \in Request
  PROVE  /\ q.step \in {"idle", "row", "todo", "refill", "todos", "links", "tags", "entity",
                        "commit", "activity", "refillTodo"}
         /\ q.on \in Entities \cup Todos \cup Activities \cup {None}
         /\ q.linked \subseteq Entities
         /\ \A step : [q EXCEPT !.step = step].linked = q.linked
BY DEF Request

LEMMA IdleIsGood ==
  /\ Idle \in Request /\ Idle.step = "idle" /\ Idle.linked = {} /\ Idle.deleted = {} /\ Idle.before = {}
  /\ Idle.on = None /\ Fits(Idle)' /\ Covered(Idle)' /\ Cleared(Idle)' /\ Fits(Idle)
BY RecordsAssumption
DEF Idle, Request, Row, NoRow, Kinds, TodoInput, NoInput, Fits, Covered, Cleared, DeletingSteps

\* One request becomes q, the others stay.
LEMMA BecomesIs ==
  ASSUME Types, NEW r \in Requests, NEW q \in Request, Becomes(r, q)
  PROVE  /\ req' \in [Requests -> Request] /\ req'[r] = q
         /\ \A x \in Requests : x # r => req'[x] = req[x]
BY DEF Types, Becomes

LEMMA GoodNow ==
  ASSUME NEW w \in Requests, NEW q, req'[w] = q, Good(q)'
  PROVE  Good(req[w])'
<1>1. Fits(req[w])'
  BY DEF Good, Fits
<1>2. Covered(req[w])'
  BY DEF Good, Covered
<1>3. Cleared(req[w])'
  BY DEF Good, Cleared, TodoCleared, LinkCleared, TagCleared, Here
<1> QED BY <1>1, <1>2, <1>3 DEF Good

-----------------------------------------------------------------------------
\* What another step leaves alone of a request and of what it depends on.
TodosKept(q) ==
  \A t \in Todos : <<t, "todo">> \in q.before =>
    \/ todos'[t].state = "gone"
    \/ todos'[t].state = todos[t].state /\ todos'[t].about = todos[t].about
NotesKept(q) ==
  /\ \A a \in Activities : notes[a] = "gone" => notes'[a] = "gone"
  /\ q.step = "activity" => notes'[q.on] = notes[q.on]
LinksMet ==
  RLSEnforced =>
    \A l \in links' \ links : Deleting(l[2]) \/ rows'[l[2]].state = "gone" => l[2] \in overlap'
LinksLost == \A l \in links \ links' : notes'[l[1]] = "gone" \/ rows'[l[2]].state # "here"
TagsMet ==
  RLSEnforced =>
    \A l \in tagged' \ tagged : Deleting(l[2]) \/ rows'[l[2]].state = "gone" => l[2] \in overlap'
TagsLost == \A l \in tagged \ tagged' : rows'[l[2]].state # "here"
RowsKept ==
  \A e \in Entities : rows[e].state # "unused" =>
    /\ rows'[e].state # "unused"
    /\ rows'[e].state = "here" => rows[e].state = "here"
\* A deletion that begins, or ends, has met every insert that is under way.
DeletionsMet(q) ==
  \A e \in q.linked : Deleting(e)' \/ rows'[e].state = "gone" =>
    Deleting(e) \/ rows[e].state = "gone" \/ e \in overlap'

LEMMA OthersKeep ==
  ASSUME Types, NEW w \in Requests, NEW p, NEW q, req[w] = p, req'[w] = q, Good(p),
         q.step = p.step, q.on = p.on, q.linked = p.linked, q.deleted = p.deleted,
         q.before \subseteq p.before,
         overlap \subseteq overlap', RowsKept, DeletionsMet(q), NotesKept(q),
         TodosKept(q), LinksMet, LinksLost, TagsMet, TagsLost
  PROVE  Good(q)'
<1>1. Fits(q)'
  BY DEF Good, Fits, RowsKept, NotesKept, TodosKept
<1>2. Covered(q)'
  <2> SUFFICES ASSUME RLSEnforced PROVE Covered(q)'
    BY DEF Covered
  <2>1. ASSUME NEW e \in q.linked, Deleting(e)' \/ rows'[e].state = "gone" PROVE e \in overlap'
    BY <2>1 DEF DeletionsMet, Good, Covered
  <2>2. q.step \in DeletingSteps => Deleting(q.on)
    BY DEF Deleting
  <2>3. ASSUME q.step \in {"tags", "entity", "commit"}, NEW a \in Activities, <<a, q.on>> \in links'
        PROVE  <<a, "link">> \in q.deleted \/ q.on \in overlap'
    <3>1. CASE <<a, q.on>> \in links
      BY <2>3, <3>1 DEF Good, Covered
    <3>2. CASE <<a, q.on>> \notin links
      <4>1. <<a, q.on>>[2] = q.on
        OBVIOUS
      <4> QED BY <2>2, <2>3, <3>2, <4>1 DEF LinksMet, DeletingSteps
    <3> QED BY <3>1, <3>2
  <2>4. ASSUME q.step \in {"entity", "commit"}, NEW g \in Tags, <<g, q.on>> \in tagged'
        PROVE  <<g, "tag">> \in q.deleted \/ q.on \in overlap'
    <3>1. CASE <<g, q.on>> \in tagged
      BY <2>4, <3>1 DEF Good, Covered
    <3>2. CASE <<g, q.on>> \notin tagged
      <4>1. <<g, q.on>>[2] = q.on
        OBVIOUS
      <4> QED BY <2>2, <2>4, <3>2, <4>1 DEF TagsMet, DeletingSteps
    <3> QED BY <3>1, <3>2
  <2> QED BY <2>1, <2>3, <2>4 DEF Covered
<1>3. Cleared(q)'
  <2> SUFFICES ASSUME q.step \in DeletingSteps, rows'[q.on].state = "here"
               PROVE  /\ \A t \in Todos : <<t, "todo">> \in q.before => TodoCleared(q, t)'
                      /\ \A a \in Activities : <<a, "link">> \in q.before => LinkCleared(q, a)'
                      /\ \A g \in Tags : <<g, "tag">> \in q.before => TagCleared(q, g)'
    BY DEF Cleared, Here
  <2>1. q.on \in Entities /\ Here(q.on)
    BY DEF Good, Fits, RowsKept, Here
  <2>2. /\ \A t \in Todos : <<t, "todo">> \in q.before => TodoCleared(p, t)
        /\ \A a \in Activities : <<a, "link">> \in q.before => LinkCleared(p, a)
        /\ \A g \in Tags : <<g, "tag">> \in q.before => TagCleared(p, g)
    BY <2>1 DEF Good, Cleared
  <2>3. ASSUME NEW t \in Todos, <<t, "todo">> \in q.before PROVE TodoCleared(q, t)'
    BY <2>2, <2>3 DEF TodoCleared, TodosKept
  <2>4. ASSUME NEW a \in Activities, <<a, "link">> \in q.before PROVE LinkCleared(q, a)'
    <3>1. <<a, q.on>>[1] = a /\ <<a, q.on>>[2] = q.on
      OBVIOUS
    <3>2. LinkCleared(p, a)
      BY <2>2, <2>4
    <3>3. <<a, q.on>> \in links => <<a, q.on>> \in links' \/ notes'[a] = "gone"
      BY <3>1 DEF LinksLost
    <3> QED BY <3>2, <3>3 DEF LinkCleared, NotesKept
  <2>5. ASSUME NEW g \in Tags, <<g, "tag">> \in q.before PROVE TagCleared(q, g)'
    <3>1. <<g, q.on>>[2] = q.on
      OBVIOUS
    <3>2. TagCleared(p, g)
      BY <2>2, <2>5
    <3>3. <<g, q.on>> \in tagged => <<g, q.on>> \in tagged'
      BY <3>1 DEF TagsLost
    <3> QED BY <3>2, <3>3 DEF TagCleared
  <2> QED BY <2>3, <2>4, <2>5
<1> QED BY <1>1, <1>2, <1>3 DEF Good

\* What a step does to a request that is not its own.
Kept(w) ==
  /\ req'[w].step = req[w].step /\ req'[w].on = req[w].on
  /\ req'[w].linked = req[w].linked /\ req'[w].deleted = req[w].deleted
  /\ req'[w].before \subseteq req[w].before
  /\ DeletionsMet(req'[w]) /\ NotesKept(req'[w]) /\ TodosKept(req'[w])

LEMMA KeptIsGood ==
  ASSUME RecordsInv, NEW w \in Requests, Kept(w), overlap \subseteq overlap', RowsKept,
         LinksMet, LinksLost, TagsMet, TagsLost
  PROVE  Good(req[w])'
<1>1. PICK p : p = req[w]
  OBVIOUS
<1>2. PICK q : q = req'[w]
  OBVIOUS
<1>3. Good(p)
  BY <1>1 DEF RecordsInv
<1>4. Types
  BY DEF RecordsInv
<1>5. DeletionsMet(q) /\ NotesKept(q) /\ TodosKept(q)
  BY <1>2 DEF Kept
<1>6. /\ q.step = p.step /\ q.on = p.on /\ q.linked = p.linked /\ q.deleted = p.deleted
      /\ q.before \subseteq p.before
  BY <1>1, <1>2 DEF Kept
<1>7. Good(q)'
  BY <1>1, <1>2, <1>3, <1>4, <1>5, <1>6, OthersKeep
<1> QED BY <1>2, <1>7, GoodNow

\* A step that deletes no entity, or one that its deletion has met.
GoneMet ==
  \A e \in Entities : RLSEnforced /\ rows'[e].state = "gone" /\ rows[e].state # "gone" =>
    /\ \A l \in links' : l[2] = e => e \in overlap'
    /\ \A l \in tagged' : l[2] = e => e \in overlap'

LEMMA StrayMet ==
  ASSUME RLSEnforced, RecordsInv, Types', overlap \subseteq overlap', LinksMet, TagsMet, GoneMet
  PROVE  StrayNeedsOverlap'
<1> SUFFICES ASSUME NEW e \in Entities, rows'[e].state = "gone",
                    NEW x, <<x, e>> \in links' \/ <<x, e>> \in tagged'
             PROVE  e \in overlap'
  BY DEF StrayNeedsOverlap
<1>1. <<x, e>>[2] = e
  OBVIOUS
<1>2. CASE rows[e].state # "gone"
  BY <1>1, <1>2 DEF GoneMet
<1>3. CASE rows[e].state = "gone"
  <2>1. CASE <<x, e>> \in links' \ links
    BY <1>1, <2>1 DEF LinksMet
  <2>2. CASE <<x, e>> \in tagged' \ tagged
    BY <1>1, <2>2 DEF TagsMet
  <2>3. CASE <<x, e>> \in links
    <3>1. x \in Activities
      BY <2>3 DEF RecordsInv, Types
    <3> QED BY <1>3, <2>3, <3>1 DEF RecordsInv, StrayNeedsOverlap
  <2>4. CASE <<x, e>> \in tagged
    <3>1. x \in Tags
      BY <2>4 DEF RecordsInv, Types
    <3> QED BY <1>3, <2>4, <3>1 DEF RecordsInv, StrayNeedsOverlap
  <2> QED BY <2>1, <2>2, <2>3, <2>4
<1> QED BY <1>2, <1>3

LEMMA StepKeeps ==
  ASSUME RecordsInv, Types', overlap \subseteq overlap', RowsKept,
         LinksMet, LinksLost, TagsMet, TagsLost, GoneMet,
         \A w \in Requests : Kept(w) \/ Good(req[w])',
         OneWriter', LinksOfNotes', LateMet'
  PROVE  RecordsInv'
<1>1. \A w \in Requests : Good(req[w])'
  BY KeptIsGood
<1>2. RLSEnforced => StrayNeedsOverlap'
  BY StrayMet
<1> QED BY <1>1, <1>2 DEF RecordsInv

\* No deletion begins.
NoneBegins ==
  /\ \A x \in Requests : req'[x].step \in DeletingSteps =>
                           req[x].step \in DeletingSteps /\ req'[x].on = req[x].on
  /\ \A e \in Entities : rows'[e].state = "gone" => rows[e].state = "gone" \/ Deleting(e)

LEMMA NoneMet ==
  ASSUME NoneBegins, NEW q, q.linked \subseteq Entities
  PROVE  DeletionsMet(q)
BY DEF NoneBegins, DeletionsMet, Deleting

\* A step that has no request: what the requests are stays.
LEMMA NoRequest ==
  ASSUME RecordsInv, Types', UNCHANGED req, overlap \subseteq overlap', RowsKept,
         \A e \in Entities : rows'[e].state = "gone" => rows[e].state = "gone",
         LinksMet, LinksLost, TagsMet, TagsLost,
         \A a \in Activities : /\ notes[a] = "gone" => notes'[a] = "gone"
                               /\ notes[a] = "unused" => notes'[a] = "unused",
         \A t \in Todos : todos'[t].state = "gone"
                            \/ todos[t].state = "unused"
                            \/ (todos'[t].state = todos[t].state /\ todos'[t].about = todos[t].about),
         LinksOfNotes', LateMet'
  PROVE  RecordsInv'
<1>1. ASSUME NEW w \in Requests PROVE Kept(w)
  <2>1. req[w] \in Request /\ Good(req[w])
    BY DEF RecordsInv, Types
  <2>2. DeletionsMet(req[w])
    BY <2>1, RequestFields, NoneMet DEF NoneBegins
  <2>3. NotesKept(req[w])
    BY <2>1 DEF NotesKept, Good, Fits
  <2>4. TodosKept(req[w])
    BY <2>1 DEF TodosKept, Good, Fits
  <2> QED BY <2>2, <2>3, <2>4 DEF Kept
<1>2. GoneMet
  BY DEF GoneMet
<1>3. OneWriter'
  BY DEF RecordsInv, OneWriter
<1> QED BY <1>1, <1>2, <1>3, StepKeeps

\* A step that lets one request go on, and nothing else but a row: a deletion
\* goes on in its own step.
LEMMA OneRequest ==
  ASSUME RecordsInv, NEW r \in Requests, NEW q \in Request, Becomes(r, q),
         rows' \in [Entities -> Row], RowsKept,
         \A e \in Entities : rows'[e].state = "gone" => rows[e].state = "gone",
         UNCHANGED <<todos, notes, links, tagged, late>>,
         overlap \subseteq overlap', overlap' \subseteq Entities,
         Good(q)', \A w \in Requests : w # r => DeletionsMet(req[w]),
         q.step \in {"activity", "commit"} =>
           \A x \in Requests : x # r /\ req[x].step = q.step => req[x].on # q.on
  PROVE  RecordsInv'
<1>1. Types
  BY DEF RecordsInv
<1>2. /\ req' \in [Requests -> Request] /\ req'[r] = q
      /\ \A x \in Requests : x # r => req'[x] = req[x]
  BY <1>1, BecomesIs
<1>3. Types'
  BY <1>1, <1>2 DEF Types
<1>4. ASSUME NEW w \in Requests PROVE Kept(w) \/ Good(req[w])'
  <2>1. CASE w = r
    BY <1>2, <2>1, GoodNow
  <2>2. CASE w # r
    <3>1. req'[w] = req[w] /\ Good(req[w])
      BY <1>2, <2>2 DEF RecordsInv
    <3>2. DeletionsMet(req[w]) /\ NotesKept(req[w]) /\ TodosKept(req[w])
      BY <2>2 DEF NotesKept, TodosKept
    <3> QED BY <3>1, <3>2 DEF Kept
  <2> QED BY <2>1, <2>2
<1>5. LinksMet /\ LinksLost /\ TagsMet /\ TagsLost /\ GoneMet
  BY DEF LinksMet, LinksLost, TagsMet, TagsLost, GoneMet
<1>6. OneWriter'
  <2> SUFFICES ASSUME NEW x \in Requests, NEW y \in Requests,
                      req'[x].step \in {"activity", "commit"}, req'[y].step = req'[x].step,
                      req'[x].on = req'[y].on
               PROVE  x = y
    BY DEF OneWriter
  <2> QED BY <1>2 DEF RecordsInv, OneWriter
<1>7. LinksOfNotes' /\ LateMet'
  BY DEF RecordsInv, LinksOfNotes, LateMet
<1> QED BY <1>3, <1>4, <1>5, <1>6, <1>7, StepKeeps

\* What a request holds that deletes and makes nothing.
Plain(q) ==
  q.step \notin DeletingSteps \cup {"activity"} /\ q.linked = {} /\ q.deleted = {} /\ q.before = {}

LEMMA PlainStep ==
  ASSUME RecordsInv, NEW r \in Requests, NEW q \in Request, Becomes(r, q), Plain(q),
         rows' \in [Entities -> Row], RowsKept,
         \A e \in Entities : rows'[e].state = "gone" => rows[e].state = "gone",
         UNCHANGED <<todos, notes, links, tagged, late, overlap>>,
         q.step \in {"row", "refill"} => q.on \in Entities /\ rows[q.on].state # "unused",
         q.step \in {"todo", "refillTodo"} => q.on \in Todos
  PROVE  RecordsInv'
<1>1. Types
  BY DEF RecordsInv
<1>2. Good(q)'
  <2>1. Fits(q)'
    BY DEF Plain, Fits, RowsKept
  <2>2. Covered(q)' /\ Cleared(q)'
    BY DEF Plain, Covered, Cleared, DeletingSteps
  <2> QED BY <2>1, <2>2 DEF Good
<1>3. NoneBegins
  <2>1. \A x \in Requests : req'[x] = IF x = r THEN q ELSE req[x]
    BY <1>1, BecomesIs
  <2> QED BY <2>1 DEF NoneBegins, Plain
<1>4. \A w \in Requests : DeletionsMet(req[w])
  BY <1>1, <1>3, NoneMet, RequestFields DEF Types
<1>5. overlap' \subseteq Entities
  BY <1>1 DEF Types
<1> QED BY <1>2, <1>4, <1>5, OneRequest DEF Plain, DeletingSteps

-----------------------------------------------------------------------------
\* A row that is there keeps its fields but last_touch_at.
LEMMA RowFields ==
  ASSUME NEW row \in Row
  PROVE  /\ \A at \in 0..MaxTouch : LET new == [row EXCEPT !.touch = at]
                                    IN  new \in Row /\ new.state = row.state /\ new.touch = at
         /\ row.touch \in 0..MaxTouch
BY DEF Row

\* A row whose last_touch_at is written.
LEMMA RowTouched ==
  ASSUME Types, NEW e \in Entities, NEW at \in 0..MaxTouch,
         rows' = [rows EXCEPT ![e].touch = at]
  PROVE  /\ rows' \in [Entities -> Row] /\ RowsKept
         /\ \A f \in Entities : rows'[f].state = rows[f].state
<1>1. PICK new : new = [rows[e] EXCEPT !.touch = at]
  OBVIOUS
<1>2. rows[e] \in Row
  BY DEF Types
<1>3. new \in Row /\ new.state = rows[e].state
  BY <1>1, <1>2, RowFields
<1>4. rows' = [rows EXCEPT ![e] = new]
  BY <1>1
<1> QED BY <1>3, <1>4 DEF Types, RowsKept

LEMMA RowSteps ==
  ASSUME RecordsInv, NEW r \in Requests, NEW e \in Entities,
         \/ GetRow(r, e) \/ Replace(r, e) \/ Refill(r) \/ UpdateRow(r)
  PROVE  RecordsInv'
<1>1. Types /\ req[r] \in Request /\ Good(req[r])
  BY DEF RecordsInv, Types
<1>2. RowsKept \/ UNCHANGED rows => RowsKept
  BY DEF RowsKept
<1>3. ASSUME Finish(r), rows' \in [Entities -> Row], RowsKept,
             \A f \in Entities : rows'[f].state = rows[f].state,
             UNCHANGED <<todos, notes, links, tagged, late, overlap>>
      PROVE  RecordsInv'
  BY <1>3, PlainStep, IdleIsGood DEF Finish, Plain, DeletingSteps
<1>4. ASSUME UNCHANGED rows
      PROVE  rows' \in [Entities -> Row] /\ \A f \in Entities : rows'[f].state = rows[f].state
  BY <1>1, <1>4 DEF Types
<1>5. CASE GetRow(r, e)
  <2>1. PICK q : q = [Idle EXCEPT !.step = "row", !.on = e, !.row = rows[e]]
    OBVIOUS
  <2>2. q \in Request /\ Plain(q) /\ q.step = "row" /\ q.on = e
    BY <1>1, <2>1, IdleIsGood DEF Types, Request, Plain, DeletingSteps
  <2>3. rows[e].state # "unused"
    BY <1>5 DEF GetRow, Here
  <2> QED BY <1>2, <1>4, <1>5, <2>1, <2>2, <2>3, PlainStep DEF GetRow
<1>6. CASE Replace(r, e)
  <2>1. PICK q : q = [Idle EXCEPT !.step = "row", !.on = e]
    OBVIOUS
  <2>2. q \in Request /\ Plain(q) /\ q.step = "row" /\ q.on = e
    BY <2>1, IdleIsGood DEF Request, Plain, DeletingSteps
  <2> QED BY <1>2, <1>4, <1>6, <2>1, <2>2, PlainStep DEF Replace
<1>7. CASE Refill(r)
  <2>1. PICK p : p = req[r]
    OBVIOUS
  <2>2. p.step = "row" /\ p.on \in Entities /\ rows[p.on].state # "unused" /\ p \in Request
    BY <1>1, <1>7, <2>1 DEF Refill, Good, Fits
  <2>3. CASE ~Here(p.on)
    BY <1>2, <1>3, <1>4, <1>7, <2>1, <2>3 DEF Refill
  <2>4. CASE Here(p.on)
    <3>1. PICK at : at = IF p.row.touch = 0 THEN rows[p.on].touch ELSE p.row.touch
      OBVIOUS
    <3>2. PICK row : row = [p.row EXCEPT !.touch = at]
      OBVIOUS
    <3>3. PICK q : q = [p EXCEPT !.step = "refill", !.row = row]
      OBVIOUS
    <3>4. Becomes(r, q)
      BY <1>7, <2>1, <2>4, <3>1, <3>2, <3>3 DEF Refill
    <3>5. row \in Row
      <4>1. p.row \in Row /\ rows[p.on] \in Row
        BY <1>1, <2>2 DEF Types, Request
      <4> QED BY <3>1, <3>2, <4>1, RowFields
    <3>6. q \in Request /\ q.step = "refill" /\ q.on = p.on
      BY <2>2, <3>3, <3>5 DEF Request
    <3>7. q.linked = p.linked /\ q.deleted = p.deleted /\ q.before = p.before
      BY <2>2, <3>3 DEF Request
    <3>8. Plain(q)
      BY <1>1, <2>1, <2>2, <3>6, <3>7 DEF Plain, Good, Fits, DeletingSteps
    <3> QED BY <1>2, <1>4, <1>7, <2>2, <3>4, <3>6, <3>8, PlainStep DEF Refill
  <2> QED BY <2>3, <2>4
<1>8. CASE UpdateRow(r)
  <2>1. PICK p : p = req[r]
    OBVIOUS
  <2>2. p.on \in Entities /\ p.row.touch \in 0..MaxTouch
    BY <1>1, <1>8, <2>1, RowFields DEF UpdateRow, Good, Fits, Request
  <2>3. CASE Here(p.on)
    BY <1>1, <1>3, <1>8, <2>1, <2>2, <2>3, RowTouched DEF UpdateRow
  <2>4. CASE ~Here(p.on)
    BY <1>2, <1>3, <1>4, <1>8, <2>1, <2>4 DEF UpdateRow
  <2> QED BY <2>3, <2>4
<1> QED BY <1>5, <1>6, <1>7, <1>8

LEMMA TodoSteps ==
  ASSUME RecordsInv, NEW r \in Requests, NEW t \in Todos, NEW s \in Statuses,
         NEW about \in Entities \cup {None, Omit},
         \/ GetTodo(r, t, s, about) \/ ReplaceTodo(r, t, s, about) \/ RefillTodo(r)
  PROVE  RecordsInv'
<1>1. Types /\ req[r] \in Request /\ Good(req[r])
  BY DEF RecordsInv, Types
<1>2. /\ UNCHANGED <<rows, todos, notes, links, tagged, late, overlap>>
      /\ rows' \in [Entities -> Row] /\ RowsKept
      /\ \A f \in Entities : rows'[f].state = rows[f].state
  BY <1>1 DEF GetTodo, ReplaceTodo, RefillTodo, RowsKept, Types
<1>3. ASSUME NEW todo \in TodoInput, Becomes(r, [Idle EXCEPT !.step = "todo", !.on = t, !.todo = todo])
      PROVE  RecordsInv'
  <2>1. PICK q : q = [Idle EXCEPT !.step = "todo", !.on = t, !.todo = todo]
    OBVIOUS
  <2>2. q \in Request /\ Plain(q) /\ q.step = "todo" /\ q.on = t
    BY <2>1, IdleIsGood DEF Request, Plain, DeletingSteps
  <2> QED BY <1>2, <1>3, <2>1, <2>2, PlainStep
<1>4. CASE GetTodo(r, t, s, about)
  <2>1. PICK todo : todo = [about |-> Apply(about, todos[t].about), status |-> Apply(s, todos[t].status)]
    OBVIOUS
  <2>2. todos[t] \in Todo
    BY <1>1 DEF Types
  <2>3. todo \in TodoInput
    BY <2>1, <2>2 DEF TodoInput, Todo, Apply, Statuses
  <2> QED BY <1>3, <1>4, <2>1, <2>3 DEF GetTodo
<1>5. CASE ReplaceTodo(r, t, s, about)
  <2>1. PICK todo : todo = [about |-> Apply(about, None), status |-> s]
    OBVIOUS
  <2>2. todo \in TodoInput
    BY <2>1 DEF TodoInput, Apply, Statuses
  <2> QED BY <1>3, <1>5, <2>1, <2>2 DEF ReplaceTodo
<1>6. CASE RefillTodo(r)
  <2>1. PICK p : p = req[r]
    OBVIOUS
  <2>2. p.step = "todo" /\ p.on \in Todos /\ p \in Request
    BY <1>1, <1>6, <2>1 DEF RefillTodo, Good, Fits
  <2>3. CASE Finish(r)
    BY <1>2, <2>3, PlainStep, IdleIsGood DEF Finish, Plain, DeletingSteps
  <2>4. CASE Becomes(r, [p EXCEPT !.step = "refillTodo", !.todo.status = Refilled(@, todos[p.on])])
    <3>1. PICK status : status = Refilled(p.todo.status, todos[p.on])
      OBVIOUS
    <3>2. PICK todo : todo = [p.todo EXCEPT !.status = status]
      OBVIOUS
    <3>3. PICK q : q = [p EXCEPT !.step = "refillTodo", !.todo = todo]
      OBVIOUS
    <3>4. Becomes(r, q)
      BY <2>4, <3>1, <3>2, <3>3
    <3>5. p.todo \in TodoInput /\ todos[p.on] \in Todo
      BY <1>1, <2>2 DEF Types, Request
    <3>6. todo \in TodoInput
      BY <3>1, <3>2, <3>5 DEF TodoInput, Todo, Refilled, Statuses
    <3>7. q \in Request /\ q.step = "refillTodo" /\ q.on = p.on
      BY <2>2, <3>3, <3>6 DEF Request
    <3>8. q.linked = p.linked /\ q.deleted = p.deleted /\ q.before = p.before
      BY <2>2, <3>3 DEF Request
    <3>9. Plain(q)
      BY <1>1, <2>1, <2>2, <3>7, <3>8 DEF Plain, Good, Fits, DeletingSteps
    <3> QED BY <1>2, <2>2, <3>4, <3>7, <3>9, PlainStep
  <2> QED BY <1>6, <2>1, <2>3, <2>4 DEF RefillTodo
<1> QED BY <1>4, <1>5, <1>6

LEMMA AbortKeeps ==
  ASSUME RecordsInv, NEW r \in Requests, Abort(r)
  PROVE  RecordsInv'
<1>1. rows' \in [Entities -> Row] /\ RowsKept
  BY DEF Abort, RecordsInv, Types, RowsKept
<1> QED BY <1>1, PlainStep, IdleIsGood DEF Abort, Finish, Plain, DeletingSteps

LEMMA TouchKeeps ==
  ASSUME RecordsInv, NEW e \in Entities, NEW at \in 1..MaxTouch, Touch(e, at)
  PROVE  RecordsInv'
<1>1. Types /\ rows[e] \in Row
  BY DEF RecordsInv, Types
<1>2. PICK to : to = IF at > rows[e].touch THEN at ELSE rows[e].touch
  OBVIOUS
<1>3. to \in 0..MaxTouch
  BY <1>1, <1>2, RecordsAssumption DEF Row
<1>4. rows' = [rows EXCEPT ![e].touch = to]
  BY <1>2 DEF Touch
<1>5. /\ rows' \in [Entities -> Row] /\ RowsKept
      /\ \A f \in Entities : rows'[f].state = rows[f].state
  BY <1>1, <1>3, <1>4, RowTouched
<1>6. UNCHANGED <<todos, notes, links, tagged, late, overlap, req>>
  BY DEF Touch
<1>7. Types'
  BY <1>1, <1>5, <1>6 DEF Types
<1>8. LinksMet /\ LinksLost /\ TagsMet /\ TagsLost
  BY <1>6 DEF LinksMet, LinksLost, TagsMet, TagsLost
<1>9. LinksOfNotes' /\ LateMet'
  BY <1>6 DEF RecordsInv, LinksOfNotes, LateMet
<1> QED BY <1>5, <1>6, <1>7, <1>8, <1>9, NoRequest

LEMMA CreateKeeps ==
  ASSUME RecordsInv, NEW e \in Entities, NEW k \in Kinds, Create(e, k)
  PROVE  RecordsInv'
<1>1. Types
  BY DEF RecordsInv
<1>2. PICK new : new = [NoRow EXCEPT !.state = "here", !.kind = k]
  OBVIOUS
<1>3. new = [state |-> "here", kind |-> k, touch |-> 0]
  BY <1>2 DEF NoRow
<1>4. new \in Row /\ new.state = "here"
  BY <1>3, RecordsAssumption DEF Row
<1>5. rows' = [rows EXCEPT ![e] = new] /\ rows[e].state = "unused"
  BY <1>2 DEF Create
<1>6. /\ rows' \in [Entities -> Row] /\ RowsKept
      /\ \A f \in Entities : rows'[f].state = "gone" => rows[f].state = "gone"
  BY <1>1, <1>4, <1>5 DEF Types, RowsKept
<1>7. UNCHANGED <<todos, notes, links, tagged, late, overlap, req>>
  BY DEF Create
<1>8. Types'
  BY <1>1, <1>6, <1>7 DEF Types
<1>9. LinksMet /\ LinksLost /\ TagsMet /\ TagsLost
  BY <1>7 DEF LinksMet, LinksLost, TagsMet, TagsLost
<1>10. LinksOfNotes' /\ LateMet'
  BY <1>7 DEF RecordsInv, LinksOfNotes, LateMet
<1> QED BY <1>6, <1>7, <1>8, <1>9, <1>10, NoRequest

-----------------------------------------------------------------------------
\* A task is written.
LEMMA TodoWritten ==
  ASSUME Types, NEW t \in Todos, NEW new \in Todo, todos' = [todos EXCEPT ![t] = new]
  PROVE  /\ todos' \in [Todos -> Todo] /\ todos'[t] = new
         /\ \A u \in Todos : u # t => todos'[u] = todos[u]
BY DEF Types

LEMMA TodoKeeps ==
  ASSUME RecordsInv, NEW t \in Todos, NEW new \in Todo, todos' = [todos EXCEPT ![t] = new],
         \/ new.state = "gone" \/ todos[t].state = "unused"
         \/ new.state = todos[t].state /\ new.about = todos[t].about,
         UNCHANGED <<rows, notes, links, tagged, late, overlap, req>>
  PROVE  RecordsInv'
<1>1. Types
  BY DEF RecordsInv
<1>2. /\ todos' \in [Todos -> Todo] /\ todos'[t] = new
      /\ \A u \in Todos : u # t => todos'[u] = todos[u]
  BY <1>1, TodoWritten
<1>3. Types'
  BY <1>1, <1>2 DEF Types
<1>4. RowsKept /\ LinksMet /\ LinksLost /\ TagsMet /\ TagsLost
  BY DEF RowsKept, LinksMet, LinksLost, TagsMet, TagsLost
<1>5. LinksOfNotes' /\ LateMet'
  BY DEF RecordsInv, LinksOfNotes, LateMet
<1>6. \A u \in Todos : \/ todos'[u].state = "gone" \/ todos[u].state = "unused"
                       \/ todos'[u].state = todos[u].state /\ todos'[u].about = todos[u].about
  BY <1>2
<1> QED BY <1>3, <1>4, <1>5, <1>6, NoRequest

LEMMA TaskSteps ==
  ASSUME RecordsInv, NEW t \in Todos, NEW e \in Entities \cup {None}, NEW s \in {"open", "done"},
         CreateTodo(t, e, s) \/ CompleteTodo(t) \/ DeleteTodo(t)
  PROVE  RecordsInv'
<1>1. todos[t] \in Todo
  BY DEF RecordsInv, Types
<1>2. CASE CreateTodo(t, e, s)
  <2>1. PICK new : new = [state |-> "here", about |-> e, status |-> s, completed |-> FALSE]
    OBVIOUS
  <2>2. new \in Todo
    BY <2>1 DEF Todo, Statuses
  <2> QED BY <1>2, <2>1, <2>2, TodoKeeps DEF CreateTodo
<1>3. CASE CompleteTodo(t)
  <2>1. PICK mid : mid = [todos[t] EXCEPT !.status = "done"]
    OBVIOUS
  <2>2. PICK new : new = [mid EXCEPT !.completed = TRUE]
    OBVIOUS
  <2>3. /\ mid \in Todo /\ mid.state = todos[t].state /\ mid.about = todos[t].about
    BY <1>1, <2>1 DEF Todo, Statuses
  <2>4. new \in Todo /\ new.state = mid.state /\ new.about = mid.about
    BY <2>2, <2>3 DEF Todo
  <2>5. todos' = [todos EXCEPT ![t] = new]
    BY <1>3, <2>1, <2>2 DEF CompleteTodo, RecordsInv, Types
  <2> QED BY <1>3, <2>3, <2>4, <2>5, TodoKeeps DEF CompleteTodo
<1>4. CASE DeleteTodo(t)
  <2>1. PICK new : new = [NoTodo EXCEPT !.state = "gone"]
    OBVIOUS
  <2>2. new \in Todo /\ new.state = "gone"
    BY <2>1 DEF Todo, NoTodo, Statuses
  <2> QED BY <1>4, <2>1, <2>2, TodoKeeps DEF DeleteTodo
<1> QED BY <1>2, <1>3, <1>4

\* The links, the tags and the inserts that wait.
LEMMA NamesKeep ==
  ASSUME RecordsInv, UNCHANGED <<rows, todos, req>>,
         notes' \in [Activities -> {"unused", "here", "gone"}],
         \A a \in Activities : /\ notes[a] = "gone" => notes'[a] = "gone"
                               /\ notes[a] = "unused" => notes'[a] = "unused",
         links' \subseteq Activities \X Entities, tagged' \subseteq Tags \X Entities,
         late' \subseteq (Activities \cup Tags) \X Entities, overlap' \subseteq Entities,
         overlap \subseteq overlap', LinksMet, LinksLost, TagsMet, TagsLost, LinksOfNotes', LateMet'
  PROVE  RecordsInv'
<1>1. Types'
  BY DEF RecordsInv, Types
<1>2. RowsKept
  BY DEF RowsKept
<1> QED BY <1>1, <1>2, NoRequest

\* A name that is inserted now meets the deletion there is.
LEMMA InsertMet ==
  ASSUME Types, NEW e \in Entities, MayName(e), overlap' = Met(e), UNCHANGED rows
  PROVE  /\ overlap' \subseteq Entities /\ overlap \subseteq overlap'
         /\ Deleting(e) => e \in overlap'
         /\ RLSEnforced /\ rows'[e].state = "gone" => e \in overlap'
BY DEF Types, MayName, Met, Here

LEMMA InsertKeeps ==
  ASSUME RecordsInv, NEW e \in Entities,
         \/ \E a \in Activities : LinkActivity(a, e)
         \/ \E g \in Tags : TagEntity(g, e)
  PROVE  RecordsInv'
<1>1. Types
  BY DEF RecordsInv
<1>2. MayName(e) /\ overlap' = Met(e) /\ UNCHANGED <<rows, todos, notes, req>>
  BY DEF LinkActivity, TagEntity
<1>3. /\ overlap' \subseteq Entities /\ overlap \subseteq overlap'
      /\ Deleting(e) => e \in overlap'
      /\ RLSEnforced /\ rows'[e].state = "gone" => e \in overlap'
  BY <1>1, <1>2, InsertMet
<1>4. PICK x \in Activities \cup Tags :
         \/ late' = late \cup {<<x, e>>} /\ UNCHANGED <<links, tagged>> /\ Waits(x, e)
         \/ x \in Activities /\ notes[x] = "here" /\ links' = links \cup {<<x, e>>}
              /\ UNCHANGED <<late, tagged>>
         \/ x \in Tags /\ tagged' = tagged \cup {<<x, e>>} /\ UNCHANGED <<late, links>>
  BY DEF LinkActivity, TagEntity
<1>5. <<x, e>>[1] = x /\ <<x, e>>[2] = e
  OBVIOUS
<1>6. LinksMet /\ LinksLost /\ TagsMet /\ TagsLost
  BY <1>3, <1>4, <1>5 DEF LinksMet, LinksLost, TagsMet, TagsLost
<1>7. LinksOfNotes'
  BY <1>2, <1>4, <1>5 DEF RecordsInv, LinksOfNotes
<1>8. Waits(x, e) => Deleting(e)
  BY DEF RecordsInv, Good, Fits, Waits, Deleting
<1>9. LateMet'
  BY <1>3, <1>4, <1>5, <1>8 DEF RecordsInv, LateMet
<1>10. /\ links' \subseteq Activities \X Entities /\ tagged' \subseteq Tags \X Entities
       /\ late' \subseteq (Activities \cup Tags) \X Entities
  BY <1>1, <1>4 DEF Types
<1> QED BY <1>1, <1>2, <1>3, <1>6, <1>7, <1>9, <1>10, NamesKeep DEF Types

LEMMA LateKeeps ==
  ASSUME RecordsInv, NEW e \in Entities, NEW x \in Activities \cup Tags, LateInsert(x, e)
  PROVE  RecordsInv'
<1>1. Types
  BY DEF RecordsInv
<1>2. <<x, e>>[1] = x /\ <<x, e>>[2] = e
  OBVIOUS
<1>3. e \in overlap
  BY <1>2 DEF LateInsert, RecordsInv, LateMet
<1>4. /\ late' = late \ {<<x, e>>} /\ UNCHANGED <<rows, todos, notes, overlap, req>>
      /\ links' = IF x \in Activities /\ notes[x] = "here" THEN links \cup {<<x, e>>} ELSE links
      /\ tagged' = IF x \in Tags THEN tagged \cup {<<x, e>>} ELSE tagged
  BY DEF LateInsert
<1>5. LinksMet /\ LinksLost /\ TagsMet /\ TagsLost
  BY <1>2, <1>3, <1>4 DEF LinksMet, LinksLost, TagsMet, TagsLost
<1>6. LinksOfNotes' /\ LateMet'
  BY <1>2, <1>4 DEF RecordsInv, LinksOfNotes, LateMet
<1>7. /\ links' \subseteq Activities \X Entities /\ tagged' \subseteq Tags \X Entities
      /\ late' \subseteq (Activities \cup Tags) \X Entities
  BY <1>1, <1>4 DEF Types
<1> QED BY <1>1, <1>4, <1>5, <1>6, <1>7, NamesKeep DEF Types

LEMMA DeleteActivityKeeps ==
  ASSUME RecordsInv, NEW a \in Activities, DeleteActivity(a)
  PROVE  RecordsInv'
<1>1. Types
  BY DEF RecordsInv
<1>2. /\ notes' \in [Activities -> {"unused", "here", "gone"}] /\ notes'[a] = "gone"
      /\ notes[a] = "here" /\ \A b \in Activities : b # a => notes'[b] = notes[b]
  BY <1>1 DEF DeleteActivity, Types
<1>3. links' = {l \in links : l[1] # a} /\ UNCHANGED <<rows, todos, tagged, late, overlap, req>>
  BY DEF DeleteActivity
<1>4. LinksMet /\ LinksLost /\ TagsMet /\ TagsLost
  BY <1>2, <1>3 DEF LinksMet, LinksLost, TagsMet, TagsLost
<1>5. LinksOfNotes'
  <2> SUFFICES ASSUME NEW l \in links' PROVE notes'[l[1]] = "here"
    BY DEF LinksOfNotes
  <2>1. l \in links /\ l[1] # a /\ l[1] \in Activities
    BY <1>1, <1>3 DEF Types
  <2> QED BY <1>2, <2>1 DEF RecordsInv, LinksOfNotes
<1>6. LateMet'
  BY <1>3 DEF RecordsInv, LateMet
<1>7. links' \subseteq Activities \X Entities
  BY <1>1, <1>3 DEF Types
<1> QED BY <1>1, <1>2, <1>3, <1>4, <1>5, <1>6, <1>7, NamesKeep DEF Types

-----------------------------------------------------------------------------
\* The update of a task, after which no deletion answers for it.
LEMMA UpdateTodoKeeps ==
  ASSUME RecordsInv, NEW r \in Requests, UpdateTodo(r)
  PROVE  RecordsInv'
<1>1. PICK p : p = req[r]
  OBVIOUS
<1>2. PICK t : t = p.on
  OBVIOUS
<1>3. Types /\ p \in Request /\ p.step = "refillTodo" /\ t \in Todos
  BY <1>1, <1>2 DEF RecordsInv, Types, Good, Fits, UpdateTodo
<1>4. UNCHANGED <<rows, notes, links, tagged, late, overlap>>
  BY DEF UpdateTodo
<1>5. /\ todos' \in [Todos -> Todo] /\ todos'[t].state = todos[t].state
      /\ \A u \in Todos : u # t => todos'[u] = todos[u]
  <2>1. todos[t] \in Todo /\ p.todo \in TodoInput
    BY <1>3 DEF Types, Request
  <2>2. PICK about : about = p.todo.about
    OBVIOUS
  <2>3. PICK status : status = p.todo.status
    OBVIOUS
  <2>4. PICK completed : completed = CompletedAt(todos[t], status)
    OBVIOUS
  <2>5. PICK new : new = [todos[t] EXCEPT !.about = about, !.status = status, !.completed = completed]
    OBVIOUS
  <2>6. about \in Entities \cup {None} /\ status \in Statuses /\ completed \in BOOLEAN
    BY <2>1, <2>2, <2>3, <2>4 DEF TodoInput, Statuses, CompletedAt
  <2>7. new = [state |-> todos[t].state, about |-> about, status |-> status, completed |-> completed]
    BY <2>1, <2>5 DEF Todo
  <2>8. new \in Todo /\ new.state = todos[t].state
    BY <2>1, <2>6, <2>7 DEF Todo
  <2>9. todos' = todos \/ todos' = [todos EXCEPT ![t] = new]
    BY <1>1, <1>2, <2>2, <2>3, <2>4, <2>5 DEF UpdateTodo
  <2>10. CASE todos' = todos
    BY <1>3, <2>10 DEF Types
  <2>11. CASE todos' = [todos EXCEPT ![t] = new]
    BY <1>3, <2>8, <2>11, TodoWritten
  <2> QED BY <2>9, <2>10, <2>11
<1>6. /\ req'[r] = Idle
      /\ \A x \in Requests : x # r => req'[x] = [req[x] EXCEPT !.before = @ \ {<<t, "todo">>}]
  BY <1>1, <1>2 DEF UpdateTodo
<1>7. ASSUME NEW x \in Requests, x # r
      PROVE  /\ req'[x] \in Request
             /\ req'[x].step = req[x].step /\ req'[x].on = req[x].on
             /\ req'[x].linked = req[x].linked /\ req'[x].deleted = req[x].deleted
             /\ req'[x].before = req[x].before \ {<<t, "todo">>}
  <2>1. PICK before : before = req[x].before \ {<<t, "todo">>}
    OBVIOUS
  <2>2. req[x] \in Request
    BY <1>3 DEF Types
  <2>3. before \subseteq Things
    BY <2>1, <2>2 DEF Request
  <2>4. req'[x] = [req[x] EXCEPT !.before = before]
    BY <1>6, <1>7, <2>1
  <2> QED BY <2>1, <2>2, <2>3, <2>4 DEF Request
<1>8. Types'
  <2>1. \A x \in Requests : req'[x] \in Request
    BY <1>6, <1>7, IdleIsGood
  <2>2. req' \in [Requests -> Request]
    BY <2>1 DEF UpdateTodo
  <2> QED BY <1>3, <1>4, <1>5, <2>2 DEF Types
<1>9. NoneBegins
  BY <1>4, <1>6, <1>7, IdleIsGood DEF NoneBegins, DeletingSteps
<1>10. ASSUME NEW w \in Requests PROVE Kept(w) \/ Good(req[w])'
  <2>1. CASE w = r
    BY <1>6, <2>1, IdleIsGood, GoodNow DEF Good
  <2>2. CASE w # r
    <3>1. Good(req[w])
      BY DEF RecordsInv
    <3>2. DeletionsMet(req'[w])
      BY <1>7, <1>9, <2>2, NoneMet DEF Request
    <3>3. NotesKept(req'[w])
      BY <1>4 DEF NotesKept
    <3>4. TodosKept(req'[w])
      <4>1. ASSUME NEW u \in Todos, <<u, "todo">> \in req'[w].before PROVE u # t
        BY <1>7, <2>2, <4>1
      <4> QED BY <1>5, <4>1 DEF TodosKept
    <3> QED BY <1>7, <2>2, <3>2, <3>3, <3>4 DEF Kept
  <2> QED BY <2>1, <2>2
<1>11. /\ RowsKept /\ LinksMet /\ LinksLost /\ TagsMet /\ TagsLost /\ GoneMet
  BY <1>4 DEF RowsKept, LinksMet, LinksLost, TagsMet, TagsLost, GoneMet
<1>12. OneWriter'
  <2> SUFFICES ASSUME NEW x \in Requests, NEW y \in Requests,
                      req'[x].step \in {"activity", "commit"}, req'[y].step = req'[x].step,
                      req'[x].on = req'[y].on
               PROVE  x = y
    BY DEF OneWriter
  <2>1. x # r /\ y # r
    BY <1>6, IdleIsGood
  <2> QED BY <1>7, <2>1 DEF RecordsInv, OneWriter
<1>13. LinksOfNotes' /\ LateMet'
  BY <1>4 DEF RecordsInv, LinksOfNotes, LateMet
<1> QED BY <1>4, <1>8, <1>10, <1>11, <1>12, <1>13, StepKeeps

-----------------------------------------------------------------------------
\* An activity is made.
LEMMA CreateActivityKeeps ==
  ASSUME RecordsInv, NEW r \in Requests, NEW a \in Activities, NEW L \in SUBSET Entities,
         CreateActivity(r, a, L)
  PROVE  RecordsInv'
<1>1. Types
  BY DEF RecordsInv
<1>2. PICK q : q = [Idle EXCEPT !.step = "activity", !.on = a, !.want = L]
  OBVIOUS
<1>3. /\ q \in Request /\ q.step = "activity" /\ q.on = a
      /\ q.linked = {} /\ q.deleted = {} /\ q.before = {}
  BY <1>2, IdleIsGood DEF Request
<1>4. /\ Becomes(r, q) /\ notes[a] = "unused" /\ \A x \in Requests : req[x].on # a
      /\ UNCHANGED <<rows, todos, notes, links, tagged, late, overlap>>
  BY <1>2 DEF CreateActivity
<1>5. Good(q)'
  BY <1>3, <1>4 DEF Good, Fits, Covered, Cleared, DeletingSteps
<1>6. NoneBegins
  <2>1. \A x \in Requests : req'[x] = IF x = r THEN q ELSE req[x]
    BY <1>1, <1>3, <1>4, BecomesIs
  <2> QED BY <1>3, <1>4, <2>1 DEF NoneBegins, DeletingSteps
<1>7. \A w \in Requests : DeletionsMet(req[w])
  BY <1>1, <1>6, NoneMet, RequestFields DEF Types
<1>8. rows' \in [Entities -> Row] /\ RowsKept /\ overlap' \subseteq Entities
  BY <1>1, <1>4 DEF Types, RowsKept
<1> QED BY <1>3, <1>4, <1>5, <1>7, <1>8, OneRequest

LEMMA InsertLinkKeeps ==
  ASSUME RecordsInv, NEW r \in Requests, NEW e \in Entities, InsertLink(r, e)
  PROVE  RecordsInv'
<1>1. Types /\ req[r] \in Request /\ Good(req[r])
  BY DEF RecordsInv, Types
<1>2. /\ UNCHANGED <<rows, todos, notes, links, tagged, late>>
      /\ rows' \in [Entities -> Row] /\ RowsKept
  BY <1>1 DEF InsertLink, Types, RowsKept
<1>3. CASE ~MayName(e)
  <2>1. Finish(r) /\ UNCHANGED overlap
    BY <1>3 DEF InsertLink
  <2> QED BY <1>2, <2>1, PlainStep, IdleIsGood DEF Finish, Plain, DeletingSteps
<1>4. CASE MayName(e)
  <2>1. PICK p : p = req[r]
    OBVIOUS
  <2>2. PICK linked : linked = p.linked \cup {e}
    OBVIOUS
  <2>3. PICK q : q = [p EXCEPT !.linked = linked]
    OBVIOUS
  <2>4. Becomes(r, q) /\ overlap' = Met(e) /\ p.step = "activity"
    BY <1>4, <2>1, <2>2, <2>3 DEF InsertLink
  <2>5. /\ q \in Request /\ q.step = "activity" /\ q.on = p.on /\ q.linked = p.linked \cup {e}
        /\ q.deleted = p.deleted /\ q.before = p.before
    BY <1>1, <2>1, <2>2, <2>3, <2>4 DEF Request
  <2>6. /\ overlap' \subseteq Entities /\ overlap \subseteq overlap'
        /\ Deleting(e) => e \in overlap'
        /\ RLSEnforced /\ rows'[e].state = "gone" => e \in overlap'
    BY <1>1, <1>2, <1>4, <2>4, InsertMet
  <2>7. \A x \in Requests : req'[x] = IF x = r THEN q ELSE req[x]
    BY <1>1, <2>4, <2>5, BecomesIs
  <2>8. NoneBegins
    BY <1>2, <2>5, <2>7 DEF NoneBegins, DeletingSteps
  <2>9. \A w \in Requests : DeletionsMet(req[w])
    BY <1>1, <2>8, NoneMet, RequestFields DEF Types
  <2>10. Fits(q)'
    BY <1>1, <1>2, <2>1, <2>4, <2>5 DEF Good, Fits, DeletingSteps
  <2>11. Covered(q)'
    <3>1. \A f \in Entities : Deleting(f)' => Deleting(f)
      BY <2>8 DEF NoneBegins, Deleting
    <3>2. ASSUME RLSEnforced, NEW f \in q.linked, Deleting(f)' \/ rows'[f].state = "gone"
          PROVE  f \in overlap'
      <4>1. f \in Entities
        BY <2>5, RequestFields
      <4> QED BY <1>1, <1>2, <2>1, <2>5, <2>6, <3>1, <3>2, <4>1 DEF Good, Covered
    <3> QED BY <2>5, <3>2 DEF Covered
  <2>12. Cleared(q)'
    <3>1. q.step \notin DeletingSteps
      BY <2>5 DEF DeletingSteps
    <3> QED BY <3>1 DEF Cleared
  <2>13. \A x \in Requests : x # r /\ req[x].step = q.step => req[x].on # q.on
    <3>1. ASSUME NEW x \in Requests, x # r, req[x].step = q.step, req[x].on = q.on PROVE FALSE
      <4>1. req[r].step = "activity" /\ req[x].step = "activity" /\ req[r].on = req[x].on
        BY <2>1, <2>4, <2>5, <3>1
      <4> QED BY <3>1, <4>1 DEF RecordsInv, OneWriter
    <3> QED BY <3>1
  <2> QED BY <1>2, <2>4, <2>5, <2>6, <2>9, <2>10, <2>11, <2>12, <2>13, OneRequest DEF Good
<1> QED BY <1>3, <1>4

LEMMA CommitActivityKeeps ==
  ASSUME RecordsInv, NEW r \in Requests, CommitActivity(r)
  PROVE  RecordsInv'
<1>1. PICK p : p = req[r]
  OBVIOUS
<1>2. PICK a : a = p.on
  OBVIOUS
<1>3. Types /\ p \in Request /\ p.step = "activity" /\ Good(p)
  BY <1>1 DEF RecordsInv, Types, CommitActivity
<1>4. a \in Activities /\ notes[a] = "unused"
  BY <1>2, <1>3 DEF Good, Fits
<1>5. /\ notes' = [notes EXCEPT ![a] = "here"] /\ links' = links \cup ({a} \X p.linked)
      /\ Becomes(r, Idle) /\ UNCHANGED <<rows, todos, tagged, late, overlap>>
  BY <1>1, <1>2 DEF CommitActivity, Finish
<1>6. /\ notes' \in [Activities -> {"unused", "here", "gone"}] /\ notes'[a] = "here"
      /\ \A b \in Activities : b # a => notes'[b] = notes[b]
  BY <1>3, <1>4, <1>5 DEF Types
<1>7. /\ req' \in [Requests -> Request] /\ req'[r] = Idle
      /\ \A x \in Requests : x # r => req'[x] = req[x]
  BY <1>3, <1>5, BecomesIs, IdleIsGood
<1>8. p.linked \subseteq Entities
  BY <1>3, RequestFields
<1>9. Types'
  <2>1. links' \subseteq Activities \X Entities
    BY <1>3, <1>4, <1>5, <1>8 DEF Types
  <2> QED BY <1>3, <1>5, <1>6, <1>7, <2>1 DEF Types
<1>10. NoneBegins
  <2>1. \A x \in Requests : req'[x] = IF x = r THEN Idle ELSE req[x]
    BY <1>7
  <2> QED BY <1>5, <2>1, IdleIsGood DEF NoneBegins, DeletingSteps
<1>11. ASSUME NEW w \in Requests PROVE Kept(w) \/ Good(req[w])'
  <2>1. CASE w = r
    BY <1>7, <2>1, IdleIsGood, GoodNow DEF Good
  <2>2. CASE w # r
    <3>1. req'[w] = req[w] /\ Good(req[w]) /\ req[w].linked \subseteq Entities
      BY <1>3, <1>7, <2>2, RequestFields DEF RecordsInv, Types
    <3>2. DeletionsMet(req[w])
      BY <1>10, <3>1, NoneMet
    <3>3. NotesKept(req[w])
      <4>1. req[w].step = "activity" => req[w].on # a /\ req[w].on \in Activities
        BY <1>1, <1>2, <1>3, <2>2, <3>1 DEF RecordsInv, OneWriter, Good, Fits
      <4> QED BY <1>4, <1>6, <4>1 DEF NotesKept
    <3>4. TodosKept(req[w])
      BY <1>5 DEF TodosKept
    <3> QED BY <3>1, <3>2, <3>3, <3>4 DEF Kept
  <2> QED BY <2>1, <2>2
<1>12. RowsKept /\ LinksLost /\ TagsMet /\ TagsLost /\ GoneMet
  BY <1>5 DEF RowsKept, LinksLost, TagsMet, TagsLost, GoneMet
<1>13. LinksMet
  <2> SUFFICES ASSUME RLSEnforced,
                      NEW l \in links' \ links, Deleting(l[2]) \/ rows'[l[2]].state = "gone"
               PROVE  l[2] \in overlap'
    BY DEF LinksMet
  <2>1. l[2] \in p.linked
    BY <1>5
  <2> QED BY <1>3, <1>5, <2>1 DEF Good, Covered
<1>14. OneWriter'
  <2> SUFFICES ASSUME NEW x \in Requests, NEW y \in Requests,
                      req'[x].step \in {"activity", "commit"}, req'[y].step = req'[x].step,
                      req'[x].on = req'[y].on
               PROVE  x = y
    BY DEF OneWriter
  <2> QED BY <1>7, IdleIsGood DEF RecordsInv, OneWriter
<1>15. LinksOfNotes'
  <2> SUFFICES ASSUME NEW l \in links' PROVE notes'[l[1]] = "here"
    BY DEF LinksOfNotes
  <2>1. l \in links \/ l[1] = a
    BY <1>5
  <2>2. l \in links => l[1] \in Activities /\ notes[l[1]] = "here"
    BY <1>3 DEF Types, RecordsInv, LinksOfNotes
  <2> QED BY <1>4, <1>6, <2>1, <2>2
<1>16. LateMet'
  BY <1>5 DEF RecordsInv, LateMet
<1> QED BY <1>5, <1>9, <1>11, <1>12, <1>13, <1>14, <1>15, <1>16, StepKeeps

-----------------------------------------------------------------------------
\* An entity is deleted.
LEMMA AboutIs ==
  ASSUME Types, NEW e \in Entities
  PROVE  /\ About(e) \subseteq Things
         /\ \A t \in Todos : <<t, "todo">> \in About(e) <=> todos[t].state = "here" /\ todos[t].about = e
         /\ \A a \in Activities : <<a, "link">> \in About(e) <=> <<a, e>> \in links
         /\ \A g \in Tags : <<g, "tag">> \in About(e) <=> <<g, e>> \in tagged
<1>1. ASSUME NEW z \in About(e) PROVE z \in Things
  <2>1. \/ \E t \in Todos : z = <<t, "todo">>
        \/ \E a \in Activities : z = <<a, "link">>
        \/ \E g \in Tags : z = <<g, "tag">>
    BY DEF About
  <2> QED BY <2>1 DEF Things
<1>2. ASSUME NEW t \in Todos
      PROVE  <<t, "todo">> \in About(e) <=> todos[t].state = "here" /\ todos[t].about = e
  BY DEF About
<1>3. ASSUME NEW a \in Activities PROVE <<a, "link">> \in About(e) <=> <<a, e>> \in links
  BY DEF About
<1>4. ASSUME NEW g \in Tags PROVE <<g, "tag">> \in About(e) <=> <<g, e>> \in tagged
  BY DEF About
<1> QED BY <1>1, <1>2, <1>3, <1>4

LEMMA BeginDeleteKeeps ==
  ASSUME RecordsInv, NEW r \in Requests, NEW e \in Entities, BeginDelete(r, e)
  PROVE  RecordsInv'
<1>1. Types
  BY DEF RecordsInv
<1>2. PICK before : before = About(e)
  OBVIOUS
<1>3. PICK q : q = [Idle EXCEPT !.step = "todos", !.on = e, !.before = before]
  OBVIOUS
<1>4. before \subseteq Things
  BY <1>1, <1>2, AboutIs
<1>5. /\ q \in Request /\ q.step = "todos" /\ q.on = e
      /\ q.linked = {} /\ q.deleted = {} /\ q.before = before
  BY <1>3, <1>4, IdleIsGood DEF Request
<1>6. /\ Becomes(r, q) /\ rows[e].state # "unused"
      /\ overlap' = IF \E x \in Requests : e \in req[x].linked THEN overlap \cup {e} ELSE overlap
      /\ UNCHANGED <<rows, todos, notes, links, tagged, late>>
  BY <1>2, <1>3 DEF BeginDelete
<1>7. /\ \A t \in Todos : <<t, "todo">> \in before => todos[t].state = "here" /\ todos[t].about = e
      /\ \A a \in Activities : <<a, "link">> \in before => <<a, e>> \in links
      /\ \A g \in Tags : <<g, "tag">> \in before => <<g, e>> \in tagged
  BY <1>1, <1>2, AboutIs
<1>8. Good(q)'
  <2>1. Fits(q)'
    BY <1>5, <1>6, <1>7 DEF Fits, DeletingSteps
  <2>2. Covered(q)'
    BY <1>5 DEF Covered
  <2>3. Cleared(q)'
    BY <1>5, <1>6, <1>7 DEF Cleared, TodoCleared, LinkCleared, TagCleared, StepsBefore
  <2> QED BY <2>1, <2>2, <2>3 DEF Good
<1>9. ASSUME NEW w \in Requests, w # r PROVE DeletionsMet(req[w])
  <2> SUFFICES ASSUME NEW f \in req[w].linked, Deleting(f)' \/ rows'[f].state = "gone"
               PROVE  Deleting(f) \/ rows[f].state = "gone" \/ f \in overlap'
    BY DEF DeletionsMet
  <2>1. \A x \in Requests : req'[x] = IF x = r THEN q ELSE req[x]
    BY <1>1, <1>5, <1>6, BecomesIs
  <2>2. Deleting(f)' => Deleting(f) \/ f = e
    BY <1>5, <2>1 DEF Deleting
  <2> QED BY <1>6, <2>2
<1>10. /\ rows' \in [Entities -> Row] /\ RowsKept /\ overlap \subseteq overlap'
       /\ overlap' \subseteq Entities
  BY <1>1, <1>6 DEF Types, RowsKept
<1> QED BY <1>5, <1>6, <1>8, <1>9, <1>10, OneRequest

\* A deletion goes on to its next step, having deleted all that is about the
\* entity in the table of this one.
LEMMA DeletionGoesOn ==
  ASSUME RecordsInv, NEW r \in Requests, NEW p, NEW q \in Request, NEW found, p = req[r],
         Becomes(r, q), q.on = p.on, q.linked = p.linked, q.before = p.before,
         q.deleted = p.deleted \cup found,
         \/ p.step = "todos" /\ q.step = "links"
         \/ p.step = "links" /\ q.step = "tags"
         \/ p.step = "tags" /\ q.step = "entity"
         \/ p.step = "entity" /\ q.step = "commit",
         p.step = "todos" =>
           \A t \in Todos : todos[t].state = "here" /\ todos[t].about = p.on => <<t, "todo">> \in found,
         p.step = "links" => \A a \in Activities : <<a, p.on>> \in links => <<a, "link">> \in found,
         p.step = "tags" => \A g \in Tags : <<g, p.on>> \in tagged => <<g, "tag">> \in found,
         q.step = "commit" => ~LockedRow(p.on),
         UNCHANGED <<rows, todos, notes, links, tagged, late, overlap>>
  PROVE  RecordsInv'
<1>1. Types /\ p \in Request /\ Good(p)
  BY DEF RecordsInv, Types
<1>2. Good(q)'
  <2>1. p.step \in DeletingSteps /\ q.step \in DeletingSteps /\ p.linked = {}
    BY <1>1 DEF DeletingSteps, Good, Fits
  <2>2. Fits(q)'
    BY <1>1, <2>1 DEF Good, Fits, DeletingSteps
  <2>3. Covered(q)'
    <3> SUFFICES ASSUME RLSEnforced PROVE Covered(q)'
      BY DEF Covered
    <3>1. q.step \in {"tags", "entity", "commit"} =>
            \A a \in Activities :
              <<a, q.on>> \in links => <<a, "link">> \in q.deleted \/ q.on \in overlap
      BY <1>1 DEF Good, Covered
    <3>2. q.step \in {"entity", "commit"} =>
            \A g \in Tags : <<g, q.on>> \in tagged => <<g, "tag">> \in q.deleted \/ q.on \in overlap
      BY <1>1 DEF Good, Covered
    <3> QED BY <2>1, <3>1, <3>2 DEF Covered
  <2>4. Cleared(q)'
    <3> SUFFICES ASSUME Here(q.on)'
                 PROVE  /\ \A t \in Todos : <<t, "todo">> \in q.before => TodoCleared(q, t)'
                        /\ \A a \in Activities : <<a, "link">> \in q.before => LinkCleared(q, a)'
                        /\ \A g \in Tags : <<g, "tag">> \in q.before => TagCleared(q, g)'
      BY DEF Cleared
    <3>1. /\ \A t \in Todos : <<t, "todo">> \in q.before => TodoCleared(p, t)
          /\ \A a \in Activities : <<a, "link">> \in q.before => LinkCleared(p, a)
          /\ \A g \in Tags : <<g, "tag">> \in q.before => TagCleared(p, g)
      BY <1>1, <2>1 DEF Good, Cleared, Here
    <3>2. \A t \in Todos : <<t, "todo">> \in q.before => TodoCleared(q, t)'
      BY <3>1 DEF TodoCleared, StepsBefore
    <3>3. \A a \in Activities : <<a, "link">> \in q.before => LinkCleared(q, a)'
      BY <3>1 DEF LinkCleared, StepsBefore
    <3>4. \A g \in Tags : <<g, "tag">> \in q.before => TagCleared(q, g)'
      BY <3>1 DEF TagCleared, StepsBefore
    <3> QED BY <3>2, <3>3, <3>4
  <2> QED BY <2>2, <2>3, <2>4 DEF Good
<1>3. NoneBegins
  <2>1. \A x \in Requests : req'[x] = IF x = r THEN q ELSE req[x]
    BY <1>1, BecomesIs
  <2> QED BY <2>1 DEF NoneBegins, DeletingSteps
<1>4. \A w \in Requests : DeletionsMet(req[w])
  BY <1>1, <1>3, NoneMet, RequestFields DEF Types
<1>5. rows' \in [Entities -> Row] /\ RowsKept /\ overlap' \subseteq Entities
  BY <1>1 DEF Types, RowsKept
<1>6. q.step \in {"activity", "commit"} =>
         \A x \in Requests : x # r /\ req[x].step = q.step => req[x].on # q.on
  BY DEF LockedRow
<1> QED BY <1>2, <1>4, <1>5, <1>6, OneRequest

\* What a statement of a deletion has found is added to what is deleted.
LEMMA DeletedAbout ==
  ASSUME Types, NEW r \in Requests, NEW p, p = req[r], p.on \in Entities, NEW step, NEW kind,
         NEW next \in {"links", "tags", "entity"}, DeleteAbout(r, step, kind, next)
  PROVE  /\ p.step = step /\ UNCHANGED <<rows, todos, notes, links, tagged, late, overlap>>
         /\ \E q \in Request :
              /\ Becomes(r, q) /\ q.step = next /\ q.on = p.on /\ q.linked = p.linked
              /\ q.before = p.before
              /\ q.deleted = p.deleted \cup {x \in About(p.on) : x[2] = kind}
<1>1. PICK deleted : deleted = p.deleted \cup {x \in About(p.on) : x[2] = kind}
  OBVIOUS
<1>2. PICK q : q = [p EXCEPT !.step = next, !.deleted = deleted]
  OBVIOUS
<1>3. p \in Request
  BY DEF Types
<1>4. deleted \subseteq Things
  <2>1. About(p.on) \subseteq Things
    BY AboutIs
  <2> QED BY <1>1, <1>3, <2>1 DEF Request
<1>5. /\ q \in Request /\ q.step = next /\ q.on = p.on /\ q.linked = p.linked
      /\ q.deleted = deleted /\ q.before = p.before
  BY <1>2, <1>3, <1>4 DEF Request
<1>6. Becomes(r, q) /\ p.step = step /\ UNCHANGED <<rows, todos, notes, links, tagged, late, overlap>>
  BY <1>1, <1>2 DEF DeleteAbout
<1> QED BY <1>1, <1>5, <1>6

LEMMA DeletionKeeps ==
  ASSUME RecordsInv, NEW r \in Requests,
         DeleteTodos(r) \/ DeleteLinks(r) \/ DeleteTags(r) \/ DeleteRow(r)
  PROVE  RecordsInv'
<1>1. PICK p : p = req[r]
  OBVIOUS
<1>2. Types /\ p \in Request /\ Good(p)
  BY <1>1 DEF RecordsInv, Types
<1>3. p.on \in Entities
  BY <1>1, <1>2 DEF Good, Fits, DeletingSteps, DeleteTodos, DeleteLinks, DeleteTags, DeleteAbout, DeleteRow
<1>4. ASSUME NEW x, NEW kind, <<x, kind>> \in About(p.on)
      PROVE  <<x, kind>> \in {y \in About(p.on) : y[2] = kind}
  BY <1>4
<1>5. CASE DeleteTodos(r)
  <2>1. PICK found : found = {x \in About(p.on) : x[2] = "todo"}
    OBVIOUS
  <2>2. \A t \in Todos : todos[t].state = "here" /\ todos[t].about = p.on => <<t, "todo">> \in found
    BY <1>2, <1>3, <1>4, <2>1, AboutIs
  <2>3. DeleteAbout(r, "todos", "todo", "links")
    BY <1>5 DEF DeleteTodos
  <2>4. /\ p.step = "todos" /\ UNCHANGED <<rows, todos, notes, links, tagged, late, overlap>>
        /\ \E q \in Request :
             /\ Becomes(r, q) /\ q.step = "links" /\ q.on = p.on /\ q.linked = p.linked
             /\ q.before = p.before /\ q.deleted = p.deleted \cup found
    BY <1>1, <1>2, <1>3, <2>1, <2>3, DeletedAbout
  <2> QED BY <1>1, <2>2, <2>4, DeletionGoesOn
<1>6. CASE DeleteLinks(r)
  <2>1. PICK found : found = {x \in About(p.on) : x[2] = "link"}
    OBVIOUS
  <2>2. \A a \in Activities : <<a, p.on>> \in links => <<a, "link">> \in found
    BY <1>2, <1>3, <1>4, <2>1, AboutIs
  <2>3. DeleteAbout(r, "links", "link", "tags")
    BY <1>6 DEF DeleteLinks
  <2>4. /\ p.step = "links" /\ UNCHANGED <<rows, todos, notes, links, tagged, late, overlap>>
        /\ \E q \in Request :
             /\ Becomes(r, q) /\ q.step = "tags" /\ q.on = p.on /\ q.linked = p.linked
             /\ q.before = p.before /\ q.deleted = p.deleted \cup found
    BY <1>1, <1>2, <1>3, <2>1, <2>3, DeletedAbout
  <2> QED BY <1>1, <2>2, <2>4, DeletionGoesOn
<1>7. CASE DeleteTags(r)
  <2>1. PICK found : found = {x \in About(p.on) : x[2] = "tag"}
    OBVIOUS
  <2>2. \A g \in Tags : <<g, p.on>> \in tagged => <<g, "tag">> \in found
    BY <1>2, <1>3, <1>4, <2>1, AboutIs
  <2>3. DeleteAbout(r, "tags", "tag", "entity")
    BY <1>7 DEF DeleteTags
  <2>4. /\ p.step = "tags" /\ UNCHANGED <<rows, todos, notes, links, tagged, late, overlap>>
        /\ \E q \in Request :
             /\ Becomes(r, q) /\ q.step = "entity" /\ q.on = p.on /\ q.linked = p.linked
             /\ q.before = p.before /\ q.deleted = p.deleted \cup found
    BY <1>1, <1>2, <1>3, <2>1, <2>3, DeletedAbout
  <2> QED BY <1>1, <2>2, <2>4, DeletionGoesOn
<1>8. CASE DeleteRow(r)
  <2>1. p.step = "entity" /\ ~LockedRow(p.on)
        /\ UNCHANGED <<rows, todos, notes, links, tagged, late, overlap>>
    BY <1>1, <1>8 DEF DeleteRow
  <2>2. PICK q : q = [p EXCEPT !.step = "commit"]
    OBVIOUS
  <2>3. /\ q \in Request /\ q.step = "commit" /\ q.on = p.on /\ q.linked = p.linked
        /\ q.deleted = p.deleted \cup {} /\ q.before = p.before
    BY <1>2, <2>2 DEF Request
  <2>4. Becomes(r, q)
    BY <1>1, <1>8, <2>2 DEF DeleteRow
  <2> QED BY <1>1, <2>1, <2>3, <2>4, DeletionGoesOn
<1> QED BY <1>5, <1>6, <1>7, <1>8

\* What a committed deletion has deleted.
LEMMA Committed ==
  ASSUME Types, NEW r \in Requests, NEW p, p = req[r], Fits(p), CommitDelete(r)
  PROVE  /\ p \in Request /\ p.step = "commit" /\ p.on \in Entities /\ Becomes(r, Idle)
         /\ UNCHANGED <<notes, late, overlap>>
         /\ rows' \in [Entities -> Row] /\ rows'[p.on].state = "gone"
         /\ \A f \in Entities : f # p.on => rows'[f] = rows[f]
         /\ todos' \in [Todos -> Todo]
         /\ \A t \in Todos : IF <<t, "todo">> \in p.deleted THEN todos'[t].state = "gone"
                                                            ELSE todos'[t] = todos[t]
         /\ links' = {l \in links : l[2] # p.on \/ <<l[1], "link">> \notin p.deleted}
         /\ tagged' = {l \in tagged : l[2] # p.on \/ <<l[1], "tag">> \notin p.deleted}
<1>1. p \in Request /\ p.step = "commit" /\ p.on \in Entities
  BY DEF Types, CommitDelete, Fits, DeletingSteps
<1>2. PICK e : e = p.on
  OBVIOUS
<1>3. rows[e] \in Row
  BY <1>1, <1>2 DEF Types
<1>4. PICK new : new = [rows[e] EXCEPT !.state = "gone", !.touch = 0]
  OBVIOUS
<1>5. new = [state |-> "gone", kind |-> rows[e].kind, touch |-> 0]
  BY <1>3, <1>4 DEF Row
<1>6. new \in Row /\ new.state = "gone"
  BY <1>3, <1>5, RecordsAssumption DEF Row
<1>7. rows' = [rows EXCEPT ![e] = new]
  BY <1>2, <1>4 DEF CommitDelete
<1>8. /\ rows' \in [Entities -> Row] /\ rows'[e].state = "gone"
      /\ \A f \in Entities : f # e => rows'[f] = rows[f]
  BY <1>1, <1>2, <1>6, <1>7 DEF Types
<1>9. PICK none : none = [NoTodo EXCEPT !.state = "gone"]
  OBVIOUS
<1>10. none \in Todo /\ none.state = "gone"
  BY <1>9 DEF Todo, NoTodo, Statuses
<1>11. todos' = [t \in Todos |-> IF <<t, "todo">> \in p.deleted THEN none ELSE todos[t]]
  BY <1>9 DEF CommitDelete
<1>12. todos' \in [Todos -> Todo]
  BY <1>10, <1>11 DEF Types
<1> QED BY <1>1, <1>2, <1>8, <1>10, <1>11, <1>12 DEF CommitDelete, Finish

LEMMA CommitDeleteKeeps ==
  ASSUME RecordsInv, NEW r \in Requests, CommitDelete(r)
  PROVE  RecordsInv'
<1>1. PICK p : p = req[r]
  OBVIOUS
<1>2. Types /\ Good(p)
  BY <1>1 DEF RecordsInv
<1>3. PICK e : e = p.on
  OBVIOUS
<1>4. /\ p.step = "commit" /\ e \in Entities /\ Becomes(r, Idle)
      /\ UNCHANGED <<notes, late, overlap>>
      /\ rows' \in [Entities -> Row] /\ rows'[e].state = "gone"
      /\ \A f \in Entities : f # e => rows'[f] = rows[f]
      /\ todos' \in [Todos -> Todo]
      /\ \A t \in Todos : todos'[t].state = "gone" \/ todos'[t] = todos[t]
      /\ links' = {l \in links : l[2] # e \/ <<l[1], "link">> \notin p.deleted}
      /\ tagged' = {l \in tagged : l[2] # e \/ <<l[1], "tag">> \notin p.deleted}
  BY <1>1, <1>2, <1>3, Committed DEF Good
<1>5. /\ req' \in [Requests -> Request] /\ req'[r] = Idle
      /\ \A x \in Requests : x # r => req'[x] = req[x]
  BY <1>2, <1>4, BecomesIs, IdleIsGood
<1>6. Types'
  BY <1>2, <1>4, <1>5 DEF Types
<1>7. RowsKept
  BY <1>4 DEF RowsKept
<1>8. LinksMet /\ TagsMet
  BY <1>4 DEF LinksMet, TagsMet
<1>9. LinksLost
  BY <1>4 DEF LinksLost
<1>10. TagsLost
  BY <1>4 DEF TagsLost
<1>11. NoneBegins
  <2>1. \A x \in Requests : req'[x] = IF x = r THEN Idle ELSE req[x]
    BY <1>5
  <2>2. Deleting(e)
    BY <1>1, <1>3, <1>4 DEF Deleting, DeletingSteps
  <2> QED BY <1>4, <2>1, <2>2, IdleIsGood DEF NoneBegins, DeletingSteps
<1>12. ASSUME NEW w \in Requests PROVE Kept(w) \/ Good(req[w])'
  <2>1. CASE w = r
    BY <1>5, <2>1, IdleIsGood, GoodNow DEF Good
  <2>2. CASE w # r
    <3>1. req'[w] = req[w] /\ req[w].linked \subseteq Entities
      BY <1>2, <1>5, <2>2, RequestFields DEF Types
    <3>2. DeletionsMet(req[w]) /\ NotesKept(req[w]) /\ TodosKept(req[w])
      BY <1>4, <1>11, <3>1, NoneMet DEF NotesKept, TodosKept
    <3> QED BY <3>1, <3>2 DEF Kept
  <2> QED BY <2>1, <2>2
<1>13. GoneMet
  <2> SUFFICES ASSUME RLSEnforced, NEW f \in Entities, rows'[f].state = "gone", rows[f].state # "gone"
               PROVE  /\ \A l \in links' : l[2] = f => f \in overlap'
                      /\ \A l \in tagged' : l[2] = f => f \in overlap'
    BY DEF GoneMet
  <2>1. f = e
    BY <1>4
  <2>2. ASSUME NEW l \in links', l[2] = e PROVE e \in overlap
    <3>1. l \in links /\ <<l[1], "link">> \notin p.deleted
      BY <1>4, <2>2
    <3>2. l = <<l[1], e>> /\ l[1] \in Activities
      BY <1>2, <2>2, <3>1 DEF Types
    <3> QED BY <1>2, <1>3, <1>4, <3>1, <3>2 DEF Good, Covered
  <2>3. ASSUME NEW l \in tagged', l[2] = e PROVE e \in overlap
    <3>1. l \in tagged /\ <<l[1], "tag">> \notin p.deleted
      BY <1>4, <2>3
    <3>2. l = <<l[1], e>> /\ l[1] \in Tags
      BY <1>2, <2>3, <3>1 DEF Types
    <3> QED BY <1>2, <1>3, <1>4, <3>1, <3>2 DEF Good, Covered
  <2> QED BY <1>4, <2>1, <2>2, <2>3
<1>14. OneWriter'
  <2> SUFFICES ASSUME NEW x \in Requests, NEW y \in Requests,
                      req'[x].step \in {"activity", "commit"}, req'[y].step = req'[x].step,
                      req'[x].on = req'[y].on
               PROVE  x = y
    BY DEF OneWriter
  <2> QED BY <1>5, IdleIsGood DEF RecordsInv, OneWriter
<1>15. LinksOfNotes' /\ LateMet'
  BY <1>4 DEF RecordsInv, LinksOfNotes, LateMet
<1> QED BY <1>4, <1>6, <1>7, <1>8, <1>9, <1>10, <1>12, <1>13, <1>14, <1>15, StepKeeps

-----------------------------------------------------------------------------
LEMMA RecordsInvInit ==
  Init => RecordsInv
<1> SUFFICES ASSUME Init PROVE RecordsInv
  OBVIOUS
<1>1. NoRow \in Row /\ NoTodo \in Todo
  BY RecordsAssumption DEF NoRow, Row, Kinds, NoTodo, Todo, Statuses
<1>2. Types
  BY <1>1, IdleIsGood DEF Init, Types
<1>3. \A r \in Requests : req[r] = Idle /\ Good(req[r])
  BY IdleIsGood DEF Init, Good, Fits, Covered, Cleared, DeletingSteps
<1>4. OneWriter
  BY <1>3, IdleIsGood DEF OneWriter
<1>5. LinksOfNotes /\ LateMet /\ StrayNeedsOverlap
  BY DEF Init, LinksOfNotes, LateMet, StrayNeedsOverlap
<1> QED BY <1>2, <1>3, <1>4, <1>5 DEF RecordsInv

LEMMA RecordsInvNext ==
  RecordsInv /\ [Next]_vars => RecordsInv'
<1> SUFFICES ASSUME RecordsInv, [Next]_vars PROVE RecordsInv'
  OBVIOUS
<1>1. ASSUME NEW e \in Entities, NEW k \in Kinds, Create(e, k) PROVE RecordsInv'
  BY <1>1, CreateKeeps
<1>2. ASSUME NEW e \in Entities, NEW at \in 1..MaxTouch, Touch(e, at) PROVE RecordsInv'
  BY <1>2, TouchKeeps
<1>3. ASSUME NEW e \in Entities,
             (\E a \in Activities : LinkActivity(a, e)) \/ (\E g \in Tags : TagEntity(g, e))
      PROVE  RecordsInv'
  BY <1>3, InsertKeeps
<1>4. ASSUME NEW e \in Entities, NEW x \in Activities \cup Tags, LateInsert(x, e) PROVE RecordsInv'
  BY <1>4, LateKeeps
<1>5. ASSUME NEW a \in Activities, DeleteActivity(a) PROVE RecordsInv'
  BY <1>5, DeleteActivityKeeps
<1>6. ASSUME NEW t \in Todos,
             \/ \E e \in Entities \cup {None}, s \in {"open", "done"} : CreateTodo(t, e, s)
             \/ CompleteTodo(t) \/ DeleteTodo(t)
      PROVE  RecordsInv'
  <2>1. CASE \E e \in Entities \cup {None}, s \in {"open", "done"} : CreateTodo(t, e, s)
    BY <2>1, TaskSteps
  <2>2. CASE CompleteTodo(t) \/ DeleteTodo(t)
    <3>1. None \in Entities \cup {None} /\ "open" \in {"open", "done"}
      OBVIOUS
    <3> QED BY <2>2, <3>1, TaskSteps
  <2> QED BY <1>6, <2>1, <2>2
<1>7. ASSUME NEW r \in Requests,
             \/ \E e \in Entities : GetRow(r, e) \/ Replace(r, e)
             \/ Refill(r) \/ UpdateRow(r)
      PROVE  RecordsInv'
  <2>1. CASE \E e \in Entities : GetRow(r, e) \/ Replace(r, e)
    BY <2>1, RowSteps
  <2>2. CASE Refill(r) \/ UpdateRow(r)
    <3>1. PICK e : e = req[r].on
      OBVIOUS
    <3>2. e \in Entities
      BY <2>2, <3>1 DEF RecordsInv, Good, Fits, Refill, UpdateRow
    <3> QED BY <2>2, <3>2, RowSteps
  <2> QED BY <1>7, <2>1, <2>2
<1>8. ASSUME NEW r \in Requests, NEW e \in Entities, BeginDelete(r, e) PROVE RecordsInv'
  BY <1>8, BeginDeleteKeeps
<1>9. ASSUME NEW r \in Requests, NEW e \in Entities, InsertLink(r, e) PROVE RecordsInv'
  BY <1>9, InsertLinkKeeps
<1>10. ASSUME NEW r \in Requests, Deletion(r) PROVE RecordsInv'
  BY <1>10, DeletionKeeps, CommitDeleteKeeps DEF Deletion
<1>11. ASSUME NEW r \in Requests, NEW a \in Activities, NEW L \in SUBSET Entities,
              CreateActivity(r, a, L)
       PROVE  RecordsInv'
  BY <1>11, CreateActivityKeeps
<1>12. ASSUME NEW r \in Requests, CommitActivity(r) PROVE RecordsInv'
  BY <1>12, CommitActivityKeeps
<1>13. ASSUME NEW r \in Requests, NEW t \in Todos, NEW s \in {"open", "done", Omit},
              NEW about \in Entities \cup {None, Omit},
              GetTodo(r, t, s, about) \/ ReplaceTodo(r, t, s, about)
       PROVE  RecordsInv'
  BY <1>13, TodoSteps DEF Statuses
<1>14. ASSUME NEW r \in Requests, RefillTodo(r) PROVE RecordsInv'
  <2>1. PICK t : t = req[r].on
    OBVIOUS
  <2>2. t \in Todos /\ Omit \in Statuses /\ None \in Entities \cup {None, Omit}
    BY <1>14, <2>1 DEF RecordsInv, Good, Fits, RefillTodo, Statuses
  <2> QED BY <1>14, <2>2, TodoSteps
<1>15. ASSUME NEW r \in Requests, UpdateTodo(r) PROVE RecordsInv'
  BY <1>15, UpdateTodoKeeps
<1>16. ASSUME NEW r \in Requests, Abort(r) PROVE RecordsInv'
  BY <1>16, AbortKeeps
<1>17. CASE UNCHANGED vars
  <2>1. /\ UNCHANGED <<rows, todos, notes, links, tagged, late, overlap, req>>
    BY <1>17 DEF vars
  <2>2. Types' /\ RowsKept
    BY <2>1 DEF RecordsInv, Types, RowsKept
  <2>3. LinksMet /\ LinksLost /\ TagsMet /\ TagsLost
    BY <2>1 DEF LinksMet, LinksLost, TagsMet, TagsLost
  <2>4. LinksOfNotes' /\ LateMet'
    BY <2>1 DEF RecordsInv, LinksOfNotes, LateMet
  <2> QED BY <2>1, <2>2, <2>3, <2>4, NoRequest
<1> QED BY <1>1, <1>2, <1>3, <1>4, <1>5, <1>6, <1>7, <1>8, <1>9, <1>10, <1>11, <1>12, <1>13,
           <1>14, <1>15, <1>16, <1>17 DEF Next

\* The requests, the rows and what names them keep to RecordsInv, whatever
\* requests there are and however their statements take turns.
THEOREM RecordsInvariant == Spec => []RecordsInv
BY RecordsInvInit, RecordsInvNext, PTL DEF Spec

\* With the insert policies of migration 030, an activity link or a tag that
\* names a deleted entity was written by a transaction that ran while the
\* entity was being deleted.
THEOREM StrayMeansOverlap ==
  ASSUME RLSEnforced
  PROVE  Spec => []StrayNeedsOverlap
<1>1. RecordsInv => StrayNeedsOverlap
  BY DEF RecordsInv
<1> QED BY <1>1, RecordsInvariant, PTL

-----------------------------------------------------------------------------
\* How the row of an entity changes.
LEMMA RowsChange ==
  ASSUME RecordsInv, [Next]_vars, NEW e \in Entities, Here(e)
  PROVE  \/ rows'[e] = rows[e]
         \/ rows'[e].state = "here" /\ rows'[e].touch >= rows[e].touch
         \/ \E r \in Requests : /\ UpdateRow(r) /\ req[r].on = e
                                /\ rows'[e].state = "here" /\ rows'[e].touch = req[r].row.touch
         \/ \E r \in Requests : CommitDelete(r) /\ req[r].on = e
<1>1. Types /\ rows[e] \in Row
  BY DEF RecordsInv, Types
<1>2. ASSUME NEW f \in Entities, NEW k \in Kinds, Create(f, k) PROVE rows'[e] = rows[e]
  BY <1>1, <1>2 DEF Create, Here, Types
<1>3. ASSUME NEW f \in Entities, NEW at \in 1..MaxTouch, Touch(f, at)
      PROVE  rows'[e] = rows[e] \/ (rows'[e].state = "here" /\ rows'[e].touch >= rows[e].touch)
  <2>1. CASE f # e
    BY <1>1, <1>3, <2>1 DEF Touch, Types
  <2>2. CASE f = e
    <3>1. PICK to : to = IF at > rows[e].touch THEN at ELSE rows[e].touch
      OBVIOUS
    <3>2. to \in 0..MaxTouch /\ to >= rows[e].touch
      BY <1>1, <3>1, RecordsAssumption DEF Row
    <3>3. PICK new : new = [rows[e] EXCEPT !.touch = to]
      OBVIOUS
    <3>4. new.state = "here" /\ new.touch = to
      BY <1>1, <3>2, <3>3, RowFields DEF Here
    <3>5. rows' = [rows EXCEPT ![e] = new]
      BY <1>3, <2>2, <3>1, <3>3 DEF Touch
    <3> QED BY <1>1, <3>2, <3>4, <3>5 DEF Types
  <2> QED BY <2>1, <2>2
<1>4. ASSUME NEW r \in Requests, UpdateRow(r)
      PROVE  \/ rows'[e] = rows[e]
             \/ /\ req[r].on = e
                /\ rows'[e].state = "here" /\ rows'[e].touch = req[r].row.touch
  <2>1. PICK p : p = req[r]
    OBVIOUS
  <2>2. p.on \in Entities /\ p.row.touch \in 0..MaxTouch
    BY <1>1, <1>4, <2>1, RowFields DEF UpdateRow, RecordsInv, Types, Good, Fits, Request
  <2>3. UNCHANGED rows \/ rows' = [rows EXCEPT ![p.on].touch = p.row.touch]
    BY <1>4, <2>1 DEF UpdateRow
  <2>4. CASE UNCHANGED rows
    BY <2>4
  <2>5. CASE p.on # e /\ rows' = [rows EXCEPT ![p.on].touch = p.row.touch]
    BY <1>1, <2>2, <2>5 DEF Types
  <2>6. CASE p.on = e /\ rows' = [rows EXCEPT ![p.on].touch = p.row.touch]
    <3>1. PICK touch : touch = p.row.touch
      OBVIOUS
    <3>2. PICK new : new = [rows[e] EXCEPT !.touch = touch]
      OBVIOUS
    <3>3. new.state = "here" /\ new.touch = touch
      BY <1>1, <2>2, <3>1, <3>2, RowFields DEF Here
    <3>4. rows' = [rows EXCEPT ![e] = new]
      BY <2>6, <3>1, <3>2
    <3> QED BY <1>1, <2>1, <2>6, <3>1, <3>3, <3>4 DEF Types
  <2> QED BY <2>3, <2>4, <2>5, <2>6
<1>5. ASSUME NEW r \in Requests, CommitDelete(r)
      PROVE  rows'[e] = rows[e] \/ req[r].on = e
  <2>1. Fits(req[r])
    BY DEF RecordsInv, Good
  <2> QED BY <1>1, <1>5, <2>1, Committed
<1>6. ASSUME UNCHANGED rows PROVE rows'[e] = rows[e]
  BY <1>6
<1>7. \/ \E f \in Entities, k \in Kinds : Create(f, k)
      \/ \E f \in Entities, at \in 1..MaxTouch : Touch(f, at)
      \/ \E r \in Requests : UpdateRow(r)
      \/ \E r \in Requests : CommitDelete(r)
      \/ UNCHANGED rows
  <2>1. ASSUME NEW f \in Entities,
               \/ \E a \in Activities : LinkActivity(a, f)
               \/ \E g \in Tags : TagEntity(g, f)
               \/ \E x \in Activities \cup Tags : LateInsert(x, f)
        PROVE  UNCHANGED rows
    BY <2>1 DEF LinkActivity, TagEntity, LateInsert
  <2>2. ASSUME NEW a \in Activities, DeleteActivity(a) PROVE UNCHANGED rows
    BY <2>2 DEF DeleteActivity
  <2>3. ASSUME NEW t \in Todos,
               \/ \E f \in Entities \cup {None}, s \in {"open", "done"} : CreateTodo(t, f, s)
               \/ CompleteTodo(t) \/ DeleteTodo(t)
        PROVE  UNCHANGED rows
    BY <2>3 DEF CreateTodo, CompleteTodo, DeleteTodo
  <2>4. ASSUME NEW r \in Requests, NEW f \in Entities,
               GetRow(r, f) \/ Replace(r, f) \/ BeginDelete(r, f) \/ InsertLink(r, f)
        PROVE  UNCHANGED rows
    BY <2>4 DEF GetRow, Replace, BeginDelete, InsertLink
  <2>5. ASSUME NEW r \in Requests,
               \/ Refill(r) \/ CommitActivity(r) \/ RefillTodo(r) \/ UpdateTodo(r) \/ Abort(r)
               \/ \E a \in Activities, L \in SUBSET Entities : CreateActivity(r, a, L)
        PROVE  UNCHANGED rows
    BY <2>5 DEF Refill, CommitActivity, RefillTodo, UpdateTodo, Abort, CreateActivity
  <2>6. ASSUME NEW r \in Requests, NEW t \in Todos, NEW s \in {"open", "done", Omit},
               NEW about \in Entities \cup {None, Omit},
               GetTodo(r, t, s, about) \/ ReplaceTodo(r, t, s, about)
        PROVE  UNCHANGED rows
    BY <2>6 DEF GetTodo, ReplaceTodo
  <2>7. ASSUME NEW r \in Requests, Deletion(r) PROVE UNCHANGED rows \/ CommitDelete(r)
    BY <2>7 DEF Deletion, DeleteTodos, DeleteLinks, DeleteTags, DeleteAbout, DeleteRow
  <2>8. CASE UNCHANGED vars
    BY <2>8 DEF vars
  <2> QED BY <2>1, <2>2, <2>3, <2>4, <2>5, <2>6, <2>7, <2>8 DEF Next
<1> QED BY <1>2, <1>3, <1>4, <1>5, <1>6, <1>7

\* One deletion of an entity commits, and it has deleted what it answers for.
LEMMA DeletionLeavesNothing ==
  ASSUME RecordsInv, [Next]_vars, NEW r \in Requests, NEW e \in Entities,
         req[r].step = "commit", req[r].on = e, Here(e), rows'[e].state = "gone"
  PROVE  req[r].before \cap About(e)' = {}
<1>1. Types /\ Types' /\ LinksOfNotes
  BY RecordsInvNext DEF RecordsInv
<1>2. CommitDelete(r)
  <2>1. PICK x \in Requests : CommitDelete(x) /\ req[x].on = e
    BY RowsChange DEF Here
  <2> QED BY <2>1 DEF CommitDelete, RecordsInv, OneWriter
<1>3. PICK p : p = req[r]
  OBVIOUS
<1>4. Fits(p) /\ Cleared(p) /\ p.step = "commit" /\ p.on = e
  BY <1>3 DEF RecordsInv, Good
<1>5. /\ UNCHANGED notes
      /\ \A t \in Todos : IF <<t, "todo">> \in p.deleted THEN todos'[t].state = "gone"
                                                         ELSE todos'[t] = todos[t]
      /\ links' = {l \in links : l[2] # e \/ <<l[1], "link">> \notin p.deleted}
      /\ tagged' = {l \in tagged : l[2] # e \/ <<l[1], "tag">> \notin p.deleted}
  BY <1>1, <1>2, <1>3, <1>4, Committed
<1>6. /\ \A t \in Todos : <<t, "todo">> \in p.before => TodoCleared(p, t)
      /\ \A a \in Activities : <<a, "link">> \in p.before => LinkCleared(p, a)
      /\ \A g \in Tags : <<g, "tag">> \in p.before => TagCleared(p, g)
  BY <1>4 DEF Cleared, DeletingSteps
<1>7. ASSUME NEW t \in Todos, <<t, "todo">> \in p.before PROVE todos'[t].state # "here"
  BY <1>4, <1>5, <1>6, <1>7 DEF TodoCleared, StepsBefore
<1>8. ASSUME NEW a \in Activities, <<a, "link">> \in p.before PROVE <<a, e>> \notin links'
  <2>1. <<a, e>>[1] = a /\ <<a, e>>[2] = e
    OBVIOUS
  <2>2. <<a, "link">> \in p.deleted \/ notes[a] = "gone"
    BY <1>4, <1>6, <1>8 DEF LinkCleared, StepsBefore
  <2> QED BY <1>1, <1>5, <2>1, <2>2 DEF LinksOfNotes
<1>9. ASSUME NEW g \in Tags, <<g, "tag">> \in p.before PROVE <<g, e>> \notin tagged'
  <2>1. <<g, e>>[1] = g /\ <<g, e>>[2] = e
    OBVIOUS
  <2>2. <<g, "tag">> \in p.deleted
    BY <1>4, <1>6, <1>9 DEF TagCleared, StepsBefore
  <2> QED BY <1>5, <2>1, <2>2
<1>10. ASSUME NEW z \in p.before, z \in About(e)' PROVE FALSE
  <2>1. \/ \E t \in Todos : z = <<t, "todo">> /\ todos'[t].state = "here"
        \/ \E a \in Activities : z = <<a, "link">> /\ <<a, e>> \in links'
        \/ \E g \in Tags : z = <<g, "tag">> /\ <<g, e>> \in tagged'
    BY <1>10 DEF About
  <2> QED BY <1>7, <1>8, <1>9, <1>10, <2>1
<1> QED BY <1>3, <1>10

\* A deletion leaves nothing about the entity behind that was there when it
\* began, whatever other requests do between its statements, with or without
\* the insert policies.
THEOREM NothingLeft == Spec => NothingLeftBehind
<1>1. RecordsInv /\ [Next]_vars =>
        [\A r \in Requests, e \in Entities :
          (/\ req[r].step = "commit" /\ req[r].on = e
           /\ Here(e) /\ rows'[e].state = "gone")
          => req[r].before \cap About(e)' = {}]_vars
  BY DeletionLeavesNothing
<1> QED BY <1>1, RecordsInvariant, PTL DEF Spec, NothingLeftBehind
=============================================================================
