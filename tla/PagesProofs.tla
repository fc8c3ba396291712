---------------------------- MODULE PagesProofs ----------------------------
(***************************************************************************)
(* What a sheet shows as linked belongs to the record it shows, a form     *)
(* makes one record, a deleted record stays away and no save takes back    *)
(* what its user changed.  The lists of the settings are those of the      *)
(* chosen organization, and a mailbox is saved as it was tested.           *)
(***************************************************************************)
EXTENDS Pages, TLAPS

Ops == Writes \cup Relations \cup {"create", "list", "detail"}

\* A request has its fields, whatever it carries.
IsCall(c) ==
  /\ c = [op |-> c.op, id |-> c.id, n |-> c.n, data |-> c.data, live |-> c.live,
          state |-> c.state, page |-> c.page, seen |-> c.seen]
  /\ c.op \in Ops /\ c.id \in Ids \cup {None} /\ c.live \in BOOLEAN /\ c.seen \in Nat

\* What a request brings was there.
Bounded(c) ==
  /\ c.op \in Relations \cup {"detail"} => c.id \in Ids
  /\ c.op \in Relations \cup {"detail"} /\ c.state = "ok" => c.seen <= related[c.id]

\* What is loaded for the record in the sheet has all that the user was told of.
Fresh(c) ==
  /\ Bounded(c)
  /\ c.op = "detail" /\ c.live => /\ c.id = shown
                                  /\ c.state = "ok" => c.seen >= known[c.id]

DetailInv ==
  /\ shown \in Ids \cup {None}
  /\ detail \in [of : Ids \cup {None}, seen : Nat, state : {"idle", "loading", "ready", "failed"}]
  /\ related \in [Ids -> Nat] /\ known \in [Ids -> Nat]
  /\ \A id \in Ids : known[id] <= related[id]
  /\ \A c \in calls : IsCall(c) /\ Fresh(c)
  /\ DetailsOfShownRecord

\* The details of a record are under way, and their answer will be shown.
Awaited(cs, id) == \E c \in cs : c.op = "detail" /\ c.live /\ c.id = id

-----------------------------------------------------------------------------
\* A request goes on: it keeps its fields but those that are set.
LEMMA Fields ==
  ASSUME NEW c, IsCall(c)
  PROVE  /\ \A live \in BOOLEAN : /\ IsCall([c EXCEPT !.live = live])
                                  /\ [c EXCEPT !.live = live].op = c.op
                                  /\ [c EXCEPT !.live = live].id = c.id
                                  /\ [c EXCEPT !.live = live].data = c.data
                                  /\ [c EXCEPT !.live = live].live = live
                                  /\ [c EXCEPT !.live = live].state = c.state
                                  /\ [c EXCEPT !.live = live].seen = c.seen
         /\ \A s : /\ IsCall([c EXCEPT !.state = s])
                   /\ [c EXCEPT !.state = s].op = c.op
                   /\ [c EXCEPT !.state = s].id = c.id
                   /\ [c EXCEPT !.state = s].data = c.data
                   /\ [c EXCEPT !.state = s].live = c.live
                   /\ [c EXCEPT !.state = s].state = s
                   /\ [c EXCEPT !.state = s].seen = c.seen
BY DEF IsCall

LEMMA OtherFields ==
  ASSUME NEW c, IsCall(c), NEW x
  PROVE  /\ /\ IsCall([c EXCEPT !.data = x])
            /\ [c EXCEPT !.data = x].op = c.op /\ [c EXCEPT !.data = x].id = c.id
            /\ [c EXCEPT !.data = x].state = c.state
         /\ /\ IsCall([c EXCEPT !.n = x])
            /\ [c EXCEPT !.n = x].op = c.op /\ [c EXCEPT !.n = x].id = c.id
            /\ [c EXCEPT !.n = x].state = c.state
BY DEF IsCall

\* A request that has not been answered.
IsSent(c, op, id) == IsCall(c) /\ c.op = op /\ c.id = id /\ c.state = "sent"

LEMMA NewFields ==
  ASSUME NEW op \in Ops, NEW id \in Ids \cup {None}
  PROVE  /\ IsSent(Request(op, id), op, id)
         /\ IsSent(Load(op, id), op, id)
         /\ \A data : IsSent(Send(op, id, data), op, id)
<1>1. IsSent(Request(op, id), op, id)
  BY DEF IsSent, IsCall, Request
<1>2. IsSent(Load(op, id), op, id)
  BY <1>1, OtherFields DEF IsSent, Load
<1>3. ASSUME NEW data PROVE IsSent(Send(op, id, data), op, id)
  BY <1>1, OtherFields DEF IsSent, Send
<1> QED BY <1>1, <1>2, <1>3

\* A form is sent with its number.
LEMMA SentData ==
  ASSUME NEW op, NEW id, NEW data
  PROVE  Send(op, id, data).data = data
BY DEF Send, Request

\* Requests that are voided are those that were there, and none of them is
\* live any more.
LEMMA VoidIsCall ==
  ASSUME NEW cs, \A c \in cs : IsCall(c), NEW op, NEW v \in Void(cs, op)
  PROVE  /\ IsCall(v) /\ (v.live => v.op # op)
         /\ \E c \in cs : /\ v.op = c.op /\ v.id = c.id /\ v.data = c.data
                          /\ v.state = c.state /\ v.seen = c.seen /\ (v.live => c.live)
<1>1. PICK c \in cs : v = [c EXCEPT !.live = c.live /\ c.op # op]
  BY DEF Void
<1> DEFINE live == c.live /\ c.op # op
<1>2. live \in BOOLEAN /\ (live => c.live /\ c.op # op)
  BY DEF IsCall
<1>3. v = [c EXCEPT !.live = live]
  BY <1>1
<1> HIDE DEF live
<1> QED BY <1>2, <1>3, Fields

LEMMA VoidBounded ==
  ASSUME NEW cs, \A c \in cs : IsCall(c) /\ Bounded(c), NEW op, NEW v \in Void(cs, op)
  PROVE  IsCall(v) /\ Bounded(v) /\ (v.live => v.op # op)
BY VoidIsCall DEF Bounded

LEMMA VoidFresh ==
  ASSUME \A c \in calls : IsCall(c) /\ Fresh(c), NEW op, NEW v \in Void(calls, op)
  PROVE  IsCall(v) /\ Fresh(v)
BY VoidIsCall DEF Bounded, Fresh

\* After the details were asked for anew only that question is live.
LEMMA LoadDetailsFresh ==
  ASSUME NEW cs, \A c \in cs : IsCall(c) /\ Bounded(c), NEW id \in Ids \cup {None}, shown' = id,
         UNCHANGED related, NEW v \in LoadDetails(cs, id)
  PROVE  IsCall(v) /\ Fresh(v)'
<1>1. CASE v \in Void(cs, "detail")
  BY <1>1, VoidBounded DEF Fresh, Bounded
<1>2. CASE id \in Ids /\ v = Load("detail", id)
  <2>1. IsSent(v, "detail", id)
    BY <1>2, NewFields DEF Ops
  <2> QED BY <1>2, <2>1 DEF IsSent, Fresh, Bounded
<1> QED BY <1>1, <1>2 DEF LoadDetails

LEMMA LoadDetailsAwaited ==
  ASSUME NEW cs, NEW id \in Ids, Detailed
  PROVE  Awaited(LoadDetails(cs, id), id)
<1>1. /\ Load("detail", id) \in LoadDetails(cs, id)
      /\ IsSent(Load("detail", id), "detail", id)
  BY NewFields, RecordSheetAssumption DEF LoadDetails, Ops
<1>2. Load("detail", id).live
  BY DEF Load, Request
<1> QED BY <1>1, <1>2 DEF Awaited, IsSent

LEMMA RelistBounded ==
  ASSUME NEW cs, \A c \in cs : IsCall(c) /\ Bounded(c), NEW v \in Relist(cs)
  PROVE  IsCall(v) /\ Bounded(v)
<1>1. CASE v \in Void(cs, "list")
  BY <1>1, VoidBounded
<1>2. CASE v = Load("list", None)
  <2>1. IsSent(v, "list", None)
    BY <1>2, NewFields DEF Ops
  <2> QED BY <2>1 DEF IsSent, Bounded, Relations
<1> QED BY <1>1, <1>2 DEF Relist

-----------------------------------------------------------------------------
\* The sheet is left as it is.
LEMMA QuietKeeps ==
  ASSUME DetailInv, UNCHANGED <<kind, shown, detail, known>>, related' \in [Ids -> Nat],
         \A id \in Ids : related[id] <= related'[id],
         Awaited(calls, shown) => Awaited(calls', shown),
         \A c \in calls' : c \in calls \/ (IsCall(c) /\ Fresh(c)')
  PROVE  DetailInv'
<1>1. ASSUME NEW c \in calls PROVE IsCall(c) /\ Fresh(c)'
  <2>1. IsCall(c) /\ Fresh(c) /\ c.seen \in Nat
    BY DEF DetailInv, IsCall
  <2> QED BY <2>1 DEF Fresh, Bounded, DetailInv
<1>2. \A id \in Ids : known'[id] <= related'[id]
  BY DEF DetailInv
<1>3. DetailsOfShownRecord'
  BY DEF DetailInv, DetailsOfShownRecord, Awaited
<1> QED BY <1>1, <1>2, <1>3 DEF DetailInv

\* The sheet shows something else, or the same anew.
LEMMA ShowKeeps ==
  ASSUME DetailInv, NEW id \in Ids \cup {None}, shown' = id, detail' = DetailsLoading(id),
         UNCHANGED <<kind, related>>,
         known' \in [Ids -> Nat], \A i \in Ids : known'[i] <= related[i],
         id \in Ids /\ Detailed => Awaited(calls', id),
         \A c \in calls' : IsCall(c) /\ Fresh(c)'
  PROVE  DetailInv'
<1>1. detail \in [of : Ids \cup {None}, seen : Nat, state : {"idle", "loading", "ready", "failed"}]
  BY DEF DetailInv
<1>2. CASE id = None \/ ~Detailed
  <2>1. detail' = NoDetail
    <3>1. CASE id = None
      BY <3>1 DEF DetailsLoading
    <3>2. CASE id # None /\ kind \notin {"people", "companies", "deals"}
      BY <3>2 DEF DetailsLoading, Detailed
    <3> QED BY <1>2, <3>1, <3>2 DEF Detailed
  <2> QED BY <2>1 DEF NoDetail, DetailInv, DetailsOfShownRecord
<1>3. CASE id # None /\ Detailed
  <2>1. Awaited(calls', shown')
    BY <1>3
  <2>2. CASE kind = "deals"
    <3>1. detail' = [detail EXCEPT !.state = "loading"]
      BY <1>3, <2>2 DEF DetailsLoading
    <3>2. /\ detail' \in [of : Ids \cup {None}, seen : Nat,
                          state : {"idle", "loading", "ready", "failed"}]
          /\ detail'.state = "loading"
      BY <1>1, <3>1
    <3> QED BY <2>1, <3>2 DEF DetailInv, DetailsOfShownRecord, Awaited
  <2>3. CASE kind # "deals"
    <3>1. detail' = detail
      BY <1>3, <2>3 DEF DetailsLoading
    <3> QED BY <1>1, <2>1, <2>3, <3>1 DEF DetailInv, DetailsOfShownRecord, Awaited
  <2> QED BY <2>2, <2>3
<1> QED BY <1>2, <1>3

-----------------------------------------------------------------------------
\* What a click leaves of the requests: what was there, a dialog less, or one
\* more that is no load.
Asks ==
  \/ calls' = calls
  \/ calls' = Void(calls, "delete")
  \/ \E c : /\ calls' = calls \cup {c}
            /\ \E op \in Ops \ {"detail"}, id \in Ids \cup {None} :
                 IsSent(c, op, id) /\ (op \in Relations => id \in Ids)

LEMMA WriteAsks ==
  ASSUME DetailInv, NEW op \in Writes, NEW data, Write(op, data)
  PROVE  Asks
BY NewFields DEF Write, Asks, Ops, Writes, Relations, DetailInv

LEMMA RelateAsks ==
  ASSUME DetailInv, NEW op \in Relations, NEW id, id \in Ids \/ id = shown, Relate(op, id)
  PROVE  Asks
<1>1. id \in Ids /\ op \in Ops \ {"detail"}
  BY DEF Relate, DetailInv, Ops, Relations
<1> QED BY <1>1, NewFields DEF Relate, Asks

LEMMA SubmitAsks ==
  ASSUME DetailInv, Submit
  PROVE  Asks
BY NewFields DEF Submit, Asks, Ops, Relations

LEMMA ClickKinds ==
  ASSUME DetailInv, Clicks
  PROVE  \/ \E id \in Ids : Select(id)
         \/ Close
         \/ UNCHANGED <<kind, shown, detail, related, known>> /\ Asks
<1> DEFINE Quiet == UNCHANGED <<kind, shown, detail, related, known>> /\ Asks
<1>1. ASSUME Save \/ Toggle \/ Delete PROVE Quiet
  BY <1>1, WriteAsks DEF Save, Toggle, Delete, Write, Writes, server, sheet
<1>2. ASSUME NEW op \in Relations, NEW id, id \in Ids \/ id = shown, Relate(op, id) PROVE Quiet
  BY <1>2, RelateAsks DEF Relate, server, sheet, ghosts
<1>3. ASSUME OpenForm \/ CloseForm \/ Submit PROVE Quiet
  BY <1>3, SubmitAsks DEF OpenForm, CloseForm, Submit, server, sheet, ghosts, Asks
<1>4. CASE ComposeActivity \/ ChangeActivity
  BY <1>2, <1>4 DEF ComposeActivity, ChangeActivity, Relations, DetailInv
<1>5. CASE PersonClicks
  <2>1. ASSUME EditPerson \/ CancelPerson PROVE Quiet
    BY <2>1 DEF EditPerson, CancelPerson, server, sheet, ghosts, Asks
  <2>2. ASSUME SavePerson \/ TogglePerson \/ DeletePerson PROVE Quiet
    BY <2>2, <1>1 DEF SavePerson, TogglePerson, DeletePerson
  <2>3. ASSUME \/ LinkPersonCompany \/ CreatePersonCompany \/ UnlinkPersonCompany
               \/ CreatePersonTask \/ TogglePersonTask
        PROVE Quiet
    <3>1. \E op \in Relations : Relate(op, shown)
      BY <2>3 DEF LinkPersonCompany, CreatePersonCompany, UnlinkPersonCompany, CreatePersonTask,
                  TogglePersonTask, Relations
    <3> QED BY <3>1, <1>2
  <2> QED BY <1>5, <2>1, <2>2, <2>3, <1>3 DEF PersonClicks, SelectPerson, PersonForm
<1>6. CASE CompanyClicks
  <2>1. ASSUME EditCompany \/ CancelCompany PROVE Quiet
    BY <2>1 DEF EditCompany, CancelCompany, server, sheet, ghosts, Asks
  <2>2. ASSUME SaveCompany \/ DeleteCompany PROVE Quiet
    BY <2>2, <1>1 DEF SaveCompany, DeleteCompany
  <2>3. ASSUME CreateCompanyTask \/ ToggleCompanyTask PROVE Quiet
    BY <2>3, <1>2 DEF CreateCompanyTask, ToggleCompanyTask, Relations
  <2> QED BY <1>6, <2>1, <2>2, <2>3, <1>3 DEF CompanyClicks, SelectCompany, CompanyForm
<1>7. CASE DealClicks
  <2>1. ASSUME OpenDeal PROVE Quiet
    BY <2>1 DEF OpenDeal, server, sheet, ghosts, Asks
  <2>2. ASSUME SaveDeal \/ DeleteDeal PROVE Quiet
    BY <2>2, <1>1 DEF SaveDeal, DeleteDeal
  <2>3. ASSUME \/ LinkDealPerson \/ LinkDealCompany \/ UnlinkDealPerson \/ UnlinkDealCompany
               \/ CreateDealTask \/ EditDealTask
        PROVE Quiet
    <3>1. \E op \in Relations : Relate(op, shown)
      BY <2>3 DEF LinkDealPerson, LinkDealCompany, UnlinkDealPerson, UnlinkDealCompany,
                  CreateDealTask, EditDealTask, Relations
    <3> QED BY <3>1, <1>2
  <2> QED BY <1>7, <2>1, <2>2, <2>3, <1>3 DEF DealClicks, SelectDeal, DealForm
<1>8. CASE TaskClicks
  <2>1. ASSUME OpenTask PROVE Quiet
    BY <2>1 DEF OpenTask, server, sheet, ghosts, Asks
  <2>2. ASSUME \/ SaveTask \/ ToggleTask \/ DeleteTask
               \/ LinkTaskPerson \/ LinkTaskCompany \/ LinkTaskDeal \/ UnlinkTask
        PROVE Quiet
    BY <2>2, <1>1 DEF SaveTask, ToggleTask, DeleteTask, LinkTaskPerson, LinkTaskCompany,
                      LinkTaskDeal, UnlinkTask
  <2> QED BY <1>8, <2>1, <2>2 DEF TaskClicks, SelectTask, SelectDashboardTask
<1> QED BY <1>3, <1>4, <1>5, <1>6, <1>7, <1>8 DEF Clicks

LEMMA ClicksKeep ==
  ASSUME DetailInv, Clicks
  PROVE  DetailInv'
<1>1. \A c \in calls : IsCall(c) /\ Fresh(c) /\ Bounded(c)
  BY DEF DetailInv, Fresh
<1>2. CASE \E id \in Ids : Select(id)
  <2>1. PICK id \in Ids : Select(id)
    BY <1>2
  <2>2. /\ shown' = id /\ detail' = DetailsLoading(id) /\ calls' = LoadDetails(calls, id)
        /\ UNCHANGED <<kind, related, known>>
    BY <2>1 DEF Select, Show, server
  <2>3. \A c \in calls' : IsCall(c) /\ Fresh(c)'
    BY <1>1, <2>2, LoadDetailsFresh
  <2>4. Detailed => Awaited(calls', id)
    BY <2>2, LoadDetailsAwaited
  <2> QED BY <2>2, <2>3, <2>4, ShowKeeps DEF DetailInv
<1>3. CASE Close
  <2>1. /\ shown' = None /\ detail' = DetailsLoading(None)
        /\ calls' = Void(LoadDetails(calls, None), "delete")
        /\ UNCHANGED <<kind, related, known>>
    BY <1>3 DEF Close, Show, server, ghosts
  <2>2. \A c \in LoadDetails(calls, None) : IsCall(c) /\ Fresh(c)'
    BY <1>1, <2>1, LoadDetailsFresh
  <2>3. ASSUME NEW v \in calls' PROVE IsCall(v) /\ Fresh(v)'
    BY <2>1, <2>2, VoidIsCall DEF Fresh, Bounded
  <2> QED BY <2>1, <2>3, ShowKeeps, RecordSheetAssumption DEF DetailInv
<1>4. CASE UNCHANGED <<kind, shown, detail, related, known>> /\ Asks
  <2>1. ASSUME NEW v \in calls' PROVE v \in calls \/ (IsCall(v) /\ Fresh(v)')
    <3>1. CASE calls' = calls
      BY <3>1
    <3>2. CASE calls' = Void(calls, "delete")
      BY <1>1, <1>4, <3>2, VoidFresh DEF Fresh, Bounded
    <3>3. CASE \E c : /\ calls' = calls \cup {c}
                     /\ \E op \in Ops \ {"detail"}, id \in Ids \cup {None} :
                          IsSent(c, op, id) /\ (op \in Relations => id \in Ids)
      BY <3>3 DEF IsSent, Fresh, Bounded
    <3> QED BY <1>4, <3>1, <3>2, <3>3 DEF Asks
  <2>2. related' \in [Ids -> Nat] /\ \A id \in Ids : related[id] <= related'[id]
    BY <1>4 DEF DetailInv
  <2>3. ASSUME NEW c \in calls, c.op = "detail", c.live, c.id = shown
        PROVE  Awaited(calls', shown)
    <3>1. CASE calls' = Void(calls, "delete")
      <4> DEFINE v == [c EXCEPT !.live = c.live /\ c.op # "delete"]
      <4>1. v \in calls'
        BY <3>1 DEF Void
      <4>2. c.live /\ c.op # "delete"
        BY <2>3
      <4>3. v.op = c.op /\ v.id = c.id /\ v.live
        <5>1. (c.live /\ c.op # "delete") = TRUE
          BY <4>2, <1>1 DEF IsCall
        <5>2. v = [c EXCEPT !.live = TRUE]
          BY <5>1
        <5> HIDE DEF v
        <5>3. TRUE \in BOOLEAN
          OBVIOUS
        <5> QED BY <1>1, <5>2, <5>3, Fields
      <4> QED BY <2>3, <4>1, <4>3 DEF Awaited
    <3>2. CASE calls \subseteq calls'
      BY <2>3, <3>2 DEF Awaited
    <3> QED BY <1>4, <3>1, <3>2 DEF Asks
  <2>4. Awaited(calls, shown) => Awaited(calls', shown)
    BY <2>3 DEF Awaited
  <2> QED BY <1>4, <2>1, <2>2, <2>4, QuietKeeps
<1> QED BY <1>2, <1>3, <1>4, ClickKinds

-----------------------------------------------------------------------------
LEMMA SeenField ==
  ASSUME NEW c, IsCall(c), NEW seen \in Nat
  PROVE  /\ IsCall([c EXCEPT !.seen = seen]) /\ [c EXCEPT !.seen = seen].op = c.op
         /\ [c EXCEPT !.seen = seen].id = c.id /\ [c EXCEPT !.seen = seen].live = c.live
         /\ [c EXCEPT !.seen = seen].seen = seen
BY DEF IsCall

LEMMA IdField ==
  ASSUME NEW c, IsCall(c), NEW id \in Ids
  PROVE  /\ IsCall([c EXCEPT !.id = id]) /\ [c EXCEPT !.id = id].op = c.op
         /\ [c EXCEPT !.id = id].id = id /\ [c EXCEPT !.id = id].data = c.data
         /\ [c EXCEPT !.id = id].state = c.state
BY DEF IsCall

LEMMA PageField ==
  ASSUME NEW c, IsCall(c), NEW into
  PROVE  IsCall([c EXCEPT !.page = into]) /\ [c EXCEPT !.page = into].op = c.op
BY DEF IsCall

\* What an answer brings takes the place of the request.
Brings(new, c, seen) ==
  /\ new = [c EXCEPT !.state = "ok", !.seen = seen]
  /\ IsCall(new) /\ new.op = c.op /\ new.id = c.id /\ new.live = c.live
  /\ new.seen = seen

LEMMA AnsweredSeen ==
  ASSUME NEW c, IsCall(c), NEW seen \in Nat
  PROVE  \E new : Brings(new, c, seen)
<1> DEFINE mid == [c EXCEPT !.state = "ok"]
<1>1. IsCall(mid) /\ mid.op = c.op /\ mid.id = c.id /\ mid.live = c.live
  BY Fields
<1>2. [c EXCEPT !.state = "ok", !.seen = seen] = [mid EXCEPT !.seen = seen]
  OBVIOUS
<1> HIDE DEF mid
<1>3. PICK new : new = [mid EXCEPT !.seen = seen]
  OBVIOUS
<1>4. /\ IsCall(new) /\ new.op = mid.op /\ new.id = mid.id /\ new.live = mid.live
      /\ new.seen = seen
  BY <1>1, <1>3, SeenField
<1> QED BY <1>1, <1>2, <1>3, <1>4 DEF Brings

LEMMA ServeKeeps ==
  ASSUME DetailInv, NEW c \in calls, Serve(c) \/ Refuse(c) \/ Fail(c)
  PROVE  DetailInv'
<1>1. IsCall(c) /\ Fresh(c) /\ Bounded(c)
  BY DEF DetailInv, Fresh
<1>2. UNCHANGED <<kind, shown, detail, known>>
  BY DEF Serve, ServeSave, ServeDelete, ServeRelate, ServeCreate, ServeList, ServeDetails, Refuse,
         Fail, Served, sheet, ghosts
\* What takes the place of the request is awaited as it was.
<1>5. ASSUME NEW new, calls' = (calls \ {c}) \cup {new},
             c.op = "detail" => new.op = c.op /\ new.id = c.id /\ new.live = c.live
      PROVE  Awaited(calls, shown) => Awaited(calls', shown)
  BY <1>5 DEF Awaited
<1>3. CASE ServeRelate(c)
  <2>1. c.id \in Ids /\ related' = [related EXCEPT ![c.id] = @ + 1]
    BY <1>1, <1>3 DEF ServeRelate, Bounded
  <2>2. /\ related' \in [Ids -> Nat] /\ related'[c.id] = related[c.id] + 1
        /\ related[c.id] + 1 \in Nat
        /\ \A id \in Ids : related[id] <= related'[id]
    BY <2>1 DEF DetailInv
  <2>7. PICK n : n = related[c.id] + 1 /\ n \in Nat
    BY <2>2
  <2>8. n \in Nat
    BY <2>7
  <2>4. PICK new : Brings(new, c, n)
    BY <1>1, <2>8, AnsweredSeen
  <2>3. calls' = (calls \ {c}) \cup {new}
    BY <1>3, <2>4, <2>7 DEF ServeRelate, Brings
  <2>5. c.op # "detail"
    BY <1>3 DEF ServeRelate, Relations
  <2>6. Fresh(new)'
    BY <2>1, <2>2, <2>4, <2>5, <2>7 DEF Fresh, Bounded, Brings
  <2>9. Awaited(calls, shown) => Awaited(calls', shown)
    BY <1>5, <2>3, <2>5
  <2> QED BY <1>2, <2>2, <2>3, <2>4, <2>6, <2>9, QuietKeeps DEF Brings
<1>4. CASE ~ServeRelate(c)
  <2>1. UNCHANGED related
    BY <1>4 DEF Serve, ServeSave, ServeDelete, ServeCreate, ServeList, ServeDetails, Refuse,
                Fail, Served, server
  <2>2. related' \in [Ids -> Nat] /\ \A id \in Ids : related[id] <= related'[id]
    BY <2>1 DEF DetailInv
  <2>3. PICK new : /\ calls' = (calls \ {c}) \cup {new} /\ IsCall(new) /\ Fresh(new)'
                   /\ c.op = "detail" => new.op = c.op /\ new.id = c.id /\ new.live = c.live
    <3>1. CASE ServeSave(c) \/ ServeDelete(c) \/ Refuse(c) \/ Fail(c)
      <4>1. PICK x : calls' = (calls \ {c}) \cup {[c EXCEPT !.state = x]}
                     /\ (x = "error" \/ c.op \in Writes)
        BY <3>1 DEF ServeSave, ServeDelete, Refuse, Fail, Served, Becomes, Writes
      <4>2. c.op \in Writes => c.op \notin Relations \cup {"detail"}
        BY DEF Writes, Relations
      <4> DEFINE new == [c EXCEPT !.state = x]
      <4>3. IsCall(new) /\ new.op = c.op /\ new.id = c.id /\ new.live = c.live /\ new.state = x
        BY <1>1, Fields
      <4> HIDE DEF new
      <4>4. Fresh(new)'
        BY <1>1, <1>2, <2>1, <4>1, <4>2, <4>3 DEF Fresh, Bounded
      <4> QED BY <4>1, <4>3, <4>4 DEF new
    <3>2. CASE ServeCreate(c)
      <4>1. PICK id \in Ids :
               calls' = (calls \ {c}) \cup {[[c EXCEPT !.state = "ok"] EXCEPT !.id = id]}
        BY <3>2 DEF ServeCreate
      <4> DEFINE mid == [c EXCEPT !.state = "ok"]
      <4>2. IsCall(mid) /\ mid.op = "create"
        BY <1>1, <3>2, Fields DEF ServeCreate
      <4> HIDE DEF mid
      <4>3. IsCall([mid EXCEPT !.id = id]) /\ [mid EXCEPT !.id = id].op = "create"
        BY <4>2, IdField
      <4>4. PICK new : new = [mid EXCEPT !.id = id]
        OBVIOUS
      <4>5. Fresh(new)'
        BY <4>3, <4>4 DEF Fresh, Bounded, Relations
      <4> QED BY <3>2, <4>1, <4>3, <4>4, <4>5 DEF mid, ServeCreate
    <3>3. CASE ServeList(c)
      <4> DEFINE mid == [c EXCEPT !.state = "ok"]
      <4>1. IsCall(mid) /\ mid.op = "list"
        BY <1>1, <3>3, Fields DEF ServeList
      <4>2. calls' = (calls \ {c}) \cup {[mid EXCEPT !.page = Page]}
        BY <3>3 DEF ServeList
      <4> HIDE DEF mid
      <4>3. PICK new : new = [mid EXCEPT !.page = Page]
        OBVIOUS
      <4>4. IsCall(new) /\ new.op = "list"
        BY <4>1, <4>3, PageField
      <4>5. Fresh(new)'
        BY <4>4 DEF Fresh, Bounded, Relations
      <4> QED BY <3>3, <4>2, <4>3, <4>4, <4>5 DEF ServeList
    <3>4. CASE ServeDetails(c)
      <4>1. c.op = "detail" /\ c.id \in Ids /\ related[c.id] \in Nat
            /\ known[c.id] <= related[c.id]
        BY <1>1, <3>4 DEF ServeDetails, Bounded, DetailInv
      <4>2. PICK new : Brings(new, c, related[c.id])
        BY <1>1, <4>1, AnsweredSeen
      <4>3. calls' = (calls \ {c}) \cup {new}
        BY <3>4, <4>2 DEF ServeDetails, Brings
      <4>4. Fresh(new)'
        BY <1>1, <1>2, <2>1, <4>1, <4>2 DEF Fresh, Bounded, DetailInv, Brings
      <4> QED BY <4>2, <4>3, <4>4 DEF Brings
    <3> QED BY <1>4, <3>1, <3>2, <3>3, <3>4 DEF Serve
  <2>4. Awaited(calls, shown) => Awaited(calls', shown)
    BY <1>5, <2>3
  <2> QED BY <1>2, <2>2, <2>3, <2>4, QuietKeeps
<1> QED BY <1>3, <1>4

-----------------------------------------------------------------------------
\* The answers after which the list is read again: the sheet shows id.
LEMMA ShowAndLoadKeeps ==
  ASSUME DetailInv, NEW c, NEW id \in Ids \cup {None}, shown' = id, detail' = DetailsLoading(id),
         UNCHANGED <<kind, related, known>>, calls' = LoadDetails(Relist(calls \ {c}), id)
  PROVE  DetailInv'
<1>1. \A d \in calls \ {c} : IsCall(d) /\ Bounded(d)
  BY DEF DetailInv, Fresh
<1>2. \A d \in Relist(calls \ {c}) : IsCall(d) /\ Bounded(d)
  BY <1>1, RelistBounded
<1>3. \A d \in calls' : IsCall(d) /\ Fresh(d)'
  BY <1>2, LoadDetailsFresh
<1>4. id \in Ids /\ Detailed => Awaited(calls', id)
  BY LoadDetailsAwaited
<1> QED BY <1>3, <1>4, ShowKeeps DEF DetailInv

LEMMA AnswersKeep ==
  ASSUME DetailInv, NEW c \in calls, Answers(c)
  PROVE  DetailInv'
<1>1. IsCall(c) /\ Fresh(c) /\ Bounded(c) /\ c.id \in Ids \cup {None}
  BY DEF DetailInv, Fresh, IsCall
<1>2. ASSUME Saved(c) \/ Created(c) PROVE DetailInv'
  <2>1. /\ shown' = c.id /\ detail' = DetailsLoading(c.id) /\ UNCHANGED <<kind, related, known>>
        /\ calls' = LoadDetails(Relist(calls \ {c}), c.id)
    BY <1>2 DEF Saved, Created, Show, server, ghosts
  <2> QED BY <1>1, <2>1, ShowAndLoadKeeps
<1>3. ASSUME Deleted(c) PROVE DetailInv'
  <2>1. /\ shown' = None /\ detail' = DetailsLoading(None) /\ UNCHANGED <<kind, related, known>>
        /\ calls' = Void(LoadDetails(Relist(calls \ {c}), None), "delete")
    BY <1>3 DEF Deleted, Show, server, ghosts
  <2>2. \A d \in calls \ {c} : IsCall(d) /\ Bounded(d)
    BY DEF DetailInv, Fresh
  <2>3. \A d \in Relist(calls \ {c}) : IsCall(d) /\ Bounded(d)
    BY <2>2, RelistBounded
  <2>4. \A d \in LoadDetails(Relist(calls \ {c}), None) : IsCall(d) /\ Fresh(d)'
    BY <2>1, <2>3, LoadDetailsFresh
  <2>5. ASSUME NEW v \in calls' PROVE IsCall(v) /\ Fresh(v)'
    <3>1. PICK cs : cs = LoadDetails(Relist(calls \ {c}), None)
      OBVIOUS
    <3>2. v \in Void(cs, "delete") /\ \A d \in cs : IsCall(d) /\ Fresh(d)'
      BY <2>1, <2>4, <3>1
    <3>3. /\ IsCall(v)
          /\ \E d \in cs : /\ v.op = d.op /\ v.id = d.id
                           /\ v.state = d.state /\ v.seen = d.seen /\ (v.live => d.live)
      BY <3>2, VoidIsCall
    <3> QED BY <3>2, <3>3 DEF Fresh, Bounded
  <2> QED BY <2>1, <2>5, ShowKeeps, RecordSheetAssumption DEF DetailInv
<1>4. ASSUME Related(c) PROVE DetailInv'
  <2>1. /\ shown' = shown /\ detail' = DetailsLoading(shown) /\ UNCHANGED <<kind, related>>
        /\ known' = [known EXCEPT ![c.id] = IF c.seen > @ THEN c.seen ELSE @]
        /\ calls' = LoadDetails(calls \ {c}, shown)
        /\ c.op \in Relations /\ c.state = "ok"
    BY <1>4 DEF Related, Answered, server
  <2>2. c.id \in Ids /\ c.seen \in Nat /\ c.seen <= related[c.id]
    BY <1>1, <2>1 DEF Bounded, IsCall
  <2>3. known' \in [Ids -> Nat] /\ \A i \in Ids : known'[i] <= related[i]
    BY <2>1, <2>2 DEF DetailInv
  <2>4. \A d \in calls \ {c} : IsCall(d) /\ Bounded(d)
    BY DEF DetailInv, Fresh
  <2>5. \A d \in calls' : IsCall(d) /\ Fresh(d)'
    BY <2>1, <2>4, LoadDetailsFresh DEF DetailInv
  <2>6. shown \in Ids /\ Detailed => Awaited(calls', shown)
    BY <2>1, LoadDetailsAwaited
  <2> QED BY <2>1, <2>3, <2>5, <2>6, ShowKeeps DEF DetailInv
<1>5. ASSUME Failed(c) \/ ListAnswers(c) PROVE DetailInv'
  <2>1. /\ UNCHANGED <<kind, shown, detail, known, related>> /\ calls' = calls \ {c}
        /\ c.op # "detail"
    BY <1>5 DEF Failed, ListAnswers, server, sheet, ghosts
  <2>2. related' \in [Ids -> Nat] /\ \A i \in Ids : related[i] <= related'[i]
    BY <2>1 DEF DetailInv
  <2>3. Awaited(calls, shown) => Awaited(calls', shown)
    BY <2>1 DEF Awaited
  <2> QED BY <2>1, <2>2, <2>3, QuietKeeps
<1>6. ASSUME DetailsAnswer(c) \/ DetailsFail(c) PROVE DetailInv'
  <2>1. UNCHANGED <<kind, shown, known, related>> /\ calls' = calls \ {c} /\ c.op = "detail"
    BY <1>6 DEF DetailsAnswer, DetailsFail, Answered, server, ghosts
  <2>2. CASE detail' = detail /\ ~c.live
    <3>1. related' \in [Ids -> Nat] /\ \A i \in Ids : related[i] <= related'[i]
      BY <2>1 DEF DetailInv
    <3>2. Awaited(calls, shown) => Awaited(calls', shown)
      BY <2>1, <2>2 DEF Awaited
    <3> QED BY <2>1, <2>2, <3>1, <3>2, QuietKeeps
  <2>3. CASE detail' = [NoDetail EXCEPT !.state = "failed"]
    <3>1. /\ detail' \in [of : Ids \cup {None}, seen : Nat,
                          state : {"idle", "loading", "ready", "failed"}]
          /\ detail'.state # "ready" /\ detail'.of = None
      BY <2>3 DEF NoDetail
    <3>2. \A d \in calls' : IsCall(d) /\ Fresh(d)'
      BY <2>1 DEF DetailInv, Fresh, Bounded
    <3> QED BY <2>1, <3>1, <3>2 DEF DetailInv, DetailsOfShownRecord
  <2>4. CASE c.live /\ c.state = "ok" /\ detail' = [of |-> c.id, seen |-> c.seen, state |-> "ready"]
    <3>1. c.id \in Ids /\ c.seen \in Nat /\ c.id = shown /\ c.seen >= known[c.id]
      BY <1>1, <2>1, <2>4 DEF Fresh, Bounded, IsCall
    <3>2. /\ detail' \in [of : Ids \cup {None}, seen : Nat,
                          state : {"idle", "loading", "ready", "failed"}]
          /\ detail'.of = shown /\ detail'.seen >= known[shown]
      BY <2>4, <3>1
    <3>3. \A d \in calls' : IsCall(d) /\ Fresh(d)'
      BY <2>1 DEF DetailInv, Fresh, Bounded
    <3> QED BY <2>1, <3>2, <3>3 DEF DetailInv, DetailsOfShownRecord
  <2> QED BY <1>6, <2>2, <2>3, <2>4 DEF DetailsAnswer, DetailsFail, Answered
<1>7. CASE PersonAnswers(c)
  BY <1>2, <1>3, <1>4, <1>5, <1>6, <1>7
  DEF PersonAnswers, PersonListed, PersonSaved, PersonDeleted, PersonRelated, PersonCreated,
      PersonFailed, PersonDetails
<1>8. CASE CompanyAnswers(c)
  BY <1>2, <1>3, <1>4, <1>5, <1>6, <1>8
  DEF CompanyAnswers, CompanyListed, CompanySaved, CompanyDeleted, CompanyRelated,
      CompanyCreated, CompanyFailed, CompanyDetails
<1>9. CASE DealAnswers(c)
  BY <1>2, <1>3, <1>4, <1>5, <1>6, <1>9
  DEF DealAnswers, DealListed, DealSaved, DealDeleted, DealRelated, DealCreated, DealFailed,
      DealDetails
<1>10. CASE TaskAnswers(c)
  BY <1>2, <1>3, <1>5, <1>10
  DEF TaskAnswers, TaskListed, DashboardListed, TaskSaved, TaskDeleted, DashboardSaved,
      DashboardDeleted, TaskFailed
<1> QED BY <1>7, <1>8, <1>9, <1>10 DEF Answers

-----------------------------------------------------------------------------
LEMMA InitDetails == Init => DetailInv
<1> SUFFICES ASSUME Init PROVE DetailInv
  OBVIOUS
<1>1. detail = [of |-> None, seen |-> 0, state |-> "idle"] /\ shown = None /\ calls = {}
  BY DEF Init, NoDetail
<1>2. related \in [Ids -> Nat] /\ known \in [Ids -> Nat] /\ \A id \in Ids : known[id] <= related[id]
  BY DEF Init
<1> QED BY <1>1, <1>2 DEF DetailInv, DetailsOfShownRecord

LEMMA NextKeeps == DetailInv /\ [Next]_vars => DetailInv'
<1> SUFFICES ASSUME DetailInv, [Next]_vars PROVE DetailInv'
  OBVIOUS
<1>1. CASE Clicks
  BY <1>1, ClicksKeep
<1>2. CASE \E c \in calls : Serve(c) \/ Refuse(c) \/ Fail(c) \/ Answers(c)
  BY <1>2, ServeKeeps, AnswersKeep
<1>3. CASE UNCHANGED vars
  BY <1>3 DEF vars, server, sheet, ghosts, DetailInv, DetailsOfShownRecord, Fresh, Bounded
<1> QED BY <1>1, <1>2, <1>3 DEF Next

\* What a sheet shows as linked to its record is linked to it, with everything
\* the user was told of, or a load of that record is under way that will replace
\* it; for a deal the former alone.  For any number of records, requests, clicks
\* and failures (the effects of people-view.tsx, companies-view.tsx and
\* deals-view.tsx, and the counter detailRefresh).
THEOREM SheetsShowTheirRecord == Spec => []DetailsOfShownRecord
<1>1. DetailInv => DetailsOfShownRecord
  BY DEF DetailInv
<1> QED BY <1>1, InitDetails, NextKeeps, PTL DEF Spec

-----------------------------------------------------------------------------
(* Forms.                                                                  *)

\* The forms under way: no load and no dialog makes them void.
Forms(cs) == {c \in cs : c.op = "create"}

\* A form under way was sent from a form that was opened before.
FormsOpened ==
  /\ moves \in Nat /\ form \in Nat /\ form <= moves
  /\ born \in [Ids -> Nat] /\ \A id \in Ids : born[id] <= moves
  /\ \A c \in Forms(calls) : c.data.typed \in Nat \ {0} /\ c.data.typed <= moves

\* It is sent once, and has made a record only if it was answered.
FormsApart ==
  /\ \A c, d \in Forms(calls) : c.data.typed = d.data.typed => c = d \/ c.data.typed \in resent
  /\ \A c \in Forms(calls), id \in Ids :
       c.state # "ok" /\ born[id] = c.data.typed => born[id] \in resent

\* The open form has made no record but one whose answer is still to come.
OpenFormFresh ==
  \A id \in Ids :
    form # 0 /\ born[id] = form =>
      form \in resent \/ \E c \in Forms(calls) : c.data.typed = form

FormInv == FormsOpened /\ FormsApart /\ OpenFormFresh /\ OneRecordPerForm

-----------------------------------------------------------------------------
LEMMA FormsOfVoid ==
  ASSUME NEW cs, \A c \in cs : IsCall(c), NEW op, op # "create"
  PROVE  Forms(Void(cs, op)) = Forms(cs)
<1>1. ASSUME NEW c \in cs, c.op = "create"
      PROVE  [c EXCEPT !.live = c.live /\ c.op # op] = c
  <2>1. (c.live /\ c.op # op) = c.live
    BY <1>1 DEF IsCall
  <2>2. [c EXCEPT !.live = c.live] = c
    BY <1>1 DEF IsCall
  <2> QED BY <2>1, <2>2
<1>2. ASSUME NEW v \in Forms(Void(cs, op)) PROVE v \in Forms(cs)
  <2>1. PICK c \in cs : v = [c EXCEPT !.live = c.live /\ c.op # op]
    BY <1>2 DEF Forms, Void
  <2> DEFINE live == c.live /\ c.op # op
  <2>2. live \in BOOLEAN /\ v = [c EXCEPT !.live = live]
    BY <2>1 DEF IsCall
  <2> HIDE DEF live
  <2>3. v.op = c.op
    BY <2>2, Fields
  <2>4. v.op = "create"
    BY <1>2 DEF Forms
  <2> QED BY <1>1, <2>1, <2>3, <2>4 DEF Forms
<1>3. ASSUME NEW v \in Forms(cs) PROVE v \in Forms(Void(cs, op))
  <2>1. v \in cs /\ v.op = "create"
    BY <1>3 DEF Forms
  <2>2. v = [v EXCEPT !.live = v.live /\ v.op # op]
    BY <1>1, <2>1
  <2> QED BY <2>1, <2>2 DEF Forms, Void
<1> QED BY <1>2, <1>3

LEMMA FormsOfLoads ==
  ASSUME NEW cs, \A c \in cs : IsCall(c), NEW id \in Ids \cup {None}
  PROVE  Forms(Relist(cs)) = Forms(cs) /\ Forms(LoadDetails(cs, id)) = Forms(cs)
<1>1. Forms(Void(cs, "list")) = Forms(cs) /\ Forms(Void(cs, "detail")) = Forms(cs)
  BY FormsOfVoid
<1>2. Load("list", None).op = "list" /\ Load("detail", id).op = "detail"
  BY NewFields DEF IsSent, Ops
<1>3. Forms(Relist(cs)) = Forms(Void(cs, "list"))
  BY <1>2 DEF Forms, Relist
<1>4. Forms(LoadDetails(cs, id)) = Forms(Void(cs, "detail"))
  BY <1>2 DEF Forms, LoadDetails
<1> QED BY <1>1, <1>3, <1>4

\* The loads that follow a change leave requests that are well formed.
LEMMA LoadsAreCalls ==
  ASSUME NEW cs, \A c \in cs : IsCall(c), NEW id \in Ids \cup {None}
  PROVE  (\A v \in Relist(cs) : IsCall(v)) /\ (\A v \in LoadDetails(cs, id) : IsCall(v))
<1>1. IsCall(Load("list", None)) /\ IsCall(Load("detail", id))
  BY NewFields DEF IsSent, Ops
<1> QED BY <1>1, VoidIsCall DEF Relist, LoadDetails

-----------------------------------------------------------------------------
\* No form is sent, answered or done with.
LEMMA FormsStay ==
  ASSUME FormInv, Forms(calls') = Forms(calls), UNCHANGED <<born, resent>>,
         \/ moves' = moves /\ form' \in {form, 0}
         \/ moves' = moves + 1 /\ form' \in {form, 0, moves'}
  PROVE  FormInv'
<1>1. moves' \in Nat /\ moves <= moves' /\ form' \in Nat /\ form' <= moves'
  BY DEF FormInv, FormsOpened
<1>2. FormsOpened'
  BY <1>1 DEF FormInv, FormsOpened
<1>3. FormsApart' /\ OneRecordPerForm'
  BY DEF FormInv, FormsApart, OneRecordPerForm
<1>4. ASSUME NEW id \in Ids, form' # 0, born[id] = form'
      PROVE  form' \in resent \/ \E c \in Forms(calls) : c.data.typed = form'
  <2>1. form' = form
    BY <1>4 DEF FormInv, FormsOpened
  <2> QED BY <1>4, <2>1 DEF FormInv, OpenFormFresh
<1> QED BY <1>2, <1>3, <1>4 DEF FormInv, OpenFormFresh

\* A form is done with: it was refused, or its record is shown.
LEMMA FormDone ==
  ASSUME FormInv, NEW c \in Forms(calls), Forms(calls') = Forms(calls) \ {c},
         UNCHANGED <<born, resent, moves>>,
         \/ form' = 0
         \/ form' = form /\ c.state # "ok"
  PROVE  FormInv'
<1>1. FormsOpened'
  BY DEF FormInv, FormsOpened
<1>2. FormsApart' /\ OneRecordPerForm'
  BY DEF FormInv, FormsApart, OneRecordPerForm
<1>3. ASSUME NEW id \in Ids, form' # 0, born[id] = form', form' \notin resent
      PROVE  \E d \in Forms(calls) \ {c} : d.data.typed = form'
  <2>1. PICK d \in Forms(calls) : d.data.typed = form
    BY <1>3 DEF FormInv, OpenFormFresh
  <2>2. d # c
    BY <1>3, <2>1 DEF FormInv, FormsApart
  <2> QED BY <1>3, <2>1, <2>2
<1> QED BY <1>1, <1>2, <1>3 DEF FormInv, OpenFormFresh

\* A form goes on, without a record of its own.
LEMMA FormGoesOn ==
  ASSUME FormInv, NEW c \in Forms(calls), NEW new, new.op = "create", new.data = c.data,
         calls' = (calls \ {c}) \cup {new}, UNCHANGED <<born, moves, form>>,
         resent \subseteq resent',
         c.state = "ok" => c.data.typed \in resent'
  PROVE  FormInv'
<1>1. Forms(calls') = (Forms(calls) \ {c}) \cup {new}
  BY DEF Forms
<1>2. FormsOpened'
  BY <1>1 DEF FormInv, FormsOpened
<1>3. FormsApart'
  BY <1>1 DEF FormInv, FormsApart
<1>4. OneRecordPerForm'
  BY DEF FormInv, OneRecordPerForm
<1>5. OpenFormFresh'
  BY <1>1 DEF FormInv, OpenFormFresh
<1> QED BY <1>2, <1>3, <1>4, <1>5 DEF FormInv

\* A form makes its record.
LEMMA FormServed ==
  ASSUME FormInv, NEW c \in Forms(calls), c.state = "sent", NEW new, new.op = "create",
         new.data = c.data, new.state = "ok", calls' = (calls \ {c}) \cup {new},
         NEW id \in Ids, born' = [born EXCEPT ![id] = c.data.typed],
         UNCHANGED <<moves, form, resent>>
  PROVE  FormInv'
<1>1. Forms(calls') = (Forms(calls) \ {c}) \cup {new}
  BY DEF Forms
<1>2. /\ c.data.typed \in Nat \ {0} /\ c.data.typed <= moves
      /\ \A i \in Ids : born[i] = c.data.typed => born[i] \in resent
  BY DEF FormInv, FormsOpened, FormsApart
<1>3. /\ born' \in [Ids -> Nat]
      /\ \A i \in Ids : born'[i] = IF i = id THEN c.data.typed ELSE born[i]
  BY <1>2 DEF FormInv, FormsOpened
<1>4. FormsOpened'
  BY <1>1, <1>2, <1>3 DEF FormInv, FormsOpened
<1>5. FormsApart'
  <2>1. \A d, e \in Forms(calls') : d.data.typed = e.data.typed => d = e \/ d.data.typed \in resent'
    BY <1>1 DEF FormInv, FormsApart
  <2>2. ASSUME NEW d \in Forms(calls'), NEW i \in Ids, d.state # "ok", born'[i] = d.data.typed
        PROVE  born'[i] \in resent'
    <3>1. d \in Forms(calls) /\ d # c
      BY <1>1, <2>2
    <3>2. CASE i = id
      <4>1. d.data.typed = c.data.typed
        BY <1>3, <2>2, <3>2
      <4>2. c.data.typed \in resent
        BY <3>1, <4>1 DEF FormInv, FormsApart
      <4> QED BY <1>3, <3>2, <4>2
    <3>3. CASE i # id
      <4>1. born[i] = d.data.typed
        BY <1>3, <2>2, <3>3
      <4>2. born[i] \in resent
        BY <2>2, <3>1, <4>1 DEF FormInv, FormsApart
      <4> QED BY <1>3, <3>3, <4>2
    <3> QED BY <3>2, <3>3
  <2> QED BY <2>1, <2>2 DEF FormsApart
<1>6. OneRecordPerForm'
  BY <1>2, <1>3 DEF FormInv, OneRecordPerForm
<1>7. OpenFormFresh'
  BY <1>1, <1>3 DEF FormInv, OpenFormFresh
<1> QED BY <1>4, <1>5, <1>6, <1>7 DEF FormInv

-----------------------------------------------------------------------------
LEMMA SubmitKeeps ==
  ASSUME FormInv, DetailInv, Submit
  PROVE  FormInv'
<1> DEFINE s == Send("create", None, [NoRow EXCEPT !.typed = form])
<1>1. s.op = "create" /\ s.state = "sent" /\ s.data.typed = form
  BY NewFields, SentData DEF Ops, IsSent, NoRow
<1>2. /\ calls' = calls \cup {s} /\ form # 0 /\ moves' = moves + 1 /\ UNCHANGED <<born, form>>
      /\ resent' = IF \E c \in calls : c.op = "create" /\ c.data.typed = form
                     THEN resent \cup {form} ELSE resent
  BY DEF Submit, Move
<1> HIDE DEF s
<1>3. Forms(calls') = Forms(calls) \cup {s}
  BY <1>1, <1>2 DEF Forms
<1>4. resent \subseteq resent' /\ (\A c \in Forms(calls) : c.data.typed = form => form \in resent')
  BY <1>2 DEF Forms
<1>5. FormsOpened'
  BY <1>1, <1>2, <1>3 DEF FormInv, FormsOpened
<1>6. FormsApart'
  <2>1. ASSUME NEW c \in Forms(calls'), NEW d \in Forms(calls'), c.data.typed = d.data.typed
        PROVE  c = d \/ c.data.typed \in resent'
    BY <1>1, <1>3, <1>4, <2>1 DEF FormInv, FormsApart
  <2>2. ASSUME NEW c \in Forms(calls'), NEW id \in Ids, c.state # "ok", born[id] = c.data.typed
        PROVE  born[id] \in resent'
    BY <1>1, <1>2, <1>3, <1>4, <2>2 DEF FormInv, FormsApart, OpenFormFresh
  <2> QED BY <1>2, <2>1, <2>2 DEF FormsApart
<1>7. OpenFormFresh' /\ OneRecordPerForm'
  BY <1>1, <1>2, <1>3, <1>4 DEF FormInv, OpenFormFresh, OneRecordPerForm
<1> QED BY <1>5, <1>6, <1>7 DEF FormInv

\* A click that has nothing to do with a form for a new record.
NoForm ==
  /\ Forms(calls') = Forms(calls) /\ UNCHANGED <<born, resent, form>> /\ moves' = moves + 1

LEMMA WriteNoForm ==
  ASSUME DetailInv, NEW op \in Writes, NEW data, Write(op, data)
  PROVE  NoForm
<1>1. op \in Ops /\ op # "create" /\ shown \in Ids \cup {None}
  BY DEF DetailInv, Ops, Writes
<1>2. Send(op, shown, data).op = op
  BY <1>1, NewFields DEF IsSent
<1> QED BY <1>1, <1>2 DEF Write, NoForm, Forms, Move

LEMMA RelateNoForm ==
  ASSUME DetailInv, NEW op \in Relations, NEW id \in Ids \cup {None}, Relate(op, id)
  PROVE  NoForm
<1>1. op \in Ops /\ op # "create"
  BY DEF Ops, Relations
<1>2. Request(op, id).op = op
  BY <1>1, NewFields DEF IsSent
<1> QED BY <1>1, <1>2 DEF Relate, NoForm, Forms, Move, ghosts

LEMMA ShowNoForm ==
  ASSUME DetailInv, Close \/ \E id \in Ids : Select(id)
  PROVE  NoForm
<1>1. \A c \in calls : IsCall(c)
  BY DEF DetailInv
<1>2. CASE Close
  <2>1. /\ calls' = Void(LoadDetails(calls, None), "delete") /\ moves' = moves + 1
        /\ UNCHANGED <<born, resent, form>>
    BY <1>2 DEF Close, Move, ghosts
  <2>2. Forms(LoadDetails(calls, None)) = Forms(calls)
    BY <1>1, FormsOfLoads
  <2>3. \A v \in LoadDetails(calls, None) : IsCall(v)
    BY <1>1, LoadsAreCalls
  <2>4. Forms(calls') = Forms(LoadDetails(calls, None))
    BY <2>1, <2>3, FormsOfVoid
  <2> QED BY <2>1, <2>2, <2>4 DEF NoForm
<1>3. CASE \E id \in Ids : Select(id)
  BY <1>1, <1>3, FormsOfLoads DEF Select, Move, NoForm
<1> QED BY <1>2, <1>3

LEMMA VoidNoForm ==
  ASSUME DetailInv, calls' \in {calls, Void(calls, "delete")}, UNCHANGED <<born, resent, form>>, Move
  PROVE  NoForm
BY FormsOfVoid DEF DetailInv, NoForm, Move

LEMMA FormClicks ==
  ASSUME DetailInv, Clicks
  PROVE  NoForm \/ OpenForm \/ CloseForm \/ Submit
<1>1. ASSUME Save \/ Toggle \/ Delete PROVE NoForm
  BY <1>1, WriteNoForm DEF Save, Toggle, Delete, Writes
<1>2. ASSUME NEW op \in Relations, NEW id \in {shown, detail.of}, Relate(op, id) PROVE NoForm
  BY <1>2, RelateNoForm DEF DetailInv
<1>3. ASSUME NEW id \in Ids, Select(id) PROVE NoForm
  BY <1>3, ShowNoForm
<1>4. CASE Close \/ ComposeActivity \/ ChangeActivity
  BY <1>2, <1>4, ShowNoForm DEF ComposeActivity, ChangeActivity, Relations
<1>5. CASE PersonClicks
  <2>1. ASSUME EditPerson \/ CancelPerson PROVE NoForm
    BY <2>1, VoidNoForm DEF EditPerson, CancelPerson, ghosts
  <2>2. ASSUME \/ LinkPersonCompany \/ CreatePersonCompany \/ UnlinkPersonCompany
               \/ CreatePersonTask \/ TogglePersonTask
        PROVE NoForm
    <3>1. \E op \in Relations : Relate(op, shown)
      BY <2>2 DEF LinkPersonCompany, CreatePersonCompany, UnlinkPersonCompany, CreatePersonTask,
                  TogglePersonTask, Relations
    <3> QED BY <3>1, <1>2
  <2> QED BY <1>1, <1>3, <1>5, <2>1, <2>2
          DEF PersonClicks, SelectPerson, SavePerson, TogglePerson, DeletePerson, PersonForm
<1>6. CASE CompanyClicks
  <2>1. ASSUME EditCompany \/ CancelCompany PROVE NoForm
    BY <2>1, VoidNoForm DEF EditCompany, CancelCompany, ghosts
  <2>2. ASSUME CreateCompanyTask \/ ToggleCompanyTask PROVE NoForm
    BY <2>2, <1>2 DEF CreateCompanyTask, ToggleCompanyTask, Relations
  <2> QED BY <1>1, <1>3, <1>6, <2>1, <2>2
          DEF CompanyClicks, SelectCompany, SaveCompany, DeleteCompany, CompanyForm
<1>7. CASE DealClicks
  <2>1. ASSUME OpenDeal PROVE NoForm
    BY <2>1, VoidNoForm DEF OpenDeal, ghosts
  <2>2. ASSUME \/ LinkDealPerson \/ LinkDealCompany \/ UnlinkDealPerson \/ UnlinkDealCompany
               \/ CreateDealTask \/ EditDealTask
        PROVE NoForm
    <3>1. \E op \in Relations : Relate(op, shown)
      BY <2>2 DEF LinkDealPerson, LinkDealCompany, UnlinkDealPerson, UnlinkDealCompany,
                  CreateDealTask, EditDealTask, Relations
    <3> QED BY <3>1, <1>2
  <2> QED BY <1>1, <1>3, <1>7, <2>1, <2>2
          DEF DealClicks, SelectDeal, SaveDeal, DeleteDeal, DealForm
<1>8. CASE TaskClicks
  <2>1. ASSUME OpenTask PROVE NoForm
    BY <2>1, VoidNoForm DEF OpenTask, ghosts
  <2>2. ASSUME \/ SaveTask \/ ToggleTask \/ DeleteTask
               \/ LinkTaskPerson \/ LinkTaskCompany \/ LinkTaskDeal \/ UnlinkTask
        PROVE NoForm
    BY <2>2, <1>1 DEF SaveTask, ToggleTask, DeleteTask, LinkTaskPerson, LinkTaskCompany,
                      LinkTaskDeal, UnlinkTask
  <2> QED BY <1>3, <1>8, <2>1, <2>2 DEF TaskClicks, SelectTask, SelectDashboardTask
<1> QED BY <1>4, <1>5, <1>6, <1>7, <1>8 DEF Clicks

LEMMA ClicksKeepForms ==
  ASSUME FormInv, DetailInv, Clicks
  PROVE  FormInv'
<1>1. CASE NoForm
  BY <1>1, FormsStay DEF NoForm
<1>2. CASE OpenForm \/ CloseForm
  <2>1. /\ calls' = calls /\ UNCHANGED <<born, resent>> /\ moves' = moves + 1
        /\ form' \in {form, 0, moves'}
    BY <1>2 DEF OpenForm, CloseForm, Move, ghosts
  <2> QED BY <2>1, FormsStay
<1> QED BY <1>1, <1>2, FormClicks, SubmitKeeps

-----------------------------------------------------------------------------
\* A request that is no form is answered by the server, refused or lost.
LEMMA ServedNoForm ==
  ASSUME FormInv, NEW c \in calls, c.op # "create", NEW new, new.op = c.op,
         calls' = (calls \ {c}) \cup {new}, UNCHANGED <<born, resent, moves, form>>
  PROVE  FormInv'
<1>1. Forms(calls') = Forms(calls)
  BY DEF Forms
<1> QED BY <1>1, FormsStay

\* A request is lost or refused.
LEMMA ErrorKeepsForms ==
  ASSUME FormInv, DetailInv, NEW c \in calls, Refuse(c) \/ Fail(c)
  PROVE  FormInv'
<1> DEFINE new == [c EXCEPT !.state = "error"]
<1>1. new.op = c.op /\ new.data = c.data
  BY Fields DEF DetailInv
<1>2. calls' = (calls \ {c}) \cup {new} /\ UNCHANGED <<born, moves, form>>
  BY DEF Refuse, Fail, Becomes, ghosts
<1> HIDE DEF new
<1>3. CASE c.op = "create"
  <2>1. resent' = IF c.state = "ok" THEN resent \cup {c.data.typed} ELSE resent
    BY <1>3 DEF Refuse, Fail, Relations
  <2>2. c \in Forms(calls)
    BY <1>3 DEF Forms
  <2> QED BY <1>1, <1>2, <1>3, <2>1, <2>2, FormGoesOn
<1>4. CASE c.op # "create"
  <2>1. resent' = resent
    BY <1>4 DEF Refuse, Fail, ghosts
  <2> QED BY <1>1, <1>2, <1>4, <2>1, ServedNoForm
<1> QED BY <1>3, <1>4

LEMMA ServeKeepsForms ==
  ASSUME FormInv, DetailInv, NEW c \in calls, Serve(c)
  PROVE  FormInv'
<1>1. IsCall(c) /\ Bounded(c) /\ related \in [Ids -> Nat]
  BY DEF DetailInv, Fresh
<1>2. CASE ServeSave(c) \/ ServeDelete(c)
  <2>1. /\ calls' = (calls \ {c}) \cup {[c EXCEPT !.state = "ok"]} /\ c.op # "create"
        /\ UNCHANGED <<born, resent, moves, form>>
    BY <1>2 DEF ServeSave, ServeDelete, Served, Becomes, ghosts
  <2> DEFINE new == [c EXCEPT !.state = "ok"]
  <2>2. new.op = c.op
    BY <1>1, Fields
  <2> HIDE DEF new
  <2> QED BY <2>1, <2>2, ServedNoForm DEF new
<1>3. CASE ServeRelate(c) \/ ServeDetails(c)
  <2>1. PICK n : /\ calls' = (calls \ {c}) \cup {[c EXCEPT !.state = "ok", !.seen = n]}
                 /\ n \in {related[c.id], related[c.id] + 1}
    BY <1>3 DEF ServeRelate, ServeDetails
  <2>2. /\ c.op \in Relations \cup {"detail"} /\ c.op # "create"
        /\ UNCHANGED <<born, resent, moves, form>>
    BY <1>3 DEF ServeRelate, ServeDetails, Relations, ghosts
  <2>3. n \in Nat
    BY <1>1, <2>1, <2>2 DEF Bounded
  <2>4. PICK new : Brings(new, c, n)
    BY <1>1, <2>3, AnsweredSeen
  <2>5. calls' = (calls \ {c}) \cup {new} /\ new.op = c.op
    BY <2>1, <2>4 DEF Brings
  <2> QED BY <2>2, <2>5, ServedNoForm
<1>4. CASE ServeList(c)
  <2> DEFINE mid == [c EXCEPT !.state = "ok"]
  <2>1. IsCall(mid) /\ mid.op = "list" /\ c.op = "list"
    BY <1>1, <1>4, Fields DEF ServeList
  <2>2. calls' = (calls \ {c}) \cup {[mid EXCEPT !.page = Page]}
        /\ UNCHANGED <<born, resent, moves, form>>
    BY <1>4 DEF ServeList, ghosts
  <2> HIDE DEF mid
  <2>3. PICK new : new = [mid EXCEPT !.page = Page]
    OBVIOUS
  <2>4. new.op = c.op
    BY <2>1, <2>3, PageField
  <2> QED BY <2>1, <2>2, <2>3, <2>4, ServedNoForm
<1>5. CASE ServeCreate(c)
  <2>1. PICK id \in Ids :
           /\ calls' = (calls \ {c}) \cup {[[c EXCEPT !.state = "ok"] EXCEPT !.id = id]}
           /\ born' = [born EXCEPT ![id] = c.data.typed]
    BY <1>5 DEF ServeCreate
  <2> DEFINE mid == [c EXCEPT !.state = "ok"]
  <2>2. /\ IsCall(mid) /\ mid.op = "create" /\ mid.data = c.data /\ mid.state = "ok"
        /\ c.op = "create"
    BY <1>1, <1>5, Fields DEF ServeCreate
  <2>3. calls' = (calls \ {c}) \cup {[mid EXCEPT !.id = id]}
    BY <2>1
  <2> HIDE DEF mid
  <2>4. PICK new : new = [mid EXCEPT !.id = id]
    OBVIOUS
  <2>5. new.op = "create" /\ new.data = c.data /\ new.state = "ok"
    BY <2>2, <2>4, IdField
  <2>6. UNCHANGED <<moves, form, resent>> /\ c.state = "sent" /\ c \in Forms(calls)
    BY <1>5, <2>2 DEF Serve, ServeCreate, Forms
  <2> QED BY <2>1, <2>3, <2>4, <2>5, <2>6, FormServed
<1> QED BY <1>2, <1>3, <1>4, <1>5 DEF Serve

LEMMA AnswersKeepForms ==
  ASSUME FormInv, DetailInv, NEW c \in calls, Answers(c)
  PROVE  FormInv'
<1> DEFINE others == calls \ {c}
<1>1. \A d \in others : IsCall(d)
  BY DEF DetailInv
<1>2. c.id \in Ids \cup {None} /\ shown \in Ids \cup {None}
  BY DEF DetailInv, IsCall
<1>3. c.op # "create" => Forms(others) = Forms(calls)
  BY DEF Forms
<1>4. c.op = "create" => c \in Forms(calls) /\ Forms(others) = Forms(calls) \ {c}
  BY DEF Forms
<1> HIDE DEF others
<1>5. \A id \in Ids \cup {None} : Forms(LoadDetails(Relist(others), id)) = Forms(others)
  BY <1>1, FormsOfLoads, LoadsAreCalls
<1>6. ASSUME Saved(c) PROVE FormInv'
  <2>1. /\ calls' = LoadDetails(Relist(others), c.id) /\ c.op # "create"
        /\ UNCHANGED <<born, resent, moves, form>>
    BY <1>6 DEF Saved, Answered, ghosts, others
  <2> QED BY <1>2, <1>3, <1>5, <2>1, FormsStay
<1>7. ASSUME Deleted(c) PROVE FormInv'
  <2>1. /\ calls' = Void(LoadDetails(Relist(others), None), "delete") /\ c.op # "create"
        /\ UNCHANGED <<born, resent, moves, form>>
    BY <1>7 DEF Deleted, Answered, ghosts, others
  <2>2. \A d \in LoadDetails(Relist(others), None) : IsCall(d)
    BY <1>1, LoadsAreCalls
  <2>3. Forms(calls') = Forms(LoadDetails(Relist(others), None))
    BY <2>1, <2>2, FormsOfVoid
  <2> QED BY <1>3, <1>5, <2>1, <2>3, FormsStay
<1>8. ASSUME Related(c) PROVE FormInv'
  <2>1. /\ calls' = LoadDetails(others, shown) /\ c.op # "create"
        /\ UNCHANGED <<born, resent, moves, form>>
    BY <1>8 DEF Related, Answered, Relations, others
  <2> QED BY <1>1, <1>2, <1>3, <2>1, FormsOfLoads, FormsStay
<1>9. ASSUME Created(c) PROVE FormInv'
  <2>1. /\ calls' = LoadDetails(Relist(others), c.id) /\ c.op = "create"
        /\ UNCHANGED <<born, resent, moves>> /\ form' = 0
    BY <1>9 DEF Created, Answered, ghosts, others
  <2> QED BY <1>2, <1>4, <1>5, <2>1, FormDone
<1>10. ASSUME Failed(c) PROVE FormInv'
  <2>1. calls' = others /\ UNCHANGED <<born, resent, moves, form>> /\ c.state # "ok"
    BY <1>10 DEF Failed, ghosts, others
  <2>2. CASE c.op = "create"
    BY <1>4, <2>1, <2>2, FormDone
  <2>3. CASE c.op # "create"
    BY <1>3, <2>1, <2>3, FormsStay
  <2> QED BY <2>2, <2>3
<1>11. ASSUME ListAnswers(c) \/ DetailsAnswer(c) \/ DetailsFail(c) PROVE FormInv'
  <2>1. calls' = others /\ UNCHANGED <<born, resent, moves, form>> /\ c.op # "create"
    BY <1>11 DEF ListAnswers, DetailsAnswer, DetailsFail, Answered, ghosts, others
  <2> QED BY <1>3, <2>1, FormsStay
<1>12. CASE PersonAnswers(c)
  BY <1>6, <1>7, <1>8, <1>9, <1>10, <1>11, <1>12
  DEF PersonAnswers, PersonListed, PersonSaved, PersonDeleted, PersonRelated, PersonCreated,
      PersonFailed, PersonDetails
<1>13. CASE CompanyAnswers(c)
  BY <1>6, <1>7, <1>8, <1>9, <1>10, <1>11, <1>13
  DEF CompanyAnswers, CompanyListed, CompanySaved, CompanyDeleted, CompanyRelated,
      CompanyCreated, CompanyFailed, CompanyDetails
<1>14. CASE DealAnswers(c)
  BY <1>6, <1>7, <1>8, <1>9, <1>10, <1>11, <1>14
  DEF DealAnswers, DealListed, DealSaved, DealDeleted, DealRelated, DealCreated, DealFailed,
      DealDetails
<1>15. CASE TaskAnswers(c)
  BY <1>6, <1>7, <1>10, <1>11, <1>15
  DEF TaskAnswers, TaskListed, DashboardListed, TaskSaved, TaskDeleted, DashboardSaved,
      DashboardDeleted, TaskFailed
<1> QED BY <1>12, <1>13, <1>14, <1>15 DEF Answers

-----------------------------------------------------------------------------
LEMMA InitForms == Init => FormInv
BY DEF Init, FormInv, FormsOpened, FormsApart, OpenFormFresh, OneRecordPerForm, Forms

LEMMA NextKeepsForms == FormInv /\ DetailInv /\ [Next]_vars => FormInv'
<1> SUFFICES ASSUME FormInv, DetailInv, [Next]_vars PROVE FormInv'
  OBVIOUS
<1>1. CASE Clicks
  BY <1>1, ClicksKeepForms
<1>2. CASE \E c \in calls : Serve(c) \/ Refuse(c) \/ Fail(c) \/ Answers(c)
  BY <1>2, ServeKeepsForms, ErrorKeepsForms, AnswersKeepForms
<1>3. CASE UNCHANGED vars
  BY <1>3, FormsStay DEF vars, ghosts
<1> QED BY <1>1, <1>2, <1>3 DEF Next

\* A form makes one record, unless it is sent again while it is under way or
\* after an answer that was lost, for any number of records, requests, clicks
\* and failures (the dialogs of the pages for a new person, company or deal).
THEOREM FormsMakeOne == Spec => []OneRecordPerForm
<1>1. FormInv => OneRecordPerForm
  BY DEF FormInv
<1> QED BY <1>1, InitDetails, NextKeeps, InitForms, NextKeepsForms, PTL DEF Spec

-----------------------------------------------------------------------------
(* What the user wrote and deleted.                                         *)

\* A copy has all that another has.
AtLeast(r, q) == r.typed >= q.typed /\ r.flag >= q.flag

\* What a change can have written so far.
RowSoFar == [typed : 0..moves, flag : 0..moves]

\* The server has saved, or deleted, and the page does not know yet.
Wrote(id) == \E c \in calls : c.op \in {"save", "toggle"} /\ c.id = id /\ c.state = "ok"
Dropped(id) == \E c \in calls : c.op = "delete" /\ c.id = id /\ c.state = "ok"

\* What a request carries.
Carries(c) ==
  /\ IsCall(c)
  /\ c.op \in Writes => c.id \in Ids
  /\ c.op = "create" /\ c.state = "ok" => c.id \in Ids
  /\ c.op \in {"save", "toggle", "create"} => c.data \in RowSoFar
  /\ c.op = "list" => c.page.ids \in SUBSET Ids /\ c.page.rows \in [Ids -> RowSoFar]

RowTypes ==
  /\ kind \in Kinds /\ moves \in Nat
  /\ life \in [Ids -> {"new", "alive", "gone"}]
  /\ rows \in [Ids -> RowSoFar] /\ drafts \in [Ids -> RowSoFar]
  /\ row \in RowSoFar
  /\ list.ids \in SUBSET Ids /\ list.rows \in [Ids -> RowSoFar] /\ list.shown \in BOOLEAN
  /\ shown \in Ids \cup {None} /\ editing \in Ids \cup {None}
  /\ form \in 0..moves

CallTypes == \A c \in calls : Carries(c)

\* A record that was not made yet is nowhere.
Unknown(id) ==
  life[id] = "new" => id \notin list.ids /\ shown # id /\ editing # id /\ rows[id] = NoRow
Unasked(id) ==
  life[id] = "new" => \A c \in calls : c.id # id /\ (c.op = "list" => id \notin c.page.ids)

\* The writes of a record do not cross: there is one at a time, and none while
\* the form that made it waits.
WritesApart(id) ==
  /\ \A c, d \in calls : c.op \in Writes /\ d.op \in Writes /\ c.id = id /\ d.id = id => c = d
  /\ \A c \in calls : c.op \in {"save", "toggle"} /\ c.id = id =>
       /\ c.state \in {"sent", "ok"} => AtLeast(c.data, rows[id])
       /\ c.state = "ok" => life[id] = "alive"
  /\ \A c \in calls : c.op = "create" /\ c.id = id /\ c.state = "ok" =>
       /\ AtLeast(c.data, rows[id]) /\ life[id] = "alive"
       /\ \A d \in calls : d.op \in Writes => d.id # id

\* What a page has of a record is what the server has, but for a write whose
\* answer is still to come.
UpToDate(id, p) ==
  id \in p.ids => /\ Wrote(id) \/ AtLeast(p.rows[id], rows[id])
                  /\ Dropped(id) \/ life[id] = "alive"

ListUpToDate(id) ==
  /\ list.shown => Loading \/ UpToDate(id, list)
  /\ \A c \in calls : c.op = "list" /\ c.live /\ c.state = "ok" => UpToDate(id, c.page)

\* So is what the sheet has of it, and its form.
Edited == IF FormOfObject THEN shown ELSE editing

SheetUpToDate(id) ==
  /\ shown = id => /\ Wrote(id) \/ AtLeast(row, rows[id])
                   /\ Dropped(id) \/ life[id] # "gone"
  /\ Edited = id => Wrote(id) \/ AtLeast(drafts[id], rows[id])
  /\ ~FormOfObject /\ editing = id => \A c \in calls : c.op = "toggle" => c.id # id

RecordInv ==
  /\ RowTypes /\ CallTypes
  /\ \A id \in Ids : Unknown(id) /\ Unasked(id)
  /\ \A id \in Ids \ crossed : WritesApart(id) /\ ListUpToDate(id) /\ SheetUpToDate(id)

-----------------------------------------------------------------------------
\* A request that some load, or the end of a dialog, may have made void.
Voided(c, ops) == [c EXCEPT !.live = c.live /\ c.op \notin ops]

LEMMA VoidedFields ==
  ASSUME NEW c, IsCall(c), NEW ops
  PROVE  /\ IsCall(Voided(c, ops))
         /\ Voided(c, ops).op = c.op /\ Voided(c, ops).id = c.id
         /\ Voided(c, ops).data = c.data /\ Voided(c, ops).state = c.state
         /\ Voided(c, ops).page = c.page /\ Voided(c, ops).n = c.n
         /\ Voided(c, ops).live = (c.live /\ c.op \notin ops)
<1> DEFINE live == c.live /\ c.op \notin ops
<1>1. live \in BOOLEAN /\ Voided(c, ops) = [c EXCEPT !.live = live]
  BY DEF IsCall, Voided
<1>2. live = (c.live /\ c.op \notin ops)
  OBVIOUS
<1> HIDE DEF live
<1>3. LET v == [c EXCEPT !.live = live]
      IN  /\ IsCall(v) /\ v.op = c.op /\ v.id = c.id /\ v.data = c.data /\ v.state = c.state
          /\ v.page = c.page /\ v.n = c.n /\ v.live = live
  BY <1>1 DEF IsCall
<1> QED BY <1>1, <1>2, <1>3

LEMMA VoidedTwice ==
  ASSUME NEW c, IsCall(c), NEW a, NEW b
  PROVE  Voided(Voided(c, a), b) = Voided(c, a \cup b)
<1> DEFINE one == c.live /\ c.op \notin a
<1> DEFINE both == c.live /\ c.op \notin a \cup b
<1>1. Voided(c, a) = [c EXCEPT !.live = one] /\ one \in BOOLEAN
  BY DEF Voided, IsCall
<1>2. Voided(c, a).live = one /\ Voided(c, a).op = c.op
  BY VoidedFields
<1>3. (Voided(c, a).live /\ Voided(c, a).op \notin b) = both
  BY <1>2 DEF IsCall
<1>4. Voided(Voided(c, a), b) = [Voided(c, a) EXCEPT !.live = both]
  BY <1>3 DEF Voided
<1>5. Voided(c, a \cup b) = [c EXCEPT !.live = both]
  BY DEF Voided
<1> HIDE DEF one, both
<1> QED BY <1>1, <1>4, <1>5

LEMMA NotVoided ==
  ASSUME NEW c, IsCall(c), NEW ops, c.op \notin ops
  PROVE  Voided(c, ops) = c
<1>1. (c.live /\ c.op \notin ops) = c.live
  BY DEF IsCall
<1>2. [c EXCEPT !.live = c.live] = c
  BY DEF IsCall
<1> QED BY <1>1, <1>2 DEF Voided

\* What becomes of requests: some are voided, and others are new.
Carried(cs, ops, news) == {Voided(c, ops) : c \in cs} \cup news

LEMMA CarriedSame ==
  ASSUME NEW cs, \A c \in cs : IsCall(c), NEW news
  PROVE  cs \cup news = Carried(cs, {}, news)
<1>1. \A c \in cs : Voided(c, {}) = c
  BY NotVoided
<1> QED BY <1>1 DEF Carried

LEMMA CarriedVoid ==
  ASSUME NEW cs, \A c \in cs : IsCall(c), NEW a, NEW news, \A n \in news : IsCall(n), NEW op
  PROVE  Void(Carried(cs, a, news), op) = Carried(cs, a \cup {op}, Void(news, op))
<1>1. \A v : Void({v}, op) = {Voided(v, {op})}
  BY DEF Void, Voided
<1>2. \A vs : Void(vs, op) = {Voided(v, {op}) : v \in vs}
  BY DEF Void, Voided
<1>3. \A c \in cs : Voided(Voided(c, a), {op}) = Voided(c, a \cup {op})
  BY VoidedTwice
<1> QED BY <1>2, <1>3 DEF Carried

LEMMA VoidCarried ==
  ASSUME NEW cs, NEW op
  PROVE  Void(cs, op) = Carried(cs, {op}, {})
<1>1. \A c : [c EXCEPT !.live = c.live /\ c.op # op] = Voided(c, {op})
  <2>1. TAKE c
  <2>2. (c.live /\ c.op # op) = (c.live /\ c.op \notin {op})
    OBVIOUS
  <2> QED BY <2>2 DEF Voided
<1>2. Void(cs, op) = {Voided(c, {op}) : c \in cs}
  BY <1>1 DEF Void
<1> QED BY <1>2 DEF Carried

\* A load that is sent anew, of the list or of what is linked to a record.
IsLoad(n, id) ==
  /\ n.page = NoPage /\ n.live
  /\ IsSent(n, "list", None) \/ (id \in Ids /\ IsSent(n, "detail", id))

\* What a new request has besides.
LEMMA NewPages ==
  ASSUME NEW op, NEW id
  PROVE  /\ Request(op, id).page = NoPage
         /\ \A data : Send(op, id, data).page = NoPage
         /\ Load(op, id).page = NoPage /\ Load(op, id).live
BY DEF Request, Send, Load

LEMMA LoadDetailsCarried ==
  ASSUME NEW cs, NEW id \in Ids \cup {None}
  PROVE  \E news : /\ LoadDetails(cs, id) = Carried(cs, {"detail"}, news)
                   /\ \A n \in news : IsLoad(n, id) /\ n.op = "detail"
<1> DEFINE news == IF id # None /\ Detailed THEN {Load("detail", id)} ELSE {}
<1>1. LoadDetails(cs, id) = Carried(cs, {"detail"}, news)
  BY VoidCarried DEF LoadDetails, Carried
<1>2. \A n \in news : IsLoad(n, id) /\ n.op = "detail"
  BY NewFields, NewPages DEF Ops, IsLoad, IsSent
<1> QED BY <1>1, <1>2

\* The list is read again, and the details of what is shown.
Anew(news, id) == (\E n \in news : n.op = "list" /\ n.live) /\ \A n \in news : IsLoad(n, id)

LEMMA RelistCarried ==
  ASSUME NEW cs, \A c \in cs : IsCall(c), NEW id \in Ids \cup {None}
  PROVE  \E news : /\ LoadDetails(Relist(cs), id) = Carried(cs, {"list", "detail"}, news)
                   /\ Anew(news, id)
<1> DEFINE load == Load("list", None)
<1>1. IsSent(load, "list", None) /\ IsCall(load) /\ load.op = "list" /\ IsLoad(load, id)
  <2>1. IsSent(load, "list", None)
    BY NewFields DEF Ops
  <2>2. load.page = NoPage /\ load.live
    BY NewPages
  <2> QED BY <2>1, <2>2 DEF IsSent, IsLoad
<1>2. Relist(cs) = Carried(cs, {"list"}, {load})
  BY VoidCarried DEF Relist, Carried
<1> HIDE DEF load
<1>3. Void({load}, "detail") = {load}
  <2>1. Void({load}, "detail") = Carried({load}, {"detail"}, {})
    BY VoidCarried
  <2>2. Voided(load, {"detail"}) = load
    BY <1>1, NotVoided
  <2> QED BY <2>1, <2>2 DEF Carried
<1>4. PICK more : /\ LoadDetails(Relist(cs), id) = Carried(Relist(cs), {"detail"}, more)
                  /\ \A n \in more : IsLoad(n, id) /\ n.op = "detail"
  BY LoadDetailsCarried
<1>5. Carried(Relist(cs), {"detail"}, {}) = Carried(cs, {"list", "detail"}, {load})
  <2>1. Carried(Relist(cs), {"detail"}, {}) = Void(Relist(cs), "detail")
    BY VoidCarried
  <2>2. \A n \in {load} : IsCall(n)
    BY <1>1
  <2>3. Void(Carried(cs, {"list"}, {load}), "detail")
          = Carried(cs, {"list"} \cup {"detail"}, Void({load}, "detail"))
    BY <2>2, CarriedVoid
  <2> QED BY <1>2, <1>3, <2>1, <2>3
<1>6. LoadDetails(Relist(cs), id) = Carried(cs, {"list", "detail"}, {load} \cup more)
  BY <1>4, <1>5 DEF Carried
<1>7. load.live
  BY <1>1 DEF IsLoad
<1>8. Anew({load} \cup more, id)
  <2>1. \A n \in {load} \cup more : IsLoad(n, id)
    <3>1. \A n \in more : IsLoad(n, id)
      BY <1>4
    <3> QED BY <1>1, <3>1
  <2>2. \E n \in {load} \cup more : n.op = "list" /\ n.live
    <3>1. load \in {load} \cup more
      OBVIOUS
    <3> QED BY <1>1, <1>7, <3>1
  <2> QED BY <2>1, <2>2 DEF Anew
<1> QED BY <1>6, <1>8

\* A dialog goes with what it was opened from.
LEMMA LoadsVoided ==
  ASSUME NEW cs, \A c \in cs : IsCall(c), NEW ops, NEW news, NEW id, \A n \in news : IsLoad(n, id)
  PROVE  Void(Carried(cs, ops, news), "delete") = Carried(cs, ops \cup {"delete"}, news)
<1>1. \A n \in news : IsCall(n) /\ n.op # "delete"
  BY DEF IsLoad, IsSent
<1>2. \A n \in news : Voided(n, {"delete"}) = n
  BY <1>1, NotVoided
<1>3. Void(news, "delete") = Carried(news, {"delete"}, {})
  BY VoidCarried
<1>4. Void(news, "delete") = news
  BY <1>2, <1>3 DEF Carried
<1> QED BY <1>1, <1>4, CarriedVoid

-----------------------------------------------------------------------------
\* A request goes on, live or not.
GoesOn(v, c, ops) ==
  /\ v = Voided(c, ops) /\ IsCall(v)
  /\ v.op = c.op /\ v.id = c.id /\ v.data = c.data /\ v.state = c.state /\ v.page = c.page
  /\ v.live <=> c.live /\ c.op \notin ops

LEMMA CarriedGoOn ==
  ASSUME CallTypes, NEW cs \in SUBSET calls, NEW ops, NEW news, calls' = Carried(cs, ops, news)
  PROVE  /\ \A v \in calls' : v \in news \/ \E c \in cs : GoesOn(v, c, ops)
         /\ \A c \in cs : \E v \in calls' : GoesOn(v, c, ops)
         /\ news \subseteq calls'
<1>1. \A c \in cs : GoesOn(Voided(c, ops), c, ops)
  BY VoidedFields DEF CallTypes, Carries, GoesOn
<1>2. \A v \in calls' : v \in news \/ \E c \in cs : v = Voided(c, ops)
  BY DEF Carried
<1>3. \A c \in cs : Voided(c, ops) \in calls'
  BY DEF Carried
<1>4. news \subseteq calls'
  BY DEF Carried
<1> QED BY <1>1, <1>2, <1>3, <1>4

\* What a new request may be about: no record that was not made.
OfMade(n) ==
  \A id \in Ids : life'[id] = "new" => n.id # id /\ (n.op = "list" => id \notin n.page.ids)

LEMMA MoreRows ==
  ASSUME moves \in Nat, moves' \in Nat, moves <= moves'
  PROVE  RowSoFar \subseteq RowSoFar'
<1>1. 0..moves \subseteq 0..moves'
  OBVIOUS
<1> QED BY <1>1 DEF RowSoFar

LEMMA CallsCarried ==
  ASSUME RecordInv, NEW cs \in SUBSET calls, NEW ops, NEW news, calls' = Carried(cs, ops, news),
         moves' \in Nat, moves <= moves',
         \A id \in Ids : life'[id] = "new" => life[id] = "new",
         \A n \in news : Carries(n)' /\ OfMade(n)
  PROVE  CallTypes' /\ \A id \in Ids : Unasked(id)'
<1>1. CallTypes /\ moves \in Nat /\ \A id \in Ids : Unasked(id)
  BY DEF RecordInv, RowTypes
<1>2. RowSoFar \subseteq RowSoFar'
  BY <1>1, MoreRows
<1>3. [Ids -> RowSoFar] \subseteq [Ids -> RowSoFar']
  BY <1>2
<1>4. ASSUME NEW v \in calls', NEW c \in cs, GoesOn(v, c, ops)
      PROVE  Carries(v)' /\ \A id \in Ids : life'[id] = "new" =>
                              v.id # id /\ (v.op = "list" => id \notin v.page.ids)
  <2>1. Carries(c)
    BY <1>1 DEF CallTypes
  <2>2. Carries(v)'
    BY <1>2, <1>3, <1>4, <2>1 DEF Carries, GoesOn, IsCall
  <2>3. ASSUME NEW id \in Ids, life'[id] = "new"
        PROVE  v.id # id /\ (v.op = "list" => id \notin v.page.ids)
    BY <1>1, <1>4, <2>3 DEF Unasked, GoesOn
  <2> QED BY <2>2, <2>3
<1>5. \A v \in calls' : v \in news \/ \E c \in cs : GoesOn(v, c, ops)
  BY <1>1, CarriedGoOn
<1>6. CallTypes'
  BY <1>4, <1>5 DEF CallTypes
<1>7. ASSUME NEW id \in Ids PROVE Unasked(id)'
  BY <1>4, <1>5 DEF Unasked, OfMade
<1> QED BY <1>6, <1>7

\* Writes are done with when they are answered, and then only.
LEMMA WroteKept ==
  ASSUME CallTypes, NEW id \in Ids,
         NEW cs \in SUBSET calls, NEW ops, NEW news, calls' = Carried(cs, ops, news),
         \A c \in calls \ cs : c.op \in Writes /\ c.state = "ok" => c.id # id
  PROVE  (Wrote(id) => Wrote(id)') /\ (Dropped(id) => Dropped(id)')
<1>1. \A c \in cs : \E v \in calls' : GoesOn(v, c, ops)
  BY CarriedGoOn
<1>2. {"save", "toggle"} \subseteq Writes /\ "delete" \in Writes
  BY DEF Writes
<1> QED BY <1>1, <1>2 DEF Wrote, Dropped, GoesOn

LEMMA ApartKept ==
  ASSUME CallTypes, NEW id \in Ids, WritesApart(id), rows'[id] = rows[id], life'[id] = life[id],
         NEW cs \in SUBSET calls, NEW ops, NEW news, calls' = Carried(cs, ops, news),
         \A n \in news : n.op \in Writes \/ (n.op = "create" /\ n.state = "ok") => n.id # id
  PROVE  WritesApart(id)'
<1>1. \A v \in calls' : v \in news \/ \E c \in cs : GoesOn(v, c, ops)
  BY CarriedGoOn
<1>2. {"save", "toggle"} \subseteq Writes
  BY DEF Writes
<1>3. ASSUME NEW v \in calls', NEW w \in calls', v.op \in Writes, w.op \in Writes, v.id = id, w.id = id
      PROVE  v = w
  <2>1. PICK c \in cs : GoesOn(v, c, ops)
    BY <1>1, <1>3
  <2>2. PICK d \in cs : GoesOn(w, d, ops)
    BY <1>1, <1>3
  <2>3. c = d
    BY <1>3, <2>1, <2>2 DEF WritesApart, GoesOn
  <2> QED BY <2>1, <2>2, <2>3 DEF GoesOn
<1>4. ASSUME NEW v \in calls', v.op \in {"save", "toggle"}, v.id = id
      PROVE  /\ v.state \in {"sent", "ok"} => AtLeast(v.data, rows[id])
             /\ v.state = "ok" => life[id] = "alive"
  <2>1. PICK c \in cs : GoesOn(v, c, ops)
    BY <1>1, <1>2, <1>4
  <2> QED BY <1>4, <2>1 DEF WritesApart, GoesOn
<1>5. ASSUME NEW v \in calls', v.op = "create", v.id = id, v.state = "ok"
      PROVE  /\ AtLeast(v.data, rows[id]) /\ life[id] = "alive"
             /\ \A w \in calls' : w.op \in Writes => w.id # id
  <2>1. PICK c \in cs : GoesOn(v, c, ops)
    BY <1>1, <1>5
  <2>2. /\ AtLeast(c.data, rows[id]) /\ life[id] = "alive"
        /\ \A d \in calls : d.op \in Writes => d.id # id
    BY <1>5, <2>1 DEF WritesApart, GoesOn
  <2>3. ASSUME NEW w \in calls', w.op \in Writes, w.id = id PROVE FALSE
    BY <1>1, <2>2, <2>3 DEF GoesOn
  <2> QED BY <2>1, <2>2, <2>3 DEF GoesOn
<1> QED BY <1>3, <1>4, <1>5 DEF WritesApart, AtLeast

\* The only write of a record goes on.
LEMMA ApartAlone ==
  ASSUME NEW id \in Ids, WritesApart(id), NEW c \in calls, c.op \in Writes, c.id = id,
         NEW new, calls' = (calls \ {c}) \cup {new}, new.op = c.op, new.id = c.id,
         c.op # "delete" /\ new.state \in {"sent", "ok"} => AtLeast(new.data, rows'[id]),
         c.op # "delete" /\ new.state = "ok" => life'[id] = "alive"
  PROVE  WritesApart(id)'
<1>1. \A d \in calls' : d.op \in Writes /\ d.id = id => d = new
  BY DEF WritesApart
<1>2. \A d \in calls : d.op = "create" /\ d.id = id => d.state # "ok"
  BY DEF WritesApart
<1>3. {"save", "toggle"} \subseteq Writes \ {"delete"} /\ "create" \notin Writes
  BY DEF Writes
<1>4. \A d, e \in calls' : d.op \in Writes /\ e.op \in Writes /\ d.id = id /\ e.id = id => d = e
  BY <1>1
<1>5. \A d \in calls' : d.op \in {"save", "toggle"} /\ d.id = id =>
        /\ d.state \in {"sent", "ok"} => AtLeast(d.data, rows'[id])
        /\ d.state = "ok" => life'[id] = "alive"
  BY <1>1, <1>3
<1>6. \A d \in calls' : d.op = "create" /\ d.id = id => d.state # "ok"
  BY <1>2, <1>3
<1> QED BY <1>4, <1>5, <1>6 DEF WritesApart, AtLeast

\* A record is written that no request writes or makes.
LEMMA ApartSent ==
  ASSUME NEW id \in Ids, WritesApart(id), UNCHANGED <<rows, life>>, ~Writing(id), ~Making(id),
         NEW new, calls' = calls \cup {new}, new.op \in Writes, new.id = id, new.state = "sent",
         new.op # "delete" => AtLeast(new.data, rows[id])
  PROVE  WritesApart(id)'
<1>1. \A d \in calls' : d.op \in Writes /\ d.id = id => d = new
  BY DEF Writing
<1>2. \A d \in calls' : d.op = "create" => d.id # id
  BY DEF Making, Writes
<1>3. {"save", "toggle"} \subseteq Writes \ {"delete"}
  BY DEF Writes
<1> QED BY <1>1, <1>2, <1>3 DEF WritesApart, AtLeast

\* Pages that were read stay as good as they were.
LEMMA PagesKept ==
  ASSUME NEW id \in Ids, rows'[id] = rows[id], life'[id] = life[id],
         Wrote(id) => Wrote(id)', Dropped(id) => Dropped(id)'
  PROVE  \A p : UpToDate(id, p) => UpToDate(id, p)'
BY DEF UpToDate, AtLeast

LEMMA ListKept ==
  ASSUME CallTypes, NEW id \in Ids, ListUpToDate(id), UNCHANGED list,
         \A p : UpToDate(id, p) => UpToDate(id, p)',
         NEW cs \in SUBSET calls, NEW ops, NEW news, calls' = Carried(cs, ops, news),
         "list" \notin ops,
         \A c \in calls \ cs : c.op = "list" /\ c.live => \E n \in news : n.op = "list" /\ n.live,
         \A n \in news : n.op = "list" /\ n.live /\ n.state = "ok" => UpToDate(id, n.page)'
  PROVE  ListUpToDate(id)'
<1>1. /\ \A v \in calls' : v \in news \/ \E c \in cs : GoesOn(v, c, ops)
      /\ \A c \in cs : \E v \in calls' : GoesOn(v, c, ops)
      /\ news \subseteq calls'
  BY CarriedGoOn
<1>2. Loading => Loading'
  <2>1. SUFFICES ASSUME NEW c \in calls, c.op = "list", c.live PROVE Loading'
    BY DEF Loading
  <2>2. CASE c \in cs
    <3>1. PICK v \in calls' : GoesOn(v, c, ops)
      BY <1>1, <2>2
    <3> QED BY <2>1, <3>1 DEF Loading, GoesOn
  <2>3. CASE c \notin cs
    BY <1>1, <2>1, <2>3 DEF Loading
  <2> QED BY <2>2, <2>3
<1>3. ASSUME list.shown PROVE Loading' \/ UpToDate(id, list)'
  <2>1. PICK p : p = list
    OBVIOUS
  <2>2. Loading \/ UpToDate(id, p)
    BY <1>3, <2>1 DEF ListUpToDate
  <2>3. UpToDate(id, p)' => UpToDate(id, list)'
    BY <2>1 DEF UpToDate
  <2> QED BY <1>2, <2>2, <2>3
<1>4. ASSUME NEW v \in calls', v.op = "list", v.live, v.state = "ok" PROVE UpToDate(id, v.page)'
  <2>1. CASE v \in news
    BY <1>4, <2>1
  <2>2. ASSUME NEW c \in cs, GoesOn(v, c, ops) PROVE UpToDate(id, v.page)'
    <3>1. UpToDate(id, c.page)
      BY <1>4, <2>2 DEF ListUpToDate, GoesOn
    <3>2. v.page = c.page
      BY <2>2 DEF GoesOn
    <3> QED BY <3>1, <3>2
  <2> QED BY <1>1, <2>1, <2>2
<1> QED BY <1>3, <1>4 DEF ListUpToDate

\* The list is read again.
LEMMA ListAgain ==
  ASSUME CallTypes, NEW id \in Ids, NEW cs \in SUBSET calls, NEW ops, "list" \in ops,
         NEW news, calls' = Carried(cs, ops, news),
         \E n \in news : n.op = "list" /\ n.live, \A n \in news : n.state = "sent"
  PROVE  ListUpToDate(id)'
<1>1. \A v \in calls' : v \in news \/ \E c \in cs : GoesOn(v, c, ops)
  BY CarriedGoOn
<1>2. Loading'
  <2>1. news \subseteq calls'
    BY CarriedGoOn
  <2> QED BY <2>1 DEF Loading
<1>3. \A v \in calls' : v.op = "list" /\ v.live => v.state = "sent"
  BY <1>1 DEF GoesOn
<1> QED BY <1>2, <1>3 DEF ListUpToDate

\* A new request is well formed.
LEMMA NewCarries ==
  ASSUME moves' \in Nat, NEW n, NEW op, NEW id, IsSent(n, op, id), n.page = NoPage,
         op \in Writes => id \in Ids,
         op \in {"save", "toggle", "create"} => n.data \in RowSoFar'
  PROVE  Carries(n)' /\ n.page.ids = {}
<1>1. NoRow \in RowSoFar'
  BY DEF RowSoFar, NoRow
<1>2. NoPage.ids = {} /\ NoPage.rows = [i \in Ids |-> NoRow]
  BY DEF NoPage
<1>3. NoPage.rows \in [Ids -> RowSoFar']
  BY <1>1, <1>2
<1>4. n.page.ids = {} /\ n.page.rows \in [Ids -> RowSoFar']
  BY <1>2, <1>3
<1> QED BY <1>4 DEF Carries, IsSent

LEMMA NewLoads ==
  ASSUME moves' \in Nat, NEW id, id \in Ids => life'[id] # "new", NEW n, IsLoad(n, id)
  PROVE  /\ Carries(n)' /\ OfMade(n) /\ n.state = "sent"
         /\ n.op \notin Writes \cup {"create"}
<1>1. /\ n.op \in {"list", "detail"} /\ n.state = "sent" /\ n.page = NoPage
      /\ IsSent(n, n.op, n.id) /\ n.id \in {None} \cup (Ids \cap {id})
  BY DEF IsLoad, IsSent
<1>2. n.op \notin Writes \cup {"create", "save", "toggle"}
  BY <1>1 DEF Writes
<1>3. Carries(n)' /\ n.page.ids = {}
  BY <1>1, <1>2, NewCarries
<1>4. OfMade(n)
  BY <1>1, <1>3, RecordSheetAssumption DEF OfMade
<1> QED BY <1>1, <1>2, <1>3, <1>4

\* The sheet shows the same, and its form holds the same.
LEMMA SheetKept ==
  ASSUME NEW id \in Ids, SheetUpToDate(id), UNCHANGED <<kind, shown, row, drafts>>,
         FormOfObject \/ editing' = editing,
         rows'[id] = rows[id], life'[id] = life[id],
         Wrote(id) => Wrote(id)', Dropped(id) => Dropped(id)',
         FormOfObject \/ editing # id
           \/ (\A v \in calls' : v.op = "toggle" /\ v.id = id =>
                 \E c \in calls : c.op = "toggle" /\ c.id = id)
  PROVE  SheetUpToDate(id)'
BY DEF SheetUpToDate, Edited, FormOfObject, AtLeast

LEMMA QuietStep ==
  ASSUME RecordInv,
         NEW cs \in SUBSET calls, NEW ops, NEW news, calls' = Carried(cs, ops, news),
         "list" \notin ops,
         UNCHANGED <<kind, life, rows, list, shown, row, drafts>>,
         editing' = editing \/ (FormOfObject /\ editing' \in {shown, None}),
         moves' \in Nat, moves <= moves', form' \in 0..moves', crossed \subseteq crossed',
         \A n \in news :
           /\ Carries(n)' /\ OfMade(n)
           /\ n.op = "list" /\ n.live /\ n.state = "ok" =>
                \A id \in Ids \ crossed : UpToDate(id, n.page)'
           /\ n.op = "toggle" =>
                \/ FormOfObject \/ editing # n.id
                \/ \E c \in calls : c.op = "toggle" /\ c.id = n.id,
         \A c \in calls \ cs :
           /\ c.op = "list" /\ c.live => \E n \in news : n.op = "list" /\ n.live
           /\ c.op \in Writes /\ c.state = "ok" => c.id \in crossed',
         \A id \in Ids \ crossed' : WritesApart(id)'
  PROVE  RecordInv'
<1>1. /\ RowTypes /\ CallTypes /\ \A id \in Ids : Unknown(id) /\ Unasked(id)
      /\ \A id \in Ids \ crossed : WritesApart(id) /\ ListUpToDate(id) /\ SheetUpToDate(id)
  BY DEF RecordInv
<1>2. CallTypes' /\ \A id \in Ids : Unasked(id)'
  BY CallsCarried
<1>3. RowTypes'
  <2>1. RowSoFar \subseteq RowSoFar'
    BY <1>1, MoreRows DEF RowTypes
  <2> QED BY <1>1, <2>1 DEF RowTypes
<1>4. \A id \in Ids : Unknown(id)'
  BY <1>1, RecordSheetAssumption DEF Unknown
<1>5. ASSUME NEW id \in Ids \ crossed' PROVE ListUpToDate(id)' /\ SheetUpToDate(id)'
  <2>1. ListUpToDate(id) /\ SheetUpToDate(id) /\ id \in Ids \ crossed
    BY <1>1, <1>5
  <2>2. (Wrote(id) => Wrote(id)') /\ (Dropped(id) => Dropped(id)')
    BY <1>1, <1>5, WroteKept
  <2>3. \A p : UpToDate(id, p) => UpToDate(id, p)'
    BY <2>2, PagesKept
  <2>4. ListUpToDate(id)'
    BY <1>1, <2>1, <2>3, ListKept
  <2>5. ASSUME NEW v \in calls', v.op = "toggle", v.id = id, ~FormOfObject, editing = id
        PROVE  \E c \in calls : c.op = "toggle" /\ c.id = id
    <3>1. v \in news \/ \E c \in cs : GoesOn(v, c, ops)
      BY <1>1, CarriedGoOn
    <3> QED BY <2>5, <3>1 DEF GoesOn
  <2>6. SheetUpToDate(id)'
    BY <2>1, <2>2, <2>5, SheetKept
  <2> QED BY <2>4, <2>6
<1> QED BY <1>2, <1>3, <1>4, <1>5 DEF RecordInv

-----------------------------------------------------------------------------
\* What a click asks for that is not about the record's own fields.
LEMMA AskKeeps ==
  ASSUME RecordInv, NEW n, calls' = calls \cup {n}, UNCHANGED <<kind, server, list, sheet, edits>>,
         Move, form' \in 0..moves', crossed' = crossed,
         Carries(n)', OfMade(n), n.op \in Relations \cup {"create"}, n.state = "sent"
  PROVE  RecordInv'
<1>1. /\ CallTypes /\ moves \in Nat /\ moves' \in Nat /\ moves <= moves'
      /\ \A id \in Ids \ crossed : WritesApart(id)
  BY DEF RecordInv, RowTypes, Move
<1>2. calls' = Carried(calls, {}, {n})
  BY <1>1, CarriedSame DEF CallTypes, Carries
<1>3. n.op \notin Writes \cup {"list", "toggle"}
  BY DEF Writes, Relations
<1>4. UNCHANGED <<life, rows, shown, row, drafts, editing>>
  BY DEF server, sheet, edits
<1>5. \A id \in Ids \ crossed' : WritesApart(id)'
  BY <1>1, <1>2, <1>3, <1>4, ApartKept
<1> QED BY <1>1, <1>2, <1>3, <1>4, <1>5, QuietStep

LEMMA RelateKeepsRecords ==
  ASSUME RecordInv, NEW op \in Relations, NEW about, Relate(op, about),
         about = shown \/ (about \in Ids /\ life[about] # "new")
  PROVE  RecordInv'
<1>1. about \in Ids /\ life[about] # "new" /\ op \in Ops /\ op \notin Writes
      /\ op \notin {"save", "toggle", "create", "list"} /\ moves' \in Nat /\ form \in 0..moves'
  BY DEF RecordInv, RowTypes, Unknown, Relate, Ops, Relations, Writes, Move
<1>2. PICK n : n = Request(op, about)
  OBVIOUS
<1>3. IsSent(n, op, about) /\ n.page = NoPage
  BY <1>1, <1>2, NewFields, NewPages
<1>4. Carries(n)' /\ n.op = op /\ n.state = "sent" /\ n.id = about
  BY <1>1, <1>3, NewCarries DEF IsSent
<1>5. OfMade(n)
  BY <1>1, <1>4 DEF OfMade, Relate, server
<1> QED BY <1>1, <1>2, <1>4, <1>5, AskKeeps DEF Relate, ghosts

LEMMA SubmitKeepsRecords ==
  ASSUME RecordInv, Submit
  PROVE  RecordInv'
<1>1. moves' \in Nat /\ form \in 0..moves' /\ "create" \in Ops /\ "create" \notin Writes
  BY DEF RecordInv, RowTypes, Submit, Ops, Writes, Move
<1>2. PICK data : data = [NoRow EXCEPT !.typed = form]
  OBVIOUS
<1>3. data \in RowSoFar'
  BY <1>1, <1>2 DEF NoRow, RowSoFar
<1>4. PICK n : n = Send("create", None, data)
  OBVIOUS
<1>5. IsSent(n, "create", None) /\ n.page = NoPage /\ n.data = data
  BY <1>1, <1>4, NewFields, NewPages, SentData
<1>6. Carries(n)' /\ n.op = "create" /\ n.state = "sent" /\ n.id = None
  BY <1>1, <1>3, <1>5, NewCarries DEF IsSent
<1>7. OfMade(n)
  BY <1>6, RecordSheetAssumption DEF OfMade
<1> QED BY <1>1, <1>2, <1>4, <1>6, <1>7, AskKeeps DEF Submit

LEMMA FormKeepsRecords ==
  ASSUME RecordInv, OpenForm \/ CloseForm
  PROVE  RecordInv'
<1>1. /\ CallTypes /\ moves \in Nat /\ moves' \in Nat /\ moves <= moves' /\ form' \in 0..moves'
      /\ \A id \in Ids \ crossed : WritesApart(id)
  BY DEF RecordInv, RowTypes, Move, OpenForm, CloseForm
<1>2. UNCHANGED <<kind, life, rows, list, shown, row, drafts, editing, crossed, calls>>
  BY DEF OpenForm, CloseForm, server, sheet, edits, ghosts
<1>3. calls' = Carried(calls, {}, {})
  BY <1>1, <1>2, CarriedSame DEF CallTypes, Carries
<1>4. \A id \in Ids \ crossed' : WritesApart(id)'
  BY <1>1, <1>2, <1>3, ApartKept
<1> QED BY <1>1, <1>2, <1>3, <1>4, QuietStep

\* The panels of deals and tasks, whose form is state of the sheet.
LEMMA OpenKeepsRecords ==
  ASSUME RecordInv, OpenDeal \/ OpenTask
  PROVE  RecordInv'
<1>1. /\ CallTypes /\ moves \in Nat /\ moves' \in Nat /\ moves <= moves' /\ form' \in 0..moves'
      /\ \A id \in Ids \ crossed : WritesApart(id)
  BY DEF RecordInv, RowTypes, Move, OpenDeal, OpenTask
<1>2. /\ UNCHANGED <<kind, life, rows, list, shown, row, drafts, crossed>>
      /\ FormOfObject /\ editing' \in {shown, None}
  BY DEF OpenDeal, OpenTask, Deals, Tasks, FormOfObject, server, sheet, ghosts
<1>3. \E ops : calls' = Carried(calls, ops, {}) /\ "list" \notin ops
  <2>1. CASE calls' = calls
    <3>1. calls' = Carried(calls, {}, {})
      BY <1>1, <2>1, CarriedSame DEF CallTypes, Carries
    <3> QED BY <3>1
  <2>2. CASE calls' = Void(calls, "delete")
    <3>1. calls' = Carried(calls, {"delete"}, {}) /\ "list" \notin {"delete"}
      BY <2>2, VoidCarried
    <3> QED BY <3>1
  <2> QED BY <2>1, <2>2 DEF OpenDeal, OpenTask
<1>4. PICK ops : calls' = Carried(calls, ops, {}) /\ "list" \notin ops
  BY <1>3
<1>5. \A id \in Ids \ crossed' : WritesApart(id)'
  BY <1>1, <1>2, <1>4, ApartKept
<1> QED BY <1>1, <1>2, <1>4, <1>5, QuietStep

-----------------------------------------------------------------------------
\* A record is written as it is shown.
LEMMA WriteSent ==
  ASSUME RecordInv, NEW op \in Writes, NEW data, Write(op, data),
         op # "delete" => data \in RowSoFar',
         shown \notin crossed /\ ~Writing(shown) /\ op # "delete" => AtLeast(data, rows[shown])
  PROVE  \E n : /\ calls' = Carried(calls, {}, {n})
                /\ Carries(n)' /\ OfMade(n) /\ n.op = op /\ n.id = shown /\ n.state = "sent"
                /\ \A id \in Ids \ crossed' : WritesApart(id)'
<1>1. /\ CallTypes /\ moves' \in Nat /\ shown \in Ids /\ life[shown] # "new"
      /\ \A id \in Ids \ crossed : WritesApart(id)
      /\ UNCHANGED <<life, rows>>
  BY DEF RecordInv, RowTypes, Unknown, Write, Move, server
<1>2. op \in Ops /\ op # "create" /\ op # "list"
  BY DEF Writes, Ops
<1>3. PICK n : n = Send(op, shown, data)
  OBVIOUS
<1>4. IsSent(n, op, shown) /\ n.page = NoPage /\ n.data = data
  BY <1>1, <1>2, <1>3, NewFields, NewPages, SentData
<1>5. Carries(n)' /\ n.op = op /\ n.state = "sent" /\ n.id = shown
  BY <1>1, <1>2, <1>4, NewCarries DEF IsSent
<1>6. OfMade(n)
  BY <1>1, <1>2, <1>5 DEF OfMade
<1>7. calls' = calls \cup {n} /\ calls' = Carried(calls, {}, {n})
  BY <1>1, <1>3, CarriedSame DEF CallTypes, Carries, Write
<1>8. ASSUME NEW id \in Ids \ crossed' PROVE WritesApart(id)'
  <2>1. WritesApart(id)
    BY <1>1, <1>8 DEF Write
  <2>2. CASE id = shown
    <3>1. ~Writing(id) /\ ~Making(id) /\ shown \notin crossed
      BY <1>8, <2>2 DEF Write
    <3> QED BY <1>1, <1>4, <1>5, <1>7, <2>1, <2>2, <3>1, ApartSent
  <2>3. CASE id # shown
    <3>1. \A m \in {n} : m.op \in Writes \/ (m.op = "create" /\ m.state = "ok") => m.id # id
      BY <1>5, <2>3
    <3> QED BY <1>1, <1>7, <2>1, <3>1, ApartKept
  <2> QED BY <2>2, <2>3
<1> QED BY <1>5, <1>6, <1>7, <1>8

\* A write that leaves the form as it is: none of the record that is edited.
LEMMA WriteKeeps ==
  ASSUME RecordInv, NEW op \in Writes, NEW data, Write(op, data), UNCHANGED edits,
         op # "delete" => data \in RowSoFar',
         shown \notin crossed /\ ~Writing(shown) /\ op # "delete" => AtLeast(data, rows[shown]),
         op = "toggle" => FormOfObject \/ editing # shown
  PROVE  RecordInv'
<1>1. PICK n : /\ calls' = Carried(calls, {}, {n})
               /\ Carries(n)' /\ OfMade(n) /\ n.op = op /\ n.id = shown /\ n.state = "sent"
               /\ \A id \in Ids \ crossed' : WritesApart(id)'
  BY WriteSent
<1>2. /\ moves \in Nat /\ moves' \in Nat /\ moves <= moves' /\ form' \in 0..moves'
      /\ crossed \subseteq crossed' /\ op # "list"
  BY DEF RecordInv, RowTypes, Write, Move, Writes
<1>3. UNCHANGED <<kind, life, rows, list, shown, row, drafts, editing>>
  BY DEF Write, server, sheet, edits
<1> QED BY <1>1, <1>2, <1>3, QuietStep

\* The button writes what the sheet shows, and its field anew.
LEMMA ToggleKeeps ==
  ASSUME RecordInv, Toggle, FormOfObject \/ editing # shown
  PROVE  RecordInv'
<1>1. PICK data : data = [row EXCEPT !.flag = moves + 1]
  OBVIOUS
<1>2. Write("toggle", data) /\ UNCHANGED edits
  BY <1>1 DEF Toggle
<1>3. /\ row \in RowSoFar /\ moves \in Nat /\ moves' = moves + 1
      /\ shown \in Ids /\ rows[shown] \in RowSoFar
  BY <1>2 DEF RecordInv, RowTypes, Write, Move
<1>4. data.typed = row.typed /\ data.flag = moves + 1 /\ data \in RowSoFar'
  BY <1>1, <1>3 DEF RowSoFar
<1>5. ASSUME shown \notin crossed, ~Writing(shown) PROVE AtLeast(data, rows[shown])
  <2>1. SheetUpToDate(shown)
    BY <1>3, <1>5 DEF RecordInv
  <2>2. ~Wrote(shown)
    BY <1>5 DEF Wrote, Writing, Writes
  <2>3. AtLeast(row, rows[shown])
    BY <2>1, <2>2 DEF SheetUpToDate
  <2> QED BY <1>3, <1>4, <2>3 DEF AtLeast, RowSoFar
<1>6. "toggle" \in Writes
  BY DEF Writes
<1> QED BY <1>2, <1>4, <1>5, <1>6, WriteKeeps

LEMMA DeleteKeeps ==
  ASSUME RecordInv, Delete
  PROVE  RecordInv'
<1>1. Write("delete", NoRow) /\ UNCHANGED edits /\ "delete" \in Writes
  BY DEF Delete, Writes
<1> QED BY <1>1, WriteKeeps

\* A save writes what the form holds.
LEMMA SaveKeeps ==
  ASSUME RecordInv, Save, shown # None, editing = shown
  PROVE  RecordInv'
<1>1. PICK d \in Typed : /\ Write("save", d) /\ drafts' = [drafts EXCEPT ![shown] = d]
                         /\ UNCHANGED editing
  BY DEF Save
<1>2. /\ moves \in Nat /\ moves' = moves + 1 /\ shown \in Ids /\ rows[shown] \in RowSoFar
      /\ drafts \in [Ids -> RowSoFar] /\ RowSoFar \subseteq RowSoFar'
  <2>1. moves \in Nat /\ moves' \in Nat /\ moves <= moves' /\ moves' = moves + 1
    BY <1>1 DEF RecordInv, RowTypes, Write, Move
  <2> QED BY <2>1, MoreRows DEF RecordInv, RowTypes
<1>3. PICK q : q = drafts[shown] /\ q \in RowSoFar
  BY <1>2
<1>4. /\ d \in RowSoFar' /\ d.typed >= q.typed /\ d.flag >= q.flag
  <2>1. CASE d = q
    BY <1>2, <1>3, <2>1 DEF RowSoFar
  <2>2. CASE d = [q EXCEPT !.typed = moves + 1]
    <3>1. d.typed = moves + 1 /\ d.flag = q.flag /\ d \in [typed : 0..(moves + 1), flag : 0..moves]
      BY <1>2, <1>3, <2>2 DEF RowSoFar
    <3> QED BY <1>2, <1>3, <3>1 DEF RowSoFar
  <2> QED BY <1>3, <2>1, <2>2 DEF Typed
<1>5. ASSUME shown \notin crossed, ~Writing(shown) PROVE AtLeast(d, rows[shown])
  <2>1. SheetUpToDate(shown)
    BY <1>2, <1>5 DEF RecordInv
  <2>2. ~Wrote(shown)
    BY <1>5 DEF Wrote, Writing, Writes
  <2>3. AtLeast(q, rows[shown])
    BY <1>3, <2>1, <2>2 DEF SheetUpToDate, Edited
  <2> QED BY <1>2, <1>3, <1>4, <2>3 DEF AtLeast, RowSoFar
<1>6. "save" \in Writes /\ "save" # "delete"
  BY DEF Writes
<1>7. PICK n : /\ calls' = Carried(calls, {}, {n})
               /\ Carries(n)' /\ OfMade(n) /\ n.op = "save" /\ n.id = shown /\ n.state = "sent"
               /\ \A id \in Ids \ crossed' : WritesApart(id)'
  BY <1>1, <1>4, <1>5, <1>6, WriteSent
<1>8. /\ UNCHANGED <<kind, life, rows, list, shown, row, editing, form>>
      /\ crossed \subseteq crossed' /\ (shown \notin crossed' => shown \notin crossed /\ ~Writing(shown))
  BY <1>1 DEF Write, server, sheet
<1>9. CallTypes' /\ \A id \in Ids : Unasked(id)'
  BY <1>2, <1>7, <1>8, CallsCarried
<1>10. RowTypes'
  <2>1. drafts' \in [Ids -> RowSoFar']
    BY <1>1, <1>2, <1>4
  <2> QED BY <1>2, <1>8, <2>1 DEF RecordInv, RowTypes
<1>11. \A id \in Ids : Unknown(id)'
  BY <1>8 DEF RecordInv, Unknown
<1>12. ASSUME NEW id \in Ids \ crossed' PROVE ListUpToDate(id)' /\ SheetUpToDate(id)'
  <2>1. ListUpToDate(id) /\ SheetUpToDate(id) /\ CallTypes
    BY <1>8, <1>12 DEF RecordInv
  <2>2. (Wrote(id) => Wrote(id)') /\ (Dropped(id) => Dropped(id)')
    BY <1>7, <1>12, <2>1, WroteKept
  <2>3. \A p : UpToDate(id, p) => UpToDate(id, p)'
    BY <1>8, <2>2, PagesKept
  <2>4. ListUpToDate(id)'
    BY <1>7, <1>8, <2>1, <2>3, ListKept
  <2>5. \A v \in calls' : v.op = "toggle" /\ v.id = id => \E c \in calls : c.op = "toggle" /\ c.id = id
    <3>1. \A v \in calls' : v = n \/ \E c \in calls : GoesOn(v, c, {})
      <4>1. calls' = Carried(calls, {}, {n}) /\ calls \in SUBSET calls /\ CallTypes
        BY <1>7, <2>1
      <4>2. \A v \in calls' : v \in {n} \/ \E c \in calls : GoesOn(v, c, {})
        BY <4>1, CarriedGoOn
      <4> QED BY <4>2
    <3> QED BY <1>7, <3>1 DEF GoesOn
  <2>6. SheetUpToDate(id)'
    <3>1. CASE id # shown
      <4>1. drafts'[id] = drafts[id]
        BY <1>1, <1>2, <1>12, <3>1
      <4> QED BY <1>8, <2>1, <2>2, <2>5, <3>1, <4>1 DEF SheetUpToDate, Edited, FormOfObject, AtLeast
    <3>2. CASE id = shown
      <4>1. drafts'[id] = d /\ AtLeast(d, rows[id])
        BY <1>1, <1>2, <1>5, <1>8, <1>12, <3>2
      <4>2. AtLeast(drafts[id], rows[id])' /\ (AtLeast(row, rows[id]) => AtLeast(row, rows[id])')
        BY <1>8, <4>1 DEF AtLeast
      <4>3. ASSUME shown = id
            PROVE  (Wrote(id) \/ AtLeast(row, rows[id]))' /\ (Dropped(id) \/ life[id] # "gone")'
        BY <1>8, <2>1, <2>2, <4>2, <4>3 DEF SheetUpToDate
      <4>4. ASSUME ~FormOfObject, editing = id, NEW v \in calls', v.op = "toggle" PROVE v.id # id
        BY <2>1, <2>5, <4>4 DEF SheetUpToDate
      <4> QED BY <1>8, <4>2, <4>3, <4>4 DEF SheetUpToDate, FormOfObject
    <3> QED BY <3>1, <3>2
  <2> QED BY <2>4, <2>6
<1>13. RowTypes' /\ CallTypes' /\ \A id \in Ids : Unknown(id)' /\ Unasked(id)'
  BY <1>9, <1>10, <1>11
<1> QED BY <1>7, <1>12, <1>13 DEF RecordInv

-----------------------------------------------------------------------------
\* The sheet and its form change, and what the server and the list have does not.
LEMMA SheetTypes ==
  ASSUME RowTypes, UNCHANGED <<kind, life, rows, list>>, moves' \in Nat, moves <= moves',
         drafts' \in [Ids -> RowSoFar] \cup [Ids -> RowSoFar'], row' \in RowSoFar \cup RowSoFar',
         shown' \in Ids \cup {None}, editing' \in Ids \cup {None}, form' \in 0..moves'
  PROVE  RowTypes'
<1>1. RowSoFar \subseteq RowSoFar'
  BY MoreRows DEF RowTypes
<1>2. [Ids -> RowSoFar] \subseteq [Ids -> RowSoFar']
  BY <1>1
<1>3. /\ rows' \in [Ids -> RowSoFar'] /\ drafts' \in [Ids -> RowSoFar'] /\ row' \in RowSoFar'
      /\ list'.rows \in [Ids -> RowSoFar']
  BY <1>1, <1>2 DEF RowTypes
<1> QED BY <1>3 DEF RowTypes

\* The form of a person or a company is filled from the sheet.
LEMMA EditsKeep ==
  ASSUME RecordInv, EditPerson \/ CancelPerson \/ EditCompany \/ CancelCompany
  PROVE  RecordInv'
<1>1. /\ drafts' = [drafts EXCEPT ![shown] = row] /\ shown \in Ids /\ ~FormOfObject
      /\ UNCHANGED <<kind, life, rows, list, shown, row, form>>
      /\ moves \in Nat /\ moves' = moves + 1 /\ crossed \subseteq crossed'
      /\ editing' = None \/ (editing' = shown /\ (shown \notin crossed' => ~Writing(shown)))
  BY DEF RecordInv, RowTypes, EditPerson, CancelPerson, EditCompany, CancelCompany, Move, server,
         sheet, ghosts, FormOfObject, People, Companies
<1>2. /\ RowTypes /\ CallTypes /\ \A id \in Ids : Unknown(id) /\ Unasked(id)
      /\ \A id \in Ids \ crossed : WritesApart(id) /\ ListUpToDate(id) /\ SheetUpToDate(id)
  BY DEF RecordInv
<1>3. \E ops : calls' = Carried(calls, ops, {}) /\ "list" \notin ops
  <2>1. CASE calls' = calls
    <3>1. calls' = Carried(calls, {}, {})
      BY <1>2, <2>1, CarriedSame DEF CallTypes, Carries
    <3> QED BY <3>1
  <2>2. CASE calls' = Void(calls, "delete")
    <3>1. calls' = Carried(calls, {"delete"}, {}) /\ "list" \notin {"delete"}
      BY <2>2, VoidCarried
    <3> QED BY <3>1
  <2> QED BY <2>1, <2>2 DEF EditPerson, CancelPerson, EditCompany, CancelCompany
<1>4. PICK ops : calls' = Carried(calls, ops, {}) /\ "list" \notin ops
  BY <1>3
<1>5. moves' \in Nat /\ moves <= moves'
  BY <1>1
<1>6. CallTypes' /\ \A id \in Ids : Unasked(id)'
  BY <1>1, <1>4, <1>5, CallsCarried
<1>7. RowTypes'
  <2>1. RowSoFar \subseteq RowSoFar'
    BY <1>1, <1>5, MoreRows
  <2>2. drafts' \in [Ids -> RowSoFar']
    BY <1>1, <1>2, <2>1 DEF RowTypes
  <2> QED BY <1>1, <1>2, <1>5, <2>1, <2>2 DEF RowTypes
<1>8. \A id \in Ids : Unknown(id)'
  BY <1>1, <1>2, RecordSheetAssumption DEF Unknown
<1>9. ASSUME NEW id \in Ids \ crossed'
      PROVE  WritesApart(id)' /\ ListUpToDate(id)' /\ SheetUpToDate(id)'
  <2>1. WritesApart(id) /\ ListUpToDate(id) /\ SheetUpToDate(id)
    BY <1>1, <1>2, <1>9
  <2>2. (Wrote(id) => Wrote(id)') /\ (Dropped(id) => Dropped(id)')
    BY <1>2, <1>4, <1>9, WroteKept
  <2>3. \A p : UpToDate(id, p) => UpToDate(id, p)'
    BY <1>1, <2>2, PagesKept
  <2>4. WritesApart(id)' /\ ListUpToDate(id)'
    BY <1>1, <1>2, <1>4, <2>1, <2>3, ApartKept, ListKept
  <2>5. (shown = id => (Wrote(id) \/ AtLeast(row, rows[id]))' /\ (Dropped(id) \/ life[id] # "gone")')
    BY <1>1, <2>1, <2>2 DEF SheetUpToDate, AtLeast
  <2>6. ASSUME editing' = id
        PROVE  AtLeast(drafts[id], rows[id])' /\ \A c \in calls' : c.op = "toggle" => c.id # id
    <3>1. shown = id /\ ~Writing(id)
      BY <1>1, <1>9, <2>6, RecordSheetAssumption
    <3>2. ~Wrote(id)
      BY <3>1 DEF Wrote, Writing, Writes
    <3>3. drafts'[id] = row /\ AtLeast(row, rows[id])
      BY <1>1, <1>2, <2>1, <3>1, <3>2 DEF RowTypes, SheetUpToDate
    <3>4. \A v \in calls' : \E c \in calls : GoesOn(v, c, ops)
      <4>1. calls' = Carried(calls, ops, {}) /\ calls \in SUBSET calls /\ CallTypes
        BY <1>2, <1>4
      <4>2. \A v \in calls' : v \in {} \/ \E c \in calls : GoesOn(v, c, ops)
        BY <4>1, CarriedGoOn
      <4> QED BY <4>2
    <3>5. \A c \in calls : c.op = "toggle" => c.id # id
      BY <3>1 DEF Writing, Writes
    <3>6. \A c \in calls' : c.op = "toggle" => c.id # id
      BY <3>4, <3>5 DEF GoesOn
    <3> QED BY <1>1, <3>3, <3>6 DEF AtLeast
  <2>7. ~FormOfObject' /\ Edited' = editing' /\ shown' = shown
    BY <1>1 DEF Edited, FormOfObject
  <2> QED BY <2>4, <2>5, <2>6, <2>7 DEF SheetUpToDate
<1> QED BY <1>6, <1>7, <1>8, <1>9 DEF RecordInv

\* The form is filled anew with what is shown, or is kept.
LEMMA Refilled ==
  ASSUME RecordInv, NEW id \in Ids \cup {None}, NEW r, Refill(id, r), UNCHANGED kind, shown' = id
  PROVE  /\ editing' \in {editing, None} /\ (id # shown /\ FormOfObject => editing' = None)
         /\ drafts' = drafts \/ (FormOfObject /\ id \in Ids /\ drafts' = [drafts EXCEPT ![id] = r])
         /\ \A i \in Ids : Edited' = i =>
              \/ drafts'[i] = r /\ i = id /\ FormOfObject
              \/ drafts'[i] = drafts[i] /\ editing = i /\ ~FormOfObject
BY RecordSheetAssumption DEF Refill, FormOfObject, Edited, edits, RecordInv, RowTypes

LEMMA SelectKeeps ==
  ASSUME RecordInv, NEW id \in Ids, Select(id)
  PROVE  RecordInv'
<1>1. /\ shown' = id /\ Refill(id, list.rows[id]) /\ calls' = LoadDetails(calls, id)
      /\ UNCHANGED <<kind, life, rows, list, form>> /\ list.shown /\ id \in list.ids
      /\ crossed \subseteq crossed' /\ (id \notin crossed' => ~Writing(id) /\ (Loading => ~Outdated(id)))
  BY DEF Select, Show, Listed, server
<1>2. /\ RowTypes /\ CallTypes /\ \A i \in Ids : Unknown(i) /\ Unasked(i)
      /\ \A i \in Ids \ crossed : WritesApart(i) /\ ListUpToDate(i) /\ SheetUpToDate(i)
  BY DEF RecordInv
<1>3. PICK r : r = list.rows[id] /\ r \in RowSoFar /\ row' = r
  BY <1>2, RecordSheetAssumption DEF RowTypes, Select, Show
<1>4. life[id] # "new"
  BY <1>1, <1>2 DEF Unknown
<1>5. moves \in Nat /\ moves' \in Nat /\ moves <= moves' /\ RowSoFar \subseteq RowSoFar'
  <2>1. moves \in Nat /\ moves' \in Nat /\ moves <= moves'
    BY <1>2 DEF RowTypes, Select, Move
  <2> QED BY <2>1, MoreRows
<1>6. PICK news : /\ calls' = Carried(calls, {"detail"}, news)
                  /\ \A n \in news : IsLoad(n, id) /\ n.op = "detail"
  BY <1>1, LoadDetailsCarried
<1>7. \A n \in news : /\ Carries(n)' /\ OfMade(n) /\ n.state = "sent" /\ n.op = "detail"
                      /\ n.op \notin Writes \cup {"create"}
  BY <1>1, <1>4, <1>5, <1>6, NewLoads
<1>8. CallTypes' /\ \A i \in Ids : Unasked(i)'
  BY <1>1, <1>5, <1>6, <1>7, CallsCarried
<1>9. /\ editing' \in {editing, None}
      /\ drafts' = drafts \/ (FormOfObject /\ id \in Ids /\ drafts' = [drafts EXCEPT ![id] = r])
      /\ \A i \in Ids : Edited' = i =>
           \/ drafts'[i] = r /\ i = id /\ FormOfObject
           \/ drafts'[i] = drafts[i] /\ editing = i /\ ~FormOfObject
  <2>1. Refill(id, r) /\ UNCHANGED kind /\ shown' = id /\ id \in Ids \cup {None}
    BY <1>1, <1>3
  <2> QED BY <2>1, Refilled
<1>10. RowTypes'
  <2>1. drafts' \in [Ids -> RowSoFar] /\ editing' \in Ids \cup {None} /\ form' \in 0..moves'
    BY <1>1, <1>2, <1>3, <1>5, <1>9 DEF RowTypes
  <2> QED BY <1>1, <1>2, <1>3, <1>5, <2>1, SheetTypes
<1>11. \A i \in Ids : Unknown(i)'
  BY <1>1, <1>2, <1>4, <1>9, RecordSheetAssumption DEF Unknown
<1>12. ASSUME NEW i \in Ids \ crossed'
       PROVE  WritesApart(i)' /\ ListUpToDate(i)' /\ SheetUpToDate(i)'
  <2>1. WritesApart(i) /\ ListUpToDate(i) /\ SheetUpToDate(i)
    BY <1>1, <1>2, <1>12
  <2>2. (Wrote(i) => Wrote(i)') /\ (Dropped(i) => Dropped(i)')
    BY <1>2, <1>6, <1>12, WroteKept
  <2>3. \A p : UpToDate(i, p) => UpToDate(i, p)'
    BY <1>1, <2>2, PagesKept
  <2>4. WritesApart(i)' /\ ListUpToDate(i)'
    BY <1>1, <1>2, <1>6, <1>7, <2>1, <2>3, ApartKept, ListKept
  <2>5. ASSUME i = id PROVE AtLeast(r, rows[i])' /\ life'[i] = "alive"
    <3>1. ~Wrote(i) /\ ~Dropped(i) /\ (Loading => ~Outdated(i))
      BY <1>1, <1>12, <2>5 DEF Wrote, Dropped, Writing, Writes
    <3>2. AtLeast(r, rows[i]) /\ life[i] = "alive"
      <4>1. CASE Loading
        <5>1. r = rows[i] /\ life[i] = "alive"
          BY <1>3, <2>5, <3>1, <4>1 DEF Outdated
        <5> QED BY <1>3, <1>5, <5>1 DEF AtLeast, RowSoFar
      <4>2. CASE ~Loading
        BY <1>1, <1>3, <2>1, <2>5, <3>1, <4>2 DEF ListUpToDate, UpToDate
      <4> QED BY <4>1, <4>2
    <3> QED BY <1>1, <3>2 DEF AtLeast
  <2>6. ASSUME Edited' = i PROVE (Wrote(i) \/ AtLeast(drafts[i], rows[i]))'
    <3>1. CASE drafts'[i] = r /\ i = id
      BY <2>5, <3>1 DEF AtLeast
    <3>2. CASE drafts'[i] = drafts[i] /\ editing = i /\ ~FormOfObject
      BY <1>1, <2>1, <2>2, <3>2 DEF SheetUpToDate, Edited, AtLeast
    <3> QED BY <1>9, <2>6, <3>1, <3>2
  <2>7. ASSUME ~FormOfObject', editing' = i, NEW v \in calls', v.op = "toggle" PROVE v.id # i
    <3>1. ~FormOfObject /\ editing = i
      BY <1>1, <1>9, <2>7, RecordSheetAssumption DEF FormOfObject
    <3>2. v \in news \/ \E c \in calls : GoesOn(v, c, {"detail"})
      BY <1>2, <1>6, CarriedGoOn
    <3>3. v \notin news
      BY <1>7, <2>7
    <3> QED BY <2>1, <2>7, <3>1, <3>2, <3>3 DEF SheetUpToDate, GoesOn
  <2>8. shown' = i => AtLeast(row, rows[i])' /\ life'[i] # "gone"
    BY <1>1, <1>3, <2>5 DEF AtLeast
  <2>9. SheetUpToDate(i)'
    BY <2>6, <2>7, <2>8 DEF SheetUpToDate
  <2> QED BY <2>4, <2>9
<1> QED BY <1>8, <1>10, <1>11, <1>12 DEF RecordInv

-----------------------------------------------------------------------------
\* The sheet shows something else, or the same anew.
LEMMA ShowKeepsRecords ==
  ASSUME RecordInv, NEW id \in Ids \cup {None}, shown' = id, row' \in RowSoFar,
         UNCHANGED <<kind, life, rows, list, crossed>>,
         moves' \in Nat, moves <= moves', form' \in 0..moves',
         NEW cs \in SUBSET calls, NEW ops, NEW news, calls' = Carried(cs, ops, news),
         \A n \in news : IsLoad(n, id),
         \A i \in Ids \ crossed : ListUpToDate(i)',
         id \in Ids => life[id] # "new",
         id \in Ids \ crossed => AtLeast(row', rows[id]) /\ life[id] = "alive",
         editing' \in {editing, None}, drafts' \in [Ids -> RowSoFar],
         \A i \in Ids : Edited' = i =>
           \/ drafts'[i] = row' /\ i = id /\ FormOfObject
           \/ drafts'[i] = drafts[i] /\ editing = i /\ ~FormOfObject,
         \A i \in Ids \ crossed : editing' = i /\ Wrote(i) => Wrote(i)'
  PROVE  RecordInv'
<1>1. /\ RowTypes /\ CallTypes /\ \A i \in Ids : Unknown(i) /\ Unasked(i)
      /\ \A i \in Ids \ crossed : WritesApart(i) /\ SheetUpToDate(i)
  BY DEF RecordInv
<1>2. \A n \in news : /\ Carries(n)' /\ OfMade(n) /\ n.state = "sent"
                      /\ n.op \notin Writes \cup {"create"}
  BY NewLoads
<1>3. CallTypes' /\ \A i \in Ids : Unasked(i)'
  BY <1>2, CallsCarried
<1>4. RowTypes'
  <2>1. editing' \in Ids \cup {None}
    BY <1>1 DEF RowTypes
  <2> QED BY <1>1, <2>1, SheetTypes
<1>5. \A i \in Ids : Unknown(i)'
  BY <1>1, RecordSheetAssumption DEF Unknown
<1>6. ASSUME NEW i \in Ids \ crossed PROVE WritesApart(i)' /\ SheetUpToDate(i)'
  <2>1. WritesApart(i) /\ SheetUpToDate(i)
    BY <1>1
  <2>2. WritesApart(i)'
    BY <1>1, <1>2, <2>1, ApartKept
  <2>3. shown' = i => AtLeast(row, rows[i])' /\ life'[i] # "gone"
    BY DEF AtLeast
  <2>4. ASSUME Edited' = i PROVE (Wrote(i) \/ AtLeast(drafts[i], rows[i]))'
    <3>1. CASE drafts'[i] = row' /\ i = id
      BY <3>1 DEF AtLeast
    <3>2. CASE drafts'[i] = drafts[i] /\ editing = i /\ ~FormOfObject
      <4>1. editing' = i
        BY <2>4, <3>2 DEF Edited, FormOfObject
      <4> QED BY <2>1, <3>2, <4>1 DEF SheetUpToDate, Edited, AtLeast
    <3> QED BY <2>4, <3>1, <3>2
  <2>5. ASSUME ~FormOfObject', editing' = i, NEW v \in calls', v.op = "toggle" PROVE v.id # i
    <3>1. ~FormOfObject /\ editing = i
      BY <2>5, RecordSheetAssumption DEF FormOfObject
    <3>2. v \in news \/ \E c \in cs : GoesOn(v, c, ops)
      BY <1>1, CarriedGoOn
    <3>3. v \notin news
      BY <1>2, <2>5 DEF Writes
    <3> QED BY <2>1, <2>5, <3>1, <3>2, <3>3 DEF SheetUpToDate, GoesOn
  <2>6. SheetUpToDate(i)'
    BY <2>3, <2>4, <2>5 DEF SheetUpToDate
  <2> QED BY <2>2, <2>6
<1> QED BY <1>3, <1>4, <1>5, <1>6 DEF RecordInv

LEMMA NoRowSoFar ==
  ASSUME RecordInv
  PROVE  NoRow \in RowSoFar
BY DEF RecordInv, RowTypes, NoRow, RowSoFar

\* The sheet is empty.
LEMMA EmptyForm ==
  ASSUME RecordInv, Refill(None, NoRow), UNCHANGED kind, shown' = None
  PROVE  /\ editing' \in {editing, None} /\ drafts' \in [Ids -> RowSoFar]
         /\ \A i \in Ids : Edited' = i =>
              \/ drafts'[i] = row' /\ i = None /\ FormOfObject
              \/ drafts'[i] = drafts[i] /\ editing = i /\ ~FormOfObject
BY RecordSheetAssumption DEF Refill, FormOfObject, Edited, edits, RecordInv, RowTypes

LEMMA CloseKeeps ==
  ASSUME RecordInv, Close
  PROVE  RecordInv'
<1>1. /\ shown' = None /\ row' = NoRow /\ Refill(None, NoRow)
      /\ calls' = Void(LoadDetails(calls, None), "delete")
      /\ UNCHANGED <<kind, life, rows, list, form, crossed>>
  BY DEF Close, Show, server, ghosts
<1>2. /\ moves \in Nat /\ moves' \in Nat /\ moves <= moves' /\ form' \in 0..moves'
      /\ CallTypes /\ \A c \in calls : IsCall(c)
      /\ \A i \in Ids \ crossed : ListUpToDate(i)
  BY <1>1 DEF RecordInv, RowTypes, CallTypes, Carries, Close, Move
<1>3. PICK news : /\ LoadDetails(calls, None) = Carried(calls, {"detail"}, news)
                  /\ \A n \in news : IsLoad(n, None) /\ n.op = "detail"
  BY LoadDetailsCarried
<1>4. PICK ops : ops = {"detail"} \cup {"delete"}
  OBVIOUS
<1>5. calls' = Carried(calls, ops, news) /\ "list" \notin ops
  <2>1. \A n \in news : IsLoad(n, None)
    BY <1>3
  <2>2. Void(Carried(calls, {"detail"}, news), "delete") = Carried(calls, {"detail"} \cup {"delete"}, news)
    BY <1>2, <2>1, LoadsVoided
  <2>3. "list" \notin {"detail"} \cup {"delete"}
    OBVIOUS
  <2> QED BY <1>1, <1>3, <1>4, <2>2, <2>3
<1>6. ASSUME NEW i \in Ids \ crossed PROVE (Wrote(i) => Wrote(i)') /\ ListUpToDate(i)'
  <2>1. (Wrote(i) => Wrote(i)') /\ (Dropped(i) => Dropped(i)')
    BY <1>2, <1>5, WroteKept
  <2>2. \A p : UpToDate(i, p) => UpToDate(i, p)'
    BY <1>1, <2>1, PagesKept
  <2> QED BY <1>1, <1>2, <1>3, <1>5, <2>1, <2>2, ListKept
<1>7. /\ editing' \in {editing, None} /\ drafts' \in [Ids -> RowSoFar]
      /\ \A i \in Ids : Edited' = i =>
           \/ drafts'[i] = row' /\ i = None /\ FormOfObject
           \/ drafts'[i] = drafts[i] /\ editing = i /\ ~FormOfObject
  BY <1>1, EmptyForm
<1>8. row' \in RowSoFar
  BY <1>1, NoRowSoFar
<1> QED BY <1>1, <1>2, <1>3, <1>5, <1>6, <1>7, <1>8, RecordSheetAssumption, ShowKeepsRecords

\* The answers after which the list is read again.
LEMMA ListReadAgain ==
  ASSUME RecordInv, NEW c \in calls, NEW id \in Ids \cup {None},
         NEW ops, "list" \in ops, NEW news, Anew(news, id), moves' = moves,
         id \in Ids => life'[id] # "new", calls' = Carried(calls \ {c}, ops, news)
  PROVE  \A i \in Ids : ListUpToDate(i)'
<1>1. CallTypes /\ moves' \in Nat
  BY DEF RecordInv, RowTypes
<1>2. \A n \in news : n.state = "sent"
  BY <1>1, NewLoads DEF Anew
<1>3. \E n \in news : n.op = "list" /\ n.live
  BY DEF Anew
<1>4. calls \ {c} \in SUBSET calls
  OBVIOUS
<1> QED BY <1>1, <1>2, <1>3, <1>4, ListAgain

LEMMA DeletedKeeps ==
  ASSUME RecordInv, NEW c \in calls, Deleted(c)
  PROVE  RecordInv'
<1>1. /\ shown' = None /\ row' = NoRow /\ Refill(None, NoRow) /\ c.op = "delete" /\ c.state = "ok"
      /\ calls' = Void(LoadDetails(Relist(calls \ {c}), None), "delete")
      /\ UNCHANGED <<kind, life, rows, list, form, crossed, moves>>
  BY DEF Deleted, Answered, Show, server, ghosts
<1>2. /\ moves' \in Nat /\ moves <= moves' /\ form' \in 0..moves'
      /\ CallTypes /\ \A d \in calls \ {c} : IsCall(d)
      /\ \A i \in Ids \ crossed : WritesApart(i)
  BY <1>1 DEF RecordInv, RowTypes, CallTypes, Carries
<1>3. PICK news : /\ LoadDetails(Relist(calls \ {c}), None) = Carried(calls \ {c}, {"list", "detail"}, news)
                  /\ Anew(news, None)
  BY <1>2, RelistCarried
<1>4. PICK ops : ops = {"list", "detail"} \cup {"delete"}
  OBVIOUS
<1>5. calls' = Carried(calls \ {c}, ops, news) /\ "list" \in ops
  <2>1. \A n \in news : IsLoad(n, None)
    BY <1>3 DEF Anew
  <2>2. Void(Carried(calls \ {c}, {"list", "detail"}, news), "delete")
          = Carried(calls \ {c}, {"list", "detail"} \cup {"delete"}, news)
    BY <1>2, <2>1, LoadsVoided
  <2> QED BY <1>1, <1>3, <1>4, <2>2
<1>6. \A i \in Ids : ListUpToDate(i)'
  BY <1>1, <1>3, <1>5, RecordSheetAssumption, ListReadAgain
<1>7. ASSUME NEW i \in Ids \ crossed, Wrote(i) PROVE Wrote(i)'
  <2>1. c.id # i
    BY <1>1, <1>2, <1>7 DEF WritesApart, Wrote, Writes
  <2>2. \A d \in calls \ (calls \ {c}) : d.op \in Writes /\ d.state = "ok" => d.id # i
    BY <2>1
  <2> QED BY <1>2, <1>5, <1>7, <2>2, WroteKept
<1>8. /\ editing' \in {editing, None} /\ drafts' \in [Ids -> RowSoFar]
      /\ \A i \in Ids : Edited' = i =>
           \/ drafts'[i] = row' /\ i = None /\ FormOfObject
           \/ drafts'[i] = drafts[i] /\ editing = i /\ ~FormOfObject
  BY <1>1, EmptyForm
<1>9. row' \in RowSoFar /\ (\A n \in news : IsLoad(n, None)) /\ calls \ {c} \in SUBSET calls
  BY <1>1, <1>3, NoRowSoFar DEF Anew
<1> QED BY <1>1, <1>2, <1>5, <1>6, <1>7, <1>8, <1>9, RecordSheetAssumption, ShowKeepsRecords

LEMMA SavedKeeps ==
  ASSUME RecordInv, NEW c \in calls, Saved(c),
         \/ FormOfObject /\ Refill(c.id, c.data)
         \/ /\ ~FormOfObject /\ UNCHANGED drafts /\ editing' \in {editing, None}
            /\ c.op = "save" => editing' = None
  PROVE  RecordInv'
<1>1. /\ c.op \in {"save", "toggle"} /\ c.op \in Writes /\ c.state = "ok" /\ shown' = c.id
      /\ calls' = LoadDetails(Relist(calls \ {c}), c.id)
      /\ UNCHANGED <<kind, life, rows, list, form, crossed, moves>>
  BY DEF Saved, Answered, Show, Writes, server, ghosts
<1>2. /\ moves' \in Nat /\ moves <= moves' /\ form' \in 0..moves' /\ drafts \in [Ids -> RowSoFar]
      /\ CallTypes /\ \A d \in calls \ {c} : IsCall(d)
      /\ \A i \in Ids : Unasked(i)
      /\ \A i \in Ids \ crossed : WritesApart(i) /\ SheetUpToDate(i)
  BY <1>1 DEF RecordInv, RowTypes, CallTypes, Carries
<1>3. PICK id : id = c.id /\ id \in Ids
  BY <1>1, <1>2 DEF CallTypes, Carries
<1>4. c.data \in RowSoFar /\ row' = c.data
  BY <1>1, <1>2, <1>3, RecordSheetAssumption DEF CallTypes, Carries, Saved, Show
<1>5. life[id] # "new"
  BY <1>2, <1>3 DEF Unasked
<1>6. ASSUME id \notin crossed PROVE AtLeast(c.data, rows[id]) /\ life[id] = "alive"
  BY <1>1, <1>2, <1>3, <1>6 DEF WritesApart
<1>7. PICK news : calls' = Carried(calls \ {c}, {"list", "detail"}, news) /\ Anew(news, id)
  BY <1>1, <1>2, <1>3, RelistCarried
<1>8. PICK ops : ops = {"list", "detail"}
  OBVIOUS
<1>9. /\ calls' = Carried(calls \ {c}, ops, news) /\ "list" \in ops
      /\ \A n \in news : IsLoad(n, id)
  BY <1>7, <1>8 DEF Anew
<1>10. \A i \in Ids : ListUpToDate(i)'
  BY <1>1, <1>3, <1>5, <1>7, <1>8, <1>9, ListReadAgain
<1>11. /\ editing' \in {editing, None} /\ drafts' \in [Ids -> RowSoFar]
       /\ FormOfObject \/ c.op = "save" => editing' \notin Ids \/ editing' # id
       /\ \A i \in Ids : Edited' = i =>
            \/ drafts'[i] = row' /\ i = id /\ FormOfObject
            \/ drafts'[i] = drafts[i] /\ editing = i /\ ~FormOfObject
  <2>1. CASE FormOfObject /\ Refill(c.id, c.data)
    <3>1. editing' = None /\ drafts' = [drafts EXCEPT ![id] = c.data]
      BY <1>3, <2>1, RecordSheetAssumption DEF Refill
    <3>2. Edited' = id
      BY <1>1, <1>3, <2>1 DEF Edited, FormOfObject
    <3> QED BY <1>2, <1>3, <1>4, <2>1, <3>1, <3>2, RecordSheetAssumption
  <2>2. CASE /\ ~FormOfObject /\ UNCHANGED drafts /\ editing' \in {editing, None}
             /\ c.op = "save" => editing' = None
    <3>1. Edited' = editing'
      BY <1>1, <2>2 DEF Edited, FormOfObject
    <3> QED BY <1>2, <1>3, <2>2, <3>1, RecordSheetAssumption
  <2> QED BY <2>1, <2>2
<1>12. ASSUME NEW i \in Ids \ crossed, editing' = i, Wrote(i) PROVE Wrote(i)'
  <2>1. CASE i # id
    <3>1. \A d \in calls \ (calls \ {c}) : d.op \in Writes /\ d.state = "ok" => d.id # i
      BY <1>3, <2>1
    <3> QED BY <1>2, <1>9, <1>12, <3>1, WroteKept
  <2>2. CASE i = id
    <3>1. ~FormOfObject /\ c.op = "toggle"
      BY <1>1, <1>3, <1>11, <1>12, <2>2
    <3>2. editing = i
      BY <1>11, <1>12, RecordSheetAssumption
    <3> QED BY <1>2, <1>3, <1>12, <2>2, <3>1, <3>2 DEF SheetUpToDate
  <2> QED BY <2>1, <2>2
<1>13. row' \in RowSoFar /\ calls \ {c} \in SUBSET calls /\ id \in Ids \cup {None} /\ shown' = id
       /\ (id \in Ids \ crossed => AtLeast(row', rows[id]) /\ life[id] = "alive")
  BY <1>1, <1>3, <1>4, <1>6
<1> QED BY <1>1, <1>2, <1>5, <1>9, <1>10, <1>11, <1>12, <1>13, ShowKeepsRecords

LEMMA CreatedKeeps ==
  ASSUME RecordInv, NEW c \in calls, Created(c)
  PROVE  RecordInv'
<1>1. /\ c.op = "create" /\ c.state = "ok" /\ shown' = c.id /\ form' = 0
      /\ calls' = LoadDetails(Relist(calls \ {c}), c.id) /\ Refill(c.id, c.data)
      /\ UNCHANGED <<kind, life, rows, list, crossed, moves>>
  BY DEF Created, Answered, Show, server, ghosts
<1>2. /\ moves' \in Nat /\ moves <= moves' /\ form' \in 0..moves' /\ drafts \in [Ids -> RowSoFar]
      /\ CallTypes /\ \A d \in calls \ {c} : IsCall(d)
      /\ \A i \in Ids : Unasked(i)
      /\ \A i \in Ids \ crossed : WritesApart(i)
  BY <1>1 DEF RecordInv, RowTypes, CallTypes, Carries
<1>3. PICK id : id = c.id /\ id \in Ids
  BY <1>1, <1>2 DEF CallTypes, Carries
<1>4. c.data \in RowSoFar /\ row' = c.data
  BY <1>1, <1>2, <1>3, RecordSheetAssumption DEF CallTypes, Carries, Created, Show
<1>5. life[id] # "new"
  BY <1>2, <1>3 DEF Unasked
<1>6. ASSUME id \notin crossed PROVE AtLeast(c.data, rows[id]) /\ life[id] = "alive"
  BY <1>1, <1>2, <1>3, <1>6 DEF WritesApart
<1>7. PICK news : calls' = Carried(calls \ {c}, {"list", "detail"}, news) /\ Anew(news, id)
  BY <1>1, <1>2, <1>3, RelistCarried
<1>8. PICK ops : ops = {"list", "detail"}
  OBVIOUS
<1>9. /\ calls' = Carried(calls \ {c}, ops, news) /\ "list" \in ops
      /\ \A n \in news : IsLoad(n, id)
  BY <1>7, <1>8 DEF Anew
<1>10. \A i \in Ids : ListUpToDate(i)'
  BY <1>1, <1>3, <1>5, <1>7, <1>8, <1>9, ListReadAgain
<1>11. /\ editing' \in {editing, None} /\ drafts' \in [Ids -> RowSoFar]
       /\ \A i \in Ids : Edited' = i =>
            \/ drafts'[i] = row' /\ i = id /\ FormOfObject
            \/ drafts'[i] = drafts[i] /\ editing = i /\ ~FormOfObject
  <2>1. CASE FormOfObject
    <3>1. editing' = None /\ drafts' = [drafts EXCEPT ![id] = c.data]
      BY <1>1, <1>3, <2>1, RecordSheetAssumption DEF Refill
    <3>2. Edited' = id
      BY <1>1, <1>3, <2>1 DEF Edited, FormOfObject
    <3> QED BY <1>2, <1>3, <1>4, <2>1, <3>1, <3>2
  <2>2. CASE ~FormOfObject
    <3>1. Edited' = editing' /\ UNCHANGED edits
      BY <1>1, <2>2 DEF Edited, FormOfObject, Refill
    <3> QED BY <1>2, <2>2, <3>1 DEF edits
  <2> QED BY <2>1, <2>2
<1>12. ASSUME NEW i \in Ids \ crossed, Wrote(i) PROVE Wrote(i)'
  <2>1. \A d \in calls \ (calls \ {c}) : d.op \in Writes /\ d.state = "ok" => d.id # i
    BY <1>1 DEF Writes
  <2> QED BY <1>2, <1>9, <1>12, <2>1, WroteKept
<1>13. row' \in RowSoFar /\ calls \ {c} \in SUBSET calls /\ id \in Ids \cup {None} /\ shown' = id
       /\ (id \in Ids \ crossed => AtLeast(row', rows[id]) /\ life[id] = "alive")
  BY <1>1, <1>3, <1>4, <1>6
<1> QED BY <1>1, <1>2, <1>5, <1>9, <1>10, <1>11, <1>12, <1>13, ShowKeepsRecords

-----------------------------------------------------------------------------
\* A request is answered, or is not.
Became(new, c, s) ==
  /\ IsCall(new) /\ new.op = c.op /\ new.id = c.id /\ new.data = c.data
  /\ new.live = c.live /\ new.page = c.page /\ new.state = s

LEMMA StateBecame ==
  ASSUME NEW c, IsCall(c), NEW s
  PROVE  \E new : new = [c EXCEPT !.state = s] /\ Became(new, c, s)
<1>1. PICK new : new = [c EXCEPT !.state = s]
  OBVIOUS
<1> QED BY <1>1 DEF Became, IsCall

\* It is answered with what was seen.
Learned(new, c, seen) ==
  new = [c EXCEPT !.state = "ok", !.seen = seen] /\ Became(new, c, "ok")

LEMMA SeenBecame ==
  ASSUME NEW c, IsCall(c), NEW seen \in Nat
  PROVE  \E new : Learned(new, c, seen)
<1>1. PICK mid : mid = [c EXCEPT !.state = "ok"] /\ Became(mid, c, "ok")
  BY StateBecame
<1>2. PICK new : new = [mid EXCEPT !.seen = seen]
  OBVIOUS
<1>3. Became(new, mid, "ok")
  BY <1>1, <1>2 DEF Became, IsCall
<1>4. new = [c EXCEPT !.state = "ok", !.seen = seen]
  BY <1>1, <1>2
<1> QED BY <1>1, <1>3, <1>4 DEF Became, Learned

LEMMA BecameCarries ==
  ASSUME RecordInv, NEW c \in calls, NEW new, NEW s, Became(new, c, s), moves' = moves,
         s # "ok" \/ c.op # "create",
         \A id \in Ids : life'[id] = "new" => life[id] = "new"
  PROVE  Carries(new)' /\ OfMade(new)
<1>1. Carries(c) /\ \A id \in Ids : Unasked(id)
  BY DEF RecordInv, CallTypes
<1>2. Carries(new)'
  BY <1>1 DEF Became, Carries, RowSoFar
<1>3. OfMade(new)
  BY <1>1 DEF Became, OfMade, Unasked
<1> QED BY <1>2, <1>3

\* A request goes on, and what it is about does not change.
LEMMA BecomesKeeps ==
  ASSUME RecordInv, NEW c \in calls, NEW new, NEW s, Became(new, c, s),
         calls' = (calls \ {c}) \cup {new}, crossed \subseteq crossed',
         UNCHANGED <<kind, life, rows, list, shown, row, drafts, editing, form, moves>>,
         s = "error" \/ c.op \notin Writes \cup {"create", "list"},
         c.op \in Writes /\ c.state = "ok" => c.id \in crossed'
  PROVE  RecordInv'
<1>1. /\ CallTypes /\ moves' \in Nat /\ moves <= moves' /\ form' \in 0..moves'
      /\ \A id \in Ids \ crossed : WritesApart(id)
  BY DEF RecordInv, RowTypes
<1>2. calls' = Carried(calls \ {c}, {}, {new}) /\ calls \ {c} \in SUBSET calls
  BY <1>1, CarriedSame DEF CallTypes, Carries
<1>3. Carries(new)' /\ OfMade(new)
  BY BecameCarries
<1>4. ASSUME NEW id \in Ids \ crossed' PROVE WritesApart(id)'
  <2>1. WritesApart(id)
    BY <1>1, <1>4
  <2>2. CASE c.op \in Writes /\ c.id = id
    <3>1. new.state = "error" /\ new.op = c.op /\ new.id = c.id
      BY <2>2 DEF Became
    <3> QED BY <2>1, <2>2, <3>1, ApartAlone
  <2>3. CASE ~(c.op \in Writes /\ c.id = id)
    <3>1. \A n \in {new} : n.op \in Writes \/ (n.op = "create" /\ n.state = "ok") => n.id # id
      BY <2>3 DEF Became
    <3> QED BY <1>1, <1>2, <2>1, <3>1, ApartKept
  <2> QED BY <2>2, <2>3
<1>5. \A n \in {new} :
        /\ Carries(n)' /\ OfMade(n)
        /\ n.op = "list" /\ n.live /\ n.state = "ok" =>
             \A id \in Ids \ crossed : UpToDate(id, n.page)'
        /\ n.op = "toggle" =>
             \/ FormOfObject \/ editing # n.id
             \/ \E d \in calls : d.op = "toggle" /\ d.id = n.id
  BY <1>3 DEF Became
<1>6. \A d \in calls \ (calls \ {c}) :
        /\ d.op = "list" /\ d.live => \E n \in {new} : n.op = "list" /\ n.live
        /\ d.op \in Writes /\ d.state = "ok" => d.id \in crossed'
  BY DEF Became
<1>7. "list" \notin {}
  OBVIOUS
<1> QED BY <1>1, <1>2, <1>4, <1>5, <1>6, <1>7, QuietStep

LEMMA ServeRelatedKeeps ==
  ASSUME RecordInv, DetailInv, NEW c \in calls, ServeRelate(c) \/ ServeDetails(c)
  PROVE  RecordInv'
<1>1. /\ c.op \in Relations \cup {"detail"}
      /\ UNCHANGED <<kind, life, rows, list, shown, row, drafts, editing, form, moves, crossed>>
  BY DEF ServeRelate, ServeDetails, server, sheet, edits, ghosts
<1>2. IsCall(c) /\ c.id \in Ids /\ related[c.id] \in Nat /\ related[c.id] + 1 \in Nat
  <2>1. IsCall(c) /\ Bounded(c) /\ related \in [Ids -> Nat]
    BY DEF DetailInv, Fresh
  <2>2. c.id \in Ids
    BY <1>1, <2>1 DEF Bounded
  <2> QED BY <2>1, <2>2
<1>3. PICK seen : seen \in Nat /\ seen \in {related[c.id], related[c.id] + 1}
                  /\ (ServeRelate(c) => seen = related[c.id] + 1)
                  /\ (ServeDetails(c) => seen = related[c.id])
  BY <1>1, <1>2 DEF ServeRelate, ServeDetails, Relations
<1>4. PICK new : Learned(new, c, seen)
  BY <1>2, <1>3, SeenBecame
<1>5. calls' = (calls \ {c}) \cup {new}
  BY <1>3, <1>4 DEF ServeRelate, ServeDetails, Learned
<1>6. c.op \notin Writes \cup {"create", "list"}
  BY <1>1 DEF Writes, Relations
<1> QED BY <1>1, <1>4, <1>5, <1>6, BecomesKeeps DEF Learned

LEMMA ErrorKeeps ==
  ASSUME RecordInv, NEW c \in calls, Refuse(c) \/ Fail(c)
  PROVE  RecordInv'
<1>1. /\ calls' = (calls \ {c}) \cup {[c EXCEPT !.state = "error"]} /\ crossed \subseteq crossed'
      /\ UNCHANGED <<kind, life, rows, list, shown, row, drafts, editing, form, moves>>
      /\ c.op \in Writes /\ c.state = "ok" => c.id \in crossed'
  BY DEF Refuse, Fail, Becomes, server, sheet, edits, ghosts
<1>2. IsCall(c)
  BY DEF RecordInv, CallTypes, Carries
<1>3. PICK new : new = [c EXCEPT !.state = "error"] /\ Became(new, c, "error")
  BY <1>2, StateBecame
<1> QED BY <1>1, <1>3, BecomesKeeps

\* The list that is read is what the server has.
LEMMA ServeListKeeps ==
  ASSUME RecordInv, NEW c \in calls, ServeList(c)
  PROVE  RecordInv'
<1>1. /\ c.op = "list" /\ calls' = (calls \ {c}) \cup {[c EXCEPT !.state = "ok", !.page = Page]}
      /\ UNCHANGED <<kind, life, rows, list, shown, row, drafts, editing, form, moves, crossed>>
  BY DEF ServeList, server, sheet, edits, ghosts
<1>2. /\ RowTypes /\ CallTypes /\ Carries(c) /\ IsCall(c)
      /\ \A id \in Ids : Unasked(id)
      /\ \A id \in Ids \ crossed : WritesApart(id)
  BY DEF RecordInv, CallTypes, Carries
<1>3. moves' \in Nat /\ moves <= moves' /\ form' \in 0..moves'
  BY <1>1, <1>2 DEF RowTypes
<1>4. PICK p : p = Page
  OBVIOUS
<1>5. PICK mid : mid = [c EXCEPT !.state = "ok"] /\ Became(mid, c, "ok")
  BY <1>2, StateBecame
<1>6. PICK new : new = [mid EXCEPT !.page = p]
  OBVIOUS
<1>7. /\ IsCall(new) /\ new.op = "list" /\ new.id = c.id /\ new.live = c.live /\ new.state = "ok"
      /\ new.page = p
  BY <1>1, <1>5, <1>6 DEF Became, IsCall
<1>8. calls' = (calls \ {c}) \cup {new}
  BY <1>1, <1>4, <1>5, <1>6
<1>9. p.ids = {id \in Ids : life[id] = "alive"} /\ p.rows = rows
  BY <1>4 DEF Page, Alive
<1>10. Carries(new)'
  BY <1>1, <1>2, <1>7, <1>9 DEF Carries, Writes, RowTypes, RowSoFar
<1>11. OfMade(new)
  BY <1>1, <1>2, <1>7, <1>9 DEF OfMade, Unasked
<1>12. ASSUME NEW id \in Ids PROVE UpToDate(id, new.page)'
  <2>1. rows[id] \in RowSoFar /\ moves \in Nat
    BY <1>2 DEF RowTypes
  <2>2. AtLeast(rows[id], rows[id])
    BY <2>1 DEF AtLeast, RowSoFar
  <2>3. UpToDate(id, p)
    BY <1>9, <2>2 DEF UpToDate
  <2>4. UpToDate(id, p)'
    BY <1>1, <1>9, <2>2 DEF UpToDate, AtLeast
  <2> QED BY <1>7, <2>4
<1>13. calls' = Carried(calls \ {c}, {}, {new}) /\ calls \ {c} \in SUBSET calls
  BY <1>2, <1>8, CarriedSame DEF CallTypes, Carries
<1>14. ASSUME NEW id \in Ids \ crossed' PROVE WritesApart(id)'
  <2>1. \A n \in {new} : n.op \in Writes \/ (n.op = "create" /\ n.state = "ok") => n.id # id
    BY <1>7 DEF Writes
  <2> QED BY <1>1, <1>2, <1>13, <1>14, <2>1, ApartKept
<1>15. \A n \in {new} :
        /\ Carries(n)' /\ OfMade(n)
        /\ n.op = "list" /\ n.live /\ n.state = "ok" =>
             \A id \in Ids \ crossed : UpToDate(id, n.page)'
        /\ n.op = "toggle" =>
             \/ FormOfObject \/ editing # n.id
             \/ \E d \in calls : d.op = "toggle" /\ d.id = n.id
  BY <1>7, <1>10, <1>11, <1>12
<1>16. \A d \in calls \ (calls \ {c}) :
        /\ d.op = "list" /\ d.live => \E n \in {new} : n.op = "list" /\ n.live
        /\ d.op \in Writes /\ d.state = "ok" => d.id \in crossed'
  BY <1>1, <1>7 DEF Writes
<1>17. "list" \notin {}
  OBVIOUS
<1> QED BY <1>1, <1>3, <1>13, <1>14, <1>15, <1>16, <1>17, QuietStep

-----------------------------------------------------------------------------
\* What is written and what goes on being so, for one record and the others.
LEMMA ServeSaveKeeps ==
  ASSUME RecordInv, NEW c \in calls, c.state = "sent", ServeSave(c)
  PROVE  RecordInv'
<1>1. /\ c.op \in {"save", "toggle"} /\ c.op \in Writes /\ rows' = [rows EXCEPT ![c.id] = c.data]
      /\ calls' = (calls \ {c}) \cup {[c EXCEPT !.state = "ok"]} /\ life[c.id] = "alive"
      /\ UNCHANGED <<kind, life, list, shown, row, drafts, editing, form, moves, crossed>>
  BY DEF ServeSave, Served, Becomes, Writes, sheet, edits, ghosts
<1>2. /\ RowTypes /\ CallTypes /\ Carries(c) /\ IsCall(c)
      /\ \A id \in Ids : Unknown(id)
      /\ \A id \in Ids \ crossed : WritesApart(id) /\ ListUpToDate(id) /\ SheetUpToDate(id)
  BY DEF RecordInv, CallTypes, Carries
<1>3. PICK new : new = [c EXCEPT !.state = "ok"] /\ Became(new, c, "ok")
  BY <1>2, StateBecame
<1>4. /\ calls' = (calls \ {c}) \cup {new} /\ new \in calls'
      /\ calls' = Carried(calls \ {c}, {}, {new}) /\ calls \ {c} \in SUBSET calls
  <2>1. calls' = (calls \ {c}) \cup {new}
    BY <1>1, <1>3
  <2> QED BY <1>2, <2>1, CarriedSame DEF CallTypes, Carries
<1>5. c.id \in Ids /\ c.data \in RowSoFar /\ moves \in Nat /\ RowSoFar' = RowSoFar
  BY <1>1, <1>2 DEF Carries, RowTypes, RowSoFar
<1>6. CallTypes' /\ \A id \in Ids : Unasked(id)'
  <2>1. Carries(new)' /\ OfMade(new)
    BY <1>1, <1>3, BecameCarries
  <2>2. moves' \in Nat /\ moves <= moves'
    BY <1>1, <1>5
  <2> QED BY <1>1, <1>4, <2>1, <2>2, CallsCarried
<1>7. RowTypes'
  <2>1. rows' \in [Ids -> RowSoFar']
    BY <1>1, <1>2, <1>5 DEF RowTypes
  <2> QED BY <1>1, <1>2, <1>5, <2>1 DEF RowTypes
<1>8. \A id \in Ids : Unknown(id)'
  BY <1>1, <1>2, <1>5 DEF Unknown, RowTypes
<1>9. ASSUME NEW id \in Ids \ crossed
      PROVE  WritesApart(id)' /\ ListUpToDate(id)' /\ SheetUpToDate(id)'
  <2>1. WritesApart(id) /\ ListUpToDate(id) /\ SheetUpToDate(id)
    BY <1>2
  <2>2. \A v \in calls' : v.op = "toggle" /\ v.id = id => \E d \in calls : d.op = "toggle" /\ d.id = id
    BY <1>3, <1>4 DEF Became
  <2>3. \A d \in calls \ (calls \ {c}) : d.op # "list" /\ (d.op \in Writes /\ d.state = "ok" => d.id # id)
    BY <1>1
  <2>4. new.op = c.op /\ new.id = c.id /\ new.data = c.data /\ new.state = "ok"
        /\ new.op # "list" /\ new.op # "create"
    BY <1>1, <1>3 DEF Became
  <2>5. CASE c.id = id
    <3>1. rows'[id] = c.data /\ AtLeast(c.data, c.data) /\ life'[id] = "alive"
      BY <1>1, <1>2, <1>5, <2>5 DEF RowTypes, AtLeast, RowSoFar
    <3>2. WritesApart(id)'
      BY <1>1, <1>4, <2>1, <2>4, <2>5, <3>1, ApartAlone
    <3>3. Wrote(id)'
      BY <1>1, <1>4, <2>4, <2>5 DEF Wrote
    <3>4. \A p : UpToDate(id, p)'
      BY <3>1, <3>3 DEF UpToDate
    <3>5. ListUpToDate(id)'
      BY <1>1, <1>2, <1>4, <2>1, <2>3, <2>4, <3>4, ListKept
    <3>6. ASSUME ~FormOfObject', editing' = id, NEW v \in calls', v.op = "toggle" PROVE v.id # id
      <4>1. ~FormOfObject /\ editing = id
        BY <1>1, <3>6 DEF FormOfObject
      <4> QED BY <2>1, <2>2, <3>6, <4>1 DEF SheetUpToDate
    <3>7. SheetUpToDate(id)'
      BY <3>1, <3>3, <3>6 DEF SheetUpToDate
    <3> QED BY <3>2, <3>5, <3>7
  <2>6. CASE c.id # id
    <3>1. rows'[id] = rows[id] /\ life'[id] = life[id]
      BY <1>1, <1>2, <1>5, <2>6 DEF RowTypes
    <3>2. (Wrote(id) => Wrote(id)') /\ (Dropped(id) => Dropped(id)')
      BY <1>2, <1>4, <2>3, WroteKept
    <3>3. \A p : UpToDate(id, p) => UpToDate(id, p)'
      BY <3>1, <3>2, PagesKept
    <3>4. WritesApart(id)'
      BY <1>2, <1>4, <2>1, <2>4, <2>6, <3>1, ApartKept
    <3>5. ListUpToDate(id)'
      BY <1>1, <1>2, <1>4, <2>1, <2>3, <2>4, <3>3, ListKept
    <3>6. SheetUpToDate(id)'
      BY <1>1, <2>1, <2>2, <3>1, <3>2, SheetKept
    <3> QED BY <3>4, <3>5, <3>6
  <2> QED BY <2>5, <2>6
<1> QED BY <1>1, <1>6, <1>7, <1>8, <1>9 DEF RecordInv

LEMMA ServeDeleteKeeps ==
  ASSUME RecordInv, NEW c \in calls, c.state = "sent", ServeDelete(c)
  PROVE  RecordInv'
<1>1. /\ c.op = "delete" /\ c.op \in Writes /\ life' = [life EXCEPT ![c.id] = "gone"]
      /\ calls' = (calls \ {c}) \cup {[c EXCEPT !.state = "ok"]}
      /\ UNCHANGED <<kind, rows, list, shown, row, drafts, editing, form, moves, crossed>>
  BY DEF ServeDelete, Served, Becomes, Writes, sheet, edits, ghosts
<1>2. /\ RowTypes /\ CallTypes /\ Carries(c) /\ IsCall(c)
      /\ \A id \in Ids : Unknown(id)
      /\ \A id \in Ids \ crossed : WritesApart(id) /\ ListUpToDate(id) /\ SheetUpToDate(id)
  BY DEF RecordInv, CallTypes, Carries
<1>3. PICK new : new = [c EXCEPT !.state = "ok"] /\ Became(new, c, "ok")
  BY <1>2, StateBecame
<1>4. /\ calls' = (calls \ {c}) \cup {new} /\ new \in calls'
      /\ calls' = Carried(calls \ {c}, {}, {new}) /\ calls \ {c} \in SUBSET calls
  <2>1. calls' = (calls \ {c}) \cup {new}
    BY <1>1, <1>3
  <2> QED BY <1>2, <2>1, CarriedSame DEF CallTypes, Carries
<1>5. /\ c.id \in Ids /\ moves \in Nat
      /\ life'[c.id] = "gone" /\ \A id \in Ids : id # c.id => life'[id] = life[id]
      /\ life' \in [Ids -> {"new", "alive", "gone"}]
  BY <1>1, <1>2 DEF Carries, RowTypes
<1>6. CallTypes' /\ \A id \in Ids : Unasked(id)'
  <2>1. \A id \in Ids : life'[id] = "new" => life[id] = "new"
    BY <1>5
  <2>2. Carries(new)' /\ OfMade(new)
    BY <1>1, <1>3, <2>1, BecameCarries
  <2>3. moves' \in Nat /\ moves <= moves'
    BY <1>1, <1>5
  <2> QED BY <1>4, <2>1, <2>2, <2>3, CallsCarried
<1>7. RowTypes'
  BY <1>1, <1>2, <1>5 DEF RowTypes, RowSoFar
<1>8. \A id \in Ids : Unknown(id)'
  BY <1>1, <1>2, <1>5 DEF Unknown
<1>9. ASSUME NEW id \in Ids \ crossed
      PROVE  WritesApart(id)' /\ ListUpToDate(id)' /\ SheetUpToDate(id)'
  <2>1. WritesApart(id) /\ ListUpToDate(id) /\ SheetUpToDate(id)
    BY <1>2
  <2>2. \A v \in calls' : v.op = "toggle" /\ v.id = id => \E d \in calls : d.op = "toggle" /\ d.id = id
    BY <1>1, <1>3, <1>4 DEF Became
  <2>3. \A d \in calls \ (calls \ {c}) : d.op # "list" /\ (d.op \in Writes /\ d.state = "ok" => d.id # id)
    BY <1>1
  <2>4. new.op = c.op /\ new.id = c.id /\ new.state = "ok" /\ new.op # "list" /\ new.op # "create"
    BY <1>1, <1>3 DEF Became
  <2>5. (Wrote(id) => Wrote(id)') /\ (Dropped(id) => Dropped(id)')
    BY <1>2, <1>4, <2>3, WroteKept
  <2>6. CASE c.id = id
    <3>1. WritesApart(id)'
      BY <1>1, <1>4, <2>1, <2>4, <2>6, ApartAlone
    <3>2. Dropped(id)'
      BY <1>1, <1>4, <2>4, <2>6 DEF Dropped
    <3>3. \A p : UpToDate(id, p) => UpToDate(id, p)'
      BY <1>1, <2>5, <3>2 DEF UpToDate, AtLeast
    <3>4. ListUpToDate(id)'
      BY <1>1, <1>2, <1>4, <2>1, <2>3, <2>4, <3>3, ListKept
    <3>5. ASSUME ~FormOfObject', editing' = id, NEW v \in calls', v.op = "toggle" PROVE v.id # id
      <4>1. ~FormOfObject /\ editing = id
        BY <1>1, <3>5 DEF FormOfObject
      <4> QED BY <2>1, <2>2, <3>5, <4>1 DEF SheetUpToDate
    <3>6. SheetUpToDate(id)'
      <4>1. Edited' = Edited
        BY <1>1 DEF Edited, FormOfObject
      <4>2. (AtLeast(row, rows[id]) => AtLeast(row, rows[id])')
            /\ (AtLeast(drafts[id], rows[id]) => AtLeast(drafts[id], rows[id])')
        BY <1>1 DEF AtLeast
      <4> QED BY <1>1, <2>1, <2>5, <3>2, <3>5, <4>1, <4>2 DEF SheetUpToDate
    <3> QED BY <3>1, <3>4, <3>6
  <2>7. CASE c.id # id
    <3>1. rows'[id] = rows[id] /\ life'[id] = life[id]
      BY <1>1, <1>5, <2>7
    <3>2. \A p : UpToDate(id, p) => UpToDate(id, p)'
      BY <2>5, <3>1, PagesKept
    <3>3. WritesApart(id)'
      BY <1>2, <1>4, <2>1, <2>4, <2>7, <3>1, ApartKept
    <3>4. ListUpToDate(id)'
      BY <1>1, <1>2, <1>4, <2>1, <2>3, <2>4, <3>2, ListKept
    <3>5. SheetUpToDate(id)'
      BY <1>1, <2>1, <2>2, <2>5, <3>1, SheetKept
    <3> QED BY <3>3, <3>4, <3>5
  <2> QED BY <2>6, <2>7
<1> QED BY <1>1, <1>6, <1>7, <1>8, <1>9 DEF RecordInv

\* A record is made that nothing and nobody knew.
LEMMA ServeCreateKeeps ==
  ASSUME RecordInv, NEW c \in calls, c.state = "sent", ServeCreate(c)
  PROVE  RecordInv'
<1>1. /\ c.op = "create" /\ c.op \notin Writes /\ c.data \in RowSoFar /\ moves \in Nat
      /\ UNCHANGED <<kind, list, shown, row, drafts, editing, form, moves, crossed>>
      /\ IsCall(c)
  BY DEF ServeCreate, sheet, edits, RecordInv, RowTypes, CallTypes, Carries, Writes
<1>2. PICK made \in Ids :
        /\ life[made] = "new" /\ life' = [life EXCEPT ![made] = "alive"]
        /\ rows' = [rows EXCEPT ![made] = c.data]
        /\ born' = [born EXCEPT ![made] = c.data.typed]
        /\ calls' = (calls \ {c}) \cup {[c EXCEPT !.state = "ok", !.id = made]}
  BY Zenon DEF ServeCreate
<1>3. /\ RowTypes /\ CallTypes /\ \A id \in Ids : Unknown(id) /\ Unasked(id)
      /\ \A id \in Ids \ crossed : WritesApart(id) /\ ListUpToDate(id) /\ SheetUpToDate(id)
  BY DEF RecordInv
<1>4. PICK mid : mid = [c EXCEPT !.state = "ok"] /\ Became(mid, c, "ok")
  BY <1>1, StateBecame
<1>5. PICK new : new = [mid EXCEPT !.id = made]
  OBVIOUS
<1>6. /\ IsCall(new) /\ new.op = "create" /\ new.id = made /\ new.data = c.data
      /\ new.state = "ok" /\ new.page = c.page
  <2>1. /\ IsCall(mid) /\ mid.op = "create" /\ mid.data = c.data /\ mid.state = "ok"
        /\ mid.page = c.page
    BY <1>1, <1>4 DEF Became
  <2>2. /\ IsCall(new) /\ new.op = mid.op /\ new.id = made /\ new.data = mid.data
        /\ new.state = mid.state
    BY <1>5, <2>1, IdField
  <2>3. new.page = mid.page
    BY <1>5, <2>1 DEF IsCall
  <2> QED BY <2>1, <2>2, <2>3
<1>7. /\ calls' = (calls \ {c}) \cup {new} /\ new \in calls'
      /\ calls' = Carried(calls \ {c}, {}, {new}) /\ calls \ {c} \in SUBSET calls
  <2>1. calls' = (calls \ {c}) \cup {new}
    BY <1>2, <1>4, <1>5
  <2> QED BY <1>3, <2>1, CarriedSame DEF CallTypes, Carries
<1>8. /\ life'[made] = "alive" /\ rows'[made] = c.data
      /\ \A id \in Ids : id # made => life'[id] = life[id] /\ rows'[id] = rows[id]
      /\ life' \in [Ids -> {"new", "alive", "gone"}] /\ rows' \in [Ids -> RowSoFar]
  BY <1>1, <1>2, <1>3 DEF RowTypes
<1>9. CallTypes' /\ \A id \in Ids : Unasked(id)'
  <2>1. \A id \in Ids : life'[id] = "new" => life[id] = "new"
    BY <1>8
  <2>2. Carries(new)'
    BY <1>1, <1>6 DEF Carries, RowSoFar, Writes
  <2>3. OfMade(new)
    BY <1>6, <1>8 DEF OfMade
  <2>4. moves' \in Nat /\ moves <= moves'
    BY <1>1
  <2> QED BY <1>7, <2>1, <2>2, <2>3, <2>4, CallsCarried
<1>10. RowTypes'
  BY <1>1, <1>3, <1>8 DEF RowTypes, RowSoFar
<1>11. \A id \in Ids : Unknown(id)'
  BY <1>1, <1>3, <1>8 DEF Unknown
<1>12. ASSUME NEW id \in Ids \ crossed
       PROVE  WritesApart(id)' /\ ListUpToDate(id)' /\ SheetUpToDate(id)'
  <2>1. WritesApart(id) /\ ListUpToDate(id) /\ SheetUpToDate(id) /\ Unknown(id) /\ Unasked(id)
    BY <1>3
  <2>2. CASE id = made
    <3>1. /\ \A d \in calls : d.id # id /\ (d.op = "list" => id \notin d.page.ids)
          /\ id \notin list.ids /\ shown # id /\ editing # id
      BY <1>2, <2>1, <2>2 DEF Unknown, Unasked
    <3>2. \A d \in calls' : d.op \in Writes => d.id # id
      BY <1>6, <1>7, <3>1 DEF Writes
    <3>3. \A d \in calls' : d.op = "create" /\ d.id = id => d = new
      BY <1>7, <3>1
    <3>4. AtLeast(c.data, c.data)
      BY <1>1 DEF AtLeast, RowSoFar
    <3>5. WritesApart(id)'
      <4>1. \A d \in calls' : d.op \in {"save", "toggle"} => d.id # id
        BY <3>2 DEF Writes
      <4>2. AtLeast(new.data, rows[id])' /\ life'[id] = "alive"
        BY <1>6, <1>8, <2>2, <3>4 DEF AtLeast
      <4> QED BY <3>2, <3>3, <4>1, <4>2 DEF WritesApart
    <3>6. \A d \in calls' : d.op = "list" => id \notin d.page.ids
      BY <1>6, <1>7, <3>1
    <3>7. ListUpToDate(id)'
      BY <1>1, <3>1, <3>6 DEF ListUpToDate, UpToDate
    <3>8. SheetUpToDate(id)'
      BY <1>1, <3>1 DEF SheetUpToDate, Edited, FormOfObject
    <3> QED BY <3>5, <3>7, <3>8
  <2>3. CASE id # made
    <3>1. rows'[id] = rows[id] /\ life'[id] = life[id]
      BY <1>8, <2>3
    <3>2. \A d \in calls \ (calls \ {c}) : d.op # "list" /\ (d.op \in Writes /\ d.state = "ok" => d.id # id)
      BY <1>1
    <3>3. (Wrote(id) => Wrote(id)') /\ (Dropped(id) => Dropped(id)')
      BY <1>3, <1>7, <3>2, WroteKept
    <3>4. \A p : UpToDate(id, p) => UpToDate(id, p)'
      BY <3>1, <3>3, PagesKept
    <3>5. new.op # "list" /\ new.op # "toggle" /\ new.id # id
      BY <1>6, <2>3
    <3>6. WritesApart(id)'
      BY <1>3, <1>7, <2>1, <3>1, <3>5, ApartKept
    <3>7. ListUpToDate(id)'
      BY <1>1, <1>3, <1>7, <2>1, <3>2, <3>4, <3>5, ListKept
    <3>8. \A v \in calls' : v.op = "toggle" /\ v.id = id => \E d \in calls : d.op = "toggle" /\ d.id = id
      BY <1>7, <3>5
    <3>9. SheetUpToDate(id)'
      BY <1>1, <2>1, <3>1, <3>3, <3>8, SheetKept
    <3> QED BY <3>6, <3>7, <3>9
  <2> QED BY <2>2, <2>3
<1> QED BY <1>1, <1>9, <1>10, <1>11, <1>12 DEF RecordInv

-----------------------------------------------------------------------------
\* A request is done with, and tells the sheet nothing about the record's fields.
LEMMA DoneKeeps ==
  ASSUME RecordInv, NEW c \in calls, NEW ops, "list" \notin ops, NEW news,
         calls' = Carried(calls \ {c}, ops, news),
         \A n \in news : IsLoad(n, shown) /\ n.op = "detail",
         UNCHANGED <<kind, life, rows, list, shown, row, drafts, form, moves, crossed>>,
         editing' = editing \/ (FormOfObject /\ editing' = None),
         c.op = "list" => ~c.live, c.op \in Writes => c.state # "ok"
  PROVE  RecordInv'
<1>1. /\ CallTypes /\ moves' \in Nat /\ moves <= moves' /\ form' \in 0..moves'
      /\ shown \in Ids => life[shown] # "new"
      /\ \A id \in Ids \ crossed : WritesApart(id)
  BY DEF RecordInv, RowTypes, Unknown
<1>2. \A n \in news : /\ Carries(n)' /\ OfMade(n) /\ n.op = "detail"
                      /\ n.op \notin Writes \cup {"create"}
  BY <1>1, NewLoads
<1>3. calls \ {c} \in SUBSET calls
  OBVIOUS
<1>4. ASSUME NEW id \in Ids \ crossed' PROVE WritesApart(id)'
  BY <1>1, <1>2, <1>3, <1>4, ApartKept
<1>5. \A n \in news :
        /\ Carries(n)' /\ OfMade(n)
        /\ n.op = "list" /\ n.live /\ n.state = "ok" =>
             \A id \in Ids \ crossed : UpToDate(id, n.page)'
        /\ n.op = "toggle" =>
             \/ FormOfObject \/ editing # n.id
             \/ \E d \in calls : d.op = "toggle" /\ d.id = n.id
  BY <1>2
<1>6. \A d \in calls \ (calls \ {c}) :
        /\ d.op = "list" /\ d.live => \E n \in news : n.op = "list" /\ n.live
        /\ d.op \in Writes /\ d.state = "ok" => d.id \in crossed'
  OBVIOUS
<1> QED BY <1>1, <1>3, <1>4, <1>5, <1>6, QuietStep

LEMMA ForgottenKeeps ==
  ASSUME RecordInv, NEW c \in calls, calls' = calls \ {c},
         UNCHANGED <<kind, life, rows, list, shown, row, drafts, form, moves, crossed>>,
         editing' = editing \/ (FormOfObject /\ editing' = None),
         c.op = "list" => ~c.live, c.op \in Writes => c.state # "ok"
  PROVE  RecordInv'
<1>1. \A d \in calls \ {c} : IsCall(d)
  BY DEF RecordInv, CallTypes, Carries
<1>2. (calls \ {c}) \cup {} = Carried(calls \ {c}, {}, {})
  BY <1>1, CarriedSame
<1>3. calls' = Carried(calls \ {c}, {}, {}) /\ "list" \notin {}
  BY <1>2
<1> QED BY <1>3, DoneKeeps

LEMMA RelatedKeeps ==
  ASSUME RecordInv, NEW c \in calls, Related(c)
  PROVE  RecordInv'
<1>1. /\ c.op \notin Writes \cup {"list"} /\ calls' = LoadDetails(calls \ {c}, shown)
      /\ UNCHANGED <<kind, life, rows, list, shown, row, drafts, editing, form, moves, crossed>>
  BY DEF Related, Answered, Relations, Writes, server, edits
<1>2. shown \in Ids \cup {None}
  BY DEF RecordInv, RowTypes
<1>3. PICK news : /\ calls' = Carried(calls \ {c}, {"detail"}, news)
                  /\ \A n \in news : IsLoad(n, shown) /\ n.op = "detail"
  BY <1>1, <1>2, LoadDetailsCarried
<1>4. "list" \notin {"detail"}
  OBVIOUS
<1> QED BY <1>1, <1>3, <1>4, DoneKeeps

LEMMA FailedKeeps ==
  ASSUME RecordInv, NEW c \in calls, Failed(c), UNCHANGED drafts,
         editing' = editing \/ (FormOfObject /\ editing' = None)
  PROVE  RecordInv'
BY ForgottenKeeps DEF Failed, server, sheet, ghosts

LEMMA DetailsKeep ==
  ASSUME RecordInv, NEW c \in calls, DetailsAnswer(c) \/ DetailsFail(c)
  PROVE  RecordInv'
<1>1. /\ c.op \notin Writes \cup {"list"} /\ calls' = calls \ {c}
      /\ UNCHANGED <<kind, life, rows, list, shown, row, drafts, editing, form, moves, crossed>>
  BY DEF DetailsAnswer, DetailsFail, Answered, Writes, server, edits, ghosts
<1> QED BY <1>1, ForgottenKeeps

\* The list shows what was read, if nothing was asked since.
LEMMA ListAnswersKeep ==
  ASSUME RecordInv, NEW c \in calls, ListAnswers(c)
  PROVE  RecordInv'
<1>1. /\ c.op = "list" /\ c.op \notin Writes /\ calls' = calls \ {c}
      /\ UNCHANGED <<kind, life, rows, shown, row, drafts, editing, form, moves, crossed>>
  BY DEF ListAnswers, Writes, server, sheet, edits, ghosts
<1>2. /\ RowTypes /\ CallTypes /\ Carries(c)
      /\ \A id \in Ids : Unknown(id) /\ Unasked(id)
      /\ \A id \in Ids \ crossed : WritesApart(id) /\ ListUpToDate(id) /\ SheetUpToDate(id)
  BY DEF RecordInv, CallTypes
<1>3. CASE ~c.live
  <2>1. UNCHANGED list
    BY <1>3 DEF ListAnswers
  <2> QED BY <1>1, <1>3, <2>1, ForgottenKeeps
<1>4. CASE c.live
  <2>1. \/ /\ c.state = "ok"
           /\ list'.ids = c.page.ids /\ list'.rows = c.page.rows /\ list'.shown = TRUE
        \/ list'.ids = list.ids /\ list'.rows = list.rows /\ list'.shown = FALSE
    <3>1. CASE c.state = "ok"
      <4>1. list' = [ids |-> c.page.ids, rows |-> c.page.rows, shown |-> TRUE]
        BY <1>4, <3>1 DEF ListAnswers
      <4> QED BY <3>1, <4>1
    <3>2. CASE c.state # "ok"
      <4>1. list' = [list EXCEPT !.shown = FALSE]
        BY <1>4, <3>2 DEF ListAnswers
      <4> QED BY <4>1
    <3> QED BY <3>1, <3>2
  <2>2. list'.ids \in SUBSET Ids /\ list'.rows \in [Ids -> RowSoFar] /\ list'.shown \in BOOLEAN
    BY <1>1, <1>2, <2>1 DEF Carries, RowTypes
  <2>3. RowTypes'
    BY <1>1, <1>2, <2>2 DEF RowTypes, RowSoFar
  <2>4. calls' = Carried(calls \ {c}, {}, {}) /\ calls \ {c} \in SUBSET calls
    BY <1>1, <1>2, CarriedSame DEF CallTypes, Carries
  <2>5. CallTypes' /\ \A id \in Ids : Unasked(id)'
    BY <1>1, <1>2, <2>3, <2>4, CallsCarried DEF RowTypes
  <2>6. \A id \in Ids : Unknown(id)'
    BY <1>1, <1>2, <2>1 DEF Unknown, Unasked
  <2>7. ASSUME NEW id \in Ids \ crossed
        PROVE  WritesApart(id)' /\ ListUpToDate(id)' /\ SheetUpToDate(id)'
    <3>1. WritesApart(id) /\ ListUpToDate(id) /\ SheetUpToDate(id)
      BY <1>2
    <3>2. (Wrote(id) => Wrote(id)') /\ (Dropped(id) => Dropped(id)')
      BY <1>1, <1>2, <2>4, WroteKept
    <3>3. \A p : UpToDate(id, p) => UpToDate(id, p)'
      BY <1>1, <3>2, PagesKept
    <3>4. list'.shown => UpToDate(id, list)'
      <4>1. SUFFICES ASSUME list'.shown PROVE UpToDate(id, list)'
        OBVIOUS
      <4>2. c.state = "ok" /\ list'.ids = c.page.ids /\ list'.rows = c.page.rows
        BY <2>1, <4>1
      <4>3. UpToDate(id, c.page)'
        BY <1>1, <1>4, <3>1, <3>3, <4>2 DEF ListUpToDate
      <4> QED BY <4>2, <4>3 DEF UpToDate
    <3>5. \A d \in calls' : d.op = "list" /\ d.live /\ d.state = "ok" => UpToDate(id, d.page)'
      BY <1>1, <3>1, <3>3 DEF ListUpToDate
    <3>6. ListUpToDate(id)'
      BY <3>4, <3>5 DEF ListUpToDate
    <3>7. WritesApart(id)'
      BY <1>1, <1>2, <2>4, <3>1, ApartKept
    <3>8. \A v \in calls' : v.op = "toggle" /\ v.id = id => \E d \in calls : d.op = "toggle" /\ d.id = id
      BY <1>1
    <3>9. SheetUpToDate(id)'
      BY <1>1, <3>1, <3>2, <3>8, SheetKept
    <3> QED BY <3>6, <3>7, <3>9
  <2> QED BY <1>1, <2>3, <2>5, <2>6, <2>7 DEF RecordInv
<1> QED BY <1>3, <1>4

-----------------------------------------------------------------------------
\* Details are loaded about records that were made.
DetailMade == \A id \in Ids : life[id] = "new" => detail.of # id

\* No step takes a record back to where it was not made yet, and what is loaded
\* is about the record it was about, or the one it was asked for.
LEMMA MadeStays ==
  ASSUME RecordInv, DetailInv, Next
  PROVE  /\ \A id \in Ids : life'[id] = "new" => life[id] = "new"
         /\ \/ detail'.of \in {detail.of, None}
            \/ \E c \in calls : c.op = "detail" /\ detail'.of = c.id
<1> DEFINE Same == UNCHANGED life
           About == \/ detail'.of \in {detail.of, None}
                    \/ \E c \in calls : c.op = "detail" /\ detail'.of = c.id
<1>1. ASSUME NEW id, detail' = DetailsLoading(id) PROVE About
  <2>1. [detail EXCEPT !.state = "loading"].of = detail.of /\ NoDetail.of = None
    BY DEF DetailInv, NoDetail
  <2> QED BY <1>1, <2>1 DEF DetailsLoading
<1>2. CASE Clicks
  <2>1. ASSUME Save \/ Toggle \/ Delete PROVE Same /\ About
    BY <2>1 DEF Save, Toggle, Delete, Write, server, sheet
  <2>2. ASSUME \/ OpenForm \/ CloseForm \/ Submit \/ (\E op, id : Relate(op, id))
        PROVE Same /\ About
    BY <2>2 DEF OpenForm, CloseForm, Submit, Relate, server, sheet
  <2>3. ASSUME Close \/ \E id \in Ids : Select(id) PROVE Same /\ About
    BY <1>1, <2>3 DEF Close, Select, Show, server
  <2>4. ASSUME \/ EditPerson \/ CancelPerson \/ EditCompany \/ CancelCompany \/ OpenDeal \/ OpenTask
        PROVE Same /\ About
    BY <2>4
    DEF EditPerson, CancelPerson, EditCompany, CancelCompany, OpenDeal, OpenTask, server, sheet
  <2>5. CASE Close \/ ComposeActivity \/ ChangeActivity
    BY <2>2, <2>3, <2>5 DEF ComposeActivity, ChangeActivity
  <2>6. CASE PersonClicks
    BY <2>1, <2>2, <2>3, <2>4, <2>6
    DEF PersonClicks, SelectPerson, SavePerson, TogglePerson, DeletePerson, LinkPersonCompany,
        CreatePersonCompany, UnlinkPersonCompany, CreatePersonTask, TogglePersonTask, PersonForm
  <2>7. CASE CompanyClicks
    BY <2>1, <2>2, <2>3, <2>4, <2>7
    DEF CompanyClicks, SelectCompany, SaveCompany, DeleteCompany, CreateCompanyTask,
        ToggleCompanyTask, CompanyForm
  <2>8. CASE DealClicks
    BY <2>1, <2>2, <2>3, <2>4, <2>8
    DEF DealClicks, SelectDeal, SaveDeal, DeleteDeal, LinkDealPerson, LinkDealCompany,
        UnlinkDealPerson, UnlinkDealCompany, CreateDealTask, EditDealTask, DealForm
  <2>9. CASE TaskClicks
    BY <2>1, <2>3, <2>4, <2>9
    DEF TaskClicks, SelectTask, SelectDashboardTask, SaveTask, ToggleTask, DeleteTask,
        LinkTaskPerson, LinkTaskCompany, LinkTaskDeal, UnlinkTask
  <2> QED BY <1>2, <2>5, <2>6, <2>7, <2>8, <2>9 DEF Clicks
<1>3. ASSUME NEW c \in calls, Serve(c) \/ Refuse(c) \/ Fail(c)
      PROVE  About /\ \A id \in Ids : life'[id] = "new" => life[id] = "new"
  <2>1. UNCHANGED detail
    BY <1>3
    DEF Serve, ServeSave, ServeDelete, ServeRelate, ServeCreate, ServeList, ServeDetails, Served,
        Refuse, Fail, sheet
  <2>2. ASSUME NEW id \in Ids, life'[id] = "new" PROVE life[id] = "new"
    <3>1. life \in [Ids -> {"new", "alive", "gone"}]
      BY DEF RecordInv, RowTypes
    <3>2. CASE ServeDelete(c)
      BY <2>2, <3>1, <3>2 DEF ServeDelete
    <3>3. CASE ServeCreate(c)
      BY <2>2, <3>1, <3>3 DEF ServeCreate
    <3>4. CASE \/ ServeSave(c) \/ ServeRelate(c) \/ ServeList(c) \/ ServeDetails(c)
               \/ Refuse(c) \/ Fail(c)
      BY <2>2, <3>4 DEF ServeSave, ServeRelate, ServeList, ServeDetails, Refuse, Fail, server
    <3> QED BY <1>3, <3>2, <3>3, <3>4 DEF Serve
  <2> QED BY <2>1, <2>2
<1>4. ASSUME NEW c \in calls, Answers(c) PROVE Same /\ About
  <2>1. ASSUME Saved(c) \/ Deleted(c) \/ Related(c) \/ Created(c) PROVE Same /\ About
    BY <1>1, <2>1 DEF Saved, Deleted, Related, Created, Show, server
  <2>2. ASSUME Failed(c) \/ ListAnswers(c) PROVE Same /\ About
    BY <2>2 DEF Failed, ListAnswers, server, sheet
  <2>3. ASSUME DetailsAnswer(c) \/ DetailsFail(c) PROVE Same /\ About
    <3>1. [NoDetail EXCEPT !.state = "failed"].of = None
      BY DEF NoDetail
    <3>2. c.op = "detail" /\ UNCHANGED life
      BY <2>3 DEF DetailsAnswer, DetailsFail, Answered, server
    <3>3. detail' \in {detail, [NoDetail EXCEPT !.state = "failed"],
                      [of |-> c.id, seen |-> c.seen, state |-> "ready"]}
      BY <2>3 DEF DetailsAnswer, DetailsFail
    <3>4. detail'.of \in {detail.of, None, c.id}
      <4>1. CASE detail' = detail
        BY <4>1
      <4>2. CASE detail' = [NoDetail EXCEPT !.state = "failed"]
        BY <3>1, <4>2
      <4>3. CASE detail' = [of |-> c.id, seen |-> c.seen, state |-> "ready"]
        BY <4>3
      <4> QED BY <3>3, <4>1, <4>2, <4>3
    <3> QED BY <3>2, <3>4
  <2> QED BY <1>4, <2>1, <2>2, <2>3
      DEF Answers, PersonAnswers, PersonListed, PersonSaved, PersonDeleted, PersonRelated,
          PersonCreated, PersonFailed, PersonDetails, CompanyAnswers, CompanyListed, CompanySaved,
          CompanyDeleted, CompanyRelated, CompanyCreated, CompanyFailed, CompanyDetails,
          DealAnswers, DealListed, DealSaved, DealDeleted, DealRelated, DealCreated, DealFailed,
          DealDetails, TaskAnswers, TaskListed, DashboardListed, TaskSaved, TaskDeleted,
          DashboardSaved, DashboardDeleted, TaskFailed
<1> QED BY <1>2, <1>3, <1>4 DEF Next

LEMMA MadeKeeps == RecordInv /\ DetailInv /\ DetailMade /\ [Next]_vars => DetailMade'
<1> SUFFICES ASSUME RecordInv, DetailInv, DetailMade, [Next]_vars, NEW id \in Ids,
                    life'[id] = "new"
             PROVE  detail'.of # id
  BY DEF DetailMade
<1>1. CASE UNCHANGED vars
  BY <1>1 DEF vars, server, sheet, DetailMade
<1>2. CASE Next
  <2>1. life[id] = "new"
    BY <1>2, MadeStays
  <2>2. detail.of # id /\ \A c \in calls : c.id # id
    BY <2>1 DEF DetailMade, RecordInv, Unasked
  <2> QED BY <1>2, <2>2, MadeStays, RecordSheetAssumption
<1> QED BY <1>1, <1>2

LEMMA ClicksKeepRecords ==
  ASSUME RecordInv, DetailInv, DetailMade, Clicks
  PROVE  RecordInv'
<1>1. ASSUME NEW op \in Relations, Relate(op, shown) PROVE RecordInv'
  BY <1>1, RelateKeepsRecords
<1>2. ASSUME OpenForm \/ CloseForm \/ Submit PROVE RecordInv'
  BY <1>2, FormKeepsRecords, SubmitKeepsRecords
<1>3. CASE Close
  BY <1>3, CloseKeeps
<1>4. CASE ComposeActivity \/ ChangeActivity
  <2>1. ASSUME ChangeActivity PROVE RecordInv'
    <3>1. Relate("activity", detail.of) /\ detail.of # None
      BY <2>1 DEF ChangeActivity
    <3>2. detail.of \in Ids /\ life[detail.of] # "new"
      BY <3>1 DEF DetailInv, DetailMade
    <3> QED BY <3>1, <3>2, RelateKeepsRecords DEF Relations
  <2> QED BY <1>1, <1>4, <2>1 DEF ComposeActivity, Relations
<1>5. CASE PersonClicks
  <2>1. ASSUME \/ LinkPersonCompany \/ CreatePersonCompany \/ UnlinkPersonCompany
               \/ CreatePersonTask \/ TogglePersonTask
        PROVE RecordInv'
    <3>1. \E op \in Relations : Relate(op, shown)
      BY <2>1 DEF LinkPersonCompany, CreatePersonCompany, UnlinkPersonCompany, CreatePersonTask,
                  TogglePersonTask, Relations
    <3> QED BY <1>1, <3>1
  <2>2. ASSUME SavePerson \/ TogglePerson \/ DeletePerson PROVE RecordInv'
    BY <2>2, SaveKeeps, ToggleKeeps, DeleteKeeps DEF SavePerson, TogglePerson, DeletePerson
  <2>3. ASSUME \/ \E id \in Ids : SelectPerson(id)
               \/ EditPerson \/ CancelPerson \/ PersonForm
        PROVE RecordInv'
    BY <1>2, <2>3, SelectKeeps, EditsKeep DEF SelectPerson, PersonForm
  <2> QED BY <1>5, <2>1, <2>2, <2>3 DEF PersonClicks
<1>6. CASE CompanyClicks
  <2>1. ASSUME CreateCompanyTask \/ ToggleCompanyTask PROVE RecordInv'
    BY <1>1, <2>1 DEF CreateCompanyTask, ToggleCompanyTask, Relations
  <2>2. ASSUME SaveCompany \/ DeleteCompany PROVE RecordInv'
    BY <2>2, SaveKeeps, DeleteKeeps DEF SaveCompany, DeleteCompany
  <2>3. ASSUME \/ \E id \in Ids : SelectCompany(id)
               \/ EditCompany \/ CancelCompany \/ CompanyForm
        PROVE RecordInv'
    BY <1>2, <2>3, SelectKeeps, EditsKeep DEF SelectCompany, CompanyForm
  <2> QED BY <1>6, <2>1, <2>2, <2>3 DEF CompanyClicks
<1>7. CASE DealClicks
  <2>1. ASSUME \/ LinkDealPerson \/ LinkDealCompany \/ UnlinkDealPerson \/ UnlinkDealCompany
               \/ CreateDealTask \/ EditDealTask
        PROVE RecordInv'
    <3>1. \E op \in Relations : Relate(op, shown)
      BY <2>1 DEF LinkDealPerson, LinkDealCompany, UnlinkDealPerson, UnlinkDealCompany,
                  CreateDealTask, EditDealTask, Relations
    <3> QED BY <1>1, <3>1
  <2>2. ASSUME SaveDeal \/ DeleteDeal PROVE RecordInv'
    BY <2>2, SaveKeeps, DeleteKeeps DEF SaveDeal, DeleteDeal
  <2>3. ASSUME (\E id \in Ids : SelectDeal(id)) \/ OpenDeal \/ DealForm PROVE RecordInv'
    BY <1>2, <2>3, SelectKeeps, OpenKeepsRecords DEF SelectDeal, DealForm
  <2> QED BY <1>7, <2>1, <2>2, <2>3 DEF DealClicks
<1>8. CASE TaskClicks
  <2>1. ASSUME ToggleTask \/ LinkTaskPerson \/ LinkTaskCompany \/ LinkTaskDeal \/ UnlinkTask
        PROVE RecordInv'
    <3>1. Toggle /\ FormOfObject
      BY <2>1 DEF ToggleTask, LinkTaskPerson, LinkTaskCompany, LinkTaskDeal, UnlinkTask, Tasks,
                  FormOfObject
    <3> QED BY <3>1, ToggleKeeps
  <2>2. ASSUME SaveTask \/ DeleteTask PROVE RecordInv'
    BY <2>2, SaveKeeps, DeleteKeeps DEF SaveTask, DeleteTask
  <2>3. ASSUME (\E id \in Ids : SelectTask(id) \/ SelectDashboardTask(id)) \/ OpenTask
        PROVE RecordInv'
    BY <2>3, SelectKeeps, OpenKeepsRecords DEF SelectTask, SelectDashboardTask
  <2> QED BY <1>8, <2>1, <2>2, <2>3 DEF TaskClicks
<1> QED BY <1>3, <1>4, <1>5, <1>6, <1>7, <1>8 DEF Clicks

LEMMA AnswersKeepRecords ==
  ASSUME RecordInv, NEW c \in calls, Answers(c)
  PROVE  RecordInv'
<1>1. ASSUME Deleted(c) \/ Created(c) \/ Related(c) \/ ListAnswers(c) PROVE RecordInv'
  BY <1>1, DeletedKeeps, CreatedKeeps, RelatedKeeps, ListAnswersKeep
<1>2. ASSUME DetailsAnswer(c) \/ DetailsFail(c) PROVE RecordInv'
  BY <1>2, DetailsKeep
<1>3. ASSUME PersonSaved(c) \/ CompanySaved(c) PROVE RecordInv'
  <2>1. /\ Saved(c) /\ ~FormOfObject /\ UNCHANGED drafts /\ editing' \in {editing, None}
        /\ c.op = "save" => editing' = None
    BY <1>3 DEF PersonSaved, CompanySaved, People, Companies, FormOfObject
  <2> QED BY <2>1, SavedKeeps
<1>4. ASSUME DealSaved(c) \/ TaskSaved(c) \/ DashboardSaved(c) PROVE RecordInv'
  <2>1. Saved(c) /\ FormOfObject /\ Refill(c.id, c.data)
    BY <1>4 DEF DealSaved, TaskSaved, DashboardSaved, Deals, FormOfObject
  <2> QED BY <2>1, SavedKeeps
<1>5. ASSUME PersonFailed(c) \/ CompanyFailed(c) \/ DealFailed(c) \/ TaskFailed(c) PROVE RecordInv'
  <2>1. /\ Failed(c) /\ UNCHANGED drafts
        /\ editing' = editing \/ (FormOfObject /\ editing' = None)
    BY <1>5 DEF PersonFailed, CompanyFailed, DealFailed, TaskFailed, Tasks, FormOfObject, edits
  <2> QED BY <2>1, FailedKeeps
<1>6. CASE PersonAnswers(c)
  BY <1>1, <1>2, <1>3, <1>5, <1>6
  DEF PersonAnswers, PersonListed, PersonDeleted, PersonRelated, PersonCreated, PersonDetails
<1>7. CASE CompanyAnswers(c)
  BY <1>1, <1>2, <1>3, <1>5, <1>7
  DEF CompanyAnswers, CompanyListed, CompanyDeleted, CompanyRelated, CompanyCreated,
      CompanyDetails
<1>8. CASE DealAnswers(c)
  BY <1>1, <1>2, <1>4, <1>5, <1>8
  DEF DealAnswers, DealListed, DealDeleted, DealRelated, DealCreated, DealDetails
<1>9. CASE TaskAnswers(c)
  BY <1>1, <1>4, <1>5, <1>9
  DEF TaskAnswers, TaskListed, DashboardListed, TaskDeleted, DashboardDeleted
<1> QED BY <1>6, <1>7, <1>8, <1>9 DEF Answers

-----------------------------------------------------------------------------
LEMMA InitRecords == Init => RecordInv
<1> SUFFICES ASSUME Init PROVE RecordInv
  OBVIOUS
<1>1. /\ kind \in Kinds /\ moves = 0 /\ form = 0 /\ calls = {} /\ shown = None /\ editing = None
      /\ row = NoRow /\ rows = [id \in Ids |-> NoRow] /\ drafts = rows
      /\ life \in [Ids -> {"new", "alive"}]
      /\ list.ids = {id \in Ids : life[id] = "alive"} /\ list.rows = rows /\ list.shown = TRUE
  BY DEF Init, Alive
<1>2. NoRow \in RowSoFar /\ AtLeast(NoRow, NoRow)
  BY <1>1 DEF NoRow, RowSoFar, AtLeast
<1>3. RowTypes
  <2>1. rows \in [Ids -> RowSoFar] /\ drafts \in [Ids -> RowSoFar] /\ list.rows \in [Ids -> RowSoFar]
    BY <1>1, <1>2
  <2>2. list.ids \in SUBSET Ids /\ life \in [Ids -> {"new", "alive", "gone"}]
    BY <1>1
  <2>3. /\ kind \in Kinds /\ moves \in Nat /\ form \in 0..moves
        /\ shown \in Ids \cup {None} /\ editing \in Ids \cup {None} /\ list.shown \in BOOLEAN
    <3>1. moves \in Nat /\ form \in 0..moves
      BY <1>1
    <3> QED BY <1>1, <3>1
  <2>4. row \in RowSoFar
    BY <1>1, <1>2
  <2> QED BY <2>1, <2>2, <2>3, <2>4 DEF RowTypes
<1>4. CallTypes /\ \A id \in Ids : Unknown(id) /\ Unasked(id)
  BY <1>1, RecordSheetAssumption DEF CallTypes, Unknown, Unasked
<1>5. ASSUME NEW id \in Ids PROVE WritesApart(id) /\ ListUpToDate(id) /\ SheetUpToDate(id)
  <2>1. WritesApart(id)
    BY <1>1 DEF WritesApart
  <2>2. ListUpToDate(id)
    BY <1>1, <1>2 DEF ListUpToDate, UpToDate
  <2>3. SheetUpToDate(id)
    BY <1>1, RecordSheetAssumption DEF SheetUpToDate, Edited
  <2> QED BY <2>1, <2>2, <2>3
<1> QED BY <1>3, <1>4, <1>5 DEF RecordInv

LEMMA NextKeepsRecords == RecordInv /\ DetailInv /\ DetailMade /\ [Next]_vars => RecordInv'
<1> SUFFICES ASSUME RecordInv, DetailInv, DetailMade, [Next]_vars PROVE RecordInv'
  OBVIOUS
<1>1. CASE Clicks
  BY <1>1, ClicksKeepRecords
<1>2. ASSUME NEW c \in calls, Serve(c) PROVE RecordInv'
  BY <1>2, ServeSaveKeeps, ServeDeleteKeeps, ServeCreateKeeps, ServeListKeeps, ServeRelatedKeeps
  DEF Serve
<1>3. ASSUME NEW c \in calls, Refuse(c) \/ Fail(c) PROVE RecordInv'
  BY <1>3, ErrorKeeps
<1>4. ASSUME NEW c \in calls, Answers(c) PROVE RecordInv'
  BY <1>4, AnswersKeepRecords
<1>5. CASE UNCHANGED vars
  <2>1. UNCHANGED <<kind, life, rows, list, shown, row, drafts, editing, form, calls, moves, crossed>>
    BY <1>5 DEF vars, server, sheet, edits, ghosts
  <2>2. /\ RowTypes' /\ CallTypes' /\ \A id \in Ids : Unknown(id)' /\ Unasked(id)'
    BY <2>1 DEF RecordInv, RowTypes, CallTypes, Carries, RowSoFar, Unknown, Unasked
  <2>3. ASSUME NEW id \in Ids \ crossed
        PROVE  WritesApart(id)' /\ ListUpToDate(id)' /\ SheetUpToDate(id)'
    <3>1. WritesApart(id) /\ ListUpToDate(id) /\ SheetUpToDate(id)
      BY DEF RecordInv
    <3>2. WritesApart(id)'
      BY <2>1, <3>1 DEF WritesApart, AtLeast
    <3>3. ListUpToDate(id)'
      BY <2>1, <3>1 DEF ListUpToDate, UpToDate, AtLeast, Wrote, Dropped, Loading
    <3>4. SheetUpToDate(id)'
      BY <2>1, <3>1 DEF SheetUpToDate, Edited, FormOfObject, AtLeast, Wrote, Dropped
    <3> QED BY <3>2, <3>3, <3>4
  <2> QED BY <2>1, <2>2, <2>3 DEF RecordInv
<1> QED BY <1>1, <1>2, <1>3, <1>4, <1>5 DEF Next

\* At first nothing is loaded about any record.
LEMMA InitMade == Init => DetailMade
BY RecordSheetAssumption DEF Init, NoDetail, DetailMade

\* Only a save, and the form for a new record, change what the server has.
LEMMA RowsChange ==
  ASSUME Next
  PROVE  \/ UNCHANGED rows
         \/ \E c \in calls : /\ c.op \in {"save", "toggle"} /\ c.state = "sent"
                             /\ rows' = [rows EXCEPT ![c.id] = c.data]
         \/ \E c \in calls : /\ c.op = "create"
                             /\ \E id \in Ids : /\ life[id] = "new"
                                                /\ rows' = [rows EXCEPT ![id] = c.data]
<1>1. CASE Clicks
  <2>1. ASSUME Save \/ Toggle \/ Delete PROVE UNCHANGED rows
    BY <2>1 DEF Save, Toggle, Delete, Write, server
  <2>2. ASSUME \/ OpenForm \/ CloseForm \/ Submit \/ Close \/ (\E id \in Ids : Select(id))
               \/ (\E op, id : Relate(op, id))
        PROVE UNCHANGED rows
    BY <2>2 DEF OpenForm, CloseForm, Submit, Close, Select, Relate, server
  <2>3. ASSUME \/ EditPerson \/ CancelPerson \/ EditCompany \/ CancelCompany \/ OpenDeal \/ OpenTask
        PROVE UNCHANGED rows
    BY <2>3 DEF EditPerson, CancelPerson, EditCompany, CancelCompany, OpenDeal, OpenTask, server
  <2>4. CASE Close \/ ComposeActivity \/ ChangeActivity
    BY <2>2, <2>4 DEF ComposeActivity, ChangeActivity
  <2>5. CASE PersonClicks
    BY <2>1, <2>2, <2>3, <2>5
    DEF PersonClicks, SelectPerson, SavePerson, TogglePerson, DeletePerson, LinkPersonCompany,
        CreatePersonCompany, UnlinkPersonCompany, CreatePersonTask, TogglePersonTask, PersonForm
  <2>6. CASE CompanyClicks
    BY <2>1, <2>2, <2>3, <2>6
    DEF CompanyClicks, SelectCompany, SaveCompany, DeleteCompany, CreateCompanyTask,
        ToggleCompanyTask, CompanyForm
  <2>7. CASE DealClicks
    BY <2>1, <2>2, <2>3, <2>7
    DEF DealClicks, SelectDeal, SaveDeal, DeleteDeal, LinkDealPerson, LinkDealCompany,
        UnlinkDealPerson, UnlinkDealCompany, CreateDealTask, EditDealTask, DealForm
  <2>8. CASE TaskClicks
    BY <2>1, <2>2, <2>3, <2>8
    DEF TaskClicks, SelectTask, SelectDashboardTask, SaveTask, ToggleTask, DeleteTask,
        LinkTaskPerson, LinkTaskCompany, LinkTaskDeal, UnlinkTask
  <2> QED BY <1>1, <2>4, <2>5, <2>6, <2>7, <2>8 DEF Clicks
<1>2. ASSUME NEW c \in calls, Serve(c), ~ServeSave(c), ~ServeCreate(c) PROVE UNCHANGED rows
  BY <1>2 DEF Serve, ServeDelete, ServeRelate, ServeList, ServeDetails, server
<1>3. ASSUME NEW c \in calls, Refuse(c) \/ Fail(c) PROVE UNCHANGED rows
  BY <1>3 DEF Refuse, Fail, server
<1>4. ASSUME NEW c \in calls, Answers(c) PROVE UNCHANGED rows
  BY <1>4
  DEF Answers, PersonAnswers, PersonListed, PersonSaved, PersonDeleted, PersonRelated,
      PersonCreated, PersonFailed, PersonDetails, CompanyAnswers, CompanyListed, CompanySaved,
      CompanyDeleted, CompanyRelated, CompanyCreated, CompanyFailed, CompanyDetails, DealAnswers,
      DealListed, DealSaved, DealDeleted, DealRelated, DealCreated, DealFailed, DealDetails,
      TaskAnswers, TaskListed, DashboardListed, TaskSaved, TaskDeleted, DashboardSaved,
      DashboardDeleted, TaskFailed, Saved, Deleted, Related, Created, Failed, ListAnswers,
      DetailsAnswer, DetailsFail, server
<1>5. ASSUME NEW c \in calls, Serve(c), ServeSave(c)
      PROVE  /\ c.op \in {"save", "toggle"} /\ c.state = "sent"
             /\ rows' = [rows EXCEPT ![c.id] = c.data]
  BY <1>5 DEF Serve, ServeSave
<1>6. ASSUME NEW c \in calls, ServeCreate(c)
      PROVE  /\ c.op = "create"
             /\ \E id \in Ids : life[id] = "new" /\ rows' = [rows EXCEPT ![id] = c.data]
  BY <1>6 DEF ServeCreate
<1> QED BY <1>1, <1>2, <1>3, <1>4, <1>5, <1>6 DEF Next

\* A record that was deleted from its sheet is neither in the sheet nor, once it
\* is loaded, in the list, unless its deletion crossed another write of it, lost
\* its answer, or the record was opened from an outdated row while the list was
\* loading (crossed); for any number of records, requests, clicks and failures
\* (onDelete and onSave of the views, and usePagedResource).
THEOREM DeletedStay == Spec => []DeletedStaysAway
<1>1. RecordInv => DeletedStaysAway
  <2> SUFFICES ASSUME RecordInv, NEW id \in Ids, life[id] = "gone",
                      shown = id \/ (Listed(id) /\ ~Loading), id \notin crossed
               PROVE  \E c \in calls : c.op = "delete" /\ c.id = id
    BY DEF DeletedStaysAway
  <2>1. SheetUpToDate(id) /\ ListUpToDate(id)
    BY DEF RecordInv
  <2> QED BY <2>1 DEF SheetUpToDate, ListUpToDate, UpToDate, Listed, Dropped
<1> QED BY <1>1, InitDetails, NextKeeps, InitRecords, NextKeepsRecords, InitMade, MadeKeeps, PTL
        DEF Spec

\* A save takes nothing back that the user changed before, unless its object was
\* opened from an outdated row while the list was loading, or while a write was
\* under way, or an answer was lost (crossed: what the pages do lose); for any
\* number of records, requests, clicks and failures (the sheets' onSave, which
\* sends the whole object).
THEOREM OwnChangesStay == Spec => OwnChangesKept
<1>1. ASSUME RecordInv, Next, NEW id \in Ids, id \notin crossed
      PROVE  AtLeast(rows'[id], rows[id])
  <2>1. /\ RowTypes /\ CallTypes /\ Unknown(id) /\ WritesApart(id)
        /\ rows[id] \in RowSoFar /\ moves \in Nat
    BY <1>1 DEF RecordInv, RowTypes
  <2>2. AtLeast(rows[id], rows[id])
    BY <2>1 DEF AtLeast, RowSoFar
  <2>3. CASE UNCHANGED rows
    BY <2>2, <2>3
  <2>4. ASSUME NEW c \in calls, c.op \in {"save", "toggle"}, c.state = "sent",
               rows' = [rows EXCEPT ![c.id] = c.data]
        PROVE  AtLeast(rows'[id], rows[id])
    <3>1. CASE c.id = id
      BY <2>1, <2>4, <3>1 DEF WritesApart, RowTypes
    <3>2. CASE c.id # id
      BY <2>1, <2>2, <2>4, <3>2 DEF RowTypes
    <3> QED BY <3>1, <3>2
  <2>5. ASSUME NEW c \in calls, c.op = "create", NEW i \in Ids, life[i] = "new",
               rows' = [rows EXCEPT ![i] = c.data]
        PROVE  AtLeast(rows'[id], rows[id])
    <3>1. CASE i = id
      <4>1. rows[id] = NoRow /\ rows'[id] = c.data /\ c.data \in RowSoFar
        BY <2>1, <2>5, <3>1 DEF Unknown, CallTypes, Carries, RowTypes
      <4> QED BY <2>1, <4>1 DEF AtLeast, NoRow, RowSoFar
    <3>2. CASE i # id
      BY <2>1, <2>2, <2>5, <3>2 DEF RowTypes
    <3> QED BY <3>1, <3>2
  <2> QED BY <1>1, <2>3, <2>4, <2>5, RowsChange
<1>2. RecordInv /\ [Next]_vars
        => [\A id \in Ids :
              id \notin crossed =>
                rows'[id].typed >= rows[id].typed /\ rows'[id].flag >= rows[id].flag]_vars
  BY <1>1 DEF AtLeast
<1> QED BY <1>2, InitDetails, NextKeeps, InitRecords, NextKeepsRecords, InitMade, MadeKeeps, PTL
        DEF Spec, OwnChangesKept

\* The same of the app with its settings page, one page of which is open: a
\* page that is not open does nothing.
THEOREM OpenPage ==
  PagesSpec => Spec /\ [](DetailsOfShownRecord /\ OneRecordPerForm /\ DeletedStaysAway)
                    /\ OwnChangesKept
<1>1. PagesInit => Init
  BY DEF PagesInit
<1>2. [PagesNext]_<<page, vars, settingsVars>> => [Next]_vars
  BY DEF PagesNext
<1>3. PagesSpec => Spec
  BY <1>1, <1>2, PTL DEF PagesSpec, Spec
<1> QED BY <1>3, SheetsShowTheirRecord, FormsMakeOne, DeletedStay, OwnChangesStay, PTL

-----------------------------------------------------------------------------
(* The settings.                                                           *)

Panel ==
  [state : {"loading", "ready", "error"}, req : Nat, members : Teams \cup {Nobody},
   invitations : Teams \cup {Nobody}, accounts : Teams \cup {Nobody}, stale : BOOLEAN]

AccountForm == [open : BOOLEAN, draft : Nat, test : {"idle", "testing", "success", "error"}]

\* A handler has its fields.
IsJob(j) == j = [op |-> j.op, row |-> j.row, data |-> j.data, n |-> j.n, org |-> j.org,
                 ready |-> j.ready, state |-> j.state]

\* The last load of a page whose shell is ready was asked for since it is: with
\* the organization that is chosen, unless a closure had an older one.
ChosenInv ==
  /\ header \in Teams /\ selected \in Teams
  /\ panel \in Panel
  /\ \A l \in loads : l.id \in Nat /\ l.id <= panel.req /\ l.org \in Teams /\ l.box \in Teams
                     /\ l.stale \in BOOLEAN
  /\ \A j \in jobs : j.org \in Teams
  /\ arriving \in {"workspaces", "none"} => header = selected
  /\ ShellReady => \A l \in loads : l.id = panel.req /\ ~l.stale => l.org = selected /\ l.box = selected
  /\ SettingsOfChosenTeam

\* What a test that is under way has not seen was typed meanwhile.
TestedInv ==
  /\ account \in AccountForm /\ steps \in Nat /\ \A j \in jobs : IsJob(j)
  /\ \A j \in jobs : j.op = "test" => account.draft \in {0, j.data} \cup hasty
  /\ account.test = "success" => account.draft \in {0} \cup proven \cup hasty
  /\ SavedAsTested

\* A load asks for the organization the closure has.
LEMMA LoadingKeeps ==
  ASSUME ChosenInv, NEW o \in Teams, NEW j, loadSettings(o, j), UNCHANGED <<header, selected>>,
         arriving' \in {"workspaces", "none"} => header = selected,
         \A k \in jobs' : k.org \in Teams
  PROVE  ChosenInv'
<1>1. PICK l : l = Asked(panel.req + 1, o, j)
  OBVIOUS
<1>2. l.id = panel.req + 1 /\ l.org = o /\ l.box = header /\ l.stale \in BOOLEAN /\ (~l.stale => o = selected)
  <2>1. PICK stale \in BOOLEAN : stale <=> o # selected
    OBVIOUS
  <2>2. l = [id |-> panel.req + 1, org |-> o, box |-> header, job |-> j, stale |-> stale]
    BY <1>1, <2>1 DEF Asked
  <2> QED BY <2>1, <2>2
<1>3. panel \in Panel /\ panel.req \in Nat
  BY DEF ChosenInv, Panel
<1>4. panel' = [state |-> "loading", req |-> panel.req + 1, members |-> panel.members,
                invitations |-> panel.invitations, accounts |-> panel.accounts,
                stale |-> panel.stale]
  BY <1>3 DEF Panel, loadSettings
<1>5. panel' \in Panel /\ panel'.req = panel.req + 1 /\ panel'.state = "loading"
  BY <1>3, <1>4 DEF Panel
<1>6. loads' = loads \cup {l}
  BY <1>1 DEF loadSettings
<1>7. \A k \in loads' : k.id \in Nat /\ k.id <= panel'.req /\ k.org \in Teams /\ k.box \in Teams
                       /\ k.stale \in BOOLEAN
  BY <1>2, <1>3, <1>5, <1>6 DEF ChosenInv
<1>8. \A k \in loads' : k.id = panel'.req => k = l
  BY <1>3, <1>5, <1>6 DEF ChosenInv
<1>9. ShellReady' => \A k \in loads' : k.id = panel'.req /\ ~k.stale
                                      => k.org = selected' /\ k.box = selected'
  BY <1>2, <1>8 DEF ShellReady
<1> QED BY <1>5, <1>7, <1>9 DEF ChosenInv, SettingsOfChosenTeam

\* An answer is shown if it is that of the last load.
LEMMA AnsweredKeeps ==
  ASSUME ChosenInv, NEW l \in loads, SettingsAnswer(l) \/ SettingsFail(l)
  PROVE  ChosenInv'
<1>1. /\ UNCHANGED <<header, selected, arriving>> /\ loads' = loads \ {l}
      /\ jobs' \subseteq jobs
  BY DEF SettingsAnswer, SettingsFail, shellVars, Done
<1>2. panel \in Panel /\ l.org \in Teams /\ l.box \in Teams /\ l.stale \in BOOLEAN
  BY DEF ChosenInv
<1>3. CASE panel' = panel
  BY <1>1, <1>3 DEF ChosenInv, SettingsOfChosenTeam, ShellReady
<1>4. CASE SettingsAnswer(l) /\ l.id = panel.req
  <2>1. panel' = [state |-> "ready", req |-> panel.req, members |-> l.org,
                  invitations |-> l.org, accounts |-> l.box, stale |-> l.stale]
    BY <1>2, <1>4 DEF SettingsAnswer, Panel
  <2>2. panel' \in Panel /\ panel'.req = panel.req
    BY <1>2, <2>1 DEF Panel
  <2>3. ShellReady' => SettingsOfChosenTeam'
    BY <1>1, <1>4, <2>1 DEF ChosenInv, SettingsOfChosenTeam, ShellReady
  <2> QED BY <1>1, <2>2, <2>3 DEF ChosenInv, SettingsOfChosenTeam, ShellReady
<1>5. CASE SettingsFail(l) /\ l.id = panel.req
  <2>1. panel' = [state |-> "error", req |-> panel.req, members |-> Nobody,
                  invitations |-> panel.invitations, accounts |-> Nobody, stale |-> panel.stale]
    BY <1>2, <1>5 DEF SettingsFail, Panel
  <2>2. panel' \in Panel /\ panel'.req = panel.req /\ panel'.state # "ready"
    BY <1>2, <2>1 DEF Panel
  <2> QED BY <1>1, <2>2 DEF ChosenInv, SettingsOfChosenTeam, ShellReady
<1> QED BY <1>3, <1>4, <1>5 DEF SettingsAnswer, SettingsFail

LEMMA SettingsNextKeepsChosen ==
  ASSUME ChosenInv, SettingsNext
  PROVE  ChosenInv'
<1>1. ASSUME NEW o \in Teams, SwitchTeam(o) PROVE ChosenInv'
  BY <1>1 DEF SwitchTeam, ChosenInv, SettingsOfChosenTeam, ShellReady
<1>2. CASE TeamAnswers
  BY <1>2 DEF TeamAnswers, ChosenInv, SettingsOfChosenTeam, ShellReady
<1>3. CASE TeamReady
  BY <1>3, LoadingKeeps DEF TeamReady, ChosenInv
<1>4. CASE TeamFails
  BY <1>4 DEF TeamFails, ChosenInv, SettingsOfChosenTeam, ShellReady
<1>5. ASSUME NEW j \in jobs, JobSucceeds(j) PROVE ChosenInv'
  <2>1. UNCHANGED <<header, selected, arriving>> /\ Refresh(j)
    BY <1>5 DEF JobSucceeds, shellVars
  <2>2. CASE j.ready
    <3>1. loadSettings(j.org, j.n) /\ jobs' = (jobs \ {j}) \cup {[j EXCEPT !.state = "refreshing"]}
      BY <2>1, <2>2 DEF Refresh
    <3>2. [j EXCEPT !.state = "refreshing"].org = j.org
      OBVIOUS
    <3> QED BY <2>1, <3>1, <3>2, LoadingKeeps DEF ChosenInv
  <2>3. CASE ~j.ready
    BY <2>1, <2>3 DEF Refresh, Done, ChosenInv, SettingsOfChosenTeam, ShellReady
  <2> QED BY <2>2, <2>3
<1>6. ASSUME NEW j \in jobs, JobFails(j) \/ TestAnswers(j) PROVE ChosenInv'
  BY <1>6 DEF JobFails, TestAnswers, Done, shellVars, ChosenInv, SettingsOfChosenTeam, ShellReady
<1>7. CASE Invite \/ CreateToken \/ RowClicks \/ SheetClicks
  <2>1. UNCHANGED <<header, selected, arriving, panel, loads>>
    BY <1>7 DEF Invite, CreateToken, RowClicks, SheetClicks, ChangeMember, ResendInvitation,
                RevokeToken, ChangeAccount, RowJob, AddAccount, CloseAccount, TypeAccount,
                testEmailAccount, saveEmailAccount, shellVars
  <2>2. \A j \in jobs' : j \in jobs \/ j.org = selected
    BY <1>7 DEF Invite, CreateToken, RowClicks, SheetClicks, ChangeMember, ResendInvitation,
                RevokeToken, ChangeAccount, RowJob, AddAccount, CloseAccount, TypeAccount,
                testEmailAccount, saveEmailAccount, Begin
  <2> QED BY <2>1, <2>2 DEF ChosenInv, SettingsOfChosenTeam, ShellReady
<1> QED BY <1>1, <1>2, <1>3, <1>4, <1>5, <1>6, <1>7, AnsweredKeeps DEF SettingsNext

LEMMA SettingsNextKeepsTested ==
  ASSUME TestedInv, SettingsNext
  PROVE  TestedInv'
<1>0. steps' \in Nat
  <2>1. steps \in Nat
    BY DEF TestedInv
  <2>2. CASE RowClicks
    BY <2>1, <2>2 DEF RowClicks, ChangeMember, ResendInvitation, RevokeToken, ChangeAccount,
                      RowJob, Begin, Step
  <2>3. CASE SheetClicks
    BY <2>1, <2>3 DEF SheetClicks, AddAccount, CloseAccount, TypeAccount, testEmailAccount,
                      saveEmailAccount, Begin, Step
  <2>4. CASE Invite \/ CreateToken \/ \E o \in Teams : SwitchTeam(o)
    BY <2>1, <2>4 DEF Invite, CreateToken, SwitchTeam, Begin, Step
  <2>5. CASE TeamAnswers \/ TeamReady \/ TeamFails
    BY <2>1, <2>5 DEF TeamAnswers, TeamReady, TeamFails
  <2>6. CASE \E l \in loads : SettingsAnswer(l) \/ SettingsFail(l)
    BY <2>1, <2>6 DEF SettingsAnswer, SettingsFail
  <2>7. CASE \E j \in jobs : JobSucceeds(j) \/ JobFails(j) \/ TestAnswers(j)
    BY <2>1, <2>7 DEF JobSucceeds, JobFails, TestAnswers
  <2> QED BY <2>2, <2>3, <2>4, <2>5, <2>6, <2>7 DEF SettingsNext
<1>1. ASSUME jobs' \subseteq jobs, UNCHANGED <<account, ghostVars>> PROVE TestedInv'
  BY <1>0, <1>1 DEF TestedInv, SavedAsTested, ghostVars
<1>2. ASSUME NEW op, NEW on, NEW data, Begin(op, on, data), UNCHANGED ghostVars,
             account' \in AccountForm, account'.draft = account.draft,
             account'.test \in {account.test, "testing"},
             op = "test" => data = account.draft,
             op = "account" => data \in proven \cup hasty
      PROVE  TestedInv'
  <2>1. \A j \in jobs' : j \in jobs \/ (IsJob(j) /\ j.op = op /\ j.data = data)
    BY <1>2 DEF Begin, IsJob
  <2>2. account'.test = "success" => account.test = "success"
    BY <1>2
  <2> QED BY <1>0, <1>2, <2>1, <2>2 DEF TestedInv, SavedAsTested, ghostVars
<1>3. ASSUME NEW j \in jobs, JobSucceeds(j) PROVE TestedInv'
  <2>1. /\ j.op # "test" /\ UNCHANGED ghostVars
        /\ account' \in {account, [open |-> FALSE, draft |-> 0, test |-> "idle"]}
    BY <1>3 DEF JobSucceeds
  <2>2. \A k \in jobs' : IsJob(k) /\ \E i \in jobs : k.op = i.op /\ k.data = i.data
    <3>1. PICK new : new = [j EXCEPT !.state = "refreshing"]
      OBVIOUS
    <3>2. IsJob(new) /\ new.op = j.op /\ new.data = j.data
      BY <3>1 DEF TestedInv, IsJob
    <3>3. \A k \in jobs' : k \in jobs \/ k = new
      BY <1>3, <3>1 DEF JobSucceeds, Refresh, Done
    <3> QED BY <3>2, <3>3 DEF TestedInv
  <2>3. /\ account' \in AccountForm /\ account'.draft \in {0, account.draft}
        /\ account'.test = "success" => account' = account
    <3>1. CASE account' = account
      BY <3>1 DEF TestedInv
    <3>2. CASE account' = [open |-> FALSE, draft |-> 0, test |-> "idle"]
      BY <3>2 DEF AccountForm
    <3> QED BY <2>1, <3>1, <3>2
  <2> QED BY <1>0, <2>1, <2>2, <2>3 DEF TestedInv, SavedAsTested, ghostVars
<1>4. ASSUME NEW j \in jobs, TestAnswers(j) PROVE TestedInv'
  <2>1. j.op = "test" /\ jobs' \subseteq jobs /\ UNCHANGED hasty /\ proven \subseteq proven'
    BY <1>4 DEF TestAnswers, Done
  <2>2. PICK test \in {"success", "error"} : /\ account' = [account EXCEPT !.test = test]
                                             /\ test = "success" => j.data \in proven'
    BY <1>4 DEF TestAnswers
  <2>3. /\ account' \in AccountForm /\ account'.draft = account.draft
        /\ account'.test = "success" => test = "success"
    <3>1. account \in AccountForm
      BY DEF TestedInv
    <3>2. account' = [open |-> account.open, draft |-> account.draft, test |-> test]
      <4>1. account' = [account EXCEPT !.test = test]
        BY <2>2
      <4> QED BY <3>1, <4>1 DEF AccountForm
    <3> QED BY <3>1, <3>2 DEF AccountForm
  <2>4. account.draft \in {0, j.data} \cup hasty
    BY <2>1 DEF TestedInv
  <2>5. account'.test = "success" => account'.draft \in {0} \cup proven' \cup hasty'
    BY <2>1, <2>2, <2>3, <2>4
  <2>6. \A k \in jobs' : /\ IsJob(k)
                         /\ k.op = "test" => account'.draft \in {0, k.data} \cup hasty'
                         /\ k.op = "account" => k.data \in proven' \cup hasty'
    BY <2>1, <2>3 DEF TestedInv, SavedAsTested
  <2> QED BY <1>0, <2>3, <2>5, <2>6 DEF TestedInv, SavedAsTested
<1>5. CASE TypeAccount
  <2>1. /\ UNCHANGED <<jobs, proven>> /\ hasty \subseteq hasty' /\ account'.test # "success"
        /\ Running("test") => account'.draft \in hasty'
        /\ account' \in AccountForm
    <3>1. account \in AccountForm /\ steps \in Nat
      BY DEF TestedInv
    <3>2. account' = [open |-> account.open, draft |-> steps + 1, test |-> "idle"]
      BY <1>5, <3>1 DEF TypeAccount, AccountForm
    <3>3. account' \in AccountForm /\ account'.draft = steps + 1 /\ account'.test = "idle"
      BY <3>1, <3>2 DEF AccountForm
    <3> QED BY <1>5, <3>3 DEF TypeAccount, Typing
  <2> QED BY <1>0, <2>1 DEF TestedInv, SavedAsTested, Running
<1>6. CASE AddAccount
  BY <1>0, <1>6 DEF AddAccount, AccountForm, TestedInv, SavedAsTested, ghostVars
<1>7. CASE CloseAccount
  <2>1. account' \in AccountForm /\ account'.draft = account.draft /\ account'.test = account.test
    BY <1>7 DEF CloseAccount, TestedInv, AccountForm
  <2> QED BY <1>0, <1>7, <2>1 DEF CloseAccount, TestedInv, SavedAsTested, ghostVars
<1>8. CASE testEmailAccount
  <2>1. /\ Begin("test", Nobody, account.draft) /\ UNCHANGED ghostVars
        /\ account'.draft = account.draft /\ account'.test \in {account.test, "testing"}
        /\ account' \in AccountForm
    BY <1>8 DEF testEmailAccount, TestedInv, AccountForm
  <2> QED BY <1>2, <2>1
<1>9. CASE saveEmailAccount
  BY <1>2, <1>9 DEF saveEmailAccount, TestedInv
<1>10. CASE Invite \/ CreateToken \/ RowClicks
  <2>1. /\ UNCHANGED <<account, ghostVars>>
        /\ \E op \in {"invite", "token", "row"} : \E on : Begin(op, on, 0)
    BY <1>10 DEF Invite, CreateToken, RowClicks, ChangeMember, ResendInvitation, RevokeToken,
                 ChangeAccount, RowJob
  <2> QED BY <1>2, <2>1 DEF TestedInv
<1>11. ASSUME NEW l \in loads, SettingsAnswer(l) \/ SettingsFail(l) PROVE TestedInv'
  BY <1>1, <1>11 DEF SettingsAnswer, SettingsFail, Done
<1>12. ASSUME NEW j \in jobs, JobFails(j) PROVE TestedInv'
  BY <1>1, <1>12 DEF JobFails, Done
<1>13. ASSUME NEW o \in Teams, SwitchTeam(o) PROVE TestedInv'
  BY <1>1, <1>13 DEF SwitchTeam
<1>14. CASE TeamAnswers \/ TeamReady \/ TeamFails
  BY <1>1, <1>14 DEF TeamAnswers, TeamReady, TeamFails
<1> QED BY <1>3, <1>4, <1>5, <1>6, <1>7, <1>8, <1>9, <1>10, <1>11, <1>12, <1>13, <1>14
        DEF SettingsNext, SheetClicks

LEMMA SettingsInv == PagesSpec => [](ChosenInv /\ TestedInv)
<1>1. PagesInit => ChosenInv /\ TestedInv
  BY DEF PagesInit, SettingsInit, ChosenInv, TestedInv, AccountForm, Panel, Asked, SettingsOfChosenTeam,
         SavedAsTested
<1>2. ChosenInv /\ TestedInv /\ [PagesNext]_<<page, vars, settingsVars>>
        => ChosenInv' /\ TestedInv'
  <2> SUFFICES ASSUME ChosenInv, TestedInv, [PagesNext]_<<page, vars, settingsVars>>
               PROVE  ChosenInv' /\ TestedInv'
    OBVIOUS
  <2>1. SettingsNext \/ UNCHANGED settingsVars
    BY DEF PagesNext
  <2>2. CASE UNCHANGED settingsVars
    BY <2>2 DEF settingsVars, shellVars, ghostVars, ChosenInv, TestedInv, SettingsOfChosenTeam,
                ShellReady, SavedAsTested
  <2> QED BY <2>1, <2>2, SettingsNextKeepsChosen, SettingsNextKeepsTested
<1> QED BY <1>1, <1>2, PTL DEF PagesSpec

\* Once the settings have been loaded, all their lists are those of the chosen
\* organization, whatever was under way when it was chosen - unless a handler of
\* the organization before has loaded them again (stale, settings-view.tsx).
THEOREM SettingsAreOfChosenTeam == PagesSpec => []SettingsOfChosenTeam
<1>1. ChosenInv => SettingsOfChosenTeam
  BY DEF ChosenInv
<1> QED BY <1>1, SettingsInv, PTL

\* A mailbox that is sent to be saved was tested as it is, or was typed while
\* a test was under way (settings-panel.tsx).
THEOREM MailboxSavedAsTested == PagesSpec => []SavedAsTested
<1>1. TestedInv => SavedAsTested
  BY DEF TestedInv
<1> QED BY <1>1, SettingsInv, PTL
=============================================================================
