---------------------------- MODULE RecordPages ----------------------------
(***************************************************************************)
(* The pages of people, companies, deals and tasks, and the dashboard: one *)
(* of them is open, and its requests are answered in any order.            *)
(***************************************************************************)
EXTENDS PersonSheet, CompanySheet, DealSheet, TaskSheet

Clicks ==
  \/ Close \/ ComposeActivity \/ ChangeActivity
  \/ PersonClicks \/ CompanyClicks \/ DealClicks \/ TaskClicks

Answers(c) ==
  \/ PersonAnswers(c) \/ CompanyAnswers(c) \/ DealAnswers(c) \/ TaskAnswers(c)

Next ==
  \/ Clicks
  \/ \E c \in calls : Serve(c) \/ Refuse(c) \/ Fail(c) \/ Answers(c)

Spec == Init /\ [][Next]_vars

-----------------------------------------------------------------------------
\* What the sheet shows as linked is linked to the record in the sheet, with
\* everything the user added and was told of, or it is about to be replaced: the
\* details of that record are under way, and their answer will not be thrown
\* away - however often the record in the sheet changes meanwhile (the effects of
\* people-view.tsx, companies-view.tsx and deals-view.tsx).  In between, the
\* sheets of people and companies show the links of the record before, and all
\* three its activities; a deal's links and tasks are never those of another one.
DetailsOfShownRecord ==
  /\ detail.of # None =>
       \/ detail.of = shown /\ detail.seen >= known[shown]
       \/ \E c \in calls : c.op = "detail" /\ c.live /\ c.id = shown
  /\ kind = "deals" /\ detail.state = "ready" =>
       detail.of = shown /\ detail.seen >= known[shown]

\* A record that was deleted from its sheet does not come back: it is not in the
\* sheet, nor in the list once that is not loading.  Exempt (crossed) are a
\* record whose deletion was under way together with another write of it or with
\* the form that made it, one with an answer that was lost, and one that was
\* opened from a row that a list still loading was to replace.
DeletedStaysAway ==
  \A id \in Ids :
    life[id] = "gone" /\ (shown = id \/ (Listed(id) /\ ~Loading)) =>
      \/ id \in crossed
      \/ \E c \in calls : c.op = "delete" /\ c.id = id

\* A save sends the whole object, and takes nothing back that the user changed
\* before, whatever was saved, switched, opened and closed since.  Exempt
\* (crossed) is what the pages do lose: the object was opened from an outdated
\* row while the list was loading, a save before it being answered already; it
\* was opened, or another write of it sent, while a write of it was under way; an
\* answer was lost; or the form that made it was not answered yet.
OwnChangesKept ==
  [][\A id \in Ids :
       id \notin crossed =>
         rows'[id].typed >= rows[id].typed /\ rows'[id].flag >= rows[id].flag]_vars

\* A form makes one record, unless it is sent again while it is under way,
\* or after an answer that was lost: nothing disables its button.
OneRecordPerForm ==
  \A i, j \in Ids : i # j /\ born[i] = born[j] /\ born[i] # 0 => born[i] \in resent
=============================================================================
