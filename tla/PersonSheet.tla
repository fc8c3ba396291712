---------------------------- MODULE PersonSheet ----------------------------
(***************************************************************************)
(* The page of people: views/people-view.tsx and sheets/person-sheet.tsx.  *)
(* Each person has a draft of its own, which outlives the sheet.           *)
(***************************************************************************)
EXTENDS RecordSheet

People == kind = "people"

SelectPerson(id) == People /\ Select(id)

\* "Edit": the draft is taken from the sheet's copy.
EditPerson ==
  /\ People /\ shown # None /\ editing # shown
  /\ Move
  /\ drafts' = [drafts EXCEPT ![shown] = row] /\ editing' = shown
  /\ calls' = Void(calls, "delete")
  /\ crossed' = IF Writing(shown) THEN crossed \cup {shown} ELSE crossed
  /\ UNCHANGED <<kind, server, list, sheet, form, fails, known, born, resent>>

CancelPerson ==
  /\ People /\ shown # None /\ editing = shown /\ ~UnderWay({"save"})
  /\ Move
  /\ drafts' = [drafts EXCEPT ![shown] = row] /\ editing' = None
  /\ UNCHANGED <<kind, server, list, sheet, form, calls, fails, ghosts>>

SavePerson == People /\ shown # None /\ editing = shown /\ ~UnderWay({"save"}) /\ Save

\* toggleStatus and toggleMyTurn, which nothing disables.
TogglePerson == People /\ shown # None /\ editing # shown /\ Toggle

DeletePerson == People /\ shown # None /\ editing # shown /\ Delete

companyBusy == UnderWay({"link"})

LinkPersonCompany == People /\ ~companyBusy /\ Relate("link", shown)

\* The company is created, then linked.
CreatePersonCompany == People /\ ~companyBusy /\ Relate("link", shown)

\* A company that was loaded can be unlinked, from the person in the sheet.
UnlinkPersonCompany == People /\ ~companyBusy /\ detail.of # None /\ Relate("link", shown)

\* taskBusy, which completing a task heeds and does not set.
personTaskBusy == UnderWay({"task"})

CreatePersonTask == People /\ ~personTaskBusy /\ Relate("task", shown)
\* The tasks of another person are not shown.
TogglePersonTask == People /\ ~personTaskBusy /\ detail.of = shown /\ Relate("done", shown)

PersonForm == People /\ (OpenForm \/ CloseForm \/ Submit)

-----------------------------------------------------------------------------
PersonListed(c) == People /\ ListAnswers(c)

PersonSaved(c) ==
  /\ People /\ Saved(c)
  /\ editing' = IF c.op = "save" THEN None ELSE editing
  /\ UNCHANGED drafts

PersonDeleted(c) == People /\ Deleted(c)
PersonRelated(c) == People /\ Related(c)
PersonCreated(c) == People /\ Created(c)
PersonFailed(c) == People /\ Failed(c) /\ UNCHANGED edits
PersonDetails(c) == People /\ (DetailsAnswer(c) \/ DetailsFail(c))

PersonClicks ==
  \/ \E id \in Ids : SelectPerson(id)
  \/ EditPerson \/ CancelPerson \/ SavePerson \/ TogglePerson \/ DeletePerson
  \/ LinkPersonCompany \/ CreatePersonCompany \/ UnlinkPersonCompany
  \/ CreatePersonTask \/ TogglePersonTask
  \/ PersonForm

PersonAnswers(c) ==
  \/ PersonListed(c)
  \/ PersonSaved(c) \/ PersonDeleted(c) \/ PersonRelated(c) \/ PersonCreated(c)
  \/ PersonFailed(c) \/ PersonDetails(c)
=============================================================================
