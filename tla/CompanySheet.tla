---------------------------- MODULE CompanySheet ----------------------------
(***************************************************************************)
(* The page of companies: views/companies-view.tsx and                     *)
(* sheets/company-sheet.tsx.  Like people, without buttons that write one  *)
(* field, and without links of its own.                                    *)
(***************************************************************************)
EXTENDS RecordSheet

Companies == kind = "companies"

SelectCompany(id) == Companies /\ Select(id)

EditCompany ==
  /\ Companies /\ shown # None /\ editing # shown
  /\ Move
  /\ drafts' = [drafts EXCEPT ![shown] = row] /\ editing' = shown
  /\ calls' = Void(calls, "delete")
  /\ crossed' = IF Writing(shown) THEN crossed \cup {shown} ELSE crossed
  /\ UNCHANGED <<kind, server, list, sheet, form, fails, known, born, resent>>

CancelCompany ==
  /\ Companies /\ shown # None /\ editing = shown /\ ~UnderWay({"save"})
  /\ Move
  /\ drafts' = [drafts EXCEPT ![shown] = row] /\ editing' = None
  /\ UNCHANGED <<kind, server, list, sheet, form, calls, fails, ghosts>>

SaveCompany == Companies /\ shown # None /\ editing = shown /\ ~UnderWay({"save"}) /\ Save

DeleteCompany == Companies /\ shown # None /\ editing # shown /\ Delete

\* taskBusy
companyTaskBusy == UnderWay({"task"})

CreateCompanyTask == Companies /\ ~companyTaskBusy /\ Relate("task", shown)
\* The tasks of another company are not shown.
ToggleCompanyTask == Companies /\ ~companyTaskBusy /\ detail.of = shown /\ Relate("done", shown)

CompanyForm == Companies /\ (OpenForm \/ CloseForm \/ Submit)

-----------------------------------------------------------------------------
CompanyListed(c) == Companies /\ ListAnswers(c)

CompanySaved(c) == Companies /\ Saved(c) /\ editing' = None /\ UNCHANGED drafts
CompanyDeleted(c) == Companies /\ Deleted(c)
CompanyRelated(c) == Companies /\ Related(c)
CompanyCreated(c) == Companies /\ Created(c)
CompanyFailed(c) == Companies /\ Failed(c) /\ UNCHANGED edits
CompanyDetails(c) == Companies /\ (DetailsAnswer(c) \/ DetailsFail(c))

CompanyClicks ==
  \/ \E id \in Ids : SelectCompany(id)
  \/ EditCompany \/ CancelCompany \/ SaveCompany \/ DeleteCompany
  \/ CreateCompanyTask \/ ToggleCompanyTask
  \/ CompanyForm

CompanyAnswers(c) ==
  \/ CompanyListed(c)
  \/ CompanySaved(c) \/ CompanyDeleted(c) \/ CompanyRelated(c) \/ CompanyCreated(c)
  \/ CompanyFailed(c) \/ CompanyDetails(c)
=============================================================================
