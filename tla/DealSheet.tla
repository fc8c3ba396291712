----------------------------- MODULE DealSheet -----------------------------
(***************************************************************************)
(* The page of deals: views/deals-view.tsx and sheets/deal-sheet.tsx.      *)
(* Its buttons are not disabled while a handler waits: a deal can be saved *)
(* twice, or saved and deleted, at the same time.                          *)
(***************************************************************************)
EXTENDS RecordSheet

Deals == kind = "deals"

SelectDeal(id) == Deals /\ Select(id)

\* detailsOpen: "Edit deal", "Close" and "Cancel", which leave what is typed.
\* The dialog to delete the deal is a part of the panel.
OpenDeal ==
  /\ Deals /\ shown # None
  /\ Move
  /\ editing' = IF editing = None THEN shown ELSE None
  /\ calls' = IF editing = None THEN calls ELSE Void(calls, "delete")
  /\ UNCHANGED <<kind, server, list, sheet, drafts, form, fails, ghosts>>

SaveDeal == Deals /\ shown # None /\ editing = shown /\ Save

DeleteDeal == Deals /\ shown # None /\ editing = shown /\ Delete

\* The pick outlives the sheet: what another deal was about to be linked to is
\* picked still.
LinkDealPerson == Deals /\ Relate("link", shown)
LinkDealCompany == Deals /\ Relate("link", shown)

\* What is linked is shown, and can be unlinked, while nothing is loading.
UnlinkDealPerson == Deals /\ detail.state = "ready" /\ Relate("link", shown)
UnlinkDealCompany == Deals /\ detail.state = "ready" /\ Relate("link", shown)

CreateDealTask == Deals /\ Relate("task", shown)

\* DealTaskEditor
EditDealTask == Deals /\ detail.state = "ready" /\ Relate("done", shown)

DealForm == Deals /\ (OpenForm \/ CloseForm \/ Submit)

-----------------------------------------------------------------------------
DealListed(c) == Deals /\ ListAnswers(c)

\* The new object refills and closes the panel.
DealSaved(c) == Deals /\ Saved(c) /\ Refill(c.id, c.data)
DealDeleted(c) == Deals /\ Deleted(c)
DealRelated(c) == Deals /\ Related(c)
DealCreated(c) == Deals /\ Created(c)
DealFailed(c) == Deals /\ Failed(c) /\ UNCHANGED edits
DealDetails(c) == Deals /\ (DetailsAnswer(c) \/ DetailsFail(c))

DealClicks ==
  \/ \E id \in Ids : SelectDeal(id)
  \/ OpenDeal \/ SaveDeal \/ DeleteDeal
  \/ LinkDealPerson \/ LinkDealCompany \/ UnlinkDealPerson \/ UnlinkDealCompany
  \/ CreateDealTask \/ EditDealTask
  \/ DealForm

DealAnswers(c) ==
  \/ DealListed(c)
  \/ DealSaved(c) \/ DealDeleted(c) \/ DealRelated(c) \/ DealCreated(c)
  \/ DealFailed(c) \/ DealDetails(c)
=============================================================================
