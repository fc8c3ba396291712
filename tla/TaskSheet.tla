----------------------------- MODULE TaskSheet -----------------------------
(***************************************************************************)
(* The page of tasks, and the dashboard, which shows the same sheet:       *)
(* views/tasks-view.tsx, views/dashboard-view.tsx, sheets/task-sheet.tsx.  *)
(* One flag, saving, is kept by all that writes a task - also by what      *)
(* writes another task than the one in the sheet.                          *)
(***************************************************************************)
EXTENDS RecordSheet

Tasks == kind \in {"tasks", "dashboard"}

SelectTask(id) == kind = "tasks" /\ Select(id)

\* The dashboard hides its tasks while it loads.
SelectDashboardTask(id) == kind = "dashboard" /\ ~Loading /\ Select(id)

saving == UnderWay(Writes)

\* "Edit task", "Close" and "Cancel", which leave what is typed.
OpenTask ==
  /\ Tasks /\ shown # None
  /\ Move
  /\ editing' = IF editing = None THEN shown ELSE None
  /\ UNCHANGED <<kind, server, list, sheet, drafts, form, calls, fails, ghosts>>

SaveTask == Tasks /\ shown # None /\ editing = shown /\ ~saving /\ Save

\* toggleStatus
ToggleTask == Tasks /\ ~saving /\ Toggle

\* linkToPerson, linkToCompany, linkToDeal and unlinkTask write the task.
LinkTaskPerson == Tasks /\ ~saving /\ Toggle
LinkTaskCompany == Tasks /\ ~saving /\ Toggle
LinkTaskDeal == Tasks /\ ~saving /\ Toggle
UnlinkTask == Tasks /\ ~saving /\ Toggle

DeleteTask == Tasks /\ ~saving /\ Delete

-----------------------------------------------------------------------------
TaskListed(c) == kind = "tasks" /\ ListAnswers(c)

\* loadDashboard, which guards its answer as usePagedResource does.
DashboardListed(c) == kind = "dashboard" /\ ListAnswers(c)

TaskSaved(c) == kind = "tasks" /\ Saved(c) /\ Refill(c.id, c.data)
TaskDeleted(c) == kind = "tasks" /\ Deleted(c)

\* On the dashboard the handlers load all of its lists again.
DashboardSaved(c) == kind = "dashboard" /\ Saved(c) /\ Refill(c.id, c.data)
DashboardDeleted(c) == kind = "dashboard" /\ Deleted(c)

\* saveTask shows an error; saveEdits closes the form all the same.
TaskFailed(c) ==
  /\ Tasks /\ Failed(c)
  /\ editing' = IF c.op = "save" THEN None ELSE editing
  /\ UNCHANGED drafts

TaskClicks ==
  \/ \E id \in Ids : SelectTask(id) \/ SelectDashboardTask(id)
  \/ OpenTask \/ SaveTask \/ ToggleTask \/ DeleteTask
  \/ LinkTaskPerson \/ LinkTaskCompany \/ LinkTaskDeal \/ UnlinkTask

TaskAnswers(c) ==
  \/ TaskListed(c) \/ DashboardListed(c)
  \/ TaskSaved(c) \/ TaskDeleted(c) \/ DashboardSaved(c) \/ DashboardDeleted(c)
  \/ TaskFailed(c)
=============================================================================
