------------------------------- MODULE Pages -------------------------------
(***************************************************************************)
(* One page of the web app is open: one with records, or the settings.     *)
(***************************************************************************)
EXTENDS RecordPages, SettingsPage

VARIABLE page  \* "records" or "settings"

\* The page that is not open does not begin.
PagesInit ==
  /\ page \in {"records", "settings"}
  /\ Init /\ SettingsInit
  /\ page = "settings" => kind = "dashboard" /\ Alive = {}
  /\ page = "records" => header = CHOOSE o \in Teams : TRUE

PagesNext ==
  \/ page = "records" /\ Next /\ UNCHANGED <<page, settingsVars>>
  \/ page = "settings" /\ SettingsNext /\ UNCHANGED <<page, vars>>

PagesSpec == PagesInit /\ [][PagesNext]_<<page, vars, settingsVars>>
=============================================================================
