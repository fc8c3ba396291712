\* Two records, one of them perhaps not made yet, on each of the five pages;
\* and the settings of two organizations, with a row of each sort.
SPECIFICATION PagesSpec
CONSTANTS
  Ids = {r1, r2}
  None = None
  MaxCalls = 3
  MaxMoves = 4
  MaxFails = 1
  Teams = {t1, t2}
  Managed = {t1}
  Members = {m}
  Invitations = {i}
  Tokens = {k}
  Accounts = {a}
  Nobody = Nobody
  MaxSteps = 4
  MaxJobs = 1
  MaxLost = 1
INVARIANT DetailsOfShownRecord
INVARIANT DeletedStaysAway
INVARIANT OneRecordPerForm
PROPERTY OwnChangesKept
INVARIANT SettingsOfChosenTeam
INVARIANT SavedAsTested
SYMMETRY Symmetry
CHECK_DEADLOCK FALSE
