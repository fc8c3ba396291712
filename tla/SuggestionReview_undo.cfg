SPECIFICATION ReviewSpec
CONSTANTS
  Orgs = {"org", "other"}
  Former = Former
  Event = Event
  None = None
  Filters = {"all", "ws"}
  Cookie = "all"
  Rows = {"s1", "s2"}
  PageSize = 2
  MaxShells = 3
  MaxLoads = 3
  Suggestions = {"s1", "s2"}
  home <- MCHome
  Slots = {1, 2}
  MaxMoves = 3
  MaxFails = 1
CHECK_DEADLOCK FALSE
INVARIANT SettledListMatches
INVARIANT StoredUndoIsLive
PROPERTY UndoIsWhole
PROPERTY ShowsLatest
INVARIANT BusyHasHandler
