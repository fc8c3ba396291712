SPECIFICATION CaptureSpec
CONSTANTS
  Names <- MCNames
  Urls <- MCUrls
  Roles <- MCRoles
  strip <- MCStrip
  cleanName <- MCClean
  plausible <- MCPlausible
  MaxKept = 3
  Profiles = {"ann", "ann-lee"}
  Firms = {"acme"}
  Feed = "feed"
  None = None
  NameOf <- MCNameOf
  Dom <- MCDom
  OneWord = {"Ann"}
  SearchLimit = 1
  Slots = {1, 2}
  MaxPeople = 2
  MaxCompanies = 2
  Newcomers = {"ann", "namesake"}
  MaxVisits = 1
  MaxCalls = 3
  MaxElsewhere = 1
CHECK_DEADLOCK FALSE
INVARIANT SavedMeansLinked
PROPERTY TwinOnlyByStaleCheck
PROPERTY UpdateHitsItsRecord
PROPERTY BusyEnds
