SPECIFICATION FairSpec
CONSTANTS
  inbox = inbox
  Folders = {inbox}
  Inbox = inbox
  Messages = {m1, m2}
  FolderOf <- AllInInbox
  Syncs = {s1, s2}
  Ticker = s1
  FetchLimit = 1
  Overlap = 1
  MaxSync = 1
  MaxTime = 3
  Faults = TRUE
CHECK_DEADLOCK FALSE
INVARIANT NothingPassedOver
PROPERTY MailBroughtIn
