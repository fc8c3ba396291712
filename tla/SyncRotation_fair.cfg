SPECIFICATION FairSpec
CONSTANTS
  ticker = ticker  request = request
  Accounts = {a1, a2, a3, a4}
  Broken = {a1, a2}
  Syncs = {ticker, request}
  Ticker = ticker
  limit <- TwoEach
  Managed = {a2}
PROPERTY EveryMailboxVisited
