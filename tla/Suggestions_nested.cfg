SPECIFICATION Spec
CONSTANTS
  ann = ann  bob = bob  acme = acme  m1 = m1  m2 = m2  e1 = e1  e2 = e2  e3 = e3  deal = deal
  Addresses = {ann, bob}
  Domains = {acme}
  DomainOf <- AtAcme
  Messages = {m1, m2}
  Sender <- BobWritesLast
  Recipients <- ToAnn
  SentAt <- AtOneTime
  HistoryLimit = 1
  Entities = {e1, e2, e3}
  Known <- BobKnown
  Deals = {deal}
  DealPeople <- BobsDeal
  Workers = {w1, w2}
  RLSEnforced = FALSE
  Faults = TRUE
  MaxActivities = 2
  MaxRequests = 3
SYMMETRY Symmetry
CHECK_DEADLOCK FALSE
INVARIANT TimelineOfStoredMail
