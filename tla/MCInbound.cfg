CONSTANTS
  m1 = m1
  m2 = m2
  i1 = i1
  b1 = b1
  r1 = r1
  r2 = r2
  l1 = l1
  Mail = {m1, m2}
  Id = {i1}
  Route = {r1, r2}
  Box = {b1}
  List = {l1, l2}
  IdOf <- MCIdOf
  BoxOf <- MCBoxOf
  Reads <- MCReads
  Suits <- MCSuits
  Stock <- MCStock
  MaxFaults = 2
  MaxEdits = 1
  None = None
SPECIFICATION FairSpec
INVARIANTS
  OneCampaign
  SeenIsDecided
  GoneIsFiled
  ProcessedIsAccepted
  RouteListsExist
PROPERTY MailIsHandled
