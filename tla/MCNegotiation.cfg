SPECIFICATION Spec
CONSTANTS
  Ctx = {c1, c2, c3}
  Server = {c1, c2, c3}
  Site = {w}
  SiteDocs <- MCSiteDocs
  Capability <- MCCapability
  Profile <- MCProfile
  Any <- MCAny
  Number <- MCNumber
  None = None
  MaxCaps = 2
  MaxOffers = 1
INVARIANTS BestDecision AgreedIsShared
PROPERTIES DecisionsStay
CHECK_DEADLOCK FALSE
