SPECIFICATION Spec
CONSTANTS
  nobody = nobody
  Nobody = nobody
  ann = ann
  bob = bob
  here = here
  there = there
  People = {ann, bob}
  Browsers = {here, there}
  Sitter <- HereAnn
  Administrators = {bob}
  ActiveCap = 1
  LifetimeCap = 2
  Handlers = {1, 2}
  IdBound = 4
  TokenBound = 3
INVARIANTS CapsHold SignedInAsSitter AttemptIsUsedOnce
PROPERTY SessionOutlivesStrayLinks
CHECK_DEADLOCK FALSE
