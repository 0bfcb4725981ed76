CONSTANTS
  mA = mA
  mB = mB
  mC = mC
  l1 = l1
  l2 = l2
  l3 = l3
  c1 = c1
  c2 = c2
  c3 = c3
  x = x
  y = y
  z = z
  Machine = {mA, mB, mC}
  Name = {x, y, z}
  Listen = {l1, l2, l3}
  Join = {c1, c2, c3}
  FirstName <- MCFirstName
  Host <- MCHost
  Guest <- MCGuest
  Typed <- MCTyped
  Route <- MCRoute
  Called <- MCCalled
  NoName = NoName
  NoListen = NoListen
  NoJoin = NoJoin
  MaxFault = 2
SPECIFICATION PairingSpec
CHECK_DEADLOCK FALSE
INVARIANTS Unambiguous TrustConfirmed ReportsTruthful
