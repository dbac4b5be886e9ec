SPECIFICATION Spec
CONSTANTS
  Persons = {ann}
  Keys = {k1, k2}
  Inputs = {in}
  PriceKeys = {image}
  References = {p1, p2}
  Providers = {img}
  Receipts = {}
  Digests = {d1}
  Amounts = {1, 2}
  Versions = {1, 2}
  MaxPoints = 3
  MaxResults = 2
  AttemptBound = 1
  NoRequest = NoRequest
  NoReceipt = NoReceipt
  NoDigest = NoDigest
SYMMETRY MCSymmetry
INVARIANTS
  TypeOK
  FrozenIsHeld
  PointsConserved
  AuditConsistent
  BilledAsQuoted
PROPERTIES
  KeepsHolds
