SPECIFICATION Spec
CONSTANTS
  Persons = {ann}
  Keys = {k1}
  Inputs = {in}
  PriceKeys = {image}
  References = {p1}
  Providers = {img}
  Receipts = {job}
  Digests = {d1, d2}
  Amounts = {1, 2}
  Versions = {1}
  MaxPoints = 2
  MaxResults = 2
  AttemptBound = 2
  NoRequest = NoRequest
  NoReceipt = NoReceipt
  NoDigest = NoDigest
SYMMETRY MCSymmetry
INVARIANTS
  OneUnresolvedAttempt
  LateResultFlagged
PROPERTIES
  BillStands
