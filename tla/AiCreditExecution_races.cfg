SPECIFICATION ESpec
CONSTANTS
  Persons = {ann}
  Keys = {k1}
  Inputs = {in}
  PriceKeys = {image}
  References = {p1}
  Providers = {img}
  Receipts <- MCReceipts
  Digests = {d1, d2}
  Amounts = {1}
  Versions = {1}
  MaxPoints = 1
  MaxResults = 1
  AttemptBound = 2
  MaxAttempts = 2
  Workers = {w1, w2}
  ThrowBound = 2
  NoRequest = NoRequest
  NoReceipt = NoReceipt
  NoDigest = NoDigest
SYMMETRY MCSymmetry
INVARIANTS
  ETypeOK
  OneLiveJob
  RefundMeansNoJob
  BillIsOnFile
  DeliveredIsAccounted
