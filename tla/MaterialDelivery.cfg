SPECIFICATION DSpec
CONSTANTS
  Persons = {ann}
  Keys = {k1}
  Inputs = {in}
  PriceKeys = {image}
  References = {p1}
  Providers = {img}
  Receipts = {wf}
  Digests = {d1, d2}
  Amounts = {1}
  Versions = {1}
  MaxPoints = 1
  MaxResults = 1
  AttemptBound = 1
  NoRequest = NoRequest
  NoReceipt = NoReceipt
  NoDigest = NoDigest
  Workers = {w1, w2}
  Prelude <- MCNoPrelude
  MaxCandidates = 2
  MaxStageAttempts = 2
  SequenceBound = 4
  FaultBound = 2
  NoWorker = NoWorker
  NoPackage = NoPackage
SYMMETRY MCSymmetry
INVARIANTS
  DTypeOK
  OneLiveJob
  RefundIsProven
  BillIsTheDelivery
  DocumentAgrees
CHECK_DEADLOCK FALSE
