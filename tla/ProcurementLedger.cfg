SPECIFICATION SerialSpec
CONSTANTS
  Products = {shell, kit}
  Purchased = {shell}
  Drafts = {a}
  Sessions = {}
  MaxQuantity = 2
  ItemBound = 2
  TaskBound = 1
  BatchBound = 3
  EditionBound = 4
  NoDraft = NoDraft
  NoSession = NoSession
INVARIANTS
  PTypeOK
  ReceiptsAreCounted
  CostsAreCovered
PROPERTIES
  AppliedAsPreviewed
  RevisionsAddUp
CHECK_DEADLOCK FALSE
