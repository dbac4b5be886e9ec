SPECIFICATION Spec
CONSTANTS
  Products = {shell, kit}
  Purchased = {shell}
  Drafts = {a}
  Sessions = {s1}
  MaxQuantity = 1
  ItemBound = 1
  TaskBound = 1
  BatchBound = 2
  EditionBound = 4
  NoDraft = NoDraft
  NoSession = NoSession
PROPERTIES
  AppliedAsPreviewed
CHECK_DEADLOCK FALSE
