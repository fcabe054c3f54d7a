CONSTANTS
  Functions = {f, g}
  Customs = {c}
  MaxContent <- MCMaxContent
SPECIFICATION Spec
INVARIANTS
  TypeOK
  BilledOnce
  Delivered
  Told
  ItemsInOrder
  CompletedInFull
  Envelope
  BlocksPaired
  
PROPERTY Unwound
CHECK_DEADLOCK FALSE
