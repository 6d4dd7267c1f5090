SPECIFICATION Spec
CONSTANTS
  Bytes = {1, 2}
  MaxFrames = 3
  MaxBytes = 1
  MaxPads = 1
  MaxFragment = 2
INVARIANTS
  DeliveryIsFaithful
  VerdictIsRight
PROPERTY
  Ends
