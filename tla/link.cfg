SPECIFICATION Spec
CONSTANTS
  Messages <- MCMessages
  BUFFER_SIZE = 4
  SERIAL_BUFFER_SIZE = 2
  MaxLosses = 3
  Nothing = Nothing
INVARIANTS
  LinkTypeOK
  SizeRespected
  OverrunNeedsLoss
PROPERTIES
  ImplementsLink
  Resynchronizes
