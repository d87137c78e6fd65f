SPECIFICATION Spec
CONSTANTS
  beam = beam
  seat = seat
  fan = fan
  Order <- MCOrder
  Lights = {beam}
  Seats = {seat}
  Fans = {fan}
  Drags = {0, 37, 100}
  Others <- MCOthers
  Unset = Unset
  MaxWrites = 2
INVARIANTS
  TypeOK
  NoOrphan
  StartsAreStopped
PROPERTIES
  Quits
  WrittenInRange
  Settles
CHECK_DEADLOCK FALSE
