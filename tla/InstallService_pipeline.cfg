SPECIFICATION Spec
CONSTANTS
  anApp = anApp
  seatService = seatService
  lightService = lightService
  radio = radio
  seat = seat
  light = light
  Apps = {anApp, seatService, lightService, radio}
  Apis = {seat, light}
  KindOf <- MCKindOf
  ApisOf <- MCApisOf
  WithDbc = {seatService}
  Garbled = Garbled
  Down = Down
  MaxInstalls = 3
INVARIANTS
  TypeOK
  SuccessMeansInstalled
  ListedStaysReady
  SupportedIsMapped
CHECK_DEADLOCK FALSE
