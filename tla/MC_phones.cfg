SPECIFICATION Spec
CONSTANTS
  usb = usb
  wifi = wifi
  redmi = redmi
  Phones = {usb, wifi}
  Wireless = {wifi}
  NameOf <- MCNameOf
  InitialStatus <- MCInitialStatus
  InitialCable <- MCInitialCable
  Nobody = Nobody
  MaxManagers = 2
  max_workers = 2
  expected_workers = 1
  MaxEvents = 3
INVARIANTS
  TypeOK
  StopReachesEveryManager
PROPERTIES
  ProtectedPhonesAreLeftAlone
  AccountIsTheOperators
  RegistryConverges
  StopEndsEveryManager
CHECK_DEADLOCK FALSE
