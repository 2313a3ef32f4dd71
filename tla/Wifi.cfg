SPECIFICATION Spec
CONSTANTS
  Ssid = {home, cafe}
  None = None
  MaxWifiNetworks = 2
  Disturbances = 2
INVARIANTS OneMixedPerCrash OnKeptNetwork
PROPERTIES Joins
CHECK_DEADLOCK FALSE
