SPECIFICATION Spec
CONSTANTS
  None = None
  Unknown = Unknown
  Home = home
  Cafe = cafe
  Desk = desk
  Lap = lap
  Fix = fix
  Docs = docs
  Ssid = {home, cafe}
  Encrypted = {cafe}
  Mac = {desk, lap}
  Session = {fix, docs}
  WifiList <- MCWifiList
  MacList <- MCMacList
  SessionList <- MCSessionList
  Page = {"Main", "Codex", "Wifi", "WifiPassword", "Computers", "AddComputer", "PairCode", "Brightness", "ScreenOff"}
  Levels = 2
  ScreenTimeouts <- MCTimeouts
  IdleDimAfter = 1
  CodeLength = 1
  Varies = {{"time"}, {"networks"}, {"Macs"}, {"sessions"}}
  Disturbances = 2
INVARIANTS KeysActWhereTheyWentDown ActsOnHighlighted
PROPERTIES SelectionSticky
