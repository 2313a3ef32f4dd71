SPECIFICATION Spec
CONSTANTS
  None = None
  Conn = {c1, c2}
  Device = {d1, d2}
  Key = {x}
  ModifierKeys = {}
  KnownKeys = {x}
  KeyCapable = {d1}
  LeaseCapable = {d1, d2}
  AudioCapable = {d2}
INVARIANTS RegistryLive KeysHeldByCurrent OutputPlaysOwner
PROPERTIES NeverPreempted DroppedLinkLetsGo StopLetsGo SilentOwnerExpires
