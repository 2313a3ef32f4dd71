SPECIFICATION Spec
CONSTANTS
  None = None
  Conn = {c1}
  Device = {d1}
  Key = {x}
  ModifierKeys = {}
  KnownKeys = {x}
  KeyCapable = {d1}
  LeaseCapable = {}
  AudioCapable = {}
PROPERTIES OnlyPairedRegister
