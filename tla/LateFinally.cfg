SPECIFICATION Spec
CONSTANTS
  None = None
  Conn = {c1, c2}
  Device = {d1}
  Key = {}
  ModifierKeys = {}
  KnownKeys = {}
  KeyCapable = {}
  LeaseCapable = {d1}
  AudioCapable = {d1}
PROPERTIES LeaseEndsWithItsSession
