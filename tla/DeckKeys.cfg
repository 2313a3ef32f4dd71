SPECIFICATION Spec
CONSTANTS
  Deck = deck
  Conn = {deck, other}
  Ctrl = ctrl
  Space = space
  F13 = f13
  Key = {ctrl, space, f13}
  ModifierKeys = {ctrl}
  KnownKeys = {ctrl, space}
  OtherKeys = {space}
  PFn = pfn
  PCtrl = pctrl
  PSpace = pspace
  Physical = {pfn, pctrl, pspace}
  FnKey = pfn
  NoName = NoName
  ModName <- MCModName
  PlainName <- MCPlainName
  FnName <- MCFnName
  Page = {"Main", "PairCode", "Computers"}
  Capacity = 2
  WireLength = 2
INVARIANTS MacFollows OneMaster
PROPERTIES UpCarriesDownFlags ImplementsSharedKeyboard KeepsName NoneStuck
CHECK_DEADLOCK FALSE
