SPECIFICATION StoreSpec
CONSTANTS
  Session = {a, b}
  Turn = {t1}
  NoTurn = NoTurn
  Deck = {d1}
  NoFocus = NoFocus
  AgentLimit = 2
  StoreLimit = 2
  CursorLimit = 1
  MaxClock = 3
  MaxFocus = 2
SYMMETRY SessionSymmetry
CONSTRAINT OneAtATime
INVARIANTS DecksUpToDate FocusOnLatestPrompt
PROPERTIES HistoryKeepsOrder
CHECK_DEADLOCK FALSE
