SPECIFICATION Spec
CONSTANTS
    RingFrames = 7
    BlockFrames = 2
    Period = 3
    AdjustedPeriod = 2
    MaxTime = 10
    MaxRuns = 2
    MaxClients = 2
    MaxRequests = 2
    Names = {"BlackHole Box", "Desk"}
    Varies = {"audio", "clock", "rate", "volume", "switches", "box", "questions"}
INVARIANTS RingWhileRunning HearsItsOwnTime ClearMeansSilent RateAsAsked AnswersAsAnnounced
PROPERTIES ClockForward
CHECK_DEADLOCK FALSE
