SPECIFICATION FairSpec
CONSTANTS
    Windows = {1, 2, 3}
    MaxAge = 3
    DefaultWindow = 2
    KioskReset = 2
    None = None
INVARIANT IntervalIsCurrent
INVARIANT TimerIsCurrent
PROPERTY StaysInWindow
PROPERTY AnimationCycles
PROPERTY KioskReturnsAtRest
