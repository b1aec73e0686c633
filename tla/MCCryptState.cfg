SPECIFICATION Spec
CONSTANTS
    Base = 8
    LateWindow = 3
    Digits = 3
    Starts <- MCStarts
    MaxSent = 9
    MaxResyncs = 1
CHECK_DEADLOCK FALSE
INVARIANTS
    NoReplay
    WindowExact
    GuessExact
