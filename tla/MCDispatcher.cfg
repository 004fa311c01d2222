\* Two files change three times between them under a settle time of two ticks.
CONSTANTS
    Paths = {a, b}
    Settle = 2
    NoEntry = NoEntry
    MaxVersion = 3
    Idle = 0

SPECIFICATION FairSpec
INVARIANTS
    TypeOK
    NothingForgotten
    NoOversleep
PROPERTIES
    ImplementsDebounce
    EveryPathAnswered
    StopEnds
