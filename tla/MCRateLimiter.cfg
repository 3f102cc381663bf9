CONSTANTS
    Unit = 3
    PerTick = 2
    TicksPerSecond = 3
    Callers = {c1, c2}
    MaxWindow = 6
SPECIFICATION CallersSpec
INVARIANTS
    WindowBound
