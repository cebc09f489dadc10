\* The scheduler and the watchdog, as the emulated machine uses them.
SPECIFICATION WSpec
CONSTANTS
    Items = {2, 4}
    Clock <- MCClock
    AtReset = {}
    Rates <- MCRates
    ResetRates <- MCResetRates
    SetTicks <- MCSetTicks
    Repeats <- MCRepeats
    Loads <- MCLoads
    BlockSizes = {2}
    Skip = 4
    MaxDelta = 3
    Word = 8
    None = None
    WATCHDOG = 4
INVARIANTS WTypeOK NoneMissed ArmedWhileRunning
PROPERTIES CountsDown PendingEnds WatchdogBites
