\* Two files sent to a calculator that is connected, disconnected and reset at
\* any time, and that sends a packet about something else in between.
SPECIFICATION Spec
CONSTANTS
    Files <- MCFiles
    Buffers = 2
    MaxPuts = 2
    MaxOthers = 1
    Overlap = FALSE
    NULL = NULL
INVARIANTS TypeOK FileArrives
PROPERTIES TransferEnds Connects
