\* Two transfers of variables to a calculator that consents or refuses, and
\* that may cancel one of its packets between two bytes.
SPECIFICATION Spec
CONSTANTS
    Width = 3
    Code <- MCCode
    Files <- MCFiles
    NULL = NULL
    MaxFiles = 2
    MaxCancels = 2
    CancelMidByte = FALSE
    Patient = TRUE
    Resets = "quiet"
INVARIANTS TypeOK StoredInOrder
PROPERTIES CarriesPackets TransferEnds
