SPECIFICATION Spec
CONSTANTS
  Addr = {a1, a2, a3, a4, a5, a6}
  NULL = NULL
  Files = {"ndless", "bflt", "broken", "other"}
  Callers = {}
  NlExecs = TRUE
  MaxFrames = 2
  MaxResidents = 1
  MallocFails = TRUE
  Debugger = "never"
SYMMETRY Symmetry
INVARIANTS TypeOK BlocksInUse NoBadFree ResidentsLive MaskGivenBack ScreenGivenBack
