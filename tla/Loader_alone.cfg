SPECIFICATION Spec
CONSTANTS
  Addr = {a1, a2, a3, a4, a5, a6}
  NULL = NULL
  Files = {"ndless", "bflt", "other"}
  Callers = {}
  NlExecs = FALSE
  MaxFrames = 1
  MaxResidents = 1
  MallocFails = FALSE
  Debugger = "idle"
SYMMETRY Symmetry
INVARIANTS NoLeak
PROPERTY AskedStays
