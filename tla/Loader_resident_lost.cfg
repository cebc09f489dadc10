SPECIFICATION Spec
CONSTANTS
  Addr = {a1, a2, a3, a4, a5, a6}
  NULL = NULL
  Files = {"ndless"}
  Callers = {}
  NlExecs = TRUE
  MaxFrames = 2
  MaxResidents = 1
  MallocFails = FALSE
  Debugger = "never"
SYMMETRY Symmetry
PROPERTY AskedStays
