SPECIFICATION LuaSpec
CONSTANTS
  Addr = {a1, a2, a3, a4, a5, a6, a7}
  NULL = NULL
  Files = {"ndless", "bflt", "other"}
  Callers = {0, 1}
  NlExecs = FALSE
  MaxFrames = 1
  MaxResidents = 1
  MallocFails = TRUE
  Debugger = "never"
  LuaStates = {L1, L2}
  LUAEXT_MAX_MODULES = 2
  NestedRequires = FALSE
SYMMETRY Symmetry
INVARIANTS LuaTypeOK ArrayOfModules
