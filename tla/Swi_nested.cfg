SPECIFICATION Spec
CONSTANTS
  Sites = {s1, s2}
  NoSite = NoSite
  FlagBits = {"Z"}
  MaskBits = {"I"}
  MaxDepth = 2
  UnwindTo = {}
INVARIANTS TypeOK TopSaved OuterSaved SlotsGivenBack
PROPERTIES ReturnsToCaller ImplementsCallStack
