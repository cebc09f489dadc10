SPECIFICATION Spec
CONSTANTS
  Sites = {s1, s2}
  NoSite = NoSite
  FlagBits = {"Z"}
  MaskBits = {"I"}
  MaxDepth = 3
  UnwindTo = {}
PROPERTIES ReturnsToCaller
