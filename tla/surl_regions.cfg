CONSTANTS
  Label <- MCLabel
  Region <- MCRegion
  Type = {"compute", "image", "network"}
  Defaults = {"compute", "image"}
  Nil = Nil
SPECIFICATION Spec
INVARIANTS URLsOfRegion
PROPERTIES SuggestionsHelp SuggestsWhatServes
