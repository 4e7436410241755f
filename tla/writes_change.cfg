SPECIFICATION Spec
CONSTANTS
  None = None
  Traits <- DisputedTraits
  Reads <- DisputedReads
  KindOf <- KindOfMC
  Rank <- RankMC
  Files <- DisputedFiles
  Ids = {"ENTITY-A"}
  Inputs <- NoInputs
  Additions <- NoAdditions
  FieldNames = {}
  Kinds <- DisputedKinds
  Reasons = {}
  Notes <- NotesMC
  Removals = {}
  Remarks = {}
  MaxWrites = 1
PROPERTIES
  WritesKeepContent
