SPECIFICATION Spec
CONSTANTS
  None = None
  Traits <- TraitsMC
  Reads <- ReadsMC
  KindOf <- KindOfMC
  Rank <- RankMC
  Files <- FilesMC
  Ids = {"ENTITY-A", "DTO-B", "ENTITY-1"}
  Inputs <- InputsMC
  Additions <- AdditionsMC
  FieldNames = {"1", "comment", ""}
  Kinds = {"DTO", "ENTITY", "True"}
  Reasons <- ReasonsMC
  Notes <- NotesMC
  Removals <- RemovalsMC
  Remarks <- RemarksMC
  MaxWrites = 1
INVARIANTS
  TypeOK
  NothingLost
  ShownAsWritten
  SetTakesAll
  WrittenReadsBack
  InputRulesSuffice
  SchemaAgrees
PROPERTIES
  GetThenSet
  RemovesTheDescribed
  CommentsTheDescribed
