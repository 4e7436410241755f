SPECIFICATION Spec
CONSTANTS
    None = None
    Rank <- RankMC
    Malformed = {"bad"}
    Unwritable = {"", "bell"}
    Unclean = {"c "}
    Starts <- OneStub
    IDs = {"ENTITY-A"}
    LocatorKeys = {"p"}
    FieldKeys = {"f", "g"}
    AssertionKeys = {"x"}
    Kinds = {}
    Values = {"u", "bad"}
    Texts = {None, "c", "c "}
    Bodies <- EntryBodies
    Scalars = {"p", "q", "f", "g", "x", "y", "u", "v", "bad"}
INVARIANTS
    ValidInValidOut
    CommentsClean
    AddThenRemove
PROPERTIES
    OrderPreserved
    OnlyAddressed
    CommentsKept
    FormatOnlySorts
    RefusalInOrder
