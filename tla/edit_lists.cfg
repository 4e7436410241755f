SPECIFICATION Spec
CONSTANTS
    None = None
    Rank <- RankMC
    Malformed = {"bad"}
    Unwritable = {"", "bell"}
    Unclean = {"c "}
    Starts <- ByHand
    IDs = {"ENTITY-A", "ENTITY-B"}
    LocatorKeys = {}
    FieldKeys = {}
    AssertionKeys = {}
    Kinds = {"API", "INV"}
    Values = {"u"}
    Texts = {None, "c", "c "}
    Bodies <- StubBodies
    Scalars = {"ENTITY-A", "ENTITY-B", "API", "INV", "u"}
INVARIANTS
    ValidInValidOut
    AddThenRemove
    TypeOK
PROPERTIES
    OnlyAddressed
    CommentsKept
    OrderPreserved
    FormatOnlySorts
