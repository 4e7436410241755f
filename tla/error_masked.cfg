SPECIFICATION Spec
CONSTANTS
    IDs = {"ENTITY-A", "ENTITY-B"}
    Kinds = {"API", "INV"}
    Scalars = {"p", "f", "u"}
    None = None
    Rank <- RankMC
    Malformed = {}
    Unwritable <- UnwritableMC
    Unclean <- UncleanMC
    Starts <- Canonical
    Bodies = {"c", "  "}
    Spaced = " "
    Trim <- TrimMC
    Texts <- TextsMC
    MaxEdits = 1
INVARIANTS
    NoInternalError
