SPECIFICATION Spec
CONSTANTS
    IDs = {"ENTITY-A", "ENTITY-B"}
    Kinds = {"API", "INV"}
    Scalars = {"p", "f", "u"}
    None = None
    Rank <- RankMC
    Malformed = {}
    Unwritable <- UnwritableMC
    Unclean <- UncleanMC
    Starts <- Files
    Bodies = {"c", "", "c ", "  ", " "}
    Spaced = " "
    Trim <- TrimMC
    Texts <- TextsMC
    MaxEdits = 2
INVARIANTS
    TypeOK
    CanonicalFixpoint
PROPERTIES
    NoCommentLost
    CommentsStay
