SPECIFICATION Spec
CONSTANTS
    i = i  w = w  f = f  c = c  q = q  v = v
    Procs = {f, c, q, v}
    Command <- CommandMC
    CheckPaths = {v}
    NoLimit = {}
    NamesInput = {w}
    Garbled = {c}
    GarbledDocs = {}
    Targets = {"t1"}
    Docs = {"empty", "a", "ab", "ba", "bad", "old", "sick", "huge"}
    Absent = Absent
    Torn = Torn
    EmptyMap = "empty"
    Oversize = {"huge"}
    Naming = {"a", "ab", "ba"}
    LoadVerdict <- LoadVerdictMC
    Verdict <- VerdictMC
    Effect <- EffectMC
    Canon <- CanonMC
    PostOK <- Valid
    Modes = {"0600", "0640", "0644"}
    Private = "0600"
    Default = "0644"
    Budget <- Faults
INVARIANTS
    FormatTellsTruth
PROPERTIES
    OnlyWritersReplace
