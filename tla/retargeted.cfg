SPECIFICATION Spec
CONSTANTS
    i = i  w = w  f = f  c = c  q = q  v = v
    Procs = {w}
    Command <- CommandMC
    CheckPaths = {}
    NoLimit = {}
    NamesInput = {w}
    Garbled = {}
    GarbledDocs = {}
    Targets = {"t1", "t2"}
    Docs = {"empty", "a"}
    Absent = Absent
    Torn = Torn
    EmptyMap = "empty"
    Oversize = {}
    Naming = {"a"}
    LoadVerdict <- LoadVerdictMC
    Verdict <- VerdictMC
    Effect <- EffectMC
    Canon <- CanonMC
    PostOK <- Valid
    Modes = {"0600", "0640", "0644"}
    Private = "0600"
    Default = "0644"
    Budget <- Retargets
INVARIANTS
    ReadTargetIsReplaced
