SPECIFICATION FairSpec
CONSTANTS
    i = i  w = w  f = f  c = c  q = q  v = v
    Procs = {i, w, f}
    Command <- CommandMC
    CheckPaths = {}
    NoLimit = {}
    NamesInput = {w}
    Garbled = {}
    GarbledDocs = {}
    Targets = {"t1"}
    Docs = {"empty", "a", "b", "ba", "ab", "masked", "maskedA"}
    Absent = Absent
    Torn = Torn
    EmptyMap = "empty"
    Oversize = {}
    Naming = {"a", "ba", "ab", "maskedA"}
    LoadVerdict <- LoadVerdictMC
    Verdict <- VerdictMC
    Effect <- EffectMC
    Canon <- CanonMC
    PostOK <- Valid
    Modes = {"0600", "0640", "0644"}
    Private = "0600"
    Default = "0644"
    Budget <- Crashes
INVARIANTS
    InstalledOnlyValidated
    NeverPrivate
PROPERTIES
    ImplementsAtomicTarget
    EveryInvocationEnds
