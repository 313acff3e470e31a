CONSTANTS
    Arches = {a1, a2, a3}
    Shas = {h0, h1, h2}
    Sha <- MCSha
    Iso <- MCIso
    None = None
    NoSha = NoSha
    Partial = Partial
    MaxSaves = 2
    PerIterationLoopVars = TRUE
    ScriptMayFail = TRUE
    a1 = a1
    a2 = a2
    a3 = a3
    h0 = h0
    h1 = h1
    h2 = h2
SPECIFICATION Spec
INVARIANTS CanaryTruthful
CHECK_DEADLOCK FALSE
