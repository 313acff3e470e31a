CONSTANTS
    pref = pref
    benv = benv
    task = task
    k1 = k1
    v1 = v1
    v2 = v2
    Threads = {pref, benv, task}
    Prefixes <- MCPrefixes
    DataPrefixes = {"bootenvs"}
    Rank <- MCRank
    Declared <- MCDeclared
    AllLockers = {task}
    Keys <- MCKeys
    EmptyKey = ""
    PatchKeys <- MCPatchKeysSame
    Vals = {v1, v2}
    Absent = Absent
    NoThread = NoThread
    MaxOps = 2
SPECIFICATION Spec
INVARIANTS NoEmptyKey
SYMMETRY MCSymmetry
