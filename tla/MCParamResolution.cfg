CONSTANTS
    m = m
    p1 = p1
    g = g
    px = px
    s = s
    nostage = nostage
    k1 = k1
    k2 = k2
    Machine = m
    Profiles <- MCProfiles
    Global = g
    Missing = px
    Stage = s
    NoStage = nostage
    Names <- MCNames
    MaxList = 2
    MaxStageList = 1
SPECIFICATION Spec
SYMMETRY NameSymmetry
INVARIANTS TypeOK AggregationOrder SecureRoundTrip
