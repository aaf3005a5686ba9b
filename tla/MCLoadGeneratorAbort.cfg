CONSTANTS
    Starters = {s1, s2}
    Nobody = Nobody
    MemMax = 2
    Plans <- MCPlans
SPECIFICATION Spec
PROPERTY AbortFindsTheLoad
