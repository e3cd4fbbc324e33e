SPECIFICATION Spec
CONSTANTS
    a1 = a1
    a2 = a2
    r1 = r1
    r2 = r2
    Alert = {a1, a2}
    Rule <- MCRule
    Service <- MCService
    Severities = {"none", "fatal", "error"}
    Reading = {r1, r2}
    Configs <- MCConfigs
    Skew = 1
    MaxWall = 2
    MaxPosts = 4
SYMMETRY Symmetry
INVARIANT RepeatsStayQuiet
INVARIANT SuppressedExplained
INVARIANT ResolvedJoins
INVARIANT DropsAreMild
