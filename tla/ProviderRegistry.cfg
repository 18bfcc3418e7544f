\* Two providers, two requests and restarts of both kinds.
SPECIFICATION Spec
CONSTANTS
    k1 = k1
    k2 = k2
    u1 = u1
    Provider = {p1, p2}
    Key = {k1, k2}
    Url = {u1}
    RowChoice <- MCRowChoice
    Client = {c1, c2}
    MaxInput = 3
SYMMETRY Alike
CHECK_DEADLOCK FALSE
INVARIANTS
    EnabledIsConfigured
    DisabledIsGone
    RowIsLastEdit
