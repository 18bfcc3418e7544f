\* One loaded provider and one that is only subscribed to.
SPECIFICATION Spec
CONSTANTS
    Provider = {p1, p2}
    Loadable = {p1}
    Window = {w}
    Level <- MCLevel
    Endpoint = {web, app}
    InApp = {app}
    Client = {c1, c2}
    Run = {r1, r2}
    KeyPair = {k1, k2}
    EnvKeys = none
    NoKeys = none
    PageLimit = 1
    MaxEvent = 2
    MaxBusy = 2
    MaxInput = 2
INVARIANTS
    ExhaustionReported
    DueIsAhead
    KeysAreKept
PROPERTY TopicsFollowRows
