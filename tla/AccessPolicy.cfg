\* Two requests of one key, two providers that share an entry.
SPECIFICATION Spec
CONSTANTS
    Provider = {p1, p2}
    Shared = {p1, p2}
    Key = {k1}
    Url = {u1, u2}
    NoSecret = oauth
    NoUrl = none
    Client = {c1, c2}
    MaxInput = 4
SYMMETRY Symmetric
CHECK_DEADLOCK FALSE
INVARIANTS
    PolicyNotOlder
    RestrictionTakesEffect
    OthersStayUsable
