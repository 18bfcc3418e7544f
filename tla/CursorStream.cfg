\* One request of either kind, up to four frames.
SPECIFICATION FairStream
CONSTANTS
    Code = {"", "unauthenticated", "permission_denied", "resource_exhausted", "invalid_argument", "unavailable"}
    MaxFrames = 4
CHECK_DEADLOCK FALSE
INVARIANTS
    TextIsFaithful
    FailureIsVisible
PROPERTIES
    RequestIsAnswered
