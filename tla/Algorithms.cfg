\* Bounded inputs of the pure computations.  A month fits MaxInt32, five weeks do not.
SPECIFICATION Spec
CONSTANTS
    None = None
    Garbage = Garbage
    MaxInt32 = 50000
    MaxInt64 = 2000000
    MaxDuration = 45000
    defaultUsageLimit = 2
    maxUsageLimit = 3
    maxErrorFiles = 2
    MaxEntries = 5
CHECK_DEADLOCK FALSE
INVARIANTS
    NamesRoundTrip
    RestrictionsApply
    QuotaIsUsable
    PanelShowsOwn
    WireIsFaithful
