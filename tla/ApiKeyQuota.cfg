\* One key; a run of the cron overlaps an Authenticate.
SPECIFICATION FairSpec
CONSTANTS
    Keys = {k1}
    Jobs = {j1}
    Requests = {r1}
    Strategies <- MCStrategies
    Allowances <- MCAllowances
    ResetDates <- MCResetDates
    Deltas = {2}
    MaxTime = 3
    MaxTokens = 4
INVARIANTS
    NoTornQuota
    WindowBounded
PROPERTIES
    DeletedIsFinal
    QuotaRefills
