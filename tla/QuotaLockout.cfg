\* An edit undone by the cron's write-back.
SPECIFICATION Spec
CONSTANTS
    Keys = {k1}
    Jobs = {j1}
    Requests = {}
    Strategies <- MCStrategies
    Allowances <- MCAllowances
    ResetDates <- MCResetDates
    Deltas = {2}
    MaxTime = 3
    MaxTokens = 4
INVARIANT QuotaHasAllowance
