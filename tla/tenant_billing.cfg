SPECIFICATION Spec
CONSTANTS
    Restores = {restored}
    Halts = {halted}
    Cancels = {cancelled}
    Hook = {h1, h2}
    Key = {}
    Reader = {}
    FreeKeys = 0
    MaxTrouble = 1
CHECK_DEADLOCK FALSE
INVARIANTS BilledOnce FlagFollowsStatus PlanConverges
