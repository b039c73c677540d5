\* One event through the workflow; run_agent stops after it.
SPECIFICATION Spec
CONSTANTS
    Category = {"security", "code_bug", "unknown"}
    Level = {"info", "warning"}
    Table = {"high", "medium"}
    Confidences = {0, 10}
    Thresholds = {50, 70}
    Frames = 1
    Helpers = 1
    TokenBudget = 3
    SnippetTokens = {1, 2}
    MaxRules = 2
    MaxChanges = 1
    MaxAttempts = 2
CHECK_DEADLOCK FALSE
INVARIANTS FallbackIsDraft OnlyPromotedActs PlaybookWasUsed
