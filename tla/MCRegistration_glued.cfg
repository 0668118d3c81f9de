\* MCRegistration_glued.cfg
SPECIFICATION Spec
CONSTANTS
    Methods <- OneMethod
    ParamSyms <- MCParams
    CatchAlls <- MCCatchAlls
    MaxParams = 8
    Patterns <- GluedPatterns
    GroupPrefixes <- NoPrefix
    Paths <- GluedPaths
    MaxGroups = 1
    MaxUses = 0
    MaxCalls = 2
    EarlyUse = TRUE
CHECK_DEADLOCK FALSE
INVARIANTS UnknownPathNotFound
