SPECIFICATION Spec
CONSTANTS
    Methods <- TwoMethods
    ParamSyms <- MCParams
    CatchAlls <- MCCatchAlls
    MaxParams = 8
    Patterns <- MCPatterns
    GroupPrefixes <- ApiPrefix
    Paths <- MCPaths
    MaxGroups = 2
    MaxUses = 1
    MaxCalls = 3
    EarlyUse = TRUE
CHECK_DEADLOCK FALSE
INVARIANTS TypeOK LookupIsBest MiddlewareRunsBefore
PROPERTIES RefusalChangesNothing
