SPECIFICATION Spec
CONSTANTS
    c1 = c1
    c2 = c2
    c3 = c3
    p1 = p1
    p2 = p2
    First = First
    None = None
    Calls <- MCCalls
    CacheCalls <- MCPair
    Runs <- MCPair
    Processes <- MCProcesses
    MaxAttempts = 1
    Limit = 2
    Ttl = 1
    MaxTime = 2
    MaxRetries = 2
    MaxWrites = 2
INVARIANTS
    TypeOK
    SecretsSpentOnce
    CachesTell
    GatesHold
CHECK_DEADLOCK FALSE
