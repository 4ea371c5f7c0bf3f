SPECIFICATION Spec
CONSTANTS
    c1 = c1
    c2 = c2
    cron = cron
    Callers <- MCCallers
    Crons <- MCCrons
    MaxKeys = 4
SYMMETRY SymCallers
INVARIANTS TypeOK SuccessorInPlace
PROPERTY SuccessorBeforeRemoval
CHECK_DEADLOCK FALSE
