CONSTANTS
    c1 = c1
    c2 = c2
    NoCaller = NoCaller
    Callers <- MCCallers
    WriteCounts <- MCWriteCounts
    ReadCounts <- MCReadCounts
    MaxCalls = 2
    Word = 16
SPECIFICATION FairSpec
INVARIANT TypeOK
PROPERTY ImplementsTotals
PROPERTY CallsReturn
\* The request ends: the goroutines stop calling and Start returns.
CHECK_DEADLOCK FALSE
