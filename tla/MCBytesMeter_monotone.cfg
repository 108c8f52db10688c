CONSTANTS
    c1 = c1
    c2 = c2
    NoCaller = NoCaller
    Callers <- MCCallers
    WriteCounts <- MCPositiveCounts
    ReadCounts <- MCReadCounts
    MaxCalls = 2
    Word = 16
SPECIFICATION Spec
PROPERTY ReportedTotalsMonotone
\* The request ends: the goroutines stop calling and Start returns.
CHECK_DEADLOCK FALSE
