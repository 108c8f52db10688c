CONSTANTS
    Nil = Nil
    Intervals <- MCIntervals
    MaxBlock = 12
    Width = 6

SPECIFICATION Spec

INVARIANT SegmentsNonEmpty
