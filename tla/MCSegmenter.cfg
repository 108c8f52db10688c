CONSTANTS
    Nil = Nil
    Intervals <- MCIntervals
    MaxBlock = 12
    Width = 6

SPECIFICATION Spec

INVARIANT TypeOK
INVARIANT RangeMatchesReference
INVARIANT IndexRoundTrip
INVARIANT IndexForBlockSigned
