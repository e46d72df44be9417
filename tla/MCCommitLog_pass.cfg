SPECIFICATION Spec
CONSTANTS
    Device = {d1, d2}
    Steady = {d1}
    Commit = {c1, c2}
    Worker = {w1}
    PRUNE_SLACK_EPOCHS = 2
    PRUNE_MAX_BEHIND_HEAD = 2
    MaxAhead = 1
    MaxEpoch = 3
SYMMETRY Symmetry
CONSTRAINT SteadyStays
INVARIANTS TypeOK GaplessSuffix RowsAreWinners EpochsWonInOrder
PROPERTIES NoLossForReadMember FallsBackByOvertaking ImplementsAppendLog
