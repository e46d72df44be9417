SPECIFICATION Spec
CONSTANTS
    Device = {d1, d2}
    Steady = {d1}
    Commit = {c1}
    Worker = {w1}
    PRUNE_SLACK_EPOCHS = 1
    PRUNE_MAX_BEHIND_HEAD = 4
    MaxAhead = 0
    MaxEpoch = 4
SYMMETRY Symmetry
CONSTRAINT SteadyStays
PROPERTIES NoLossForCurrentMember
