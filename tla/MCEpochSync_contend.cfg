SPECIFICATION Spec
CONSTANTS
  Device = {d1, d2, d3}
  Creator = d1
  MAX_JOIN_ATTEMPTS = 2
  MaxCommits = 4
  MaxFaults <- ContendFaults
INVARIANTS OneHistory LosesOnlyToWinners
