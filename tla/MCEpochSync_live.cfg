SPECIFICATION FairSpec
CONSTANTS
  Device = {d1, d2}
  Creator = d1
  MAX_JOIN_ATTEMPTS = 2
  MaxCommits = 6
  MaxFaults <- LiveFaults
PROPERTIES Converges
