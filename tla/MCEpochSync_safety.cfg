SPECIFICATION Spec
CONSTANTS
  Device = {d1, d2}
  Creator = d1
  MAX_JOIN_ATTEMPTS = 2
  MaxCommits = 3
  MaxFaults <- SafetyFaults
CONSTRAINT FewMishaps
INVARIANTS TypeOK OneHistory JoinableAtHead
PROPERTIES NoForeignAdopt ReplayAdvances JoinExclusive
