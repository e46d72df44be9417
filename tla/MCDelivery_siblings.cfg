SPECIFICATION Spec
CONSTANTS
  d1 = d1
  d2 = d2
  c1 = c1
  c2 = c2
  Device <- TwoDevices
  Founder <- TwoDevices
  Conv <- TwoConvs
  MaxTime = 2
  MaxEpoch = 2
  MaxMsgs = 2
  Faults = {}
  MaxFaults = 0
SYMMETRY Peers
INVARIANTS TypeOK NoSilentLoss
