SPECIFICATION Spec
CONSTANTS
  d1 = d1
  d2 = d2
  c1 = c1
  c2 = c2
  Device <- TwoDevices
  Founder <- TwoDevices
  Conv <- OneConv
  MaxTime = 1
  MaxEpoch = 1
  MaxMsgs = 1
  Faults = {"decrypt"}
  MaxFaults = 1
PROPERTIES FailedIsRetried
