SPECIFICATION FairSpec
CONSTANTS
  d1 = d1
  d2 = d2
  c1 = c1
  c2 = c2
  Device <- TwoDevices
  Founder <- OneFounder
  Conv <- TwoConvs
  MaxTime = 1
  MaxEpoch = 2
  MaxMsgs = 1
  Faults = {"forget", "welcome", "replay", "advance", "gc", "crash"}
  MaxFaults = 1
PROPERTIES AllDelivered
