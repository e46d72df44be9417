SPECIFICATION Spec
CONSTANTS
  d1 = d1
  d2 = d2
  c1 = c1
  c2 = c2
  Device <- TwoDevices
  Founder <- OneFounder
  Conv <- OneConv
  MaxTime = 2
  MaxEpoch = 2
  MaxMsgs = 2
  Faults = {"send", "forget", "welcome", "decrypt", "replay", "advance", "gc", "ttl", "crash"}
  MaxFaults = 1
INVARIANTS NoSilentLoss
