SPECIFICATION Spec

CONSTANTS
  w1 = w1
  w2 = w2
  w3 = w3
  v1 = v1
  v2 = v2
  noAge = noAge
  Workers <- TwoWorkers
  Keys <- OneKey
  Values <- TwoValues
  Policies <- KeepMany
  NoAge <- noAge
  None = None
  MaxVersion = 3
  MaxKeyVersion = 2
  MaxTime = 2

INVARIANTS
  RecoveryKeepsSecrets
