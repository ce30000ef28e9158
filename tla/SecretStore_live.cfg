SPECIFICATION FairSpec

CONSTANTS
  w1 = w1
  w2 = w2
  w3 = w3
  v1 = v1
  v2 = v2
  noAge = noAge
  Workers <- TwoWorkers
  Keys <- TwoKeys
  Values <- OneValue
  Policies <- KeepOne
  NoAge <- noAge
  None = None
  MaxVersion = 1
  MaxKeyVersion = 2
  MaxTime = 0

PROPERTIES
  RequestsEnd
