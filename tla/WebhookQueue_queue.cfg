SPECIFICATION Spec
CONSTANTS
  w1 = w1
  w2 = w2
  r1 = r1
  r2 = r2
  h1 = h1
  h2 = h2
  e1 = e1
  e2 = e2
  Workers <- TwoWorkers
  Requests <- TwoRequests
  Webhooks <- TwoWebhooks
  Events <- OneEvent
  MaxAttempts = 2
  MaxAddresses = 2
  BatchSize = 2
  MaxCrashes = 1
  MaxRedeliveries = 2
SYMMETRY Symmetry
INVARIANTS
  TypeOK
  HistoryMatches
  OneSender
  AcceptedIsServed
  QueuedWithItsEvent
  RequestsBounded
PROPERTIES
  KeepsPromise
