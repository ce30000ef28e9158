SPECIFICATION Spec
CONSTANTS
  w1 = w1
  w2 = w2
  r1 = r1
  r2 = r2
  h1 = h1
  h2 = h2
  e1 = e1
  e2 = e2
  Workers <- OneWorker
  Requests <- TwoRequests
  Webhooks <- OneWebhook
  Events <- OneEvent
  MaxAttempts = 2
  MaxAddresses = 1
  BatchSize = 1
  MaxCrashes = 0
  MaxRedeliveries = 2
SYMMETRY Symmetry
PROPERTIES
  FreshBudget
