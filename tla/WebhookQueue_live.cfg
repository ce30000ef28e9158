SPECIFICATION FairSpec
CONSTANTS
  w1 = w1
  w2 = w2
  r1 = r1
  r2 = r2
  h1 = h1
  h2 = h2
  e1 = e1
  e2 = e2
  Workers <- TwoWorkers
  Requests <- TwoRequests
  Webhooks <- OneWebhook
  Events <- TwoEvents
  MaxAttempts = 2
  MaxAddresses = 1
  BatchSize = 2
  MaxCrashes = 1
  MaxRedeliveries = 1
PROPERTIES
  EveryDeliveryEnds
