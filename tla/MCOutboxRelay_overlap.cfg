SPECIFICATION OutboxSpec
CONSTANTS
  Tenants <- OneTenant
  Tenant <- Acme
  Events <- TwoEvents
  DedupIds = {k1}
  NoDedup = NoDedup
  NoDoc = NoDoc
  MaxReceiveCount = 3
  MaxBatch = 1
  MaxMessages = 4
  MaxDlq = 0
  MaxRestarts = 1
  Relays = {r1, r2}
  BatchSize = 2
  MAX_RETRIES = 3
  MaxWrites = 2
  MaxQueueFaults = 1
  MaxStoreFaults = 1
INVARIANTS OutboxTypeOK PublishedOncePerProcess PublishedKeyWasEnqueued PublishedIsRecorded
