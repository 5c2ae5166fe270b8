SPECIFICATION OutboxFairSpec
CONSTANTS
  Tenants <- OneTenant
  Tenant <- Acme
  Events <- OneEvent
  DedupIds = {k1}
  NoDedup = NoDedup
  NoDoc = NoDoc
  MaxReceiveCount = 3
  MaxBatch = 1
  MaxMessages = 1
  MaxDlq = 0
  MaxRestarts = 0
  Relays = {r1}
  BatchSize = 1
  MAX_RETRIES = 3
  MaxWrites = 1
  MaxQueueFaults = 0
  MaxStoreFaults = 0
PROPERTY PendingResolves
