SPECIFICATION FairSpec
CONSTANTS
  Tenants <- CollidingTenants
  Events <- CollidingEvents
  DedupIds = {d1}
  NoDedup = NoDedup
  MaxReceiveCount = 3
  MaxBatch = 2
  MaxMessages = 2
  MaxDlq = 1
  MaxRestarts = 1
INVARIANTS TypeOK OnePlace DedupUnique
PROPERTIES OwnerOnly NothingDropped ImplementsFifo EventuallyReceived
