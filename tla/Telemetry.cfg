\* One Collector with two envelopes that share a record, pairs of records, one component, pairs of migrations.
SPECIFICATION Spec
CONSTANTS
  None = None
  Place <- PlaceOf
  Inputs <- InputsOf
  Groups <- GroupsOf
  Servers <- TwoServers
  MaxRecords = 1
  Content <- Batches
  Malformed = {"broken"}
  QueueRequests = 1
  Calls = 1
  MaxFailures = 2
  RecordLists <- RecordEnvelopes
  MaxIngests = 2
  MaxInt64 = 3
  MaxTime = 5
  Overflowed <- OverflowOf
  FloatText <- TextOfDouble
  KeyPlace <- PlaceOfKey
  Programs <- CollectorPrograms
  Endpoints <- AllEndpoints
  Workloads <- AllWorkloads
INVARIANTS DeliveredOnce Mapped IdentityIsRecord CollectorSound MigrationSound
PROPERTIES KeepsPromise EventuallyStored
CHECK_DEADLOCK FALSE
