\* Two runs of one endpoint, two processes, leases that run out and late finalizations.
SPECIFICATION Spec
CONSTANTS
  None = None
  Events = {"e1"}
  Internal = {}
  SchemaEvents = {}
  Malformed = {}
  Endpoints = {"p1"}
  Commands = {"c1"}
  Workers = {"w1", "w2"}
  Fibers = {"w1", "w2"}
  WorkerOf <- MCWorkerOf
  EventTypes <- MCEventTypes
  TypeOf <- MCTypeOf
  Bounds <- MCBounds
  MaxAttempts = 2
  MaxTries = 1
  MaxEnabled = 1
  MaxAdmitted = 1
  MaxStamp = 0
  MaxSecrets = 1
  RotationBound = 0
  AdminBound = 2
  ArchiveBound = 1
  CrashBound = 0
INVARIANTS
  OneLiveAttemptPerEndpoint
  RunMatchesLastAttempt
PROPERTIES
  HistoryIsFinal
  OnlyTheHolderFinishes
  LeaseIsFenced
CHECK_DEADLOCK FALSE
