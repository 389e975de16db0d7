\* One event is expanded and replayed while the endpoint is reconfigured and archived.
SPECIFICATION Spec
CONSTANTS
  None = None
  Events = {"e1", "e2"}
  Internal = {}
  SchemaEvents = {}
  Malformed = {"e2"}
  Endpoints = {"p1"}
  Commands = {"c1"}
  Workers = {"w1"}
  Fibers = {}
  WorkerOf <- MCWorkerOf
  EventTypes <- MCEventTypes
  TypeOf <- MCTypeOf
  Bounds <- MCBounds
  MaxAttempts = 1
  MaxTries = 1
  MaxEnabled = 1
  MaxAdmitted = 2
  MaxStamp = 1
  MaxSecrets = 3
  RotationBound = 4
  AdminBound = 3
  ArchiveBound = 2
  CrashBound = 0
INVARIANTS
  IntervalsAreOrdered
PROPERTIES
  MissedForGood
  NoEventLost
  ReceiversCanVerify
CHECK_DEADLOCK FALSE
