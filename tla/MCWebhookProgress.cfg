\* Two events for one endpoint, a process that may crash, fair loops.
SPECIFICATION FairSpec
CONSTANTS
  None = None
  Events = {"e1", "e2"}
  Internal = {}
  SchemaEvents = {}
  Malformed = {}
  Endpoints = {"p1"}
  Commands = {}
  Workers = {"w1"}
  Fibers = {"w1"}
  WorkerOf <- MCWorkerOf
  EventTypes <- MCEventTypes
  TypeOf <- MCTypeOf
  Bounds <- MCBounds
  MaxAttempts = 2
  MaxTries = 1
  MaxEnabled = 1
  MaxAdmitted = 1
  MaxStamp = 0
  MaxSecrets = 1
  RotationBound = 0
  AdminBound = 1
  ArchiveBound = 0
  CrashBound = 1
PROPERTIES
  EventsExpand
  RunsSettle
CHECK_DEADLOCK FALSE
