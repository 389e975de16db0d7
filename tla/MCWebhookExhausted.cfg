\* The lease of the last attempt is recovered.
SPECIFICATION Spec
CONSTANTS
  None = None
  Events = {"e1"}
  Internal = {}
  SchemaEvents = {}
  Malformed = {}
  Endpoints = {"p1"}
  Commands = {}
  Workers = {"w1"}
  Fibers = {"w1"}
  WorkerOf <- MCWorkerOf
  EventTypes <- MCEventTypes
  TypeOf <- MCTypeOf
  Bounds <- MCBounds
  MaxAttempts = 1
  MaxTries = 1
  MaxEnabled = 1
  MaxAdmitted = 1
  MaxStamp = 0
  MaxSecrets = 1
  RotationBound = 0
  AdminBound = 1
  ArchiveBound = 0
  CrashBound = 0
INVARIANTS
  NoExhaustedRun
CHECK_DEADLOCK FALSE
