\* A Studio server and its platform: sessions, grants and commands.
SPECIFICATION Spec
CONSTANTS
  None = None
  Sessions = {s1, s2}
  Attempts = {a1, a2}
  Requests = {r1, r2}
  MaxAttempts = 1
  MaxSessions = 1
  MaxGeneration = 2
  Crashes = TRUE
  Commands = {1, 2, 3}
  Connections = {c1, c2}
  Addresses = {"a", "b"}
  Portable = {"a"}
  Grants = {s1, s2}
  Rows = 2
  Bounds <- MCBounds
  RequestBound = 2
  CommandBound = 2
  SetUpBound = 3
  GrantBound = 2
SYMMETRY Symmetric
INVARIANTS
  SubmittedOnce
  EnvelopeIsCurrent
  AttemptOpensOneSession
  AuthorityEndsWithItsRuntime
PROPERTIES
  NeverResurrected
  CommittedIsConfirmed
CHECK_DEADLOCK FALSE
