\* Two developers, each in a root of his own, push and publish presentations
\* while one dashboard configures Delivery.
SPECIFICATION Spec
CONSTANTS
  c1 = c1
  f = f
  g = g
  p1 = p1
  p2 = p2
  r1 = r1
  r2 = r2
  m1 = m1
  m2 = m2
  m3 = m3
  None = None
  Collections = {c1}
  Fields = {f, g}
  Presentations = {1, 2}
  DefaultPresentation = 1
  Documents <- TheDocuments
  Commands = {m1, m2, m3}
  Configurers = {q1}
  Processes = {p1, p2}
  Roots = {r1, r2}
  Tools <- TheTools
  RootOf <- OneRootEach
  Selections <- TheSelections
  MaxRevisions = 3
  MaxOrphans = 1
  MaxVersion = 2
INVARIANTS
  IdentitiesFollowRevisions
  UncertainIsRetained
PROPERTIES
  AppliesWhatWasPlanned
  ConfiguresPublishedFields
SYMMETRY Symmetry
CHECK_DEADLOCK FALSE
