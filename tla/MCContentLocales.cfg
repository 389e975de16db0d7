\* One entry in two locales, with a schema change, a listing or a lost reply, and a failure.
SPECIFICATION Spec
CONSTANTS
  a = a
  b = b
  en = en
  pl = pl
  red = red
  blue = blue
  both = both
  link = link
  v = v
  w = w
  None = None
  Entries <- OneEntry
  Locales = {en, pl}
  SharedContents <- Colours
  LocalizedContents <- Nothing
  RefsOf <- LinkToA
  ClaimsOf <- ByColour
  DigestOf <- ByValue
  English = en
  UniqueAtFirst = FALSE
  Limits <- LocaleBounds
INVARIANTS
  EventsMatchHeads
  TraversalIsConsistent
  LiveLocalesEnabled
  ConfigurationIsFollowed
PROPERTIES
  CommittedFresh
  KeepsLog
CHECK_DEADLOCK FALSE
