\* Two entries of a locale that exchange unique values and refer to each other.
SPECIFICATION Spec
CONSTANTS
  a = a
  b = b
  en = en
  pl = pl
  red = red
  blue = blue
  both = both
  link = link
  v = v
  w = w
  None = None
  Entries <- TwoEntries
  Locales = {en}
  SharedContents <- Links
  LocalizedContents <- Mixtures
  RefsOf <- LinkToA
  ClaimsOf <- ByColour
  DigestOf <- ByValue
  English = en
  UniqueAtFirst = TRUE
  Limits <- PublishBounds
INVARIANTS
  UniqueClaims
  PublishedAsReviewed
  LocksAreOrdered
CHECK_DEADLOCK FALSE
