\* Three runs of the generator, forced or not, with failures, crashes, power
\* losses and edits; an editor over three changes of the code and two
\* pushes; or pulls over four changes of three collections on pages of one.
SPECIFICATION ToolsSpec
CONSTANTS
  MaxRuns = 3
  None = None
  Files <- MCFiles
  Texts <- MCTexts
  Schemas = {"alone", "with1", "with2"}
  Invalid = "invalid"
  Unknown = Unknown
  FirstCode <- MCFirstCode
  Reads <- MCReads
  Says <- MCSays
  EditBound = 3
  PushBound = 2
  Collections = {1, 2, 3}
  LocaleLists = {"en", "en, de"}
  PageSize = 1
  ChangeBound = 4
INVARIANTS
  AllOrNothing
  SuccessIsDurable
  LastGoodSurvives
  ViewFollowsCode
  PulledWasCurrent
CHECK_DEADLOCK FALSE
