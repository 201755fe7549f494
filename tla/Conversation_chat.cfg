CONSTANTS
  None = None
  Default = "default"
  Names = {"d"}
  Fronts = {"chat", "shell"}
  Elsewhere = Elsewhere
  MaxMade = 3
SPECIFICATION Spec
INVARIANTS
  TypeOK
  QuestionsDoNotLinger
  OneQuestion
  ReferencesAreLocal
PROPERTIES
  DropsAreConfirmed
  YesIsHonoured
  WorksSomewhere
