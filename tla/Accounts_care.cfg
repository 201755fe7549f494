SPECIFICATION CareSpec
CONSTANTS
  Processes = {p1, p2}
  Names = {"app"}
  Usernames = {"ann", "bob"}
  Granted = {"editor", "db_admin"}
  MaxTokens = 3
  MaxCommands = 4
  MaxCrashes = 1
  None = None
INVARIANTS
  TypeOK
  AnswersAreRight
  AccountsAreKept
PROPERTIES
  OnlyTheFirstIsAsked
CHECK_DEADLOCK FALSE
