\* Every file and every environment with at most two variables set.
SPECIFICATION Spec
CONSTANTS
  Settings <- MCSettings
  LevelPath = "LogLevel"
  TypeOf <- MCTypeOf
  Files <- MCFiles
  Slashed = {"Topics"}
  Vars <- MCVars
  NameOf <- MCNameOf
  Texts <- MCTexts
  NumberOf <- MCNumberOf
  FlagOf <- MCFlagOf
  Levels = {"DEBUG", "INFO"}
  FileAt <- MCFileAt
  MaxExact = 4
  MaxInt = 15
  MaxVars = 2
INVARIANTS TypeOK OverridesTakeEffect OutcomeDecided
