\* Files load, then the script prints and changes the settings.
CONSTANTS
  Options <- TwoOptions
  Levels <- TwoLevels
  Chosen <- Known
  Numbers <- Readable
  Texts <- Unreadable
  MaxJobs = 2
  MaxCalls = 3

SPECIFICATION Spec

INVARIANTS
  ApartUntilAnswered
  

\* The process ends, or the script has made its calls.
CHECK_DEADLOCK FALSE
