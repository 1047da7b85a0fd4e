CONSTANTS
  CommandLines <- Lines
  Executable <- slim
  WorkingDirectory <- Home
  ScriptFiles <- Files
  OneLetter <- Letters
  Quoted <- WithQuotes
  MaxArguments = 1
  Failures = {"script"}
  MaxImports = 2
SPECIFICATION FairSpec
PROPERTIES ErrorsEndProcess
CHECK_DEADLOCK FALSE
