CONSTANTS
  CommandLines <- Lines
  Executable <- slim
  WorkingDirectory <- Home
  ScriptFiles <- Files
  OneLetter <- Letters
  Quoted <- WithQuotes
  MaxArguments = 4
  Failures = {"server", "script"}
  MaxImports = 2
SPECIFICATION FairSpec
INVARIANTS TypeOK DisposedAfterThreads ScriptOutlived ScriptSeesItsArguments
PROPERTIES Terminates
CHECK_DEADLOCK FALSE
