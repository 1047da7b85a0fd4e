CONSTANTS
  Server = Server
  Script = Script
  Plugins <- PluginNames
  Library <- LibraryOf
  file_extensions <- Extensions
  OtherExtensions = {".helper"}
  Programs <- JustCycle
  Entry <- EntryOf
  WorkingDirectory <- Cwd
  Hashes = {h1, h2, h3, h4}
  MaxDepth = 4
SPECIFICATION FairSpec
PROPERTY ProgramLoads
CHECK_DEADLOCK FALSE
