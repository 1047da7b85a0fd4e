CONSTANTS
  Server = Server
  Script = Script
  Plugins <- PluginNames
  Library <- LibraryOf
  file_extensions <- Extensions
  OtherExtensions = {".helper"}
  Programs <- AllPrograms
  Entry <- EntryOf
  WorkingDirectory <- Cwd
  Hashes = {h1, h2, h3, h4, h5, h6}
  MaxDepth = 4
SPECIFICATION Spec
SYMMETRY Symmetry
INVARIANTS TypeOK NoCacheRace LinkedAsRequested KnowsItsPlace CompleteWhenLoaded
CHECK_DEADLOCK FALSE
