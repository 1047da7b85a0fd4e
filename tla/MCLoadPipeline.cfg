CONSTANTS
  Loader = Loader
  Server = Server
  Threads = {Loader, Server}
  SourceStore = SourceStore
  OutputStore = OutputStore
  LibraryStore = LibraryStore
  Stores = {SourceStore, OutputStore, LibraryStore, slot}
  Prepared = {SourceStore, OutputStore, LibraryStore}
  f1 = f1
  f2 = f2
  f3 = f3
  e1 = e1
  NoFile = NoFile
  LibraryFile = f2
  FileNames = {f1, f2, f3, e1, NoFile}
  Files = {f1, f2, f3, NoFile}
  Normalised <- Normal
  t1 = t1
  t2 = t2
  o1 = o1
  o2 = o2
  Contents = {t1, t2, o1, o2}
  Sources = {t1, t2}
  Output <- OutputOf
  EgressName <- OneName
  LibraryText = t2
  ScriptText = t1
  NoContent = NoContent
  Containers = {c1, c2, c3, c4}
  NoContainer = NoContainer
  MaxImports = 3
  MaxCalls = 1
SPECIFICATION FairSpec
INVARIANTS NoRace SourceIsOwn OutputIsOwn
PROPERTY ImportEnds
CHECK_DEADLOCK FALSE
