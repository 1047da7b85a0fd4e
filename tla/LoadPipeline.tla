---------------------------- MODULE LoadPipeline ----------------------------
(***************************************************************************)
(* How a source file travels from disk into V8: the thread of the user's   *)
(* script stores it in source_code_storage, submits a job and waits; the   *)
(* TypeScript server reads the source, stores the output in                *)
(* typescript_storage and completes the job; the loader reads the output.  *)
(* The stores are those of MemoryMapper, whose locks do not exclude a      *)
(* reader from a writer: the hand-off through the job does.  The queue is  *)
(* seen as TranspileService sees it: a job is pending, then answered, or   *)
(* lost when the compiler throws.                                          *)
(***************************************************************************)
EXTENDS MemoryMapper

CONSTANTS
  Loader, Server,      \* the two threads
  SourceStore, OutputStore, LibraryStore,
  Sources, Output,     \* source texts, and what the compiler makes of one
  Files, NoFile,       \* the urls of source files; the empty name of one not found
  Normalised,          \* the name the compiler makes of one ("a/../b" becomes "b")
  EgressName,          \* the output name of a source file
  LibraryFile, LibraryText,
  ScriptText,          \* what the script may store
  MaxImports, MaxCalls \* bounds of the model

ASSUME PipelineAssumption ==
  /\ Loader # Server /\ Threads = {Loader, Server}
  /\ SourceStore # OutputStore
  /\ SourceStore # LibraryStore /\ OutputStore # LibraryStore
  /\ Prepared = {SourceStore, OutputStore, LibraryStore}
  /\ LibraryFile \in FileNames
  /\ {LibraryText, ScriptText} \cup Sources \subseteq Contents /\ Output \in [Sources -> Contents]
  /\ NoFile \in Files /\ Files \subseteq FileNames
  /\ Normalised \in [Files -> FileNames] /\ Normalised[NoFile] \notin Files
  /\ EgressName \in [Files -> FileNames \ {NoFile}]
  /\ MaxImports \in Nat /\ MaxCalls \in Nat

VARIABLES
  loader,      \* where the script's thread is
  server,      \* where the server's thread is
  job,         \* the transpile job: its state, file and egress name
  fetched,     \* history: the source text of the import in progress
  libraryRead, \* readFileCache holds the library files
  imports,     \* imports begun
  calls        \* calls the script made

ownVars == <<loader, server, job, fetched, libraryRead, imports, calls>>
vars == <<mapperVars, ownVars>>

Job == [state : {"none", "pending", "answered", "lost"}, file : Files, egress : FileNames]

TypeOK ==
  /\ MapperTypeOK
  /\ loader \in {"loading", "storing", "waiting", "reading", "running", "calling", "crashed"}
  /\ server \in {"starting", "listing", "listening", "taken", "reading", "emitting", "crashed"}
  /\ job \in Job
  /\ fetched \in Sources \cup {NoContent}
  /\ libraryRead \in BOOLEAN
  /\ imports \in Nat /\ calls \in Nat

NoJob == [state |-> "none", file |-> NoFile, egress |-> NoFile]

\* attach("typescript_library", ...)
Library ==
  [m \in Prepared |-> IF m = LibraryStore THEN [Empty EXCEPT ![LibraryFile] = LibraryText]
                      ELSE Empty]

Init ==
  /\ MapperInit(Library)
  /\ loader = "loading"
  /\ server = "starting"
  /\ job = NoJob
  /\ fetched = NoContent
  /\ libraryRead = FALSE
  /\ imports = 0 /\ calls = 0

-----------------------------------------------------------------------------
(* The loader: the constructor of import_specifier, then the script.       *)

\* resolve_module_path(), fetch_source() and the call of write("source_code_storage", ...).
\* A file that is not found throws in V8 only: its empty name is stored and submitted.
Fetch(f, s) ==
  /\ loader = "loading" /\ imports < MaxImports
  /\ Invoke(Loader, "write", SourceStore, f, s)
  /\ imports' = imports + 1
  /\ fetched' = s
  /\ job' = [NoJob EXCEPT !.file = f]
  /\ loader' = "storing"
  /\ UNCHANGED <<server, libraryRead, calls>>

Stored_Early == TRUE                                         \* mutant
Stored == Idle(Loader)

\* The job is pushed when write() has returned.
Submit ==
  /\ loader = "storing" /\ Stored
  /\ job' = [job EXCEPT !.state = "pending"]
  /\ loader' = "waiting"
  /\ UNCHANGED <<mapperVars, server, fetched, libraryRead, imports, calls>>

\* What makes submit() return.
Answered_WhenTaken == job.state # "none" /\ server # "listening"    \* mutant
Answered_WhenNamed == job.state = "answered" /\ job.egress # NoFile  \* mutant
Answered == job.state = "answered"

\* submit() has returned: read() of the egress file.
AskOutput ==
  /\ loader = "waiting" /\ Answered
  /\ Invoke(Loader, "read", OutputStore, job.egress, NoContent)
  /\ loader' = "reading"
  /\ UNCHANGED <<server, job, fetched, libraryRead, imports, calls>>

\* The constructor dereferences what read() returned, null or not; the
\* output is compiled and loading goes on with the next import.
UseOutput ==
  /\ loader = "reading" /\ Idle(Loader)
  /\ loader' = IF answer[Loader] = NoContent THEN "crashed" ELSE "loading"
  /\ job' = [job EXCEPT !.state = "none"]
  /\ UNCHANGED <<mapperVars, server, fetched, libraryRead, imports, calls>>

\* All imports are resolved (there was at least the entry script): V8
\* evaluates the script.
Run ==
  /\ loader = "loading" /\ imports > 0
  /\ loader' = "running"
  /\ UNCHANGED <<mapperVars, server, job, fetched, libraryRead, imports, calls>>

\* The script uses the memoryAdaptor plugin on any store; its read()
\* dereferences the pointer to a missing file.
ScriptCall(kind, m, f) ==
  /\ loader = "running" /\ calls < MaxCalls
  /\ Invoke(Loader, kind, m, f, ScriptText)
  /\ calls' = calls + 1
  /\ loader' = "calling"
  /\ UNCHANGED <<server, job, fetched, libraryRead, imports>>

ScriptReturn ==
  /\ loader = "calling" /\ Idle(Loader)
  /\ loader' = IF call[Loader].kind = "read" /\ answer[Loader] = NoContent
               THEN "crashed" ELSE "running"
  /\ UNCHANGED <<mapperVars, server, job, fetched, libraryRead, imports, calls>>

-----------------------------------------------------------------------------
(* The TypeScript server: slim_typescript.mjs.                             *)

\* At start it lists the library files.
ListLibrary ==
  /\ server = "starting"
  /\ Invoke(Server, "list", LibraryStore, NoFile, NoContent)
  /\ server' = "listing"
  /\ UNCHANGED <<loader, job, fetched, libraryRead, imports, calls>>

Listen ==
  /\ server = "listing" /\ Idle(Server)
  /\ server' = "listening"
  /\ UNCHANGED <<mapperVars, loader, job, fetched, libraryRead, imports, calls>>

Take ==
  /\ server = "listening" /\ job.state = "pending"
  /\ server' = "taken"
  /\ UNCHANGED <<mapperVars, loader, job, fetched, libraryRead, imports, calls>>

\* Library files are read once, host.readFile() keeps them.
ReadLibrary ==
  /\ server = "taken" /\ ~libraryRead
  /\ Invoke(Server, "read", LibraryStore, LibraryFile, NoContent)
  /\ libraryRead' = TRUE
  /\ UNCHANGED <<loader, server, job, fetched, imports, calls>>

\* The compiler asks for the normalised name; the loader stored the source under its own.
ReadSource ==
  /\ server = "taken"
  /\ Invoke(Server, "read", SourceStore, Normalised[job.file], NoContent)
  /\ server' = "reading"
  /\ UNCHANGED <<loader, job, fetched, libraryRead, imports, calls>>

\* The memoryAdaptor plugin dereferences the pointer to a missing file.
ReadNothing ==
  /\ server = "reading" /\ Idle(Server) /\ answer[Server] = NoContent
  /\ server' = "crashed"
  /\ UNCHANGED <<mapperVars, loader, job, fetched, libraryRead, imports, calls>>

\* openSync() names the egress file and writeFileSync() stores it.
Emit ==
  /\ server = "reading" /\ answer[Server] \in Sources
  /\ Invoke(Server, "write", OutputStore, EgressName[job.file], Output[answer[Server]])
  /\ job' = [job EXCEPT !.egress = EgressName[job.file]]
  /\ server' = "emitting"
  /\ UNCHANGED <<loader, fetched, libraryRead, imports, calls>>

\* The compilation emits nothing; a file with an unknown extension is not even read.
Skip ==
  /\ Idle(Server)
  /\ server = "taken" \/ (server = "reading" /\ answer[Server] # NoContent)
  /\ server' = "emitting"
  /\ UNCHANGED <<mapperVars, loader, job, fetched, libraryRead, imports, calls>>

\* The compiler throws: job_loop() prints the message and listens again, and nobody
\* completes the job.
Throw ==
  /\ server \in {"taken", "reading", "emitting"} /\ Idle(Server)
  /\ server = "reading" => answer[Server] # NoContent
  /\ server' = "listening"
  /\ job' = [job EXCEPT !.state = "lost"]
  /\ UNCHANGED <<mapperVars, loader, fetched, libraryRead, imports, calls>>

Complete ==
  /\ server = "emitting" /\ Idle(Server)
  /\ job' = [job EXCEPT !.state = "answered"]
  /\ server' = "listening"
  /\ UNCHANGED <<mapperVars, loader, fetched, libraryRead, imports, calls>>

-----------------------------------------------------------------------------
LoaderStep ==
  \/ \E f \in Files, s \in Sources : Fetch(f, s)
  \/ Submit \/ AskOutput \/ UseOutput \/ Run
  \/ \E kind \in {"read", "exists", "list", "write"}, m \in Stores, f \in FileNames :
        ScriptCall(kind, m, f)
  \/ ScriptReturn

ServerStep ==
  \/ ListLibrary \/ Listen \/ Take \/ ReadLibrary \/ ReadSource \/ ReadNothing
  \/ Emit \/ Skip \/ Throw \/ Complete

\* A null pointer that is dereferenced ends the process.
Alive == loader # "crashed" /\ server # "crashed"
Next ==
  /\ Alive
  /\ \/ LoaderStep
     \/ ServerStep
     \/ \E t \in Threads : MapperStep(t) /\ UNCHANGED ownVars

Spec == Init /\ [][Next]_vars

\* Both threads keep running until the process ends; a thread that is inside
\* a section leaves it, and one that waits for a mutex gets it.
Fairness ==
  /\ WF_vars(Next /\ (Submit \/ AskOutput \/ UseOutput))
  /\ WF_vars(Next /\ ServerStep)
  /\ \A t \in Threads : WF_vars(Next /\ MapperStep(t))

FairSpec == Spec /\ Fairness

-----------------------------------------------------------------------------
(* Properties                                                              *)

\* Neither mutex of the memory mapper keeps a reader away from a writer, yet
\* the two isolates never touch a container, or the map of stores, while the
\* other changes it: each waits while the other works.
NoRace == \A t, u \in Threads : t # u => ~Race(t, u)

\* The text an import should be made of: the one it fetched.  Under a name that is not
\* normal the server sees the source of another import, the last one that had the
\* normal name.
Own == IF Normalised[job.file] = job.file THEN fetched
       ELSE content[maps[SourceStore]][Normalised[job.file]]

\* The server compiles the text that the import in progress fetched, not what
\* an earlier import of the same file left in the store.
SourceIsOwn ==
  server = "reading" /\ Idle(Server) => answer[Server] = Own

\* The loader reads the output made from the text it fetched, although the
\* outputs of different files may share a name; it reads nothing (and then
\* dereferences null) exactly when nothing was emitted.
OutputIsOwn ==
  loader = "reading" /\ Idle(Loader) =>
    answer[Loader] = IF job.egress = NoFile THEN NoContent ELSE Output[Own]

\* An import that was begun is served, unless the compiler throws: the two threads
\* and the mutexes of the stores never wait for one another.
ImportEnds ==
  loader \in {"storing", "waiting", "reading"} ~>
    loader = "loading" \/ job.state = "lost" \/ ~Alive
=============================================================================
