---------------------------- MODULE ModuleLoader ----------------------------
(***************************************************************************)
(* The module loader: resolve_imports(), module_call_back_resolver() and   *)
(* the import_specifier they construct.  V8 asks for the requests of a     *)
(* module one after the other; the callback makes a new module for each    *)
(* request, caches it, and instantiates it, which makes V8 ask for the     *)
(* requests of the new module: the recursion is the stack of a thread.     *)
(*                                                                         *)
(* Two threads load modules: the one that runs the TypeScript server and   *)
(* the one that runs the script.  They have an isolate each, and share the *)
(* two caches of slim_module_resolver.cpp, which no lock protects.         *)
(*                                                                         *)
(* A path is the sequence of its names from the root, the extension of a   *)
(* file being the last of them; a specifier that was not found is the text *)
(* of its request.  The compilation of a source by the server, the subject *)
(* of LoadPipeline, is one step here: whether it emits is up to the file.  *)
(***************************************************************************)
EXTENDS PluginLoader, Macros, Functions

CONSTANTS
  Server, Script, \* the two threads, and their isolates
  Programs,       \* what the disk may hold
  Entry,          \* the first module of each thread
  WorkingDirectory,
  file_extensions,
  OtherExtensions, \* what else follows the last dot of a name, as in util.helper
  Hashes,         \* identity hashes
  MaxDepth        \* bound: nested instantiations that exhaust the stack

Threads == {Server, Script}
NoModule == 0

Dots == {".", ".."}

\* What follows the last dot of the last name is its extension.
HasExtension(path) == path # <<>> /\ Last(path) \in ToSet(file_extensions) \union OtherExtensions

\* The names of a path, of which an extension is not the first and not one of dots.
WellNamed(path) ==
  /\ path \in Seq(STRING)
  /\ path # <<>> => Head(path) # "."
  /\ HasExtension(path) => Len(path) > 1 /\ path[Len(path) - 1] \notin Dots

\* What plugins_set does not contain is a path; its first name says if it begins with ./ or /.
Requestable(r) ==
  /\ WellNamed(r.tail) /\ r.tail # <<>>
  /\ r.kind = "plugin" => r.tail \in Plugins
  /\ r.kind = "bare" => r.tail \notin Plugins

ASSUME ThreadsAssumption == Server # Script

ASSUME ExtensionsAssumption ==
  /\ file_extensions \in Seq(STRING) /\ "index" \in STRING
  /\ (ToSet(file_extensions) \union OtherExtensions) \intersect Dots = {}

\* slim::command_line takes a file for the script if it has one of the extensions.
ASSUME PathsAssumption ==
  /\ WellNamed(WorkingDirectory)
  /\ WellNamed(Entry[Script]) /\ HasExtension(Entry[Script])
  /\ \A p \in Plugins : Len(p) = 1 /\ Head(p) \notin Dots \union {"/"}

ASSUME ProgramsAssumption ==
  \A p \in Programs :
    /\ Entry[Server] \in DOMAIN p /\ <<>> \notin DOMAIN p /\ Plugins \intersect DOMAIN p = {}
    /\ \A f \in DOMAIN p :
         /\ Len(p[f].requests) \in Nat
         /\ \A i \in 1..Len(p[f].requests) : Requestable(p[f].requests[i])
         /\ p[f].text \in Seq(Seq(STRING))
         /\ p[f].emits \in BOOLEAN

VARIABLES
  disk,           \* the files and the server's text: path -> requests, text, if the server emits
                  \* something for it, and if V8 compiles that
  modules,        \* the modules made so far
  by_hash_id_cache,
  by_specifier_cache,
  stack,          \* the modules a thread is instantiating
  wanted,         \* the request a thread is working on: the members of the module it will be
  pc

caches == <<by_hash_id_cache, by_specifier_cache>>
vars == <<disk, modules, caches, stack, wanted, pc, loaded_plugins>>

Files == DOMAIN disk

\* What a thread is to make a module of: specifier_string, specifier_path and the file that is read.
Want(specifier, path, file) == [specifier |-> specifier, path |-> path, file |-> file]
Nothing == Want(<<>>, <<>>, <<>>)

\* A module has also its isolate, its identity hash and the answers to its requests so far.
Module(t, want, hash) ==
  [specifier |-> want.specifier, path |-> want.path, file |-> want.file,
   isolate |-> t, hash |-> hash, links |-> <<>>]
Steps == {"begin", "wanted", "compiling", "compiled", "linking", "creating", "failing",
          "loaded", "extending", "failed", "crashed", "lost"}

TypeOK ==
  LET Ids == 0..Len(modules)
  IN  /\ disk \in Programs
      /\ \A m \in 1..Len(modules) :
           /\ modules[m].isolate \in Threads
           /\ modules[m].file \in Files \union {<<>>}
           /\ modules[m].hash \in Hashes
           /\ ToSet(modules[m].links) \subseteq Ids
      /\ by_hash_id_cache \in [Hashes -> Ids]
      /\ Range(by_specifier_cache) \subseteq Ids
      /\ \A t \in Threads : ToSet(stack[t]) \subseteq 1..Len(modules)
      /\ \A t \in Threads : wanted[t].file \in Files \union {<<>>}
      /\ pc \in [Threads -> Steps]
      /\ PluginTypeOK

Init ==
  /\ disk \in Programs
  /\ modules = <<>>
  /\ by_hash_id_cache = [h \in Hashes |-> NoModule]
  /\ by_specifier_cache = [k \in {} |-> NoModule]
  /\ stack = [t \in Threads |-> <<>>]
  /\ wanted = [t \in Threads |-> Nothing]
  /\ pc = [t \in Threads |-> "begin"]
  /\ PluginInit

-----------------------------------------------------------------------------
\* Paths.  The directory, the name of the file and its extension.
Names(path) == IF HasExtension(path) /\ Len(path) > 1 THEN Len(path) - 2 ELSE Max({0, Len(path) - 1})
DirectoryIn(path) == SubSeq(path, 1, Names(path))
NameOf(path) == SubSeq(path, Names(path) + 1, Len(path))

\* The file that a path leads to, name by name.
Step(names, n) ==
  CASE n = ".." -> SubSeq(names, 1, Len(names) - 1)
    [] n = "." -> names
    [] OTHER -> Append(names, n)

Normal(path) ==
  LET leads[n \in 0..Len(path)] ==
        IF n = 0 THEN <<>> ELSE Step(leads[n - 1], path[n])
  IN  leads[Len(path)]

\* The names tried for a path and an extension.  No file is named by an extension only.
Candidates(path, extension) ==
  {path \o <<"index", extension>>}
  \union {Append(p, extension) : p \in {q \in {path} : q # <<>> /\ Last(q) \notin Dots}}
Present(paths) == {p \in paths : Normal(p) \in Files}

\* What resolve_module_path() may find: a path with an extension is tried as it is.  Each extension
\* is tried with both names, in the order of an unordered_set, and a later extension overrides.
Search(path) ==
  IF HasExtension(path) THEN Present({path})
  ELSE LET found == {i \in DOMAIN file_extensions : Present(Candidates(path, file_extensions[i])) # {}}
       IN  UNION {Present(Candidates(path, file_extensions[i])) : i \in {j \in found : \A k \in found : k <= j}}

-----------------------------------------------------------------------------
Goto(t, step) == pc' = [pc EXCEPT ![t] = step]

Top(t) == Last(stack[t])

\* The requests of a module; a plugin is a synthetic module and has none.
RequestsOf(m) == IF modules[m].file \in Files THEN disk[modules[m].file].requests ELSE <<>>
Asking(m) == Len(modules[m].links) < Len(RequestsOf(m))

\* The request V8 asks the callback for.
Current(t) == RequestsOf(Top(t))[Len(modules[Top(t)].links) + 1]
AsksFor(t, kind) == pc[t] = "linking" /\ Asking(Top(t)) /\ Current(t).kind = kind

\* resolve_module_path() found the file of the module, or of what is to be one.
Located(x) == x.path # <<>> /\ x.specifier = x.path
Found(m) == Located(modules[m])

ModulesOf(t) == {m \in 1..Len(modules) : modules[m].isolate = t}

\* V8 draws an identity hash; the isolates draw independently of each other.
FreshHashes(t) == Hashes \ {modules[m].hash : m \in ModulesOf(t)}

\* The directory is not cut off the name of the file.
Source_WholePath(m) ==                                               \* mutant
  Apply(disk[modules[m].file].text, Normal(modules[m].specifier), NameOf(modules[m].specifier))
\* The text a module that was found is compiled from, with its macros replaced: the one stored under
\* the normal form of its name.
Source(m) ==
  LET name == Normal(modules[m].specifier)
  IN  Apply(disk[modules[m].file].text, DirectoryIn(name), NameOf(name))

\* The callback holds a new module, which it caches next.
Make(t) ==
  /\ Len(stack[t]) < MaxDepth
  /\ \E h \in FreshHashes(t) : modules' = Append(modules, Module(t, wanted[t], h))
  /\ stack' = [stack EXCEPT ![t] = Append(@, Len(modules) + 1)]
  /\ Goto(t, "compiled")
  /\ UNCHANGED <<disk, caches, wanted>>

\* cache_import_specifier()
CacheSpecifier(m) ==
  /\ by_hash_id_cache' = [by_hash_id_cache EXCEPT ![modules[m].hash] = m]
  /\ by_specifier_cache' = [k \in DOMAIN by_specifier_cache \union {modules[m].specifier} |->
                              IF k = modules[m].specifier THEN m ELSE by_specifier_cache[k]]

\* What the callback returns for module m, through the cache.
Returned(m) == by_hash_id_cache[modules[m].hash]

\* V8 has the answer to the request its referrer made.
Link(referrer, m) == modules' = [modules EXCEPT ![referrer].links = Append(@, m)]

-----------------------------------------------------------------------------
\* fetch_source() opens the file, which may be missing; the thread then goes on to have it transpiled.
Readable_Any(file) == TRUE
Readable(file) == file \in Files

Fetch(t, specifier, path, file, otherwise) ==
  /\ wanted' = IF Readable(file)
               THEN [wanted EXCEPT ![t] = Want(specifier, path, file)]
               ELSE wanted
  /\ Goto(t, IF Readable(file) THEN "wanted" ELSE otherwise)
  /\ UNCHANGED <<disk, modules, caches, stack, loaded_plugins>>

\* resolve_imports() begins.  The server's text is compiled into the program, and has no path.
BeginServer ==
  /\ pc[Server] = "begin"
  /\ LET entry == Entry[Server]
     IN  wanted' = [wanted EXCEPT ![Server] = Want(entry, <<>>, entry)]
  /\ Goto(Server, "compiling")
  /\ UNCHANGED <<disk, modules, caches, stack, loaded_plugins>>

\* The script is a file.
BeginScript ==
  /\ pc[Script] = "begin"
  /\ Fetch(Script, Entry[Script], Entry[Script], Normal(Entry[Script]), "failed")

\* The directory a relative request starts from: the referrer's, found in the cache by its hash; a
\* default import_specifier, which has no path, when it is not there.
DirectoryOf(referrer) ==
  IF Returned(referrer) = NoModule THEN <<>> ELSE DirectoryIn(modules[Returned(referrer)].path)

\* resolve_module_path().  The exception of a path that is not found is swallowed by the function's
\* own TryCatch; specifier_string stays the text of the request, and fetch_source() opens that.
Resolve(t, text, path, left, opened) ==
  IF Search(path) # {}
  THEN \E found \in Search(path) : Fetch(t, found, found, Normal(found), "failing")
  ELSE Fetch(t, text, left, Normal(opened), "failing")

\* ./ is relative to the referrer.
ResolveRelative(t) ==
  /\ AsksFor(t, "relative")
  /\ LET path == DirectoryOf(Top(t)) \o Current(t).tail
     IN  Resolve(t, <<".">> \o Current(t).tail, path, path, WorkingDirectory \o Current(t).tail)

\* Any other name, one that begins with ../ too, is relative to the working directory.
ResolveBare(t) ==
  /\ AsksFor(t, "bare")
  /\ LET path == WorkingDirectory \o Current(t).tail
     IN  Resolve(t, Current(t).tail, path, <<>>, path)

\* / with a referrer: specifier_path stays empty, and only an index at the root is found for it.  The
\* empty name before the slash is written "/" in the text.
ResolveAbsolute(t) ==
  /\ AsksFor(t, "absolute")
  /\ Resolve(t, <<"/">> \o Current(t).tail, <<>>, <<>>, Current(t).tail)

\* The job is answered once the server has loaded its own modules and waits in job_loop().
Serving_Started == TRUE
Serving == pc[Server] = "loaded"

\* The compiler asks source_code_storage for the normal form of the name that the source was stored
\* under, which only an earlier import may have stored; one not found is stored under an empty name.
Stored(x) ==
  /\ Located(x)
  /\ \/ Normal(x.path) = x.path
     \/ \E m \in 1..Len(modules) : Found(m) /\ modules[m].path = Normal(x.path)

\* The rest of the constructor.  The server reads a source that is not stored, and the constructor
\* the output of one for which nothing is emitted, through a null pointer; when the compiler throws,
\* nobody answers and the thread waits for ever.
Transpile(t) ==
  /\ pc[t] = "wanted"
  /\ Serving
  /\ LET emits == Stored(wanted[t]) /\ disk[wanted[t].file].emits
     IN  \E step \in IF emits THEN {"compiling"} ELSE {"crashed", "lost"} : Goto(t, step)
  /\ UNCHANGED <<disk, modules, caches, stack, wanted, loaded_plugins>>

\* compile_module(): a new module for every import.
Compile(t) ==
  /\ pc[t] = "compiling"
  /\ disk[wanted[t].file].compiles
  /\ Make(t)
  /\ UNCHANGED loaded_plugins

\* A file that V8 cannot compile.
FailToCompile(t) ==
  /\ pc[t] = "compiling"
  /\ ~disk[wanted[t].file].compiles
  /\ Goto(t, "failing")
  /\ UNCHANGED <<disk, modules, caches, stack, wanted, loaded_plugins>>

\* The stack is exhausted: V8 throws a RangeError, or the process ends.
Overflow(t) ==
  /\ pc[t] = "compiling"
  /\ Len(stack[t]) = MaxDepth
  /\ \E step \in {"failing", "crashed"} : Goto(t, step)
  /\ UNCHANGED <<disk, modules, caches, stack, wanted, loaded_plugins>>

\* The module is cached before it is instantiated: its requests need to find it.
Cache(t) ==
  /\ pc[t] = "compiled"
  /\ CacheSpecifier(Top(t))
  /\ Goto(t, "linking")
  /\ UNCHANGED <<disk, modules, stack, wanted, loaded_plugins>>

\* instantiate_module() has come back: the callback answers its referrer's request.
Return(t) ==
  /\ pc[t] = "linking" /\ ~Asking(Top(t))
  /\ Len(stack[t]) > 1
  /\ stack' = [stack EXCEPT ![t] = Front(@)]
  /\ Link(Last(Front(stack[t])), Returned(Top(t)))
  /\ UNCHANGED <<disk, caches, wanted, pc, loaded_plugins>>

\* resolve_imports() returns the first module and launch() evaluates it.
Finish(t) ==
  /\ pc[t] = "linking" /\ ~Asking(Top(t))
  /\ Len(stack[t]) = 1
  /\ Goto(t, "loaded")
  /\ UNCHANGED <<disk, modules, caches, stack, wanted, loaded_plugins>>

-----------------------------------------------------------------------------
\* A request for a plugin, were it answered with the module cached for the name.
Forget_Cached(t) ==
  /\ AsksFor(t, "plugin")
  /\ LET name == Current(t).tail
     IN  IF name \in DOMAIN by_specifier_cache
         THEN Link(Top(t), by_specifier_cache[name]) /\ UNCHANGED <<wanted, pc>>
         ELSE /\ wanted' = [wanted EXCEPT ![t] = Want(name, <<>>, <<>>)]
              /\ Goto(t, "creating")
              /\ UNCHANGED modules
  /\ UNCHANGED <<disk, caches, stack, loaded_plugins>>

\* A request for a plugin forgets the module cached for that name, which may be one of the other
\* isolate, and one of the entries of by_hash_id_cache that have the name.
Forget(t) ==
  /\ AsksFor(t, "plugin")
  /\ LET name == Current(t).tail
         named == {h \in Hashes : /\ by_hash_id_cache[h] # NoModule
                                  /\ modules[by_hash_id_cache[h]].specifier = name}
     IN  /\ wanted' = [wanted EXCEPT ![t] = Want(name, <<>>, <<>>)]
         /\ IF name \in DOMAIN by_specifier_cache /\ named # {}
            THEN /\ \E h \in named : by_hash_id_cache' = [by_hash_id_cache EXCEPT ![h] = NoModule]
                 /\ by_specifier_cache' = Restrict(by_specifier_cache, DOMAIN by_specifier_cache \ {name})
            ELSE UNCHANGED caches
  /\ Goto(t, "creating")
  /\ UNCHANGED <<disk, modules, stack, loaded_plugins>>

\* A synthetic module exports the object that load_plugin() exposed in the isolate.
Create(t) ==
  /\ pc[t] = "creating" /\ Exposes(wanted[t].specifier)
  /\ LoadPlugin(wanted[t].specifier)
  /\ Make(t)

FailToCreate(t) ==
  /\ pc[t] = "creating" /\ ~Exposes(wanted[t].specifier)
  /\ LoadPlugin(wanted[t].specifier)
  /\ Goto(t, "failing")
  /\ UNCHANGED <<disk, modules, caches, stack, wanted>>

\* The script, once it runs, calls slim.load(), which may throw.
BeginLoad ==
  /\ pc[Script] = "loaded"
  /\ \E p \in Plugins : wanted' = [wanted EXCEPT ![Script] = Want(p, <<>>, <<>>)]
  /\ Goto(Script, "extending")
  /\ UNCHANGED <<disk, modules, caches, stack, loaded_plugins>>

EndLoad ==
  /\ pc[Script] = "extending"
  /\ LoadPlugin(wanted[Script].specifier)
  /\ Goto(Script, "loaded")
  /\ UNCHANGED <<disk, modules, caches, stack, wanted>>

-----------------------------------------------------------------------------
\* The callback catches everything and, were the hash of its module already known, would return a
\* module whose requests have not been answered.
Unwind_Cached(t) ==
  /\ pc[t] = "failing"
  /\ Len(stack[t]) > 1
  /\ stack' = [stack EXCEPT ![t] = Front(@)]
  /\ Link(Last(Front(stack[t])), Returned(Top(t)))
  /\ Goto(t, "linking")
  /\ UNCHANGED <<disk, caches, wanted, loaded_plugins>>

\* The callback has no module to return: it throws "Module is empty" through V8, and the callback
\* below it on the stack comes to the same end.
Unwind(t) ==
  /\ pc[t] = "failing"
  /\ stack[t] # <<>>
  /\ stack' = [stack EXCEPT ![t] = Front(@)]
  /\ UNCHANGED <<disk, modules, by_hash_id_cache, by_specifier_cache, wanted, pc, loaded_plugins>>

\* The exception leaves resolve_imports() and launch().
GiveUp(t) ==
  /\ pc[t] = "failing"
  /\ stack[t] = <<>>
  /\ Goto(t, "failed")
  /\ UNCHANGED <<disk, modules, caches, stack, wanted, loaded_plugins>>

LoadStep(t) ==
  \/ ResolveRelative(t) \/ ResolveBare(t) \/ ResolveAbsolute(t) \/ Transpile(t)
  \/ Compile(t) \/ FailToCompile(t) \/ Overflow(t) \/ Cache(t) \/ Return(t) \/ Finish(t)
  \/ Forget(t) \/ Create(t) \/ FailToCreate(t)
  \/ Unwind(t) \/ GiveUp(t)

Next == BeginServer \/ BeginScript \/ BeginLoad \/ EndLoad \/ \E t \in Threads : LoadStep(t)

Spec == Init /\ [][Next]_vars

FairSpec == Spec /\ WF_vars(BeginServer) /\ WF_vars(BeginScript) /\ \A t \in Threads : WF_vars(LoadStep(t))

-----------------------------------------------------------------------------
\* The steps of a thread that read or write the caches or the table of plugins.
AtCaches(t) ==
  \/ pc[t] \in {"compiled", "creating", "extending", "failing"}
  \/ pc[t] = "linking" /\ ~AsksFor(t, "bare")

\* The two threads are never in the caches, or in the table of plugins, at the same time, although no
\* lock keeps them apart: the script's thread waits for its first transpiled source until the server
\* has loaded its modules.
NoCacheRace == ~(AtCaches(Server) /\ AtCaches(Script))

\* The directory a request is relative to.
LeadsUp(r) == r.kind = "bare" /\ Head(r.tail) = ".."
Base(m, r) ==
  CASE r.kind = "relative" \/ LeadsUp(r) -> DirectoryIn(modules[m].file)
    [] r.kind = "absolute" -> <<>>
    [] OTHER -> WorkingDirectory

\* The files a path may stand for.
StandsFor(path) ==
  Files \intersect {Normal(p) : p \in IF HasExtension(path) THEN {path}
                                     ELSE UNION {Candidates(path, file_extensions[i]) : i \in DOMAIN file_extensions}}

\* The requests that the loader understands as ES modules mean them: of a module that was found, those
\* with ../ only from the working directory, and those with / never.
Understood(m, r) ==
  /\ Found(m)
  /\ LeadsUp(r) => DirectoryIn(modules[m].file) = WorkingDirectory
  /\ r.kind # "absolute"

\* What answers request r of module m: the plugin it names, or a file that was found, which is one that
\* the request may name.
Answers(m, r, x) ==
  IF r.kind = "plugin" THEN x.specifier = r.tail /\ x.file = <<>>
  ELSE Located(x) /\ (Understood(m, r) => x.file \in StandsFor(Base(m, r) \o r.tail))

\* Every request is answered with the module it names, of the same isolate: neither the shared
\* caches, nor a hash the other isolate also uses, nor the erasure of a plugin's entries, nor the
\* recursion answers it with another one.  An import that was not found is answered by nothing: what is
\* opened by its text in the working directory never becomes a module.
LinkedAsRequested ==
  \A m \in 1..Len(modules) : \A i \in 1..Len(modules[m].links) :
    LET n == modules[m].links[i]
    IN  /\ n # NoModule
        /\ modules[n].isolate = modules[m].isolate
        /\ Answers(m, RequestsOf(m)[i], modules[n])

\* The macros of a module that was found have the values of the file its path leads to: the right
\* directory, name and lines, however it was asked for, unless a directory is itself named as a later
\* macro is.
KnowsItsPlace ==
  \A m \in 1..Len(modules) :
    LET file == modules[m].file
    IN  Found(m) /\ Plain(DirectoryIn(file), NameOf(file)) =>
          /\ Normal(modules[m].path) = file
          /\ Source(m) = Meaning(disk[file].text, DirectoryIn(file), NameOf(file))

AllAnswered(t) == \A m \in ModulesOf(t) : ~Asking(m)
PluginsOpen(t) ==
  \A m \in ModulesOf(t) :
    modules[m].file = <<>> => loaded_plugins[modules[m].specifier] = "open"

\* A program is evaluated only when every request of every one of its modules has been answered, and
\* the libraries of its plugins are open: a failure anywhere in the recursion is a failure of the
\* program.
CompleteWhenLoaded ==
  \A t \in Threads : pc[t] \in {"loaded", "extending"} => AllAnswered(t) /\ PluginsOpen(t)

\* A program whose files all exist and compile is loaded.
ProgramLoads == <>(pc[Script] = "loaded")
=============================================================================
