------------------------------ MODULE Launcher ------------------------------
(***************************************************************************)
(* The life of the process: main(), slim::start(), slim::stop() and the    *)
(* two threads that start() launches, the TypeScript server and the user's *)
(* script (src/src/main.cpp, slim.cpp, slim_service_launcher.cpp).  A      *)
(* future made by std::async waits for its thread when it is destroyed,    *)
(* and exit() ends the process without destroying the locals of start().   *)
(* The threads meet through the transpile queue, seen as TranspileService  *)
(* sees it.  The command line is CommandLine's: it decides whether a       *)
(* script is launched, and whether the server can read its options.        *)
(***************************************************************************)
EXTENDS CommandLine

CONSTANTS
  Failures,      \* which of "server" and "script" may throw
  MaxImports     \* bound of the model: files the script imports

ASSUME LauncherAssumption ==
  Failures \subseteq {"server", "script"} /\ MaxImports \in Nat

VARIABLES
  main,          \* where the main thread is
  v8,            \* the V8 platform, guarded by v8_is_initialized
  server,        \* the thread of launch_typescript_future
  script,        \* the thread of launch_future
  job,           \* the transpile job of the script's thread
  imports,       \* files imported
  status         \* exit status of the process

vars == <<lineVars, main, v8, server, script, job, imports, status>>
threadVars == <<server, script, job, imports>>

Running == {"launched", "listening", "compiling", "loading", "waiting"}

TypeOK ==
  /\ index \in 1 .. Len(argv) + 1
  /\ printed \subseteq Switches
  /\ typescript_configurations \subseteq TypescriptPrint
  /\ main \in {"argv", "marshal", "server", "script", "get", "end",
               "unwinding", "caught", "stopped", "exited", "crashed"}
  /\ v8 \in {"none", "initialized", "disposed"}
  /\ server \in {"none", "launched", "listening", "compiling", "threw"}
  /\ script \in {"none", "launched", "loading", "waiting", "returned", "threw"}
  /\ job \in {"none", "pending", "answered", "lost"}
  /\ imports \in 0 .. MaxImports
  /\ status \in {"alive", "success", "failure"}

\* v8_is_initialized before marshal_resources().
NotYet_Unwritten == "unwritten"                                \* mutant
NotYet == "none"

Init ==
  /\ LineInit
  /\ main = "argv"
  /\ v8 = NotYet
  /\ server = "none" /\ script = "none" /\ job = "none" /\ imports = 0
  /\ status = "alive"

-----------------------------------------------------------------------------
(* The main thread.                                                        *)

Ended(thread) == thread \notin Running

\* launch_future.get() returns, or rethrows, when the thread has ended.
Gotten_Valid == TRUE                                           \* mutant
Gotten == Ended(script)

\* The destructor of launch_typescript_future waits for its thread.
Joined_Detached == TRUE                                        \* mutant
Joined == Ended(server)

\* exit(1) at the end of start() destroys none of its locals.
Leaves_ByReturn == Ended(server)                               \* mutant
Leaves == TRUE

\* set_argv() takes the arguments, and returns or throws.
SetArgv ==
  /\ main = "argv"
  /\ \/ NextArgument /\ UNCHANGED main
     \/ Written /\ main' = "marshal"
     \/ Throws /\ main' = "caught"
  /\ UNCHANGED <<v8, threadVars, status>>

MarshalResources ==
  /\ main = "marshal"
  /\ v8' = "initialized"
  /\ main' = "server"
  /\ UNCHANGED <<lineVars, threadVars, status>>

LaunchServer ==
  /\ main = "server"
  /\ server' = "launched"
  /\ main' = IF script_name # << >> THEN "script" ELSE "end"
  /\ UNCHANGED <<lineVars, v8, script, job, imports, status>>

LaunchScript ==
  /\ main = "script"
  /\ script' = "launched"
  /\ main' = "get"
  /\ UNCHANGED <<lineVars, v8, server, job, imports, status>>

Get ==
  /\ main = "get" /\ Gotten
  /\ main' = IF script = "threw" THEN "unwinding" ELSE "end"
  /\ UNCHANGED <<lineVars, v8, threadVars, status>>

\* The exception leaves start().
Unwind ==
  /\ main = "unwinding" /\ Joined
  /\ main' = "caught"
  /\ UNCHANGED <<lineVars, v8, threadVars, status>>

\* A catch clause of main(): it logs and calls stop(), which is tear_down().
Stop ==
  /\ main = "caught"
  /\ v8' = IF v8 = "initialized" THEN "disposed" ELSE v8
  /\ main' = "stopped"
  /\ UNCHANGED <<lineVars, threadVars, status>>

\* exit(1): from start() or from a catch clause.
Exit ==
  /\ \/ main = "end" /\ Leaves
     \/ main = "stopped"
  /\ status' = "failure"
  /\ main' = "exited"
  /\ UNCHANGED <<lineVars, v8, threadVars>>

MainStep ==
  SetArgv \/ MarshalResources \/ LaunchServer \/ LaunchScript \/ Get \/ Unwind \/ Stop \/ Exit

-----------------------------------------------------------------------------
(* The two threads, each in launch(); exit() ends them wherever they are.  *)

\* A new isolate; the entry module is compiled or an exception ends launch().
\* The module begins with JSON.parse() of its options.
StartServer ==
  /\ server = "launched"
  /\ \/ WellFormed /\ server' = "listening"
     \/ ~WellFormed /\ server' = "threw"
     \/ "server" \in Failures /\ server' = "threw"
  /\ UNCHANGED <<script, job, imports>>

TakeJob ==
  /\ server = "listening" /\ job = "pending"
  /\ server' = "compiling"
  /\ UNCHANGED <<script, job, imports>>

\* The compiler throws: job_loop() listens again, and nobody completes the job.
LoseJob ==
  /\ server = "compiling"
  /\ job' = "lost"
  /\ server' = "listening"
  /\ UNCHANGED <<script, imports>>

CompleteJob ==
  /\ server = "compiling"
  /\ job' = "answered"
  /\ server' = "listening"
  /\ UNCHANGED <<script, imports>>

StartScript ==
  /\ script = "launched"
  /\ script' = "loading"
  /\ UNCHANGED <<server, job, imports>>

Import ==
  /\ script = "loading" /\ imports < MaxImports
  /\ job' = "pending"
  /\ imports' = imports + 1
  /\ script' = "waiting"
  /\ UNCHANGED server

Imported ==
  /\ script = "waiting" /\ job = "answered"
  /\ job' = "none"
  /\ script' = "loading"
  /\ UNCHANGED <<server, imports>>

\* A file is missing, or a module does not compile or instantiate.
FailToLoad ==
  /\ script = "loading" /\ "script" \in Failures
  /\ script' = "threw"
  /\ UNCHANGED <<server, job, imports>>

\* The module graph is evaluated; what the script throws then stays in V8.
Evaluate ==
  /\ script = "loading" /\ imports > 0
  /\ script' = "returned"
  /\ UNCHANGED <<server, job, imports>>

\* A thread dereferences the null pointer to a text that is not in its store: the
\* source under the name the compiler asks for, or the output of a compilation.
Crash ==
  /\ server = "compiling" \/ (script = "waiting" /\ job = "answered")
  /\ main' = "crashed"
  /\ status' = "failure"
  /\ UNCHANGED <<lineVars, v8, threadVars>>

ServerStep == StartServer \/ TakeJob \/ LoseJob \/ CompleteJob
ScriptStep == StartScript \/ Import \/ Imported \/ FailToLoad \/ Evaluate

Next ==
  /\ main \notin {"exited", "crashed"}
  /\ \/ MainStep
     \/ Crash
     \/ (ServerStep \/ ScriptStep) /\ UNCHANGED <<lineVars, main, v8, status>>

Spec == Init /\ [][Next]_vars

\* Three threads of the operating system.
Fairness ==
  /\ WF_vars(Next /\ MainStep)
  /\ WF_vars(Next /\ ServerStep)
  /\ WF_vars(Next /\ ScriptStep)

FairSpec == Spec /\ Fairness

-----------------------------------------------------------------------------
(* Properties                                                              *)

\* V8 is disposed of only when no thread is inside an isolate any more.
DisposedAfterThreads == v8 = "disposed" => Ended(server) /\ Ended(script)

\* The process never ends under a script that is still loading or running.
ScriptOutlived == main = "exited" => Ended(script)

\* The process ends although the server's thread never does, unless a thread, or the
\* compiler, throws.
Terminates ==
  <>(main \in {"exited", "crashed"} \/ script = "threw" \/ server = "threw" \/ job = "lost")

\* main() catches what the script's thread throws, logs it and exits
\* (main.cpp:14-51).
ErrorsEndProcess == script = "threw" ~> main = "exited"

\* The arguments that are the value of the option before them.
IsValue[i \in DOMAIN argv] == i > 1 /\ argv[i - 1] = TypescriptProject /\ ~IsValue[i - 1]

\* The script is the first argument with the extension of one that is no value.
FirstScript(at) ==
  /\ IsScript(argv[at]) /\ ~IsValue[at]
  /\ \A i \in 1 .. at - 1 : IsScript(argv[i]) => IsValue[i]

\* What the script should see when it is argument "at" of the line: the path of
\* slim, its own path and the arguments after it, cut at their commas.
Handed(at) ==
  LET text[i \in at .. Len(argv)] ==
        IF i = at THEN <<Executable>> \o Absolute(argv[at]) ELSE text[i - 1] \o argv[i]
  IN  text[Len(argv)]

\* Whatever the options before it, the first script on the line is launched, never a
\* value that looks like one; it sees its own name and then all the arguments after
\* it, those too that look like options of slim or like a second script.  Excepted is
\* an empty last argument, which the text that carries them cannot hold.
ScriptSeesItsArguments ==
  script # "none" =>
    \E at \in DOMAIN argv :
      /\ FirstScript(at) /\ script_name = Absolute(argv[at])
      /\ LastOf(Handed(at)) # <<"">> => ProcessArgv = Handed(at)
=============================================================================
