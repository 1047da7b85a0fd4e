---------------------------- MODULE CommandLine ----------------------------
(***************************************************************************)
(* set_argv() of src/src/slim_command_line_handler.cpp: the arguments of   *)
(* slim, one after another, become options of the TypeScript server, log   *)
(* switches, options kept for V8, the script and the arguments of the      *)
(* script; and what the process plugin makes of the latter.                *)
(*                                                                         *)
(* An argument is the sequence of its pieces between commas, since the     *)
(* arguments travel to the script in one text whose separator is a comma.  *)
(* A piece is the sequence of its names between slashes, since paths are   *)
(* rewritten.                                                              *)
(***************************************************************************)
EXTENDS Naturals, Sequences

CONSTANTS
  CommandLines,     \* the sequences of arguments slim is started with
  Executable,       \* the path of slim, a piece
  WorkingDirectory, \* the names of the working directory
  ScriptFiles,      \* file names that end with .js, .mjs or .ts
  OneLetter,        \* names of one character
  Quoted            \* arguments that contain a quote or a backslash

\* An argument has a piece, an empty one when it is empty.
ASSUME CommandLineAssumption ==
  /\ CommandLines \subseteq Seq(Seq(Seq(STRING)))
  /\ \A line \in CommandLines : \A i \in DOMAIN line : line[i] # << >>

VARIABLES
  argv, index,            \* the arguments and the next one
  script_name,            \* the absolute path of the script, or << >>
  script_argvs,           \* the pieces of the text handed to the script
  typescript_configurations,  \* the options set to "true"
  project,                \* the value of --typescript-project
  printed,                \* the switches of slim::common::log that are on
  v8_configuration_values

lineVars == <<argv, index, script_name, script_argvs, typescript_configurations, project,
              printed, v8_configuration_values>>

Option(o) == << <<o>> >>
EmptyArgument == Option("")
TypescriptPrint ==
  {Option("--print-typescript-all"), Option("--print-typescript-debug"), Option("--print-typescript-error"),
   Option("--print-typescript-info"), Option("--print-typescript-log"), Option("--print-typescript-trace"),
   Option("--print-typescript-warn"), Option("--print-typescript-configuration")}
TypescriptProject == Option("--typescript-project")

\* The options that switch one thing on; a switch is named by its option.
Switches ==
  {Option("--print-debug"), Option("--print-error"), Option("--print-info"), Option("--print-trace"),
   Option("--print-warn"), Option("--print-thread-identity")}
SlimOptions == Switches \cup {Option("--print-all"), Option("--print-without-thread-identity")}

LineInit ==
  /\ argv \in CommandLines
  /\ index = 1
  /\ script_name = << >>
  /\ script_argvs = <<Executable>>
  /\ typescript_configurations = {} /\ project = EmptyArgument
  /\ printed = {Option("--print-error")}
  /\ v8_configuration_values = << <<Executable>> >>

-----------------------------------------------------------------------------
(* Arguments.                                                              *)

LastOf(s) == s[Len(s)]

\* The regular expression "/./|//" takes the dot for any character, a slash
\* too: two or three slashes, or a directory of one letter between two, become
\* one slash, which cannot begin the next match.
Squeezed(piece) ==
  LET role[i \in 1 .. Len(piece)] ==
        IF i = 1 \/ i = Len(piece) THEN "kept"
        ELSE IF role[i - 1] = "kept" /\ piece[i] \in OneLetter \cup {""} THEN "first"
        ELSE IF role[i - 1] = "first" /\ piece[i - 1] = "" /\ piece[i] = "" THEN "second"
        ELSE "kept"
      kept == SelectSeq([i \in 1 .. Len(piece) |-> i], LAMBDA i : role[i] = "kept")
  IN  [k \in 1 .. Len(kept) |-> piece[kept[k]]]

\* std::filesystem::absolute() of what is left.
Absolute(argument) ==
  LET path == [k \in DOMAIN argument |-> Squeezed(argument[k])]
  IN  IF path[1][1] = "" THEN path ELSE [path EXCEPT ![1] = WorkingDirectory \o @]

IsScript(argument) == LastOf(LastOf(argument)) \in ScriptFiles

\* No option, and no empty argument, has the extension of a script.
ASSUME OptionsAssumption ==
  \A o \in TypescriptPrint \cup SlimOptions \cup {TypescriptProject, EmptyArgument} : ~IsScript(o)

\* print_all() switches everything on, the thread identity included.
Switched(argument) ==
  IF argument = Option("--print-all") THEN Switches
  ELSE IF argument = Option("--print-without-thread-identity")
       THEN printed \ {Option("--print-thread-identity")}
       ELSE printed \cup {argument}

\* The text is cut at its commas again: an empty last argument is lost.
ProcessArgv ==
  IF Len(script_argvs) > 2 /\ LastOf(script_argvs) = <<"">>
  THEN SubSeq(script_argvs, 1, Len(script_argvs) - 1)
  ELSE script_argvs

\* The text of the options is JSON unless the project's path spoils it.
WellFormed == project \notin Quoted

-----------------------------------------------------------------------------
(* The loop, one argument per step; the first test that succeeds decides.  *)

Argument == argv[index]
Found_AfterOptions ==                                          \* mutant
  script_name # << >> /\ Argument \notin TypescriptPrint
Found == script_name # << >>

ScriptArgument ==
  /\ index <= Len(argv) /\ Found
  /\ script_argvs' = script_argvs \o Argument
  /\ index' = index + 1
  /\ UNCHANGED <<argv, script_name, typescript_configurations, project, printed, v8_configuration_values>>

TypescriptArgument ==
  /\ index <= Len(argv) /\ ~Found
  /\ \/ /\ Argument \in TypescriptPrint
        /\ typescript_configurations' = typescript_configurations \cup {Argument}
        /\ index' = index + 1
        /\ UNCHANGED project
     \/ /\ Argument = TypescriptProject /\ index < Len(argv)
        /\ project' = argv[index + 1]
        /\ index' = index + 2
        /\ UNCHANGED typescript_configurations
  /\ UNCHANGED <<argv, script_name, script_argvs, printed, v8_configuration_values>>

\* Two exceptions leave the loop: std::string(argv[++index]) of the null
\* pointer that ends argv, and std::filesystem::absolute() of an empty path.
Throws ==
  /\ index <= Len(argv) /\ ~Found
  /\ \/ Argument = TypescriptProject /\ index = Len(argv)
     \/ Argument = EmptyArgument
  /\ UNCHANGED lineVars

SlimArgument ==
  /\ index <= Len(argv) /\ ~Found /\ Argument \in SlimOptions
  /\ printed' = Switched(Argument)
  /\ index' = index + 1
  /\ UNCHANGED <<argv, script_name, script_argvs, typescript_configurations, project, v8_configuration_values>>

OtherArgument ==
  /\ index <= Len(argv) /\ ~Found
  /\ Argument \notin TypescriptPrint \cup SlimOptions \cup {TypescriptProject, EmptyArgument}
  /\ IF IsScript(Argument)
     THEN /\ script_name' = Absolute(Argument)
          /\ script_argvs' = script_argvs \o Absolute(Argument)
          /\ UNCHANGED v8_configuration_values
     ELSE /\ v8_configuration_values' = Append(v8_configuration_values, Argument)
          /\ UNCHANGED <<script_name, script_argvs>>
  /\ index' = index + 1
  /\ UNCHANGED <<argv, typescript_configurations, project, printed>>

NextArgument == ScriptArgument \/ TypescriptArgument \/ SlimArgument \/ OtherArgument

\* Both texts are written into the store "configurations".
Written == index > Len(argv) /\ UNCHANGED lineVars
=============================================================================
