--------------------------- MODULE MCModuleLoader ---------------------------
(***************************************************************************)
(* Small programs for the module loader.                                   *)
(***************************************************************************)
EXTENDS ModuleLoader

Plugin(name) == [kind |-> "plugin", tail |-> <<name>>]
Relative(tail) == [kind |-> "relative", tail |-> tail]
Bare(tail) == [kind |-> "bare", tail |-> tail]
Absolute(tail) == [kind |-> "absolute", tail |-> tail]

\* Every source says where it is, as those of samples/preprocessor do.
Text == <<<<"in ", "__dirname", "/", "__filename">>, <<"at ", "__line_number">>>>
Compiling(requests) == [emits |-> TRUE, compiles |-> TRUE, requests |-> requests, text |-> Text]
BrokenSource == [Compiling(<<>>) EXCEPT !.compiles = FALSE]
SilentSource == [Compiling(<<>>) EXCEPT !.emits = FALSE]

Extensions == <<".mjs", ".ts", ".js">>
Cwd == <<"home">>
PluginNames == {<<"console">>, <<"queue">>, <<"fs">>, <<"os">>, <<"csv">>}
LibraryOf == [p \in PluginNames |->
  CASE p = <<"fs">> -> "none" [] p = <<"os">> -> "unloadable" [] p = <<"csv">> -> "other" [] OTHER -> "plugin"]
ServerText == <<"library", "typescript", ".ts">>
Main == <<"home", "app", "main", ".mjs">>
A == <<"home", "app", "lib", "a", ".mjs">>
B == <<"home", "app", "lib", "b", ".mjs">>
C == <<"home", "c", ".mjs">>
CopyOfB == <<"home", "b", ".mjs">>

EntryOf == [t \in Threads |-> IF t = Server THEN ServerText ELSE Main]
ServerSource == Compiling(<<Plugin("console"), Plugin("queue")>>)

\* A program: the server's text, the first file of the script, and other files.
Program(main, others) ==
  (ServerText :> ServerSource) @@ (Main :> Compiling(main)) @@ others
File(path, requests) == path :> Compiling(requests)

\* A plugin and a file that are imported twice, and a file of the working directory with the name
\* of an imported one.
Diamond == Program(
  <<Plugin("console"), Relative(<<"lib", "a", ".mjs">>), Relative(<<"lib", "b", ".mjs">>)>>,
  File(A, <<Relative(<<"b", ".mjs">>), Plugin("console")>>) @@ File(B, <<>>) @@ File(CopyOfB, <<>>))

\* A file that is missing next to its referrer and found in the working directory.
Missing == Program(
  <<Bare(<<"app", "lib", "a", ".mjs">>), Bare(<<"absent", ".mjs">>)>>,
  File(A, <<Plugin("queue"), Relative(<<"c", ".mjs">>)>>) @@ File(C, <<Relative(<<"b", ".mjs">>)>>) @@ File(CopyOfB, <<>>))

\* A file that is missing there too.
Absent == Program(<<Bare(<<"c", ".mjs">>), Bare(<<"absent", ".mjs">>)>>, File(C, <<>>))

\* Names without extension: a file and an index, two files, a name with a dot.
Names3 == Program(
  <<Relative(<<"lib">>), Bare(<<"app", "lib", "a">>), Relative(<<"util", ".helper">>)>>,
  File(<<"home", "app", "lib", ".mjs">>, <<>>) @@ File(<<"home", "app", "lib", "index", ".mjs">>, <<Relative(<<"a", ".ts">>)>>)
  @@ File(<<"home", "app", "lib", "a", ".ts">>, <<>>) @@ File(<<"home", "app", "lib", "a", ".js">>, <<>>)
  @@ File(<<"home", "app", "util", ".helper", ".ts">>, <<>>))

\* Names that lead up: to a file that has been imported by its normal name, and to one that has not.
Upward == Program(
  <<Bare(<<"index">>), Relative(<<"..">>), Relative(<<"..", "c", ".mjs">>)>>,
  File(<<"home", "index", ".ts">>, <<>>) @@ File(C, <<>>))

\* An index at the root, which answers what begins with /, and a file next to it.
AtRoot == Program(
  <<Absolute(<<"top", ".mjs">>), Bare(<<"index">>)>>,
  File(<<"index", ".mjs">>, <<Relative(<<"top", ".mjs">>)>>) @@ File(<<"top", ".mjs">>, <<>>)
  @@ File(<<"home", "index", ".ts">>, <<Bare(<<"..", "top", ".mjs">>)>>))

\* A name that begins at the root, where there is no index.
Rooted == Program(<<Absolute(A)>>, File(A, <<>>))

\* A directory with the name of a macro.
Macro == Program(
  <<Relative(<<"__line_number", "d", ".mjs">>)>>,
  File(<<"home", "app", "__line_number", "d", ".mjs">>, <<>>))

\* A file that V8 does not compile, below one that has been linked.
Broken == Program(
  <<Relative(<<"lib", "a", ".mjs">>)>>,
  File(A, <<Plugin("console"), Relative(<<"b", ".mjs">>)>>) @@ (B :> BrokenSource))

\* A file for which the server emits nothing, or throws.
Silent == Program(
  <<Plugin("console"), Relative(<<"lib", "a", ".mjs">>)>>,
  File(A, <<Relative(<<"b", ".mjs">>)>>) @@ (B :> SilentSource))

\* Plugins whose library is not there, does not load, or is not a plugin.
NoLibrary(name) == Program(
  <<Relative(<<"lib", "a", ".mjs">>)>>,
  File(A, <<Plugin("console"), Plugin(name)>>))

\* Two files that import each other.
Cycle == Program(<<Relative(<<"lib", "a", ".mjs">>)>>, File(A, <<Bare(<<"app", "main", ".mjs">>)>>))

\* No script at all.
NoScript == ServerText :> ServerSource

AllPrograms ==
  {Diamond, Missing, Absent, Names3, Upward, AtRoot, Rooted, Macro, Broken, Silent, Cycle, NoScript}
  \union {NoLibrary(name) : name \in {"fs", "os", "csv"}}
JustCycle == {Cycle}

\* The macros of every text of two lines and three pieces mean what they stand for.
Pieces == {"__dirname", "__filename", "__line_number", "text"}
Lines == UNION {[1..n -> Pieces] : n \in 0..2}
ASSUME MacrosAssumption ==
  \A first \in Lines, second \in Lines, d \in Lines, f \in Lines :
    Plain(d, f) => Apply(<<first, second>>, d, f) = Meaning(<<first, second>>, d, f)

\* A hash is only compared with hashes.
Symmetry == Permutations(Hashes)
=============================================================================
