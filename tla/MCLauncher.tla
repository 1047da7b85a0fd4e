----------------------------- MODULE MCLauncher -----------------------------
(***************************************************************************)
(* Small instances of the launcher for TLC: the cfg files choose what may  *)
(* throw, how many files the script imports and how long a command line is.*)
(***************************************************************************)
EXTENDS Launcher

CONSTANT MaxArguments   \* bound: the length of a command line

\* A script below a directory of one letter, one by an absolute path with two
\* slashes, an argument with a comma, an empty one, one with a quote, an option of V8, and
\* options of slim.
Arguments ==
  {<< <<"src", "a", "main.ts">> >>, << <<"", "", "main.js">> >>, << <<"x">>, <<"y">> >>, Option(""),
   Option("it's \"quoted\""), Option("--stack-size=9"), Option("--typescript-project"),
   Option("--print-typescript-log"), Option("--print-all"), Option("--print-without-thread-identity")}

Lines == UNION {[1 .. n -> Arguments] : n \in 0 .. MaxArguments}
slim == <<"", "usr", "bin", "slim">>
Home == <<"", "home">>
Files == {"main.ts", "main.js"}
Letters == {"a"}
WithQuotes == {Option("it's \"quoted\"")}
=============================================================================
