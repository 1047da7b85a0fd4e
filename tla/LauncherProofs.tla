--------------------------- MODULE LauncherProofs ---------------------------
(***************************************************************************)
(* Proofs about the life of the process, for any set of failures and any   *)
(* number of imports: which threads the main thread has waited for, at     *)
(* each place where it disposes of V8 or ends the process.                 *)
(***************************************************************************)
EXTENDS Launcher, SequenceTheorems, WellFoundedInduction, TLAPS

\* A thread has not been launched before the main thread comes to that statement.
NotLaunchedYet ==
  /\ main \in {"argv", "marshal", "server"} => Ended(server) /\ Ended(script)
  /\ main = "script" => Ended(script)

\* get() has waited for the script's thread on every way that leaves start().
ScriptWaitedFor ==
  main \in {"end", "unwinding", "caught", "stopped", "exited"} => Ended(script)

\* An exception reaches main() only through the destructor that waits for the server's thread.
ServerWaitedFor == main \in {"caught", "stopped"} => Ended(server)

\* V8 is disposed of once, by stop(); no thread has been launched since.
DisposedAtEnd ==
  v8 = "disposed" => main \in {"stopped", "exited"} /\ Ended(server) /\ Ended(script)

\* The inductive invariant: it places the main thread, of which DisposedAfterThreads says nothing.
IInv == NotLaunchedYet /\ ScriptWaitedFor /\ ServerWaitedFor /\ DisposedAtEnd

-----------------------------------------------------------------------------
(* Types.                                                                  *)

Arguments == argv \in Seq(Seq(Seq(STRING)))

\* The loop over the arguments stays within them, an option and its value together.
LEMMA ArgumentStep ==
  ASSUME Arguments, TypeOK, NextArgument
  PROVE  /\ argv' = argv /\ index' \in 1 .. Len(argv) + 1
         /\ printed' \subseteq Switches /\ typescript_configurations' \subseteq TypescriptPrint
  <1> USE DEF Arguments, TypeOK
  <1>0. Len(argv) \in Nat
    BY LenProperties
  <1>1. CASE ScriptArgument
    BY <1>0, <1>1 DEF ScriptArgument
  <1>2. CASE TypescriptArgument
    BY <1>0, <1>2 DEF TypescriptArgument
  <1>3. CASE SlimArgument
    <2>1. Switched(Argument) \subseteq Switches
      BY <1>3, Zenon DEF SlimArgument, Switched, SlimOptions
    <2> QED BY <1>0, <1>3, <2>1 DEF SlimArgument
  <1>4. CASE OtherArgument
    <2>1. /\ index <= Len(argv) /\ index' = index + 1
          /\ UNCHANGED <<argv, printed, typescript_configurations>>
      BY <1>4, Zenon DEF OtherArgument
    <2> QED BY <1>0, <2>1
  <1> QED BY <1>1, <1>2, <1>3, <1>4 DEF NextArgument

LEMMA LauncherTypes == Arguments /\ TypeOK /\ [Next]_vars => (Arguments /\ TypeOK)'
  <1> SUFFICES ASSUME Arguments, TypeOK, [Next]_vars PROVE (Arguments /\ TypeOK)'
    OBVIOUS
  <1>0. Len(argv) \in Nat
    BY LenProperties DEF Arguments
  <1>1. CASE UNCHANGED vars
    BY <1>1 DEF vars, lineVars, TypeOK, Arguments
  <1>2. CASE MainStep
    <2>1. CASE SetArgv
      <3>1. CASE NextArgument /\ UNCHANGED main
        BY <2>1, <3>1, ArgumentStep DEF SetArgv, TypeOK, threadVars, Arguments
      <3>2. CASE UNCHANGED lineVars
        BY <2>1, <3>2 DEF SetArgv, TypeOK, threadVars, lineVars, Arguments
      <3> QED BY <2>1, <3>1, <3>2 DEF SetArgv, Written, Throws
    <2>2. CASE MarshalResources \/ LaunchServer \/ LaunchScript \/ Get
      BY <2>2 DEF MarshalResources, LaunchServer, LaunchScript, Get, TypeOK, threadVars, lineVars, Arguments
    <2>3. CASE Unwind \/ Stop \/ Exit
      BY <2>3 DEF Unwind, Stop, Exit, TypeOK, threadVars, lineVars, Arguments
    <2> QED BY <1>2, <2>1, <2>2, <2>3 DEF MainStep
  <1>3. CASE (ServerStep \/ ScriptStep) /\ UNCHANGED <<lineVars, main, v8, status>>
    <2> USE LauncherAssumption DEF TypeOK, lineVars, Arguments
    <2>1. CASE StartServer \/ TakeJob \/ LoseJob \/ CompleteJob
      BY <1>3, <2>1 DEF StartServer, TakeJob, LoseJob, CompleteJob
    <2>2. CASE StartScript \/ Import \/ Imported
      BY <1>3, <2>2 DEF StartScript, Import, Imported
    <2>3. CASE FailToLoad \/ Evaluate
      BY <1>3, <2>3 DEF FailToLoad, Evaluate
    <2> QED BY <1>3, <2>1, <2>2, <2>3 DEF ServerStep, ScriptStep
  <1>4. CASE Crash
    BY <1>4 DEF Crash, TypeOK, threadVars, lineVars, Arguments
  <1> QED BY <1>1, <1>2, <1>3, <1>4 DEF Next

LEMMA LauncherTypesInit == ASSUME Init PROVE Arguments /\ TypeOK
  <1>1. Arguments
    BY CommandLineAssumption DEF Init, LineInit, Arguments
  <1>2. Len(argv) \in Nat
    BY <1>1, LenProperties DEF Arguments
  <1>3. Option("--print-error") \in Switches
    BY DEF Switches
  <1>4. printed \subseteq Switches
    BY <1>3, Zenon DEF Init, LineInit
  <1>5. index = 1 /\ typescript_configurations = {}
    BY Zenon DEF Init, LineInit
  <1> QED
    BY <1>1, <1>2, <1>4, <1>5, LauncherAssumption DEF Init, NotYet, TypeOK

\* Every reachable state has its types: above all, the loop over the arguments stops at their
\* end, an option that takes a value included.
THEOREM LauncherTypeCorrect == Spec => []TypeOK
  <1> QED BY LauncherTypesInit, LauncherTypes, PTL DEF Spec

-----------------------------------------------------------------------------
(* The arguments of the script.                                            *)

\* A set of natural numbers that is not empty has a least one, and induction follows.
LEMMA LeastNatural ==
  ASSUME NEW T, T \subseteq Nat, T # {}
  PROVE  \E x \in T : \A y \in T : x <= y
  <1> DEFINE R == {ss \in Nat \X Nat : ss[1] < ss[2]}
  <1>1. IsWellFoundedOn(R, Nat)
    BY NatLessThanWellFounded DEF OpToRel
  <1> HIDE DEF R
  <1>2. PICK x \in T : \A y \in T : ~ (<<y, x>> \in R)
    BY <1>1, WFMin
  <1>3. ASSUME NEW y \in T, y < x PROVE FALSE
    <2>1. <<y, x>> \in Nat \X Nat /\ <<y, x>>[1] = y /\ <<y, x>>[2] = x
      OBVIOUS
    <2> QED BY <1>2, <1>3, <2>1 DEF R
  <1> QED BY <1>3

LEMMA SetInduction ==
  ASSUME NEW T, 0 \in T, \A n \in Nat : n \in T => n + 1 \in T
  PROVE  \A n \in Nat : n \in T
  <1> SUFFICES ASSUME NEW n \in Nat, n \notin T PROVE FALSE
    OBVIOUS
  <1>1. PICK x \in Nat \ T : \A y \in Nat \ T : x <= y
    BY LeastNatural, Nat \ T # {}, Nat \ T \subseteq Nat
  <1>2. x - 1 \in Nat /\ x - 1 \in T
    BY <1>1
  <1> QED BY <1>1, <1>2

\* Which of the first n arguments are values.
Valued(v, n) == v = [i \in 1 .. n |-> i > 1 /\ argv[i - 1] = TypescriptProject /\ ~v[i - 1]]

LEMMA ValuedExists == \A n \in Nat : \E v : Valued(v, n)
  <1> DEFINE T == {n \in Nat : \E v : Valued(v, n)}
  <1>1. 0 \in T
    <2> PICK v : v = [i \in 1 .. 0 |-> TRUE]
      OBVIOUS
    <2>1. Valued(v, 0)
      BY DEF Valued
    <2> QED BY <2>1
  <1>2. ASSUME NEW n \in Nat, n \in T PROVE n + 1 \in T
    <2>1. PICK v : Valued(v, n)
      BY <1>2
    <2> PICK last : last = (n + 1 > 1 /\ argv[n] = TypescriptProject /\ ~v[n])
      OBVIOUS
    <2> PICK w : w = [i \in 1 .. n + 1 |-> IF i = n + 1 THEN last ELSE v[i]]
      OBVIOUS
    <2>2. \A i \in 1 .. n : v[i] = (i > 1 /\ argv[i - 1] = TypescriptProject /\ ~v[i - 1])
      BY <2>1 DEF Valued
    <2>3. ASSUME NEW i \in 1 .. n + 1
          PROVE  w[i] = (i > 1 /\ argv[i - 1] = TypescriptProject /\ ~w[i - 1])
      <3>1. CASE i = n + 1
        <4>1. w[i] = last /\ i - 1 = n
          BY <3>1
        <4>2. i > 1 => n \in 1 .. n + 1 /\ n # n + 1
          BY <3>1
        <4>3. i > 1 => w[n] = v[n]
          BY <4>2
        <4> QED BY <3>1, <4>1, <4>3
      <3>2. CASE i \in 1 .. n
        <4>1. w[i] = v[i] /\ i # n + 1
          BY <3>2
        <4>2. i > 1 => i - 1 \in 1 .. n + 1 /\ i - 1 # n + 1
          BY <3>2
        <4>3. i > 1 => w[i - 1] = v[i - 1]
          BY <4>2
        <4> QED BY <2>2, <3>2, <4>1, <4>3
      <3> QED BY <3>1, <3>2
    <2>4. w = [i \in 1 .. n + 1 |-> i > 1 /\ argv[i - 1] = TypescriptProject /\ ~w[i - 1]]
      BY <2>3
    <2> QED BY <2>4 DEF Valued
  <1> HIDE DEF T
  <1>3. \A n \in Nat : n \in T
    BY <1>1, <1>2, SetInduction
  <1> QED BY <1>3 DEF T

\* The first argument is no value, and one after it is when the one before it takes it.
LEMMA ValueIs ==
  ASSUME Arguments, NEW i \in DOMAIN argv
  PROVE  IsValue[i] <=> i > 1 /\ argv[i - 1] = TypescriptProject /\ ~IsValue[i - 1]
  <1>1. Len(argv) \in Nat /\ DOMAIN argv = 1 .. Len(argv)
    BY LenProperties DEF Arguments
  <1>2. Valued(IsValue, Len(argv))
    <2>1. \E v : Valued(v, Len(argv))
      BY <1>1, ValuedExists
    <2>2. Valued(CHOOSE v : Valued(v, Len(argv)), Len(argv))
      BY <2>1
    <2>3. IsValue = CHOOSE v : Valued(v, Len(argv))
      BY <1>1 DEF IsValue, Valued
    <2> QED BY <2>2, <2>3
  <1>3. IsValue[i] = (i > 1 /\ argv[i - 1] = TypescriptProject /\ ~IsValue[i - 1])
    BY <1>1, <1>2 DEF Valued
  <1> QED BY <1>3

\* The text for the script after each argument, from the script to argument n.
HandedAlong(g, at, n) ==
  g = [i \in at .. n |->
         IF i = at THEN <<Executable>> \o Absolute(argv[at]) ELSE g[i - 1] \o argv[i]]

\* The script is argument "at", and the arguments after it have been appended one after another.
ScriptAt(g, at) ==
  /\ at \in 1 .. index - 1 /\ FirstScript(at) /\ script_name = Absolute(argv[at])
  /\ HandedAlong(g, at, index - 1) /\ script_argvs = g[index - 1]

\* What the text for the script holds after every argument, before and after the script is found.
SoFar ==
  /\ script_name = << >> => script_argvs = <<Executable>>
  /\ script_name # << >> => \E at \in DOMAIN argv : \E g : ScriptAt(g, at)

\* The loop is over, and has found the script, before the script is launched.
LineRead ==
  /\ main \in {"argv", "marshal", "server", "script"} => script = "none"
  /\ main = "script" \/ script # "none" => script_name # << >>
  /\ main \in {"marshal", "server", "script"} \/ script # "none" => index = Len(argv) + 1

\* Every argument has a piece: the script's path is not empty, and names it.
Pieces == \A i \in DOMAIN argv : argv[i] # << >>

\* Until the script is found, the loop is never at a value and has met no other script.
NoScriptYet ==
  script_name = << >> =>
    /\ index \in DOMAIN argv => ~IsValue[index]
    /\ \A i \in 1 .. index - 1 : IsScript(argv[i]) => IsValue[i]

ArgumentsInv == Arguments /\ Pieces /\ TypeOK /\ LineRead /\ NoScriptYet /\ SoFar

\* The path of a script that was given is not the empty one that stands for none.
LEMMA AbsoluteNamed ==
  ASSUME NEW T, NEW argument \in Seq(T), argument # << >>
  PROVE  Absolute(argument) # << >>
  <1>1. Len(argument) \in Nat /\ DOMAIN argument = 1 .. Len(argument) /\ Len(argument) # 0
    BY LenProperties, EmptySeq
  <1>2. DOMAIN argument # {}
    <2>1. \A n \in Nat : n # 0 => 1 \in 1 .. n
      OBVIOUS
    <2> QED BY <1>1, <2>1, Zenon
  <1> DEFINE path == [k \in DOMAIN argument |-> Squeezed(argument[k])]
  <1>3. Absolute(argument) = IF path[1][1] = "" THEN path ELSE [path EXCEPT ![1] = WorkingDirectory \o @]
    BY Zenon DEF Absolute
  <1>4. DOMAIN path = DOMAIN argument
        /\ DOMAIN [path EXCEPT ![1] = WorkingDirectory \o @] = DOMAIN argument
    OBVIOUS
  <1>5. DOMAIN << >> = {}
    OBVIOUS
  <1> HIDE DEF path
  <1>6. CASE Absolute(argument) = path
    BY <1>2, <1>4, <1>5, <1>6
  <1>7. CASE Absolute(argument) = [path EXCEPT ![1] = WorkingDirectory \o @]
    BY <1>2, <1>4, <1>5, <1>7
  <1> QED BY <1>3, <1>6, <1>7, Zenon

\* One more argument of the script.
LEMMA ScriptArgumentKeeps ==
  ASSUME ArgumentsInv, ScriptArgument PROVE SoFar'
  <1>1. /\ script_name # << >> /\ script_name' = script_name /\ argv' = argv
        /\ index' = index + 1 /\ script_argvs' = script_argvs \o argv[index]
    BY Zenon DEF ScriptArgument, Found, Argument
  <1>2. Len(argv) \in Nat /\ index \in Nat
    BY LenProperties DEF TypeOK, ArgumentsInv, Arguments
  <1>3. PICK at, g : at \in DOMAIN argv /\ ScriptAt(g, at)
    BY <1>1, Zenon DEF SoFar, ArgumentsInv
  <1>4. at \in Nat /\ at < index
    BY <1>2, <1>3 DEF ScriptAt
  <1> PICK h : h = [i \in at .. index |-> IF i = index THEN script_argvs \o argv[index] ELSE g[i]]
    OBVIOUS
  <1>5. \A i \in at .. index - 1 :
          g[i] = IF i = at THEN <<Executable>> \o Absolute(argv[at]) ELSE g[i - 1] \o argv[i]
    BY <1>3 DEF ScriptAt, HandedAlong
  <1>6. ASSUME NEW i \in at .. index
        PROVE  h[i] = IF i = at THEN <<Executable>> \o Absolute(argv[at]) ELSE h[i - 1] \o argv[i]
    <2>1. CASE i = index
      <3>1. index \in at .. index /\ index - 1 \in at .. index /\ index # at /\ index # index - 1
        BY <1>2, <1>4
      <3>2. h[index] = script_argvs \o argv[index] /\ h[index - 1] = g[index - 1]
        BY <3>1, Zenon
      <3> QED BY <1>3, <2>1, <3>1, <3>2, Zenon DEF ScriptAt
    <2>2. CASE i \in at .. index - 1
      <3>1. i \in at .. index /\ i # index
        BY <1>2, <1>4, <2>2
      <3>2. h[i] = g[i]
        BY <3>1, Zenon
      <3>3. CASE i = at
        BY <1>5, <2>2, <3>2, <3>3, Zenon
      <3>4. CASE i # at
        <4>1. i - 1 \in at .. index /\ i - 1 # index
          BY <1>2, <1>4, <2>2, <3>4
        <4>2. h[i - 1] = g[i - 1]
          BY <4>1, Zenon
        <4> QED BY <1>5, <2>2, <3>2, <3>4, <4>2, Zenon
      <3> QED BY <3>3, <3>4
    <2>3. i = index \/ i \in at .. index - 1
      BY <1>2, <1>4
    <2> QED BY <2>1, <2>2, <2>3
  <1>7. HandedAlong(h, at, index)
    BY <1>6 DEF HandedAlong
  <1>8. index' - 1 = index /\ h[index] = script_argvs'
    <2>1. index \in at .. index /\ index' - 1 = index
      BY <1>1, <1>2, <1>4
    <2> QED BY <1>1, <2>1, Zenon
  <1>9. ScriptAt(h, at)'
    <2>1. at \in 1 .. index' - 1
      BY <1>1, <1>2, <1>3, <1>4 DEF ScriptAt
    <2>2. FirstScript(at)' /\ script_name' = Absolute(argv'[at])
      BY <1>1, <1>3 DEF ScriptAt, FirstScript, IsValue
    <2>3. HandedAlong(h, at, index - 1)'
      BY <1>1, <1>7, <1>8 DEF HandedAlong
    <2> QED BY <1>8, <2>1, <2>2, <2>3 DEF ScriptAt
  <1> QED BY <1>1, <1>3, <1>9 DEF SoFar

\* A script that is met gets a name.
LEMMA ScriptNamed ==
  ASSUME ArgumentsInv, OtherArgument, IsScript(Argument)
  PROVE  /\ script_name' = Absolute(argv[index]) /\ script_name' # << >>
         /\ index \in Nat /\ index >= 1 /\ index \in DOMAIN argv
  <1>1. script_name' = Absolute(argv[index])
    BY Zenon DEF OtherArgument, Argument
  <1>2. index \in Nat /\ index >= 1 /\ index \in DOMAIN argv
    <2>1. index <= Len(argv) /\ index \in 1 .. Len(argv) + 1
      BY Zenon DEF OtherArgument, ArgumentsInv, TypeOK
    <2>2. Len(argv) \in Nat /\ DOMAIN argv = 1 .. Len(argv)
      BY LenProperties DEF ArgumentsInv, Arguments
    <2> QED BY <2>1, <2>2
  <1>3. argv[index] \in Seq(Seq(STRING)) /\ argv[index] # << >>
    BY <1>2, ElementOfSeq DEF ArgumentsInv, Arguments, Pieces
  <1> QED BY <1>1, <1>2, <1>3, AbsoluteNamed

\* The script itself.
LEMMA OtherArgumentKeeps ==
  ASSUME ArgumentsInv, OtherArgument PROVE SoFar'
  <1>1. /\ script_name = << >> /\ script_argvs = <<Executable>>
        /\ index' = index + 1 /\ argv' = argv
    BY Zenon DEF OtherArgument, Found, ArgumentsInv, SoFar
  <1>2. CASE ~IsScript(Argument)
    BY <1>1, <1>2, Zenon DEF OtherArgument, SoFar
  <1>3. CASE IsScript(Argument)
    <2>1. /\ script_name' = Absolute(argv[index])
          /\ script_argvs' = <<Executable>> \o Absolute(argv[index])
      BY <1>1, <1>3, Zenon DEF OtherArgument, Argument
    <2>2. index \in Nat /\ index >= 1 /\ index \in DOMAIN argv
      BY <1>3, ScriptNamed
    <2>3. script_name' # << >>
      BY <1>3, ScriptNamed
    <2> PICK g : g = [i \in index .. index |-> script_argvs']
      OBVIOUS
    <2>4. HandedAlong(g, index, index)
      BY <2>1, <2>2 DEF HandedAlong
    <2>5. g[index] = script_argvs'
      BY <2>2
    <2>6. \E at \in DOMAIN argv' : \E f : ScriptAt(f, at)'
      <3>1. PICK at \in DOMAIN argv : at = index
        BY <2>2
      <3>2. at \in 1 .. index' - 1 /\ index' - 1 = at
        BY <1>1, <2>2, <3>1
      <3>3. FirstScript(at)' /\ script_name' = Absolute(argv'[at])
        <4>1. FirstScript(at)
          BY <1>1, <1>3, <2>2, <3>1 DEF Argument, FirstScript, NoScriptYet, ArgumentsInv
        <4>2. FirstScript(at)'
          BY <1>1, <4>1 DEF FirstScript, IsValue
        <4>3. argv'[at] = argv[index]
          BY <1>1, <3>1
        <4> QED BY <2>1, <4>2, <4>3
      <3>4. HandedAlong(g, at, index - 1)'
        BY <1>1, <2>4, <3>1, <3>2 DEF HandedAlong
      <3>5. ScriptAt(g, at)'
        BY <2>5, <3>1, <3>2, <3>3, <3>4 DEF ScriptAt
      <3> QED BY <1>1, <3>5
    <2> QED BY <2>3, <2>6 DEF SoFar
  <1> QED BY <1>2, <1>3

\* The loop ends before a thread is launched, and only a script that was found is launched.
LEMMA LineReadKept ==
  ASSUME ArgumentsInv, [Next]_vars PROVE LineRead'
  <1> USE DEF ArgumentsInv, LineRead
  <1>1. CASE UNCHANGED <<lineVars, main, script>>
    BY <1>1 DEF lineVars
  <1>2. CASE SetArgv
    <2>1. CASE UNCHANGED main
      BY <1>2, <2>1, Zenon DEF SetArgv, threadVars
    <2>2. CASE Written /\ main' = "marshal"
      <3>1. Len(argv) \in Nat
        BY LenProperties DEF Arguments
      <3> QED BY <1>2, <2>2, <3>1 DEF SetArgv, Written, lineVars, threadVars, TypeOK
    <2>3. CASE Throws /\ main' = "caught"
      BY <1>2, <2>3 DEF SetArgv, Throws, lineVars, threadVars
    <2> QED BY <1>2, <2>1, <2>2, <2>3 DEF SetArgv
  <1>3. CASE MainStep /\ ~SetArgv
    BY <1>3 DEF MainStep, MarshalResources, LaunchServer, LaunchScript, Get, Unwind, Stop, Exit,
                threadVars, lineVars
  <1>4. CASE (ServerStep \/ ScriptStep) /\ UNCHANGED <<lineVars, main>>
    <2>1. script' = script \/ script # "none"
      BY <1>4 DEF ServerStep, ScriptStep, StartServer, TakeJob, LoseJob, CompleteJob, StartScript, Import,
                  Imported, FailToLoad, Evaluate
    <2> QED BY <1>4, <2>1 DEF lineVars
  <1>5. CASE Crash
    BY <1>5 DEF Crash, threadVars, lineVars
  <1> QED BY <1>1, <1>2, <1>3, <1>4, <1>5 DEF Next, vars

\* The option that takes a value is none of those that take none.
LEMMA OptionsApart == TypescriptProject \notin TypescriptPrint \cup SlimOptions
  BY DEF TypescriptProject, TypescriptPrint, SlimOptions, Switches, Option

\* An option that takes a value is passed together with it.
LEMMA NoScriptYetKept ==
  ASSUME ArgumentsInv, TypescriptArgument \/ SlimArgument \/ OtherArgument
  PROVE  NoScriptYet'
  <1>1. /\ index <= Len(argv) /\ script_name = << >> /\ argv' = argv
        /\ index \in 1 .. Len(argv) + 1
    BY Zenon DEF TypescriptArgument, SlimArgument, OtherArgument, Found, ArgumentsInv, TypeOK
  <1>2. Len(argv) \in Nat /\ DOMAIN argv = 1 .. Len(argv)
    BY LenProperties DEF ArgumentsInv, Arguments
  <1>3. /\ index \in DOMAIN argv /\ index \in Nat /\ ~IsValue[index]
        /\ \A i \in 1 .. index - 1 : IsScript(argv[i]) => IsValue[i]
    BY <1>1, <1>2 DEF ArgumentsInv, NoScriptYet
  <1>4. IsValue' = IsValue
    BY <1>1 DEF IsValue
  <1>5. ASSUME NEW i \in Nat, i + 1 \in DOMAIN argv, i >= 1
        PROVE  IsValue[i + 1] <=> argv[i] = TypescriptProject /\ ~IsValue[i]
    <2>1. i + 1 > 1 /\ (i + 1) - 1 = i
      BY <1>5
    <2> QED BY <1>5, <2>1, ValueIs DEF ArgumentsInv
  <1>6. ASSUME index' = index + 1, ~IsScript(argv[index]), argv[index] # TypescriptProject
        PROVE  NoScriptYet'
    <2>1. index + 1 \in DOMAIN argv => ~IsValue[index + 1]
      BY <1>2, <1>3, <1>5, <1>6
    <2>2. \A i \in 1 .. index : i = index \/ i \in 1 .. index - 1
      BY <1>3
    <2>3. index' - 1 = index
      BY <1>3, <1>6
    <2> QED BY <1>1, <1>3, <1>4, <1>6, <2>1, <2>2, <2>3 DEF NoScriptYet
  <1>7. ASSUME index' = index + 2, index < Len(argv), ~IsScript(argv[index]),
               argv[index] = TypescriptProject
        PROVE  NoScriptYet'
    <2>1. index + 1 \in DOMAIN argv /\ IsValue[index + 1]
      <3>1. index + 1 \in DOMAIN argv /\ index >= 1
        BY <1>1, <1>2, <1>3, <1>7
      <3> QED BY <1>3, <1>5, <1>7, <3>1
    <2>2. index + 2 \in DOMAIN argv => ~IsValue[index + 2]
      <3>1. index + 2 \in DOMAIN argv => index + 1 \in DOMAIN argv /\ (index + 1) + 1 = index + 2
        BY <1>2, <1>3
      <3> QED BY <1>3, <1>5, <2>1, <3>1
    <2>3. \A i \in 1 .. index + 1 : i = index + 1 \/ i = index \/ i \in 1 .. index - 1
      BY <1>3
    <2>4. index' - 1 = index + 1
      BY <1>3, <1>7
    <2>5. \A i \in 1 .. index + 1 : IsScript(argv[i]) => IsValue[i]
      BY <1>3, <1>7, <2>1, <2>3
    <2> QED BY <1>1, <1>4, <1>7, <2>2, <2>4, <2>5 DEF NoScriptYet
  <1>8. CASE TypescriptArgument /\ Argument \in TypescriptPrint /\ index' = index + 1
    <2>1. ~IsScript(argv[index]) /\ argv[index] # TypescriptProject
      BY <1>8, OptionsAssumption, OptionsApart, Zenon DEF Argument
    <2> QED BY <1>6, <1>8, <2>1
  <1>9. CASE TypescriptArgument /\ Argument = TypescriptProject /\ index < Len(argv) /\ index' = index + 2
    <2>1. ~IsScript(argv[index]) /\ argv[index] = TypescriptProject
      BY <1>9, OptionsAssumption, Zenon DEF Argument
    <2> QED BY <1>7, <1>9, <2>1
  <1>10. CASE SlimArgument
    <2>1. ~IsScript(argv[index]) /\ argv[index] # TypescriptProject /\ index' = index + 1
      BY <1>10, OptionsAssumption, OptionsApart, Zenon DEF SlimArgument, Argument
    <2> QED BY <1>6, <2>1
  <1>11. CASE OtherArgument /\ IsScript(Argument)
    BY <1>11, ScriptNamed DEF NoScriptYet
  <1>12. CASE OtherArgument /\ ~IsScript(Argument)
    <2>1. ~IsScript(argv[index]) /\ argv[index] # TypescriptProject /\ index' = index + 1
      BY <1>12, Zenon DEF OtherArgument, Argument
    <2> QED BY <1>6, <2>1
  <1>13. TypescriptArgument =>
           \/ Argument \in TypescriptPrint /\ index' = index + 1
           \/ Argument = TypescriptProject /\ index < Len(argv) /\ index' = index + 2
    BY Zenon DEF TypescriptArgument
  <1> QED BY <1>8, <1>9, <1>10, <1>11, <1>12, <1>13

LEMMA ArgumentsKept == ArgumentsInv /\ [Next]_vars => ArgumentsInv'
  <1> SUFFICES ASSUME ArgumentsInv, [Next]_vars PROVE ArgumentsInv'
    OBVIOUS
  <1>1. (Arguments /\ TypeOK /\ LineRead)'
    BY LauncherTypes, LineReadKept DEF ArgumentsInv
  <1>2. CASE ScriptArgument
    <2>1. NoScriptYet'
      BY <1>2, Zenon DEF ScriptArgument, Found, NoScriptYet
    <2> QED BY <1>1, <1>2, <2>1, ScriptArgumentKeeps, Zenon DEF ArgumentsInv, Pieces, ScriptArgument
  <1>3. CASE OtherArgument
    BY <1>1, <1>3, OtherArgumentKeeps, NoScriptYetKept, Zenon DEF ArgumentsInv, Pieces, OtherArgument
  <1>4. CASE TypescriptArgument \/ SlimArgument
    <2>1. UNCHANGED <<argv, script_name, script_argvs>> /\ script_name = << >>
      BY <1>4, Zenon DEF TypescriptArgument, SlimArgument, Found
    <2>2. NoScriptYet'
      BY <1>4, NoScriptYetKept
    <2>3. SoFar' /\ Pieces'
      BY <2>1, Zenon DEF ArgumentsInv, SoFar, Pieces
    <2> QED BY <1>1, <2>2, <2>3, Zenon DEF ArgumentsInv
  <1>5. CASE UNCHANGED lineVars
    <2>1. UNCHANGED <<argv, index, script_name, script_argvs>>
      BY <1>5 DEF lineVars
    <2>2. IsValue' = IsValue
      BY <2>1 DEF IsValue
    <2>3. NoScriptYet' /\ Pieces'
      BY <2>1, <2>2 DEF ArgumentsInv, NoScriptYet, Pieces
    <2>4. SoFar'
      BY <2>1, <2>2 DEF ArgumentsInv, SoFar, ScriptAt, HandedAlong, FirstScript
    <2> QED BY <1>1, <2>3, <2>4 DEF ArgumentsInv
  <1>6. NextArgument \/ UNCHANGED lineVars
    BY Zenon DEF Next, vars, MainStep, SetArgv, MarshalResources, LaunchServer, LaunchScript, Get,
       Unwind, Stop, Exit, Crash, Written, Throws
  <1> QED BY <1>2, <1>3, <1>4, <1>5, <1>6 DEF NextArgument

\* The text that has been put together is the one that the script should see.
LEMMA HandedIs ==
  ASSUME NEW at \in Nat, NEW g, Len(argv) \in Nat, at <= Len(argv), HandedAlong(g, at, Len(argv))
  PROVE  Handed(at) = g[Len(argv)]
  <1> DEFINE f == CHOOSE f : HandedAlong(f, at, Len(argv))
  <1>1. HandedAlong(f, at, Len(argv))
    OBVIOUS
  <1>2. Handed(at) = f[Len(argv)]
    BY DEF Handed, HandedAlong
  <1> HIDE DEF f
  <1> DEFINE T == {n \in Nat : at + n <= Len(argv) => f[at + n] = g[at + n]}
  <1>3. /\ \A i \in at .. Len(argv) :
             f[i] = IF i = at THEN <<Executable>> \o Absolute(argv[at]) ELSE f[i - 1] \o argv[i]
        /\ \A i \in at .. Len(argv) :
             g[i] = IF i = at THEN <<Executable>> \o Absolute(argv[at]) ELSE g[i - 1] \o argv[i]
    BY <1>1 DEF HandedAlong
  <1>4. 0 \in T
    BY <1>3
  <1>5. ASSUME NEW n \in Nat, n \in T PROVE n + 1 \in T
    <2> SUFFICES ASSUME at + (n + 1) <= Len(argv) PROVE f[at + (n + 1)] = g[at + (n + 1)]
      OBVIOUS
    <2>1. at + (n + 1) \in at .. Len(argv) /\ at + (n + 1) # at /\ (at + (n + 1)) - 1 = at + n
      OBVIOUS
    <2> QED BY <1>3, <1>5, <2>1
  <1> HIDE DEF T
  <1>6. Len(argv) - at \in T
    BY <1>4, <1>5, SetInduction
  <1> QED BY <1>2, <1>6 DEF T

\* What the invariant says of a script that has been launched.
LEMMA ArgumentsSeen == ArgumentsInv => ScriptSeesItsArguments
  <1> SUFFICES ASSUME ArgumentsInv, script # "none"
               PROVE  \E at \in DOMAIN argv :
                        /\ FirstScript(at) /\ script_name = Absolute(argv[at])
                        /\ LastOf(Handed(at)) # <<"">> => ProcessArgv = Handed(at)
    BY Zenon DEF ScriptSeesItsArguments
  <1>1. Len(argv) \in Nat /\ DOMAIN argv = 1 .. Len(argv)
    BY LenProperties DEF ArgumentsInv, Arguments
  <1>2. script_name # << >> /\ index = Len(argv) + 1
    BY DEF ArgumentsInv, LineRead
  <1>3. PICK at, g : at \in DOMAIN argv /\ ScriptAt(g, at)
    BY <1>2 DEF ArgumentsInv, SoFar
  <1>4. index - 1 = Len(argv)
    BY <1>1, <1>2
  <1>5. Handed(at) = script_argvs
    BY <1>1, <1>3, <1>4, HandedIs DEF ScriptAt
  <1>6. LastOf(Handed(at)) # <<"">> => ProcessArgv = Handed(at)
    <2>1. PICK empty : empty = <<"">>
      BY Zenon
    <2>2. LastOf(script_argvs) # empty => ProcessArgv = script_argvs
      BY <2>1, Zenon DEF ProcessArgv
    <2>3. LastOf(Handed(at)) # empty => ProcessArgv = Handed(at)
      BY <1>5, <2>2
    <2> QED BY <2>1, <2>3, Zenon
  <1> QED BY <1>3, <1>6, Zenon DEF ScriptAt

\* Whatever the options before the script, and whatever its arguments look like, the script sees
\* its own path and then exactly the pieces of the arguments that follow it on the command line.
THEOREM ScriptArgumentsKept == Spec => []ScriptSeesItsArguments
  <1>1. ASSUME Init PROVE ArgumentsInv
    <2>1. Arguments /\ TypeOK
      BY <1>1, LauncherTypesInit
    <2>2. /\ argv \in CommandLines /\ script_name = << >> /\ script_argvs = <<Executable>>
          /\ main = "argv" /\ script = "none"
      BY <1>1, Zenon DEF Init, LineInit
    <2>3. index = 1
      BY <1>1, Zenon DEF Init, LineInit
    <2>4. NoScriptYet
      <3>1. 1 \in DOMAIN argv => ~IsValue[1]
        BY <2>1, ValueIs
      <3>2. 1 .. index - 1 = {}
        BY <2>3
      <3> QED BY <2>3, <3>1, <3>2 DEF NoScriptYet
    <2> QED BY <2>1, <2>2, <2>4, CommandLineAssumption DEF ArgumentsInv, LineRead, SoFar, Pieces
  <1> QED BY <1>1, ArgumentsKept, ArgumentsSeen, PTL DEF Spec

-----------------------------------------------------------------------------
(* Threads.                                                                *)

LEMMA LauncherInit == Init => IInv
  BY DEF Init, NotYet, IInv, NotLaunchedYet, ScriptWaitedFor, ServerWaitedFor, DisposedAtEnd,
         Ended, Running

\* Steps of the two threads: one that has ended, or was not launched, takes none.
LEMMA ThreadStep ==
  ASSUME IInv, ServerStep \/ ScriptStep, UNCHANGED <<main, v8>>
  PROVE  IInv'
  <1>1. Ended(server) => Ended(server)'
    BY DEF Ended, Running, ServerStep, ScriptStep, StartServer, TakeJob, LoseJob, CompleteJob,
           StartScript, Import, Imported, FailToLoad, Evaluate
  <1>2. Ended(script) => Ended(script)'
    BY DEF Ended, Running, ServerStep, ScriptStep, StartServer, TakeJob, LoseJob, CompleteJob,
           StartScript, Import, Imported, FailToLoad, Evaluate
  <1> QED BY <1>1, <1>2 DEF IInv, NotLaunchedYet, ScriptWaitedFor, ServerWaitedFor, DisposedAtEnd

\* Steps of the main thread.
LEMMA MainThreadStep ==
  ASSUME IInv, MainStep PROVE IInv'
  <1> USE DEF IInv, NotLaunchedYet, ScriptWaitedFor, ServerWaitedFor, DisposedAtEnd, threadVars
  <1>1. CASE SetArgv
    BY <1>1 DEF SetArgv, Ended
  <1>2. CASE MarshalResources
    BY <1>2 DEF MarshalResources, Ended
  <1>3. CASE LaunchServer
    BY <1>3 DEF LaunchServer, Ended
  <1>4. CASE LaunchScript
    BY <1>4 DEF LaunchScript, Ended
  <1>5. CASE Get
    BY <1>5 DEF Get, Gotten, Ended
  <1>6. CASE Unwind
    BY <1>6 DEF Unwind, Joined, Ended
  <1>7. CASE Stop
    BY <1>7 DEF Stop, Ended
  <1>8. CASE Exit
    BY <1>8 DEF Exit, Ended
  <1> QED BY <1>1, <1>2, <1>3, <1>4, <1>5, <1>6, <1>7, <1>8 DEF MainStep

LEMMA LauncherStep == IInv /\ [Next]_vars => IInv'
  <1> SUFFICES ASSUME IInv, [Next]_vars PROVE IInv'
    OBVIOUS
  <1>1. CASE UNCHANGED vars
    BY <1>1 DEF vars, IInv, NotLaunchedYet, ScriptWaitedFor, ServerWaitedFor, DisposedAtEnd, Ended
  <1>2. CASE Crash
    BY <1>2 DEF Crash, threadVars, IInv, NotLaunchedYet, ScriptWaitedFor, ServerWaitedFor,
                DisposedAtEnd, Ended, Running
  <1>3. CASE Next /\ ~Crash
    BY <1>3, ThreadStep, MainThreadStep DEF Next
  <1> QED BY <1>1, <1>2, <1>3

\* The main thread knows, wherever it is, which threads it has waited for.
THEOREM MainWaits == Spec => []IInv
  <1> QED BY LauncherInit, LauncherStep, PTL DEF Spec

\* V8 is disposed of only when neither thread is inside an isolate: the exception of the script
\* passes the destructor of the server's future before main() catches it and calls stop().
THEOREM V8DisposedLast == Spec => []DisposedAfterThreads
  <1>1. IInv => DisposedAfterThreads
    BY DEF IInv, DisposedAtEnd, DisposedAfterThreads
  <1> QED BY <1>1, MainWaits, PTL

\* exit(1) skips the destructors of the futures, and yet never ends the process under the script:
\* every way to it passes get() or comes before the script is launched.
THEOREM ScriptNeverCutOff == Spec => []ScriptOutlived
  <1>1. IInv => ScriptOutlived
    BY DEF IInv, ScriptWaitedFor, ScriptOutlived
  <1> QED BY <1>1, MainWaits, PTL
=============================================================================
