------------------------ MODULE ConsolePluginProofs ------------------------
(***************************************************************************)
(* What holds of the console for any options, levels, colours, and number  *)
(* of files and calls: when the two threads can be in it together, and     *)
(* what ends the process there.                                            *)
(***************************************************************************)
EXTENDS ConsolePlugin, TLAPS

Late == switches \cap {"info", "debug"}

\* The script waits while its job is not answered, and runs when its files are loaded.
Waits ==
  /\ script \in {"loading", "waiting", "running"}
  /\ job \in {"none", "pending", "taken", "answered"}
  /\ script = "waiting" <=> job # "none"
  /\ jobs \in Nat
  /\ script # "loading" => jobs > 0
  /\ switches \subseteq Printable

\* What the server still prints once a job is answered, until it takes the next.
Served == job = "answered" \/ (job = "none" /\ jobs > 0)
Lines ==
  /\ program \in Seq(Printable \cup {"complete"})
  /\ Served => \A i \in 1 .. Len(program) : program[i] \in Late
  /\ \A i \in 1 .. Len(program) : program[i] = "complete" => job = "taken"
  /\ \A i, j \in 1 .. Len(program) : program[i] = "complete" /\ i < j => program[j] \in Late

ServerCall ==
  LET c == call["server"]
  IN  /\ c # Idle => c.kind = "print" /\ c.level \in Printable /\ c.value = "printable"
      /\ Served /\ c # Idle => c.level \in Late

\* What the script may ask for in a call that changes a setting.
Kind == {"print", "colour", "show", "format", "digits", "listen", "output", "copy"}
Proper(c) ==
  /\ c.kind = "colour" => c.attribute \in Attributes /\ c.attribute.level \in Levels /\ c.value \in Colours
  /\ c.kind = "digits" => c.level \in Levels
  /\ c.kind \in {"listen", "output"} => c.value \in BOOLEAN
  /\ c.kind = "copy" => c.level \in Levels /\ c.from \in Levels

\* The script's thread reads the settings at both ends of a line, and nobody else writes them.
ScriptCall ==
  LET c == call["script"]
  IN  /\ c # Idle => script = "running" /\ c.kind \in Kind
      /\ c.kind = "print" => c.level \in Levels /\ (listening => c.message)
      /\ c.kind \in Kind \ {"print"} => Proper(c)

\* Only the script changes settings, and only those of its levels.
Colouring(f) ==
  /\ f \in [Attributes -> Names \cup Colours]
  /\ \A a \in Attributes : f[a] \in Texts => a.level \in Levels
Settings ==
  /\ call \in [{"script", "server"} -> {call["script"], call["server"]}]
  /\ Colouring(colour) /\ digits \subseteq Levels
  /\ listening \in BOOLEAN /\ output_when_listening \in BOOLEAN
  /\ listening => script = "running"
  /\ digits # {} => script = "running"
  /\ (\E a \in Attributes : colour[a] \in Texts) => script = "running"

IInv == Waits /\ Lines /\ ServerCall /\ ScriptCall /\ Settings /\ EndsByScriptOnly

-----------------------------------------------------------------------------
LEMMA PrintedIs ==
  ASSUME NEW l \in Printable
  PROVE  /\ Printed(l) \in Seq(Printable \cup {"complete"})
         /\ Len(Printed(l)) \in {0, 1}
         /\ \A i \in 1 .. Len(Printed(l)) : Printed(l)[i] = l /\ l \in switches
  <1>1. CASE l \in switches
    BY <1>1 DEF Printed
  <1>2. CASE l \notin switches
    BY <1>2 DEF Printed
  <1> QED
    BY <1>1, <1>2

\* Where the elements of a sequence put after another come from.
LEMMA Joined ==
  ASSUME NEW S, NEW s \in Seq(S), NEW r \in Seq(S)
  PROVE  /\ s \o r \in Seq(S) /\ Len(s \o r) = Len(s) + Len(r)
         /\ Len(s) \in Nat /\ Len(r) \in Nat
         /\ \A i \in 1 .. Len(s) : (s \o r)[i] = s[i]
         /\ \A i \in (Len(s) + 1) .. (Len(s) + Len(r)) : (s \o r)[i] = r[i - Len(s)] /\ i - Len(s) \in 1 .. Len(r)
  OBVIOUS

LEMMA IInvInit == ASSUME Init PROVE IInv
  <1>1. Waits
    BY ConsoleAssumption DEF Init, Waits, Printable
  <1>2. Lines
    <2> DEFINE S == Printable \cup {"complete"}
    <2>1. PICK configuration \in {<<>>, <<"info">>} :
            program = Printed("trace") \o configuration \o Printed("debug") \o Printed("trace")
      BY DEF Init
    <2>2. "trace" \in Printable /\ "debug" \in Printable /\ "info" \in Printable /\ "complete" \notin Printable
      BY DEF Printable
    <2>3. /\ configuration \in Seq(S) /\ \A i \in 1 .. Len(configuration) : configuration[i] \in Printable
      <3>1. CASE configuration = <<>>
        BY <3>1
      <3>2. CASE configuration = <<"info">>
        BY <2>2, <3>2
      <3> QED
        BY <2>1, <3>1, <3>2
    <2>4. /\ Printed("trace") \in Seq(S) /\ Printed("debug") \in Seq(S)
          /\ \A i \in 1 .. Len(Printed("trace")) : Printed("trace")[i] \in Printable
          /\ \A i \in 1 .. Len(Printed("debug")) : Printed("debug")[i] \in Printable
      BY <2>2, PrintedIs
    <2> HIDE DEF S
    <2>5. ASSUME NEW s \in Seq(S), NEW r \in Seq(S),
                 \A i \in 1 .. Len(s) : s[i] \in Printable, \A i \in 1 .. Len(r) : r[i] \in Printable
          PROVE  s \o r \in Seq(S) /\ \A i \in 1 .. Len(s \o r) : (s \o r)[i] \in Printable
      <3>1. \A i \in 1 .. Len(s \o r) : i \in 1 .. Len(s) \/ i \in (Len(s) + 1) .. (Len(s) + Len(r))
        BY <2>5, Joined
      <3> QED
        BY <2>5, <3>1, Joined
    <2>6. program \in Seq(S) /\ \A i \in 1 .. Len(program) : program[i] \in Printable
      <3>1. /\ Printed("trace") \o configuration \in Seq(S)
            /\ \A i \in 1 .. Len(Printed("trace") \o configuration) : (Printed("trace") \o configuration)[i] \in Printable
        BY <2>3, <2>4, <2>5
      <3> DEFINE one == Printed("trace") \o configuration
                 two == one \o Printed("debug")
      <3> HIDE DEF one
      <3>2. two \in Seq(S) /\ \A i \in 1 .. Len(two) : two[i] \in Printable
        BY <2>4, <2>5, <3>1 DEF one
      <3> HIDE DEF two
      <3>3. program = two \o Printed("trace")
        BY <2>1 DEF one, two
      <3> QED
        BY <2>4, <2>5, <3>2, <3>3
    <2>7. ~Served
      BY DEF Init, Served
    <2>8. \A i \in 1 .. Len(program) : program[i] # "complete"
      BY <2>2, <2>6
    <2> QED
      BY <2>6, <2>7, <2>8 DEF Lines, S
  <1>3. call["script"] = Idle /\ call["server"] = Idle /\ Idle.kind = "none"
    BY DEF Init, Idle
  <1>4. ServerCall /\ ScriptCall
    BY <1>3 DEF ServerCall, ScriptCall, Kind
  <1>5. Settings
    <2>1. First \in [Printable -> Names] /\ "default" \in Names
      BY DEF First, Printable, Names, Hues, Bright
    <2>2. \A a \in Attributes : colour[a] \in Names
      <3>1. \A a \in Attributes : a.level \in Printable
        BY DEF Attributes
      <3> QED
        BY <2>1, <3>1 DEF Init
    <2>3. colour \in [Attributes -> Names \cup Colours]
      BY <2>2 DEF Init
    <2>4. \A a \in Attributes : colour[a] \notin Texts
      BY <2>2, ConsoleAssumption
    <2> QED
      BY <1>3, <2>3, <2>4 DEF Init, Settings, Colouring
  <1>6. EndsByScriptOnly
    BY DEF Init, EndsByScriptOnly
  <1> QED
    BY <1>1, <1>2, <1>4, <1>5, <1>6 DEF IInv

-----------------------------------------------------------------------------
(* The threads.                                                            *)

\* A step that leaves the settings, the calls and the end alone.
LEMMA ThreadStep ==
  ASSUME IInv, UNCHANGED <<switches, settings, call, ended>>, Waits', Lines',
         script' = "running" \/ script # "running",
         Served' => Served \/ call["server"] = Idle
  PROVE  IInv'
  <1>1. ServerCall'
    BY DEF IInv, ServerCall, Late
  <1>2. ScriptCall'
    BY DEF IInv, ScriptCall, settings
  <1>3. Settings'
    BY DEF IInv, Settings, settings
  <1>4. EndsByScriptOnly'
    BY DEF IInv, EndsByScriptOnly, settings
  <1> QED
    BY <1>1, <1>2, <1>3, <1>4 DEF IInv

LEMMA ListenKeeps == ASSUME IInv, Listen PROVE IInv'
  <1> DEFINE S == Printable \cup {"complete"}
  <1>1. /\ program = <<>> /\ job = "pending" /\ job' = "taken" /\ call["server"] = Idle
        /\ UNCHANGED <<switches, script, jobs, settings, call, ended>>
    BY DEF Listen, Free
  <1>2. PICK rest \in {<<"complete">> \o Printed("info") \o Printed("debug"), Printed("error")} :
          program' = Printed("info") \o Printed("debug") \o Printed("debug") \o rest
    BY DEF Listen
  <1>3. "info" \in Printable /\ "debug" \in Printable /\ "error" \in Printable /\ "complete" \notin Printable
    BY DEF Printable
  <1> DEFINE tail == Printed("info") \o Printed("debug")
             head == tail \o Printed("debug")
  <1>4. tail \in Seq(S) /\ Len(tail) \in Nat /\ \A i \in 1 .. Len(tail) : tail[i] \in Late
    <2>1. /\ Printed("info") \in Seq(S) /\ \A i \in 1 .. Len(Printed("info")) : Printed("info")[i] \in Late
          /\ Printed("debug") \in Seq(S) /\ \A i \in 1 .. Len(Printed("debug")) : Printed("debug")[i] \in Late
      BY <1>3, PrintedIs DEF Late
    <2>2. \A i \in 1 .. Len(tail) :
            i \in 1 .. Len(Printed("info")) \/ i \in (Len(Printed("info")) + 1) .. (Len(Printed("info")) + Len(Printed("debug")))
      BY <2>1, Joined
    <2> QED
      BY <2>1, <2>2, Joined
  <1>5. head \in Seq(S) /\ Len(head) \in Nat /\ \A i \in 1 .. Len(head) : head[i] # "complete"
    <2>1. /\ Printed("debug") \in Seq(S)
          /\ \A i \in 1 .. Len(Printed("debug")) : Printed("debug")[i] # "complete"
      BY <1>3, PrintedIs
    <2>2. \A i \in 1 .. Len(tail) : tail[i] # "complete"
      BY <1>4 DEF Late
    <2> HIDE DEF tail
    <2>3. \A i \in 1 .. Len(head) :
            i \in 1 .. Len(tail) \/ i \in (Len(tail) + 1) .. (Len(tail) + Len(Printed("debug")))
      BY <1>4, <2>1, Joined
    <2> QED
      BY <1>4, <2>1, <2>2, <2>3, Joined
  <1>6. rest \in Seq(S) /\ \A i, j \in 1 .. Len(rest) : rest[i] = "complete" /\ i < j => rest[j] \in Late
    <2>1. CASE rest = Printed("error")
      BY <1>3, <2>1, PrintedIs
    <2>2. CASE rest = <<"complete">> \o tail
      <3> HIDE DEF tail
      <3>1. <<"complete">> \in Seq(S) /\ Len(<<"complete">>) = 1
        OBVIOUS
      <3>2. /\ <<"complete">> \o tail \in Seq(S) /\ Len(<<"complete">> \o tail) = 1 + Len(tail)
            /\ \A j \in 2 .. (1 + Len(tail)) : (<<"complete">> \o tail)[j] = tail[j - 1] /\ j - 1 \in 1 .. Len(tail)
        BY <1>4, <3>1, Joined
      <3>3. \A j \in 2 .. Len(rest) : rest[j] \in Late
        BY <1>4, <2>2, <3>2
      <3>4. \A i, j \in 1 .. Len(rest) : i < j => j \in 2 .. Len(rest)
        BY <1>4, <2>2, <3>2
      <3> QED
        BY <2>2, <3>2, <3>3, <3>4
    <2>3. <<"complete">> \o Printed("info") \o Printed("debug") = <<"complete">> \o tail
      <3>1. <<"complete">> \in Seq(S) /\ Printed("info") \in Seq(S) /\ Printed("debug") \in Seq(S)
        BY <1>3, PrintedIs
      <3> QED
        BY <3>1
    <2> QED
      BY <1>2, <2>1, <2>2, <2>3
  <1>7. program' = head \o rest
    BY <1>2
  <1> HIDE DEF head, tail
  <1>8. program' \in Seq(S) /\ Len(program') = Len(head) + Len(rest) /\ Len(rest) \in Nat
    BY <1>5, <1>6, <1>7, Joined
  <1>9. \A i \in 1 .. Len(program') : program'[i] = "complete" => i \in (Len(head) + 1) .. (Len(head) + Len(rest))
    BY <1>5, <1>6, <1>7, <1>8, Joined
  <1>10. \A i, j \in 1 .. Len(program') : program'[i] = "complete" /\ i < j => program'[j] \in Late
    <2> SUFFICES ASSUME NEW i \in 1 .. Len(program'), NEW j \in 1 .. Len(program'),
                        program'[i] = "complete", i < j
                 PROVE  program'[j] \in Late
      OBVIOUS
    <2>1. /\ i \in (Len(head) + 1) .. (Len(head) + Len(rest))
          /\ j \in (Len(head) + 1) .. (Len(head) + Len(rest))
      BY <1>5, <1>8, <1>9
    <2>2. /\ program'[i] = rest[i - Len(head)] /\ i - Len(head) \in 1 .. Len(rest)
          /\ program'[j] = rest[j - Len(head)] /\ j - Len(head) \in 1 .. Len(rest)
      BY <1>5, <1>6, <1>7, <2>1, Joined
    <2>3. i - Len(head) < j - Len(head)
      BY <1>5, <2>1
    <2> QED
      BY <1>6, <2>2, <2>3
  <1>11. Lines'
    BY <1>1, <1>8, <1>10 DEF Lines, Served, Late
  <1>12. Waits'
    BY <1>1 DEF IInv, Waits
  <1> QED
    BY <1>1, <1>11, <1>12, ThreadStep DEF Served

\* The server goes on to its next line.
LEMMA TailOf ==
  ASSUME NEW S, NEW s \in Seq(S), s # <<>>
  PROVE  /\ Len(s) \in Nat \ {0} /\ Head(s) = s[1] /\ 1 \in 1 .. Len(s)
         /\ Tail(s) \in Seq(S) /\ Len(Tail(s)) = Len(s) - 1
         /\ \A i \in 1 .. Len(Tail(s)) : Tail(s)[i] = s[i + 1] /\ i + 1 \in 1 .. Len(s)
  OBVIOUS

LEMMA CompleteKeeps == ASSUME IInv, Complete PROVE IInv'
  <1>1. /\ program # <<>> /\ Head(program) = "complete" /\ program' = Tail(program)
        /\ job' = "answered" /\ call["server"] = Idle
        /\ UNCHANGED <<switches, script, jobs, settings, call, ended>>
    BY DEF Complete, Free
  <1>2. program \in Seq(Printable \cup {"complete"})
    BY DEF IInv, Lines
  <1>3. job = "taken"
    BY <1>1, <1>2, TailOf DEF IInv, Lines
  <1>4. \A i \in 1 .. Len(program') : program'[i] \in Late
    <2> SUFFICES ASSUME NEW i \in 1 .. Len(program') PROVE program'[i] \in Late
      OBVIOUS
    <2>1. program'[i] = program[i + 1] /\ i + 1 \in 1 .. Len(program) /\ 1 < i + 1 /\ 1 \in 1 .. Len(program)
      BY <1>1, <1>2, TailOf
    <2> QED
      BY <1>1, <1>2, <2>1, TailOf DEF IInv, Lines
  <1>5. "complete" \notin Late
    BY DEF Late
  <1>6. program' \in Seq(Printable \cup {"complete"})
    BY <1>1, <1>2, TailOf
  <1>7. Lines'
    BY <1>1, <1>4, <1>5, <1>6 DEF Lines, Late
  <1>8. Waits'
    BY <1>1, <1>3 DEF IInv, Waits
  <1> QED
    BY <1>1, <1>7, <1>8, ThreadStep

LEMMA LoadingKeeps == ASSUME IInv, Submit \/ Loaded \/ Run PROVE IInv'
  <1>1. UNCHANGED <<switches, program, settings, call, ended>>
    BY DEF Submit, Loaded, Run
  <1>2. Waits'
    BY DEF IInv, Waits, Submit, Loaded, Run, Answered
  <1>3. Served' => Served
    BY DEF IInv, Waits, Served, Submit, Loaded, Run, Answered
  <1>4. job = "taken" => job' = "taken"
    BY DEF IInv, Waits, Submit, Loaded, Run, Answered
  <1>5. Lines'
    BY <1>1, <1>3, <1>4 DEF IInv, Lines, Late
  <1>6. script # "running"
    BY DEF Submit, Loaded, Run
  <1> QED
    BY <1>1, <1>2, <1>3, <1>5, <1>6, ThreadStep

-----------------------------------------------------------------------------
(* The console.                                                            *)

\* The calls the two threads are in, after one has begun or ended one.
LEMMA CallsAre ==
  ASSUME Settings, NEW t \in {"script", "server"}, NEW c, call' = [call EXCEPT ![t] = c]
  PROVE  /\ call'[t] = c
         /\ \A u \in {"script", "server"} : u # t => call'[u] = call[u]
         /\ call' \in [{"script", "server"} -> {call'["script"], call'["server"]}]
  BY DEF Settings

\* A line begins: what stoi() does not read and what substr() does not have is the script's.
LEMMA PrintBeginKeeps ==
  ASSUME IInv, Alive, NEW t \in {"script", "server"}, NEW l \in Printable, NEW value,
         call[t] = Idle, PrintBegin(t, l, value),
         t = "script" => script = "running" /\ l \in Levels,
         t = "server" => value = "printable" /\ (Served => l \in Late),
         Waits', Lines', UNCHANGED <<switches, script, job, jobs>>
  PROVE  IInv'
  <1>1. PICK c : /\ call' = [call EXCEPT ![t] = c] /\ UNCHANGED settings
                 /\ c.kind = "print" /\ c.level = l /\ c.message = listening /\ c.value = value
    <2> DEFINE d == [kind |-> "print", level |-> l, message |-> listening, value |-> value,
                     reads |-> Reads(l), adds |-> {k \in Kinds : Adds(l, k) # {}}]
    <2>1. call' = [call EXCEPT ![t] = d] /\ UNCHANGED settings
      BY DEF PrintBegin, MakesMessage
    <2>2. d.kind = "print" /\ d.level = l /\ d.message = listening /\ d.value = value
      OBVIOUS
    <2> HIDE DEF d
    <2> QED
      BY <2>1, <2>2
  <1>2. /\ call'[t] = c /\ \A u \in {"script", "server"} : u # t => call'[u] = call[u]
        /\ call' \in [{"script", "server"} -> {call'["script"], call'["server"]}]
    BY <1>1, CallsAre DEF IInv
  <1>3. ServerCall'
    BY <1>1, <1>2 DEF IInv, ServerCall, Late, Served
  <1>4. ScriptCall'
    <2>1. CASE t = "script"
      BY <1>1, <1>2, <2>1 DEF ScriptCall, Kind, settings
    <2>2. CASE t = "server"
      BY <1>1, <1>2, <2>2 DEF IInv, ScriptCall, settings
    <2> QED
      BY <2>1, <2>2
  <1>5. Settings'
    BY <1>1, <1>2 DEF IInv, Settings, settings
  <1>6. EndsByScriptOnly'
    <2>1. CASE Overlong(l)
      <3>1. l \in epoch \cap digits /\ ended' = "stamp"
        BY <2>1 DEF PrintBegin, Overlong
      <3>2. script = "running" /\ l \in Levels
        BY <3>1 DEF IInv, Settings
      <3> QED
        BY <1>1, <3>1, <3>2 DEF EndsByScriptOnly, settings
    <2>2. CASE ~Overlong(l) /\ \E a \in Reads(l) : colour[a] \in Texts
      <3>1. PICK a \in Attributes : colour[a] \in Texts
        BY <2>2 DEF Reads
      <3>2. script = "running" /\ a.level \in Levels
        BY <3>1 DEF IInv, Settings, Colouring
      <3>3. ended' = "colour"
        BY <2>2 DEF PrintBegin
      <3> QED
        BY <1>1, <3>1, <3>2, <3>3 DEF EndsByScriptOnly, settings
    <2>3. CASE ~Overlong(l) /\ ~\E a \in Reads(l) : colour[a] \in Texts
      BY <2>3 DEF PrintBegin, Alive, EndsByScriptOnly
    <2> QED
      BY <2>1, <2>2, <2>3
  <1> QED
    BY <1>3, <1>4, <1>5, <1>6 DEF IInv

LEMMA ServerPrintsKeeps == ASSUME IInv, ServerPrints PROVE IInv'
  <1>1. /\ Alive /\ call["server"] = Idle /\ program # <<>> /\ Head(program) # "complete"
        /\ program' = Tail(program)
        /\ PrintBegin("server", Head(program), "printable")
        /\ UNCHANGED <<switches, script, job, jobs, calls>>
    BY DEF ServerPrints, Free
  <1>2. program \in Seq(Printable \cup {"complete"})
    BY DEF IInv, Lines
  <1>3. Head(program) \in Printable /\ (Served => Head(program) \in Late)
    <2>1. Head(program) = program[1] /\ 1 \in 1 .. Len(program) /\ program[1] \in Printable \cup {"complete"}
      BY <1>1, <1>2, TailOf
    <2> QED
      BY <1>1, <2>1 DEF IInv, Lines
  <1>4. Lines'
    <2>1. program' \in Seq(Printable \cup {"complete"})
      BY <1>1, <1>2, TailOf
    <2>2. /\ \A i \in 1 .. Len(program') : program'[i] = program[i + 1] /\ i + 1 \in 1 .. Len(program)
          /\ Len(program') \in Nat
      BY <1>1, <1>2, TailOf
    <2>3. \A i, j \in 1 .. Len(program') : i < j => i + 1 < j + 1
      BY <2>2
    <2> QED
      BY <1>1, <2>1, <2>2, <2>3 DEF IInv, Lines, Served, Late
  <1>5. Waits'
    BY <1>1 DEF IInv, Waits
  <1> QED
    BY <1>1, <1>3, <1>4, <1>5, PrintBeginKeeps

\* What a step of the script's calls leaves alone.
LEMMA ThreadsStay ==
  ASSUME IInv, UNCHANGED <<switches, program, script, job, jobs>>
  PROVE  Waits' /\ Lines'
  BY DEF IInv, Waits, Lines, Served, Late

LEMMA ScriptPrintsKeeps == ASSUME IInv, NEW l \in Levels, NEW value, ScriptPrints(l, value) PROVE IInv'
  <1>1. /\ Alive /\ call["script"] = Idle /\ script = "running" /\ PrintBegin("script", l, value)
        /\ UNCHANGED <<switches, program, script, job, jobs>>
    BY DEF ScriptPrints, Calls, Free
  <1>2. l \in Printable
    BY ConsoleAssumption
  <1> QED
    BY <1>1, <1>2, ThreadsStay, PrintBeginKeeps

\* The two threads meet only when the server prints the lines after an answer.
LEMMA TogetherLate ==
  ASSUME IInv, script = "running", call["server"] # Idle
  PROVE  Served /\ job = "none" /\ call["server"].level \in Late
  BY DEF IInv, Waits, Served, ServerCall

\* A thread leaves the console.
LEMMA LeaveKeeps ==
  ASSUME IInv, NEW t \in {"script", "server"}, call' = [call EXCEPT ![t] = Idle],
         UNCHANGED <<threads, settings>>, EndsByScriptOnly'
  PROVE  IInv'
  <1>1. /\ call'[t] = Idle /\ \A u \in {"script", "server"} : u # t => call'[u] = call[u]
        /\ call' \in [{"script", "server"} -> {call'["script"], call'["server"]}]
    BY CallsAre DEF IInv
  <1>2. Waits' /\ Lines'
    BY ThreadsStay DEF threads
  <1>3. ServerCall'
    BY <1>1 DEF IInv, ServerCall, Served, Late, threads
  <1>4. Idle.kind = "none"
    BY DEF Idle
  <1>5. ScriptCall'
    <2>1. CASE t = "script"
      BY <1>1, <1>4, <2>1 DEF ScriptCall, Kind
    <2>2. CASE t = "server"
      BY <1>1, <2>2 DEF IInv, ScriptCall, settings, threads
    <2> QED
      BY <2>1, <2>2
  <1>6. Settings'
    BY <1>1 DEF IInv, Settings, settings, threads
  <1> QED
    BY <1>2, <1>3, <1>5, <1>6 DEF IInv

LEMMA PrintEndKeeps == ASSUME IInv, NEW t \in {"script", "server"}, PrintEnd(t) PROVE IInv'
  <1>1. /\ call[t].kind = "print" /\ call' = [call EXCEPT ![t] = Idle] /\ UNCHANGED <<threads, settings>>
        /\ ended = "no"
        /\ \/ ended' = "no"
           \/ ended' = "value" /\ call[t].value = "unprintable"
           \/ ended' = "message" /\ listening /\ ~call[t].message
    BY DEF PrintEnd, Alive
  <1>2. ASSUME listening, ~call[t].message PROVE script = "running" /\ switches \cap {"debug", "info"} # {}
    <2>1. script = "running"
      BY <1>2 DEF IInv, Settings
    <2>2. t = "server"
      BY <1>1, <1>2 DEF IInv, ScriptCall
    <2>3. call["server"] # Idle
      BY <1>1, <2>2 DEF Idle
    <2> QED
      BY <2>1, <2>3, TogetherLate DEF Late
  <1>4. ASSUME call[t].value = "unprintable" PROVE script = "running"
    <2>1. call[t] # Idle
      BY <1>1 DEF Idle
    <2>2. t = "script"
      BY <1>4, <2>1 DEF IInv, ServerCall
    <2> QED
      BY <2>1, <2>2 DEF IInv, ScriptCall
  <1>3. EndsByScriptOnly'
    BY <1>1, <1>2, <1>4 DEF EndsByScriptOnly, threads
  <1> QED
    BY <1>1, <1>3, LeaveKeeps

\* The script begins a call that changes a setting.
LEMMA BeginKeeps ==
  ASSUME IInv, NEW c, Calls(Begin(c)), c.kind \in Kind \ {"print"}, Proper(c)
  PROVE  IInv'
  <1>1. /\ script = "running" /\ call' = [call EXCEPT !["script"] = c]
        /\ UNCHANGED <<switches, program, script, job, jobs, settings, ended>>
    BY DEF Calls, Begin
  <1>2. /\ call'["script"] = c /\ call'["server"] = call["server"]
        /\ call' \in [{"script", "server"} -> {call'["script"], call'["server"]}]
    BY <1>1, CallsAre DEF IInv
  <1>3. Waits' /\ Lines'
    BY <1>1, ThreadsStay
  <1>4. ServerCall'
    BY <1>1, <1>2 DEF IInv, ServerCall, Served, Late
  <1>5. ScriptCall'
    BY <1>1, <1>2 DEF ScriptCall, Kind
  <1>6. Settings' /\ EndsByScriptOnly'
    BY <1>1, <1>2 DEF IInv, Settings, EndsByScriptOnly, settings
  <1> QED
    BY <1>3, <1>4, <1>5, <1>6 DEF IInv

LEMMA SettersKeep ==
  ASSUME IInv,
         \/ \E a \in Attributes, c \in Colours : a.level \in Levels \cap Settable /\ SetColour(a, c)
         \/ \E l \in Levels \cap Settable, b \in BOOLEAN :
              (\E p \in Parts : SetShow(p, l, b)) \/ SetFormat(l, b) \/ SetDigits(l, b)
         \/ \E b \in BOOLEAN : SetListen(b) \/ SetOutput(b)
         \/ \E from, to \in Levels : Copy(from, to)
  PROVE  IInv'
  <1>1. ASSUME NEW a \in Attributes, NEW c \in Colours, a.level \in Levels, SetColour(a, c) PROVE IInv'
    <2> DEFINE call_of == [kind |-> "colour", attribute |-> a, value |-> c]
    <2>1. call_of.kind \in Kind \ {"print"} /\ Proper(call_of)
      BY <1>1 DEF Kind, Proper
    <2> QED
      BY <1>1, <2>1, BeginKeeps DEF SetColour
  <1>2. ASSUME NEW l \in Levels, NEW b \in BOOLEAN, NEW p \in Parts, SetShow(p, l, b) PROVE IInv'
    BY <1>2, BeginKeeps DEF SetShow, Kind, Proper
  <1>3. ASSUME NEW l \in Levels, NEW b \in BOOLEAN, SetFormat(l, b) PROVE IInv'
    BY <1>3, BeginKeeps DEF SetFormat, Kind, Proper
  <1>4. ASSUME NEW l \in Levels, NEW b \in BOOLEAN, SetDigits(l, b) PROVE IInv'
    BY <1>4, BeginKeeps DEF SetDigits, Kind, Proper
  <1>5. ASSUME NEW b \in BOOLEAN, SetListen(b) PROVE IInv'
    BY <1>5, BeginKeeps DEF SetListen, Kind, Proper
  <1>6. ASSUME NEW b \in BOOLEAN, SetOutput(b) PROVE IInv'
    BY <1>6, BeginKeeps DEF SetOutput, Kind, Proper
  <1>7. ASSUME NEW from \in Levels, NEW to \in Levels, Copy(from, to) PROVE IInv'
    BY <1>7, BeginKeeps DEF Copy, Kind, Proper
  <1> QED
    BY <1>1, <1>2, <1>3, <1>4, <1>5, <1>6, <1>7

\* A setting changes while the script is in no line.
LEMMA ChangeKeeps ==
  ASSUME IInv, Alive, call["script"].kind \in Kind,
         call' = [call EXCEPT !["script"] = Idle], UNCHANGED <<threads, ended>>,
         Colouring(colour'), digits' \subseteq Levels,
         listening' \in BOOLEAN, output_when_listening' \in BOOLEAN
  PROVE  IInv'
  <1>1. /\ call'["script"] = Idle /\ call'["server"] = call["server"]
        /\ call' \in [{"script", "server"} -> {call'["script"], call'["server"]}]
    BY CallsAre DEF IInv
  <1>2. Waits' /\ Lines'
    BY ThreadsStay DEF threads
  <1>3. call["script"] # Idle /\ Idle.kind = "none" /\ "none" \notin Kind
    BY DEF Idle, Kind
  <1>4. script' = "running"
    BY <1>3 DEF IInv, ScriptCall, threads
  <1>5. ServerCall' /\ ScriptCall'
    BY <1>1, <1>3 DEF IInv, ServerCall, ScriptCall, Served, Late, threads
  <1>6. Settings'
    BY <1>1, <1>4 DEF Settings
  <1>7. EndsByScriptOnly'
    BY DEF Alive, EndsByScriptOnly
  <1> QED
    BY <1>2, <1>5, <1>6, <1>7 DEF IInv

LEMMA SetEndKeeps == ASSUME IInv, SetEnd PROVE IInv'
  <1> DEFINE c == call["script"]
  <1>1. /\ Alive /\ c.kind \in Kind \ {"print"} /\ Set(c)
        /\ call' = [call EXCEPT !["script"] = Idle] /\ UNCHANGED <<threads, ended>>
    BY DEF SetEnd, Kind
  <1>2. /\ Colouring(colour) /\ digits \subseteq Levels
        /\ listening \in BOOLEAN /\ output_when_listening \in BOOLEAN
    BY DEF IInv, Settings
  <1>3. Proper(c)
    BY <1>1 DEF IInv, ScriptCall
  <1>4. listening' \in BOOLEAN /\ output_when_listening' \in BOOLEAN
    BY <1>1, <1>2, <1>3 DEF Set, Proper
  <1>5. digits' \subseteq Levels
    BY <1>1, <1>2, <1>3 DEF Set, Proper, Assigned
  <1>6. Colouring(colour')
    <2>1. CASE c.kind = "colour"
      <3>1. /\ c.attribute \in Attributes /\ c.attribute.level \in Levels /\ c.value \in Names \cup Colours
            /\ colour' = [colour EXCEPT ![c.attribute] = c.value]
        BY <1>1, <1>3, <2>1 DEF Set, Proper
      <3> HIDE DEF c
      <3> QED
        BY <1>2, <3>1 DEF Colouring
    <2>2. CASE c.kind # "colour"
      BY <1>1, <1>2, <2>2 DEF Set
    <2> QED
      BY <2>1, <2>2
  <1> QED
    BY <1>1, <1>4, <1>5, <1>6, ChangeKeeps

LEMMA CopyEndKeeps == ASSUME IInv, CopyEnd PROVE IInv'
  <1> DEFINE from == call["script"].from
             to == call["script"].level
  <1>1. /\ Alive /\ call["script"].kind = "copy" /\ CopyLevel(from, to)
        /\ call' = [call EXCEPT !["script"] = Idle] /\ UNCHANGED <<threads, ended>>
    BY DEF CopyEnd
  <1>2. from \in Levels /\ to \in Levels /\ from \in Printable /\ to \in Printable
    <2>1. call["script"].kind \in Kind \ {"print"}
      BY <1>1 DEF Kind
    <2> QED
      BY <1>1, <2>1, ConsoleAssumption DEF IInv, ScriptCall, Proper
  <1>3. /\ Colouring(colour) /\ digits \subseteq Levels
        /\ listening \in BOOLEAN /\ output_when_listening \in BOOLEAN
    BY DEF IInv, Settings
  <1>4. /\ colour' = [colour EXCEPT ![Background(to)] = colour[Background(from)]]
        /\ UNCHANGED <<digits, listening, output_when_listening>>
    BY <1>1 DEF CopyLevel
  <1> HIDE DEF from, to
  <1>5. Background(from) \in Attributes /\ Background(to) \in Attributes /\ Background(to).level = to
    BY <1>2 DEF Background, Attributes, Parts, Kinds
  <1>6. Colouring(colour')
    BY <1>2, <1>3, <1>4, <1>5 DEF Colouring
  <1>7. call["script"].kind \in Kind
    BY <1>1 DEF Kind
  <1> QED
    BY <1>1, <1>3, <1>4, <1>6, <1>7, ChangeKeeps

\* The process ends while the two threads are in the console, or in a call that cannot be made.
LEMMA EndKeeps == ASSUME IInv, Tear \/ CopyUnknown \/ WriteUnprintable PROVE IInv'
  <1>1. UNCHANGED <<switches, program, script, job, jobs, settings, call>> /\ ended' \in {"race", "level", "value"}
    BY DEF Tear, CopyUnknown, WriteUnprintable, Calls, threads
  <1>2. script = "running" /\ (ended' = "race" => switches \cap {"debug", "info"} # {})
    <2>1. CASE CopyUnknown \/ WriteUnprintable
      BY <2>1 DEF CopyUnknown, WriteUnprintable, Calls
    <2>2. CASE Tear
      <3>1. call["script"] # Idle /\ call["server"] # Idle
        BY <2>2 DEF Tear, Race, Changes, Uses, Idle
      <3>2. script = "running"
        BY <3>1 DEF IInv, ScriptCall
      <3> QED
        BY <3>1, <3>2, TogetherLate DEF Late
    <2> QED
      BY <2>1, <2>2
  <1>3. EndsByScriptOnly'
    BY <1>1, <1>2 DEF EndsByScriptOnly
  <1>4. Waits' /\ Lines'
    BY <1>1, ThreadsStay
  <1> QED
    BY <1>1, <1>3, <1>4 DEF IInv, ServerCall, ScriptCall, Settings, Served, Late, settings

LEMMA IInvNext == ASSUME IInv, [Next]_vars PROVE IInv'
  <1>1. CASE Submit \/ Loaded \/ Run \/ Listen \/ Complete \/ ServerPrints
    BY <1>1, LoadingKeeps, ListenKeeps, CompleteKeeps, ServerPrintsKeeps
  <1>2. CASE SetEnd \/ CopyEnd \/ Tear \/ CopyUnknown \/ WriteUnprintable
    BY <1>2, SetEndKeeps, CopyEndKeeps, EndKeeps
  <1>3. CASE \E t \in {"script", "server"} : PrintEnd(t)
    BY <1>3, PrintEndKeeps
  <1>4. CASE \E l \in Levels, value \in {"printable", "unprintable"} : ScriptPrints(l, value)
    BY <1>4, ScriptPrintsKeeps
  <1>5. CASE UNCHANGED vars
    BY <1>5 DEF vars, threads, settings, IInv, Waits, Lines, ServerCall, ScriptCall, Settings, Served, Late,
                EndsByScriptOnly
  <1> QED
    BY <1>1, <1>2, <1>3, <1>4, <1>5, SettersKeep DEF Next

\* Who prints what when, and who has changed which setting.
THEOREM ConsoleInvariance == Spec => []IInv
  BY IInvInit, IInvNext, PTL DEF Spec

\* The threads meet in the console only in the two lines that follow an answer.
THEOREM ApartInConsole == Spec => []ApartUntilAnswered
  <1>1. ASSUME IInv PROVE ApartUntilAnswered
    <2> SUFFICES ASSUME call["script"] # Idle, call["server"] # Idle
                 PROVE  /\ call["server"].level \in switches \cap {"debug", "info"}
                        /\ job = "none" /\ script = "running"
      BY DEF ApartUntilAnswered
    <2>1. script = "running"
      BY <1>1 DEF IInv, ScriptCall
    <2> QED
      BY <1>1, <2>1, TogetherLate DEF Late
  <1> QED
    BY <1>1, ConsoleInvariance, PTL

\* What ends the process in the console is the script's doing.
THEOREM ScriptEndsProcess == Spec => []EndsByScriptOnly
  <1>1. IInv => EndsByScriptOnly
    BY DEF IInv
  <1> QED
    BY <1>1, ConsoleInvariance, PTL
=============================================================================
