---------------------------- MODULE ConsolePlugin ----------------------------
(***************************************************************************)
(* The console plugin (src/src/plugins/console/console.cpp).  Its levels'  *)
(* colours and its switches are globals of the library, one set for the    *)
(* isolates of the script and of the TypeScript server: both threads print *)
(* with them and the script changes them, without a lock.  What keeps the  *)
(* threads apart is that the script waits while a job is compiled; the     *)
(* server prints only with the --print-typescript-... options.             *)
(*                                                                         *)
(* A call of the console is two steps.  Of a level the model keeps the      *)
(* colours and the show switches that a line reads, and the format and the *)
(* length asked of its time stamp.  What the values look like and the      *)
(* attributes that print a fixed code (bold, dim, ...) are left out.       *)
(***************************************************************************)
EXTENDS Naturals, Sequences, FiniteSets

CONSTANTS
  Options,      \* the --print-typescript-... options that may be on the command line
  Levels,       \* the levels the script uses
  Chosen,       \* the names of colours it sets
  Numbers,      \* other texts it sets as a colour that stoi() reads
  Texts,        \* texts it sets that stoi() does not read
  MaxJobs, MaxCalls \* bounds of the model

\* The levels that local_print() prints with ("dirxml" has the configuration of "dir"),
\* those of them that console.configuration has, and the parts of a level that are printed.
Printable == {"debug", "dir", "error", "info", "log", "print", "table", "todo", "trace", "warn"}
Settable == Printable \ {"dir", "table"}
Parts == {"level", "field_separator", "time_stamp"}
Kinds == {"text", "background"}
Attributes == [part : Parts, kind : Kinds, level : Printable]
Colours == Chosen \cup Numbers \cup Texts

\* The keys of text_colors and background_colors, which have a space where there is an underscore.
Hues == {"black", "red", "green", "yellow", "blue", "magenta", "cyan", "white"}
Bright == {"bright_black", "bright_red", "bright_green", "bright_yellow", "bright_blue",
           "bright_magenta", "bright_cyan", "bright_white"}
Names == {"default"} \cup Hues \cup Bright

ASSUME ConsoleAssumption ==
  /\ Options \subseteq {"debug", "error", "info", "trace"}
  /\ Levels \subseteq Printable
  /\ Chosen \subseteq Names
  /\ Names \cap (Numbers \cup Texts) = {} /\ Numbers \cap Texts = {}
  /\ MaxJobs \in Nat /\ MaxCalls \in Nat

VARIABLES
  switches,  \* the levels the server prints (the configuration of the command line)
  program,   \* what the server has left to do before it listens again
  script,    \* where the script's thread is
  job,       \* its transpile job
  jobs,      \* jobs submitted
  calls,     \* calls the script made
  call,      \* the call of the console each thread is in
  colour,    \* the colours of each level's parts
  show,      \* the levels that show each part
  epoch,     \* the levels whose time_format is "epoch"
  digits,    \* the levels whose show_right is more than a time stamp has
  listening, output_when_listening,
  inserted,  \* colours that printing has added to text_colors and background_colors
  ended      \* what ended the process

threads == <<switches, program, script, job, jobs, calls>>
settings == <<colour, show, epoch, digits, listening, output_when_listening>>
vars == <<threads, settings, call, inserted, ended>>

Idle == [kind |-> "none"]

\* The wrapped console.*: without its option a line is not printed.
Printed(level) == IF level \in switches THEN <<level>> ELSE <<>>

\* The text colours that the levels begin with.
First ==
  [debug |-> "red", dir |-> "default", error |-> "red", info |-> "bright_white", log |-> "default",
   print |-> "default", table |-> "bright_red", todo |-> "blue", trace |-> "bright_green", warn |-> "yellow"]

Init ==
  /\ switches \in SUBSET Options
  /\ \E configuration \in {<<>>, <<"info">>} :
       program = Printed("trace") \o configuration \o Printed("debug") \o Printed("trace")
  /\ script = "loading" /\ job = "none" /\ jobs = 0 /\ calls = 0
  /\ call = [t \in {"script", "server"} |-> Idle]
  /\ colour = [a \in Attributes |->
                 IF a.part = "level" /\ a.kind = "text" THEN First[a.level] ELSE "default"]
  /\ show = [p \in Parts |-> IF p = "time_stamp" THEN {} ELSE Printable]
  /\ epoch = Printable /\ digits = {}
  /\ listening = FALSE /\ output_when_listening = FALSE
  /\ inserted = [k \in Kinds |-> {}]
  /\ ended = "no"

-----------------------------------------------------------------------------
(* The threads.                                                            *)

Alive == ended = "no"
Free(t) == Alive /\ call[t] = Idle

\* The loader submits a job for a file and waits.
Submit ==
  /\ Free("script") /\ script = "loading" /\ jobs < MaxJobs
  /\ job' = "pending" /\ jobs' = jobs + 1 /\ script' = "waiting"
  /\ UNCHANGED <<switches, program, calls, settings, call, inserted, ended>>

Answered_WhenTaken == job # "pending"                                \* mutant
Answered == job = "answered"

Loaded ==
  /\ Free("script") /\ script = "waiting" /\ Answered
  /\ job' = "none" /\ script' = "loading"
  /\ UNCHANGED <<switches, program, jobs, calls, settings, call, inserted, ended>>

\* Every file is loaded, the script's own at least.
Run ==
  /\ Free("script") /\ script = "loading" /\ jobs > 0
  /\ script' = "running"
  /\ UNCHANGED <<switches, program, job, jobs, calls, settings, call, inserted, ended>>

\* One round of job_loop(): the compiler calls back, or throws and the job is lost.
Listen ==
  /\ Free("server") /\ program = <<>> /\ job = "pending"
  /\ job' = "taken"
  /\ \E rest \in {<<"complete">> \o Printed("info") \o Printed("debug"), Printed("error")} :
       program' = Printed("info") \o Printed("debug") \o Printed("debug") \o rest
  /\ UNCHANGED <<switches, script, jobs, calls, settings, call, inserted, ended>>

Complete ==
  /\ Free("server") /\ program # <<>> /\ Head(program) = "complete"
  /\ job' = "answered"
  /\ program' = Tail(program)
  /\ UNCHANGED <<switches, script, jobs, calls, settings, call, inserted, ended>>

-----------------------------------------------------------------------------
(* Printing: local_print() and colorize().                                 *)

\* The level has a level_string, which is printed before the values.
Titled(l) == l \notin {"print", "dir"}

\* local_print() makes log_message when it begins.
MakesMessage_Silent == listening /\ ~output_when_listening          \* mutant
MakesMessage == listening

\* A stamp shorter than the digits asked of it: substr() throws, also when no stamp is shown.
Overlong(l) == l \in epoch \cap digits

\* colorize_head(): the level's name and a field separator, a time stamp and a field
\* separator.  colorize() reads the colours of a part that is shown.
Headed == listening => output_when_listening
Colorized(l) ==
  {p \in Parts :
     /\ Headed /\ l \in show[p]
     /\ p # "time_stamp" => Titled(l) \/ (p = "field_separator" /\ l \in show["time_stamp"])}
Reads(l) == {a \in Attributes : a.level = l /\ a.part \in Colorized(l)}

\* A colour that the maps do not know is added to them.
Adds(l, k) == {colour[a] : a \in {b \in Reads(l) : b.kind = k}} \ (Names \cup inserted[k])

PrintBegin(t, l, value) ==
  /\ call' = [call EXCEPT ![t] =
       [kind |-> "print", level |-> l, message |-> MakesMessage, value |-> value,
        reads |-> Reads(l), adds |-> {k \in Kinds : Adds(l, k) # {}}]]
  /\ inserted' = [k \in Kinds |-> IF Overlong(l) THEN inserted[k] ELSE inserted[k] \cup Adds(l, k)]
  /\ ended' = IF Overlong(l) THEN "stamp"
              ELSE IF \E a \in Reads(l) : colour[a] \in Texts THEN "colour" ELSE ended
  /\ UNCHANGED settings

\* An object that has no JSON, a value that has no string: ToLocalChecked() and
\* std::string(nullptr).  Then listening is read again, and DefineOwnProperty() of a
\* message that was not made is the end.
PrintEnd(t) ==
  /\ Alive /\ call[t].kind = "print"
  /\ ended' = IF call[t].value = "unprintable" THEN "value"
              ELSE IF listening /\ ~call[t].message THEN "message" ELSE ended
  /\ call' = [call EXCEPT ![t] = Idle]
  /\ UNCHANGED <<threads, settings, inserted>>

\* The server prints texts and plain objects.
ServerPrints ==
  /\ Free("server") /\ program # <<>> /\ Head(program) # "complete"
  /\ program' = Tail(program)
  /\ PrintBegin("server", Head(program), "printable")
  /\ UNCHANGED <<switches, script, job, jobs, calls>>

-----------------------------------------------------------------------------
(* The script's calls.                                                     *)

Calls(body) ==
  /\ Free("script") /\ script = "running" /\ calls < MaxCalls
  /\ calls' = calls + 1
  /\ body
  /\ UNCHANGED <<switches, program, script, job, jobs>>

Begin(c) ==
  /\ call' = [call EXCEPT !["script"] = c]
  /\ UNCHANGED <<settings, inserted, ended>>

\* A call without values returns at once.
ScriptPrints(l, value) == Calls(PrintBegin("script", l, value))

\* write() of a value that cannot be printed; of others it only prints.
WriteUnprintable == Calls(ended' = "value" /\ UNCHANGED <<settings, call, inserted>>)

SetColour(a, c) == Calls(Begin([kind |-> "colour", attribute |-> a, value |-> c]))
SetShow(p, l, b) == Calls(Begin([kind |-> "show", part |-> p, level |-> l, value |-> b]))
SetFormat(l, b) == Calls(Begin([kind |-> "format", level |-> l, value |-> b]))
SetDigits(l, b) == Calls(Begin([kind |-> "digits", level |-> l, value |-> b]))
SetListen(b) == Calls(Begin([kind |-> "listen", value |-> b]))
SetOutput(b) == Calls(Begin([kind |-> "output", value |-> b]))

\* copy(); a level that it does not know is entered with a null pointer, and used.
Copy(from, to) == Calls(Begin([kind |-> "copy", from |-> from, level |-> to]))
CopyUnknown ==
  Calls(ended' = "level" /\ UNCHANGED <<settings, call, inserted>>)

\* PropertyPointer::SetValue().
Assigned(set, l, b) == IF b THEN set \cup {l} ELSE set \ {l}
Set(c) ==
  /\ colour' = IF c.kind = "colour" THEN [colour EXCEPT ![c.attribute] = c.value] ELSE colour
  /\ show' = IF c.kind = "show" THEN [show EXCEPT ![c.part] = Assigned(@, c.level, c.value)] ELSE show
  /\ epoch' = IF c.kind = "format" THEN Assigned(epoch, c.level, c.value) ELSE epoch
  /\ digits' = IF c.kind = "digits" THEN Assigned(digits, c.level, c.value) ELSE digits
  /\ listening' = IF c.kind = "listen" THEN c.value ELSE listening
  /\ output_when_listening' = IF c.kind = "output" THEN c.value ELSE output_when_listening

\* copy_console_configuration() copies what the level has as a BaseConfiguration: not its
\* parts, and not the text_color that Configuration declares again and colorize() prints.
Background(l) == [part |-> "level", kind |-> "background", level |-> l]
CopyLevel(from, to) ==
  /\ colour' = [colour EXCEPT ![Background(to)] = colour[Background(from)]]
  /\ show' = [show EXCEPT !["level"] = Assigned(@, to, from \in @)]
  /\ UNCHANGED <<epoch, digits, listening, output_when_listening>>

SetEnd ==
  /\ Alive /\ call["script"].kind \in {"colour", "show", "format", "digits", "listen", "output"}
  /\ Set(call["script"])
  /\ call' = [call EXCEPT !["script"] = Idle]
  /\ UNCHANGED <<threads, inserted, ended>>

CopyEnd ==
  /\ Alive /\ call["script"].kind = "copy"
  /\ CopyLevel(call["script"].from, call["script"].level)
  /\ call' = [call EXCEPT !["script"] = Idle]
  /\ UNCHANGED <<threads, inserted, ended>>

-----------------------------------------------------------------------------
(* Two threads at once.                                                    *)

\* The strings and maps a call changes, and those it reads.  local_print() copies the
\* format of the time stamp, shown or not.
Map(k) == [part |-> "map", kind |-> k, level |-> "all"]
Format(l) == [part |-> "time_format", kind |-> "text", level |-> l]
Changes(c) ==
  CASE c.kind = "print" -> {Map(k) : k \in c.adds}
    [] c.kind = "colour" -> {c.attribute}
    [] c.kind = "format" -> {Format(c.level)}
    [] c.kind = "copy" -> {Background(c.level)}
    [] OTHER -> {}
Uses(c) ==
  CASE c.kind = "print" -> {Format(c.level)} \cup c.reads \cup {Map(a.kind) : a \in c.reads}
    [] c.kind = "copy" -> {Background(c.from)}
    [] OTHER -> {}

Race ==
  LET one == call["script"]
      other == call["server"]
  IN \/ Changes(one) \cap (Changes(other) \cup Uses(other)) # {}
     \/ Changes(other) \cap Uses(one) # {}

\* A string or a map that is read while it changes may be the end.
Tear ==
  /\ Alive /\ Race
  /\ ended' = "race"
  /\ UNCHANGED <<threads, settings, call, inserted>>

Next ==
  \/ Submit \/ Loaded \/ Run
  \/ Listen \/ Complete \/ ServerPrints
  \/ \E t \in {"script", "server"} : PrintEnd(t)
  \/ \E l \in Levels, value \in {"printable", "unprintable"} : ScriptPrints(l, value)
  \/ WriteUnprintable
  \/ \E a \in Attributes, c \in Colours : a.level \in Levels \cap Settable /\ SetColour(a, c)
  \/ \E l \in Levels \cap Settable, b \in BOOLEAN :
       (\E p \in Parts : SetShow(p, l, b)) \/ SetFormat(l, b) \/ SetDigits(l, b)
  \/ \E b \in BOOLEAN : SetListen(b) \/ SetOutput(b)
  \/ \E from, to \in Levels : Copy(from, to)
  \/ CopyUnknown
  \/ SetEnd \/ CopyEnd
  \/ Tear

Spec == Init /\ [][Next]_vars

-----------------------------------------------------------------------------
(* Properties.                                                             *)

\* Only the two lines that the server prints after a job is answered, at info and
\* debug, can be in the console together with a call of the script: what it prints
\* when it starts, takes a job or loses one cannot.
ApartUntilAnswered ==
  call["script"] # Idle /\ call["server"] # Idle =>
    /\ call["server"].level \in switches \cap {"debug", "info"}
    /\ job = "none" /\ script = "running"

\* Whatever ends the process in the console is the script's doing, and happens while it
\* runs: a colour that it set and stoi() does not read, in a part of a level that is
\* shown; more digits asked than a time stamp has; a value that cannot be printed;
\* copy() of an unknown level; or a setting that changed under a line of the server,
\* for which an option made it print.
EndsByScriptOnly ==
  ended # "no" =>
    /\ script = "running"
    /\ ended = "colour" => \E a \in Attributes : a.level \in Levels /\ colour[a] \in Texts
    /\ ended = "stamp" => Levels \cap epoch \cap digits # {}
    /\ ended \in {"message", "race"} => switches \cap {"debug", "info"} # {}
=============================================================================
