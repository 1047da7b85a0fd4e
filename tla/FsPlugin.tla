------------------------------ MODULE FsPlugin ------------------------------
(***************************************************************************)
(* The fs plugin: open(), close(), fstat(), readFileSync() and             *)
(* writeFileSync() of plugins/fs/fs.cpp, called by one script in any       *)
(* order.  The plugin keeps a table from file names to FileInfo (a FILE*   *)
(* and its descriptor); below it are the stdio streams, each of which may  *)
(* be closed once, and the descriptors, which the kernel reuses.           *)
(***************************************************************************)
EXTENDS Integers, Sequences

CONSTANTS
  Names,          \* names of files
  Unwritable,     \* those the process may not write
  Contents,       \* what a file may hold
  Absent, Empty,  \* no such file; the text of a file that holds nothing
  Descriptors     \* the descriptors the kernel may give

NoName == "none"
ASSUME NamesAssumption == Unwritable \subseteq Names /\ NoName \notin Names
ASSUME ContentsAssumption == Empty \in Contents /\ Absent \notin Contents
ASSUME DescriptorsAssumption == Descriptors \subseteq Nat

VARIABLES
  disk,           \* what each file holds
  descriptors,    \* the file an open descriptor is open on
  streams,        \* the FILE objects made so far: their descriptor, and if they were closed
  open_files,     \* the plugin's table
  held,           \* the descriptor the script was last given for a file and has not closed since
  closed,         \* history: the files whose descriptor the script has closed
  closes,         \* history: how often close() closed a descriptor, counted up to two
  last,           \* the last call that returned, and what it returned
  state           \* "running"; "corrupt" after undefined behaviour; "ended" by an exception

vars == <<disk, descriptors, streams, open_files, held, closed, closes, last, state>>

None == -1

\* A FileInfo as its constructor leaves it: also what the table shows of a name never looked up.
FileInfo == [file_pointer |-> None, file_handle |-> None]

\* Type invariant.
TypeOK ==
  /\ disk \in [Names -> Contents \union {Absent}]
  /\ descriptors \in [Descriptors -> Names \union {NoName}]
  /\ streams \in Seq([fd : Descriptors, closed : BOOLEAN])
  /\ open_files \in [Names -> [file_pointer : 1..Len(streams) \union {None},
                             file_handle : Descriptors \union {None}]]
  /\ held \in [Names -> Descriptors \union {None}]
  /\ closed \subseteq Names /\ closes \in [Descriptors -> 0..2]
  /\ last.call \in {"none", "open", "close", "fstat", "read", "write"}
  /\ state \in {"running", "corrupt", "ended"}

Init ==
  /\ disk \in [Names -> Contents \union {Absent}]
  /\ descriptors = [d \in Descriptors |-> NoName]
  /\ streams = <<>>
  /\ open_files = [n \in Names |-> FileInfo]
  /\ held = [n \in Names |-> None]
  /\ closed = {} /\ closes = [d \in Descriptors |-> 0]
  /\ last = [call |-> "none", name |-> NoName, value |-> None]
  /\ state = "running"

Running == state = "running"
Returned(call, n, value) == last' = [call |-> call, name |-> n, value |-> value]
Closed(s) == streams[s].closed

-----------------------------------------------------------------------------
\* What open() does when it does not ask whether the name has a descriptor.
Unopened_Always(n) == TRUE

\* The table has no descriptor for the name.
Unopened(n) == open_files[n].file_handle = None

\* fopen() succeeds: with "r" for mode 0 on a file that exists, with "w" for mode 1 on one that may
\* be written.
Opens(n, mode) == IF mode = 0 THEN disk[n] # Absent ELSE n \notin Unwritable

\* The stream that is made and its descriptor, the lowest that is free, go into the table.
LowestFree(fd) ==
  /\ descriptors[fd] = NoName
  /\ \A d \in Descriptors : descriptors[d] = NoName => fd <= d

OpenStream(n, mode, fd) ==
  /\ Running /\ Unopened(n) /\ Opens(n, mode)
  /\ LowestFree(fd)
  /\ descriptors' = [descriptors EXCEPT ![fd] = n]
  /\ streams' = Append(streams, [fd |-> fd, closed |-> FALSE])
  /\ open_files' = [open_files EXCEPT ![n] = [file_pointer |-> Len(streams) + 1, file_handle |-> fd]]
  /\ disk' = IF mode = 1 THEN [disk EXCEPT ![n] = Empty] ELSE disk
  /\ held' = [held EXCEPT ![n] = fd]
  /\ Returned("open", n, fd)
  /\ UNCHANGED <<closed, closes, state>>

\* fopen() fails, also when no descriptor is free: the script gets an Error.  The table keeps a
\* FileInfo without a descriptor.
FailToOpen(n, mode) ==
  /\ Running /\ Unopened(n)
  /\ ~Opens(n, mode) \/ \A d \in Descriptors : descriptors[d] # NoName
  /\ Returned("open", n, None)
  /\ UNCHANGED <<disk, descriptors, streams, open_files, held, closed, closes, state>>

\* A name that has a descriptor in the table: open() returns it, whatever the mode, and whether or
\* not it was closed since.
OpenAgain(n) ==
  /\ Running /\ ~Unopened(n)
  /\ held' = [held EXCEPT ![n] = open_files[n].file_handle]
  /\ Returned("open", n, open_files[n].file_handle)
  /\ UNCHANGED <<disk, descriptors, streams, open_files, closed, closes, state>>

\* Any other mode: the exception cannot cross the frames of the script, and the process ends.
OpenUnhandled ==
  /\ Running
  /\ state' = "ended"
  /\ UNCHANGED <<disk, descriptors, streams, open_files, held, closed, closes, last>>

\* A close() that takes the first entry it meets.
Entries_Any(fd) == {n \in Names : ~Unopened(n)}

\* The entries of the table with this descriptor.  The order in which the table is walked is not
\* specified: any of them may be met first.
Entries(fd) == {n \in Names : open_files[n].file_handle = fd}

\* close(fd), whoever was given fd and however often it was closed, frees the descriptor.  fclose() of
\* the stream of the entry then closes its descriptor once more, which no call of the script has taken in
\* between, and frees the stream: on a stream freed before, anything may happen.  The entry stays in
\* the table as it was.
Close(fd) ==
  /\ Running
  /\ \E n \in Entries(fd) :
       LET s == open_files[n].file_pointer
       IN  /\ state' = IF Closed(s) THEN "corrupt" ELSE state
           /\ streams' = [streams EXCEPT ![s].closed = TRUE]
           /\ descriptors' = [d \in Descriptors |-> IF d \in {fd, streams[s].fd} THEN NoName ELSE descriptors[d]]
  /\ held' = [n \in Names |-> IF held[n] = fd THEN None ELSE held[n]]
  /\ closed' = closed \union {n \in Names : held[n] = fd}
  /\ closes' = [closes EXCEPT ![fd] = IF @ = 0 THEN 1 ELSE 2]
  /\ Returned("close", NoName, TRUE)
  /\ UNCHANGED <<disk, open_files>>

\* A descriptor without an entry: close() does nothing and returns undefined.
CloseUnknown(fd) ==
  /\ Running /\ Entries(fd) = {}
  /\ Returned("close", NoName, None)
  /\ UNCHANGED <<disk, descriptors, streams, open_files, held, closed, closes, state>>

\* fstat() asks the kernel about a descriptor of the table: it describes the file the descriptor is
\* open on, or is undefined when it is closed or has no entry.
Fstat(fd) ==
  /\ Running
  /\ LET described == IF Entries(fd) = {} THEN NoName ELSE descriptors[fd]
     IN  Returned("fstat", NoName, described)
  /\ UNCHANGED <<disk, descriptors, streams, open_files, held, closed, closes, state>>

\* readFileSync() and readFileUtf8(): fetch::string() reads the file, drops what it read and returns
\* an empty string.
ReadFile(n) ==
  /\ Running /\ disk[n] # Absent
  /\ Returned("read", n, Empty)
  /\ UNCHANGED <<disk, descriptors, streams, open_files, held, closed, closes, state>>

\* fetch::stream() cannot open the file: SlimFileException crosses the frames of the script.
ReadAbsent(n) ==
  /\ Running /\ disk[n] = Absent
  /\ state' = "ended"
  /\ UNCHANGED <<disk, descriptors, streams, open_files, held, closed, closes, last>>

\* writeFileSync() returns nothing, and says nothing when the file cannot be opened.
WriteFile(n, c) ==
  /\ Running
  /\ disk' = IF n \in Unwritable THEN disk ELSE [disk EXCEPT ![n] = c]
  /\ Returned("write", n, c)
  /\ UNCHANGED <<descriptors, streams, open_files, held, closed, closes, state>>

Next ==
  \/ \E n \in Names, mode \in {0, 1} :
       FailToOpen(n, mode) \/ \E fd \in Descriptors : OpenStream(n, mode, fd)
  \/ \E n \in Names : OpenAgain(n) \/ ReadFile(n) \/ ReadAbsent(n)
  \/ OpenUnhandled
  \/ \E fd \in Descriptors : Close(fd) \/ CloseUnknown(fd) \/ Fstat(fd)
  \/ \E n \in Names, c \in Contents : WriteFile(n, c)

Spec == Init /\ [][Next]_vars

-----------------------------------------------------------------------------
\* The descriptor that open() gave for a file stays open on that file until the script closes that
\* number, whatever other files it opens and closes on numbers that come back, and whatever stale
\* entries close() meets in the table.
HeldIsOpen == \A n \in Names \ closed : held[n] # None => descriptors[held[n]] = n

\* Every descriptor the plugin has open is one the script was last given for its file, and can still
\* close: none is lost with an entry of the table that was overwritten.
NothingLeaks ==
  Running => \A fd \in Descriptors : descriptors[fd] # NoName => held[descriptors[fd]] = fd

\* The stale entries of closed files do harm only once a number comes back: a stream is closed twice
\* (undefined behaviour) only after close() has closed one descriptor number twice, be it for one
\* file or for two files that had the number in turn.
ClosedOnce == state = "corrupt" => \E fd \in Descriptors : closes[fd] = 2

\* What open() returns is a descriptor of the file it was asked for, also when the file was opened and
\* closed before.
GivenIsOpen == \A n \in Names : held[n] # None => descriptors[held[n]] = n

=============================================================================
