--------------------------- MODULE FsPluginProofs ---------------------------
(***************************************************************************)
(* What holds of the fs plugin for any files and descriptors, whatever the *)
(* script calls in whatever order: its types, that a descriptor stays with *)
(* its file until the script closes the number, that none leaks, and that  *)
(* no stream is closed twice before a number is.                           *)
(***************************************************************************)
EXTENDS FsPlugin, TLAPS

Stream == [fd : Descriptors, closed : BOOLEAN]

\* TypeOK without the last call, which no other part depends on.
Typed ==
  /\ disk \in [Names -> Contents \union {Absent}]
  /\ descriptors \in [Descriptors -> Names \union {NoName}]
  /\ streams \in Seq(Stream)
  /\ open_files \in [Names -> [file_pointer : 1..Len(streams) \union {None},
                             file_handle : Descriptors \union {None}]]
  /\ held \in [Names -> Descriptors \union {None}]
  /\ closed \subseteq Names /\ closes \in [Descriptors -> 0..2]
  /\ \A n \in Names : ~Unopened(n) => open_files[n].file_pointer # None

LEMMA NoneIsNone == None \notin Nat
  BY DEF None

LEMMA TypedInit == Init => Typed
  <1> SUFFICES ASSUME Init PROVE Typed
    OBVIOUS
  <1>1. streams \in Seq(Stream)
    BY DEF Init
  <1>2. open_files \in [Names -> [file_pointer : 1..Len(streams) \union {None},
                                file_handle : Descriptors \union {None}]]
    BY DEF Init, FileInfo
  <1>3. \A n \in Names : Unopened(n)
    <2> SUFFICES ASSUME NEW n \in Names PROVE Unopened(n)
      BY Zenon
    <2>1. open_files[n] = FileInfo
      BY DEF Init
    <2> QED
      BY <2>1 DEF Unopened, FileInfo
  <1> QED
    BY <1>1, <1>2, <1>3 DEF Init, Typed

\* A stream that is appended, and one that is marked as closed.
LEMMA Appended ==
  ASSUME NEW q \in Seq(Stream), NEW r \in Stream
  PROVE  /\ Append(q, r) \in Seq(Stream)
         /\ Len(q) \in Nat /\ Len(Append(q, r)) = Len(q) + 1
         /\ Append(q, r)[Len(q) + 1] = r
         /\ \A i \in 1..Len(q) : Append(q, r)[i] = q[i]
  OBVIOUS

LEMMA Marked ==
  ASSUME NEW q \in Seq(Stream), NEW i \in 1..Len(q)
  PROVE  /\ [q EXCEPT ![i].closed = TRUE] \in Seq(Stream)
         /\ Len([q EXCEPT ![i].closed = TRUE]) = Len(q)
         /\ [q EXCEPT ![i].closed = TRUE][i].closed
         /\ \A j \in 1..Len(q) : [q EXCEPT ![i].closed = TRUE][j].fd = q[j].fd
         /\ \A j \in 1..Len(q) : j # i => [q EXCEPT ![i].closed = TRUE][j] = q[j]
  <1> DEFINE r == [q EXCEPT ![i].closed = TRUE]
  <1>1. q[i] \in Stream /\ Len(q) \in Nat
    OBVIOUS
  <1>2. r = [q EXCEPT ![i] = [q[i] EXCEPT !.closed = TRUE]]
    OBVIOUS
  <1>3. [q[i] EXCEPT !.closed = TRUE] \in Stream
    BY <1>1 DEF Stream
  <1>4. r \in Seq(Stream) /\ Len(r) = Len(q)
    BY <1>1, <1>2, <1>3
  <1>5. \A j \in 1..Len(q) : r[j] = IF j = i THEN [q[i] EXCEPT !.closed = TRUE] ELSE q[j]
    BY <1>2
  <1>6. [q[i] EXCEPT !.closed = TRUE].closed /\ [q[i] EXCEPT !.closed = TRUE].fd = q[i].fd
    BY <1>1 DEF Stream
  <1> HIDE DEF r
  <1>7. /\ r \in Seq(Stream) /\ Len(r) = Len(q) /\ r[i].closed
        /\ \A j \in 1..Len(q) : r[j].fd = q[j].fd
        /\ \A j \in 1..Len(q) : j # i => r[j] = q[j]
    BY <1>4, <1>5, <1>6
  <1> QED
    BY <1>7 DEF r

LEMMA OpenTyped ==
  ASSUME Typed, NEW n \in Names, NEW mode \in {0, 1}, NEW fd \in Descriptors, OpenStream(n, mode, fd)
  PROVE  Typed'
  <1> DEFINE made == [fd |-> fd, closed |-> FALSE]
             info == [file_pointer |-> Len(streams) + 1, file_handle |-> fd]
  <1>1. made \in Stream
    BY DEF Stream
  <1>2. streams' = Append(streams, made) /\ open_files' = [open_files EXCEPT ![n] = info]
    BY DEF OpenStream
  <1>3. streams' \in Seq(Stream) /\ Len(streams) \in Nat /\ Len(streams') = Len(streams) + 1
    BY <1>1, <1>2, Appended DEF Typed
  <1>4. open_files' \in [Names -> [file_pointer : 1..Len(streams') \union {None},
                                 file_handle : Descriptors \union {None}]]
    BY <1>2, <1>3 DEF Typed
  <1>5. disk' \in [Names -> Contents \union {Absent}]
    BY ContentsAssumption DEF OpenStream, Typed
  <1>6. \A m \in Names : open_files'[m] = IF m = n THEN info ELSE open_files[m]
    BY <1>2 DEF Typed
  <1>7. \A m \in Names : open_files'[m].file_handle # None => open_files'[m].file_pointer # None
    BY <1>3, <1>6, NoneIsNone DEF Typed, Unopened
  <1> QED
    BY <1>3, <1>4, <1>5, <1>7 DEF OpenStream, Typed, Unopened

LEMMA CloseTyped ==
  ASSUME Typed, NEW fd \in Descriptors, Close(fd)
  PROVE  /\ Typed'
         /\ \E n \in Entries(fd) :
              /\ open_files[n].file_pointer \in 1..Len(streams)
              /\ state' = IF Closed(open_files[n].file_pointer) THEN "corrupt" ELSE state
              /\ streams' = [streams EXCEPT ![open_files[n].file_pointer].closed = TRUE]
              /\ descriptors' = [d \in Descriptors |->
                   IF d \in {fd, streams[open_files[n].file_pointer].fd} THEN NoName ELSE descriptors[d]]
  <1>1. PICK n \in Entries(fd) :
          /\ state' = IF Closed(open_files[n].file_pointer) THEN "corrupt" ELSE state
          /\ streams' = [streams EXCEPT ![open_files[n].file_pointer].closed = TRUE]
          /\ descriptors' = [d \in Descriptors |->
               IF d \in {fd, streams[open_files[n].file_pointer].fd} THEN NoName ELSE descriptors[d]]
    BY DEF Close
  <1>2. n \in Names /\ ~Unopened(n)
    BY <1>1, NoneIsNone, DescriptorsAssumption DEF Entries, Unopened
  <1>3. open_files[n].file_pointer \in 1..Len(streams)
    BY <1>2 DEF Typed
  <1>4. streams' \in Seq(Stream) /\ Len(streams') = Len(streams)
    BY <1>1, <1>3, Marked DEF Typed
  <1>5. descriptors' \in [Descriptors -> Names \union {NoName}]
    BY <1>1 DEF Typed
  <1>6. held' \in [Names -> Descriptors \union {None}]
    BY DEF Close, Typed
  <1>8. closed' \subseteq Names /\ closes' \in [Descriptors -> 0..2]
    BY DEF Close, Typed
  <1>7. open_files' = open_files /\ disk' = disk
    BY DEF Close
  <1> QED
    BY <1>1, <1>3, <1>4, <1>5, <1>6, <1>7, <1>8 DEF Typed, Unopened

LEMMA TypedNext == ASSUME Typed, [Next]_vars PROVE Typed'
  <1> USE DEF Typed, Unopened
  <1>1. CASE \E n \in Names, mode \in {0, 1}, fd \in Descriptors : OpenStream(n, mode, fd)
    BY <1>1, OpenTyped
  <1>2. CASE \E n \in Names, mode \in {0, 1} : FailToOpen(n, mode)
    BY <1>2 DEF FailToOpen
  <1>3. CASE \E n \in Names : OpenAgain(n)
    BY <1>3 DEF OpenAgain
  <1>4. CASE \E n \in Names : ReadFile(n) \/ ReadAbsent(n)
    BY <1>4 DEF ReadFile, ReadAbsent
  <1>5. CASE OpenUnhandled
    BY <1>5 DEF OpenUnhandled
  <1>6. CASE \E fd \in Descriptors : Close(fd)
    BY <1>6, CloseTyped
  <1>7. CASE \E fd \in Descriptors : CloseUnknown(fd)
    BY <1>7 DEF CloseUnknown
  <1>8. CASE \E fd \in Descriptors : Fstat(fd)
    BY <1>8 DEF Fstat
  <1>9. CASE \E n \in Names, c \in Contents : WriteFile(n, c)
    BY <1>9 DEF WriteFile
  <1>10. CASE UNCHANGED vars
    BY <1>10 DEF vars
  <1> QED
    BY <1>1, <1>2, <1>3, <1>4, <1>5, <1>6, <1>7, <1>8, <1>9, <1>10 DEF Next

-----------------------------------------------------------------------------
(* The types, of every script.                                             *)

Calls == {"none", "open", "close", "fstat", "read", "write"}

LEMMA CallsNext ==
  ASSUME last.call \in Calls, state \in {"running", "corrupt", "ended"}, Typed, [Next]_vars
  PROVE  last'.call \in Calls /\ state' \in {"running", "corrupt", "ended"}
  <1> USE DEF Calls
  <1>1. CASE \E n \in Names, mode \in {0, 1}, fd \in Descriptors : OpenStream(n, mode, fd)
    BY <1>1 DEF OpenStream, Returned
  <1>2. CASE \E n \in Names, mode \in {0, 1} : FailToOpen(n, mode)
    BY <1>2 DEF FailToOpen, Returned
  <1>3. CASE \E n \in Names : OpenAgain(n)
    BY <1>3 DEF OpenAgain, Returned
  <1>4. CASE \E n \in Names : ReadFile(n) \/ ReadAbsent(n)
    BY <1>4 DEF ReadFile, ReadAbsent, Returned
  <1>5. CASE OpenUnhandled
    BY <1>5 DEF OpenUnhandled
  <1>6. CASE \E fd \in Descriptors : Close(fd)
    <2>1. PICK fd \in Descriptors : Close(fd)
      BY <1>6
    <2>2. state' \in {state, "corrupt"}
      BY <2>1, CloseTyped
    <2>3. last'.call = "close"
      BY <2>1 DEF Close, Returned
    <2> QED
      BY <2>2, <2>3
  <1>7. CASE \E fd \in Descriptors : CloseUnknown(fd)
    BY <1>7 DEF CloseUnknown, Returned
  <1>8. CASE \E fd \in Descriptors : Fstat(fd)
    BY <1>8 DEF Fstat, Returned
  <1>9. CASE \E n \in Names, c \in Contents : WriteFile(n, c)
    BY <1>9 DEF WriteFile, Returned
  <1>10. CASE UNCHANGED vars
    BY <1>10 DEF vars
  <1> QED
    BY <1>1, <1>2, <1>3, <1>4, <1>5, <1>6, <1>7, <1>8, <1>9, <1>10 DEF Next

\* The table, the streams and the descriptors have their types, whatever the script does.
THEOREM FsTypeCorrect == Spec => []TypeOK
  <1> DEFINE I == Typed /\ last.call \in Calls /\ state \in {"running", "corrupt", "ended"}
  <1>1. Init => I
    BY TypedInit DEF Init, Calls
  <1>2. I /\ [Next]_vars => I'
    BY TypedNext, CallsNext
  <1>3. I => TypeOK
    BY DEF Typed, TypeOK, Calls, Stream
  <1> HIDE DEF I
  <1> QED
    BY <1>1, <1>2, <1>3, PTL DEF Spec

-----------------------------------------------------------------------------
(* Descriptors and streams.                                                *)

Handle(n) == open_files[n].file_handle
Pointer(n) == open_files[n].file_pointer

\* An entry of the table has the descriptor of its stream.
EntriesTell == \A n \in Names : ~Unopened(n) => streams[Pointer(n)].fd = Handle(n)

\* What the script was given for a file is in the table; and what is in the table the script was given,
\* and holds until it closes it.
HeldInTable ==
  \A n \in Names :
    /\ held[n] # None => held[n] = Handle(n)
    /\ n \notin closed /\ ~Unopened(n) => held[n] = Handle(n)

\* A stream is closed by a close() of its descriptor.
ClosedByClose == Running => \A s \in 1..Len(streams) : Closed(s) => closes[streams[s].fd] # 0

IInv == Typed /\ EntriesTell /\ HeldInTable /\ ClosedByClose /\ HeldIsOpen /\ NothingLeaks /\ ClosedOnce

LEMMA IInvInit == Init => IInv
  <1> SUFFICES ASSUME Init PROVE IInv
    OBVIOUS
  <1>1. \A n \in Names : Unopened(n) /\ held[n] = None
    <2> SUFFICES ASSUME NEW n \in Names PROVE Unopened(n) /\ held[n] = None
      BY Zenon
    <2>1. open_files[n] = FileInfo
      BY DEF Init
    <2>2. held[n] = None
      BY DEF Init
    <2> QED
      BY <2>1, <2>2 DEF Unopened, FileInfo
  <1>2. \A fd \in Descriptors : descriptors[fd] = NoName
    BY DEF Init
  <1>3. state # "corrupt" /\ streams = <<>>
    BY DEF Init
  <1> QED
    BY <1>1, <1>2, <1>3, TypedInit
    DEF IInv, EntriesTell, HeldInTable, ClosedByClose, HeldIsOpen, NothingLeaks, ClosedOnce

\* Entries have a descriptor and a stream.
LEMMA EntryTyped ==
  ASSUME Typed, NEW n \in Names, ~Unopened(n)
  PROVE  Handle(n) \in Descriptors /\ Pointer(n) \in 1..Len(streams)
  BY DEF Typed, Unopened, Handle, Pointer

LEMMA OpenStreamKeeps ==
  ASSUME IInv, NEW n \in Names, NEW mode \in {0, 1}, NEW fd \in Descriptors, OpenStream(n, mode, fd)
  PROVE  IInv'
  <1> DEFINE made == [fd |-> fd, closed |-> FALSE]
  <1>1. Typed /\ Typed'
    BY OpenTyped DEF IInv
  <1>2. made \in Stream /\ streams' = Append(streams, made)
    BY DEF OpenStream, Stream
  <1>3. /\ Len(streams) \in Nat /\ Len(streams') = Len(streams) + 1
        /\ streams'[Len(streams) + 1] = made
        /\ \A i \in 1..Len(streams) : streams'[i] = streams[i]
    BY <1>1, <1>2, Appended DEF Typed
  <1>4. /\ open_files'[n] = [file_pointer |-> Len(streams) + 1, file_handle |-> fd]
        /\ \A m \in Names : m # n => open_files'[m] = open_files[m]
    BY <1>1 DEF OpenStream, Typed
  <1>5. /\ held'[n] = fd /\ descriptors'[fd] = n
        /\ \A m \in Names : m # n => held'[m] = held[m]
        /\ \A d \in Descriptors : d # fd => descriptors'[d] = descriptors[d]
    BY <1>1 DEF OpenStream, Typed
  <1>6. /\ Unopened(n) /\ fd # None /\ descriptors[fd] = NoName
        /\ closed' = closed /\ closes' = closes /\ state' = state /\ Running
    BY DescriptorsAssumption, NoneIsNone DEF OpenStream, LowestFree
  <1>7. EntriesTell'
    <2> SUFFICES ASSUME NEW m \in Names, ~Unopened(m)' PROVE (streams[Pointer(m)].fd = Handle(m))'
      BY DEF EntriesTell
    <2>1. CASE m = n
      BY <1>3, <1>4, <2>1 DEF Handle, Pointer
    <2>2. CASE m # n
      <3>1. ~Unopened(m) /\ open_files'[m] = open_files[m]
        BY <1>4, <2>2 DEF Unopened
      <3>2. Pointer(m) \in 1..Len(streams)
        BY <1>1, <3>1, EntryTyped
      <3> QED
        BY <1>3, <3>1, <3>2 DEF IInv, EntriesTell, Handle, Pointer
    <2> QED BY <2>1, <2>2
  <1>8. HeldInTable'
    BY <1>4, <1>5, <1>6 DEF IInv, HeldInTable, Handle, Unopened
  <1>9. ClosedByClose'
    <2> SUFFICES ASSUME NEW s \in 1..Len(streams'), Closed(s)' PROVE (closes[streams[s].fd] # 0)'
      BY DEF ClosedByClose
    <2>1. s \in 1..Len(streams) /\ streams'[s] = streams[s]
      BY <1>3 DEF Closed
    <2> QED
      BY <1>6, <2>1 DEF IInv, ClosedByClose, Closed
  <1>10. HeldIsOpen'
    BY <1>5, <1>6, NamesAssumption, <1>1 DEF IInv, HeldIsOpen, Typed
  <1>11. NothingLeaks'
    <2> SUFFICES ASSUME NEW d \in Descriptors, descriptors'[d] # NoName PROVE (held[descriptors[d]] = d)'
      BY DEF NothingLeaks
    <2>1. CASE d = fd
      BY <1>5, <2>1
    <2>2. CASE d # fd
      <3>1. held[descriptors[d]] = d /\ descriptors[d] \in Names /\ descriptors'[d] = descriptors[d]
        BY <1>1, <1>5, <1>6, <2>2 DEF IInv, NothingLeaks, Typed
      <3>2. d # None
        BY DescriptorsAssumption, NoneIsNone
      <3>3. descriptors[d] # n
        BY <1>6, <3>1, <3>2 DEF IInv, HeldInTable, Handle, Unopened
      <3> QED
        BY <1>5, <3>1, <3>3
    <2> QED BY <2>1, <2>2
  <1>12. ClosedOnce'
    BY <1>6 DEF ClosedOnce, Running
  <1> QED
    BY <1>1, <1>7, <1>8, <1>9, <1>10, <1>11, <1>12 DEF IInv

LEMMA CloseKeeps ==
  ASSUME IInv, NEW fd \in Descriptors, Close(fd)
  PROVE  IInv'
  <1>1. Typed /\ Typed'
    BY CloseTyped DEF IInv
  <1>2. PICK n \in Entries(fd) :
          /\ Pointer(n) \in 1..Len(streams)
          /\ state' = IF Closed(Pointer(n)) THEN "corrupt" ELSE state
          /\ streams' = [streams EXCEPT ![Pointer(n)].closed = TRUE]
          /\ descriptors' = [d \in Descriptors |->
               IF d \in {fd, streams[Pointer(n)].fd} THEN NoName ELSE descriptors[d]]
    BY <1>1, CloseTyped DEF Pointer
  <1>3. n \in Names /\ Handle(n) = fd /\ ~Unopened(n)
    BY <1>2, DescriptorsAssumption, NoneIsNone DEF Entries, Unopened, Handle
  <1>4. streams[Pointer(n)].fd = fd
    BY <1>3 DEF IInv, EntriesTell
  <1>5. /\ Len(streams') = Len(streams)
        /\ \A j \in 1..Len(streams) : streams'[j].fd = streams[j].fd
        /\ \A j \in 1..Len(streams) : j # Pointer(n) => streams'[j] = streams[j]
    BY <1>1, <1>2, Marked DEF Typed
  <1>6. /\ open_files' = open_files /\ Running
        /\ held' = [m \in Names |-> IF held[m] = fd THEN None ELSE held[m]]
        /\ closed' = closed \union {m \in Names : held[m] = fd}
    BY DEF Close
  <1>7. /\ closes'[fd] # 0 /\ (closes[fd] # 0 => closes'[fd] = 2)
        /\ \A d \in Descriptors : d # fd => closes'[d] = closes[d]
    BY <1>1 DEF Close, Typed
  <1>8. EntriesTell'
    BY <1>1, <1>5, <1>6, EntryTyped DEF IInv, EntriesTell, Handle, Pointer, Unopened
  <1>9. HeldInTable'
    BY <1>6 DEF IInv, HeldInTable, Handle, Unopened
  <1>10. \A s \in 1..Len(streams') : streams'[s].fd \in Descriptors
    <2>1. \A s \in 1..Len(streams') : streams'[s] \in Stream
      BY <1>1 DEF Typed
    <2> QED
      BY <2>1 DEF Stream
  <1>11. ClosedByClose'
    <2> SUFFICES ASSUME NEW s \in 1..Len(streams'), Closed(s)' PROVE (closes[streams[s].fd] # 0)'
      BY DEF ClosedByClose
    <2>1. CASE streams'[s].fd = fd
      BY <1>7, <2>1
    <2>2. CASE streams'[s].fd # fd
      <3>1. s \in 1..Len(streams) /\ streams'[s].fd = streams[s].fd
        BY <1>5
      <3>2. s # Pointer(n)
        BY <1>4, <2>2, <3>1
      <3>3. Closed(s) /\ streams'[s] = streams[s]
        BY <1>5, <3>1, <3>2 DEF Closed
      <3> QED
        BY <1>6, <1>7, <1>10, <2>2, <3>1, <3>3 DEF IInv, ClosedByClose
    <2> QED BY <2>1, <2>2
  <1>12. descriptors' = [d \in Descriptors |-> IF d = fd THEN NoName ELSE descriptors[d]]
    BY <1>2, <1>4
  <1>13. HeldIsOpen'
    <2> SUFFICES ASSUME NEW m \in Names \ closed', held'[m] # None PROVE (descriptors[held[m]] = m)'
      BY DEF HeldIsOpen
    <2>1. held[m] # fd /\ held'[m] = held[m] /\ m \notin closed
      BY <1>6
    <2>2. descriptors[held[m]] = m /\ held[m] \in Descriptors
      BY <1>1, <2>1 DEF IInv, HeldIsOpen, Typed
    <2> QED
      BY <1>12, <2>1, <2>2
  <1>14. NothingLeaks'
    <2> SUFFICES ASSUME NEW d \in Descriptors, descriptors'[d] # NoName PROVE (held[descriptors[d]] = d)'
      BY DEF NothingLeaks
    <2>1. d # fd /\ descriptors'[d] = descriptors[d] /\ descriptors[d] \in Names
      BY <1>1, <1>12 DEF Typed
    <2>2. held[descriptors[d]] = d
      BY <1>6, <2>1, NamesAssumption DEF IInv, NothingLeaks
    <2> QED
      BY <1>6, <2>1, <2>2
  <1>15. ClosedOnce'
    <2> SUFFICES ASSUME state' = "corrupt" PROVE closes'[fd] = 2
      BY DEF ClosedOnce
    <2>1. Closed(Pointer(n))
      BY <1>2, <1>6 DEF Running
    <2> QED
      BY <1>2, <1>4, <1>6, <1>7, <2>1 DEF IInv, ClosedByClose
  <1> QED
    BY <1>1, <1>8, <1>9, <1>11, <1>13, <1>14, <1>15 DEF IInv

LEMMA OpenAgainKeeps ==
  ASSUME IInv, NEW n \in Names, OpenAgain(n)
  PROVE  IInv'
  <1>1. Typed /\ Typed' /\ ~Unopened(n)
    BY TypedNext DEF IInv, OpenAgain, Next
  <1>2. held' = [held EXCEPT ![n] = Handle(n)] /\ Handle(n) # None
    BY <1>1 DEF OpenAgain, Handle, Unopened
  <1>3. UNCHANGED <<descriptors, streams, open_files, closed, closes, state>>
    BY DEF OpenAgain
  <1>4. /\ held'[n] = Handle(n)
        /\ \A m \in Names : m # n => held'[m] = held[m]
        /\ held[n] # None => held'[n] = held[n]
        /\ n \notin closed => held'[n] = held[n]
    BY <1>1, <1>2 DEF IInv, HeldInTable, Typed
  <1>5. EntriesTell' /\ ClosedByClose' /\ ClosedOnce'
    BY <1>3 DEF IInv, EntriesTell, ClosedByClose, ClosedOnce, Running, Closed, Unopened, Handle, Pointer
  <1>6. HeldInTable'
    BY <1>3, <1>4 DEF IInv, HeldInTable, Handle, Unopened
  <1>7. HeldIsOpen'
    BY <1>3, <1>4 DEF IInv, HeldIsOpen
  <1>8. NothingLeaks'
    <2> SUFFICES ASSUME Running, NEW d \in Descriptors, descriptors[d] # NoName PROVE held'[descriptors[d]] = d
      BY <1>3 DEF NothingLeaks, Running
    <2>1. held[descriptors[d]] = d /\ descriptors[d] \in Names /\ d # None
      BY <1>1, DescriptorsAssumption, NoneIsNone DEF IInv, NothingLeaks, Typed
    <2> QED
      BY <1>4, <2>1
  <1> QED
    BY <1>1, <1>5, <1>6, <1>7, <1>8 DEF IInv

\* Only descriptors, the table and what the script was given decide about the invariant.
LEMMA FramedKeeps ==
  ASSUME IInv, Typed', state' = state \/ state' = "ended",
         UNCHANGED <<descriptors, streams, open_files, held, closed, closes>>
  PROVE  IInv'
  BY DEF IInv, EntriesTell, HeldInTable, ClosedByClose, HeldIsOpen, NothingLeaks, ClosedOnce, Running,
     Handle, Pointer, Closed, Unopened

LEMMA IInvNext == ASSUME IInv, [Next]_vars PROVE IInv'
  <1> DEFINE Framed == /\ state' = state \/ state' = "ended"
                       /\ UNCHANGED <<descriptors, streams, open_files, held, closed, closes>>
  <1>0. Typed' /\ (Framed => IInv')
    BY TypedNext, FramedKeeps DEF IInv
  <1>1. CASE \E n \in Names, mode \in {0, 1}, fd \in Descriptors : OpenStream(n, mode, fd)
    BY <1>1, OpenStreamKeeps
  <1>2. CASE \E n \in Names, mode \in {0, 1} : FailToOpen(n, mode)
    BY <1>0, <1>2 DEF FailToOpen
  <1>3. CASE \E n \in Names : OpenAgain(n)
    BY <1>3, OpenAgainKeeps
  <1>4. CASE \E n \in Names : ReadFile(n) \/ ReadAbsent(n)
    BY <1>0, <1>4 DEF ReadFile, ReadAbsent
  <1>5. CASE OpenUnhandled
    BY <1>0, <1>5 DEF OpenUnhandled
  <1>6. CASE \E fd \in Descriptors : Close(fd)
    BY <1>6, CloseKeeps
  <1>7. CASE \E fd \in Descriptors : CloseUnknown(fd)
    BY <1>0, <1>7 DEF CloseUnknown
  <1>8. CASE \E fd \in Descriptors : Fstat(fd)
    BY <1>0, <1>8 DEF Fstat
  <1>9. CASE \E n \in Names, c \in Contents : WriteFile(n, c)
    BY <1>0, <1>9 DEF WriteFile
  <1>10. CASE UNCHANGED vars
    BY <1>0, <1>10 DEF vars
  <1> QED
    BY <1>1, <1>2, <1>3, <1>4, <1>5, <1>6, <1>7, <1>8, <1>9, <1>10 DEF Next

\* The inductive invariant of the table, the streams and the descriptors, for every sequence of calls.
THEOREM FsInvariance == Spec => []IInv
  <1>1. IInv /\ [Next]_vars => IInv'
    BY IInvNext
  <1> QED
    BY <1>1, IInvInit, PTL DEF Spec

\* A descriptor that open() gave for a file stays open on that file until the script closes its number.
COROLLARY DescriptorsStay == Spec => []HeldIsOpen
  <1>1. IInv => HeldIsOpen
    BY DEF IInv
  <1> QED
    BY <1>1, FsInvariance, PTL

\* Every open descriptor is one the script was last given for its file, and can still close.
COROLLARY DescriptorsReachable == Spec => []NothingLeaks
  <1>1. IInv => NothingLeaks
    BY DEF IInv
  <1> QED
    BY <1>1, FsInvariance, PTL

\* A stream is closed twice only after a descriptor number was.
COROLLARY StreamsClosedOnce == Spec => []ClosedOnce
  <1>1. IInv => ClosedOnce
    BY DEF IInv
  <1> QED
    BY <1>1, FsInvariance, PTL
=============================================================================
