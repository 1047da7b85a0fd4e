----------------------- MODULE LoadPipelineInvariant -----------------------
(***************************************************************************)
(* The inductive invariant of the load pipeline: the two threads take      *)
(* turns in the memory mapper, except that the server may still list the   *)
(* library while the loader stores its first source.                       *)
(***************************************************************************)
EXTENDS LoadPipeline

\* A thread inside the mapper is in a section; what a section uses is there.
Sections ==
  \A t \in Threads :
    /\ inside[t] => ~Idle(t)
    /\ section[t] \in {"locating", "storing", "reading", "listing"} =>
         maps[call[t].store] # NoContainer
    /\ section[t] = "storing" => target[t] # NoContainer

\* The prepared stores keep their containers, and no container serves two stores.
StoresApart ==
  /\ \A m \in Prepared : maps[m] # NoContainer
  /\ \A m, n \in Stores : maps[m] = maps[n] /\ maps[m] # NoContainer => m = n

\* Each thread calls the mapper only at some points, and the server works on a
\* job only while the loader waits for it.
Turns ==
  /\ ~Idle(Loader) => loader \in {"storing", "reading", "calling"}
  /\ ~Idle(Server) => server \in {"listing", "taken", "reading", "emitting"}
  /\ server \in {"taken", "reading", "emitting", "crashed"} => job.state = "pending"
  /\ job.state \in {"pending", "lost"} => loader = "waiting"

\* The server has not listened yet: the loader is busy with the first import, and
\* the two calls that may overlap are on different stores.
FirstImport ==
  server \in {"starting", "listing"} =>
    /\ job.state \notin {"answered", "lost"}
    /\ loader \in {"storing", "waiting"} \/ (loader = "loading" /\ imports = 0)
    /\ ~Idle(Loader) =>
         /\ call[Loader].kind = "write" /\ call[Loader].store = SourceStore
         /\ section[Loader] \in {"probing", "locating", "storing"}
         /\ section[Loader] = "storing" => target[Loader] = maps[SourceStore]
    /\ ~Idle(Server) =>
         /\ call[Server].kind = "list" /\ call[Server].store = LibraryStore
         /\ section[Server] \in {"probing", "listing"}

IInv == TypeOK /\ Sections /\ StoresApart /\ Turns /\ FirstImport
-----------------------------------------------------------------------------
(* Where the texts of the import in progress are.                          *)

Holds(m, f, v) == content[maps[m]][f] = v

\* Thread t is in write() of v, and the store it writes to exists.
Writing(t, m, f, v) ==
  /\ call[t] = [kind |-> "write", store |-> m, file |-> f, text |-> v]
  /\ section[t] \in {"probing", "locating", "storing"}
  /\ section[t] = "storing" => target[t] = maps[m]

\* Thread t is in read(), and the store it reads exists.
Looking(t, m, f) ==
  /\ call[t].kind = "read" /\ call[t].store = m /\ call[t].file = f
  /\ section[t] \in {"probing", "reading"}

\* The source the server finds under the normalised name.
Seen == content[maps[SourceStore]][Normalised[job.file]]

EgressText == IF job.egress = NoFile THEN NoContent ELSE Output[Seen]

\* An import goes through storing, waiting and reading, with the text it fetched.
Import ==
  /\ job.state = "answered" => loader \in {"waiting", "reading"}
  /\ loader = "reading" => job.state = "answered"
  /\ loader \in {"storing", "waiting", "reading"} => fetched \in Sources
  /\ loader = "storing" => job.egress = NoFile
  /\ job.state = "pending" /\ server # "emitting" => job.egress = NoFile

\* The source on its way: the loader stores it, the server reads it.
SourceText ==
  /\ loader = "storing" => IF Idle(Loader) THEN Holds(SourceStore, job.file, fetched)
                           ELSE Writing(Loader, SourceStore, job.file, fetched)
  /\ loader \in {"waiting", "reading"} => Holds(SourceStore, job.file, fetched)
  /\ server = "taken" /\ ~Idle(Server) => Looking(Server, LibraryStore, LibraryFile)
  /\ server = "reading" => IF Idle(Server) THEN answer[Server] = Seen
                           ELSE Looking(Server, SourceStore, Normalised[job.file])

\* The output on its way back.  Until the script runs no output has the empty name.
OutputText ==
  /\ loader \in {"loading", "storing", "waiting", "reading"} => Holds(OutputStore, NoFile, NoContent)
  /\ server = "emitting" =>
       IF Idle(Server) THEN Holds(OutputStore, job.egress, EgressText)
       ELSE job.egress # NoFile /\ Writing(Server, OutputStore, job.egress, Output[Seen])
  /\ job.state = "answered" => Holds(OutputStore, job.egress, EgressText)
  /\ loader = "reading" => IF Idle(Loader) THEN answer[Loader] = EgressText
                           ELSE Looking(Loader, OutputStore, job.egress)

Texts == Import /\ SourceText /\ OutputText
=============================================================================
