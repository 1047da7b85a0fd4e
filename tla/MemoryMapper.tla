---------------------------- MODULE MemoryMapper ----------------------------
(***************************************************************************)
(* The in-memory file stores of src/src/slim_common_memory_mapper.cpp: a   *)
(* map from store names to containers and, in every container, a map from  *)
(* file names to contents.  read_mutex and write_mutex are different       *)
(* locks, and some accesses hold neither, so sections of two threads may   *)
(* overlap: a thread enters a section and leaves it in two steps, and the  *)
(* effect is that of leaving.  A call is the pair of thread and arguments; *)
(* which calls are made is for the modules that extend this one.           *)
(***************************************************************************)
EXTENDS Integers

CONSTANTS
  Threads,
  Stores,          \* names of stores
  Prepared,        \* the stores marshal_resources() makes before any thread runs
  FileNames,       \* names of files in a store
  Contents, NoContent,
  Containers,      \* heap objects of type map_container
  NoContainer

ASSUME MapperAssumption ==
  /\ Prepared \subseteq Stores /\ Stores # {} /\ FileNames # {}
  /\ NoContent \notin Contents /\ NoContainer \notin Containers

VARIABLES
  maps,      \* the container of each store, NoContainer when it has no entry
  content,   \* the files of every container
  section,   \* the section a thread is about to enter, or is in
  inside,    \* whether it has entered it
  call,      \* the arguments of its call
  target,    \* the raw pointer `map' of write()
  answer     \* what its last read() returned

mapperVars == <<maps, content, section, inside, call, target, answer>>

Section == {"none", "probing", "reprobing", "creating", "locating", "storing",
            "reading", "listing"}
Call == [kind : {"read", "exists", "list", "write"}, store : Stores,
         file : FileNames, text : Contents \cup {NoContent}]

MapperTypeOK ==
  /\ maps \in [Stores -> Containers \cup {NoContainer}]
  /\ content \in [Containers -> [FileNames -> Contents \cup {NoContent}]]
  /\ section \in [Threads -> Section]
  /\ inside \in [Threads -> BOOLEAN]
  /\ call \in [Threads -> Call]
  /\ target \in [Threads -> Containers \cup {NoContainer}]
  /\ answer \in [Threads -> Contents \cup {NoContent}]

Empty == [f \in FileNames |-> NoContent]
NoCall == [kind |-> "read", store |-> CHOOSE m \in Stores : TRUE,
           file |-> CHOOSE f \in FileNames : TRUE, text |-> NoContent]

\* The containers of the prepared stores: which of the heap they are makes no
\* difference, that no two stores share one does.
Apart(m) == /\ \A s \in Stores : m[s] # NoContainer <=> s \in Prepared
            /\ \A s, r \in Prepared : m[s] = m[r] => s = r
FirstMaps == CHOOSE m \in [Stores -> Containers \cup {NoContainer}] : Apart(m)

ASSUME HeapAssumption == \E m \in [Stores -> Containers \cup {NoContainer}] : Apart(m)

\* After marshal_resources(): one container for each prepared store, with the
\* files that were attached.
MapperInit(attached) ==
  /\ maps = FirstMaps
  /\ content = [c \in Containers |->
                  IF \E m \in Prepared : FirstMaps[m] = c
                  THEN attached[CHOOSE m \in Prepared : FirstMaps[m] = c] ELSE Empty]
  /\ section = [t \in Threads |-> "none"]
  /\ inside = [t \in Threads |-> FALSE]
  /\ call = [t \in Threads |-> NoCall]
  /\ target = [t \in Threads |-> NoContainer]
  /\ answer = [t \in Threads |-> NoContent]

-----------------------------------------------------------------------------
Idle(t) == section[t] = "none"

\* read_mutex, write_mutex or no lock at all.
Mutex(s) ==
  CASE s \in {"probing", "reprobing", "reading"} -> "read"
    [] s \in {"creating", "storing"} -> "write"
    [] OTHER -> "unlocked"

Invoke(t, kind, m, f, v) ==
  /\ Idle(t)
  /\ section' = [section EXCEPT ![t] = "probing"]
  /\ call' = [call EXCEPT ![t] = [kind |-> kind, store |-> m, file |-> f, text |-> v]]
  /\ answer' = [answer EXCEPT ![t] = NoContent]
  /\ UNCHANGED <<maps, content, inside, target>>

Enter(t) ==
  /\ ~Idle(t) /\ ~inside[t]
  /\ Mutex(section[t]) # "unlocked" =>
       \A u \in Threads \ {t} : ~(inside[u] /\ Mutex(section[u]) = Mutex(section[t]))
  /\ inside' = [inside EXCEPT ![t] = TRUE]
  /\ UNCHANGED <<maps, content, section, call, target, answer>>

Leave(t, from, to) ==
  /\ section[t] = from /\ inside[t]
  /\ inside' = [inside EXCEPT ![t] = FALSE]
  /\ section' = [section EXCEPT ![t] = to]
  /\ UNCHANGED call

Present(t) == maps[call[t].store] # NoContainer

\* exists(store), the first thing every operation does.
Probe(t) ==
  /\ Leave(t, "probing",
       IF call[t].kind = "write" THEN IF Present(t) THEN "locating" ELSE "reprobing"
       ELSE IF ~Present(t) THEN "none"
       ELSE IF call[t].kind = "list" THEN "listing" ELSE "reading")
  /\ UNCHANGED <<maps, content, target, answer>>

\* exists(store) again, in create().
Reprobe(t) ==
  /\ Leave(t, "reprobing", IF Present(t) THEN "locating" ELSE "creating")
  /\ UNCHANGED <<maps, content, target, answer>>

\* create(): a new container takes the entry, whatever was there.
Create(t) ==
  /\ Leave(t, "creating", "locating")
  /\ \E c \in Containers :
       /\ \A m \in Stores : maps[m] # c
       /\ maps' = [maps EXCEPT ![call[t].store] = c]
       /\ content' = [content EXCEPT ![c] = Empty]
  /\ UNCHANGED <<target, answer>>

\* write() keeps a raw pointer to the container.
Locate(t) ==
  /\ Leave(t, "locating", "storing")
  /\ target' = [target EXCEPT ![t] = maps[call[t].store]]
  /\ UNCHANGED <<maps, content, answer>>

Store(t) ==
  /\ Leave(t, "storing", "none")
  /\ content' = [content EXCEPT ![target[t]][call[t].file] = call[t].text]
  /\ target' = [target EXCEPT ![t] = NoContainer]
  /\ UNCHANGED <<maps, answer>>

\* read() and exists(store, file).
Read(t) ==
  /\ Leave(t, "reading", "none")
  /\ answer' = [answer EXCEPT ![t] = content[maps[call[t].store]][call[t].file]]
  /\ UNCHANGED <<maps, content, target>>

\* list_keys() walks the container without a lock.
List(t) ==
  /\ Leave(t, "listing", "none")
  /\ UNCHANGED <<maps, content, target, answer>>

MapperStep(t) ==
  Enter(t) \/ Probe(t) \/ Reprobe(t) \/ Create(t) \/ Locate(t) \/ Store(t) \/ Read(t) \/ List(t)

-----------------------------------------------------------------------------
(* What a thread touches while it is inside a section: the outer map of    *)
(* stores, and the container of one store.                                 *)

ChangesStores(t) == inside[t] /\ section[t] = "creating"
UsesStores(t) == inside[t] /\ section[t] # "storing"

ChangesFiles(t, c) == inside[t] /\ section[t] = "storing" /\ target[t] = c
UsesFiles(t, c) ==
  \/ ChangesFiles(t, c)
  \/ /\ inside[t] /\ section[t] \in {"probing", "reprobing", "reading", "listing"}
     /\ maps[call[t].store] = c

\* Two threads in conflicting sections of which neither excludes the other:
\* undefined behaviour of the unordered_map.
Race(t, u) ==
  \/ ChangesStores(t) /\ UsesStores(u)
  \/ \E c \in Containers : ChangesFiles(t, c) /\ UsesFiles(u, c)
=============================================================================
