------------------------- MODULE LoadPipelineProofs -------------------------
(***************************************************************************)
(* What holds of the load pipeline for any stores, files, texts and number *)
(* of imports.                                                             *)
(***************************************************************************)
EXTENDS LoadPipelineInvariant, TLAPS

-----------------------------------------------------------------------------
(* The mapper.                                                             *)

\* What a step of a thread does to the places of the threads.
LEMMA Leaving ==
  ASSUME MapperTypeOK, NEW t \in Threads, NEW from, NEW to \in Section, Leave(t, from, to)
  PROVE  /\ section[t] = from /\ inside[t] /\ ~inside'[t]
         /\ section'[t] = to
         /\ \A u \in Threads : u # t => section'[u] = section[u] /\ inside'[u] = inside[u]
         /\ section' \in [Threads -> Section] /\ inside' \in [Threads -> BOOLEAN]
         /\ call' = call
  BY DEF Leave, MapperTypeOK

LEMMA InvokeKeeps ==
  ASSUME MapperTypeOK, Sections, StoresApart, NEW t \in Threads,
         NEW kind \in {"read", "exists", "list", "write"}, NEW m \in Stores, NEW f \in FileNames,
         NEW v \in Contents \cup {NoContent}, Invoke(t, kind, m, f, v)
  PROVE  /\ MapperTypeOK' /\ Sections' /\ StoresApart'
         /\ Idle(t) /\ section'[t] = "probing" /\ ~inside'[t]
         /\ call'[t] = [kind |-> kind, store |-> m, file |-> f, text |-> v]
         /\ \A u \in Threads : u # t =>
              section'[u] = section[u] /\ call'[u] = call[u] /\ answer'[u] = answer[u]
         /\ UNCHANGED <<maps, content, inside, target>>
  <1> DEFINE c == [kind |-> kind, store |-> m, file |-> f, text |-> v]
  <1>1. c \in Call
    BY DEF Call
  <1>2. /\ section' = [section EXCEPT ![t] = "probing"] /\ call' = [call EXCEPT ![t] = c]
        /\ answer' = [answer EXCEPT ![t] = NoContent] /\ Idle(t)
        /\ UNCHANGED <<maps, content, inside, target>>
    BY DEF Invoke
  <1> HIDE DEF c
  <1>3. MapperTypeOK'
    BY <1>1, <1>2 DEF MapperTypeOK, Section
  <1>4. ~inside[t]
    BY <1>2 DEF Sections
  <1>5. section'[t] = "probing" /\ call'[t] = c
    BY <1>2 DEF MapperTypeOK
  <1>6. \A u \in Threads : u # t =>
          section'[u] = section[u] /\ call'[u] = call[u] /\ answer'[u] = answer[u]
    BY <1>2 DEF MapperTypeOK
  <1>7. Sections'
    BY <1>2, <1>4, <1>5, <1>6 DEF Sections, Idle
  <1>8. StoresApart'
    BY <1>2 DEF StoresApart
  <1> QED
    BY <1>2, <1>3, <1>4, <1>5, <1>6, <1>7, <1>8 DEF c

LEMMA EnterKeeps ==
  ASSUME MapperTypeOK, Sections, StoresApart, NEW t \in Threads, Enter(t)
  PROVE  MapperTypeOK' /\ Sections' /\ StoresApart'
  BY DEF Enter, MapperTypeOK, Sections, StoresApart, Idle

LEMMA ProbeEffect ==
  ASSUME MapperTypeOK, NEW t \in Threads, Probe(t)
  PROVE  \E to \in Section :
           /\ Leave(t, "probing", to)
           /\ UNCHANGED <<maps, content, target, answer>>
           /\ to = IF call[t].kind = "write" THEN IF Present(t) THEN "locating" ELSE "reprobing"
                  ELSE IF ~Present(t) THEN "none"
                  ELSE IF call[t].kind = "list" THEN "listing" ELSE "reading"
  BY DEF Probe, Section

LEMMA ProbeKeeps ==
  ASSUME MapperTypeOK, Sections, StoresApart, NEW t \in Threads, Probe(t)
  PROVE  MapperTypeOK' /\ Sections' /\ StoresApart'
  <1>1. PICK to \in Section :
           /\ Leave(t, "probing", to)
           /\ UNCHANGED <<maps, content, target, answer>>
           /\ to = IF call[t].kind = "write" THEN IF Present(t) THEN "locating" ELSE "reprobing"
                  ELSE IF ~Present(t) THEN "none"
                  ELSE IF call[t].kind = "list" THEN "listing" ELSE "reading"
    BY ProbeEffect
  <1>2. to \in {"locating", "listing", "reading"} => Present(t)
    BY <1>1
  <1>3. to # "storing"
    BY <1>1
  <1> QED
    BY <1>1, <1>2, <1>3, Leaving DEF MapperTypeOK, Sections, StoresApart, Present, Idle

LEMMA ReprobeKeeps ==
  ASSUME MapperTypeOK, Sections, StoresApart, NEW t \in Threads, Reprobe(t)
  PROVE  MapperTypeOK' /\ Sections' /\ StoresApart'
  <1>1. PICK to \in Section :
           /\ Leave(t, "reprobing", to)
           /\ UNCHANGED <<maps, content, target, answer>>
           /\ to = IF Present(t) THEN "locating" ELSE "creating"
    BY DEF Reprobe, Section
  <1> QED
    BY <1>1, Leaving DEF MapperTypeOK, Sections, StoresApart, Present, Idle

LEMMA CreateEffect ==
  ASSUME MapperTypeOK, NEW t \in Threads, Create(t)
  PROVE  \E c \in Containers :
           /\ Leave(t, "creating", "locating") /\ c # NoContainer
           /\ \A m \in Stores : maps[m] # c
           /\ call[t].store \in Stores /\ maps'[call[t].store] = c
           /\ \A m \in Stores : m # call[t].store => maps'[m] = maps[m]
           /\ \A d \in Containers : d # c => content'[d] = content[d]
           /\ maps' \in [Stores -> Containers \cup {NoContainer}]
           /\ content' \in [Containers -> [FileNames -> Contents \cup {NoContent}]]
           /\ UNCHANGED <<target, answer>>
  <1>1. PICK c \in Containers :
           /\ \A m \in Stores : maps[m] # c
           /\ maps' = [maps EXCEPT ![call[t].store] = c]
           /\ content' = [content EXCEPT ![c] = Empty]
    BY DEF Create
  <1>2. call[t].store \in Stores
    BY DEF MapperTypeOK, Call
  <1>3. Empty \in [FileNames -> Contents \cup {NoContent}]
    BY DEF Empty
  <1>4. c # NoContainer
    BY MapperAssumption
  <1> QED
    BY <1>1, <1>2, <1>3, <1>4 DEF Create, MapperTypeOK

LEMMA CreateKeeps ==
  ASSUME MapperTypeOK, Sections, StoresApart, NEW t \in Threads, Create(t)
  PROVE  MapperTypeOK' /\ Sections' /\ StoresApart'
  <1>1. PICK c \in Containers :
           /\ Leave(t, "creating", "locating") /\ c # NoContainer
           /\ \A m \in Stores : maps[m] # c
           /\ call[t].store \in Stores /\ maps'[call[t].store] = c
           /\ \A m \in Stores : m # call[t].store => maps'[m] = maps[m]
           /\ maps' \in [Stores -> Containers \cup {NoContainer}]
           /\ content' \in [Containers -> [FileNames -> Contents \cup {NoContent}]]
           /\ UNCHANGED <<target, answer>>
    BY CreateEffect
  <1>2. "locating" \in Section
    BY DEF Section
  <1>3. /\ section[t] = "creating" /\ inside[t] /\ ~inside'[t]
        /\ section'[t] = "locating"
        /\ \A u \in Threads : u # t => section'[u] = section[u] /\ inside'[u] = inside[u]
        /\ section' \in [Threads -> Section] /\ inside' \in [Threads -> BOOLEAN]
        /\ call' = call
    BY <1>1, <1>2, Leaving
  <1>4. MapperTypeOK'
    BY <1>1, <1>3 DEF MapperTypeOK
  <1>5. StoresApart'
    BY <1>1, MapperAssumption DEF StoresApart
  <1>6. \A m \in Stores : maps[m] # NoContainer => maps'[m] # NoContainer
    BY <1>1
  <1>7. \A u \in Threads : call[u].store \in Stores
    BY DEF MapperTypeOK, Call
  <1>8. Sections'
    BY <1>1, <1>3, <1>6, <1>7 DEF Sections, Idle
  <1> QED
    BY <1>4, <1>5, <1>8

LEMMA LocateKeeps ==
  ASSUME MapperTypeOK, Sections, StoresApart, NEW t \in Threads, Locate(t)
  PROVE  /\ MapperTypeOK' /\ Sections' /\ StoresApart'
         /\ target'[t] = maps[call[t].store]
         /\ \A u \in Threads : u # t => target'[u] = target[u]
         /\ UNCHANGED <<maps, content, answer>>
  <1>1. /\ Leave(t, "locating", "storing")
        /\ target' = [target EXCEPT ![t] = maps[call[t].store]]
        /\ UNCHANGED <<maps, content, answer>>
    BY DEF Locate
  <1>2. "storing" \in Section
    BY DEF Section
  <1>3. call[t].store \in Stores
    BY DEF MapperTypeOK, Call
  <1>4. section[t] = "locating"
    BY <1>1 DEF Leave
  <1>5. maps[call[t].store] # NoContainer
    BY <1>4 DEF Sections
  <1>6. /\ target'[t] = maps[call[t].store]
        /\ \A u \in Threads : u # t => target'[u] = target[u]
        /\ target' \in [Threads -> Containers \cup {NoContainer}]
    BY <1>1, <1>3 DEF MapperTypeOK
  <1> QED
    BY <1>1, <1>2, <1>5, <1>6, Leaving DEF MapperTypeOK, Sections, StoresApart, Idle

LEMMA StoreKeeps ==
  ASSUME MapperTypeOK, Sections, StoresApart, NEW t \in Threads, Store(t)
  PROVE  /\ MapperTypeOK' /\ Sections' /\ StoresApart'
         /\ target[t] \in Containers
         /\ content'[target[t]][call[t].file] = call[t].text
         /\ \A c \in Containers, f \in FileNames :
              c # target[t] \/ f # call[t].file => content'[c][f] = content[c][f]
         /\ \A u \in Threads : u # t => target'[u] = target[u]
         /\ UNCHANGED <<maps, answer>>
  <1>1. /\ Leave(t, "storing", "none")
        /\ content' = [content EXCEPT ![target[t]][call[t].file] = call[t].text]
        /\ target' = [target EXCEPT ![t] = NoContainer]
        /\ UNCHANGED <<maps, answer>>
    BY DEF Store
  <1>2. "none" \in Section
    BY DEF Section
  <1>3. call[t].file \in FileNames /\ call[t].text \in Contents \cup {NoContent}
    BY DEF MapperTypeOK, Call
  <1>4. section[t] = "storing"
    BY <1>1 DEF Leave
  <1>5. target[t] \in Containers
    BY <1>4 DEF Sections, MapperTypeOK
  <1>6. content' \in [Containers -> [FileNames -> Contents \cup {NoContent}]]
    BY <1>1, <1>3, <1>5 DEF MapperTypeOK
  <1>7. /\ content'[target[t]][call[t].file] = call[t].text
        /\ \A c \in Containers, f \in FileNames :
             c # target[t] \/ f # call[t].file => content'[c][f] = content[c][f]
    BY <1>1, <1>3, <1>5 DEF MapperTypeOK
  <1>8. /\ \A u \in Threads : u # t => target'[u] = target[u]
        /\ target' \in [Threads -> Containers \cup {NoContainer}]
    BY <1>1 DEF MapperTypeOK
  <1>9. MapperTypeOK' /\ Sections' /\ StoresApart'
    BY <1>1, <1>2, <1>6, <1>8, Leaving DEF MapperTypeOK, Sections, StoresApart, Idle
  <1> QED
    BY <1>1, <1>5, <1>7, <1>8, <1>9

LEMMA ReadKeeps ==
  ASSUME MapperTypeOK, Sections, StoresApart, NEW t \in Threads, Read(t)
  PROVE  /\ MapperTypeOK' /\ Sections' /\ StoresApart'
         /\ answer'[t] = content[maps[call[t].store]][call[t].file]
         /\ \A u \in Threads : u # t => answer'[u] = answer[u]
         /\ UNCHANGED <<maps, content, target>>
  <1>1. /\ Leave(t, "reading", "none")
        /\ answer' = [answer EXCEPT ![t] = content[maps[call[t].store]][call[t].file]]
        /\ UNCHANGED <<maps, content, target>>
    BY DEF Read
  <1>2. "none" \in Section
    BY DEF Section
  <1>3. call[t].file \in FileNames /\ call[t].store \in Stores
    BY DEF MapperTypeOK, Call
  <1>4. section[t] = "reading"
    BY <1>1 DEF Leave
  <1>5. maps[call[t].store] \in Containers
    BY <1>3, <1>4 DEF Sections, MapperTypeOK
  <1>6. /\ answer'[t] = content[maps[call[t].store]][call[t].file]
        /\ \A u \in Threads : u # t => answer'[u] = answer[u]
        /\ answer' \in [Threads -> Contents \cup {NoContent}]
    BY <1>1, <1>3, <1>5 DEF MapperTypeOK
  <1> QED
    BY <1>1, <1>2, <1>6, Leaving DEF MapperTypeOK, Sections, StoresApart, Idle

LEMMA ListKeeps ==
  ASSUME MapperTypeOK, Sections, StoresApart, NEW t \in Threads, List(t)
  PROVE  MapperTypeOK' /\ Sections' /\ StoresApart'
  <1>1. "none" \in Section
    BY DEF Section
  <1> QED
    BY <1>1, Leaving DEF List, MapperTypeOK, Sections, StoresApart, Idle

LEMMA MapperKeeps ==
  ASSUME MapperTypeOK, Sections, StoresApart, NEW t \in Threads, MapperStep(t)
  PROVE  MapperTypeOK' /\ Sections' /\ StoresApart'
  BY EnterKeeps, ProbeKeeps, ReprobeKeeps, CreateKeeps, LocateKeeps, StoreKeeps, ReadKeeps, ListKeeps
     DEF MapperStep

\* A step of a thread inside the mapper leaves the other thread where it is.
LEMMA MapperFrame ==
  ASSUME MapperTypeOK, NEW t \in Threads, MapperStep(t)
  PROVE  /\ ~Idle(t) /\ call' = call
         /\ \A u \in Threads : u # t =>
              section'[u] = section[u] /\ inside'[u] = inside[u] /\ target'[u] = target[u]
              /\ answer'[u] = answer[u]
  <1> DEFINE Framed ==
         /\ ~Idle(t) /\ call' = call
         /\ \A u \in Threads : u # t =>
              section'[u] = section[u] /\ inside'[u] = inside[u] /\ target'[u] = target[u]
              /\ answer'[u] = answer[u]
  <1>1. CASE Enter(t)
    BY <1>1 DEF Enter, MapperTypeOK
  <1>2. ASSUME NEW from \in Section \ {"none"}, NEW to \in Section, Leave(t, from, to),
               \A u \in Threads : u # t => target'[u] = target[u] /\ answer'[u] = answer[u]
        PROVE  Framed
    BY <1>2, Leaving DEF Idle
  <1>3. CASE Probe(t)
    BY <1>2, <1>3 DEF Probe, Section
  <1>4. CASE Reprobe(t)
    BY <1>2, <1>4 DEF Reprobe, Section
  <1>5. CASE Create(t)
    BY <1>2, <1>5 DEF Create, Section
  <1>6. CASE Locate(t)
    <2>1. \A u \in Threads : u # t => target'[u] = target[u] /\ answer'[u] = answer[u]
      BY <1>6 DEF Locate, MapperTypeOK
    <2> QED BY <1>2, <1>6, <2>1 DEF Locate, Section
  <1>7. CASE Store(t)
    <2>1. \A u \in Threads : u # t => target'[u] = target[u] /\ answer'[u] = answer[u]
      BY <1>7 DEF Store, MapperTypeOK
    <2> QED BY <1>2, <1>7, <2>1 DEF Store, Section
  <1>8. CASE Read(t)
    <2>1. \A u \in Threads : u # t => target'[u] = target[u] /\ answer'[u] = answer[u]
      BY <1>8 DEF Read, MapperTypeOK
    <2> QED BY <1>2, <1>8, <2>1 DEF Read, Section
  <1>9. CASE List(t)
    BY <1>2, <1>9 DEF List, Section
  <1> QED
    BY <1>1, <1>3, <1>4, <1>5, <1>6, <1>7, <1>8, <1>9 DEF MapperStep

\* A call of write() on a store that exists goes from probing to locating to storing.
LEMMA WriteGoesOn ==
  ASSUME MapperTypeOK, Sections, StoresApart, NEW t \in Threads, MapperStep(t),
         call[t].kind = "write", call[t].store \in Prepared,
         section[t] \in {"probing", "locating", "storing"},
         section[t] = "storing" => target[t] = maps[call[t].store]
  PROVE  /\ section'[t] \in {"none", "probing", "locating", "storing"}
         /\ section'[t] = "storing" => target'[t] = maps'[call[t].store]
         /\ UNCHANGED <<maps, answer>>
         /\ content' = content \/ (section[t] = "storing" /\ section'[t] = "none" /\ Store(t))
         /\ section'[t] = "none" => Store(t)
  <1>1. Present(t) /\ t \in DOMAIN section
    BY DEF StoresApart, Present, MapperTypeOK
  <1>2. CASE Enter(t)
    BY <1>2 DEF Enter, Idle
  <1>3. CASE Probe(t)
    <2>1. Leave(t, "probing", "locating") /\ UNCHANGED <<maps, content, target, answer>>
      BY <1>1, <1>3 DEF Probe
    <2>2. section'[t] = "locating"
      BY <2>1 DEF Leave, MapperTypeOK
    <2> QED BY <2>1, <2>2
  <1>4. CASE Reprobe(t) \/ Create(t) \/ Read(t) \/ List(t)
    BY <1>4 DEF Reprobe, Create, Read, List, Leave
  <1>5. CASE Locate(t)
    <2>1. section'[t] = "storing"
      BY <1>5 DEF Locate, Leave, MapperTypeOK
    <2> QED BY <1>5, <2>1, LocateKeeps
  <1>6. CASE Store(t)
    <2>1. section'[t] = "none" /\ section[t] = "storing"
      BY <1>6 DEF Store, Leave, MapperTypeOK
    <2> QED BY <1>6, <2>1, StoreKeeps
  <1> QED
    BY <1>2, <1>3, <1>4, <1>5, <1>6 DEF MapperStep

\* A call that only looks goes from probing to one section more, and changes nothing.
LEMMA LookGoesOn ==
  ASSUME MapperTypeOK, Sections, StoresApart, NEW t \in Threads, MapperStep(t),
         call[t].kind \in {"read", "list"}, call[t].store \in Prepared,
         section[t] \in {"probing", IF call[t].kind = "list" THEN "listing" ELSE "reading"}
  PROVE  /\ section'[t] \in {"none", "probing", IF call[t].kind = "list" THEN "listing" ELSE "reading"}
         /\ UNCHANGED <<maps, content, target>>
         /\ section'[t] = "none" /\ call[t].kind = "read" => Read(t)
  <1>1. Present(t) /\ t \in DOMAIN section
    BY DEF StoresApart, Present, MapperTypeOK
  <1>2. CASE Enter(t)
    BY <1>2 DEF Enter, Idle
  <1>3. CASE Probe(t)
    <2>1. /\ Leave(t, "probing", IF call[t].kind = "list" THEN "listing" ELSE "reading")
          /\ UNCHANGED <<maps, content, target, answer>>
      BY <1>1, <1>3 DEF Probe
    <2>2. section'[t] = IF call[t].kind = "list" THEN "listing" ELSE "reading"
      BY <2>1 DEF Leave, MapperTypeOK
    <2> QED BY <2>1, <2>2
  <1>4. CASE Reprobe(t) \/ Create(t) \/ Locate(t) \/ Store(t)
    BY <1>4 DEF Reprobe, Create, Locate, Store, Leave
  <1>5. CASE Read(t)
    <2>1. section'[t] = "none"
      BY <1>5 DEF Read, Leave, MapperTypeOK
    <2> QED BY <1>5, <2>1 DEF Read
  <1>6. CASE List(t)
    <2>1. section'[t] = "none" /\ section[t] = "listing"
      BY <1>6 DEF List, Leave, MapperTypeOK
    <2> QED BY <1>6, <2>1 DEF List
  <1> QED
    BY <1>2, <1>3, <1>4, <1>5, <1>6 DEF MapperStep

-----------------------------------------------------------------------------
(* The threads take turns.                                                 *)

\* TypeOK without what the mapper keeps.
OwnTypeOK ==
  /\ loader \in {"loading", "storing", "waiting", "reading", "running", "calling", "crashed"}
  /\ server \in {"starting", "listing", "listening", "taken", "reading", "emitting", "crashed"}
  /\ job \in Job
  /\ fetched \in Sources \cup {NoContent}
  /\ libraryRead \in BOOLEAN
  /\ imports \in Nat /\ calls \in Nat

LEMMA StoresKnown ==
  /\ Loader \in Threads /\ Server \in Threads /\ Loader # Server
  /\ Threads = {Loader, Server}
  /\ SourceStore \in Prepared /\ OutputStore \in Prepared /\ LibraryStore \in Prepared
  /\ Prepared \subseteq Stores
  /\ NoFile \in FileNames /\ LibraryFile \in FileNames
  /\ NoFile \in Files /\ Files \subseteq FileNames /\ Normalised \in [Files -> FileNames]
  BY PipelineAssumption, MapperAssumption

LEMMA IInvInit == Init => IInv
  <1> SUFFICES ASSUME Init PROVE IInv
    OBVIOUS
  <1>1. FirstMaps \in [Stores -> Containers \cup {NoContainer}] /\ Apart(FirstMaps)
    BY HeapAssumption DEF FirstMaps
  <1>2. Empty \in [FileNames -> Contents \cup {NoContent}]
    BY DEF Empty
  <1>3. Library \in [Prepared -> [FileNames -> Contents \cup {NoContent}]]
    <2>1. [Empty EXCEPT ![LibraryFile] = LibraryText] \in [FileNames -> Contents \cup {NoContent}]
      BY <1>2, PipelineAssumption
    <2> QED BY <1>2, <2>1 DEF Library
  <1>4. content \in [Containers -> [FileNames -> Contents \cup {NoContent}]]
    <2> SUFFICES ASSUME NEW c \in Containers
                 PROVE  (IF \E m \in Prepared : FirstMaps[m] = c
                         THEN Library[CHOOSE m \in Prepared : FirstMaps[m] = c] ELSE Empty)
                        \in [FileNames -> Contents \cup {NoContent}]
      BY DEF Init, MapperInit
    <2> QED BY <1>2, <1>3
  <1>5. NoCall \in Call
    <2>1. (CHOOSE m \in Stores : TRUE) \in Stores /\ (CHOOSE f \in FileNames : TRUE) \in FileNames
      BY MapperAssumption
    <2> QED BY <2>1 DEF NoCall, Call
  <1>6. MapperTypeOK
    BY <1>1, <1>4, <1>5 DEF Init, MapperInit, MapperTypeOK, Section
  <1>7. TypeOK
    BY <1>6, StoresKnown DEF Init, TypeOK, NoJob, Job
  <1>8. Sections /\ Turns
    BY StoresKnown DEF Init, MapperInit, Sections, Turns, Idle, NoJob
  <1>9. StoresApart
    BY <1>1, MapperAssumption DEF Init, MapperInit, StoresApart, Apart
  <1>10. FirstImport
    BY StoresKnown DEF Init, MapperInit, FirstImport, Idle, NoJob
  <1> QED
    BY <1>7, <1>8, <1>9, <1>10 DEF IInv

\* A step that leaves the mapper alone.
LEMMA MapperStays ==
  ASSUME IInv, UNCHANGED mapperVars
  PROVE  MapperTypeOK' /\ Sections' /\ StoresApart'
  BY DEF IInv, TypeOK, mapperVars, MapperTypeOK, Sections, StoresApart, Idle

LEMMA MapperStepKeeps ==
  ASSUME IInv, NEW t \in Threads, MapperStep(t), UNCHANGED ownVars
  PROVE  IInv'
  <1>1. MapperTypeOK /\ Sections /\ StoresApart
    BY DEF IInv, TypeOK
  <1>2. MapperTypeOK' /\ Sections' /\ StoresApart'
    BY <1>1, MapperKeeps
  <1>3. /\ ~Idle(t) /\ call' = call
        /\ \A u \in Threads : u # t => section'[u] = section[u] /\ target'[u] = target[u]
    BY <1>1, MapperFrame
  <1>4. TypeOK'
    BY <1>2 DEF IInv, TypeOK, ownVars
  <1>5. Turns'
    BY <1>3, StoresKnown DEF IInv, Turns, Idle, ownVars
  <1>6. FirstImport'
    <2> SUFFICES ASSUME server' \in {"starting", "listing"} PROVE FirstImport'
      BY DEF FirstImport
    <2>1. FirstImport /\ server \in {"starting", "listing"}
      BY DEF IInv, ownVars
    <2>2. CASE t = Loader
      <3>1. /\ section'[t] \in {"none", "probing", "locating", "storing"}
            /\ section'[t] = "storing" => target'[t] = maps'[call[t].store]
            /\ maps' = maps
        BY <1>1, <1>3, <2>1, <2>2, WriteGoesOn, StoresKnown DEF FirstImport
      <3> QED
        BY <1>3, <2>1, <2>2, <3>1, StoresKnown DEF FirstImport, ownVars, Idle
    <2>3. CASE t = Server
      <3>1. section'[t] \in {"none", "probing", "listing"} /\ maps' = maps
        BY <1>1, <1>3, <2>1, <2>3, LookGoesOn, StoresKnown DEF FirstImport
      <3> QED
        BY <1>3, <2>1, <2>3, <3>1, StoresKnown DEF FirstImport, ownVars, Idle
    <2> QED BY <2>2, <2>3, StoresKnown
  <1> QED
    BY <1>2, <1>4, <1>5, <1>6 DEF IInv

\* A call of the mapper by the loader.
LEMMA LoaderCalls ==
  ASSUME IInv, OwnTypeOK', NEW kind \in {"read", "exists", "list", "write"}, NEW m \in Stores,
         NEW f \in FileNames, NEW v \in Contents \cup {NoContent}, Invoke(Loader, kind, m, f, v),
         loader' \in {"storing", "reading", "calling"}, server' = server,
         job'.state \notin {"pending", "lost"}, job.state \notin {"pending", "lost"}, FirstImport'
  PROVE  IInv'
  <1>1. /\ MapperTypeOK' /\ Sections' /\ StoresApart'
        /\ \A u \in Threads : u # Loader => section'[u] = section[u]
    BY InvokeKeeps, StoresKnown DEF IInv, TypeOK
  <1>2. TypeOK'
    BY <1>1 DEF OwnTypeOK, TypeOK
  <1>3. Turns'
    BY <1>1, StoresKnown DEF IInv, Turns, Idle
  <1> QED
    BY <1>1, <1>2, <1>3 DEF IInv

LEMMA FetchKeeps ==
  ASSUME IInv, NEW f \in Files, NEW v \in Sources, Fetch(f, v)
  PROVE  IInv'
  <1>1. v \in Contents \cup {NoContent} /\ SourceStore \in Stores /\ f \in FileNames
    BY PipelineAssumption, StoresKnown
  <1>2. job' = [NoJob EXCEPT !.file = f] /\ NoJob \in Job
    BY StoresKnown DEF Fetch, NoJob, Job
  <1>3. job' \in Job /\ job'.state = "none"
    BY <1>2 DEF Job, NoJob
  <1>4. OwnTypeOK'
    BY <1>3 DEF Fetch, IInv, TypeOK, OwnTypeOK
  <1>5. job.state \notin {"pending", "lost"}
    BY DEF Fetch, IInv, Turns
  <1>6. /\ section'[Loader] = "probing"
        /\ call'[Loader] = [kind |-> "write", store |-> SourceStore, file |-> f, text |-> v]
        /\ section'[Server] = section[Server] /\ call'[Server] = call[Server]
    BY <1>1, InvokeKeeps, StoresKnown DEF Fetch, IInv, TypeOK
  <1>7. FirstImport'
    BY <1>3, <1>6 DEF Fetch, FirstImport, Idle, IInv
  <1> QED
    BY <1>1, <1>3, <1>4, <1>5, <1>7, LoaderCalls DEF Fetch

LEMMA AskOutputKeeps ==
  ASSUME IInv, AskOutput
  PROVE  IInv'
  <1>1. job.state = "answered" /\ job.egress \in FileNames /\ OutputStore \in Stores
    BY StoresKnown DEF AskOutput, Answered, IInv, TypeOK, Job
  <1>2. OwnTypeOK'
    BY DEF AskOutput, IInv, TypeOK, OwnTypeOK
  <1>3. FirstImport'
    BY <1>1 DEF AskOutput, FirstImport, IInv
  <1> QED
    BY <1>1, <1>2, <1>3, LoaderCalls DEF AskOutput

LEMMA ScriptCallKeeps ==
  ASSUME IInv, NEW kind \in {"read", "exists", "list", "write"}, NEW m \in Stores,
         NEW f \in FileNames, ScriptCall(kind, m, f)
  PROVE  IInv'
  <1>1. ScriptText \in Contents \cup {NoContent}
    BY PipelineAssumption
  <1>2. OwnTypeOK'
    BY DEF ScriptCall, IInv, TypeOK, OwnTypeOK
  <1>3. job.state \notin {"pending", "lost"} /\ FirstImport'
    BY DEF ScriptCall, FirstImport, IInv, Turns
  <1> QED
    BY <1>1, <1>2, <1>3, LoaderCalls DEF ScriptCall

\* A call of the mapper by the server.
LEMMA ServerCalls ==
  ASSUME IInv, OwnTypeOK', NEW kind \in {"read", "exists", "list", "write"}, NEW m \in Stores,
         NEW f \in FileNames, NEW v \in Contents \cup {NoContent}, Invoke(Server, kind, m, f, v),
         server' \in {"listing", "taken", "reading", "emitting"}, loader' = loader,
         job'.state = job.state, job'.file = job.file,
         server' = "listing" \/ job.state = "pending", FirstImport'
  PROVE  IInv'
  <1>1. /\ MapperTypeOK' /\ Sections' /\ StoresApart'
        /\ \A u \in Threads : u # Server => section'[u] = section[u]
    BY InvokeKeeps, StoresKnown DEF IInv, TypeOK
  <1>2. TypeOK'
    BY <1>1 DEF OwnTypeOK, TypeOK
  <1>3. Turns'
    BY <1>1, StoresKnown DEF IInv, Turns, Idle
  <1> QED
    BY <1>1, <1>2, <1>3 DEF IInv

LEMMA ServerKeeps ==
  ASSUME IInv, ListLibrary \/ ReadLibrary \/ ReadSource \/ Emit
  PROVE  IInv'
  <1>1. CASE ListLibrary
    <2>1. OwnTypeOK'
      BY <1>1 DEF ListLibrary, IInv, TypeOK, OwnTypeOK
    <2>2. /\ section'[Server] = "probing"
          /\ call'[Server] = [kind |-> "list", store |-> LibraryStore, file |-> NoFile, text |-> NoContent]
          /\ section'[Loader] = section[Loader] /\ call'[Loader] = call[Loader]
          /\ UNCHANGED <<maps, target>>
      BY <1>1, InvokeKeeps, StoresKnown DEF ListLibrary, IInv, TypeOK
    <2>3. FirstImport'
      BY <1>1, <2>2 DEF ListLibrary, FirstImport, Idle, IInv
    <2> QED
      BY <1>1, <2>1, <2>3, ServerCalls, StoresKnown DEF ListLibrary
  <1>2. CASE ReadLibrary
    <2>1. OwnTypeOK' /\ FirstImport' /\ job.state = "pending"
      BY <1>2 DEF ReadLibrary, IInv, TypeOK, OwnTypeOK, FirstImport, Turns
    <2> QED
      BY <1>2, <2>1, ServerCalls, StoresKnown DEF ReadLibrary
  <1>3. CASE ReadSource
    <2>1. OwnTypeOK' /\ FirstImport' /\ job.state = "pending" /\ job.file \in Files
      BY <1>3 DEF ReadSource, IInv, TypeOK, OwnTypeOK, FirstImport, Turns, Job
    <2>2. Normalised[job.file] \in FileNames
      BY <2>1, StoresKnown
    <2> QED
      BY <1>3, <2>1, <2>2, ServerCalls, StoresKnown DEF ReadSource
  <1>4. CASE Emit
    <2>1. job.state = "pending" /\ job \in Job /\ job.file \in Files
      BY <1>4 DEF Emit, IInv, TypeOK, Turns, Job
    <2>2. EgressName[job.file] \in FileNames /\ Output[answer[Server]] \in Contents \cup {NoContent}
      BY <1>4, <2>1, PipelineAssumption DEF Emit
    <2>3. job' \in Job /\ job'.state = job.state
      BY <1>4, <2>1, <2>2 DEF Emit, Job
    <2>4. OwnTypeOK' /\ FirstImport'
      BY <1>4, <2>3 DEF Emit, IInv, TypeOK, OwnTypeOK, FirstImport
    <2> QED
      BY <1>4, <2>1, <2>2, <2>3, <2>4, ServerCalls, StoresKnown DEF Emit
  <1> QED
    BY <1>1, <1>2, <1>3, <1>4

\* The steps of the threads outside the mapper.
LEMMA OutsideKeeps ==
  ASSUME IInv, Submit \/ UseOutput \/ Run \/ ScriptReturn \/ Listen \/ Take \/ ReadNothing \/ Skip \/ Throw \/ Complete
  PROVE  IInv'
  <1>1. UNCHANGED mapperVars
    BY DEF Submit, UseOutput, Run, ScriptReturn, Listen, Take, ReadNothing, Skip, Throw, Complete
  <1>2. MapperTypeOK' /\ Sections' /\ StoresApart'
    BY <1>1, MapperStays
  <1>3. job' \in Job /\ job'.file = job.file
    BY DEF Submit, UseOutput, Run, ScriptReturn, Listen, Take, ReadNothing, Skip, Throw, Complete, IInv, TypeOK, Job
  <1>4. TypeOK'
    BY <1>2, <1>3 DEF Submit, UseOutput, Run, ScriptReturn, Listen, Take, ReadNothing, Skip, Throw, Complete, IInv, TypeOK
  <1>5. UNCHANGED <<section, call, maps, target>>
    BY <1>1 DEF mapperVars
  <1>6. job \in Job
    BY DEF IInv, TypeOK
  <1>7. CASE Submit
    BY <1>2, <1>4, <1>5, <1>6, <1>7 DEF Submit, Stored, IInv, Turns, FirstImport, Idle, Job
  <1>8. CASE UseOutput
    BY <1>2, <1>4, <1>5, <1>6, <1>8 DEF UseOutput, IInv, Turns, FirstImport, Idle, Job
  <1>9. CASE Run
    BY <1>2, <1>4, <1>5, <1>9 DEF Run, IInv, TypeOK, Turns, FirstImport, Idle
  <1>10. CASE ScriptReturn
    BY <1>2, <1>4, <1>5, <1>10 DEF ScriptReturn, IInv, Turns, FirstImport, Idle
  <1>11. CASE Listen
    BY <1>2, <1>4, <1>5, <1>11 DEF Listen, IInv, Turns, FirstImport, Idle
  <1>12. CASE Take
    BY <1>2, <1>4, <1>5, <1>12 DEF Take, IInv, Turns, FirstImport, Idle
  <1>13. CASE Skip
    BY <1>2, <1>4, <1>5, <1>13 DEF Skip, IInv, Turns, FirstImport, Idle
  <1>14. CASE Complete
    BY <1>2, <1>4, <1>5, <1>6, <1>14 DEF Complete, IInv, Turns, FirstImport, Idle, Job
  <1>15. CASE ReadNothing
    BY <1>2, <1>4, <1>5, <1>15 DEF ReadNothing, IInv, Turns, FirstImport, Idle
  <1>16. CASE Throw
    BY <1>2, <1>4, <1>5, <1>6, <1>16 DEF Throw, IInv, Turns, FirstImport, Idle, Job
  <1> QED
    BY <1>7, <1>8, <1>9, <1>10, <1>11, <1>12, <1>13, <1>14, <1>15, <1>16

LEMMA IInvNext == ASSUME IInv, [Next]_vars PROVE IInv'
  <1>1. CASE \E f \in Files, v \in Sources : Fetch(f, v)
    BY <1>1, FetchKeeps
  <1>2. CASE AskOutput
    BY <1>2, AskOutputKeeps
  <1>3. CASE \E kind \in {"read", "exists", "list", "write"}, m \in Stores, f \in FileNames :
               ScriptCall(kind, m, f)
    BY <1>3, ScriptCallKeeps
  <1>4. CASE ListLibrary \/ ReadLibrary \/ ReadSource \/ Emit
    BY <1>4, ServerKeeps
  <1>5. CASE Submit \/ UseOutput \/ Run \/ ScriptReturn \/ Listen \/ Take \/ ReadNothing \/ Skip \/ Throw \/ Complete
    BY <1>5, OutsideKeeps
  <1>6. CASE \E t \in Threads : MapperStep(t) /\ UNCHANGED ownVars
    BY <1>6, MapperStepKeeps
  <1>7. CASE UNCHANGED vars
    <2>1. UNCHANGED mapperVars /\ UNCHANGED ownVars
      BY <1>7 DEF vars
    <2>2. MapperTypeOK' /\ Sections' /\ StoresApart'
      BY <2>1, MapperStays
    <2> QED
      BY <2>1, <2>2 DEF mapperVars, ownVars, IInv, TypeOK, Turns, FirstImport, Idle
  <1> QED
    BY <1>1, <1>2, <1>3, <1>4, <1>5, <1>6, <1>7 DEF Next, LoaderStep, ServerStep

\* The two threads take turns.
THEOREM PipelineInvariance == Spec => []IInv
  BY IInvInit, IInvNext, PTL DEF Spec

\* Stores, jobs and the places of the threads have their types.
COROLLARY PipelineTypeCorrect == Spec => []TypeOK
  <1>1. IInv => TypeOK
    BY DEF IInv
  <1> QED
    BY <1>1, PipelineInvariance, PTL

LEMMA Alternate ==
  ASSUME IInv, ~Idle(Loader), ~Idle(Server)
  PROVE  server \in {"starting", "listing"}
  BY DEF IInv, Turns

LEMMA NoRaceHolds == ASSUME IInv PROVE NoRace
  <1> SUFFICES ASSUME NEW t \in Threads, NEW u \in Threads, t # u, Race(t, u) PROVE FALSE
    BY DEF NoRace
  <1>1. inside[t] /\ inside[u]
    BY DEF Race, ChangesStores, UsesStores, ChangesFiles, UsesFiles
  <1>2. ~Idle(Loader) /\ ~Idle(Server)
    BY <1>1, StoresKnown DEF IInv, Sections
  <1>3. FirstImport /\ server \in {"starting", "listing"}
    BY <1>2, Alternate DEF IInv
  <1>4. t = Loader /\ u = Server /\ section[t] = "storing"
    BY <1>2, <1>3, StoresKnown DEF FirstImport, Race, ChangesStores, ChangesFiles
  <1>5. maps[SourceStore] = maps[LibraryStore] /\ maps[SourceStore] # NoContainer
    BY <1>2, <1>3, <1>4, StoresKnown DEF FirstImport, Race, ChangesStores, ChangesFiles, UsesFiles, IInv, StoresApart
  <1> QED
    BY <1>5, StoresKnown, PipelineAssumption DEF IInv, StoresApart

\* Neither mutex keeps a reader from a writer, and no two threads race: they take turns.
THEOREM NoDataRace == Spec => []NoRace
  BY NoRaceHolds, PipelineInvariance, PTL

-----------------------------------------------------------------------------
(* The texts: every import gets the output of its own text.                *)

\* A step of a write() whose store exists: it changes that file only.
LEMMA WritingStep ==
  ASSUME MapperTypeOK, Sections, StoresApart, NEW t \in Threads, MapperStep(t),
         NEW m \in Prepared, NEW f, NEW v, Writing(t, m, f, v)
  PROVE  /\ UNCHANGED <<maps, answer>> /\ call'[t] = call[t]
         /\ section'[t] \in {"none", "probing", "locating", "storing"}
         /\ section'[t] = "storing" => target'[t] = maps'[m]
         /\ section'[t] = "none" => content'[maps[m]][f] = v
         /\ section'[t] # "none" => content' = content
         /\ \A n \in Prepared, g \in FileNames :
              n # m \/ g # f => content'[maps[n]][g] = content[maps[n]][g]
  <1>1. /\ call[t].kind = "write" /\ call[t].store = m /\ call[t].file = f /\ call[t].text = v
        /\ section[t] \in {"probing", "locating", "storing"}
        /\ section[t] = "storing" => target[t] = maps[m]
    BY DEF Writing
  <1>2. call' = call
    BY MapperFrame
  <1>3. /\ section'[t] \in {"none", "probing", "locating", "storing"}
        /\ section'[t] = "storing" => target'[t] = maps'[m]
        /\ UNCHANGED <<maps, answer>>
        /\ content' = content \/ (section[t] = "storing" /\ section'[t] = "none" /\ Store(t))
        /\ section'[t] = "none" => Store(t)
    BY <1>1, WriteGoesOn
  <1>4. CASE section'[t] = "none"
    <2>1. Store(t) /\ section[t] = "storing"
      BY <1>3, <1>4 DEF Store, Leave
    <2>2. /\ content'[target[t]][call[t].file] = call[t].text
          /\ \A c \in Containers, g \in FileNames :
               c # target[t] \/ g # call[t].file => content'[c][g] = content[c][g]
      BY <2>1, StoreKeeps
    <2>3. target[t] = maps[m]
      BY <1>1, <2>1
    <2>4. \A n \in Prepared : maps[n] \in Containers /\ (n # m => maps[n] # maps[m])
      BY MapperAssumption DEF StoresApart, MapperTypeOK
    <2> QED
      BY <1>1, <1>2, <1>3, <1>4, <2>2, <2>3, <2>4
  <1>5. CASE section'[t] # "none"
    BY <1>1, <1>2, <1>3, <1>5
  <1> QED
    BY <1>4, <1>5

\* A step of a read() whose store exists: it changes no file, and answers with the file.
LEMMA LookingStep ==
  ASSUME MapperTypeOK, Sections, StoresApart, NEW t \in Threads, MapperStep(t),
         NEW m \in Prepared, NEW f, Looking(t, m, f)
  PROVE  /\ UNCHANGED <<maps, content>> /\ call'[t] = call[t]
         /\ section'[t] \in {"none", "probing", "reading"}
         /\ section'[t] = "none" => answer'[t] = content[maps[m]][f]
  <1>1. /\ call[t].kind = "read" /\ call[t].store = m /\ call[t].file = f
        /\ section[t] \in {"probing", "reading"}
    BY DEF Looking
  <1>2. call' = call
    BY MapperFrame
  <1>3. /\ section'[t] \in {"none", "probing", "reading"}
        /\ UNCHANGED <<maps, content, target>>
        /\ section'[t] = "none" => Read(t)
    BY <1>1, LookGoesOn
  <1>4. Read(t) => answer'[t] = content[maps[call[t].store]][call[t].file]
    BY ReadKeeps
  <1> QED
    BY <1>1, <1>2, <1>3, <1>4

-----------------------------------------------------------------------------
(* The steps inside the mapper.                                            *)

\* Where the two threads are while one of them is inside the mapper.
LEMMA Places ==
  ASSUME IInv, Texts
  PROVE  /\ job.file \in Files /\ job.file \in FileNames /\ Normalised[job.file] \in FileNames
         /\ job.egress \in FileNames /\ NoFile \in FileNames
         /\ server \in {"taken", "reading", "emitting"} => job.state = "pending" /\ loader = "waiting"
         /\ loader = "waiting" => Idle(Loader)
         /\ ~Idle(Loader) => loader \in {"storing", "reading", "calling"}
         /\ ~Idle(Server) => server \in {"listing", "taken", "reading", "emitting"}
         /\ loader = "reading" => job.state = "answered" /\ server = "listening" /\ Idle(Server)
         /\ job.state = "answered" => server = "listening" /\ Idle(Server)
  <1>1. /\ job.file \in Files /\ job.egress \in FileNames
        /\ server \in {"starting", "listing", "listening", "taken", "reading", "emitting", "crashed"}
    BY DEF IInv, TypeOK, Job
  <1>2. job.state = "answered" => server = "listening" /\ Idle(Server)
    BY <1>1 DEF IInv, Turns, FirstImport
  <1>3. /\ job.file \in FileNames /\ Normalised[job.file] \in FileNames /\ NoFile \in FileNames
    BY <1>1, StoresKnown
  <1> QED
    BY <1>1, <1>2, <1>3 DEF IInv, Turns, Texts, Import

LEMMA LoaderInside ==
  ASSUME IInv, Texts, MapperStep(Loader), UNCHANGED ownVars
  PROVE  Texts'
  <1>1. MapperTypeOK /\ Sections /\ StoresApart
    BY DEF IInv, TypeOK
  <1>2. /\ ~Idle(Loader) /\ call' = call /\ section'[Server] = section[Server]
        /\ answer'[Server] = answer[Server] /\ target'[Server] = target[Server]
    BY <1>1, MapperFrame, StoresKnown
  <1>3. loader \in {"storing", "reading", "calling"} /\ job.state # "pending"
        /\ server \notin {"taken", "reading", "emitting"}
    BY <1>2, Places DEF IInv, Turns
  <1>4. Import'
    BY DEF Texts, Import, ownVars
  <1>5. CASE loader = "storing"
    <2>1. Writing(Loader, SourceStore, job.file, fetched) /\ Holds(OutputStore, NoFile, NoContent)
          /\ job.state # "answered"
      BY <1>2, <1>5 DEF Texts, SourceText, OutputText, Import
    <2>2. /\ UNCHANGED maps
          /\ section'[Loader] \in {"none", "probing", "locating", "storing"}
          /\ section'[Loader] = "storing" => target'[Loader] = maps'[SourceStore]
          /\ section'[Loader] = "none" => content'[maps[SourceStore]][job.file] = fetched
          /\ content'[maps[OutputStore]][NoFile] = content[maps[OutputStore]][NoFile]
      BY <1>1, <2>1, WritingStep, StoresKnown, PipelineAssumption
    <2>3. SourceText'
      BY <1>2, <1>3, <1>5, <2>1, <2>2 DEF SourceText, Holds, Writing, Idle, ownVars
    <2>4. OutputText'
      BY <1>3, <1>5, <2>1, <2>2 DEF OutputText, Holds, ownVars
    <2> QED
      BY <1>4, <2>3, <2>4 DEF Texts
  <1>6. CASE loader = "reading"
    <2>1. /\ Looking(Loader, OutputStore, job.egress) /\ Holds(OutputStore, NoFile, NoContent)
          /\ Holds(OutputStore, job.egress, EgressText) /\ job.state = "answered"
      BY <1>2, <1>6 DEF Texts, OutputText, Import
    <2>2. /\ UNCHANGED <<maps, content>>
          /\ section'[Loader] \in {"none", "probing", "reading"}
          /\ section'[Loader] = "none" => answer'[Loader] = content[maps[OutputStore]][job.egress]
      BY <1>1, <2>1, LookingStep, StoresKnown
    <2>3. SourceText'
      BY <1>3, <1>6, <2>2 DEF Texts, SourceText, Holds, ownVars
    <2>4. OutputText'
      BY <1>2, <1>3, <1>6, <2>1, <2>2 DEF OutputText, Holds, Looking, EgressText, Seen, Idle, ownVars
    <2> QED
      BY <1>4, <2>3, <2>4 DEF Texts
  <1>7. CASE loader = "calling"
    BY <1>3, <1>4, <1>7 DEF Texts, Import, SourceText, OutputText, ownVars
  <1> QED
    BY <1>3, <1>5, <1>6, <1>7

LEMMA ServerInside ==
  ASSUME IInv, Texts, MapperStep(Server), UNCHANGED ownVars
  PROVE  Texts'
  <1>1. MapperTypeOK /\ Sections /\ StoresApart
    BY DEF IInv, TypeOK
  <1>2. /\ ~Idle(Server) /\ call' = call /\ section'[Loader] = section[Loader]
        /\ answer'[Loader] = answer[Loader] /\ target'[Loader] = target[Loader]
    BY <1>1, MapperFrame, StoresKnown
  <1>3. server \in {"listing", "taken", "reading", "emitting"} /\ job.state # "answered" /\ loader # "reading"
    BY <1>2, Places
  <1>4. Import'
    BY DEF Texts, Import, ownVars
  <1>5. CASE server = "listing"
    <2>1. call[Server].kind = "list" /\ call[Server].store = LibraryStore
          /\ section[Server] \in {"probing", "listing"}
      BY <1>2, <1>5 DEF IInv, FirstImport
    <2>2. UNCHANGED <<maps, content>>
      BY <1>1, <2>1, LookGoesOn, StoresKnown
    <2> QED
      BY <1>2, <1>3, <1>4, <1>5, <2>2
      DEF Texts, SourceText, OutputText, Holds, Writing, Looking, EgressText, Seen, Idle, ownVars
  <1>6. CASE server = "taken"
    <2>1. Looking(Server, LibraryStore, LibraryFile)
      BY <1>2, <1>6 DEF Texts, SourceText
    <2>2. UNCHANGED <<maps, content>> /\ section'[Server] \in {"none", "probing", "reading"}
      BY <1>1, <2>1, LookingStep, StoresKnown
    <2> QED
      BY <1>2, <1>3, <1>4, <1>6, <2>1, <2>2
      DEF Texts, SourceText, OutputText, Holds, Writing, Looking, EgressText, Seen, Idle, ownVars
  <1>7. CASE server = "reading"
    <2>1. Looking(Server, SourceStore, Normalised[job.file]) /\ loader = "waiting"
          /\ Holds(SourceStore, job.file, fetched)
      BY <1>2, <1>7, Places DEF Texts, SourceText
    <2>2. /\ UNCHANGED <<maps, content>> /\ section'[Server] \in {"none", "probing", "reading"}
          /\ section'[Server] = "none" => answer'[Server] = Seen
      BY <1>1, <2>1, LookingStep, StoresKnown DEF Seen
    <2> QED
      BY <1>2, <1>3, <1>4, <1>7, <2>1, <2>2
      DEF Texts, SourceText, OutputText, Holds, Writing, Looking, EgressText, Seen, Idle, ownVars
  <1>8. CASE server = "emitting"
    <2>1. /\ Writing(Server, OutputStore, job.egress, Output[Seen]) /\ job.egress # NoFile
          /\ loader = "waiting" /\ Holds(SourceStore, job.file, fetched) /\ Holds(OutputStore, NoFile, NoContent)
          /\ job.file \in FileNames /\ Normalised[job.file] \in FileNames /\ NoFile \in FileNames
      BY <1>2, <1>8, Places DEF Texts, SourceText, OutputText
    <2>2. /\ UNCHANGED maps
          /\ section'[Server] \in {"none", "probing", "locating", "storing"}
          /\ section'[Server] = "storing" => target'[Server] = maps'[OutputStore]
          /\ section'[Server] = "none" => content'[maps[OutputStore]][job.egress] = Output[Seen]
          /\ content'[maps[OutputStore]][NoFile] = content[maps[OutputStore]][NoFile]
          /\ content'[maps[SourceStore]][job.file] = content[maps[SourceStore]][job.file]
          /\ content'[maps[SourceStore]][Normalised[job.file]]
               = content[maps[SourceStore]][Normalised[job.file]]
      BY <1>1, <2>1, WritingStep, StoresKnown, PipelineAssumption
    <2>5. Seen' = Seen
      BY <2>2 DEF Seen, ownVars
    <2>3. SourceText'
      BY <1>8, <2>1, <2>2 DEF SourceText, Holds, ownVars
    <2>4. OutputText'
      BY <1>2, <1>3, <1>8, <2>1, <2>2, <2>5 DEF OutputText, Holds, Writing, EgressText, Idle, ownVars
    <2> QED
      BY <1>4, <2>3, <2>4 DEF Texts
  <1> QED
    BY <1>3, <1>5, <1>6, <1>7, <1>8

-----------------------------------------------------------------------------
(* The steps outside the mapper.                                           *)

LEMMA TextsInit == ASSUME Init PROVE Texts
  <1>1. FirstMaps \in [Stores -> Containers \cup {NoContainer}] /\ Apart(FirstMaps)
    BY HeapAssumption DEF FirstMaps
  <1>2. /\ FirstMaps[OutputStore] \in Containers
        /\ \A m \in Prepared : FirstMaps[m] = FirstMaps[OutputStore] <=> m = OutputStore
    BY <1>1, StoresKnown DEF Apart
  <1>3. (CHOOSE m \in Prepared : FirstMaps[m] = FirstMaps[OutputStore]) = OutputStore
    BY <1>2, StoresKnown
  <1>4. content[FirstMaps[OutputStore]] = Library[OutputStore]
    BY <1>2, <1>3, StoresKnown DEF Init, MapperInit
  <1>5. Library[OutputStore] = Empty
    BY StoresKnown, PipelineAssumption DEF Library
  <1>6. Holds(OutputStore, NoFile, NoContent)
    BY <1>4, <1>5, StoresKnown DEF Init, MapperInit, Holds, Empty
  <1> QED
    BY <1>6, StoresKnown
    DEF Init, MapperInit, NoJob, Idle, Texts, Import, SourceText, OutputText

\* A call leaves the stores, and what the other thread does, as they are.
LEMMA CallFrame ==
  ASSUME IInv, NEW t \in Threads, NEW kind \in {"read", "exists", "list", "write"}, NEW m \in Stores,
         NEW f \in FileNames, NEW v \in Contents \cup {NoContent}, Invoke(t, kind, m, f, v)
  PROVE  /\ UNCHANGED <<maps, content, target>> /\ Idle(t)
         /\ section'[t] = "probing"
         /\ call'[t] = [kind |-> kind, store |-> m, file |-> f, text |-> v]
         /\ \A u \in Threads : u # t =>
              section'[u] = section[u] /\ call'[u] = call[u] /\ answer'[u] = answer[u]
  BY InvokeKeeps DEF IInv, TypeOK

LEMMA LoaderTexts ==
  ASSUME IInv, Texts
  PROVE  /\ \A f \in Files, v \in Sources : Fetch(f, v) => Texts'
         /\ AskOutput => Texts'
         /\ \A kind \in {"read", "exists", "list", "write"}, m \in Stores, f \in FileNames :
              ScriptCall(kind, m, f) => Texts'
  <1>1. ASSUME NEW f \in Files, NEW v \in Sources, Fetch(f, v) PROVE Texts'
    <2>1. /\ v \in Contents \cup {NoContent} /\ f \in FileNames
          /\ Invoke(Loader, "write", SourceStore, f, v)
      BY <1>1, PipelineAssumption DEF Fetch
    <2>2. /\ UNCHANGED <<maps, content, target>> /\ section'[Loader] = "probing"
          /\ call'[Loader] = [kind |-> "write", store |-> SourceStore, file |-> f, text |-> v]
          /\ section'[Server] = section[Server] /\ call'[Server] = call[Server]
      BY <2>1, CallFrame, StoresKnown
    <2>3. /\ loader = "loading" /\ loader' = "storing" /\ server' = server /\ fetched' = v
          /\ job'.state = "none" /\ job'.file = f /\ job'.egress = NoFile
      BY <1>1 DEF Fetch, NoJob
    <2>4. server \notin {"taken", "reading", "emitting"}
      BY <2>3, Places
    <2> QED
      BY <2>2, <2>3, <2>4 DEF Texts, Import, SourceText, OutputText, Holds, Writing, Idle
  <1>2. ASSUME AskOutput PROVE Texts'
    <2>1. /\ loader = "waiting" /\ loader' = "reading" /\ UNCHANGED <<server, job, fetched>>
          /\ Invoke(Loader, "read", OutputStore, job.egress, NoContent) /\ job.state = "answered"
      BY <1>2 DEF AskOutput, Answered
    <2>2. /\ UNCHANGED <<maps, content, target>> /\ section'[Loader] = "probing"
          /\ call'[Loader] = [kind |-> "read", store |-> OutputStore, file |-> job.egress, text |-> NoContent]
      BY <2>1, CallFrame, StoresKnown, Places
    <2>3. server = "listening" /\ fetched \in Sources
      BY <2>1, Places DEF Texts, Import
    <2> QED
      BY <2>1, <2>2, <2>3 DEF Texts, Import, SourceText, OutputText, EgressText, Seen, Holds, Looking, Idle
  <1>3. ASSUME NEW kind \in {"read", "exists", "list", "write"}, NEW m \in Stores, NEW f \in FileNames,
               ScriptCall(kind, m, f)
        PROVE  Texts'
    <2>1. loader = "running" /\ loader' = "calling" /\ UNCHANGED <<server, job, fetched>>
      BY <1>3 DEF ScriptCall
    <2>2. server \notin {"taken", "reading", "emitting"} /\ job.state \notin {"pending", "answered"}
      BY <2>1, Places DEF IInv, Turns, Texts, Import
    <2> QED
      BY <2>1, <2>2 DEF Texts, Import, SourceText, OutputText
  <1> QED
    BY <1>1, <1>2, <1>3

LEMMA ServerTexts ==
  ASSUME IInv, Texts, ListLibrary \/ ReadLibrary \/ ReadSource \/ Emit
  PROVE  Texts'
  <1>1. CASE ListLibrary
    <2>1. Invoke(Server, "list", LibraryStore, NoFile, NoContent) /\ server' = "listing"
          /\ UNCHANGED <<loader, job, fetched>> /\ server = "starting"
      BY <1>1 DEF ListLibrary
    <2>2. /\ UNCHANGED <<maps, content, target>> /\ section'[Loader] = section[Loader]
          /\ call'[Loader] = call[Loader] /\ answer'[Loader] = answer[Loader]
      BY <2>1, CallFrame, StoresKnown
    <2>3. loader # "reading" /\ job.state # "answered"
      BY <2>1, Places
    <2> QED
      BY <2>1, <2>2, <2>3 DEF Texts, Import, SourceText, OutputText, Holds, Writing, Idle
  <1>2. CASE ReadLibrary
    <2>1. Invoke(Server, "read", LibraryStore, LibraryFile, NoContent) /\ server = "taken" /\ server' = "taken"
          /\ UNCHANGED <<loader, job, fetched>>
      BY <1>2 DEF ReadLibrary
    <2>2. /\ UNCHANGED <<maps, content, target>> /\ section'[Server] = "probing"
          /\ call'[Server] = [kind |-> "read", store |-> LibraryStore, file |-> LibraryFile, text |-> NoContent]
      BY <2>1, CallFrame, StoresKnown
    <2>3. loader = "waiting" /\ job.state = "pending"
      BY <2>1, Places
    <2> QED
      BY <2>1, <2>2, <2>3 DEF Texts, Import, SourceText, OutputText, Holds, Looking, Idle
  <1>3. CASE ReadSource
    <2>1. /\ Invoke(Server, "read", SourceStore, Normalised[job.file], NoContent)
          /\ server = "taken" /\ server' = "reading"
          /\ UNCHANGED <<loader, job, fetched>> /\ Normalised[job.file] \in FileNames
      BY <1>3, Places DEF ReadSource
    <2>2. /\ UNCHANGED <<maps, content, target>> /\ section'[Server] = "probing"
          /\ call'[Server] = [kind |-> "read", store |-> SourceStore, file |-> Normalised[job.file],
                              text |-> NoContent]
      BY <2>1, CallFrame, StoresKnown
    <2>3. loader = "waiting" /\ job.state = "pending"
      BY <2>1, Places
    <2> QED
      BY <2>1, <2>2, <2>3 DEF Texts, Import, SourceText, OutputText, Holds, Looking, Idle
  <1>4. CASE Emit
    <2>1. /\ server = "reading" /\ server' = "emitting" /\ UNCHANGED <<loader, fetched>>
          /\ loader = "waiting" /\ job.state = "pending"
      BY <1>4, Places DEF Emit
    <2>2. answer[Server] = Seen /\ Seen \in Sources /\ job \in Job /\ job.file \in Files
      BY <1>4, <2>1 DEF Emit, Invoke, Idle, Texts, SourceText, Import, IInv, TypeOK, Turns, Job
    <2>3. EgressName[job.file] \in FileNames \ {NoFile} /\ Output[Seen] \in Contents \cup {NoContent}
      BY <2>2, PipelineAssumption
    <2>4. /\ Invoke(Server, "write", OutputStore, EgressName[job.file], Output[Seen])
          /\ job'.state = job.state /\ job'.file = job.file /\ job'.egress = EgressName[job.file]
      BY <1>4, <2>2 DEF Emit, Job
    <2>5. /\ UNCHANGED <<maps, content, target>> /\ section'[Server] = "probing"
          /\ call'[Server] = [kind |-> "write", store |-> OutputStore, file |-> EgressName[job.file],
                              text |-> Output[Seen]]
      BY <2>3, <2>4, CallFrame, StoresKnown
    <2>6. Seen' = Seen
      BY <2>4, <2>5 DEF Seen
    <2> QED
      BY <2>1, <2>2, <2>3, <2>4, <2>5, <2>6 DEF Texts, Import, SourceText, OutputText, Holds, Writing, Idle
  <1> QED
    BY <1>1, <1>2, <1>3, <1>4

LEMMA OutsideTexts ==
  ASSUME IInv, Texts, Submit \/ UseOutput \/ Run \/ ScriptReturn \/ Listen \/ Take \/ ReadNothing \/ Skip \/ Throw \/ Complete
  PROVE  Texts'
  <1>1. UNCHANGED mapperVars
    BY DEF Submit, UseOutput, Run, ScriptReturn, Listen, Take, ReadNothing, Skip, Throw, Complete
  <1>2. UNCHANGED <<section, call, maps, content, target, answer>>
    BY <1>1 DEF mapperVars
  <1>3. job \in Job
    BY DEF IInv, TypeOK
  <1>4. CASE Submit
    <2>1. /\ loader = "storing" /\ Idle(Loader) /\ loader' = "waiting" /\ UNCHANGED <<server, fetched>>
          /\ job'.state = "pending" /\ job'.file = job.file /\ job'.egress = job.egress
      BY <1>3, <1>4 DEF Submit, Stored, Job
    <2>2. server \notin {"taken", "reading", "emitting"}
      BY <2>1, Places
    <2> QED
      BY <1>2, <2>1, <2>2 DEF Texts, Import, SourceText, OutputText, Holds, Idle
  <1>5. CASE UseOutput
    <2>1. /\ loader = "reading" /\ loader' \in {"crashed", "loading"} /\ UNCHANGED <<server, fetched>>
          /\ job'.state = "none" /\ job'.file = job.file /\ job'.egress = job.egress
      BY <1>3, <1>5 DEF UseOutput, Job
    <2>2. server = "listening"
      BY <2>1, Places
    <2> QED
      BY <1>2, <2>1, <2>2 DEF Texts, Import, SourceText, OutputText, Holds
  <1>6. CASE Run \/ ScriptReturn
    <2>1. /\ loader \in {"loading", "calling"} /\ loader' \in {"running", "crashed"}
          /\ UNCHANGED <<server, fetched, job>>
      BY <1>6 DEF Run, ScriptReturn
    <2>2. server \notin {"taken", "reading", "emitting"} /\ job.state \notin {"pending", "answered"}
      BY <2>1, Places DEF IInv, Turns, Texts, Import
    <2> QED
      BY <2>1, <2>2 DEF Texts, Import, SourceText, OutputText
  <1>7. CASE Listen
    <2>1. server' = "listening" /\ server = "listing" /\ UNCHANGED <<loader, fetched, job>>
      BY <1>7 DEF Listen
    <2> QED
      BY <1>2, <2>1 DEF Texts, Import, SourceText, OutputText, EgressText, Seen, Holds, Writing, Looking, Idle
  <1>8. CASE Take
    <2>1. /\ server = "listening" /\ server' = "taken" /\ UNCHANGED <<loader, fetched, job>>
          /\ job.state = "pending" /\ Idle(Server) /\ loader = "waiting"
      BY <1>8 DEF Take, IInv, Turns
    <2> QED
      BY <1>2, <2>1 DEF Texts, Import, SourceText, OutputText, Holds, Idle
  <1>9. CASE Skip
    <2>1. /\ server \in {"taken", "reading"} /\ server' = "emitting" /\ UNCHANGED <<loader, fetched, job>>
          /\ Idle(Server) /\ loader = "waiting" /\ job.state = "pending" /\ job.egress = NoFile
      BY <1>9, Places DEF Skip, Texts, Import
    <2> QED
      BY <1>2, <2>1 DEF Texts, Import, SourceText, OutputText, EgressText, Seen, Holds, Idle
  <1>10. CASE Complete
    <2>1. /\ server = "emitting" /\ server' = "listening" /\ Idle(Server) /\ loader = "waiting"
          /\ UNCHANGED <<loader, fetched>>
          /\ job'.state = "answered" /\ job'.file = job.file /\ job'.egress = job.egress
      BY <1>3, <1>10, Places DEF Complete, Job
    <2> QED
      BY <1>2, <2>1 DEF Texts, Import, SourceText, OutputText, EgressText, Seen, Holds, Idle
  <1>11. CASE ReadNothing
    <2>1. /\ server = "reading" /\ server' = "crashed" /\ UNCHANGED <<loader, fetched, job>>
          /\ loader = "waiting" /\ job.state = "pending"
      BY <1>11, Places DEF ReadNothing
    <2> QED
      BY <1>2, <2>1 DEF Texts, Import, SourceText, OutputText, EgressText, Seen, Holds, Idle
  <1>12. CASE Throw
    <2>1. /\ server \in {"taken", "reading", "emitting"} /\ server' = "listening" /\ loader = "waiting"
          /\ UNCHANGED <<loader, fetched>>
          /\ job'.state = "lost" /\ job'.file = job.file /\ job'.egress = job.egress
      BY <1>3, <1>12, Places DEF Throw, Job
    <2> QED
      BY <1>2, <2>1 DEF Texts, Import, SourceText, OutputText, Holds, Idle
  <1> QED
    BY <1>4, <1>5, <1>6, <1>7, <1>8, <1>9, <1>10, <1>11, <1>12

LEMMA TextsNext == ASSUME IInv, Texts, [Next]_vars PROVE Texts'
  <1>1. CASE \E t \in Threads : MapperStep(t) /\ UNCHANGED ownVars
    BY <1>1, LoaderInside, ServerInside, StoresKnown
  <1>2. CASE LoaderStep
    BY <1>2, LoaderTexts, OutsideTexts DEF LoaderStep
  <1>3. CASE ServerStep
    BY <1>3, ServerTexts, OutsideTexts DEF ServerStep
  <1>4. CASE UNCHANGED vars
    BY <1>4 DEF vars, mapperVars, ownVars, Texts, Import, SourceText, OutputText, EgressText, Seen, Holds,
                Writing, Looking, Idle
  <1> QED
    BY <1>1, <1>2, <1>3, <1>4 DEF Next

\* The source and the output of the import in progress are where the two threads look for them.
THEOREM TextsInvariance == Spec => []Texts
  BY TextsInit, TextsNext, PipelineInvariance, PTL DEF Spec

\* What the server finds is the import's own text: both names of a file that is normal agree.
LEMMA SeenIsOwn ==
  ASSUME Texts, loader \in {"waiting", "reading"}
  PROVE  Seen = Own
  BY DEF Texts, SourceText, Holds, Seen, Own

\* The server compiles the text that the import in progress fetched, when its url is normal.
THEOREM SourceStaysOwn == Spec => []SourceIsOwn
  <1>1. IInv /\ Texts => SourceIsOwn
    BY SeenIsOwn DEF IInv, Turns, Texts, SourceText, SourceIsOwn
  <1> QED
    BY <1>1, PipelineInvariance, TextsInvariance, PTL

\* The loader reads the output of the text it fetched, or nothing when nothing was emitted.
THEOREM OutputStaysOwn == Spec => []OutputIsOwn
  <1>1. Texts => OutputIsOwn
    BY SeenIsOwn DEF Texts, OutputText, OutputIsOwn, EgressText
  <1> QED
    BY <1>1, TextsInvariance, PTL
=============================================================================
