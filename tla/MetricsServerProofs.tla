------------------------- MODULE MetricsServerProofs -------------------------
(***************************************************************************)
(* Proofs about the metrics server for any number of clients and           *)
(* descriptors.  The invariant says that the server is serial: only the    *)
(* thread the accept loop waits for is between its start and its end, and  *)
(* only its client has a descriptor, the one in the loop's local variable. *)
(***************************************************************************)
EXTENDS MetricsServer, FiniteSetTheorems, SequenceTheorems, TLAPS

Ids == Clients \union {NoClient}

\* The thread of a client holds an open descriptor.
Holds(c) == thread[c] \notin {"none", "closed", "ending", "ended"}

\* The part of the type invariant the proofs need.
Shape ==
  /\ thread \in [Clients -> Threads]
  /\ sockets \in [Descriptors -> Ids]
  /\ information \in Descriptors
  /\ served \in Ids

\* Only the thread the loop waits for runs.
Serial == \A c \in Clients : thread[c] \notin {"none", "ended"} => served = c

\* The descriptor in the loop's variable is that of the served client until its thread closes it,
\* and no other descriptor is open.
OneSocket ==
  /\ served # NoClient /\ Holds(served) => sockets[information] = served
  /\ \A d \in Descriptors : sockets[d] # NoClient =>
       d = information /\ sockets[d] = served /\ Holds(served)

\* What a client has asked, if anything.
Firsts == Requests \union {<< >>}

\* What a thread has read and what it answers belong to its own client.
Own ==
  /\ asked \in [Clients -> Firsts]
  /\ buffer \in [Clients -> [of : Ids, words : Seq(STRING)]]
  /\ response \in [Clients -> [of : Ids, code : Codes, page : [Counters -> Nat]]]
  /\ received \in [Clients -> [of : Ids, code : Codes, page : [Counters -> Nat]]]
  /\ count \in [Counters -> Nat] /\ register \in [Clients -> Nat]
  /\ \A c \in Clients : /\ buffer[c].of \in {c, NoClient}
                        /\ response[c].of \in {c, NoClient}
                        /\ received[c].of \in {c, NoClient}

\* The inductive invariant.
IInv == Shape /\ Serial /\ OneSocket /\ Own

LEMMA ServerInit == Init => IInv
  BY ClientsAssumption
  DEF Init, IInv, Shape, Serial, OneSocket, Own, Firsts, Holds, Ids, Threads, NoAnswer, NoBuffer, NoPage, Counters, Codes

\* A thread that is between its start and its end is the served one.
LEMMA Running ==
  ASSUME IInv, NEW c \in Clients, thread[c] \notin {"none", "ended"}
  PROVE  served = c /\ served # NoClient
  BY ClientsAssumption DEF IInv, Serial

\* A request that a client may send: its words may be cut.
Sent(r) == r \in Seq(STRING) /\ \A i \in DOMAIN r : Halves[r[i]] \subseteq STRING

LEMMA FirstsAreSent == \A r \in Firsts : Sent(r)
  <1>1. << >> \in Seq(STRING) /\ DOMAIN << >> = {}
    BY EmptySeq
  <1> QED BY <1>1, RequestsAssumption DEF Firsts, Sent

\* A part of a request has its first words, and perhaps a half of the next one.
LEMMA ArrivedParts ==
  ASSUME NEW r, Sent(r), NEW w \in Arrived(r)
  PROVE  /\ w \in Seq(STRING)
         /\ \E n \in 2 .. Len(r) :
              /\ Len(w) = n /\ \A i \in 1 .. n - 1 : w[i] = r[i]
              /\ w[n] = r[n] \/ w[n] \in Halves[r[n]]
  <1>1. PICK n \in 2 .. Len(r) : w = SubSeq(r, 1, n) \/ \E h \in Halves[r[n]] : w = Append(SubSeq(r, 1, n - 1), h)
    BY DEF Arrived
  <1>2. PICK S : S = STRING
    OBVIOUS
  <1>3. r \in Seq(S) /\ Len(r) \in Nat /\ DOMAIN r = 1 .. Len(r) /\ Halves[r[n]] \subseteq S
    BY <1>1, <1>2, LenProperties DEF Sent
  <1>4. \A i \in 1 .. n : r[i] \in S
    BY <1>1, <1>3, ElementOfSeq
  <1>5. CASE w = SubSeq(r, 1, n)
    <2>1. w \in Seq(S) /\ Len(w) = n /\ \A i \in 1 .. n : w[i] = r[i]
      BY <1>1, <1>3, <1>4, <1>5, SubSeqProperties
    <2> QED BY <1>1, <1>2, <2>1
  <1>6. ASSUME NEW h \in Halves[r[n]], w = Append(SubSeq(r, 1, n - 1), h)
        PROVE  w \in Seq(S) /\ Len(w) = n /\ w[n] = h /\ \A i \in 1 .. n - 1 : w[i] = r[i]
    <2>1. PICK k : k = n - 1
      OBVIOUS
    <2>2. k \in Nat /\ n = k + 1 /\ k \in Int /\ 1 \in Int /\ 1 <= k
      BY <1>1, <2>1
    <2>3. \A i \in 1 .. k : r[i] \in S
      BY <1>4, <2>2
    <2>4. PICK s : s = SubSeq(r, 1, k)
      OBVIOUS
    <2>5. s \in Seq(S) /\ Len(s) = k /\ \A i \in 1 .. k : s[i] = r[i]
      BY <2>2, <2>3, <2>4, SubSeqProperties
    <2>6. h \in S /\ w = Append(s, h)
      BY <1>3, <1>6, <2>1, <2>4
    <2>7. w \in Seq(S) /\ Len(w) = Len(s) + 1 /\ w[Len(s) + 1] = h /\ \A i \in 1 .. Len(s) : w[i] = s[i]
      BY <2>5, <2>6, AppendProperties
    <2> QED BY <2>1, <2>2, <2>5, <2>7
  <1> QED BY <1>1, <1>2, <1>5, <1>6

LEMMA CodeType == \A words : Code(words) \in Codes
  BY DEF Code, Codes

\* Steps of clients touch none of the variables of the invariant but what they ask for.
LEMMA ClientStep ==
  ASSUME IInv, UNCHANGED <<sockets, information, served, thread, register, buffer, response, received, count>>,
         asked' \in [Clients -> Firsts]
  PROVE  IInv'
  BY DEF IInv, Shape, Serial, OneSocket, Own, Holds

LEMMA ClientsSteps ==
  ASSUME IInv, NEW c \in Clients, Connect(c) \/ Send(c) \/ Reset(c)
  PROVE  IInv'
  <1>1. asked \in [Clients -> Firsts]
    BY DEF IInv, Own
  <1>2. asked' \in [Clients -> Firsts]
    <2>1. CASE UNCHANGED asked
      BY <1>1, <2>1
    <2>2. ASSUME NEW r \in Requests, asked' = [asked EXCEPT ![c] = r] PROVE asked' \in [Clients -> Firsts]
      BY <1>1, <2>2 DEF Firsts
    <2> QED BY <2>1, <2>2 DEF Connect, Send, Reset
  <1> QED BY <1>2, ClientStep DEF Connect, Send, Reset

\* The loop accepts: every earlier thread has ended, so no descriptor is open and no thread refers
\* to the loop's variable.
LEMMA AcceptStep ==
  ASSUME IInv, NEW c \in Clients, Accept(c)
  PROVE  IInv'
  <1>1. \A x \in Clients : thread[x] \in {"none", "ended"}
    BY ClientsAssumption DEF IInv, Serial, Accept, Joined
  <1>2. \A d \in Descriptors : sockets[d] = NoClient
    <2>1. ASSUME NEW d \in Descriptors, sockets[d] # NoClient PROVE FALSE
      <3>1. sockets[d] \in Clients /\ sockets[d] = served /\ Holds(served)
        BY <2>1 DEF IInv, OneSocket, Shape, Ids
      <3> QED BY <3>1, <1>1 DEF Holds
    <2> QED BY <2>1
  <1>3. PICK d \in Descriptors : /\ sockets' = [sockets EXCEPT ![d] = c]
                                 /\ information' = d
    BY DEF Accept
  <1>4. served' = c /\ thread' = [thread EXCEPT ![c] = "new"]
    BY DEF Accept
  <1>5. Shape'
    BY <1>3, <1>4 DEF IInv, Shape, Threads, Ids
  <1>6. Serial'
    BY <1>1, <1>4 DEF IInv, Shape, Serial
  <1>7. OneSocket'
    BY <1>2, <1>3, <1>4 DEF IInv, Shape, OneSocket, Holds
  <1>8. Own'
    <2>1. count' \in [Counters -> Nat]
      BY DEF Accept, IInv, Own, Incremented, Counters
    <2> QED BY <2>1 DEF Accept, IInv, Own
  <1> QED BY <1>5, <1>6, <1>7, <1>8 DEF IInv

\* A step of a thread that keeps its descriptor.
LEMMA HoldingStep ==
  ASSUME IInv, NEW c \in Clients, NEW here \in Threads, NEW there \in Threads,
         At(c, here, there), here \notin {"none", "ended"}, there # "none",
         here \in {"closed", "ending"} <=> there \in {"closed", "ending", "ended"},
         UNCHANGED <<sockets, information, served>>
  PROVE  (Shape /\ Serial /\ OneSocket)'
  <1>1. served = c /\ thread[c] = here /\ thread' = [thread EXCEPT ![c] = there]
    BY Running DEF At
  <1>2. Shape' /\ Serial'
    BY <1>1 DEF IInv, Shape, Serial
  <1>3. Holds(served)' <=> Holds(served)
    BY <1>1 DEF IInv, Shape, Holds, Threads
  <1>4. OneSocket'
    BY <1>3 DEF IInv, OneSocket
  <1> QED BY <1>2, <1>4

\* inc() of a thread.
LEMMA LoadStep ==
  ASSUME IInv, NEW c \in Clients, NEW k \in Counters, NEW here \in Threads, NEW there \in Threads,
         Load(c, k, here, there), here \notin {"none", "ended"}, there # "none",
         here \in {"closed", "ending"} <=> there \in {"closed", "ending", "ended"}
  PROVE  IInv'
  <1>1. (Shape /\ Serial /\ OneSocket)'
    BY HoldingStep DEF Load
  <1>2. Own'
    BY DEF Load, IInv, Own
  <1> QED BY <1>1, <1>2 DEF IInv

LEMMA StoreStep ==
  ASSUME IInv, NEW c \in Clients, NEW k \in Counters, NEW here \in Threads, NEW there \in Threads,
         Store(c, k, here, there), here \notin {"none", "ended"}, there # "none",
         here \in {"closed", "ending"} <=> there \in {"closed", "ending", "ended"}
  PROVE  IInv'
  <1>1. (Shape /\ Serial /\ OneSocket)'
    BY HoldingStep DEF Store
  <1>2. count' \in [Counters -> Nat]
    BY DEF Store, IInv, Own, Incremented
  <1>3. Own'
    BY <1>2 DEF Store, IInv, Own
  <1> QED BY <1>1, <1>3 DEF IInv

\* What the thread of client c finds at the other end of its socket.
LEMMA PeerIsOwn ==
  ASSUME IInv, NEW c \in Clients, thread[c] \notin {"none", "closed", "ending", "ended"}
  PROVE  Peer = c
  BY Running DEF IInv, OneSocket, Holds, Peer

LEMMA ReadStep ==
  ASSUME IInv, NEW c \in Clients, Read(c) PROVE IInv'
  <1>1. PICK there \in {"handling", "writing"} : At(c, "reading", there)
    BY DEF Read
  <1>2. (Shape /\ Serial /\ OneSocket)'
    BY <1>1, HoldingStep DEF Threads, Read
  <1>3. Peer = c
    BY <1>1, PeerIsOwn DEF At
  <1>4. buffer' = buffer \/ \E w \in Arrived(asked[c]) : buffer' = [buffer EXCEPT ![c] = [of |-> c, words |-> w]]
    BY <1>3 DEF Read
  <1>5. /\ buffer \in [Clients -> [of : Ids, words : Seq(STRING)]]
        /\ \A x \in Clients : buffer[x].of \in {x, NoClient}
        /\ asked[c] \in Firsts
    BY DEF IInv, Own
  <1>6. /\ buffer' \in [Clients -> [of : Ids, words : Seq(STRING)]]
        /\ \A x \in Clients : buffer'[x].of \in {x, NoClient}
    <2>1. CASE buffer' = buffer
      BY <1>5, <2>1
    <2>2. ASSUME NEW w \in Arrived(asked[c]), buffer' = [buffer EXCEPT ![c] = [of |-> c, words |-> w]]
          PROVE  /\ buffer' \in [Clients -> [of : Ids, words : Seq(STRING)]]
                 /\ \A x \in Clients : buffer'[x].of \in {x, NoClient}
      <3>1. w \in Seq(STRING)
        BY <1>5, FirstsAreSent, ArrivedParts
      <3>2. [of |-> c, words |-> w] \in [of : Ids, words : Seq(STRING)]
        BY <3>1 DEF Ids
      <3> QED BY <1>5, <2>2, <3>2
    <2> QED BY <1>4, <2>1, <2>2
  <1>7. Own'
    BY <1>6 DEF Read, IInv, Own
  <1> QED BY <1>2, <1>7 DEF IInv

LEMMA HandleStep ==
  ASSUME IInv, NEW c \in Clients, Handle(c) PROVE IInv'
  <1>1. (Shape /\ Serial /\ OneSocket)'
    BY HoldingStep DEF Handle, Threads
  <1>2. /\ response' \in [Clients -> [of : Ids, code : Codes, page : [Counters -> Nat]]]
        /\ \A x \in Clients : response'[x].of \in {x, NoClient}
    BY CodeType DEF Handle, IInv, Own, NoAnswer, NoPage
  <1>3. Own'
    BY <1>2 DEF Handle, IInv, Own
  <1> QED BY <1>1, <1>3 DEF IInv

LEMMA RenderStep ==
  ASSUME IInv, NEW c \in Clients, Render(c) PROVE IInv'
  <1>1. (Shape /\ Serial /\ OneSocket)'
    BY HoldingStep DEF Render, Threads
  <1>2. /\ response' \in [Clients -> [of : Ids, code : Codes, page : [Counters -> Nat]]]
        /\ \A x \in Clients : response'[x].of \in {x, NoClient}
    BY DEF Render, IInv, Own, Codes
  <1>3. Own'
    BY <1>2 DEF Render, IInv, Own
  <1> QED BY <1>1, <1>3 DEF IInv

\* The answer goes to the client the socket leads to, which is the thread's own.
LEMMA WriteStep ==
  ASSUME IInv, NEW c \in Clients, Write(c) PROVE IInv'
  <1>1. (Shape /\ Serial /\ OneSocket)'
    BY HoldingStep DEF Write, Threads
  <1>2. Peer = c
    BY PeerIsOwn DEF Write, At
  <1>3. \A p \in Clients : received'[p] = IF p = c /\ wire[p] # "reset" THEN response[c] ELSE received[p]
    BY <1>2 DEF Write
  <1>4. /\ received' \in [Clients -> [of : Ids, code : Codes, page : [Counters -> Nat]]]
        /\ \A x \in Clients : received'[x].of \in {x, NoClient}
    BY <1>3 DEF Write, IInv, Own
  <1>5. Own'
    BY <1>4 DEF Write, IInv, Own
  <1> QED BY <1>1, <1>5 DEF IInv

\* The thread closes the one descriptor that is open, its own.
LEMMA CloseStep ==
  ASSUME IInv, NEW c \in Clients, Close(c) PROVE IInv'
  <1>1. served = c /\ thread[c] = "closing" /\ thread' = [thread EXCEPT ![c] = "closed"]
    BY Running DEF Close, At
  <1>2. Shape' /\ Serial'
    BY <1>1 DEF Close, IInv, Shape, Serial, Threads, Ids
  <1>3. ~Holds(served)'
    BY <1>1 DEF Close, IInv, Shape, Holds
  <1>4. \A d \in Descriptors : sockets'[d] = NoClient
    BY DEF Close, IInv, Shape, OneSocket
  <1>5. OneSocket'
    BY <1>3, <1>4 DEF OneSocket
  <1>6. Own'
    BY DEF Close, IInv, Own
  <1> QED BY <1>2, <1>5, <1>6 DEF IInv

\* The thread ends: what it had in its locals is gone.
LEMMA EndedStep ==
  ASSUME IInv, NEW c \in Clients, StoreEnded(c) PROVE IInv'
  <1>1. (Shape /\ Serial /\ OneSocket)'
    BY HoldingStep DEF StoreEnded, Threads
  <1>2. /\ count' \in [Counters -> Nat] /\ register' \in [Clients -> Nat]
        /\ UNCHANGED <<asked, received>>
    <2>1. register[c] + 1 \in Nat
      BY DEF IInv, Own
    <2>2. count' = [count EXCEPT !["threads_ended"] = register[c] + 1] /\ register' = [register EXCEPT ![c] = 0]
      BY DEF StoreEnded, Incremented
    <2>3. count \in [Counters -> Nat] /\ register \in [Clients -> Nat]
      BY DEF IInv, Own
    <2>4. UNCHANGED <<asked, received>>
      BY DEF StoreEnded
    <2>5. count' \in [Counters -> Nat]
      BY <2>1, <2>2, <2>3
    <2>6. register' \in [Clients -> Nat]
      BY <2>2, <2>3
    <2> QED BY <2>4, <2>5, <2>6
  <1>3. /\ buffer' \in [Clients -> [of : Ids, words : Seq(STRING)]]
        /\ \A x \in Clients : buffer'[x].of \in {x, NoClient}
    BY DEF StoreEnded, IInv, Own, NoBuffer, Ids
  <1>4. /\ response' \in [Clients -> [of : Ids, code : Codes, page : [Counters -> Nat]]]
        /\ \A x \in Clients : response'[x].of \in {x, NoClient}
    BY DEF StoreEnded, IInv, Own, NoAnswer, NoPage, Ids, Codes
  <1>5. Own'
    BY <1>2, <1>3, <1>4 DEF IInv, Own
  <1> QED BY <1>1, <1>5 DEF IInv

LEMMA ServerStep == IInv /\ [Next]_vars => IInv'
  <1> SUFFICES ASSUME IInv, [Next]_vars PROVE IInv'
    OBVIOUS
  <1>1. CASE UNCHANGED vars \/ FailToAccept
    BY <1>1, ClientStep DEF vars, FailToAccept, IInv, Own
  <1>2. CASE Next /\ ~FailToAccept
    <2> PICK c \in Clients :
          \/ Connect(c) \/ Send(c) \/ Reset(c) \/ Accept(c)
          \/ LoadStarted(c) \/ StoreStarted(c) \/ Read(c) \/ Handle(c)
          \/ LoadRequests(c) \/ StoreRequests(c) \/ Render(c)
          \/ Write(c) \/ Close(c) \/ LoadEnded(c) \/ StoreEnded(c)
      BY <1>2 DEF Next
    <2>1. CASE Connect(c) \/ Send(c) \/ Reset(c)
      BY <2>1, ClientsSteps
    <2>2. CASE Accept(c)
      BY <2>2, AcceptStep
    <2>3. CASE LoadStarted(c) \/ LoadRequests(c) \/ LoadEnded(c)
      BY <2>3, LoadStep DEF LoadStarted, LoadRequests, LoadEnded, Threads, Counters
    <2>4. CASE StoreStarted(c) \/ StoreRequests(c)
      BY <2>4, StoreStep DEF StoreStarted, StoreRequests, Threads, Counters
    <2>5. CASE Read(c)
      BY <2>5, ReadStep
    <2>6. CASE Handle(c)
      BY <2>6, HandleStep
    <2>7. CASE Render(c)
      BY <2>7, RenderStep
    <2>8. CASE Write(c)
      BY <2>8, WriteStep
    <2>9. CASE Close(c)
      BY <2>9, CloseStep
    <2>10. CASE StoreEnded(c)
      BY <2>10, EndedStep
    <2> QED BY <2>1, <2>2, <2>3, <2>4, <2>5, <2>6, <2>7, <2>8, <2>9, <2>10
  <1> QED BY <1>1, <1>2

\* The accept loop is serial: the wait in the destructor of the future keeps every other thread away
\* from the loop's variables.
THEOREM ServerSerial == Spec => []IInv
  <1> QED BY ServerInit, ServerStep, PTL DEF Spec

\* What a client receives answers its own request, for any number of clients and descriptors, and
\* whoever resets or closes.
THEOREM ResponsesAreOwn == Spec => []OwnResponse
  <1>1. IInv => OwnResponse
    BY DEF IInv, Own, OwnResponse
  <1> QED BY <1>1, ServerSerial, PTL

\* A connection has a descriptor exactly while its thread is between accept() and close(): none
\* leaks, and none is closed under another client.
THEOREM DescriptorsClosed == Spec => []SocketsClosed
  <1>1. IInv => SocketsClosed
    <2> SUFFICES ASSUME IInv, NEW c \in Clients
                 PROVE  (\E d \in Descriptors : sockets[d] = c) <=> Holds(c)
      BY DEF SocketsClosed, Holds
    <2>1. ASSUME NEW d \in Descriptors, sockets[d] = c PROVE Holds(c)
      BY <2>1, ClientsAssumption DEF IInv, OneSocket
    <2>2. ASSUME Holds(c) PROVE information \in Descriptors /\ sockets[information] = c
      BY <2>2, Running DEF IInv, OneSocket, Shape, Holds
    <2> QED BY <2>1, <2>2
  <1> QED BY <1>1, ServerSerial, PTL

-----------------------------------------------------------------------------
\* The clients whose threads have gone past the three increments.
Accepted == {c \in Clients : thread[c] # "none"}
Started == {c \in Clients : thread[c] \notin {"none", "new", "starting"}}
Ended == {c \in Clients : thread[c] = "ended"}

\* Between its load and its store a thread has the value the counter still has.
Loaded ==
  \A c \in Clients :
    /\ thread[c] = "starting" => register[c] = count["threads_started"]
    /\ thread[c] = "ending" => register[c] = count["threads_ended"]

\* The second invariant, which holds because the first does.
Exact ==
  /\ count["tcp_connections"] = Cardinality(Accepted)
  /\ count["threads_started"] = Cardinality(Started)
  /\ count["threads_ended"] = Cardinality(Ended)
  /\ Loaded

LEMMA ExactInit == Init => Exact
  <1> SUFFICES ASSUME Init PROVE Exact
    OBVIOUS
  <1>1. Accepted = {} /\ Started = {} /\ Ended = {}
    BY DEF Init, Accepted, Started, Ended
  <1>2. Loaded
    BY DEF Init, Loaded
  <1> QED BY <1>1, <1>2, FS_EmptySet DEF Init, Exact, NoPage, Counters

\* The set of the clients that are past an increment grows by the one that goes past it.
LEMMA OneMore ==
  ASSUME NEW S \in SUBSET Clients, NEW c \in Clients, c \notin S
  PROVE  Cardinality(S \union {c}) = Cardinality(S) + 1
  <1>1. IsFiniteSet(S)
    BY ClientsAssumption, FS_Subset
  <1> QED BY <1>1, FS_AddElement

\* Steps that take nobody past an increment.
LEMMA ExactKept ==
  ASSUME Exact, Accepted' = Accepted, Started' = Started, Ended' = Ended, Loaded',
         \A k \in {"tcp_connections", "threads_started", "threads_ended"} : count'[k] = count[k]
  PROVE  Exact'
  BY DEF Exact

\* A step of a thread in which it neither loads nor stores a counter of Exact.
LEMMA ExactWalk ==
  ASSUME IInv, Exact, NEW c \in Clients, NEW here \in Threads, NEW there \in Threads,
         At(c, here, there), here \notin {"none", "new", "starting", "closed", "ending", "ended"},
         there \notin {"none", "new", "starting", "ending", "ended"},
         \A k \in {"tcp_connections", "threads_started", "threads_ended"} : count'[k] = count[k],
         \A x \in Clients : x # c => register'[x] = register[x]
  PROVE  Exact'
  <1>1. thread' = [thread EXCEPT ![c] = there] /\ thread[c] = here
    BY DEF At
  <1>2. \A x \in Clients : thread'[x] = IF x = c THEN there ELSE thread[x]
    BY <1>1 DEF IInv, Shape
  <1>3. Accepted' = Accepted /\ Started' = Started /\ Ended' = Ended
    BY <1>1, <1>2 DEF Accepted, Started, Ended
  <1>4. Loaded'
    BY <1>2 DEF Exact, Loaded
  <1> QED BY <1>3, <1>4, ExactKept

LEMMA ExactAccept ==
  ASSUME IInv, Exact, NEW c \in Clients, Accept(c) PROVE Exact'
  <1>1. \A x \in Clients : thread[x] \in {"none", "ended"}
    BY ClientsAssumption DEF IInv, Serial, Accept, Joined
  <1>2. \A x \in Clients : thread'[x] = IF x = c THEN "new" ELSE thread[x]
    BY DEF IInv, Shape, Accept
  <1>3. thread[c] = "none"
    BY DEF Accept
  <1>4. Accepted' = Accepted \union {c} /\ c \notin Accepted
    BY <1>2, <1>3 DEF Accepted
  <1>5. Started' = Started /\ Ended' = Ended
    BY <1>2, <1>3 DEF Started, Ended
  <1>6. Cardinality(Accepted') = Cardinality(Accepted) + 1
    BY <1>4, OneMore DEF Accepted
  <1>7. /\ count'["tcp_connections"] = count["tcp_connections"] + 1
        /\ count'["threads_started"] = count["threads_started"]
        /\ count'["threads_ended"] = count["threads_ended"]
    BY DEF Accept, IInv, Own, Counters, Incremented
  <1>8. Loaded'
    BY <1>1, <1>2 DEF Loaded
  <1> QED BY <1>5, <1>6, <1>7, <1>8 DEF Exact

\* The two loads: the register gets the value of the counter.
LEMMA ExactLoad ==
  ASSUME IInv, Exact, NEW c \in Clients, LoadStarted(c) \/ LoadEnded(c) PROVE Exact'
  <1>1. PICK there \in {"starting", "ending"} :
          /\ thread[c] = IF there = "starting" THEN "new" ELSE "closed"
          /\ thread' = [thread EXCEPT ![c] = there]
          /\ register' = [register EXCEPT
                ![c] = count[IF there = "starting" THEN "threads_started" ELSE "threads_ended"]]
          /\ count' = count
    BY DEF LoadStarted, LoadEnded, Load, At
  <1>2. \A x \in Clients : thread'[x] = IF x = c THEN there ELSE thread[x]
    BY <1>1 DEF IInv, Shape
  <1>3. Accepted' = Accepted /\ Started' = Started /\ Ended' = Ended
    BY <1>1, <1>2 DEF Accepted, Started, Ended
  <1>4. Loaded'
    BY <1>1, <1>2 DEF Exact, Loaded, IInv, Own
  <1> QED BY <1>1, <1>3, <1>4, ExactKept

\* The two stores: nobody has stored since the load, so that the counter grows by one, as the set of
\* those past the increment does.
LEMMA ExactStoreStarted ==
  ASSUME IInv, Exact, NEW c \in Clients, StoreStarted(c) PROVE Exact'
  <1>1. /\ thread[c] = "starting"
        /\ thread' = [thread EXCEPT ![c] = "reading"]
        /\ count' = [count EXCEPT !["threads_started"] = register[c] + 1]
        /\ register' = register
    BY DEF StoreStarted, Store, At, Incremented
  <1>2. \A x \in Clients : thread'[x] = IF x = c THEN "reading" ELSE thread[x]
    BY <1>1 DEF IInv, Shape
  <1>3. Accepted' = Accepted /\ Ended' = Ended
    BY <1>1, <1>2 DEF Accepted, Ended
  <1>4. Started' = Started \union {c} /\ c \notin Started
    BY <1>1, <1>2 DEF Started
  <1>5. Cardinality(Started') = Cardinality(Started) + 1
    BY <1>4, OneMore DEF Started
  <1>6. /\ count'["tcp_connections"] = count["tcp_connections"]
        /\ count'["threads_started"] = count["threads_started"] + 1
        /\ count'["threads_ended"] = count["threads_ended"]
    BY <1>1 DEF Exact, Loaded, IInv, Own, Counters
  <1>7. \A x \in Clients : x # c => thread[x] \in {"none", "ended"}
    BY <1>1, Running DEF IInv, Serial
  <1>8. Loaded'
    BY <1>2, <1>7 DEF Loaded
  <1> QED BY <1>3, <1>5, <1>6, <1>8 DEF Exact

LEMMA ExactStoreEnded ==
  ASSUME IInv, Exact, NEW c \in Clients, StoreEnded(c) PROVE Exact'
  <1>1. /\ thread[c] = "ending"
        /\ thread' = [thread EXCEPT ![c] = "ended"]
        /\ count' = [count EXCEPT !["threads_ended"] = register[c] + 1]
    BY DEF StoreEnded, At, Incremented
  <1>2. \A x \in Clients : thread'[x] = IF x = c THEN "ended" ELSE thread[x]
    BY <1>1 DEF IInv, Shape
  <1>3. Accepted' = Accepted /\ Started' = Started
    BY <1>1, <1>2 DEF Accepted, Started
  <1>4. Ended' = Ended \union {c} /\ c \notin Ended
    BY <1>1, <1>2 DEF Ended
  <1>5. Cardinality(Ended') = Cardinality(Ended) + 1
    BY <1>4, OneMore DEF Ended
  <1>6. /\ count'["tcp_connections"] = count["tcp_connections"]
        /\ count'["threads_started"] = count["threads_started"]
        /\ count'["threads_ended"] = count["threads_ended"] + 1
    BY <1>1 DEF Exact, Loaded, IInv, Own, Counters
  <1>7. \A x \in Clients : x # c => thread[x] \in {"none", "ended"}
    BY <1>1, Running DEF IInv, Serial
  <1>8. Loaded'
    BY <1>2, <1>7 DEF Loaded
  <1> QED BY <1>3, <1>5, <1>6, <1>8 DEF Exact

LEMMA ExactStep == IInv /\ Exact /\ [Next]_vars => Exact'
  <1> SUFFICES ASSUME IInv, Exact, [Next]_vars PROVE Exact'
    OBVIOUS
  <1>1. CASE UNCHANGED <<thread, register, count>>
    BY <1>1 DEF Exact, Loaded, Accepted, Started, Ended
  <1>2. CASE Next /\ ~FailToAccept
    <2> PICK c \in Clients :
          \/ Connect(c) \/ Send(c) \/ Reset(c) \/ Accept(c)
          \/ LoadStarted(c) \/ StoreStarted(c) \/ Read(c) \/ Handle(c)
          \/ LoadRequests(c) \/ StoreRequests(c) \/ Render(c)
          \/ Write(c) \/ Close(c) \/ LoadEnded(c) \/ StoreEnded(c)
      BY <1>2 DEF Next
    <2>1. CASE Connect(c) \/ Send(c) \/ Reset(c)
      BY <2>1, <1>1 DEF Connect, Send, Reset
    <2>2. CASE Accept(c)
      BY <2>2, ExactAccept
    <2>3. CASE LoadStarted(c) \/ LoadEnded(c)
      BY <2>3, ExactLoad
    <2>4. CASE StoreStarted(c) \/ StoreEnded(c)
      BY <2>4, ExactStoreStarted, ExactStoreEnded
    <2>5. CASE Read(c)
      <3>1. PICK there \in {"handling", "writing"} : At(c, "reading", there)
        BY <2>5 DEF Read
      <3>2. UNCHANGED <<register, count>>
        BY <2>5 DEF Read
      <3> QED BY <3>1, <3>2, ExactWalk DEF Threads
    <2>6. CASE Handle(c) \/ Render(c) \/ Write(c) \/ Close(c)
      <3>1. PICK here \in {"handling", "rendering", "writing", "closing"}, there \in {"writing", "closing", "closed"} :
              At(c, here, there)
        BY <2>6 DEF Handle, Render, Write, Close
      <3>2. UNCHANGED <<register, count>>
        BY <2>6 DEF Handle, Render, Write, Close
      <3> QED BY <3>1, <3>2, ExactWalk DEF Threads
    <2>7. CASE LoadRequests(c)
      <3>1. /\ At(c, "handling", "counting") /\ UNCHANGED count
            /\ register' = [register EXCEPT ![c] = count["metrics_requests"]]
        BY <2>7 DEF LoadRequests, Load
      <3>2. \A x \in Clients : x # c => register'[x] = register[x]
        BY <3>1 DEF IInv, Own
      <3> QED BY <3>1, <3>2, ExactWalk DEF Threads
    <2>8. CASE StoreRequests(c)
      <3>1. /\ At(c, "counting", "rendering") /\ UNCHANGED register
            /\ count' = [count EXCEPT !["metrics_requests"] = Incremented(register[c])]
        BY <2>8 DEF StoreRequests, Store
      <3>2. \A k \in {"tcp_connections", "threads_started", "threads_ended"} : count'[k] = count[k]
        BY <3>1 DEF IInv, Own, Counters
      <3> QED BY <3>1, <3>2, ExactWalk DEF Threads
    <2> QED BY <2>1, <2>2, <2>3, <2>4, <2>5, <2>6, <2>7, <2>8
  <1>3. CASE UNCHANGED vars \/ FailToAccept
    BY <1>1, <1>3 DEF vars, FailToAccept
  <1> QED BY <1>2, <1>3

\* inc() loads and stores in two steps, yet no increment is lost: the serial loop never lets two
\* threads increment at the same time.
THEOREM IncrementsKept == Spec => []CountersExact
  <1>1. Init => IInv /\ Exact
    BY ServerInit, ExactInit
  <1>2. IInv /\ Exact /\ [Next]_vars => (IInv /\ Exact)'
    BY ServerStep, ExactStep
  <1>3. Exact => CountersExact
    BY DEF Exact, CountersExact, Accepted, Started, Ended
  <1> QED BY <1>1, <1>2, <1>3, PTL DEF Spec

-----------------------------------------------------------------------------
\* The places of a thread that has answered, or is past counting its request.
Answered == {"rendering", "writing", "closing", "closed", "ending"}

\* One while the thread the loop waits for is at one of them.
Answering == IF served # NoClient /\ thread[served] \in Answered THEN 1 ELSE 0

\* What PageConsistent says of one page.
Good(p) ==
  p = NoPage \/ /\ p["tcp_connections"] = p["threads_started"]
                /\ p["threads_started"] = p["threads_ended"] + 1
                /\ p["metrics_requests"] \in 1..p["threads_started"]

\* The third invariant: every thread counts at most one request, and a page is a snapshot.
RequestsBounded ==
  /\ count["metrics_requests"] <= count["threads_ended"] + Answering
  /\ \A c \in Clients :
       /\ thread[c] = "counting" => register[c] = count["metrics_requests"]
       /\ thread[c] = "rendering" => count["metrics_requests"] >= 1

PagesGood == \A c \in Clients : Good(response[c].page) /\ Good(received[c].page)

LEMMA PagesInit == Init => RequestsBounded /\ PagesGood
  <1> SUFFICES ASSUME Init PROVE RequestsBounded /\ PagesGood
    OBVIOUS
  <1>1. Answering = 0
    BY DEF Init, Answering
  <1>2. count["metrics_requests"] = 0 /\ count["threads_ended"] = 0
    BY DEF Init, NoPage, Counters
  <1>3. RequestsBounded
    BY <1>1, <1>2 DEF Init, RequestsBounded
  <1>4. \A c \in Clients : response[c].page = NoPage /\ received[c].page = NoPage
    BY DEF Init, NoAnswer
  <1>5. PagesGood
    BY <1>4 DEF PagesGood, Good
  <1> QED BY <1>3, <1>5

\* Steps that change no counter and take no thread out of Answered.
LEMMA BoundWalk ==
  ASSUME IInv, RequestsBounded, NEW c \in Clients, NEW here \in Threads, NEW there \in Threads,
         At(c, here, there), here \notin {"none", "ended"}, there \notin {"none", "ended"},
         here \in Answered => there \in Answered,
         there = "counting" => register'[c] = count["metrics_requests"],
         there # "rendering",
         UNCHANGED <<count, served>>
  PROVE  RequestsBounded'
  <1>1. served = c /\ c # NoClient /\ thread[c] = here /\ thread' = [thread EXCEPT ![c] = there]
    BY Running DEF At
  <1>2. \A x \in Clients : thread'[x] = IF x = c THEN there ELSE thread[x]
    BY <1>1 DEF IInv, Shape
  <1>3. \A x \in Clients : x # c => thread'[x] \in {"none", "ended"}
    BY <1>1, <1>2 DEF IInv, Serial
  <1>4. Answering \in {0, 1} /\ Answering' \in {0, 1} /\ (Answering = 1 => Answering' = 1)
    BY <1>1, <1>2 DEF Answering
  <1>5. count["metrics_requests"] <= count["threads_ended"] + Answering'
    BY <1>4 DEF RequestsBounded, IInv, Own, Counters
  <1> QED BY <1>2, <1>3, <1>5 DEF RequestsBounded

\* The counters when the only thread that runs shows them: every other client is before accept()
\* or past its end.
LEMMA OneMoment ==
  ASSUME IInv, Exact, RequestsBounded, NEW c \in Clients, thread[c] = "rendering"
  PROVE  Good(count)
  <1>1. served = c /\ c # NoClient
    BY Running
  <1>2. \A x \in Clients : x # c => thread[x] \in {"none", "ended"}
    BY <1>1 DEF IInv, Serial
  <1>3. Accepted = Ended \union {c} /\ Started = Ended \union {c} /\ c \notin Ended
    BY <1>2 DEF Accepted, Started, Ended
  <1>4. Cardinality(Ended \union {c}) = Cardinality(Ended) + 1
    BY <1>3, OneMore DEF Ended
  <1>5. /\ count["tcp_connections"] = count["threads_started"]
        /\ count["threads_started"] = count["threads_ended"] + 1
    BY <1>3, <1>4 DEF Exact
  <1>6. Answering = 1
    BY <1>1 DEF Answering, Answered
  <1>7. count["metrics_requests"] \in 1..count["threads_started"]
    BY <1>5, <1>6 DEF RequestsBounded, IInv, Own, Counters
  <1> QED BY <1>5, <1>7 DEF Good

LEMMA BoundStep == IInv /\ Exact /\ RequestsBounded /\ [Next]_vars => RequestsBounded'
  <1> SUFFICES ASSUME IInv, Exact, RequestsBounded, [Next]_vars PROVE RequestsBounded'
    OBVIOUS
  <1>1. CASE UNCHANGED <<thread, register, count, served>>
    BY <1>1 DEF RequestsBounded, Answering
  <1>2. CASE Next /\ ~FailToAccept
    <2> PICK c \in Clients :
          \/ Connect(c) \/ Send(c) \/ Reset(c) \/ Accept(c)
          \/ LoadStarted(c) \/ StoreStarted(c) \/ Read(c) \/ Handle(c)
          \/ LoadRequests(c) \/ StoreRequests(c) \/ Render(c)
          \/ Write(c) \/ Close(c) \/ LoadEnded(c) \/ StoreEnded(c)
      BY <1>2 DEF Next
    <2> USE DEF Threads, Answered
    <2>1. CASE Connect(c) \/ Send(c) \/ Reset(c)
      BY <2>1, <1>1 DEF Connect, Send, Reset
    <2>2. CASE Accept(c)
      <3>1. \A x \in Clients : thread[x] \in {"none", "ended"}
        BY <2>2, ClientsAssumption DEF IInv, Serial, Accept, Joined
      <3>2. \A x \in Clients : thread'[x] = IF x = c THEN "new" ELSE thread[x]
        BY <2>2 DEF IInv, Shape, Accept
      <3>3. Answering = 0
        BY <3>1 DEF Answering, IInv, Shape, Ids
      <3>4. Answering' = 0
        BY <2>2, <3>2 DEF Answering, Accept
      <3>5. /\ count'["metrics_requests"] = count["metrics_requests"]
            /\ count'["threads_ended"] = count["threads_ended"]
        BY <2>2 DEF Accept, IInv, Own, Counters
      <3> QED BY <3>1, <3>2, <3>3, <3>4, <3>5 DEF RequestsBounded
    <2>3. CASE LoadStarted(c) \/ LoadEnded(c) \/ LoadRequests(c)
      <3>1. PICK here \in {"new", "closed", "handling"}, there \in {"starting", "ending", "counting"} :
              /\ At(c, here, there)
              /\ here \in Answered => there \in Answered
              /\ there = "counting" => register' = [register EXCEPT ![c] = count["metrics_requests"]]
              /\ UNCHANGED <<count, served>>
        BY <2>3 DEF LoadStarted, LoadEnded, LoadRequests, Load
      <3> QED BY <3>1, BoundWalk DEF IInv, Own
    <2>4. CASE Read(c)
      <3>1. PICK there \in {"handling", "writing"} : At(c, "reading", there)
        BY <2>4 DEF Read
      <3> QED BY <2>4, <3>1, BoundWalk DEF Read
    <2>5. CASE Handle(c) \/ Render(c) \/ Write(c) \/ Close(c)
      <3>1. PICK here \in {"handling", "rendering", "writing", "closing"}, there \in {"writing", "closing", "closed"} :
              At(c, here, there)
        BY <2>5 DEF Handle, Render, Write, Close
      <3>2. UNCHANGED <<count, served>>
        BY <2>5 DEF Handle, Render, Write, Close
      <3> QED BY <3>1, <3>2, BoundWalk
    <2>6. ASSUME NEW k \in Counters, NEW here \in Threads, NEW there \in Threads,
                 At(c, here, there), served' = served,
                 count' = [count EXCEPT ![k] = Incremented(register[c])],
                 \/ k = "threads_started" /\ here = "starting" /\ there = "reading"
                 \/ k = "metrics_requests" /\ here = "counting" /\ there = "rendering"
                 \/ k = "threads_ended" /\ here = "ending" /\ there = "ended"
          PROVE  RequestsBounded'
      <3>1. served = c /\ c # NoClient /\ thread[c] = here /\ served' = c
        BY <2>6, Running DEF At
      <3>2. \A x \in Clients : thread'[x] = IF x = c THEN there ELSE thread[x]
        BY <2>6 DEF At, IInv, Shape
      <3>3. \A x \in Clients : x # c => thread'[x] \in {"none", "ended"}
        BY <3>1, <3>2 DEF IInv, Serial
      <3>4. register[c] = count[k]
        BY <2>6, <3>1 DEF Exact, Loaded, RequestsBounded
      <3>5. \A j \in Counters : count'[j] = IF j = k THEN count[j] + 1 ELSE count[j]
        BY <2>6, <3>4 DEF Incremented, IInv, Own
      <3>6. /\ Answering = IF here = "ending" THEN 1 ELSE 0
            /\ Answering' = IF there = "rendering" THEN 1 ELSE 0
        BY <2>6, <3>1, <3>2 DEF Answering
      <3>7. count \in [Counters -> Nat]
        BY DEF IInv, Own
      <3>8. /\ count'["metrics_requests"] <= count'["threads_ended"] + Answering'
            /\ there = "rendering" => count'["metrics_requests"] >= 1
        BY <2>6, <3>5, <3>6, <3>7 DEF RequestsBounded, Counters
      <3> QED BY <2>6, <3>2, <3>3, <3>8 DEF RequestsBounded
    <2>7. CASE StoreStarted(c) \/ StoreRequests(c) \/ StoreEnded(c)
      BY <2>7, <2>6 DEF StoreStarted, StoreRequests, StoreEnded, Store, Counters
    <2> QED BY <2>1, <2>2, <2>3, <2>4, <2>5, <2>7
  <1>3. CASE UNCHANGED vars \/ FailToAccept
    BY <1>1, <1>3 DEF vars, FailToAccept
  <1> QED BY <1>2, <1>3

LEMMA PagesStep == IInv /\ Exact /\ RequestsBounded /\ PagesGood /\ [Next]_vars => PagesGood'
  <1> SUFFICES ASSUME IInv, Exact, RequestsBounded, PagesGood, [Next]_vars PROVE PagesGood'
    OBVIOUS
  <1>1. CASE UNCHANGED <<response, received>>
    BY <1>1 DEF PagesGood
  <1>2. CASE Next /\ ~FailToAccept
    <2> PICK c \in Clients :
          \/ Connect(c) \/ Send(c) \/ Reset(c) \/ Accept(c)
          \/ LoadStarted(c) \/ StoreStarted(c) \/ Read(c) \/ Handle(c)
          \/ LoadRequests(c) \/ StoreRequests(c) \/ Render(c)
          \/ Write(c) \/ Close(c) \/ LoadEnded(c) \/ StoreEnded(c)
      BY <1>2 DEF Next
    <2>1. CASE Handle(c)
      BY <2>1 DEF Handle, PagesGood, Good, NoAnswer, IInv, Own
    <2>2. CASE Render(c)
      <3>1. Good(count)
        BY <2>2, OneMoment DEF Render, At
      <3>2. \A x \in Clients : response'[x].page = IF x = c THEN count ELSE response[x].page
        BY <2>2 DEF Render, IInv, Own
      <3>3. received' = received
        BY <2>2 DEF Render
      <3> QED BY <3>1, <3>2, <3>3 DEF PagesGood
    <2>3. CASE Write(c)
      <3>1. \A x \in Clients : received'[x] \in {response[c], received[x]}
        BY <2>3 DEF Write
      <3>2. response' = response
        BY <2>3 DEF Write
      <3> QED BY <3>1, <3>2 DEF PagesGood
    <2>4. CASE StoreEnded(c)
      <3>1. \A x \in Clients : response'[x].page \in {response[x].page, NoPage}
        BY <2>4 DEF StoreEnded, IInv, Own, NoAnswer
      <3>2. received' = received
        BY <2>4 DEF StoreEnded
      <3> QED BY <3>1, <3>2 DEF PagesGood, Good
    <2>5. CASE /\ ~Handle(c) /\ ~Render(c) /\ ~Write(c) /\ ~StoreEnded(c)
      BY <2>5, <1>1 DEF Connect, Send, Reset, Accept, Load, Store, LoadStarted, StoreStarted, Read,
         LoadRequests, StoreRequests, Close, LoadEnded
    <2> QED BY <2>1, <2>2, <2>3, <2>4, <2>5
  <1>3. CASE UNCHANGED vars \/ FailToAccept
    BY <1>1, <1>3 DEF vars, FailToAccept
  <1> QED BY <1>2, <1>3

\* A page of counters is a snapshot, for any number of clients: get_metrics() walks the counters one
\* by one, but no other thread runs.
THEOREM PagesAreSnapshots == Spec => []PageConsistent
  <1>1. Init => IInv /\ Exact /\ RequestsBounded /\ PagesGood
    BY ServerInit, ExactInit, PagesInit
  <1>2. IInv /\ Exact /\ RequestsBounded /\ PagesGood /\ [Next]_vars =>
          (IInv /\ Exact /\ RequestsBounded /\ PagesGood)'
    BY ServerStep, ExactStep, BoundStep, PagesStep
  <1>3. PagesGood => PageConsistent
    BY DEF PagesGood, PageConsistent, Good
  <1> QED BY <1>1, <1>2, <1>3, PTL DEF Spec

-----------------------------------------------------------------------------
\* What may be answered to request r: its code, or the refusal of a part of it.
CodesFor(r) == {0, 505} \union {Code(x) : x \in TakenFor(r)}
PageFor(r) == \E x \in TakenFor(r) : AsksForPage(x)
Fitting(a, c) == a.code \in CodesFor(asked[c]) /\ (a.page # NoPage => PageFor(asked[c]))

\* The fourth invariant: a client does not ask again once its thread may have read something, and
\* what the thread has is a part of the request.
FitsOf(c) ==
  /\ wire[c] \in {"none", "connecting"} => thread[c] = "none"
  /\ wire[c] \in {"none", "connecting", "quiet"} =>
       /\ thread[c] \in {"none", "new", "starting", "reading"}
       /\ buffer[c] = NoBuffer /\ response[c] = NoAnswer /\ received[c] = NoAnswer
  /\ buffer[c].words = << >> \/ buffer[c].words \in Arrived(asked[c])
  /\ thread[c] \in {"counting", "rendering"} => AsksForPage(buffer[c].words)
  /\ Fitting(response[c], c) /\ Fitting(received[c], c)

Fits == wire \in [Clients -> Wires] /\ \A c \in Clients : FitsOf(c)

LEMMA FitsInit == Init => Fits
  BY DEF Init, Fits, FitsOf, Fitting, CodesFor, NoAnswer, NoBuffer, Wires

\* A part of a request is refused, or taken for what it is a part of.
LEMMA PartOf ==
  ASSUME NEW r, Sent(r), NEW w \in Arrived(r)
  PROVE  Code(w) \in CodesFor(r) /\ (AsksForPage(w) => PageFor(r))
  <1>1. PICK n \in 2 .. Len(r) :
          /\ Len(w) = n /\ \A i \in 1 .. n - 1 : w[i] = r[i]
          /\ w[n] = r[n] \/ w[n] \in Halves[r[n]]
    BY ArrivedParts
  <1>2. Len(r) \in Nat
    BY LenProperties DEF Sent
  <1>3. Len(w) = n
    BY <1>1
  <1>4. \A i \in 1 .. n - 1 : w[i] = r[i]
    BY <1>1
  <1>5. n \in Int /\ 2 <= n /\ n <= Len(r)
    BY <1>2
  <1>6. CASE n = 2
    <2>1. Code(w) = 505
      <3>1. Len(w) = 2
        BY <1>6, <1>3
      <3> QED BY <3>1 DEF Code
    <2> QED BY <2>1 DEF CodesFor, AsksForPage
  <1>7. CASE n >= 3
    <2>1. Len(w) >= 3 /\ Len(r) >= 3 /\ w[1] = r[1] /\ w[2] = r[2]
      <3>1. 1 \in 1 .. n - 1 /\ 2 \in 1 .. n - 1
        BY <1>7, <1>5
      <3>2. w[1] = r[1] /\ w[2] = r[2]
        BY <1>4, <3>1
      <3>3. Len(w) >= 3 /\ Len(r) >= 3
        BY <1>2, <1>7, <1>3, <1>5
      <3> QED BY <3>2, <3>3
    <2>2. CASE w[3] = r[3]
      <3>1. Code(w) = Code(r) /\ (AsksForPage(w) <=> AsksForPage(r))
        BY <1>1, <1>2, <2>1, <2>2 DEF Code, AsksForPage
      <3>2. r \in TakenFor(r)
        BY DEF TakenFor
      <3> QED BY <3>1, <3>2 DEF CodesFor, PageFor
    <2>3. CASE w[3] # r[3]
      <3>1. w[3] \in Halves[r[3]]
        <4>1. n = 3
          <5>1. 3 \notin 1 .. n - 1
            BY <1>4, <2>3
          <5> QED BY <1>7, <1>5, <5>1
        <4> QED BY <1>1, <2>3, <4>1
      <3>2. CASE w[3] = "HTTP/1.1"
        <4>1. PICK x : x = <<r[1], r[2], "HTTP/1.1">>
          OBVIOUS
        <4>2. CutToVersion(r)
          BY <1>2, <2>1, <3>1, <3>2 DEF CutToVersion
        <4>3. x \in TakenFor(r)
          BY <4>1, <4>2 DEF TakenFor
        <4>4. Len(x) = 3 /\ x[1] = w[1] /\ x[2] = w[2] /\ x[3] = w[3]
          BY <2>1, <3>2, <4>1
        <4>5. Code(w) = Code(x) /\ (AsksForPage(w) <=> AsksForPage(x))
          BY <1>1, <2>1, <4>4 DEF Code, AsksForPage
        <4> QED BY <4>3, <4>5 DEF CodesFor, PageFor
      <3>3. CASE w[3] # "HTTP/1.1"
        <4>1. Code(w) = 505
          BY <2>1, <3>3 DEF Code
        <4> QED BY <4>1 DEF CodesFor, AsksForPage
      <3> QED BY <3>2, <3>3
    <2> QED BY <2>2, <2>3
  <1> QED BY <1>6, <1>7

\* What a thread has read of its client's request, if it has read anything.
LEMMA PartRead ==
  ASSUME IInv, Fits, NEW c \in Clients
  PROVE  /\ Code(buffer[c].words) \in CodesFor(asked[c])
         /\ AsksForPage(buffer[c].words) => PageFor(asked[c])
  <1>1. Sent(asked[c])
    BY FirstsAreSent DEF IInv, Own
  <1>2. CASE buffer[c].words \in Arrived(asked[c])
    BY <1>1, <1>2, PartOf
  <1>3. CASE buffer[c].words = << >>
    <2>1. Code(buffer[c].words) = 505
      BY <1>3, EmptySeq DEF Code
    <2> QED BY <2>1 DEF AsksForPage, CodesFor
  <1> QED BY <1>2, <1>3 DEF Fits, FitsOf

\* A step that changes nothing of any other client.
LEMMA FitsOthers ==
  ASSUME IInv, Fits, NEW c \in Clients, FitsOf(c)', wire' \in [Clients -> Wires],
         \A x \in Clients : x # c =>
           /\ wire'[x] = wire[x] /\ thread'[x] = thread[x] /\ buffer'[x] = buffer[x] /\ asked'[x] = asked[x]
           /\ response'[x] = response[x] /\ received'[x] = received[x]
  PROVE  Fits'
  <1>1. ASSUME NEW x \in Clients, x # c PROVE FitsOf(x)'
    BY <1>1 DEF Fits, FitsOf, Fitting
  <1> QED BY <1>1 DEF Fits

LEMMA FitsClients ==
  ASSUME IInv, Fits, NEW c \in Clients, Connect(c) \/ Send(c) \/ Reset(c)
  PROVE  Fits'
  <1>1. \A x \in Clients : x # c => wire'[x] = wire[x] /\ asked'[x] = asked[x]
    BY DEF Connect, Send, Reset, Fits, IInv, Own
  <1>2. wire' \in [Clients -> Wires]
    BY DEF Connect, Send, Reset, Fits, Wires
  <1>3. UNCHANGED <<thread, buffer, response, received>>
    BY DEF Connect, Send, Reset
  <1>4. FitsOf(c)
    BY DEF Fits
  <1>5. FitsOf(c)'
    <2>1. CASE Connect(c)
      BY <2>1, <1>4 DEF Connect, FitsOf, Fitting, Fits
    <2>2. CASE Send(c)
      <3>1. buffer[c] = NoBuffer /\ response[c] = NoAnswer /\ received[c] = NoAnswer
        BY <2>2, <1>4 DEF Send, FitsOf
      <3>2. wire'[c] \in {"end", "request"}
        BY <2>2 DEF Send, Fits
      <3>3. wire[c] \in {"connecting", "quiet"} /\ thread[c] \notin {"counting", "rendering"}
        BY <2>2, <1>4 DEF Send, FitsOf
      <3> QED BY <1>3, <3>1, <3>2, <3>3 DEF FitsOf, Fitting, CodesFor, NoBuffer, NoAnswer
    <2>3. CASE Reset(c)
      <3>1. wire'[c] = "reset" /\ UNCHANGED asked
        BY <2>3 DEF Reset, Fits
      <3> QED BY <1>3, <1>4, <3>1 DEF FitsOf, Fitting
    <2> QED BY <2>1, <2>2, <2>3
  <1> QED BY <1>1, <1>2, <1>3, <1>5, FitsOthers

\* A step of a thread that has been read for: its client asks no more.
LEMMA Asked ==
  ASSUME IInv, Fits, NEW c \in Clients, thread[c] \notin {"none", "new", "starting", "reading"}
  PROVE  wire[c] \notin {"none", "connecting", "quiet"}
  BY DEF Fits, FitsOf

LEMMA FitsStep == IInv /\ Fits /\ [Next]_vars => Fits'
  <1> SUFFICES ASSUME IInv, Fits, [Next]_vars PROVE Fits'
    OBVIOUS
  <1>1. CASE UNCHANGED vars \/ FailToAccept
    BY <1>1 DEF vars, FailToAccept, Fits, FitsOf, Fitting
  <1>2. CASE Next /\ ~FailToAccept
    <2> PICK c \in Clients :
          \/ Connect(c) \/ Send(c) \/ Reset(c) \/ Accept(c)
          \/ LoadStarted(c) \/ StoreStarted(c) \/ Read(c) \/ Handle(c)
          \/ LoadRequests(c) \/ StoreRequests(c) \/ Render(c)
          \/ Write(c) \/ Close(c) \/ LoadEnded(c) \/ StoreEnded(c)
      BY <1>2 DEF Next
    <2>a. FitsOf(c) /\ wire \in [Clients -> Wires]
      BY DEF Fits
    <2>b. /\ thread \in [Clients -> Threads]
          /\ buffer \in [Clients -> [of : Ids, words : Seq(STRING)]]
          /\ response \in [Clients -> [of : Ids, code : Codes, page : [Counters -> Nat]]]
          /\ received \in [Clients -> [of : Ids, code : Codes, page : [Counters -> Nat]]]
      BY DEF IInv, Shape, Own
    <2>1. CASE Connect(c) \/ Send(c) \/ Reset(c)
      BY <2>1, FitsClients
    <2>2. CASE Accept(c)
      <3>1. /\ wire' = [wire EXCEPT ![c] = "quiet"] /\ thread' = [thread EXCEPT ![c] = "new"]
            /\ wire[c] = "connecting" /\ UNCHANGED <<asked, buffer, response, received>>
        BY <2>2 DEF Accept
      <3>2. FitsOf(c)'
        BY <3>1, <2>a, <2>b DEF FitsOf, Fitting
      <3> QED BY <3>1, <3>2, <2>a, <2>b, FitsOthers DEF Wires
    <2>3. ASSUME NEW here, NEW there, At(c, here, there), here # "none",
                 here \in {"new", "starting"} => there \in {"starting", "reading"},
                 here # "reading",
                 there = "rendering" => here = "counting",
                 there = "counting" => AsksForPage(buffer[c].words),
                 UNCHANGED <<wire, asked, buffer, response, received>>
          PROVE  Fits'
      <3>1. thread[c] = here /\ thread' = [thread EXCEPT ![c] = there]
        BY <2>3 DEF At
      <3>2. FitsOf(c)'
        BY <2>3, <3>1, <2>a, <2>b DEF FitsOf, Fitting
      <3> QED BY <2>3, <3>1, <3>2, <2>a, <2>b, FitsOthers
    <2>4. CASE LoadStarted(c) \/ StoreStarted(c) \/ LoadRequests(c) \/ StoreRequests(c) \/ Close(c) \/ LoadEnded(c)
      BY <2>4, <2>3 DEF LoadStarted, StoreStarted, LoadRequests, StoreRequests, Close, LoadEnded, Load, Store
    <2>5. CASE Read(c)
      <3>1. PICK there \in {"handling", "writing"} : At(c, "reading", there)
        BY <2>5 DEF Read
      <3>2. Peer = c /\ c # NoClient
        BY <3>1, PeerIsOwn, ClientsAssumption DEF At
      <3>3. thread[c] = "reading" /\ thread' = [thread EXCEPT ![c] = there] /\ UNCHANGED <<wire, asked, response, received>>
        BY <2>5, <3>1 DEF Read, At
      <3>4. wire[c] \notin {"none", "connecting", "quiet"}
        BY <2>5, <3>2, <3>3, <2>a DEF Read, Readable, FitsOf
      <3>5. buffer' = buffer \/ \E w \in Arrived(asked[c]) : buffer' = [buffer EXCEPT ![c] = [of |-> c, words |-> w]]
        BY <2>5, <3>2 DEF Read
      <3>6. /\ buffer'[c].words = buffer[c].words \/ buffer'[c].words \in Arrived(asked[c])
            /\ \A x \in Clients : x # c => buffer'[x] = buffer[x]
        BY <3>5, <2>b
      <3>7. FitsOf(c)'
        BY <3>3, <3>4, <3>6, <2>a, <2>b DEF FitsOf, Fitting
      <3> QED BY <3>3, <3>6, <3>7, <2>a, <2>b, FitsOthers
    <2>6. ASSUME NEW a, NEW here \in {"handling", "rendering"}, At(c, here, "writing"), Fitting(a, c),
                 response' = [response EXCEPT ![c] = a],
                 UNCHANGED <<wire, asked, buffer, received>>
          PROVE  Fits'
      <3>1. thread[c] = here /\ thread' = [thread EXCEPT ![c] = "writing"]
        BY <2>6 DEF At
      <3>2. wire[c] \notin {"none", "connecting", "quiet"}
        BY <3>1, Asked
      <3>3. FitsOf(c)'
        BY <2>6, <3>1, <3>2, <2>a, <2>b DEF FitsOf, Fitting
      <3> QED BY <2>6, <3>1, <3>3, <2>a, <2>b, FitsOthers
    <2>7. CASE Handle(c)
      <3> DEFINE a == [NoAnswer EXCEPT !.of = buffer[c].of, !.code = Code(buffer[c].words)]
      <3>1. a.code = Code(buffer[c].words) /\ a.page = NoPage
        BY DEF NoAnswer
      <3>2. Fitting(a, c)
        BY <3>1, PartRead DEF Fitting
      <3> QED BY <2>7, <3>2, <2>6 DEF Handle
    <2>8. CASE Render(c)
      <3> DEFINE a == [of |-> buffer[c].of, code |-> 200, page |-> count]
      <3>1. PageFor(asked[c]) /\ a.code = 200
        BY <2>8, <2>a, PartRead DEF Render, At, FitsOf
      <3>2. Fitting(a, c)
        BY <3>1 DEF Fitting, PageFor, CodesFor, AsksForPage
      <3> QED BY <2>8, <3>2, <2>6 DEF Render
    <2>9. CASE Write(c)
      <3>1. /\ thread[c] = "writing" /\ thread' = [thread EXCEPT ![c] = "closing"]
            /\ UNCHANGED <<wire, asked, buffer, response>>
        BY <2>9 DEF Write, At
      <3>2. Peer = c
        BY <3>1, PeerIsOwn
      <3>3. \A x \in Clients : received'[x] \in {received[x], IF x = c THEN response[c] ELSE received[x]}
        BY <2>9, <3>2 DEF Write
      <3>4. wire[c] \notin {"none", "connecting", "quiet"}
        BY <3>1, Asked
      <3>5. FitsOf(c)'
        <4>1. thread'[c] = "closing" /\ wire'[c] \notin {"none", "connecting", "quiet"}
          BY <3>1, <3>4, <2>b
        <4>2. Fitting(response[c], c) /\ Fitting(received[c], c) /\ asked' = asked /\ response'[c] = response[c]
          BY <3>1, <2>a DEF FitsOf
        <4>3. received'[c] = received[c] \/ received'[c] = response[c]
          BY <3>3
        <4>4. Fitting(response[c], c)' /\ Fitting(received[c], c)'
          BY <4>2, <4>3 DEF Fitting
        <4>5. buffer'[c].words = << >> \/ buffer'[c].words \in Arrived(asked'[c])
          BY <3>1, <2>a DEF FitsOf
        <4> QED BY <4>1, <4>4, <4>5 DEF FitsOf
      <3> QED BY <3>1, <3>3, <3>5, <2>a, <2>b, FitsOthers
    <2>10. CASE StoreEnded(c)
      <3>1. /\ thread[c] = "ending" /\ thread' = [thread EXCEPT ![c] = "ended"]
            /\ buffer' = [buffer EXCEPT ![c] = NoBuffer] /\ response' = [response EXCEPT ![c] = NoAnswer]
            /\ UNCHANGED <<wire, asked, received>>
        BY <2>10 DEF StoreEnded, At
      <3>2. wire[c] \notin {"none", "connecting", "quiet"}
        BY <3>1, Asked
      <3>3. FitsOf(c)'
        <4>1. thread'[c] = "ended" /\ wire'[c] \notin {"none", "connecting", "quiet"}
          BY <3>1, <3>2, <2>b
        <4>2. buffer'[c].words = << >>
          BY <3>1, <2>b DEF NoBuffer
        <4>3. Fitting(response[c], c)' /\ Fitting(received[c], c)'
          <5>1. response'[c] = NoAnswer /\ received'[c] = received[c] /\ asked'[c] = asked[c]
            BY <3>1, <2>b
          <5>2. Fitting(received[c], c)
            BY <2>a DEF FitsOf
          <5> QED BY <5>1, <5>2 DEF Fitting, CodesFor, NoAnswer
        <4> QED BY <4>1, <4>2, <4>3 DEF FitsOf
      <3> QED BY <3>1, <3>3, <2>a, <2>b, FitsOthers
    <2> QED BY <2>1, <2>2, <2>4, <2>5, <2>7, <2>8, <2>9, <2>10
  <1> QED BY <1>1, <1>2

\* What a client receives is the answer to what it asked or a refusal, for any requests and however
\* little of one read() returns.
THEOREM AnswersFit == Spec => []AnswerFitsRequest
  <1>1. Init => IInv /\ Fits
    BY ServerInit, FitsInit
  <1>2. IInv /\ Fits /\ [Next]_vars => (IInv /\ Fits)'
    BY ServerStep, FitsStep
  <1>3. Fits => AnswerFitsRequest
    BY DEF Fits, FitsOf, Fitting, CodesFor, PageFor, AnswerFitsRequest
  <1> QED BY <1>1, <1>2, <1>3, PTL DEF Spec

-----------------------------------------------------------------------------
\* What a buffer may hold of a request, and the pages an answer may show.
Parts == {<< >>} \union UNION {Arrived(r) : r \in Requests}
Pages == [Counters -> Values]

\* The fifth invariant, about the values that are copied from the counters and from the requests.
Copied ==
  /\ asked \in [Clients -> Requests \union {<< >>}] /\ up \in BOOLEAN
  /\ \A c \in Clients :
       /\ register[c] \in Values /\ buffer[c].words \in Parts
       /\ response[c].page \in Pages /\ received[c].page \in Pages

\* No counter exceeds the number of clients: each of them is past an increment once.
LEMMA CountersBounded ==
  ASSUME IInv, Exact, RequestsBounded
  PROVE  count \in Pages
  <1>1. IsFiniteSet(Clients) /\ Cardinality(Clients) \in Nat
    BY ClientsAssumption, FS_CardinalityType
  <1>2. \A S \in SUBSET Clients : Cardinality(S) \in Values
    <2> TAKE S \in SUBSET Clients
    <2>1. IsFiniteSet(S) /\ Cardinality(S) <= Cardinality(Clients)
      BY <1>1, FS_Subset
    <2>2. Cardinality(S) \in Nat
      BY <2>1, FS_CardinalityType
    <2> QED BY <1>1, <2>1, <2>2 DEF Values
  <1>3. /\ count["tcp_connections"] \in Values /\ count["threads_started"] \in Values
        /\ count["threads_ended"] \in Values
    BY <1>2 DEF Exact, Accepted, Started, Ended
  <1>4. count \in [Counters -> Nat]
    BY DEF IInv, Own
  <1>5. count["metrics_requests"] \in Values
    <2>1. CASE Answering = 0
      BY <1>1, <1>3, <1>4, <2>1 DEF RequestsBounded, Values, Counters
    <2>2. CASE Answering # 0
      <3>1. Answering = 1 /\ served \in Clients /\ served \notin Ended
        BY <2>2 DEF Answering, Answered, Ended, IInv, Shape, Ids
      <3>2. Cardinality(Ended \union {served}) = Cardinality(Ended) + 1
        BY <3>1, OneMore DEF Ended
      <3>3. Cardinality(Ended \union {served}) \in Values
        BY <1>2, <3>1 DEF Ended
      <3>4. count["metrics_requests"] <= Cardinality(Ended \union {served})
        BY <3>1, <3>2 DEF RequestsBounded, Exact
      <3> QED BY <1>1, <1>4, <3>3, <3>4 DEF Values, Counters
    <2> QED BY <2>1, <2>2
  <1>6. \A k \in Counters : count[k] \in Values
    BY <1>3, <1>5 DEF Counters
  <1> QED BY <1>4, <1>6 DEF Pages

LEMMA CopiedInit == Init => Copied
  <1> SUFFICES ASSUME Init PROVE Copied
    OBVIOUS
  <1>1. Cardinality(Clients) \in Nat
    BY ClientsAssumption, FS_CardinalityType
  <1>2. 0 \in Values
    BY <1>1 DEF Values
  <1>3. NoPage \in Pages
    BY <1>2 DEF NoPage, Pages
  <1> QED BY <1>2, <1>3 DEF Init, Copied, NoAnswer, NoBuffer, Parts

LEMMA CopiedStep == IInv /\ Exact /\ RequestsBounded /\ Copied /\ [Next]_vars => Copied'
  <1> SUFFICES ASSUME IInv, Exact, RequestsBounded, Copied, [Next]_vars PROVE Copied'
    OBVIOUS
  <1>0. count \in Pages /\ NoPage \in Pages /\ 0 \in Values /\ \A k \in Counters : count[k] \in Values
    <2>1. count \in Pages
      BY CountersBounded
    <2>2. Cardinality(Clients) \in Nat
      BY ClientsAssumption, FS_CardinalityType
    <2>3. 0 \in Values
      BY <2>2 DEF Values
    <2> QED BY <2>1, <2>3 DEF Pages, NoPage
  <1>1. CASE UNCHANGED <<asked, up, register, buffer, response, received>>
    BY <1>1 DEF Copied
  <1>2. ASSUME NEW c \in Clients, Send(c) PROVE Copied'
    BY <1>2 DEF Send, Copied
  <1>3. ASSUME NEW c \in Clients, LoadStarted(c) \/ LoadRequests(c) \/ LoadEnded(c) PROVE Copied'
    <2>1. /\ \E k \in Counters : register' = [register EXCEPT ![c] = count[k]]
          /\ UNCHANGED <<asked, up, buffer, response, received>>
      BY <1>3 DEF LoadStarted, LoadRequests, LoadEnded, Load, Counters
    <2>2. register \in [Clients -> Nat]
      BY DEF IInv, Own
    <2> QED BY <1>0, <2>1, <2>2 DEF Copied
  <1>4. ASSUME NEW c \in Clients, Read(c) PROVE Copied'
    <2>1. UNCHANGED <<asked, up, register, response, received>>
      BY <1>4 DEF Read, At
    <2>2. ASSUME Peer # NoClient, NEW words \in Arrived(asked[Peer]),
                 buffer' = [buffer EXCEPT ![c] = [of |-> Peer, words |-> words]]
          PROVE  \A x \in Clients : buffer'[x].words \in Parts
      <3>1. Peer \in Clients
        BY <2>2 DEF Peer, IInv, Shape, Ids
      <3>2. asked[Peer] \in Requests
        <4>1. Arrived(<< >>) = {}
          BY DEF Arrived
        <4> QED BY <2>2, <3>1, <4>1 DEF Copied
      <3>3. words \in Parts
        BY <2>2, <3>2 DEF Parts
      <3>4. buffer \in [Clients -> [of : Ids, words : Seq(STRING)]]
        BY DEF IInv, Own
      <3> QED BY <2>2, <3>3, <3>4 DEF Copied
    <2>3. \A x \in Clients : buffer'[x].words \in Parts
      BY <1>4, <2>2 DEF Read, HasText, Copied
    <2> QED BY <2>1, <2>3 DEF Copied
  <1>5. ASSUME NEW c \in Clients, Handle(c) \/ Render(c) PROVE Copied'
    <2>1. UNCHANGED <<asked, up, register, buffer, received>>
      BY <1>5 DEF Handle, Render, At
    <2>2. response \in [Clients -> [of : Ids, code : Codes, page : [Counters -> Nat]]]
      BY DEF IInv, Own
    <2>3. \A x \in Clients : response'[x].page \in {response[x].page, NoPage, count}
      <3>1. CASE Handle(c)
        <4>1. [NoAnswer EXCEPT !.of = buffer[c].of, !.code = Code(buffer[c].words)].page = NoPage
          BY DEF NoAnswer
        <4> QED BY <2>2, <3>1, <4>1 DEF Handle
      <3>2. CASE Render(c)
        BY <2>2, <3>2 DEF Render
      <3> QED BY <1>5, <3>1, <3>2
    <2> QED BY <1>0, <2>1, <2>3 DEF Copied
  <1>6. ASSUME NEW c \in Clients, Write(c) PROVE Copied'
    <2>1. \A x \in Clients : received'[x] \in {received[x], response[c]}
      BY <1>6 DEF Write
    <2>2. up' \in BOOLEAN /\ UNCHANGED <<asked, register, buffer, response>>
      BY <1>6 DEF Write, Copied
    <2> QED BY <2>1, <2>2 DEF Copied
  <1>7. ASSUME NEW c \in Clients, StoreEnded(c) PROVE Copied'
    <2>1. /\ register \in [Clients -> Nat] /\ buffer \in [Clients -> [of : Ids, words : Seq(STRING)]]
          /\ response \in [Clients -> [of : Ids, code : Codes, page : [Counters -> Nat]]]
      BY DEF IInv, Own
    <2>2. << >> \in Parts
      BY DEF Parts
    <2>3. \A x \in Clients : /\ register'[x] \in {register[x], 0}
                             /\ buffer'[x].words \in {buffer[x].words, << >>}
                             /\ response'[x].page \in {response[x].page, NoPage}
      BY <1>7, <2>1 DEF StoreEnded, NoBuffer, NoAnswer
    <2>4. UNCHANGED <<asked, up, received>>
      BY <1>7 DEF StoreEnded, At
    <2> QED BY <1>0, <2>2, <2>3, <2>4 DEF Copied
  <1>8. ASSUME NEW c \in Clients,
               Connect(c) \/ Reset(c) \/ Accept(c) \/ StoreStarted(c) \/ StoreRequests(c) \/ Close(c)
        PROVE  Copied'
    BY <1>1, <1>8 DEF Connect, Reset, Accept, StoreStarted, StoreRequests, Store, Close, At
  <1>9. CASE UNCHANGED vars
    BY <1>1, <1>9 DEF vars
  <1>10. CASE FailToAccept
    BY <1>10 DEF FailToAccept, Copied
  <1> QED BY <1>2, <1>3, <1>4, <1>5, <1>6, <1>7, <1>8, <1>9, <1>10 DEF Next

\* Every variable of the server has its type in every reachable state; no counter and no page exceeds
\* the number of clients.
THEOREM ServerTypeCorrect == Spec => []TypeOK
  <1>1. Init => IInv /\ Exact /\ RequestsBounded /\ Fits /\ Copied
    BY ServerInit, ExactInit, PagesInit, FitsInit, CopiedInit
  <1>2. IInv /\ Exact /\ RequestsBounded /\ Fits /\ Copied /\ [Next]_vars =>
          (IInv /\ Exact /\ RequestsBounded /\ Fits /\ Copied)'
    BY ServerStep, ExactStep, BoundStep, FitsStep, CopiedStep
  <1>3. IInv /\ Exact /\ RequestsBounded /\ Fits /\ Copied => TypeOK
    <2> SUFFICES ASSUME IInv, Exact, RequestsBounded, Fits, Copied PROVE TypeOK
      OBVIOUS
    <2>1. count \in Pages
      BY CountersBounded
    <2>2. wire \in [Clients -> Wires]
      BY DEF Fits
    <2>3. register \in [Clients -> Values]
      BY DEF IInv, Own, Copied
    <2>4. buffer \in [Clients -> [of : Clients \union {NoClient}, words : Parts]]
      BY DEF IInv, Own, Copied, Ids
    <2>5. response \in [Clients -> Answers] /\ received \in [Clients -> Answers]
      BY DEF IInv, Own, Copied, Ids, Answers, Pages
    <2> QED BY <2>1, <2>2, <2>3, <2>4, <2>5 DEF TypeOK, IInv, Shape, Copied, Ids, Parts, Pages
  <1> QED BY <1>1, <1>2, <1>3, PTL DEF Spec
=============================================================================
