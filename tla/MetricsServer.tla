---------------------------- MODULE MetricsServer ----------------------------
(***************************************************************************)
(* The metrics server: the accept loop of slim_common_network_listener.cpp *)
(* with the connection handler, the request handler and the counters it    *)
(* starts.  Every connection is handled by a thread of its own, created    *)
(* with std::async; the future of that thread is a local variable of the   *)
(* loop, and its destructor waits for the thread before the next accept(). *)
(* The handler reaches its socket through a reference to another local     *)
(* variable of the loop, client_connection_information.                    *)
(*                                                                         *)
(* A counter is a std::atomic, but inc() is `count = count + 1': a load    *)
(* and a store.  The two are separate steps here.                          *)
(***************************************************************************)
EXTENDS HttpRequest, FiniteSets

CONSTANTS
  Clients,        \* the clients; each connects once
  NoClient,       \* a descriptor that is not open, an answer to nobody
  Descriptors,    \* file descriptors the process may be given, reused when closed
  Requests        \* the first lines the clients send, as sequences of words; the empty one begins
                  \* with a NUL

ASSUME ClientsAssumption == NoClient \notin Clients /\ IsFiniteSet(Clients)
ASSUME RequestsAssumption ==
  \A r \in Requests : r \in Seq(STRING) /\ \A i \in DOMAIN r : Halves[r[i]] \subseteq STRING

VARIABLES
  wire,           \* what has reached the server from a client
  asked,          \* the request a client has sent
  sockets,        \* the descriptor table: the client at the other end
  information,    \* client_connection_information.socket_handle
  served,         \* the client whose thread the loop waits for
  thread,         \* where the thread of a client's connection is
  register,       \* the value that thread loaded in inc()
  buffer,         \* read_buffer of that thread: whose request, and which
  response,       \* response_string of that thread
  received,       \* what a client has received
  count,          \* the counters
  up              \* the process runs

vars == <<wire, asked, sockets, information, served, thread, register, buffer, response, received, count, up>>

Counters == {"tcp_connections", "threads_started", "threads_ended", "metrics_requests"}
Values == 0..Cardinality(Clients)
NoPage == [k \in Counters |-> 0]

\* An answer: whose request it answers, its code, and the counters it shows.
NoAnswer == [of |-> NoClient, code |-> 0, page |-> NoPage]
NoBuffer == [of |-> NoClient, words |-> << >>]
Codes == {0, 200, 404, 501, 505}
Answers == [of : Clients \union {NoClient}, code : Codes, page : [Counters -> Values]]

Wires == {"none", "connecting", "quiet", "request", "end", "reset"}
Threads == {"none", "new", "starting", "reading", "handling", "counting", "rendering", "writing",
            "closing", "closed", "ending", "ended"}

TypeOK ==
  /\ wire \in [Clients -> Wires]
  /\ asked \in [Clients -> Requests \union {<< >>}]
  /\ sockets \in [Descriptors -> Clients \union {NoClient}]
  /\ information \in Descriptors
  /\ served \in Clients \union {NoClient}
  /\ thread \in [Clients -> Threads]
  /\ register \in [Clients -> Values]
  /\ buffer \in [Clients -> [of : Clients \union {NoClient}, words : {<< >>} \union UNION {Arrived(r) : r \in Requests}]]
  /\ response \in [Clients -> Answers]
  /\ received \in [Clients -> Answers]
  /\ count \in [Counters -> Values]
  /\ up \in BOOLEAN

Init ==
  /\ wire = [c \in Clients |-> "none"]
  /\ asked = [c \in Clients |-> << >>]
  /\ sockets = [d \in Descriptors |-> NoClient]
  /\ information \in Descriptors          \* not written yet
  /\ served = NoClient
  /\ thread = [c \in Clients |-> "none"]
  /\ register = [c \in Clients |-> 0]
  /\ buffer = [c \in Clients |-> NoBuffer]
  /\ response = [c \in Clients |-> NoAnswer]
  /\ received = [c \in Clients |-> NoAnswer]
  /\ count = NoPage
  /\ up = TRUE

-----------------------------------------------------------------------------
\* Clients, and the kernel between them and the server.

Connect(c) ==
  /\ wire[c] = "none"
  /\ wire' = [wire EXCEPT ![c] = "connecting"]
  /\ UNCHANGED <<asked, sockets, information, served, thread, register, buffer, response, received, count, up>>

\* The client sends a request, or closes without one.
Send(c) ==
  /\ wire[c] \in {"connecting", "quiet"}
  /\ \E d \in Descriptors : sockets[d] = c
  /\ \/ wire' = [wire EXCEPT ![c] = "end"] /\ UNCHANGED asked
     \/ \E r \in Requests : asked' = [asked EXCEPT ![c] = r] /\ wire' = [wire EXCEPT ![c] = "request"]
  /\ UNCHANGED <<sockets, information, served, thread, register, buffer, response, received, count, up>>

\* The client goes away without closing properly.
Reset(c) ==
  /\ wire[c] \in {"request", "quiet"}
  /\ \E d \in Descriptors : sockets[d] = c
  /\ wire' = [wire EXCEPT ![c] = "reset"]
  /\ UNCHANGED <<asked, sockets, information, served, thread, register, buffer, response, received, count, up>>

-----------------------------------------------------------------------------
\* The accept loop.

\* A loop whose future were kept in client_connection_futures.
Joined_Kept == TRUE

\* The loop goes on to accept() when the destructor of the future has joined the thread.
Joined == served # NoClient => thread[served] = "ended"

Incremented_Twice(n) == n + 2
Incremented(n) == n + 1

\* From accept() to the start of the thread.  The loop is the only writer of tcp_connections, so
\* its load and store are one step.
Accept(c) ==
  /\ up
  /\ Joined
  /\ wire[c] = "connecting" /\ thread[c] = "none"
  /\ \E d \in Descriptors :
       /\ sockets[d] = NoClient
       /\ sockets' = [sockets EXCEPT ![d] = c]
       /\ information' = d
  /\ wire' = [wire EXCEPT ![c] = "quiet"]
  /\ count' = [count EXCEPT !["tcp_connections"] = Incremented(@)]
  /\ served' = c
  /\ thread' = [thread EXCEPT ![c] = "new"]
  /\ UNCHANGED <<asked, register, buffer, response, received, up>>

\* accept() or fcntl() fails, for want of descriptors say, and the loop calls exit().
FailToAccept ==
  /\ up
  /\ Joined
  /\ up' = FALSE
  /\ UNCHANGED <<wire, asked, sockets, information, served, thread, register, buffer, response, received, count>>

-----------------------------------------------------------------------------
\* The thread of the connection of client c.

\* The client at the other end of the socket the thread finds in the information it refers to.
Peer == sockets[information]

At(c, here, there) ==
  /\ up
  /\ thread[c] = here
  /\ thread' = [thread EXCEPT ![c] = there]

Load(c, k, here, there) ==
  /\ At(c, here, there)
  /\ register' = [register EXCEPT ![c] = count[k]]
  /\ UNCHANGED <<wire, asked, sockets, information, served, buffer, response, received, count, up>>

Store(c, k, here, there) ==
  /\ At(c, here, there)
  /\ count' = [count EXCEPT ![k] = Incremented(register[c])]
  /\ UNCHANGED <<wire, asked, sockets, information, served, register, buffer, response, received, up>>

LoadStarted(c) == Load(c, "threads_started", "new", "starting")
StoreStarted(c) == Store(c, "threads_started", "starting", "reading")

\* A loop that goes back to select() unless read() returned data.
Readable_Data == Peer # NoClient => wire[Peer] = "request"

\* select() reports the socket readable: data, the end of the stream or an error.
Readable == Peer # NoClient => wire[Peer] \notin {"connecting", "quiet"}

\* read() leaves something else than a NUL at the beginning of the buffer.
HasText == Peer # NoClient /\ wire[Peer] = "request" /\ asked[Peer] # << >>

\* select() and one read(), which returns what has arrived of the request, up to BUFFER_SIZE bytes.
\* Without text the loop ends with an empty response; select() fails on a descriptor that is not
\* open, and the loop ends too.  There is no timeout: read_timeout is stored and not used.  The loop
\* never asks select() about urgent data, so that its branch for it is never taken.
Read(c) ==
  /\ Readable
  /\ \/ /\ HasText
        /\ At(c, "reading", "handling")
        /\ \E words \in Arrived(asked[Peer]) :
             buffer' = [buffer EXCEPT ![c] = [of |-> Peer, words |-> words]]
     \/ /\ ~HasText
        /\ At(c, "reading", "writing")
        /\ UNCHANGED buffer
  /\ UNCHANGED <<wire, asked, sockets, information, served, register, response, received, count, up>>

\* handle_request() for everything but the page of counters.
Handle(c) ==
  /\ ~AsksForPage(buffer[c].words)
  /\ At(c, "handling", "writing")
  /\ response' = [response EXCEPT ![c] =
                    [NoAnswer EXCEPT !.of = buffer[c].of, !.code = Code(buffer[c].words)]]
  /\ UNCHANGED <<wire, asked, sockets, information, served, register, buffer, received, count, up>>

\* get_metrics() counts the request ...
LoadRequests(c) == AsksForPage(buffer[c].words) /\ Load(c, "metrics_requests", "handling", "counting")
StoreRequests(c) == Store(c, "metrics_requests", "counting", "rendering")

\* ... and walks the counters.
Render(c) ==
  /\ At(c, "rendering", "writing")
  /\ response' = [response EXCEPT ![c] = [of |-> buffer[c].of, code |-> 200, page |-> count]]
  /\ UNCHANGED <<wire, asked, sockets, information, served, register, buffer, received, count, up>>

\* select() and send().  To a client that has reset the connection send() fails, which nobody
\* looks at, or raises SIGPIPE, which nobody ignores and which ends the process.
Write(c) ==
  /\ At(c, "writing", "closing")
  /\ received' = [p \in Clients |-> IF p = Peer /\ wire[p] # "reset" THEN response[c] ELSE received[p]]
  /\ up' \in IF Peer # NoClient /\ wire[Peer] = "reset" THEN BOOLEAN ELSE {up}
  /\ UNCHANGED <<wire, asked, sockets, information, served, register, buffer, response, count>>

\* shutdown() and close().
Close(c) ==
  /\ At(c, "closing", "closed")
  /\ sockets' = [sockets EXCEPT ![information] = NoClient]
  /\ UNCHANGED <<wire, asked, information, served, register, buffer, response, received, count, up>>

LoadEnded(c) == Load(c, "threads_ended", "closed", "ending")

\* The last increment; the locals of handle_client_connection() are gone.
StoreEnded(c) ==
  /\ At(c, "ending", "ended")
  /\ count' = [count EXCEPT !["threads_ended"] = Incremented(register[c])]
  /\ register' = [register EXCEPT ![c] = 0]
  /\ buffer' = [buffer EXCEPT ![c] = NoBuffer]
  /\ response' = [response EXCEPT ![c] = NoAnswer]
  /\ UNCHANGED <<wire, asked, sockets, information, served, received, up>>

Next ==
  \/ FailToAccept
  \/ \E c \in Clients :
       \/ Connect(c) \/ Send(c) \/ Reset(c)
       \/ Accept(c)
       \/ LoadStarted(c) \/ StoreStarted(c)
       \/ Read(c)
       \/ Handle(c)
       \/ LoadRequests(c) \/ StoreRequests(c) \/ Render(c)
       \/ Write(c) \/ Close(c)
       \/ LoadEnded(c) \/ StoreEnded(c)

Spec == Init /\ [][Next]_vars

\* The threads are scheduled, and a client that connects sends something: nothing in the code ends
\* the wait for a client that stays silent.
Fairness ==
  \A c \in Clients :
    /\ WF_vars(Send(c))
    /\ WF_vars(Accept(c))
    /\ WF_vars(LoadStarted(c) \/ StoreStarted(c) \/ Read(c) \/ Handle(c) \/ LoadRequests(c)
               \/ StoreRequests(c) \/ Render(c) \/ Write(c) \/ Close(c) \/ LoadEnded(c) \/ StoreEnded(c))

FairSpec == Spec /\ Fairness

-----------------------------------------------------------------------------
\* What a client receives answers its own request: the thread reads, answers and closes the socket
\* of its own client although it reaches it through a local variable of the accept loop.
OwnResponse == \A c \in Clients : received[c].of \in {c, NoClient}

\* Every connection is closed, once, by its own thread: a client has a descriptor exactly while its
\* thread is between accept() and close(), and no descriptor is closed under another client.
SocketsClosed ==
  \A c \in Clients :
    (\E d \in Descriptors : sockets[d] = c) <=> thread[c] \notin {"none", "closed", "ending", "ended"}

\* No increment is lost, although inc() is not atomic: the counters say how many threads have gone
\* past their increments.
CountersExact ==
  /\ count["tcp_connections"] = Cardinality({c \in Clients : thread[c] # "none"})
  /\ count["threads_started"] = Cardinality({c \in Clients : thread[c] \notin {"none", "new", "starting"}})
  /\ count["threads_ended"] = Cardinality({c \in Clients : thread[c] = "ended"})

\* The page of counters a client reads describes one moment: the one thread that runs is the one
\* that answers, every earlier one has ended, and its own request is counted.
PageConsistent ==
  \A c \in Clients :
    LET p == received[c].page
    IN  p = NoPage \/ /\ p["tcp_connections"] = p["threads_started"]
                      /\ p["threads_started"] = p["threads_ended"] + 1
                      /\ p["metrics_requests"] \in 1..p["threads_started"]

\* A request of which only a part has been read is refused: the version comes last on the line and is
\* looked at first, so no part of a request is taken for another request, but for a version that
\* itself begins with HTTP/1.1.
AnswerFitsRequest ==
  \A c \in Clients :
    /\ received[c].code \in {0, 505} \union {Code(words) : words \in TakenFor(asked[c])}
    /\ received[c].page # NoPage => \E words \in TakenFor(asked[c]) : AsksForPage(words)

\* A client that connects is served and its connection closed, unless the process is killed or gives up at accept().
EveryClientServed == \A c \in Clients : wire[c] = "connecting" ~> (thread[c] = "ended" \/ ~up)
=============================================================================
