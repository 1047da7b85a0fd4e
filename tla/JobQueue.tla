------------------------------ MODULE JobQueue ------------------------------
(***************************************************************************)
(* The transpile queue of src/src/slim_queue.cpp, the `queue' plugin in    *)
(* src/src/plugins/queue/queue.cpp, its client in the constructor of       *)
(* import_specifier, and its server, job_loop() of slim_typescript.mjs.    *)
(*                                                                         *)
(* A submitter thread allocates a job, pushes it on a named queue and      *)
(* polls until the job is completed.  A listener thread (a V8 isolate      *)
(* that awaits queue.listen()) polls for a job, receives a JavaScript copy *)
(* of it, compiles, and completes the job by looking its ticket up again.  *)
(* One action is one critical section of queue_mutex, or one stretch of    *)
(* code between two of them.  A poll that finds nothing changes no state   *)
(* and is a stuttering step.                                               *)
(***************************************************************************)
EXTENDS Integers, FiniteSets

CONSTANTS
  QueueNames,     \* keys of the map `queues'
  Submitters,     \* threads that call submit()
  Listeners,      \* isolates that call queue.listen()
  ListensTo,      \* the queue name each listener awaits
  Chunks,         \* heap chunks a job object may occupy
  Files,          \* ingress file names
  NoFile, NoChunk,
  FreshTickets,   \* what the unwritten field ticket_id may hold in a chunk
                  \* that other code used since it last held a job
  Outcomes,       \* what the compiler may do with a job
  IntMax,         \* greatest value of the 32-bit v8::Integer (2^31 - 1)
  MaxTicket       \* bound of the model: tickets issued in a behaviour

ASSUME QueueAssumption ==
  /\ ListensTo \in [Listeners -> QueueNames]
  /\ IsFiniteSet(Chunks) /\ NoChunk \notin Chunks
  /\ NoFile \notin Files /\ Files # {} /\ QueueNames # {}
  /\ FreshTickets \subseteq Int /\ FreshTickets # {}
  /\ Outcomes \subseteq {"emitted", "diagnosed", "skipped", "thrown"}
  /\ IntMax \in Nat /\ MaxTicket \in Nat

VARIABLES
  job,          \* contents of every chunk, as the last job left it
  allocated,    \* chunks that hold a job now
  arrival,      \* order of the pointers in the vectors `queues' (0: absent)
  pushes,       \* arrival number given last
  ticket_id,    \* the global ticket counter
  pc, mine,     \* a submitter's place in the code and its job pointer
  wanted,       \* the file a submitter asked for
  at, ptr,      \* a listener's place in the code and its job pointer
  handed,       \* the JavaScript job object of a listener
  given,        \* history: the job get_job() returned to a listener last
  outcome       \* history: what the compiler did with the job of a chunk

memVars == <<job, allocated, arrival, pushes, ticket_id>>
subVars == <<pc, mine, wanted>>
lisVars == <<at, ptr, handed>>
histVars == <<given, outcome>>
vars == <<memVars, subVars, lisVars, histVars>>

Ticket == Int
Egress == Files \cup {NoFile}
JobRecord ==
  [queue : QueueNames, ingress : Files, egress : Egress, ticket : Ticket,
   ready : BOOLEAN, submitted : BOOLEAN, completed : BOOLEAN, errored : BOOLEAN]
JsJob ==
  [ticket : Ticket, queue : QueueNames, file : Files, egress : Egress]
Verdict == {"emitted", "diagnosed", "skipped", "thrown", "none"}

TypeOK ==
  /\ job \in [Chunks -> JobRecord]
  /\ allocated \subseteq Chunks
  /\ arrival \in [Chunks -> Nat]
  /\ pushes \in Nat
  /\ ticket_id \in Nat
  /\ pc \in [Submitters -> {"idle", "built", "waiting", "observed", "retired"}]
  /\ mine \in [Submitters -> Chunks \cup {NoChunk}]
  /\ wanted \in [Submitters -> Files \cup {NoFile}]
  /\ at \in [Listeners -> {"listening", "got", "compiling", "compiled", "found"}]
  /\ ptr \in [Listeners -> Chunks \cup {NoChunk}]
  /\ handed \in [Listeners -> JsJob]
  /\ given \in [Listeners -> Chunks \cup {NoChunk}]
  /\ outcome \in [Chunks -> Verdict]

-----------------------------------------------------------------------------
(* The vector queues[q]: its elements, and the scans the code makes.       *)

InQueue(q) == {c \in Chunks : arrival[c] # 0 /\ job[c].queue = q}

Takeable(q) == {c \in InQueue(q) : job[c].ready /\ ~job[c].submitted}

\* The element a scan that does not stop at its first match ends with.
IsLast(c, S) == c \in S /\ \A d \in S : arrival[d] <= arrival[c]

\* The element a scan from the front meets first.
IsFirst(c, S) == c \in S /\ \A d \in S : arrival[c] <= arrival[d]

Matching_AnyTicket(q, t) == InQueue(q)                       \* mutant
Matching(q, t) == {c \in InQueue(q) : job[c].ticket = t}

\* What submit() polls.
Done_WhenTaken(c) == job[c].submitted                        \* mutant
Done_WhenErrored(c) == job[c].errored                        \* mutant
Done(c) == job[c].completed

\* The egress file name that a compilation leaves in the JavaScript job:
\* openSync() names the emitted file, whether or not there were diagnostics.
EgressName_Status(o, f) == o                                 \* mutant
EgressName(o, f) == IF o \in {"emitted", "diagnosed"} THEN f ELSE NoFile

\* v8::Integer::New(isolate, long) and V8ValueToInt keep 32 bits.
Narrow(t) ==
  IF t <= IntMax THEN t
  ELSE ((t + IntMax + 1) % (2 * (IntMax + 1))) - (IntMax + 1)

-----------------------------------------------------------------------------
SomeFile == CHOOSE f \in Files : TRUE
SomeQueue == CHOOSE q \in QueueNames : TRUE

BlankJob(t) ==
  [queue |-> SomeQueue, ingress |-> SomeFile, egress |-> NoFile, ticket |-> t,
   ready |-> FALSE, submitted |-> FALSE, completed |-> FALSE, errored |-> FALSE]

Init ==
  /\ job \in {[c \in Chunks |-> BlankJob(g[c])] : g \in [Chunks -> FreshTickets]}
  /\ allocated = {}
  /\ arrival = [c \in Chunks |-> 0]
  /\ pushes = 0
  /\ ticket_id = 0
  /\ pc = [s \in Submitters |-> "idle"]
  /\ mine = [s \in Submitters |-> NoChunk]
  /\ wanted = [s \in Submitters |-> NoFile]
  /\ at = [l \in Listeners |-> "listening"]
  /\ ptr = [l \in Listeners |-> NoChunk]
  /\ handed = [l \in Listeners |->
                 [ticket |-> 0, queue |-> ListensTo[l], file |-> SomeFile, egress |-> NoFile]]
  /\ given = [l \in Listeners |-> NoChunk]
  /\ outcome = [c \in Chunks |-> "none"]

-----------------------------------------------------------------------------
(* The submitter: import_specifier() and slim::queue::submit().            *)

\* Tickets that jobs not yet taken will still need.
Owed == {c \in allocated : ~job[c].submitted}

\* new slim::queue::job: every field is initialised except ticket_id, which
\* keeps what the chunk holds: the ticket of the job that was freed there, or
\* whatever other code left.
NewJob(s, q, f, c) ==
  /\ pc[s] = "idle"
  /\ c \notin allocated
  /\ ticket_id + Cardinality(Owed) < MaxTicket
  /\ \E g \in FreshTickets \cup {job[c].ticket} :
       job' = [job EXCEPT ![c] = [BlankJob(g) EXCEPT !.queue = q, !.ingress = f]]
  /\ allocated' = allocated \cup {c}
  /\ outcome' = [outcome EXCEPT ![c] = "none"]
  /\ pc' = [pc EXCEPT ![s] = "built"]
  /\ mine' = [mine EXCEPT ![s] = c]
  /\ wanted' = [wanted EXCEPT ![s] = f]
  /\ UNCHANGED <<arrival, pushes, ticket_id, lisVars, given>>

\* First critical section of submit(): emplace_back and ready_to_process.
Enqueue(s) ==
  /\ pc[s] = "built"
  /\ pushes' = pushes + 1
  /\ arrival' = [arrival EXCEPT ![mine[s]] = pushes + 1]
  /\ job' = [job EXCEPT ![mine[s]].ready = TRUE]
  /\ pc' = [pc EXCEPT ![s] = "waiting"]
  /\ UNCHANGED <<allocated, ticket_id, mine, wanted, lisVars, histVars>>

\* The polling loop sees the job completed and releases the lock.
ObserveCompleted(s) ==
  /\ pc[s] = "waiting"
  /\ Done(mine[s])
  /\ pc' = [pc EXCEPT ![s] = "observed"]
  /\ UNCHANGED <<memVars, mine, wanted, lisVars, histVars>>

\* Last critical section of submit(): every element with this job's ticket
\* is erased from the vector.
Retire(s) ==
  /\ pc[s] = "observed"
  /\ LET own == job[mine[s]]
     IN  arrival' = [c \in Chunks |->
                       IF c \in Matching(own.queue, own.ticket) THEN 0 ELSE arrival[c]]
  /\ pc' = [pc EXCEPT ![s] = "retired"]
  /\ UNCHANGED <<job, allocated, pushes, ticket_id, mine, wanted, lisVars, histVars>>

\* The constructor reads the egress file of the job, then deletes the job.
Collect(s) ==
  /\ pc[s] = "retired"
  /\ allocated' = allocated \ {mine[s]}
  /\ pc' = [pc EXCEPT ![s] = "idle"]
  /\ mine' = [mine EXCEPT ![s] = NoChunk]
  /\ wanted' = [wanted EXCEPT ![s] = NoFile]
  /\ UNCHANGED <<job, arrival, pushes, ticket_id, lisVars, histVars>>

-----------------------------------------------------------------------------
(* The listener: get_job(), listen(), job_loop(), complete().              *)

\* get_job(): the scan that finds a job gives it a ticket and marks it.
Take(l) ==
  /\ at[l] = "listening"
  /\ \E c \in Chunks :
       /\ IsFirst(c, Takeable(ListensTo[l]))
       /\ job' = [job EXCEPT ![c].ticket = ticket_id + 1, ![c].submitted = TRUE]
       /\ ptr' = [ptr EXCEPT ![l] = c]
       /\ given' = [given EXCEPT ![l] = c]
  /\ ticket_id' = ticket_id + 1
  /\ at' = [at EXCEPT ![l] = "got"]
  /\ UNCHANGED <<allocated, arrival, pushes, subVars, handed, outcome>>

\* listen() copies the job into a JavaScript object, without the lock, and
\* resolves the promise with it.
Deliver(l) ==
  /\ at[l] = "got"
  /\ LET j == job[ptr[l]]
     IN  handed' = [handed EXCEPT ![l] =
                      [ticket |-> Narrow(j.ticket), queue |-> j.queue,
                       file |-> j.ingress, egress |-> NoFile]]
  /\ ptr' = [ptr EXCEPT ![l] = NoChunk]
  /\ at' = [at EXCEPT ![l] = "compiling"]
  /\ UNCHANGED <<memVars, subVars, histVars>>

\* executeCommandLine(): it names an egress file if it emits one, whether or
\* not it reported diagnostics, and then runs the callback that completes the
\* job; an exception is logged by job_loop(), which listens again.
Compile(l) ==
  /\ at[l] = "compiling"
  /\ \E o \in Outcomes :
       /\ outcome' = [outcome EXCEPT ![given[l]] = o]
       /\ at' = [at EXCEPT ![l] = IF o = "thrown" THEN "listening" ELSE "compiled"]
       /\ given' = [given EXCEPT ![l] = IF o = "thrown" THEN NoChunk ELSE given[l]]
       /\ handed' = [handed EXCEPT ![l].egress = EgressName(o, handed[l].file)]
  /\ UNCHANGED <<memVars, subVars, ptr>>

\* find_job(): the last element with the ticket; with none, the returned
\* pointer was never written and may be any chunk or null.
FindJob(l) ==
  /\ at[l] = "compiled"
  /\ LET found == Matching(handed[l].queue, handed[l].ticket)
     IN  \E p \in Chunks \cup {NoChunk} :
           /\ found # {} => IsLast(p, found)
           /\ ptr' = [ptr EXCEPT ![l] = p]
  /\ at' = [at EXCEPT ![l] = "found"]
  /\ UNCHANGED <<memVars, subVars, handed, histVars>>

\* The critical section of complete(), or "job not found".
Complete(l) ==
  /\ at[l] = "found"
  /\ job' = IF ptr[l] = NoChunk THEN job
            ELSE [job EXCEPT ![ptr[l]].egress = handed[l].egress, ![ptr[l]].completed = TRUE]
  /\ ptr' = [ptr EXCEPT ![l] = NoChunk]
  /\ given' = [given EXCEPT ![l] = NoChunk]
  /\ at' = [at EXCEPT ![l] = "listening"]
  /\ UNCHANGED <<allocated, arrival, pushes, ticket_id, subVars, handed, outcome>>

-----------------------------------------------------------------------------
SubmitterStep(s) == Enqueue(s) \/ ObserveCompleted(s) \/ Retire(s) \/ Collect(s)
ListenerStep(l) == Take(l) \/ Deliver(l) \/ Compile(l) \/ FindJob(l) \/ Complete(l)

Next ==
  \/ \E s \in Submitters, q \in QueueNames, f \in Files, c \in Chunks : NewJob(s, q, f, c)
  \/ \E s \in Submitters : SubmitterStep(s)
  \/ \E l \in Listeners : ListenerStep(l)

Spec == Init /\ [][Next]_vars

\* A thread inside submit() and a thread that serves a queue keep running,
\* and queue_mutex is free between any two critical sections.  Nothing
\* obliges a thread to import another file.
Fairness ==
  /\ \A s \in Submitters : WF_vars(SubmitterStep(s))
  /\ \A l \in Listeners : WF_vars(ListenerStep(l))

FairSpec == Spec /\ Fairness

-----------------------------------------------------------------------------
(* Properties                                                              *)

\* What the heap must be like for tickets to identify jobs: the field that
\* the constructor leaves unwritten never holds a number that could be a live
\* ticket, or no two jobs are ever queued together.
TicketsTell ==
  \/ \A g \in FreshTickets : g <= 0
  \/ \A s, t \in Submitters : s = t

InService == ticket_id <= IntMax

\* get_job() hands a job to one listener only, although every listener polls
\* the same vector: `submitted' is set in the critical section that finds it.
HandedToOne ==
  \A k, l \in Listeners : given[k] = given[l] /\ given[k] # NoChunk => k = l

\* complete() writes through a pointer that find_job() returned before the
\* lock was released and taken again: it points to the job that this listener
\* compiled, never to another job, to a freed chunk or to nothing.
CompletesOwnJob ==
  \A l \in Listeners : at[l] = "found" => ptr[l] = given[l] /\ ptr[l] \in allocated

\* The job behind every pointer a listener works with stays allocated from
\* get_job() until it is completed: its submitter cannot delete it earlier.
HandedJobAlive ==
  \A l \in Listeners : given[l] # NoChunk =>
    given[l] \in allocated /\ ~job[given[l]].completed

\* Erasing by ticket in submit() removes the submitter's own job and no job
\* that is still waited for, and leaves no pointer to a deleted job behind.
QueueHoldsLiveJobs ==
  /\ \A c \in Chunks : arrival[c] # 0 => c \in allocated
  /\ \A s \in Submitters : pc[s] \in {"waiting", "observed"} => arrival[mine[s]] # 0

\* When submit() returns, the job was compiled, and the egress name that the
\* constructor reads is the one emitted for the file it asked for.
OwnAnswer ==
  \A s \in Submitters : pc[s] \in {"observed", "retired"} =>
    /\ outcome[mine[s]] \in {"emitted", "diagnosed", "skipped"}
    /\ job[mine[s]].egress =
         IF outcome[mine[s]] = "skipped" THEN NoFile ELSE wanted[s]

\* Jobs of one queue are handed out in the order they were pushed: none is
\* overtaken, and tickets grow along the vector.
NoOvertaking ==
  \A c, d \in Chunks :
    /\ arrival[c] # 0 /\ arrival[c] < arrival[d]
    /\ job[c].queue = job[d].queue
    /\ job[d].submitted
    => job[c].submitted /\ job[c].ticket < job[d].ticket

\* A submitter whose queue some listener serves gets out of the polling loop
\* of submit() and of the constructor, unless the compiler threw at its job.
EveryJobAnswered ==
  \A s \in Submitters, q \in QueueNames :
    pc[s] = "waiting" /\ job[mine[s]].queue = q /\ (\E l \in Listeners : ListensTo[l] = q)
      ~> pc[s] = "idle" \/ outcome[mine[s]] = "thrown"

\* The constructor tests `errored' to tell a job that was compiled with
\* errors (import_specifier.cpp:58-67): a job with diagnostics comes back so.
ErrorsReachSubmitter ==
  \A s \in Submitters :
    pc[s] = "retired" /\ outcome[mine[s]] = "diagnosed" => job[mine[s]].errored
=============================================================================
