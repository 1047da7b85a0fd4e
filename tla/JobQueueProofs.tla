---------------------------- MODULE JobQueueProofs ----------------------------
(***************************************************************************)
(* Proofs about the job queue for any number of submitters, listeners,     *)
(* chunks and files.                                                       *)
(***************************************************************************)
EXTENDS QueueRefinement, TLAPS

-----------------------------------------------------------------------------
(* Types                                                                   *)

\* A fresh job record has the type of a job record.
LEMMA BlankTyped ==
  ASSUME NEW t \in Int, SomeFile \in Files, SomeQueue \in QueueNames
  PROVE  BlankJob(t) \in JobRecord
  BY DEF BlankJob, JobRecord, Egress, Ticket

\* A job record stays one when get_job() marks it taken.
LEMMA TakenTyped ==
  ASSUME NEW r \in JobRecord, NEW n \in Int
  PROVE  [r EXCEPT !.ticket = n, !.submitted = TRUE] \in JobRecord
  BY DEF JobRecord, Ticket

\* A job record stays one when complete() writes the egress file to it.
LEMMA CompletedTyped ==
  ASSUME NEW r \in JobRecord, NEW e \in Egress
  PROVE  [r EXCEPT !.egress = e, !.completed = TRUE] \in JobRecord
  BY DEF JobRecord, Egress

\* The types of the initial states.
LEMMA TypeInit ==
  ASSUME Files # {}, QueueNames # {}
  PROVE  Init => TypeInv
  <1> SUFFICES ASSUME Init PROVE TypeInv
    OBVIOUS
  <1>1. SomeFile \in Files /\ SomeQueue \in QueueNames
    BY DEF SomeFile, SomeQueue
  <1>2. job \in [Chunks -> JobRecord]
    BY <1>1, BlankTyped, QueueAssumption DEF Init
  <1>3. handed \in [Listeners -> JsJob]
    BY <1>1, QueueAssumption DEF Init, JsJob, Ticket, Egress
  <1>4. QED
    BY <1>2, <1>3 DEF Init, TypeInv, TypeOK, Verdict

\* What Narrow returns is an integer.
LEMMA NarrowTyped ==
  ASSUME NEW t \in Int PROVE Narrow(t) \in Int
  BY QueueAssumption DEF Narrow

\* Each action preserves the types.
LEMMA TypeStep ==
  ASSUME TypeInv, [Next]_vars, Files # {}, QueueNames # {}
  PROVE  TypeInv'
  <1> USE DEF TypeInv, TypeOK
  <1>0. SomeFile \in Files /\ SomeQueue \in QueueNames
    BY DEF SomeFile, SomeQueue
  <1>1. ASSUME NEW s \in Submitters, NEW q \in QueueNames, NEW f \in Files,
               NEW c \in Chunks, NewJob(s, q, f, c)
        PROVE  TypeInv'
    <2>1. PICK g \in FreshTickets \cup {job[c].ticket} :
            job' = [job EXCEPT ![c] = [BlankJob(g) EXCEPT !.queue = q, !.ingress = f]]
      BY <1>1 DEF NewJob
    <2>2. g \in Int
      BY <2>1, QueueAssumption DEF JobRecord, Ticket
    <2>3. [BlankJob(g) EXCEPT !.queue = q, !.ingress = f] \in JobRecord
      BY <1>0, <2>2, BlankTyped DEF JobRecord
    <2>4. job' \in [Chunks -> JobRecord]
      BY <2>1, <2>3
    <2>5. QED
      BY <1>1, <2>4 DEF NewJob, lisVars, Verdict
  <1>2. ASSUME NEW s \in Submitters, Enqueue(s) PROVE TypeInv'
    <2>1. job' \in [Chunks -> JobRecord]
      BY <1>2 DEF Enqueue, JobRecord
    <2>2. QED
      BY <1>2, <2>1 DEF Enqueue, lisVars, histVars
  <1>3. ASSUME NEW s \in Submitters, ObserveCompleted(s) PROVE TypeInv'
    BY <1>3 DEF ObserveCompleted, memVars, lisVars, histVars
  <1>4. ASSUME NEW s \in Submitters, Retire(s) PROVE TypeInv'
    BY <1>4 DEF Retire, lisVars, histVars
  <1>5. ASSUME NEW s \in Submitters, Collect(s) PROVE TypeInv'
    BY <1>5 DEF Collect, lisVars, histVars
  <1>6. ASSUME NEW l \in Listeners, Take(l) PROVE TypeInv'
    <2>1. PICK c \in Chunks :
            /\ job' = [job EXCEPT ![c].ticket = ticket_id + 1, ![c].submitted = TRUE]
            /\ ptr' = [ptr EXCEPT ![l] = c]
            /\ given' = [given EXCEPT ![l] = c]
      BY <1>6 DEF Take
    <2> DEFINE taken == [job[c] EXCEPT !.ticket = ticket_id + 1, !.submitted = TRUE]
    <2>2. taken \in JobRecord
      <3>1. job[c] \in JobRecord /\ ticket_id + 1 \in Int
        OBVIOUS
      <3>2. QED
        BY ONLY <3>1, TakenTyped
    <2>3. job' = [job EXCEPT ![c] = taken]
      BY <2>1
    <2>4. job' \in [Chunks -> JobRecord]
      BY <2>2, <2>3
    <2>5. QED
      BY <1>6, <2>4, <2>1, QueueAssumption DEF Take, subVars
  <1>7. ASSUME NEW l \in Listeners, Deliver(l) PROVE TypeInv'
    <2>1. ptr[l] \in Chunks
      BY <1>7 DEF Deliver
    <2>2. [ticket |-> Narrow(job[ptr[l]].ticket), queue |-> job[ptr[l]].queue,
           file |-> job[ptr[l]].ingress, egress |-> NoFile] \in JsJob
      BY <2>1, NarrowTyped DEF JsJob, JobRecord, Ticket, Egress
    <2>3. handed' \in [Listeners -> JsJob]
      BY <1>7, <2>2 DEF Deliver
    <2>4. QED
      BY <1>7, <2>3, QueueAssumption DEF Deliver, memVars, subVars, histVars
  <1>8. ASSUME NEW l \in Listeners, Compile(l) PROVE TypeInv'
    <2>1. PICK o \in Outcomes :
            /\ outcome' = [outcome EXCEPT ![given[l]] = o]
            /\ at' = [at EXCEPT ![l] = IF o = "thrown" THEN "listening" ELSE "compiled"]
            /\ given' = [given EXCEPT ![l] = IF o = "thrown" THEN NoChunk ELSE given[l]]
            /\ handed' = [handed EXCEPT ![l].egress = EgressName(o, handed[l].file)]
      BY <1>8 DEF Compile
    <2>2. handed' \in [Listeners -> JsJob]
      BY <2>1 DEF JsJob, Egress, EgressName
    <2>3. outcome' \in [Chunks -> Verdict]
      BY <2>1, QueueAssumption DEF Verdict
    <2>4. QED
      BY <1>8, <2>1, <2>2, <2>3 DEF Compile, memVars, subVars
  <1>9. ASSUME NEW l \in Listeners, FindJob(l) PROVE TypeInv'
    BY <1>9 DEF FindJob, memVars, subVars, histVars
  <1>10. ASSUME NEW l \in Listeners, Complete(l) PROVE TypeInv'
    <2>1. handed[l].egress \in Egress
      BY DEF JsJob
    <2>2. \A c \in Chunks :
            [job[c] EXCEPT !.egress = handed[l].egress, !.completed = TRUE] \in JobRecord
      BY <2>1, CompletedTyped
    <2>3. job' \in [Chunks -> JobRecord]
      BY <1>10, <2>2 DEF Complete
    <2>4. QED
      BY <1>10, <2>3 DEF Complete, subVars
  <1>11. CASE UNCHANGED vars
    BY <1>11 DEF vars, memVars, subVars, lisVars, histVars
  <1>12. QED
    BY <1>1, <1>2, <1>3, <1>4, <1>5, <1>6, <1>7, <1>8, <1>9, <1>10, <1>11
       DEF Next, SubmitterStep, ListenerStep

-----------------------------------------------------------------------------
(* The inductive invariant                                                 *)

\* The types without the record sets, as the proofs below use them.
Shape ==
  /\ allocated \subseteq Chunks
  /\ arrival \in [Chunks -> Nat] /\ pushes \in Nat /\ ticket_id \in Nat
  /\ \A c \in Chunks : job[c].ticket \in Int
  /\ pc \in [Submitters -> {"idle", "built", "waiting", "observed", "retired"}]
  /\ mine \in [Submitters -> Chunks \cup {NoChunk}]
  /\ wanted \in [Submitters -> Files \cup {NoFile}]
  /\ at \in [Listeners -> {"listening", "got", "compiling", "compiled", "found"}]
  /\ ptr \in [Listeners -> Chunks \cup {NoChunk}]
  /\ given \in [Listeners -> Chunks \cup {NoChunk}]
  /\ NoChunk \notin Chunks /\ NoFile \notin Files

\* What a step starts from.
Before == TicketsTell /\ TypeInv /\ InService /\ Core

\* The types imply their shape.
LEMMA ShapeHolds == TypeInv => Shape
  BY QueueAssumption DEF TypeInv, TypeOK, Shape, JobRecord, Ticket

\* The initial states satisfy the invariant.
LEMMA CoreInit ==
  ASSUME Init PROVE Core
  <1>1. \A c \in Chunks : /\ job[c].ticket \in FreshTickets
                           /\ ~job[c].submitted /\ ~job[c].completed
    BY DEF Init, BlankJob
  <1>2. /\ allocated = {} /\ ticket_id = 0 /\ pushes = 0
        /\ \A c \in Chunks : arrival[c] = 0
        /\ \A s \in Submitters : pc[s] = "idle" /\ mine[s] = NoChunk /\ wanted[s] = NoFile
        /\ \A l \in Listeners : at[l] = "listening" /\ given[l] = NoChunk
    BY DEF Init
  <1>3. Ownership /\ Membership /\ Flags /\ Answered
    BY <1>2 DEF Ownership, Membership, Flags, Answered
  <1>4. TicketsIssued /\ Holding /\ NoOvertaking
    BY <1>1, <1>2 DEF TicketsIssued, Holding, Held, NoOvertaking
  <1>5. TicketsOfChunks
    <2>1. SUFFICES ASSUME \A g \in FreshTickets : g <= 0, NEW c \in Chunks
                   PROVE  job[c].ticket <= 0 /\ job[c].ticket \in Int
      BY <1>2 DEF TicketsOfChunks
    <2>2. QED
      BY <1>1, <2>1, QueueAssumption
  <1>6. QED
    BY <1>3, <1>4, <1>5 DEF Core

\* Tickets identify live jobs: either every number a chunk holds was issued
\* there, or there is one live job at most.
LEMMA TicketsDifferHolds == Before => TicketsDiffer
  <1>1. SUFFICES ASSUME Before, NEW c \in allocated, NEW d \in allocated,
                        c # d, job[c].submitted
                 PROVE  job[c].ticket # job[d].ticket
    BY DEF TicketsDiffer
  <1>2. Shape /\ Core /\ TicketsTell
    BY <1>1, ShapeHolds DEF Before
  <1>3. CASE \A g \in FreshTickets : g <= 0
    <2>1. job[c].ticket > 0
      BY <1>1, <1>2 DEF Core, TicketsIssued, Shape
    <2>2. QED
      BY <1>1, <1>2, <1>3, <2>1 DEF Core, TicketsOfChunks, Shape
  <1>4. CASE \A s, t \in Submitters : s = t
    <2>1. PICK s \in Submitters, t \in Submitters : mine[s] = c /\ mine[t] = d
      BY <1>2 DEF Core, Ownership
    <2>2. QED
      BY <1>1, <1>4, <2>1
  <1>5. QED
    BY <1>2, <1>3, <1>4 DEF TicketsTell

\* Pushing a job gives it the last place and makes it ready.
LEMMA EnqueueCore ==
  ASSUME NEW s \in Submitters
  PROVE  Before /\ Enqueue(s) => Core'
  <1>1. SUFFICES ASSUME Before, Enqueue(s) PROVE Core'
    OBVIOUS
  <1>2. Shape /\ Core
    BY <1>1, ShapeHolds DEF Before
  <1>3. /\ mine[s] \in allocated /\ pc[s] = "built"
        /\ \A c \in Chunks : arrival'[c] = IF c = mine[s] THEN pushes + 1 ELSE arrival[c]
        /\ pushes' = pushes + 1
        /\ \A t \in Submitters : pc'[t] = IF t = s THEN "waiting" ELSE pc[t]
        /\ \A c \in Chunks :
             /\ job'[c].ready <=> (c = mine[s] \/ job[c].ready)
             /\ job'[c].submitted <=> job[c].submitted
             /\ job'[c].completed <=> job[c].completed
             /\ job'[c].ticket = job[c].ticket
             /\ job'[c].egress = job[c].egress
             /\ job'[c].ingress = job[c].ingress
             /\ job'[c].queue = job[c].queue
        /\ UNCHANGED <<allocated, ticket_id, mine, wanted, at, ptr, handed, given, outcome>>
    BY <1>1, <1>2
       DEF Enqueue, Ownership, Before, TypeInv, TypeOK, JobRecord, memVars, subVars,
           lisVars, histVars, Core
  <1>4. Ownership'
    BY <1>2, <1>3 DEF Shape, Core, Ownership
  <1>5. Membership'
    BY <1>2, <1>3 DEF Shape, Core, Membership, Ownership
  <1>6. Flags'
    BY <1>2, <1>3 DEF Shape, Core, Flags, Ownership
  <1>7. Answered'
    BY <1>2, <1>3 DEF Shape, Core, Answered, Ownership
  <1>8. TicketsIssued'
    BY <1>2, <1>3 DEF Shape, Core, TicketsIssued
  <1>9. TicketsOfChunks'
    BY <1>2, <1>3 DEF Shape, Core, TicketsOfChunks
  <1>10. Holding'
    BY <1>2, <1>3 DEF Shape, Core, Holding, Ownership, Membership, Flags, Held
  <1>11. NoOvertaking'
    BY <1>2, <1>3 DEF Shape, Core, NoOvertaking, Membership, Ownership, Flags
  <1>12. QED
    BY <1>4, <1>5, <1>6, <1>7, <1>8, <1>9, <1>10, <1>11 DEF Core

\* Seeing a job completed changes only the submitter's place.
LEMMA ObserveCore ==
  ASSUME NEW s \in Submitters
  PROVE  Before /\ ObserveCompleted(s) => Core'
  <1>1. SUFFICES ASSUME Before, ObserveCompleted(s) PROVE Core'
    OBVIOUS
  <1>2. Shape /\ Core
    BY <1>1, ShapeHolds DEF Before
  <1>3. /\ pc[s] = "waiting" /\ job[mine[s]].completed /\ mine[s] \in allocated
        /\ \A t \in Submitters : pc'[t] = IF t = s THEN "observed" ELSE pc[t]
        /\ UNCHANGED <<job, allocated, arrival, pushes, ticket_id, mine, wanted,
                       at, ptr, handed, given, outcome>>
    BY <1>1, <1>2
       DEF ObserveCompleted, Done, Ownership, Before, TypeInv, TypeOK, JobRecord,
           memVars, subVars, lisVars, histVars, Core
  <1>4. Ownership'
    BY <1>2, <1>3 DEF Shape, Core, Ownership
  <1>5. Membership'
    BY <1>2, <1>3 DEF Shape, Core, Membership, Ownership
  <1>6. Flags'
    BY <1>2, <1>3 DEF Shape, Core, Flags, Ownership
  <1>7. Answered'
    BY <1>2, <1>3 DEF Shape, Core, Answered, Ownership
  <1>8. TicketsIssued'
    BY <1>2, <1>3 DEF Shape, Core, TicketsIssued
  <1>9. TicketsOfChunks'
    BY <1>2, <1>3 DEF Shape, Core, TicketsOfChunks
  <1>10. Holding'
    BY <1>2, <1>3 DEF Shape, Core, Holding, Ownership, Membership, Flags, Held
  <1>11. NoOvertaking'
    BY <1>2, <1>3 DEF Shape, Core, NoOvertaking, Membership, Ownership, Flags
  <1>12. QED
    BY <1>4, <1>5, <1>6, <1>7, <1>8, <1>9, <1>10, <1>11 DEF Core

\* A new job is not taken, not queued, and known to its submitter alone.
LEMMA NewJobCore ==
  ASSUME NEW s \in Submitters, NEW q \in QueueNames, NEW f \in Files, NEW c \in Chunks
  PROVE  Before /\ NewJob(s, q, f, c) => Core'
  <1>1. SUFFICES ASSUME Before, NewJob(s, q, f, c) PROVE Core'
    OBVIOUS
  <1>2. Shape /\ Core
    BY <1>1, ShapeHolds DEF Before
  <1>3. /\ c \notin allocated /\ pc[s] = "idle" /\ mine[s] = NoChunk /\ f \in Files
        /\ allocated' = allocated \cup {c}
        /\ \A t \in Submitters : pc'[t] = IF t = s THEN "built" ELSE pc[t]
        /\ \A t \in Submitters : mine'[t] = IF t = s THEN c ELSE mine[t]
        /\ \A t \in Submitters : wanted'[t] = IF t = s THEN f ELSE wanted[t]
        /\ ~job'[c].submitted /\ ~job'[c].completed
        /\ job'[c].egress = NoFile /\ job'[c].ingress = f
        /\ job'[c].ticket \in FreshTickets \cup {job[c].ticket}
        /\ \A d \in Chunks \ {c} : job'[d] = job[d]
        /\ outcome'[c] = "none" /\ \A d \in Chunks \ {c} : outcome'[d] = outcome[d]
        /\ UNCHANGED <<arrival, pushes, ticket_id, at, ptr, handed, given>>
    BY <1>1, <1>2
       DEF NewJob, BlankJob, Ownership, Before, TypeInv, TypeOK, JobRecord, memVars,
           subVars, lisVars, histVars, Core
  <1>4. Ownership'
    BY <1>2, <1>3 DEF Shape, Core, Ownership
  <1>5. Membership'
    BY <1>2, <1>3 DEF Shape, Core, Membership, Ownership
  <1>6. Flags'
    BY <1>2, <1>3 DEF Shape, Core, Flags, Ownership
  <1>7. Answered'
    BY <1>2, <1>3 DEF Shape, Core, Answered, Ownership
  <1>8. TicketsIssued'
    BY <1>2, <1>3 DEF Shape, Core, TicketsIssued
  <1>9. TicketsOfChunks'
    <2>1. SUFFICES ASSUME \A g \in FreshTickets : g <= 0, NEW b \in Chunks
                   PROVE  /\ job'[b].ticket <= ticket_id
                          /\ \A d \in Chunks : b # d /\ job'[b].ticket > 0
                                               => job'[b].ticket # job'[d].ticket
      BY <1>3 DEF TicketsOfChunks
    <2>2. /\ \A d \in Chunks \ {c} : job'[d].ticket = job[d].ticket
          /\ job'[c].ticket # job[c].ticket => job'[c].ticket \in Int /\ job'[c].ticket <= 0
      <3>1. \A g \in FreshTickets : g \in Int /\ g <= 0
        BY <2>1, QueueAssumption
      <3>2. job'[c].ticket \in FreshTickets \cup {job[c].ticket}
        BY <1>3
      <3>3. \A d \in Chunks \ {c} : job'[d] = job[d]
        BY <1>3
      <3>4. \A d \in Chunks \ {c} : job'[d].ticket = job[d].ticket
        BY <3>3
      <3>5. job'[c].ticket = job[c].ticket \/ job'[c].ticket \in FreshTickets
        BY <3>2
      <3>6. QED
        BY <3>1, <3>4, <3>5
    <2>3. \A a \in Chunks :
            /\ job[a].ticket <= ticket_id
            /\ \A d \in Chunks : a # d /\ job[a].ticket > 0 => job[a].ticket # job[d].ticket
      BY <1>2, <2>1 DEF Core, TicketsOfChunks
    <2>4. QED
      BY <1>2, <2>2, <2>3 DEF Shape
  <1>10. Holding'
    BY <1>2, <1>3 DEF Shape, Core, Holding, Ownership, Membership, Flags, Held
  <1>11. NoOvertaking'
    BY <1>2, <1>3 DEF Shape, Core, NoOvertaking, Membership, Ownership, Flags
  <1>12. QED
    BY <1>4, <1>5, <1>6, <1>7, <1>8, <1>9, <1>10, <1>11 DEF Core

\* Erasing by ticket removes the submitter's own job and no other.
LEMMA RetireCore ==
  ASSUME NEW s \in Submitters
  PROVE  Before /\ Retire(s) => Core'
  <1>1. SUFFICES ASSUME Before, Retire(s) PROVE Core'
    OBVIOUS
  <1>2. Shape /\ Core
    BY <1>1, ShapeHolds DEF Before
  <1>3. /\ pc[s] = "observed" /\ mine[s] \in allocated /\ mine[s] \in Chunks
        /\ \A t \in Submitters : pc'[t] = IF t = s THEN "retired" ELSE pc[t]
        /\ \A c \in Chunks : arrival'[c] = IF c = mine[s] THEN 0 ELSE arrival[c]
        /\ UNCHANGED <<job, allocated, pushes, ticket_id, mine, wanted, at, ptr, handed, given, outcome>>
    <2>1. /\ pc[s] = "observed" /\ mine[s] \in allocated /\ mine[s] \in Chunks
          /\ arrival[mine[s]] # 0 /\ job[mine[s]].submitted
      BY <1>1, <1>2 DEF Retire, Core, Ownership, Membership, Flags, Shape
    <2>2. ASSUME NEW c \in Chunks
          PROVE  c \in Matching(job[mine[s]].queue, job[mine[s]].ticket) <=> c = mine[s]
      <3>1. arrival[c] # 0 => c \in allocated
        BY <1>2 DEF Core, Membership
      <3>2. QED
        BY <1>1, <2>1, <3>1, TicketsDifferHolds DEF TicketsDiffer, Matching, InQueue
    <2>3. \A c \in Chunks : arrival'[c] = IF c = mine[s] THEN 0 ELSE arrival[c]
      BY <1>1, <2>2 DEF Retire
    <2>4. QED
      BY <1>1, <1>2, <2>1, <2>3 DEF Retire, Shape, lisVars, histVars
  <1>4. Ownership'
    BY <1>2, <1>3 DEF Shape, Core, Ownership
  <1>5. Membership'
    BY <1>2, <1>3 DEF Shape, Core, Membership, Ownership
  <1>6. Flags'
    BY <1>2, <1>3 DEF Shape, Core, Flags, Ownership
  <1>7. Answered'
    BY <1>2, <1>3 DEF Shape, Core, Answered, Ownership
  <1>8. TicketsIssued'
    BY <1>2, <1>3 DEF Shape, Core, TicketsIssued
  <1>9. TicketsOfChunks'
    BY <1>2, <1>3 DEF Shape, Core, TicketsOfChunks
  <1>10. Holding'
    BY <1>2, <1>3 DEF Shape, Core, Holding, Ownership, Membership, Flags, Held
  <1>11. NoOvertaking'
    BY <1>2, <1>3 DEF Shape, Core, NoOvertaking, Membership, Ownership, Flags
  <1>12. QED
    BY <1>4, <1>5, <1>6, <1>7, <1>8, <1>9, <1>10, <1>11 DEF Core

\* Deleting the job frees a chunk that nobody else refers to.
LEMMA CollectCore ==
  ASSUME NEW s \in Submitters
  PROVE  Before /\ Collect(s) => Core'
  <1>1. SUFFICES ASSUME Before, Collect(s) PROVE Core'
    OBVIOUS
  <1>2. Shape /\ Core
    BY <1>1, ShapeHolds DEF Before
  <1>3. /\ pc[s] = "retired" /\ mine[s] \in allocated /\ mine[s] \in Chunks
        /\ allocated' = allocated \ {mine[s]}
        /\ \A t \in Submitters : pc'[t] = IF t = s THEN "idle" ELSE pc[t]
        /\ \A t \in Submitters : mine'[t] = IF t = s THEN NoChunk ELSE mine[t]
        /\ \A t \in Submitters : wanted'[t] = IF t = s THEN NoFile ELSE wanted[t]
        /\ UNCHANGED <<job, arrival, pushes, ticket_id, at, ptr, handed, given, outcome>>
    BY <1>1, <1>2
       DEF Collect, Ownership, Shape, Before, TypeInv, TypeOK, JobRecord, memVars,
           subVars, lisVars, histVars, Core
  <1>4. Ownership'
    BY <1>2, <1>3 DEF Shape, Core, Ownership
  <1>5. Membership'
    BY <1>2, <1>3 DEF Shape, Core, Membership, Ownership
  <1>6. Flags'
    BY <1>2, <1>3 DEF Shape, Core, Flags, Ownership
  <1>7. Answered'
    BY <1>2, <1>3 DEF Shape, Core, Answered, Ownership
  <1>8. TicketsIssued'
    BY <1>2, <1>3 DEF Shape, Core, TicketsIssued
  <1>9. TicketsOfChunks'
    BY <1>2, <1>3 DEF Shape, Core, TicketsOfChunks
  <1>10. Holding'
    BY <1>2, <1>3 DEF Shape, Core, Holding, Ownership, Membership, Flags, Held
  <1>11. NoOvertaking'
    BY <1>2, <1>3 DEF Shape, Core, NoOvertaking, Membership, Ownership, Flags
  <1>12. QED
    BY <1>4, <1>5, <1>6, <1>7, <1>8, <1>9, <1>10, <1>11 DEF Core

\* A new ticket is greater than every number a clean heap holds.
LEMMA TakeCore ==
  ASSUME NEW l \in Listeners
  PROVE  Before /\ Take(l) => Core'
  <1>1. SUFFICES ASSUME Before, Take(l) PROVE Core'
    OBVIOUS
  <1>2. Shape /\ Core
    BY <1>1, ShapeHolds DEF Before
  <1>3. PICK c \in Chunks :
          /\ IsFirst(c, Takeable(ListensTo[l]))
          /\ job' = [job EXCEPT ![c].ticket = ticket_id + 1, ![c].submitted = TRUE]
          /\ ptr' = [ptr EXCEPT ![l] = c]
          /\ given' = [given EXCEPT ![l] = c]
    BY <1>1 DEF Take
  <1>4. /\ c \in allocated /\ arrival[c] # 0 /\ ~job[c].submitted
        /\ at[l] = "listening" /\ given[l] = NoChunk
        /\ \A k \in Listeners : given'[k] = IF k = l THEN c ELSE given[k]
        /\ \A k \in Listeners : ptr'[k] = IF k = l THEN c ELSE ptr[k]
        /\ \A k \in Listeners : at'[k] = IF k = l THEN "got" ELSE at[k]
        /\ \A c1 \in Chunks :
             /\ job'[c1].ready <=> job[c1].ready
             /\ job'[c1].submitted <=> (c1 = c \/ job[c1].submitted)
             /\ job'[c1].completed <=> job[c1].completed
             /\ job'[c1].ticket = IF c1 = c THEN ticket_id + 1 ELSE job[c1].ticket
             /\ job'[c1].egress = job[c1].egress
             /\ job'[c1].ingress = job[c1].ingress
             /\ job'[c1].queue = job[c1].queue
        /\ ticket_id' = ticket_id + 1
        /\ UNCHANGED <<allocated, arrival, pushes, pc, mine, wanted, handed, outcome>>
    <2>1. c \in Takeable(ListensTo[l])
      BY <1>3 DEF IsFirst
    <2>2. c \in allocated /\ arrival[c] # 0 /\ ~job[c].submitted
      BY <1>2, <2>1 DEF Takeable, InQueue, Core, Membership
    <2>3. QED
      BY <1>1, <1>2, <1>3, <2>2
         DEF Take, Before, TypeInv, TypeOK, JobRecord, subVars
  <1>5. Ownership'
    BY <1>2, <1>4 DEF Shape, Core, Ownership
  <1>6. Membership'
    BY <1>2, <1>4 DEF Shape, Core, Membership, Ownership
  <1>7. Flags'
    BY <1>2, <1>4 DEF Shape, Core, Flags, Ownership, Membership
  <1>8. Answered'
    BY <1>2, <1>4 DEF Shape, Core, Answered, Ownership
  <1>9. TicketsIssued'
    BY <1>2, <1>4 DEF Shape, Core, TicketsIssued
  <1>10. TicketsOfChunks'
    BY <1>2, <1>4 DEF Shape, Core, TicketsOfChunks
  <1>11. Holding'
    <2>1. outcome[c] = "none"
      BY <1>2, <1>4 DEF Core, Answered
    <2>2. QED
      BY <1>2, <1>4, <2>1 DEF Shape, Core, Holding, Ownership, Membership, Flags, Held
  <1>12. NoOvertaking'
    <2>1. ASSUME NEW d \in Chunks, arrival[d] # 0, arrival[d] < arrival[c],
                 job[d].queue = job[c].queue
          PROVE  job[d].submitted /\ job[d].ticket <= ticket_id
      <3>1. d \in allocated
        BY <1>2, <2>1 DEF Core, Membership
      <3>2. PICK u \in Submitters : mine[u] = d
        BY <1>2, <3>1 DEF Core, Ownership
      <3>3. job[d].ready
        BY <1>2, <2>1, <3>2 DEF Core, Ownership, Membership, Flags, Shape
      <3>4. c \in Takeable(ListensTo[l]) /\ \A b \in Takeable(ListensTo[l]) : arrival[c] <= arrival[b]
        BY <1>3 DEF IsFirst
      <3>5. d \notin Takeable(ListensTo[l])
        BY <1>2, <2>1, <3>4 DEF Shape
      <3>6. job[d].submitted
        BY <2>1, <3>3, <3>4, <3>5 DEF Takeable, InQueue
      <3>7. QED
        BY <1>2, <3>1, <3>6 DEF Core, TicketsIssued, Shape
    <2>2. ASSUME NEW d \in Chunks, arrival[d] # 0, job[d].submitted
          PROVE  job[d].ticket \in 1 .. ticket_id
      BY <1>2, <2>2 DEF Core, Membership, TicketsIssued
    <2>3. QED
      BY <1>2, <1>4, <2>1, <2>2 DEF Shape, Core, NoOvertaking
  <1>13. QED
    BY <1>5, <1>6, <1>7, <1>8, <1>9, <1>10, <1>11, <1>12 DEF Core

\* The JavaScript copy carries the job's ticket: it fits 32 bits.
LEMMA DeliverCore ==
  ASSUME NEW l \in Listeners
  PROVE  Before /\ Deliver(l) => Core'
  <1>1. SUFFICES ASSUME Before, Deliver(l) PROVE Core'
    OBVIOUS
  <1>2. Shape /\ Core
    BY <1>1, ShapeHolds DEF Before
  <1>3. /\ at[l] = "got" /\ given[l] # NoChunk /\ ptr[l] = given[l] /\ ptr[l] \in Chunks
        /\ handed'[l].ticket = job[given[l]].ticket
        /\ handed'[l].queue = job[given[l]].queue
        /\ handed'[l].file = job[given[l]].ingress
        /\ \A k \in Listeners \ {l} : handed'[k] = handed[k] /\ ptr'[k] = ptr[k]
        /\ \A k \in Listeners : at'[k] = IF k = l THEN "compiling" ELSE at[k]
        /\ UNCHANGED <<job, allocated, arrival, pushes, ticket_id, pc, mine, wanted, given, outcome>>
    <2>1. at[l] = "got" /\ given[l] # NoChunk /\ ptr[l] = given[l] /\ ptr[l] \in Chunks
      BY <1>1, <1>2 DEF Deliver, Core, Holding, Held, Before, TypeInv
    <2>2. Narrow(job[ptr[l]].ticket) = job[ptr[l]].ticket
      <3>1. job[ptr[l]].ticket <= IntMax
        BY <1>1, <1>2, <2>1, QueueAssumption
           DEF Before, InService, Core, Holding, Held, TicketsIssued, Shape
      <3>2. QED
        BY <3>1 DEF Narrow
    <2>3. handed'[l] = [ticket |-> Narrow(job[ptr[l]].ticket), queue |-> job[ptr[l]].queue,
                        file |-> job[ptr[l]].ingress, egress |-> NoFile]
      BY <1>1 DEF Deliver, Before, TypeInv, TypeOK
    <2>4. QED
      BY <1>1, <2>1, <2>2, <2>3
         DEF Deliver, Before, TypeInv, TypeOK, memVars, subVars, histVars
  <1>4. Ownership'
    BY <1>2, <1>3 DEF Shape, Core, Ownership
  <1>5. Membership'
    BY <1>2, <1>3 DEF Shape, Core, Membership, Ownership
  <1>6. Flags'
    BY <1>2, <1>3 DEF Shape, Core, Flags, Ownership
  <1>7. Answered'
    BY <1>2, <1>3 DEF Shape, Core, Answered, Ownership
  <1>8. TicketsIssued'
    BY <1>2, <1>3 DEF Shape, Core, TicketsIssued
  <1>9. TicketsOfChunks'
    BY <1>2, <1>3 DEF Shape, Core, TicketsOfChunks
  <1>10. Holding'
    BY <1>2, <1>3 DEF Shape, Core, Holding, Ownership, Membership, Flags, Held
  <1>11. NoOvertaking'
    BY <1>2, <1>3 DEF Shape, Core, NoOvertaking, Membership, Ownership, Flags
  <1>12. QED
    BY <1>4, <1>5, <1>6, <1>7, <1>8, <1>9, <1>10, <1>11 DEF Core

\* Compiling settles what the job's answer will be.
LEMMA CompileCore ==
  ASSUME NEW l \in Listeners
  PROVE  Before /\ Compile(l) => Core'
  <1>1. SUFFICES ASSUME Before, Compile(l) PROVE Core'
    OBVIOUS
  <1>2. Shape /\ Core
    BY <1>1, ShapeHolds DEF Before
  <1>3. PICK o \in Outcomes :
          /\ outcome' = [outcome EXCEPT ![given[l]] = o]
          /\ at' = [at EXCEPT ![l] = IF o = "thrown" THEN "listening" ELSE "compiled"]
          /\ given' = [given EXCEPT ![l] = IF o = "thrown" THEN NoChunk ELSE given[l]]
          /\ handed' = [handed EXCEPT ![l].egress = EgressName(o, handed[l].file)]
    BY <1>1 DEF Compile
  <1>4. /\ at[l] = "compiling" /\ given[l] # NoChunk /\ given[l] \in allocated
        /\ o \in {"emitted", "diagnosed", "skipped", "thrown"}
        /\ \A c \in Chunks : outcome'[c] = IF c = given[l] THEN o ELSE outcome[c]
        /\ \A k \in Listeners :
             at'[k] = IF k # l THEN at[k] ELSE IF o = "thrown" THEN "listening" ELSE "compiled"
        /\ \A k \in Listeners :
             given'[k] = IF k = l /\ o = "thrown" THEN NoChunk ELSE given[k]
        /\ \A k \in Listeners :
             /\ handed'[k].ticket = handed[k].ticket
             /\ handed'[k].queue = handed[k].queue
             /\ handed'[k].file = handed[k].file
             /\ k # l => handed'[k].egress = handed[k].egress
        /\ handed'[l].egress = IF o \in {"emitted", "diagnosed"} THEN handed[l].file ELSE NoFile
        /\ UNCHANGED <<job, allocated, arrival, pushes, ticket_id, pc, mine, wanted, ptr>>
    <2>1. at[l] = "compiling" /\ given[l] # NoChunk /\ given[l] \in allocated
      BY <1>1, <1>2 DEF Compile, Core, Holding, Held
    <2>2. QED
      BY <1>1, <1>3, <2>1, QueueAssumption
         DEF Compile, EgressName, Before, TypeInv, TypeOK, JsJob, memVars, subVars
  <1>5. Ownership'
    BY <1>2, <1>4 DEF Shape, Core, Ownership
  <1>6. Membership'
    BY <1>2, <1>4 DEF Shape, Core, Membership, Ownership
  <1>7. Flags'
    BY <1>2, <1>4 DEF Shape, Core, Flags, Ownership
  <1>8. Answered'
    BY <1>2, <1>4 DEF Shape, Core, Answered, Ownership, Holding, Held
  <1>9. TicketsIssued'
    BY <1>2, <1>4 DEF Shape, Core, TicketsIssued
  <1>10. TicketsOfChunks'
    BY <1>2, <1>4 DEF Shape, Core, TicketsOfChunks
  <1>11. Holding'
    BY <1>2, <1>4 DEF Shape, Core, Holding, Ownership, Membership, Flags, Held
  <1>12. NoOvertaking'
    BY <1>2, <1>4 DEF Shape, Core, NoOvertaking, Membership, Ownership, Flags
  <1>13. QED
    BY <1>5, <1>6, <1>7, <1>8, <1>9, <1>10, <1>11, <1>12 DEF Core

\* find_job() finds one job with the ticket: the one that was compiled.
LEMMA FindJobCore ==
  ASSUME NEW l \in Listeners
  PROVE  Before /\ FindJob(l) => Core'
  <1>1. SUFFICES ASSUME Before, FindJob(l) PROVE Core'
    OBVIOUS
  <1>2. Shape /\ Core
    BY <1>1, ShapeHolds DEF Before
  <1>3. /\ at[l] = "compiled" /\ given[l] # NoChunk
        /\ ptr'[l] = given[l]
        /\ \A k \in Listeners \ {l} : ptr'[k] = ptr[k]
        /\ \A k \in Listeners : at'[k] = IF k = l THEN "found" ELSE at[k]
        /\ UNCHANGED <<job, allocated, arrival, pushes, ticket_id, pc, mine, wanted, handed, given, outcome>>
    <2> DEFINE found == Matching(handed[l].queue, handed[l].ticket)
    <2>1. at[l] = "compiled" /\ given[l] # NoChunk
      BY <1>1, <1>2 DEF FindJob, Core, Holding
    <2>2. /\ given[l] \in allocated /\ given[l] \in Chunks
          /\ arrival[given[l]] # 0 /\ job[given[l]].submitted
          /\ handed[l].ticket = job[given[l]].ticket
          /\ handed[l].queue = job[given[l]].queue
      BY <1>2, <2>1 DEF Core, Holding, Held, Shape
    <2>3. ASSUME NEW c \in found PROVE c = given[l]
      <3>1. c \in allocated /\ job[c].ticket = job[given[l]].ticket
        BY <1>2, <2>2, <2>3 DEF Matching, InQueue, Core, Membership
      <3>2. QED
        BY <1>1, <2>2, <3>1, TicketsDifferHolds DEF TicketsDiffer
    <2>4. given[l] \in found
      BY <2>2 DEF Matching, InQueue
    <2>5. PICK p : IsLast(p, found) /\ ptr' = [ptr EXCEPT ![l] = p]
      BY <1>1, <2>4 DEF FindJob
    <2>6. p = given[l]
      BY <2>3, <2>5 DEF IsLast
    <2>7. QED
      BY <1>1, <2>1, <2>5, <2>6
         DEF FindJob, Before, TypeInv, TypeOK, memVars, subVars, histVars
  <1>4. Ownership'
    BY <1>2, <1>3 DEF Shape, Core, Ownership
  <1>5. Membership'
    BY <1>2, <1>3 DEF Shape, Core, Membership, Ownership
  <1>6. Flags'
    BY <1>2, <1>3 DEF Shape, Core, Flags, Ownership
  <1>7. Answered'
    BY <1>2, <1>3 DEF Shape, Core, Answered, Ownership
  <1>8. TicketsIssued'
    BY <1>2, <1>3 DEF Shape, Core, TicketsIssued
  <1>9. TicketsOfChunks'
    BY <1>2, <1>3 DEF Shape, Core, TicketsOfChunks
  <1>10. Holding'
    BY <1>2, <1>3 DEF Shape, Core, Holding, Ownership, Membership, Flags, Held
  <1>11. NoOvertaking'
    BY <1>2, <1>3 DEF Shape, Core, NoOvertaking, Membership, Ownership, Flags
  <1>12. QED
    BY <1>4, <1>5, <1>6, <1>7, <1>8, <1>9, <1>10, <1>11 DEF Core

\* complete() gives the job that was compiled its answer.
LEMMA CompleteCore ==
  ASSUME NEW l \in Listeners
  PROVE  Before /\ Complete(l) => Core'
  <1>1. SUFFICES ASSUME Before, Complete(l) PROVE Core'
    OBVIOUS
  <1>2. Shape /\ Core
    BY <1>1, ShapeHolds DEF Before
  <1>3. /\ at[l] = "found" /\ given[l] \in allocated
        /\ \A k \in Listeners : at'[k] = IF k = l THEN "listening" ELSE at[k]
        /\ \A k \in Listeners : given'[k] = IF k = l THEN NoChunk ELSE given[k]
        /\ \A k \in Listeners \ {l} : ptr'[k] = ptr[k]
        /\ \A c \in Chunks :
             /\ job'[c].ready <=> job[c].ready
             /\ job'[c].submitted <=> job[c].submitted
             /\ job'[c].completed <=> (c = given[l] \/ job[c].completed)
             /\ job'[c].ticket = job[c].ticket
             /\ job'[c].egress = IF c = given[l] THEN handed[l].egress ELSE job[c].egress
             /\ job'[c].ingress = job[c].ingress
             /\ job'[c].queue = job[c].queue
        /\ UNCHANGED <<allocated, arrival, pushes, ticket_id, pc, mine, wanted, handed, outcome>>
    <2>1. /\ at[l] = "found" /\ given[l] \in allocated /\ given[l] \in Chunks
          /\ ptr[l] = given[l] /\ ptr[l] # NoChunk
      BY <1>1, <1>2 DEF Complete, Core, Holding, Held, Shape
    <2>2. job' = [job EXCEPT ![given[l]].egress = handed[l].egress,
                             ![given[l]].completed = TRUE]
      BY <1>1, <2>1 DEF Complete
    <2>3. QED
      BY <1>1, <2>1, <2>2 DEF Complete, Before, TypeInv, TypeOK, JobRecord, subVars
  <1>4. Ownership'
    BY <1>2, <1>3 DEF Shape, Core, Ownership
  <1>5. Membership'
    BY <1>2, <1>3 DEF Shape, Core, Membership, Ownership
  <1>6. Flags'
    BY <1>2, <1>3 DEF Shape, Core, Flags, Ownership, Holding, Held
  <1>7. Answered'
    BY <1>2, <1>3 DEF Shape, Core, Answered, Ownership, Holding, Held
  <1>8. TicketsIssued'
    BY <1>2, <1>3 DEF Shape, Core, TicketsIssued
  <1>9. TicketsOfChunks'
    BY <1>2, <1>3 DEF Shape, Core, TicketsOfChunks
  <1>10. Holding'
    BY <1>2, <1>3 DEF Shape, Core, Holding, Ownership, Membership, Flags, Held
  <1>11. NoOvertaking'
    BY <1>2, <1>3 DEF Shape, Core, NoOvertaking, Membership, Ownership, Flags
  <1>12. QED
    BY <1>4, <1>5, <1>6, <1>7, <1>8, <1>9, <1>10, <1>11 DEF Core

-----------------------------------------------------------------------------
(* Theorems                                                                *)

\* Nothing that Core speaks of changes in a stuttering step.
LEMMA StutterCore ==
  Core /\ UNCHANGED vars => Core'
  BY DEF Core, Ownership, Membership, Flags, Answered, TicketsIssued, TicketsOfChunks,
         Holding, Held, NoOvertaking, vars, memVars, subVars, lisVars, histVars

\* Tickets are only ever issued, never taken back.
LEMMA TicketsGrow ==
  ASSUME TypeInv, [Next]_vars PROVE ticket_id' >= ticket_id
  <1>1. ticket_id' = ticket_id \/ ticket_id' = ticket_id + 1
    BY DEF Next, SubmitterStep, ListenerStep, NewJob, Enqueue, ObserveCompleted, Retire,
           Collect, Take, Deliver, Compile, FindJob, Complete, vars, memVars
  <1>2. QED
    BY <1>1 DEF TypeInv, TypeOK

\* Every step preserves the inductive invariant.
LEMMA IInvStep ==
  ASSUME TicketsTell, IInv, [Next]_vars PROVE IInv'
  <1>1. TypeInv /\ TypeInv'
    BY TypeStep, QueueAssumption DEF IInv
  <1>2. SUFFICES ASSUME InService' PROVE Core'
    BY <1>1 DEF IInv
  <1>3. InService
    BY <1>1, <1>2, TicketsGrow, QueueAssumption DEF InService, TypeInv, TypeOK
  <1>4. Before
    BY <1>1, <1>3 DEF IInv, Before
  <1>5. ASSUME NEW s \in Submitters, NEW q \in QueueNames, NEW f \in Files,
               NEW c \in Chunks, NewJob(s, q, f, c)
        PROVE  Core'
    BY <1>4, <1>5, NewJobCore
  <1>6. ASSUME NEW s \in Submitters, SubmitterStep(s) PROVE Core'
    BY <1>4, <1>6, EnqueueCore, ObserveCore, RetireCore, CollectCore DEF SubmitterStep
  <1>7. ASSUME NEW l \in Listeners, ListenerStep(l) PROVE Core'
    BY <1>4, <1>7, TakeCore, DeliverCore, CompileCore, FindJobCore, CompleteCore
       DEF ListenerStep
  <1>8. QED
    BY <1>4, <1>5, <1>6, <1>7, StutterCore DEF Next, Before

\* The state of the queue is always well typed, whatever the heap holds.
THEOREM TypeCorrect == Spec => []TypeOK
  <1>1. Init => TypeInv
    BY TypeInit, QueueAssumption
  <1>2. TypeInv /\ [Next]_vars => TypeInv'
    BY TypeStep, QueueAssumption
  <1>3. TypeInv => TypeOK
    BY DEF TypeInv
  <1>4. QED
    BY <1>1, <1>2, <1>3, PTL DEF Spec

\* The inductive invariant holds of every behaviour in which the heap lets
\* tickets tell jobs apart.
THEOREM Invariance ==
  ASSUME TicketsTell PROVE Spec => []IInv
  <1>1. Init => IInv
    BY TypeInit, CoreInit, QueueAssumption DEF IInv
  <1>2. IInv /\ [Next]_vars => IInv'
    BY IInvStep
  <1>3. QED
    BY <1>1, <1>2, PTL DEF Spec

\* complete() always writes to the job its own listener compiled, which is
\* still allocated, and no two listeners are given the same job.
THEOREM ListenersOwnTheirJobs ==
  ASSUME TicketsTell
  PROVE  Spec => [](InService => CompletesOwnJob /\ HandedToOne /\ HandedJobAlive)
  <1>1. IInv => (InService => CompletesOwnJob /\ HandedToOne /\ HandedJobAlive)
    <2>1. SUFFICES ASSUME IInv, InService
                   PROVE  CompletesOwnJob /\ HandedToOne /\ HandedJobAlive
      OBVIOUS
    <2>2. Holding /\ TypeInv
      BY <2>1 DEF IInv, Core
    <2>3. HandedToOne
      BY <2>2 DEF Holding, Held, HandedToOne
    <2>4. HandedJobAlive
      BY <2>2 DEF Holding, Held, HandedJobAlive
    <2>5. CompletesOwnJob
      BY <2>2 DEF Holding, Held, CompletesOwnJob
    <2>6. QED
      BY <2>3, <2>4, <2>5
  <1>2. QED
    BY <1>1, Invariance, PTL

\* Erasing by ticket never removes a job that is waited for and leaves no
\* pointer to a deleted job in a vector; jobs are handed out in push order.
THEOREM QueueIntegrity ==
  ASSUME TicketsTell
  PROVE  Spec => [](InService => QueueHoldsLiveJobs /\ NoOvertaking)
  <1>1. IInv => (InService => QueueHoldsLiveJobs /\ NoOvertaking)
    <2>1. SUFFICES ASSUME IInv, InService PROVE QueueHoldsLiveJobs /\ NoOvertaking
      OBVIOUS
    <2>2. Membership /\ NoOvertaking
      BY <2>1 DEF IInv, Core
    <2>3. QED
      BY <2>2 DEF Membership, QueueHoldsLiveJobs
  <1>2. QED
    BY <1>1, Invariance, PTL

\* submit() returns only after the job was compiled, with the egress name of
\* the submitter's own file.
THEOREM AnswersAreOwn ==
  ASSUME TicketsTell PROVE Spec => [](InService => OwnAnswer)
  <1>1. IInv => (InService => OwnAnswer)
    <2>1. SUFFICES ASSUME IInv, InService, NEW s \in Submitters,
                          pc[s] \in {"observed", "retired"}
                   PROVE  /\ outcome[mine[s]] \in {"emitted", "diagnosed", "skipped"}
                          /\ job[mine[s]].egress =
                               IF outcome[mine[s]] = "skipped" THEN NoFile ELSE wanted[s]
      BY DEF OwnAnswer
    <2>2. Ownership /\ Flags /\ Answered
      BY <2>1 DEF IInv, Core
    <2>3. mine[s] \in allocated /\ wanted[s] = job[mine[s]].ingress /\ job[mine[s]].completed
      BY <2>1, <2>2 DEF Ownership, Flags
    <2>4. QED
      BY <2>2, <2>3 DEF Answered
  <1>2. QED
    BY <1>1, Invariance, PTL

\* The job a listener works on is neither deleted nor answered behind its
\* back, for any number of listeners.
COROLLARY HandedJobsLive ==
  ASSUME TicketsTell PROVE Spec => [](InService => HandedJobAlive)
  BY ListenersOwnTheirJobs, PTL

\* Jobs of one queue are handed out in the order they were pushed.
COROLLARY OrderKept ==
  ASSUME TicketsTell PROVE Spec => [](InService => NoOvertaking)
  BY QueueIntegrity, PTL

-----------------------------------------------------------------------------
(* The queue implements the transpile service                              *)

\* A step that completes no job, throws at none and moves no submitter to or
\* from idle is invisible to the callers of submit().
LEMMA InvisibleStep ==
  ASSUME Shape, Ownership,
         \A s \in Submitters : pc'[s] = "idle" <=> pc[s] = "idle",
         \A c \in Chunks : /\ job'[c].completed <=> job[c].completed
                           /\ job'[c].egress = job[c].egress
                           /\ outcome'[c] = "thrown" <=> outcome[c] = "thrown",
         UNCHANGED <<mine, wanted>>
  PROVE  UNCHANGED <<requestState, wanted, requestAnswer>>
  <1>1. \A s \in Submitters : pc[s] # "idle" => mine[s] \in Chunks
    BY DEF Shape, Ownership
  <1>2. requestState' = requestState
    BY <1>1 DEF requestState
  <1>3. requestAnswer' = requestAnswer
    BY <1>1 DEF requestAnswer
  <1>4. QED
    BY <1>2, <1>3

\* new job() is the request.
LEMMA NewJobRequests ==
  ASSUME NEW s \in Submitters, NEW q \in QueueNames, NEW f \in Files, NEW c \in Chunks,
         Before, NewJob(s, q, f, c)
  PROVE  Service!Request(s, f)
  <1>1. Shape /\ Ownership
    BY ShapeHolds DEF Before, Core
  <1>2. /\ pc[s] = "idle" /\ wanted[s] = NoFile /\ c \notin allocated
        /\ \A u \in Submitters : pc'[u] = IF u = s THEN "built" ELSE pc[u]
        /\ \A u \in Submitters : mine'[u] = IF u = s THEN c ELSE mine[u]
        /\ wanted' = [wanted EXCEPT ![s] = f]
        /\ ~job'[c].completed /\ job'[c].egress = NoFile /\ outcome'[c] = "none"
        /\ \A d \in Chunks \ {c} : job'[d] = job[d] /\ outcome'[d] = outcome[d]
    BY <1>1 DEF NewJob, BlankJob, Before, TypeInv, TypeOK, JobRecord, Ownership
  <1>3. ASSUME NEW u \in Submitters, u # s
        PROVE  requestState'[u] = requestState[u] /\ requestAnswer'[u] = requestAnswer[u]
    <2>1. CASE pc[u] = "idle"
      BY <1>2, <1>3, <2>1 DEF requestState, requestAnswer
    <2>2. CASE pc[u] # "idle"
      <3>1. mine[u] \in Chunks \ {c} /\ mine'[u] = mine[u] /\ pc'[u] # "idle"
        BY <1>1, <1>2, <1>3, <2>2 DEF Shape, Ownership
      <3>2. job'[mine'[u]] = job[mine[u]] /\ outcome'[mine'[u]] = outcome[mine[u]]
        BY <1>2, <3>1
      <3>3. QED
        BY <2>2, <3>1, <3>2 DEF requestState, requestAnswer
    <2>3. QED
      BY <2>1, <2>2
  <1>4. requestState[s] = "none" /\ requestAnswer[s] = NoFile
    BY <1>2 DEF requestState, requestAnswer
  <1>5. requestState'[s] = "pending" /\ requestAnswer'[s] = NoFile
    <2>1. pc'[s] = "built" /\ mine'[s] = c
      BY <1>2
    <2>2. QED
      BY <1>2, <2>1 DEF requestState, requestAnswer
  <1>6. requestState' = [requestState EXCEPT ![s] = "pending"]
    BY <1>3, <1>5 DEF requestState
  <1>7. requestAnswer' = requestAnswer
    BY <1>3, <1>4, <1>5 DEF requestAnswer
  <1>8. QED
    BY <1>2, <1>4, <1>6, <1>7 DEF Service!Request

\* complete() is the answer to the submitter that owns the job.
LEMMA CompleteAnswers ==
  ASSUME NEW l \in Listeners, Before, Complete(l)
  PROVE  \E s \in Submitters : Service!Answer(s)
  <1>1. Shape /\ Ownership /\ Holding /\ Answered
    BY ShapeHolds DEF Before, Core
  <1>2. /\ given[l] \in allocated /\ given[l] \in Chunks /\ ptr[l] = given[l]
        /\ given[l] # NoChunk /\ ~job[given[l]].completed
        /\ handed[l].egress \in {job[given[l]].ingress, NoFile}
        /\ outcome[given[l]] # "thrown" /\ outcome' = outcome
    BY <1>1 DEF Complete, Holding, Held, Shape
  <1>3. PICK s \in Submitters : mine[s] = given[l]
    BY <1>1, <1>2 DEF Ownership
  <1>4. pc[s] # "idle" /\ wanted[s] = job[given[l]].ingress
    BY <1>1, <1>2, <1>3 DEF Ownership
  <1>5. /\ \A d \in Chunks \ {given[l]} : job'[d] = job[d]
        /\ job'[given[l]].completed
        /\ job'[given[l]].egress = handed[l].egress
        /\ UNCHANGED <<pc, mine, wanted>>
    <2>1. job' = [job EXCEPT ![given[l]].egress = handed[l].egress,
                             ![given[l]].completed = TRUE]
      BY <1>2 DEF Complete
    <2>2. QED
      BY <1>2, <2>1 DEF Complete, Before, TypeInv, TypeOK, JobRecord, subVars
  <1>6. ASSUME NEW u \in Submitters, u # s
        PROVE  requestState'[u] = requestState[u] /\ requestAnswer'[u] = requestAnswer[u]
    <2>1. CASE pc[u] = "idle"
      BY <1>5, <2>1 DEF requestState, requestAnswer
    <2>2. CASE pc[u] # "idle"
      <3>1. mine[u] \in Chunks \ {given[l]}
        BY <1>1, <1>2, <1>3, <1>6, <2>2 DEF Shape, Ownership
      <3>2. job'[mine'[u]] = job[mine[u]] /\ outcome'[mine'[u]] = outcome[mine[u]]
        BY <1>2, <1>5, <3>1
      <3>3. QED
        BY <1>5, <2>2, <3>2 DEF requestState, requestAnswer
    <2>3. QED
      BY <2>1, <2>2
  <1>7. requestState[s] = "pending"
    BY <1>2, <1>3, <1>4 DEF requestState
  <1>8. requestState'[s] = "answered" /\ requestAnswer'[s] = handed[l].egress
    BY <1>3, <1>4, <1>5 DEF requestState, requestAnswer
  <1>9. requestState' = [requestState EXCEPT ![s] = "answered"]
    BY <1>6, <1>8 DEF requestState
  <1>10. requestAnswer' = [requestAnswer EXCEPT ![s] = handed[l].egress]
    BY <1>6, <1>8 DEF requestAnswer
  <1>11. handed[l].egress \in {wanted[s], NoFile}
    BY <1>2, <1>4
  <1>12. QED
    BY <1>5, <1>7, <1>9, <1>10, <1>11 DEF Service!Answer

\* Deleting the job is the return of the request.
LEMMA CollectReturns ==
  ASSUME NEW s \in Submitters, Before, Collect(s)
  PROVE  Service!Return(s)
  <1>1. Shape /\ Ownership /\ Flags
    BY ShapeHolds DEF Before, Core
  <1>2. /\ pc[s] = "retired" /\ job[mine[s]].completed
        /\ \A u \in Submitters : pc'[u] = IF u = s THEN "idle" ELSE pc[u]
        /\ \A u \in Submitters : u # s => mine'[u] = mine[u]
        /\ wanted' = [wanted EXCEPT ![s] = NoFile]
        /\ job' = job /\ outcome' = outcome
    BY <1>1 DEF Collect, Shape, Flags, histVars
  <1>3. requestState[s] = "answered"
    BY <1>2 DEF requestState
  <1>4. requestState' = [requestState EXCEPT ![s] = "none"]
    BY <1>2 DEF requestState
  <1>5. requestAnswer' = [requestAnswer EXCEPT ![s] = NoFile]
    BY <1>2 DEF requestAnswer
  <1>6. QED
    BY <1>2, <1>3, <1>4, <1>5 DEF Service!Return

\* An exception of the compiler loses the request; any other outcome is not
\* seen yet.
LEMMA CompileLoses ==
  ASSUME NEW l \in Listeners, Before, Compile(l)
  PROVE  \/ UNCHANGED <<requestState, wanted, requestAnswer>>
         \/ \E s \in Submitters : Service!Lose(s)
  <1>1. Shape /\ Ownership /\ Holding
    BY ShapeHolds DEF Before, Core
  <1>2. PICK o \in Outcomes : outcome' = [outcome EXCEPT ![given[l]] = o]
    BY DEF Compile
  <1>3. /\ given[l] \in allocated /\ given[l] \in Chunks
        /\ ~job[given[l]].completed /\ outcome[given[l]] = "none"
        /\ UNCHANGED <<job, pc, mine, wanted>>
    BY <1>1 DEF Compile, Holding, Held, Shape, memVars, subVars
  <1>4. \A d \in Chunks : outcome'[d] = IF d = given[l] THEN o ELSE outcome[d]
    BY <1>2, <1>3 DEF Before, TypeInv, TypeOK
  <1>5. CASE o # "thrown"
    BY <1>1, <1>3, <1>4, <1>5, InvisibleStep
  <1>6. CASE o = "thrown"
    <2>1. PICK s \in Submitters : mine[s] = given[l]
      BY <1>1, <1>3 DEF Ownership
    <2>2. pc[s] # "idle" /\ given[l] # NoChunk
      BY <1>1, <1>3, <2>1, QueueAssumption DEF Ownership
    <2>3. requestAnswer' = requestAnswer
      BY <1>3 DEF requestAnswer
    <2>4. requestState[s] = "pending" /\ requestState'[s] = "lost"
      BY <1>3, <1>4, <1>6, <2>1, <2>2 DEF requestState
    <2>5. ASSUME NEW u \in Submitters, u # s PROVE requestState'[u] = requestState[u]
      <3>1. CASE pc[u] = "idle"
        BY <1>3, <3>1 DEF requestState
      <3>2. CASE pc[u] # "idle"
        <4>1. mine[u] \in Chunks \ {given[l]}
          BY <1>1, <2>1, <2>2, <2>5, <3>2 DEF Shape, Ownership
        <4>2. QED
          BY <1>3, <1>4, <3>2, <4>1 DEF requestState
      <3>3. QED
        BY <3>1, <3>2
    <2>6. requestState' = [requestState EXCEPT ![s] = "lost"]
      BY <2>4, <2>5 DEF requestState
    <2>7. QED
      BY <1>3, <2>3, <2>4, <2>6 DEF Service!Lose
  <1>7. QED
    BY <1>5, <1>6

\* Every step of the queue is a step of the service, or invisible.
LEMMA StepMaps ==
  ASSUME Before, [Next]_vars
  PROVE  [Service!Next]_(Service!vars)
  <1>1. Shape /\ Ownership
    BY ShapeHolds DEF Before, Core
  <1> DEFINE Invisible == UNCHANGED <<requestState, wanted, requestAnswer>>
  <1>2. ASSUME NEW s \in Submitters, NEW q \in QueueNames, NEW f \in Files,
               NEW c \in Chunks, NewJob(s, q, f, c)
        PROVE  Service!Next
    BY <1>2, NewJobRequests DEF Service!Next
  <1>3. ASSUME NEW s \in Submitters, Enqueue(s) PROVE Invisible
    <2>1. /\ \A u \in Submitters : pc'[u] = "idle" <=> pc[u] = "idle"
          /\ \A c \in Chunks : /\ job'[c].completed <=> job[c].completed
                               /\ job'[c].egress = job[c].egress
          /\ UNCHANGED <<mine, wanted, outcome>>
      BY <1>3 DEF Enqueue, Before, TypeInv, TypeOK, JobRecord, histVars
    <2>2. QED
      BY <1>1, <2>1, InvisibleStep
  <1>4. ASSUME NEW s \in Submitters, ObserveCompleted(s) \/ Retire(s) PROVE Invisible
    <2>1. /\ \A u \in Submitters : pc'[u] = "idle" <=> pc[u] = "idle"
          /\ UNCHANGED <<job, mine, wanted, outcome>>
      BY <1>1, <1>4 DEF ObserveCompleted, Retire, Shape, memVars, histVars
    <2>2. QED
      BY <1>1, <2>1, InvisibleStep
  <1>5. ASSUME NEW s \in Submitters, Collect(s) PROVE Service!Next
    BY <1>5, CollectReturns DEF Service!Next
  <1>6. ASSUME NEW l \in Listeners, Take(l) PROVE Invisible
    <2>1. PICK c \in Chunks :
            job' = [job EXCEPT ![c].ticket = ticket_id + 1, ![c].submitted = TRUE]
      BY <1>6 DEF Take
    <2>2. /\ \A d \in Chunks : /\ job'[d].completed <=> job[d].completed
                               /\ job'[d].egress = job[d].egress
          /\ UNCHANGED <<pc, mine, wanted, outcome>>
      BY <1>6, <2>1 DEF Take, Before, TypeInv, TypeOK, JobRecord, subVars
    <2>3. QED
      BY <1>1, <2>2, InvisibleStep
  <1>7. ASSUME NEW l \in Listeners, Deliver(l) \/ FindJob(l) PROVE Invisible
    <2>1. UNCHANGED <<job, pc, mine, wanted, outcome>>
      BY <1>7 DEF Deliver, FindJob, memVars, subVars, histVars
    <2>2. QED
      BY <1>1, <2>1, InvisibleStep
  <1>8. ASSUME NEW l \in Listeners, Complete(l) PROVE Service!Next
    BY <1>8, CompleteAnswers DEF Service!Next
  <1>9. CASE UNCHANGED vars
    <2>1. UNCHANGED <<job, pc, mine, wanted, outcome>>
      BY <1>9 DEF vars, memVars, subVars, histVars
    <2>2. Invisible
      BY <1>1, <2>1, InvisibleStep
    <2>3. QED
      BY <2>2 DEF Service!vars
  <1>10. ASSUME NEW l \in Listeners, Compile(l) PROVE Invisible \/ Service!Next
    BY <1>10, CompileLoses DEF Service!Next
  <1>11. QED
    BY <1>2, <1>3, <1>4, <1>5, <1>6, <1>7, <1>8, <1>9, <1>10
       DEF Next, SubmitterStep, ListenerStep, Service!vars

\* The initial states map to initial states.
LEMMA InitMaps == Init => Service!Init
  BY DEF Init, Service!Init, requestState, requestAnswer

\* As long as tickets fit 32 bits, the queue implements the service: every
\* request is answered at most once, with the output of its own file or none.
THEOREM QueueImplementsService ==
  ASSUME TicketsTell PROVE Spec /\ []InService => ServiceSafety
  <1>1. IInv /\ InService /\ [Next]_vars => [Service!Next]_(Service!vars)
    BY StepMaps DEF IInv, Before
  <1>2. QED
    BY <1>1, InitMaps, Invariance, PTL DEF Spec, Service!Spec, ServiceSafety
=============================================================================
