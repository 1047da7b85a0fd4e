------------------------- MODULE JobQueueInvariant -------------------------
(***************************************************************************)
(* The inductive invariant of the job queue.  It says who owns a chunk,    *)
(* which chunks are queued, what the flags of a job mean, how tickets      *)
(* identify queued jobs, and what a listener knows of the job it holds.    *)
(***************************************************************************)
EXTENDS JobQueue

Held == {l \in Listeners : given[l] # NoChunk}

\* A chunk is allocated exactly while one submitter holds it.
Ownership ==
  /\ \A s \in Submitters :
       IF pc[s] = "idle" THEN mine[s] = NoChunk /\ wanted[s] = NoFile
       ELSE mine[s] \in allocated /\ wanted[s] = job[mine[s]].ingress
  /\ \A s, t \in Submitters : mine[s] = mine[t] /\ mine[s] # NoChunk => s = t
  /\ \A c \in allocated : \E s \in Submitters : mine[s] = c

\* A job is queued exactly while its submitter is between its two critical
\* sections, and no two jobs have the same place.
Membership ==
  /\ \A c \in Chunks \ allocated : arrival[c] = 0
  /\ \A s \in Submitters :
       pc[s] # "idle" => (arrival[mine[s]] # 0 <=> pc[s] \in {"waiting", "observed"})
  /\ \A c \in Chunks : arrival[c] <= pushes
  /\ \A c, d \in Chunks : arrival[c] = arrival[d] /\ arrival[c] # 0 => c = d

\* The flags of a job follow its submitter: ready once pushed, completed
\* before the submitter goes on, completed only after it was handed out.
Flags ==
  /\ \A s \in Submitters :
       /\ pc[s] = "built" => ~job[mine[s]].submitted
       /\ pc[s] \in {"waiting", "observed"} => job[mine[s]].ready
       /\ pc[s] \in {"observed", "retired"} => job[mine[s]].completed
  /\ \A c \in allocated : job[c].completed => job[c].submitted

\* A completed job carries the answer for its own file, one that is not
\* completed carries none; one that was not handed out has no outcome.
Answered ==
  \A c \in allocated :
    /\ IF job[c].completed
       THEN /\ outcome[c] \in {"emitted", "diagnosed", "skipped"}
            /\ job[c].egress = IF outcome[c] = "skipped" THEN NoFile ELSE job[c].ingress
       ELSE job[c].egress = NoFile
    /\ ~job[c].submitted => outcome[c] = "none"

\* The ticket of a job that was taken is one that was issued.
TicketsIssued ==
  \A c \in allocated : job[c].submitted => job[c].ticket \in 1 .. ticket_id

\* When the heap is clean, a positive number in a chunk, live or freed, is
\* the ticket issued to the job that was taken last in that very chunk.
TicketsOfChunks ==
  (\A g \in FreshTickets : g <= 0) =>
    \A c \in Chunks :
      /\ job[c].ticket <= ticket_id
      /\ \A d \in Chunks : c # d /\ job[c].ticket > 0 => job[c].ticket # job[d].ticket

\* What a listener holds: a job in service that no other listener holds, and
\* a JavaScript copy that agrees with it.
Holding ==
  /\ \A l \in Listeners : given[l] = NoChunk <=> at[l] = "listening"
  /\ \A k, l \in Held : given[k] = given[l] => k = l
  /\ \A l \in Held :
       LET c == given[l] IN
         /\ c \in allocated /\ arrival[c] # 0
         /\ job[c].submitted /\ ~job[c].completed
         /\ at[l] \in {"got", "found"} => ptr[l] = c
         /\ at[l] \in {"got", "compiling"} => outcome[c] = "none"
         /\ at[l] # "got" =>
              /\ handed[l].ticket = job[c].ticket
              /\ handed[l].queue = job[c].queue
              /\ handed[l].file = job[c].ingress
         /\ at[l] \in {"compiled", "found"} =>
              /\ outcome[c] \in {"emitted", "diagnosed", "skipped"}
              /\ handed[l].egress = IF outcome[c] = "skipped" THEN NoFile ELSE job[c].ingress

Core ==
  /\ Ownership /\ Membership /\ Flags /\ Answered
  /\ TicketsIssued /\ TicketsOfChunks /\ Holding /\ NoOvertaking

\* What follows for the lookups by ticket: no other live job, taken or not,
\* holds the number of a job that was taken.
TicketsDiffer ==
  \A c, d \in allocated :
    c # d /\ job[c].submitted => job[c].ticket # job[d].ticket

\* Types that hold whatever the tickets are: get_job() returned a chunk.
TypeInv ==
  /\ TypeOK
  /\ \A l \in Listeners : at[l] = "got" => ptr[l] \in Chunks
  /\ \A l \in Listeners : at[l] = "listening" <=> given[l] = NoChunk

\* The inductive invariant, as long as tickets fit the 32-bit v8::Integer.
IInv == TypeInv /\ (InService => Core)
=============================================================================
