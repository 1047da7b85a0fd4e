--------------------------- MODULE QueueRefinement ---------------------------
(***************************************************************************)
(* The job queue implements the transpile service: a request is pending    *)
(* from the allocation of its job until complete() marks the job, and      *)
(* answered until the job is deleted; it is lost when the compiler throws  *)
(* at its job.                                                             *)
(***************************************************************************)
EXTENDS JobQueueInvariant

requestState ==
  [s \in Submitters |->
     IF pc[s] = "idle" THEN "none"
     ELSE IF job[mine[s]].completed THEN "answered"
     ELSE IF outcome[mine[s]] = "thrown" THEN "lost" ELSE "pending"]

requestAnswer ==
  [s \in Submitters |-> IF pc[s] = "idle" THEN NoFile ELSE job[mine[s]].egress]

Service == INSTANCE TranspileService
             WITH Clients <- Submitters, state <- requestState,
                  asked <- wanted, answer <- requestAnswer

\* Every step of submit(), get_job(), listen() and complete() is a step of the
\* service or changes nothing a caller of submit() can see.
ServiceSafety == Service!Spec

\* The same with the service's fairness: a queue that is listened to answers or loses.
ServiceImplemented == Service!FairSpec
=============================================================================
