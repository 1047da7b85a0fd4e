----------------------------- MODULE MCJobQueue -----------------------------
(***************************************************************************)
(* Small instances of the job queue for TLC.                               *)
(***************************************************************************)
EXTENDS QueueRefinement

CONSTANT ts

\* Every listener awaits the queue "typescript", as job_loop() does.
AllOnOne == [l \in Listeners |-> ts]

\* What other code may leave where a ticket will be: nothing a live ticket could be.
Fresh == {-1, 0}
=============================================================================
