-------------------------- MODULE TranspileService --------------------------
(***************************************************************************)
(* What the transpile queue promises to the module loader: a thread asks   *)
(* for a file to be transpiled, the request is answered once, with the     *)
(* egress name of that very file or with no name when nothing was emitted, *)
(* and the thread goes on with the answer it was given.  A request that    *)
(* the compiler throws at is lost, and the thread waits for ever.          *)
(***************************************************************************)
CONSTANTS Clients, Files, NoFile

VARIABLES
  state,    \* of the request of each client: none, pending, answered or lost
  asked,    \* the file it asked for
  answer    \* the egress name it was given

vars == <<state, asked, answer>>

Init ==
  /\ state = [s \in Clients |-> "none"]
  /\ asked = [s \in Clients |-> NoFile]
  /\ answer = [s \in Clients |-> NoFile]

Request(s, f) ==
  /\ state[s] = "none"
  /\ state' = [state EXCEPT ![s] = "pending"]
  /\ asked' = [asked EXCEPT ![s] = f]
  /\ UNCHANGED answer

Answer(s) ==
  /\ state[s] = "pending"
  /\ state' = [state EXCEPT ![s] = "answered"]
  /\ \E e \in {asked[s], NoFile} : answer' = [answer EXCEPT ![s] = e]
  /\ UNCHANGED asked

Lose(s) ==
  /\ state[s] = "pending"
  /\ state' = [state EXCEPT ![s] = "lost"]
  /\ UNCHANGED <<asked, answer>>

Return(s) ==
  /\ state[s] = "answered"
  /\ state' = [state EXCEPT ![s] = "none"]
  /\ asked' = [asked EXCEPT ![s] = NoFile]
  /\ answer' = [answer EXCEPT ![s] = NoFile]

Next ==
  \E s \in Clients : Answer(s) \/ Lose(s) \/ Return(s) \/ \E f \in Files : Request(s, f)

Spec == Init /\ [][Next]_vars

\* Every request is answered or lost, and every answer is used.
FairSpec == Spec /\ \A s \in Clients : WF_vars(Answer(s) \/ Lose(s)) /\ WF_vars(Return(s))
=============================================================================
