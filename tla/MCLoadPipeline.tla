--------------------------- MODULE MCLoadPipeline ---------------------------
(***************************************************************************)
(* Small instances of the load pipeline for TLC.                           *)
(***************************************************************************)
EXTENDS LoadPipeline

CONSTANTS f1, f2, f3, e1, t1, t2, o1, o2

\* All source files have the same output name, as a/util.ts and b/util.ts do.
OneName == [f \in Files |-> e1]

\* f3 is f1 by a way through "..".
Normal == [f \in Files |-> IF f = f3 THEN f1 ELSE IF f = NoFile THEN e1 ELSE f]

\* What the compiler makes of a text.
OutputOf == [s \in Sources |-> IF s = t1 THEN o1 ELSE o2]

=============================================================================
