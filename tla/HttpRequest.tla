---------------------------- MODULE HttpRequest ----------------------------
(***************************************************************************)
(* The first line of a request, as parse_line_1() cuts it at its spaces,   *)
(* and what handle_request() decides by it.  The header lines are parsed   *)
(* and looked at by nobody.                                                *)
(***************************************************************************)
EXTENDS Naturals, Sequences

CONSTANT
  Halves          \* the beginnings of a word, as far as a cut inside it is to be seen

\* The words parse_line_1() finds in what read() returned: the bytes may be the beginning of a
\* request, cut between two words or inside one.  One word alone, whole or not, is like none.
Arrived(words) ==
  UNION {{SubSeq(words, 1, n)} \union {Append(SubSeq(words, 1, n - 1), h) : h \in Halves[words[n]]} :
         n \in 2 .. Len(words)}

\* Words one, two and three are the method, the path and the version; a word
\* that is missing leaves its string empty, further ones are ignored.
Code_AnyVersion(words) ==                                      \* mutant
  IF Len(words) < 2 \/ (Len(words) > 2 /\ words[3] # "HTTP/1.1") THEN 505
  ELSE IF words[1] # "GET" THEN 501
  ELSE IF words[2] \in {"/", "/metrics"} THEN 200
  ELSE 404
Code(words) ==
  IF Len(words) < 3 \/ words[3] # "HTTP/1.1" THEN 505
  ELSE IF words[1] # "GET" THEN 501
  ELSE IF words[2] \in {"/", "/metrics"} THEN 200
  ELSE 404

AsksForPage(words) == Code(words) = 200 /\ words[2] = "/metrics"

\* The version comes last and may itself be cut down to HTTP/1.1, as HTTP/1.10 may.
CutToVersion(words) == Len(words) > 2 /\ "HTTP/1.1" \in Halves[words[3]]
TakenFor(words) ==
  {words} \union IF CutToVersion(words) THEN {<<words[1], words[2], "HTTP/1.1">>} ELSE {}
=============================================================================
