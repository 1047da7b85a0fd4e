------------------------------- MODULE Macros -------------------------------
(***************************************************************************)
(* slim::macros::apply(): the macros of a source text are replaced, line   *)
(* by line, before the text is compiled.  A text is a sequence of lines, a *)
(* line a sequence of pieces, and a macro is a piece of its own wherever   *)
(* it stands, inside a string or a longer name too.                        *)
(***************************************************************************)
EXTENDS Naturals, TLC, SequencesExt

Quoted(name) == <<"\"">> \o name \o <<"\"">>

\* replace_token(): what has been put in is not searched for the same token.
ReplaceToken(token, line, with) ==
  FlattenSeq([i \in DOMAIN line |-> IF line[i] = token THEN with ELSE <<line[i]>>])

\* One after the other, in this order.
Apply(text, directory, file) ==
  [n \in DOMAIN text |->
     ReplaceToken("__line_number",
       ReplaceToken("__filename",
         ReplaceToken("__dirname", text[n], Quoted(directory)),
       Quoted(file)),
     <<ToString(n)>>)]

-----------------------------------------------------------------------------
\* What the macros stand for: every one that the file holds, and no other, has its value.
Value(piece, n, directory, file) ==
  CASE piece = "__dirname" -> Quoted(directory)
    [] piece = "__filename" -> Quoted(file)
    [] piece = "__line_number" -> <<ToString(n)>>
    [] OTHER -> <<piece>>

Meaning(text, directory, file) ==
  [n \in DOMAIN text |-> FlattenSeq([i \in DOMAIN text[n] |-> Value(text[n][i], n, directory, file)])]

\* No name holds a macro that is replaced later than its own.
Plain(directory, file) ==
  /\ {"__filename", "__line_number"} \intersect ToSet(directory) = {}
  /\ "__line_number" \notin ToSet(file)
=============================================================================
