------------------------- MODULE ModuleLoaderProofs -------------------------
(***************************************************************************)
(* For any programs, plugins, hashes and depth of the stack: the two       *)
(* threads are never in the shared caches at once, a program that is       *)
(* evaluated has the answers to all its requests, every request is         *)
(* answered with what it names, and the macros of a file have its values.  *)
(*                                                                         *)
(* The paths and the texts of the model are defined by recursion and by    *)
(* folds; what they are is proved by induction over a set of numbers, or   *)
(* of sequences.                                                           *)
(***************************************************************************)
EXTENDS ModuleLoader, SequenceTheorems, WellFoundedInduction, TLAPS

\* A set of natural numbers that is not empty has a least one, and induction follows.
LEMMA LeastNatural ==
  ASSUME NEW T, T \subseteq Nat, T # {}
  PROVE  \E x \in T : \A y \in T : x <= y
  <1> DEFINE R == {ss \in Nat \X Nat : ss[1] < ss[2]}
  <1>1. IsWellFoundedOn(R, Nat)
    BY NatLessThanWellFounded DEF OpToRel
  <1> HIDE DEF R
  <1>2. \E x \in T : \A y \in T : ~ (<<y, x>> \in R)
    BY <1>1, WFMin
  <1>3. PICK x \in T : \A y \in T : ~ (<<y, x>> \in R)
    BY <1>2
  <1>4. ASSUME NEW y \in T, y < x PROVE FALSE
    <2>1. <<y, x>> \in Nat \X Nat /\ <<y, x>>[1] = y /\ <<y, x>>[2] = x
      OBVIOUS
    <2> QED
      BY <1>3, <1>4, <2>1 DEF R
  <1> QED
    BY <1>4

\* Induction over a set of natural numbers.
LEMMA SetInduction ==
  ASSUME NEW T, 0 \in T, \A n \in Nat : n \in T => n + 1 \in T
  PROVE  \A n \in Nat : n \in T
  <1> SUFFICES ASSUME NEW n \in Nat, n \notin T PROVE FALSE
    OBVIOUS
  <1>1. PICK x \in Nat \ T : \A y \in Nat \ T : x <= y
    BY LeastNatural, Nat \ T # {}, Nat \ T \subseteq Nat
  <1>2. x - 1 \in Nat /\ x - 1 \in T
    BY <1>1
  <1> QED
    BY <1>1, <1>2

-----------------------------------------------------------------------------
\* Where a path leads to, name by name.

\* The names that each part of a path leads to.
LeadsAlong(g, path, k) ==
  g = [n \in 0 .. k |-> IF n = 0 THEN <<>> ELSE Step(g[n - 1], path[n])]

\* The recursion of Normal has a value for every part of a path,
LEMMA LeadsExist ==
  ASSUME NEW path, NEW k \in Nat
  PROVE  \E g : LeadsAlong(g, path, k)
  <1> DEFINE T == {n \in Nat : \E g : LeadsAlong(g, path, n)}
  <1>1. 0 \in T
    <2>1. LeadsAlong([n \in 0 .. 0 |-> <<>>], path, 0)
      BY DEF LeadsAlong
    <2> QED BY <2>1
  <1>2. ASSUME NEW n \in Nat, n \in T PROVE n + 1 \in T
    <2>1. PICK g : LeadsAlong(g, path, n)
      BY <1>2
    <2> DEFINE h == [i \in 0 .. n + 1 |-> IF i = n + 1 THEN Step(g[n], path[n + 1]) ELSE g[i]]
    <2>2. \A i \in 0 .. n : g[i] = IF i = 0 THEN <<>> ELSE Step(g[i - 1], path[i])
      BY <2>1 DEF LeadsAlong
    <2>3. ASSUME NEW i \in 0 .. n + 1
          PROVE  h[i] = IF i = 0 THEN <<>> ELSE Step(h[i - 1], path[i])
      <3>1. CASE i = n + 1
        BY <3>1
      <3>2. CASE i \in 0 .. n
        BY <2>2, <3>2
      <3> QED BY <3>1, <3>2
    <2>4. LeadsAlong(h, path, n + 1)
      BY <2>3 DEF LeadsAlong
    <2> QED BY <2>4
  <1> HIDE DEF T
  <1>3. k \in T
    BY <1>1, <1>2, SetInduction
  <1> QED BY <1>3 DEF T

\* and one only, which the names after it have no part in.
LEMMA LeadsAgree ==
  ASSUME NEW path, NEW q, NEW g, NEW h, NEW j \in Nat, NEW k \in Nat, LeadsAlong(g, path, j), LeadsAlong(h, q, k),
         j <= k, \A i \in 1 .. j : path[i] = q[i]
  PROVE  g[j] = h[j]
  <1> DEFINE T == {n \in Nat : n <= j => g[n] = h[n]}
  <1>0. /\ \A n \in 0 .. j : g[n] = IF n = 0 THEN <<>> ELSE Step(g[n - 1], path[n])
        /\ \A n \in 0 .. k : h[n] = IF n = 0 THEN <<>> ELSE Step(h[n - 1], q[n])
    BY DEF LeadsAlong
  <1>1. 0 \in T
    BY <1>0
  <1>2. ASSUME NEW n \in Nat, n \in T PROVE n + 1 \in T
    BY <1>0, <1>2
  <1> HIDE DEF T
  <1>3. j \in T
    BY <1>1, <1>2, SetInduction
  <1> QED BY <1>3 DEF T

\* Normal(path) is the last of these values.
LEMMA NormalIs ==
  ASSUME NEW path, Len(path) \in Nat
  PROVE  \E g : LeadsAlong(g, path, Len(path)) /\ Normal(path) = g[Len(path)]
  <1>1. \E g : LeadsAlong(g, path, Len(path))
    BY LeadsExist
  <1> DEFINE g == CHOOSE g : LeadsAlong(g, path, Len(path))
  <1>2. LeadsAlong(g, path, Len(path))
    BY <1>1
  <1>3. Normal(path) = g[Len(path)]
    BY DEF Normal, LeadsAlong
  <1> QED BY <1>2, <1>3

\* The empty path leads to the root.
LEMMA NormalEmpty == Normal(<<>>) = <<>>
  <1>1. Len(<<>>) = 0
    OBVIOUS
  <1>2. PICK g : LeadsAlong(g, <<>>, 0) /\ Normal(<<>>) = g[0]
    BY <1>1, NormalIs
  <1> QED BY <1>2 DEF LeadsAlong

\* One more name is one more step.
LEMMA NormalAppend ==
  ASSUME NEW S, NEW path \in Seq(S), NEW n \in S
  PROVE  Normal(Append(path, n)) = Step(Normal(path), n)
  <1>0. PICK k, longer : k = Len(path) /\ longer = Append(path, n)
    OBVIOUS
  <1>1. /\ longer \in Seq(S) /\ Len(longer) = k + 1 /\ k \in Nat
        /\ longer[k + 1] = n /\ \A i \in 1 .. k : path[i] = longer[i]
    BY <1>0, AppendProperties, LenProperties
  <1>2. PICK g : LeadsAlong(g, path, k) /\ Normal(path) = g[k]
    BY <1>0, <1>1, NormalIs
  <1>3. PICK h : LeadsAlong(h, longer, k + 1) /\ Normal(longer) = h[k + 1]
    BY <1>1, NormalIs
  <1>4. g[k] = h[k]
    <2>1. PICK m : m = k + 1
      OBVIOUS
    <2>2. m \in Nat /\ k \in Nat /\ k <= m
      BY <1>1, <2>1
    <2>3. LeadsAlong(h, longer, m) /\ LeadsAlong(g, path, k)
      BY <1>2, <1>3, <2>1
    <2>4. \A i \in 1 .. k : path[i] = longer[i]
      BY <1>1
    <2> QED BY <2>2, <2>3, <2>4, LeadsAgree
  <1>5. h[k + 1] = Step(h[k], longer[k + 1])
    <2>1. k + 1 \in 0 .. k + 1 /\ k + 1 # 0 /\ (k + 1) - 1 = k
      BY <1>1
    <2>2. h[k + 1] = IF k + 1 = 0 THEN <<>> ELSE Step(h[(k + 1) - 1], longer[k + 1])
      BY <1>3, <2>1 DEF LeadsAlong
    <2> QED BY <2>1, <2>2
  <1> QED BY <1>1, <1>2, <1>3, <1>4, <1>5, <1>0

\* A fact about the empty sequence and about one more name is one about every path.
LEMMA PathInduction ==
  ASSUME NEW S, NEW T, <<>> \in T, \A s \in Seq(S), x \in S : s \in T => Append(s, x) \in T
  PROVE  Seq(S) \subseteq T
  <1> DEFINE N == {n \in Nat : \A s \in Seq(S) : Len(s) = n => s \in T}
  <1>1. 0 \in N
    OBVIOUS
  <1>2. ASSUME NEW n \in Nat, n \in N PROVE n + 1 \in N
    <2> SUFFICES ASSUME NEW s \in Seq(S), Len(s) = n + 1 PROVE s \in T
      OBVIOUS
    <2>1. PICK r \in Seq(S), x \in S : s = Append(r, x)
      BY SequenceEmptyOrAppend, s # <<>>
    <2>2. Len(r) = n
      BY <2>1, AppendProperties, LenProperties
    <2> QED BY <1>2, <2>1, <2>2
  <1> HIDE DEF N
  <1>3. \A n \in Nat : n \in N
    BY <1>1, <1>2, SetInduction
  <1>4. \A s \in Seq(S) : Len(s) \in Nat
    OBVIOUS
  <1> QED BY <1>3, <1>4 DEF N

\* Three sequences, put together.
Associate(p, q, r) == (p \o q) \o r = p \o (q \o r)

\* Sequences put together in either order.
LEMMA ConcatThree ==
  ASSUME NEW S, NEW p \in Seq(S), NEW q \in Seq(S), NEW r \in Seq(S)
  PROVE  Associate(p, q, r)
  <1>1. p \o (q \o r) = (p \o q) \o r
    BY ConcatAssociative
  <1> QED BY <1>1 DEF Associate

\* A name appended to the second of two paths.
LEMMA AppendConcat ==
  ASSUME NEW S, NEW p \in Seq(S), NEW r \in Seq(S), NEW x \in S
  PROVE  p \o Append(r, x) = Append(p \o r, x)
  <1>1. <<x>> \in Seq(S)
    OBVIOUS
  <1>2. p \o (r \o <<x>>) = (p \o r) \o <<x>>
    BY <1>1, ConcatAssociative
  <1>3. Append(r, x) = r \o <<x>>
    BY AppendIsConcat
  <1>4. p \o r \in Seq(S)
    BY ConcatProperties
  <1>5. Append(p \o r, x) = (p \o r) \o <<x>>
    BY <1>4, AppendIsConcat
  <1> QED BY <1>2, <1>3, <1>5

\* A path leads to a path.
LEMMA NormalType ==
  ASSUME NEW S, NEW path \in Seq(S)
  PROVE  Normal(path) \in Seq(S \ Dots)
  <1> DEFINE T == {p \in Seq(S) : Normal(p) \in Seq(S \ Dots)}
  <1>1. <<>> \in T
    BY NormalEmpty, EmptySeq
  <1>2. ASSUME NEW p \in Seq(S), NEW n \in S, p \in T PROVE Append(p, n) \in T
    <2>1. Normal(Append(p, n)) = Step(Normal(p), n)
      BY NormalAppend
    <2>2. \A names \in Seq(S \ Dots) : Step(names, n) \in Seq(S \ Dots)
      <3> TAKE names \in Seq(S \ Dots)
      <3>1. CASE n = ".."
        BY <3>1 DEF Step
      <3>2. CASE n \notin Dots
        BY <3>2 DEF Step, Dots
      <3> QED BY <3>1, <3>2 DEF Step, Dots
    <2>3. Append(p, n) \in Seq(S)
      BY AppendProperties
    <2> QED BY <1>2, <2>1, <2>2, <2>3
  <1> HIDE DEF T
  <1>3. path \in T
    BY <1>1, <1>2, PathInduction
  <1> QED BY <1>3 DEF T

\* A path without dots leads to itself.
LEMMA NormalOfPlain ==
  ASSUME NEW S, NEW path \in Seq(S \ Dots)
  PROVE  Normal(path) = path
  <1> DEFINE T == {p \in Seq(S \ Dots) : Normal(p) = p}
  <1>1. <<>> \in T
    BY NormalEmpty
  <1>2. ASSUME NEW p \in Seq(S \ Dots), NEW n \in S \ Dots, p \in T PROVE Append(p, n) \in T
    <2>1. p \in Seq(S)
      OBVIOUS
    <2>2. Normal(Append(p, n)) = Step(Normal(p), n)
      BY <2>1, NormalAppend
    <2> QED BY <1>2, <2>2 DEF Step, Dots
  <1> HIDE DEF T
  <1>3. path \in T
    BY <1>1, <1>2, PathInduction
  <1> QED BY <1>3 DEF T

\* Where the rest of a path leads to depends on where its beginning does.
LEMMA NormalOnward ==
  ASSUME NEW S, NEW p \in Seq(S), NEW q \in Seq(S), Normal(p) = Normal(q), NEW rest \in Seq(S)
  PROVE  Normal(p \o rest) = Normal(q \o rest)
  <1> DEFINE T == {r \in Seq(S) : Normal(p \o r) = Normal(q \o r)}
  <1>1. <<>> \in T
    <2>1. p \o <<>> = p /\ q \o <<>> = q
      OBVIOUS
    <2> QED BY <2>1
  <1>2. ASSUME NEW r \in Seq(S), NEW n \in S, r \in T PROVE Append(r, n) \in T
    <2>1. p \o Append(r, n) = Append(p \o r, n)
      BY AppendConcat
    <2>1a. q \o Append(r, n) = Append(q \o r, n)
      BY AppendConcat
    <2>2. p \o r \in Seq(S) /\ q \o r \in Seq(S)
      OBVIOUS
    <2>3. /\ Normal(Append(p \o r, n)) = Step(Normal(p \o r), n)
          /\ Normal(Append(q \o r, n)) = Step(Normal(q \o r), n)
      BY <2>2, NormalAppend
    <2>4. Append(r, n) \in Seq(S)
      BY AppendProperties
    <2> QED BY <1>2, <2>1, <2>1a, <2>3, <2>4
  <1> HIDE DEF T
  <1>3. rest \in T
    BY <1>1, <1>2, PathInduction
  <1> QED BY <1>3 DEF T

\* A path with an extension is its directory, a name and the extension.
LEMMA PathParts ==
  ASSUME NEW S, NEW p \in Seq(S), HasExtension(p), Len(p) > 1
  PROVE  /\ DirectoryIn(p) \in Seq(S) /\ Last(p) \in S /\ p[Len(p) - 1] \in S
         /\ p = Append(Append(DirectoryIn(p), p[Len(p) - 1]), Last(p))
         /\ Len(DirectoryIn(p)) = Len(p) - 2
  <1>1. PICK q \in Seq(S), e \in S : p = Append(q, e)
    BY SequenceEmptyOrAppend DEF HasExtension
  <1>2. /\ Len(p) = Len(q) + 1 /\ Len(q) \in Nat /\ p[Len(q) + 1] = e
        /\ \A i \in 1 .. Len(q) : p[i] = q[i]
    BY <1>1, AppendProperties, LenProperties
  <1>3. q # <<>>
    BY <1>2
  <1>4. PICK d \in Seq(S), n \in S : q = Append(d, n)
    BY <1>3, SequenceEmptyOrAppend
  <1>5. /\ Len(q) = Len(d) + 1 /\ Len(d) \in Nat /\ q[Len(d) + 1] = n
        /\ \A i \in 1 .. Len(d) : q[i] = d[i]
    BY <1>4, AppendProperties, LenProperties
  <1>6. Last(p) = e /\ p[Len(p) - 1] = n
    BY <1>2, <1>5 DEF Last
  <1>7. DirectoryIn(p) = SubSeq(p, 1, Len(d))
    BY <1>2, <1>5 DEF DirectoryIn, Names
  <1>8. \A i \in 1 .. Len(d) : p[i] \in S
    BY <1>2, <1>5, ElementOfSeq
  <1>9. /\ SubSeq(p, 1, Len(d)) \in Seq(S) /\ Len(SubSeq(p, 1, Len(d))) = Len(d)
        /\ \A i \in 1 .. Len(d) : SubSeq(p, 1, Len(d))[i] = p[i]
    <2>1. PICK k \in Nat : k = Len(d)
      BY <1>5
    <2>2. 1 \in Int /\ k \in Int /\ \A i \in 1 .. k : p[i] \in S
      BY <1>8, <2>1
    <2>3. /\ SubSeq(p, 1, k) \in Seq(S) /\ Len(SubSeq(p, 1, k)) = IF 1 <= k THEN k - 1 + 1 ELSE 0
          /\ \A i \in 1 .. k - 1 + 1 : SubSeq(p, 1, k)[i] = p[1 + i - 1]
      BY <2>2, SubSeqProperties
    <2> QED BY <2>1, <2>3
  <1>10. SubSeq(p, 1, Len(d)) = d
    BY <1>2, <1>5, <1>9, SeqEqual
  <1> QED BY <1>1, <1>2, <1>4, <1>5, <1>6, <1>7, <1>10

\* The directory of a path with an extension leads to the directory of its file.
LEMMA DirectoryNormal ==
  ASSUME NEW S, NEW p \in Seq(S), HasExtension(p), Len(p) > 1, p[Len(p) - 1] \notin Dots
  PROVE  DirectoryIn(Normal(p)) = Normal(DirectoryIn(p))
  <1>1. PICK d, n, e : d = DirectoryIn(p) /\ n = p[Len(p) - 1] /\ e = Last(p)
    OBVIOUS
  <1>2. d \in Seq(S) /\ n \in S /\ e \in S /\ p = Append(Append(d, n), e)
    BY <1>1, PathParts
  <1>3. e \notin Dots /\ n \notin Dots
    BY <1>1, ExtensionsAssumption DEF HasExtension
  <1>4. Normal(Append(d, n)) = Append(Normal(d), n)
    BY <1>2, <1>3, NormalAppend DEF Step, Dots
  <1>5. Append(d, n) \in Seq(S)
    BY <1>2, AppendProperties
  <1>6. Normal(p) = Append(Append(Normal(d), n), e)
    BY <1>2, <1>3, <1>4, <1>5, NormalAppend DEF Step, Dots
  <1>7. Normal(d) \in Seq(S)
    <2>1. Normal(d) \in Seq(S \ Dots)
      BY <1>2, NormalType
    <2> QED BY <2>1, SeqMonotonic
  <1>8. PICK f, r : f = Append(Append(Normal(d), n), e) /\ r = Append(Normal(d), n)
    OBVIOUS
  <1>9. r \in Seq(S) /\ Len(r) = Len(Normal(d)) + 1
    BY <1>2, <1>7, <1>8, AppendProperties
  <1>10. /\ f \in Seq(S) /\ f = Append(r, e) /\ Len(f) = Len(r) + 1 /\ f[Len(r) + 1] = e /\ f # <<>>
    BY <1>2, <1>8, <1>9, AppendProperties
  <1>11. Len(Normal(d)) \in Nat
    BY <1>7, LenProperties
  <1>12. Last(f) = e /\ Len(f) > 1
    BY <1>9, <1>10, <1>11 DEF Last
  <1>13. HasExtension(f)
    BY <1>1, <1>10, <1>12 DEF HasExtension
  <1>14. /\ DirectoryIn(f) \in Seq(S) /\ Last(f) \in S /\ f[Len(f) - 1] \in S
         /\ f = Append(Append(DirectoryIn(f), f[Len(f) - 1]), Last(f))
    BY <1>10, <1>12, <1>13, PathParts
  <1>15. Append(DirectoryIn(f), f[Len(f) - 1]) = r
    <2>1. Append(DirectoryIn(f), f[Len(f) - 1]) \in Seq(S)
      BY <1>14, AppendProperties
    <2> QED BY <1>2, <1>9, <1>10, <1>14, <2>1, AppendInjective
  <1>16. DirectoryIn(f) = Normal(d)
    BY <1>2, <1>7, <1>8, <1>14, <1>15, AppendInjective
  <1> QED BY <1>1, <1>6, <1>8, <1>16

\* A request leads to the same file from the path of a module and from its file.
LEMMA BaseMoves ==
  ASSUME NEW S, NEW p \in Seq(S), HasExtension(p), Len(p) > 1, p[Len(p) - 1] \notin Dots, NEW rest \in Seq(S)
  PROVE  Normal(DirectoryIn(Normal(p)) \o rest) = Normal(DirectoryIn(p) \o rest)
  <1>1. PICK d : d = DirectoryIn(p)
    OBVIOUS
  <1>2. d \in Seq(S)
    BY <1>1, PathParts
  <1>3. Normal(d) \in Seq(S \ Dots)
    BY <1>2, NormalType
  <1>4. Normal(d) \in Seq(S)
    BY <1>3, SeqMonotonic
  <1>5. Normal(Normal(d)) = Normal(d)
    BY <1>3, NormalOfPlain
  <1>6. Normal(Normal(d) \o rest) = Normal(d \o rest)
    BY <1>2, <1>4, <1>5, NormalOnward
  <1> QED BY <1>1, <1>6, DirectoryNormal

-----------------------------------------------------------------------------
\* The two threads, and the shape of the state.

\* Until the server has loaded its modules the script's thread has none: it waits for
\* the first source it fetched, or has given up.  A loaded server stays so.
Inv == /\ pc \in [Threads -> Steps]
       /\ pc[Server] # "loaded" => pc[Script] \in {"begin", "wanted", "failed"}

\* Both threads are about to begin.
LEMMA InvInit == Init => Inv
  BY ThreadsAssumption DEF Init, Inv, Threads, Steps

\* Each step of a thread ends in one of a few places.
LEMMA Places ==
  ASSUME Inv, NEW t \in Threads, LoadStep(t)
  PROVE  /\ pc[t] \in {"wanted", "compiling", "compiled", "linking", "creating", "failing"}
         /\ \E s \in Steps : pc' = [pc EXCEPT ![t] = s]
         /\ pc[t] = "wanted" => Serving
  <1> USE DEF Goto, Steps
  <1>0. pc = [pc EXCEPT ![t] = pc[t]] /\ pc[t] \in Steps
    BY DEF Inv
  <1>1. CASE ResolveRelative(t)
    BY <1>1 DEF ResolveRelative, AsksFor, Resolve, Fetch
  <1>2. CASE ResolveBare(t)
    BY <1>2 DEF ResolveBare, AsksFor, Resolve, Fetch
  <1>3. CASE ResolveAbsolute(t)
    BY <1>3 DEF ResolveAbsolute, AsksFor, Resolve, Fetch
  <1>4. CASE Transpile(t)
    BY <1>4 DEF Transpile
  <1>5. CASE Compile(t) \/ FailToCompile(t) \/ Overflow(t) \/ Cache(t)
    BY <1>5 DEF Compile, Make, FailToCompile, Overflow, Cache
  <1>6. CASE Return(t) \/ Unwind(t)
    BY <1>0, <1>6 DEF Return, Unwind
  <1>7. CASE Finish(t) \/ GiveUp(t)
    BY <1>7 DEF Finish, GiveUp
  <1>8. CASE Forget(t) \/ Create(t) \/ FailToCreate(t)
    BY <1>8 DEF Forget, AsksFor, Create, Make, FailToCreate
  <1> QED
    BY <1>1, <1>2, <1>3, <1>4, <1>5, <1>6, <1>7, <1>8 DEF LoadStep

\* The script's thread does not pass the server's by any step.
LEMMA InvNext == ASSUME Inv, [Next]_vars PROVE Inv'
  <1>1. CASE BeginServer
    <2>1. pc[Server] = "begin" /\ pc' = [pc EXCEPT ![Server] = "compiling"]
      BY <1>1 DEF BeginServer, Goto
    <2> QED
      BY <2>1, ThreadsAssumption DEF Inv, Threads, Steps
  <1>2. CASE BeginScript
    <2>1. \E s \in {"wanted", "failed"} : pc' = [pc EXCEPT ![Script] = s]
      BY <1>2 DEF BeginScript, Fetch, Goto
    <2> QED
      BY <2>1, ThreadsAssumption DEF Inv, Threads, Steps
  <1>3. CASE BeginLoad \/ EndLoad
    <2>1. pc[Script] \in {"loaded", "extending"} /\ \E s \in Steps : pc' = [pc EXCEPT ![Script] = s]
      BY <1>3 DEF BeginLoad, EndLoad, Goto, Steps
    <2> QED
      BY <2>1, ThreadsAssumption DEF Inv, Threads
  <1>4. ASSUME LoadStep(Script) PROVE Inv'
    <2>1. pc[Server] = "loaded" /\ \E s \in Steps : pc' = [pc EXCEPT ![Script] = s]
      BY <1>4, Places DEF Inv, Threads, Serving
    <2> QED
      BY <2>1, ThreadsAssumption DEF Inv, Threads
  <1>5. ASSUME LoadStep(Server) PROVE Inv'
    <2>1. pc[Server] # "loaded" /\ \E s \in Steps : pc' = [pc EXCEPT ![Server] = s]
      BY <1>5, Places DEF Threads
    <2> QED
      BY <2>1, ThreadsAssumption DEF Inv, Threads
  <1>6. CASE UNCHANGED vars
    BY <1>6 DEF vars, Inv
  <1> QED
    BY <1>1, <1>2, <1>3, <1>4, <1>5, <1>6 DEF Next, Threads

\* The order of the two threads, in every state.
LEMMA LoadingIsServed == Spec => []Inv
  BY InvInit, InvNext, PTL DEF Spec

\* No lock protects the caches and the table of plugins: the script's thread waits for the
\* server, which is done with them before it answers.
THEOREM CachesUsedInTurn == Spec => []NoCacheRace
  <1>1. Inv => NoCacheRace
    BY DEF Inv, NoCacheRace, AtCaches, AsksFor
  <1> QED
    BY <1>1, LoadingIsServed, PTL

-----------------------------------------------------------------------------
(* The recursion: a module that still asks is on the stack of its thread.  *)

\* The texts and paths of requests and the answers are whatever they are.
ModuleShape(P) == [specifier : P, path : P, file : P, isolate : Threads, hash : Hashes, links : Seq(P)]
Shape(P) == /\ modules \in Seq(ModuleShape(P))
            /\ wanted \in [Threads -> [specifier : P, path : P, file : P]]
Shapes == /\ \E P : Shape(P)
          /\ stack \in [Threads -> Seq(Nat)]
          /\ disk \in Programs

Broken == {"failing", "failed", "crashed"}
AskersOnStack(t) == \A m \in ModulesOf(t) : Asking(m) => m \in ToSet(stack[t])

IInv == /\ Inv /\ Shapes
        /\ \A t \in Threads : pc[t] \notin Broken => AskersOnStack(t)
        /\ \A t \in Threads : pc[t] \in {"loaded", "extending"} => AllAnswered(t)

\* A longer sequence has the elements it had.
LEMMA SeqGrows ==
  ASSUME NEW S, NEW T, S \subseteq T, NEW s \in Seq(S)
  PROVE  s \in Seq(T)
  OBVIOUS

\* The stack without its top.
LEMMA LastAndFront ==
  ASSUME NEW S, NEW s \in Seq(S), s # <<>>
  PROVE  Front(s) \in Seq(S) /\ ToSet(s) = ToSet(Front(s)) \cup {Last(s)}
  <1>1. Len(s) \in Nat \ {0} /\ DOMAIN s = 1 .. Len(s)
    OBVIOUS
  <1>2. /\ Front(s) \in Seq(S) /\ Len(Front(s)) = Len(s) - 1
        /\ \A i \in 1 .. (Len(s) - 1) : Front(s)[i] = s[i]
    BY <1>1 DEF Front
  <1>3. DOMAIN Front(s) = 1 .. (Len(s) - 1)
    BY <1>2
  <1> QED
    BY <1>1, <1>2, <1>3 DEF ToSet, Last

\* The stack with a new top.
LEMMA StackGrows ==
  ASSUME NEW S, NEW s \in Seq(S), NEW x \in S
  PROVE  Append(s, x) \in Seq(S) /\ ToSet(Append(s, x)) = ToSet(s) \cup {x}
  <1>1. /\ Append(s, x) \in Seq(S) /\ Len(Append(s, x)) = Len(s) + 1 /\ Len(s) \in Nat
        /\ \A i \in 1 .. Len(s) : Append(s, x)[i] = s[i]
        /\ Append(s, x)[Len(s) + 1] = x
    OBVIOUS
  <1>2. DOMAIN s = 1 .. Len(s) /\ DOMAIN Append(s, x) = 1 .. (Len(s) + 1)
    BY <1>1
  <1> QED
    BY <1>1, <1>2 DEF ToSet

\* Nothing is made and no stack has a module.
LEMMA IInvInit == ASSUME Init PROVE IInv
  <1>1. Shape({<<>>})
    BY DEF Init, Shape, Nothing, Want
  <1>2. Shapes
    BY <1>1 DEF Init, Shapes
  <1>3. ModulesOf(Server) = {} /\ ModulesOf(Script) = {}
    BY DEF Init, ModulesOf
  <1> QED
    BY <1>2, <1>3, InvInit DEF Init, IInv, AskersOnStack, AllAnswered, Threads

\* A step that makes no module and moves no thread up or down its stack.
LEMMA StillKeeps ==
  ASSUME IInv, Inv', NEW t \in Threads, NEW s \in Steps, pc' = [pc EXCEPT ![t] = s],
         pc[t] \in Broken => s \in Broken, s \in {"loaded", "extending"} => AllAnswered(t),
         UNCHANGED <<disk, modules, stack>>, Shapes'
  PROVE  IInv'
  BY DEF IInv, Inv, AskersOnStack, AllAnswered, ModulesOf, Asking, RequestsOf, Files

\* A fetched source has the members of a module to be.
LEMMA FetchShapes ==
  ASSUME Shapes, UNCHANGED <<disk, modules, stack>>, NEW t \in Threads, NEW want, NEW path, NEW file,
         wanted' = [wanted EXCEPT ![t] = Want(want, path, file)] \/ wanted' = wanted
  PROVE  Shapes'
  <1>1. PICK P : Shape(P)
    BY DEF Shapes
  <1> DEFINE Q == P \cup {want, path, file}
  <1>2. ModuleShape(P) \subseteq ModuleShape(Q)
    BY SeqGrows DEF ModuleShape
  <1>3. modules' \in Seq(ModuleShape(Q))
    BY <1>1, <1>2, SeqGrows DEF Shape
  <1>4. wanted' \in [Threads -> [specifier : Q, path : Q, file : Q]]
    BY <1>1 DEF Shape, Want
  <1>5. Shape(Q)'
    BY <1>3, <1>4 DEF Shape
  <1> QED
    BY <1>5 DEF Shapes

\* A request that is resolved leaves modules and stacks alone.
LEMMA ResolveKeeps ==
  ASSUME IInv, Inv', NEW t \in Threads, ResolveRelative(t) \/ ResolveBare(t) \/ ResolveAbsolute(t)
  PROVE  IInv'
  <1>1. /\ pc[t] = "linking"
        /\ \E specifier, path, file : Fetch(t, specifier, path, file, "failing")
    BY DEF ResolveRelative, ResolveBare, ResolveAbsolute, Resolve, AsksFor
  <1>2. PICK specifier, path, file : Fetch(t, specifier, path, file, "failing")
    BY <1>1
  <1>3. \E s \in {"wanted", "failing"} : pc' = [pc EXCEPT ![t] = s]
    BY <1>2 DEF Fetch, Goto
  <1>4. Shapes'
    BY <1>2, FetchShapes DEF Fetch, IInv
  <1> QED
    BY <1>1, <1>2, <1>3, <1>4, StillKeeps DEF Fetch, Broken, Steps

\* The steps outside LoadStep leave modules and stacks alone.
LEMMA BeginKeeps ==
  ASSUME IInv, Inv', BeginServer \/ BeginScript \/ BeginLoad \/ EndLoad
  PROVE  IInv'
  <1>1. Server \in Threads /\ Script \in Threads
    BY DEF Threads
  <1>2. CASE BeginServer
    <2>1. Shapes'
      BY <1>1, <1>2, FetchShapes DEF BeginServer, IInv
    <2> QED
      BY <1>1, <1>2, <2>1, StillKeeps DEF BeginServer, Goto, Broken, Steps
  <1>3. CASE BeginScript
    <2>1. Shapes'
      BY <1>1, <1>3, FetchShapes DEF BeginScript, Fetch, IInv
    <2>2. \E s \in {"wanted", "failed"} : pc' = [pc EXCEPT ![Script] = s]
      BY <1>3 DEF BeginScript, Fetch, Goto
    <2> QED
      BY <1>1, <1>3, <2>1, <2>2, StillKeeps DEF BeginScript, Fetch, Broken, Steps
  <1>4. CASE BeginLoad
    <2>1. Shapes'
      BY <1>1, <1>4, FetchShapes DEF BeginLoad, IInv
    <2>2. AllAnswered(Script)
      BY <1>1, <1>4 DEF BeginLoad, IInv
    <2> QED
      BY <1>1, <1>4, <2>1, <2>2, StillKeeps DEF BeginLoad, Goto, Broken, Steps
  <1>5. CASE EndLoad
    <2>1. Shapes'
      BY <1>5 DEF EndLoad, IInv, Shapes, Shape
    <2>2. AllAnswered(Script)
      BY <1>1, <1>5 DEF EndLoad, IInv
    <2> QED
      BY <1>1, <1>5, <2>1, <2>2, StillKeeps DEF EndLoad, Goto, Broken, Steps
  <1> QED
    BY <1>2, <1>3, <1>4, <1>5

\* So do the steps of a thread that go nowhere in its recursion.
LEMMA StepKeeps ==
  ASSUME IInv, Inv', NEW t \in Threads,
         \/ Transpile(t) \/ FailToCompile(t) \/ Overflow(t) \/ Cache(t) \/ Forget(t) \/ FailToCreate(t)
         \/ GiveUp(t)
  PROVE  IInv'
  <1>1. UNCHANGED <<disk, modules, stack>>
    BY DEF Transpile, FailToCompile, Overflow, Cache, Forget, FailToCreate, GiveUp
  <1>2. Shapes'
    <2>1. CASE UNCHANGED wanted
      BY <1>1, <2>1 DEF IInv, Shapes, Shape
    <2>2. CASE Forget(t)
      BY <1>1, <2>2, FetchShapes DEF Forget, IInv
    <2> QED
      BY <2>1, <2>2 DEF Transpile, FailToCompile, Overflow, Cache, FailToCreate, GiveUp
  <1>3. \E s \in {"compiling", "crashed", "lost", "failing", "linking", "creating", "failed"} :
          pc' = [pc EXCEPT ![t] = s] /\ (pc[t] \in Broken => s \in Broken)
    BY DEF Transpile, FailToCompile, Overflow, Cache, Forget, FailToCreate, GiveUp, Goto, AsksFor, Broken
  <1> QED
    BY <1>1, <1>2, <1>3, StillKeeps DEF Steps

\* The first module has been answered, and nothing else of its isolate asks.
LEMMA FinishKeeps == ASSUME IInv, Inv', NEW t \in Threads, Finish(t) PROVE IInv'
  <1>1. /\ pc[t] = "linking" /\ ~Asking(Top(t)) /\ Len(stack[t]) = 1
        /\ pc' = [pc EXCEPT ![t] = "loaded"] /\ UNCHANGED <<disk, modules, stack, wanted>>
    BY DEF Finish, Goto
  <1>2. stack[t] \in Seq(Nat)
    BY DEF IInv, Shapes
  <1>3. ToSet(stack[t]) = {Top(t)}
    BY <1>1, <1>2 DEF ToSet, Top, Last
  <1>4. AskersOnStack(t)
    BY <1>1 DEF IInv, Broken
  <1>5. AllAnswered(t)
    BY <1>1, <1>3, <1>4 DEF AskersOnStack, AllAnswered
  <1>6. Shapes'
    BY <1>1 DEF IInv, Shapes, Shape
  <1> QED
    BY <1>1, <1>5, <1>6, StillKeeps DEF Broken, Steps

\* A new module asks on the stack of the thread that made it.
LEMMA MakeKeeps ==
  ASSUME IInv, Inv', NEW t \in Threads, Make(t), pc[t] \in {"compiling", "creating"}
  PROVE  IInv'
  <1>1. PICK h \in FreshHashes(t) : modules' = Append(modules, Module(t, wanted[t], h))
    BY DEF Make
  <1>2. PICK P : Shape(P)
    BY DEF IInv, Shapes
  <1>3. /\ stack' = [stack EXCEPT ![t] = Append(@, Len(modules) + 1)]
        /\ pc' = [pc EXCEPT ![t] = "compiled"]
        /\ UNCHANGED <<disk, wanted>>
    BY DEF Make, Goto
  <1>4. h \in Hashes
    BY DEF FreshHashes
  <1>5. Module(t, wanted[t], h) \in ModuleShape(P) /\ Module(t, wanted[t], h).isolate = t
    <2>1. wanted[t] \in [specifier : P, path : P, file : P]
      BY <1>2 DEF Shape
    <2>2. <<>> \in Seq(P)
      OBVIOUS
    <2> QED
      BY <1>4, <2>1, <2>2 DEF Module, ModuleShape
  <1>6. /\ modules \in Seq(ModuleShape(P)) /\ Len(modules) \in Nat
        /\ modules' \in Seq(ModuleShape(P)) /\ Len(modules') = Len(modules) + 1
        /\ \A m \in 1 .. Len(modules) : modules'[m] = modules[m]
        /\ modules'[Len(modules) + 1].isolate = t
    BY <1>1, <1>2, <1>5 DEF Shape
  <1>7. stack' \in [Threads -> Seq(Nat)]
    BY <1>3, <1>6 DEF IInv, Shapes
  <1>8. Shapes'
    BY <1>2, <1>3, <1>6, <1>7 DEF IInv, Shapes, Shape
  <1>9. ToSet(stack'[t]) = ToSet(stack[t]) \cup {Len(modules) + 1}
    BY <1>3, <1>6, StackGrows DEF IInv, Shapes
  <1>10. \A m \in 1 .. Len(modules) : Asking(m)' = Asking(m)
    BY <1>3, <1>6 DEF Asking, RequestsOf, Files
  <1>11. \A u \in Threads : u # t => pc'[u] = pc[u] /\ stack'[u] = stack[u] /\ ModulesOf(u)' = ModulesOf(u)
    BY <1>3, <1>6 DEF ModulesOf, IInv, Inv, Shapes
  <1>12. ModulesOf(t)' = ModulesOf(t) \cup {Len(modules) + 1}
    BY <1>6 DEF ModulesOf
  <1>13. pc'[t] = "compiled" /\ AskersOnStack(t)
    BY <1>3 DEF IInv, Inv, Broken
  <1>14. \A u \in Threads : ModulesOf(u) \subseteq 1 .. Len(modules)
    BY DEF ModulesOf
  <1>15. AskersOnStack(t)'
    BY <1>9, <1>10, <1>12, <1>13, <1>14 DEF AskersOnStack
  <1>17. \A u \in Threads : pc'[u] \notin Broken => AskersOnStack(u)'
    <2> SUFFICES ASSUME NEW u \in Threads, pc'[u] \notin Broken PROVE AskersOnStack(u)'
      OBVIOUS
    <2>1. CASE u = t
      BY <1>15, <2>1
    <2>2. CASE u # t
      <3>1. AskersOnStack(u)
        BY <1>11, <2>2 DEF IInv
      <3> QED BY <1>10, <1>11, <1>14, <2>2, <3>1 DEF AskersOnStack
    <2> QED BY <2>1, <2>2
  <1>18. \A u \in Threads : pc'[u] \in {"loaded", "extending"} => AllAnswered(u)'
    <2> SUFFICES ASSUME NEW u \in Threads, pc'[u] \in {"loaded", "extending"} PROVE AllAnswered(u)'
      OBVIOUS
    <2>1. u # t
      BY <1>13
    <2>2. AllAnswered(u)
      BY <1>11, <2>1 DEF IInv
    <2> QED BY <1>10, <1>11, <1>14, <2>1, <2>2 DEF AllAnswered
  <1> QED
    BY <1>8, <1>17, <1>18 DEF IInv

\* The module on top has been answered, and is the answer of the one below.
LEMMA ReturnKeeps == ASSUME IInv, Inv', NEW t \in Threads, Return(t) PROVE IInv'
  <1>0. PICK r, n : r = Last(Front(stack[t])) /\ n = Returned(Top(t))
    OBVIOUS
  <1>1. /\ pc[t] = "linking" /\ ~Asking(Top(t)) /\ Len(stack[t]) > 1
        /\ stack' = [stack EXCEPT ![t] = Front(@)]
        /\ modules' = [modules EXCEPT ![r].links = Append(@, n)]
        /\ UNCHANGED <<disk, wanted, pc>>
    BY <1>0 DEF Return, Link
  <1>2. PICK P : Shape(P)
    BY DEF IInv, Shapes
  <1>3. PICK Q : Q = P \cup {n}
    OBVIOUS
  <1>3a. P \subseteq Q /\ n \in Q
    BY <1>3
  <1>3b. ModuleShape(P) \subseteq ModuleShape(Q)
    BY <1>3a, SeqGrows DEF ModuleShape
  <1>4. modules \in Seq(ModuleShape(Q)) /\ modules \in Seq(ModuleShape(P)) /\ Len(modules) \in Nat
    BY <1>2, <1>3b, SeqGrows DEF Shape
  <1>5. \A m \in 1 .. Len(modules) :
          /\ modules[m] \in ModuleShape(Q) /\ Len(modules[m].links) \in Nat
          /\ [modules[m] EXCEPT !.links = Append(@, n)] \in ModuleShape(Q)
          /\ Len([modules[m] EXCEPT !.links = Append(@, n)].links) = Len(modules[m].links) + 1
          /\ [modules[m] EXCEPT !.links = Append(@, n)].isolate = modules[m].isolate
          /\ [modules[m] EXCEPT !.links = Append(@, n)].file = modules[m].file
    <2> SUFFICES ASSUME NEW m \in 1 .. Len(modules)
                 PROVE  /\ modules[m] \in ModuleShape(Q) /\ Len(modules[m].links) \in Nat
                        /\ [modules[m] EXCEPT !.links = Append(@, n)] \in ModuleShape(Q)
                        /\ Len([modules[m] EXCEPT !.links = Append(@, n)].links) = Len(modules[m].links) + 1
                        /\ [modules[m] EXCEPT !.links = Append(@, n)].isolate = modules[m].isolate
                        /\ [modules[m] EXCEPT !.links = Append(@, n)].file = modules[m].file
      OBVIOUS
    <2>1. modules[m] \in ModuleShape(Q)
      BY <1>4
    <2>2. PICK record \in ModuleShape(Q) : record = modules[m]
      BY <2>1
    <2>3. record.links \in Seq(Q) /\ Append(record.links, n) \in Seq(Q)
          /\ Len(Append(record.links, n)) = Len(record.links) + 1 /\ Len(record.links) \in Nat
      BY <1>3a, <2>2 DEF ModuleShape
    <2>4. [record EXCEPT !.links = Append(@, n)] \in ModuleShape(Q)
      BY <2>2, <2>3 DEF ModuleShape
    <2>5. /\ [record EXCEPT !.links = Append(@, n)].links = Append(record.links, n)
          /\ [record EXCEPT !.links = Append(@, n)].isolate = record.isolate
          /\ [record EXCEPT !.links = Append(@, n)].file = record.file
      BY <2>2 DEF ModuleShape
    <2> QED
      BY <2>1, <2>2, <2>3, <2>4, <2>5
  <1>6. /\ modules' \in Seq(ModuleShape(Q)) /\ Len(modules') = Len(modules)
        /\ \A m \in 1 .. Len(modules) :
             modules'[m] = IF m = r THEN [modules[m] EXCEPT !.links = Append(@, n)] ELSE modules[m]
    <2> DEFINE Linked(m) == [modules[m] EXCEPT !.links = Append(@, n)]
    <2>1. modules' = [m \in DOMAIN modules |-> IF m = r THEN Linked(m) ELSE modules[m]]
      BY <1>1
    <2>2. DOMAIN modules = 1 .. Len(modules) /\ \A m \in 1 .. Len(modules) : Linked(m) \in ModuleShape(Q)
      BY <1>4, <1>5
    <2>3. \A m \in 1 .. Len(modules) : modules[m] \in ModuleShape(Q)
      BY <1>5
    <2> HIDE DEF Linked
    <2>4. modules' \in [1 .. Len(modules) -> ModuleShape(Q)]
      BY <2>1, <2>2, <2>3
    <2>5. modules' \in Seq(ModuleShape(Q)) /\ Len(modules') = Len(modules)
      BY <1>4, <2>4
    <2> QED
      BY <2>1, <2>2, <2>5 DEF Linked
  <1>7. \A m \in 1 .. Len(modules) :
          /\ modules'[m].isolate = modules[m].isolate /\ modules'[m].file = modules[m].file
          /\ Len(modules[m].links) \in Nat
          /\ Len(modules'[m].links) \in {Len(modules[m].links), Len(modules[m].links) + 1}
    BY <1>5, <1>6
  <1>8. wanted' \in [Threads -> [specifier : Q, path : Q, file : Q]]
    BY <1>1, <1>2, <1>3a DEF Shape
  <1>9. stack[t] \in Seq(Nat) /\ stack[t] # <<>>
    BY <1>1 DEF IInv, Shapes
  <1>10. Front(stack[t]) \in Seq(Nat) /\ ToSet(stack[t]) = ToSet(Front(stack[t])) \cup {Top(t)}
    BY <1>9, LastAndFront DEF Top
  <1>11. Shapes'
    <2>1. stack' \in [Threads -> Seq(Nat)]
      BY <1>1, <1>10 DEF IInv, Shapes
    <2>2. Shape(Q)'
      BY <1>6, <1>8 DEF Shape
    <2> QED
      BY <1>1, <2>1, <2>2 DEF IInv, Shapes
  <1>13. \A m \in 1 .. Len(modules) : Asking(m)' => Asking(m)
    <2> SUFFICES ASSUME NEW m \in 1 .. Len(modules), Asking(m)' PROVE Asking(m)
      OBVIOUS
    <2>1. RequestsOf(m)' = RequestsOf(m)
      BY <1>1, <1>7 DEF RequestsOf, Files
    <2>2. Len(RequestsOf(m)) \in Nat
      BY ProgramsAssumption DEF RequestsOf, Files, IInv, Shapes
    <2>3. Len(modules'[m].links) < Len(RequestsOf(m))
      BY <2>1 DEF Asking
    <2>4. Len(modules[m].links) < Len(RequestsOf(m))
      BY <1>7, <2>2, <2>3
    <2> QED
      BY <2>4 DEF Asking
  <1>14. \A u \in Threads : ModulesOf(u)' = ModulesOf(u) /\ ModulesOf(u) \subseteq 1 .. Len(modules)
    BY <1>6, <1>7 DEF ModulesOf
  <1>15. \A u \in Threads : AllAnswered(u) => AllAnswered(u)'
    BY <1>13, <1>14 DEF AllAnswered
  <1>16. \A u \in Threads : u # t /\ AskersOnStack(u) => AskersOnStack(u)'
    BY <1>1, <1>13, <1>14 DEF AskersOnStack, IInv, Shapes
  <1>17. AskersOnStack(t)'
    <2>1. stack'[t] = Front(stack[t])
      BY <1>1 DEF IInv, Shapes
    <2>2. AskersOnStack(t)
      BY <1>1 DEF IInv, Broken
    <2> QED
      BY <1>1, <1>10, <1>13, <1>14, <2>1, <2>2 DEF AskersOnStack
  <1> QED
    BY <1>1, <1>11, <1>15, <1>16, <1>17 DEF IInv

\* A module is left unanswered only by a thread that is failing.
LEMMA UnwindKeeps == ASSUME IInv, Inv', NEW t \in Threads, Unwind(t) PROVE IInv'
  <1>1. /\ pc[t] \in Broken /\ stack[t] # <<>> /\ stack' = [stack EXCEPT ![t] = Front(@)]
        /\ UNCHANGED <<disk, modules, wanted, pc>>
    BY DEF Unwind, Broken
  <1>2. stack[t] \in Seq(Nat)
    BY DEF IInv, Shapes
  <1>3. Shapes'
    BY <1>1, <1>2, LastAndFront DEF IInv, Shapes, Shape
  <1>4. \A u \in Threads : u # t => stack'[u] = stack[u]
    BY <1>1 DEF IInv, Shapes
  <1>5. pc[t] \notin {"loaded", "extending"}
    BY <1>1 DEF Broken
  <1> QED
    BY <1>1, <1>3, <1>4, <1>5 DEF IInv, AskersOnStack, AllAnswered, ModulesOf, Asking, RequestsOf, Files

\* One step per action.
LEMMA IInvNext == ASSUME IInv, [Next]_vars PROVE IInv'
  <1>1. Inv'
    BY InvNext DEF IInv
  <1>2. CASE BeginServer \/ BeginScript \/ BeginLoad \/ EndLoad
    BY <1>1, <1>2, BeginKeeps
  <1>3. ASSUME NEW t \in Threads, LoadStep(t) PROVE IInv'
    <2>1. CASE Compile(t) \/ Create(t)
      BY <1>1, <2>1, MakeKeeps DEF Compile, Create
    <2> QED
      BY <1>1, <1>3, <2>1, ResolveKeeps, StepKeeps, FinishKeeps, ReturnKeeps, UnwindKeeps DEF LoadStep
  <1>4. CASE UNCHANGED vars
    BY <1>1, <1>4 DEF vars, IInv, Shapes, Shape, AskersOnStack, AllAnswered, ModulesOf, Asking, RequestsOf, Files
  <1> QED
    BY <1>2, <1>3, <1>4 DEF Next

\* A module that still asks is on the stack of its thread, as long as nothing has failed.
THEOREM LoaderInvariance == Spec => []IInv
  BY IInvInit, IInvNext, PTL DEF Spec

-----------------------------------------------------------------------------
(* The plugins: a module without a file is one whose library is open.      *)

\* Every number in the stacks, the caches and the answers is that of a module, or none.
Numbers ==
  /\ \A t \in Threads : /\ ToSet(stack[t]) \subseteq 1 .. Len(modules)
                        /\ pc[t] \in {"compiled", "linking"} => stack[t] # <<>>
  /\ by_hash_id_cache \in [Hashes -> 0 .. Len(modules)]
  /\ Range(by_specifier_cache) \subseteq 0 .. Len(modules)
  /\ \A m \in 1 .. Len(modules) : ToSet(modules[m].links) \subseteq 0 .. Len(modules)

\* What a thread works on is a file of the disk, or a plugin.
Origins ==
  /\ \A m \in 1 .. Len(modules) : modules[m].file \in Files \cup {<<>>}
  /\ \A t \in Threads :
       /\ wanted[t].file \in Files \cup {<<>>}
       /\ pc[t] \in {"wanted", "compiling"} => wanted[t].file \in Files
       /\ pc[t] = "creating" => wanted[t].file = <<>>
       /\ pc[t] \in {"creating", "extending"} => wanted[t].specifier \in Plugins

\* A library that opens stays open.
Opened ==
  /\ PluginTypeOK
  /\ \A p \in Plugins : loaded_plugins[p] = "open" => Library[p] = "plugin"
  /\ \A m \in 1 .. Len(modules) :
       modules[m].file = <<>> => /\ modules[m].specifier \in Plugins
                                 /\ loaded_plugins[modules[m].specifier] = "open"

PInv == IInv /\ Numbers /\ Origins /\ Opened

\* Nothing is made and no library is open.
LEMMA PInvInit == ASSUME Init PROVE PInv
  <1>1. Numbers
    BY DEF Init, Numbers, Range, ToSet, NoModule, Threads
  <1>2. Origins
    BY DEF Init, Origins, Nothing, Want
  <1>3. Opened
    BY DEF Init, Opened, PluginInit, PluginTypeOK
  <1> QED
    BY <1>1, <1>2, <1>3, IInvInit DEF PInv

\* A step that makes no module and moves no thread up or down its stack.
LEMMA NumbersStill ==
  ASSUME PInv, NEW t \in Threads, NEW s, pc' = [pc EXCEPT ![t] = s],
         s \in {"compiled", "linking"} => pc[t] \in {"compiled", "linking"},
         UNCHANGED <<modules, stack, caches>>
  PROVE  Numbers'
  BY DEF PInv, Numbers, caches, IInv, Inv

\* load_plugin() closes no library that is open.
LEMMA LoadPluginOpens ==
  ASSUME Opened, NEW p \in Plugins, LoadPlugin(p)
  PROVE  /\ PluginTypeOK'
         /\ \A q \in Plugins : /\ loaded_plugins[q] = "open" => loaded_plugins'[q] = "open"
                               /\ loaded_plugins'[q] = "open" => Library[q] = "plugin"
         /\ Exposes(p) => loaded_plugins'[p] = "open"
  <1>1. Library[p] \in {"none", "unloadable", "other", "plugin"}
    BY LibraryAssumption
  <1>2. /\ loaded_plugins \in [Plugins -> {"missing", "null", "open", "closed"}]
        /\ loaded_plugins' = [loaded_plugins EXCEPT ![p] = Entered(p)]
    BY DEF Opened, PluginTypeOK, LoadPlugin
  <1>3. /\ Entered(p) \in {"missing", "null", "open", "closed"}
        /\ loaded_plugins[p] = "open" => Entered(p) = "open"
        /\ Entered(p) = "open" => Library[p] = "plugin"
        /\ Library[p] = "plugin" => Entered(p) = "open"
    BY <1>1, <1>2 DEF Entered, Opened
  <1> QED
    BY <1>2, <1>3 DEF Opened, PluginTypeOK, Exposes

\* A step that makes no module leaves the libraries of the plugins open.
LEMMA OpenedLater ==
  ASSUME Opened, NEW p \in Plugins, LoadPlugin(p), UNCHANGED modules
  PROVE  Opened'
  BY LoadPluginOpens DEF Opened

\* A thread that fetches a source, or does not find it.
LEMMA FetchOrigins ==
  ASSUME PInv, NEW t \in Threads, NEW specifier, NEW path, NEW file, NEW otherwise,
         otherwise \in {"failing", "failed"}, Fetch(t, specifier, path, file, otherwise)
  PROVE  Origins' /\ Numbers' /\ Opened'
  <1>1. /\ UNCHANGED <<disk, modules, stack, loaded_plugins, caches>>
        /\ \/ Readable(file) /\ pc' = [pc EXCEPT ![t] = "wanted"]
              /\ wanted' = [wanted EXCEPT ![t] = Want(specifier, path, file)]
           \/ pc' = [pc EXCEPT ![t] = otherwise] /\ wanted' = wanted
    BY DEF Fetch, Goto
  <1>2. Numbers'
    <2>1. PICK s \in {"wanted", "failing", "failed"} : pc' = [pc EXCEPT ![t] = s]
      BY <1>1
    <2> QED
      BY <1>1, <2>1, NumbersStill
  <1>3. Opened'
    BY <1>1 DEF PInv, Opened, PluginTypeOK
  <1>4. wanted' = [wanted EXCEPT ![t] = wanted'[t]] /\ pc' = [pc EXCEPT ![t] = pc'[t]]
    BY <1>1 DEF PInv, IInv, Inv, Shapes, Shape
  <1>5. Origins'
    BY <1>1 DEF PInv, IInv, Inv, Shapes, Shape, Origins, Want, Readable, Files
  <1> QED
    BY <1>2, <1>3, <1>5

\* A request that is resolved keeps where modules come from.
LEMMA ResolveOpens ==
  ASSUME PInv, NEW t \in Threads, ResolveRelative(t) \/ ResolveBare(t) \/ ResolveAbsolute(t)
  PROVE  Origins' /\ Numbers' /\ Opened'
  <1>1. \E specifier, path, file : Fetch(t, specifier, path, file, "failing")
    BY DEF ResolveRelative, ResolveBare, ResolveAbsolute, Resolve
  <1> QED
    BY <1>1, FetchOrigins

\* The steps outside LoadStep keep it too.
LEMMA BeginOpens ==
  ASSUME PInv, BeginServer \/ BeginScript \/ BeginLoad \/ EndLoad
  PROVE  Origins' /\ Numbers' /\ Opened'
  <1>1. Server \in Threads /\ Script \in Threads
    BY DEF Threads
  <1>2. /\ wanted = [t \in Threads |-> wanted[t]] /\ pc = [t \in Threads |-> pc[t]]
        /\ disk \in Programs
    BY DEF PInv, IInv, Inv, Shapes, Shape
  <1>3. CASE BeginServer
    <2>1. Entry[Server] \in Files
      BY <1>2, ProgramsAssumption DEF Files
    <2>2. Numbers'
      BY <1>1, <1>3, NumbersStill DEF BeginServer, Goto
    <2>3. Opened'
      BY <1>3 DEF BeginServer, PInv, Opened, PluginTypeOK
    <2>4. Origins'
      BY <1>1, <1>2, <1>3, <2>1 DEF BeginServer, Goto, PInv, Origins, Want, Files
    <2> QED
      BY <2>2, <2>3, <2>4
  <1>4. CASE BeginScript
    BY <1>1, <1>4, FetchOrigins DEF BeginScript
  <1>5. CASE BeginLoad
    <2>1. Numbers'
      BY <1>1, <1>5, NumbersStill DEF BeginLoad, Goto
    <2>2. Opened'
      BY <1>5 DEF BeginLoad, PInv, Opened, PluginTypeOK
    <2>3. Origins'
      BY <1>1, <1>2, <1>5 DEF BeginLoad, Goto, PInv, Origins, Want, Files
    <2> QED
      BY <2>1, <2>2, <2>3
  <1>6. CASE EndLoad
    <2>1. Numbers'
      BY <1>1, <1>6, NumbersStill DEF EndLoad, Goto
    <2>2. wanted[Script].specifier \in Plugins
      BY <1>1, <1>6 DEF EndLoad, PInv, Origins
    <2>3. Opened'
      BY <1>6, <2>2, OpenedLater DEF EndLoad, PInv
    <2>4. Origins'
      BY <1>1, <1>2, <1>6 DEF EndLoad, Goto, PInv, Origins, Files
    <2> QED
      BY <2>1, <2>3, <2>4
  <1> QED
    BY <1>3, <1>4, <1>5, <1>6

\* So do the steps of a thread that go nowhere in its recursion.
LEMMA StepOpens ==
  ASSUME PInv, NEW t \in Threads,
         Transpile(t) \/ FailToCompile(t) \/ Overflow(t) \/ Finish(t) \/ FailToCreate(t) \/ GiveUp(t)
  PROVE  Origins' /\ Numbers' /\ Opened'
  <1>1. UNCHANGED <<disk, modules, stack, wanted, caches>>
    BY DEF Transpile, FailToCompile, Overflow, Finish, FailToCreate, GiveUp
  <1>2. PICK s \in Steps \ {"compiled", "linking", "wanted", "creating", "extending"} :
          pc' = [pc EXCEPT ![t] = s] /\ (s = "compiling" => pc[t] = "wanted")
    BY DEF Transpile, FailToCompile, Overflow, Finish, FailToCreate, GiveUp, Goto, Steps
  <1>3. Numbers'
    BY <1>1, <1>2, NumbersStill
  <1>4. Origins'
    BY <1>1, <1>2 DEF PInv, IInv, Inv, Origins, Files
  <1>5. Opened'
    <2>1. CASE FailToCreate(t)
      BY <1>1, <2>1, OpenedLater DEF FailToCreate, PInv, Origins
    <2>2. CASE UNCHANGED loaded_plugins
      BY <1>1, <2>2 DEF PInv, Opened, PluginTypeOK
    <2> QED
      BY <2>1, <2>2 DEF Transpile, FailToCompile, Overflow, Finish, GiveUp
  <1> QED
    BY <1>3, <1>4, <1>5

\* The module on top of a stack, and the request V8 asks for.
LEMMA TopIsModule ==
  ASSUME PInv, NEW t \in Threads, stack[t] # <<>>
  PROVE  /\ Top(t) \in 1 .. Len(modules)
         /\ stack[t] \in Seq(Nat) /\ Front(stack[t]) \in Seq(Nat)
         /\ ToSet(stack[t]) = ToSet(Front(stack[t])) \cup {Top(t)}
         /\ modules[Top(t)].hash \in Hashes
         /\ Len(modules[Top(t)].links) \in Nat
  <1>1. stack[t] \in Seq(Nat)
    BY DEF PInv, IInv, Shapes
  <1>2. Front(stack[t]) \in Seq(Nat) /\ ToSet(stack[t]) = ToSet(Front(stack[t])) \cup {Top(t)}
    BY <1>1, LastAndFront DEF Top
  <1>3. Top(t) \in 1 .. Len(modules)
    BY <1>2 DEF PInv, Numbers
  <1>4. PICK P : Shape(P)
    BY DEF PInv, IInv, Shapes
  <1>5. modules[Top(t)] \in ModuleShape(P)
    BY <1>3, <1>4 DEF Shape
  <1> QED
    BY <1>1, <1>2, <1>3, <1>5 DEF ModuleShape

\* cache_import_specifier(), and the erasure of a plugin's entries.
LEMMA CachesOpen ==
  ASSUME PInv, NEW t \in Threads, Cache(t) \/ Forget(t)
  PROVE  Origins' /\ Numbers' /\ Opened'
  <1>1. UNCHANGED <<disk, modules, stack, loaded_plugins>> /\ pc[t] \in {"compiled", "linking"}
    BY DEF Cache, Forget, AsksFor
  <1>2. stack[t] # <<>>
    BY <1>1 DEF PInv, Numbers
  <1>3. Opened'
    BY <1>1 DEF PInv, Opened, PluginTypeOK
  <1>4. /\ wanted = [u \in Threads |-> wanted[u]] /\ pc = [u \in Threads |-> pc[u]]
        /\ disk \in Programs
    BY DEF PInv, IInv, Inv, Shapes, Shape
  <1>5. CASE Cache(t)
    <2>1. Origins'
      BY <1>1, <1>4, <1>5 DEF Cache, Goto, PInv, Origins, Files
    <2>2. by_hash_id_cache' \in [Hashes -> 0 .. Len(modules)]
      BY <1>2, <1>5, TopIsModule DEF Cache, CacheSpecifier, PInv, Numbers
    <2>3. Range(by_specifier_cache') \subseteq Range(by_specifier_cache) \cup {Top(t)}
      BY <1>5 DEF Cache, CacheSpecifier, Range
    <2>4. Range(by_specifier_cache') \subseteq 0 .. Len(modules)
      BY <1>2, <2>3, TopIsModule DEF PInv, Numbers
    <2>5. \A u \in Threads : pc'[u] \in {"compiled", "linking"} => stack[u] # <<>>
      BY <1>2, <1>4, <1>5 DEF Cache, Goto, PInv, Numbers
    <2>6. Numbers'
      BY <1>1, <2>2, <2>4, <2>5 DEF PInv, Numbers
    <2> QED
      BY <1>3, <2>1, <2>6
  <1>6. CASE Forget(t)
    <2> DEFINE name == Current(t).tail
    <2>1. /\ wanted' = [wanted EXCEPT ![t] = Want(name, <<>>, <<>>)]
          /\ pc' = [pc EXCEPT ![t] = "creating"]
      BY <1>6 DEF Forget, Goto
    <2>2. name \in Plugins
      <3>1. Asking(Top(t)) /\ Current(t).kind = "plugin"
        BY <1>6 DEF Forget, AsksFor
      <3>2. modules[Top(t)].file \in Files
        BY <3>1, <1>2, TopIsModule DEF Asking, RequestsOf
      <3>3. Len(RequestsOf(Top(t))) \in Nat
        BY <1>4, <3>2, ProgramsAssumption DEF RequestsOf, Files
      <3>4. Len(modules[Top(t)].links) + 1 \in 1 .. Len(RequestsOf(Top(t)))
        BY <1>2, <3>1, <3>3, TopIsModule DEF Asking
      <3> QED
        BY <1>4, <3>1, <3>2, <3>4, ProgramsAssumption DEF Current, RequestsOf, Files, Requestable
    <2>3. Origins'
      BY <1>1, <1>4, <2>1, <2>2 DEF PInv, Origins, Files, Want
    <2>4. /\ by_hash_id_cache' \in [Hashes -> 0 .. Len(modules)]
          /\ Range(by_specifier_cache') \subseteq Range(by_specifier_cache)
      <3>1. CASE UNCHANGED caches
        BY <3>1 DEF caches, PInv, Numbers
      <3>2. CASE /\ \E h \in Hashes : by_hash_id_cache' = [by_hash_id_cache EXCEPT ![h] = NoModule]
                 /\ by_specifier_cache' = Restrict(by_specifier_cache, DOMAIN by_specifier_cache \ {name})
        <4>1. \E h \in Hashes : by_hash_id_cache' = [by_hash_id_cache EXCEPT ![h] = 0]
          BY <3>2 DEF NoModule
        <4>2. /\ by_hash_id_cache \in [Hashes -> 0 .. Len(modules)]
              /\ 0 \in 0 .. Len(modules)
          BY <1>2, TopIsModule DEF PInv, Numbers
        <4>3. Range(by_specifier_cache') \subseteq Range(by_specifier_cache)
          BY <3>2 DEF Restrict, Range
        <4> QED
          BY <4>1, <4>2, <4>3
      <3> QED
        BY <1>6, <3>1, <3>2 DEF Forget
    <2>5. Numbers'
      BY <1>1, <1>4, <2>1, <2>4 DEF PInv, Numbers
    <2> QED
      BY <1>3, <2>3, <2>5
  <1> QED
    BY <1>5, <1>6

\* A new module is a file that was read, or a plugin that has just been exposed.
LEMMA MakeOpens ==
  ASSUME PInv, IInv', NEW t \in Threads, Compile(t) \/ Create(t)
  PROVE  Origins' /\ Numbers' /\ Opened'
  <1>0. Make(t) /\ pc[t] \in {"compiling", "creating"}
    BY DEF Compile, Create
  <1>1. PICK h \in FreshHashes(t) : modules' = Append(modules, Module(t, wanted[t], h))
    BY <1>0 DEF Make
  <1>2. /\ stack' = [stack EXCEPT ![t] = Append(@, Len(modules) + 1)]
        /\ pc' = [pc EXCEPT ![t] = "compiled"]
        /\ UNCHANGED <<disk, wanted, caches>>
    BY <1>0 DEF Make, Goto
  <1>3. PICK P : Shape(P)
    BY DEF PInv, IInv, Shapes
  <1>4. /\ Len(modules) \in Nat /\ Len(modules') = Len(modules) + 1
        /\ \A m \in 1 .. Len(modules) : modules'[m] = modules[m]
        /\ modules'[Len(modules) + 1] = Module(t, wanted[t], h)
    BY <1>1, <1>3 DEF Shape
  <1>5. /\ stack \in [Threads -> Seq(Nat)] /\ pc \in [Threads -> Steps]
    BY DEF PInv, IInv, Inv, Shapes
  <1>6. Numbers'
    <2>1. stack'[t] # <<>> /\ ToSet(stack'[t]) = ToSet(stack[t]) \cup {Len(modules) + 1}
      BY <1>2, <1>4, <1>5, StackGrows
    <2>2. \A u \in Threads : /\ ToSet(stack'[u]) \subseteq 1 .. Len(modules')
                             /\ pc'[u] \in {"compiled", "linking"} => stack'[u] # <<>>
      BY <1>2, <1>4, <1>5, <2>1 DEF PInv, Numbers
    <2>3. ToSet(Module(t, wanted[t], h).links) = {}
      BY DEF Module, ToSet
    <2>4. 0 .. Len(modules) \subseteq 0 .. Len(modules')
      BY <1>4
    <2>5. ASSUME NEW m \in 1 .. Len(modules') PROVE ToSet(modules'[m].links) \subseteq 0 .. Len(modules')
      <3>1. CASE m \in 1 .. Len(modules)
        <4>1. ToSet(modules[m].links) \subseteq 0 .. Len(modules)
          BY <3>1 DEF PInv, Numbers
        <4> QED BY <1>4, <2>4, <3>1, <4>1
      <3>2. CASE m = Len(modules) + 1
        BY <1>4, <2>3, <3>2
      <3> QED BY <1>4, <3>1, <3>2
    <2> QED
      BY <1>2, <2>2, <2>4, <2>5 DEF PInv, Numbers, caches
  <1>7. Module(t, wanted[t], h).file = wanted[t].file /\ Module(t, wanted[t], h).specifier = wanted[t].specifier
    BY DEF Module
  <1>8. Origins'
    <2>1. \A m \in 1 .. Len(modules') : m \in 1 .. Len(modules) \/ m = Len(modules) + 1
      BY <1>4
    <2>2. wanted[t].file \in Files \cup {<<>>}
      BY DEF PInv, Origins
    <2>3. \A m \in 1 .. Len(modules') : modules'[m].file \in Files \cup {<<>>}
      BY <1>4, <1>7, <2>1, <2>2 DEF PInv, Origins
    <2>4. \A u \in Threads : pc'[u] \in {"wanted", "compiling", "creating", "extending"} => pc'[u] = pc[u]
      BY <1>2, <1>5
    <2> QED
      BY <1>2, <2>3, <2>4 DEF PInv, Origins, Files
  <1>9. Opened'
    <2>1. CASE Compile(t)
      <3>1. wanted[t].file # <<>>
        BY <2>1, ProgramsAssumption DEF Compile, PInv, IInv, Shapes, Origins, Files
      <3>2. UNCHANGED loaded_plugins
        BY <2>1 DEF Compile
      <3>3. \A m \in 1 .. Len(modules') : m \in 1 .. Len(modules) \/ m = Len(modules) + 1
        BY <1>4
      <3> QED
        BY <1>4, <1>7, <3>1, <3>2, <3>3 DEF PInv, Opened, PluginTypeOK
    <2>2. CASE Create(t)
      <3>1. /\ LoadPlugin(wanted[t].specifier) /\ Exposes(wanted[t].specifier)
            /\ wanted[t].specifier \in Plugins
        BY <2>2 DEF Create, PInv, Origins
      <3>2. \A m \in 1 .. Len(modules') : m \in 1 .. Len(modules) \/ m = Len(modules) + 1
        BY <1>4
      <3> QED
        BY <1>4, <1>7, <3>1, <3>2, LoadPluginOpens DEF PInv, Opened
    <2> QED
      BY <2>1, <2>2
  <1> QED
    BY <1>6, <1>8, <1>9

\* The answer of a request is a module, or none if its entry was forgotten.
LEMMA ReturnOpens == ASSUME PInv, NEW t \in Threads, Return(t) PROVE Origins' /\ Numbers' /\ Opened'
  <1>0. PICK r, n : r = Last(Front(stack[t])) /\ n = Returned(Top(t))
    OBVIOUS
  <1>1. /\ pc[t] = "linking" /\ Len(stack[t]) > 1
        /\ stack' = [stack EXCEPT ![t] = Front(@)]
        /\ modules' = [modules EXCEPT ![r].links = Append(@, n)]
        /\ UNCHANGED <<disk, wanted, pc, caches, loaded_plugins>>
    BY <1>0 DEF Return, Link
  <1>2. stack \in [Threads -> Seq(Nat)] /\ stack[t] # <<>>
    BY <1>1 DEF PInv, IInv, Shapes
  <1>3. n \in 0 .. Len(modules)
    BY <1>0, <1>2, TopIsModule DEF PInv, Numbers, Returned
  <1>4. PICK P : Shape(P)
    BY DEF PInv, IInv, Shapes
  <1>5. /\ Len(modules) \in Nat /\ DOMAIN modules = 1 .. Len(modules)
        /\ \A m \in 1 .. Len(modules) : modules[m] \in ModuleShape(P)
    BY <1>4 DEF Shape
  <1>6. /\ DOMAIN modules' = 1 .. Len(modules)
        /\ \A m \in 1 .. Len(modules) :
             modules'[m] = IF m = r THEN [modules[m] EXCEPT !.links = Append(@, n)] ELSE modules[m]
    BY <1>1, <1>5
  <1>7. Len(modules') = Len(modules)
    BY <1>5, <1>6
  <1>8. \A m \in 1 .. Len(modules) :
          /\ modules'[m].file = modules[m].file /\ modules'[m].specifier = modules[m].specifier
          /\ modules'[m].links \in {modules[m].links, Append(modules[m].links, n)}
          /\ modules[m].links \in Seq(P)
    BY <1>5, <1>6 DEF ModuleShape
  <1>9. Numbers'
    <2>1. \A m \in 1 .. Len(modules) : ToSet(modules'[m].links) \subseteq 0 .. Len(modules)
      <3> SUFFICES ASSUME NEW m \in 1 .. Len(modules)
                   PROVE  ToSet(modules'[m].links) \subseteq 0 .. Len(modules)
        OBVIOUS
      <3>1. modules[m].links \in Seq(P \cup {n})
        BY <1>8, SeqGrows
      <3>2. ToSet(Append(modules[m].links, n)) = ToSet(modules[m].links) \cup {n}
        BY <3>1, StackGrows
      <3> QED
        BY <1>3, <1>8, <3>2 DEF PInv, Numbers
    <2>2. ToSet(Front(stack[t])) \subseteq ToSet(stack[t]) /\ Front(stack[t]) # <<>>
      <3>1. stack[t] \in Seq(Nat) /\ Len(stack[t]) \in Nat
        BY <1>2
      <3>2. Len(Front(stack[t])) = Len(stack[t]) - 1
        BY <1>1, <3>1 DEF Front
      <3>3. Front(stack[t]) # <<>>
        BY <1>1, <3>1, <3>2
      <3> QED
        BY <1>2, <3>3, TopIsModule
    <2>3. \A u \in Threads : /\ ToSet(stack'[u]) \subseteq 1 .. Len(modules)
                             /\ pc'[u] \in {"compiled", "linking"} => stack'[u] # <<>>
      BY <1>1, <1>2, <2>2 DEF PInv, Numbers
    <2> QED
      BY <1>1, <1>7, <2>1, <2>3 DEF PInv, Numbers, caches
  <1>10. Origins'
    BY <1>1, <1>7, <1>8 DEF PInv, Origins, Files
  <1>11. Opened'
    BY <1>1, <1>7, <1>8 DEF PInv, Opened, PluginTypeOK
  <1> QED
    BY <1>9, <1>10, <1>11

\* A module is left on the heap, its entries in the caches.
LEMMA UnwindOpens == ASSUME PInv, NEW t \in Threads, Unwind(t) PROVE Origins' /\ Numbers' /\ Opened'
  <1>1. /\ pc[t] = "failing" /\ stack[t] # <<>> /\ stack' = [stack EXCEPT ![t] = Front(@)]
        /\ UNCHANGED <<disk, modules, wanted, pc, caches, loaded_plugins>>
    BY DEF Unwind, caches
  <1>2. stack \in [Threads -> Seq(Nat)]
    BY DEF PInv, IInv, Shapes
  <1>3. ToSet(Front(stack[t])) \subseteq ToSet(stack[t])
    BY <1>1, TopIsModule
  <1>4. Numbers'
    BY <1>1, <1>2, <1>3 DEF PInv, Numbers, caches
  <1>5. Origins' /\ Opened'
    BY <1>1 DEF PInv, Origins, Opened, PluginTypeOK, Files
  <1> QED
    BY <1>4, <1>5

\* One step per action.
LEMMA PInvNext == ASSUME PInv, [Next]_vars PROVE PInv'
  <1>1. IInv'
    BY IInvNext DEF PInv
  <1>2. CASE BeginServer \/ BeginScript \/ BeginLoad \/ EndLoad
    BY <1>1, <1>2, BeginOpens DEF PInv
  <1>3. ASSUME NEW t \in Threads, LoadStep(t) PROVE PInv'
    BY <1>1, <1>3, ResolveOpens, StepOpens, CachesOpen, MakeOpens, ReturnOpens, UnwindOpens
    DEF LoadStep, PInv
  <1>4. CASE UNCHANGED vars
    <2>1. Numbers' /\ Origins' /\ Opened'
      BY <1>4 DEF vars, caches, PInv, Numbers, Origins, Opened, PluginTypeOK, Files
    <2> QED
      BY <1>1, <2>1 DEF PInv
  <1> QED
    BY <1>2, <1>3, <1>4 DEF Next

\* Stacks, caches and answers hold modules; what a thread works on is a file or a plugin; and the
\* library of every plugin that is a module is open.
THEOREM PluginInvariance == Spec => []PInv
  BY PInvInit, PInvNext, PTL DEF Spec

\* Modules, caches, stacks and the table of plugins have their types.
THEOREM LoaderTypeCorrect == Spec => []TypeOK
  <1>1. ASSUME PInv PROVE TypeOK
    <2>1. PICK P : Shape(P)
      BY <1>1 DEF PInv, IInv, Shapes
    <2>2. \A m \in 1 .. Len(modules) : modules[m].isolate \in Threads /\ modules[m].hash \in Hashes
      <3>1. \A m \in 1 .. Len(modules) : modules[m] \in ModuleShape(P)
        BY <2>1 DEF Shape
      <3> QED
        BY <3>1 DEF ModuleShape
    <2> QED
      BY <1>1, <2>2 DEF PInv, IInv, Inv, Shapes, Numbers, Origins, Opened, TypeOK
  <1> QED
    BY <1>1, PluginInvariance, PTL

\* A program is evaluated only when every request of its modules has been answered and the libraries
\* of its plugins are open.
THEOREM LoadedIsComplete == Spec => []CompleteWhenLoaded
  <1>1. ASSUME PInv PROVE CompleteWhenLoaded
    <2>1. \A t \in Threads : PluginsOpen(t)
      BY <1>1 DEF PInv, Opened, PluginsOpen, ModulesOf
    <2> QED
      BY <1>1, <2>1 DEF PInv, IInv, CompleteWhenLoaded
  <1> QED
    BY <1>1, PluginInvariance, PTL

-----------------------------------------------------------------------------
\* The directory of a path, and what resolve_module_path() finds for it.

\* The directory of a path is made of its first names.
LEMMA DirectoryType ==
  ASSUME NEW S, NEW p \in Seq(S)
  PROVE  /\ DirectoryIn(p) \in Seq(S)
         /\ DirectoryIn(p) # <<>> => p # <<>> /\ Head(DirectoryIn(p)) = Head(p)
  <1>1. Len(p) \in Nat
    BY LenProperties
  <1>2. Max({0, Len(p) - 1}) \in {0, Len(p) - 1} /\ Max({0, Len(p) - 1}) >= 0 /\ Max({0, Len(p) - 1}) >= Len(p) - 1
    <2>1. \E x \in {0, Len(p) - 1} : \A y \in {0, Len(p) - 1} : x >= y
      BY <1>1
    <2> QED BY <2>1 DEF Max
  <1>3. PICK k : k = Names(p)
    OBVIOUS
  <1>4. k \in Nat /\ k <= Len(p)
    BY <1>1, <1>2, <1>3 DEF Names
  <1>5. \A i \in 1 .. k : p[i] \in S
    BY <1>4, ElementOfSeq
  <1>6. 1 \in Int /\ k \in Int
    BY <1>4
  <1>7. /\ SubSeq(p, 1, k) \in Seq(S) /\ Len(SubSeq(p, 1, k)) = IF 1 <= k THEN k - 1 + 1 ELSE 0
        /\ \A i \in 1 .. k - 1 + 1 : SubSeq(p, 1, k)[i] = p[1 + i - 1]
    BY <1>5, <1>6, SubSeqProperties
  <1>8. DirectoryIn(p) = SubSeq(p, 1, k)
    BY <1>3 DEF DirectoryIn
  <1>9. ASSUME DirectoryIn(p) # <<>> PROVE p # <<>> /\ Head(DirectoryIn(p)) = Head(p)
    <2>1. k > 0
      BY <1>4, <1>7, <1>8, <1>9, EmptySeq
    <2>2. SubSeq(p, 1, k)[1] = p[1]
      BY <1>4, <1>7, <2>1
    <2>3. p # <<>>
      BY <1>4, <2>1
    <2> QED BY <1>7, <1>8, <2>1, <2>2, <2>3
  <1> QED BY <1>7, <1>8, <1>9

\* A name after a directory is still well named, and keeps its last names.
LEMMA Onward ==
  ASSUME NEW S, NEW d \in Seq(S), NEW r \in Seq(S), r # <<>>
  PROVE  /\ d \o r \in Seq(S) /\ d \o r # <<>> /\ Last(d \o r) = Last(r)
         /\ HasExtension(d \o r) = HasExtension(r)
         /\ Len(r) > 1 => Len(d \o r) > 1 /\ (d \o r)[Len(d \o r) - 1] = r[Len(r) - 1]
         /\ d # <<>> => Head(d \o r) = Head(d)
         /\ d = <<>> => d \o r = r
  <1>1. PICK c : c = d \o r
    OBVIOUS
  <1>2. /\ c \in Seq(S) /\ Len(c) = Len(d) + Len(r)
        /\ \A i \in 1 .. Len(d) : c[i] = d[i]
        /\ \A i \in 1 .. Len(r) : c[Len(d) + i] = r[i]
    BY <1>1
  <1>3. Len(d) \in Nat /\ Len(r) \in Nat \ {0}
    OBVIOUS
  <1>4. c # <<>> /\ Last(c) = Last(r)
    BY <1>2, <1>3 DEF Last
  <1>5. Len(r) > 1 => Len(c) > 1 /\ c[Len(c) - 1] = r[Len(r) - 1]
    <2> SUFFICES ASSUME Len(r) > 1 PROVE Len(c) > 1 /\ c[Len(c) - 1] = r[Len(r) - 1]
      OBVIOUS
    <2>1. PICK i : i = Len(r) - 1
      OBVIOUS
    <2>2. i \in 1 .. Len(r) /\ Len(c) - 1 = Len(d) + i /\ Len(c) > 1
      BY <1>2, <1>3, <2>1
    <2>3. c[Len(d) + i] = r[i]
      BY <1>2, <2>2
    <2>4. c[Len(c) - 1] = c[Len(d) + i]
      BY <2>2
    <2> QED BY <2>1, <2>2, <2>3, <2>4
  <1>6. d # <<>> => Head(c) = Head(d)
    BY <1>2, <1>3
  <1>7. d = <<>> => c = r
    BY <1>1
  <1> QED BY <1>1, <1>2, <1>4, <1>5, <1>6, <1>7 DEF HasExtension

\* So it is for the tail of a request.
LEMMA OnwardWellNamed ==
  ASSUME NEW d \in Seq(STRING), d # <<>> => Head(d) # ".", NEW r, WellNamed(r), r # <<>>
  PROVE  WellNamed(d \o r) /\ d \o r # <<>> /\ Last(d \o r) = Last(r) /\ HasExtension(d \o r) = HasExtension(r)
  <1>1. PICK N : N = STRING
    OBVIOUS
  <1>2. d \in Seq(N) /\ r \in Seq(N)
    BY <1>1 DEF WellNamed
  <1>3. PICK c : c = d \o r
    OBVIOUS
  <1>4. /\ c \in Seq(N) /\ c # <<>> /\ Last(c) = Last(r)
        /\ HasExtension(c) = HasExtension(r)
        /\ Len(r) > 1 => Len(c) > 1 /\ c[Len(c) - 1] = r[Len(r) - 1]
        /\ d # <<>> => Head(c) = Head(d)
        /\ d = <<>> => c = r
    BY <1>2, <1>3, Onward
  <1>5. /\ Head(r) # "."
        /\ HasExtension(r) => Len(r) > 1 /\ r[Len(r) - 1] \notin Dots
    BY DEF WellNamed
  <1>6. WellNamed(c)
    BY <1>1, <1>4, <1>5 DEF WellNamed
  <1> QED BY <1>3, <1>4, <1>6

\* A path that has an extension, where resolve_module_path() looks, leads to a file.
Leading(p) == WellNamed(p) /\ HasExtension(p) /\ Normal(p) \in Files

\* A name tried for a path has an extension of a source.
LEMMA CandidateLeads ==
  ASSUME NEW path, WellNamed(path), ~HasExtension(path), NEW e \in ToSet(file_extensions),
         NEW p \in Candidates(path, e)
  PROVE  WellNamed(p) /\ HasExtension(p)
  <1>1. PICK N : N = STRING
    OBVIOUS
  <1>2. path \in Seq(N) /\ (path # <<>> => Head(path) # ".")
    BY <1>1 DEF WellNamed
  <1>3. e \in N /\ e \notin Dots
    <2>1. DOMAIN file_extensions = 1 .. Len(file_extensions) /\ file_extensions \in Seq(N)
      BY <1>1, ExtensionsAssumption
    <2> QED BY <2>1, ExtensionsAssumption DEF ToSet
  <1>4. CASE p = path \o <<"index", e>>
    <2>1. PICK r : r = <<"index", e>>
      OBVIOUS
    <2>2. PICK w \in N : w = "index"
      BY <1>1, ExtensionsAssumption
    <2>3. <<w, e>> \in Seq(N) /\ <<w, e>> # <<>> /\ Len(<<w, e>>) = 2 /\ <<w, e>>[1] = w /\ <<w, e>>[2] = e
      BY <1>3
    <2>4. r \in Seq(N) /\ r # <<>> /\ Len(r) = 2 /\ r[1] = "index" /\ r[2] = e
      BY <2>1, <2>2, <2>3
    <2>5. Last(r) = e /\ HasExtension(r) /\ r[Len(r) - 1] \notin Dots /\ Head(r) # "."
      BY <2>4 DEF Last, HasExtension, Dots
    <2>6. WellNamed(r)
      BY <1>1, <2>4, <2>5 DEF WellNamed
    <2> QED BY <1>1, <1>2, <1>4, <2>1, <2>4, <2>5, <2>6, OnwardWellNamed
  <1>5. CASE p = Append(path, e) /\ path # <<>> /\ Last(path) \notin Dots
    <2>1. /\ p \in Seq(N) /\ Len(p) = Len(path) + 1 /\ Len(path) \in Nat \ {0}
          /\ \A i \in 1 .. Len(path) : p[i] = path[i]
          /\ p[Len(path) + 1] = e
      BY <1>2, <1>3, <1>5
    <2>2. Last(p) = e /\ Head(p) = Head(path) /\ p # <<>>
      BY <2>1 DEF Last
    <2>3. p[Len(p) - 1] = Last(path)
      <3>1. Len(p) - 1 = Len(path) /\ Len(path) \in 1 .. Len(path)
        BY <2>1
      <3> QED BY <2>1, <3>1 DEF Last
    <2>4. Len(p) > 1
      BY <2>1
    <2>5. HasExtension(p)
      BY <2>2 DEF HasExtension
    <2> QED BY <1>1, <1>2, <1>5, <2>1, <2>2, <2>3, <2>4, <2>5 DEF WellNamed
  <1> QED BY <1>4, <1>5 DEF Candidates

\* What is found has an extension and leads to a file.
LEMMA FoundLeads ==
  ASSUME NEW path, WellNamed(path), NEW p \in Search(path)
  PROVE  Leading(p) /\ Normal(p) \in StandsFor(path)
  <1>1. CASE HasExtension(path)
    <2>1. p = path /\ Normal(p) \in Files
      BY <1>1 DEF Search, Present
    <2> QED BY <1>1, <2>1 DEF Leading, StandsFor
  <1>2. CASE ~HasExtension(path)
    <2>1. PICK i \in DOMAIN file_extensions : p \in Present(Candidates(path, file_extensions[i]))
      BY <1>2 DEF Search
    <2>2. p \in Candidates(path, file_extensions[i]) /\ Normal(p) \in Files
      BY <2>1 DEF Present
    <2>3. file_extensions[i] \in ToSet(file_extensions)
      BY DEF ToSet
    <2>4. WellNamed(p) /\ HasExtension(p)
      BY <1>2, <2>2, <2>3, CandidateLeads
    <2> QED BY <1>2, <2>2, <2>4 DEF Leading, StandsFor
  <1> QED BY <1>1, <1>2

\* What a path stands for depends on where its directory leads to.
LEMMA StandsForWithin ==
  ASSUME NEW S, NEW a \in Seq(S), NEW b \in Seq(S), NEW r \in Seq(S), r # <<>>,
         "index" \in S, ToSet(file_extensions) \subseteq S,
         \A rest \in Seq(S) : Normal(a \o rest) = Normal(b \o rest)
  PROVE  StandsFor(a \o r) \subseteq StandsFor(b \o r)
  <1>1. PICK x, y : x = a \o r /\ y = b \o r
    OBVIOUS
  <1>2. /\ x \in Seq(S) /\ y \in Seq(S) /\ x # <<>> /\ y # <<>> /\ Last(x) = Last(y)
        /\ HasExtension(x) = HasExtension(y)
    BY <1>1, Onward
  <1>3. Normal(x) = Normal(y)
    BY <1>1
  <1>4. ASSUME NEW e \in S, NEW c \in Candidates(x, e) PROVE \E d \in Candidates(y, e) : Normal(d) = Normal(c)
    <2>1. CASE c = x \o <<"index", e>>
      <3>1. PICK i : i = <<"index", e>>
        OBVIOUS
      <3>2. i \in Seq(S)
        BY <3>1
      <3>3. (a \o r) \o i = a \o (r \o i)
        BY <3>2, ConcatThree DEF Associate
      <3>4. (b \o r) \o i = b \o (r \o i)
        BY <3>2, ConcatThree DEF Associate
      <3>5. r \o i \in Seq(S)
        BY <3>2, ConcatProperties
      <3>6. Normal(y \o i) = Normal(x \o i)
        BY <1>1, <3>3, <3>4, <3>5
      <3> QED BY <2>1, <3>1, <3>6 DEF Candidates
    <2>2. CASE c = Append(x, e) /\ Last(x) \notin Dots
      <3>1. a \o Append(r, e) = Append(a \o r, e)
        BY <1>4, AppendConcat
      <3>2. b \o Append(r, e) = Append(b \o r, e)
        BY <1>4, AppendConcat
      <3>3. Append(r, e) \in Seq(S)
        BY AppendProperties
      <3>4. Normal(Append(y, e)) = Normal(Append(x, e))
        BY <1>1, <3>1, <3>2, <3>3
      <3>5. Append(y, e) \in Candidates(y, e)
        BY <1>2, <2>2 DEF Candidates
      <3> QED BY <2>2, <3>4, <3>5
    <2> QED BY <2>1, <2>2 DEF Candidates
  <1>5. ASSUME NEW f \in StandsFor(x) PROVE f \in StandsFor(y)
    <2>1. CASE HasExtension(x)
      BY <1>2, <1>3, <1>5, <2>1 DEF StandsFor
    <2>2. CASE ~HasExtension(x)
      <3>1. PICK i \in DOMAIN file_extensions :
              \E c \in Candidates(x, file_extensions[i]) : f = Normal(c) /\ f \in Files
        BY <1>5, <2>2 DEF StandsFor
      <3>1a. PICK c \in Candidates(x, file_extensions[i]) : f = Normal(c) /\ f \in Files
        BY <3>1
      <3>2. file_extensions[i] \in S
        BY DEF ToSet
      <3>3. PICK d \in Candidates(y, file_extensions[i]) : Normal(d) = Normal(c)
        BY <1>4, <3>2
      <3> QED BY <1>2, <2>2, <3>1a, <3>3 DEF StandsFor
    <2> QED BY <2>1, <2>2
  <1> QED BY <1>1, <1>5

\* A request stands for the same files from the path of a module and from its file.
LEMMA StandsForMoves ==
  ASSUME NEW p, WellNamed(p), HasExtension(p), NEW r, WellNamed(r), r # <<>>
  PROVE  StandsFor(DirectoryIn(Normal(p)) \o r) = StandsFor(DirectoryIn(p) \o r)
  <1>1. PICK N : N = STRING
    OBVIOUS
  <1>2. p \in Seq(N) /\ r \in Seq(N) /\ Len(p) > 1 /\ p[Len(p) - 1] \notin Dots
    BY <1>1 DEF WellNamed
  <1>3. PICK a, b : a = DirectoryIn(Normal(p)) /\ b = DirectoryIn(p)
    OBVIOUS
  <1>4. Normal(p) \in Seq(N \ Dots)
    BY <1>2, NormalType
  <1>5. Normal(p) \in Seq(N)
    BY <1>4, SeqMonotonic
  <1>6. a \in Seq(N) /\ b \in Seq(N)
    BY <1>2, <1>3, <1>5, DirectoryType
  <1>7. \A rest \in Seq(N) : Normal(a \o rest) = Normal(b \o rest)
    BY <1>2, <1>3, BaseMoves
  <1>8. "index" \in N /\ ToSet(file_extensions) \subseteq N
    <2>1. DOMAIN file_extensions = 1 .. Len(file_extensions) /\ file_extensions \in Seq(N)
      BY <1>1, ExtensionsAssumption
    <2> QED BY <1>1, <2>1, ExtensionsAssumption DEF ToSet
  <1>9. StandsFor(a \o r) \subseteq StandsFor(b \o r)
    BY <1>2, <1>6, <1>7, <1>8, StandsForWithin
  <1>10. StandsFor(b \o r) \subseteq StandsFor(a \o r)
    BY <1>2, <1>6, <1>7, <1>8, StandsForWithin
  <1> QED BY <1>3, <1>9, <1>10

-----------------------------------------------------------------------------
\* What is linked to a request.

\* The server's entries are left alone once it has loaded its modules: the script's modules may have
\* the hashes of its own.
Active(t) == t = Server => pc[t] # "loaded"

\* The modules of an isolate have hashes of their own; the script has none while the server loads.
OwnHashes ==
  /\ \A m, n \in 1 .. Len(modules) :
       modules[m].isolate = modules[n].isolate /\ modules[m].hash = modules[n].hash => m = n
  /\ pc[Server] # "loaded" => ModulesOf(Script) = {}

\* A stack holds modules of its thread's isolate, each made after the one below it.
Stacked(t) ==
  /\ pc[t] = "begin" => stack[t] = <<>>
  /\ \A i \in 1 .. Len(stack[t]) : modules[stack[t][i]].isolate = t
  /\ \A i, j \in 1 .. Len(stack[t]) : i < j => stack[t][i] < stack[t][j]

\* The cache has every module of a stack but the one that has just been made.
Held(t) ==
  Active(t) => \A i \in 1 .. Len(stack[t]) :
                 pc[t] # "compiled" \/ i < Len(stack[t]) => Returned(stack[t][i]) = stack[t][i]

\* A module answers the request of the one below it on the stack, and so will the one that is wanted,
\* unless it was not found: nothing is compiled for it.
AskedFor(m, x) == Asking(m) /\ Answers(m, RequestsOf(m)[Len(modules[m].links) + 1], x)
Ready(s, x) == s \in {"compiling", "creating"} \/ (s = "wanted" /\ Located(x))
Chained(t) ==
  /\ \A i \in 1 .. Len(stack[t]) : i < Len(stack[t]) => AskedFor(stack[t][i], modules[stack[t][i + 1]])
  /\ Ready(pc[t], wanted[t]) =>
       \A i \in 1 .. Len(stack[t]) : i = Len(stack[t]) => AskedFor(stack[t][i], wanted[t])

\* The path of what was found leads to its file; a file does not have the specifier of a plugin.
Placed(x) ==
  /\ x.path \in Seq(STRING) /\ (x.path # <<>> => Head(x.path) # ".")
  /\ Located(x) => Leading(x.path) /\ Normal(x.path) = x.file
  /\ x.file \in Files => x.specifier \notin Plugins
AllPlaced ==
  /\ \A m \in 1 .. Len(modules) : Placed(modules[m])
  /\ \A t \in Threads : Placed(wanted[t])

LInv == /\ PInv /\ OwnHashes /\ AllPlaced /\ LinkedAsRequested
        /\ \A t \in Threads : Stacked(t) /\ Held(t) /\ Chained(t)

\* What is looked for depends on the disk only.
LEMMA SearchSame ==
  ASSUME disk' = disk, NEW path
  PROVE  Search(path)' = Search(path) /\ StandsFor(path)' = StandsFor(path)
  <1>1. \A paths : Present(paths)' = Present(paths)
    BY DEF Present, Files
  <1>2. Search(path)' = Search(path)
    BY <1>1 DEF Search
  <1> QED BY <1>2 DEF StandsFor, Files

\* What a request means depends on the names of the module that makes it.
LEMMA AnswersSame ==
  ASSUME disk' = disk, NEW m, modules'[m].file = modules[m].file, modules'[m].path = modules[m].path,
         modules'[m].specifier = modules[m].specifier, NEW r, NEW x, NEW y,
         y.specifier = x.specifier, y.path = x.path, y.file = x.file
  PROVE  Answers(m, r, y)' <=> Answers(m, r, x)
  <1>1. Base(m, r)' = Base(m, r) /\ Found(m)' = Found(m)
    BY DEF Base, Found, Located
  <1>2. \A path : Search(path)' = Search(path) /\ StandsFor(path)' = StandsFor(path)
    BY SearchSame
  <1>3. Understood(m, r)' = Understood(m, r)
    BY <1>1 DEF Understood
  <1>4. PICK base : base = Base(m, r)
    OBVIOUS
  <1>5. StandsFor(base \o r.tail)' = StandsFor(base \o r.tail)
    BY <1>2
  <1>6. Located(y)' = Located(x)
    BY DEF Located
  <1> QED BY <1>1, <1>3, <1>4, <1>5, <1>6 DEF Answers

\* Where a module lies does not change.
LEMMA PlacedSame ==
  ASSUME disk' = disk, NEW x, Placed(x)
  PROVE  Placed(x)'
  BY DEF Placed, Leading, Files, Located

\* The stacks hold modules.
LEMMA StackFacts ==
  ASSUME PInv, NEW t \in Threads
  PROVE  /\ stack[t] \in Seq(Nat) /\ Len(stack[t]) \in Nat
         /\ \A i \in 1 .. Len(stack[t]) : stack[t][i] \in 1 .. Len(modules)
         /\ stack[t] # <<>> => Len(stack[t]) > 0 /\ Top(t) = stack[t][Len(stack[t])]
  <1>1. stack[t] \in Seq(Nat)
    BY DEF PInv, IInv, Shapes
  <1>2. DOMAIN stack[t] = 1 .. Len(stack[t]) /\ Len(stack[t]) \in Nat
    BY <1>1
  <1>3. \A i \in 1 .. Len(stack[t]) : stack[t][i] \in ToSet(stack[t])
    BY <1>2 DEF ToSet
  <1> QED BY <1>1, <1>2, <1>3 DEF PInv, Numbers, Top, Last

\* The members of a module have their types, and its requests are well named.
LEMMA ModuleFacts ==
  ASSUME PInv
  PROVE  /\ Len(modules) \in Nat
         /\ \A m \in 1 .. Len(modules) :
              /\ Len(modules[m].links) \in Nat /\ modules[m].hash \in Hashes /\ modules[m].isolate \in Threads
              /\ Len(RequestsOf(m)) \in Nat
              /\ \A i \in 1 .. Len(RequestsOf(m)) : Requestable(RequestsOf(m)[i])
              /\ Asking(m) => modules[m].file \in Files /\ Len(modules[m].links) + 1 \in 1 .. Len(RequestsOf(m))
  <1>1. PICK P : Shape(P)
    BY DEF PInv, IInv, Shapes
  <1>2. /\ Len(modules) \in Nat
        /\ \A m \in 1 .. Len(modules) : modules[m] \in ModuleShape(P)
    BY <1>1 DEF Shape
  <1> SUFFICES ASSUME NEW m \in 1 .. Len(modules)
               PROVE  /\ Len(modules[m].links) \in Nat /\ modules[m].hash \in Hashes /\ modules[m].isolate \in Threads
                      /\ Len(RequestsOf(m)) \in Nat
                      /\ \A i \in 1 .. Len(RequestsOf(m)) : Requestable(RequestsOf(m)[i])
                      /\ Asking(m) => modules[m].file \in Files /\ Len(modules[m].links) + 1 \in 1 .. Len(RequestsOf(m))
    BY <1>2
  <1>3. Len(modules[m].links) \in Nat /\ modules[m].hash \in Hashes /\ modules[m].isolate \in Threads
    BY <1>2 DEF ModuleShape
  <1>4. disk \in Programs
    BY DEF PInv, IInv, Shapes
  <1>5. /\ Len(RequestsOf(m)) \in Nat
        /\ \A i \in 1 .. Len(RequestsOf(m)) : Requestable(RequestsOf(m)[i])
        /\ modules[m].file \notin Files => Len(RequestsOf(m)) = 0
    BY <1>4, ProgramsAssumption DEF RequestsOf, Files
  <1>6. Asking(m) => modules[m].file \in Files /\ Len(modules[m].links) + 1 \in 1 .. Len(RequestsOf(m))
    BY <1>3, <1>5 DEF Asking
  <1> QED BY <1>3, <1>5, <1>6

\* The request that V8 asks the callback for.
LEMMA Asked ==
  ASSUME PInv, NEW t \in Threads, NEW kind, AsksFor(t, kind)
  PROVE  /\ Top(t) \in 1 .. Len(modules) /\ Asking(Top(t)) /\ pc[t] = "linking" /\ stack[t] # <<>>
         /\ modules[Top(t)].file \in Files
         /\ Current(t) = RequestsOf(Top(t))[Len(modules[Top(t)].links) + 1]
         /\ Current(t).kind = kind /\ Requestable(Current(t))
  <1>1. /\ pc[t] = "linking" /\ Asking(Top(t)) /\ Current(t).kind = kind
        /\ Current(t) = RequestsOf(Top(t))[Len(modules[Top(t)].links) + 1]
    BY DEF AsksFor, Current
  <1>2. stack[t] # <<>>
    BY <1>1 DEF PInv, Numbers
  <1>3. Top(t) \in 1 .. Len(modules)
    BY <1>2, TopIsModule
  <1> QED BY <1>1, <1>2, <1>3, ModuleFacts

\* A path of two names or more is not a plugin.
LEMMA LongerThanPlugin ==
  ASSUME NEW path, Len(path) \in Nat, Len(path) > 1
  PROVE  path \notin Plugins
  <1>1. PICK n : n = Len(path)
    OBVIOUS
  <1>2. path \in Plugins => n = 1
    BY <1>1, PathsAssumption
  <1>3. n \in Nat /\ n > 1
    BY <1>1
  <1>4. n # 1
    BY <1>3
  <1> QED BY <1>2, <1>4

\* resolve_module_path() leaves a path that leads to the file it found, or the text of the request.
LEMMA ResolveWants ==
  ASSUME PInv, NEW t \in Threads, NEW text, NEW path, NEW left, NEW opened, WellNamed(path),
         text \notin Plugins, left \in Seq(STRING), left # <<>> => Head(left) # "." /\ left # text,
         Resolve(t, text, path, left, opened)
  PROVE  /\ UNCHANGED <<disk, modules, caches, stack, loaded_plugins>>
         /\ \/ wanted' = wanted /\ pc' = [pc EXCEPT ![t] = "failing"]
            \/ \E w : /\ wanted' = [wanted EXCEPT ![t] = w] /\ pc' = [pc EXCEPT ![t] = "wanted"]
                      /\ Placed(w)
                      /\ Located(w) => w.file \in StandsFor(path)
  <1>1. CASE Search(path) # {}
    <2>1. PICK found \in Search(path) : Fetch(t, found, found, Normal(found), "failing")
      BY <1>1 DEF Resolve
    <2>2. Leading(found) /\ Normal(found) \in StandsFor(path)
      BY FoundLeads
    <2>3. Normal(found) \in Files
      BY <2>2 DEF Leading
    <2> DEFINE w == Want(found, found, Normal(found))
    <2>4. found \notin Plugins /\ found \in Seq(STRING) /\ (found # <<>> => Head(found) # ".")
      <3>1. WellNamed(found) /\ Len(found) > 1 /\ Len(found) \in Nat
        BY <2>2 DEF Leading, WellNamed
      <3>2. found \notin Plugins
        BY <3>1, LongerThanPlugin
      <3> QED BY <3>1, <3>2 DEF WellNamed
    <2>5. Placed(w)
      BY <2>2, <2>4 DEF Placed, Located, Want
    <2>6. /\ wanted' = [wanted EXCEPT ![t] = w] /\ pc' = [pc EXCEPT ![t] = "wanted"]
          /\ UNCHANGED <<disk, modules, caches, stack, loaded_plugins>>
      BY <2>1, <2>3 DEF Fetch, Readable, Goto
    <2>7. w.file \in StandsFor(path)
      BY <2>2 DEF Want
    <2> QED BY <2>5, <2>6, <2>7
  <1>2. CASE Search(path) = {}
    <2>1. Fetch(t, text, left, Normal(opened), "failing")
      BY <1>2 DEF Resolve
    <2> DEFINE w == Want(text, left, Normal(opened))
    <2>2. Placed(w) /\ ~Located(w)
      BY DEF Placed, Located, Want
    <2>4. /\ UNCHANGED <<disk, modules, caches, stack, loaded_plugins>>
          /\ \/ wanted' = wanted /\ pc' = [pc EXCEPT ![t] = "failing"]
             \/ wanted' = [wanted EXCEPT ![t] = w] /\ pc' = [pc EXCEPT ![t] = "wanted"]
      BY <2>1 DEF Fetch, Goto
    <2> QED BY <2>2, <2>4
  <1> QED BY <1>1, <1>2

\* The directory of the module that asks.
LEMMA DirectoryOfTop ==
  ASSUME LInv, NEW t \in Threads, NEW kind, AsksFor(t, kind)
  PROVE  /\ DirectoryOf(Top(t)) = DirectoryIn(modules[Top(t)].path)
         /\ DirectoryOf(Top(t)) \in Seq(STRING)
         /\ DirectoryOf(Top(t)) # <<>> => Head(DirectoryOf(Top(t))) # "."
  <1>1. /\ Top(t) \in 1 .. Len(modules) /\ pc[t] = "linking" /\ stack[t] # <<>>
    BY Asked DEF LInv
  <1>2. Len(stack[t]) \in 1 .. Len(stack[t]) /\ Top(t) = stack[t][Len(stack[t])]
    BY <1>1, StackFacts DEF LInv
  <1>3. Active(t)
    BY <1>1 DEF Active
  <1>4. Returned(Top(t)) = Top(t)
    BY <1>1, <1>2, <1>3 DEF LInv, Held
  <1>5. Top(t) # NoModule
    BY <1>1 DEF NoModule
  <1>6. PICK p, N : p = modules[Top(t)].path /\ N = STRING
    OBVIOUS
  <1>7. p \in Seq(N) /\ (p # <<>> => Head(p) # ".")
    BY <1>1, <1>6 DEF LInv, AllPlaced, Placed
  <1>8. DirectoryIn(p) \in Seq(N) /\ (DirectoryIn(p) # <<>> => Head(DirectoryIn(p)) # ".")
    BY <1>7, DirectoryType
  <1> QED BY <1>4, <1>5, <1>6, <1>8 DEF DirectoryOf

\* What is fetched answers the request.
LEMMA RelativeWants ==
  ASSUME LInv, NEW t \in Threads, ResolveRelative(t)
  PROVE  /\ UNCHANGED <<disk, modules, caches, stack, loaded_plugins>>
         /\ \/ wanted' = wanted /\ pc' = [pc EXCEPT ![t] = "failing"]
            \/ \E w : /\ wanted' = [wanted EXCEPT ![t] = w] /\ pc' = [pc EXCEPT ![t] = "wanted"]
                      /\ Placed(w) /\ (Located(w) => AskedFor(Top(t), w))
  <1>1. AsksFor(t, "relative")
    BY DEF ResolveRelative
  <1>2. PICK m, r : m = Top(t) /\ r = Current(t)
    OBVIOUS
  <1>3. /\ m \in 1 .. Len(modules) /\ Asking(m) /\ r = RequestsOf(m)[Len(modules[m].links) + 1]
        /\ r.kind = "relative" /\ WellNamed(r.tail) /\ r.tail # <<>>
    BY <1>1, <1>2, Asked DEF LInv, Requestable
  <1>4. PICK d : d = DirectoryOf(m)
    OBVIOUS
  <1>5. d = DirectoryIn(modules[m].path) /\ d \in Seq(STRING) /\ (d # <<>> => Head(d) # ".")
    BY <1>1, <1>2, <1>4, DirectoryOfTop
  <1>6. PICK path, text : path = d \o r.tail /\ text = <<".">> \o r.tail
    OBVIOUS
  <1>7. Resolve(t, text, path, path, WorkingDirectory \o r.tail)
    BY <1>2, <1>4, <1>6 DEF ResolveRelative
  <1>8. WellNamed(path) /\ path \in Seq(STRING) /\ path # <<>> /\ Head(path) # "."
    <2>1. WellNamed(path) /\ path # <<>>
      BY <1>3, <1>5, <1>6, OnwardWellNamed
    <2> QED BY <2>1 DEF WellNamed
  <1>9. Head(text) = "." /\ Len(text) > 1
    <2>1. PICK N : N = STRING
      OBVIOUS
    <2>2. PICK S : S = N \cup {"."}
      OBVIOUS
    <2>3. r.tail \in Seq(N)
      BY <1>3, <2>1 DEF WellNamed
    <2>4. r.tail \in Seq(S) /\ <<".">> \in Seq(S) /\ Len(<<".">>) = 1 /\ <<".">>[1] = "."
      BY <2>2, <2>3, SeqMonotonic
    <2>5. Len(r.tail) \in Nat \ {0}
      BY <1>3, <2>3
    <2>6. /\ text \in Seq(S) /\ Len(text) = 1 + Len(r.tail) /\ text[1] = <<".">>[1]
      BY <1>6, <2>4, <2>5, ConcatProperties
    <2> QED BY <2>4, <2>5, <2>6
  <1>10. text \notin Plugins /\ text # path
    BY <1>8, <1>9, PathsAssumption DEF Dots
  <1>11. /\ UNCHANGED <<disk, modules, caches, stack, loaded_plugins>>
         /\ \/ wanted' = wanted /\ pc' = [pc EXCEPT ![t] = "failing"]
            \/ \E w : /\ wanted' = [wanted EXCEPT ![t] = w] /\ pc' = [pc EXCEPT ![t] = "wanted"]
                      /\ Placed(w)
                      /\ Located(w) => w.file \in StandsFor(path)
    BY <1>7, <1>8, <1>10, ResolveWants DEF LInv
  <1>12. ASSUME NEW w, Located(w), w.file \in StandsFor(path) PROVE Answers(m, r, w)
    <2>1. CASE Found(m)
      <3>1. Leading(modules[m].path) /\ Normal(modules[m].path) = modules[m].file
        BY <1>3, <2>1 DEF LInv, AllPlaced, Placed, Found
      <3>2. StandsFor(DirectoryIn(Normal(modules[m].path)) \o r.tail) = StandsFor(DirectoryIn(modules[m].path) \o r.tail)
        BY <1>3, <3>1, StandsForMoves DEF Leading
      <3>3. StandsFor(Base(m, r) \o r.tail) = StandsFor(path)
        BY <1>3, <1>5, <1>6, <3>1, <3>2 DEF Base
      <3> QED BY <1>3, <1>12, <3>3 DEF Answers
    <2>2. CASE ~Found(m)
      BY <1>3, <1>12, <2>2 DEF Answers, Understood
    <2> QED BY <2>1, <2>2
  <1>13. \A w : Answers(m, r, w) => AskedFor(m, w)
    BY <1>3 DEF AskedFor
  <1> QED BY <1>2, <1>11, <1>12, <1>13

\* From the working directory.
LEMMA BareWants ==
  ASSUME LInv, NEW t \in Threads, ResolveBare(t)
  PROVE  /\ UNCHANGED <<disk, modules, caches, stack, loaded_plugins>>
         /\ \/ wanted' = wanted /\ pc' = [pc EXCEPT ![t] = "failing"]
            \/ \E w : /\ wanted' = [wanted EXCEPT ![t] = w] /\ pc' = [pc EXCEPT ![t] = "wanted"]
                      /\ Placed(w) /\ (Located(w) => AskedFor(Top(t), w))
  <1>1. AsksFor(t, "bare")
    BY DEF ResolveBare
  <1>2. PICK m, r : m = Top(t) /\ r = Current(t)
    OBVIOUS
  <1>3. /\ m \in 1 .. Len(modules) /\ Asking(m) /\ r = RequestsOf(m)[Len(modules[m].links) + 1]
        /\ r.kind = "bare" /\ WellNamed(r.tail) /\ r.tail # <<>> /\ r.tail \notin Plugins
    BY <1>1, <1>2, Asked DEF LInv, Requestable
  <1>4. WorkingDirectory \in Seq(STRING) /\ (WorkingDirectory # <<>> => Head(WorkingDirectory) # ".")
    BY PathsAssumption DEF WellNamed
  <1>5. PICK path : path = WorkingDirectory \o r.tail
    OBVIOUS
  <1>6. Resolve(t, r.tail, path, <<>>, path)
    BY <1>2, <1>5 DEF ResolveBare
  <1>7. WellNamed(path)
    BY <1>3, <1>4, <1>5, OnwardWellNamed
  <1>8. <<>> \in Seq(STRING)
    BY EmptySeq
  <1>9. /\ UNCHANGED <<disk, modules, caches, stack, loaded_plugins>>
        /\ \/ wanted' = wanted /\ pc' = [pc EXCEPT ![t] = "failing"]
           \/ \E w : /\ wanted' = [wanted EXCEPT ![t] = w] /\ pc' = [pc EXCEPT ![t] = "wanted"]
                     /\ Placed(w)
                     /\ Located(w) => w.file \in StandsFor(path)
    BY <1>3, <1>6, <1>7, <1>8, ResolveWants DEF LInv
  <1>10. ASSUME NEW w, Located(w), w.file \in StandsFor(path) PROVE Answers(m, r, w)
    <2>1. Understood(m, r) => Base(m, r) = WorkingDirectory
      BY <1>3 DEF Understood, Base
    <2> QED BY <1>3, <1>5, <1>10, <2>1 DEF Answers
  <1>11. \A w : Answers(m, r, w) => AskedFor(m, w)
    BY <1>3 DEF AskedFor
  <1> QED BY <1>2, <1>9, <1>10, <1>11

\* From the root, or what its index is.
LEMMA AbsoluteWants ==
  ASSUME LInv, NEW t \in Threads, ResolveAbsolute(t)
  PROVE  /\ UNCHANGED <<disk, modules, caches, stack, loaded_plugins>>
         /\ \/ wanted' = wanted /\ pc' = [pc EXCEPT ![t] = "failing"]
            \/ \E w : /\ wanted' = [wanted EXCEPT ![t] = w] /\ pc' = [pc EXCEPT ![t] = "wanted"]
                      /\ Placed(w) /\ (Located(w) => AskedFor(Top(t), w))
  <1>1. AsksFor(t, "absolute")
    BY DEF ResolveAbsolute
  <1>2. PICK m, r : m = Top(t) /\ r = Current(t)
    OBVIOUS
  <1>3. /\ m \in 1 .. Len(modules) /\ Asking(m) /\ r = RequestsOf(m)[Len(modules[m].links) + 1]
        /\ r.kind = "absolute" /\ WellNamed(r.tail) /\ r.tail # <<>>
    BY <1>1, <1>2, Asked DEF LInv, Requestable
  <1>4. PICK text : text = <<"/">> \o r.tail
    OBVIOUS
  <1>5. Resolve(t, text, <<>>, <<>>, r.tail)
    BY <1>2, <1>4 DEF ResolveAbsolute
  <1>6. PICK N : N = STRING
    OBVIOUS
  <1>7. r.tail \in Seq(N)
    BY <1>3, <1>6 DEF WellNamed
  <1>8. Len(text) \in Nat /\ Len(text) > 1
    <2>1. PICK root : root = "/"
      OBVIOUS
    <2>2. PICK S : S = N \cup {root}
      OBVIOUS
    <2>3. r.tail \in Seq(S) /\ <<root>> \in Seq(S) /\ Len(<<root>>) = 1
      BY <1>7, <2>2, SeqMonotonic
    <2>4. Len(r.tail) \in Nat \ {0}
      BY <1>3, <1>7
    <2>5. Len(text) = 1 + Len(r.tail)
      BY <1>4, <2>1, <2>3, <2>4, ConcatProperties
    <2> QED BY <2>4, <2>5
  <1>9. text \notin Plugins
    BY <1>8, LongerThanPlugin
  <1>10. WellNamed(<<>>) /\ <<>> \in Seq(STRING)
    <2>1. ~HasExtension(<<>>)
      BY DEF HasExtension
    <2> QED BY <2>1, EmptySeq DEF WellNamed
  <1>11. /\ UNCHANGED <<disk, modules, caches, stack, loaded_plugins>>
         /\ \/ wanted' = wanted /\ pc' = [pc EXCEPT ![t] = "failing"]
            \/ \E w : /\ wanted' = [wanted EXCEPT ![t] = w] /\ pc' = [pc EXCEPT ![t] = "wanted"]
                      /\ Placed(w)
    <2>1. PICK e, opened : e = <<>> /\ opened = r.tail
      OBVIOUS
    <2>2. Resolve(t, text, e, e, opened) /\ WellNamed(e) /\ e \in Seq(STRING) /\ ~(e # <<>>)
      BY <1>5, <1>10, <2>1
    <2> QED BY <1>9, <2>2, ResolveWants DEF LInv
  <1>12. \A w : Located(w) => AskedFor(m, w)
    BY <1>3 DEF AskedFor, Answers, Understood
  <1> QED BY <1>2, <1>11, <1>12

\* A step that leaves the caches, the modules and the stacks alone.
LEMMA HeldStill ==
  ASSUME LInv, UNCHANGED <<modules, stack, by_hash_id_cache>>, NEW t \in Threads, NEW s,
         pc' = [pc EXCEPT ![t] = s], pc[t] # "compiled", t = Server => pc[Server] # "loaded"
  PROVE  \A u \in Threads : Held(u)'
  <1> SUFFICES ASSUME NEW u \in Threads, Active(u)', NEW i \in 1 .. Len(stack[u]),
                      pc'[u] # "compiled" \/ i < Len(stack[u])
               PROVE  Returned(stack[u][i])' = stack[u][i]
    BY DEF Held
  <1>1. pc \in [Threads -> Steps]
    BY DEF LInv, PInv, IInv, Inv
  <1>2. Active(u) /\ (pc[u] # "compiled" \/ i < Len(stack[u]))
    BY <1>1 DEF Active
  <1>3. Returned(stack[u][i]) = stack[u][i]
    BY <1>2 DEF LInv, Held
  <1> QED BY <1>3 DEF Returned

\* A step that makes no module and moves no thread up or down its stack.
LEMMA LStill ==
  ASSUME LInv, PInv', UNCHANGED <<disk, modules, stack>>, NEW t \in Threads, NEW s, NEW w,
         pc' = [pc EXCEPT ![t] = s], s # "begin", wanted' = [wanted EXCEPT ![t] = w],
         t = Server => pc[Server] # "loaded", Placed(w),
         Ready(s, w) /\ stack[t] # <<>> => AskedFor(Top(t), w),
         \A u \in Threads : Held(u)'
  PROVE  LInv'
  <1>1. pc \in [Threads -> Steps] /\ wanted = [u \in Threads |-> wanted[u]]
    BY DEF LInv, PInv, IInv, Inv, Shapes, Shape
  <1>2. OwnHashes'
    <2>1. Server \in Threads
      BY DEF Threads
    <2>2. pc'[Server] # "loaded" => pc[Server] # "loaded"
      BY <1>1, <2>1
    <2> QED BY <2>2 DEF LInv, OwnHashes, ModulesOf
  <1>3. \A m, x : AskedFor(m, x) => AskedFor(m, x)'
    <2> SUFFICES ASSUME NEW m, NEW x, AskedFor(m, x) PROVE AskedFor(m, x)'
      OBVIOUS
    <2>1. Asking(m)' = Asking(m) /\ RequestsOf(m)' = RequestsOf(m)
      BY DEF Asking, RequestsOf, Files
    <2>2. PICK r : r = RequestsOf(m)[Len(modules[m].links) + 1]
      OBVIOUS
    <2>3. Answers(m, r, x) => Answers(m, r, x)'
      BY AnswersSame
    <2> QED BY <2>1, <2>2, <2>3 DEF AskedFor
  <1>4. AllPlaced'
    <2>1. \A x : Placed(x) => Placed(x)'
      BY PlacedSame
    <2>2. \A m \in 1 .. Len(modules') : Placed(modules[m])'
      BY <2>1 DEF LInv, AllPlaced
    <2>3. \A u \in Threads : Placed(wanted[u])'
      BY <1>1, <2>1 DEF LInv, AllPlaced
    <2> QED BY <2>2, <2>3 DEF AllPlaced
  <1>5. LinkedAsRequested'
    <2> SUFFICES ASSUME NEW m \in 1 .. Len(modules), NEW i \in 1 .. Len(modules[m].links)
                 PROVE  /\ modules[m].links[i] # NoModule
                        /\ modules[modules[m].links[i]].isolate = modules[m].isolate
                        /\ Answers(m, RequestsOf(m)[i], modules[modules[m].links[i]])'
      BY DEF LinkedAsRequested
    <2>1. PICK n, x, r : n = modules[m].links[i] /\ x = modules[n] /\ r = RequestsOf(m)[i]
      OBVIOUS
    <2>2. n # NoModule /\ x.isolate = modules[m].isolate /\ Answers(m, r, x)
      BY <2>1 DEF LInv, LinkedAsRequested
    <2>3. Answers(m, r, x)'
      BY <2>2, AnswersSame
    <2>4. RequestsOf(m)' = RequestsOf(m)
      BY DEF RequestsOf, Files
    <2> QED BY <2>1, <2>2, <2>3, <2>4
  <1>6. ASSUME NEW u \in Threads PROVE Stacked(u)' /\ Chained(u)'
    <2>1. Stacked(u)'
      BY <1>1 DEF LInv, Stacked
    <2>2. \A i \in 1 .. Len(stack[u]) : i < Len(stack[u]) => AskedFor(stack[u][i], modules[stack[u][i + 1]])'
      BY <1>3 DEF LInv, Chained
    <2>3. ASSUME Ready(pc'[u], wanted'[u]), NEW i \in 1 .. Len(stack[u]), i = Len(stack[u])
          PROVE  AskedFor(stack[u][i], wanted[u])'
      <3>1. CASE u = t
        <4>1. stack[t] # <<>> /\ Top(t) = stack[u][i]
          BY <2>3, <3>1, StackFacts DEF LInv
        <4>2. AskedFor(stack[u][i], w)
          BY <1>1, <2>3, <3>1, <4>1
        <4> QED BY <1>1, <1>3, <3>1, <4>2
      <3>2. CASE u # t
        <4>1. AskedFor(stack[u][i], wanted[u])
          BY <1>1, <2>3, <3>2 DEF LInv, Chained
        <4> QED BY <1>1, <1>3, <3>2, <4>1
      <3> QED BY <3>1, <3>2
    <2> QED BY <2>1, <2>2, <2>3 DEF Chained
  <1> QED BY <1>2, <1>4, <1>5, <1>6 DEF LInv

\* A request that is resolved is what its thread works on.
LEMMA LResolve ==
  ASSUME LInv, PInv', NEW t \in Threads, ResolveRelative(t) \/ ResolveBare(t) \/ ResolveAbsolute(t)
  PROVE  LInv'
  <1>1. /\ UNCHANGED <<disk, modules, caches, stack, loaded_plugins>>
        /\ \/ wanted' = wanted /\ pc' = [pc EXCEPT ![t] = "failing"]
           \/ \E w : /\ wanted' = [wanted EXCEPT ![t] = w] /\ pc' = [pc EXCEPT ![t] = "wanted"]
                     /\ Placed(w) /\ (Located(w) => AskedFor(Top(t), w))
    BY RelativeWants, BareWants, AbsoluteWants
  <1>2. pc[t] = "linking"
    BY DEF ResolveRelative, ResolveBare, ResolveAbsolute, AsksFor
  <1>3. wanted = [wanted EXCEPT ![t] = wanted[t]]
    BY DEF LInv, PInv, IInv, Shapes, Shape
  <1>4. Placed(wanted[t])
    BY DEF LInv, AllPlaced
  <1>5. PICK s, w : /\ s \in {"failing", "wanted"} /\ Placed(w) /\ (s = "wanted" /\ Located(w) => AskedFor(Top(t), w))
                    /\ wanted' = [wanted EXCEPT ![t] = w] /\ pc' = [pc EXCEPT ![t] = s]
    BY <1>1, <1>3, <1>4
  <1>6. \A u \in Threads : Held(u)'
    BY <1>1, <1>2, <1>5, HeldStill DEF caches
  <1> QED BY <1>1, <1>2, <1>5, <1>6, LStill DEF Ready

\* The steps outside LoadStep.
LEMMA LBegin ==
  ASSUME LInv, PInv', BeginServer \/ BeginScript \/ BeginLoad \/ EndLoad
  PROVE  LInv'
  <1>1. Server \in Threads /\ Script \in Threads /\ Script # Server
    BY ThreadsAssumption DEF Threads
  <1>2. wanted = [u \in Threads |-> wanted[u]] /\ \A u \in Threads : Placed(wanted[u])
    BY DEF LInv, PInv, IInv, Shapes, Shape, AllPlaced
  <1>3. <<>> \in Seq(STRING)
    BY EmptySeq
  <1>4. CASE BeginServer
    <2> DEFINE w == Want(Entry[Server], <<>>, Entry[Server])
    <2>1. /\ UNCHANGED <<disk, modules, caches, stack>> /\ pc[Server] = "begin"
          /\ pc' = [pc EXCEPT ![Server] = "compiling"] /\ wanted' = [wanted EXCEPT ![Server] = w]
      BY <1>4 DEF BeginServer, Goto
    <2>2. Entry[Server] \in Files /\ Plugins \cap Files = {}
      BY ProgramsAssumption DEF LInv, PInv, IInv, Shapes, Files
    <2>3. Placed(w)
      BY <1>3, <2>2 DEF Placed, Located, Want
    <2>4. stack[Server] = <<>>
      BY <1>1, <2>1 DEF LInv, Stacked
    <2>5. \A u \in Threads : Held(u)'
      BY <1>1, <2>1, HeldStill DEF caches
    <2> QED BY <1>1, <2>1, <2>3, <2>4, <2>5, LStill
  <1>5. CASE BeginScript
    <2> DEFINE e == Entry[Script]
               w == Want(e, e, Normal(e))
    <2>1. /\ UNCHANGED <<disk, modules, caches, stack>> /\ pc[Script] = "begin"
          /\ \/ /\ Normal(e) \in Files
                /\ pc' = [pc EXCEPT ![Script] = "wanted"] /\ wanted' = [wanted EXCEPT ![Script] = w]
             \/ pc' = [pc EXCEPT ![Script] = "failed"] /\ wanted' = wanted
      BY <1>5 DEF BeginScript, Fetch, Readable, Goto
    <2>2. WellNamed(e) /\ HasExtension(e) /\ Len(e) \in Nat
      BY PathsAssumption DEF WellNamed
    <2>3. e \notin Plugins
      BY <2>2, LongerThanPlugin DEF WellNamed
    <2>4. Normal(e) \in Files => Placed(w)
      BY <2>2, <2>3 DEF Placed, Located, Leading, WellNamed, Want
    <2>5. stack[Script] = <<>>
      BY <1>1, <2>1 DEF LInv, Stacked
    <2>6. PICK s, x : /\ s \in {"wanted", "failed"} /\ Placed(x)
                      /\ pc' = [pc EXCEPT ![Script] = s] /\ wanted' = [wanted EXCEPT ![Script] = x]
      BY <1>1, <1>2, <2>1, <2>4
    <2>7. \A u \in Threads : Held(u)'
      BY <1>1, <2>1, <2>6, HeldStill DEF caches
    <2> QED BY <1>1, <2>1, <2>5, <2>6, <2>7, LStill
  <1>6. CASE BeginLoad \/ EndLoad
    <2>1. /\ UNCHANGED <<disk, modules, caches, stack>> /\ pc[Script] \in {"loaded", "extending"}
          /\ \E s \in {"loaded", "extending"} : pc' = [pc EXCEPT ![Script] = s]
          /\ \/ wanted' = wanted
             \/ \E p \in Plugins : wanted' = [wanted EXCEPT ![Script] = Want(p, <<>>, <<>>)]
      BY <1>6 DEF BeginLoad, EndLoad, Goto
    <2>2. <<>> \notin Files
      BY ProgramsAssumption DEF LInv, PInv, IInv, Shapes, Files
    <2>3. \A p : Placed(Want(p, <<>>, <<>>))
      BY <1>3, <2>2 DEF Placed, Located, Want
    <2>4. PICK s, x : /\ s \in {"loaded", "extending"} /\ Placed(x)
                      /\ pc' = [pc EXCEPT ![Script] = s] /\ wanted' = [wanted EXCEPT ![Script] = x]
      <3>1. PICK s \in {"loaded", "extending"} : pc' = [pc EXCEPT ![Script] = s]
        BY <2>1
      <3>2. \E x : wanted' = [wanted EXCEPT ![Script] = x] /\ Placed(x)
        <4>1. CASE wanted' = wanted
          <5>1. wanted' = [wanted EXCEPT ![Script] = wanted[Script]] /\ Placed(wanted[Script])
            BY <1>1, <1>2, <4>1
          <5> QED BY <5>1
        <4>2. CASE \E p \in Plugins : wanted' = [wanted EXCEPT ![Script] = Want(p, <<>>, <<>>)]
          BY <2>3, <4>2
        <4> QED BY <2>1, <4>1, <4>2
      <3> QED BY <3>1, <3>2
    <2>5. \A u \in Threads : Held(u)'
      BY <1>1, <2>1, <2>4, HeldStill DEF caches
    <2> QED BY <1>1, <2>1, <2>4, <2>5, LStill DEF Ready
  <1> QED BY <1>4, <1>5, <1>6

\* The steps of a thread that go nowhere in its recursion.
LEMMA LStep ==
  ASSUME LInv, PInv', NEW t \in Threads,
         Transpile(t) \/ FailToCompile(t) \/ Overflow(t) \/ Finish(t) \/ FailToCreate(t) \/ GiveUp(t)
  PROVE  LInv'
  <1>1. UNCHANGED <<disk, modules, stack, wanted, caches>>
    BY DEF Transpile, FailToCompile, Overflow, Finish, FailToCreate, GiveUp
  <1>2. /\ pc[t] \notin {"compiled", "loaded"}
        /\ \E s \in Steps \ {"begin", "wanted", "creating"} : pc' = [pc EXCEPT ![t] = s] /\ (s = "compiling" => pc[t] = "wanted" /\ Located(wanted[t]))
    BY DEF Transpile, Stored, FailToCompile, Overflow, Finish, FailToCreate, GiveUp, Goto, Steps
  <1>3. PICK s \in Steps \ {"begin", "wanted", "creating"} :
          pc' = [pc EXCEPT ![t] = s] /\ (s = "compiling" => pc[t] = "wanted" /\ Located(wanted[t]))
    BY <1>2
  <1>4. wanted' = [wanted EXCEPT ![t] = wanted[t]] /\ Placed(wanted[t])
    BY <1>1 DEF LInv, PInv, IInv, Shapes, Shape, AllPlaced
  <1>5. Ready(s, wanted[t]) /\ stack[t] # <<>> => AskedFor(Top(t), wanted[t])
    <2> SUFFICES ASSUME Ready(pc[t], wanted[t]), stack[t] # <<>> PROVE AskedFor(Top(t), wanted[t])
      BY <1>3 DEF Ready
    <2>1. Len(stack[t]) \in 1 .. Len(stack[t]) /\ Top(t) = stack[t][Len(stack[t])]
      BY StackFacts DEF LInv
    <2> QED BY <2>1 DEF LInv, Chained
  <1>6. \A u \in Threads : Held(u)'
    BY <1>1, <1>2, <1>3, HeldStill DEF caches
  <1> QED BY <1>1, <1>2, <1>3, <1>4, <1>5, <1>6, LStill

\* A plugin's entries are not those of a module that asks: it has the text of a file.
LEMMA LForget ==
  ASSUME LInv, PInv', NEW t \in Threads, Forget(t)
  PROVE  LInv'
  <1>1. AsksFor(t, "plugin")
    BY DEF Forget
  <1>2. PICK m, r : m = Top(t) /\ r = Current(t)
    OBVIOUS
  <1>3. /\ m \in 1 .. Len(modules) /\ Asking(m) /\ r = RequestsOf(m)[Len(modules[m].links) + 1]
        /\ r.kind = "plugin" /\ r.tail \in Plugins /\ pc[t] = "linking" /\ stack[t] # <<>>
        /\ modules[m].file \in Files
    BY <1>1, <1>2, Asked DEF LInv, Requestable
  <1> DEFINE w == Want(r.tail, <<>>, <<>>)
  <1>4. /\ UNCHANGED <<disk, modules, stack>> /\ pc' = [pc EXCEPT ![t] = "creating"]
        /\ wanted' = [wanted EXCEPT ![t] = w]
        /\ \/ UNCHANGED caches
           \/ \E h \in Hashes : /\ by_hash_id_cache[h] # NoModule
                                /\ modules[by_hash_id_cache[h]].specifier = r.tail
                                /\ by_hash_id_cache' = [by_hash_id_cache EXCEPT ![h] = NoModule]
    BY <1>2 DEF Forget, Goto
  <1>5. <<>> \notin Files /\ <<>> \in Seq(STRING)
    BY ProgramsAssumption, EmptySeq DEF LInv, PInv, IInv, Shapes, Files
  <1>6. Placed(w)
    BY <1>5 DEF Placed, Located, Want
  <1>7. AskedFor(m, w)
    BY <1>3 DEF AskedFor, Answers, Want
  <1>8. ASSUME NEW u \in Threads PROVE Held(u)'
    <2>1. CASE UNCHANGED caches
      BY <1>3, <1>4, <2>1, HeldStill DEF caches
    <2>2. CASE \E h \in Hashes : /\ by_hash_id_cache[h] # NoModule
                                 /\ modules[by_hash_id_cache[h]].specifier = r.tail
                                 /\ by_hash_id_cache' = [by_hash_id_cache EXCEPT ![h] = NoModule]
      <3> SUFFICES ASSUME Active(u)', NEW i \in 1 .. Len(stack[u]), pc'[u] # "compiled" \/ i < Len(stack[u])
                   PROVE  Returned(stack[u][i])' = stack[u][i]
        BY <1>4 DEF Held
      <3>1. pc \in [Threads -> Steps]
        BY DEF LInv, PInv, IInv, Inv
      <3>2. Active(u) /\ (pc[u] # "compiled" \/ i < Len(stack[u]))
        BY <1>3, <1>4, <3>1 DEF Active
      <3>3. PICK n : n = stack[u][i]
        OBVIOUS
      <3>4. Returned(n) = n /\ n \in 1 .. Len(modules)
        BY <3>2, <3>3, StackFacts DEF LInv, Held
      <3>5. modules[n].file \in Files
        <4>1. CASE i < Len(stack[u])
          <5>1. Asking(n)
            BY <3>3, <4>1 DEF LInv, Chained, AskedFor
          <5> QED BY <3>4, <5>1, ModuleFacts DEF LInv
        <4>2. CASE ~(i < Len(stack[u])) /\ u = t
          <5>1. i = Len(stack[t])
            BY <4>2, StackFacts DEF LInv
          <5>2. n = m
            BY <1>2, <1>3, <3>3, <4>2, <5>1, StackFacts DEF LInv
          <5> QED BY <1>3, <5>2
        <4>3. CASE u # t
          <5>1. t = Script => pc[Server] = "loaded"
            BY <1>3 DEF LInv, PInv, IInv, Inv
          <5>2. u = Script /\ t = Server
            BY <3>2, <4>3, <5>1 DEF Threads, Active
          <5>3. ModulesOf(Script) = {}
            BY <1>3, <5>2 DEF LInv, OwnHashes
          <5>4. modules[n].isolate = u
            BY <3>3 DEF LInv, Stacked
          <5> QED BY <3>4, <5>2, <5>3, <5>4 DEF ModulesOf
        <4> QED BY <4>1, <4>2, <4>3
      <3>6. modules[n].specifier \notin Plugins
        BY <3>4, <3>5 DEF LInv, AllPlaced, Placed
      <3>7. by_hash_id_cache'[modules[n].hash] = by_hash_id_cache[modules[n].hash]
        <4>1. PICK h \in Hashes : /\ modules[by_hash_id_cache[h]].specifier = r.tail
                                  /\ by_hash_id_cache' = [by_hash_id_cache EXCEPT ![h] = NoModule]
          BY <2>2
        <4>2. h # modules[n].hash
          BY <1>3, <3>4, <3>6, <4>1 DEF Returned
        <4>3. DOMAIN by_hash_id_cache = Hashes
          BY DEF LInv, PInv, Numbers
        <4> QED BY <4>1, <4>2, <4>3, <3>4, ModuleFacts DEF LInv
      <3> QED BY <1>4, <3>3, <3>4, <3>7 DEF Returned
    <2> QED BY <1>4, <2>1, <2>2
  <1> QED BY <1>2, <1>3, <1>4, <1>6, <1>7, <1>8, LStill

\* The script's thread has no stack while the server's is active.
LEMMA OneActive ==
  ASSUME LInv, NEW t \in Threads, pc[t] \in {"compiled", "linking", "compiling", "creating"}, NEW u \in Threads,
         Active(u), u # t
  PROVE  Len(stack[u]) = 0 /\ pc[u] \in {"begin", "wanted", "failed"}
  <1>1. t = Script => pc[Server] = "loaded"
    BY DEF LInv, PInv, IInv, Inv
  <1>2. u = Script /\ t = Server /\ pc[Server] # "loaded"
    BY <1>1 DEF Threads, Active
  <1>3. ModulesOf(Script) = {} /\ pc[u] \in {"begin", "wanted", "failed"}
    BY <1>2 DEF LInv, OwnHashes, PInv, IInv, Inv
  <1>4. ASSUME Len(stack[u]) # 0 PROVE FALSE
    <2>1. 1 \in 1 .. Len(stack[u])
      BY <1>4, StackFacts DEF LInv
    <2>2. stack[u][1] \in 1 .. Len(modules) /\ modules[stack[u][1]].isolate = u
      BY <2>1, StackFacts DEF LInv, Stacked
    <2> QED BY <1>2, <1>3, <2>2 DEF ModulesOf
  <1> QED BY <1>3, <1>4

\* cache_import_specifier() overwrites the entry of no other module of the stack.
LEMMA LCache ==
  ASSUME LInv, PInv', NEW t \in Threads, Cache(t)
  PROVE  LInv'
  <1>1. PICK m : m = Top(t)
    OBVIOUS
  <1>2. /\ pc[t] = "compiled" /\ UNCHANGED <<disk, modules, stack, wanted>>
        /\ by_hash_id_cache' = [by_hash_id_cache EXCEPT ![modules[m].hash] = m]
        /\ pc' = [pc EXCEPT ![t] = "linking"]
    BY <1>1 DEF Cache, CacheSpecifier, Goto
  <1>3. pc \in [Threads -> Steps] /\ by_hash_id_cache \in [Hashes -> 0 .. Len(modules)]
    BY DEF LInv, PInv, IInv, Inv, Numbers
  <1>4. stack[t] # <<>>
    BY <1>2 DEF LInv, PInv, Numbers
  <1>5. /\ m \in 1 .. Len(modules) /\ m = stack[t][Len(stack[t])] /\ Len(stack[t]) \in 1 .. Len(stack[t])
        /\ modules[m].hash \in Hashes
    BY <1>1, <1>4, StackFacts, ModuleFacts DEF LInv
  <1>6. ASSUME NEW u \in Threads PROVE Held(u)'
    <2> SUFFICES ASSUME Active(u)', NEW i \in 1 .. Len(stack[u])
                 PROVE  Returned(stack[u][i])' = stack[u][i]
      BY <1>2 DEF Held
    <2>1. Active(u)
      BY <1>2, <1>3 DEF Active
    <2>2. u = t
      BY <1>2, <2>1, OneActive
    <2>3. PICK n : n = stack[u][i]
      OBVIOUS
    <2>4. n \in 1 .. Len(modules) /\ modules[n].hash \in Hashes
      BY <2>3, StackFacts, ModuleFacts DEF LInv
    <2>5. CASE i = Len(stack[u])
      BY <1>2, <1>3, <1>5, <2>2, <2>3, <2>5 DEF Returned
    <2>6. CASE i # Len(stack[u])
      <3>1. i < Len(stack[u])
        BY <2>6, StackFacts DEF LInv
      <3>2. Returned(n) = n
        BY <2>1, <2>3, <3>1 DEF LInv, Held
      <3>3. n < m /\ modules[n].isolate = t /\ modules[m].isolate = t
        BY <1>5, <2>2, <2>3, <3>1 DEF LInv, Stacked
      <3>4. modules[n].hash # modules[m].hash
        BY <1>5, <2>4, <3>3 DEF LInv, OwnHashes
      <3> QED BY <1>2, <1>3, <2>3, <2>4, <3>2, <3>4 DEF Returned
    <2> QED BY <2>5, <2>6
  <1>7. wanted' = [wanted EXCEPT ![t] = wanted[t]] /\ Placed(wanted[t])
    BY <1>2 DEF LInv, PInv, IInv, Shapes, Shape, AllPlaced
  <1> QED BY <1>2, <1>6, <1>7, LStill DEF Ready

\* A new module answers the request of the one below it, and has a hash of its own.
LEMMA LMake ==
  ASSUME LInv, PInv', NEW t \in Threads, Make(t), pc[t] \in {"compiling", "creating"}, UNCHANGED <<by_hash_id_cache, by_specifier_cache>>
  PROVE  LInv'
  <1>1. PICK h \in FreshHashes(t) : modules' = Append(modules, Module(t, wanted[t], h))
    BY DEF Make
  <1>2. PICK k, x : k = Len(modules) + 1 /\ x = Module(t, wanted[t], h)
    OBVIOUS
  <1>3. /\ stack' = [stack EXCEPT ![t] = Append(@, k)]
        /\ pc' = [pc EXCEPT ![t] = "compiled"]
        /\ UNCHANGED <<disk, wanted>>
    BY <1>2 DEF Make, Goto
  <1>4. PICK P : Shape(P)
    BY DEF LInv, PInv, IInv, Shapes
  <1>5. /\ Len(modules) \in Nat /\ Len(modules') = k /\ k \in Nat /\ k # 0
        /\ \A m \in 1 .. Len(modules) : modules'[m] = modules[m]
        /\ modules'[k] = x
    BY <1>1, <1>2, <1>4 DEF Shape
  <1>6. \A m \in 1 .. k : m \in 1 .. Len(modules) \/ m = k
    BY <1>2, <1>5
  <1>7. /\ x.isolate = t /\ x.hash = h /\ x.links = <<>> /\ x.file = wanted[t].file /\ x.path = wanted[t].path
        /\ x.specifier = wanted[t].specifier
    BY <1>2 DEF Module
  <1>8. pc \in [Threads -> Steps] /\ stack \in [Threads -> Seq(Nat)]
    BY DEF LInv, PInv, IInv, Inv, Shapes
  <1>9. Server \in Threads /\ Script \in Threads
    BY DEF Threads
  <1>10. OwnHashes'
    <2>1. \A m \in 1 .. Len(modules) : modules[m].isolate = t => modules[m].hash # h
      BY <1>1 DEF FreshHashes, ModulesOf
    <2>2. ASSUME NEW m \in 1 .. k, NEW n \in 1 .. k, modules'[m].isolate = modules'[n].isolate,
                 modules'[m].hash = modules'[n].hash
          PROVE  m = n
      <3>1. CASE m = k \/ n = k
        BY <1>5, <1>6, <1>7, <2>1, <2>2, <3>1
      <3>2. CASE m \in 1 .. Len(modules) /\ n \in 1 .. Len(modules)
        BY <1>5, <2>2, <3>2 DEF LInv, OwnHashes
      <3> QED BY <1>6, <3>1, <3>2
    <2>3. ASSUME pc'[Server] # "loaded" PROVE ModulesOf(Script)' = {}
      <3>1. pc[Server] # "loaded"
        BY <1>3, <1>8, <1>9, <2>3
      <3>2. t # Script
        BY <3>1 DEF LInv, PInv, IInv, Inv
      <3>3. ModulesOf(Script) = {}
        BY <3>1 DEF LInv, OwnHashes
      <3> QED BY <1>5, <1>6, <1>7, <3>2, <3>3 DEF ModulesOf
    <2> QED BY <1>5, <2>2, <2>3 DEF OwnHashes
  <1>11. ASSUME NEW m \in 1 .. Len(modules), NEW y, AskedFor(m, y) PROVE AskedFor(m, y)'
    <2>1. RequestsOf(m)' = RequestsOf(m) /\ Asking(m)' = Asking(m) /\ modules'[m] = modules[m]
      BY <1>3, <1>5 DEF Asking, RequestsOf, Files
    <2>2. PICK r : r = RequestsOf(m)[Len(modules[m].links) + 1]
      OBVIOUS
    <2>3. Answers(m, r, y) => Answers(m, r, y)'
      BY <1>3, <2>1, AnswersSame
    <2> QED BY <1>11, <2>1, <2>2, <2>3 DEF AskedFor
  <1>12. AllPlaced'
    <2>1. \A y : Placed(y) => Placed(y)'
      BY <1>3, PlacedSame
    <2>2. Placed(x)
      <3>1. Placed(wanted[t])
        BY DEF LInv, AllPlaced
      <3> QED BY <1>7, <3>1 DEF Placed, Located
    <2>3. \A m \in 1 .. k : Placed(modules[m])'
      BY <1>5, <1>6, <2>1, <2>2 DEF LInv, AllPlaced
    <2>4. \A u \in Threads : Placed(wanted[u])'
      BY <1>3, <2>1 DEF LInv, AllPlaced
    <2> QED BY <1>5, <2>3, <2>4 DEF AllPlaced
  <1>13. LinkedAsRequested'
    <2> SUFFICES ASSUME NEW m \in 1 .. k, NEW i \in 1 .. Len(modules'[m].links)
                 PROVE  /\ modules'[m].links[i] # NoModule
                        /\ modules'[modules'[m].links[i]].isolate = modules'[m].isolate
                        /\ Answers(m, RequestsOf(m)[i], modules[modules[m].links[i]])'
      BY <1>5 DEF LinkedAsRequested
    <2>1. m \in 1 .. Len(modules) /\ modules'[m] = modules[m]
      <3>1. Len(<<>>) = 0
        OBVIOUS
      <3> QED BY <1>5, <1>6, <1>7, <3>1
    <2>2. PICK n, y, r : n = modules[m].links[i] /\ y = modules[n] /\ r = RequestsOf(m)[i]
      OBVIOUS
    <2>3. n # NoModule /\ y.isolate = modules[m].isolate /\ Answers(m, r, y)
      BY <2>1, <2>2 DEF LInv, LinkedAsRequested
    <2>4. n \in 1 .. Len(modules)
      <3>1. Len(modules[m].links) \in Nat
        BY <2>1, ModuleFacts DEF LInv
      <3>2. modules[m] \in ModuleShape(P)
        BY <1>4, <2>1 DEF Shape
      <3>3. modules[m].links \in Seq(P)
        BY <3>2 DEF ModuleShape
      <3>4. n \in ToSet(modules[m].links)
        BY <2>1, <2>2, <3>3 DEF ToSet
      <3>5. n \in 0 .. Len(modules)
        BY <2>1, <3>4 DEF LInv, PInv, Numbers
      <3> QED BY <1>5, <2>3, <3>5 DEF NoModule
    <2>5. modules'[n] = y
      BY <1>5, <2>2, <2>4
    <2>6. Answers(m, r, y)'
      BY <1>3, <2>1, <2>3, AnswersSame
    <2>7. RequestsOf(m)' = RequestsOf(m)
      BY <1>3, <2>1 DEF RequestsOf, Files
    <2> QED BY <2>1, <2>2, <2>3, <2>5, <2>6, <2>7
  <1>14. ASSUME NEW u \in Threads, u # t PROVE Stacked(u)' /\ Held(u)' /\ Chained(u)'
    <2>1. stack'[u] = stack[u] /\ pc'[u] = pc[u] /\ wanted'[u] = wanted[u]
      BY <1>3, <1>8, <1>14
    <2>2. \A i \in 1 .. Len(stack[u]) : /\ stack[u][i] \in 1 .. Len(modules)
                                       /\ modules'[stack[u][i]] = modules[stack[u][i]]
      BY <1>5, StackFacts DEF LInv
    <2>3. Stacked(u)'
      BY <2>1, <2>2 DEF LInv, Stacked
    <2>4. Held(u)'
      <3>1. Active(u)' => Active(u)
        BY <1>3, <1>8 DEF Active
      <3>2. Active(u) => Len(stack[u]) = 0
        BY <1>14, OneActive
      <3> QED BY <2>1, <3>1, <3>2 DEF Held
    <2>5. \A i \in 1 .. Len(stack[u]) : i < Len(stack[u]) => AskedFor(stack[u][i], modules[stack[u][i + 1]])'
      <3> SUFFICES ASSUME NEW i \in 1 .. Len(stack[u]), i < Len(stack[u])
                   PROVE  AskedFor(stack[u][i], modules[stack[u][i + 1]])'
        OBVIOUS
      <3>1. PICK m, n : m = stack[u][i] /\ n = stack[u][i + 1]
        OBVIOUS
      <3>2. i + 1 \in 1 .. Len(stack[u])
        BY StackFacts DEF LInv
      <3>3. m \in 1 .. Len(modules) /\ modules'[n] = modules[n] /\ AskedFor(m, modules[n])
        BY <2>2, <3>1, <3>2 DEF LInv, Chained
      <3>4. AskedFor(m, modules[n])'
        BY <1>11, <3>3
      <3> QED BY <2>1, <3>1, <3>4
    <2>6. Ready(pc[u], wanted[u]) =>
            \A i \in 1 .. Len(stack[u]) : i = Len(stack[u]) => AskedFor(stack[u][i], wanted[u])'
      BY <1>11, <2>1, <2>2 DEF LInv, Chained
    <2> QED BY <2>1, <2>3, <2>4, <2>5, <2>6 DEF Chained
  <1>15. PICK l : l = Len(stack[t])
    OBVIOUS
  <1>16. /\ l \in Nat /\ Len(stack'[t]) = l + 1 /\ stack'[t][l + 1] = k
         /\ \A i \in 1 .. l : stack'[t][i] = stack[t][i]
         /\ \A i \in 1 .. l + 1 : i \in 1 .. l \/ i = l + 1
    BY <1>3, <1>5, <1>8, <1>15
  <1>17. \A i \in 1 .. l : stack[t][i] \in 1 .. Len(modules)
    BY <1>15, StackFacts DEF LInv
  <1>18. pc'[t] = "compiled"
    BY <1>3, <1>8
  <1>19. Stacked(t)'
    <2>1. \A i \in 1 .. l + 1 : modules'[stack'[t][i]].isolate = t
      <3>1. modules'[stack'[t][l + 1]].isolate = t
        BY <1>5, <1>7, <1>16
      <3>2. ASSUME NEW i \in 1 .. l PROVE modules'[stack'[t][i]].isolate = t
        <4>1. modules[stack[t][i]].isolate = t
          BY <1>15 DEF LInv, Stacked
        <4>2. modules'[stack[t][i]] = modules[stack[t][i]]
          BY <1>5, <1>17
        <4> QED BY <1>16, <4>1, <4>2
      <3> QED BY <1>16, <3>1, <3>2
    <2>2. ASSUME NEW i \in 1 .. l + 1, NEW j \in 1 .. l + 1, i < j PROVE stack'[t][i] < stack'[t][j]
      <3>1. i \in 1 .. l
        BY <1>16, <2>2
      <3>2. CASE j = l + 1
        BY <1>2, <1>5, <1>16, <1>17, <3>1, <3>2
      <3>3. CASE j \in 1 .. l
        BY <1>15, <1>16, <2>2, <3>1, <3>3 DEF LInv, Stacked
      <3> QED BY <1>16, <3>2, <3>3
    <2> QED BY <1>16, <1>18, <2>1, <2>2 DEF Stacked
  <1>20. Held(t)'
    <2> SUFFICES ASSUME Active(t)', NEW i \in 1 .. l + 1, i < l + 1 PROVE Returned(stack[t][i])' = stack'[t][i]
      BY <1>16, <1>18 DEF Held
    <2>1. Active(t) /\ i \in 1 .. l
      BY <1>16 DEF Active
    <2>2. PICK n : n = stack[t][i]
      OBVIOUS
    <2>3. Returned(n) = n /\ n \in 1 .. Len(modules)
      BY <1>15, <1>17, <2>1, <2>2 DEF LInv, Held
    <2> QED BY <1>5, <1>16, <2>1, <2>2, <2>3 DEF Returned
  <1>21. Chained(t)'
    <2> SUFFICES ASSUME NEW i \in 1 .. l + 1, i < l + 1
                 PROVE  AskedFor(stack[t][i], modules[stack[t][i + 1]])'
      BY <1>16, <1>18 DEF Chained, Ready
    <2>1. i \in 1 .. l
      BY <1>16
    <2>2. PICK m : m = stack[t][i]
      OBVIOUS
    <2>3. m \in 1 .. Len(modules) /\ stack'[t][i] = m
      BY <1>16, <1>17, <2>1, <2>2
    <2>4. CASE i = l
      <3>1. AskedFor(m, wanted[t])
        BY <1>15, <2>1, <2>2, <2>4 DEF LInv, Chained, Ready
      <3>2. Asking(m) /\ Answers(m, RequestsOf(m)[Len(modules[m].links) + 1], wanted[t])
        BY <3>1 DEF AskedFor
      <3>3. AskedFor(m, x)
        BY <1>7, <3>2 DEF AskedFor, Answers, Located
      <3>4. AskedFor(m, x)'
        BY <1>11, <2>3, <3>3
      <3>5. modules'[stack'[t][i + 1]] = x
        BY <1>5, <1>16, <2>4
      <3> QED BY <2>3, <3>4, <3>5
    <2>5. CASE i # l
      <3>1. PICK n : n = stack[t][i + 1]
        OBVIOUS
      <3>2. i < l /\ i + 1 \in 1 .. l
        BY <1>16, <2>1, <2>5
      <3>3. AskedFor(m, modules[n]) /\ modules'[n] = modules[n] /\ stack'[t][i + 1] = n
        BY <1>5, <1>15, <1>16, <1>17, <2>1, <2>2, <3>1, <3>2 DEF LInv, Chained
      <3>4. AskedFor(m, modules[n])'
        BY <1>11, <2>3, <3>3
      <3> QED BY <2>3, <3>3, <3>4
    <2> QED BY <2>4, <2>5
  <1> QED BY <1>10, <1>12, <1>13, <1>14, <1>19, <1>20, <1>21 DEF LInv

\* The stack that is left when its top is taken off.
LEMMA FrontFacts ==
  ASSUME NEW s \in Seq(Nat), s # <<>>
  PROVE  /\ Front(s) \in Seq(Nat) /\ Len(s) \in Nat \ {0} /\ Len(Front(s)) = Len(s) - 1
         /\ \A i \in 1 .. Len(s) - 1 : Front(s)[i] = s[i]
  <1>1. Len(s) \in Nat \ {0} /\ DOMAIN s = 1 .. Len(s)
    OBVIOUS
  <1> QED BY <1>1 DEF Front

\* The module on top answers the request of the one below it, which has not been answered before.
LEMMA LReturn ==
  ASSUME LInv, PInv', NEW t \in Threads, Return(t)
  PROVE  LInv'
  <1>1. PICK l : l = Len(stack[t])
    OBVIOUS
  <1>2. PICK r, n : r = Last(Front(stack[t])) /\ n = Returned(Top(t))
    OBVIOUS
  <1>3. /\ pc[t] = "linking" /\ l > 1
        /\ stack' = [stack EXCEPT ![t] = Front(@)]
        /\ modules' = [modules EXCEPT ![r].links = Append(@, n)]
        /\ UNCHANGED <<disk, wanted, pc, caches>>
    BY <1>1, <1>2 DEF Return, Link
  <1>4. pc \in [Threads -> Steps] /\ stack \in [Threads -> Seq(Nat)]
    BY DEF LInv, PInv, IInv, Inv, Shapes
  <1>5. /\ l \in Nat /\ stack'[t] \in Seq(Nat) /\ Len(stack'[t]) = l - 1
        /\ \A i \in 1 .. l - 1 : stack'[t][i] = stack[t][i]
    <2>1. stack[t] # <<>> /\ stack[t] \in Seq(Nat) /\ stack'[t] = Front(stack[t])
      BY <1>1, <1>3, <1>4
    <2> QED BY <1>1, <2>1, FrontFacts
  <1>6. Top(t) = stack[t][l] /\ \A i \in 1 .. l : stack[t][i] \in 1 .. Len(modules)
    <2>1. stack[t] # <<>>
      BY <1>1, <1>3, <1>4
    <2> QED BY <1>1, <2>1, StackFacts DEF LInv
  <1>7. n = stack[t][l] /\ n \in 1 .. Len(modules)
    <2>1. Active(t) /\ l \in 1 .. l
      BY <1>3, <1>5 DEF Active
    <2>2. Returned(stack[t][l]) = stack[t][l]
      BY <1>1, <1>3, <2>1 DEF LInv, Held
    <2> QED BY <1>2, <1>6, <2>1, <2>2
  <1>8. r = stack[t][l - 1] /\ r \in 1 .. Len(modules) /\ l - 1 \in 1 .. l - 1 /\ l - 1 \in 1 .. l
    <2>1. stack'[t] = Front(stack[t])
      BY <1>3, <1>4
    <2>2. l - 1 \in 1 .. l - 1 /\ l - 1 \in 1 .. l
      BY <1>3, <1>5
    <2>3. r = stack'[t][l - 1]
      BY <1>2, <1>5, <2>1 DEF Last
    <2> QED BY <1>5, <1>6, <2>2, <2>3
  <1>9. AskedFor(r, modules[n])
    <2>1. PICK i : i = l - 1
      OBVIOUS
    <2>2. i \in 1 .. l /\ i < l /\ i + 1 = l /\ r = stack[t][i]
      BY <1>3, <1>5, <1>8, <2>1
    <2> QED BY <1>1, <1>7, <2>2 DEF LInv, Chained
  <1>10. PICK P : Shape(P)
    BY DEF LInv, PInv, IInv, Shapes
  <1>11. /\ Len(modules) \in Nat /\ DOMAIN modules = 1 .. Len(modules)
         /\ \A m \in 1 .. Len(modules) : modules[m] \in ModuleShape(P)
    BY <1>10 DEF Shape
  <1>12. /\ DOMAIN modules' = 1 .. Len(modules)
         /\ \A m \in 1 .. Len(modules) :
              modules'[m] = IF m = r THEN [modules[m] EXCEPT !.links = Append(@, n)] ELSE modules[m]
    BY <1>3, <1>11
  <1>13. Len(modules') = Len(modules)
    BY <1>11, <1>12
  <1>14. \A m \in 1 .. Len(modules) :
           /\ modules'[m].file = modules[m].file /\ modules'[m].specifier = modules[m].specifier
           /\ modules'[m].path = modules[m].path /\ modules'[m].isolate = modules[m].isolate
           /\ modules'[m].hash = modules[m].hash
           /\ m # r => modules'[m].links = modules[m].links
           /\ modules[m].links \in Seq(P)
    BY <1>11, <1>12 DEF ModuleShape
  <1>15. modules'[r].links = Append(modules[r].links, n)
    <2>1. modules[r] \in ModuleShape(P)
      BY <1>8, <1>11
    <2>2. modules'[r] = [modules[r] EXCEPT !.links = Append(@, n)]
      BY <1>8, <1>12
    <2> QED BY <2>1, <2>2 DEF ModuleShape
  <1>16. PICK last : last = Len(modules[r].links) + 1
    OBVIOUS
  <1>17. /\ last \in Nat /\ Len(modules'[r].links) = last /\ modules'[r].links[last] = n
         /\ \A i \in 1 .. last - 1 : modules'[r].links[i] = modules[r].links[i]
    <2>1. modules[r].links \in Seq(P \cup {n})
      BY <1>8, <1>14, SeqMonotonic
    <2>2. PICK s : s = modules[r].links
      OBVIOUS
    <2>3. s \in Seq(P \cup {n}) /\ n \in P \cup {n}
      BY <2>1, <2>2
    <2>4. /\ Len(s) \in Nat /\ Len(Append(s, n)) = Len(s) + 1 /\ Append(s, n)[Len(s) + 1] = n
          /\ \A i \in 1 .. Len(s) : Append(s, n)[i] = s[i]
      BY <2>3, AppendProperties, LenProperties
    <2> QED BY <1>15, <1>16, <2>2, <2>4
  <1>18. \A m \in 1 .. Len(modules) : RequestsOf(m)' = RequestsOf(m)
    BY <1>3, <1>14 DEF RequestsOf, Files
  <1>19. ASSUME NEW m \in 1 .. Len(modules), NEW q, NEW x, NEW y,
                y.specifier = x.specifier, y.path = x.path, y.file = x.file,
                Answers(m, q, x)
         PROVE  Answers(m, q, y)'
    BY <1>3, <1>14, <1>19, AnswersSame
  <1>20. ASSUME NEW m \in 1 .. Len(modules), m # r, NEW x, NEW y,
                y.specifier = x.specifier, y.path = x.path, y.file = x.file,
                AskedFor(m, x)
         PROVE  AskedFor(m, y)'
    <2>1. modules'[m].links = modules[m].links /\ RequestsOf(m)' = RequestsOf(m)
      BY <1>14, <1>18, <1>20
    <2>2. PICK q : q = RequestsOf(m)[Len(modules[m].links) + 1]
      OBVIOUS
    <2>3. Asking(m) /\ Answers(m, q, x)
      BY <1>20, <2>2 DEF AskedFor
    <2>4. Answers(m, q, y)'
      BY <1>19, <1>20, <2>3
    <2>5. Asking(m)'
      BY <2>1, <2>3 DEF Asking
    <2> QED BY <2>1, <2>2, <2>4, <2>5 DEF AskedFor
  <1>21. OwnHashes'
    <2>1. ModulesOf(Script)' = ModulesOf(Script)
      BY <1>13, <1>14 DEF ModulesOf
    <2>2. \A m \in 1 .. Len(modules'), k \in 1 .. Len(modules') :
            modules'[m].isolate = modules'[k].isolate /\ modules'[m].hash = modules'[k].hash => m = k
      BY <1>13, <1>14 DEF LInv, OwnHashes
    <2> QED BY <1>3, <2>1, <2>2 DEF LInv, OwnHashes
  <1>22. AllPlaced'
    <2>1. \A x : Placed(x) => Placed(x)'
      BY <1>3, PlacedSame
    <2>2. ASSUME NEW m \in 1 .. Len(modules) PROVE Placed(modules'[m])
      <3>1. Placed(modules[m])
        BY DEF LInv, AllPlaced
      <3> QED BY <1>14, <3>1 DEF Placed, Located
    <2>3. \A m \in 1 .. Len(modules) : Placed(modules[m])'
      BY <2>1, <2>2
    <2>4. \A u \in Threads : Placed(wanted[u])'
      BY <1>3, <2>1 DEF LInv, AllPlaced
    <2> QED BY <1>13, <2>3, <2>4 DEF AllPlaced
  <1>23. LinkedAsRequested'
    <2> SUFFICES ASSUME NEW m \in 1 .. Len(modules), NEW i \in 1 .. Len(modules'[m].links)
                 PROVE  /\ modules'[m].links[i] # NoModule
                        /\ modules'[modules'[m].links[i]].isolate = modules'[m].isolate
                        /\ Answers(m, RequestsOf(m)[i], modules[modules[m].links[i]])'
      BY <1>13 DEF LinkedAsRequested
    <2>1. PICK q : q = RequestsOf(m)[i]
      OBVIOUS
    <2>2. CASE m = r /\ i = last
      <3>1. modules[n].isolate = t /\ modules[r].isolate = t
        <4>1. l \in 1 .. Len(stack[t]) /\ l - 1 \in 1 .. Len(stack[t])
          BY <1>1, <1>3, <1>5
        <4>2. \A j \in 1 .. Len(stack[t]) : modules[stack[t][j]].isolate = t
          BY DEF LInv, Stacked
        <4> QED BY <1>7, <1>8, <4>1, <4>2
      <3>2. Answers(m, q, modules[n])
        BY <1>9, <1>16, <2>1, <2>2 DEF AskedFor
      <3>3. PICK y : y = modules'[n]
        OBVIOUS
      <3>4. Answers(m, q, y)'
        BY <1>7, <1>14, <1>19, <3>2, <3>3
      <3>5. modules'[m].links[i] = n /\ n # NoModule
        BY <1>7, <1>17, <2>2 DEF NoModule
      <3> QED BY <1>7, <1>14, <1>18, <2>1, <2>2, <3>1, <3>3, <3>4, <3>5
    <2>3. CASE ~(m = r /\ i = last)
      <3>1. PICK k : k = modules[m].links[i]
        OBVIOUS
      <3>2. i \in 1 .. Len(modules[m].links) /\ modules'[m].links[i] = k
        BY <1>14, <1>16, <1>17, <2>3, <3>1
      <3>3. k # NoModule /\ modules[k].isolate = modules[m].isolate /\ Answers(m, q, modules[k])
        BY <2>1, <3>1, <3>2 DEF LInv, LinkedAsRequested
      <3>4. k \in 1 .. Len(modules)
        <4>1. k \in ToSet(modules[m].links)
          BY <1>14, <3>1, <3>2 DEF ToSet
        <4>2. k \in 0 .. Len(modules)
          BY <4>1 DEF LInv, PInv, Numbers
        <4> QED BY <1>11, <3>3, <4>2 DEF NoModule
      <3>5. PICK y : y = modules'[k]
        OBVIOUS
      <3>6. Answers(m, q, y)'
        BY <1>14, <1>19, <3>3, <3>4, <3>5
      <3> QED BY <1>14, <1>18, <2>1, <3>2, <3>3, <3>4, <3>5, <3>6
    <2> QED BY <2>2, <2>3
  <1>24. ASSUME NEW u \in Threads, NEW i \in 1 .. Len(stack'[u])
         PROVE  /\ stack'[u][i] = stack[u][i] /\ i \in 1 .. Len(stack[u]) /\ stack[u][i] \in 1 .. Len(modules)
                /\ i < Len(stack'[u]) => i < Len(stack[u]) /\ i + 1 \in 1 .. Len(stack'[u])
                /\ u # t => stack'[u] = stack[u]
    <2>1. CASE u = t
      <3>1. i \in 1 .. l - 1 /\ Len(stack'[u]) = l - 1 /\ Len(stack[u]) = l
        BY <1>1, <1>5, <2>1
      <3>2. i \in 1 .. l /\ (i < l - 1 => i < l /\ i + 1 \in 1 .. l - 1)
        <4>1. l \in Nat /\ i \in Nat /\ 1 <= i /\ i <= l - 1
          BY <1>5, <3>1
        <4> QED BY <4>1
      <3>3. stack'[t][i] = stack[t][i] /\ stack[t][i] \in 1 .. Len(modules)
        BY <1>5, <1>6, <3>1, <3>2
      <3> QED BY <2>1, <3>1, <3>2, <3>3
    <2>2. CASE u # t
      <3>1. stack'[u] = stack[u]
        BY <1>3, <1>4, <2>2
      <3> QED BY <2>2, <3>1, StackFacts DEF LInv
    <2> QED BY <2>1, <2>2
  <1>25. ASSUME NEW u \in Threads, NEW i \in 1 .. Len(stack'[u]), i < Len(stack'[u]) \/ u # t PROVE stack[u][i] # r
    <2>1. CASE u = t
      <3>1. i < l - 1 /\ i \in 1 .. l
        BY <1>5, <1>25, <2>1
      <3>2. stack[t][i] < stack[t][l - 1]
        BY <1>1, <1>8, <3>1 DEF LInv, Stacked
      <3>3. stack[t][i] \in 1 .. Len(modules)
        BY <1>6, <3>1
      <3> QED BY <1>8, <2>1, <3>2, <3>3
    <2>2. CASE u # t
      <3>1. modules[stack[u][i]].isolate = u
        BY <1>24 DEF LInv, Stacked
      <3>2. modules[r].isolate = t
        BY <1>1, <1>8 DEF LInv, Stacked
      <3> QED BY <2>2, <3>1, <3>2
    <2> QED BY <2>1, <2>2
  <1>26. ASSUME NEW u \in Threads PROVE Stacked(u)' /\ Held(u)' /\ Chained(u)'
    <2>1. Stacked(u)'
      <3>1. \A i \in 1 .. Len(stack'[u]) : modules'[stack'[u][i]].isolate = u
        BY <1>14, <1>24 DEF LInv, Stacked
      <3>2. \A i \in 1 .. Len(stack'[u]), j \in 1 .. Len(stack'[u]) : i < j => stack'[u][i] < stack'[u][j]
        BY <1>24 DEF LInv, Stacked
      <3>3. pc'[u] = "begin" => stack'[u] = <<>>
        BY <1>3, <1>4 DEF LInv, Stacked
      <3> QED BY <3>1, <3>2, <3>3 DEF Stacked
    <2>2. Held(u)'
      <3> SUFFICES ASSUME Active(u), NEW i \in 1 .. Len(stack'[u]), pc[u] # "compiled" \/ i < Len(stack'[u])
                   PROVE  Returned(stack[u][i])' = stack'[u][i]
        BY <1>3 DEF Held, Active
      <3>1. Returned(stack[u][i]) = stack[u][i]
        BY <1>24 DEF LInv, Held
      <3>2. modules'[stack'[u][i]].hash = modules[stack[u][i]].hash
        BY <1>14, <1>24
      <3> QED BY <1>3, <1>24, <3>1, <3>2 DEF Returned, caches
    <2>3. ASSUME NEW i \in 1 .. Len(stack'[u]), i < Len(stack'[u])
          PROVE  AskedFor(stack[u][i], modules[stack[u][i + 1]])'
      <3>1. PICK m, k : m = stack[u][i] /\ k = stack[u][i + 1]
        OBVIOUS
      <3>2. m \in 1 .. Len(modules) /\ m # r /\ AskedFor(m, modules[k]) /\ stack'[u][i] = m
        BY <1>24, <1>25, <2>3, <3>1 DEF LInv, Chained
      <3>3. i + 1 \in 1 .. Len(stack'[u])
        BY <1>24, <2>3
      <3>4. k \in 1 .. Len(modules) /\ stack'[u][i + 1] = k
        BY <1>24, <3>1, <3>3
      <3>5. PICK y : y = modules'[k]
        OBVIOUS
      <3>6. AskedFor(m, y)'
        BY <1>14, <1>20, <3>2, <3>4, <3>5
      <3> QED BY <3>2, <3>4, <3>5, <3>6
    <2>4. ASSUME Ready(pc[u], wanted[u]), NEW i \in 1 .. Len(stack'[u]), i = Len(stack'[u])
          PROVE  AskedFor(stack[u][i], wanted[u])'
      <3>1. u # t
        BY <1>3, <2>4 DEF Ready
      <3>2. PICK m : m = stack[u][i]
        OBVIOUS
      <3>3. m \in 1 .. Len(modules) /\ m # r /\ AskedFor(m, wanted[u]) /\ stack'[u][i] = m
        BY <1>24, <1>25, <2>4, <3>1, <3>2 DEF LInv, Chained
      <3>4. PICK y : y = wanted[u]
        OBVIOUS
      <3>5. AskedFor(m, y)'
        BY <1>20, <3>3, <3>4
      <3> QED BY <1>3, <3>3, <3>4, <3>5
    <2> QED BY <1>3, <2>1, <2>2, <2>3, <2>4 DEF Chained
  <1> QED BY <1>21, <1>22, <1>23, <1>26 DEF LInv

\* The request of the module below is not answered.
LEMMA LUnwind ==
  ASSUME LInv, PInv', NEW t \in Threads, Unwind(t)
  PROVE  LInv'
  <1>1. /\ pc[t] = "failing" /\ stack[t] # <<>> /\ stack' = [stack EXCEPT ![t] = Front(@)]
        /\ UNCHANGED <<disk, modules, wanted, pc, caches>>
    BY DEF Unwind, caches
  <1>2. stack \in [Threads -> Seq(Nat)]
    BY DEF LInv, PInv, IInv, Shapes
  <1>3. \A u \in Threads : u # t => stack'[u] = stack[u]
    BY <1>1, <1>2
  <1>4. /\ Len(stack[t]) \in Nat \ {0} /\ Len(stack'[t]) = Len(stack[t]) - 1
        /\ \A i \in 1 .. Len(stack[t]) - 1 : stack'[t][i] = stack[t][i]
    BY <1>1, <1>2, FrontFacts
  <1>5. \A m, x : AskedFor(m, x) => AskedFor(m, x)'
    <2> SUFFICES ASSUME NEW m, NEW x, AskedFor(m, x) PROVE AskedFor(m, x)'
      OBVIOUS
    <2>1. Asking(m)' = Asking(m) /\ RequestsOf(m)' = RequestsOf(m)
      BY <1>1 DEF Asking, RequestsOf, Files
    <2>2. PICK r : r = RequestsOf(m)[Len(modules[m].links) + 1]
      OBVIOUS
    <2>3. Answers(m, r, x) => Answers(m, r, x)'
      BY <1>1, AnswersSame
    <2> QED BY <1>1, <2>1, <2>2, <2>3 DEF AskedFor
  <1>6. OwnHashes' /\ AllPlaced' /\ LinkedAsRequested'
    <2>1. OwnHashes'
      BY <1>1 DEF LInv, OwnHashes, ModulesOf
    <2>2. AllPlaced'
      <3>1. \A x : Placed(x) => Placed(x)'
        BY <1>1, PlacedSame
      <3> QED BY <1>1, <3>1 DEF LInv, AllPlaced
    <2>3. LinkedAsRequested'
      <3>1. \A m, r, x : Answers(m, r, x) => Answers(m, r, x)'
        BY <1>1, AnswersSame
      <3>2. \A m : RequestsOf(m)' = RequestsOf(m)
        BY <1>1 DEF RequestsOf, Files
      <3> QED BY <1>1, <3>1, <3>2 DEF LInv, LinkedAsRequested
    <2> QED BY <2>1, <2>2, <2>3
  <1>7. ASSUME NEW u \in Threads, u # t PROVE Stacked(u)' /\ Held(u)' /\ Chained(u)'
    <2>1. Stacked(u)'
      BY <1>1, <1>3, <1>7 DEF LInv, Stacked
    <2>2. Held(u)'
      BY <1>1, <1>3, <1>7 DEF LInv, Held, Active, Returned, caches
    <2>3. Chained(u)'
      BY <1>1, <1>3, <1>5, <1>7 DEF LInv, Chained
    <2> QED BY <2>1, <2>2, <2>3
  <1>8. ASSUME NEW i \in 1 .. Len(stack'[t])
        PROVE  /\ stack'[t][i] = stack[t][i] /\ i \in 1 .. Len(stack[t]) /\ i < Len(stack[t])
               /\ i < Len(stack'[t]) => i + 1 \in 1 .. Len(stack'[t]) /\ i + 1 \in 1 .. Len(stack[t])
    BY <1>4
  <1>9. Stacked(t)'
    <2>1. pc'[t] # "begin"
      BY <1>1
    <2> QED BY <1>1, <1>8, <2>1 DEF LInv, Stacked
  <1>10. Held(t)'
    <2> SUFFICES ASSUME Active(t), NEW i \in 1 .. Len(stack'[t])
                 PROVE  Returned(stack[t][i])' = stack'[t][i]
      BY <1>1 DEF Held, Active
    <2>1. Returned(stack[t][i]) = stack[t][i]
      BY <1>1, <1>8 DEF LInv, Held
    <2> QED BY <1>1, <1>8, <2>1 DEF Returned, caches
  <1>11. Chained(t)'
    <2> SUFFICES ASSUME NEW i \in 1 .. Len(stack'[t]), i < Len(stack'[t])
                 PROVE  AskedFor(stack[t][i], modules[stack[t][i + 1]])'
      BY <1>1 DEF Chained, Ready
    <2>1. PICK m, k : m = stack[t][i] /\ k = stack[t][i + 1]
      OBVIOUS
    <2>2. AskedFor(m, modules[k]) /\ stack'[t][i] = m
      BY <1>8, <2>1 DEF LInv, Chained
    <2>3. stack'[t][i + 1] = k
      BY <1>8, <2>1
    <2>4. AskedFor(m, modules[k])'
      BY <1>1, <1>5, <2>2
    <2> QED BY <2>2, <2>3, <2>4
  <1> QED BY <1>6, <1>7, <1>9, <1>10, <1>11 DEF LInv

\* A step that changes nothing.
LEMMA LStutter ==
  ASSUME LInv, PInv', UNCHANGED vars
  PROVE  LInv'
  <1>1. UNCHANGED <<disk, modules, stack, wanted, pc, by_hash_id_cache>>
    BY DEF vars, caches
  <1>2. \A m, r, x : Answers(m, r, x) => Answers(m, r, x)'
    BY <1>1, AnswersSame
  <1>3. \A m : RequestsOf(m)' = RequestsOf(m) /\ Asking(m)' = Asking(m)
    BY <1>1 DEF RequestsOf, Asking, Files
  <1>4. \A x : Placed(x) => Placed(x)'
    BY <1>1, PlacedSame
  <1>5. \A m, x : AskedFor(m, x) => AskedFor(m, x)'
    BY <1>1, <1>2, <1>3 DEF AskedFor
  <1>6. OwnHashes' /\ AllPlaced' /\ LinkedAsRequested'
    BY <1>1, <1>2, <1>3, <1>4 DEF LInv, OwnHashes, ModulesOf, AllPlaced, LinkedAsRequested
  <1>7. \A t \in Threads : Stacked(t)' /\ Held(t)'
    BY <1>1 DEF LInv, Stacked, Held, Active, Returned
  <1>8. \A t \in Threads : Chained(t)'
    BY <1>1, <1>5 DEF LInv, Chained
  <1> QED BY <1>6, <1>7, <1>8 DEF LInv

\* Nothing is made and no stack has a module.
LEMMA LInvInit == ASSUME Init PROVE LInv
  <1>1. Len(<<>>) = 0 /\ <<>> \in Seq(STRING)
    BY EmptySeq
  <1>2. /\ modules = <<>> /\ \A t \in Threads : stack[t] = <<>> /\ pc[t] = "begin" /\ wanted[t] = Want(<<>>, <<>>, <<>>)
    BY DEF Init, Nothing
  <1>3. <<>> \notin Files
    BY ProgramsAssumption DEF Init, Files
  <1>4. Placed(Want(<<>>, <<>>, <<>>))
    BY <1>1, <1>3 DEF Placed, Located, Want
  <1>5. OwnHashes /\ AllPlaced /\ LinkedAsRequested
    BY <1>1, <1>2, <1>4 DEF OwnHashes, ModulesOf, AllPlaced, LinkedAsRequested
  <1>6. \A t \in Threads : Stacked(t) /\ Held(t) /\ Chained(t)
    BY <1>1, <1>2 DEF Stacked, Held, Chained
  <1> QED BY <1>5, <1>6, PInvInit DEF LInv

\* One step per action.
LEMMA LInvNext == ASSUME LInv, [Next]_vars PROVE LInv'
  <1>1. PInv'
    BY PInvNext DEF LInv
  <1>2. CASE BeginServer \/ BeginScript \/ BeginLoad \/ EndLoad
    BY <1>1, <1>2, LBegin
  <1>3. ASSUME NEW t \in Threads, LoadStep(t) PROVE LInv'
    <2>1. CASE Compile(t) \/ Create(t)
      <3>1. Make(t) /\ pc[t] \in {"compiling", "creating"}
        BY <2>1 DEF Compile, Create
      <3>2. UNCHANGED <<by_hash_id_cache, by_specifier_cache>>
        BY <3>1 DEF Make, caches
      <3> QED BY <1>1, <3>1, <3>2, LMake
    <2>2. CASE Cache(t) \/ Forget(t) \/ Return(t) \/ Unwind(t)
      BY <1>1, <2>2, LCache, LForget, LReturn, LUnwind
    <2> QED BY <1>1, <1>3, <2>1, <2>2, LResolve, LStep DEF LoadStep
  <1>4. CASE UNCHANGED vars
    BY <1>1, <1>4, LStutter
  <1> QED BY <1>2, <1>3, <1>4 DEF Next

\* The inductive invariant: the stacks hold what V8 has asked for, the caches have what is on the stacks,
\* every module lies where its path leads to, and no two of an isolate have the same hash.
THEOREM LinkingInvariance == Spec => []LInv
  BY LInvInit, LInvNext, PTL DEF Spec

\* Every request is answered with the module it names, of the same isolate: neither the caches the two
\* threads share, nor equal hashes, nor the erasure of a plugin's entries, nor the recursion of the
\* callback answers it with another one.
THEOREM RequestsAnswered == Spec => []LinkedAsRequested
  <1>1. LInv => LinkedAsRequested
    BY DEF LInv
  <1> QED BY <1>1, LinkingInvariance, PTL

-----------------------------------------------------------------------------
\* The macros: a line in which every piece has its value.

\* The sequences that each part of a sequence of sequences makes.
FlattenAlong(g, s, k) == g = [i \in 1 .. k |-> IF i = 1 THEN s[i] ELSE g[i - 1] \o s[i]]

\* The recursion of the fold has a value for every part of a sequence,
LEMMA FlattensExist ==
  ASSUME NEW s, NEW k \in Nat
  PROVE  \E g : FlattenAlong(g, s, k)
  <1> DEFINE T == {n \in Nat : \E g : FlattenAlong(g, s, n)}
  <1>1. 0 \in T
    <2>1. FlattenAlong([n \in 1 .. 0 |-> <<>>], s, 0)
      BY DEF FlattenAlong
    <2> QED BY <2>1
  <1>2. ASSUME NEW n \in Nat, n \in T PROVE n + 1 \in T
    <2>1. PICK g : FlattenAlong(g, s, n)
      BY <1>2
    <2> DEFINE h == [i \in 1 .. n + 1 |-> IF i = n + 1 THEN (IF i = 1 THEN s[i] ELSE g[n] \o s[i]) ELSE g[i]]
    <2>2. \A i \in 1 .. n : g[i] = IF i = 1 THEN s[i] ELSE g[i - 1] \o s[i]
      BY <2>1 DEF FlattenAlong
    <2>3. ASSUME NEW i \in 1 .. n + 1
          PROVE  h[i] = IF i = 1 THEN s[i] ELSE h[i - 1] \o s[i]
      <3>1. CASE i = n + 1
        BY <3>1
      <3>2. CASE i \in 1 .. n
        BY <2>2, <3>2
      <3> QED BY <3>1, <3>2
    <2>4. FlattenAlong(h, s, n + 1)
      BY <2>3 DEF FlattenAlong
    <2> QED BY <2>4
  <1> HIDE DEF T
  <1>3. k \in T
    BY <1>1, <1>2, SetInduction
  <1> QED BY <1>3 DEF T

\* and one only, which the pieces after it have no part in.
LEMMA FlattensAgree ==
  ASSUME NEW s, NEW r, NEW g, NEW h, NEW j \in Nat \ {0}, NEW k \in Nat, FlattenAlong(g, s, j), FlattenAlong(h, r, k),
         j <= k, \A i \in 1 .. j : s[i] = r[i]
  PROVE  g[j] = h[j]
  <1> DEFINE T == {n \in Nat : 1 <= n /\ n <= j => g[n] = h[n]}
  <1>0. /\ \A n \in 1 .. j : g[n] = IF n = 1 THEN s[n] ELSE g[n - 1] \o s[n]
        /\ \A n \in 1 .. k : h[n] = IF n = 1 THEN r[n] ELSE h[n - 1] \o r[n]
    BY DEF FlattenAlong
  <1>1. 0 \in T
    OBVIOUS
  <1>2. ASSUME NEW n \in Nat, n \in T PROVE n + 1 \in T
    <2> SUFFICES ASSUME n + 1 <= j PROVE g[n + 1] = h[n + 1]
      OBVIOUS
    <2>1. PICK m : m = n + 1
      OBVIOUS
    <2>2. m \in 1 .. j /\ m \in 1 .. k /\ m - 1 = n /\ (m # 1 => g[n] = h[n])
      BY <1>2, <2>1
    <2>3. g[m] = IF m = 1 THEN s[m] ELSE g[n] \o s[m]
      BY <1>0, <2>2
    <2>4. h[m] = IF m = 1 THEN r[m] ELSE h[n] \o r[m]
      BY <1>0, <2>2
    <2>5. s[m] = r[m]
      BY <2>2
    <2> QED BY <2>1, <2>2, <2>3, <2>4, <2>5
  <1> HIDE DEF T
  <1>3. j \in T
    BY <1>1, <1>2, SetInduction
  <1> QED BY <1>3 DEF T

\* FlattenSeq(s) is the last of these values.
LEMMA FlattenIs ==
  ASSUME NEW s, Len(s) \in Nat \ {0}
  PROVE  \E g : FlattenAlong(g, s, Len(s)) /\ FlattenSeq(s) = g[Len(s)]
  <1>1. \E g : FlattenAlong(g, s, Len(s))
    BY FlattensExist
  <1> DEFINE g == CHOOSE g : FlattenAlong(g, s, Len(s))
  <1>2. FlattenAlong(g, s, Len(s))
    BY <1>1
  <1>3. FlattenSeq(s) = g[Len(s)]
    BY DEF FlattenSeq, FlattenAlong
  <1> QED BY <1>2, <1>3

\* Nothing put together is nothing.
LEMMA FlattenEmpty == FlattenSeq(<<>>) = <<>>
  BY DEF FlattenSeq

\* One more piece is put at the end.
LEMMA FlattenAppend ==
  ASSUME NEW S, NEW s \in Seq(Seq(S)), NEW x \in Seq(S)
  PROVE  FlattenSeq(Append(s, x)) = FlattenSeq(s) \o x
  <1>1. PICK k, longer : k = Len(s) /\ longer = Append(s, x)
    OBVIOUS
  <1>2. /\ Len(longer) = k + 1 /\ k \in Nat /\ longer[k + 1] = x /\ \A i \in 1 .. k : s[i] = longer[i]
    BY <1>1, AppendProperties, LenProperties
  <1>3. PICK m : m = k + 1
    OBVIOUS
  <1>4. m \in Nat \ {0} /\ Len(longer) = m /\ longer[m] = x /\ m - 1 = k /\ k <= m /\ m \in 1 .. m
    BY <1>2, <1>3
  <1>5. PICK h : FlattenAlong(h, longer, m) /\ FlattenSeq(longer) = h[m]
    BY <1>4, FlattenIs
  <1>6. h[m] = IF m = 1 THEN longer[m] ELSE h[k] \o longer[m]
    <2>1. \A i \in 1 .. m : h[i] = IF i = 1 THEN longer[i] ELSE h[i - 1] \o longer[i]
      BY <1>5 DEF FlattenAlong
    <2> QED BY <1>4, <2>1
  <1>7. CASE k = 0
    <2>1. s = <<>>
      BY <1>1, <1>7, EmptySeq
    <2>2. FlattenSeq(s) = <<>>
      BY <2>1, FlattenEmpty
    <2>3. <<>> \o x = x
      OBVIOUS
    <2> QED BY <1>1, <1>3, <1>4, <1>5, <1>6, <1>7, <2>2, <2>3
  <1>8. CASE k # 0
    <2>1. k \in Nat \ {0}
      BY <1>2, <1>8
    <2>2. PICK g : FlattenAlong(g, s, k) /\ FlattenSeq(s) = g[k]
      BY <1>1, <2>1, FlattenIs
    <2>3. g[k] = h[k]
      <3>1. \A i \in 1 .. k : s[i] = longer[i]
        BY <1>2
      <3>2. FlattenAlong(g, s, k) /\ FlattenAlong(h, longer, m) /\ m \in Nat /\ k <= m
        BY <1>4, <1>5, <2>2
      <3> QED BY <2>1, <3>1, <3>2, FlattensAgree
    <2>4. m # 1
      BY <1>3, <1>2, <1>8
    <2> QED BY <1>1, <1>4, <1>5, <1>6, <2>2, <2>3, <2>4
  <1> QED BY <1>7, <1>8

\* A line in which every piece has its value.
Through(f, line) == FlattenSeq([i \in DOMAIN line |-> f[line[i]]])

\* An empty line stays so.
LEMMA ThroughEmpty ==
  ASSUME NEW f
  PROVE  Through(f, <<>>) = <<>>
  <1>1. [i \in DOMAIN <<>> |-> f[<<>>[i]]] = <<>>
    OBVIOUS
  <1> QED BY <1>1, FlattenEmpty DEF Through

\* The value of the last piece is put at the end.
LEMMA ThroughAppend ==
  ASSUME NEW S, NEW f \in [S -> Seq(S)], NEW line \in Seq(S), NEW x \in S
  PROVE  Through(f, Append(line, x)) = Through(f, line) \o f[x]
  <1>1. PICK k, longer, v : k = Len(line) /\ longer = Append(line, x) /\ v = f[x]
    OBVIOUS
  <1>2. /\ Len(longer) = k + 1 /\ k \in Nat /\ longer[k + 1] = x /\ \A i \in 1 .. k : line[i] = longer[i]
        /\ longer \in Seq(S)
    BY <1>1, AppendProperties, LenProperties
  <1>3. DOMAIN longer = 1 .. k + 1 /\ DOMAIN line = 1 .. k /\ v \in Seq(S)
    BY <1>1, <1>2
  <1>4. PICK s, t : s = [i \in DOMAIN line |-> f[line[i]]] /\ t = [i \in DOMAIN longer |-> f[longer[i]]]
    OBVIOUS
  <1>5. s \in Seq(Seq(S)) /\ Len(s) = k /\ \A i \in 1 .. k : s[i] = f[line[i]]
    <2>1. \A i \in 1 .. k : f[line[i]] \in Seq(S)
      BY <1>1, <1>3
    <2>2. s \in [1 .. k -> Seq(S)]
      BY <1>3, <1>4, <2>1
    <2> QED BY <1>2, <1>3, <1>4, <2>2
  <1>6. t \in Seq(Seq(S)) /\ Len(t) = k + 1 /\ \A i \in 1 .. k + 1 : t[i] = f[longer[i]]
    <2>1. \A i \in 1 .. k + 1 : f[longer[i]] \in Seq(S)
      BY <1>2, <1>3
    <2>2. t \in [1 .. k + 1 -> Seq(S)]
      BY <1>3, <1>4, <2>1
    <2> QED BY <1>2, <1>3, <1>4, <2>2
  <1>7. t = Append(s, v)
    <2>1. /\ Append(s, v) \in Seq(Seq(S)) /\ Len(Append(s, v)) = k + 1 /\ Append(s, v)[k + 1] = v
          /\ \A i \in 1 .. k : Append(s, v)[i] = s[i]
      BY <1>3, <1>5, AppendProperties
    <2>2. \A i \in 1 .. k + 1 : i \in 1 .. k \/ i = k + 1
      BY <1>2
    <2>3. ASSUME NEW i \in 1 .. k + 1 PROVE t[i] = Append(s, v)[i]
      <3>1. CASE i = k + 1
        BY <1>1, <1>2, <1>6, <2>1, <3>1
      <3>2. CASE i \in 1 .. k
        <4>1. t[i] = f[longer[i]] /\ s[i] = f[line[i]]
          BY <1>5, <1>6, <3>2
        <4>2. line[i] = longer[i] /\ Append(s, v)[i] = s[i]
          BY <1>2, <2>1, <3>2
        <4> QED BY <4>1, <4>2
      <3> QED BY <2>2, <3>1, <3>2
    <2> QED BY <1>6, <2>1, <2>3, SeqEqual
  <1>8. FlattenSeq(Append(s, v)) = FlattenSeq(s) \o v
    BY <1>3, <1>5, FlattenAppend
  <1> QED BY <1>1, <1>4, <1>7, <1>8 DEF Through

\* The pieces of a line that is replaced.
LEMMA ThroughType ==
  ASSUME NEW S, NEW f \in [S -> Seq(S)], NEW line \in Seq(S)
  PROVE  Through(f, line) \in Seq(S)
  <1> DEFINE T == {l \in Seq(S) : Through(f, l) \in Seq(S)}
  <1>1. <<>> \in T
    BY ThroughEmpty, EmptySeq
  <1>2. ASSUME NEW l \in Seq(S), NEW x \in S, l \in T PROVE Append(l, x) \in T
    <2>1. Through(f, Append(l, x)) = Through(f, l) \o f[x]
      BY ThroughAppend
    <2>2. Through(f, l) \in Seq(S) /\ f[x] \in Seq(S)
      BY <1>2
    <2>3. Through(f, l) \o f[x] \in Seq(S)
      BY <2>2, ConcatProperties
    <2>4. Append(l, x) \in Seq(S)
      BY AppendProperties
    <2> QED BY <2>1, <2>3, <2>4
  <1> HIDE DEF T
  <1>3. line \in T
    BY <1>1, <1>2, PathInduction
  <1> QED BY <1>3 DEF T

\* Two lines, one after the other.
LEMMA ThroughConcat ==
  ASSUME NEW S, NEW f \in [S -> Seq(S)], NEW a \in Seq(S), NEW b \in Seq(S)
  PROVE  Through(f, a \o b) = Through(f, a) \o Through(f, b)
  <1> DEFINE T == {l \in Seq(S) : Through(f, a \o l) = Through(f, a) \o Through(f, l)}
  <1>0. Through(f, a) \in Seq(S)
    BY ThroughType
  <1>1. <<>> \in T
    <2>1. a \o <<>> = a /\ Through(f, a) \o <<>> = Through(f, a)
      BY <1>0
    <2> QED BY <2>1, ThroughEmpty, EmptySeq
  <1>2. ASSUME NEW l \in Seq(S), NEW x \in S, l \in T PROVE Append(l, x) \in T
    <2>1. PICK p, q, v : p = Through(f, a) /\ q = Through(f, l) /\ v = f[x]
      OBVIOUS
    <2>2. p \in Seq(S) /\ q \in Seq(S) /\ v \in Seq(S)
      BY <1>0, <2>1, ThroughType
    <2>3. a \o Append(l, x) = Append(a \o l, x)
      BY AppendConcat
    <2>4. a \o l \in Seq(S)
      BY ConcatProperties
    <2>5. Through(f, Append(a \o l, x)) = Through(f, a \o l) \o v
      BY <2>1, <2>4, ThroughAppend
    <2>6. Through(f, a \o l) = p \o q
      BY <1>2, <2>1
    <2>7. Through(f, Append(l, x)) = q \o v
      BY <2>1, ThroughAppend
    <2>8. (p \o q) \o v = p \o (q \o v)
      <3>1. Associate(p, q, v)
        BY <2>2, ConcatThree
      <3> QED BY <3>1 DEF Associate
    <2>9. Append(l, x) \in Seq(S)
      BY AppendProperties
    <2> QED BY <2>1, <2>3, <2>5, <2>6, <2>7, <2>8, <2>9
  <1> HIDE DEF T
  <1>3. b \in T
    BY <1>1, <1>2, PathInduction
  <1> QED BY <1>3 DEF T

\* Pieces that stand for themselves.
LEMMA ThroughSame ==
  ASSUME NEW S, NEW f \in [S -> Seq(S)], NEW A, A \subseteq S, \A x \in A : f[x] = <<x>>, NEW line \in Seq(A)
  PROVE  Through(f, line) = line
  <1> DEFINE T == {l \in Seq(A) : Through(f, l) = l}
  <1>1. <<>> \in T
    BY ThroughEmpty, EmptySeq
  <1>2. ASSUME NEW l \in Seq(A), NEW x \in A, l \in T PROVE Append(l, x) \in T
    <2>1. l \in Seq(S) /\ x \in S
      BY SeqMonotonic
    <2>2. Through(f, Append(l, x)) = Through(f, l) \o f[x]
      BY <2>1, ThroughAppend
    <2>3. l \o <<x>> = Append(l, x)
      BY AppendIsConcat
    <2>4. Append(l, x) \in Seq(A)
      BY AppendProperties
    <2> QED BY <1>2, <2>2, <2>3, <2>4
  <1> HIDE DEF T
  <1>3. line \in T
    BY <1>1, <1>2, PathInduction
  <1> QED BY <1>3 DEF T

\* A line of one piece.
LEMMA ThroughOne ==
  ASSUME NEW S, NEW f \in [S -> Seq(S)], NEW x \in S
  PROVE  Through(f, <<x>>) = f[x]
  <1>1. <<>> \in Seq(S) /\ Append(<<>>, x) = <<x>>
    OBVIOUS
  <1>2. Through(f, Append(<<>>, x)) = Through(f, <<>>) \o f[x]
    BY <1>1, ThroughAppend
  <1>3. <<>> \o f[x] = f[x]
    <2>1. PICK v \in Seq(S) : v = f[x]
      OBVIOUS
    <2> QED BY <2>1
  <1> QED BY <1>1, <1>2, <1>3, ThroughEmpty

\* Two passes are one.
LEMMA ThroughTwice ==
  ASSUME NEW S, NEW f \in [S -> Seq(S)], NEW g \in [S -> Seq(S)], NEW h \in [S -> Seq(S)],
         \A x \in S : h[x] = Through(g, f[x]), NEW line \in Seq(S)
  PROVE  Through(g, Through(f, line)) = Through(h, line)
  <1> DEFINE T == {l \in Seq(S) : Through(g, Through(f, l)) = Through(h, l)}
  <1>1. <<>> \in T
    BY ThroughEmpty, EmptySeq
  <1>2. ASSUME NEW l \in Seq(S), NEW x \in S, l \in T PROVE Append(l, x) \in T
    <2>1. Through(f, Append(l, x)) = Through(f, l) \o f[x]
      BY ThroughAppend
    <2>2. Through(f, l) \in Seq(S) /\ f[x] \in Seq(S)
      BY ThroughType
    <2>3. Through(g, Through(f, l) \o f[x]) = Through(g, Through(f, l)) \o Through(g, f[x])
      <3>1. \A a, b \in Seq(S) : Through(g, a \o b) = Through(g, a) \o Through(g, b)
        BY ThroughConcat
      <3> QED BY <2>2, <3>1
    <2>4. Through(h, Append(l, x)) = Through(h, l) \o h[x]
      BY ThroughAppend
    <2>5. Append(l, x) \in Seq(S)
      BY AppendProperties
    <2> QED BY <1>2, <2>1, <2>3, <2>4, <2>5
  <1> HIDE DEF T
  <1>3. line \in T
    BY <1>1, <1>2, PathInduction
  <1> QED BY <1>3 DEF T

\* replace_token() as a value of the pieces.
Replaced(S, token, with) == [x \in S |-> IF x = token THEN with ELSE <<x>>]

\* replace_token() gives every piece its value.
LEMMA ReplaceIsThrough ==
  ASSUME NEW S, NEW token, NEW with \in Seq(S), NEW line \in Seq(S)
  PROVE  /\ Replaced(S, token, with) \in [S -> Seq(S)]
         /\ ReplaceToken(token, line, with) = Through(Replaced(S, token, with), line)
  <1>1. \A x \in S : <<x>> \in Seq(S)
    OBVIOUS
  <1>2. Replaced(S, token, with) \in [S -> Seq(S)]
    BY <1>1 DEF Replaced
  <1>3. \A i \in DOMAIN line : line[i] \in S
    OBVIOUS
  <1>4. [i \in DOMAIN line |-> IF line[i] = token THEN with ELSE <<line[i]>>]
          = [i \in DOMAIN line |-> Replaced(S, token, with)[line[i]]]
    BY <1>3 DEF Replaced
  <1> QED BY <1>2, <1>4 DEF ReplaceToken, Through

\* A token that a line does not hold.
LEMMA ReplaceAbsent ==
  ASSUME NEW S, NEW token, NEW with \in Seq(S), NEW line \in Seq(S \ {token})
  PROVE  Through(Replaced(S, token, with), line) = line
  <1>1. Replaced(S, token, with) \in [S -> Seq(S)]
    <2>1. \A x \in S : <<x>> \in Seq(S)
      OBVIOUS
    <2> QED BY <2>1 DEF Replaced
  <1>2. \A x \in S \ {token} : Replaced(S, token, with)[x] = <<x>>
    BY DEF Replaced
  <1>3. S \ {token} \subseteq S
    OBVIOUS
  <1> QED BY <1>1, <1>2, <1>3, ThroughSame

\* The quotes around a name are not a macro.
LEMMA QuoteIsNoMacro ==
  \E q : /\ q # "__dirname" /\ q # "__filename" /\ q # "__line_number"
         /\ \A name : Quoted(name) = <<q>> \o name \o <<q>>
  <1> DEFINE q == "\""
  <1>1. q # "__dirname" /\ q # "__filename" /\ q # "__line_number"
    BY Zenon
  <1>2. \A name : Quoted(name) = <<q>> \o name \o <<q>>
    BY Zenon DEF Quoted
  <1> QED BY <1>1, <1>2, Zenon

\* A sequence without an element.
LEMMA Avoids ==
  ASSUME NEW S, NEW s \in Seq(S), NEW c, c \notin ToSet(s)
  PROVE  s \in Seq(S \ {c})
  <1>1. \A i \in 1 .. Len(s) : s[i] \in S \ {c}
    BY DEF ToSet
  <1> QED BY <1>1

\* One pass, then another.
Then(S, g, f) == [x \in S |-> Through(g, f[x])]

\* Two passes are one, with the values of both.
LEMMA ThroughThen ==
  ASSUME NEW S, NEW f \in [S -> Seq(S)], NEW g \in [S -> Seq(S)], NEW line \in Seq(S)
  PROVE  Through(g, Through(f, line)) = Through(Then(S, g, f), line)
  <1>1. \A x \in S : Through(g, f[x]) \in Seq(S)
    BY ThroughType
  <1>2. Then(S, g, f) \in [S -> Seq(S)] /\ \A x \in S : Then(S, g, f)[x] = Through(g, f[x])
    BY <1>1 DEF Then
  <1>3. PICK h \in [S -> Seq(S)] : h = Then(S, g, f)
    BY <1>2
  <1>4. \A x \in S : h[x] = Through(g, f[x])
    BY <1>2, <1>3
  <1>5. Through(g, Through(f, line)) = Through(h, line)
    BY <1>4, ThroughTwice
  <1> QED BY <1>3, <1>5

\* Three replacements one after the other are one.
InOnePass(S, a, b, c, d, e, v, line) ==
  ReplaceToken(c, ReplaceToken(b, ReplaceToken(a, line, d), e), v)
    = Through([x \in S |-> IF x = a THEN d ELSE IF x = b THEN e ELSE IF x = c THEN v ELSE <<x>>], line)

\* None of the three undoes another.
LEMMA ThreePasses ==
  ASSUME NEW S, NEW a \in S, NEW b \in S, NEW c \in S, a # b, a # c, b # c,
         NEW d \in Seq(S), NEW e \in Seq(S), NEW v \in Seq(S),
         d \in Seq(S \ {b}), d \in Seq(S \ {c}), e \in Seq(S \ {c}), NEW line \in Seq(S)
  PROVE  InOnePass(S, a, b, c, d, e, v, line)
  <1> SUFFICES ReplaceToken(c, ReplaceToken(b, ReplaceToken(a, line, d), e), v)
                 = Through([x \in S |-> IF x = a THEN d ELSE IF x = b THEN e ELSE IF x = c THEN v ELSE <<x>>], line)
    BY DEF InOnePass
  <1>1. PICK f, g, h, both, all :
          /\ f = Replaced(S, a, d) /\ g = Replaced(S, b, e) /\ h = Replaced(S, c, v)
          /\ both = [x \in S |-> IF x = a THEN d ELSE IF x = b THEN e ELSE <<x>>]
          /\ all = [x \in S |-> IF x = a THEN d ELSE IF x = b THEN e ELSE IF x = c THEN v ELSE <<x>>]
    OBVIOUS
  <1>2. \A x \in S : <<x>> \in Seq(S)
    OBVIOUS
  <1>3. f \in [S -> Seq(S)] /\ g \in [S -> Seq(S)] /\ h \in [S -> Seq(S)]
    BY <1>1, <1>2 DEF Replaced
  <1>4. both \in [S -> Seq(S)] /\ all \in [S -> Seq(S)]
    BY <1>1, <1>2
  <1>5. /\ \A x \in S : f[x] = IF x = a THEN d ELSE <<x>>
        /\ \A x \in S : g[x] = IF x = b THEN e ELSE <<x>>
        /\ \A x \in S : h[x] = IF x = c THEN v ELSE <<x>>
    BY <1>1 DEF Replaced
  <1>6. /\ \A x \in S : both[x] = IF x = a THEN d ELSE IF x = b THEN e ELSE <<x>>
        /\ \A x \in S : all[x] = IF x = a THEN d ELSE IF x = b THEN e ELSE IF x = c THEN v ELSE <<x>>
    BY <1>1
  <1>7. Through(g, d) = d /\ Through(h, d) = d /\ Through(h, e) = e
    <2>1. Through(Replaced(S, b, e), d) = d
      BY ReplaceAbsent
    <2>2. Through(Replaced(S, c, v), d) = d
      BY ReplaceAbsent
    <2>3. Through(Replaced(S, c, v), e) = e
      BY ReplaceAbsent
    <2> QED BY <1>1, <2>1, <2>2, <2>3
  <1>8. ASSUME NEW x \in S PROVE Through(g, <<x>>) = g[x] /\ Through(h, <<x>>) = h[x]
    <2>1. Through(g, <<x>>) = g[x]
      BY <1>3, ThroughOne
    <2>2. Through(h, <<x>>) = h[x]
      BY <1>3, ThroughOne
    <2> QED BY <2>1, <2>2
  <1>9. \A x \in S : both[x] = Through(g, f[x])
    <2> TAKE x \in S
    <2>1. CASE x = a
      BY <2>1, <1>5, <1>6, <1>7
    <2>2. CASE x # a
      <3>1. f[x] = <<x>>
        BY <2>2, <1>5
      <3> QED BY <2>2, <3>1, <1>5, <1>6, <1>8
    <2> QED BY <2>1, <2>2
  <1>10. \A x \in S : all[x] = Through(h, both[x])
    <2> TAKE x \in S
    <2>1. CASE x = a
      BY <2>1, <1>6, <1>7
    <2>2. CASE x # a /\ x = b
      BY <2>2, <1>6, <1>7
    <2>3. CASE x # a /\ x # b
      <3>1. both[x] = <<x>>
        BY <2>3, <1>6
      <3> QED BY <2>3, <3>1, <1>5, <1>6, <1>8
    <2> QED BY <2>1, <2>2, <2>3
  <1>11. ReplaceToken(a, line, d) = Through(f, line)
    <2>1. ReplaceToken(a, line, d) = Through(Replaced(S, a, d), line)
      BY ReplaceIsThrough
    <2> QED BY <1>1, <2>1
  <1>12. PICK once, twice : once = Through(f, line) /\ twice = Through(both, line)
    OBVIOUS
  <1>13. once \in Seq(S) /\ twice \in Seq(S)
    BY <1>3, <1>4, <1>12, ThroughType
  <1>14. ReplaceToken(b, once, e) = Through(g, once)
    <2>1. ReplaceToken(b, once, e) = Through(Replaced(S, b, e), once)
      BY <1>13, ReplaceIsThrough
    <2> QED BY <1>1, <2>1
  <1>15. ReplaceToken(c, twice, v) = Through(h, twice)
    <2>1. ReplaceToken(c, twice, v) = Through(Replaced(S, c, v), twice)
      BY <1>13, ReplaceIsThrough
    <2> QED BY <1>1, <2>1
  <1>16. Through(g, Through(f, line)) = Through(both, line)
    <2>1. Through(g, Through(f, line)) = Through(Then(S, g, f), line)
      BY <1>3, ThroughThen
    <2>2. Then(S, g, f) = both
      BY <1>4, <1>9 DEF Then
    <2> QED BY <2>1, <2>2
  <1>17. Through(h, Through(both, line)) = Through(all, line)
    <2>1. Through(h, Through(both, line)) = Through(Then(S, h, both), line)
      BY <1>3, <1>4, ThroughThen
    <2>2. Then(S, h, both) = all
      BY <1>4, <1>10 DEF Then
    <2> QED BY <2>1, <2>2
  <1> QED BY <1>1, <1>11, <1>12, <1>14, <1>15, <1>16, <1>17

\* A line of one piece has the pieces of a line.
LEMMA OnePiece ==
  ASSUME NEW S, NEW x \in S
  PROVE  <<x>> \in Seq(S)
  OBVIOUS

\* A name in quotes holds no macro that the name does not.
LEMMA QuotedAvoids ==
  ASSUME NEW S, NEW q \in S, NEW c, q # c, NEW name \in Seq(S), c \notin ToSet(name)
  PROVE  <<q>> \o name \o <<q>> \in Seq(S \ {c})
  <1>1. name \in Seq(S \ {c})
    BY Avoids
  <1>2. <<q>> \in Seq(S \ {c})
    OBVIOUS
  <1>3. PICK r : r = S \ {c}
    OBVIOUS
  <1> QED BY <1>1, <1>2, <1>3

\* macros::apply(), its three replacements of each line one after the other, gives every macro of a
\* text its value and changes nothing else, for any text and any names that hold no later macro.
THEOREM AppliedMeans ==
  ASSUME NEW M, M = STRING, NEW d \in Seq(M), NEW e \in Seq(M), Plain(d, e), NEW text \in Seq(Seq(M))
  PROVE  Apply(text, d, e) = Meaning(text, d, e)
  <1>1. PICK q : /\ q # "__dirname" /\ q # "__filename" /\ q # "__line_number"
                 /\ \A name : Quoted(name) = <<q>> \o name \o <<q>>
    BY QuoteIsNoMacro
  <1>2. PICK a, b, c : a = "__dirname" /\ b = "__filename" /\ c = "__line_number"
    OBVIOUS
  <1>3. a # b /\ a # c /\ b # c /\ q # b /\ q # c
    BY <1>1, <1>2
  <1>4. b \notin ToSet(d) /\ c \notin ToSet(d) /\ c \notin ToSet(e)
    BY <1>2 DEF Plain
  <1>5. PICK dq, eq : dq = Quoted(d) /\ eq = Quoted(e)
    OBVIOUS
  <1>6. dq = <<q>> \o d \o <<q>> /\ eq = <<q>> \o e \o <<q>>
    BY <1>1, <1>5
  <1>7. ASSUME NEW n \in DOMAIN text
        PROVE  ReplaceToken("__line_number", ReplaceToken("__filename", ReplaceToken("__dirname", text[n], Quoted(d)), Quoted(e)), <<ToString(n)>>)
                 = FlattenSeq([i \in DOMAIN text[n] |-> Value(text[n][i], n, d, e)])
    <2>1. PICK u, v, line : u = ToString(n) /\ v = <<u>> /\ line = text[n]
      OBVIOUS
    <2>2. PICK S : S = M \union {q, u, a, b, c}
      OBVIOUS
    <2>3. a \in S /\ b \in S /\ c \in S /\ q \in S /\ u \in S /\ M \subseteq S
      BY <2>2
    <2>4. line \in Seq(S) /\ d \in Seq(S) /\ e \in Seq(S)
      <3>1. line \in Seq(M)
        BY <2>1
      <3> QED BY <2>3, <3>1, SeqMonotonic
    <2>5. dq \in Seq(S \ {b}) /\ dq \in Seq(S \ {c}) /\ eq \in Seq(S \ {c})
      BY <1>3, <1>4, <1>6, <2>3, <2>4, QuotedAvoids
    <2>6. dq \in Seq(S) /\ eq \in Seq(S) /\ v \in Seq(S)
      <3>1. S \ {b} \subseteq S /\ S \ {c} \subseteq S
        OBVIOUS
      <3>2. <<u>> \in Seq(S)
        BY <2>3, OnePiece
      <3> QED BY <2>1, <2>5, <3>1, <3>2, SeqMonotonic
    <2>7. PICK all : all = [x \in S |-> IF x = a THEN dq ELSE IF x = b THEN eq ELSE IF x = c THEN v ELSE <<x>>]
      OBVIOUS
    <2>8. ReplaceToken(c, ReplaceToken(b, ReplaceToken(a, line, dq), eq), v) = Through(all, line)
      <3>1. InOnePass(S, a, b, c, dq, eq, v, line)
        BY <1>3, <2>3, <2>4, <2>5, <2>6, ThreePasses
      <3> QED BY <2>7, <3>1 DEF InOnePass
    <2>9. \A x \in S : all[x] = Value(x, n, d, e)
      <3> TAKE x \in S
      <3>1. all[x] = IF x = a THEN dq ELSE IF x = b THEN eq ELSE IF x = c THEN v ELSE <<x>>
        BY <2>7
      <3>2. Value(x, n, d, e) = CASE x = a -> dq [] x = b -> eq [] x = c -> v [] OTHER -> <<x>>
        BY <1>2, <1>5, <2>1 DEF Value
      <3> QED BY <1>3, <3>1, <3>2
    <2>10. \A i \in DOMAIN line : line[i] \in S
      BY <2>4
    <2>11. [i \in DOMAIN line |-> all[line[i]]] = [i \in DOMAIN line |-> Value(line[i], n, d, e)]
      BY <2>9, <2>10
    <2> QED BY <1>2, <1>5, <2>1, <2>8, <2>11 DEF Through
  <1> QED BY <1>7 DEF Apply, Meaning

\* The name of a file is made of the last names of its path.
LEMMA NameType ==
  ASSUME NEW S, NEW p \in Seq(S)
  PROVE  NameOf(p) \in Seq(S)
  <1>1. Len(p) \in Nat
    BY LenProperties
  <1>2. Max({0, Len(p) - 1}) \in {0, Len(p) - 1} /\ Max({0, Len(p) - 1}) >= 0
    <2>1. \E x \in {0, Len(p) - 1} : \A y \in {0, Len(p) - 1} : x >= y
      BY <1>1
    <2> QED BY <2>1 DEF Max
  <1>3. PICK k, n : k = Names(p) /\ n = Len(p)
    OBVIOUS
  <1>4. k \in Nat /\ n \in Nat
    BY <1>1, <1>2, <1>3 DEF Names
  <1>5. \A i \in k + 1 .. n : p[i] \in S
    BY <1>3, <1>4, ElementOfSeq
  <1>6. k + 1 \in Int /\ n \in Int
    BY <1>4
  <1>7. SubSeq(p, k + 1, n) \in Seq(S)
    BY <1>5, <1>6, SubSeqProperties
  <1> QED BY <1>3, <1>7 DEF NameOf

\* The text of a file of the disk.
LEMMA TextType ==
  ASSUME PInv, NEW M, M = STRING, NEW f \in Files
  PROVE  disk[f].text \in Seq(Seq(M))
  <1>1. disk \in Programs
    BY DEF PInv, IInv, Shapes
  <1> QED BY <1>1, ProgramsAssumption DEF Files

\* A module that was found has a directory and a name, and its source the values of both.
LEMMA PlacedKnows ==
  ASSUME LInv
  PROVE  KnowsItsPlace
  <1>1. PICK M : M = STRING
    OBVIOUS
  <1> SUFFICES ASSUME NEW m \in 1 .. Len(modules), NEW f, f = modules[m].file, Found(m),
                      Plain(DirectoryIn(f), NameOf(f))
               PROVE  /\ Normal(modules[m].path) = f
                      /\ Source(m) = Meaning(disk[f].text, DirectoryIn(f), NameOf(f))
    BY DEF KnowsItsPlace
  <1>2. Located(modules[m]) /\ Placed(modules[m]) /\ modules[m].specifier = modules[m].path
    BY DEF LInv, AllPlaced, Found, Located
  <1>3. modules[m].path \in Seq(M) /\ Normal(modules[m].path) = f /\ f \in Files
    BY <1>1, <1>2 DEF Placed, Leading
  <1>4. DirectoryIn(f) \in Seq(M) /\ NameOf(f) \in Seq(M)
    <2>1. f \in Seq(M)
      BY <1>3, NormalType, SeqMonotonic
    <2> QED BY <2>1, DirectoryType, NameType
  <1>5. disk[f].text \in Seq(Seq(M))
    BY <1>1, <1>3, TextType DEF LInv
  <1>6. Source(m) = Apply(disk[f].text, DirectoryIn(f), NameOf(f))
    BY <1>2, <1>3 DEF Source
  <1>7. Apply(disk[f].text, DirectoryIn(f), NameOf(f)) = Meaning(disk[f].text, DirectoryIn(f), NameOf(f))
    BY <1>1, <1>4, <1>5, AppliedMeans
  <1> QED BY <1>3, <1>6, <1>7

\* The macros of a module that was found have the directory, the name and the lines of its file,
\* however it was asked for: resolve_module_path() leaves a path that leads to the file it found.
THEOREM PlacesKnown == Spec => []KnowsItsPlace
  <1>1. LInv => KnowsItsPlace
    BY PlacedKnows
  <1> QED BY <1>1, LinkingInvariance, PTL
=============================================================================
