---------------------------- MODULE RouterProofs ----------------------------
(***************************************************************************)
(* The theorems about Router, for every tree of directories, files and     *)
(* links, every root and token, every request and every size of a file:    *)
(* who is answered, where the paths lead that a request is given and what  *)
(* they mean, which bytes a body is made of, and what the start-up lets    *)
(* pass.  The longest part is about the texts: the recursive functions of  *)
(* PathJail are followed character by character and name by name.          *)
(***************************************************************************)
EXTENDS Router, SequenceLemmas

-----------------------------------------------------------------------------
(***************************************************************************)
(* Byte ranges: parse_range reads what a Range header says.                *)
(***************************************************************************)
\* strtoll reads an integer or nothing, wherever it starts.
LEMMA StrtollInt ==
  ASSUME NEW t \in Seq(Token), NEW i
  PROVE  strtoll(t, i).val \in Int
  <1> DEFINE blank == {j \in i .. Len(t) + 1 : \A k \in i .. j - 1 : t[k] = Space}
             j == CHOOSE j \in blank : \A k \in blank : k <= j
             k == IF Tok(t, j) \in {Dash, Plus} THEN j + 1 ELSE j
  <1>1. strtoll(t, i) =
          IF Tok(t, k) < 0 THEN [val |-> 0, next |-> i]
          ELSE [val |-> IF Tok(t, j) = Dash THEN 0 - Clamp(t[k]) ELSE Clamp(t[k]), next |-> k + 1]
    BY DEF strtoll
  <1> HIDE DEF blank, j, k
  <1>2. ASSUME ~(Tok(t, k) < 0) PROVE t[k] \in Int
    BY <1>2 DEF Tok, Nul, Token, Dash, Plus, Space, Junk
  <1>3. ASSUME t[k] \in Int PROVE Clamp(t[k]) \in Int
    BY <1>3, RangeAssumption DEF Clamp
  <1> QED
    BY <1>1, <1>2, <1>3

\* At a run of digits strtoll reads that run, and no more.
LEMMA StrtollDigits ==
  ASSUME NEW t \in Seq(Token), NEW i \in 1 .. Len(t), t[i] \in Nat
  PROVE  strtoll(t, i) = [val |-> Clamp(t[i]), next |-> i + 1]
  <1> DEFINE blank == {j \in i .. Len(t) + 1 : \A k \in i .. j - 1 : t[k] = Space}
             j == CHOOSE j \in blank : \A k \in blank : k <= j
             k == IF Tok(t, j) \in {Dash, Plus} THEN j + 1 ELSE j
  <1>1. strtoll(t, i) =
          IF Tok(t, k) < 0 THEN [val |-> 0, next |-> i]
          ELSE [val |-> IF Tok(t, j) = Dash THEN 0 - Clamp(t[k]) ELSE Clamp(t[k]), next |-> k + 1]
    BY DEF strtoll
  <1>2. t[i] # Space
    BY DEF Space
  <1>3. blank = {i}
    <2>1. i \in blank
      OBVIOUS
    <2>2. ASSUME NEW x \in blank PROVE x = i
      BY <1>2, <2>2
    <2> QED
      BY <2>1, <2>2
  <1>4. j = i
    <2>1. i \in blank /\ \A x \in blank : x <= i
      BY <1>3
    <2> HIDE DEF blank
    <2>2. j \in blank
      BY <2>1
    <2> QED
      BY <1>3, <2>2
  <1>5. Tok(t, i) = t[i] /\ Tok(t, i) \notin {Dash, Plus} /\ ~(Tok(t, i) < 0)
    BY DEF Tok, Dash, Plus
  <1>6. k = i
    BY <1>4, <1>5
  <1> HIDE DEF j, k
  <1> QED
    BY <1>1, <1>4, <1>5, <1>6 DEF Dash

\* An accepted range is never empty, never starts before the file and never ends
\* behind it, whatever signs, spaces and overlong numbers the header holds: the
\* seek of serve_file and its Content-Length stay inside the file.
THEOREM RangeInFile ==
  ASSUME NEW t \in Seq(Token), NEW unit \in BOOLEAN, NEW size \in Nat
  PROVE  LET r == parse_range([unit |-> unit, text |-> t], size)
         IN  r.ok => 0 <= r.start /\ r.start <= r.end /\ r.end < size
  <1> DEFINE h == [unit |-> unit, text |-> t]
  <1>1. ASSUME Suffix(t, size).ok
        PROVE  LET r == Suffix(t, size) IN 0 <= r.start /\ r.start <= r.end /\ r.end < size
    <2> DEFINE n == strtoll(t, 2)
    <2>1. n.val \in Int
      BY StrtollInt
    <2> HIDE DEF n
    <2> QED
      BY <1>1, <2>1 DEF Suffix, n, Unsatisfiable, Bytes
  <1>2. ASSUME FromTo(t, size).ok
        PROVE  LET r == FromTo(t, size) IN 0 <= r.start /\ r.start <= r.end /\ r.end < size
    <2> DEFINE s == strtoll(t, 1)
               e == strtoll(t, s.next + 1)
    <2>1. s.val \in Int /\ e.val \in Int
      BY StrtollInt
    <2> HIDE DEF s, e
    <2> QED
      BY <1>2, <2>1 DEF FromTo, s, e, Unsatisfiable, Bytes
  <1>3. CASE ~unit
    BY <1>3 DEF parse_range, Unsatisfiable
  <1>4. CASE unit /\ Tok(t, 1) = Dash
    BY <1>1, <1>4 DEF parse_range
  <1>5. CASE unit /\ Tok(t, 1) # Dash
    BY <1>2, <1>5 DEF parse_range
  <1> QED
    BY <1>3, <1>4, <1>5

\* What the header's digits say is a natural number.
LEMMA DigitsNat ==
  ASSUME NEW t \in Seq(Token), NEW i \in 1 .. Len(t), t[i] >= 0
  PROVE  t[i] \in Nat
  <1>1. t[i] \in Token
    OBVIOUS
  <1> QED
    BY <1>1 DEF Token, Dash, Plus, Space, Junk

\* Cutting a number at LLONG_MAX does not change how it compares with a size.
LEMMA ClampNat ==
  ASSUME NEW n \in Nat, NEW size \in Nat, size <= LLONG_MAX
  PROVE  /\ Clamp(n) \in Nat
         /\ Clamp(n) < size => Clamp(n) = n
         /\ Clamp(n) >= size => n >= size
         /\ Clamp(n) = 0 /\ size > 0 => n = 0
  BY RangeAssumption DEF Clamp

\* A range of a plain form is accepted exactly when it names a position of the
\* file, and then stands for the positions it names: "n-" to the last byte, "n-m"
\* to the m-th or the last, "-n" for the last n or the whole file.
THEOREM PlainRangeExact ==
  ASSUME NEW t \in Seq(Token), IsPlain(t), NEW size \in Nat, size <= LLONG_MAX
  PROVE  LET r == parse_range([unit |-> TRUE, text |-> t], size)
         IN  /\ r.ok <=> Positions(t, size) # {}
             /\ r.ok => r.start .. r.end = Positions(t, size)
  <1> DEFINE r == parse_range([unit |-> TRUE, text |-> t], size)
             P == Positions(t, size)
             Exact == (r.ok <=> P # {}) /\ (r.ok => r.start .. r.end = P)
  <1>1. r = Unsatisfiable /\ P = {} => Exact
    BY DEF Unsatisfiable
  <1>2. ASSUME NEW lo \in Int, NEW hi \in Int, lo <= hi, r = Bytes(lo, hi), P = lo .. hi
        PROVE  Exact
    <2>1. lo \in P
      BY <1>2
    <2>2. r.ok /\ r.start = lo /\ r.end = hi
      BY <1>2 DEF Bytes
    <2> HIDE DEF r, P
    <2> QED
      BY <1>2, <2>1, <2>2
  <1>3. ASSUME NEW n \in Nat, Len(t) = 2, t[1] = n, t[2] = Dash
        PROVE  Exact
    <2> DEFINE c == Clamp(n)
    <2>1. strtoll(t, 1) = [val |-> c, next |-> 2]
      BY <1>3, StrtollDigits
    <2>2. Tok(t, 1) # Dash /\ Tok(t, 2) = Dash /\ Tok(t, 3) = Nul
      BY <1>3 DEF Tok, Dash
    <2>3. P = {p \in 0 .. size - 1 : n <= p}
      BY <1>3 DEF Positions, Dash
    <2>4. c \in Nat /\ (c < size => c = n) /\ (c >= size => n >= size)
      BY ClampNat
    <2> HIDE DEF c
    <2>5. r = IF c >= size THEN Unsatisfiable ELSE Bytes(c, size - 1)
      BY <2>1, <2>2, <2>4 DEF parse_range, FromTo
    <2> HIDE DEF r, P
    <2>6. CASE c >= size
      BY <1>1, <2>3, <2>4, <2>5, <2>6
    <2>7. CASE c < size
      <3>1. P = n .. size - 1
        BY <2>3, <2>4, <2>7
      <3> QED
        BY <1>2, <2>4, <2>5, <2>7, <3>1
    <2> QED
      BY <2>4, <2>6, <2>7
  <1>4. ASSUME NEW n \in Nat, NEW m \in Nat, Len(t) = 3, t[1] = n, t[2] = Dash, t[3] = m
        PROVE  Exact
    <2> DEFINE c == Clamp(n)
               d == Clamp(m)
               last == IF d >= size THEN size - 1 ELSE d
    <2>1. strtoll(t, 1) = [val |-> c, next |-> 2]
      BY <1>4, StrtollDigits
    <2>2. strtoll(t, 3) = [val |-> d, next |-> 4]
      <3>1. 3 \in 1 .. Len(t) /\ t[3] \in Nat
        BY <1>4
      <3>2. strtoll(t, 3) = [val |-> Clamp(t[3]), next |-> 3 + 1]
        BY <3>1, StrtollDigits
      <3> QED
        BY <1>4, <3>2
    <2>3. Tok(t, 1) # Dash /\ Tok(t, 2) = Dash /\ Tok(t, 3) # Nul /\ Tok(t, 4) = Nul
      BY <1>4 DEF Tok, Dash, Nul
    <2>4. P = {p \in 0 .. size - 1 : n <= p /\ p <= m}
      BY <1>4 DEF Positions, Dash
    <2>5. /\ c \in Nat /\ (c < size => c = n) /\ (c >= size => n >= size)
          /\ d \in Nat /\ (d < size => d = m) /\ (d >= size => m >= size)
      BY ClampNat
    <2> HIDE DEF c, d
    <2>6. r = IF c >= size \/ last < c THEN Unsatisfiable ELSE Bytes(c, last)
      BY <2>1, <2>2, <2>3, <2>5 DEF parse_range, FromTo
    <2>7. last \in Int /\ last < size /\ \A p \in 0 .. size - 1 : p <= last <=> p <= m
      BY <2>5
    <2> HIDE DEF r, P, last
    <2>8. P = {p \in 0 .. size - 1 : n <= p /\ p <= last}
      BY <2>4, <2>7
    <2>9. CASE c >= size \/ last < c
      <3>1. P = {}
        BY <2>5, <2>7, <2>8, <2>9
      <3> QED
        BY <1>1, <2>6, <2>9, <3>1
    <2>10. CASE c < size /\ c <= last
      <3>1. P = n .. last
        BY <2>5, <2>7, <2>8, <2>10
      <3> QED
        BY <1>2, <2>5, <2>6, <2>7, <2>10, <3>1
    <2> QED
      BY <2>5, <2>7, <2>9, <2>10
  <1>5. ASSUME NEW n \in Nat, Len(t) = 2, t[1] = Dash, t[2] = n
        PROVE  Exact
    <2> DEFINE c == Clamp(n)
               m == IF c > size THEN size ELSE c
    <2>1. strtoll(t, 2) = [val |-> c, next |-> 3]
      BY <1>5, StrtollDigits
    <2>2. Tok(t, 1) = Dash /\ Tok(t, 3) = Nul
      BY <1>5 DEF Tok
    <2>3. P = {p \in 0 .. size - 1 : p >= size - n}
      BY <1>5 DEF Positions
    <2>4. c \in Nat /\ (c < size => c = n) /\ (c >= size => n >= size)
      BY ClampNat
    <2> HIDE DEF c
    <2>5. r = IF c <= 0 \/ size = 0 THEN Unsatisfiable ELSE Bytes(size - m, size - 1)
      BY <2>1, <2>2 DEF parse_range, Suffix
    <2> HIDE DEF r, P
    <2>6. CASE c = 0 \/ size = 0
      <3>1. P = {}
        BY <2>3, <2>4, <2>6
      <3> QED
        BY <1>1, <2>4, <2>5, <2>6, <3>1
    <2>7. CASE c > 0 /\ size > 0
      <3>1. m \in 1 .. size /\ P = size - m .. size - 1
        BY <2>3, <2>4, <2>7
      <3> HIDE DEF m
      <3>2. size - m \in Int /\ size - 1 \in Int /\ size - m <= size - 1
        BY <3>1
      <3>3. r = Bytes(size - m, size - 1)
        BY <2>4, <2>5, <2>7
      <3> HIDE DEF Exact
      <3> QED
        BY <1>2, <3>1, <3>2, <3>3
    <2> QED
      BY <2>4, <2>6, <2>7
  <1> HIDE DEF Exact
  <1>6. Exact
    <2>1. CASE Len(t) = 2 /\ t[1] >= 0 /\ t[2] = Dash
      BY <1>3, <2>1, DigitsNat
    <2>2. CASE Len(t) = 3 /\ t[1] >= 0 /\ t[2] = Dash /\ t[3] >= 0
      BY <1>4, <2>2, DigitsNat
    <2>3. CASE Len(t) = 2 /\ t[1] = Dash /\ t[2] >= 0
      <3>1. t[2] \in Nat
        <4>1. 2 \in 1 .. Len(t)
          BY <2>3
        <4> QED
          BY <2>3, <4>1, DigitsNat
      <3> HIDE DEF r, P
      <3> QED
        BY <1>5, <2>3, <3>1
    <2> QED
      BY <2>1, <2>2, <2>3 DEF IsPlain
  <1> QED
    BY <1>6 DEF Exact

-----------------------------------------------------------------------------
(***************************************************************************)
(* The segments of a text.                                                 *)
(***************************************************************************)
\* the names of the first n characters of a text, by one more character
NextSegs(t, s, n) ==
  IF t[n] = Slash THEN s
  ELSE IF n = 1 \/ t[n - 1] = Slash THEN Append(s, <<t[n]>>)
  ELSE [s EXCEPT ![Len(s)] = Append(@, t[n])]

\* f holds the segments of every beginning of t
SegsOf(t, f) ==
  /\ f \in [0 .. Len(t) -> Seq(Name)] /\ f[0] = <<>>
  /\ \A n \in 1 .. Len(t) : f[n] = NextSegs(t, f[n - 1], n)

\* How the names of a path are built, character by character.
LEMMA NameFacts ==
  /\ \A c \in Nat : c # Slash => <<c>> \in Name
  /\ \A m \in Name, c \in Nat : c # Slash => Append(m, c) \in Name
  /\ \A m \in Name : m \in Seq(Nat) /\ Len(m) >= 1 /\ \A i \in 1 .. Len(m) : m[i] # Slash
  <1>1. ASSUME NEW c \in Nat, c # Slash PROVE <<c>> \in Name
    BY <1>1 DEF Name
  <1>2. ASSUME NEW m \in Name, NEW c \in Nat, c # Slash PROVE Append(m, c) \in Name
    <2>1. m \in Seq(Nat) /\ \A i \in 1 .. Len(m) : m[i] # Slash
      BY LenProperties DEF Name
    <2>2. /\ Append(m, c) \in Seq(Nat) /\ Append(m, c) # <<>> /\ Len(Append(m, c)) = Len(m) + 1
          /\ \A i \in 1 .. Len(m) : Append(m, c)[i] = m[i]
          /\ Append(m, c)[Len(m) + 1] = c
      BY <2>1, AppendProperties
    <2>3. Len(m) \in Nat /\ DOMAIN Append(m, c) = 1 .. Len(m) + 1
      BY <2>1, <2>2, LenProperties
    <2> HIDE DEF Name
    <2>4. \A i \in 1 .. Len(m) + 1 : Append(m, c)[i] # Slash
      BY <1>2, <2>1, <2>2, <2>3
    <2> QED
      BY <2>2, <2>3, <2>4 DEF Name
  <1>3. ASSUME NEW m \in Name PROVE m \in Seq(Nat) /\ Len(m) >= 1 /\ \A i \in 1 .. Len(m) : m[i] # Slash
    BY EmptySeq, LenProperties DEF Name
  <1> QED
    BY <1>1, <1>2, <1>3

\* One more character makes names of names.
LEMMA NextSegsType ==
  ASSUME NEW t \in Seq(Nat), NEW n \in 1 .. Len(t), NEW s \in Seq(Name)
  PROVE  NextSegs(t, s, n) \in Seq(Name)
  <1>1. t[n] \in Nat
    BY ElementOfSeq
  <1>2. CASE t[n] = Slash
    BY <1>2 DEF NextSegs
  <1>3. CASE t[n] # Slash /\ (n = 1 \/ t[n - 1] = Slash)
    <2>1. <<t[n]>> \in Name
      BY <1>1, <1>3, NameFacts
    <2> QED
      BY <1>3, <2>1, AppendProperties DEF NextSegs
  <1>4. CASE t[n] # Slash /\ ~(n = 1 \/ t[n - 1] = Slash)
    <2> DEFINE e == Append(s[Len(s)], t[n])
    <2>1. NextSegs(t, s, n) = [s EXCEPT ![Len(s)] = e]
      BY <1>4 DEF NextSegs
    <2>2. CASE s = <<>>
      <3> HIDE DEF e
      <3>1. [s EXCEPT ![Len(s)] = e] = <<>>
        BY <2>2
      <3> QED
        BY <2>1, <3>1, EmptySeq
    <2>3. CASE s # <<>>
      <3>1. Len(s) \in 1 .. Len(s)
        BY <2>3, EmptySeq
      <3>2. e \in Name
        BY <1>1, <1>4, <3>1, NameFacts, ElementOfSeq
      <3> HIDE DEF e
      <3> QED
        BY <2>1, <3>1, <3>2, ExceptSeq
    <2> QED
      BY <2>2, <2>3
  <1> QED
    BY <1>2, <1>3, <1>4

\* Segments is what its last step leaves.
LEMMA SegmentsDef ==
  ASSUME NEW t \in Seq(Nat)
  PROVE  \E f : SegsOf(t, f) /\ Segments(t) = f[Len(t)]
  <1> DEFINE N == Len(t)
             X == Seq(Name)
             F == [n \in 1 .. N |-> [s \in X |-> NextSegs(t, s, n)]]
             base == <<>>
  <1>1. N \in Nat /\ base \in X
    BY LenProperties, EmptySeq
  <1>2. F \in [1 .. N -> [X -> X]]
    BY NextSegsType
  <1>3. \A s \in X, n \in 1 .. N : F[n][s] = NextSegs(t, s, n)
    OBVIOUS
  <1> HIDE DEF F, X, N, base
  <1>3a. PICK f : Iterates(N, X, base, F, f)
    BY <1>1, <1>2, Iteration, Zenon
  <1>4. f \in [0 .. N -> X] /\ f[0] = base /\ \A n \in 1 .. N : f[n] = F[n][f[n - 1]]
    BY <1>3a DEF Iterates
  <1>5. \A n \in 1 .. N : n \in 0 .. N /\ n - 1 \in 0 .. N /\ n # 0
    BY <1>1
  <1>6. \A n \in 1 .. N : f[n] = NextSegs(t, f[n - 1], n)
    BY <1>3, <1>4, <1>5
  <1> DEFINE Step(g, n) == IF n = 0 THEN <<>>
                           ELSE IF t[n] = Slash THEN g[n - 1]
                           ELSE IF n = 1 \/ t[n - 1] = Slash THEN Append(g[n - 1], <<t[n]>>)
                           ELSE LET s == g[n - 1] IN [s EXCEPT ![Len(s)] = Append(@, t[n])]
             of == CHOOSE of : of = [n \in 0 .. Len(t) |-> Step(of, n)]
  <1>7. Segments(t) = of[Len(t)]
    BY DEF Segments
  <1>8. \A n \in 1 .. N : \A g : Step(g, n) = NextSegs(t, g[n - 1], n)
    BY <1>5 DEF NextSegs
  <1>9. \A g : Step(g, 0) = base
    BY DEF base
  <1> HIDE DEF Step
  <1>10. f = [n \in 0 .. N |-> Step(f, n)]
    <2>1. ASSUME NEW n \in 0 .. N PROVE f[n] = Step(f, n)
      <3>1. CASE n = 0
        BY <1>4, <1>9, <3>1
      <3>2. CASE n # 0
        BY <1>1, <1>6, <1>8, <3>2
      <3> QED
        BY <3>1, <3>2
    <2> QED
      BY <1>4, <2>1
  <1>11. of = [n \in 0 .. N |-> Step(of, n)]
    BY <1>10 DEF N
  <1> HIDE DEF of
  <1>12. of[0] = base /\ \A n \in 1 .. N : of[n] = NextSegs(t, of[n - 1], n)
    BY <1>1, <1>5, <1>8, <1>9, <1>11
  <1>13. \A n \in 0 .. N : of[n] = f[n]
    <2>1. Follows(N, X, base, F, of)
      BY <1>3, <1>12 DEF Follows
    <2> QED
      BY <1>1, <1>3a, <2>1, IterationUnique
  <1> QED
    <2>1. SegsOf(t, f)
      BY <1>4, <1>6 DEF SegsOf, N, X, base
    <2>2. N \in 0 .. N
      BY <1>1
    <2>3. Segments(t) = f[Len(t)]
      BY <1>7, <1>13, <2>2 DEF N
    <2> QED
      BY <2>1, <2>3

\* Texts that agree on their first n characters have the same segments there.
LEMMA SegsAgree ==
  ASSUME NEW t \in Seq(Nat), NEW u \in Seq(Nat), NEW f, NEW g, SegsOf(t, f), SegsOf(u, g),
         NEW n \in Nat, n <= Len(t), n <= Len(u), \A i \in 1 .. n : t[i] = u[i]
  PROVE  \A k \in 0 .. n : f[k] = g[k]
  <1> DEFINE T == {k \in Nat : k <= n => f[k] = g[k]}
  <1>0. Len(t) \in Nat /\ Len(u) \in Nat
    BY LenProperties
  <1>1. 0 \in T
    BY DEF SegsOf
  <1>2. ASSUME NEW k \in Nat, k \in T PROVE k + 1 \in T
    <2>1. CASE k + 1 <= n
      <3>1. k + 1 \in 1 .. Len(t) /\ k + 1 \in 1 .. Len(u) /\ (k + 1) - 1 = k /\ k <= n /\ k + 1 \in 1 .. n
        BY <1>0, <2>1
      <3>2. f[k + 1] = NextSegs(t, f[k], k + 1) /\ g[k + 1] = NextSegs(u, g[k], k + 1)
        BY <3>1 DEF SegsOf
      <3>3. t[k + 1] = u[k + 1] /\ (k + 1 = 1 \/ t[k] = u[k])
        BY <3>1
      <3>4. NextSegs(t, f[k], k + 1) = NextSegs(u, f[k], k + 1)
        BY <3>1, <3>3 DEF NextSegs
      <3> QED
        BY <1>2, <3>1, <3>2, <3>4
    <2> QED
      BY <2>1
  <1> HIDE DEF T
  <1>3. Nat \subseteq T
    BY <1>1, <1>2, SetInduction
  <1> QED
    BY <1>3 DEF T

\* There is one such function.
LEMMA SegmentsAre ==
  ASSUME NEW t \in Seq(Nat), NEW f, SegsOf(t, f)
  PROVE  Segments(t) = f[Len(t)] /\ Segments(t) \in Seq(Name)
  <1>1. PICK g : SegsOf(t, g) /\ Segments(t) = g[Len(t)]
    BY SegmentsDef
  <1>2. Len(t) \in Nat
    BY LenProperties
  <1>3. \A k \in 0 .. Len(t) : f[k] = g[k]
    BY <1>1, <1>2, SegsAgree
  <1>4. Len(t) \in 0 .. Len(t) /\ f[Len(t)] \in Seq(Name)
    BY <1>2 DEF SegsOf
  <1> QED
    BY <1>1, <1>3, <1>4

\* The segments of a text are names.
LEMMA SegmentsType ==
  ASSUME NEW t \in Seq(Nat)
  PROVE  Segments(t) \in Seq(Name)
  BY SegmentsDef, SegmentsAre

\* What the recursion holds after n characters are the segments of these.
LEMMA SegPrefix ==
  ASSUME NEW t \in Seq(Nat), NEW f, SegsOf(t, f), NEW n \in 0 .. Len(t)
  PROVE  Segments(SubSeq(t, 1, n)) = f[n]
  <1> DEFINE u == SubSeq(t, 1, n)
  <1>0. Len(t) \in Nat
    BY LenProperties
  <1>1. u \in Seq(Nat) /\ Len(u) = n /\ \A i \in 1 .. n : u[i] = t[i]
    <2>1. \A i \in 1 .. n : t[i] \in Nat
      BY <1>0, ElementOfSeq
    <2>2. /\ u \in Seq(Nat) /\ Len(u) = (IF 1 <= n THEN n - 1 + 1 ELSE 0)
          /\ \A i \in 1 .. n - 1 + 1 : u[i] = t[1 + i - 1]
      BY <2>1, SubSeqProperties
    <2> HIDE DEF u
    <2> QED
      BY <2>2
  <1> HIDE DEF u
  <1>2. PICK g : SegsOf(u, g) /\ Segments(u) = g[Len(u)]
    BY <1>1, SegmentsDef
  <1>3. \A k \in 0 .. n : f[k] = g[k]
    BY <1>0, <1>1, <1>2, SegsAgree
  <1>4. Segments(u) = f[n]
    BY <1>1, <1>2, <1>3
  <1> QED
    BY <1>4 DEF u

\* Slashes at the end of a text add no segment.
LEMMA SegSlashes ==
  ASSUME NEW t \in Seq(Nat), NEW n \in 0 .. Len(t), \A i \in n + 1 .. Len(t) : t[i] = Slash
  PROVE  Segments(SubSeq(t, 1, n)) = Segments(t)
  <1>0. Len(t) \in Nat
    BY LenProperties
  <1>1. PICK f : SegsOf(t, f) /\ Segments(t) = f[Len(t)]
    BY SegmentsDef
  <1> DEFINE T == {k \in Nat : n + k <= Len(t) => f[n + k] = f[n]}
  <1>2. 0 \in T
    BY <1>0
  <1>3. ASSUME NEW k \in Nat, k \in T PROVE k + 1 \in T
    <2>1. CASE n + (k + 1) <= Len(t)
      <3> DEFINE m == n + (k + 1)
      <3>1. m \in 1 .. Len(t) /\ m - 1 = n + k /\ n + k <= Len(t) /\ m \in n + 1 .. Len(t)
        BY <1>0, <2>1
      <3> HIDE DEF m
      <3>2. f[m] = NextSegs(t, f[m - 1], m) /\ t[m] = Slash
        BY <1>1, <3>1 DEF SegsOf
      <3>3. f[m] = f[n]
        BY <1>3, <3>1, <3>2 DEF NextSegs
      <3> QED
        BY <3>3 DEF m
    <2> QED
      BY <2>1
  <1> HIDE DEF T
  <1>4. Nat \subseteq T
    BY <1>2, <1>3, SetInduction
  <1>5. Len(t) - n \in T /\ n + (Len(t) - n) = Len(t)
    BY <1>0, <1>4
  <1>6. f[Len(t)] = f[n]
    BY <1>5 DEF T
  <1> QED
    BY <1>1, <1>6, SegPrefix

\* A slash and a name behind a text add the name to its segments.
LEMMA SegName ==
  ASSUME NEW t \in Seq(Nat), NEW m \in Name
  PROVE  /\ (t \o <<Slash>>) \o m \in Seq(Nat) /\ (t \o <<Slash>>) \o m = t \o (<<Slash>> \o m)
         /\ Len((t \o <<Slash>>) \o m) = Len(t) + 1 + Len(m)
         /\ Segments((t \o <<Slash>>) \o m) = Append(Segments(t), m)
  <1> DEFINE x == (t \o <<Slash>>) \o m
             L == Len(t)
             M == Len(m)
  <1>1. L \in Nat /\ M \in Nat /\ M >= 1 /\ m \in Seq(Nat) /\ <<Slash>> \in Seq(Nat) /\ Len(<<Slash>>) = 1
        /\ \A i \in 1 .. M : m[i] # Slash
    BY NameFacts, LenProperties DEF Slash
  <1>2. /\ t \o <<Slash>> \in Seq(Nat) /\ Len(t \o <<Slash>>) = L + 1
        /\ \A i \in 1 .. L + 1 : (t \o <<Slash>>)[i] = IF i <= L THEN t[i] ELSE Slash
    <2> DEFINE s == <<Slash>>
    <2>1. s \in Seq(Nat) /\ Len(s) = 1 /\ s[1] = Slash
      BY <1>1
    <2> HIDE DEF s
    <2>2. /\ t \o s \in Seq(Nat) /\ Len(t \o s) = Len(t) + Len(s)
          /\ \A i \in 1 .. Len(t) + Len(s) : (t \o s)[i] = IF i <= Len(t) THEN t[i] ELSE s[i - Len(t)]
      BY <2>1, ConcatProperties
    <2>3. \A i \in 1 .. L + 1 : (t \o s)[i] = IF i <= L THEN t[i] ELSE Slash
      BY <1>1, <2>1, <2>2
    <2>4. /\ t \o s \in Seq(Nat) /\ Len(t \o s) = L + 1
          /\ \A i \in 1 .. L + 1 : (t \o s)[i] = IF i <= L THEN t[i] ELSE Slash
      BY <2>1, <2>2, <2>3
    <2> QED
      BY <2>4 DEF s
  <1>3. /\ x \in Seq(Nat) /\ Len(x) = L + 1 + M
        /\ \A i \in 1 .. L + 1 + M : x[i] = IF i <= L + 1 THEN (t \o <<Slash>>)[i] ELSE m[i - (L + 1)]
    <2> DEFINE s == t \o <<Slash>>
    <2>1. s \in Seq(Nat) /\ Len(s) = L + 1 /\ m \in Seq(Nat)
      BY <1>1, <1>2
    <2> HIDE DEF s
    <2>2. /\ s \o m \in Seq(Nat) /\ Len(s \o m) = Len(s) + Len(m)
          /\ \A i \in 1 .. Len(s) + Len(m) : (s \o m)[i] = IF i <= Len(s) THEN s[i] ELSE m[i - Len(s)]
      BY <2>1, ConcatProperties
    <2> QED
      BY <2>1, <2>2 DEF s
  <1>4. x = t \o (<<Slash>> \o m)
    <2> DEFINE s == <<Slash>>
    <2>1. s \in Seq(Nat) /\ m \in Seq(Nat)
      BY <1>1
    <2> HIDE DEF s
    <2>2. \A a, b, c \in Seq(Nat) : (a \o b) \o c = a \o (b \o c)
      BY ConcatAssociative
    <2>3. (t \o s) \o m = t \o (s \o m)
      BY <2>1, <2>2, Zenon
    <2> QED
      BY <2>3 DEF s
  <1>5. /\ \A i \in 1 .. L : x[i] = t[i]
        /\ x[L + 1] = Slash
        /\ \A j \in 1 .. M : x[L + 1 + j] = m[j]
    <2>1. \A j \in 1 .. M : L + 1 + j \in 1 .. L + 1 + M /\ ~(L + 1 + j <= L + 1) /\ (L + 1 + j) - (L + 1) = j
      BY <1>1
    <2>2. \A i \in 1 .. L : i \in 1 .. L + 1 + M /\ i \in 1 .. L + 1 /\ i <= L + 1
      BY <1>1
    <2>3. L + 1 \in 1 .. L + 1 + M /\ L + 1 \in 1 .. L + 1 /\ ~(L + 1 <= L)
      BY <1>1
    <2> HIDE DEF x
    <2>4. ASSUME NEW i \in 1 .. L PROVE x[i] = t[i]
      <3> HIDE DEF L, M
      <3> QED
        BY <1>2, <1>3, <2>2
    <2>5. x[L + 1] = Slash
      <3> HIDE DEF L, M
      <3> QED
        BY <1>1, <1>2, <1>3, <2>3
    <2>6. ASSUME NEW j \in 1 .. M PROVE x[L + 1 + j] = m[j]
      <3> HIDE DEF L, M
      <3> QED
        BY <1>3, <2>1
    <2> QED
      BY <2>4, <2>5, <2>6
  <1> HIDE DEF x
  <1>6. PICK f : SegsOf(x, f) /\ Segments(x) = f[L + 1 + M]
    BY <1>3, SegmentsDef
  <1>7. PICK g : SegsOf(t, g) /\ Segments(t) = g[L]
    BY SegmentsDef
  <1>8. f[L] = Segments(t) /\ Segments(t) \in Seq(Name)
    <2>1. x \in Seq(Nat) /\ L <= Len(x) /\ \A i \in 1 .. L : x[i] = t[i]
      BY <1>1, <1>3, <1>5
    <2>2. L \in Nat /\ L <= Len(t)
      BY <1>1
    <2>3. SegsOf(x, f) /\ SegsOf(t, g)
      BY <1>6, <1>7
    <2> HIDE DEF L
    <2>4. \A k \in 0 .. L : f[k] = g[k]
      BY <2>1, <2>2, <2>3, SegsAgree
    <2> QED
      BY <1>7, <2>2, <2>4, SegmentsType
  <1> DEFINE S == Segments(t)
  <1> HIDE DEF S
  <1>9. f[L + 1] = S
    <2>1. L + 1 \in 1 .. Len(x) /\ (L + 1) - 1 = L
      BY <1>1, <1>3
    <2>2. f[L + 1] = NextSegs(x, f[L], L + 1)
      BY <1>6, <2>1 DEF SegsOf
    <2> QED
      BY <1>5, <1>8, <2>2 DEF NextSegs, S
  <1>10. \A j \in 1 .. M : /\ SubSeq(m, 1, j) \in Name
                          /\ (j < M => Append(SubSeq(m, 1, j), m[j + 1]) = SubSeq(m, 1, j + 1))
    <2>0. ASSUME NEW j \in 1 .. M PROVE SubSeq(m, 1, j) \in Name
      <3> DEFINE q == SubSeq(m, 1, j)
      <3>1. \A i \in 1 .. j : m[i] \in Nat /\ m[i] # Slash
        BY <1>1, ElementOfSeq
      <3>2. /\ q \in Seq(Nat) /\ Len(q) = (IF 1 <= j THEN j - 1 + 1 ELSE 0)
            /\ \A i \in 1 .. j - 1 + 1 : q[i] = m[1 + i - 1]
        BY <3>1, SubSeqProperties
      <3> HIDE DEF q
      <3>3. Len(q) = j /\ q # <<>> /\ \A i \in 1 .. j : q[i] # Slash
        <4>1. j - 1 + 1 = j /\ 1 <= j /\ \A i \in 1 .. j : 1 + i - 1 = i
          BY <1>1
        <4>2. Len(q) = j /\ \A i \in 1 .. j : q[i] = m[i]
          BY <3>2, <4>1
        <4>3. q # <<>>
          BY <4>1, <4>2, EmptySeq
        <4> QED
          BY <3>1, <4>2, <4>3
      <3>4. DOMAIN q = 1 .. j
        BY <3>2, <3>3, LenProperties
      <3>5. q \in Name
        BY <3>2, <3>3, <3>4 DEF Name
      <3> QED
        BY <3>5 DEF q
    <2>1. \A j \in 1 .. M : SubSeq(m, 1, j) \in Seq(Nat)
      BY <2>0, NameFacts
    <2>2. ASSUME NEW j \in 1 .. M, j < M PROVE Append(SubSeq(m, 1, j), m[j + 1]) = SubSeq(m, 1, j + 1)
      <3>1. 1 \in 1 .. Len(m) /\ j + 1 \in 1 .. Len(m) /\ m[j + 1] \in Nat /\ (j + 1) - 1 = j
        BY <1>1, <2>2, ElementOfSeq
      <3>2. SubSeq(m, 1, j + 1) = SubSeq(m, 1, j) \o <<m[j + 1]>>
        BY <1>1, <3>1, SubSeqRecursiveSecond
      <3>3. Append(SubSeq(m, 1, j), m[j + 1]) = SubSeq(m, 1, j) \o <<m[j + 1]>>
        BY <2>1, <3>1, AppendIsConcat
      <3> QED
        BY <3>2, <3>3
    <2> QED
      BY <2>0, <2>2
  <1>11. SubSeq(m, 1, 1) = <<m[1]>> /\ SubSeq(m, 1, M) = m
    <2>1. SubSeq(m, 1, M) = m
      BY <1>1, SubSeqFull
    <2>2. /\ SubSeq(m, 1, 1) \in Seq(Nat) /\ Len(SubSeq(m, 1, 1)) = 1 /\ SubSeq(m, 1, 1)[1] = m[1]
      <3>1. \A i \in 1 .. 1 : m[i] \in Nat
        BY <1>1, ElementOfSeq
      <3> QED
        BY <3>1, SubSeqProperties
    <2>3. SubSeq(m, 1, 1) = <<m[1]>>
      <3> DEFINE p == SubSeq(m, 1, 1)
      <3>1. p \in Seq(Nat) /\ Len(p) = 1 /\ p[1] = m[1]
        BY <2>2
      <3> HIDE DEF p
      <3>2. p = <<p[1]>>
        BY <3>1
      <3> QED
        BY <3>1, <3>2 DEF p
    <2> QED
      BY <2>1, <2>3
  <1> DEFINE T == {j \in Nat : j + 1 <= M => f[L + 1 + (j + 1)] = Append(S, SubSeq(m, 1, j + 1))}
  <1>12. 0 \in T
    <2>1. L + 1 + 1 \in 1 .. Len(x) /\ (L + 1 + 1) - 1 = L + 1 /\ L + 1 + 1 # 1 /\ 1 \in 1 .. M
      BY <1>1, <1>3
    <2>2. f[L + 1 + 1] = NextSegs(x, f[L + 1], L + 1 + 1)
      BY <1>6, <2>1 DEF SegsOf
    <2>3. x[L + 1 + 1] = m[1] /\ m[1] # Slash
      BY <1>1, <1>5, <2>1
    <2>4. f[L + 1 + 1] = Append(S, <<m[1]>>)
      BY <1>5, <1>9, <2>1, <2>2, <2>3 DEF NextSegs
    <2> QED
      BY <1>11, <2>4
  <1>13. ASSUME NEW j \in Nat, j \in T PROVE j + 1 \in T
    <2>1. CASE (j + 1) + 1 <= M
      <3> DEFINE k == L + 1 + ((j + 1) + 1)
                 p == SubSeq(m, 1, j + 1)
      <3>1. /\ k \in 1 .. Len(x) /\ k - 1 = L + 1 + (j + 1) /\ k # 1
            /\ j + 1 \in 1 .. M /\ (j + 1) + 1 \in 1 .. M /\ j + 1 < M
        BY <1>1, <1>3, <2>1
      <3>2. x[k] = m[(j + 1) + 1] /\ x[k - 1] = m[j + 1] /\ m[(j + 1) + 1] # Slash /\ m[j + 1] # Slash
        BY <1>1, <1>5, <3>1
      <3> HIDE DEF k
      <3>3. f[k] = NextSegs(x, f[k - 1], k)
        BY <1>6, <3>1 DEF SegsOf
      <3>4. f[k - 1] = Append(S, p)
        BY <1>13, <3>1
      <3>5. p \in Name /\ Append(p, m[(j + 1) + 1]) = SubSeq(m, 1, (j + 1) + 1)
            /\ SubSeq(m, 1, (j + 1) + 1) \in Name
        BY <1>10, <3>1
      <3> HIDE DEF p
      <3>6. f[k] = [Append(S, p) EXCEPT ![Len(Append(S, p))] = Append(@, m[(j + 1) + 1])]
        BY <3>1, <3>2, <3>3, <3>4 DEF NextSegs
      <3>7. [Append(S, p) EXCEPT ![Len(Append(S, p))] = Append(@, m[(j + 1) + 1])]
              = Append(S, Append(p, m[(j + 1) + 1]))
        <4> DEFINE e == Append(p, m[(j + 1) + 1])
        <4>1. S \in Seq(Name) /\ p \in Name /\ e \in Name
          BY <1>8, <3>5 DEF S
        <4>2. [Append(S, p) EXCEPT ![Len(Append(S, p))] = e] = Append(S, e)
          <5> HIDE DEF e
          <5> QED
            BY <4>1, LastReplaced
        <4>3. Append(S, p)[Len(Append(S, p))] = p
          <5>1. Append(S, p)[Len(S) + 1] = p /\ Len(Append(S, p)) = Len(S) + 1
            BY <4>1, AppendProperties
          <5> QED
            BY <5>1
        <4> QED
          BY <4>2, <4>3
      <3>8. f[k] = Append(S, SubSeq(m, 1, (j + 1) + 1))
        BY <3>5, <3>6, <3>7
      <3> QED
        BY <3>8 DEF k
    <2> QED
      BY <2>1
  <1> HIDE DEF T
  <1>14. Nat \subseteq T
    BY <1>12, <1>13, SetInduction
  <1>15. M - 1 \in T /\ (M - 1) + 1 = M
    BY <1>1, <1>14
  <1>16. f[L + 1 + M] = Append(S, m)
    BY <1>11, <1>15 DEF T
  <1> QED
    BY <1>3, <1>4, <1>6, <1>16 DEF x, S

\* The empty text has no segment.
LEMMA SegmentsEmpty == Segments(<<>>) = <<>>
  <1> DEFINE t == <<>>
  <1>1. t \in Seq(Nat) /\ Len(t) = 0
    BY EmptySeq
  <1> HIDE DEF t
  <1>2. PICK f : SegsOf(t, f) /\ Segments(t) = f[Len(t)]
    BY <1>1, SegmentsDef
  <1>3. Segments(t) = <<>>
    BY <1>1, <1>2 DEF SegsOf
  <1> QED
    BY <1>3 DEF t

\* Up to a slash, or to its end, a text has whole segments.
LEMMA SegExtends ==
  ASSUME NEW t \in Seq(Nat), NEW f, SegsOf(t, f), NEW n \in 0 .. Len(t),
         n < Len(t) => t[n + 1] = Slash
  PROVE  IsPrefix(f[n], Segments(t))
  <1> DEFINE a == f[n]
             N == Len(t)
  <1>1. N \in Nat /\ f \in [0 .. N -> Seq(Name)] /\ \A k \in 1 .. N : f[k] = NextSegs(t, f[k - 1], k)
    BY LenProperties DEF SegsOf
  <1>2. a \in Seq(Name) /\ Len(a) \in Nat
    BY <1>1, LenProperties
  <1> HIDE DEF a
  <1> DEFINE Longer(s) == Len(s) >= Len(a) /\ \A i \in 1 .. Len(a) : s[i] = a[i]
             Grows(m) == Longer(f[m]) /\ (m > n => Len(f[m]) > Len(a) \/ t[m] = Slash)
             T == {k \in Nat : n + k <= N => Grows(n + k)}
  <1> HIDE DEF N
  <1>3. 0 \in T
    BY <1>1, <1>2 DEF a
  <1>4. ASSUME NEW k \in Nat, k \in T PROVE k + 1 \in T
    <2> DEFINE m == n + (k + 1)
               s == f[m - 1]
    <2>1. SUFFICES ASSUME m <= N PROVE Grows(m)
      OBVIOUS
    <2>2. m \in 1 .. N /\ m - 1 = n + k /\ n + k <= N /\ m > n /\ n + k \in 0 .. N /\ m - 1 \in 0 .. N /\ m \in Nat
      BY <1>1, <2>1 DEF N
    <2>3. Grows(m - 1)
      BY <1>4, <2>2
    <2>4. f[m] = NextSegs(t, s, m) /\ s \in Seq(Name) /\ t[m] \in Nat
      BY <1>1, <2>2, ElementOfSeq DEF N
    <2>5. m = n + 1 => t[m] = Slash
      BY <2>2 DEF N
    <2> HIDE DEF m, s
    <2>6. Longer(s) /\ (m - 1 > n => Len(s) > Len(a) \/ t[m - 1] = Slash) /\ Len(s) \in Nat
      BY <2>3, <2>4, LenProperties DEF s
    <2>7. CASE t[m] = Slash
      BY <2>4, <2>6, <2>7 DEF NextSegs
    <2>8. CASE t[m] # Slash /\ (m = 1 \/ t[m - 1] = Slash)
      <3>1. f[m] = Append(s, <<t[m]>>) /\ <<t[m]>> \in Name
        BY <2>4, <2>8, NameFacts DEF NextSegs
      <3> DEFINE e == <<t[m]>>
      <3> HIDE DEF e
      <3>2. Len(Append(s, e)) = Len(s) + 1 /\ \A i \in 1 .. Len(s) : Append(s, e)[i] = s[i]
        BY <2>4, <3>1, AppendProperties DEF e
      <3>3. Longer(Append(s, e)) /\ Len(Append(s, e)) > Len(a)
        BY <1>2, <2>6, <3>2
      <3> QED
        BY <3>1, <3>3 DEF e
    <2>9. CASE t[m] # Slash /\ m # 1 /\ t[m - 1] # Slash
      <3>1. m - 1 > n
        BY <2>2, <2>5, <2>9
      <3>2. Len(s) > Len(a) /\ Len(s) \in 1 .. Len(s)
        BY <1>2, <2>6, <2>9, <3>1
      <3> DEFINE e == Append(s[Len(s)], t[m])
      <3>3. f[m] = [s EXCEPT ![Len(s)] = e] /\ e \in Name
        BY <2>4, <2>9, <3>2, NameFacts, ElementOfSeq DEF NextSegs
      <3> HIDE DEF e
      <3>4. Len(f[m]) = Len(s) /\ \A i \in 1 .. Len(s) : f[m][i] = IF i = Len(s) THEN e ELSE s[i]
        BY <2>4, <3>2, <3>3, ExceptSeq
      <3> QED
        BY <1>2, <2>6, <3>2, <3>4
    <2> QED
      BY <2>7, <2>8, <2>9
  <1> HIDE DEF T
  <1>5. Nat \subseteq T
    BY <1>3, <1>4, SetInduction
  <1>6. N - n \in T /\ n + (N - n) = N
    BY <1>1, <1>5 DEF N
  <1>7. Longer(f[N]) /\ f[N] \in Seq(Name)
    BY <1>1, <1>6 DEF T
  <1> DEFINE z == f[N]
  <1>8. Len(a) <= Len(z) /\ \A i \in 1 .. Len(a) : z[i] = a[i]
    BY <1>2, <1>7, LenProperties
  <1>9. z \in Seq(Name)
    BY <1>7
  <1> HIDE DEF z
  <1>10. IsPrefix(a, z)
    BY <1>2, <1>8, <1>9, PrefixOf
  <1>11. Segments(t) = z
    BY SegmentsAre DEF z, N
  <1> QED
    BY <1>10, <1>11 DEF a

-----------------------------------------------------------------------------
(***************************************************************************)
(* realpath's text of a path, and what lies under another.                 *)
(***************************************************************************)
\* The text of a path has the path's names for its segments.
LEMMA TextSegments ==
  ASSUME NEW a \in Seq(Name)
  PROVE  /\ Text(a) \in Seq(Nat) /\ Segments(Text(a)) = a
         /\ a # <<>> => Len(Text(a)) > 1
  <1> DEFINE N == Len(a)
             s == [i \in DOMAIN a |-> <<Slash>> \o a[i]]
  <1>0. N \in Nat /\ DOMAIN a = 1 .. N /\ <<Slash>> \in Seq(Nat)
    BY LenProperties DEF Slash
  <1>1. CASE a = <<>>
    <2> DEFINE t == <<Slash>>
    <2>1. t \in Seq(Nat) /\ Len(t) = 1 /\ t[1] = Slash
      BY <1>0
    <2>2. Text(a) = t
      BY <1>1 DEF Text
    <2> HIDE DEF t
    <2>3. 0 \in 0 .. Len(t) /\ \A i \in 0 + 1 .. Len(t) : t[i] = Slash
      BY <2>1
    <2>4. SubSeq(t, 1, 0) = <<>>
      BY SubSeqEmpty
    <2>5. Segments(SubSeq(t, 1, 0)) = Segments(t)
      BY <2>1, <2>3, SegSlashes
    <2>6. Segments(t) = <<>>
      BY <2>4, <2>5, SegmentsEmpty
    <2> QED
      BY <1>1, <2>1, <2>2, <2>6
  <1>2. CASE a # <<>>
    <2>1. Text(a) = FlattenSeq(s)
      BY <1>2 DEF Text
    <2>2. \A i \in 1 .. N : a[i] \in Name /\ a[i] \in Seq(Nat)
      BY ElementOfSeq, NameFacts
    <2>3. s \in Seq(Seq(Nat)) /\ Len(s) = N /\ \A i \in 1 .. N : s[i] = <<Slash>> \o a[i]
      <3>1. ASSUME NEW i \in 1 .. N PROVE <<Slash>> \o a[i] \in Seq(Nat)
        BY <1>0, <2>2, ConcatProperties
      <3> DEFINE e(i) == <<Slash>> \o a[i]
                 S == Seq(Nat)
      <3>2. s = [i \in 1 .. N |-> e(i)] /\ \A i \in 1 .. N : e(i) \in S
        BY <1>0, <3>1
      <3> HIDE DEF e, S
      <3>3. [i \in 1 .. N |-> e(i)] \in Seq(S) /\ Len([i \in 1 .. N |-> e(i)]) = N
        BY <1>0, <3>2
      <3> QED
        BY <3>2, <3>3 DEF e, S
    <2> HIDE DEF s
    <2>3a. PICK f : Flattens(Nat, s, f) /\ FlattenSeq(s) = f[Len(s)]
      BY <2>3, FlattenDef
    <2>4. /\ f \in [0 .. N -> Seq(Nat)] /\ f[0] = <<>>
          /\ \A n \in 1 .. N : f[n] = f[n - 1] \o s[n]
          /\ FlattenSeq(s) = f[N]
      BY <2>3, <2>3a DEF Flattens
    <2>5. \A n \in 1 .. N : /\ f[n] = (f[n - 1] \o <<Slash>>) \o a[n]
                            /\ Segments(f[n]) = Append(Segments(f[n - 1]), a[n])
                            /\ Len(f[n]) > 1
      <3> TAKE n \in 1 .. N
      <3>1. n - 1 \in 0 .. N
        BY <1>0
      <3>2. f[n - 1] \in Seq(Nat) /\ a[n] \in Name
        BY <2>2, <2>4, <3>1
      <3> DEFINE t == f[n - 1]
                 m == a[n]
      <3>3. f[n] = t \o (<<Slash>> \o m)
        BY <2>3, <2>4
      <3>4. t \in Seq(Nat) /\ m \in Name
        BY <3>2
      <3> HIDE DEF t, m
      <3>5. /\ (t \o <<Slash>>) \o m = t \o (<<Slash>> \o m)
            /\ Len((t \o <<Slash>>) \o m) = Len(t) + 1 + Len(m)
            /\ Segments((t \o <<Slash>>) \o m) = Append(Segments(t), m)
        BY <3>4, SegName
      <3>6. Len(t) \in Nat /\ Len(m) \in Nat /\ Len(m) >= 1
        BY <3>4, NameFacts, LenProperties
      <3>7. f[n] = (t \o <<Slash>>) \o m /\ Segments(f[n]) = Append(Segments(t), m) /\ Len(f[n]) > 1
        <4>1. f[n] = (t \o <<Slash>>) \o m
          BY <3>3, <3>5, Zenon
        <4> DEFINE x == (t \o <<Slash>>) \o m
        <4>2. Len(x) = Len(t) + 1 + Len(m) /\ Segments(x) = Append(Segments(t), m)
          BY <3>5
        <4> HIDE DEF x
        <4>3. Len(x) > 1
          BY <3>6, <4>2
        <4> QED
          BY <4>1, <4>2, <4>3, Zenon DEF x
      <3> QED
        BY <3>7 DEF t, m
    <2> DEFINE T == {n \in Nat : n <= N => Segments(f[n]) = SubSeq(a, 1, n)}
    <2>6. 0 \in T
      <3>1. SubSeq(a, 1, 0) = <<>>
        BY SubSeqEmpty
      <3> QED
        BY <2>4, <3>1, SegmentsEmpty
    <2>7. ASSUME NEW n \in Nat, n \in T PROVE n + 1 \in T
      <3>1. CASE n + 1 <= N
        <4> DEFINE k == n + 1
        <4>1. k \in 1 .. N /\ k - 1 = n /\ n <= N
          BY <1>0, <3>1
        <4>2. Segments(f[k - 1]) = SubSeq(a, 1, k - 1)
          BY <2>7, <4>1
        <4> HIDE DEF k
        <4>3. SubSeq(a, 1, k) = Append(SubSeq(a, 1, k - 1), a[k])
          BY <4>1, SubSeqNext
        <4>4. Segments(f[k]) = SubSeq(a, 1, k)
          BY <2>5, <4>1, <4>2, <4>3
        <4> QED
          BY <4>4 DEF k
      <3> QED
        BY <3>1
    <2> HIDE DEF T
    <2>8. Nat \subseteq T
      BY <2>6, <2>7, SetInduction
    <2>9. Segments(f[N]) = SubSeq(a, 1, N)
      BY <1>0, <2>8 DEF T
    <2>10. SubSeq(a, 1, N) = a
      BY SubSeqFull
    <2>11. N \in 0 .. N /\ N \in 1 .. N
      BY <1>0, <1>2, EmptySeq
    <2> QED
      BY <2>1, <2>4, <2>5, <2>9, <2>10, <2>11
  <1> QED
    BY <1>1, <1>2

\* A text that starts with another and breaks there on a slash is the text of
\* a path that starts with the other's.
LEMMA UnderPrefix ==
  ASSUME NEW a \in Seq(Name), NEW b \in Seq(Name), Under(Text(b), Text(a))
  PROVE  IsPrefix(a, b)
  <1> DEFINE x == Text(b)
             r == Text(a)
             n == Len(r)
  <1>1. x \in Seq(Nat) /\ Segments(x) = b /\ r \in Seq(Nat) /\ Segments(r) = a /\ (a # <<>> => n > 1)
    BY TextSegments
  <1>2. Len(x) >= n /\ SubSeq(x, 1, n) = r /\ (n > 1 /\ Len(x) > n => x[n + 1] = Slash)
    BY DEF Under
  <1> HIDE DEF x, r
  <1>3. n \in Nat /\ Len(x) \in Nat
    BY <1>1, LenProperties
  <1>4. CASE a = <<>>
    <2>1. Len(a) = 0 /\ Len(b) \in Nat
      BY <1>4, LenProperties
    <2>2. Len(a) <= Len(b) /\ \A i \in 1 .. Len(a) : b[i] = a[i]
      BY <2>1
    <2> QED
      BY <2>2, PrefixOf
  <1>5. CASE a # <<>>
    <2>1. PICK f : SegsOf(x, f) /\ Segments(x) = f[Len(x)]
      BY <1>1, SegmentsDef
    <2>2. n \in 0 .. Len(x) /\ (n < Len(x) => x[n + 1] = Slash)
      BY <1>1, <1>2, <1>3, <1>5
    <2>3. Segments(SubSeq(x, 1, n)) = f[n]
      BY <1>1, <2>1, <2>2, SegPrefix
    <2>4. IsPrefix(f[n], Segments(x))
      <3> HIDE DEF n
      <3> QED
        BY <1>1, <2>1, <2>2, SegExtends
    <2> QED
      BY <1>1, <1>2, <2>3, <2>4
  <1> QED
    BY <1>4, <1>5

-----------------------------------------------------------------------------
(***************************************************************************)
(* realpath: the walk ends, and ends as a path or one of its errors.       *)
(***************************************************************************)
\* The states of a walk.
Walk == [done : Seq(Name), rest : Seq(Name), links : 0 .. LinkMax,
         err : {"walking", "OK", "ENOENT", "ENOTDIR", "ELOOP"}]

Start(path_) == [done |-> <<>>, rest |-> path_, links |-> LinkMax, err |-> "walking"]

\* what a walk has left to do
Left(w) == IF w.err = "walking" THEN Len(w.rest) + MaxLink * w.links + 1 ELSE 0

\* A step of a walk stays a walk, and does some of what is left.
LEMMA FollowType ==
  ASSUME NEW w \in Walk
  PROVE  /\ Follow(w) \in Walk
         /\ w.err # "walking" => Follow(w) = w
         /\ w.err = "walking" => Left(Follow(w)) < Left(w)
         /\ Left(w) \in Nat
  <1> DEFINE at == Append(w.done, Head(w.rest))
             past == [w EXCEPT !.rest = Tail(@)]
             R == Len(w.rest)
             v == Follow(w)
             Good == v \in Walk /\ (w.err = "walking" => Left(v) < Left(w))
  <1>1. /\ w.done \in Seq(Name) /\ w.rest \in Seq(Name) /\ w.links \in 0 .. LinkMax
        /\ w.err \in {"walking", "OK", "ENOENT", "ENOTDIR", "ELOOP"} /\ R \in Nat
        /\ w = [done |-> w.done, rest |-> w.rest, links |-> w.links, err |-> w.err]
    BY LenProperties DEF Walk
  <1>2. MaxLink \in Nat /\ LinkMax = 4 /\ \A l \in 0 .. LinkMax : MaxLink * l \in Nat
    BY JailAssumption DEF LinkMax
  <1>3. \A l \in 1 .. LinkMax : MaxLink * l = MaxLink * (l - 1) + MaxLink
    BY <1>2
  <1>4. Left(w) \in Nat /\ (w.err = "walking" => Left(w) = R + MaxLink * w.links + 1 /\ Left(w) > 0)
    <2> DEFINE q == MaxLink * w.links
    <2>1. q \in Nat
      BY <1>1, <1>2
    <2>2. Left(w) = IF w.err = "walking" THEN R + q + 1 ELSE 0
      BY DEF Left
    <2> HIDE DEF q, R
    <2>3. Left(w) \in Nat /\ (w.err = "walking" => Left(w) = R + q + 1 /\ Left(w) > 0)
      BY <1>1, <2>1, <2>2
    <2> QED
      BY <2>3 DEF q
  <1>5. \A e \in {"OK", "ENOENT", "ENOTDIR", "ELOOP"} :
          [w EXCEPT !.err = e] \in Walk /\ Left([w EXCEPT !.err = e]) = 0
    <2> TAKE e \in {"OK", "ENOENT", "ENOTDIR", "ELOOP"}
    <2> DEFINE x == [w EXCEPT !.err = e]
    <2>1. x = [done |-> w.done, rest |-> w.rest, links |-> w.links, err |-> e]
      BY <1>1
    <2> HIDE DEF x
    <2>2. x \in Walk
      BY <1>1, <2>1 DEF Walk
    <2>3. x.err # "walking"
      BY <2>1
    <2>4. Left(x) = 0
      BY <2>3 DEF Left
    <2> QED
      BY <2>2, <2>4 DEF x
  <1>6. CASE w.err # "walking"
    <2>1. Follow(w) = w
      BY <1>6 DEF Follow
    <2> QED
      BY <1>4, <1>6, <2>1
  <1>7. CASE w.err = "walking" /\ w.rest = <<>>
    <2>1. v = [w EXCEPT !.err = "OK"]
      BY <1>7 DEF Follow
    <2> QED
      BY <1>4, <1>5, <1>7, <2>1
  <1>8. CASE w.err = "walking" /\ w.rest # <<>>
    <2> SUFFICES Good
      BY <1>4, <1>8
    <2>1. Head(w.rest) \in Name /\ Tail(w.rest) \in Seq(Name) /\ Len(Tail(w.rest)) = R - 1
      BY <1>1, <1>8, HeadTailProperties
    <2>2. at \in Seq(Name)
      BY <1>1, <2>1, AppendProperties
    <2>3. \A d \in Seq(Name) :
            [past EXCEPT !.done = d] \in Walk /\ Left([past EXCEPT !.done = d]) < Left(w)
      <3> TAKE d \in Seq(Name)
      <3> DEFINE x == [past EXCEPT !.done = d]
      <3>1. x = [done |-> d, rest |-> Tail(w.rest), links |-> w.links, err |-> "walking"]
        <4> DEFINE tl == Tail(w.rest)
        <4> HIDE DEF tl
        <4>1. past = [w EXCEPT !.rest = tl]
          BY DEF tl
        <4>2. past = [done |-> w.done, rest |-> tl, links |-> w.links, err |-> "walking"]
          <5> HIDE DEF past
          <5> QED
            BY <1>1, <1>8, <4>1
        <4> HIDE DEF past
        <4>3. x = [done |-> d, rest |-> tl, links |-> w.links, err |-> "walking"]
          BY <4>2
        <4> QED
          BY <4>3 DEF tl
      <3> HIDE DEF x
      <3>2. x \in Walk
        BY <1>1, <2>1, <3>1 DEF Walk
      <3> DEFINE q == MaxLink * w.links
      <3>3. Left(x) = (R - 1) + q + 1 /\ Left(w) = R + q + 1
        BY <1>4, <1>8, <2>1, <3>1 DEF Left
      <3>4. q \in Nat
        BY <1>1, <1>2
      <3> HIDE DEF q, R
      <3>5. Left(x) < Left(w)
        BY <1>1, <3>3, <3>4
      <3> QED
        BY <3>2, <3>5 DEF x
    <2>4. past \in Walk /\ Left(past) < Left(w)
      <3>1. past = [past EXCEPT !.done = w.done]
        BY <1>1
      <3> QED
        BY <1>1, <2>3, <3>1
    <2> DEFINE K == Tree[w.done].kind
               h == Head(w.rest)
    <2>5. v = IF K = "file" THEN [w EXCEPT !.err = "ENOTDIR"]
              ELSE IF h = <<Dot>> THEN past
              ELSE IF h = <<Dot, Dot>> THEN [past EXCEPT !.done = IF @ = <<>> THEN @ ELSE Front(@)]
              ELSE IF at \notin DOMAIN Tree THEN [w EXCEPT !.err = "ENOENT"]
              ELSE IF Tree[at].kind # "link" THEN [past EXCEPT !.done = at]
              ELSE IF w.links = 0 THEN [w EXCEPT !.err = "ELOOP"]
              ELSE [w EXCEPT !.done = <<>>, !.rest = Tree[at].to \o Tail(@), !.links = @ - 1]
      BY <1>8 DEF Follow
    <2>6. past.done = w.done
      BY <1>1
    <2> HIDE DEF at, past, K, h, v
    <2>7. CASE K = "file"
      BY <1>4, <1>5, <1>8, <2>5, <2>7
    <2>8. CASE K # "file" /\ h = <<Dot>>
      BY <2>4, <2>5, <2>8
    <2>9. CASE K # "file" /\ h # <<Dot>> /\ h = <<Dot, Dot>>
      <3> DEFINE d == IF w.done = <<>> THEN w.done ELSE Front(w.done)
      <3>1. d \in Seq(Name)
        BY <1>1, FrontIn
      <3>2. v = [past EXCEPT !.done = d]
        BY <2>5, <2>6, <2>9
      <3> HIDE DEF d
      <3> QED
        BY <2>3, <3>1, <3>2
    <2>10. CASE K # "file" /\ h # <<Dot>> /\ h # <<Dot, Dot>> /\ at \notin DOMAIN Tree
      BY <1>4, <1>5, <1>8, <2>5, <2>10
    <2>11. CASE /\ K # "file" /\ h # <<Dot>> /\ h # <<Dot, Dot>> /\ at \in DOMAIN Tree
                /\ Tree[at].kind # "link"
      BY <2>2, <2>3, <2>5, <2>11
    <2>12. CASE /\ K # "file" /\ h # <<Dot>> /\ h # <<Dot, Dot>> /\ at \in DOMAIN Tree
                /\ Tree[at].kind = "link" /\ w.links = 0
      BY <1>4, <1>5, <1>8, <2>5, <2>12
    <2>13. CASE /\ K # "file" /\ h # <<Dot>> /\ h # <<Dot, Dot>> /\ at \in DOMAIN Tree
                /\ Tree[at].kind = "link" /\ w.links # 0
      <3> DEFINE to == Tree[at].to
                 rest == to \o Tail(w.rest)
      <3>1. to \in Seq(Name) /\ Len(to) <= MaxLink /\ Len(to) \in Nat
        BY <2>13, JailAssumption, LenProperties
      <3>2. rest \in Seq(Name) /\ Len(rest) = Len(to) + (R - 1)
        BY <2>1, <3>1, ConcatProperties
      <3>3. v = [w EXCEPT !.done = <<>>, !.rest = rest, !.links = @ - 1]
        BY <2>5, <2>13
      <3> HIDE DEF rest, to
      <3>4. v = [done |-> <<>>, rest |-> rest, links |-> w.links - 1, err |-> "walking"]
        BY <1>1, <1>8, <3>3
      <3>5. w.links - 1 \in 0 .. LinkMax /\ w.links \in 1 .. LinkMax
        BY <1>1, <1>2, <2>13
      <3>6. v \in Walk
        BY <3>2, <3>4, <3>5, EmptySeq DEF Walk
      <3>7. Left(v) = Len(to) + (R - 1) + MaxLink * (w.links - 1) + 1
        BY <3>2, <3>4 DEF Left
      <3> DEFINE p == MaxLink * (w.links - 1)
      <3>8. Left(w) = R + (p + MaxLink) + 1 /\ p \in Nat
        BY <1>2, <1>3, <1>4, <1>8, <3>5
      <3> HIDE DEF p
      <3>9. Left(v) = Len(to) + (R - 1) + p + 1
        BY <3>7 DEF p
      <3>10. Left(v) < Left(w)
        BY <1>1, <1>2, <3>1, <3>8, <3>9
      <3> QED
        BY <3>6, <3>10
    <2> QED
      BY <2>7, <2>8, <2>9, <2>10, <2>11, <2>12, <2>13
  <1> QED
    BY <1>4, <1>6, <1>7, <1>8

\* f holds the states of the walk along p.
Walks(p, f) ==
  /\ f \in [0 .. Steps(p) -> Walk] /\ f[0] = Start(p)
  /\ \A n \in 1 .. Steps(p) : f[n] = Follow(f[n - 1])

\* A walk of a path starts in a state of walks, with that many steps left.
LEMMA StepsNat ==
  ASSUME NEW p \in Seq(Name)
  PROVE  Steps(p) \in Nat /\ Steps(p) >= 1 /\ Start(p) \in Walk /\ Left(Start(p)) = Steps(p)
  <1>1. Len(p) \in Nat /\ <<>> \in Seq(Name)
    BY LenProperties, EmptySeq
  <1> DEFINE q == LinkMax * MaxLink
             r == MaxLink * LinkMax
  <1>2. q \in Nat /\ r = q
    BY JailAssumption DEF LinkMax
  <1>3. Steps(p) = Len(p) + q + 1
    BY DEF Steps
  <1>4. Start(p) \in Walk
    BY <1>1 DEF Start, Walk, LinkMax
  <1>5. Left(Start(p)) = Len(p) + r + 1
    BY DEF Left, Start
  <1> HIDE DEF q, r
  <1> QED
    BY <1>1, <1>2, <1>3, <1>4, <1>5

\* realpath is the end of a walk.
LEMMA RealDef ==
  ASSUME NEW p \in Seq(Name)
  PROVE  \E f : /\ Walks(p, f)
                /\ Real(p) = IF f[Steps(p)].err = "OK" THEN Ok(f[Steps(p)].done) ELSE Err(f[Steps(p)].err)
  <1> DEFINE N == Steps(p)
             X == Walk
             F == [n \in 1 .. N |-> [w \in X |-> Follow(w)]]
             base == Start(p)
  <1>1. N \in Nat /\ base \in X
    BY StepsNat
  <1>2. F \in [1 .. N -> [X -> X]]
    <2> HIDE DEF X, N
    <2>1. \A w \in X : Follow(w) \in X
      BY FollowType DEF X
    <2> QED
      BY <2>1
  <1>3. \A n \in 1 .. N, w \in X : F[n][w] = Follow(w)
    OBVIOUS
  <1> HIDE DEF F, X, N, base
  <1>4. PICK f : Iterates(N, X, base, F, f)
    BY <1>1, <1>2, Iteration, Zenon
  <1>5. f \in [0 .. N -> X] /\ f[0] = base /\ \A n \in 1 .. N : f[n] = F[n][f[n - 1]]
    BY <1>4 DEF Iterates
  <1>6. \A n \in 1 .. N : n \in 0 .. N /\ n - 1 \in 0 .. N /\ n # 0
    BY <1>1
  <1>7. \A n \in 1 .. N : f[n] = Follow(f[n - 1])
    <2>1. ASSUME NEW n \in 1 .. N PROVE f[n] = Follow(f[n - 1])
      <3>1. f[n - 1] \in X /\ f[n] = F[n][f[n - 1]]
        BY <1>5, <1>6
      <3> QED
        BY <1>3, <3>1
    <2> QED
      BY <2>1
  <1> DEFINE Step(g, n) == IF n = 0 THEN [done |-> <<>>, rest |-> p, links |-> LinkMax, err |-> "walking"]
                           ELSE Follow(g[n - 1])
             walk == CHOOSE walk : walk = [n \in 0 .. Steps(p) |-> Step(walk, n)]
             end == walk[Steps(p)]
  <1>8. Real(p) = IF end.err = "OK" THEN Ok(end.done) ELSE Err(end.err)
    BY DEF Real
  <1>9. (\A g : Step(g, 0) = base) /\ \A n \in 1 .. N : \A g : Step(g, n) = Follow(g[n - 1])
    BY <1>6 DEF base, Start
  <1> HIDE DEF Step
  <1>10. f = [n \in 0 .. N |-> Step(f, n)]
    <2>1. ASSUME NEW n \in 0 .. N PROVE f[n] = Step(f, n)
      <3>1. CASE n = 0
        BY <1>5, <1>9, <3>1
      <3>2. CASE n # 0
        <4>1. n \in 1 .. N
          BY <1>1, <3>2
        <4> QED
          BY <1>7, <1>9, <4>1
      <3> QED
        BY <3>1, <3>2
    <2> QED
      BY <1>5, <2>1
  <1>11. walk = [n \in 0 .. N |-> Step(walk, n)]
    BY <1>10 DEF N
  <1> HIDE DEF walk
  <1>12. walk[0] = base /\ \A n \in 1 .. N : walk[n] = Follow(walk[n - 1])
    BY <1>1, <1>6, <1>9, <1>11
  <1>13. Follows(N, X, base, F, walk)
    BY <1>3, <1>12 DEF Follows
  <1>14. \A n \in 0 .. N : walk[n] = f[n]
    BY <1>1, <1>4, <1>13, IterationUnique
  <1>15. walk[N] = f[N]
    BY <1>1, <1>14
  <1>16. Walks(p, f)
    BY <1>5, <1>7 DEF Walks, N, X, base
  <1> QED
    BY <1>8, <1>15, <1>16 DEF N

\* Every walk ends within its bound: realpath resolves a path to names, or fails
\* with ENOENT, ENOTDIR or ELOOP.
THEOREM RealEnds ==
  ASSUME NEW p \in Seq(Name)
  PROVE  Real(p).err \in {"OK", "ENOENT", "ENOTDIR", "ELOOP"} /\ Real(p).val \in Seq(Name)
  <1> DEFINE N == Steps(p)
  <1>1. PICK f : /\ Walks(p, f)
                 /\ Real(p) = IF f[N].err = "OK" THEN Ok(f[N].done) ELSE Err(f[N].err)
    BY RealDef
  <1>2. N \in Nat /\ Left(Start(p)) = N
    BY StepsNat
  <1>3. /\ \A n \in 0 .. N : f[n] \in Walk
        /\ f[0] = Start(p) /\ \A n \in 1 .. N : f[n] = Follow(f[n - 1])
    BY <1>1 DEF Walks
  <1> HIDE DEF N
  <1> DEFINE T == {n \in Nat : n <= N => (f[n].err = "walking" => Left(f[n]) <= N - n)}
  <1>4. 0 \in T
    BY <1>2, <1>3
  <1>5. ASSUME NEW n \in Nat, n \in T PROVE n + 1 \in T
    <2>1. CASE n + 1 <= N
      <3>1. n + 1 \in 1 .. N /\ (n + 1) - 1 = n /\ n \in 0 .. N /\ n + 1 \in 0 .. N /\ n <= N
        BY <1>2, <2>1
      <3> DEFINE w == f[n]
                 v == f[n + 1]
      <3>2. w \in Walk /\ v \in Walk /\ v = Follow(w)
        BY <1>3, <3>1
      <3>3. w.err = "walking" => Left(w) <= N - n
        BY <1>5, <3>1
      <3> HIDE DEF w, v
      <3>4. Left(w) \in Nat /\ Left(v) \in Nat
        BY <3>2, FollowType
      <3>5. v.err = "walking" => Left(v) <= N - (n + 1)
        <4>1. SUFFICES ASSUME v.err = "walking" PROVE Left(v) <= N - (n + 1)
          OBVIOUS
        <4>2. w.err = "walking"
          BY <3>2, <4>1, FollowType
        <4>3. Left(v) < Left(w)
          BY <3>2, <4>2, FollowType
        <4> QED
          BY <1>2, <3>3, <3>4, <4>2, <4>3
      <3> QED
        BY <3>5 DEF v
    <2> QED
      BY <2>1
  <1> HIDE DEF T
  <1>6. Nat \subseteq T
    BY <1>4, <1>5, SetInduction
  <1> DEFINE e == f[N]
  <1>7. e \in Walk
    BY <1>2, <1>3
  <1>8. e.err = "walking" => Left(e) <= N - N
    BY <1>2, <1>6 DEF T
  <1>9. Real(p) = IF e.err = "OK" THEN Ok(e.done) ELSE Err(e.err)
    BY <1>1
  <1> HIDE DEF e
  <1>10. e.err # "walking"
    <2>1. SUFFICES ASSUME e.err = "walking" PROVE FALSE
      OBVIOUS
    <2>2. Left(Follow(e)) < Left(e) /\ Left(e) \in Nat /\ Left(Follow(e)) \in Nat
      BY <1>7, <2>1, FollowType
    <2> QED
      BY <1>2, <1>8, <2>1, <2>2
  <1>11. e.done \in Seq(Name) /\ e.err \in {"walking", "OK", "ENOENT", "ENOTDIR", "ELOOP"}
    BY <1>7 DEF Walk
  <1>12. <<>> \in Seq(Name)
    BY EmptySeq
  <1> QED
    BY <1>9, <1>10, <1>11, <1>12 DEF Ok, Err

\* The walk along no names ends where it starts.
LEMMA RealEmpty == Real(<<>>) = Ok(<<>>)
  <1> DEFINE p == <<>>
             N == Steps(p)
  <1>1. p \in Seq(Name)
    BY EmptySeq
  <1>2. PICK f : /\ Walks(p, f)
                 /\ Real(p) = IF f[N].err = "OK" THEN Ok(f[N].done) ELSE Err(f[N].err)
    BY <1>1, RealDef
  <1>3. N \in Nat /\ N >= 1
    BY <1>1, StepsNat
  <1> HIDE DEF N, p
  <1>4. f[0] = Start(p) /\ \A n \in 1 .. N : f[n] = Follow(f[n - 1])
    BY <1>2 DEF Walks, N
  <1> DEFINE e == [done |-> <<>>, rest |-> p, links |-> LinkMax, err |-> "OK"]
  <1>5. Follow(Start(p)) = e
    BY DEF Start, Follow, p
  <1>6. Follow(e) = e
    BY DEF Follow
  <1> DEFINE T == {n \in Nat : n + 1 <= N => f[n + 1] = e}
  <1> HIDE DEF e
  <1>7. 0 \in T
    <2>1. 1 \in 1 .. N /\ 1 - 1 = 0
      BY <1>3
    <2>2. f[1] = Follow(f[1 - 1])
      BY <1>4, <2>1
    <2> QED
      BY <1>4, <1>5, <2>1, <2>2
  <1>8. ASSUME NEW n \in Nat, n \in T PROVE n + 1 \in T
    <2>1. CASE (n + 1) + 1 <= N
      <3>1. (n + 1) + 1 \in 1 .. N /\ ((n + 1) + 1) - 1 = n + 1 /\ n + 1 <= N
        BY <1>3, <2>1
      <3>2. f[(n + 1) + 1] = Follow(f[n + 1])
        BY <1>4, <3>1
      <3> QED
        BY <1>6, <1>8, <3>1, <3>2
    <2> QED
      BY <2>1
  <1> HIDE DEF T
  <1>9. Nat \subseteq T
    BY <1>7, <1>8, SetInduction
  <1>10. N - 1 \in T /\ (N - 1) + 1 = N
    BY <1>3, <1>9
  <1>11. f[N] = e
    BY <1>3, <1>10 DEF T
  <1> QED
    BY <1>2, <1>11 DEF e, p

-----------------------------------------------------------------------------
(***************************************************************************)
(* fsapi_contained: what it lets through lies in the share.                *)
(***************************************************************************)
\* The beginnings of a path of names.
LEMMA PrefixIn ==
  ASSUME NEW q \in Seq(Name), NEW n \in 0 .. Len(q)
  PROVE  SubSeq(q, 1, n) \in Seq(Name)
  <1>1. Len(q) \in Nat
    BY LenProperties
  <1>2. \A i \in 1 .. n : q[i] \in Name
    BY <1>1, ElementOfSeq
  <1>3. 1 \in Int /\ n \in Int
    BY <1>1
  <1> QED
    BY <1>2, <1>3, SubSeqProperties

\* What fsapi_contained has found when it accepts: an ancestor that exists, below
\* which nothing exists, and that is under the root.
LEMMA ContainedFinds ==
  ASSUME NEW r, NEW t \in Seq(Nat), fsapi_contained(r, t)
  PROVE  LET q == Segments(t)
             R(n) == Real(SubSeq(q, 1, n))
         IN  /\ Real(Segments(r)).err = "OK"
             /\ \E m \in 0 .. Len(q) :
                  /\ R(m).err = "OK" /\ Under(Text(R(m).val), Text(Real(Segments(r)).val))
                  /\ \A i \in m + 1 .. Len(q) : R(i).err \in {"ENOENT", "ENOTDIR"}
  <1> DEFINE q == Segments(t)
             R(n) == Real(SubSeq(q, 1, n))
             rootc == Real(Segments(r))
             N == Len(q)
             Yes(n) == R(n).err = "OK"
             Und(n) == Under(Text(R(n).val), Text(rootc.val))
             Gone(n) == R(n).err \in {"ENOENT", "ENOTDIR"}
             Step(g, n) == IF Yes(n) THEN Und(n) ELSE Gone(n) /\ n > 1 /\ g[n - 1]
             from == CHOOSE from : from = [n \in 0 .. N |-> Step(from, n)]
             Val(n, b) == IF Yes(n) THEN Und(n) ELSE Gone(n) /\ n > 1 /\ b
             F == [n \in 1 .. N |-> [b \in BOOLEAN |-> Val(n, b)]]
             base == Val(0, FALSE)
  <1>1. rootc.err = "OK" /\ from[N]
    BY DEF fsapi_contained
  <1>2. q \in Seq(Name) /\ N \in Nat
    BY SegmentsType, LenProperties
  <1>3. \A n : Yes(n) => ~Gone(n)
    OBVIOUS
  <1> HIDE DEF q, N, Yes, Und, Gone
  <1>4. (\A n \in 1 .. N, b \in BOOLEAN : Val(n, b) \in BOOLEAN) /\ base \in BOOLEAN
    <2>1. \A n : Und(n) \in BOOLEAN /\ Yes(n) \in BOOLEAN /\ Gone(n) \in BOOLEAN
      BY DEF Und, Under, Yes, Gone
    <2> QED
      BY <2>1
  <1> HIDE DEF Val, base
  <1>5. F \in [1 .. N -> [BOOLEAN -> BOOLEAN]]
    BY <1>4
  <1>6. \A n \in 1 .. N, b \in BOOLEAN : F[n][b] = Val(n, b)
    OBVIOUS
  <1> DEFINE X == BOOLEAN
  <1> HIDE DEF F, X
  <1>7. PICK f : Iterates(N, X, base, F, f)
    <2>1. base \in X /\ F \in [1 .. N -> [X -> X]]
      BY <1>4, <1>5 DEF X
    <2> QED
      BY <1>2, <2>1, Iteration, Zenon
  <1>8. f \in [0 .. N -> BOOLEAN] /\ f[0] = base /\ \A n \in 1 .. N : f[n] = F[n][f[n - 1]]
    BY <1>7 DEF Iterates, X
  <1>9. \A n \in 1 .. N : n \in 0 .. N /\ n - 1 \in 0 .. N /\ n # 0
    BY <1>2
  <1>10. \A n \in 1 .. N : f[n] = Val(n, f[n - 1])
    <2>1. ASSUME NEW n \in 1 .. N PROVE f[n] = Val(n, f[n - 1])
      <3>1. f[n - 1] \in BOOLEAN /\ f[n] = F[n][f[n - 1]]
        BY <1>8, <1>9
      <3> QED
        BY <1>6, <3>1
    <2> QED
      BY <2>1
  <1>11. \A g : Step(g, 0) = base
    BY DEF base, Val
  <1>12. \A n \in 1 .. N : \A g : Step(g, n) = Val(n, g[n - 1])
    BY DEF Val
  <1> HIDE DEF Step
  <1>13. f = [n \in 0 .. N |-> Step(f, n)]
    <2>1. ASSUME NEW n \in 0 .. N PROVE f[n] = Step(f, n)
      <3>1. CASE n = 0
        BY <1>8, <1>11, <3>1
      <3>2. CASE n # 0
        <4>1. n \in 1 .. N
          BY <1>2, <3>2
        <4> QED
          BY <1>10, <1>12, <4>1
      <3> QED
        BY <3>1, <3>2
    <2> QED
      BY <1>8, <2>1
  <1>14. from = [n \in 0 .. N |-> Step(from, n)]
    BY <1>13
  <1> HIDE DEF from
  <1>15. /\ from[0] => Yes(0) /\ Und(0)
         /\ \A n \in 1 .. N : from[n] => (Yes(n) /\ Und(n)) \/ (Gone(n) /\ from[n - 1])
    <2>1. from[0] = base
      BY <1>2, <1>11, <1>14
    <2>2. base => Yes(0) /\ Und(0)
      BY DEF base, Val
    <2>3. \A n \in 1 .. N : from[n] = Val(n, from[n - 1])
      BY <1>9, <1>12, <1>14
    <2>4. \A n, b : Val(n, b) => (Yes(n) /\ Und(n)) \/ (Gone(n) /\ b)
      BY DEF Val
    <2> QED
      BY <2>1, <2>2, <2>3, <2>4
  <1> DEFINE Found(m) == Yes(m) /\ Und(m) /\ \A i \in m + 1 .. N : Gone(i)
             T == {k \in Nat : k <= N => (\E m \in 0 .. N : Found(m)) \/ (from[N - k] /\ \A i \in N - k + 1 .. N : Gone(i))}
  <1>16. 0 \in T
    BY <1>1, <1>2
  <1>17. ASSUME NEW k \in Nat, k \in T PROVE k + 1 \in T
    <2> DEFINE n == N - k
    <2>1. SUFFICES ASSUME k + 1 <= N, ~ \E m \in 0 .. N : Found(m)
                   PROVE  from[N - (k + 1)] /\ \A i \in N - (k + 1) + 1 .. N : Gone(i)
      OBVIOUS
    <2>2. n \in 1 .. N /\ n - 1 = N - (k + 1) /\ N - (k + 1) + 1 = n /\ k <= N /\ n \in 0 .. N
      BY <1>2, <2>1
    <2>3. from[n] /\ \A i \in n + 1 .. N : Gone(i)
      BY <1>17, <2>1, <2>2
    <2> HIDE DEF n
    <2>4. ~(Yes(n) /\ Und(n))
      BY <2>1, <2>2, <2>3
    <2>5. Gone(n) /\ from[n - 1]
      BY <1>15, <2>2, <2>3, <2>4
    <2>6. \A i \in n .. N : Gone(i)
      BY <2>2, <2>3, <2>5
    <2> QED
      BY <2>2, <2>5, <2>6
  <1> HIDE DEF T
  <1>18. Nat \subseteq T
    BY <1>16, <1>17, SetInduction
  <1>19. (\E m \in 0 .. N : Found(m)) \/ (from[0] /\ \A i \in 1 .. N : Gone(i))
    <2>1. N \in T /\ N - N = 0 /\ N - N + 1 = 1
      BY <1>2, <1>18
    <2> QED
      BY <1>2, <2>1 DEF T
  <1>20. \E m \in 0 .. N : Found(m)
    BY <1>2, <1>15, <1>19
  <1> QED
    BY <1>1, <1>20 DEF q, N, Yes, Und, Gone

\* A path that fsapi_contained accepts lies in the share: the comparison of texts
\* is one of paths.
THEOREM ContainedInside ==
  ASSUME NEW r \in Seq(Nat), NEW t \in Seq(Nat), fsapi_contained(r, t)
  PROVE  /\ IsPrefix(Real(Segments(r)).val, Deepest(Segments(t)))
         /\ Real(Segments(t)).err \in {"OK", "ENOENT", "ENOTDIR"}
  <1> DEFINE q == Segments(t)
             R(n) == Real(SubSeq(q, 1, n))
             N == Len(q)
             there == {n \in 0 .. N : R(n).err = "OK"}
             a == Real(Segments(r)).val
  <1>1. q \in Seq(Name) /\ N \in Nat /\ Segments(r) \in Seq(Name)
    BY SegmentsType, LenProperties
  <1>2. PICK m \in 0 .. N :
          /\ R(m).err = "OK" /\ Under(Text(R(m).val), Text(a))
          /\ \A i \in m + 1 .. N : R(i).err \in {"ENOENT", "ENOTDIR"}
    BY ContainedFinds
  <1>3. Max(there) = m
    <2>1. m \in there /\ there \in SUBSET Int
      BY <1>2
    <2>2. ASSUME NEW y \in there PROVE m >= y
      <3>1. y \in 0 .. N /\ R(y).err = "OK"
        OBVIOUS
      <3> HIDE DEF there, R, q
      <3>2. y \notin m + 1 .. N
        BY <1>2, <3>1
      <3> QED
        BY <1>1, <3>1, <3>2
    <2> HIDE DEF there
    <2> QED
      BY <2>1, <2>2, MaxIs
  <1>4. Deepest(q) = R(m).val
    <2>1. Deepest(q) = R(Max(there)).val
      BY DEF Deepest
    <2> HIDE DEF there, R
    <2> QED
      BY <1>3, <2>1
  <1>5. a \in Seq(Name) /\ R(m).val \in Seq(Name)
    <2> HIDE DEF q
    <2>1. SubSeq(q, 1, m) \in Seq(Name)
      BY <1>1, PrefixIn
    <2> QED
      BY <1>1, <2>1, RealEnds
  <1>6. IsPrefix(a, R(m).val)
    <2> HIDE DEF a, R
    <2> QED
      BY <1>2, <1>5, UnderPrefix
  <1>7. R(N) = Real(q)
    BY <1>1, SubSeqFull
  <1>8. m = N \/ N \in m + 1 .. N
    BY <1>1
  <1>9. R(N).err \in {"OK", "ENOENT", "ENOTDIR"}
    <2> HIDE DEF R
    <2> QED
      BY <1>2, <1>8
  <1> QED
    BY <1>4, <1>6, <1>7, <1>9

-----------------------------------------------------------------------------
(***************************************************************************)
(* The walk of a path, by its names and by its characters.                 *)
(***************************************************************************)
\* Where names lead from the root of the share, and whether ".." is one of them.
Place  == [at : Seq(Name), up : BOOLEAN]

Origin == [at |-> <<>>, up |-> FALSE]

Enter(p, m) == IF m = <<Dot>> THEN p ELSE [at |-> Append(p.at, m), up |-> p.up \/ m = <<Dot, Dot>>]

Go(s) ==
  LET g[n \in 0 .. Len(s)] == IF n = 0 THEN Origin ELSE Enter(g[n - 1], s[n])
  IN  g[Len(s)]

\* g holds the places along s.
Goes(s, g) ==
  g \in [0 .. Len(s) -> Place] /\ g[0] = Origin /\ \A n \in 1 .. Len(s) : g[n] = Enter(g[n - 1], s[n])

\* Entering a name leads from a place to a place.
LEMMA EnterType ==
  ASSUME NEW p \in Place, NEW m \in Name
  PROVE  Enter(p, m) \in Place
  <1>1. p.at \in Seq(Name) /\ p.up \in BOOLEAN /\ Append(p.at, m) \in Seq(Name)
    BY AppendProperties DEF Place
  <1>2. (p.up \/ m = <<Dot, Dot>>) \in BOOLEAN
    BY <1>1
  <1> QED
    BY <1>1, <1>2 DEF Enter, Place

\* What Go computes: the one function that holds the places along a sequence.
LEMMA GoDef ==
  ASSUME NEW s \in Seq(Name)
  PROVE  /\ \E f : Goes(s, f)
         /\ \A f : Goes(s, f) => Go(s) = f[Len(s)]
  <1> DEFINE N == Len(s)
             F == [n \in 1 .. N |-> [p \in Place |-> Enter(p, s[n])]]
  <1>1. N \in Nat /\ Origin \in Place
    BY LenProperties, EmptySeq DEF Origin, Place
  <1>2. \A n \in 1 .. N, p \in Place : Enter(p, s[n]) \in Place
    BY ElementOfSeq, EnterType
  <1>3. F \in [1 .. N -> [Place -> Place]] /\ \A n \in 1 .. N, p \in Place : F[n][p] = Enter(p, s[n])
    <2> HIDE DEF N
    <2> QED
      BY <1>2
  <1> HIDE DEF F, N
  <1>4. PICK f : Iterates(N, Place, Origin, F, f)
    BY <1>1, <1>3, Iteration, Zenon
  <1>5. f \in [0 .. N -> Place] /\ f[0] = Origin /\ \A n \in 1 .. N : f[n] = F[n][f[n - 1]]
    BY <1>4 DEF Iterates
  <1>6. \A n \in 1 .. N : n \in 0 .. N /\ n - 1 \in 0 .. N /\ n # 0
    BY <1>1
  <1>7. \A n \in 1 .. N : f[n] = Enter(f[n - 1], s[n])
    <2>1. ASSUME NEW n \in 1 .. N PROVE f[n] = Enter(f[n - 1], s[n])
      <3>1. f[n - 1] \in Place /\ f[n] = F[n][f[n - 1]]
        BY <1>5, <1>6
      <3> QED
        BY <1>3, <3>1
    <2> QED
      BY <2>1
  <1> DEFINE Step(g, n) == IF n = 0 THEN Origin ELSE Enter(g[n - 1], s[n])
             g == CHOOSE g : g = [n \in 0 .. Len(s) |-> Step(g, n)]
  <1>8. Go(s) = g[Len(s)]
    BY DEF Go
  <1>9. (\A h : Step(h, 0) = Origin) /\ \A n \in 1 .. N : \A h : Step(h, n) = Enter(h[n - 1], s[n])
    BY <1>6
  <1> HIDE DEF Step
  <1>10. f = [n \in 0 .. N |-> Step(f, n)]
    <2>1. ASSUME NEW n \in 0 .. N PROVE f[n] = Step(f, n)
      <3>1. CASE n = 0
        BY <1>5, <1>9, <3>1
      <3>2. CASE n # 0
        <4>1. n \in 1 .. N
          BY <1>1, <3>2
        <4> QED
          BY <1>7, <1>9, <4>1
      <3> QED
        BY <3>1, <3>2
    <2> QED
      BY <1>5, <2>1
  <1>11. g = [n \in 0 .. N |-> Step(g, n)]
    BY <1>10 DEF N
  <1> HIDE DEF g
  <1>12. g[0] = Origin /\ \A n \in 1 .. N : g[n] = Enter(g[n - 1], s[n])
    BY <1>1, <1>6, <1>9, <1>11
  <1>13. Goes(s, f)
    BY <1>5, <1>7 DEF Goes, N
  <1>14. ASSUME NEW h, h[0] = Origin, \A n \in 1 .. N : h[n] = Enter(h[n - 1], s[n])
         PROVE  h[N] = f[N]
    <2>1. Follows(N, Place, Origin, F, h)
      BY <1>3, <1>14 DEF Follows
    <2>2. \A n \in 0 .. N : h[n] = f[n]
      BY <1>1, <1>4, <2>1, IterationUnique
    <2> QED
      BY <1>1, <2>2
  <1>15. Go(s) = f[N]
    BY <1>8, <1>12, <1>14 DEF N
  <1>16. ASSUME NEW h, Goes(s, h) PROVE h[N] = f[N]
    BY <1>14, <1>16 DEF Goes, N
  <1> QED
    BY <1>13, <1>15, <1>16 DEF N

\* Names lead to a place.
LEMMA GoType ==
  ASSUME NEW s \in Seq(Name)
  PROVE  Go(s) \in Place
  <1>1. PICK f : Goes(s, f)
    BY GoDef
  <1>2. Go(s) = f[Len(s)] /\ Len(s) \in 0 .. Len(s)
    BY <1>1, GoDef, LenProperties
  <1> QED
    BY <1>1, <1>2 DEF Goes

\* One more name leads from where the others lead to.
LEMMA GoAppend ==
  /\ Go(<<>>) = Origin
  /\ \A s \in Seq(Name), m \in Name : Go(Append(s, m)) = Enter(Go(s), m)
  <1>1. Go(<<>>) = Origin
    <2> DEFINE s == <<>>
    <2>1. s \in Seq(Name) /\ Len(s) = 0
      BY EmptySeq
    <2> HIDE DEF s
    <2>2. PICK f : Goes(s, f)
      BY <2>1, GoDef
    <2>3. Go(s) = f[Len(s)] /\ f[0] = Origin
      BY <2>1, <2>2, GoDef DEF Goes
    <2> QED
      BY <2>1, <2>3 DEF s
  <1>2. ASSUME NEW s \in Seq(Name), NEW m \in Name PROVE Go(Append(s, m)) = Enter(Go(s), m)
    <2> DEFINE a == Append(s, m)
               N == Len(s)
    <2>1. a \in Seq(Name) /\ Len(a) = N + 1 /\ (\A i \in 1 .. N : a[i] = s[i]) /\ a[N + 1] = m /\ N \in Nat
      BY AppendProperties, LenProperties
    <2> HIDE DEF a
    <2>2. PICK g : Goes(a, g)
      BY <2>1, GoDef
    <2>3. Go(a) = g[N + 1]
      BY <2>1, <2>2, GoDef
    <2>4. /\ g \in [0 .. N + 1 -> Place] /\ g[0] = Origin
          /\ \A n \in 1 .. N + 1 : g[n] = Enter(g[n - 1], a[n])
      BY <2>1, <2>2 DEF Goes
    <2> HIDE DEF N
    <2> DEFINE h == [n \in 0 .. N |-> g[n]]
    <2>5. h \in [0 .. N -> Place] /\ h[0] = Origin /\ h[N] = g[N]
      BY <2>1, <2>4
    <2>6. \A n \in 1 .. N : h[n] = Enter(h[n - 1], s[n])
      <3> TAKE n \in 1 .. N
      <3>1. n \in 1 .. N + 1 /\ n \in 0 .. N /\ n - 1 \in 0 .. N
        BY <2>1
      <3>2. h[n] = g[n] /\ h[n - 1] = g[n - 1]
        BY <3>1
      <3> HIDE DEF h
      <3> QED
        BY <2>1, <2>4, <3>1, <3>2
    <2> HIDE DEF h
    <2>7. Goes(s, h)
      BY <2>5, <2>6 DEF Goes, N
    <2>8. Go(s) = g[N]
      BY <2>5, <2>7, GoDef DEF N
    <2>9. N + 1 \in 1 .. N + 1 /\ (N + 1) - 1 = N
      BY <2>1
    <2>10. g[N + 1] = Enter(g[N], m)
      BY <2>1, <2>4, <2>9
    <2> QED
      BY <2>3, <2>8, <2>10 DEF a
  <1> QED
    BY <1>1, <1>2

\* The states of Walked's recursion: a place, and the name that is being read.
Reader == [at : Seq(Name), name : Name \cup {<<>>}, up : BOOLEAN]

Read(t, w, n) == IF t[n] = Slash THEN Entered(w) ELSE [w EXCEPT !.name = Append(@, t[n])]

Outset == [at |-> <<>>, name |-> <<>>, up |-> FALSE]

\* Taking the name that was read is entering it, a name that is empty apart.
LEMMA EnteredType ==
  ASSUME NEW w \in Reader
  PROVE  /\ Entered(w) \in Reader /\ Entered(w).name = <<>>
         /\ w.name = <<>> => Entered(w).at = w.at /\ Entered(w).up = w.up
         /\ w.name # <<>> => \A p \in Place : p.at = w.at /\ p.up = w.up =>
              Entered(w).at = Enter(p, w.name).at /\ Entered(w).up = Enter(p, w.name).up
  <1>1. /\ w.at \in Seq(Name) /\ w.name \in Name \cup {<<>>} /\ w.up \in BOOLEAN
        /\ w = [at |-> w.at, name |-> w.name, up |-> w.up]
    BY DEF Reader
  <1>2. CASE w.name \in {<<>>, <<Dot>>}
    <2> DEFINE v == [at |-> w.at, name |-> <<>>, up |-> w.up]
    <2>1. Entered(w) = v
      <3>1. Entered(w) = [w EXCEPT !.name = <<>>]
        BY <1>2 DEF Entered
      <3> QED
        BY <1>1, <3>1
    <2>2. v \in Reader
      BY <1>1 DEF Reader
    <2>3. v.name = <<>> /\ v.at = w.at /\ v.up = w.up
      OBVIOUS
    <2> HIDE DEF v
    <2>4. w.name # <<>> => \A p \in Place : Enter(p, w.name) = p
      BY <1>2 DEF Enter
    <2> QED
      BY <2>1, <2>2, <2>3, <2>4
  <1>3. CASE w.name \notin {<<>>, <<Dot>>}
    <2> DEFINE at == Append(w.at, w.name)
               up == w.up \/ w.name = <<Dot, Dot>>
               v == [at |-> at, name |-> <<>>, up |-> up]
    <2>1. Entered(w) = v
      <3>1. Entered(w) = [w EXCEPT !.name = <<>>, !.at = Append(@, w.name), !.up = @ \/ w.name = <<Dot, Dot>>]
        BY <1>3 DEF Entered
      <3>2. Entered(w) = [w EXCEPT !.name = <<>>, !.at = at, !.up = up]
        BY <3>1
      <3> HIDE DEF at, up
      <3> QED
        BY <1>1, <3>2
    <2>2. at \in Seq(Name) /\ up \in BOOLEAN
      BY <1>1, <1>3, AppendProperties
    <2>3. \A p \in Place : p.at = w.at /\ p.up = w.up => Enter(p, w.name).at = at /\ Enter(p, w.name).up = up
      BY <1>3 DEF Enter
    <2> HIDE DEF at, up
    <2>4. v \in Reader
      BY <2>2 DEF Reader
    <2>5. v.name = <<>> /\ v.at = at /\ v.up = up
      OBVIOUS
    <2> HIDE DEF v
    <2> QED
      BY <1>3, <2>1, <2>3, <2>4, <2>5
  <1> QED
    BY <1>2, <1>3

\* A character that is no slash makes the name that is being read longer.
LEMMA ReadType ==
  ASSUME NEW t \in Seq(Nat), NEW n \in 1 .. Len(t), NEW w \in Reader
  PROVE  /\ Read(t, w, n) \in Reader
         /\ t[n] # Slash => /\ Read(t, w, n).at = w.at /\ Read(t, w, n).up = w.up
                            /\ Read(t, w, n).name = Append(w.name, t[n]) /\ Append(w.name, t[n]) \in Name
                            /\ w.name = <<>> => Append(w.name, t[n]) = <<t[n]>>
  <1>1. /\ w.at \in Seq(Name) /\ w.name \in Name \cup {<<>>} /\ w.up \in BOOLEAN
        /\ w = [at |-> w.at, name |-> w.name, up |-> w.up] /\ t[n] \in Nat
    BY ElementOfSeq DEF Reader
  <1>2. CASE t[n] = Slash
    BY <1>2, EnteredType DEF Read
  <1>3. CASE t[n] # Slash
    <2> DEFINE m == Append(w.name, t[n])
    <2>1. m \in Name /\ (w.name = <<>> => m = <<t[n]>>)
      <3>1. CASE w.name = <<>>
        <4>1. m = <<t[n]>>
          BY <3>1
        <4> QED
          BY <1>1, <1>3, <4>1, NameFacts
      <3>2. CASE w.name \in Name
        <4>1. w.name # <<>>
          BY <3>2 DEF Name
        <4> QED
          BY <1>1, <1>3, <3>2, <4>1, NameFacts
      <3> QED
        BY <1>1, <3>1, <3>2
    <2>2. Read(t, w, n) = [w EXCEPT !.name = m]
      BY <1>3 DEF Read
    <2> HIDE DEF m
    <2>3. Read(t, w, n) = [at |-> w.at, name |-> m, up |-> w.up]
      BY <1>1, <2>2
    <2>4. Read(t, w, n) \in Reader
      BY <1>1, <2>1, <2>3 DEF Reader
    <2>5. Read(t, w, n).at = w.at /\ Read(t, w, n).up = w.up /\ Read(t, w, n).name = m
      BY <2>3
    <2> QED
      BY <1>3, <2>1, <2>4, <2>5 DEF m
  <1> QED
    BY <1>2, <1>3

\* f holds the states of the walk along the characters of t.
Reads(t, f) ==
  f \in [0 .. Len(t) -> Reader] /\ f[0] = Outset /\ \A n \in 1 .. Len(t) : f[n] = Read(t, f[n - 1], n)

\* Walked is the end of its recursion's states.
LEMMA WalkedDef ==
  ASSUME NEW t \in Seq(Nat)
  PROVE  \E f : Reads(t, f) /\ Walked(t) = Entered(f[Len(t)])
  <1> DEFINE N == Len(t)
             F == [n \in 1 .. N |-> [w \in Reader |-> Read(t, w, n)]]
  <1>1. N \in Nat /\ Outset \in Reader
    BY LenProperties, EmptySeq DEF Outset, Reader
  <1>2. \A n \in 1 .. N, w \in Reader : Read(t, w, n) \in Reader
    BY ReadType
  <1>3. F \in [1 .. N -> [Reader -> Reader]] /\ \A n \in 1 .. N, w \in Reader : F[n][w] = Read(t, w, n)
    <2> HIDE DEF N
    <2> QED
      BY <1>2
  <1> HIDE DEF F, N
  <1>4. PICK f : Iterates(N, Reader, Outset, F, f)
    BY <1>1, <1>3, Iteration, Zenon
  <1>5. f \in [0 .. N -> Reader] /\ f[0] = Outset /\ \A n \in 1 .. N : f[n] = F[n][f[n - 1]]
    BY <1>4 DEF Iterates
  <1>6. \A n \in 1 .. N : n \in 0 .. N /\ n - 1 \in 0 .. N /\ n # 0
    BY <1>1
  <1>7. \A n \in 1 .. N : f[n] = Read(t, f[n - 1], n)
    <2>1. ASSUME NEW n \in 1 .. N PROVE f[n] = Read(t, f[n - 1], n)
      <3>1. f[n - 1] \in Reader /\ f[n] = F[n][f[n - 1]]
        BY <1>5, <1>6
      <3> QED
        BY <1>3, <3>1
    <2> QED
      BY <2>1
  <1> DEFINE Step(g, n) == IF n = 0 THEN [at |-> <<>>, name |-> <<>>, up |-> FALSE]
                           ELSE IF t[n] = Slash THEN Entered(g[n - 1])
                           ELSE [g[n - 1] EXCEPT !.name = Append(@, t[n])]
             walk == CHOOSE walk : walk = [n \in 0 .. Len(t) |-> Step(walk, n)]
  <1>8. Walked(t) = Entered(walk[Len(t)])
    BY DEF Walked
  <1>9. (\A h : Step(h, 0) = Outset) /\ \A n \in 1 .. N : \A h : Step(h, n) = Read(t, h[n - 1], n)
    BY <1>6 DEF Outset, Read
  <1> HIDE DEF Step
  <1>10. f = [n \in 0 .. N |-> Step(f, n)]
    <2>1. ASSUME NEW n \in 0 .. N PROVE f[n] = Step(f, n)
      <3>1. CASE n = 0
        BY <1>5, <1>9, <3>1
      <3>2. CASE n # 0
        <4>1. n \in 1 .. N
          BY <1>1, <3>2
        <4> QED
          BY <1>7, <1>9, <4>1
      <3> QED
        BY <3>1, <3>2
    <2> QED
      BY <1>5, <2>1
  <1>11. walk = [n \in 0 .. N |-> Step(walk, n)]
    BY <1>10 DEF N
  <1> HIDE DEF walk
  <1>12. walk[0] = Outset /\ \A n \in 1 .. N : walk[n] = Read(t, walk[n - 1], n)
    BY <1>1, <1>6, <1>9, <1>11
  <1>13. Follows(N, Reader, Outset, F, walk)
    BY <1>3, <1>12 DEF Follows
  <1>14. \A n \in 0 .. N : walk[n] = f[n]
    BY <1>1, <1>4, <1>13, IterationUnique
  <1>15. walk[N] = f[N]
    BY <1>1, <1>14
  <1>16. Reads(t, f)
    BY <1>5, <1>7 DEF Reads, N
  <1> QED
    BY <1>8, <1>15, <1>16 DEF N

\* What the walk of the characters has made of the segments that are complete.
Reached(w, s) ==
  /\ w.name = <<>> => w.at = Go(s).at /\ w.up = Go(s).up
  /\ w.name # <<>> => \E b \in Seq(Name) : s = Append(b, w.name) /\ w.at = Go(b).at /\ w.up = Go(b).up

\* Taking the last name leads to where all the names lead.
LEMMA EnteredReached ==
  ASSUME NEW w \in Reader, NEW s \in Seq(Name), Reached(w, s)
  PROVE  Entered(w).at = Go(s).at /\ Entered(w).up = Go(s).up
  <1>1. CASE w.name = <<>>
    BY <1>1, EnteredType DEF Reached
  <1>2. CASE w.name # <<>>
    <2>1. PICK b \in Seq(Name) : s = Append(b, w.name) /\ w.at = Go(b).at /\ w.up = Go(b).up
      BY <1>2 DEF Reached
    <2>2. w.name \in Name
      BY <1>2 DEF Reader
    <2>3. Go(b) \in Place /\ Go(s) = Enter(Go(b), w.name)
      BY <2>1, <2>2, GoType, GoAppend
    <2> QED
      BY <1>2, <2>1, <2>3, EnteredType
  <1> QED
    BY <1>1, <1>2

\* Walking a text one character after another leads where its segments lead to.
THEOREM WalkedIs ==
  ASSUME NEW t \in Seq(Nat)
  PROVE  Walked(t).at = Go(Segments(t)).at /\ Walked(t).up = Go(Segments(t)).up
  <1> DEFINE N == Len(t)
  <1>1. PICK f : SegsOf(t, f) /\ Segments(t) = f[N]
    BY SegmentsDef
  <1>2. PICK g : Reads(t, g) /\ Walked(t) = Entered(g[N])
    BY WalkedDef
  <1>3. N \in Nat
    BY LenProperties
  <1>4. /\ f \in [0 .. N -> Seq(Name)] /\ f[0] = <<>> /\ \A n \in 1 .. N : f[n] = NextSegs(t, f[n - 1], n)
        /\ g \in [0 .. N -> Reader] /\ g[0] = Outset /\ \A n \in 1 .. N : g[n] = Read(t, g[n - 1], n)
    BY <1>1, <1>2 DEF SegsOf, Reads
  <1>5. \A n \in 1 .. N : n - 1 \in 0 .. N /\ n \in 0 .. N /\ t[n] \in Nat
    BY <1>3, ElementOfSeq
  <1> DEFINE J(n) == Reached(g[n], f[n]) /\ (g[n].name = <<>> <=> n = 0 \/ t[n] = Slash)
             T == {n \in Nat : n <= N => J(n)}
  <1>6. 0 \in T
    <2>1. Reached(Outset, <<>>) /\ Outset.name = <<>>
      <3>1. Outset.name = <<>> /\ Outset.at = Origin.at /\ Outset.up = Origin.up
        BY DEF Outset, Origin
      <3>2. Go(<<>>) = Origin
        BY GoAppend
      <3> DEFINE z == <<>>
      <3>3. Outset.at = Go(z).at /\ Outset.up = Go(z).up
        BY <3>1, <3>2
      <3> HIDE DEF z
      <3>4. Reached(Outset, z)
        BY <3>1, <3>3, Zenon DEF Reached
      <3> QED
        BY <3>1, <3>4 DEF z
    <2> QED
      BY <1>4, <2>1
  <1>7. ASSUME NEW m \in Nat, m \in T PROVE m + 1 \in T
    <2> DEFINE n == m + 1
    <2>1. SUFFICES ASSUME n <= N PROVE J(n)
      OBVIOUS
    <2>2. n \in 1 .. N /\ n - 1 = m /\ m <= N /\ m \in 0 .. N /\ n \in Nat /\ n # 0
      BY <1>3, <2>1
    <2> HIDE DEF n
    <2> DEFINE w == g[m]
               s == f[m]
    <2>3. Reached(w, s) /\ (w.name = <<>> <=> m = 0 \/ t[m] = Slash)
      BY <1>7, <2>2
    <2>4. w \in Reader /\ s \in Seq(Name) /\ g[n] = Read(t, w, n) /\ f[n] = NextSegs(t, s, n) /\ t[n] \in Nat
      BY <1>4, <1>5, <2>2
    <2> HIDE DEF w, s, N
    <2>5. m = 0 <=> n = 1
      BY <2>2
    <2>6. CASE t[n] = Slash
      <3>1. g[n] = Entered(w) /\ f[n] = s
        BY <2>4, <2>6 DEF Read, NextSegs
      <3>2. Entered(w).name = <<>> /\ Entered(w).at = Go(s).at /\ Entered(w).up = Go(s).up
        BY <2>3, <2>4, EnteredType, EnteredReached
      <3>3. Reached(Entered(w), s)
        BY <3>2 DEF Reached
      <3> QED
        BY <2>6, <3>1, <3>2, <3>3
    <2>7. CASE t[n] # Slash /\ w.name = <<>>
      <3> DEFINE e == <<t[n]>>
      <3>1. n = 1 \/ t[n - 1] = Slash
        BY <2>2, <2>3, <2>5, <2>7
      <3>2. f[n] = Append(s, e)
        BY <2>4, <2>7, <3>1 DEF NextSegs
      <3>3. g[n].name = e /\ g[n].at = w.at /\ g[n].up = w.up /\ e # <<>>
        BY <2>2, <2>4, <2>7, ReadType DEF N
      <3>4. w.at = Go(s).at /\ w.up = Go(s).up
        BY <2>3, <2>7 DEF Reached
      <3> HIDE DEF e
      <3>5. Reached(g[n], f[n])
        BY <2>4, <3>2, <3>3, <3>4 DEF Reached
      <3> QED
        BY <2>2, <2>7, <3>3, <3>5
    <2>8. CASE t[n] # Slash /\ w.name # <<>>
      <3> DEFINE e == Append(w.name, t[n])
      <3>1. ~(n = 1 \/ t[n - 1] = Slash)
        BY <2>2, <2>3, <2>5, <2>8
      <3>2. PICK b \in Seq(Name) : s = Append(b, w.name) /\ w.at = Go(b).at /\ w.up = Go(b).up
        BY <2>3, <2>8 DEF Reached
      <3>3. w.name \in Name
        BY <2>4, <2>8 DEF Reader
      <3>4. g[n].name = e /\ g[n].at = w.at /\ g[n].up = w.up /\ e \in Name
        BY <2>2, <2>4, <2>8, ReadType DEF N
      <3>5. e # <<>>
        BY <3>4 DEF Name
      <3>6. f[n] = [s EXCEPT ![Len(s)] = Append(@, t[n])]
        BY <2>4, <2>8, <3>1 DEF NextSegs
      <3>7. s[Len(s)] = w.name
        <4>1. Append(b, w.name)[Len(b) + 1] = w.name /\ Len(Append(b, w.name)) = Len(b) + 1
          BY <3>3, AppendProperties
        <4> QED
          BY <3>2, <4>1
      <3>8. f[n] = [s EXCEPT ![Len(s)] = e]
        BY <3>6, <3>7
      <3> HIDE DEF e
      <3>9. f[n] = Append(b, e)
        BY <3>2, <3>3, <3>4, <3>8, LastReplaced
      <3>10. Reached(g[n], f[n])
        BY <3>2, <3>4, <3>5, <3>9 DEF Reached
      <3> QED
        BY <2>2, <2>8, <3>4, <3>5, <3>10
    <2> QED
      BY <2>6, <2>7, <2>8
  <1> HIDE DEF T
  <1>8. Nat \subseteq T
    BY <1>6, <1>7, SetInduction
  <1>9. J(N)
    BY <1>3, <1>8 DEF T
  <1>10. g[N] \in Reader /\ f[N] \in Seq(Name)
    BY <1>3, <1>4
  <1> HIDE DEF N
  <1> QED
    BY <1>1, <1>2, <1>9, <1>10, EnteredReached

-----------------------------------------------------------------------------
(***************************************************************************)
(* url_decode and fsapi_resolve: what a path that is accepted means.       *)
(***************************************************************************)
Results == [err : {"OK", "EINVAL", "ENAMETOOLONG"}, val : Seq(Nat)]

\* url_decode fails, or gives the characters that the text stands for; it only
\* calls a text invalid that holds a bad escape.
LEMMA DecodeIs ==
  ASSUME NEW s \in Seq(Nat)
  PROVE  /\ url_decode(s) \in Results
         /\ url_decode(s).err = "OK" => url_decode(s).val = Plain(s) /\ Plain(s) \in Seq(Nat)
         /\ url_decode(s).err = "EINVAL" => Bad(s)
  <1> DEFINE d == url_decode(s)
  <1>1. DOMAIN s = 1 .. Len(s) /\ Len(s) \in Nat /\ \A i \in 1 .. Len(s) : s[i] \in Nat
    BY LenProperties, ElementOfSeq
  <1>2. Plain(s) = [i \in 1 .. Len(s) |-> s[i] % 256] /\ \A i \in 1 .. Len(s) : s[i] % 256 \in Nat
    BY <1>1 DEF Plain
  <1>3. Plain(s) \in Seq(Nat)
    BY <1>1, <1>2
  <1>4. <<>> \in Seq(Nat)
    BY EmptySeq
  <1>5. CASE \E i \in DOMAIN s : i <= PATHCAP /\ s[i] \in {Malformed, Escaped(NUL)}
    <2>1. PICK i \in 1 .. Len(s) : s[i] \in {Malformed, Escaped(NUL)}
      BY <1>1, <1>5
    <2>2. s[i] = Malformed \/ Plain(s)[i] < 32
      BY <1>2, <2>1 DEF Escaped, NUL
    <2>3. Bad(s)
      BY <1>1, <2>2 DEF Bad
    <2>4. d = [err |-> "EINVAL", val |-> <<>>]
      BY <1>5 DEF url_decode, Err
    <2> HIDE DEF d
    <2>5. d \in Results /\ d.err = "EINVAL"
      BY <1>4, <2>4 DEF Results
    <2> QED
      BY <2>3, <2>5 DEF d
  <1>6. CASE ~ \E i \in DOMAIN s : i <= PATHCAP /\ s[i] \in {Malformed, Escaped(NUL)}
    <2>1. CASE Len(s) >= PATHCAP
      <3>1. d = [err |-> "ENAMETOOLONG", val |-> <<>>]
        BY <1>6, <2>1 DEF url_decode, Err
      <3> HIDE DEF d
      <3>2. d \in Results /\ d.err = "ENAMETOOLONG"
        BY <1>4, <3>1 DEF Results
      <3> QED
        BY <3>2 DEF d
    <2>2. CASE ~(Len(s) >= PATHCAP)
      <3>1. d = [err |-> "OK", val |-> Plain(s)]
        BY <1>6, <2>2 DEF url_decode, Ok, Plain
      <3> HIDE DEF d
      <3>2. d \in Results /\ d.err = "OK" /\ d.val = Plain(s)
        BY <1>3, <3>1 DEF Results
      <3> QED
        BY <1>3, <3>2 DEF d
    <2> QED
      BY <2>1, <2>2
  <1> QED
    BY <1>5, <1>6

\* The characters of a segment are characters of the text.
LEMMA SegChars ==
  ASSUME NEW t \in Seq(Nat), NEW k \in 1 .. Len(Segments(t)), NEW j \in DOMAIN Segments(t)[k]
  PROVE  \E i \in 1 .. Len(t) : Segments(t)[k][j] = t[i]
  <1> DEFINE N == Len(t)
             C == {t[i] : i \in 1 .. N}
             X == Seq(Seq(C))
  <1>1. PICK f : SegsOf(t, f) /\ Segments(t) = f[N]
    BY SegmentsDef
  <1>2. N \in Nat /\ <<>> \in X
    BY LenProperties, EmptySeq
  <1>3. f[0] = <<>> /\ \A n \in 1 .. N : f[n] = NextSegs(t, f[n - 1], n)
    BY <1>1 DEF SegsOf
  <1>4. \A n \in 1 .. N : t[n] \in C
    OBVIOUS
  <1> HIDE DEF C
  <1>5. ASSUME NEW n \in 1 .. N, NEW s \in X PROVE NextSegs(t, s, n) \in X
    <2> DEFINE D == Seq(C)
    <2>1. t[n] \in C
      BY <1>4
    <2>2. CASE t[n] = Slash
      BY <2>2 DEF NextSegs
    <2>3. CASE t[n] # Slash /\ (n = 1 \/ t[n - 1] = Slash)
      <3> DEFINE e == <<t[n]>>
      <3>1. e \in D
        BY <2>1
      <3>2. NextSegs(t, s, n) = Append(s, e)
        BY <2>3 DEF NextSegs
      <3> HIDE DEF e, D
      <3>3. Append(s, e) \in Seq(D)
        BY <3>1, AppendProperties DEF D
      <3> QED
        BY <3>2, <3>3 DEF D
    <2>4. CASE t[n] # Slash /\ ~(n = 1 \/ t[n - 1] = Slash)
      <3> DEFINE e == Append(s[Len(s)], t[n])
      <3>1. NextSegs(t, s, n) = [s EXCEPT ![Len(s)] = e]
        BY <2>4 DEF NextSegs
      <3>2. CASE s = <<>>
        <4> HIDE DEF e
        <4>1. [s EXCEPT ![Len(s)] = e] = <<>>
          BY <3>2
        <4> QED
          BY <1>2, <3>1, <4>1
      <3>3. CASE s # <<>>
        <4>1. Len(s) \in 1 .. Len(s) /\ s \in Seq(D)
          BY <3>3, EmptySeq
        <4>2. s[Len(s)] \in D
          <5> HIDE DEF D
          <5> QED
            BY <4>1, ElementOfSeq
        <4>3. e \in D
          BY <2>1, <4>2, AppendProperties
        <4> HIDE DEF e, D
        <4>4. [s EXCEPT ![Len(s)] = e] \in Seq(D)
          BY <4>1, <4>3, ExceptSeq
        <4> QED
          BY <3>1, <4>4 DEF D
      <3> QED
        BY <3>2, <3>3
    <2> QED
      BY <2>2, <2>3, <2>4
  <1> HIDE DEF X
  <1> DEFINE T == {n \in Nat : n <= N => f[n] \in X}
  <1>6. 0 \in T
    BY <1>2, <1>3
  <1>7. ASSUME NEW n \in Nat, n \in T PROVE n + 1 \in T
    <2>1. CASE n + 1 <= N
      <3>1. n + 1 \in 1 .. N /\ (n + 1) - 1 = n /\ n <= N
        BY <1>2, <2>1
      <3>2. f[n + 1] = NextSegs(t, f[n], n + 1)
        BY <1>3, <3>1
      <3> QED
        BY <1>5, <1>7, <3>1, <3>2
    <2> QED
      BY <2>1
  <1> HIDE DEF T
  <1>8. Nat \subseteq T
    BY <1>6, <1>7, SetInduction
  <1>9. f[N] \in X
    BY <1>2, <1>8 DEF T
  <1> DEFINE D == Seq(C)
             s == Segments(t)
  <1>10. s \in Seq(D)
    BY <1>1, <1>9 DEF X
  <1>11. s[k] \in D
    <2> HIDE DEF D, s
    <2>1. k \in 1 .. Len(s)
      BY DEF s
    <2> QED
      BY <1>10, <2>1, ElementOfSeq
  <1>12. j \in 1 .. Len(s[k])
    <2> DEFINE m == s[k]
    <2>1. m \in Seq(C)
      BY <1>11
    <2>2. j \in DOMAIN m
      OBVIOUS
    <2> HIDE DEF m
    <2>3. j \in 1 .. Len(m)
      BY <2>1, <2>2, LenProperties
    <2> QED
      BY <2>3 DEF m
  <1>13. s[k][j] \in C
    <2> DEFINE m == s[k]
    <2>1. m \in Seq(C) /\ j \in 1 .. Len(m)
      BY <1>11, <1>12
    <2> HIDE DEF m
    <2>2. m[j] \in C
      BY <2>1, ElementOfSeq
    <2> QED
      BY <2>2 DEF m
  <1> QED
    BY <1>13 DEF C

\* A segment is skipped, refused, or appended behind a slash when there is room.
LEMMA AddSegmentIs ==
  ASSUME NEW o \in Results, NEW m \in Name
  PROVE  LET v == AddSegment(o, m)
         IN  /\ v \in Results
             /\ \/ v = o /\ (o.err = "OK" => m = <<Dot>>)
                \/ /\ o.err = "OK" /\ m # <<Dot>> /\ v.err = "EINVAL"
                   /\ m = <<Dot, Dot>> \/ \E j \in DOMAIN m : m[j] < 32
                \/ o.err = "OK" /\ v.err = "ENAMETOOLONG"
                \/ /\ o.err = "OK" /\ v.err = "OK" /\ m # <<Dot>> /\ m # <<Dot, Dot>>
                   /\ Len(v.val) < PATHCAP /\ v.val # <<>> /\ Segments(v.val) = Append(Segments(o.val), m)
  <1> DEFINE v == AddSegment(o, m)
             x == (o.val \o <<Slash>>) \o m
  <1>1. o.val \in Seq(Nat) /\ <<>> \in Seq(Nat)
    BY EmptySeq DEF Results
  <1>2. x \in Seq(Nat) /\ Len(x) = Len(o.val) + 1 + Len(m) /\ Segments(x) = Append(Segments(o.val), m)
    BY <1>1, SegName
  <1>3. Len(o.val) \in Nat /\ Len(m) \in Nat /\ Len(m) >= 1
    BY <1>1, NameFacts, LenProperties
  <1>4. x # <<>> /\ Len(x) \in Nat
    <2> HIDE DEF x
    <2>1. Len(x) > 0 /\ Len(x) \in Nat
      BY <1>2, <1>3
    <2> QED
      BY <2>1, EmptySeq
  <1>5. v = IF o.err # "OK" \/ m = <<Dot>> THEN o
            ELSE IF m = <<Dot, Dot>> \/ \E k \in DOMAIN m : m[k] < 32 THEN Err("EINVAL")
            ELSE IF Len(o.val) + 1 + Len(m) >= PATHCAP THEN Err("ENAMETOOLONG")
            ELSE Ok(x)
    BY DEF AddSegment
  <1> HIDE DEF v, x
  <1>6. /\ Err("EINVAL") \in Results /\ Err("EINVAL").err = "EINVAL"
        /\ Err("ENAMETOOLONG") \in Results /\ Err("ENAMETOOLONG").err = "ENAMETOOLONG"
        /\ Ok(x) \in Results /\ Ok(x).err = "OK" /\ Ok(x).val = x
    BY <1>1, <1>2 DEF Err, Ok, Results
  <1>7. CASE o.err # "OK" \/ m = <<Dot>>
    BY <1>5, <1>7 DEF v
  <1>8. CASE ~(o.err # "OK" \/ m = <<Dot>>) /\ (m = <<Dot, Dot>> \/ \E k \in DOMAIN m : m[k] < 32)
    BY <1>5, <1>6, <1>8 DEF v
  <1>9. CASE /\ ~(o.err # "OK" \/ m = <<Dot>>) /\ ~(m = <<Dot, Dot>> \/ \E k \in DOMAIN m : m[k] < 32)
             /\ Len(o.val) + 1 + Len(m) >= PATHCAP
    BY <1>5, <1>6, <1>9 DEF v
  <1>10. CASE /\ ~(o.err # "OK" \/ m = <<Dot>>) /\ ~(m = <<Dot, Dot>> \/ \E k \in DOMAIN m : m[k] < 32)
              /\ ~(Len(o.val) + 1 + Len(m) >= PATHCAP)
    <2>1. v = Ok(x)
      BY <1>5, <1>10
    <2>2. Len(x) < PATHCAP
      BY <1>2, <1>3, <1>10, JailAssumption
    <2> QED
      BY <1>2, <1>4, <1>6, <1>10, <2>1, <2>2 DEF v
  <1> QED
    BY <1>7, <1>8, <1>9, <1>10

\* What entering a name does to a place.
LEMMA EnterIs ==
  ASSUME NEW p \in Place, NEW m \in Name
  PROVE  /\ m = <<Dot>> => Enter(p, m) = p
         /\ m # <<Dot>> => Enter(p, m).at = Append(p.at, m)
         /\ p.up => Enter(p, m).up
         /\ m = <<Dot, Dot>> => Enter(p, m).up
         /\ m # <<Dot, Dot>> /\ ~p.up => ~Enter(p, m).up
  <1>1. CASE m = <<Dot>>
    <2>1. <<Dot>> # <<Dot, Dot>>
      OBVIOUS
    <2> QED
      BY <1>1, <2>1 DEF Enter
  <1>2. CASE m # <<Dot>>
    <2> DEFINE e == Enter(p, m)
    <2>1. e = [at |-> Append(p.at, m), up |-> p.up \/ m = <<Dot, Dot>>]
      BY <1>2 DEF Enter
    <2>2. e.at = Append(p.at, m) /\ (e.up <=> (p.up \/ m = <<Dot, Dot>>))
      <3> DEFINE up == p.up \/ m = <<Dot, Dot>>
      <3> HIDE DEF e, up
      <3>1. e = [at |-> Append(p.at, m), up |-> up]
        BY <2>1 DEF up
      <3>2. e.at = Append(p.at, m) /\ e.up = up
        BY <3>1
      <3> QED
        BY <3>2 DEF up
    <2> HIDE DEF e
    <2>3. p.up \/ m = <<Dot, Dot>> => e.up
      BY <2>2
    <2>4. m # <<Dot, Dot>> /\ ~p.up => ~e.up
      BY <2>2
    <2> QED
      BY <1>2, <2>2, <2>3, <2>4 DEF e
  <1> QED
    BY <1>1, <1>2

\* f holds what fsapi_resolve has put together after 0 .. Len(s) of the segments s.
Resolves(r, s, f) ==
  /\ f \in [0 .. Len(s) -> Results] /\ f[0] = Ok(r)
  /\ \A n \in 1 .. Len(s) : f[n] = AddSegment(f[n - 1], s[n])

\* fsapi_resolve is the end of its recursion over the segments of the decoded path.
LEMMA ResolveDef ==
  ASSUME NEW r \in Seq(Nat), NEW sub \in Seq(Nat), url_decode(sub).err = "OK", Len(r) < PATHCAP
  PROVE  LET s == Segments(url_decode(sub).val)
         IN  \E f : Resolves(r, s, f) /\ fsapi_resolve(r, sub) = f[Len(s)]
  <1> DEFINE s == Segments(url_decode(sub).val)
             N == Len(s)
             F == [n \in 1 .. N |-> [o \in Results |-> AddSegment(o, s[n])]]
             base == Ok(r)
  <1>1. s \in Seq(Name) /\ N \in Nat /\ base \in Results
    <2>1. url_decode(sub).val \in Seq(Nat)
      BY DecodeIs
    <2>2. s \in Seq(Name)
      BY <2>1, SegmentsType
    <2>3. base \in Results
      BY DEF Ok, Results
    <2> QED
      BY <2>2, <2>3, LenProperties
  <1> HIDE DEF s
  <1>2. \A n \in 1 .. N, o \in Results : AddSegment(o, s[n]) \in Results
    BY <1>1, ElementOfSeq, AddSegmentIs
  <1>3. F \in [1 .. N -> [Results -> Results]] /\ \A n \in 1 .. N, o \in Results : F[n][o] = AddSegment(o, s[n])
    <2> HIDE DEF N
    <2> QED
      BY <1>2
  <1> HIDE DEF F, N, base
  <1>4. PICK f : Iterates(N, Results, base, F, f)
    BY <1>1, <1>3, Iteration, Zenon
  <1>5. f \in [0 .. N -> Results] /\ f[0] = base /\ \A n \in 1 .. N : f[n] = F[n][f[n - 1]]
    BY <1>4 DEF Iterates
  <1>6. \A n \in 1 .. N : n \in 0 .. N /\ n - 1 \in 0 .. N /\ n # 0
    BY <1>1
  <1>7. \A n \in 1 .. N : f[n] = AddSegment(f[n - 1], s[n])
    <2>1. ASSUME NEW n \in 1 .. N PROVE f[n] = AddSegment(f[n - 1], s[n])
      <3>1. f[n - 1] \in Results /\ f[n] = F[n][f[n - 1]]
        BY <1>5, <1>6
      <3> QED
        BY <1>3, <3>1
    <2> QED
      BY <2>1
  <1> DEFINE Step(g, n) == IF n = 0 THEN Ok(r) ELSE AddSegment(g[n - 1], s[n])
             o == CHOOSE o : o = [n \in 0 .. Len(s) |-> Step(o, n)]
  <1>8. fsapi_resolve(r, sub) = o[Len(s)]
    <2>1. ~(url_decode(sub).err # "OK") /\ ~(Len(r) >= PATHCAP)
      BY LenProperties, JailAssumption
    <2> QED
      BY <2>1 DEF fsapi_resolve, s
  <1>9. (\A h : Step(h, 0) = base) /\ \A n \in 1 .. N : \A h : Step(h, n) = AddSegment(h[n - 1], s[n])
    BY <1>6 DEF base
  <1> HIDE DEF Step
  <1>10. f = [n \in 0 .. N |-> Step(f, n)]
    <2>1. ASSUME NEW n \in 0 .. N PROVE f[n] = Step(f, n)
      <3>1. CASE n = 0
        BY <1>5, <1>9, <3>1
      <3>2. CASE n # 0
        <4>1. n \in 1 .. N
          BY <1>1, <3>2
        <4> QED
          BY <1>7, <1>9, <4>1
      <3> QED
        BY <3>1, <3>2
    <2> QED
      BY <1>5, <2>1
  <1>11. o = [n \in 0 .. N |-> Step(o, n)]
    BY <1>10 DEF N
  <1> HIDE DEF o
  <1>12. o[0] = base /\ \A n \in 1 .. N : o[n] = AddSegment(o[n - 1], s[n])
    <2>1. \A n \in 0 .. N : o[n] = Step(o, n)
      BY <1>11
    <2>2. 0 \in 0 .. N
      BY <1>1
    <2> HIDE DEF base
    <2>3. o[0] = base
      BY <1>9, <2>1, <2>2, Zenon
    <2>4. \A n \in 1 .. N : o[n] = AddSegment(o[n - 1], s[n])
      BY <1>6, <1>9, <2>1, Zenon
    <2> QED
      BY <2>3, <2>4
  <1>13. Follows(N, Results, base, F, o)
    BY <1>3, <1>12 DEF Follows
  <1>14. \A n \in 0 .. N : o[n] = f[n]
    BY <1>1, <1>4, <1>13, IterationUnique
  <1>15. o[N] = f[N]
    BY <1>1, <1>14
  <1>16. Resolves(r, s, f)
    BY <1>5, <1>7 DEF Resolves, N, base
  <1>17. fsapi_resolve(r, sub) = f[Len(s)]
    BY <1>8, <1>15 DEF N
  <1> QED
    BY <1>16, <1>17 DEF s

\* Appending to the second of two sequences.
LEMMA ConcatAppend ==
  ASSUME NEW a \in Seq(Name), NEW b \in Seq(Name), NEW m \in Name
  PROVE  Append(a \o b, m) = a \o Append(b, m)
  <1> DEFINE e == <<m>>
  <1>1. e \in Seq(Name) /\ a \o b \in Seq(Name)
    BY ConcatProperties
  <1>2. Append(a \o b, m) = (a \o b) \o e
    <2> DEFINE c == a \o b
    <2>1. c \in Seq(Name)
      BY <1>1
    <2> HIDE DEF c
    <2>2. Append(c, m) = c \o <<m>>
      BY <2>1, AppendIsConcat
    <2> QED
      BY <2>2 DEF c
  <1>3. Append(b, m) = b \o e
    BY AppendIsConcat
  <1> HIDE DEF e
  <1>4. \A x, y, z \in Seq(Name) : (x \o y) \o z = x \o (y \o z)
    BY ConcatAssociative
  <1>5. (a \o b) \o e = a \o (b \o e)
    BY <1>1, <1>4, Zenon
  <1> QED
    BY <1>2, <1>3, <1>5, Zenon

\* What fsapi_resolve makes of a path is the root of the share and then where the
\* request's characters walk to from there; a path that it accepts never goes up,
\* is not empty and fits its buffer; one that it calls invalid is.
THEOREM ResolveMeans ==
  ASSUME NEW r \in Seq(Nat), NEW sub \in Seq(Nat)
  PROVE  LET v == fsapi_resolve(r, sub)
             w == Walked(Plain(sub))
         IN  /\ v \in Results
             /\ v.err = "OK" => /\ Segments(v.val) = Segments(r) \o w.at /\ ~w.up
                                /\ Len(v.val) < PATHCAP /\ (r # <<>> => v.val # <<>>)
             /\ v.err = "EINVAL" => Bad(sub)
  <1> DEFINE v == fsapi_resolve(r, sub)
             d == url_decode(sub)
             t == Plain(sub)
             w == Walked(t)
  <1>1. /\ d \in Results /\ (d.err = "OK" => d.val = t /\ t \in Seq(Nat)) /\ (d.err = "EINVAL" => Bad(sub))
    BY DecodeIs
  <1>2. Len(r) \in Nat /\ PATHCAP \in Nat
    BY LenProperties, JailAssumption
  <1>3. CASE d.err # "OK"
    <2>1. v = d
      BY <1>3 DEF fsapi_resolve
    <2> HIDE DEF v, d, w
    <2>2. v \in Results /\ (v.err = "EINVAL" => Bad(sub)) /\ v.err # "OK"
      BY <1>1, <1>3, <2>1
    <2> QED
      BY <2>2 DEF v
  <1>4. CASE d.err = "OK" /\ Len(r) >= PATHCAP
    <2>1. v = [err |-> "ENAMETOOLONG", val |-> <<>>]
      BY <1>4 DEF fsapi_resolve, Err
    <2>2. <<>> \in Seq(Nat)
      BY EmptySeq
    <2> HIDE DEF v, w
    <2>3. v \in Results /\ v.err = "ENAMETOOLONG"
      BY <2>1, <2>2 DEF Results
    <2> QED
      BY <2>3 DEF v
  <1>5. CASE d.err = "OK" /\ Len(r) < PATHCAP
    <2> DEFINE s == Segments(t)
               N == Len(s)
               G(n) == Go(SubSeq(s, 1, n))
               S == Segments(r)
    <2>1. t \in Seq(Nat) /\ s \in Seq(Name) /\ N \in Nat /\ S \in Seq(Name)
      BY <1>1, <1>5, SegmentsType, LenProperties
    <2>2. PICK f : Resolves(r, s, f) /\ v = f[N]
      BY <1>1, <1>5, ResolveDef
    <2>3. f \in [0 .. N -> Results] /\ f[0] = Ok(r) /\ \A n \in 1 .. N : f[n] = AddSegment(f[n - 1], s[n])
      BY <2>2 DEF Resolves
    <2>4. G(0) = Origin
      <3>1. SubSeq(s, 1, 0) = <<>>
        BY <2>1, SubSeqEmpty
      <3> QED
        BY <3>1, GoAppend
    <2>5. \A n \in 1 .. N : s[n] \in Name /\ G(n - 1) \in Place /\ G(n) = Enter(G(n - 1), s[n])
      <3> TAKE n \in 1 .. N
      <3>1. SubSeq(s, 1, n) = Append(SubSeq(s, 1, n - 1), s[n]) /\ SubSeq(s, 1, n - 1) \in Seq(Name) /\ s[n] \in Name
        <4> HIDE DEF s
        <4> QED
          BY <2>1, SubSeqNext
      <3> QED
        BY <3>1, GoType, GoAppend
    <2>6. w.at = G(N).at /\ w.up = G(N).up
      <3>1. SubSeq(s, 1, N) = s
        <4> HIDE DEF s
        <4> QED
          BY <2>1, SubSeqFull
      <3> QED
        BY <2>1, <3>1, WalkedIs
    <2> HIDE DEF G, v, s, w, t, d
    <2> DEFINE Control(n) == \E k \in 1 .. n : \E j \in DOMAIN s[k] : s[k][j] < 32
               Good(o, n) == /\ o.err = "OK" => /\ Segments(o.val) = S \o G(n).at /\ ~G(n).up
                                                /\ Len(o.val) < PATHCAP /\ (r # <<>> => o.val # <<>>)
                             /\ o.err = "EINVAL" => G(n).up \/ Control(n)
               T == {n \in Nat : n <= N => Good(f[n], n)}
    <2>7. 0 \in T
      <3>1. f[0].err = "OK" /\ f[0].val = r
        BY <2>3 DEF Ok
      <3>2. S \o G(0).at = S /\ ~G(0).up
        BY <2>1, <2>4, ConcatEmptySeq DEF Origin
      <3> QED
        BY <1>5, <3>1, <3>2
    <2>8. ASSUME NEW m \in Nat, m \in T PROVE m + 1 \in T
      <3> DEFINE n == m + 1
      <3>1. SUFFICES ASSUME n <= N PROVE Good(f[n], n)
        OBVIOUS
      <3>2. n \in 1 .. N /\ n - 1 = m /\ m <= N /\ m \in 0 .. N
        BY <2>1, <3>1
      <3>3. \A k \in 1 .. m : k \in 1 .. n
        BY <3>2
      <3> HIDE DEF n
      <3> DEFINE o == f[m]
                 p == G(m)
                 e == s[n]
      <3>4. o \in Results /\ f[n] = AddSegment(o, e) /\ e \in Name /\ p \in Place /\ G(n) = Enter(p, e)
        BY <2>3, <2>5, <3>2
      <3>5. Good(o, m)
        BY <2>8, <3>2
      <3>6. Control(m) => Control(n)
        BY <3>3
      <3> DEFINE q == G(n)
                 One == <<Dot>>
                 Two == <<Dot, Dot>>
      <3>7. /\ e = One => q = p
            /\ e # One => q.at = Append(p.at, e)
            /\ p.up => q.up
            /\ e = Two => q.up
            /\ e # Two /\ ~p.up => ~q.up
        <4>1. q = Enter(p, e)
          BY <3>4
        <4> HIDE DEF q
        <4>2. /\ e = <<Dot>> => Enter(p, e) = p
              /\ e # <<Dot>> => Enter(p, e).at = Append(p.at, e)
              /\ p.up => Enter(p, e).up
              /\ e = <<Dot, Dot>> => Enter(p, e).up
              /\ e # <<Dot, Dot>> /\ ~p.up => ~Enter(p, e).up
          BY <3>4, EnterIs
        <4> HIDE DEF One, Two
        <4> QED
          BY <4>1, <4>2 DEF One, Two
      <3>8. (\E j \in DOMAIN e : e[j] < 32) => Control(n)
        BY <3>2
      <3> HIDE DEF o, p, e, Control
      <3> DEFINE x == f[n]
      <3>9. /\ \/ x = o /\ (o.err = "OK" => e = <<Dot>>)
               \/ /\ o.err = "OK" /\ e # <<Dot>> /\ x.err = "EINVAL"
                  /\ e = <<Dot, Dot>> \/ \E j \in DOMAIN e : e[j] < 32
               \/ o.err = "OK" /\ x.err = "ENAMETOOLONG"
               \/ /\ o.err = "OK" /\ x.err = "OK" /\ e # <<Dot>> /\ e # <<Dot, Dot>>
                  /\ Len(x.val) < PATHCAP /\ x.val # <<>> /\ Segments(x.val) = Append(Segments(o.val), e)
        BY <3>4, AddSegmentIs
      <3> HIDE DEF x
      <3>10. /\ o.err = "OK" => Segments(o.val) = S \o p.at /\ ~p.up /\ Len(o.val) < PATHCAP /\ (r # <<>> => o.val # <<>>)
             /\ o.err = "EINVAL" => p.up \/ Control(m)
        BY <3>5 DEF p
      <3>11. CASE x = o /\ (o.err = "OK" => e = <<Dot>>)
        <4>1. o.err = "OK" => G(n) = p
          BY <3>7, <3>11
        <4> QED
          BY <3>6, <3>7, <3>10, <3>11, <4>1 DEF x
      <3>12. CASE /\ o.err = "OK" /\ e # <<Dot>> /\ x.err = "EINVAL"
                  /\ e = <<Dot, Dot>> \/ \E j \in DOMAIN e : e[j] < 32
        <4>1. e = <<Dot, Dot>> => G(n).up
          BY <3>7
        <4> QED
          BY <3>8, <3>12, <4>1 DEF x
      <3>13. CASE o.err = "OK" /\ x.err = "ENAMETOOLONG"
        BY <3>13 DEF x
      <3>14. CASE /\ o.err = "OK" /\ x.err = "OK" /\ e # <<Dot>> /\ e # <<Dot, Dot>>
                  /\ Len(x.val) < PATHCAP /\ x.val # <<>> /\ Segments(x.val) = Append(Segments(o.val), e)
        <4>1. G(n).at = Append(p.at, e) /\ ~G(n).up
          BY <3>7, <3>10, <3>14
        <4>2. p.at \in Seq(Name)
          BY <3>4 DEF Place
        <4>3. Append(S \o p.at, e) = S \o Append(p.at, e)
          <5>1. S \in Seq(Name) /\ e \in Name
            BY <2>1, <3>4
          <5> HIDE DEF S
          <5> HIDE DEF q
          <5> QED
            BY <4>2, <5>1, ConcatAppend
        <4>4. Segments(x.val) = S \o G(n).at
          BY <3>10, <3>14, <4>1, <4>3
        <4> QED
          BY <3>14, <4>1, <4>4 DEF x
      <3> QED
        BY <3>9, <3>11, <3>12, <3>13, <3>14
    <2> HIDE DEF T
    <2>9. Nat \subseteq T
      BY <2>7, <2>8, SetInduction
    <2>10. Good(v, N) /\ v \in Results
      <3>1. N \in T /\ N <= N
        BY <2>1, <2>9
      <3>2. Good(f[N], N)
        <4> HIDE DEF Good, N
        <4> QED
          BY <3>1 DEF T
      <3> HIDE DEF Good
      <3> QED
        <4>1. v = f[N] /\ v \in Results
          <5>1. N \in 0 .. N
            BY <2>1
          <5> HIDE DEF N
          <5> QED
            BY <2>2, <2>3, <5>1
        <4> HIDE DEF N
        <4> QED
          BY <3>2, <4>1
    <2>11. Control(N) => Bad(sub)
      <3>1. SUFFICES ASSUME NEW k \in 1 .. N, NEW j \in DOMAIN s[k], s[k][j] < 32 PROVE Bad(sub)
        OBVIOUS
      <3>2. PICK i \in 1 .. Len(t) : s[k][j] = t[i]
        BY <2>1, SegChars DEF s
      <3>3. DOMAIN sub = 1 .. Len(sub) /\ Len(sub) \in Nat
        BY LenProperties
      <3>4. t = [l \in 1 .. Len(sub) |-> sub[l] % 256]
        BY <3>3 DEF t, Plain
      <3>5. Len(t) = Len(sub)
        BY <3>3, <3>4
      <3>6. i \in DOMAIN sub /\ Plain(sub)[i] < 32
        BY <3>1, <3>2, <3>3, <3>5 DEF t
      <3> QED
        BY <3>6 DEF Bad
    <2>12. w.up => Bad(sub)
      BY DEF Bad, w, t
    <2>13. /\ v.err = "OK" => Segments(v.val) = S \o w.at /\ ~w.up /\ Len(v.val) < PATHCAP /\ (r # <<>> => v.val # <<>>)
           /\ v.err = "EINVAL" => Bad(sub)
      <3> HIDE DEF Control
      <3> QED
        BY <2>6, <2>10, <2>11, <2>12
    <2> QED
      BY <2>10, <2>13 DEF v, w, t
  <1> QED
    BY <1>2, <1>3, <1>4, <1>5

-----------------------------------------------------------------------------
(***************************************************************************)
(* main's options, and the token.                                          *)
(***************************************************************************)
\* The characters of an element are a text.
LEMMA SpellType == \A c \in Nat : Spell(c) \in Seq(Nat)
  <1>1. SUFFICES ASSUME NEW c \in Nat PROVE Spell(c) \in Seq(Nat)
    OBVIOUS
  <1>2. <<Slash, 118, 49, Slash, 102, 115>> \in Seq(Nat)
    BY DEF Slash
  <1>3. <<58, Slash, Slash>> \in Seq(Nat)
    BY DEF Slash
  <1>4. <<Malformed, 48, 48>> \in Seq(Nat)
    BY DEF Malformed
  <1>5. <<c>> \in Seq(Nat)
    OBVIOUS
  <1> DEFINE long == <<Slash, 118, 49, Slash, 102, 115>>
             mid == <<58, Slash, Slash>>
             esc == <<Malformed, 48, 48>>
             one == <<c>>
  <1>6. Spell(c) \in {long, mid, esc, one}
    BY DEF Spell
  <1> HIDE DEF long, mid, esc, one
  <1>7. long \in Seq(Nat) /\ mid \in Seq(Nat) /\ esc \in Seq(Nat) /\ one \in Seq(Nat)
    BY <1>2, <1>3, <1>4, <1>5 DEF long, mid, esc, one
  <1> QED
    BY <1>6, <1>7

\* No characters, no text.
LEMMA RawEmpty == Raw(<<>>) = <<>>
  <1> DEFINE s == [i \in DOMAIN <<>> |-> Spell(<<>>[i])]
  <1>1. s = <<>>
    OBVIOUS
  <1>2. Raw(<<>>) = FlattenSeq(s)
    BY DEF Raw
  <1>3. <<>> \in Seq(Seq(Nat)) /\ Len(<<>>) = 0
    OBVIOUS
  <1>4. PICK f : Flattens(Nat, <<>>, f) /\ FlattenSeq(<<>>) = f[Len(<<>>)]
    BY <1>3, FlattenDef
  <1>5. f[0] = <<>>
    BY <1>4 DEF Flattens
  <1> QED
    BY <1>1, <1>2, <1>3, <1>4, <1>5

\* What Cut leaves of a sequence.
LEMMA CutOf ==
  ASSUME NEW D, NEW t \in Seq(D), NEW n \in Nat
  PROVE  /\ Cut(t, n) \in Seq(D)
         /\ n <= Len(t) => Cut(t, n) = SubSeq(t, 1, n)
         /\ n >= Len(t) => Cut(t, n) = t
  <1> DEFINE m == Min({Len(t), n})
  <1>1. Len(t) \in Nat
    BY LenProperties
  <1>2. m = IF Len(t) <= n THEN Len(t) ELSE n
    BY <1>1, MinPair
  <1>3. Cut(t, n) = SubSeq(t, 1, m)
    BY DEF Cut
  <1> HIDE DEF m
  <1>4. m \in 0 .. Len(t) /\ (n <= Len(t) => m = n) /\ (n >= Len(t) => m = Len(t))
    BY <1>1, <1>2
  <1>5. SubSeq(t, 1, m) \in Seq(D)
    BY <1>4, SubSeqProperties
  <1>6. SubSeq(t, 1, Len(t)) = t
    BY SubSeqFull
  <1> QED
    BY <1>3, <1>4, <1>5, <1>6

\* What Cut leaves of a text.
LEMMA CutIs ==
  ASSUME NEW t \in Seq(Nat), NEW n \in Nat
  PROVE  /\ Cut(t, n) \in Seq(Nat)
         /\ n <= Len(t) => Cut(t, n) = SubSeq(t, 1, n)
         /\ n >= Len(t) => Cut(t, n) = t
  BY CutOf

\* What is cut off is the end.
LEMMA CutFirst ==
  ASSUME NEW t \in Seq(Nat), NEW n \in Nat
  PROVE  \E m \in 0 .. Len(t) : m <= n /\ Cut(t, n) = SubSeq(t, 1, m)
  <1>1. Len(t) \in Nat
    BY LenProperties
  <1>2. CASE n <= Len(t)
    <2>1. Cut(t, n) = SubSeq(t, 1, n) /\ n \in 0 .. Len(t)
      BY <1>1, <1>2, CutIs
    <2> QED
      BY <2>1
  <1>3. CASE n >= Len(t)
    <2>1. Cut(t, n) = SubSeq(t, 1, Len(t)) /\ Len(t) \in 0 .. Len(t)
      <3>1. Cut(t, n) = t
        BY <1>3, CutIs
      <3>2. SubSeq(t, 1, Len(t)) = t
        BY SubSeqFull
      <3>3. Len(t) \in 0 .. Len(t)
        BY <1>1
      <3> QED
        BY <3>1, <3>2, <3>3
    <2> QED
      BY <1>3, <2>1
  <1> QED
    BY <1>1, <1>2, <1>3

\* The first elements of the first elements.
LEMMA FirstOfFirst ==
  ASSUME NEW t \in Seq(Nat), NEW m \in 0 .. Len(t), NEW n \in 0 .. m
  PROVE  SubSeq(SubSeq(t, 1, m), 1, n) = SubSeq(t, 1, n)
  <1> DEFINE a == SubSeq(t, 1, m)
             b == SubSeq(a, 1, n)
             c == SubSeq(t, 1, n)
  <1>1. Len(t) \in Nat
    BY LenProperties
  <1>2. n \in 0 .. Len(t)
    BY <1>1
  <1>3. a \in Seq(Nat) /\ Len(a) = m /\ \A j \in 1 .. m : a[j] = t[j]
    BY FirstOf
  <1>4. c \in Seq(Nat) /\ Len(c) = n /\ \A j \in 1 .. n : c[j] = t[j]
    BY <1>2, FirstOf
  <1> HIDE DEF a, c
  <1>5. n \in 0 .. Len(a)
    BY <1>3
  <1>6. b \in Seq(Nat) /\ Len(b) = n /\ \A j \in 1 .. n : b[j] = a[j]
    BY <1>3, <1>5, FirstOf
  <1> HIDE DEF b
  <1>7. ASSUME NEW j \in 1 .. n PROVE b[j] = c[j]
    <2>1. j \in 1 .. m
      BY <1>1
    <2>2. a[j] = t[j]
      BY <1>3, <2>1
    <2>3. b[j] = a[j] /\ c[j] = t[j]
      BY <1>4, <1>6
    <2> QED
      BY <2>2, <2>3
  <1>8. b = c
    BY <1>4, <1>6, <1>7, SeqEqual
  <1> QED
    BY <1>8 DEF a, b, c

\* A C string is the beginning of a text, and all of a text without a NUL.
LEMMA CStringIs ==
  ASSUME NEW t \in Seq(Nat)
  PROVE  /\ CString(t) \in Seq(Nat)
         /\ \E n \in 0 .. Len(t) : CString(t) = SubSeq(t, 1, n) /\ \A i \in 1 .. n : t[i] # NUL
         /\ Holds(CString(t))
         /\ Holds(t) => CString(t) = t
  <1> DEFINE S == {Len(t)} \cup {n \in 0 .. Len(t) - 1 : t[n + 1] = NUL}
             m == Min(S)
  <1>1. Len(t) \in Nat /\ DOMAIN t = 1 .. Len(t)
    BY LenProperties
  <1>2. S \in SUBSET Nat /\ S # {} /\ \A n \in S : n <= Len(t)
    BY <1>1
  <1>3. m \in S /\ \A y \in S : m <= y
    <2> HIDE DEF S
    <2> QED
      BY <1>2, MinNat
  <1>4. m \in Nat /\ m <= Len(t)
    BY <1>2, <1>3
  <1>5. CString(t) = Cut(t, m)
    BY DEF CString
  <1> HIDE DEF m
  <1>6. CString(t) = SubSeq(t, 1, m) /\ m \in 0 .. Len(t)
    <2>1. Cut(t, m) = SubSeq(t, 1, m)
      BY <1>4, CutIs
    <2>2. m \in 0 .. Len(t)
      BY <1>1, <1>4
    <2> QED
      BY <1>5, <2>1, <2>2
  <1>7. \A i \in 1 .. m : t[i] # NUL
    <2>1. SUFFICES ASSUME NEW i \in 1 .. m, t[i] = NUL PROVE FALSE
      OBVIOUS
    <2>2. i - 1 \in 0 .. Len(t) - 1 /\ t[(i - 1) + 1] = NUL
      BY <1>1, <1>4, <2>1
    <2>3. i - 1 \in S
      BY <2>2
    <2>4. m <= i - 1
      BY <1>3, <2>3
    <2> QED
      BY <1>4, <2>4
  <1>8. CString(t) \in Seq(Nat) /\ Len(CString(t)) = m /\ \A j \in 1 .. m : CString(t)[j] = t[j]
    BY <1>6, FirstOf
  <1>9. Holds(CString(t))
    <2>1. DOMAIN CString(t) = 1 .. m
      BY <1>8, LenProperties
    <2> QED
      BY <1>7, <1>8, <2>1 DEF Holds
  <1>10. ASSUME Holds(t) PROVE CString(t) = t
    <2>1. \A n \in 0 .. Len(t) - 1 : t[n + 1] # NUL
      BY <1>1, <1>10 DEF Holds
    <2>2. m = Len(t)
      BY <1>3, <2>1
    <2> QED
      BY <1>6, <2>2, SubSeqFull
  <1> QED
    BY <1>6, <1>7, <1>8, <1>9, <1>10

\* The characters of a text are a text.
LEMMA RawType ==
  ASSUME NEW t \in Seq(Nat)
  PROVE  Raw(t) \in Seq(Nat)
  <1> DEFINE s == [i \in DOMAIN t |-> Spell(t[i])]
  <1>1. Len(t) \in Nat /\ DOMAIN t = 1 .. Len(t) /\ \A i \in 1 .. Len(t) : t[i] \in Nat
    BY LenProperties, ElementOfSeq
  <1>2. \A c \in Nat : Spell(c) \in Seq(Nat)
    BY SpellType
  <1>3. s \in Seq(Seq(Nat))
    BY <1>1, <1>2
  <1>4. Raw(t) = FlattenSeq(s)
    BY DEF Raw
  <1> HIDE DEF s
  <1> QED
    BY <1>3, <1>4, FlattenType

\* What a bounded copy keeps is a text, and all of a text that its buffer holds.
LEMMA CopyIs ==
  ASSUME NEW t \in Seq(Nat), NEW size \in Nat, size > 0
  PROVE  /\ copy_bounded(t, size) \in Seq(Nat)
         /\ Len(Raw(t)) < size => copy_bounded(t, size) = t
  <1> DEFINE N == Len(t)
             S == {k \in 0 .. N : Len(Raw(SubSeq(t, 1, k))) < size}
             n == Max(S)
             kept == SubSeq(t, 1, n)
             left == size - 1 - Len(Raw(kept))
  <1>1. N \in Nat
    BY LenProperties
  <1>2. 0 \in S
    <2>1. SubSeq(t, 1, 0) \in Seq(Nat) /\ Len(SubSeq(t, 1, 0)) = 0
      BY <1>1, FirstOf
    <2>2. SubSeq(t, 1, 0) = <<>>
      BY <2>1, EmptySeq
    <2>3. Raw(<<>>) = <<>>
      BY RawEmpty
    <2>4. Len(<<>>) = 0
      OBVIOUS
    <2>5. Len(Raw(SubSeq(t, 1, 0))) < size
      <3>1. Len(Raw(SubSeq(t, 1, 0))) = 0
        BY <2>2, <2>3, <2>4, Zenon
      <3> QED
        BY <3>1
    <2>6. 0 \in 0 .. N
      BY <1>1
    <2> HIDE DEF N
    <2> QED
      BY <2>5, <2>6, Zenon
  <1>3. S \in SUBSET (0 .. N) /\ S # {}
    BY <1>2
  <1>4. n \in S /\ \A y \in S : y <= n
    <2> HIDE DEF S, N
    <2> QED
      BY <1>1, <1>3, MaxNat
  <1>5. copy_bounded(t, size) = kept \o (IF n = N THEN <<>> ELSE Cut(Spell(t[n + 1]), left))
    BY DEF copy_bounded
  <1>6. n \in 0 .. N /\ Len(Raw(kept)) < size
    BY <1>4
  <1> HIDE DEF n
  <1>7. kept \in Seq(Nat)
    BY <1>6, FirstOf
  <1>8. left \in Nat
    <2>1. Len(Raw(kept)) \in Nat
      BY <1>7, RawType, LenProperties
    <2> QED
      BY <1>6, <2>1
  <1>9. n # N => Cut(Spell(t[n + 1]), left) \in Seq(Nat)
    <2>1. SUFFICES ASSUME n # N PROVE Cut(Spell(t[n + 1]), left) \in Seq(Nat)
      OBVIOUS
    <2>2. n + 1 \in 1 .. N
      BY <1>1, <1>6, <2>1
    <2>3. t[n + 1] \in Nat
      BY <2>2, ElementOfSeq
    <2>4. Spell(t[n + 1]) \in Seq(Nat)
      BY <2>3, SpellType
    <2> HIDE DEF left
    <2> QED
      BY <1>8, <2>4, CutIs
  <1> HIDE DEF left, kept
  <1>10. copy_bounded(t, size) \in Seq(Nat)
    <2>1. CASE n = N
      <3>1. <<>> \in Seq(Nat)
        OBVIOUS
      <3> QED
        BY <1>5, <1>7, <2>1, <3>1, ConcatProperties
    <2>2. CASE n # N
      BY <1>5, <1>7, <1>9, <2>2, ConcatProperties
    <2> QED
      BY <2>1, <2>2
  <1>11. ASSUME Len(Raw(t)) < size PROVE copy_bounded(t, size) = t
    <2>1. SubSeq(t, 1, N) = t
      BY SubSeqFull
    <2>2. N \in S
      <3>1. N \in 0 .. N
        BY <1>1
      <3>2. Len(Raw(SubSeq(t, 1, N))) < size
        BY <1>11, <2>1, Zenon
      <3> HIDE DEF N
      <3> QED
        BY <3>1, <3>2, Zenon
    <2>3. n = N
      BY <1>1, <1>4, <1>6, <2>2
    <2>4. kept = t
      BY <2>1, <2>3 DEF kept
    <2> QED
      BY <1>5, <2>3, <2>4, ConcatEmptySeq
  <1> QED
    BY <1>10, <1>11

\* Stripping the slashes at a text's end leaves its segments as they are.
LEMMA StripIs ==
  ASSUME NEW t \in Seq(Nat)
  PROVE  strip_trailing_slashes(t) \in Seq(Nat) /\ Segments(strip_trailing_slashes(t)) = Segments(t)
  <1> DEFINE N == Len(t)
             S == {1} \cup {n \in DOMAIN t : t[n] # Slash}
             m == Max(S)
  <1>1. N \in Nat /\ DOMAIN t = 1 .. N
    BY LenProperties
  <1>2. S \in SUBSET (0 .. N + 1) /\ S # {} /\ N + 1 \in Nat
    BY <1>1
  <1>3. m \in S /\ \A y \in S : y <= m
    <2> HIDE DEF S
    <2> QED
      BY <1>2, MaxNat
  <1>4. m \in Nat /\ m >= 1 /\ \A i \in 1 .. N : i > m => t[i] = Slash
    <2> HIDE DEF m, N
    <2> QED
      BY <1>1, <1>3
  <1>5. strip_trailing_slashes(t) = Cut(t, m)
    BY DEF strip_trailing_slashes
  <1> HIDE DEF m, N, S
  <1>6. CASE m >= N
    <2>1. Cut(t, m) = t
      BY <1>1, <1>4, <1>6, CutIs DEF N
    <2> QED
      BY <1>5, <2>1
  <1>7. CASE m < N
    <2>1. Cut(t, m) = SubSeq(t, 1, m) /\ Cut(t, m) \in Seq(Nat)
      <3>1. m \in Nat /\ m <= N
        BY <1>1, <1>4, <1>7
      <3> QED
        BY <3>1, CutIs DEF N
    <2>2. m \in 0 .. N /\ \A i \in m + 1 .. N : t[i] = Slash
      BY <1>1, <1>4, <1>7
    <2>3. Segments(SubSeq(t, 1, m)) = Segments(t)
      BY <2>2, SegSlashes DEF N
    <2> QED
      BY <1>5, <2>1, <2>3
  <1> QED
    BY <1>1, <1>4, <1>6, <1>7

\* The beginning of a text without a NUL has none.
LEMMA HoldsFirst ==
  ASSUME NEW t \in Seq(Nat), Holds(t), NEW n \in Nat
  PROVE  Holds(Cut(t, n)) /\ Len(Cut(t, n)) \in Nat /\ Len(Cut(t, n)) <= n
  <1>1. PICK m \in 0 .. Len(t) : m <= n /\ Cut(t, n) = SubSeq(t, 1, m)
    BY CutFirst
  <1> DEFINE c == SubSeq(t, 1, m)
  <1>2. c \in Seq(Nat) /\ Len(c) = m /\ \A j \in 1 .. m : c[j] = t[j]
    BY FirstOf
  <1>3. Len(t) \in Nat /\ DOMAIN t = 1 .. Len(t)
    BY LenProperties
  <1> HIDE DEF c
  <1>4. DOMAIN c = 1 .. m
    BY <1>2, LenProperties
  <1>5. Holds(c)
    BY <1>2, <1>3, <1>4 DEF Holds
  <1>6. Cut(t, n) = c /\ m <= n /\ m \in Nat
    BY <1>1, <1>3 DEF c
  <1>7. Len(c) \in Nat /\ Len(c) <= n
    BY <1>2, <1>6
  <1> QED
    BY <1>5, <1>6, <1>7, Zenon

\* A token file's line is a text that fits the token's buffer.
LEMMA LineIs ==
  ASSUME NEW t \in Seq(Nat)
  PROVE  /\ read_token_file(t) \in Seq(Nat) /\ Holds(read_token_file(t))
         /\ Len(read_token_file(t)) <= TokenCap
  <1> DEFINE nl == {i \in DOMAIN t : t[i] = NL}
             a == Min({TokenCap} \cup nl)
             cut == Cut(t, a)
             line == CString(cut)
             S == {0} \cup {n \in DOMAIN line : line[n] \notin Blank}
             b == Max(S)
  <1>1. Len(t) \in Nat /\ DOMAIN t = 1 .. Len(t)
    BY LenProperties
  <1>2. {TokenCap} \cup nl \in SUBSET Nat /\ {TokenCap} \cup nl # {}
    BY <1>1, RouterAssumption
  <1>3. a \in Nat /\ a <= TokenCap
    <2> HIDE DEF nl
    <2>1. a \in {TokenCap} \cup nl /\ \A y \in {TokenCap} \cup nl : a <= y
      BY <1>2, MinNat
    <2> QED
      BY <1>2, <2>1
  <1> HIDE DEF a
  <1>4. cut \in Seq(Nat)
    BY <1>3, CutIs
  <1>10. Len(cut) \in Nat /\ Len(cut) <= a
    <2>1. PICK m \in 0 .. Len(t) : m <= a /\ cut = SubSeq(t, 1, m)
      BY <1>3, CutFirst
    <2>2. Len(SubSeq(t, 1, m)) = m
      BY FirstOf
    <2> QED
      BY <1>1, <2>1, <2>2
  <1> HIDE DEF cut
  <1>11. line \in Seq(Nat) /\ Holds(line)
    BY <1>4, CStringIs
  <1>12. Len(line) <= Len(cut)
    <2>1. PICK m \in 0 .. Len(cut) : line = SubSeq(cut, 1, m)
      BY <1>4, CStringIs
    <2>2. Len(SubSeq(cut, 1, m)) = m
      BY <1>4, FirstOf
    <2> QED
      BY <1>10, <2>1, <2>2
  <1> HIDE DEF line
  <1>5. Len(line) \in Nat /\ DOMAIN line = 1 .. Len(line)
    BY <1>11, LenProperties
  <1>6. S \in SUBSET (0 .. Len(line)) /\ S # {}
    BY <1>5
  <1>7. b \in S
    <2> HIDE DEF S
    <2> QED
      BY <1>5, <1>6, MaxNat
  <1>8. b \in Nat /\ b <= Len(line)
    BY <1>5, <1>6, <1>7
  <1>9. read_token_file(t) = Cut(line, b)
    BY DEF read_token_file, line, cut, a
  <1> HIDE DEF b
  <1>13. Cut(line, b) \in Seq(Nat) /\ Holds(Cut(line, b)) /\ Len(Cut(line, b)) \in Nat /\ Len(Cut(line, b)) <= b
    BY <1>8, <1>11, CutIs, HoldsFirst
  <1> QED
    BY <1>3, <1>5, <1>8, <1>9, <1>10, <1>12, <1>13, RouterAssumption

\* What token_eq accepts begins with the token, and it accepts the token.
LEMMA TokenEq ==
  ASSUME NEW got \in Seq(Nat), NEW want \in Seq(Nat)
  PROVE  /\ token_eq(got, want) => IsPrefix(want, got)
         /\ token_eq(want, want)
  <1>1. Len(got) \in Nat /\ Len(want) \in Nat /\ DOMAIN got = 1 .. Len(got) /\ DOMAIN want = 1 .. Len(want)
    BY LenProperties
  <1>2. ASSUME token_eq(got, want) PROVE IsPrefix(want, got)
    <2>1. \A i \in 1 .. Len(want) : i \in 1 .. Len(got) /\ got[i] = want[i]
      BY <1>1, <1>2 DEF token_eq
    <2>2. Len(want) <= Len(got)
      <3> DEFINE n == Len(want)
                 g == Len(got)
      <3>1. n \in Nat /\ g \in Nat /\ \A i \in 1 .. n : i \in 1 .. g
        BY <1>1, <2>1
      <3> HIDE DEF n, g
      <3>2. n <= g
        <4>1. CASE n = 0
          BY <3>1, <4>1
        <4>2. CASE n # 0
          BY <3>1, <4>2
        <4> QED
          BY <4>1, <4>2
      <3> QED
        BY <3>2 DEF n, g
    <2> QED
      BY <2>1, <2>2, PrefixOf
  <1>3. token_eq(want, want)
    <2>1. Len(want) - Len(want) = 0 /\ 0 % Wrap = 0
      BY <1>1, RouterAssumption
    <2>2. (Len(want) - Len(want)) % Wrap = 0
      BY <2>1
    <2> QED
      BY <2>2 DEF token_eq
  <1> QED
    BY <1>2, <1>3

-----------------------------------------------------------------------------
(***************************************************************************)
(* dest_subpath: what a Destination means.                                 *)
(***************************************************************************)
\* A Destination's path, spelled out, is a text.
LEMMA SpelledType ==
  ASSUME NEW t \in Seq(Nat)
  PROVE  Spelled(t) \in Seq(Nat)
  <1> DEFINE long == <<Slash, 118, 49, Slash, 102, 115>>
             s == [i \in DOMAIN t |-> IF t[i] = Fs THEN long ELSE <<t[i]>>]
  <1>1. Len(t) \in Nat /\ DOMAIN t = 1 .. Len(t) /\ \A i \in 1 .. Len(t) : t[i] \in Nat
    BY LenProperties, ElementOfSeq
  <1>2. long \in Seq(Nat)
    BY DEF Slash
  <1>3. \A i \in 1 .. Len(t) : <<t[i]>> \in Seq(Nat)
    BY <1>1
  <1> HIDE DEF long
  <1>4. s \in Seq(Seq(Nat))
    BY <1>1, <1>2, <1>3
  <1>5. Spelled(t) = FlattenSeq(s)
    BY DEF Spelled, long
  <1> HIDE DEF s
  <1> QED
    BY <1>4, <1>5, FlattenType

\* The part of a text from one position to another.
LEMMA SubSeqIs ==
  ASSUME NEW s \in Seq(Nat), NEW a \in 1 .. Len(s) + 1, NEW b \in a - 1 .. Len(s)
  PROVE  /\ SubSeq(s, a, b) \in Seq(Nat) /\ Len(SubSeq(s, a, b)) = b - a + 1
         /\ \A j \in 1 .. b - a + 1 : SubSeq(s, a, b)[j] = s[a + j - 1]
  <1> DEFINE u == SubSeq(s, a, b)
             N == Len(s)
  <1>1. N \in Nat
    BY LenProperties
  <1>2. u \in Seq(Nat) /\ Len(u) = IF a <= b THEN b - a + 1 ELSE 0
    BY SubSeqProperties
  <1>3. \A j \in 1 .. b - a + 1 : u[j] = s[a + j - 1]
    BY SubSeqProperties
  <1> HIDE DEF u, N
  <1>4. a \in Int /\ b \in Int /\ a - 1 <= b
    BY <1>1 DEF N
  <1>5. Len(u) = b - a + 1
    BY <1>2, <1>4
  <1> QED
    BY <1>2, <1>3, <1>5 DEF u

\* What From takes of a text begins at the first of the given positions.
LEMMA FromIs ==
  ASSUME NEW d \in Seq(Nat), NEW at \in SUBSET DOMAIN d, at # {}
  PROVE  \E k \in at :
           /\ \A y \in at : k <= y
           /\ k \in 1 .. Len(d) /\ From(d, at) = SubSeq(d, k, Len(d)) /\ From(d, at) \in Seq(Nat)
           /\ Len(From(d, at)) = Len(d) - k + 1
           /\ \A j \in 1 .. Len(d) - k + 1 : From(d, at)[j] = d[k + j - 1]
  <1> DEFINE N == Len(d)
             k == Min(at)
             f == From(d, at)
  <1>1. N \in Nat /\ DOMAIN d = 1 .. N
    BY LenProperties
  <1>2. k \in at /\ \A y \in at : k <= y
    <2>1. at \in SUBSET Nat
      BY <1>1
    <2> QED
      BY <2>1, MinNat
  <1>3. f = SubSeq(d, k, N)
    BY DEF From
  <1> HIDE DEF k, f
  <1>4. k \in 1 .. N
    BY <1>1, <1>2
  <1>5. SubSeq(d, k, N) \in Seq(Nat) /\ Len(SubSeq(d, k, N)) = N - k + 1
        /\ \A j \in 1 .. N - k + 1 : SubSeq(d, k, N)[j] = d[k + j - 1]
    <2>1. k \in 1 .. N + 1 /\ N \in k - 1 .. N
      BY <1>1, <1>4
    <2> QED
      BY <2>1, SubSeqIs DEF N
  <1> QED
    BY <1>2, <1>3, <1>4, <1>5 DEF f, N

\* A position of a Destination from which its path is read: the first "/v1/fs",
\* with no slash before it and at most one "://", and none after.
PathAt(d, i) ==
  /\ d[i] = Fs
  /\ \A j \in 1 .. i - 1 : d[j] \notin {Fs, Slash}
  /\ Cardinality(Colons(SubSeq(d, 1, i))) <= 1 /\ Colons(SubSeq(d, i, Len(d))) = {}

\* No "://" follows such a position.
LEMMA NoColonAfter ==
  ASSUME NEW d \in Seq(Nat), NEW i \in 1 .. Len(d), PathAt(d, i)
  PROVE  \A j \in i .. Len(d) : d[j] # Scheme
  <1> DEFINE N == Len(d)
             x == SubSeq(d, i, N)
  <1>1. N \in Nat /\ i \in 1 .. N
    BY LenProperties
  <1>2. Len(x) = N - i + 1 /\ x \in Seq(Nat) /\ \A j \in 1 .. N - i + 1 : x[j] = d[i + j - 1]
    <2>1. i \in 1 .. N + 1 /\ N \in i - 1 .. N
      BY <1>1
    <2> QED
      BY <2>1, SubSeqIs
  <1>3. Colons(x) = {}
    BY DEF PathAt
  <1> HIDE DEF x, N
  <1>4. DOMAIN x = 1 .. N - i + 1
    BY <1>2, LenProperties
  <1>5. SUFFICES ASSUME NEW j \in i .. N PROVE d[j] # Scheme
    BY DEF N
  <1>6. j - i + 1 \in 1 .. N - i + 1 /\ i + (j - i + 1) - 1 = j
    BY <1>1, <1>5
  <1>7. x[j - i + 1] # Scheme
    BY <1>3, <1>4, <1>6 DEF Colons
  <1> QED
    BY <1>2, <1>6, <1>7

\* The path in a Destination is what follows its first "/v1/fs".
LEMMA DestIs ==
  ASSUME NEW d \in Seq(Nat), dest_subpath(d) # NoText
  PROVE  /\ dest_subpath(d) \in Seq(Nat)
         /\ \A i \in DOMAIN d : PathAt(d, i) => dest_subpath(d) = SubSeq(d, i + 1, Len(d))
  <1> DEFINE N == Len(d)
             colon == {i \in DOMAIN d : d[i] = Scheme}
             A == {i \in DOMAIN d : i > Min(colon) /\ d[i] \in {Slash, Fs}}
             p == IF colon = {} THEN d ELSE From(d, A)
             B == {i \in DOMAIN p : p[i] = Fs}
             f == From(p, B)
  <1>1. N \in Nat /\ DOMAIN d = 1 .. N
    BY LenProperties
  <1>2. f # NoText /\ dest_subpath(d) = Tail(f)
    BY DEF dest_subpath
  <1>3. B # {}
    BY <1>2 DEF From
  <1>4. \E k \in 1 .. N :
          /\ p = SubSeq(d, k, N) /\ p \in Seq(Nat) /\ Len(p) = N - k + 1
          /\ \A j \in 1 .. N - k + 1 : p[j] = d[k + j - 1]
          /\ \A i \in 1 .. N : PathAt(d, i) => k <= i /\ (colon # {} => k = i) /\ (colon = {} => k = 1)
    <2>1. CASE colon = {}
      <3>1. p = d
        BY <2>1
      <3> HIDE DEF p
      <3>2. N >= 1
        <4>1. PICK b \in B : TRUE
          BY <1>3
        <4> QED
          BY <1>1, <3>1, <4>1
      <3>3. p = SubSeq(d, 1, N) /\ Len(p) = N - 1 + 1
        BY <1>1, <3>1, SubSeqFull
      <3>4. \A j \in 1 .. N - 1 + 1 : p[j] = d[1 + j - 1]
        BY <1>1, <3>1
      <3> QED
        BY <1>1, <2>1, <3>1, <3>2, <3>3, <3>4
    <2>2. CASE colon # {}
      <3>1. p = From(d, A)
        BY <2>2
      <3>2. A # {}
        <4>1. ASSUME A = {} PROVE FALSE
          <5>1. p = <<-1>>
            BY <3>1, <4>1 DEF From, NoText
          <5> HIDE DEF p
          <5>2. \A i \in DOMAIN p : p[i] # Fs
            BY <5>1 DEF Fs
          <5> QED
            BY <1>3, <5>2
        <4> QED
          BY <4>1
      <3>3. colon \in SUBSET Nat
        BY <1>1
      <3>4. Min(colon) \in colon
        <4> HIDE DEF colon
        <4> QED
          BY <2>2, <3>3, MinNat
      <3> DEFINE c == Min(colon)
      <3>5. c \in 1 .. N /\ d[c] = Scheme
        BY <1>1, <3>4
      <3> HIDE DEF c, p
      <3>6. A \in SUBSET DOMAIN d
        OBVIOUS
      <3>7. PICK k \in A :
           /\ \A y \in A : k <= y
           /\ k \in 1 .. Len(d) /\ From(d, A) = SubSeq(d, k, Len(d)) /\ From(d, A) \in Seq(Nat)
           /\ Len(From(d, A)) = Len(d) - k + 1
           /\ \A j \in 1 .. Len(d) - k + 1 : From(d, A)[j] = d[k + j - 1]
        <4> HIDE DEF A
        <4> QED
          BY <3>2, <3>6, FromIs
      <3>8. k > c /\ d[k] \in {Slash, Fs} /\ \A y \in 1 .. N : y > c /\ d[y] \in {Slash, Fs} => k <= y
        <4>1. \A y \in 1 .. N : y > c /\ d[y] \in {Slash, Fs} => y \in A
          BY <1>1 DEF c
        <4>2. k > c /\ d[k] \in {Slash, Fs}
          BY DEF c
        <4> HIDE DEF A
        <4> QED
          BY <3>7, <4>1, <4>2
      <3> HIDE DEF A
      <3>9. \A i \in 1 .. N : PathAt(d, i) => k = i
        <4>1. SUFFICES ASSUME NEW i \in 1 .. N, PathAt(d, i) PROVE k = i
          OBVIOUS
        <4>2. d[i] = Fs /\ (\A j \in 1 .. i - 1 : d[j] \notin {Fs, Slash}) /\ \A j \in i .. N : d[j] # Scheme
          BY <4>1, NoColonAfter DEF PathAt
        <4>3. c < i
          BY <1>1, <3>5, <4>2
        <4>4. k <= i
          BY <3>8, <4>2, <4>3
        <4>5. ~(k < i)
          BY <1>1, <3>7, <3>8, <4>2
        <4>6. k \in Int /\ i \in Int
          BY <3>7
        <4> QED
          BY <4>4, <4>5, <4>6
      <3>10. k \in 1 .. N /\ p = SubSeq(d, k, N) /\ p \in Seq(Nat) /\ Len(p) = N - k + 1
             /\ \A j \in 1 .. N - k + 1 : p[j] = d[k + j - 1]
        BY <3>1, <3>7
      <3>11. \A i \in 1 .. N : PathAt(d, i) => k <= i
        BY <3>9, <3>10
      <3> HIDE DEF colon, N
      <3> QED
        BY <2>2, <3>9, <3>10, <3>11
    <2> QED
      BY <2>1, <2>2
  <1>5. PICK k \in 1 .. N :
          /\ p = SubSeq(d, k, N) /\ p \in Seq(Nat) /\ Len(p) = N - k + 1
          /\ \A j \in 1 .. N - k + 1 : p[j] = d[k + j - 1]
          /\ \A i \in 1 .. N : PathAt(d, i) => k <= i /\ (colon # {} => k = i) /\ (colon = {} => k = 1)
    BY <1>4
  <1> HIDE DEF p, colon
  <1>6. B \in SUBSET DOMAIN p
    OBVIOUS
  <1>7. PICK l \in B :
           /\ \A y \in B : l <= y
           /\ l \in 1 .. Len(p) /\ From(p, B) = SubSeq(p, l, Len(p)) /\ From(p, B) \in Seq(Nat)
           /\ Len(From(p, B)) = Len(p) - l + 1
           /\ \A j \in 1 .. Len(p) - l + 1 : From(p, B)[j] = p[l + j - 1]
    <2> HIDE DEF B
    <2> QED
      BY <1>3, <1>5, <1>6, FromIs
  <1>8. DOMAIN p = 1 .. Len(p)
    BY <1>5, LenProperties
  <1>9. p[l] = Fs /\ \A y \in 1 .. Len(p) : p[y] = Fs => l <= y
    BY <1>7, <1>8
  <1> HIDE DEF B
  <1>10. f \in Seq(Nat) /\ Len(f) = N - k - l + 2 /\ l \in 1 .. N - k + 1
         /\ \A j \in 1 .. N - k - l + 2 : f[j] = d[k + l + j - 2]
    <2>1. l \in 1 .. N - k + 1
      BY <1>5, <1>7
    <2>2. f \in Seq(Nat) /\ Len(f) = (N - k + 1) - l + 1 /\ \A j \in 1 .. (N - k + 1) - l + 1 : f[j] = p[l + j - 1]
      BY <1>5, <1>7
    <2> HIDE DEF f, N
    <2>3. \A j \in 1 .. (N - k + 1) - l + 1 : l + j - 1 \in 1 .. N - k + 1 /\ k + (l + j - 1) - 1 = k + l + j - 2
      <3>1. N \in Int /\ k \in Int /\ l \in Int /\ l >= 1
        BY <1>1, <2>1
      <3> QED
        BY <3>1
    <2>4. (N - k + 1) - l + 1 = N - k - l + 2
      BY <1>1, <1>5, <2>1
    <2> QED
      BY <1>5, <2>1, <2>2, <2>3, <2>4
  <1> HIDE DEF f, N
  <1>11. f # <<>>
    <2>1. Len(f) >= 1
      BY <1>1, <1>5, <1>10
    <2> QED
      BY <2>1, EmptySeq
  <1>12. Tail(f) \in Seq(Nat) /\ Len(Tail(f)) = Len(f) - 1 /\ \A j \in 1 .. Len(f) - 1 : Tail(f)[j] = f[j + 1]
    BY <1>10, <1>11, HeadTailProperties
  <1>13. ASSUME NEW i \in DOMAIN d, PathAt(d, i) PROVE Tail(f) = SubSeq(d, i + 1, N)
    <2>1. i \in 1 .. N /\ d[i] = Fs /\ (\A j \in 1 .. i - 1 : d[j] # Fs) /\ k <= i
      BY <1>1, <1>5, <1>13 DEF PathAt
    <2>2. p[i - k + 1] = Fs /\ i - k + 1 \in 1 .. N - k + 1
      <3>1. i - k + 1 \in 1 .. N - k + 1 /\ k + (i - k + 1) - 1 = i
        BY <1>1, <1>5, <2>1
      <3> QED
        BY <1>5, <2>1, <3>1
    <2>3. l <= i - k + 1
      BY <1>5, <1>9, <2>2
    <2>4. d[k + l - 1] = Fs
      BY <1>5, <1>9, <1>10
    <2>5. k + l - 1 = i
      <3> DEFINE h == k + l - 1
      <3>1. N \in Int /\ k \in Int /\ l \in Int /\ i \in Int /\ k >= 1 /\ l >= 1
        BY <1>1, <1>10, <2>1
      <3>2. h \in Int /\ h >= 1 /\ h <= i
        BY <2>3, <3>1
      <3> HIDE DEF h
      <3>3. h \in 1 .. i - 1 => d[h] # Fs
        BY <2>1
      <3>4. h = i
        BY <2>4, <3>1, <3>2, <3>3 DEF h
      <3> QED
        BY <3>4 DEF h
    <2> DEFINE x == SubSeq(d, i + 1, N)
    <2>6. x \in Seq(Nat) /\ Len(x) = N - i /\ \A j \in 1 .. N - i : x[j] = d[i + j]
      <3>1. i + 1 \in 1 .. N + 1 /\ N \in (i + 1) - 1 .. N
        BY <1>1, <2>1
      <3>3. /\ x \in Seq(Nat) /\ Len(x) = N - (i + 1) + 1
            /\ \A j \in 1 .. N - (i + 1) + 1 : x[j] = d[(i + 1) + j - 1]
        BY <3>1, SubSeqIs DEF N
      <3> HIDE DEF x
      <3>4. N - (i + 1) + 1 = N - i /\ \A j \in 1 .. N - i : (i + 1) + j - 1 = i + j
        BY <1>1, <2>1
      <3> QED
        BY <3>3, <3>4
    <2> DEFINE t == Tail(f)
    <2>7. t \in Seq(Nat) /\ Len(t) = N - i /\ \A j \in 1 .. N - i : t[j] = d[i + j]
      <3> HIDE DEF t
      <3>1. Len(f) = N - i + 1
        BY <1>1, <1>5, <1>10, <2>1, <2>5
      <3>2. \A j \in 1 .. N - i : j + 1 \in 1 .. N - k - l + 2 /\ k + l + (j + 1) - 2 = i + j
        BY <1>1, <1>5, <1>10, <2>1, <2>5
      <3>3. Len(f) - 1 = N - i
        BY <1>1, <2>1, <3>1
      <3> QED
        BY <1>10, <1>12, <3>2, <3>3 DEF t
    <2> HIDE DEF t, x
    <2>8. t = x
      BY <2>6, <2>7, SeqEqual
    <2> QED
      BY <2>8 DEF t, x
  <1> QED
    BY <1>2, <1>12, <1>13 DEF N

-----------------------------------------------------------------------------
(***************************************************************************)
(* The inductive invariant.                                                *)
(***************************************************************************)
\* Request and reply of a daemon that has one.
Received == req.method # "none"

Serving  == {"accept", "route", "dispatch", "open", "send"}

Working  == {"dispatch", "open", "send"}

\* the types of what the parser keeps
Asks ==
  /\ req.sub \in Seq(Nat)
  /\ req.bearer # NoText => req.bearer \in Seq(Nat)
  /\ req.dest # NoText => req.dest \in Seq(Nat)
  /\ req.range # NoRange => req.range \in [unit : BOOLEAN, text : Seq(Token)]

\* a request is one that was sent, and what is kept of it
Arrived ==
  /\ sent.method # "none" => Received
  /\ Received => sent \in Requests(opts) /\ req \in Parsed(sent) /\ Asks

Typed ==
  /\ pc \in {"args", "token", "root", "listen", "end"} \cup Serving
  /\ opts \in Options /\ Arrived
  /\ {root, token, path, dest} \subseteq Seq(Nat)
  /\ file \in [size : 0 .. LLONG_MAX, has : Int]
  /\ range \in [ok : BOOLEAN, start : Int, end : Int] /\ out \in Seq(Int)

\* what the start-up has established
Boot ==
  /\ pc \in {"token", "root", "listen"} \cup Serving \/ Received =>
       opts.root # NoText /\ root = strip_trailing_slashes(Cut(opts.root, PATHCAP - 1))
  /\ pc \in {"root", "listen"} \cup Serving \/ Received => token # <<>> /\ Len(token) <= TokenCap /\ Holds(token)
  /\ pc \in {"listen"} \cup Serving \/ Received => fsapi_check_root(root)

\* what is still to be done, and what has been done for a file to be reached
Phase ==
  /\ pc \in Working \cup {"route"} => Received
  /\ pc \in {"args", "token", "root", "listen", "accept"} => ~Received
  /\ pc \notin {"send", "end"} => reply = "none"
  /\ ~Received \/ pc = "route" => path = <<>>
  /\ ~Received => reply \in {"none", "exit 0", "exit 1", "exit 2"}
  /\ path = <<>> => dest = <<>>
  /\ pc \in Working => path # <<>>
  /\ pc \notin {"send", "end"} => range = Whole /\ out = <<>>

\* who has reached a file, and the part of it that is sent
Gate ==
  path # <<>> => req.route = "fs" /\ req.bearer \in Seq(Nat) /\ IsPrefix(token, req.bearer)

Served ==
  /\ reply = "OK" /\ path # <<>> => req.range = NoRange /\ range = Whole
  /\ reply = "partial" => path # <<>> /\ req.range # NoRange /\ range.ok
  /\ reply = "ERANGE" => path # <<>> /\ req.range # NoRange /\ ~range.ok
  /\ reply \in {"partial", "ERANGE"} => range = parse_range(req.range, file.size)

\* what the paths mean and who is answered, of the request as the parser keeps it
MeansKept ==
  /\ path # <<>> => Names(path, req.sub)
  /\ dest # <<>> => req.dest # NoText /\ \A i \in DOMAIN req.dest :
       (/\ req.dest[i] = Fs
        /\ \A j \in 1 .. i - 1 : req.dest[j] \notin {Fs, Slash}
        /\ Cardinality(Colons(SubSeq(req.dest, 1, i))) <= 1 /\ Colons(SubSeq(req.dest, i, Len(req.dest))) = {})
       => Names(dest, Spelled(SubSeq(req.dest, i + 1, Len(req.dest))))
  /\ reply = "EINVAL" /\ path = <<>> => Bad(req.sub)

GateKept ==
  /\ pc = "end" /\ Received /\ req.route # "healthz" /\ reply # "EAUTH"
       => req.bearer \in Seq(Nat) /\ IsPrefix(token, req.bearer)
  /\ reply = "EAUTH" => req.route # "healthz" /\ req.bearer # token

IInv == /\ Typed /\ Boot /\ Phase /\ Gate /\ Served
        /\ InsideShare /\ MeansKept /\ GateKept /\ BodyIsRange

-----------------------------------------------------------------------------
(***************************************************************************)
(* What several steps need.                                                *)
(***************************************************************************)
\* Tuples and texts that are no texts.
LEMMA NoTextIs == NoText \notin Seq(Nat)
  <1>1. ASSUME NEW t \in Seq(Nat), Len(t) = 1 PROVE t[1] \in Nat
    <2>1. 1 \in 1 .. Len(t)
      BY <1>1
    <2> QED
      BY <2>1, ElementOfSeq
  <1> DEFINE t == NoText
  <1>2. Len(t) = 1 /\ t[1] = -1
    BY DEF NoText
  <1> HIDE DEF t
  <1>3. t \notin Seq(Nat)
    BY <1>1, <1>2
  <1> QED
    BY <1>3 DEF t

\* What main is given and what a request holds.
LEMMA InputIs ==
  ASSUME NEW o \in Options
  PROVE  /\ o.root # NoText => o.root \in Seq(Nat)
         /\ o.file # NoText => o.file \in Seq(Nat)
         /\ o.token \in Seq(Nat) /\ Holds(o.token)
         /\ \A r \in Requests(o) :
              /\ r.method # "none" /\ r.sub \in Seq(Nat)
              /\ r.bearer # NoText => r.bearer \in Seq(Nat)
              /\ r.dest # NoText => r.dest \in Seq(Nat)
              /\ r.range # NoRange => r.range \in [unit : BOOLEAN, text : Seq(Token)]
  BY InputAssumption

\* The mark of a missing header is no token.
LEMMA NulNoToken == <<Nul>> \notin Seq(Token)
  <1> DEFINE t == <<Nul>>
  <1>1. Len(t) = 1 /\ t[1] = Nul /\ Nul \notin Token
    BY DEF Nul, Token, Dash, Plus, Space, Junk
  <1> HIDE DEF t
  <1>2. ASSUME t \in Seq(Token) PROVE FALSE
    <2>1. 1 \in 1 .. Len(t)
      BY <1>1
    <2>2. t[1] \in Token
      BY <1>2, <2>1, ElementOfSeq
    <2> QED
      BY <1>1, <2>2
  <1> QED
    BY <1>2 DEF t

\* What is left of a Range header that was cut is made of tokens.
LEMMA CutRangesType ==
  ASSUME NEW t \in Seq(Token), NEW k \in CutRanges(t)
  PROVE  k \in Seq(Token)
  <1>1. Len(t) \in Nat /\ DOMAIN t = 1 .. Len(t)
    BY LenProperties
  <1>2. \A n \in Nat : Cut(t, n) \in Seq(Token)
    BY CutOf
  <1>3. CASE \E n \in 0 .. Len(t) : k = Cut(t, n)
    BY <1>1, <1>2, <1>3
  <1>4. CASE \E n \in DOMAIN t : t[n] >= 0 /\ \E v \in 0 .. t[n] : k = Append(Cut(t, n - 1), v)
    <2>1. PICK n \in DOMAIN t : t[n] >= 0 /\ \E v \in 0 .. t[n] : k = Append(Cut(t, n - 1), v)
      BY <1>4
    <2>2. PICK v \in 0 .. t[n] : k = Append(Cut(t, n - 1), v)
      BY <2>1
    <2>3. n - 1 \in Nat /\ t[n] \in Token
      BY <1>1, ElementOfSeq
    <2>4. v \in Nat /\ v \in Token
      BY <2>1, <2>3 DEF Token, Dash, Plus, Space, Junk
    <2>5. Cut(t, n - 1) \in Seq(Token)
      BY <1>2, <2>3
    <2> QED
      BY <2>2, <2>4, <2>5, AppendProperties
  <1> QED
    BY <1>3, <1>4 DEF CutRanges

\* What the parser keeps of a request: texts, all of what fits its buffer, and of
\* a bearer its beginning.
LEMMA ParsedIs ==
  ASSUME NEW o \in Options, NEW s \in Requests(o), NEW r \in Parsed(s)
  PROVE  /\ r.method = s.method /\ r.route = s.route /\ r.method # "none"
         /\ r.sub \in Seq(Nat) /\ (Fits(s.sub, SubRoom) => r.sub = s.sub)
         /\ r.dest # NoText => /\ r.dest \in Seq(Nat) /\ s.dest # NoText
                               /\ Fits(s.dest, HTTP_MAX_HDR_VALUE) => r.dest = s.dest
         /\ r.bearer # NoText => /\ r.bearer \in Seq(Nat) /\ s.bearer \in Seq(Nat)
                                 /\ \E n \in 0 .. Len(s.bearer) : r.bearer = SubSeq(s.bearer, 1, n)
         /\ \A t \in Seq(Nat) : s.bearer = t /\ Len(t) <= TokenCap /\ Holds(t) => r.bearer = t
         /\ (r.range = NoRange <=> s.range = NoRange) /\ (s.fits => r.range = s.range)
         /\ r.range # NoRange => r.range \in [unit : BOOLEAN, text : Seq(Token)]
  <1>1. PICK k \in CutRanges(s.range.text) : r = Kept(s, k)
    BY DEF Parsed
  <1>2. /\ s.method # "none" /\ s.sub \in Seq(Nat)
        /\ s.bearer # NoText => s.bearer \in Seq(Nat)
        /\ s.dest # NoText => s.dest \in Seq(Nat)
        /\ s.range # NoRange => s.range \in [unit : BOOLEAN, text : Seq(Token)]
    BY InputIs
  <1>3. /\ HTTP_MAX_HDR_VALUE \in Nat /\ TokenCap \in Nat /\ HTTP_MAX_HDR_VALUE >= TokenCap + 8
        /\ SubRoom \in Nat /\ SubRoom > 0
    <2>1. <<Fs>> \in Seq(Nat)
      BY DEF Fs
    <2>2. Raw(<<Fs>>) \in Seq(Nat)
      BY <2>1, RawType
    <2>3. Len(Raw(<<Fs>>)) \in Nat
      BY <2>2, LenProperties
    <2> QED
      BY <2>3, RouterAssumption DEF SubRoom
  <1>4. /\ r.method = s.method /\ r.route = s.route
        /\ r.sub = CString(copy_bounded(s.sub, SubRoom))
        /\ r.dest = IF s.dest = NoText THEN NoText ELSE CString(copy_bounded(s.dest, HTTP_MAX_HDR_VALUE))
        /\ r.bearer = IF s.bearer = NoText THEN NoText ELSE CString(Cut(s.bearer, HTTP_MAX_HDR_VALUE - 8))
        /\ r.range = IF s.fits \/ s.range = NoRange THEN s.range ELSE [s.range EXCEPT !.text = k]
    BY <1>1 DEF Kept
  <1>5. r.sub \in Seq(Nat) /\ (Fits(s.sub, SubRoom) => r.sub = s.sub)
    <2>1. /\ copy_bounded(s.sub, SubRoom) \in Seq(Nat)
          /\ Fits(s.sub, SubRoom) => copy_bounded(s.sub, SubRoom) = s.sub
      BY <1>2, <1>3, CopyIs DEF Fits
    <2> QED
      BY <1>4, <2>1, CStringIs DEF Fits
  <1>6. r.dest # NoText => /\ r.dest \in Seq(Nat) /\ s.dest # NoText
                           /\ Fits(s.dest, HTTP_MAX_HDR_VALUE) => r.dest = s.dest
    <2>1. SUFFICES ASSUME s.dest # NoText
                   PROVE  r.dest \in Seq(Nat) /\ (Fits(s.dest, HTTP_MAX_HDR_VALUE) => r.dest = s.dest)
      BY <1>4
    <2>2. HTTP_MAX_HDR_VALUE > 0
      BY <1>3
    <2>3. /\ copy_bounded(s.dest, HTTP_MAX_HDR_VALUE) \in Seq(Nat)
          /\ Fits(s.dest, HTTP_MAX_HDR_VALUE) => copy_bounded(s.dest, HTTP_MAX_HDR_VALUE) = s.dest
      BY <1>2, <1>3, <2>1, <2>2, CopyIs DEF Fits
    <2> QED
      BY <1>4, <2>1, <2>3, CStringIs DEF Fits
  <1>7. HTTP_MAX_HDR_VALUE - 8 \in Nat /\ TokenCap <= HTTP_MAX_HDR_VALUE - 8
    BY <1>3
  <1>8. r.bearer # NoText => /\ r.bearer \in Seq(Nat) /\ s.bearer \in Seq(Nat)
                             /\ \E n \in 0 .. Len(s.bearer) : r.bearer = SubSeq(s.bearer, 1, n)
    <2>1. SUFFICES ASSUME s.bearer # NoText
                   PROVE  /\ r.bearer \in Seq(Nat) /\ s.bearer \in Seq(Nat)
                          /\ \E n \in 0 .. Len(s.bearer) : r.bearer = SubSeq(s.bearer, 1, n)
      BY <1>4
    <2> DEFINE b == s.bearer
               c == Cut(b, HTTP_MAX_HDR_VALUE - 8)
    <2>2. b \in Seq(Nat)
      BY <1>2, <2>1
    <2>3. PICK m \in 0 .. Len(b) : c = SubSeq(b, 1, m)
      BY <1>7, <2>2, CutFirst
    <2>4. c \in Seq(Nat) /\ Len(c) = m
      BY <2>2, <2>3, FirstOf
    <2>5. PICK n \in 0 .. m : CString(c) = SubSeq(c, 1, n)
      <3> HIDE DEF c
      <3> QED
        BY <2>4, CStringIs
    <2>6. SubSeq(c, 1, n) = SubSeq(b, 1, n)
      BY <2>2, <2>3, FirstOfFirst
    <2>7. n \in 0 .. Len(b) /\ CString(c) \in Seq(Nat)
      <3>1. Len(b) \in Nat
        BY <2>2, LenProperties
      <3>2. CString(c) \in Seq(Nat)
        BY <2>4, CStringIs
      <3> QED
        BY <3>1, <3>2
    <2>8. r.bearer = CString(c)
      BY <1>4, <2>1
    <2> HIDE DEF b, c
    <2> QED
      BY <2>2, <2>5, <2>6, <2>7, <2>8 DEF b
  <1>9. ASSUME NEW t \in Seq(Nat), s.bearer = t, Len(t) <= TokenCap, Holds(t) PROVE r.bearer = t
    <2>1. Len(t) \in Nat
      BY LenProperties
    <2>2. Len(t) <= HTTP_MAX_HDR_VALUE - 8
      BY <1>3, <1>9, <2>1
    <2>3. Cut(t, HTTP_MAX_HDR_VALUE - 8) = t
      BY <1>7, <2>2, CutIs
    <2>4. CString(t) = t
      BY <1>9, CStringIs
    <2>5. t # NoText
      BY NoTextIs
    <2> QED
      BY <1>4, <1>9, <2>3, <2>4, <2>5
  <1>10. /\ r.range = NoRange <=> s.range = NoRange
         /\ r.range # NoRange => r.range \in [unit : BOOLEAN, text : Seq(Token)]
    <2>1. CASE s.fits \/ s.range = NoRange
      BY <1>2, <1>4, <2>1
    <2>2. CASE ~(s.fits \/ s.range = NoRange)
      <3>1. s.range \in [unit : BOOLEAN, text : Seq(Token)] /\ k \in Seq(Token)
        BY <1>2, <2>2, CutRangesType
      <3>2. r.range \in [unit : BOOLEAN, text : Seq(Token)] /\ r.range.text = k
        BY <1>4, <2>2, <3>1
      <3>3. NoRange.text \notin Seq(Token)
        BY NulNoToken DEF NoRange
      <3> QED
        BY <2>2, <3>1, <3>2, <3>3
    <2> QED
      BY <2>1, <2>2
  <1> QED
    BY <1>2, <1>4, <1>5, <1>6, <1>8, <1>9, <1>10

\* What parse_range makes of a header: a range of positions, or nothing.
LEMMA ParseType ==
  ASSUME NEW h \in [unit : BOOLEAN, text : Seq(Token)], NEW size \in Nat
  PROVE  /\ parse_range(h, size) \in [ok : BOOLEAN, start : Int, end : Int]
         /\ parse_range(h, size).ok => /\ 0 <= parse_range(h, size).start
                                       /\ parse_range(h, size).start <= parse_range(h, size).end
                                       /\ parse_range(h, size).end < size
  <1> DEFINE t == h.text
             r == parse_range(h, size)
             Spans == [ok : BOOLEAN, start : Int, end : Int]
  <1>1. t \in Seq(Token) /\ h.unit \in BOOLEAN /\ h = [unit |-> h.unit, text |-> t]
    OBVIOUS
  <1>2. \A i : strtoll(t, i).val \in Int
    BY <1>1, StrtollInt
  <1>3. Unsatisfiable \in Spans
    BY DEF Unsatisfiable
  <1>4. \A s, e \in Int : Bytes(s, e) \in Spans
    BY DEF Bytes
  <1> HIDE DEF t, Spans
  <1>5. Suffix(t, size) \in Spans
    <2> DEFINE n == strtoll(t, 2)
               m == IF n.val > size THEN size ELSE n.val
    <2>1. size - m \in Int /\ size - 1 \in Int
      BY <1>2
    <2>2. Suffix(t, size) \in {Unsatisfiable, Bytes(size - m, size - 1)}
      BY DEF Suffix
    <2> HIDE DEF m
    <2> QED
      BY <1>3, <1>4, <2>1, <2>2
  <1>6. FromTo(t, size) \in Spans
    <2> DEFINE s == strtoll(t, 1)
               e == strtoll(t, s.next + 1)
               last == IF Tok(t, s.next + 1) = Nul \/ e.val >= size THEN size - 1 ELSE e.val
    <2>1. s.val \in Int /\ e.val \in Int
      BY <1>2
    <2>2. last \in Int
      BY <2>1
    <2>3. FromTo(t, size) \in {Unsatisfiable, Bytes(s.val, last)}
      BY DEF FromTo
    <2> HIDE DEF s, e, last
    <2> QED
      BY <1>3, <1>4, <2>1, <2>2, <2>3
  <1>7. r \in Spans
    BY <1>3, <1>5, <1>6 DEF parse_range, t
  <1>8. r.ok => 0 <= r.start /\ r.start <= r.end /\ r.end < size
    <2>1. r = parse_range([unit |-> h.unit, text |-> t], size)
      BY <1>1 DEF t
    <2> HIDE DEF r
    <2> QED
      BY <1>1, <2>1, RangeInFile DEF t
  <1> QED
    BY <1>7, <1>8 DEF Spans

\* A root that passes the check is not empty.
LEMMA RootThere ==
  ASSUME fsapi_check_root(root)
  PROVE  root # <<>>
  <1>1. ASSUME root = <<>> PROVE FALSE
    <2>1. Real(Segments(root)) = Ok(<<>>)
      BY <1>1, SegmentsEmpty, RealEmpty
    <2> QED
      BY <2>1 DEF fsapi_check_root, Ok
  <1> QED
    BY <1>1

\* What a step keeps that leaves the paths, or the request, alone.
LEMMA KeptInside ==
  ASSUME InsideShare, UNCHANGED <<root, path, dest>>
  PROVE  InsideShare'
  BY DEF InsideShare, Inside, RealRoot

\* What a step keeps of the meaning that leaves the request and its paths alone.
LEMMA KeptMeaning ==
  ASSUME MeansKept, UNCHANGED <<root, req, path, dest>>, reply' = "EINVAL" /\ path = <<>> => Bad(req.sub)
  PROVE  MeansKept'
  BY DEF MeansKept, Names

\* What a step keeps of the request that leaves it alone.
LEMMA KeptRequest ==
  ASSUME Arrived, UNCHANGED <<opts, sent, req>>
  PROVE  Arrived'
  BY DEF Arrived, Asks, Received

\* What a step keeps of the gate that leaves the request, its path and the token alone.
LEMMA KeptGate ==
  ASSUME Gate, UNCHANGED <<token, sent, req, path>>
  PROVE  Gate'
  BY DEF Gate

\* What a step keeps of the body that leaves the file, the range and the body alone.
LEMMA KeptBody ==
  ASSUME BodyIsRange, UNCHANGED <<file, range, out>>
  PROVE  BodyIsRange'
  BY DEF BodyIsRange, Promised

\* What a step keeps of the start-up that comes after it.
LEMMA KeptBoot ==
  ASSUME Boot, UNCHANGED <<opts, root, token>>, Received' => Received \/ pc \in Serving,
         pc' = "end" \/ (pc \in Serving /\ pc' \in Serving)
  PROVE  Boot'
  BY DEF Boot, Received, Serving, fsapi_check_root

\* Before a request there are no paths, so nothing that is said of them.
LEMMA NoPaths ==
  ASSUME path' = <<>>, dest' = <<>>, reply' # "EINVAL"
  PROVE  InsideShare' /\ MeansKept' /\ Gate'
  BY DEF InsideShare, MeansKept, Gate

-----------------------------------------------------------------------------
(***************************************************************************)
(* The start-up keeps it.                                                  *)
(***************************************************************************)
\* What a step of the start-up leaves alone: nothing is received yet.
LEMMA StartUp ==
  ASSUME IInv, pc \in {"args", "token", "root", "listen"}, UNCHANGED <<opts, request>>,
         \/ pc' \in {"token", "root", "listen", "accept"} /\ reply' = reply
         \/ pc' = "end" /\ reply' \in {"exit 0", "exit 1", "exit 2"},
         root' \in Seq(Nat), token' \in Seq(Nat), Boot'
  PROVE  IInv'
  <1> USE DEF IInv
  <1>1. ~Received /\ reply = "none" /\ path = <<>> /\ dest = <<>> /\ range = Whole /\ out = <<>>
    BY DEF Phase
  <1>2. /\ sent' = sent /\ req' = req /\ path' = path /\ dest' = dest /\ file' = file /\ range' = range /\ out' = out /\ opts' = opts
        /\ reply' \in {"none", "exit 0", "exit 1", "exit 2"}
        /\ pc' \in {"token", "root", "listen", "accept", "end"} /\ (pc' # "end" => reply' = "none")
    BY <1>1 DEF request
  <1>3. ~Received'
    BY <1>1, <1>2 DEF Received
  <1>4. Typed'
    <2>1. /\ opts \in Options /\ path \in Seq(Nat) /\ dest \in Seq(Nat)
          /\ file \in [size : 0 .. LLONG_MAX, has : Int]
          /\ range \in [ok : BOOLEAN, start : Int, end : Int] /\ out \in Seq(Int)
      BY DEF Typed
    <2>2. /\ opts' \in Options /\ path' \in Seq(Nat) /\ dest' \in Seq(Nat)
          /\ file' \in [size : 0 .. LLONG_MAX, has : Int]
          /\ range' \in [ok : BOOLEAN, start : Int, end : Int] /\ out' \in Seq(Int)
      BY <1>2, <2>1
    <2>3. pc' \in {"args", "token", "root", "listen", "end"} \cup Serving
      BY <1>2 DEF Serving
    <2>4. Arrived'
      BY <1>2, KeptRequest DEF Typed
    <2> QED
      BY <2>2, <2>3, <2>4 DEF Typed
  <1>5. Phase'
    BY <1>1, <1>2, <1>3 DEF Phase, Working
  <1>6. InsideShare' /\ MeansKept' /\ Gate'
    BY <1>1, <1>2, NoPaths
  <1>7. Served'
    BY <1>2 DEF Served
  <1>8. GateKept'
    BY <1>2, <1>3 DEF GateKept, Received
  <1>9. BodyIsRange'
    BY <1>2, KeptBody
  <1> QED
    BY <1>4, <1>5, <1>6, <1>7, <1>8, <1>9

\* The arguments: main gives up, or has the root it was given, its last slashes cut off.
LEMMA ParseArgsKeeps ==
  ASSUME IInv, ParseArgs
  PROVE  IInv'
  <1>1. /\ pc = "args" /\ opts' = opts /\ token' = token /\ UNCHANGED request /\ ~Received
        /\ opts \in Options /\ root \in Seq(Nat) /\ token \in Seq(Nat)
    BY DEF ParseArgs, IInv, Typed, Phase
  <1>2. ~Received'
    BY <1>1 DEF Received, request
  <1>3. CASE opts.args # "ok" \/ opts.root = NoText
    <2>1. pc' = "end" /\ reply' \in {"exit 0", "exit 2"} /\ root' = root
      BY <1>3 DEF ParseArgs, End
    <2>2. Boot'
      BY <1>2, <2>1 DEF Boot, Serving
    <2> QED
      BY <1>1, <2>1, <2>2, StartUp
  <1>4. CASE ~(opts.args # "ok" \/ opts.root = NoText)
    <2>1. pc' = "token" /\ reply' = reply /\ root' = strip_trailing_slashes(Cut(opts.root, PATHCAP - 1))
      BY <1>4 DEF ParseArgs, Goto
    <2>2. root' \in Seq(Nat)
      <3>1. opts.root \in Seq(Nat) /\ PATHCAP - 1 \in Nat
        BY <1>1, <1>4, InputIs, JailAssumption
      <3>2. Cut(opts.root, PATHCAP - 1) \in Seq(Nat)
        BY <3>1, CutIs
      <3> QED
        BY <2>1, <3>2, StripIs
    <2>3. Boot'
      BY <1>1, <1>2, <1>4, <2>1 DEF Boot, Serving
    <2> QED
      BY <1>1, <2>1, <2>2, <2>3, StartUp
  <1> QED
    BY <1>3, <1>4

\* The token: main gives up, or has one that is not empty.
LEMMA ChooseTokenKeeps ==
  ASSUME IInv, ChooseToken
  PROVE  IInv'
  <1>1. /\ pc = "token" /\ opts' = opts /\ root' = root /\ UNCHANGED request /\ ~Received /\ Boot
        /\ opts \in Options /\ root \in Seq(Nat)
        /\ token' = IF opts.file # NoText THEN read_token_file(opts.file)
                    ELSE IF opts.token # <<>> THEN Cut(opts.token, TokenCap)
                    ELSE Generated
        /\ IF token' = <<>> THEN pc' = "end" /\ reply' = "exit 1" ELSE pc' = "root" /\ reply' = reply
    BY DEF ChooseToken, IInv, Typed, Phase, Goto, End
  <1>2. ~Received'
    BY <1>1 DEF Received, request
  <1>3. token' \in Seq(Nat)
    <2>1. opts.token \in Seq(Nat) /\ (opts.file # NoText => opts.file \in Seq(Nat))
      BY <1>1, InputIs
    <2>2. Cut(opts.token, TokenCap) \in Seq(Nat) /\ Generated \in Seq(Nat)
      BY <2>1, CutIs, RouterAssumption
    <2> QED
      BY <1>1, <2>1, <2>2, LineIs
  <1>5. Len(token') <= TokenCap /\ Holds(token')
    <2>1. /\ opts.token \in Seq(Nat) /\ Holds(opts.token) /\ TokenCap \in Nat
          /\ opts.file # NoText => opts.file \in Seq(Nat)
      BY <1>1, InputIs, RouterAssumption
    <2>2. Holds(Cut(opts.token, TokenCap)) /\ Len(Cut(opts.token, TokenCap)) <= TokenCap
      BY <2>1, HoldsFirst
    <2>3. Len(Generated) <= TokenCap /\ Holds(Generated)
      BY RouterAssumption
    <2>4. CASE opts.file # NoText
      BY <1>1, <2>1, <2>4, LineIs
    <2>5. CASE opts.file = NoText
      BY <1>1, <2>2, <2>3, <2>5
    <2> QED
      BY <2>4, <2>5
  <1>6. Holds(token)' <=> Holds(token')
    BY DEF Holds
  <1>4. Boot'
    BY <1>1, <1>2, <1>5, <1>6 DEF Boot, Serving
  <1> QED
    BY <1>1, <1>3, <1>4, StartUp

\* The root: main gives up, or has one that fsapi_check_root accepts.
LEMMA CheckRootKeeps ==
  ASSUME IInv, CheckRoot
  PROVE  IInv'
  <1>1. /\ pc = "root" /\ opts' = opts /\ root' = root /\ token' = token /\ UNCHANGED request /\ ~Received /\ Boot
        /\ root \in Seq(Nat) /\ token \in Seq(Nat)
        /\ IF fsapi_check_root(root) THEN pc' = "listen" /\ reply' = reply ELSE pc' = "end" /\ reply' = "exit 1"
    BY DEF CheckRoot, IInv, Typed, Phase, Goto, End
  <1>2. ~Received'
    BY <1>1 DEF Received, request
  <1>3. fsapi_check_root(root)' = fsapi_check_root(root)
    BY <1>1 DEF fsapi_check_root
  <1>4. Boot'
    BY <1>1, <1>2, <1>3 DEF Boot, Serving
  <1> QED
    BY <1>1, <1>4, StartUp

\* The listening socket: main gives up or accepts from here on.
LEMMA ListenKeeps ==
  ASSUME IInv, Listen
  PROVE  IInv'
  <1>1. /\ pc = "listen" /\ opts' = opts /\ root' = root /\ token' = token /\ UNCHANGED request /\ ~Received /\ Boot
        /\ root \in Seq(Nat) /\ token \in Seq(Nat)
        /\ \/ pc' = "accept" /\ reply' = reply
           \/ pc' = "end" /\ reply' = "exit 1"
    BY DEF Listen, IInv, Typed, Phase, Goto, End
  <1>2. ~Received'
    BY <1>1 DEF Received, request
  <1>3. fsapi_check_root(root)' = fsapi_check_root(root)
    BY <1>1 DEF fsapi_check_root
  <1>4. Boot'
    BY <1>1, <1>2, <1>3 DEF Boot, Serving
  <1> QED
    BY <1>1, <1>4, StartUp

\* A request arrives; it has no path yet.
LEMMA ReceiveKeeps ==
  ASSUME IInv, Receive
  PROVE  IInv'
  <1> USE DEF IInv
  <1>1. /\ pc = "accept" /\ pc' = "route" /\ reply' = reply
        /\ sent' \in Requests(opts) /\ req' \in Parsed(sent')
        /\ opts' = opts /\ root' = root /\ token' = token /\ path' = path /\ dest' = dest
        /\ file' = file /\ range' = range /\ out' = out
    BY DEF Receive, Goto
  <1>2. ~Received /\ reply = "none" /\ path = <<>> /\ dest = <<>> /\ range = Whole /\ out = <<>>
    BY <1>1 DEF Phase
  <1>3. opts \in Options
    BY DEF Typed
  <1>12. Received' /\ Asks'
    BY <1>1, <1>3, ParsedIs DEF Received, Asks
  <1>4. Typed'
    <2>1. /\ {root, token, path, dest} \subseteq Seq(Nat)
          /\ file \in [size : 0 .. LLONG_MAX, has : Int]
          /\ range \in [ok : BOOLEAN, start : Int, end : Int] /\ out \in Seq(Int)
      BY DEF Typed
    <2>2. sent' \in Requests(opts') /\ (req \in Parsed(sent))'
      BY <1>1
    <2>3. Arrived'
      BY <1>12, <2>2 DEF Arrived
    <2> QED
      BY <1>1, <1>3, <1>12, <2>1, <2>2, <2>3 DEF Typed, Serving
  <1>5. fsapi_check_root(root)' = fsapi_check_root(root)
    BY <1>1 DEF fsapi_check_root
  <1>6. Boot'
    BY <1>1, <1>5 DEF Boot, Serving
  <1>7. Phase'
    BY <1>1, <1>2, <1>12 DEF Phase, Working
  <1>8. InsideShare' /\ MeansKept' /\ Gate'
    BY <1>1, <1>2, NoPaths
  <1>9. Served'
    BY <1>1, <1>2 DEF Served
  <1>10. GateKept'
    BY <1>1, <1>2 DEF GateKept
  <1>11. BodyIsRange'
    BY <1>1, KeptBody
  <1> QED
    BY <1>4, <1>6, <1>7, <1>8, <1>9, <1>10, <1>11

-----------------------------------------------------------------------------
(***************************************************************************)
(* The router keeps it.                                                    *)
(***************************************************************************)
\* A path that was resolved and found in the share is one, and means what it says.
LEMMA PathGiven ==
  ASSUME root \in Seq(Nat), NEW sub \in Seq(Nat), NEW r, r = fsapi_resolve(root, sub), r.err = "OK",
         fsapi_contained(root, r.val)
  PROVE  r.val \in Seq(Nat) /\ Names(r.val, sub) /\ Inside(r.val) /\ (root # <<>> => r.val # <<>>)
  <1>1. /\ r \in Results /\ Segments(r.val) = Segments(root) \o Walked(Plain(sub)).at /\ ~Walked(Plain(sub)).up
        /\ (root # <<>> => r.val # <<>>)
    BY ResolveMeans
  <1>2. r.val \in Seq(Nat)
    BY <1>1 DEF Results
  <1>3. Inside(r.val)
    BY <1>2, ContainedInside DEF Inside, RealRoot
  <1> QED
    BY <1>1, <1>2, <1>3 DEF Names

\* What a bearer that is let in begins with, and why none is turned away.
LEMMA Authed ==
  ASSUME IInv, Received
  PROVE  /\ authed => req.bearer \in Seq(Nat) /\ IsPrefix(token, req.bearer)
         /\ ~authed => req.bearer # token
  <1>1. token \in Seq(Nat) /\ (req.bearer # NoText => req.bearer \in Seq(Nat))
    BY DEF IInv, Typed, Arrived, Asks
  <1>2. ASSUME authed PROVE req.bearer \in Seq(Nat) /\ IsPrefix(token, req.bearer)
    BY <1>1, <1>2, TokenEq DEF authed
  <1>3. ASSUME ~authed, req.bearer = token PROVE FALSE
    BY <1>1, <1>3, TokenEq, NoTextIs DEF authed
  <1> QED
    BY <1>2, <1>3

\* A request that ends before there is a path.
LEMMA Unserved ==
  ASSUME IInv, pc = "route", UNCHANGED <<opts, root, token, sent, req, path, dest, file, range, out>>,
         pc' = "end", reply' \notin {"partial", "ERANGE"}, reply' = "EINVAL" => Bad(req.sub), GateKept'
  PROVE  IInv'
  <1>1. Received /\ path = <<>> /\ dest = <<>> /\ range = Whole /\ out = <<>>
    BY DEF IInv, Phase
  <1>2. Received' /\ (Received' <=> Received)
    BY <1>1 DEF Received
  <1>3. Typed'
    <2>1. Arrived'
      BY KeptRequest DEF IInv, Typed
    <2> QED
      BY <2>1 DEF IInv, Typed
  <1>4. Boot'
    BY <1>2, KeptBoot DEF IInv
  <1>5. Phase'
    BY <1>1, <1>2 DEF Phase, Working
  <1>6. InsideShare' /\ MeansKept' /\ Gate'
    BY KeptInside, KeptMeaning, KeptGate DEF IInv
  <1>7. Served'
    BY <1>1 DEF Served
  <1>8. BodyIsRange'
    BY KeptBody DEF IInv
  <1> QED
    BY <1>3, <1>4, <1>5, <1>6, <1>7, <1>8 DEF IInv

\* The router: a reply without a path, or a path of the share for a bearer that is let in.
LEMMA HandleRequestKeeps ==
  ASSUME IInv, HandleRequest
  PROVE  IInv'
  <1>1. /\ pc = "route" /\ UNCHANGED <<opts, root, token, sent, req, dest, file, range, out>>
        /\ Received /\ path = <<>> /\ dest = <<>> /\ reply = "none" /\ range = Whole /\ out = <<>>
        /\ opts \in Options /\ Asks /\ root \in Seq(Nat)
    BY DEF HandleRequest, IInv, Typed, Arrived, Phase
  <1>2. req.sub \in Seq(Nat)
    BY <1>1 DEF Asks
  <1>3. /\ authed => req.bearer \in Seq(Nat) /\ IsPrefix(token, req.bearer)
        /\ ~authed => req.bearer # token
    BY <1>1, Authed
  <1>4. CASE req.route = "healthz" /\ End("OK") /\ UNCHANGED path
    <2>1. GateKept'
      BY <1>1, <1>4 DEF GateKept, End
    <2> QED
      BY <1>1, <1>4, <2>1, Unserved DEF End
  <1>5. CASE req.route # "healthz" /\ ~authed /\ End("EAUTH") /\ UNCHANGED path
    <2>1. GateKept'
      BY <1>1, <1>3, <1>5 DEF GateKept, End
    <2> QED
      BY <1>1, <1>5, <2>1, Unserved DEF End
  <1>6. CASE /\ req.route \in {"status", "shares"} /\ authed /\ UNCHANGED path
             /\ End(IF ReadsOnly THEN "OK" ELSE "EMETHOD")
    <2>1. pc' = "end" /\ reply' \in {"OK", "EMETHOD"}
      BY <1>6 DEF End
    <2>2. GateKept'
      BY <1>1, <1>3, <1>6, <2>1 DEF GateKept
    <2> QED
      BY <1>1, <1>6, <2>1, <2>2, Unserved
  <1>7. CASE req.route \in {"fs", "other"} /\ ~IsFs /\ authed /\ End("ENOENT") /\ UNCHANGED path
    <2>1. GateKept'
      BY <1>1, <1>3, <1>7 DEF GateKept, End
    <2> QED
      BY <1>1, <1>7, <2>1, Unserved DEF End
  <1>8. CASE /\ IsFs /\ authed
             /\ LET r == fsapi_resolve(root, req.sub)
                IN  IF r.err # "OK" THEN End(r.err) /\ UNCHANGED path
                    ELSE IF ~fsapi_contained(root, r.val) THEN End("EACCES") /\ UNCHANGED path
                    ELSE Goto("dispatch") /\ path' = r.val
    <2> DEFINE r == fsapi_resolve(root, req.sub)
    <2>1. r \in Results /\ (r.err = "EINVAL" => Bad(req.sub))
      BY <1>1, <1>2, ResolveMeans
    <2>2. r.err \in {"OK", "EINVAL", "ENAMETOOLONG"}
      BY <2>1 DEF Results
    <2>3. \/ r.err # "OK" /\ pc' = "end" /\ reply' = r.err /\ path' = path
          \/ pc' = "end" /\ reply' = "EACCES" /\ path' = path
          \/ r.err = "OK" /\ fsapi_contained(root, r.val) /\ pc' = "dispatch" /\ reply' = reply /\ path' = r.val
      BY <1>8 DEF End, Goto
    <2>4. req.bearer \in Seq(Nat) /\ IsPrefix(token, req.bearer) /\ req.route = "fs"
      BY <1>3, <1>8 DEF IsFs
    <2>5. GateKept'
      <3>1. reply' \in {"none", "EINVAL", "ENAMETOOLONG", "EACCES"}
        <4> HIDE DEF r
        <4> QED
          BY <1>1, <2>2, <2>3
      <3> QED
        BY <1>1, <2>4, <3>1 DEF GateKept
    <2>6. CASE r.err # "OK" /\ pc' = "end" /\ reply' = r.err /\ path' = path
      <3> HIDE DEF r
      <3> QED
        BY <1>1, <2>1, <2>2, <2>5, <2>6, Unserved
    <2>7. CASE pc' = "end" /\ reply' = "EACCES" /\ path' = path
      BY <1>1, <2>5, <2>7, Unserved
    <2>8. CASE r.err = "OK" /\ fsapi_contained(root, r.val) /\ pc' = "dispatch" /\ reply' = reply /\ path' = r.val
      <3>1. r.val \in Seq(Nat) /\ Names(r.val, req.sub) /\ Inside(r.val) /\ (root # <<>> => r.val # <<>>)
        BY <1>1, <1>2, <2>8, PathGiven
      <3>2. root # <<>>
        <4>1. fsapi_check_root(root)
          BY <1>1 DEF IInv, Boot
        <4> QED
          BY <4>1, RootThere
      <3> HIDE DEF r
      <3>3. path' \in Seq(Nat) /\ path' # <<>> /\ Names(path', req.sub) /\ Inside(path') /\ dest' = <<>> /\ reply' = "none"
        BY <1>1, <2>8, <3>1, <3>2
      <3>4. Received'
        BY <1>1 DEF Received
      <3>5. Typed'
        <4>1. Arrived'
          BY <1>1, KeptRequest DEF IInv, Typed
        <4> QED
          BY <1>1, <2>8, <3>3, <4>1 DEF IInv, Typed, Serving
      <3>6. Boot'
        BY <1>1, <2>8, KeptBoot DEF IInv, Serving
      <3>7. Phase'
        BY <1>1, <2>8, <3>3, <3>4 DEF Phase, Working
      <3>8. Gate'
        BY <1>1, <2>4 DEF Gate
      <3>9. InsideShare'
        BY <1>1, <3>3 DEF InsideShare, Inside, RealRoot
      <3>10. MeansKept'
        BY <1>1, <3>3 DEF MeansKept, Names
      <3>11. Served'
        BY <3>3 DEF Served
      <3>12. BodyIsRange'
        BY <1>1, KeptBody DEF IInv
      <3> QED
        BY <2>5, <3>5, <3>6, <3>7, <3>8, <3>9, <3>10, <3>11, <3>12 DEF IInv
    <2> QED
      BY <2>3, <2>6, <2>7, <2>8
  <1> QED
    BY <1>4, <1>5, <1>6, <1>7, <1>8 DEF HandleRequest

\* A request that has its path ends, or goes on to the open, without having sent
\* anything.
LEMMA Dispatched ==
  ASSUME IInv, pc = "dispatch", UNCHANGED <<opts, root, token, sent, req, path, range, out>>,
         pc' \in {"end", "open"}, reply' \notin {"OK", "partial", "ERANGE", "EAUTH"}, pc' = "open" => reply' = "none",
         file' \in [size : 0 .. LLONG_MAX, has : Int], dest' \in Seq(Nat), InsideShare', MeansKept'
  PROVE  IInv'
  <1>1. Received /\ path # <<>> /\ range = Whole /\ out = <<>>
    BY DEF IInv, Phase, Working
  <1>2. Received' /\ (Received' <=> Received)
    BY <1>1 DEF Received
  <1>3. Typed'
    <2>1. Arrived'
      BY KeptRequest DEF IInv, Typed
    <2> QED
      BY <2>1 DEF IInv, Typed, Serving
  <1>4. Boot'
    BY <1>2, KeptBoot DEF IInv, Serving
  <1>5. Phase'
    BY <1>1, <1>2 DEF Phase, Working
  <1>6. Gate'
    BY KeptGate DEF IInv
  <1>7. Served'
    BY <1>1 DEF Served
  <1>8. BodyIsRange'
    <2>1. range'.ok = FALSE /\ out' = <<>> /\ file'.size \in 0 .. LLONG_MAX
      BY <1>1 DEF Whole
    <2>2. Promised' = file'.size
      BY <2>1 DEF Promised
    <2>3. Len(out') = 0 /\ DOMAIN out' = {}
      BY <2>1
    <2> QED
      BY <2>1, <2>2, <2>3, RangeAssumption DEF BodyIsRange
  <1>9. GateKept'
    <2>1. req.bearer \in Seq(Nat) /\ IsPrefix(token, req.bearer)
      BY <1>1 DEF IInv, Gate
    <2> QED
      BY <2>1 DEF GateKept
  <1> QED
    BY <1>3, <1>4, <1>5, <1>6, <1>7, <1>8, <1>9 DEF IInv

\* The verbs without a Destination.
LEMMA DispatchKeeps ==
  ASSUME IInv, Dispatch
  PROVE  IInv'
  <1>1. /\ pc = "dispatch" /\ UNCHANGED <<opts, root, token, sent, req, path, dest, range, out>>
        /\ file \in [size : 0 .. LLONG_MAX, has : Int] /\ dest \in Seq(Nat) /\ path # <<>> /\ reply = "none"
    BY DEF Dispatch, IInv, Typed, Phase, Working
  <1>2. \/ pc' = "end" /\ reply' \in {"verb", "EMETHOD"} /\ file' = file
        \/ pc' = "open" /\ reply' = reply /\ \E n \in Sizes : file' = [file EXCEPT !.size = n]
    BY DEF Dispatch, End, Goto
  <1>3. file' \in [size : 0 .. LLONG_MAX, has : Int]
    BY <1>1, <1>2, RouterAssumption
  <1>4. reply' \in {"none", "verb", "EMETHOD"} /\ pc' \in {"end", "open"} /\ (pc' = "open" => reply' = "none")
    BY <1>1, <1>2
  <1>5. InsideShare'
    BY <1>1, KeptInside DEF IInv
  <1>6. MeansKept'
    BY <1>1, <1>4, KeptMeaning DEF IInv
  <1> QED
    BY <1>1, <1>3, <1>4, <1>5, <1>6, Dispatched

\* MOVE and COPY: an error, or a Destination in the share that means what it says.
LEMMA DispatchDestKeeps ==
  ASSUME IInv, DispatchDest
  PROVE  IInv'
  <1> DEFINE sub == IF req.dest = NoText THEN NoText ELSE dest_subpath(req.dest)
             r == fsapi_resolve(root, Spelled(sub))
  <1>1. /\ pc = "dispatch" /\ UNCHANGED <<opts, root, token, sent, req, path, file, range, out>>
        /\ file \in [size : 0 .. LLONG_MAX, has : Int] /\ dest \in Seq(Nat) /\ path # <<>> /\ Received
        /\ opts \in Options /\ Asks /\ root \in Seq(Nat)
    BY DEF DispatchDest, IInv, Typed, Arrived, Phase, Working
  <1>2. /\ pc' = "end"
        /\ \/ reply' = "EINVAL" /\ dest' = dest
           \/ sub # NoText /\ r.err # "OK" /\ reply' = r.err /\ dest' = dest
           \/ reply' = "EACCES" /\ dest' = dest
           \/ /\ sub # NoText /\ r.err = "OK" /\ fsapi_contained(root, r.val)
              /\ reply' = "verb" /\ dest' = r.val
    BY DEF DispatchDest, End
  <1>3. sub # NoText =>
          /\ req.dest \in Seq(Nat) /\ sub \in Seq(Nat) /\ Spelled(sub) \in Seq(Nat)
          /\ \A i \in DOMAIN req.dest : PathAt(req.dest, i) => sub = SubSeq(req.dest, i + 1, Len(req.dest))
    <2>1. SUFFICES ASSUME sub # NoText
                   PROVE  /\ req.dest \in Seq(Nat) /\ sub \in Seq(Nat) /\ Spelled(sub) \in Seq(Nat)
                          /\ \A i \in DOMAIN req.dest : PathAt(req.dest, i) => sub = SubSeq(req.dest, i + 1, Len(req.dest))
      OBVIOUS
    <2>2. req.dest # NoText /\ sub = dest_subpath(req.dest)
      BY <2>1
    <2> HIDE DEF sub
    <2>3. req.dest \in Seq(Nat)
      BY <1>1, <2>2 DEF Asks
    <2>4. sub \in Seq(Nat) /\ \A i \in DOMAIN req.dest : PathAt(req.dest, i) => sub = SubSeq(req.dest, i + 1, Len(req.dest))
      BY <2>1, <2>2, <2>3, DestIs
    <2> QED
      BY <2>3, <2>4, SpelledType
  <1> HIDE DEF sub
  <1>4. sub # NoText => r.err \in {"OK", "EINVAL", "ENAMETOOLONG"}
    BY <1>1, <1>3, ResolveMeans DEF Results
  <1>5. InsideShare /\ MeansKept
    BY DEF IInv
  <1>6. CASE dest' = dest /\ reply' \in {"EINVAL", "ENAMETOOLONG", "EACCES"}
    <2>1. InsideShare'
      BY <1>1, <1>5, <1>6, KeptInside
    <2>2. MeansKept'
      BY <1>1, <1>5, <1>6, KeptMeaning
    <2> QED
      BY <1>1, <1>2, <1>6, <2>1, <2>2, Dispatched
  <1>7. CASE sub # NoText /\ r.err = "OK" /\ fsapi_contained(root, r.val) /\ reply' = "verb" /\ dest' = r.val
    <2>1. r.val \in Seq(Nat) /\ Names(r.val, Spelled(sub)) /\ Inside(r.val)
      BY <1>1, <1>3, <1>7, PathGiven
    <2> HIDE DEF r
    <2>2. dest' \in Seq(Nat) /\ Names(dest', Spelled(sub)) /\ Inside(dest')
      BY <1>7, <2>1
    <2>3. InsideShare'
      BY <1>1, <1>5, <2>2 DEF InsideShare, Inside, RealRoot
    <2>4. \A i \in DOMAIN req.dest : PathAt(req.dest, i) => Names(dest', Spelled(SubSeq(req.dest, i + 1, Len(req.dest))))
      BY <1>3, <1>7, <2>2, Zenon
    <2>5. MeansKept'
      <3>1. \A i \in DOMAIN req.dest : PathAt(req.dest, i) =>
              Names(dest, Spelled(SubSeq(req.dest, i + 1, Len(req.dest))))'
        BY <1>1, <2>4 DEF Names
      <3>2. Names(path, req.sub)'
        BY <1>1, <1>5 DEF MeansKept, Names
      <3>3. req' = req /\ path' = path /\ path # <<>> /\ req.dest # NoText
        BY <1>1, <1>7 DEF sub
      <3> QED
        BY <3>1, <3>2, <3>3 DEF MeansKept, PathAt
    <2> QED
      BY <1>1, <1>2, <1>7, <2>2, <2>3, <2>5, Dispatched
  <1> HIDE DEF r
  <1> QED
    BY <1>2, <1>4, <1>6, <1>7

-----------------------------------------------------------------------------
(***************************************************************************)
(* serve_file keeps it.                                                    *)
(***************************************************************************)
\* serve_file up to its header: what is promised is a range of the file, or all of it.
LEMMA OpenFileKeeps ==
  ASSUME IInv, OpenFile
  PROVE  IInv'
  <1>1. /\ pc = "open" /\ UNCHANGED <<opts, root, token, sent, req, path, dest, out>>
        /\ Received /\ path # <<>> /\ out = <<>> /\ range = Whole /\ opts \in Options /\ Asks
        /\ file \in [size : 0 .. LLONG_MAX, has : Int]
        /\ file' = file \/ \E n \in Sizes : file' = [file EXCEPT !.has = n]
    BY DEF OpenFile, IInv, Typed, Arrived, Phase, Working
  <1>18. /\ file' \in [size : 0 .. LLONG_MAX, has : Int] /\ file'.size = file.size
         /\ file.size \in 0 .. LLONG_MAX
    BY <1>1, RouterAssumption, RangeAssumption
  <1> DEFINE none == req.range = NoRange
             Spans == [ok : BOOLEAN, start : Int, end : Int]
  <1>2. Whole \in Spans /\ ~Whole.ok
    BY DEF Whole
  <1>3. ~none => req.range \in [unit : BOOLEAN, text : Seq(Token)] /\ file.size \in Nat
    BY <1>1, <1>18, RangeAssumption DEF Asks
  <1>4. ~none => parse_range(req.range, file.size) \in Spans
    BY <1>3, ParseType
  <1>5. ~none /\ parse_range(req.range, file.size).ok =>
          parse_range(req.range, file.size).start <= parse_range(req.range, file.size).end
    BY <1>3, ParseType
  <1>6. \/ pc' = "end" /\ reply' = "gone" /\ range' = range
        \/ /\ range' = IF none THEN Whole ELSE parse_range(req.range, file.size)
           /\ \/ ~none /\ ~range'.ok /\ pc' = "end" /\ reply' = "ERANGE"
              \/ /\ none \/ range'.ok
                 /\ reply' = IF range'.ok THEN "partial" ELSE "OK"
                 /\ pc' \in {"end", "send"}
    BY DEF OpenFile, End
  <1> HIDE DEF none, Spans
  <1>7. /\ range' \in Spans /\ (range'.ok => range'.start <= range'.end)
        /\ pc' \in {"end", "send"} /\ reply' \in {"gone", "OK", "partial", "ERANGE"}
        /\ pc' = "send" => reply' \in {"OK", "partial"}
        /\ reply' = "OK" => none /\ range' = Whole
        /\ reply' \in {"partial", "ERANGE"} => ~none /\ range' = parse_range(req.range, file.size)
        /\ reply' = "partial" => range'.ok
        /\ reply' = "ERANGE" => ~range'.ok
    BY <1>1, <1>2, <1>4, <1>5, <1>6
  <1>8. Received' /\ (Received' <=> Received)
    BY <1>1 DEF Received
  <1>9. Typed'
    <2>1. Arrived'
      BY <1>1, KeptRequest DEF IInv, Typed
    <2> QED
      BY <1>1, <1>7, <1>18, <2>1 DEF IInv, Typed, Serving, Spans
  <1>10. Boot'
    BY <1>1, <1>7, <1>8, KeptBoot DEF IInv, Serving
  <1>11. Phase'
    BY <1>1, <1>7, <1>8 DEF IInv, Phase, Working
  <1>12. Gate'
    BY <1>1, KeptGate DEF IInv
  <1>13. Served'
    BY <1>1, <1>7, <1>18 DEF Served, none
  <1>14. InsideShare'
    BY <1>1, KeptInside DEF IInv
  <1>15. MeansKept'
    BY <1>1, <1>7, KeptMeaning DEF IInv
  <1>16. GateKept'
    <2>1. req.bearer \in Seq(Nat) /\ IsPrefix(token, req.bearer)
      BY <1>1 DEF IInv, Gate
    <2> QED
      BY <1>1, <1>7, <2>1 DEF GateKept
  <1>17. BodyIsRange'
    <2>1. range'.ok => range'.end - range'.start + 1 >= 0
      BY <1>7 DEF Spans
    <2>2. Promised' >= 0
      BY <1>1, <1>18, <2>1, RangeAssumption DEF Promised
    <2>3. out' = <<>> /\ Len(out') = 0 /\ DOMAIN out' = {}
      BY <1>1
    <2> QED
      BY <2>2, <2>3 DEF BodyIsRange
  <1> QED
    BY <1>9, <1>10, <1>11, <1>12, <1>13, <1>14, <1>15, <1>16, <1>17 DEF IInv

\* The file is cut short: the size that is known of it stays.
LEMMA ShrinkKeeps ==
  ASSUME IInv, Shrink
  PROVE  IInv'
  <1>1. /\ pc = "send" /\ UNCHANGED <<pc, opts, root, token, sent, req, path, dest, reply, range, out>>
        /\ file \in [size : 0 .. LLONG_MAX, has : Int] /\ file' = [file EXCEPT !.has = @ - 1]
    BY DEF Shrink, IInv, Typed
  <1>2. file' \in [size : 0 .. LLONG_MAX, has : Int] /\ file'.size = file.size
    BY <1>1
  <1>3. Received' <=> Received
    BY <1>1 DEF Received
  <1>4. Typed'
    <2>1. Arrived'
      BY <1>1, KeptRequest DEF IInv, Typed
    <2> QED
      BY <1>1, <1>2, <2>1 DEF IInv, Typed
  <1>5. Boot'
    BY <1>1, <1>3, KeptBoot DEF IInv, Serving
  <1>6. Phase'
    BY <1>1, <1>3 DEF IInv, Phase
  <1>7. Gate'
    BY <1>1, KeptGate DEF IInv
  <1>8. Served'
    BY <1>1, <1>2 DEF IInv, Served
  <1>9. InsideShare'
    BY <1>1, KeptInside DEF IInv
  <1>10. MeansKept'
    BY <1>1, KeptMeaning DEF IInv, MeansKept
  <1>11. GateKept'
    BY <1>1 DEF IInv, GateKept
  <1>12. BodyIsRange'
    <2>1. Promised' = Promised
      BY <1>1, <1>2 DEF Promised
    <2> QED
      BY <1>1, <2>1 DEF IInv, BodyIsRange
  <1> QED
    BY <1>4, <1>5, <1>6, <1>7, <1>8, <1>9, <1>10, <1>11, <1>12 DEF IInv

\* A body grows by the bytes that come next.
LEMMA BodyGrows ==
  ASSUME Typed, BodyIsRange, NEW n \in 1 .. Min({Promised - Len(out), file.has - Offset}),
         UNCHANGED <<file, range>>, out' = out \o [i \in 1 .. n |-> Offset + i - 1]
  PROVE  out' \in Seq(Int) /\ BodyIsRange'
  <1> DEFINE N == Len(out)
             P == Promised
             H == file.has - Offset
             e == [i \in 1 .. n |-> Offset + i - 1]
             s == range.start
  <1>1. out \in Seq(Int) /\ N \in Nat /\ s \in Int /\ range.end \in Int /\ file.size \in Int /\ file.has \in Int
    BY LenProperties DEF Typed
  <1>2. P \in Int /\ Offset \in Int /\ Offset = s + N
    BY <1>1 DEF Promised, Offset
  <1>3. P - N \in Int /\ H \in Int
    BY <1>1, <1>2
  <1>4. Min({P - N, H}) \in Int /\ Min({P - N, H}) <= P - N
    <2> HIDE DEF P, N, H
    <2> QED
      BY <1>3, MinInt
  <1>5. n \in Nat /\ n >= 1 /\ n <= P - N
    <2> DEFINE m == Min({P - N, H})
    <2>1. m \in Int /\ m <= P - N /\ n \in 1 .. m
      BY <1>4
    <2> HIDE DEF m, P, N
    <2> QED
      BY <1>3, <2>1
  <1>6. e \in Seq(Int) /\ Len(e) = n /\ \A i \in 1 .. n : e[i] = s + N + i - 1
    <2> HIDE DEF N, s
    <2> QED
      BY <1>1, <1>2, <1>5
  <1>7. /\ out' = out \o e /\ out' \in Seq(Int) /\ Len(out') = N + n
        /\ \A i \in 1 .. N + n : out'[i] = IF i <= N THEN out[i] ELSE e[i - N]
    <2> HIDE DEF e
    <2>1. out \o e \in Seq(Int) /\ Len(out \o e) = N + Len(e)
          /\ \A i \in 1 .. N + Len(e) : (out \o e)[i] = IF i <= N THEN out[i] ELSE e[i - N]
      BY <1>1, <1>6, ConcatProperties
    <2> QED
      BY <1>6, <2>1 DEF e
  <1>8. \A i \in 1 .. N : out[i] = s + i - 1
    BY <1>1, LenProperties DEF BodyIsRange
  <1>9. Promised' = P /\ (range.start)' = s
    BY DEF Promised
  <1> HIDE DEF P, N, e, s, H
  <1>10. \A i \in 1 .. N + n : out'[i] = s + i - 1
    <2>1. SUFFICES ASSUME NEW i \in 1 .. N + n PROVE out'[i] = s + i - 1
      OBVIOUS
    <2>2. CASE i <= N
      BY <1>1, <1>7, <1>8, <2>2
    <2>3. CASE ~(i <= N)
      <3>1. i - N \in 1 .. n
        BY <1>1, <1>5, <2>3
      <3>2. out'[i] = s + N + (i - N) - 1
        BY <1>6, <1>7, <2>3, <3>1
      <3>3. i \in Int /\ s \in Int /\ N \in Int
        BY <1>1, <1>5
      <3>4. s + N + (i - N) - 1 = s + i - 1
        BY <3>3
      <3> QED
        BY <3>2, <3>4
    <2> QED
      BY <2>2, <2>3
  <1>11. Len(out') <= Promised' /\ DOMAIN out' = 1 .. N + n
    <2>1. N + n <= P
      BY <1>1, <1>2, <1>5
    <2>2. DOMAIN out' = 1 .. Len(out')
      BY <1>7, LenProperties
    <2> QED
      BY <1>7, <1>9, <2>1, <2>2
  <1> QED
    BY <1>7, <1>9, <1>10, <1>11 DEF BodyIsRange

\* The body, one read and send after another.
LEMMA SendBodyKeeps ==
  ASSUME IInv, SendBody
  PROVE  IInv'
  <1>1. /\ pc = "send" /\ UNCHANGED <<opts, root, token, sent, req, path, dest, reply, file, range>>
        /\ Typed /\ BodyIsRange /\ Received /\ path # <<>>
    BY DEF SendBody, IInv, Phase, Working
  <1>2. \/ pc' = "end" /\ out' = out
        \/ /\ pc' = pc
           /\ \E n \in 1 .. Min({Promised - Len(out), file.has - Offset}) :
                out' = out \o [i \in 1 .. n |-> Offset + i - 1]
    BY DEF SendBody
  <1>3. out' \in Seq(Int) /\ BodyIsRange'
    <2>1. CASE pc' = "end" /\ out' = out
      BY <1>1, <2>1, KeptBody DEF Typed
    <2>2. CASE \E n \in 1 .. Min({Promised - Len(out), file.has - Offset}) :
                 out' = out \o [i \in 1 .. n |-> Offset + i - 1]
      BY <1>1, <2>2, BodyGrows
    <2> QED
      BY <1>2, <2>1, <2>2
  <1>4. Received' /\ (Received' <=> Received) /\ pc' \in {"end", "send"}
    BY <1>1, <1>2 DEF Received
  <1>5. Typed'
    <2>1. Arrived'
      BY <1>1, KeptRequest DEF IInv, Typed
    <2> QED
      BY <1>1, <1>3, <1>4, <2>1 DEF Typed, Serving
  <1>6. Boot'
    BY <1>1, <1>4, KeptBoot DEF IInv, Serving
  <1>7. Phase'
    BY <1>1, <1>4 DEF IInv, Phase, Working
  <1>8. Gate'
    BY <1>1, KeptGate DEF IInv
  <1>9. Served'
    BY <1>1 DEF IInv, Served
  <1>10. InsideShare'
    BY <1>1, KeptInside DEF IInv
  <1>11. MeansKept'
    BY <1>1, KeptMeaning DEF IInv
  <1>12. GateKept'
    <2>1. req.bearer \in Seq(Nat) /\ IsPrefix(token, req.bearer)
      BY <1>1 DEF IInv, Gate
    <2>2. reply' = "EAUTH" => req.route # "healthz" /\ req.bearer # token
      BY <1>1 DEF IInv, GateKept
    <2> QED
      BY <1>1, <2>1, <2>2 DEF GateKept
  <1> QED
    BY <1>3, <1>5, <1>6, <1>7, <1>8, <1>9, <1>10, <1>11, <1>12 DEF IInv

-----------------------------------------------------------------------------
(***************************************************************************)
(* The theorems.                                                           *)
(***************************************************************************)
\* What the parser has kept of the request that is served.
LEMMA KeptIs ==
  ASSUME IInv, Received
  PROVE  /\ req.method = sent.method /\ req.route = sent.route /\ (Fits(sent.sub, SubRoom) => req.sub = sent.sub)
         /\ req.dest # NoText /\ Fits(sent.dest, HTTP_MAX_HDR_VALUE) => req.dest = sent.dest
         /\ req.bearer # NoText =>
              sent.bearer \in Seq(Nat) /\ \E n \in 0 .. Len(sent.bearer) : req.bearer = SubSeq(sent.bearer, 1, n)
         /\ \A t \in Seq(Nat) : sent.bearer = t /\ Len(t) <= TokenCap /\ Holds(t) => req.bearer = t
         /\ (req.range = NoRange <=> sent.range = NoRange) /\ (sent.fits => req.range = sent.range)
  <1>1. opts \in Options /\ sent \in Requests(opts) /\ req \in Parsed(sent)
    BY DEF IInv, Typed, Arrived
  <1> QED
    BY <1>1, ParsedIs

\* What begins with a beginning of a text.
LEMMA PrefixOfFirst ==
  ASSUME NEW a \in Seq(Nat), NEW t \in Seq(Nat), NEW n \in 0 .. Len(t), IsPrefix(a, SubSeq(t, 1, n))
  PROVE  IsPrefix(a, t)
  <1> DEFINE c == SubSeq(t, 1, n)
             m == Len(a)
  <1>1. Len(t) \in Nat /\ m \in Nat
    BY LenProperties
  <1>2. c \in Seq(Nat) /\ Len(c) = n /\ \A j \in 1 .. n : c[j] = t[j]
    BY FirstOf
  <1>3. m <= Len(c) /\ SubSeq(a, 1, m) = SubSeq(c, 1, m)
    BY DEF IsPrefix
  <1> HIDE DEF c
  <1>4. m \in 0 .. Len(c)
    BY <1>1, <1>2, <1>3
  <1>5. \A j \in 1 .. m : SubSeq(c, 1, m)[j] = c[j]
    BY <1>2, <1>4, FirstOf
  <1>6. \A j \in 1 .. m : SubSeq(a, 1, m)[j] = a[j]
    <2>1. m \in 0 .. m
      BY <1>1
    <2> QED
      BY <2>1, FirstOf
  <1> HIDE DEF m
  <1>7. \A j \in 1 .. m : t[j] = a[j]
    BY <1>1, <1>2, <1>3, <1>5, <1>6
  <1> QED
    BY <1>1, <1>2, <1>3, <1>7, PrefixOf DEF m

\* The inductive invariant of the router.
LEMMA Invariant == Spec => []IInv
  <1>1. Init => IInv
    <2>1. SUFFICES ASSUME Init PROVE IInv
      OBVIOUS
    <2>2. ~Received
      BY <2>1 DEF Init, Received
    <2>3. /\ pc = "args" /\ opts \in Options /\ root = <<>> /\ token = <<>> /\ reply = "none" /\ path = <<>>
          /\ dest = <<>> /\ file = [size |-> 0, has |-> 0] /\ range = Whole /\ out = <<>>
      BY <2>1 DEF Init
    <2>8. Arrived
      BY <2>1, <2>2 DEF Init, Arrived
    <2>4. Typed
      <3>1. <<>> \in Seq(Nat) /\ <<>> \in Seq(Int)
        BY EmptySeq
      <3>2. range \in [ok : BOOLEAN, start : Int, end : Int] /\ file \in [size : 0 .. LLONG_MAX, has : Int]
        BY <2>3, RangeAssumption DEF Whole
      <3> QED
        BY <2>2, <2>3, <3>1, <3>2, <2>8 DEF Typed
    <2>5. Boot /\ Phase /\ Gate /\ Served /\ InsideShare /\ MeansKept
      BY <2>2, <2>3 DEF Boot, Serving, Phase, Working, Gate, Served, InsideShare, MeansKept
    <2>6. GateKept
      BY <2>3 DEF GateKept
    <2>7. BodyIsRange
      <3>1. Promised = 0 /\ Len(out) = 0 /\ DOMAIN out = {}
        BY <2>3 DEF Promised, Whole
      <3> QED
        BY <3>1 DEF BodyIsRange
    <2> QED
      BY <2>4, <2>5, <2>6, <2>7 DEF IInv
  <1>2. IInv /\ [Next]_vars => IInv'
    <2>1. SUFFICES ASSUME IInv, [Next]_vars PROVE IInv'
      OBVIOUS
    <2>2. CASE UNCHANGED vars
      <3>1. UNCHANGED <<pc, opts, root, token, sent, req, path, dest, reply, file, range, out>>
        BY <2>2 DEF vars
      <3>2. Typed'
        <4>1. Arrived'
          BY <2>1, <3>1, KeptRequest DEF IInv, Typed
        <4> QED
          BY <2>1, <3>1, <4>1 DEF IInv, Typed
      <3>3. Boot'
        BY <2>1, <3>1 DEF IInv, Boot, Received, Holds, fsapi_check_root
      <3>4. Phase' /\ Gate' /\ Served' /\ GateKept'
        BY <2>1, <3>1 DEF IInv, Phase, Gate, Served, GateKept, Received
      <3>5. InsideShare'
        BY <2>1, <3>1, KeptInside DEF IInv
      <3>6. MeansKept'
        BY <2>1, <3>1, KeptMeaning DEF IInv, MeansKept
      <3>7. BodyIsRange'
        BY <2>1, <3>1, KeptBody DEF IInv
      <3> QED
        BY <3>2, <3>3, <3>4, <3>5, <3>6, <3>7 DEF IInv
    <2>3. CASE Next
      BY <2>1, <2>3, ParseArgsKeeps, ChooseTokenKeeps, CheckRootKeeps, ListenKeeps, ReceiveKeeps, HandleRequestKeeps,
         DispatchKeeps, DispatchDestKeeps, OpenFileKeeps, ShrinkKeeps, SendBodyKeeps DEF Next
    <2> QED
      BY <2>1, <2>2, <2>3
  <1> QED
    BY <1>1, <1>2, PTL DEF Spec

\* Nothing but /healthz is answered to a bearer that does not begin with the token,
\* and no bearer that is the token is refused, though the parser keeps no more of a
\* bearer than its buffer holds (copy_bounded, handle_request, token_eq).
THEOREM TokenGateHolds == Spec => []TokenGate
  <1>1. IInv => TokenGate
    <2>1. SUFFICES ASSUME IInv PROVE TokenGate
      OBVIOUS
    <2>2. ASSUME pc = "end", sent.method # "none", sent.route # "healthz", reply # "EAUTH"
          PROVE  IsPrefix(token, sent.bearer)
      <3>1. Received
        BY <2>1, <2>2 DEF IInv, Typed, Arrived
      <3>2. token \in Seq(Nat) /\ req.route = sent.route
        BY <2>1, <3>1, KeptIs DEF IInv, Typed
      <3>3. req.bearer \in Seq(Nat) /\ IsPrefix(token, req.bearer)
        BY <2>1, <2>2, <3>1, <3>2 DEF IInv, GateKept
      <3>4. sent.bearer \in Seq(Nat) /\ \E n \in 0 .. Len(sent.bearer) : req.bearer = SubSeq(sent.bearer, 1, n)
        BY <2>1, <3>1, <3>3, KeptIs, NoTextIs
      <3> QED
        BY <3>2, <3>3, <3>4, PrefixOfFirst
    <2>3. ASSUME reply = "EAUTH" PROVE sent.route # "healthz" /\ sent.bearer # token
      <3>1. Received /\ req.route # "healthz" /\ req.bearer # token
        BY <2>1, <2>3 DEF IInv, Phase, GateKept
      <3>2. token \in Seq(Nat) /\ Len(token) <= TokenCap /\ Holds(token)
        BY <2>1, <3>1 DEF IInv, Typed, Boot
      <3> QED
        BY <2>1, <3>1, <3>2, KeptIs
    <2> QED
      BY <2>2, <2>3 DEF TokenGate
  <1> QED
    BY <1>1, Invariant, PTL

\* The paths a verb is given lie in the share with every link followed, whatever the
\* tree, the root and the request (fsapi_resolve, fsapi_contained).
THEOREM InsideShareHolds == Spec => []InsideShare
  BY Invariant, PTL DEF IInv

\* Of a target and a Destination that fit their buffers, the paths a verb is given
\* are those the client named, and a path is called invalid only for a bad escape, a
\* control byte or a ".." (copy_bounded, url_decode, fsapi_resolve, dest_subpath).
THEOREM MeansWhatItSaysHolds == Spec => []MeansWhatItSays
  <1>1. IInv => MeansWhatItSays
    <2>1. SUFFICES ASSUME IInv PROVE MeansWhatItSays
      OBVIOUS
    <2>2. MeansKept /\ Phase
      BY <2>1 DEF IInv
    <2>3. ASSUME path # <<>>, Fits(sent.sub, SubRoom) PROVE Names(path, sent.sub)
      <3>1. Received
        BY <2>2, <2>3 DEF Phase
      <3> QED
        BY <2>1, <2>2, <2>3, <3>1, KeptIs DEF MeansKept
    <2>4. ASSUME dest # <<>>, Fits(sent.dest, HTTP_MAX_HDR_VALUE), NEW i \in DOMAIN sent.dest, PathAt(sent.dest, i)
          PROVE  Names(dest, Spelled(SubSeq(sent.dest, i + 1, Len(sent.dest))))
      <3>1. Received /\ req.dest # NoText
        BY <2>1, <2>2, <2>4 DEF Phase, MeansKept
      <3>2. req.dest = sent.dest
        BY <2>1, <2>4, <3>1, KeptIs
      <3> QED
        BY <2>2, <2>4, <3>2 DEF MeansKept, PathAt
    <2>5. ASSUME reply = "EINVAL", path = <<>>, Fits(sent.sub, SubRoom) PROVE Bad(sent.sub)
      <3>1. Received
        BY <2>2, <2>5 DEF Phase
      <3> QED
        BY <2>1, <2>2, <2>5, <3>1, KeptIs DEF MeansKept
    <2> QED
      BY <2>3, <2>4, <2>5 DEF MeansWhatItSays, PathAt
  <1> QED
    BY <1>1, Invariant, PTL

\* The bytes of a body are those of its range, from the first on, and never more than
\* were promised (serve_file).
THEOREM BodyIsRangeHolds == Spec => []BodyIsRange
  BY Invariant, PTL DEF IInv

\* A 206 names a range of the file, and for the plain forms that fit their buffer the
\* one that was asked for; 416 is for those that name no byte (parse_range, serve_file).
THEOREM RangeExactHolds == Spec => []RangeExact
  <1>1. IInv => RangeExact
    <2>1. SUFFICES ASSUME IInv, Ranged
                   PROVE  /\ reply # "OK"
                          /\ reply = "partial" => 0 <= range.start /\ range.start <= range.end /\ range.end < file.size
                          /\ sent.fits /\ sent.range.unit /\ IsPlain(sent.range.text) =>
                               Positions(sent.range.text, file.size) = IF reply = "partial" THEN range.start .. range.end ELSE {}
      BY DEF RangeExact
    <2> DEFINE h == req.range
               t == h.text
               size == file.size
    <2>6. Received /\ req.range # NoRange /\ (sent.fits => req.range = sent.range)
      <3>1. Received /\ sent.range # NoRange
        BY <2>1 DEF Ranged, IInv, Phase
      <3> QED
        BY <2>1, <3>1, KeptIs
    <2>2. /\ path # <<>> /\ reply \in {"OK", "partial", "ERANGE"} /\ h # NoRange
          /\ reply # "OK" /\ range = parse_range(h, size) /\ (reply = "partial" <=> range.ok)
      BY <2>1, <2>6 DEF Ranged, IInv, Served
    <2>3. h \in [unit : BOOLEAN, text : Seq(Token)] /\ size \in Nat /\ size <= LLONG_MAX
      BY <2>1, <2>2, <2>6, RangeAssumption DEF IInv, Typed, Arrived, Asks
    <2> HIDE DEF h, size
    <2>4. reply = "partial" => 0 <= range.start /\ range.start <= range.end /\ range.end < size
      BY <2>2, <2>3, ParseType
    <2>5. ASSUME h.unit, IsPlain(t) PROVE Positions(t, size) = IF reply = "partial" THEN range.start .. range.end ELSE {}
      <3>1. t \in Seq(Token) /\ h = [unit |-> TRUE, text |-> t]
        BY <2>3, <2>5
      <3> HIDE DEF t
      <3>2. range = parse_range([unit |-> TRUE, text |-> t], size)
        BY <2>2, <3>1
      <3>3. (range.ok <=> Positions(t, size) # {}) /\ (range.ok => range.start .. range.end = Positions(t, size))
        BY <2>3, <2>5, <3>1, <3>2, PlainRangeExact
      <3> QED
        BY <2>2, <3>3
    <2> QED
      BY <2>2, <2>4, <2>5, <2>6 DEF h, size
  <1> QED
    BY <1>1, Invariant, PTL

\* A daemon that serves is not the superuser's, has a token, and serves the directory
\* it was pointed at, which is not the filesystem's root (main, fsapi_check_root).
THEOREM BootSafeHolds == Spec => []BootSafe
  <1>1. IInv => BootSafe
    <2>1. SUFFICES ASSUME IInv, pc \in {"accept", "route", "dispatch", "open", "send"}
                   PROVE  /\ token # <<>> /\ ~opts.euid0
                          /\ Tree[RealRoot].kind = "dir" /\ RealRoot # <<>>
                          /\ Len(opts.root) < PATHCAP => RealRoot = Real(Segments(opts.root)).val
      BY DEF BootSafe
    <2>2. /\ token # <<>> /\ fsapi_check_root(root) /\ opts.root # NoText /\ opts \in Options
          /\ root = strip_trailing_slashes(Cut(opts.root, PATHCAP - 1))
      BY <2>1 DEF IInv, Typed, Boot, Serving
    <2>3. ~opts.euid0 /\ Tree[RealRoot].kind = "dir" /\ RealRoot # <<>>
      BY <2>2 DEF fsapi_check_root, RealRoot
    <2>4. ASSUME Len(opts.root) < PATHCAP PROVE RealRoot = Real(Segments(opts.root)).val
      <3>1. opts.root \in Seq(Nat) /\ Len(opts.root) \in Nat /\ PATHCAP \in Nat
        BY <2>2, InputIs, LenProperties, JailAssumption
      <3>2. PATHCAP - 1 \in Nat /\ PATHCAP - 1 >= Len(opts.root)
        BY <2>4, <3>1
      <3>3. Cut(opts.root, PATHCAP - 1) = opts.root
        BY <3>1, <3>2, CutIs
      <3>4. Segments(root) = Segments(opts.root)
        BY <2>2, <3>1, <3>3, StripIs
      <3> QED
        BY <3>4 DEF RealRoot
    <2> QED
      BY <2>2, <2>3, <2>4
  <1> QED
    BY <1>1, Invariant, PTL
=============================================================================
