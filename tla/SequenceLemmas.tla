--------------------------- MODULE SequenceLemmas ---------------------------
(***************************************************************************)
(* What the proofs of several components need: induction over the naturals,*)
(* what a recursive function computes step by step, sequences and their    *)
(* parts, and the least and greatest of a set of naturals.                 *)
(***************************************************************************)
EXTENDS Integers, Sequences, SequencesExt, FiniteSetsExt, SequenceTheorems, WellFoundedInduction, TLAPS

-----------------------------------------------------------------------------
(***************************************************************************)
(* Induction and recursive functions.                                      *)
(***************************************************************************)
\* Induction over the naturals, for a set.
LEMMA SetInduction ==
  ASSUME NEW T, 0 \in T, \A n \in Nat : n \in T => n + 1 \in T
  PROVE  Nat \subseteq T
  <1> DEFINE Missing == Nat \ T
  <1>1. SUFFICES ASSUME Missing # {} PROVE FALSE
    OBVIOUS
  <1>2. PICK x \in Missing : \A y \in Missing : ~ (<<y, x>> \in OpToRel(<, Nat))
    BY <1>1, WFMin, NatLessThanWellFounded
  <1>3. x \in Nat /\ x # 0 /\ x \notin T
    BY <1>2
  <1>4. x - 1 \in Nat /\ x - 1 \notin T
    BY <1>3
  <1>5. <<x - 1, x>> \in OpToRel(<, Nat)
    BY <1>3, <1>4 DEF OpToRel
  <1> QED
    BY <1>2, <1>4, <1>5

\* f is what iterating F from base on, in the set X, gives after 0 .. N steps.
Iterates(N, X, base, F, f) ==
  f \in [0 .. N -> X] /\ f[0] = base /\ \A n \in 1 .. N : f[n] = F[n][f[n - 1]]

\* A recursion over 0 .. N that stays in the set X defines a function.
LEMMA Iteration ==
  ASSUME NEW N \in Nat, NEW X, NEW base \in X, NEW F, F \in [1 .. N -> [X -> X]]
  PROVE  \E f : Iterates(N, X, base, F, f)
  <1> DEFINE Upto(m, f) == /\ f \in [0 .. m -> X] /\ f[0] = base
                           /\ \A n \in 1 .. m : f[n] = F[n][f[n - 1]]
             T == {m \in Nat : m <= N => \E f : Upto(m, f)}
  <1>1. 0 \in T
    <2>1. Upto(0, [i \in 0 .. 0 |-> base])
      OBVIOUS
    <2> QED
      BY <2>1
  <1>2. ASSUME NEW m \in Nat, m \in T
        PROVE  m + 1 \in T
    <2>1. SUFFICES ASSUME m + 1 <= N PROVE \E f : Upto(m + 1, f)
      OBVIOUS
    <2>2. PICK f : Upto(m, f)
      BY <1>2, <2>1
    <2> DEFINE x == F[m + 1][f[m]]
               g == [i \in 0 .. m + 1 |-> IF i = m + 1 THEN x ELSE f[i]]
    <2>3. x \in X
      <3>1. f[m] \in X /\ m + 1 \in 1 .. N
        BY <2>1, <2>2
      <3> QED
        BY <3>1
    <2> HIDE DEF x
    <2>4. \A i \in 0 .. m : g[i] = f[i]
      OBVIOUS
    <2>5. g[m + 1] = x
      OBVIOUS
    <2>6. g \in [0 .. m + 1 -> X]
      BY <2>2, <2>3
    <2> HIDE DEF g
    <2>7. ASSUME NEW n \in 1 .. m + 1 PROVE g[n] = F[n][g[n - 1]]
      <3>1. CASE n = m + 1
        BY <2>4, <2>5, <3>1 DEF x
      <3>2. CASE n \in 1 .. m
        BY <2>2, <2>4, <3>2
      <3> QED
        BY <3>1, <3>2
    <2>8. Upto(m + 1, g)
      BY <2>2, <2>4, <2>6, <2>7
    <2> QED
      BY <2>8
  <1> HIDE DEF T
  <1>3. N \in T
    BY <1>1, <1>2, SetInduction
  <1>4. PICK f : Upto(N, f)
    BY <1>3 DEF T
  <1> QED
    BY <1>4 DEF Iterates

\* g follows F from base on, as long as it stays in X.
Follows(N, X, base, F, g) == g[0] = base /\ \A n \in 1 .. N : g[n - 1] \in X => g[n] = F[n][g[n - 1]]

\* The function is the only one.
LEMMA IterationUnique ==
  ASSUME NEW N \in Nat, NEW X, NEW base, NEW F, NEW f, Iterates(N, X, base, F, f),
         NEW g, Follows(N, X, base, F, g)
  PROVE  \A n \in 0 .. N : g[n] = f[n]
  <1>0. /\ f \in [0 .. N -> X] /\ f[0] = base /\ \A n \in 1 .. N : f[n] = F[n][f[n - 1]]
        /\ g[0] = base /\ \A n \in 1 .. N : g[n - 1] \in X => g[n] = F[n][g[n - 1]]
    BY DEF Iterates, Follows
  <1> DEFINE T == {n \in Nat : n <= N => g[n] = f[n]}
  <1>1. 0 \in T
    BY <1>0
  <1>2. ASSUME NEW n \in Nat, n \in T PROVE n + 1 \in T
    <2>1. CASE n + 1 <= N
      <3>1. n + 1 \in 1 .. N /\ (n + 1) - 1 = n /\ n <= N /\ n \in 0 .. N
        BY <2>1
      <3> QED
        BY <1>0, <1>2, <3>1
    <2> QED
      BY <2>1
  <1> HIDE DEF T
  <1>3. Nat \subseteq T
    BY <1>1, <1>2, SetInduction
  <1> QED
    BY <1>3 DEF T

-----------------------------------------------------------------------------
(***************************************************************************)
(* Sequences.                                                              *)
(***************************************************************************)
\* The last name of a path is one of the names it is made of.
LEMMA LastIn ==
  ASSUME NEW S, NEW p \in Seq(S), p # <<>>
  PROVE  Last(p) \in S
  <1>1. Len(p) \in 1 .. Len(p)
    BY EmptySeq, LenProperties
  <1> QED
    BY <1>1, ElementOfSeq DEF Last

\* Front leaves a path over the same names, shorter by one.
LEMMA FrontIn ==
  ASSUME NEW S, NEW p \in Seq(S), p # <<>>
  PROVE  Front(p) \in Seq(S) /\ Len(Front(p)) = Len(p) - 1
  <1>1. Len(p) \in Nat /\ Len(p) >= 1
    BY EmptySeq, LenProperties
  <1>2. \A i \in 1 .. Len(p) - 1 : p[i] \in S
    BY <1>1, ElementOfSeq
  <1>3. 1 \in Int /\ Len(p) - 1 \in Int
    BY <1>1
  <1>4. /\ SubSeq(p, 1, Len(p) - 1) \in Seq(S)
        /\ Len(SubSeq(p, 1, Len(p) - 1)) =
             IF 1 <= Len(p) - 1 THEN Len(p) - 1 - 1 + 1 ELSE 0
    BY <1>2, <1>3, SubSeqProperties
  <1> DEFINE q == SubSeq(p, 1, Len(p) - 1)
             m == Len(q)
             l == Len(p)
  <1>5. m = IF 1 <= l - 1 THEN l - 1 - 1 + 1 ELSE 0
    BY <1>4
  <1>6. m = l - 1
    <2> HIDE DEF m, l
    <2>1. l \in Nat /\ l >= 1
      BY <1>1 DEF l
    <2> QED
      BY <2>1, <1>5
  <1> QED
    BY <1>4, <1>6, Zenon DEF Front

\* The first i elements of a sequence.
LEMMA FirstOf ==
  ASSUME NEW D, NEW s \in Seq(D), NEW i \in 0 .. Len(s)
  PROVE  /\ SubSeq(s, 1, i) \in Seq(D) /\ Len(SubSeq(s, 1, i)) = i
         /\ \A j \in 1 .. i : SubSeq(s, 1, i)[j] = s[j]
  <1>1. Len(s) \in Nat
    BY LenProperties
  <1>2. \A j \in 1 .. i : s[j] \in D
    BY <1>1, ElementOfSeq
  <1>3. i \in Nat /\ i \in Int /\ 1 \in Int
    BY <1>1
  <1> DEFINE q == SubSeq(s, 1, i)
  <1>4. q \in Seq(D) /\ Len(q) = (IF 1 <= i THEN i - 1 + 1 ELSE 0) /\ \A j \in 1 .. i - 1 + 1 : q[j] = s[1 + j - 1]
    BY <1>2, <1>3, SubSeqProperties
  <1> HIDE DEF q
  <1>5. Len(q) = i /\ \A j \in 1 .. i : q[j] = s[j]
    <2>1. i - 1 + 1 = i /\ \A j \in 1 .. i : 1 + j - 1 = j
      BY <1>3
    <2>2. (IF 1 <= i THEN i - 1 + 1 ELSE 0) = i
      BY <1>3
    <2> QED
      BY <1>4, <2>1, <2>2
  <1> QED
    BY <1>4, <1>5 DEF q

\* A sequence that agrees with another over all of its length is a prefix of it.
LEMMA PrefixOf ==
  ASSUME NEW D, NEW a \in Seq(D), NEW z \in Seq(D), Len(a) <= Len(z), \A i \in 1 .. Len(a) : z[i] = a[i]
  PROVE  IsPrefix(a, z)
  <1>1. Len(a) \in Nat /\ Len(z) \in Nat
    BY LenProperties
  <1>2. SubSeq(a, 1, Len(a)) = a
    BY SubSeqFull
  <1>3. \A i \in 1 .. Len(a) : z[i] \in D
    BY <1>1, ElementOfSeq
  <1> DEFINE q == SubSeq(z, 1, Len(a))
             n == Len(a)
  <1>4. q \in Seq(D) /\ Len(q) = (IF 1 <= n THEN n - 1 + 1 ELSE 0) /\ \A i \in 1 .. n - 1 + 1 : q[i] = z[1 + i - 1]
    BY <1>1, <1>3, SubSeqProperties
  <1>5. n - 1 + 1 = n /\ \A i \in 1 .. n : 1 + i - 1 = i
    BY <1>1
  <1> HIDE DEF q
  <1>6. Len(q) = Len(a) /\ \A i \in 1 .. Len(q) : q[i] = a[i]
    BY <1>1, <1>4, <1>5
  <1>7. q = a
    BY <1>4, <1>6, SeqEqual
  <1> QED
    BY <1>2, <1>7 DEF IsPrefix, q

\* The beginning of a sequence, by one element.
LEMMA SubSeqNext ==
  ASSUME NEW D, NEW a \in Seq(D), NEW n \in 1 .. Len(a)
  PROVE  SubSeq(a, 1, n) = Append(SubSeq(a, 1, n - 1), a[n]) /\ SubSeq(a, 1, n - 1) \in Seq(D) /\ a[n] \in D
  <1>1. Len(a) \in Nat /\ a[n] \in D
    BY LenProperties, ElementOfSeq
  <1>2. 1 \in 1 .. Len(a) /\ n \in 1 .. Len(a) /\ 1 \in Int /\ n - 1 \in Int
    BY <1>1
  <1>3. SubSeq(a, 1, n) = SubSeq(a, 1, n - 1) \o <<a[n]>>
    BY <1>2, SubSeqRecursiveSecond
  <1>4. SubSeq(a, 1, n - 1) \in Seq(D)
    <2>1. \A i \in 1 .. n - 1 : a[i] \in D
      BY <1>1, ElementOfSeq
    <2> QED
      BY <1>2, <2>1, SubSeqProperties
  <1>5. Append(SubSeq(a, 1, n - 1), a[n]) = SubSeq(a, 1, n - 1) \o <<a[n]>>
    BY <1>1, <1>4, AppendIsConcat
  <1> QED
    BY <1>1, <1>3, <1>4, <1>5

\* Changing the last element of a sequence.
LEMMA LastReplaced ==
  ASSUME NEW D, NEW s \in Seq(D), NEW p \in D, NEW e \in D
  PROVE  [Append(s, p) EXCEPT ![Len(Append(s, p))] = e] = Append(s, e)
  <1> DEFINE a == Append(s, p)
             b == Append(s, e)
             n == Len(s) + 1
  <1>1. Len(s) \in Nat
    BY LenProperties
  <1>2. a \in Seq(D) /\ Len(a) = n /\ \A i \in 1 .. Len(s) : a[i] = s[i]
    BY AppendProperties
  <1>3. b \in Seq(D) /\ Len(b) = n /\ (\A i \in 1 .. Len(s) : b[i] = s[i]) /\ b[n] = e
    BY AppendProperties
  <1> HIDE DEF a, b
  <1>4. Len(a) \in 1 .. Len(a)
    BY <1>1, <1>2
  <1> DEFINE x == [a EXCEPT ![Len(a)] = e]
  <1>5. x \in Seq(D) /\ Len(x) = n /\ \A i \in 1 .. n : x[i] = IF i = n THEN e ELSE a[i]
    BY <1>2, <1>4, ExceptSeq
  <1> HIDE DEF x
  <1>6. \A i \in 1 .. n : x[i] = b[i]
    BY <1>1, <1>2, <1>3, <1>5
  <1>7. x = b
    BY <1>3, <1>5, <1>6, SeqEqual
  <1> QED
    BY <1>7 DEF x, a, b

\* f holds what the first 0 .. Len(s) of the sequences s are, one after another.
Flattens(D, s, f) ==
  /\ f \in [0 .. Len(s) -> Seq(D)] /\ f[0] = <<>>
  /\ \A n \in 1 .. Len(s) : f[n] = f[n - 1] \o s[n]

\* FlattenSeq puts one sequence after another.
LEMMA FlattenDef ==
  ASSUME NEW D, NEW s \in Seq(Seq(D))
  PROVE  \E f : Flattens(D, s, f) /\ FlattenSeq(s) = f[Len(s)]
  <1> DEFINE N == Len(s)
             X == Seq(D)
             F == [n \in 1 .. N |-> [x \in X |-> x \o s[n]]]
             base == <<>>
  <1>1. N \in Nat /\ base \in X /\ (N = 0 => s = <<>>)
    BY LenProperties, EmptySeq
  <1>2. \A n \in 1 .. N : s[n] \in X
    BY ElementOfSeq
  <1>3. F \in [1 .. N -> [X -> X]]
    <2>1. ASSUME NEW x \in X, NEW n \in 1 .. N PROVE x \o s[n] \in X
      BY <1>2, ConcatProperties
    <2> HIDE DEF X, N
    <2> QED
      BY <2>1
  <1>4. \A n \in 1 .. N, x \in X : F[n][x] = x \o s[n]
    OBVIOUS
  <1>5. \A x \in X : base \o x = x
    BY ConcatEmptySeq
  <1> HIDE DEF F, X, N, base
  <1>6. PICK f : Iterates(N, X, base, F, f)
    BY <1>1, <1>3, Iteration, Zenon
  <1>7. f \in [0 .. N -> X] /\ f[0] = base /\ \A n \in 1 .. N : f[n] = F[n][f[n - 1]]
    BY <1>6 DEF Iterates
  <1>8. \A n \in 1 .. N : f[n] = f[n - 1] \o s[n]
    <2>1. ASSUME NEW n \in 1 .. N PROVE f[n] = f[n - 1] \o s[n]
      <3>1. n - 1 \in 0 .. N
        BY <1>1
      <3>2. f[n - 1] \in X /\ f[n] = F[n][f[n - 1]]
        BY <1>7, <3>1
      <3> QED
        BY <1>4, <3>2
    <2> QED
      BY <2>1
  <1>8a. 1 \in 1 .. N => f[1] = f[0] \o s[1] /\ s[1] \in X
    <2>1. 1 - 1 = 0
      OBVIOUS
    <2>2. 1 \in 1 .. N => f[1] = f[1 - 1] \o s[1] /\ s[1] \in X
      BY <1>2, <1>8
    <2> QED
      BY <2>1, <2>2
  <1> DEFINE Step(g, i) == IF i = 1 THEN s[i] ELSE g[i - 1] \o s[i]
             flatten == CHOOSE flatten : flatten = [i \in 1 .. Len(s) |-> Step(flatten, i)]
             h == [i \in 1 .. N |-> f[i]]
  <1>9. Len(s) # 0 => FlattenSeq(s) = flatten[Len(s)]
    BY DEF FlattenSeq
  <1>10. Len(s) = 0 => FlattenSeq(s) = s
    BY DEF FlattenSeq
  <1>11. h = [i \in 1 .. N |-> Step(h, i)]
    <2>1. ASSUME NEW i \in 1 .. N PROVE f[i] = Step(h, i)
      <3>1. CASE i = 1
        <4>1. f[1] = f[0] \o s[1] /\ f[0] = base /\ s[1] \in X
          BY <1>7, <1>8a, <3>1
        <4>2. f[1] = s[1]
          BY <1>5, <4>1
        <4> QED
          BY <3>1, <4>2
      <3>2. CASE i # 1
        <4>1. i - 1 \in 1 .. N
          BY <1>1, <3>2
        <4>2. h[i - 1] = f[i - 1]
          BY <4>1
        <4> QED
          BY <1>8, <3>2, <4>2
      <3> QED
        BY <3>1, <3>2
    <2> HIDE DEF Step
    <2>2. [i \in 1 .. N |-> f[i]] = [i \in 1 .. N |-> Step(h, i)]
      BY <2>1
    <2> QED
      BY <2>2
  <1> HIDE DEF Step, h
  <1>12. flatten = [i \in 1 .. N |-> Step(flatten, i)]
    BY <1>11 DEF N
  <1> HIDE DEF flatten
  <1>13. \A i \in 1 .. N : flatten[i] = Step(flatten, i)
    BY <1>12
  <1> DEFINE T == {n \in Nat : n + 1 <= N => flatten[n + 1] = f[n + 1]}
  <1>14. 0 \in T
    <2>1. CASE 0 + 1 <= N
      <3>1. 1 \in 1 .. N /\ f[1] = f[0] \o s[1] /\ f[0] = base /\ s[1] \in X
        BY <1>1, <1>7, <1>8a, <2>1
      <3>2. f[1] = s[1]
        BY <1>5, <3>1
      <3> QED
        BY <1>13, <3>1, <3>2 DEF Step
    <2> QED
      BY <2>1
  <1>15. ASSUME NEW n \in Nat, n \in T PROVE n + 1 \in T
    <2> DEFINE m == (n + 1) + 1
    <2>1. CASE m <= N
      <3>1. m \in 1 .. N /\ m # 1 /\ m - 1 = n + 1 /\ n + 1 <= N
        BY <1>1, <2>1
      <3>2. flatten[m - 1] = f[m - 1]
        BY <1>15, <3>1
      <3> HIDE DEF m
      <3>3. flatten[m] = flatten[m - 1] \o s[m]
        BY <1>13, <3>1 DEF Step
      <3>4. flatten[m] = f[m]
        BY <1>8, <3>1, <3>2, <3>3
      <3> QED
        BY <3>4 DEF m
    <2> QED
      BY <2>1
  <1> HIDE DEF T
  <1>16. Nat \subseteq T
    BY <1>14, <1>15, SetInduction
  <1>17. FlattenSeq(s) = f[N]
    <2>1. CASE N = 0
      BY <1>1, <1>7, <1>10, <2>1 DEF N, base
    <2>2. CASE N # 0
      <3>1. N - 1 \in T /\ (N - 1) + 1 = N
        BY <1>1, <1>16, <2>2
      <3>2. flatten[N] = f[N]
        BY <3>1 DEF T
      <3> QED
        BY <1>9, <2>2, <3>2 DEF N
    <2> QED
      BY <2>1, <2>2
  <1> QED
    BY <1>7, <1>8, <1>17 DEF N, X, base, Flattens

\* Flattening texts over D gives a text over D.
LEMMA FlattenType ==
  ASSUME NEW D, NEW s \in Seq(Seq(D))
  PROVE  FlattenSeq(s) \in Seq(D)
  <1>1. PICK f : Flattens(D, s, f) /\ FlattenSeq(s) = f[Len(s)]
    BY FlattenDef
  <1>2. Len(s) \in 0 .. Len(s)
    BY LenProperties
  <1> QED
    BY <1>1, <1>2 DEF Flattens

-----------------------------------------------------------------------------
(***************************************************************************)
(* The least and the greatest of a set.                                    *)
(***************************************************************************)
\* The largest element of a set of integers.
LEMMA MaxIs ==
  ASSUME NEW S \in SUBSET Int, NEW m \in S, \A y \in S : m >= y
  PROVE  Max(S) = m
  <1>1. Max(S) \in S /\ \A y \in S : Max(S) >= y
    BY DEF Max
  <1>2. m \in Int /\ Max(S) \in Int /\ m >= Max(S) /\ Max(S) >= m
    BY <1>1
  <1> QED
    BY <1>2

\* A set of naturals has a least element, and Min is it.
LEMMA MinNat ==
  ASSUME NEW S \in SUBSET Nat, S # {}
  PROVE  Min(S) \in S /\ \A y \in S : Min(S) <= y
  <1>1. PICK x \in S : \A y \in S : ~ (<<y, x>> \in OpToRel(<, Nat))
    BY WFMin, NatLessThanWellFounded
  <1>2. \A y \in S : x <= y
    <2>1. ASSUME NEW y \in S PROVE x <= y
      <3>1. x \in Nat /\ y \in Nat /\ ~ (<<y, x>> \in OpToRel(<, Nat))
        BY <1>1
      <3>2. ~ (y < x)
        BY <3>1 DEF OpToRel
      <3>3. x \in Nat /\ y \in Nat
        BY <1>1
      <3> QED
        BY <3>2, <3>3
    <2> QED
      BY <2>1
  <1> QED
    BY <1>2 DEF Min

\* A set of naturals up to n has a greatest element, and Max is it.
LEMMA MaxNat ==
  ASSUME NEW n \in Nat, NEW S \in SUBSET (0 .. n), S # {}
  PROVE  Max(S) \in S /\ \A y \in S : y <= Max(S)
  <1> DEFINE T == {n - x : x \in S}
  <1>1. T \in SUBSET Nat /\ T # {}
    <2>1. \A x \in S : x \in 0 .. n
      OBVIOUS
    <2>2. \A x \in S : n - x \in Nat
      BY <2>1
    <2> QED
      BY <2>2
  <1> HIDE DEF T
  <1>2. PICK m \in T : \A y \in T : m <= y
    BY <1>1, MinNat
  <1>3. PICK x \in S : m = n - x
    BY <1>2 DEF T
  <1>4. \A y \in S : y <= x
    <2>1. ASSUME NEW y \in S PROVE y <= x
      <3>1. n - y \in T /\ x \in 0 .. n /\ y \in 0 .. n
        BY <1>3 DEF T
      <3>2. n - x <= n - y
        BY <1>2, <1>3, <3>1
      <3>3. x \in Int /\ y \in Int
        BY <3>1
      <3> QED
        BY <3>2, <3>3
    <2> QED
      BY <2>1
  <1>5. \A y \in S : x >= y
    BY <1>3, <1>4
  <1>6. S \in SUBSET Int
    OBVIOUS
  <1>7. Max(S) = x
    BY <1>3, <1>5, <1>6, MaxIs
  <1> QED
    BY <1>3, <1>4, <1>7

\* The lesser of two naturals.
LEMMA MinPair ==
  ASSUME NEW a \in Nat, NEW b \in Nat
  PROVE  Min({a, b}) = IF a <= b THEN a ELSE b
  <1>1. Min({a, b}) \in {a, b} /\ \A y \in {a, b} : Min({a, b}) <= y
    BY MinNat
  <1> QED
    BY <1>1

\* The lesser of two integers.
LEMMA MinInt ==
  ASSUME NEW a \in Int, NEW b \in Int
  PROVE  Min({a, b}) = IF a <= b THEN a ELSE b
  <1> DEFINE m == IF a <= b THEN a ELSE b
  <1>1. m \in {a, b} /\ m \in Int /\ \A y \in {a, b} : m <= y
    OBVIOUS
  <1>2. Min({a, b}) \in {a, b} /\ \A y \in {a, b} : Min({a, b}) <= y
    BY <1>1 DEF Min
  <1>3. Min({a, b}) \in Int /\ Min({a, b}) <= m /\ m <= Min({a, b})
    BY <1>1, <1>2
  <1> QED
    BY <1>1, <1>3

-----------------------------------------------------------------------------
(***************************************************************************)
(* Recursion downwards, and the parts of a concatenation.                  *)
(***************************************************************************)
\* f is what a recursion gives that goes from N + 1, where it is base, down to 1.
Descends(N, X, base, F, f) ==
  f \in [1 .. N + 1 -> X] /\ f[N + 1] = base /\ \A i \in 1 .. N : f[i] = F[i][f]

\* What F makes of f at i depends on what f is above i alone.
LooksUp(N, X, F) ==
  \A i \in 1 .. N : \A f, g \in [1 .. N + 1 -> X] :
    (\A j \in i + 1 .. N + 1 : f[j] = g[j]) => F[i][f] = F[i][g]

\* A recursion downwards defines a function.
LEMMA Descent ==
  ASSUME NEW N \in Nat, NEW X, NEW base \in X, NEW F,
         F \in [1 .. N -> [[1 .. N + 1 -> X] -> X]], LooksUp(N, X, F)
  PROVE  \E f : Descends(N, X, base, F, f)
  <1> DEFINE Dom == 1 .. N + 1
             D == [Dom -> X]
             first == [i \in Dom |-> base]
             up(k) == N + 1 - k
             Over(f, k) == [i \in Dom |-> IF i = up(k) THEN F[up(k)][f] ELSE f[i]]
             G == [k \in 1 .. N |-> [f \in D |-> Over(f, k)]]
  <1>1. first \in D
    OBVIOUS
  <1>2. \A k \in 1 .. N : up(k) \in 1 .. N /\ up(k) \in Dom
    OBVIOUS
  <1>3. ASSUME NEW k \in 1 .. N, NEW f \in D
        PROVE  /\ Over(f, k) \in D /\ Over(f, k)[up(k)] = F[up(k)][f]
               /\ \A i \in Dom : i # up(k) => Over(f, k)[i] = f[i]
    <2>1. F[up(k)][f] \in X
      BY <1>2
    <2> DEFINE p == up(k)
               v == F[up(k)][f]
    <2>2. p \in Dom
      BY <1>2
    <2> HIDE DEF Dom, p, v
    <2> QED
      BY <2>1, <2>2 DEF p, v
  <1>4. G \in [1 .. N -> [D -> D]]
    <2> HIDE DEF D, Over
    <2> QED
      BY <1>3
  <1>5. \A k \in 1 .. N, f \in D : G[k][f] = Over(f, k)
    OBVIOUS
  <1> HIDE DEF G, Over, first
  <1>6. PICK h : Iterates(N, D, first, G, h)
    <2> HIDE DEF D
    <2> QED
      BY <1>1, <1>4, Iteration, Zenon
  <1>7. h \in [0 .. N -> D] /\ h[0] = first /\ \A k \in 1 .. N : h[k] = G[k][h[k - 1]]
    <2> HIDE DEF D
    <2> QED
      BY <1>6 DEF Iterates
  <1> DEFINE Good(k, i) == h[k][i] = IF i = N + 1 THEN base ELSE F[i][h[k]]
             T == {k \in Nat : k <= N => \A i \in Dom : i >= up(k) => Good(k, i)}
  <1>8. 0 \in T
    <2>1. \A i \in Dom : i >= up(0) => i = N + 1
      OBVIOUS
    <2>2. N + 1 \in Dom /\ first[N + 1] = base
      BY DEF first
    <2>3. \A i \in Dom : i >= up(0) => Good(0, i)
      BY <1>7, <2>1, <2>2
    <2> QED
      BY <2>3
  <1>9. ASSUME NEW k \in Nat, k \in T PROVE k + 1 \in T
    <2>1. SUFFICES ASSUME k + 1 <= N, NEW i \in Dom, i >= up(k + 1) PROVE Good(k + 1, i)
      OBVIOUS
    <2> DEFINE m == k + 1
               p == up(k + 1)
    <2>2. m \in 1 .. N /\ m \in 0 .. N /\ m - 1 = k /\ k \in 0 .. N /\ k <= N /\ p \in 1 .. N /\ p \in Dom
          /\ p + 1 = up(k)
      BY <2>1
    <2>3. h[k] \in D /\ h[m] \in D
      BY <1>7, <2>2
    <2> HIDE DEF D
    <2>4. h[m] = Over(h[k], m)
      BY <1>5, <1>7, <2>2, <2>3
    <2>5. h[m][p] = F[p][h[k]] /\ \A j \in Dom : j # p => h[m][j] = h[k][j]
      BY <1>3, <2>2, <2>3, <2>4
    <2>6. ASSUME NEW j \in 1 .. N, j >= p PROVE F[j][h[m]] = F[j][h[k]]
      <3>1. \A q \in j + 1 .. N + 1 : q \in Dom /\ q # p
        BY <2>2, <2>6
      <3>2. \A q \in j + 1 .. N + 1 : h[m][q] = h[k][q]
        BY <2>5, <3>1
      <3> QED
        BY <2>3, <3>2 DEF LooksUp, D
    <2>7. CASE i = p
      BY <2>2, <2>5, <2>6, <2>7
    <2>8. CASE i # p
      <3>1. i >= up(k)
        BY <2>1, <2>2, <2>8
      <3>2. h[k][i] = IF i = N + 1 THEN base ELSE F[i][h[k]]
        BY <1>9, <2>2, <3>1
      <3>3. h[m][i] = h[k][i]
        BY <2>5, <2>8
      <3>4. i # N + 1 => i \in 1 .. N /\ i >= p
        BY <2>1
      <3> QED
        BY <2>6, <3>2, <3>3, <3>4
    <2> QED
      BY <2>7, <2>8
  <1> HIDE DEF T
  <1>10. N \in T
    BY <1>8, <1>9, SetInduction
  <1>11. \A i \in Dom : i >= up(N)
    OBVIOUS
  <1>12. \A i \in Dom : Good(N, i)
    BY <1>10, <1>11 DEF T
  <1>13. N + 1 \in Dom /\ N \in 0 .. N /\ \A i \in 1 .. N : i \in Dom /\ i # N + 1
    OBVIOUS
  <1>14. h[N] \in D
    BY <1>7, <1>13
  <1>15. Descends(N, X, base, F, h[N])
    BY <1>12, <1>13, <1>14 DEF Descends
  <1> QED
    BY <1>15

\* r is the sequence a and then the sequence z, both over D.
Joined(D, a, z, r) ==
  /\ r \in Seq(D) /\ Len(r) = Len(a) + Len(z) /\ Len(a) \in Nat /\ Len(z) \in Nat
  /\ \A i \in 1 .. Len(a) : r[i] = a[i]
  /\ \A i \in 1 .. Len(z) : r[Len(a) + i] = z[i]

\* The elements of two sequences one after the other.
LEMMA ConcatParts ==
  ASSUME NEW D, NEW a \in Seq(D), NEW z \in Seq(D)
  PROVE  Joined(D, a, z, a \o z)
  <1> DEFINE r == a \o z
             m == Len(a)
             n == Len(z)
  <1>1. m \in Nat /\ n \in Nat
    BY LenProperties
  <1>2. r \in Seq(D) /\ Len(r) = m + n /\ \A i \in 1 .. m + n : r[i] = IF i <= m THEN a[i] ELSE z[i - m]
    BY ConcatProperties
  <1> HIDE DEF r, m, n
  <1>3. ASSUME NEW i \in 1 .. m PROVE r[i] = a[i]
    <2>1. i \in 1 .. m + n /\ i <= m
      BY <1>1
    <2>2. r[i] = IF i <= m THEN a[i] ELSE z[i - m]
      BY <1>2, <2>1
    <2> QED
      BY <2>1, <2>2, Zenon
  <1>4. ASSUME NEW i \in 1 .. n PROVE r[m + i] = z[i]
    <2> DEFINE k == m + i
    <2>1. k \in 1 .. m + n /\ ~ (k <= m) /\ k - m = i
      BY <1>1
    <2>2. r[k] = IF k <= m THEN a[k] ELSE z[k - m]
      BY <1>2, <2>1
    <2> HIDE DEF k
    <2>3. r[k] = z[k - m]
      BY <2>1, <2>2, Zenon
    <2> QED
      BY <2>1, <2>3 DEF k
  <1> QED
    BY <1>1, <1>2, <1>3, <1>4 DEF r, m, n, Joined
=============================================================================
