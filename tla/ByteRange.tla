----------------------------- MODULE ByteRange -----------------------------
(***************************************************************************)
(* The Range header: parse_range of src/core/unasd.c.  The text after      *)
(* "bytes=" is a sequence of tokens: a run of digits by its value, and the *)
(* characters strtoll and the parser tell apart.                           *)
(***************************************************************************)
EXTENDS Integers, Sequences, SequencesExt

CONSTANT LLONG_MAX   \* the largest long long; a digit run above it saturates

ASSUME RangeAssumption == LLONG_MAX \in Nat

Dash  == 0 - 1
Plus  == 0 - 2
Space == 0 - 3
Junk  == 0 - 4
Nul   == 0 - 5
Token == Nat \cup {Dash, Plus, Space, Junk}

Tok(t, i)  == IF i \in 1 .. Len(t) THEN t[i] ELSE Nul
Clamp(n)   == IF n > LLONG_MAX THEN LLONG_MAX ELSE n

\* strtoll from t[i]: spaces, a sign and digits, else nothing is read
strtoll(t, i) ==
  LET blank == {j \in i .. Len(t) + 1 : \A k \in i .. j - 1 : t[k] = Space}
      j == CHOOSE j \in blank : \A k \in blank : k <= j
      k == IF Tok(t, j) \in {Dash, Plus} THEN j + 1 ELSE j
  IN  IF Tok(t, k) < 0 THEN [val |-> 0, next |-> i]
      ELSE [val |-> IF Tok(t, j) = Dash THEN 0 - Clamp(t[k]) ELSE Clamp(t[k]), next |-> k + 1]

Unsatisfiable == [ok |-> FALSE, start |-> 0, end |-> 0]
Bytes(s, e)   == [ok |-> TRUE, start |-> s, end |-> e]

\* "-n", the last n bytes
Suffix(t, size) ==
  LET n == strtoll(t, 2)
      m == IF n.val > size THEN size ELSE n.val
  IN  IF n.next = 2 \/ Tok(t, n.next) # Nul \/ n.val <= 0 \/ size = 0 THEN Unsatisfiable
      ELSE Bytes(size - m, size - 1)

\* Mutant: an end past the file's is not cut back
FromToLong(t, size) ==
  LET s == strtoll(t, 1)
      e == strtoll(t, s.next + 1)
      open == Tok(t, s.next + 1) = Nul
      last == IF open THEN size - 1 ELSE e.val
  IN  IF \/ s.next = 1 \/ Tok(t, s.next) # Dash \/ (~open /\ Tok(t, e.next) # Nul)
         \/ s.val < 0 \/ s.val >= size \/ last < s.val
      THEN Unsatisfiable ELSE Bytes(s.val, last)

\* "n-" and "n-m"
FromTo(t, size) ==
  LET s == strtoll(t, 1)
      e == strtoll(t, s.next + 1)
      open == Tok(t, s.next + 1) = Nul
      last == IF open \/ e.val >= size THEN size - 1 ELSE e.val
  IN  IF \/ s.next = 1 \/ Tok(t, s.next) # Dash \/ (~open /\ Tok(t, e.next) # Nul)
         \/ s.val < 0 \/ s.val >= size \/ last < s.val
      THEN Unsatisfiable ELSE Bytes(s.val, last)

parse_range(h, size) ==
  IF ~h.unit THEN Unsatisfiable
  ELSE IF Tok(h.text, 1) = Dash THEN Suffix(h.text, size) ELSE FromTo(h.text, size)

(***************************************************************************)
(* What a byte range means: the positions it names in a file of that size. *)
(***************************************************************************)
IsPlain(t) == \/ Len(t) = 2 /\ t[1] >= 0 /\ t[2] = Dash
              \/ Len(t) = 3 /\ t[1] >= 0 /\ t[2] = Dash /\ t[3] >= 0
              \/ Len(t) = 2 /\ t[1] = Dash /\ t[2] >= 0
Positions(t, size) ==
  {p \in 0 .. size - 1 : IF t[1] = Dash THEN p >= size - t[2]
                         ELSE t[1] <= p /\ (Len(t) = 3 => p <= t[3])}
=============================================================================
