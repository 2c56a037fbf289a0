--------------------------- MODULE HttpReadProofs ---------------------------
(***************************************************************************)
(* HttpRead implements HttpIntake, for any streams, any buffer and any     *)
(* pieces.  The inductive invariant says where the bytes are: the buffer   *)
(* is what the socket has delivered until the body is read past it, the    *)
(* parsed head ends at the first CRLFCRLF of the whole stream, and the     *)
(* file holds the bytes behind it.                                         *)
(***************************************************************************)
EXTENDS HttpRead, SequenceTheorems, TLAPS

Parsed    == {"dispatch", "expect", "prefix", "body"}
Uploading == {"expect", "prefix", "body"}

Located ==
  /\ taken \in 0 .. Len(stream)
  /\ Len(buf) \in 0 .. Len(stream) /\ Len(buf) <= BufSize
  /\ buf = SubSeq(stream, 1, Len(buf))

HeadFound ==
  pc \in Parsed => /\ pos \in 4 .. Len(buf)
                   /\ HeadAt(stream, pos - 3)
                   /\ head = SubSeq(stream, 1, pos - 4)
                   /\ Fault(head) = OK

Sized == pc \in Uploading => head[1].t = "PUT" /\ Size \in Nat

Streamed ==
  pc = "body" => /\ Len(file) \in 0 .. Size
                 /\ pos + Len(file) <= Len(stream)
                 /\ file = SubSeq(stream, pos + 1, pos + Len(file))
                 /\ Len(file) < Size => taken = pos + Len(file)

IInv ==
  /\ stream \in Streams
  /\ pc \in {"head", "done"} \cup Parsed
  /\ pc # "done" => result = None
  /\ Located
  /\ pc \in {"head", "dispatch", "expect", "prefix"} => taken = Len(buf)
  /\ HeadFound /\ Sized /\ Streamed

-----------------------------------------------------------------------------
\* A piece of a sequence, its length and its elements.
LEMMA Piece ==
  ASSUME NEW S, NEW s \in Seq(S), NEW m \in 1 .. Len(s) + 1, NEW n \in (m - 1) .. Len(s)
  PROVE  /\ SubSeq(s, m, n) \in Seq(S) /\ Len(SubSeq(s, m, n)) = n - m + 1
         /\ \A i \in 1 .. (n - m + 1) : SubSeq(s, m, n)[i] = s[m + i - 1]
  <1>1. Len(s) \in Nat /\ m \in Int /\ n \in Int
    BY LenProperties
  <1>2. \A i \in m .. n : s[i] \in S
    BY <1>1, ElementOfSeq
  <1> QED
    BY <1>1, <1>2, SubSeqProperties

\* A piece of the front of a sequence is that piece of the sequence.
LEMMA PieceOfFront ==
  ASSUME NEW S, NEW s \in Seq(S), NEW n \in 0 .. Len(s),
         NEW m \in 1 .. n + 1, NEW k \in (m - 1) .. n
  PROVE  SubSeq(SubSeq(s, 1, n), m, k) = SubSeq(s, m, k)
  <1>1. Len(s) \in Nat
    BY LenProperties
  <1>2. /\ SubSeq(s, 1, n) \in Seq(S) /\ Len(SubSeq(s, 1, n)) = n
        /\ \A i \in 1 .. n : SubSeq(s, 1, n)[i] = s[i]
    BY <1>1, Piece
  <1>3. /\ SubSeq(SubSeq(s, 1, n), m, k) \in Seq(S)
        /\ Len(SubSeq(SubSeq(s, 1, n), m, k)) = k - m + 1
        /\ \A i \in 1 .. (k - m + 1) : SubSeq(SubSeq(s, 1, n), m, k)[i] = SubSeq(s, 1, n)[m + i - 1]
    BY <1>1, <1>2, Piece
  <1>4. /\ SubSeq(s, m, k) \in Seq(S) /\ Len(SubSeq(s, m, k)) = k - m + 1
        /\ \A i \in 1 .. (k - m + 1) : SubSeq(s, m, k)[i] = s[m + i - 1]
    BY <1>1, Piece
  <1>5. \A i \in 1 .. (k - m + 1) : SubSeq(SubSeq(s, 1, n), m, k)[i] = SubSeq(s, m, k)[i]
    BY <1>1, <1>2, <1>3, <1>4
  <1> QED
    BY <1>1, <1>3, <1>4, <1>5, SeqEqual

\* The front of the rest of a sequence.
LEMMA FrontOfRest ==
  ASSUME NEW S, NEW s \in Seq(S), NEW m \in 0 .. Len(s), NEW k \in 0 .. (Len(s) - m)
  PROVE  /\ Len(SubSeq(s, m + 1, Len(s))) = Len(s) - m
         /\ SubSeq(SubSeq(s, m + 1, Len(s)), 1, k) = SubSeq(s, m + 1, m + k)
  <1>1. Len(s) \in Nat
    BY LenProperties
  <1> DEFINE r == SubSeq(s, m + 1, Len(s))
  <1>2. /\ r \in Seq(S) /\ Len(r) = Len(s) - m
        /\ \A i \in 1 .. (Len(s) - m) : r[i] = s[m + i]
    <2>1. m + 1 \in 1 .. Len(s) + 1 /\ Len(s) \in (m + 1 - 1) .. Len(s)
      BY <1>1
    <2>2. /\ r \in Seq(S) /\ Len(r) = Len(s) - (m + 1) + 1
          /\ \A i \in 1 .. (Len(s) - (m + 1) + 1) : r[i] = s[m + 1 + i - 1]
      BY <2>1, Piece
    <2> QED
      BY <1>1, <2>2
  <1>3. /\ SubSeq(r, 1, k) \in Seq(S) /\ Len(SubSeq(r, 1, k)) = k
        /\ \A i \in 1 .. k : SubSeq(r, 1, k)[i] = r[i]
    <2>1. 1 \in 1 .. Len(r) + 1 /\ k \in (1 - 1) .. Len(r)
      BY <1>1, <1>2
    <2>2. /\ SubSeq(r, 1, k) \in Seq(S) /\ Len(SubSeq(r, 1, k)) = k - 1 + 1
          /\ \A i \in 1 .. (k - 1 + 1) : SubSeq(r, 1, k)[i] = r[1 + i - 1]
      BY <1>2, <2>1, Piece
    <2> QED
      BY <1>1, <1>2, <2>2
  <1>4. /\ SubSeq(s, m + 1, m + k) \in Seq(S) /\ Len(SubSeq(s, m + 1, m + k)) = k
        /\ \A i \in 1 .. k : SubSeq(s, m + 1, m + k)[i] = s[m + i]
    <2>1. m + 1 \in 1 .. Len(s) + 1 /\ m + k \in (m + 1 - 1) .. Len(s)
      BY <1>1
    <2>2. /\ SubSeq(s, m + 1, m + k) \in Seq(S) /\ Len(SubSeq(s, m + 1, m + k)) = m + k - (m + 1) + 1
          /\ \A i \in 1 .. (m + k - (m + 1) + 1) : SubSeq(s, m + 1, m + k)[i] = s[m + 1 + i - 1]
      BY <2>1, Piece
    <2> QED
      BY <1>1, <2>2
  <1>5. \A i \in 1 .. k : SubSeq(r, 1, k)[i] = SubSeq(s, m + 1, m + k)[i]
    BY <1>1, <1>2, <1>3, <1>4
  <1> QED
    BY <1>2, <1>3, <1>4, <1>5, SeqEqual

\* Two pieces, the second where the first ends.
LEMMA Adjacent ==
  ASSUME NEW S, NEW s \in Seq(S), NEW p \in 0 .. Len(s), NEW a \in p .. Len(s), NEW k \in Nat,
         a + k <= Len(s)
  PROVE  SubSeq(s, p + 1, a) \o SubSeq(s, a + 1, a + k) = SubSeq(s, p + 1, a + k)
  <1>1. Len(s) \in Nat
    BY LenProperties
  <1>2. p + 1 \in 1 .. Len(s) + 1 /\ a \in ((p + 1) - 1) .. Len(s) /\ a + k \in a .. Len(s)
    BY <1>1
  <1> QED
    BY <1>2, ConcatAdjacentSubSeq

\* The end of a head is in the front of a stream where it is in the stream.
LEMMA EndInFront ==
  ASSUME NEW s \in Seq(Symbol), NEW n \in 0 .. Len(s), NEW i \in Nat \ {0}
  PROVE  EndsAt(SubSeq(s, 1, n), i) <=> i + 3 <= n /\ EndsAt(s, i)
  <1>1. Len(s) \in Nat
    BY LenProperties
  <1>2. Len(SubSeq(s, 1, n)) = n /\ \A j \in 1 .. n : SubSeq(s, 1, n)[j] = s[j]
    BY <1>1, Piece
  <1> QED
    BY <1>1, <1>2 DEF EndsAt

\* A Content-Length that was read is a number.
LEMMA SizeIsNat ==
  ASSUME NEW h \in Seq(Symbol), ContentLength(h) # None
  PROVE  ContentLength(h) \in Nat
  <1>1. \A i \in LengthAt(h) : i \in 1 .. Len(h)
    BY DEF LengthAt, Kept, HeaderAt
  <1>2. LengthAt(h) # {} /\ ContentLength(h) = h[CHOOSE i \in LengthAt(h) : TRUE].v
    BY DEF ContentLength
  <1>3. (CHOOSE i \in LengthAt(h) : TRUE) \in LengthAt(h)
    BY <1>2
  <1>4. h[CHOOSE i \in LengthAt(h) : TRUE] \in Symbol
    BY <1>1, <1>3, ElementOfSeq
  <1> QED
    BY <1>2, <1>4 DEF Symbol

\* A peer sends no more than its stream.
LEMMA SentBounded ==
  ASSUME stream \in Seq(Symbol)
  PROVE  Sent \in Nat /\ Sent <= Len(stream)
  <1>1. Len(stream) \in Nat
    BY LenProperties
  <1>2. CASE AskedAt # {}
    <2>1. (CHOOSE i \in AskedAt : TRUE) \in AskedAt
      BY <1>2
    <2>2. \A i \in AskedAt : i \in Nat /\ i + 3 <= Len(stream)
      BY DEF AskedAt, HeadAt, EndsAt
    <2> QED
      BY <1>1, <2>1, <2>2 DEF Sent
  <1> QED
    BY <1>1, <1>2 DEF Sent

-----------------------------------------------------------------------------
\* The invariant gives the stream its type.
LEMMA StreamTyped ==
  ASSUME IInv
  PROVE  stream \in Seq(Symbol) /\ Len(stream) \in Nat /\ BufSize \in Nat /\ BufSize > 4
  <1>1. stream \in Seq(Symbol)
    BY HeadAssumption DEF IInv
  <1> QED
    BY <1>1, HeadAssumption, LenProperties

\* A read of the head puts the next piece of the stream behind the buffer.
LEMMA ReadHeadKeeps ==
  ASSUME IInv, ReadHead
  PROVE  IInv'
  <1>1. stream \in Seq(Symbol) /\ Len(stream) \in Nat
    BY StreamTyped
  <1>2. PICK k \in 1 .. (Sent - taken) : /\ Len(buf) + k <= BufSize
                                         /\ buf' = buf \o SubSeq(stream, taken + 1, taken + k)
                                         /\ taken' = taken + k
    BY DEF ReadHead
  <1>3. taken = Len(buf) /\ buf = SubSeq(stream, 1, taken) /\ taken \in 0 .. Len(stream)
    BY DEF IInv, Located, ReadHead, Reading
  <1>4. taken + k \in taken .. Len(stream) /\ k \in Nat
    BY <1>1, <1>2, <1>3, SentBounded
  <1>5. buf' = SubSeq(stream, 1, taken + k)
    <2>1. SubSeq(stream, 1, taken) \o SubSeq(stream, taken + 1, taken + k) = SubSeq(stream, 1, taken + k)
      <3>1. /\ 1 \in 1 .. Len(stream) + 1 /\ taken \in (1 - 1) .. Len(stream)
            /\ taken + k \in taken .. Len(stream)
        BY <1>1, <1>3, <1>4
      <3> QED
        BY <1>1, <3>1, ConcatAdjacentSubSeq
    <2> QED
      BY <1>2, <1>3, <2>1
  <1>6. Len(buf') = taken + k
    BY <1>1, <1>3, <1>4, <1>5, Piece
  <1>7. UNCHANGED <<stream, pos, head, continued, file, pc, result>> /\ pc = "head"
    BY DEF ReadHead, Reading
  <1>8. Located' /\ taken' = Len(buf')
    BY <1>1, <1>2, <1>3, <1>4, <1>5, <1>6, <1>7 DEF Located
  <1> QED
    BY <1>7, <1>8 DEF IInv, HeadFound, Sized, Streamed, Parsed, Uploading

\* The head found in the buffer is the head of the stream.
LEMMA ParseEffect ==
  ASSUME IInv, ParseHead
  PROVE  /\ pos' \in 4 .. Len(buf) /\ HeadAt(stream, pos' - 3)
         /\ head' = SubSeq(stream, 1, pos' - 4) /\ pc = "head"
  <1>1. stream \in Seq(Symbol) /\ Len(stream) \in Nat
    BY StreamTyped
  <1>2. PICK i \in 1 .. Len(buf) : HeadAt(buf, i) /\ head' = SubSeq(buf, 1, i - 1) /\ pos' = i + 3
    BY DEF ParseHead
  <1>3. Len(buf) \in 0 .. Len(stream) /\ buf = SubSeq(stream, 1, Len(buf)) /\ pc = "head"
    BY DEF IInv, Located, ParseHead
  <1>4. \A j \in Nat \ {0} : EndsAt(buf, j) <=> j + 3 <= Len(buf) /\ EndsAt(stream, j)
    <2>1. \A n \in 0 .. Len(stream), j \in Nat \ {0} :
            EndsAt(SubSeq(stream, 1, n), j) <=> j + 3 <= n /\ EndsAt(stream, j)
      BY <1>1, EndInFront
    <2>2. PICK n \in 0 .. Len(stream) : n = Len(buf) /\ buf = SubSeq(stream, 1, n)
      BY <1>3
    <2> QED
      BY <2>1, <2>2
  <1>5. i \in Nat \ {0} /\ i + 3 <= Len(buf) /\ EndsAt(stream, i)
    BY <1>1, <1>2, <1>3, <1>4 DEF HeadAt
  <1>6. \A j \in 1 .. (i - 1) : ~EndsAt(stream, j)
    BY <1>1, <1>2, <1>3, <1>4, <1>5 DEF HeadAt
  <1>7. HeadAt(stream, i)
    BY <1>5, <1>6 DEF HeadAt
  <1>8. SubSeq(buf, 1, i - 1) = SubSeq(stream, 1, i - 1)
    <2>1. 1 \in 1 .. Len(buf) + 1 /\ i - 1 \in (1 - 1) .. Len(buf)
      BY <1>1, <1>3, <1>5
    <2> QED
      BY <1>1, <1>3, <2>1, PieceOfFront
  <1>9. i = pos' - 3 /\ i - 1 = pos' - 4 /\ pos' \in 4 .. Len(buf)
    BY <1>1, <1>2, <1>3, <1>5
  <1> QED
    BY <1>2, <1>3, <1>7, <1>8, <1>9

\* The parser keeps the invariant.
LEMMA ParseKeeps ==
  ASSUME IInv, ParseHead
  PROVE  IInv'
  <1>1. /\ pos' \in 4 .. Len(buf) /\ HeadAt(stream, pos' - 3)
        /\ head' = SubSeq(stream, 1, pos' - 4) /\ pc = "head"
    BY ParseEffect
  <1>2. UNCHANGED <<stream, taken, buf, continued, file>>
    BY DEF ParseHead
  <1>3. \/ pc' = "done"
        \/ pc' = "dispatch" /\ result' = result /\ Fault(head') = OK
    BY DEF ParseHead, Finish, Goto
  <1>4. HeadFound'
    BY <1>1, <1>2, <1>3 DEF HeadFound, Parsed
  <1> QED
    BY <1>1, <1>2, <1>3, <1>4 DEF IInv, Located, Sized, Streamed, Parsed, Uploading

\* An end keeps the invariant.
LEMMA EndKeeps ==
  ASSUME IInv, pc' = "done", UNCHANGED <<stream, taken, buf>>
  PROVE  IInv'
  BY DEF IInv, Located, HeadFound, Sized, Streamed, Parsed, Uploading

\* The steps between the head and the body.
LEMMA DispatchKeeps ==
  ASSUME IInv, Dispatch \/ SendContinue
  PROVE  IInv'
  <1>1. UNCHANGED <<stream, taken, buf, pos, head, file>>
    BY DEF Dispatch, SendContinue
  <1>2. CASE pc' = "done"
    BY <1>1, <1>2, EndKeeps
  <1>3. CASE Dispatch /\ pc' # "done"
    <2>1. /\ pc = "dispatch" /\ head[1].t = "PUT" /\ Size # None /\ pc' = "expect" /\ UNCHANGED result
      BY <1>3 DEF Dispatch, Finish, Goto
    <2>2. head \in Seq(Symbol)
      <3>1. stream \in Seq(Symbol) /\ Len(stream) \in Nat
        BY StreamTyped
      <3>2. head = SubSeq(stream, 1, pos - 4) /\ pos \in 4 .. Len(buf) /\ Len(buf) \in 0 .. Len(stream)
        BY <2>1 DEF IInv, HeadFound, Located, Parsed
      <3>3. 1 \in 1 .. Len(stream) + 1 /\ pos - 4 \in (1 - 1) .. Len(stream)
        BY <3>1, <3>2
      <3> QED
        BY <3>1, <3>2, <3>3, Piece
    <2>3. Size \in Nat
      BY <2>1, <2>2, SizeIsNat DEF Size
    <2> QED
      BY <1>1, <2>1, <2>3
      DEF IInv, Located, HeadFound, Sized, Streamed, Parsed, Uploading, Size
  <1>4. CASE SendContinue
    <2>1. pc = "expect" /\ pc' = "prefix" /\ UNCHANGED result
      BY <1>4 DEF SendContinue, Goto
    <2> QED
      BY <1>1, <2>1 DEF IInv, Located, HeadFound, Sized, Streamed, Parsed, Uploading, Size
  <1> QED
    BY <1>2, <1>3, <1>4

\* What of the buffer lies behind the head begins the file.
LEMMA PrefixKeeps ==
  ASSUME IInv, TakePrefix
  PROVE  IInv'
  <1>1. stream \in Seq(Symbol) /\ Len(stream) \in Nat
    BY StreamTyped
  <1>2. pc = "prefix" /\ pc' = "body" /\ UNCHANGED <<stream, taken, buf, pos, head, result>>
    BY DEF TakePrefix, Goto
  <1>3. /\ taken = Len(buf) /\ Size \in Nat /\ pos \in 4 .. Len(buf)
        /\ Len(buf) \in 0 .. Len(stream) /\ buf = SubSeq(stream, 1, Len(buf))
    BY <1>2 DEF IInv, Located, HeadFound, Sized, Parsed, Uploading
  <1> DEFINE use == IF Len(buf) - pos > Size THEN Size ELSE Len(buf) - pos
  <1>4. file' = SubSeq(buf, pos + 1, pos + use)
    BY DEF TakePrefix
  <1>5. use \in 0 .. Size /\ pos + use <= Len(buf) /\ (use < Size => pos + use = Len(buf))
    BY <1>1, <1>3
  <1> HIDE DEF use
  <1>6. /\ pos + 1 \in 1 .. Len(buf) + 1 /\ pos + use \in (pos + 1 - 1) .. Len(buf)
        /\ pos + 1 \in 1 .. Len(stream) + 1 /\ pos + use \in (pos + 1 - 1) .. Len(stream)
    BY <1>1, <1>3, <1>5
  <1>7. file' = SubSeq(stream, pos + 1, pos + use)
    BY <1>1, <1>3, <1>4, <1>6, PieceOfFront
  <1>8. Len(file') = use
    <2>1. Len(SubSeq(stream, pos + 1, pos + use)) = pos + use - (pos + 1) + 1
      BY <1>1, <1>3, <1>5, <1>6, Piece
    <2> QED
      BY <1>1, <1>3, <1>5, <1>7, <2>1
  <1>9. Streamed'
    <2>1. Size' = Size
      BY <1>2 DEF Size
    <2>2. Len(file') \in 0 .. Size /\ pos + Len(file') <= Len(stream)
      BY <1>1, <1>3, <1>5, <1>8
    <2>3. file' = SubSeq(stream, pos + 1, pos + Len(file'))
      BY <1>7, <1>8
    <2>4. Len(file') < Size => taken = pos + Len(file')
      BY <1>3, <1>5, <1>8
    <2> QED
      BY <1>2, <2>1, <2>2, <2>3, <2>4 DEF Streamed
  <1> QED
    BY <1>2, <1>9 DEF IInv, Located, HeadFound, Sized, Parsed, Uploading, Size

\* A read of the body puts the next piece of the stream behind the file.
LEMMA ReadBodyKeeps ==
  ASSUME IInv, ReadBody
  PROVE  IInv'
  <1>1. stream \in Seq(Symbol) /\ Len(stream) \in Nat
    BY StreamTyped
  <1>2. PICK k \in 1 .. (Sent - taken) : /\ Len(file) + k <= Size
                                         /\ file' = file \o SubSeq(stream, taken + 1, taken + k)
                                         /\ taken' = taken + k
    BY DEF ReadBody
  <1>3. pc = "body" /\ Len(file) < Size /\ UNCHANGED <<stream, buf, pos, head, continued, pc, result>>
    BY DEF ReadBody
  <1>4. /\ taken = pos + Len(file) /\ file = SubSeq(stream, pos + 1, pos + Len(file))
        /\ Size \in Nat /\ pos \in 4 .. Len(buf) /\ Len(file) \in 0 .. Size
        /\ taken \in 0 .. Len(stream) /\ Len(buf) \in 0 .. Len(stream)
    BY <1>3 DEF IInv, Located, HeadFound, Sized, Streamed, Parsed, Uploading
  <1>5. taken + k \in taken .. Len(stream) /\ k \in Nat \ {0}
    BY <1>1, <1>2, <1>4, SentBounded
  <1>6. /\ pos + 1 \in 1 .. Len(stream) + 1 /\ taken \in (pos + 1 - 1) .. Len(stream)
        /\ taken + k \in (pos + 1 - 1) .. Len(stream)
        /\ pos \in 0 .. Len(stream) /\ taken \in pos .. Len(stream)
        /\ k \in Nat /\ taken + k <= Len(stream)
    BY <1>1, <1>4, <1>5
  <1>7. file' = SubSeq(stream, pos + 1, taken + k)
    <2>1. SubSeq(stream, pos + 1, taken) \o SubSeq(stream, taken + 1, taken + k)
            = SubSeq(stream, pos + 1, taken + k)
      BY <1>1, <1>6, Adjacent
    <2> QED
      BY <1>2, <1>4, <2>1
  <1>8. Len(file') = Len(file) + k
    <2>1. Len(SubSeq(stream, pos + 1, taken + k)) = taken + k - (pos + 1) + 1
      BY <1>1, <1>4, <1>5, <1>6, Piece
    <2> QED
      BY <1>1, <1>4, <1>5, <1>7, <2>1
  <1>9. taken' = pos + Len(file') /\ taken' \in 0 .. Len(stream) /\ Len(file') \in 0 .. Size
    BY <1>1, <1>2, <1>4, <1>5, <1>8
  <1>10. Streamed'
    <2>1. Size' = Size /\ pos' = pos /\ stream' = stream /\ taken' = taken + k
      BY <1>2, <1>3 DEF Size
    <2>2. file' = SubSeq(stream, pos + 1, pos + Len(file'))
      BY <1>2, <1>7, <1>9
    <2>3. pos + Len(file') <= Len(stream)
      BY <1>1, <1>9
    <2> QED
      BY <1>9, <2>1, <2>2, <2>3 DEF Streamed
  <1>11. Located'
    BY <1>3, <1>9 DEF IInv, Located
  <1> QED
    BY <1>3, <1>10, <1>11 DEF IInv, HeadFound, Sized, Parsed, Uploading, Size

\* The inductive invariant holds in every reachable state.
THEOREM Inductive == Spec => []IInv
  <1>1. Init => IInv
    <2> SUFFICES ASSUME Init PROVE IInv
      OBVIOUS
    <2>1. stream \in Seq(Symbol) /\ Len(stream) \in Nat
      BY HeadAssumption, LenProperties DEF Init
    <2>2. buf = <<>> /\ Len(buf) = 0 /\ SubSeq(stream, 1, 0) = <<>>
      BY <2>1, SubSeqEmpty DEF Init
    <2>3. Located
      BY <2>1, <2>2, HeadAssumption DEF Init, Located
    <2> QED
      BY <2>2, <2>3 DEF Init, IInv, HeadFound, Sized, Streamed, Parsed, Uploading
  <1>2. IInv /\ [Next]_vars => IInv'
    <2> SUFFICES ASSUME IInv, [Next]_vars PROVE IInv'
      OBVIOUS
    <2>1. CASE EndOfHead \/ HeadFails \/ HeadTooLarge \/ BodyFails \/ LoseBody \/ StoreBody
      BY <2>1, EndKeeps DEF EndOfHead, HeadFails, HeadTooLarge, BodyFails, LoseBody, StoreBody, Finish
    <2>2. CASE UNCHANGED vars
      BY <2>2 DEF vars, IInv, Located, HeadFound, Sized, Streamed, Size
    <2> QED
      BY <2>1, <2>2, ReadHeadKeeps, ParseKeeps, DispatchKeeps, PrefixKeeps, ReadBodyKeeps DEF Next, Progress
  <1> QED
    BY <1>1, <1>2, PTL DEF Spec

-----------------------------------------------------------------------------
\* HttpIntake speaks of heads as HttpRead does.
LEMMA SameHeads ==
  /\ \A b, i : Intake!EndsAt(b, i) <=> EndsAt(b, i)
  /\ \A b, i : Intake!HeadAt(b, i) <=> HeadAt(b, i)
  /\ \A b : Intake!NoHead(b) <=> NoHead(b)
  /\ \A h : Intake!Fault(h) = Fault(h) /\ Intake!ContentLength(h) = ContentLength(h)
  /\ Intake!OK = OK /\ Intake!Closed = Closed /\ Intake!Routed = Routed
  /\ Intake!NoLength = NoLength /\ Intake!Lost = Lost
  /\ \A e : Intake!Refuse(e) = Refuse(e) /\ Intake!Store(e) = Store(e)
  <1>1. \A b, i : Intake!EndsAt(b, i) <=> EndsAt(b, i)
    BY DEF Intake!EndsAt, EndsAt
  <1>2. \A b, i : Intake!HeadAt(b, i) <=> HeadAt(b, i)
    BY <1>1 DEF Intake!HeadAt, HeadAt
  <1>3. \A b : Intake!NoHead(b) <=> NoHead(b)
    BY <1>1 DEF Intake!NoHead, NoHead
  <1>4. Intake!OK = OK /\ \A e : Intake!Refuse(e) = Refuse(e) /\ Intake!Store(e) = Store(e)
    BY DEF Intake!OK, OK, Intake!Refuse, Refuse, Intake!Store, Store
  <1>5. /\ Intake!Closed = Closed /\ Intake!Routed = Routed
        /\ Intake!NoLength = NoLength /\ Intake!Lost = Lost
    BY <1>4 DEF Intake!Closed, Closed, Intake!Routed, Routed, Intake!NoLength, NoLength,
                Intake!Lost, Lost
  <1>6. \A h : Intake!LengthAt(h) = LengthAt(h)
    <2>1. \A S : Intake!Cardinality(S) = Cardinality(S)
      BY DEF Intake!Cardinality, Cardinality
    <2>2. \A h : Intake!HeaderAt(h) = HeaderAt(h)
      BY DEF Intake!HeaderAt, HeaderAt, Intake!Colon, Colon
    <2>3. \A h : Intake!Kept(h) = Kept(h)
      BY <2>1, <2>2 DEF Intake!Kept, Kept
    <2> QED
      BY <2>3 DEF Intake!LengthAt, LengthAt
  <1>7. \A h : Intake!Fault(h) = Fault(h)
    BY <1>4, <1>6 DEF Intake!Fault, Fault, Intake!BadLine, BadLine
  <1>8. \A h : Intake!ContentLength(h) = ContentLength(h)
    <2> TAKE h
    <2>2. Intake!LengthAt(h) = LengthAt(h)
      BY <1>6
    <2>3. Intake!ContentLength(h) = IF LengthAt(h) = {} THEN None ELSE h[CHOOSE i \in LengthAt(h) : TRUE].v
      BY <2>2 DEF Intake!ContentLength
    <2> QED
      BY <2>3 DEF ContentLength
  <1> QED
    BY <1>1, <1>2, <1>3, <1>4, <1>5, <1>7, <1>8

\* An outcome of a complete head is allowed when the head and what follows allow it.
LEMMA HeadAllows ==
  ASSUME IInv, NEW p \in 4 .. BufSize, HeadAt(stream, p - 3), NEW o,
         Intake!Answers(SubSeq(stream, 1, p - 4), SubSeq(stream, p + 1, Len(stream)), o)
  PROVE  Intake!Allowed(stream, o)
  <1>1. p - 3 \in 1 .. (BufSize - 3) /\ (p - 3) - 1 = p - 4 /\ (p - 3) + 4 = p + 1
    BY StreamTyped
  <1> QED
    BY <1>1, SameHeads DEF Intake!Allowed

\* The end a head comes to is one its stream allows.
LEMMA HeadEnds ==
  ASSUME IInv, EndOfHead \/ HeadFails \/ HeadTooLarge \/ ParseHead, pc' = "done"
  PROVE  Intake!Allowed(stream, result')
  <1>1. stream \in Seq(Symbol) /\ Len(stream) \in Nat /\ BufSize \in Nat /\ BufSize > 4
    BY StreamTyped
  <1>2. pc = "head"
    BY DEF EndOfHead, HeadFails, HeadTooLarge, ParseHead, Reading
  <1>3. taken = Len(buf) /\ taken \in 0 .. Len(stream) /\ taken <= BufSize
    BY <1>2 DEF IInv, Located
  <1>8. buf = SubSeq(stream, 1, taken)
    BY <1>2 DEF IInv, Located
  <1>4. CASE HeadFails
    BY <1>4, SameHeads DEF HeadFails, Finish, Intake!Allowed
  <1>5. CASE EndOfHead
    <2>1. taken = Len(stream)
      BY <1>5 DEF EndOfHead, Ended
    <2>2. buf = stream
      BY <1>1, <1>8, <2>1, SubSeqFull
    <2>3. NoHead(stream) /\ Len(stream) < BufSize - 1
      BY <1>5, <2>2 DEF EndOfHead, Reading
    <2>4. result' = IF stream = <<>> THEN Closed ELSE Refuse("truncated head")
      BY <1>5, <2>2 DEF EndOfHead, Finish
    <2> QED
      BY <2>3, <2>4, SameHeads DEF Intake!Allowed
  <1>6. CASE HeadTooLarge
    <2>1. NoHead(buf) /\ Len(buf) >= BufSize - 1 /\ result' = Refuse("request head too large")
      BY <1>6 DEF HeadTooLarge, Finish
    <2>4. taken >= BufSize - 1
      <3>1. Len(buf) >= BufSize - 1
        BY <2>1
      <3> QED
        BY <1>3, <3>1
    <2>2. \A i \in 1 .. (BufSize - 4) : ~EndsAt(stream, i)
      <3>1. SUFFICES ASSUME NEW i \in 1 .. (BufSize - 4) PROVE ~EndsAt(stream, i)
        OBVIOUS
      <3>2. i \in Nat \ {0} /\ i + 3 <= taken /\ i \in 1 .. Len(buf)
        BY <1>1, <1>3, <2>4
      <3>3. EndsAt(SubSeq(stream, 1, taken), i) <=> i + 3 <= taken /\ EndsAt(stream, i)
        BY <1>1, <1>3, <3>2, EndInFront
      <3> QED
        BY <1>8, <2>1, <3>2, <3>3 DEF NoHead
    <2>3. Len(stream) >= BufSize - 1
      BY <1>1, <1>3, <2>4
    <2> QED
      BY <2>1, <2>2, <2>3, SameHeads DEF Intake!Allowed
  <1>7. CASE ParseHead
    <2>1. /\ pos' \in 4 .. Len(buf) /\ HeadAt(stream, pos' - 3)
          /\ head' = SubSeq(stream, 1, pos' - 4)
      BY <1>7, ParseEffect
    <2>2. Fault(head') # OK /\ result' = Refuse(Fault(head'))
      BY <1>7 DEF ParseHead, Finish, Goto
    <2>3. pos' \in 4 .. BufSize
      BY <1>1, <1>3, <2>1
    <2>4. Intake!Answers(head', SubSeq(stream, pos' + 1, Len(stream)), result')
      BY <2>2, SameHeads DEF Intake!Answers
    <2> QED
      BY <2>1, <2>3, <2>4, HeadAllows
  <1> QED
    BY <1>4, <1>5, <1>6, <1>7

\* The end an accepted request comes to is one its stream allows.
LEMMA BodyEnds ==
  ASSUME IInv, Dispatch \/ BodyFails \/ LoseBody \/ StoreBody, pc' = "done"
  PROVE  Intake!Allowed(stream, result')
  <1>1. stream \in Seq(Symbol) /\ Len(stream) \in Nat /\ BufSize \in Nat
    BY StreamTyped
  <1>2. pc \in Parsed
    BY DEF Dispatch, BodyFails, LoseBody, StoreBody, Parsed
  <1>3. /\ pos \in 4 .. Len(buf) /\ HeadAt(stream, pos - 3)
        /\ head = SubSeq(stream, 1, pos - 4) /\ Fault(head) = OK
    BY <1>2 DEF IInv, HeadFound
  <1>4. pos \in 4 .. BufSize /\ pos \in 0 .. Len(stream)
    <2>1. Len(buf) \in 0 .. Len(stream) /\ Len(buf) <= BufSize
      BY DEF IInv, Located
    <2>2. pos \in 4 .. Len(buf)
      BY <1>3
    <2> QED
      BY <1>1, <2>1, <2>2
  <1> DEFINE rest == SubSeq(stream, pos + 1, Len(stream))
  <1>5. SUFFICES Intake!Answers(head, rest, result')
    BY <1>3, <1>4, HeadAllows
  <1>6. CASE Dispatch
    BY <1>3, <1>6, SameHeads DEF Dispatch, Finish, Goto, Intake!Answers, Size
  <1>7. CASE BodyFails \/ LoseBody \/ StoreBody
    <2>1. pc = "body"
      BY <1>7 DEF BodyFails, LoseBody, StoreBody
    <2>2. /\ head[1].t = "PUT" /\ Size \in Nat /\ Size # None
          /\ Len(file) \in 0 .. Size /\ pos + Len(file) <= Len(stream)
          /\ file = SubSeq(stream, pos + 1, pos + Len(file))
      BY <2>1, HeadAssumption DEF IInv, Sized, Streamed, Uploading
    <2>3. CASE BodyFails \/ LoseBody
      <3>1. result' = Lost /\ Size > 0
        BY <2>2, <2>3 DEF BodyFails, LoseBody, Finish
      <3> QED
        BY <1>3, <2>2, <3>1, SameHeads DEF Intake!Answers, Size
    <2>4. CASE StoreBody
      <3>1. result' = Store(file) /\ Len(file) = Size
        BY <2>2, <2>4 DEF StoreBody, Finish
      <3>2. file = SubSeq(stream, pos + 1, pos + Size)
        BY <2>2, <3>1
      <3>6. Size \in 0 .. (Len(stream) - pos)
        <4>1. Size \in Nat /\ pos + Size <= Len(stream)
          BY <2>2, <3>1
        <4> QED
          BY <1>1, <1>4, <4>1
      <3>3. Len(rest) = Len(stream) - pos /\ SubSeq(rest, 1, Size) = SubSeq(stream, pos + 1, pos + Size)
        BY <1>1, <1>4, <3>6, FrontOfRest
      <3> HIDE DEF rest
      <3>4. Size <= Len(rest) /\ result' = Store(SubSeq(rest, 1, Size))
        <4>1. Size <= Len(rest)
          BY <1>1, <1>4, <3>3, <3>6
        <4> QED
          BY <3>1, <3>2, <3>3, <4>1
      <3> QED
        BY <1>3, <2>2, <3>4, SameHeads DEF Intake!Answers, Size
    <2> QED
      BY <1>7, <2>3, <2>4
  <1> QED
    BY <1>6, <1>7

\* How a connection ends is decided by the peer's bytes, not by their pieces.
THEOREM Implements == Spec => PiecesDoNotMatter
  <1>1. Init => Intake!Init
    BY DEF Init, Intake!Init
  <1>2. IInv /\ [Next]_vars => [Intake!Finish]_<<stream, result>>
    <2> SUFFICES ASSUME IInv, [Next]_vars PROVE [Intake!Finish]_<<stream, result>>
      OBVIOUS
    <2>1. stream' = stream
      BY DEF Next, Progress, vars, ReadHead, EndOfHead, HeadFails, HeadTooLarge, ParseHead, Dispatch,
             SendContinue, TakePrefix, ReadBody, BodyFails, LoseBody, StoreBody
    <2>2. CASE result' = result
      BY <2>1, <2>2
    <2>3. CASE result' # result
      <3>1. pc' = "done" /\ pc # "done" /\ (EndOfHead \/ HeadFails \/ HeadTooLarge \/ ParseHead
                             \/ Dispatch \/ BodyFails \/ LoseBody \/ StoreBody)
        BY <2>3 DEF Next, Progress, vars, ReadHead, EndOfHead, HeadFails, HeadTooLarge, ParseHead, Dispatch,
             SendContinue, TakePrefix, ReadBody, BodyFails, LoseBody, StoreBody, Finish, Goto, Reading
      <3>2. Intake!Allowed(stream, result')
        BY <3>1, HeadEnds, BodyEnds
      <3>3. result = None
        BY <3>1 DEF IInv
      <3> QED
        BY <2>1, <3>2, <3>3 DEF Intake!Finish
    <2> QED
      BY <2>2, <2>3
  <1> QED
    BY <1>1, <1>2, Inductive, PTL DEF Spec, PiecesDoNotMatter, Intake!Spec
=============================================================================
