----------------------------- MODULE JsonProofs -----------------------------
(***************************************************************************)
(* The JSON builder and its callers, for every nesting limit, first        *)
(* capacity, set of strings and number of calls.                           *)
(*                                                                         *)
(* IInv keeps the builder's memory safe: what it puts fits, its buffer is  *)
(* freed once, and an error is never forgotten; it leaves the elements of  *)
(* the text arbitrary.  Talk says what they are: the reader of a text is   *)
(* always where the caller is in its document, so what goes out is whole,  *)
(* and a string that is a document of its own is the literal emit_string   *)
(* put for it, which reads back as its characters.                         *)
(***************************************************************************)
EXTENDS JsonReplies, SequenceLemmas

-----------------------------------------------------------------------------
(***************************************************************************)
(* The memory of a builder.                                                *)
(***************************************************************************)
\* The json_bufs whose text is made of elements of S.
Bufs(S) == [text : Seq(S), cap : Nat, err : BOOLEAN, depth : 0 .. JB_MAX_DEPTH,
            suppress : BOOLEAN, need : [0 .. JB_MAX_DEPTH -> BOOLEAN]]
IsBuf(x) == \E S : x \in Bufs(S)

\* A builder has a buffer once it has text, and the text and its NUL fit.
Fits(x)   == IF x.cap = 0 THEN x.text = <<>> ELSE x.text # <<>> /\ Len(x.text) < x.cap
OneBuffer == live = IF b.cap > 0 THEN 1 ELSE 0

IInv ==
  /\ IsBuf(b) /\ Fits(b) /\ OneBuffer
  /\ pc = "sent" => Idle /\ b.cap = 0

\* The error latch, from one builder to the next.
Sticks(x, y) == x.err => y.err /\ y.text \in {x.text, <<>>}

-----------------------------------------------------------------------------
\* Append makes a sequence one longer, whatever the element.
LEMMA AppendSeq ==
  ASSUME NEW S, NEW s \in Seq(S), NEW e
  PROVE  /\ s \in Seq(S \cup {e}) /\ Append(s, e) \in Seq(S \cup {e})
         /\ Len(Append(s, e)) = Len(s) + 1 /\ Len(s) \in Nat /\ Append(s, e) # <<>>
  <1>1. s \in Seq(S \cup {e})
    OBVIOUS
  <1>2. Append(s, e) \in Seq(S \cup {e}) /\ Len(Append(s, e)) = Len(s) + 1
    BY <1>1, AppendProperties
  <1>3. Len(s) \in Nat /\ (Append(s, e) = <<>> => Len(Append(s, e)) = 0)
    BY <1>1, LenProperties, EmptySeq
  <1> QED
    BY <1>1, <1>2, <1>3

\* post_value keeps the shape and touches nothing but a nesting flag.
LEMMA MarkedKeeps ==
  ASSUME NEW S, NEW x \in Bufs(S)
  PROVE  /\ Marked(x) \in Bufs(S)
         /\ Marked(x).text = x.text /\ Marked(x).cap = x.cap /\ Marked(x).err = x.err
  <1>1. CASE x.depth > 0
    BY <1>1 DEF Marked, Bufs
  <1>2. CASE ~(x.depth > 0)
    BY <1>2 DEF Marked
  <1> QED
    BY <1>1, <1>2

\* pop keeps the shape and touches nothing but the depth.
LEMMA PoppedKeeps ==
  ASSUME NEW S, NEW x \in Bufs(S)
  PROVE  /\ Popped(x) \in Bufs(S)
         /\ Popped(x).text = x.text /\ Popped(x).cap = x.cap /\ Popped(x).err = x.err
  <1>1. CASE x.depth > 0
    <2>1. x.depth - 1 \in 0 .. JB_MAX_DEPTH
      BY <1>1, BuilderAssumption DEF Bufs
    <2>2. ASSUME NEW d \in 0 .. JB_MAX_DEPTH, Popped(x) = [x EXCEPT !.depth = d]
          PROVE  /\ Popped(x) \in Bufs(S) /\ Popped(x).text = x.text
                 /\ Popped(x).cap = x.cap /\ Popped(x).err = x.err
      BY <2>2 DEF Bufs
    <2> QED
      BY <1>1, <2>1, <2>2 DEF Popped
  <1>2. CASE ~(x.depth > 0)
    BY <1>2 DEF Popped
  <1> QED
    BY <1>1, <1>2

\* The bookkeeping at the end of a call keeps the shape, the text and the
\* buffer, and never clears the latch (push, pop and post).
LEMMA SettledKeeps ==
  ASSUME NEW S, NEW x \in Bufs(S)
  PROVE  /\ Settled(x) \in Bufs(S)
         /\ Settled(x).text = x.text /\ Settled(x).cap = x.cap
         /\ x.err => Settled(x).err
  <1>1. CASE after = "push"
    <2>1. CASE x.depth >= JB_MAX_DEPTH
      BY <1>1, <2>1 DEF Settled, Bufs
    <2>2. CASE ~(x.depth >= JB_MAX_DEPTH)
      <3>1. x.depth + 1 \in 0 .. JB_MAX_DEPTH
        BY <2>2, BuilderAssumption DEF Bufs
      <3>2. [x.need EXCEPT ![x.depth + 1] = FALSE] \in [0 .. JB_MAX_DEPTH -> BOOLEAN]
        BY DEF Bufs
      <3>3. Settled(x) = [x EXCEPT !.depth = x.depth + 1,
                                   !.need = [x.need EXCEPT ![x.depth + 1] = FALSE]]
        BY <1>1, <2>2 DEF Settled
      <3>4. ASSUME NEW d \in 0 .. JB_MAX_DEPTH, NEW n \in [0 .. JB_MAX_DEPTH -> BOOLEAN],
                   Settled(x) = [x EXCEPT !.depth = d, !.need = n]
            PROVE  /\ Settled(x) \in Bufs(S) /\ Settled(x).text = x.text
                   /\ Settled(x).cap = x.cap /\ Settled(x).err = x.err
        BY <3>4 DEF Bufs
      <3> QED
        BY <3>1, <3>2, <3>3, <3>4
    <2> QED
      BY <2>1, <2>2
  <1>2. CASE after = "pop"
    BY <1>2, MarkedKeeps, PoppedKeeps DEF Settled
  <1>3. CASE after = "post"
    BY <1>3, MarkedKeeps DEF Settled
  <1>4. CASE after \notin {"push", "pop", "post"}
    BY <1>4 DEF Settled, Bufs
  <1> QED
    BY <1>1, <1>2, <1>3, <1>4

\* One step of a call: the growth, or its failure, and the element.
LEMMA PutKeeps ==
  ASSUME IsBuf(b), Fits(b), OneBuffer, Put
  PROVE  IsBuf(b') /\ Fits(b') /\ OneBuffer' /\ Sticks(b, b')
  <1>0. PICK T : b \in Bufs(T)
    BY DEF IsBuf
  <1> DEFINE h == Head(todo)
             S == T \cup {h}
             put == [b EXCEPT !.text = Append(@, h)]
             end(x) == IF Len(todo) = 1 THEN Settled(x) ELSE x
  <1>1. /\ b.text \in Seq(S) /\ Append(b.text, h) \in Seq(S)
        /\ Len(Append(b.text, h)) = Len(b.text) + 1 /\ Len(b.text) \in Nat
        /\ Append(b.text, h) # <<>>
    <2>1. b.text \in Seq(T)
      BY <1>0 DEF Bufs
    <2> QED
      BY <2>1, AppendSeq
  <1> HIDE DEF h, S
  <1>2. /\ b \in Bufs(S) /\ put \in Bufs(S) /\ put.cap = b.cap /\ put.err = b.err
        /\ Len(put.text) = Len(b.text) + 1 /\ put.text # <<>>
    BY <1>0, <1>1 DEF Bufs
  <1> HIDE DEF put
  <1>3. ASSUME NEW x \in Bufs(S), Fits(x)
        PROVE  /\ IsBuf(end(x)) /\ Fits(end(x)) /\ end(x).cap = x.cap
               /\ x.err => end(x).err
               /\ end(x).text = x.text
    BY <1>3, SettledKeeps DEF Fits, IsBuf
  <1>4. ASSUME b.err, b' = end(b), UNCHANGED live
        PROVE  IsBuf(b') /\ Fits(b') /\ OneBuffer' /\ Sticks(b, b')
    <2> HIDE DEF end
    <2> QED
      BY <1>2, <1>3, <1>4 DEF OneBuffer, Sticks
  <1>5. ASSUME ~b.err, ~Needs, b' = end(put), UNCHANGED live
        PROVE  IsBuf(b') /\ Fits(b') /\ OneBuffer' /\ Sticks(b, b')
    <2>1. b.cap > 0 /\ Fits(put)
      BY <1>1, <1>2, <1>5 DEF Needs, Fits, Bufs
    <2> HIDE DEF end
    <2> QED
      BY <1>2, <1>3, <1>5, <2>1 DEF OneBuffer, Sticks
  <1>6. ASSUME ~b.err, Needs, b' = end([put EXCEPT !.cap = Grown]),
               live' = IF b.cap = 0 THEN live + 1 ELSE live
        PROVE  IsBuf(b') /\ Fits(b') /\ OneBuffer' /\ Sticks(b, b')
    <2> DEFINE g == [put EXCEPT !.cap = Grown]
    <2>1. Grown \in Nat /\ Grown > Len(b.text) + 1
      <3>1. CASE b.cap = 0
        BY <3>1, BuilderAssumption, EmptySeq DEF Grown, Fits
      <3>2. CASE b.cap # 0
        BY <1>0, <1>1, <3>2 DEF Grown, Fits, Bufs
      <3> QED
        BY <3>1, <3>2
    <2>2. g \in Bufs(S) /\ Fits(g) /\ g.cap = Grown /\ Grown > 0
      BY <1>1, <1>2, <2>1 DEF Bufs, Fits
    <2> HIDE DEF end, g
    <2>3. b' = end(g)
      BY <1>6 DEF g
    <2>4. IsBuf(b') /\ Fits(b') /\ b'.cap = Grown
      BY <1>3, <2>2, <2>3
    <2>5. b.cap \in Nat
      BY <1>0 DEF Bufs
    <2> QED
      BY <1>6, <2>2, <2>4, <2>5 DEF OneBuffer, Sticks
  <1>7. ASSUME ~b.err, Needs, b' = end([b EXCEPT !.err = TRUE]), UNCHANGED live
        PROVE  IsBuf(b') /\ Fits(b') /\ OneBuffer' /\ Sticks(b, b')
    <2> DEFINE e == [b EXCEPT !.err = TRUE]
    <2>1. e \in Bufs(S) /\ Fits(e) /\ e.cap = b.cap
      BY <1>2 DEF Bufs, Fits
    <2> HIDE DEF end
    <2> QED
      BY <1>3, <1>7, <2>1 DEF OneBuffer, Sticks
  <1> QED
    BY <1>4, <1>5, <1>6, <1>7 DEF Put, h, put

-----------------------------------------------------------------------------
\* A builder started from nothing has the shape of one, and no buffer.
LEMMA FreshBuf == IsBuf(Fresh) /\ Fits(Fresh) /\ Fresh.cap = 0
  <1>1. Fresh \in Bufs({})
    BY EmptySeq, BuilderAssumption DEF Fresh, Bufs
  <1> QED
    BY <1>1 DEF Fresh, IsBuf, Fits

\* The buffer handed over or freed leaves an empty builder.
LEMMA EmptiedBuf ==
  ASSUME IsBuf(b), b' = [b EXCEPT !.text = <<>>, !.cap = 0]
  PROVE  IsBuf(b') /\ Fits(b') /\ b'.cap = 0 /\ b'.text = <<>> /\ b'.err = b.err
  <1>1. PICK S : b \in Bufs(S)
    BY DEF IsBuf
  <1>2. b' \in Bufs(S) /\ b'.cap = 0 /\ b'.text = <<>> /\ b'.err = b.err
    BY <1>1, EmptySeq DEF Bufs
  <1> QED
    BY <1>2 DEF IsBuf, Fits

\* A call that starts puts nothing yet: at most jb_key's suppression is over.
LEMMA StartedBuf ==
  ASSUME IsBuf(b), Fits(b), b' = b \/ b' = [b EXCEPT !.suppress = FALSE]
  PROVE  IsBuf(b') /\ Fits(b') /\ b'.cap = b.cap /\ b'.text = b.text /\ b'.err = b.err
  <1>1. PICK S : b \in Bufs(S)
    BY DEF IsBuf
  <1>2. b' \in Bufs(S) /\ b'.cap = b.cap /\ b'.text = b.text /\ b'.err = b.err
    BY <1>1 DEF Bufs
  <1> QED
    BY <1>2 DEF IsBuf, Fits

\* The builder starts empty.
LEMMA InitIInv == Init => IInv
  BY FreshBuf DEF Init, IInv, OneBuffer, Idle

\* Every call, and every end of a document, keeps IInv and the latch.
LEMMA NextIInv == IInv /\ [Next]_vars => IInv' /\ (b' # Fresh => Sticks(b, b'))
  <1> SUFFICES ASSUME IInv, [Next]_vars
               PROVE  IInv' /\ (b' # Fresh => Sticks(b, b'))
    OBVIOUS
  <1>0. IsBuf(b) /\ Fits(b) /\ OneBuffer /\ b.cap \in Nat
    BY DEF IInv, IsBuf, Bufs
  <1>1. CASE Step
    <2>1. pc # "sent" /\ pc' = pc
      BY <1>1 DEF Step, jvars, Put, IInv
    <2>2. IsBuf(b') /\ Fits(b') /\ OneBuffer' /\ Sticks(b, b')
      BY <1>0, <1>1, PutKeeps DEF Step
    <2> QED
      BY <2>1, <2>2 DEF IInv
  <1>2. ASSUME pc = "build", pc' = pc, UNCHANGED live,
               b' = b \/ b' = [b EXCEPT !.suppress = FALSE]
        PROVE  IInv' /\ (b' # Fresh => Sticks(b, b'))
    BY <1>0, <1>2, StartedBuf DEF IInv, OneBuffer, Sticks
  <1>3. CASE PutValue
    BY <1>2, <1>3 DEF PutValue, Counted, Building, Value, Say
  <1>4. CASE OpenContainer
    BY <1>2, <1>4 DEF OpenContainer, Counted, Building, Value, Say
  <1>5. CASE PutKey
    BY <1>2, <1>5 DEF PutKey, Counted, Building, jb_key, Say
  <1>6. CASE CloseContainer
    BY <1>2, <1>6 DEF CloseContainer, Building, Close, Say
  <1>7. CASE SendDocument
    <2>1. Idle' /\ b.cap > 0
      BY <1>0, <1>7 DEF SendDocument, Complete, Building, Idle, Taken, Fits
    <2>2. b' = [b EXCEPT !.text = <<>>, !.cap = 0] /\ live' = live - 1
      BY <1>7 DEF SendDocument
    <2> QED
      BY <1>0, <2>1, <2>2, EmptiedBuf DEF IInv, OneBuffer, Sticks
  <1>8. CASE SendFallback
    <2>1. Idle'
      BY <1>8 DEF SendFallback, Complete, Building, Idle, jb_take
    <2>2. b.cap > 0 => b.err
      BY <1>0, <1>8 DEF SendFallback, Taken, Fits
    <2>3. b' = [b EXCEPT !.text = <<>>, !.cap = 0]
          /\ live' = IF b.err /\ b.cap > 0 THEN live - 1 ELSE live
      BY <1>8 DEF SendFallback, jb_take
    <2> QED
      BY <1>0, <2>1, <2>2, <2>3, EmptiedBuf DEF IInv, OneBuffer, Sticks
  <1>9. CASE ReportFailure
    <2>1. b' = Fresh /\ live' = (IF b.cap > 0 THEN live - 1 ELSE live) /\ pc' = pc /\ pc = "build"
      BY <1>9 DEF ReportFailure, Complete, Building
    <2> QED
      BY <1>0, <2>1, FreshBuf DEF IInv, OneBuffer
  <1>10. CASE UNCHANGED vars
    BY <1>0, <1>10 DEF vars, bvars, jvars, IInv, OneBuffer, Idle, Sticks
  <1> QED
    BY <1>1, <1>3, <1>4, <1>5, <1>6, <1>7, <1>8, <1>9, <1>10 DEF Next

\* IInv holds in every reachable state.
LEMMA IInvAlways == Spec => []IInv
  BY InitIInv, NextIInv, PTL DEF Spec

-----------------------------------------------------------------------------
\* What is put always fits the buffer with its NUL, and the nesting flags stay
\* inside their array (jb_reserve, push and pop).
THEOREM BufferIsEnough == Spec => []BufferFits
  <1>1. IInv => BufferFits
    BY DEF IInv, IsBuf, Bufs, Fits, BufferFits
  <1> QED
    BY <1>1, IInvAlways, PTL

\* A buffer is allocated exactly while the builder holds one, and none is left
\* when the reply is out (jb_take and the callers' error paths).
THEOREM BuffersAreFreed == Spec => []NoLeak
  <1>1. IInv => NoLeak
    BY DEF IInv, OneBuffer, NoLeak
  <1> QED
    BY <1>1, IInvAlways, PTL

\* After a call that failed nothing is put until a builder is started anew.
THEOREM ErrorIsKept == Spec => ErrSticks
  <1>1. IInv /\ [Next]_vars => [b.err /\ b' # Fresh => b'.err /\ b'.text \in {b.text, <<>>}]_vars
    BY NextIInv DEF Sticks
  <1> QED
    BY <1>1, IInvAlways, PTL DEF Spec, ErrSticks

-----------------------------------------------------------------------------
(***************************************************************************)
(* The reader of a text, element by element.                               *)
(***************************************************************************)
\* What the reader may be: where it is, the containers around it, what it has read.
Ats == {"value", "first", "name", "text", "colon", "member", "key", "next", "end", "error"}
Readers == [at : Ats, nest : Seq({Obj, Arr}), said : Seq(Element)]

Went(r, x, at, nest) == [at |-> at, nest |-> nest, said |-> Append(r.said, x)]
EndOf(nest) == IF nest = <<>> THEN "end" ELSE "next"

\* What the reader does with an element, case by case.
LEMMA ReadCases ==
  ASSUME NEW r, NEW x
  PROVE  /\ r.at = "name" /\ x = Quote => Read(r, x) = Went(r, x, "colon", r.nest)
         /\ r.at = "text" /\ x = Quote => Read(r, x) = Went(r, x, EndOf(r.nest), r.nest)
         /\ r.at \in {"name", "text"} /\ x >= 32 /\ x \notin {Quote, 92} => Read(r, x) = Went(r, x, r.at, r.nest)
         /\ r.at \in {"value", "first"} /\ x = Quote => Read(r, x) = Went(r, x, "text", r.nest)
         /\ r.at \in {"value", "first"} /\ x = Word => Read(r, x) = Went(r, x, EndOf(r.nest), r.nest)
         /\ r.at \in {"value", "first"} /\ x = Obj => Read(r, x) = Went(r, x, "member", Append(r.nest, Obj))
         /\ r.at \in {"value", "first"} /\ x = Arr => Read(r, x) = Went(r, x, "first", Append(r.nest, Arr))
         /\ r.at \in {"member", "key"} /\ x = Quote => Read(r, x) = Went(r, x, "name", r.nest)
         /\ r.at = "colon" /\ x = Colon => Read(r, x) = [r EXCEPT !.at = "value"]
         /\ r.at = "next" /\ x = Comma
              => Read(r, x) = [r EXCEPT !.at = IF r.nest # <<>> /\ Last(r.nest) = Obj THEN "key" ELSE "value"]
         /\ r.at \in {"member", "next"} /\ x = Closing(Obj) /\ r.nest # <<>> /\ Last(r.nest) = Obj
              => Read(r, x) = Went(r, x, EndOf(Front(r.nest)), Front(r.nest))
         /\ r.at \in {"first", "next"} /\ x = Closing(Arr) /\ r.nest # <<>> /\ Last(r.nest) = Arr
              => Read(r, x) = Went(r, x, EndOf(Front(r.nest)), Front(r.nest))
  <1> DEFINE Out(n) == [at |-> EndOf(n), nest |-> n, said |-> Append(r.said, x)]
  <1> USE DEF Quote, Word, Obj, Arr, Colon, Comma, Closing, Went
  <1>1. r.at = "name" /\ x = Quote => Read(r, x) = Went(r, x, "colon", r.nest)
    BY DEF Read
  <1>2. r.at = "text" /\ x = Quote => Read(r, x) = Went(r, x, EndOf(r.nest), r.nest)
    BY DEF Read, EndOf
  <1>3. r.at \in {"name", "text"} /\ x >= 32 /\ x \notin {Quote, 92} => Read(r, x) = Went(r, x, r.at, r.nest)
    BY DEF Read
  <1>4. r.at \in {"value", "first"} /\ x = Quote => Read(r, x) = Went(r, x, "text", r.nest)
    BY DEF Read
  <1>5. r.at \in {"value", "first"} /\ x = Word => Read(r, x) = Went(r, x, EndOf(r.nest), r.nest)
    BY DEF Read, EndOf
  <1>6. r.at \in {"value", "first"} /\ x = Obj => Read(r, x) = Went(r, x, "member", Append(r.nest, Obj))
    BY DEF Read
  <1>7. r.at \in {"value", "first"} /\ x = Arr => Read(r, x) = Went(r, x, "first", Append(r.nest, Arr))
    BY DEF Read
  <1>8. r.at \in {"member", "key"} /\ x = Quote => Read(r, x) = Went(r, x, "name", r.nest)
    BY DEF Read
  <1>9. r.at = "colon" /\ x = Colon => Read(r, x) = [r EXCEPT !.at = "value"]
    BY DEF Read
  <1>10. r.at = "next" /\ x = Comma
           => Read(r, x) = [r EXCEPT !.at = IF r.nest # <<>> /\ Last(r.nest) = Obj THEN "key" ELSE "value"]
    BY DEF Read
  <1>11. r.at \in {"member", "next"} /\ x = Closing(Obj) /\ r.nest # <<>> /\ Last(r.nest) = Obj
           => Read(r, x) = Went(r, x, EndOf(Front(r.nest)), Front(r.nest))
    BY DEF Read, EndOf
  <1>12. r.at \in {"first", "next"} /\ x = Closing(Arr) /\ r.nest # <<>> /\ Last(r.nest) = Arr
           => Read(r, x) = Went(r, x, EndOf(Front(r.nest)), Front(r.nest))
    BY DEF Read, EndOf
  <1> QED
    BY <1>1, <1>2, <1>3, <1>4, <1>5, <1>6, <1>7, <1>8, <1>9, <1>10, <1>11, <1>12, Zenon

\* The reader stays one, whatever it reads.
LEMMA ReadType ==
  ASSUME NEW r \in Readers, NEW x \in Element
  PROVE  Read(r, x) \in Readers
  <1> DEFINE Nests == Seq({Obj, Arr})
             Saids == Seq(Element)
             y == Append(r.said, x)
  <1>1. r.nest \in Nests /\ r.said \in Saids /\ r.at \in Ats
    BY DEF Readers
  <1>2. y \in Saids
    BY <1>1, AppendProperties
  <1>3. Append(r.nest, Obj) \in Nests /\ Append(r.nest, Arr) \in Nests
    BY <1>1, AppendProperties
  <1>4. r.nest # <<>> => Front(r.nest) \in Nests
    BY <1>1, FrontIn
  <1> HIDE DEF Nests, Saids, y
  <1>5. \A at \in Ats, n \in Nests : Went(r, x, at, n) \in Readers
    BY <1>2 DEF Readers, Nests, Saids, Went, y
  <1>6. \A at \in Ats : [r EXCEPT !.at = at] \in Readers
    BY DEF Readers
  <1>7. \A n : EndOf(n) \in Ats
    BY DEF EndOf, Ats
  <1>8. (IF r.nest # <<>> /\ Last(r.nest) = Obj THEN "key" ELSE "value") \in Ats
    BY DEF Ats
  <1>9. {"colon", "text", "member", "first", "name", "value", "error"} \subseteq Ats
    BY DEF Ats
  <1>10. x \in Int
    BY DEF Element
  <1> DEFINE y10 == IF r.nest # <<>> /\ Last(r.nest) = Obj THEN "key" ELSE "value"
  <1> HIDE DEF Readers, y10
  <1>11. CASE \/ r.at = "name" /\ x = Quote
              \/ r.at = "text" /\ x = Quote
              \/ r.at \in {"name", "text"} /\ x >= 32 /\ x \notin {Quote, 92}
    BY <1>1, <1>5, <1>7, <1>9, <1>11, ReadCases
  <1>12. CASE r.at \in {"value", "first"} /\ x \in {Quote, Word, Obj, Arr}
    BY <1>1, <1>3, <1>5, <1>7, <1>9, <1>12, ReadCases
  <1>13. CASE \/ r.at \in {"member", "key"} /\ x = Quote
              \/ r.at = "colon" /\ x = Colon
    BY <1>1, <1>5, <1>6, <1>9, <1>13, ReadCases
  <1>14. CASE r.at = "next" /\ x = Comma
    <2>1. Read(r, x) = [r EXCEPT !.at = y10]
      BY <1>14, ReadCases DEF y10
    <2> QED
      BY <1>6, <1>8, <2>1 DEF y10
  <1>15. CASE \/ r.at \in {"member", "next"} /\ x = Closing(Obj) /\ r.nest # <<>> /\ Last(r.nest) = Obj
              \/ r.at \in {"first", "next"} /\ x = Closing(Arr) /\ r.nest # <<>> /\ Last(r.nest) = Arr
    BY <1>1, <1>4, <1>5, <1>7, <1>15, ReadCases
  <1>16. CASE ~ (\/ r.at = "name" /\ x = Quote
                 \/ r.at = "text" /\ x = Quote
                 \/ r.at \in {"name", "text"} /\ x >= 32 /\ x \notin {Quote, 92}
                 \/ r.at \in {"value", "first"} /\ x \in {Quote, Word, Obj, Arr}
                 \/ r.at \in {"member", "key"} /\ x = Quote
                 \/ r.at = "colon" /\ x = Colon
                 \/ r.at = "next" /\ x = Comma
                 \/ r.at \in {"member", "next"} /\ x = Closing(Obj) /\ r.nest # <<>> /\ Last(r.nest) = Obj
                 \/ r.at \in {"first", "next"} /\ x = Closing(Arr) /\ r.nest # <<>> /\ Last(r.nest) = Arr)
    <2>0. /\ ~ (r.at = "name" /\ x = Quote) /\ ~ (r.at = "text" /\ x = Quote)
          /\ ~ (r.at \in {"name", "text"} /\ x >= 32 /\ x \notin {Quote, 92})
          /\ ~ (r.at \in {"value", "first"} /\ x = Quote) /\ ~ (r.at \in {"value", "first"} /\ x = Word)
          /\ ~ (r.at \in {"value", "first"} /\ x = Obj) /\ ~ (r.at \in {"value", "first"} /\ x = Arr)
          /\ ~ (r.at \in {"member", "key"} /\ x = Quote) /\ ~ (r.at = "colon" /\ x = Colon)
          /\ ~ (r.at = "next" /\ x = Comma)
          /\ ~ (r.at \in {"member", "next"} /\ x = Closing(Obj) /\ r.nest # <<>> /\ Last(r.nest) = Obj)
          /\ ~ (r.at \in {"first", "next"} /\ x = Closing(Arr) /\ r.nest # <<>> /\ Last(r.nest) = Arr)
      BY <1>16
    <2>1. Read(r, x) = Went(r, x, "error", r.nest)
      BY <2>0 DEF Read, Went
    <2> QED
      BY <1>1, <1>5, <1>9, <2>1
  <1> QED
    BY <1>11, <1>12, <1>13, <1>14, <1>15, <1>16

\* g holds what the reader is after 0 .. Len(t) elements of t.
Reads(t, g) ==
  /\ g \in [0 .. Len(t) -> Readers] /\ g[0] = Unread
  /\ \A n \in 1 .. Len(t) : g[n] = Read(g[n - 1], t[n])

\* Reading goes through a text element by element.
LEMMA ReadingDef ==
  ASSUME NEW t \in Seq(Element)
  PROVE  \E g : Reads(t, g) /\ Reading(t) = g[Len(t)]
  <1> DEFINE N == Len(t)
             X == Readers
             F == [n \in 1 .. N |-> [r \in X |-> Read(r, t[n])]]
             base == Unread
  <1>1. N \in Nat
    BY LenProperties
  <1>1a. base \in X
    BY EmptySeq DEF Unread, Readers, Ats
  <1>2. F \in [1 .. N -> [X -> X]]
    <2>1. \A n \in 1 .. N : t[n] \in Element
      BY ElementOfSeq
    <2> HIDE DEF X, N
    <2>2. \A n \in 1 .. N : \A r \in X : Read(r, t[n]) \in X
      BY <2>1, ReadType DEF X
    <2> QED
      BY <2>2
  <1>3. \A r \in X, n \in 1 .. N : F[n][r] = Read(r, t[n])
    OBVIOUS
  <1> HIDE DEF F, X, N, base
  <1>3a. PICK f : Iterates(N, X, base, F, f)
    BY <1>1, <1>1a, <1>2, Iteration, Zenon
  <1>4. f \in [0 .. N -> X] /\ f[0] = base /\ \A n \in 1 .. N : f[n] = F[n][f[n - 1]]
    BY <1>3a DEF Iterates
  <1>5. \A n \in 1 .. N : n \in 0 .. N /\ n - 1 \in 0 .. N /\ n # 0
    BY <1>1
  <1>6. \A n \in 1 .. N : f[n] = Read(f[n - 1], t[n])
    BY <1>3, <1>4, <1>5
  <1> DEFINE Step0(g, n) == IF n = 0 THEN Unread ELSE Read(g[n - 1], t[n])
             upto == CHOOSE upto : upto = [n \in 0 .. Len(t) |-> Step0(upto, n)]
  <1>7. Reading(t) = upto[Len(t)]
    BY DEF Reading
  <1>8. \A n \in 1 .. N : \A g : Step0(g, n) = Read(g[n - 1], t[n])
    BY <1>5
  <1>9. \A g : Step0(g, 0) = base
    BY DEF base
  <1> HIDE DEF Step0
  <1>10. f = [n \in 0 .. N |-> Step0(f, n)]
    <2>1. ASSUME NEW n \in 0 .. N PROVE f[n] = Step0(f, n)
      <3>1. CASE n = 0
        BY <1>4, <1>9, <3>1
      <3>2. CASE n # 0
        BY <1>1, <1>6, <1>8, <3>2
      <3> QED
        BY <3>1, <3>2
    <2> QED
      BY <1>4, <2>1
  <1>11. upto = [n \in 0 .. N |-> Step0(upto, n)]
    BY <1>10 DEF N
  <1> HIDE DEF upto
  <1>12. Follows(N, X, base, F, upto)
    <2>1. upto[0] = base
      <3>1. 0 \in 0 .. N
        BY <1>1
      <3> QED
        BY <1>9, <1>11, <3>1
    <2>2. ASSUME NEW n \in 1 .. N, upto[n - 1] \in X PROVE upto[n] = F[n][upto[n - 1]]
      <3>1. upto[n] = Step0(upto, n)
        BY <1>5, <1>11
      <3> QED
        BY <1>3, <1>8, <2>2, <3>1
    <2> QED
      BY <2>1, <2>2 DEF Follows
  <1>13. \A n \in 0 .. N : upto[n] = f[n]
    BY <1>1, <1>3a, <1>12, IterationUnique
  <1>14. N \in 0 .. N
    BY <1>1
  <1>15. Reading(t) = f[N]
    BY <1>7, <1>13, <1>14 DEF N
  <1>16. Reads(t, f)
    BY <1>4, <1>6 DEF Reads, N, X, base
  <1> QED
    BY <1>15, <1>16 DEF N

\* Two texts that begin alike are read alike.
LEMMA ReadsAgree ==
  ASSUME NEW t, NEW u, NEW f, NEW g, Reads(t, f), Reads(u, g), NEW m \in Nat,
         m <= Len(t), m <= Len(u), Len(t) \in Nat, Len(u) \in Nat, \A i \in 1 .. m : t[i] = u[i]
  PROVE  \A k \in 0 .. m : f[k] = g[k]
  <1> DEFINE T == {k \in Nat : k <= m => f[k] = g[k]}
  <1>1. 0 \in T
    BY DEF Reads
  <1>2. ASSUME NEW k \in Nat, k \in T PROVE k + 1 \in T
    <2>1. CASE k + 1 <= m
      <3>1. k + 1 \in 1 .. m /\ k + 1 \in 1 .. Len(t) /\ k + 1 \in 1 .. Len(u) /\ (k + 1) - 1 = k /\ k <= m
        BY <2>1
      <3> QED
        BY <1>2, <3>1 DEF Reads
    <2> QED
      BY <2>1
  <1> HIDE DEF T
  <1>3. Nat \subseteq T
    BY <1>1, <1>2, SetInduction
  <1> QED
    BY <1>3 DEF T

\* One more element of a text is one more step of the reader.
LEMMA ReadingAppend ==
  ASSUME NEW t \in Seq(Element), NEW x \in Element
  PROVE  Reading(t) \in Readers /\ Reading(Append(t, x)) = Read(Reading(t), x)
  <1> DEFINE u == Append(t, x)
             n == Len(t)
  <1>1. u \in Seq(Element) /\ Len(u) = Len(t) + 1 /\ u[Len(t) + 1] = x /\ \A i \in 1 .. Len(t) : u[i] = t[i]
    BY AppendProperties
  <1>2. Len(t) \in Nat
    BY LenProperties
  <1> HIDE DEF u, n
  <1>3. PICK f : Reads(t, f) /\ Reading(t) = f[Len(t)]
    BY ReadingDef
  <1>4. PICK g : Reads(u, g) /\ Reading(u) = g[Len(u)]
    BY <1>1, ReadingDef
  <1>5. n \in Nat /\ Len(t) = n /\ Len(u) = n + 1
    BY <1>1, <1>2 DEF n
  <1>6. n <= n + 1 /\ n <= n /\ n + 1 \in Nat
    BY <1>5
  <1>7. \A k \in 0 .. n : g[k] = f[k]
    BY <1>1, <1>3, <1>4, <1>5, <1>6, ReadsAgree
  <1>8. n \in 0 .. n /\ n + 1 \in 1 .. n + 1 /\ (n + 1) - 1 = n
    BY <1>5
  <1>9. g[n + 1] = Read(g[n], x)
    BY <1>1, <1>4, <1>5, <1>8 DEF Reads
  <1>10. f[n] \in Readers
    BY <1>3, <1>5, <1>8 DEF Reads
  <1> QED
    BY <1>3, <1>4, <1>5, <1>7, <1>8, <1>9, <1>10 DEF u

-----------------------------------------------------------------------------
(***************************************************************************)
(* What emit_string puts for a string, from its end: between its quotes a  *)
(* literal holds no quote, no backslash and no control character, so the   *)
(* reader goes through it.                                                 *)
(***************************************************************************)
\* Bytes are elements, and so are their escapes.
LEMMA ByteIs ==
  \A c \in Byte : c \in Int /\ c \in Nat /\ c \in 1 .. 255 /\ c \in Element /\ Escape(c) \in Element
  <1>1. SUFFICES ASSUME NEW c \in Byte
                 PROVE  c \in Int /\ c \in Nat /\ c \in 1 .. 255 /\ c \in Element /\ Escape(c) \in Element
    OBVIOUS
  <1>2. c \in Int /\ 1 <= c /\ c <= 255
    BY SMT DEF Byte
  <1> DEFINE e == 1000 + c
             m == 1000 + (64 * 1024 - 3)
  <1>3. 0 <= c /\ c <= m /\ e \in Int /\ 0 <= e /\ e <= m /\ m \in Int
    BY <1>2, SMT
  <1>4. Escape(c) = e /\ Element = 0 .. m
    BY SMT DEF Element, Escape, Unknown
  <1> HIDE DEF e, m
  <1>4a. c \in 0 .. m /\ e \in 0 .. m
    BY <1>2, <1>3, SMT
  <1>5. c \in Nat /\ c \in 1 .. 255
    BY <1>2, SMT
  <1> QED
    BY <1>2, <1>4, <1>4a, <1>5, SMT

\* So is the escape of the character that stands for what is none.
LEMMA BadIs == Escape(Unknown) \in Element
  BY SMT DEF Escape, Element, Unknown

\* Where there is a UTF-8 character, it lies within the string, and its bytes
\* after the first are continuation bytes; an ASCII byte is one of its own.
LEMMA SeqLenIs ==
  ASSUME NEW s \in Seq(Byte), NEW i \in 1 .. Len(s)
  PROVE  LET n == utf8_seq_len(s, i)
         IN  /\ n \in 0 .. 4 /\ s[i] \in Byte
             /\ n > 0 => i + n - 1 <= Len(s) /\ \A j \in i + 1 .. i + n - 1 : s[j] \in 128 .. 191
             /\ n > 1 => s[i] \in 194 .. 244
             /\ s[i] < 128 <=> n = 1
  <1> DEFINE c == s[i]
             n == IF c < 128 THEN 1 ELSE IF c \in 194 .. 223 THEN 2
                  ELSE IF c \in 224 .. 239 THEN 3 ELSE IF c \in 240 .. 244 THEN 4 ELSE 0
             m == utf8_seq_len(s, i)
  <1>0. Len(s) \in Nat /\ c \in Byte
    BY LenProperties, ElementOfSeq
  <1>1. Len(s) \in Nat /\ c \in Byte /\ i \in Nat /\ c \in Int
    BY <1>0, ByteIs
  <1>2. c < 128 => m = 1
    BY <1>1 DEF utf8_seq_len, Byte
  <1>3. m = 0 \/ (m = n /\ \A k \in 1 .. n - 1 : Cont(s, i + k))
    BY DEF utf8_seq_len
  <1>4. n \in 0 .. 4 /\ (n = 1 <=> c < 128) /\ (n > 1 => c \in 194 .. 244)
    BY <1>1
  <1> HIDE DEF n, m
  <1>5. \A j : Cont(s, j) => j \in 1 .. Len(s) /\ s[j] \in 128 .. 191
    BY DEF Cont, At
  <1>6. ASSUME m > 0
        PROVE  i + m - 1 <= Len(s) /\ \A j \in i + 1 .. i + m - 1 : s[j] \in 128 .. 191
    <2>1. m = n /\ \A k \in 1 .. m - 1 : i + k \in 1 .. Len(s) /\ s[i + k] \in 128 .. 191
      BY <1>3, <1>5, <1>6
    <2>2. ASSUME NEW j \in i + 1 .. i + m - 1 PROVE s[j] \in 128 .. 191
      <3>1. j - i \in 1 .. m - 1 /\ i + (j - i) = j
        BY <1>1, <1>4, <2>1
      <3> QED
        BY <2>1, <3>1
    <2>3. i + m - 1 <= Len(s)
      <3>1. CASE m = 1
        BY <1>1, <3>1
      <3>2. CASE m > 1
        <4>1. m - 1 \in 1 .. m - 1
          BY <1>4, <2>1, <3>2
        <4>2. i + (m - 1) \in 1 .. Len(s)
          BY <2>1, <4>1
        <4> QED
          BY <1>1, <1>4, <2>1, <4>2
      <3> QED
        BY <1>4, <1>6, <2>1, <3>1, <3>2
    <2> QED
      BY <2>2, <2>3
  <1>7. m \in 0 .. 4 /\ (c < 128 <=> m = 1) /\ (m > 1 => c \in 194 .. 244)
    BY <1>2, <1>3, <1>4
  <1> QED
    BY <1>1, <1>6, <1>7 DEF m

\* What emit_string puts from the byte i of s on, if f is what it puts further on.
EmitAt(s, f, i) ==
  IF s[i] < 32 \/ s[i] = Quote \/ s[i] = 92 THEN <<Escape(s[i])>> \o f[i + 1]
  ELSE IF utf8_seq_len(s, i) = 0 THEN <<Escape(Unknown)>> \o f[i + 1]
  ELSE SubSeq(s, i, i + utf8_seq_len(s, i) - 1) \o f[i + utf8_seq_len(s, i)]

Emits(s, f) ==
  /\ f \in [1 .. Len(s) + 1 -> Seq(Element)] /\ f[Len(s) + 1] = <<Quote>>
  /\ \A i \in 1 .. Len(s) : f[i] = EmitAt(s, f, i)

\* A piece of the string, as elements.
LEMMA PieceType ==
  ASSUME NEW s \in Seq(Byte), NEW i \in 1 .. Len(s), utf8_seq_len(s, i) # 0
  PROVE  LET n == utf8_seq_len(s, i)
             p == SubSeq(s, i, i + n - 1)
         IN  /\ n \in 1 .. 4 /\ i + n \in i + 1 .. Len(s) + 1 /\ p \in Seq(Element) /\ Len(p) = n
             /\ \A k \in 1 .. n : p[k] = s[i + k - 1] /\ s[i + k - 1] \in Byte
  <1> DEFINE n == utf8_seq_len(s, i)
             p == SubSeq(s, i, i + n - 1)
             e == i + n - 1
             N == Len(s)
  <1>1. n \in 1 .. 4 /\ e <= N
    BY SeqLenIs
  <1>2. Len(s) \in Nat
    BY LenProperties
  <1> HIDE DEF n
  <1>3. e \in Int /\ i \in Int /\ i + n \in i + 1 .. N + 1 /\ i <= e /\ e - i + 1 = n
        /\ \A j \in i .. e : j \in 1 .. N
    BY <1>1, <1>2
  <1>4. \A j \in i .. e : s[j] \in Byte /\ s[j] \in Element
    <2>1. \A j \in 1 .. N : s[j] \in Byte
      BY ElementOfSeq
    <2> QED
      BY <1>3, <2>1, ByteIs
  <1> HIDE DEF e, N
  <1>5. /\ SubSeq(s, i, e) \in Seq(Element) /\ Len(SubSeq(s, i, e)) = n
        /\ \A k \in 1 .. n : SubSeq(s, i, e)[k] = s[i + k - 1]
    BY <1>3, <1>4, SubSeqProperties
  <1>6. \A k \in 1 .. n : i + k - 1 \in i .. e
    BY <1>1, <1>2, <1>3 DEF e, N
  <1> QED
    BY <1>1, <1>3, <1>4, <1>5, <1>6 DEF n, e, N

\* What is put from a byte on is elements.
LEMMA EmitAtType ==
  ASSUME NEW s \in Seq(Byte), NEW i \in 1 .. Len(s), NEW f \in [1 .. Len(s) + 1 -> Seq(Element)]
  PROVE  EmitAt(s, f, i) \in Seq(Element)
  <1>1. Len(s) \in Nat /\ s[i] \in Byte
    BY LenProperties, ElementOfSeq
  <1>2. i + 1 \in 1 .. Len(s) + 1
    BY <1>1
  <1>3. \A c \in Byte \cup {Unknown} : <<Escape(c)>> \in Seq(Element)
    <2>2. \A c \in Byte \cup {Unknown} : Escape(c) \in Element
      BY BadIs, ByteIs
    <2>3. \A e \in Element : <<e>> \in Seq(Element)
      OBVIOUS
    <2> QED
      BY <2>2, <2>3
  <1>4. f[i + 1] \in Seq(Element)
    BY <1>2
  <1>5. CASE utf8_seq_len(s, i) # 0
    <2> DEFINE n == utf8_seq_len(s, i)
               p == SubSeq(s, i, i + n - 1)
    <2>1. i + n \in i + 1 .. Len(s) + 1 /\ p \in Seq(Element)
      BY <1>5, PieceType
    <2>2. f[i + n] \in Seq(Element)
      BY <1>1, <2>1
    <2> HIDE DEF n, p
    <2>3. p \o f[i + n] \in Seq(Element) /\ <<Escape(s[i])>> \o f[i + 1] \in Seq(Element)
      BY <1>1, <1>3, <1>4, <2>1, <2>2, ConcatProperties
    <2> QED
      BY <1>5, <2>3 DEF EmitAt, n, p
  <1>6. CASE utf8_seq_len(s, i) = 0
    <2>1. <<Escape(Unknown)>> \o f[i + 1] \in Seq(Element) /\ <<Escape(s[i])>> \o f[i + 1] \in Seq(Element)
      BY <1>1, <1>3, <1>4, ConcatProperties
    <2> QED
      BY <1>6, <2>1 DEF EmitAt
  <1> QED
    BY <1>5, <1>6

\* emit_string goes through a string from its end.
LEMMA EmitDef ==
  ASSUME NEW s \in Seq(Byte)
  PROVE  \E f : Emits(s, f) /\ emit_string(s) = <<Quote>> \o f[1]
  <1> DEFINE N == Len(s)
             X == Seq(Element)
             Dom == 1 .. N + 1
             F == [i \in 1 .. N |-> [f \in [Dom -> X] |-> EmitAt(s, f, i)]]
             base == <<Quote>>
  <1>1. N \in Nat /\ base \in X
    <2>1. Quote \in Byte
      BY DEF Quote, Byte
    <2>2. Quote \in Element
      BY <2>1, ByteIs
    <2> QED
      BY <2>2, LenProperties
  <1>2. F \in [1 .. N -> [[Dom -> X] -> X]]
    <2>1. \A i \in 1 .. N : \A f \in [Dom -> X] : EmitAt(s, f, i) \in X
      BY EmitAtType
    <2> HIDE DEF X, Dom
    <2> QED
      BY <2>1
  <1>3. LooksUp(N, X, F)
    <2>1. SUFFICES ASSUME NEW i \in 1 .. N, NEW f \in [Dom -> X], NEW g \in [Dom -> X],
                          \A j \in i + 1 .. N + 1 : f[j] = g[j]
                   PROVE  F[i][f] = F[i][g]
      BY DEF LooksUp
    <2>2. i + 1 \in i + 1 .. N + 1
      BY <1>1
    <2>3. utf8_seq_len(s, i) # 0 => i + utf8_seq_len(s, i) \in i + 1 .. N + 1
      BY PieceType
    <2>3a. f[i + 1] = g[i + 1] /\ (utf8_seq_len(s, i) # 0 => f[i + utf8_seq_len(s, i)] = g[i + utf8_seq_len(s, i)])
      BY <2>1, <2>2, <2>3
    <2>4. EmitAt(s, f, i) = EmitAt(s, g, i)
      BY <2>3a DEF EmitAt
    <2> HIDE DEF X, Dom
    <2> QED
      BY <2>4
  <1>4. \A i \in 1 .. N, f \in [Dom -> X] : F[i][f] = EmitAt(s, f, i)
    OBVIOUS
  <1> HIDE DEF F, X
  <1>5. PICK f : Descends(N, X, base, F, f)
    <2> HIDE DEF N, base
    <2> QED
      BY <1>1, <1>2, <1>3, Descent, Zenon
  <1>6. f \in [Dom -> X] /\ f[N + 1] = base /\ \A i \in 1 .. N : f[i] = EmitAt(s, f, i)
    BY <1>4, <1>5 DEF Descends
  <1> DEFINE At0(g, i) == IF i > Len(s) THEN <<Quote>> ELSE EmitAt(s, g, i)
             from == CHOOSE from : from = [i \in 1 .. Len(s) + 1 |-> At0(from, i)]
  <1>7. emit_string(s) = <<Quote>> \o from[1]
    BY DEF emit_string, EmitAt
  <1>8. f = [i \in 1 .. N + 1 |-> At0(f, i)]
    <2>1. ASSUME NEW i \in Dom PROVE f[i] = At0(f, i)
      <3>1. CASE i = N + 1
        BY <1>1, <1>6, <3>1
      <3>2. CASE i # N + 1
        <4>1. i \in 1 .. N /\ ~ (i > N)
          BY <1>1, <3>2
        <4> QED
          BY <1>6, <4>1
      <3> QED
        BY <3>1, <3>2
    <2> HIDE DEF At0
    <2> QED
      BY <1>6, <2>1
  <1> HIDE DEF At0
  <1>9. from = [i \in 1 .. N + 1 |-> At0(from, i)]
    BY <1>8 DEF N
  <1> HIDE DEF from
  <1>10. from[N + 1] = base /\ \A i \in 1 .. N : from[i] = EmitAt(s, from, i)
    <2>1. N + 1 \in 1 .. N + 1 /\ N + 1 > N /\ \A i \in 1 .. N : i \in 1 .. N + 1 /\ ~ (i > N)
      BY <1>1
    <2> QED
      BY <1>9, <2>1 DEF At0
  <1> DEFINE T == {k \in Nat : \A i \in Dom : i >= N + 1 - k => from[i] = f[i]}
  <1>11. 0 \in T
    BY <1>1, <1>6, <1>10
  <1>12. ASSUME NEW k \in Nat, k \in T PROVE k + 1 \in T
    <2>1. SUFFICES ASSUME NEW i \in Dom, i >= N + 1 - (k + 1) PROVE from[i] = f[i]
      OBVIOUS
    <2>2. CASE i >= N + 1 - k
      BY <1>12, <2>2
    <2>3. CASE i < N + 1 - k
      <3>1. i \in 1 .. N
        BY <1>1, <2>3
      <3>2. \A j \in i + 1 .. N + 1 : j \in Dom /\ j >= N + 1 - k
        BY <1>1, <2>1, <2>3
      <3>3. \A j \in i + 1 .. N + 1 : from[j] = f[j]
        BY <1>12, <3>2
      <3>4. i + 1 \in i + 1 .. N + 1
        BY <1>1, <3>1
      <3>5. utf8_seq_len(s, i) # 0 => i + utf8_seq_len(s, i) \in i + 1 .. N + 1
        BY <3>1, PieceType
      <3>6. EmitAt(s, from, i) = EmitAt(s, f, i)
        BY <3>3, <3>4, <3>5 DEF EmitAt
      <3> QED
        BY <1>6, <1>10, <3>1, <3>6
    <2> QED
      BY <1>1, <2>2, <2>3
  <1> HIDE DEF T
  <1>13. N \in T
    BY <1>1, <1>11, <1>12, SetInduction
  <1>14. from[1] = f[1]
    <2>1. 1 \in Dom /\ 1 >= N + 1 - N
      BY <1>1
    <2> QED
      BY <1>13, <2>1 DEF T
  <1>15. Emits(s, f)
    BY <1>6 DEF Emits, X, N, base, Dom
  <1> QED
    BY <1>7, <1>14, <1>15

\* What a literal is made of between its quotes: no quote, no backslash, no
\* control character.
Plain(x) == x \in Element /\ x >= 32 /\ x \notin {Quote, 92}
\* The rest of a literal, its closing quote included.
Rest(q) ==
  /\ q \in Seq(Element) /\ Len(q) >= 1 /\ q[Len(q)] = Quote
  /\ \A j \in 1 .. Len(q) - 1 : Plain(q[j])

\* Plain elements before the rest of a literal make one again.
LEMMA RestLonger ==
  ASSUME NEW q, Rest(q), NEW p \in Seq(Element), \A j \in 1 .. Len(p) : Plain(p[j])
  PROVE  Rest(p \o q)
  <1> DEFINE r == p \o q
             m == Len(p)
             n == Len(q)
  <1>1. q \in Seq(Element) /\ n >= 1 /\ q[n] = Quote /\ \A j \in 1 .. n - 1 : Plain(q[j])
    BY DEF Rest
  <1>2. m \in Nat /\ n \in Nat
    BY <1>1, LenProperties
  <1>3. /\ r \in Seq(Element) /\ Len(r) = m + n
        /\ (\A i \in 1 .. m : r[i] = p[i]) /\ \A i \in 1 .. n : r[m + i] = q[i]
    BY <1>1, ConcatParts DEF Joined
  <1>4. \A j \in 1 .. m : Plain(p[j])
    OBVIOUS
  <1> HIDE DEF r, m, n
  <1>5. r[m + n] = q[n]
    BY <1>1, <1>2, <1>3
  <1>6. ASSUME NEW j \in 1 .. m + n - 1 PROVE Plain(r[j])
    <2>1. CASE j \in 1 .. m
      BY <1>3, <1>4, <2>1
    <2>2. CASE j \notin 1 .. m
      <3> DEFINE k == j - m
      <3>1. k \in 1 .. n - 1 /\ k \in 1 .. n /\ m + k = j
        BY <1>1, <1>2, <2>2
      <3> HIDE DEF k
      <3>2. r[m + k] = q[k] /\ Plain(q[k])
        BY <1>1, <1>3, <3>1
      <3> QED
        BY <3>1, <3>2
    <2> QED
      BY <2>1, <2>2
  <1>7. m + n >= 1
    BY <1>1, <1>2
  <1> QED
    BY <1>1, <1>3, <1>5, <1>6, <1>7 DEF Rest, r

\* What is put for a byte or a character is plain.
LEMMA EscapePlain == \A c \in Byte \cup {Unknown} : Plain(Escape(c))
  <1>1. SUFFICES ASSUME NEW c \in Byte \cup {Unknown} PROVE Plain(Escape(c))
    OBVIOUS
  <1>2. Escape(c) \in Element
    BY ByteIs, BadIs
  <1>3. c \in Int /\ c >= 1
    BY SMT, ByteIs DEF Unknown
  <1> DEFINE e == 1000 + c
  <1>4. e \in Int /\ e >= 32 /\ e # 34 /\ e # 92
    BY <1>3, SMT
  <1>5. Escape(c) = e
    BY DEF Escape
  <1> HIDE DEF e
  <1>6. e >= 32 /\ e \notin {Quote, 92}
    BY <1>4, SMT DEF Quote
  <1> QED
    BY <1>2, <1>5, <1>6 DEF Plain

\* No continuation byte ends a literal.
LEMMA ContinuationIs == \A x \in 128 .. 191 : x >= 32 /\ x \notin {Quote, 92}
  BY DEF Quote

\* From every byte of a string on, the rest of a literal is put.
LEMMA EmitRest ==
  ASSUME NEW s \in Seq(Byte), NEW f, Emits(s, f)
  PROVE  \A i \in 1 .. Len(s) + 1 : Rest(f[i])
  <1> DEFINE N == Len(s)
             Dom == 1 .. N + 1
             T == {k \in Nat : \A i \in Dom : i >= N + 1 - k => Rest(f[i])}
  <1>0. N \in Nat
    BY LenProperties
  <1>1. f \in [Dom -> Seq(Element)] /\ f[N + 1] = <<Quote>> /\ \A i \in 1 .. N : f[i] = EmitAt(s, f, i)
    BY DEF Emits
  <1>2. Rest(<<Quote>>)
    <2>0. Quote \in Byte
      BY DEF Quote, Byte
    <2>1. Quote \in Element
      BY <2>0, ByteIs
    <2> DEFINE q == <<Quote>>
    <2>2. q \in Seq(Element) /\ Len(q) = 1 /\ q[1] = Quote
      BY <2>1
    <2> HIDE DEF q
    <2>3. Len(q) >= 1 /\ q[Len(q)] = Quote /\ \A j \in 1 .. Len(q) - 1 : Plain(q[j])
      <3>1. \A j \in 1 .. 1 - 1 : FALSE
        OBVIOUS
      <3> QED
        BY <2>2, <3>1
    <2>4. Rest(q)
      BY <2>2, <2>3 DEF Rest
    <2> QED
      BY <2>4 DEF q
  <1>3. 0 \in T
    BY <1>0, <1>1, <1>2
  <1>4. ASSUME NEW k \in Nat, k \in T PROVE k + 1 \in T
    <2>1. SUFFICES ASSUME NEW i \in Dom, i >= N + 1 - (k + 1) PROVE Rest(f[i])
      OBVIOUS
    <2>2. CASE i >= N + 1 - k
      BY <1>4, <2>2
    <2>3. CASE i < N + 1 - k
      <3>1. i \in 1 .. N
        BY <1>0, <2>3
      <3>2. \A j \in i + 1 .. N + 1 : j \in Dom /\ j >= N + 1 - k
        BY <1>0, <2>1, <2>3
      <3>3. \A j \in i + 1 .. N + 1 : Rest(f[j])
        BY <1>4, <3>2
      <3>4. i + 1 \in i + 1 .. N + 1
        BY <1>0, <3>1
      <3>5. s[i] \in Byte
        BY <3>1, ElementOfSeq
      <3>6. ASSUME NEW c \in Byte \cup {Unknown} PROVE Rest(<<Escape(c)>> \o f[i + 1])
        <4> DEFINE p == <<Escape(c)>>
        <4>1. Plain(Escape(c))
          BY EscapePlain
        <4>2. p \in Seq(Element) /\ Len(p) = 1 /\ p[1] = Escape(c)
          BY <4>1 DEF Plain
        <4> HIDE DEF p
        <4>3. \A j \in 1 .. Len(p) : Plain(p[j])
          BY <4>1, <4>2
        <4>4. Rest(p \o f[i + 1])
          BY <3>3, <3>4, <4>2, <4>3, RestLonger
        <4> QED
          BY <4>4 DEF p
      <3>7. ASSUME ~ (s[i] < 32 \/ s[i] = Quote \/ s[i] = 92), utf8_seq_len(s, i) # 0
            PROVE  Rest(SubSeq(s, i, i + utf8_seq_len(s, i) - 1) \o f[i + utf8_seq_len(s, i)])
        <4> DEFINE n == utf8_seq_len(s, i)
                   p == SubSeq(s, i, i + n - 1)
        <4>1. /\ n \in 1 .. 4 /\ i + n \in i + 1 .. N + 1 /\ p \in Seq(Element) /\ Len(p) = n
              /\ \A m \in 1 .. n : p[m] = s[i + m - 1] /\ s[i + m - 1] \in Byte
          BY <3>1, <3>7, PieceType
        <4>2. \A j \in i + 1 .. i + n - 1 : s[j] \in 128 .. 191
          <5>1. n > 0
            BY <4>1
          <5> HIDE DEF n
          <5>2. n = utf8_seq_len(s, i) => \A j \in i + 1 .. i + n - 1 : s[j] \in 128 .. 191
            BY <3>1, <5>1, SeqLenIs
          <5> QED
            BY <5>2 DEF n
        <4> HIDE DEF n, p
        <4>3. ASSUME NEW j \in 1 .. n PROVE Plain(p[j])
          <5>1. CASE j = 1
            <6>1. p[1] = s[i]
              <7>1. 1 \in 1 .. n /\ i + 1 - 1 = i
                BY <3>1, <4>1
              <7> QED
                BY <4>1, <7>1
            <6>2. s[i] \in Int /\ s[i] \in Element
              BY <3>5, ByteIs
            <6>3. s[i] >= 32 /\ s[i] \notin {Quote, 92}
              BY <3>7, <6>2
            <6> QED
              BY <5>1, <6>1, <6>2, <6>3 DEF Plain
          <5>2. CASE j # 1
            <6>1. i + j - 1 \in i + 1 .. i + n - 1
              BY <3>1, <4>1, <5>2
            <6>2. p[j] = s[i + j - 1] /\ s[i + j - 1] \in Byte
              BY <4>1
            <6>2a. s[i + j - 1] \in 128 .. 191
              BY <4>2, <6>1
            <6>2b. p[j] \in 128 .. 191 /\ p[j] \in Element
              BY <6>2, <6>2a, ByteIs
            <6>3. p[j] >= 32 /\ p[j] \notin {Quote, 92}
              BY <6>2b, ContinuationIs
            <6> QED
              BY <6>2b, <6>3 DEF Plain
          <5> QED
            BY <5>1, <5>2
        <4>4. Rest(p \o f[i + n])
          BY <3>3, <4>1, <4>3, RestLonger
        <4> QED
          BY <4>4 DEF n, p
      <3>8. f[i] = EmitAt(s, f, i)
        BY <1>1, <3>1
      <3> QED
        BY <3>5, <3>6, <3>7, <3>8 DEF EmitAt
    <2> QED
      BY <1>0, <2>2, <2>3
  <1> HIDE DEF T
  <1>5. N \in T
    BY <1>0, <1>3, <1>4, SetInduction
  <1>6. \A i \in Dom : i >= N + 1 - N
    BY <1>0
  <1> QED
    BY <1>5, <1>6 DEF T

\* A literal begins with a quote, which the rest closes.
LEMMA LiteralIs ==
  ASSUME NEW s \in Seq(Byte)
  PROVE  \E q : Rest(q) /\ emit_string(s) = <<Quote>> \o q
  <1>1. PICK f : Emits(s, f) /\ emit_string(s) = <<Quote>> \o f[1]
    BY EmitDef
  <1>2. 1 \in 1 .. Len(s) + 1
    BY LenProperties
  <1>3. Rest(f[1])
    BY <1>1, <1>2, EmitRest
  <1> QED
    BY <1>1, <1>3

\* A reader r that has gone on to read w, and is at now, inside nest.
Gone(r, w, at, nest) == [at |-> at, nest |-> nest, said |-> r.said \o w]

\* A text can be read.
LEMMA ReadingType ==
  ASSUME NEW t \in Seq(Element)
  PROVE  Reading(t) \in Readers
  <1>1. Quote \in Byte
    BY DEF Quote, Byte
  <1>2. Quote \in Element
    BY <1>1, ByteIs
  <1> QED
    BY <1>2, ReadingAppend

\* Reading one element after a text and a piece of more text.
LEMMA ReadMore ==
  ASSUME NEW t \in Seq(Element), NEW w \in Seq(Element), NEW x \in Element
  PROVE  Reading(t \o Append(w, x)) = Read(Reading(t \o w), x)
  <1>1. t \o w \in Seq(Element)
    BY ConcatProperties
  <1>2. Append(w, x) = w \o <<x>> /\ Append(t \o w, x) = (t \o w) \o <<x>> /\ <<x>> \in Seq(Element)
    BY <1>1, AppendIsConcat
  <1>3. (t \o w) \o <<x>> = t \o (w \o <<x>>)
    BY <1>2, ConcatAssociative
  <1> QED
    BY <1>1, <1>2, <1>3, ReadingAppend

\* What the reader has said, one element on.
LEMMA GoneOn ==
  ASSUME NEW r \in Readers, NEW w \in Seq(Element), NEW x \in Element, NEW at, NEW nest, NEW at2, NEW nest2
  PROVE  Went(Gone(r, w, at, nest), x, at2, nest2) = Gone(r, Append(w, x), at2, nest2)
  <1>1. r.said \in Seq(Element)
    BY DEF Readers
  <1>2. r.said \o w \in Seq(Element)
    BY <1>1, ConcatProperties
  <1>3. Append(w, x) = w \o <<x>> /\ Append(r.said \o w, x) = (r.said \o w) \o <<x>> /\ <<x>> \in Seq(Element)
    BY <1>2, AppendIsConcat
  <1>4. (r.said \o w) \o <<x>> = r.said \o (w \o <<x>>)
    <2> DEFINE d == r.said
               y == <<x>>
    <2>1. d \in Seq(Element) /\ y \in Seq(Element)
      BY <1>1, <1>3
    <2> HIDE DEF d, y
    <2>2. (d \o w) \o y = d \o (w \o y)
      BY <2>1, ConcatAssociative
    <2> QED
      BY <2>2 DEF d, y
  <1> QED
    BY <1>3, <1>4 DEF Went, Gone

\* A literal is read as a whole: a value where a value is due, a name where one is.
LEMMA ReadLiteral ==
  ASSUME NEW t \in Seq(Element), NEW s \in Seq(Byte), NEW r, r = Reading(t)
  PROVE  /\ emit_string(s) \in Seq(Element) /\ emit_string(s) # <<>>
         /\ r.at \in {"value", "first"} =>
              Reading(t \o emit_string(s)) = Gone(r, emit_string(s), EndOf(r.nest), r.nest)
         /\ r.at \in {"member", "key"} =>
              Reading(t \o emit_string(s)) = Gone(r, emit_string(s), "colon", r.nest)
  <1> DEFINE lit == emit_string(s)
             M == Len(lit)
             w(k) == SubSeq(lit, 1, k)
             in == IF r.at \in {"value", "first"} THEN "text" ELSE "name"
             out == IF r.at \in {"value", "first"} THEN EndOf(r.nest) ELSE "colon"
  <1>1. PICK q : Rest(q) /\ lit = <<Quote>> \o q
    BY LiteralIs
  <1>2. Quote \in Element
    <2>1. Quote \in Byte
      BY DEF Quote, Byte
    <2> QED
      BY <2>1, ByteIs
  <1>3. /\ lit \in Seq(Element) /\ M \in Nat /\ M >= 2 /\ lit[1] = Quote /\ lit[M] = Quote
        /\ \A j \in 2 .. M - 1 : Plain(lit[j])
    <2> DEFINE o == <<Quote>>
    <2>1. o \in Seq(Element) /\ Len(o) = 1 /\ o[1] = Quote
      BY <1>2
    <2>2. q \in Seq(Element) /\ Len(q) >= 1 /\ q[Len(q)] = Quote /\ \A j \in 1 .. Len(q) - 1 : Plain(q[j])
      BY <1>1 DEF Rest
    <2> HIDE DEF o
    <2>3. Joined(Element, o, q, o \o q)
      BY <2>1, <2>2, ConcatParts, Zenon
    <2>4. lit = o \o q
      BY <1>1 DEF o
    <2> DEFINE n == Len(q)
    <2> HIDE DEF lit, n
    <2>5. lit \in Seq(Element) /\ Len(lit) = 1 + n /\ n \in Nat /\ n >= 1
          /\ (\A i \in 1 .. 1 : lit[i] = o[i]) /\ \A i \in 1 .. n : lit[1 + i] = q[i]
      BY <2>1, <2>2, <2>3, <2>4 DEF n, Joined
    <2>6. lit[1] = Quote
      BY <2>1, <2>5
    <2>7. lit[1 + n] = Quote
      BY <2>2, <2>5 DEF n
    <2>8. ASSUME NEW j \in 2 .. (1 + n) - 1 PROVE Plain(lit[j])
      <3> DEFINE i == j - 1
      <3>1. i \in 1 .. n /\ i \in 1 .. n - 1 /\ 1 + i = j
        BY <2>5
      <3> HIDE DEF i
      <3>2. lit[1 + i] = q[i] /\ Plain(q[i])
        BY <2>2, <2>5, <3>1 DEF n
      <3> QED
        BY <3>1, <3>2
    <2> QED
      BY <2>5, <2>6, <2>7, <2>8
  <1> HIDE DEF lit
  <1>4. \A k \in 1 .. M : w(k) = Append(w(k - 1), lit[k]) /\ w(k - 1) \in Seq(Element) /\ lit[k] \in Element
    BY <1>3, SubSeqNext
  <1>5. r \in Readers
    BY ReadingType
  <1>6. \A k \in 1 .. M : Reading(t \o w(k)) = Read(Reading(t \o w(k - 1)), lit[k])
    <2> HIDE DEF w, M
    <2> QED
      BY <1>4, ReadMore
  <1>7. w(0) = <<>> /\ t \o w(0) = t
    <2>1. w(0) = <<>>
      BY SubSeqEmpty
    <2>2. t \o <<>> = t
      BY ConcatEmptySeq
    <2> QED
      BY <2>1, <2>2
  <1>7a. \A k \in 1 .. M : w(k) \in Seq(Element)
    <2>1. ASSUME NEW k \in 1 .. M PROVE w(k) \in Seq(Element)
      <3>1. w(k) = Append(w(k - 1), lit[k]) /\ w(k - 1) \in Seq(Element) /\ lit[k] \in Element
        BY <1>4
      <3> HIDE DEF w, M
      <3> QED
        BY <3>1, AppendProperties
    <2> QED
      BY <2>1
  <1>8. SUFFICES ASSUME r.at \in {"value", "first", "member", "key"}
                 PROVE  Reading(t \o lit) = Gone(r, lit, out, r.nest)
    <2>1. r.at \in {"value", "first"} => out = EndOf(r.nest) /\ r.at \in {"value", "first", "member", "key"}
      OBVIOUS
    <2>2. r.at \in {"member", "key"} => out = "colon" /\ r.at \in {"value", "first", "member", "key"}
      OBVIOUS
    <2>3. lit # <<>>
      BY <1>3
    <2> HIDE DEF out
    <2> QED
      BY <1>3, <1>8, <2>1, <2>2, <2>3 DEF lit
  <1> DEFINE T == {k \in Nat : k + 1 <= M - 1 => Reading(t \o w(k + 1)) = Gone(r, w(k + 1), in, r.nest)}
  <1>9. 0 \in T
    <2>1. 1 \in 1 .. M /\ 1 - 1 = 0 /\ 0 + 1 = 1
      BY <1>3
    <2>2. Reading(t \o w(1)) = Read(r, Quote)
      BY <1>3, <1>6, <1>7, <2>1
    <2>3. Read(r, Quote) = Went(r, Quote, in, r.nest)
      BY <1>8, ReadCases
    <2>4. w(1) = Append(<<>>, Quote)
      BY <1>3, <1>4, <1>7, <2>1
    <2>5. Went(r, Quote, in, r.nest) = Gone(r, w(1), in, r.nest)
      <3>1. r.said \in Seq(Element)
        BY <1>5 DEF Readers
      <3>2. Append(<<>>, Quote) = <<Quote>> /\ Append(r.said, Quote) = r.said \o <<Quote>>
        BY <1>2, <3>1, AppendIsConcat
      <3> HIDE DEF in, w
      <3> QED
        BY <2>4, <3>2 DEF Went, Gone
    <2> HIDE DEF w, in
    <2> QED
      BY <2>1, <2>2, <2>3, <2>5
  <1>10. ASSUME NEW k \in Nat, k \in T PROVE k + 1 \in T
    <2>1. SUFFICES ASSUME (k + 1) + 1 <= M - 1
                   PROVE  Reading(t \o w((k + 1) + 1)) = Gone(r, w((k + 1) + 1), in, r.nest)
      OBVIOUS
    <2> DEFINE m == (k + 1) + 1
    <2>2. m \in 1 .. M /\ m - 1 = k + 1 /\ k + 1 <= M - 1 /\ m \in 2 .. M - 1 /\ k + 1 \in 1 .. M
      BY <1>3, <2>1
    <2> HIDE DEF m, w
    <2>3. Reading(t \o w(k + 1)) = Gone(r, w(k + 1), in, r.nest)
      BY <1>10, <2>2
    <2>4. Plain(lit[m]) /\ lit[m] \in Element
      BY <1>3, <1>4, <2>2
    <2>5. Read(Gone(r, w(k + 1), in, r.nest), lit[m]) = Went(Gone(r, w(k + 1), in, r.nest), lit[m], in, r.nest)
      <3> DEFINE g == Gone(r, w(k + 1), in, r.nest)
      <3>1. g.at = in /\ g.nest = r.nest /\ in \in {"name", "text"}
        BY DEF Gone
      <3> HIDE DEF g, in
      <3>2. lit[m] >= 32 /\ lit[m] \notin {Quote, 92}
        BY <2>4 DEF Plain
      <3>3. Read(g, lit[m]) = Went(g, lit[m], in, r.nest)
        BY <3>1, <3>2, ReadCases
      <3> QED
        BY <3>3 DEF g
    <2>6. Went(Gone(r, w(k + 1), in, r.nest), lit[m], in, r.nest) = Gone(r, Append(w(k + 1), lit[m]), in, r.nest)
      BY <1>5, <1>7a, <2>2, <2>4, GoneOn
    <2>7. w(m) = Append(w(k + 1), lit[m]) /\ Reading(t \o w(m)) = Read(Reading(t \o w(k + 1)), lit[m])
      BY <1>4, <1>6, <2>2
    <2> HIDE DEF in
    <2> QED
      BY <2>3, <2>5, <2>6, <2>7 DEF m
  <1> HIDE DEF T
  <1>11. M - 2 \in T
    <2>1. M - 2 \in Nat
      BY <1>3
    <2> QED
      BY <1>9, <1>10, <2>1, SetInduction
  <1>12. Reading(t \o w(M - 1)) = Gone(r, w(M - 1), in, r.nest)
    <2>1. (M - 2) + 1 = M - 1 /\ (M - 2) + 1 <= M - 1
      BY <1>3
    <2> HIDE DEF w, in
    <2> QED
      BY <1>11, <2>1 DEF T
  <1>13. M \in 1 .. M /\ M - 1 \in 1 .. M
    BY <1>3
  <1>14. w(M) = lit
    BY <1>3, SubSeqFull
  <1> DEFINE g == Gone(r, w(M - 1), in, r.nest)
  <1>15. g.at = in /\ g.nest = r.nest
    BY DEF Gone
  <1>16. Read(g, Quote) = Went(g, Quote, out, r.nest)
    <2> HIDE DEF g
    <2>1. CASE r.at \in {"value", "first"}
      <3>1. g.at = "text" /\ out = EndOf(g.nest)
        BY <1>15, <2>1
      <3> HIDE DEF out, in
      <3> QED
        BY <1>15, <3>1, ReadCases
    <2>2. CASE ~ (r.at \in {"value", "first"})
      <3>1. g.at = "name" /\ out = "colon"
        BY <1>15, <2>2
      <3> HIDE DEF out, in
      <3> QED
        BY <1>15, <3>1, ReadCases
    <2> QED
      BY <2>1, <2>2
  <1> HIDE DEF w, out, in
  <1>17. Went(g, Quote, out, r.nest) = Gone(r, Append(w(M - 1), Quote), out, r.nest)
    BY <1>2, <1>5, <1>7a, <1>13, GoneOn
  <1> HIDE DEF g
  <1>18. Append(w(M - 1), Quote) = lit /\ Reading(t \o lit) = Read(g, Quote)
    BY <1>3, <1>4, <1>6, <1>12, <1>13, <1>14 DEF g
  <1> QED
    BY <1>16, <1>17, <1>18

-----------------------------------------------------------------------------
(***************************************************************************)
(* What each call makes of the builder, when all it has yet to put is put. *)
(***************************************************************************)
\* The bookkeeping that ends a call, by its name.
SettledBy(a, x) ==
  IF a = "push" THEN
    IF x.depth >= JB_MAX_DEPTH THEN [x EXCEPT !.err = TRUE]
    ELSE [x EXCEPT !.depth = @ + 1, !.need[x.depth + 1] = FALSE]
  ELSE IF a = "pop" THEN Marked(Popped(x))
  ELSE IF a = "post" THEN Marked(x)
  ELSE [x EXCEPT !.suppress = TRUE]

Builders == Bufs(Element)

\* Two builders that differ in their text and buffer at most.
Like(x, y) == x.depth = y.depth /\ x.need = y.need /\ x.suppress = y.suppress /\ x.err = y.err

\* post_value, pop and the bookkeeping of each call, and what they leave alone.
LEMMA MarkedDoes ==
  ASSUME NEW x \in Builders
  PROVE  /\ Marked(x) \in Builders /\ Marked(x).depth = x.depth /\ Marked(x).suppress = x.suppress
         /\ Marked(x).err = x.err
         /\ Marked(x).need = IF x.depth > 0 THEN [x.need EXCEPT ![x.depth] = TRUE] ELSE x.need
  BY MarkedKeeps DEF Marked, Builders, Bufs

\* pop, with a nesting level to go back to or without.
LEMMA PoppedDoes ==
  ASSUME NEW x \in Builders
  PROVE  /\ Popped(x) \in Builders /\ Popped(x).need = x.need /\ Popped(x).suppress = x.suppress
         /\ Popped(x).err = x.err
         /\ Popped(x).depth = IF x.depth > 0 THEN x.depth - 1 ELSE x.depth
  BY PoppedKeeps DEF Popped, Builders, Bufs

\* The bookkeeping keeps the text, and the latch once it is set.
LEMMA SettledByDoes ==
  ASSUME NEW x \in Builders, NEW a
  PROVE  /\ SettledBy(a, x) \in Builders /\ (x.err => SettledBy(a, x).err)
         /\ SettledBy(a, x).text = x.text /\ SettledBy(a, x).cap = x.cap
  <1> DEFINE z == [x EXCEPT !.depth = x.depth + 1, !.need = [x.need EXCEPT ![x.depth + 1] = FALSE]]
  <1>1. CASE a = "push"
    <2>1. CASE x.depth >= JB_MAX_DEPTH
      BY <1>1, <2>1 DEF SettledBy, Builders, Bufs
    <2>2. CASE ~(x.depth >= JB_MAX_DEPTH)
      <3>1. x.depth + 1 \in 0 .. JB_MAX_DEPTH
        BY <2>2, BuilderAssumption DEF Builders, Bufs
      <3>2. [x.need EXCEPT ![x.depth + 1] = FALSE] \in [0 .. JB_MAX_DEPTH -> BOOLEAN]
        BY DEF Builders, Bufs
      <3>3. SettledBy(a, x) = z
        BY <1>1, <2>2 DEF SettledBy
      <3>4. ASSUME NEW d \in 0 .. JB_MAX_DEPTH, NEW n \in [0 .. JB_MAX_DEPTH -> BOOLEAN],
                   SettledBy(a, x) = [x EXCEPT !.depth = d, !.need = n]
            PROVE  /\ SettledBy(a, x) \in Builders /\ SettledBy(a, x).text = x.text
                   /\ SettledBy(a, x).cap = x.cap /\ SettledBy(a, x).err = x.err
        BY <3>4 DEF Builders, Bufs
      <3> QED
        BY <3>1, <3>2, <3>3, <3>4
    <2> QED
      BY <2>1, <2>2
  <1>2. CASE a = "pop"
    <2>1. Marked(Popped(x)) \in Builders /\ Marked(Popped(x)).err = x.err
          /\ Marked(Popped(x)).text = x.text /\ Marked(Popped(x)).cap = x.cap
      BY MarkedKeeps, PoppedKeeps DEF Builders
    <2> QED
      BY <1>2, <2>1 DEF SettledBy
  <1>3. CASE a = "post"
    <2>1. Marked(x) \in Builders /\ Marked(x).err = x.err
          /\ Marked(x).text = x.text /\ Marked(x).cap = x.cap
      BY MarkedKeeps DEF Builders
    <2> QED
      BY <1>3, <2>1 DEF SettledBy
  <1>4. CASE a \notin {"push", "pop", "post"}
    BY <1>4 DEF SettledBy, Builders, Bufs
  <1> QED
    BY <1>1, <1>2, <1>3, <1>4

\* What a push, a post, a pop and a jb_key make of the flags.
LEMMA PushDoes ==
  ASSUME NEW x \in Builders, NEW y, y = SettledBy("push", x), ~ y.err
  PROVE  y.depth = x.depth + 1 /\ y.suppress = x.suppress /\ ~ y.need[y.depth]
  <1> DEFINE n == [x.need EXCEPT ![x.depth + 1] = FALSE]
  <1>1. ~ (x.depth >= JB_MAX_DEPTH)
    BY DEF SettledBy, Builders, Bufs
  <1>2. x.depth + 1 \in 0 .. JB_MAX_DEPTH
    BY <1>1, BuilderAssumption DEF Builders, Bufs
  <1>3. n[x.depth + 1] = FALSE
    BY <1>2 DEF Builders, Bufs
  <1>4. y = [x EXCEPT !.depth = x.depth + 1, !.need = n]
    BY <1>1 DEF SettledBy
  <1> HIDE DEF n
  <1>5. y.depth = x.depth + 1 /\ y.suppress = x.suppress /\ y.need = n
    BY <1>4 DEF Builders, Bufs
  <1> QED
    BY <1>3, <1>5

\* post_value marks the innermost container.
LEMMA PostDoes ==
  ASSUME NEW x \in Builders, NEW y, y = SettledBy("post", x)
  PROVE  y.depth = x.depth /\ y.suppress = x.suppress /\ (x.depth > 0 => y.need[y.depth])
  <1>1. y = Marked(x)
    BY DEF SettledBy
  <1>2. x.depth \in 0 .. JB_MAX_DEPTH /\ x.need \in [0 .. JB_MAX_DEPTH -> BOOLEAN]
    BY DEF Builders, Bufs
  <1>3. y.depth = x.depth /\ y.suppress = x.suppress
        /\ y.need = IF x.depth > 0 THEN [x.need EXCEPT ![x.depth] = TRUE] ELSE x.need
    BY <1>1, MarkedDoes
  <1>4. [x.need EXCEPT ![x.depth] = TRUE][x.depth] = TRUE
    BY <1>2
  <1> QED
    BY <1>3, <1>4

\* Closing a container marks the one around it.
LEMMA PopDoes ==
  ASSUME NEW x \in Builders, NEW y, y = SettledBy("pop", x), x.depth > 0
  PROVE  y.depth = x.depth - 1 /\ y.suppress = x.suppress /\ (y.depth > 0 => y.need[y.depth])
  <1> DEFINE z == Popped(x)
  <1>1. y = SettledBy("post", z)
    BY DEF SettledBy
  <1>2. z \in Builders /\ z.depth = x.depth - 1 /\ z.suppress = x.suppress
    BY PoppedDoes
  <1> HIDE DEF z
  <1>3. y.depth = z.depth /\ y.suppress = z.suppress /\ (z.depth > 0 => y.need[y.depth])
    BY <1>1, <1>2, PostDoes
  <1> QED
    BY <1>2, <1>3

\* jb_key asks for no separator before the value.
LEMMA KeyDoes ==
  ASSUME NEW x \in Builders, NEW y, y = SettledBy("key", x)
  PROVE  y.depth = x.depth /\ y.suppress /\ y.need = x.need
  BY DEF SettledBy, Builders, Bufs

\* The bookkeeping looks at the flags alone.
LEMMA SettledLike ==
  ASSUME NEW x \in Builders, NEW y \in Builders, Like(x, y), NEW a
  PROVE  Like(SettledBy(a, x), SettledBy(a, y))
  <1>0. x.depth = y.depth /\ x.need = y.need /\ x.suppress = y.suppress /\ x.err = y.err
    BY DEF Like
  <1>1. CASE a = "push"
    <2>1. CASE x.depth >= JB_MAX_DEPTH
      <3>1. SettledBy(a, x) = [x EXCEPT !.err = TRUE] /\ SettledBy(a, y) = [y EXCEPT !.err = TRUE]
        BY <1>0, <1>1, <2>1 DEF SettledBy
      <3> QED
        BY <1>0, <3>1 DEF Builders, Bufs, Like
    <2>2. CASE ~(x.depth >= JB_MAX_DEPTH)
      <3> DEFINE n == [x.need EXCEPT ![x.depth + 1] = FALSE]
      <3>1. SettledBy(a, x) = [x EXCEPT !.depth = x.depth + 1, !.need = n]
            /\ SettledBy(a, y) = [y EXCEPT !.depth = x.depth + 1, !.need = n]
        BY <1>0, <1>1, <2>2 DEF SettledBy
      <3> HIDE DEF n
      <3> QED
        BY <1>0, <3>1 DEF Builders, Bufs, Like
    <2> QED
      BY <2>1, <2>2
  <1>2. ASSUME NEW u \in Builders, NEW v \in Builders, Like(u, v) PROVE Like(Marked(u), Marked(v))
    <2>0. u.depth = v.depth /\ u.need = v.need /\ u.suppress = v.suppress /\ u.err = v.err
      BY <1>2 DEF Like
    <2> DEFINE p == Marked(u)
               q == Marked(v)
    <2>1. /\ p.depth = u.depth /\ p.suppress = u.suppress /\ p.err = u.err
          /\ p.need = IF u.depth > 0 THEN [u.need EXCEPT ![u.depth] = TRUE] ELSE u.need
      BY MarkedDoes
    <2>2. /\ q.depth = v.depth /\ q.suppress = v.suppress /\ q.err = v.err
          /\ q.need = IF v.depth > 0 THEN [v.need EXCEPT ![v.depth] = TRUE] ELSE v.need
      BY MarkedDoes
    <2> HIDE DEF p, q
    <2>3. p.need = q.need /\ p.depth = q.depth
      BY <2>0, <2>1, <2>2
    <2>4. p.suppress = q.suppress /\ p.err = q.err
      BY <2>0, <2>1, <2>2, Zenon
    <2>5. Like(p, q)
      BY <2>3, <2>4, Zenon DEF Like
    <2> QED
      BY <2>5 DEF p, q
  <1>3. Like(Popped(x), Popped(y)) /\ Popped(x) \in Builders /\ Popped(y) \in Builders
    BY <1>0, PoppedDoes DEF Like
  <1>4. CASE a = "pop"
    BY <1>2, <1>3, <1>4 DEF SettledBy
  <1>5. CASE a = "post"
    BY <1>2, <1>5 DEF SettledBy
  <1>6. CASE a \notin {"push", "pop", "post"}
    BY <1>0, <1>6 DEF SettledBy, Builders, Bufs, Like
  <1> QED
    BY <1>1, <1>4, <1>5, <1>6

-----------------------------------------------------------------------------
(***************************************************************************)
(* The reader is where the caller is: Agreed, call by call.                *)
(***************************************************************************)
\* The builder x as the running call leaves it, when t is yet to be put.
DueOf(x, t, a) == IF t = <<>> THEN x ELSE SettledBy(a, x)
Due == DueOf(b, todo, after)

\* Where the reader is between two calls.
Ready(x, o, k, c) ==
  IF k THEN "value"
  ELSE IF o = <<>> THEN (IF c = 0 THEN "value" ELSE "end")
  ELSE IF x.need[x.depth] THEN "next"
  ELSE IF Last(o) = Obj THEN "member" ELSE "first"

\* The builder x and the text t are those of a caller that has the containers
\* o open, said w, and called jb_key last if k.
Agrees(x, o, k, c, w, t) ==
  /\ x.depth = Len(o) /\ x.suppress = k
  /\ Reading(t) = [at |-> Ready(x, o, k, c), nest |-> o, said |-> w]

Typed ==
  /\ b \in Builders /\ todo \in Seq(Element) /\ said \in Seq(Element)
  /\ open \in Seq({Obj, Arr}) /\ keyed \in BOOLEAN /\ calls \in Nat
  /\ str \in Seq(Byte) /\ pc \in {"build", "sent"}
  /\ keyed => open # <<>>
  /\ open # <<>> => calls > 0

Agreed == pc = "build" /\ ~ Due.err => Agrees(Due, open, keyed, calls, said, b.text \o todo)

\* Putting an element of the running call: the text to come stays the same, and
\* so does what the call makes of the flags, or the latch is set.
LEMMA PutMoves ==
  ASSUME b \in Builders, todo \in Seq(Element), Put
  PROVE  /\ b' \in Builders /\ todo' \in Seq(Element)
         /\ ~ Due'.err => Like(Due', Due) /\ b'.text \o todo' = b.text \o todo
  <1> DEFINE h == Head(todo)
             t == Tail(todo)
             x == b.text
             put == [b EXCEPT !.text = Append(@, h)]
             big == [put EXCEPT !.cap = Grown]
             bad == [b EXCEPT !.err = TRUE]
             end(y) == IF Len(todo) = 1 THEN Settled(y) ELSE y
  <1>0. todo # <<>> /\ todo' = t /\ after' = after
    BY DEF Put, Idle
  <1>1. h \in Element /\ t \in Seq(Element) /\ (Len(todo) = 1 <=> t = <<>>)
    <2>1. h \in Element /\ t \in Seq(Element) /\ Len(t) = Len(todo) - 1 /\ Len(todo) \in Nat
      BY <1>0, HeadTailProperties, LenProperties
    <2>2. t = <<>> <=> Len(t) = 0
      BY <2>1, EmptySeq
    <2> HIDE DEF t
    <2> QED
      BY <2>1, <2>2
  <1>2. Append(x, h) \o t = x \o todo /\ x \in Seq(Element) /\ Append(x, h) \in Seq(Element)
    <2>1. x \in Seq(Element)
      BY DEF Builders, Bufs
    <2> HIDE DEF x
    <2>2. todo = <<h>> \o t /\ <<h>> \in Seq(Element)
      BY <1>0, <1>1
    <2> HIDE DEF h, t
    <2>3. Append(x, h) = x \o <<h>>
      BY <1>1, <2>1, AppendIsConcat
    <2> DEFINE o == <<h>>
    <2> HIDE DEF o
    <2>4. o \in Seq(Element) /\ (x \o o) \o t = x \o (o \o t)
      <3>1. o \in Seq(Element)
        BY <2>2 DEF o
      <3> QED
        BY <1>1, <2>1, <3>1, ConcatAssociative
    <2>5. Append(x, h) \in Seq(Element)
      BY <1>1, <2>1, AppendProperties
    <2> QED
      BY <2>1, <2>2, <2>3, <2>4, <2>5 DEF o
  <1> HIDE DEF h, t, x
  <1>3. /\ put \in Builders /\ Like(put, b) /\ put.text = Append(x, h)
        /\ bad \in Builders /\ bad.err
    <2> DEFINE e == Append(x, h)
    <2>1. e \in Seq(Element) /\ put = [b EXCEPT !.text = e]
      BY <1>2 DEF x
    <2> HIDE DEF e
    <2>2. put \in Builders /\ put.text = e /\ Like(put, b)
      BY <2>1 DEF Builders, Bufs, Like
    <2>3. bad \in Builders /\ bad.err
      BY DEF Builders, Bufs
    <2> QED
      BY <2>2, <2>3 DEF e
  <1> HIDE DEF put, bad
  <1>4. big \in Builders /\ Like(big, b) /\ big.text = Append(x, h)
    <2>1. Grown \in Nat
      BY BuilderAssumption DEF Grown, Builders, Bufs
    <2> DEFINE e == Append(x, h)
    <2> HIDE DEF e
    <2>2. put \in Builders /\ Like(put, b) /\ put.text = e
      BY <1>3 DEF e
    <2>3. big \in Builders /\ big.text = e /\ Like(big, put)
      BY <2>1, <2>2 DEF Builders, Bufs, Like
    <2>4. Like(big, b)
      BY <2>2, <2>3, Zenon DEF Like
    <2> QED
      BY <2>3, <2>4 DEF e
  <1> HIDE DEF big
  <1>5. b' \in {end(b), end(put), end(big), end(bad)} /\ (b' = end(b) => b.err \/ b' \in {end(put), end(big), end(bad)})
    BY DEF Put, put, big, bad, h
  <1>6. \A y : Settled(y) = SettledBy(after, y)
    BY DEF Settled, SettledBy
  <1>7. ASSUME NEW y \in Builders
        PROVE  /\ end(y) \in Builders /\ end(y).text = y.text /\ (y.err => DueOf(end(y), t, after).err)
               /\ DueOf(end(y), t, after) = SettledBy(after, y)
    <2>1. SettledBy(after, y) \in Builders /\ SettledBy(after, y).text = y.text
          /\ (y.err => SettledBy(after, y).err)
      BY SettledByDoes
    <2>2. CASE Len(todo) = 1
      BY <1>1, <1>6, <2>1, <2>2 DEF DueOf
    <2>3. CASE Len(todo) # 1
      BY <1>1, <1>6, <2>1, <2>3 DEF DueOf
    <2> QED
      BY <2>2, <2>3
  <1> HIDE DEF end
  <1>8. Due' = DueOf(b', t, after) /\ Due = SettledBy(after, b)
    BY <1>0 DEF Due, DueOf
  <1>9. ASSUME NEW y \in {put, big}, b' = end(y)
        PROVE  b' \in Builders /\ Like(Due', Due) /\ b'.text \o todo' = b.text \o todo
    <2>1. y \in Builders /\ Like(y, b) /\ y.text = Append(x, h)
      BY <1>3, <1>4
    <2>2. Like(SettledBy(after, y), SettledBy(after, b))
      BY <2>1, SettledLike
    <2>3. b' \in Builders /\ b'.text = Append(x, h) /\ Due' = SettledBy(after, y)
      BY <1>7, <1>8, <1>9, <2>1
    <2> QED
      BY <1>0, <1>2, <1>8, <2>2, <2>3 DEF x
  <1>10. ASSUME NEW y \in {b, bad}, y.err, b' = end(y)
         PROVE  b' \in Builders /\ Due'.err
    BY <1>3, <1>7, <1>8, <1>10
  <1> QED
    BY <1>0, <1>1, <1>3, <1>5, <1>9, <1>10

\* Reading one element more.
LEMMA ReadOne ==
  ASSUME NEW t \in Seq(Element), NEW x \in Element
  PROVE  Reading(t \o <<x>>) = Read(Reading(t), x) /\ t \o <<x>> \in Seq(Element)
  <1>1. Append(t, x) = t \o <<x>> /\ Append(t, x) \in Seq(Element)
    BY AppendIsConcat, AppendProperties
  <1> QED
    BY <1>1, ReadingAppend

\* The marks of JSON are elements.
LEMMA MarksAre == {Quote, Comma, Colon, Obj, Arr, Closing(Obj), Closing(Arr), Word} \subseteq Element
  <1>1. \A x \in {34, 44, 58, 123, 91, 125, 93} : x \in Byte
    BY DEF Byte
  <1>2. \A x \in {Quote, Comma, Colon, Obj, Arr, Closing(Obj), Closing(Arr)} : x \in Byte
    BY <1>1 DEF Quote, Comma, Colon, Obj, Arr, Closing
  <1>3. Word \in Element
    <2> DEFINE m == 1000 + (64 * 1024 - 3)
    <2>1. Element = 0 .. m /\ m \in Int /\ 0 <= m
      BY SMT DEF Element, Escape, Unknown
    <2> HIDE DEF m
    <2> QED
      BY <2>1 DEF Word
  <1> QED
    BY <1>2, <1>3, ByteIs

\* Where the reader is between two calls, if none has failed.
LEMMA BetweenCalls ==
  ASSUME Typed, Agreed, Building, ~ b.err
  PROVE  /\ Reading(b.text) = [at |-> Ready(b, open, keyed, calls), nest |-> open, said |-> said]
         /\ b.depth = Len(open) /\ b.suppress = keyed /\ b.text \in Seq(Element) /\ Len(open) \in Nat
         /\ (open = <<>> <=> Len(open) = 0)
  <1>1. todo = <<>> /\ Due = b /\ pc = "build"
    BY DEF Building, Idle, Due, DueOf
  <1>2. Agrees(b, open, keyed, calls, said, b.text \o todo)
    BY <1>1 DEF Agreed
  <1>3. b.text \in Seq(Element)
    BY DEF Typed, Builders, Bufs
  <1>4. b.text \o todo = b.text
    <2> DEFINE x == b.text
    <2> HIDE DEF x
    <2>1. x \o <<>> = x
      BY <1>3, ConcatEmptySeq DEF x
    <2> QED
      BY <1>1, <2>1 DEF x
  <1>5. Len(open) \in Nat /\ (open = <<>> <=> Len(open) = 0)
    BY LenProperties, EmptySeq DEF Typed
  <1> QED
    BY <1>2, <1>3, <1>4, <1>5 DEF Agrees

\* Before a value the separator, if one is due, is read as such.
LEMMA BeforeValue ==
  ASSUME Typed, Agreed, Building, ~ b.err, WantsValue
  PROVE  LET t == b.text \o (IF b.suppress THEN <<>> ELSE Separator)
         IN  /\ t \in Seq(Element)
             /\ \E v \in {"value", "first"} : Reading(t) = [at |-> v, nest |-> open, said |-> said]
  <1> DEFINE x == b.text
             sep == IF b.suppress THEN <<>> ELSE Separator
             at == Ready(b, open, keyed, calls)
             r == [at |-> at, nest |-> open, said |-> said]
  <1>1. Reading(x) = r /\ b.depth = Len(open) /\ b.suppress = keyed /\ x \in Seq(Element) /\ Len(open) \in Nat
        /\ (open = <<>> <=> Len(open) = 0)
    BY BetweenCalls
  <1>2. x \o <<>> = x /\ r.at = at /\ r.nest = open /\ r.said = said
    <2>1. x \o <<>> = x
      <3> HIDE DEF x
      <3> QED
        BY <1>1, ConcatEmptySeq
    <2> QED
      BY <2>1
  <1> HIDE DEF x
  <1>3. CASE keyed
    <2>1. sep = <<>> /\ at = "value"
      BY <1>1, <1>3 DEF Ready
    <2> QED
      BY <1>1, <1>2, <2>1 DEF x
  <1>4. CASE ~ keyed /\ open = <<>>
    <2>1. calls = 0
      BY <1>4 DEF WantsValue, In
    <2>2. sep = <<>> /\ at = "value"
      BY <1>1, <1>4, <2>1 DEF Ready, Separator
    <2> QED
      BY <1>1, <1>2, <2>2 DEF x
  <1>5. CASE ~ keyed /\ open # <<>>
    <2>1. Last(open) = Arr /\ b.depth > 0
      BY <1>1, <1>5 DEF WantsValue, In
    <2>2. CASE b.need[b.depth]
      <3>1. sep = <<Comma>> /\ at = "next"
        BY <1>1, <1>5, <2>1, <2>2 DEF Ready, Separator
      <3> HIDE DEF at, r
      <3>2. Comma \in Element
        BY MarksAre
      <3>3. Reading(x \o <<Comma>>) = Read(r, Comma) /\ x \o <<Comma>> \in Seq(Element)
        BY <1>1, <3>2, ReadOne
      <3>4. Arr # Obj
        BY DEF Arr, Obj
      <3>5. Read(r, Comma) = [r EXCEPT !.at = IF r.nest # <<>> /\ Last(r.nest) = Obj THEN "key" ELSE "value"]
        BY <1>2, <3>1, ReadCases
      <3>6. ~ (r.nest # <<>> /\ Last(r.nest) = Obj)
        BY <1>2, <2>1, <3>4
      <3>7. Read(r, Comma) = [r EXCEPT !.at = "value"]
        BY <3>5, <3>6
      <3>8. [r EXCEPT !.at = "value"] = [at |-> "value", nest |-> open, said |-> said]
        BY DEF r
      <3> QED
        BY <3>1, <3>3, <3>7, <3>8 DEF x
    <2>3. CASE ~ b.need[b.depth]
      <3>1. sep = <<>> /\ at = "first"
        <4>1. Arr # Obj
          BY DEF Arr, Obj
        <4> QED
          BY <1>1, <1>5, <2>1, <2>3, <4>1 DEF Ready, Separator
      <3> QED
        BY <1>1, <1>2, <3>1 DEF x
    <2> QED
      BY <2>2, <2>3
  <1> QED
    BY <1>3, <1>4, <1>5

\* Before a key likewise.
LEMMA BeforeKey ==
  ASSUME Typed, Agreed, Building, ~ b.err, In(Obj), ~ keyed
  PROVE  LET t == b.text \o Separator
         IN  /\ t \in Seq(Element)
             /\ \E v \in {"member", "key"} : Reading(t) = [at |-> v, nest |-> open, said |-> said]
  <1> DEFINE x == b.text
             at == Ready(b, open, keyed, calls)
             r == [at |-> at, nest |-> open, said |-> said]
  <1>1. Reading(x) = r /\ b.depth = Len(open) /\ b.suppress = keyed /\ x \in Seq(Element) /\ Len(open) \in Nat
        /\ (open = <<>> <=> Len(open) = 0)
    BY BetweenCalls
  <1>2. x \o <<>> = x /\ r.at = at /\ r.nest = open /\ r.said = said
    <2>1. x \o <<>> = x
      <3> HIDE DEF x
      <3> QED
        BY <1>1, ConcatEmptySeq
    <2> QED
      BY <2>1
  <1> HIDE DEF x
  <1>3. open # <<>> /\ Last(open) = Obj /\ b.depth > 0
    BY <1>1 DEF In
  <1>4. CASE b.need[b.depth]
    <2>1. Separator = <<Comma>> /\ at = "next"
      BY <1>1, <1>3, <1>4 DEF Ready, Separator
    <2> HIDE DEF at, r
    <2>2. Comma \in Element
      BY MarksAre
    <2>3. Reading(x \o <<Comma>>) = Read(r, Comma) /\ x \o <<Comma>> \in Seq(Element)
      BY <1>1, <2>2, ReadOne
    <2>4. Read(r, Comma) = [r EXCEPT !.at = IF r.nest # <<>> /\ Last(r.nest) = Obj THEN "key" ELSE "value"]
      BY <1>2, <2>1, ReadCases
    <2>5. r.nest # <<>> /\ Last(r.nest) = Obj
      BY <1>2, <1>3
    <2>6. Read(r, Comma) = [r EXCEPT !.at = "key"]
      BY <2>4, <2>5
    <2>7. [r EXCEPT !.at = "key"] = [at |-> "key", nest |-> open, said |-> said]
      BY DEF r
    <2> QED
      BY <2>1, <2>3, <2>6, <2>7 DEF x
  <1>5. CASE ~ b.need[b.depth]
    <2>1. Separator = <<>> /\ at = "member"
      BY <1>1, <1>3, <1>5 DEF Ready, Separator
    <2> QED
      BY <1>1, <1>2, <2>1 DEF x
  <1> QED
    BY <1>4, <1>5

\* What pre_value puts before a value is elements.
LEMMA SeparatorType == Separator \in Seq(Element) /\ <<>> \in Seq(Element)
  <1>1. Comma \in Element
    BY MarksAre
  <1>2. <<Comma>> \in Seq(Element) /\ <<>> \in Seq(Element)
    BY <1>1
  <1> QED
    BY <1>2 DEF Separator

\* A value, read where one is due.
LEMMA ValueReads ==
  ASSUME NEW t \in Seq(Element), NEW v \in {"value", "first"}, Typed,
         Reading(t) = [at |-> v, nest |-> open, said |-> said], NEW s \in {<<Word>>, emit_string(str)}
  PROVE  Reading(t \o s) = [at |-> EndOf(open), nest |-> open, said |-> said \o s]
  <1> DEFINE r == [at |-> v, nest |-> open, said |-> said]
  <1>1. r.at = v /\ r.nest = open /\ r.said = said /\ said \in Seq(Element) /\ str \in Seq(Byte)
    BY DEF Typed
  <1>2. Reading(t) = r
    OBVIOUS
  <1> HIDE DEF r
  <1>3. CASE s = <<Word>>
    <2>1. Word \in Element
      BY MarksAre
    <2>2. Reading(t \o <<Word>>) = Read(r, Word)
      BY <1>2, <2>1, ReadOne
    <2>3. Read(r, Word) = Went(r, Word, EndOf(r.nest), r.nest)
      BY <1>1, ReadCases
    <2>4. Append(said, Word) = said \o <<Word>>
      BY <1>1, <2>1, AppendIsConcat
    <2> QED
      BY <1>1, <1>3, <2>2, <2>3, <2>4 DEF Went
  <1>4. CASE s = emit_string(str)
    <2>1. Reading(t \o emit_string(str)) = Gone(r, emit_string(str), EndOf(r.nest), r.nest)
      BY <1>1, <1>2, ReadLiteral
    <2> QED
      BY <1>1, <1>4, <2>1 DEF Gone
  <1> QED
    BY <1>3, <1>4

\* So is a scalar, and it is not empty.
LEMMA ValueType ==
  ASSUME Typed, NEW s \in {<<Word>>, emit_string(str)}
  PROVE  s \in Seq(Element) /\ s # <<>>
  <1>1. Word \in Element /\ str \in Seq(Byte)
    BY MarksAre DEF Typed
  <1>2. <<Word>> \in Seq(Element) /\ <<Word>> # <<>>
    BY <1>1
  <1>3. <<>> \in Seq(Element)
    OBVIOUS
  <1>4. emit_string(str) \in Seq(Element) /\ emit_string(str) # <<>>
    BY <1>1, <1>3, ReadLiteral
  <1> QED
    BY <1>2, <1>4

\* What two parts put one after the other make of a text.
LEMMA Parts ==
  ASSUME NEW x \in Seq(Element), NEW p \in Seq(Element), NEW s \in Seq(Element), s # <<>>
  PROVE  p \o s \in Seq(Element) /\ p \o s # <<>> /\ x \o (p \o s) = (x \o p) \o s
  BY ConcatProperties, ConcatAssociative, ConcatEqualIffEmpty

\* A call that starts with the builder b: the flags it starts from.
LEMMA Started ==
  ASSUME b \in Builders
  PROVE  LET y == [b EXCEPT !.suppress = FALSE]
         IN  y \in Builders /\ y.text = b.text /\ y.depth = b.depth /\ y.err = b.err /\ ~ y.suppress
             /\ y.need = b.need
  BY DEF Builders, Bufs

\* A call that starts after one has failed has failed too.
LEMMA FailedCall ==
  ASSUME NEW x \in Builders, x.err, NEW t, NEW a
  PROVE  DueOf(x, t, a).err
  BY SettledByDoes DEF DueOf

\* jb_str, jb_int, jb_bool and jb_null.
LEMMA PutValueAgrees ==
  ASSUME Typed, Agreed, PutValue
  PROVE  Typed' /\ Agreed'
  <1> DEFINE x == b.text
             sep == IF b.suppress THEN <<>> ELSE Separator
             y == [b EXCEPT !.suppress = FALSE]
             z == SettledBy("post", y)
  <1>1. PICK s \in {<<Word>>, emit_string(str)} : Value(s, "post") /\ Say(s)
    BY DEF PutValue
  <1>2. /\ Building /\ WantsValue /\ pc = "build" /\ pc' = "build" /\ calls' = calls + 1 /\ keyed' = FALSE /\ open' = open
        /\ todo' = sep \o s /\ b' = y /\ after' = "post" /\ said' = said \o s /\ str' = str
    BY <1>1 DEF PutValue, Counted, Value, Say, Building
  <1>3. x \in Seq(Element) /\ said \in Seq(Element) /\ calls \in Nat /\ open \in Seq({Obj, Arr}) /\ b \in Builders
    BY DEF Typed, Builders, Bufs
  <1>4. s \in Seq(Element) /\ s # <<>>
    BY ValueType
  <1>5. sep \in Seq(Element)
    BY SeparatorType
  <1>6. y \in Builders /\ y.text = x /\ y.depth = b.depth /\ y.err = b.err /\ ~ y.suppress
    BY <1>3, Started
  <1> HIDE DEF x, sep, y
  <1>7. sep \o s \in Seq(Element) /\ sep \o s # <<>> /\ x \o (sep \o s) = (x \o sep) \o s
    BY <1>3, <1>4, <1>5, Parts
  <1>8. said \o s \in Seq(Element)
    BY <1>3, <1>4, ConcatProperties
  <1>9. calls + 1 \in Nat /\ calls + 1 > 0 /\ calls + 1 # 0
    BY <1>3
  <1>10. Typed'
    BY <1>2, <1>3, <1>6, <1>7, <1>8, <1>9 DEF Typed
  <1>11. Due' = z
    BY <1>2, <1>7 DEF Due, DueOf
  <1>12. CASE b.err
    <2>1. z.err
      BY <1>6, <1>12, SettledByDoes
    <2> QED
      BY <1>10, <1>11, <2>1 DEF Agreed
  <1>13. CASE ~ b.err
    <2>1. PICK v \in {"value", "first"} : Reading(x \o sep) = [at |-> v, nest |-> open, said |-> said]
      BY <1>2, <1>13, BeforeValue DEF x, sep
    <2>2. x \o sep \in Seq(Element)
      BY <1>3, <1>5, ConcatProperties
    <2>3. Reading(x \o (sep \o s)) = [at |-> EndOf(open), nest |-> open, said |-> said \o s]
      BY <1>7, <2>1, <2>2, ValueReads
    <2>4. b.depth = Len(open) /\ Len(open) \in Nat /\ (open = <<>> <=> Len(open) = 0)
      BY <1>2, <1>13, BetweenCalls
    <2>5. z.depth = Len(open) /\ ~ z.suppress /\ (open # <<>> => z.need[z.depth])
      <3> HIDE DEF z
      <3>1. z.depth = y.depth /\ z.suppress = y.suppress /\ (y.depth > 0 => z.need[z.depth])
        BY <1>6, PostDoes DEF z
      <3>2. y.depth = Len(open) /\ (open # <<>> => y.depth > 0)
        BY <1>6, <2>4
      <3> QED
        BY <1>6, <3>1, <3>2
    <2>6. z.suppress = FALSE
      <3>1. z.suppress \in BOOLEAN
        BY <1>6, SettledByDoes DEF Builders, Bufs
      <3> QED
        BY <2>5, <3>1
    <2> HIDE DEF z
    <2>7. Ready(z, open, FALSE, calls + 1) = EndOf(open)
      BY <1>9, <2>5 DEF Ready, EndOf
    <2>8. Agrees(z, open, FALSE, calls + 1, said \o s, x \o (sep \o s))
      BY <2>3, <2>5, <2>6, <2>7 DEF Agrees
    <2>9. b'.text = x
      BY <1>2, <1>6
    <2> QED
      BY <1>2, <1>10, <1>11, <2>8, <2>9 DEF Agreed
  <1> QED
    BY <1>12, <1>13

\* jb_obj_open and jb_arr_open.
LEMMA OpenAgrees ==
  ASSUME Typed, Agreed, OpenContainer
  PROVE  Typed' /\ Agreed'
  <1> DEFINE x == b.text
             sep == IF b.suppress THEN <<>> ELSE Separator
             y == [b EXCEPT !.suppress = FALSE]
             z == SettledBy("push", y)
  <1>1. PICK c \in {Obj, Arr} : Value(<<c>>, "push") /\ open' = Append(open, c) /\ Say(<<c>>)
    BY DEF OpenContainer
  <1> DEFINE s == <<c>>
             o == Append(open, c)
  <1>2. /\ Building /\ WantsValue /\ pc = "build" /\ pc' = "build" /\ calls' = calls + 1 /\ keyed' = FALSE /\ open' = o
        /\ todo' = sep \o s /\ b' = y /\ after' = "push" /\ said' = said \o s /\ str' = str
    BY <1>1 DEF OpenContainer, Counted, Value, Say, Building
  <1>3. x \in Seq(Element) /\ said \in Seq(Element) /\ calls \in Nat /\ open \in Seq({Obj, Arr}) /\ b \in Builders
    BY DEF Typed, Builders, Bufs
  <1>4. c \in Element /\ s \in Seq(Element) /\ s # <<>>
    <2>1. c \in Element
      BY MarksAre
    <2> QED
      BY <2>1
  <1>5. sep \in Seq(Element)
    BY SeparatorType
  <1>6. y \in Builders /\ y.text = x /\ y.depth = b.depth /\ y.err = b.err /\ ~ y.suppress
    BY <1>3, Started
  <1>6a. Append(said, c) = said \o s
    BY <1>3, <1>4, AppendIsConcat
  <1>6b. o \in Seq({Obj, Arr}) /\ o # <<>> /\ Len(o) = Len(open) + 1 /\ Last(o) = c
    <2>1. o \in Seq({Obj, Arr}) /\ o # <<>> /\ Len(o) = Len(open) + 1 /\ o[Len(open) + 1] = c
      BY <1>3, AppendProperties
    <2> QED
      BY <2>1 DEF Last
  <1>6c. b.text \o sep \in Seq(Element)
    BY <1>3, <1>5, ConcatProperties
  <1>6d. ASSUME NEW t \in Seq(Element) PROVE Reading(t \o s) = Read(Reading(t), c)
    BY <1>4, ReadOne
  <1> HIDE DEF x, sep, y, s, o
  <1>7. sep \o s \in Seq(Element) /\ sep \o s # <<>> /\ x \o (sep \o s) = (x \o sep) \o s
    BY <1>3, <1>4, <1>5, Parts
  <1>8. said \o s \in Seq(Element)
    BY <1>3, <1>4, ConcatProperties
  <1>9. calls + 1 \in Nat /\ calls + 1 > 0 /\ calls + 1 # 0
    BY <1>3
  <1>10. Typed'
    BY <1>2, <1>3, <1>6, <1>6b, <1>7, <1>8, <1>9 DEF Typed
  <1>11. Due' = z
    BY <1>2, <1>7 DEF Due, DueOf
  <1>12. CASE z.err
    BY <1>10, <1>11, <1>12 DEF Agreed
  <1>13. CASE ~ z.err
    <2>0. ~ b.err
      BY <1>6, <1>13, SettledByDoes
    <2>1. PICK v \in {"value", "first"} : Reading(x \o sep) = [at |-> v, nest |-> open, said |-> said]
      BY <1>2, <2>0, BeforeValue DEF x, sep
    <2> DEFINE r == [at |-> v, nest |-> open, said |-> said]
               in == IF c = Obj THEN "member" ELSE "first"
    <2>2. Reading((x \o sep) \o s) = Read(r, c)
      BY <1>6c, <1>6d, <2>1 DEF x
    <2>2a. r.at = v /\ r.nest = open /\ r.said = said
      OBVIOUS
    <2> HIDE DEF r
    <2>2b. Read(r, c) = Went(r, c, in, o)
      <3>0. Obj # Arr
        BY DEF Obj, Arr
      <3>1. CASE c = Obj
        BY <2>2a, <3>1, ReadCases DEF o
      <3>2. CASE c = Arr
        BY <2>2a, <3>0, <3>2, ReadCases DEF o
      <3> QED
        BY <3>1, <3>2
    <2>3. Reading(x \o (sep \o s)) = [at |-> in, nest |-> o, said |-> said \o s]
      BY <1>6a, <1>7, <2>2, <2>2a, <2>2b DEF Went
    <2>4. b.depth = Len(open) /\ Len(open) \in Nat
      BY <1>2, <2>0, BetweenCalls
    <2>5. z.depth = Len(o) /\ ~ z.suppress /\ ~ z.need[z.depth]
      <3> HIDE DEF z
      <3>1. z.depth = y.depth + 1 /\ z.suppress = y.suppress /\ ~ z.need[z.depth]
        BY <1>6, <1>13, PushDoes DEF z
      <3> QED
        BY <1>6, <1>6b, <2>4, <3>1
    <2>6. z.suppress = FALSE
      <3>1. z.suppress \in BOOLEAN
        BY <1>6, SettledByDoes DEF Builders, Bufs
      <3> QED
        BY <2>5, <3>1
    <2> HIDE DEF z
    <2>7. Ready(z, o, FALSE, calls + 1) = in
      BY <1>6b, <2>5 DEF Ready
    <2>8. Agrees(z, o, FALSE, calls + 1, said \o s, x \o (sep \o s))
      BY <2>3, <2>5, <2>6, <2>7 DEF Agrees
    <2>9. b'.text = x
      BY <1>2, <1>6
    <2> QED
      BY <1>2, <1>10, <1>11, <2>8, <2>9 DEF Agreed
  <1> QED
    BY <1>12, <1>13

\* jb_key.
LEMMA KeyAgrees ==
  ASSUME Typed, Agreed, PutKey
  PROVE  Typed' /\ Agreed'
  <1> DEFINE x == b.text
             sep == Separator
             s == emit_string(str)
             d == <<Colon>>
             z == SettledBy("key", b)
  <1>2. /\ Building /\ pc = "build" /\ pc' = "build" /\ calls' = calls + 1 /\ keyed' = TRUE /\ open' = open
        /\ todo' = (sep \o s) \o d /\ b' = b /\ after' = "key" /\ said' = said \o s /\ str' = str
        /\ ~ keyed /\ In(Obj)
    BY DEF PutKey, Counted, jb_key, Say, Building
  <1>3. x \in Seq(Element) /\ said \in Seq(Element) /\ calls \in Nat /\ open \in Seq({Obj, Arr}) /\ b \in Builders
        /\ str \in Seq(Byte) /\ open # <<>>
    BY <1>2 DEF Typed, Builders, Bufs, In
  <1>4. s \in Seq(Element) /\ s # <<>>
    BY ValueType DEF Typed
  <1>5. sep \in Seq(Element)
    BY SeparatorType
  <1>6. d \in Seq(Element) /\ d # <<>> /\ Colon \in Element
    <2>1. Colon \in Element
      BY MarksAre
    <2> QED
      BY <2>1
  <1>6a. ASSUME NEW t \in Seq(Element) PROVE Reading(t \o d) = Read(Reading(t), Colon)
    BY <1>6, ReadOne
  <1>6b. b.text = x
    OBVIOUS
  <1> HIDE DEF x, sep, s, d
  <1>7. /\ sep \o s \in Seq(Element) /\ x \o (sep \o s) = (x \o sep) \o s
        /\ (sep \o s) \o d \in Seq(Element) /\ (sep \o s) \o d # <<>>
        /\ x \o ((sep \o s) \o d) = ((x \o sep) \o s) \o d
        /\ x \o sep \in Seq(Element) /\ (x \o sep) \o s \in Seq(Element)
    <2>1. sep \o s \in Seq(Element) /\ x \o (sep \o s) = (x \o sep) \o s
      BY <1>3, <1>4, <1>5, Parts
    <2> DEFINE p == sep \o s
    <2>1a. p \in Seq(Element)
      BY <2>1
    <2> HIDE DEF p
    <2>2. p \o d \in Seq(Element) /\ p \o d # <<>> /\ x \o (p \o d) = (x \o p) \o d
      BY <1>3, <1>6, <2>1a, Parts
    <2>3. x \o sep \in Seq(Element)
      BY <1>3, <1>5, ConcatProperties
    <2>4. (x \o sep) \o s \in Seq(Element)
      BY <1>4, <2>3, ConcatProperties
    <2> QED
      BY <2>1, <2>2, <2>3, <2>4 DEF p
  <1>8. said \o s \in Seq(Element)
    BY <1>3, <1>4, ConcatProperties
  <1>9. calls + 1 \in Nat /\ calls + 1 > 0
    BY <1>3
  <1>10. Typed'
    BY <1>2, <1>3, <1>7, <1>8, <1>9 DEF Typed
  <1>11. Due' = z
    BY <1>2, <1>7 DEF Due, DueOf
  <1>12. CASE b.err
    <2>1. z.err
      BY <1>3, <1>12, SettledByDoes
    <2> QED
      BY <1>10, <1>11, <2>1 DEF Agreed
  <1>13. CASE ~ b.err
    <2>1. PICK v \in {"member", "key"} : Reading(x \o sep) = [at |-> v, nest |-> open, said |-> said]
      BY <1>2, <1>13, BeforeKey DEF x, sep
    <2> DEFINE r == [at |-> v, nest |-> open, said |-> said]
               g == Gone(r, s, "colon", open)
    <2>2. r.at = v /\ r.nest = open /\ r.said = said
      OBVIOUS
    <2>2a. r = Reading(x \o sep)
      BY <2>1
    <2> HIDE DEF r
    <2>3. Reading((x \o sep) \o s) = g
      BY <1>3, <1>7, <2>2, <2>2a, ReadLiteral DEF s
    <2>4. Reading(x \o ((sep \o s) \o d)) = Read(g, Colon)
      BY <1>6a, <1>7, <2>3
    <2>5. g.at = "colon" /\ g = [at |-> "colon", nest |-> open, said |-> said \o s]
      BY <2>2 DEF Gone
    <2>6. Read(g, Colon) = [g EXCEPT !.at = "value"]
      <3> HIDE DEF g
      <3> QED
        BY <2>5, ReadCases
    <2>7. [g EXCEPT !.at = "value"] = [at |-> "value", nest |-> open, said |-> said \o s]
      <3> DEFINE w == said \o s
      <3>1. g = [at |-> "colon", nest |-> open, said |-> w]
        BY <2>5
      <3> HIDE DEF w, g
      <3>2. \A h : h = [at |-> "colon", nest |-> open, said |-> w] =>
               [h EXCEPT !.at = "value"] = [at |-> "value", nest |-> open, said |-> w]
        OBVIOUS
      <3> QED
        BY <3>1, <3>2 DEF w
    <2>8. b.depth = Len(open)
      BY <1>2, <1>13, BetweenCalls
    <2>9. z.depth = Len(open) /\ z.suppress = TRUE
      <3>1. z.depth = b.depth /\ z.suppress
        BY <1>3, KeyDoes
      <3>2. z.suppress \in BOOLEAN
        BY <1>3, SettledByDoes DEF Builders, Bufs
      <3> QED
        BY <2>8, <3>1, <3>2
    <2> HIDE DEF z, g
    <2>10. Ready(z, open, TRUE, calls + 1) = "value"
      BY DEF Ready
    <2>11. Agrees(z, open, TRUE, calls + 1, said \o s, x \o ((sep \o s) \o d))
      BY <2>4, <2>6, <2>7, <2>9, <2>10 DEF Agrees
    <2> QED
      BY <1>2, <1>6b, <1>10, <1>11, <2>11 DEF Agreed
  <1> QED
    BY <1>12, <1>13

\* jb_obj_close and jb_arr_close.
LEMMA CloseAgrees ==
  ASSUME Typed, Agreed, CloseContainer
  PROVE  Typed' /\ Agreed'
  <1> DEFINE x == b.text
             c == Last(open)
             e == Closing(c)
             s == <<e>>
             o == Front(open)
             z == SettledBy("pop", b)
  <1>2. /\ Building /\ pc = "build" /\ pc' = "build" /\ calls' = calls /\ keyed' = keyed /\ open' = o
        /\ todo' = s /\ b' = b /\ after' = "pop" /\ said' = said \o s /\ str' = str
        /\ ~ keyed /\ open # <<>>
    BY DEF CloseContainer, Close, Say, Building
  <1>3. x \in Seq(Element) /\ said \in Seq(Element) /\ calls \in Nat /\ open \in Seq({Obj, Arr}) /\ b \in Builders
        /\ str \in Seq(Byte) /\ calls > 0
    BY <1>2 DEF Typed, Builders, Bufs
  <1>4. c \in {Obj, Arr} /\ o \in Seq({Obj, Arr}) /\ Len(o) = Len(open) - 1
    BY <1>2, <1>3, LastIn, FrontIn
  <1> HIDE DEF c, o
  <1>5. e \in Element /\ s \in Seq(Element) /\ s # <<>>
    <2>1. e \in Element
      BY <1>4, MarksAre
    <2> HIDE DEF e
    <2> QED
      BY <2>1
  <1>6. Reading(x \o s) = Read(Reading(x), e)
    BY <1>3, <1>5, ReadOne
  <1>6a. Append(said, e) = said \o s
    BY <1>3, <1>5, AppendIsConcat
  <1>6b. b.text = x
    OBVIOUS
  <1> HIDE DEF x, s
  <1>8. said \o s \in Seq(Element)
    BY <1>3, <1>5, ConcatProperties
  <1>10. Typed'
    BY <1>2, <1>3, <1>4, <1>5, <1>8 DEF Typed
  <1>11. Due' = z
    BY <1>2, <1>5 DEF Due, DueOf
  <1>12. CASE b.err
    <2>1. z.err
      BY <1>3, <1>12, SettledByDoes
    <2> QED
      BY <1>10, <1>11, <2>1 DEF Agreed
  <1>13. CASE ~ b.err
    <2> DEFINE at == Ready(b, open, keyed, calls)
               r == [at |-> at, nest |-> open, said |-> said]
    <2>1. Reading(x) = r /\ b.depth = Len(open) /\ b.suppress = keyed /\ Len(open) \in Nat
          /\ (open = <<>> <=> Len(open) = 0)
      BY <1>2, <1>13, BetweenCalls DEF x
    <2>2. r.at = at /\ r.nest = open /\ r.said = said
      OBVIOUS
    <2>3. /\ c = Obj => at \in {"member", "next"}
          /\ c = Arr => at \in {"first", "next"}
      <3>1. Obj # Arr
        BY DEF Obj, Arr
      <3> QED
        BY <1>2, <3>1 DEF Ready, c
    <2> HIDE DEF r, at
    <2>4. Read(r, e) = Went(r, e, EndOf(o), o)
      <3> DEFINE G == Read(r, e) = Went(r, e, EndOf(Front(r.nest)), Front(r.nest))
      <3>0. r.nest # <<>> /\ Last(r.nest) = c
        BY <1>2, <2>2 DEF c
      <3>1. CASE c = Obj
        BY <2>2, <2>3, <3>0, <3>1, ReadCases DEF o
      <3>2. CASE c = Arr
        BY <2>2, <2>3, <3>0, <3>2, ReadCases DEF o
      <3> QED
        BY <1>4, <3>1, <3>2
    <2>5. Reading(x \o s) = [at |-> EndOf(o), nest |-> o, said |-> said \o s]
      BY <1>6, <1>6a, <2>1, <2>2, <2>4 DEF Went
    <2>6. Len(o) \in Nat /\ (o = <<>> <=> Len(o) = 0)
      BY <1>4, LenProperties, EmptySeq
    <2>7. z.depth = Len(o) /\ z.suppress = keyed /\ (o # <<>> => z.need[z.depth])
      <3> HIDE DEF z
      <3>1. b.depth > 0
        BY <1>2, <2>1
      <3>2. z.depth = b.depth - 1 /\ z.suppress = b.suppress /\ (z.depth > 0 => z.need[z.depth])
        BY <1>3, <3>1, PopDoes DEF z
      <3>3. z.depth = Len(o) /\ (o # <<>> => z.depth > 0)
        BY <1>4, <2>1, <2>6, <3>2
      <3>4. z.suppress = keyed
        BY <2>1, <3>2, Zenon
      <3> QED
        BY <3>2, <3>3, <3>4
    <2> HIDE DEF z
    <2>8. Ready(z, o, keyed, calls) = EndOf(o)
      BY <1>2, <1>3, <2>7 DEF Ready, EndOf
    <2>9. Agrees(z, o, keyed, calls, said \o s, x \o s)
      BY <2>5, <2>7, <2>8, Zenon DEF Agrees
    <2> QED
      BY <1>2, <1>6b, <1>10, <1>11, <2>9 DEF Agreed
  <1> QED
    BY <1>12, <1>13

\* jb_putc and jb_puts.
LEMMA StepAgrees ==
  ASSUME Typed, Agreed, Step
  PROVE  Typed' /\ Agreed'
  <1>1. /\ b' \in Builders /\ todo' \in Seq(Element)
        /\ ~ Due'.err => Like(Due', Due) /\ b'.text \o todo' = b.text \o todo
    BY PutMoves DEF Typed, Step
  <1>2. UNCHANGED jvars
    BY DEF Step
  <1>3. Typed'
    BY <1>1, <1>2 DEF Typed, jvars
  <1>4. ASSUME pc' = "build", ~ Due'.err
        PROVE  Agrees(Due, open, keyed, calls, said, b.text \o todo)' 
    <2> DEFINE x == Due
               y == Due'
    <2>1. x.depth = y.depth /\ x.need = y.need /\ x.suppress = y.suppress /\ ~ x.err
      BY <1>1, <1>4 DEF Like
    <2>2. Agrees(x, open, keyed, calls, said, b.text \o todo)
      BY <1>2, <1>4, <2>1 DEF Agreed, jvars
    <2> HIDE DEF x, y
    <2>3. Ready(y, open, keyed, calls) = Ready(x, open, keyed, calls)
      BY <2>1, Zenon DEF Ready
    <2>4. Agrees(y, open, keyed, calls, said, b.text \o todo)
      BY <2>1, <2>2, <2>3, Zenon DEF Agrees
    <2>5. Agrees(y, open', keyed', calls', said', b'.text \o todo')
      BY <1>1, <1>2, <1>4, <2>4 DEF jvars
    <2> QED
      BY <2>5 DEF y
  <1> QED
    BY <1>3, <1>4 DEF Agreed

-----------------------------------------------------------------------------
(***************************************************************************)
(* A text that begins with a quote is one string: Alone, call by call.     *)
(***************************************************************************)
\* A text that begins with a quote is a single string, and nothing is open.
Single(t, c, o, s) ==
  IF t = <<>> THEN c = 0
  ELSE c > 0 /\ (t[1] = Quote => t = emit_string(s) /\ o = <<>>)

Alone == pc = "build" /\ ~ Due.err => Single(b.text \o todo, calls, open, str)

SingleReply ==
  reply.body.text # <<>> /\ reply.body.text[1] = Quote => reply.body.text = emit_string(str)

Talk == Typed /\ Agreed /\ WholeReply /\ Alone /\ SingleReply

\* A call puts something, and what was put before stays before it.
LEMMA CallAlone ==
  ASSUME Typed, Agreed, Alone, Building, NEW p \in Seq(Element), p # <<>>,
         todo' = p, b' \in Builders, b'.text = b.text, b'.err = b.err, pc' = pc, str' = str, calls' > 0,
         open # <<>> \/ keyed \/ calls = 0,
         calls = 0 /\ open = <<>> /\ ~ b.err /\ ~ b.suppress /\ b.depth = 0
           => (p[1] = Quote => p = emit_string(str) /\ open' = <<>>)
  PROVE  Alone'
  <1>1. SUFFICES ASSUME ~ Due'.err PROVE Single(b'.text \o todo', calls', open', str')
    BY DEF Alone
  <1>2. ~ b.err
    <2>1. ASSUME b.err PROVE Due'.err
      BY <2>1, FailedCall DEF Due
    <2> QED
      BY <1>1, <2>1
  <1>3. todo = <<>> /\ pc = "build" /\ Due = b
    BY DEF Building, Idle, Due, DueOf
  <1> DEFINE x == b.text
  <1>4. x \in Seq(Element) /\ b.depth = Len(open) /\ b.suppress = keyed /\ (open = <<>> <=> Len(open) = 0)
    BY <1>2, BetweenCalls
  <1>5. Single(x, calls, open, str)
    <2>1. x \o <<>> = x
      <3> HIDE DEF x
      <3> QED
        BY <1>4, ConcatEmptySeq
    <2> QED
      BY <1>2, <1>3, <2>1 DEF Alone
  <1> HIDE DEF x
  <1>6. keyed => open # <<>>
    BY DEF Typed
  <1>7. open # <<>> => calls > 0
    BY DEF Typed
  <1>8. calls \in Nat
    BY DEF Typed
  <1>9. x \o p # <<>> /\ x \o p \in Seq(Element)
    BY <1>4, ConcatProperties, ConcatEqualIffEmpty
  <1>10. CASE x = <<>>
    <2>1. calls = 0
      BY <1>5, <1>10 DEF Single
    <2>2. open = <<>>
      BY <1>7, <1>8, <2>1
    <2>3. ~ keyed /\ b.depth = 0
      BY <1>4, <1>6, <2>2
    <2>4. ~ b.suppress
      BY <1>4, <2>3, Zenon
    <2>5. p[1] = Quote => p = emit_string(str) /\ open' = <<>>
      BY <1>2, <2>1, <2>2, <2>3, <2>4
    <2>6. x \o p = p
      BY <1>10, ConcatEmptySeq
    <2>7. Single(p, calls', open', str')
      BY <2>5 DEF Single
    <2> QED
      BY <2>6, <2>7 DEF x
  <1>11. CASE x # <<>>
    <2>1. calls > 0 /\ (x[1] = Quote => open = <<>>)
      BY <1>5, <1>11 DEF Single
    <2>2. open # <<>>
      <3>1. calls # 0
        BY <1>8, <2>1
      <3> QED
        BY <1>6, <3>1
    <2>3. (x \o p)[1] = x[1]
      <3>1. Joined(Element, x, p, x \o p)
        BY <1>4, ConcatParts, Zenon
      <3>2. 1 \in 1 .. Len(x)
        BY <1>4, <1>11, EmptySeq
      <3> QED
        BY <3>1, <3>2 DEF Joined
    <2>4. Single(x \o p, calls', open', str')
      BY <1>9, <2>1, <2>2, <2>3 DEF Single
    <2> QED
      BY <2>4 DEF x
  <1> QED
    BY <1>10, <1>11

\* A scalar with nothing around it is the whole text.
LEMMA PutValueAlone ==
  ASSUME Typed, Agreed, Alone, PutValue
  PROVE  Alone'
  <1> DEFINE sep == IF b.suppress THEN <<>> ELSE Separator
             y == [b EXCEPT !.suppress = FALSE]
  <1>1. PICK s \in {<<Word>>, emit_string(str)} : Value(s, "post") /\ Say(s)
    BY DEF PutValue
  <1>2. /\ Building /\ WantsValue /\ pc' = pc /\ calls' = calls + 1 /\ open' = open
        /\ todo' = sep \o s /\ b' = y /\ str' = str
    BY <1>1 DEF PutValue, Counted, Value, Say
  <1>3. b \in Builders /\ calls \in Nat
    BY DEF Typed
  <1>4. y \in Builders /\ y.text = b.text /\ y.err = b.err
    BY <1>3, Started
  <1>5. s \in Seq(Element) /\ s # <<>>
    BY ValueType
  <1>6. sep \in Seq(Element)
    BY SeparatorType
  <1>7. ~ b.suppress /\ b.depth = 0 => sep = <<>>
    BY DEF Separator
  <1> HIDE DEF sep, y
  <1>8. sep \o s \in Seq(Element) /\ sep \o s # <<>>
    BY <1>5, <1>6, ConcatProperties, ConcatEqualIffEmpty
  <1>9. <<>> \o s = s
    BY <1>5, ConcatEmptySeq
  <1>10. s[1] = Quote => s = emit_string(str)
    <2>1. <<Word>>[1] = Word /\ Word # Quote
      BY DEF Word, Quote
    <2> QED
      BY <2>1
  <1>11. calls = 0 /\ open = <<>> /\ ~ b.err /\ ~ b.suppress /\ b.depth = 0
           => ((sep \o s)[1] = Quote => sep \o s = emit_string(str) /\ open' = <<>>)
    BY <1>2, <1>7, <1>9, <1>10
  <1>12. calls' > 0
    BY <1>2, <1>3
  <1>13. open # <<>> \/ keyed \/ calls = 0
    BY <1>2 DEF WantsValue, In
  <1> QED
    BY <1>2, <1>4, <1>8, <1>11, <1>12, <1>13, CallAlone

\* A text that begins with a container does not begin with a quote.
LEMMA OpenAlone ==
  ASSUME Typed, Agreed, Alone, OpenContainer
  PROVE  Alone'
  <1> DEFINE sep == IF b.suppress THEN <<>> ELSE Separator
             y == [b EXCEPT !.suppress = FALSE]
  <1>1. PICK c \in {Obj, Arr} : Value(<<c>>, "push") /\ Say(<<c>>)
    BY DEF OpenContainer
  <1> DEFINE s == <<c>>
  <1>2. /\ Building /\ WantsValue /\ pc' = pc /\ calls' = calls + 1
        /\ todo' = sep \o s /\ b' = y /\ str' = str
    BY <1>1 DEF OpenContainer, Counted, Value, Say
  <1>3. b \in Builders /\ calls \in Nat
    BY DEF Typed
  <1>4. y \in Builders /\ y.text = b.text /\ y.err = b.err
    BY <1>3, Started
  <1>5. s \in Seq(Element) /\ s # <<>> /\ s[1] # Quote
    <2>1. c \in Element
      BY MarksAre
    <2>2. c # Quote
      BY DEF Obj, Arr, Quote
    <2> QED
      BY <2>1, <2>2
  <1>6. sep \in Seq(Element)
    BY SeparatorType
  <1>7. ~ b.suppress /\ b.depth = 0 => sep = <<>>
    BY DEF Separator
  <1> HIDE DEF sep, y, s
  <1>8. sep \o s \in Seq(Element) /\ sep \o s # <<>>
    BY <1>5, <1>6, ConcatProperties, ConcatEqualIffEmpty
  <1>9. <<>> \o s = s
    BY <1>5, ConcatEmptySeq
  <1>11. calls = 0 /\ open = <<>> /\ ~ b.err /\ ~ b.suppress /\ b.depth = 0
           => ((sep \o s)[1] = Quote => sep \o s = emit_string(str) /\ open' = <<>>)
    BY <1>5, <1>7, <1>9
  <1>12. calls' > 0
    BY <1>2, <1>3
  <1>13. open # <<>> \/ keyed \/ calls = 0
    BY <1>2 DEF WantsValue, In
  <1> QED
    BY <1>2, <1>4, <1>8, <1>11, <1>12, <1>13, CallAlone

\* jb_key and the closing calls are made inside a container.
LEMMA InsideAlone ==
  ASSUME Typed, Agreed, Alone, PutKey \/ CloseContainer, Typed'
  PROVE  Alone'
  <1>1. Building /\ b' = b /\ pc' = pc /\ str' = str /\ open # <<>>
    BY DEF PutKey, CloseContainer, Counted, jb_key, Close, Say, In
  <1>2. b \in Builders /\ todo' \in Seq(Element) /\ calls \in Nat /\ calls > 0
    BY <1>1 DEF Typed
  <1>3. calls' > 0
    <2>1. calls' \in {calls, calls + 1}
      BY DEF PutKey, CloseContainer, Counted
    <2> QED
      BY <1>2, <2>1
  <1>4. todo' # <<>>
    <2>1. CASE CloseContainer
      BY <2>1 DEF CloseContainer, Close
    <2>2. CASE PutKey
      <3> DEFINE p == Separator \o emit_string(str)
      <3>1. emit_string(str) \in Seq(Element)
        BY ValueType
      <3>2. p \in Seq(Element)
        BY <3>1, SeparatorType, ConcatProperties
      <3>3. <<Colon>> \in Seq(Element) /\ <<Colon>> # <<>>
        <4>1. Colon \in Element
          BY MarksAre
        <4> QED
          BY <4>1
      <3>4. todo' = p \o <<Colon>>
        BY <2>2 DEF PutKey, jb_key
      <3> HIDE DEF p
      <3>5. p \o <<Colon>> # <<>>
        BY <3>2, <3>3, ConcatEqualIffEmpty
      <3> QED
        BY <3>4, <3>5
    <2> QED
      BY <2>1, <2>2
  <1> QED
    BY <1>1, <1>2, <1>3, <1>4, CallAlone

\* jb_putc and jb_puts move an element of the text, or set the latch.
LEMMA StepAlone ==
  ASSUME Typed, Alone, Step
  PROVE  Alone'
  <1>1. ~ Due'.err => Like(Due', Due) /\ b'.text \o todo' = b.text \o todo
    BY PutMoves DEF Typed, Step
  <1>2. UNCHANGED jvars
    BY DEF Step
  <1>3. ASSUME pc' = "build", ~ Due'.err PROVE Single(b'.text \o todo', calls', open', str')
    <2>1. ~ Due.err
      BY <1>1, <1>3 DEF Like
    <2>2. Single(b.text \o todo, calls, open, str)
      BY <1>2, <1>3, <2>1 DEF Alone, jvars
    <2> QED
      BY <1>1, <1>2, <1>3, <2>2 DEF jvars
  <1> QED
    BY <1>3 DEF Alone

-----------------------------------------------------------------------------
(***************************************************************************)
(* The invariant, and a body that is sent as JSON is whole.                *)
(***************************************************************************)
\* A builder started from nothing is where its caller and the reader are.
LEMMA FreshAgrees ==
  /\ Fresh \in Builders /\ ~ Fresh.err /\ Fresh.text = <<>>
  /\ Agrees(Fresh, <<>>, FALSE, 0, <<>>, <<>>)
  /\ <<>> \in Seq(Element) /\ <<>> \in Seq({Obj, Arr})
  <1>1. Fresh \in Builders /\ ~ Fresh.err /\ Fresh.text = <<>> /\ Fresh.depth = 0 /\ Fresh.suppress = FALSE
    BY EmptySeq, BuilderAssumption DEF Fresh, Builders, Bufs
  <1>2. Reading(<<>>) = Unread
    <2>1. <<>> \in Seq(Element) /\ Len(<<>>) = 0
      BY EmptySeq
    <2>2. PICK g : Reads(<<>>, g) /\ Reading(<<>>) = g[0]
      BY <2>1, ReadingDef
    <2> QED
      BY <2>2 DEF Reads
  <1>3. Ready(Fresh, <<>>, FALSE, 0) = "value"
    BY DEF Ready
  <1>4. Len(<<>>) = 0
    BY EmptySeq
  <1> QED
    BY <1>1, <1>2, <1>3, <1>4, EmptySeq DEF Agrees, Unread

\* A caller that has made no call yet.
LEMMA InitTalk == Init => Talk
  <1> SUFFICES ASSUME Init PROVE Talk
    OBVIOUS
  <1>1. /\ b = Fresh /\ todo = <<>> /\ open = <<>> /\ keyed = FALSE /\ calls = 0 /\ said = <<>>
        /\ pc = "build" /\ reply.body = Empty /\ str \in Seq(Byte)
    BY BuilderAssumption DEF Init
  <1>2. Typed
    BY <1>1, FreshAgrees DEF Typed
  <1>3. Due = Fresh /\ b.text \o todo = <<>>
    <2>1. <<>> \o <<>> = <<>>
      BY FreshAgrees, ConcatEmptySeq
    <2> QED
      BY <1>1, <2>1, FreshAgrees DEF Due, DueOf
  <1>4. Agreed
    BY <1>1, <1>3, FreshAgrees DEF Agreed
  <1>5. Alone
    BY <1>1, <1>3 DEF Alone, Single
  <1>6. WholeReply /\ SingleReply
    BY <1>1 DEF WholeReply, SingleReply, Empty
  <1> QED
    BY <1>2, <1>4, <1>5, <1>6 DEF Talk

\* A whole document is where the reader is at its end.
LEMMA CompleteReads ==
  ASSUME Typed, Agreed, Alone, Complete, ~ b.err
  PROVE  /\ Reading(b.text).at = "end" /\ Reading(b.text).said = said
         /\ b.text # <<>> /\ (b.text[1] = Quote => b.text = emit_string(str))
  <1>1. Building /\ open = <<>> /\ calls > 0 /\ calls # 0 /\ pc = "build" /\ ~ keyed /\ todo = <<>> /\ Due = b
    BY DEF Complete, Building, Idle, Due, DueOf, Typed
  <1>2. Reading(b.text) = [at |-> Ready(b, open, keyed, calls), nest |-> open, said |-> said] /\ b.text \in Seq(Element)
    BY <1>1, BetweenCalls
  <1>3. Ready(b, open, keyed, calls) = "end"
    BY <1>1 DEF Ready
  <1>4. b.text \o todo = b.text
    BY <1>1, <1>2, ConcatEmptySeq
  <1>5. Single(b.text, calls, open, str)
    BY <1>1, <1>4 DEF Alone
  <1> QED
    BY <1>1, <1>2, <1>3, <1>5 DEF Single

\* The document goes out whole.
LEMMA SendTalks ==
  ASSUME Talk, SendDocument
  PROVE  Talk'
  <1>1. /\ Complete /\ Taken # <<>> /\ pc' = "sent" /\ reply' = [status |-> Status, body |-> Whole(Taken)]
        /\ UNCHANGED <<kind, str, open, keyed, calls, said, todo>> /\ b' = [b EXCEPT !.text = <<>>, !.cap = 0]
    BY DEF SendDocument, Respond
  <1>2. ~ b.err /\ Taken = b.text
    BY <1>1 DEF Taken, Talk, Typed, Builders, Bufs
  <1>3. b' \in Builders
    <2>1. b \in Builders /\ <<>> \in Seq(Element)
      BY FreshAgrees DEF Talk, Typed
    <2> QED
      BY <1>1, <2>1 DEF Builders, Bufs
  <1>4. Typed'
    BY <1>1, <1>3 DEF Talk, Typed
  <1>5. Agreed' /\ Alone'
    BY <1>1 DEF Agreed, Alone
  <1>6. /\ Reading(b.text).at = "end" /\ Reading(b.text).said = said
        /\ b.text # <<>> /\ (b.text[1] = Quote => b.text = emit_string(str))
    BY <1>1, <1>2, CompleteReads DEF Talk
  <1>7. reply'.body.form = "json" /\ reply'.body.text = b.text /\ said' = said /\ str' = str
    BY <1>1, <1>2 DEF Whole
  <1>8. WholeReply'
    BY <1>6, <1>7, Zenon DEF WholeReply
  <1>9. SingleReply'
    BY <1>6, <1>7 DEF SingleReply
  <1> QED
    BY <1>4, <1>5, <1>8, <1>9 DEF Talk

\* What could not be built is not sent as a document.
LEMMA FallbackTalks ==
  ASSUME Talk, SendFallback
  PROVE  Talk'
  <1>1. /\ pc' = "sent" /\ b' = [b EXCEPT !.text = <<>>, !.cap = 0]
        /\ UNCHANGED <<kind, str, open, keyed, calls, said, todo>>
        /\ kind \in {"problem", "bare"}
        /\ reply' = IF kind = "problem" THEN [status |-> 500, body |-> Oom] ELSE [status |-> Status, body |-> Empty]
    BY DEF SendFallback, Respond, jb_take
  <1>3. b' \in Builders
    <2>1. b \in Builders /\ <<>> \in Seq(Element)
      BY FreshAgrees DEF Talk, Typed
    <2> QED
      BY <1>1, <2>1 DEF Builders, Bufs
  <1>4. Typed'
    BY <1>1, <1>3 DEF Talk, Typed
  <1>5. Agreed' /\ Alone'
    BY <1>1 DEF Agreed, Alone
  <1>6. \/ reply'.body.form = "oom" /\ reply'.status = 500 /\ reply'.body.text = <<>>
        \/ reply'.body.form = "empty" /\ reply'.status # 200 /\ reply'.body.text = <<>>
    BY <1>1 DEF Oom, Empty, Status
  <1>7. "oom" # "json" /\ "empty" # "json" /\ "oom" # "empty"
    OBVIOUS
  <1>8. WholeReply'
    BY <1>6, <1>7, Zenon DEF WholeReply
  <1>9. SingleReply'
    BY <1>6 DEF SingleReply
  <1> QED
    BY <1>4, <1>5, <1>8, <1>9 DEF Talk

\* A problem document is begun in place of what failed.
LEMMA FailureTalks ==
  ASSUME Talk, ReportFailure
  PROVE  Talk'
  <1>1. /\ b' = Fresh /\ open' = <<>> /\ keyed' = FALSE /\ calls' = 0 /\ said' = <<>> /\ todo' = <<>>
        /\ pc = "build" /\ UNCHANGED <<str, pc, reply>>
    BY DEF ReportFailure, StartDocument, Complete, Building, Idle
  <1>2. Typed'
    BY <1>1, FreshAgrees DEF Talk, Typed
  <1>3. Due' = Fresh /\ b'.text \o todo' = <<>>
    <2>1. <<>> \o <<>> = <<>>
      BY FreshAgrees, ConcatEmptySeq
    <2> QED
      BY <1>1, <2>1, FreshAgrees DEF Due, DueOf
  <1>4. Agreed'
    BY <1>1, <1>3, FreshAgrees DEF Agreed
  <1>5. Alone'
    BY <1>1, <1>3 DEF Alone, Single
  <1>6. WholeReply' /\ SingleReply'
    BY <1>1 DEF Talk, WholeReply, SingleReply
  <1> QED
    BY <1>2, <1>4, <1>5, <1>6 DEF Talk

\* Every step keeps the invariant.
LEMMA NextTalk == Talk /\ [Next]_vars => Talk'
  <1> SUFFICES ASSUME Talk, [Next]_vars PROVE Talk'
    OBVIOUS
  <1>1. ASSUME Typed', Agreed', Alone', UNCHANGED <<reply, str>>, pc' = pc, pc = "build"
        PROVE  Talk'
    BY <1>1 DEF Talk, WholeReply, SingleReply
  <1>2. CASE Step
    <2>1. UNCHANGED <<reply, str, pc, said>>
      BY <1>2 DEF Step, jvars
    <2>2. Typed' /\ Agreed' /\ Alone'
      BY <1>2, StepAgrees, StepAlone DEF Talk
    <2>3. WholeReply' /\ SingleReply'
      BY <2>1 DEF Talk, WholeReply, SingleReply
    <2> QED
      BY <2>2, <2>3 DEF Talk
  <1>3. CASE PutValue
    <2>1. UNCHANGED <<reply, str, pc>> /\ pc = "build"
      BY <1>3 DEF PutValue, Say, Counted, Building
    <2> QED
      BY <1>1, <1>3, <2>1, PutValueAgrees, PutValueAlone DEF Talk
  <1>4. CASE OpenContainer
    <2>1. UNCHANGED <<reply, str, pc>> /\ pc = "build"
      BY <1>4 DEF OpenContainer, Say, Counted, Building
    <2> QED
      BY <1>1, <1>4, <2>1, OpenAgrees, OpenAlone DEF Talk
  <1>5. CASE PutKey
    <2>1. UNCHANGED <<reply, str, pc>> /\ pc = "build"
      BY <1>5 DEF PutKey, Say, Counted, Building
    <2> QED
      BY <1>1, <1>5, <2>1, KeyAgrees, InsideAlone DEF Talk
  <1>6. CASE CloseContainer
    <2>1. UNCHANGED <<reply, str, pc>> /\ pc = "build"
      BY <1>6 DEF CloseContainer, Say, Building
    <2> QED
      BY <1>1, <1>6, <2>1, CloseAgrees, InsideAlone DEF Talk
  <1>7. CASE UNCHANGED vars
    <2>1. UNCHANGED <<b, todo, after, kind, str, open, keyed, calls, said, pc, reply>>
      BY <1>7 DEF vars, bvars, jvars
    <2>2. Due' = Due
      BY <2>1 DEF Due, DueOf, SettledBy, Marked, Popped
    <2>3. Typed' /\ Agreed' /\ Alone'
      BY <2>1, <2>2 DEF Talk, Typed, Agreed, Alone
    <2>4. WholeReply' /\ SingleReply'
      BY <2>1 DEF Talk, WholeReply, SingleReply
    <2> QED
      BY <2>3, <2>4 DEF Talk
  <1> QED
    BY <1>2, <1>3, <1>4, <1>5, <1>6, <1>7, SendTalks, FallbackTalks, FailureTalks DEF Next

\* So it always holds.
LEMMA TalkAlways == Spec => []Talk
  BY InitTalk, NextTalk, PTL DEF Spec

\* A body sent as JSON is one whole document, whatever was asked of the
\* builder: jb_take hands out nothing of a builder that failed or is still
\* open, and its callers then answer 500, or without a body.
THEOREM RepliesAreWhole == Spec => []WholeReply
  <1>1. Talk => WholeReply
    BY DEF Talk
  <1> QED
    BY <1>1, TalkAlways, PTL

-----------------------------------------------------------------------------
(***************************************************************************)
(* The bounds of utf8_seq_len are those of UTF-8.                          *)
(***************************************************************************)
\* The code points of two, three and four bytes.
Two(c, d)         == (c - 192) * 64 + d - 128
Three(c, d, e)    == ((c - 224) * 64 + d - 128) * 64 + e - 128
Four(c, d, e, g)  == (((c - 240) * 64 + d - 128) * 64 + e - 128) * 64 + g - 128

\* The bounds of utf8_seq_len on the second byte are those of the code points
\* of that length.
LEMMA PointsAre ==
  ASSUME NEW v \in Int
  PROVE  /\ v \in Points(1) <=> 0 <= v /\ v <= 127
         /\ v \in Points(2) <=> 128 <= v /\ v <= 2047
         /\ v \in Points(3) <=> 2048 <= v /\ v <= Plane - 1 /\ v \notin Surrogates
         /\ v \in Points(4) <=> Plane <= v /\ v <= 17 * Plane - 1
         /\ v \in Starts(1) <=> 0 <= v /\ v <= 127
         /\ v \in Starts(2) <=> 192 <= v /\ v <= 223
         /\ v \in Starts(3) <=> 224 <= v /\ v <= 239
         /\ v \in Starts(4) <=> 240 <= v /\ v <= 247
  <1>1. Plane \in Int
    BY SMT DEF Plane
  <1>2. /\ v \in Points(1) <=> 0 <= v /\ v <= 127
        /\ v \in Points(2) <=> 128 <= v /\ v <= 2047
    BY SMT DEF Points
  <1>3. v \in Points(3) <=> 2048 <= v /\ v <= Plane - 1 /\ v \notin Surrogates
    BY <1>1, SMT DEF Points
  <1>4. v \in Points(4) <=> Plane <= v /\ v <= 17 * Plane - 1
    BY <1>1, SMT DEF Points
  <1>5. /\ v \in Starts(1) <=> 0 <= v /\ v <= 127
        /\ v \in Starts(2) <=> 192 <= v /\ v <= 223
        /\ v \in Starts(3) <=> 224 <= v /\ v <= 239
        /\ v \in Starts(4) <=> 240 <= v /\ v <= 247
    BY SMT DEF Starts
  <1> QED
    BY <1>2, <1>3, <1>4, <1>5

\* How many code points a plane has.
LEMMA PlaneIs == Plane \in Int /\ Plane = 64 * 1024
  BY SMT DEF Plane

\* The surrogates, by their bounds.
LEMMA SurrogatesAre ==
  ASSUME NEW v \in Int
  PROVE  v \in Surrogates <=> 54 * 1024 <= v /\ v <= 56 * 1024 - 1
  <1> DEFINE lo == 54 * 1024
             hi == 56 * 1024 - 1
  <1>1. lo \in Int /\ hi \in Int
    BY SMT
  <1>2. Surrogates = lo .. hi
    BY Zenon DEF Surrogates
  <1> HIDE DEF lo, hi
  <1>3. v \in Surrogates <=> lo <= v /\ v <= hi
    BY <1>1, <1>2, SMT
  <1> QED
    BY <1>3 DEF lo, hi

\* Two bytes: no character of one byte is written with two.
LEMMA TwoBytes ==
  ASSUME NEW c \in Int, NEW d \in Int, 128 <= d, d <= 191
  PROVE  c \in Starts(2) /\ Two(c, d) \in Points(2) <=> 194 <= c /\ c <= 223
  <1> DEFINE v == (c - 192) * 64 + d - 128
  <1>1. v \in Int /\ (192 <= c /\ c <= 223 /\ 128 <= v /\ v <= 2047 <=> 194 <= c /\ c <= 223)
    BY SMT
  <1> HIDE DEF v
  <1>2. (v \in Points(2) <=> 128 <= v /\ v <= 2047) /\ (c \in Starts(2) <=> 192 <= c /\ c <= 223)
    BY <1>1, PointsAre
  <1> QED
    BY <1>1, <1>2 DEF Two, v

\* Three bytes: none of two bytes, and no surrogate.
LEMMA ThreeBytes ==
  ASSUME NEW c \in Int, NEW d \in Int, NEW e \in Int, 128 <= d, d <= 191, 128 <= e, e <= 191
  PROVE  c \in Starts(3) /\ Three(c, d, e) \in Points(3)
         <=> 224 <= c /\ c <= 239 /\ ~(c = 224 /\ d < 160) /\ ~(c = 237 /\ d >= 160)
  <1> DEFINE v == ((c - 224) * 64 + d - 128) * 64 + e - 128
  <1>1. v \in Int /\ v = (c - 224) * 4096 + (d - 128) * 64 + e - 128
    BY SMT
  <1> HIDE DEF v
  <1>2. ASSUME NEW p, p = 64 * 1024, 224 <= c, c <= 239
        PROVE  2048 <= v /\ v <= p - 1 /\ ~ (54 * 1024 <= v /\ v <= 56 * 1024 - 1)
                 <=> ~(c = 224 /\ d < 160) /\ ~(c = 237 /\ d >= 160)
    <2>1. v <= p - 1
      BY <1>1, <1>2, SMT
    <2>2. 2048 <= v <=> ~(c = 224 /\ d < 160)
      BY <1>1, <1>2, SMT
    <2>3. 54 * 1024 <= v /\ v <= 56 * 1024 - 1 <=> c = 237 /\ d >= 160
      <3>1. c < 237 => v < 54 * 1024
        BY <1>1, <1>2, SMT
      <3>2. c > 237 => v > 56 * 1024 - 1
        BY <1>1, <1>2, SMT
      <3>3. c = 237 => v <= 56 * 1024 - 1 /\ (54 * 1024 <= v <=> d >= 160)
        BY <1>1, <1>2, SMT
      <3> QED
        BY <1>1, <3>1, <3>2, <3>3, SMT
    <2> QED
      BY <2>1, <2>2, <2>3
  <1>3. v \in Points(3) <=> 2048 <= v /\ v <= Plane - 1 /\ v \notin Surrogates
    BY <1>1, PointsAre
  <1>4. v \in Surrogates <=> 54 * 1024 <= v /\ v <= 56 * 1024 - 1
    BY <1>1, SurrogatesAre
  <1>5. 224 <= c /\ c <= 239 => (v \in Points(3) <=> ~(c = 224 /\ d < 160) /\ ~(c = 237 /\ d >= 160))
    BY <1>2, <1>3, <1>4, PlaneIs
  <1>6. c \in Starts(3) <=> 224 <= c /\ c <= 239
    BY PointsAre
  <1>7. Three(c, d, e) = v
    BY DEF Three, v
  <1> QED
    BY <1>5, <1>6, <1>7

\* Four bytes: none of three, and nothing above 10FFFF.
LEMMA FourBytes ==
  ASSUME NEW c \in Int, NEW d \in Int, NEW e \in Int, NEW g \in Int,
         128 <= d, d <= 191, 128 <= e, e <= 191, 128 <= g, g <= 191
  PROVE  c \in Starts(4) /\ Four(c, d, e, g) \in Points(4)
         <=> 240 <= c /\ c <= 244 /\ ~(c = 240 /\ d < 144) /\ ~(c = 244 /\ d >= 144)
  <1> DEFINE v == (((c - 240) * 64 + d - 128) * 64 + e - 128) * 64 + g - 128
  <1> DEFINE x == ((c - 240) * 64 + d - 128) * 64 + e - 128
  <1>1. v \in Int /\ x \in Int /\ v = x * 64 + g - 128 /\ x = (c - 240) * 4096 + (d - 128) * 64 + e - 128
    BY SMT
  <1> HIDE DEF x, v
  <1>2. ASSUME 240 <= c, c <= 247
        PROVE  Plane <= v /\ v <= 17 * Plane - 1 <=> c <= 244 /\ ~(c = 240 /\ d < 144) /\ ~(c = 244 /\ d >= 144)
    <2>1. Plane \in Int /\ Plane = 64 * 1024
      BY PlaneIs
    <2>2. Plane <= v <=> 1024 <= x
      BY <1>1, <2>1, SMT
    <2>3. v <= 17 * Plane - 1 <=> x <= 17 * 1024 - 1
      BY <1>1, <2>1, SMT
    <2>4. 1024 <= x <=> ~(c = 240 /\ d < 144)
      BY <1>1, <1>2, SMT
    <2>5. x <= 17 * 1024 - 1 <=> c <= 244 /\ ~(c = 244 /\ d >= 144)
      <3>1. c > 244 => x > 17 * 1024 - 1
        BY <1>1, <1>2, SMT
      <3>2. c < 244 => x <= 17 * 1024 - 1
        BY <1>1, <1>2, SMT
      <3>3. c = 244 => (x <= 17 * 1024 - 1 <=> d < 144)
        <4>1. ASSUME c = 244 PROVE x = 16384 + (d - 128) * 64 + e - 128
          BY <1>1, <4>1, SMT
        <4>2. ASSUME c = 244, d < 144 PROVE x <= 17 * 1024 - 1
          BY <4>1, <4>2, SMT
        <4>3. ASSUME c = 244, d >= 144 PROVE ~ (x <= 17 * 1024 - 1)
          BY <4>1, <4>3, SMT
        <4> QED
          BY <4>2, <4>3
      <3> DEFINE in == x <= 17 * 1024 - 1
      <3>4. (c > 244 => ~ in) /\ (c < 244 => in) /\ (c = 244 => (in <=> d < 144))
        BY <1>1, <3>1, <3>2, <3>3, SMT
      <3> HIDE DEF in
      <3>5. in <=> c <= 244 /\ ~(c = 244 /\ d >= 144)
        BY <3>4
      <3> QED
        BY <3>5 DEF in
    <2> DEFINE low  == Plane <= v
               high == v <= 17 * Plane - 1
               lo   == ~(c = 240 /\ d < 144)
               hi   == c <= 244 /\ ~(c = 244 /\ d >= 144)
    <2>6. low <=> lo
      BY <2>2, <2>4, Zenon
    <2>7. high <=> hi
      BY <2>3, <2>5, Zenon
    <2>8. lo /\ hi <=> c <= 244 /\ lo /\ ~(c = 244 /\ d >= 144)
      BY Zenon
    <2> HIDE DEF low, high, hi
    <2>9. low /\ high <=> c <= 244 /\ lo /\ ~(c = 244 /\ d >= 144)
      BY <2>6, <2>7, <2>8, Zenon
    <2> QED
      BY <2>9, Zenon DEF low, high
  <1>3. v \in Points(4) <=> Plane <= v /\ v <= 17 * Plane - 1
    BY <1>1, PointsAre
  <1>4. c \in Starts(4) <=> 240 <= c /\ c <= 247
    BY PointsAre
  <1>5. c <= 244 => c <= 247
    BY SMT
  <1>6. Four(c, d, e, g) = v
    BY DEF Four, v
  <1> QED
    BY <1>2, <1>3, <1>4, <1>5, <1>6, Zenon

\* A code point is a number.
LEMMA TwoIn ==
  ASSUME NEW c \in Int, NEW d \in Int
  PROVE  Two(c, d) \in Int
  BY SMT DEF Two

\* The same for three bytes.
LEMMA ThreeIn ==
  ASSUME NEW c \in Int, NEW d \in Int, NEW e \in Int
  PROVE  Three(c, d, e) \in Int
  BY SMT DEF Three

\* And for four.
LEMMA FourIn ==
  ASSUME NEW c \in Int, NEW d \in Int, NEW e \in Int, NEW g \in Int
  PROVE  Four(c, d, e, g) \in Int
  BY SMT DEF Four

\* The code point of a sequence, length by length.
LEMMA CodePointIs ==
  ASSUME NEW q
  PROVE  /\ Len(q) = 1 => CodePoint(q) = q[1]
         /\ Len(q) = 2 => CodePoint(q) = Two(q[1], q[2])
         /\ Len(q) = 3 => CodePoint(q) = Three(q[1], q[2], q[3])
         /\ Len(q) = 4 => CodePoint(q) = Four(q[1], q[2], q[3], q[4])
  BY SMT DEF CodePoint, Two, Three, Four

\* The first byte of a character determines its length, and no code point is
\* the mark of a byte of no character.
LEMMA StartsIs ==
  /\ \A k \in 1 .. 4 : \A v \in Int : v \in Points(k) => 0 <= v
  /\ \A m, n \in 1 .. 4 : \A x \in Int : x \in Starts(m) /\ x \in Starts(n) => m = n
  <1>1. ASSUME NEW k \in 1 .. 4 PROVE k = 1 \/ k = 2 \/ k = 3 \/ k = 4
    OBVIOUS
  <1>2. ASSUME NEW k \in 1 .. 4, NEW v \in Int, v \in Points(k) PROVE 0 <= v
    <2>1. v \in Points(1) \/ v \in Points(2) \/ v \in Points(3) \/ v \in Points(4)
      BY <1>1, <1>2
    <2>2. \/ 0 <= v \/ 128 <= v \/ 2048 <= v \/ Plane <= v
      BY <2>1, PointsAre
    <2>3. Plane \in Int /\ 0 <= Plane
      BY PlaneIs
    <2> QED
      BY <2>2, <2>3
  <1>3. ASSUME NEW m \in 1 .. 4, NEW n \in 1 .. 4, NEW x \in Int, x \in Starts(m), x \in Starts(n) PROVE m = n
    <2> DEFINE At1(k) == \/ k = 1 /\ 0 <= x /\ x <= 127
                         \/ k = 2 /\ 192 <= x /\ x <= 223
                         \/ k = 3 /\ 224 <= x /\ x <= 239
                         \/ k = 4 /\ 240 <= x /\ x <= 247
    <2>1. ASSUME NEW k \in 1 .. 4, x \in Starts(k) PROVE At1(k)
      <3>1. CASE k = 1
        BY <2>1, <3>1, PointsAre
      <3>2. CASE k = 2
        BY <2>1, <3>2, PointsAre
      <3>3. CASE k = 3
        BY <2>1, <3>3, PointsAre
      <3>4. CASE k = 4
        BY <2>1, <3>4, PointsAre
      <3> QED
        BY <1>1, <3>1, <3>2, <3>3, <3>4
    <2>2. At1(m) /\ At1(n)
      <3> HIDE DEF At1
      <3> QED
        BY <1>3, <2>1
    <2> QED
      BY <2>2, SMT
  <1> QED
    BY <1>2, <1>3

\* The characters of s from each of its elements on.
Spells(s, f) ==
  /\ f \in [1 .. Len(s) + 1 -> Seq(Int)] /\ f[Len(s) + 1] = <<>>
  /\ \A i \in 1 .. Len(s) : f[i] = <<Code(s, i)>> \o f[i + Width(s, i)]

\* Elements are numbers.
LEMMA ElementInt == \A x \in Element : x \in Int /\ 0 <= x
  <1> DEFINE m == Escape(Unknown)
  <1>1. m \in Int
    BY SMT DEF Escape, Unknown
  <1> HIDE DEF m
  <1> QED
    BY <1>1 DEF Element, m

\* A piece of a sequence of elements.
LEMMA PieceOf ==
  ASSUME NEW D, NEW s \in Seq(D), NEW i \in 1 .. Len(s), NEW n \in 1 .. 4, i + n - 1 <= Len(s)
  PROVE  LET p == SubSeq(s, i, i + n - 1)
         IN  /\ p \in Seq(D) /\ Len(p) = n
             /\ \A k \in 1 .. n : i + k - 1 \in 1 .. Len(s) /\ p[k] = s[i + k - 1] /\ p[k] \in D
  <1> DEFINE N == Len(s)
             e == i + n - 1
             p == SubSeq(s, i, e)
  <1>1. N \in Nat
    BY LenProperties
  <1>2. \A j \in 1 .. N : s[j] \in D
    BY ElementOfSeq
  <1>3. /\ i \in Int /\ e \in Int /\ i <= e /\ e - i + 1 = n /\ (\A j \in i .. e : j \in 1 .. N)
        /\ \A k \in 1 .. n : i + k - 1 \in i .. e
    BY <1>1
  <1> HIDE DEF N, e
  <1>4. p \in Seq(D) /\ Len(p) = n /\ \A k \in 1 .. n : p[k] = s[i + k - 1]
    <2>1. \A j \in i .. e : s[j] \in D
      BY <1>2, <1>3
    <2> QED
      BY <1>3, <2>1, SubSeqProperties
  <1>5. \A k \in 1 .. n : i + k - 1 \in 1 .. N /\ s[i + k - 1] \in D
    BY <1>2, <1>3
  <1> QED
    BY <1>4, <1>5 DEF N, e

\* Every element begins a character, which is a number and lies within s.
LEMMA CharacterIs ==
  ASSUME NEW s \in Seq(Element), NEW i \in 1 .. Len(s)
  PROVE  Width(s, i) \in 1 .. 4 /\ i + Width(s, i) \in i + 1 .. Len(s) + 1 /\ Code(s, i) \in Int
  <1>1. s[i] \in Element /\ Len(s) \in Nat
    BY ElementOfSeq, LenProperties
  <1>2. s[i] \in Int
    BY <1>1, ElementInt
  <1>3. CASE s[i] >= 1000
    BY <1>1, <1>2, <1>3 DEF Width, Code
  <1>4. CASE ~ (s[i] >= 1000) /\ Lengths(s, i) = {}
    <2>1. Width(s, i) = 1 /\ Code(s, i) = Bad
      BY <1>4 DEF Width, Code
    <2> QED
      BY <1>1, <2>1 DEF Bad
  <1>5. CASE ~ (s[i] >= 1000) /\ Lengths(s, i) # {}
    <2> DEFINE n == CHOOSE n \in Lengths(s, i) : TRUE
               p == SubSeq(s, i, i + n - 1)
    <2>1. n \in Lengths(s, i)
      BY <1>5
    <2>2. Width(s, i) = n /\ Code(s, i) = CodePoint(p)
      BY <1>5 DEF Width, Code
    <2>3. n \in 1 .. 4 /\ i + n - 1 <= Len(s)
      BY <2>1 DEF Lengths
    <2> HIDE DEF n
    <2>4. Len(p) = n /\ \A k \in 1 .. n : p[k] \in Element
      BY <2>3, PieceOf
    <2> HIDE DEF p
    <2>5. CodePoint(p) \in Int
      <3>1. \A k \in 1 .. n : p[k] \in Int
        BY <2>4, ElementInt
      <3>2. CASE n = 1
        BY <2>4, <3>1, <3>2, CodePointIs
      <3>3. CASE n = 2
        <4>1. p[1] \in Int /\ p[2] \in Int
          BY <3>1, <3>3
        <4>2. Two(p[1], p[2]) \in Int
          BY <4>1, TwoIn, Zenon
        <4>3. CodePoint(p) = Two(p[1], p[2])
          BY <2>4, <3>3, CodePointIs
        <4> QED
          BY <4>2, <4>3
      <3>4. CASE n = 3
        <4>1. p[1] \in Int /\ p[2] \in Int /\ p[3] \in Int
          BY <3>1, <3>4
        <4>2. Three(p[1], p[2], p[3]) \in Int
          BY <4>1, ThreeIn, Zenon
        <4>3. CodePoint(p) = Three(p[1], p[2], p[3])
          BY <2>4, <3>4, CodePointIs
        <4> QED
          BY <4>2, <4>3
      <3>5. CASE n = 4
        <4>1. p[1] \in Int /\ p[2] \in Int /\ p[3] \in Int /\ p[4] \in Int
          BY <3>1, <3>5
        <4>2. Four(p[1], p[2], p[3], p[4]) \in Int
          BY <4>1, FourIn, Zenon
        <4>3. CodePoint(p) = Four(p[1], p[2], p[3], p[4])
          BY <2>4, <3>5, CodePointIs
        <4> QED
          BY <4>2, <4>3
      <3> QED
        BY <2>3, <3>2, <3>3, <3>4, <3>5
    <2>6. i + n \in i + 1 .. Len(s) + 1
      BY <1>1, <2>3
    <2> QED
      BY <2>2, <2>3, <2>5, <2>6
  <1> QED
    BY <1>3, <1>4, <1>5

\* Characters goes through a sequence from its end.
LEMMA CharactersDef ==
  ASSUME NEW s \in Seq(Element)
  PROVE  \E f : Spells(s, f) /\ Characters(s) = f[1]
  <1> DEFINE N == Len(s)
             X == Seq(Int)
             Dom == 1 .. N + 1
             Now(f, i) == <<Code(s, i)>> \o f[i + Width(s, i)]
             F == [i \in 1 .. N |-> [f \in [Dom -> X] |-> Now(f, i)]]
             base == <<>>
  <1>1. N \in Nat /\ base \in X
    BY LenProperties, EmptySeq
  <1>2. ASSUME NEW i \in 1 .. N PROVE i + Width(s, i) \in i + 1 .. N + 1 /\ <<Code(s, i)>> \in Seq(Int)
    BY CharacterIs
  <1>3. F \in [1 .. N -> [[Dom -> X] -> X]]
    <2>1. ASSUME NEW i \in 1 .. N, NEW f \in [Dom -> X] PROVE Now(f, i) \in X
      <3>1. i + Width(s, i) \in Dom
        BY <1>1, <1>2
      <3>2. f[i + Width(s, i)] \in Seq(Int)
        BY <3>1
      <3> QED
        BY <1>2, <3>2, ConcatProperties
    <2> HIDE DEF X, Dom, Now
    <2> QED
      BY <2>1
  <1>4. LooksUp(N, X, F)
    <2>1. SUFFICES ASSUME NEW i \in 1 .. N, NEW f \in [Dom -> X], NEW g \in [Dom -> X],
                          \A j \in i + 1 .. N + 1 : f[j] = g[j]
                   PROVE  F[i][f] = F[i][g]
      BY DEF LooksUp
    <2>2. f[i + Width(s, i)] = g[i + Width(s, i)]
      BY <1>2, <2>1
    <2>3. Now(f, i) = Now(g, i)
      BY <2>2
    <2> HIDE DEF X, Dom, Now
    <2> QED
      BY <2>3
  <1>5. \A i \in 1 .. N, f \in [Dom -> X] : F[i][f] = Now(f, i)
    OBVIOUS
  <1> HIDE DEF F, X, Now
  <1>6. PICK f : Descends(N, X, base, F, f)
    <2> HIDE DEF N, base
    <2> QED
      BY <1>1, <1>3, <1>4, Descent, Zenon
  <1>7. f \in [Dom -> X] /\ f[N + 1] = base /\ \A i \in 1 .. N : f[i] = Now(f, i)
    BY <1>5, <1>6 DEF Descends
  <1> DEFINE At0(g, i) == IF i > Len(s) THEN <<>> ELSE Now(g, i)
             at == CHOOSE at : at = [i \in 1 .. Len(s) + 1 |-> At0(at, i)]
  <1>8. Characters(s) = at[1]
    BY Zenon DEF Characters, Now
  <1>9. f = [i \in 1 .. N + 1 |-> At0(f, i)]
    <2>1. ASSUME NEW i \in Dom PROVE f[i] = At0(f, i)
      <3>1. CASE i = N + 1
        BY <1>1, <1>7, <3>1
      <3>2. CASE i # N + 1
        <4>1. i \in 1 .. N /\ ~ (i > N)
          BY <1>1, <3>2
        <4> QED
          BY <1>7, <4>1
      <3> QED
        BY <3>1, <3>2
    <2> HIDE DEF At0
    <2> QED
      BY <1>7, <2>1
  <1> HIDE DEF At0
  <1>10. at = [i \in 1 .. N + 1 |-> At0(at, i)]
    BY <1>9 DEF N
  <1> HIDE DEF at
  <1>11. at[N + 1] = base /\ \A i \in 1 .. N : at[i] = Now(at, i)
    <2>1. N + 1 \in 1 .. N + 1 /\ N + 1 > N /\ \A i \in 1 .. N : i \in 1 .. N + 1 /\ ~ (i > N)
      BY <1>1
    <2> QED
      BY <1>10, <2>1 DEF At0
  <1> DEFINE T == {k \in Nat : \A i \in Dom : i >= N + 1 - k => at[i] = f[i]}
  <1>12. 0 \in T
    BY <1>1, <1>7, <1>11
  <1>13. ASSUME NEW k \in Nat, k \in T PROVE k + 1 \in T
    <2>1. SUFFICES ASSUME NEW i \in Dom, i >= N + 1 - (k + 1) PROVE at[i] = f[i]
      OBVIOUS
    <2>2. CASE i >= N + 1 - k
      BY <1>13, <2>2
    <2>3. CASE i < N + 1 - k
      <3>1. i \in 1 .. N
        BY <1>1, <2>3
      <3>2. \A j \in i + 1 .. N + 1 : j \in Dom /\ j >= N + 1 - k
        BY <1>1, <2>1, <2>3
      <3>3. at[i + Width(s, i)] = f[i + Width(s, i)]
        BY <1>2, <1>13, <3>1, <3>2
      <3> QED
        BY <1>7, <1>11, <3>1, <3>3 DEF Now
    <2> QED
      BY <1>1, <2>2, <2>3
  <1> HIDE DEF T
  <1>14. N \in T
    BY <1>1, <1>12, <1>13, SetInduction
  <1>15. at[1] = f[1]
    <2>1. 1 \in Dom /\ 1 >= N + 1 - N
      BY <1>1
    <2> QED
      BY <1>14, <2>1 DEF T
  <1>16. Spells(s, f)
    BY <1>7 DEF Spells, X, N, base, Dom, Now
  <1> QED
    BY <1>8, <1>15, <1>16

\* utf8_seq_len by its first byte.
LEMMA SeqLenCases ==
  ASSUME NEW s, NEW i, NEW c \in Int, c = s[i], NEW d, d = At(s, i + 1), NEW n, n = utf8_seq_len(s, i)
  PROVE  /\ c < 128 => n \in {0, 1}
         /\ 194 <= c /\ c <= 223 => n = IF Cont(s, i + 1) THEN 2 ELSE 0
         /\ 224 <= c /\ c <= 239
              => n = IF Cont(s, i + 1) /\ Cont(s, i + 2) /\ ~(c = 224 /\ d < 160) /\ ~(c = 237 /\ d >= 160)
                     THEN 3 ELSE 0
         /\ 240 <= c /\ c <= 244
              => n = IF /\ Cont(s, i + 1) /\ Cont(s, i + 2) /\ Cont(s, i + 3)
                        /\ ~(c = 240 /\ d < 144) /\ ~(c = 244 /\ d >= 144)
                     THEN 4 ELSE 0
         /\ c >= 128 /\ ~(194 <= c /\ c <= 244) => n = 0
  <1> DEFINE m == IF c < 128 THEN 1 ELSE IF c \in 194 .. 223 THEN 2
                  ELSE IF c \in 224 .. 239 THEN 3 ELSE IF c \in 240 .. 244 THEN 4 ELSE 0
             all == \A k \in 1 .. m - 1 : Cont(s, i + k)
             low == /\ ~(c = 224 /\ d < 160) /\ ~(c = 237 /\ d >= 160)
                    /\ ~(c = 240 /\ d < 144) /\ ~(c = 244 /\ d >= 144)
  <1>1. n = IF all /\ low THEN m ELSE 0
    BY DEF utf8_seq_len
  <1>2. /\ c < 128 => m = 1
        /\ 194 <= c /\ c <= 223 => m = 2
        /\ 224 <= c /\ c <= 239 => m = 3
        /\ 240 <= c /\ c <= 244 => m = 4
        /\ c >= 128 /\ ~(194 <= c /\ c <= 244) => m = 0
    OBVIOUS
  <1>3. /\ m = 2 => (all <=> Cont(s, i + 1))
        /\ m = 3 => (all <=> Cont(s, i + 1) /\ Cont(s, i + 2))
        /\ m = 4 => (all <=> Cont(s, i + 1) /\ Cont(s, i + 2) /\ Cont(s, i + 3))
    <2> HIDE DEF m
    <2>1. \A P : P = 2 - 1 => \A k \in 1 .. P : k = 1
      OBVIOUS
    <2>2. 1 .. 2 - 1 = {1} /\ 1 .. 3 - 1 = {1, 2} /\ 1 .. 4 - 1 = {1, 2, 3}
      OBVIOUS
    <2> QED
      BY <2>2
  <1>4. /\ 194 <= c /\ c <= 223 => low
        /\ 224 <= c /\ c <= 239 => (low <=> ~(c = 224 /\ d < 160) /\ ~(c = 237 /\ d >= 160))
        /\ 240 <= c /\ c <= 244 => (low <=> ~(c = 240 /\ d < 144) /\ ~(c = 244 /\ d >= 144))
    OBVIOUS
  <1> HIDE DEF m, all, low
  <1> QED
    BY <1>1, <1>2, <1>3, <1>4

\* The bytes after i are continuation bytes.
LEMMA ContIs ==
  ASSUME NEW s \in Seq(Byte), NEW j \in Int
  PROVE  /\ Cont(s, j) <=> j \in 1 .. Len(s) /\ s[j] \in 128 .. 191
         /\ j \in 1 .. Len(s) => At(s, j) = s[j] /\ s[j] \in Int
  <1>1. Cont(s, j) <=> j \in 1 .. Len(s) /\ s[j] \in 128 .. 191
    <2>1. CASE j \in 1 .. Len(s)
      BY <2>1 DEF Cont, At
    <2>2. CASE j \notin 1 .. Len(s)
      <3>1. At(s, j) = 0
        BY <2>2 DEF At
      <3> QED
        BY <2>2, <3>1 DEF Cont
    <2> QED
      BY <2>1, <2>2
  <1>2. j \in 1 .. Len(s) => s[j] \in Byte
    BY ElementOfSeq
  <1> QED
    BY <1>1, <1>2, ByteIs DEF At

\* The bounds of a byte.
LEMMA ByteBounds == \A c \in Byte : c \in Int /\ 1 <= c /\ c <= 255
  BY SMT DEF Byte

\* A character in the string is what utf8_seq_len finds, whatever its length.
LEMMA LengthOne ==
  ASSUME NEW s \in Seq(Byte), NEW i \in 1 .. Len(s)
  PROVE  1 \in Lengths(s, i) <=> utf8_seq_len(s, i) = 1
  <1> DEFINE q == SubSeq(s, i, i + 1 - 1)
             c == s[i]
  <1>1. Len(s) \in Nat /\ i \in Nat
    BY LenProperties
  <1>2. i + 1 - 1 <= Len(s) /\ i + 1 - 1 = i
    BY <1>1
  <1>3. Len(q) = 1 /\ q[1] = c /\ c \in Byte
    <2>1. 1 \in 1 .. 4 /\ 1 \in 1 .. 1
      OBVIOUS
    <2>2. Len(q) = 1 /\ \A k \in 1 .. 1 : q[k] = s[i + k - 1] /\ q[k] \in Byte
      BY <1>2, <2>1, PieceOf
    <2> QED
      BY <1>2, <2>1, <2>2
  <1>4. c \in Int /\ 1 <= c
    BY <1>3, ByteBounds
  <1> HIDE DEF q
  <1>5. IsUtf8(q) <=> c < 128
    <2>1. CodePoint(q) = c
      BY <1>3, CodePointIs
    <2>2. (c \in Starts(1) <=> 0 <= c /\ c <= 127) /\ (c \in Points(1) <=> 0 <= c /\ c <= 127)
      BY <1>4, PointsAre
    <2>3. IsUtf8(q) <=> c \in Starts(1) /\ (\A k \in 2 .. 1 : q[k] \in 128 .. 191) /\ c \in Points(1)
      BY <1>3, <2>1 DEF IsUtf8
    <2>4. \A k \in 2 .. 1 : FALSE
      OBVIOUS
    <2> HIDE DEF c
    <2> QED
      BY <1>4, <2>2, <2>3, <2>4
  <1>6. 1 \in Lengths(s, i) <=> IsUtf8(q)
    BY <1>2 DEF Lengths, q
  <1> QED
    BY <1>5, <1>6, SeqLenIs

\* Two bytes.
LEMMA LengthTwo ==
  ASSUME NEW s \in Seq(Byte), NEW i \in 1 .. Len(s)
  PROVE  2 \in Lengths(s, i) <=> utf8_seq_len(s, i) = 2
  <1> DEFINE q == SubSeq(s, i, i + 2 - 1)
             c == s[i]
             d == At(s, i + 1)
             n == utf8_seq_len(s, i)
  <1>1. Len(s) \in Nat /\ i \in Nat /\ c \in Byte
    BY LenProperties, ElementOfSeq
  <1>2. c \in Int /\ 1 <= c /\ c <= 255
    BY <1>1, ByteBounds
  <1>3. /\ n = 2 <=> 194 <= c /\ c <= 223 /\ Cont(s, i + 1)
    <2>1. /\ c < 128 => n \in {0, 1}
          /\ 194 <= c /\ c <= 223 => n = IF Cont(s, i + 1) THEN 2 ELSE 0
          /\ 224 <= c /\ c <= 239 => n \in {0, 3}
          /\ 240 <= c /\ c <= 244 => n \in {0, 4}
          /\ c >= 128 /\ ~(194 <= c /\ c <= 244) => n = 0
      <3> HIDE DEF c, d, n
      <3>1. c = s[i] /\ d = At(s, i + 1) /\ n = utf8_seq_len(s, i)
        BY DEF c, d, n
      <3> QED
        BY <1>2, <3>1, SeqLenCases
    <2> HIDE DEF c, n
    <2> QED
      BY <1>2, <2>1
  <1>4. /\ Cont(s, i + 1) <=> i + 1 \in 1 .. Len(s) /\ s[i + 1] \in 128 .. 191
        /\ i + 1 \in 1 .. Len(s) => d = s[i + 1] /\ s[i + 1] \in Int
    <2>1. i + 1 \in Int
      BY <1>1
    <2> QED
      BY <2>1, ContIs, Zenon
  <1>5. CASE i + 2 - 1 <= Len(s)
    <2>1. Len(q) = 2 /\ q[1] = c /\ q[2] = s[i + 1]
      <3>1. /\ Len(q) = 2 /\ \A k \in 1 .. 2 : q[k] = s[i + k - 1]
        BY <1>5, PieceOf
      <3>2. i + 1 - 1 = i /\ i + 2 - 1 = i + 1
        BY <1>1
      <3> QED
        BY <3>1, <3>2
    <2>2. i + 1 \in 1 .. Len(s)
      BY <1>1, <1>5
    <2> DEFINE e == s[i + 1]
    <2>3. 2 \in Lengths(s, i) <=> IsUtf8(q)
      BY <1>5 DEF Lengths
    <2> HIDE DEF q, c, n
    <2>4. IsUtf8(q) <=> c \in Starts(2) /\ e \in 128 .. 191 /\ CodePoint(q) \in Points(2)
      <3>1. \A k : k \in 2 .. 2 <=> k = 2
        OBVIOUS
      <3> QED
        BY <2>1, <3>1 DEF IsUtf8
    <2>5. CodePoint(q) = Two(c, e)
      BY <2>1, CodePointIs
    <2>6. e \in Int
      BY <1>4, <2>2
    <2> HIDE DEF e
    <2>7. e \in 128 .. 191 => (c \in Starts(2) /\ CodePoint(q) \in Points(2) <=> 194 <= c /\ c <= 223)
      <3>1. SUFFICES ASSUME 128 <= e, e <= 191
                     PROVE  c \in Starts(2) /\ CodePoint(q) \in Points(2) <=> 194 <= c /\ c <= 223
        BY <2>6
      <3> QED
        BY <1>2, <2>5, <2>6, <3>1, TwoBytes
    <2> QED
      BY <1>3, <1>4, <2>2, <2>3, <2>4, <2>7 DEF e, n
  <1>6. CASE ~ (i + 2 - 1 <= Len(s))
    <2>1. 2 \notin Lengths(s, i)
      BY <1>6 DEF Lengths
    <2>2. i + 1 \notin 1 .. Len(s)
      BY <1>1, <1>6
    <2> QED
      BY <1>3, <1>4, <2>1, <2>2
  <1> QED
    BY <1>5, <1>6

\* Three bytes.
LEMMA LengthThree ==
  ASSUME NEW s \in Seq(Byte), NEW i \in 1 .. Len(s)
  PROVE  3 \in Lengths(s, i) <=> utf8_seq_len(s, i) = 3
  <1> DEFINE q == SubSeq(s, i, i + 3 - 1)
             c == s[i]
             d == At(s, i + 1)
             n == utf8_seq_len(s, i)
  <1>1. Len(s) \in Nat /\ i \in Nat /\ c \in Byte
    BY LenProperties, ElementOfSeq
  <1>2. c \in Int /\ 1 <= c /\ c <= 255
    BY <1>1, ByteBounds
  <1>3. n = 3 <=> 224 <= c /\ c <= 239 /\ Cont(s, i + 1) /\ Cont(s, i + 2) /\ ~(c = 224 /\ d < 160) /\ ~(c = 237 /\ d >= 160)
    <2>1. /\ c < 128 => n \in {0, 1}
          /\ 224 <= c /\ c <= 239 => n = IF Cont(s, i + 1) /\ Cont(s, i + 2) /\ ~(c = 224 /\ d < 160) /\ ~(c = 237 /\ d >= 160) THEN 3 ELSE 0
          /\ 194 <= c /\ c <= 223 => n \in {0, 2}
          /\ 240 <= c /\ c <= 244 => n \in {0, 4}
          /\ c >= 128 /\ ~(194 <= c /\ c <= 244) => n = 0
      <3> HIDE DEF c, d, n
      <3>1. c = s[i] /\ d = At(s, i + 1) /\ n = utf8_seq_len(s, i)
        BY DEF c, d, n
      <3> QED
        BY <1>2, <3>1, SeqLenCases
    <2> DEFINE all == Cont(s, i + 1) /\ Cont(s, i + 2) /\ ~(c = 224 /\ d < 160) /\ ~(c = 237 /\ d >= 160)
    <2>2. /\ c < 128 => n \in {0, 1}
          /\ 224 <= c /\ c <= 239 => n = IF all THEN 3 ELSE 0
          /\ 194 <= c /\ c <= 223 => n \in {0, 2}
          /\ 240 <= c /\ c <= 244 => n \in {0, 4}
          /\ c >= 128 /\ ~(194 <= c /\ c <= 244) => n = 0
      BY <2>1
    <2> HIDE DEF c, n, all
    <2>3. n = 3 <=> 224 <= c /\ c <= 239 /\ all
      BY <1>2, <2>2
    <2> QED
      BY <2>3 DEF all
  <1>4a. /\ Cont(s, i + 1) <=> i + 1 \in 1 .. Len(s) /\ s[i + 1] \in 128 .. 191
         /\ i + 1 \in 1 .. Len(s) => At(s, i + 1) = s[i + 1] /\ s[i + 1] \in Int
    <2>1. i + 1 \in Int
      BY <1>1
    <2> QED
      BY <2>1, ContIs, Zenon
  <1>4b. /\ Cont(s, i + 2) <=> i + 2 \in 1 .. Len(s) /\ s[i + 2] \in 128 .. 191
         /\ i + 2 \in 1 .. Len(s) => At(s, i + 2) = s[i + 2] /\ s[i + 2] \in Int
    <2>1. i + 2 \in Int
      BY <1>1
    <2> QED
      BY <2>1, ContIs, Zenon
  <1>5. CASE i + 3 - 1 <= Len(s)
    <2>1. Len(q) = 3 /\ q[1] = c /\ q[2] = s[i + 1] /\ q[3] = s[i + 2]
      <3>1. Len(q) = 3 /\ \A k \in 1 .. 3 : q[k] = s[i + k - 1]
        BY <1>5, PieceOf
      <3>2. i + 1 - 1 = i /\ i + 2 - 1 = i + 1 /\ i + 3 - 1 = i + 2
        BY <1>1
      <3> QED
        BY <3>1, <3>2
    <2>2. i + 1 \in 1 .. Len(s) /\ i + 2 \in 1 .. Len(s)
      BY <1>1, <1>5
    <2> DEFINE e == s[i + 1]
               g == s[i + 2]
    <2>3. 3 \in Lengths(s, i) <=> IsUtf8(q)
      BY <1>5 DEF Lengths
    <2>3a. d = e
      BY <1>4a, <2>2
    <2>6. e \in Int /\ g \in Int
      BY <1>4a, <1>4b, <2>2
    <2>6a. Cont(s, i + 1) /\ Cont(s, i + 2) <=> e \in 128 .. 191 /\ g \in 128 .. 191
      BY <1>4a, <1>4b, <2>2
    <2>6b. n = 3 <=> 224 <= c /\ c <= 239 /\ e \in 128 .. 191 /\ g \in 128 .. 191 /\ ~(c = 224 /\ e < 160) /\ ~(c = 237 /\ e >= 160)
      <3> HIDE DEF n, c, d, e, g
      <3> QED
        BY <1>3, <2>3a, <2>6a
    <2> HIDE DEF q, c, n, d, e, g
    <2>4. IsUtf8(q) <=> c \in Starts(3) /\ e \in 128 .. 191 /\ g \in 128 .. 191 /\ CodePoint(q) \in Points(3)
      <3>1. \A k : k \in 2 .. 3 <=> k = 2 \/ k = 3
        OBVIOUS
      <3>2. q[1] = c /\ q[2] = e /\ q[3] = g
        BY <2>1 DEF e, g
      <3> QED
        BY <2>1, <3>1, <3>2 DEF IsUtf8
    <2>5. CodePoint(q) = Three(c, e, g)
      BY <2>1, CodePointIs DEF e, g
    <2>7. e \in 128 .. 191 /\ g \in 128 .. 191 => (c \in Starts(3) /\ CodePoint(q) \in Points(3) <=> 224 <= c /\ c <= 239 /\ ~(c = 224 /\ e < 160) /\ ~(c = 237 /\ e >= 160))
      <3>1. SUFFICES ASSUME 128 <= e, e <= 191, 128 <= g, g <= 191
                     PROVE  c \in Starts(3) /\ CodePoint(q) \in Points(3) <=> 224 <= c /\ c <= 239 /\ ~(c = 224 /\ e < 160) /\ ~(c = 237 /\ e >= 160)
        BY <2>6
      <3> QED
        BY <1>2, <2>5, <2>6, <3>1, ThreeBytes
    <2>8. 3 \in Lengths(s, i) <=> n = 3
      BY <2>3, <2>4, <2>6b, <2>7
    <2> QED
      BY <2>8 DEF n
  <1>6. CASE ~ (i + 3 - 1 <= Len(s))
    <2>1. 3 \notin Lengths(s, i)
      BY <1>6 DEF Lengths
    <2>2. i + 2 \notin 1 .. Len(s)
      BY <1>1, <1>6
    <2> QED
      BY <1>3, <1>4b, <2>1, <2>2
  <1> QED
    BY <1>5, <1>6

\* Four bytes.
LEMMA LengthFour ==
  ASSUME NEW s \in Seq(Byte), NEW i \in 1 .. Len(s)
  PROVE  4 \in Lengths(s, i) <=> utf8_seq_len(s, i) = 4
  <1> DEFINE q == SubSeq(s, i, i + 4 - 1)
             c == s[i]
             d == At(s, i + 1)
             n == utf8_seq_len(s, i)
  <1>1. Len(s) \in Nat /\ i \in Nat /\ c \in Byte
    BY LenProperties, ElementOfSeq
  <1>2. c \in Int /\ 1 <= c /\ c <= 255
    BY <1>1, ByteBounds
  <1>3. n = 4 <=> 240 <= c /\ c <= 244 /\ Cont(s, i + 1) /\ Cont(s, i + 2) /\ Cont(s, i + 3) /\ ~(c = 240 /\ d < 144) /\ ~(c = 244 /\ d >= 144)
    <2>1. /\ c < 128 => n \in {0, 1}
          /\ 240 <= c /\ c <= 244 => n = IF Cont(s, i + 1) /\ Cont(s, i + 2) /\ Cont(s, i + 3) /\ ~(c = 240 /\ d < 144) /\ ~(c = 244 /\ d >= 144) THEN 4 ELSE 0
          /\ 194 <= c /\ c <= 223 => n \in {0, 2}
          /\ 224 <= c /\ c <= 239 => n \in {0, 3}
          /\ c >= 128 /\ ~(194 <= c /\ c <= 244) => n = 0
      <3> HIDE DEF c, d, n
      <3>1. c = s[i] /\ d = At(s, i + 1) /\ n = utf8_seq_len(s, i)
        BY DEF c, d, n
      <3> QED
        BY <1>2, <3>1, SeqLenCases
    <2> DEFINE all == Cont(s, i + 1) /\ Cont(s, i + 2) /\ Cont(s, i + 3) /\ ~(c = 240 /\ d < 144) /\ ~(c = 244 /\ d >= 144)
    <2>2. /\ c < 128 => n \in {0, 1}
          /\ 240 <= c /\ c <= 244 => n = IF all THEN 4 ELSE 0
          /\ 194 <= c /\ c <= 223 => n \in {0, 2}
          /\ 224 <= c /\ c <= 239 => n \in {0, 3}
          /\ c >= 128 /\ ~(194 <= c /\ c <= 244) => n = 0
      BY <2>1
    <2> HIDE DEF c, n, all
    <2>3. n = 4 <=> 240 <= c /\ c <= 244 /\ all
      BY <1>2, <2>2
    <2> QED
      BY <2>3 DEF all
  <1>4a. /\ Cont(s, i + 1) <=> i + 1 \in 1 .. Len(s) /\ s[i + 1] \in 128 .. 191
         /\ i + 1 \in 1 .. Len(s) => At(s, i + 1) = s[i + 1] /\ s[i + 1] \in Int
    <2>1. i + 1 \in Int
      BY <1>1
    <2> QED
      BY <2>1, ContIs, Zenon
  <1>4b. /\ Cont(s, i + 2) <=> i + 2 \in 1 .. Len(s) /\ s[i + 2] \in 128 .. 191
         /\ i + 2 \in 1 .. Len(s) => At(s, i + 2) = s[i + 2] /\ s[i + 2] \in Int
    <2>1. i + 2 \in Int
      BY <1>1
    <2> QED
      BY <2>1, ContIs, Zenon
  <1>4c. /\ Cont(s, i + 3) <=> i + 3 \in 1 .. Len(s) /\ s[i + 3] \in 128 .. 191
         /\ i + 3 \in 1 .. Len(s) => At(s, i + 3) = s[i + 3] /\ s[i + 3] \in Int
    <2>1. i + 3 \in Int
      BY <1>1
    <2> QED
      BY <2>1, ContIs, Zenon
  <1>5. CASE i + 4 - 1 <= Len(s)
    <2>1. Len(q) = 4 /\ q[1] = c /\ q[2] = s[i + 1] /\ q[3] = s[i + 2] /\ q[4] = s[i + 3]
      <3>1. Len(q) = 4 /\ \A k \in 1 .. 4 : q[k] = s[i + k - 1]
        BY <1>5, PieceOf
      <3>2. i + 1 - 1 = i /\ i + 2 - 1 = i + 1 /\ i + 3 - 1 = i + 2 /\ i + 4 - 1 = i + 3
        BY <1>1
      <3> QED
        BY <3>1, <3>2
    <2>2. i + 1 \in 1 .. Len(s) /\ i + 2 \in 1 .. Len(s) /\ i + 3 \in 1 .. Len(s)
      BY <1>1, <1>5
    <2> DEFINE e == s[i + 1]
               g == s[i + 2]
               h == s[i + 3]
    <2>3. 4 \in Lengths(s, i) <=> IsUtf8(q)
      BY <1>5 DEF Lengths
    <2>3a. d = e
      BY <1>4a, <2>2
    <2>6. e \in Int /\ g \in Int /\ h \in Int
      BY <1>4a, <1>4b, <1>4c, <2>2
    <2>6a. Cont(s, i + 1) /\ Cont(s, i + 2) /\ Cont(s, i + 3) <=> e \in 128 .. 191 /\ g \in 128 .. 191 /\ h \in 128 .. 191
      BY <1>4a, <1>4b, <1>4c, <2>2
    <2>6b. n = 4 <=> 240 <= c /\ c <= 244 /\ e \in 128 .. 191 /\ g \in 128 .. 191 /\ h \in 128 .. 191 /\ ~(c = 240 /\ e < 144) /\ ~(c = 244 /\ e >= 144)
      <3> HIDE DEF n, c, d, e, g, h
      <3> QED
        BY <1>3, <2>3a, <2>6a
    <2> HIDE DEF q, c, n, d, e, g, h
    <2>4. IsUtf8(q) <=> c \in Starts(4) /\ e \in 128 .. 191 /\ g \in 128 .. 191 /\ h \in 128 .. 191 /\ CodePoint(q) \in Points(4)
      <3>1. \A k : k \in 2 .. 4 <=> k = 2 \/ k = 3 \/ k = 4
        OBVIOUS
      <3>2. q[1] = c /\ q[2] = e /\ q[3] = g /\ q[4] = h
        BY <2>1 DEF e, g, h
      <3> QED
        BY <2>1, <3>1, <3>2 DEF IsUtf8
    <2>5. CodePoint(q) = Four(c, e, g, h)
      BY <2>1, CodePointIs DEF e, g, h
    <2>7. e \in 128 .. 191 /\ g \in 128 .. 191 /\ h \in 128 .. 191 => (c \in Starts(4) /\ CodePoint(q) \in Points(4) <=> 240 <= c /\ c <= 244 /\ ~(c = 240 /\ e < 144) /\ ~(c = 244 /\ e >= 144))
      <3>1. SUFFICES ASSUME 128 <= e, e <= 191, 128 <= g, g <= 191, 128 <= h, h <= 191
                     PROVE  c \in Starts(4) /\ CodePoint(q) \in Points(4) <=> 240 <= c /\ c <= 244 /\ ~(c = 240 /\ e < 144) /\ ~(c = 244 /\ e >= 144)
        BY <2>6
      <3> QED
        BY <1>2, <2>5, <2>6, <3>1, FourBytes
    <2>8. 4 \in Lengths(s, i) <=> n = 4
      BY <2>3, <2>4, <2>6b, <2>7
    <2> QED
      BY <2>8 DEF n
  <1>6. CASE ~ (i + 4 - 1 <= Len(s))
    <2>1. 4 \notin Lengths(s, i)
      BY <1>6 DEF Lengths
    <2>2. i + 3 \notin 1 .. Len(s)
      BY <1>1, <1>6
    <2> QED
      BY <1>3, <1>4c, <2>1, <2>2
  <1> QED
    BY <1>5, <1>6

\* utf8_seq_len accepts exactly the characters of UTF-8: it finds the one that
\* begins at a byte, and answers 0 when none does; no byte begins two.
THEOREM LengthsAre ==
  ASSUME NEW s \in Seq(Byte), NEW i \in 1 .. Len(s)
  PROVE  /\ Lengths(s, i) \subseteq 1 .. 4
         /\ \A n \in 1 .. 4 : n \in Lengths(s, i) <=> utf8_seq_len(s, i) = n
  <1>1. ASSUME NEW n \in 1 .. 4 PROVE n \in Lengths(s, i) <=> utf8_seq_len(s, i) = n
    <2>1. n = 1 \/ n = 2 \/ n = 3 \/ n = 4
      OBVIOUS
    <2> QED
      BY <2>1, LengthOne, LengthTwo, LengthThree, LengthFour
  <1> QED
    BY <1>1 DEF Lengths

-----------------------------------------------------------------------------
(***************************************************************************)
(* A literal reads back as the characters of its string.                   *)
(***************************************************************************)
\* No two characters begin at one element, and the code of one is a code point.
LEMMA OneCharacter ==
  ASSUME NEW s \in Seq(Element), NEW i \in 1 .. Len(s), ~ (s[i] >= 1000), NEW n \in Lengths(s, i)
  PROVE  /\ Width(s, i) = n /\ Code(s, i) = CodePoint(SubSeq(s, i, i + n - 1))
         /\ Code(s, i) # Bad
  <1>1. ASSUME NEW m \in Lengths(s, i)
        PROVE  /\ m \in 1 .. 4 /\ s[i] \in Starts(m) /\ CodePoint(SubSeq(s, i, i + m - 1)) \in Points(m)
               /\ s[i] \in Int
    <2> DEFINE q == SubSeq(s, i, i + m - 1)
    <2>1. m \in 1 .. 4 /\ i + m - 1 <= Len(s) /\ IsUtf8(q)
      BY DEF Lengths
    <2>2. Len(q) = m /\ q[1] = s[i] /\ s[i] \in Int
      <3>1. Len(q) = m /\ \A k \in 1 .. m : q[k] = s[i + k - 1] /\ q[k] \in Element
        BY <2>1, PieceOf
      <3>2. 1 \in 1 .. m /\ i + 1 - 1 = i
        BY <2>1
      <3>3. q[1] = s[i] /\ q[1] \in Element
        BY <3>1, <3>2
      <3> QED
        BY <3>1, <3>3, ElementInt
    <2> HIDE DEF q
    <2>3. q[1] \in Starts(m) /\ CodePoint(q) \in Points(m)
      BY <2>1, <2>2 DEF IsUtf8
    <2> QED
      BY <2>1, <2>2, <2>3 DEF q
  <1> DEFINE w == CHOOSE m \in Lengths(s, i) : TRUE
  <1>2. w \in Lengths(s, i) /\ Lengths(s, i) # {}
    OBVIOUS
  <1>3. Width(s, i) = w /\ Code(s, i) = CodePoint(SubSeq(s, i, i + w - 1))
    BY <1>2 DEF Width, Code
  <1> HIDE DEF w
  <1>4. w = n
    <2>1. /\ w \in 1 .. 4 /\ n \in 1 .. 4 /\ s[i] \in Int /\ s[i] \in Starts(w) /\ s[i] \in Starts(n)
      BY <1>1, <1>2
    <2> QED
      BY <2>1, StartsIs
  <1>5. Code(s, i) # Bad
    <2> DEFINE v == CodePoint(SubSeq(s, i, i + n - 1))
    <2>1. v \in Points(n) /\ n \in 1 .. 4
      BY <1>1
    <2>2. v \in Int
      BY <1>3, <1>4, CharacterIs
    <2>3. Code(s, i) = v
      BY <1>3, <1>4
    <2> HIDE DEF v
    <2>4. 0 <= v
      BY <2>1, <2>2, StartsIs
    <2> QED
      BY <2>2, <2>3, <2>4 DEF Bad
  <1> QED
    BY <1>3, <1>4, <1>5

\* An escape is read back as the character it stands for.
LEMMA EscapeReads ==
  ASSUME NEW c \in Byte \cup {Unknown}, NEW w \in Seq(Element)
  PROVE  LET t == <<Escape(c)>> \o w
         IN  t \in Seq(Element) /\ Len(t) = 1 + Len(w) /\ Width(t, 1) = 1 /\ Code(t, 1) = c
             /\ \A j \in 1 .. Len(w) : t[1 + j] = w[j]
  <1> DEFINE p == <<Escape(c)>>
             t == p \o w
  <1>1. Escape(c) \in Element
    BY ByteIs, BadIs
  <1>2. p \in Seq(Element) /\ Len(p) = 1 /\ p[1] = Escape(c)
    BY <1>1
  <1>3. c \in Int /\ 1 <= c
    BY SMT, ByteBounds DEF Unknown
  <1> HIDE DEF p
  <1>4. t \in Seq(Element) /\ Len(t) = 1 + Len(w) /\ t[1] = Escape(c) /\ \A j \in 1 .. Len(w) : t[1 + j] = w[j]
    <2>1. Joined(Element, p, w, t)
      BY <1>2, ConcatParts
    <2>2. 1 \in 1 .. 1
      OBVIOUS
    <2> HIDE DEF t
    <2> QED
      BY <1>2, <2>1, <2>2 DEF Joined
  <1> HIDE DEF t
  <1>5. Escape(c) >= 1000 /\ Escape(c) - 1000 = c
    BY <1>3, SMT DEF Escape
  <1>6. Width(t, 1) = 1 /\ Code(t, 1) = c
    BY <1>4, <1>5 DEF Width, Code
  <1> QED
    BY <1>4, <1>6 DEF t, p

\* A character is read back as itself, whatever comes after it.
LEMMA PieceReads ==
  ASSUME NEW p \in Seq(Element), NEW n \in 1 .. 4, Len(p) = n, IsUtf8(p), ~ (p[1] >= 1000), NEW w \in Seq(Element)
  PROVE  LET t == p \o w
         IN  t \in Seq(Element) /\ Len(t) = n + Len(w) /\ Width(t, 1) = n /\ Code(t, 1) = CodePoint(p)
             /\ \A j \in 1 .. Len(w) : t[n + j] = w[j]
  <1> DEFINE t == p \o w
             q == SubSeq(t, 1, 1 + n - 1)
  <1>1. /\ t \in Seq(Element) /\ Len(t) = n + Len(w) /\ Len(w) \in Nat
        /\ (\A j \in 1 .. n : t[j] = p[j]) /\ \A j \in 1 .. Len(w) : t[n + j] = w[j]
    <2>1. Joined(Element, p, w, t)
      BY ConcatParts
    <2> HIDE DEF t
    <2> QED
      BY <2>1 DEF Joined
  <1> HIDE DEF t
  <1>2. 1 \in 1 .. Len(t) /\ 1 + n - 1 <= Len(t) /\ 1 \in 1 .. n
    BY <1>1
  <1>3. q = p
    <2>1. q \in Seq(Element) /\ Len(q) = n /\ \A k \in 1 .. n : q[k] = t[1 + k - 1]
      BY <1>1, <1>2, PieceOf
    <2>2. \A k \in 1 .. n : 1 + k - 1 = k
      OBVIOUS
    <2> HIDE DEF q
    <2>3. \A k \in 1 .. n : q[k] = p[k]
      BY <1>1, <2>1, <2>2
    <2> QED
      BY <2>1, <2>3, SeqEqual
  <1>4. n \in Lengths(t, 1)
    BY <1>2, <1>3 DEF Lengths
  <1>5. ~ (t[1] >= 1000)
    BY <1>1, <1>2
  <1>6. Width(t, 1) = n /\ Code(t, 1) = CodePoint(p)
    <2>1. t \in Seq(Element) /\ 1 \in 1 .. Len(t)
      BY <1>1, <1>2
    <2>2. Width(t, 1) = n /\ Code(t, 1) = CodePoint(q)
      BY <1>4, <1>5, <2>1, OneCharacter, Zenon
    <2> HIDE DEF q
    <2> QED
      BY <1>3, <2>2
  <1> QED
    BY <1>1, <1>6 DEF t

\* The characters of what comes after a piece do not depend on the piece.
LEMMA SpellsOn ==
  ASSUME NEW t \in Seq(Element), NEW w \in Seq(Element), NEW n \in Nat, Len(t) = n + Len(w),
         \A j \in 1 .. Len(w) : t[n + j] = w[j], NEW f, Spells(t, f), NEW g, Spells(w, g)
  PROVE  \A j \in 1 .. Len(w) + 1 : f[n + j] = g[j]
  <1> DEFINE M == Len(w)
             T == {k \in Nat : \A j \in 1 .. M + 1 : j >= M + 1 - k => f[n + j] = g[j]}
  <1>1. M \in Nat /\ Len(t) = n + M
    BY LenProperties
  <1>2. f[n + (M + 1)] = <<>> /\ g[M + 1] = <<>>
    <2>1. n + (M + 1) = Len(t) + 1
      BY <1>1
    <2> QED
      BY <2>1 DEF Spells
  <1>3. ASSUME NEW j \in 1 .. M
        PROVE  Width(t, n + j) = Width(w, j) /\ Code(t, n + j) = Code(w, j)
    <2>1. t[n + j] = w[j]
      OBVIOUS
    <2>2. n + j \in 1 .. Len(t)
      BY <1>1
    <2>3. ASSUME NEW m \in 1 .. 4
          PROVE  /\ n + j + m - 1 <= Len(t) <=> j + m - 1 <= Len(w)
                 /\ j + m - 1 <= Len(w) => SubSeq(t, n + j, n + j + m - 1) = SubSeq(w, j, j + m - 1)
      <3>1. n + j + m - 1 <= Len(t) <=> j + m - 1 <= Len(w)
        BY <1>1
      <3>2. ASSUME j + m - 1 <= Len(w)
            PROVE  SubSeq(t, n + j, n + j + m - 1) = SubSeq(w, j, j + m - 1)
        <4> DEFINE a == SubSeq(t, n + j, n + j + m - 1)
                   z == SubSeq(w, j, j + m - 1)
        <4>1. a \in Seq(Element) /\ Len(a) = m /\ \A k \in 1 .. m : a[k] = t[n + j + k - 1]
          <5> DEFINE i == n + j
          <5>1. i \in 1 .. Len(t) /\ i + m - 1 <= Len(t)
            BY <2>2, <3>1, <3>2
          <5> HIDE DEF i
          <5> DEFINE p == SubSeq(t, i, i + m - 1)
          <5>2. p \in Seq(Element) /\ Len(p) = m /\ \A k \in 1 .. m : p[k] = t[i + k - 1]
            BY <5>1, PieceOf
          <5> QED
            BY <5>2 DEF i
        <4>2. z \in Seq(Element) /\ Len(z) = m /\ \A k \in 1 .. m : j + k - 1 \in 1 .. Len(w) /\ z[k] = w[j + k - 1]
          <5>1. j \in 1 .. Len(w) /\ Len(w) \in Nat
            BY <1>1
          <5>2. z \in Seq(Element) /\ Len(z) = m /\ \A k \in 1 .. m : z[k] = w[j + k - 1]
            BY <3>2, <5>1, PieceOf
          <5>3. \A k \in 1 .. m : j + k - 1 \in 1 .. Len(w)
            <6> HIDE DEF z
            <6> QED
              BY <3>2, <5>1
          <5> QED
            BY <5>2, <5>3
        <4>3. \A k \in 1 .. m : n + j + k - 1 = n + (j + k - 1)
          OBVIOUS
        <4> HIDE DEF a, z
        <4>4. \A k \in 1 .. m : a[k] = z[k]
          BY <4>1, <4>2, <4>3
        <4>5. a = z
          BY <4>1, <4>2, <4>4, SeqEqual
        <4> QED
          BY <4>5 DEF a, z
      <3> QED
        BY <3>1, <3>2
    <2>4. Lengths(t, n + j) = Lengths(w, j)
      <3>1. \A m \in 1 .. 4 : m \in Lengths(t, n + j) <=> m \in Lengths(w, j)
        BY <2>3 DEF Lengths
      <3>2. Lengths(t, n + j) \subseteq 1 .. 4 /\ Lengths(w, j) \subseteq 1 .. 4
        BY DEF Lengths
      <3> QED
        BY <3>1, <3>2
    <2>5. Width(t, n + j) = Width(w, j)
      <3> DEFINE i == n + j
      <3>1. t[i] = w[j] /\ Lengths(t, i) = Lengths(w, j)
        BY <2>1, <2>4
      <3> HIDE DEF i
      <3>2. Width(t, i) = Width(w, j)
        BY <3>1 DEF Width
      <3> QED
        BY <3>2 DEF i
    <2>6. Code(t, n + j) = Code(w, j)
      <3>1. CASE w[j] >= 1000 \/ Lengths(w, j) = {}
        BY <2>1, <2>4, <3>1 DEF Code
      <3>2. CASE ~ (w[j] >= 1000) /\ Lengths(w, j) # {}
        <4> DEFINE m == CHOOSE m \in Lengths(w, j) : TRUE
        <4>1. m \in Lengths(w, j) /\ Width(w, j) = m
          BY <3>2 DEF Width
        <4> HIDE DEF m
        <4>2. m \in 1 .. 4 /\ j + m - 1 <= Len(w)
          BY <4>1 DEF Lengths
        <4>3. SubSeq(t, n + j, n + j + m - 1) = SubSeq(w, j, j + m - 1)
          BY <2>3, <4>2
        <4>4. Code(w, j) = CodePoint(SubSeq(w, j, j + m - 1))
          BY <3>2, <4>1 DEF Code
        <4>5. Code(t, n + j) = CodePoint(SubSeq(t, n + j, n + j + m - 1))
          BY <2>1, <2>4, <2>5, <3>2, <4>1 DEF Code
        <4> QED
          BY <4>3, <4>4, <4>5
      <3> QED
        BY <3>1, <3>2
    <2> QED
      BY <2>5, <2>6
  <1>4. 0 \in T
    <2>1. \A j \in 1 .. M + 1 : j >= M + 1 - 0 => j = M + 1
      BY <1>1
    <2> QED
      BY <1>2, <2>1
  <1>5. ASSUME NEW k \in Nat, k \in T PROVE k + 1 \in T
    <2>1. SUFFICES ASSUME NEW j \in 1 .. M + 1, j >= M + 1 - (k + 1) PROVE f[n + j] = g[j]
      OBVIOUS
    <2>2. CASE j >= M + 1 - k
      BY <1>5, <2>2
    <2>3. CASE j < M + 1 - k
      <3> DEFINE m == Width(w, j)
      <3>1. j \in 1 .. M /\ n + j \in 1 .. Len(t)
        BY <1>1, <2>3
      <3>2. Width(t, n + j) = m /\ Code(t, n + j) = Code(w, j)
        BY <1>3, <3>1
      <3>3. m \in 1 .. 4 /\ j + m \in j + 1 .. M + 1
        BY <3>1, CharacterIs
      <3> HIDE DEF m
      <3>4. j + m \in 1 .. M + 1 /\ j + m >= M + 1 - k /\ n + j + m = n + (j + m)
        BY <1>1, <2>1, <2>3, <3>1, <3>3
      <3>5. f[n + j + m] = g[j + m]
        BY <1>5, <3>4
      <3>6. f[n + j] = <<Code(w, j)>> \o f[n + j + m]
        BY <3>1, <3>2 DEF Spells
      <3>7. g[j] = <<Code(w, j)>> \o g[j + m]
        BY <3>1 DEF Spells, m
      <3> QED
        BY <3>5, <3>6, <3>7
    <2> QED
      BY <1>1, <2>2, <2>3
  <1> HIDE DEF T
  <1>6. M \in T
    BY <1>1, <1>4, <1>5, SetInduction
  <1>7. \A j \in 1 .. M + 1 : j >= M + 1 - M
    BY <1>1
  <1> QED
    BY <1>6, <1>7 DEF T

\* The characters of a sequence are its first one and those of what follows it.
LEMMA CharactersOn ==
  ASSUME NEW t \in Seq(Element), NEW w \in Seq(Element), NEW n \in 1 .. 4, Len(t) = n + Len(w),
         \A j \in 1 .. Len(w) : t[n + j] = w[j], Width(t, 1) = n
  PROVE  Characters(t) = <<Code(t, 1)>> \o Characters(w)
  <1>1. PICK f : Spells(t, f) /\ Characters(t) = f[1]
    BY CharactersDef
  <1>2. PICK g : Spells(w, g) /\ Characters(w) = g[1]
    BY CharactersDef
  <1>3. Len(w) \in Nat /\ 1 \in 1 .. Len(t) /\ 1 \in 1 .. Len(w) + 1 /\ n \in Nat
    BY LenProperties
  <1>4. f[n + 1] = g[1]
    BY <1>1, <1>2, <1>3, SpellsOn
  <1>5. f[1] = <<Code(t, 1)>> \o f[1 + n]
    BY <1>1, <1>3 DEF Spells
  <1>6. 1 + n = n + 1
    OBVIOUS
  <1> QED
    BY <1>1, <1>2, <1>4, <1>5, <1>6

\* What is shown for a character, and for a sequence of them.
Show(x)  == IF x = Bad THEN Unknown ELSE x
Shown(q) == [k \in DOMAIN q |-> IF q[k] = Bad THEN Unknown ELSE q[k]]

\* p is read back as the character c, whatever comes after it.
Puts(p, c) ==
  \A w \in Seq(Element) : p \o w \in Seq(Element) /\ Characters(p \o w) = <<c>> \o Characters(w)

\* An escape, with whatever follows it.
LEMMA EscapePuts == \A c \in Byte \cup {Unknown} : Puts(<<Escape(c)>>, c) /\ <<Escape(c)>> \in Seq(Element)
  <1>1. SUFFICES ASSUME NEW c \in Byte \cup {Unknown}
                 PROVE  Puts(<<Escape(c)>>, c) /\ <<Escape(c)>> \in Seq(Element)
    OBVIOUS
  <1> DEFINE p == <<Escape(c)>>
  <1>2. Escape(c) \in Element
    BY ByteIs, BadIs
  <1>3. p \in Seq(Element)
    BY <1>2
  <1>4. ASSUME NEW w \in Seq(Element)
        PROVE  p \o w \in Seq(Element) /\ Characters(p \o w) = <<c>> \o Characters(w)
    <2> DEFINE t == p \o w
    <2>1. t \in Seq(Element) /\ Len(t) = 1 + Len(w) /\ Width(t, 1) = 1 /\ Code(t, 1) = c
          /\ \A j \in 1 .. Len(w) : t[1 + j] = w[j]
      BY EscapeReads
    <2> HIDE DEF t
    <2>2. 1 \in 1 .. 4
      OBVIOUS
    <2>3. Characters(t) = <<c>> \o Characters(w)
      BY <2>1, <2>2, CharactersOn
    <2> QED
      BY <2>1, <2>3 DEF t
  <1> HIDE DEF p
  <1>5. Puts(p, c)
    BY <1>4 DEF Puts
  <1> QED
    BY <1>3, <1>5 DEF p

\* A character put as it is, with whatever follows it.
LEMMA PiecePuts ==
  ASSUME NEW p \in Seq(Element), NEW n \in 1 .. 4, Len(p) = n, IsUtf8(p), ~ (p[1] >= 1000)
  PROVE  Puts(p, CodePoint(p))
  <1>1. ASSUME NEW w \in Seq(Element)
        PROVE  p \o w \in Seq(Element) /\ Characters(p \o w) = <<CodePoint(p)>> \o Characters(w)
    <2> DEFINE t == p \o w
               c == CodePoint(p)
    <2>1. t \in Seq(Element) /\ Len(t) = n + Len(w) /\ Width(t, 1) = n /\ Code(t, 1) = c
          /\ \A j \in 1 .. Len(w) : t[n + j] = w[j]
      BY PieceReads
    <2> HIDE DEF t, c
    <2>3. Characters(t) = <<c>> \o Characters(w)
      BY <2>1, CharactersOn
    <2> QED
      BY <2>1, <2>3 DEF t, c
  <1> QED
    BY <1>1 DEF Puts

\* Bytes are elements.
LEMMA BytesAre ==
  ASSUME NEW s \in Seq(Byte)
  PROVE  s \in Seq(Element)
  <1>1. \A i \in 1 .. Len(s) : s[i] \in Element
    BY ElementOfSeq, ByteIs
  <1> QED
    BY <1>1, LenProperties, SeqDef

\* What emit_string puts at a byte is read back as the character there.
LEMMA EmitPuts ==
  ASSUME NEW s \in Seq(Byte), NEW i \in 1 .. Len(s), NEW f
  PROVE  \E p \in Seq(Element) :
           EmitAt(s, f, i) = p \o f[i + Width(s, i)] /\ Puts(p, Show(Code(s, i)))
  <1> DEFINE c == s[i]
             n == utf8_seq_len(s, i)
             P(p) == EmitAt(s, f, i) = p \o f[i + Width(s, i)] /\ Puts(p, Show(Code(s, i)))
  <1>1. c \in Byte /\ s \in Seq(Element)
    BY ElementOfSeq, BytesAre
  <1>2. c \in Int /\ 1 <= c /\ c <= 255 /\ ~ (c >= 1000)
    BY <1>1, ByteBounds
  <1>3. n \in 0 .. 4 /\ (c < 128 <=> n = 1)
    BY SeqLenIs
  <1>4. ASSUME n # 0
        PROVE  /\ n \in Lengths(s, i) /\ n \in 1 .. 4
               /\ Width(s, i) = n /\ Code(s, i) = CodePoint(SubSeq(s, i, i + n - 1))
               /\ Show(Code(s, i)) = CodePoint(SubSeq(s, i, i + n - 1))
    <2> HIDE DEF n
    <2>1. n \in 1 .. 4
      BY <1>3, <1>4
    <2>2. n \in Lengths(s, i)
      BY <2>1, LengthsAre DEF n
    <2>3. /\ Width(s, i) = n /\ Code(s, i) = CodePoint(SubSeq(s, i, i + n - 1))
          /\ Code(s, i) # Bad
      BY <1>1, <1>2, <2>2, OneCharacter
    <2> QED
      BY <2>1, <2>2, <2>3 DEF Show
  <1>5. CASE c < 32 \/ c = Quote \/ c = 92
    <2>1. c < 128
      BY <1>2, <1>5 DEF Quote
    <2>2. n = 1 /\ n # 0
      BY <1>3, <2>1
    <2>3. Width(s, i) = 1 /\ Show(Code(s, i)) = c
      <3> DEFINE q == SubSeq(s, i, i + 1 - 1)
      <3>1. 1 \in Lengths(s, i) /\ Width(s, i) = 1 /\ Show(Code(s, i)) = CodePoint(q)
        BY <1>4, <2>2
      <3>2. 1 \in 1 .. 4 /\ i + 1 - 1 <= Len(s)
        BY <3>1 DEF Lengths
      <3>3. Len(q) = 1 /\ \A k \in 1 .. 1 : q[k] = s[i + k - 1]
        BY <3>2, PieceOf
      <3>4. 1 \in 1 .. 1 /\ i + 1 - 1 = i
        OBVIOUS
      <3> HIDE DEF q
      <3>5. CodePoint(q) = c
        BY <3>3, <3>4, CodePointIs
      <3> QED
        BY <3>1, <3>5
    <2> DEFINE p == <<Escape(c)>>
    <2>4. Puts(p, c) /\ p \in Seq(Element)
      BY <1>1, EscapePuts
    <2>5. EmitAt(s, f, i) = p \o f[i + 1]
      BY <1>5 DEF EmitAt
    <2> HIDE DEF p
    <2> QED
      BY <2>3, <2>4, <2>5
  <1>6. CASE ~ (c < 32 \/ c = Quote \/ c = 92) /\ n = 0
    <2>1. Lengths(s, i) = {}
      <3>1. Lengths(s, i) \subseteq 1 .. 4 /\ \A m \in 1 .. 4 : m \in Lengths(s, i) <=> n = m
        BY LengthsAre
      <3>2. 0 \notin 1 .. 4
        OBVIOUS
      <3> QED
        BY <1>6, <3>1, <3>2
    <2>2. Width(s, i) = 1 /\ Code(s, i) = Bad
      BY <1>2, <2>1 DEF Width, Code
    <2>3. Show(Code(s, i)) = Unknown
      BY <2>2 DEF Show
    <2> DEFINE p == <<Escape(Unknown)>>
    <2>4. Puts(p, Unknown) /\ p \in Seq(Element)
      BY EscapePuts
    <2>5. EmitAt(s, f, i) = p \o f[i + 1]
      BY <1>6 DEF EmitAt
    <2> HIDE DEF p
    <2> QED
      BY <2>2, <2>3, <2>4, <2>5
  <1>7. CASE ~ (c < 32 \/ c = Quote \/ c = 92) /\ n # 0
    <2> DEFINE p == SubSeq(s, i, i + n - 1)
    <2>1. n \in Lengths(s, i) /\ n \in 1 .. 4 /\ Width(s, i) = n /\ Show(Code(s, i)) = CodePoint(p)
      BY <1>4, <1>7
    <2>2. IsUtf8(p) /\ i + n - 1 <= Len(s)
      BY <2>1 DEF Lengths
    <2>3. EmitAt(s, f, i) = p \o f[i + n]
      BY <1>7 DEF EmitAt
    <2> HIDE DEF n
    <2>4. p \in Seq(Element) /\ Len(p) = n /\ p[1] = c
      <3>1. p \in Seq(Element) /\ Len(p) = n /\ \A k \in 1 .. n : p[k] = s[i + k - 1]
        BY <1>1, <2>1, <2>2, PieceOf
      <3>2. 1 \in 1 .. n /\ i + 1 - 1 = i
        BY <2>1
      <3> QED
        BY <3>1, <3>2
    <2> HIDE DEF p, c
    <2>5. Puts(p, CodePoint(p))
      BY <1>2, <2>1, <2>2, <2>4, PiecePuts
    <2>6. P(p)
      BY <2>1, <2>3, <2>5
    <2> QED
      BY <2>4, <2>6
  <1> QED
    BY <1>5, <1>6, <1>7

\* What is shown for a character and those after it.
LEMMA ShownOn ==
  /\ Shown(<<>>) = <<>>
  /\ \A x \in Int, q \in Seq(Int) : Shown(<<x>> \o q) = <<Show(x)>> \o Shown(q)
  <1>1. Shown(<<>>) = <<>>
    <2>1. Shown(<<>>) \in [1 .. 0 -> {}] /\ Len(<<>>) = 0
      <3>1. DOMAIN <<>> = 1 .. 0 /\ \A k \in 1 .. 0 : FALSE
        OBVIOUS
      <3> QED
        BY <3>1, EmptySeq DEF Shown
    <2> QED
      BY <2>1, EmptySeq
  <1>2. ASSUME NEW x \in Int, NEW q \in Seq(Int) PROVE Shown(<<x>> \o q) = <<Show(x)>> \o Shown(q)
    <2> DEFINE o == <<x>>
               t == o \o q
               u == <<Show(x)>>
               r == Shown(q)
               n == Len(q)
    <2>0. Unknown \in Int
      BY SMT DEF Unknown
    <2>1. o \in Seq(Int) /\ Len(o) = 1 /\ o[1] = x
      OBVIOUS
    <2>2. u \in Seq(Int) /\ Len(u) = 1 /\ u[1] = Show(x)
      <3>1. Show(x) \in Int
        BY <2>0 DEF Show
      <3> QED
        BY <3>1
    <2> HIDE DEF o, u
    <2>3. n \in Nat /\ DOMAIN q = 1 .. n /\ \A k \in 1 .. n : q[k] \in Int
      BY LenProperties, ElementOfSeq
    <2>4. Joined(Int, o, q, t)
      BY <2>1, ConcatParts
    <2> HIDE DEF t
    <2>5. t \in Seq(Int) /\ Len(t) = 1 + n /\ t[1] = x /\ \A j \in 1 .. n : t[1 + j] = q[j]
      <3>1. 1 \in 1 .. 1
        OBVIOUS
      <3> QED
        BY <2>1, <2>4, <3>1 DEF Joined
    <2>6. \A z \in Seq(Int) : /\ Shown(z) \in Seq(Int) /\ Len(Shown(z)) = Len(z)
                              /\ \A k \in 1 .. Len(z) : Shown(z)[k] = Show(z[k])
      <3>1. SUFFICES ASSUME NEW z \in Seq(Int)
                     PROVE  /\ Shown(z) \in Seq(Int) /\ Len(Shown(z)) = Len(z)
                            /\ \A k \in 1 .. Len(z) : Shown(z)[k] = Show(z[k])
        OBVIOUS
      <3>2. DOMAIN z = 1 .. Len(z) /\ Len(z) \in Nat /\ \A k \in 1 .. Len(z) : z[k] \in Int
        BY LenProperties, ElementOfSeq
      <3> DEFINE m == Len(z)
                 g == Shown(z)
      <3>3. g = [k \in 1 .. m |-> Show(z[k])]
        BY <3>2 DEF Shown, Show
      <3>4. \A k \in 1 .. m : Show(z[k]) \in Int
        BY <2>0, <3>2 DEF Show
      <3> HIDE DEF g
      <3>5. g \in [1 .. m -> Int] /\ \A k \in 1 .. m : g[k] = Show(z[k])
        BY <3>3, <3>4
      <3>6. m \in Nat
        BY <3>2
      <3> HIDE DEF m
      <3>7. g \in Seq(Int) /\ Len(g) = m
        BY <3>5, <3>6
      <3> QED
        BY <3>5, <3>7 DEF g, m
    <2>7. r \in Seq(Int) /\ Len(r) = n /\ \A k \in 1 .. n : r[k] = Show(q[k])
      BY <2>6
    <2> DEFINE a == Shown(t)
               z == u \o r
    <2>8. a \in Seq(Int) /\ Len(a) = 1 + n /\ \A k \in 1 .. 1 + n : a[k] = Show(t[k])
      BY <2>5, <2>6
    <2> HIDE DEF r, a
    <2>9. Joined(Int, u, r, z)
      BY <2>2, <2>7, ConcatParts
    <2> HIDE DEF z, n
    <2>10. z \in Seq(Int) /\ Len(z) = 1 + n /\ z[1] = Show(x) /\ \A j \in 1 .. n : z[1 + j] = r[j]
      <3>1. 1 \in 1 .. 1
        OBVIOUS
      <3> QED
        BY <2>2, <2>7, <2>9, <3>1 DEF Joined
    <2>11. ASSUME NEW k \in 1 .. 1 + n PROVE a[k] = z[k]
      <3>1. CASE k = 1
        BY <2>5, <2>8, <2>10, <3>1
      <3>2. CASE k # 1
        <4> DEFINE j == k - 1
        <4>1. j \in 1 .. n /\ k = 1 + j
          BY <2>3, <3>2
        <4> HIDE DEF j
        <4>2. a[k] = Show(q[j]) /\ z[k] = r[j] /\ r[j] = Show(q[j])
          BY <2>5, <2>7, <2>8, <2>10, <4>1
        <4> QED
          BY <4>2
      <3> QED
        BY <3>1, <3>2
    <2>12. a = z
      BY <2>8, <2>10, <2>11, SeqEqual
    <2> QED
      BY <2>12 DEF a, z, t, o, u, r
  <1> QED
    BY <1>1, <1>2

\* A literal is read back as what is shown for the characters of its string.
LEMMA LiteralReads ==
  ASSUME NEW s \in Seq(Byte)
  PROVE  \E w \in Seq(Element) :
           emit_string(s) = <<Quote>> \o (w \o <<Quote>>) /\ Characters(w) = Shown(Characters(s))
  <1> DEFINE N == Len(s)
             Dom == 1 .. N + 1
             close == <<Quote>>
             none == <<>>
  <1>0. N \in Nat /\ s \in Seq(Element)
    BY LenProperties, BytesAre
  <1>1. PICK e : Emits(s, e) /\ emit_string(s) = close \o e[1]
    BY EmitDef
  <1>2. PICK g : Spells(s, g) /\ Characters(s) = g[1]
    BY <1>0, CharactersDef
  <1>3. /\ e[N + 1] = close /\ \A i \in 1 .. N : e[i] = EmitAt(s, e, i)
        /\ g \in [Dom -> Seq(Int)] /\ g[N + 1] = none
        /\ \A i \in 1 .. N : g[i] = <<Code(s, i)>> \o g[i + Width(s, i)]
    BY <1>1, <1>2 DEF Emits, Spells
  <1>4. close \in Seq(Element) /\ none \in Seq(Element) /\ none \o close = close
    <2>1. Quote \in Element
      BY MarksAre
    <2>2. close \in Seq(Element) /\ none \in Seq(Element)
      BY <2>1
    <2> HIDE DEF close
    <2> QED
      BY <2>2, ConcatEmptySeq
  <1>5. Characters(none) = none
    <2>1. Len(none) = 0
      BY EmptySeq
    <2>2. PICK h : Spells(none, h) /\ Characters(none) = h[1]
      BY <1>4, CharactersDef
    <2> QED
      BY <2>1, <2>2 DEF Spells
  <1> HIDE DEF close, none
  <1> DEFINE Reads1(i, w) == e[i] = w \o close /\ Characters(w) = Shown(g[i])
             T == {k \in Nat : \A i \in Dom : i >= N + 1 - k => \E w \in Seq(Element) : Reads1(i, w)}
  <1>6. 0 \in T
    <2>1. \A i \in Dom : i >= N + 1 - 0 => i = N + 1
      BY <1>0
    <2>2. Shown(none) = none
      BY ShownOn DEF none
    <2>3. Reads1(N + 1, none)
      BY <1>3, <1>4, <1>5, <2>2
    <2> HIDE DEF Reads1
    <2> QED
      BY <1>4, <2>1, <2>3
  <1>7. ASSUME NEW k \in Nat, k \in T PROVE k + 1 \in T
    <2> DEFINE Done(i) == \E w \in Seq(Element) : Reads1(i, w)
    <2>0. /\ \A i \in Dom : i >= N + 1 - k => Done(i)
          /\ (\A i \in Dom : i >= N + 1 - (k + 1) => Done(i)) => k + 1 \in T
      <3>1. k + 1 \in Nat
        OBVIOUS
      <3> HIDE DEF Reads1
      <3> QED
        BY <1>7, <3>1, Zenon
    <2> HIDE DEF T, Done
    <2>1. SUFFICES ASSUME NEW i \in Dom, i >= N + 1 - (k + 1) PROVE Done(i)
      BY <2>0
    <2>2. CASE i >= N + 1 - k
      BY <2>0, <2>2
    <2>3. CASE i < N + 1 - k
      <3> DEFINE j == i + Width(s, i)
                 c == Code(s, i)
      <3>1. i \in 1 .. N
        BY <1>0, <2>3
      <3>2. j \in i + 1 .. N + 1 /\ c \in Int
        BY <1>0, <3>1, CharacterIs
      <3>3. PICK p \in Seq(Element) : EmitAt(s, e, i) = p \o e[j] /\ Puts(p, Show(c))
        BY <3>1, EmitPuts
      <3>4. e[i] = p \o e[j] /\ g[i] = <<c>> \o g[j]
        BY <1>3, <3>1, <3>3
      <3> HIDE DEF j, c
      <3>5. j \in Dom /\ j >= N + 1 - k
        BY <1>0, <2>1, <2>3, <3>1, <3>2
      <3>6. PICK w \in Seq(Element) : Reads1(j, w)
        BY <2>0, <3>5 DEF Done
      <3>7. e[i] = (p \o w) \o close
        <4>1. e[j] = w \o close
          BY <3>6
        <4>2. (p \o w) \o close = p \o (w \o close)
          <5>1. close \in Seq(Element)
            BY <1>4
          <5> HIDE DEF Dom, N, Reads1
          <5> QED
            BY <5>1, ConcatAssociative
        <4> QED
          BY <3>4, <4>1, <4>2
      <3>8. p \o w \in Seq(Element) /\ Characters(p \o w) = <<Show(c)>> \o Characters(w)
        BY <3>3 DEF Puts
      <3>9. Shown(g[i]) = <<Show(c)>> \o Shown(g[j])
        <4>1. g[j] \in Seq(Int)
          BY <1>3, <3>5
        <4> QED
          BY <3>2, <3>4, <4>1, ShownOn
      <3>10. Reads1(i, p \o w)
        BY <3>6, <3>7, <3>8, <3>9
      <3> HIDE DEF Reads1
      <3> QED
        BY <3>8, <3>10 DEF Done
    <2> QED
      BY <1>0, <2>2, <2>3
  <1> HIDE DEF T
  <1>8. N \in T
    BY <1>0, <1>6, <1>7, SetInduction
  <1>9. 1 \in Dom /\ 1 >= N + 1 - N
    BY <1>0
  <1>10. PICK w \in Seq(Element) : Reads1(1, w)
    BY <1>8, <1>9 DEF T
  <1> QED
    BY <1>1, <1>2, <1>10 DEF close

\* What is between the quotes of a literal.
LEMMA Unquoted ==
  ASSUME NEW w \in Seq(Element)
  PROVE  LET t == <<Quote>> \o (w \o <<Quote>>)
         IN  SubSeq(t, 2, Len(t) - 1) = w
  <1> DEFINE o == <<Quote>>
             u == w \o o
             t == o \o u
             n == Len(w)
  <1>1. o \in Seq(Element) /\ Len(o) = 1 /\ n \in Nat
    <2>1. Quote \in Element
      BY MarksAre
    <2> QED
      BY <2>1, LenProperties
  <1> HIDE DEF o
  <1>2. u \in Seq(Element) /\ Len(u) = n + 1 /\ \A i \in 1 .. n : u[i] = w[i]
    <2>1. Joined(Element, w, o, u)
      BY <1>1, ConcatParts
    <2> HIDE DEF u
    <2> QED
      BY <1>1, <2>1 DEF Joined
  <1> HIDE DEF u
  <1>3. t \in Seq(Element) /\ Len(t) = 1 + (n + 1) /\ \A i \in 1 .. n + 1 : t[1 + i] = u[i]
    <2>1. Joined(Element, o, u, t)
      BY <1>1, <1>2, ConcatParts
    <2> HIDE DEF t, n
    <2> QED
      BY <1>1, <1>2, <2>1 DEF Joined
  <1> HIDE DEF t
  <1>4. \A i \in 1 .. n : t[1 + i] = w[i] /\ w[i] \in Element
    <2>1. \A i \in 1 .. n : i \in 1 .. n + 1
      BY <1>1
    <2> QED
      BY <1>2, <1>3, <2>1, ElementOfSeq
  <1> DEFINE m == Len(t) - 1
             z == SubSeq(t, 2, m)
  <1>5. m = n + 1
    BY <1>1, <1>3
  <1> HIDE DEF m
  <1>6. \A i \in 2 .. m : t[i] \in Element
    <2>1. ASSUME NEW i \in 2 .. m PROVE t[i] \in Element
      <3>1. i - 1 \in 1 .. n /\ 1 + (i - 1) = i
        BY <1>1, <1>5
      <3> QED
        BY <1>4, <3>1
    <2> QED
      BY <2>1
  <1>7. z \in Seq(Element) /\ Len(z) = n /\ \A i \in 1 .. n : z[i] = t[1 + i]
    <2>1. m \in Int /\ (2 <= m => m - 2 + 1 = n) /\ (~ (2 <= m) => n = 0) /\ \A i \in 1 .. n : 2 + i - 1 = 1 + i
      BY <1>1, <1>5
    <2> HIDE DEF n
    <2>2. z \in Seq(Element) /\ Len(z) = (IF 2 <= m THEN m - 2 + 1 ELSE 0) /\ \A i \in 1 .. m - 2 + 1 : z[i] = t[2 + i - 1]
      BY <1>6, <2>1, SubSeqProperties
    <2>3. n \in Nat
      BY <1>1
    <2>4. m - 2 + 1 = n
      BY <1>5, <2>3
    <2> HIDE DEF z
    <2> QED
      BY <2>1, <2>2, <2>3, <2>4
  <1> HIDE DEF z
  <1>8. \A i \in 1 .. n : z[i] = w[i]
    BY <1>4, <1>7
  <1>9. z = w
    BY <1>7, <1>8, SeqEqual
  <1> QED
    BY <1>9 DEF z, m, t, u, o

\* A string is read back from its literal, U+FFFD standing for each byte that is
\* part of no character, and the literal is UTF-8 whatever bytes the string holds:
\* emit_string escapes and copies by utf8_seq_len, and a bare string is sent as
\* the whole document.
THEOREM StringsReadBack == Spec => []StringReadsBack
  <1>1. Talk => StringReadsBack
    <2>1. SUFFICES ASSUME Talk, reply.body.text # <<>>, reply.body.text[1] = Quote
                   PROVE  LET text == reply.body.text
                              lit  == Characters(SubSeq(text, 2, Len(text) - 1))
                              chars == Characters(str)
                          IN  lit = [i \in DOMAIN chars |-> IF chars[i] = Bad THEN Unknown ELSE chars[i]]
      BY DEF StringReadsBack
    <2>2. reply.body.text = emit_string(str) /\ str \in Seq(Byte)
      BY <2>1 DEF Talk, SingleReply, Typed
    <2>3. PICK w \in Seq(Element) :
            emit_string(str) = <<Quote>> \o (w \o <<Quote>>) /\ Characters(w) = Shown(Characters(str))
      BY <2>2, LiteralReads
    <2> DEFINE t == reply.body.text
    <2>4. SubSeq(t, 2, Len(t) - 1) = w
      BY <2>2, <2>3, Unquoted
    <2>5. Characters(SubSeq(t, 2, Len(t) - 1)) = Shown(Characters(str))
      BY <2>3, <2>4
    <2> QED
      BY <2>5 DEF Shown
  <1> QED
    BY <1>1, TalkAlways, PTL
=============================================================================
