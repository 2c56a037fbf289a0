---------------------------- MODULE JsonBuilder ----------------------------
(***************************************************************************)
(* The JSON builder of src/core/jsonw.c: one jb_* call after another on    *)
(* one json_buf, the growth of its buffer, the error latch, the comma and  *)
(* nesting flags, and the escaping of strings.                             *)
(*                                                                         *)
(* A call is a run of jb_putc and jb_puts, each one step; the allocator    *)
(* may refuse any growth.  The buffer is a sequence of elements: a         *)
(* character by its code, the escape of a character in one piece, and Word *)
(* for a number, true, false or null.  Every element counts as one byte.   *)
(***************************************************************************)
EXTENDS Integers, Sequences, SequencesExt

CONSTANTS
  JB_MAX_DEPTH,  \* the nesting limit
  FirstCap,      \* the capacity of the first allocation
  Strings,       \* the strings a caller may pass, as sequences of nonzero bytes
  MaxCalls       \* bound: how many calls a caller makes before it closes what is open

Byte == 1 .. 255

ASSUME BuilderAssumption ==
  /\ JB_MAX_DEPTH \in Nat \ {0}
  /\ FirstCap \in Nat /\ FirstCap >= 2
  /\ Strings \subseteq Seq(Byte)
  /\ MaxCalls \in [Strings -> Nat]

Quote == 34     Comma == 44     Colon == 58     Word == 0
Obj   == 123    Arr   == 91
Closing(c) == IF c = Obj THEN 125 ELSE 93
Escape(c)  == 1000 + c
Unknown    == 64 * 1024 - 3   \* U+FFFD, for a byte that is part of no character
Element    == 0 .. Escape(Unknown)

VARIABLES
  b,      \* the json_buf; cap is 0 while buf is NULL
  todo,   \* what the running call has yet to put
  after,  \* the bookkeeping that ends the running call
  live    \* how many buffers are allocated

bvars == <<b, todo, after, live>>

Fresh == [text |-> <<>>, cap |-> 0, err |-> FALSE, depth |-> 0, suppress |-> FALSE,
          need |-> [d \in 0 .. JB_MAX_DEPTH |-> FALSE]]
Idle  == todo = <<>>

-----------------------------------------------------------------------------
(***************************************************************************)
(* Strings.                                                                *)
(***************************************************************************)
At(s, i)   == IF i \in 1 .. Len(s) THEN s[i] ELSE 0      \* the NUL that ends s
Cont(s, i) == At(s, i) \in 128 .. 191

\* Mutant: the surrogates are let through
Utf8LenLax(s, i) ==
  LET c == s[i]
      n == IF c < 128 THEN 1 ELSE IF c \in 194 .. 223 THEN 2
           ELSE IF c \in 224 .. 239 THEN 3 ELSE IF c \in 240 .. 244 THEN 4 ELSE 0
      second == At(s, i + 1)
  IN  IF /\ \A k \in 1 .. n - 1 : Cont(s, i + k)
         /\ ~(c = 224 /\ second < 160)
         /\ ~(c = 240 /\ second < 144) /\ ~(c = 244 /\ second >= 144)
      THEN n ELSE 0

\* utf8_seq_len: the length of the UTF-8 character at s[i], 0 if there is none
utf8_seq_len(s, i) ==
  LET c == s[i]
      n == IF c < 128 THEN 1 ELSE IF c \in 194 .. 223 THEN 2
           ELSE IF c \in 224 .. 239 THEN 3 ELSE IF c \in 240 .. 244 THEN 4 ELSE 0
      second == At(s, i + 1)
  IN  IF /\ \A k \in 1 .. n - 1 : Cont(s, i + k)
         /\ ~(c = 224 /\ second < 160) /\ ~(c = 237 /\ second >= 160)
         /\ ~(c = 240 /\ second < 144) /\ ~(c = 244 /\ second >= 144)
      THEN n ELSE 0

\* emit_string: what is put for s, its quotes included
emit_string(s) ==
  LET from[i \in 1 .. Len(s) + 1] ==
        LET c == s[i]
            n == utf8_seq_len(s, i)
        IN  IF i > Len(s) THEN <<Quote>>
            ELSE IF c < 32 \/ c = Quote \/ c = 92 THEN <<Escape(c)>> \o from[i + 1]
            ELSE IF n = 0 THEN <<Escape(Unknown)>> \o from[i + 1]
            ELSE SubSeq(s, i, i + n - 1) \o from[i + n]
  IN  <<Quote>> \o from[1]

-----------------------------------------------------------------------------
(***************************************************************************)
(* The buffer.                                                             *)
(***************************************************************************)
\* Mutant: no room is kept for the trailing NUL
NeedsNoNul == Len(b.text) + 1 > b.cap

\* jb_reserve of one more element and the trailing NUL
Needs == Len(b.text) + 2 > b.cap
Grown == IF b.cap = 0 THEN FirstCap ELSE 2 * b.cap   \* one doubling is room enough

\* post_value: the container now holds a value; pop: back in the outer container
Marked(x) == IF x.depth > 0 THEN [x EXCEPT !.need[x.depth] = TRUE] ELSE x
Popped(x) == IF x.depth > 0 THEN [x EXCEPT !.depth = @ - 1] ELSE x

\* what the bookkeeping at the end of a call makes of the builder
Settled(x) ==
  IF after = "push" THEN
    IF x.depth >= JB_MAX_DEPTH THEN [x EXCEPT !.err = TRUE]
    ELSE [x EXCEPT !.depth = @ + 1, !.need[x.depth + 1] = FALSE]
  ELSE IF after = "pop" THEN Marked(Popped(x))
  ELSE IF after = "post" THEN Marked(x)
  ELSE [x EXCEPT !.suppress = TRUE]                                         \* jb_key

\* Mutant: a growth is tried again after one that failed
PutRetries ==
  /\ ~Idle
  /\ todo' = Tail(todo) /\ UNCHANGED after
  /\ LET put == [b EXCEPT !.text = Append(@, Head(todo))]
         end(x) == IF Len(todo) = 1 THEN Settled(x) ELSE x
     IN  \/ ~Needs /\ b' = end(put) /\ UNCHANGED live
         \/ Needs /\ b' = end([put EXCEPT !.cap = Grown])
            /\ live' = IF b.cap = 0 THEN live + 1 ELSE live
         \/ Needs /\ b' = end([b EXCEPT !.err = TRUE]) /\ UNCHANGED live

\* jb_putc or jb_puts: nothing once the latch is set, else a growth that may
\* fail, and the element
Put ==
  /\ ~Idle
  /\ todo' = Tail(todo) /\ UNCHANGED after
  /\ LET put == [b EXCEPT !.text = Append(@, Head(todo))]
         end(x) == IF Len(todo) = 1 THEN Settled(x) ELSE x
     IN  \/ b.err /\ b' = end(b) /\ UNCHANGED live
         \/ ~b.err /\ ~Needs /\ b' = end(put) /\ UNCHANGED live
         \/ ~b.err /\ Needs /\ b' = end([put EXCEPT !.cap = Grown])
            /\ live' = IF b.cap = 0 THEN live + 1 ELSE live
         \/ ~b.err /\ Needs /\ b' = end([b EXCEPT !.err = TRUE]) /\ UNCHANGED live

-----------------------------------------------------------------------------
(***************************************************************************)
(* The calls.                                                              *)
(***************************************************************************)
Separator == IF b.depth > 0 /\ b.need[b.depth] THEN <<Comma>> ELSE <<>>

\* jb_str, jb_int, jb_bool, jb_null, jb_obj_open and jb_arr_open: pre_value, then s
Value(s, end) ==
  /\ Idle /\ todo' = (IF b.suppress THEN <<>> ELSE Separator) \o s
  /\ b' = [b EXCEPT !.suppress = FALSE]
  /\ after' = end /\ UNCHANGED live

\* jb_obj_close and jb_arr_close
Close(c) == Idle /\ todo' = <<Closing(c)>> /\ after' = "pop" /\ UNCHANGED <<b, live>>

jb_key(s) ==
  /\ Idle /\ todo' = Separator \o emit_string(s) \o <<Colon>>
  /\ after' = "key" /\ UNCHANGED <<b, live>>

\* Mutant: a failed builder's buffer is dropped without free
TakeLeaks == Idle /\ b' = [b EXCEPT !.text = <<>>, !.cap = 0] /\ UNCHANGED <<todo, after, live>>

\* jb_take: the builder is empty again, but for the latch; after an error the
\* buffer is freed, else the caller owns it from here on
jb_take ==
  /\ Idle /\ b' = [b EXCEPT !.text = <<>>, !.cap = 0]
  /\ live' = IF b.err /\ b.cap > 0 THEN live - 1 ELSE live
  /\ UNCHANGED <<todo, after>>

\* Mutant: jb_take hands out what there is
TakenAnyway == b.text

\* what jb_take returns: <<>> is NULL, a document is never empty
Taken == IF b.err THEN <<>> ELSE b.text
=============================================================================
