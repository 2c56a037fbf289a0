---------------------------- MODULE JsonReplies ----------------------------
(***************************************************************************)
(* The replies built with the JSON builder: problem_json and the functions *)
(* of src/core/unasd.c that send it, reply_status and reply_shares, and    *)
(* fsapi_list_json of src/core/fsapi.c with the reply of dispatch_fs.      *)
(*                                                                         *)
(* A caller makes the calls of one document in a legal order: every        *)
(* document of the repository, from problem_json to a listing, is one of   *)
(* the orders enumerated here.  What differs between the callers is what   *)
(* they do when jb_take answers NULL.                                      *)
(***************************************************************************)
EXTENDS JsonBuilder

VARIABLES
  kind,   \* who builds: "problem", "bare", "report" or "listing"
  str,    \* the string it passes
  open,   \* the containers it has open, innermost last
  keyed,  \* whether its last call was jb_key
  calls,  \* how many calls it has made, closing ones apart
  said,   \* what it has said so far: the document without separators
  pc,     \* "build", then "sent"
  reply   \* the response: its status and its body

jvars == <<kind, str, open, keyed, calls, said, pc, reply>>
vars  == <<bvars, jvars>>

(***************************************************************************)
(* reply_problem sends a problem document; reply_auth, reply_405,          *)
(* reply_busy and the 416 of serve_file send one with a header of their    *)
(* own; reply_status and reply_shares send a report, dispatch_fs a listing.*)
(***************************************************************************)
Kinds == {"problem", "bare", "report", "listing"}
Whole(text) == [form |-> "json", text |-> text]
Oom         == [form |-> "oom", text |-> <<>>]
Empty       == [form |-> "empty", text |-> <<>>]

StartDocument(k) ==
  /\ kind' = k
  /\ open' = <<>> /\ keyed' = FALSE /\ calls' = 0 /\ said' = <<>>

Init ==
  /\ b = Fresh /\ todo = <<>> /\ after = "post" /\ live = 0
  /\ kind \in Kinds /\ str \in Strings
  /\ open = <<>> /\ keyed = FALSE /\ calls = 0 /\ said = <<>>
  /\ pc = "build" /\ reply = [status |-> 0, body |-> Empty]

-----------------------------------------------------------------------------
(***************************************************************************)
(* The calls a caller may make next.                                       *)
(***************************************************************************)
In(c)       == open # <<>> /\ Last(open) = c
WantsValue  == keyed \/ In(Arr) \/ (open = <<>> /\ calls = 0)
Building    == pc = "build" /\ Idle
Counted     == Building /\ (calls < MaxCalls[str] \/ keyed) /\ calls' = calls + 1

Say(s) == said' = said \o s /\ UNCHANGED <<kind, str, pc, reply>>

PutValue ==
  /\ Counted /\ WantsValue
  /\ \E s \in {<<Word>>, emit_string(str)} : Value(s, "post") /\ Say(s)
  /\ keyed' = FALSE /\ UNCHANGED open

OpenContainer ==
  /\ Counted /\ WantsValue
  /\ \E c \in {Obj, Arr} : Value(<<c>>, "push") /\ open' = Append(open, c) /\ Say(<<c>>)
  /\ keyed' = FALSE

PutKey ==
  /\ Counted /\ In(Obj) /\ ~keyed
  /\ jb_key(str) /\ Say(emit_string(str))
  /\ keyed' = TRUE /\ UNCHANGED open

CloseContainer ==
  /\ Building /\ open # <<>> /\ ~keyed
  /\ Close(Last(open)) /\ Say(<<Closing(Last(open))>>)
  /\ open' = Front(open) /\ UNCHANGED <<keyed, calls>>

-----------------------------------------------------------------------------
(***************************************************************************)
(* The end of a document.                                                  *)
(***************************************************************************)
Complete == Building /\ open = <<>> /\ calls > 0
Status   == IF kind \in {"report", "listing"} THEN 200 ELSE 400   \* 400 for any error status

Respond(status, body) ==
  /\ pc' = "sent" /\ reply' = [status |-> status, body |-> body]
  /\ UNCHANGED <<kind, str, open, keyed, calls, said>>

\* the body is sent and freed
SendDocument ==
  /\ Complete /\ Taken # <<>>
  /\ Respond(Status, Whole(Taken))
  /\ b' = [b EXCEPT !.text = <<>>, !.cap = 0] /\ live' = live - 1
  /\ UNCHANGED <<todo, after>>

\* reply_problem without a body says so in plain text, the others send none
SendFallback ==
  /\ Complete /\ Taken = <<>> /\ kind \in {"problem", "bare"}
  /\ jb_take
  /\ IF kind = "problem" THEN Respond(500, Oom) ELSE Respond(Status, Empty)

\* a report or a listing that failed is freed (fsapi_list_json looks at the latch
\* itself) and becomes a problem document, built from nothing
ReportFailure ==
  /\ Complete /\ Taken = <<>> /\ kind \in {"report", "listing"}
  /\ live' = IF b.cap > 0 THEN live - 1 ELSE live
  /\ b' = Fresh
  /\ StartDocument("problem")
  /\ UNCHANGED <<todo, after, str, pc, reply>>

Step == Put /\ UNCHANGED jvars

Next ==
  \/ Step \/ PutValue \/ OpenContainer \/ PutKey \/ CloseContainer
  \/ SendDocument \/ SendFallback \/ ReportFailure

Spec == Init /\ [][Next]_vars
-----------------------------------------------------------------------------
(***************************************************************************)
(* A JSON reader, for the properties: what it expects next (at), the       *)
(* containers it is in (nest) and what it has read, separators apart.      *)
(***************************************************************************)
Read(r, x) ==
  LET go(at, nest) == [at |-> at, nest |-> nest, said |-> Append(r.said, x)]
      skip(at)     == [r EXCEPT !.at = at]
      ended(nest)  == go(IF nest = <<>> THEN "end" ELSE "next", nest)
      value        == r.at \in {"value", "first"}
      inside(c)    == r.nest # <<>> /\ Last(r.nest) = c
  IN  CASE r.at = "name" /\ x = Quote -> go("colon", r.nest)
        [] r.at = "text" /\ x = Quote -> ended(r.nest)
        [] r.at \in {"name", "text"} /\ x >= 32 /\ x \notin {Quote, 92} -> go(r.at, r.nest)
        [] value /\ x = Quote -> go("text", r.nest)
        [] value /\ x = Word -> ended(r.nest)
        [] value /\ x = Obj -> go("member", Append(r.nest, Obj))
        [] value /\ x = Arr -> go("first", Append(r.nest, Arr))
        [] r.at \in {"member", "key"} /\ x = Quote -> go("name", r.nest)
        [] r.at = "colon" /\ x = Colon -> skip("value")
        [] r.at = "next" /\ x = Comma -> skip(IF inside(Obj) THEN "key" ELSE "value")
        [] r.at \in {"member", "next"} /\ x = Closing(Obj) /\ inside(Obj) -> ended(Front(r.nest))
        [] r.at \in {"first", "next"} /\ x = Closing(Arr) /\ inside(Arr) -> ended(Front(r.nest))
        [] OTHER -> go("error", r.nest)

Unread == [at |-> "value", nest |-> <<>>, said |-> <<>>]

\* the reader once it has read a whole text
Reading(text) ==
  LET upto[n \in 0 .. Len(text)] == IF n = 0 THEN Unread ELSE Read(upto[n - 1], text[n])
  IN  upto[Len(text)]

(***************************************************************************)
(* The characters of a byte sequence by the definition of UTF-8: the bits  *)
(* of a code point in the shortest form that holds them, surrogates and    *)
(* what lies above 10FFFF apart.  Bad stands for a byte of no character.   *)
(***************************************************************************)
Bad == 0 - 1
CodePoint(s) ==
  IF Len(s) = 1 THEN s[1]
  ELSE IF Len(s) = 2 THEN (s[1] - 192) * 64 + s[2] - 128
  ELSE IF Len(s) = 3 THEN ((s[1] - 224) * 64 + s[2] - 128) * 64 + s[3] - 128
  ELSE (((s[1] - 240) * 64 + s[2] - 128) * 64 + s[3] - 128) * 64 + s[4] - 128
\* the first bytes and the code points of each length; there are 17 planes
Starts(n) == IF n = 1 THEN 0 .. 127 ELSE IF n = 2 THEN 192 .. 223
             ELSE IF n = 3 THEN 224 .. 239 ELSE 240 .. 247
Plane     == 64 * 1024
Surrogates == 54 * 1024 .. 56 * 1024 - 1
Points(n) == IF n = 1 THEN 0 .. 127 ELSE IF n = 2 THEN 128 .. 2047
             ELSE IF n = 3 THEN (2048 .. Plane - 1) \ Surrogates
             ELSE Plane .. 17 * Plane - 1
IsUtf8(s) ==
  /\ s[1] \in Starts(Len(s))
  /\ \A i \in 2 .. Len(s) : s[i] \in 128 .. 191
  /\ CodePoint(s) \in Points(Len(s))

\* the character that begins at s[i]: how many elements it has, and its code
Lengths(s, i) == {n \in 1 .. 4 : i + n - 1 <= Len(s) /\ IsUtf8(SubSeq(s, i, i + n - 1))}
Width(s, i)   == IF s[i] >= 1000 \/ Lengths(s, i) = {} THEN 1 ELSE CHOOSE n \in Lengths(s, i) : TRUE
Code(s, i)    == IF s[i] >= 1000 THEN s[i] - 1000
               ELSE IF Lengths(s, i) = {} THEN Bad
               ELSE CodePoint(SubSeq(s, i, i + Width(s, i) - 1))
Characters(s) ==
  LET at[i \in 1 .. Len(s) + 1] ==
        IF i > Len(s) THEN <<>> ELSE <<Code(s, i)>> \o at[i + Width(s, i)]
  IN  at[1]

-----------------------------------------------------------------------------
(***************************************************************************)
(* Properties.                                                             *)
(***************************************************************************)
\* What was put fits the buffer with its trailing NUL, and the nesting flags
\* stay inside their array, whatever the allocator refused and however deep the
\* caller nested: jb_reserve, push and pop.
BufferFits ==
  /\ b.depth \in 0 .. JB_MAX_DEPTH
  /\ IF b.cap = 0 THEN b.text = <<>> ELSE Len(b.text) < b.cap

\* A body sent as JSON is one whole document, and says what the caller said: a
\* half-built one never goes out, and a reply that could not be built says 500,
\* or carries no body where its header says all (jb_take, reply_problem).
WholeReply ==
  pc = "sent" =>
    CASE reply.body.form = "json"  -> LET r == Reading(reply.body.text)
                                      IN  r.at = "end" /\ r.said = said
      [] reply.body.form = "oom"   -> reply.status = 500
      [] reply.body.form = "empty" -> reply.status # 200

\* A string is read back from its literal as the characters it held, with
\* U+FFFD for each byte that belongs to none, and the literal itself is valid
\* UTF-8 (emit_string, utf8_seq_len).
StringReadsBack ==
  LET text == reply.body.text
      lit  == Characters(SubSeq(text, 2, Len(text) - 1))
      chars == Characters(str)
  IN  text # <<>> /\ text[1] = Quote =>
        lit = [i \in DOMAIN chars |-> IF chars[i] = Bad THEN Unknown ELSE chars[i]]

\* Every buffer is freed by the time the reply is out, on the paths of a failed
\* allocation too, and never twice.
NoLeak == live = (IF b.cap > 0 THEN 1 ELSE 0) /\ (pc = "sent" => live = 0)

\* Once a call has failed, the calls that follow put nothing, until a builder
\* is started from nothing.
ErrSticks == [][b.err /\ b' # Fresh => b'.err /\ b'.text \in {b.text, <<>>}]_vars
=============================================================================
