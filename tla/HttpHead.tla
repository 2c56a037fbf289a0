------------------------------ MODULE HttpHead ------------------------------
(***************************************************************************)
(* The head of an HTTP request as src/core/http.c takes it apart, and the  *)
(* answers serve_conn and dispatch_fs of src/core/unasd.c give for it.     *)
(*                                                                         *)
(* A stream is what a peer sends before it closes.  CR, LF and the bytes   *)
(* of a body are symbols of their own; the text of a line, which the       *)
(* parser looks at only once the line is complete, is one symbol that says *)
(* what the parser makes of it.                                            *)
(***************************************************************************)
EXTENDS Naturals, Sequences, FiniteSets

CONSTANTS
  Streams,     \* what a peer may send; every line of a head is one text symbol
  BufSize,     \* HTTP_BUF_SZ
  MaxHeaders,  \* HTTP_MAX_HEADERS
  None

(***************************************************************************)
(* Texts: "PUT" and "GET", a request line with a method and a path; "word",*)
(* one without a path; "length", a Content-Length whose value v was read;  *)
(* "garbled", a Content-Length that is no length; "expect",                *)
(* "Expect: 100-continue"; "field", any other header; "junk", no colon.    *)
(***************************************************************************)
Colon  == {"length", "garbled", "expect", "field"}
Texts  == {"PUT", "GET", "word", "junk"} \cup Colon
Symbol == [t : Texts \cup {"CR", "LF", "byte"}, v : Nat]

ASSUME HeadAssumption ==
  /\ Streams \subseteq Seq(Symbol)
  /\ BufSize \in Nat /\ BufSize > 4
  /\ MaxHeaders \in Nat
  /\ None \notin Nat

-----------------------------------------------------------------------------
\* the CRLFCRLF that ends a head starts at i
EndsAt(b, i) ==
  /\ i + 3 <= Len(b)
  /\ b[i].t = "CR" /\ b[i + 1].t = "LF" /\ b[i + 2].t = "CR" /\ b[i + 3].t = "LF"

HeadAt(b, i) == EndsAt(b, i) /\ \A j \in 1 .. (i - 1) : ~EndsAt(b, j)
NoHead(b)    == \A i \in 1 .. Len(b) : ~EndsAt(b, i)

\* the headers of h that http_request has room for, by their places
HeaderAt(h) == {i \in 2 .. Len(h) : h[i].t \in Colon}
Kept(h)     == {i \in HeaderAt(h) : Cardinality({j \in HeaderAt(h) : j < i}) < MaxHeaders}
LengthAt(h) == {i \in Kept(h) : h[i].t \in {"length", "garbled"}}
Expects(h)  == \E i \in Kept(h) : h[i].t = "expect"

OK == "OK"
BadLine(h) == h = <<>> \/ h[1].t \notin {"PUT", "GET"}
Fault(h) ==
  IF BadLine(h) THEN "malformed request line"
  ELSE IF \E i, j \in LengthAt(h) : i # j THEN "duplicate Content-Length"
  ELSE IF \E i \in LengthAt(h) : h[i].t = "garbled" THEN "malformed Content-Length"
  ELSE OK
ContentLength(h) == IF LengthAt(h) = {} THEN None ELSE h[CHOOSE i \in LengthAt(h) : TRUE].v

(***************************************************************************)
(* How a connection can end: closed without a word, refused with 400 for a *)
(* reason, answered by the router without looking at a body, refused for   *)
(* want of a length, lost on the way, or stored.                           *)
(***************************************************************************)
Closed    == [status |-> 0, err |-> OK, stored |-> <<>>]
Refuse(e) == [status |-> 400, err |-> e, stored |-> <<>>]
Routed    == [status |-> 200, err |-> OK, stored |-> <<>>]
NoLength  == [status |-> 411, err |-> "ELENGTH", stored |-> <<>>]
Lost      == [status |-> 500, err |-> "EIO", stored |-> <<>>]
Store(b)  == [status |-> 201, err |-> OK, stored |-> b]
=============================================================================
