----------------------------- MODULE HttpIntake -----------------------------
(***************************************************************************)
(* What the intake of a request promises (the comment on http_read_request *)
(* in src/core/http.h, and serve_conn): how a connection ends is decided   *)
(* by the bytes of the peer alone, never by the pieces they arrive in.     *)
(* Only a read that fails can make a difference, and a head that fills the *)
(* buffer to its last byte.                                                *)
(***************************************************************************)
EXTENDS HttpHead

VARIABLES stream, outcome

\* the answer to a complete head h that rest follows
Answers(h, rest, o) ==
  \/ Fault(h) # OK /\ o = Refuse(Fault(h))
  \/ Fault(h) = OK /\ h[1].t = "GET" /\ o = Routed
  \/ Fault(h) = OK /\ h[1].t = "PUT" /\ ContentLength(h) = None /\ o = NoLength
  \/ /\ Fault(h) = OK /\ h[1].t = "PUT" /\ ContentLength(h) # None
     /\ \/ ContentLength(h) > 0 /\ o = Lost
        \/ ContentLength(h) <= Len(rest) /\ o = Store(SubSeq(rest, 1, ContentLength(h)))

Allowed(s, o) ==
  \/ s = <<>> /\ o = Closed
  \/ o = Refuse("read")
  \/ s # <<>> /\ NoHead(s) /\ Len(s) < BufSize - 1 /\ o = Refuse("truncated head")
  \/ /\ Len(s) >= BufSize - 1
     /\ \A i \in 1 .. (BufSize - 4) : ~EndsAt(s, i)
     /\ o = Refuse("request head too large")
  \/ \E i \in 1 .. (BufSize - 3) :
       HeadAt(s, i) /\ Answers(SubSeq(s, 1, i - 1), SubSeq(s, i + 4, Len(s)), o)

Init == stream \in Streams /\ outcome = None

Finish ==
  /\ outcome = None
  /\ Allowed(stream, outcome')
  /\ UNCHANGED stream

Spec == Init /\ [][Finish]_<<stream, outcome>>
=============================================================================
