------------------------------ MODULE HttpRead ------------------------------
(***************************************************************************)
(* One connection of unasd from its first byte to the end of the request:  *)
(* http_read_request of src/core/http.c, what serve_conn and dispatch_fs   *)
(* of src/core/unasd.c do with its result, and the body that               *)
(* fsapi_write_stream of src/core/fsapi.c takes first from the buffer and  *)
(* then from the socket.  The peer's bytes arrive in pieces of any size.   *)
(* What happens to the file is FileApi's; here every upload is let through *)
(* and the disk has room.                                                  *)
(***************************************************************************)
EXTENDS HttpHead

VARIABLES
  stream,     \* what the peer sends before it closes
  taken,      \* how much of it has been read from the socket
  buf,        \* c->buf[0 .. c->len)
  pos,        \* c->pos, where the body begins
  head,       \* the head that was parsed into http_request
  continued,  \* whether "100 Continue" was sent
  file,       \* the bytes written to the temporary file
  pc,
  result      \* how the connection ended, None before that

vars == <<stream, taken, buf, pos, head, continued, file, pc, result>>

Init ==
  /\ stream \in Streams /\ taken = 0
  /\ buf = <<>> /\ pos = 0 /\ head = <<>>
  /\ continued = FALSE /\ file = <<>>
  /\ pc = "head" /\ result = None

\* a peer that asked for "100 Continue" holds its body back until it comes
AskedAt == {i \in 1 .. Len(stream) : /\ HeadAt(stream, i)
                                     /\ \E j \in 1 .. (i - 1) : stream[j].t = "expect"}
Sent == IF continued \/ AskedAt = {} THEN Len(stream)
        ELSE (CHOOSE i \in AskedAt : TRUE) + 3

Ended == taken = Len(stream)
Goto(l)   == pc' = l /\ UNCHANGED result
Finish(o) == pc' = "done" /\ result' = o

-----------------------------------------------------------------------------
(***************************************************************************)
(* http_read_request: look for the end of the head in all of the buffer,   *)
(* then read what there is room for.                                       *)
(***************************************************************************)
Reading == pc = "head" /\ NoHead(buf) /\ Len(buf) < BufSize - 1

ReadHead ==
  /\ Reading
  /\ \E k \in 1 .. (Sent - taken) :
       /\ Len(buf) + k <= BufSize
       /\ buf' = buf \o SubSeq(stream, taken + 1, taken + k)
       /\ taken' = taken + k
  /\ UNCHANGED <<stream, pos, head, continued, file, pc, result>>

EndOfHead ==
  /\ Reading /\ Ended
  /\ Finish(IF buf = <<>> THEN Closed ELSE Refuse("truncated head"))
  /\ UNCHANGED <<stream, taken, buf, pos, head, continued, file>>

\* SO_RCVTIMEO, or a connection reset
HeadFails ==
  /\ Reading
  /\ Finish(Refuse("read"))
  /\ UNCHANGED <<stream, taken, buf, pos, head, continued, file>>

HeadTooLarge ==
  /\ pc = "head" /\ NoHead(buf) /\ Len(buf) >= BufSize - 1
  /\ Finish(Refuse("request head too large"))
  /\ UNCHANGED <<stream, taken, buf, pos, head, continued, file>>

ParseHead ==
  /\ pc = "head"
  /\ \E i \in 1 .. Len(buf) :
       /\ HeadAt(buf, i)
       /\ head' = SubSeq(buf, 1, i - 1) /\ pos' = i + 3
  /\ \/ Fault(head') # OK /\ Finish(Refuse(Fault(head')))
     \/ Fault(head') = OK /\ Goto("dispatch")
  /\ UNCHANGED <<stream, taken, buf, continued, file>>

-----------------------------------------------------------------------------
(***************************************************************************)
(* dispatch_fs, and the body of an upload.                                 *)
(***************************************************************************)
Size == ContentLength(head)

Dispatch ==
  /\ pc = "dispatch"
  /\ \/ head[1].t = "GET" /\ Finish(Routed)
     \/ head[1].t = "PUT" /\ Size = None /\ Finish(NoLength)
     \/ head[1].t = "PUT" /\ Size # None /\ Goto("expect")
  /\ UNCHANGED <<stream, taken, buf, pos, head, continued, file>>

\* Mutant: the peer is left waiting
SkipContinue ==
  /\ pc = "expect" /\ Goto("prefix")
  /\ UNCHANGED <<stream, taken, buf, pos, head, continued, file>>

SendContinue ==
  /\ pc = "expect" /\ Goto("prefix")
  /\ continued' = Expects(head)
  /\ UNCHANGED <<stream, taken, buf, pos, head, file>>

\* Mutant: all that is in the buffer is taken for the body
TakeBuffer ==
  /\ pc = "prefix" /\ Goto("body")
  /\ file' = SubSeq(buf, pos + 1, Len(buf))
  /\ UNCHANGED <<stream, taken, buf, pos, head, continued>>

\* http_body_prefix, of which no more than Content-Length is used
TakePrefix ==
  /\ pc = "prefix" /\ Goto("body")
  /\ LET use == IF Len(buf) - pos > Size THEN Size ELSE Len(buf) - pos
     IN  file' = SubSeq(buf, pos + 1, pos + use)
  /\ UNCHANGED <<stream, taken, buf, pos, head, continued>>

ReadBody ==
  /\ pc = "body" /\ Len(file) < Size
  /\ \E k \in 1 .. (Sent - taken) :
       /\ Len(file) + k <= Size
       /\ file' = file \o SubSeq(stream, taken + 1, taken + k)
       /\ taken' = taken + k
  /\ UNCHANGED <<stream, buf, pos, head, continued, pc, result>>

\* the stream ends, or a read fails, before all of the body was there
BodyFails ==
  /\ pc = "body" /\ Len(file) < Size
  /\ Finish(Lost)
  /\ UNCHANGED <<stream, taken, buf, pos, head, continued, file>>
LoseBody == Ended /\ BodyFails

StoreBody ==
  /\ pc = "body" /\ Len(file) >= Size
  /\ Finish(Store(file))
  /\ UNCHANGED <<stream, taken, buf, pos, head, continued, file>>

Progress ==
  \/ ReadHead \/ EndOfHead \/ HeadTooLarge \/ ParseHead
  \/ Dispatch \/ SendContinue \/ TakePrefix
  \/ ReadBody \/ LoseBody \/ StoreBody

Next == Progress \/ HeadFails \/ BodyFails

Spec == Init /\ [][Next]_vars

\* The child is scheduled, and what the peer has sent arrives; no read need
\* ever time out.
FairSpec == Spec /\ WF_vars(Progress)

-----------------------------------------------------------------------------
(***************************************************************************)
(* Properties.                                                             *)
(***************************************************************************)
Intake == INSTANCE HttpIntake WITH outcome <- result

\* How a connection ends depends on the peer's bytes and not on the pieces
\* they arrive in: a CRLFCRLF split between reads is found, and the stored
\* body is the Content-Length bytes after it, none lost between the buffer
\* and the socket, none doubled, and none of what follows.
PiecesDoNotMatter == Intake!Spec

\* Every connection comes to an end although no read times out: a peer that
\* waits for "100 Continue" and a daemon that waits for the body do not wait
\* for each other, if the header that asked for it was among those kept.
Heard == \A i \in AskedAt : Expects(SubSeq(stream, 1, i - 1))
Answered == Heard ~> pc = "done"
=============================================================================
