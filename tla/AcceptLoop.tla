----------------------------- MODULE AcceptLoop -----------------------------
(***************************************************************************)
(* The accept loop of unasd (main in src/core/unasd.c): one forked child   *)
(* per connection, a cap on the children alive, and a SIGCHLD handler that *)
(* reaps them and keeps live_children, the count the cap is checked with.  *)
(*                                                                         *)
(* The handler runs on main's own thread between any two of its steps      *)
(* while SIGCHLD is not blocked, so main's actions need handler = "off".   *)
(* A pending signal is one bit: children that exit close together share it.*)
(***************************************************************************)
EXTENDS Naturals, FiniteSets

CONSTANTS
  Conn,          \* the connections clients open, each accepted at most once
  MaxChildren,   \* max_children; 0 means no cap
  ForkFails,     \* whether fork may fail
  AcceptFails,   \* whether accept may fail with anything but EINTR
  None

ASSUME LoopAssumption ==
  /\ MaxChildren \in Nat
  /\ ForkFails \in BOOLEAN /\ AcceptFails \in BOOLEAN
  /\ None \notin Conn
ASSUME FiniteConn == IsFiniteSet(Conn)

VARIABLES
  conn,      \* conn[c]: "new", "queued" in the backlog, "open", "served" or "busy" (503)
  child,     \* child[c]: "none", "running", "zombie" or "reaped"
  pc,        \* the next step of main
  cfd,       \* the connection main holds
  live,      \* live_children
  tmp,       \* the value live_children++ has loaded
  blocked,   \* SIGCHLD is blocked
  pending,   \* SIGCHLD is pending
  handler    \* the next step of reap_children, "off" when it is not running

vars == <<conn, child, pc, cfd, live, tmp, blocked, pending, handler>>

Init ==
  /\ conn = [c \in Conn |-> "new"]
  /\ child = [c \in Conn |-> "none"]
  /\ pc = "accept" /\ cfd = None
  /\ live = 0 /\ tmp = 0
  /\ blocked = FALSE /\ pending = FALSE /\ handler = "off"

Unreaped == {c \in Conn : child[c] \in {"running", "zombie"}}

-----------------------------------------------------------------------------
(***************************************************************************)
(* main.                                                                   *)
(***************************************************************************)
Step(from, to) == handler = "off" /\ pc = from /\ pc' = to
Signals == <<blocked, pending, handler>>
Counter == <<live, tmp>>

Accept ==
  /\ Step("accept", "cap")
  /\ \E c \in Conn : /\ conn[c] = "queued"
                     /\ cfd' = c
                     /\ conn' = [conn EXCEPT ![c] = "open"]
  /\ UNCHANGED <<child, Counter, Signals>>

\* any accept error but EINTR ends the loop, and main returns
AcceptError ==
  /\ AcceptFails /\ Step("accept", "exit")
  /\ UNCHANGED <<conn, child, cfd, Counter, Signals>>

\* Mutant: one child too many
AtCapLate == MaxChildren > 0 /\ live > MaxChildren
AtCap == MaxChildren > 0 /\ live >= MaxChildren

CheckCap ==
  /\ \/ AtCap /\ Step("cap", "busy")
     \/ ~AtCap /\ Step("cap", "block")
  /\ UNCHANGED <<conn, child, cfd, Counter, Signals>>

\* reply_busy and close
ReplyBusy ==
  /\ Step("busy", "accept")
  /\ conn' = [conn EXCEPT ![cfd] = "busy"] /\ cfd' = None
  /\ UNCHANGED <<child, Counter, Signals>>

\* Mutant: SIGCHLD stays deliverable across the fork
BlockNothing ==
  /\ Step("block", "fork")
  /\ UNCHANGED <<conn, child, cfd, Counter, Signals>>
Block ==
  /\ Step("block", "fork") /\ blocked' = TRUE
  /\ UNCHANGED <<conn, child, cfd, Counter, pending, handler>>

Fork ==
  /\ Step("fork", "load")
  /\ child' = [child EXCEPT ![cfd] = "running"]
  /\ UNCHANGED <<conn, cfd, Counter, Signals>>

ForkError ==
  /\ ForkFails /\ Step("fork", "restore")
  /\ UNCHANGED <<conn, child, cfd, Counter, Signals>>

\* Mutant: a connection that could not be forked for is dropped
RestoreAndDrop ==
  /\ Step("restore", "accept") /\ blocked' = FALSE /\ cfd' = None
  /\ UNCHANGED <<conn, child, Counter, pending, handler>>
\* fork failed: unblock and serve the connection in the parent
Restore ==
  /\ Step("restore", "inline") /\ blocked' = FALSE
  /\ UNCHANGED <<conn, child, cfd, Counter, pending, handler>>

ServeInline ==
  /\ Step("inline", "accept")
  /\ conn' = [conn EXCEPT ![cfd] = "served"] /\ cfd' = None
  /\ UNCHANGED <<child, Counter, Signals>>

\* live_children++ is a load and a store
Load ==
  /\ Step("load", "store") /\ tmp' = live
  /\ UNCHANGED <<conn, child, cfd, live, Signals>>

Store ==
  /\ Step("store", "unblock") /\ live' = tmp + 1
  /\ UNCHANGED <<conn, child, cfd, tmp, Signals>>

Unblock ==
  /\ Step("unblock", "close") /\ blocked' = FALSE
  /\ UNCHANGED <<conn, child, cfd, Counter, pending, handler>>

Close ==
  /\ Step("close", "accept") /\ cfd' = None
  /\ UNCHANGED <<conn, child, Counter, Signals>>

Main ==
  \/ Accept \/ CheckCap \/ ReplyBusy \/ Block \/ Fork \/ ForkError
  \/ Restore \/ ServeInline \/ Load \/ Store \/ Unblock \/ Close

-----------------------------------------------------------------------------
(***************************************************************************)
(* reap_children: waitpid(-1, WNOHANG) until no child is left to reap.     *)
(***************************************************************************)
Deliver ==
  /\ pending /\ ~blocked /\ handler = "off" /\ pc # "exit"
  /\ pending' = FALSE /\ handler' = "wait"
  /\ UNCHANGED <<conn, child, pc, cfd, Counter, blocked>>

WaitPid ==
  /\ handler = "wait"
  /\ \/ \E c \in Conn : /\ child[c] = "zombie"
                        /\ child' = [child EXCEPT ![c] = "reaped"]
                        /\ handler' = "dec"
     \/ (\A c \in Conn : child[c] # "zombie") /\ handler' = "off" /\ UNCHANGED child
  /\ UNCHANGED <<conn, pc, cfd, Counter, blocked, pending>>

\* Mutant: one child is reaped per signal
DecrementOnce ==
  /\ handler = "dec" /\ handler' = "off"
  /\ live' = IF live > 0 THEN live - 1 ELSE live
  /\ UNCHANGED <<conn, child, pc, cfd, tmp, blocked, pending>>
Decrement ==
  /\ handler = "dec" /\ handler' = "wait"
  /\ live' = IF live > 0 THEN live - 1 ELSE live
  /\ UNCHANGED <<conn, child, pc, cfd, tmp, blocked, pending>>

Reaper == Deliver \/ WaitPid \/ Decrement

(***************************************************************************)
(* The children and the clients.                                           *)
(***************************************************************************)
Exit(c) ==
  /\ child[c] = "running"
  /\ child' = [child EXCEPT ![c] = "zombie"]
  /\ conn' = [conn EXCEPT ![c] = "served"]
  /\ pending' = TRUE
  /\ UNCHANGED <<pc, cfd, Counter, blocked, handler>>

Connect(c) ==
  /\ conn[c] = "new" /\ pc # "exit"
  /\ conn' = [conn EXCEPT ![c] = "queued"]
  /\ UNCHANGED <<child, pc, cfd, Counter, Signals>>

Next == Main \/ AcceptError \/ Reaper \/ \E c \in Conn : Exit(c) \/ Connect(c)

Spec == Init /\ [][Next]_vars

\* The parent is scheduled, a pending signal is delivered, and set_io_timeout
\* makes every child, and every reply the parent writes itself, come to an end.
FairSpec ==
  /\ Spec
  /\ WF_vars(Main) /\ WF_vars(Reaper)
  /\ \A c \in Conn : WF_vars(Exit(c))

-----------------------------------------------------------------------------
(***************************************************************************)
(* Properties.                                                             *)
(***************************************************************************)
\* Every variable keeps its type.
TypeOK ==
  /\ conn \in [Conn -> {"new", "queued", "open", "served", "busy"}]
  /\ child \in [Conn -> {"none", "running", "zombie", "reaped"}]
  /\ pc \in {"accept", "cap", "busy", "block", "fork", "restore", "inline", "load", "store",
             "unblock", "close", "exit"}
  /\ cfd \in Conn \cup {None}
  /\ live \in Nat /\ tmp \in Nat
  /\ blocked \in BOOLEAN /\ pending \in BOOLEAN
  /\ handler \in {"off", "wait", "dec"}

\* live_children counts the children forked and not yet reaped.  It is one
\* behind between the fork and the store, and one ahead between the waitpid
\* that reaps a child and the decrement; it never drifts.
CountExact ==
  live + (IF pc \in {"load", "store"} THEN 1 ELSE 0)
    = Cardinality(Unreaped) + (IF handler = "dec" THEN 1 ELSE 0)

\* Never more than UNAS_MAX_CONN children exist at once.
CapHolds == MaxChildren > 0 => Cardinality(Unreaped) <= MaxChildren

\* A client is turned away with 503 only while the cap is used up.
BusyIsTrue ==
  [][pc = "cap" /\ pc' = "busy" => Cardinality(Unreaped) >= MaxChildren]_vars

\* Every child that exits is reaped, even when its signal was merged with
\* another's or came while SIGCHLD was blocked, unless accept fails and the
\* daemon ends.
ZombiesReaped == \A c \in Conn : child[c] = "zombie" ~> child[c] = "reaped" \/ pc = "exit"

\* Every connection in the backlog is answered, served by a child, served
\* inline, or turned away, unless accept fails and the daemon ends.
Answered == \A c \in Conn : conn[c] = "queued" ~> conn[c] \in {"served", "busy"} \/ pc = "exit"
=============================================================================
