-------------------------- MODULE AcceptLoopProofs --------------------------
(***************************************************************************)
(* live_children is exact and the cap holds, for every set of connections  *)
(* and every cap.  The invariant says what blocking SIGCHLD buys: while    *)
(* main is between the fork and the store of the counter no handler runs,  *)
(* so the value it loaded is still current when it stores it.              *)
(***************************************************************************)
EXTENDS AcceptLoop, FiniteSetTheorems, TLAPS

\* The steps of main between sigprocmask(SIG_BLOCK) and its undoing.
Critical == {"fork", "restore", "load", "store", "unblock"}

BlockedInside  == blocked <=> pc \in Critical
HandlerOutside == handler # "off" => ~blocked
LoadedCurrent  == pc = "store" => tmp = live
Unforked       == \A c \in Conn : conn[c] \in {"new", "queued"} => child[c] = "none"
HeldUnforked   == pc \in {"cap", "busy", "block", "fork", "restore", "inline"} =>
                    cfd \in Conn /\ conn[cfd] = "open" /\ child[cfd] = "none"
RoomToFork     == MaxChildren > 0 /\ pc \in {"block", "fork"} =>
                    Cardinality(Unreaped) < MaxChildren

IInv ==
  /\ TypeOK /\ BlockedInside /\ HandlerOutside /\ LoadedCurrent
  /\ Unforked /\ HeldUnforked /\ RoomToFork
  /\ CountExact /\ CapHolds

-----------------------------------------------------------------------------
\* The unreaped children are finitely many, and counting them is arithmetic.
LEMMA UnreapedFinite == IsFiniteSet(Unreaped) /\ Cardinality(Unreaped) \in Nat
  <1>1. Unreaped \subseteq Conn
    BY DEF Unreaped
  <1> QED
    BY <1>1, FiniteConn, FS_Subset, FS_CardinalityType

\* A fork makes one more unreaped child.
LEMMA ForkCounts ==
  ASSUME NEW c \in Conn, child \in [Conn -> {"none", "running", "zombie", "reaped"}],
         child[c] = "none", child' = [child EXCEPT ![c] = "running"]
  PROVE  Cardinality(Unreaped') = Cardinality(Unreaped) + 1
  <1>1. Unreaped' = Unreaped \cup {c}
    BY DEF Unreaped
  <1>2. c \notin Unreaped
    BY DEF Unreaped
  <1> QED
    BY <1>1, <1>2, UnreapedFinite, FS_AddElement

\* A successful waitpid makes one less.
LEMMA ReapCounts ==
  ASSUME NEW c \in Conn, child \in [Conn -> {"none", "running", "zombie", "reaped"}],
         child[c] = "zombie", child' = [child EXCEPT ![c] = "reaped"]
  PROVE  Cardinality(Unreaped') = Cardinality(Unreaped) - 1
  <1>1. Unreaped' = Unreaped \ {c}
    BY DEF Unreaped
  <1>2. c \in Unreaped
    BY DEF Unreaped
  <1> QED
    BY <1>1, <1>2, UnreapedFinite, FS_RemoveElement

\* An exit leaves the count alone: the zombie still holds its slot.
LEMMA ExitCounts ==
  ASSUME NEW c \in Conn, child \in [Conn -> {"none", "running", "zombie", "reaped"}],
         child[c] = "running", child' = [child EXCEPT ![c] = "zombie"]
  PROVE  Cardinality(Unreaped') = Cardinality(Unreaped)
  <1>1. Unreaped' = Unreaped
    BY DEF Unreaped
  <1> QED
    BY <1>1

\* A step that leaves the children alone keeps how many are unreaped.
LEMMA SameChildren ==
  ASSUME UNCHANGED child
  PROVE  Cardinality(Unreaped') = Cardinality(Unreaped)
  BY DEF Unreaped

-----------------------------------------------------------------------------
\* The inductive invariant holds at the start.
LEMMA InitIInv == Init => IInv
  <1> SUFFICES ASSUME Init PROVE IInv
    OBVIOUS
  <1>1. Unreaped = {}
    BY DEF Init, Unreaped
  <1>2. Cardinality(Unreaped) = 0
    BY <1>1, FS_EmptySet
  <1>3. TypeOK
    BY DEF Init, TypeOK
  <1>4. BlockedInside
    BY DEF Init, BlockedInside, Critical
  <1>5. CountExact /\ CapHolds
    BY <1>2, LoopAssumption DEF Init, CountExact, CapHolds
  <1>6. LoadedCurrent /\ Unforked /\ HeldUnforked /\ RoomToFork
    BY DEF Init, LoadedCurrent, Unforked, HeldUnforked, RoomToFork
  <1>7. HandlerOutside
    BY DEF Init, HandlerOutside
  <1> QED
    BY <1>3, <1>4, <1>5, <1>6, <1>7 DEF IInv

\* Every step of main, of the handler, of a child and of a client keeps IInv.
LEMMA NextIInv == IInv /\ [Next]_vars => IInv'
  <1> SUFFICES ASSUME IInv, [Next]_vars PROVE IInv'
    OBVIOUS
  <1> USE LoopAssumption, UnreapedFinite
  <1> USE DEF IInv, TypeOK, BlockedInside, HandlerOutside, LoadedCurrent, Unforked, HeldUnforked,
          RoomToFork, CountExact, CapHolds, Critical, Step, Signals, Counter
  <1>1. CASE Accept
    BY <1>1, SameChildren DEF Accept
  <1>2. CASE AcceptError
    BY <1>2, SameChildren DEF AcceptError
  <1>3. CASE CheckCap
    BY <1>3, SameChildren DEF CheckCap, AtCap
  <1>4. CASE ReplyBusy
    BY <1>4, SameChildren DEF ReplyBusy
  <1>5. CASE Block
    BY <1>5, SameChildren DEF Block
  <1>6. CASE Fork
    <2>1. Cardinality(Unreaped') = Cardinality(Unreaped) + 1
      BY <1>6, ForkCounts DEF Fork
    <2> QED
      BY <1>6, <2>1 DEF Fork
  <1>7. CASE ForkError
    BY <1>7, SameChildren DEF ForkError
  <1>8. CASE Restore
    BY <1>8, SameChildren DEF Restore
  <1>9. CASE ServeInline
    BY <1>9, SameChildren DEF ServeInline
  <1>10. CASE Load
    BY <1>10, SameChildren DEF Load
  <1>11. CASE Store
    BY <1>11, SameChildren DEF Store
  <1>12. CASE Unblock
    BY <1>12, SameChildren DEF Unblock
  <1>13. CASE Close
    BY <1>13, SameChildren DEF Close
  <1>14. CASE Deliver
    BY <1>14, SameChildren DEF Deliver
  <1>15. CASE WaitPid
    <2>1. CASE handler' = "off" /\ UNCHANGED child
      BY <1>15, <2>1, SameChildren DEF WaitPid
    <2>2. ASSUME NEW c \in Conn, child[c] = "zombie",
                 child' = [child EXCEPT ![c] = "reaped"], handler' = "dec"
          PROVE  IInv'
      <3>1. Cardinality(Unreaped') = Cardinality(Unreaped) - 1
        BY <2>2, ReapCounts
      <3> QED
        BY <1>15, <2>2, <3>1 DEF WaitPid
    <2> QED
      BY <1>15, <2>1, <2>2 DEF WaitPid
  <1>16. CASE Decrement
    BY <1>16, SameChildren DEF Decrement
  <1>17. ASSUME NEW c \in Conn, Exit(c) PROVE IInv'
    <2>1. Cardinality(Unreaped') = Cardinality(Unreaped)
      BY <1>17, ExitCounts DEF Exit
    <2> QED
      BY <1>17, <2>1 DEF Exit
  <1>18. ASSUME NEW c \in Conn, Connect(c) PROVE IInv'
    BY <1>18, SameChildren DEF Connect
  <1>19. CASE UNCHANGED vars
    BY <1>19, SameChildren DEF vars
  <1> QED
    BY <1>1, <1>2, <1>3, <1>4, <1>5, <1>6, <1>7, <1>8, <1>9, <1>10, <1>11, <1>12, <1>13, <1>14,
       <1>15, <1>16, <1>17, <1>18, <1>19 DEF Next, Main, Reaper

\* The inductive invariant of the accept loop holds in every reachable state.
THEOREM Inductive == Spec => []IInv
  BY InitIInv, NextIInv, PTL DEF Spec

\* live_children is the number of unreaped children at every moment, but for
\* the store and the decrement that are under way.
THEOREM LiveCountExact == Spec => []CountExact
  <1>1. IInv => CountExact
    BY DEF IInv
  <1> QED
    BY Inductive, <1>1, PTL

\* There are never more than MaxChildren children.
THEOREM CapNeverExceeded == Spec => []CapHolds
  <1>1. IInv => CapHolds
    BY DEF IInv
  <1> QED
    BY Inductive, <1>1, PTL

\* A 503 is the truth: the cap is used up when it is decided on.
THEOREM BusyTrue == Spec => BusyIsTrue
  <1>1. IInv /\ [Next]_vars =>
          [pc = "cap" /\ pc' = "busy" => Cardinality(Unreaped) >= MaxChildren]_vars
    <2> SUFFICES ASSUME IInv, Next, pc = "cap", pc' = "busy"
                 PROVE  Cardinality(Unreaped) >= MaxChildren
      OBVIOUS
    <2>1. CheckCap
      BY DEF Next, Main, Reaper, Accept, AcceptError, ReplyBusy, Block, Fork, ForkError, Restore,
         ServeInline, Load, Store, Unblock, Close, Deliver, WaitPid, Decrement, Exit, Connect, Step
    <2>2. AtCap /\ handler = "off"
      BY <2>1 DEF CheckCap, Step
    <2>3. live = Cardinality(Unreaped)
      BY <2>2, UnreapedFinite DEF IInv, CountExact, TypeOK
    <2> QED
      BY <2>2, <2>3 DEF AtCap
  <1> QED
    BY Inductive, <1>1, PTL DEF Spec, BusyIsTrue
=============================================================================
