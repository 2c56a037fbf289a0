------------------------------ MODULE MCPower ------------------------------
(***************************************************************************)
(* Instances of PowerFailure for TLC, on the trees and with the requests   *)
(* of MCFileApi.                                                           *)
(***************************************************************************)
EXTENDS PowerFailure, TLC

CONSTANTS root, dir, old, a, f, g   \* seed inodes and names

ConnSymmetry == Permutations(Conn)

MCTemp == [c \in Conn |-> c]
OneDir ==
  LET bind == (<<Top, Share>> :> root) @@ (<<root, a>> :> dir) @@ (<<dir, f>> :> old)
  IN  [d \in DirNode |-> [n \in Name |-> IF <<d, n>> \in DOMAIN bind THEN bind[<<d, n>>] ELSE None]]

Plain == [op |-> "PUT", path |-> Root, slash |-> FALSE, dst |-> <<>>, excl |-> FALSE,
          im |-> None, len |-> 1, deep |-> FALSE]
Put(p)     == [Plain EXCEPT !.path = Root \o p]
Create(p)  == [Put(p) EXCEPT !.excl = TRUE]
Move(p, q) == [Put(p) EXCEPT !.op = "MOVE", !.dst = Root \o q, !.len = None]
Copy(p, q) == [Move(p, q) EXCEPT !.op = "COPY"]
Delete(p)  == [Put(p) EXCEPT !.op = "DELETE", !.len = None]

\* uploads into directories old and new, a copy over one of them, and moves
Writes == {Put(<<a, f>>), Create(<<g, f>>), Copy(<<a, f>>, <<g>>),
           Move(<<a, f>>, <<g>>), Move(<<g>>, <<a, f>>), Delete(<<a, f>>)}
NewDirectory == {Put(<<g, f>>)}
=============================================================================
