----------------------------- MODULE MCFileApi -----------------------------
(***************************************************************************)
(* Instances of FileApi for TLC: the tree the runs start from and, for     *)
(* each run, the requests its clients may send.                            *)
(***************************************************************************)
EXTENDS ShareView, TLC

CONSTANTS root, dir, old, a, b, f, g   \* seed inodes and names

ConnSymmetry == Permutations(Conn)

MCTemp == [c \in Conn |-> c]           \* every child draws a name of its own
MCTempClash ==                        \* but one, the children draw the same name
  [c \in Conn |-> IF c = CHOOSE x \in Conn : TRUE THEN c ELSE "tmp"]

\* the share holds the empty tree, the file f, or the directory a with the file f
Tree(bind) ==
  [d \in DirNode |-> [n \in Name |->
     IF d = Top /\ n = Share THEN root
     ELSE IF <<d, n>> \in DOMAIN bind THEN bind[<<d, n>>] ELSE None]]
EmptyShare == Tree(<<>>)
OneFile    == Tree((<<root, f>> :> old))
OneDir     == Tree((<<root, a>> :> dir) @@ (<<dir, f>> :> old))

At_(p) == <<Share>> \o p
Plain  == [op |-> "GET", path |-> Root, slash |-> FALSE, dst |-> <<>>, excl |-> FALSE,
           im |-> None, len |-> None, deep |-> FALSE]
Get(p)      == [Plain EXCEPT !.path = At_(p)]
List(p)     == [Get(p) EXCEPT !.slash = TRUE]
HeadOf(p)   == [Get(p) EXCEPT !.op = "HEAD"]
Put(p, n)   == [Get(p) EXCEPT !.op = "PUT", !.len = n]
MkDir(p)    == [Put(p, 0) EXCEPT !.slash = TRUE]
Create(p, n) == [Put(p, n) EXCEPT !.excl = TRUE]
Replace(p, n, tag) == [Put(p, n) EXCEPT !.im = tag]
Delete(p)   == [Get(p) EXCEPT !.op = "DELETE"]
DeleteDir(p, deep) == [Delete(p) EXCEPT !.slash = TRUE, !.deep = deep]
Move(p, q)  == [Get(p) EXCEPT !.op = "MOVE", !.dst = At_(q)]
Copy(p, q)  == [Move(p, q) EXCEPT !.op = "COPY"]

\* Writers, copiers and readers of one path, with every fault of the data calls
RacingWrites == {Put(<<f>>, 2), Create(<<f>>, 1), Replace(<<f>>, 1, <<1, 0>>), Put(<<f>>, None),
                 Get(<<f>>), Copy(<<f>>, <<g>>)}
AllFaults    == {"ECONNRESET", "ENOSPC", "EIO", "EPIPE"}
NoFaults     == {}

\* Directories made, moved, listed and removed around uploads and copies into them
TreeChanges == {Put(<<a, b, g>>, 1), MkDir(<<a>>), DeleteDir(<<a>>, TRUE), Move(<<a>>, <<b>>),
                Move(<<a, f>>, <<g>>), Copy(<<a, f>>, <<b, f>>), List(<<a>>), Create(<<a, f>>, 1)}

\* The same with every refusal: wrong kinds, missing names, stale etags, the share root
\* itself as target
OddRequests == {DeleteDir(<<>>, TRUE), DeleteDir(<<a>>, FALSE), DeleteDir(<<a, f>>, TRUE),
                Delete(<<a>>), Delete(<<a, f>>), [Delete(<<a, f>>) EXCEPT !.im = <<9, 9>>],
                HeadOf(<<a, f>>), HeadOf(<<a>>), [HeadOf(<<a>>) EXCEPT !.slash = TRUE],
                List(<<a, f>>), Get(<<a, f>>), MkDir(<<a, f>>), Put(<<a>>, 1),
                Move(<<a>>, <<a, b>>), Move(<<a, f>>, <<>>), Copy(<<a, f>>, <<>>), Copy(<<a>>, <<b>>),
                [Move(<<a>>, <<b>>) EXCEPT !.im = <<9, 9>>], Move(<<a, f>>, <<a>>), MkDir(<<a, f, b>>)}

AllRequests == TreeChanges \cup OddRequests
=============================================================================
