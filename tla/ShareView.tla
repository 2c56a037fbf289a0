----------------------------- MODULE ShareView -----------------------------
(***************************************************************************)
(* The file verbs implement VisibleShare: the tree as the clients' names   *)
(* show it, without the temporary names.                                   *)
(***************************************************************************)
EXTENDS FileApi

\* what a file holds is told apart from a directory and from nothing
ASSUME ContentsAssumption ==
  (DirNode \cup {None}) \cap (BOOLEAN \X (FileNode \cup {None}) \X Nat \X Nat) = {}

Contents(f) == <<Whole(f), file[f].data, file[f].size, file[f].mtime>>

View == [d \in DirNode |-> [n \in ClientName |->
           IF ent[d][n] \in FileNode THEN Contents(ent[d][n]) ELSE ent[d][n]]]

Visible == INSTANCE VisibleShare WITH Dir <- DirNode, Name <- ClientName, view <- View

\* Whatever uploads, copies, moves and removals run beside each other, fail or
\* are killed, a client sees whole files only, and every change of the share is
\* one of the four atomic ones of VisibleShare: dispatch_fs with its workers.
AtomicChanges == Visible!Spec
=============================================================================
