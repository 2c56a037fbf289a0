---------------------------- MODULE VisibleShare ----------------------------
(***************************************************************************)
(* What the file verbs of src/core/fsapi.c promise a client of the share.  *)
(* Under every name of a directory there is nothing, a directory, or a     *)
(* file with all its bytes; and the share changes in four ways only, each  *)
(* at once: a whole file is published under one name, an empty directory   *)
(* is made, a name is moved, a file or an empty directory is removed.      *)
(***************************************************************************)
CONSTANTS Dir, Name, None

VARIABLE view   \* view[d][n]: None, a directory, or what a file holds

Empty(x)     == \A n \in Name : view[x][n] = None
Changed(d, n) == view'[d][n] # view[d][n]
IsFile(v)    == v \notin Dir /\ v # None
WholeFile(v) == IsFile(v) /\ v[1]     \* a file is a tuple; the first entry says it is whole

\* a name is given to a whole file, which may replace nothing or a file
Publish(d, n) ==
  /\ view[d][n] \notin Dir /\ WholeFile(view'[d][n])
  /\ view' = [view EXCEPT ![d][n] = view'[d][n]]

MakeDir(d, n) ==
  /\ view[d][n] = None
  /\ \E x \in Dir : /\ view' = [view EXCEPT ![d][n] = x]
                   /\ Empty(x) /\ \A e \in Dir, m \in Name : view[e][m] # x

\* a file may take the place of a file, a directory that of an empty directory
Move(d, n, e, m) ==
  /\ view[d][n] # None
  /\ \/ view[e][m] = None
     \/ IsFile(view[d][n]) /\ IsFile(view[e][m])
     \/ view[d][n] \in Dir /\ view[e][m] \in Dir /\ Empty(view[e][m])
  /\ view' = [view EXCEPT ![d][n] = None, ![e][m] = view[d][n]]

Remove(d, n) ==
  /\ view[d][n] # None
  /\ view[d][n] \in Dir => Empty(view[d][n])
  /\ view' = [view EXCEPT ![d][n] = None]

Init == \A d \in Dir, n \in Name : view[d][n] \in Dir \cup {None} \/ WholeFile(view[d][n])

Next == \E d \in Dir, n \in Name :
          /\ Changed(d, n)
          /\ \/ Publish(d, n) \/ MakeDir(d, n) \/ Remove(d, n)
             \/ \E e \in Dir, m \in Name : Changed(e, m) /\ Move(d, n, e, m)

Spec == Init /\ [][Next]_view
=============================================================================
