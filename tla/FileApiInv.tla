----------------------------- MODULE FileApiInv -----------------------------
(***************************************************************************)
(* The inductive invariant of FileApi, from which FileApiProofs derives    *)
(* its theorems.                                                           *)
(*                                                                         *)
(* Stage says what a child has established when it is about to make the    *)
(* call its pc names.  Disk relates the tree to the files still being      *)
(* written: until its file is published, a child's inode is reachable      *)
(* under the child's own temporary name only.                              *)
(***************************************************************************)
EXTENDS FileApi

Uploading   == {"opentmp", "fill", "publish", "untmp", "cleanup"}
Removing    == {"rmlstat", "rmopen", "rmread", "rmunlink", "rmdir"}
Unpublished == {"idle", "stat", "dest", "opensrc", "mkdirs", "opentmp", "fill", "publish"}

StageAt(l, r, m) ==
  /\ l # "idle" => r \in Requests
  /\ l \in {"idle", "stat", "dest", "opensrc"} => m.k = 0
  /\ l = "dest" => r.op \in {"MOVE", "COPY"}
  /\ l = "opensrc" => r.op = "COPY"
  /\ l = "rename" => r.op = "MOVE"
  /\ l = "mkdirs" => r.op \in {"PUT", "MOVE", "COPY"} /\ m.k < Len(MkdirsPath(r))
  /\ l \in Uploading => r.op \in {"PUT", "COPY"} /\ ~MakesDir(r)
  /\ l \in Uploading \cup {"mkdirs"} /\ r.op = "COPY" => m.fd \in FileNode
  /\ l \in Uploading \cup {"mkdirs"} /\ r.op = "PUT" /\ ~MakesDir(r) => r.len \in Nat
  /\ l \in Removing \cup {"list"} => m.frames # <<>>

Stage == \A c \in Conn : StageAt(pc[c], req[c], loc[c])

Typed == TypeOK /\ Stage

\* a child's temporary name never leads to anything but the child's own file
OwnTemps == \A d \in DirNode, c \in Conn : ent[d][Temp[c]] \in {None, c}

Named(f)   == \E b \in Bindings : ent[b[1]][b[2]] = f
Opened(f)  == \E c \in Conn : loc[c].fd = f
Listed(f)  == \E c \in Conn : \E e \in loc[c].listing : e.node = f /\ e.name \in ClientName
Hidden     == \A c \in Conn : pc[c] \in Unpublished => ~Named(c) /\ ~Opened(c) /\ ~Listed(c)

\* what the copying loop of a child has written so far, and where it stops
Filling ==
  \A c \in Conn :
    /\ pc[c] = "fill" => /\ file[c].size <= file[c].total
                         /\ req[c].op = "PUT" => file[c].total = req[c].len
                         /\ req[c].op = "COPY" => file[c].total = file[loc[c].fd].size
    /\ pc[c] = "publish" => Whole(c)

Disk == OwnTemps /\ Hidden /\ Filling /\ PublishedWhole /\ ReadersSeeWhole

IInv == Typed /\ Disk
=============================================================================
