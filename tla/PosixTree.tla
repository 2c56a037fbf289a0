----------------------------- MODULE PosixTree -----------------------------
(***************************************************************************)
(* The directory tree below the share's parent, as the system calls of     *)
(* src/core/fsapi.c and src/core/unasd.c see and change it.  The kernel is *)
(* not part of the repository, so this module is external: it gives the    *)
(* calls the daemon makes (stat, open, mkdir, link, rename, unlink, rmdir) *)
(* with the errors and effects POSIX defines for them on one file system   *)
(* without symbolic links.  Each call is atomic; everything longer is a    *)
(* sequence of them and belongs to FileApi.                                *)
(*                                                                         *)
(* Inodes are named, so that an open descriptor keeps its file when the    *)
(* name moves on.  One connection serves one request: it creates at most   *)
(* one file, whose inode is the connection itself, and at most one         *)
(* directory per path length, whose inode is the pair of both.             *)
(***************************************************************************)
EXTENDS Naturals, Sequences, SequencesExt

CONSTANTS
  Conn,        \* connections, each served by a child process of its own
  SeedFile,    \* inodes of the files that exist at the start
  SeedDir,     \* inodes of the directories that exist at the start
  Top,         \* the directory that holds the share root; never removed
  Share,       \* the share root's name in Top
  ClientName,  \* the names requests use
  Temp,        \* Temp[c] is the temporary name connection c draws
  MaxDepth,    \* bound: the longest path of a request
  None,        \* no entry, no value
  NotDir       \* a path walk that met a file where a directory had to be

Root == <<Share>>

FileNode == SeedFile \cup Conn
DirNode  == {Top} \cup SeedDir \cup (Conn \X (1 .. MaxDepth))
Node     == FileNode \cup DirNode
TempName == {Temp[c] : c \in Conn}
Name     == ClientName \cup TempName

ASSUME TreeAssumption ==
  /\ MaxDepth \in Nat
  /\ Share \in ClientName
  /\ DOMAIN Temp = Conn
  /\ TempName \cap ClientName = {}
  /\ FileNode \cap DirNode = {}
  /\ SeedFile \cap Conn = {}
  /\ None \notin Node /\ NotDir \notin Node /\ None # NotDir

\* Top is under no name, and a directory that a request makes is a new one
ASSUME FreshAssumption ==
  Top \notin SeedDir /\ ({Top} \cup SeedDir) \cap (Conn \X (1 .. MaxDepth)) = {}

VARIABLE ent   \* ent[d][n]: the inode that directory d binds to name n, or None

NoEntries == [n \in Name |-> None]
TreeTypeOK == ent \in [DirNode -> [Name -> Node \cup {None}]]

OK == "OK"

(***************************************************************************)
(* Path resolution: one component, and a whole path from Top.              *)
(***************************************************************************)
Entry(w, n) == IF w \in DirNode THEN ent[w][n]
               ELSE IF w \in FileNode THEN NotDir ELSE w

\* the directory that holds the last component of a nonempty path
Holder(p) ==
  LET at[i \in 0 .. Len(p)] == IF i = 0 THEN Top ELSE Entry(at[i - 1], p[i])
  IN  at[Len(p) - 1]

Walk(p)      == IF p = <<>> THEN Top ELSE Entry(Holder(p), Last(p))
Present(p)   == Walk(p) \in Node
LookupErr(w) == IF w = NotDir THEN "ENOTDIR" ELSE "ENOENT"
IsEmpty(d)   == \A n \in Name : ent[d][n] = None

(***************************************************************************)
(* The errno of each call, OK when it succeeds.                            *)
(***************************************************************************)
OpenErr(p) == IF Present(p) THEN OK ELSE LookupErr(Walk(p))

OpenDirErr(p) ==
  IF ~Present(p) THEN LookupErr(Walk(p))
  ELSE IF Walk(p) \in FileNode THEN "ENOTDIR" ELSE OK

\* mkdir, open with O_CREAT|O_EXCL, and the new name of link
CreateErr(p) ==
  IF Holder(p) \notin DirNode THEN LookupErr(Walk(p))
  ELSE IF Present(p) THEN "EEXIST" ELSE OK

LinkErr(old, new) == IF ~Present(old) THEN LookupErr(Walk(old)) ELSE CreateErr(new)

UnlinkErr(p) ==
  IF ~Present(p) THEN LookupErr(Walk(p))
  ELSE IF Walk(p) \in DirNode THEN "EISDIR" ELSE OK

RmdirErr(p) ==
  IF ~Present(p) THEN LookupErr(Walk(p))
  ELSE IF Walk(p) \in FileNode THEN "ENOTDIR"
  ELSE IF ~IsEmpty(Walk(p)) THEN "ENOTEMPTY" ELSE OK

RenameErr(old, new) ==
  LET s == Walk(old)
      t == Walk(new)
  IN  IF Holder(old) \notin DirNode THEN LookupErr(s)
      ELSE IF Holder(new) \notin DirNode THEN LookupErr(t)
      ELSE IF ~Present(old) THEN "ENOENT"
      ELSE IF s = t THEN OK
      ELSE IF IsStrictPrefix(old, new) THEN "EINVAL"
      ELSE IF s \in DirNode /\ t \in FileNode THEN "ENOTDIR"
      ELSE IF s \in FileNode /\ t \in DirNode THEN "EISDIR"
      ELSE IF t \in DirNode /\ ~IsEmpty(t) THEN "ENOTEMPTY"
      ELSE OK

(***************************************************************************)
(* The effect of each call that succeeds.                                  *)
(***************************************************************************)
Bind(p, node) == ent' = [ent EXCEPT ![Holder(p)][Last(p)] = node]
Unbind(p)     == Bind(p, None)

\* rename: the old name goes and the new one is (re)bound in one step
Rebind(old, new) ==
  ent' = [ent EXCEPT ![Holder(old)][Last(old)] = None,
                     ![Holder(new)][Last(new)] = Walk(old)]

(***************************************************************************)
(* A directory stream.  readdir returns each name at most once.  Every     *)
(* name bound to the same inode since opendir must be returned before the  *)
(* stream ends; a name that came or went meanwhile may be or may not be.   *)
(***************************************************************************)
OpenStream(p) == [path |-> p, dir |-> Walk(p), at |-> ent[Walk(p)], seen |-> {}]
Unopened(p)   == [path |-> p, dir |-> None, at |-> NoEntries, seen |-> {}]

Unread(s) == {n \in Name \ s.seen : s.at[n] # None \/ ent[s.dir][n] # None}
MayEnd(s) == \A n \in Unread(s) : ent[s.dir][n] # s.at[n]
=============================================================================
