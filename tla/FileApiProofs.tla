--------------------------- MODULE FileApiProofs ---------------------------
(***************************************************************************)
(* The theorems about FileApi: the types; that every name a client can use *)
(* leads to one whole file of its own and readers only ever see whole      *)
(* files; that what clients see of the tree changes in the atomic steps of *)
(* VisibleShare; what the PUTs that are acknowledged, refused or           *)
(* create-only leave behind; that no temporary name is left over; and,     *)
(* about PowerFailure, that a power failure shows nobody a torn file and   *)
(* what was acknowledged outlives the first one.                           *)
(***************************************************************************)
EXTENDS FileApiTypes, ShareView, PowerFailure, FiniteSetTheorems

-----------------------------------------------------------------------------
(***************************************************************************)
(* Typed is inductive.                                                     *)
(***************************************************************************)
LEMMA InitTyped ==
  ASSUME Init
  PROVE  Typed
  <1>1. TreeTypeOK
    BY InitAssumption DEF Init, TreeTypeOK
  <1>2. file \in [FileNode -> Inode]
    <2>1. Blank \in Inode
      BY DEF Blank, Inode
    <2>2. \A x \in SeedFile : Seed(x) \in Inode
      BY RequestAssumption DEF Seed, Inode, FileNode
    <2> QED
      BY <2>1, <2>2 DEF Init
  <1>3. NoLocal \in Locals /\ NoLocal.k = 0
    <2>1. NoStat \in Stat
      BY DEF NoStat, Stat
    <2>2. <<>> \in Seq(Stream)
      BY EmptySeq
    <2> QED
      BY <2>1, <2>2 DEF NoLocal, Locals
  <1>4. "idle" \in Phase /\ NoReply \in [status : Nat, err : Errno]
    BY DEF Phase, NoReply, Errno
  <1> HIDE DEF NoLocal, NoReply
  <1>5. TypeOK
    BY <1>1, <1>2, <1>3, <1>4 DEF Init, TypeOK
  <1>6. Stage
    BY <1>3 DEF Init, Stage, StageAt, Uploading, Removing
  <1> QED
    BY <1>5, <1>6 DEF Typed

\* Every step of a child's workers keeps types and stages.
LEMMA ServeTyped ==
  ASSUME Typed, NEW c \in Conn, Serve(c)
  PROVE  Typed'
  BY DispatchGetTyped, OpenFileTyped, SendTyped, OpenListTyped, ListEntryTyped, EndListTyped,
     DispatchPutTyped, MkdirTyped, OpenTempTyped, FillTyped, SyncTyped, PublishTyped,
     UnlinkTempTyped, FsyncDirTyped, StatSourceTyped, DispatchDestTyped, OpenSourceTyped,
     RenameTyped, DispatchDeleteTyped, RmLstatTyped, RmOpenTyped, RmReadTyped, RmRemoveTyped
     DEF Serve

\* Every step of the system keeps types and stages.
LEMMA NextTyped ==
  ASSUME Typed, [Next]_vars
  PROVE  Typed'
  <1>1. CASE Tick
    BY <1>1, TickTyped
  <1>2. ASSUME NEW c \in Conn, HandleRequest(c) \/ Serve(c) \/ Kill(c)
        PROVE  Typed'
    BY <1>2, HandleRequestTyped, ServeTyped, KillTyped
  <1>3. CASE UNCHANGED vars
    BY <1>3 DEF vars, Typed, TypeOK, TreeTypeOK, Stage
  <1> QED
    BY <1>1, <1>2, <1>3 DEF Next

\* Types and stages hold in every reachable state.
LEMMA TypedAlways == Spec => []Typed
  <1>1. Init => Typed
    BY InitTyped
  <1>2. Typed /\ [Next]_vars => Typed'
    BY NextTyped
  <1> QED
    BY <1>1, <1>2, PTL DEF Spec

\* Every variable keeps its type, in every instance of the model.
THEOREM TypeCorrect == Spec => []TypeOK
  <1>1. Typed => TypeOK
    BY DEF Typed
  <1> QED
    BY <1>1, TypedAlways, PTL

-----------------------------------------------------------------------------
(***************************************************************************)
(* Disk is inductive, when every child draws a temporary name of its own.  *)
(***************************************************************************)
\* A calm step shows nobody a file that was not visible before.
LEMMA CalmDisk ==
  ASSUME Typed, Disk, Calm
  PROVE  Disk'
  <1>1. OwnTemps'
    BY DEF Disk, OwnTemps, Calm, KeepsNames
  <1>2. \A x \in FileNode : Named(x)' => Named(x)
    BY DEF Named, Calm, KeepsNames
  <1>3. \A x \in Conn : x \in FileNode
    BY DEF FileNode
  <1>4. Hidden'
    BY <1>2, <1>3 DEF Disk, Hidden, Opened, Listed, Calm, KeepsReaders, KeepsWriters
  <1>5. Filling'
    BY DEF Disk, Filling, Whole, Calm, KeepsReaders, KeepsWriters
  <1>6. PublishedWhole'
    <2>1. ASSUME NEW b \in Bindings, ent'[b[1]][b[2]] \in FileNode
          PROVE  Whole(ent[b[1]][b[2]])'
      <3>1. PICK a \in Bindings : ent[a[1]][a[2]] = ent'[b[1]][b[2]]
        BY <2>1 DEF Calm, KeepsNames
      <3>2. Whole(ent[a[1]][a[2]])
        BY <2>1, <3>1 DEF Disk, PublishedWhole
      <3> QED
        BY <3>1, <3>2 DEF Whole, Calm
    <2> QED
      BY <2>1 DEF PublishedWhole
  <1>7. ReadersSeeWhole'
    BY DEF Disk, ReadersSeeWhole, Whole, Calm, KeepsReaders
  <1> QED
    BY <1>1, <1>4, <1>5, <1>6, <1>7 DEF Disk

\* Opening a client's path for reading finds a whole file, or a directory.
LEMMA OpenDisk ==
  ASSUME Typed, Disk, NEW c \in Conn, pc[c] \in {"open", "opensrc"},
         NEW p \in Path, Last(p) \in ClientName, Present(p),
         loc' = [loc EXCEPT ![c].fd = Walk(p)], UNCHANGED <<ent, file, req>>, KeepsWriters
  PROVE  Disk'
  <1> DEFINE w == Walk(p)
  <1>1. w \in FileNode => Named(w) /\ Whole(w)
    <2>1. Holder(p) \in DirNode /\ w = ent[Holder(p)][Last(p)]
      BY PresentEntry
    <2>2. <<Holder(p), Last(p)>> \in Bindings
      BY <2>1 DEF Bindings
    <2> QED
      BY <2>1, <2>2 DEF Named, Disk, PublishedWhole
  <1> HIDE DEF w
  <1>2. /\ loc'[c].fd = w /\ \A x \in Conn \ {c} : loc'[x].fd = loc[x].fd
        /\ \A x \in Conn : loc'[x].listing = loc[x].listing
    BY DEF w, Typed, TypeOK, Locals
  <1>3. OwnTemps' /\ PublishedWhole'
    BY DEF Disk, OwnTemps, PublishedWhole, Whole
  <1>4. Hidden'
    <2>1. ASSUME NEW x \in Conn, pc'[x] \in Unpublished
          PROVE  ~Named(x)' /\ ~Opened(x)' /\ ~Listed(x)'
      <3>1. ~Named(x) /\ ~Opened(x) /\ ~Listed(x)
        BY <2>1 DEF Disk, Hidden, KeepsWriters
      <3>2. x \in FileNode
        BY DEF FileNode
      <3> QED
        BY <1>1, <1>2, <3>1, <3>2 DEF Named, Opened, Listed
    <2> QED
      BY <2>1 DEF Hidden
  <1>5. Filling'
    <2>1. ASSUME NEW x \in Conn, pc'[x] \in {"fill", "publish"}
          PROVE  pc'[x] = pc[x] /\ loc'[x].fd = loc[x].fd
      BY <1>2, <2>1 DEF KeepsWriters
    <2> QED
      BY <2>1 DEF Disk, Filling, Whole
  <1>6. ReadersSeeWhole'
    BY <1>1, <1>2 DEF Disk, ReadersSeeWhole, Whole
  <1> QED
    BY <1>3, <1>4, <1>5, <1>6 DEF Disk

\* A listing only ever takes up what a name leads to at that moment.
LEMMA ListDisk ==
  ASSUME Typed, Disk, NEW c \in Conn, ListEntry(c)
  PROVE  Disk'
  <1>1. UNCHANGED <<ent, file, pc, req>> /\ \A x \in Conn : loc'[x].fd = loc[x].fd
    BY ListEntryTyped
  <1>2. ASSUME NEW x \in Conn, NEW e \in loc'[x].listing, e \notin loc[x].listing,
               e.node \in FileNode, e.name \in ClientName
        PROVE  Named(e.node) /\ e.size = file[e.node].total
    <2>1. PICK d \in DirNode : e.node = ent[d][e.name] /\ e.size = file[e.node].size
      BY <1>2, ListEntryTyped
    <2>2. <<d, e.name>> \in Bindings
      BY <1>2 DEF Bindings
    <2> QED
      BY <1>2, <2>1, <2>2 DEF Named, Disk, PublishedWhole, Whole
  <1>3. OwnTemps' /\ PublishedWhole' /\ Filling'
    BY <1>1 DEF Disk, OwnTemps, PublishedWhole, Filling, Whole
  <1>4. Hidden'
    <2>1. ASSUME NEW x \in Conn, pc'[x] \in Unpublished
          PROVE  ~Named(x)' /\ ~Opened(x)' /\ ~Listed(x)'
      <3>1. ~Named(x) /\ ~Opened(x) /\ ~Listed(x)
        BY <1>1, <2>1 DEF Disk, Hidden
      <3>2. x \in FileNode
        BY DEF FileNode
      <3>3. ~Listed(x)'
        BY <1>2, <3>1, <3>2 DEF Listed
      <3> QED
        BY <1>1, <3>1, <3>3 DEF Named, Opened
    <2> QED
      BY <2>1 DEF Hidden
  <1>5. ReadersSeeWhole'
    BY <1>1, <1>2 DEF Disk, ReadersSeeWhole, Whole
  <1> QED
    BY <1>3, <1>4, <1>5 DEF Disk

\* A child that has published nothing may do what it likes to its own file.
LEMMA OwnFileDisk ==
  ASSUME Typed, Disk, NEW c \in Conn, pc[c] \in Unpublished,
         NEW l \in {"fill", "publish"}, Moves(c, l), UNCHANGED <<req, loc>>,
         file' \in [FileNode -> Inode], \A x \in FileNode \ {c} : file'[x] = file[x],
         \A b \in Bindings : ent'[b[1]][b[2]] = ent[b[1]][b[2]], OwnTemps',
         l = "fill" /\ req[c].op = "COPY" => loc[c].fd \in FileNode,
         l = "fill" => /\ file'[c].size <= file'[c].total
                       /\ req[c].op = "PUT" => file'[c].total = req[c].len
                       /\ req[c].op = "COPY" => file'[c].total = file[loc[c].fd].size,
         l = "publish" => Whole(c)'
  PROVE  Disk'
  <1>1. c \in FileNode /\ ~Named(c) /\ ~Opened(c) /\ ~Listed(c)
    BY DEF FileNode, Disk, Hidden
  <1>2. pc'[c] = l /\ \A x \in Conn \ {c} : pc'[x] = pc[x]
    BY DEF Moves, Typed, TypeOK
  <1>3. Hidden'
    <2>1. \A x \in Conn : pc'[x] \in Unpublished => pc[x] \in Unpublished
      BY <1>2
    <2> QED
      BY <2>1 DEF Disk, Hidden, Named, Opened, Listed
  <1>4. Filling'
    <2>1. ASSUME NEW x \in Conn, x # c
          PROVE  /\ file'[x] = file[x] /\ pc'[x] = pc[x]
                 /\ loc[x].fd \in FileNode => file'[loc[x].fd] = file[loc[x].fd]
      BY <1>1, <1>2, <2>1 DEF FileNode, Opened
    <2>2. loc[c].fd \in FileNode => file'[loc[c].fd] = file[loc[c].fd]
      BY <1>1 DEF Opened
    <2>3. \A x \in Conn : pc[x] = "fill" /\ req[x].op = "COPY" => loc[x].fd \in FileNode
      BY UploadFacts DEF Uploading
    <2> QED
      BY <1>2, <2>1, <2>2, <2>3 DEF Disk, Filling, Whole
  <1>5. PublishedWhole'
    BY <1>1 DEF Disk, PublishedWhole, Named, Whole
  <1>6. ReadersSeeWhole'
    BY <1>1 DEF Disk, ReadersSeeWhole, Opened, Listed, Whole
  <1> QED
    BY <1>3, <1>4, <1>5, <1>6 DEF Disk


\* Opening the temporary file keeps Disk: its inode is new and has the private name only.
LEMMA OpenTempDisk ==
  ASSUME DistinctTemps, Typed, Disk, NEW c \in Conn, pc[c] = "opentmp", Typed',
         Moves(c, "fill"), UNCHANGED <<req, loc>>,
         CreateErr(TempPath(c)) = OK, Bind(TempPath(c), c),
         file' = [file EXCEPT ![c] = Upload(c)]
  PROVE  Disk'
  <1> DEFINE p == TempPath(c)
  <1>1. pc[c] \in Unpublished /\ pc[c] \in Uploading /\ c \in FileNode /\ c \in Node
    BY DEF Unpublished, Uploading, FileNode, Node
  <1>2. p \in Path /\ Last(p) = Temp[c] /\ Holder(p) \in DirNode
    BY <1>1, UploadFacts, CreateFree
  <1>3. \A d \in DirNode, n \in Name :
          ent'[d][n] = IF d = Holder(p) /\ n = Temp[c] THEN c ELSE ent[d][n]
    BY <1>1, <1>2, BindEffect, TypedControl
  <1> HIDE DEF p
  <1>4. \A x \in Conn : Temp[x] \in Name /\ Temp[x] \notin ClientName
    BY TreeAssumption DEF Name, TempName
  <1>5. OwnTemps'
    BY <1>3, <1>4 DEF Disk, OwnTemps, DistinctTemps
  <1>6. \A b \in Bindings : ent'[b[1]][b[2]] = ent[b[1]][b[2]]
    BY <1>3, <1>4 DEF Bindings, Name
  <1>7. \A x \in FileNode \ {c} : file'[x] = file[x]
    BY DEF Typed, TypeOK
  <1>8. /\ req[c].op = "COPY" => loc[c].fd \in FileNode /\ Whole(loc[c].fd)
        /\ req[c].op = "PUT" => req[c].len \in Nat
        /\ req[c].op \in {"PUT", "COPY"}
    BY <1>1, UploadFacts DEF Disk, ReadersSeeWhole
  <1>9. file'[c] = Upload(c)
    BY <1>1 DEF Typed, TypeOK
  <1>10. /\ file'[c].size <= file'[c].total
         /\ req[c].op = "PUT" => file'[c].total = req[c].len
         /\ req[c].op = "COPY" => file'[c].total = file[loc[c].fd].size
    <2>1. req[c].op = "COPY" => file[loc[c].fd].total \in Nat
      BY <1>8 DEF Typed, TypeOK, Inode
    <2> QED
      BY <1>8, <1>9, <2>1 DEF Upload, Whole
  <1>11. file' \in [FileNode -> Inode]
    BY DEF Typed, TypeOK
  <1> QED
    BY <1>1, <1>5, <1>6, <1>7, <1>8, <1>10, <1>11, OwnFileDisk

\* What Fill and Sync know of the file that is being written.
LEMMA FillFacts ==
  ASSUME Typed, Disk, NEW c \in Conn, pc[c] = "fill"
  PROVE  /\ c \in FileNode /\ file[c] \in Inode
         /\ req[c].op \in {"PUT", "COPY"}
         /\ req[c].op = "COPY" => loc[c].fd \in FileNode /\ loc[c].fd # c
         /\ Remaining(c) = file[c].total - file[c].size
         /\ file[c].size <= file[c].total
  <1>1. pc[c] \in Uploading /\ pc[c] \in Unpublished
    BY DEF Uploading, Unpublished
  <1>2. /\ req[c].op \in {"PUT", "COPY"}
        /\ req[c].op = "COPY" => loc[c].fd \in FileNode /\ loc[c].fd # c
    BY <1>1, UploadFacts DEF Disk, Hidden, Opened
  <1>3. c \in FileNode /\ file[c] \in Inode
    BY DEF FileNode, Typed, TypeOK
  <1> QED
    BY <1>2, <1>3 DEF Disk, Filling, Remaining

\* The copying loop keeps Disk: it writes a file nobody can reach.
LEMMA FillDisk ==
  ASSUME Typed, Disk, NEW c \in Conn, pc[c] = "fill", Typed', UNCHANGED <<ent, pc, req, loc>>,
         NEW n \in 1 .. Remaining(c), file' = [file EXCEPT ![c].size = @ + n, ![c].mtime = now]
  PROVE  Disk'
  <1>1. /\ c \in FileNode /\ file[c] \in Inode
        /\ Remaining(c) = file[c].total - file[c].size
        /\ req[c].op = "COPY" => loc[c].fd \in FileNode
    BY FillFacts
  <1>2. /\ file'[c].size = file[c].size + n /\ file'[c].total = file[c].total
        /\ \A x \in FileNode \ {c} : file'[x] = file[x]
    BY <1>1 DEF Typed, TypeOK, Inode
  <1>3. file'[c].size <= file'[c].total
    BY <1>1, <1>2 DEF Inode
  <1>4. pc[c] \in Unpublished /\ Moves(c, "fill") /\ file' \in [FileNode -> Inode] /\ OwnTemps'
    BY DEF Unpublished, Moves, Typed, TypeOK, Disk, OwnTemps
  <1>5. /\ req[c].op = "PUT" => file[c].total = req[c].len
        /\ req[c].op = "COPY" => file[c].total = file[loc[c].fd].size
    BY DEF Disk, Filling
  <1> QED
    BY <1>1, <1>2, <1>3, <1>4, <1>5, OwnFileDisk

\* The fsync keeps Disk, and establishes Whole for the publication.
LEMMA SyncDisk ==
  ASSUME Typed, Disk, NEW c \in Conn, pc[c] = "fill", Typed', UNCHANGED <<ent, req, loc>>,
         Moves(c, "publish"), file' = [file EXCEPT ![c].synced = TRUE], Remaining(c) <= 0
  PROVE  Disk'
  <1>1. /\ c \in FileNode /\ file[c] \in Inode
        /\ Remaining(c) = file[c].total - file[c].size
        /\ file[c].size <= file[c].total
    BY FillFacts
  <1>2. /\ file'[c].size = file[c].size /\ file'[c].total = file[c].total /\ file'[c].synced = TRUE
        /\ \A x \in FileNode \ {c} : file'[x] = file[x]
    BY <1>1 DEF Typed, TypeOK, Inode
  <1>3. Whole(c)'
    <2>1. file[c].size = file[c].total
      BY <1>1 DEF Inode
    <2> QED
      BY <1>2, <2>1 DEF Whole
  <1>4. pc[c] \in Unpublished /\ file' \in [FileNode -> Inode] /\ OwnTemps'
    BY DEF Unpublished, Typed, TypeOK, Disk, OwnTemps
  <1> QED
    BY <1>2, <1>3, <1>4, OwnFileDisk


\* Publication gives the child's own file, which is whole, a client's name.
LEMMA PublishDisk ==
  ASSUME Typed, Disk, NEW c \in Conn, pc[c] = "publish",
         NEW l \in {"flush", "untmp"}, Moves(c, l), UNCHANGED <<file, req, loc>>,
         \/ /\ RenameErr(TempPath(c), Target(req[c])) = OK
            /\ Rebind(TempPath(c), Target(req[c]))
         \/ /\ LinkErr(TempPath(c), Target(req[c])) = OK
            /\ Bind(Target(req[c]), Walk(TempPath(c)))
  PROVE  Disk'
  <1> DEFINE p == TempPath(c)
             t == Target(req[c])
  <1>1. /\ p \in Path /\ Last(p) = Temp[c]
        /\ t \in Path /\ Last(t) \in ClientName
    BY UploadFacts DEF Uploading
  <1>2. Present(p)
    BY <1>1, RenamePresent DEF LinkErr, LookupErr, OK, Present
  <1>3. Holder(p) \in DirNode /\ Walk(p) = ent[Holder(p)][Temp[c]]
    BY <1>1, <1>2, PresentEntry
  <1>4. Walk(p) = c
    <2>1. Walk(p) \in {None, c}
      BY <1>3 DEF Disk, OwnTemps
    <2> QED
      BY <1>2, <2>1, TreeAssumption DEF Present
  <1>5. \A d \in DirNode, n \in Name :
          \/ ent'[d][n] = ent[d][n]
          \/ ent'[d][n] = c /\ n \in ClientName
          \/ ent'[d][n] = None
    <2>1. CASE RenameErr(p, t) = OK /\ Rebind(p, t)
      BY <1>1, <1>4, <2>1, RebindEffect, TypedControl
    <2>2. CASE LinkErr(p, t) = OK /\ Bind(t, Walk(p))
      <3>1. c \in Node /\ CreateErr(t) = OK
        BY <1>2, <2>2 DEF LinkErr, Node, FileNode
      <3>2. Holder(t) \in DirNode
        BY <1>1, <3>1, CreateFree
      <3> QED
        BY <1>1, <1>4, <2>2, <3>1, <3>2, BindEffect, TypedControl
    <2> QED
      BY <2>1, <2>2
  <1> HIDE DEF p, t
  <1>6. \A x \in Conn : Temp[x] \in Name /\ Temp[x] \notin ClientName
    BY TreeAssumption DEF Name, TempName
  <1>7. OwnTemps'
    BY <1>5, <1>6 DEF Disk, OwnTemps
  <1>8. c \in FileNode /\ Whole(c) /\ None \notin FileNode
    BY TreeAssumption DEF FileNode, Node, Disk, Filling
  <1>9. pc'[c] = l /\ l \notin Unpublished /\ \A x \in Conn \ {c} : pc'[x] = pc[x]
    BY DEF Moves, Unpublished, Typed, TypeOK
  <1>10. \A b \in Bindings : ent'[b[1]][b[2]] \in {ent[b[1]][b[2]], c, None}
    BY <1>5 DEF Bindings, Name
  <1>11. Hidden'
    <2>1. ASSUME NEW x \in Conn, pc'[x] \in Unpublished
          PROVE  ~Named(x)' /\ ~Opened(x)' /\ ~Listed(x)'
      <3>1. x # c /\ ~Named(x) /\ ~Opened(x) /\ ~Listed(x) /\ x \in FileNode
        BY <1>9, <2>1 DEF Disk, Hidden, FileNode
      <3> QED
        BY <1>8, <1>10, <3>1 DEF Named, Opened, Listed
    <2> QED
      BY <2>1 DEF Hidden
  <1>12. Filling'
    <2>1. l \notin {"fill", "publish"}
      OBVIOUS
    <2> QED
      BY <1>9, <2>1 DEF Disk, Filling, Whole
  <1>13. PublishedWhole'
    BY <1>8, <1>10 DEF Disk, PublishedWhole, Whole
  <1>14. ReadersSeeWhole'
    BY DEF Disk, ReadersSeeWhole, Whole
  <1> QED
    BY <1>7, <1>11, <1>12, <1>13, <1>14 DEF Disk

\* Disk holds at the start: every file there is whole.
LEMMA InitDisk ==
  ASSUME Init
  PROVE  Disk
  <1>1. \A d \in DirNode, c \in Conn : ent[d][Temp[c]] = None
    BY InitAssumption DEF Init, TempName
  <1>2. \A b \in Bindings : ent[b[1]][b[2]] \in SeedFile \cup SeedDir \cup {None}
    BY InitAssumption DEF Init, Bindings, Name
  <1>3. \A c \in Conn : c \in FileNode /\ c \notin SeedFile \cup SeedDir \cup {None}
    BY TreeAssumption DEF FileNode, DirNode, Node
  <1>4. \A x \in FileNode : x \notin SeedDir \cup {None}
    BY TreeAssumption DEF DirNode, Node
  <1>5. \A x \in SeedFile : Whole(x)
    BY DEF Init, Whole, Seed, FileNode
  <1>6. \A c \in Conn : loc[c].fd = None /\ loc[c].listing = {} /\ pc[c] = "idle"
    BY DEF Init, NoLocal
  <1>7. Hidden
    BY <1>2, <1>3, <1>6 DEF Hidden, Named, Opened, Listed
  <1>8. PublishedWhole
    BY <1>2, <1>4, <1>5 DEF PublishedWhole
  <1>9. ReadersSeeWhole
    BY <1>4, <1>6 DEF ReadersSeeWhole
  <1> QED
    BY <1>1, <1>6, <1>7, <1>8, <1>9 DEF Disk, OwnTemps, Filling

\* Every step of a child's workers keeps Disk.
LEMMA ServeDisk ==
  ASSUME DistinctTemps, IInv, NEW c \in Conn, Serve(c)
  PROVE  Disk'
  <1>1. Typed /\ Disk /\ Typed'
    BY ServeTyped DEF IInv
  <1>2. CASE OpenFile(c) \/ OpenSource(c)
    <2>1. pc[c] \in {"open", "opensrc"}
      BY <1>2 DEF OpenFile, OpenSource
    <2>2. req[c].path \in Path /\ Last(req[c].path) \in ClientName
      BY <1>1, <2>1, Requested
    <2> QED
      BY <1>1, <1>2, <2>1, <2>2, OpenFileTyped, OpenSourceTyped, CalmDisk, OpenDisk
  <1>3. CASE OpenTemp(c)
    <2>1. pc[c] = "opentmp"
      BY <1>3 DEF OpenTemp
    <2> QED
      BY <1>1, <1>3, <2>1, OpenTempTyped, CalmDisk, OpenTempDisk
  <1>4. CASE Fill(c)
    <2>1. pc[c] = "fill"
      BY <1>4 DEF Fill
    <2> QED
      BY <1>1, <1>4, <2>1, FillTyped, CalmDisk, FillDisk
  <1>5. CASE Sync(c)
    <2>1. pc[c] = "fill"
      BY <1>5 DEF Sync
    <2> QED
      BY <1>1, <1>5, <2>1, SyncTyped, CalmDisk, SyncDisk
  <1>6. CASE PublishByRename(c) \/ PublishByLink(c)
    <2>1. pc[c] = "publish"
      BY <1>6 DEF PublishByRename, PublishByLink
    <2> QED
      BY <1>1, <1>6, <2>1, PublishTyped, CalmDisk, PublishDisk
  <1>7. CASE ListEntry(c)
    BY <1>1, <1>7, ListDisk
  <1>8. CASE \/ DispatchGet(c) \/ SendByte(c) \/ EndSend(c) \/ OpenList(c) \/ EndList(c)
             \/ DispatchPut(c) \/ Mkdir(c) \/ DropTemp(c) \/ Cleanup(c) \/ FsyncDir(c)
             \/ StatSource(c) \/ DispatchDest(c) \/ Rename(c)
             \/ DispatchDelete(c) \/ RmLstat(c) \/ RmOpen(c) \/ RmRead(c) \/ RmRemove(c)
    BY <1>1, <1>8, CalmDisk, DispatchGetTyped, SendTyped, OpenListTyped, EndListTyped,
       DispatchPutTyped, MkdirTyped, UnlinkTempTyped, FsyncDirTyped, StatSourceTyped,
       DispatchDestTyped, RenameTyped, DispatchDeleteTyped, RmLstatTyped, RmOpenTyped,
       RmReadTyped, RmRemoveTyped
  <1> QED
    BY <1>2, <1>3, <1>4, <1>5, <1>6, <1>7, <1>8 DEF Serve

\* Every step of the system keeps the inductive invariant.
LEMMA NextInv ==
  ASSUME DistinctTemps, IInv, [Next]_vars
  PROVE  IInv'
  <1>1. Typed /\ Disk /\ Typed'
    BY NextTyped DEF IInv
  <1>2. CASE Tick
    BY <1>1, <1>2, TickTyped, CalmDisk DEF IInv
  <1>3. ASSUME NEW c \in Conn, HandleRequest(c) \/ Kill(c)
        PROVE  Disk'
    BY <1>1, <1>3, HandleRequestTyped, KillTyped, CalmDisk
  <1>4. ASSUME NEW c \in Conn, Serve(c)
        PROVE  Disk'
    BY <1>4, ServeDisk
  <1>5. CASE UNCHANGED vars
    <2>1. Calm
      BY <1>1, <1>5, SameTree DEF vars, Calm, KeepsReaders, KeepsWriters
    <2> QED
      BY <1>1, <2>1, CalmDisk DEF IInv
  <1> QED
    BY <1>1, <1>2, <1>3, <1>4, <1>5 DEF Next, IInv

\* The inductive invariant holds in every instance in which the children draw
\* different temporary names.
THEOREM Inductive ==
  ASSUME DistinctTemps
  PROVE  Spec => []IInv
  <1>1. Init => IInv
    BY InitTyped, InitDisk DEF IInv
  <1>2. IInv /\ [Next]_vars => IInv'
    BY NextInv
  <1> QED
    BY <1>1, <1>2, PTL DEF Spec

-----------------------------------------------------------------------------
(***************************************************************************)
(* The theorems.                                                           *)
(***************************************************************************)
\* A name a client can ask for only ever leads to a file that is complete and
\* on disk: fsapi_write_stream and fsapi_copy publish nothing else, for any
\* number of connections, any requests and any faults of the data calls.
THEOREM NamesLeadToWhole ==
  ASSUME DistinctTemps
  PROVE  Spec => []PublishedWhole
  <1>1. IInv => PublishedWhole
    BY DEF IInv, Disk
  <1> QED
    BY <1>1, Inductive, PTL

\* What serve_file has open and what fsapi_list_json has reported are whole
\* files, whatever the other children do between its system calls.
THEOREM ReadersNeverTorn ==
  ASSUME DistinctTemps
  PROVE  Spec => []ReadersSeeWhole
  <1>1. IInv => ReadersSeeWhole
    BY DEF IInv, Disk
  <1> QED
    BY <1>1, Inductive, PTL


\* A step of one child moves no other child.
LEMMA MovesOnly ==
  ASSUME Typed, NEW c \in Conn, HandleRequest(c) \/ Serve(c) \/ Kill(c), NEW x \in Conn, x # c
  PROVE  pc'[x] = pc[x]
  <1>1. pc \in [Conn -> Phase]
    BY DEF Typed, TypeOK
  <1>2. ASSUME NEW l, pc' = [pc EXCEPT ![c] = l]
        PROVE  pc'[x] = pc[x]
    BY <1>1, <1>2
  <1>3. ASSUME NEW l, Goto(c, l)
        PROVE  pc'[x] = pc[x]
    BY <1>2, <1>3 DEF Goto
  <1>4. ASSUME NEW status, NEW e, NEW l, Choose(c, status, e, l)
        PROVE  pc'[x] = pc[x]
    BY <1>2, <1>4 DEF Choose
  <1>5. ASSUME NEW e, Fail(c, e)
        PROVE  pc'[x] = pc[x]
    BY <1>4, <1>5 DEF Fail
  <1>6. ASSUME NEW status, Answer(c, status)
        PROVE  pc'[x] = pc[x]
    BY <1>4, <1>6 DEF Answer
  <1>7. ASSUME NEW e, NEW l, Precondition(c, e, l)
        PROVE  pc'[x] = pc[x]
    BY <1>4, <1>7 DEF Precondition
  <1>8. ASSUME NEW e, NEW l, WriteFail(c, e, l)
        PROVE  pc'[x] = pc[x]
    BY <1>4, <1>7, <1>8 DEF WriteFail
  <1>9. ASSUME AfterMkdirs(c)
        PROVE  pc'[x] = pc[x]
    BY <1>3, <1>6, <1>9 DEF AfterMkdirs
  <1>10. ASSUME EnterMkdirs(c)
         PROVE  pc'[x] = pc[x]
    BY <1>3, <1>9, <1>10 DEF EnterMkdirs
  <1>11. CASE HandleRequest(c) \/ Kill(c)
    BY <1>2, <1>3, <1>5, <1>11 DEF HandleRequest, Kill
  <1>12. CASE \/ DispatchGet(c) \/ OpenFile(c) \/ SendByte(c) \/ EndSend(c)
              \/ OpenList(c) \/ ListEntry(c) \/ EndList(c)
    BY <1>3, <1>4, <1>5, <1>6, <1>12
       DEF DispatchGet, OpenFile, SendByte, EndSend, OpenList, ListEntry, EndList
  <1>13. CASE DispatchPut(c) \/ Mkdir(c)
    BY <1>3, <1>4, <1>5, <1>6, <1>7, <1>9, <1>10, <1>13 DEF DispatchPut, Mkdir
  <1>14. CASE \/ OpenTemp(c) \/ Fill(c) \/ Sync(c) \/ PublishByRename(c) \/ PublishByLink(c)
              \/ DropTemp(c) \/ Cleanup(c) \/ FsyncDir(c)
    BY <1>3, <1>6, <1>8, <1>14
       DEF OpenTemp, Fill, Sync, PublishByRename, PublishByLink, DropTemp, Cleanup, FsyncDir
  <1>15. CASE StatSource(c) \/ DispatchDest(c) \/ OpenSource(c) \/ Rename(c)
    BY <1>3, <1>5, <1>7, <1>10, <1>15 DEF StatSource, DispatchDest, OpenSource, Rename
  <1>16. CASE DispatchDelete(c) \/ RmLstat(c) \/ RmOpen(c) \/ RmRead(c) \/ RmRemove(c)
    BY <1>3, <1>5, <1>6, <1>7, <1>16 DEF DispatchDelete, RmLstat, RmOpen, RmRead, RmRemove
  <1> QED
    BY <1>11, <1>12, <1>13, <1>14, <1>15, <1>16 DEF Serve

\* What a step may do at the publication of a create-only PUT.
TakesNothing(c) ==
  pc[c] = "publish" /\ pc'[c] # "publish" /\ CreateOnlyPut(req[c]) =>
    \A b \in Bindings : ent[b[1]][b[2]] # None => ent'[b[1]][b[2]] = ent[b[1]][b[2]]

\* A step of one child keeps the locals of the others.
LEMMA LocalsOnly ==
  ASSUME Typed, NEW c \in Conn, HandleRequest(c) \/ Serve(c) \/ Kill(c), NEW x \in Conn, x # c
  PROVE  loc'[x] = loc[x]
  <1>1. loc \in [Conn -> Locals]
    BY DEF Typed, TypeOK
  <1>2. CASE \/ HandleRequest(c) \/ Kill(c)
             \/ DispatchGet(c) \/ OpenFile(c) \/ SendByte(c) \/ EndSend(c)
             \/ OpenList(c) \/ ListEntry(c) \/ EndList(c)
    BY <1>1, <1>2 DEF HandleRequest, Kill, DispatchGet, OpenFile, SendByte, EndSend, OpenList,
                      ListEntry, EndList
  <1>3. CASE \/ DispatchPut(c) \/ Mkdir(c) \/ OpenTemp(c) \/ Fill(c) \/ Sync(c)
             \/ PublishByRename(c) \/ PublishByLink(c) \/ DropTemp(c) \/ Cleanup(c) \/ FsyncDir(c)
    BY <1>1, <1>3 DEF DispatchPut, Mkdir, OpenTemp, Fill, Sync, PublishByRename, PublishByLink,
                      DropTemp, Cleanup, FsyncDir
  <1>4. CASE \/ StatSource(c) \/ DispatchDest(c) \/ OpenSource(c) \/ Rename(c)
             \/ DispatchDelete(c) \/ RmLstat(c) \/ RmOpen(c) \/ RmRead(c) \/ RmRemove(c)
    BY <1>1, <1>4 DEF StatSource, DispatchDest, OpenSource, Rename, DispatchDelete, RmLstat,
                      RmOpen, RmRead, RmRemove
  <1> QED
    BY <1>2, <1>3, <1>4 DEF Serve

\* The requests are read once, before anything is served.
LEMMA ServeRequest ==
  ASSUME NEW c \in Conn, Serve(c)
  PROVE  UNCHANGED req
  BY DEF Serve, DispatchGet, OpenFile, SendByte, EndSend, OpenList, ListEntry, EndList,
         DispatchPut, Mkdir, OpenTemp, Fill, Sync, PublishByRename, PublishByLink, DropTemp,
         Cleanup, FsyncDir, StatSource, DispatchDest, OpenSource, Rename, DispatchDelete,
         RmLstat, RmOpen, RmRead, RmRemove

\* A publication by link keeps every entry that is bound.
LEMMA LinkTakesNothing ==
  ASSUME Typed, NEW c \in Conn, PublishByLink(c)
  PROVE  TakesNothing(c)
  <1> DEFINE p == TempPath(c)
             t == Target(req[c])
  <1>1. CASE UNCHANGED ent
    BY <1>1 DEF TakesNothing
  <1>2. CASE LinkErr(p, t) = OK /\ Bind(t, Walk(p))
    <2>1. t \in Path
      BY UploadFacts DEF PublishByLink, Uploading
    <2>2. Walk(p) \in Node /\ CreateErr(t) = OK
      BY <1>2 DEF LinkErr, LookupErr, Present, OK
    <2>3. Holder(t) \in DirNode /\ ent[Holder(t)][Last(t)] \notin Node
      BY <2>1, <2>2, CreateFree
    <2>4. Last(t) \in Name
      BY <2>1, PathLast
    <2>5. ent[Holder(t)][Last(t)] = None
      BY <2>3, <2>4, TypedControl DEF TreeTypeOK
    <2>6. \A d \in DirNode, n \in Name :
            ent'[d][n] = IF d = Holder(t) /\ n = Last(t) THEN Walk(p) ELSE ent[d][n]
      BY <1>2, <2>1, <2>2, <2>3, TypedControl, BindEffect
    <2> HIDE DEF p, t
    <2> QED
      BY <2>5, <2>6 DEF TakesNothing, Bindings, Name
  <1> QED
    BY <1>1, <1>2 DEF PublishByLink

\* No step of the system takes a bound name away in a create-only publication.
LEMMA NextTakesNothing ==
  ASSUME Typed, [Next]_vars, NEW c \in Conn
  PROVE  TakesNothing(c)
  <1>1. CASE UNCHANGED pc
    BY <1>1 DEF TakesNothing
  <1>2. ASSUME NEW x \in Conn, HandleRequest(x) \/ Serve(x) \/ Kill(x), x # c
        PROVE  TakesNothing(c)
    BY <1>2, MovesOnly DEF TakesNothing
  <1>3. CASE HandleRequest(c) \/ Kill(c)
    BY <1>3 DEF HandleRequest, Kill, TakesNothing
  <1>4. CASE Serve(c) /\ pc[c] = "publish" /\ CreateOnlyPut(req[c])
    <2>1. PublishByLink(c)
      BY <1>4 DEF Serve, DispatchGet, OpenFile, SendByte, EndSend, OpenList, ListEntry, EndList,
           DispatchPut, Mkdir, OpenTemp, Fill, Sync, PublishByRename, DropTemp, Cleanup, FsyncDir,
           StatSource, DispatchDest, OpenSource, Rename, DispatchDelete, RmLstat, RmOpen, RmRead,
           RmRemove, At
    <2> QED
      BY <2>1, LinkTakesNothing
  <1>5. CASE ~(pc[c] = "publish" /\ CreateOnlyPut(req[c]))
    BY <1>5 DEF TakesNothing
  <1> QED
    BY <1>1, <1>2, <1>3, <1>4, <1>5 DEF Next, Tick, vars

\* "If-None-Match: *" is atomic: whatever happens between the child's early
\* stat and its link, the publication takes no name away from anybody.
THEOREM CreateOnlyIsAtomic == Spec => CreateOnly
  <1>1. Typed /\ [Next]_vars => \A c \in Conn : TakesNothing(c)
    BY NextTakesNothing
  <1>2. (\A c \in Conn : TakesNothing(c)) =>
          \A c \in Conn :
            pc[c] = "publish" /\ pc'[c] # "publish" /\ CreateOnlyPut(req[c]) =>
              \A b \in Bindings : ent[b[1]][b[2]] # None => ent'[b[1]][b[2]] = ent[b[1]][b[2]]
    BY DEF TakesNothing
  <1> QED
    BY <1>1, <1>2, TypedAlways, PTL DEF Spec, CreateOnly

-----------------------------------------------------------------------------
(***************************************************************************)
(* What a step does to the tree and to the files.                          *)
(***************************************************************************)
\* one directory for one prefix of the target
MakesDirectory(c) ==
  /\ pc[c] = "mkdirs" /\ UNCHANGED file
  /\ \E p \in Path, i \in 1 .. MaxDepth :
       /\ i = loc[c].k + 1 /\ loc'[c].k = i
       /\ Last(p) \in ClientName /\ CreateErr(p) = OK /\ Bind(p, <<c, i>>)
\* an empty file of the child's own
MakesTemp(c) ==
  /\ pc[c] = "opentmp" /\ pc'[c] = "fill" /\ TempPath(c) \in Path /\ Last(TempPath(c)) = Temp[c]
  /\ CreateErr(TempPath(c)) = OK /\ Bind(TempPath(c), c)
  /\ \A x \in FileNode \ {c} : file'[x] = file[x]
\* bytes for that file, or its contents flushed
WritesOwn(c) ==
  pc[c] = "fill" /\ UNCHANGED ent /\ \A x \in FileNode \ {c} : file'[x] = file[x]
\* that file under the target's name
Puts(c) ==
  /\ pc[c] = "publish" /\ pc'[c] \in {"flush", "untmp"} /\ UNCHANGED file
  /\ TempPath(c) \in Path /\ Last(TempPath(c)) = Temp[c]
  /\ Target(req[c]) \in Path /\ Last(Target(req[c])) \in ClientName
  /\ \/ /\ RenameErr(TempPath(c), Target(req[c])) = OK
        /\ Rebind(TempPath(c), Target(req[c]))
     \/ /\ LinkErr(TempPath(c), Target(req[c])) = OK
        /\ Bind(Target(req[c]), Walk(TempPath(c)))
\* a MOVE's source under its destination
Renames(c) ==
  /\ pc[c] = "rename" /\ pc'[c] = "flush" /\ UNCHANGED file
  /\ req[c] \in Requests /\ req[c].op = "MOVE"
  /\ req[c].path \in Path /\ Last(req[c].path) \in ClientName
  /\ req[c].dst \in Path /\ Last(req[c].dst) \in ClientName
  /\ RenameErr(req[c].path, req[c].dst) = OK /\ Rebind(req[c].path, req[c].dst)
\* the name p gone
Takes(c, p) ==
  /\ UnlinkErr(p) = OK \/ RmdirErr(p) = OK
  /\ UNCHANGED file /\ Unbind(p)
\* one step of a DELETE's walk, or the temporary name gone
Removes(c) ==
  \/ /\ pc[c] \in {"rmunlink", "rmdir"} /\ Frame(c).path \in Path
     /\ Takes(c, Frame(c).path)
  \/ /\ pc[c] \in {"untmp", "cleanup"} /\ TempPath(c) \in Path /\ Last(TempPath(c)) = Temp[c]
     /\ Takes(c, TempPath(c))
Changes(c) ==
  MakesDirectory(c) \/ MakesTemp(c) \/ WritesOwn(c) \/ Puts(c) \/ Renames(c) \/ Removes(c)

\* mkdir makes one directory, or changes nothing.
LEMMA MkdirKind ==
  ASSUME Typed, NEW c \in Conn, Mkdir(c)
  PROVE  UNCHANGED <<ent, file>> \/ MakesDirectory(c)
  <1> DEFINE i == loc[c].k + 1
             q == SubSeq(MkdirsPath(req[c]), 1, i)
  <1>1. /\ pc[c] = "mkdirs" /\ req[c] \in Requests /\ req[c].op \in {"PUT", "MOVE", "COPY"}
        /\ loc[c].k < Len(MkdirsPath(req[c])) /\ loc[c].k \in Nat
    BY Requested DEF Mkdir, Typed, TypeOK, Stage, StageAt, Locals
  <1>2. i \in 1 .. Len(MkdirsPath(req[c]))
    <2>1. MkdirsPath(req[c]) \in Seq(Name)
      BY <1>1, MkdirsPathIn
    <2>2. Len(MkdirsPath(req[c])) \in Nat
      BY <2>1, LenProperties
    <2> QED
      BY <1>1, <2>2
  <1>3. i \in 1 .. MaxDepth /\ q \in Path /\ Last(q) \in ClientName
    BY <1>1, <1>2, MkdirsPrefix
  <1>4. UNCHANGED file
    BY DEF Mkdir
  <1>5. \/ UNCHANGED ent
        \/ CreateErr(q) = OK /\ Bind(q, <<c, i>>) /\ loc' = [loc EXCEPT ![c].k = i]
    BY DEF Mkdir
  <1>6. loc' = [loc EXCEPT ![c].k = i] => loc'[c].k = i
    BY DEF Typed, TypeOK, Locals
  <1> HIDE DEF q, i
  <1>7. i = loc[c].k + 1
    BY DEF i
  <1> QED
    BY <1>1, <1>3, <1>4, <1>5, <1>6, <1>7 DEF MakesDirectory

\* The steps of an upload.
LEMMA UploadKind ==
  ASSUME Typed, NEW c \in Conn,
         OpenTemp(c) \/ Fill(c) \/ Sync(c) \/ PublishByRename(c) \/ PublishByLink(c)
  PROVE  UNCHANGED <<ent, file>> \/ MakesTemp(c) \/ WritesOwn(c) \/ Puts(c)
  <1>1. /\ TempPath(c) \in Path /\ Last(TempPath(c)) = Temp[c]
        /\ Target(req[c]) \in Path /\ Last(Target(req[c])) \in ClientName
    BY UploadFacts DEF OpenTemp, Fill, Sync, PublishByRename, PublishByLink, Uploading
  <1>2. file \in [FileNode -> Inode] /\ pc \in [Conn -> Phase]
    BY DEF Typed, TypeOK
  <1>3. CASE OpenTemp(c)
    BY <1>1, <1>2, <1>3 DEF OpenTemp, MakesTemp, Goto
  <1>4. CASE Fill(c)
    BY <1>2, <1>4 DEF Fill, WritesOwn
  <1>5. CASE Sync(c)
    BY <1>2, <1>5 DEF Sync, WritesOwn
  <1>6. CASE PublishByRename(c) \/ PublishByLink(c)
    BY <1>1, <1>2, <1>6 DEF PublishByRename, PublishByLink, Puts, Goto
  <1> QED
    BY <1>3, <1>4, <1>5, <1>6

\* The steps that take names away.
LEMMA RemoveKind ==
  ASSUME Typed, NEW c \in Conn, DropTemp(c) \/ Cleanup(c) \/ RmRemove(c)
  PROVE  UNCHANGED <<ent, file>> \/ Removes(c)
  <1>1. CASE DropTemp(c) \/ Cleanup(c)
    <2>1. TempPath(c) \in Path /\ Last(TempPath(c)) = Temp[c]
      BY <1>1, UploadFacts DEF DropTemp, Cleanup, Uploading
    <2> QED
      BY <1>1, <2>1 DEF DropTemp, Cleanup, UnlinkTemp, Removes, Takes
  <1>2. CASE RmRemove(c)
    <2>1. Frame(c).path \in Path
      BY <1>2, FrameIn DEF RmRemove, Removing
    <2> QED
      BY <1>2, <2>1 DEF RmRemove, Removes, Takes
  <1> QED
    BY <1>1, <1>2

\* A MOVE's rename.
LEMMA RenameKind ==
  ASSUME Typed, NEW c \in Conn, Rename(c)
  PROVE  UNCHANGED <<ent, file>> \/ Renames(c)
  <1>1. req[c] \in Requests /\ req[c].op = "MOVE"
    BY Requested DEF Rename, Typed, Stage, StageAt
  <1>2. /\ req[c].path \in Path /\ Last(req[c].path) \in ClientName
        /\ req[c].dst \in Path /\ Last(req[c].dst) \in ClientName
    BY <1>1, Requested DEF Rename, Target
  <1>3. pc \in [Conn -> Phase]
    BY DEF Typed, TypeOK
  <1> QED
    BY <1>1, <1>2, <1>3 DEF Rename, Renames, Goto

\* A step changes the tree or a file in one of six ways.
LEMMA StepKinds ==
  ASSUME Typed, [Next]_vars
  PROVE  \/ UNCHANGED <<ent, file>>
         \/ \E c \in Conn : Changes(c) /\ (HandleRequest(c) \/ Serve(c) \/ Kill(c))
  <1>1. CASE Tick \/ UNCHANGED vars
    BY <1>1 DEF Tick, vars
  <1>2. ASSUME NEW c \in Conn, HandleRequest(c) \/ Kill(c)
        PROVE  UNCHANGED <<ent, file>>
    BY <1>2 DEF HandleRequest, Kill
  <1>3. ASSUME NEW c \in Conn, Serve(c)
        PROVE  UNCHANGED <<ent, file>> \/ Changes(c)
    <2>1. CASE \/ DispatchGet(c) \/ OpenFile(c) \/ SendByte(c) \/ EndSend(c)
               \/ OpenList(c) \/ ListEntry(c) \/ EndList(c) \/ DispatchPut(c) \/ FsyncDir(c)
      BY <2>1 DEF DispatchGet, OpenFile, SendByte, EndSend, OpenList, ListEntry, EndList,
                  DispatchPut, FsyncDir
    <2>2. CASE \/ StatSource(c) \/ DispatchDest(c) \/ OpenSource(c)
               \/ DispatchDelete(c) \/ RmLstat(c) \/ RmOpen(c) \/ RmRead(c)
      BY <2>2 DEF StatSource, DispatchDest, OpenSource, DispatchDelete, RmLstat, RmOpen, RmRead
    <2>3. CASE \/ Mkdir(c) \/ OpenTemp(c) \/ Fill(c) \/ Sync(c)
               \/ PublishByRename(c) \/ PublishByLink(c)
               \/ DropTemp(c) \/ Cleanup(c) \/ Rename(c) \/ RmRemove(c)
      BY <2>3, MkdirKind, UploadKind, RemoveKind, RenameKind DEF Changes
    <2> QED
      BY <1>3, <2>1, <2>2, <2>3 DEF Serve
  <1> QED
    BY <1>1, <1>2, <1>3 DEF Next

-----------------------------------------------------------------------------
(***************************************************************************)
(* Every directory but Top, and every published file, has one name.        *)
(***************************************************************************)
\* no directory or file is bound under two of the clients' names
OneBinding ==
  \A a, b \in Bindings :
    ent[a[1]][a[2]] \in Node /\ ent[a[1]][a[2]] = ent[b[1]][b[2]] => a = b
\* a directory that a child has not made yet has no name and holds nothing
FreshDirs ==
  \A c \in Conn, i \in 1 .. MaxDepth : i > loc[c].k =>
    /\ \A d \in DirNode, n \in Name : ent[d][n] # <<c, i>>
    /\ IsEmpty(<<c, i>>)

TreeInv == IInv /\ OneBinding /\ FreshDirs

\* A count of prefixes made, or of bytes sent, never falls.
LEMMA CountGrows ==
  ASSUME Typed, [Next]_vars, NEW x \in Conn
  PROVE  loc'[x].k >= loc[x].k
  <1>1. loc \in [Conn -> Locals] /\ loc[x].k \in Nat
    BY DEF Typed, TypeOK, Locals
  <1>2. CASE UNCHANGED loc
    BY <1>1, <1>2
  <1>3. ASSUME NEW c \in Conn, NEW u, NEW v,
               \/ loc' = [loc EXCEPT ![c].st = u]
               \/ loc' = [loc EXCEPT ![c].fd = u]
               \/ loc' = [loc EXCEPT ![c].frames = u]
               \/ loc' = [loc EXCEPT ![c].st = u, ![c].frames = v]
               \/ loc' = [loc EXCEPT ![c].frames = u, ![c].listing = v]
               \/ loc' = [loc EXCEPT ![c].k = loc[c].k + 1]
        PROVE  loc'[x].k >= loc[x].k
    <2>1. ASSUME NEW r \in Locals
          PROVE  /\ [r EXCEPT !.st = u].k = r.k
                 /\ [r EXCEPT !.fd = u].k = r.k
                 /\ [r EXCEPT !.frames = u].k = r.k
                 /\ [r EXCEPT !.st = u, !.frames = v].k = r.k
                 /\ [r EXCEPT !.frames = u, !.listing = v].k = r.k
                 /\ [r EXCEPT !.k = r.k + 1].k = r.k + 1
      BY DEF Locals
    <2>2. loc[c] \in Locals /\ loc[c].k \in Nat
      BY <1>1 DEF Locals
    <2>3. \/ loc' = [loc EXCEPT ![c] = [loc[c] EXCEPT !.st = u]]
          \/ loc' = [loc EXCEPT ![c] = [loc[c] EXCEPT !.fd = u]]
          \/ loc' = [loc EXCEPT ![c] = [loc[c] EXCEPT !.frames = u]]
          \/ loc' = [loc EXCEPT ![c] = [loc[c] EXCEPT !.st = u, !.frames = v]]
          \/ loc' = [loc EXCEPT ![c] = [loc[c] EXCEPT !.frames = u, !.listing = v]]
          \/ loc' = [loc EXCEPT ![c] = [loc[c] EXCEPT !.k = loc[c].k + 1]]
      BY <1>1, <1>3
    <2>4. ASSUME NEW r, loc' = [loc EXCEPT ![c] = r], r.k = loc[c].k \/ r.k = loc[c].k + 1
          PROVE  loc'[x].k >= loc[x].k
      BY <1>1, <2>2, <2>4
    <2> QED
      BY <2>1, <2>2, <2>3, <2>4
  <1>4. ASSUME NEW c \in Conn,
               \/ DispatchGet(c) \/ DispatchPut(c) \/ StatSource(c)
               \/ OpenFile(c) \/ OpenSource(c)
        PROVE  loc'[x].k >= loc[x].k
    <2>1. \/ UNCHANGED loc
          \/ \E u : loc' = [loc EXCEPT ![c].st = u]
          \/ \E u : loc' = [loc EXCEPT ![c].fd = u]
      BY <1>4 DEF DispatchGet, DispatchPut, StatSource, OpenFile, OpenSource
    <2> QED
      BY <1>2, <1>3, <2>1
  <1>5. ASSUME NEW c \in Conn,
               \/ OpenList(c) \/ EndList(c) \/ DispatchDelete(c)
               \/ RmOpen(c) \/ RmRead(c) \/ RmRemove(c)
        PROVE  loc'[x].k >= loc[x].k
    <2>1. \/ UNCHANGED loc
          \/ \E u : loc' = [loc EXCEPT ![c].frames = u]
          \/ \E u, v : loc' = [loc EXCEPT ![c].st = u, ![c].frames = v]
      BY <1>5 DEF OpenList, EndList, DispatchDelete, RmOpen, RmRead, RmRemove
    <2> QED
      BY <1>2, <1>3, <2>1
  <1>8. ASSUME NEW c \in Conn, ListEntry(c) \/ SendByte(c) \/ EndSend(c) \/ Mkdir(c)
        PROVE  loc'[x].k >= loc[x].k
    <2>1. \/ UNCHANGED loc
          \/ \E u, v : loc' = [loc EXCEPT ![c].frames = u, ![c].listing = v]
          \/ loc' = [loc EXCEPT ![c].k = loc[c].k + 1]
      <3>1. CASE ListEntry(c)
        BY <3>1 DEF ListEntry
      <3>2. CASE SendByte(c) \/ EndSend(c) \/ Mkdir(c)
        BY <1>1, <3>2 DEF SendByte, EndSend, Mkdir
      <3> QED
        BY <1>8, <3>1, <3>2
    <2> QED
      BY <1>2, <1>3, <2>1
  <1>6. ASSUME NEW c \in Conn,
               \/ OpenTemp(c) \/ Fill(c) \/ Sync(c) \/ PublishByRename(c) \/ PublishByLink(c)
               \/ DropTemp(c) \/ Cleanup(c) \/ FsyncDir(c)
               \/ DispatchDest(c) \/ Rename(c) \/ RmLstat(c) \/ HandleRequest(c) \/ Kill(c)
        PROVE  UNCHANGED loc
    BY <1>6 DEF OpenTemp, Fill, Sync, PublishByRename, PublishByLink, DropTemp, Cleanup, FsyncDir,
                DispatchDest, Rename, RmLstat, HandleRequest, Kill
  <1>7. CASE Tick \/ UNCHANGED vars
    BY <1>2, <1>7 DEF Tick, vars
  <1> QED
    BY <1>2, <1>4, <1>5, <1>6, <1>7, <1>8 DEF Next, Serve

\* The child's own file is what its temporary path leads to.
LEMMA TempIsOwn ==
  ASSUME Typed, OwnTemps, NEW c \in Conn, TempPath(c) \in Path, Last(TempPath(c)) = Temp[c],
         Present(TempPath(c))
  PROVE  /\ Walk(TempPath(c)) = c /\ c \in FileNode
         /\ Holder(TempPath(c)) \in DirNode /\ ent[Holder(TempPath(c))][Temp[c]] = c
  <1>1. Holder(TempPath(c)) \in DirNode /\ Walk(TempPath(c)) = ent[Holder(TempPath(c))][Temp[c]]
    BY PresentEntry
  <1>2. Walk(TempPath(c)) \in {None, c}
    BY <1>1 DEF OwnTemps
  <1> QED
    BY <1>1, <1>2, TreeAssumption DEF Present, FileNode

\* What the six kinds of step do to the entries.
LEMMA MadeEntries ==
  ASSUME Typed, NEW c \in Conn, MakesDirectory(c)
  PROVE  \E d \in DirNode, n \in ClientName, i \in 1 .. MaxDepth :
           /\ i = loc[c].k + 1 /\ loc'[c].k = i
           /\ ent[d][n] = None /\ <<c, i>> \in DirNode /\ (\E p \in Path : d = Holder(p))
           /\ \A e \in DirNode, m \in Name :
                ent'[e][m] = IF e = d /\ m = n THEN <<c, i>> ELSE ent[e][m]
  <1>1. PICK p \in Path, i \in 1 .. MaxDepth :
          /\ i = loc[c].k + 1 /\ loc'[c].k = i
          /\ Last(p) \in ClientName /\ CreateErr(p) = OK /\ Bind(p, <<c, i>>)
    BY DEF MakesDirectory
  <1>2. Holder(p) \in DirNode /\ ent[Holder(p)][Last(p)] \notin Node
    BY <1>1, CreateFree
  <1>3. ent[Holder(p)][Last(p)] = None
    BY <1>1, <1>2, TypedControl DEF TreeTypeOK, Name
  <1> DEFINE x == <<c, i>>
  <1>4. x \in DirNode
    BY DEF DirNode
  <1> HIDE DEF x
  <1>5. Bind(p, x) /\ x \in Node
    BY <1>1, <1>4 DEF x, Node
  <1>6. \A e \in DirNode, m \in Name :
          ent'[e][m] = IF e = Holder(p) /\ m = Last(p) THEN x ELSE ent[e][m]
    BY <1>2, <1>5, BindEffect, TypedControl
  <1> QED
    BY <1>1, <1>2, <1>3, <1>4, <1>6 DEF x

\* A temporary file takes a free name.
LEMMA TempEntries ==
  ASSUME Typed, NEW c \in Conn, MakesTemp(c)
  PROVE  \E d \in DirNode :
           /\ ent[d][Temp[c]] = None /\ (\E p \in Path : d = Holder(p))
           /\ \A e \in DirNode, m \in Name :
                ent'[e][m] = IF e = d /\ m = Temp[c] THEN c ELSE ent[e][m]
  <1> DEFINE p == TempPath(c)
  <1>1. p \in Path /\ Last(p) = Temp[c] /\ CreateErr(p) = OK /\ Bind(p, c)
    BY DEF MakesTemp
  <1> HIDE DEF p
  <1>2. Holder(p) \in DirNode /\ ent[Holder(p)][Last(p)] \notin Node
    BY <1>1, CreateFree
  <1>3. ent[Holder(p)][Temp[c]] = None
    BY <1>1, <1>2, TypedControl, PathLast DEF TreeTypeOK
  <1>4. c \in Node
    BY DEF Node, FileNode
  <1>5. \A e \in DirNode, m \in Name :
          ent'[e][m] = IF e = Holder(p) /\ m = Last(p) THEN c ELSE ent[e][m]
    BY <1>1, <1>2, <1>4, BindEffect, TypedControl
  <1> QED
    BY <1>1, <1>2, <1>3, <1>5

\* A publication takes no directory's place, and may leave the temporary name.
LEMMA PutEntries ==
  ASSUME Typed, Disk, NEW c \in Conn, Puts(c)
  PROVE  LET t == Target(req[c]) IN
         /\ t \in Path /\ Last(t) \in ClientName /\ Holder(t) \in DirNode
         /\ ent[Holder(t)][Last(t)] \in (FileNode \ {c}) \cup {None}
         /\ \A e \in DirNode, m \in Name :
              \/ e = Holder(t) /\ m = Last(t) /\ ent'[e][m] = c
              \/ m = Temp[c] /\ ent[e][m] = c /\ ent'[e][m] = None
              \/ ~(e = Holder(t) /\ m = Last(t)) /\ ent'[e][m] = ent[e][m]
  <1> DEFINE p == TempPath(c)
             t == Target(req[c])
             h == Holder(t)
             n == Last(t)
  <1>1. /\ p \in Path /\ Last(p) = Temp[c] /\ t \in Path /\ Last(t) \in ClientName
        /\ \/ RenameErr(p, t) = OK /\ Rebind(p, t)
           \/ LinkErr(p, t) = OK /\ Bind(t, Walk(p))
    BY DEF Puts
  <1>2. Present(p)
    BY <1>1, RenamePresent DEF LinkErr, LookupErr, OK, Present
  <1>3. Walk(p) = c /\ c \in FileNode /\ Holder(p) \in DirNode /\ ent[Holder(p)][Temp[c]] = c
    BY <1>1, <1>2, TempIsOwn DEF Disk
  <1>4. c \in Node /\ n \in Name /\ c \notin DirNode /\ Temp[c] # n
    BY <1>1, <1>3, PathLast, TreeAssumption DEF Node, TempName
  <1>5. ~Named(c)
    BY DEF Puts, Disk, Hidden, Unpublished
  <1> HIDE DEF p, t
  <1>6. CASE RenameErr(p, t) = OK /\ Rebind(p, t)
    <2>1. h \in DirNode
      BY <1>1, <1>6, RenamePresent
    <2>2. Walk(t) = ent[h][n]
      BY <1>1, <2>1 DEF Walk, Entry, Path
    <2>3. ent[h][n] \in Node \cup {None}
      BY <1>4, <2>1, TypedControl DEF TreeTypeOK
    <2>4. ent[h][n] # c
      <3>1. <<h, n>> \in Bindings
        BY <1>1, <2>1 DEF Bindings
      <3> QED
        BY <1>5, <3>1 DEF Named
    <2>5. ent[h][n] \notin DirNode
      BY <1>1, <1>2, <1>3, <1>6, <2>1, <2>2, <2>4 DEF RenameErr, OK
    <2>6. \A e \in DirNode, m \in Name :
            ent'[e][m] = IF e = h /\ m = n THEN c
                         ELSE IF e = Holder(p) /\ m = Temp[c] THEN None ELSE ent[e][m]
      BY <1>1, <1>3, <1>6, RebindEffect, TypedControl
    <2> HIDE DEF h, n
    <2> QED
      BY <1>1, <1>3, <2>1, <2>3, <2>4, <2>5, <2>6 DEF Node, t, h, n
  <1>7. CASE LinkErr(p, t) = OK /\ Bind(t, Walk(p))
    <2>1. CreateErr(t) = OK
      BY <1>2, <1>7 DEF LinkErr
    <2>2. h \in DirNode /\ ent[h][n] = None
      BY <1>1, <1>4, <2>1, CreateFree, TypedControl DEF TreeTypeOK
    <2>3. \A e \in DirNode, m \in Name :
            ent'[e][m] = IF e = h /\ m = n THEN c ELSE ent[e][m]
      BY <1>1, <1>3, <1>4, <1>7, <2>2, BindEffect, TypedControl
    <2> HIDE DEF h, n
    <2> QED
      BY <1>1, <2>2, <2>3 DEF t, h, n
  <1> QED
    BY <1>1, <1>6, <1>7

\* A MOVE takes its source's name away and gives it the destination's, over
\* nothing, over a file, or over an empty directory.
LEMMA RenameEntries ==
  ASSUME Typed, OneBinding, NEW c \in Conn, Renames(c)
  PROVE  \E d, h \in DirNode, n, m \in ClientName :
           /\ d = Holder(req[c].path) /\ n = Last(req[c].path)
           /\ ent[d][n] \in Node /\ ent[h][m] \in Node \cup {None}
           /\ h = Holder(req[c].dst) /\ m = Last(req[c].dst) /\ req[c].dst \in Path
           /\ \/ d = h /\ n = m /\ ent' = ent
              \/ /\ d # h \/ n # m
                 /\ ent[d][n] \in DirNode => ent[h][m] \notin FileNode
                 /\ ent[d][n] \in FileNode => ent[h][m] \notin DirNode
                 /\ ent[h][m] \in DirNode => IsEmpty(ent[h][m])
                 /\ \A e \in DirNode, l \in Name :
                      ent'[e][l] = IF e = h /\ l = m THEN ent[d][n]
                                   ELSE IF e = d /\ l = n THEN None ELSE ent[e][l]
  <1> DEFINE p == req[c].path
             q == req[c].dst
             d == Holder(p)
             n == Last(p)
             h == Holder(q)
             m == Last(q)
  <1>1. /\ p \in Path /\ n \in ClientName /\ q \in Path /\ m \in ClientName
        /\ RenameErr(p, q) = OK /\ Rebind(p, q)
    BY DEF Renames
  <1>2. /\ d \in DirNode /\ h \in DirNode /\ Walk(p) \in Node /\ Walk(p) = ent[d][n]
    BY <1>1, RenamePresent
  <1>3. /\ TreeTypeOK'
        /\ \A e \in DirNode, l \in Name :
             ent'[e][l] = IF e = h /\ l = m THEN Walk(p)
                          ELSE IF e = d /\ l = n THEN None ELSE ent[e][l]
    BY <1>1, RebindEffect, TypedControl
  <1>4. Walk(q) = ent[h][m]
    BY <1>1, <1>2 DEF Walk, Entry, Path
  <1>5. ent[h][m] \in Node \cup {None}
    BY <1>1, <1>2, TypedControl DEF TreeTypeOK, Name
  <1>6. (d = h /\ n = m) \/ ent[d][n] # ent[h][m]
    <2>1. <<d, n>> \in Bindings /\ <<h, m>> \in Bindings
      BY <1>1, <1>2 DEF Bindings
    <2>2. \A a, b \in Bindings : a = <<d, n>> /\ b = <<h, m>> /\ ent[d][n] = ent[h][m] => a = b
      BY <1>2, <2>1 DEF OneBinding
    <2> QED
      BY <2>1, <2>2
  <1>7. CASE d = h /\ n = m
    <2>1. \A e \in DirNode, l \in Name : ent'[e][l] = ent[e][l]
      BY <1>2, <1>3, <1>7
    <2>2. ent' = ent
      BY <1>3, <2>1, TypedControl DEF TreeTypeOK
    <2> QED
      BY <1>1, <1>2, <1>5, <1>7, <2>2
  <1>8. CASE ent[d][n] # ent[h][m]
    <2>1. /\ ent[d][n] \in DirNode => ent[h][m] \notin FileNode
          /\ ent[d][n] \in FileNode => ent[h][m] \notin DirNode
          /\ ent[h][m] \in DirNode => IsEmpty(ent[h][m])
      BY <1>1, <1>2, <1>4, <1>8 DEF RenameErr, OK
    <2>2. d # h \/ n # m
      BY <1>8
    <2>3. \A e \in DirNode, l \in Name :
            ent'[e][l] = IF e = h /\ l = m THEN ent[d][n]
                         ELSE IF e = d /\ l = n THEN None ELSE ent[e][l]
      BY <1>2, <1>3
    <2>4. h = Holder(req[c].dst) /\ m = Last(req[c].dst) /\ req[c].dst \in Path
      BY <1>1
    <2>6. d = Holder(req[c].path) /\ n = Last(req[c].path)
      OBVIOUS
    <2> HIDE DEF p, q, d, n, h, m
    <2>5. n \in ClientName /\ m \in ClientName
      BY <1>1
    <2> QED
      BY <1>2, <1>5, <2>1, <2>2, <2>3, <2>4, <2>5, <2>6
  <1> QED
    BY <1>6, <1>7, <1>8

\* A name that is taken away led to a file or to an empty directory.
LEMMA TakenEntry ==
  ASSUME Typed, NEW c \in Conn, NEW p \in Path, Takes(c, p)
  PROVE  \E d \in DirNode, n \in Name :
           /\ d = Holder(p) /\ n = Last(p) /\ ent[d][n] \in Node
           /\ ent[d][n] \in DirNode => IsEmpty(ent[d][n])
           /\ \A e \in DirNode, m \in Name :
                ent'[e][m] = IF e = d /\ m = n THEN None ELSE ent[e][m]
  <1> DEFINE d == Holder(p)
             n == Last(p)
  <1>1. Present(p)
    BY DEF Takes, UnlinkErr, RmdirErr, LookupErr, OK
  <1>2. d \in DirNode /\ n \in Name /\ Walk(p) = ent[d][n] /\ Walk(p) \in Node
    BY <1>1, PresentEntry, PathLast DEF Present
  <1>3. ent[d][n] \in DirNode => IsEmpty(ent[d][n])
    BY <1>2, TreeAssumption DEF Takes, UnlinkErr, RmdirErr, LookupErr, OK
  <1>4. \A e \in DirNode, m \in Name :
          ent'[e][m] = IF e = d /\ m = n THEN None ELSE ent[e][m]
    BY <1>2, BindEffect, TypedControl DEF Takes, Unbind
  <1> HIDE DEF d, n
  <1> QED
    BY <1>2, <1>3, <1>4 DEF d, n

\* The directory a path leads into has been made, unless it was there at the start.
LEMMA HolderNotFresh ==
  ASSUME Typed, FreshDirs, NEW d \in DirNode, \E p \in Path : d = Holder(p),
         NEW x \in Conn, NEW i \in 1 .. MaxDepth, i > loc[x].k
  PROVE  d # <<x, i>>
  <1>1. d = Top \/ \E e \in DirNode, n \in Name : ent[e][n] = d
    BY HolderNamed
  <1>2. Top # <<x, i>>
    BY FreshAssumption
  <1> QED
    BY <1>1, <1>2 DEF FreshDirs

\* A step that binds nothing but files and what has a name already, and only
\* where a path leads, makes no directory.
LEMMA FreshStays ==
  ASSUME Typed, FreshDirs, [Next]_vars,
         \A d \in DirNode, n \in Name :
           \/ ent'[d][n] \in {None, ent[d][n]}
           \/ /\ \E p \in Path : d = Holder(p)
              /\ \/ ent'[d][n] \in FileNode
                 \/ \E e \in DirNode, m \in Name : ent[e][m] = ent'[d][n]
  PROVE  FreshDirs'
  <1> SUFFICES ASSUME NEW x \in Conn, NEW i \in 1 .. MaxDepth, i > loc'[x].k
               PROVE  /\ \A d \in DirNode, n \in Name : ent'[d][n] # <<x, i>>
                      /\ \A n \in Name : ent'[<<x, i>>][n] = None
    BY DEF FreshDirs, IsEmpty
  <1>1. i > loc[x].k
    <2>1. loc'[x].k \in Nat /\ loc[x].k \in Nat /\ i \in Nat
      BY NextTyped, TreeAssumption DEF Typed, TypeOK, Locals
    <2> QED
      BY <2>1, CountGrows
  <1>2. <<x, i>> \in DirNode
    BY DEF DirNode
  <1> DEFINE y == <<x, i>>
  <1>3. /\ \A d \in DirNode, n \in Name : ent[d][n] # y
        /\ \A n \in Name : ent[y][n] = None
    BY <1>1 DEF FreshDirs, IsEmpty
  <1>4. \A d \in DirNode : (\E p \in Path : d = Holder(p)) => d # y
    BY <1>1, HolderNotFresh
  <1>5. y \in DirNode /\ y \notin FileNode /\ y # None
    BY <1>2, TreeAssumption DEF Node
  <1> HIDE DEF y
  <1> QED
    BY <1>3, <1>4, <1>5 DEF y

\* The same for the bindings: nothing gets a second name.
LEMMA BindingStays ==
  ASSUME OneBinding, NEW d \in DirNode, NEW n \in ClientName, NEW x \in Node,
         \A b \in Bindings : b # <<d, n>> => ent'[b[1]][b[2]] \in {None, ent[b[1]][b[2]]} \ {x},
         ent'[d][n] = x
  PROVE  OneBinding'
  <1>1. <<d, n>> \in Bindings /\ None \notin Node
    BY TreeAssumption DEF Bindings
  <1>2. SUFFICES ASSUME NEW a \in Bindings, NEW b \in Bindings, ent'[a[1]][a[2]] \in Node,
                        ent'[a[1]][a[2]] = ent'[b[1]][b[2]]
                 PROVE  a = b
    BY DEF OneBinding
  <1>3. CASE a = <<d, n>> \/ b = <<d, n>>
    BY <1>1, <1>2, <1>3
  <1>4. CASE a # <<d, n>> /\ b # <<d, n>>
    BY <1>1, <1>2, <1>4 DEF OneBinding
  <1> QED
    BY <1>3, <1>4

\* A step that binds no client's name anew gives nothing a second one.
LEMMA BindingKept ==
  ASSUME OneBinding, \A b \in Bindings : ent'[b[1]][b[2]] \in {None, ent[b[1]][b[2]]}
  PROVE  OneBinding'
  BY TreeAssumption DEF OneBinding

\* Every step keeps both.
LEMMA NextTree ==
  ASSUME DistinctTemps, TreeInv, [Next]_vars
  PROVE  TreeInv'
  <1>1. IInv' /\ Typed /\ Disk
    BY NextInv DEF TreeInv, IInv
  <1>2. OneBinding /\ FreshDirs
    BY DEF TreeInv
  <1>3. \A c \in Conn : Temp[c] \in Name /\ Temp[c] \notin ClientName
    BY TreeAssumption DEF Name, TempName
  <1>4. \A b \in Bindings : b \in DirNode \X ClientName /\ b[1] \in DirNode /\ b[2] \in Name
    BY DEF Bindings, Name
  <1>5. None \notin Node /\ FileNode \subseteq Node /\ DirNode \subseteq Node
    BY TreeAssumption DEF Node
  <1>6. CASE UNCHANGED ent
    BY <1>1, <1>2, <1>6, BindingKept, FreshStays DEF TreeInv
  <1>7. ASSUME NEW c \in Conn, MakesDirectory(c)
        PROVE  OneBinding' /\ FreshDirs'
    <2>1. PICK d \in DirNode, n \in ClientName, i \in 1 .. MaxDepth :
            /\ i = loc[c].k + 1 /\ loc'[c].k = i
            /\ ent[d][n] = None /\ <<c, i>> \in DirNode /\ (\E p \in Path : d = Holder(p))
            /\ \A e \in DirNode, m \in Name :
                 ent'[e][m] = IF e = d /\ m = n THEN <<c, i>> ELSE ent[e][m]
      BY <1>1, <1>7, MadeEntries
    <2>2. i > loc[c].k /\ loc[c].k \in Nat /\ i \in Nat
      BY <1>1, <2>1 DEF Typed, TypeOK, Locals
    <2>3. \A e \in DirNode, m \in Name : ent[e][m] # <<c, i>>
      BY <1>2, <2>2 DEF FreshDirs
    <2> DEFINE y == <<c, i>>
    <2>4. OneBinding'
      <3>1. \A e \in DirNode, m \in Name :
              ent[e][m] # y /\ ent'[e][m] = IF e = d /\ m = n THEN y ELSE ent[e][m]
        BY <2>1, <2>3
      <3>2. y \in Node /\ n \in Name
        BY <2>1 DEF Node, Name
      <3> HIDE DEF y
      <3>3. \A b \in Bindings : b # <<d, n>> => ent'[b[1]][b[2]] \in {None, ent[b[1]][b[2]]} \ {y}
        BY <1>4, <1>5, <3>1, <3>2
      <3> QED
        BY <1>2, <3>1, <3>2, <3>3, BindingStays
    <2>5. FreshDirs'
      <3> SUFFICES ASSUME NEW x \in Conn, NEW j \in 1 .. MaxDepth, j > loc'[x].k
                   PROVE  /\ \A e \in DirNode, m \in Name : ent'[e][m] # <<x, j>>
                          /\ \A m \in Name : ent'[<<x, j>>][m] = None
        BY DEF FreshDirs, IsEmpty
      <3>1. j > loc[x].k /\ <<x, j>> # <<c, i>>
        <4>1. loc'[x].k \in Nat /\ loc[x].k \in Nat /\ j \in Nat
          BY NextTyped, <1>1, TreeAssumption DEF Typed, TypeOK, Locals
        <4>2. loc'[x].k >= loc[x].k
          BY <1>1, CountGrows
        <4>3. x = c => loc'[x].k = i
          BY <2>1
        <4>4. x = c => j # i
          BY <2>2, <4>1, <4>3
        <4> QED
          BY <4>1, <4>2, <4>4
      <3> DEFINE z == <<x, j>>
      <3>2. z \in DirNode
        BY DEF DirNode
      <3>3. /\ \A e \in DirNode, m \in Name : ent[e][m] # z
            /\ \A m \in Name : ent[z][m] = None
        BY <1>2, <3>1 DEF FreshDirs, IsEmpty
      <3>4. d # z
        BY <1>1, <1>2, <2>1, <3>1, HolderNotFresh
      <3>5. z # y
        BY <3>1
      <3> HIDE DEF z, y
      <3>6. \A e \in DirNode, m \in Name :
              ent'[e][m] = IF e = d /\ m = n THEN y ELSE ent[e][m]
        BY <2>1 DEF y
      <3> QED
        BY <3>2, <3>3, <3>4, <3>5, <3>6 DEF z
    <2> QED
      BY <2>4, <2>5
  <1>8. ASSUME NEW c \in Conn, MakesTemp(c)
        PROVE  OneBinding' /\ FreshDirs'
    <2>1. PICK d \in DirNode :
            /\ ent[d][Temp[c]] = None /\ (\E p \in Path : d = Holder(p))
            /\ \A e \in DirNode, m \in Name :
                 ent'[e][m] = IF e = d /\ m = Temp[c] THEN c ELSE ent[e][m]
      BY <1>1, <1>8, TempEntries
    <2>2. OneBinding'
      BY <1>2, <1>3, <1>4, <2>1, BindingKept
    <2>3. c \in FileNode
      BY DEF FileNode
    <2>4. FreshDirs'
      BY <1>1, <1>2, <2>1, <2>3, FreshStays
    <2> QED
      BY <2>2, <2>4
  <1>9. ASSUME NEW c \in Conn, Puts(c)
        PROVE  OneBinding' /\ FreshDirs'
    <2> DEFINE h == Holder(Target(req[c]))
               n == Last(Target(req[c]))
    <2>1. /\ h \in DirNode /\ n \in ClientName /\ Target(req[c]) \in Path
          /\ \A e \in DirNode, m \in Name :
               \/ e = h /\ m = n /\ ent'[e][m] = c
               \/ m = Temp[c] /\ ent'[e][m] = None
               \/ ~(e = h /\ m = n) /\ ent'[e][m] = ent[e][m]
      BY <1>1, <1>9, PutEntries
    <2>2. \E p \in Path : h = Holder(p)
      BY <2>1
    <2>3. ~Named(c) /\ c \in FileNode
      BY <1>1, <1>9 DEF Puts, Disk, Hidden, Unpublished, FileNode
    <2> HIDE DEF h, n
    <2>4. FreshDirs'
      BY <1>1, <1>2, <2>1, <2>2, <2>3, FreshStays
    <2>5. OneBinding'
      <3>1. ent'[h][n] = c /\ c \in Node
        BY <1>3, <1>5, <2>1, <2>3 DEF Name
      <3>2. \A b \in Bindings : b # <<h, n>> => ent'[b[1]][b[2]] \in {None, ent[b[1]][b[2]]} \ {c}
        BY <1>3, <1>4, <1>5, <2>1, <2>3 DEF Named
      <3> QED
        BY <1>2, <2>1, <3>1, <3>2, BindingStays
    <2> QED
      BY <2>4, <2>5
  <1>10. ASSUME NEW c \in Conn, Renames(c)
         PROVE  OneBinding' /\ FreshDirs'
    <2>1. PICK d \in DirNode, h \in DirNode, n \in ClientName, m \in ClientName :
            /\ ent[d][n] \in Node /\ (\E p \in Path : h = Holder(p))
            /\ \/ d = h /\ n = m /\ ent' = ent
               \/ /\ d # h \/ n # m
                  /\ \A e \in DirNode, l \in Name :
                       ent'[e][l] = IF e = h /\ l = m THEN ent[d][n]
                                    ELSE IF e = d /\ l = n THEN None ELSE ent[e][l]
      BY <1>1, <1>2, <1>10, RenameEntries
    <2>2. n \in Name /\ m \in Name
      BY DEF Name
    <2>3. FreshDirs'
      BY <1>1, <1>2, <2>1, <2>2, FreshStays
    <2>4. OneBinding'
      <3>1. CASE ent' = ent
        BY <1>2, <3>1, BindingKept
      <3>2. CASE /\ d # h \/ n # m
                 /\ \A e \in DirNode, l \in Name :
                      ent'[e][l] = IF e = h /\ l = m THEN ent[d][n]
                                   ELSE IF e = d /\ l = n THEN None ELSE ent[e][l]
        <4>1. \A b \in Bindings : ent[b[1]][b[2]] = ent[d][n] => b = <<d, n>>
          <5> DEFINE a == <<d, n>>
          <5>1. a \in Bindings /\ a[1] = d /\ a[2] = n
            BY DEF Bindings
          <5> HIDE DEF a
          <5>2. \A b \in Bindings : ent[b[1]][b[2]] = ent[d][n] => b = a
            BY <1>2, <2>1, <5>1 DEF OneBinding
          <5> QED
            BY <5>2 DEF a
        <4>2. ent'[h][m] = ent[d][n]
          BY <2>2, <3>2
        <4>3. \A b \in Bindings : b # <<h, m>> =>
                ent'[b[1]][b[2]] \in {None, ent[b[1]][b[2]]} \ {ent[d][n]}
          BY <1>4, <1>5, <2>1, <2>2, <3>2, <4>1
        <4> QED
          BY <1>2, <2>1, <4>2, <4>3, BindingStays
      <3> QED
        BY <2>1, <3>1, <3>2
    <2> QED
      BY <2>3, <2>4
  <1>11. ASSUME NEW c \in Conn, Removes(c)
         PROVE  OneBinding' /\ FreshDirs'
    <2>1. PICK p \in Path : Takes(c, p)
      BY <1>11 DEF Removes
    <2>2. \A e \in DirNode, m \in Name : ent'[e][m] \in {None, ent[e][m]}
      BY <1>1, <2>1, TakenEntry
    <2> QED
      BY <1>1, <1>2, <1>4, <2>2, BindingKept, FreshStays
  <1> QED
    BY <1>1, <1>6, <1>7, <1>8, <1>9, <1>10, <1>11, StepKinds DEF TreeInv, Changes, WritesOwn

\* No file has two names at the start, and no directory that is yet to be made has one.
LEMMA InitTree ==
  ASSUME Init
  PROVE  OneBinding /\ FreshDirs
  <1>1. OneBinding
    <2> SUFFICES ASSUME NEW a \in Bindings, NEW b \in Bindings, ent[a[1]][a[2]] \in Node,
                        ent[a[1]][a[2]] = ent[b[1]][b[2]]
                 PROVE  a = b
      BY DEF OneBinding
    <2>1. a[1] = b[1] /\ a[2] = b[2]
      BY SeedAssumption, TreeAssumption DEF Init, Bindings
    <2> QED
      BY <2>1 DEF Bindings
  <1>2. ASSUME NEW c \in Conn, NEW i \in 1 .. MaxDepth
        PROVE  /\ \A d \in DirNode, n \in Name : ent[d][n] # <<c, i>>
               /\ IsEmpty(<<c, i>>)
    <2> DEFINE x == <<c, i>>
    <2>1. x \in Conn \X (1 .. MaxDepth) /\ x \in DirNode
      BY DEF DirNode
    <2>2. x \notin SeedDir /\ x \notin SeedFile /\ x # None
      BY <2>1, FreshAssumption, TreeAssumption DEF FileNode, Node
    <2> HIDE DEF x
    <2>3. \A d \in DirNode, n \in Name : ent[d][n] # x
      BY <2>2, InitAssumption DEF Init
    <2>4. \A n \in Name : ent[x][n] = None
      BY <2>1, SeedAssumption DEF Init
    <2> QED
      BY <2>3, <2>4 DEF x, IsEmpty
  <1> QED
    BY <1>1, <1>2 DEF FreshDirs

\* What the tree keeps holds in every reachable state.
LEMMA TreeAlways ==
  ASSUME DistinctTemps
  PROVE  Spec => []TreeInv
  <1>1. Init => TreeInv
    BY InitTyped, InitDisk, InitTree DEF IInv, TreeInv
  <1>2. TreeInv /\ [Next]_vars => TreeInv'
    BY NextTree
  <1> QED
    BY <1>1, <1>2, PTL DEF Spec

\* No file is ever reachable under two names a client can ask for, whatever
\* moves, copies and create-only uploads run beside each other: fsapi_move
\* renames in one call, and fsapi_copy never links.
THEOREM OneNameEach ==
  ASSUME DistinctTemps
  PROVE  Spec => []OneName
  <1>1. ASSUME TreeInv
        PROVE  OneName
    <2> SUFFICES ASSUME NEW x \in FileNode
                 PROVE  Cardinality({b \in Bindings : ent[b[1]][b[2]] = x}) <= 1
      BY DEF OneName
    <2> DEFINE S == {b \in Bindings : ent[b[1]][b[2]] = x}
    <2>1. \A a, b \in S : a = b
      BY <1>1 DEF TreeInv, OneBinding, Node
    <2>2. CASE S = {}
      BY <2>2, FS_EmptySet
    <2>3. CASE S # {}
      <3>1. PICK b \in S : TRUE
        BY <2>3
      <3>2. S = {b}
        BY <2>1, <3>1
      <3> HIDE DEF S
      <3>3. Cardinality(S) = 1
        BY <3>2, FS_Singleton
      <3> QED
        BY <3>3 DEF S
    <2> QED
      BY <2>2, <2>3
  <1>2. TreeInv => OneName
    BY <1>1
  <1> QED
    BY <1>2, TreeAlways, PTL

-----------------------------------------------------------------------------
\* A publication leaves the client's own file under the target's name.
LEMMA PutsOwn ==
  ASSUME Typed, Disk, NEW c \in Conn, Puts(c), NEW t \in Path, t = Target(req[c])
  PROVE  Walk(t)' = c
  <1> DEFINE h == Holder(t)
             n == Last(t)
  <1>1. /\ h \in DirNode /\ n \in ClientName
        /\ ent[h][n] \in FileNode \cup {None}
        /\ \A e \in DirNode, m \in Name :
             \/ e = h /\ m = n /\ ent'[e][m] = c
             \/ m = Temp[c] /\ ent[e][m] = c /\ ent'[e][m] = None
             \/ ~(e = h /\ m = n) /\ ent'[e][m] = ent[e][m]
    BY PutEntries
  <1>2. c \notin DirNode /\ ent[h][n] \notin DirNode /\ n # Temp[c] /\ n \in Name
    BY <1>1, TreeAssumption DEF FileNode, Node, TempName, Name
  <1>3. Holder(t)' = Holder(t)
    <2>1. \A d \in DirNode, m \in Name : ent[d][m] \in DirNode => ent'[d][m] = ent[d][m]
      BY <1>1, <1>2
    <2> QED
      BY <1>1, <2>1, HolderStays
  <1>4. ent'[Holder(t)][Last(t)] = c
    BY <1>1, <1>2
  <1> QED
    BY <1>1, <1>3, <1>4 DEF Walk, Entry, Path

\* A child that leaves its publication with success has put its file in place.
LEMMA PublishedPuts ==
  ASSUME Typed, [Next]_vars, NEW c \in Conn, Publishes(c)
  PROVE  /\ Puts(c) /\ UNCHANGED <<file, req, loc>>
         /\ CreateOnlyPut(req[c]) => CreateErr(Target(req[c])) = OK
  <1>1. pc[c] = "publish" /\ pc'[c] \in {"flush", "untmp"} /\ pc' # pc
    BY DEF Publishes
  <1>2. PICK x \in Conn : HandleRequest(x) \/ Serve(x) \/ Kill(x)
    BY <1>1 DEF Next, Tick, vars
  <1>3. x = c
    BY <1>1, <1>2, MovesOnly
  <1>4. ~HandleRequest(c) /\ ~Kill(c)
    BY <1>1 DEF HandleRequest, Kill, Typed, TypeOK
  <1>5. PublishByRename(c) \/ PublishByLink(c)
    BY <1>1, <1>2, <1>3, <1>4
       DEF Serve, DispatchGet, OpenFile, SendByte, EndSend, OpenList, ListEntry, EndList,
           DispatchPut, Mkdir, OpenTemp, Fill, Sync, DropTemp, Cleanup, FsyncDir,
           StatSource, DispatchDest, OpenSource, Rename, DispatchDelete, RmLstat, RmOpen, RmRead,
           RmRemove, At
  <1>6. /\ TempPath(c) \in Path /\ Last(TempPath(c)) = Temp[c]
        /\ Target(req[c]) \in Path /\ Last(Target(req[c])) \in ClientName
    BY <1>1, UploadFacts DEF Uploading
  <1>7. ASSUME NEW e, WriteFail(c, e, "cleanup")
        PROVE  FALSE
    <2>1. pc' = [pc EXCEPT ![c] = "cleanup"]
      BY <1>7 DEF WriteFail, Precondition, Choose
    <2> QED
      BY <1>1, <2>1 DEF Typed, TypeOK
  <1>8. LinkErr(TempPath(c), Target(req[c])) = OK => CreateErr(Target(req[c])) = OK
    BY DEF LinkErr, LookupErr, OK
  <1> QED
    BY <1>1, <1>5, <1>6, <1>7, <1>8 DEF PublishByRename, PublishByLink, Puts

\* An acknowledged upload is the client's own file: what the rename or link of
\* fsapi_write_stream left under the target's name is the inode this child wrote.
THEOREM AcknowledgedIsOwn ==
  ASSUME DistinctTemps
  PROVE  Spec => OwnBytes
  <1>1. ASSUME IInv, [Next]_vars, NEW c \in Conn, Publishes(c)
        PROVE  Walk(Target(req[c]))' = c
    <2>1. Typed /\ Disk
      BY <1>1 DEF IInv
    <2>2. Puts(c) /\ UNCHANGED req
      BY <1>1, <2>1, PublishedPuts
    <2>3. PICK t \in Path : t = Target(req[c])
      BY <2>2 DEF Puts
    <2>4. Target(req[c])' = t
      BY <2>2, <2>3 DEF Target
    <2>5. Walk(t)' = c
      BY <2>1, <2>2, <2>3, PutsOwn
    <2> QED
      BY <2>4, <2>5 DEF Walk, Holder, Entry
  <1>2. IInv /\ [Next]_vars => \A c \in Conn : Publishes(c) => Walk(Target(req[c]))' = c
    BY <1>1
  <1> QED
    BY <1>2, Inductive, PTL DEF Spec, OwnBytes

-----------------------------------------------------------------------------
(***************************************************************************)
(* The refinement.                                                         *)
(***************************************************************************)
\* what the view shows of an inode
Shown(x) == IF x \in FileNode THEN Contents(x) ELSE x

\* What a file holds is neither a directory nor nothing.
LEMMA ContentsAreFiles ==
  ASSUME TypeOK, NEW f \in FileNode
  PROVE  Contents(f) \notin DirNode /\ Contents(f) # None /\ Contents(f)[1] = Whole(f)
  <1>1. Whole(f) \in BOOLEAN
    BY DEF Whole, TypeOK, Inode
  <1>2. Contents(f) \in BOOLEAN \X (FileNode \cup {None}) \X Nat \X Nat
    BY <1>1 DEF Contents, TypeOK, Inode
  <1> QED
    BY <1>2, ContentsAssumption DEF Contents

\* The view of an entry, before and after a step.
LEMMA ViewOf ==
  ASSUME NEW d \in DirNode, NEW n \in ClientName
  PROVE  View[d][n] = Shown(ent[d][n]) /\ View'[d][n] = Shown(ent[d][n])'
  BY DEF View, Shown

\* What a name shows tells a directory, a file and nothing apart.
LEMMA ShownKinds ==
  ASSUME TypeOK, NEW x \in Node \cup {None}
  PROVE  /\ Shown(x) \in DirNode <=> x \in DirNode
         /\ Shown(x) = None <=> x = None
         /\ x \in DirNode \cup {None} => Shown(x) = x
         /\ x \in FileNode => Visible!IsFile(Shown(x)) /\ Shown(x)[1] = Whole(x)
  BY ContentsAreFiles, TreeAssumption DEF Shown, Node, Visible!IsFile

\* An empty directory shows no names.
LEMMA EmptyShown ==
  ASSUME NEW x \in DirNode, IsEmpty(x)
  PROVE  Visible!Empty(x)
  BY ViewOf, TreeAssumption DEF IsEmpty, Visible!Empty, Shown, Node, Name

\* At the start every file is whole.
LEMMA InitView ==
  ASSUME TreeInv
  PROVE  Visible!Init
  <1>1. ASSUME NEW d \in DirNode, NEW n \in ClientName
        PROVE  View[d][n] \in DirNode \cup {None} \/ Visible!WholeFile(View[d][n])
    <2>1. TypeOK /\ PublishedWhole /\ ent[d][n] \in Node \cup {None}
      BY DEF TreeInv, IInv, Typed, TypeOK, TreeTypeOK, Disk, Name
    <2>2. ent[d][n] \in FileNode => Whole(ent[d][n])
      <3>1. <<d, n>> \in Bindings
        BY DEF Bindings
      <3> QED
        BY <2>1, <3>1 DEF PublishedWhole
    <2> QED
      BY <2>1, <2>2, ViewOf, ShownKinds DEF Node, Visible!WholeFile
  <1> QED
    BY <1>1 DEF Visible!Init

\* Views that differ in one entry, or in two.
LEMMA ViewBind ==
  ASSUME NEW d \in DirNode, NEW n \in ClientName,
         \A e \in DirNode, m \in ClientName : ~(e = d /\ m = n) => View'[e][m] = View[e][m]
  PROVE  View' = [View EXCEPT ![d][n] = View'[d][n]]
  <1> DEFINE v == View  w == View'
  <1>1. /\ v = [e \in DirNode |-> [m \in ClientName |-> v[e][m]]]
        /\ w = [e \in DirNode |-> [m \in ClientName |-> w[e][m]]]
    BY DEF View
  <1>2. \A e \in DirNode, m \in ClientName : ~(e = d /\ m = n) => w[e][m] = v[e][m]
    OBVIOUS
  <1> HIDE DEF v, w
  <1>3. w = [v EXCEPT ![d][n] = w[d][n]]
    <2> DEFINE u == [v EXCEPT ![d][n] = w[d][n]]
    <2>1. u = [e \in DirNode |-> [m \in ClientName |-> IF e = d /\ m = n THEN w[d][n] ELSE v[e][m]]]
      BY <1>1
    <2>2. \A e \in DirNode, m \in ClientName :
            w[e][m] = IF e = d /\ m = n THEN w[d][n] ELSE v[e][m]
      BY <1>2
    <2> HIDE DEF u
    <2>3. u = [e \in DirNode |-> [m \in ClientName |-> w[e][m]]]
      BY <2>1, <2>2
    <2> QED
      BY <1>1, <2>3 DEF u
  <1> QED
    BY <1>3 DEF v, w

\* The same for two entries.
LEMMA ViewMove ==
  ASSUME NEW d \in DirNode, NEW n \in ClientName, NEW h \in DirNode, NEW k \in ClientName,
         d # h \/ n # k, View'[d][n] = None, View'[h][k] = View[d][n],
         \A e \in DirNode, m \in ClientName :
           ~(e = d /\ m = n) /\ ~(e = h /\ m = k) => View'[e][m] = View[e][m]
  PROVE  View' = [View EXCEPT ![d][n] = None, ![h][k] = View[d][n]]
  <1> DEFINE v == View  w == View'
  <1>1. /\ v = [e \in DirNode |-> [m \in ClientName |-> v[e][m]]]
        /\ w = [e \in DirNode |-> [m \in ClientName |-> w[e][m]]]
    BY DEF View
  <1>2. /\ w[d][n] = None /\ w[h][k] = v[d][n]
        /\ \A e \in DirNode, m \in ClientName :
             ~(e = d /\ m = n) /\ ~(e = h /\ m = k) => w[e][m] = v[e][m]
    OBVIOUS
  <1> HIDE DEF v, w
  <1>3. w = [v EXCEPT ![d][n] = None, ![h][k] = v[d][n]]
    <2> DEFINE u == [v EXCEPT ![d][n] = None, ![h][k] = v[d][n]]
    <2>1. u = [e \in DirNode |-> [m \in ClientName |->
                 IF e = h /\ m = k THEN v[d][n] ELSE IF e = d /\ m = n THEN None ELSE v[e][m]]]
      <3> DEFINE v1 == [v EXCEPT ![d][n] = None]
      <3>1. v1 = [e \in DirNode |-> [m \in ClientName |-> IF e = d /\ m = n THEN None ELSE v[e][m]]]
        BY <1>1
      <3>2. u = [v1 EXCEPT ![h][k] = v[d][n]]
        OBVIOUS
      <3> HIDE DEF v1
      <3> QED
        BY <3>1, <3>2
    <2>2. \A e \in DirNode, m \in ClientName :
            w[e][m] = IF e = h /\ m = k THEN v[d][n] ELSE IF e = d /\ m = n THEN None ELSE v[e][m]
      BY <1>2
    <2> HIDE DEF u
    <2>3. u = [e \in DirNode |-> [m \in ClientName |-> w[e][m]]]
      BY <2>1, <2>2
    <2> QED
      BY <1>1, <2>3 DEF u
  <1> QED
    BY <1>3 DEF v, w

\* A step that keeps the clients' entries, and the files they lead to, shows nothing.
LEMMA ViewStays ==
  ASSUME \A d \in DirNode, n \in ClientName :
           /\ ent'[d][n] = ent[d][n]
           /\ ent[d][n] \in FileNode => file'[ent[d][n]] = file[ent[d][n]]
  PROVE  UNCHANGED View
  <1> DEFINE v == View  w == View'
  <1>1. \A d \in DirNode, n \in ClientName : Shown(ent[d][n])' = Shown(ent[d][n])
    BY DEF Shown, Contents, Whole
  <1>2. \A d \in DirNode, n \in ClientName : w[d][n] = v[d][n]
    BY <1>1, ViewOf
  <1>3. /\ v = [e \in DirNode |-> [m \in ClientName |-> v[e][m]]]
        /\ w = [e \in DirNode |-> [m \in ClientName |-> w[e][m]]]
    BY DEF View
  <1> HIDE DEF v, w
  <1>4. w = v
    BY <1>2, <1>3
  <1> QED
    BY <1>4 DEF v, w

\* What an unchanged entry shows when the files have not changed either.
LEMMA ShownStays ==
  ASSUME UNCHANGED file, NEW d \in DirNode, NEW n \in ClientName, ent'[d][n] = ent[d][n]
  PROVE  View'[d][n] = View[d][n]
  <1>1. Shown(ent[d][n])' = Shown(ent[d][n])
    BY DEF Shown, Contents, Whole
  <1> QED
    BY <1>1, ViewOf

\* mkdir shows one new, empty directory.
LEMMA MadeView ==
  ASSUME TreeInv, NEW c \in Conn, MakesDirectory(c)
  PROVE  [Visible!Next]_View
  <1>1. Typed /\ FreshDirs /\ TypeOK /\ UNCHANGED file
    BY DEF TreeInv, IInv, Typed, MakesDirectory
  <1>2. PICK d \in DirNode, n \in ClientName, i \in 1 .. MaxDepth :
          /\ i = loc[c].k + 1 /\ loc'[c].k = i
          /\ ent[d][n] = None /\ <<c, i>> \in DirNode /\ (\E p \in Path : d = Holder(p))
          /\ \A e \in DirNode, m \in Name :
               ent'[e][m] = IF e = d /\ m = n THEN <<c, i>> ELSE ent[e][m]
    BY <1>1, MadeEntries
  <1>3. i > loc[c].k
    BY <1>1, <1>2 DEF TypeOK, Locals
  <1> DEFINE x == <<c, i>>
  <1>4. /\ \A e \in DirNode, m \in Name : ent[e][m] # x
        /\ IsEmpty(x) /\ x \in DirNode
    BY <1>1, <1>2, <1>3 DEF FreshDirs
  <1>5. \A e \in DirNode, m \in Name :
          ent'[e][m] = IF e = d /\ m = n THEN x ELSE ent[e][m]
    BY <1>2
  <1> HIDE DEF x
  <1>6. None # x /\ x \in Node /\ x \notin FileNode /\ None \notin FileNode
    BY <1>4, TreeAssumption DEF Node
  <1>7. View[d][n] = None /\ View'[d][n] = x
    BY <1>2, <1>4, <1>5, <1>6, ViewOf DEF Shown, Name
  <1>8. View' = [View EXCEPT ![d][n] = x]
    <2>1. \A e \in DirNode, m \in ClientName : ~(e = d /\ m = n) => View'[e][m] = View[e][m]
      BY <1>1, <1>5, ShownStays DEF Name
    <2> QED
      BY <1>7, <2>1, ViewBind
  <1>9. \A e \in DirNode, m \in ClientName : View[e][m] # x
    <2>1. ASSUME NEW e \in DirNode, NEW m \in ClientName
          PROVE  View[e][m] # x
      <3>1. ent[e][m] # x /\ ent[e][m] \in Node \cup {None}
        BY <1>1, <1>4 DEF TypeOK, TreeTypeOK, Name
      <3> QED
        BY <1>1, <1>4, <3>1, ViewOf, ShownKinds
    <2> QED
      BY <2>1
  <1>10. Visible!MakeDir(d, n)
    BY <1>4, <1>7, <1>8, <1>9, EmptyShown DEF Visible!MakeDir
  <1>11. Visible!Changed(d, n)
    BY <1>6, <1>7 DEF Visible!Changed
  <1> QED
    BY <1>10, <1>11 DEF Visible!Next

\* A publication shows one whole file, or what was there before.
LEMMA PutView ==
  ASSUME TreeInv, NEW c \in Conn, Puts(c)
  PROVE  [Visible!Next]_View
  <1>1. Typed /\ Disk /\ TypeOK /\ UNCHANGED file /\ Whole(c) /\ pc[c] = "publish"
    BY DEF TreeInv, IInv, Typed, Puts, Disk, Filling
  <1>2. PICK d \in DirNode, n \in ClientName :
          /\ ent[d][n] \in (FileNode \ {c}) \cup {None}
          /\ \A e \in DirNode, m \in Name :
               \/ e = d /\ m = n /\ ent'[e][m] = c
               \/ m = Temp[c] /\ ent[e][m] = c /\ ent'[e][m] = None
               \/ ~(e = d /\ m = n) /\ ent'[e][m] = ent[e][m]
    BY <1>1, PutEntries
  <1>3. \A m \in ClientName : m # Temp[c] /\ m \in Name
    BY TreeAssumption DEF TempName, Name
  <1>4. c \in FileNode
    BY DEF FileNode
  <1>5. View'[d][n] = Contents(c) /\ View[d][n] \notin DirNode
    <2>1. ent'[d][n] = c
      BY <1>2, <1>3
    <2>2. Shown(ent[d][n])' = Contents(c)
      BY <1>1, <1>4, <2>1 DEF Shown, Contents, Whole
    <2>3. ent[d][n] \notin DirNode /\ ent[d][n] \in Node \cup {None}
      BY <1>2, TreeAssumption DEF Node
    <2> QED
      BY <1>1, <1>2, <2>2, <2>3, ViewOf, ShownKinds
  <1>6. View' = [View EXCEPT ![d][n] = View'[d][n]]
    <2>1. \A e \in DirNode, m \in ClientName : ~(e = d /\ m = n) => View'[e][m] = View[e][m]
      BY <1>1, <1>2, <1>3, ShownStays
    <2> QED
      BY <1>2, <2>1, ViewBind
  <1>7. Visible!WholeFile(Contents(c))
    BY <1>1, <1>4, ContentsAreFiles DEF Visible!WholeFile, Visible!IsFile
  <1>8. Visible!Publish(d, n)
    BY <1>5, <1>6, <1>7 DEF Visible!Publish, Visible!WholeFile
  <1>9. CASE Visible!Changed(d, n)
    BY <1>2, <1>8, <1>9 DEF Visible!Next
  <1>10. CASE ~Visible!Changed(d, n)
    <2>1. \A e \in DirNode, m \in ClientName : View'[e][m] = View[e][m]
      BY <1>1, <1>2, <1>3, <1>10, ShownStays DEF Visible!Changed
    <2> DEFINE v == View  w == View'
    <2>2. /\ v = [e \in DirNode |-> [m \in ClientName |-> v[e][m]]]
          /\ w = [e \in DirNode |-> [m \in ClientName |-> w[e][m]]]
      BY DEF View
    <2>3. \A e \in DirNode, m \in ClientName : w[e][m] = v[e][m]
      BY <2>1
    <2> HIDE DEF v, w
    <2>4. w = v
      BY <2>2, <2>3
    <2> QED
      BY <2>4 DEF v, w
  <1> QED
    BY <1>9, <1>10

\* A removal shows the name gone.
LEMMA TakenView ==
  ASSUME TreeInv, NEW c \in Conn, Removes(c)
  PROVE  [Visible!Next]_View
  <1>1. Typed /\ TypeOK /\ UNCHANGED file
    BY DEF TreeInv, IInv, Typed, Removes, Takes
  <1>2. PICK p \in Path : Takes(c, p)
    BY DEF Removes
  <1>3. PICK d \in DirNode, n \in Name :
          /\ d = Holder(p) /\ n = Last(p) /\ ent[d][n] \in Node
          /\ ent[d][n] \in DirNode => IsEmpty(ent[d][n])
          /\ \A e \in DirNode, m \in Name :
               ent'[e][m] = IF e = d /\ m = n THEN None ELSE ent[e][m]
    BY <1>1, <1>2, TakenEntry
  <1>4. CASE n \notin ClientName
    <2>1. UNCHANGED View
      BY <1>1, <1>3, <1>4, ViewStays DEF Name
    <2> QED
      BY <2>1
  <1>5. CASE n \in ClientName
    <2>1. None \notin FileNode /\ None \notin Node
      BY TreeAssumption DEF Node
    <2>2. View[d][n] # None /\ View'[d][n] = None
      <3>1. View[d][n] # None
        BY <1>1, <1>3, <1>5, <2>1, ViewOf, ShownKinds
      <3>2. ent'[d][n] = None
        BY <1>3
      <3>3. View'[d][n] = None
        BY <1>5, <2>1, <3>2, ViewOf DEF Shown
      <3> QED
        BY <3>1, <3>3
    <2>3. View[d][n] \in DirNode => Visible!Empty(View[d][n])
      <3>1. View[d][n] \in DirNode => ent[d][n] \in DirNode /\ View[d][n] = ent[d][n]
        BY <1>1, <1>3, <1>5, ViewOf, ShownKinds
      <3> QED
        BY <1>3, <3>1, EmptyShown
    <2>4. View' = [View EXCEPT ![d][n] = None]
      <3>1. \A e \in DirNode, m \in ClientName : ~(e = d /\ m = n) => View'[e][m] = View[e][m]
        BY <1>1, <1>3, ShownStays DEF Name
      <3> QED
        BY <1>5, <2>2, <3>1, ViewBind
    <2>5. Visible!Remove(d, n) /\ Visible!Changed(d, n)
      BY <2>2, <2>3, <2>4 DEF Visible!Remove, Visible!Changed
    <2> QED
      BY <1>5, <2>5 DEF Visible!Next
  <1> QED
    BY <1>4, <1>5

\* A rename shows the name moved, or gone when it took the place of a file
\* that holds the same.
LEMMA RenamedView ==
  ASSUME TreeInv, NEW c \in Conn, Renames(c)
  PROVE  [Visible!Next]_View
  <1>1. Typed /\ TypeOK /\ OneBinding /\ UNCHANGED file
    BY DEF TreeInv, IInv, Typed, Renames
  <1>2. PICK d \in DirNode, h \in DirNode, n \in ClientName, k \in ClientName :
          /\ ent[d][n] \in Node /\ ent[h][k] \in Node \cup {None}
          /\ \/ d = h /\ n = k /\ ent' = ent
             \/ /\ d # h \/ n # k
                /\ ent[d][n] \in DirNode => ent[h][k] \notin FileNode
                /\ ent[d][n] \in FileNode => ent[h][k] \notin DirNode
                /\ ent[h][k] \in DirNode => IsEmpty(ent[h][k])
                /\ \A e \in DirNode, l \in Name :
                     ent'[e][l] = IF e = h /\ l = k THEN ent[d][n]
                                  ELSE IF e = d /\ l = n THEN None ELSE ent[e][l]
    BY <1>1, RenameEntries
  <1>3. CASE ent' = ent
    <2>1. UNCHANGED View
      BY <1>1, <1>3, ViewStays
    <2> QED
      BY <2>1
  <1>4. CASE /\ d # h \/ n # k
             /\ ent[d][n] \in DirNode => ent[h][k] \notin FileNode
             /\ ent[d][n] \in FileNode => ent[h][k] \notin DirNode
             /\ ent[h][k] \in DirNode => IsEmpty(ent[h][k])
             /\ \A e \in DirNode, l \in Name :
                  ent'[e][l] = IF e = h /\ l = k THEN ent[d][n]
                               ELSE IF e = d /\ l = n THEN None ELSE ent[e][l]
    <2>1. /\ None \notin FileNode /\ None \notin Node /\ None \notin DirNode
          /\ FileNode \cap DirNode = {}
      BY TreeAssumption DEF Node
    <2>2. View[d][n] = Shown(ent[d][n]) /\ View[h][k] = Shown(ent[h][k])
      BY ViewOf
    <2>3. View[d][n] # None
      BY <1>1, <1>2, <2>1, <2>2, ShownKinds
    <2>4. ent'[h][k] = ent[d][n] /\ ent'[d][n] = None
      BY <1>4 DEF Name
    <2>5. View'[h][k] = View[d][n]
      <3>1. Shown(ent[h][k])' = Shown(ent[d][n])
        BY <1>1, <2>4 DEF Shown, Contents, Whole
      <3> QED
        BY <2>2, <3>1, ViewOf
    <2>6. View'[d][n] = None
      <3>1. Shown(ent[d][n])' = None
        BY <2>1, <2>4 DEF Shown
      <3> QED
        BY <3>1, ViewOf
    <2>7. \A e \in DirNode, m \in ClientName :
            ~(e = d /\ m = n) /\ ~(e = h /\ m = k) => View'[e][m] = View[e][m]
      BY <1>1, <1>4, ShownStays DEF Name
    <2>8. \/ View[h][k] = None
          \/ Visible!IsFile(View[d][n]) /\ Visible!IsFile(View[h][k])
          \/ View[d][n] \in DirNode /\ View[h][k] \in DirNode /\ Visible!Empty(View[h][k])
      <3>1. CASE ent[h][k] = None
        BY <1>1, <1>2, <2>2, <3>1, ShownKinds
      <3>2. CASE ent[h][k] \in FileNode
        <4>1. ent[d][n] \in FileNode
          BY <1>2, <1>4, <3>2 DEF Node
        <4> QED
          BY <1>1, <1>2, <2>2, <3>2, <4>1, ShownKinds
      <3>3. CASE ent[h][k] \in DirNode
        <4>1. ent[d][n] \in DirNode
          BY <1>2, <1>4, <3>3 DEF Node
        <4>2. View[d][n] \in DirNode /\ View[h][k] = ent[h][k]
          BY <1>1, <1>2, <2>2, <3>3, <4>1, ShownKinds
        <4> QED
          BY <1>4, <3>3, <4>2, EmptyShown
      <3> QED
        BY <1>2, <3>1, <3>2, <3>3 DEF Node
    <2>9. Visible!Move(d, n, h, k)
      BY <1>4, <2>3, <2>5, <2>6, <2>7, <2>8, ViewMove DEF Visible!Move
    <2>10. Visible!Changed(d, n)
      BY <2>3, <2>6 DEF Visible!Changed
    <2>11. CASE View[h][k] # View[d][n]
      BY <2>5, <2>9, <2>10, <2>11 DEF Visible!Next, Visible!Changed
    <2>12. CASE View[h][k] = View[d][n]
      <3>1. View[d][n] \in DirNode => Visible!Empty(View[d][n])
        BY <2>3, <2>8, <2>12 DEF Visible!IsFile
      <3>2. \A e \in DirNode, m \in ClientName : ~(e = d /\ m = n) => View'[e][m] = View[e][m]
        BY <2>5, <2>7, <2>12
      <3>3. View' = [View EXCEPT ![d][n] = None]
        BY <2>6, <3>2, ViewBind
      <3> QED
        BY <2>3, <2>10, <3>1, <3>3 DEF Visible!Next, Visible!Remove
    <2> QED
      BY <2>11, <2>12
  <1> QED
    BY <1>2, <1>3, <1>4

\* Every step of the system is a step of the abstract share, or changes nothing
\* that it shows.
LEMMA NextView ==
  ASSUME TreeInv, [Next]_vars
  PROVE  [Visible!Next]_View
  <1>1. Typed /\ Disk
    BY DEF TreeInv, IInv
  <1>2. ASSUME NEW c \in Conn, MakesTemp(c) \/ WritesOwn(c)
        PROVE  UNCHANGED View
    <2>1. ~Named(c)
      BY <1>1, <1>2 DEF MakesTemp, WritesOwn, Disk, Hidden, Unpublished
    <2>2. \A m \in ClientName : m # Temp[c] /\ m \in Name
      BY TreeAssumption DEF TempName, Name
    <2>3. \A d \in DirNode, m \in ClientName : ent'[d][m] = ent[d][m]
      BY <1>1, <1>2, <2>2, TempEntries DEF WritesOwn
    <2>4. \A d \in DirNode, m \in ClientName : ent[d][m] # c
      <3>1. ASSUME NEW d \in DirNode, NEW m \in ClientName
            PROVE  ent[d][m] # c
        <4>1. <<d, m>> \in Bindings
          BY DEF Bindings
        <4> QED
          BY <2>1, <4>1 DEF Named
      <3> QED
        BY <3>1
    <2>5. \A x \in FileNode \ {c} : file'[x] = file[x]
      BY <1>2 DEF MakesTemp, WritesOwn
    <2> QED
      BY <2>3, <2>4, <2>5, ViewStays
  <1>3. CASE UNCHANGED <<ent, file>>
    BY <1>3, ViewStays
  <1> QED
    BY <1>1, <1>2, <1>3, StepKinds, MadeView, PutView, TakenView, RenamedView DEF Changes

\* Every change of the share that a client can see is one of the four atomic
\* ones of VisibleShare, and shows whole files only: the workers of fsapi.c
\* implement it for any number of connections and any requests.
THEOREM ChangesAreAtomic ==
  ASSUME DistinctTemps
  PROVE  Spec => AtomicChanges
  <1>1. Init => Visible!Init
    BY InitTyped, InitDisk, InitTree, InitView DEF IInv, TreeInv
  <1>2. TreeInv /\ [Next]_vars => [Visible!Next]_View
    BY NextView
  <1> QED
    BY <1>1, <1>2, TreeAlways, PTL DEF Spec, AtomicChanges, Visible!Spec

-----------------------------------------------------------------------------
(***************************************************************************)
(* Refused requests.                                                       *)
(***************************************************************************)
\* A step of one child chooses no other child's reply and reads no request anew.
LEMMA RepliesOnly ==
  ASSUME Typed, NEW c \in Conn, HandleRequest(c) \/ Serve(c) \/ Kill(c), NEW x \in Conn, x # c
  PROVE  reply'[x] = reply[x]
  <1>1. reply \in [Conn -> [status : Nat, err : Errno]]
    BY DEF Typed, TypeOK
  <1>2. ASSUME NEW v, reply' = [reply EXCEPT ![c] = v]
        PROVE  reply'[x] = reply[x]
    BY <1>1, <1>2
  <1>3. ASSUME NEW l, Goto(c, l)
        PROVE  reply'[x] = reply[x]
    BY <1>3 DEF Goto
  <1>4. ASSUME NEW status, NEW e, NEW l, Choose(c, status, e, l)
        PROVE  reply'[x] = reply[x]
    BY <1>2, <1>4 DEF Choose
  <1>5. ASSUME NEW e, Fail(c, e)
        PROVE  reply'[x] = reply[x]
    BY <1>4, <1>5 DEF Fail
  <1>6. ASSUME NEW status, Answer(c, status)
        PROVE  reply'[x] = reply[x]
    BY <1>4, <1>6 DEF Answer
  <1>7. ASSUME NEW e, NEW l, Precondition(c, e, l)
        PROVE  reply'[x] = reply[x]
    BY <1>4, <1>7 DEF Precondition
  <1>8. ASSUME NEW e, NEW l, WriteFail(c, e, l)
        PROVE  reply'[x] = reply[x]
    BY <1>4, <1>7, <1>8 DEF WriteFail
  <1>9. ASSUME AfterMkdirs(c)
        PROVE  reply'[x] = reply[x]
    BY <1>3, <1>6, <1>9 DEF AfterMkdirs
  <1>10. ASSUME EnterMkdirs(c)
         PROVE  reply'[x] = reply[x]
    BY <1>3, <1>9, <1>10 DEF EnterMkdirs
  <1>11. CASE HandleRequest(c) \/ Kill(c)
    BY <1>2, <1>3, <1>5, <1>11 DEF HandleRequest, Kill
  <1>12. CASE \/ DispatchGet(c) \/ OpenFile(c) \/ SendByte(c) \/ EndSend(c)
              \/ OpenList(c) \/ ListEntry(c) \/ EndList(c)
    BY <1>3, <1>4, <1>5, <1>6, <1>12
       DEF DispatchGet, OpenFile, SendByte, EndSend, OpenList, ListEntry, EndList
  <1>13. CASE DispatchPut(c) \/ Mkdir(c)
    BY <1>3, <1>4, <1>5, <1>6, <1>7, <1>9, <1>10, <1>13 DEF DispatchPut, Mkdir
  <1>14. CASE \/ OpenTemp(c) \/ Fill(c) \/ Sync(c) \/ PublishByRename(c) \/ PublishByLink(c)
              \/ DropTemp(c) \/ Cleanup(c) \/ FsyncDir(c)
    BY <1>3, <1>6, <1>8, <1>14
       DEF OpenTemp, Fill, Sync, PublishByRename, PublishByLink, DropTemp, Cleanup, FsyncDir
  <1>15. CASE StatSource(c) \/ DispatchDest(c) \/ OpenSource(c) \/ Rename(c)
    BY <1>3, <1>5, <1>7, <1>10, <1>15 DEF StatSource, DispatchDest, OpenSource, Rename
  <1>16. CASE DispatchDelete(c) \/ RmLstat(c) \/ RmOpen(c) \/ RmRead(c) \/ RmRemove(c)
    BY <1>3, <1>5, <1>6, <1>7, <1>16 DEF DispatchDelete, RmLstat, RmOpen, RmRead, RmRemove
  <1> QED
    BY <1>11, <1>12, <1>13, <1>14, <1>15, <1>16 DEF Serve

\* Once it has been read, a request stays.
LEMMA RequestStays ==
  ASSUME Typed, [Next]_vars, NEW x \in Conn, pc[x] # "idle"
  PROVE  req'[x] = req[x]
  <1>1. ASSUME NEW c \in Conn, HandleRequest(c)
        PROVE  req'[x] = req[x]
    BY <1>1 DEF HandleRequest, Typed, TypeOK
  <1>2. ASSUME NEW c \in Conn, Serve(c) \/ Kill(c)
        PROVE  UNCHANGED req
    BY <1>2, ServeRequest DEF Kill
  <1> QED
    BY <1>1, <1>2 DEF Next, Tick, vars

\* A file gets a client's name by its own publication only.
LEMMA NamedByPut ==
  ASSUME TreeInv, [Next]_vars, NEW c \in Conn, Named(c)', ~Named(c)
  PROVE  Puts(c)
  <1>1. Typed /\ Disk /\ OneBinding
    BY DEF TreeInv, IInv
  <1>2. PICK b \in Bindings : ent'[b[1]][b[2]] = c
    BY DEF Named
  <1>3. /\ b[1] \in DirNode /\ b[2] \in ClientName /\ b[2] \in Name
        /\ \A d \in DirNode, n \in ClientName : ent[d][n] # c
    <2>1. \A d \in DirNode, n \in ClientName : <<d, n>> \in Bindings
      BY DEF Bindings
    <2> QED
      BY <2>1 DEF Named, Bindings, Name
  <1>4. c \in FileNode /\ c \notin DirNode /\ c # None
    BY TreeAssumption DEF FileNode, Node
  <1>5. \A x \in Conn : b[2] # Temp[x]
    BY <1>3, TreeAssumption DEF TempName
  <1>6. ent'[b[1]][b[2]] # ent[b[1]][b[2]]
    BY <1>2, <1>3
  <1>7. PICK x \in Conn : Changes(x)
    BY <1>1, <1>6, StepKinds
  <1>8. ~MakesDirectory(x)
    <2> SUFFICES ASSUME MakesDirectory(x) PROVE FALSE
      OBVIOUS
    <2>1. \E y \in DirNode : \A e \in DirNode, m \in Name : ent'[e][m] \in {y, ent[e][m]}
      <3>1. PICK d \in DirNode, n \in ClientName, i \in 1 .. MaxDepth :
              /\ <<x, i>> \in DirNode
              /\ \A e \in DirNode, m \in Name :
                   ent'[e][m] = IF e = d /\ m = n THEN <<x, i>> ELSE ent[e][m]
        BY <1>1, MadeEntries
      <3> DEFINE y == <<x, i>>
      <3>2. y \in DirNode /\ \A e \in DirNode, m \in Name : ent'[e][m] \in {y, ent[e][m]}
        BY <3>1
      <3> HIDE DEF y
      <3> QED
        BY <3>2
    <2> QED
      BY <1>2, <1>3, <1>4, <2>1
  <1>9. ~MakesTemp(x) /\ ~WritesOwn(x)
    BY <1>1, <1>3, <1>5, <1>6, TempEntries DEF WritesOwn
  <1>10. ~Renames(x)
    BY <1>1, <1>2, <1>3, <1>4, RenameEntries
  <1>11. ~Removes(x)
    BY <1>1, <1>2, <1>3, <1>4, TakenEntry DEF Removes
  <1>12. Puts(x)
    BY <1>7, <1>8, <1>9, <1>10, <1>11 DEF Changes
  <1>13. ent'[b[1]][b[2]] = x
    BY <1>1, <1>3, <1>5, <1>6, <1>12, PutEntries
  <1> QED
    BY <1>2, <1>12, <1>13

\* the child is past its last failure, or gone
Accepted(c) == pc[c] \in {"untmp", "flush", "dead"} \/ (pc[c] = "done" /\ reply[c].status < 400)
OnlyAccepted == \A c \in Conn : Named(c) => Accepted(c)

\* A child that has published goes on to its success reply, unless it is killed.
LEMMA AcceptedStays ==
  ASSUME Typed, [Next]_vars, NEW c \in Conn, Accepted(c)
  PROVE  Accepted(c)'
  <1>1. CASE UNCHANGED <<pc, reply>>
    BY <1>1 DEF Accepted
  <1>2. ASSUME NEW x \in Conn, x # c, HandleRequest(x) \/ Serve(x) \/ Kill(x)
        PROVE  Accepted(c)'
    BY <1>2, MovesOnly, RepliesOnly DEF Accepted
  <1>3. CASE Kill(c)
    BY <1>3 DEF Kill, Accepted, Typed, TypeOK
  <1>4. ~HandleRequest(c)
    BY DEF HandleRequest, Accepted
  <1>5. CASE Serve(c)
    <2>1. DropTemp(c) \/ FsyncDir(c)
      BY <1>5 DEF Accepted, Serve, DispatchGet, OpenFile, SendByte, EndSend, OpenList, ListEntry,
           EndList, DispatchPut, Mkdir, OpenTemp, Fill, Sync, PublishByRename, PublishByLink,
           Cleanup, StatSource, DispatchDest, OpenSource, Rename, DispatchDelete, RmLstat,
           RmOpen, RmRead, RmRemove, At
    <2>2. CASE DropTemp(c)
      BY <2>2 DEF DropTemp, Goto, Accepted, Typed, TypeOK
    <2>3. CASE FsyncDir(c)
      <3>1. PICK status \in {200, 201} : Answer(c, status)
        BY <2>3 DEF FsyncDir
      <3>2. pc'[c] = "done" /\ reply'[c].status = status
        BY <3>1 DEF Answer, Choose, Typed, TypeOK
      <3> QED
        BY <3>2 DEF Accepted
    <2> QED
      BY <2>1, <2>2, <2>3
  <1> QED
    BY <1>1, <1>2, <1>3, <1>4, <1>5 DEF Next, Tick, vars

\* A write that was refused, cut short or failed leaves nothing under any name a
\* client can ask for: fsapi_write_stream and fsapi_copy give their file a
\* client's name only when nothing can fail any more.
THEOREM RefusedLeavesNoFile ==
  ASSUME DistinctTemps
  PROVE  Spec => []RefusedLeavesNothing
  <1>1. Init => OnlyAccepted
    <2>1. ASSUME Init
          PROVE  OnlyAccepted
      BY <2>1, InitDisk DEF Disk, Hidden, Unpublished, OnlyAccepted, Init
    <2> QED
      BY <2>1
  <1>2. ASSUME TreeInv, OnlyAccepted, [Next]_vars
        PROVE  OnlyAccepted'
    <2>1. Typed
      BY <1>2 DEF TreeInv, IInv
    <2>2. ASSUME NEW c \in Conn, Named(c)'
          PROVE  Accepted(c)'
      <3>1. CASE Named(c)
        BY <1>2, <2>1, <3>1, AcceptedStays DEF OnlyAccepted
      <3>2. CASE ~Named(c)
        BY <1>2, <2>2, <3>2, NamedByPut DEF Puts, Accepted
      <3> QED
        BY <3>1, <3>2
    <2> QED
      BY <2>2 DEF OnlyAccepted
  <1>3. ASSUME TreeInv, OnlyAccepted
        PROVE  RefusedLeavesNothing
    <2>1. \A c \in Conn : reply[c].status \in Nat
      BY <1>3 DEF TreeInv, IInv, Typed, TypeOK
    <2> QED
      BY <1>3, <2>1 DEF OnlyAccepted, Accepted, Named, RefusedLeavesNothing
  <1>4. TreeInv /\ OnlyAccepted /\ [Next]_vars => OnlyAccepted'
    BY <1>2
  <1>5. TreeInv /\ OnlyAccepted => RefusedLeavesNothing
    BY <1>3
  <1> QED
    BY <1>1, <1>4, <1>5, TreeAlways, PTL DEF Spec

-----------------------------------------------------------------------------
(***************************************************************************)
(* Two create-only PUTs of one path.                                       *)
(***************************************************************************)
\* a step of a DELETE
Deletes(c) == DispatchDelete(c) \/ RmLstat(c) \/ RmOpen(c) \/ RmRead(c) \/ RmRemove(c)
\* Where a step takes a child, and with what reply.
Turns(c) ==
  /\ pc'[c] # "idle"
  /\ pc'[c] = "untmp" => pc[c] = "publish"
  /\ pc'[c] = "flush" => pc[c] \in {"publish", "untmp", "rename"}
  /\ pc'[c] \in {"send", "cleanup"} => \/ pc'[c] = pc[c] /\ reply'[c] = reply[c]
                                       \/ reply'[c].status # 201
  /\ pc'[c] \in Removing => Deletes(c) /\ (pc[c] \in Removing \/ req[c].op = "DELETE")
  /\ Created(c)' => \/ pc[c] = "flush" \/ MakesDir(req[c])
                    \/ pc[c] \in {"send", "cleanup"} /\ reply'[c] = reply[c]

\* The replies and labels of the helpers that choose them.
Goes(c, l)     == pc'[c] = l /\ reply'[c] = reply[c]
Says(c, s, l)  == pc'[c] = l /\ reply'[c].status = s
Refuses(c, l)  == pc'[c] = l /\ reply'[c].status # 201 /\ reply'[c].status # 200

\* What each of them does to the label and the status.
LEMMA HelperTurns ==
  ASSUME Typed, NEW c \in Conn
  PROVE  /\ \A l : Goto(c, l) => Goes(c, l)
         /\ \A s, e, l : Choose(c, s, e, l) => Says(c, s, l)
         /\ \A s : Answer(c, s) => Says(c, s, "done")
         /\ \A e : Fail(c, e) => Refuses(c, "done")
         /\ \A e, l : Precondition(c, e, l) => Refuses(c, l)
         /\ \A e, l : WriteFail(c, e, l) => Refuses(c, l)
  <1>1. pc \in [Conn -> Phase] /\ reply \in [Conn -> [status : Nat, err : Errno]]
    BY DEF Typed, TypeOK
  <1>2. \A l : Goto(c, l) => Goes(c, l)
    BY <1>1 DEF Goto, Goes
  <1>3. ASSUME NEW s, NEW e, NEW l, Choose(c, s, e, l)
        PROVE  Says(c, s, l)
    <2>1. pc'[c] = l /\ reply'[c] = [status |-> s, err |-> e]
      BY <1>1, <1>3 DEF Choose
    <2> QED
      BY <2>1 DEF Says
  <1>4. \A e : ErrHttp(e) # 201 /\ ErrHttp(e) # 200
    BY DEF ErrHttp
  <1>5. \A s : Answer(c, s) => Says(c, s, "done")
    BY <1>3 DEF Answer
  <1>6. \A e : Fail(c, e) => Refuses(c, "done")
    BY <1>3, <1>4 DEF Fail, Says, Refuses
  <1>7. \A e, l : Precondition(c, e, l) => Refuses(c, l)
    BY <1>3 DEF Precondition, Says, Refuses
  <1>8. \A e, l : WriteFail(c, e, l) => Refuses(c, l)
    BY <1>3, <1>4, <1>7 DEF WriteFail, Says, Refuses
  <1> QED
    BY <1>2, <1>3, <1>5, <1>6, <1>7, <1>8

\* Every step of a child's workers is such a turn.
LEMMA ServeTurns ==
  ASSUME Typed, NEW c \in Conn, Serve(c)
  PROVE  Turns(c)
  <1>1. pc \in [Conn -> Phase] /\ reply \in [Conn -> [status : Nat, err : Errno]]
    BY DEF Typed, TypeOK
  <1>2. ASSUME NEW l \in {"list", "open", "opendir", "dest", "opensrc", "mkdirs", "rename",
                          "opentmp", "fill", "publish"},
               Goes(c, l)
        PROVE  Turns(c)
    BY <1>2 DEF Goes, Turns, Created, Removing
  <1>3. ASSUME NEW s \in {200, 204}, NEW l \in {"done", "send"}, Says(c, s, l)
        PROVE  Turns(c)
    BY <1>3 DEF Says, Turns, Created, Removing
  <1>4. ASSUME NEW l \in {"done", "cleanup"}, Refuses(c, l)
        PROVE  Turns(c)
    BY <1>4 DEF Refuses, Turns, Created, Removing
  <1>5. ASSUME Choose(c, 411, "ELENGTH", "done")
        PROVE  Turns(c)
    BY <1>5, HelperTurns DEF Says, Turns, Created, Removing
  <1>6. ASSUME AfterMkdirs(c)
        PROVE  Turns(c)
    <2>1. Goes(c, "rename") \/ Goes(c, "opentmp") \/ (MakesDir(req[c]) /\ Says(c, 201, "done"))
      BY <1>6, HelperTurns DEF AfterMkdirs
    <2> QED
      BY <1>2, <2>1 DEF Says, Turns, Created, Removing
  <1>7. ASSUME EnterMkdirs(c)
        PROVE  Turns(c)
    BY <1>2, <1>6, <1>7, HelperTurns DEF EnterMkdirs
  <1>8. ASSUME NEW l \in Removing, Goes(c, l), Deletes(c),
               pc[c] \in Removing \/ req[c].op = "DELETE"
        PROVE  Turns(c)
    BY <1>8 DEF Goes, Turns, Created, Removing
  <1>9. CASE DispatchGet(c) \/ OpenFile(c) \/ OpenList(c) \/ EndList(c)
    BY <1>2, <1>3, <1>4, <1>9, HelperTurns DEF DispatchGet, OpenFile, OpenList, EndList
  <1>10. CASE SendByte(c) \/ ListEntry(c)
    BY <1>10 DEF SendByte, ListEntry, Turns, Created, Removing
  <1>11. CASE EndSend(c) \/ Cleanup(c) \/ FsyncDir(c)
    <2>1. /\ pc'[c] = "done"
          /\ pc[c] = "flush" \/ (pc[c] \in {"send", "cleanup"} /\ reply'[c] = reply[c])
      BY <1>11, HelperTurns DEF EndSend, Cleanup, FsyncDir, Goes, Says
    <2> QED
      BY <2>1 DEF Turns, Removing
  <1>12. CASE DispatchPut(c) \/ Mkdir(c)
    BY <1>2, <1>3, <1>4, <1>5, <1>6, <1>7, <1>12, HelperTurns DEF DispatchPut, Mkdir
  <1>13. CASE OpenTemp(c)
    BY <1>2, <1>4, <1>13, HelperTurns DEF OpenTemp
  <1>14. CASE Fill(c) \/ Sync(c)
    <2>1. \/ UNCHANGED <<pc, reply>> /\ pc[c] = "fill"
          \/ Goes(c, "publish") \/ Refuses(c, "cleanup")
      BY <1>14, HelperTurns DEF Fill, Sync
    <2>2. CASE UNCHANGED <<pc, reply>> /\ pc[c] = "fill"
      BY <2>2 DEF Turns, Created, Removing
    <2> QED
      BY <1>2, <1>4, <2>1, <2>2
  <1>15. CASE PublishByRename(c) \/ PublishByLink(c) \/ DropTemp(c) \/ Rename(c)
    <2>1. \/ Goes(c, "flush") /\ pc[c] \in {"publish", "untmp", "rename"}
          \/ Goes(c, "untmp") /\ pc[c] = "publish"
          \/ Refuses(c, "cleanup") \/ Refuses(c, "done")
      BY <1>15, HelperTurns DEF PublishByRename, PublishByLink, DropTemp, Rename
    <2> QED
      BY <1>4, <2>1 DEF Goes, Turns, Created, Removing
  <1>16. CASE StatSource(c) \/ DispatchDest(c) \/ OpenSource(c)
    BY <1>2, <1>4, <1>7, <1>16, HelperTurns DEF StatSource, DispatchDest, OpenSource
  <1>17. CASE Deletes(c)
    <2>1. \/ \E l \in Removing : Goes(c, l) /\ (pc[c] \in Removing \/ req[c].op = "DELETE")
          \/ Refuses(c, "done") \/ Says(c, 204, "done")
      BY <1>17, HelperTurns
         DEF Deletes, DispatchDelete, RmLstat, RmOpen, RmRead, RmRemove, At, Removing
    <2> QED
      BY <1>3, <1>4, <1>8, <1>17, <2>1
  <1> QED
    BY <1>9, <1>10, <1>11, <1>12, <1>13, <1>14, <1>15, <1>16, <1>17 DEF Serve, Deletes

\* somebody is served a request that takes names away
Mover == \E c \in Conn : pc[c] # "idle" /\ req[c].op \in {"MOVE", "DELETE"}
\* the child has put its file in place, or said so
Holds(c) == pc[c] \in {"untmp", "flush"} \/ Created(c)
\* a create-only PUT of a file that holds its path
Creator(c) == CreateOnlyPut(req[c]) /\ ~MakesDir(req[c]) /\ Holds(c)
\* a reply waiting to be sent is no 201, and only a DELETE removes
Told ==
  \A c \in Conn : /\ pc[c] \in {"send", "cleanup"} => reply[c].status # 201
                  /\ pc[c] \in Removing => req[c].op = "DELETE"
\* without a mover, a creator's path leads somewhere and is no other creator's
OnlyCreator ==
  ~Mover => \A c \in Conn : Creator(c) =>
    /\ \A p \in Path : p = req[c].path => Present(p)
    /\ \A x \in Conn \ {c} : Creator(x) => req[x].path # req[c].path

\* A path that leads to something does so until something is moved or removed.
LEMMA PresentStays ==
  ASSUME TreeInv, Told, [Next]_vars, ~Mover,
         NEW p \in Path, Last(p) \in ClientName, Present(p)
  PROVE  Present(p)'
  <1>1. Typed /\ Disk /\ OneBinding /\ OwnTemps
    BY DEF TreeInv, IInv, Disk
  <1>2. /\ Holder(p) \in DirNode /\ Walk(p) = ent[Holder(p)][Last(p)]
        /\ Walk(p) \in Node /\ Last(p) \in Name
    BY PresentEntry, PathLast DEF Present
  <1>3. /\ None \notin Node /\ FileNode \cap DirNode = {} /\ Conn \subseteq FileNode
        /\ FileNode \subseteq Node /\ DirNode \subseteq Node
        /\ \A c \in Conn : Temp[c] \in Name /\ Temp[c] \notin ClientName
    BY TreeAssumption DEF FileNode, Node, TempName, Name
  <1>4. ASSUME \A d \in DirNode, n \in Name : ent[d][n] \in DirNode => ent'[d][n] = ent[d][n],
               ent'[Holder(p)][Last(p)] \in Node
        PROVE  Present(p)'
    <2>1. Holder(p)' = Holder(p)
      BY <1>2, <1>4, HolderStays
    <2> QED
      BY <1>2, <1>4, <2>1 DEF Present, Walk, Entry, Path, Node, DirNode, FileNode
  <1>5. CASE UNCHANGED ent
    BY <1>2, <1>4, <1>5
  <1>6. ASSUME NEW c \in Conn, MakesDirectory(c)
        PROVE  Present(p)'
    <2>1. PICK d \in DirNode, n \in ClientName, i \in 1 .. MaxDepth :
            /\ ent[d][n] = None /\ <<c, i>> \in DirNode
            /\ \A e \in DirNode, m \in Name :
                 ent'[e][m] = IF e = d /\ m = n THEN <<c, i>> ELSE ent[e][m]
      BY <1>1, <1>6, MadeEntries
    <2> DEFINE y == <<c, i>>
    <2>2. /\ y \in DirNode
          /\ \A e \in DirNode, m \in Name :
               ent'[e][m] = IF e = d /\ m = n THEN y ELSE ent[e][m]
      BY <2>1
    <2> HIDE DEF y
    <2> QED
      BY <1>2, <1>3, <1>4, <2>1, <2>2
  <1>7. ASSUME NEW c \in Conn, MakesTemp(c)
        PROVE  Present(p)'
    BY <1>1, <1>2, <1>3, <1>4, <1>7, TempEntries
  <1>8. ASSUME NEW c \in Conn, Puts(c)
        PROVE  Present(p)'
    <2>1. PICK d \in DirNode, n \in ClientName :
            /\ ent[d][n] \in FileNode \cup {None}
            /\ \A e \in DirNode, m \in Name :
                 \/ e = d /\ m = n /\ ent'[e][m] = c
                 \/ m = Temp[c] /\ ent[e][m] = c /\ ent'[e][m] = None
                 \/ ~(e = d /\ m = n) /\ ent'[e][m] = ent[e][m]
      BY <1>1, <1>8, PutEntries
    <2>2. \A e \in DirNode, m \in Name : ent[e][m] \in DirNode => ent'[e][m] = ent[e][m]
      BY <1>3, <2>1
    <2>3. ent'[Holder(p)][Last(p)] \in Node
      BY <1>2, <1>3, <2>1
    <2> QED
      BY <1>4, <2>2, <2>3
  <1>9. ASSUME NEW c \in Conn, Renames(c)
        PROVE  FALSE
    BY <1>9 DEF Renames, Mover
  <1>10. ASSUME NEW c \in Conn, Removes(c)
         PROVE  Present(p)'
    <2>1. pc[c] \in {"untmp", "cleanup"} /\ TempPath(c) \in Path
            /\ Last(TempPath(c)) = Temp[c] /\ Takes(c, TempPath(c))
      BY <1>10 DEF Removes, Told, Removing, Mover
    <2>2. PICK d \in DirNode : \A e \in DirNode, m \in Name :
            ent'[e][m] = IF e = d /\ m = Temp[c] THEN None ELSE ent[e][m]
      BY <1>1, <2>1, TakenEntry
    <2>3. \A e \in DirNode : ent[e][Temp[c]] \notin DirNode
      BY <1>1, <1>3 DEF OwnTemps
    <2> QED
      BY <1>2, <1>3, <1>4, <2>2, <2>3
  <1> QED
    BY <1>1, <1>5, <1>6, <1>7, <1>8, <1>9, <1>10, StepKinds DEF Changes, WritesOwn

\* Who becomes a creator does so by a link to a free name.
LEMMA NewCreator ==
  ASSUME Typed, Told, [Next]_vars, NEW c \in Conn, Creator(c)', ~Creator(c)
  PROVE  /\ Puts(c) /\ UNCHANGED req /\ CreateErr(Target(req[c])) = OK
         /\ pc'[c] # pc[c]
  <1>1. pc'[c] # "idle" /\ pc'[c] # "stat" /\ pc'[c] # "dead"
    BY DEF Creator, Holds, Created
  <1>2. ASSUME pc'[c] = pc[c], reply'[c] = reply[c]
        PROVE  FALSE
    <2>1. req'[c] = req[c]
      BY <1>1, <1>2, RequestStays
    <2> QED
      BY <1>2, <2>1 DEF Creator, Holds, Created
  <1>3. PICK x \in Conn : HandleRequest(x) \/ Serve(x) \/ Kill(x)
    BY <1>2 DEF Next, Tick, vars
  <1>4. x = c
    BY <1>2, <1>3, MovesOnly, RepliesOnly
  <1>5. ~Kill(c)
    BY <1>1 DEF Kill, Typed, TypeOK
  <1>6. ~HandleRequest(c)
    <2> SUFFICES ASSUME HandleRequest(c) PROVE FALSE
      OBVIOUS
    <2>1. Goes(c, "stat") \/ Refuses(c, "done")
      BY HelperTurns DEF HandleRequest
    <2> QED
      BY <2>1 DEF Goes, Refuses, Creator, Holds, Created
  <1>7. Serve(c) /\ Turns(c) /\ UNCHANGED req
    <2>1. Serve(c)
      BY <1>3, <1>4, <1>5, <1>6
    <2> QED
      BY <2>1, ServeRequest, ServeTurns
  <1>8. pc[c] \notin {"untmp", "flush"} /\ CreateOnlyPut(req[c]) /\ ~MakesDir(req[c])
    BY <1>7 DEF Creator, Holds
  <1>9. ~Created(c)'
    BY <1>7, <1>8 DEF Turns, Told, Created
  <1>10. pc[c] # "rename"
    BY <1>8 DEF Typed, Stage, StageAt, CreateOnlyPut
  <1>11. Publishes(c)
    BY <1>7, <1>8, <1>9, <1>10 DEF Creator, Holds, Turns, Publishes
  <1> QED
    BY <1>7, <1>8, <1>11, PublishedPuts DEF Publishes

\* Every step keeps what the children are told, and the creators apart.
LEMMA NextTold ==
  ASSUME Typed, Told, [Next]_vars
  PROVE  Told'
  <1> SUFFICES ASSUME NEW c \in Conn
               PROVE  /\ pc'[c] \in {"send", "cleanup"} => reply'[c].status # 201
                      /\ pc'[c] \in Removing => req'[c].op = "DELETE"
    BY DEF Told
  <1>1. ASSUME pc'[c] = pc[c], reply'[c] = reply[c]
        PROVE  /\ pc'[c] \in {"send", "cleanup"} => reply'[c].status # 201
               /\ pc'[c] \in Removing => req'[c].op = "DELETE"
    <2>1. pc[c] \in Removing => req'[c] = req[c]
      BY RequestStays DEF Removing
    <2> QED
      BY <1>1, <2>1 DEF Told
  <1>2. CASE UNCHANGED vars \/ Tick
    BY <1>1, <1>2 DEF vars, Tick
  <1>3. ASSUME NEW x \in Conn, x # c, HandleRequest(x) \/ Serve(x) \/ Kill(x)
        PROVE  pc'[c] = pc[c] /\ reply'[c] = reply[c]
    BY <1>3, MovesOnly, RepliesOnly
  <1>4. CASE HandleRequest(c) \/ Kill(c)
    <2>1. Goes(c, "stat") \/ Refuses(c, "done") \/ pc'[c] = "dead"
      BY <1>4, HelperTurns DEF HandleRequest, Kill, Typed, TypeOK
    <2> QED
      BY <2>1 DEF Goes, Refuses, Removing
  <1>5. CASE Serve(c)
    <2>1. Turns(c) /\ UNCHANGED req
      BY <1>5, ServeRequest, ServeTurns
    <2> QED
      BY <2>1 DEF Turns, Told
  <1> QED
    BY <1>1, <1>2, <1>3, <1>4, <1>5 DEF Next

\* A mover stays one.
LEMMA MoverStays ==
  ASSUME Typed, [Next]_vars, Mover
  PROVE  Mover'
  <1>1. PICK c \in Conn : pc[c] # "idle" /\ req[c].op \in {"MOVE", "DELETE"}
    BY DEF Mover
  <1>2. req'[c] = req[c]
    BY <1>1, RequestStays
  <1>3. pc'[c] # "idle"
    <2>1. ASSUME NEW x \in Conn, x # c, HandleRequest(x) \/ Serve(x) \/ Kill(x)
          PROVE  pc'[c] = pc[c]
      BY <2>1, MovesOnly
    <2>2. ~HandleRequest(c)
      BY <1>1 DEF HandleRequest
    <2>3. Kill(c) => pc'[c] # "idle"
      BY DEF Kill, Typed, TypeOK
    <2>4. Serve(c) => pc'[c] # "idle"
      BY ServeTurns DEF Turns
    <2> QED
      BY <1>1, <2>1, <2>2, <2>3, <2>4 DEF Next, Tick, vars
  <1> QED
    BY <1>1, <1>2, <1>3 DEF Mover

\* Nobody becomes a second creator of a path that a creator holds.
LEMMA NextCreator ==
  ASSUME TreeInv, Told, OnlyCreator, [Next]_vars
  PROVE  OnlyCreator'
  <1>1. Typed /\ Disk /\ Typed'
    BY NextTyped DEF TreeInv, IInv
  <1>2. SUFFICES ASSUME ~Mover'
                 PROVE  \A c \in Conn : Creator(c)' =>
                          /\ \A p \in Path : p = req'[c].path => Present(p)'
                          /\ \A x \in Conn \ {c} : Creator(x)' => req'[x].path # req'[c].path
    BY DEF OnlyCreator
  <1>3. ~Mover
    BY <1>1, <1>2, MoverStays
  <1>4. ASSUME NEW c \in Conn, Creator(c)
        PROVE  /\ req[c].path \in Path /\ Last(req[c].path) \in ClientName /\ req'[c] = req[c]
               /\ Present(req[c].path)
               /\ \A x \in Conn \ {c} : Creator(x) => req[x].path # req[c].path
    <2>1. pc[c] # "idle"
      BY <1>4 DEF Creator, Holds, Created
    <2> QED
      BY <1>1, <1>3, <1>4, <2>1, Requested, RequestStays DEF OnlyCreator
  <1>5. ASSUME NEW c \in Conn, Creator(c)', ~Creator(c)
        PROVE  /\ Puts(c) /\ UNCHANGED req /\ pc'[c] # pc[c] /\ ~Present(req[c].path)
               /\ req[c].path = Target(req[c]) /\ req[c].path \in Path
    <2>1. Puts(c) /\ UNCHANGED req /\ CreateErr(Target(req[c])) = OK /\ pc'[c] # pc[c]
      BY <1>1, <1>5, NewCreator
    <2>2. req[c].path = Target(req[c])
      BY <1>5, <2>1 DEF Creator, CreateOnlyPut, Target
    <2> QED
      BY <2>1, <2>2 DEF CreateErr, LookupErr, OK, Puts
  <1>6. ASSUME NEW c \in Conn, Creator(c)', NEW p \in Path, p = req'[c].path
        PROVE  Present(p)'
    <2>1. CASE Creator(c)
      BY <1>3, <1>4, <1>6, <2>1, PresentStays
    <2>2. CASE ~Creator(c)
      <3>1. p = Target(req[c])
        BY <1>5, <1>6, <2>2
      <3>2. Walk(p)' = c
        BY <1>1, <1>5, <1>6, <2>2, <3>1, PutsOwn
      <3>3. c \in Node
        BY DEF Node, FileNode
      <3> QED
        BY <3>2, <3>3 DEF Present, Node, FileNode, DirNode
    <2> QED
      BY <2>1, <2>2
  <1>7. ASSUME NEW c \in Conn, NEW x \in Conn, x # c, Creator(c)', Creator(x)',
               req'[x].path = req'[c].path
        PROVE  FALSE
    <2>1. CASE Creator(c) /\ Creator(x)
      BY <1>4, <1>7, <2>1
    <2>2. CASE Creator(c) /\ ~Creator(x)
      BY <1>4, <1>5, <1>7, <2>2
    <2>3. CASE ~Creator(c) /\ Creator(x)
      BY <1>4, <1>5, <1>7, <2>3
    <2>4. CASE ~Creator(c) /\ ~Creator(x)
      <3>1. pc'[c] # pc[c] /\ pc'[x] # pc[x]
        BY <1>5, <1>7, <2>4
      <3> QED
        BY <1>1, <1>7, <3>1, MovesOnly DEF Next, Tick, vars
    <2> QED
      BY <2>1, <2>2, <2>3, <2>4
  <1> QED
    BY <1>6, <1>7

\* Two create-only PUTs of one path are both told 201 only if somebody may have
\* taken the first one's file away: link is what decides, for any number of
\* children racing through their early stats.
THEOREM OneCreatorEach ==
  ASSUME DistinctTemps
  PROVE  Spec => []OneCreator
  <1>1. Init => Told /\ OnlyCreator
    BY DEF Init, Told, OnlyCreator, Creator, Holds, Created, Removing
  <1>2. TreeInv /\ Told /\ OnlyCreator /\ [Next]_vars => Told' /\ OnlyCreator'
    BY NextTold, NextCreator DEF TreeInv, IInv
  <1>3. ASSUME TreeInv, OnlyCreator
        PROVE  OneCreator
    <2>1. Typed /\ None \notin Requests
      BY <1>3, RequestAssumption DEF TreeInv, IInv
    <2>2. \A c \in Conn : pc[c] # "idle" => req[c] # None
      BY <2>1 DEF Typed, Stage, StageAt
    <2>3. Mover => \E c \in Conn : req[c] # None /\ req[c].op \in {"MOVE", "DELETE"}
      BY <2>2 DEF Mover
    <2> QED
      BY <1>3, <2>3 DEF OneCreator, OnlyCreator, Creator, Holds
  <1>4. TreeInv /\ OnlyCreator => OneCreator
    BY <1>3
  <1> QED
    BY <1>1, <1>2, <1>4, TreeAlways, PTL DEF Spec

-----------------------------------------------------------------------------
(***************************************************************************)
(* Temporary names.                                                        *)
(***************************************************************************)
\* the share's parent has no name in the tree
TopFree == \A d \in DirNode, n \in Name : ent[d][n] # Top
\* a connection without a request has none
Waiting == \A c \in Conn : pc[c] = "idle" => req[c] = None

\* where a child holds its temporary name
Holding == {"fill", "publish", "untmp", "cleanup"}
\* the child of c holds its name, and will find it in d
Tracked(c, d) == pc[c] \in Holding /\ \A p \in Path : p = TempPath(c) => Holder(p) = d
\* a temporary name is where its child will look for it, unless a MOVE has
\* taken the directory away
Litter ==
  \A c \in Conn, d \in DirNode : ent[d][Temp[c]] = c /\ pc[c] # "dead" =>
    pc[c] # "idle" /\ (MovedAway(c) \/ Tracked(c, d))

TidyInv == TreeInv /\ TopFree /\ Waiting /\ Litter

\* Two walks that meet in one directory have come the same way.
LEMMA TrailUnique ==
  ASSUME TreeInv, TopFree,
         NEW p \in Path, NEW f, Trail(ent, p, f), NEW q \in Path, NEW g, Trail(ent, q, g),
         NEW i \in 0 .. Len(p), NEW l \in 0 .. Len(q), f[i] = g[l], f[i] \in DirNode
  PROVE  i = l /\ \A j \in 1 .. i : p[j] = q[j]
  <1>1. Len(p) \in Nat /\ Len(q) \in Nat
    BY LenProperties DEF Path
  <1>2. Typed /\ OneBinding /\ OwnTemps
    BY DEF TreeInv, IInv, Disk
  <1>3. f[0] = Top /\ g[0] = Top
    BY <1>1, TrailStep
  <1>4. ASSUME NEW d \in DirNode, NEW n \in Name, NEW h \in DirNode, NEW m \in Name,
               ent[d][n] = ent[h][m], ent[d][n] \in DirNode
        PROVE  d = h /\ n = m
    <2>1. n \in ClientName /\ m \in ClientName
      BY <1>2, <1>4, TreeAssumption DEF OwnTemps, Name, TempName, FileNode, Node
    <2>2. <<d, n>> \in Bindings /\ <<h, m>> \in Bindings
      BY <2>1 DEF Bindings
    <2> DEFINE a == <<d, n>>  b == <<h, m>>
    <2>3. a \in Bindings /\ b \in Bindings /\ a[1] = d /\ a[2] = n /\ b[1] = h /\ b[2] = m
      BY <2>2
    <2> HIDE DEF a, b
    <2>4. a = b
      BY <1>2, <1>4, <2>3 DEF OneBinding, Node
    <2> QED
      BY <2>3, <2>4
  <1>10. ASSUME NEW k \in 1 .. Len(p), f[k] \in DirNode
         PROVE  f[k - 1] \in DirNode /\ p[k] \in Name /\ f[k] = ent[f[k - 1]][p[k]]
    <2>1. k \in 0 .. Len(p) /\ k \in 1 .. k
      BY <1>1
    <2> QED
      BY <1>10, <2>1, TrailEntries
  <1>11. ASSUME NEW k \in 1 .. Len(q), g[k] \in DirNode
         PROVE  g[k - 1] \in DirNode /\ q[k] \in Name /\ g[k] = ent[g[k - 1]][q[k]]
    <2>1. k \in 0 .. Len(q) /\ k \in 1 .. k
      BY <1>1
    <2> QED
      BY <1>11, <2>1, TrailEntries
  <1> DEFINE Same(k, j) == k = j /\ \A x \in 1 .. k : p[x] = q[x]
             T == {k \in Nat : k <= Len(p) =>
                     \A j \in 0 .. Len(q) : f[k] = g[j] /\ f[k] \in DirNode => Same(k, j)}
  <1>5. ASSUME NEW j \in 0 .. Len(q), NEW k \in 0 .. Len(p), f[k] = g[j], f[k] \in DirNode,
               k = 0 \/ j = 0
        PROVE  k = 0 /\ j = 0
    <2>1. f[k] = Top /\ g[j] = Top
      BY <1>3, <1>5
    <2>2. CASE k # 0
      <3>1. k \in 1 .. Len(p)
        BY <1>1, <2>2
      <3>2. f[k - 1] \in DirNode /\ p[k] \in Name /\ f[k] = ent[f[k - 1]][p[k]]
        BY <1>5, <1>10, <3>1
      <3> QED
        BY <2>1, <3>2 DEF TopFree
    <2>3. CASE j # 0
      <3>1. j \in 1 .. Len(q) /\ g[j] \in DirNode
        BY <1>1, <1>5, <2>3
      <3>2. g[j - 1] \in DirNode /\ q[j] \in Name /\ g[j] = ent[g[j - 1]][q[j]]
        BY <1>11, <3>1
      <3> QED
        BY <2>1, <3>2 DEF TopFree
    <2> QED
      BY <2>2, <2>3
  <1>6. 0 \in T
    BY <1>1, <1>5
  <1>7. ASSUME NEW k \in Nat, k \in T
        PROVE  k + 1 \in T
    <2> SUFFICES ASSUME k + 1 <= Len(p), NEW j \in 0 .. Len(q),
                        f[k + 1] = g[j], f[k + 1] \in DirNode
                 PROVE  Same(k + 1, j)
      OBVIOUS
    <2>1. k + 1 \in 0 .. Len(p) /\ k + 1 \in 1 .. Len(p) /\ (k + 1) - 1 = k /\ k + 1 # 0
      BY <1>1
    <2>2. j # 0
      BY <1>5, <2>1
    <2>3. j \in 1 .. Len(q) /\ j - 1 \in 0 .. Len(q) /\ g[j] \in DirNode
      BY <1>1, <2>2
    <2>4. f[k] \in DirNode /\ p[k + 1] \in Name /\ f[k + 1] = ent[f[k]][p[k + 1]]
      <3>1. /\ f[(k + 1) - 1] \in DirNode /\ p[k + 1] \in Name
            /\ f[k + 1] = ent[f[(k + 1) - 1]][p[k + 1]]
        BY <1>10, <2>1
      <3> QED
        BY <2>1, <3>1
    <2>5. g[j - 1] \in DirNode /\ q[j] \in Name /\ g[j] = ent[g[j - 1]][q[j]]
      BY <1>11, <2>3
    <2>6. f[k] = g[j - 1] /\ p[k + 1] = q[j]
      <3>1. ent[f[k]][p[k + 1]] = ent[g[j - 1]][q[j]] /\ ent[f[k]][p[k + 1]] \in DirNode
        BY <2>4, <2>5
      <3> QED
        BY <1>4, <2>4, <2>5, <3>1
    <2>7. Same(k, j - 1)
      BY <1>1, <1>7, <2>3, <2>4, <2>6
    <2>8. k + 1 = j
      BY <1>1, <2>3, <2>7
    <2>9. \A x \in 1 .. k + 1 : x \in 1 .. k \/ x = k + 1
      OBVIOUS
    <2> QED
      BY <2>6, <2>7, <2>8, <2>9
  <1>8. i \in Nat /\ i <= Len(p)
    BY <1>1
  <1>9. i \in T
    <2> HIDE DEF T
    <2> QED
      BY <1>6, <1>7, <1>8, SetInduction
  <1> QED
    BY <1>8, <1>9

\* A path whose last name is an entry on the way of another is its prefix.
LEMMA WayUnique ==
  ASSUME TreeInv, TopFree, NEW p \in Path, NEW f, Trail(ent, p, f),
         NEW i \in 1 .. Len(p), f[i - 1] \in DirNode,
         NEW q \in Path, Holder(q) = f[i - 1], Last(q) = p[i]
  PROVE  Len(q) = i /\ \A j \in 1 .. Len(q) : p[j] = q[j]
  <1>1. Len(p) \in Nat /\ Len(q) \in Nat /\ Len(q) >= 1
    BY EmptySeq, LenProperties DEF Path
  <1>2. PICK g : Trail(ent, q, g) /\ Holder(q) = g[Len(q) - 1]
    BY <1>1, HolderTrail
  <1>3. /\ i - 1 \in 0 .. Len(p) /\ Len(q) - 1 \in 0 .. Len(q)
        /\ f[i - 1] = g[Len(q) - 1]
    BY <1>1, <1>2
  <1>4. i - 1 = Len(q) - 1 /\ \A j \in 1 .. i - 1 : p[j] = q[j]
    BY <1>2, <1>3, TrailUnique
  <1>5. i = Len(q)
    BY <1>1, <1>4
  <1>6. p[i] = q[i]
    BY <1>5 DEF Last
  <1>7. \A j \in 1 .. Len(q) : j = i \/ j \in 1 .. i - 1
    BY <1>1, <1>5
  <1>8. \A j \in 1 .. Len(q) : p[j] = q[j]
    BY <1>4, <1>6, <1>7
  <1> QED
    BY <1>5, <1>8

\* Two paths to one entry are the same.
LEMMA SamePath ==
  ASSUME TreeInv, TopFree, NEW p \in Path, NEW q \in Path,
         Holder(p) \in DirNode, Holder(q) = Holder(p), Last(q) = Last(p)
  PROVE  q = p
  <1>1. Len(p) \in Nat /\ Len(p) >= 1
    BY EmptySeq, LenProperties DEF Path
  <1>2. PICK f : Trail(ent, p, f) /\ Holder(p) = f[Len(p) - 1]
    BY <1>1, HolderTrail
  <1> DEFINE i == Len(p)
  <1>3. i \in 1 .. Len(p) /\ f[i - 1] \in DirNode /\ Holder(q) = f[i - 1] /\ Last(q) = p[i]
    BY <1>1, <1>2 DEF Last
  <1> HIDE DEF i
  <1>4. Len(q) = i /\ \A j \in 1 .. Len(q) : p[j] = q[j]
    BY <1>2, <1>3, WayUnique
  <1>5. p \in Seq(Name) /\ q \in Seq(Name) /\ Len(q) = Len(p)
    BY <1>4 DEF Path, i
  <1> QED
    BY <1>4, <1>5, SeqEqual

\* The share's parent stays without a name.
LEMMA NextTop ==
  ASSUME TreeInv, TopFree, [Next]_vars
  PROVE  TopFree'
  <1>1. Typed /\ Disk /\ OneBinding
    BY DEF TreeInv, IInv
  <1>2. Top \notin FileNode /\ Top # None /\ Top \in DirNode
    BY TreeAssumption DEF DirNode, Node
  <1>3. CASE UNCHANGED ent
    BY <1>3 DEF TopFree
  <1>4. ASSUME NEW c \in Conn, MakesDirectory(c)
        PROVE  TopFree'
    <2>1. PICK d \in DirNode, n \in ClientName, i \in 1 .. MaxDepth :
            \A e \in DirNode, m \in Name :
              ent'[e][m] = IF e = d /\ m = n THEN <<c, i>> ELSE ent[e][m]
      BY <1>1, <1>4, MadeEntries
    <2> DEFINE y == <<c, i>>
    <2>2. y # Top
      BY FreshAssumption
    <2>3. \A e \in DirNode, m \in Name : ent'[e][m] \in {y, ent[e][m]}
      BY <2>1
    <2> HIDE DEF y
    <2> QED
      BY <2>2, <2>3 DEF TopFree
  <1>5. ASSUME NEW c \in Conn, MakesTemp(c)
        PROVE  TopFree'
    <2>1. c # Top
      BY <1>2 DEF FileNode
    <2>2. \A e \in DirNode, m \in Name : ent'[e][m] \in {c, ent[e][m]}
      BY <1>1, <1>5, TempEntries
    <2> QED
      BY <2>1, <2>2 DEF TopFree
  <1>6. ASSUME NEW c \in Conn, Puts(c)
        PROVE  TopFree'
    <2>1. c # Top
      BY <1>2 DEF FileNode
    <2>2. \A e \in DirNode, m \in Name : ent'[e][m] \in {c, None, ent[e][m]}
      BY <1>1, <1>6, PutEntries
    <2> QED
      BY <1>2, <2>1, <2>2 DEF TopFree
  <1>7. ASSUME NEW c \in Conn, Renames(c)
        PROVE  TopFree'
    <2>1. PICK d \in DirNode, n \in ClientName :
            \A e \in DirNode, m \in Name : ent'[e][m] \in {ent[d][n], None, ent[e][m]}
      BY <1>1, <1>7, RenameEntries
    <2> QED
      BY <1>2, <2>1 DEF TopFree, Name
  <1>8. ASSUME NEW c \in Conn, Removes(c)
        PROVE  TopFree'
    <2>1. PICK p \in Path : Takes(c, p)
      BY <1>8 DEF Removes
    <2>2. \A e \in DirNode, m \in Name : ent'[e][m] \in {None, ent[e][m]}
      BY <1>1, <2>1, TakenEntry
    <2> QED
      BY <1>2, <2>2 DEF TopFree
  <1> QED
    BY <1>1, <1>3, <1>4, <1>5, <1>6, <1>7, <1>8, StepKinds DEF Changes, WritesOwn

\* The directories a step leaves where they are: those that hold something,
\* except the one that a MOVE takes from its source.
LEMMA FullStays ==
  ASSUME TreeInv, [Next]_vars,
         NEW d \in DirNode, NEW n \in Name, ent[d][n] \in DirNode, ~IsEmpty(ent[d][n])
  PROVE  \/ ent'[d][n] = ent[d][n]
         \/ \E x \in Conn : Renames(x) /\ d = Holder(req[x].path) /\ n = Last(req[x].path)
  <1>1. Typed /\ Disk /\ OneBinding
    BY DEF TreeInv, IInv
  <1>2. ent[d][n] # None /\ ent[d][n] \notin FileNode /\ Conn \subseteq FileNode
    BY TreeAssumption DEF Node, FileNode
  <1>3. CASE UNCHANGED ent
    BY <1>3
  <1>4. ASSUME NEW c \in Conn, MakesDirectory(c)
        PROVE  ent'[d][n] = ent[d][n]
    <2>1. \E e \in DirNode, m \in ClientName, i \in 1 .. MaxDepth :
            /\ i = loc[c].k + 1 /\ loc'[c].k = i
            /\ ent[e][m] = None /\ <<c, i>> \in DirNode /\ (\E p \in Path : e = Holder(p))
            /\ \A a \in DirNode, b \in Name :
                 ent'[a][b] = IF a = e /\ b = m THEN <<c, i>> ELSE ent[a][b]
      BY <1>1, <1>4, MadeEntries
    <2> QED
      BY <1>2, <2>1
  <1>5. ASSUME NEW c \in Conn, MakesTemp(c)
        PROVE  ent'[d][n] = ent[d][n]
    BY <1>1, <1>2, <1>5, TempEntries
  <1>6. ASSUME NEW c \in Conn, Puts(c)
        PROVE  ent'[d][n] = ent[d][n]
    <2>1. PICK e \in DirNode, m \in ClientName :
            /\ ent[e][m] \in FileNode \cup {None}
            /\ \A a \in DirNode, b \in Name :
                 \/ a = e /\ b = m /\ ent'[a][b] = c
                 \/ ent[a][b] = c /\ ent'[a][b] = None
                 \/ ent'[a][b] = ent[a][b]
      BY <1>1, <1>6, PutEntries
    <2> QED
      BY <1>2, <2>1
  <1>7. ASSUME NEW c \in Conn, Renames(c)
        PROVE  \/ ent'[d][n] = ent[d][n]
               \/ d = Holder(req[c].path) /\ n = Last(req[c].path)
    <2>1. PICK e \in DirNode, h \in DirNode, m \in ClientName, k \in ClientName :
            /\ e = Holder(req[c].path) /\ m = Last(req[c].path)
            /\ ent[h][k] \in Node \cup {None}
            /\ \/ ent' = ent
               \/ /\ ent[e][m] \in DirNode => ent[h][k] \notin FileNode
                  /\ ent[e][m] \in FileNode => ent[h][k] \notin DirNode
                  /\ ent[h][k] \in DirNode => IsEmpty(ent[h][k])
                  /\ \A a \in DirNode, b \in Name :
                       ent'[a][b] = IF a = h /\ b = k THEN ent[e][m]
                                    ELSE IF a = e /\ b = m THEN None ELSE ent[a][b]
      BY <1>1, <1>7, RenameEntries
    <2> QED
      BY <2>1
  <1>8. ASSUME NEW c \in Conn, Removes(c)
        PROVE  ent'[d][n] = ent[d][n]
    <2>1. PICK p \in Path : Takes(c, p)
      BY <1>8 DEF Removes
    <2>2. PICK e \in DirNode, m \in Name :
            /\ ent[e][m] \in DirNode => IsEmpty(ent[e][m])
            /\ \A a \in DirNode, b \in Name :
                 ent'[a][b] = IF a = e /\ b = m THEN None ELSE ent[a][b]
      BY <1>1, <2>1, TakenEntry
    <2> QED
      BY <2>2
  <1> QED
    BY <1>1, <1>3, <1>4, <1>5, <1>6, <1>7, <1>8, StepKinds DEF Changes, WritesOwn

\* A path whose holder has something in it keeps its holder, unless a MOVE
\* takes away a directory on the way.
LEMMA HolderKept ==
  ASSUME TreeInv, TopFree, [Next]_vars,
         NEW p \in Path, Holder(p) \in DirNode, ~IsEmpty(Holder(p))
  PROVE  \/ Holder(p)' = Holder(p)
         \/ \E x \in Conn : /\ Renames(x) /\ Len(req[x].path) <= Len(p) - 1
                            /\ \A j \in 1 .. Len(req[x].path) : p[j] = req[x].path[j]
  <1>1. Len(p) \in Nat /\ Len(p) >= 1
    BY EmptySeq, LenProperties DEF Path
  <1>2. PICK f : Trail(ent, p, f) /\ Holder(p) = f[Len(p) - 1]
    BY <1>1, HolderTrail
  <1> DEFINE k == Len(p) - 1
  <1>3. k \in 0 .. Len(p) /\ k \in Nat /\ f[k] \in DirNode /\ ~IsEmpty(f[k])
    BY <1>1, <1>2
  <1> HIDE DEF k
  <1>4. ASSUME NEW i \in 1 .. k
        PROVE  /\ f[i - 1] \in DirNode /\ p[i] \in Name /\ ent[f[i - 1]][p[i]] \in DirNode
               /\ f[i] \in DirNode /\ f[i] = ent[f[i - 1]][p[i]]
    BY <1>2, <1>3, TrailEntries
  <1>5. ASSUME NEW i \in 1 .. k
        PROVE  ~IsEmpty(ent[f[i - 1]][p[i]])
    <2>1. CASE i = k
      BY <1>3, <1>4, <2>1
    <2>2. CASE i < k
      <3>1. i + 1 \in 1 .. k /\ (i + 1) - 1 = i
        BY <1>3, <2>2
      <3>2. p[i + 1] \in Name /\ ent[f[i]][p[i + 1]] \in DirNode
        BY <1>4, <3>1
      <3>3. None \notin DirNode
        BY TreeAssumption DEF Node
      <3> QED
        BY <1>4, <3>2, <3>3 DEF IsEmpty
    <2> QED
      BY <1>3, <2>1, <2>2
  <1>6. CASE \A i \in 1 .. k : ent'[f[i - 1]][p[i]] = ent[f[i - 1]][p[i]]
    BY <1>2, <1>3, <1>6, TrailKept DEF k
  <1>7. ASSUME NEW i \in 1 .. k, ent'[f[i - 1]][p[i]] # ent[f[i - 1]][p[i]]
        PROVE  \E x \in Conn : /\ Renames(x) /\ Len(req[x].path) <= k
                               /\ \A j \in 1 .. Len(req[x].path) : p[j] = req[x].path[j]
    <2>1. PICK x \in Conn : Renames(x) /\ f[i - 1] = Holder(req[x].path) /\ p[i] = Last(req[x].path)
      BY <1>4, <1>5, <1>7, FullStays
    <2>2. PICK q \in Path : q = req[x].path
      BY <2>1 DEF Renames
    <2>3. i \in 1 .. Len(p) /\ f[i - 1] \in DirNode /\ i <= k
      BY <1>1, <1>3, <1>4
    <2>4. Len(q) = i /\ \A j \in 1 .. Len(q) : p[j] = q[j]
      BY <1>2, <2>1, <2>2, <2>3, WayUnique
    <2> QED
      BY <2>1, <2>2, <2>3, <2>4
  <1> QED
    BY <1>6, <1>7 DEF k

\* Only a child that is asked for a connection's request leaves idle, and none comes back.
LEMMA NextWaiting ==
  ASSUME Typed, Waiting, [Next]_vars
  PROVE  /\ Waiting'
         /\ \A c \in Conn : pc[c] # "idle" => pc'[c] # "idle"
  <1>1. ASSUME NEW c \in Conn, pc[c] # "idle"
        PROVE  pc'[c] # "idle"
    <2>1. ASSUME NEW x \in Conn, x # c, HandleRequest(x) \/ Serve(x) \/ Kill(x)
          PROVE  pc'[c] = pc[c]
      BY <2>1, MovesOnly
    <2>2. ~HandleRequest(c)
      BY <1>1 DEF HandleRequest
    <2>3. Kill(c) => pc'[c] # "idle"
      BY DEF Kill, Typed, TypeOK
    <2>4. Serve(c) => pc'[c] # "idle"
      BY ServeTurns DEF Turns
    <2> QED
      BY <1>1, <2>1, <2>2, <2>3, <2>4 DEF Next, Tick, vars
  <1>2. ASSUME NEW c \in Conn, pc[c] = "idle", pc'[c] = "idle"
        PROVE  req'[c] = None
    <2>1. ASSUME NEW x \in Conn, HandleRequest(x)
          PROVE  req'[c] = req[c]
      <3>1. x # c
        <4>1. Goes(x, "stat") \/ Refuses(x, "done")
          BY <2>1, HelperTurns DEF HandleRequest
        <4> QED
          BY <1>2, <4>1 DEF Goes, Refuses
      <3> QED
        BY <2>1, <3>1 DEF HandleRequest, Typed, TypeOK
    <2>2. ASSUME NEW x \in Conn, Serve(x) \/ Kill(x)
          PROVE  UNCHANGED req
      BY <2>2, ServeRequest DEF Kill
    <2> QED
      BY <1>2, <2>1, <2>2 DEF Next, Tick, vars, Waiting
  <1> QED
    BY <1>1, <1>2 DEF Waiting

\* A directory that has been moved away has been.
LEMMA MovedStays ==
  ASSUME Typed, Waiting, [Next]_vars, NEW c \in Conn, pc[c] # "idle", MovedAway(c)
  PROVE  MovedAway(c)'
  <1>1. PICK x \in Conn : /\ req[x] # None /\ req[x].op = "MOVE"
                          /\ IsPrefix(req[x].path, Front(Target(req[c])))
    BY DEF MovedAway
  <1>2. pc[x] # "idle"
    BY <1>1 DEF Waiting
  <1>3. req'[x] = req[x] /\ req'[c] = req[c]
    BY <1>2, RequestStays
  <1> QED
    BY <1>1, <1>3 DEF MovedAway, Target, IsPrefix

\* The dead stay dead.
LEMMA DeadStay ==
  ASSUME Typed, [Next]_vars, NEW c \in Conn, pc[c] = "dead"
  PROVE  pc'[c] = "dead"
  <1>1. ~HandleRequest(c) /\ ~Kill(c)
    BY DEF HandleRequest, Kill
  <1>2. ~Serve(c)
    BY DEF Serve, DispatchGet, OpenFile, SendByte, EndSend, OpenList, ListEntry, EndList,
         DispatchPut, Mkdir, OpenTemp, Fill, Sync, PublishByRename, PublishByLink, DropTemp,
         Cleanup, FsyncDir, StatSource, DispatchDest, OpenSource, Rename, DispatchDelete,
         RmLstat, RmOpen, RmRead, RmRemove, At
  <1> QED
    BY <1>1, <1>2, MovesOnly DEF Next, Tick, vars

\* A MOVE of a prefix of a child's temporary path is one that moves it away.
LEMMA PrefixMoved ==
  ASSUME Typed, NEW c \in Conn, pc[c] \in Uploading, NEW p \in Path, p = TempPath(c),
         NEW x \in Conn, Renames(x), Len(req[x].path) <= Len(p) - 1,
         \A j \in 1 .. Len(req[x].path) : p[j] = req[x].path[j]
  PROVE  MovedAway(c)
  <1> DEFINE t == Front(Target(req[c]))
             q == req[x].path
  <1>1. req[x] \in Requests /\ req[x].op = "MOVE" /\ q \in Path
    BY DEF Renames
  <1>2. req[x] # None
    BY <1>1, RequestAssumption
  <1>3. t \in Seq(Name)
    <2>1. Target(req[c]) \in Path
      BY UploadFacts
    <2> QED
      BY <2>1, FrontIn DEF Path
  <1>4. p = Append(t, Temp[c])
    BY DEF TempPath
  <1>5. q \in Seq(Name) /\ \A j \in 1 .. Len(q) : p[j] = q[j]
    BY <1>1 DEF Path
  <1> HIDE DEF t, q
  <1>6. Temp[c] \in Name
    BY DEF Name, TempName
  <1>7. Len(t) \in Nat /\ Len(q) \in Nat
    BY <1>3, <1>5, LenProperties
  <1>8. Len(p) = Len(t) + 1 /\ \A j \in 1 .. Len(t) : p[j] = t[j]
    BY <1>3, <1>4, <1>6, AppendProperties
  <1>9. Len(q) <= Len(t)
    BY <1>7, <1>8 DEF q
  <1>10. \A j \in 1 .. Len(q) : t[j] = q[j]
    <2>1. \A j \in 1 .. Len(q) : j \in 1 .. Len(t)
      BY <1>7, <1>9
    <2> QED
      BY <1>5, <1>8, <2>1
  <1>11. SubSeq(q, 1, Len(q)) = SubSeq(t, 1, Len(q))
    <2>1. SubSeq(q, 1, Len(q)) = [j \in 1 .. Len(q) |-> q[j]]
      BY <1>5, <1>7
    <2>2. SubSeq(t, 1, Len(q)) = [j \in 1 .. Len(q) |-> t[j]]
      BY <1>3, <1>7, <1>9
    <2> QED
      BY <1>10, <2>1, <2>2
  <1>12. IsPrefix(q, t)
    BY <1>9, <1>11 DEF IsPrefix
  <1> QED
    BY <1>1, <1>2, <1>12 DEF MovedAway, t, q

\* While its temporary name stays, a child goes on holding it.
LEMMA HoldingStays ==
  ASSUME Typed, Disk, NEW c \in Conn, Serve(c), pc[c] \in Holding,
         NEW d \in DirNode, ent[d][Temp[c]] = c, ent'[d][Temp[c]] = c,
         NEW p \in Path, p = TempPath(c), Holder(p) = d
  PROVE  pc'[c] \in Holding
  <1>1. pc \in [Conn -> Phase] /\ TreeTypeOK
    BY DEF Typed, TypeOK
  <1>2. /\ Last(p) = Temp[c] /\ Target(req[c]) \in Path /\ Last(Target(req[c])) \in ClientName
        /\ Temp[c] \notin ClientName
    BY UploadFacts, TreeAssumption DEF Holding, Uploading, TempName
  <1>3. c \in FileNode /\ c \notin DirNode /\ c # None /\ c \in Node
    BY TreeAssumption DEF FileNode, Node
  <1>4. Walk(p) = c /\ Present(p)
    BY <1>2, <1>3 DEF Walk, Entry, Path, Present
  <1>5. ASSUME UnlinkTemp(c)
        PROVE  FALSE
    <2>1. UnlinkErr(p) = OK
      BY <1>3, <1>4 DEF UnlinkErr, OK
    <2>2. Bind(p, None)
      BY <1>5, <2>1 DEF UnlinkTemp, Unbind
    <2>3. Temp[c] \in Name
      BY DEF Name, TempName
    <2>4. ent'[d][Temp[c]] = None
      BY <1>1, <1>2, <2>2, <2>3, BindEffect
    <2> QED
      BY <1>3, <2>4
  <1>6. ASSUME RenameErr(p, Target(req[c])) = OK, Rebind(p, Target(req[c]))
        PROVE  FALSE
    <2>1. Temp[c] \in Name
      BY DEF Name, TempName
    <2>2. ent'[d][Temp[c]] = None
      BY <1>1, <1>2, <1>6, <2>1, RebindEffect
    <2> QED
      BY <1>3, <2>2
  <1>7. \A e, l : WriteFail(c, e, l) => pc'[c] = l
    BY HelperTurns DEF Refuses
  <1>8. CASE Fill(c) \/ Sync(c)
    BY <1>1, <1>7, <1>8 DEF Fill, Sync, Goto, Holding
  <1>9. CASE PublishByRename(c)
    BY <1>6, <1>7, <1>9 DEF PublishByRename, Holding
  <1>10. CASE PublishByLink(c)
    BY <1>1, <1>7, <1>10 DEF PublishByLink, Goto, Holding
  <1>11. CASE DropTemp(c) \/ Cleanup(c)
    BY <1>5, <1>11 DEF DropTemp, Cleanup
  <1> QED
    BY <1>8, <1>9, <1>10, <1>11
       DEF Holding, Serve, DispatchGet, OpenFile, SendByte, EndSend, OpenList, ListEntry, EndList,
           DispatchPut, Mkdir, OpenTemp, FsyncDir, StatSource, DispatchDest, OpenSource, Rename,
           DispatchDelete, RmLstat, RmOpen, RmRead, RmRemove, At

\* A temporary name appears where its child has just made it.
LEMMA NewTemp ==
  ASSUME TreeInv, [Next]_vars, NEW c \in Conn, NEW d \in DirNode,
         ent'[d][Temp[c]] = c, ent[d][Temp[c]] # c
  PROVE  /\ MakesTemp(c)
         /\ \A p \in Path : p = TempPath(c) => Holder(p) = d
  <1>1. Typed /\ Disk /\ OneBinding
    BY DEF TreeInv, IInv
  <1>2. /\ Temp[c] \in Name /\ Temp[c] \notin ClientName
        /\ c \in FileNode /\ c \notin DirNode /\ c # None
    BY TreeAssumption DEF FileNode, Node, TempName, Name
  <1>3. PICK x \in Conn : Changes(x)
    BY <1>1, StepKinds
  <1>4. ~MakesDirectory(x)
    BY <1>1, <1>2, MadeEntries
  <1>5. ~WritesOwn(x) /\ ~Puts(x)
    BY <1>1, <1>2, PutEntries DEF WritesOwn
  <1>6. ~Renames(x)
    BY <1>1, <1>2, RenameEntries
  <1>7. ~Removes(x)
    BY <1>1, <1>2, TakenEntry DEF Removes
  <1>8. MakesTemp(x)
    BY <1>3, <1>4, <1>5, <1>6, <1>7 DEF Changes
  <1>9. x = c
    BY <1>1, <1>2, <1>8, TempEntries
  <1>10. ASSUME NEW p \in Path, p = TempPath(c)
         PROVE  Holder(p) = d
    <2>1. Last(p) = Temp[c] /\ CreateErr(p) = OK /\ Bind(p, c)
      BY <1>8, <1>9, <1>10 DEF MakesTemp
    <2>2. Holder(p) \in DirNode /\ c \in Node
      BY <1>2, <2>1, CreateFree DEF Node
    <2>3. ent'[d][Temp[c]] = IF d = Holder(p) /\ Temp[c] = Last(p) THEN c ELSE ent[d][Temp[c]]
      BY <1>1, <1>2, <2>1, <2>2, BindEffect, TypedControl
    <2> QED
      BY <2>3
  <1> QED
    BY <1>8, <1>9, <1>10

\* Every step leaves temporary names where their children will look for them.
LEMMA NextLitter ==
  ASSUME DistinctTemps, TidyInv, [Next]_vars
  PROVE  Litter'
  <1>1. Typed /\ Disk /\ TreeInv /\ TopFree /\ Waiting /\ Litter
    BY DEF TidyInv, TreeInv, IInv
  <1> SUFFICES ASSUME NEW c \in Conn, NEW d \in DirNode, ent'[d][Temp[c]] = c, pc'[c] # "dead"
               PROVE  pc'[c] # "idle" /\ (MovedAway(c)' \/ Tracked(c, d)')
    BY DEF Litter
  <1>2. /\ Temp[c] \in Name /\ c \in FileNode /\ c \notin DirNode /\ c # None
    BY TreeAssumption DEF FileNode, Node, TempName, Name
  <1>3. CASE ent[d][Temp[c]] # c
    <2>1. MakesTemp(c) /\ \A p \in Path : p = TempPath(c) => Holder(p) = d
      BY <1>1, <1>3, NewTemp
    <2>2. pc[c] = "opentmp" /\ pc'[c] = "fill"
      BY <2>1 DEF MakesTemp
    <2>3. req'[c] = req[c]
      BY <1>1, <2>2, RequestStays
    <2>4. PICK e \in DirNode :
            /\ ent[e][Temp[c]] = None
            /\ \A a \in DirNode, m \in Name :
                 ent'[a][m] = IF a = e /\ m = Temp[c] THEN c ELSE ent[a][m]
      BY <1>1, <2>1, TempEntries
    <2>5. \A a \in DirNode, m \in Name : ent[a][m] \in DirNode => ent'[a][m] = ent[a][m]
      BY <2>4, TreeAssumption DEF Node
    <2>6. ASSUME NEW p \in Path, p = TempPath(c)'
          PROVE  Holder(p)' = d
      <3>1. p = TempPath(c)
        BY <2>3, <2>6 DEF TempPath, Target
      <3>2. Holder(p) = d
        BY <2>1, <3>1
      <3>3. Holder(p)' = Holder(p)
        BY <2>5, <3>2, HolderStays
      <3> QED
        BY <3>2, <3>3
    <2> QED
      BY <2>2, <2>6 DEF Tracked, Holding
  <1>4. CASE ent[d][Temp[c]] = c
    <2>1. pc[c] # "dead"
      BY <1>1, DeadStay
    <2>2. pc[c] # "idle" /\ (MovedAway(c) \/ Tracked(c, d))
      BY <1>1, <1>4, <2>1 DEF Litter
    <2>3. pc'[c] # "idle" /\ req'[c] = req[c]
      BY <1>1, <2>2, NextWaiting, RequestStays
    <2>4. CASE MovedAway(c)
      BY <1>1, <2>2, <2>3, <2>4, MovedStays
    <2>5. CASE Tracked(c, d) /\ ~MovedAway(c)
      <3>1. pc[c] \in Holding /\ pc[c] \in Uploading
        BY <2>5 DEF Tracked, Holding, Uploading
      <3>2. PICK p \in Path : p = TempPath(c)
        BY <1>1, <3>1, UploadFacts
      <3>3. Holder(p) = d
        BY <2>5, <3>2 DEF Tracked
      <3>4. ~IsEmpty(d)
        BY <1>2, <1>4 DEF IsEmpty
      <3>5. Holder(p)' = d
        BY <1>1, <2>5, <3>1, <3>2, <3>3, <3>4, HolderKept, PrefixMoved
      <3>6. pc'[c] \in Holding
        <4>1. ASSUME NEW x \in Conn, x # c, HandleRequest(x) \/ Serve(x) \/ Kill(x)
              PROVE  pc'[c] = pc[c]
          BY <1>1, <4>1, MovesOnly
        <4>2. ~HandleRequest(c)
          BY <2>2 DEF HandleRequest
        <4>3. ~Kill(c)
          BY <1>1 DEF Kill, Typed, TypeOK
        <4>4. Serve(c) => pc'[c] \in Holding
          BY <1>1, <1>4, <3>1, <3>2, <3>3, HoldingStays
        <4> QED
          BY <3>1, <4>1, <4>2, <4>3, <4>4 DEF Next, Tick, vars
      <3>7. TempPath(c)' = p
        BY <2>3, <3>2 DEF TempPath, Target
      <3> QED
        BY <2>3, <3>5, <3>6, <3>7 DEF Tracked
    <2> QED
      BY <2>2, <2>4, <2>5
  <1> QED
    BY <1>3, <1>4

\* There are none at the start.
LEMMA InitTidy ==
  ASSUME Init, TreeInv
  PROVE  TidyInv
  <1>1. \A d \in DirNode, n \in Name : ent[d][n] \in SeedFile \cup SeedDir \cup {None}
    BY InitAssumption DEF Init
  <1>2. Top \notin SeedFile \cup SeedDir \cup {None}
    BY FreshAssumption, TreeAssumption DEF FileNode, DirNode, Node
  <1>3. TopFree
    BY <1>1, <1>2 DEF TopFree
  <1>4. Waiting
    BY DEF Init, Waiting
  <1>5. ASSUME NEW c \in Conn, NEW d \in DirNode
        PROVE  ent[d][Temp[c]] # c
    <2>1. Temp[c] \in TempName
      BY DEF TempName
    <2>2. ent[d][Temp[c]] = None
      BY <2>1, InitAssumption DEF Init
    <2> QED
      BY <2>2, TreeAssumption DEF Node, FileNode
  <1>6. Litter
    BY <1>5 DEF Litter
  <1> QED
    BY <1>3, <1>4, <1>6 DEF TidyInv

\* A request that ran to its reply leaves no temporary name behind, whatever
\* fails, unless a MOVE has taken the directory away: the unlink of
\* fsapi_write_stream and fsapi_copy still finds the name the open made.
THEOREM NothingLitters ==
  ASSUME DistinctTemps
  PROVE  Spec => []NoLitter
  <1>1. ASSUME TidyInv, [Next]_vars
        PROVE  TidyInv'
    <2>1. TreeInv /\ TopFree /\ Waiting /\ Typed
      BY <1>1 DEF TidyInv, TreeInv, IInv
    <2> QED
      BY <1>1, <2>1, NextTree, NextTop, NextWaiting, NextLitter DEF TidyInv
  <1>2. ASSUME TidyInv
        PROVE  NoLitter
    BY <1>2 DEF TidyInv, Litter, Tracked, Holding, NoLitter
  <1>3. Init /\ TreeInv => TidyInv
    BY InitTidy
  <1>4. TidyInv /\ [Next]_vars => TidyInv'
    BY <1>1
  <1>5. TidyInv => NoLitter
    BY <1>2
  <1> QED
    BY <1>3, <1>4, <1>5, TreeAlways, PTL DEF Spec

-----------------------------------------------------------------------------
(***************************************************************************)
(* A power failure shows nobody a torn file.                               *)
(***************************************************************************)
\* what the disk holds under the clients' names: no file but one that is whole
\* and that no child has yet to publish
DiskIsWhole ==
  \A b \in Bindings : durable[b[1]][b[2]] \in FileNode =>
    /\ Whole(durable[b[1]][b[2]])
    /\ \A c \in Conn : pc[c] \in Unpublished => durable[b[1]][b[2]] # c
DiskTyped == durable \in [DirNode -> [Name -> Node \cup {None}]]
DiskTemps == \A d \in DirNode, c \in Conn : durable[d][Temp[c]] \in {None, c}

PowerInv == IInv /\ DiskTyped /\ DiskTemps /\ DiskIsWhole

Forward == \A x \in Conn : pc'[x] \in Unpublished => pc[x] \in Unpublished

\* No child goes back to before its publication.
LEMMA NextForward ==
  ASSUME Typed, [Next]_vars
  PROVE  Forward
  <1>1. Calm => Forward
    BY DEF Calm, KeepsWriters, Forward
  <1>2. ASSUME NEW c \in Conn, NEW l, pc[c] \in Unpublished, Moves(c, l)
        PROVE  Forward
    BY <1>2 DEF Moves, Forward, Typed, TypeOK
  <1>3. ASSUME NEW c \in Conn, Serve(c)
        PROVE  Forward
    <2>1. CASE OpenFile(c) \/ OpenSource(c)
      BY <1>1, <2>1, OpenFileTyped, OpenSourceTyped DEF KeepsWriters, Forward
    <2>2. CASE OpenTemp(c)
      <3>1. pc[c] \in Unpublished
        BY <2>2 DEF OpenTemp, Unpublished
      <3> QED
        BY <1>1, <1>2, <2>2, <3>1, OpenTempTyped
    <2>3. CASE Fill(c)
      BY <1>1, <2>3, FillTyped DEF Forward
    <2>4. CASE Sync(c)
      <3>1. pc[c] \in Unpublished
        BY <2>4 DEF Sync, Unpublished
      <3> QED
        BY <1>1, <1>2, <2>4, <3>1, SyncTyped
    <2>5. CASE PublishByRename(c) \/ PublishByLink(c)
      <3>1. pc[c] \in Unpublished
        BY <2>5 DEF PublishByRename, PublishByLink, Unpublished
      <3> QED
        BY <1>1, <1>2, <2>5, <3>1, PublishTyped
    <2>6. CASE ListEntry(c)
      BY <2>6, ListEntryTyped DEF Forward
    <2>7. CASE \/ DispatchGet(c) \/ SendByte(c) \/ EndSend(c) \/ OpenList(c) \/ EndList(c)
               \/ DispatchPut(c) \/ Mkdir(c) \/ DropTemp(c) \/ Cleanup(c) \/ FsyncDir(c)
               \/ StatSource(c) \/ DispatchDest(c) \/ Rename(c)
               \/ DispatchDelete(c) \/ RmLstat(c) \/ RmOpen(c) \/ RmRead(c) \/ RmRemove(c)
      BY <1>1, <2>7, DispatchGetTyped, SendTyped, OpenListTyped, EndListTyped,
         DispatchPutTyped, MkdirTyped, UnlinkTempTyped, FsyncDirTyped, StatSourceTyped,
         DispatchDestTyped, RenameTyped, DispatchDeleteTyped, RmLstatTyped, RmOpenTyped,
         RmReadTyped, RmRemoveTyped
    <2> QED
      BY <1>3, <2>1, <2>2, <2>3, <2>4, <2>5, <2>6, <2>7 DEF Serve
  <1>4. ASSUME NEW c \in Conn, HandleRequest(c) \/ Kill(c)
        PROVE  Forward
    BY <1>1, <1>4, HandleRequestTyped, KillTyped
  <1>5. CASE Tick \/ UNCHANGED vars
    BY <1>5 DEF Tick, vars, Forward
  <1> QED
    BY <1>3, <1>4, <1>5 DEF Next

\* A file changes only while its child has yet to publish it.
LEMMA OwnChanges ==
  ASSUME Typed, [Next]_vars, NEW x \in FileNode, file'[x] # file[x]
  PROVE  x \in Conn /\ pc[x] \in Unpublished
  <1>1. PICK c \in Conn : Changes(c)
    BY StepKinds
  <1>2. x = c /\ pc[c] \in {"opentmp", "fill"}
    BY <1>1 DEF Changes, MakesDirectory, MakesTemp, WritesOwn, Puts, Renames, Removes, Takes
  <1> QED
    BY <1>2 DEF Unpublished

\* The daemon's steps, and what they flush, keep the invariant.
LEMMA ServingPower ==
  ASSUME DistinctTemps, PowerInv, [Next]_vars,
         \A d \in DirNode : durable'[d] \in {durable[d], ent[d]}, DOMAIN durable' = DirNode,
         durable' = [d \in DOMAIN durable' |-> durable'[d]]
  PROVE  PowerInv'
  <1>1. IInv' /\ Typed /\ Disk
    BY NextInv DEF PowerInv, IInv
  <1>2. ent \in [DirNode -> [Name -> Node \cup {None}]]
    BY <1>1, TypedControl DEF TreeTypeOK
  <1>3. DiskTyped'
    <2>1. \A d \in DirNode : durable'[d] \in [Name -> Node \cup {None}]
      BY <1>2 DEF PowerInv, DiskTyped
    <2> QED
      BY <2>1 DEF DiskTyped
  <1>4. DiskTemps'
    <2>1. \A c \in Conn : Temp[c] \in Name
      BY DEF Name, TempName
    <2> QED
      BY <1>1 DEF PowerInv, DiskTemps, Disk, OwnTemps
  <1>5. DiskIsWhole'
    <2>1. SUFFICES ASSUME NEW b \in Bindings, durable'[b[1]][b[2]] \in FileNode
                   PROVE  /\ Whole(durable[b[1]][b[2]])'
                          /\ \A c \in Conn : pc'[c] \in Unpublished => durable'[b[1]][b[2]] # c
      BY DEF DiskIsWhole
    <2> DEFINE x == durable'[b[1]][b[2]]
    <2>2. x \in FileNode /\ (x = durable[b[1]][b[2]] \/ x = ent[b[1]][b[2]])
      BY <2>1 DEF Bindings
    <2>3. Whole(x) /\ \A c \in Conn : pc[c] \in Unpublished => x # c
      <3>1. CASE x = durable[b[1]][b[2]]
        BY <2>2, <3>1 DEF PowerInv, DiskIsWhole
      <3>2. CASE x = ent[b[1]][b[2]]
        BY <1>1, <2>2, <3>2 DEF Disk, PublishedWhole, Hidden, Named
      <3> QED
        BY <2>2, <3>1, <3>2
    <2> HIDE DEF x
    <2>4. file'[x] = file[x]
      BY <1>1, <2>2, <2>3, OwnChanges
    <2>5. file'[x].size = file'[x].total /\ file'[x].synced
      BY <2>3, <2>4 DEF Whole
    <2>6. \A c \in Conn : pc'[c] \in Unpublished => x # c
      BY <1>1, <2>3, NextForward DEF Forward
    <2> QED
      BY <2>5, <2>6 DEF Whole, x
  <1> QED
    BY <1>1, <1>3, <1>4, <1>5 DEF PowerInv

\* So does the kernel, one entry at a time.
LEMMA WriteBackPower ==
  ASSUME PowerInv, WriteBack
  PROVE  PowerInv'
  <1>1. PICK d \in DirNode, n \in Name : durable' = [durable EXCEPT ![d][n] = ent[d][n]]
    BY DEF WriteBack
  <1>2. UNCHANGED vars /\ Typed /\ Disk
    BY DEF WriteBack, PowerInv, IInv
  <1>3. ent \in [DirNode -> [Name -> Node \cup {None}]]
    BY <1>2, TypedControl DEF TreeTypeOK
  <1>4. IInv'
    <2>1. Typed'
      BY <1>2, SameTree DEF vars, Typed, TypeOK, Stage, TreeTypeOK
    <2>2. Disk'
      BY <1>2 DEF vars, Disk, OwnTemps, Hidden, Named, Opened, Listed, Filling, Whole,
                  PublishedWhole, ReadersSeeWhole
    <2> QED
      BY <2>1, <2>2 DEF IInv
  <1>5. DiskTyped'
    BY <1>1, <1>3 DEF PowerInv, DiskTyped
  <1>6. \A e \in DirNode, m \in Name : durable'[e][m] \in {durable[e][m], ent[e][m]}
    BY <1>1 DEF PowerInv, DiskTyped
  <1>7. DiskTemps'
    <2>1. \A c \in Conn : Temp[c] \in Name
      BY DEF Name, TempName
    <2> QED
      BY <1>2, <1>6, <2>1 DEF PowerInv, DiskTemps, Disk, OwnTemps
  <1>8. DiskIsWhole'
    <2>1. SUFFICES ASSUME NEW b \in Bindings, durable'[b[1]][b[2]] \in FileNode
                   PROVE  /\ Whole(durable[b[1]][b[2]])'
                          /\ \A c \in Conn : pc'[c] \in Unpublished => durable'[b[1]][b[2]] # c
      BY DEF DiskIsWhole
    <2> DEFINE x == durable'[b[1]][b[2]]
    <2>2. x \in FileNode /\ (x = durable[b[1]][b[2]] \/ x = ent[b[1]][b[2]])
      BY <1>6, <2>1 DEF Bindings, Name
    <2>3. Whole(x) /\ \A c \in Conn : pc[c] \in Unpublished => x # c
      BY <1>2, <2>2 DEF PowerInv, DiskIsWhole, Disk, PublishedWhole, Hidden, Named
    <2> QED
      BY <1>2, <2>3 DEF vars, Whole
  <1> QED
    BY <1>4, <1>5, <1>7, <1>8 DEF PowerInv

\* And so does the power failure: what it leaves under a name is whole.
LEMMA CutPower ==
  ASSUME PowerInv, PowerCut
  PROVE  PowerInv'
  <1>1. PICK lost \in SUBSET Unsynced :
          file' = [f \in FileNode |-> IF f \in lost THEN [file[f] EXCEPT !.size = 0] ELSE file[f]]
    BY DEF PowerCut
  <1>2. /\ ent' = durable /\ UNCHANGED <<now, req, loc, reply, durable>>
        /\ pc' = [c \in Conn |-> IF pc[c] \in {"idle", "done"} THEN pc[c] ELSE "dead"]
        /\ Typed /\ Disk
    BY DEF PowerCut, PowerInv, IInv
  <1>3. \A x \in FileNode : /\ file'[x].total = file[x].total
                            /\ Whole(x) => Whole(x)'
    <2>1. SUFFICES ASSUME NEW x \in FileNode
                   PROVE  file'[x].total = file[x].total /\ (Whole(x) => Whole(x)')
      OBVIOUS
    <2>2. file[x] \in Inode
      BY <1>2 DEF Typed, TypeOK
    <2>3. CASE x \in lost
      BY <1>1, <2>2, <2>3 DEF Unsynced, Whole, Inode
    <2>4. CASE x \notin lost
      BY <1>1, <2>4 DEF Whole
    <2> QED
      BY <2>3, <2>4
  <1>4. file' \in [FileNode -> Inode]
    BY <1>1, <1>2 DEF Typed, TypeOK, Inode
  <1>5. pc' \in [Conn -> Phase]
    BY <1>2 DEF Typed, TypeOK, Phase
  <1>6. \A c \in Conn : pc'[c] \in Unpublished => pc[c] \in Unpublished
    BY <1>2 DEF Unpublished
  <1>7. Typed'
    <2>1. Stage'
      <3>1. ASSUME NEW c \in Conn
            PROVE  StageAt(pc'[c], req[c], loc[c])
        <4>1. StageAt(pc[c], req[c], loc[c])
          BY <1>2 DEF Typed, Stage
        <4>2. CASE pc'[c] = pc[c]
          BY <4>1, <4>2
        <4>3. CASE pc'[c] = "dead" /\ pc[c] # "idle"
          BY <4>1, <4>3 DEF StageAt, Uploading, Removing
        <4> QED
          BY <1>2, <4>2, <4>3
      <3> QED
        BY <1>2, <3>1 DEF Stage
    <2>2. TreeTypeOK'
      BY <1>2 DEF TreeTypeOK, PowerInv, DiskTyped
    <2> QED
      BY <1>2, <1>4, <1>5, <2>1, <2>2 DEF Typed, TypeOK
  <1>8. Disk'
    <2>1. OwnTemps'
      BY <1>2 DEF OwnTemps, PowerInv, DiskTemps
    <2>2. Hidden'
      <3>1. \A c \in Conn : c \in FileNode
        BY DEF FileNode
      <3> QED
        BY <1>2, <1>6, <3>1 DEF Disk, Hidden, Named, Opened, Listed, PowerInv, DiskIsWhole
    <2>3. Filling'
      BY <1>2 DEF Filling
    <2>4. PublishedWhole'
      <3>1. ASSUME NEW b \in Bindings, durable[b[1]][b[2]] \in FileNode
            PROVE  Whole(durable[b[1]][b[2]])'
        <4> DEFINE x == durable[b[1]][b[2]]
        <4>1. x \in FileNode /\ Whole(x)
          BY <3>1 DEF PowerInv, DiskIsWhole
        <4> HIDE DEF x
        <4>2. file'[x].size = file'[x].total /\ file'[x].synced
          BY <1>3, <4>1 DEF Whole
        <4> QED
          BY <1>2, <4>2 DEF Whole, x
      <3> QED
        BY <1>2, <3>1 DEF PublishedWhole
    <2>5. ReadersSeeWhole'
      <3>1. ASSUME NEW c \in Conn, loc[c].fd \in FileNode
            PROVE  Whole(loc[c].fd)'
        BY <1>2, <1>3, <3>1 DEF Disk, ReadersSeeWhole, Whole
      <3>2. ASSUME NEW c \in Conn, NEW e \in loc[c].listing, e.node \in FileNode, e.name \in ClientName
            PROVE  e.size = file'[e.node].total
        BY <1>2, <1>3, <3>2 DEF Disk, ReadersSeeWhole
      <3> QED
        BY <1>2, <3>1, <3>2 DEF ReadersSeeWhole
    <2> QED
      BY <2>1, <2>2, <2>3, <2>4, <2>5 DEF Disk
  <1>9. (DiskTyped /\ DiskTemps)'
    BY <1>2 DEF PowerInv, DiskTyped, DiskTemps
  <1>10. DiskIsWhole'
    <2>1. ASSUME NEW b \in Bindings, durable[b[1]][b[2]] \in FileNode
          PROVE  /\ Whole(durable[b[1]][b[2]])'
                 /\ \A c \in Conn : pc'[c] \in Unpublished => durable[b[1]][b[2]] # c
      <3> DEFINE x == durable[b[1]][b[2]]
      <3>1. x \in FileNode /\ Whole(x) /\ \A c \in Conn : pc[c] \in Unpublished => x # c
        BY <2>1 DEF PowerInv, DiskIsWhole
      <3> HIDE DEF x
      <3>2. file'[x].size = file'[x].total /\ file'[x].synced
        BY <1>3, <3>1 DEF Whole
      <3>3. \A c \in Conn : pc'[c] \in Unpublished => x # c
        BY <1>6, <3>1
      <3> QED
        BY <1>2, <3>2, <3>3 DEF Whole, x
    <2> QED
      BY <1>2, <2>1 DEF DiskIsWhole
  <1> QED
    BY <1>7, <1>8, <1>9, <1>10 DEF PowerInv, IInv

\* The invariant holds on a machine that loses its power, however often.
LEMMA PowerAlways ==
  ASSUME DistinctTemps
  PROVE  PowerSpec => []PowerInv
  <1>1. PowerInit => PowerInv
    <2>1. SUFFICES ASSUME PowerInit PROVE PowerInv
      OBVIOUS
    <2>2. Init /\ durable = ent
      BY <2>1 DEF PowerInit, Init
    <2>3. Typed /\ Disk
      BY <2>2, InitTyped, InitDisk
    <2>4. DiskTyped /\ DiskTemps
      BY <2>2, <2>3, TypedControl DEF DiskTyped, DiskTemps, TreeTypeOK, Disk, OwnTemps
    <2>5. DiskIsWhole
      BY <2>2, <2>3 DEF DiskIsWhole, Disk, PublishedWhole, Hidden, Named
    <2> QED
      BY <2>3, <2>4, <2>5 DEF PowerInv, IInv
  <1>2. PowerInv /\ [PowerNext]_pvars => PowerInv'
    <2>1. SUFFICES ASSUME PowerInv, [PowerNext]_pvars PROVE PowerInv'
      OBVIOUS
    <2>2. CASE Serving
      <3>1. PICK failed \in SUBSET Flushed :
              durable' = [d \in DirNode |-> IF d \in Flushed \ failed THEN ent[d] ELSE durable[d]]
        BY <2>2 DEF Serving
      <3> QED
        BY <2>1, <2>2, <3>1, ServingPower DEF Serving
    <2>3. CASE UNCHANGED pvars
      <3>1. [Next]_vars /\ durable' = durable
        BY <2>3 DEF pvars
      <3>2. DOMAIN durable' = DirNode /\ durable' = [d \in DOMAIN durable' |-> durable'[d]]
        BY <2>1, <3>1 DEF PowerInv, DiskTyped
      <3> QED
        BY <2>1, <3>1, <3>2, ServingPower
    <2> QED
      BY <2>1, <2>2, <2>3, WriteBackPower, CutPower DEF PowerNext
  <1> QED
    BY <1>1, <1>2, PTL DEF PowerSpec

\* A name a client can ask for leads to a complete file after any number of
\* power failures too, although what was not forced to disk is lost: the fsync
\* of fsapi_write_stream and fsapi_copy comes before the file gets its name.
THEOREM WholeAfterPowerFailure ==
  ASSUME DistinctTemps
  PROVE  PowerSpec => []PublishedWhole
  <1>1. PowerInv => PublishedWhole
    BY DEF PowerInv, IInv, Disk
  <1> QED
    BY <1>1, PowerAlways, PTL

-----------------------------------------------------------------------------
(***************************************************************************)
(* Where a path leads, and what may happen to its last name.               *)
(***************************************************************************)
\* A prefix of a path leads to what the walk along the path meets there.
LEMMA OnTheWay ==
  ASSUME NEW p \in Path, NEW f, Trail(ent, p, f), NEW i \in 1 .. Len(p), f[i - 1] \in DirNode
  PROVE  /\ SubSeq(p, 1, i) \in Path /\ Last(SubSeq(p, 1, i)) = p[i] /\ Len(SubSeq(p, 1, i)) = i
         /\ Holder(SubSeq(p, 1, i)) = f[i - 1] /\ Walk(SubSeq(p, 1, i)) = f[i]
  <1>1. Len(p) \in Nat /\ p \in Seq(Name) /\ i \in 0 .. Len(p) /\ i \in Nat
    BY LenProperties DEF Path
  <1> DEFINE q == SubSeq(p, 1, i)
             k == i - 1
  <1>2. q \in Seq(Name) /\ Len(q) = i /\ \A j \in 1 .. i : q[j] = p[j]
    BY <1>1, FirstOf
  <1>3. q # <<>> /\ Last(q) = p[i]
    <2>1. i \in 1 .. i
      BY <1>1
    <2>2. Len(q) # 0
      BY <1>1, <1>2
    <2> QED
      BY <1>2, <2>1, <2>2, EmptySeq DEF Last
  <1> HIDE DEF q
  <1>4. PICK g : Trail(ent, q, g) /\ Holder(q) = g[k]
    <2>1. Len(q) \in Nat
      BY <1>1, <1>2
    <2> QED
      BY <1>2, <2>1, HolderTrail
  <1>5. Alongside(ent, p, f, ent, q, g, k)
    <2>1. k \in 0 .. Len(p) /\ k <= Len(q) /\ f[k] \in DirNode /\ Len(q) \in Nat
      BY <1>1, <1>2
    <2>2. \A j \in 1 .. k : q[j] = p[j]
      BY <1>1, <1>2
    <2> HIDE DEF k
    <2> QED
      BY <1>1, <1>4, <2>1, <2>2 DEF Alongside
  <1>6. Holder(q) = f[k]
    <2> HIDE DEF k
    <2> QED
      BY <1>4, <1>5, TrailsAgree
  <1>7. Walk(q) = f[i]
    <2>1. f[i] = EntryIn(ent, f[i - 1], p[i])
      BY <1>1, TrailStep
    <2> QED
      BY <1>3, <1>6, <2>1 DEF Walk, Entry, EntryIn
  <1> QED
    BY <1>2, <1>3, <1>6, <1>7 DEF Path, q

\* no MOVE puts a directory on the way to p
NothingMovedOver(p) ==
  \A x \in Conn : Renames(x) =>
    ~(Len(req[x].dst) < Len(p) /\ \A j \in 1 .. Len(req[x].dst) : p[j] = req[x].dst[j])

\* Where a path leads after a step it has led before, unless a MOVE put a
\* directory on its way or the step has just made the directory, which is empty.
LEMMA HolderWas ==
  ASSUME TreeInv, TopFree, [Next]_vars, NEW p \in Path, Holder(p)' \in DirNode,
         NothingMovedOver(p)
  PROVE  \/ Holder(p)' = Holder(p)
         \/ \E c \in Conn, i \in 1 .. MaxDepth :
              /\ i > loc[c].k /\ Holder(p)' = <<c, i>>
              /\ \A n \in Name : ent'[<<c, i>>][n] = None
  <1>1. Len(p) \in Nat /\ Len(p) >= 1 /\ Typed /\ Disk /\ OneBinding /\ FreshDirs
    BY EmptySeq, LenProperties DEF Path, TreeInv, IInv
  <1>2. PICK g : Trail(ent', p, g) /\ Holder(p)' = g[Len(p) - 1]
    BY <1>1, HolderTrail
  <1>3. PICK f : Trail(ent, p, f) /\ Holder(p) = f[Len(p) - 1]
    BY <1>1, HolderTrail
  <1> DEFINE k == Len(p) - 1
  <1>4. k \in 0 .. Len(p) /\ k \in Nat /\ k <= Len(p) /\ g[k] \in DirNode
    BY <1>1, <1>2
  <1>5. \A i \in 1 .. k : i \in 1 .. Len(p) /\ i < Len(p)
    BY <1>1
  <1> HIDE DEF k
  <1>6. ASSUME NEW i \in 1 .. k
        PROVE  /\ g[i - 1] \in DirNode /\ p[i] \in Name /\ ent'[g[i - 1]][p[i]] \in DirNode
               /\ g[i] \in DirNode /\ g[i] = ent'[g[i - 1]][p[i]]
    BY <1>2, <1>4, TrailEntries
  <1>7. ASSUME \A i \in 1 .. k : g[i - 1] = f[i - 1] =>
                 ent'[g[i - 1]][p[i]] = ent[g[i - 1]][p[i]]
        PROVE  Holder(p)' = Holder(p)
    <2>1. Alongside(ent', p, g, ent, p, f, k)
      BY <1>1, <1>2, <1>3, <1>4, <1>7 DEF Alongside
    <2> QED
      BY <1>2, <1>3, <2>1, TrailsAgree DEF k
  <1>8. None \notin DirNode /\ FileNode \cap DirNode = {} /\ Conn \subseteq FileNode
    BY TreeAssumption DEF Node, FileNode
  <1>9. ASSUME \A d \in DirNode, n \in Name : ent'[d][n] \in DirNode => ent'[d][n] = ent[d][n]
        PROVE  Holder(p)' = Holder(p)
    BY <1>6, <1>7, <1>9
  <1>10. CASE UNCHANGED ent
    BY <1>9, <1>10
  <1>11. ASSUME NEW c \in Conn, MakesTemp(c) \/ Puts(c)
         PROVE  Holder(p)' = Holder(p)
    <2>1. \A d \in DirNode, n \in Name : ent'[d][n] \in {c, None, ent[d][n]}
      BY <1>1, <1>11, TempEntries, PutEntries
    <2> QED
      BY <1>8, <1>9, <2>1
  <1>12. ASSUME NEW c \in Conn, Removes(c)
         PROVE  Holder(p)' = Holder(p)
    <2>1. PICK q \in Path : Takes(c, q)
      BY <1>12 DEF Removes
    <2>2. \A d \in DirNode, n \in Name : ent'[d][n] \in {None, ent[d][n]}
      BY <1>1, <2>1, TakenEntry
    <2> QED
      BY <1>8, <1>9, <2>2
  <1>13. ASSUME NEW c \in Conn, Renames(c)
         PROVE  Holder(p)' = Holder(p)
    <2>1. PICK q \in Path : q = req[c].dst
      BY <1>13 DEF Renames
    <2>2. \A d \in DirNode, n \in Name :
            \/ ent'[d][n] \in {None, ent[d][n]}
            \/ d = Holder(q) /\ n = Last(q)
      BY <1>1, <1>13, <2>1, RenameEntries
    <2>3. ASSUME NEW i \in 1 .. k, g[i - 1] = f[i - 1]
          PROVE  ent'[g[i - 1]][p[i]] = ent[g[i - 1]][p[i]]
      <3>1. CASE g[i - 1] = Holder(q) /\ p[i] = Last(q)
        <4>1. f[i - 1] \in DirNode /\ Holder(q) = f[i - 1] /\ Last(q) = p[i]
          BY <1>6, <2>3, <3>1
        <4>2. Len(q) = i /\ \A j \in 1 .. Len(q) : p[j] = q[j]
          BY <1>3, <1>5, <4>1, WayUnique
        <4> QED
          BY <1>5, <1>13, <2>1, <4>2 DEF NothingMovedOver
      <3> QED
        BY <1>6, <1>8, <2>2, <3>1
    <2> QED
      BY <1>7, <2>3
  <1>14. ASSUME NEW c \in Conn, MakesDirectory(c), Holder(p)' # Holder(p)
         PROVE  \E i \in 1 .. MaxDepth :
                  /\ i > loc[c].k /\ Holder(p)' = <<c, i>>
                  /\ \A n \in Name : ent'[<<c, i>>][n] = None
    <2>1. PICK d \in DirNode, n \in ClientName, i \in 1 .. MaxDepth :
            /\ i = loc[c].k + 1 /\ <<c, i>> \in DirNode /\ (\E q \in Path : d = Holder(q))
            /\ \A e \in DirNode, m \in Name :
                 ent'[e][m] = IF e = d /\ m = n THEN <<c, i>> ELSE ent[e][m]
      BY <1>1, <1>14, MadeEntries
    <2>2. i > loc[c].k
      BY <1>1, <2>1 DEF Typed, TypeOK, Locals
    <2> DEFINE y == <<c, i>>
    <2>3. d # y /\ \A m \in Name : ent[y][m] = None
      BY <1>1, <2>1, <2>2, HolderNotFresh DEF FreshDirs, IsEmpty
    <2>4. /\ y \in DirNode
          /\ \A e \in DirNode, m \in Name : ent'[e][m] \in {y, ent[e][m]}
          /\ \A m \in Name : ent'[y][m] = None
      BY <2>1, <2>3
    <2>5. PICK j \in 1 .. k : ent'[g[j - 1]][p[j]] # ent[g[j - 1]][p[j]]
      BY <1>7, <1>14
    <2> HIDE DEF y
    <2>6. g[j] = y
      BY <1>6, <2>4, <2>5
    <2>7. CASE j = k
      <3>1. Holder(p)' = y
        BY <1>2, <2>6, <2>7 DEF k
      <3> QED
        BY <2>2, <2>4, <3>1 DEF y
    <2>8. CASE j < k
      <3>1. j + 1 \in 1 .. k /\ (j + 1) - 1 = j
        BY <1>4, <2>8
      <3>2. p[j + 1] \in Name /\ ent'[g[j]][p[j + 1]] \in DirNode
        BY <1>6, <3>1
      <3> QED
        BY <1>8, <2>4, <2>6, <3>2
    <2>9. j = k \/ j < k
      BY <1>4
    <2> QED
      BY <2>7, <2>8, <2>9
  <1> QED
    BY <1>1, <1>10, <1>11, <1>12, <1>13, <1>14, StepKinds DEF Changes, WritesOwn

\* What may happen to the entry a path leads to: a directory is made there, an
\* upload or a copy is published there, a MOVE of that path or to that path is
\* done, or a DELETE takes the entry away.
LEMMA EntryChange ==
  ASSUME TreeInv, TopFree, [Next]_vars,
         NEW p \in Seq(ClientName) \ {<<>>}, Holder(p) \in DirNode,
         ent'[Holder(p)][Last(p)] # ent[Holder(p)][Last(p)]
  PROVE  \/ ent'[Holder(p)][Last(p)] \in Conn \X (1 .. MaxDepth)
         \/ \E c \in Conn : Puts(c) /\ p = Target(req[c])
         \/ \E c \in Conn : Renames(c) /\ p \in {req[c].path, req[c].dst}
         \/ \E c \in Conn : /\ pc[c] \in Removing /\ p = Frame(c).path
                            /\ ent'[Holder(p)][Last(p)] = None
  <1> DEFINE h == Holder(p)
             n == Last(p)
  <1>1. p \in Path /\ n \in ClientName /\ n \in Name /\ h \in DirNode
    BY ClientPath DEF Name
  <1>2. Typed /\ Disk /\ OneBinding
    BY DEF TreeInv, IInv
  <1>3. \A c \in Conn : Temp[c] \notin ClientName
    BY TreeAssumption DEF TempName
  <1>4. \A q \in Path : h = Holder(q) /\ n = Last(q) => p = q
    BY <1>1, SamePath
  <1> HIDE DEF h, n
  <1>5. ent'[h][n] # ent[h][n]
    BY DEF h, n
  <1>6. PICK c \in Conn : Changes(c)
    BY <1>2, <1>5, StepKinds
  <1>7. CASE MakesDirectory(c)
    <2>1. PICK d \in DirNode, m \in ClientName, i \in 1 .. MaxDepth :
            \A e \in DirNode, l \in Name :
              ent'[e][l] = IF e = d /\ l = m THEN <<c, i>> ELSE ent[e][l]
      BY <1>2, <1>7, MadeEntries
    <2>2. ent'[h][n] = <<c, i>>
      BY <1>1, <1>5, <2>1
    <2> QED
      BY <2>2 DEF h, n
  <1>8. CASE MakesTemp(c)
    BY <1>1, <1>2, <1>3, <1>5, <1>8, TempEntries
  <1>9. CASE Puts(c)
    BY <1>1, <1>2, <1>3, <1>4, <1>5, <1>9, PutEntries
  <1>10. CASE Renames(c)
    <2>1. req[c].path \in Path /\ req[c].dst \in Path
      BY <1>10 DEF Renames
    <2>2. \/ h = Holder(req[c].path) /\ n = Last(req[c].path)
          \/ h = Holder(req[c].dst) /\ n = Last(req[c].dst)
      BY <1>1, <1>2, <1>5, <1>10, RenameEntries
    <2> QED
      BY <1>4, <1>10, <2>1, <2>2
  <1>11. CASE Removes(c)
    <2>1. PICK q \in Path : /\ Takes(c, q)
                            /\ \/ pc[c] \in {"rmunlink", "rmdir"} /\ q = Frame(c).path
                               \/ Last(q) = Temp[c]
      BY <1>11 DEF Removes
    <2>2. h = Holder(q) /\ n = Last(q) /\ ent'[h][n] = None
      BY <1>1, <1>2, <1>5, <2>1, TakenEntry
    <2> QED
      BY <1>1, <1>3, <1>4, <2>1, <2>2 DEF h, n, Removing
  <1> QED
    BY <1>5, <1>6, <1>7, <1>8, <1>9, <1>10, <1>11 DEF Changes, WritesOwn

\* The way of q, name by name, is the beginning of the way of p.
Begins(q, p) == Len(q) <= Len(p) /\ \A j \in 1 .. Len(q) : p[j] = q[j]
\* the directory streams of paths that begin with q
Below(q) == {s \in Stream : Begins(q, s.path)}
\* a DELETE walks nothing but what lies below its path
Beneath == \A c \in Conn : pc[c] \in Removing => loc[c].frames \in Seq(Below(req[c].path))

\* A DELETE's own steps stay below its path.
LEMMA DeletesBeneath ==
  ASSUME Typed, Beneath, NEW c \in Conn, Deletes(c), pc'[c] \in Removing
  PROVE  loc'[c].frames \in Seq(Below(req[c].path))
  <1> DEFINE q == req[c].path
             D == Below(q)
  <1>1. loc \in [Conn -> Locals] /\ loc[c] \in Locals
    BY DEF Typed, TypeOK
  <1>2. CASE DispatchDelete(c)
    <2>1. req[c] \in Requests /\ q \in Path
      BY <1>2, Requested DEF DispatchDelete, At
    <2>2. Len(q) \in Nat
      BY <2>1, LenProperties DEF Path
    <2>3. Unopened(q) \in Stream /\ Unopened(q).path = q
      BY <2>1, StreamIn DEF Unopened
    <2> DEFINE u == Unopened(q)
    <2>4. u \in D
      BY <2>2, <2>3 DEF Below, Begins
    <2>5. loc'[c].frames = <<u>>
      BY <1>1, <1>2 DEF DispatchDelete, Locals
    <2> HIDE DEF u, D
    <2>6. <<u>> \in Seq(D)
      BY <2>4
    <2> QED
      BY <2>5, <2>6 DEF D
  <1>3. CASE pc[c] \in Removing
    <2> DEFINE fr == loc[c].frames
    <2>1. fr \in Seq(D) /\ fr # <<>> /\ fr \in Seq(Stream)
      BY <1>3, FrameIn DEF Beneath
    <2>2. Frame(c) \in D /\ Front(fr) \in Seq(D) /\ Frame(c) \in Stream /\ Frame(c).path \in Path
      <3> HIDE DEF D
      <3> QED
        BY <1>3, <2>1, FrameIn, LastIn, FrontIn DEF Frame
    <2>3. CASE RmLstat(c)
      BY <2>1, <2>3 DEF RmLstat
    <2>4. CASE RmOpen(c)
      <3> DEFINE s == OpenStream(Frame(c).path)
      <3>1. UNCHANGED loc \/ (Walk(Frame(c).path) \in DirNode /\ loc'[c].frames = Append(Front(fr), s))
        BY <1>1, <2>4 DEF RmOpen, Locals
      <3>2. Walk(Frame(c).path) \in DirNode => s \in D
        BY <2>2, <2>4, StreamIn DEF OpenStream, Below, RmOpen
      <3> HIDE DEF s, D, fr
      <3>3. CASE UNCHANGED loc
        <4>1. loc'[c].frames = fr
          BY <3>3 DEF fr
        <4> QED
          BY <2>1, <4>1 DEF D
      <3>4. CASE Walk(Frame(c).path) \in DirNode /\ loc'[c].frames = Append(Front(fr), s)
        <4>1. Append(Front(fr), s) \in Seq(D)
          BY <2>2, <3>2, <3>4, AppendProperties
        <4> QED
          BY <3>4, <4>1 DEF D
      <3> QED
        BY <3>1, <3>3, <3>4
    <2>5. CASE RmRead(c)
      <3>1. CASE UNCHANGED loc
        BY <2>1, <3>1
      <3>2. ASSUME NEW n \in Unread(Frame(c)),
                   LET parent == [Frame(c) EXCEPT !.seen = @ \cup {n}]
                       child  == Unopened(Append(Frame(c).path, n))
                   IN  loc' = [loc EXCEPT ![c].frames = Front(@) \o <<parent, child>>]
            PROVE  loc'[c].frames \in Seq(D)
        <4> DEFINE parent == [Frame(c) EXCEPT !.seen = @ \cup {n}]
                   child  == Unopened(Append(Frame(c).path, n))
                   two    == <<parent, child>>
        <4>1. n \in Name
          BY DEF Unread
        <4>2. parent \in D
          <5>1. parent \in Stream /\ parent.path = Frame(c).path
            BY <2>2, <4>1 DEF Stream
          <5> QED
            BY <2>2, <5>1 DEF Below
        <4>3. child \in D
          <5> DEFINE p == Frame(c).path
          <5>1. p \in Seq(Name) /\ Begins(q, p)
            BY <2>2 DEF Path, Below
          <5> HIDE DEF p, q
          <5>2. Append(p, n) \in Path /\ Len(Append(p, n)) = Len(p) + 1 /\ Len(p) \in Nat
            BY <4>1, <5>1, AppendProperties, LenProperties DEF Path
          <5>3. \A j \in 1 .. Len(p) : Append(p, n)[j] = p[j]
            BY <4>1, <5>1, AppendProperties
          <5>4. Len(q) \in Nat
            <6>1. req[c] \in Requests
              BY <1>3, FrameIn
            <6>2. q \in Path
              BY <6>1, RequestPaths, ClientPath DEF q
            <6> QED
              BY <6>2, LenProperties DEF Path
          <5>5. Begins(q, Append(p, n))
            <6>1. Len(q) <= Len(p) /\ \A j \in 1 .. Len(q) : p[j] = q[j]
              BY <5>1 DEF Begins
            <6>2. \A j \in 1 .. Len(q) : j \in 1 .. Len(p)
              BY <5>2, <5>4, <6>1
            <6> QED
              BY <5>2, <5>3, <5>4, <6>1, <6>2 DEF Begins
          <5>6. Unopened(Append(p, n)) \in Stream /\ Unopened(Append(p, n)).path = Append(p, n)
            BY <5>2, StreamIn DEF Unopened
          <5> QED
            BY <5>5, <5>6 DEF Below, p
        <4>4. loc'[c].frames = Front(fr) \o two
          <5>1. loc' = [loc EXCEPT ![c].frames = Front(@) \o two]
            BY <3>2
          <5> HIDE DEF two
          <5> QED
            BY <1>1, <5>1 DEF Locals
        <4>5. two \in Seq(D)
          <5> HIDE DEF parent, child, D
          <5> QED
            BY <4>2, <4>3
        <4> HIDE DEF two, D
        <4> QED
          BY <2>2, <4>4, <4>5, ConcatProperties
      <3> QED
        BY <2>5, <3>1, <3>2 DEF RmRead
    <2>6. CASE RmRemove(c)
      <3>1. UNCHANGED loc \/ loc'[c].frames = Front(fr)
        BY <1>1, <2>6 DEF RmRemove, Locals
      <3> QED
        BY <2>1, <2>2, <3>1
    <2>7. ~DispatchDelete(c)
      BY <1>3 DEF DispatchDelete, At, Removing
    <2> QED
      BY <2>3, <2>4, <2>5, <2>6, <2>7 DEF Deletes
  <1>4. DispatchDelete(c) \/ pc[c] \in Removing
    BY DEF Deletes, RmLstat, RmOpen, RmRead, RmRemove, Removing
  <1> QED
    BY <1>2, <1>3, <1>4

\* So does every step.
LEMMA NextBeneath ==
  ASSUME Typed, Beneath, [Next]_vars
  PROVE  Beneath'
  <1> SUFFICES ASSUME NEW c \in Conn, pc'[c] \in Removing
               PROVE  loc'[c].frames \in Seq(Below(req'[c].path))
    BY DEF Beneath
  <1>1. ASSUME pc'[c] = pc[c], loc'[c] = loc[c]
        PROVE  loc'[c].frames \in Seq(Below(req'[c].path))
    <2>1. req'[c] = req[c]
      BY <1>1, RequestStays DEF Removing
    <2> QED
      BY <1>1, <2>1 DEF Beneath
  <1>2. CASE UNCHANGED vars \/ Tick
    BY <1>1, <1>2 DEF vars, Tick
  <1>3. ASSUME NEW x \in Conn, x # c, HandleRequest(x) \/ Serve(x) \/ Kill(x)
        PROVE  pc'[c] = pc[c] /\ loc'[c] = loc[c]
    BY <1>3, MovesOnly, LocalsOnly
  <1>4. CASE HandleRequest(c) \/ Kill(c)
    <2>1. Goes(c, "stat") \/ Refuses(c, "done") \/ pc'[c] = "dead"
      BY <1>4, HelperTurns DEF HandleRequest, Kill, Typed, TypeOK
    <2> QED
      BY <2>1 DEF Goes, Refuses, Removing
  <1>5. CASE Serve(c)
    <2>1. Deletes(c) /\ UNCHANGED req
      BY <1>5, ServeTurns, ServeRequest DEF Turns
    <2> QED
      BY <2>1, DeletesBeneath
  <1> QED
    BY <1>1, <1>2, <1>3, <1>4, <1>5 DEF Next

-----------------------------------------------------------------------------
(***************************************************************************)
(* What the disk holds under a name that nobody is busy with.              *)
(***************************************************************************)
\* The holder of a path is where its directory's path leads.
LEMMA FrontLeads ==
  ASSUME NEW p \in Path, Holder(p) \in DirNode
  PROVE  Walk(Front(p)) = Holder(p)
  <1>1. p \in Seq(Name) /\ p # <<>> /\ Len(p) \in Nat /\ Len(p) >= 1
    BY EmptySeq, LenProperties DEF Path
  <1>2. PICK f : Trail(ent, p, f) /\ Holder(p) = f[Len(p) - 1]
    BY <1>1, HolderTrail
  <1> DEFINE k == Len(p) - 1
  <1>3. k \in Nat /\ k \in 0 .. Len(p) /\ f[k] \in DirNode /\ Front(p) = SubSeq(p, 1, k)
    BY <1>1, <1>2 DEF Front
  <1>4. Front(p) \in Seq(Name) /\ Len(Front(p)) = k
    BY <1>1, FrontIn
  <1>5. Holder(p) = f[k]
    BY <1>2
  <1> HIDE DEF k
  <1>6. CASE k = 0
    <2>1. Front(p) = <<>>
      BY <1>4, <1>6, EmptySeq
    <2>2. f[0] = Top
      BY <1>1, <1>2, TrailStep
    <2> QED
      BY <1>5, <1>6, <2>1, <2>2 DEF Walk
  <1>7. CASE k # 0
    <2>1. k \in 1 .. Len(p) /\ k - 1 \in 0 .. k
      BY <1>1, <1>3, <1>7
    <2>2. f[k - 1] \in DirNode
      BY <1>1, <1>2, <1>3, <2>1, TrailDirs
    <2> QED
      BY <1>2, <1>3, <1>5, <2>1, <2>2, OnTheWay
  <1> QED
    BY <1>6, <1>7

\* A shorter path that p begins with is one to a directory on its way.
LEMMA FrontBegins ==
  ASSUME NEW p \in Path, NEW q \in Path, Len(q) < Len(p), \A j \in 1 .. Len(q) : p[j] = q[j]
  PROVE  IsPrefix(q, Front(p))
  <1>1. p \in Seq(Name) /\ p # <<>> /\ q \in Seq(Name) /\ Len(p) \in Nat /\ Len(q) \in Nat
    BY LenProperties DEF Path
  <1> DEFINE k == Len(p) - 1
  <1>2. k \in 0 .. Len(p) /\ Len(q) <= k /\ Front(p) = SubSeq(p, 1, k)
    BY <1>1 DEF Front
  <1> HIDE DEF k
  <1>3. Front(p) \in Seq(Name) /\ Len(Front(p)) = k /\ \A j \in 1 .. k : Front(p)[j] = p[j]
    BY <1>1, <1>2, FirstOf
  <1>4. \A j \in 1 .. Len(q) : Front(p)[j] = q[j]
    <2>1. \A j \in 1 .. Len(q) : j \in 1 .. k
      BY <1>1, <1>2
    <2> QED
      BY <1>3, <2>1
  <1> QED
    BY <1>1, <1>2, <1>3, <1>4, PrefixOf

\* A request that was made stays made.
LEMMA AskedStays ==
  ASSUME Typed, Waiting, [Next]_vars, NEW x \in Conn, NEW op, Asked(x, op)
  PROVE  Asked(x, op)' /\ req'[x] = req[x]
  <1>1. pc[x] # "idle"
    BY DEF Asked, Waiting
  <1> QED
    BY <1>1, RequestStays DEF Asked

\* the child of x is to flush the directory of p, died before it could, or failed to
Owes(x, p) == /\ pc[x] \in {"untmp", "flush", "dead"} \/ (pc[x] = "done" /\ x \in unflushed)
              /\ p = Target(req[x]) \/ (req[x].op = "MOVE" /\ p = req[x].path)
Settled(p) == \A x \in Conn : ~Owes(x, p)

\* what a step of the daemon may do to the disk
DiskStep ==
  /\ unflushed \subseteq unflushed'
  /\ \A d \in DirNode : durable'[d] \in {durable[d], ent[d]}
  /\ \A x \in Flushing \ unflushed' : \A d \in FlushedBy(x) \cap DirNode : durable'[d] = ent[d]

\* A child goes on owing until it flushes.
LEMMA OwesStays ==
  ASSUME Typed, [Next]_vars, DiskStep, NEW x \in Conn, NEW p, Owes(x, p)
  PROVE  Owes(x, p)' \/ (x \in Flushing \ unflushed' /\ UNCHANGED ent)
  <1>1. /\ pc[x] \in {"untmp", "flush", "dead"} \/ (pc[x] = "done" /\ x \in unflushed)
        /\ pc \in [Conn -> Phase]
    BY DEF Owes, Typed, TypeOK
  <1>2. req'[x] = req[x]
    BY <1>1, RequestStays
  <1>3. /\ pc'[x] \in {"untmp", "flush", "dead"} => Owes(x, p)'
        /\ pc'[x] = "done" /\ x \in unflushed' => Owes(x, p)'
    BY <1>2 DEF Owes, Target
  <1>4. pc'[x] = pc[x] => Owes(x, p)'
    BY <1>1, <1>3 DEF DiskStep
  <1>5. CASE UNCHANGED vars \/ Tick
    BY <1>4, <1>5 DEF vars, Tick
  <1>6. ASSUME NEW c \in Conn, c # x, HandleRequest(c) \/ Serve(c) \/ Kill(c)
        PROVE  Owes(x, p)'
    BY <1>1, <1>4, <1>6, MovesOnly
  <1>7. ~HandleRequest(x)
    BY <1>1 DEF HandleRequest
  <1>8. CASE Kill(x)
    BY <1>1, <1>3, <1>8 DEF Kill
  <1>9. CASE Serve(x)
    <2>1. DropTemp(x) \/ FsyncDir(x)
      BY <1>1, <1>9 DEF Serve, DispatchGet, OpenFile, SendByte, EndSend, OpenList, ListEntry, EndList,
           DispatchPut, Mkdir, OpenTemp, Fill, Sync, PublishByRename, PublishByLink, Cleanup,
           StatSource, DispatchDest, OpenSource, Rename, DispatchDelete, RmLstat, RmOpen, RmRead,
           RmRemove, At
    <2>2. CASE DropTemp(x)
      BY <1>1, <1>3, <2>2 DEF DropTemp, Goto
    <2>3. CASE FsyncDir(x)
      BY <1>1, <1>3, <2>3 DEF FsyncDir, Answer, Choose, Flushing
    <2> QED
      BY <2>1, <2>2, <2>3
  <1> QED
    BY <1>5, <1>6, <1>7, <1>8, <1>9 DEF Next

\* nothing is on the disk in a directory that is still to be made
DiskFresh ==
  \A c \in Conn, i \in 1 .. MaxDepth : i > loc[c].k =>
    \A n \in Name : durable[<<c, i>>][n] = None

\* The disk holds what the tree does under a name that leads to something no
\* mkdirs has made, or to nothing although nobody has deleted it, if nobody is
\* busy with that name and the directories on the way stay where they are.
OnDisk ==
  \A p \in Seq(ClientName) \ {<<>>} :
    Unmoved(p) /\ Settled(p) /\ Holder(p) \in DirNode =>
      LET w == ent[Holder(p)][Last(p)]
      IN  w \in FileNode \cup SeedDir \/ (w = None /\ Undeleted(p)) =>
            durable[Holder(p)][Last(p)] = w

\* Directories are made empty on the disk too.
LEMMA NextDiskFresh ==
  ASSUME Typed, FreshDirs, DiskFresh, DiskStep, [Next]_vars
  PROVE  DiskFresh'
  <1> SUFFICES ASSUME NEW c \in Conn, NEW i \in 1 .. MaxDepth, i > loc'[c].k, NEW n \in Name
               PROVE  durable'[<<c, i>>][n] = None
    BY DEF DiskFresh
  <1>1. i > loc[c].k
    <2>1. loc'[c].k \in Nat /\ loc[c].k \in Nat /\ i \in Nat
      BY NextTyped, TreeAssumption DEF Typed, TypeOK, Locals
    <2> QED
      BY <2>1, CountGrows
  <1>2. <<c, i>> \in DirNode
    BY DEF DirNode
  <1>3. durable[<<c, i>>][n] = None /\ ent[<<c, i>>][n] = None
    BY <1>1 DEF DiskFresh, FreshDirs, IsEmpty
  <1> QED
    BY <1>2, <1>3 DEF DiskStep

\* Every step of the daemon keeps the disk up with the names nobody is busy with.
LEMMA NextOnDisk ==
  ASSUME TreeInv, TopFree, Waiting, Told, Beneath, DiskFresh, OnDisk, DiskStep, [Next]_vars
  PROVE  OnDisk'
  <1>1. Typed
    BY DEF TreeInv, IInv
  <1> SUFFICES ASSUME NEW p \in Seq(ClientName) \ {<<>>},
                      Unmoved(p)', Settled(p)', Holder(p)' \in DirNode,
                      \/ ent'[Holder(p)'][Last(p)] \in FileNode \cup SeedDir
                      \/ ent'[Holder(p)'][Last(p)] = None /\ Undeleted(p)'
               PROVE  durable'[Holder(p)'][Last(p)] = ent'[Holder(p)'][Last(p)]
    BY DEF OnDisk
  <1>2. p \in Path /\ Last(p) \in Name
    BY ClientPath DEF Name
  <1>3. Unmoved(p)
    <2>1. SUFFICES ASSUME NEW x \in Conn, Asked(x, "MOVE")
                   PROVE  ~IsPrefix(req[x].path, Front(p)) /\ ~IsPrefix(req[x].dst, Front(p))
      BY DEF Unmoved
    <2>2. Asked(x, "MOVE")' /\ req'[x] = req[x]
      BY <1>1, <2>1, AskedStays
    <2>3. ~IsPrefix(req'[x].path, Front(p)) /\ ~IsPrefix(req'[x].dst, Front(p))
      BY <2>2 DEF Unmoved
    <2> QED
      BY <2>2, <2>3
  <1>4. Undeleted(p)' => Undeleted(p)
    <2>1. SUFFICES ASSUME Undeleted(p)', NEW x \in Conn, Asked(x, "DELETE")
                   PROVE  ~IsPrefix(req[x].path, p)
      BY DEF Undeleted
    <2>2. Asked(x, "DELETE")' /\ req'[x] = req[x]
      BY <1>1, <2>1, AskedStays
    <2>3. ~IsPrefix(req'[x].path, p)
      BY <2>1, <2>2 DEF Undeleted
    <2> QED
      BY <2>2, <2>3
  <1>5. NothingMovedOver(p)
    <2>1. SUFFICES ASSUME NEW x \in Conn, Renames(x), Len(req[x].dst) < Len(p),
                          \A j \in 1 .. Len(req[x].dst) : p[j] = req[x].dst[j]
                   PROVE  FALSE
      BY DEF NothingMovedOver
    <2>2. Asked(x, "MOVE") /\ req[x].dst \in Path
      BY <2>1, RequestAssumption DEF Renames, Asked
    <2>3. IsPrefix(req[x].dst, Front(p))
      BY <1>2, <2>1, <2>2, FrontBegins
    <2> QED
      BY <1>3, <2>2, <2>3 DEF Unmoved
  <1> DEFINE h == Holder(p)
             n == Last(p)
             w == ent'[h'][n]
  <1>6. CASE \E c \in Conn, i \in 1 .. MaxDepth :
               i > loc[c].k /\ h' = <<c, i>> /\ \A m \in Name : ent'[<<c, i>>][m] = None
    <2>1. PICK c \in Conn, i \in 1 .. MaxDepth :
            i > loc[c].k /\ h' = <<c, i>> /\ \A m \in Name : ent'[<<c, i>>][m] = None
      BY <1>6
    <2>2. durable[<<c, i>>][n] = None /\ ent[<<c, i>>][n] = None /\ <<c, i>> \in DirNode
      BY <1>2, <2>1 DEF DiskFresh, TreeInv, FreshDirs, IsEmpty, DirNode
    <2>3. durable'[<<c, i>>][n] = None /\ ent'[<<c, i>>][n] = None
      BY <1>2, <2>1, <2>2 DEF DiskStep
    <2> QED
      BY <2>1, <2>3
  <1>7. ASSUME NEW x \in Conn, Owes(x, p)
        PROVE  durable'[h'][n] = ent'[h'][n]
    <2>1. x \in Flushing \ unflushed' /\ UNCHANGED ent
      BY <1>1, <1>7, OwesStays DEF Settled
    <2>2. h' = h /\ h \in DirNode
      BY <2>1 DEF Holder, Entry
    <2>3. Walk(Front(p)) = h
      BY <1>2, <2>2, FrontLeads
    <2>4. h \in FlushedBy(x)
      BY <1>7, <2>3 DEF Owes, FlushedBy
    <2> QED
      BY <2>1, <2>2, <2>4 DEF DiskStep
  <1>8. CASE h' = h /\ Settled(p)
    <2>1. h \in DirNode
      BY <1>8
    <2>2. CASE w = ent[h][n]
      <3>1. durable[h][n] = ent[h][n]
        BY <1>3, <1>4, <1>8, <2>1, <2>2 DEF OnDisk
      <3> QED
        BY <1>8, <2>1, <2>2, <3>1 DEF DiskStep
    <2>3. CASE w # ent[h][n]
      <3>1. w \notin Conn \X (1 .. MaxDepth)
        <4>1. (Conn \X (1 .. MaxDepth)) \subseteq DirNode /\ (Conn \X (1 .. MaxDepth)) \cap SeedDir = {}
          BY FreshAssumption DEF DirNode
        <4>2. (FileNode \cup SeedDir \cup {None}) \cap (Conn \X (1 .. MaxDepth)) = {}
          BY <4>1, TreeAssumption DEF Node
        <4>3. w \in FileNode \cup SeedDir \cup {None}
          OBVIOUS
        <4> QED
          BY <4>2, <4>3
      <3>2. ASSUME NEW c \in Conn, Puts(c) /\ p = Target(req[c])
            PROVE  FALSE
        <4>1. pc'[c] \in {"flush", "untmp"} /\ pc[c] # "idle"
          BY <3>2 DEF Puts
        <4>2. req'[c] = req[c]
          BY <1>1, <4>1, RequestStays
        <4>3. Owes(c, p)'
          BY <3>2, <4>1, <4>2 DEF Owes, Target
        <4> QED
          BY <4>3 DEF Settled
      <3>3. ASSUME NEW c \in Conn, Renames(c), p \in {req[c].path, req[c].dst}
            PROVE  FALSE
        <4>1. pc'[c] = "flush" /\ pc[c] # "idle" /\ req[c].op = "MOVE"
          BY <3>3 DEF Renames
        <4>2. req'[c] = req[c]
          BY <1>1, <4>1, RequestStays
        <4>3. Owes(c, p)'
          BY <3>3, <4>1, <4>2 DEF Owes, Target
        <4> QED
          BY <4>3 DEF Settled
      <3>4. ASSUME NEW c \in Conn, pc[c] \in Removing, p = Frame(c).path, w = None
            PROVE  FALSE
        <4>1. req[c] \in Requests /\ loc[c].frames # <<>>
          BY <1>1, <3>4, FrameIn
        <4>2. Asked(c, "DELETE")
          BY <3>4, <4>1, RequestAssumption DEF Told, Asked
        <4>3. Frame(c) \in Below(req[c].path)
          BY <3>4, <4>1, LastIn DEF Beneath, Frame
        <4>4. req[c].path \in Path
          BY <4>1, RequestPaths, ClientPath
        <4>5. IsPrefix(req[c].path, p)
          <5>1. Begins(req[c].path, p)
            BY <3>4, <4>3 DEF Below
          <5> QED
            BY <1>2, <4>4, <5>1, PrefixOf DEF Begins, Path
        <4>6. None \notin FileNode \cup SeedDir
          BY TreeAssumption DEF Node, DirNode
        <4> QED
          BY <1>4, <3>4, <4>2, <4>5, <4>6 DEF Undeleted
      <3> QED
        BY <1>8, <2>1, <2>3, <3>1, <3>2, <3>3, <3>4, EntryChange
    <2> QED
      BY <2>2, <2>3
  <1> QED
    BY <1>2, <1>5, <1>6, <1>7, <1>8, HolderWas DEF Settled

\* What survives a power failure is what the disk holds.
LEMMA CutKeeps ==
  ASSUME OnDisk, ent' = durable, NEW p \in Seq(ClientName) \ {<<>>},
         Settled(p), Reachable(p), Kept(p) \/ (Walk(p) = None /\ Undeleted(p))
  PROVE  Walk(p)' = Walk(p)
  <1>1. p \in Path /\ p # <<>> /\ Len(p) \in Nat /\ Len(p) >= 1 /\ Holder(p) \in DirNode /\ Unmoved(p)
    BY ClientPath, EmptySeq, LenProperties DEF Path, Reachable
  <1>2. PICK f : Trail(ent, p, f) /\ Holder(p) = f[Len(p) - 1]
    BY <1>1, HolderTrail
  <1> DEFINE k == Len(p) - 1
  <1>3. k \in 0 .. Len(p) /\ f[k] \in DirNode /\ \A i \in 1 .. k : i \in 1 .. Len(p)
    BY <1>1, <1>2
  <1>4. \A i \in 1 .. k : durable[Holder(SubSeq(p, 1, i))][p[i]] = Walk(SubSeq(p, 1, i))
    BY DEF Reachable
  <1> HIDE DEF k
  <1>5. ASSUME NEW i \in 1 .. k
        PROVE  ent'[f[i - 1]][p[i]] = ent[f[i - 1]][p[i]]
    <2>1. f[i - 1] \in DirNode /\ f[i] = ent[f[i - 1]][p[i]]
      BY <1>1, <1>2, <1>3, TrailEntries
    <2>2. Holder(SubSeq(p, 1, i)) = f[i - 1] /\ Walk(SubSeq(p, 1, i)) = f[i]
      BY <1>1, <1>2, <1>3, <2>1, OnTheWay
    <2> QED
      BY <1>4, <2>1, <2>2
  <1>6. Holder(p)' = Holder(p)
    BY <1>1, <1>2, <1>3, <1>5, TrailKept DEF k
  <1>7. Walk(p) = ent[Holder(p)][Last(p)] /\ Walk(p)' = ent'[Holder(p)][Last(p)]
    BY <1>1, <1>6 DEF Walk, Entry
  <1> QED
    BY <1>1, <1>7 DEF OnDisk, Kept

\* what is on the disk is up to date
UpToDate == TidyInv /\ Told /\ Beneath /\ DiskTyped /\ DiskFresh /\ OnDisk
\* until the first power failure
KeptUp == cuts \in Nat /\ (cuts = 0 => UpToDate)

\* The daemon's steps, and what they flush, keep it.
LEMMA ServingKept ==
  ASSUME DistinctTemps, UpToDate, [Next]_vars, DiskStep, DOMAIN durable' = DirNode,
         durable' = [d \in DOMAIN durable' |-> durable'[d]]
  PROVE  UpToDate'
  <1>1. TidyInv /\ TreeInv /\ TopFree /\ Waiting /\ Typed /\ FreshDirs
    BY DEF UpToDate, TidyInv, TreeInv, IInv
  <1>2. TidyInv'
    BY <1>1, NextTree, NextTop, NextWaiting, NextLitter DEF TidyInv
  <1>3. DiskTyped'
    <2>1. ent \in [DirNode -> [Name -> Node \cup {None}]]
      BY <1>1, TypedControl DEF TreeTypeOK
    <2>2. \A d \in DirNode : durable'[d] \in [Name -> Node \cup {None}]
      BY <2>1 DEF UpToDate, DiskTyped, DiskStep
    <2> QED
      BY <2>2 DEF DiskTyped
  <1> QED
    BY <1>1, <1>2, <1>3, NextTold, NextBeneath, NextDiskFresh, NextOnDisk DEF UpToDate

\* So does the kernel, one entry at a time.
LEMMA WriteBackKept ==
  ASSUME UpToDate, WriteBack
  PROVE  UpToDate'
  <1>1. PICK d \in DirNode, n \in Name : durable' = [durable EXCEPT ![d][n] = ent[d][n]]
    BY DEF WriteBack
  <1>2. UNCHANGED vars /\ UNCHANGED unflushed /\ Typed /\ FreshDirs
    BY DEF WriteBack, UpToDate, TidyInv, TreeInv, IInv
  <1>3. \A e \in DirNode, m \in Name : durable'[e][m] \in {durable[e][m], ent[e][m]}
    BY <1>1 DEF UpToDate, DiskTyped
  <1>4. DiskTyped'
    <2>1. ent \in [DirNode -> [Name -> Node \cup {None}]]
      BY <1>2, TypedControl DEF TreeTypeOK
    <2> QED
      BY <1>1, <2>1 DEF UpToDate, DiskTyped
  <1>5. TidyInv' /\ Told' /\ Beneath'
    <2>1. Typed'
      BY <1>2, SameTree DEF vars, Typed, TypeOK, Stage, TreeTypeOK
    <2>2. Disk'
      BY <1>2 DEF UpToDate, TidyInv, TreeInv, IInv, vars, Disk, OwnTemps, Hidden, Named, Opened,
                  Listed, Filling, Whole, PublishedWhole, ReadersSeeWhole
    <2>3. OneBinding' /\ FreshDirs' /\ TopFree' /\ Waiting'
      BY <1>2 DEF UpToDate, TidyInv, TreeInv, vars, OneBinding, FreshDirs, IsEmpty, TopFree, Waiting
    <2>4. Litter'
      BY <1>2 DEF UpToDate, TidyInv, vars, Litter, Tracked, MovedAway, TempPath, Target, Holder, Entry
    <2>5. Told' /\ Beneath'
      BY <1>2 DEF UpToDate, vars, Told, Beneath, Below
    <2> QED
      BY <2>1, <2>2, <2>3, <2>4, <2>5 DEF TidyInv, TreeInv, IInv
  <1>6. DiskFresh'
    <2>1. \A c \in Conn, i \in 1 .. MaxDepth : <<c, i>> \in DirNode
      BY DEF DirNode
    <2> QED
      BY <1>2, <1>3, <2>1 DEF UpToDate, DiskFresh, FreshDirs, IsEmpty, vars
  <1>7. OnDisk'
    <2>1. SUFFICES ASSUME NEW p \in Seq(ClientName) \ {<<>>},
                          Unmoved(p), Settled(p), Holder(p) \in DirNode,
                          \/ ent[Holder(p)][Last(p)] \in FileNode \cup SeedDir
                          \/ ent[Holder(p)][Last(p)] = None /\ Undeleted(p)
                   PROVE  durable'[Holder(p)][Last(p)] = ent[Holder(p)][Last(p)]
      <3>1. UNCHANGED <<ent, pc, req, unflushed>>
        BY <1>2 DEF vars
      <3>2. ASSUME NEW p
            PROVE  /\ Unmoved(p)' = Unmoved(p) /\ Settled(p)' = Settled(p)
                   /\ Undeleted(p)' = Undeleted(p)
        BY <3>1 DEF Unmoved, Undeleted, Asked, Settled, Owes, Target
      <3>3. ASSUME NEW p
            PROVE  Holder(p)' = Holder(p)
        BY <3>1 DEF Holder, Entry
      <3> QED
        BY <3>1, <3>2, <3>3 DEF OnDisk
    <2>2. Last(p) \in Name
      BY ClientPath DEF Name
    <2>3. durable[Holder(p)][Last(p)] = ent[Holder(p)][Last(p)]
      BY <2>1 DEF UpToDate, OnDisk
    <2> QED
      BY <1>3, <2>1, <2>2, <2>3
  <1> QED
    BY <1>4, <1>5, <1>6, <1>7 DEF UpToDate

\* The disk is kept up until the power first fails.
LEMMA KeptAlways ==
  ASSUME DistinctTemps
  PROVE  PowerSpec => []KeptUp
  <1>1. ASSUME PowerInit
        PROVE  KeptUp
    <2>1. Init /\ durable = ent /\ durable = InitEnt /\ cuts = 0
      BY <1>1 DEF PowerInit, Init
    <2>2. Typed /\ Disk /\ OneBinding /\ FreshDirs
      BY <2>1, InitTyped, InitDisk, InitTree
    <2>3. TidyInv
      BY <2>1, <2>2, InitTidy DEF TreeInv, IInv
    <2>4. Told /\ Beneath
      BY <2>1 DEF Init, Told, Beneath, Removing
    <2>5. DiskTyped
      BY <2>1, <2>2, TypedControl DEF DiskTyped, TreeTypeOK
    <2>6. DiskFresh
      BY <2>1, SeedAssumption DEF DiskFresh
    <2>7. OnDisk
      BY <2>1 DEF OnDisk
    <2> QED
      BY <2>1, <2>3, <2>4, <2>5, <2>6, <2>7 DEF KeptUp, UpToDate
  <1>2. ASSUME KeptUp, [PowerNext]_pvars
        PROVE  KeptUp'
    <2>1. CASE Serving
      <3>1. cuts' = cuts
        BY <2>1 DEF Serving
      <3>2. ASSUME UpToDate
            PROVE  UpToDate'
        <4>1. PICK failed \in SUBSET Flushed :
                /\ durable' = [d \in DirNode |-> IF d \in Flushed \ failed THEN ent[d] ELSE durable[d]]
                /\ unflushed' = IF failed = {} THEN unflushed ELSE unflushed \cup Flushing
          BY <2>1 DEF Serving
        <4>2. \A x \in Flushing \ unflushed' : failed = {}
          BY <4>1
        <4>3. \A x \in Flushing : FlushedBy(x) \cap DirNode \subseteq Flushed
          <5>1. \A x \in Flushing : FlushedBy(x) \subseteq UNION {FlushedBy(y) : y \in Flushing}
            OBVIOUS
          <5> QED
            BY <5>1 DEF Flushed
        <4>4. unflushed \subseteq unflushed'
          BY <4>1
        <4>5. \A x \in Flushing \ unflushed' : \A d \in FlushedBy(x) \cap DirNode : durable'[d] = ent[d]
          BY <4>1, <4>2, <4>3
        <4>6. DiskStep /\ DOMAIN durable' = DirNode /\ durable' = [d \in DOMAIN durable' |-> durable'[d]]
          BY <4>1, <4>4, <4>5 DEF DiskStep
        <4> QED
          BY <2>1, <3>2, <4>6, ServingKept DEF Serving
      <3> QED
        BY <1>2, <3>1, <3>2 DEF KeptUp
    <2>2. CASE UNCHANGED pvars
      <3>1. UNCHANGED vars /\ durable' = durable /\ unflushed' = unflushed /\ cuts' = cuts
        BY <2>2 DEF pvars
      <3>2. ASSUME UpToDate
            PROVE  UpToDate'
        <4>1. Flushing = {}
          BY <3>1 DEF Flushing, vars
        <4>2. DiskStep /\ DOMAIN durable' = DirNode /\ durable' = [d \in DOMAIN durable' |-> durable'[d]]
          BY <3>1, <3>2, <4>1 DEF DiskStep, UpToDate, DiskTyped
        <4> QED
          BY <3>1, <3>2, <4>2, ServingKept
      <3> QED
        BY <1>2, <3>1, <3>2 DEF KeptUp
    <2>3. CASE WriteBack
      <3>1. cuts' = cuts
        BY <2>3 DEF WriteBack
      <3> QED
        BY <1>2, <2>3, <3>1, WriteBackKept DEF KeptUp
    <2>4. CASE PowerCut
      BY <1>2, <2>4 DEF PowerCut, KeptUp
    <2> QED
      BY <1>2, <2>1, <2>2, <2>3, <2>4 DEF PowerNext
  <1>3. PowerInit => KeptUp
    BY <1>1
  <1>4. KeptUp /\ [PowerNext]_pvars => KeptUp'
    BY <1>2
  <1> QED
    BY <1>3, <1>4, PTL DEF PowerSpec

\* A 200 or 201 outlives the first power failure: the file is under the name it
\* was put under, and a file that was moved has not come back to its old name,
\* because both parents have been flushed before the reply was sent, unless
\* fsync_dir failed for this request or for another one on the same name.
THEOREM AcknowledgedSurvives ==
  ASSUME DistinctTemps
  PROVE  PowerSpec => AnswerSurvives
  <1>1. ASSUME KeptUp, PowerCut, cuts = 0, NEW c \in Conn, Acked(c)
        PROVE  LET new == Target(req[c])
                   src == req[c].path
               IN  /\ Kept(new) /\ Quiet(new) /\ Reachable(new) => Walk(new)' = Walk(new)
                   /\ /\ req[c].op = "MOVE" /\ Walk(src) = None
                      /\ Quiet(src) /\ Reachable(src) /\ Undeleted(src)
                      => Walk(src)' = None
    <2>1. OnDisk /\ Typed /\ Waiting /\ ent' = durable /\ req' = req
      BY <1>1 DEF KeptUp, UpToDate, TidyInv, TreeInv, IInv, PowerCut
    <2>2. req[c] \in Requests
      BY <1>1, <2>1 DEF Acked, Typed, Stage, StageAt
    <2>3. PICK new \in Seq(ClientName) \ {<<>>} : new = Target(req[c])
      BY <1>1, <2>2, RequestPaths DEF Acked
    <2>4. PICK src \in Seq(ClientName) \ {<<>>} : src = req[c].path
      BY <2>2, RequestPaths
    <2>5. \A p : Quiet(p) => Settled(p)
      BY DEF Quiet, Settled, Owes, Target
    <2>6. Kept(new) /\ Quiet(new) /\ Reachable(new) => Walk(new)' = Walk(new)
      BY <2>1, <2>5, CutKeeps
    <2>7. Walk(src) = None /\ Quiet(src) /\ Reachable(src) /\ Undeleted(src) => Walk(src)' = None
      BY <2>1, <2>5, CutKeeps
    <2>8. Target(req[c])' = new /\ req'[c].path = src
      BY <2>1, <2>3, <2>4 DEF Target
    <2>9. Walk(Target(req[c]))' = Walk(new)' /\ Walk(req[c].path)' = Walk(src)'
      BY <2>8 DEF Walk, Holder, Entry
    <2> QED
      BY <2>3, <2>4, <2>6, <2>7, <2>9
  <1>2. KeptUp /\ PowerCut /\ cuts = 0 => \A c \in Conn : Acked(c) =>
          LET new == Target(req[c])
              src == req[c].path
          IN  /\ Kept(new) /\ Quiet(new) /\ Reachable(new) => Walk(new)' = Walk(new)
              /\ /\ req[c].op = "MOVE" /\ Walk(src) = None
                 /\ Quiet(src) /\ Reachable(src) /\ Undeleted(src)
                 => Walk(src)' = None
    BY <1>1
  <1>3. PowerSpec => [][PowerNext]_pvars
    BY PTL DEF PowerSpec
  <1> QED
    BY <1>2, <1>3, KeptAlways, PTL DEF AnswerSurvives
=============================================================================
