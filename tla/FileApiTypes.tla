---------------------------- MODULE FileApiTypes ----------------------------
(***************************************************************************)
(* The paths the children of FileApi build, what the calls of PosixTree do *)
(* to the tree, what choosing a reply does to a child, and what a walk along*)
(* a path meets; then that every step of FileApi preserves Typed, the types*)
(* and the stages, and that every step that neither opens nor publishes a  *)
(* file is calm: it shows no reader a file it could not see before.        *)
(***************************************************************************)
EXTENDS FileApiInv, SequenceLemmas

-----------------------------------------------------------------------------
(***************************************************************************)
(* Paths.                                                                  *)
(***************************************************************************)
Path == Seq(Name) \ {<<>>}

\* The prefixes mkdirs walks.
LEMMA PrefixIn ==
  ASSUME NEW S, NEW p \in Seq(S), NEW i \in 1 .. Len(p)
  PROVE  SubSeq(p, 1, i) \in Seq(S) \ {<<>>}
  <1>1. Len(p) \in Nat
    BY LenProperties
  <1>2. \A j \in 1 .. i : p[j] \in S
    BY <1>1, ElementOfSeq
  <1>3. SubSeq(p, 1, i) \in Seq(S) /\ Len(SubSeq(p, 1, i)) = i
    BY <1>1, <1>2, SubSeqProperties
  <1> QED
    BY <1>3, EmptySeq

\* Appending an element of S keeps a sequence over S.
LEMMA AppendIn ==
  ASSUME NEW S, NEW p \in Seq(S), NEW n \in S
  PROVE  /\ Append(p, n) \in Seq(S) \ {<<>>}
         /\ Last(Append(p, n)) = n
  BY AppendProperties, LenProperties DEF Last

\* What a client asks for lies in the share, and is a path over client names.
LEMMA RequestPaths ==
  ASSUME NEW r \in Requests
  PROVE  /\ r \in Request
         /\ r.path \in Seq(ClientName) \ {<<>>} /\ Len(r.path) <= MaxDepth
         /\ r.op \in {"PUT", "MOVE", "COPY"} =>
              Target(r) \in Seq(ClientName) \ {<<>>} /\ Len(Target(r)) <= MaxDepth
  BY RequestAssumption DEF Request, IsShared, Target

\* The path of a request consists of names clients use.
LEMMA ClientPath ==
  ASSUME NEW p \in Seq(ClientName) \ {<<>>}
  PROVE  p \in Path /\ Last(p) \in ClientName
  BY LastIn, SeqMonotonic DEF Path, Name

\* The last component of a nonempty path is a name.
LEMMA PathLast ==
  ASSUME NEW p \in Path
  PROVE  Last(p) \in Name
  BY LastIn DEF Path

\* The temporary path of a child that writes.
LEMMA TempPathIn ==
  ASSUME NEW c \in Conn, req[c] \in Requests, req[c].op \in {"PUT", "MOVE", "COPY"}
  PROVE  /\ TempPath(c) \in Path
         /\ Last(TempPath(c)) = Temp[c]
  <1>1. Target(req[c]) \in Seq(Name) \ {<<>>}
    BY RequestPaths, ClientPath DEF Path
  <1>2. Temp[c] \in Name
    BY DEF Name, TempName
  <1> QED
    BY <1>1, <1>2, FrontIn, AppendIn DEF TempPath, Path

\* The directories mkdirs is asked for, and each prefix it makes.
LEMMA MkdirsPathIn ==
  ASSUME NEW r \in Requests, r.op \in {"PUT", "MOVE", "COPY"}
  PROVE  /\ MkdirsPath(r) \in Seq(ClientName) /\ MkdirsPath(r) \in Seq(Name)
         /\ Len(MkdirsPath(r)) <= MaxDepth
  <1>1. Target(r) \in Seq(ClientName) \ {<<>>} /\ Len(Target(r)) <= MaxDepth
    BY RequestPaths
  <1>2. r.path \in Seq(ClientName) /\ Len(r.path) <= MaxDepth
    BY RequestPaths
  <1>3. Len(Target(r)) \in Nat /\ MaxDepth \in Nat
    BY <1>1, LenProperties, TreeAssumption
  <1>4. Front(Target(r)) \in Seq(ClientName) /\ Len(Front(Target(r))) = Len(Target(r)) - 1
    BY <1>1, FrontIn
  <1>5. MkdirsPath(r) \in Seq(ClientName) /\ Len(MkdirsPath(r)) <= MaxDepth
    BY <1>1, <1>2, <1>3, <1>4 DEF MkdirsPath
  <1>6. MkdirsPath(r) \in Seq(Name)
    BY <1>5, SeqMonotonic DEF Name
  <1> QED
    BY <1>5, <1>6

\* A prefix that fsapi_mkdirs makes is a nonempty path of client names.
LEMMA MkdirsPrefix ==
  ASSUME NEW r \in Requests, r.op \in {"PUT", "MOVE", "COPY"},
         NEW i \in 1 .. Len(MkdirsPath(r))
  PROVE  /\ i \in 1 .. MaxDepth
         /\ SubSeq(MkdirsPath(r), 1, i) \in Path
         /\ Last(SubSeq(MkdirsPath(r), 1, i)) \in ClientName
  <1>1. MkdirsPath(r) \in Seq(ClientName) /\ Len(MkdirsPath(r)) <= MaxDepth
    BY MkdirsPathIn
  <1>2. Len(MkdirsPath(r)) \in Nat /\ MaxDepth \in Nat
    BY <1>1, LenProperties, TreeAssumption
  <1>3. SubSeq(MkdirsPath(r), 1, i) \in Seq(ClientName) \ {<<>>}
    BY <1>1, PrefixIn
  <1>4. i \in 1 .. MaxDepth
    BY <1>1, <1>2
  <1> DEFINE q == SubSeq(MkdirsPath(r), 1, i)
  <1> HIDE DEF q
  <1>5. q \in Path /\ Last(q) \in ClientName
    BY <1>3, ClientPath DEF q
  <1> QED
    BY <1>4, <1>5 DEF q

-----------------------------------------------------------------------------
(***************************************************************************)
(* What a system call that succeeds says about the tree.                   *)
(***************************************************************************)
\* A path that leads to an inode is an entry of the directory that holds it.
LEMMA PresentEntry ==
  ASSUME NEW p \in Path, Present(p)
  PROVE  Holder(p) \in DirNode /\ Walk(p) = ent[Holder(p)][Last(p)]
  BY TreeAssumption DEF Present, Walk, Entry, Path, Node

\* A name that can be created has a directory to hold it and is free there.
LEMMA CreateFree ==
  ASSUME NEW p \in Path, CreateErr(p) = OK
  PROVE  Holder(p) \in DirNode /\ ent[Holder(p)][Last(p)] \notin Node
  BY DEF CreateErr, Present, Walk, Entry, Path, LookupErr, OK

\* unlink and rmdir succeed only on a name that a directory holds.
LEMMA UnlinkPresent ==
  ASSUME NEW p \in Path, UnlinkErr(p) = OK \/ RmdirErr(p) = OK
  PROVE  Holder(p) \in DirNode
  BY PresentEntry DEF UnlinkErr, RmdirErr, LookupErr, OK

\* rename succeeds only when its source exists and both holders are directories.
LEMMA RenamePresent ==
  ASSUME NEW p \in Path, NEW q \in Path, RenameErr(p, q) = OK
  PROVE  /\ Holder(p) \in DirNode /\ Holder(q) \in DirNode
         /\ Walk(p) \in Node /\ Walk(p) = ent[Holder(p)][Last(p)]
  <1>1. Holder(p) \in DirNode /\ Holder(q) \in DirNode /\ Present(p)
    BY DEF RenameErr, LookupErr, OK
  <1> QED
    BY <1>1, PresentEntry DEF Present

\* The effect of binding a name, and of moving one.
LEMMA BindEffect ==
  ASSUME TreeTypeOK, NEW p \in Path, NEW x \in Node \cup {None},
         Holder(p) \in DirNode, Bind(p, x)
  PROVE  /\ TreeTypeOK'
         /\ \A d \in DirNode, n \in Name :
              ent'[d][n] = IF d = Holder(p) /\ n = Last(p) THEN x ELSE ent[d][n]
  BY PathLast DEF TreeTypeOK, Bind

\* rename changes the two entries it names, and nothing else in the tree.
LEMMA RebindEffect ==
  ASSUME TreeTypeOK, NEW p \in Path, NEW q \in Path, RenameErr(p, q) = OK, Rebind(p, q)
  PROVE  /\ TreeTypeOK'
         /\ \A d \in DirNode, n \in Name :
              ent'[d][n] = IF d = Holder(q) /\ n = Last(q) THEN Walk(p)
                           ELSE IF d = Holder(p) /\ n = Last(p) THEN None ELSE ent[d][n]
  <1>1. Last(p) \in Name /\ Last(q) \in Name
    BY PathLast
  <1>2. Holder(p) \in DirNode /\ Holder(q) \in DirNode /\ Walk(p) \in Node
    BY RenamePresent
  <1> DEFINE hp == Holder(p)  hq == Holder(q)  lp == Last(p)  lq == Last(q)  w == Walk(p)
  <1>3. ent' = [ent EXCEPT ![hp][lp] = None, ![hq][lq] = w]
    BY DEF Rebind
  <1> HIDE DEF hp, hq, lp, lq, w
  <1>4. ent \in [DirNode -> [Name -> Node \cup {None}]]
    BY DEF TreeTypeOK
  <1>5. hp \in DirNode /\ hq \in DirNode /\ lp \in Name /\ lq \in Name /\ w \in Node
    BY <1>1, <1>2 DEF hp, hq, lp, lq, w
  <1>6. ent' \in [DirNode -> [Name -> Node \cup {None}]]
    BY <1>3, <1>4, <1>5
  <1>7. \A d \in DirNode, n \in Name :
          ent'[d][n] = IF d = hq /\ n = lq THEN w
                       ELSE IF d = hp /\ n = lp THEN None ELSE ent[d][n]
    BY <1>3, <1>4, <1>5
  <1> QED
    BY <1>6, <1>7 DEF TreeTypeOK, hp, hq, lp, lq, w

\* Removing a name changes one entry, to None.
LEMMA UnbindEffect ==
  ASSUME TreeTypeOK, NEW p \in Path, UnlinkErr(p) = OK \/ RmdirErr(p) = OK, Unbind(p)
  PROVE  /\ TreeTypeOK'
         /\ \A d \in DirNode, n \in Name : ent'[d][n] = ent[d][n] \/ ent'[d][n] = None
  BY UnlinkPresent, BindEffect DEF Unbind
-----------------------------------------------------------------------------
(***************************************************************************)
(* Replies and control.                                                    *)
(***************************************************************************)
Control == /\ pc \in [Conn -> Phase]
           /\ reply \in [Conn -> [status : Nat, err : Errno]]
Moves(c, l) == pc' = [pc EXCEPT ![c] = l]

\* Every call on the tree answers one of the errnos FileApi knows.
LEMMA ErrnoKinds ==
  ASSUME NEW p, NEW q
  PROVE  /\ OpenErr(p) \in {OK, "ENOENT", "ENOTDIR"}
         /\ LookupErr(Walk(p)) \in Errno
         /\ OpenErr(p) \in Errno /\ OpenDirErr(p) \in Errno /\ CreateErr(p) \in Errno
         /\ LinkErr(p, q) \in Errno /\ UnlinkErr(p) \in Errno /\ RmdirErr(p) \in Errno
         /\ RenameErr(p, q) \in Errno
  <1>1. /\ LookupErr(Walk(p)) \in {"ENOENT", "ENOTDIR"}
        /\ LookupErr(Walk(q)) \in {"ENOENT", "ENOTDIR"}
    BY DEF LookupErr
  <1>2. OpenErr(p) \in {OK, "ENOENT", "ENOTDIR"}
    BY <1>1 DEF OpenErr
  <1>3. OpenDirErr(p) \in {OK, "ENOENT", "ENOTDIR"}
    BY <1>1 DEF OpenDirErr
  <1>4. /\ CreateErr(p) \in {OK, "EEXIST", "ENOENT", "ENOTDIR"}
        /\ CreateErr(q) \in {OK, "EEXIST", "ENOENT", "ENOTDIR"}
    BY <1>1 DEF CreateErr
  <1>5. LinkErr(p, q) \in {OK, "EEXIST", "ENOENT", "ENOTDIR"}
    BY <1>1, <1>4 DEF LinkErr
  <1>6. UnlinkErr(p) \in {OK, "EISDIR", "ENOENT", "ENOTDIR"}
    BY <1>1 DEF UnlinkErr
  <1>7. RmdirErr(p) \in {OK, "ENOTEMPTY", "ENOENT", "ENOTDIR"}
    BY <1>1 DEF RmdirErr
  <1>8. RenameErr(p, q) \in {OK, "EINVAL", "EISDIR", "ENOTEMPTY", "ENOENT", "ENOTDIR"}
    BY <1>1 DEF RenameErr
  <1> QED
    BY <1>1, <1>2, <1>3, <1>4, <1>5, <1>6, <1>7, <1>8 DEF Errno, OK

\* Choosing a response moves the child's pc and sets its reply.
LEMMA ChooseEffect ==
  ASSUME Control, NEW c \in Conn, NEW s \in Nat, NEW e \in Errno, NEW l \in Phase,
         Choose(c, s, e, l)
  PROVE  Control' /\ Moves(c, l)
  BY DEF Control, Choose, Moves

\* A plain step moves the child's pc and keeps every reply.
LEMMA GotoEffect ==
  ASSUME Control, NEW c \in Conn, NEW l \in Phase, Goto(c, l)
  PROVE  Control' /\ Moves(c, l)
  BY DEF Control, Goto, Moves

\* An errno is mapped to an HTTP status.
LEMMA ErrHttpNat ==
  ASSUME NEW e \in Errno
  PROVE  ErrHttp(e) \in Nat /\ ErrName(e) \in Errno
  BY DEF ErrHttp, ErrName, Errno

\* An error reply ends the request with an errno of the table.
LEMMA FailEffect ==
  ASSUME Control, NEW c \in Conn, NEW e \in Errno, Fail(c, e)
  PROVE  Control' /\ Moves(c, "done")
  <1>1. "done" \in Phase
    BY DEF Phase
  <1> QED
    BY <1>1, ErrHttpNat, ChooseEffect DEF Fail

\* A success reply ends the request.
LEMMA AnswerEffect ==
  ASSUME Control, NEW c \in Conn, NEW s \in Nat, Answer(c, s)
  PROVE  Control' /\ Moves(c, "done")
  <1>1. "done" \in Phase /\ OK \in Errno
    BY DEF Phase, OK, Errno
  <1> QED
    BY <1>1, ChooseEffect DEF Answer

\* A failed precondition is told 412.
LEMMA PreconditionEffect ==
  ASSUME Control, NEW c \in Conn, NEW e \in Errno, NEW l \in Phase, Precondition(c, e, l)
  PROVE  Control' /\ Moves(c, l)
  <1>1. 412 \in Nat
    OBVIOUS
  <1>2. Choose(c, 412, e, l)
    BY Zenon DEF Precondition
  <1> QED
    BY <1>1, <1>2, ChooseEffect, Zenon

\* A failed write goes on to the given step with an error reply.
LEMMA WriteFailEffect ==
  ASSUME Control, NEW c \in Conn, NEW e \in Errno, NEW l \in Phase, WriteFail(c, e, l)
  PROVE  Control' /\ Moves(c, l)
  <1>1. CASE Precondition(c, e, l)
    BY <1>1, PreconditionEffect
  <1>2. CASE Choose(c, ErrHttp(e), ErrName(e), l)
    BY <1>2, ErrHttpNat, ChooseEffect
  <1> QED
    BY <1>1, <1>2 DEF WriteFail

\* Where a request goes once its directories are there.
Made(c, l) ==
  /\ Moves(c, l)
  /\ \/ l = "done"
     \/ l = "rename" /\ req[c].op = "MOVE"
     \/ l = "opentmp" /\ ~MakesDir(req[c]) /\ req[c].op # "MOVE"

\* After fsapi_mkdirs the child replies, renames or opens its temporary file.
LEMMA AfterMkdirsEffect ==
  ASSUME Control, NEW c \in Conn, AfterMkdirs(c)
  PROVE  Control' /\ \E l \in {"done", "rename", "opentmp"} : Made(c, l)
  <1>0. {"done", "rename", "opentmp"} \subseteq Phase
    BY DEF Phase
  <1>1. CASE MakesDir(req[c]) /\ Answer(c, 201)
    <2>1. 201 \in Nat
      OBVIOUS
    <2> QED
      BY <1>1, <2>1, AnswerEffect DEF Made
  <1>2. CASE req[c].op = "MOVE" /\ Goto(c, "rename")
    BY <1>0, <1>2, GotoEffect DEF Made
  <1>3. CASE ~MakesDir(req[c]) /\ req[c].op # "MOVE" /\ Goto(c, "opentmp")
    BY <1>0, <1>3, GotoEffect DEF Made
  <1> QED
    BY <1>1, <1>2, <1>3 DEF AfterMkdirs

\* Entering fsapi_mkdirs, the child makes a directory or is through at once.
LEMMA EnterMkdirsEffect ==
  ASSUME Control, NEW c \in Conn, EnterMkdirs(c), MkdirsPath(req[c]) \in Seq(Name)
  PROVE  /\ Control'
         /\ \/ Moves(c, "mkdirs") /\ Len(MkdirsPath(req[c])) > 0
            \/ \E l \in {"done", "rename", "opentmp"} : Made(c, l)
  <1>1. CASE MkdirsPath(req[c]) # <<>> /\ Goto(c, "mkdirs")
    <2>1. "mkdirs" \in Phase
      BY DEF Phase
    <2>2. Len(MkdirsPath(req[c])) > 0
      BY <1>1, EmptySeq
    <2> QED
      BY <1>1, <2>1, <2>2, GotoEffect
  <1>2. CASE AfterMkdirs(c)
    BY <1>2, AfterMkdirsEffect
  <1> QED
    BY <1>1, <1>2 DEF EnterMkdirs

-----------------------------------------------------------------------------

\* what the entry n of an inode w is in the tree e
EntryIn(e, w, n) == IF w \in DirNode THEN e[w][n] ELSE IF w \in FileNode THEN NotDir ELSE w

\* f holds the inodes a walk along p meets in the tree e, one for each prefix.
Trail(e, p, f) == f = [i \in 0 .. Len(p) |-> IF i = 0 THEN Top ELSE EntryIn(e, f[i - 1], p[i])]

\* The walk along a path is defined.
LEMMA TrailExists ==
  ASSUME NEW e, NEW p, Len(p) \in Nat
  PROVE  \E f : Trail(e, p, f)
  <1> DEFINE Upto(n, f) == f = [i \in 0 .. n |-> IF i = 0 THEN Top ELSE EntryIn(e, f[i - 1], p[i])]
             T == {n \in Nat : \E f : Upto(n, f)}
  <1>1. 0 \in T
    <2>1. Upto(0, [i \in 0 .. 0 |-> Top])
      OBVIOUS
    <2> QED
      BY <2>1
  <1>2. ASSUME NEW n \in Nat, n \in T
        PROVE  n + 1 \in T
    <2>1. PICK f : Upto(n, f)
      BY <1>2
    <2> DEFINE g == [i \in 0 .. n + 1 |-> IF i = n + 1 THEN EntryIn(e, f[n], p[n + 1]) ELSE f[i]]
    <2>2. Upto(n + 1, g)
      <3>1. ASSUME NEW i \in 0 .. n + 1
            PROVE  g[i] = IF i = 0 THEN Top ELSE EntryIn(e, g[i - 1], p[i])
        <4>1. CASE i = 0
          BY <2>1, <4>1
        <4>2. CASE i = n + 1
          BY <4>2
        <4>3. CASE i \in 1 .. n
          BY <2>1, <4>3
        <4> QED
          BY <4>1, <4>2, <4>3
      <3>2. g = [i \in 0 .. n + 1 |-> g[i]]
        OBVIOUS
      <3> HIDE DEF g
      <3> QED
        BY <3>1, <3>2
    <2> HIDE DEF Upto
    <2> QED
      BY <2>2
  <1> HIDE DEF T
  <1>3. Len(p) \in T
    BY <1>1, <1>2, SetInduction
  <1> QED
    BY <1>3 DEF T, Trail

\* One step of a walk.
LEMMA TrailStep ==
  ASSUME NEW e, NEW p, Len(p) \in Nat, NEW f, Trail(e, p, f)
  PROVE  /\ f[0] = Top
         /\ \A i \in 1 .. Len(p) : f[i] = EntryIn(e, f[i - 1], p[i])
  <1>1. \A i \in 0 .. Len(p) : f[i] = IF i = 0 THEN Top ELSE EntryIn(e, f[i - 1], p[i])
    BY DEF Trail
  <1> QED
    BY <1>1

\* Holder is where the walk along all but the last name ends.
LEMMA HolderTrail ==
  ASSUME NEW p, Len(p) \in Nat
  PROVE  /\ \E f : Trail(ent, p, f) /\ Holder(p) = f[Len(p) - 1]
         /\ \E f : Trail(ent', p, f) /\ Holder(p)' = f[Len(p) - 1]
  <1>1. /\ \E g : Trail(ent, p, g)
        /\ \E g : Trail(ent', p, g)
    BY TrailExists
  <1> DEFINE at == CHOOSE at : at = [i \in 0 .. Len(p) |-> IF i = 0 THEN Top ELSE Entry(at[i - 1], p[i])]
  <1>2. Holder(p) = at[Len(p) - 1] /\ Holder(p)' = at'[Len(p) - 1]
    BY DEF Holder
  <1>3. Trail(ent, p, at) /\ Trail(ent', p, at')
    BY <1>1 DEF Trail, Entry, EntryIn
  <1> QED
    BY <1>2, <1>3

\* A walk that has reached a directory has met directories only.
LEMMA TrailDirs ==
  ASSUME NEW e, NEW p, Len(p) \in Nat, NEW f, Trail(e, p, f),
         NEW k \in 0 .. Len(p), f[k] \in DirNode
  PROVE  \A i \in 0 .. k : f[i] \in DirNode
  <1> DEFINE T == {j \in Nat : j <= k => f[k - j] \in DirNode}
  <1>1. 0 \in T
    OBVIOUS
  <1>2. ASSUME NEW j \in Nat, j \in T
        PROVE  j + 1 \in T
    <2>1. CASE j + 1 <= k
      <3>1. f[k - j] \in DirNode /\ k - j \in 1 .. Len(p)
        BY <1>2, <2>1
      <3>2. f[k - j] = EntryIn(e, f[(k - j) - 1], p[k - j])
        BY <3>1, TrailStep
      <3>3. NotDir \notin DirNode
        BY TreeAssumption DEF Node
      <3>4. f[(k - j) - 1] \in DirNode
        BY <3>1, <3>2, <3>3 DEF EntryIn
      <3>5. (k - j) - 1 = k - (j + 1)
        BY <2>1
      <3> QED
        BY <3>4, <3>5
    <2>2. CASE ~(j + 1 <= k)
      BY <2>2
    <2> QED
      BY <2>1, <2>2
  <1> HIDE DEF T
  <1>3. Nat \subseteq T
    BY <1>1, <1>2, SetInduction
  <1>4. ASSUME NEW i \in 0 .. k
        PROVE  f[i] \in DirNode
    <2>1. k - i \in T /\ k - i \in Nat /\ k - i <= k /\ k - (k - i) = i
      BY <1>3
    <2> QED
      BY <2>1 DEF T
  <1> QED
    BY <1>4

\* A directory that holds the last name of a path is Top or has a name itself.
LEMMA HolderNamed ==
  ASSUME NEW p \in Path, Holder(p) \in DirNode
  PROVE  Holder(p) = Top \/ \E d \in DirNode, n \in Name : ent[d][n] = Holder(p)
  <1>1. Len(p) \in Nat /\ Len(p) >= 1
    BY EmptySeq, LenProperties DEF Path
  <1>2. PICK f : Trail(ent, p, f) /\ Holder(p) = f[Len(p) - 1]
    BY <1>1, HolderTrail
  <1>3. CASE Len(p) = 1
    <2>1. Len(p) - 1 = 0
      BY <1>3
    <2> QED
      BY <1>1, <1>2, <2>1, TrailStep
  <1>4. CASE Len(p) > 1
    <2> DEFINE k == Len(p) - 1
    <2>1. k \in 1 .. Len(p) /\ k - 1 \in 0 .. k /\ k \in 0 .. Len(p)
      BY <1>1, <1>4
    <2> HIDE DEF k
    <2>2. f[k] \in DirNode /\ f[k] = Holder(p)
      BY <1>2 DEF k
    <2>3. f[k - 1] \in DirNode
      BY <1>1, <1>2, <2>1, <2>2, TrailDirs
    <2>4. f[k] = ent[f[k - 1]][p[k]]
      BY <1>1, <1>2, <2>1, <2>3, TrailStep DEF EntryIn
    <2>5. p[k] \in Name
      BY <2>1, ElementOfSeq DEF Path
    <2> QED
      BY <2>2, <2>3, <2>4, <2>5
  <1>5. Len(p) = 1 \/ Len(p) > 1
    <2> DEFINE l == Len(p)
    <2>1. l \in Nat /\ l >= 1
      BY <1>1
    <2> HIDE DEF l
    <2>2. l = 1 \/ l > 1
      BY <2>1
    <2> QED
      BY <2>2 DEF l
  <1> QED
    BY <1>3, <1>4, <1>5, Zenon

\* The walks along p in the tree e1 and along q in the tree e2 meet the same
\* entries on their first k steps, which lead through directories.
Alongside(e1, p, f, e2, q, g, k) ==
  /\ Len(p) \in Nat /\ Trail(e1, p, f) /\ Len(q) \in Nat /\ Trail(e2, q, g)
  /\ k \in 0 .. Len(p) /\ k <= Len(q) /\ f[k] \in DirNode
  /\ \A i \in 1 .. k : f[i - 1] = g[i - 1] => e2[f[i - 1]][q[i]] = e1[f[i - 1]][p[i]]

\* Such walks go the same way.
LEMMA TrailsAgree ==
  ASSUME NEW e1, NEW p, NEW f, NEW e2, NEW q, NEW g, NEW k, Alongside(e1, p, f, e2, q, g, k)
  PROVE  g[k] = f[k]
  <1>0. /\ Len(p) \in Nat /\ Trail(e1, p, f) /\ Len(q) \in Nat /\ Trail(e2, q, g)
        /\ k \in 0 .. Len(p) /\ k <= Len(q) /\ f[k] \in DirNode
        /\ \A i \in 1 .. k : f[i - 1] = g[i - 1] => e2[f[i - 1]][q[i]] = e1[f[i - 1]][p[i]]
    BY DEF Alongside
  <1> DEFINE T == {i \in Nat : i <= k => g[i] = f[i]}
  <1>1. \A i \in 0 .. k : f[i] \in DirNode
    BY <1>0, TrailDirs
  <1>2. 0 \in T
    BY <1>0, TrailStep
  <1>3. ASSUME NEW i \in Nat, i \in T
        PROVE  i + 1 \in T
    <2>1. CASE i + 1 <= k
      <3>1. /\ i \in 0 .. k /\ i + 1 \in 1 .. k /\ (i + 1) - 1 = i
            /\ i + 1 \in 1 .. Len(p) /\ i + 1 \in 1 .. Len(q)
        BY <1>0, <2>1
      <3>2. f[i] \in DirNode /\ g[i] = f[i]
        BY <1>1, <1>3, <2>1, <3>1
      <3>3. f[i + 1] = e1[f[i]][p[i + 1]] /\ g[i + 1] = e2[f[i]][q[i + 1]]
        <4>1. f[i + 1] = EntryIn(e1, f[(i + 1) - 1], p[i + 1])
          BY <1>0, <3>1, TrailStep
        <4>2. g[i + 1] = EntryIn(e2, g[(i + 1) - 1], q[i + 1])
          BY <1>0, <3>1, TrailStep
        <4> QED
          BY <3>1, <3>2, <4>1, <4>2 DEF EntryIn
      <3>4. e2[f[i]][q[i + 1]] = e1[f[i]][p[i + 1]]
        BY <1>0, <3>1, <3>2
      <3> QED
        BY <3>3, <3>4
    <2>2. CASE ~(i + 1 <= k)
      BY <2>2
    <2> QED
      BY <2>1, <2>2
  <1>4. k \in Nat /\ k <= k
    BY <1>0
  <1>5. k \in T
    <2> HIDE DEF T
    <2> QED
      BY <1>2, <1>3, <1>4, SetInduction
  <1> QED
    BY <1>4, <1>5

\* A step that leaves the entries on the way of a path alone leaves its holder.
LEMMA TrailKept ==
  ASSUME NEW p \in Path, NEW f, Trail(ent, p, f), f[Len(p) - 1] \in DirNode,
         \A i \in 1 .. Len(p) - 1 : ent'[f[i - 1]][p[i]] = ent[f[i - 1]][p[i]]
  PROVE  Holder(p)' = f[Len(p) - 1]
  <1>1. Len(p) \in Nat /\ Len(p) >= 1
    BY EmptySeq, LenProperties DEF Path
  <1>2. PICK g : Trail(ent', p, g) /\ Holder(p)' = g[Len(p) - 1]
    BY <1>1, HolderTrail
  <1> DEFINE k == Len(p) - 1
  <1>3. /\ k \in 0 .. Len(p) /\ k <= Len(p) /\ f[k] \in DirNode
        /\ \A i \in 1 .. k : f[i - 1] = g[i - 1] =>
             ent'[f[i - 1]][p[i]] = ent[f[i - 1]][p[i]]
    BY <1>1
  <1> HIDE DEF k
  <1>4. g[k] = f[k]
    <2>1. Alongside(ent, p, f, ent', p, g, k)
      BY <1>1, <1>2, <1>3 DEF Alongside
    <2> QED
      BY <2>1, TrailsAgree
  <1> QED
    BY <1>2, <1>4 DEF k

\* The entries on the way to a path's holder lead from directory to directory.
LEMMA TrailEntries ==
  ASSUME NEW e, NEW p \in Path, NEW f, Trail(e, p, f),
         NEW k \in 0 .. Len(p), f[k] \in DirNode, NEW i \in 1 .. k
  PROVE  /\ f[i - 1] \in DirNode /\ p[i] \in Name
         /\ f[i] = e[f[i - 1]][p[i]] /\ f[i] \in DirNode
  <1>1. Len(p) \in Nat
    BY LenProperties DEF Path
  <1>2. i \in 1 .. Len(p) /\ i - 1 \in 0 .. k /\ i \in 0 .. k
    BY <1>1
  <1>3. f[i - 1] \in DirNode /\ f[i] \in DirNode
    BY <1>1, <1>2, TrailDirs
  <1>4. f[i] = EntryIn(e, f[i - 1], p[i])
    BY <1>1, <1>2, TrailStep
  <1>5. p[i] \in Name
    BY <1>2, ElementOfSeq DEF Path
  <1> QED
    BY <1>3, <1>4, <1>5 DEF EntryIn

\* A step that leaves the directories' own entries alone leaves the walk to the
\* last name of a path alone.
LEMMA HolderStays ==
  ASSUME NEW p \in Path, Holder(p) \in DirNode,
         \A d \in DirNode, n \in Name : ent[d][n] \in DirNode => ent'[d][n] = ent[d][n]
  PROVE  Holder(p)' = Holder(p)
  <1>1. Len(p) \in Nat /\ Len(p) >= 1
    BY EmptySeq, LenProperties DEF Path
  <1>2. PICK f : Trail(ent, p, f) /\ Holder(p) = f[Len(p) - 1]
    BY <1>1, HolderTrail
  <1> DEFINE k == Len(p) - 1
  <1>3. k \in 0 .. Len(p) /\ f[k] \in DirNode
    BY <1>1, <1>2
  <1> HIDE DEF k
  <1>4. \A i \in 1 .. k : ent'[f[i - 1]][p[i]] = ent[f[i - 1]][p[i]]
    BY <1>2, <1>3, TrailEntries
  <1> QED
    BY <1>2, <1>3, <1>4, TrailKept DEF k

-----------------------------------------------------------------------------
(***************************************************************************)
(* Calm steps.                                                             *)
(***************************************************************************)
KeepsNames ==
  /\ \A b \in Bindings :
       ent'[b[1]][b[2]] \in FileNode =>
         \E a \in Bindings : ent[a[1]][a[2]] = ent'[b[1]][b[2]]
  /\ \A d \in DirNode, c \in Conn : ent'[d][Temp[c]] \in {None, ent[d][Temp[c]]}
KeepsReaders ==
  \A c \in Conn : loc'[c].fd = loc[c].fd /\ loc'[c].listing = loc[c].listing
KeepsWriters ==
  \A c \in Conn : /\ pc'[c] \in Unpublished => pc[c] \in Unpublished
                  /\ pc'[c] \in {"fill", "publish"} => pc'[c] = pc[c] /\ req'[c] = req[c]
Calm == KeepsNames /\ KeepsReaders /\ KeepsWriters /\ UNCHANGED file

\* A child's move to l with the local state m, in a step that keeps the other
\* variables' types, preserves Typed when m is what the stage l asks for.
LEMMA StageStep ==
  ASSUME Typed, NEW c \in Conn, NEW l \in Phase, Control', Moves(c, l), TreeTypeOK',
         file' \in [FileNode -> Inode], UNCHANGED <<now, req>>,
         NEW m \in Locals, loc' = [loc EXCEPT ![c] = m], StageAt(l, req[c], m)
  PROVE  Typed'
  <1>1. /\ loc' \in [Conn -> Locals] /\ loc'[c] = m
        /\ \A x \in Conn \ {c} : loc'[x] = loc[x]
    BY DEF Typed, TypeOK
  <1>2. pc'[c] = l /\ \A x \in Conn \ {c} : pc'[x] = pc[x]
    BY DEF Typed, TypeOK, Moves
  <1>3. TypeOK'
    BY <1>1 DEF Typed, TypeOK, Control
  <1>4. ASSUME NEW x \in Conn
        PROVE  StageAt(pc'[x], req'[x], loc'[x])
    <2>1. CASE x = c
      BY <1>1, <1>2, <2>1
    <2>2. CASE x # c
      <3>1. StageAt(pc[x], req[x], loc[x])
        BY DEF Typed, Stage
      <3> QED
        BY <1>1, <1>2, <2>2, <3>1
    <2> QED
      BY <2>1, <2>2
  <1> QED
    BY <1>3, <1>4 DEF Typed, Stage

\* The same for a step that changes no file and opens none.
LEMMA CalmStep ==
  ASSUME Typed, NEW c \in Conn, NEW l \in Phase, Control', Moves(c, l), TreeTypeOK', KeepsNames,
         UNCHANGED <<file, now, req>>,
         NEW m \in Locals, loc' = [loc EXCEPT ![c] = m], StageAt(l, req[c], m),
         m.fd = loc[c].fd, m.listing = loc[c].listing,
         l \notin {"fill", "publish"}, l \in Unpublished => pc[c] \in Unpublished
  PROVE  Typed' /\ Calm
  <1>1. Typed'
    BY StageStep DEF Typed, TypeOK
  <1>2. KeepsReaders
    BY DEF Typed, TypeOK, KeepsReaders
  <1>3. KeepsWriters
    BY DEF Typed, TypeOK, Moves, KeepsWriters
  <1> QED
    BY <1>1, <1>2, <1>3 DEF Calm

\* A step that leaves the tree alone keeps its type.
LEMMA SameTree ==
  ASSUME Typed, UNCHANGED ent
  PROVE  TreeTypeOK' /\ KeepsNames
  BY DEF Typed, TypeOK, TreeTypeOK, KeepsNames

\* A step that leaves the children's locals alone, as an update of one child's record.
LEMMA SameLocal ==
  ASSUME Typed, NEW c \in Conn, UNCHANGED loc
  PROVE  loc[c] \in Locals /\ loc' = [loc EXCEPT ![c] = loc[c]]
  BY DEF Typed, TypeOK

\* A typed state has its control variables and its tree typed.
LEMMA TypedControl ==
  ASSUME Typed
  PROVE  Control /\ TreeTypeOK
  BY DEF Typed, TypeOK, Control

\* A child that is past its arrival has a request, on a path of client names.
LEMMA Requested ==
  ASSUME Typed, NEW c \in Conn, pc[c] # "idle"
  PROVE  /\ req[c] \in Requests /\ req[c] \in Request
         /\ req[c].path \in Path /\ Last(req[c].path) \in ClientName
         /\ req[c].op \in {"PUT", "MOVE", "COPY"} =>
              Target(req[c]) \in Path /\ Last(Target(req[c])) \in ClientName
  BY RequestPaths, ClientPath DEF Typed, Stage, StageAt

\* A stat result is a Stat.
LEMMA StatIn ==
  ASSUME Typed, NEW p
  PROVE  StatOf(p) \in Stat
  <1>1. OpenErr(p) \in {OK, "ENOENT", "ENOTDIR"}
    BY ErrnoKinds
  <1>2. \A w \in FileNode : Etag(w) \in Nat \X Nat
    BY DEF Etag, Typed, TypeOK, Inode
  <1> QED
    BY <1>1, <1>2 DEF StatOf, Stat

-----------------------------------------------------------------------------
(***************************************************************************)
(* The environment and the arrival of a request.                           *)
(***************************************************************************)
LEMMA TickTyped ==
  ASSUME Typed, Tick
  PROVE  Typed' /\ Calm
  <1>1. TreeTypeOK' /\ KeepsNames
    BY SameTree DEF Tick
  <1>2. Typed'
    BY <1>1 DEF Tick, Typed, TypeOK, Stage
  <1> QED
    BY <1>1, <1>2 DEF Calm, Tick, KeepsReaders, KeepsWriters

\* Killing a child keeps types and stages.
LEMMA KillTyped ==
  ASSUME Typed, NEW c \in Conn, Kill(c)
  PROVE  Typed' /\ Calm
  <1>1. TreeTypeOK' /\ KeepsNames
    BY SameTree DEF Kill
  <1>2. "dead" \in Phase /\ Moves(c, "dead") /\ Control'
    BY DEF Kill, Moves, Control, Phase, Typed, TypeOK
  <1>3. StageAt("dead", req[c], loc[c])
    BY Requested DEF Kill, StageAt, Uploading, Removing
  <1>4. "dead" \notin Unpublished
    BY DEF Unpublished
  <1>5. loc[c] \in Locals /\ loc' = [loc EXCEPT ![c] = loc[c]]
    BY SameLocal DEF Kill
  <1> QED
    BY <1>1, <1>2, <1>3, <1>4, <1>5, CalmStep DEF Kill

\* The arrival of a request keeps types and stages.
LEMMA HandleRequestTyped ==
  ASSUME Typed, NEW c \in Conn, HandleRequest(c)
  PROVE  Typed' /\ Calm
  <1>1. TreeTypeOK' /\ KeepsNames
    BY SameTree DEF HandleRequest
  <1>2. PICK l \in {"stat", "done"} : Control' /\ Moves(c, l)
    <2>1. "EACCES" \in Errno /\ "stat" \in Phase
      BY DEF Errno, Phase
    <2> QED
      BY <2>1, TypedControl, GotoEffect, FailEffect DEF HandleRequest
  <1>3. /\ pc'[c] = l /\ \A x \in Conn \ {c} : pc'[x] = pc[x]
        /\ req'[c] \in Requests /\ \A x \in Conn \ {c} : req'[x] = req[x]
        /\ req' \in [Conn -> Requests \cup {None}]
    BY <1>2 DEF HandleRequest, Moves, Typed, TypeOK
  <1>4. loc[c].k = 0
    BY DEF HandleRequest, Typed, Stage, StageAt
  <1>5. StageAt(l, req'[c], loc[c])
    BY <1>3, <1>4 DEF StageAt, Uploading, Removing
  <1>6. TypeOK'
    BY <1>1, <1>2, <1>3 DEF HandleRequest, Typed, TypeOK, Control
  <1>7. Stage'
    <2>1. ASSUME NEW x \in Conn PROVE StageAt(pc'[x], req'[x], loc'[x])
      <3>1. StageAt(pc[x], req[x], loc[x])
        BY DEF Typed, Stage
      <3> QED
        BY <1>3, <1>5, <3>1 DEF HandleRequest
    <2> QED
      BY <2>1 DEF Stage
  <1>8. KeepsWriters
    BY <1>3 DEF HandleRequest, KeepsWriters, Unpublished
  <1> QED
    BY <1>1, <1>6, <1>7, <1>8 DEF HandleRequest, Typed, Calm, KeepsReaders

-----------------------------------------------------------------------------
(***************************************************************************)
(* GET and HEAD.                                                           *)
(***************************************************************************)
LEMMA DispatchGetTyped ==
  ASSUME Typed, NEW c \in Conn, DispatchGet(c)
  PROVE  Typed' /\ Calm
  <1> DEFINE s == StatOf(req[c].path)
             m == [loc[c] EXCEPT !.st = s]
  <1>1. TreeTypeOK' /\ KeepsNames
    BY SameTree DEF DispatchGet
  <1>2. s \in Stat
    BY StatIn
  <1>3. s.err \in Errno /\ {"ENOTDIR", "EISDIR"} \subseteq Errno
    BY <1>2 DEF Stat, Errno
  <1>4. PICK l \in {"opendir", "open", "done"} : Control' /\ Moves(c, l)
    <2>1. {"opendir", "open"} \subseteq Phase /\ 200 \in Nat
      BY DEF Phase
    <2> HIDE DEF s
    <2>2. \/ Fail(c, s.err) \/ Fail(c, "ENOTDIR") \/ Fail(c, "EISDIR")
          \/ Answer(c, 200) \/ Goto(c, "opendir") \/ Goto(c, "open")
      BY DEF DispatchGet, s
    <2> QED
      BY <1>3, <2>1, <2>2, TypedControl, GotoEffect, FailEffect, AnswerEffect
  <1>5. l \in Phase /\ l \notin Unpublished
    BY DEF Phase, Unpublished
  <1>6. loc' = [loc EXCEPT ![c] = m] /\ m \in Locals /\ m.fd = loc[c].fd /\ m.listing = loc[c].listing
    <2> HIDE DEF s
    <2> QED
      BY <1>2 DEF DispatchGet, s, Locals, Typed, TypeOK
  <1>7. StageAt(l, req[c], m)
    BY Requested DEF DispatchGet, At, StageAt, Uploading, Removing
  <1> QED
    BY <1>1, <1>4, <1>5, <1>6, <1>7, CalmStep DEF DispatchGet, Unpublished

\* serve_file's open: the only reading step that looks a path up again.
LEMMA OpenFileTyped ==
  ASSUME Typed, NEW c \in Conn, OpenFile(c)
  PROVE  /\ Typed'
         /\ Calm \/ /\ UNCHANGED <<ent, file, req>> /\ KeepsWriters
                    /\ Present(req[c].path)
                    /\ loc' = [loc EXCEPT ![c].fd = Walk(req[c].path)]
  <1> DEFINE p == req[c].path
  <1>1. TreeTypeOK' /\ KeepsNames
    BY SameTree DEF OpenFile
  <1>2. CASE Present(p) /\ loc' = [loc EXCEPT ![c].fd = Walk(p)]
             /\ Choose(c, 200, OK, IF req[c].op = "HEAD" THEN "done" ELSE "send")
    <2>1. PICK l \in {"done", "send"} : Choose(c, 200, OK, l)
      BY <1>2
    <2>2. l \in Phase /\ 200 \in Nat /\ OK \in Errno
      BY DEF Phase, Errno
    <2>3. Control' /\ Moves(c, l)
      BY <2>1, <2>2, TypedControl, ChooseEffect
    <2> DEFINE m == [loc[c] EXCEPT !.fd = Walk(p)]
    <2>4. loc' = [loc EXCEPT ![c] = m] /\ m \in Locals
      BY <1>2 DEF Present, Locals, Typed, TypeOK
    <2>5. StageAt(l, req[c], m)
      BY Requested DEF OpenFile, StageAt, Uploading, Removing
    <2>6. KeepsWriters
      BY <2>3 DEF OpenFile, Moves, KeepsWriters, Unpublished, Typed, TypeOK
    <2>7. file' \in [FileNode -> Inode]
      BY DEF OpenFile, Typed, TypeOK
    <2>8. Typed'
      BY <1>1, <2>2, <2>3, <2>4, <2>5, <2>7, StageStep DEF OpenFile
    <2> QED
      BY <1>2, <2>6, <2>8 DEF OpenFile
  <1>3. CASE Fail(c, OpenErr(p)) /\ UNCHANGED loc
    <2>1. Control' /\ Moves(c, "done") /\ "done" \in Phase
      BY <1>3, ErrnoKinds, TypedControl, FailEffect DEF Phase
    <2>2. StageAt("done", req[c], loc[c])
      BY Requested DEF OpenFile, StageAt, Uploading, Removing
    <2>3. loc[c] \in Locals /\ loc' = [loc EXCEPT ![c] = loc[c]]
      BY <1>3, SameLocal
    <2> QED
      BY <1>1, <2>1, <2>2, <2>3, CalmStep DEF OpenFile, Unpublished
  <1> QED
    BY <1>2, <1>3 DEF OpenFile

\* The send loop of serve_file keeps types and stages.
LEMMA SendTyped ==
  ASSUME Typed, NEW c \in Conn, SendByte(c) \/ EndSend(c)
  PROVE  Typed' /\ Calm
  <1>1. TreeTypeOK' /\ KeepsNames
    BY SameTree DEF SendByte, EndSend
  <1>2. PICK l \in {"send", "done"} : Control' /\ Moves(c, l)
    <2>1. CASE SendByte(c)
      BY <2>1 DEF SendByte, Moves, Typed, TypeOK, Control
    <2>2. CASE EndSend(c)
      BY <2>2, TypedControl, GotoEffect DEF EndSend, Phase
    <2> QED
      BY <2>1, <2>2
  <1>3. l \in Phase /\ l \notin Unpublished
    BY DEF Phase, Unpublished
  <1>4. loc[c] \in Locals
    BY DEF Typed, TypeOK
  <1>5. PICK m \in {loc[c], [loc[c] EXCEPT !.k = @ + 1]} : loc' = [loc EXCEPT ![c] = m]
    BY SameLocal DEF SendByte, EndSend
  <1>6. m \in Locals /\ m.fd = loc[c].fd /\ m.listing = loc[c].listing
    BY <1>4 DEF Locals
  <1>7. StageAt(l, req[c], m)
    BY Requested DEF SendByte, EndSend, StageAt, Uploading, Removing
  <1> QED
    BY <1>1, <1>2, <1>3, <1>5, <1>6, <1>7, CalmStep DEF SendByte, EndSend, Unpublished

\* A directory stream, opened or not, is a Stream.
LEMMA StreamIn ==
  ASSUME Typed, NEW p \in Path
  PROVE  /\ Unopened(p) \in Stream
         /\ Walk(p) \in DirNode => OpenStream(p) \in Stream
  BY TypedControl DEF Unopened, OpenStream, Stream, Path, NoEntries, TreeTypeOK

\* The opendir of fsapi_list_json keeps types and stages.
LEMMA OpenListTyped ==
  ASSUME Typed, NEW c \in Conn, OpenList(c)
  PROVE  Typed' /\ Calm
  <1> DEFINE p == req[c].path
  <1>1. TreeTypeOK' /\ KeepsNames
    BY SameTree DEF OpenList
  <1>2. CASE Walk(p) \in DirNode /\ Goto(c, "list") /\ loc' = [loc EXCEPT ![c].frames = <<OpenStream(p)>>]
    <2> DEFINE fr == <<OpenStream(p)>>
               m == [loc[c] EXCEPT !.frames = fr]
    <2>1. Control' /\ Moves(c, "list") /\ "list" \in Phase /\ "list" \notin Unpublished
      BY <1>2, TypedControl, GotoEffect DEF Phase, Unpublished
    <2>2. p \in Path
      BY Requested DEF OpenList
    <2>3. OpenStream(p) \in Stream
      BY <1>2, <2>2, StreamIn
    <2>4. fr \in Seq(Stream) /\ fr # <<>> /\ loc' = [loc EXCEPT ![c].frames = fr]
      BY <1>2, <2>3
    <2>5. /\ loc' = [loc EXCEPT ![c] = m] /\ m \in Locals
          /\ m.fd = loc[c].fd /\ m.listing = loc[c].listing /\ m.frames = fr
      <3> HIDE DEF fr
      <3> QED
        BY <2>4 DEF Locals, Typed, TypeOK
    <2>6. StageAt("list", req[c], m)
      BY <2>4, <2>5, Requested DEF OpenList, StageAt, Uploading, Removing
    <2> QED
      BY <1>1, <2>1, <2>5, <2>6, CalmStep DEF OpenList
  <1>3. CASE Fail(c, OpenDirErr(p)) /\ UNCHANGED loc
    <2>1. Control' /\ Moves(c, "done") /\ "done" \in Phase
      BY <1>3, ErrnoKinds, TypedControl, FailEffect DEF Phase
    <2>2. StageAt("done", req[c], loc[c])
      BY Requested DEF OpenList, StageAt, Uploading, Removing
    <2>3. loc[c] \in Locals /\ loc' = [loc EXCEPT ![c] = loc[c]]
      BY <1>3, SameLocal
    <2> QED
      BY <1>1, <2>1, <2>2, <2>3, CalmStep DEF OpenList, Unpublished
  <1> QED
    BY <1>2, <1>3 DEF OpenList

\* readdir and stat of one child: the listing gains at most one entry.
LEMMA ListEntryTyped ==
  ASSUME Typed, NEW c \in Conn, ListEntry(c)
  PROVE  /\ Typed' /\ UNCHANGED <<ent, file, pc, req>>
         /\ \A x \in Conn : loc'[x].fd = loc[x].fd
         /\ \A x \in Conn : \A e \in loc'[x].listing :
              \/ e \in loc[x].listing
              \/ \E d \in DirNode : /\ e.node = ent[d][e.name]
                                    /\ e.node \in FileNode => e.size = file[e.node].size
  <1> DEFINE s == Head(loc[c].frames)
  <1>1. PICK n \in Unread(s) :
          LET w == Walk(Append(s.path, n))
              e == [name |-> n, node |-> w, size |-> IF w \in FileNode THEN file[w].size ELSE 0]
          IN  loc' = [loc EXCEPT ![c].frames = <<[s EXCEPT !.seen = @ \cup {n}]>>,
                                 ![c].listing = IF w \in Node THEN @ \cup {e} ELSE @]
    BY DEF ListEntry
  <1> DEFINE w  == Walk(Append(s.path, n))
             e  == [name |-> n, node |-> w, size |-> IF w \in FileNode THEN file[w].size ELSE 0]
             fr == <<[s EXCEPT !.seen = @ \cup {n}]>>
             li == IF w \in Node THEN loc[c].listing \cup {e} ELSE loc[c].listing
             m  == [loc[c] EXCEPT !.frames = fr, !.listing = li]
  <1>2. loc[c] \in Locals /\ loc[c].frames # <<>> /\ loc[c].frames \in Seq(Stream)
    BY DEF ListEntry, Typed, TypeOK, Stage, StageAt, Locals
  <1>3. s \in Stream /\ n \in Name /\ s.path \in Seq(Name)
    <2>1. s \in Stream
      BY <1>2, HeadTailProperties
    <2> HIDE DEF s
    <2>2. n \in Name
      BY <1>1 DEF Unread
    <2>3. s.path \in Seq(Name)
      BY <2>1 DEF Stream
    <2> QED
      BY <2>1, <2>2, <2>3
  <1>4. fr \in Seq(Stream) /\ fr # <<>>
    <2>1. [s EXCEPT !.seen = @ \cup {n}] \in Stream
      BY <1>3 DEF Stream
    <2> QED
      BY <2>1
  <1>5. Append(s.path, n) \in Path /\ Last(Append(s.path, n)) = n
    BY <1>3, AppendIn DEF Path
  <1>6. w \in Node => e \in [name : Name, node : Node, size : Nat]
    BY <1>3 DEF Typed, TypeOK, Inode
  <1>7. w \in Node => \E d \in DirNode : w = ent[d][n]
    BY <1>5, PresentEntry DEF Present
  <1>8. li \in SUBSET [name : Name, node : Node, size : Nat]
    BY <1>2, <1>6 DEF Locals
  <1>9. loc' = [loc EXCEPT ![c] = m] /\ m \in Locals /\ m.fd = loc[c].fd /\ m.listing = li /\ m.frames = fr
    <2>1. loc' = [loc EXCEPT ![c].frames = fr, ![c].listing = li]
      BY <1>1, Zenon
    <2> HIDE DEF fr, li
    <2> QED
      BY <1>2, <1>4, <1>8, <2>1 DEF Locals, Typed, TypeOK
  <1>10. Typed'
    <2>1. Control' /\ Moves(c, "list") /\ "list" \in Phase /\ TreeTypeOK' /\ file' \in [FileNode -> Inode]
      BY DEF ListEntry, Control, Moves, Phase, Typed, TypeOK, TreeTypeOK
    <2> HIDE DEF m, fr
    <2>2. StageAt("list", req[c], m)
      BY <1>4, <1>9, Requested DEF ListEntry, StageAt, Uploading, Removing
    <2> QED
      BY <1>9, <2>1, <2>2, StageStep DEF ListEntry
  <1>11. loc'[c] = m /\ \A x \in Conn \ {c} : loc'[x] = loc[x]
    <2> HIDE DEF m
    <2> QED
      BY <1>9 DEF Typed, TypeOK
  <1>12. \A x \in Conn : loc'[x].fd = loc[x].fd
    <2> HIDE DEF m
    <2> QED
      BY <1>9, <1>11
  <1>13. ASSUME NEW x \in Conn, NEW i \in loc'[x].listing, i \notin loc[x].listing
         PROVE  \E d \in DirNode : /\ i.node = ent[d][i.name]
                                   /\ i.node \in FileNode => i.size = file[i.node].size
    <2>1. x = c /\ i \in li
      BY <1>9, <1>11, <1>13
    <2>2. w \in Node /\ i = e
      BY <1>13, <2>1
    <2> QED
      BY <1>7, <2>2
  <1> QED
    BY <1>10, <1>12, <1>13 DEF ListEntry

\* The end of a listing keeps types and stages.
LEMMA EndListTyped ==
  ASSUME Typed, NEW c \in Conn, EndList(c)
  PROVE  Typed' /\ Calm
  <1> DEFINE fr == <<>>
             m == [loc[c] EXCEPT !.frames = fr]
  <1>1. TreeTypeOK' /\ KeepsNames
    BY SameTree DEF EndList
  <1>2. Control' /\ Moves(c, "done") /\ "done" \in Phase /\ "done" \notin Unpublished
    <2>1. 200 \in Nat
      OBVIOUS
    <2> QED
      BY <2>1, TypedControl, AnswerEffect DEF EndList, Phase, Unpublished
  <1>3. loc' = [loc EXCEPT ![c] = m] /\ m \in Locals /\ m.fd = loc[c].fd /\ m.listing = loc[c].listing
    <2>1. fr \in Seq(Stream) /\ loc' = [loc EXCEPT ![c].frames = fr]
      BY DEF EndList
    <2> HIDE DEF fr
    <2> QED
      BY <2>1 DEF Locals, Typed, TypeOK
  <1> HIDE DEF m
  <1>4. StageAt("done", req[c], m)
    BY Requested DEF EndList, StageAt, Uploading, Removing
  <1> QED
    BY <1>1, <1>2, <1>3, <1>4, CalmStep DEF EndList


-----------------------------------------------------------------------------
(***************************************************************************)
(* PUT, MOVE and COPY up to the temporary file.                            *)
(***************************************************************************)
Writes(c, m) ==
  /\ req[c].op \in {"PUT", "MOVE", "COPY"}
  /\ req[c].op = "COPY" => m.fd \in FileNode
  /\ req[c].op = "PUT" /\ ~MakesDir(req[c]) => req[c].len \in Nat

\* The step after fsapi_mkdirs finds what its stage needs.
LEMMA AfterStage ==
  ASSUME Typed, NEW c \in Conn, req[c] \in Requests, AfterMkdirs(c), NEW m, Writes(c, m)
  PROVE  \E l \in {"done", "rename", "opentmp"} :
           Control' /\ Moves(c, l) /\ StageAt(l, req[c], m)
  <1>1. PICK l \in {"done", "rename", "opentmp"} : Control' /\ Made(c, l)
    BY TypedControl, AfterMkdirsEffect
  <1>2. StageAt(l, req[c], m)
    BY <1>1 DEF Made, Writes, StageAt, Uploading, Removing
  <1> QED
    BY <1>1, <1>2 DEF Made

\* The step that enters fsapi_mkdirs finds what its stage needs.
LEMMA EnterStage ==
  ASSUME Typed, NEW c \in Conn, req[c] \in Requests, EnterMkdirs(c), NEW m, Writes(c, m), m.k = 0
  PROVE  \E l \in {"mkdirs", "done", "rename", "opentmp"} :
           Control' /\ Moves(c, l) /\ StageAt(l, req[c], m)
  <1>1. MkdirsPath(req[c]) \in Seq(Name)
    BY MkdirsPathIn DEF Writes
  <1>2. CASE Control' /\ Moves(c, "mkdirs") /\ Len(MkdirsPath(req[c])) > 0
    <2>1. StageAt("mkdirs", req[c], m)
      BY <1>2 DEF Writes, StageAt, Uploading, Removing
    <2> QED
      BY <1>2, <2>1
  <1>3. CASE \E l \in {"done", "rename", "opentmp"} : Control' /\ Made(c, l)
    <2>1. PICK l \in {"done", "rename", "opentmp"} : Control' /\ Made(c, l)
      BY <1>3
    <2>2. StageAt(l, req[c], m)
      BY <2>1 DEF Made, Writes, StageAt, Uploading, Removing
    <2> QED
      BY <2>1, <2>2 DEF Made
  <1> QED
    BY <1>1, <1>2, <1>3, TypedControl, EnterMkdirsEffect

\* The decisions of a PUT keep types and stages.
LEMMA DispatchPutTyped ==
  ASSUME Typed, NEW c \in Conn, DispatchPut(c)
  PROVE  Typed' /\ Calm
  <1> DEFINE s == StatOf(req[c].path)
             m == [loc[c] EXCEPT !.st = s]
  <1>1. TreeTypeOK' /\ KeepsNames
    BY SameTree DEF DispatchPut
  <1>2. s \in Stat
    BY StatIn
  <1>3. /\ pc[c] = "stat" /\ req[c].op = "PUT" /\ req[c] \in Requests /\ req[c] \in Request
        /\ loc[c].k = 0
    BY Requested DEF DispatchPut, At, Typed, Stage, StageAt
  <1>4. /\ loc' = [loc EXCEPT ![c] = m] /\ m \in Locals
        /\ m.fd = loc[c].fd /\ m.listing = loc[c].listing /\ m.k = 0
    <2> HIDE DEF s
    <2> QED
      BY <1>2, <1>3 DEF DispatchPut, s, Locals, Typed, TypeOK
  <1>5. /\ 204 \in Nat /\ 411 \in Nat /\ OK \in Errno
        /\ {"ENOTDIR", "EISDIR", "EEXIST", "EMISMATCH", "ELENGTH"} \subseteq Errno
        /\ "done" \in Phase
    BY DEF Errno, Phase
  <1>6. CASE \/ Answer(c, 204) \/ Fail(c, "ENOTDIR") \/ Fail(c, "EISDIR")
             \/ Precondition(c, "EEXIST", "done") \/ Precondition(c, "EMISMATCH", "done")
             \/ Choose(c, 411, "ELENGTH", "done")
    <2>1. Control' /\ Moves(c, "done")
      BY <1>5, <1>6, TypedControl, AnswerEffect, FailEffect, PreconditionEffect, ChooseEffect
    <2> HIDE DEF m
    <2>2. StageAt("done", req[c], m)
      BY <1>3 DEF StageAt, Uploading, Removing
    <2> QED
      BY <1>1, <1>3, <1>4, <1>5, <2>1, <2>2, CalmStep DEF DispatchPut, Unpublished
  <1>7. CASE EnterMkdirs(c) /\ (WantsDir(req[c]) \/ req[c].len # None)
    <2> HIDE DEF m
    <2>1. Writes(c, m)
      BY <1>3, <1>7 DEF Writes, MakesDir, Request
    <2>2. PICK l \in {"mkdirs", "done", "rename", "opentmp"} :
            Control' /\ Moves(c, l) /\ StageAt(l, req[c], m)
      BY <1>3, <1>4, <1>7, <2>1, EnterStage
    <2>3. l \in Phase /\ pc[c] \in Unpublished
      BY <1>3 DEF Phase, Unpublished
    <2> QED
      BY <1>1, <1>4, <2>2, <2>3, CalmStep DEF DispatchPut
  <1> QED
    BY <1>6, <1>7 DEF DispatchPut

\* One mkdir: it binds a client's name to a new directory, or changes nothing.
LEMMA MkdirTree ==
  ASSUME Typed, NEW c \in Conn, NEW p \in Path, NEW i \in 1 .. MaxDepth, Last(p) \in ClientName,
         (CreateErr(p) = OK /\ Bind(p, <<c, i>>)) \/ UNCHANGED ent
  PROVE  TreeTypeOK' /\ KeepsNames
  <1>1. CASE CreateErr(p) = OK /\ Bind(p, <<c, i>>)
    <2>1. <<c, i>> \in DirNode
      BY DEF DirNode
    <2> DEFINE x == <<c, i>>
    <2> HIDE DEF x
    <2>2. x \in DirNode /\ Bind(p, x)
      BY <1>1, <2>1 DEF x
    <2>3. /\ TreeTypeOK'
          /\ \A d \in DirNode, n \in Name :
               ent'[d][n] = IF d = Holder(p) /\ n = Last(p) THEN x ELSE ent[d][n]
      BY <1>1, <2>2, CreateFree, BindEffect, TypedControl DEF Node
    <2>4. \A k \in Conn : Temp[k] \in Name /\ Temp[k] # Last(p)
      BY TreeAssumption DEF Name, TempName
    <2>5. x \notin FileNode
      BY <2>2, TreeAssumption
    <2> QED
      BY <2>3, <2>4, <2>5 DEF KeepsNames, Bindings, Name
  <1>2. CASE UNCHANGED ent
    BY <1>2, SameTree
  <1> QED
    BY <1>1, <1>2

\* One mkdir of fsapi_mkdirs keeps types and stages.
LEMMA MkdirTyped ==
  ASSUME Typed, NEW c \in Conn, Mkdir(c)
  PROVE  Typed' /\ Calm
  <1> DEFINE p == MkdirsPath(req[c])
             i == loc[c].k + 1
             q == SubSeq(p, 1, i)
             e == CreateErr(q)
             m == [loc[c] EXCEPT !.k = i]
  <1>1. /\ pc[c] = "mkdirs" /\ req[c] \in Requests
        /\ Writes(c, loc[c]) /\ loc[c].k < Len(p) /\ loc[c].k \in Nat
    BY Requested DEF Mkdir, Typed, TypeOK, Stage, StageAt, Uploading, Writes, Locals
  <1>2. i \in 1 .. Len(p)
    <2>1. p \in Seq(Name)
      BY <1>1, MkdirsPathIn DEF Writes
    <2>2. Len(p) \in Nat
      BY <2>1, LenProperties
    <2> QED
      BY <1>1, <2>2
  <1>3. i \in 1 .. MaxDepth /\ q \in Path /\ Last(q) \in ClientName
    BY <1>1, <1>2, MkdirsPrefix DEF Writes
  <1>4. TreeTypeOK' /\ KeepsNames
    <2>1. (CreateErr(q) = OK /\ Bind(q, <<c, i>>)) \/ UNCHANGED ent
      BY DEF Mkdir
    <2> HIDE DEF q, i
    <2> QED
      BY <1>3, <2>1, MkdirTree
  <1> HIDE DEF q, p
  <1>5. CASE Fail(c, e) /\ UNCHANGED loc
    <2>1. Control' /\ Moves(c, "done") /\ "done" \in Phase
      BY <1>5, ErrnoKinds, TypedControl, FailEffect DEF Phase
    <2>2. StageAt("done", req[c], loc[c])
      BY <1>1 DEF StageAt, Uploading, Removing
    <2>3. loc[c] \in Locals /\ loc' = [loc EXCEPT ![c] = loc[c]]
      BY <1>5, SameLocal
    <2> QED
      BY <1>4, <2>1, <2>2, <2>3, CalmStep DEF Mkdir, Unpublished
  <1>6. CASE /\ loc' = [loc EXCEPT ![c].k = i]
             /\ (i < Len(p) /\ Goto(c, "mkdirs")) \/ (i >= Len(p) /\ AfterMkdirs(c))
    <2>1. /\ loc' = [loc EXCEPT ![c] = m] /\ m \in Locals
          /\ m.fd = loc[c].fd /\ m.listing = loc[c].listing /\ m.k = i
      <3>1. i \in Nat
        BY <1>1
      <3> HIDE DEF i
      <3> QED
        BY <1>1, <1>6, <3>1 DEF Locals, Typed, TypeOK
    <2> HIDE DEF m, i
    <2>2. Writes(c, m)
      BY <1>1, <2>1 DEF Writes
    <2>3. PICK l \in {"mkdirs", "done", "rename", "opentmp"} :
            Control' /\ Moves(c, l) /\ StageAt(l, req[c], m)
      <3>1. CASE i < Len(p) /\ Goto(c, "mkdirs")
        <4>1. Control' /\ Moves(c, "mkdirs")
          BY <3>1, TypedControl, GotoEffect DEF Phase
        <4>2. StageAt("mkdirs", req[c], m)
          BY <1>1, <2>1, <2>2, <3>1 DEF p, Writes, StageAt, Uploading, Removing
        <4> QED
          BY <4>1, <4>2
      <3>2. CASE AfterMkdirs(c)
        BY <1>1, <2>2, <3>2, AfterStage
      <3> QED
        BY <1>6, <3>1, <3>2
    <2>4. l \in Phase /\ pc[c] \in Unpublished
      BY <1>1 DEF Phase, Unpublished
    <2> QED
      BY <1>4, <2>1, <2>3, <2>4, CalmStep DEF Mkdir
  <1> QED
    BY <1>5, <1>6 DEF Mkdir, p, q

\* The stat of a MOVE or COPY source keeps types and stages.
LEMMA StatSourceTyped ==
  ASSUME Typed, NEW c \in Conn, StatSource(c)
  PROVE  Typed' /\ Calm
  <1> DEFINE s == StatOf(req[c].path)
             m == [loc[c] EXCEPT !.st = s]
  <1>1. TreeTypeOK' /\ KeepsNames
    BY SameTree DEF StatSource
  <1>2. /\ pc[c] = "stat" /\ req[c].op \in {"MOVE", "COPY"} /\ req[c] \in Requests
        /\ loc[c].k = 0
    BY Requested DEF StatSource, At, Typed, Stage, StageAt
  <1>3. /\ loc' = [loc EXCEPT ![c] = m] /\ m \in Locals
        /\ m.fd = loc[c].fd /\ m.listing = loc[c].listing /\ m.k = 0
    <2>1. s \in Stat
      BY StatIn
    <2> HIDE DEF s
    <2> QED
      BY <1>2, <2>1 DEF StatSource, s, Locals, Typed, TypeOK
  <1>4. Control' /\ Moves(c, "dest") /\ "dest" \in Phase /\ pc[c] \in Unpublished
    BY <1>2, TypedControl, GotoEffect DEF StatSource, Phase, Unpublished
  <1> HIDE DEF m
  <1>5. StageAt("dest", req[c], m)
    BY <1>2, <1>3 DEF StageAt, Uploading, Removing
  <1> QED
    BY <1>1, <1>3, <1>4, <1>5, CalmStep DEF StatSource

\* A failing write ends the request, or sends it to the cleanup.
LEMMA WriteFailStage ==
  ASSUME Typed, NEW c \in Conn, pc[c] \in Uploading, NEW e \in Errno,
         NEW l \in {"done", "cleanup"}, WriteFail(c, e, l)
  PROVE  /\ Control' /\ Moves(c, l) /\ StageAt(l, req[c], loc[c])
         /\ l \in Phase /\ l \notin Unpublished
  <1>1. l \in Phase /\ l \notin Unpublished
    BY DEF Phase, Unpublished
  <1>2. Control' /\ Moves(c, l)
    BY <1>1, TypedControl, WriteFailEffect
  <1>3. StageAt(pc[c], req[c], loc[c])
    BY DEF Typed, Stage
  <1> QED
    BY <1>1, <1>2, <1>3 DEF StageAt, Uploading, Removing

\* A write that fails keeps types and stages, and touches nothing Disk looks at.
LEMMA WriteFailCalm ==
  ASSUME Typed, NEW c \in Conn, pc[c] \in Uploading, NEW e \in Errno,
         NEW l \in {"done", "cleanup"}, WriteFail(c, e, l), UNCHANGED <<ent, file, now, req, loc>>
  PROVE  Typed' /\ Calm
  <1>1. /\ Control' /\ Moves(c, l) /\ StageAt(l, req[c], loc[c])
        /\ l \in Phase /\ l \notin Unpublished
    BY WriteFailStage
  <1>2. loc[c] \in Locals /\ loc' = [loc EXCEPT ![c] = loc[c]]
    BY SameLocal
  <1>3. TreeTypeOK' /\ KeepsNames
    BY SameTree
  <1> QED
    BY <1>1, <1>2, <1>3, CalmStep DEF Unpublished

\* The decisions of a MOVE or COPY keep types and stages.
LEMMA DispatchDestTyped ==
  ASSUME Typed, NEW c \in Conn, DispatchDest(c)
  PROVE  Typed' /\ Calm
  <1>1. TreeTypeOK' /\ KeepsNames
    BY SameTree DEF DispatchDest
  <1>2. /\ pc[c] = "dest" /\ req[c] \in Requests /\ req[c].op \in {"MOVE", "COPY"} /\ loc[c].k = 0
    BY Requested DEF DispatchDest, Typed, Stage, StageAt
  <1>3. loc[c] \in Locals /\ loc' = [loc EXCEPT ![c] = loc[c]]
    BY SameLocal DEF DispatchDest
  <1>4. PICK l \in {"mkdirs", "rename", "opentmp", "done", "opensrc"} :
          Control' /\ Moves(c, l) /\ StageAt(l, req[c], loc[c])
    <2>1. CASE Fail(c, "EACCES") \/ Fail(c, "ENOENT") \/ Precondition(c, "EMISMATCH", "done")
      <3>1. Control' /\ Moves(c, "done")
        <4>1. {"EACCES", "ENOENT", "EMISMATCH"} \subseteq Errno /\ "done" \in Phase
          BY DEF Errno, Phase
        <4> QED
          BY <2>1, <4>1, TypedControl, FailEffect, PreconditionEffect
      <3>2. StageAt("done", req[c], loc[c])
        BY <1>2 DEF StageAt, Uploading, Removing
      <3> QED
        BY <3>1, <3>2
    <2>2. CASE req[c].op = "MOVE" /\ EnterMkdirs(c)
      <3>1. Writes(c, loc[c])
        BY <2>2 DEF Writes
      <3> QED
        BY <1>2, <2>2, <3>1, EnterStage
    <2>3. CASE req[c].op = "COPY" /\ Goto(c, "opensrc")
      <3>1. Control' /\ Moves(c, "opensrc")
        BY <2>3, TypedControl, GotoEffect DEF Phase
      <3>2. StageAt("opensrc", req[c], loc[c])
        BY <1>2, <2>3 DEF StageAt, Uploading, Removing
      <3> QED
        BY <3>1, <3>2
    <2> QED
      BY <2>1, <2>2, <2>3 DEF DispatchDest
  <1>5. l \in Phase /\ pc[c] \in Unpublished
    BY <1>2 DEF Phase, Unpublished
  <1> QED
    BY <1>1, <1>3, <1>4, <1>5, CalmStep DEF DispatchDest

\* Opening the source of a COPY keeps types and stages.
LEMMA OpenSourceTyped ==
  ASSUME Typed, NEW c \in Conn, OpenSource(c)
  PROVE  /\ Typed'
         /\ Calm \/ /\ UNCHANGED <<ent, file, req>> /\ KeepsWriters
                    /\ Present(req[c].path)
                    /\ loc' = [loc EXCEPT ![c].fd = Walk(req[c].path)]
  <1> DEFINE p == req[c].path
  <1>1. TreeTypeOK' /\ KeepsNames
    BY SameTree DEF OpenSource
  <1>2. pc[c] = "opensrc" /\ req[c] \in Requests /\ req[c].op = "COPY" /\ loc[c].k = 0
    BY Requested DEF OpenSource, Typed, Stage, StageAt
  <1>3. CASE (Fail(c, OpenErr(p)) \/ Fail(c, "EISDIR")) /\ UNCHANGED loc
    <2>1. Control' /\ Moves(c, "done") /\ "done" \in Phase
      <3>1. OpenErr(p) \in Errno /\ "EISDIR" \in Errno /\ "done" \in Phase
        BY ErrnoKinds DEF Errno, Phase
      <3> QED
        BY <1>3, <3>1, TypedControl, FailEffect
    <2>2. StageAt("done", req[c], loc[c])
      BY <1>2 DEF StageAt, Uploading, Removing
    <2>3. loc[c] \in Locals /\ loc' = [loc EXCEPT ![c] = loc[c]]
      BY <1>3, SameLocal
    <2> QED
      BY <1>1, <2>1, <2>2, <2>3, CalmStep DEF OpenSource, Unpublished
  <1>4. CASE Walk(p) \in FileNode /\ loc' = [loc EXCEPT ![c].fd = Walk(p)] /\ EnterMkdirs(c)
    <2> DEFINE m == [loc[c] EXCEPT !.fd = Walk(p)]
    <2>1. /\ loc' = [loc EXCEPT ![c] = m] /\ m \in Locals /\ m.fd \in FileNode /\ m.k = 0
      BY <1>2, <1>4 DEF Locals, Node, Typed, TypeOK
    <2> HIDE DEF m
    <2>2. PICK l \in {"mkdirs", "done", "rename", "opentmp"} :
            Control' /\ Moves(c, l) /\ StageAt(l, req[c], m)
      <3>1. Writes(c, m)
        BY <1>2, <2>1 DEF Writes
      <3> QED
        BY <1>2, <1>4, <2>1, <3>1, EnterStage
    <2>3. l \in Phase /\ pc[c] \in Unpublished /\ l \notin {"fill", "publish"}
      BY <1>2 DEF Phase, Unpublished
    <2>4. file' \in [FileNode -> Inode] /\ UNCHANGED <<ent, file, now, req>>
      BY DEF OpenSource, Typed, TypeOK
    <2>5. Typed'
      BY <1>1, <2>1, <2>2, <2>3, <2>4, StageStep
    <2>6. KeepsWriters
      BY <2>2, <2>3, <2>4 DEF Moves, KeepsWriters, Typed, TypeOK
    <2>7. Present(p)
      BY <1>4 DEF Present, Node
    <2> QED
      BY <1>4, <2>4, <2>5, <2>6, <2>7
  <1> QED
    BY <1>3, <1>4 DEF OpenSource


-----------------------------------------------------------------------------
(***************************************************************************)
(* The temporary file: opened, filled, published or removed.               *)
(***************************************************************************)
\* What a child that uploads knows of its request and its temporary path.
LEMMA UploadFacts ==
  ASSUME Typed, NEW c \in Conn, pc[c] \in Uploading
  PROVE  /\ req[c] \in Requests /\ req[c].op \in {"PUT", "COPY"}
         /\ req[c].op = "COPY" => loc[c].fd \in FileNode
         /\ req[c].op = "PUT" => req[c].len \in Nat
         /\ TempPath(c) \in Path /\ Last(TempPath(c)) = Temp[c]
         /\ Target(req[c]) \in Path /\ Last(Target(req[c])) \in ClientName
  <1>1. /\ req[c] \in Requests /\ req[c].op \in {"PUT", "COPY"}
        /\ req[c].op = "COPY" => loc[c].fd \in FileNode
        /\ req[c].op = "PUT" => req[c].len \in Nat
        /\ pc[c] # "idle"
    BY Requested DEF Typed, Stage, StageAt, Uploading
  <1> QED
    BY <1>1, TempPathIn, Requested

\* Moving from one upload stage to the next keeps the stage facts.
LEMMA UploadMoves ==
  ASSUME Typed, NEW c \in Conn, pc[c] \in Uploading,
         NEW l \in {"fill", "publish", "untmp", "flush"}, Goto(c, l)
  PROVE  Control' /\ Moves(c, l) /\ l \in Phase /\ StageAt(l, req[c], loc[c])
  <1>1. l \in Phase
    BY DEF Phase
  <1>2. StageAt(pc[c], req[c], loc[c])
    BY DEF Typed, Stage
  <1>3. StageAt(l, req[c], loc[c])
    BY <1>2 DEF StageAt, Uploading, Removing
  <1> QED
    BY <1>1, <1>3, TypedControl, GotoEffect

\* The inode of a fresh upload is an Inode.
LEMMA UploadIn ==
  ASSUME Typed, NEW c \in Conn, pc[c] \in Uploading
  PROVE  Upload(c) \in Inode /\ Remaining(c) \in Int
  <1>1. /\ req[c].op \in {"PUT", "COPY"}
        /\ req[c].op = "COPY" => loc[c].fd \in FileNode
        /\ req[c].op = "PUT" => req[c].len \in Nat
    BY UploadFacts
  <1>2. c \in FileNode
    BY DEF FileNode
  <1>3. \A x \in FileNode : /\ file[x].size \in Nat /\ file[x].total \in Nat
                            /\ file[x].data \in FileNode \cup {None}
    BY DEF Typed, TypeOK, Inode
  <1>4. now \in Nat
    BY DEF Typed, TypeOK
  <1> QED
    BY <1>1, <1>2, <1>3, <1>4 DEF Upload, Remaining, Inode

\* Opening the temporary file keeps types and stages.
LEMMA OpenTempTyped ==
  ASSUME Typed, NEW c \in Conn, OpenTemp(c)
  PROVE  /\ Typed'
         /\ Calm \/ /\ Moves(c, "fill") /\ UNCHANGED <<req, loc>>
                    /\ CreateErr(TempPath(c)) = OK /\ Bind(TempPath(c), c)
                    /\ file' = [file EXCEPT ![c] = Upload(c)]
  <1> DEFINE e == CreateErr(TempPath(c))
  <1>1. pc[c] = "opentmp" /\ pc[c] \in Uploading
    BY DEF OpenTemp, Uploading
  <1>2. CASE e = OK /\ Bind(TempPath(c), c) /\ file' = [file EXCEPT ![c] = Upload(c)] /\ Goto(c, "fill")
    <2>1. Control' /\ Moves(c, "fill") /\ "fill" \in Phase /\ StageAt("fill", req[c], loc[c])
      BY <1>1, <1>2, UploadMoves
    <2>2. c \in FileNode /\ c \in Node
      BY DEF FileNode, Node
    <2>3. TreeTypeOK'
      BY <1>1, <1>2, <2>2, UploadFacts, CreateFree, BindEffect, TypedControl
    <2>4. file' \in [FileNode -> Inode]
      BY <1>1, <1>2, <2>2, UploadIn DEF Typed, TypeOK
    <2>5. loc[c] \in Locals /\ loc' = [loc EXCEPT ![c] = loc[c]]
      BY SameLocal DEF OpenTemp
    <2>6. Typed'
      BY <2>1, <2>3, <2>4, <2>5, StageStep DEF OpenTemp
    <2> QED
      BY <1>2, <2>1, <2>6 DEF OpenTemp
  <1>3. CASE (WriteFail(c, e, "done") \/ WriteFail(c, "ENOSPC", "done")) /\ UNCHANGED <<ent, file>>
    <2>1. e \in Errno /\ "ENOSPC" \in Errno
      BY ErrnoKinds DEF Errno
    <2> QED
      BY <1>1, <1>3, <2>1, WriteFailCalm DEF OpenTemp
  <1> QED
    BY <1>2, <1>3 DEF OpenTemp

\* The copying loop keeps types and stages.
LEMMA FillTyped ==
  ASSUME Typed, NEW c \in Conn, Fill(c)
  PROVE  /\ Typed'
         /\ Calm \/ /\ UNCHANGED <<ent, pc, req, loc>>
                    /\ \E n \in 1 .. Remaining(c) :
                         file' = [file EXCEPT ![c].size = @ + n, ![c].mtime = now]
  <1>1. pc[c] = "fill" /\ pc[c] \in Uploading
    BY DEF Fill, Uploading
  <1>2. CASE /\ \E n \in 1 .. Remaining(c) :
                  file' = [file EXCEPT ![c].size = @ + n, ![c].mtime = now]
             /\ UNCHANGED <<pc, reply>>
    <2>1. PICK n \in 1 .. Remaining(c) : file' = [file EXCEPT ![c].size = @ + n, ![c].mtime = now]
      BY <1>2
    <2>2. n \in Nat
      BY <1>1, UploadIn
    <2>3. file' \in [FileNode -> Inode]
      <3>1. c \in FileNode /\ file[c] \in Inode /\ now \in Nat
        BY DEF Typed, TypeOK, FileNode
      <3> DEFINE k == file[c].size + n
      <3>2. k \in Nat
        BY <2>2, <3>1 DEF Inode
      <3>3. file' = [file EXCEPT ![c].size = k, ![c].mtime = now]
        BY <2>1, <3>1 DEF Typed, TypeOK
      <3> HIDE DEF k
      <3> QED
        BY <3>1, <3>2, <3>3 DEF Typed, TypeOK, Inode
    <2>4. Typed'
      BY <1>2, <2>3, TypedControl DEF Fill, Typed, TypeOK, TreeTypeOK, Stage
    <2> QED
      BY <1>2, <2>4 DEF Fill
  <1>3. CASE (\E e \in Faults \ {"EPIPE"} : WriteFail(c, e, "cleanup")) /\ UNCHANGED file
    <2>1. PICK e \in Errno : WriteFail(c, e, "cleanup")
      BY <1>3, RequestAssumption DEF Errno
    <2> QED
      BY <1>1, <1>3, <2>1, WriteFailCalm DEF Fill
  <1> QED
    BY <1>2, <1>3 DEF Fill

\* The fsync of the temporary file keeps types and stages.
LEMMA SyncTyped ==
  ASSUME Typed, NEW c \in Conn, Sync(c)
  PROVE  /\ Typed'
         /\ Calm \/ /\ Moves(c, "publish") /\ UNCHANGED <<ent, req, loc>>
                    /\ file' = [file EXCEPT ![c].synced = TRUE] /\ Remaining(c) <= 0
  <1>1. pc[c] = "fill" /\ pc[c] \in Uploading
    BY DEF Sync, Uploading
  <1>2. CASE file' = [file EXCEPT ![c].synced = TRUE] /\ Goto(c, "publish")
    <2>1. Control' /\ Moves(c, "publish") /\ "publish" \in Phase /\ StageAt("publish", req[c], loc[c])
      BY <1>1, <1>2, UploadMoves
    <2>2. file' \in [FileNode -> Inode]
      BY <1>2 DEF Typed, TypeOK, FileNode, Inode
    <2>3. loc[c] \in Locals /\ loc' = [loc EXCEPT ![c] = loc[c]]
      BY SameLocal DEF Sync
    <2>4. TreeTypeOK'
      BY SameTree DEF Sync
    <2>5. Typed'
      BY <2>1, <2>2, <2>3, <2>4, StageStep DEF Sync
    <2> QED
      BY <1>2, <2>1, <2>5 DEF Sync
  <1>3. CASE WriteFail(c, "EIO", "cleanup") /\ UNCHANGED file
    <2>1. "EIO" \in Errno
      BY DEF Errno
    <2> QED
      BY <1>1, <1>3, <2>1, WriteFailCalm DEF Sync
  <1> QED
    BY <1>2, <1>3 DEF Sync


\* Taking names away, or none, shows nothing to anybody.
LEMMA RemoveTree ==
  ASSUME Typed, NEW p \in Path,
         ((UnlinkErr(p) = OK \/ RmdirErr(p) = OK) /\ Unbind(p)) \/ UNCHANGED ent
  PROVE  TreeTypeOK' /\ KeepsNames
  <1>1. CASE (UnlinkErr(p) = OK \/ RmdirErr(p) = OK) /\ Unbind(p)
    <2>1. /\ TreeTypeOK'
          /\ \A d \in DirNode, n \in Name : ent'[d][n] = ent[d][n] \/ ent'[d][n] = None
      BY <1>1, TypedControl, UnbindEffect
    <2>2. None \notin FileNode
      BY TreeAssumption DEF Node
    <2>3. \A c \in Conn : Temp[c] \in Name
      BY DEF Name, TempName
    <2> QED
      BY <2>1, <2>2, <2>3 DEF KeepsNames, Bindings, Name
  <1>2. CASE UNCHANGED ent
    BY <1>2, SameTree
  <1> QED
    BY <1>1, <1>2

\* Neither does moving what a client's name leads to under another one.
LEMMA MoveTree ==
  ASSUME Typed, NEW p \in Path, NEW q \in Path, Last(p) \in ClientName, Last(q) \in ClientName,
         RenameErr(p, q) = OK, Rebind(p, q)
  PROVE  TreeTypeOK' /\ KeepsNames
  <1>1. /\ TreeTypeOK'
        /\ \A d \in DirNode, n \in Name :
             ent'[d][n] = IF d = Holder(q) /\ n = Last(q) THEN Walk(p)
                          ELSE IF d = Holder(p) /\ n = Last(p) THEN None ELSE ent[d][n]
    BY TypedControl, RebindEffect
  <1>2. Holder(p) \in DirNode /\ Walk(p) = ent[Holder(p)][Last(p)]
    BY RenamePresent
  <1>3. <<Holder(p), Last(p)>> \in Bindings
    BY <1>2 DEF Bindings
  <1>4. None \notin FileNode
    BY TreeAssumption DEF Node
  <1>5. \A c \in Conn : Temp[c] \in Name /\ Temp[c] # Last(p) /\ Temp[c] # Last(q)
    BY TreeAssumption DEF Name, TempName
  <1>6. ASSUME NEW b \in Bindings, ent'[b[1]][b[2]] \in FileNode
        PROVE  \E a \in Bindings : ent[a[1]][a[2]] = ent'[b[1]][b[2]]
    <2>1. b[1] \in DirNode /\ b[2] \in Name
      BY DEF Bindings, Name
    <2>2. \/ ent'[b[1]][b[2]] = ent[Holder(p)][Last(p)]
          \/ ent'[b[1]][b[2]] = ent[b[1]][b[2]]
      BY <1>1, <1>2, <1>4, <1>6, <2>1
    <2> QED
      BY <1>3, <2>2
  <1> QED
    BY <1>1, <1>5, <1>6 DEF KeepsNames

\* Publishing by rename or link keeps types and stages.
LEMMA PublishTyped ==
  ASSUME Typed, NEW c \in Conn, PublishByRename(c) \/ PublishByLink(c)
  PROVE  /\ Typed'
         /\ Calm \/ /\ \E l \in {"flush", "untmp"} : Moves(c, l)
                    /\ UNCHANGED <<file, req, loc>>
                    /\ \/ /\ RenameErr(TempPath(c), Target(req[c])) = OK
                          /\ Rebind(TempPath(c), Target(req[c]))
                       \/ /\ LinkErr(TempPath(c), Target(req[c])) = OK
                          /\ Bind(Target(req[c]), Walk(TempPath(c)))
  <1> DEFINE t == Target(req[c])
             p == TempPath(c)
  <1>1. pc[c] \in Uploading
    BY DEF PublishByRename, PublishByLink, Uploading
  <1>2. p \in Path /\ t \in Path
    BY <1>1, UploadFacts
  <1>3. loc[c] \in Locals /\ loc' = [loc EXCEPT ![c] = loc[c]]
    BY SameLocal DEF PublishByRename, PublishByLink
  <1>4. file' \in [FileNode -> Inode]
    BY DEF PublishByRename, PublishByLink, Typed, TypeOK
  <1>5. CASE RenameErr(p, t) = OK /\ Rebind(p, t) /\ (\E l \in {"flush", "untmp"} : Goto(c, l))
    <2>1. PICK l \in {"flush", "untmp"} : Goto(c, l)
      BY <1>5
    <2>2. Control' /\ Moves(c, l) /\ l \in Phase /\ StageAt(l, req[c], loc[c])
      BY <1>1, <2>1, UploadMoves
    <2>3. TreeTypeOK'
      BY <1>2, <1>5, TypedControl, RebindEffect
    <2>4. Typed'
      BY <1>3, <1>4, <2>2, <2>3, StageStep DEF PublishByRename, PublishByLink
    <2> QED
      BY <1>5, <2>2, <2>4 DEF PublishByRename, PublishByLink
  <1>6. CASE LinkErr(p, t) = OK /\ Bind(t, Walk(p)) /\ Goto(c, "untmp")
    <2>1. Control' /\ Moves(c, "untmp") /\ "untmp" \in Phase /\ StageAt("untmp", req[c], loc[c])
      BY <1>1, <1>6, UploadMoves
    <2>2. Walk(p) \in Node /\ CreateErr(t) = OK
      BY <1>6 DEF LinkErr, LookupErr, Present, OK
    <2>3. Holder(t) \in DirNode
      BY <1>2, <2>2, CreateFree
    <2>4. TreeTypeOK'
      BY <1>2, <1>6, <2>2, <2>3, TypedControl, BindEffect
    <2>5. Typed'
      BY <1>3, <1>4, <2>1, <2>4, StageStep DEF PublishByRename, PublishByLink
    <2> QED
      BY <1>6, <2>1, <2>5 DEF PublishByRename, PublishByLink
  <1>7. CASE UNCHANGED ent /\ \E e \in Errno : WriteFail(c, e, "cleanup")
    BY <1>1, <1>7, WriteFailCalm DEF PublishByRename, PublishByLink
  <1>8. RenameErr(p, t) \in Errno /\ LinkErr(p, t) \in Errno
    BY ErrnoKinds
  <1> HIDE DEF p, t
  <1>9. CASE PublishByRename(c)
    BY <1>5, <1>7, <1>8, <1>9 DEF PublishByRename, p, t
  <1>10. CASE PublishByLink(c)
    BY <1>6, <1>7, <1>8, <1>10 DEF PublishByLink, p, t
  <1> QED
    BY <1>9, <1>10


\* Dropping the temporary name keeps types and stages.
LEMMA UnlinkTempTyped ==
  ASSUME Typed, NEW c \in Conn, DropTemp(c) \/ Cleanup(c)
  PROVE  Typed' /\ Calm
  <1>1. pc[c] \in Uploading
    BY DEF DropTemp, Cleanup, Uploading
  <1>2. TreeTypeOK' /\ KeepsNames
    <2>1. TempPath(c) \in Path
      BY <1>1, UploadFacts
    <2>2. \/ (UnlinkErr(TempPath(c)) = OK \/ RmdirErr(TempPath(c)) = OK) /\ Unbind(TempPath(c))
          \/ UNCHANGED ent
      BY DEF DropTemp, Cleanup, UnlinkTemp
    <2> QED
      BY <2>1, <2>2, RemoveTree
  <1>3. PICK l \in {"flush", "done"} : Control' /\ Moves(c, l)
    BY TypedControl, GotoEffect DEF DropTemp, Cleanup, Phase
  <1>4. l \in Phase /\ l \notin Unpublished
    BY DEF Phase, Unpublished
  <1>5. StageAt(l, req[c], loc[c])
    BY <1>1, UploadFacts DEF StageAt, Uploading, Removing
  <1>6. loc[c] \in Locals /\ loc' = [loc EXCEPT ![c] = loc[c]]
    BY SameLocal DEF DropTemp, Cleanup
  <1> QED
    BY <1>2, <1>3, <1>4, <1>5, <1>6, CalmStep DEF DropTemp, Cleanup, Unpublished

\* The fsync of the directory and the success reply keep types and stages.
LEMMA FsyncDirTyped ==
  ASSUME Typed, NEW c \in Conn, FsyncDir(c)
  PROVE  Typed' /\ Calm
  <1>1. TreeTypeOK' /\ KeepsNames
    BY SameTree DEF FsyncDir
  <1>2. Control' /\ Moves(c, "done") /\ "done" \in Phase /\ "done" \notin Unpublished
    <2>1. PICK status \in {200, 201} : Answer(c, status)
      BY DEF FsyncDir
    <2>2. status \in Nat
      OBVIOUS
    <2> QED
      BY <2>1, <2>2, TypedControl, AnswerEffect DEF Phase, Unpublished
  <1>3. StageAt("done", req[c], loc[c])
    BY Requested DEF FsyncDir, StageAt, Uploading, Removing
  <1>4. loc[c] \in Locals /\ loc' = [loc EXCEPT ![c] = loc[c]]
    BY SameLocal DEF FsyncDir
  <1> QED
    BY <1>1, <1>2, <1>3, <1>4, CalmStep DEF FsyncDir, Unpublished

\* The rename of a MOVE keeps types and stages.
LEMMA RenameTyped ==
  ASSUME Typed, NEW c \in Conn, Rename(c)
  PROVE  Typed' /\ Calm
  <1> DEFINE p == req[c].path
             q == req[c].dst
             e == RenameErr(p, q)
  <1>1. pc[c] = "rename" /\ req[c] \in Requests /\ req[c].op = "MOVE"
    BY Requested DEF Rename, Typed, Stage, StageAt
  <1>2. p \in Path /\ q \in Path /\ Last(p) \in ClientName /\ Last(q) \in ClientName
    BY <1>1, Requested DEF Target
  <1>3. TreeTypeOK' /\ KeepsNames
    BY <1>2, MoveTree, SameTree DEF Rename
  <1>4. PICK l \in {"flush", "done"} : Control' /\ Moves(c, l)
    <2>1. e \in Errno /\ "flush" \in Phase
      BY ErrnoKinds DEF Phase
    <2> HIDE DEF e
    <2>2. Goto(c, "flush") \/ Fail(c, e)
      BY DEF Rename, e
    <2> QED
      BY <2>1, <2>2, TypedControl, GotoEffect, FailEffect
  <1>5. l \in Phase /\ l \notin Unpublished
    BY DEF Phase, Unpublished
  <1>6. StageAt(l, req[c], loc[c])
    BY <1>1 DEF StageAt, Uploading, Removing
  <1>7. loc[c] \in Locals /\ loc' = [loc EXCEPT ![c] = loc[c]]
    BY SameLocal DEF Rename
  <1> QED
    BY <1>3, <1>4, <1>5, <1>6, <1>7, CalmStep DEF Rename, Unpublished

-----------------------------------------------------------------------------
(***************************************************************************)
(* DELETE.                                                                 *)
(***************************************************************************)
\* The innermost path of the recursion is a path.
LEMMA FrameIn ==
  ASSUME Typed, NEW c \in Conn, pc[c] \in Removing
  PROVE  /\ req[c] \in Requests
         /\ loc[c] \in Locals /\ loc[c].frames \in Seq(Stream) /\ loc[c].frames # <<>>
         /\ Frame(c) \in Stream /\ Frame(c).path \in Path
         /\ Front(loc[c].frames) \in Seq(Stream)
  <1>1. /\ loc[c] \in Locals /\ loc[c].frames \in Seq(Stream) /\ loc[c].frames # <<>>
        /\ req[c] \in Requests
    BY Requested DEF Typed, TypeOK, Stage, StageAt, Locals, Removing
  <1>2. Frame(c) \in Stream
    BY <1>1, LastIn DEF Frame
  <1>3. Front(loc[c].frames) \in Seq(Stream)
    BY <1>1, FrontIn
  <1> QED
    BY <1>1, <1>2, <1>3 DEF Stream, Path

\* A step of DELETE that leaves the tree alone and gives the recursion the
\* frames fr.
LEMMA FramesStep ==
  ASSUME Typed, NEW c \in Conn, pc[c] \in Removing \cup {"stat"}, req[c] \in Requests,
         TreeTypeOK', KeepsNames, UNCHANGED <<file, now, req>>,
         NEW l \in Removing \cup {"done"}, Control', Moves(c, l),
         NEW s \in Stat, NEW fr \in Seq(Stream), l = "done" \/ fr # <<>>,
         loc' = [loc EXCEPT ![c].st = s, ![c].frames = fr]
  PROVE  Typed' /\ Calm
  <1> DEFINE m == [loc[c] EXCEPT !.st = s, !.frames = fr]
  <1>1. /\ loc' = [loc EXCEPT ![c] = m] /\ m \in Locals
        /\ m.fd = loc[c].fd /\ m.listing = loc[c].listing /\ m.frames = fr
    BY DEF Locals, Typed, TypeOK
  <1> HIDE DEF m
  <1>2. l \in Phase /\ l \notin Unpublished /\ l \notin {"fill", "publish"}
    BY DEF Phase, Unpublished, Removing
  <1>3. StageAt(l, req[c], m)
    BY <1>1 DEF StageAt, Uploading, Removing
  <1> QED
    BY <1>1, <1>2, <1>3, CalmStep


\* A step that changes the frames alone, as an update of stat and frames.
LEMMA SameStat ==
  ASSUME Typed, NEW c \in Conn, NEW fr, loc' = [loc EXCEPT ![c].frames = fr]
  PROVE  loc[c].st \in Stat /\ loc' = [loc EXCEPT ![c].st = loc[c].st, ![c].frames = fr]
  BY DEF Typed, TypeOK, Locals

\* A step that changes no local, as an update of stat and frames.
LEMMA SameFrames ==
  ASSUME Typed, NEW c \in Conn, UNCHANGED loc
  PROVE  /\ loc[c].st \in Stat
         /\ loc' = [loc EXCEPT ![c].st = loc[c].st, ![c].frames = loc[c].frames]
  BY DEF Typed, TypeOK, Locals

\* The decisions of a DELETE keep types and stages.
LEMMA DispatchDeleteTyped ==
  ASSUME Typed, NEW c \in Conn, DispatchDelete(c)
  PROVE  Typed' /\ Calm
  <1> DEFINE s  == StatOf(req[c].path)
             fr == <<Unopened(req[c].path)>>
  <1>1. TreeTypeOK' /\ KeepsNames
    BY SameTree DEF DispatchDelete
  <1>2. pc[c] = "stat" /\ req[c] \in Requests /\ req[c].path \in Path
    BY Requested DEF DispatchDelete, At
  <1>3. s \in Stat
    BY StatIn
  <1>4. Unopened(req[c].path) \in Stream
    BY <1>2, StreamIn
  <1>5. fr \in Seq(Stream) /\ fr # <<>> /\ loc' = [loc EXCEPT ![c].st = s, ![c].frames = fr]
    BY <1>4 DEF DispatchDelete
  <1> HIDE DEF s, fr
  <1>6. PICK l \in {"done", "rmlstat", "rmunlink"} : Control' /\ Moves(c, l)
    <2>1. {s.err, "EMISMATCH", "ENOTDIR", "EISDIR"} \subseteq Errno /\ {"done", "rmlstat", "rmunlink"} \subseteq Phase
      BY <1>3 DEF Stat, Errno, Phase
    <2>2. \/ Fail(c, s.err) \/ Precondition(c, "EMISMATCH", "done") \/ Fail(c, "ENOTDIR")
          \/ Fail(c, "EISDIR") \/ Goto(c, "rmlstat") \/ Goto(c, "rmunlink")
      BY DEF DispatchDelete, s
    <2> QED
      BY <2>1, <2>2, TypedControl, GotoEffect, FailEffect, PreconditionEffect
  <1>7. l \in Removing \cup {"done"} /\ pc[c] \in Removing \cup {"stat"}
    BY <1>2 DEF Removing
  <1>8. UNCHANGED <<file, now, req>>
    BY DEF DispatchDelete
  <1> QED
    BY <1>1, <1>2, <1>3, <1>5, <1>6, <1>7, <1>8, FramesStep

\* The lstat of fsapi_rmtree keeps types and stages.
LEMMA RmLstatTyped ==
  ASSUME Typed, NEW c \in Conn, RmLstat(c)
  PROVE  Typed' /\ Calm
  <1>1. TreeTypeOK' /\ KeepsNames
    BY SameTree DEF RmLstat
  <1>2. pc[c] \in Removing
    BY DEF RmLstat, Removing
  <1>3. PICK l \in {"done", "rmunlink", "rmdir", "rmopen"} : Control' /\ Moves(c, l)
    <2>1. /\ LookupErr(Walk(Frame(c).path)) \in Errno
          /\ {"done", "rmunlink", "rmdir", "rmopen"} \subseteq Phase
      BY ErrnoKinds DEF Phase
    <2> QED
      BY <2>1, TypedControl, GotoEffect, FailEffect DEF RmLstat
  <1>4. l \in Removing \cup {"done"}
    BY DEF Removing
  <1>5. /\ loc[c].st \in Stat
        /\ loc' = [loc EXCEPT ![c].st = loc[c].st, ![c].frames = loc[c].frames]
    BY SameFrames DEF RmLstat
  <1> QED
    BY <1>1, <1>2, <1>3, <1>4, <1>5, FrameIn, FramesStep DEF RmLstat

\* The opendir of fsapi_rmtree keeps types and stages.
LEMMA RmOpenTyped ==
  ASSUME Typed, NEW c \in Conn, RmOpen(c)
  PROVE  Typed' /\ Calm
  <1> DEFINE p  == Frame(c).path
             fr == Append(Front(loc[c].frames), OpenStream(p))
  <1>1. TreeTypeOK' /\ KeepsNames
    BY SameTree DEF RmOpen
  <1>2. pc[c] \in Removing
    BY DEF RmOpen, Removing
  <1>3. CASE Fail(c, OpenDirErr(p)) /\ UNCHANGED loc
    <2>1. Control' /\ Moves(c, "done") /\ "done" \in Removing \cup {"done"}
      BY <1>3, ErrnoKinds, TypedControl, FailEffect
    <2>2. /\ loc[c].st \in Stat
          /\ loc' = [loc EXCEPT ![c].st = loc[c].st, ![c].frames = loc[c].frames]
      BY <1>3, SameFrames
    <2> QED
      BY <1>1, <1>2, <2>1, <2>2, FrameIn, FramesStep DEF RmOpen
  <1>4. CASE Walk(p) \in DirNode /\ Goto(c, "rmread") /\ loc' = [loc EXCEPT ![c].frames = fr]
    <2>1. Control' /\ Moves(c, "rmread") /\ "rmread" \in Removing \cup {"done"}
      BY <1>4, TypedControl, GotoEffect DEF Phase, Removing
    <2>2. OpenStream(p) \in Stream
      BY <1>2, <1>4, FrameIn, StreamIn
    <2>3. fr \in Seq(Stream) \ {<<>>}
      BY <1>2, <2>2, FrameIn, AppendIn
    <2> HIDE DEF fr
    <2>4. loc[c].st \in Stat /\ loc' = [loc EXCEPT ![c].st = loc[c].st, ![c].frames = fr]
      BY <1>4, SameStat
    <2> QED
      BY <1>1, <1>2, <2>1, <2>3, <2>4, FrameIn, FramesStep DEF RmOpen
  <1> QED
    BY <1>3, <1>4 DEF RmOpen

\* The readdir of fsapi_rmtree keeps types and stages.
LEMMA RmReadTyped ==
  ASSUME Typed, NEW c \in Conn, RmRead(c)
  PROVE  Typed' /\ Calm
  <1>1. TreeTypeOK' /\ KeepsNames
    BY SameTree DEF RmRead
  <1>2. pc[c] \in Removing
    BY DEF RmRead, Removing
  <1>3. CASE Goto(c, "rmdir") /\ UNCHANGED loc
    <2>1. Control' /\ Moves(c, "rmdir") /\ "rmdir" \in Removing \cup {"done"}
      BY <1>3, TypedControl, GotoEffect DEF Phase, Removing
    <2>2. /\ loc[c].st \in Stat
          /\ loc' = [loc EXCEPT ![c].st = loc[c].st, ![c].frames = loc[c].frames]
      BY <1>3, SameFrames
    <2> QED
      BY <1>1, <1>2, <2>1, <2>2, FrameIn, FramesStep DEF RmRead
  <1>4. ASSUME NEW n \in Unread(Frame(c)), Goto(c, "rmlstat"),
               LET parent == [Frame(c) EXCEPT !.seen = @ \cup {n}]
                   child  == Unopened(Append(Frame(c).path, n))
               IN  loc' = [loc EXCEPT ![c].frames = Front(@) \o <<parent, child>>]
        PROVE  Typed' /\ Calm
    <2> DEFINE parent == [Frame(c) EXCEPT !.seen = @ \cup {n}]
               child  == Unopened(Append(Frame(c).path, n))
               two    == <<parent, child>>
               fr     == Front(loc[c].frames) \o two
    <2>1. Control' /\ Moves(c, "rmlstat") /\ "rmlstat" \in Removing \cup {"done"}
      BY <1>4, TypedControl, GotoEffect DEF Phase, Removing
    <2>2. n \in Name
      BY DEF Unread
    <2>3. parent \in Stream
      BY <1>2, <2>2, FrameIn DEF Stream
    <2>4. Append(Frame(c).path, n) \in Path
      BY <1>2, <2>2, FrameIn, AppendIn DEF Path
    <2>5. child \in Stream
      BY <2>4, StreamIn
    <2>6. two \in Seq(Stream) /\ two # <<>>
      <3> HIDE DEF parent, child
      <3> QED
        BY <2>3, <2>5
    <2>7. fr \in Seq(Stream) /\ fr # <<>>
      <3> HIDE DEF two
      <3>1. Front(loc[c].frames) \in Seq(Stream)
        BY <1>2, FrameIn
      <3> QED
        BY <2>6, <3>1, ConcatProperties, ConcatEmptySeq, EmptySeq, LenProperties
    <2>8. loc' = [loc EXCEPT ![c].frames = fr]
      <3>1. loc' = [loc EXCEPT ![c].frames = Front(@) \o two]
        BY <1>4
      <3> HIDE DEF two
      <3> QED
        BY <3>1
    <2> HIDE DEF fr
    <2>9. loc[c].st \in Stat /\ loc' = [loc EXCEPT ![c].st = loc[c].st, ![c].frames = fr]
      BY <2>8, SameStat
    <2> QED
      BY <1>1, <1>2, <2>1, <2>7, <2>9, FrameIn, FramesStep DEF RmRead
  <1> QED
    BY <1>3, <1>4 DEF RmRead

\* The unlink or rmdir of fsapi_rmtree keeps types and stages.
LEMMA RmRemoveTyped ==
  ASSUME Typed, NEW c \in Conn, RmRemove(c)
  PROVE  Typed' /\ Calm
  <1> DEFINE p  == Frame(c).path
             fr == Front(loc[c].frames)
             e  == IF pc[c] = "rmunlink" THEN UnlinkErr(p) ELSE RmdirErr(p)
  <1>1. pc[c] \in Removing
    BY DEF RmRemove, Removing
  <1>2. TreeTypeOK' /\ KeepsNames
    <2>1. p \in Path
      BY <1>1, FrameIn
    <2>2. ((UnlinkErr(p) = OK \/ RmdirErr(p) = OK) /\ Unbind(p)) \/ UNCHANGED ent
      BY DEF RmRemove
    <2> HIDE DEF p
    <2> QED
      BY <2>1, <2>2, RemoveTree
  <1>3. CASE Fail(c, e) /\ UNCHANGED loc
    <2>1. e \in Errno
      BY ErrnoKinds
    <2>2. Control' /\ Moves(c, "done") /\ "done" \in Removing \cup {"done"}
      BY <1>3, <2>1, TypedControl, FailEffect
    <2>3. /\ loc[c].st \in Stat
          /\ loc' = [loc EXCEPT ![c].st = loc[c].st, ![c].frames = loc[c].frames]
      BY <1>3, SameFrames
    <2> QED
      BY <1>1, <1>2, <2>2, <2>3, FrameIn, FramesStep DEF RmRemove
  <1>4. CASE /\ loc' = [loc EXCEPT ![c].frames = Front(@)]
             /\ \/ Len(loc[c].frames) = 1 /\ Answer(c, 204)
                \/ Len(loc[c].frames) > 1 /\ Goto(c, "rmread")
    <2>1. PICK l \in {"done", "rmread"} : /\ Control' /\ Moves(c, l)
                                          /\ l = "done" \/ Len(loc[c].frames) > 1
      <3>1. 204 \in Nat
        OBVIOUS
      <3> QED
        BY <1>4, <3>1, TypedControl, AnswerEffect, GotoEffect DEF Phase
    <2>2. fr \in Seq(Stream) /\ Len(fr) = Len(loc[c].frames) - 1
      BY <1>1, FrameIn, FrontIn
    <2>3. l = "done" \/ fr # <<>>
      <3>1. Len(loc[c].frames) \in Nat
        BY <1>1, FrameIn, LenProperties
      <3> DEFINE k == Len(fr)
                 n == Len(loc[c].frames)
      <3>2. (l = "done" \/ n > 1) /\ k = n - 1 /\ n \in Nat
        BY <2>1, <2>2, <3>1
      <3>3. fr = <<>> => k = 0
        OBVIOUS
      <3> HIDE DEF k, n
      <3> QED
        BY <3>2, <3>3
    <2>4. loc' = [loc EXCEPT ![c].frames = fr]
      BY <1>4
    <2> HIDE DEF fr
    <2>5. loc[c].st \in Stat /\ loc' = [loc EXCEPT ![c].st = loc[c].st, ![c].frames = fr]
      BY <2>4, SameStat
    <2>6. l \in Removing \cup {"done"}
      BY DEF Removing
    <2> QED
      BY <1>1, <1>2, <2>1, <2>2, <2>3, <2>5, <2>6, FrameIn, FramesStep DEF RmRemove
  <1> QED
    BY <1>3, <1>4 DEF RmRemove
=============================================================================
