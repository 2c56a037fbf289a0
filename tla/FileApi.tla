------------------------------ MODULE FileApi ------------------------------
(***************************************************************************)
(* The file verbs of unasd: dispatch_fs of src/core/unasd.c with the       *)
(* workers it calls in src/core/fsapi.c (fsapi_write_stream, fsapi_move,   *)
(* fsapi_copy, fsapi_rmtree, fsapi_list_json).                             *)
(*                                                                         *)
(* Every connection is served by a forked child, so requests share nothing *)
(* but the file system and interleave between any two system calls.  One   *)
(* action is one system call that reads or changes the tree together with  *)
(* the decisions the child takes on its result before the next call.       *)
(***************************************************************************)
EXTENDS PosixTree, FiniteSets

CONSTANTS
  Requests,   \* the requests a client may send in this instance
  Faults,     \* errnos the data calls may answer: a lost or stalled client, a full or failing disk
  Killable,   \* whether a child may be killed between two steps
  MaxTime,    \* bound on the seconds that pass
  InitEnt,    \* the tree at the start
  SeedSize    \* the size of every file that exists at the start

(***************************************************************************)
(* A request after parsing and path resolution: op is the method, path and *)
(* dst the resolved paths, slash the trailing slash of the target, excl    *)
(* "If-None-Match: *", im the etag of If-Match (None without the header),  *)
(* len the Content-Length (None without the header), deep                  *)
(* "Depth: infinity".                                                      *)
(***************************************************************************)
Request == [op : {"GET", "HEAD", "PUT", "DELETE", "MOVE", "COPY"},
            path : Seq(ClientName), slash : BOOLEAN, dst : Seq(ClientName),
            excl : BOOLEAN, im : (Nat \X Nat) \cup {None}, len : Nat \cup {None},
            deep : BOOLEAN]

\* Every child draws its temporary names from a clock reading and its own pid.
DistinctTemps == \A c, x \in Conn : Temp[c] = Temp[x] => c = x

IsShared(p) == p # <<>> /\ p[1] = Share /\ Len(p) <= MaxDepth

ASSUME RequestAssumption ==
  /\ Requests \subseteq Request /\ None \notin Requests
  /\ \A r \in Requests : /\ IsShared(r.path)
                         /\ r.op \in {"MOVE", "COPY"} => IsShared(r.dst)
  /\ MaxTime \in Nat /\ SeedSize \in Nat
  /\ Killable \in BOOLEAN
  /\ Faults \subseteq {"ECONNRESET", "ENOSPC", "EIO", "EPIPE"}
  /\ None \notin Nat \X Nat /\ None \notin Nat

ASSUME InitAssumption ==
  /\ InitEnt \in [DirNode -> [Name -> Node \cup {None}]]
  /\ \A d \in DirNode, n \in Name : InitEnt[d][n] \in SeedFile \cup SeedDir \cup {None}
  /\ \A d \in DirNode, n \in TempName : InitEnt[d][n] = None

\* The tree at the start has no hard links, and the directories to be made are empty.
ASSUME SeedAssumption ==
  /\ \A d, e \in DirNode, n, m \in ClientName :
       InitEnt[d][n] # None /\ InitEnt[d][n] = InitEnt[e][m] => d = e /\ n = m
  /\ \A d \in Conn \X (1 .. MaxDepth), n \in Name : InitEnt[d][n] = None

VARIABLES
  file,   \* file[f]: what inode f holds
  now,    \* the clock, in the whole seconds st_mtime shows
  pc,     \* pc[c]: the next system call of the child serving c
  req,    \* req[c]: its request, None before the connection arrives
  loc,    \* loc[c]: its local variables
  reply   \* reply[c]: the response it has chosen; sent once pc[c] = "done"

vars == <<ent, file, now, pc, req, loc, reply>>

(***************************************************************************)
(* A file's bytes are abstracted to how many there are (size) and whose    *)
(* upload they belong to (data); total is the length the upload or the     *)
(* copied source has, and synced says that fsync has run since.            *)
(***************************************************************************)
Blank == [size |-> 0, total |-> 0, data |-> None, mtime |-> 0, synced |-> FALSE]
Seed(f) == [size |-> SeedSize, total |-> SeedSize, data |-> f, mtime |-> 0, synced |-> TRUE]
Whole(f) == file[f].size = file[f].total /\ file[f].synced
Etag(f)  == <<file[f].size, file[f].mtime>>

(***************************************************************************)
(* Local state of a child: st, the struct stat of dispatch_fs; k, the path *)
(* prefixes mkdirs has walked or the bytes sent; fd, the inode open for    *)
(* reading; frames, the recursion of fsapi_rmtree or the one stream of     *)
(* fsapi_list_json; listing, the entries listed so far.                    *)
(***************************************************************************)
NoStat  == [have |-> FALSE, dir |-> FALSE, etag |-> None, err |-> OK]
NoLocal == [st |-> NoStat, k |-> 0, fd |-> None, frames |-> <<>>, listing |-> {}]

StatOf(p) ==
  LET w == Walk(p)
  IN  [have |-> w \in Node, dir |-> w \in DirNode,
       etag |-> IF w \in FileNode THEN Etag(w) ELSE None,
       err  |-> OpenErr(p)]

NoReply == [status |-> 0, err |-> OK]

Init ==
  /\ ent = InitEnt
  /\ file = [f \in FileNode |-> IF f \in SeedFile THEN Seed(f) ELSE Blank]
  /\ now = 0
  /\ pc = [c \in Conn |-> "idle"]
  /\ req = [c \in Conn |-> None]
  /\ loc = [c \in Conn |-> NoLocal]
  /\ reply = [c \in Conn |-> NoReply]

-----------------------------------------------------------------------------
(***************************************************************************)
(* Steps and replies.                                                      *)
(***************************************************************************)
At(c, op, l)  == pc[c] = l /\ req[c].op = op
WantsDir(r)   == r.slash \/ r.path = Root

ErrHttp(e) ==
  IF e = "ENOENT" THEN 404
  ELSE IF e \in {"EACCES", "EPERM", "EROFS"} THEN 403
  ELSE IF e \in {"EEXIST", "ENOTEMPTY", "EISDIR", "ENOTDIR"} THEN 409
  ELSE IF e = "EINVAL" THEN 400
  ELSE IF e = "ENAMETOOLONG" THEN 414
  ELSE IF e \in {"ENOSPC", "EDQUOT"} THEN 507 ELSE 500
ErrName(e) == IF ErrHttp(e) = 500 THEN "EIO" ELSE e

Goto(c, l) == pc' = [pc EXCEPT ![c] = l] /\ UNCHANGED reply

\* choose the response now and go on to l; the response is sent at "done"
Choose(c, status, e, l) ==
  /\ pc' = [pc EXCEPT ![c] = l]
  /\ reply' = [reply EXCEPT ![c] = [status |-> status, err |-> e]]

Answer(c, status) == Choose(c, status, OK, "done")
Fail(c, e)        == Choose(c, ErrHttp(e), ErrName(e), "done")
Precondition(c, e, l) == Choose(c, 412, e, l)

\* a failed write: EEXIST is the lost create-only race when the PUT asked for one
WriteFail(c, e, l) ==
  \/ req[c].op = "PUT" /\ req[c].excl /\ e = "EEXIST" /\ Precondition(c, e, l)
  \/ ~(req[c].op = "PUT" /\ req[c].excl /\ e = "EEXIST")
     /\ Choose(c, ErrHttp(e), ErrName(e), l)

\* if_match_ok: If-Match is compared with the etag of the stat.  A directory
\* has a size and a time too, which the tree does not keep: either may be said.
MayMatch(s, im) == im = None \/ s.dir \/ s.etag = im
MayMiss(s, im)  == im # None /\ (s.dir \/ s.etag # im)

(***************************************************************************)
(* A request arrives; the router resolves its path and checks that it lies *)
(* in the share, which fails when the share root is gone.                  *)
(***************************************************************************)
HandleRequest(c) ==
  /\ pc[c] = "idle"
  /\ \E r \in Requests : req' = [req EXCEPT ![c] = r]
  /\ \/ Present(Root) /\ Goto(c, "stat")
     \/ ~Present(Root) /\ Fail(c, "EACCES")
  /\ UNCHANGED <<ent, file, now, loc>>

-----------------------------------------------------------------------------
(***************************************************************************)
(* GET and HEAD.                                                           *)
(***************************************************************************)
DispatchGet(c) ==
  /\ At(c, "GET", "stat") \/ At(c, "HEAD", "stat")
  /\ LET r == req[c]
         s == StatOf(r.path)
     IN  /\ loc' = [loc EXCEPT ![c].st = s]
         /\ \/ ~s.have /\ Fail(c, s.err)
            \/ s.have /\ WantsDir(r) /\ ~s.dir /\ Fail(c, "ENOTDIR")
            \/ WantsDir(r) /\ s.dir /\ r.op = "HEAD" /\ Answer(c, 200)
            \/ WantsDir(r) /\ s.dir /\ r.op = "GET" /\ Goto(c, "opendir")
            \/ ~WantsDir(r) /\ s.dir /\ Fail(c, "EISDIR")
            \/ s.have /\ ~WantsDir(r) /\ ~s.dir /\ Goto(c, "open")
  /\ UNCHANGED <<ent, file, now, req>>

\* serve_file opens the path again, after the stat its headers are built from;
\* opening a directory succeeds too
OpenFile(c) ==
  /\ pc[c] = "open"
  /\ LET p == req[c].path
     IN  \/ Present(p) /\ loc' = [loc EXCEPT ![c].fd = Walk(p)]
            /\ Choose(c, 200, OK, IF req[c].op = "HEAD" THEN "done" ELSE "send")
         \/ ~Present(p) /\ Fail(c, OpenErr(p)) /\ UNCHANGED loc
  /\ UNCHANGED <<ent, file, now, req>>

Promised(c)  == loc[c].st.etag[1]     \* the Content-Length already sent
Readable(c)  == loc[c].fd \in FileNode /\ loc[c].k < file[loc[c].fd].size

SendByte(c) ==
  /\ pc[c] = "send" /\ loc[c].k < Promised(c) /\ Readable(c)
  /\ loc' = [loc EXCEPT ![c].k = @ + 1]
  /\ UNCHANGED <<ent, file, now, pc, req, reply>>

\* all promised bytes are out, the read came back short, or the client is gone
EndSend(c) ==
  /\ pc[c] = "send"
  /\ loc[c].k >= Promised(c) \/ ~Readable(c) \/ "EPIPE" \in Faults
  /\ Goto(c, "done")
  /\ UNCHANGED <<ent, file, now, req, loc>>

OpenList(c) ==
  /\ pc[c] = "opendir"
  /\ LET p == req[c].path
     IN  \/ Walk(p) \in DirNode /\ Goto(c, "list")
            /\ loc' = [loc EXCEPT ![c].frames = <<OpenStream(p)>>]
         \/ Walk(p) \notin DirNode /\ Fail(c, OpenDirErr(p)) /\ UNCHANGED loc
  /\ UNCHANGED <<ent, file, now, req>>

\* readdir, then stat of the child: an entry that is gone by then is skipped
ListEntry(c) ==
  /\ pc[c] = "list"
  /\ LET s == Head(loc[c].frames)
     IN  \E n \in Unread(s) :
           LET w == Walk(Append(s.path, n))
               e == [name |-> n, node |-> w,
                     size |-> IF w \in FileNode THEN file[w].size ELSE 0]
           IN  loc' = [loc EXCEPT ![c].frames = <<[s EXCEPT !.seen = @ \cup {n}]>>,
                                  ![c].listing = IF w \in Node THEN @ \cup {e} ELSE @]
  /\ UNCHANGED <<ent, file, now, pc, req, reply>>

EndList(c) ==
  /\ pc[c] = "list" /\ MayEnd(Head(loc[c].frames))
  /\ loc' = [loc EXCEPT ![c].frames = <<>>]
  /\ Answer(c, 200)
  /\ UNCHANGED <<ent, file, now, req>>

-----------------------------------------------------------------------------
(***************************************************************************)
(* PUT, and the steps fsapi_write_stream, fsapi_copy and fsapi_move share. *)
(***************************************************************************)
Target(r)     == IF r.op = "PUT" THEN r.path ELSE r.dst
MakesDir(r)   == r.op = "PUT" /\ WantsDir(r)
MkdirsPath(r) == IF MakesDir(r) THEN r.path ELSE Front(Target(r))
\* Mutant: the upload is written straight under its target's name
WriteInPlace(c) == Target(req[c])

TempPath(c)   == Append(Front(Target(req[c])), Temp[c])

AfterMkdirs(c) ==
  \/ MakesDir(req[c]) /\ Answer(c, 201)
  \/ req[c].op = "MOVE" /\ Goto(c, "rename")
  \/ ~MakesDir(req[c]) /\ req[c].op # "MOVE" /\ Goto(c, "opentmp")

\* fsapi_mkdirs with nothing below the share's parent to make is done at once
EnterMkdirs(c) ==
  \/ MkdirsPath(req[c]) # <<>> /\ Goto(c, "mkdirs")
  \/ MkdirsPath(req[c]) = <<>> /\ AfterMkdirs(c)

\* Mutant: a PUT without Content-Length is not refused
DispatchPutUnsized(c) ==
  /\ At(c, "PUT", "stat")
  /\ LET r == req[c]
         s == StatOf(r.path)
         fine == MayMatch(s, r.im) /\ ~(r.excl /\ s.have)
     IN  /\ loc' = [loc EXCEPT ![c].st = s]
         /\ \/ s.dir /\ Fail(c, "EISDIR")
            \/ ~s.dir /\ fine /\ EnterMkdirs(c)
            \/ ~s.dir /\ ~fine /\ Precondition(c, "EMISMATCH", "done")
  /\ UNCHANGED <<ent, file, now, req>>

DispatchPut(c) ==
  /\ At(c, "PUT", "stat")
  /\ LET r == req[c]
         s == StatOf(r.path)
         lost == r.excl /\ s.have
         stale == MayMiss(s, r.im)
     IN  /\ loc' = [loc EXCEPT ![c].st = s]
         /\ \/ WantsDir(r) /\ s.dir /\ Answer(c, 204)
            \/ WantsDir(r) /\ s.have /\ ~s.dir /\ Fail(c, "ENOTDIR")
            \/ WantsDir(r) /\ ~s.have /\ EnterMkdirs(c)
            \/ ~WantsDir(r) /\ s.dir /\ Fail(c, "EISDIR")
            \/ ~WantsDir(r) /\ ~s.dir /\
                 \/ lost /\ Precondition(c, "EEXIST", "done")
                 \/ ~lost /\ stale /\ Precondition(c, "EMISMATCH", "done")
                 \/ ~lost /\ ~stale /\ r.len = None /\ Choose(c, 411, "ELENGTH", "done")
                 \/ ~lost /\ ~stale /\ r.len # None /\ EnterMkdirs(c)
  /\ UNCHANGED <<ent, file, now, req>>

\* Mutant: a mkdir that fails is tried again
MkdirRetry(c) ==
  /\ pc[c] = "mkdirs"
  /\ LET p == MkdirsPath(req[c])
         i == loc[c].k + 1
         e == CreateErr(SubSeq(p, 1, i))
     IN  /\ e \in {OK, "EEXIST"}
         /\ (e = OK /\ Bind(SubSeq(p, 1, i), <<c, i>>)) \/ (e = "EEXIST" /\ UNCHANGED ent)
         /\ loc' = [loc EXCEPT ![c].k = i]
         /\ (i < Len(p) /\ Goto(c, "mkdirs")) \/ (i >= Len(p) /\ AfterMkdirs(c))
  /\ UNCHANGED <<file, now, req>>

\* one mkdir of fsapi_mkdirs: a name that is taken, by whatever, is passed over
Mkdir(c) ==
  /\ pc[c] = "mkdirs"
  /\ LET p == MkdirsPath(req[c])
         i == loc[c].k + 1
         q == SubSeq(p, 1, i)
         e == CreateErr(q)
     IN  \/ /\ e \notin {OK, "EEXIST"} /\ Fail(c, e) /\ UNCHANGED <<ent, loc>>
         \/ /\ e \in {OK, "EEXIST"}
            /\ (e = OK /\ Bind(q, <<c, i>>)) \/ (e = "EEXIST" /\ UNCHANGED ent)
            /\ loc' = [loc EXCEPT ![c].k = i]
            /\ (i < Len(p) /\ Goto(c, "mkdirs")) \/ (i >= Len(p) /\ AfterMkdirs(c))
  /\ UNCHANGED <<file, now, req>>

Upload(c) ==
  LET src == IF req[c].op = "PUT" THEN c ELSE loc[c].fd
      total == IF req[c].op = "PUT" THEN req[c].len ELSE file[src].total
      data == IF req[c].op = "PUT" THEN c ELSE file[src].data
  IN  [size |-> 0, total |-> total, data |-> data, mtime |-> now, synced |-> FALSE]

\* Mutant: no O_EXCL, a temporary name that is taken is taken over
OpenTempOver(c) ==
  /\ pc[c] = "opentmp" /\ CreateErr(TempPath(c)) \in {OK, "EEXIST"}
  /\ Bind(TempPath(c), c)
  /\ file' = [file EXCEPT ![c] = Upload(c)]
  /\ Goto(c, "fill")
  /\ UNCHANGED <<now, req, loc>>

\* open(tmp, O_CREAT|O_EXCL) in the target's directory
OpenTemp(c) ==
  /\ pc[c] = "opentmp"
  /\ LET e == CreateErr(TempPath(c))
     IN  \/ /\ e = OK
            /\ Bind(TempPath(c), c)
            /\ file' = [file EXCEPT ![c] = Upload(c)]
            /\ Goto(c, "fill")
         \/ /\ e # OK /\ WriteFail(c, e, "done") /\ UNCHANGED <<ent, file>>
         \/ /\ "ENOSPC" \in Faults /\ WriteFail(c, "ENOSPC", "done") /\ UNCHANGED <<ent, file>>
  /\ UNCHANGED <<now, req, loc>>

\* Mutant: the copy loop stops one byte before the source's end
RemainingShort(c) ==
  IF req[c].op = "PUT" THEN req[c].len - file[c].size
  ELSE file[loc[c].fd].size - file[c].size - 1

\* how many bytes the loop still has to write: the rest of Content-Length for
\* fsapi_write_stream, the rest of the source up to its end for fsapi_copy
Remaining(c) ==
  IF req[c].op = "PUT" THEN req[c].len - file[c].size
  ELSE file[loc[c].fd].size - file[c].size

\* the descriptor writes to the inode, whatever its name has become
Fill(c) ==
  /\ pc[c] = "fill"
  /\ \/ \E n \in 1 .. Remaining(c) :
          /\ file' = [file EXCEPT ![c].size = @ + n, ![c].mtime = now]
          /\ UNCHANGED <<pc, reply>>
     \/ /\ Remaining(c) > 0
        /\ \E e \in Faults \ {"EPIPE"} : WriteFail(c, e, "cleanup")
        /\ UNCHANGED file
  /\ UNCHANGED <<ent, now, req, loc>>

\* Mutant: the end of the connection is taken for the end of the body
SyncShortBody(c) ==
  /\ pc[c] = "fill"
  /\ file' = [file EXCEPT ![c].synced = TRUE] /\ Goto(c, "publish")
  /\ UNCHANGED <<ent, now, req, loc>>

\* Mutant: the file is published without being forced to disk
SyncSkipped(c) ==
  /\ pc[c] = "fill" /\ Remaining(c) <= 0 /\ Goto(c, "publish")
  /\ UNCHANGED <<ent, file, now, req, loc>>

Sync(c) ==
  /\ pc[c] = "fill" /\ Remaining(c) <= 0
  /\ \/ file' = [file EXCEPT ![c].synced = TRUE] /\ Goto(c, "publish")
     \/ "EIO" \in Faults /\ WriteFail(c, "EIO", "cleanup") /\ UNCHANGED file
  /\ UNCHANGED <<ent, now, req, loc>>

CreateOnlyPut(r) == r.op = "PUT" /\ r.excl

\* rename(tmp, target)
PublishByRename(c) ==
  /\ pc[c] = "publish" /\ ~CreateOnlyPut(req[c])
  /\ LET t == Target(req[c])
         e == RenameErr(TempPath(c), t)
     IN  \/ e = OK /\ Rebind(TempPath(c), t) /\ Goto(c, "flush")
         \/ e # OK /\ WriteFail(c, e, "cleanup") /\ UNCHANGED ent
  /\ UNCHANGED <<file, now, req, loc>>

\* Mutant: create-only is left to the early stat, and rename publishes
LinkAsRename(c) ==
  /\ pc[c] = "publish" /\ CreateOnlyPut(req[c])
  /\ LET t == Target(req[c])
         e == RenameErr(TempPath(c), t)
     IN  \/ e = OK /\ Rebind(TempPath(c), t) /\ Goto(c, "untmp")
         \/ e # OK /\ WriteFail(c, e, "cleanup") /\ UNCHANGED ent
  /\ UNCHANGED <<file, now, req, loc>>

\* link(tmp, target), the atomic create-only publication
PublishByLink(c) ==
  /\ pc[c] = "publish" /\ CreateOnlyPut(req[c])
  /\ LET t == Target(req[c])
         e == LinkErr(TempPath(c), t)
     IN  \/ e = OK /\ Bind(t, Walk(TempPath(c))) /\ Goto(c, "untmp")
         \/ e # OK /\ WriteFail(c, e, "cleanup") /\ UNCHANGED ent
  /\ UNCHANGED <<file, now, req, loc>>

\* unlink(tmp), its result ignored
UnlinkTemp(c) ==
  \/ UnlinkErr(TempPath(c)) = OK /\ Unbind(TempPath(c))
  \/ UnlinkErr(TempPath(c)) # OK /\ UNCHANGED ent

\* Mutants: the temporary name is kept after the link, or after a failure
DropNothing(c) ==
  /\ pc[c] = "untmp" /\ Goto(c, "flush")
  /\ UNCHANGED <<ent, file, now, req, loc>>
CleanNothing(c) ==
  /\ pc[c] = "cleanup" /\ Goto(c, "done")
  /\ UNCHANGED <<ent, file, now, req, loc>>

DropTemp(c) ==
  /\ pc[c] = "untmp" /\ UnlinkTemp(c) /\ Goto(c, "flush")
  /\ UNCHANGED <<file, now, req, loc>>

Cleanup(c) ==
  /\ pc[c] = "cleanup" /\ UnlinkTemp(c) /\ Goto(c, "done")
  /\ UNCHANGED <<file, now, req, loc>>

\* Mutant: a directory that cannot be fsynced fails the request
FsyncDirFails(c) ==
  /\ pc[c] = "flush"
  /\ Answer(c, IF req[c].op = "PUT" /\ loc[c].st.have THEN 200 ELSE 201) \/ Fail(c, "EINVAL")
  /\ UNCHANGED <<ent, file, now, req, loc>>

\* fsync of the parent directories, then the success reply, in which a PUT
\* still goes by the stat it began with
FsyncDir(c) ==
  /\ pc[c] = "flush"
  /\ Answer(c, IF req[c].op = "PUT" /\ loc[c].st.have THEN 200 ELSE 201)
  /\ UNCHANGED <<ent, file, now, req, loc>>

-----------------------------------------------------------------------------
(***************************************************************************)
(* MOVE and COPY.                                                          *)
(***************************************************************************)
StatSource(c) ==
  /\ At(c, "MOVE", "stat") \/ At(c, "COPY", "stat")
  /\ loc' = [loc EXCEPT ![c].st = StatOf(req[c].path)]
  /\ Goto(c, "dest")
  /\ UNCHANGED <<ent, file, now, req>>

DispatchDest(c) ==
  /\ pc[c] = "dest"
  /\ LET r == req[c]
         s == loc[c].st
         inside == Present(Root)
         fresh == MayMatch(s, r.im)
     IN  \/ ~inside /\ Fail(c, "EACCES")
         \/ inside /\ ~s.have /\ Fail(c, "ENOENT")
         \/ inside /\ s.have /\ MayMiss(s, r.im) /\ Precondition(c, "EMISMATCH", "done")
         \/ inside /\ s.have /\ fresh /\ r.op = "MOVE" /\ EnterMkdirs(c)
         \/ inside /\ s.have /\ fresh /\ r.op = "COPY" /\ Goto(c, "opensrc")
  /\ UNCHANGED <<ent, file, now, req, loc>>

OpenSource(c) ==
  /\ pc[c] = "opensrc"
  /\ LET p == req[c].path
     IN  \/ ~Present(p) /\ Fail(c, OpenErr(p)) /\ UNCHANGED loc
         \/ Walk(p) \in DirNode /\ Fail(c, "EISDIR") /\ UNCHANGED loc
         \/ Walk(p) \in FileNode /\ loc' = [loc EXCEPT ![c].fd = Walk(p)] /\ EnterMkdirs(c)
  /\ UNCHANGED <<ent, file, now, req>>

\* Mutant: the new name is made before the old one is taken away
RenameByLink(c) ==
  /\ pc[c] = "rename"
  /\ LET r == req[c]
         e == RenameErr(r.path, r.dst)
     IN  \/ e = OK /\ Bind(r.dst, Walk(r.path)) /\ Goto(c, "flush")
         \/ e # OK /\ Fail(c, e) /\ UNCHANGED ent
  /\ UNCHANGED <<file, now, req, loc>>

Rename(c) ==
  /\ pc[c] = "rename"
  /\ LET r == req[c]
         e == RenameErr(r.path, r.dst)
     IN  \/ e = OK /\ Rebind(r.path, r.dst) /\ Goto(c, "flush")
         \/ e # OK /\ Fail(c, e) /\ UNCHANGED ent
  /\ UNCHANGED <<file, now, req, loc>>

-----------------------------------------------------------------------------
(***************************************************************************)
(* DELETE.                                                                 *)
(***************************************************************************)
DispatchDelete(c) ==
  /\ At(c, "DELETE", "stat")
  /\ LET r == req[c]
         s == StatOf(r.path)
         fresh == MayMatch(s, r.im)
     IN  /\ loc' = [loc EXCEPT ![c].st = s, ![c].frames = <<Unopened(r.path)>>]
         /\ \/ ~s.have /\ Fail(c, s.err)
            \/ s.have /\ MayMiss(s, r.im) /\ Precondition(c, "EMISMATCH", "done")
            \/ s.have /\ fresh /\ WantsDir(r) /\ ~s.dir /\ Fail(c, "ENOTDIR")
            \/ fresh /\ WantsDir(r) /\ s.dir /\ Goto(c, "rmlstat")
            \/ fresh /\ ~WantsDir(r) /\ s.dir /\ Fail(c, "EISDIR")
            \/ s.have /\ fresh /\ ~WantsDir(r) /\ ~s.dir /\ Goto(c, "rmunlink")
  /\ UNCHANGED <<ent, file, now, req>>

Frame(c) == Last(loc[c].frames)

\* the lstat of fsapi_rmtree; a child is always removed recursively
RmLstat(c) ==
  /\ pc[c] = "rmlstat"
  /\ LET w == Walk(Frame(c).path)
     IN  \/ w \notin Node /\ Fail(c, LookupErr(w))
         \/ w \in FileNode /\ Goto(c, "rmunlink")
         \/ w \in DirNode /\ ~req[c].deep /\ Goto(c, "rmdir")
         \/ w \in DirNode /\ req[c].deep /\ Goto(c, "rmopen")
  /\ UNCHANGED <<ent, file, now, req, loc>>

RmOpen(c) ==
  /\ pc[c] = "rmopen"
  /\ LET p == Frame(c).path
     IN  \/ Walk(p) \notin DirNode /\ Fail(c, OpenDirErr(p)) /\ UNCHANGED loc
         \/ Walk(p) \in DirNode /\ Goto(c, "rmread")
            /\ loc' = [loc EXCEPT ![c].frames = Append(Front(@), OpenStream(p))]
  /\ UNCHANGED <<ent, file, now, req>>

RmRead(c) ==
  /\ pc[c] = "rmread"
  /\ \/ /\ \E n \in Unread(Frame(c)) :
             LET parent == [Frame(c) EXCEPT !.seen = @ \cup {n}]
                 child  == Unopened(Append(Frame(c).path, n))
             IN  loc' = [loc EXCEPT ![c].frames = Front(@) \o <<parent, child>>]
        /\ Goto(c, "rmlstat")
     \/ MayEnd(Frame(c)) /\ Goto(c, "rmdir") /\ UNCHANGED loc
  /\ UNCHANGED <<ent, file, now, req>>

\* unlink or rmdir of the innermost path: an error aborts the whole recursion
RmRemove(c) ==
  /\ pc[c] \in {"rmunlink", "rmdir"}
  /\ LET p == Frame(c).path
         e == IF pc[c] = "rmunlink" THEN UnlinkErr(p) ELSE RmdirErr(p)
     IN  \/ e # OK /\ Fail(c, e) /\ UNCHANGED <<ent, loc>>
         \/ /\ e = OK
            /\ Unbind(p)
            /\ loc' = [loc EXCEPT ![c].frames = Front(@)]
            /\ \/ Len(loc[c].frames) = 1 /\ Answer(c, 204)
               \/ Len(loc[c].frames) > 1 /\ Goto(c, "rmread")
  /\ UNCHANGED <<file, now, req>>

-----------------------------------------------------------------------------
(***************************************************************************)
(* The environment: the clock, and a child that is killed on the way.      *)
(***************************************************************************)
Tick ==
  /\ now < MaxTime /\ now' = now + 1
  /\ UNCHANGED <<ent, file, pc, req, loc, reply>>

Kill(c) ==
  /\ Killable /\ pc[c] \notin {"idle", "done", "dead"}
  /\ pc' = [pc EXCEPT ![c] = "dead"]
  /\ UNCHANGED <<ent, file, now, req, loc, reply>>

Serve(c) ==
  \/ DispatchGet(c) \/ OpenFile(c) \/ SendByte(c) \/ EndSend(c)
  \/ OpenList(c) \/ ListEntry(c) \/ EndList(c)
  \/ DispatchPut(c) \/ Mkdir(c) \/ OpenTemp(c) \/ Fill(c) \/ Sync(c)
  \/ PublishByRename(c) \/ PublishByLink(c) \/ DropTemp(c) \/ Cleanup(c) \/ FsyncDir(c)
  \/ StatSource(c) \/ DispatchDest(c) \/ OpenSource(c) \/ Rename(c)
  \/ DispatchDelete(c) \/ RmLstat(c) \/ RmOpen(c) \/ RmRead(c) \/ RmRemove(c)

Next == Tick \/ \E c \in Conn : HandleRequest(c) \/ Serve(c) \/ Kill(c)

Spec == Init /\ [][Next]_vars

\* A runnable child is scheduled, and set_io_timeout ends a stalled read or write.
FairSpec == Spec /\ \A c \in Conn : WF_vars(Serve(c))
-----------------------------------------------------------------------------
(***************************************************************************)
(* Properties.                                                             *)
(***************************************************************************)
Bindings == DirNode \X ClientName

Inode  == [size : Nat, total : Nat, data : FileNode \cup {None}, mtime : Nat, synced : BOOLEAN]
Stat   == [have : BOOLEAN, dir : BOOLEAN, etag : (Nat \X Nat) \cup {None},
           err : {OK, "ENOENT", "ENOTDIR"}]
Stream == [path : Seq(Name) \ {<<>>}, dir : DirNode \cup {None},
           at : [Name -> Node \cup {None}], seen : SUBSET Name]
Locals == [st : Stat, k : Nat, fd : Node \cup {None}, frames : Seq(Stream),
           listing : SUBSET [name : Name, node : Node, size : Nat]]
Errno  == {OK, "ENOENT", "ENOTDIR", "EEXIST", "EINVAL", "EISDIR", "ENOTEMPTY", "EACCES",
           "EMISMATCH", "ELENGTH", "ECONNRESET", "ENOSPC", "EIO", "EPIPE"}
Phase  == {"idle", "stat", "open", "send", "opendir", "list", "mkdirs", "opentmp", "fill",
           "publish", "untmp", "cleanup", "flush", "dest", "opensrc", "rename",
           "rmlstat", "rmopen", "rmread", "rmunlink", "rmdir", "done", "dead"}

\* Every variable keeps its type.
TypeOK ==
  /\ TreeTypeOK
  /\ file \in [FileNode -> Inode]
  /\ now \in Nat
  /\ pc \in [Conn -> Phase]
  /\ req \in [Conn -> Requests \cup {None}]
  /\ loc \in [Conn -> Locals]
  /\ reply \in [Conn -> [status : Nat, err : Errno]]

Publishes(c) == pc[c] = "publish" /\ pc'[c] \in {"flush", "untmp"}
Created(c)   == pc[c] = "done" /\ reply[c].status = 201

\* A name a client can ask for never leads to a file that is still being
\* written, or that was not forced to disk before it got its name: the
\* temporary file of fsapi_write_stream and fsapi_copy is renamed or linked
\* into place only when it is whole.
PublishedWhole == \A b \in Bindings : ent[b[1]][b[2]] \in FileNode => Whole(ent[b[1]][b[2]])

\* What a GET has open, and what a listing has reported under a client's name,
\* is a whole file, whatever uploads, copies and deletions run beside it.
ReadersSeeWhole ==
  \A c \in Conn :
    /\ loc[c].fd \in FileNode => Whole(loc[c].fd)
    /\ \A e \in loc[c].listing :
         e.node \in FileNode /\ e.name \in ClientName => e.size = file[e.node].total

\* A PUT with "If-None-Match: *" never takes a name away from the file or
\* directory that holds it: fsapi_write_stream publishes it with link.
CreateOnly ==
  [][\A c \in Conn :
       pc[c] = "publish" /\ pc'[c] # "publish" /\ CreateOnlyPut(req[c]) =>
         \A b \in Bindings : ent[b[1]][b[2]] # None => ent'[b[1]][b[2]] = ent[b[1]][b[2]]]_vars

\* Two create-only PUTs of one path are both told 201 only if somebody may
\* have taken the first one's file away in between.
OneCreator ==
  \A c1, c2 \in Conn :
    /\ Created(c1) /\ CreateOnlyPut(req[c1]) /\ ~MakesDir(req[c1])
    /\ Created(c2) /\ CreateOnlyPut(req[c2]) /\ ~MakesDir(req[c2])
    /\ c1 # c2 /\ req[c1].path = req[c2].path
    => \E c \in Conn : req[c] # None /\ req[c].op \in {"MOVE", "DELETE"}

\* A write that was refused, cut short or failed part-way leaves nothing
\* under any client's name: the error reply is the truth.
RefusedLeavesNothing ==
  \A c \in Conn : pc[c] = "done" /\ reply[c].status >= 400 =>
    \A b \in Bindings : ent[b[1]][b[2]] # c

\* A request that ran to its reply leaves no temporary name behind, unless the
\* directory it was made in was moved away under it.
MovedAway(c) ==
  \E x \in Conn : /\ req[x] # None /\ req[x].op = "MOVE"
                  /\ IsPrefix(req[x].path, Front(Target(req[c])))
NoLitter ==
  \A c \in Conn : pc[c] = "done" /\ req[c].op \in {"PUT", "COPY"} /\ ~MovedAway(c) =>
    \A d \in DirNode : ent[d][Temp[c]] # c

\* No file is ever reachable under two of the clients' names: a MOVE never
\* shows its file twice, and a COPY never aliases its source.
OneName ==
  \A x \in FileNode : Cardinality({b \in Bindings : ent[b[1]][b[2]] = x}) <= 1

\* An upload that is acknowledged as published is the client's own: what the
\* rename put under the target's name is the file this child wrote, even when
\* two children draw the same temporary name.
OwnBytes ==
  [][\A c \in Conn : Publishes(c) => Walk(Target(req[c]))' = c]_vars

\* Every request that arrived is answered or its child is dead: no loop of the
\* workers runs for ever, whatever the other connections do to the tree.
Served == \A c \in Conn : pc[c] # "idle" ~> pc[c] \in {"done", "dead"}
=============================================================================
