---------------------------- MODULE PowerFailure ----------------------------
(***************************************************************************)
(* The file verbs on a machine that loses its power.  The requests and     *)
(* their system calls are those of FileApi; this module adds what of them  *)
(* has reached the disk.  A file's bytes are there once fsync has returned *)
(* (synced); a directory's entries are there once fsync_dir of             *)
(* src/core/fsapi.c has flushed that directory, and any single entry may   *)
(* get there earlier, when the kernel writes it back.  fsync_dir tells     *)
(* nobody when it fails, and the request is answered all the same.  When   *)
(* the power fails, the tree is what the disk holds, every request under   *)
(* way is gone and the daemon is started again.                            *)
(***************************************************************************)
EXTENDS FileApi

CONSTANTS
  MaxCuts,      \* bound on the power failures
  MaxUnflushed  \* bound on the requests for which the flush of a directory fails

ASSUME PowerAssumption == MaxCuts \in Nat /\ MaxUnflushed \in Nat

VARIABLES
  durable,   \* durable[d][n]: the entry of directory d for n that is on the disk
  unflushed, \* the connections for whose answer a directory was not flushed
  cuts       \* how often the power has failed

pvars == <<vars, durable, unflushed, cuts>>

PowerInit == Init /\ durable = InitEnt /\ unflushed = {} /\ cuts = 0

\* Mutants: only the old, or only the new parent of a MOVE is flushed
FlushedByOldParent(c) == IF req[c].op = "MOVE" THEN {Walk(Front(req[c].path))}
                         ELSE {Walk(Front(Target(req[c])))}

\* the directories a write flushes before it is answered: the target's parent by
\* its path, and for a MOVE the old parent too; one that is gone is passed over
FlushedBy(c) == {Walk(Front(Target(req[c])))}
                \cup IF req[c].op = "MOVE" THEN {Walk(Front(req[c].path))} ELSE {}

Flushing == {c \in Conn : pc[c] = "flush" /\ pc'[c] = "done"}
Flushed  == (UNION {FlushedBy(c) : c \in Flushing}) \cap DirNode

\* the directories in failed could not be opened (EMFILE, EACCES) or flushed
\* (EIO, EINVAL): fsync_dir returns, and the answer is the same
Serving ==
  /\ Next
  /\ \E failed \in IF Cardinality(unflushed) < MaxUnflushed THEN SUBSET Flushed ELSE {{}} :
       /\ durable' = [d \in DirNode |-> IF d \in Flushed \ failed THEN ent[d] ELSE durable[d]]
       /\ unflushed' = IF failed = {} THEN unflushed ELSE unflushed \cup Flushing
  /\ UNCHANGED cuts

\* the kernel writes one entry back on its own account
WriteBack ==
  /\ \E d \in DirNode, n \in Name :
       /\ durable[d][n] # ent[d][n]
       /\ durable' = [durable EXCEPT ![d][n] = ent[d][n]]
  /\ UNCHANGED <<vars, unflushed, cuts>>

Unsynced == {f \in FileNode : ~file[f].synced}

\* bytes that were not forced to disk may be lost
PowerCut ==
  /\ cuts < MaxCuts /\ cuts' = cuts + 1
  /\ ent' = durable /\ UNCHANGED durable
  /\ \E lost \in SUBSET Unsynced :
       file' = [f \in FileNode |-> IF f \in lost THEN [file[f] EXCEPT !.size = 0] ELSE file[f]]
  /\ pc' = [c \in Conn |-> IF pc[c] \in {"idle", "done"} THEN pc[c] ELSE "dead"]
  /\ UNCHANGED <<now, req, loc, reply, unflushed>>

PowerNext == Serving \/ WriteBack \/ PowerCut
PowerSpec == PowerInit /\ [][PowerNext]_pvars
-----------------------------------------------------------------------------
(***************************************************************************)
(* Properties.  PublishedWhole of FileApi is checked here too: no power    *)
(* failure leaves a torn file under a client's name.                       *)
(***************************************************************************)
Acked(c) == /\ pc[c] = "done" /\ reply[c].status \in {200, 201}
            /\ req[c].op \in {"PUT", "COPY", "MOVE"} /\ ~MakesDir(req[c])

\* p leads to something that no mkdirs has made
Kept(p) == Walk(p) \in FileNode \cup SeedDir

\* no request names p that is under way, or was answered without its flush
Quiet(p) ==
  \A x \in Conn : pc[x] \notin {"idle", "done"} \/ x \in unflushed =>
    p \notin {req[x].path, req[x].dst}

\* a request that some client has made
Asked(x, op) == req[x] # None /\ req[x].op = op

\* the directories on the way to p are there, they are on the disk themselves,
\* and nobody has asked to move one of them, or another directory in its place
Unmoved(p) ==
  \A x \in Conn : Asked(x, "MOVE") =>
    ~IsPrefix(req[x].path, Front(p)) /\ ~IsPrefix(req[x].dst, Front(p))
Reachable(p) ==
  /\ Holder(p) \in DirNode
  /\ \A i \in 1 .. Len(p) - 1 :
       durable[Holder(SubSeq(p, 1, i))][p[i]] = Walk(SubSeq(p, 1, i))
  /\ Unmoved(p)

\* nobody has asked to delete p or a directory on the way to it
Undeleted(p) == \A x \in Conn : Asked(x, "DELETE") => ~IsPrefix(req[x].path, p)

\* What an acknowledged upload, copy or move has put under its target's name is
\* still there after the first power failure, and the old name of a file that
\* was moved does not come back, if the directories on the way were on the disk,
\* none of them was moved, and fsync_dir did flush: the parents are flushed
\* before the reply, but by their path, and the reply does not say whether the
\* flush succeeded (fsapi_write_stream, fsapi_copy, fsapi_move, fsync_dir).  The
\* failed flush of one request harms no answer about another name.  A DELETE
\* flushes nothing (fsapi_rmtree), so a name that was deleted may come back; and
\* of a rename that was cut short, one entry may be on the disk without the other,
\* so that after a power failure a directory may have two names.
AnswerSurvives ==
  [][PowerCut /\ cuts = 0 => \A c \in Conn : Acked(c) =>
       LET new == Target(req[c])
           src == req[c].path
       IN  /\ Kept(new) /\ Quiet(new) /\ Reachable(new) => Walk(new)' = Walk(new)
           /\ /\ req[c].op = "MOVE" /\ Walk(src) = None
              /\ Quiet(src) /\ Reachable(src) /\ Undeleted(src)
              => Walk(src)' = None]_pvars

\* What the header says of fsapi_write_stream: the upload survives a crash, its
\* missing parent directories being made along the way (src/core/fsapi.h).
UploadSurvives ==
  [][PowerCut => \A c \in Conn :
       LET new == Target(req[c])
       IN  Acked(c) /\ Kept(new) /\ Quiet(new) => Walk(new)' = Walk(new)]_pvars
=============================================================================
