------------------------------ MODULE PathJail ------------------------------
(***************************************************************************)
(* From a request's path to a path of the share: url_decode, fsapi_resolve *)
(* and fsapi_contained of src/core/fsapi.c, on a tree with symbolic links. *)
(*                                                                         *)
(* Text is a sequence of character codes.  A percent escape of c is the    *)
(* one code Escaped(c), a malformed escape is Malformed.                   *)
(***************************************************************************)
EXTENDS Integers, Sequences, SequencesExt, FiniteSetsExt

CONSTANTS
  PATHCAP,   \* the size of the path buffers
  Tree,      \* the paths that exist, as sequences of names: [kind |-> "dir" or "file" or "link", to |-> a path]
  MaxLink    \* bound: the names in the target of a link

Slash == 47      Dot == 46      NUL == 0
Escaped(c) == 256 + c
Malformed  == 512

Ok(v)  == [err |-> "OK", val |-> v]
Err(e) == [err |-> e, val |-> <<>>]

\* the first bad escape, or the first character there is no room for
url_decode(s) ==
  IF \E i \in DOMAIN s : i <= PATHCAP /\ s[i] \in {Malformed, Escaped(NUL)} THEN Err("EINVAL")
  ELSE IF Len(s) >= PATHCAP THEN Err("ENAMETOOLONG")
  ELSE Ok([i \in DOMAIN s |-> s[i] % 256])

\* a name of a path: not empty and without a slash
Name == {n \in Seq(Nat) : n # <<>> /\ \A i \in DOMAIN n : n[i] # Slash}

ASSUME JailAssumption ==
  /\ PATHCAP \in Nat \ {0} /\ MaxLink \in Nat
  /\ \A p \in DOMAIN Tree : Tree[p].to \in Seq(Name) /\ Len(Tree[p].to) <= MaxLink

\* the segments of a text, in order: its longest runs without a slash
Segments(t) ==
  LET of[n \in 0 .. Len(t)] ==     \* those of the first n characters
        IF n = 0 THEN <<>>
        ELSE IF t[n] = Slash THEN of[n - 1]
        ELSE IF n = 1 \/ t[n - 1] = Slash THEN Append(of[n - 1], <<t[n]>>)
        ELSE LET s == of[n - 1] IN [s EXCEPT ![Len(s)] = Append(@, t[n])]
  IN  of[Len(t)]

\* Mutant: ".." is taken for a name
AddAnySegment(out, seg) ==
  IF out.err # "OK" \/ seg = <<Dot>> THEN out
  ELSE IF \E k \in DOMAIN seg : seg[k] < 32 THEN Err("EINVAL")
  ELSE IF Len(out.val) + 1 + Len(seg) >= PATHCAP THEN Err("ENAMETOOLONG")
  ELSE Ok(out.val \o <<Slash>> \o seg)

AddSegment(out, seg) ==
  IF out.err # "OK" \/ seg = <<Dot>> THEN out
  ELSE IF seg = <<Dot, Dot>> \/ \E k \in DOMAIN seg : seg[k] < 32 THEN Err("EINVAL")
  ELSE IF Len(out.val) + 1 + Len(seg) >= PATHCAP THEN Err("ENAMETOOLONG")
  ELSE Ok(out.val \o <<Slash>> \o seg)

fsapi_resolve(root, sub) ==
  LET dec == url_decode(sub)
      segs == Segments(dec.val)
      out[n \in 0 .. Len(segs)] == IF n = 0 THEN Ok(root) ELSE AddSegment(out[n - 1], segs[n])
  IN  IF dec.err # "OK" THEN dec
      ELSE IF Len(root) >= PATHCAP THEN Err("ENAMETOOLONG")
      ELSE out[Len(segs)]

\* the is_dir that fsapi_resolve reports with a path it accepts
IsDir(root, sub) ==
  \/ sub # <<>> /\ Last(url_decode(sub).val) = Slash
  \/ fsapi_resolve(root, sub).val = root

(***************************************************************************)
(* The kernel's realpath: every link followed, at most LinkMax of them.    *)
(***************************************************************************)
LinkMax == 4

\* one step of the walk: done is real, rest is still to be walked
Follow(w) ==
  LET at == Append(w.done, Head(w.rest))
      past == [w EXCEPT !.rest = Tail(@)]
  IN  CASE w.err # "walking" -> w
        [] w.err = "walking" /\ w.rest = <<>> -> [w EXCEPT !.err = "OK"]
        [] OTHER ->
             IF Tree[w.done].kind = "file" THEN [w EXCEPT !.err = "ENOTDIR"]
             ELSE IF Head(w.rest) = <<Dot>> THEN past
             ELSE IF Head(w.rest) = <<Dot, Dot>>
             THEN [past EXCEPT !.done = IF @ = <<>> THEN @ ELSE Front(@)]
             ELSE IF at \notin DOMAIN Tree THEN [w EXCEPT !.err = "ENOENT"]
             ELSE IF Tree[at].kind # "link" THEN [past EXCEPT !.done = at]
             ELSE IF w.links = 0 THEN [w EXCEPT !.err = "ELOOP"]
             ELSE [w EXCEPT !.done = <<>>, !.rest = Tree[at].to \o Tail(@), !.links = @ - 1]

\* no walk takes more steps: a step uses up a name, a link puts those of its target in
Steps(path) == Len(path) + LinkMax * MaxLink + 1

Real(path) ==
  LET walk[n \in 0 .. Steps(path)] ==
        IF n = 0 THEN [done |-> <<>>, rest |-> path, links |-> LinkMax, err |-> "walking"]
        ELSE Follow(walk[n - 1])
      end == walk[Steps(path)]
  IN  IF end.err = "OK" THEN Ok(end.done) ELSE Err(end.err)

Text(path) == IF path = <<>> THEN <<Slash>> ELSE FlattenSeq([i \in DOMAIN path |-> <<Slash>> \o path[i]])

\* Mutant: the comparison does not look for the slash after the root's name
UnderByPrefix(res, rootc) == Len(res) >= Len(rootc) /\ SubSeq(res, 1, Len(rootc)) = rootc

\* whether the text res starts with rootc and breaks there on a slash
Under(res, rootc) ==
  LET rl == Len(rootc)
  IN  /\ Len(res) >= rl /\ SubSeq(res, 1, rl) = rootc
      /\ rl > 1 /\ Len(res) > rl => res[rl + 1] = Slash

fsapi_contained(root, abspath) ==
  LET rootc == Real(Segments(root))
      path  == Segments(abspath)
      from[n \in 0 .. Len(path)] ==
        LET r == Real(SubSeq(path, 1, n))
        IN  IF r.err = "OK" THEN Under(Text(r.val), Text(rootc.val))
            ELSE r.err \in {"ENOENT", "ENOTDIR"} /\ n > 1 /\ from[n - 1]
  IN  rootc.err = "OK" /\ Len(abspath) < PATHCAP /\ from[Len(path)]

(***************************************************************************)
(* What a path means: its walk from the root, one character after another. *)
(***************************************************************************)
Entered(w) ==
  IF w.name \in {<<>>, <<Dot>>} THEN [w EXCEPT !.name = <<>>]
  ELSE [w EXCEPT !.name = <<>>, !.at = Append(@, w.name), !.up = @ \/ w.name = <<Dot, Dot>>]
Walked(t) ==
  LET walk[n \in 0 .. Len(t)] ==
        IF n = 0 THEN [at |-> <<>>, name |-> <<>>, up |-> FALSE]
        ELSE IF t[n] = Slash THEN Entered(walk[n - 1])
        ELSE [walk[n - 1] EXCEPT !.name = Append(@, t[n])]
  IN  Entered(walk[Len(t)])

\* the deepest part of a path that exists, every link followed
Deepest(path) ==
  LET there == {n \in 0 .. Len(path) : Real(SubSeq(path, 1, n)).err = "OK"}
  IN  Real(SubSeq(path, 1, Max(there))).val
=============================================================================
