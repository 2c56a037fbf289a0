------------------------------- MODULE Router -------------------------------
(***************************************************************************)
(* src/core/unasd.c from main's options to the worker a request reaches:   *)
(* the start-up, the token, what http.c keeps of a request, the routes,    *)
(* the resolution of a request's path and Destination, and the bytes of a  *)
(* GET with a Range header.                                                *)
(*                                                                         *)
(* A child serves one request with a snapshot of the configuration, so a   *)
(* behaviour is one start-up and one request.  What the file verbs do with *)
(* a resolved path is FileApi's; the replies are named by their error.     *)
(***************************************************************************)
EXTENDS ByteRange, PathJail

CONSTANTS
  TokenCap,      \* the longest token that fits its buffer
  Wrap,          \* token_eq folds the lengths into one unsigned char: 2^8
  Generated,     \* the token that gen_token draws
  Options,       \* the ways unasd is started
  Requests(_),   \* the requests sent to a daemon started in this way
  Sizes,         \* the sizes of regular files
  HTTP_MAX_TARGET, HTTP_MAX_HDR_VALUE   \* the sizes of the buffers for a target and for a header's value

\* In a text, Fs is "/v1/fs" and Scheme is "://".
Fs     == 600
Scheme == 601

NoText == <<-1>>
NoRange == [unit |-> FALSE, text |-> <<Nul>>]   \* no Range header at all

\* a C string can hold the text: there is no NUL in it
Holds(t) == \A i \in DOMAIN t : t[i] # NUL

\* the characters an element of a text stands for: an escape is a "%" and two more
Spell(c) ==
  IF c = Fs THEN <<Slash, 118, 49, Slash, 102, 115>>
  ELSE IF c = Scheme THEN <<58, Slash, Slash>>
  ELSE IF c \in 256 .. 511 THEN <<Malformed, 48, 48>>
  ELSE <<c>>
Raw(t) == FlattenSeq([i \in DOMAIN t |-> Spell(t[i])])

\* st_size is a signed 64-bit off_t, and a header's value holds "Bearer " and a token
ASSUME RouterAssumption ==
  /\ TokenCap \in Nat \ {0} /\ Wrap \in Nat \ {0} /\ Sizes \subseteq 0 .. LLONG_MAX
  /\ Generated \in Seq(Nat) \ {<<>>} /\ Len(Generated) <= TokenCap /\ Holds(Generated)
  /\ {HTTP_MAX_TARGET, HTTP_MAX_HDR_VALUE} \subseteq Nat
  /\ HTTP_MAX_TARGET > Len(Raw(<<Fs>>)) /\ HTTP_MAX_HDR_VALUE >= TokenCap + 8

ASSUME InputAssumption ==
  \A o \in Options :
    /\ {o.root, o.file} \subseteq Seq(Nat) \cup {NoText} /\ o.token \in Seq(Nat) /\ Holds(o.token)
    /\ \A r \in Requests(o) :
         /\ r.method # "none" /\ r.sub \in Seq(Nat)
         /\ {r.bearer, r.dest} \subseteq Seq(Nat) \cup {NoText}
         /\ r.range \in [unit : BOOLEAN, text : Seq(Token)] \cup {NoRange} /\ r.fits \in BOOLEAN

VARIABLES
  pc,       \* the next step of main or of the child
  opts,     \* the options and environment of main
  root,     \* root_buf
  token,    \* token_buf
  sent,     \* the request, as the client sent it
  req,      \* the request, as the parser keeps it
  path,     \* abspath
  dest,     \* dabs
  reply,    \* the answer, or the exit status of a main that gives up
  file,     \* the open file: the st_size known of it and the bytes it has now
  range,    \* what parse_range made of the Range header
  out       \* the positions of the bytes sent

vars == <<pc, opts, root, token, sent, req, path, dest, reply, file, range, out>>
request == <<sent, req, path, dest, file, range, out>>

Whole == [ok |-> FALSE, start |-> 0, end |-> -1]

Init ==
  /\ pc = "args" /\ opts \in Options /\ root = <<>> /\ token = <<>> /\ reply = "none"
  /\ sent = [method |-> "none"] /\ req = sent /\ path = <<>> /\ dest = <<>>
  /\ file = [size |-> 0, has |-> 0] /\ range = Whole /\ out = <<>>

Goto(at) == pc' = at /\ UNCHANGED reply
End(ans) == pc' = "end" /\ reply' = ans

(***************************************************************************)
(* The start-up.                                                           *)
(***************************************************************************)
Cut(text, cap) == SubSeq(text, 1, Min({Len(text), cap}))
CString(t) == Cut(t, Min({Len(t)} \cup {n \in 0 .. Len(t) - 1 : t[n + 1] = NUL}))

strip_trailing_slashes(s) ==
  Cut(s, Max({1} \cup {n \in DOMAIN s : s[n] # Slash}))

ParseArgs ==
  /\ pc = "args" /\ UNCHANGED <<opts, token, request>>
  /\ IF opts.args # "ok" \/ opts.root = NoText
     THEN End(IF opts.args = "help" THEN "exit 0" ELSE "exit 2") /\ UNCHANGED root
     ELSE Goto("token") /\ root' = strip_trailing_slashes(Cut(opts.root, PATHCAP - 1))

\* the first line, as far as it fits, without the blanks at its end
NL == 10
Blank == {NL, 13, 32, 9}
read_token_file(text) ==
  LET nl == {i \in DOMAIN text : text[i] = NL}
      line == CString(Cut(text, Min({TokenCap} \cup nl)))
  IN  Cut(line, Max({0} \cup {n \in DOMAIN line : line[n] \notin Blank}))

ChooseToken ==
  /\ pc = "token" /\ UNCHANGED <<opts, root, request>>
  /\ token' = IF opts.file # NoText THEN read_token_file(opts.file)
              ELSE IF opts.token # <<>> THEN Cut(opts.token, TokenCap)
              ELSE Generated
  /\ IF token' = <<>> THEN End("exit 1") ELSE Goto("root")

\* Mutant: only the text "/" is recognized as the filesystem's root
RootBySpelling(r) ==
  ~opts.euid0 /\ Real(Segments(r)).err = "OK" /\ Tree[Real(Segments(r)).val].kind = "dir" /\ r # <<Slash>>

fsapi_check_root(r) ==
  LET rp == Real(Segments(r))
  IN  ~opts.euid0 /\ rp.err = "OK" /\ Tree[rp.val].kind = "dir" /\ rp.val # <<>>

CheckRoot ==
  /\ pc = "root" /\ UNCHANGED <<opts, root, token, request>>
  /\ IF fsapi_check_root(root) THEN Goto("listen") ELSE End("exit 1")

Listen ==
  /\ pc = "listen" /\ UNCHANGED <<opts, root, token, request>>
  /\ Goto("accept") \/ End("exit 1")

(***************************************************************************)
(* The parser.  A target (sub is what follows "/v1/fs" in it, without the  *)
(* query) and a header's value (without the blanks around it, which are no *)
(* part of it) are cut to their buffers without a word, and are C strings. *)
(***************************************************************************)
\* Mutant: the last byte of the buffer stays unused
copy_bounded_short(t, size) ==
  LET n == Max({k \in 0 .. Len(t) : k = 0 \/ Len(Raw(SubSeq(t, 1, k))) < size - 1}) IN SubSeq(t, 1, n)

copy_bounded(t, size) ==
  LET n == Max({k \in 0 .. Len(t) : Len(Raw(SubSeq(t, 1, k))) < size})
      kept == SubSeq(t, 1, n)
  IN  kept \o (IF n = Len(t) THEN <<>> ELSE Cut(Spell(t[n + 1]), size - 1 - Len(Raw(kept))))

SubRoom == HTTP_MAX_TARGET - Len(Raw(<<Fs>>))

\* What a buffer too small for a Range header holds of it: the cut may fall
\* into a run of digits, whose zeros in front are not counted here.
CutRanges(t) ==
  {Cut(t, n) : n \in 0 .. Len(t)}
  \cup UNION {{Append(Cut(t, n - 1), v) : v \in 0 .. t[n]} : n \in {n \in DOMAIN t : t[n] >= 0}}

Kept(r, k) ==
  [method |-> r.method, route |-> r.route,
   sub    |-> CString(copy_bounded(r.sub, SubRoom)),
   dest   |-> IF r.dest = NoText THEN NoText ELSE CString(copy_bounded(r.dest, HTTP_MAX_HDR_VALUE)),
   bearer |-> IF r.bearer = NoText THEN NoText ELSE CString(Cut(r.bearer, HTTP_MAX_HDR_VALUE - 8)),
   range  |-> IF r.fits \/ r.range = NoRange THEN r.range ELSE [r.range EXCEPT !.text = k]]
Parsed(r) == {Kept(r, k) : k \in CutRanges(r.range.text)}

Receive ==
  /\ pc = "accept" /\ Goto("route") /\ UNCHANGED <<opts, root, token, path, dest, file, range, out>>
  /\ sent' \in Requests(opts) /\ req' \in Parsed(sent')

(***************************************************************************)
(* The router.                                                             *)
(***************************************************************************)

\* Mutant: the loop goes over the bytes that were given
token_eqGiven(got, want) ==
  /\ (Len(got) - Len(want)) % Wrap = 0
  /\ \A i \in DOMAIN got : i \in DOMAIN want => got[i] = want[i]

\* only the low bits of the lengths' difference are folded in
token_eq(got, want) ==
  /\ (Len(got) - Len(want)) % Wrap = 0
  /\ \A i \in DOMAIN want : i \in DOMAIN got /\ got[i] = want[i]

authed == req.bearer # NoText /\ token_eq(req.bearer, token)

ReadsOnly == req.method \in {"GET", "HEAD"}
IsFs == req.route = "fs" /\ Cut(req.sub, 1) \in {<<>>, <<Slash>>}

HandleRequest ==
  /\ pc = "route" /\ UNCHANGED <<opts, root, token, sent, req, dest, file, range, out>>
  /\ \/ req.route = "healthz" /\ End("OK") /\ UNCHANGED path
     \/ req.route # "healthz" /\ ~authed /\ End("EAUTH") /\ UNCHANGED path
     \/ /\ req.route \in {"status", "shares"} /\ authed /\ UNCHANGED path
        /\ End(IF ReadsOnly THEN "OK" ELSE "EMETHOD")
     \/ req.route \in {"fs", "other"} /\ ~IsFs /\ authed /\ End("ENOENT") /\ UNCHANGED path
     \/ /\ IsFs /\ authed
        /\ LET r == fsapi_resolve(root, req.sub)
           IN  IF r.err # "OK" THEN End(r.err) /\ UNCHANGED path
               ELSE IF ~fsapi_contained(root, r.val) THEN End("EACCES") /\ UNCHANGED path
               ELSE Goto("dispatch") /\ path' = r.val

(***************************************************************************)
(* dispatch_fs as far as the verb, which FileApi models from the stat of   *)
(* the path on.                                                            *)
(***************************************************************************)
From(d, at) == IF at = {} THEN NoText ELSE SubSeq(d, Min(at), Len(d))

\* Mutant: the last "/v1/fs" instead of the first
LastSubpath(dst) ==
  LET fs == {i \in DOMAIN dst : dst[i] = Fs}
  IN  IF fs = {} THEN NoText ELSE SubSeq(dst, Max(fs) + 1, Len(dst))

dest_subpath(dst) ==
  LET colon == {i \in DOMAIN dst : dst[i] = Scheme}
      p == IF colon = {} THEN dst
           ELSE From(dst, {i \in DOMAIN dst : i > Min(colon) /\ dst[i] \in {Slash, Fs}})
      f == From(p, {i \in DOMAIN p : p[i] = Fs})
  IN  IF f = NoText \/ (Len(f) > 1 /\ f[2] \notin {Slash, Fs}) THEN NoText ELSE Tail(f)

\* "/v1/fs" inside a path, character by character
Spelled(t) == FlattenSeq([i \in DOMAIN t |-> IF t[i] = Fs THEN <<Slash, 118, 49, Slash, 102, 115>> ELSE <<t[i]>>])

Kind == LET r == Real(Segments(path)) IN IF r.err = "OK" THEN Tree[r.val].kind ELSE r.err

Dispatch ==
  /\ pc = "dispatch" /\ UNCHANGED <<opts, root, token, sent, req, path, dest, range, out>>
  /\ \/ /\ req.method \in {"PUT", "DELETE"} \/ (ReadsOnly /\ (IsDir(root, req.sub) \/ Kind # "file"))
        /\ End("verb") /\ UNCHANGED file
     \/ /\ ReadsOnly /\ ~IsDir(root, req.sub) /\ Kind = "file"
        /\ Goto("open") /\ \E n \in Sizes : file' = [file EXCEPT !.size = n]
     \/ req.method \notin {"GET", "HEAD", "PUT", "DELETE", "MOVE", "COPY"} /\ End("EMETHOD") /\ UNCHANGED file

DispatchDest ==
  /\ pc = "dispatch" /\ req.method \in {"MOVE", "COPY"}
  /\ UNCHANGED <<opts, root, token, sent, req, path, file, range, out>>
  /\ LET sub == IF req.dest = NoText THEN NoText ELSE dest_subpath(req.dest)
         r == fsapi_resolve(root, Spelled(sub))
     IN  IF sub = NoText THEN End("EINVAL") /\ UNCHANGED dest
         ELSE IF r.err # "OK" THEN End(r.err) /\ UNCHANGED dest
         ELSE IF ~fsapi_contained(root, r.val) THEN End("EACCES") /\ UNCHANGED dest
         ELSE End("verb") /\ dest' = r.val

(***************************************************************************)
(* serve_file.                                                             *)
(***************************************************************************)
Promised == IF range.ok THEN range.end - range.start + 1 ELSE file.size

\* the file at the path may be another one, or of another size, since the stat
OpenFile ==
  /\ pc = "open" /\ UNCHANGED <<opts, root, token, sent, req, path, dest, out>>
  /\ \/ End("gone") /\ UNCHANGED <<file, range>>    \* open fails
     \/ /\ \E n \in Sizes : file' = [file EXCEPT !.has = n]
        /\ range' = IF req.range = NoRange THEN Whole ELSE parse_range(req.range, file.size)
        /\ IF req.range # NoRange /\ ~range'.ok THEN End("ERANGE")
           ELSE /\ reply' = IF range'.ok THEN "partial" ELSE "OK"
                /\ pc' = IF req.method = "HEAD" THEN "end" ELSE "send"

\* somebody else who has the share mounted cuts the file short
Shrink ==
  /\ pc = "send" /\ file.has > 0 /\ file' = [file EXCEPT !.has = @ - 1]
  /\ UNCHANGED <<pc, opts, root, token, sent, req, path, dest, reply, range, out>>

\* Mutant: a body that is not asked for from its first byte is not sought
Unsought == Len(out)

\* where the descriptor stands: lseek has moved it to the range
Offset == range.start + Len(out)

SendBody ==
  /\ pc = "send" /\ UNCHANGED <<opts, root, token, sent, req, path, dest, reply, file, range>>
  /\ LET left == Promised - Len(out)
         there == Min({left, file.has - Offset})
     IN  \/ pc' = "end" /\ UNCHANGED out   \* all sent, the file ends here, or read or send fails
         \/ /\ UNCHANGED pc
            /\ \E n \in 1 .. there : out' = out \o [i \in 1 .. n |-> Offset + i - 1]

Next == \/ ParseArgs \/ ChooseToken \/ CheckRoot \/ Listen
        \/ Receive \/ HandleRequest \/ Dispatch \/ DispatchDest \/ OpenFile \/ Shrink \/ SendBody

Spec == Init /\ [][Next]_vars

(***************************************************************************)
(* Correctness.                                                            *)
(***************************************************************************)
RealRoot == Real(Segments(root)).val
Inside(p) == /\ IsPrefix(RealRoot, Deepest(Segments(p)))
             /\ Real(Segments(p)).err \in {"OK", "ENOENT", "ENOTDIR"}

\* A verb only gets paths whose existing part, every link followed, lies in
\* the share, whatever the spelling of the request and of the root: what
\* fsapi_contained's comparison of texts is for.
InsideShare == \A p \in {path, dest} : p # <<>> => Inside(p)

Plain(t) == [i \in DOMAIN t |-> t[i] % 256]
Names(p, text) ==
  /\ ~Walked(Plain(text)).up
  /\ Segments(p) = Segments(root) \o Walked(Plain(text)).at
Bad(text) == \/ \E i \in DOMAIN text : text[i] = Malformed \/ Plain(text)[i] < 32
             \/ Walked(Plain(text)).up
Colons(d) == {i \in DOMAIN d : d[i] = Scheme}

\* A target or a header's value of which nothing is lost in a buffer of that size.
Fits(t, size) == Len(Raw(t)) < size /\ Holds(t)

\* A path and a Destination (whose path holds no "://") that fit their buffers
\* mean what they mean to the client, walked one character after another from
\* the share's root; and none is called invalid that has no bad escape, no
\* control byte and no "..".  This is about copy_bounded, url_decode,
\* fsapi_resolve and dest_subpath.  (Of a text that does not fit, the
\* beginning is taken for all of it: http.c says nothing.)
MeansWhatItSays ==
  /\ path # <<>> /\ Fits(sent.sub, SubRoom) => Names(path, sent.sub)
  /\ dest # <<>> /\ Fits(sent.dest, HTTP_MAX_HDR_VALUE) => \A i \in DOMAIN sent.dest :
       (/\ sent.dest[i] = Fs
        /\ \A j \in 1 .. i - 1 : sent.dest[j] \notin {Fs, Slash}
        /\ Cardinality(Colons(SubSeq(sent.dest, 1, i))) <= 1 /\ Colons(SubSeq(sent.dest, i, Len(sent.dest))) = {})
       => Names(dest, Spelled(SubSeq(sent.dest, i + 1, Len(sent.dest))))
  /\ reply = "EINVAL" /\ path = <<>> /\ Fits(sent.sub, SubRoom) => Bad(sent.sub)

\* Nothing but /healthz is answered to a request whose bearer token, as the
\* client sent it, does not begin with the daemon's own, and the daemon's own
\* is never refused, for all that the parser cuts.
TokenGate ==
  /\ pc = "end" /\ sent.method # "none" /\ sent.route # "healthz" /\ reply # "EAUTH"
       => IsPrefix(token, sent.bearer)
  /\ reply = "EAUTH" => sent.route # "healthz" /\ sent.bearer # token

Ranged == pc \in {"send", "end"} /\ path # <<>> /\ reply \in {"OK", "partial", "ERANGE"} /\ sent.range # NoRange

\* The Content-Range of a 206 is a range of the file, and for the forms "n-m",
\* "n-" and "-n", as the client sent them and where the buffer holds them, it is
\* the range they name; 416 is only sent when they name no byte.
RangeExact ==
  Ranged =>
    /\ reply # "OK"
    /\ reply = "partial" => 0 <= range.start /\ range.start <= range.end /\ range.end < file.size
    /\ sent.fits /\ sent.range.unit /\ IsPlain(sent.range.text) =>
         Positions(sent.range.text, file.size) = IF reply = "partial" THEN range.start .. range.end ELSE {}

\* The bytes of a body are those of its Content-Range, in order, from the first
\* one on, however many reads it takes and wherever the file ends meanwhile, and
\* never more than its Content-Length, whatever took the file's name between the
\* stat that the length is from and the open.
BodyIsRange ==
  /\ Len(out) <= Promised
  /\ \A i \in DOMAIN out : out[i] = range.start + i - 1

\* A daemon that serves is no superuser's, serves the directory it was pointed
\* at and not the filesystem's root, and has a token.
BootSafe ==
  pc \in {"accept", "route", "dispatch", "open", "send"} =>
    /\ token # <<>> /\ ~opts.euid0
    /\ Tree[RealRoot].kind = "dir" /\ RealRoot # <<>>
    /\ Len(opts.root) < PATHCAP => RealRoot = Real(Segments(opts.root)).val
=============================================================================
