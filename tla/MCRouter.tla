------------------------------ MODULE MCRouter ------------------------------
(***************************************************************************)
(* The instance of Router that TLC checks: a small tree with links into    *)
(* and out of the share, every short path, destination and Range header.   *)
(***************************************************************************)
EXTENDS Router


A == 97    B == 98    C == 99    D == 100    R == 114    S == 115    X == 120

dir == [kind |-> "dir", to |-> <<>>]
link(p) == [kind |-> "link", to |-> p]
\* /s is the share, /sx its sibling, /r a link to the share
MCTree ==
  (<<>> :> dir) @@ (<<<<S>>>> :> dir) @@ (<<<<S, X>>>> :> dir) @@ (<<<<R>>>> :> link(<<<<S>>>>))
  @@ (<<<<S>>, <<A>>>> :> dir)                     \* a directory
  @@ (<<<<S>>, <<B>>>> :> link(<<<<S, X>>>>))      \* a link out of the share
  @@ (<<<<S>>, <<C>>>> :> link(<<<<S>>, <<A>>>>))  \* a link within it
  @@ (<<<<S>>, <<D>>>> :> link(<<<<S>>, <<D>>>>))  \* a loop
  @@ (<<<<S>>, <<A>>, <<A>>>> :> [kind |-> "file", to |-> <<>>])
  @@ (<<<<S>>, <<A>>, <<B>>>> :> link(<<<<S, X>>, <<B>>>>))   \* a dangling link

Own   == <<1, 2, 3, 4>>
Usual == [args |-> "ok", root |-> <<Slash, S>>, file |-> NoText, token |-> Own, euid0 |-> FALSE]

Roots == {NoText, <<Slash>>, <<Slash, Slash>>, <<Slash, S>>, <<Slash, S, Slash, Slash>>, <<Slash, R>>,
          <<Slash, S, Slash, Dot, Dot>>, <<Slash, S, Slash, A, Slash, A>>, <<Slash, S, X>>,
          <<Slash, S, Slash, A, Slash, A, Slash, A, Slash, A>>}
TokenFiles == {NoText, <<>>, <<NL, 1>>, <<1, 32, NL, 2>>, <<32, 9>>, <<1, 2, 3, 4, 5, 6, 7>>, <<1, NUL, 3>>}
MCOptions ==
  [args : {"ok", "help", "unknown"}, root : Roots, file : TokenFiles,
   token : {<<>>, Own, <<1, 2, 3, 4, 5, 6, 7>>}, euid0 : BOOLEAN]

Get(sub) == [method |-> "GET", route |-> "fs", sub |-> sub, bearer |-> Own, dest |-> NoText,
             range |-> NoRange, fits |-> TRUE]
File == <<Slash, A, Slash, A>>
Letters == {Slash, Dot, A, B, C, D, Escaped(Slash), Escaped(Dot), Escaped(NUL), Malformed, 31}
Paths == SeqOf(Letters, 3) \cup {<<Slash>> \o t : t \in [1 .. 4 -> Letters]}
         \cup {<<Slash, A, Slash>> \o t : t \in SeqOf(Letters, 2)} \cup {<<Slash, A, A, A, A, A>>}
         \cup {<<Slash, A>> \o t \o <<Slash, B>> : t \in {<<NUL>>, <<Slash, NUL>>, <<Slash, Slash, Slash, Slash, Slash, Slash>>}}
Subs  == {<<>>, <<Slash, C>>, <<Slash, B, Slash>>, <<Slash, Escaped(Dot), Dot>>, <<Slash, Fs, Slash, A>>, <<X>>, <<Fs>>, <<Slash, Scheme, Fs>>}
Dests == {pre \o v \o sub : pre \in {<<>>, <<X>>, <<X, Scheme, X>>, <<X, Scheme>>, <<Slash, A>>},
                            v \in {<<>>, <<Fs>>}, sub \in Subs}
         \cup {<<X, Scheme, X, Fs, Slash, A>> \o t : t \in SeqOf({Slash, A, NUL, Escaped(B)}, 5)}
\* a header's value has no blank at its end
Ranges == [unit : BOOLEAN, text : {t \in SeqOf({0, 1, 2, 9, Dash, Plus, Space, Junk}, 4) : t = <<>> \/ Last(t) # Space}]

MCRequests(o) ==
  IF o # Usual THEN {Get(<<Slash, A>>), Get(<<Slash, B>>)}
  ELSE {Get(p) : p \in Paths}
       \cup {[Get(File) EXCEPT !.range = r, !.method = m] : r \in Ranges, m \in {"GET", "HEAD"}}
       \cup {[Get(File) EXCEPT !.range = [unit |-> TRUE, text |-> t], !.fits = FALSE] :
               t \in {<<0, Dash, 2>>, <<2, Dash>>, <<Dash, 9>>, <<Space, 1, Dash, 1>>}}
       \cup {[Get(File) EXCEPT !.dest = d, !.method = m] : d \in Dests \cup {NoText}, m \in {"MOVE", "COPY"}}
       \cup {[Get(p) EXCEPT !.bearer = t, !.method = m, !.route = r] :
               p \in {<<>>, File, <<Slash, A>>}, t \in {NoText} \cup SeqOf({1}, 5) 
                    \cup {Own, Own \o Own, Tail(Own), Own \o <<NUL, 5, 6, 7>>, Own \o Own \o Own \o Own, Own \o Own \o Own \o <<1, 2>>},
               m \in {"GET", "HEAD", "PUT", "DELETE", "POST"}, r \in {"healthz", "status", "shares", "fs", "other"}}
MCGenerated == <<7, 7>>
MCSizes == {0, 1, 3}
=============================================================================
