----------------------------- MODULE MCHttpRead -----------------------------
(* Small streams for HttpRead. *)
EXTENDS HttpRead, SequencesExt

S(t)    == [t |-> t, v |-> 0]
CRLF    == <<S("CR"), S("LF")>>
Header  == {S("field"), S("junk"), S("expect"), S("garbled")}
             \cup {[t |-> "length", v |-> n] : n \in {0, 2}}
Lines(l, hs) == <<S(l)>> \o CRLF \o FlattenSeq([i \in DOMAIN hs |-> <<hs[i]>> \o CRLF]) \o CRLF

Byte(n) == [t |-> "byte", v |-> n]
Bodies  == {<<>>, <<Byte(1)>>, <<Byte(1), Byte(2), Byte(3)>>, CRLF \o CRLF \o <<Byte(1)>>}

Heads == {Lines("PUT", hs) : hs \in UNION {[1 .. n -> Header] : n \in 0 .. 3}}
           \cup {Lines(l, hs) : l \in {"GET", "word"}, hs \in UNION {[1 .. n -> Header] : n \in 0 .. 1}}
           \cup {Lines("PUT", [i \in 1 .. 4 |-> S("field")]), CRLF \o CRLF, CRLF \o Lines("PUT", <<>>)}

Upload == Lines("PUT", <<S("field"), [t |-> "length", v |-> 2], S("expect")>>)
CutOff == {SubSeq(Upload, 1, n) : n \in 0 .. Len(Upload)}

MCStreams == {h \o b : h \in Heads, b \in Bodies} \cup CutOff

=============================================================================
