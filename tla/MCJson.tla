------------------------------- MODULE MCJson -------------------------------
(***************************************************************************)
(* The instance of JsonReplies for TLC: one plain string in every document *)
(* of up to PlainCalls calls, and, alone in a document, the strings made of *)
(* the bytes at the edges of every case of utf8_seq_len and emit_string.   *)
(***************************************************************************)
EXTENDS JsonReplies

CONSTANT PlainCalls

Plain == <<97>>
Edge  == {1, 31, 34, 92, 97, 127, 128, 143, 144, 159, 160, 191, 192, 193, 194, 223, 224, 225,
          237, 238, 239, 240, 243, 244, 245, 255}
Tail3 == {97, 128, 143, 144, 159, 160, 191, 192}
EdgeStrings ==
  {<<>>, Plain}
  \cup {<<x>> : x \in Edge} \cup {<<x, y>> : x, y \in Edge}
  \cup {<<x, y, z>> : x \in Edge, y \in Edge, z \in Tail3}
  \cup {<<x, y, z, w>> : x \in {240, 243, 244, 245}, y, z \in Tail3, w \in {97, 128, 191}}
EdgeCalls == [s \in EdgeStrings |-> IF s = Plain THEN PlainCalls ELSE 1]
=============================================================================
