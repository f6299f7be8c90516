------------------------------ MODULE MCPostBody ------------------------------
(* TLC instances of PostBody: payloads that look like a sync word or like  *)
(* the end of a chunk header, and one that is too large to be taken.       *)
EXTENDS PostBody

B(kind, tr, length) == [kind |-> kind, tr_encoding |-> tr, content_length |-> length]

Frames == {<<1>>, <<chS, chF, chF>>, <<CR, LF>>, <<0, 1, 70, 0>>}
AnyBody == {B("feed", 0, 0), B("slot", 0, 0), B("slot", 1, 0), B("file", 1, 0),
            B("file", 0, 4), B("file", 0, 0)}
Uploads == AnyBody \ {B("feed", 0, 0)}
=============================================================================
