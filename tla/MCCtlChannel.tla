---------------------------- MODULE MCCtlChannel ----------------------------
(* TLC instances of CtlChannel: messages with names and data of a few      *)
(* bytes, shorter and longer than the four bytes the parser looks ahead.   *)
EXTENDS CtlChannel

M(n, d) == [nlen |-> n, dlen |-> d]
Mixed == <<M(1, 6), M(5, 1), M(2, 2), M(6, 5)>>
Pair  == <<M(2, 7), M(3, 2)>>
=============================================================================
