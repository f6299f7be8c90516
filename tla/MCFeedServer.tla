---------------------------- MODULE MCFeedServer ----------------------------
(* TLC instances of FeedServer: a few addresses, reused by later           *)
(* connections, one feeder with two players, and a ring smaller than a     *)
(* stream.                                                                 *)
EXTENDS FeedServer

ConnSymmetry == Permutations(Conns)
=============================================================================
