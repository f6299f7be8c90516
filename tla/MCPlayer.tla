------------------------------ MODULE MCPlayer ------------------------------
(* TLC instances of Player: short files, a frame queue of two slots, and   *)
(* the plays in which the keys of the user meet.  Streams are cycled only  *)
(* without -autoexit.                                                      *)
EXTENDS Player

Play(kind, len, delay, autoexit, loop, ks) ==
  [kind |-> kind, FileLen |-> len, Delay |-> delay, autoexit |-> autoexit, loop |-> loop,
   keys |-> ks]

Plays == {
  Play("video", 2, 1, TRUE, 1, {"seek", "expose"}),
  Play("video", 2, 0, FALSE, 1, {"cycle", "quit"}),
  Play("video", 1, 0, TRUE, 1, {"pause", "seek", "step"}),
  Play("audio", 2, 0, TRUE, 2, {"pause"}),
  Play("audio", 1, 0, FALSE, 1, {"seek", "cycle"}),
  Play("subtitle", 1, 0, FALSE, 1, {"cycle", "pause"}),
  Play("subtitle", 1, 0, FALSE, 1, {"seek"})}
=============================================================================
