---------------------------- MODULE MCHlsServer ----------------------------
(* TLC instances of HlsServer: one segment slot and the playlist slot, two *)
(* players and an uploader, addresses reused by later connections; calm,   *)
(* with one disturbance, and with all of them.                             *)
EXTENDS HlsServer

ConnSymmetry == Permutations(Conns)

Environments == {{}, {"hangup"}, {"reuse"}, {"overlap", "reuse", "switch", "hangup"}}
Accepts == [e \in Environments |-> IF e = {} THEN 4 ELSE 3]
Chunks == [e \in Environments |-> IF e = {} THEN 3 ELSE 2]
=============================================================================
