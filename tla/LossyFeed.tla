----------------------------- MODULE LossyFeed -----------------------------
(***************************************************************************)
(* What a feed promises to the connections that play it, without a ring:   *)
(* packets are numbered in the order the feeder sends them, a player is    *)
(* handed packets in increasing order, every packet it is handed is one of *)
(* the Window most recent ones, and a packet is skipped only when the      *)
(* player has more than Window packets unread.                             *)
(***************************************************************************)
EXTENDS Integers

CONSTANTS Window, Readers

VARIABLES published,   \* number of packets published so far
          delivered    \* per reader, the number of the last packet handed to it

fvars == <<published, delivered>>

Init == /\ published = 0
        /\ delivered = [r \in Readers |-> -1]

Unread(r) == published - (delivered[r] + 1)

Publish == /\ published' = published + 1
           /\ UNCHANGED delivered

Deliver(r) ==
  /\ \E k \in delivered[r] + 1 .. published - 1 :
       /\ k >= published - Window
       /\ k = delivered[r] + 1 \/ Unread(r) > Window
       /\ delivered' = [delivered EXCEPT ![r] = k]
  /\ UNCHANGED published

Next == Publish \/ \E r \in Readers : Deliver(r)

Spec == Init /\ [][Next]_fvars
=============================================================================
