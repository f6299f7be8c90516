-------------------------------- MODULE Sff --------------------------------
(***************************************************************************)
(* The packet ring a posting connection keeps in its HTTPContext: the      *)
(* array sff_pkts[N+1] whose slots 0..N-1 hold data packets (type 2) and   *)
(* whose slot N holds the stream header (type 1), and the write index      *)
(* sff_w.  The operators are the two calls of src/ffserver.c that touch    *)
(* it, sff_write and sff_read; they are pure so that the ring alone        *)
(* (SffRing) and the server around it (FeedServer) share them.             *)
(*                                                                         *)
(* A packet still being received is in c->sff and not in the ring, and     *)
(* sff_write stores it and sets wflag = 2 in one uninterrupted call, so a  *)
(* slot is either NULL or a readable packet and wflag needs no state.      *)
(***************************************************************************)
EXTENDS Integers

CONSTANTS N,      \* number of data slots, 128 in the code
          NULL    \* the null pointer

ASSUME RingAssumption == N \in Nat /\ N >= 2 /\ NULL \notin Nat

Slots == 0 .. N - 1

\* av_mallocz of the connection: every slot null, sff_w = 0.
NewRing == [pkts |-> [i \in Slots |-> NULL], header |-> NULL, sff_w |-> 0]

NextSlot(i) == (i + 1) % N

\* sff_write: a header replaces (and frees) slot N, a data packet replaces
\* (and frees) the slot at sff_w.
\* Mutants: a stored packet is never replaced; the slot after the one written is
\* freed too.
WriteDataOnce(ring, p) ==
  [ring EXCEPT !.pkts[ring.sff_w] = IF @ = NULL THEN p ELSE @, !.sff_w = NextSlot(ring.sff_w)]
WriteDataFreesNext(ring, p) ==
  [ring EXCEPT !.pkts[ring.sff_w] = p, !.pkts[NextSlot(ring.sff_w)] = NULL,
               !.sff_w = NextSlot(ring.sff_w)]

WriteHeader(ring, p) == [ring EXCEPT !.header = p]
WriteData(ring, p)   == [ring EXCEPT !.pkts[ring.sff_w] = p,
                                     !.sff_w = NextSlot(ring.sff_w)]

\* sff_read(c, 1) and sff_read(c, 2): NULL means "nothing to read".  A data
\* read at sff_r = sff_w is refused whatever the slot holds.
\* Mutants: no comparison of the indices; one that leaves a packet unread.
ReadDataAlways(ring, sff_r) == ring.pkts[sff_r]
ReadDataEarly(ring, sff_r) ==
  IF sff_r = ring.sff_w \/ NextSlot(sff_r) = ring.sff_w THEN NULL ELSE ring.pkts[sff_r]

ReadHeader(ring) == ring.header
ReadData(ring, sff_r) == IF sff_r = ring.sff_w THEN NULL ELSE ring.pkts[sff_r]

\* The packets whose memory the ring owns; all others are freed.
Owned(ring) == {ring.pkts[i] : i \in Slots} \ {NULL}
=============================================================================
