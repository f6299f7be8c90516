------------------------------ MODULE SffRing ------------------------------
(***************************************************************************)
(* One feeder and its players around the packet ring of src/ffserver.c.    *)
(* The feeder stores data packets with sff_write; a player takes the next  *)
(* one with sff_read and points buffer_ptr into its data until send() has  *)
(* taken all of it.  The ring keeps no count of who still points at a      *)
(* packet, and the feeder never waits for a player.  The header packet of  *)
(* slot N and the sleeping and waking of players are in FeedServer.        *)
(***************************************************************************)
EXTENDS Sff

CONSTANTS Readers,      \* the players attached to the feed
          MaxPackets    \* bound: data packets the feeder sends

ASSUME MaxPacketsAssumption == MaxPackets \in Nat

VARIABLES ring,      \* sff_pkts and sff_w of the feeder
          written,   \* data packets written so far: packet k is the k-th, from 0
          sff_r,     \* per player, its read index
          last,      \* per player, the number of the last packet it took (-1: none)
          buffer     \* per player, the packet buffer_ptr..buffer_end lies in, or NULL

ringVars == <<ring, written, sff_r, last, buffer>>

RingInit == /\ ring = NewRing
            /\ written = 0
            /\ sff_r = [r \in Readers |-> 0]
            /\ last = [r \in Readers |-> -1]
            /\ buffer = [r \in Readers |-> NULL]

-----------------------------------------------------------------------------
\* sff_write of a complete packet of type 2.
Write == /\ written < MaxPackets
         /\ ring' = WriteData(ring, written)
         /\ written' = written + 1
         /\ UNCHANGED <<sff_r, last, buffer>>

\* sff_prepare_data in SEND_DATA, once the previous buffer has been sent; when
\* sff_read returns NULL the player only goes to sleep, which changes nothing
\* here.
Read(r) == LET sff == ReadData(ring, sff_r[r]) IN
           /\ buffer[r] = NULL
           /\ sff # NULL
           /\ last' = [last EXCEPT ![r] = sff]
           /\ buffer' = [buffer EXCEPT ![r] = sff]
           /\ sff_r' = [sff_r EXCEPT ![r] = NextSlot(sff_r[r])]
           /\ UNCHANGED <<ring, written>>

\* send() has taken the rest of the buffer; a partial send changes nothing
\* but buffer_ptr, which stays inside the packet.
Sent(r) == /\ buffer[r] # NULL
           /\ buffer' = [buffer EXCEPT ![r] = NULL]
           /\ UNCHANGED <<ring, written, sff_r, last>>

RingNext == Write \/ \E r \in Readers : Read(r) \/ Sent(r)

RingSpec == RingInit /\ [][RingNext]_ringVars

\* A player whose socket keeps accepting data is served on every pass of the
\* event loop; nothing obliges the feeder to send.
FairRingSpec == RingSpec /\ \A r \in Readers : WF_ringVars(Read(r)) /\ WF_ringVars(Sent(r))

-----------------------------------------------------------------------------
(* Properties *)

\* The types of the ring and of what each player remembers of it.
TypeOK == /\ ring \in [pkts : [Slots -> Nat \cup {NULL}],
                       header : {NULL},
                       sff_w : Slots]
          /\ written \in Nat
          /\ sff_r \in [Readers -> Slots]
          /\ last \in [Readers -> Nat \cup {-1}]
          /\ buffer \in [Readers -> Nat \cup {NULL}]

\* The number of the packet player r is to take next: the one in its slot or,
\* when it has caught up with sff_w, the one the feeder will store there.
Pending(r) == IF sff_r[r] = ring.sff_w THEN written ELSE ring.pkts[sff_r[r]]

\* What slot i of the ring holds: the newest packet whose number is i modulo
\* N, counted back from the write index.
RingShape ==
  /\ written = ring.sff_w \/ written - ring.sff_w >= N
  /\ \A i \in Slots :
       ring.pkts[i] = IF i < ring.sff_w THEN written - ring.sff_w + i
                      ELSE IF written = ring.sff_w THEN NULL
                      ELSE written - ring.sff_w + i - N

\* A player is never ahead of the feeder, and between the packet it took last
\* and the one it takes next it either misses nothing or was lapped.
ReaderShape ==
  \A r \in Readers :
    /\ written = ring.sff_w => sff_r[r] <= ring.sff_w
    /\ Pending(r) = last[r] + 1 \/ Pending(r) >= last[r] + 1 + N
    /\ buffer[r] # NULL => buffer[r] = last[r]

\* The inductive invariant of the ring and its players.
RingInv == TypeOK /\ RingShape /\ ReaderShape

\* sff_read returns NULL for one reason only, the index comparison: a slot a
\* player may read is never empty, however many packets it has missed.
NeverNullSlot ==
  \A r \in Readers : sff_r[r] # ring.sff_w => ring.pkts[sff_r[r]] # NULL

\* The bytes a player is sending are those of a packet it does not own: they stay
\* allocated exactly until N packets are stored after that one, counted from when it
\* was stored, not from when the player took it.  A player that was behind when it
\* took the packet has that much less time to send it.
SafeWithinWindow ==
  \A r \in Readers :
    buffer[r] # NULL => (buffer[r] \in Owned(ring) <=> written - buffer[r] <= N)

\* What the players see implements the lossy feed with a window of N packets.
Feed == INSTANCE LossyFeed WITH Window <- N, published <- written,
                                delivered <- last
ImplementsFeed == Feed!Spec

\* A player that never falls N packets behind plays the whole stream.
Behind(r) == written - (last[r] + 1)
CatchesUp ==
  \A r \in Readers : [](Behind(r) < N) => []<>(Behind(r) = 0)
=============================================================================
