---------------------------- MODULE PlayerQueues ----------------------------
(***************************************************************************)
(* The two queues of src/ffplay2.c as values: the PacketQueue a demuxed    *)
(* stream is read from, and the FrameQueue its decoded frames go to.  Each *)
(* operator is one critical section of the queue's mutex.                  *)
(***************************************************************************)
EXTENDS Integers, Sequences

CONSTANT MaxSize            \* max_size of the frame queue

ASSUME QueueAssumption == MaxSize \in Nat \ {0}

-----------------------------------------------------------------------------
(* PacketQueue: packets [what, n] with the serial they were queued under.   *)

Flush == [what |-> "flush", n |-> 0]        \* flush_pkt
Null  == [what |-> "null", n |-> 0]         \* packet_queue_put_nullpacket
Data(n) == [what |-> "data", n |-> n]       \* the n-th packet of the file

packet_queue_init == [pkts |-> <<>>, serial |-> 0, abort_request |-> TRUE]

\* Mutant: an aborted queue still takes packets.
packet_queue_put_aborted(q, p) ==
  LET serial == IF p = Flush THEN q.serial + 1 ELSE q.serial
  IN [q EXCEPT !.serial = serial,
               !.pkts = Append(@, [what |-> p.what, n |-> p.n, serial |-> serial])]
packet_queue_put(q, p) ==
  LET serial == IF p = Flush THEN q.serial + 1 ELSE q.serial
      queued == [what |-> p.what, n |-> p.n, serial |-> serial]
  IN IF q.abort_request THEN q
     ELSE [q EXCEPT !.serial = serial, !.pkts = Append(@, queued)]

packet_queue_flush(q) == [q EXCEPT !.pkts = <<>>]
packet_queue_abort(q) == [q EXCEPT !.abort_request = TRUE]
packet_queue_start(q) == packet_queue_put([q EXCEPT !.abort_request = FALSE], Flush)

-----------------------------------------------------------------------------
(* FrameQueue: with keep_last the slot at rindex keeps the frame last shown *)
(* once rindex_shown is 1.                                                  *)

NewSlot == [serial |-> 0, n |-> 0, allocated |-> FALSE, drawn |-> <<0, 0>>]

frame_queue_init(keep_last) ==
  [queue |-> [i \in 0 .. MaxSize - 1 |-> NewSlot],
   rindex |-> 0, windex |-> 0, size |-> 0, rindex_shown |-> 0, keep_last |-> keep_last]

frame_queue_peek(f) == (f.rindex + f.rindex_shown) % MaxSize
frame_queue_nb_remaining(f) == f.size - f.rindex_shown
\* Mutant: one frame too many.
frame_queue_full_late(f) == f.size > MaxSize
frame_queue_full(f) == f.size >= MaxSize

frame_queue_push(f) ==
  [f EXCEPT !.windex = IF @ + 1 = MaxSize THEN 0 ELSE @ + 1, !.size = @ + 1]

frame_queue_next(f) ==
  IF f.keep_last /\ f.rindex_shown = 0 THEN [f EXCEPT !.rindex_shown = 1]
  ELSE [f EXCEPT !.rindex = IF @ + 1 = MaxSize THEN 0 ELSE @ + 1, !.size = @ - 1]

frame_queue_prev(f) == [f EXCEPT !.rindex_shown = 0]

\* The slots that hold frames, oldest first, counted from rindex.
Slot(f, k) == (f.rindex + k) % MaxSize
Filled(f) == {Slot(f, k) : k \in 0 .. f.size - 1}
=============================================================================
