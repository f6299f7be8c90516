---------------------------- MODULE PlayerProofs ----------------------------
(***************************************************************************)
(* Proofs about the player for every size of the queues, every length of   *)
(* the file, every play and any delay of the decoder.  QueueInv is         *)
(* inductive: it says who may push and take frames in which play, how the  *)
(* ring is filled at each place of the threads, and which packets wait     *)
(* while a seek or a reopening is between two of its steps.  AudioInv adds *)
(* the frame that audio_buf points into, SleepInv and Joined what each     *)
(* sleeping thread waits for, DrawInv which draw requests and pictures     *)
(* there are in a video that is not cycled, OrderInv the line the frames   *)
(* stand in from the file to the screen, RestartInv under which serial a   *)
(* packet is taken, and Unseen which frames have not been shown yet.       *)
(***************************************************************************)
EXTENDS Player, SequenceTheorems, TLAPS

\* What a play of one kind does not do.
Kinds ==
  /\ frameq.keep_last = (opt.kind # "subtitle")
  /\ dec.pc = "alloc" => opt.kind = "video"
  /\ mn.pc \in {"refresh", "display"} => opt.kind = "video"
  /\ mn.pc \in {"over", "subtitle"} => opt.kind = "subtitle"
  /\ cb.pc # "idle" \/ cb.left # 0 => opt.kind = "audio"

\* The thread holds a free slot while it is drawn into or decoded into.
Reserved == dec.pc = "alloc" \/ (opt.kind = "subtitle"
                                  /\ dec.pc \in {"decode", "get", "got", "codec", "queue"})

Ring ==
  /\ frameq.size \in frameq.rindex_shown .. MaxSize
  /\ frameq.windex = Slot(frameq, frameq.size)
  /\ Reserved => frameq.size < MaxSize
  /\ mn.pc = "display" => frameq.size > frameq.rindex_shown

\* Between the two steps of a seek, or of a close and a reopening, no packet waits.
Serials ==
  /\ PacketsCurrent
  /\ rd.pc = "seek_put" => \A i \in DOMAIN pktq.pkts : pktq.pkts[i].what = "flush"
  /\ mn.pc \in {"signal", "device", "join", "give_up", "closed"} => pktq.abort_request
  /\ mn.pc \in {"give_up", "closed"} => pktq.pkts = <<>>

QueueInv == TypeOK /\ Kinds /\ Ring /\ Serials

\* Where a thread can be asleep.
Places ==
  /\ asleep.dec = "pq" => dec.pc = "get"
  /\ asleep.dec = "fq" => dec.pc \in {"queue", "peek", "alloc"}
  /\ asleep.cb = "fq" => cb.pc = "peek"

\* Who is gone when the main thread reopens a stream.
Joined ==
  /\ mn.pc \in {"give_up", "closed"} => dec.pc = "dead" /\ cb.pc = "idle"
  /\ mn.pc \in {"join", "give_up", "closed"} /\ opt.kind = "audio" => ~cb.open

SleepInv == Places /\ NoLostWakeup

-----------------------------------------------------------------------------
(* The queues *)

\* An index of the ring wraps at MaxSize.
LEMMA Wrap ==
  ASSUME NEW a \in 0 .. MaxSize - 1, NEW k \in 0 .. MaxSize
  PROVE  /\ (a + k) % MaxSize = IF a + k < MaxSize THEN a + k ELSE a + k - MaxSize
         /\ (a + k) % MaxSize \in 0 .. MaxSize - 1
<1>1. CASE a + k < MaxSize
  BY <1>1, QueueAssumption
<1>2. CASE a + k >= MaxSize
  BY <1>2, QueueAssumption
<1> QED BY <1>1, <1>2, QueueAssumption

\* packet_queue_put keeps the shape of the queue: it appends a packet under the newest serial.
LEMMA PutShape ==
  ASSUME TypeOK, NEW p \in [what : {"flush", "null", "data"}, n : Nat]
  PROVE  LET q == packet_queue_put(pktq, p)
         IN /\ q \in PacketQueues
            /\ q.abort_request = pktq.abort_request
            /\ pktq.abort_request => q = pktq
            /\ ~pktq.abort_request =>
                 /\ q.serial = IF p = Flush THEN pktq.serial + 1 ELSE pktq.serial
                 /\ q.pkts = Append(pktq.pkts, [what |-> p.what, n |-> p.n, serial |-> q.serial])
<1> DEFINE serial == IF p = Flush THEN pktq.serial + 1 ELSE pktq.serial
           queued == [what |-> p.what, n |-> p.n, serial |-> serial]
<1>1. serial \in Nat /\ queued \in Packets
  BY DEF TypeOK, PacketQueues, Packets
<1>2. Append(pktq.pkts, queued) \in Seq(Packets)
  BY <1>1, AppendProperties DEF TypeOK, PacketQueues
<1>3. packet_queue_put(pktq, p) = IF pktq.abort_request THEN pktq
        ELSE [pktq EXCEPT !.serial = serial, !.pkts = Append(@, queued)]
  BY DEF packet_queue_put
<1> HIDE DEF queued
<1>4. CASE pktq.abort_request
  BY <1>3, <1>4 DEF TypeOK, PacketQueues
<1>5. CASE ~pktq.abort_request
  <2> DEFINE q == packet_queue_put(pktq, p)
  <2>1. /\ q = [pktq EXCEPT !.serial = serial, !.pkts = Append(@, queued)]
        /\ q.serial = serial /\ q.pkts = Append(pktq.pkts, queued)
        /\ q.abort_request = pktq.abort_request
    BY <1>3, <1>5 DEF TypeOK, PacketQueues
  <2>2. q \in PacketQueues
    BY <1>1, <1>2, <2>1 DEF TypeOK, PacketQueues
  <2> HIDE DEF q
  <2>3. queued = [what |-> p.what, n |-> p.n, serial |-> q.serial]
    BY <2>1 DEF queued
  <2> QED BY <1>5, <2>1, <2>2, <2>3 DEF q
<1> QED BY <1>4, <1>5

\* A signal wakes one of those that wait for it.
LEMMA SignalShape ==
  ASSUME TypeOK, NEW q \in {"pq", "fq"}, CondSignal(q)
  PROVE  /\ asleep' \in Sleepers
         /\ asleep'.dec \in {asleep.dec, "no"} /\ asleep'.cb \in {asleep.cb, "no"}
         /\ asleep.dec # q => asleep'.dec = asleep.dec
         /\ asleep.cb # q => asleep'.cb = asleep.cb
         /\ asleep.dec = q /\ asleep.cb # q => asleep'.dec = "no"
         /\ asleep.cb = q /\ asleep.dec # q => asleep'.cb = "no"
<1>1. asleep = [dec |-> asleep.dec, cb |-> asleep.cb]
  BY DEF TypeOK, Sleepers
<1>2. CASE UNCHANGED asleep /\ asleep.dec # q /\ asleep.cb # q
  BY <1>2 DEF TypeOK, Sleepers
<1>3. CASE asleep.dec = q /\ asleep' = [asleep EXCEPT !.dec = "no"]
  BY <1>1, <1>3 DEF TypeOK, Sleepers
<1>4. CASE asleep.cb = q /\ asleep' = [asleep EXCEPT !.cb = "no"]
  BY <1>1, <1>4 DEF TypeOK, Sleepers
<1> QED BY <1>2, <1>3, <1>4 DEF CondSignal

\* frame_queue_push and frame_queue_next on a ring.
IsRing(f) == /\ f \in FrameQueues
             /\ f.size \in f.rindex_shown .. MaxSize
             /\ f.windex = Slot(f, f.size)

LEMMA PushShape ==
  ASSUME NEW f, IsRing(f), f.size < MaxSize
  PROVE  LET g == frame_queue_push(f)
         IN /\ IsRing(g) /\ g.queue = f.queue /\ g.keep_last = f.keep_last
            /\ g.rindex = f.rindex /\ g.rindex_shown = f.rindex_shown
            /\ g.size = f.size + 1
<1> DEFINE g == frame_queue_push(f)
<1>1. /\ g = [f EXCEPT !.windex = IF @ + 1 = MaxSize THEN 0 ELSE @ + 1, !.size = @ + 1]
      /\ g.windex = IF f.windex + 1 = MaxSize THEN 0 ELSE f.windex + 1
      /\ g.size = f.size + 1 /\ g.rindex = f.rindex /\ g.rindex_shown = f.rindex_shown
      /\ g.queue = f.queue /\ g.keep_last = f.keep_last
  BY DEF frame_queue_push, IsRing, FrameQueues
<1> HIDE DEF g
<1>2. /\ MaxSize \in Nat /\ MaxSize > 0 /\ f.size \in Nat /\ f.size + 1 \in 0 .. MaxSize
      /\ f.rindex \in 0 .. MaxSize - 1 /\ f.windex \in 0 .. MaxSize - 1
      /\ f.rindex_shown \in 0 .. 1 /\ f.size >= f.rindex_shown
  BY QueueAssumption DEF IsRing, FrameQueues, Slots
<1>9. f.windex = (f.rindex + f.size) % MaxSize
  BY DEF IsRing, FrameQueues, Slot
<1>3. ASSUME NEW k \in {f.size, f.size + 1}
      PROVE  (f.rindex + k) % MaxSize = IF f.rindex + k < MaxSize THEN f.rindex + k
                                        ELSE f.rindex + k - MaxSize
  <2>1. k \in 0 .. MaxSize
    BY <1>2
  <2> QED BY <1>2, <2>1, Wrap
<1>4. g.windex = (f.rindex + (f.size + 1)) % MaxSize /\ g.windex \in 0 .. MaxSize - 1
  BY <1>1, <1>2, <1>3, <1>9
<1>5. g.windex = Slot(g, g.size)
  BY <1>1, <1>4 DEF Slot
<1>6. g \in FrameQueues
  <2>1. g.windex \in Slots /\ g.size \in Nat
    BY <1>1, <1>2, <1>4 DEF Slots
  <2>2. g = [f EXCEPT !.windex = g.windex, !.size = g.size]
    BY <1>1 DEF IsRing, FrameQueues
  <2> QED BY <2>1, <2>2 DEF IsRing, FrameQueues
<1>7. g.size \in g.rindex_shown .. MaxSize
  BY <1>1, <1>2
<1>8. IsRing(g)
  BY <1>5, <1>6, <1>7 DEF IsRing, FrameQueues
<1> QED BY <1>1, <1>8 DEF g

LEMMA NextShape ==
  ASSUME NEW f, IsRing(f), frame_queue_nb_remaining(f) > 0
  PROVE  LET g == frame_queue_next(f)
         IN /\ IsRing(g) /\ g.queue = f.queue /\ g.windex = f.windex
            /\ g.keep_last = f.keep_last
            /\ IF f.keep_last /\ f.rindex_shown = 0
               THEN g.rindex_shown = 1 /\ g.rindex = f.rindex /\ g.size = f.size
               ELSE /\ g.rindex_shown = f.rindex_shown /\ g.size = f.size - 1
                    /\ g.rindex = (f.rindex + 1) % MaxSize
<1> DEFINE g == frame_queue_next(f)
<1>1. /\ MaxSize \in Nat /\ MaxSize > 0 /\ f.size \in 1 .. MaxSize
      /\ f.rindex \in 0 .. MaxSize - 1 /\ f.windex \in 0 .. MaxSize - 1
      /\ f.rindex_shown \in 0 .. 1 /\ f.size > f.rindex_shown
  BY QueueAssumption DEF IsRing, FrameQueues, frame_queue_nb_remaining, Slots
<1>2. CASE f.keep_last /\ f.rindex_shown = 0
  <2>1. /\ g = [f EXCEPT !.rindex_shown = 1]
        /\ g.rindex_shown = 1 /\ g.rindex = f.rindex /\ g.size = f.size
        /\ g.windex = f.windex /\ g.queue = f.queue /\ g.keep_last = f.keep_last
    BY <1>2 DEF frame_queue_next, IsRing, FrameQueues
  <2> HIDE DEF g
  <2>2. g \in FrameQueues
    BY <2>1 DEF IsRing, FrameQueues
  <2>3. g.windex = Slot(g, g.size)
    BY <2>1 DEF IsRing, FrameQueues, Slot
  <2>4. g.size \in g.rindex_shown .. MaxSize
    BY <1>1, <2>1
  <2> QED BY <1>2, <2>1, <2>2, <2>3, <2>4 DEF IsRing, FrameQueues, g
<1>3. CASE ~(f.keep_last /\ f.rindex_shown = 0)
  <2>1. /\ g = [f EXCEPT !.rindex = IF @ + 1 = MaxSize THEN 0 ELSE @ + 1, !.size = @ - 1]
        /\ g.rindex = IF f.rindex + 1 = MaxSize THEN 0 ELSE f.rindex + 1
        /\ g.size = f.size - 1 /\ g.rindex_shown = f.rindex_shown /\ g.windex = f.windex
        /\ g.queue = f.queue /\ g.keep_last = f.keep_last
    BY <1>3 DEF frame_queue_next, IsRing, FrameQueues
  <2> HIDE DEF g
  <2>0. f.windex = (f.rindex + f.size) % MaxSize
    BY DEF IsRing, FrameQueues, Slot
  <2>2. /\ (f.rindex + 1) % MaxSize = IF f.rindex + 1 < MaxSize THEN f.rindex + 1
                                     ELSE f.rindex + 1 - MaxSize
        /\ (f.rindex + f.size) % MaxSize
             = IF f.rindex + f.size < MaxSize THEN f.rindex + f.size
               ELSE f.rindex + f.size - MaxSize
    BY <1>1, Wrap, SMTT(30)
  <2>3. g.rindex = (f.rindex + 1) % MaxSize /\ g.rindex \in 0 .. MaxSize - 1
    BY <1>1, <2>1, <2>2
  <2>4. (g.rindex + g.size) % MaxSize = IF g.rindex + g.size < MaxSize THEN g.rindex + g.size
                                       ELSE g.rindex + g.size - MaxSize
    <3>1. g.rindex \in 0 .. MaxSize - 1 /\ g.size \in 0 .. MaxSize
      BY <1>1, <2>1, <2>3
    <3> QED BY <3>1, Wrap
  <2>5. g.windex = Slot(g, g.size)
    <3>1. g.windex = (g.rindex + g.size) % MaxSize
      <4>1. CASE f.rindex + 1 = MaxSize
        BY <1>1, <2>1, <2>2, <2>4, <2>0, <4>1
      <4>2. CASE f.rindex + 1 # MaxSize
        BY <1>1, <2>1, <2>2, <2>4, <2>0, <4>2
      <4> QED BY <4>1, <4>2
    <3> QED BY <3>1 DEF Slot
  <2>6. g \in FrameQueues
    <3>1. g.rindex \in Slots /\ g.size \in Nat
      BY <1>1, <2>1, <2>3 DEF Slots
    <3>2. g = [f EXCEPT !.rindex = g.rindex, !.size = g.size]
      BY <2>1 DEF IsRing, FrameQueues
    <3> QED BY <3>1, <3>2 DEF IsRing, FrameQueues
  <2>7. g.size \in g.rindex_shown .. MaxSize
    BY <1>1, <2>1
  <2> QED BY <1>3, <2>1, <2>3, <2>5, <2>6, <2>7 DEF IsRing, FrameQueues, g
<1> QED BY <1>2, <1>3

\* The slot at windex holds no frame unless all of them do.
LEMMA FreeSlot == ASSUME NEW f, IsRing(f), f.size < MaxSize PROVE f.windex \notin Filled(f)
<1> SUFFICES ASSUME NEW k \in 0 .. f.size - 1 PROVE f.windex # Slot(f, k)
  BY DEF Filled
<1>1. /\ MaxSize \in Nat /\ MaxSize > 0 /\ f.rindex \in 0 .. MaxSize - 1
      /\ f.size \in 0 .. MaxSize /\ f.windex = (f.rindex + f.size) % MaxSize
      /\ k \in 0 .. MaxSize
  BY QueueAssumption DEF IsRing, FrameQueues, Slots, Slot
<1>2. /\ (f.rindex + k) % MaxSize
           = IF f.rindex + k < MaxSize THEN f.rindex + k ELSE f.rindex + k - MaxSize
      /\ (f.rindex + f.size) % MaxSize
           = IF f.rindex + f.size < MaxSize THEN f.rindex + f.size
             ELSE f.rindex + f.size - MaxSize
  BY <1>1, Wrap, SMTT(30)
<1> QED BY <1>1, <1>2 DEF Slot

\* A push adds that slot to those that hold frames, and a frame that is taken leaves them.
LEMMA PushedSlots ==
  ASSUME NEW f, IsRing(f), f.size < MaxSize
  PROVE  Filled(frame_queue_push(f)) \subseteq Filled(f) \cup {f.windex}
<1> DEFINE g == frame_queue_push(f)
<1>1. g.rindex = f.rindex /\ g.size = f.size + 1
  BY PushShape
<1>2. f.size \in Nat /\ f.windex = Slot(f, f.size)
  BY DEF IsRing, FrameQueues
<1> HIDE DEF g
<1>3. ASSUME NEW k \in 0 .. g.size - 1 PROVE Slot(g, k) \in Filled(f) \cup {f.windex}
  <2>1. Slot(g, k) = Slot(f, k)
    BY <1>1 DEF Slot
  <2>2. k \in 0 .. f.size - 1 \/ k = f.size
    BY <1>1, <1>2
  <2> QED BY <1>2, <2>1, <2>2 DEF Filled
<1> QED BY <1>3 DEF Filled, g

\* When the frame at rindex is given up the others move up by one.
LEMMA MovedSlots ==
  ASSUME NEW f, IsRing(f), NEW g, g.size = f.size - 1, g.rindex = (f.rindex + 1) % MaxSize,
         NEW k \in 0 .. g.size - 1
  PROVE  Slot(g, k) = Slot(f, k + 1)
<1>1. /\ MaxSize \in Nat /\ MaxSize > 0 /\ f.size \in 0 .. MaxSize
      /\ f.rindex \in 0 .. MaxSize - 1
  BY QueueAssumption DEF IsRing, FrameQueues, Slots
<1>2. k \in 0 .. MaxSize /\ k + 1 \in 0 .. MaxSize /\ 1 \in 0 .. MaxSize
  BY <1>1
<1>3. /\ g.rindex = IF f.rindex + 1 < MaxSize THEN f.rindex + 1 ELSE f.rindex + 1 - MaxSize
      /\ g.rindex \in 0 .. MaxSize - 1
  BY <1>1, <1>2, Wrap
<1>4. (g.rindex + k) % MaxSize
        = IF g.rindex + k < MaxSize THEN g.rindex + k ELSE g.rindex + k - MaxSize
  BY <1>2, <1>3, Wrap
<1>5. (f.rindex + (k + 1)) % MaxSize
        = IF f.rindex + (k + 1) < MaxSize THEN f.rindex + (k + 1)
          ELSE f.rindex + (k + 1) - MaxSize
  BY <1>1, <1>2, Wrap
<1> QED BY <1>1, <1>2, <1>3, <1>4, <1>5 DEF Slot

LEMMA TakenSlots ==
  ASSUME NEW f, IsRing(f), frame_queue_nb_remaining(f) > 0
  PROVE  Filled(frame_queue_next(f)) \subseteq Filled(f)
<1> DEFINE g == frame_queue_next(f)
<1>1. f.size \in Nat
  BY DEF IsRing, FrameQueues
<1>2. \/ g.rindex = f.rindex /\ g.size = f.size
      \/ g.size = f.size - 1 /\ g.rindex = (f.rindex + 1) % MaxSize
  BY NextShape
<1> HIDE DEF g
<1>3. CASE g.rindex = f.rindex /\ g.size = f.size
  BY <1>3 DEF Filled, Slot, g
<1>4. CASE g.size = f.size - 1 /\ g.rindex = (f.rindex + 1) % MaxSize
  <2>1. ASSUME NEW k \in 0 .. g.size - 1 PROVE Slot(g, k) \in Filled(f)
    <3>1. Slot(g, k) = Slot(f, k + 1) /\ k + 1 \in 0 .. f.size - 1
      BY <1>1, <1>4, MovedSlots
    <3> QED BY <3>1 DEF Filled
  <2> QED BY <2>1 DEF Filled, g
<1> QED BY <1>2, <1>3, <1>4

-----------------------------------------------------------------------------
(* A thread that leaves both queues alone *)

LEMMA ReaderMoves ==
  ASSUME QueueInv, UNCHANGED <<opt, pktq, frameq, dec, mn, cb, shown, keys>>,
         asleep' \in Sleepers, is' \in Flags, rd' \in ReadThreads, rd'.pos <= opt.FileLen,
         rd'.pc # "seek_put"
  PROVE  QueueInv'
<1>1. TypeOK'
  BY DEF QueueInv, TypeOK
<1>2. Kinds' /\ Ring'
  BY DEF QueueInv, Kinds, Ring, Reserved
<1>3. Serials'
  BY DEF QueueInv, Serials, PacketsCurrent
<1> QED BY <1>1, <1>2, <1>3 DEF QueueInv

LEMMA DecoderMoves ==
  ASSUME QueueInv, UNCHANGED <<opt, pktq, frameq, is, rd, mn, cb, shown, keys>>,
         asleep' \in Sleepers, dec' \in Decoders, dec'.pc # "alloc",
         Reserved' => Reserved \/ frameq.size < MaxSize
  PROVE  QueueInv'
<1>1. TypeOK'
  BY DEF QueueInv, TypeOK
<1>2. Kinds' /\ Ring'
  BY DEF QueueInv, Kinds, Ring
<1>3. Serials'
  BY DEF QueueInv, Serials, PacketsCurrent
<1> QED BY <1>1, <1>2, <1>3 DEF QueueInv

LEMMA CallbackMoves ==
  ASSUME QueueInv, UNCHANGED <<opt, pktq, frameq, is, rd, mn, dec, keys>>,
         asleep' \in Sleepers, cb' \in Callbacks, opt.kind = "audio", shown' \in Nat \X Nat
  PROVE  QueueInv'
<1>1. TypeOK'
  BY DEF QueueInv, TypeOK
<1>2. Kinds' /\ Ring'
  BY DEF QueueInv, Kinds, Ring, Reserved
<1>3. Serials'
  BY DEF QueueInv, Serials, PacketsCurrent
<1> QED BY <1>1, <1>2, <1>3 DEF QueueInv

LEMMA MainMoves ==
  ASSUME QueueInv, UNCHANGED <<opt, pktq, frameq, asleep, rd, dec, cb, keys>>,
         is' \in Flags, mn' \in MainThreads, shown' \in Nat \X Nat,
         mn'.pc \notin {"signal", "device", "join", "give_up", "closed"},
         mn'.pc \in {"refresh", "display"} => opt.kind = "video",
         mn'.pc \in {"over", "subtitle"} => opt.kind = "subtitle",
         mn'.pc = "display" => frameq.size > frameq.rindex_shown
  PROVE  QueueInv'
<1>1. TypeOK'
  BY DEF QueueInv, TypeOK
<1>2. Kinds' /\ Ring'
  BY DEF QueueInv, Kinds, Ring, Reserved
<1>3. Serials'
  BY DEF QueueInv, Serials, PacketsCurrent
<1> QED BY <1>1, <1>2, <1>3 DEF QueueInv

LEMMA ReaderQuiet ==
  QueueInv /\ (\/ ReadLoop \/ SeekNothing \/ SeekStep \/ ReadWait \/ ReadEnd \/ ReadWaitEnd
               \/ ReadGone) => QueueInv'
<1> SUFFICES ASSUME QueueInv, \/ ReadLoop \/ SeekNothing \/ SeekStep \/ ReadWait \/ ReadEnd
                              \/ ReadWaitEnd \/ ReadGone
             PROVE  QueueInv'
  OBVIOUS
<1> USE DEF QueueInv, TypeOK, queues, user, ReadStep, ReadThreads, ClosePcs, Flags
<1>1. /\ UNCHANGED <<opt, pktq, frameq, dec, mn, cb, shown, keys>>
      /\ asleep' \in Sleepers
  BY DEF ReadLoop, SeekNothing, SeekStep, ReadWait, ReadEnd, ReadWaitEnd, ReadGone
<1>2. opt.FileLen \in Nat /\ rd.pos \in Nat /\ 0 <= opt.FileLen
  BY PlayerAssumption
<1>3. is' \in Flags /\ rd' \in ReadThreads /\ rd'.pos <= opt.FileLen /\ rd'.pc # "seek_put"
  <2>1. CASE ReadLoop
    BY <2>1 DEF ReadLoop
  <2>2. CASE SeekNothing
    <3>1. PICK p \in {rd.pos, 0} : SeekDone(p)
      BY <2>2 DEF SeekNothing
    <3>2. p \in Nat /\ p <= opt.FileLen
      BY <1>2
    <3>3. is' = [is EXCEPT !.seek_req = FALSE] /\ rd'.pos = p
      BY <3>1 DEF SeekDone
    <3>4. rd' = [rd EXCEPT !.pc = rd'.pc, !.eof = FALSE, !.pos = p] /\ rd'.pc \in {"step", "fill"}
      BY <3>1 DEF SeekDone
    <3> QED BY <3>2, <3>3, <3>4
  <2>3. CASE SeekStep
    BY <2>3 DEF SeekStep
  <2>4. CASE ReadWait
    BY <2>4 DEF ReadWait
  <2>5. CASE ReadEnd
    <3>1. is' = is \/ is' = [is EXCEPT !.seek_req = TRUE]
      BY <2>5 DEF ReadEnd
    <3>2. CASE rd' = [rd EXCEPT !.pc = "read"]
      BY <3>1, <3>2
    <3>3. CASE rd.loop # 1 /\ rd' = [rd EXCEPT !.pc = "read", !.loop = rd.loop - 1]
      <4>1. rd.loop - 1 \in Nat \ {0}
        BY <3>3
      <4> QED BY <3>1, <3>3, <4>1, ZenonT(60)
    <3>4. CASE rd' = [rd EXCEPT !.pc = "close", !.ret = -1]
      BY <3>1, <3>4
    <3> QED BY <2>5, <3>2, <3>3, <3>4 DEF ReadEnd
  <2>6. CASE ReadGone
    BY <2>6 DEF ReadGone
  <2>7. CASE ReadWaitEnd
    BY <2>7 DEF ReadWaitEnd
  <2> QED BY <2>1, <2>2, <2>3, <2>4, <2>5, <2>6, <2>7
<1> QED BY <1>1, <1>3, ReaderMoves

LEMMA DecoderQuiet ==
  QueueInv /\ (Decode \/ GotPacket \/ Codec \/ ThreadExit \/ PeekWritable) => QueueInv'
<1> SUFFICES ASSUME QueueInv, Decode \/ GotPacket \/ Codec \/ ThreadExit \/ PeekWritable
             PROVE  QueueInv'
  OBVIOUS
<1> USE DEF QueueInv, TypeOK, queues, user, Thread, DecGoes, DecSleeps, Decoders, Sleepers
<1>1. UNCHANGED <<opt, pktq, frameq, is, rd, mn, cb, shown, keys>>
  BY DEF Decode, GotPacket, Codec, ThreadExit, PeekWritable
<1>2. /\ asleep' \in Sleepers /\ dec' \in Decoders /\ dec'.pc # "alloc"
      /\ Reserved' => Reserved \/ frameq.size < MaxSize
  <2> USE <1>1 DEF Reserved
  <2>1. CASE Decode
    BY <2>1 DEF Decode
  <2>2. CASE GotPacket
    BY <2>2 DEF GotPacket
  <2>3. CASE Codec
    <3>1. dec.pkt.n \in Nat /\ dec.held \in Seq(Nat) /\ dec.pkt_serial \in Nat
      BY DEF Packets, NoPacket
    <3> DEFINE buffered == Append(dec.held, dec.pkt.n)
    <3>2. buffered \in Seq(Nat) /\ Len(buffered) = Len(dec.held) + 1
      BY <3>1, AppendProperties
    <3>3. ASSUME NEW s \in Seq(Nat), s # <<>> PROVE Head(s) \in Nat /\ Tail(s) \in Seq(Nat)
      BY <3>3, HeadTailProperties
    <3>4. Head(buffered) \in Nat /\ Tail(buffered) \in Seq(Nat)
      <4>1. Len(dec.held) \in Nat /\ Len(buffered) # 0
        BY <3>1, <3>2, LenProperties
      <4>2. buffered # <<>>
        BY <4>1, EmptySeq
      <4> QED BY <3>2, <3>3, <4>2
    <3> HIDE DEF buffered
    <3>5. ASSUME NEW n \in Nat, NEW held \in Seq(Nat), NEW pending \in BOOLEAN,
                 Decoded(n, held, pending)
          PROVE  dec' \in Decoders /\ dec'.pc \in {"queue", "decode"}
      <4>1. CASE dec' = [dec EXCEPT !.pc = "queue", !.frame = n, !.held = held,
                                    !.pending = pending]
        BY <3>5, <4>1
      <4>2. CASE dec' = [dec EXCEPT !.pc = "decode", !.held = held, !.pending = pending]
        BY <3>5, <4>2
      <4> QED BY <3>5, <4>1, <4>2 DEF Decoded
    <3>6. dec' \in Decoders /\ dec'.pc \in {"queue", "decode"}
      <4>1. CASE Decoded(Head(buffered), Tail(buffered), FALSE)
        BY <3>4, <3>5, <4>1
      <4>2. CASE dec.held # <<>> /\ Decoded(Head(dec.held), Tail(dec.held), TRUE)
        BY <3>1, <3>3, <3>5, <4>2
      <4>3. CASE dec' = [dec EXCEPT !.pc = "decode", !.pending = FALSE, !.held = buffered]
        BY <3>2, <4>3
      <4>4. CASE dec' = [dec EXCEPT !.pc = "decode", !.pending = FALSE]
        BY <4>4
      <4>5. CASE dec' = [dec EXCEPT !.pc = "decode", !.pending = FALSE, !.finished = dec.pkt_serial]
        BY <3>1, <4>5
      <4> QED BY <2>3, <4>1, <4>2, <4>3, <4>4, <4>5 DEF Codec, buffered
    <3>7. asleep' = asleep /\ dec.pc = "codec"
      BY <2>3 DEF Codec
    <3> QED BY <3>6, <3>7
  <2>4. CASE ThreadExit
    BY <2>4 DEF ThreadExit
  <2>5. CASE PeekWritable
    <3>1. CASE NotWritable
      BY <2>5, <3>1 DEF NotWritable, PeekWritable
    <3>2. CASE Writable /\ DecGoes("decode")
      <4>1. frameq.size < MaxSize
        BY <3>2, QueueAssumption DEF Writable, frame_queue_full, FrameQueues
      <4> QED BY <3>2, <4>1
    <3> QED BY <2>5, <3>1, <3>2 DEF PeekWritable
  <2> QED BY <2>1, <2>2, <2>3, <2>4, <2>5
<1> QED BY <1>1, <1>2, DecoderMoves

LEMMA CallbackQuiet ==
  QueueInv /\ (Continue \/ ChooseSamples) => QueueInv'
<1> SUFFICES ASSUME QueueInv, Continue \/ ChooseSamples PROVE QueueInv'
  OBVIOUS
<1> USE DEF QueueInv, TypeOK, queues, user, Callback, CbGoes, Callbacks
<1>1. /\ UNCHANGED <<opt, pktq, frameq, asleep, is, rd, mn, dec, keys>> /\ opt.kind = "audio"
      /\ \/ \E left \in 0 .. 1 : cb' = [cb EXCEPT !.pc = "idle", !.left = left]
         \/ cb' = [cb EXCEPT !.left = 0]
         \/ cb' = [cb EXCEPT !.pc = "peek"]
  BY DEF Continue, ChooseSamples
<1>0. cb' \in Callbacks
  <2>1. CASE \E left \in 0 .. 1 : cb' = [cb EXCEPT !.pc = "idle", !.left = left]
    BY <2>1
  <2>2. CASE cb' = [cb EXCEPT !.left = 0] \/ cb' = [cb EXCEPT !.pc = "peek"]
    BY <2>2
  <2> QED BY <1>1, <2>1, <2>2
<1>2. shown' \in Nat \X Nat
  BY DEF Continue, ChooseSamples, FrameQueues, Frames
<1> QED BY <1>0, <1>1, <1>2, CallbackMoves

LEMMA PeekInRing ==
  ASSUME TypeOK
  PROVE  frameq.queue[frame_queue_peek(frameq)] \in Frames
<1>1. frame_queue_peek(frameq) \in Slots
  <2>1. frameq.rindex \in 0 .. MaxSize - 1 /\ frameq.rindex_shown \in 0 .. MaxSize
    BY QueueAssumption DEF TypeOK, FrameQueues, Slots
  <2> QED BY <2>1, Wrap DEF frame_queue_peek, Slots
<1> QED BY <1>1 DEF TypeOK, FrameQueues

LEMMA MainQuiet ==
  QueueInv /\ (\/ RefreshPicture \/ DisplaySubtitle \/ HandleEvent \/ Quit \/ CycleNone
               \/ RefreshNothing \/ RefreshPick) => QueueInv'
<1> SUFFICES ASSUME QueueInv, \/ RefreshPicture \/ DisplaySubtitle \/ HandleEvent \/ Quit
                              \/ CycleNone \/ RefreshNothing \/ RefreshPick
             PROVE  QueueInv'
  OBVIOUS
<1> USE DEF QueueInv, TypeOK, Kinds, queues, user, MainThreads, ClosePcs, Flags
<1>1. UNCHANGED <<opt, pktq, frameq, asleep, rd, dec, cb, keys>>
  BY DEF RefreshPicture, DisplaySubtitle, HandleEvent, Quit, CycleNone, RefreshNothing, RefreshPick
<1>2. frameq.queue[frame_queue_peek(frameq)] \in Frames
  BY PeekInRing
<1>3. is' \in Flags /\ mn' \in MainThreads /\ shown' \in Nat \X Nat
  <2>1. CASE RefreshPicture
    BY <2>1 DEF RefreshPicture
  <2>2. CASE DisplaySubtitle
    <3>1. shown' \in Nat \X Nat
      BY <1>2, <2>2 DEF DisplaySubtitle, sp, Frames
    <3>2. is' = [is EXCEPT !.force_refresh = FALSE, !.paused = is.paused \/ is.step]
      BY <2>2 DEF DisplaySubtitle, Displayed
    <3>3. (is.paused \/ is.step) \in BOOLEAN
      OBVIOUS
    <3>4. mn' = [mn EXCEPT !.pc = "loop"]
      BY <2>2 DEF DisplaySubtitle
    <3> QED BY <3>1, <3>2, <3>3, <3>4
  <2>3. CASE HandleEvent
    BY <2>3 DEF HandleEvent
  <2>4. CASE Quit
    BY <2>4 DEF Quit
  <2>5. CASE RefreshNothing
    BY <2>5 DEF RefreshNothing
  <2>6. CASE RefreshPick
    BY <1>2, <2>6 DEF RefreshPick, Clocked, vp, Frames
  <2>7. CASE CycleNone
    BY <2>7 DEF CycleNone
  <2> QED BY <2>1, <2>2, <2>3, <2>4, <2>5, <2>6, <2>7
<1>4. /\ mn'.pc \notin {"signal", "device", "join", "give_up", "closed"}
      /\ mn'.pc \in {"refresh", "display"} => opt.kind = "video"
      /\ mn'.pc \in {"over", "subtitle"} => opt.kind = "subtitle"
  BY DEF RefreshPicture, DisplaySubtitle, HandleEvent, Quit, CycleNone, RefreshNothing, RefreshPick
<1>5. mn'.pc = "display" => frameq.size > frameq.rindex_shown
  <2>1. CASE RefreshPick
    <3>1. frameq.size - frameq.rindex_shown # 0 /\ frameq.size >= frameq.rindex_shown
      BY <2>1 DEF RefreshPick, Current, frame_queue_nb_remaining, Ring
    <3> QED BY <3>1 DEF FrameQueues
  <2>2. CASE ~RefreshPick
    BY <2>2 DEF RefreshPicture, DisplaySubtitle, HandleEvent, Quit, CycleNone, RefreshNothing
  <2> QED BY <2>1, <2>2
<1> QED BY <1>1, <1>3, <1>4, <1>5, MainMoves

-----------------------------------------------------------------------------
(* Actions on the packet queue *)

\* Queued packets: those of a seek that is under way are flush packets.
SeekingFlushed == rd.pc = "seek_put" => \A i \in DOMAIN pktq.pkts : pktq.pkts[i].what = "flush"

\* Packets that were there, or are none.
LEMMA FewerPackets ==
  ASSUME QueueInv, pktq' \in PacketQueues, pktq'.serial = pktq.serial,
         \/ pktq'.pkts = pktq.pkts \/ pktq'.pkts = <<>>
         \/ pktq.pkts # <<>> /\ pktq'.pkts = Tail(pktq.pkts),
         rd'.pc # "seek_put" \/ rd'.pc = rd.pc \/ pktq'.pkts = <<>>
  PROVE  PacketsCurrent' /\ SeekingFlushed'
<1>1. pktq.pkts \in Seq(Packets)
  BY DEF QueueInv, TypeOK, PacketQueues
<1>2. CASE pktq'.pkts = <<>>
  BY <1>2 DEF PacketsCurrent, SeekingFlushed
<1>3. CASE pktq'.pkts = pktq.pkts
  BY <1>3 DEF QueueInv, Serials, PacketsCurrent, SeekingFlushed
<1>4. CASE pktq.pkts # <<>> /\ pktq'.pkts = Tail(pktq.pkts)
  <2>1. \A i \in DOMAIN pktq'.pkts :
          i + 1 \in DOMAIN pktq.pkts /\ pktq'.pkts[i] = pktq.pkts[i + 1]
    BY <1>1, <1>4, HeadTailProperties
  <2>2. CASE pktq'.pkts = <<>>
    BY <1>2, <2>2
  <2>3. CASE pktq'.pkts # <<>>
    BY <2>1, <2>3 DEF QueueInv, Serials, PacketsCurrent, SeekingFlushed
  <2> QED BY <2>2, <2>3
<1> QED BY <1>2, <1>3, <1>4

\* A packet that is put is of the queue's serial, and a flush packet when it is a new one.
LEMMA PutPackets ==
  ASSUME QueueInv, NEW p \in [what : {"flush", "null", "data"}, n : Nat],
         pktq' = packet_queue_put(pktq, p),
         p = Flush => \A i \in DOMAIN pktq.pkts : pktq.pkts[i].what = "flush"
  PROVE  /\ pktq' \in PacketQueues /\ PacketsCurrent'
         /\ pktq'.abort_request = pktq.abort_request
         /\ pktq.abort_request => pktq' = pktq
         /\ p = Flush /\ ~pktq.abort_request =>
              \A i \in DOMAIN pktq'.pkts : pktq'.pkts[i].what = "flush"
<1>1. /\ pktq' \in PacketQueues /\ pktq'.abort_request = pktq.abort_request
      /\ pktq.abort_request => pktq' = pktq
      /\ ~pktq.abort_request =>
           /\ pktq'.serial = IF p = Flush THEN pktq.serial + 1 ELSE pktq.serial
           /\ pktq'.pkts = Append(pktq.pkts, [what |-> p.what, n |-> p.n, serial |-> pktq'.serial])
  BY PutShape DEF QueueInv
<1>2. CASE pktq.abort_request
  BY <1>1, <1>2 DEF QueueInv, Serials, PacketsCurrent
<1>3. CASE ~pktq.abort_request
  <2> DEFINE queued == [what |-> p.what, n |-> p.n, serial |-> pktq'.serial]
  <2>1. queued \in Packets /\ pktq.pkts \in Seq(Packets)
    BY <1>1 DEF Packets, QueueInv, TypeOK, PacketQueues
  <2>2. /\ Len(pktq'.pkts) = Len(pktq.pkts) + 1 /\ Len(pktq.pkts) \in Nat
        /\ \A i \in 1 .. Len(pktq.pkts) : pktq'.pkts[i] = pktq.pkts[i]
        /\ pktq'.pkts[Len(pktq.pkts) + 1] = queued
        /\ DOMAIN pktq'.pkts = 1 .. Len(pktq.pkts) + 1
        /\ DOMAIN pktq.pkts = 1 .. Len(pktq.pkts)
    BY <1>1, <1>3, <2>1, AppendProperties, LenProperties
  <2>3. \A i \in DOMAIN pktq'.pkts : i \in DOMAIN pktq.pkts \/ i = Len(pktq.pkts) + 1
    BY <2>2
  <2>4. queued.serial = pktq'.serial /\ queued.what = p.what
    OBVIOUS
  <2> HIDE DEF queued
  <2>5. CASE p = Flush
    <3>1. \A i \in DOMAIN pktq'.pkts : pktq'.pkts[i].what = "flush"
      BY <2>2, <2>3, <2>4, <2>5 DEF Flush
    <3> QED BY <1>1, <1>3, <2>5, <3>1 DEF PacketsCurrent
  <2>6. CASE p # Flush
    <3>1. pktq'.serial = pktq.serial
      BY <1>1, <1>3, <2>6
    <3>2. PacketsCurrent'
      BY <2>2, <2>3, <2>4, <3>1 DEF QueueInv, Serials, PacketsCurrent
    <3> QED BY <1>1, <1>3, <2>6, <3>2
  <2> QED BY <2>5, <2>6
<1> QED BY <1>2, <1>3

\* Of the queue invariant, what the packet queue does not touch.
LEMMA SameFrames ==
  ASSUME QueueInv, TypeOK', UNCHANGED <<opt, frameq>>, dec'.pc # "alloc" \/ dec'.pc = dec.pc,
         Reserved' => Reserved,
         mn'.pc \in {"refresh", "display", "over", "subtitle"} => mn'.pc = mn.pc,
         cb'.pc # "idle" => cb'.pc = cb.pc, cb'.left # 0 => cb'.left = cb.left
  PROVE  Kinds' /\ Ring'
BY DEF QueueInv, Kinds, Ring

\* Putting a packet wakes a thread that waits for one.
LEMMA PutSignals ==
  ASSUME QueueInv, NEW p, Put(p)
  PROVE  pktq' = packet_queue_put(pktq, p) /\ asleep' \in Sleepers
BY SignalShape DEF Put, QueueInv, TypeOK

LEMMA SeekQueues == QueueInv /\ (SeekFlush \/ SeekPut) => QueueInv'
<1> SUFFICES ASSUME QueueInv, SeekFlush \/ SeekPut PROVE QueueInv'
  OBVIOUS
<1>1. TypeOK /\ UNCHANGED <<opt, keys, shown, frameq, dec, mn, cb>>
  BY DEF SeekFlush, SeekPut, queues, user, QueueInv
<1>2. opt.FileLen \in Nat /\ 0 <= opt.FileLen
  BY <1>1, PlayerAssumption DEF TypeOK
<1>3. CASE SeekFlush
  <2>1. /\ pktq' = [pktq EXCEPT !.pkts = <<>>] /\ pktq'.serial = pktq.serial
        /\ pktq'.pkts = <<>> /\ pktq' \in PacketQueues
        /\ pktq'.abort_request = pktq.abort_request
    BY <1>1, <1>3, EmptySeq DEF SeekFlush, packet_queue_flush, TypeOK, PacketQueues
  <2>2. rd' \in ReadThreads /\ rd'.pos = rd.pos /\ asleep' = asleep /\ is' = is
    BY <1>1, <1>3 DEF SeekFlush, ReadStep, TypeOK, ReadThreads
  <2>3. TypeOK'
    BY <1>1, <2>1, <2>2 DEF TypeOK
  <2>4. Kinds' /\ Ring'
    BY <1>1, <2>3, SameFrames DEF Reserved
  <2>5. PacketsCurrent' /\ SeekingFlushed'
    BY <2>1, FewerPackets
  <2>6. Serials'
    BY <1>1, <2>1, <2>5 DEF QueueInv, Serials, SeekingFlushed
  <2> QED BY <2>3, <2>4, <2>6 DEF QueueInv
<1>4. CASE SeekPut
  <2>1. /\ \A i \in DOMAIN pktq.pkts : pktq.pkts[i].what = "flush"
        /\ Flush \in [what : {"flush", "null", "data"}, n : Nat]
    BY <1>4 DEF SeekPut, QueueInv, Serials, Flush
  <2>2. pktq' = packet_queue_put(pktq, Flush) /\ asleep' \in Sleepers
    BY <1>4, PutSignals DEF SeekPut
  <2>3. /\ pktq' \in PacketQueues /\ PacketsCurrent'
        /\ pktq'.abort_request = pktq.abort_request
        /\ pktq.abort_request => pktq' = pktq
    BY <2>1, <2>2, PutPackets
  <2>4. /\ is' \in Flags /\ rd' \in ReadThreads /\ rd'.pos = 0 /\ rd'.pc \in {"step", "fill"}
    BY <1>1, <1>4 DEF SeekPut, SeekDone, TypeOK, ReadThreads, Flags
  <2>5. TypeOK'
    BY <1>1, <1>2, <2>2, <2>3, <2>4 DEF TypeOK
  <2>6. Kinds' /\ Ring'
    BY <1>1, <2>5, SameFrames DEF Reserved
  <2>7. Serials'
    BY <1>1, <2>3, <2>4 DEF QueueInv, Serials
  <2> QED BY <2>5, <2>6, <2>7 DEF QueueInv
<1> QED BY <1>3, <1>4

\* A packet is read, or none.
LEMMA ReadPuts ==
  ASSUME QueueInv, UNCHANGED <<opt, keys, shown, frameq, dec, mn, cb, is>>, rd.pc = "read",
         rd' \in ReadThreads, rd'.pos <= opt.FileLen, rd'.pc # "seek_put",
         UNCHANGED <<pktq, asleep>> \/ \E p \in {Null, Data(rd.pos + 1)} : Put(p)
  PROVE  QueueInv'
<1>1. TypeOK /\ rd.pos \in Nat
  BY DEF QueueInv, TypeOK, ReadThreads
<1>2. /\ pktq' \in PacketQueues /\ PacketsCurrent' /\ asleep' \in Sleepers
      /\ pktq'.abort_request = pktq.abort_request
      /\ pktq.abort_request => pktq' = pktq
  <2>1. CASE UNCHANGED <<pktq, asleep>>
    BY <2>1, <1>1 DEF TypeOK, QueueInv, Serials, PacketsCurrent
  <2>2. CASE \E p \in {Null, Data(rd.pos + 1)} : Put(p)
    <3>1. PICK p \in {Null, Data(rd.pos + 1)} : Put(p)
      BY <2>2
    <3>2. p \in [what : {"flush", "null", "data"}, n : Nat] /\ p # Flush
      BY <1>1 DEF Null, Data, Flush
    <3>3. pktq' = packet_queue_put(pktq, p) /\ asleep' \in Sleepers
      BY <3>1, PutSignals
    <3> QED BY <3>2, <3>3, PutPackets
  <2> QED BY <2>1, <2>2
<1>3. TypeOK'
  BY <1>1, <1>2 DEF TypeOK
<1>4. Kinds' /\ Ring'
  BY <1>1, <1>3, SameFrames DEF Reserved
<1>5. Serials'
  BY <1>1, <1>2 DEF QueueInv, Serials
<1> QED BY <1>3, <1>4, <1>5 DEF QueueInv

LEMMA ReadFrameQueues == QueueInv /\ (ReadFrame \/ ReadError) => QueueInv'
<1> SUFFICES ASSUME QueueInv, ReadFrame \/ ReadError PROVE QueueInv'
  OBVIOUS
<1>1. TypeOK /\ UNCHANGED <<opt, keys, shown, frameq, dec, mn, cb, is>> /\ rd.pc = "read"
  BY DEF ReadFrame, ReadError, user, QueueInv
<1>2. opt.FileLen \in Nat /\ rd.pos \in Nat /\ rd.pos <= opt.FileLen
  BY <1>1, PlayerAssumption DEF TypeOK, ReadThreads
<1>3. rd' \in ReadThreads /\ rd'.pos <= opt.FileLen /\ rd'.pc \in {"loop", "wait"}
  <2>1. CASE ReadFrame /\ rd.pos = opt.FileLen
    <3>1. rd' = [rd EXCEPT !.pc = "loop", !.eof = TRUE]
      BY <1>1, <2>1 DEF ReadFrame, TypeOK, ReadThreads
    <3> QED BY <1>1, <1>2, <3>1 DEF TypeOK, ReadThreads
  <2>2. CASE ReadFrame /\ rd.pos # opt.FileLen
    <3>1. rd' = [rd EXCEPT !.pc = "loop", !.eof = FALSE, !.pos = rd.pos + 1]
      BY <1>1, <2>2 DEF ReadFrame
    <3>2. rd.pos + 1 \in Nat /\ rd.pos + 1 <= opt.FileLen
      BY <1>2, <2>2
    <3> QED BY <1>1, <3>1, <3>2 DEF TypeOK, ReadThreads
  <2>3. CASE ReadError
    BY <1>1, <1>2, <2>3 DEF ReadError, TypeOK, ReadThreads
  <2> QED BY <2>1, <2>2, <2>3
<1>4. UNCHANGED <<pktq, asleep>> \/ \E p \in {Null, Data(rd.pos + 1)} : Put(p)
  BY DEF ReadFrame, ReadError
<1> QED BY <1>1, <1>3, <1>4, ReadPuts

LEMMA GetQueues == QueueInv /\ packet_queue_get => QueueInv'
<1> SUFFICES ASSUME QueueInv, packet_queue_get PROVE QueueInv'
  OBVIOUS
<1>1. TypeOK /\ UNCHANGED <<opt, keys, shown, frameq, is, rd, mn, cb>> /\ dec.pc = "get"
  BY DEF packet_queue_get, Thread, user, QueueInv
<1>2. CASE UNCHANGED pktq /\ (DecGoes("exit") \/ DecSleeps("pq"))
  <2>1. /\ asleep' \in Sleepers /\ dec' \in Decoders /\ dec'.pc # "alloc"
        /\ Reserved' => Reserved
    BY <1>1, <1>2 DEF DecGoes, DecSleeps, TypeOK, Sleepers, Decoders, Reserved
  <2> QED BY <1>1, <1>2, <2>1, DecoderMoves
<1> DEFINE p == Head(pktq.pkts)
           t == [dec EXCEPT !.pc = "got", !.pkt = p, !.pkt_serial = p.serial]
<1>3. CASE /\ pktq.pkts # <<>> /\ pktq' = [pktq EXCEPT !.pkts = Tail(@)] /\ asleep' = asleep
           /\ dec' = t \/ dec' = Emptied(t)
  <2>1. pktq.pkts \in Seq(Packets)
    BY <1>1 DEF TypeOK, PacketQueues
  <2>2. Head(pktq.pkts) \in Packets /\ Tail(pktq.pkts) \in Seq(Packets)
    BY <1>3, <2>1, HeadTailProperties
  <2>3. /\ pktq' \in PacketQueues /\ pktq'.pkts = Tail(pktq.pkts)
        /\ pktq'.serial = pktq.serial /\ pktq'.abort_request = pktq.abort_request
    BY <1>1, <1>3, <2>2 DEF TypeOK, PacketQueues
  <2>4. dec' \in Decoders /\ dec'.pc = "got"
    <3>1. t \in Decoders /\ t.pc = "got"
      BY <1>1, <2>2 DEF TypeOK, Decoders, Packets
    <3>2. Emptied(t) \in Decoders /\ Emptied(t).pc = "got"
      <4>1. <<>> \in Seq(Nat)
        OBVIOUS
      <4> HIDE DEF t
      <4> QED BY <3>1, <4>1 DEF Emptied, Decoders
    <3> QED BY <1>3, <3>1, <3>2
  <2>5. TypeOK'
    BY <1>1, <1>3, <2>3, <2>4 DEF TypeOK
  <2>6. Kinds' /\ Ring'
    <3>1. Reserved' => Reserved
      BY <1>1, <2>4 DEF Reserved
    <3> QED BY <1>1, <2>4, <2>5, <3>1, SameFrames
  <2>7. PacketsCurrent' /\ SeekingFlushed'
    BY <1>1, <1>3, <2>3, FewerPackets
  <2>8. mn.pc \notin {"give_up", "closed"}
    BY <1>3 DEF QueueInv, Serials
  <2>9. Serials'
    BY <1>1, <2>3, <2>7, <2>8 DEF QueueInv, Serials, SeekingFlushed
  <2> QED BY <2>5, <2>6, <2>9 DEF QueueInv
<1> QED BY <1>2, <1>3 DEF packet_queue_get

\* What a step of stream_component_close does to the queue.
LEMMA ClosingShape ==
  ASSUME QueueInv, NEW pc \in ClosePcs, NEW next, Closing(pc, next)
  PROVE  /\ frameq' = frameq /\ asleep' \in Sleepers /\ is' \in Flags /\ cb' \in Callbacks
         /\ cb'.pc = cb.pc /\ cb'.left = cb.left
         /\ pktq' \in PacketQueues /\ pktq'.serial = pktq.serial
         /\ pktq'.pkts = pktq.pkts \/ pktq'.pkts = <<>>
         /\ pktq'.abort_request = (pktq.abort_request \/ pc = "close")
         /\ pc = "join" => pktq'.pkts = <<>>
         /\ next = "give_up" <=> pc = "join"
         /\ next = "closed" <=> pc = "give_up"
         /\ next = "join" => opt.kind # "audio" \/ ~cb'.open
         /\ cb.open \/ ~cb'.open
<1> USE DEF QueueInv, TypeOK
<1>0. frameq' = frameq
  BY DEF Closing
<1>1. CASE pc = "close"
  <2>1. Abort /\ next = "signal" /\ UNCHANGED <<is, cb>>
    BY <1>1 DEF Closing
  <2>2. /\ pktq' = [pktq EXCEPT !.abort_request = TRUE] /\ asleep' \in Sleepers
    BY <2>1, SignalShape DEF Abort, packet_queue_abort
  <2> QED BY <1>0, <1>1, <2>1, <2>2 DEF PacketQueues
<1>2. CASE pc = "signal"
  <2>1. /\ Signal /\ UNCHANGED <<pktq, is, cb>>
        /\ next = IF opt.kind = "audio" THEN "device" ELSE "join"
    BY <1>2 DEF Closing
  <2>2. asleep' \in Sleepers
    BY <2>1, SignalShape DEF Signal
  <2> QED BY <1>0, <1>2, <2>1, <2>2 DEF PacketQueues
<1>3. CASE pc = "device"
  BY <1>0, <1>3 DEF Closing, Callbacks, PacketQueues
<1>4. CASE pc = "join"
  <2>1. pktq' = [pktq EXCEPT !.pkts = <<>>] /\ next = "give_up" /\ UNCHANGED <<asleep, is, cb>>
    BY <1>4 DEF Closing, packet_queue_flush
  <2> QED BY <1>0, <1>4, <2>1, EmptySeq DEF PacketQueues
<1>5. CASE pc = "give_up"
  BY <1>0, <1>5 DEF Closing, Flags, PacketQueues
<1> QED BY <1>1, <1>2, <1>3, <1>4, <1>5 DEF ClosePcs

LEMMA ReadCloseQueues == QueueInv /\ ReadClose => QueueInv'
<1> SUFFICES ASSUME QueueInv, ReadClose PROVE QueueInv'
  OBVIOUS
<1>1. TypeOK /\ UNCHANGED <<opt, keys, shown, dec, mn>>
  BY DEF ReadClose, user, QueueInv
<1>2. CASE rd.pc = "close" /\ rd' = [rd EXCEPT !.pc = "closed"] /\ UNCHANGED <<queues, is, cb>>
  <2>1. /\ UNCHANGED <<pktq, frameq, cb>> /\ asleep' \in Sleepers /\ is' \in Flags
        /\ rd' \in ReadThreads /\ rd'.pos <= opt.FileLen /\ rd'.pc # "seek_put"
    BY <1>1, <1>2 DEF queues, TypeOK, ReadThreads
  <2> QED BY <1>1, <2>1, ReaderMoves
<1>3. CASE rd.pc \in ClosePcs /\ \E next \in ClosePcs \cup {"closed"} :
             Closing(rd.pc, next) /\ rd' = [rd EXCEPT !.pc = next]
  <2>1. PICK next \in ClosePcs \cup {"closed"} :
               Closing(rd.pc, next) /\ rd' = [rd EXCEPT !.pc = next]
    BY <1>3
  <2>2. /\ frameq' = frameq /\ asleep' \in Sleepers /\ is' \in Flags /\ cb' \in Callbacks
        /\ cb'.pc = cb.pc /\ cb'.left = cb.left
        /\ pktq' \in PacketQueues /\ pktq'.serial = pktq.serial
        /\ pktq'.pkts = pktq.pkts \/ pktq'.pkts = <<>>
        /\ pktq.abort_request => pktq'.abort_request
    BY <1>3, <2>1, ClosingShape
  <2>3. rd' \in ReadThreads /\ rd'.pos <= opt.FileLen /\ rd'.pc # "seek_put"
    BY <1>1, <2>1 DEF TypeOK, ReadThreads, ClosePcs
  <2>4. TypeOK'
    BY <1>1, <2>2, <2>3 DEF TypeOK
  <2>5. Kinds' /\ Ring'
    BY <1>1, <2>2, <2>4, SameFrames DEF Reserved
  <2>6. PacketsCurrent' /\ SeekingFlushed'
    BY <2>2, <2>3, FewerPackets
  <2>7. Serials'
    BY <1>1, <2>2, <2>6 DEF QueueInv, Serials, SeekingFlushed
  <2> QED BY <2>4, <2>5, <2>7 DEF QueueInv
<1> QED BY <1>2, <1>3 DEF ReadClose

LEMMA CycleCloseQueues == QueueInv /\ CycleClose => QueueInv'
<1> SUFFICES ASSUME QueueInv, CycleClose PROVE QueueInv'
  OBVIOUS
<1>1. TypeOK /\ UNCHANGED <<opt, keys, shown, dec, rd>> /\ mn.pc \in ClosePcs
  BY DEF CycleClose, user, QueueInv
<1>2. PICK next \in ClosePcs \cup {"closed"} :
             Closing(mn.pc, next) /\ mn' = [mn EXCEPT !.pc = next]
  BY DEF CycleClose
<1>3. /\ frameq' = frameq /\ asleep' \in Sleepers /\ is' \in Flags /\ cb' \in Callbacks
      /\ cb'.pc = cb.pc /\ cb'.left = cb.left
      /\ pktq' \in PacketQueues /\ pktq'.serial = pktq.serial
      /\ pktq'.pkts = pktq.pkts \/ pktq'.pkts = <<>>
      /\ pktq'.abort_request = (pktq.abort_request \/ mn.pc = "close")
      /\ mn.pc = "join" => pktq'.pkts = <<>>
      /\ next = "give_up" <=> mn.pc = "join"
      /\ next = "closed" <=> mn.pc = "give_up"
  BY <1>1, <1>2, ClosingShape
<1>4. mn' \in MainThreads /\ mn'.pc = next
  BY <1>1, <1>2 DEF TypeOK, MainThreads, ClosePcs
<1>5. TypeOK'
  BY <1>1, <1>3, <1>4 DEF TypeOK
<1>6. Kinds' /\ Ring'
  <2>1. mn'.pc \notin {"refresh", "display", "over", "subtitle"}
    BY <1>2, <1>4 DEF ClosePcs
  <2> QED BY <1>1, <1>3, <1>5, <2>1, SameFrames DEF Reserved
<1>7. PacketsCurrent' /\ SeekingFlushed'
  BY <1>1, <1>3, FewerPackets
<1>8. pktq'.abort_request
  BY <1>1, <1>3 DEF QueueInv, Serials, ClosePcs
<1>9. mn'.pc \in {"give_up", "closed"} => pktq'.pkts = <<>>
  <2>1. CASE mn.pc = "join"
    BY <1>3, <2>1
  <2>2. CASE mn.pc = "give_up"
    <3>1. pktq.pkts = <<>>
      BY <2>2 DEF QueueInv, Serials
    <3> QED BY <1>3, <3>1
  <2> QED BY <1>3, <1>4, <2>1, <2>2
<1>10. Serials'
  BY <1>1, <1>7, <1>8, <1>9 DEF Serials, SeekingFlushed
<1> QED BY <1>5, <1>6, <1>10 DEF QueueInv

LEMMA NewThreadShape ==
  ASSUME TypeOK, opt' = opt
  PROVE  NewThread(dec.gen + 1) \in Decoders /\ NewDevice \in Callbacks
<1>1. 0 \in Slots
  BY QueueAssumption DEF Slots
<1>2. <<>> \in Seq(Nat) /\ dec.gen + 1 \in Nat
  BY DEF TypeOK, Decoders
<1>3. FirstPc \in {"peek", "decode"}
  BY DEF FirstPc
<1> QED BY <1>1, <1>2, <1>3 DEF NewThread, NewDevice, Decoders, Callbacks

\* The packet queue of a stream that is opened again holds one flush packet.
LEMMA Reopened ==
  ASSUME QueueInv, CycleOpen
  PROVE  LET flush == [what |-> "flush", n |-> 0, serial |-> pktq.serial + 1]
         IN /\ pktq' \in PacketQueues /\ pktq'.serial = pktq.serial + 1
            /\ pktq.serial \in Nat /\ pktq'.pkts = <<flush>>
<1> DEFINE flush == [what |-> "flush", n |-> 0, serial |-> pktq.serial + 1]
<1>1. TypeOK /\ mn.pc = "closed"
  BY DEF CycleOpen, QueueInv
<1>2. pktq.pkts = <<>> /\ pktq.serial \in Nat
  BY <1>1 DEF QueueInv, Serials, TypeOK, PacketQueues
<1>3. flush \in Packets /\ <<flush>> \in Seq(Packets) /\ Append(<<>>, flush) = <<flush>>
  BY <1>2 DEF Packets
<1> DEFINE q == [pktq EXCEPT !.abort_request = FALSE]
<1>4. /\ q \in PacketQueues /\ q.serial = pktq.serial /\ q.pkts = <<>>
      /\ q.abort_request = FALSE
  BY <1>1, <1>2 DEF TypeOK, PacketQueues
<1>5. packet_queue_put(q, Flush)
        = [q EXCEPT !.serial = q.serial + 1,
                    !.pkts = Append(@, [what |-> Flush.what, n |-> Flush.n, serial |-> q.serial + 1])]
  BY <1>4 DEF packet_queue_put
<1>6. pktq' = packet_queue_put(q, Flush)
  BY DEF CycleOpen, packet_queue_start
<1> HIDE DEF q
<1>7. pktq' = [q EXCEPT !.serial = pktq.serial + 1, !.pkts = <<flush>>]
  BY <1>3, <1>4, <1>5, <1>6 DEF Flush
<1> HIDE DEF flush
<1>8. pktq' \in PacketQueues /\ pktq'.serial = pktq.serial + 1 /\ pktq'.pkts = <<flush>>
  <2>1. pktq.serial + 1 \in Nat
    BY <1>2
  <2> QED BY <1>3, <1>4, <1>7, <2>1 DEF PacketQueues
<1> QED BY <1>2, <1>8 DEF flush

LEMMA CycleOpenQueues == QueueInv /\ CycleOpen => QueueInv'
<1> SUFFICES ASSUME QueueInv, CycleOpen PROVE QueueInv'
  OBVIOUS
<1>1. /\ TypeOK /\ UNCHANGED <<opt, keys, shown, rd, frameq, asleep>>
      /\ mn' = [mn EXCEPT !.pc = "loop"] /\ is' = [is EXCEPT !.stream = TRUE]
      /\ dec' = NewThread(dec.gen + 1) /\ cb' = NewDevice
  BY DEF CycleOpen, user, QueueInv
<1>2. pktq' \in PacketQueues /\ \A i \in DOMAIN pktq'.pkts : pktq'.pkts[i].what = "flush"
  BY Reopened
<1>3. /\ mn' \in MainThreads /\ mn'.pc = "loop" /\ is' \in Flags
      /\ dec' \in Decoders /\ cb' \in Callbacks /\ cb'.pc = "idle" /\ cb'.left = 0
      /\ dec'.pc # "alloc" /\ ~Reserved'
  BY <1>1, NewThreadShape DEF TypeOK, MainThreads, Flags, Reserved, NewThread, NewDevice, FirstPc
<1>4. TypeOK'
  BY <1>1, <1>2, <1>3 DEF TypeOK
<1>5. Kinds' /\ Ring'
  BY <1>1, <1>3, <1>4, SameFrames
<1>6. Serials'
  BY <1>2, <1>3 DEF Serials, PacketsCurrent
<1> QED BY <1>4, <1>5, <1>6 DEF QueueInv

LEMMA PressQueues == QueueInv /\ (\E k \in AllKeys : Press(k)) => QueueInv'
<1> SUFFICES ASSUME QueueInv, NEW k \in AllKeys, Press(k) PROVE QueueInv'
  OBVIOUS
<1>1. /\ UNCHANGED <<opt, pktq, frameq, asleep, is, rd, dec, mn, cb, shown>> /\ keys' \subseteq keys
  BY DEF Press, queues
<1>2. TypeOK'
  BY <1>1 DEF QueueInv, TypeOK
<1>3. Kinds' /\ Ring' /\ Serials'
  BY <1>1 DEF QueueInv, Kinds, Ring, Reserved, Serials, PacketsCurrent
<1> QED BY <1>2, <1>3 DEF QueueInv

-----------------------------------------------------------------------------
(* Actions on the frame queue *)

LEMMA FrameMoves ==
  ASSUME QueueInv, UNCHANGED <<opt, pktq, rd, keys>>, IsRing(frameq'),
         frameq'.keep_last = frameq.keep_last, asleep' \in Sleepers, is' \in Flags,
         dec' \in Decoders, mn' \in MainThreads, cb' \in Callbacks, shown' \in Nat \X Nat,
         dec'.pc = "alloc" => opt.kind = "video",
         mn'.pc \in {"refresh", "display"} => opt.kind = "video",
         mn'.pc \in {"over", "subtitle"} => opt.kind = "subtitle",
         cb'.pc # "idle" \/ cb'.left # 0 => opt.kind = "audio",
         mn'.pc = mn.pc \/ mn'.pc \notin {"signal", "device", "join", "give_up", "closed"},
         Reserved' => frameq'.size < MaxSize,
         mn'.pc = "display" => frameq'.size > frameq'.rindex_shown
  PROVE  QueueInv'
<1>1. TypeOK'
  BY DEF QueueInv, TypeOK, IsRing
<1>2. Kinds'
  BY DEF QueueInv, Kinds
<1>3. Ring'
  BY DEF Ring, IsRing
<1>4. Serials'
  BY DEF QueueInv, Serials, PacketsCurrent
<1> QED BY <1>1, <1>2, <1>3, <1>4 DEF QueueInv

\* A slot is written to, and nothing else of the ring.
LEMMA SlotWritten ==
  ASSUME QueueInv, NEW slot \in Frames, NEW f,
         f = [frameq EXCEPT !.queue = [@ EXCEPT ![frameq.windex] = slot]]
  PROVE  /\ IsRing(f) /\ f.keep_last = frameq.keep_last /\ f.size = frameq.size
         /\ f.rindex = frameq.rindex /\ f.rindex_shown = frameq.rindex_shown
         /\ f.queue = [frameq.queue EXCEPT ![frameq.windex] = slot] /\ f.windex = frameq.windex
<1>1. frameq \in FrameQueues /\ frameq.queue \in [Slots -> Frames]
  BY DEF QueueInv, TypeOK, FrameQueues
<1>2. /\ f \in FrameQueues /\ f.keep_last = frameq.keep_last /\ f.size = frameq.size
      /\ f.rindex = frameq.rindex /\ f.rindex_shown = frameq.rindex_shown
      /\ f.windex = frameq.windex /\ f.queue = [frameq.queue EXCEPT ![frameq.windex] = slot]
  BY <1>1 DEF FrameQueues
<1>3. f.windex = Slot(f, f.size) /\ f.size \in f.rindex_shown .. MaxSize
  BY <1>2 DEF QueueInv, Ring, Slot
<1> QED BY <1>2, <1>3 DEF IsRing

LEMMA RingNow == QueueInv => IsRing(frameq)
BY DEF QueueInv, TypeOK, Ring, IsRing

\* What queue_picture, alloc_picture and the queueing of a frame write into the slot at windex.
Requesting(slot, old) == /\ slot.allocated = FALSE /\ slot.serial = old.serial
                         /\ slot.n = old.n /\ slot.drawn = old.drawn
Queueing(slot, old) == /\ slot.serial = dec.pkt_serial /\ slot.n = dec.frame
                       /\ slot.allocated = old.allocated /\ slot.drawn = old.drawn
Picturing(slot, old) == /\ slot.serial = old.serial /\ slot.n = old.n
                        /\ slot.allocated = TRUE /\ slot.drawn = <<dec.pkt_serial, dec.frame>>

LEMMA SlotWrites ==
  ASSUME QueueInv
  PROVE  LET old == frameq.queue[frameq.windex]
         IN /\ \E slot \in Frames : /\ Requesting(slot, old)
                 /\ Reserve(frameq) = [frameq EXCEPT !.queue = [@ EXCEPT ![frameq.windex] = slot]]
            /\ \E slot \in Frames : /\ Queueing(slot, old)
                 /\ Filled_in = [frameq EXCEPT !.queue = [@ EXCEPT ![frameq.windex] = slot]]
            /\ \E slot \in Frames : /\ Picturing(slot, old)
                 /\ [frameq EXCEPT !.queue[frameq.windex].allocated = TRUE,
                                   !.queue[frameq.windex].drawn = <<dec.pkt_serial, dec.frame>>]
                      = [frameq EXCEPT !.queue = [@ EXCEPT ![frameq.windex] = slot]]
<1> DEFINE w == frameq.windex
           old == frameq.queue[w]
<1>1. /\ frameq \in FrameQueues /\ w \in Slots /\ frameq.queue \in [Slots -> Frames]
      /\ old \in Frames /\ dec.pkt_serial \in Nat /\ dec.frame \in Nat
  BY DEF QueueInv, TypeOK, FrameQueues, Decoders
<1>2. \E slot \in Frames : /\ Requesting(slot, old)
        /\ Reserve(frameq) = [frameq EXCEPT !.queue = [@ EXCEPT ![w] = slot]]
  <2> DEFINE slot == [old EXCEPT !.allocated = FALSE]
  <2>1. slot \in Frames /\ Requesting(slot, old)
    BY <1>1 DEF Frames, Requesting
  <2>2. Reserve(frameq) = [frameq EXCEPT !.queue = [@ EXCEPT ![w] = slot]]
    BY <1>1 DEF Reserve, FrameQueues
  <2> QED BY <2>1, <2>2
<1>3. \E slot \in Frames : /\ Queueing(slot, old)
        /\ Filled_in = [frameq EXCEPT !.queue = [@ EXCEPT ![w] = slot]]
  <2> DEFINE slot == [old EXCEPT !.serial = dec.pkt_serial, !.n = dec.frame]
  <2>1. slot \in Frames /\ Queueing(slot, old)
    BY <1>1 DEF Frames, Queueing
  <2>2. Filled_in = [frameq EXCEPT !.queue = [@ EXCEPT ![w] = slot]]
    BY <1>1 DEF Filled_in, FrameQueues, Frames
  <2> QED BY <2>1, <2>2
<1>4. \E slot \in Frames : /\ Picturing(slot, old)
        /\ [frameq EXCEPT !.queue[w].allocated = TRUE, !.queue[w].drawn = <<dec.pkt_serial, dec.frame>>]
             = [frameq EXCEPT !.queue = [@ EXCEPT ![w] = slot]]
  <2> DEFINE slot == [old EXCEPT !.allocated = TRUE, !.drawn = <<dec.pkt_serial, dec.frame>>]
  <2>1. slot \in Frames /\ Picturing(slot, old)
    BY <1>1 DEF Frames, Picturing
  <2>2. [frameq EXCEPT !.queue[w].allocated = TRUE, !.queue[w].drawn = <<dec.pkt_serial, dec.frame>>]
          = [frameq EXCEPT !.queue = [@ EXCEPT ![w] = slot]]
    BY <1>1 DEF FrameQueues, Frames
  <2> QED BY <2>1, <2>2
<1> QED BY <1>2, <1>3, <1>4

\* Queueing a decoded frame: what a push gives.
LEMMA PushFilled ==
  ASSUME QueueInv, frameq.size < MaxSize
  PROVE  LET g == frame_queue_push(Filled_in)
         IN /\ IsRing(g) /\ g.keep_last = frameq.keep_last /\ g.size = frameq.size + 1
            /\ g.rindex = frameq.rindex /\ g.rindex_shown = frameq.rindex_shown
            /\ \A i \in Slots \ {frameq.windex} : g.queue[i] = frameq.queue[i]
<1>1. PICK slot \in Frames :
             Filled_in = [frameq EXCEPT !.queue = [@ EXCEPT ![frameq.windex] = slot]]
  BY SlotWrites
<1>2. /\ IsRing(Filled_in) /\ Filled_in.keep_last = frameq.keep_last
      /\ Filled_in.size = frameq.size /\ Filled_in.rindex = frameq.rindex
      /\ Filled_in.rindex_shown = frameq.rindex_shown
      /\ Filled_in.queue = [frameq.queue EXCEPT ![frameq.windex] = slot]
  BY <1>1, SlotWritten
<1>3. \A i \in Slots \ {frameq.windex} : Filled_in.queue[i] = frameq.queue[i]
  BY <1>2 DEF QueueInv, TypeOK, FrameQueues
<1> QED BY <1>2, <1>3, PushShape

LEMMA PictureQueues == QueueInv /\ (QueuePicture \/ PushPicture) => QueueInv'
<1> SUFFICES ASSUME QueueInv, QueuePicture \/ PushPicture PROVE QueueInv'
  OBVIOUS
<1>1. /\ TypeOK /\ Kinds /\ Ring /\ UNCHANGED <<opt, pktq, is, rd, mn, cb, shown, keys>>
      /\ opt.kind = "video"
  BY DEF QueuePicture, PushPicture, Thread, user, QueueInv, Kinds
<1>2. CASE frameq' = frameq /\ (DecGoes("exit") \/ DecSleeps("fq"))
  <2>1. CASE DecGoes("exit")
    <3>1. /\ asleep' \in Sleepers /\ dec' \in Decoders /\ dec'.pc = "exit" /\ ~Reserved'
      BY <1>1, <2>1 DEF DecGoes, TypeOK, Decoders, Reserved
    <3> QED BY <1>1, <1>2, <3>1, DecoderMoves
  <2>2. CASE DecSleeps("fq")
    <3>1. /\ asleep' \in Sleepers /\ dec' \in Decoders /\ IsRing(frameq')
          /\ Reserved' => frameq'.size < MaxSize
      BY <1>1, <1>2, <2>2, RingNow DEF DecSleeps, TypeOK, Sleepers, Reserved, Ring
    <3> QED BY <1>1, <1>2, <2>2, <3>1, FrameMoves DEF DecSleeps, TypeOK, Kinds, Ring
  <2> QED BY <1>2, <2>1, <2>2
<1>3. CASE QueuePicture /\ Writable /\ DecGoes("alloc") /\ frameq' = Reserve(frameq)
  <2>1. PICK slot \in Frames :
               Reserve(frameq) = [frameq EXCEPT !.queue = [@ EXCEPT ![frameq.windex] = slot]]
    BY SlotWrites
  <2>2. /\ IsRing(frameq') /\ frameq'.keep_last = frameq.keep_last
        /\ frameq'.size = frameq.size /\ frameq'.rindex_shown = frameq.rindex_shown
    BY <1>3, <2>1, SlotWritten
  <2>3. frameq.size < MaxSize
    BY <1>1, <1>3, QueueAssumption DEF Writable, frame_queue_full, TypeOK, FrameQueues
  <2>4. dec' \in Decoders /\ asleep' \in Sleepers
    BY <1>1, <1>3 DEF DecGoes, TypeOK, Decoders
  <2> QED BY <1>1, <2>2, <2>3, <2>4, FrameMoves DEF TypeOK, Kinds, Ring
<1>4. CASE dec.pc = "alloc" /\ DecGoes("decode") /\ frameq' = frame_queue_push(Filled_in)
  <2>1. frameq.size < MaxSize
    BY <1>1, <1>4 DEF Ring, Reserved
  <2>2. /\ IsRing(frameq') /\ frameq'.keep_last = frameq.keep_last
        /\ frameq'.size = frameq.size + 1 /\ frameq'.rindex_shown = frameq.rindex_shown
    BY <1>4, <2>1, PushFilled
  <2>3. dec' \in Decoders /\ asleep' \in Sleepers /\ dec'.pc = "decode" /\ ~Reserved'
    BY <1>1, <1>4 DEF DecGoes, TypeOK, Decoders, Reserved
  <2>4. mn'.pc = "display" => frameq'.size > frameq'.rindex_shown
    BY <1>1, <2>2 DEF Ring, TypeOK, FrameQueues
  <2> QED BY <1>1, <2>2, <2>3, <2>4, FrameMoves DEF TypeOK, Kinds
<1> QED BY <1>2, <1>3, <1>4 DEF QueuePicture, PushPicture, NotWritable, Thread

LEMMA SamplesQueues == QueueInv /\ (QueueSamples \/ QueueSubtitle) => QueueInv'
<1> SUFFICES ASSUME QueueInv, QueueSamples \/ QueueSubtitle PROVE QueueInv'
  OBVIOUS
<1>1. /\ TypeOK /\ Kinds /\ Ring /\ UNCHANGED <<opt, pktq, is, rd, mn, cb, shown, keys>>
      /\ dec.pc = "queue" /\ opt.kind \in {"audio", "subtitle"}
  BY DEF QueueSamples, QueueSubtitle, Thread, user, QueueInv
<1>2. CASE frameq' = frameq /\ NotWritable /\ opt.kind = "audio"
  <2>1. /\ asleep' \in Sleepers /\ dec' \in Decoders /\ dec'.pc # "alloc" /\ ~Reserved'
    BY <1>1, <1>2 DEF NotWritable, DecGoes, DecSleeps, TypeOK, Decoders, Sleepers, Reserved
  <2> QED BY <1>1, <1>2, <2>1, DecoderMoves
<1>3. CASE /\ \/ frameq' = frame_queue_push(Filled_in) /\ CondSignal("fq")
              \/ UNCHANGED <<frameq, asleep>>
           /\ \/ opt.kind = "audio" /\ Writable /\ dec' = [dec EXCEPT !.pc = "decode"]
              \/ opt.kind = "subtitle" /\ dec' = [dec EXCEPT !.pc = "peek"]
  <2>1. frameq.size < MaxSize
    BY <1>1, <1>3, QueueAssumption
    DEF Ring, Reserved, Writable, frame_queue_full, TypeOK, FrameQueues
  <2>2. /\ IsRing(frameq') /\ frameq'.keep_last = frameq.keep_last
        /\ frameq'.size \in {frameq.size, frameq.size + 1}
        /\ frameq'.rindex_shown = frameq.rindex_shown
    BY <1>3, <2>1, PushFilled, RingNow
  <2>3. asleep' \in Sleepers
    BY <1>1, <1>3, SignalShape DEF TypeOK
  <2>4. dec' \in Decoders /\ dec'.pc # "alloc" /\ ~Reserved'
    BY <1>1, <1>3 DEF TypeOK, Decoders, Reserved
  <2>5. mn'.pc = "display" => frameq'.size > frameq'.rindex_shown
    BY <1>1, <2>2 DEF Ring, TypeOK, FrameQueues
  <2> QED BY <1>1, <2>2, <2>3, <2>4, <2>5, FrameMoves DEF TypeOK, Kinds
<1> QED BY <1>2, <1>3 DEF QueueSamples, QueueSubtitle

\* frame_queue_next as the main thread and the callback call it: there is a frame to take.
LEMMA NextFrames ==
  ASSUME QueueInv, frame_queue_nb_remaining(frameq) > 0
  PROVE  LET g == frame_queue_next(frameq)
         IN /\ IsRing(g) /\ g.keep_last = frameq.keep_last
            /\ g.size \in {frameq.size, frameq.size - 1} /\ g.size \in Nat
            /\ frameq.size \in Nat /\ frameq.size <= MaxSize
  <1>1. frameq.size \in Nat /\ frameq.size <= MaxSize
    BY QueueAssumption DEF QueueInv, TypeOK, FrameQueues, Ring
  <1>2. IsRing(frameq)
    BY RingNow
  <1> QED BY <1>1, <1>2, NextShape DEF IsRing, FrameQueues

\* What gives up frames keeps the invariant when its thread's state does.
LEMMA NextMoves ==
  ASSUME QueueInv, frame_queue_nb_remaining(frameq) > 0, frameq' = frame_queue_next(frameq),
         UNCHANGED <<opt, pktq, rd, dec, keys>>,
         asleep' \in Sleepers, is' \in Flags, mn' \in MainThreads, cb' \in Callbacks,
         shown' \in Nat \X Nat,
         mn'.pc = mn.pc \/ mn'.pc = "loop", mn'.pc # "display",
         cb'.pc # "idle" \/ cb'.left # 0 => opt.kind = "audio"
  PROVE  QueueInv'
<1>1. /\ IsRing(frameq') /\ frameq'.keep_last = frameq.keep_last
      /\ frameq'.size \in {frameq.size, frameq.size - 1} /\ frameq'.size \in Nat
      /\ frameq.size \in Nat
  BY NextFrames
<1>2. /\ dec' \in Decoders /\ (dec'.pc = "alloc" => opt.kind = "video")
      /\ mn'.pc \in {"refresh", "display"} => opt.kind = "video"
      /\ mn'.pc \in {"over", "subtitle"} => opt.kind = "subtitle"
  BY DEF QueueInv, TypeOK, Kinds
<1>3. Reserved' => frameq'.size < MaxSize
  BY <1>1, QueueAssumption DEF QueueInv, Ring, Reserved
<1> QED BY <1>1, <1>2, <1>3, FrameMoves

LEMMA MainTakes == QueueInv /\ (RefreshSkip \/ Display \/ RefreshSubtitles) => QueueInv'
<1> SUFFICES ASSUME QueueInv, RefreshSkip \/ Display \/ RefreshSubtitles PROVE QueueInv'
  OBVIOUS
<1>1. TypeOK /\ Kinds /\ Ring /\ UNCHANGED <<opt, pktq, rd, dec, cb, keys>>
  BY DEF RefreshSkip, Display, RefreshSubtitles, user, QueueInv
<1>2. frameq.queue[frame_queue_peek(frameq)] \in Frames
  BY <1>1, PeekInRing
<1>3. /\ frameq.size \in Nat /\ frameq.rindex_shown \in 0 .. 1
      /\ frameq.size >= frameq.rindex_shown
  BY <1>1, QueueAssumption DEF TypeOK, FrameQueues, Ring
<1>4. cb' \in Callbacks /\ (cb'.pc # "idle" \/ cb'.left # 0 => opt.kind = "audio")
  BY <1>1 DEF TypeOK, Kinds
<1>5. CASE RefreshSkip
  <2>1. frame_queue_nb_remaining(frameq) > 0
    BY <1>3, <1>5 DEF RefreshSkip, frame_queue_nb_remaining
  <2>2. frameq' = frame_queue_next(frameq) /\ asleep' \in Sleepers
    BY <1>1, <1>5, SignalShape DEF RefreshSkip, NextFrame, TypeOK
  <2>3. /\ is' \in Flags /\ shown' \in Nat \X Nat /\ mn' \in MainThreads /\ mn'.pc = mn.pc
        /\ mn.pc = "refresh"
    <3>1. is' = is \/ is' = Clocked
      BY <1>5 DEF RefreshSkip
    <3>2. Clocked \in Flags
      BY <1>1, <1>2 DEF Clocked, vp, TypeOK, Flags, Frames
    <3>3. mn' = [mn EXCEPT !.redisplay = FALSE] /\ mn.pc = "refresh" /\ shown' = shown
      BY <1>5 DEF RefreshSkip, user
    <3> QED BY <1>1, <3>1, <3>2, <3>3 DEF TypeOK, MainThreads
  <2> QED BY <1>1, <1>4, <2>1, <2>2, <2>3, NextMoves
<1>6. CASE Display
  <2>1. frame_queue_nb_remaining(frameq) > 0
    BY <1>1, <1>3, <1>6 DEF Display, frame_queue_nb_remaining, Ring
  <2>2. frameq' = frame_queue_next(frameq) /\ asleep' \in Sleepers
    BY <1>1, <1>6, SignalShape DEF Display, NextFrame, TypeOK
  <2>3. (is.paused \/ is.step) \in BOOLEAN
    OBVIOUS
  <2>4. /\ is' \in Flags /\ shown' \in Nat \X Nat /\ mn' \in MainThreads /\ mn'.pc = "loop"
    BY <1>1, <1>2, <1>6, <2>3
    DEF Display, Displayed, vp, TypeOK, Flags, MainThreads, Frames, user
  <2> QED BY <1>1, <1>4, <2>1, <2>2, <2>4, NextMoves
<1>7. CASE RefreshSubtitles
  <2>1. /\ is' \in Flags /\ shown' \in Nat \X Nat /\ is' = is /\ shown' = shown
        /\ mn.pc = "over" /\ opt.kind = "subtitle"
    BY <1>1, <1>7 DEF RefreshSubtitles, user, TypeOK, Kinds
  <2>2. CASE /\ frame_queue_nb_remaining(frameq) > 0
             /\ frameq' = frame_queue_next(frameq) /\ CondSignal("fq") /\ UNCHANGED mn
    <3>1. asleep' \in Sleepers /\ mn' \in MainThreads /\ mn'.pc = mn.pc
      BY <1>1, <2>2, SignalShape DEF TypeOK
    <3> QED BY <1>1, <1>4, <2>1, <2>2, <3>1, NextMoves
  <2>3. CASE mn' = [mn EXCEPT !.pc = "subtitle"] /\ UNCHANGED <<frameq, asleep>>
    <3>1. mn' \in MainThreads /\ mn'.pc = "subtitle"
      BY <1>1, <2>3 DEF TypeOK, MainThreads
    <3> QED BY <1>1, <2>1, <2>3, <3>1, MainMoves
  <2> QED BY <1>7, <2>2, <2>3 DEF RefreshSubtitles
<1> QED BY <1>5, <1>6, <1>7

LEMMA TakeQueues == QueueInv /\ TakeSamples => QueueInv'
<1> SUFFICES ASSUME QueueInv, TakeSamples PROVE QueueInv'
  OBVIOUS
<1>1. /\ TypeOK /\ Kinds /\ UNCHANGED <<opt, pktq, is, rd, dec, mn, shown, keys>>
      /\ opt.kind = "audio"
  BY DEF TakeSamples, Callback, user, QueueInv
<1>2. CASE UNCHANGED frameq /\ (cb' = cb \/ CbGoes("idle"))
  <2>1. cb' \in Callbacks /\ asleep' \in Sleepers
    <3>1. cb' \in Callbacks
      BY <1>1, <1>2 DEF CbGoes, TypeOK, Callbacks
    <3>2. asleep' = [asleep EXCEPT !.cb = "fq"] \/ asleep' = asleep \/ CondSignal("fq")
      BY DEF TakeSamples
    <3> QED BY <1>1, <3>1, <3>2, SignalShape DEF TypeOK, Sleepers
  <2>2. shown' \in Nat \X Nat
    BY <1>1 DEF TypeOK
  <2> QED BY <1>1, <1>2, <2>1, <2>2, CallbackMoves
<1>3. CASE /\ frame_queue_nb_remaining(frameq) > 0
           /\ cb' = [cb EXCEPT !.pc = "choose", !.slot = Readable]
           /\ frameq' = frame_queue_next(frameq)
           /\ UNCHANGED asleep \/ CondSignal("fq")
  <2>1. frame_queue_peek(frameq) \in Slots
    <3>1. frameq.rindex \in 0 .. MaxSize - 1 /\ frameq.rindex_shown \in 0 .. MaxSize
      BY <1>1, QueueAssumption DEF TypeOK, FrameQueues, Slots
    <3> QED BY <3>1, Wrap DEF frame_queue_peek, Slots
  <2>2. cb' \in Callbacks /\ asleep' \in Sleepers
    BY <1>1, <1>3, <2>1, SignalShape DEF TypeOK, Callbacks, Readable
  <2>3. /\ is' \in Flags /\ mn' \in MainThreads /\ shown' \in Nat \X Nat /\ mn'.pc = mn.pc
        /\ mn'.pc # "display"
    BY <1>1 DEF TypeOK, Kinds
  <2> QED BY <1>1, <1>3, <2>2, <2>3, NextMoves
<1> QED BY <1>2, <1>3 DEF TakeSamples

LEMMA RefreshQueues == QueueInv /\ (Refresh \/ alloc_picture) => QueueInv'
<1> SUFFICES ASSUME QueueInv, Refresh \/ alloc_picture PROVE QueueInv'
  OBVIOUS
<1>1. /\ TypeOK /\ Kinds /\ Ring /\ UNCHANGED <<opt, pktq, is, rd, dec, cb, shown, keys>>
  BY DEF Refresh, alloc_picture, user, QueueInv
<1>2. CASE Refresh
  <2>1. /\ opt.kind = "video" /\ asleep' = asleep /\ mn' \in MainThreads /\ mn'.pc = "refresh"
    BY <1>1, <1>2 DEF Refresh, TypeOK, MainThreads, Flags
  <2>2. frameq' = frameq \/ frameq' = [frameq EXCEPT !.rindex_shown = 0]
    BY <1>2 DEF Refresh, frame_queue_prev
  <2>3. /\ frameq' \in FrameQueues /\ frameq'.keep_last = frameq.keep_last
        /\ frameq'.size = frameq.size /\ frameq'.rindex = frameq.rindex
        /\ frameq'.windex = frameq.windex /\ frameq'.rindex_shown \in {0, frameq.rindex_shown}
    BY <1>1, <2>2 DEF TypeOK, FrameQueues
  <2>4. IsRing(frameq')
    <3>1. frameq'.windex = Slot(frameq', frameq'.size)
      BY <1>1, <2>3 DEF Ring, Slot
    <3>2. frameq'.size \in frameq'.rindex_shown .. MaxSize
      BY <1>1, <2>3, QueueAssumption DEF Ring, TypeOK, FrameQueues
    <3> QED BY <2>3, <3>1, <3>2 DEF IsRing
  <2>5. Reserved' => frameq'.size < MaxSize
    BY <1>1, <2>3 DEF Reserved, Ring
  <2> QED BY <1>1, <2>1, <2>3, <2>4, <2>5, FrameMoves DEF TypeOK, Kinds
<1>3. CASE alloc_picture
  <2>1. PICK slot \in Frames :
               frameq' = [frameq EXCEPT !.queue = [@ EXCEPT ![frameq.windex] = slot]]
    BY <1>3, SlotWrites DEF alloc_picture
  <2>2. /\ IsRing(frameq') /\ frameq'.keep_last = frameq.keep_last
        /\ frameq'.size = frameq.size /\ frameq'.rindex_shown = frameq.rindex_shown
    BY <2>1, SlotWritten
  <2>3. asleep' \in Sleepers /\ mn' = mn
    BY <1>1, <1>3, SignalShape DEF alloc_picture, TypeOK
  <2>4. Reserved' => frameq'.size < MaxSize
    BY <1>1, <2>2 DEF Reserved, Ring
  <2> QED BY <1>1, <2>2, <2>3, <2>4, FrameMoves DEF TypeOK, Kinds, Ring
<1> QED BY <1>2, <1>3

-----------------------------------------------------------------------------
(* Every step keeps QueueInv. *)

\* The queue holds the flush packet of its first serial.
LEMMA FirstPacket ==
  ASSUME Init
  PROVE  /\ pktq \in PacketQueues /\ pktq.serial = 1 /\ ~pktq.abort_request
         /\ pktq.pkts = <<[what |-> "flush", n |-> 0, serial |-> 1]>>
<1> DEFINE flush == [what |-> "flush", n |-> 0, serial |-> 1]
           q == [packet_queue_init EXCEPT !.abort_request = FALSE]
<1>1. flush \in Packets /\ Append(<<>>, flush) = <<flush>> /\ <<flush>> \in Seq(Packets)
  BY DEF Packets
<1>2. q \in PacketQueues /\ q.pkts = <<>> /\ q.serial = 0 /\ q.abort_request = FALSE
  <2>1. packet_queue_init \in PacketQueues
    BY EmptySeq DEF packet_queue_init, PacketQueues
  <2> QED BY <2>1 DEF packet_queue_init, PacketQueues
<1>3. pktq = packet_queue_put(q, Flush)
  BY DEF Init, packet_queue_start
<1> HIDE DEF q
<1>4. packet_queue_put(q, Flush)
        = [q EXCEPT !.serial = q.serial + 1,
                    !.pkts = Append(q.pkts, [what |-> "flush", n |-> 0, serial |-> q.serial + 1])]
  BY <1>2 DEF packet_queue_put, Flush
<1> HIDE DEF flush
<1>5. pktq = [q EXCEPT !.serial = 1, !.pkts = <<flush>>]
  BY <1>1, <1>2, <1>3, <1>4 DEF flush
<1>6. pktq \in PacketQueues /\ pktq.serial = 1 /\ ~pktq.abort_request /\ pktq.pkts = <<flush>>
  BY <1>1, <1>2, <1>5 DEF PacketQueues
<1> QED BY <1>6 DEF flush

LEMMA QueueInit == Init => QueueInv
<1> SUFFICES ASSUME Init PROVE QueueInv
  OBVIOUS
<1> DEFINE flush == [what |-> "flush", n |-> 0, serial |-> 1]
<1>1. /\ opt \in Options /\ opt.FileLen \in Nat /\ opt.loop \in Nat \ {0}
      /\ opt.kind \in {"video", "audio", "subtitle"}
  BY PlayerAssumption DEF Init
<1>2. 0 \in Slots /\ MaxSize \in Nat /\ MaxSize > 0
  BY QueueAssumption DEF Slots
<1>5. pktq \in PacketQueues /\ pktq.pkts = <<flush>> /\ pktq.serial = 1
  BY FirstPacket
<1>6. /\ frameq = [queue |-> [i \in 0 .. MaxSize - 1 |-> NewSlot], rindex |-> 0, windex |-> 0,
                   size |-> 0, rindex_shown |-> 0, keep_last |-> opt.kind # "subtitle"]
      /\ NewSlot \in Frames
  BY DEF Init, frame_queue_init, NewSlot, Frames
<1>7. frameq \in FrameQueues
  BY <1>2, <1>6 DEF FrameQueues, Slots
<1>8. dec \in Decoders /\ cb \in Callbacks /\ dec.pc \in {"peek", "decode"}
      /\ (opt.kind = "subtitle" => dec.pc = "peek") /\ cb.pc = "idle" /\ cb.left = 0
  <2>1. <<>> \in Seq(Nat)
    OBVIOUS
  <2> QED BY <1>2, <2>1 DEF Init, NewThread, NewDevice, FirstPc, Decoders, Callbacks
<1>9. /\ asleep \in Sleepers /\ is \in Flags /\ mn \in MainThreads /\ mn.pc = "loop"
      /\ rd \in ReadThreads /\ rd.pc = "loop" /\ rd.pos = 0 /\ shown \in Nat \X Nat
      /\ keys = opt.keys
  BY <1>1 DEF Init, Sleepers, Flags, MainThreads, ReadThreads
<1>10. TypeOK
  BY <1>1, <1>5, <1>7, <1>8, <1>9 DEF TypeOK
<1>11. Kinds
  BY <1>6, <1>8, <1>9 DEF Kinds
<1>12. Ring
  <2>1. frameq.size = 0 /\ frameq.rindex = 0 /\ frameq.windex = 0 /\ frameq.rindex_shown = 0
    BY <1>6
  <2>2. (0 + 0) % MaxSize = 0
    BY <1>2
  <2>3. frameq.windex = Slot(frameq, frameq.size)
    BY <2>1, <2>2 DEF Slot
  <2> QED BY <1>2, <1>8, <1>9, <2>1, <2>3 DEF Ring, Reserved
<1>13. Serials
  BY <1>5, <1>9 DEF Serials, PacketsCurrent
<1> QED BY <1>10, <1>11, <1>12, <1>13 DEF QueueInv

LEMMA QueueStep == QueueInv /\ [Next]_vars => QueueInv'
<1> SUFFICES ASSUME QueueInv, [Next]_vars PROVE QueueInv'
  OBVIOUS
<1>1. CASE Reader
  BY <1>1, ReaderQuiet, SeekQueues, ReadFrameQueues, ReadCloseQueues DEF Reader
<1>2. CASE Decoder
  BY <1>2, DecoderQuiet, GetQueues, PictureQueues, SamplesQueues
  DEF Decoder, Decoding, VideoThread, SubtitleThread
<1>3. CASE Main
  BY <1>3, MainQuiet, CycleCloseQueues, CycleOpenQueues, MainTakes, RefreshQueues
  DEF Main, Events, VideoMain, SubtitleMain
<1>4. CASE AudioCallback
  BY <1>4, CallbackQuiet, TakeQueues DEF AudioCallback
<1>5. CASE \E k \in AllKeys : Press(k)
  BY <1>5, PressQueues
<1>6. CASE UNCHANGED vars
  BY <1>6 DEF vars, QueueInv, TypeOK, Kinds, Ring, Reserved, Serials, PacketsCurrent
<1> QED BY <1>1, <1>2, <1>3, <1>4, <1>5, <1>6 DEF Next

\* The inductive invariant of the queues, for every size and every play.
THEOREM PlayerQueueInv == Spec => []QueueInv
<1>1. Init => QueueInv
  BY QueueInit
<1>2. QueueInv /\ [Next]_vars => QueueInv'
  BY QueueStep
<1> QED BY <1>1, <1>2, PTL DEF Spec

\* The packets that wait were queued under the serial of the queue, whatever seeks and
\* reopenings overlap (read_thread, stream_cycle_channel).
THEOREM PlayerPacketsCurrent == Spec => []PacketsCurrent
<1>1. QueueInv => PacketsCurrent
  BY DEF QueueInv, Serials
<1> QED BY <1>1, PlayerQueueInv, PTL

\* The frame queue is a ring in every play, and what is drawn or decoded into a slot is
\* never one that may be shown (frame_queue_push, frame_queue_next, queue_picture).
THEOREM PlayerFrameRing == Spec => []FrameRing
<1>1. QueueInv => FrameRing
  <2> SUFFICES ASSUME QueueInv PROVE FrameRing
    OBVIOUS
  <2>1. /\ MaxSize \in Nat /\ MaxSize > 0 /\ frameq.rindex \in 0 .. MaxSize - 1
        /\ frameq.size \in 0 .. MaxSize /\ frameq.rindex_shown \in 0 .. 1
        /\ frameq.windex = (frameq.rindex + frameq.size) % MaxSize
    BY QueueAssumption DEF QueueInv, TypeOK, FrameQueues, Slots, Ring, Slot
  <2>2. frameq.size < MaxSize => frameq.windex \notin Filled(frameq)
    BY FreeSlot, RingNow
  <2>3. frameq.size > frameq.rindex_shown => frame_queue_peek(frameq) \in Filled(frameq)
    BY <2>1 DEF Filled, Slot, frame_queue_peek
  <2> QED BY <2>2, <2>3 DEF FrameRing, QueueInv, Ring, Reserved
<1> QED BY <1>1, PlayerQueueInv, PTL

-----------------------------------------------------------------------------
(* The frame that audio_buf points into *)

\* AudioBufKept without the ring, and nothing is left of a frame when the next is taken.
AudioInv ==
  /\ cb.pc = "choose" \/ cb.left # 0 => frameq.rindex_shown = 1 /\ cb.slot = frameq.rindex
  /\ cb.left # 0 => shown = <<frameq.queue[cb.slot].serial, frameq.queue[cb.slot].n>>
  /\ cb.pc # "idle" => cb.left = 0

\* What the callback has keeps: the slot at rindex, until it takes the next.
LEMMA AudioKept ==
  ASSUME QueueInv, AudioInv, cb'.pc = cb.pc, cb'.left = cb.left, cb'.slot = cb.slot,
         opt.kind = "audio" => /\ shown' = shown /\ frameq'.rindex = frameq.rindex
                               /\ frameq'.rindex_shown = frameq.rindex_shown
                               /\ frameq.size > 0 =>
                                    LET i == frameq.rindex
                                    IN /\ frameq'.queue[i].serial = frameq.queue[i].serial
                                       /\ frameq'.queue[i].n = frameq.queue[i].n
  PROVE  AudioInv'
<1>1. cb.pc # "idle" \/ cb.left # 0 => opt.kind = "audio"
  BY DEF QueueInv, Kinds
<1>2. frameq.rindex_shown = 1 => frameq.size > 0
  BY QueueAssumption DEF QueueInv, TypeOK, FrameQueues, Ring
<1> QED BY <1>1, <1>2 DEF AudioInv

LEMMA AudioStep == QueueInv /\ AudioInv /\ [Next]_vars => AudioInv'
<1> SUFFICES ASSUME QueueInv, AudioInv, [Next]_vars PROVE AudioInv'
  OBVIOUS
<1>0. TypeOK /\ Kinds /\ Ring
  BY DEF QueueInv
<1>1. CASE \/ UNCHANGED <<frameq, cb, shown>>
           \/ UNCHANGED cb /\ opt.kind # "audio"
  BY <1>1, AudioKept
<1>2. CASE ReadClose \/ CycleClose
  <2>1. /\ UNCHANGED <<frameq, shown>>
        /\ cb' = cb \/ cb' = [cb EXCEPT !.open = FALSE]
    BY <1>2 DEF ReadClose, CycleClose, Closing, user, queues, ClosePcs
  <2>2. cb'.pc = cb.pc /\ cb'.left = cb.left /\ cb'.slot = cb.slot
    BY <1>0, <2>1 DEF TypeOK, Callbacks
  <2> QED BY <2>1, <2>2, AudioKept
<1>3. CASE CycleOpen
  BY <1>3 DEF CycleOpen, NewDevice, AudioInv
<1>4. CASE QueueSamples
  <2>1. CASE UNCHANGED frameq
    BY <1>4, <2>1, AudioKept DEF QueueSamples, user
  <2>2. CASE Writable /\ frameq' = frame_queue_push(Filled_in)
    <3>1. frameq.size < MaxSize
      BY <1>0, <2>2, QueueAssumption DEF Writable, frame_queue_full, TypeOK, FrameQueues
    <3>2. /\ frameq'.rindex = frameq.rindex /\ frameq'.rindex_shown = frameq.rindex_shown
          /\ \A i \in Slots \ {frameq.windex} : frameq'.queue[i] = frameq.queue[i]
      BY <2>2, <3>1, PushFilled
    <3>3. frameq.size > 0 => frameq.rindex # frameq.windex
      <4>1. /\ frameq.rindex \in 0 .. MaxSize - 1 /\ frameq.size \in 0 .. MaxSize
            /\ frameq.windex = (frameq.rindex + frameq.size) % MaxSize
        BY <1>0, <3>1, QueueAssumption DEF TypeOK, FrameQueues, Ring, Slots, Slot
      <4>2. (frameq.rindex + frameq.size) % MaxSize
              = IF frameq.rindex + frameq.size < MaxSize THEN frameq.rindex + frameq.size
                ELSE frameq.rindex + frameq.size - MaxSize
        BY <4>1, Wrap
      <4> QED BY <3>1, <4>1, <4>2, QueueAssumption
    <3>4. frameq.rindex \in Slots
      BY <1>0 DEF TypeOK, FrameQueues
    <3> QED BY <1>4, <3>2, <3>3, <3>4, AudioKept DEF QueueSamples, user
  <2> QED BY <1>4, <2>1, <2>2 DEF QueueSamples
<1>5. CASE alloc_picture
  <2>1. PICK slot \in Frames :
              /\ slot.serial = frameq.queue[frameq.windex].serial
              /\ slot.n = frameq.queue[frameq.windex].n
              /\ frameq' = [frameq EXCEPT !.queue = [@ EXCEPT ![frameq.windex] = slot]]
    BY <1>5, SlotWrites DEF alloc_picture, Picturing
  <2>2. /\ frameq'.rindex = frameq.rindex /\ frameq'.rindex_shown = frameq.rindex_shown
        /\ frameq'.queue = [frameq.queue EXCEPT ![frameq.windex] = slot]
    BY <2>1, SlotWritten
  <2>3. \A i \in Slots : /\ frameq'.queue[i].serial = frameq.queue[i].serial
                        /\ frameq'.queue[i].n = frameq.queue[i].n
    BY <1>0, <2>1, <2>2 DEF TypeOK, FrameQueues
  <2>4. frameq.rindex \in Slots
    BY <1>0 DEF TypeOK, FrameQueues
  <2> QED BY <1>5, <2>2, <2>3, <2>4, AudioKept DEF alloc_picture, user
<1>6. CASE Continue
  <2>1. /\ frameq' = frameq /\ shown' = shown /\ cb.pc = "idle"
        /\ \/ cb.left > 0 /\ cb' = [cb EXCEPT !.left = 0]
           \/ cb.left = 0 /\ cb' = [cb EXCEPT !.pc = "peek"]
    BY <1>6 DEF Continue, Callback, CbGoes, queues, user
  <2> QED BY <1>0, <2>1 DEF AudioInv, TypeOK, Callbacks
<1>7. CASE TakeSamples
  <2>1. shown' = shown /\ cb.pc = "peek" /\ cb.left = 0 /\ opt.kind = "audio"
    BY <1>7 DEF TakeSamples, Callback, user, AudioInv
  <2>2. CASE frameq' = frameq /\ (cb' = cb \/ CbGoes("idle"))
    BY <1>0, <2>1, <2>2 DEF AudioInv, CbGoes, TypeOK, Callbacks
  <2>3. CASE /\ frame_queue_nb_remaining(frameq) > 0
             /\ cb' = [cb EXCEPT !.pc = "choose", !.slot = Readable]
             /\ frameq' = frame_queue_next(frameq)
    <3>1. cb'.pc = "choose" /\ cb'.left = 0 /\ cb'.slot = frame_queue_peek(frameq)
      BY <1>0, <2>1, <2>3 DEF TypeOK, Callbacks, Readable
    <3>2. /\ frameq.rindex \in 0 .. MaxSize - 1 /\ frameq.rindex_shown \in 0 .. 1
          /\ MaxSize \in Nat /\ frameq.keep_last
      BY <1>0, <2>1, QueueAssumption DEF TypeOK, FrameQueues, Slots, Kinds
    <3>3. IF frameq.rindex_shown = 0
          THEN frameq'.rindex_shown = 1 /\ frameq'.rindex = frameq.rindex
          ELSE /\ frameq'.rindex_shown = frameq.rindex_shown
               /\ frameq'.rindex = (frameq.rindex + 1) % MaxSize
      BY <2>3, <3>2, RingNow, NextShape
    <3>4. (frameq.rindex + 0) % MaxSize = frameq.rindex
      BY <3>2
    <3>5. frameq'.rindex_shown = 1 /\ cb'.slot = frameq'.rindex
      <4>1. CASE frameq.rindex_shown = 0
        BY <3>1, <3>3, <3>4, <4>1 DEF frame_queue_peek
      <4>2. CASE frameq.rindex_shown = 1
        BY <3>1, <3>3, <4>2 DEF frame_queue_peek
      <4> QED BY <3>2, <4>1, <4>2
    <3> QED BY <3>1, <3>5 DEF AudioInv
  <2> QED BY <1>7, <2>2, <2>3 DEF TakeSamples
<1>8. CASE ChooseSamples
  <2>1. frameq' = frameq /\ cb.pc = "choose" /\ cb.left = 0
    BY <1>8 DEF ChooseSamples, Callback, queues, AudioInv
  <2>2. CASE CbGoes("peek")
    BY <1>0, <2>1, <2>2 DEF CbGoes, AudioInv, TypeOK, Callbacks
  <2>3. CASE /\ shown' = <<frameq.queue[cb.slot].serial, frameq.queue[cb.slot].n>>
             /\ \E left \in 0 .. 1 : cb' = [cb EXCEPT !.pc = "idle", !.left = left]
    BY <1>0, <2>1, <2>3 DEF AudioInv, TypeOK, Callbacks
  <2> QED BY <1>8, <2>2, <2>3 DEF ChooseSamples
<1>9. CASE \/ (Reader /\ ~ReadClose) \/ Decoding \/ PeekWritable
           \/ \E k \in AllKeys : Press(k)
  <2>1. UNCHANGED <<frameq, cb, shown>>
    BY <1>9
    DEF Reader, Decoding, Press, ReadLoop, SeekNothing, SeekFlush, SeekPut, SeekStep, ReadWait,
        ReadEnd, ReadFrame, ReadError, ReadWaitEnd, ReadGone, Decode, packet_queue_get, GotPacket,
        Codec, ThreadExit,
        PeekWritable, queues, user
  <2> QED BY <1>1, <2>1
<1>10. CASE QueuePicture \/ PushPicture \/ QueueSubtitle \/ SubtitleMain
  <2>1. UNCHANGED cb /\ opt.kind # "audio"
    BY <1>0, <1>10
    DEF QueuePicture, PushPicture, QueueSubtitle, SubtitleMain, RefreshPicture,
        RefreshSubtitles, DisplaySubtitle, Thread, Kinds
  <2> QED BY <1>1, <2>1
<1>11. CASE Refresh \/ RefreshNothing \/ RefreshSkip \/ RefreshPick \/ Display
  <2>1. UNCHANGED cb /\ opt.kind # "audio"
    BY <1>0, <1>11 DEF Refresh, RefreshNothing, RefreshSkip, RefreshPick, Display, Kinds
  <2> QED BY <1>1, <2>1
<1>12. CASE HandleEvent \/ Quit \/ CycleNone
  <2>1. UNCHANGED <<frameq, cb, shown>>
    BY <1>12 DEF HandleEvent, Quit, CycleNone, queues, user
  <2> QED BY <1>1, <2>1
<1>13. CASE UNCHANGED vars
  BY <1>1, <1>13 DEF vars
<1> QED
  BY <1>2, <1>3, <1>4, <1>5, <1>6, <1>7, <1>8, <1>9, <1>10, <1>11, <1>12, <1>13
  DEF Next, Decoder, Main, Events, VideoThread, SubtitleThread, VideoMain, AudioCallback

\* The samples that sdl_audio_callback has not played yet are still in their slot.
THEOREM PlayerAudioBufKept == Spec => []AudioBufKept
<1>1. Init => AudioInv
  BY DEF Init, NewDevice, AudioInv
<1>2. QueueInv /\ AudioInv /\ [Next]_vars => AudioInv'
  BY AudioStep
<1>3. QueueInv /\ AudioInv => AudioBufKept
  <2> SUFFICES ASSUME QueueInv, AudioInv, cb.pc = "choose" \/ cb.left > 0
               PROVE  /\ frameq.rindex_shown = 1 /\ cb.slot = frameq.rindex
                      /\ cb.slot \in Filled(frameq)
                      /\ cb.left > 0 => shown = <<frameq.queue[cb.slot].serial,
                                                 frameq.queue[cb.slot].n>>
    BY DEF AudioBufKept
  <2>1. /\ cb.left \in 0 .. 1 /\ frameq.size \in Nat /\ frameq.size >= frameq.rindex_shown
        /\ frameq.rindex \in 0 .. MaxSize - 1 /\ MaxSize \in Nat
    BY QueueAssumption DEF QueueInv, TypeOK, Callbacks, FrameQueues, Ring, Slots
  <2>2. frameq.rindex_shown = 1 /\ cb.slot = frameq.rindex
    BY <2>1 DEF AudioInv
  <2>3. 0 \in 0 .. frameq.size - 1 /\ frameq.rindex = Slot(frameq, 0)
    BY <2>1, <2>2 DEF Slot
  <2> QED BY <2>1, <2>2, <2>3 DEF AudioInv, Filled
<1> QED BY <1>1, <1>2, <1>3, PlayerQueueInv, PTL DEF Spec

-----------------------------------------------------------------------------
(* Who sleeps *)

\* While the main thread is between the join and the reopening, the stream's thread and
\* the callback stay where they are.
LEMMA JoinedStep == QueueInv /\ Joined /\ [Next]_vars => Joined'
<1> SUFFICES ASSUME QueueInv, Joined, [Next]_vars PROVE Joined'
  OBVIOUS
<1>1. TypeOK /\ Kinds
  BY DEF QueueInv
<1>2. CASE UNCHANGED <<opt, mn, dec>> /\ (cb' = cb \/ cb' = [cb EXCEPT !.open = FALSE])
  BY <1>1, <1>2 DEF Joined, TypeOK, Callbacks
<1>3. CASE Reader \/ (\E k \in AllKeys : Press(k)) \/ UNCHANGED vars
  <2>1. UNCHANGED <<opt, mn, dec>> /\ (cb' = cb \/ cb' = [cb EXCEPT !.open = FALSE])
    BY <1>3
    DEF Reader, Press, ReadLoop, SeekNothing, SeekFlush, SeekPut, SeekStep, ReadWait, ReadEnd,
        ReadFrame, ReadError, ReadWaitEnd, ReadGone, ReadClose, Closing, ClosePcs, queues, user, vars
  <2> QED BY <1>2, <2>1
<1>4. CASE Decoder
  <2>1. UNCHANGED <<opt, mn, cb>> /\ dec.pc # "dead"
    BY <1>4
    DEF Decoder, Decoding, VideoThread, SubtitleThread, Decode, packet_queue_get, GotPacket, Codec,
        ThreadExit, QueuePicture, PushPicture, QueueSamples, PeekWritable, QueueSubtitle, Thread, user
  <2> QED BY <2>1 DEF Joined
<1>5. CASE AudioCallback
  <2>1. UNCHANGED <<opt, mn, dec>> /\ (cb.pc # "idle" \/ cb.open) /\ opt.kind = "audio"
    BY <1>5 DEF AudioCallback, Continue, TakeSamples, ChooseSamples, Callback, user
  <2>2. cb'.open = cb.open
    BY <1>1, <1>5
    DEF AudioCallback, Continue, TakeSamples, ChooseSamples, CbGoes, TypeOK, Callbacks
  <2> QED BY <2>1, <2>2 DEF Joined
<1>6. CASE CycleClose
  <2>1. mn.pc \in ClosePcs /\ UNCHANGED <<opt, dec>>
    BY <1>6 DEF CycleClose, user
  <2>2. PICK next \in ClosePcs \cup {"closed"} :
               Closing(mn.pc, next) /\ mn' = [mn EXCEPT !.pc = next]
    BY <1>6 DEF CycleClose
  <2>3. mn'.pc = next
    BY <1>1, <2>2 DEF TypeOK, MainThreads
  <2>4. /\ cb'.pc = cb.pc /\ (cb.open \/ ~cb'.open)
        /\ next = "give_up" <=> mn.pc = "join"
        /\ next = "closed" <=> mn.pc = "give_up"
        /\ next = "join" => opt.kind # "audio" \/ ~cb'.open
    BY <2>1, <2>2, ClosingShape
  <2>5. mn.pc = "join" => dec.pc = "dead" /\ cb.pc = "idle"
    BY <2>2 DEF Closing
  <2> QED BY <2>1, <2>3, <2>4, <2>5 DEF Joined
<1>7. CASE Main /\ ~CycleClose
  <2>1. mn'.pc \notin {"join", "give_up", "closed"}
    BY <1>1, <1>7
    DEF Main, Events, VideoMain, SubtitleMain, HandleEvent, Quit, CycleNone, CycleOpen, alloc_picture,
        Refresh, RefreshNothing, RefreshSkip, RefreshPick, Display, RefreshPicture, RefreshSubtitles,
        DisplaySubtitle, TypeOK, MainThreads
  <2> QED BY <2>1 DEF Joined
<1> QED BY <1>3, <1>4, <1>5, <1>6, <1>7 DEF Next

\* Nobody is put to sleep, and who sleeps still has something to wait for.
LEMMA StillAsleep ==
  ASSUME SleepInv, UNCHANGED <<opt, asleep>>,
         asleep.dec = "no" \/ (/\ dec'.pc = dec.pc /\ frameq'.size = frameq.size
                               /\ frameq'.windex = frameq.windex
                               /\ frameq'.queue = frameq.queue),
         asleep.cb = "no" \/ (/\ cb'.pc = cb.pc /\ frameq'.size = frameq.size
                              /\ frameq'.rindex_shown = frameq.rindex_shown),
         pktq'.abort_request = pktq.abort_request,
         asleep.dec # "pq" \/ pktq'.pkts = pktq.pkts \/ pktq'.pkts = <<>>,
         Deblocking => Deblocking'
  PROVE  SleepInv'
<1>1. Places'
  BY DEF SleepInv, Places
<1>2. NoLostWakeup'
  BY DEF SleepInv, NoLostWakeup, frame_queue_full, frame_queue_nb_remaining
<1> QED BY <1>1, <1>2 DEF SleepInv

\* audio_thread and the callback share the condition of sampq, and never both sleep on it.
LEMMA OneSleeper ==
  ASSUME QueueInv, SleepInv
  PROVE  /\ asleep.dec # "fq" \/ asleep.cb # "fq"
         /\ asleep.cb \in {"no", "fq"} /\ asleep.dec \in {"no", "pq", "fq"}
BY DEF QueueInv, SleepInv, Places, NoLostWakeup, Kinds, TypeOK, Sleepers

LEMMA SignalFrames ==
  ASSUME QueueInv, SleepInv, CondSignal("fq"), pktq' = pktq,
         asleep.dec = "no" \/ dec'.pc = dec.pc
  PROVE  SleepInv'
<1>1. asleep'.cb = "no" /\ asleep'.dec \in {"no", "pq"} /\ (asleep'.dec = "pq" => asleep.dec = "pq")
  BY OneSleeper, SignalShape DEF QueueInv
<1> QED BY <1>1 DEF SleepInv, Places, NoLostWakeup

LEMMA PutSleep ==
  ASSUME QueueInv, SleepInv, NEW p \in [what : {"flush", "null", "data"}, n : Nat], Put(p),
         UNCHANGED <<opt, frameq, dec, cb>>, Deblocking => Deblocking'
  PROVE  SleepInv'
<1>1. /\ pktq'.abort_request = pktq.abort_request /\ (pktq.abort_request => pktq' = pktq)
  BY PutShape DEF Put, QueueInv
<1>2. CASE pktq.abort_request
  BY <1>1, <1>2, StillAsleep DEF Put
<1>3. CASE ~pktq.abort_request
  <2>1. CondSignal("pq")
    BY <1>3 DEF Put
  <2>2. asleep'.dec # "pq" /\ asleep'.cb = asleep.cb /\ (asleep'.dec = "fq" => asleep.dec = "fq")
        /\ (asleep'.dec # "no" => asleep'.dec = asleep.dec)
    BY <2>1, OneSleeper, SignalShape DEF QueueInv
  <2>3. Places'
    BY <2>2 DEF SleepInv, Places
  <2>4. NoLostWakeup'
    BY <1>1, <1>3, <2>2
    DEF SleepInv, NoLostWakeup, frame_queue_full, frame_queue_nb_remaining
  <2> QED BY <2>3, <2>4 DEF SleepInv
<1> QED BY <1>2, <1>3

LEMMA ClosingSleep ==
  ASSUME QueueInv, SleepInv, NEW pc \in ClosePcs, NEW next, Closing(pc, next),
         UNCHANGED <<opt, dec>>, pc = "close" => Deblocking',
         pc # "signal" => (Deblocking => Deblocking')
  PROVE  SleepInv'
<1>1. frameq' = frameq /\ cb'.pc = cb.pc
  BY ClosingShape
<1>2. CASE pc = "close"
  <2>1. /\ pktq' = [pktq EXCEPT !.abort_request = TRUE] /\ CondSignal("pq")
    BY <1>2 DEF Closing, Abort, packet_queue_abort
  <2>2. /\ asleep'.dec # "pq" /\ asleep'.cb = asleep.cb
        /\ (asleep'.dec # "no" => asleep'.dec = asleep.dec)
    BY <2>1, OneSleeper, SignalShape DEF QueueInv
  <2>3. Places'
    BY <1>1, <2>2 DEF SleepInv, Places
  <2>4. NoLostWakeup'
    BY <1>1, <1>2, <2>2
    DEF SleepInv, NoLostWakeup, frame_queue_full, frame_queue_nb_remaining
  <2> QED BY <2>3, <2>4 DEF SleepInv
<1>3. CASE pc = "signal"
  BY <1>3, SignalFrames DEF Closing, Signal
<1>4. CASE pc \in {"device", "join", "give_up"}
  <2>1. /\ asleep' = asleep /\ pktq'.abort_request = pktq.abort_request
        /\ pktq'.pkts = pktq.pkts \/ pktq'.pkts = <<>>
    BY <1>4, ClosingShape DEF Closing, QueueInv, TypeOK, PacketQueues
  <2> QED BY <1>1, <1>4, <2>1, StillAsleep
<1> QED BY <1>2, <1>3, <1>4 DEF ClosePcs

LEMMA ReaderSleep == QueueInv /\ SleepInv /\ Reader => SleepInv'
<1> SUFFICES ASSUME QueueInv, SleepInv, Reader PROVE SleepInv'
  OBVIOUS
<1>1. UNCHANGED <<opt, frameq, dec, mn>>
  BY DEF Reader, ReadLoop, SeekNothing, SeekFlush, SeekPut, SeekStep, ReadWait, ReadEnd, ReadFrame,
         ReadError, ReadWaitEnd, ReadGone, ReadClose, Closing, ClosePcs, queues, user
<1>2. CASE ReadLoop \/ SeekNothing \/ SeekStep \/ ReadWait \/ ReadEnd \/ ReadWaitEnd \/ ReadGone
  <2>1. UNCHANGED <<asleep, pktq, cb>> /\ rd.pc # "signal"
    BY <1>2 DEF ReadLoop, SeekNothing, SeekStep, ReadWait, ReadEnd, ReadWaitEnd, ReadGone, ReadStep,
                queues
  <2> QED BY <1>1, <2>1, StillAsleep DEF Deblocking
<1>3. CASE SeekFlush
  <2>1. UNCHANGED <<asleep, cb>> /\ rd.pc # "signal" /\ pktq' = [pktq EXCEPT !.pkts = <<>>]
    BY <1>3 DEF SeekFlush, ReadStep, packet_queue_flush
  <2>2. pktq'.pkts = <<>> /\ pktq'.abort_request = pktq.abort_request
    BY <2>1 DEF QueueInv, TypeOK, PacketQueues
  <2> QED BY <1>1, <2>1, <2>2, StillAsleep DEF Deblocking
<1>4. CASE SeekPut
  <2>1. Flush \in [what : {"flush", "null", "data"}, n : Nat]
    BY DEF Flush
  <2> QED BY <1>1, <1>4, <2>1, PutSleep DEF SeekPut, Deblocking
<1>5. CASE ReadFrame \/ ReadError
  <2>1. cb' = cb /\ rd.pc # "signal" /\ rd.pos \in Nat
    BY <1>5 DEF ReadFrame, ReadError, QueueInv, TypeOK, ReadThreads
  <2>2. CASE UNCHANGED <<pktq, asleep>>
    BY <1>1, <2>1, <2>2, StillAsleep DEF Deblocking
  <2>3. CASE \E p \in {Null, Data(rd.pos + 1)} : Put(p)
    <3>1. Null \in [what : {"flush", "null", "data"}, n : Nat]
          /\ Data(rd.pos + 1) \in [what : {"flush", "null", "data"}, n : Nat]
      BY <2>1 DEF Null, Data
    <3> QED BY <1>1, <2>1, <2>3, <3>1, PutSleep DEF Deblocking
  <2> QED BY <1>5, <2>2, <2>3 DEF ReadFrame, ReadError
<1>6. CASE ReadClose
  <2>1. CASE rd.pc = "close" /\ UNCHANGED <<queues, is, cb>>
    BY <1>1, <2>1, StillAsleep DEF queues, Deblocking
  <2>2. CASE rd.pc \in ClosePcs /\ \E next \in ClosePcs \cup {"closed"} :
               Closing(rd.pc, next) /\ rd' = [rd EXCEPT !.pc = next]
    <3>1. PICK next \in ClosePcs \cup {"closed"} :
                 Closing(rd.pc, next) /\ rd' = [rd EXCEPT !.pc = next]
      BY <2>2
    <3>2. rd'.pc = next /\ (rd.pc = "close" => next = "signal")
      BY <3>1 DEF Closing, QueueInv, TypeOK, ReadThreads
    <3> QED BY <1>1, <2>2, <3>1, <3>2, ClosingSleep DEF Deblocking
  <2> QED BY <1>6, <2>1, <2>2 DEF ReadClose
<1> QED BY <1>2, <1>3, <1>4, <1>5, <1>6 DEF Reader

\* A full queue has a frame for the callback: there is room for more than the one it keeps.
LEMMA FullHasFrames ==
  ASSUME QueueInv, MaxSize > 1, frame_queue_full(frameq)
  PROVE  frame_queue_nb_remaining(frameq) > 0
BY QueueAssumption
DEF QueueInv, TypeOK, FrameQueues, frame_queue_full, frame_queue_nb_remaining

\* Outside a play of a sound the callback does not run, so it does not sleep.
LEMMA CallbackAwake ==
  ASSUME QueueInv, SleepInv, opt.kind # "audio"
  PROVE  asleep.cb = "no"
BY OneSleeper DEF QueueInv, SleepInv, Places, Kinds

LEMMA DecoderSleep == MaxSize > 1 /\ QueueInv /\ SleepInv /\ Decoder => SleepInv'
<1> SUFFICES ASSUME MaxSize > 1, QueueInv, SleepInv, Decoder PROVE SleepInv'
  OBVIOUS
<1>1. UNCHANGED <<opt, rd, mn, cb>> /\ asleep.dec = "no" /\ pktq'.abort_request = pktq.abort_request
  BY DEF Decoder, Decoding, VideoThread, SubtitleThread, Decode, packet_queue_get, GotPacket, Codec,
         ThreadExit, QueuePicture, PushPicture, QueueSamples, PeekWritable, QueueSubtitle, Thread, user,
         queues, QueueInv, TypeOK, PacketQueues
<1>2. CASE asleep' = asleep /\ UNCHANGED frameq
  BY <1>1, <1>2, StillAsleep DEF Deblocking
<1>3. CASE asleep' = asleep /\ opt.kind = "video"
  BY <1>1, <1>3, StillAsleep, CallbackAwake DEF Deblocking
<1>4. CASE DecSleeps("pq") /\ dec.pc = "get" /\ pktq.pkts = <<>> /\ ~pktq.abort_request
           /\ UNCHANGED <<pktq, frameq>>
  <2>1. asleep'.dec = "pq" /\ asleep'.cb = asleep.cb /\ dec' = dec
    BY <1>4 DEF DecSleeps, QueueInv, TypeOK, Sleepers
  <2> QED BY <1>1, <1>4, <2>1
      DEF SleepInv, Places, NoLostWakeup, frame_queue_full, frame_queue_nb_remaining
<1>5. CASE DecSleeps("fq") /\ dec.pc \in {"queue", "peek"} /\ ~pktq.abort_request
           /\ frame_queue_full(frameq) /\ UNCHANGED <<pktq, frameq>>
  <2>1. asleep'.dec = "fq" /\ asleep'.cb = asleep.cb /\ dec' = dec
    BY <1>5 DEF DecSleeps, QueueInv, TypeOK, Sleepers
  <2>2. asleep.cb = "no"
    <3>1. frame_queue_nb_remaining(frameq) > 0
      BY <1>5, FullHasFrames
    <3> QED BY <3>1, OneSleeper DEF SleepInv, NoLostWakeup
  <2>3. frame_queue_full(frameq)'
    BY <1>5 DEF frame_queue_full
  <2> QED BY <1>1, <1>5, <2>1, <2>2, <2>3 DEF SleepInv, Places, NoLostWakeup
<1>6. CASE DecSleeps("fq") /\ dec.pc = "alloc" /\ ~pktq.abort_request
           /\ ~frameq.queue[frameq.windex].allocated /\ UNCHANGED <<pktq, frameq>>
  <2>1. asleep'.dec = "fq" /\ asleep'.cb = asleep.cb /\ dec' = dec
    BY <1>6 DEF DecSleeps, QueueInv, TypeOK, Sleepers
  <2>2. asleep.cb = "no"
    BY <1>6, CallbackAwake DEF QueueInv, Kinds
  <2> QED BY <1>1, <1>6, <2>1, <2>2 DEF SleepInv, Places, NoLostWakeup
<1>7. CASE CondSignal("fq") /\ pktq' = pktq
  BY <1>1, <1>7, SignalFrames
<1>8. CASE Decode \/ GotPacket \/ Codec \/ ThreadExit
  <2>1. asleep' = asleep /\ UNCHANGED frameq
    BY <1>8 DEF Decode, GotPacket, Codec, ThreadExit, DecGoes, queues
  <2> QED BY <1>2, <2>1
<1>9. CASE packet_queue_get
  <2>1. \/ asleep' = asleep /\ UNCHANGED frameq
        \/ DecSleeps("pq") /\ dec.pc = "get" /\ pktq.pkts = <<>> /\ ~pktq.abort_request
           /\ UNCHANGED <<pktq, frameq>>
    BY <1>9 DEF packet_queue_get, DecGoes, Thread
  <2> QED BY <1>2, <1>4, <2>1
<1>10. CASE QueuePicture \/ PushPicture \/ QueueSamples \/ PeekWritable \/ QueueSubtitle
  <2>1. \/ asleep' = asleep /\ UNCHANGED frameq
        \/ asleep' = asleep /\ opt.kind = "video"
        \/ DecSleeps("fq") /\ dec.pc \in {"queue", "peek"} /\ ~pktq.abort_request
           /\ frame_queue_full(frameq) /\ UNCHANGED <<pktq, frameq>>
        \/ DecSleeps("fq") /\ dec.pc = "alloc" /\ ~pktq.abort_request
           /\ ~frameq.queue[frameq.windex].allocated /\ UNCHANGED <<pktq, frameq>>
        \/ CondSignal("fq") /\ pktq' = pktq
    BY <1>10
    DEF QueuePicture, PushPicture, QueueSamples, PeekWritable, QueueSubtitle, NotWritable, DecGoes,
        Thread, QueueInv, Kinds
  <2> QED BY <1>2, <1>3, <1>5, <1>6, <1>7, <2>1
<1> QED BY <1>8, <1>9, <1>10 DEF Decoder, Decoding, VideoThread, SubtitleThread

\* frame_queue_next with its signal: it signals unless it only starts to keep a frame.
LEMMA NextSleep ==
  ASSUME QueueInv, SleepInv, UNCHANGED <<opt, pktq, dec, rd>>,
         frame_queue_nb_remaining(frameq) > 0, frameq' = frame_queue_next(frameq),
         \/ CondSignal("fq")
         \/ asleep' = asleep /\ frameq.keep_last /\ frameq.rindex_shown = 0,
         asleep.cb = "no", Deblocking => Deblocking'
  PROVE  SleepInv'
<1>1. CASE CondSignal("fq")
  BY <1>1, SignalFrames
<1>2. CASE asleep' = asleep /\ frameq.keep_last /\ frameq.rindex_shown = 0
  <2>1. frameq'.size = frameq.size /\ frameq'.queue = frameq.queue /\ frameq'.windex = frameq.windex
    BY <1>2, RingNow, NextShape
  <2> QED BY <1>2, <2>1, StillAsleep
<1> QED BY <1>1, <1>2

LEMMA CallbackSleep == MaxSize > 1 /\ QueueInv /\ SleepInv /\ AudioCallback => SleepInv'
<1> SUFFICES ASSUME MaxSize > 1, QueueInv, SleepInv, AudioCallback PROVE SleepInv'
  OBVIOUS
<1>1. /\ UNCHANGED <<opt, pktq, rd, dec, mn>> /\ asleep.cb = "no" /\ opt.kind = "audio"
      /\ frameq.keep_last
  BY DEF AudioCallback, Continue, TakeSamples, ChooseSamples, Callback, queues, user, QueueInv, Kinds
<1>2. CASE asleep' = asleep /\ UNCHANGED frameq
  BY <1>1, <1>2, StillAsleep DEF Deblocking
<1>3. CASE /\ ~pktq.abort_request /\ frame_queue_nb_remaining(frameq) <= 0 /\ cb.pc = "peek"
           /\ asleep' = [asleep EXCEPT !.cb = "fq"] /\ UNCHANGED <<frameq, cb>>
  <2>1. asleep'.dec = asleep.dec /\ asleep'.cb = "fq"
    BY <1>3 DEF QueueInv, TypeOK, Sleepers
  <2>2. frame_queue_nb_remaining(frameq) = 0
    BY <1>3, QueueAssumption DEF QueueInv, Ring, TypeOK, FrameQueues, frame_queue_nb_remaining
  <2>3. asleep.dec # "fq"
    <3>1. ~frame_queue_full(frameq)
      BY <2>2, FullHasFrames
    <3> QED BY <1>1, <3>1 DEF SleepInv, Places, NoLostWakeup, QueueInv, Kinds
  <2> QED BY <1>1, <1>3, <2>1, <2>2, <2>3
      DEF SleepInv, Places, NoLostWakeup, frame_queue_nb_remaining
<1>4. CASE /\ frame_queue_nb_remaining(frameq) > 0 /\ frameq' = frame_queue_next(frameq)
           /\ IF frameq.rindex_shown = 0 THEN UNCHANGED asleep ELSE CondSignal("fq")
  BY <1>1, <1>4, NextSleep DEF Deblocking
<1>5. CASE Continue \/ ChooseSamples
  BY <1>2, <1>5 DEF Continue, ChooseSamples, queues
<1>6. CASE TakeSamples
  <2>1. \/ asleep' = asleep /\ UNCHANGED frameq
        \/ /\ ~pktq.abort_request /\ frame_queue_nb_remaining(frameq) <= 0 /\ cb.pc = "peek"
           /\ asleep' = [asleep EXCEPT !.cb = "fq"] /\ UNCHANGED <<frameq, cb>>
        \/ /\ frame_queue_nb_remaining(frameq) > 0 /\ frameq' = frame_queue_next(frameq)
           /\ IF frameq.rindex_shown = 0 THEN UNCHANGED asleep ELSE CondSignal("fq")
    BY <1>6 DEF TakeSamples, Callback
  <2> QED BY <1>2, <1>3, <1>4, <2>1
<1> QED BY <1>5, <1>6 DEF AudioCallback

LEMMA MainSleep == QueueInv /\ SleepInv /\ Joined /\ Main => SleepInv'
<1> SUFFICES ASSUME QueueInv, SleepInv, Joined, Main PROVE SleepInv'
  OBVIOUS
<1>1. CASE \/ HandleEvent \/ Quit \/ CycleNone \/ RefreshNothing \/ RefreshPick \/ RefreshPicture
           \/ DisplaySubtitle
  <2>1. UNCHANGED <<opt, pktq, frameq, asleep, rd, dec, cb>> /\ mn.pc # "signal"
    BY <1>1
    DEF HandleEvent, Quit, CycleNone, RefreshNothing, RefreshPick, RefreshPicture, DisplaySubtitle,
        queues, user
  <2> QED BY <2>1, StillAsleep DEF Deblocking
<1>2. CASE CycleClose
  <2>1. PICK next \in ClosePcs \cup {"closed"} :
               Closing(mn.pc, next) /\ mn' = [mn EXCEPT !.pc = next]
    BY <1>2 DEF CycleClose
  <2>2. mn.pc \in ClosePcs /\ UNCHANGED <<opt, dec, rd>>
    BY <1>2 DEF CycleClose, user
  <2>3. mn'.pc = next /\ (mn.pc = "close" => next = "signal")
    BY <2>1 DEF Closing, QueueInv, TypeOK, MainThreads
  <2> QED BY <2>1, <2>2, <2>3, ClosingSleep DEF Deblocking
<1>3. CASE CycleOpen
  <2>1. asleep' = asleep /\ dec.pc = "dead" /\ cb.pc = "idle"
    BY <1>3 DEF CycleOpen, Joined
  <2>2. asleep.dec = "no" /\ asleep.cb = "no"
    BY <2>1, OneSleeper DEF SleepInv, Places
  <2> QED BY <2>1, <2>2 DEF SleepInv, Places, NoLostWakeup
<1>4. CASE alloc_picture
  BY <1>4, SignalFrames DEF alloc_picture
<1>5. CASE Refresh
  <2>1. UNCHANGED <<opt, pktq, asleep, rd, dec, cb>> /\ mn.pc # "signal" /\ opt.kind = "video"
    BY <1>5 DEF Refresh, user
  <2>2. frameq'.size = frameq.size /\ frameq'.queue = frameq.queue /\ frameq'.windex = frameq.windex
    BY <1>5 DEF Refresh, frame_queue_prev, QueueInv, TypeOK, FrameQueues
  <2> QED BY <2>1, <2>2, StillAsleep, CallbackAwake DEF Deblocking
<1>6. CASE RefreshSkip \/ Display \/ RefreshSubtitles
  <2>1. UNCHANGED <<opt, pktq, rd, dec, cb>> /\ mn.pc # "signal" /\ opt.kind # "audio"
    BY <1>6 DEF RefreshSkip, Display, RefreshSubtitles, user, QueueInv, Kinds
  <2>2. asleep.cb = "no"
    BY <2>1, CallbackAwake
  <2>3. CASE UNCHANGED <<frameq, asleep>>
    BY <2>1, <2>3, StillAsleep DEF Deblocking
  <2>4. CASE CondSignal("fq")
    BY <2>1, <2>4, SignalFrames
  <2>5. CASE frameq' = frame_queue_next(frameq) /\ asleep' = asleep /\ frameq.rindex_shown = 0
             /\ opt.kind = "video"
    <3>1. frameq'.size = frameq.size /\ frameq'.queue = frameq.queue
          /\ frameq'.windex = frameq.windex
      BY <2>5 DEF frame_queue_next, QueueInv, Kinds, TypeOK, FrameQueues
    <3> QED BY <2>1, <2>2, <2>5, <3>1, StillAsleep DEF Deblocking
  <2> QED BY <1>6, <2>3, <2>4, <2>5
      DEF RefreshSkip, Display, RefreshSubtitles, NextFrame, QueueInv, Kinds
<1> QED BY <1>1, <1>2, <1>3, <1>4, <1>5, <1>6 DEF Main, Events, VideoMain, SubtitleMain

LEMMA SleepStep ==
  MaxSize > 1 /\ QueueInv /\ SleepInv /\ Joined /\ [Next]_vars => SleepInv'
<1> SUFFICES ASSUME MaxSize > 1, QueueInv, SleepInv, Joined, [Next]_vars PROVE SleepInv'
  OBVIOUS
<1>1. CASE (\E k \in AllKeys : Press(k)) \/ UNCHANGED vars
  <2>1. UNCHANGED <<opt, pktq, frameq, asleep, rd, dec, mn, cb>>
    BY <1>1 DEF Press, queues, vars
  <2> QED BY <2>1, StillAsleep DEF Deblocking
<1> QED BY <1>1, ReaderSleep, DecoderSleep, MainSleep, CallbackSleep DEF Next

\* With room for two frames, whatever seeks, reopenings and aborts overlap, no thread of the
\* player sleeps on a condition that has been signalled or that nobody will signal
\* (frame_queue_peek_writable, frame_queue_peek_readable, packet_queue_get).  With one slot
\* audio_thread and the callback would wait for each other.
THEOREM PlayerNoLostWakeup == ASSUME MaxSize > 1 PROVE Spec => []NoLostWakeup
<1>1. Init => SleepInv /\ Joined
  BY DEF Init, SleepInv, Places, NoLostWakeup, Joined
<1>2. QueueInv /\ SleepInv /\ Joined /\ [Next]_vars => SleepInv' /\ Joined'
  BY SleepStep, JoinedStep
<1>3. SleepInv => NoLostWakeup
  BY DEF SleepInv
<1> QED BY <1>1, <1>2, <1>3, PlayerQueueInv, PTL DEF Spec

-----------------------------------------------------------------------------
(* The pictures of a video whose streams are not cycled *)

Drawing == opt.kind = "video" /\ "cycle" \notin opt.keys
Leaving == mn.pc \in {"quit", "gone"}
SdlEvents == [type : AllKeys] \cup [type : {"alloc"}, gen : Nat]

\* No stream is closed but by read_thread, at the end or when the user quits.
Uncycled ==
  /\ events \in Seq(SdlEvents) /\ \A i \in DOMAIN events : events[i].type # "cycle"
  /\ mn.pc \notin ClosePcs \cup {"closed"}
  /\ is.abort_request => Leaving
  /\ ~is.stream => rd.pc \in {"closed", "gone"}
  /\ pktq.abort_request => rd.pc \in (ClosePcs \ {"close"}) \cup {"closed", "gone"}

\* Serials only grow, and after the null packet of a serial, which comes when nothing is left
\* to read or reading has failed, come only null packets.
Numbers ==
  /\ pktq.serial > 0 /\ dec.pkt_serial <= pktq.serial /\ dec.finished <= pktq.serial
  /\ \A i \in DOMAIN pktq.pkts : pktq.pkts[i].serial <= pktq.serial
NullAfter(pkts, i) == \A j \in DOMAIN pkts : j > i => pkts[j].what = "null"
AtNull == dec.pkt.what = "null" /\ dec.pkt_serial = pktq.serial
ReadOut == rd.pos = opt.FileLen \/ rd.pc \in ClosePcs \cup {"wait", "closed", "gone"}
Nulls ==
  /\ \A i \in DOMAIN pktq.pkts :
       pktq.pkts[i].what = "null" => ReadOut /\ NullAfter(pktq.pkts, i)
  /\ AtNull => ReadOut /\ NullAfter(pktq.pkts, 0)

\* A decoder that has finished has nothing left to queue, and read_thread closes the
\* stream of itself only then.
Finished ==
  /\ dec.finished = pktq.serial => AtNull /\ dec.held = <<>> /\ dec.pc \notin {"queue", "alloc"}
  /\ rd.pc = "close" /\ ~Leaving => dec.finished = pktq.serial
  /\ pktq.abort_request /\ ~Leaving => dec.pc # "alloc"

\* One draw request at most is in the event queue, and it is for the frame that
\* video_thread holds.
Requested ==
  ~Leaving => \A i \in DOMAIN events : events[i].type = "alloc" =>
    /\ events[i].gen = dec.gen /\ dec.pc = "alloc" /\ ~frameq.queue[frameq.windex].allocated
    /\ \A j \in DOMAIN events : events[j].type = "alloc" => i = j
Drawn ==
  /\ dec.pc = "alloc" /\ frameq.queue[frameq.windex].allocated =>
       frameq.queue[frameq.windex].drawn = <<dec.pkt_serial, dec.frame>>
  /\ \A i \in Filled(frameq) :
       frameq.queue[i].drawn = <<frameq.queue[i].serial, frameq.queue[i].n>>

DrawInv == Drawing => Uncycled /\ Numbers /\ Nulls /\ Finished /\ Requested /\ Drawn

LEMMA DrawInit == Init => DrawInv
<1> SUFFICES ASSUME Init, Drawing PROVE Uncycled /\ Numbers /\ Nulls /\ Finished /\ Requested /\ Drawn
  BY DEF DrawInv
<1> DEFINE flush == [what |-> "flush", n |-> 0, serial |-> 1]
<1>1. pktq.pkts = <<flush>> /\ pktq.serial = 1 /\ ~pktq.abort_request
  BY FirstPacket
<1>2. /\ events = <<>> /\ mn.pc = "loop" /\ ~is.abort_request /\ is.stream /\ rd.pc = "loop"
      /\ dec.pkt = NoPacket /\ dec.pkt_serial = 0 /\ dec.finished = 0 /\ dec.pc = "decode"
      /\ frameq.size = 0
  BY DEF Init, NewThread, FirstPc, Drawing, frame_queue_init
<1>3. Filled(frameq) = {}
  BY <1>2 DEF Filled
<1>4. DOMAIN events = {} /\ events \in Seq(SdlEvents)
  BY <1>2
<1>5. DOMAIN pktq.pkts = {1} /\ pktq.pkts[1].what = "flush" /\ pktq.pkts[1].serial = 1
  BY <1>1
<1>6. ~AtNull
  BY <1>2 DEF AtNull, NoPacket
<1>7. Uncycled
  BY <1>1, <1>2, <1>4 DEF Uncycled, ClosePcs
<1>8. Numbers
  BY <1>1, <1>2, <1>5 DEF Numbers
<1>9. Nulls
  BY <1>5, <1>6 DEF Nulls
<1>10. Finished
  BY <1>1, <1>2 DEF Finished
<1> QED BY <1>2, <1>3, <1>4, <1>7, <1>8, <1>9, <1>10 DEF Requested, Drawn

\* An event that is queued, and one that is taken.
LEMMA EventQueued ==
  ASSUME Uncycled, NEW e \in SdlEvents, e.type # "cycle", events' = Append(events, e)
  PROVE  /\ events' \in Seq(SdlEvents) /\ \A i \in DOMAIN events' : events'[i].type # "cycle"
         /\ \A i \in DOMAIN events' : \/ i \in DOMAIN events /\ events'[i] = events[i]
                                      \/ i = Len(events) + 1 /\ events'[i] = e
<1>1. events \in Seq(SdlEvents)
  BY DEF Uncycled
<1>2. /\ events' \in Seq(SdlEvents) /\ Len(events) \in Nat
      /\ DOMAIN events' = 1 .. Len(events) + 1 /\ DOMAIN events = 1 .. Len(events)
      /\ \A i \in 1 .. Len(events) : events'[i] = events[i]
      /\ events'[Len(events) + 1] = e
  BY <1>1, AppendProperties, LenProperties
<1>3. \A i \in DOMAIN events' : \/ i \in DOMAIN events /\ events'[i] = events[i]
                                \/ i = Len(events) + 1 /\ events'[i] = e
  BY <1>2
<1> QED BY <1>2, <1>3 DEF Uncycled

LEMMA EventTaken ==
  ASSUME Uncycled, events # <<>>, events' = Tail(events)
  PROVE  /\ events' \in Seq(SdlEvents) /\ \A i \in DOMAIN events' : events'[i].type # "cycle"
         /\ 1 \in DOMAIN events /\ Head(events) = events[1]
         /\ \A i \in DOMAIN events' : /\ i + 1 \in DOMAIN events /\ events'[i] = events[i + 1]
                                      /\ i \in Nat /\ i > 0
<1>1. events \in Seq(SdlEvents)
  BY DEF Uncycled
<1>2. /\ events' \in Seq(SdlEvents) /\ Len(events) \in Nat /\ Len(events) > 0
      /\ Len(events') = Len(events) - 1 /\ Head(events) = events[1]
      /\ \A i \in 1 .. Len(events') : events'[i] = events[i + 1]
  BY <1>1, HeadTailProperties, LenProperties, EmptySeq
<1>3. DOMAIN events' = 1 .. Len(events) - 1 /\ DOMAIN events = 1 .. Len(events)
  BY <1>1, <1>2, LenProperties
<1>4. \A i \in DOMAIN events' : /\ i + 1 \in DOMAIN events /\ events'[i] = events[i + 1]
                                /\ i \in Nat /\ i > 0
  BY <1>2, <1>3
<1> QED BY <1>2, <1>3, <1>4 DEF Uncycled

\* Steps that write into no slot and neither ask for a picture nor take a request.
LEMMA PicturesKept ==
  ASSUME Requested, Drawn, UNCHANGED dec, Leaving => Leaving',
         frameq'.queue = frameq.queue, frameq'.windex = frameq.windex,
         Filled(frameq') \subseteq Filled(frameq),
         \/ events' = events
         \/ \E e \in SdlEvents : /\ Uncycled /\ e.type \notin {"alloc", "cycle"}
                                 /\ events' = Append(events, e)
  PROVE  Requested' /\ Drawn'
<1>1. \A i \in DOMAIN events' : events'[i].type = "alloc" => i \in DOMAIN events /\ events'[i] = events[i]
  <2>1. CASE events' = events
    BY <2>1
  <2>2. CASE events' # events
    <3>1. PICK e \in SdlEvents : /\ Uncycled /\ e.type \notin {"alloc", "cycle"}
                                 /\ events' = Append(events, e)
      BY <2>2
    <3> QED BY <3>1, EventQueued
  <2> QED BY <2>1, <2>2
<1>2. Requested'
  BY <1>1 DEF Requested
<1>3. Drawn'
  BY DEF Drawn
<1> QED BY <1>2, <1>3

\* read_thread and the packets.
LEMMA FewerNulls ==
  ASSUME Numbers, Nulls, UNCHANGED <<opt, dec>>, ReadOut => ReadOut', pktq'.serial = pktq.serial,
         pktq'.pkts = pktq.pkts \/ pktq'.pkts = <<>>
  PROVE  Numbers' /\ Nulls'
<1>1. AtNull' = AtNull
  BY DEF AtNull
<1>2. CASE pktq'.pkts = pktq.pkts
  BY <1>1, <1>2 DEF Numbers, Nulls, NullAfter
<1>3. CASE pktq'.pkts = <<>>
  BY <1>1, <1>3 DEF Numbers, Nulls, NullAfter
<1> QED BY <1>2, <1>3

LEMMA PutNulls ==
  ASSUME QueueInv, Numbers, Nulls, ~pktq.abort_request, UNCHANGED <<opt, dec>>,
         NEW p \in [what : {"flush", "null", "data"}, n : Nat],
         pktq' = packet_queue_put(pktq, p),
         \/ p = Flush /\ \A i \in DOMAIN pktq.pkts : pktq.pkts[i].what = "flush"
         \/ p.what = "null" /\ ReadOut'
         \/ p.what = "data" /\ ~ReadOut
  PROVE  /\ Numbers' /\ Nulls'
         /\ pktq'.serial = IF p = Flush THEN pktq.serial + 1 ELSE pktq.serial
<1> DEFINE queued == [what |-> p.what, n |-> p.n, serial |-> pktq'.serial]
<1>1. /\ pktq'.serial = IF p = Flush THEN pktq.serial + 1 ELSE pktq.serial
      /\ pktq'.pkts = Append(pktq.pkts, queued) /\ pktq'.serial \in Nat
  BY PutShape DEF QueueInv, PacketQueues
<1>2. /\ queued \in Packets /\ pktq.pkts \in Seq(Packets) /\ pktq.serial \in Nat
      /\ dec.pkt_serial \in Nat /\ dec.finished \in Nat
      /\ \A i \in DOMAIN pktq.pkts : pktq.pkts[i].serial \in Nat
  <2>1. queued \in Packets
    BY <1>1 DEF Packets
  <2>2. pktq.pkts \in Seq(Packets) /\ pktq.serial \in Nat
    BY DEF QueueInv, TypeOK, PacketQueues
  <2>3. \A i \in DOMAIN pktq.pkts : pktq.pkts[i] \in Packets
    BY <2>2, ElementOfSeq, LenProperties
  <2>4. dec.pkt_serial \in Nat /\ dec.finished \in Nat
    BY DEF QueueInv, TypeOK, Decoders
  <2> QED BY <2>1, <2>2, <2>3, <2>4 DEF Packets
<1>3. /\ Len(pktq.pkts) \in Nat /\ DOMAIN pktq.pkts = 1 .. Len(pktq.pkts)
      /\ DOMAIN pktq'.pkts = 1 .. Len(pktq.pkts) + 1
      /\ \A i \in 1 .. Len(pktq.pkts) : pktq'.pkts[i] = pktq.pkts[i]
      /\ pktq'.pkts[Len(pktq.pkts) + 1] = queued
  BY <1>1, <1>2, AppendProperties, LenProperties
<1>4. \A i \in DOMAIN pktq'.pkts :
        \/ i \in DOMAIN pktq.pkts /\ pktq'.pkts[i] = pktq.pkts[i]
        \/ i = Len(pktq.pkts) + 1 /\ pktq'.pkts[i] = queued
  BY <1>3
<1>5. queued.what = p.what /\ queued.serial = pktq'.serial
  OBVIOUS
<1> HIDE DEF queued
<1>6. Numbers'
  <2>1. pktq.serial <= pktq'.serial /\ pktq'.serial > 0
    BY <1>1, <1>2 DEF Numbers
  <2>2. dec'.pkt_serial <= pktq'.serial /\ dec'.finished <= pktq'.serial
    BY <1>1, <1>2, <2>1 DEF Numbers
  <2>3. \A i \in DOMAIN pktq'.pkts : pktq'.pkts[i].serial <= pktq'.serial
    BY <1>1, <1>2, <1>4, <1>5, <2>1 DEF Numbers
  <2> QED BY <2>1, <2>2, <2>3 DEF Numbers
<1>7. Nulls'
  <2>1. CASE p = Flush /\ \A i \in DOMAIN pktq.pkts : pktq.pkts[i].what = "flush"
    <3>1. \A i \in DOMAIN pktq'.pkts : pktq'.pkts[i].what = "flush"
      BY <1>4, <1>5, <2>1 DEF Flush
    <3>2. ~AtNull'
      BY <1>1, <1>2, <2>1 DEF Numbers, AtNull
    <3> QED BY <3>1, <3>2 DEF Nulls
  <2>2. CASE p.what = "null" /\ ReadOut'
    <3>1. p # Flush /\ AtNull' = AtNull
      BY <1>1, <2>2 DEF Flush, AtNull
    <3>2. ASSUME NEW i \in DOMAIN pktq'.pkts, pktq'.pkts[i].what = "null"
          PROVE  NullAfter(pktq'.pkts, i)
      <4>1. SUFFICES ASSUME NEW j \in DOMAIN pktq'.pkts, j > i PROVE pktq'.pkts[j].what = "null"
        BY DEF NullAfter
      <4>2. CASE j \in DOMAIN pktq.pkts
        <5>1. i \in DOMAIN pktq.pkts
          BY <1>3, <4>1, <4>2
        <5> QED BY <1>3, <3>2, <4>1, <4>2, <5>1 DEF Nulls, NullAfter
      <4> QED BY <1>4, <1>5, <2>2, <4>2
    <3>3. AtNull => NullAfter(pktq'.pkts, 0)
      BY <1>3, <1>4, <1>5, <2>2 DEF Nulls, NullAfter
    <3> QED BY <2>2, <3>1, <3>2, <3>3 DEF Nulls
  <2>3. CASE p.what = "data" /\ ~ReadOut
    <3>1. p # Flush /\ AtNull' = AtNull
      BY <1>1, <2>3 DEF Flush, AtNull
    <3>2. \A i \in DOMAIN pktq'.pkts : pktq'.pkts[i].what # "null"
      BY <1>4, <1>5, <2>3 DEF Nulls
    <3> QED BY <2>3, <3>1, <3>2 DEF Nulls
  <2> QED BY <2>1, <2>2, <2>3
<1> QED BY <1>1, <1>6, <1>7

LEMMA ReaderPackets ==
  ASSUME QueueInv, Drawing, Uncycled, Numbers, Nulls, Finished, Reader
  PROVE  Numbers' /\ Nulls' /\ Finished'
<1>1. UNCHANGED <<opt, dec, mn, frameq>> /\ Leaving' = Leaving
  BY DEF Reader, ReadLoop, SeekNothing, SeekFlush, SeekPut, SeekStep, ReadWait, ReadEnd,
         ReadFrame, ReadError, ReadWaitEnd, ReadClose, ReadGone, queues, user, Leaving, Closing
<1>2. CASE SeekPut
  <2>1. /\ \A i \in DOMAIN pktq.pkts : pktq.pkts[i].what = "flush"
        /\ Flush \in [what : {"flush", "null", "data"}, n : Nat]
        /\ ~pktq.abort_request /\ pktq' = packet_queue_put(pktq, Flush)
        /\ rd'.pc \in {"step", "fill"}
    BY <1>2 DEF SeekPut, SeekDone, Put, QueueInv, TypeOK, ReadThreads, Serials, Flush, Uncycled, ClosePcs
  <2>2. /\ Numbers' /\ Nulls' /\ pktq'.serial = pktq.serial + 1
        /\ pktq'.abort_request = pktq.abort_request
    BY <1>1, <2>1, PutNulls, PutPackets
  <2>3. dec'.finished # pktq'.serial
    BY <1>1, <2>2 DEF Numbers, QueueInv, TypeOK, PacketQueues, Decoders
  <2> QED BY <2>1, <2>2, <2>3 DEF Finished
<1>3. CASE ReadFrame
  <2>1. rd.pc = "read" /\ ~pktq.abort_request /\ is.stream /\ rd'.pc = "loop"
    BY <1>3 DEF ReadFrame, Uncycled, ClosePcs, QueueInv, TypeOK, ReadThreads
  <2>2. /\ Numbers' /\ Nulls' /\ pktq'.serial = pktq.serial
        /\ pktq'.abort_request = pktq.abort_request
    <3>1. CASE rd.pos = opt.FileLen /\ rd.eof
      <4>1. pktq' = pktq /\ rd'.pos = rd.pos
        BY <1>3, <3>1 DEF ReadFrame, QueueInv, TypeOK, ReadThreads
      <4> QED BY <1>1, <3>1, <4>1, FewerNulls DEF ReadOut
    <3>2. CASE rd.pos = opt.FileLen /\ ~rd.eof
      <4>1. pktq' = packet_queue_put(pktq, Null) /\ rd'.pos = rd.pos
        BY <1>3, <2>1, <3>2 DEF ReadFrame, Put, QueueInv, TypeOK, ReadThreads
      <4>2. /\ Null \in [what : {"flush", "null", "data"}, n : Nat] /\ Null # Flush
            /\ Null.what = "null"
        BY DEF Null, Flush
      <4> QED BY <1>1, <2>1, <3>2, <4>1, <4>2, PutNulls, PutPackets DEF ReadOut
    <3>3. CASE rd.pos # opt.FileLen
      <4>1. pktq' = packet_queue_put(pktq, Data(rd.pos + 1)) /\ rd.pos + 1 \in Nat
        BY <1>3, <2>1, <3>3 DEF ReadFrame, Put, QueueInv, TypeOK, ReadThreads
      <4>2. /\ Data(rd.pos + 1) \in [what : {"flush", "null", "data"}, n : Nat]
            /\ Data(rd.pos + 1) # Flush /\ Data(rd.pos + 1).what = "data"
        BY <4>1 DEF Data, Flush
      <4>3. ~ReadOut
        BY <2>1, <3>3 DEF ReadOut, ClosePcs
      <4> QED BY <1>1, <2>1, <4>1, <4>2, <4>3, PutNulls, PutPackets
    <3> QED BY <3>1, <3>2, <3>3
  <2> QED BY <1>1, <2>1, <2>2 DEF Finished, AtNull
<1>4. CASE SeekFlush \/ ReadClose
  <2>1. /\ rd'.pos = rd.pos /\ rd'.pc # "close" /\ pktq'.serial = pktq.serial
        /\ pktq'.pkts = pktq.pkts \/ pktq'.pkts = <<>>
        /\ pktq'.abort_request => pktq.abort_request \/ rd.pc = "close"
        /\ rd.pc = "seek" \/ rd'.pc \in ClosePcs \cup {"closed"}
    <3>1. CASE SeekFlush
      BY <3>1 DEF SeekFlush, ReadStep, packet_queue_flush, QueueInv, TypeOK, ReadThreads, PacketQueues
    <3>2. CASE rd.pc = "close" /\ rd' = [rd EXCEPT !.pc = "closed"] /\ UNCHANGED <<queues, is, cb>>
      BY <3>2 DEF queues, QueueInv, TypeOK, ReadThreads
    <3>3. CASE rd.pc \in ClosePcs /\ \E next \in ClosePcs \cup {"closed"} :
                 Closing(rd.pc, next) /\ rd' = [rd EXCEPT !.pc = next]
      <4>1. PICK next \in ClosePcs \cup {"closed"} :
                   Closing(rd.pc, next) /\ rd' = [rd EXCEPT !.pc = next]
        BY <3>3
      <4>2. next # "close"
        BY <3>3, <4>1 DEF Closing, ClosePcs
      <4>3. rd'.pos = rd.pos /\ rd'.pc = next
        BY <4>1 DEF QueueInv, TypeOK, ReadThreads
      <4> QED BY <3>3, <4>1, <4>2, <4>3, ClosingShape
    <3> QED BY <1>4, <3>1, <3>2, <3>3 DEF ReadClose
  <2>2. Numbers' /\ Nulls'
    <3>1. ReadOut => ReadOut'
      BY <1>1, <2>1 DEF ReadOut, ClosePcs
    <3> QED BY <1>1, <2>1, <3>1, FewerNulls
  <2>3. AtNull' = AtNull
    BY <1>1, <2>1 DEF AtNull
  <2> QED BY <1>1, <2>1, <2>2, <2>3 DEF Finished
<1>5. CASE ReadLoop \/ SeekNothing \/ SeekStep \/ ReadWait \/ ReadEnd \/ ReadWaitEnd \/ ReadGone
  <2>1. /\ pktq' = pktq /\ rd'.pos = rd.pos
        /\ rd'.pc \in {"close", "gone"} \/ rd.pc \in {"loop", "seek", "step", "fill", "end"}
    <3>1. SeekNothing => is.stream
      BY DEF SeekNothing, Uncycled, QueueInv, TypeOK, Flags
    <3> QED BY <1>5, <3>1 DEF ReadLoop, SeekNothing, SeekDone, SeekStep, ReadWait, ReadEnd, ReadWaitEnd,
                     ReadGone, ReadStep, queues, QueueInv, TypeOK, ReadThreads
  <2>2. rd'.pc = "close" /\ ~Leaving => dec.finished = pktq.serial
    <3>1. CASE ReadLoop
      BY <3>1 DEF ReadLoop, ReadStep, Uncycled, QueueInv, TypeOK, ReadThreads, Flags
    <3>2. CASE ReadEnd
      <4>1. opt.kind # "subtitle" /\ (rd'.pc = "close" => AllShown)
        BY <3>2 DEF ReadEnd, Drawing, QueueInv, TypeOK, ReadThreads
      <4>2. is.stream
        BY <3>2 DEF ReadEnd, Uncycled
      <4> QED BY <4>1, <4>2 DEF AllShown
    <3>3. CASE SeekNothing \/ SeekStep \/ ReadWait \/ ReadGone
      BY <3>3 DEF SeekNothing, SeekDone, SeekStep, ReadWait, ReadGone, ReadStep, QueueInv, TypeOK, ReadThreads
    <3>4. CASE ReadWaitEnd
      BY <3>4 DEF ReadWaitEnd, Uncycled
    <3> QED BY <1>5, <3>1, <3>2, <3>3, <3>4
  <2>3. Numbers' /\ Nulls'
    <3>1. ReadOut => ReadOut'
      BY <1>1, <2>1 DEF ReadOut, ClosePcs
    <3> QED BY <1>1, <2>1, <3>1, FewerNulls
  <2>4. AtNull' = AtNull
    BY <1>1, <2>1 DEF AtNull
  <2> QED BY <1>1, <2>1, <2>2, <2>3, <2>4 DEF Finished
<1>6. CASE ReadError
  <2>1. /\ rd.pc = "read" /\ ~pktq.abort_request /\ rd'.pc = "wait"
        /\ pktq' = pktq \/ pktq' = packet_queue_put(pktq, Null)
    BY <1>6 DEF ReadError, Put, Uncycled, ClosePcs, QueueInv, TypeOK, ReadThreads
  <2>2. ReadOut'
    BY <2>1 DEF ReadOut
  <2>3. /\ Null \in [what : {"flush", "null", "data"}, n : Nat] /\ Null # Flush
        /\ Null.what = "null"
    BY DEF Null, Flush
  <2>4. /\ Numbers' /\ Nulls' /\ pktq'.serial = pktq.serial
        /\ pktq'.abort_request = pktq.abort_request
    <3>1. CASE pktq' = pktq
      BY <1>1, <2>2, <3>1, FewerNulls
    <3>2. CASE pktq' = packet_queue_put(pktq, Null)
      BY <1>1, <2>1, <2>2, <2>3, <3>2, PutNulls, PutPackets
    <3> QED BY <2>1, <3>1, <3>2
  <2> QED BY <1>1, <2>1, <2>4 DEF Finished, AtNull
<1> QED BY <1>2, <1>3, <1>4, <1>5, <1>6 DEF Reader

LEMMA ReaderUncycled ==
  ASSUME QueueInv, Drawing, Uncycled, Reader
  PROVE  /\ Uncycled'
         /\ \/ events' = events
            \/ \E e \in SdlEvents : /\ e.type \notin {"alloc", "cycle"}
                                    /\ events' = Append(events, e)
<1>1. UNCHANGED mn
  BY DEF Reader, ReadLoop, SeekNothing, SeekFlush, SeekPut, SeekStep, ReadWait, ReadEnd,
         ReadFrame, ReadError, ReadWaitEnd, ReadClose, ReadGone
<1>2. \/ events' = events
      \/ \E e \in SdlEvents : /\ e.type \notin {"alloc", "cycle"}
                              /\ events' = Append(events, e)
  <2>1. CASE ReadGone
    <3>1. [type |-> "quit"] \in SdlEvents
      BY DEF SdlEvents, AllKeys
    <3> QED BY <2>1, <3>1 DEF ReadGone
  <2> QED BY <2>1 DEF Reader, ReadLoop, SeekNothing, SeekFlush, SeekPut, SeekStep, ReadWait, ReadEnd,
         ReadFrame, ReadError, ReadWaitEnd, ReadClose
<1>3. events' \in Seq(SdlEvents) /\ \A i \in DOMAIN events' : events'[i].type # "cycle"
  BY <1>2, EventQueued DEF Uncycled
<1>4. /\ is'.abort_request = is.abort_request
      /\ ~is'.stream => rd'.pc \in {"closed", "gone"}
      /\ pktq'.abort_request => rd'.pc \in (ClosePcs \ {"close"}) \cup {"closed", "gone"}
  <2>1. CASE ReadClose
    <3>1. CASE rd.pc = "close" /\ ~is.stream
      BY <3>1 DEF Uncycled
    <3>2. CASE rd.pc \in ClosePcs /\ \E next \in ClosePcs \cup {"closed"} :
                 Closing(rd.pc, next) /\ rd' = [rd EXCEPT !.pc = next]
      <4>1. PICK next \in ClosePcs \cup {"closed"} :
                   Closing(rd.pc, next) /\ rd' = [rd EXCEPT !.pc = next]
        BY <3>2
      <4>2. /\ is' = is \/ (is' = [is EXCEPT !.stream = FALSE] /\ next = "closed")
            /\ next # "close"
        BY <3>2, <4>1 DEF Closing, ClosePcs
      <4>3. rd'.pc = next /\ is.stream
        BY <3>2, <4>1 DEF QueueInv, TypeOK, ReadThreads, Uncycled, ClosePcs, Flags
      <4> QED BY <4>1, <4>2, <4>3 DEF QueueInv, TypeOK, Flags
    <3> QED BY <2>1, <3>1, <3>2 DEF ReadClose
  <2>2. CASE SeekPut \/ ReadFrame \/ ReadError
    <3>1. \/ pktq' = pktq
          \/ \E p \in {Flush, Null, Data(rd.pos + 1)} : pktq' = packet_queue_put(pktq, p)
      BY <2>2 DEF SeekPut, ReadFrame, ReadError, Put
    <3>2. pktq'.abort_request = pktq.abort_request
      BY <3>1 DEF packet_queue_put, QueueInv, TypeOK, PacketQueues
    <3>3. is'.abort_request = is.abort_request /\ is'.stream = is.stream
      BY <2>2 DEF SeekPut, ReadFrame, ReadError, SeekDone, QueueInv, TypeOK, Flags
    <3>4. rd.pc \in {"seek_put", "read"}
      BY <2>2 DEF SeekPut, ReadFrame, ReadError
    <3> QED BY <3>2, <3>3, <3>4 DEF Uncycled, ClosePcs
  <2>3. CASE \/ SeekFlush \/ ReadLoop \/ SeekNothing \/ SeekStep \/ ReadWait \/ ReadEnd
             \/ ReadWaitEnd \/ ReadGone
    <3>1. /\ pktq'.abort_request = pktq.abort_request
          /\ is'.abort_request = is.abort_request /\ is'.stream = is.stream
      BY <2>3 DEF SeekFlush, ReadLoop, SeekNothing, SeekDone, SeekStep, ReadWait, ReadEnd,
                  ReadWaitEnd, ReadGone, ReadStep, queues, packet_queue_flush, QueueInv, TypeOK, Flags,
                  PacketQueues
    <3>2. \/ rd.pc \in {"seek", "loop", "step", "fill", "end", "wait"}
          \/ rd.pc = "closed" /\ rd'.pc = "gone"
      BY <2>3 DEF SeekFlush, ReadLoop, SeekNothing, SeekStep, ReadWait, ReadEnd,
                  ReadWaitEnd, ReadGone, ReadStep, QueueInv, TypeOK, ReadThreads
    <3> QED BY <3>1, <3>2 DEF Uncycled, ClosePcs
  <2> QED BY <2>1, <2>2, <2>3 DEF Reader
<1> QED BY <1>1, <1>2, <1>3, <1>4 DEF Uncycled, Leaving

LEMMA ReaderDraws == ASSUME QueueInv, DrawInv, Reader PROVE DrawInv'
<1>1. UNCHANGED <<opt, dec, mn, frameq>>
  BY DEF Reader, ReadLoop, SeekNothing, SeekFlush, SeekPut, SeekStep, ReadWait, ReadEnd,
         ReadFrame, ReadError, ReadWaitEnd, ReadClose, ReadGone, queues, user, Closing
<1> SUFFICES ASSUME Drawing
             PROVE  Uncycled' /\ Numbers' /\ Nulls' /\ Finished' /\ Requested' /\ Drawn'
  BY <1>1 DEF DrawInv, Drawing
<1>2. Uncycled /\ Numbers /\ Nulls /\ Finished /\ Requested /\ Drawn
  BY DEF DrawInv
<1>3. Requested' /\ Drawn'
  BY <1>1, <1>2, ReaderUncycled, PicturesKept DEF Leaving
<1> QED BY <1>2, <1>3, ReaderUncycled, ReaderPackets

\* The decoder and the packets.
SameDecoder == /\ dec'.pkt = dec.pkt /\ dec'.pkt_serial = dec.pkt_serial
               /\ dec'.finished = dec.finished /\ dec'.held = dec.held

LEMMA DecoderPackets ==
  ASSUME QueueInv, Drawing, Numbers, Nulls, Finished, Decoder
  PROVE  Numbers' /\ Nulls' /\ Finished'
<1>1. /\ UNCHANGED <<opt, is, rd, mn>> /\ Leaving' = Leaving /\ opt.kind = "video"
  BY DEF Decoder, Decoding, Decode, packet_queue_get, GotPacket, Codec, ThreadExit, VideoThread,
         QueuePicture, PushPicture, QueueSamples, SubtitleThread, PeekWritable, QueueSubtitle,
         user, Leaving, Drawing
<1>2. pktq.serial \in Nat /\ dec.pkt_serial \in Nat /\ dec.finished \in Nat
  BY DEF QueueInv, TypeOK, PacketQueues, Decoders
<1>0. ReadOut' = ReadOut
  BY <1>1 DEF ReadOut
<1>3. CASE /\ pktq' = pktq /\ SameDecoder
           /\ dec'.pc = "queue" => dec.pc = "queue"
           /\ dec'.pc = "alloc" => \/ dec.pc = "alloc"
                                   \/ dec.pc = "queue" /\ ~pktq.abort_request
  <2>1. AtNull' = AtNull
    BY <1>3 DEF AtNull, SameDecoder
  <2> QED BY <1>0, <1>1, <1>3, <2>1 DEF Numbers, Nulls, Finished, SameDecoder
<1>4. CASE Codec
  <2>1. /\ pktq' = pktq /\ dec'.pkt = dec.pkt /\ dec'.pkt_serial = dec.pkt_serial
        /\ dec'.pc \in {"queue", "decode"}
        /\ \/ /\ dec'.finished = dec.finished
              /\ \/ dec.pkt.what # "null" \/ dec.held # <<>>
                 \/ dec'.held = dec.held /\ dec'.pc = "decode"
           \/ /\ dec'.finished = dec.pkt_serial /\ dec.pkt.what = "null"
              /\ dec'.held = <<>> /\ dec'.pc = "decode"
    BY <1>4 DEF Codec, Decoded, queues, QueueInv, TypeOK, Decoders
  <2>2. AtNull' = AtNull
    BY <2>1 DEF AtNull
  <2>3. Numbers' /\ Nulls'
    BY <1>0, <1>1, <2>1, <2>2 DEF Numbers, Nulls
  <2>4. dec.finished = pktq.serial => dec.pkt.what = "null" /\ dec.held = <<>>
    BY DEF Finished, AtNull
  <2>5. Finished'
    BY <1>1, <2>1, <2>2, <2>4 DEF Finished, AtNull
  <2> QED BY <2>3, <2>5
<1> DEFINE p == Head(pktq.pkts)
<1>5. CASE /\ packet_queue_get /\ pktq.pkts # <<>> /\ pktq' = [pktq EXCEPT !.pkts = Tail(@)]
           /\ dec'.pc = "got" /\ dec'.pkt = p /\ dec'.pkt_serial = p.serial
           /\ IF p.what = "flush" THEN dec'.finished = 0 /\ dec'.held = <<>>
              ELSE dec'.finished = dec.finished /\ dec'.held = dec.held
  <2>1. pktq.pkts \in Seq(Packets)
    BY DEF QueueInv, TypeOK, PacketQueues
  <2>2. /\ 1 \in DOMAIN pktq.pkts /\ p = pktq.pkts[1]
        /\ pktq'.pkts = Tail(pktq.pkts) /\ pktq'.serial = pktq.serial
        /\ pktq'.abort_request = pktq.abort_request
        /\ \A i \in DOMAIN Tail(pktq.pkts) : /\ i + 1 \in DOMAIN pktq.pkts /\ i \in Nat
                                             /\ Tail(pktq.pkts)[i] = pktq.pkts[i + 1]
    <3>1. /\ Tail(pktq.pkts) \in Seq(Packets) /\ Len(pktq.pkts) \in Nat /\ Len(pktq.pkts) > 0
          /\ Len(Tail(pktq.pkts)) = Len(pktq.pkts) - 1 /\ p = pktq.pkts[1]
          /\ \A i \in 1 .. Len(Tail(pktq.pkts)) : Tail(pktq.pkts)[i] = pktq.pkts[i + 1]
      BY <1>5, <2>1, HeadTailProperties, LenProperties, EmptySeq
    <3>2. DOMAIN pktq.pkts = 1 .. Len(pktq.pkts) /\ DOMAIN Tail(pktq.pkts) = 1 .. Len(pktq.pkts) - 1
      BY <2>1, <3>1, LenProperties
    <3>3. /\ pktq'.pkts = Tail(pktq.pkts) /\ pktq'.serial = pktq.serial
          /\ pktq'.abort_request = pktq.abort_request
      BY <1>5 DEF QueueInv, TypeOK, PacketQueues
    <3> QED BY <3>1, <3>2, <3>3
  <2> HIDE DEF p
  <2>3. Numbers'
    <3>1. dec'.finished <= pktq'.serial
      BY <1>2, <1>5, <2>2 DEF Numbers
    <3> QED BY <1>5, <2>2, <3>1 DEF Numbers
  <2>4. ASSUME NEW i \in Nat, NullAfter(pktq.pkts, i + 1) PROVE NullAfter(pktq'.pkts, i)
    BY <2>2, <2>4 DEF NullAfter
  <2>5. Nulls'
    <3>1. ASSUME NEW i \in DOMAIN pktq'.pkts, pktq'.pkts[i].what = "null"
          PROVE  ReadOut' /\ NullAfter(pktq'.pkts, i)
      BY <1>0, <2>2, <2>4, <3>1 DEF Nulls
    <3>2. AtNull' => ReadOut' /\ NullAfter(pktq'.pkts, 0)
      BY <1>0, <1>5, <2>2, <2>4 DEF Nulls, AtNull
    <3> QED BY <3>1, <3>2 DEF Nulls
  <2>6. dec.finished = pktq.serial => p.what = "null" /\ p.serial = pktq.serial /\ dec.held = <<>>
    BY <2>2 DEF Finished, Nulls, NullAfter, QueueInv, Serials, PacketsCurrent
  <2>7. Finished'
    <3>1. dec'.finished = pktq.serial => dec.finished = pktq.serial
      BY <1>2, <1>5 DEF Numbers
    <3>2. dec.finished = pktq.serial => dec'.finished = pktq.serial /\ dec'.held = <<>> /\ AtNull'
      BY <1>5, <2>2, <2>6 DEF AtNull
    <3> QED BY <1>1, <1>5, <2>2, <3>1, <3>2 DEF Finished
  <2> QED BY <2>3, <2>5, <2>7
<1>6. CASE packet_queue_get
  <2> DEFINE t == [dec EXCEPT !.pc = "got", !.pkt = p, !.pkt_serial = p.serial]
  <2>1. CASE pktq' = pktq /\ (DecGoes("exit") \/ DecSleeps("pq"))
    <3>1. SameDecoder /\ dec'.pc \in {"exit", dec.pc}
      BY <2>1 DEF SameDecoder, DecGoes, DecSleeps, QueueInv, TypeOK, Decoders
    <3>2. dec.pc = "get"
      BY <1>6 DEF packet_queue_get, Thread
    <3> QED BY <1>3, <2>1, <3>1, <3>2
  <2>2. CASE /\ pktq.pkts # <<>> /\ pktq' = [pktq EXCEPT !.pkts = Tail(@)]
             /\ dec' = IF p.what = "flush" THEN Emptied(t) ELSE t
    <3> HIDE DEF p
    <3>1. /\ t.pc = "got" /\ t.pkt = p /\ t.pkt_serial = p.serial
          /\ t.finished = dec.finished /\ t.held = dec.held
      BY DEF QueueInv, TypeOK, Decoders
    <3>2. LET e == Emptied(t)
          IN /\ e.pc = "got" /\ e.pkt = p /\ e.pkt_serial = p.serial
             /\ e.finished = 0 /\ e.held = <<>>
      BY DEF Emptied, QueueInv, TypeOK, Decoders
    <3> HIDE DEF t
    <3> QED BY <1>5, <1>6, <2>2, <3>1, <3>2
  <2> QED BY <1>6, <2>1, <2>2 DEF packet_queue_get
<1>7. CASE Decode \/ GotPacket \/ ThreadExit \/ PeekWritable \/ QueuePicture \/ PushPicture
  <2>1. pktq' = pktq
    BY <1>7 DEF Decode, GotPacket, ThreadExit, PeekWritable, QueuePicture, PushPicture, queues
  <2>2. /\ SameDecoder
        /\ dec'.pc = "queue" => dec.pc = "queue"
        /\ dec'.pc = "alloc" => \/ dec.pc = "alloc"
                                \/ dec.pc = "queue" /\ ~pktq.abort_request
    BY <1>7 DEF Decode, GotPacket, ThreadExit, PeekWritable, QueuePicture, PushPicture, NotWritable,
                Writable, Thread, DecGoes, DecSleeps, SameDecoder, QueueInv, TypeOK, Decoders
  <2> QED BY <1>3, <2>1, <2>2
<1> QED BY <1>1, <1>4, <1>6, <1>7
        DEF Decoder, Decoding, VideoThread, SubtitleThread, QueueSamples, QueueSubtitle

\* video_thread and its pictures.
LEMMA PicturesAsked ==
  ASSUME QueueInv, Drawing, Uncycled, Finished, Requested, Drawn, QueuePicture \/ PushPicture
  PROVE  /\ events' \in Seq(SdlEvents) /\ \A i \in DOMAIN events' : events'[i].type # "cycle"
         /\ Requested' /\ Drawn'
<1>1. /\ UNCHANGED <<pktq, is, rd, mn>> /\ Leaving' = Leaving
      /\ frameq \in FrameQueues /\ frameq.windex \in Slots /\ dec \in Decoders
      /\ Filled(frameq) \subseteq Slots
  <2>1. Filled(frameq) \subseteq Slots
    <3>1. ASSUME NEW k \in 0 .. frameq.size - 1 PROVE Slot(frameq, k) \in Slots
      <4>1. frameq.rindex \in 0 .. MaxSize - 1 /\ k \in 0 .. MaxSize
        BY QueueAssumption DEF QueueInv, TypeOK, FrameQueues, Ring, Slots
      <4> QED BY <4>1, Wrap DEF Slot, Slots
    <3> QED BY <3>1 DEF Filled
  <2> QED BY <2>1 DEF QueuePicture, PushPicture, Leaving, QueueInv, TypeOK, FrameQueues
<1> DEFINE w == frameq.windex
<1>2. AllocEvent \in SdlEvents /\ AllocEvent.type = "alloc" /\ AllocEvent.gen = dec.gen
  BY <1>1 DEF AllocEvent, SdlEvents, Decoders
<1>3. CASE /\ QueuePicture /\ Writable /\ DecGoes("alloc") /\ frameq' = Reserve(frameq)
           /\ events' = Append(events, AllocEvent)
  <2>1. PICK slot \in Frames :
               /\ Requesting(slot, frameq.queue[w])
               /\ Reserve(frameq) = [frameq EXCEPT !.queue = [@ EXCEPT ![w] = slot]]
    BY SlotWrites
  <2>2. /\ frameq'.size = frameq.size /\ frameq'.rindex = frameq.rindex /\ frameq'.windex = w
        /\ frameq'.queue = [frameq.queue EXCEPT ![w] = slot]
    BY <1>3, <2>1, SlotWritten
  <2>3. /\ \A i \in Slots : /\ frameq'.queue[i].drawn = frameq.queue[i].drawn
                            /\ frameq'.queue[i].serial = frameq.queue[i].serial
                            /\ frameq'.queue[i].n = frameq.queue[i].n
        /\ frameq'.queue[w].allocated = FALSE
    BY <1>1, <2>1, <2>2 DEF Requesting, FrameQueues
  <2>4. Filled(frameq') = Filled(frameq)
    BY <2>2 DEF Filled, Slot
  <2>5. dec.pc = "queue" /\ dec'.pc = "alloc" /\ dec'.gen = dec.gen
    BY <1>1, <1>3 DEF QueuePicture, Thread, DecGoes, Decoders
  <2>6. Drawn'
    BY <1>1, <2>2, <2>3, <2>4 DEF Drawn
  <2>7. ~Leaving => \A i \in DOMAIN events : events[i].type # "alloc"
    BY <2>5 DEF Requested
  <2>8. /\ events' \in Seq(SdlEvents) /\ \A i \in DOMAIN events' : events'[i].type # "cycle"
        /\ \A i \in DOMAIN events' : \/ i \in DOMAIN events /\ events'[i] = events[i]
                                     \/ i = Len(events) + 1 /\ events'[i] = AllocEvent
    BY <1>2, <1>3, EventQueued
  <2>9. Requested'
    BY <1>1, <1>2, <2>2, <2>3, <2>5, <2>7, <2>8 DEF Requested
  <2> QED BY <2>6, <2>8, <2>9
<1>4. CASE /\ dec.pc = "alloc" /\ pktq.abort_request /\ DecGoes("exit") /\ frameq' = frameq
           /\ events' = Append(events, AllocEvent)
  <2>1. Leaving'
    BY <1>1, <1>4 DEF Finished
  <2>2. events' \in Seq(SdlEvents) /\ \A i \in DOMAIN events' : events'[i].type # "cycle"
    BY <1>2, <1>4, EventQueued
  <2>3. dec'.pc = "exit"
    BY <1>1, <1>4 DEF DecGoes, Decoders
  <2> QED BY <1>4, <2>1, <2>2, <2>3 DEF Requested, Drawn
<1>5. CASE /\ dec.pc = "alloc" /\ frameq.queue[w].allocated /\ DecGoes("decode")
           /\ frameq' = frame_queue_push(Filled_in) /\ events' = events
  <2>1. frameq.size < MaxSize
    BY <1>5 DEF QueueInv, Ring, Reserved
  <2>2. PICK slot \in Frames :
               /\ Queueing(slot, frameq.queue[w])
               /\ Filled_in = [frameq EXCEPT !.queue = [@ EXCEPT ![w] = slot]]
    BY SlotWrites
  <2>3. /\ IsRing(Filled_in) /\ Filled_in.size = frameq.size /\ Filled_in.windex = w
        /\ Filled_in.rindex = frameq.rindex
        /\ Filled_in.queue = [frameq.queue EXCEPT ![w] = slot]
    BY <2>2, SlotWritten
  <2>4. frameq'.queue = Filled_in.queue /\ Filled(frameq') \subseteq Filled(Filled_in) \cup {w}
    BY <1>5, <2>1, <2>3, PushShape, PushedSlots
  <2>5. Filled(Filled_in) = Filled(frameq)
    BY <2>3 DEF Filled, Slot
  <2>6. /\ frameq'.queue[w] = slot
        /\ \A i \in Slots \ {w} : frameq'.queue[i] = frameq.queue[i]
    BY <1>1, <2>3, <2>4 DEF FrameQueues
  <2>7. slot.drawn = <<slot.serial, slot.n>>
    BY <1>5, <2>2 DEF Drawn, Queueing
  <2>8. dec'.pc = "decode"
    BY <1>1, <1>5 DEF DecGoes, Decoders
  <2>9. Drawn'
    BY <1>1, <2>4, <2>5, <2>6, <2>7, <2>8 DEF Drawn
  <2>10. Requested'
    BY <1>1, <1>5 DEF Requested
  <2> QED BY <1>5, <2>9, <2>10 DEF Uncycled
<1>6. CASE frameq' = frameq /\ events' = events /\ (dec' = dec \/ (DecGoes("exit") /\ dec.pc = "queue"))
  <2>1. dec' = dec \/ (dec.pc = "queue" /\ dec'.pc = "exit")
    BY <1>1, <1>6 DEF DecGoes, Decoders
  <2> QED BY <1>1, <1>6, <2>1 DEF Requested, Drawn, Uncycled
<1> QED BY <1>3, <1>4, <1>5, <1>6 DEF QueuePicture, PushPicture, NotWritable, Thread, DecSleeps

LEMMA DecoderDraws == ASSUME QueueInv, DrawInv, Decoder PROVE DrawInv'
<1>1. UNCHANGED <<opt, is, rd, mn>>
  BY DEF Decoder, Decoding, Decode, packet_queue_get, GotPacket, Codec, ThreadExit, VideoThread,
         QueuePicture, PushPicture, QueueSamples, SubtitleThread, PeekWritable, QueueSubtitle, user
<1> SUFFICES ASSUME Drawing
             PROVE  Uncycled' /\ Numbers' /\ Nulls' /\ Finished' /\ Requested' /\ Drawn'
  BY <1>1 DEF DrawInv, Drawing
<1>2. Uncycled /\ Numbers /\ Nulls /\ Finished /\ Requested /\ Drawn
  BY DEF DrawInv
<1>3. /\ events' \in Seq(SdlEvents) /\ \A i \in DOMAIN events' : events'[i].type # "cycle"
      /\ Requested' /\ Drawn'
  <2>1. CASE QueuePicture \/ PushPicture
    BY <1>2, <2>1, PicturesAsked
  <2>2. CASE Decoding \/ PeekWritable
    <3>1. UNCHANGED <<frameq, events, mn>>
      BY <2>2 DEF Decoding, Decode, packet_queue_get, GotPacket, Codec, ThreadExit, PeekWritable, queues
    <3>2. dec.pc # "alloc" /\ (dec' = dec \/ dec'.pc # "alloc")
      BY <2>2 DEF Decoding, Decode, packet_queue_get, Emptied, GotPacket, Codec, Decoded, ThreadExit,
                  PeekWritable, NotWritable, Thread, DecGoes, DecSleeps, QueueInv, TypeOK, Decoders
    <3> QED BY <1>2, <3>1, <3>2 DEF Requested, Drawn, Uncycled, Leaving
  <2> QED BY <2>1, <2>2
          DEF Decoder, VideoThread, SubtitleThread, QueueSamples, QueueSubtitle, Drawing
<1>4. pktq'.abort_request = pktq.abort_request
  <2>1. pktq' = pktq \/ pktq' = [pktq EXCEPT !.pkts = Tail(@)]
    BY DEF Decoder, Decoding, Decode, packet_queue_get, GotPacket, Codec, ThreadExit, VideoThread,
           QueuePicture, PushPicture, QueueSamples, SubtitleThread, PeekWritable, QueueSubtitle, queues
  <2> QED BY <2>1 DEF QueueInv, TypeOK, PacketQueues
<1>5. Uncycled'
  BY <1>1, <1>2, <1>3, <1>4 DEF Uncycled, Leaving
<1> QED BY <1>2, <1>3, <1>5, DecoderPackets

\* The main thread: pictures are drawn, shown and passed over, and events handled.
LEMMA MainPictures ==
  ASSUME QueueInv, Drawing, Uncycled, Requested, Drawn, Main
  PROVE  /\ events' \in Seq(SdlEvents) /\ \A i \in DOMAIN events' : events'[i].type # "cycle"
         /\ Requested' /\ Drawn' /\ UNCHANGED <<opt, pktq, rd, dec>>
         /\ mn'.pc \notin ClosePcs \cup {"closed"}
         /\ is'.abort_request => is.abort_request \/ Leaving'
         /\ is'.stream = is.stream
         /\ Leaving => Leaving'
<1>0. /\ TypeOK /\ Kinds /\ opt.kind = "video"
      /\ frameq \in FrameQueues /\ frameq.windex \in Slots /\ IsRing(frameq)
      /\ is \in Flags /\ mn \in MainThreads
  BY RingNow DEF QueueInv, TypeOK, FrameQueues, Drawing
<1> DEFINE w == frameq.windex
<1>1. CASE alloc_picture
  <2>1. /\ events # <<>> /\ Head(events).type = "alloc" /\ events' = Tail(events) /\ ~Leaving
        /\ UNCHANGED <<opt, pktq, is, rd, dec, mn>>
    BY <1>1 DEF alloc_picture, Leaving, user
  <2>2. /\ events' \in Seq(SdlEvents) /\ \A i \in DOMAIN events' : events'[i].type # "cycle"
        /\ 1 \in DOMAIN events /\ Head(events) = events[1]
        /\ \A i \in DOMAIN events' : /\ i + 1 \in DOMAIN events /\ events'[i] = events[i + 1]
                                     /\ i \in Nat /\ i > 0
    BY <2>1, EventTaken
  <2>3. /\ dec.pc = "alloc"
        /\ \A j \in DOMAIN events : events[j].type = "alloc" => 1 = j
    BY <2>1, <2>2 DEF Requested
  <2>4. \A i \in DOMAIN events' : events'[i].type # "alloc"
    <3>1. ASSUME NEW i \in DOMAIN events', events'[i].type = "alloc" PROVE FALSE
      <4>1. i + 1 = 1
        BY <2>2, <2>3, <3>1
      <4> QED BY <2>2, <4>1
    <3> QED BY <3>1
  <2>5. PICK slot \in Frames :
               /\ Picturing(slot, frameq.queue[w])
               /\ frameq' = [frameq EXCEPT !.queue = [@ EXCEPT ![w] = slot]]
    BY <1>0, <1>1, SlotWrites DEF alloc_picture
  <2>6. /\ frameq'.size = frameq.size /\ frameq'.rindex = frameq.rindex /\ frameq'.windex = w
        /\ frameq'.queue = [frameq.queue EXCEPT ![w] = slot]
    BY <2>5, SlotWritten
  <2>7. w \notin Filled(frameq)
    <3>1. frameq.size < MaxSize
      BY <2>3 DEF QueueInv, Ring, Reserved
    <3> QED BY <1>0, <3>1, FreeSlot
  <2>8. Filled(frameq') = Filled(frameq)
    BY <2>6 DEF Filled, Slot
  <2>9. frameq'.queue[w] = slot /\ \A i \in Filled(frameq) : frameq'.queue[i] = frameq.queue[i]
    BY <1>0, <2>6, <2>7 DEF FrameQueues
  <2>10. Drawn'
    BY <2>1, <2>5, <2>6, <2>8, <2>9 DEF Drawn, Picturing
  <2>11. Requested'
    BY <2>4 DEF Requested
  <2> QED BY <2>1, <2>2, <2>10, <2>11 DEF Uncycled, Leaving
<1>2. CASE HandleEvent
  <2>1. /\ events # <<>> /\ events' = Tail(events) /\ UNCHANGED <<opt, pktq, frameq, rd, dec>>
        /\ mn.pc = "loop"
    BY <1>2 DEF HandleEvent, queues, user
  <2>2. /\ events' \in Seq(SdlEvents) /\ \A i \in DOMAIN events' : events'[i].type # "cycle"
        /\ 1 \in DOMAIN events /\ Head(events) = events[1]
        /\ \A i \in DOMAIN events' : /\ i + 1 \in DOMAIN events /\ events'[i] = events[i + 1]
                                     /\ i \in Nat /\ i > 0
    BY <2>1, EventTaken
  <2>3. Head(events).type # "cycle"
    BY <2>2 DEF Uncycled
  <2>4. Requested' /\ Drawn'
    <3>1. Leaving => Leaving'
      BY <2>1 DEF Leaving
    <3>2. \A i \in DOMAIN events', j \in DOMAIN events' : i + 1 = j + 1 => i = j
      BY <2>2
    <3> QED BY <2>1, <2>2, <3>1, <3>2 DEF Requested, Drawn
  <2>5. /\ mn'.pc = IF Head(events).type = "quit" THEN "quit" ELSE "loop"
        /\ Head(events).type # "quit" => is'.abort_request = is.abort_request
        /\ is'.stream = is.stream
    BY <1>0, <1>2, <2>1, <2>3 DEF HandleEvent, MainThreads, Flags
  <2> QED BY <2>1, <2>2, <2>4, <2>5 DEF Leaving, ClosePcs
<1>3. CASE Refresh \/ RefreshNothing \/ RefreshSkip \/ RefreshPick \/ Display \/ Quit
  <2>1. /\ UNCHANGED <<opt, pktq, events, rd, dec>>
        /\ mn'.pc \in {"refresh", "loop", "display", "gone"}
        /\ mn.pc \in {"loop", "refresh", "display"} \/ Leaving'
    BY <1>0, <1>3 DEF Refresh, RefreshNothing, RefreshSkip, RefreshPick, Display, Quit, queues, user,
                      MainThreads, Leaving
  <2>2. is'.abort_request = is.abort_request /\ is'.stream = is.stream
    BY <1>0, <1>3 DEF Refresh, RefreshNothing, RefreshSkip, RefreshPick, Display, Displayed, Clocked,
                      Quit, Flags
  <2>3. /\ frameq'.queue = frameq.queue /\ frameq'.windex = frameq.windex
        /\ Filled(frameq') \subseteq Filled(frameq)
    <3>1. CASE frameq' = frame_queue_next(frameq) /\ frame_queue_nb_remaining(frameq) > 0
      BY <1>0, <3>1, NextShape, TakenSlots
    <3>2. CASE frameq' = frameq \/ frameq' = frame_queue_prev(frameq)
      <4>1. /\ frameq'.queue = frameq.queue /\ frameq'.windex = frameq.windex
            /\ frameq'.rindex = frameq.rindex /\ frameq'.size = frameq.size
        BY <1>0, <3>2 DEF frame_queue_prev, FrameQueues
      <4> QED BY <4>1 DEF Filled, Slot
    <3>3. CASE RefreshSkip \/ Display
      <4>1. frameq.size \in Nat /\ frameq.rindex_shown \in 0 .. 1 /\ frameq.rindex_shown <= frameq.size
        BY <1>0, QueueAssumption DEF IsRing, FrameQueues
      <4>2. RefreshSkip => frame_queue_nb_remaining(frameq) # 0
        BY DEF RefreshSkip, Current
      <4>3. Display => frameq.size > frameq.rindex_shown
        BY DEF Display, QueueInv, Ring
      <4>4. frame_queue_nb_remaining(frameq) > 0
        BY <3>3, <4>1, <4>2, <4>3 DEF frame_queue_nb_remaining
      <4> QED BY <3>1, <3>3, <4>4 DEF RefreshSkip, Display, NextFrame
    <3> QED BY <1>3, <3>2, <3>3 DEF Refresh, RefreshNothing, RefreshPick, Quit, queues
  <2>4. Leaving => Leaving'
    BY <2>1 DEF Leaving
  <2>5. Requested' /\ Drawn'
    BY <2>1, <2>3, <2>4, PicturesKept
  <2> QED BY <2>1, <2>2, <2>4, <2>5 DEF Uncycled, ClosePcs
<1>4. ~CycleClose /\ ~CycleNone /\ ~CycleOpen
  BY DEF CycleClose, CycleNone, CycleOpen, Uncycled
<1>5. ~SubtitleMain
  BY <1>0 DEF SubtitleMain, RefreshPicture, RefreshSubtitles, DisplaySubtitle, Kinds
<1> QED BY <1>1, <1>2, <1>3, <1>4, <1>5 DEF Main, Events, VideoMain

LEMMA MainDraws == ASSUME QueueInv, DrawInv, Main PROVE DrawInv'
<1>1. opt' = opt
  BY DEF Main, Events, HandleEvent, Quit, CycleClose, CycleNone, CycleOpen, VideoMain, alloc_picture,
         Refresh, RefreshNothing, RefreshSkip, RefreshPick, Display, SubtitleMain, RefreshPicture,
         RefreshSubtitles, DisplaySubtitle, user
<1> SUFFICES ASSUME Drawing
             PROVE  Uncycled' /\ Numbers' /\ Nulls' /\ Finished' /\ Requested' /\ Drawn'
  BY <1>1 DEF DrawInv, Drawing
<1>2. Uncycled /\ Numbers /\ Nulls /\ Finished /\ Requested /\ Drawn
  BY DEF DrawInv
<1>3. /\ events' \in Seq(SdlEvents) /\ \A i \in DOMAIN events' : events'[i].type # "cycle"
      /\ Requested' /\ Drawn' /\ UNCHANGED <<opt, pktq, rd, dec>>
      /\ mn'.pc \notin ClosePcs \cup {"closed"}
      /\ is'.abort_request => is.abort_request \/ Leaving'
      /\ is'.stream = is.stream
      /\ Leaving => Leaving'
  BY <1>2, MainPictures
<1>4. Uncycled'
  BY <1>2, <1>3 DEF Uncycled
<1>5. Numbers' /\ Nulls' /\ Finished'
  <2>1. AtNull' = AtNull /\ ReadOut' = ReadOut
    BY <1>3 DEF AtNull, ReadOut
  <2> QED BY <1>2, <1>3, <2>1 DEF Numbers, Nulls, Finished
<1> QED BY <1>3, <1>4, <1>5

LEMMA PressDraws == ASSUME QueueInv, DrawInv, NEW k \in AllKeys, Press(k) PROVE DrawInv'
<1>1. /\ UNCHANGED <<opt, pktq, frameq, is, rd, dec, mn>> /\ k \in keys
      /\ events' = Append(events, [type |-> k])
  BY DEF Press, queues
<1> SUFFICES ASSUME Drawing
             PROVE  Uncycled' /\ Numbers' /\ Nulls' /\ Finished' /\ Requested' /\ Drawn'
  BY <1>1 DEF DrawInv, Drawing
<1>2. Uncycled /\ Numbers /\ Nulls /\ Finished /\ Requested /\ Drawn
  BY DEF DrawInv
<1>3. [type |-> k] \in SdlEvents /\ [type |-> k].type \notin {"alloc", "cycle"}
  BY <1>1 DEF SdlEvents, AllKeys, Drawing, QueueInv, TypeOK
<1>4. Uncycled'
  BY <1>1, <1>2, <1>3, EventQueued DEF Uncycled, Leaving
<1>5. Requested' /\ Drawn'
  BY <1>1, <1>2, <1>3, PicturesKept DEF Leaving
<1>6. AtNull' = AtNull /\ ReadOut' = ReadOut /\ Leaving' = Leaving
  BY <1>1 DEF AtNull, ReadOut, Leaving
<1> QED BY <1>1, <1>2, <1>4, <1>5, <1>6 DEF Numbers, Nulls, Finished

LEMMA DrawStep == QueueInv /\ DrawInv /\ [Next]_vars => DrawInv'
<1> SUFFICES ASSUME QueueInv, DrawInv, [Next]_vars PROVE DrawInv'
  OBVIOUS
<1>1. CASE AudioCallback
  BY <1>1 DEF AudioCallback, Continue, TakeSamples, ChooseSamples, Callback, user, DrawInv, Drawing
<1>2. CASE UNCHANGED vars
  <2>1. UNCHANGED <<opt, pktq, frameq, events, is, rd, dec, mn>>
    BY <1>2 DEF vars
  <2> QED BY <2>1 DEF DrawInv, Drawing, Uncycled, Leaving, Numbers, Nulls, NullAfter, AtNull,
                      ReadOut, Finished, Requested, Drawn
<1> QED BY <1>1, <1>2, ReaderDraws, DecoderDraws, MainDraws, PressDraws DEF Next

\* The picture drawn into a queued slot is that of the frame queued there, for every play of
\* a video that is not cycled: seeks, steps, pauses, redisplays, loops, the end of the file and
\* a user who quits may overlap as they will (queue_picture, alloc_picture, read_thread).
THEOREM PlayerDrawnAsQueued == Spec => []DrawnAsQueued
<1>1. Init => DrawInv
  BY DrawInit
<1>2. QueueInv /\ DrawInv /\ [Next]_vars => DrawInv'
  BY DrawStep
<1>3. DrawInv => DrawnAsQueued
  BY DEF DrawInv, Drawing, Requested, Drawn, Leaving, DrawnAsQueued
<1> QED BY <1>1, <1>2, <1>3, PlayerQueueInv, PTL DEF Spec

-----------------------------------------------------------------------------
(* The order in which frames are shown *)

\* The frames on their way from the file to the screen, as <<serial, number>>: shown and
\* queued, decoded last, inside the codec, in the packet taken, and in the packets queued.
Frame(i) == <<frameq.queue[i].serial, frameq.queue[i].n>>
Nth(k) == Frame(Slot(frameq, k))
Past == {shown} \cup {Nth(k) : k \in 0 .. frameq.size - 1}
Ready == IF dec.pc \in {"queue", "alloc"} THEN {<<dec.pkt_serial, dec.frame>>} ELSE {}
Inside(i) == <<dec.pkt_serial, dec.held[i]>>
Held == {Inside(i) : i \in DOMAIN dec.held}
Taken == IF dec.pc \in {"got", "codec"} /\ dec.pkt.what = "data"
         THEN {<<dec.pkt_serial, dec.pkt.n>>} ELSE {}
Waiting == {i \in DOMAIN pktq.pkts : pktq.pkts[i].what = "data"}
Packet(i) == <<pktq.pkts[i].serial, pktq.pkts[i].n>>
Sent == {Packet(i) : i \in Waiting}

\* Each is later than those further on, and so it is inside each stage.
Before(A, B) == \A a \in A, b \in B : Later(a, b)
InLine == /\ Before(Past, Ready \cup Held \cup Taken \cup Sent)
          /\ Before(Ready, Held \cup Taken \cup Sent)
          /\ Before(Held, Taken \cup Sent)
          /\ Before(Taken, Sent)
FramesUp ==
  /\ \A k \in 0 .. frameq.size - 1 : shown = Nth(k) \/ Later(shown, Nth(k))
  /\ \A j \in 0 .. frameq.size - 1, k \in 0 .. frameq.size - 1 : j < k => Later(Nth(j), Nth(k))
  /\ ~frameq.keep_last => frameq.rindex_shown = 0
HeldUp == \A i \in DOMAIN dec.held, j \in DOMAIN dec.held : i < j => Later(Inside(i), Inside(j))
SentUp == \A i \in Waiting, j \in Waiting : i < j => Later(Packet(i), Packet(j))

\* None is ahead of what read_thread has read, while it feeds the queue.
Reading == ~pktq.abort_request /\ rd.pc \notin ClosePcs \cup {"closed", "gone"}
Ahead(a) == a[1] < pktq.serial \/ (a[1] = pktq.serial /\ (Reading => a[2] <= rd.pos))
Behind == \A a \in Past \cup Ready \cup Held \cup Taken \cup Sent : Ahead(a)

OrderInv == FramesUp /\ InLine /\ HeldUp /\ SentUp /\ Behind

\* A packet that is no flush packet is taken under the serial the decoder already has: the
\* flush packet of that serial comes before it.
Restarted(n) ==
  \/ dec.pkt_serial = pktq.serial
  \/ \E j \in DOMAIN pktq.pkts :
       j < n /\ pktq.pkts[j].what = "flush" /\ pktq.pkts[j].serial = pktq.serial
Flushed ==
  /\ \A i \in DOMAIN pktq.pkts : pktq.pkts[i].what # "flush" => Restarted(i)
  /\ Reading /\ rd.pc # "seek_put" => Restarted(Len(pktq.pkts) + 1)
Ascending ==
  /\ dec.pkt_serial <= pktq.serial
  /\ \A i \in DOMAIN pktq.pkts : /\ dec.pkt_serial <= pktq.pkts[i].serial
                                 /\ pktq.pkts[i].serial <= pktq.serial
  /\ \A i \in DOMAIN pktq.pkts, j \in DOMAIN pktq.pkts :
       i < j => pktq.pkts[i].serial <= pktq.pkts[j].serial
Pending == dec.pending /\ dec.pc \in {"decode", "queue", "alloc", "peek"} => dec.pkt.what = "null"
Streamless == ~is.stream => ~Reading

RestartInv == Flushed /\ Ascending /\ Pending /\ Streamless

\* The frames and packets are numbered.
LEMMA Numbered ==
  ASSUME TypeOK
  PROVE  /\ pktq.pkts \in Seq(Packets) /\ pktq.serial \in Nat /\ rd.pos \in Nat
         /\ \A i \in DOMAIN pktq.pkts : /\ pktq.pkts[i] \in Packets /\ pktq.pkts[i].serial \in Nat
                                        /\ pktq.pkts[i].n \in Nat
         /\ dec.pkt_serial \in Nat /\ dec.held \in Seq(Nat) /\ dec.frame \in Nat
         /\ Past \cup Ready \cup Held \cup Taken \cup Sent \subseteq Nat \X Nat
<1>1. /\ pktq.pkts \in Seq(Packets) /\ pktq.serial \in Nat /\ rd.pos \in Nat
      /\ dec.pkt_serial \in Nat /\ dec.held \in Seq(Nat) /\ dec.frame \in Nat
      /\ dec.pkt \in Packets \cup {NoPacket} /\ shown \in Nat \X Nat
  BY DEF TypeOK, PacketQueues, Decoders, ReadThreads
<1>2. \A i \in DOMAIN pktq.pkts : pktq.pkts[i] \in Packets
  BY <1>1, ElementOfSeq, LenProperties
<1>3. \A i \in DOMAIN pktq.pkts : pktq.pkts[i].serial \in Nat /\ pktq.pkts[i].n \in Nat
  BY <1>2 DEF Packets
<1>4. dec.pkt.n \in Nat
  BY <1>1 DEF Packets, NoPacket
<1>5. \A i \in DOMAIN dec.held : dec.held[i] \in Nat
  BY <1>1, ElementOfSeq, LenProperties
<1>6. Past \subseteq Nat \X Nat
  <2>1. \A k \in 0 .. frameq.size - 1 : Slot(frameq, k) \in Slots
    <3>1. MaxSize \in Nat /\ MaxSize > 0 /\ frameq.rindex \in Nat /\ frameq.size \in Nat
      BY QueueAssumption DEF TypeOK, FrameQueues, Slots
    <3>2. \A a \in Nat : a % MaxSize \in 0 .. MaxSize - 1
      BY <3>1
    <3> QED BY <3>1, <3>2 DEF Slot, Slots
  <2>2. \A i \in Slots : Frame(i) \in Nat \X Nat
    BY DEF TypeOK, FrameQueues, Frames, Frame
  <2> QED BY <1>1, <2>1, <2>2 DEF Past, Nth
<1>7. Ready \cup Held \cup Taken \cup Sent \subseteq Nat \X Nat
  BY <1>1, <1>3, <1>4, <1>5 DEF Ready, Held, Inside, Taken, Sent, Packet, Waiting
<1> QED BY <1>1, <1>2, <1>3, <1>6, <1>7

\* A frame that is handed on, one that is read, and those that are given up.
LEMMA LineKept ==
  ASSUME InLine, Past' \subseteq Past, Ready' \subseteq Ready, Held' \subseteq Held,
         Taken' \subseteq Taken, Sent' \subseteq Sent
  PROVE  InLine'
BY DEF InLine, Before

LEMMA BehindKept ==
  ASSUME Behind, pktq'.serial = pktq.serial, Reading' => Reading /\ rd'.pos = rd.pos,
         Past' \cup Ready' \cup Held' \cup Taken' \cup Sent'
           \subseteq Past \cup Ready \cup Held \cup Taken \cup Sent
  PROVE  Behind'
BY DEF Behind, Ahead

LEMMA BehindRestarted ==
  ASSUME TypeOK, Behind, pktq'.serial = pktq.serial + 1,
         Past' \cup Ready' \cup Held' \cup Taken' \cup Sent'
           \subseteq Past \cup Ready \cup Held \cup Taken \cup Sent
  PROVE  Behind'
<1>1. \A a \in Past \cup Ready \cup Held \cup Taken \cup Sent :
        a[1] \in Nat /\ a[1] <= pktq.serial /\ pktq.serial \in Nat
  BY Numbered DEF Behind, Ahead
<1>2. \A a \in Past \cup Ready \cup Held \cup Taken \cup Sent : a[1] < pktq'.serial
  BY <1>1
<1> QED BY <1>2 DEF Behind, Ahead

\* A thread that leaves its stages alone.
LEMMA DecoderKept ==
  ASSUME dec' = dec
  PROVE  Ready' = Ready /\ Taken' = Taken /\ Held' = Held /\ (HeldUp => HeldUp')
<1>1. Ready' = Ready /\ Taken' = Taken
  BY DEF Ready, Taken
<1>2. Held' = Held
  BY DEF Held, Inside
<1>3. HeldUp => HeldUp'
  BY DEF HeldUp, Inside
<1> QED BY <1>1, <1>2, <1>3

LEMMA FewerSent ==
  ASSUME SentUp, pktq'.pkts = pktq.pkts \/ pktq'.pkts = <<>>
  PROVE  Sent' \subseteq Sent /\ SentUp'
<1>1. CASE pktq'.pkts = pktq.pkts
  BY <1>1 DEF Sent, Waiting, Packet, SentUp
<1>2. CASE pktq'.pkts = <<>>
  BY <1>2 DEF Sent, Waiting, SentUp
<1> QED BY <1>1, <1>2

\* Frames that stay where they are.
LEMMA SameRing ==
  ASSUME FramesUp, shown' = shown, frameq'.rindex = frameq.rindex, frameq'.size = frameq.size,
         \A i \in Slots : /\ frameq'.queue[i].serial = frameq.queue[i].serial
                          /\ frameq'.queue[i].n = frameq.queue[i].n,
         QueueInv, ~frameq'.keep_last => frameq'.rindex_shown = 0
  PROVE  FramesUp' /\ Past' = Past /\ (frameq.size > 0 => Nth(0)' = Nth(0))
<1>1. \A k \in 0 .. frameq.size - 1 : Slot(frameq, k) \in Slots /\ Slot(frameq', k) = Slot(frameq, k)
  <2>1. MaxSize \in Nat /\ MaxSize > 0 /\ frameq.rindex \in Nat /\ frameq.size \in Nat
    BY QueueAssumption DEF QueueInv, TypeOK, FrameQueues, Slots
  <2>2. \A a \in Nat : a % MaxSize \in 0 .. MaxSize - 1
    BY <2>1
  <2> QED BY <2>1, <2>2 DEF Slot, Slots
<1>2. \A k \in 0 .. frameq.size - 1 : Nth(k)' = Nth(k)
  BY <1>1 DEF Nth, Frame
<1>3. Past' = Past
  BY <1>2 DEF Past
<1>4. frameq.size > 0 => 0 \in 0 .. frameq.size - 1
  BY DEF QueueInv, TypeOK, FrameQueues
<1> QED BY <1>2, <1>3, <1>4 DEF FramesUp

\* The first frame that may be shown, and the one at rindex.
LEMMA Peeked ==
  ASSUME QueueInv, FramesUp
  PROVE  /\ frameq.size \in Nat /\ frameq.rindex_shown \in 0 .. 1
         /\ frameq.rindex_shown <= frameq.size
         /\ frame_queue_peek(frameq) = Slot(frameq, frameq.rindex_shown)
         /\ frameq.size > 0 => Slot(frameq, 0) = frameq.rindex
<1>1. /\ MaxSize \in Nat /\ MaxSize > 0 /\ frameq.rindex \in 0 .. MaxSize - 1
      /\ frameq.size \in Nat /\ frameq.rindex_shown \in 0 .. 1
      /\ frameq.rindex_shown <= frameq.size
  BY QueueAssumption DEF QueueInv, TypeOK, FrameQueues, Slots, Ring
<1>2. (frameq.rindex + 0) % MaxSize = frameq.rindex
  BY <1>1
<1> QED BY <1>1, <1>2 DEF Slot, frame_queue_peek

\* A frame is given up, shown now or passed over.
LEMMA FrameTaken ==
  ASSUME QueueInv, FramesUp, frame_queue_nb_remaining(frameq) > 0,
         frameq' = frame_queue_next(frameq),
         \/ shown' = shown
         \/ frameq.keep_last /\ shown' = Frame(frame_queue_peek(frameq))
  PROVE  /\ FramesUp' /\ Past' \subseteq Past /\ (shown' # shown => Later(shown, shown'))
         /\ frameq.keep_last => /\ frameq'.rindex_shown = 1
                                /\ Nth(0)' = Nth(frameq.rindex_shown)
<1>1. /\ frameq'.queue = frameq.queue /\ frameq'.keep_last = frameq.keep_last
      /\ IF frameq.keep_last /\ frameq.rindex_shown = 0
         THEN frameq'.rindex_shown = 1 /\ frameq'.rindex = frameq.rindex /\ frameq'.size = frameq.size
         ELSE /\ frameq'.rindex_shown = frameq.rindex_shown /\ frameq'.size = frameq.size - 1
              /\ frameq'.rindex = (frameq.rindex + 1) % MaxSize
  BY RingNow, NextShape
<1>2. /\ frameq.size \in Nat /\ frameq.rindex_shown \in 0 .. 1
      /\ frameq.size > frameq.rindex_shown
      /\ Frame(frame_queue_peek(frameq)) = Nth(frameq.rindex_shown)
  BY Peeked DEF frame_queue_nb_remaining, Nth
<1>3. ~frameq'.keep_last => frameq'.rindex_shown = 0
  BY <1>1 DEF FramesUp
<1>4. CASE frameq.keep_last /\ frameq.rindex_shown = 0
  <2>1. \A k : Slot(frameq', k) = Slot(frameq, k)
    BY <1>1, <1>4 DEF Slot
  <2> DEFINE new(k) == <<frameq'.queue[Slot(frameq', k)].serial, frameq'.queue[Slot(frameq', k)].n>>
  <2>2. \A k : new(k) = Nth(k)
    BY <1>1, <2>1 DEF Nth, Frame
  <2>3. Past' = {shown'} \cup {new(k) : k \in 0 .. frameq.size - 1}
    BY <1>1, <1>4 DEF Past, Nth, Frame
  <2>4. FramesUp' <=>
          /\ \A k \in 0 .. frameq.size - 1 : shown' = new(k) \/ Later(shown', new(k))
          /\ \A j \in 0 .. frameq.size - 1, k \in 0 .. frameq.size - 1 :
               j < k => Later(new(j), new(k))
    BY <1>1, <1>3, <1>4 DEF FramesUp, Nth, Frame
  <2>7. frameq'.rindex_shown = 1 /\ Nth(0)' = Nth(frameq.rindex_shown)
    BY <1>1, <1>4, <2>2 DEF Nth, Frame
  <2> HIDE DEF new
  <2>5. shown' = shown \/ shown' = Nth(0)
    BY <1>2, <1>4
  <2>6. 0 \in 0 .. frameq.size - 1 /\ \A k \in 0 .. frameq.size - 1 : k = 0 \/ 0 < k
    BY <1>2
  <2> QED BY <2>2, <2>3, <2>4, <2>5, <2>6, <2>7 DEF FramesUp, Past
<1>5. CASE ~(frameq.keep_last /\ frameq.rindex_shown = 0)
  <2>1. \A k \in 0 .. frameq'.size - 1 : Slot(frameq', k) = Slot(frameq, k + 1)
    BY <1>1, <1>5, RingNow, MovedSlots
  <2> DEFINE new(k) == <<frameq'.queue[Slot(frameq', k)].serial, frameq'.queue[Slot(frameq', k)].n>>
  <2>2. \A k \in 0 .. frameq'.size - 1 : new(k) = Nth(k + 1)
    BY <1>1, <2>1 DEF Nth, Frame
  <2>3. Past' = {shown'} \cup {new(k) : k \in 0 .. frameq'.size - 1}
    BY DEF Past, Nth, Frame
  <2>4. FramesUp' <=>
          /\ \A k \in 0 .. frameq'.size - 1 : shown' = new(k) \/ Later(shown', new(k))
          /\ \A j \in 0 .. frameq'.size - 1, k \in 0 .. frameq'.size - 1 :
               j < k => Later(new(j), new(k))
    BY <1>3 DEF FramesUp, Nth, Frame
  <2>11. ASSUME frameq.keep_last
         PROVE  frameq'.rindex_shown = 1 /\ Nth(0)' = Nth(frameq.rindex_shown)
    <3>1. frameq.rindex_shown = 1 /\ frameq'.rindex_shown = 1 /\ 0 \in 0 .. frameq'.size - 1
      BY <1>1, <1>2, <1>5, <2>11
    <3>2. new(0) = Nth(1)
      BY <2>2, <3>1
    <3> QED BY <3>1, <3>2 DEF Nth, Frame
  <2> HIDE DEF new
  <2>5. \/ shown' = shown
        \/ frameq.rindex_shown = 1 /\ shown' = Nth(1)
    BY <1>2, <1>5
  <2>6. /\ \A k \in 0 .. frameq'.size - 1 : k + 1 \in 0 .. frameq.size - 1
        /\ \A j \in 0 .. frameq'.size - 1, k \in 0 .. frameq'.size - 1 : j < k => j + 1 < k + 1
        /\ \A k \in 0 .. frameq'.size - 1 : k + 1 = 1 \/ 1 < k + 1
        /\ frameq.rindex_shown = 1 => 1 \in 0 .. frameq.size - 1
    BY <1>1, <1>2, <1>5
  <2>7. Past' \subseteq Past
    BY <2>2, <2>3, <2>5, <2>6 DEF Past
  <2>8. shown' # shown => Later(shown, shown')
    BY <2>5, <2>6 DEF FramesUp
  <2>9. \A k \in 0 .. frameq'.size - 1 : shown' = new(k) \/ Later(shown', new(k))
    BY <2>2, <2>5, <2>6 DEF FramesUp
  <2>10. \A j \in 0 .. frameq'.size - 1, k \in 0 .. frameq'.size - 1 :
               j < k => Later(new(j), new(k))
    BY <2>2, <2>6 DEF FramesUp
  <2> QED BY <2>4, <2>7, <2>8, <2>9, <2>10, <2>11
<1> QED BY <1>4, <1>5

\* The first frame is shown, and stays in its slot.
LEMMA FrameShown ==
  ASSUME FramesUp, frameq.size \in Nat, frameq' = frameq,
         \/ shown' = shown
         \/ frameq.size > 0 /\ shown' = Nth(0)
  PROVE  FramesUp' /\ Past' \subseteq Past /\ (shown' # shown => Later(shown, shown'))
<1> DEFINE new(k) == <<frameq'.queue[Slot(frameq', k)].serial, frameq'.queue[Slot(frameq', k)].n>>
<1>1. \A k : new(k) = Nth(k)
  BY DEF Nth, Frame
<1>2. Past' = {shown'} \cup {new(k) : k \in 0 .. frameq.size - 1}
  BY DEF Past, Nth, Frame
<1>3. FramesUp' <=>
        /\ \A k \in 0 .. frameq.size - 1 : shown' = new(k) \/ Later(shown', new(k))
        /\ \A j \in 0 .. frameq.size - 1, k \in 0 .. frameq.size - 1 :
             j < k => Later(new(j), new(k))
        /\ ~frameq.keep_last => frameq.rindex_shown = 0
  BY DEF FramesUp, Nth, Frame
<1> HIDE DEF new
<1>4. /\ frameq.size > 0 => 0 \in 0 .. frameq.size - 1
      /\ \A k \in 0 .. frameq.size - 1 : k = 0 \/ 0 < k
  OBVIOUS
<1> QED BY <1>1, <1>2, <1>3, <1>4 DEF FramesUp, Past

\* The frame decoded last is queued behind the others.
LEMMA FramePushed ==
  ASSUME QueueInv, FramesUp, frameq.size < MaxSize, frameq' = frame_queue_push(Filled_in),
         shown' = shown, Before(Past, {<<dec.pkt_serial, dec.frame>>})
  PROVE  /\ FramesUp' /\ Past' \subseteq Past \cup {<<dec.pkt_serial, dec.frame>>}
         /\ frameq'.rindex_shown = frameq.rindex_shown /\ frameq'.size = frameq.size + 1
         /\ Nth(0)' = IF frameq.size > 0 THEN Nth(0) ELSE <<dec.pkt_serial, dec.frame>>
<1> DEFINE w == frameq.windex
           last == <<dec.pkt_serial, dec.frame>>
<1>1. PICK slot \in Frames :
             /\ Queueing(slot, frameq.queue[w])
             /\ Filled_in = [frameq EXCEPT !.queue = [@ EXCEPT ![w] = slot]]
  BY SlotWrites
<1>2. /\ IsRing(Filled_in) /\ Filled_in.size = frameq.size /\ Filled_in.windex = w
      /\ Filled_in.rindex = frameq.rindex /\ Filled_in.rindex_shown = frameq.rindex_shown
      /\ Filled_in.keep_last = frameq.keep_last
      /\ Filled_in.queue = [frameq.queue EXCEPT ![w] = slot]
  BY <1>1, SlotWritten
<1>3. /\ frameq'.queue = Filled_in.queue /\ frameq'.size = frameq.size + 1
      /\ frameq'.rindex = frameq.rindex /\ frameq'.rindex_shown = frameq.rindex_shown
      /\ frameq'.keep_last = frameq.keep_last
  BY <1>2, PushShape
<1>4. /\ frameq.queue \in [Slots -> Frames] /\ w \in Slots /\ frameq.size \in Nat
      /\ w = Slot(frameq, frameq.size) /\ w \notin Filled(frameq)
  BY RingNow, FreeSlot DEF IsRing, FrameQueues
<1>5. \A k \in 0 .. frameq.size - 1 : Slot(frameq, k) # w
  BY <1>4 DEF Filled
<1>6. /\ frameq'.queue[w] = slot
      /\ \A i : i # w /\ i \in Slots => frameq'.queue[i] = frameq.queue[i]
  BY <1>2, <1>3, <1>4
<1>7. \A k : Slot(frameq', k) = Slot(frameq, k)
  BY <1>3 DEF Slot
<1>8. \A k \in 0 .. frameq.size - 1 : Slot(frameq, k) \in Slots
  <2>1. MaxSize \in Nat /\ MaxSize > 0 /\ frameq.rindex \in Nat /\ frameq.size \in Nat
    BY QueueAssumption DEF QueueInv, TypeOK, FrameQueues, Slots
  <2>2. \A a \in Nat : a % MaxSize \in 0 .. MaxSize - 1
    BY <2>1
  <2> QED BY <2>1, <2>2 DEF Slot, Slots
<1> DEFINE new(k) == <<frameq'.queue[Slot(frameq', k)].serial, frameq'.queue[Slot(frameq', k)].n>>
<1>9. \A k \in 0 .. frameq.size - 1 : new(k) = Nth(k)
  BY <1>5, <1>6, <1>7, <1>8 DEF Nth, Frame
<1>10. new(frameq.size) = last
  BY <1>1, <1>4, <1>6, <1>7 DEF Queueing
<1>11. Past' = {shown} \cup {new(k) : k \in 0 .. frameq.size}
  BY <1>3, <1>4 DEF Past, Nth, Frame
<1>12. FramesUp' <=>
         /\ \A k \in 0 .. frameq.size : shown = new(k) \/ Later(shown, new(k))
         /\ \A j \in 0 .. frameq.size, k \in 0 .. frameq.size : j < k => Later(new(j), new(k))
         /\ ~frameq.keep_last => frameq.rindex_shown = 0
  BY <1>3, <1>4 DEF FramesUp, Nth, Frame
<1>17. Nth(0)' = IF frameq.size > 0 THEN Nth(0) ELSE last
  <2>1. IF frameq.size > 0 THEN 0 \in 0 .. frameq.size - 1 ELSE frameq.size = 0
    BY <1>4
  <2>2. new(0) = IF frameq.size > 0 THEN Nth(0) ELSE last
    BY <1>9, <1>10, <2>1
  <2> QED BY <2>2 DEF Nth, Frame
<1> HIDE DEF new
<1>13. /\ \A k \in 0 .. frameq.size : k \in 0 .. frameq.size - 1 \/ k = frameq.size
       /\ \A j \in 0 .. frameq.size, k \in 0 .. frameq.size : j < k => j \in 0 .. frameq.size - 1
  BY <1>4
<1>14. Later(shown, last) /\ \A k \in 0 .. frameq.size - 1 : Later(Nth(k), last)
  BY DEF Before, Past
<1> HIDE DEF last
<1>15. Past' \subseteq Past \cup {last}
  BY <1>9, <1>10, <1>11, <1>13 DEF Past
<1>16. FramesUp'
  BY <1>9, <1>10, <1>12, <1>13, <1>14 DEF FramesUp
<1> QED BY <1>3, <1>15, <1>16, <1>17 DEF last

\* A frame goes on: what was ready is queued; what the codec gives is the first of what it
\* holds and the packet it has; the first packet is taken, and the next one read.
LEMMA LinePushed ==
  ASSUME InLine, Past' \subseteq Past \cup Ready, Ready' = {}, Held' \subseteq Held,
         Taken' \subseteq Taken, Sent' \subseteq Sent
  PROVE  InLine'
BY DEF InLine, Before

LEMMA LineDecoded ==
  ASSUME InLine, Past' \subseteq Past, Taken' = {}, Sent' \subseteq Sent,
         Ready' \cup Held' \subseteq Held \cup Taken, Before(Ready', Held')
  PROVE  InLine'
BY DEF InLine, Before

LEMMA LineTaken ==
  ASSUME InLine, Past' \subseteq Past, Ready' = {}, Held' \subseteq Held,
         Taken' \cup Sent' \subseteq Sent, Before(Taken', Sent')
  PROVE  InLine'
BY DEF InLine, Before

LEMMA LineRead ==
  ASSUME InLine, Past' \subseteq Past, Ready' \subseteq Ready, Held' \subseteq Held,
         Taken' \subseteq Taken, NEW a, Sent' \subseteq Sent \cup {a},
         Before(Past \cup Ready \cup Held \cup Taken, {a})
  PROVE  InLine'
BY DEF InLine, Before

\* A packet is queued behind the others, and the first one is taken.
LEMMA PacketPut ==
  ASSUME TypeOK, ~pktq.abort_request, NEW p \in [what : {"flush", "null", "data"}, n : Nat],
         pktq' = packet_queue_put(pktq, p)
  PROVE  /\ pktq'.serial = IF p = Flush THEN pktq.serial + 1 ELSE pktq.serial
         /\ ~pktq'.abort_request
         /\ Len(pktq.pkts) \in Nat /\ DOMAIN pktq.pkts = 1 .. Len(pktq.pkts)
         /\ Len(pktq'.pkts) = Len(pktq.pkts) + 1 /\ DOMAIN pktq'.pkts = 1 .. Len(pktq.pkts) + 1
         /\ \A i \in DOMAIN pktq.pkts : pktq'.pkts[i] = pktq.pkts[i]
         /\ LET last == pktq'.pkts[Len(pktq.pkts) + 1]
            IN last.what = p.what /\ last.n = p.n /\ last.serial = pktq'.serial
<1> DEFINE queued == [what |-> p.what, n |-> p.n, serial |-> pktq'.serial]
<1>1. /\ pktq'.serial = IF p = Flush THEN pktq.serial + 1 ELSE pktq.serial
      /\ pktq'.pkts = Append(pktq.pkts, queued) /\ pktq'.serial \in Nat
      /\ ~pktq'.abort_request
  BY PutShape DEF PacketQueues
<1>2. queued \in Packets /\ pktq.pkts \in Seq(Packets)
  BY <1>1 DEF Packets, TypeOK, PacketQueues
<1>3. /\ Len(pktq.pkts) \in Nat /\ DOMAIN pktq.pkts = 1 .. Len(pktq.pkts)
      /\ Len(pktq'.pkts) = Len(pktq.pkts) + 1 /\ DOMAIN pktq'.pkts = 1 .. Len(pktq.pkts) + 1
      /\ \A i \in 1 .. Len(pktq.pkts) : pktq'.pkts[i] = pktq.pkts[i]
      /\ pktq'.pkts[Len(pktq.pkts) + 1] = queued
  BY <1>1, <1>2, AppendProperties, LenProperties
<1>4. queued.what = p.what /\ queued.n = p.n /\ queued.serial = pktq'.serial
  OBVIOUS
<1> HIDE DEF queued
<1> QED BY <1>1, <1>3, <1>4

LEMMA PacketTaken ==
  ASSUME TypeOK, pktq.pkts # <<>>, pktq' = [pktq EXCEPT !.pkts = Tail(@)]
  PROVE  /\ pktq'.serial = pktq.serial /\ pktq'.abort_request = pktq.abort_request
         /\ Len(pktq.pkts) \in Nat /\ DOMAIN pktq.pkts = 1 .. Len(pktq.pkts)
         /\ Len(pktq.pkts) > 0 /\ Head(pktq.pkts) = pktq.pkts[1]
         /\ Len(pktq'.pkts) = Len(pktq.pkts) - 1 /\ DOMAIN pktq'.pkts = 1 .. Len(pktq.pkts) - 1
         /\ \A i \in DOMAIN pktq'.pkts : pktq'.pkts[i] = pktq.pkts[i + 1]
<1>1. /\ pktq.pkts \in Seq(Packets) /\ pktq'.pkts = Tail(pktq.pkts)
      /\ pktq'.serial = pktq.serial /\ pktq'.abort_request = pktq.abort_request
  BY DEF TypeOK, PacketQueues
<1>2. /\ Len(pktq.pkts) \in Nat /\ DOMAIN pktq.pkts = 1 .. Len(pktq.pkts) /\ Len(pktq.pkts) > 0
      /\ Head(pktq.pkts) = pktq.pkts[1]
  BY <1>1, LenProperties, EmptySeq
<1>3. /\ Tail(pktq.pkts) \in Seq(Packets) /\ Len(Tail(pktq.pkts)) = Len(pktq.pkts) - 1
      /\ \A i \in 1 .. Len(Tail(pktq.pkts)) : Tail(pktq.pkts)[i] = pktq.pkts[i + 1]
  BY <1>1, HeadTailProperties
<1>4. DOMAIN Tail(pktq.pkts) = 1 .. Len(pktq.pkts) - 1
  BY <1>3, LenProperties
<1> QED BY <1>1, <1>2, <1>3, <1>4

\* The packets queued stay in order.
LEMMA SentRead ==
  ASSUME TypeOK, SentUp, ~pktq.abort_request, NEW p \in [what : {"flush", "null", "data"}, n : Nat],
         pktq' = packet_queue_put(pktq, p),
         p.what = "data" => Before(Sent, {<<pktq'.serial, p.n>>})
  PROVE  /\ SentUp'
         /\ Sent' \subseteq Sent \cup {<<pktq'.serial, p.n>>}
         /\ p.what # "data" => Sent' \subseteq Sent
<1> DEFINE last == Len(pktq.pkts) + 1
<1>1. /\ Len(pktq.pkts) \in Nat /\ DOMAIN pktq.pkts = 1 .. Len(pktq.pkts)
      /\ DOMAIN pktq'.pkts = 1 .. last
      /\ \A i \in DOMAIN pktq.pkts : pktq'.pkts[i] = pktq.pkts[i]
      /\ pktq'.pkts[last].what = p.what /\ pktq'.pkts[last].n = p.n
      /\ pktq'.pkts[last].serial = pktq'.serial
  BY PacketPut
<1>2. \A i \in DOMAIN pktq'.pkts : i \in DOMAIN pktq.pkts \/ i = last
  BY <1>1
<1>3. \A i \in DOMAIN pktq'.pkts, j \in DOMAIN pktq'.pkts : i < j => i \in DOMAIN pktq.pkts
  BY <1>1
<1> HIDE DEF last
<1>4. Sent' \subseteq Sent \cup {<<pktq'.serial, p.n>>} /\ (p.what # "data" => Sent' \subseteq Sent)
  BY <1>1, <1>2 DEF Sent, Waiting, Packet
<1>5. ASSUME NEW i \in Waiting', NEW j \in Waiting', i < j
      PROVE  Later(<<pktq'.pkts[i].serial, pktq'.pkts[i].n>>, <<pktq'.pkts[j].serial, pktq'.pkts[j].n>>)
  <2>1. i \in Waiting /\ pktq'.pkts[i] = pktq.pkts[i] /\ Packet(i) \in Sent
    BY <1>1, <1>3, <1>5 DEF Waiting, Sent
  <2>2. CASE j \in DOMAIN pktq.pkts
    <3>1. j \in Waiting /\ pktq'.pkts[j] = pktq.pkts[j]
      BY <1>1, <1>5, <2>2 DEF Waiting
    <3> QED BY <1>5, <2>1, <3>1 DEF SentUp, Packet
  <2>3. CASE j = last
    <3>1. p.what = "data" /\ <<pktq'.pkts[j].serial, pktq'.pkts[j].n>> = <<pktq'.serial, p.n>>
      BY <1>1, <1>5, <2>3 DEF Waiting
    <3> QED BY <2>1, <3>1 DEF Before, Packet
  <2> QED BY <1>2, <1>5, <2>2, <2>3 DEF Waiting
<1>6. SentUp'
  BY <1>5 DEF SentUp, Packet
<1> QED BY <1>4, <1>6

LEMMA SentTaken ==
  ASSUME TypeOK, SentUp, pktq.pkts # <<>>, pktq' = [pktq EXCEPT !.pkts = Tail(@)]
  PROVE  /\ SentUp' /\ Sent' \subseteq Sent
         /\ pktq.pkts[1].what = "data" => Packet(1) \in Sent /\ Before({Packet(1)}, Sent')
<1>1. /\ Len(pktq.pkts) \in Nat /\ DOMAIN pktq.pkts = 1 .. Len(pktq.pkts) /\ Len(pktq.pkts) > 0
      /\ DOMAIN pktq'.pkts = 1 .. Len(pktq.pkts) - 1
      /\ \A i \in DOMAIN pktq'.pkts : pktq'.pkts[i] = pktq.pkts[i + 1]
  BY PacketTaken
<1>2. /\ 1 \in DOMAIN pktq.pkts
      /\ \A i \in DOMAIN pktq'.pkts : i + 1 \in DOMAIN pktq.pkts /\ 1 < i + 1
      /\ \A i \in DOMAIN pktq'.pkts, j \in DOMAIN pktq'.pkts : i < j => i + 1 < j + 1
  BY <1>1
<1>3. \A i \in Waiting' : i + 1 \in Waiting /\ pktq'.pkts[i] = pktq.pkts[i + 1] /\ 1 < i + 1
  BY <1>1, <1>2 DEF Waiting
<1>4. SentUp'
  BY <1>2, <1>3 DEF SentUp, Packet, Waiting
<1>5. \A a \in Sent' : \E i \in Waiting : 1 < i /\ a = Packet(i)
  BY <1>3 DEF Sent, Packet
<1>6. Sent' \subseteq Sent
  BY <1>5 DEF Sent
<1>7. pktq.pkts[1].what = "data" => Packet(1) \in Sent /\ Before({Packet(1)}, Sent')
  <2>1. SUFFICES ASSUME pktq.pkts[1].what = "data" PROVE Packet(1) \in Sent /\ Before({Packet(1)}, Sent')
    OBVIOUS
  <2>2. 1 \in Waiting
    BY <1>2, <2>1 DEF Waiting
  <2> QED BY <1>5, <2>2 DEF SentUp, Sent, Before
<1> QED BY <1>4, <1>6, <1>7

-----------------------------------------------------------------------------
(* Under which serial packets are taken *)

LEMMA RestartKept ==
  ASSUME RestartInv, pktq'.serial = pktq.serial, dec'.pkt_serial = dec.pkt_serial, Pending',
         Reading' => Reading, is'.stream \/ ~is.stream \/ ~Reading',
         \/ pktq'.pkts = pktq.pkts /\ (Reading' /\ rd'.pc # "seek_put" => rd.pc # "seek_put")
         \/ pktq'.pkts = <<>> /\ (Reading' => rd'.pc = "seek_put")
  PROVE  RestartInv'
<1>1. Streamless'
  BY DEF RestartInv, Streamless
<1>2. CASE pktq'.pkts = pktq.pkts /\ (Reading' /\ rd'.pc # "seek_put" => rd.pc # "seek_put")
  <2>1. Ascending'
    BY <1>2 DEF RestartInv, Ascending
  <2>2. \A i \in DOMAIN pktq.pkts \cup {Len(pktq.pkts) + 1} : Restarted(i) <=>
          \/ dec'.pkt_serial = pktq'.serial
          \/ \E j \in DOMAIN pktq'.pkts :
               j < i /\ pktq'.pkts[j].what = "flush" /\ pktq'.pkts[j].serial = pktq'.serial
    BY <1>2 DEF Restarted
  <2>3. Flushed'
    BY <1>2, <2>2 DEF RestartInv, Flushed, Restarted
  <2> QED BY <1>1, <2>1, <2>3 DEF RestartInv
<1>3. CASE pktq'.pkts = <<>> /\ (Reading' => rd'.pc = "seek_put")
  <2>1. Ascending' /\ Flushed'
    BY <1>3 DEF RestartInv, Ascending, Flushed
  <2> QED BY <1>1, <2>1 DEF RestartInv
<1> QED BY <1>2, <1>3

LEMMA RestartPut ==
  ASSUME QueueInv, RestartInv, Reading, NEW p \in [what : {"flush", "null", "data"}, n : Nat],
         pktq' = packet_queue_put(pktq, p), dec' = dec, is'.stream = is.stream, Reading',
         p = Flush \/ (rd.pc # "seek_put" /\ p.what # "flush"),
         p = Flush => \A i \in DOMAIN pktq.pkts : pktq.pkts[i].what = "flush"
  PROVE  RestartInv'
<1> DEFINE last == Len(pktq.pkts) + 1
<1>1. ~pktq.abort_request /\ TypeOK
  BY DEF Reading, QueueInv
<1>2. /\ pktq'.serial = IF p = Flush THEN pktq.serial + 1 ELSE pktq.serial
      /\ Len(pktq.pkts) \in Nat /\ DOMAIN pktq.pkts = 1 .. Len(pktq.pkts)
      /\ Len(pktq'.pkts) = last /\ DOMAIN pktq'.pkts = 1 .. last
      /\ \A i \in DOMAIN pktq.pkts : pktq'.pkts[i] = pktq.pkts[i]
      /\ pktq'.pkts[last].what = p.what /\ pktq'.pkts[last].serial = pktq'.serial
  BY <1>1, PacketPut
<1>3. /\ \A i \in DOMAIN pktq'.pkts : i \in DOMAIN pktq.pkts \/ i = last
      /\ \A i \in DOMAIN pktq'.pkts, j \in DOMAIN pktq'.pkts : i < j => i \in DOMAIN pktq.pkts
      /\ \A i \in DOMAIN pktq.pkts : i \in DOMAIN pktq'.pkts /\ i < last /\ i < last + 1
      /\ last \in DOMAIN pktq'.pkts /\ last < last + 1
  BY <1>2
<1>4. /\ pktq.serial \in Nat /\ dec.pkt_serial \in Nat
      /\ \A i \in DOMAIN pktq.pkts : pktq.pkts[i].serial \in Nat
  BY <1>1, Numbered
<1> HIDE DEF last
<1>5. Ascending'
  <2>1. /\ dec.pkt_serial <= pktq'.serial /\ pktq.serial <= pktq'.serial /\ pktq'.serial \in Nat
        /\ \A i \in DOMAIN pktq.pkts : /\ dec.pkt_serial <= pktq.pkts[i].serial
                                       /\ pktq.pkts[i].serial <= pktq'.serial
    BY <1>2, <1>4 DEF RestartInv, Ascending
  <2>2. \A i \in DOMAIN pktq'.pkts : /\ dec.pkt_serial <= pktq'.pkts[i].serial
                                     /\ pktq'.pkts[i].serial <= pktq'.serial
    BY <1>2, <1>3, <2>1
  <2>3. ASSUME NEW i \in DOMAIN pktq'.pkts, NEW j \in DOMAIN pktq'.pkts, i < j
        PROVE  pktq'.pkts[i].serial <= pktq'.pkts[j].serial
    <3>1. CASE j = last
      BY <1>2, <2>2, <3>1
    <3>2. CASE j \in DOMAIN pktq.pkts
      BY <1>2, <1>3, <2>3, <3>2 DEF RestartInv, Ascending
    <3> QED BY <1>3, <3>1, <3>2
  <2> QED BY <2>1, <2>2, <2>3 DEF Ascending
<1>6. Flushed'
  <2>1. CASE p = Flush
    <3>1. \A i \in DOMAIN pktq'.pkts : pktq'.pkts[i].what = "flush"
      BY <1>2, <1>3, <2>1 DEF Flush
    <3>2. \E j \in DOMAIN pktq'.pkts :
            j < Len(pktq'.pkts) + 1 /\ pktq'.pkts[j].what = "flush" /\ pktq'.pkts[j].serial = pktq'.serial
      BY <1>2, <1>3, <2>1 DEF Flush
    <3> QED BY <3>1, <3>2 DEF Flushed, Restarted
  <2>2. CASE p # Flush
    <3>1. pktq'.serial = pktq.serial /\ rd.pc # "seek_put" /\ Restarted(last)
      BY <1>2, <2>2 DEF RestartInv, Flushed, last
    <3>2. \A n \in DOMAIN pktq'.pkts : Restarted(n) =>
            \/ dec'.pkt_serial = pktq'.serial
            \/ \E j \in DOMAIN pktq'.pkts :
                 j < n /\ pktq'.pkts[j].what = "flush" /\ pktq'.pkts[j].serial = pktq'.serial
      BY <1>2, <1>3, <3>1 DEF Restarted
    <3>3. \A i \in DOMAIN pktq'.pkts : pktq'.pkts[i].what # "flush" => Restarted(i)
      BY <1>2, <1>3, <3>1 DEF RestartInv, Flushed
    <3>4. \/ dec'.pkt_serial = pktq'.serial
          \/ \E j \in DOMAIN pktq'.pkts : /\ j < Len(pktq'.pkts) + 1 /\ pktq'.pkts[j].what = "flush"
                                          /\ pktq'.pkts[j].serial = pktq'.serial
      BY <1>2, <1>3, <3>1 DEF Restarted
    <3> QED BY <3>2, <3>3, <3>4 DEF Flushed, Restarted
  <2> QED BY <2>1, <2>2
<1>7. Pending' /\ Streamless'
  BY DEF RestartInv, Pending, Streamless
<1> QED BY <1>5, <1>6, <1>7 DEF RestartInv

\* packet_queue_get; where it is no flush packet the serial stays.
LEMMA RestartTaken ==
  ASSUME QueueInv, RestartInv, pktq.pkts # <<>>, pktq' = [pktq EXCEPT !.pkts = Tail(@)],
         UNCHANGED <<is, rd>>, dec'.pkt_serial = pktq.pkts[1].serial, dec'.pc = "got"
  PROVE  /\ RestartInv'
         /\ pktq.pkts[1].what # "flush" => dec'.pkt_serial = dec.pkt_serial
<1>0. TypeOK
  BY DEF QueueInv
<1>1. /\ pktq'.serial = pktq.serial /\ pktq'.abort_request = pktq.abort_request
      /\ Len(pktq.pkts) \in Nat /\ DOMAIN pktq.pkts = 1 .. Len(pktq.pkts) /\ Len(pktq.pkts) > 0
      /\ Len(pktq'.pkts) = Len(pktq.pkts) - 1 /\ DOMAIN pktq'.pkts = 1 .. Len(pktq.pkts) - 1
      /\ \A i \in DOMAIN pktq'.pkts : pktq'.pkts[i] = pktq.pkts[i + 1]
  BY <1>0, PacketTaken
<1>2. /\ 1 \in DOMAIN pktq.pkts
      /\ \A i \in DOMAIN pktq'.pkts : i + 1 \in DOMAIN pktq.pkts /\ 1 < i + 1
      /\ \A i \in DOMAIN pktq'.pkts, j \in DOMAIN pktq'.pkts : i < j => i + 1 < j + 1
      /\ \A j \in DOMAIN pktq.pkts : /\ j = 1 \/ (j - 1 \in DOMAIN pktq'.pkts /\ (j - 1) + 1 = j)
                                     /\ ~(j < 1)
      /\ \A j \in DOMAIN pktq.pkts, i \in DOMAIN pktq'.pkts : j < i + 1 => j - 1 < i
      /\ \A j \in DOMAIN pktq.pkts : j - 1 < Len(pktq'.pkts) + 1
  BY <1>1
<1>3. /\ pktq.serial \in Nat /\ dec.pkt_serial \in Nat
      /\ \A i \in DOMAIN pktq.pkts : pktq.pkts[i].serial \in Nat
  BY <1>0, Numbered
<1> DEFINE first == pktq.pkts[1]
<1>4. /\ dec.pkt_serial <= first.serial /\ first.serial <= pktq.serial /\ first.serial \in Nat
      /\ dec.pkt_serial = pktq.serial => first.serial = pktq.serial
  BY <1>2, <1>3 DEF RestartInv, Ascending
<1>5. first.what # "flush" => first.serial = pktq.serial /\ dec.pkt_serial = pktq.serial
  <2>1. first.what # "flush" => Restarted(1)
    BY <1>2 DEF RestartInv, Flushed
  <2> QED BY <1>2, <2>1 DEF QueueInv, Serials, PacketsCurrent, Restarted
<1>6. Reading' <=> Reading
  BY <1>1 DEF Reading
<1>7. Pending' /\ Streamless'
  BY <1>6 DEF RestartInv, Pending, Streamless
<1>8. Ascending'
  <2>1. \A i \in DOMAIN pktq'.pkts : /\ first.serial <= pktq.pkts[i + 1].serial
                                     /\ pktq.pkts[i + 1].serial <= pktq.serial
    BY <1>2 DEF RestartInv, Ascending
  <2>2. \A i \in DOMAIN pktq'.pkts, j \in DOMAIN pktq'.pkts :
          i < j => pktq.pkts[i + 1].serial <= pktq.pkts[j + 1].serial
    BY <1>2 DEF RestartInv, Ascending
  <2> QED BY <1>1, <1>4, <2>1, <2>2 DEF Ascending
<1>9. ASSUME NEW n, Restarted(n + 1),
             \A j \in DOMAIN pktq.pkts : j < n + 1 => j - 1 < n
      PROVE  \/ dec'.pkt_serial = pktq'.serial
             \/ \E j \in DOMAIN pktq'.pkts :
                  j < n /\ pktq'.pkts[j].what = "flush" /\ pktq'.pkts[j].serial = pktq'.serial
  <2>1. CASE dec.pkt_serial = pktq.serial
    BY <1>1, <1>4, <2>1
  <2>2. CASE \E j \in DOMAIN pktq.pkts :
               j < n + 1 /\ pktq.pkts[j].what = "flush" /\ pktq.pkts[j].serial = pktq.serial
    <3>1. PICK j \in DOMAIN pktq.pkts :
                 j < n + 1 /\ pktq.pkts[j].what = "flush" /\ pktq.pkts[j].serial = pktq.serial
      BY <2>2
    <3>2. CASE j = 1
      BY <1>1, <3>1, <3>2
    <3>3. CASE j # 1
      <4>1. /\ j - 1 \in DOMAIN pktq'.pkts /\ pktq'.pkts[j - 1] = pktq.pkts[j] /\ j - 1 < n
        BY <1>1, <1>2, <1>9, <3>1, <3>3
      <4> QED BY <1>1, <3>1, <4>1
    <3> QED BY <3>2, <3>3
  <2> QED BY <1>9, <2>1, <2>2 DEF Restarted
<1>10. Flushed'
  <2>1. ASSUME NEW i \in DOMAIN pktq'.pkts, pktq'.pkts[i].what # "flush" PROVE Restarted(i + 1)
    BY <1>1, <1>2, <2>1 DEF RestartInv, Flushed
  <2>2. Reading /\ rd.pc # "seek_put" => Restarted((Len(pktq'.pkts) + 1) + 1)
    <3>1. (Len(pktq'.pkts) + 1) + 1 = Len(pktq.pkts) + 1
      BY <1>1
    <3> QED BY <3>1 DEF RestartInv, Flushed
  <2>3. \A j \in DOMAIN pktq.pkts :
          j < (Len(pktq'.pkts) + 1) + 1 => j - 1 < Len(pktq'.pkts) + 1
    BY <1>2
  <2>4. ASSUME NEW i \in DOMAIN pktq'.pkts, pktq'.pkts[i].what # "flush" PROVE Restarted(i)'
    <3>1. Restarted(i + 1) /\ \A j \in DOMAIN pktq.pkts : j < i + 1 => j - 1 < i
      BY <1>2, <2>1, <2>4
    <3> QED BY <1>9, <3>1 DEF Restarted
  <2>5. Reading' /\ rd'.pc # "seek_put" =>
          \/ dec'.pkt_serial = pktq'.serial
          \/ \E j \in DOMAIN pktq'.pkts : /\ j < Len(pktq'.pkts) + 1 /\ pktq'.pkts[j].what = "flush"
                                          /\ pktq'.pkts[j].serial = pktq'.serial
    BY <1>6, <1>9, <2>2, <2>3
  <2> QED BY <2>4, <2>5 DEF Flushed, Restarted
<1> QED BY <1>4, <1>5, <1>7, <1>8, <1>10 DEF RestartInv

\* Packets that wait or are dropped.
LEMMA PacketsKept ==
  ASSUME RestartInv, OrderInv, UNCHANGED <<frameq, dec, shown>>, pktq'.serial = pktq.serial,
         Reading' => Reading /\ rd'.pos = rd.pos, is'.stream \/ ~is.stream \/ ~Reading',
         \/ pktq'.pkts = pktq.pkts /\ (Reading' /\ rd'.pc # "seek_put" => rd.pc # "seek_put")
         \/ pktq'.pkts = <<>> /\ (Reading' => rd'.pc = "seek_put")
  PROVE  RestartInv' /\ OrderInv'
<1>1. Pending'
  BY DEF RestartInv, Pending
<1>2. RestartInv'
  BY <1>1, RestartKept
<1>3. Ready' = Ready /\ Held' = Held /\ Taken' = Taken /\ HeldUp'
  BY DecoderKept DEF OrderInv
<1>4. Sent' \subseteq Sent /\ SentUp'
  BY FewerSent DEF OrderInv
<1>5. Past' = Past /\ FramesUp'
  <2>1. Past' = Past
    BY DEF Past, Nth, Frame
  <2>2. FramesUp'
    BY DEF OrderInv, FramesUp, Nth, Frame
  <2> QED BY <2>1, <2>2
<1>6. InLine'
  BY <1>3, <1>4, <1>5, LineKept DEF OrderInv
<1>7. Behind'
  BY <1>3, <1>4, <1>5, BehindKept DEF OrderInv
<1> QED BY <1>2, <1>3, <1>4, <1>5, <1>6, <1>7 DEF OrderInv

\* av_read_frame and the seek put a packet behind all others.
LEMMA PacketsRead ==
  ASSUME QueueInv, RestartInv, OrderInv, Reading, UNCHANGED <<frameq, dec, shown>>,
         NEW p \in [what : {"flush", "null", "data"}, n : Nat],
         pktq' = packet_queue_put(pktq, p), is'.stream = is.stream, Reading',
         \/ p = Flush /\ \A i \in DOMAIN pktq.pkts : pktq.pkts[i].what = "flush"
         \/ p.what = "null" /\ rd'.pos = rd.pos /\ rd.pc # "seek_put"
         \/ p.what = "data" /\ p.n = rd.pos + 1 /\ rd'.pos = rd.pos + 1 /\ rd.pc # "seek_put"
  PROVE  RestartInv' /\ OrderInv'
<1> DEFINE a == <<pktq'.serial, p.n>>
           Old == Past \cup Ready \cup Held \cup Taken \cup Sent
<1>1. /\ TypeOK /\ ~pktq.abort_request
      /\ p = Flush \/ (rd.pc # "seek_put" /\ p.what # "flush")
      /\ p = Flush => \A i \in DOMAIN pktq.pkts : pktq.pkts[i].what = "flush"
  BY DEF QueueInv, Reading, Flush
<1>2. RestartInv'
  BY <1>1, RestartPut
<1>3. Ready' = Ready /\ Held' = Held /\ Taken' = Taken /\ HeldUp'
  BY DecoderKept DEF OrderInv
<1>4. Past' = Past /\ FramesUp'
  <2>1. Past' = Past
    BY DEF Past, Nth, Frame
  <2>2. FramesUp'
    BY DEF OrderInv, FramesUp, Nth, Frame
  <2> QED BY <2>1, <2>2
<1>5. pktq'.serial = IF p = Flush THEN pktq.serial + 1 ELSE pktq.serial
  BY <1>1, PacketPut
<1>6. /\ Old \subseteq Nat \X Nat /\ pktq.serial \in Nat /\ rd.pos \in Nat
      /\ \A b \in Old : b[1] \in Nat /\ b[2] \in Nat
      /\ \A b \in Old : b[1] < pktq.serial \/ (b[1] = pktq.serial /\ b[2] <= rd.pos)
  <2>1. Old \subseteq Nat \X Nat /\ pktq.serial \in Nat /\ rd.pos \in Nat
    BY <1>1, Numbered
  <2> QED BY <2>1 DEF OrderInv, Behind, Ahead
<1>7. CASE p.what # "data"
  <2>1. SentUp' /\ Sent' \subseteq Sent
    BY <1>1, <1>7, SentRead DEF OrderInv
  <2>2. InLine'
    BY <1>3, <1>4, <2>1, LineKept DEF OrderInv
  <2>3. Behind'
    <3>1. CASE p = Flush
      BY <1>1, <1>3, <1>4, <1>5, <2>1, <3>1, BehindRestarted DEF OrderInv
    <3>2. CASE p # Flush
      <4>1. pktq'.serial = pktq.serial /\ rd'.pos = rd.pos
        BY <1>5, <1>7, <3>2
      <4> QED BY <1>3, <1>4, <2>1, <4>1, BehindKept DEF OrderInv
    <3> QED BY <3>1, <3>2
  <2> QED BY <1>2, <1>3, <1>4, <2>1, <2>2, <2>3 DEF OrderInv
<1>8. CASE p.what = "data"
  <2>1. p # Flush /\ p.n = rd.pos + 1 /\ rd'.pos = rd.pos + 1 /\ a[1] = pktq.serial /\ a[2] = p.n
        /\ pktq'.serial = pktq.serial
    BY <1>5, <1>8 DEF Flush
  <2> HIDE DEF a, Old
  <2>2. \A b \in Old : Later(b, a)
    BY <1>6, <2>1 DEF Later
  <2>3. Before(Past \cup Ready \cup Held \cup Taken, {a}) /\ Before(Sent, {a})
    BY <2>2 DEF Before, Old
  <2>4. SentUp' /\ Sent' \subseteq Sent \cup {a}
    BY <1>1, <2>3, SentRead DEF OrderInv, a
  <2>5. InLine'
    BY <1>3, <1>4, <2>3, <2>4, LineRead DEF OrderInv
  <2>6. Behind'
    <3>1. \A b \in Old \cup {a} : b[1] < pktq'.serial \/ (b[1] = pktq'.serial /\ b[2] <= rd'.pos)
      BY <1>6, <2>1
    <3> QED BY <1>3, <1>4, <2>4, <3>1 DEF Behind, Ahead, Old
  <2> QED BY <1>2, <1>3, <1>4, <2>4, <2>5, <2>6 DEF OrderInv
<1> QED BY <1>7, <1>8

LEMMA ReaderOrders ==
  ASSUME QueueInv, RestartInv, OrderInv, Reader PROVE RestartInv' /\ OrderInv' /\ shown' = shown
<1>1. UNCHANGED <<opt, dec, shown, frameq>>
  BY DEF Reader, ReadLoop, SeekNothing, SeekFlush, SeekPut, SeekStep, ReadWait, ReadEnd,
         ReadFrame, ReadError, ReadWaitEnd, ReadClose, ReadGone, queues, user, Closing
<1>2. CASE ReadLoop \/ SeekNothing \/ SeekStep \/ ReadWait \/ ReadEnd \/ ReadWaitEnd \/ ReadGone
  <2>1. /\ pktq' = pktq /\ is'.stream = is.stream /\ rd.pc # "seek_put"
        /\ rd'.pc = "gone" \/ rd.pc \notin ClosePcs \cup {"closed", "gone"}
        /\ rd'.pos = rd.pos \/ ~is.stream
    BY <1>2 DEF ReadLoop, SeekNothing, SeekDone, SeekStep, ReadWait, ReadEnd, ReadWaitEnd,
                ReadGone, ReadStep, ClosePcs, queues, QueueInv, TypeOK, ReadThreads, Flags
  <2>2. Reading' => Reading
    BY <2>1 DEF Reading
  <2>3. Reading' => rd'.pos = rd.pos
    BY <2>1, <2>2 DEF RestartInv, Streamless
  <2> QED BY <1>1, <2>1, <2>2, <2>3, PacketsKept
<1>3. CASE SeekFlush
  <2>1. /\ pktq'.serial = pktq.serial /\ pktq'.pkts = <<>> /\ is' = is
        /\ pktq'.abort_request = pktq.abort_request
        /\ rd.pc = "seek" /\ rd'.pc = "seek_put" /\ rd'.pos = rd.pos
    BY <1>3 DEF SeekFlush, ReadStep, packet_queue_flush, QueueInv, TypeOK, ReadThreads, PacketQueues
  <2>2. Reading' => Reading
    BY <2>1 DEF Reading, ClosePcs
  <2> QED BY <1>1, <2>1, <2>2, PacketsKept
<1>4. CASE SeekPut
  <2>1. /\ rd.pc = "seek_put" /\ pktq' = packet_queue_put(pktq, Flush)
        /\ is'.stream = is.stream /\ rd'.pc \in {"step", "fill"}
        /\ Flush \in [what : {"flush", "null", "data"}, n : Nat]
        /\ \A i \in DOMAIN pktq.pkts : pktq.pkts[i].what = "flush"
    BY <1>4 DEF SeekPut, SeekDone, Put, Flush, QueueInv, Serials, TypeOK, ReadThreads, Flags
  <2>2. pktq'.abort_request = pktq.abort_request /\ (pktq.abort_request => pktq' = pktq)
    BY <2>1, PutPackets
  <2>3. CASE pktq.abort_request
    BY <1>1, <2>1, <2>2, <2>3, PacketsKept DEF Reading
  <2>4. CASE ~pktq.abort_request
    <3>1. Reading /\ Reading'
      BY <2>1, <2>2, <2>4 DEF Reading, ClosePcs
    <3> QED BY <1>1, <2>1, <3>1, PacketsRead
  <2> QED BY <1>1, <2>3, <2>4
<1>5. CASE ReadFrame
  <2>1. /\ rd.pc = "read" /\ rd'.pc = "loop" /\ is' = is
        /\ rd'.pos = IF rd.pos = opt.FileLen THEN rd.pos ELSE rd.pos + 1
        /\ \/ pktq' = pktq /\ (~is.stream \/ rd.pos = opt.FileLen)
           \/ pktq' = packet_queue_put(pktq, IF rd.pos = opt.FileLen THEN Null ELSE Data(rd.pos + 1))
    BY <1>5 DEF ReadFrame, Put, QueueInv, TypeOK, ReadThreads
  <2>2. CASE pktq' = pktq /\ (~is.stream \/ rd.pos = opt.FileLen)
    <3>1. Reading' => Reading
      BY <2>1, <2>2 DEF Reading, ClosePcs
    <3>2. Reading' => rd'.pos = rd.pos
      BY <2>1, <2>2, <3>1 DEF RestartInv, Streamless
    <3> QED BY <1>1, <2>1, <2>2, <3>1, <3>2, PacketsKept
  <2> DEFINE p == IF rd.pos = opt.FileLen THEN Null ELSE Data(rd.pos + 1)
  <2>3. CASE pktq' = packet_queue_put(pktq, p)
    <3>1. /\ p \in [what : {"flush", "null", "data"}, n : Nat] /\ p # Flush
          /\ \/ p.what = "null" /\ rd'.pos = rd.pos
             \/ p.what = "data" /\ p.n = rd.pos + 1 /\ rd'.pos = rd.pos + 1
      BY <2>1 DEF Null, Data, Flush, QueueInv, TypeOK, ReadThreads
    <3> HIDE DEF p
    <3>2. pktq'.abort_request = pktq.abort_request /\ (pktq.abort_request => pktq' = pktq)
      BY <2>3, <3>1, PutPackets
    <3>3. CASE pktq.abort_request
      BY <1>1, <2>1, <3>2, <3>3, PacketsKept DEF Reading
    <3>4. CASE ~pktq.abort_request
      <4>1. Reading /\ Reading'
        BY <2>1, <3>2, <3>4 DEF Reading, ClosePcs
      <4> QED BY <1>1, <2>1, <2>3, <3>1, <4>1, PacketsRead
    <3> QED BY <1>1, <3>3, <3>4
  <2> QED BY <1>1, <2>1, <2>2, <2>3
<1>6. CASE ReadClose
  <2>1. /\ rd.pc \in ClosePcs /\ rd'.pc \in ClosePcs \cup {"closed"} /\ pktq'.serial = pktq.serial
        /\ pktq'.pkts = pktq.pkts \/ pktq'.pkts = <<>>
    <3>1. CASE rd.pc = "close" /\ rd' = [rd EXCEPT !.pc = "closed"] /\ UNCHANGED <<queues, is, cb>>
      BY <3>1 DEF queues, ClosePcs, QueueInv, TypeOK, ReadThreads
    <3>2. CASE rd.pc \in ClosePcs /\ \E next \in ClosePcs \cup {"closed"} :
                 Closing(rd.pc, next) /\ rd' = [rd EXCEPT !.pc = next]
      <4>1. PICK next \in ClosePcs \cup {"closed"} :
                   Closing(rd.pc, next) /\ rd' = [rd EXCEPT !.pc = next]
        BY <3>2
      <4>2. rd'.pc = next
        BY <4>1 DEF QueueInv, TypeOK, ReadThreads
      <4> QED BY <3>2, <4>1, <4>2, ClosingShape
    <3> QED BY <1>6, <3>1, <3>2 DEF ReadClose
  <2>2. ~Reading'
    BY <2>1 DEF Reading
  <2> QED BY <1>1, <2>1, <2>2, PacketsKept
<1>7. CASE ReadError
  <2>1. /\ rd.pc = "read" /\ rd'.pc = "wait" /\ is' = is /\ rd'.pos = rd.pos
        /\ pktq' = pktq \/ pktq' = packet_queue_put(pktq, Null)
    BY <1>7 DEF ReadError, Put, QueueInv, TypeOK, ReadThreads
  <2>2. /\ Null \in [what : {"flush", "null", "data"}, n : Nat] /\ Null # Flush
        /\ Null.what = "null"
    BY DEF Null, Flush
  <2>3. CASE pktq' = pktq
    <3>1. Reading' => Reading
      BY <2>1, <2>3 DEF Reading, ClosePcs
    <3> QED BY <1>1, <2>1, <2>3, <3>1, PacketsKept
  <2>4. CASE pktq' = packet_queue_put(pktq, Null)
    <3>1. pktq'.abort_request = pktq.abort_request /\ (pktq.abort_request => pktq' = pktq)
      BY <2>2, <2>4, PutPackets
    <3>2. CASE pktq.abort_request
      BY <1>1, <2>1, <3>1, <3>2, PacketsKept DEF Reading
    <3>3. CASE ~pktq.abort_request
      <4>1. Reading /\ Reading'
        BY <2>1, <3>1, <3>3 DEF Reading, ClosePcs
      <4> QED BY <1>1, <2>1, <2>2, <2>4, <4>1, PacketsRead
    <3> QED BY <3>2, <3>3
  <2> QED BY <1>1, <2>1, <2>3, <2>4
<1> QED BY <1>2, <1>3, <1>4, <1>5, <1>6, <1>7 DEF Reader

-----------------------------------------------------------------------------
(* The stream's thread *)

LEMMA FramesKept ==
  ASSUME OrderInv, UNCHANGED <<frameq, shown>>
  PROVE  Past' = Past /\ FramesUp'
<1>1. Past' = Past
  BY DEF Past, Nth, Frame
<1>2. FramesUp'
  BY DEF OrderInv, FramesUp, Nth, Frame
<1> QED BY <1>1, <1>2

LEMMA ThreadOrders ==
  ASSUME RestartInv, OrderInv, UNCHANGED <<pktq, rd>>, is'.stream = is.stream, dec'.pkt_serial = dec.pkt_serial,
         Pending', FramesUp', HeldUp', InLine',
         Past' \cup Ready' \cup Held' \cup Taken' \subseteq Past \cup Ready \cup Held \cup Taken
  PROVE  RestartInv' /\ OrderInv'
<1>1. Reading' <=> Reading
  BY DEF Reading
<1>2. RestartInv'
  BY <1>1, RestartKept
<1>3. Sent' = Sent /\ SentUp'
  BY DEF OrderInv, Sent, Waiting, Packet, SentUp
<1>4. Behind'
  BY <1>1, <1>3, BehindKept DEF OrderInv
<1> QED BY <1>2, <1>3, <1>4 DEF OrderInv

\* The frames inside the codec stay, and those outside go on or are given up.
LEMMA ThreadKept ==
  ASSUME RestartInv, OrderInv, UNCHANGED <<pktq, rd>>, is'.stream = is.stream, dec'.held = dec.held,
         dec'.pkt_serial = dec.pkt_serial, Pending', FramesUp', Ready' \subseteq Ready,
         Taken' \subseteq Taken,
         \/ Past' \subseteq Past
         \/ Past' \subseteq Past \cup Ready /\ Ready' = {}
  PROVE  RestartInv' /\ OrderInv'
<1>1. Held' = Held /\ HeldUp'
  BY DEF OrderInv, Held, Inside, HeldUp
<1>2. Sent' = Sent
  BY DEF Sent, Waiting, Packet
<1>3. InLine'
  BY <1>1, <1>2, LineKept, LinePushed DEF OrderInv
<1> QED BY <1>1, <1>3, ThreadOrders

\* What the codec has, s, is in order; it gives the first of it or nothing.
LEMMA CodecOrders ==
  ASSUME QueueInv, RestartInv, OrderInv, UNCHANGED <<pktq, is, rd, frameq, shown>>,
         dec'.pkt_serial = dec.pkt_serial, Pending', NEW s \in Seq(Nat),
         \A i \in DOMAIN s : <<dec.pkt_serial, s[i]>> \in Held \cup Taken,
         \A i \in DOMAIN s, j \in DOMAIN s : i < j => s[i] < s[j],
         \/ dec'.held = s /\ dec'.pc = "decode"
         \/ /\ s # <<>> /\ dec'.held = Tail(s)
            /\ dec'.pc = "decode" \/ (dec'.pc = "queue" /\ dec'.frame = Head(s))
  PROVE  RestartInv' /\ OrderInv'
<1>1. Taken' = {}
  BY DEF Taken
<1>2. /\ Ready' \cup Held' \subseteq Held \cup Taken /\ HeldUp' /\ Before(Ready', Held')
  <2>1. CASE dec'.held = s /\ dec'.pc = "decode"
    <3>1. Ready' = {} /\ Held' \subseteq Held \cup Taken
      BY <2>1 DEF Ready, Held, Inside
    <3>2. HeldUp'
      BY <2>1 DEF HeldUp, Inside, Later
    <3> QED BY <3>1, <3>2 DEF Before
  <2>2. CASE /\ s # <<>> /\ dec'.held = Tail(s)
             /\ dec'.pc = "decode" \/ (dec'.pc = "queue" /\ dec'.frame = Head(s))
    <3>1. /\ Len(s) \in Nat /\ Len(s) > 0 /\ DOMAIN s = 1 .. Len(s) /\ Head(s) = s[1]
          /\ Len(Tail(s)) = Len(s) - 1 /\ Tail(s) \in Seq(Nat)
          /\ \A i \in 1 .. Len(Tail(s)) : Tail(s)[i] = s[i + 1]
      BY <2>2, HeadTailProperties, LenProperties, EmptySeq
    <3>2. DOMAIN Tail(s) = 1 .. Len(s) - 1
      BY <3>1, LenProperties
    <3>3. /\ 1 \in DOMAIN s
          /\ \A i \in DOMAIN Tail(s) : /\ i + 1 \in DOMAIN s /\ 1 < i + 1
                                       /\ Tail(s)[i] = s[i + 1]
          /\ \A i \in DOMAIN Tail(s), j \in DOMAIN Tail(s) : i < j => i + 1 < j + 1
      BY <3>1, <3>2
    <3>4. Ready' \subseteq {<<dec.pkt_serial, s[1]>>}
      BY <2>2, <3>1 DEF Ready
    <3>5. Held' \subseteq {<<dec.pkt_serial, s[i + 1]>> : i \in DOMAIN Tail(s)}
      BY <2>2, <3>3 DEF Held, Inside
    <3>6. Ready' \cup Held' \subseteq Held \cup Taken
      BY <3>3, <3>4, <3>5
    <3>7. HeldUp'
      BY <2>2, <3>3 DEF HeldUp, Inside, Later
    <3>8. Before(Ready', Held')
      <4>1. \A i \in DOMAIN Tail(s) : Later(<<dec.pkt_serial, s[1]>>, <<dec.pkt_serial, s[i + 1]>>)
        BY <3>3 DEF Later
      <4> QED BY <3>4, <3>5, <4>1 DEF Before
    <3> QED BY <3>6, <3>7, <3>8
  <2> QED BY <2>1, <2>2
<1>3. Past' = Past /\ FramesUp'
  BY FramesKept
<1>4. Sent' = Sent
  BY DEF Sent, Waiting, Packet
<1>5. InLine'
  BY <1>1, <1>2, <1>3, <1>4, LineDecoded DEF OrderInv
<1> QED BY <1>1, <1>2, <1>3, <1>5, ThreadOrders

LEMMA CodecDecodes ==
  ASSUME QueueInv, RestartInv, OrderInv, Codec PROVE RestartInv' /\ OrderInv'
<1>1. /\ UNCHANGED <<pktq, frameq, is, rd, shown>> /\ dec.pc = "codec" /\ dec \in Decoders
  BY DEF Codec, Thread, queues, user, QueueInv, TypeOK
<1>2. dec.held \in Seq(Nat) /\ dec.pkt_serial \in Nat /\ dec.pkt.n \in Nat
  BY <1>1 DEF Decoders, Packets, NoPacket
<1> DEFINE n == dec.pkt.n
           buffered == Append(dec.held, n)
<1>3. /\ \A i \in DOMAIN dec.held : <<dec.pkt_serial, dec.held[i]>> \in Held \cup Taken
      /\ \A i \in DOMAIN dec.held, j \in DOMAIN dec.held : i < j => dec.held[i] < dec.held[j]
  <2>1. \A i \in DOMAIN dec.held : dec.held[i] \in Nat
    BY <1>2, ElementOfSeq, LenProperties
  <2> QED BY <1>2, <2>1 DEF OrderInv, HeldUp, Held, Inside, Later
<1>4. ASSUME dec.pkt.what = "data"
      PROVE  /\ buffered \in Seq(Nat) /\ buffered # <<>>
             /\ \A i \in DOMAIN buffered : <<dec.pkt_serial, buffered[i]>> \in Held \cup Taken
             /\ \A i \in DOMAIN buffered, j \in DOMAIN buffered : i < j => buffered[i] < buffered[j]
  <2>1. /\ buffered \in Seq(Nat) /\ Len(dec.held) \in Nat /\ Len(buffered) = Len(dec.held) + 1
        /\ \A i \in 1 .. Len(dec.held) : buffered[i] = dec.held[i]
        /\ buffered[Len(dec.held) + 1] = n
        /\ DOMAIN dec.held = 1 .. Len(dec.held) /\ DOMAIN buffered = 1 .. Len(dec.held) + 1
    BY <1>2, AppendProperties, LenProperties
  <2> HIDE DEF buffered
  <2>2. /\ \A i \in DOMAIN buffered : i \in DOMAIN dec.held \/ i = Len(dec.held) + 1
        /\ \A i \in DOMAIN buffered, j \in DOMAIN buffered : i < j => i \in DOMAIN dec.held
    BY <2>1
  <2>3. Taken = {<<dec.pkt_serial, n>>}
    BY <1>1, <1>4 DEF Taken
  <2>4. \A i \in DOMAIN dec.held : dec.held[i] < n
    <3>1. \A i \in DOMAIN dec.held : Later(Inside(i), <<dec.pkt_serial, n>>)
      BY <2>3 DEF OrderInv, InLine, Before, Held
    <3> QED BY <1>2, <3>1 DEF Later, Inside
  <2>5. \A i \in DOMAIN buffered : <<dec.pkt_serial, buffered[i]>> \in Held \cup Taken
    BY <1>3, <2>1, <2>2, <2>3
  <2>6. \A i \in DOMAIN buffered, j \in DOMAIN buffered : i < j => buffered[i] < buffered[j]
    BY <1>3, <2>1, <2>2, <2>4
  <2>7. buffered # <<>>
    BY <2>1, EmptySeq
  <2> QED BY <2>1, <2>5, <2>6, <2>7
<1> HIDE DEF buffered
<1>5. ASSUME NEW s, NEW p \in BOOLEAN, s # <<>>, Decoded(Head(s), Tail(s), p),
             p => dec.pkt.what = "null"
      PROVE  /\ dec'.pkt_serial = dec.pkt_serial /\ dec'.held = Tail(s)
             /\ dec'.pc = "decode" \/ (dec'.pc = "queue" /\ dec'.frame = Head(s))
             /\ Pending'
  <2>1. /\ dec'.pkt_serial = dec.pkt_serial /\ dec'.held = Tail(s) /\ dec'.pending = p
        /\ dec'.pkt = dec.pkt
        /\ dec'.pc = "decode" \/ (dec'.pc = "queue" /\ dec'.frame = Head(s))
    BY <1>1, <1>5 DEF Decoded, Decoders
  <2> QED BY <1>5, <2>1 DEF Pending
<1>6. CASE dec.pkt.what = "data" /\ Decoded(Head(buffered), Tail(buffered), FALSE)
  <2>1. /\ dec'.pkt_serial = dec.pkt_serial /\ dec'.held = Tail(buffered) /\ Pending'
        /\ dec'.pc = "decode" \/ (dec'.pc = "queue" /\ dec'.frame = Head(buffered))
    BY <1>4, <1>5, <1>6
  <2> QED BY <1>1, <1>4, <1>6, <2>1, CodecOrders
<1>7. CASE dec.pkt.what = "null" /\ dec.held # <<>> /\ Decoded(Head(dec.held), Tail(dec.held), TRUE)
  <2>1. /\ dec'.pkt_serial = dec.pkt_serial /\ dec'.held = Tail(dec.held) /\ Pending'
        /\ dec'.pc = "decode" \/ (dec'.pc = "queue" /\ dec'.frame = Head(dec.held))
    BY <1>5, <1>7
  <2> QED BY <1>1, <1>2, <1>3, <1>7, <2>1, CodecOrders
<1>8. CASE dec.pkt.what = "data" /\ dec' = [dec EXCEPT !.pc = "decode", !.pending = FALSE, !.held = buffered]
  <2>1. /\ dec'.pkt_serial = dec.pkt_serial /\ dec'.held = buffered /\ dec'.pc = "decode" /\ Pending'
    BY <1>1, <1>8 DEF Decoders, Pending
  <2> QED BY <1>1, <1>4, <1>8, <2>1, CodecOrders
<1>9. CASE \/ dec' = [dec EXCEPT !.pc = "decode", !.pending = FALSE]
           \/ dec' = [dec EXCEPT !.pc = "decode", !.pending = FALSE, !.finished = dec.pkt_serial]
  <2>1. /\ dec'.pkt_serial = dec.pkt_serial /\ dec'.held = dec.held /\ dec'.pc = "decode" /\ Pending'
    BY <1>1, <1>9 DEF Decoders, Pending
  <2> QED BY <1>1, <1>2, <1>3, <2>1, CodecOrders
<1> QED BY <1>6, <1>7, <1>8, <1>9 DEF Codec, buffered

LEMMA GetOrders ==
  ASSUME QueueInv, RestartInv, OrderInv, packet_queue_get PROVE RestartInv' /\ OrderInv'
<1>1. /\ UNCHANGED <<frameq, is, rd, shown>> /\ dec.pc = "get" /\ dec \in Decoders /\ TypeOK
  BY DEF packet_queue_get, Thread, user, QueueInv, TypeOK
<1>2. Past' = Past /\ FramesUp'
  BY <1>1, FramesKept
<1>3. CASE pktq' = pktq /\ (DecGoes("exit") \/ DecSleeps("pq"))
  <2>1. /\ dec'.pc \in {"get", "exit"} /\ dec'.held = dec.held /\ dec'.pkt_serial = dec.pkt_serial
    BY <1>1, <1>3 DEF DecGoes, DecSleeps, Decoders
  <2>2. Ready' = {} /\ Taken' = {} /\ Pending'
    BY <2>1 DEF Ready, Taken, Pending
  <2> QED BY <1>1, <1>2, <1>3, <2>1, <2>2, ThreadKept
<1> DEFINE p == Head(pktq.pkts)
           t == [dec EXCEPT !.pc = "got", !.pkt = p, !.pkt_serial = p.serial]
<1>4. CASE /\ pktq.pkts # <<>> /\ pktq' = [pktq EXCEPT !.pkts = Tail(@)]
           /\ dec' = IF p.what = "flush" THEN Emptied(t) ELSE t
  <2>1. /\ dec'.pc = "got" /\ dec'.pkt = p /\ dec'.pkt_serial = p.serial
        /\ dec'.held = IF p.what = "flush" THEN <<>> ELSE dec.held
    <3> HIDE DEF p
    <3>1. t.pc = "got" /\ t.pkt = p /\ t.pkt_serial = p.serial /\ t.held = dec.held
      BY <1>1 DEF Decoders
    <3>2. LET e == Emptied(t)
          IN e.pc = "got" /\ e.pkt = p /\ e.pkt_serial = p.serial /\ e.held = <<>>
      BY <1>1 DEF Emptied, Decoders
    <3> HIDE DEF t
    <3> QED BY <1>4, <3>1, <3>2
  <2>2. p = pktq.pkts[1] /\ pktq'.serial = pktq.serial /\ pktq'.abort_request = pktq.abort_request
    BY <1>1, <1>4, PacketTaken
  <2> HIDE DEF p, t
  <2>3. RestartInv' /\ (p.what # "flush" => dec'.pkt_serial = dec.pkt_serial)
    BY <1>1, <1>4, <2>1, <2>2, RestartTaken
  <2>4. Held' \subseteq Held /\ HeldUp'
    <3>1. CASE p.what = "flush"
      BY <2>1, <3>1 DEF Held, HeldUp
    <3>2. CASE p.what # "flush"
      BY <2>1, <2>3, <3>2 DEF Held, HeldUp, Inside, OrderInv
    <3> QED BY <3>1, <3>2
  <2>5. Ready' = {} /\ Taken' \subseteq {Packet(1)} /\ (p.what # "data" => Taken' = {})
    BY <2>1, <2>2 DEF Ready, Taken, Packet
  <2>6. /\ SentUp' /\ Sent' \subseteq Sent
        /\ p.what = "data" => Packet(1) \in Sent /\ Before({Packet(1)}, Sent')
    BY <1>1, <1>4, <2>2, SentTaken DEF OrderInv
  <2>7. Taken' \cup Sent' \subseteq Sent /\ Before(Taken', Sent')
    BY <2>5, <2>6 DEF Before
  <2>8. InLine'
    BY <1>2, <2>4, <2>5, <2>7, LineTaken DEF OrderInv
  <2>9. Behind'
    <3>1. Reading' => Reading /\ rd'.pos = rd.pos
      BY <1>1, <2>2 DEF Reading
    <3> QED BY <1>2, <2>2, <2>4, <2>5, <2>7, <3>1, BehindKept DEF OrderInv
  <2> QED BY <1>2, <2>3, <2>4, <2>6, <2>8, <2>9 DEF OrderInv
<1> QED BY <1>3, <1>4 DEF packet_queue_get

\* A thread that goes on, sleeps or leaves.
LEMMA PacedOrders ==
  ASSUME QueueInv, RestartInv, OrderInv, UNCHANGED <<pktq, is, rd, shown>>,
         frameq' = frameq \/ frameq' = Reserve(frameq),
         \/ dec' = dec
         \/ dec' = [dec EXCEPT !.pc = dec'.pc]
         \/ dec' = [dec EXCEPT !.pc = "codec", !.pending = TRUE] /\ dec.pc = "got",
         dec'.pc \in {"queue", "alloc"} => dec.pc \in {"queue", "alloc"},
         dec'.pc \in {"got", "codec"} => dec.pc \in {"got", "codec"} \/ (dec.pending /\ dec.pc = "decode"),
         dec'.pc \in {"decode", "peek"} => dec.pc \in {"decode", "queue", "alloc", "peek"}
  PROVE  RestartInv' /\ OrderInv'
<1>1. /\ dec'.held = dec.held /\ dec'.pkt_serial = dec.pkt_serial /\ dec'.pkt = dec.pkt
      /\ dec'.frame = dec.frame
      /\ dec'.pending = dec.pending \/ dec'.pc = "codec"
  BY DEF QueueInv, TypeOK, Decoders
<1>2. Pending'
  BY <1>1 DEF RestartInv, Pending
<1>3. Ready' \subseteq Ready
  BY <1>1 DEF Ready
<1>4. Taken' \subseteq Taken
  BY <1>1 DEF Taken, RestartInv, Pending
<1>5. Past' = Past /\ FramesUp'
  <2>1. CASE frameq' = frameq
    BY <2>1, FramesKept
  <2>2. CASE frameq' = Reserve(frameq)
    <3>1. PICK slot \in Frames :
                 /\ Requesting(slot, frameq.queue[frameq.windex])
                 /\ Reserve(frameq) = [frameq EXCEPT !.queue = [@ EXCEPT ![frameq.windex] = slot]]
      BY SlotWrites
    <3>2. /\ frameq'.keep_last = frameq.keep_last /\ frameq'.size = frameq.size
          /\ frameq'.rindex = frameq.rindex /\ frameq'.rindex_shown = frameq.rindex_shown
          /\ frameq'.queue = [frameq.queue EXCEPT ![frameq.windex] = slot]
      BY <2>2, <3>1, SlotWritten
    <3>3. \A i \in Slots : /\ frameq'.queue[i].serial = frameq.queue[i].serial
                           /\ frameq'.queue[i].n = frameq.queue[i].n
      BY <3>1, <3>2 DEF Requesting, QueueInv, TypeOK, FrameQueues
    <3>4. ~frameq'.keep_last => frameq'.rindex_shown = 0
      BY <3>2 DEF OrderInv, FramesUp
    <3> QED BY <3>2, <3>3, <3>4, SameRing DEF OrderInv
  <2> QED BY <2>1, <2>2
<1> QED BY <1>1, <1>2, <1>3, <1>4, <1>5, ThreadKept

\* The frame is queued.
LEMMA PushOrders ==
  ASSUME QueueInv, RestartInv, OrderInv, UNCHANGED <<pktq, is, rd, shown>>,
         frameq' = frame_queue_push(Filled_in), frameq.size < MaxSize,
         dec.pc \in {"queue", "alloc"}, dec' = [dec EXCEPT !.pc = dec'.pc],
         dec'.pc \in {"decode", "peek"}
  PROVE  RestartInv' /\ OrderInv'
<1>1. /\ dec'.held = dec.held /\ dec'.pkt_serial = dec.pkt_serial /\ dec'.pkt = dec.pkt
      /\ dec'.pending = dec.pending
  BY DEF QueueInv, TypeOK, Decoders
<1>2. Pending' /\ Ready' = {} /\ Taken' = {}
  BY <1>1 DEF RestartInv, Pending, Ready, Taken
<1>3. Ready = {<<dec.pkt_serial, dec.frame>>}
  BY DEF Ready
<1>4. Before(Past, Ready)
  BY DEF OrderInv, InLine, Before
<1>5. FramesUp' /\ Past' \subseteq Past \cup Ready
  BY <1>3, <1>4, FramePushed DEF OrderInv
<1> QED BY <1>1, <1>2, <1>5, ThreadKept

LEMMA DecoderOrders ==
  ASSUME QueueInv, RestartInv, OrderInv, Decoder
  PROVE  RestartInv' /\ OrderInv' /\ shown' = shown
<1>1. shown' = shown
  BY DEF Decoder, Decoding, Decode, packet_queue_get, GotPacket, Codec, ThreadExit, VideoThread,
         QueuePicture, PushPicture, QueueSamples, SubtitleThread, PeekWritable, QueueSubtitle, user
<1>2. dec \in Decoders
  BY DEF QueueInv, TypeOK
<1>3. CASE \/ Decode \/ GotPacket \/ ThreadExit \/ PeekWritable
           \/ QueuePicture
           \/ PushPicture /\ frameq' = frameq
           \/ QueueSamples /\ frameq' = frameq /\ NotWritable
           \/ QueueSubtitle /\ frameq' = frameq
  <2>1. /\ UNCHANGED <<pktq, is, rd>> /\ (frameq' = frameq \/ frameq' = Reserve(frameq))
    BY <1>3 DEF Decode, GotPacket, ThreadExit, PeekWritable, QueuePicture, PushPicture,
                QueueSamples, QueueSubtitle, queues
  <2>2. /\ \/ dec' = dec
           \/ dec' = [dec EXCEPT !.pc = dec'.pc]
           \/ dec' = [dec EXCEPT !.pc = "codec", !.pending = TRUE] /\ dec.pc = "got"
        /\ dec'.pc \in {"queue", "alloc"} => dec.pc \in {"queue", "alloc"}
        /\ dec'.pc \in {"got", "codec"} =>
             dec.pc \in {"got", "codec"} \/ (dec.pending /\ dec.pc = "decode")
        /\ dec'.pc \in {"decode", "peek"} => dec.pc \in {"decode", "queue", "alloc", "peek"}
    <3>1. CASE Decode
      BY <1>2, <3>1 DEF Decode, Thread, DecGoes, Decoders
    <3>2. CASE GotPacket
      BY <1>2, <3>2 DEF GotPacket, Thread, Decoders
    <3>3. CASE ThreadExit \/ PeekWritable
      BY <1>2, <3>3 DEF ThreadExit, PeekWritable, NotWritable, Thread, DecGoes, DecSleeps, Decoders
    <3>4. CASE QueuePicture
      BY <1>2, <3>4 DEF QueuePicture, NotWritable, Thread, DecGoes, DecSleeps, Decoders
    <3>5. CASE PushPicture /\ frameq' = frameq
      BY <1>2, <3>5 DEF PushPicture, Thread, DecGoes, DecSleeps, Decoders
    <3>6. CASE QueueSamples /\ frameq' = frameq /\ NotWritable
      BY <1>2, <3>6 DEF QueueSamples, NotWritable, Thread, DecGoes, DecSleeps, Decoders
    <3>7. CASE QueueSubtitle /\ frameq' = frameq
      BY <1>2, <3>7 DEF QueueSubtitle, Thread, Decoders
    <3> QED BY <1>3, <3>1, <3>2, <3>3, <3>4, <3>5, <3>6, <3>7
  <2> QED BY <1>1, <2>1, <2>2, PacedOrders
<1>4. CASE /\ PushPicture \/ QueueSamples \/ QueueSubtitle
           /\ frameq' = frame_queue_push(Filled_in)
           /\ PushPicture => DecGoes("decode")
           /\ QueueSamples => Writable /\ dec' = [dec EXCEPT !.pc = "decode"]
  <2>1. /\ UNCHANGED <<pktq, is, rd>> /\ dec.pc \in {"queue", "alloc"}
        /\ dec' = [dec EXCEPT !.pc = dec'.pc] /\ dec'.pc \in {"decode", "peek"}
    BY <1>2, <1>4 DEF PushPicture, QueueSamples, QueueSubtitle, Thread, DecGoes, Decoders
  <2>2. frameq.size < MaxSize
    BY <1>4, QueueAssumption
    DEF PushPicture, QueueSamples, QueueSubtitle, Thread, Ring, Reserved, Writable,
        frame_queue_full, QueueInv, TypeOK, FrameQueues
  <2> QED BY <1>1, <1>4, <2>1, <2>2, PushOrders
<1>5. CASE PushPicture
  <2>1. frameq' = frameq \/ (frameq' = frame_queue_push(Filled_in) /\ DecGoes("decode"))
    BY <1>5 DEF PushPicture
  <2>2. ~QueueSamples \/ frameq' = frameq
    BY <1>5 DEF PushPicture, QueueSamples, Thread
  <2> QED BY <1>3, <1>4, <1>5, <2>1, <2>2
<1>6. CASE QueueSamples
  <2>1. ~PushPicture
    BY <1>6 DEF PushPicture, QueueSamples, Thread
  <2> QED BY <1>3, <1>4, <1>6, <2>1 DEF QueueSamples
<1>7. CASE QueueSubtitle
  <2>1. ~PushPicture /\ ~QueueSamples
    BY <1>7 DEF PushPicture, QueueSamples, QueueSubtitle, Thread
  <2> QED BY <1>3, <1>4, <1>7, <2>1 DEF QueueSubtitle
<1> QED BY <1>1, <1>3, <1>5, <1>6, <1>7, GetOrders, CodecDecodes
        DEF Decoder, Decoding, VideoThread, SubtitleThread

-----------------------------------------------------------------------------
(* The main thread and the callback *)

\* Frames that are shown or given up.
LEMMA FramesOrder ==
  ASSUME RestartInv, OrderInv, UNCHANGED <<pktq, dec, rd>>, is'.stream = is.stream,
         FramesUp', Past' \subseteq Past
  PROVE  RestartInv' /\ OrderInv'
<1>1. Pending' /\ Ready' = Ready /\ Taken' = Taken
  BY DecoderKept DEF RestartInv, Pending
<1> QED BY <1>1, ThreadKept

LEMMA RefreshOrders ==
  ASSUME QueueInv, RestartInv, OrderInv, VideoMain \/ SubtitleMain \/ HandleEvent \/ Quit \/ CycleNone
  PROVE  RestartInv' /\ OrderInv' /\ (shown' # shown => Later(shown, shown'))
<1>1. /\ TypeOK /\ UNCHANGED <<pktq, dec, rd>> /\ is \in Flags /\ frameq \in FrameQueues
  BY DEF VideoMain, alloc_picture, Refresh, RefreshNothing, RefreshSkip, RefreshPick, Display,
         SubtitleMain, RefreshPicture, RefreshSubtitles, DisplaySubtitle, HandleEvent, Quit,
         CycleNone, queues, user, QueueInv, TypeOK
<1>2. is'.stream = is.stream
  BY <1>1 DEF VideoMain, alloc_picture, Refresh, RefreshNothing, RefreshSkip, RefreshPick, Display,
              SubtitleMain, RefreshPicture, RefreshSubtitles, DisplaySubtitle, HandleEvent, Quit,
              CycleNone, Clocked, Displayed, Flags
<1>3. SUFFICES FramesUp' /\ Past' \subseteq Past /\ (shown' # shown => Later(shown, shown'))
  BY <1>1, <1>2, FramesOrder
<1>4. /\ frameq.size \in Nat /\ frameq.rindex_shown \in 0 .. 1 /\ frameq.rindex_shown <= frameq.size
      /\ frame_queue_peek(frameq) = Slot(frameq, frameq.rindex_shown)
  BY Peeked DEF OrderInv
<1>5. CASE UNCHANGED <<frameq, shown>>
  BY <1>5, FramesKept
<1>6. CASE Refresh \/ alloc_picture
  <2>1. shown' = shown
    BY <1>6 DEF Refresh, alloc_picture, user
  <2>2. /\ frameq'.rindex = frameq.rindex /\ frameq'.size = frameq.size
        /\ frameq'.keep_last = frameq.keep_last
        /\ frameq'.rindex_shown \in {frameq.rindex_shown, 0}
        /\ \A i \in Slots : /\ frameq'.queue[i].serial = frameq.queue[i].serial
                            /\ frameq'.queue[i].n = frameq.queue[i].n
    <3>1. CASE Refresh
      BY <1>1, <3>1 DEF Refresh, frame_queue_prev, FrameQueues
    <3>2. CASE alloc_picture
      <4>1. PICK slot \in Frames :
                   /\ Picturing(slot, frameq.queue[frameq.windex])
                   /\ frameq' = [frameq EXCEPT !.queue = [@ EXCEPT ![frameq.windex] = slot]]
        BY <3>2, SlotWrites DEF alloc_picture
      <4>2. /\ frameq'.keep_last = frameq.keep_last /\ frameq'.size = frameq.size
            /\ frameq'.rindex = frameq.rindex /\ frameq'.rindex_shown = frameq.rindex_shown
            /\ frameq'.queue = [frameq.queue EXCEPT ![frameq.windex] = slot]
        BY <4>1, SlotWritten
      <4> QED BY <1>1, <4>1, <4>2 DEF Picturing, FrameQueues
    <3> QED BY <1>6, <3>1, <3>2
  <2>3. ~frameq'.keep_last => frameq'.rindex_shown = 0
    BY <2>2 DEF OrderInv, FramesUp
  <2> QED BY <2>1, <2>2, <2>3, SameRing DEF OrderInv
<1>7. CASE RefreshSkip \/ Display
  <2>1. /\ frameq' = frame_queue_next(frameq) /\ frameq.keep_last
        /\ shown' = shown \/ shown' = Frame(frame_queue_peek(frameq))
    BY <1>7 DEF RefreshSkip, Display, NextFrame, user, vp, Frame, QueueInv, Kinds
  <2>2. frame_queue_nb_remaining(frameq) > 0
    <3>1. RefreshSkip => frame_queue_nb_remaining(frameq) # 0
      BY DEF RefreshSkip, Current
    <3>2. Display => frameq.size > frameq.rindex_shown
      BY DEF Display, QueueInv, Ring
    <3> QED BY <1>4, <1>7, <3>1, <3>2 DEF frame_queue_nb_remaining
  <2> QED BY <2>1, <2>2, FrameTaken DEF OrderInv
<1>8. CASE RefreshSubtitles /\ ~UNCHANGED <<frameq, shown>>
  <2>1. /\ frameq' = frame_queue_next(frameq) /\ shown' = shown
        /\ frame_queue_nb_remaining(frameq) > 0
    BY <1>8 DEF RefreshSubtitles, user
  <2> QED BY <2>1, FrameTaken DEF OrderInv
<1>9. CASE DisplaySubtitle
  <2>1. /\ frameq' = frameq /\ frameq.rindex_shown = 0
        /\ \/ shown' = shown
           \/ frame_queue_nb_remaining(frameq) > 0 /\ shown' = Frame(frame_queue_peek(frameq))
    BY <1>9 DEF DisplaySubtitle, queues, sp, Frame, QueueInv, Kinds, OrderInv, FramesUp
  <2>2. shown' = shown \/ (frameq.size > 0 /\ shown' = Nth(0))
    BY <1>4, <2>1 DEF frame_queue_nb_remaining, Nth
  <2> QED BY <1>4, <2>1, <2>2, FrameShown DEF OrderInv
<1>10. CASE RefreshNothing \/ RefreshPick \/ RefreshPicture \/ HandleEvent \/ Quit \/ CycleNone
  <2>1. UNCHANGED <<frameq, shown>>
    BY <1>10 DEF RefreshNothing, RefreshPick, RefreshPicture, HandleEvent, Quit, CycleNone, queues,
                 user
  <2> QED BY <1>5, <2>1
<1> QED BY <1>5, <1>6, <1>7, <1>8, <1>9, <1>10 DEF VideoMain, SubtitleMain

LEMMA CloseOrders ==
  ASSUME QueueInv, RestartInv, OrderInv, CycleClose
  PROVE  RestartInv' /\ OrderInv' /\ shown' = shown
<1>1. UNCHANGED <<dec, rd, shown>> /\ mn.pc \in ClosePcs
  BY DEF CycleClose, user
<1>2. PICK next \in ClosePcs \cup {"closed"} : Closing(mn.pc, next)
  BY DEF CycleClose
<1>3. /\ frameq' = frameq /\ pktq'.serial = pktq.serial
      /\ pktq'.pkts = pktq.pkts \/ pktq'.pkts = <<>>
      /\ pktq'.abort_request = (pktq.abort_request \/ mn.pc = "close")
  BY <1>1, <1>2, ClosingShape
<1>4. ~Reading'
  BY <1>1, <1>3 DEF Reading, ClosePcs, QueueInv, Serials
<1> QED BY <1>1, <1>3, <1>4, PacketsKept

LEMMA OpenOrders ==
  ASSUME QueueInv, RestartInv, OrderInv, CycleOpen
  PROVE  RestartInv' /\ OrderInv' /\ shown' = shown
<1>1. /\ TypeOK /\ UNCHANGED <<frameq, rd, shown>> /\ is'.stream
      /\ dec'.pkt_serial = 0 /\ dec'.held = <<>> /\ dec'.pc \in {"peek", "decode"} /\ ~dec'.pending
  BY DEF CycleOpen, user, NewThread, FirstPc, QueueInv, TypeOK, Flags
<1>2. /\ pktq'.serial = pktq.serial + 1 /\ pktq'.serial \in Nat
      /\ DOMAIN pktq'.pkts = {1} /\ Len(pktq'.pkts) = 1
      /\ pktq'.pkts[1].what = "flush" /\ pktq'.pkts[1].serial = pktq'.serial
  BY Reopened
<1>3. RestartInv'
  <2>1. Flushed'
    BY <1>2 DEF Flushed, Restarted
  <2>2. Ascending' /\ Pending' /\ Streamless'
    BY <1>1, <1>2 DEF Ascending, Pending, Streamless
  <2> QED BY <2>1, <2>2 DEF RestartInv
<1>4. Past' = Past /\ FramesUp'
  BY <1>1, FramesKept
<1>5. /\ Ready' = {} /\ Held' = {} /\ Taken' = {} /\ Sent' = {} /\ HeldUp' /\ SentUp'
  BY <1>1, <1>2 DEF Ready, Held, Taken, Sent, Waiting, HeldUp, SentUp
<1>6. InLine' /\ Behind'
  BY <1>1, <1>2, <1>4, <1>5, LineKept, BehindRestarted DEF OrderInv
<1> QED BY <1>1, <1>3, <1>4, <1>5, <1>6 DEF OrderInv

LEMMA CallbackOrders ==
  ASSUME QueueInv, AudioInv, RestartInv, OrderInv, AudioCallback
  PROVE  RestartInv' /\ OrderInv' /\ (shown' # shown => Later(shown, shown'))
<1>1. UNCHANGED <<pktq, dec, rd, is>>
  BY DEF AudioCallback, Continue, TakeSamples, ChooseSamples, queues
<1>2. SUFFICES FramesUp' /\ Past' \subseteq Past /\ (shown' # shown => Later(shown, shown'))
  BY <1>1, FramesOrder
<1>3. CASE UNCHANGED <<frameq, shown>>
  BY <1>3, FramesKept
<1>4. CASE TakeSamples /\ ~UNCHANGED <<frameq, shown>>
  <2>1. /\ frameq' = frame_queue_next(frameq) /\ shown' = shown
        /\ frame_queue_nb_remaining(frameq) > 0
    BY <1>4 DEF TakeSamples, user
  <2> QED BY <2>1, FrameTaken DEF OrderInv
<1>5. CASE ChooseSamples
  <2>1. /\ frameq' = frameq /\ cb.pc = "choose"
        /\ shown' = shown \/ shown' = Frame(cb.slot)
    BY <1>5 DEF ChooseSamples, Callback, queues, Frame
  <2>2. /\ frameq.size \in Nat /\ frameq.rindex_shown <= frameq.size
        /\ frameq.size > 0 => Slot(frameq, 0) = frameq.rindex
    BY Peeked DEF OrderInv
  <2>3. frameq.rindex_shown = 1 /\ cb.slot = frameq.rindex
    BY <2>1 DEF AudioInv
  <2>4. frameq.size > 0 /\ cb.slot = Slot(frameq, 0)
    BY <2>2, <2>3
  <2> QED BY <2>1, <2>2, <2>4, FrameShown DEF OrderInv, Nth
<1>6. CASE Continue
  BY <1>3, <1>6 DEF Continue, queues, user
<1> QED BY <1>3, <1>4, <1>5, <1>6 DEF AudioCallback

LEMMA OrderInit == Init => RestartInv /\ OrderInv
<1> SUFFICES ASSUME Init PROVE RestartInv /\ OrderInv
  OBVIOUS
<1>1. /\ pktq.serial = 1 /\ DOMAIN pktq.pkts = {1} /\ Len(pktq.pkts) = 1
      /\ pktq.pkts[1].what = "flush" /\ pktq.pkts[1].serial = 1
  BY FirstPacket
<1>2. /\ is.stream /\ dec.pkt_serial = 0 /\ dec.held = <<>> /\ dec.pc \in {"peek", "decode"}
      /\ ~dec.pending /\ shown = <<0, 0>> /\ frameq.size = 0 /\ frameq.rindex_shown = 0
  BY DEF Init, NewThread, FirstPc, frame_queue_init
<1>3. RestartInv
  <2>1. Flushed
    BY <1>1 DEF Flushed, Restarted
  <2>2. Ascending /\ Pending /\ Streamless
    BY <1>1, <1>2 DEF Ascending, Pending, Streamless
  <2> QED BY <2>1, <2>2 DEF RestartInv
<1>4. /\ Past = {<<0, 0>>} /\ Ready = {} /\ Held = {} /\ Taken = {} /\ Sent = {}
      /\ FramesUp /\ HeldUp /\ SentUp
  BY <1>1, <1>2 DEF Past, Ready, Held, Taken, Sent, Waiting, FramesUp, HeldUp, SentUp
<1>5. InLine /\ Behind
  BY <1>1, <1>4 DEF InLine, Before, Behind, Ahead
<1> QED BY <1>3, <1>4, <1>5 DEF OrderInv

LEMMA OrderStep ==
  ASSUME QueueInv, AudioInv, RestartInv, OrderInv, [Next]_vars
  PROVE  RestartInv' /\ OrderInv' /\ (shown' # shown => Later(shown, shown'))
<1>1. CASE (\E k \in AllKeys : Press(k)) \/ UNCHANGED vars
  <2>1. UNCHANGED <<pktq, dec, rd, is, frameq, shown>>
    BY <1>1 DEF Press, vars, queues
  <2>2. Past' = Past /\ FramesUp'
    BY <2>1, FramesKept
  <2> QED BY <2>1, <2>2, FramesOrder
<1>2. CASE Main
  BY <1>2, RefreshOrders, CloseOrders, OpenOrders DEF Main, Events
<1> QED BY <1>1, <1>2, ReaderOrders, DecoderOrders, CallbackOrders DEF Next

-----------------------------------------------------------------------------
(* Nothing is shown twice *)

\* The first frame of the queue has not been shown while rindex_shown is 0, but when a
\* picture is to be displayed again, nor has the one the callback has taken.
Unseen ==
  opt.kind # "subtitle" =>
    /\ mn.redisplay => /\ mn.pc \in {"refresh", "display"}
                       /\ frameq.rindex_shown = 0 /\ frameq.size > 0
    /\ frameq.rindex_shown = 0 /\ frameq.size > 0 /\ ~mn.redisplay => Later(shown, Nth(0))
    /\ cb.pc = "choose" => Later(shown, Nth(0))

\* What else there is to show comes after the first.
LEMMA SecondUnseen ==
  ASSUME QueueInv, OrderInv, frameq.size > 1
  PROVE  Later(shown, Nth(1))
<1>1. 0 \in 0 .. frameq.size - 1 /\ 1 \in 0 .. frameq.size - 1 /\ 0 < 1
  BY DEF QueueInv, TypeOK, FrameQueues
<1>2. shown \in Nat \X Nat /\ Nth(0) \in Nat \X Nat /\ Nth(1) \in Nat \X Nat
  BY <1>1, Numbered DEF QueueInv, Past
<1>3. (shown = Nth(0) \/ Later(shown, Nth(0))) /\ Later(Nth(0), Nth(1))
  BY <1>1 DEF OrderInv, FramesUp
<1>4. \A a \in Nat \X Nat, b \in Nat \X Nat, c \in Nat \X Nat :
        (a = b \/ Later(a, b)) /\ Later(b, c) => Later(a, c)
  BY DEF Later
<1> QED BY <1>2, <1>3, <1>4

LEMMA UnseenKept ==
  ASSUME QueueInv, AudioInv, Unseen, UNCHANGED <<opt, shown>>,
         frameq'.rindex_shown = frameq.rindex_shown, frameq'.size = frameq.size,
         frameq.size > 0 => Nth(0)' = Nth(0), mn'.redisplay = mn.redisplay,
         mn' = mn \/ mn.pc \notin {"refresh", "display"} \/ mn'.pc \in {"refresh", "display"},
         cb'.pc = cb.pc \/ cb'.pc # "choose"
  PROVE  Unseen'
<1>1. cb.pc = "choose" => frameq.size > 0
  BY DEF AudioInv, QueueInv, TypeOK, FrameQueues, Ring
<1> QED BY <1>1 DEF Unseen

\* A frame is queued.
LEMMA UnseenPushed ==
  ASSUME QueueInv, AudioInv, OrderInv, Unseen, UNCHANGED <<opt, shown, mn, cb>>,
         frameq' = frame_queue_push(Filled_in), frameq.size < MaxSize,
         dec.pc \in {"queue", "alloc"}
  PROVE  Unseen'
<1> DEFINE last == <<dec.pkt_serial, dec.frame>>
<1>1. Before(Past, {last})
  BY DEF OrderInv, InLine, Before, Ready
<1>2. /\ frameq'.rindex_shown = frameq.rindex_shown /\ frameq'.size = frameq.size + 1
      /\ Nth(0)' = IF frameq.size > 0 THEN Nth(0) ELSE last
  BY <1>1, FramePushed DEF OrderInv
<1>3. Later(shown, last)
  BY <1>1 DEF Before, Past
<1>4. frameq.size \in Nat /\ (cb.pc = "choose" => frameq.size > 0)
  BY DEF AudioInv, QueueInv, TypeOK, FrameQueues, Ring
<1>5. frameq'.size > 0
  BY <1>2, <1>4
<1> QED BY <1>2, <1>3, <1>4, <1>5 DEF Unseen

\* A picture is asked for or drawn.
LEMMA FirstKept ==
  ASSUME QueueInv, OrderInv, shown' = shown, frameq' = Reserve(frameq) \/ alloc_picture
  PROVE  /\ frameq'.rindex_shown = frameq.rindex_shown /\ frameq'.size = frameq.size
         /\ frameq.size > 0 => Nth(0)' = Nth(0)
<1>1. PICK slot \in Frames :
             /\ slot.serial = frameq.queue[frameq.windex].serial
             /\ slot.n = frameq.queue[frameq.windex].n
             /\ frameq' = [frameq EXCEPT !.queue = [@ EXCEPT ![frameq.windex] = slot]]
  BY SlotWrites DEF alloc_picture, Picturing, Requesting
<1>2. /\ frameq'.keep_last = frameq.keep_last /\ frameq'.size = frameq.size
      /\ frameq'.rindex = frameq.rindex /\ frameq'.rindex_shown = frameq.rindex_shown
      /\ frameq'.queue = [frameq.queue EXCEPT ![frameq.windex] = slot]
  BY <1>1, SlotWritten
<1>3. \A i \in Slots : /\ frameq'.queue[i].serial = frameq.queue[i].serial
                       /\ frameq'.queue[i].n = frameq.queue[i].n
  BY <1>1, <1>2 DEF QueueInv, TypeOK, FrameQueues
<1>4. ~frameq'.keep_last => frameq'.rindex_shown = 0
  BY <1>2 DEF OrderInv, FramesUp
<1> QED BY <1>2, <1>3, <1>4, SameRing DEF OrderInv

\* The frame the main thread or the callback shows is taken from its queue.
LEMMA UnseenTaken ==
  ASSUME QueueInv, OrderInv, Unseen, opt.kind # "subtitle",
         frame_queue_nb_remaining(frameq) > 0, ~mn.redisplay
  PROVE  Later(shown, Nth(frameq.rindex_shown))
<1>1. /\ frameq.size \in Nat /\ frameq.rindex_shown \in 0 .. 1
      /\ frameq.size > frameq.rindex_shown
  BY Peeked DEF OrderInv, frame_queue_nb_remaining
<1>2. CASE frameq.rindex_shown = 0
  BY <1>1, <1>2 DEF Unseen
<1>3. CASE frameq.rindex_shown = 1
  BY <1>1, <1>3, SecondUnseen
<1> QED BY <1>1, <1>2, <1>3

Unshown == ~(Pictured /\ ~mn.redisplay) /\ ~Sounded

\* The video's main thread between two events.
LEMMA PicturesUnseen ==
  ASSUME QueueInv, AudioInv, OrderInv, Unseen, VideoMain
  PROVE  Unseen' /\ (Unshown \/ Later(shown, shown'))
<1>1. /\ TypeOK /\ Kinds /\ UNCHANGED <<opt, cb>> /\ frameq \in FrameQueues /\ mn \in MainThreads
  BY DEF VideoMain, alloc_picture, Refresh, RefreshNothing, RefreshSkip, RefreshPick, Display, user,
         QueueInv, TypeOK
<1>2. ~Sounded
  BY <1>1 DEF Sounded
<1>3. /\ frameq.size \in Nat /\ frameq.rindex_shown \in 0 .. 1 /\ frameq.rindex_shown <= frameq.size
      /\ frame_queue_peek(frameq) = Slot(frameq, frameq.rindex_shown)
  BY Peeked DEF OrderInv
<1>4. CASE alloc_picture
  <2>1. UNCHANGED <<shown, mn>>
    BY <1>4 DEF alloc_picture, user
  <2> QED BY <1>1, <1>2, <1>4, <2>1, FirstKept, UnseenKept DEF Unshown, Pictured
<1>5. CASE Refresh
  <2>1. /\ shown' = shown /\ mn.pc = "loop" /\ mn'.pc = "refresh"
        /\ mn'.redisplay <=> is.force_refresh /\ frameq.rindex_shown = 1
        /\ frameq' = IF is.force_refresh THEN frame_queue_prev(frameq) ELSE frameq
    BY <1>5 DEF Refresh, user
  <2>2. /\ frameq'.size = frameq.size /\ Nth(0)' = Nth(0)
        /\ frameq'.rindex_shown = IF is.force_refresh THEN 0 ELSE frameq.rindex_shown
    BY <1>1, <2>1 DEF frame_queue_prev, FrameQueues, Nth, Frame, Slot
  <2>3. cb.pc # "choose"
    BY <1>1, <1>5 DEF Refresh, Kinds
  <2>4. ~mn.redisplay /\ opt.kind = "video"
    BY <1>5, <2>1 DEF Refresh, Unseen
  <2>5. frameq.rindex_shown = 0 /\ frameq.size > 0 => Later(shown, Nth(0))
    BY <2>4 DEF Unseen
  <2>6. Unseen'
    <3>1. mn'.redisplay => frameq'.rindex_shown = 0 /\ frameq'.size > 0 /\ mn'.pc = "refresh"
      BY <1>3, <2>1, <2>2
    <3>2. frameq'.rindex_shown = 0 /\ frameq'.size > 0 /\ ~mn'.redisplay
            => Later(shown', Nth(0)')
      BY <1>3, <2>1, <2>2, <2>5
    <3> QED BY <1>1, <2>3, <3>1, <3>2 DEF Unseen
  <2> QED BY <1>2, <2>1, <2>6 DEF Unshown, Pictured
<1>6. CASE RefreshNothing
  <2>1. /\ UNCHANGED <<frameq, shown>> /\ mn'.pc = "loop" /\ ~mn'.redisplay /\ mn.pc = "refresh"
        /\ frame_queue_nb_remaining(frameq) = 0 \/ ~mn.redisplay
    BY <1>6 DEF RefreshNothing, queues, user
  <2>2. cb.pc # "choose" /\ opt.kind = "video"
    BY <1>1, <2>1 DEF Kinds
  <2>3. frameq.rindex_shown = 0 /\ frameq.size > 0 => ~mn.redisplay
    BY <1>3, <2>1 DEF frame_queue_nb_remaining
  <2>4. Nth(0)' = Nth(0)
    BY <2>1 DEF Nth, Frame
  <2> QED BY <1>1, <1>2, <2>1, <2>2, <2>3, <2>4 DEF Unseen, Unshown, Pictured
<1>7. CASE RefreshPick
  <2>1. /\ UNCHANGED <<frameq, shown>> /\ mn' = [mn EXCEPT !.pc = "display"] /\ mn.pc = "refresh"
    BY <1>7 DEF RefreshPick, queues, user
  <2>2. mn'.redisplay = mn.redisplay /\ mn'.pc = "display"
    BY <1>1, <2>1 DEF MainThreads
  <2>3. Nth(0)' = Nth(0)
    BY <2>1 DEF Nth, Frame
  <2> QED BY <1>1, <1>2, <2>1, <2>2, <2>3, UnseenKept DEF Unshown, Pictured
<1>8. CASE RefreshSkip \/ Display
  <2>1. /\ frameq' = frame_queue_next(frameq) /\ opt.kind = "video" /\ frameq.keep_last
        /\ ~mn'.redisplay /\ cb.pc # "choose"
        /\ shown' = shown \/ shown' = Frame(frame_queue_peek(frameq))
        /\ RefreshSkip => mn.pc = "refresh"
        /\ Display => shown' = Frame(frame_queue_peek(frameq))
    <3>1. CASE RefreshSkip
      <4>1. mn.pc = "refresh" /\ mn' = [mn EXCEPT !.redisplay = FALSE] /\ UNCHANGED <<shown>>
        BY <3>1 DEF RefreshSkip, user
      <4>2. ~mn'.redisplay /\ opt.kind = "video" /\ cb.pc # "choose" /\ frameq.keep_last
        BY <1>1, <4>1 DEF Kinds, MainThreads
      <4>3. ~Display
        BY <4>1 DEF Display
      <4> QED BY <3>1, <4>1, <4>2, <4>3 DEF RefreshSkip, NextFrame
    <3>2. CASE Display
      <4>1. mn.pc = "display" /\ ~mn'.redisplay
        BY <3>2 DEF Display
      <4>2. opt.kind = "video" /\ cb.pc # "choose" /\ frameq.keep_last
        BY <1>1, <4>1 DEF Kinds
      <4>3. ~RefreshSkip
        BY <4>1 DEF RefreshSkip
      <4> QED BY <3>2, <4>1, <4>2, <4>3 DEF Display, NextFrame, vp, Frame
    <3> QED BY <1>8, <3>1, <3>2
  <2>2. frame_queue_nb_remaining(frameq) > 0
    <3>1. RefreshSkip => frame_queue_nb_remaining(frameq) # 0
      BY DEF RefreshSkip, Current
    <3>2. Display => frameq.size > frameq.rindex_shown
      BY DEF Display, QueueInv, Ring
    <3> QED BY <1>3, <1>8, <3>1, <3>2 DEF frame_queue_nb_remaining
  <2>3. frameq'.rindex_shown = 1
    BY <2>1, <2>2, FrameTaken DEF OrderInv
  <2>4. Unseen'
    BY <1>1, <2>1, <2>3 DEF Unseen
  <2>5. Pictured /\ ~mn.redisplay => Later(shown, shown')
    <3>1. Pictured => Display
      BY <1>8, <2>1 DEF Pictured
    <3>2. ~mn.redisplay => Later(shown, Frame(frame_queue_peek(frameq)))
      BY <1>3, <2>1, <2>2, UnseenTaken DEF Nth
    <3> QED BY <2>1, <3>1, <3>2
  <2> QED BY <1>2, <2>4, <2>5 DEF Unshown
<1> QED BY <1>4, <1>5, <1>6, <1>7, <1>8 DEF VideoMain

\* The callback.
LEMMA SoundsUnseen ==
  ASSUME QueueInv, AudioInv, OrderInv, Unseen, AudioCallback
  PROVE  Unseen' /\ (Unshown \/ Later(shown, shown'))
<1>1. /\ TypeOK /\ Kinds /\ UNCHANGED <<opt, mn>> /\ frameq \in FrameQueues /\ cb \in Callbacks
      /\ opt.kind = "audio"
  BY DEF AudioCallback, Continue, TakeSamples, ChooseSamples, Callback, user, QueueInv, TypeOK
<1>2. ~mn.redisplay /\ ~Pictured
  BY <1>1 DEF Unseen, Kinds, Pictured
<1>3. frameq' = frameq => Nth(0)' = Nth(0)
  BY DEF Nth, Frame
<1>4. CASE UNCHANGED <<frameq, shown>> /\ (cb'.pc = cb.pc \/ cb'.pc # "choose") /\ ~Sounded
  BY <1>1, <1>2, <1>3, <1>4, UnseenKept DEF Unshown
<1>5. CASE Continue
  <2>1. UNCHANGED <<frameq, shown>> /\ cb.pc = "idle" /\ cb'.pc \in {"idle", "peek"}
    BY <1>1, <1>5 DEF Continue, Callback, CbGoes, queues, user, Callbacks
  <2> QED BY <1>4, <2>1 DEF Sounded
<1>6. CASE TakeSamples
  <2>1. shown' = shown /\ cb.pc = "peek"
    BY <1>6 DEF TakeSamples, Callback, user
  <2>2. CASE frameq' = frameq /\ (cb' = cb \/ CbGoes("idle"))
    BY <1>1, <1>4, <2>1, <2>2 DEF CbGoes, Callbacks, Sounded
  <2>3. CASE frame_queue_nb_remaining(frameq) > 0 /\ frameq' = frame_queue_next(frameq)
    <3>1. frameq'.rindex_shown = 1 /\ Nth(0)' = Nth(frameq.rindex_shown)
      BY <1>1, <2>1, <2>3, FrameTaken DEF OrderInv, Kinds
    <3>2. Later(shown, Nth(frameq.rindex_shown))
      BY <1>1, <1>2, <2>3, UnseenTaken
    <3>3. Unseen'
      BY <1>1, <1>2, <2>1, <3>1, <3>2 DEF Unseen
    <3> QED BY <1>2, <2>1, <3>3 DEF Unshown, Sounded
  <2> QED BY <1>6, <2>2, <2>3 DEF TakeSamples
<1>7. CASE ChooseSamples
  <2>1. frameq' = frameq /\ cb.pc = "choose" /\ cb.slot = frameq.rindex /\ frameq.rindex_shown = 1
    BY <1>7 DEF ChooseSamples, Callback, queues, AudioInv
  <2>2. CASE CbGoes("peek") /\ shown' = shown
    BY <1>1, <1>4, <2>1, <2>2 DEF CbGoes, Callbacks, Sounded
  <2>3. CASE shown' = Frame(cb.slot) /\ cb'.pc = "idle"
    <3>1. cb.slot = Slot(frameq, 0)
      BY <2>1, Peeked DEF OrderInv
    <3>2. Later(shown, shown')
      BY <1>1, <2>1, <2>3, <3>1 DEF Unseen, Nth
    <3>3. Unseen'
      BY <1>1, <1>2, <2>1, <2>3 DEF Unseen
    <3> QED BY <3>2, <3>3
  <2> QED BY <1>1, <1>7, <2>2, <2>3 DEF ChooseSamples, Frame, Callbacks
<1> QED BY <1>5, <1>6, <1>7 DEF AudioCallback

\* The stream's thread.
LEMMA DecoderUnseen ==
  ASSUME QueueInv, AudioInv, OrderInv, Unseen, Decoder
  PROVE  Unseen' /\ Unshown
<1>1. UNCHANGED <<opt, shown, mn, cb>>
  BY DEF Decoder, Decoding, Decode, packet_queue_get, GotPacket, Codec, ThreadExit, VideoThread,
         QueuePicture, PushPicture, QueueSamples, SubtitleThread, PeekWritable, QueueSubtitle, user
<1>2. Unshown
  BY <1>1 DEF Unshown, Pictured, Sounded
<1>3. CASE frameq' = frameq
  <2>1. Nth(0)' = Nth(0)
    BY <1>3 DEF Nth, Frame
  <2> QED BY <1>1, <1>2, <1>3, <2>1, UnseenKept
<1>4. CASE frameq' = Reserve(frameq)
  BY <1>1, <1>2, <1>4, FirstKept, UnseenKept
<1>5. CASE frameq' = frame_queue_push(Filled_in) /\ (PushPicture \/ QueueSamples \/ QueueSubtitle)
                                                 /\ (QueueSamples => Writable)
  <2>1. dec.pc \in {"queue", "alloc"}
    BY <1>5 DEF PushPicture, QueueSamples, QueueSubtitle, Thread
  <2>2. frameq.size < MaxSize
    BY <1>5, QueueAssumption
    DEF PushPicture, QueueSamples, QueueSubtitle, Thread, Ring, Reserved, Writable,
        frame_queue_full, QueueInv, TypeOK, FrameQueues
  <2> QED BY <1>1, <1>2, <1>5, <2>1, <2>2, UnseenPushed
<1>6. CASE Decoding \/ PeekWritable \/ QueuePicture
  BY <1>3, <1>4, <1>6 DEF Decoding, Decode, packet_queue_get, GotPacket, Codec, ThreadExit,
                          PeekWritable, QueuePicture, queues
<1>7. CASE PushPicture
  BY <1>3, <1>5, <1>7 DEF PushPicture, QueueSamples, Thread
<1>8. CASE QueueSamples
  BY <1>3, <1>5, <1>8 DEF QueueSamples
<1>9. CASE QueueSubtitle
  BY <1>3, <1>5, <1>9 DEF QueueSubtitle, QueueSamples
<1> QED BY <1>6, <1>7, <1>8, <1>9 DEF Decoder, VideoThread, SubtitleThread

LEMMA UnseenStep ==
  ASSUME QueueInv, AudioInv, Joined, OrderInv, Unseen, [Next]_vars
  PROVE  Unseen' /\ (Unshown \/ Later(shown, shown'))
<1>1. TypeOK /\ Kinds
  BY DEF QueueInv
<1>2. CASE /\ UNCHANGED <<opt, shown, frameq>> /\ mn'.redisplay = mn.redisplay
           /\ mn' = mn \/ mn.pc \notin {"refresh", "display"}
           /\ cb'.pc = cb.pc \/ (cb.pc = "idle" /\ cb'.pc = "idle")
  <2>1. Nth(0)' = Nth(0)
    BY <1>2 DEF Nth, Frame
  <2> QED BY <1>2, <2>1, UnseenKept DEF Unshown, Pictured, Sounded
<1>3. CASE (Reader /\ ~ReadClose) \/ (\E k \in AllKeys : Press(k)) \/ UNCHANGED vars
  <2>1. UNCHANGED <<opt, shown, frameq, mn, cb>>
    BY <1>3
    DEF Reader, Press, ReadLoop, SeekNothing, SeekFlush, SeekPut, SeekStep, ReadWait, ReadEnd,
        ReadFrame, ReadError, ReadWaitEnd, ReadGone, queues, user, vars
  <2> QED BY <1>2, <2>1
<1>4. CASE ReadClose
  <2>1. UNCHANGED <<opt, shown, frameq, mn>> /\ (cb' = cb \/ cb' = [cb EXCEPT !.open = FALSE])
    BY <1>4 DEF ReadClose, Closing, ClosePcs, queues, user
  <2> QED BY <1>1, <1>2, <2>1 DEF TypeOK, Callbacks
<1>5. CASE HandleEvent \/ Quit \/ CycleClose \/ CycleNone \/ CycleOpen
  <2>1. /\ UNCHANGED <<opt, shown, frameq>> /\ mn.pc \notin {"refresh", "display"}
        /\ cb' = cb \/ cb' = [cb EXCEPT !.open = FALSE] \/ (CycleOpen /\ cb'.pc = "idle")
    <3>1. CASE HandleEvent \/ Quit \/ CycleNone
      BY <3>1 DEF HandleEvent, Quit, CycleNone, queues, user
    <3>2. CASE CycleOpen
      BY <3>2 DEF CycleOpen, NewDevice, user
    <3>3. CASE CycleClose
      BY <3>3 DEF CycleClose, Closing, ClosePcs, user
    <3> QED BY <1>5, <3>1, <3>2, <3>3
  <2>2. mn'.redisplay = mn.redisplay
    <3>1. CASE HandleEvent
      BY <1>1, <3>1 DEF HandleEvent, TypeOK, MainThreads
    <3>2. CASE Quit \/ CycleNone \/ CycleOpen
      BY <1>1, <3>2 DEF Quit, CycleNone, CycleOpen, TypeOK, MainThreads
    <3>3. CASE CycleClose
      BY <1>1, <3>3 DEF CycleClose, TypeOK, MainThreads
    <3> QED BY <1>5, <3>1, <3>2, <3>3
  <2>3. CycleOpen => cb.pc = "idle"
    BY DEF CycleOpen, Joined
  <2> QED BY <1>1, <1>2, <2>1, <2>2, <2>3 DEF TypeOK, Callbacks
<1>6. CASE SubtitleMain
  <2>1. opt' = opt /\ opt.kind = "subtitle"
    BY <1>1, <1>6 DEF SubtitleMain, RefreshPicture, RefreshSubtitles, DisplaySubtitle, user, Kinds
  <2>2. mn.pc # "display" /\ cb.pc = "idle"
    BY <1>1, <2>1 DEF Kinds
  <2> QED BY <2>1, <2>2 DEF Unseen, Unshown, Pictured, Sounded
<1> QED BY <1>3, <1>4, <1>5, <1>6, PicturesUnseen, SoundsUnseen, DecoderUnseen
        DEF Next, Main, Events

\* Frames are shown or played in the order of the file, for every play of every kind and
\* whatever seeks, reopenings, loops, redisplays, drops and decoding errors overlap: a frame
\* of an older serial is never shown after one of a newer one (the serials of packet_queue_put,
\* decoder_decode_frame, video_refresh and sdl_audio_callback), and no picture or sound is shown
\* or played twice, but a picture that is redisplayed (frame_queue_prev, frame_queue_next).
THEOREM PlayerShownInOrder == Spec => ShownInOrder
<1>1. Init => RestartInv /\ OrderInv /\ AudioInv /\ Joined /\ Unseen
  BY OrderInit DEF Init, NewDevice, AudioInv, Joined, Unseen, frame_queue_init
<1>2. QueueInv /\ AudioInv /\ Joined /\ RestartInv /\ OrderInv /\ Unseen /\ [Next]_vars
        => /\ AudioInv' /\ Joined' /\ RestartInv' /\ OrderInv' /\ Unseen'
           /\ [shown' # shown \/ (Pictured /\ ~mn.redisplay) \/ Sounded
                 => Later(shown, shown')]_vars
  BY AudioStep, JoinedStep, OrderStep, UnseenStep DEF Unshown
<1> QED BY <1>1, <1>2, PlayerQueueInv, PTL DEF Spec, ShownInOrder
=============================================================================
