------------------------------- MODULE Player -------------------------------
(***************************************************************************)
(* The player of src/ffplay2.c: the threads every stream has, and those of *)
(* its kind.  In a play of a video nothing calls the audio callback, in    *)
(* one of a sound nothing is drawn.                                        *)
(***************************************************************************)
EXTENDS VideoPlayer, AudioPlayer, SubtitlePlayer

Decoder == Decoding \/ VideoThread \/ QueueSamples \/ SubtitleThread
Main == Events \/ VideoMain \/ SubtitleMain

Next == Reader \/ Decoder \/ Main \/ AudioCallback \/ \E k \in AllKeys : Press(k)

Spec == Init /\ [][Next]_vars

\* The scheduler runs every thread that can run, SDL calls the callback again and
\* again while the device is open, and a frame is not too early forever.
FairSpec == /\ Spec
            /\ WF_vars(Reader) /\ WF_vars(Decoder) /\ WF_vars(Main) /\ WF_vars(AudioCallback)
            /\ SF_vars(RefreshPick)

-----------------------------------------------------------------------------
(* Properties *)

Slots == 0 .. MaxSize - 1
Packets == [what : {"flush", "null", "data"}, n : Nat, serial : Nat]
Frames == [serial : Nat, n : Nat, allocated : BOOLEAN, drawn : Nat \X Nat]
PacketQueues == [pkts : Seq(Packets), serial : Nat, abort_request : BOOLEAN]
FrameQueues == [queue : [Slots -> Frames], rindex : Slots, windex : Slots, size : Nat,
                rindex_shown : 0 .. 1, keep_last : BOOLEAN]
Sleepers == [dec : {"no", "pq", "fq"}, cb : {"no", "fq"}]
Flags == [abort_request : BOOLEAN, seek_req : BOOLEAN, force_refresh : BOOLEAN,
          stream : BOOLEAN, paused : BOOLEAN, step : BOOLEAN, vidclk_serial : Int]
ReadThreads ==
  [pc : {"loop", "seek", "seek_put", "step", "fill", "end", "read", "wait", "closed", "gone"}
        \cup ClosePcs,
   pos : Nat, eof : BOOLEAN, ret : {0, -1}, loop : Nat \ {0}]
Decoders ==
  [pc : {"peek", "decode", "get", "got", "codec", "queue", "alloc", "exit", "dead"},
   gen : Nat, pkt : Packets \cup {NoPacket}, pending : BOOLEAN, pkt_serial : Nat,
   finished : Nat, held : Seq(Nat), frame : Nat]
MainThreads ==
  [pc : {"loop", "refresh", "display", "over", "subtitle", "closed", "quit", "gone"} \cup ClosePcs,
   redisplay : BOOLEAN]
Callbacks == [pc : {"idle", "peek", "choose"}, open : BOOLEAN, slot : Slots, left : 0 .. 1]

TypeOK ==
  /\ opt \in Options /\ keys \subseteq opt.keys /\ shown \in Nat \X Nat
  /\ pktq \in PacketQueues /\ frameq \in FrameQueues /\ asleep \in Sleepers
  /\ is \in Flags /\ rd \in ReadThreads /\ rd.pos <= opt.FileLen
  /\ dec \in Decoders /\ mn \in MainThreads /\ cb \in Callbacks

\* The frame queue is a ring: windex is where size slots after rindex end.  The
\* slot that video_thread has drawn, or subtitle_thread decodes into, is none of those
\* that may be shown.
FrameRing ==
  /\ TypeOK
  /\ frameq.size \in frameq.rindex_shown .. MaxSize
  /\ frameq.windex = Slot(frameq, frameq.size)
  /\ dec.pc = "alloc" \/ (opt.kind = "subtitle" /\ dec.pc \in {"codec", "queue"})
       => frameq.windex \notin Filled(frameq)
  /\ mn.pc = "display" => frame_queue_peek(frameq) \in Filled(frameq)

\* Packets of an older serial never wait in the queue: seeks and reopenings empty
\* it before they start the next serial.
PacketsCurrent ==
  \A i \in DOMAIN pktq.pkts :
    pktq.pkts[i].what # "flush" => pktq.pkts[i].serial = pktq.serial

\* A sleeping thread has something to wait for: no packet, no free slot, no drawn picture
\* or no frame to play, and no abort whose signal is not still to come (the comment
\* of stream_component_close: "we also signal this mutex to make sure we deblock
\* the video thread in all cases").  So the two that share the condition of sampq
\* never both sleep, and the one signal of a close reaches whoever does.
Deblocking == rd.pc = "signal" \/ mn.pc = "signal"

NoLostWakeup ==
  /\ asleep.dec = "pq" => pktq.pkts = <<>> /\ ~pktq.abort_request
  /\ asleep.dec = "fq" =>
       /\ pktq.abort_request => Deblocking
       /\ dec.pc \in {"queue", "peek"} => frame_queue_full(frameq) /\ asleep.cb = "no"
       /\ dec.pc = "alloc" => ~frameq.queue[frameq.windex].allocated
  /\ asleep.cb = "fq" =>
       /\ pktq.abort_request => Deblocking
       /\ frame_queue_nb_remaining(frameq) = 0

\* Frames are shown or played in order, those of a seek after those before it.  No picture
\* and no sound comes twice, but the picture that is redisplayed because the window was
\* uncovered.  (A subtitle goes with every picture.)
Later(a, b) == a[1] < b[1] \/ (a[1] = b[1] /\ a[2] < b[2])
Pictured == mn.pc = "display" /\ mn'.pc # "display"
Sounded == cb.pc = "choose" /\ cb'.pc = "idle"
ShownInOrder ==
  [][shown' # shown \/ (Pictured /\ ~mn.redisplay) \/ Sounded => Later(shown, shown')]_vars

\* What the user asks for comes to an end: read_thread takes up a seek, also when streams
\* are closed meanwhile, unless an I/O error has ended reading; closing and reopening a
\* stream ends, also when it cannot be opened, and so does quitting, also when the
\* callback of the audio device waits for frames or reading has failed.
KeysServed == /\ is.seek_req ~> (~is.seek_req \/ is.abort_request \/ rd.pc = "wait")
              /\ (mn.pc = "close") ~> (mn.pc = "loop")
              /\ (mn.pc = "quit") ~> (mn.pc = "gone")

\* Options of ffplay: { "autoexit", ..., "exit at the end" }, after the last of its
\* loops, unless the player is left paused, an I/O error has ended reading, or the decoder
\* has failed on the null packet, after which it never counts as finished.
Undrained == dec.pkt.what = "null" /\ ~dec.pending /\ dec.finished # dec.pkt_serial
ExitsAtEnd ==
  opt.autoexit => <>(mn.pc = "gone" \/ rd.pc = "wait") \/ <>[](is.paused) \/ <>[]Undrained
=============================================================================
