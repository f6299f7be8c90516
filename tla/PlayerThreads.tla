---------------------------- MODULE PlayerThreads ----------------------------
(***************************************************************************)
(* What src/ffplay2.c does for a stream of any kind: read_thread fills the *)
(* packet queue, the stream's thread takes packets from it and decodes     *)
(* them, and the main thread handles the user's events.  A seek restarts   *)
(* the packet queue under a new serial; cycling (stream_cycle_channel)     *)
(* closes the stream and opens the next one; quitting joins the threads.   *)
(*                                                                         *)
(* One action is one critical section of a queue's mutex, or one stretch   *)
(* of code between two of them.  A thread that waits on a condition is     *)
(* asleep until that condition is signalled: a signal nobody waits for is  *)
(* lost.  The file has one stream that is played at a time; subtitles go   *)
(* with a video whose own packets and frames are left out.                 *)
(***************************************************************************)
EXTENDS PlayerQueues

CONSTANTS Options,      \* the plays to check: records [kind, FileLen, Delay, autoexit,
                        \* loop, keys]; FileLen is the number of packets of the file, Delay
                        \* what the decoder holds back, loop the -loop option, keys what
                        \* the user does, each once (a bound) and in any order
          MinFrames     \* MIN_FRAMES

AllKeys == {"seek", "cycle", "expose", "pause", "step", "quit"}

ASSUME PlayerAssumption ==
  /\ MinFrames \in Nat
  /\ Options \subseteq [kind : {"video", "audio", "subtitle"}, FileLen : Nat, Delay : Nat,
                        autoexit : BOOLEAN, loop : Nat \ {0}, keys : SUBSET AllKeys]

VARIABLES opt,
          pktq, frameq,   \* videoq and pictq, audioq and sampq, or subtitleq and subpq
          asleep,         \* per thread, the condition it waits on: "no", "pq", "fq"
          events,         \* the SDL event queue
          is,             \* the flags of VideoState
          rd,             \* read_thread
          dec,            \* the stream's thread and its Decoder
          mn,             \* the main thread
          cb,             \* sdl_audio_callback and audio_buf
          shown,          \* the newest frame shown or played: <<serial, number>>
          keys            \* what the user has still to do

vars == <<opt, pktq, frameq, asleep, events, is, rd, dec, mn, cb, shown, keys>>
queues == <<pktq, frameq, asleep>>
user == <<opt, shown, keys>>

NoPacket == [what |-> "none", n |-> 0, serial |-> 0]

\* Where the thread of the stream begins: subtitle_thread waits for a free slot of subpq
\* before it decodes, the others when they have a frame.
FirstPc == IF opt.kind = "subtitle" THEN "peek" ELSE "decode"

\* decoder_init and SDL_CreateThread.
NewThread(gen) ==
  [pc |-> FirstPc, gen |-> gen, pkt |-> NoPacket, pending |-> FALSE,
   pkt_serial |-> 0, finished |-> 0, held |-> <<>>, frame |-> 0]

\* The audio device is open, and audio_buf is empty.
NewDevice == [pc |-> "idle", open |-> TRUE, slot |-> 0, left |-> 0]

\* stream_open, and read_thread up to its loop.
Init == /\ opt \in Options
        /\ pktq = packet_queue_start(packet_queue_init)
        /\ frameq = frame_queue_init(opt.kind # "subtitle")
        /\ asleep = [dec |-> "no", cb |-> "no"]
        /\ events = <<>>
        /\ is = [abort_request |-> FALSE, seek_req |-> FALSE, force_refresh |-> FALSE,
                 stream |-> TRUE, paused |-> FALSE, step |-> FALSE, vidclk_serial |-> -1]
        /\ rd = [pc |-> "loop", pos |-> 0, eof |-> FALSE, ret |-> 0, loop |-> opt.loop]
        /\ dec = NewThread(1)
        /\ mn = [pc |-> "loop", redisplay |-> FALSE]
        /\ cb = NewDevice
        /\ shown = <<0, 0>>
        /\ keys = opt.keys

\* SDL_CondSignal wakes one of those that wait.
CondSignal(q) ==
  LET waiting == {t \in {"dec", "cb"} : asleep[t] = q}
  IN IF waiting = {} THEN UNCHANGED asleep
     ELSE \E t \in waiting : asleep' = [asleep EXCEPT ![t] = "no"]

\* packet_queue_put signals unless the queue is aborted.
Put(p) == /\ pktq' = packet_queue_put(pktq, p)
          /\ IF pktq.abort_request THEN UNCHANGED asleep ELSE CondSignal("pq")

-----------------------------------------------------------------------------
(* stream_component_close, by read_thread at its end or by the main thread: *)
(* abort the packet queue, signal the frame queue, stop the audio device,   *)
(* join the stream's thread, flush, and give up the stream.                 *)

\* Mutant: the frame queue is not signalled.
Signal_none == UNCHANGED asleep
Abort == pktq' = packet_queue_abort(pktq) /\ CondSignal("pq")
Signal == CondSignal("fq")

ClosePcs == {"close", "signal", "device", "join", "give_up"}

Closing(pc, next) ==
  /\ CASE pc = "close" -> Abort /\ next = "signal" /\ UNCHANGED <<is, cb>>
       [] pc = "signal" -> /\ Signal /\ UNCHANGED <<pktq, is, cb>>
                           /\ next = IF opt.kind = "audio" THEN "device" ELSE "join"
       [] pc = "device" -> /\ cb' = [cb EXCEPT !.open = FALSE]
                           /\ next = "join" /\ UNCHANGED <<pktq, asleep, is>>
       [] pc = "join" ->             \* SDL_CloseAudio waits for the callback
            /\ cb.pc = "idle" /\ dec.pc = "dead"
            /\ pktq' = packet_queue_flush(pktq)
            /\ next = "give_up" /\ UNCHANGED <<asleep, is, cb>>
       [] pc = "give_up" -> /\ is' = [is EXCEPT !.stream = FALSE]
                            /\ next = "closed" /\ UNCHANGED <<pktq, asleep, cb>>
  /\ UNCHANGED frameq

-----------------------------------------------------------------------------
(* read_thread *)

ReadStep(from, to) == rd.pc = from /\ rd' = [rd EXCEPT !.pc = to]

\* Top of the loop.  Mutant: seek requests are not looked at.
ReadLoop_seekless ==
  /\ ReadStep("loop", IF is.abort_request THEN "close" ELSE "fill")
  /\ UNCHANGED <<queues, events, is, dec, mn, cb, user>>
ReadLoop ==
  /\ ReadStep("loop", CASE is.abort_request -> "close"
                        [] ~is.abort_request /\ is.seek_req -> "seek"
                        [] OTHER -> "fill")
  /\ UNCHANGED <<queues, events, is, dec, mn, cb, user>>

\* The request is over, and a player that is paused makes a step.
SeekDone(p) ==
  /\ is' = [is EXCEPT !.seek_req = FALSE]
  /\ rd' = [rd EXCEPT !.pc = IF is.paused THEN "step" ELSE "fill", !.eof = FALSE, !.pos = p]

\* avformat_seek_file fails, or there is no stream to restart.
SeekNothing ==
  /\ rd.pc = "seek"
  /\ SeekDone(rd.pos) \/ (~is.stream /\ SeekDone(0))
  /\ UNCHANGED <<queues, events, dec, mn, cb, user>>

SeekFlush ==
  /\ ReadStep("seek", "seek_put")
  /\ is.stream
  /\ pktq' = packet_queue_flush(pktq)
  /\ UNCHANGED <<frameq, asleep, events, is, dec, mn, cb, user>>

SeekPut ==
  /\ rd.pc = "seek_put"
  /\ Put(Flush) /\ SeekDone(0)
  /\ UNCHANGED <<frameq, events, dec, mn, cb, user>>

\* step_to_next_frame, not synchronised with the main thread: what stream_toggle_pause
\* negates is the flag as it is now or as it was read.
SeekStep ==
  /\ ReadStep("step", "fill")
  /\ \E paused \in {FALSE, ~is.paused} : is' = [is EXCEPT !.paused = paused, !.step = TRUE]
  /\ UNCHANGED <<queues, events, dec, mn, cb, user>>

\* "if the queue are full, no need to read more", then the end of the file.  A video that
\* goes with subtitles has a queue of its own, full or not.
ReadWait ==
  /\ \/ /\ Len(pktq.pkts) > MinFrames \/ ~is.stream \/ pktq.abort_request
        /\ ReadStep("fill", "loop")
     \/ /\ \/ opt.kind = "subtitle"
           \/ ~(Len(pktq.pkts) > MinFrames \/ ~is.stream \/ pktq.abort_request)
        /\ ReadStep("fill", "end")
  /\ UNCHANGED <<queues, events, is, dec, mn, cb, user>>

\* Mutant: the frame kept by keep_last is counted as remaining.
AllShown_kept == ~is.stream \/ (dec.finished = pktq.serial /\ frameq.size = 0)
AllShown == ~is.stream \/ (dec.finished = pktq.serial /\ frame_queue_nb_remaining(frameq) = 0)

\* stream_seek to the start when the file is to be played again.  Subtitles are not waited
\* for, but the video they go with, which may have been shown or not.
ReadEnd ==
  /\ rd.pc = "end"
  /\ \E seen \in IF opt.kind = "subtitle" THEN BOOLEAN ELSE {AllShown} :
       LET over == ~is.paused /\ seen
       IN \/ /\ ~over \/ (rd.loop = 1 /\ ~opt.autoexit)
             /\ rd' = [rd EXCEPT !.pc = "read"] /\ UNCHANGED is
          \/ over /\ rd.loop # 1
             /\ rd' = [rd EXCEPT !.pc = "read", !.loop = @ - 1]
             /\ is' = [is EXCEPT !.seek_req = TRUE]
          \/ over /\ rd.loop = 1 /\ opt.autoexit
             /\ rd' = [rd EXCEPT !.pc = "close", !.ret = -1] /\ UNCHANGED is
  /\ UNCHANGED <<queues, events, dec, mn, cb, user>>

\* av_read_frame: the next packet is queued, or at the end a null packet once.
ReadFrame ==
  LET atEnd == rd.pos = opt.FileLen
  IN /\ rd.pc = "read"
     /\ rd' = [rd EXCEPT !.pc = "loop", !.eof = atEnd, !.pos = IF atEnd THEN @ ELSE @ + 1]
     /\ IF is.stream /\ ~(atEnd /\ rd.eof)
        THEN Put(IF atEnd THEN Null ELSE Data(rd.pos + 1))
        ELSE UNCHANGED <<pktq, asleep>>
     /\ UNCHANGED <<frameq, events, is, dec, mn, cb, user>>

\* An I/O error ends reading: a null packet is queued, or none, and the thread waits until
\* the user quits.  (An error of the format alone is tried again, which changes nothing.)
ReadError ==
  /\ rd.pc = "read"
  /\ \/ ~rd.eof /\ is.stream /\ Put(Null)
     \/ UNCHANGED <<pktq, asleep>>
  /\ rd' = [rd EXCEPT !.pc = "wait"]
  /\ UNCHANGED <<frameq, events, is, dec, mn, cb, user>>

ReadWaitEnd ==
  /\ ReadStep("wait", "close") /\ is.abort_request
  /\ UNCHANGED <<queues, events, is, dec, mn, cb, user>>

\* The end of the thread; an error is told to the main thread.
ReadClose ==
  /\ \/ /\ rd.pc = "close" /\ ~is.stream
        /\ rd' = [rd EXCEPT !.pc = "closed"]
        /\ UNCHANGED <<queues, is, cb>>
     \/ /\ rd.pc \in ClosePcs /\ (rd.pc = "close" => is.stream)
        /\ \E next \in ClosePcs \cup {"closed"} :
             Closing(rd.pc, next) /\ rd' = [rd EXCEPT !.pc = next]
  /\ UNCHANGED <<events, dec, mn, user>>

ReadGone ==
  /\ ReadStep("closed", "gone")
  /\ events' = IF rd.ret # 0 THEN Append(events, [type |-> "quit"]) ELSE events
  /\ UNCHANGED <<queues, is, dec, mn, cb, user>>

-----------------------------------------------------------------------------
(* The Decoder of video_thread or audio_thread *)

Thread(pc) == dec.pc = pc /\ asleep.dec = "no"
DecSleeps(q) == asleep' = [asleep EXCEPT !.dec = q] /\ UNCHANGED dec
DecGoes(pc) == dec' = [dec EXCEPT !.pc = pc] /\ UNCHANGED asleep

\* decoder_decode_frame: a packet is needed unless one of this serial is pending.
Decode ==
  /\ Thread("decode")
  /\ DecGoes(CASE pktq.abort_request -> "exit"
               [] ~pktq.abort_request /\ (~dec.pending \/ pktq.serial # dec.pkt_serial) -> "get"
               [] OTHER -> "codec")
  /\ UNCHANGED <<pktq, frameq, events, is, rd, mn, cb, user>>

\* A flush packet: avcodec_flush_buffers.  Mutant: the decoder keeps its frames.
Emptied_not(t) == [t EXCEPT !.finished = 0]
Emptied(t) == [t EXCEPT !.held = <<>>, !.finished = 0]

\* packet_queue_get; a flush packet empties the decoder.
packet_queue_get ==
  /\ Thread("get")
  /\ \/ pktq.abort_request /\ DecGoes("exit") /\ UNCHANGED pktq
     \/ ~pktq.abort_request /\ pktq.pkts = <<>> /\ DecSleeps("pq") /\ UNCHANGED pktq
     \/ /\ ~pktq.abort_request /\ pktq.pkts # <<>>
        /\ LET p == Head(pktq.pkts)
               t == [dec EXCEPT !.pc = "got", !.pkt = p, !.pkt_serial = p.serial]
           IN dec' = IF p.what = "flush" THEN Emptied(t) ELSE t
        /\ pktq' = [pktq EXCEPT !.pkts = Tail(@)]
        /\ UNCHANGED asleep
  /\ UNCHANGED <<frameq, events, is, rd, mn, cb, user>>

\* Flush packets and packets of another serial are not decoded.
GotPacket ==
  /\ Thread("got")
  /\ dec' = IF dec.pkt.what = "flush" \/ pktq.serial # dec.pkt_serial
            THEN [dec EXCEPT !.pc = "get"]
            ELSE [dec EXCEPT !.pc = "codec", !.pending = TRUE]
  /\ UNCHANGED <<queues, events, is, rd, mn, cb, user>>

\* get_video_frame may drop a frame that is late.
Decoded(n, held, pending) ==
  \/ dec' = [dec EXCEPT !.pc = "queue", !.frame = n, !.held = held, !.pending = pending]
  \/ /\ opt.kind = "video" /\ dec.pkt_serial = is.vidclk_serial /\ pktq.pkts # <<>>
     /\ dec' = [dec EXCEPT !.pc = "decode", !.held = held, !.pending = pending]

\* The codec.  A data packet gives a frame once Delay frames are held, a null packet
\* gives the held ones and then ends the stream.  Either may fail to decode, and is not
\* pending any more; after a null packet that fails the decoder has not finished.
Codec ==
  LET buffered == Append(dec.held, dec.pkt.n)
      none == [dec EXCEPT !.pc = "decode", !.pending = FALSE]
  IN /\ Thread("codec")
     /\ \/ dec.pkt.what = "data" /\ Len(buffered) > opt.Delay
           /\ Decoded(Head(buffered), Tail(buffered), FALSE)
        \/ dec.pkt.what = "data" /\ Len(buffered) <= opt.Delay
           /\ dec' = [none EXCEPT !.held = buffered]
        \/ dec' = none
        \/ dec.pkt.what = "null" /\ dec.held # <<>>
           /\ Decoded(Head(dec.held), Tail(dec.held), TRUE)
        \/ dec.pkt.what = "null" /\ dec.held = <<>>
           /\ dec' = [none EXCEPT !.finished = dec.pkt_serial]
     /\ UNCHANGED <<queues, events, is, rd, mn, cb, user>>

\* frame_queue_peek_writable: no frame can be queued now.
NotWritable ==
  \/ pktq.abort_request /\ DecGoes("exit")
  \/ ~pktq.abort_request /\ frame_queue_full(frameq) /\ DecSleeps("fq")
Writable == ~pktq.abort_request /\ ~frame_queue_full(frameq)

\* The decoded frame is put into the slot at windex.
Filled_in == [frameq EXCEPT !.queue[frameq.windex].serial = dec.pkt_serial,
                            !.queue[frameq.windex].n = dec.frame]

\* The frame is freed and the thread ends.
ThreadExit ==
  /\ Thread("exit") /\ DecGoes("dead")
  /\ UNCHANGED <<pktq, frameq, events, is, rd, mn, cb, user>>

-----------------------------------------------------------------------------
(* The main thread: event_loop *)

\* The user presses a key, uncovers the window or closes it.
Press(k) ==
  /\ k \in keys /\ mn.pc \notin {"quit", "gone"}
  /\ events' = Append(events, [type |-> k])
  /\ keys' = keys \ {k}
  /\ UNCHANGED <<opt, queues, is, rd, dec, mn, cb, shown>>

\* event_loop: one event of the user, or that of read_thread, is handled.  (Streams are
\* cycled once, so the one to close is open unless read_thread has closed it.)
HandleEvent ==
  LET type == Head(events).type
  IN /\ mn.pc = "loop" /\ events # <<>> /\ type # "alloc"
     /\ events' = Tail(events)
     /\ mn' = [mn EXCEPT !.pc = CASE type = "cycle" /\ is.stream -> "close"
                                  [] type = "quit" -> "quit"
                                  [] OTHER -> "loop"]
     /\ is' = CASE type = "seek" -> [is EXCEPT !.seek_req = TRUE]
                [] type = "expose" -> [is EXCEPT !.force_refresh = TRUE]
                [] type = "pause" -> [is EXCEPT !.paused = ~@, !.step = FALSE]
                [] type = "step" -> [is EXCEPT !.paused = FALSE, !.step = TRUE]
                [] type = "quit" -> [is EXCEPT !.abort_request = TRUE]
                [] OTHER -> is
     /\ UNCHANGED <<queues, rd, dec, cb, user>>

\* do_exit, stream_close: read_thread is joined.
Quit ==
  /\ mn.pc = "quit" /\ rd.pc = "gone"
  /\ mn' = [mn EXCEPT !.pc = "gone"]
  /\ UNCHANGED <<queues, events, is, rd, dec, cb, user>>

\* stream_cycle_channel: the stream is closed, and the next one opened under a new
\* serial with a thread of its own.
CycleClose ==
  /\ mn.pc \in ClosePcs
  /\ \E next \in ClosePcs \cup {"closed"} : Closing(mn.pc, next) /\ mn' = [mn EXCEPT !.pc = next]
  /\ UNCHANGED <<events, rd, dec, user>>

\* stream_component_open fails, or subtitles are cycled to none: the stream stays closed.
CycleNone ==
  /\ mn.pc = "closed"
  /\ mn' = [mn EXCEPT !.pc = "loop"]
  /\ UNCHANGED <<queues, events, is, rd, dec, cb, user>>

CycleOpen ==
  /\ mn.pc = "closed"
  /\ mn' = [mn EXCEPT !.pc = "loop"]
  /\ is' = [is EXCEPT !.stream = TRUE]
  /\ pktq' = packet_queue_start(pktq)
  /\ dec' = NewThread(dec.gen + 1)
  /\ cb' = NewDevice
  /\ UNCHANGED <<frameq, asleep, events, rd, user>>

\* The end of video_refresh after video_display: a step is over, and the player paused.
Displayed == [is EXCEPT !.force_refresh = FALSE, !.paused = @ \/ is.step]

-----------------------------------------------------------------------------
Reader == \/ ReadLoop \/ SeekNothing \/ SeekFlush \/ SeekPut \/ SeekStep \/ ReadWait
          \/ ReadEnd \/ ReadFrame \/ ReadError \/ ReadWaitEnd \/ ReadClose \/ ReadGone
Decoding == Decode \/ packet_queue_get \/ GotPacket \/ Codec \/ ThreadExit
Events == HandleEvent \/ Quit \/ CycleClose \/ CycleNone \/ CycleOpen
=============================================================================
