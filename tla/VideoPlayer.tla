---------------------------- MODULE VideoPlayer ----------------------------
(***************************************************************************)
(* The video path of src/ffplay2.c: video_thread has each decoded frame    *)
(* drawn by the main thread into the slot of pictq it will be queued in    *)
(* (queue_picture, alloc_picture), and the main thread shows the queued    *)
(* frames between two events (video_refresh).                              *)
(***************************************************************************)
EXTENDS PlayerThreads

-----------------------------------------------------------------------------
(* video_thread *)

\* queue_picture: a free slot, and a request to the main thread to draw the frame.
\* Mutant: the slot is still marked allocated from its frame before.
Reserve_not(f) == f
Reserve(f) == [f EXCEPT !.queue[f.windex].allocated = FALSE]
AllocEvent == [type |-> "alloc", gen |-> dec.gen]

QueuePicture ==
  /\ opt.kind = "video" /\ Thread("queue")
  /\ \/ NotWritable /\ UNCHANGED <<frameq, events>>
     \/ /\ Writable /\ DecGoes("alloc")
        /\ frameq' = Reserve(frameq)
        /\ events' = Append(events, AllocEvent)
  /\ UNCHANGED <<pktq, is, rd, mn, cb, user>>

\* ... until the frame is drawn, then it is pushed; or until the queue is aborted,
\* when SDL_PeepEvents(SDL_ADDEVENT) puts the event into the queue again.
PushPicture ==
  /\ Thread("alloc")
  /\ \/ /\ pktq.abort_request /\ DecGoes("exit")
        /\ events' = Append(events, AllocEvent)
        /\ UNCHANGED frameq
     \/ /\ ~pktq.abort_request /\ frameq.queue[frameq.windex].allocated
        /\ DecGoes("decode")
        /\ frameq' = frame_queue_push(Filled_in)
        /\ UNCHANGED events
     \/ /\ ~pktq.abort_request /\ ~frameq.queue[frameq.windex].allocated
        /\ DecSleeps("fq")
        /\ UNCHANGED <<frameq, events>>
  /\ UNCHANGED <<pktq, is, rd, mn, cb, user>>

-----------------------------------------------------------------------------
(* The main thread *)

\* alloc_picture: the slot at windex is drawn from the frame of video_thread.  (What
\* is drawn for a frame already freed means nothing.)  The slot's texture is left out.
alloc_picture ==
  /\ mn.pc = "loop" /\ events # <<>> /\ Head(events).type = "alloc"
  /\ events' = Tail(events)
  /\ frameq' = [frameq EXCEPT !.queue[frameq.windex].allocated = TRUE,
                              !.queue[frameq.windex].drawn = <<dec.pkt_serial, dec.frame>>]
  /\ CondSignal("fq")
  /\ UNCHANGED <<pktq, is, rd, dec, mn, cb, user>>

\* refresh_loop_wait_event and video_refresh.  When the window was uncovered the
\* frame last shown is shown again.
Refresh ==
  /\ opt.kind = "video" /\ is.stream
  /\ mn.pc = "loop" /\ events = <<>>
  /\ ~is.paused \/ is.force_refresh
  /\ mn' = [pc |-> "refresh", redisplay |-> is.force_refresh /\ frameq.rindex_shown = 1]
  /\ frameq' = IF is.force_refresh THEN frame_queue_prev(frameq) ELSE frameq
  /\ UNCHANGED <<pktq, asleep, events, is, rd, dec, cb, user>>

\* frame_queue_next signals when it gives up a slot.
NextFrame == /\ frameq' = frame_queue_next(frameq)
             /\ IF frameq.rindex_shown = 0 THEN UNCHANGED asleep ELSE CondSignal("fq")

vp == frameq.queue[frame_queue_peek(frameq)]
Current == frame_queue_nb_remaining(frameq) # 0 /\ vp.serial = pktq.serial

\* update_video_pts, unless the frame is shown again.
Clocked == IF mn.redisplay \/ is.paused THEN is ELSE [is EXCEPT !.vidclk_serial = vp.serial]

\* Nothing to show, or too early to show it.
RefreshNothing ==
  /\ mn.pc = "refresh"
  /\ \/ /\ frame_queue_nb_remaining(frameq) = 0
        /\ is' = [is EXCEPT !.force_refresh = FALSE]
     \/ /\ Current /\ ~mn.redisplay /\ ~is.paused
        /\ UNCHANGED is
  /\ mn' = [pc |-> "loop", redisplay |-> FALSE]
  /\ UNCHANGED <<queues, events, rd, dec, cb, user>>

\* A frame of an older serial, or one that is late, is passed over.
RefreshSkip ==
  /\ mn.pc = "refresh"
  /\ \/ /\ frame_queue_nb_remaining(frameq) # 0 /\ vp.serial # pktq.serial
        /\ UNCHANGED is
     \/ /\ Current /\ frame_queue_nb_remaining(frameq) > 1 /\ ~is.step /\ ~is.paused
        /\ is' = Clocked
  /\ NextFrame
  /\ mn' = [mn EXCEPT !.redisplay = FALSE]
  /\ UNCHANGED <<pktq, events, rd, dec, cb, user>>

RefreshPick ==
  /\ mn.pc = "refresh" /\ Current
  /\ mn' = [mn EXCEPT !.pc = "display"]
  /\ is' = Clocked
  /\ UNCHANGED <<queues, events, rd, dec, cb, user>>

\* The picture is displayed.
Display ==
  /\ mn.pc = "display"
  /\ mn' = [pc |-> "loop", redisplay |-> FALSE]
  /\ shown' = <<vp.serial, vp.n>>
  /\ is' = Displayed
  /\ NextFrame
  /\ UNCHANGED <<opt, pktq, events, rd, dec, cb, keys>>

VideoThread == QueuePicture \/ PushPicture
VideoMain == alloc_picture \/ Refresh \/ RefreshNothing \/ RefreshSkip \/ RefreshPick \/ Display

-----------------------------------------------------------------------------
(* Properties *)

\* The picture drawn into a queued slot is that of the frame queued there: the draw
\* request of queue_picture is handled before the frame is pushed, never for another
\* frame or slot.  And a request in the event queue is for the frame that video_thread
\* still holds (queue_picture: "if the queue is aborted, we have to pop the pending ALLOC
\* event or wait for the allocation to complete").  With a stream closed before the player
\* ends neither holds: SDL_PeepEvents(SDL_ADDEVENT) does not pop the request.
DrawnAsQueued ==
  opt.kind = "video" /\ "cycle" \notin opt.keys =>
    /\ \A i \in Filled(frameq) : frameq.queue[i].drawn = <<frameq.queue[i].serial, frameq.queue[i].n>>
    /\ mn.pc \notin {"quit", "gone"} =>
         \A i \in DOMAIN events : events[i].type = "alloc" =>
           events[i].gen = dec.gen /\ dec.pc = "alloc"
=============================================================================
