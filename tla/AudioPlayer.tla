----------------------------- MODULE AudioPlayer -----------------------------
(***************************************************************************)
(* The audio path of src/ffplay2.c: audio_thread queues decoded frames in  *)
(* sampq, and sdl_audio_callback, which SDL calls on a thread of its own   *)
(* while the device is open, takes them from there.  audio_buf points into *)
(* the frame it plays, which stays in its slot: a call may take a part of  *)
(* it, and the rest is for the next call.  audio_thread and the callback   *)
(* wait on the same condition of sampq.  The sound is not resampled.       *)
(***************************************************************************)
EXTENDS PlayerThreads

\* audio_thread: the frame is moved into a free slot of sampq, and queued.
QueueSamples ==
  /\ opt.kind = "audio" /\ Thread("queue")
  /\ \/ NotWritable /\ UNCHANGED frameq
     \/ /\ Writable
        /\ frameq' = frame_queue_push(Filled_in)
        /\ CondSignal("fq")
        /\ dec' = [dec EXCEPT !.pc = "decode"]
  /\ UNCHANGED <<pktq, events, is, rd, mn, cb, user>>

-----------------------------------------------------------------------------
(* sdl_audio_callback *)

Callback(pc) == opt.kind = "audio" /\ cb.pc = pc /\ asleep.cb = "no"
CbGoes(pc) == cb' = [cb EXCEPT !.pc = pc]

\* The device asks for sound: the rest of audio_buf, or the next frame.  A paused player
\* outputs silence, which changes nothing.
Continue ==
  /\ Callback("idle") /\ cb.open
  /\ \/ cb.left > 0 /\ cb' = [cb EXCEPT !.left = 0]
     \/ cb.left = 0 /\ ~is.paused /\ CbGoes("peek")
  /\ UNCHANGED <<queues, events, is, rd, dec, mn, user>>

\* frame_queue_peek_readable, and frame_queue_next gives up the frame played before;
\* silence once the queue is aborted.  Mutant: the slot that comes after.
Readable_next == (frame_queue_peek(frameq) + 1) % MaxSize
Readable == frame_queue_peek(frameq)

TakeSamples ==
  /\ Callback("peek")
  /\ \/ /\ pktq.abort_request /\ CbGoes("idle")
        /\ UNCHANGED <<frameq, asleep>>
     \/ /\ ~pktq.abort_request /\ frame_queue_nb_remaining(frameq) <= 0
        /\ asleep' = [asleep EXCEPT !.cb = "fq"]
        /\ UNCHANGED <<frameq, cb>>
     \/ /\ ~pktq.abort_request /\ frame_queue_nb_remaining(frameq) > 0
        /\ cb' = [cb EXCEPT !.pc = "choose", !.slot = Readable]
        /\ frameq' = frame_queue_next(frameq)
        /\ IF frameq.rindex_shown = 0 THEN UNCHANGED asleep ELSE CondSignal("fq")
  /\ UNCHANGED <<pktq, events, is, rd, dec, mn, user>>

\* Frames of an older serial are passed over; a call plays all of the frame, or a part.
ChooseSamples ==
  LET af == frameq.queue[cb.slot]
  IN /\ Callback("choose")
     /\ \/ /\ af.serial # pktq.serial
           /\ CbGoes("peek") /\ UNCHANGED shown
        \/ /\ af.serial = pktq.serial
           /\ shown' = <<af.serial, af.n>>
           /\ \E left \in 0 .. 1 : cb' = [cb EXCEPT !.pc = "idle", !.left = left]
     /\ UNCHANGED <<opt, queues, events, is, rd, dec, mn, keys>>

AudioCallback == Continue \/ TakeSamples \/ ChooseSamples

-----------------------------------------------------------------------------
(* Properties *)

\* The frame that audio_buf points into is the one keep_last holds at rindex: while the
\* callback has samples of it left, no audio_thread, seek or reopening overwrites it.
AudioBufKept ==
  cb.pc = "choose" \/ cb.left > 0 =>
    /\ frameq.rindex_shown = 1 /\ cb.slot = frameq.rindex /\ cb.slot \in Filled(frameq)
    /\ cb.left > 0 => shown = <<frameq.queue[cb.slot].serial, frameq.queue[cb.slot].n>>
=============================================================================
