--------------------------- MODULE SubtitlePlayer ---------------------------
(***************************************************************************)
(* The subtitle path of src/ffplay2.c: subtitle_thread decodes into the    *)
(* free slot of subpq it has waited for, and video_refresh, when it has a  *)
(* picture of the video, gives up the subtitles that are over and displays *)
(* the first of the rest with it.  The pictures and the clock of the video *)
(* are left out: any refresh may have a picture, of any time.  subpq keeps *)
(* no last frame.                                                          *)
(***************************************************************************)
EXTENDS PlayerThreads

-----------------------------------------------------------------------------
(* subtitle_thread *)

\* A slot to decode into.  When decoder_decode_frame returns without a subtitle at the end
\* of the file this is passed again, the slot being free still.
PeekWritable ==
  /\ Thread("peek")
  /\ NotWritable \/ (Writable /\ DecGoes("decode"))
  /\ UNCHANGED <<pktq, frameq, events, is, rd, mn, cb, user>>

\* The subtitle is queued, unless it is not of bitmaps.
QueueSubtitle ==
  /\ opt.kind = "subtitle" /\ Thread("queue")
  /\ \/ frameq' = frame_queue_push(Filled_in) /\ CondSignal("fq")
     \/ UNCHANGED <<frameq, asleep>>
  /\ dec' = [dec EXCEPT !.pc = "peek"]
  /\ UNCHANGED <<pktq, events, is, rd, mn, cb, user>>

-----------------------------------------------------------------------------
(* The main thread *)

\* video_refresh, with a picture to display or without.  A player that is paused displays
\* it with the subtitle that is first, be it over or not.
RefreshPicture ==
  /\ opt.kind = "subtitle"
  /\ mn.pc = "loop" /\ events = <<>>
  /\ ~is.paused \/ is.force_refresh
  /\ \/ /\ mn' = [mn EXCEPT !.pc = IF is.paused \/ ~is.stream THEN "subtitle" ELSE "over"]
        /\ UNCHANGED is
     \/ is' = [is EXCEPT !.force_refresh = FALSE] /\ UNCHANGED mn
  /\ UNCHANGED <<queues, events, rd, dec, cb, user>>

sp == frameq.queue[frame_queue_peek(frameq)]

\* The subtitles that are over, or followed by one that has begun, are given up, and all
\* of an older serial.
RefreshSubtitles ==
  /\ mn.pc = "over"
  /\ \/ /\ frame_queue_nb_remaining(frameq) > 0
        /\ frameq' = frame_queue_next(frameq) /\ CondSignal("fq")
        /\ UNCHANGED mn
     \/ /\ frame_queue_nb_remaining(frameq) > 0 => sp.serial = pktq.serial
        /\ mn' = [mn EXCEPT !.pc = "subtitle"]
        /\ UNCHANGED <<frameq, asleep>>
  /\ UNCHANGED <<pktq, events, is, rd, dec, cb, user>>

\* video_image_display: the first subtitle is displayed when its time has come.
DisplaySubtitle ==
  /\ mn.pc = "subtitle"
  /\ \/ /\ is.stream /\ frame_queue_nb_remaining(frameq) > 0
        /\ shown' = <<sp.serial, sp.n>>
     \/ UNCHANGED shown
  /\ mn' = [mn EXCEPT !.pc = "loop"]
  /\ is' = Displayed
  /\ UNCHANGED <<opt, queues, events, rd, dec, cb, keys>>

SubtitleThread == PeekWritable \/ QueueSubtitle
SubtitleMain == RefreshPicture \/ RefreshSubtitles \/ DisplaySubtitle
=============================================================================
