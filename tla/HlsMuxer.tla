------------------------------ MODULE HlsMuxer ------------------------------
(***************************************************************************)
(* The HLS muxer of src/hlsenc.c as src/remuxing.c drives it: segments are *)
(* written one after another into files whose index wraps, and after each  *)
(* of them a playlist of the last ones is published.  A client reads the   *)
(* playlist and then the files it lists, at any moment.                    *)
(*                                                                         *)
(* A segment is the number hls->sequence it was written under; a file      *)
(* remembers whose segment it holds and whether it is closed.  The flags   *)
(* single_file and delete_segments are off, as in remuxing.c.              *)
(***************************************************************************)
EXTENDS Integers, Sequences

CONSTANTS wrap,              \* hls_wrap, 0: the index does not wrap
          max_nb_segments,   \* hls_list_size, 0: every segment is listed
          start_sequence,    \* start_number
          MaxSequence        \* bound: the last segment that is written

ASSUME MuxerAssumption ==
  /\ {wrap, max_nb_segments, start_sequence} \subseteq Nat
  /\ MaxSequence \in Nat /\ MaxSequence >= start_sequence

VARIABLES sequence,     \* number of the segment being written
          segments,     \* the list segments .. last_segment
          nb_entries,
          pb,           \* oc->pb: whether the segment's file is open
          files,        \* per index, the segment in the file, NoSegment if none
          playlist,     \* what was published last
          pc            \* where the muxer is

vars == <<sequence, segments, nb_entries, pb, files, playlist, pc>>

NoSegment == -1
\* Mutant: the index wraps one file early.
IndexEarly(n) == IF wrap = 0 THEN n ELSE n % (wrap - 1)
Index(n) == IF wrap = 0 THEN n ELSE n % wrap
Indices == 0 .. MaxSequence

Init == /\ sequence = start_sequence
        /\ segments = <<>>
        /\ nb_entries = 0
        /\ pb = FALSE
        /\ files = [i \in Indices |-> [segment |-> NoSegment, closed |-> FALSE]]
        /\ playlist = [entries |-> <<>>, first |-> 0, last |-> FALSE]
        /\ pc = "header"

-----------------------------------------------------------------------------
\* hls_append_segment.  Mutant: the entries are counted on.
Appended == LET appended == Append(segments, sequence)
            IN IF nb_entries >= max_nb_segments THEN Tail(appended) ELSE appended
hls_append_segment_counts ==
  segments' = Appended /\ nb_entries' = nb_entries + 1 /\ sequence' = sequence + 1
hls_append_segment ==
  LET full == max_nb_segments > 0 /\ nb_entries >= max_nb_segments
      appended == Append(segments, sequence)
  IN /\ segments' = IF full THEN Tail(appended) ELSE appended
     /\ nb_entries' = IF full THEN nb_entries ELSE nb_entries + 1
     /\ sequence' = sequence + 1

\* hls_start: the file of the next index is truncated and opened; avio_open2 may
\* fail.
hls_start(next, failed) ==
  \/ /\ files' = [files EXCEPT ![Index(sequence)] = [segment |-> sequence, closed |-> FALSE]]
     /\ pb' = TRUE
     /\ pc' = next
  \/ /\ pc' = failed
     /\ UNCHANGED <<files, pb>>

\* hls_window: the playlist is published, unless avio_open2 fails.
greater(a, b) == IF a > b THEN a ELSE b
hls_window(last, next, failed) ==
  \/ /\ playlist' = [entries |-> segments,
                     first |-> greater(start_sequence, sequence - nb_entries),
                     last |-> last]
     /\ pc' = next
  \/ /\ pc' = failed
     /\ UNCHANGED playlist

close == /\ files' = [files EXCEPT ![Index(sequence)].closed = TRUE]
         /\ pb' = FALSE

\* hls_write_header.
WriteHeader == /\ pc = "header"
               /\ hls_start("write", "gone")
               /\ UNCHANGED <<sequence, segments, nb_entries, playlist>>

\* hls_write_packet: a key frame late enough ends the segment.
Split == /\ pc = "write"
         /\ sequence < MaxSequence
         /\ hls_append_segment
         /\ close
         /\ pc' = "start"
         /\ UNCHANGED playlist

Start == /\ pc = "start"
         /\ hls_start("window", "trailer")
         /\ UNCHANGED <<sequence, segments, nb_entries, playlist>>

\* Mutant: every playlist ends with an ENDLIST.
WindowEnds == /\ pc = "window"
              /\ hls_window(TRUE, "write", "trailer")
              /\ UNCHANGED <<sequence, segments, nb_entries, pb, files>>

Window == /\ pc = "window"
          /\ hls_window(FALSE, "write", "trailer")
          /\ UNCHANGED <<sequence, segments, nb_entries, pb, files>>

\* remuxing.c: the input ends; a packet that cannot be written ends it too.
End == /\ pc = "write"
       /\ pc' = "trailer"
       /\ UNCHANGED <<sequence, segments, nb_entries, pb, files, playlist>>

\* hls_write_trailer: the last segment, if its file could be opened, and the last
\* playlist.
Trailer == /\ pc = "trailer"
           /\ IF pb THEN hls_append_segment /\ close
              ELSE UNCHANGED <<sequence, segments, nb_entries, pb, files>>
           /\ pc' = "last"
           /\ UNCHANGED playlist

LastWindow == /\ pc = "last"
              /\ hls_window(TRUE, "gone", "gone")
              /\ UNCHANGED <<sequence, segments, nb_entries, pb, files>>

Next == WriteHeader \/ Split \/ Start \/ Window \/ End \/ Trailer \/ LastWindow

Spec == Init /\ [][Next]_vars

-----------------------------------------------------------------------------
(* Properties *)

\* The types of the muxer's state; the number stays within those written.
TypeOK ==
  /\ sequence \in start_sequence .. MaxSequence + 1
  /\ segments \in Seq(Nat) /\ nb_entries \in Nat
  /\ pb \in BOOLEAN
  /\ files \in [Indices -> [segment : Nat \cup {NoSegment}, closed : BOOLEAN]]
  /\ playlist \in [entries : Seq(Nat), first : Nat, last : BOOLEAN]
  /\ pc \in {"header", "write", "start", "window", "trailer", "last", "gone"}

Holds(n) == files[Index(n)].segment = n /\ files[Index(n)].closed
Listed == {playlist.entries[i] : i \in DOMAIN playlist.entries}

\* A listed segment is lost only to the segment wrap later, and without a wrap never: so
\* with remuxing.c's hls_wrap = hls_list_size = 6 all files but those of the two oldest
\* entries are there.  (After a playlist that could not be written the trailer raises
\* sequence without starting a file; the third oldest entry is then left out as well.)
NewestIsThere == /\ TypeOK
                 /\ \A n \in Listed : wrap = 0 \/ n + wrap > sequence => Holds(n)

\* The entries of a playlist are numbered from its EXT-X-MEDIA-SEQUENCE without a
\* gap, so that a client can tell which of them it has already played.
MediaSequence ==
  \A i \in DOMAIN playlist.entries : playlist.entries[i] = playlist.first + i - 1

\* Playlists only move on: no entry comes back, and the one published with an
\* ENDLIST is the last.
MovesOn == [][/\ playlist.entries # <<>> => playlist'.first >= playlist.first
              /\ playlist'.first + Len(playlist'.entries)
                   >= playlist.first + Len(playlist.entries)
              /\ playlist.last => playlist' = playlist]_vars
=============================================================================
