---------------------------- MODULE HlsMuxerProofs ----------------------------
(***************************************************************************)
(* Proofs about the HLS muxer for every hls_wrap, hls_list_size, first     *)
(* number and number of segments.  MuxInv is inductive: Entries says what  *)
(* the list of segments is, Published how the last playlist is related to  *)
(* it, and Kept which files still hold the segment they were written for.  *)
(***************************************************************************)
EXTENDS HlsMuxer, TLAPS

Entries ==
  /\ nb_entries = Len(segments) /\ sequence - nb_entries >= start_sequence
  /\ \A i \in 1 .. nb_entries : segments[i] = sequence - nb_entries + i - 1

Published ==
  /\ MediaSequence
  /\ playlist.first <= sequence - nb_entries
  /\ playlist.first + Len(playlist.entries) <= sequence
  /\ playlist.entries # <<>> => playlist.first >= start_sequence
  /\ playlist.last => pc = "gone"

Kept ==
  /\ pc \notin {"last", "gone"} => sequence <= MaxSequence
  /\ pc \in {"write", "window"} => pb
  /\ pb => files[Index(sequence)].segment = sequence
  /\ \A n \in start_sequence .. sequence - 1 : wrap = 0 \/ n + wrap > sequence => Holds(n)

MuxInv == TypeOK /\ Entries /\ Published /\ Kept

-----------------------------------------------------------------------------
(* Indices *)

\* Two segments share a file only when they are wrap apart, or more.
LEMMA IndexDiffers ==
  ASSUME NEW m \in Nat, NEW n \in Nat, n < m, wrap = 0 \/ n + wrap > m
  PROVE  Index(n) # Index(m)
<1>1. CASE wrap = 0
  BY <1>1 DEF Index
<1>2. CASE wrap # 0
  <2>1. wrap \in Nat /\ wrap > 0 /\ m - n < wrap
    BY <1>2, MuxerAssumption
  <2> DEFINE q == n \div wrap
             r == m \div wrap
  <2>2. q \in Int /\ n = wrap * q + (n % wrap)
    BY <2>1
  <2>3. r \in Int /\ m = wrap * r + (m % wrap)
    BY <2>1
  <2>4. n % wrap \in Int /\ m % wrap \in Int
    BY <2>1
  <2> HIDE DEF q, r
  <2>5. ASSUME n % wrap = m % wrap PROVE FALSE
    <3>1. m - n = wrap * (r - q)
      BY <2>1, <2>2, <2>3, <2>4, <2>5
    <3>2. r - q >= 1 \/ r - q <= 0
      BY <2>2, <2>3
    <3>3. r - q >= 1 => wrap * (r - q) >= wrap
      BY <2>1, <2>2, <2>3
    <3>4. r - q <= 0 => wrap * (r - q) <= 0
      BY <2>1, <2>2, <2>3
    <3> QED BY <2>1, <3>1, <3>2, <3>3, <3>4
  <2> QED BY <1>2, <2>5 DEF Index
<1> QED BY <1>1, <1>2

LEMMA IndexBounded == \A n \in 0 .. MaxSequence : Index(n) \in Indices
<1> SUFFICES ASSUME NEW n \in 0 .. MaxSequence PROVE Index(n) \in Indices
  OBVIOUS
<1>1. CASE wrap = 0
  BY <1>1 DEF Index, Indices
<1>2. CASE wrap # 0
  <2>1. wrap \in Nat /\ wrap > 0 /\ n \in Nat /\ MaxSequence \in Nat
    BY <1>2, MuxerAssumption
  <2>2. n % wrap \in 0 .. n
    BY <2>1
  <2> QED BY <1>2, <2>1, <2>2 DEF Index, Indices
<1> QED BY <1>1, <1>2

-----------------------------------------------------------------------------
LEMMA MuxInvInit == Init => MuxInv
<1> SUFFICES ASSUME Init PROVE MuxInv
  OBVIOUS
<1>1. TypeOK
  <2>1. files \in [Indices -> [segment : Nat \cup {NoSegment}, closed : BOOLEAN]]
    BY DEF Init
  <2>2. playlist \in [entries : Seq(Nat), first : Nat, last : BOOLEAN]
    BY DEF Init
  <2>3. sequence \in start_sequence .. MaxSequence + 1
    BY MuxerAssumption DEF Init
  <2>4. segments \in Seq(Nat)
    BY DEF Init
  <2> QED BY <2>1, <2>2, <2>3, <2>4 DEF Init, TypeOK
<1>2. Entries /\ Published /\ Kept
  BY MuxerAssumption DEF Init, Entries, Published, MediaSequence, Kept
<1> QED BY <1>1, <1>2 DEF MuxInv

-----------------------------------------------------------------------------
(* What the functions of the muxer do to the invariant *)

Numbers == /\ sequence \in Nat /\ nb_entries \in Nat /\ MaxSequence \in Nat
           /\ start_sequence \in Nat /\ max_nb_segments \in Nat
           /\ sequence >= start_sequence

LEMMA NumbersHold == TypeOK => Numbers
BY MuxerAssumption DEF TypeOK, Numbers

\* The list stays a list of the newest segments, with the one just written at its end.
LEMMA AppendEntries ==
  ASSUME TypeOK, Entries, sequence <= MaxSequence, hls_append_segment
  PROVE  /\ Entries' /\ segments' \in Seq(Nat) /\ nb_entries' \in Nat
         /\ sequence' = sequence + 1 /\ sequence' - nb_entries' >= sequence - nb_entries
<1> DEFINE appended == Append(segments, sequence)
<1>1. Numbers /\ segments \in Seq(Nat) /\ nb_entries = Len(segments)
  BY NumbersHold DEF TypeOK, Entries
<1>2. /\ appended \in Seq(Nat) /\ Len(appended) = nb_entries + 1
      /\ \A i \in 1 .. nb_entries + 1 :
           appended[i] = sequence - nb_entries + i - 1
  BY <1>1 DEF Entries, Numbers
<1>3. sequence' = sequence + 1
  BY DEF hls_append_segment
<1>4. CASE max_nb_segments > 0 /\ nb_entries >= max_nb_segments
  <2>0. nb_entries >= 1
    BY <1>1, <1>4 DEF Numbers
  <2>1. segments' = Tail(appended) /\ nb_entries' = nb_entries
    BY <1>4 DEF hls_append_segment
  <2>2. /\ Tail(appended) \in Seq(Nat) /\ Len(Tail(appended)) = nb_entries
        /\ \A i \in 1 .. nb_entries : Tail(appended)[i] = appended[i + 1]
    BY <2>0, <1>1, <1>2 DEF Numbers
  <2>3. \A i \in 1 .. nb_entries' : segments'[i] = sequence' - nb_entries' + i - 1
    BY <1>1, <1>2, <1>3, <2>0, <2>1, <2>2, SMTT(30) DEF Numbers
  <2> QED BY <1>1, <1>3, <2>0, <2>1, <2>2, <2>3 DEF Entries, Numbers
<1>5. CASE ~(max_nb_segments > 0 /\ nb_entries >= max_nb_segments)
  <2>1. segments' = appended /\ nb_entries' = nb_entries + 1
    BY <1>5 DEF hls_append_segment
  <2> QED BY <1>1, <1>2, <1>3, <2>1 DEF Entries, Numbers
<1> QED BY <1>4, <1>5

\* The file opened for a segment held one that is wrap older.
LEMMA StartKept ==
  ASSUME MuxInv, sequence <= MaxSequence, NEW next, NEW failed, hls_start(next, failed),
         UNCHANGED <<sequence, segments, nb_entries, playlist>>
  PROVE  /\ files' \in [Indices -> [segment : Nat \cup {NoSegment}, closed : BOOLEAN]]
         /\ pb' \in BOOLEAN /\ pc' \in {next, failed}
         /\ pb' => files'[Index(sequence)].segment = sequence
         /\ pc' = failed \/ pb'
         /\ \A n \in start_sequence .. sequence - 1 :
              wrap = 0 \/ n + wrap > sequence => Holds(n)'
<1>1. /\ files \in [Indices -> [segment : Nat \cup {NoSegment}, closed : BOOLEAN]]
      /\ Numbers /\ pb \in BOOLEAN
  BY NumbersHold DEF MuxInv, TypeOK
<1>2. CASE UNCHANGED <<files, pb>> /\ pc' = failed
  BY <1>1, <1>2 DEF MuxInv, Kept, Holds
<1>3. CASE /\ files' = [files EXCEPT ![Index(sequence)] = [segment |-> sequence, closed |-> FALSE]]
           /\ pb' = TRUE /\ pc' = next
  <2>1. Index(sequence) \in Indices
    BY <1>1, IndexBounded DEF Numbers
  <2>2. \A n \in start_sequence .. sequence - 1 :
          wrap = 0 \/ n + wrap > sequence => Holds(n) /\ Index(n) # Index(sequence)
    BY <1>1, IndexDiffers DEF MuxInv, Kept, Numbers
  <2>3. \A n \in start_sequence .. sequence - 1 :
          wrap = 0 \/ n + wrap > sequence => Holds(n)'
    BY <1>1, <1>3, <2>1, <2>2 DEF Holds
  <2> QED BY <1>1, <1>3, <2>1, <2>3 DEF Numbers
<1> QED BY <1>2, <1>3 DEF hls_start

\* A segment that is closed after it was appended is there, and no other is touched.
LEMMA CloseKept ==
  ASSUME MuxInv, pb, sequence <= MaxSequence, close, sequence' = sequence + 1
  PROVE  /\ files' \in [Indices -> [segment : Nat \cup {NoSegment}, closed : BOOLEAN]]
         /\ pb' = FALSE
         /\ \A n \in start_sequence .. sequence' - 1 :
              wrap = 0 \/ n + wrap > sequence' => Holds(n)'
<1> DEFINE slots == [segment : Nat \cup {NoSegment}, closed : BOOLEAN]
<1>1. /\ files \in [Indices -> slots] /\ Numbers /\ wrap \in Nat
      /\ files[Index(sequence)].segment = sequence
  BY NumbersHold, MuxerAssumption DEF MuxInv, TypeOK, Kept
<1>2. Index(sequence) \in Indices
  BY <1>1, IndexBounded DEF Numbers
<1>3. files' = [files EXCEPT ![Index(sequence)].closed = TRUE] /\ pb' = FALSE
  BY DEF close
<1>4. files' \in [Indices -> slots]
  BY <1>1, <1>2, <1>3 DEF Numbers
<1>5. ASSUME NEW n \in start_sequence .. sequence' - 1, wrap = 0 \/ n + wrap > sequence'
      PROVE  Holds(n)'
  <2>1. CASE n = sequence
    BY <1>1, <1>2, <1>3, <2>1 DEF Holds
  <2>2. CASE n # sequence
    <3>1. n \in start_sequence .. sequence - 1 /\ (wrap = 0 \/ n + wrap > sequence)
      BY <1>1, <1>5, <2>2 DEF Numbers
    <3>2. Holds(n) /\ Index(n) # Index(sequence)
      BY <1>1, <3>1, IndexDiffers DEF MuxInv, Kept, Numbers
    <3> QED BY <1>1, <1>2, <1>3, <3>2 DEF Holds
  <2> QED BY <2>1, <2>2
<1> QED BY <1>3, <1>4, <1>5

\* What is published is the list as it is now.
LEMMA WindowPublished ==
  ASSUME MuxInv, NEW last \in BOOLEAN, NEW next, NEW failed, hls_window(last, next, failed),
         ~playlist.last, UNCHANGED <<sequence, segments, nb_entries>>,
         last => next = "gone"
  PROVE  /\ playlist' \in [entries : Seq(Nat), first : Nat, last : BOOLEAN]
         /\ Published' /\ pc' \in {next, failed}
<1>1. /\ Numbers /\ segments \in Seq(Nat)
      /\ playlist \in [entries : Seq(Nat), first : Nat, last : BOOLEAN]
      /\ Entries /\ Published
  BY NumbersHold DEF MuxInv, TypeOK
<1>2. CASE UNCHANGED playlist /\ pc' = failed
  BY <1>1, <1>2 DEF Published, MediaSequence
<1>3. CASE /\ playlist' = [entries |-> segments,
                           first |-> greater(start_sequence, sequence - nb_entries),
                           last |-> last]
           /\ pc' = next
  <2>1. /\ greater(start_sequence, sequence - nb_entries) = sequence - nb_entries
        /\ sequence - nb_entries \in Nat /\ sequence - nb_entries >= start_sequence
    BY <1>1 DEF greater, Entries, Numbers
  <2>2. /\ playlist'.entries = segments /\ playlist'.first = sequence - nb_entries
        /\ playlist'.last = last
    BY <1>3, <2>1
  <2>3. MediaSequence'
    BY <1>1, <2>2 DEF Entries, MediaSequence
  <2>4. playlist'.first + Len(playlist'.entries) <= sequence'
    BY <1>1, <2>2 DEF Entries, Numbers
  <2> QED BY <1>1, <1>3, <2>1, <2>2, <2>3, <2>4 DEF Published, Numbers
<1> QED BY <1>2, <1>3 DEF hls_window

-----------------------------------------------------------------------------
(* One lemma per step of the muxer. *)

LEMMA WriteHeaderPreserves == MuxInv /\ WriteHeader => MuxInv'
<1> SUFFICES ASSUME MuxInv, WriteHeader PROVE MuxInv'
  OBVIOUS
<1>1. /\ pc = "header" /\ hls_start("write", "gone") /\ sequence <= MaxSequence
      /\ UNCHANGED <<sequence, segments, nb_entries, playlist>> /\ ~playlist.last
  BY DEF WriteHeader, MuxInv, Kept, Published
<1>2. /\ files' \in [Indices -> [segment : Nat \cup {NoSegment}, closed : BOOLEAN]]
      /\ pb' \in BOOLEAN /\ pc' \in {"write", "gone"}
      /\ pb' => files'[Index(sequence)].segment = sequence
      /\ pc' = "gone" \/ pb'
      /\ \A n \in start_sequence .. sequence - 1 : wrap = 0 \/ n + wrap > sequence => Holds(n)'
  BY <1>1, StartKept
<1>3. TypeOK'
  BY <1>1, <1>2 DEF MuxInv, TypeOK
<1>4. Entries' /\ Published'
  BY <1>1, <1>2 DEF MuxInv, Entries, Published, MediaSequence
<1>5. Kept'
  BY <1>1, <1>2 DEF Kept
<1> QED BY <1>3, <1>4, <1>5 DEF MuxInv

LEMMA StartPreserves == MuxInv /\ Start => MuxInv'
<1> SUFFICES ASSUME MuxInv, Start PROVE MuxInv'
  OBVIOUS
<1>1. /\ pc = "start" /\ hls_start("window", "trailer") /\ sequence <= MaxSequence
      /\ UNCHANGED <<sequence, segments, nb_entries, playlist>> /\ ~playlist.last
  BY DEF Start, MuxInv, Kept, Published
<1>2. /\ files' \in [Indices -> [segment : Nat \cup {NoSegment}, closed : BOOLEAN]]
      /\ pb' \in BOOLEAN /\ pc' \in {"window", "trailer"}
      /\ pb' => files'[Index(sequence)].segment = sequence
      /\ pc' = "trailer" \/ pb'
      /\ \A n \in start_sequence .. sequence - 1 : wrap = 0 \/ n + wrap > sequence => Holds(n)'
  BY <1>1, StartKept
<1>3. TypeOK'
  BY <1>1, <1>2 DEF MuxInv, TypeOK
<1>4. Entries' /\ Published'
  BY <1>1, <1>2 DEF MuxInv, Entries, Published, MediaSequence
<1>5. Kept'
  BY <1>1, <1>2 DEF Kept
<1> QED BY <1>3, <1>4, <1>5 DEF MuxInv

\* Split, and Trailer when the file is open.
LEMMA SegmentEnds ==
  ASSUME MuxInv, pb, sequence <= MaxSequence, hls_append_segment, close, UNCHANGED playlist,
         ~playlist.last, pc' \in {"start", "last"}, pc' = "start" => sequence < MaxSequence
  PROVE  MuxInv'
<1>1. /\ Entries' /\ segments' \in Seq(Nat) /\ nb_entries' \in Nat
      /\ sequence' = sequence + 1 /\ sequence' - nb_entries' >= sequence - nb_entries
  BY AppendEntries DEF MuxInv
<1>2. /\ files' \in [Indices -> [segment : Nat \cup {NoSegment}, closed : BOOLEAN]]
      /\ pb' = FALSE
      /\ \A n \in start_sequence .. sequence' - 1 : wrap = 0 \/ n + wrap > sequence' => Holds(n)'
  BY <1>1, CloseKept
<1>3. Numbers
  BY NumbersHold DEF MuxInv
<1>4. TypeOK'
  <2>1. sequence' \in start_sequence .. MaxSequence + 1
    BY <1>1, <1>3 DEF Numbers
  <2> QED BY <1>1, <1>2, <2>1 DEF MuxInv, TypeOK
<1>5. Published'
  <2>1. /\ playlist.first \in Nat /\ Len(playlist.entries) \in Nat
        /\ playlist.first <= sequence - nb_entries
        /\ playlist.first + Len(playlist.entries) <= sequence
    BY DEF MuxInv, TypeOK, Published
  <2>2. playlist.first <= sequence' - nb_entries'
    <3>1. sequence' - nb_entries' \in Int /\ sequence - nb_entries \in Int
      BY <1>1, <1>3 DEF Numbers
    <3> QED BY <1>1, <2>1, <3>1
  <2>3. playlist.first + Len(playlist.entries) <= sequence'
    BY <1>1, <1>3, <2>1 DEF Numbers
  <2> QED BY <2>2, <2>3 DEF MuxInv, Published, MediaSequence
<1>6. Kept'
  BY <1>1, <1>2, <1>3 DEF Kept, Numbers
<1> QED BY <1>1, <1>4, <1>5, <1>6 DEF MuxInv

LEMMA SplitPreserves == MuxInv /\ Split => MuxInv'
<1> SUFFICES ASSUME MuxInv, Split PROVE MuxInv'
  OBVIOUS
<1>1. /\ pc = "write" /\ pb /\ sequence < MaxSequence /\ hls_append_segment /\ close
      /\ pc' = "start" /\ UNCHANGED playlist /\ ~playlist.last
  BY DEF Split, MuxInv, Kept, Published
<1>2. sequence <= MaxSequence
  BY <1>1 DEF MuxInv, Kept
<1> QED BY <1>1, <1>2, SegmentEnds

LEMMA TrailerPreserves == MuxInv /\ Trailer => MuxInv'
<1> SUFFICES ASSUME MuxInv, Trailer PROVE MuxInv'
  OBVIOUS
<1>1. /\ pc = "trailer" /\ pc' = "last" /\ UNCHANGED playlist /\ ~playlist.last
      /\ sequence <= MaxSequence
  BY DEF Trailer, MuxInv, Kept, Published
<1>2. CASE pb
  BY <1>1, <1>2, SegmentEnds DEF Trailer
<1>3. CASE ~pb
  <2>1. UNCHANGED <<sequence, segments, nb_entries, pb, files, playlist>>
    BY <1>3 DEF Trailer
  <2> QED BY <1>1, <2>1
       DEF MuxInv, TypeOK, Entries, Published, MediaSequence, Kept, Holds
<1> QED BY <1>2, <1>3

LEMMA WindowPreserves == MuxInv /\ (Window \/ LastWindow) => MuxInv'
<1> SUFFICES ASSUME MuxInv, Window \/ LastWindow PROVE MuxInv'
  OBVIOUS
<1>1. /\ pc \in {"window", "last"} /\ ~playlist.last
      /\ UNCHANGED <<sequence, segments, nb_entries, pb, files>>
  BY DEF Window, LastWindow, MuxInv, Published
<1>2. /\ playlist' \in [entries : Seq(Nat), first : Nat, last : BOOLEAN]
      /\ Published'
      /\ (Window /\ pc' \in {"write", "trailer"}) \/ (LastWindow /\ pc' = "gone")
  <2>1. CASE Window
    BY <1>1, <2>1, WindowPublished DEF Window
  <2>2. CASE LastWindow
    BY <1>1, <2>2, WindowPublished DEF LastWindow
  <2> QED BY <2>1, <2>2
<1>3. TypeOK' /\ Entries'
  BY <1>1, <1>2 DEF MuxInv, TypeOK, Entries
<1>4. Kept'
  BY <1>1, <1>2 DEF Window, LastWindow, MuxInv, Kept, Holds
<1> QED BY <1>2, <1>3, <1>4 DEF MuxInv

LEMMA MuxInvNext == MuxInv /\ [Next]_vars => MuxInv'
<1> SUFFICES ASSUME MuxInv, [Next]_vars PROVE MuxInv'
  OBVIOUS
<1>1. CASE WriteHeader \/ Split \/ Start \/ Window \/ Trailer \/ LastWindow
  BY <1>1, WriteHeaderPreserves, SplitPreserves, StartPreserves, WindowPreserves, TrailerPreserves
<1>2. CASE End
  BY <1>2 DEF End, MuxInv, TypeOK, Entries, Published, MediaSequence, Kept, Holds
<1>3. CASE UNCHANGED vars
  BY <1>3 DEF vars, MuxInv, TypeOK, Entries, Published, MediaSequence, Kept, Holds
<1> QED BY <1>1, <1>2, <1>3 DEF Next

-----------------------------------------------------------------------------
(* The theorems *)

\* The inductive invariant: list, published playlist and files agree.
THEOREM MuxInvariant == Spec => []MuxInv
BY MuxInvInit, MuxInvNext, PTL DEF Spec

\* A client that knows EXT-X-MEDIA-SEQUENCE knows the number of every entry, for every
\* hls_list_size and whatever opens failed.
THEOREM MuxMediaSequence == Spec => []MediaSequence
<1>1. MuxInv => MediaSequence
  BY DEF MuxInv, Published
<1> QED BY <1>1, MuxInvariant, PTL

\* The file of a listed segment is there, closed, and holds that segment, unless the one
\* wrap later has been started; for every hls_wrap, also none.
THEOREM MuxNewestIsThere == Spec => []NewestIsThere
<1>1. MuxInv => NewestIsThere
  <2> SUFFICES ASSUME MuxInv, NEW n \in Listed, wrap = 0 \/ n + wrap > sequence
               PROVE  Holds(n)
    BY DEF NewestIsThere, MuxInv
  <2>1. PICK i \in DOMAIN playlist.entries : n = playlist.entries[i]
    BY DEF Listed
  <2>2. /\ i \in 1 .. Len(playlist.entries) /\ playlist.first \in Nat
        /\ playlist.entries # <<>> /\ Len(playlist.entries) \in Nat
    BY <2>1 DEF MuxInv, TypeOK
  <2>3. n = playlist.first + i - 1
    BY <2>1 DEF MuxInv, Published, MediaSequence
  <2>4. n \in start_sequence .. sequence - 1
    BY <2>2, <2>3, NumbersHold DEF MuxInv, Published, Numbers
  <2> QED BY <2>4 DEF MuxInv, Kept
<1> QED BY <1>1, MuxInvariant, PTL

\* Playlists never go back, and nothing is published after an ENDLIST.
THEOREM MuxMovesOn == Spec => MovesOn
<1> DEFINE Moves == /\ playlist.entries # <<>> => playlist'.first >= playlist.first
                    /\ playlist'.first + Len(playlist'.entries)
                         >= playlist.first + Len(playlist.entries)
                    /\ playlist.last => playlist' = playlist
<1>1. MuxInv /\ [Next]_vars => [Moves]_vars
  <2> SUFFICES ASSUME MuxInv, Next PROVE Moves
    OBVIOUS
  <2>1. /\ playlist.first \in Nat /\ Len(playlist.entries) \in Nat /\ Numbers /\ Entries
        /\ playlist.first <= sequence - nb_entries
        /\ playlist.first + Len(playlist.entries) <= sequence
        /\ playlist.last => pc = "gone"
    BY NumbersHold DEF MuxInv, TypeOK, Published
  <2>2. CASE UNCHANGED playlist
    BY <2>1, <2>2
  <2>3. CASE playlist' = [entries |-> segments,
                          first |-> greater(start_sequence, sequence - nb_entries),
                          last |-> playlist'.last] /\ pc # "gone"
    <3>1. playlist'.first = sequence - nb_entries /\ playlist'.entries = segments
      BY <2>1, <2>3 DEF greater, Entries, Numbers
    <3>2. Len(segments) = nb_entries /\ ~playlist.last
      BY <2>1, <2>3 DEF Entries
    <3> QED BY <2>1, <3>1, <3>2 DEF Numbers
  <2>4. CASE Window \/ LastWindow
    BY <2>2, <2>3, <2>4 DEF Window, LastWindow, hls_window
  <2> QED BY <2>2, <2>4 DEF Next, WriteHeader, Split, Start, End, Trailer
<1> QED BY <1>1, MuxInvariant, PTL DEF Spec, MovesOn
=============================================================================
