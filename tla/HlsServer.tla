----------------------------- MODULE HlsServer -----------------------------
(***************************************************************************)
(* The HLS side of src/ffserver.c: playlists and segments ("*.m3u8" and    *)
(* "*.ts" urls outside stream/) are posted into the global slots s_hls and *)
(* got from them while the upload is still running.  The slot of a segment *)
(* is the last digit of its name and every playlist shares slot S, so      *)
(* uploads that follow one another reuse slots, and all channels share     *)
(* them; s_hls_name remembers the channel being played.                    *)
(*                                                                         *)
(* The content of an upload is a sequence of chunks <<u, k>>: the k-th     *)
(* piece that recv returned for upload number u.  Where av_realloc puts    *)
(* the growing data is left out.                                           *)
(***************************************************************************)
EXTENDS Integers, Sequences, FiniteSets, SequencesExt

CONSTANTS Conns,        \* addresses of HTTPContexts
          Segments,     \* slots of segments; slot S is the playlist
          S,
          Channels,     \* base names of playlists and segments
          NULL,
          SegInc,       \* SEG_INC_SIZE, in chunks
          MaxChunks,    \* bound, per environment: chunks of one upload
          MaxUploads,   \* bound: uploads started
          MaxAccepts,   \* bound, per environment: connections ever accepted
          Disturbances  \* environments to check: each a set of what may happen in it

ASSUME HlsAssumption ==
  /\ S \notin Segments /\ NULL \notin Conns \cup Channels \cup Segments \cup {S}
  /\ SegInc \in Nat \ {0}
  /\ MaxUploads \in Nat /\ {MaxAccepts, MaxChunks} \subseteq [Disturbances -> Nat]
  /\ Disturbances \subseteq SUBSET {"overlap", "reuse", "switch", "hangup"}

VARIABLES env,       \* "overlap": a slot may be posted while it is being written,
                     \* "reuse": while it is being read; "switch": a player may switch
                     \* channels while slots are in use; "hangup": an uploader's
                     \* socket may report an error
          slot,      \* s_hls
          name,      \* s_hls_name
          ctx,       \* the memory of each address
          accepted,  \* connections accepted so far
          uploads,   \* uploads started so far
          ended,     \* per upload, its length once its peer has ended it, before -1
          got        \* per player, the chunks handed to its socket

vars == <<env, slot, name, ctx, accepted, uploads, ended, got>>

HlsSlots == Segments \cup {S}
Sending == {"SEND_DATA_HEADER", "SEND_DATA", "SEND_DATA_TRAILER"}
States == Sending \cup {"WAIT_REQUEST", "SEND_HEADER", "RECEIVE_DATA", "WAIT_FEED"}

Freed == [state |-> "FREE", post |-> FALSE, chan |-> NULL, hls_idx |-> NULL,
          hls_rpos |-> 0, hls_wpos |-> 0, feed_ctx |-> NULL, upload |-> 0, buffer |-> FALSE]

Init == /\ env \in Disturbances
        /\ slot = [i \in HlsSlots |-> [data |-> <<>>, msize |-> 0, flag |-> 0, upload |-> 0]]
        /\ name = NULL
        /\ ctx = [c \in Conns |-> Freed]
        /\ accepted = 0
        /\ uploads = 0
        /\ ended = [u \in 1 .. MaxUploads |-> -1]
        /\ got = [c \in Conns |-> <<>>]

Live == {c \in Conns : ctx[c].state # "FREE"}
Uploading(i) == {c \in Conns : ctx[c].state = "RECEIVE_DATA" /\ ctx[c].hls_idx = i}
Playing(i) == {c \in Live : ~ctx[c].post /\ ctx[c].hls_idx = i}
csize(s) == Len(s.data)

-----------------------------------------------------------------------------
(* Calls shared by the handlers. *)

\* hls_close: every slot becomes empty and idle; its memory is kept.
hls_close == [i \in HlsSlots |-> [slot[i] EXCEPT !.data = <<>>, !.flag = 0]]

\* hls_write of one chunk: av_realloc when it does not fit.
hls_write(s, chunk) ==
  LET inc == (csize(s) + 1 - s.msize + SegInc) \div SegInc
  IN [s EXCEPT !.data = Append(@, chunk),
               !.msize = IF csize(s) + 1 > @ THEN @ + inc * SegInc ELSE @]

\* Mutant: the players of the slot are found by their feed alone.
wake_others_feed(m, c, to) ==
  [d \in Conns |-> IF m[d].state = "WAIT_FEED" /\ m[d].feed_ctx = c
                   THEN [m[d] EXCEPT !.state = to] ELSE m[d]]

\* wake_others(c, to): sleeping players that wait for the same url adopt the
\* uploader as their feed; those of the same slot move, whatever their url.
wake_others(m, c, to) ==
  LET waiting == {d \in Conns : m[d].state = "WAIT_FEED"}
      adopted == {d \in waiting : /\ m[d].feed_ctx = NULL /\ ~m[d].post
                                  /\ m[d].chan = m[c].chan
                                  /\ m[d].hls_idx = m[c].hls_idx}
  IN [d \in Conns |->
        IF d \notin waiting THEN m[d]
        ELSE [m[d] EXCEPT
                !.feed_ctx = IF d \in adopted THEN c ELSE @,
                !.state = IF \/ d \in adopted \/ m[d].feed_ctx = c
                             \/ m[d].hls_idx = m[c].hls_idx THEN to ELSE @]]

Close(m, c) == ctx' = [m EXCEPT ![c] = Freed]

-----------------------------------------------------------------------------
(* new_connection *)
Accept == \E c \in Conns \ Live :
  /\ accepted < MaxAccepts[env]
  /\ accepted' = accepted + 1
  /\ ctx' = [ctx EXCEPT ![c].state = "WAIT_REQUEST"]
  /\ got' = [got EXCEPT ![c] = <<>>]
  /\ UNCHANGED <<env, slot, name, uploads, ended>>

\* hls_parse_request, the slot s is claimed for upload u.  Mutant: the data of the
\* upload before is kept.
claim_keeping(s, u) == [s EXCEPT !.flag = 1, !.upload = u, !.msize = IF @ = 0 THEN SegInc ELSE @]
claim(s, u) == [s EXCEPT !.data = <<>>, !.flag = 1, !.upload = u,
                         !.msize = IF @ = 0 THEN SegInc ELSE @]

\* http_parse_request and hls_parse_request, a POST: the slot is claimed and
\* emptied, whoever writes or reads it.
Post(c, chan, i) ==
  /\ ctx[c].state = "WAIT_REQUEST"
  /\ uploads < MaxUploads
  /\ "overlap" \in env \/ Uploading(i) = {}
  /\ "reuse" \in env \/ Playing(i) = {} \/ slot[i].flag = 0
  /\ uploads' = uploads + 1
  /\ slot' = [slot EXCEPT ![i] = claim(@, uploads + 1)]
  /\ ctx' = [ctx EXCEPT ![c].state = "RECEIVE_DATA", ![c].post = TRUE,
                        ![c].chan = chan, ![c].hls_idx = i,
                        ![c].upload = uploads + 1]
  /\ UNCHANGED <<env, name, accepted, ended, got>>

\* http_parse_request and hls_parse_request, a GET.  The first playlist request
\* of a client for a channel other than s_hls_name switches channels.
Get(c, chan, i, is_first) ==
  LET switch == is_first /\ i = S /\ chan # name
  IN /\ ctx[c].state = "WAIT_REQUEST"
     /\ switch => "switch" \in env \/ \A j \in HlsSlots : slot[j].flag = 0
     /\ slot' = IF switch THEN hls_close ELSE slot
     /\ name' = IF switch THEN chan ELSE name
     /\ ctx' = [ctx EXCEPT ![c].state = "SEND_HEADER", ![c].chan = chan,
                           ![c].hls_idx = i, ![c].hls_rpos = 0]
     /\ UNCHANGED <<env, accepted, uploads, ended, got>>

\* SEND_HEADER once send() has taken the whole response header.
SendHeader(c) ==
  /\ ctx[c].state = "SEND_HEADER"
  /\ ctx' = [ctx EXCEPT ![c].state = "SEND_DATA_HEADER"]
  /\ UNCHANGED <<env, slot, name, accepted, uploads, ended, got>>

\* hls_read: the end of a slot's data is the end of the reply.  Mutant: always.
completed_always(s) == csize(s) >= 0
completed(s) == s.flag = 2

\* The part of the slot that is still to be sent.  Mutant: hls_rpos is not used.
unsent_all(c) == slot[ctx[c].hls_idx].data
unsent(c) == SubSeq(slot[ctx[c].hls_idx].data, ctx[c].hls_rpos + 1,
                    csize(slot[ctx[c].hls_idx]))

\* http_send_data with an empty buffer: hls_read, then one send() of all or of
\* a part of what it found.  A connection in SEND_DATA_TRAILER is closed
\* whatever was sent.
SendData(c, all) ==
  LET s == slot[ctx[c].hls_idx]
      left == csize(s) - ctx[c].hls_rpos
  IN /\ ctx[c].state \in Sending
     /\ ~ctx[c].buffer
     /\ \/ /\ left <= 0
           /\ completed(s)
           /\ Close(ctx, c)
           /\ UNCHANGED got
        \/ /\ left <= 0
           /\ ~completed(s)
           /\ ctx' = [ctx EXCEPT ![c].state = "WAIT_FEED"]
           /\ UNCHANGED got
        \/ /\ left > 0
           /\ got' = [got EXCEPT ![c] = @ \o unsent(c)]
           /\ IF ctx[c].state = "SEND_DATA_TRAILER" THEN Close(ctx, c)
              ELSE ctx' = [ctx EXCEPT ![c].hls_rpos = csize(s),
                                      ![c].buffer = ~all]
     /\ UNCHANGED <<env, slot, name, accepted, uploads, ended>>

\* http_send_data: send() takes the rest of the buffer.
SendRest(c) ==
  /\ ctx[c].state \in Sending
  /\ ctx[c].buffer
  /\ ctx' = [ctx EXCEPT ![c].buffer = FALSE]
  /\ UNCHANGED <<env, slot, name, accepted, uploads, ended, got>>

\* Errors and timeouts outside RECEIVE_DATA; in WAIT_FEED any input.
Drop(c) ==
  /\ ctx[c].state \in States \ {"RECEIVE_DATA"}
  /\ Close(ctx, c)
  /\ UNCHANGED <<env, slot, name, accepted, uploads, ended, got>>

\* http_receive_data: a piece of the upload has arrived.
ReceiveChunk(c) ==
  LET i == ctx[c].hls_idx
      k == ctx[c].hls_wpos + 1
  IN /\ ctx[c].state = "RECEIVE_DATA"
     /\ k <= MaxChunks[env]
     /\ slot' = [slot EXCEPT ![i] = hls_write(@, <<ctx[c].upload, k>>)]
     /\ ctx' = wake_others([ctx EXCEPT ![c].hls_wpos = k], c, "SEND_DATA")
     /\ UNCHANGED <<env, name, accepted, uploads, ended, got>>

\* The upload is over: the slot is marked completed, sleeping players are told
\* and the connection is closed, whoever adopted it as its feed.
EndUpload(c) ==
  /\ ctx[c].state = "RECEIVE_DATA"
  /\ slot' = [slot EXCEPT ![ctx[c].hls_idx].flag = 2]
  /\ Close(wake_others(ctx, c, "SEND_DATA_TRAILER"), c)
  /\ UNCHANGED <<env, name, accepted, uploads, got>>

\* http_receive_data meets the end of the peer's data.
ReceiveEnd(c) == /\ EndUpload(c)
                 /\ ended' = [ended EXCEPT ![ctx[c].upload] = ctx[c].hls_wpos]

\* POLLERR or POLLHUP in RECEIVE_DATA: the same, though the upload is cut short.
HangUp(c) == "hangup" \in env /\ EndUpload(c) /\ UNCHANGED ended

Serve(c) == SendHeader(c) \/ SendRest(c) \/ SendData(c, TRUE)

Next == \/ Accept
        \/ \E c \in Conns :
             \/ \E chan \in Channels, i \in HlsSlots :
                  \/ Post(c, chan, i)
                  \/ \E is_first \in BOOLEAN : Get(c, chan, i, is_first)
             \/ Serve(c) \/ SendData(c, FALSE) \/ Drop(c)
             \/ ReceiveChunk(c) \/ ReceiveEnd(c) \/ HangUp(c)

Spec == Init /\ [][Next]_vars

-----------------------------------------------------------------------------
(* Properties *)

\* The types of the slots and connections; a slot's data fits its memory.
TypeOK ==
  /\ \A i \in HlsSlots :
       /\ slot[i].flag \in 0 .. 2 /\ csize(slot[i]) <= slot[i].msize
       /\ slot[i].msize % SegInc = 0
       /\ slot[i].upload \in 0 .. uploads
  /\ name \in Channels \cup {NULL}
  /\ \A c \in Conns :
       /\ ctx[c].state \in States \cup {"FREE"}
       /\ ctx[c].hls_idx \in HlsSlots \cup {NULL}
       /\ ctx[c].feed_ctx \in Conns \cup {NULL}
       /\ ctx[c].hls_wpos \in 0 .. MaxChunks[env]
  /\ accepted \in 0 .. MaxAccepts[env] /\ uploads \in 0 .. MaxUploads

Upload(u, n) == [k \in 1 .. n |-> <<u, k>>]

\* No two uploads and no switch of the channel meet in a slot that is in use; uploads may be
\* cut short.
Steady == env \subseteq {"hangup"}

\* Readme.txt: "when partial data of a segment ts flow in server, the server put
\* it to guest" - what a player has been handed is at all times the beginning of
\* one upload, never the bytes of two, even where uploads are cut short.
PlayerPrefix ==
  Steady => \A c \in Live : \E u \in 0 .. uploads : got[c] = Upload(u, Len(got[c]))

\* When the server ends a player's response, the player has been handed the
\* whole of an upload that the uploader has finished.
WholeUpload ==
  [][\A c \in Conns : env = {} /\ SendData(c, TRUE) /\ ctx'[c].state = "FREE" =>
       \E u \in 1 .. uploads : ended[u] >= 0 /\ got'[c] = Upload(u, ended[u])]_vars

\* ffserver.c, type HLS: "flag; /*1 -- writting, 2 -- completed*/" - a slot is
\* marked completed only when the upload that owns it has ended, and holds it, also
\* where slots are posted again while they are read.
CompletedIsEnded ==
  /\ TypeOK
  /\ env \subseteq {"reuse"} =>
       \A i \in HlsSlots : slot[i].flag = 2 =>
         LET u == slot[i].upload IN ended[u] >= 0 /\ slot[i].data = Upload(u, ended[u])

\* However uploads, switches and hang-ups interleave, a player never sleeps over
\* data it could be sent, nor on a slot that is completed: whoever completes or
\* extends a slot wakes it.
NoLostWakeup ==
  \A c \in Live : ctx[c].state = "WAIT_FEED" =>
    /\ csize(slot[ctx[c].hls_idx]) <= ctx[c].hls_rpos
    /\ slot[ctx[c].hls_idx].flag # 2

\* Where slots are not posted or switched while they are in use, their data, positions,
\* feeds and wake-ups keep the promise of HlsRelay, also when uploads are cut short: there
\* this is Relay!Spec.  PlayerPrefix follows.
Relay == INSTANCE HlsRelay WITH
  Places <- HlsSlots, Players <- Conns, None <- NULL,
  begun <- uploads,
  current <- [i \in HlsSlots |-> slot[i].upload],
  length <- [i \in HlsSlots |-> csize(slot[i])],
  over <- [i \in HlsSlots |-> slot[i].flag = 2],
  asked <- [c \in Conns |-> IF ctx[c].state \in Sending \cup {"SEND_HEADER", "WAIT_FEED"}
                            THEN ctx[c].hls_idx ELSE NULL],
  handed <- got
ImplementsRelay == /\ Steady => Relay!Init
                   /\ [][Steady => [Relay!Next]_(Relay!rvars)]_vars
=============================================================================
