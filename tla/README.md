# A verification project for ffmpeg-streaming

This directory holds TLA+ models of the programs in this repository: a
single-threaded HTTP server for files, live streams and HLS (`ffserver.c`), a
multi-threaded player (`ffplay2.c`), an HLS muxer and the remuxer that feeds the
server (`hlsenc.c`, `remuxing.c`, `ff_utils.c`), and a control channel
(`stream_buffer.c`).  TLC checks the models on small instances; TLAPS proves theorems
about the packet ring, the live feeds, the bodies that are posted, the HLS slots, the requests for
files, the event loop, the player's queues and pictures, the HLS muxer and the control channel for
every value of their constants.  `PROJECT.json` names, for each definition, the source lines it
models, and lists the runs, the mutants that show each property can fail, the hazards and the
findings.

## 1. Inventory

| Part | State | Operations | What is hard about it | What makes it correct |
|---|---|---|---|---|
| Packet ring of a feed (`ffserver.c` 80-86, 903-1010) | `sff_pkts[N+1]`, `sff_w` in the feeder; `sff_r`, `buffer_ptr` in each player | `sff_write`, `sff_read`, `sff_free` | the feeder never waits; full looks like empty; packets are freed under slow players | order, no empty slot read, a packet stays allocated until N more are stored |
| Live feeds (1033-1050, 1088-1215, 1550-1830, 2214-2287, 2310-2409) | the list of connections, their states, `feed_ctx`, `sff_ref_cnt` | accept, POST, GET, send, receive, `wake_others`, close | links between connections that come and go; freed addresses reused; sleeping and waking | links point at live feeders, counts are exact, no lost wake-up, header first, everything sent before the end |
| Framing of posted bodies (1052-1086, 1088-1215; `ff_utils.c` 89-170) | `c->sff`, `chunk_size`, `data_count` | write a block; resynchronise, receive a block in pieces, undo chunks, see the end | split anywhere by `recv`; sync words in the data; `recv`s whose result nobody looks at | every block or byte that was sent is stored, once; the end is seen |
| HLS slots (71-76, 741-887, 2184-2207) | `s_hls[]`, `s_hls_name`, `hls_idx/rpos/wpos` | POST, GET, write, read, switch channel | slots are global and reused while they are read | a player gets one upload, all of it; completed means complete |
| Requests for files and uploads (332-343, 515-738, 1893-2182, 2252-2306; `plugin_dir.c`) | the fields of `HTTPContext` between requests | parse, answer with a head, a part, chunks, a listing; receive an upload | fields that survive into the next request of a kept connection | the reply is what was asked for and announced |
| Event loop and pool (1328-1687) | poll table, `nb_connections`, timeouts, the control descriptor | fill the table, poll, handle, accept, refuse, time out | entries found again by position; limits; silent peers; a TLS handshake that blocks | every connection has its entry; nobody is left in the backlog; no count beyond the limit |
| Player, any stream (`ffplay2.c` 405-779, 1339-1664, 2391-3317) | packet and frame queues, serials, flags, the SDL event queue, three or four threads | demux, decode, seek, pause, step, loop, cycle, quit | condition variables shared by two waiters, joins, flags without a lock; reading, decoding and reopening that fail | frames in order, nobody waits forever |
| ... its video path (1052-1088, 1339-1664, 1963-2058) | slots that are drawn by another thread | reserve, draw, push, show, drop | draw requests that outlive their frame | right picture in the right slot |
| ... its audio path (1877-1961, 2174-2316) | `audio_buf`, `audio_buf_index` | queue, callback | a pointer into a queue slot, kept across calls | the slot is not reused |
| ... its subtitle path (864-903, 1426-1444, 2060-2104) | `subpq`, which keeps no last frame | wait for a slot, decode into it, give up, display | decoding into a slot of the queue while the main thread reads it | the slot is free until it is pushed |
| HLS muxer (`hlsenc.c`, `remuxing.c` 88-160) | `segments`, `sequence`, `nb_entries`, the files | start a segment, append, publish | readers between two steps; wrapped file names; failing opens | what the playlist lists is there |
| Control channel (`stream_buffer.c`) | `sb_in`, `sb_out`, the static `msg` | pack, move bytes, unpack | TCP delivers pieces; the buffer is limited | messages arrive whole, in order; the parser returns |
| `ff_ts_wrap`, `pes.c`, `plugin_*.c`, `ff_header.c`, `ff_transcoding.c`, `http_client.c`, support code | | | | see section 7 |

How they interact.  A remuxer posts a stream (packets framed by `ff_utils.c`) or
HLS files to the server; the server keeps the packets of a stream in the feeder's
ring and HLS files in its slots; players get them.  Inside the server everything
is a call in one event loop: connections meet only through the ring
(`feed_ctx->sff_pkts`), the slots, and `wake_others`.  Inside the player threads
meet in the queues and the SDL event queue.  `stream_buffer.c` connects the server
to a controlling program.

## 2. Modules

| Module | Models | Notes |
|---|---|---|
| `Sff` | the ring and its two calls, as pure operators | shared by the next ones |
| `LossyFeed` | abstract: what a feed promises | packets in order, none older than the window, a skip only when the window is exceeded |
| `SffRing` | one feeder, its players, the buffers being sent | implements `LossyFeed` |
| `LiveFeeds` | abstract: feeders and players that come and go | one feeder to a stream; a player gets packets of one feeder, in order, and skips only when more than a window is unread; a feeder stays while a player depends on it |
| `FeedServer` | connections that post and play streams | uses `Sff`, implements `LiveFeeds` |
| `FeedServerProofs` | theorems about `FeedServer` | section 6 |
| `PostBody` | one posted body, from the sender's calls to the last `recv` | what `FeedServer`, `HlsServer` and `RequestCycle` abstract from |
| `PostedProofs` | theorems about `SffRing` and about `PostBody` | what becomes of a posted packet, section 6 |
| `HlsRelay` | abstract: uploads and the players that are given them | a player is handed growing parts of one upload, and at the end of its response the rest of one that is over |
| `HlsServer` | the HLS slots and their connections | implements `HlsRelay` where slots are not reused or switched |
| `HlsServerProofs` | theorems about `HlsServer` | section 6 |
| `RequestCycle` | one connection through its requests for files and uploads | |
| `RequestCycleProofs` | theorems about `RequestCycle` | section 6 |
| `ConnectionPool` | a round of `http_server`: the table, all connections, the listening sockets | what a handler leaves behind is any state the other modules lead to |
| `ConnectionPoolProofs` | theorems about `ConnectionPool` | section 6 |
| `HlsMuxerProofs` | theorems about `HlsMuxer` | section 6 |
| `PlayerQueues` | `PacketQueue` and `FrameQueue` as values, one operator per critical section | |
| `PlayerThreads` | `read_thread`, the decoder, `stream_component_close`, the events | extended by the next three |
| `VideoPlayer`, `AudioPlayer`, `SubtitlePlayer` | `video_thread`, drawing and `video_refresh`; `audio_thread` and the audio callback; `subtitle_thread` and the subtitles of `video_refresh` | |
| `Player` | composes them, with the properties of all | |
| `PlayerProofs` | theorems about `Player` | section 6 |
| `HlsMuxer` | `hlsenc.c` as `remuxing.c` drives it | |
| `CtlChannel` | sender, bytes in flight, resumable parser | |
| `CtlChannelProofs` | theorems about `CtlChannel` | section 6 |
| `MC*` | the instances TLC checks | the other modules' constants are given in their configurations |

Correspondence of state and steps:

* **Server modules.**  `ctx[c]` is the memory at address `c` (an `HTTPContext`);
  a closed connection leaves `Freed` there and `Accept` may hand the address out
  again, so dangling pointers are visible.  The states are those of `HTTPState`.
  One action is one call of `handle_connection` (or `new_connection`): the loop
  is single threaded, so a call is atomic.  The loop visits connections in list
  order, the models in any order; since `poll` decides which of them has
  something to do, every order can occur over a few passes.  `SendData(c, TRUE)`
  and `SendData(c, FALSE)` are a `send` that takes all and one that takes a part.
  Where a module has environment switches (`Hangups`, `DuplicatePosts`,
  `EarlyPlayers`; the sets of `Disturbances`: "overlap", "reuse", "switch",
  "hangup") they restrict what peers do, never what the server does.
* **`PostBody`**: one action of the server is one `recv`, so bytes arrive between
  any two; a `recv` that finds nothing leaves its buffer as it was.  A byte of a header
  is marked `glued` to its successor, and with `SplitHeaders = FALSE` the two arrive
  together.  `taken` and `stored` are the calls of `sff_write` and of `hls_write` or
  `write`.
* **`RequestCycle`** counts in blocks; a response head is one block and a file
  is read a block at a time.  The fields of `c` are those that decide what a
  reply looks like, and they survive from request to request as they do in the code.
* **`ConnectionPool`**: a round is `Poll`, one `Handle(c)` for every connection of
  the list, then the second walk over the first entries: control channel, its
  connection, the check for a bad entry, http, https.  `entry[c]` is what
  `c->poll_entry` points at; it is `NULL` between rounds, because the table is filled
  anew.  `ctx[c].left` is `timeout - cur_time`, and a round takes any time.  `pc = "tls"` is
  the loop inside `SSL_accept`, which `new_connection` calls on a socket that blocks still
  (1570; it is made non-blocking at 1577): `Handshake` ends it, with a connection or without
  one, and only the peer decides when.
* **The player**: one action is one critical section or one stretch of code
  between two.  `asleep` names the condition variable a thread waits on; a signal
  to nobody is lost, and one for which two wait wakes either.  A packet carries the
  serial it was queued under.  `gen` is the incarnation of the stream's thread, `held`
  the frames inside the codec, `cb.slot` the slot `audio_buf` points into.  `rd.pc = "wait"` is
  where an I/O error leaves `read_thread` (`ReadError`, 2886): until the user quits it only
  sleeps (`ReadWaitEnd`).  An error without `pb->error` is tried again and changes nothing.
  `CycleOpen` and `CycleNone` are `stream_component_open` that succeeds and that fails or, for
  subtitles, is not asked for a stream (3020): the queue of the closed
  stream stays aborted.  `Codec` may fail on any packet, the null packet too (624).  Timing (is a
  frame early, late?) is a free choice.  `opt` is the play: kind of stream, length,
  options and what the user will do.  In a play of subtitles the video they go with is left
  out: any refresh may have a picture, of any time.
* **`HlsMuxer`**: `files[i]` is the file of index `i`, with the number of the
  segment in it; each `avio_open2` may fail.
* **`CtlChannel`**: byte `k` of message `m` is `<<m, k>>`, so a byte that ends up
  in the wrong place is seen.  A length read where there is none may be any of
  `Garbage`.

## 3. Runs that pass

Every property of these runs has a mutant in `PROJECT.json` that breaks it; the
mutated operators stand in the modules just before the operators they replace.  The
type invariants are conjuncts of one invariant of each run (`RingInv`, `FeedAlive`,
`CompletedIsEnded`, `ReplyWhole`, `TableFits`, `FrameRing`, `NewestIsThere`).

| Run | Instance | Shows |
|---|---|---|
| `SffRing` | N = 3, 2 players, 11 packets, fair | `RingInv` (the inductive invariant of the proofs, from which `NeverNullSlot` follows); `SafeWithinWindow`: the packet a player is sending is allocated exactly until N packets are stored after it, counted from when *it* was stored; `ImplementsFeed`; `CatchesUp`: who is never a ring behind gets everything |
| `FeedServer` | 3 addresses, 5 connections, 2 streams, N = 2; no socket errors of feeders, no second feeders | `ImplementsLiveFeeds`; `FeedAlive`, `RefCountExact`, `NoLostWakeup`; for players that came while the stream was fed `HeaderFirst`, `DrainedAtTrailer` |
| `FeedChurn` | 3 addresses, 4 connections, 1 stream, everything allowed, fair | `NoPhantomPlayers`, `FeederReleased` |
| `HlsServer` | 3 addresses, 3 uploads of 2 or 3 chunks, 2 channels; four environments: quiet, uploaders cut off, slots reused, all disturbances | `ImplementsRelay` (from which `PlayerPrefix` follows) and `CompletedIsEnded`, each in the environments it names; `NoLostWakeup` in all, `WholeUpload` in the quiet one |
| `RequestFiles` | 4 requests: files below, at and above both limits, parts, If-None-Match, 404, listings, DELETE and `sign_apk`, uploads with and without Expect, refused uploads, streams; fair | `ReplyWhole`, `UploadWhole`, `Answered` |
| `PostWhole` | 3 blocks or chunks, payloads that look like sync words, like a CRLF, and one that is too large; feeders, segments and files, chunked, with and without a length; any pieces; fair | `BlocksAsPosted`, `BodyAsPosted`, `EndSeen` |
| `EventLoop` | 2 places, 3 peers, timeout 1; http alone, {control, http, https}, {control, https, SSDP}; any peer of https may leave its handshake unfinished; fair | `TableFits`, `Polled`, `RequestInTime`, `EntriesMatch`; `Accepted`: unless a handshake blocks the loop for ever, every peer is accepted or turned away |
| `Player` | seven plays (`MCPlayer`): a delaying decoder with seek and redisplay; a video cycled and quit; one paused, stepped, sought; a sound looped and paused; a sound sought and cycled; subtitles cycled and paused; subtitles sought; in each, reading, decoding and reopening may fail; frame queue of 2, fair | `FrameRing`, `DrawnAsQueued`, `PacketsCurrent`, `NoLostWakeup`, `AudioBufKept`; `ShownInOrder`: in the file's order, and nothing twice but a picture that is redisplayed (and subtitles, which go with every picture); `KeysServed`, `ExitsAtEnd`, which name the failures that end them |
| `HlsMux` | wrap = list size = 6, as in `remuxing.c`, 18 segments | `NewestIsThere`, `MediaSequence`, `MovesOn` |
| `CtlWhole` | four messages, delivered whole, fair | `DispatchedAsSent`, `ParserReturns` |

**Bounds.**  Every counter that grows is bounded by a constant (`MaxPackets`,
`MaxAccepts`, `MaxUploads`, `MaxChunks`, `MaxBlocks`, `MaxRequests`, `MaxPeers`,
`MaxSequence`), named as a bound where it is declared; a key is pressed once in a
play.  They are large enough for the cases that matter: the ring is lapped three times
(11 packets into 3 slots); more connections than addresses, so addresses are reused;
more peers than places, so some are turned away and some get a freed place; a feeder and
two players at once; more uploads than slots; four requests, so that a field can be set
by one, survive a second and matter in the third; a block too large between two that are
not; 18 segments into 6 files; a user event in every state of the threads.
`CHECK_DEADLOCK FALSE` stands in every configuration because each of these systems stops
when its bounded environment has nothing left to do.

**Symmetry** is used for connections, in runs without liveness only.

**Fairness.**  `SffRing`, `FeedServer`, `RequestCycle`: weak fairness of serving a
connection whose descriptor is ready; the loop visits every connection in every
pass, and a peer that stops reading is outside the property.  Nothing is assumed of
feeders or of new requests.  `PostBody`: what was sent arrives, and the server polls
again; nothing is assumed of the sender.  `ConnectionPool`: weak fairness of the loop (its
`poll` has a timeout of a second), and strong fairness of `Accepting`: an `accept` that fails
leaves its peer in the backlog, is tried in the next round, and succeeds at last.  Nothing is assumed of
peers or of what handlers do, and so `Handshake`, which is the peer's to finish, has no fairness.
`Player`: weak fairness per thread (the operating system schedules it, SDL calls the
callback while the device is open), and strong fairness of `RefreshPick`: whenever a
frame is looked at again and again, its time comes - the clock only moves on.
`CtlChannel`: the parser keeps executing.

## 4. Where the code departs from what it says

Two runs end in a counterexample; each checks one property that quotes the
repository (`findings` in `PROJECT.json` has the quotes):

| Run | What happens |
|---|---|
| `FeedDuplicate` | a second feeder of a stream is accepted: `find_feed` finds the connection that asks, so the answer "file %s has been feeded" is never given |
| `CtlStuck` | when a message arrives in pieces, `ff_ctl_recv` can spin forever with its data incomplete |

The passing properties hold under the conditions their runs state, and not
beyond.  Changing one constant of a configuration shows each of these:

| In the configuration | set | and this fails |
|---|---|---|
| `FeedServer` | `Hangups = TRUE` | `FeedAlive`, `RefCountExact`: a feeder is freed while players point at it (`ffserver.c` 1796) |
| `FeedServer` | `DuplicatePosts = TRUE` | `FeedAlive`, `RefCountExact`: `find_feed` finds a second feeder that is only being sent its refusal (2219) |
| `PostWhole` | `SplitHeaders = TRUE` | `BlocksAsPosted`, `BodyAsPosted`: a block is lost, or a chunk header parsed from its rest (1062, 1120) |
| `CtlWhole` | `Fragments = TRUE` | `DispatchedAsSent`: pieces of the name taken for data (`stream_buffer.c` 338) |
| `CtlWhole` | `msize = 30` | `DispatchedAsSent`: a message is queued in part (384) |

Other properties name their condition themselves, because the code goes wrong
beyond it:

* `HeaderFirst` and `DrainedAtTrailer` leave out players that came before the feeder
  (`wake_others` moves them past the header, or lets them go at the end with packets
  unread).
* `ImplementsRelay`, `WholeUpload` and `CompletedIsEnded` name the environments they hold in:
  a slot posted again under its players mixes two uploads (800), as do two uploads
  into one slot (792), and a broken upload is marked completed (1792).
* `ReplyWhole` says that a GET may be answered 304 because of an *earlier* request: `inm`
  is never cleared, and as an array it is never NULL, so `If-Modified-Since` is not looked
  at (`plugin_dir.c` 132).  The run's requests are `SensibleRequests`, as the proof needs them:
  no HEAD, because `only_header` survives and a GET after it has no body (1910); and no part
  that is larger than the buffer and ends before its file does, because on a connection that is
  not kept nothing stops it at its end: `local_prepare_data` compares `data_count` with
  `total_count` only when `keep_alive` is set (705), so the rest of the file follows, beyond the
  announced length.
* `UploadWhole` is about plain first uploads: the bytes of a 100-continue answer, or of
  replies before, count in `data_count` (1751).  `Answered` leaves out uploads after a
  chunked reply: `tr_encoding` survives, and the plain body is taken for chunks
  (`ReceiveMisread`).
* `EndSeen` is about bodies sent to their end: without the last chunk `recv_chunked` makes
  -1 of the end, and `errno` may be an old `EAGAIN` (1169).
* `Accepted` has a premise: the loop is out of `SSL_accept` again and again.  A peer of the TLS socket
  that connects and stays silent blocks the whole server (1570, `plugin_ssl.c` 59): no
  connection is handled and nobody is accepted.  `RequestInTime` says nothing of that either,
  since time counts from one `poll` to the next.
* `TableFits` compares with the size of the poll table in rounds with one descriptor
  besides the connections; with https, SSDP or a control connection a full pool exceeds
  it (1336).  `EntriesMatch` holds where http is served: with a control channel and https
  alone nothing checks the position (1502).
* `DrawnAsQueued` leaves out plays in which a stream is closed before the end: a draw
  request then outlives its frame, because `SDL_PeepEvents(SDL_ADDEVENT)` does not pop it
  (`ffplay2.c` 1609).
* `ExitsAtEnd` is checked in plays without cycling: a reopened stream gets no second null
  packet, so autoexit never fires (2867).  It leaves out a player left paused, and two failures: after
  an I/O error `read_thread` waits for the user (2886, 2914), `ret` being 0; and a null packet
  that fails to decode clears `packet_pending` without setting `finished` (624), so the end is
  never noticed (`Undrained`).
* `KeysServed` leaves out a seek after an I/O error: `read_thread` does not look at `seek_req` any
  more (2914).  Closing, failed reopening and quitting end also then.
* `NewestIsThere` leaves out the two oldest entries of a playlist, whose files
  `remuxing.c`'s equal `hls_wrap` and `hls_list_size` may already have given to newer
  segments.  After a playlist that could not be written the trailer raises `sequence` without
  starting a file, and the third oldest is left out too.
* `DispatchedAsSent` and `ParserReturns` are about messages that arrive whole and find room in
  the buffer, as in the run `CtlWhole`.

More departures were met while modelling; the modules contain the behaviour, or
leave it out as said, but state no property about it:

* `sff_write` may free a packet a slow player is sending (975); `SafeWithinWindow`
  says exactly when: as soon as N packets are stored after it, which may be the very next
  one if the player was behind when it took the packet.  A player exactly N behind has nothing to read, although
  a packet was just stored (980), and loses N packets; `LossyFeed` allows the skip.
* The byte after an `S` is not looked at as the beginning of a sync word (1140).
* A trailer packet that `send` takes in part ends the response (1782).
* `av_realloc` may move a slot under a partial send (842), and a sleeping HLS player
  may adopt an uploader that is then freed (1040).
* The first playlist request for a new name empties what was just posted (814).
* `local_fd` survives: a stream after a chunked file ends at once (2367).  A part larger
  than the buffer is followed by the rest of the file (725); a small file promised
  keep-alive is followed by a close (1762).
* An upload whose peer closes early is answered 200 (1173).
* A second control connection leaves the descriptor of the first open (1488).
* `read_thread` toggles the pause for a seek without a lock, and may undo the user's
  (2838); with -autoexit `read_thread` and a cycling main thread may close one stream
  twice (2924), which the plays exclude.
* A paused player that is redisplayed draws the first subtitle, even of an older serial: its
  `goto display` passes over the loop that gives them up (1389, 1426).
* A slot's texture keeps the size of the first picture drawn into it (`ffplay2.c`
  1541-1594).

## 5. Properties by hazard

`hazards` in `PROJECT.json` lists what can go wrong at which line and which
property covers it.  A note says where a property stops, and why those without one have
none: in each of them the code does go wrong, and no line of the repository promises
what a run could refute.

## 6. Proofs

`PostedProofs` has two parts.  The first is about the ring and proves, for every `N >= 2`, every
set of players and every length of the stream (`RingAssumption`, `MaxPacketsAssumption`):

* `RingInvariant`: `RingSpec => []RingInv`.  `NeverNullSlot` and `SafeWithinWindow` are
  not inductive: a step of `sff_r` says nothing about the next slot unless one
  knows what every slot holds.  `RingShape` says it: slot `i` holds the newest
  packet whose number is `i` modulo N.  It is written with `written - sff_w` instead
  of a modulus: what a step adds to one it adds to the other, except at the wrap,
  where the offset grows by N.  `ReaderShape` says how far a player's index can be
  from it: its next packet is the one after the last it took, or at least N later.
* `RingTypeOK`, `ReadableSlot` (`NeverNullSlot`), `BufferWindow`
  (`SafeWithinWindow`, in both directions: `RingShape` says which packets the slots hold, so
  a packet older than these is in none) follow from it.
* `RingImplementsFeed`: `RingSpec => Feed!Spec`, the refinement: `Write` publishes,
  `Read` delivers a packet within the window, `Sent` stutters.

The induction has one lemma per action (`WritePreserves`, `ReadPreserves`,
`SentPreserves`); `WriteDataFields` and `NextSlotValue` describe the operators of
`Sff`, so that the case distinction at the wrap is made once.

The second part is about `PostBody`, for any number of blocks or chunks, any payloads, every base and
size field, every buffer and every way the bytes are cut up (`PostAssumption`), except that the
header of a block or chunk arrives in one piece (`~SplitHeaders`; section 4 says what happens
otherwise):

* `PostedBodyStored` (`BodyAsPosted`) and `PostTypeCorrect`, from `PostInv`.  `OnWire` says that
  what has not been read is the end of what was sent, all messages one after the other: there is a
  message `k` and a byte `j` of it such that byte `j + 1` of `k` comes next (`At`).  `UploadInv` says
  that the reader agrees with that place.  In a chunk, what is stored ends at that byte and
  `chunk_size` is what is left of it (`InPart`).  In a header, `head` holds its bytes up to there
  (`InHead`); `j` may be -2 or -1, since `recv_chunked` reads the CRLF that ends a chunk as the
  beginning of the next header.  A body without chunks is what is stored and then what is on the wire
  (`PlainReader`).
* `PostedBlocksTaken` (`BlocksAsPosted`), from `PostInv` and `FeedInv`: at that place the reader
  looks for a sync word (`Seeking`), is in one (`InWord`) or in the data (`InData`), and has taken all
  blocks before `k` which are not too large.  It needs two assumptions more.  `FeedSizes`: the size of
  a block fits into its field (four bytes, for a frame whose size is an `int`).
  `NoSyncInLarge`: a block that is too large to be taken holds no `S`, because the search goes on in
  its data, and the byte after an `S` is not looked at as the beginning of a sync word
  (1140).

What was posted is a concatenation, and what a size or a chunk header says is a sum over digits:
both are defined by recursion.  The library's induction theorem takes an operator, which no prover here
can instantiate, so the module has its own: a *set* of numbers that holds 0 and with `n`
also `n + 1` holds all (`SetInduction`, from the least element that well-foundedness gives), and a step
that is a *function* has a recursive function (`Recursion`), of which there is only one
(`Agreement`).  From these follow what `FlattenSeq` computes (`FlattenIs`), where byte `x` of message
`k` stands in all of them (`JoinedAt`), that a size is read as it was written
(`DigitsValue`), and that `%x` writes enough digits for its number (`WidthFits`).

`FeedServerProofs` proves, for every finite set of addresses, every set of streams, every
length of a stream and every `N` (`RingAssumption`, `FeedAssumption`):

* `FeedLinks`: `Spec => []LinkInv`, whatever the environment does: the types, the list, who
  can have a feed (`Linked`), and that no count exceeds the number of players that point at
  the connection (`AtMost`).  An address that is freed and given to another connection
  starts again from 0, and a player that leaves takes its count from whatever lives at its
  `feed_ctx` now, so the exact count is lost while the bound is kept.
  `FeedNoPhantomPlayers` follows.
* `FeedQuiet`: `Spec => []QuietInv` with `~Hangups` and `~DuplicatePosts` as assumptions.
  Then a connection posts exactly while it is fed (`Posting`), a player's feed is a
  feeder of its url (`Alive`), counts are exact (`Exact`), and for each player `Unheaded`
  and `Unread` say where it stands towards its feeder: on its way to the header, or
  asleep with nothing to read.  `FeedFeedAlive`, `FeedRefCountExact`, `FeedHeaderFirst` and
  `FeedNoLostWakeup` follow.  The table in section 4 shows that the first two need both
  assumptions; the other two TLC finds true without either, on the instance of the run.

The lemmas first describe what a call leaves in memory (`CloseOutcome`, `WakeOutcome`,
`SendOutcome`, `PacketOutcome`, ...), with the change of the cardinalities, and then use
that description for both invariants; `PlayerStep`, `WokeStep` and `EndCloses` are the three
ways the second one is kept.

* `FeedDrained`: `DrainedAtTrailer`, an action property, in the same environment.  It needs the
  contents of the ring: `DrainInv` says of every feeder what `RingShape` says of one (which packet
  each slot holds), and of every player that its next packet is the one after the last it was
  sent, or that it has fallen a ring behind.  The end of the feed moves sleepers only, and those
  have nothing to read (`Unread`): with `DrainInv`, they have been sent everything.
* `FeedImplementsLiveFeeds`: `Spec => LiveFeed!Spec`, with `~Hangups` and `~DuplicatePosts`.  An
  accept is `Arrive`, a POST `Start`, a GET `Ask`; a packet or the end of a feed is `Feed`, with the
  players that `wake_others` links; handing a data packet to a player is `Deliver`, closing `Leave`;
  sending a header, the rest of a packet, or nothing stutters.  That a packet is skipped only when
  more than N are unread comes from `DrainInv`: the number of packets a player has not been given is
  the distance of the two indices, or one lap more, or at least two (`Laps`).  Without a lap more
  `sff_read` finds the packet that comes next, and with a lap or two more than N are unread.
  That a stream has one feeder, and a player one of its own stream, comes from `QuietInv`;
  `Nameless` says that a connection has no url before its request.

`HlsServerProofs` proves, for every set of addresses, segments and channels, every number of
uploads and chunks and every `SEG_INC_SIZE` (`HlsAssumption`):

* `HlsInv` in every environment: the types, what a context says in each state (`Roles`), and
  that a slot's data fits its memory, which grows by whole increments (`Room`), together with
  `NoLostWakeup`, which is inductive with them: `HlsNoLostWakeup`.
* `Owned` where no two uploads and no switch meet in a slot: it has one uploader, holds the
  chunks that one has received, in order, and no two slots hold the same upload.
  `HlsCompletedIsEnded` follows, for any environment of which the property speaks.
* `Partway` where slots are not posted again while they are read: a player has been handed as
  many chunks as its position says, and they begin its slot's upload.  `HlsPlayerPrefix`
  follows; an upload that is cut short does not disturb it.
* `Told` in the same environments: until the slot is completed, the feed of a player is the
  uploader of that slot, so only the end of *this* upload puts a player into
  `SEND_DATA_TRAILER`, where it is closed after what it is sent next.  `HlsWholeUpload`, an
  action property, needs these four.
* `Marked` where no two uploads and no switch meet in a slot: an empty slot has had no upload, and one
  that is marked as being written has an uploader.
* `HlsImplementsRelay`: `Spec => ImplementsRelay`, and so `Relay!Spec` in every run of an environment in
  which slots are neither posted nor switched while they are in use, also with uploaders cut off.  A POST is `Begin`, a chunk `Extend`, the end of an upload
  or its hang-up `End`, a GET `Ask`; what a player is sent is `Hand`, with or
  without the end of its response, and closing is `Leave`.  All five are needed: `Owned` for the chunks
  of a slot, `Partway` for what has been handed, `Told` for the end, `Marked` for a POST finding the
  slot unused.

The lemmas first say what each operation does (`OwnStep`, `PostStep`, `GetStep`, `ChunkStep`,
`EndStep`: five cases for ten actions), `WakeShape` what `wake_others` does to another
connection, and `WriteShape` what `hls_write` does to the memory; then each of the five
invariants has one lemma for each case.

`ConnectionPoolProofs` proves, for all limits with `nb_max_connections <=
nb_max_http_connections`, every timeout, every set of addresses and every set of
builds (`PoolAssumption`):

* `PoolInvariant`: `Spec => []PoolInv`.  What the properties say between two polls depends
  on where in the round the loop is, so the invariant speaks of every step of it.
  `Listed` and `Counted` tie the list, the contexts and `nb_connections` together.
  `Visited` splits the list: what has been handled in this round is in time, what has not
  has an entry; a connection that is closed or woken before its turn stays on its side.
  `Turns` says how the position and the table of the round are related, although
  `ctl_msg_open` changes `ctrl_fd2`, from which the table was filled, in between: the
  table is that of *some* descriptor.
* `PoolTableFits`, `PoolPolled`, `PoolRequestInTime` follow from it; `PoolEntriesMatch` is
  about steps, and needs besides that in any table with http and https the one follows
  the other (`TableShape`), since the code checks the position only once.

`HandleOutcome` and `AcceptOutcome` say what any handler and any accept leave behind, and
the lemmas of the actions (`PollPreserves` to `HttpsPreserves`) rest on these two.

`HlsMuxerProofs` proves, for every `hls_wrap` (also 0), every `hls_list_size`, first
number and length of the input (the assumption of `HlsMuxer`):

* `MuxInvariant`: `Spec => []MuxInv`.  `Entries` says that the list holds consecutive
  numbers below `sequence`, with room for the segment that is open; `Published` relates
  the playlist on disk to the list it was written from; `Kept` says of every
  segment the list or the playlist still names that its file is closed and its own.
* `MuxMediaSequence`, `MuxNewestIsThere` follow from it; `MuxMovesOn` is the action
  property, from `Published` before the step.

What a wrap can do to the files rests on `IndexDiffers`: two numbers less than `hls_wrap`
apart have different names, so a segment that is started takes the file of no segment
which is newer than one wrap.

`PlayerProofs` proves, for every `max_size` of the frame queue, every length of the file,
every delay of the decoder, every `-loop` and every set of keys (`QueueAssumption`,
`PlayerAssumption`):

* `PlayerQueueInv`: `Spec => []QueueInv`.  `FrameRing` says that the slot a thread works in is
  free, but not that it was found free: subtitle_thread holds its slot through any number of
  packets, so `Ring` says it from the moment it is reserved.  `Kinds` says what a play of one
  kind does not do, since `frame_queue_next` means something else without a last frame.
  `Serials` adds to `PacketsCurrent` that nothing but flush packets waits between the two
  steps of a seek, and that an aborted queue takes nothing until the stream is reopened.
  `PlayerFrameRing` and `PlayerPacketsCurrent` follow.
* `PlayerAudioBufKept`, from `AudioInv`: the ring keeps the slot at `rindex` while
  `rindex_shown` is 1, and a frame that is pushed goes into another.
* `PlayerNoLostWakeup`, with `MaxSize > 1` as assumption (the code's queues have 3, 16 and
  9 places): `Places` says where a thread can be asleep, and `Joined` that nobody is when a
  stream is reopened.  A full queue has a frame besides the one it keeps, so
  audio_thread and the callback never sleep at once, and the one signal of a close or of
  `frame_queue_next` reaches whoever does (`OneSleeper`, `SignalFrames`).  With a queue of
  one both could sleep forever.
* `PlayerDrawnAsQueued`: `Spec => []DrawnAsQueued`.  A draw request outlives its frame only when a
  queue is aborted under video_thread.  In a play that is not cycled only read_thread closes the
  stream, and while the user has not quit it does so by itself only when `dec.finished` equals
  the serial of the queue.  `Finished` says that the decoder then holds no frame, `Nulls` that
  nothing but null packets follows the null packet of a serial, so none is decoded any more;
  `Numbers` that `finished` is never ahead.  Then `Requested`: the event queue holds at most
  one request, for the frame video_thread waits for; and `Drawn`: what is drawn into the slot at
  `windex`, and into every slot that is queued.  `DrawInv` is their conjunction.
* `PlayerShownInOrder`: `Spec => ShownInOrder`, for every play of every kind, cycled or not.  A
  frame shown was a packet queued long before, so `OrderInv` is about all that is on its way: the
  frame last shown, those queued, the one decoded last, those inside the codec, the packet taken
  and those in the packet queue stand in one line (`InLine`), each later than those behind it,
  and so within each of these stages (`FramesUp`, `HeldUp`, `SentUp`).  `Behind` says that
  none is later than what read_thread has read under the newest serial, so that the packet it
  queues next goes to the end of the line; it says nothing of `rd.pos` once the queue is aborted.
  A frame takes the decoder's serial when it leaves the codec and not the one its packet had:
  `RestartInv` says that these are the same, because a packet is taken only after the flush packet
  of its serial, which empties the codec (`Flushed`, `Ascending`), and because a packet that is
  decoded a second time is a null packet (`Pending`); `Streamless` that nothing is queued for a
  stream that is given up.  That nothing comes twice needs `Unseen`: the first
  frame of the queue is later than the one shown last while `rindex_shown` is 0, unless it is
  to be displayed again, and so is the frame the callback has taken.  Lemmas `LineKept` to `LineRead` say how the line may move; every
  action is one of them.

Each lemma is about one action, or about those that touch the same queue; `ReaderMoves`,
`DecoderMoves`, `MainMoves`, `CallbackMoves`, `FrameMoves` and `StillAsleep` say what a step
that leaves the rest alone keeps.

`RequestCycleProofs` proves, for every set of requests, any number of them, and every size of
file, buffer and chunk limit with `ChunkedMin <= FileBuf` (8 KB and 2 MB in the code):

* `ReplyComplete`: `Spec => []ReplyWhole`, with `SensibleRequests` as assumption (section 4 says
  what happens beyond it).  `total_count` and `data_count` are never reset between the requests
  of a connection, so a later reply could be cut short where an earlier one ended.  `Uncounted`
  says why it is not: a reply sets `total_count` only on a connection that is not kept, which has
  no later reply.  `Answer` follows one reply from its head, whose body may hold all of a
  small file, to its end.
* `UploadStored`: `Spec => []UploadWhole`, for any requests, from `UploadInv`: in a plain first
  upload `data_count` is what has been stored.

`CtlChannelProofs` proves, for every sequence of messages, every size of the buffers and every
reading of a field that is none:

* `ChannelDispatches`: with `~Fragments`, `Spec /\ [][Roomy]_vars => []DispatchedAsSent`, where
  `Roomy` says that every message finds room in `sb_out`.  Section 4's table shows that both
  conditions are needed.  `ChannelInv` says that `sb_in` and then `sb_out` hold the messages one
  after the other, each byte at its place, and that `sb_in` ends where a message does; then the
  parser stands, at each of its labels, at a known place of one message and finds its rest.

Only model-checked:

* All liveness (`CatchesUp`, `FeederReleased`, `Answered`, `EndSeen`, `Accepted`, `KeysServed`,
  `ExitsAtEnd`, `ParserReturns`), which is beyond the provers used.

## 7. What is not modelled

* Inside the modelled parts: url decoding, mime types, the contents of directory
  listings, gzip; filters, textures, attached pictures, resampling, the synchronisation
  of clocks and the pause of a network protocol in the player, and the video that goes with
  subtitles; `single_file` and
  `delete_segments` of the muxer; compaction of `sb_in`, which is taken as large enough;
  the 32 bytes a chunk header may have.
* `ff_ts_wrap` and the bitstream filters of `ff_utils.c` have no caller in the
  repository: nothing says what they are given.  `ff_header.c`, `ff_transcoding.c`:
  set-up of libav*.  `pes.c`: a parser of one buffer at a time.
* `plugin_ssl.c`, `plugin_zlib.c`, `plugin_ssdp.c`, `plugin_dvb.c`: wrappers without
  protocol state.  `http_client.c`: a test program.  `avstring.c`, `compact.c`,
  `time_log.h`: support.

## 8. Plan

Done, in this order: ring and its proofs; feeds; HLS slots; requests; player; muxer;
control channel; framing; event loop and pool with its proofs; the audio path, pause, step
and loop; the proofs of the muxer and of the live feeds; the subtitle path and the proofs about
the player and the HLS slots; the proofs about requests and the control channel, the end of a
live feed, and the pictures of the player and their order; the abstract specifications of the live
feeds and of the HLS slots, with the proofs that the server implements them; the proofs about
posted bodies.  Next, where it would pay:

* A theorem about `PostBody` with headers in pieces, once `http_receive_data` keeps a partial header:
  the places of `OnWire` are ready for it.
* `EarlyPlayers` in `HeaderFirst` and `DrainedAtTrailer`, once `wake_others` leaves a player at the
  header.
