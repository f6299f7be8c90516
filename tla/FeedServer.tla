----------------------------- MODULE FeedServer -----------------------------
(***************************************************************************)
(* The live-stream side of src/ffserver.c: connections that post a stream  *)
(* ("stream/..." urls), connections that play it, and the links between    *)
(* them.  A player points at its feeder with feed_ctx, the feeder counts   *)
(* its players in sff_ref_cnt, and wake_others moves sleeping players.     *)
(*                                                                         *)
(* A connection is an HTTPContext, identified by its address: the          *)
(* allocator may hand the address of a closed connection to the next one,  *)
(* so a feed_ctx that outlives its feeder points at whatever lives there   *)
(* now.  The memory of a closed connection reads as the empty ring that    *)
(* sff_reset left in it.                                                   *)
(*                                                                         *)
(* One action is one call of handle_connection (or the accept): the event  *)
(* loop is single threaded.  The loop visits connections in list order;    *)
(* here they are visited in any order, since poll reports each of them     *)
(* when its peer pleases.                                                  *)
(***************************************************************************)
EXTENDS Sff, Sequences, FiniteSets, SequencesExt

CONSTANTS Conns,          \* addresses of HTTPContexts
          Urls,           \* names of streams
          MaxPackets,     \* bound: data packets one feeder sends
          MaxAccepts,     \* bound: connections ever accepted
          Hangups,        \* environment: a feeder's socket may report an error
          DuplicatePosts, \* environment: a stream may be posted while it is being fed
          EarlyPlayers    \* environment: a stream may be requested before it is fed

\* What a feeder sends: its stream header, then numbered packets.
HeaderPackets == [kind : {"header"}, n : {0}]
DataPackets   == [kind : {"data", "trailer"}, n : 1 .. MaxPackets]
Packets       == HeaderPackets \cup DataPackets

ASSUME FeedAssumption == /\ MaxPackets \in Nat /\ MaxAccepts \in Nat
                         /\ IsFiniteSet(Conns)
                         /\ NULL \notin Conns /\ NULL \notin Urls /\ NULL \notin Packets
                         /\ {Hangups, DuplicatePosts, EarlyPlayers} \subseteq BOOLEAN

VARIABLES list,      \* first_http_ctx and its next links: newest connection first
          ctx,       \* the memory of each address
          accepted,  \* connections accepted so far
          sent,      \* per feeder, packets its peer has sent: header, data, trailer
          ended,     \* per feeder, whether its peer has closed its side
          played     \* per player, what its peer has been sent, and whether it
                     \* came before its feeder

vars == <<list, ctx, accepted, sent, ended, played>>

Sending == {"SEND_DATA_HEADER", "SEND_DATA", "SEND_DATA_TRAILER"}
States == Sending \cup {"WAIT_REQUEST", "SEND_HEADER", "RECEIVE_DATA", "WAIT_FEED"}

\* What sff_reset and av_free leave behind, and what av_mallocz starts with.
Freed == [state |-> "FREE", post |-> FALSE, url |-> NULL, error |-> FALSE,
          feed_ctx |-> NULL, sff_ref_cnt |-> 0, sff |-> NewRing, sff_r |-> 0,
          buffer |-> NULL]
Fresh == [Freed EXCEPT !.state = "WAIT_REQUEST"]

Packet(kind, n) == [kind |-> kind, n |-> n]
Nothing == [early |-> FALSE, header |-> FALSE, last |-> 0]

Init == /\ list = <<>>
        /\ ctx = [c \in Conns |-> Freed]
        /\ accepted = 0
        /\ sent = [c \in Conns |-> 0]
        /\ ended = [c \in Conns |-> FALSE]
        /\ played = [c \in Conns |-> Nothing]

-----------------------------------------------------------------------------
(* Calls shared by the handlers; each maps the memory m to a new one. *)

\* find_feed: the first connection of the list that posts this url, in
\* whatever state it is.
find_feed(m, url) ==
  LET posting == {i \in DOMAIN list : m[list[i]].post /\ m[list[i]].url = url}
  IN IF posting = {} THEN NULL ELSE list[Min(posting)]

\* Mutants: only players without a feed are woken; players are told in any state.
wake_others_new(m, c, to) ==
  [d \in Conns |-> IF d \in Range(list) /\ m[d].state = "WAIT_FEED" /\ m[d].feed_ctx = NULL
                      /\ ~m[d].post /\ m[d].url = m[c].url
                   THEN [m[d] EXCEPT !.feed_ctx = c, !.state = to] ELSE m[d]]
wake_others_busy(m, c, to) ==
  [d \in Conns |-> IF d \in Range(list) /\ m[d].feed_ctx = c
                   THEN [m[d] EXCEPT !.state = to] ELSE m[d]]

\* wake_others(c, to): only connections in WAIT_FEED are touched; one without
\* a feed that waits for this url is adopted first.
wake_others(m, c, to) ==
  LET waiting == {d \in Range(list) : m[d].state = "WAIT_FEED"}
      adopted == {d \in waiting : /\ m[d].feed_ctx = NULL
                                  /\ ~m[d].post /\ m[d].url = m[c].url}
      woken   == adopted \cup {d \in waiting : m[d].feed_ctx = c}
  IN [d \in Conns |->
        IF d = c THEN [m[c] EXCEPT !.sff_ref_cnt = @ + Cardinality(adopted)]
        ELSE IF d \in woken THEN [m[d] EXCEPT !.feed_ctx = c, !.state = to]
        ELSE m[d]]

\* Mutant: the reference is not given up.
close_quoting(m, c) == [m EXCEPT ![c] = Freed]

\* close_connection: a player gives up its reference, wherever feed_ctx points;
\* a feeder frees its packets.
close(m, c) ==
  LET f == m[c].feed_ctx
      released == IF ~m[c].post /\ f # NULL
                  THEN [m EXCEPT ![f].sff_ref_cnt = @ - 1] ELSE m
  IN [released EXCEPT ![c] = Freed]

Unlist(c) == \E i \in DOMAIN list : list[i] = c /\ list' = RemoveAt(list, i)

Close(m, c) == ctx' = close(m, c) /\ Unlist(c)

-----------------------------------------------------------------------------
(* new_connection *)
Accept == \E c \in Conns :
  /\ ctx[c].state = "FREE"
  /\ accepted < MaxAccepts
  /\ accepted' = accepted + 1
  /\ ctx' = [ctx EXCEPT ![c] = Fresh]
  /\ list' = <<c>> \o list
  /\ sent' = [sent EXCEPT ![c] = 0]
  /\ ended' = [ended EXCEPT ![c] = FALSE]
  /\ played' = [played EXCEPT ![c] = Nothing]

Feeding(c, url) == ctx[c].state = "RECEIVE_DATA" /\ ctx[c].url = url
IsFed(url) == \E c \in Conns : Feeding(c, url)

\* http_parse_request, a POST of a stream.  post and url are stored by
\* handle_line before find_feed looks for another feeder.
PostStream(c, url) ==
  LET parsed == [ctx EXCEPT ![c].post = TRUE, ![c].url = url]
  IN /\ ctx[c].state = "WAIT_REQUEST"
     /\ DuplicatePosts \/ ~IsFed(url)
     /\ ctx' = IF find_feed(parsed, url) # c
               THEN [parsed EXCEPT ![c].error = TRUE, ![c].state = "SEND_HEADER"]
               ELSE [parsed EXCEPT ![c].state = "RECEIVE_DATA"]
     /\ UNCHANGED <<list, accepted, sent, ended, played>>

\* http_parse_request, a GET of a stream.
GetStream(c, url) ==
  LET f == find_feed(ctx, url)
      counted == IF f = NULL THEN ctx ELSE [ctx EXCEPT ![f].sff_ref_cnt = @ + 1]
  IN /\ ctx[c].state = "WAIT_REQUEST"
     /\ EarlyPlayers \/ IsFed(url)
     /\ ctx' = [counted EXCEPT ![c].url = url, ![c].feed_ctx = f,
                               ![c].state = "SEND_HEADER"]
     /\ played' = [played EXCEPT ![c].early = (f = NULL)]
     /\ UNCHANGED <<list, accepted, sent, ended>>

\* Mutant: the stream header is skipped.
SendHeaderToData(c) ==
  /\ ctx[c].state = "SEND_HEADER"
  /\ ctx' = [ctx EXCEPT ![c].state = "SEND_DATA"]
  /\ UNCHANGED <<list, accepted, sent, ended, played>>

\* SEND_HEADER once send() has taken the whole response header.
SendHeader(c) ==
  /\ ctx[c].state = "SEND_HEADER"
  /\ \/ /\ ctx[c].error
        /\ Close(ctx, c)
     \/ /\ ~ctx[c].error
        /\ ctx' = [ctx EXCEPT ![c].state = "SEND_DATA_HEADER"]
        /\ UNCHANGED list
  /\ UNCHANGED <<accepted, sent, ended, played>>

\* The end of http_send_data and of its caller: send() takes all of packet p,
\* or only a part of it, and a connection in SEND_DATA_TRAILER is closed after
\* this one send.
Send(c, m, p, all) ==
  /\ played' = [played EXCEPT ![c] =
       IF p.kind = "header" THEN [@ EXCEPT !.header = TRUE]
       ELSE [@ EXCEPT !.last = p.n]]
  /\ IF m[c].state = "SEND_DATA_TRAILER" THEN Close(m, c)
     ELSE /\ ctx' = [m EXCEPT ![c].buffer = IF all THEN NULL ELSE p]
          /\ UNCHANGED list
  /\ UNCHANGED <<accepted, sent, ended>>

\* http_send_data with a packet still in the buffer.
SendRest(c) ==
  /\ ctx[c].state \in Sending
  /\ ctx[c].buffer # NULL
  /\ Send(c, ctx, ctx[c].buffer, TRUE)

Sleep(c) == /\ ctx' = [ctx EXCEPT ![c].state = "WAIT_FEED"]
            /\ UNCHANGED <<list, accepted, sent, ended, played>>

\* http_send_data with an empty buffer: sff_prepare_data in SEND_DATA_HEADER.
SendDataHeader(c, all) ==
  LET f == ctx[c].feed_ctx
      sff == IF f = NULL THEN NULL ELSE ReadHeader(ctx[f].sff)
  IN /\ ctx[c].state = "SEND_DATA_HEADER"
     /\ ctx[c].buffer = NULL
     /\ \/ sff = NULL /\ Sleep(c)
        \/ /\ sff # NULL
           /\ Send(c, [ctx EXCEPT ![c].state = "SEND_DATA"], sff, all)

\* ... in SEND_DATA; a packet with stream index -1 is the trailer.
SendData(c, all) ==
  LET f == ctx[c].feed_ctx
      sff == IF f = NULL THEN NULL ELSE ReadData(ctx[f].sff, ctx[c].sff_r)
  IN /\ ctx[c].state = "SEND_DATA"
     /\ ctx[c].buffer = NULL
     /\ \/ sff = NULL /\ Sleep(c)
        \/ /\ sff # NULL
           /\ Send(c, [ctx EXCEPT ![c].sff_r = NextSlot(@),
                                  ![c].state = IF sff.kind = "trailer"
                                               THEN "SEND_DATA_TRAILER" ELSE @],
                   sff, all)

\* ... in SEND_DATA_TRAILER, where only wake_others can have put the player.
SendTrailer(c) ==
  /\ ctx[c].state = "SEND_DATA_TRAILER"
  /\ Close(ctx, c)
  /\ UNCHANGED <<accepted, sent, ended, played>>

\* Errors and timeouts outside RECEIVE_DATA: handle_connection returns -1.  In
\* WAIT_FEED any input of the peer has the same effect.
Drop(c) ==
  /\ ctx[c].state \in States \ {"RECEIVE_DATA"}
  /\ Close(ctx, c)
  /\ UNCHANGED <<accepted, sent, ended, played>>

\* http_receive_data has completed a packet: sff_write, then wake_others.  The
\* peer sends its header first; the last packet it sends may be a trailer.
ReceivePacket(c) ==
  /\ ctx[c].state = "RECEIVE_DATA"
  /\ ~ended[c]
  /\ sent[c] <= MaxPackets
  /\ \/ /\ sent[c] = 0
        /\ ctx' = wake_others([ctx EXCEPT ![c].sff = WriteHeader(@, Packet("header", 0))],
                              c, "SEND_DATA_HEADER")
        /\ UNCHANGED ended
     \/ /\ sent[c] > 0
        /\ \E kind \in {"data", "trailer"} :
             /\ ctx' = wake_others([ctx EXCEPT ![c].sff = WriteData(@, Packet(kind, sent[c]))],
                                   c, "SEND_DATA")
             /\ ended' = [ended EXCEPT ![c] = (kind = "trailer")]
  /\ sent' = [sent EXCEPT ![c] = @ + 1]
  /\ UNCHANGED <<list, accepted, played>>

\* The feeder's peer stops sending and closes its side.
PeerEnds(c) ==
  /\ ctx[c].state = "RECEIVE_DATA"
  /\ ~ended[c]
  /\ ended' = [ended EXCEPT ![c] = TRUE]
  /\ UNCHANGED <<list, ctx, accepted, sent, played>>

\* Mutants: the connection is closed whoever refers to it; nobody is told.
ReceiveEndCloses(c) ==
  /\ ctx[c].state = "RECEIVE_DATA"
  /\ ended[c]
  /\ Close(wake_others(ctx, c, "SEND_DATA_TRAILER"), c)
  /\ UNCHANGED <<accepted, sent, ended, played>>
ReceiveEndSilent(c) ==
  /\ ctx[c].state = "RECEIVE_DATA"
  /\ ended[c]
  /\ IF ctx[c].sff_ref_cnt <= 0 THEN Close(ctx, c) ELSE UNCHANGED <<ctx, list>>
  /\ UNCHANGED <<accepted, sent, ended, played>>

\* http_receive_data meets the end of the stream: players are told, and the
\* connection is kept while any of them still refers to it.
ReceiveEnd(c) ==
  LET m == wake_others(ctx, c, "SEND_DATA_TRAILER")
  IN /\ ctx[c].state = "RECEIVE_DATA"
     /\ ended[c]
     /\ IF m[c].sff_ref_cnt <= 0 THEN Close(m, c)
        ELSE ctx' = m /\ UNCHANGED list
     /\ UNCHANGED <<accepted, sent, ended, played>>

\* POLLERR or POLLHUP in RECEIVE_DATA: players are told, and the connection is
\* closed whoever refers to it.
HangUp(c) ==
  /\ Hangups
  /\ ctx[c].state = "RECEIVE_DATA"
  /\ Close(wake_others(ctx, c, "SEND_DATA_TRAILER"), c)
  /\ UNCHANGED <<accepted, sent, ended, played>>

Serve(c) == \/ SendHeader(c)
            \/ SendRest(c)
            \/ SendDataHeader(c, TRUE)
            \/ SendData(c, TRUE)
            \/ SendTrailer(c)
            \/ ReceiveEnd(c)

Next == \/ Accept
        \/ \E c \in Conns :
             \/ \E url \in Urls : PostStream(c, url) \/ GetStream(c, url)
             \/ Serve(c)
             \/ SendDataHeader(c, FALSE) \/ SendData(c, FALSE)
             \/ Drop(c) \/ ReceivePacket(c) \/ PeerEnds(c) \/ HangUp(c)

Spec == Init /\ [][Next]_vars

\* Every connection whose descriptor is ready is handled in every pass of the
\* loop, and the players' peers keep reading.
FairSpec == Spec /\ \A c \in Conns : WF_vars(Serve(c))
-----------------------------------------------------------------------------
(* Properties *)

Players == {c \in Range(list) : ~ctx[c].post}
Feeders == {c \in Range(list) : ctx[c].state = "RECEIVE_DATA"}

Rings == [pkts : [Slots -> DataPackets \cup {NULL}],
          header : HeaderPackets \cup {NULL}, sff_w : Slots]
Contexts == [state : States \cup {"FREE"}, post : BOOLEAN, url : Urls \cup {NULL},
             error : BOOLEAN, feed_ctx : Conns \cup {NULL}, sff_ref_cnt : Int,
             sff : Rings, sff_r : Slots, buffer : Packets \cup {NULL}]

\* The types of the connection list and of each connection's fields; a connection
\* is in the list, once, exactly while its memory is allocated.
TypeOK ==
  /\ list \in Seq(Conns) /\ IsInjective(list)
  /\ ctx \in [Conns -> Contexts]
  /\ \A c \in Conns : ctx[c].state = "FREE" <=> c \notin Range(list)
  /\ accepted \in 0 .. MaxAccepts
  /\ sent \in [Conns -> 0 .. MaxPackets + 1]
  /\ ended \in [Conns -> BOOLEAN]
  /\ played \in [Conns -> [early : BOOLEAN, header : BOOLEAN, last : 0 .. MaxPackets]]

\* ffserver.c, HTTPContext: "feed_ctx; /*data source*/" - what a player reads
\* from is a connection that receives the stream the player asked for, and not
\* memory that has been freed or given to another connection.
FeedAlive ==
  /\ TypeOK
  /\ \A c \in Players : ctx[c].feed_ctx # NULL =>
       Feeding(ctx[c].feed_ctx, ctx[c].url)

\* ffserver.c, HTTPContext: "sff_ref_cnt; /*being quotied count*/" - a feeder
\* counts exactly the players that point at it, through every adoption, wake-up
\* and close.
RefCountExact ==
  \A f \in Feeders :
    ctx[f].sff_ref_cnt = Cardinality({c \in Players : ctx[c].feed_ctx = f})

\* Even when feeders are cut off and their addresses reused, a feeder never
\* counts a player that is gone, so no phantom reference keeps it open.
NoPhantomPlayers ==
  \A f \in Feeders :
    ctx[f].sff_ref_cnt <= Cardinality({c \in Players : ctx[c].feed_ctx = f})

\* ffserver.c, http_parse_request: "file %s has been feeded" is the answer to a
\* second feeder - no stream has two.
OneFeeder ==
  \A f, g \in Feeders : ctx[f].url = ctx[g].url => f = g

\* A player that came while the stream was fed is sent the stream header before any
\* packet, whichever way its request, the header and the first packets interleave.
\* (One that came before the feeder may miss the header: wake_others moves it to
\* SEND_DATA when it falls asleep after the header has been received.)
HeaderFirst ==
  \A c \in Players : played[c].last > 0 => played[c].header \/ played[c].early

\* No lost wake-up: a player that sleeps on a live feed has nothing to read, so
\* it need not be woken before the next packet.
NoLostWakeup ==
  \A c \in Players :
    ctx[c].state = "WAIT_FEED" /\ ctx[c].feed_ctx # NULL =>
      ReadData(ctx[ctx[c].feed_ctx].sff, ctx[c].sff_r) = NULL

\* The server ends the response of a player that came while the stream was fed only
\* when the player has been sent every packet, or has fallen a full ring behind.
Newest(f) == IF sent[f] = 0 THEN 0 ELSE sent[f] - 1
DrainedAtTrailer ==
  [][\A c \in Conns : SendTrailer(c) /\ ctx[c].feed_ctx # NULL /\ ~played[c].early =>
       LET unread == Newest(ctx[c].feed_ctx) - played[c].last
       IN unread = 0 \/ unread >= N]_vars

\* The rings, links, counts and wake-ups together keep the promise of LiveFeeds: whoever
\* comes and goes, and whatever address is used again, a player is given the packets of one
\* feeder of its stream, in order, and misses one only where it is a ring behind.
LiveFeed == INSTANCE LiveFeeds WITH
  Window <- N, None <- NULL,
  stream <- [c \in Conns |-> ctx[c].url],
  published <- [c \in Conns |-> IF ctx[c].state = "RECEIVE_DATA" THEN Newest(c) ELSE -1],
  source <- [c \in Conns |-> ctx[c].feed_ctx],
  delivered <- [c \in Conns |-> played[c].last]
ImplementsLiveFeeds == LiveFeed!Spec

\* A feeder whose peer has ended is closed at last, and so all its players are.
FeederReleased ==
  \A c \in Conns : (ctx[c].state = "RECEIVE_DATA" /\ ended[c]) ~> (ctx[c].state = "FREE")
=============================================================================
