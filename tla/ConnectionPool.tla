---------------------------- MODULE ConnectionPool ----------------------------
(***************************************************************************)
(* The event loop of src/ffserver.c: http_server fills the poll table,     *)
(* polls, calls handle_connection for every connection, and walks the      *)
(* first entries of the table again for the control channel and the        *)
(* listening sockets, which add connections while there is room.           *)
(*                                                                         *)
(* What a handler does for its request is the matter of FeedServer,        *)
(* HlsServer and RequestCycle; here it is any of the states it may leave   *)
(* the connection in, SEND_DATA standing for all three of them.  A round   *)
(* of the loop takes any time.  The list is visited in any order.          *)
(***************************************************************************)
EXTENDS Integers, Sequences, FiniteSets

CONSTANTS Conns,                    \* addresses of HTTPContexts
          NULL,
          nb_max_connections, nb_max_http_connections,
          Timeout,                  \* HTTP_REQUEST_TIMEOUT
          Builds,                   \* the sets of descriptors a build may serve
          MaxPeers                  \* bound: peers that ever connect

Listeners == {"ctl", "http", "https"}

\* parse_config makes both limits 1000.
ASSUME PoolAssumption ==
  /\ {nb_max_connections, nb_max_http_connections, Timeout, MaxPeers} \subseteq Nat
  /\ nb_max_connections <= nb_max_http_connections
  /\ Builds \subseteq SUBSET (Listeners \cup {"ssdp"})
  /\ NULL \notin Conns \cup {"nothing", "in", "out", "error"}

VARIABLES opt,             \* what this server serves
          pc,              \* "poll", "handle", the descriptor whose turn it is, or
                           \* "tls": the loop waits for the peer in SSL_accept
          head,            \* the descriptors at the beginning of the poll table
          ready,           \* which of these entries report POLLIN
          at,              \* poll_entry after the connections have been handled
          ctrl_fd2,        \* the control connection, 0 before the first
          conns,           \* the list of first_http_ctx
          ctx,             \* per connection: state, timeout - cur_time
          entry,           \* what the poll_entry of a connection reports
          todo,            \* connections not yet handled in this round
          nb_connections,
          backlog,         \* peers waiting to be accepted
          peers            \* peers that have connected

vars == <<opt, pc, head, ready, at, ctrl_fd2, conns, ctx, entry, todo,
          nb_connections, backlog, peers>>

States == {"WAIT_REQUEST", "SEND_HEADER", "SEND_DATA", "RECEIVE_DATA", "WAIT_FEED"}
Freed == [state |-> "FREE", left |-> 0]

Init == /\ opt \in Builds
        /\ pc = "poll" /\ head = <<>> /\ ready = {} /\ at = 1 /\ ctrl_fd2 = 0
        /\ conns = {} /\ ctx = [c \in Conns |-> Freed] /\ entry = [c \in Conns |-> NULL]
        /\ todo = {} /\ nb_connections = 0
        /\ backlog = [l \in Listeners |-> 0] /\ peers = 0

Connect(l) ==
  /\ l \in opt /\ peers < MaxPeers
  /\ peers' = peers + 1
  /\ backlog' = [backlog EXCEPT ![l] = @ + 1]
  /\ UNCHANGED <<opt, pc, head, ready, at, ctrl_fd2, conns, ctx, entry, todo, nb_connections>>

-----------------------------------------------------------------------------
(* The poll table *)

If(served, fd) == IF served THEN <<fd>> ELSE <<>>
Fd(name, n) == <<name, n>>

Descriptors ==
  If("ctl" \in opt, Fd("ctl", 0)) \o If(ctrl_fd2 # 0, Fd("ctl2", ctrl_fd2))
    \o If("http" \in opt, Fd("http", 0)) \o If("https" \in opt, Fd("https", 0))
    \o If("ssdp" \in opt, Fd("ssdp", 0))

\* The states for which a connection gets an entry, and what is asked for there.
\* Mutant: connections that wait for a feed are not polled.
Asked_awake(state) == IF state \in {"SEND_HEADER", "SEND_DATA"} THEN "out"
                      ELSE IF state = "WAIT_FEED" THEN NULL ELSE "in"
Asked(state) == IF state \in {"SEND_HEADER", "SEND_DATA"} THEN "out" ELSE "in"

Reported(c) == IF c \notin conns \/ Asked(ctx[c].state) = NULL THEN {NULL}
               ELSE {"nothing", Asked(ctx[c].state), "error"}

\* A listening socket reports its backlog.
Reports(fd, yes) == fd[1] \in Listeners => yes = (backlog[fd[1]] > 0)

\* Time only matters to who waits for a request.
Later(m, t) ==
  IF m.state # "WAIT_REQUEST" THEN m
  ELSE [m EXCEPT !.left = IF t > m.left THEN -1 ELSE m.left - t]

Poll ==
  /\ pc = "poll" /\ pc' = "handle"
  /\ head' = Descriptors
  /\ ready' \in SUBSET DOMAIN Descriptors
  /\ \A i \in DOMAIN Descriptors : Reports(Descriptors[i], i \in ready')
  /\ entry' \in [Conns -> {NULL, "nothing", "in", "out", "error"}]
  /\ \A c \in Conns : entry'[c] \in Reported(c)
  /\ \E t \in 0 .. Timeout + 1 : ctx' = [c \in Conns |-> Later(ctx[c], t)]
  /\ todo' = conns
  /\ UNCHANGED <<opt, at, ctrl_fd2, conns, nb_connections, backlog, peers>>

-----------------------------------------------------------------------------
(* handle_connection *)

Keep(c, state) ==
  /\ ctx' = [ctx EXCEPT ![c].state = state, ![c].left = 0]
  /\ UNCHANGED <<conns, nb_connections>>

\* local_prepare_data and SEND_HEADER, with keep_alive: the next request is waited for.
Again(c) ==
  /\ ctx' = [ctx EXCEPT ![c].state = "WAIT_REQUEST", ![c].left = Timeout]
  /\ UNCHANGED <<conns, nb_connections>>

\* handle_connection returns -1, close_connection.  Mutant: the count stays.
Close_uncounted(c, m) ==
  conns' = conns \ {c} /\ ctx' = [m EXCEPT ![c] = Freed] /\ UNCHANGED nb_connections
Close(c, m) ==
  /\ conns' = conns \ {c} /\ nb_connections' = nb_connections - 1
  /\ ctx' = [m EXCEPT ![c] = Freed]

Unmoved == UNCHANGED <<ctx, conns, nb_connections>>

\* wake_others moves some of those that wait for a feed.
Woken(W) == [d \in Conns |-> IF d \in W THEN [ctx[d] EXCEPT !.state = "SEND_DATA"] ELSE ctx[d]]
Waiting == {c \in conns : ctx[c].state = "WAIT_FEED"}

\* WAIT_REQUEST: part of a request, all of it, one too long, or the peer's end, which
\* is not looked at on a kept connection.  Mutant: the time is looked at only
\* when nothing has arrived.
WaitRequest_quiet(c) ==
  \/ ctx[c].left < 0 /\ entry[c] # "in" /\ Close(c, ctx)
  \/ ctx[c].left >= 0 /\ entry[c] = "error" /\ Close(c, ctx)
  \/ entry[c] \in {"nothing", "in"} /\ (entry[c] = "in" \/ ctx[c].left >= 0) /\ Unmoved
WaitRequest(c) ==
  \/ /\ ctx[c].left < 0 \/ entry[c] = "error"
     /\ Close(c, ctx)
  \/ /\ ctx[c].left >= 0 /\ entry[c] = "nothing"
     /\ Unmoved
  \/ /\ ctx[c].left >= 0 /\ entry[c] = "in"
     /\ \/ Close(c, ctx)
        \/ Unmoved
        \/ \E state \in {"SEND_HEADER", "RECEIVE_DATA"} : Keep(c, state)

\* SEND_HEADER and the three SEND_DATA states.
Sending(c, states) ==
  \/ entry[c] = "error" /\ Close(c, ctx)
  \/ entry[c] \notin {"out", "error"} /\ Unmoved
  \/ /\ entry[c] = "out"
     /\ Close(c, ctx) \/ Again(c) \/ \E state \in states : Keep(c, state)

\* RECEIVE_DATA: those that wait for the data are woken.
Receiving(c) ==
  \/ entry[c] = "error" /\ \E W \in SUBSET Waiting : Close(c, Woken(W))
  \/ entry[c] \notin {"in", "error"} /\ Unmoved
  \/ /\ entry[c] = "in"
     /\ \E W \in SUBSET Waiting :
          \/ Close(c, Woken(W))
          \/ \E state \in {"RECEIVE_DATA", "SEND_HEADER"} :
               /\ ctx' = [Woken(W) EXCEPT ![c].state = state]
               /\ UNCHANGED <<conns, nb_connections>>

WaitFeed(c) == IF entry[c] \in {"in", "error"} THEN Close(c, ctx) ELSE Unmoved

Handle(c) ==
  /\ pc = "handle" /\ c \in todo
  /\ todo' = todo \ {c}
  /\ CASE ctx[c].state = "WAIT_REQUEST" -> WaitRequest(c)
       [] ctx[c].state = "SEND_HEADER" -> Sending(c, {"SEND_HEADER", "SEND_DATA", "RECEIVE_DATA"})
       [] ctx[c].state = "SEND_DATA" -> Sending(c, {"SEND_DATA", "WAIT_FEED"})
       [] ctx[c].state = "RECEIVE_DATA" -> Receiving(c)
       [] ctx[c].state = "WAIT_FEED" -> WaitFeed(c)
  /\ UNCHANGED <<opt, pc, head, ready, at, ctrl_fd2, entry, backlog, peers>>

Handled ==
  /\ pc = "handle" /\ todo = {}
  /\ pc' = "ctl"
  /\ entry' = [c \in Conns |-> NULL]       \* not read again before the next poll
  /\ UNCHANGED <<opt, head, ready, at, ctrl_fd2, conns, ctx, todo, nb_connections,
                 backlog, peers>>

-----------------------------------------------------------------------------
(* The first entries again *)

Unpooled == UNCHANGED <<opt, conns, ctx, entry, todo, nb_connections, peers>>

\* poll_entry = poll_table: the loop starts again, and fills the table anew.
Round == pc' = "poll" /\ head' = <<>> /\ ready' = {} /\ at' = 1

\* new_connection: the peer is added, or told "Server too busy" when the limit is reached.
pool == <<conns, ctx, entry, nb_connections>>
Full == nb_connections >= nb_max_connections
Add(c) ==
  /\ conns' = conns \cup {c} /\ nb_connections' = nb_connections + 1
  /\ ctx' = [ctx EXCEPT ![c] = [state |-> "WAIT_REQUEST", left |-> Timeout]]
  /\ entry' = [entry EXCEPT ![c] = NULL]
new_connection == IF Full THEN UNCHANGED pool ELSE \E c \in Conns \ conns : Add(c)

\* accept(), in the turn of a socket whose entry reports a peer.  It may also fail; the peer
\* stays in the backlog then.  Mutant: a full pool does not accept.
Due(l) == l \in opt /\ at \in ready
accept_busy(l) ==
  Due(l) /\ backlog[l] > 0 /\ ~Full /\ backlog' = [backlog EXCEPT ![l] = @ - 1]
accept(l) ==
  Due(l) /\ backlog[l] > 0 /\ backlog' = [backlog EXCEPT ![l] = @ - 1]

\* ctl_msg_open: a new control connection, or -1.  The one before stays open, so the
\* new one has another descriptor.
ctl_msg_open ==
  \/ accept("ctl") /\ ctrl_fd2' = IF ctrl_fd2 = 1 THEN 2 ELSE 1
  \/ ctrl_fd2' = -1 /\ UNCHANGED backlog

Ctl ==
  /\ pc = "ctl" /\ pc' = "ctl2"
  /\ at' = IF "ctl" \in opt THEN at + 1 ELSE at
  /\ IF Due("ctl") THEN ctl_msg_open ELSE UNCHANGED <<ctrl_fd2, backlog>>
  /\ Unpooled /\ UNCHANGED <<head, ready>>

\* Messages are received or sent (CtlChannel), when the entry is that of ctrl_fd2.
CtlMessages ==
  /\ pc = "ctl2" /\ pc' = "http"
  /\ at' = IF ctrl_fd2 # 0 /\ at \in DOMAIN head /\ head[at] = Fd("ctl2", ctrl_fd2) THEN at + 1 ELSE at
  /\ Unpooled /\ UNCHANGED <<ctrl_fd2, head, ready, backlog>>

\* "bad entry": the round ends.  Mutant: it is not looked for.
BadEntry_never == "http" \in opt /\ at > Len(head)
BadEntry == "http" \in opt /\ head[at] # Fd("http", 0)

Skip ==
  /\ pc = "http" /\ BadEntry
  /\ Round
  /\ Unpooled /\ UNCHANGED <<ctrl_fd2, backlog>>

Http ==
  /\ pc = "http" /\ ~BadEntry
  /\ pc' = "https"
  /\ at' = IF "http" \in opt THEN at + 1 ELSE at
  /\ \/ accept("http") /\ new_connection
     \/ UNCHANGED <<pool, backlog>>
  /\ UNCHANGED <<opt, head, ready, ctrl_fd2, todo, peers>>

\* A peer of the TLS socket is taken for its handshake; without one the round ends.
\* (ssdp_response changes nothing here.)
Https ==
  /\ pc = "https"
  /\ \/ accept("https") /\ pc' = "tls" /\ UNCHANGED <<head, ready, at>>
     \/ Round /\ UNCHANGED backlog
  /\ UNCHANGED <<opt, pool, ctrl_fd2, todo, peers>>

\* ssl_open: SSL_accept on a socket that blocks still (new_connection makes it
\* non-blocking afterwards), so the loop stands until the peer has answered, with success or
\* without, or is gone.
Handshake ==
  /\ pc = "tls" /\ Round
  /\ new_connection \/ UNCHANGED pool
  /\ UNCHANGED <<opt, ctrl_fd2, todo, backlog, peers>>

Server == Poll \/ (\E c \in Conns : Handle(c)) \/ Handled
          \/ Ctl \/ CtlMessages \/ Skip \/ Http \/ Https

Next == Server \/ Handshake \/ \E l \in Listeners : Connect(l)

Spec == Init /\ [][Next]_vars

\* "We poll at least every second": the loop goes on whatever the peers do, but in a
\* handshake, which is the peer's to finish.  An accept() that is tried again and
\* again succeeds at last.
Accepting(l) == Server /\ backlog'[l] < backlog[l]
FairSpec == Spec /\ WF_vars(Server) /\ \A l \in Listeners : SF_vars(Accepting(l))

-----------------------------------------------------------------------------
(* Properties *)

TypeOK ==
  /\ opt \in Builds /\ ctrl_fd2 \in -1 .. 2 /\ at \in Nat
  /\ pc \in {"poll", "handle", "ctl", "ctl2", "http", "https", "tls"}
  /\ conns \subseteq Conns /\ todo \subseteq conns
  /\ ctx \in [Conns -> [state : States \cup {"FREE"}, left : -1 .. Timeout]]
  /\ backlog \in [Listeners -> Nat]

\* nb_connections counts the list, within the limit, and the poll table, which
\* http_server allocates once for nb_max_http_connections + 1 entries, is large enough in
\* every round in which one descriptor is polled besides the connections.
TableFits ==
  /\ TypeOK
  /\ \A c \in Conns : c \in conns <=> ctx[c].state # "FREE"
  /\ nb_connections = Cardinality(conns) /\ nb_connections <= nb_max_connections
  /\ pc = "poll" /\ Len(Descriptors) <= 1 =>
       Len(Descriptors) + Cardinality(conns) <= nb_max_http_connections + 1

\* handle_connection reads the poll_entry of a connection without looking whether it
\* has one: it has one of this round, whoever was accepted, woken or closed before.
Polled == pc = "handle" => \A c \in todo : entry[c] # NULL

\* No peer keeps the server waiting for its request longer than HTTP_REQUEST_TIMEOUT
\* and a round, whether it is silent, slow, or gone from a kept connection.
RequestInTime ==
  pc = "poll" => \A c \in conns : ctx[c].state = "WAIT_REQUEST" => ctx[c].left >= 0

\* The entries are found again by their position: where http is served, a socket is
\* accepted from only when its own entry reports a peer, also when the control
\* connection was replaced in between.
EntriesMatch ==
  [][\A l \in Listeners : "http" \in opt /\ backlog'[l] < backlog[l] => head[at] = Fd(l, 0)]_vars

\* Every peer is accepted or turned away, whatever the connections do, unless the peer of
\* a handshake is silent forever: SSL_accept waits for it, and nobody else is served.
Accepted == []<>(pc # "tls") => \A l \in Listeners : (backlog[l] > 0) ~> (backlog[l] = 0)
=============================================================================
