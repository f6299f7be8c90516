------------------------------ MODULE LiveFeeds ------------------------------
(***************************************************************************)
(* What the server promises about live streams, without rings, sleepers,   *)
(* reference counts or the list of connections: a stream has at most one   *)
(* feeder; a player is given packets of one feeder of the stream it asked  *)
(* for, in increasing order, each of them one of the Window most recent    *)
(* ones, and one is skipped only when more than Window are unread; and a   *)
(* feeder stays while a player depends on it.  LossyFeed says the same of  *)
(* a single feeder with a fixed set of players.                            *)
(***************************************************************************)
EXTENDS Integers

CONSTANTS Window, Conns, Urls,
          None      \* no stream, no feeder

Off == -1

VARIABLES stream,     \* per connection, the stream it feeds or has asked for
          published,  \* per feeder, the packets published so far; Off for the others
          source,     \* per player, its feeder
          delivered   \* per player, the number of the last packet it was given

lvars == <<stream, published, source, delivered>>

Init == /\ stream = [c \in Conns |-> None]
        /\ published = [c \in Conns |-> Off]
        /\ source = [c \in Conns |-> None]
        /\ delivered = [c \in Conns |-> 0]

OnAir(f) == published[f] # Off

\* A connection begins.
Arrive(c) == /\ stream[c] = None
             /\ delivered' = [delivered EXCEPT ![c] = 0]
             /\ UNCHANGED <<stream, published, source>>

\* It feeds a stream nobody else feeds, or asks for one: the feeder is there, or will come.
Start(f, url) == /\ stream[f] = None
                 /\ \A g \in Conns : OnAir(g) => stream[g] # url
                 /\ stream' = [stream EXCEPT ![f] = url]
                 /\ published' = [published EXCEPT ![f] = 0]
                 /\ UNCHANGED <<source, delivered>>

Ask(c, url, f) == /\ stream[c] = None /\ delivered[c] = 0
                  /\ f = None \/ (f \in Conns /\ OnAir(f) /\ stream[f] = url)
                  /\ stream' = [stream EXCEPT ![c] = url]
                  /\ source' = [source EXCEPT ![c] = f]
                  /\ UNCHANGED <<published, delivered>>

\* A feeder publishes a packet (or none: its header, its end), and takes players that
\* came before it.
Feed(f, n, players) ==
  /\ OnAir(f)
  /\ \A c \in players : /\ source[c] = None /\ ~OnAir(c)
                        /\ stream[c] = stream[f] /\ delivered[c] = 0
  /\ published' = [published EXCEPT ![f] = @ + n]
  /\ source' = [c \in Conns |-> IF c \in players THEN f ELSE source[c]]
  /\ UNCHANGED <<stream, delivered>>

Unread(c, f) == published[f] - delivered[c]

\* A player is given packet k of its feeder f; the connection may end with it.
Deliver(c, f, k, ends) ==
  /\ source[c] = f
  /\ k > published[f] - Window
  /\ k = delivered[c] + 1 \/ Unread(c, f) > Window
  /\ delivered' = [delivered EXCEPT ![c] = k]
  /\ source' = [source EXCEPT ![c] = IF ends THEN None ELSE @]
  /\ stream' = [stream EXCEPT ![c] = IF ends THEN None ELSE @]
  /\ UNCHANGED published

\* A connection ends: a player at any time, a feeder when no player depends on it.
Leave(c) == /\ \A d \in Conns : source[d] # c
            /\ stream' = [stream EXCEPT ![c] = None]
            /\ published' = [published EXCEPT ![c] = Off]
            /\ source' = [source EXCEPT ![c] = None]
            /\ UNCHANGED delivered

Next == \E c \in Conns :
          \/ Arrive(c) \/ Leave(c)
          \/ \E url \in Urls : \/ Start(c, url)
                               \/ \E f \in Conns \cup {None} : Ask(c, url, f)
          \/ \E n \in {0, 1}, players \in SUBSET Conns : Feed(c, n, players)
          \/ \E f \in Conns, ends \in BOOLEAN :
               \E k \in delivered[c] + 1 .. published[f] : Deliver(c, f, k, ends)

Spec == Init /\ [][Next]_lvars
==============================================================================
