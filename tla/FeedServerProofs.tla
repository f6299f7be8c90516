-------------------------- MODULE FeedServerProofs --------------------------
(***************************************************************************)
(* Proofs about the live feeds for every set of connections and urls and   *)
(* every length of a stream.  LinkInv is inductive whatever the            *)
(* environment does: a feeder never counts more players than point at it.  *)
(* QuietInv is inductive where no feeder is cut off and no stream is       *)
(* posted twice: the counts are exact, a player's feed is alive, and what  *)
(* a sleeping player has still to be sent is known.                        *)
(* DrainInv adds the numbers of the packets in the rings: what a player    *)
(* has been sent when its response ends.                                   *)
(***************************************************************************)
EXTENDS FeedServer, FiniteSetTheorems, SequenceTheorems, TLAPS

Memory == [Conns -> Contexts]

\* A connection has a feed only as a player whose request has been read.
Linked(m) ==
  \A c \in Conns : /\ m[c].state \in {"FREE", "WAIT_REQUEST"} => ~m[c].post
                   /\ m[c].state \in {"FREE", "WAIT_REQUEST"} \/ m[c].post
                        => m[c].feed_ctx = NULL
Pointing(m, f) == {c \in Conns : m[c].feed_ctx = f}
AtMost(m) == \A f \in Conns : m[f].state # "FREE" =>
                                m[f].sff_ref_cnt <= Cardinality(Pointing(m, f))
Sound(m) == m \in Memory /\ Linked(m) /\ AtMost(m)

LinkInv == TypeOK /\ Linked(ctx) /\ AtMost(ctx)

Exact(m) == \A f \in Conns : m[f].sff_ref_cnt = Cardinality(Pointing(m, f))

\* Where no feeder is cut off and no stream is posted twice: who posts is fed, and a
\* player's feed is a feeder of its url.
Posting == \A c \in Conns : ctx[c].post <=> ctx[c].state = "RECEIVE_DATA"
Alive == \A c \in Conns : ctx[c].feed_ctx # NULL =>
           /\ ctx[ctx[c].feed_ctx].state = "RECEIVE_DATA"
           /\ ctx[ctx[c].feed_ctx].url = ctx[c].url
\* A connection starts with an empty ring; a feeder's header comes first.
Started == \A c \in Conns :
  /\ ctx[c].state = "WAIT_REQUEST" => /\ sent[c] = 0 /\ ctx[c].sff = NewRing
                                      /\ ctx[c].buffer = NULL /\ played[c] = Nothing
  /\ ctx[c].state = "RECEIVE_DATA" => /\ sent[c] = 0 => ctx[c].sff = NewRing
                                      /\ sent[c] > 0 => ctx[c].sff.header # NULL
\* A player that still lacks the header is on its way to it, asleep before the feeder has
\* sent it, or told that the stream has ended.
Unheaded(c) ==
  ctx[c].state # "FREE" /\ ~ctx[c].post /\ ~played[c].header /\ ~played[c].early =>
    /\ played[c].last = 0 /\ ctx[c].buffer = NULL
    /\ \/ ctx[c].state = "WAIT_REQUEST"
       \/ /\ ctx[c].feed_ctx # NULL
          /\ \/ ctx[c].state \in {"SEND_HEADER", "SEND_DATA_HEADER", "SEND_DATA_TRAILER"}
             \/ ctx[c].state = "WAIT_FEED" /\ sent[ctx[c].feed_ctx] = 0
\* A sleeper has nothing to read.
Unread(c) ==
  ctx[c].state = "WAIT_FEED" /\ ctx[c].feed_ctx # NULL =>
    ReadData(ctx[ctx[c].feed_ctx].sff, ctx[c].sff_r) = NULL

Core == Exact(ctx) /\ Posting /\ Alive /\ Started
QuietInv == LinkInv /\ Core /\ \A c \in Conns : Unheaded(c) /\ Unread(c)

-----------------------------------------------------------------------------
(* The list of connections *)

LEMMA NullNotConn == NULL \notin Conns /\ NULL \notin Urls /\ NULL \notin Packets
BY FeedAssumption

\* A new connection goes to the front.
LEMMA ListAdd ==
  ASSUME NEW s \in Seq(Conns), IsInjective(s), NEW c \in Conns, c \notin Range(s)
  PROVE  /\ <<c>> \o s \in Seq(Conns) /\ IsInjective(<<c>> \o s)
         /\ Range(<<c>> \o s) = Range(s) \cup {c}
<1> DEFINE t == <<c>> \o s
<1>1. /\ t \in Seq(Conns) /\ Len(t) = Len(s) + 1
      /\ \A i \in 1 .. Len(t) : t[i] = IF i = 1 THEN c ELSE s[i - 1]
      /\ Len(s) \in Nat /\ DOMAIN t = 1 .. Len(t) /\ DOMAIN s = 1 .. Len(s)
  OBVIOUS
<1> HIDE DEF t
<1>2. \A i \in DOMAIN s : s[i] # c
  BY DEF Range
<1>3. IsInjective(t)
  <2> SUFFICES ASSUME NEW i \in DOMAIN t, NEW j \in DOMAIN t, t[i] = t[j] PROVE i = j
    BY DEF IsInjective
  <2>1. CASE i = 1 \/ j = 1
    BY <1>1, <1>2, <2>1
  <2>2. CASE i # 1 /\ j # 1
    <3>1. i - 1 \in DOMAIN s /\ j - 1 \in DOMAIN s /\ s[i - 1] = s[j - 1]
      BY <1>1, <2>2
    <3>2. i - 1 = j - 1
      BY <3>1 DEF IsInjective
    <3> QED BY <1>1, <3>2
  <2> QED BY <2>1, <2>2
<1>4. Range(t) = Range(s) \cup {c}
  <2>1. \A i \in DOMAIN s : i + 1 \in DOMAIN t /\ t[i + 1] = s[i]
    BY <1>1
  <2>2. 1 \in DOMAIN t /\ t[1] = c
    BY <1>1
  <2>3. \A i \in DOMAIN t : t[i] = c \/ (i - 1 \in DOMAIN s /\ t[i] = s[i - 1])
    BY <1>1
  <2> QED BY <2>1, <2>2, <2>3 DEF Range
<1> QED BY <1>1, <1>3, <1>4 DEF t

\* close_connection takes one element out.
LEMMA ListRemove ==
  ASSUME NEW s \in Seq(Conns), IsInjective(s), NEW k \in DOMAIN s
  PROVE  /\ RemoveAt(s, k) \in Seq(Conns) /\ IsInjective(RemoveAt(s, k))
         /\ Range(RemoveAt(s, k)) = Range(s) \ {s[k]}
<1> DEFINE t == RemoveAt(s, k)
<1>1. /\ Len(s) \in Nat /\ DOMAIN s = 1 .. Len(s) /\ k \in 1 .. Len(s)
  OBVIOUS
<1> DEFINE a == SubSeq(s, 1, k - 1)
           b == SubSeq(s, k + 1, Len(s))
<1>a. /\ a \in Seq(Conns) /\ Len(a) = k - 1
      /\ \A i \in 1 .. k - 1 : a[i] = s[i]
  BY <1>1
<1>b. /\ b \in Seq(Conns) /\ Len(b) = Len(s) - k
      /\ \A i \in 1 .. Len(s) - k : b[i] = s[i + k]
  BY <1>1
<1>c. t = a \o b
  BY DEF RemoveAt
<1> HIDE DEF a, b, t
<1>d. /\ t \in Seq(Conns) /\ Len(t) = Len(a) + Len(b)
      /\ \A i \in 1 .. Len(a) + Len(b) : t[i] = IF i <= Len(a) THEN a[i] ELSE b[i - Len(a)]
  BY <1>a, <1>b, <1>c, ConcatProperties
<1>2. /\ t \in Seq(Conns) /\ Len(t) = Len(s) - 1 /\ DOMAIN t = 1 .. Len(t)
      /\ \A i \in 1 .. Len(t) : t[i] = IF i < k THEN s[i] ELSE s[i + 1]
  <2>1. t \in Seq(Conns) /\ Len(t) = Len(s) - 1 /\ DOMAIN t = 1 .. Len(t)
    BY <1>1, <1>a, <1>b, <1>d
  <2>2. ASSUME NEW i \in 1 .. Len(t) PROVE t[i] = IF i < k THEN s[i] ELSE s[i + 1]
    <3>1. CASE i < k
      BY <1>1, <1>a, <1>b, <1>d, <2>1, <3>1
    <3>2. CASE i >= k
      <4>1. t[i] = b[i - (k - 1)] /\ i - (k - 1) \in 1 .. Len(s) - k
        BY <1>1, <1>a, <1>b, <1>d, <2>1, <3>2
      <4>2. i - (k - 1) + k = i + 1
        BY <1>1
      <4>3. b[i - (k - 1)] = s[i - (k - 1) + k]
        BY <1>b, <4>1
      <4> QED BY <1>1, <3>2, <4>1, <4>2, <4>3
    <3> QED BY <1>1, <3>1, <3>2
  <2> QED BY <2>1, <2>2
<1> DEFINE at(i) == IF i < k THEN i ELSE i + 1
<1>3. \A i \in DOMAIN t : at(i) \in DOMAIN s /\ at(i) # k /\ t[i] = s[at(i)]
  BY <1>1, <1>2
<1>4. IsInjective(t)
  <2> SUFFICES ASSUME NEW i \in DOMAIN t, NEW j \in DOMAIN t, t[i] = t[j] PROVE i = j
    BY DEF IsInjective
  <2>1. at(i) = at(j)
    BY <1>3 DEF IsInjective
  <2> QED BY <1>2, <2>1
<1>5. \A i \in DOMAIN s \ {k} : \E j \in DOMAIN t : t[j] = s[i]
  <2> TAKE i \in DOMAIN s \ {k}
  <2> DEFINE j == IF i < k THEN i ELSE i - 1
  <2>1. j \in DOMAIN t /\ at(j) = i
    BY <1>1, <1>2
  <2> QED BY <1>3, <2>1
<1>6. \A i \in DOMAIN t : t[i] # s[k]
  BY <1>3 DEF IsInjective
<1>7. Range(t) = Range(s) \ {s[k]}
  BY <1>3, <1>5, <1>6 DEF Range
<1> QED BY <1>2, <1>4, <1>7 DEF t

LEMMA MinExists ==
  ASSUME NEW S, S \subseteq Nat, S # {}
  PROVE  Min(S) \in S
<1> DEFINE R == {p \in Nat \X Nat : p[1] < p[2]}
<1>1. IsWellFoundedOn(R, Nat)
  BY NatLessThanWellFounded DEF OpToRel
<1>2. PICK x \in S : \A y \in S : ~(<<y, x>> \in R)
  BY <1>1, WFMin
<1>3. ASSUME NEW y \in S PROVE x <= y
  <2>1. x \in Nat /\ y \in Nat /\ <<y, x>> \in Nat \X Nat /\ <<y, x>>[1] = y /\ <<y, x>>[2] = x
    OBVIOUS
  <2> QED BY <1>2, <2>1
<1> QED BY <1>2, <1>3 DEF Min

\* What find_feed returns is a connection of the list that posts the url.
LEMMA FindFeed ==
  ASSUME TypeOK, NEW m, NEW url
  PROVE  LET f == find_feed(m, url)
         IN \/ f = NULL /\ \A c \in Range(list) : ~(m[c].post /\ m[c].url = url)
            \/ f \in Range(list) /\ f \in Conns /\ m[f].post /\ m[f].url = url
<1> DEFINE posting == {i \in DOMAIN list : m[list[i]].post /\ m[list[i]].url = url}
<1>1. DOMAIN list \subseteq Nat /\ \A i \in DOMAIN list : list[i] \in Conns
  BY DEF TypeOK
<1>2. CASE posting = {}
  BY <1>2 DEF find_feed, Range
<1>3. CASE posting # {}
  <2>1. Min(posting) \in posting
    BY <1>1, <1>3, MinExists
  <2>2. find_feed(m, url) = list[Min(posting)]
    BY <1>3 DEF find_feed
  <2> QED BY <1>1, <2>1, <2>2 DEF Range
<1> QED BY <1>2, <1>3

-----------------------------------------------------------------------------
(* What the calls the handlers share do to the memory *)

\* Everything but the count and the error flag.
Kept(a, b) == /\ b.state = a.state /\ b.post = a.post /\ b.url = a.url
              /\ b.feed_ctx = a.feed_ctx
              /\ b.sff = a.sff /\ b.sff_r = a.sff_r /\ b.buffer = a.buffer
\* What wake_others does to a sleeper.
Woken(a, b, c, to) == /\ b.state = to /\ b.post = a.post /\ b.url = a.url
                      /\ b.feed_ctx = c
                      /\ b.sff = a.sff /\ b.sff_r = a.sff_r /\ b.buffer = a.buffer
                      /\ b.sff_ref_cnt = a.sff_ref_cnt

LEMMA PointingFinite ==
  ASSUME NEW m, NEW f
  PROVE  IsFiniteSet(Pointing(m, f)) /\ Cardinality(Pointing(m, f)) \in Nat
<1>1. Pointing(m, f) \in SUBSET Conns
  BY DEF Pointing
<1> QED BY <1>1, FeedAssumption, FS_Subset, FS_CardinalityType

LEMMA FreedType == Freed \in Contexts /\ Fresh \in Contexts /\ NewRing \in Rings
<1>1. 0 \in Slots
  BY RingAssumption DEF Slots
<1>2. NewRing \in Rings
  BY <1>1 DEF NewRing, Rings
<1>3. Freed \in Contexts
  BY <1>1, <1>2 DEF Freed, Contexts
<1>4. Fresh \in Contexts
  BY <1>3 DEF Fresh, Contexts, States
<1> QED BY <1>2, <1>3, <1>4

\* close_connection: the count of the connection's feed is the only thing that changes
\* elsewhere, and it follows the number of players.
LEMMA CloseOutcome ==
  ASSUME NEW m, Sound(m), NEW c \in Conns
  PROVE  LET n == close(m, c)
         IN /\ Sound(n) /\ n[c] = Freed
            /\ \A d \in Conns \ {c} : Kept(m[d], n[d])
            /\ Exact(m) /\ Pointing(m, c) = {} => Exact(n)
<1> DEFINE n == close(m, c)
           f == m[c].feed_ctx
           quits == ~m[c].post /\ f # NULL
<1>1. /\ m \in Memory /\ f \in Conns \cup {NULL} /\ \A d \in Conns : m[d] \in Contexts
      /\ ~quits => f = NULL
  BY DEF Sound, Memory, Contexts, Linked
<1>2. /\ n \in Memory /\ n[c] = Freed
      /\ \A d \in Conns \ {c} :
           /\ Kept(m[d], n[d])
           /\ n[d].sff_ref_cnt = IF quits /\ d = f THEN m[d].sff_ref_cnt - 1
                                 ELSE m[d].sff_ref_cnt
  <2> DEFINE released == IF quits THEN [m EXCEPT ![f].sff_ref_cnt = @ - 1] ELSE m
  <2>1. n = [released EXCEPT ![c] = Freed]
    BY DEF close
  <2>2. /\ released \in Memory
        /\ \A d \in Conns :
             /\ Kept(m[d], released[d])
             /\ released[d].sff_ref_cnt = IF quits /\ d = f THEN m[d].sff_ref_cnt - 1
                                          ELSE m[d].sff_ref_cnt
    <3>1. CASE quits
      <4>1. f \in Conns /\ released = [m EXCEPT ![f].sff_ref_cnt = @ - 1]
        BY <1>1, <3>1
      <4>2. \A d \in Conns \ {f} : released[d] = m[d]
        BY <1>1, <4>1 DEF Memory
      <4>3. released[f] = [m[f] EXCEPT !.sff_ref_cnt = @ - 1]
        BY <1>1, <4>1 DEF Memory
      <4>4. /\ released[f] \in Contexts /\ Kept(m[f], released[f])
            /\ released[f].sff_ref_cnt = m[f].sff_ref_cnt - 1
        BY <1>1, <4>1, <4>3 DEF Contexts, Kept
      <4>5. released \in Memory
        BY <1>1, <4>1, <4>2, <4>4 DEF Memory
      <4>6. ASSUME NEW d \in Conns, d # f
            PROVE  Kept(m[d], released[d]) /\ released[d].sff_ref_cnt = m[d].sff_ref_cnt
        BY <4>2, <4>6 DEF Kept
      <4> QED BY <3>1, <4>1, <4>4, <4>5, <4>6
    <3>2. CASE ~quits
      BY <1>1, <3>2 DEF Kept
    <3> QED BY <3>1, <3>2
  <2> HIDE DEF n, released
  <2> QED BY <2>1, <2>2, FreedType DEF Memory, Kept
<1> HIDE DEF n
<1>3. n[c].feed_ctx = NULL /\ n[c].state = "FREE" /\ n[c].post = FALSE /\ n[c].sff_ref_cnt = 0
  BY <1>2 DEF Freed
<1>4. Linked(n)
  BY <1>2, <1>3 DEF Linked, Sound, Kept
<1>5. ASSUME NEW g \in Conns
      PROVE  Pointing(n, g) = Pointing(m, g) \ {c}
  BY <1>2, <1>3, NullNotConn DEF Pointing, Kept
<1>6. ASSUME NEW g \in Conns
      PROVE  Cardinality(Pointing(n, g)) = IF quits /\ g = f
               THEN Cardinality(Pointing(m, g)) - 1 ELSE Cardinality(Pointing(m, g))
  <2>1. c \in Pointing(m, g) <=> quits /\ g = f
    BY <1>1, NullNotConn DEF Pointing
  <2> QED BY <1>5, <2>1, PointingFinite, FS_RemoveElement
<1>7. AtMost(n)
  <2> SUFFICES ASSUME NEW g \in Conns, n[g].state # "FREE"
               PROVE  n[g].sff_ref_cnt <= Cardinality(Pointing(n, g))
    BY DEF AtMost
  <2>1. g # c /\ m[g].state # "FREE"
    BY <1>2, <1>3 DEF Kept
  <2>2. m[g].sff_ref_cnt <= Cardinality(Pointing(m, g)) /\ m[g].sff_ref_cnt \in Int
    BY <1>1, <2>1 DEF Sound, AtMost, Contexts
  <2> QED BY <1>2, <1>6, <2>1, <2>2, PointingFinite
<1>8. ASSUME Exact(m), Pointing(m, c) = {} PROVE Exact(n)
  <2> SUFFICES ASSUME NEW g \in Conns
               PROVE  n[g].sff_ref_cnt = Cardinality(Pointing(n, g))
    BY DEF Exact
  <2>1. CASE g = c
    <3>1. Pointing(n, g) = {}
      BY <1>5, <1>8, <2>1
    <3> QED BY <1>3, <2>1, <3>1, FS_EmptySet
  <2>2. CASE g # c
    BY <1>2, <1>6, <1>8, <2>2 DEF Exact
  <2> QED BY <2>1, <2>2
<1> QED BY <1>2, <1>4, <1>7, <1>8 DEF Sound, n

\* wake_others: the sleepers that wait for this feeder, and those without a feed that it
\* adopts, are woken; the latter are counted.
LEMMA WakeOutcome ==
  ASSUME NEW m, Sound(m), NEW c \in Conns, m[c].state = "RECEIVE_DATA",
         NEW to \in Sending, Range(list) \subseteq Conns,
         \A d \in Conns : m[d].state = "WAIT_FEED" => d \in Range(list)
  PROVE  LET n == wake_others(m, c, to)
         IN /\ Sound(n) /\ Kept(m[c], n[c])
            /\ \A d \in Conns \ {c} :
                 \/ n[d] = m[d] /\ ~(m[d].state = "WAIT_FEED" /\ m[d].feed_ctx = c)
                 \/ /\ m[d].state = "WAIT_FEED" /\ Woken(m[d], n[d], c, to)
                    /\ m[d].feed_ctx = c \/ (m[d].feed_ctx = NULL /\ m[d].url = m[c].url)
            /\ Exact(m) => Exact(n)
<1> DEFINE n == wake_others(m, c, to)
           waiting == {d \in Range(list) : m[d].state = "WAIT_FEED"}
           adopted == {d \in waiting : m[d].feed_ctx = NULL /\ ~m[d].post /\ m[d].url = m[c].url}
           woken == adopted \cup {d \in waiting : m[d].feed_ctx = c}
<1>1. m \in Memory /\ \A d \in Conns : m[d] \in Contexts
  BY DEF Sound, Memory
<1>2. adopted \subseteq Range(list) /\ c \notin waiting
  OBVIOUS
<1>3. adopted = {d \in Conns : /\ m[d].state = "WAIT_FEED" /\ m[d].feed_ctx = NULL
                               /\ ~m[d].post /\ m[d].url = m[c].url}
  OBVIOUS
<1>4. woken = {d \in Conns : /\ m[d].state = "WAIT_FEED"
                             /\ d \in adopted \/ m[d].feed_ctx = c}
  BY <1>3
<1>5. IsFiniteSet(adopted) /\ Cardinality(adopted) \in Nat
  <2>1. adopted \in SUBSET Conns
    BY <1>3
  <2> QED BY <2>1, FeedAssumption, FS_Subset, FS_CardinalityType
<1>6. n = [d \in Conns |->
        IF d = c THEN [m[c] EXCEPT !.sff_ref_cnt = @ + Cardinality(adopted)]
        ELSE IF d \in woken THEN [m[d] EXCEPT !.feed_ctx = c, !.state = to]
        ELSE m[d]]
  BY DEF wake_others
<1> HIDE DEF n, adopted, woken
<1>7. /\ n[c] \in Contexts /\ Kept(m[c], n[c])
      /\ n[c].sff_ref_cnt = m[c].sff_ref_cnt + Cardinality(adopted)
  <2>1. n[c] = [m[c] EXCEPT !.sff_ref_cnt = m[c].sff_ref_cnt + Cardinality(adopted)]
    BY <1>6
  <2>2. m[c] \in Contexts /\ m[c].sff_ref_cnt + Cardinality(adopted) \in Int
    BY <1>1, <1>5 DEF Contexts
  <2> QED BY <2>1, <2>2 DEF Contexts, Kept
<1>8. \A d \in Conns \ {c} : d \notin woken => n[d] = m[d]
  BY <1>6
<1>9. \A d \in Conns \ {c} : d \in woken => n[d] \in Contexts /\ Woken(m[d], n[d], c, to)
  BY <1>1, <1>6, ZenonT(60) DEF Contexts, Woken, States
<1>10. \A d \in Conns \ {c} :
         \/ n[d] = m[d] /\ ~(m[d].state = "WAIT_FEED" /\ m[d].feed_ctx = c)
         \/ /\ m[d].state = "WAIT_FEED" /\ Woken(m[d], n[d], c, to)
            /\ m[d].feed_ctx = c \/ (m[d].feed_ctx = NULL /\ m[d].url = m[c].url)
  BY <1>3, <1>4, <1>8, <1>9
<1>11. n \in Memory
  <2>1. \A d \in Conns : n[d] \in Contexts
    BY <1>1, <1>7, <1>8, <1>9
  <2>2. DOMAIN n = Conns /\ n = [d \in Conns |-> n[d]]
    BY <1>6
  <2> QED BY <2>1, <2>2 DEF Memory
<1>12. \A d \in Conns : \/ Kept(m[d], n[d])
                        \/ /\ m[d].state = "WAIT_FEED" /\ Woken(m[d], n[d], c, to)
                           /\ d \in woken
  BY <1>4, <1>7, <1>8, <1>9 DEF Kept
<1>13. Linked(n)
  <2>1. to \notin {"FREE", "WAIT_REQUEST"}
    BY DEF Sending
  <2>2. ASSUME NEW d \in woken PROVE d \in Conns /\ ~m[d].post
    BY <1>3, <1>4, NullNotConn DEF Sound, Linked
  <2> QED BY <1>12, <2>1, <2>2 DEF Linked, Sound, Kept, Woken
<1>14. Pointing(n, c) = Pointing(m, c) \cup adopted /\ Pointing(m, c) \cap adopted = {}
  BY <1>3, <1>4, <1>7, <1>8, <1>9, NullNotConn DEF Pointing, Kept, Woken
<1>15. Cardinality(Pointing(n, c)) = Cardinality(Pointing(m, c)) + Cardinality(adopted)
  <2> DEFINE P == Pointing(m, c)
  <2>1. IsFiniteSet(P) /\ Cardinality(P) \in Nat
    BY PointingFinite
  <2> HIDE DEF P
  <2>2. Cardinality(P \cup adopted) = Cardinality(P) + Cardinality(adopted)
                                        - Cardinality(P \cap adopted)
    BY <1>5, <2>1, FS_Union
  <2>3. Cardinality(P \cap adopted) = 0
    <3>1. P \cap adopted = {}
      BY <1>14 DEF P
    <3> QED BY <3>1, FS_EmptySet
  <2>4. Cardinality(P \cup adopted) = Cardinality(P) + Cardinality(adopted)
    BY <1>5, <2>1, <2>2, <2>3
  <2> QED BY <1>14, <2>4 DEF P
<1>16. ASSUME NEW g \in Conns, g # c
       PROVE  Pointing(n, g) = Pointing(m, g) /\ n[g].sff_ref_cnt = m[g].sff_ref_cnt
  <2>1. \A d \in woken : d \in Conns /\ m[d].feed_ctx # g
    BY <1>3, <1>4, <1>16, NullNotConn
  <2>2. \A d \in Conns : n[d].feed_ctx = g <=> m[d].feed_ctx = g
    BY <1>7, <1>8, <1>9, <1>16, <2>1 DEF Kept, Woken
  <2> QED BY <1>8, <1>9, <1>16, <2>2 DEF Pointing, Woken
<1>17. AtMost(n)
  <2> SUFFICES ASSUME NEW g \in Conns, n[g].state # "FREE"
               PROVE  n[g].sff_ref_cnt <= Cardinality(Pointing(n, g))
    BY DEF AtMost
  <2>1. m[g].state # "FREE" /\ m[g].sff_ref_cnt \in Int
    BY <1>1, <1>12 DEF Kept, Contexts
  <2>2. m[g].sff_ref_cnt <= Cardinality(Pointing(m, g))
    BY <2>1 DEF Sound, AtMost
  <2> QED BY <1>5, <1>7, <1>15, <1>16, <2>1, <2>2, PointingFinite
<1>18. Exact(m) => Exact(n)
  BY <1>7, <1>15, <1>16 DEF Exact
<1> QED BY <1>7, <1>10, <1>11, <1>13, <1>17, <1>18 DEF Sound, n

\* A change of one connection that touches neither its feed nor its count.
Local(m, n, c) ==
  /\ n \in Memory
  /\ \A d \in Conns \ {c} : n[d] = m[d]
  /\ n[c].feed_ctx = m[c].feed_ctx /\ n[c].post = m[c].post /\ n[c].url = m[c].url
  /\ n[c].sff_ref_cnt = m[c].sff_ref_cnt /\ n[c].sff = m[c].sff
  /\ {m[c].state, n[c].state} \subseteq States \ {"WAIT_REQUEST"}

LEMMA LocalOutcome ==
  ASSUME NEW m, Sound(m), NEW c \in Conns, NEW n, Local(m, n, c)
  PROVE  /\ Sound(n)
         /\ \A f \in Conns : Pointing(n, f) = Pointing(m, f)
         /\ Exact(m) => Exact(n)
<1>1. \A d \in Conns : /\ n[d].feed_ctx = m[d].feed_ctx /\ n[d].post = m[d].post
                       /\ n[d].sff_ref_cnt = m[d].sff_ref_cnt
                       /\ n[d].state = "FREE" <=> m[d].state = "FREE"
                       /\ n[d].state = "WAIT_REQUEST" <=> m[d].state = "WAIT_REQUEST"
  BY DEF Local, States, Sending
<1>2. \A f : Pointing(n, f) = Pointing(m, f)
  BY <1>1 DEF Pointing
<1>3. Linked(n) /\ AtMost(n) /\ (Exact(m) => Exact(n))
  BY <1>1, <1>2 DEF Sound, Linked, AtMost, Exact
<1> QED BY <1>2, <1>3 DEF Sound, Local

\* What the ring's operators give and take.
LEMMA RingTypes ==
  ASSUME NEW ring \in Rings
  PROVE  /\ ReadHeader(ring) \in HeaderPackets \cup {NULL}
         /\ \A i \in Slots : ReadData(ring, i) \in DataPackets \cup {NULL} /\ NextSlot(i) \in Slots
         /\ \A p \in HeaderPackets : WriteHeader(ring, p) \in Rings
         /\ \A p \in DataPackets : WriteData(ring, p) \in Rings
<1>1. \A i \in Slots : NextSlot(i) \in Slots
  BY RingAssumption DEF Slots, NextSlot
<1>2. /\ ring.sff_w \in Slots /\ ring.header \in HeaderPackets \cup {NULL}
      /\ ring.pkts \in [Slots -> DataPackets \cup {NULL}]
  BY DEF Rings
<1>3. ReadHeader(ring) \in HeaderPackets \cup {NULL}
  BY <1>2 DEF ReadHeader
<1>4. \A i \in Slots : ReadData(ring, i) \in DataPackets \cup {NULL}
  BY <1>2 DEF ReadData
<1>5. \A p \in HeaderPackets : WriteHeader(ring, p) \in Rings
  BY DEF WriteHeader, Rings
<1>6. ASSUME NEW p \in DataPackets PROVE WriteData(ring, p) \in Rings
  <2>1. [ring.pkts EXCEPT ![ring.sff_w] = p] \in [Slots -> DataPackets \cup {NULL}]
    BY <1>2
  <2>2. WriteData(ring, p) = [ring EXCEPT !.pkts = [ring.pkts EXCEPT ![ring.sff_w] = p],
                                          !.sff_w = NextSlot(ring.sff_w)]
    BY DEF WriteData
  <2> QED BY <1>1, <1>2, <2>1, <2>2 DEF Rings
<1> QED BY <1>1, <1>3, <1>4, <1>5, <1>6

LEMMA TypeFacts ==
  ASSUME TypeOK
  PROVE  /\ ctx \in Memory /\ \A c \in Conns : ctx[c] \in Contexts
         /\ Range(list) \subseteq Conns
         /\ \A c \in Conns : ctx[c].state # "FREE" => c \in Range(list)
<1>1. Range(list) \subseteq Conns
  BY DEF TypeOK, Range
<1> QED BY <1>1 DEF TypeOK, Memory

-----------------------------------------------------------------------------
(* The counts, whatever the environment does *)

\* The list after a step: a sequence of the connections that are allocated.
ListOK(l, m) == /\ l \in Seq(Conns) /\ IsInjective(l)
                /\ \A c \in Conns : m[c].state = "FREE" <=> c \notin Range(l)

LEMMA LinkInvInit == Init => LinkInv
<1> SUFFICES ASSUME Init PROVE LinkInv
  OBVIOUS
<1>1. ctx \in Memory /\ \A c \in Conns : ctx[c] = Freed
  BY FreedType DEF Init, Memory
<1>2. TypeOK
  <2>1. list \in Seq(Conns) /\ IsInjective(list) /\ Range(list) = {}
    BY DEF Init, IsInjective, Range
  <2>2. \A c \in Conns : ctx[c].state = "FREE"
    BY <1>1 DEF Freed
  <2>3. played \in [Conns -> [early : BOOLEAN, header : BOOLEAN, last : 0 .. MaxPackets]]
    BY FeedAssumption DEF Init, Nothing
  <2>4. accepted \in 0 .. MaxAccepts /\ sent \in [Conns -> 0 .. MaxPackets + 1]
    BY FeedAssumption DEF Init
  <2> QED BY <1>1, <2>1, <2>2, <2>3, <2>4 DEF Init, TypeOK, Memory
<1>3. Linked(ctx) /\ AtMost(ctx)
  BY <1>1 DEF Linked, AtMost, Freed
<1> QED BY <1>2, <1>3 DEF LinkInv

LEMMA ClosePreserves ==
  ASSUME TypeOK, NEW m, Sound(m), NEW c \in Conns,
         \A d \in Conns : m[d].state = "FREE" <=> ctx[d].state = "FREE",
         Close(m, c)
  PROVE  Sound(ctx') /\ ListOK(list', ctx')
<1>1. /\ Sound(ctx') /\ ctx'[c].state = "FREE"
      /\ \A d \in Conns \ {c} : ctx'[d].state = m[d].state
  BY CloseOutcome DEF Close, Freed, Kept
<1>2. PICK i \in DOMAIN list : list[i] = c /\ list' = RemoveAt(list, i)
  BY DEF Close, Unlist
<1>3. /\ list' \in Seq(Conns) /\ IsInjective(list')
      /\ Range(list') = Range(list) \ {c}
  BY <1>2, ListRemove DEF TypeOK
<1>4. \A d \in Conns : ctx'[d].state = "FREE" <=> d \notin Range(list')
  BY <1>1, <1>3 DEF TypeOK
<1> QED BY <1>1, <1>3, <1>4 DEF ListOK

\* The other variables keep their types in every step.
Rest == /\ accepted \in 0 .. MaxAccepts /\ sent \in [Conns -> 0 .. MaxPackets + 1]
        /\ ended \in [Conns -> BOOLEAN]
        /\ played \in [Conns -> [early : BOOLEAN, header : BOOLEAN, last : 0 .. MaxPackets]]

LEMMA LinkInvParts == LinkInv => Sound(ctx) /\ ListOK(list, ctx) /\ Rest
BY DEF LinkInv, Sound, ListOK, Rest, TypeOK, Memory

LEMMA LinkInvWhole == Sound(ctx') /\ ListOK(list', ctx') /\ Rest' => LinkInv'
BY DEF LinkInv, Sound, ListOK, Rest, TypeOK, Memory

LEMMA AcceptPreserves == ASSUME LinkInv, Accept PROVE LinkInv'
<1>1. PICK c \in Conns : /\ ctx[c].state = "FREE" /\ accepted < MaxAccepts
                         /\ accepted' = accepted + 1
                         /\ ctx' = [ctx EXCEPT ![c] = Fresh]
                         /\ list' = <<c>> \o list
                         /\ sent' = [sent EXCEPT ![c] = 0]
                         /\ ended' = [ended EXCEPT ![c] = FALSE]
                         /\ played' = [played EXCEPT ![c] = Nothing]
  BY DEF Accept
<1>2. Sound(ctx) /\ ListOK(list, ctx) /\ Rest
  BY LinkInvParts
<1>3. /\ ctx' \in Memory /\ ctx'[c] = Fresh
      /\ \A d \in Conns \ {c} : ctx'[d] = ctx[d]
  BY <1>1, <1>2, FreedType DEF Sound, Memory
<1>4. /\ ctx'[c].state = "WAIT_REQUEST" /\ ~ctx'[c].post /\ ctx'[c].feed_ctx = NULL
      /\ ctx'[c].sff_ref_cnt = 0
  BY <1>3 DEF Fresh, Freed
<1>5. ctx[c].feed_ctx = NULL
  BY <1>1, <1>2 DEF Sound, Linked
<1>6. \A f \in Conns : Pointing(ctx', f) = Pointing(ctx, f)
  BY <1>3, <1>4, <1>5 DEF Pointing
<1>7. Sound(ctx')
  <2>1. Linked(ctx')
    BY <1>2, <1>3, <1>4 DEF Sound, Linked
  <2>2. AtMost(ctx')
    BY <1>2, <1>3, <1>4, <1>6, PointingFinite DEF Sound, AtMost
  <2> QED BY <1>3, <2>1, <2>2 DEF Sound
<1>8. ListOK(list', ctx')
  <2>1. c \notin Range(list)
    BY <1>1, <1>2 DEF ListOK
  <2>2. /\ list' \in Seq(Conns) /\ IsInjective(list')
        /\ Range(list') = Range(list) \cup {c}
    BY <1>1, <1>2, <2>1, ListAdd DEF ListOK
  <2> QED BY <1>2, <1>3, <1>4, <2>2 DEF ListOK
<1>9. Rest'
  BY <1>1, <1>2, FeedAssumption DEF Rest, Nothing
<1> QED BY <1>7, <1>8, <1>9, LinkInvWhole

\* A step that leaves the list and the fate of every connection's memory alone.
LEMMA ListStays ==
  ASSUME ListOK(list, ctx), UNCHANGED list,
         \A d \in Conns : ctx'[d].state = "FREE" <=> ctx[d].state = "FREE"
  PROVE  ListOK(list', ctx')
BY DEF ListOK

LEMMA PostPreserves ==
  ASSUME LinkInv, NEW c \in Conns, NEW url \in Urls, PostStream(c, url)
  PROVE  /\ LinkInv' /\ ctx[c].state = "WAIT_REQUEST"
         /\ \A f \in Conns : Pointing(ctx', f) = Pointing(ctx, f)
<1>1. Sound(ctx) /\ ListOK(list, ctx) /\ Rest
  BY LinkInvParts
<1>2. ctx[c] \in Contexts /\ ctx \in Memory
  BY <1>1 DEF Sound, Memory
<1>3. /\ ctx' \in Memory /\ \A d \in Conns \ {c} : ctx'[d] = ctx[d]
      /\ ctx'[c].state \in {"SEND_HEADER", "RECEIVE_DATA"} /\ ctx'[c].post
      /\ ctx'[c].feed_ctx = ctx[c].feed_ctx /\ ctx'[c].sff_ref_cnt = ctx[c].sff_ref_cnt
  BY <1>2 DEF PostStream, Memory, Contexts, States
<1>4. ctx[c].state = "WAIT_REQUEST" /\ ctx[c].feed_ctx = NULL
  BY <1>1 DEF PostStream, Sound, Linked
<1>5. \A f : Pointing(ctx', f) = Pointing(ctx, f)
  BY <1>3 DEF Pointing
<1>6. Sound(ctx')
  <2>1. Linked(ctx')
    BY <1>1, <1>3, <1>4 DEF Sound, Linked
  <2>2. AtMost(ctx')
    BY <1>1, <1>3, <1>4, <1>5 DEF Sound, AtMost
  <2> QED BY <1>3, <2>1, <2>2 DEF Sound
<1>7. ListOK(list', ctx')
  BY <1>1, <1>3, <1>4, ListStays DEF PostStream
<1>8. Rest'
  BY <1>1 DEF Rest, PostStream
<1> QED BY <1>4, <1>5, <1>6, <1>7, <1>8, LinkInvWhole

\* A player that is given a feed is counted by it.
LEMMA GetOutcome ==
  ASSUME LinkInv, NEW c \in Conns, NEW url \in Urls, GetStream(c, url)
  PROVE  LET f == find_feed(ctx, url)
         IN /\ Sound(ctx') /\ ctx[c].state = "WAIT_REQUEST" /\ f # c
            /\ f = NULL \/ (f \in Conns /\ ctx[f].post /\ ctx[f].url = url /\ ctx[f].state # "FREE")
            /\ \A d \in Conns \ {c} : Kept(ctx[d], ctx'[d])
            /\ ctx'[c].state = "SEND_HEADER" /\ ctx'[c].feed_ctx = f /\ ctx'[c].url = url
            /\ ctx'[c].post = ctx[c].post /\ ctx'[c].buffer = ctx[c].buffer
            /\ ctx'[c].sff_r = ctx[c].sff_r
            /\ Exact(ctx) => Exact(ctx')
<1> DEFINE f == find_feed(ctx, url)
<1>1. Sound(ctx) /\ ListOK(list, ctx) /\ Rest
  BY LinkInvParts
<1>2. /\ ctx[c] \in Contexts /\ ctx \in Memory /\ \A d \in Conns : ctx[d] \in Contexts
      /\ ctx[c].state = "WAIT_REQUEST" /\ ctx[c].feed_ctx = NULL /\ ~ctx[c].post
  BY <1>1 DEF Sound, Memory, GetStream, Linked
<1>3. /\ f # c
      /\ f = NULL \/ (f \in Conns /\ ctx[f].post /\ ctx[f].url = url /\ ctx[f].state # "FREE")
  <2>1. TypeOK
    BY DEF LinkInv
  <2>2. \/ f = NULL
        \/ f \in Range(list) /\ f \in Conns /\ ctx[f].post /\ ctx[f].url = url
    BY <2>1, FindFeed
  <2> HIDE DEF f
  <2>3. CASE f = NULL
    BY <2>3, NullNotConn
  <2>4. CASE f \in Range(list) /\ f \in Conns /\ ctx[f].post /\ ctx[f].url = url
    <3>1. ctx[f].state # "FREE"
      BY <1>1, <2>4 DEF ListOK
    <3>2. f # c
      BY <1>2, <2>4
    <3> QED BY <2>4, <3>1, <3>2
  <2> QED BY <2>2, <2>3, <2>4
<1> HIDE DEF f
<1>4. ctx' = [(IF f = NULL THEN ctx ELSE [ctx EXCEPT ![f].sff_ref_cnt = @ + 1])
                EXCEPT ![c].url = url, ![c].feed_ctx = f, ![c].state = "SEND_HEADER"]
  BY DEF GetStream, f
<1>5. /\ ctx' \in Memory
      /\ ctx'[c] = [ctx[c] EXCEPT !.url = url, !.feed_ctx = f, !.state = "SEND_HEADER"]
      /\ \A d \in Conns \ {c} : ctx'[d] = IF d = f THEN [ctx[f] EXCEPT !.sff_ref_cnt = @ + 1]
                                          ELSE ctx[d]
  <2>1. CASE f = NULL
    BY <1>2, <1>4, <2>1, NullNotConn DEF Memory, Contexts, States
  <2>2. CASE f # NULL
    BY <1>2, <1>3, <1>4, <2>2 DEF Memory, Contexts, States
  <2> QED BY <2>1, <2>2
<1>6. /\ ctx'[c].state = "SEND_HEADER" /\ ctx'[c].feed_ctx = f /\ ctx'[c].url = url
      /\ ctx'[c].post = ctx[c].post /\ ctx'[c].buffer = ctx[c].buffer
      /\ ctx'[c].sff_ref_cnt = ctx[c].sff_ref_cnt /\ ctx'[c].sff_r = ctx[c].sff_r
  BY <1>2, <1>5 DEF Contexts
<1>7. \A d \in Conns \ {c} :
        /\ Kept(ctx[d], ctx'[d])
        /\ ctx'[d].sff_ref_cnt = IF d = f THEN ctx[d].sff_ref_cnt + 1 ELSE ctx[d].sff_ref_cnt
  BY <1>2, <1>5 DEF Kept, Contexts
<1>8. Linked(ctx')
  BY <1>1, <1>2, <1>6, <1>7 DEF Sound, Linked, Kept
<1>9. ASSUME NEW g \in Conns
      PROVE  Cardinality(Pointing(ctx', g)) =
               IF g = f THEN Cardinality(Pointing(ctx, g)) + 1 ELSE Cardinality(Pointing(ctx, g))
  <2>1. c \notin Pointing(ctx, g)
    BY <1>2, NullNotConn DEF Pointing
  <2>2. Pointing(ctx', g) = IF g = f THEN Pointing(ctx, g) \cup {c} ELSE Pointing(ctx, g)
    BY <1>2, <1>6, <1>7, <2>1 DEF Pointing, Kept
  <2> QED BY <2>1, <2>2, PointingFinite, FS_AddElement
<1>10. AtMost(ctx')
  <2> SUFFICES ASSUME NEW g \in Conns, ctx'[g].state # "FREE"
               PROVE  ctx'[g].sff_ref_cnt <= Cardinality(Pointing(ctx', g))
    BY DEF AtMost
  <2>1. ctx[g].state # "FREE" /\ ctx[g].sff_ref_cnt \in Int
    BY <1>2, <1>7 DEF Kept, Contexts
  <2>2. ctx[g].sff_ref_cnt <= Cardinality(Pointing(ctx, g))
    BY <1>1, <2>1 DEF Sound, AtMost
  <2> QED BY <1>3, <1>6, <1>7, <1>9, <2>1, <2>2, PointingFinite
<1>11. Exact(ctx) => Exact(ctx')
  BY <1>3, <1>6, <1>7, <1>9 DEF Exact
<1> QED BY <1>2, <1>3, <1>5, <1>6, <1>7, <1>8, <1>10, <1>11 DEF Sound, f

LEMMA GetPreserves ==
  ASSUME LinkInv, NEW c \in Conns, NEW url \in Urls, GetStream(c, url)
  PROVE  LinkInv'
<1>1. ListOK(list, ctx) /\ Rest
  BY LinkInvParts
<1>2. ListOK(list', ctx')
  <2>1. \A d \in Conns \ {c} : Kept(ctx[d], ctx'[d])
    BY GetOutcome
  <2>2. ctx[c].state # "FREE" /\ ctx'[c].state # "FREE"
    BY GetOutcome
  <2>3. \A d \in Conns : ctx'[d].state = "FREE" <=> ctx[d].state = "FREE"
    BY <2>1, <2>2 DEF Kept
  <2> QED BY <1>1, <2>3, ListStays DEF GetStream
<1>3. played'[c] \in [early : BOOLEAN, header : BOOLEAN, last : 0 .. MaxPackets]
  BY <1>1 DEF Rest, GetStream
<1>4. Rest'
  BY <1>1, <1>3 DEF Rest, GetStream
<1> QED BY <1>2, <1>4, GetOutcome, LinkInvWhole

\* A player's step changes the player alone, or closes it.
Stays(c)  == Local(ctx, ctx', c) /\ UNCHANGED list
Leaves(c) == \E m : (m = ctx \/ Local(ctx, m, c)) /\ Close(m, c)

LEMMA StaysPreserves ==
  ASSUME LinkInv, NEW c \in Conns, Stays(c), Rest'
  PROVE  LinkInv'
<1>1. Sound(ctx) /\ ListOK(list, ctx)
  BY LinkInvParts
<1>2. Sound(ctx')
  BY <1>1, LocalOutcome DEF Stays
<1>3. \A d \in Conns : ctx'[d].state = "FREE" <=> ctx[d].state = "FREE"
  BY DEF Stays, Local, States, Sending
<1> QED BY <1>1, <1>2, <1>3, ListStays, LinkInvWhole DEF Stays

LEMMA LeavesPreserves ==
  ASSUME LinkInv, NEW c \in Conns, Leaves(c), Rest'
  PROVE  LinkInv'
<1>1. PICK m : (m = ctx \/ Local(ctx, m, c)) /\ Close(m, c)
  BY DEF Leaves
<1>2. Sound(ctx)
  BY LinkInvParts
<1>3. Sound(m)
  BY <1>1, <1>2, LocalOutcome
<1>4. \A d \in Conns : m[d].state = "FREE" <=> ctx[d].state = "FREE"
  BY <1>1 DEF Local, States, Sending
<1>5. Sound(ctx') /\ ListOK(list', ctx')
  BY <1>1, <1>3, <1>4, ClosePreserves DEF LinkInv
<1> QED BY <1>5, LinkInvWhole

\* The end of http_send_data.
LEMMA SendOutcome ==
  ASSUME LinkInv, NEW c \in Conns, NEW m, Local(ctx, m, c), NEW p \in Packets,
         NEW all \in BOOLEAN, Send(c, m, p, all)
  PROVE  /\ Rest' /\ UNCHANGED <<accepted, sent, ended>>
         /\ \/ m[c].state = "SEND_DATA_TRAILER" /\ Leaves(c) /\ ctx'[c].state = "FREE"
            \/ /\ Stays(c) /\ ctx'[c].state = m[c].state /\ ctx'[c].sff_r = m[c].sff_r
               /\ m[c].state # "SEND_DATA_TRAILER"
               /\ ctx'[c].buffer \in {NULL, p}
<1>1. Sound(ctx) /\ Rest
  BY LinkInvParts
<1>2. Rest'
  <2>1. p.n \in 0 .. MaxPackets
    BY FeedAssumption DEF Packets, HeaderPackets, DataPackets
  <2> QED BY <1>1, <2>1 DEF Rest, Send
<1>3. CASE m[c].state = "SEND_DATA_TRAILER"
  <2>1. Close(m, c)
    BY <1>3 DEF Send
  <2>2. Sound(m)
    BY <1>1, LocalOutcome
  <2>3. ctx'[c].state = "FREE"
    BY <2>1, <2>2, CloseOutcome DEF Close, Freed
  <2> QED BY <1>2, <1>3, <2>1, <2>3 DEF Leaves, Send
<1>4. CASE m[c].state # "SEND_DATA_TRAILER"
  <2>1. ctx' = [m EXCEPT ![c].buffer = IF all THEN NULL ELSE p] /\ UNCHANGED list
    BY <1>4 DEF Send
  <2>2. m \in Memory /\ m[c] \in Contexts
    BY DEF Local, Memory
  <2>3. /\ ctx' \in Memory /\ \A d \in Conns \ {c} : ctx'[d] = m[d]
        /\ ctx'[c] = [m[c] EXCEPT !.buffer = IF all THEN NULL ELSE p]
    BY <2>1, <2>2 DEF Memory, Contexts
  <2>4. /\ ctx'[c].state = m[c].state /\ ctx'[c].sff_r = m[c].sff_r
        /\ ctx'[c].buffer \in {NULL, p} /\ ctx'[c].feed_ctx = m[c].feed_ctx
        /\ ctx'[c].post = m[c].post /\ ctx'[c].url = m[c].url
        /\ ctx'[c].sff_ref_cnt = m[c].sff_ref_cnt /\ ctx'[c].sff = m[c].sff
    BY <2>2, <2>3 DEF Contexts
  <2>5. Stays(c)
    BY <2>1, <2>3, <2>4 DEF Stays, Local
  <2> QED BY <1>2, <1>4, <2>4, <2>5 DEF Send
<1> QED BY <1>3, <1>4

\* The handler of a connection that sends, sleeps or fails, in all its branches.
LEMMA SendHeaderOutcome ==
  ASSUME LinkInv, NEW c \in Conns, SendHeader(c)
  PROVE  /\ Rest' /\ UNCHANGED <<accepted, sent, ended, played>>
         /\ \/ Leaves(c) /\ ctx[c].error
            \/ Stays(c) /\ ctx'[c].state = "SEND_DATA_HEADER" /\ ctx'[c].sff_r = ctx[c].sff_r
                        /\ ctx'[c].buffer = ctx[c].buffer
<1>1. Sound(ctx) /\ Rest /\ ctx[c] \in Contexts
  BY LinkInvParts DEF Sound, Memory
<1>2. Rest' /\ UNCHANGED <<accepted, sent, ended, played>>
  BY <1>1 DEF Rest, SendHeader
<1>3. CASE ctx[c].error /\ Close(ctx, c)
  BY <1>2, <1>3 DEF Leaves
<1>4. CASE ctx' = [ctx EXCEPT ![c].state = "SEND_DATA_HEADER"] /\ UNCHANGED list
  <2>1. ctx' \in Memory /\ ctx'[c] = [ctx[c] EXCEPT !.state = "SEND_DATA_HEADER"]
    BY <1>1, <1>4 DEF Sound, Memory, Contexts, States, Sending
  <2>2. Stays(c)
    BY <1>1, <1>4, <2>1 DEF Stays, Local, Contexts, SendHeader, States, Sending
  <2> QED BY <1>1, <1>2, <2>1, <2>2 DEF Contexts
<1> QED BY <1>3, <1>4 DEF SendHeader

LEMMA SendRestOutcome ==
  ASSUME LinkInv, NEW c \in Conns, SendRest(c)
  PROVE  Rest' /\ UNCHANGED <<accepted, sent, ended>> /\ (Stays(c) \/ Leaves(c))
<1>1. Sound(ctx) /\ ctx[c] \in Contexts
  BY LinkInvParts DEF Sound, Memory
<1>2. Local(ctx, ctx, c)
  BY <1>1 DEF Local, SendRest, States, Sending, Sound
<1>3. ctx[c].buffer \in Packets
  BY <1>1 DEF SendRest, Contexts
<1> QED BY <1>2, <1>3, SendOutcome DEF SendRest

LEMMA SleepOutcome ==
  ASSUME LinkInv, NEW c \in Conns, ctx[c].state \in Sending, Sleep(c)
  PROVE  /\ Rest' /\ UNCHANGED <<accepted, sent, ended, played>> /\ Stays(c)
         /\ ctx'[c].state = "WAIT_FEED" /\ ctx'[c].sff_r = ctx[c].sff_r
         /\ ctx'[c].buffer = ctx[c].buffer
<1>1. Sound(ctx) /\ Rest /\ ctx[c] \in Contexts
  BY LinkInvParts DEF Sound, Memory
<1>2. ctx' \in Memory /\ ctx'[c] = [ctx[c] EXCEPT !.state = "WAIT_FEED"]
  BY <1>1 DEF Sound, Memory, Contexts, States, Sleep
<1>3. Stays(c)
  BY <1>1, <1>2 DEF Stays, Local, Contexts, Sleep, States, Sending
<1> QED BY <1>1, <1>2, <1>3 DEF Contexts, Sleep, Rest

\* sff_prepare_data in SEND_DATA_HEADER: the player sleeps when there is no header.
LEMMA SendDataHeaderOutcome ==
  ASSUME LinkInv, NEW c \in Conns, NEW all \in BOOLEAN, SendDataHeader(c, all)
  PROVE  /\ Rest' /\ UNCHANGED <<accepted, sent, ended>> /\ Stays(c)
         /\ ctx'[c].sff_r = ctx[c].sff_r
         /\ \/ /\ ctx'[c].state = "WAIT_FEED" /\ UNCHANGED played
               /\ ctx[c].feed_ctx # NULL => ctx[ctx[c].feed_ctx].sff.header = NULL
               /\ ctx'[c].buffer = ctx[c].buffer
            \/ /\ ctx'[c].state = "SEND_DATA" /\ ctx[c].feed_ctx # NULL
               /\ ctx'[c].buffer = NULL \/ ctx'[c].buffer.kind = "header"
               /\ played' = [played EXCEPT ![c].header = TRUE]
<1> DEFINE f == ctx[c].feed_ctx
           sff == IF f = NULL THEN NULL ELSE ReadHeader(ctx[f].sff)
           m == [ctx EXCEPT ![c].state = "SEND_DATA"]
<1>1. /\ Sound(ctx) /\ Rest /\ ctx[c] \in Contexts /\ f \in Conns \cup {NULL}
      /\ ctx[c].state = "SEND_DATA_HEADER" /\ ctx \in Memory
  BY LinkInvParts DEF Sound, Memory, Contexts, SendDataHeader
<1>2. CASE sff = NULL /\ Sleep(c)
  <2>1. ctx[c].state \in Sending
    BY <1>1 DEF Sending
  <2>2. /\ Rest' /\ UNCHANGED <<accepted, sent, ended, played>> /\ Stays(c)
        /\ ctx'[c].state = "WAIT_FEED" /\ ctx'[c].buffer = ctx[c].buffer
        /\ ctx'[c].sff_r = ctx[c].sff_r
    BY <1>2, <2>1, SleepOutcome
  <2>3. f # NULL => ctx[f].sff.header = NULL
    BY <1>2 DEF ReadHeader
  <2> QED BY <2>2, <2>3
<1>3. CASE sff # NULL /\ Send(c, m, sff, all)
  <2>1. sff \in HeaderPackets
    <3>1. f \in Conns /\ ctx[f].sff \in Rings
      BY <1>1, <1>3 DEF Memory, Contexts
    <3> QED BY <1>3, <3>1, RingTypes
  <2>2. sff \in Packets /\ sff.kind = "header"
    BY <2>1 DEF Packets, HeaderPackets
  <2>3. m \in Memory /\ m[c] = [ctx[c] EXCEPT !.state = "SEND_DATA"]
    BY <1>1 DEF Memory, Contexts, States, Sending
  <2>4. Local(ctx, m, c) /\ m[c].state = "SEND_DATA" /\ m[c].sff_r = ctx[c].sff_r
    BY <1>1, <2>3 DEF Local, Contexts, States, Sending
  <2> HIDE DEF m, sff
  <2>5. /\ Rest' /\ UNCHANGED <<accepted, sent, ended>>
        /\ Stays(c) /\ ctx'[c].state = "SEND_DATA" /\ ctx'[c].sff_r = ctx[c].sff_r
        /\ ctx'[c].buffer = NULL \/ ctx'[c].buffer.kind = "header"
    BY <1>3, <2>2, <2>4, SendOutcome
  <2>6. played' = [played EXCEPT ![c].header = TRUE]
    BY <1>3, <2>2 DEF Send
  <2>7. f # NULL
    BY <1>3 DEF sff
  <2> QED BY <2>5, <2>6, <2>7
<1> QED BY <1>2, <1>3 DEF SendDataHeader

\* ... and in SEND_DATA, when there is no packet; otherwise packet p is sent.
Reads(c, p) ==
  /\ p # NULL /\ p \in DataPackets /\ p.kind # "header"
  /\ played'[c].last = p.n /\ played'[c].early = played[c].early
  /\ \/ Leaves(c)
     \/ /\ Stays(c) /\ ctx'[c].state = "SEND_DATA" /\ ctx'[c].sff_r = NextSlot(ctx[c].sff_r)
        /\ ctx'[c].buffer \in {NULL, p}

LEMMA SendDataOutcome ==
  ASSUME LinkInv, NEW c \in Conns, NEW all \in BOOLEAN, SendData(c, all)
  PROVE  /\ Rest' /\ UNCHANGED <<accepted, sent, ended>>
         /\ \/ /\ Stays(c) /\ ctx'[c].state = "WAIT_FEED" /\ ctx'[c].sff_r = ctx[c].sff_r
               /\ ctx[c].feed_ctx # NULL =>
                    ReadData(ctx[ctx[c].feed_ctx].sff, ctx[c].sff_r) = NULL
               /\ UNCHANGED played /\ ctx'[c].buffer = ctx[c].buffer
            \/ /\ Leaves(c) \/ (Stays(c) /\ ctx'[c].state \in Sending)
               /\ \A d \in Conns \ {c} : played'[d] = played[d]
               /\ played'[c].header = played[c].header
               /\ ctx[c].feed_ctx # NULL
               /\ Reads(c, ReadData(ctx[ctx[c].feed_ctx].sff, ctx[c].sff_r))
<1> DEFINE f == ctx[c].feed_ctx
           sff == IF f = NULL THEN NULL ELSE ReadData(ctx[f].sff, ctx[c].sff_r)
           m == [ctx EXCEPT ![c].sff_r = NextSlot(@),
                            ![c].state = IF sff.kind = "trailer"
                                         THEN "SEND_DATA_TRAILER" ELSE @]
<1>1. /\ Sound(ctx) /\ Rest /\ ctx[c] \in Contexts /\ f \in Conns \cup {NULL}
      /\ ctx[c].state = "SEND_DATA" /\ ctx \in Memory /\ ctx[c].sff_r \in Slots
  BY LinkInvParts DEF Sound, Memory, Contexts, SendData
<1>2. CASE sff = NULL /\ Sleep(c)
  <2>1. ctx[c].state \in Sending
    BY <1>1 DEF Sending
  <2>2. /\ Rest' /\ UNCHANGED <<accepted, sent, ended, played>> /\ Stays(c)
        /\ ctx'[c].state = "WAIT_FEED" /\ ctx'[c].sff_r = ctx[c].sff_r
        /\ ctx'[c].buffer = ctx[c].buffer
    BY <1>2, <2>1, SleepOutcome
  <2>3. f # NULL => ReadData(ctx[f].sff, ctx[c].sff_r) = NULL
    BY <1>2
  <2> QED BY <2>2, <2>3
<1>3. CASE sff # NULL /\ Send(c, m, sff, all)
  <2>1. sff \in DataPackets /\ NextSlot(ctx[c].sff_r) \in Slots
    <3>1. f \in Conns /\ ctx[f].sff \in Rings
      BY <1>1, <1>3 DEF Memory, Contexts
    <3> QED BY <1>1, <1>3, <3>1, RingTypes
  <2>2. sff \in Packets /\ sff.kind # "header"
    BY <2>1 DEF Packets, DataPackets
  <2> HIDE DEF sff
  <2> DEFINE next == IF sff.kind = "trailer" THEN "SEND_DATA_TRAILER" ELSE "SEND_DATA"
  <2>3. next \in Sending /\ next # "WAIT_REQUEST"
    BY DEF Sending
  <2>4. m[c] = [ctx[c] EXCEPT !.sff_r = NextSlot(ctx[c].sff_r), !.state = next]
    BY <1>1 DEF Memory, Contexts
  <2> HIDE DEF next, m
  <2>5. m[c] \in Contexts /\ m[c].state = next /\ m[c].feed_ctx = ctx[c].feed_ctx
        /\ m[c].post = ctx[c].post /\ m[c].url = ctx[c].url
        /\ m[c].sff_ref_cnt = ctx[c].sff_ref_cnt /\ m[c].sff = ctx[c].sff
    <3>1. next \in States \cup {"FREE"}
      BY <2>3 DEF States
    <3> HIDE DEF f
    <3> QED BY <1>1, <2>1, <2>4, <3>1 DEF Contexts
  <2>6. m \in Memory /\ \A d \in Conns \ {c} : m[d] = ctx[d]
    <3>1. m = [ctx EXCEPT ![c] = m[c]] /\ DOMAIN ctx = Conns
      BY <1>1 DEF Memory, m
    <3> QED BY <1>1, <2>5, <3>1 DEF Memory
  <2>7. Local(ctx, m, c)
    BY <1>1, <2>3, <2>5, <2>6 DEF Local, States, Sending
  <2>8. /\ Rest' /\ UNCHANGED <<accepted, sent, ended>>
        /\ Leaves(c) \/ (Stays(c) /\ ctx'[c].state \in Sending)
    BY <1>3, <2>2, <2>3, <2>5, <2>7, SendOutcome
  <2>10. /\ m[c].state = "SEND_DATA_TRAILER" \/ m[c].state = "SEND_DATA"
         /\ m[c].sff_r = NextSlot(ctx[c].sff_r)
    BY <1>1, <2>1, <2>4, <2>5 DEF Contexts, next
  <2>11. \/ Leaves(c)
         \/ /\ Stays(c) /\ ctx'[c].state = "SEND_DATA" /\ ctx'[c].sff_r = NextSlot(ctx[c].sff_r)
            /\ ctx'[c].buffer \in {NULL, sff}
    BY <1>3, <2>2, <2>7, <2>10, SendOutcome
  <2>12. played'[c].last = sff.n /\ played'[c].early = played[c].early
    BY <1>1, <1>3, <2>2 DEF Send, Rest
  <2>13. f # NULL /\ sff = ReadData(ctx[f].sff, ctx[c].sff_r)
    BY <1>3 DEF sff
  <2>14. Reads(c, sff)
    BY <1>3, <2>1, <2>2, <2>11, <2>12 DEF Reads
  <2>9. /\ \A d \in Conns \ {c} : played'[d] = played[d]
        /\ played'[c].header = played[c].header
    BY <1>1, <1>3, <2>2 DEF Send, Rest
  <2> QED BY <2>8, <2>9, <2>13, <2>14
<1> QED BY <1>2, <1>3 DEF SendData

LEMMA SendTrailerOutcome ==
  ASSUME LinkInv, NEW c \in Conns, SendTrailer(c) \/ Drop(c)
  PROVE  /\ Rest' /\ UNCHANGED <<accepted, sent, ended, played>> /\ Leaves(c)
         /\ ctx[c].state \in States \ {"RECEIVE_DATA"}
BY LinkInvParts DEF SendTrailer, Drop, Leaves, Rest, States, Sending

\* What a feeder's call leaves in memory n: its own fields, and those it woke.
Woke(n, c, to) ==
  /\ Sound(n) /\ (Exact(ctx) => Exact(n))
  /\ n[c].state = "RECEIVE_DATA" /\ n[c].post = ctx[c].post /\ n[c].url = ctx[c].url
  /\ n[c].feed_ctx = ctx[c].feed_ctx
  /\ \A d \in Conns \ {c} :
       \/ n[d] = ctx[d] /\ ~(ctx[d].state = "WAIT_FEED" /\ ctx[d].feed_ctx = c)
       \/ /\ ctx[d].state = "WAIT_FEED" /\ Woken(ctx[d], n[d], c, to)
          /\ ctx[d].feed_ctx = c \/ (ctx[d].feed_ctx = NULL /\ ctx[d].url = ctx[c].url)

LEMMA WokeFrees ==
  ASSUME NEW n, NEW c \in Conns, NEW to \in Sending, ctx[c].state = "RECEIVE_DATA",
         Woke(n, c, to)
  PROVE  \A d \in Conns : n[d].state = "FREE" <=> ctx[d].state = "FREE"
BY DEF Woke, Woken, Sending

\* sff_write has changed the ring before the others are woken.
LEMMA WriteWoke ==
  ASSUME LinkInv, NEW c \in Conns, ctx[c].state = "RECEIVE_DATA", NEW to \in Sending,
         NEW ring \in Rings
  PROVE  LET n == wake_others([ctx EXCEPT ![c].sff = ring], c, to)
         IN Woke(n, c, to) /\ n[c].sff = ring
<1> DEFINE m == [ctx EXCEPT ![c].sff = ring]
           n == wake_others(m, c, to)
<1>1. /\ Sound(ctx) /\ ListOK(list, ctx) /\ ctx[c] \in Contexts /\ ctx \in Memory
      /\ Range(list) \subseteq Conns
  BY LinkInvParts, TypeFacts DEF Sound, Memory, LinkInv
<1>2. m \in Memory /\ m[c] = [ctx[c] EXCEPT !.sff = ring]
  BY <1>1 DEF Memory, Contexts
<1>3. \A d \in Conns \ {c} : m[d] = ctx[d]
  BY <1>1 DEF Memory
<1> HIDE DEF m
<1>4. /\ m[c].state = ctx[c].state /\ m[c].post = ctx[c].post /\ m[c].url = ctx[c].url
      /\ m[c].feed_ctx = ctx[c].feed_ctx /\ m[c].sff_ref_cnt = ctx[c].sff_ref_cnt
      /\ m[c].sff = ring
  BY <1>1, <1>2 DEF Contexts
<1>5. \A f : Pointing(m, f) = Pointing(ctx, f)
  BY <1>3, <1>4 DEF Pointing
<1>6. Sound(m) /\ (Exact(ctx) => Exact(m))
  BY <1>1, <1>2, <1>3, <1>4, <1>5 DEF Sound, Linked, AtMost, Exact
<1>7. m[c].state = "RECEIVE_DATA"
  BY <1>4
<1>8. \A d \in Conns : m[d].state = "WAIT_FEED" => d \in Range(list)
  BY <1>1, <1>3, <1>7 DEF ListOK
<1>9. /\ Sound(n) /\ Kept(m[c], n[c])
      /\ \A d \in Conns \ {c} :
           \/ n[d] = m[d] /\ ~(m[d].state = "WAIT_FEED" /\ m[d].feed_ctx = c)
           \/ /\ m[d].state = "WAIT_FEED" /\ Woken(m[d], n[d], c, to)
              /\ m[d].feed_ctx = c \/ (m[d].feed_ctx = NULL /\ m[d].url = m[c].url)
      /\ Exact(m) => Exact(n)
  BY <1>1, <1>6, <1>7, <1>8, WakeOutcome
<1> HIDE DEF n
<1> QED BY <1>3, <1>4, <1>6, <1>7, <1>9 DEF Woke, Kept, n, m

LEMMA EndWoke ==
  ASSUME LinkInv, NEW c \in Conns, ctx[c].state = "RECEIVE_DATA", NEW to \in Sending
  PROVE  LET n == wake_others(ctx, c, to)
         IN Woke(n, c, to) /\ n[c].sff = ctx[c].sff
<1>1. /\ ctx \in Memory /\ ctx[c] \in Contexts /\ ctx[c].sff \in Rings
  BY LinkInvParts DEF Sound, Memory, Contexts
<1>2. ctx = [ctx EXCEPT ![c].sff = ctx[c].sff]
  BY <1>1 DEF Memory, Contexts
<1> QED BY <1>1, <1>2, WriteWoke

LEMMA PacketOutcome ==
  ASSUME LinkInv, NEW c \in Conns, ReceivePacket(c)
  PROVE  /\ Rest' /\ UNCHANGED <<list, accepted, played>>
         /\ ctx[c].state = "RECEIVE_DATA" /\ sent' = [sent EXCEPT ![c] = sent[c] + 1]
         /\ \/ /\ sent[c] = 0 /\ Woke(ctx', c, "SEND_DATA_HEADER")
               /\ ctx'[c].sff.header # NULL /\ UNCHANGED ended
               /\ \E p : ctx'[c].sff = WriteHeader(ctx[c].sff, p)
            \/ /\ sent[c] > 0 /\ Woke(ctx', c, "SEND_DATA")
               /\ ctx'[c].sff.header = ctx[c].sff.header
               /\ \A d \in Conns \ {c} : ended'[d] = ended[d]
               /\ \E p \in DataPackets : p.n = sent[c] /\ ctx'[c].sff = WriteData(ctx[c].sff, p)
<1>1. /\ Rest /\ ctx[c] \in Contexts /\ ctx[c].sff \in Rings /\ sent[c] \in 0 .. MaxPackets + 1
      /\ ctx[c].state = "RECEIVE_DATA" /\ sent[c] <= MaxPackets
  BY LinkInvParts DEF Sound, Memory, Contexts, Rest, ReceivePacket
<1>2. UNCHANGED <<list, accepted, played>> /\ sent' = [sent EXCEPT ![c] = sent[c] + 1]
  BY DEF ReceivePacket
<1>3. "SEND_DATA_HEADER" \in Sending /\ "SEND_DATA" \in Sending
  BY DEF Sending
<1>4. CASE /\ sent[c] = 0
           /\ ctx' = wake_others([ctx EXCEPT ![c].sff = WriteHeader(@, Packet("header", 0))],
                                 c, "SEND_DATA_HEADER")
           /\ UNCHANGED ended
  <2> DEFINE p == Packet("header", 0)
             ring == WriteHeader(ctx[c].sff, p)
  <2>1. p \in HeaderPackets /\ p # NULL
    BY NullNotConn DEF HeaderPackets, Packets, Packet
  <2>2. ring \in Rings
    BY <1>1, <2>1, RingTypes
  <2>3. ring.header = p
    BY <1>1 DEF WriteHeader, Rings
  <2> HIDE DEF p
  <2>4. Woke(ctx', c, "SEND_DATA_HEADER") /\ ctx'[c].sff = ring
    BY <1>1, <1>3, <1>4, <2>2, WriteWoke DEF p
  <2>5. Rest'
    BY <1>1, <1>2, <1>4, FeedAssumption DEF Rest
  <2> QED BY <1>1, <1>2, <1>4, <2>1, <2>3, <2>4, <2>5
<1>5. CASE /\ sent[c] > 0
           /\ \E kind \in {"data", "trailer"} :
                /\ ctx' = wake_others([ctx EXCEPT ![c].sff = WriteData(@, Packet(kind, sent[c]))],
                                      c, "SEND_DATA")
                /\ ended' = [ended EXCEPT ![c] = (kind = "trailer")]
  <2>1. PICK kind \in {"data", "trailer"} :
          /\ ctx' = wake_others([ctx EXCEPT ![c].sff = WriteData(@, Packet(kind, sent[c]))],
                                c, "SEND_DATA")
          /\ ended' = [ended EXCEPT ![c] = (kind = "trailer")]
    BY <1>5
  <2> DEFINE p == Packet(kind, sent[c])
             ring == WriteData(ctx[c].sff, p)
  <2>2. p \in DataPackets
    BY <1>1, <1>5 DEF DataPackets, Packet
  <2>3. ring \in Rings
    BY <1>1, <2>2, RingTypes
  <2>4. ring.header = ctx[c].sff.header
    BY <1>1 DEF WriteData, Rings
  <2> HIDE DEF p
  <2>5. Woke(ctx', c, "SEND_DATA") /\ ctx'[c].sff = ring
    BY <1>1, <1>3, <2>1, <2>3, WriteWoke DEF p
  <2>6. Rest'
    BY <1>1, <1>2, <2>1, FeedAssumption DEF Rest
  <2>7. p.n = sent[c]
    BY DEF p, Packet
  <2>8. \A d \in Conns \ {c} : ended'[d] = ended[d]
    BY <1>1, <2>1 DEF Rest
  <2> QED BY <1>1, <1>2, <1>5, <2>2, <2>4, <2>5, <2>6, <2>7, <2>8
<1> QED BY <1>4, <1>5 DEF ReceivePacket

LEMMA EndOutcome ==
  ASSUME LinkInv, NEW c \in Conns, ReceiveEnd(c) \/ HangUp(c)
  PROVE  LET n == wake_others(ctx, c, "SEND_DATA_TRAILER")
         IN /\ Rest' /\ UNCHANGED <<accepted, sent, ended, played>>
            /\ ctx[c].state = "RECEIVE_DATA" /\ Woke(n, c, "SEND_DATA_TRAILER")
            /\ n[c].sff = ctx[c].sff
            /\ \/ Close(n, c) /\ (n[c].sff_ref_cnt <= 0 \/ Hangups)
               \/ ctx' = n /\ UNCHANGED list
<1>1. ctx[c].state = "RECEIVE_DATA" /\ "SEND_DATA_TRAILER" \in Sending
  BY DEF ReceiveEnd, HangUp, Sending
<1>2. /\ Woke(wake_others(ctx, c, "SEND_DATA_TRAILER"), c, "SEND_DATA_TRAILER")
      /\ wake_others(ctx, c, "SEND_DATA_TRAILER")[c].sff = ctx[c].sff
  BY <1>1, EndWoke
<1>3. Rest' /\ UNCHANGED <<accepted, sent, ended, played>>
  BY LinkInvParts DEF Rest, ReceiveEnd, HangUp
<1> QED BY <1>1, <1>2, <1>3 DEF ReceiveEnd, HangUp

LEMMA WokePreserves ==
  ASSUME LinkInv, NEW c \in Conns, NEW to \in Sending, ctx[c].state = "RECEIVE_DATA",
         Woke(ctx', c, to), UNCHANGED list, Rest'
  PROVE  LinkInv'
<1>1. \A d \in Conns : ctx'[d].state = "FREE" <=> ctx[d].state = "FREE"
  BY WokeFrees
<1>2. ListOK(list', ctx')
  BY <1>1, LinkInvParts, ListStays
<1> QED BY <1>2, LinkInvWhole DEF Woke

LEMMA WokeClosePreserves ==
  ASSUME LinkInv, NEW c \in Conns, NEW to \in Sending, ctx[c].state = "RECEIVE_DATA",
         NEW n, Woke(n, c, to), Close(n, c), Rest'
  PROVE  LinkInv'
<1>1. \A d \in Conns : n[d].state = "FREE" <=> ctx[d].state = "FREE"
  BY WokeFrees
<1>2. Sound(n)
  BY DEF Woke
<1>3. Sound(ctx') /\ ListOK(list', ctx')
  BY <1>1, <1>2, ClosePreserves DEF LinkInv
<1> QED BY <1>3, LinkInvWhole

LEMMA LinkInvNext == LinkInv /\ [Next]_vars => LinkInv'
<1> SUFFICES ASSUME LinkInv, [Next]_vars PROVE LinkInv'
  OBVIOUS
<1>1. CASE Accept
  BY <1>1, AcceptPreserves
<1>2. ASSUME NEW c \in Conns, NEW url \in Urls, PostStream(c, url) \/ GetStream(c, url)
      PROVE  LinkInv'
  BY <1>2, PostPreserves, GetPreserves
<1>3. ASSUME NEW c \in Conns, SendHeader(c)
      PROVE  LinkInv'
  BY <1>3, SendHeaderOutcome, StaysPreserves, LeavesPreserves
<1>4. ASSUME NEW c \in Conns, SendRest(c)
      PROVE  LinkInv'
  BY <1>4, SendRestOutcome, StaysPreserves, LeavesPreserves
<1>5. ASSUME NEW c \in Conns, NEW all \in BOOLEAN, SendDataHeader(c, all)
      PROVE  LinkInv'
  BY <1>5, SendDataHeaderOutcome, StaysPreserves
<1>6. ASSUME NEW c \in Conns, NEW all \in BOOLEAN, SendData(c, all)
      PROVE  LinkInv'
  BY <1>6, SendDataOutcome, StaysPreserves, LeavesPreserves
<1>7. ASSUME NEW c \in Conns, SendTrailer(c) \/ Drop(c)
      PROVE  LinkInv'
  BY <1>7, SendTrailerOutcome, LeavesPreserves
<1>8. ASSUME NEW c \in Conns, ReceivePacket(c)
      PROVE  LinkInv'
  <2>1. "SEND_DATA_HEADER" \in Sending /\ "SEND_DATA" \in Sending
    BY DEF Sending
  <2> QED BY <1>8, <2>1, PacketOutcome, WokePreserves
<1>9. ASSUME NEW c \in Conns, PeerEnds(c)
      PROVE  LinkInv'
  <2>1. Rest'
    BY <1>9, LinkInvParts DEF Rest, PeerEnds
  <2> QED BY <1>9, <2>1, LinkInvParts, LinkInvWhole DEF PeerEnds
<1>10. ASSUME NEW c \in Conns, ReceiveEnd(c) \/ HangUp(c)
       PROVE  LinkInv'
  <2>1. "SEND_DATA_TRAILER" \in Sending
    BY DEF Sending
  <2> QED BY <1>10, <2>1, EndOutcome, WokePreserves, WokeClosePreserves
<1>11. CASE UNCHANGED vars
  BY <1>11, LinkInvParts, LinkInvWhole DEF vars, Rest
<1> QED BY <1>1, <1>2, <1>3, <1>4, <1>5, <1>6, <1>7, <1>8, <1>9, <1>10, <1>11
        DEF Next, Serve

-----------------------------------------------------------------------------
(* The theorems that hold in every environment *)

\* The types, the list and the counts, in every environment.
THEOREM FeedLinks == Spec => []LinkInv
BY LinkInvInit, LinkInvNext, PTL DEF Spec

\* No phantom reference keeps a feeder open, even when feeders are cut off, addresses
\* reused and streams posted twice.
THEOREM FeedNoPhantomPlayers == Spec => []NoPhantomPlayers
<1>1. LinkInv => NoPhantomPlayers
  <2> SUFFICES ASSUME LinkInv, NEW f \in Feeders
               PROVE  ctx[f].sff_ref_cnt <= Cardinality({c \in Players : ctx[c].feed_ctx = f})
    BY DEF NoPhantomPlayers
  <2>1. /\ f \in Conns /\ ctx[f].state # "FREE" /\ Range(list) \subseteq Conns
        /\ \A c \in Conns : ctx[c].state # "FREE" => c \in Range(list)
    BY TypeFacts DEF Feeders, LinkInv
  <2>2. {c \in Players : ctx[c].feed_ctx = f} = Pointing(ctx, f)
    BY <2>1, NullNotConn DEF Players, Pointing, LinkInv, Linked
  <2> QED BY <2>1, <2>2 DEF LinkInv, AtMost
<1> QED BY <1>1, FeedLinks, PTL

-----------------------------------------------------------------------------
(* Where no feeder is cut off and no stream is posted twice *)

LEMMA NobodyPoints ==
  ASSUME Alive, NEW c \in Conns, ctx[c].state # "RECEIVE_DATA"
  PROVE  Pointing(ctx, c) = {}
BY NullNotConn DEF Alive, Pointing

LEMMA QuietInvInit == Init => QuietInv
<1> SUFFICES ASSUME Init PROVE QuietInv
  OBVIOUS
<1>1. LinkInv /\ \A c \in Conns : ctx[c] = Freed
  BY LinkInvInit DEF Init
<1>2. \A c \in Conns : /\ ctx[c].state = "FREE" /\ ~ctx[c].post
                       /\ ctx[c].feed_ctx = NULL /\ ctx[c].sff_ref_cnt = 0
  BY <1>1 DEF Freed
<1>3. \A f \in Conns : Pointing(ctx, f) = {}
  BY <1>2, NullNotConn DEF Pointing
<1>4. Exact(ctx)
  BY <1>2, <1>3, FS_EmptySet DEF Exact
<1> QED BY <1>1, <1>2, <1>4 DEF QuietInv, Core, Posting, Alive, Started, Unheaded, Unread

\* A connection nobody points at changes or goes, and the others keep what they have.
LEMMA OthersKept ==
  ASSUME QuietInv, NEW c \in Conns, Pointing(ctx, c) = {},
         ctx' \in Memory, Exact(ctx'),
         \A d \in Conns \ {c} : /\ Kept(ctx[d], ctx'[d]) /\ sent'[d] = sent[d]
                                /\ played'[d] = played[d],
         ctx'[c].state \notin {"WAIT_REQUEST", "RECEIVE_DATA"}, ~ctx'[c].post,
         \/ ctx'[c].feed_ctx = NULL
         \/ /\ ctx'[c].feed_ctx \in Conns \ {c}
            /\ ctx[ctx'[c].feed_ctx].state = "RECEIVE_DATA"
            /\ ctx[ctx'[c].feed_ctx].url = ctx'[c].url
  PROVE  Core' /\ \A d \in Conns \ {c} : Unheaded(d)' /\ Unread(d)'
<1>1. \A d \in Conns : ctx[d].feed_ctx \in Conns \cup {NULL} /\ ctx[d].feed_ctx # c
  BY TypeFacts, NullNotConn DEF QuietInv, LinkInv, Pointing, Contexts
<1>2. Posting'
  BY DEF QuietInv, Core, Posting, Kept
<1>3. Alive'
  <2> SUFFICES ASSUME NEW d \in Conns, ctx'[d].feed_ctx # NULL
               PROVE  /\ ctx'[ctx'[d].feed_ctx].state = "RECEIVE_DATA"
                      /\ ctx'[ctx'[d].feed_ctx].url = ctx'[d].url
    BY DEF Alive
  <2> DEFINE f == ctx'[d].feed_ctx
  <2>1. f \in Conns \ {c} /\ ctx[f].state = "RECEIVE_DATA" /\ ctx[f].url = ctx'[d].url
    BY <1>1 DEF QuietInv, Core, Alive, Kept
  <2> HIDE DEF f
  <2>2. ctx'[f].state = "RECEIVE_DATA" /\ ctx'[f].url = ctx'[d].url
    BY <2>1 DEF Kept
  <2> QED BY <2>2 DEF f
<1>4. Started'
  BY DEF QuietInv, Core, Started, Kept
<1>5. ASSUME NEW d \in Conns \ {c} PROVE Unheaded(d)' /\ Unread(d)'
  <2> DEFINE f == ctx[d].feed_ctx
  <2>1. ctx'[d].feed_ctx = f /\ (f = NULL \/ f \in Conns \ {c})
    BY <1>1 DEF Kept
  <2>2. f # NULL => sent'[f] = sent[f] /\ ctx'[f].sff = ctx[f].sff
    BY <2>1 DEF Kept
  <2>3. Unheaded(d)'
    BY <2>1, <2>2 DEF QuietInv, Unheaded, Kept
  <2>4. Unread(d)'
    BY <2>1, <2>2 DEF QuietInv, Unread, Kept
  <2> QED BY <2>3, <2>4
<1> QED BY <1>2, <1>3, <1>4, <1>5 DEF Core

\* A player that goes leaves the others what they have.
LEMMA LeavesAlone ==
  ASSUME QuietInv, NEW c \in Conns, Pointing(ctx, c) = {}, Leaves(c)
  PROVE  /\ Sound(ctx') /\ Exact(ctx') /\ ctx'[c] = Freed
         /\ \A d \in Conns \ {c} : Kept(ctx[d], ctx'[d])
<1>1. Sound(ctx) /\ Exact(ctx)
  BY LinkInvParts DEF QuietInv, Core
<1>2. PICK m : (m = ctx \/ Local(ctx, m, c)) /\ Close(m, c)
  BY DEF Leaves
<1>3. Sound(m) /\ Exact(m) /\ Pointing(m, c) = {}
  BY <1>1, <1>2, LocalOutcome
<1>4. /\ Sound(ctx') /\ Exact(ctx') /\ ctx'[c] = Freed
      /\ \A d \in Conns \ {c} : Kept(m[d], ctx'[d])
  BY <1>2, <1>3, CloseOutcome DEF Close
<1> QED BY <1>2, <1>4 DEF Local

\* A step of a player: what is left to show concerns the player itself.
LEMMA PlayerStep ==
  ASSUME QuietInv, NEW c \in Conns, ctx[c].state # "RECEIVE_DATA",
         \/ Stays(c) /\ ctx'[c].state # "RECEIVE_DATA" /\ Unheaded(c)' /\ Unread(c)'
         \/ Leaves(c),
         UNCHANGED sent, \A d \in Conns \ {c} : played'[d] = played[d]
  PROVE  Core' /\ \A d \in Conns : Unheaded(d)' /\ Unread(d)'
<1>1. /\ Sound(ctx) /\ Exact(ctx) /\ Pointing(ctx, c) = {} /\ ~ctx[c].post
      /\ ctx[c].feed_ctx \in Conns \cup {NULL} /\ ctx[c].feed_ctx # c
  <2>1. ctx[c].feed_ctx \in Conns \cup {NULL}
    BY TypeFacts DEF QuietInv, LinkInv, Contexts
  <2>2. Pointing(ctx, c) = {}
    BY NobodyPoints DEF QuietInv, Core
  <2> QED BY <2>1, <2>2, LinkInvParts DEF QuietInv, Core, Posting, Pointing
<1>2. CASE Stays(c) /\ ctx'[c].state # "RECEIVE_DATA" /\ Unheaded(c)' /\ Unread(c)'
  <2>1. Sound(ctx') /\ Exact(ctx')
    BY <1>1, <1>2, LocalOutcome DEF Stays
  <2>2. /\ ctx'[c].state \notin {"WAIT_REQUEST", "RECEIVE_DATA"} /\ ~ctx'[c].post
        /\ ctx'[c].feed_ctx = ctx[c].feed_ctx /\ ctx'[c].url = ctx[c].url
        /\ \A d \in Conns \ {c} : Kept(ctx[d], ctx'[d])
    BY <1>1, <1>2 DEF Stays, Local, Kept
  <2>3. \/ ctx'[c].feed_ctx = NULL
        \/ /\ ctx'[c].feed_ctx \in Conns \ {c}
           /\ ctx[ctx'[c].feed_ctx].state = "RECEIVE_DATA"
           /\ ctx[ctx'[c].feed_ctx].url = ctx'[c].url
    BY <1>1, <2>2 DEF QuietInv, Core, Alive
  <2>4. Core' /\ \A d \in Conns \ {c} : Unheaded(d)' /\ Unread(d)'
    BY <1>1, <2>1, <2>2, <2>3, OthersKept DEF Sound
  <2> QED BY <1>2, <2>4
<1>3. CASE Leaves(c)
  <2>1. /\ Sound(ctx') /\ Exact(ctx') /\ ctx'[c] = Freed
        /\ \A d \in Conns \ {c} : Kept(ctx[d], ctx'[d])
    BY <1>1, <1>3, LeavesAlone
  <2>2. ctx'[c].state = "FREE" /\ ~ctx'[c].post /\ ctx'[c].feed_ctx = NULL
    BY <2>1 DEF Freed
  <2>3. Core' /\ \A d \in Conns \ {c} : Unheaded(d)' /\ Unread(d)'
    BY <1>1, <2>1, <2>2, OthersKept DEF Sound
  <2>4. Unheaded(c)' /\ Unread(c)'
    BY <2>2 DEF Unheaded, Unread
  <2> QED BY <2>3, <2>4
<1> QED BY <1>2, <1>3

\* A feeder's call wakes its sleepers, and adopts those that came before it.
LEMMA WokeStep ==
  ASSUME QuietInv, NEW c \in Conns, ctx[c].state = "RECEIVE_DATA", NEW to \in Sending,
         Woke(ctx', c, to), UNCHANGED played,
         \A d \in Conns \ {c} : sent'[d] = sent[d],
         to = "SEND_DATA" => sent[c] > 0,
         sent'[c] = 0 => ctx'[c].sff = NewRing,
         sent'[c] > 0 => ctx'[c].sff.header # NULL
  PROVE  Core' /\ \A d \in Conns : Unheaded(d)' /\ Unread(d)'
<1>1. /\ Exact(ctx') /\ ctx'[c].state = "RECEIVE_DATA" /\ ctx'[c].post = ctx[c].post
      /\ ctx'[c].url = ctx[c].url /\ ctx'[c].feed_ctx = ctx[c].feed_ctx
  BY DEF QuietInv, Core, Woke
<1>2. ASSUME NEW d \in Conns \ {c}
      PROVE  \/ ctx'[d] = ctx[d] /\ ~(ctx[d].state = "WAIT_FEED" /\ ctx[d].feed_ctx = c)
             \/ /\ ctx[d].state = "WAIT_FEED" /\ Woken(ctx[d], ctx'[d], c, to)
                /\ ctx[d].feed_ctx = c \/ (ctx[d].feed_ctx = NULL /\ ctx[d].url = ctx[c].url)
  BY DEF Woke
<1>3. \A f \in Conns \ {c} : ctx[f].state = "RECEIVE_DATA" => ctx'[f] = ctx[f]
  BY <1>2
<1>4. to \notin {"FREE", "WAIT_REQUEST", "RECEIVE_DATA", "WAIT_FEED"}
  BY DEF Sending
<1>5. Posting'
  BY <1>1, <1>2, <1>4 DEF QuietInv, Core, Posting, Woken
<1>6. \A d \in Conns : ctx[d].feed_ctx # NULL =>
        /\ ctx[d].feed_ctx \in Conns /\ ctx[ctx[d].feed_ctx].state = "RECEIVE_DATA"
        /\ ctx[ctx[d].feed_ctx].url = ctx[d].url
  BY TypeFacts DEF QuietInv, LinkInv, Core, Alive, Contexts
<1>7. ctx[c].feed_ctx = NULL
  BY DEF QuietInv, LinkInv, Linked, Core, Posting
<1>8. Alive'
  <2> SUFFICES ASSUME NEW d \in Conns, ctx'[d].feed_ctx # NULL
               PROVE  /\ ctx'[ctx'[d].feed_ctx].state = "RECEIVE_DATA"
                      /\ ctx'[ctx'[d].feed_ctx].url = ctx'[d].url
    BY DEF Alive
  <2>1. d # c
    BY <1>1, <1>7
  <2>2. CASE ctx'[d] = ctx[d]
    <3>1. CASE ctx[d].feed_ctx = c
      BY <1>1, <1>6, <2>2, <3>1
    <3>2. CASE ctx[d].feed_ctx # c
      BY <1>3, <1>6, <2>2, <3>2
    <3> QED BY <3>1, <3>2
  <2>3. CASE /\ Woken(ctx[d], ctx'[d], c, to)
             /\ ctx[d].feed_ctx = c \/ (ctx[d].feed_ctx = NULL /\ ctx[d].url = ctx[c].url)
    <3>1. ctx[d].url = ctx[c].url
      BY <1>6, <2>3, NullNotConn
    <3> QED BY <1>1, <2>3, <3>1 DEF Woken
  <2> QED BY <1>2, <2>1, <2>2, <2>3
<1>9. Started'
  <2> SUFFICES ASSUME NEW d \in Conns
               PROVE  /\ ctx'[d].state = "WAIT_REQUEST" =>
                           /\ sent'[d] = 0 /\ ctx'[d].sff = NewRing
                           /\ ctx'[d].buffer = NULL /\ played'[d] = Nothing
                      /\ ctx'[d].state = "RECEIVE_DATA" =>
                           /\ sent'[d] = 0 => ctx'[d].sff = NewRing
                           /\ sent'[d] > 0 => ctx'[d].sff.header # NULL
    BY DEF Started
  <2>1. CASE d = c
    BY <1>1, <2>1
  <2>2. CASE d # c /\ ctx'[d] = ctx[d]
    BY <2>2 DEF QuietInv, Core, Started
  <2>3. CASE d # c /\ Woken(ctx[d], ctx'[d], c, to)
    BY <1>4, <2>3 DEF Woken
  <2> QED BY <1>2, <2>1, <2>2, <2>3
<1>10. ASSUME NEW d \in Conns PROVE Unheaded(d)' /\ Unread(d)'
  <2>1. CASE d = c
    BY <1>1, <2>1 DEF QuietInv, Core, Posting, Unheaded, Unread
  <2>2. CASE d # c /\ ctx'[d] = ctx[d] /\ ~(ctx[d].state = "WAIT_FEED" /\ ctx[d].feed_ctx = c)
    <3>1. CASE ctx[d].state = "WAIT_FEED" /\ ctx[d].feed_ctx # NULL
      <4> DEFINE f == ctx[d].feed_ctx
      <4>1. f \in Conns \ {c} /\ ctx[f].state = "RECEIVE_DATA"
        BY <1>6, <2>2, <3>1
      <4>2. sent'[f] = sent[f] /\ ctx'[f] = ctx[f]
        BY <1>3, <4>1
      <4> QED BY <2>2, <4>2 DEF QuietInv, Unheaded, Unread
    <3>2. CASE ~(ctx[d].state = "WAIT_FEED" /\ ctx[d].feed_ctx # NULL)
      BY <2>2, <3>2 DEF QuietInv, Unheaded, Unread
    <3> QED BY <3>1, <3>2
  <2>3. CASE /\ d # c /\ ctx[d].state = "WAIT_FEED" /\ Woken(ctx[d], ctx'[d], c, to)
             /\ ctx[d].feed_ctx = c \/ (ctx[d].feed_ctx = NULL /\ ctx[d].url = ctx[c].url)
    <3>1. Unread(d)'
      BY <1>4, <2>3 DEF Unread, Woken
    <3>2. Unheaded(d)'
      <4> SUFFICES ASSUME ~ctx'[d].post, ~played'[d].header, ~played'[d].early
                   PROVE  /\ played'[d].last = 0 /\ ctx'[d].buffer = NULL
                          /\ ctx'[d].feed_ctx # NULL
                          /\ ctx'[d].state \in {"SEND_HEADER", "SEND_DATA_HEADER",
                                                "SEND_DATA_TRAILER"}
        BY DEF Unheaded
      <4>1. /\ played[d].last = 0 /\ ctx[d].buffer = NULL /\ ctx[d].feed_ctx # NULL
            /\ sent[ctx[d].feed_ctx] = 0
        BY <2>3 DEF QuietInv, Unheaded, Woken
      <4>2. sent[c] = 0
        BY <2>3, <4>1
      <4>3. to \in {"SEND_DATA_HEADER", "SEND_DATA_TRAILER"}
        BY <4>2 DEF Sending
      <4> QED BY <2>3, <4>1, <4>3, NullNotConn DEF Woken
    <3> QED BY <3>1, <3>2
  <2> QED BY <1>2, <2>1, <2>2, <2>3
<1> QED BY <1>1, <1>5, <1>8, <1>9, <1>10 DEF Core

\* A feeder is closed when its count says that nobody points at it.
LEMMA EndAlone ==
  ASSUME QuietInv, NEW c \in Conns, ctx[c].state = "RECEIVE_DATA", NEW to \in Sending,
         NEW n, Woke(n, c, to), n[c].sff_ref_cnt <= 0, Close(n, c)
  PROVE  /\ Pointing(ctx, c) = {} /\ Sound(ctx') /\ Exact(ctx') /\ ctx'[c] = Freed
         /\ \A d \in Conns \ {c} : Kept(ctx[d], ctx'[d])
<1>1. Sound(n) /\ Exact(n)
  BY DEF Woke, QuietInv, Core
<1>2. Pointing(n, c) = {}
  <2>1. Cardinality(Pointing(n, c)) <= 0
    BY <1>1 DEF Exact
  <2> QED BY <2>1, PointingFinite, FS_EmptySet
<1>3. \A d \in Conns \ {c} : n[d] = ctx[d]
  <2> TAKE d \in Conns \ {c}
  <2>1. n[d].feed_ctx # c
    BY <1>2 DEF Pointing
  <2> QED BY <2>1 DEF Woke, Woken
<1>4. Pointing(ctx, c) = {}
  <2>1. ctx[c].feed_ctx # c
    BY NullNotConn DEF QuietInv, LinkInv, Linked, Core, Posting
  <2> QED BY <1>2, <1>3, <2>1 DEF Pointing
<1>5. /\ Sound(ctx') /\ Exact(ctx') /\ ctx'[c] = Freed
      /\ \A d \in Conns \ {c} : Kept(n[d], ctx'[d])
  BY <1>1, <1>2, CloseOutcome DEF Close
<1> QED BY <1>3, <1>4, <1>5

LEMMA EndCloses ==
  ASSUME QuietInv, NEW c \in Conns, ctx[c].state = "RECEIVE_DATA", NEW to \in Sending,
         NEW n, Woke(n, c, to), n[c].sff_ref_cnt <= 0, Close(n, c),
         UNCHANGED <<sent, played>>
  PROVE  Core' /\ \A d \in Conns : Unheaded(d)' /\ Unread(d)'
<1>1. /\ Pointing(ctx, c) = {} /\ Sound(ctx') /\ Exact(ctx') /\ ctx'[c] = Freed
      /\ \A d \in Conns \ {c} : Kept(ctx[d], ctx'[d])
  BY EndAlone
<1>2. ctx'[c].state = "FREE" /\ ~ctx'[c].post /\ ctx'[c].feed_ctx = NULL
  BY <1>1 DEF Freed
<1>3. Core' /\ \A d \in Conns \ {c} : Unheaded(d)' /\ Unread(d)'
  BY <1>1, <1>2, OthersKept DEF Sound
<1>4. Unheaded(c)' /\ Unread(c)'
  BY <1>2 DEF Unheaded, Unread
<1> QED BY <1>3, <1>4

\* The steps of a connection that is not yet, or just, asked for something.
LEMMA AcceptQuiet ==
  ASSUME QuietInv, Accept
  PROVE  Core' /\ \A d \in Conns : Unheaded(d)' /\ Unread(d)'
<1>1. PICK c \in Conns : /\ ctx[c].state = "FREE"
                         /\ ctx' = [ctx EXCEPT ![c] = Fresh]
                         /\ sent' = [sent EXCEPT ![c] = 0]
                         /\ played' = [played EXCEPT ![c] = Nothing]
  BY DEF Accept
<1>2. Sound(ctx) /\ Rest /\ Pointing(ctx, c) = {} /\ ctx[c].feed_ctx = NULL
  BY <1>1, LinkInvParts, NobodyPoints DEF QuietInv, Core, Sound, Linked
<1>3. /\ ctx'[c] = Fresh /\ sent'[c] = 0 /\ played'[c] = Nothing
      /\ \A d \in Conns \ {c} : /\ ctx'[d] = ctx[d] /\ sent'[d] = sent[d]
                                /\ played'[d] = played[d]
  BY <1>1, <1>2 DEF Sound, Memory, Rest
<1>4. /\ ctx'[c].state = "WAIT_REQUEST" /\ ~ctx'[c].post /\ ctx'[c].feed_ctx = NULL
      /\ ctx'[c].sff_ref_cnt = 0 /\ ctx'[c].sff = NewRing /\ ctx'[c].buffer = NULL
      /\ played'[c].last = 0
  BY <1>3 DEF Fresh, Freed, Nothing
<1>5. \A d \in Conns : /\ ctx[d].feed_ctx \in Conns \cup {NULL} /\ ctx[d].feed_ctx # c
                       /\ ctx'[d].feed_ctx = ctx[d].feed_ctx
  BY <1>2, <1>3, <1>4, TypeFacts, NullNotConn DEF QuietInv, LinkInv, Pointing, Contexts
<1>6. \A f : Pointing(ctx', f) = Pointing(ctx, f)
  BY <1>5 DEF Pointing
<1>7. Exact(ctx')
  <2>1. Cardinality(Pointing(ctx', c)) = 0
    BY <1>2, <1>6, FS_EmptySet
  <2> QED BY <1>3, <1>4, <1>6, <2>1 DEF Exact, QuietInv, Core
<1>8. Posting' /\ Started'
  BY <1>3, <1>4 DEF QuietInv, Core, Posting, Started
<1>9. Alive'
  BY <1>3, <1>4, <1>5 DEF QuietInv, Core, Alive
<1>10. ASSUME NEW d \in Conns PROVE Unheaded(d)' /\ Unread(d)'
  <2>1. CASE d = c
    BY <1>4, <2>1 DEF Unheaded, Unread
  <2>2. CASE d # c
    BY <1>3, <1>5, <2>2 DEF QuietInv, Unheaded, Unread
  <2> QED BY <2>1, <2>2
<1> QED BY <1>7, <1>8, <1>9, <1>10 DEF Core

\* A stream that nobody feeds is accepted.
LEMMA PostOutcome ==
  ASSUME QuietInv, ~DuplicatePosts, NEW c \in Conns, NEW url \in Urls, PostStream(c, url)
  PROVE  /\ ctx[c].state = "WAIT_REQUEST" /\ ~IsFed(url) /\ UNCHANGED <<sent, played>>
         /\ ctx'[c] = [ctx[c] EXCEPT !.post = TRUE, !.url = url, !.state = "RECEIVE_DATA"]
         /\ \A d \in Conns \ {c} : ctx'[d] = ctx[d]
<1> DEFINE parsed == [ctx EXCEPT ![c].post = TRUE, ![c].url = url]
           f == find_feed(parsed, url)
<1>1. /\ Sound(ctx) /\ ListOK(list, ctx) /\ ctx \in Memory /\ ctx[c] \in Contexts
      /\ ctx[c].state = "WAIT_REQUEST"
  BY LinkInvParts DEF QuietInv, Core, Sound, Memory, PostStream
<1>2. /\ parsed[c].post /\ parsed[c].url = url /\ parsed \in Memory
      /\ parsed[c] = [ctx[c] EXCEPT !.post = TRUE, !.url = url]
      /\ \A d \in Conns \ {c} : parsed[d] = ctx[d]
  BY <1>1 DEF Memory, Contexts
<1>3. f = c
  <2> HIDE DEF parsed
  <2>1. \/ f = NULL /\ \A d \in Range(list) : ~(parsed[d].post /\ parsed[d].url = url)
        \/ f \in Conns /\ parsed[f].post /\ parsed[f].url = url
    BY FindFeed DEF QuietInv, LinkInv
  <2>2. c \in Range(list)
    BY <1>1 DEF ListOK
  <2>3. \A d \in Conns \ {c} : ~(ctx[d].post /\ ctx[d].url = url)
    BY DEF PostStream, IsFed, Feeding, QuietInv, Core, Posting
  <2> HIDE DEF f
  <2> QED BY <1>2, <2>1, <2>2, <2>3
<1>4. ctx' = [parsed EXCEPT ![c].state = "RECEIVE_DATA"] /\ UNCHANGED <<sent, played>>
  BY <1>3 DEF PostStream
<1> HIDE DEF parsed, f
<1>5. /\ ctx'[c] = [ctx[c] EXCEPT !.post = TRUE, !.url = url, !.state = "RECEIVE_DATA"]
      /\ \A d \in Conns \ {c} : ctx'[d] = ctx[d]
  BY <1>2, <1>4 DEF Memory
<1> QED BY <1>1, <1>4, <1>5 DEF PostStream

LEMMA PostQuiet ==
  ASSUME QuietInv, ~DuplicatePosts, NEW c \in Conns, NEW url \in Urls, PostStream(c, url)
  PROVE  Core' /\ \A d \in Conns : Unheaded(d)' /\ Unread(d)'
<1>1. /\ Sound(ctx) /\ ListOK(list, ctx) /\ ctx \in Memory /\ ctx[c] \in Contexts
      /\ ctx[c].state = "WAIT_REQUEST" /\ Pointing(ctx, c) = {}
  BY LinkInvParts, NobodyPoints DEF QuietInv, Core, Sound, Memory, PostStream
<1>2. UNCHANGED <<sent, played>>
  BY PostOutcome
<1>3. /\ ctx'[c] = [ctx[c] EXCEPT !.post = TRUE, !.url = url, !.state = "RECEIVE_DATA"]
      /\ \A d \in Conns \ {c} : ctx'[d] = ctx[d]
  BY PostOutcome
<1>4. /\ ctx'[c].state = "RECEIVE_DATA" /\ ctx'[c].post /\ ctx'[c].feed_ctx = NULL
      /\ ctx'[c].sff_ref_cnt = ctx[c].sff_ref_cnt /\ ctx'[c].sff = ctx[c].sff
  BY <1>1, <1>3 DEF Contexts, Sound, Linked
<1>5. \A d \in Conns : /\ ctx[d].feed_ctx \in Conns \cup {NULL} /\ ctx[d].feed_ctx # c
                       /\ ctx'[d].feed_ctx = ctx[d].feed_ctx
  BY <1>1, <1>3, <1>4, TypeFacts, NullNotConn
     DEF QuietInv, LinkInv, Pointing, Contexts, Sound, Linked
<1>6. Exact(ctx')
  <2>1. \A g : Pointing(ctx', g) = Pointing(ctx, g)
    BY <1>5 DEF Pointing
  <2> QED BY <1>3, <1>4, <2>1 DEF QuietInv, Core, Exact
<1>7. Posting' /\ Started'
  <2>1. sent[c] = 0 /\ ctx[c].sff = NewRing /\ Posting /\ Started
    BY <1>1 DEF QuietInv, Core, Started
  <2>2. Posting'
    BY <1>3, <1>4, <2>1 DEF Posting
  <2>3. sent' = sent /\ played' = played
    BY <1>2
  <2>4. ctx'[c].state = "RECEIVE_DATA" /\ sent'[c] = 0 /\ ctx'[c].sff = NewRing
    BY <1>4, <2>1, <2>3
  <2>5. \A d \in Conns \ {c} : ctx'[d] = ctx[d]
    BY <1>3
  <2>6. Started'
    BY <2>1, <2>3, <2>4, <2>5 DEF Started
  <2> QED BY <2>2, <2>6
<1>8. Alive'
  BY <1>3, <1>4, <1>5 DEF QuietInv, Core, Alive
<1>9. ASSUME NEW d \in Conns PROVE Unheaded(d)' /\ Unread(d)'
  <2>1. CASE d = c
    BY <1>4, <2>1 DEF Unheaded, Unread
  <2>2. CASE d # c
    BY <1>2, <1>3, <1>5, <2>2 DEF QuietInv, Unheaded, Unread
  <2> QED BY <2>1, <2>2
<1> QED BY <1>6, <1>7, <1>8, <1>9 DEF Core

LEMMA GetQuiet ==
  ASSUME QuietInv, NEW c \in Conns, NEW url \in Urls, GetStream(c, url)
  PROVE  Core' /\ \A d \in Conns : Unheaded(d)' /\ Unread(d)'
<1> DEFINE f == find_feed(ctx, url)
<1>1. /\ Sound(ctx') /\ Exact(ctx') /\ ctx[c].state = "WAIT_REQUEST" /\ f # c
      /\ f = NULL \/ (f \in Conns /\ ctx[f].post /\ ctx[f].url = url /\ ctx[f].state # "FREE")
      /\ \A d \in Conns \ {c} : Kept(ctx[d], ctx'[d])
      /\ ctx'[c].state = "SEND_HEADER" /\ ctx'[c].feed_ctx = f /\ ctx'[c].url = url
      /\ ctx'[c].post = ctx[c].post /\ ctx'[c].buffer = ctx[c].buffer
  BY GetOutcome DEF QuietInv, Core
<1> HIDE DEF f
<1>2. Pointing(ctx, c) = {} /\ ~ctx[c].post
  BY <1>1, NobodyPoints DEF QuietInv, Core, LinkInv, Linked
<1>3. Rest /\ UNCHANGED sent /\ played' = [played EXCEPT ![c].early = (f = NULL)]
  BY LinkInvParts DEF QuietInv, GetStream, f
<1>4. /\ \A d \in Conns \ {c} : played'[d] = played[d]
      /\ played'[c].early = (f = NULL) /\ played'[c].last = played[c].last
  BY <1>3 DEF Rest
<1>5. \/ f = NULL
      \/ f \in Conns \ {c} /\ ctx[f].state = "RECEIVE_DATA" /\ ctx[f].url = url
  BY <1>1 DEF QuietInv, Core, Posting
<1>6. Core' /\ \A d \in Conns \ {c} : Unheaded(d)' /\ Unread(d)'
  BY <1>1, <1>2, <1>3, <1>4, <1>5, OthersKept DEF Sound
<1>7. Unread(c)'
  BY <1>1 DEF Unread
<1>8. Unheaded(c)'
  <2>1. played[c].last = 0 /\ ctx[c].buffer = NULL
    BY <1>1 DEF QuietInv, Core, Started, Nothing
  <2> QED BY <1>1, <1>4, <2>1 DEF Unheaded
<1> QED BY <1>6, <1>7, <1>8

LEMMA QuietInvNext ==
  ASSUME ~Hangups, ~DuplicatePosts PROVE QuietInv /\ [Next]_vars => QuietInv'
<1> SUFFICES ASSUME QuietInv, [Next]_vars
             PROVE  Core' /\ \A d \in Conns : Unheaded(d)' /\ Unread(d)'
  BY LinkInvNext DEF QuietInv
<1> DEFINE Goal == Core' /\ \A d \in Conns : Unheaded(d)' /\ Unread(d)'
<1>a. LinkInv /\ Rest /\ \A c \in Conns : ctx[c] \in Contexts
  BY LinkInvParts, TypeFacts DEF QuietInv, LinkInv
<1>1. CASE Accept
  BY <1>1, AcceptQuiet
<1>2. ASSUME NEW c \in Conns, NEW url \in Urls, PostStream(c, url) \/ GetStream(c, url)
      PROVE  Goal
  BY <1>2, PostQuiet, GetQuiet
<1>3. ASSUME NEW c \in Conns, SendHeader(c) PROVE Goal
  <2>1. ctx[c].state = "SEND_HEADER" /\ UNCHANGED <<sent, played>>
    BY <1>3 DEF SendHeader
  <2>2. \/ Leaves(c)
        \/ /\ Stays(c) /\ ctx'[c].state = "SEND_DATA_HEADER"
           /\ ctx'[c].buffer = ctx[c].buffer
    BY <1>a, <1>3, SendHeaderOutcome
  <2>3. CASE Stays(c) /\ ctx'[c].state = "SEND_DATA_HEADER" /\ ctx'[c].buffer = ctx[c].buffer
    <3>1. Unread(c)' /\ Unheaded(c)'
      BY <2>1, <2>3 DEF QuietInv, Unread, Unheaded, Stays, Local
    <3> QED BY <2>1, <2>3, <3>1, PlayerStep
  <2>4. CASE Leaves(c)
    BY <2>1, <2>4, PlayerStep
  <2> QED BY <2>2, <2>3, <2>4
<1>4. ASSUME NEW c \in Conns, SendRest(c) PROVE Goal
  <2>1. ctx[c].state \in Sending /\ ctx[c].buffer \in Packets
    BY <1>a, <1>4 DEF SendRest, Contexts
  <2>2. Local(ctx, ctx, c)
    BY <1>a, <2>1, TypeFacts DEF Local, States, Sending, LinkInv
  <2>3. /\ UNCHANGED sent
        /\ Leaves(c) \/ (Stays(c) /\ ctx'[c].state = ctx[c].state)
    BY <1>a, <1>4, <2>1, <2>2, SendOutcome DEF SendRest
  <2>4. /\ \A d \in Conns \ {c} : played'[d] = played[d]
        /\ played'[c].header = played[c].header \/ played'[c].header
        /\ played'[c].early = played[c].early
    BY <1>a, <1>4 DEF SendRest, Send, Rest
  <2>5. ASSUME Stays(c), ctx'[c].state = ctx[c].state PROVE Unheaded(c)' /\ Unread(c)'
    <3>1. Unheaded(c)'
      BY <1>4, <2>1, <2>4, <2>5
         DEF QuietInv, Unheaded, SendRest, Stays, Local, Sending
    <3> QED BY <2>1, <2>5, <3>1 DEF Unread, Sending
  <2>6. ctx[c].state # "RECEIVE_DATA"
    BY <2>1 DEF Sending
  <2> QED BY <2>3, <2>4, <2>5, <2>6, PlayerStep
<1>5. ASSUME NEW c \in Conns, NEW all \in BOOLEAN, SendDataHeader(c, all) PROVE Goal
  <2>1. ctx[c].state = "SEND_DATA_HEADER"
    BY <1>5 DEF SendDataHeader
  <2>2. /\ UNCHANGED sent /\ Stays(c)
        /\ \/ /\ ctx'[c].state = "WAIT_FEED" /\ UNCHANGED played
              /\ ctx[c].feed_ctx # NULL => ctx[ctx[c].feed_ctx].sff.header = NULL
              /\ ctx'[c].buffer = ctx[c].buffer
           \/ /\ ctx'[c].state = "SEND_DATA"
              /\ played' = [played EXCEPT ![c].header = TRUE]
    BY <1>a, <1>5, SendDataHeaderOutcome
  <2>3. CASE /\ ctx'[c].state = "WAIT_FEED" /\ UNCHANGED played
             /\ ctx[c].feed_ctx # NULL => ctx[ctx[c].feed_ctx].sff.header = NULL
             /\ ctx'[c].buffer = ctx[c].buffer
    <3> DEFINE f == ctx[c].feed_ctx
    <3>1. f # NULL => f \in Conns \ {c} /\ sent[f] = 0 /\ ctx[f].sff = NewRing
      <4> SUFFICES ASSUME f # NULL PROVE f \in Conns \ {c} /\ sent[f] = 0 /\ ctx[f].sff = NewRing
        OBVIOUS
      <4>1. f \in Conns \ {c} /\ ctx[f].state = "RECEIVE_DATA"
        BY <1>a, <2>1 DEF QuietInv, Core, Alive, Contexts
      <4>2. sent[f] \in Nat
        BY <1>a, <4>1 DEF Rest
      <4>3. ~(sent[f] > 0)
        BY <2>3, <4>1 DEF QuietInv, Core, Started
      <4> QED BY <4>1, <4>2, <4>3 DEF QuietInv, Core, Started
    <3>2. ctx'[c].feed_ctx = f /\ ctx'[c].post = ctx[c].post
      BY <2>2 DEF Stays, Local
    <3>3. f # NULL => sent'[f] = 0 /\ ctx'[f].sff = NewRing
      BY <2>2, <3>1 DEF Stays, Local
    <3>4. Unheaded(c)'
      BY <2>1, <2>3, <3>2, <3>3 DEF QuietInv, Unheaded
    <3>5. Unread(c)'
      <4>1. f # NULL => ReadData(NewRing, ctx'[c].sff_r) = NULL
        <5>1. ctx'[c].sff_r \in Slots
          BY <2>2 DEF Stays, Local, Memory, Contexts
        <5> QED BY <5>1 DEF ReadData, NewRing
      <4> QED BY <3>2, <3>3, <4>1 DEF Unread
    <3> QED BY <2>1, <2>2, <2>3, <3>4, <3>5, PlayerStep
  <2>4. CASE /\ ctx'[c].state = "SEND_DATA"
             /\ played' = [played EXCEPT ![c].header = TRUE]
    <3>1. /\ \A d \in Conns \ {c} : played'[d] = played[d]
          /\ played'[c].header
      BY <1>a, <2>4 DEF Rest
    <3>2. Unheaded(c)' /\ Unread(c)'
      BY <2>4, <3>1 DEF Unheaded, Unread
    <3> QED BY <2>1, <2>2, <2>4, <3>1, <3>2, PlayerStep
  <2> QED BY <2>2, <2>3, <2>4
<1>6. ASSUME NEW c \in Conns, NEW all \in BOOLEAN, SendData(c, all) PROVE Goal
  <2>1. ctx[c].state = "SEND_DATA"
    BY <1>6 DEF SendData
  <2>2. UNCHANGED sent
    BY <1>a, <1>6, SendDataOutcome
  <2>3. \/ /\ Stays(c) /\ ctx'[c].state = "WAIT_FEED" /\ ctx'[c].sff_r = ctx[c].sff_r
           /\ ctx[c].feed_ctx # NULL =>
                ReadData(ctx[ctx[c].feed_ctx].sff, ctx[c].sff_r) = NULL
           /\ UNCHANGED played
        \/ /\ Leaves(c) \/ (Stays(c) /\ ctx'[c].state \in Sending)
           /\ \A d \in Conns \ {c} : played'[d] = played[d]
           /\ played'[c].header = played[c].header
    BY <1>a, <1>6, SendDataOutcome
  <2>4. ~ctx[c].post /\ (played[c].header \/ played[c].early)
    BY <2>1 DEF QuietInv, Core, Posting, Unheaded
  <2>5. played'[c].header = played[c].header /\ played'[c].early = played[c].early
    BY <1>a, <1>6, <2>3, SMTT(20) DEF SendData, Send, Sleep, Rest
  <2>6. Unheaded(c)'
    BY <2>4, <2>5 DEF Unheaded
  <2>7. CASE /\ Stays(c) /\ ctx'[c].state = "WAIT_FEED" /\ ctx'[c].sff_r = ctx[c].sff_r
             /\ ctx[c].feed_ctx # NULL =>
                  ReadData(ctx[ctx[c].feed_ctx].sff, ctx[c].sff_r) = NULL
             /\ UNCHANGED played
    <3> DEFINE f == ctx[c].feed_ctx
    <3>1. f # NULL => f \in Conns \ {c}
      BY <1>a, <2>1 DEF QuietInv, Core, Alive, Contexts
    <3>2. ctx'[c].feed_ctx = f /\ (f # NULL => ctx'[f] = ctx[f])
      BY <2>7, <3>1 DEF Stays, Local
    <3>3. Unread(c)'
      BY <2>7, <3>2 DEF Unread
    <3> QED BY <2>1, <2>2, <2>6, <2>7, <3>3, PlayerStep
  <2>8. CASE /\ Leaves(c) \/ (Stays(c) /\ ctx'[c].state \in Sending)
             /\ \A d \in Conns \ {c} : played'[d] = played[d]
    <3>1. ctx'[c].state \in Sending => Unread(c)' /\ ctx'[c].state # "RECEIVE_DATA"
      BY DEF Unread, Sending
    <3> QED BY <2>1, <2>2, <2>6, <2>8, <3>1, PlayerStep
  <2> QED BY <2>3, <2>7, <2>8
<1>7. ASSUME NEW c \in Conns, SendTrailer(c) \/ Drop(c) PROVE Goal
  BY <1>a, <1>7, SendTrailerOutcome, PlayerStep
<1>8. ASSUME NEW c \in Conns, ReceivePacket(c) PROVE Goal
  <2>1. /\ UNCHANGED played
        /\ ctx[c].state = "RECEIVE_DATA" /\ sent' = [sent EXCEPT ![c] = sent[c] + 1]
    BY <1>a, <1>8, PacketOutcome
  <2>2. \/ /\ sent[c] = 0 /\ Woke(ctx', c, "SEND_DATA_HEADER")
           /\ ctx'[c].sff.header # NULL
        \/ /\ sent[c] > 0 /\ Woke(ctx', c, "SEND_DATA")
           /\ ctx'[c].sff.header = ctx[c].sff.header
    BY <1>a, <1>8, PacketOutcome
  <2>3. /\ sent[c] \in Nat /\ sent'[c] = sent[c] + 1
        /\ \A d \in Conns \ {c} : sent'[d] = sent[d]
    BY <1>a, <2>1 DEF Rest
  <2>4. sent'[c] > 0 /\ ctx'[c].sff.header # NULL
    BY <2>1, <2>2, <2>3 DEF QuietInv, Core, Started
  <2>5. "SEND_DATA_HEADER" \in Sending /\ "SEND_DATA" \in Sending
    BY DEF Sending
  <2> QED BY <2>1, <2>2, <2>3, <2>4, <2>5, WokeStep
<1>9. ASSUME NEW c \in Conns, PeerEnds(c) PROVE Goal
  <2>1. UNCHANGED <<ctx, sent, played>>
    BY <1>9 DEF PeerEnds
  <2> QED BY <2>1 DEF QuietInv, Core, Posting, Alive, Started, Unheaded, Unread
<1>10. ASSUME NEW c \in Conns, ReceiveEnd(c) \/ HangUp(c) PROVE Goal
  <2> DEFINE n == wake_others(ctx, c, "SEND_DATA_TRAILER")
  <2>1. /\ UNCHANGED <<sent, played>>
        /\ ctx[c].state = "RECEIVE_DATA" /\ Woke(n, c, "SEND_DATA_TRAILER")
        /\ n[c].sff = ctx[c].sff
        /\ \/ Close(n, c) /\ (n[c].sff_ref_cnt <= 0 \/ Hangups)
           \/ ctx' = n /\ UNCHANGED list
    BY <1>a, <1>10, EndOutcome
  <2> HIDE DEF n
  <2>2. "SEND_DATA_TRAILER" \in Sending
    BY DEF Sending
  <2>3. CASE Close(n, c) /\ n[c].sff_ref_cnt <= 0
    BY <2>1, <2>2, <2>3, EndCloses
  <2>4. CASE ctx' = n
    <3>1. /\ sent'[c] = 0 => ctx'[c].sff = NewRing
          /\ sent'[c] > 0 => ctx'[c].sff.header # NULL
      BY <2>1, <2>4 DEF QuietInv, Core, Started
    <3> QED BY <2>1, <2>2, <2>4, <3>1, WokeStep
  <2> QED BY <2>1, <2>3, <2>4
<1>11. CASE UNCHANGED vars
  BY <1>11 DEF vars, QuietInv, Core, Posting, Alive, Started, Unheaded, Unread
<1> QED BY <1>1, <1>2, <1>3, <1>4, <1>5, <1>6, <1>7, <1>8, <1>9, <1>10, <1>11
        DEF Next, Serve

-----------------------------------------------------------------------------
(* The theorems for feeders that end their stream themselves *)

\* The exact counts, and where every player that is not being sent packets stands.
THEOREM FeedQuiet == ASSUME ~Hangups, ~DuplicatePosts PROVE Spec => []QuietInv
BY QuietInvInit, QuietInvNext, PTL DEF Spec

\* What a player reads from receives the stream the player asked for.
THEOREM FeedFeedAlive == ASSUME ~Hangups, ~DuplicatePosts PROVE Spec => []FeedAlive
<1>1. QuietInv => FeedAlive
  <2> SUFFICES ASSUME QuietInv PROVE FeedAlive
    OBVIOUS
  <2>1. TypeOK /\ \A c \in Players : c \in Conns
    BY TypeFacts DEF QuietInv, LinkInv, Players
  <2> QED BY <2>1 DEF QuietInv, Core, Alive, FeedAlive, Feeding
<1> QED BY <1>1, FeedQuiet, PTL

\* A feeder counts exactly the players that point at it.
THEOREM FeedRefCountExact == ASSUME ~Hangups, ~DuplicatePosts PROVE Spec => []RefCountExact
<1>1. QuietInv => RefCountExact
  <2> SUFFICES ASSUME QuietInv, NEW f \in Feeders
               PROVE  ctx[f].sff_ref_cnt = Cardinality({c \in Players : ctx[c].feed_ctx = f})
    BY DEF RefCountExact
  <2>1. /\ f \in Conns /\ Range(list) \subseteq Conns
        /\ \A c \in Conns : ctx[c].state # "FREE" => c \in Range(list)
    BY TypeFacts DEF Feeders, QuietInv, LinkInv
  <2>2. {c \in Players : ctx[c].feed_ctx = f} = Pointing(ctx, f)
    BY <2>1, NullNotConn DEF Players, Pointing, QuietInv, LinkInv, Linked
  <2> QED BY <2>1, <2>2 DEF QuietInv, Core, Exact
<1> QED BY <1>1, FeedQuiet, PTL

\* A player that came while the stream was fed is sent the header before any packet.
THEOREM FeedHeaderFirst == ASSUME ~Hangups, ~DuplicatePosts PROVE Spec => []HeaderFirst
<1>1. QuietInv => HeaderFirst
  <2> SUFFICES ASSUME QuietInv, NEW c \in Players, played[c].last > 0
               PROVE  played[c].header \/ played[c].early
    BY DEF HeaderFirst
  <2>1. c \in Conns /\ ctx[c].state # "FREE" /\ ~ctx[c].post
    BY TypeFacts DEF Players, QuietInv, LinkInv, TypeOK
  <2> QED BY <2>1 DEF QuietInv, Unheaded
<1> QED BY <1>1, FeedQuiet, PTL

\* A player that sleeps on a live feed has nothing to read.
THEOREM FeedNoLostWakeup == ASSUME ~Hangups, ~DuplicatePosts PROVE Spec => []NoLostWakeup
<1>1. QuietInv => NoLostWakeup
  <2> SUFFICES ASSUME QuietInv PROVE NoLostWakeup
    OBVIOUS
  <2>1. \A c \in Players : c \in Conns
    BY TypeFacts DEF QuietInv, LinkInv, Players
  <2> QED BY <2>1 DEF QuietInv, Unread, NoLostWakeup
<1> QED BY <1>1, FeedQuiet, PTL

-----------------------------------------------------------------------------
(* What is left to send when a response is ended.  As in PostedProofs, the slots are   *)
(* described by linear facts about the numbers of the packets in them.                  *)

\* The ring after k data packets, and a player that has read packet l and stands at slot r: d is
\* the distance of the indices up to one lap, two or more.
Laps(k, d) == k = d \/ k = d + N \/ k >= d + 2 * N
Holds(ring, k, i) ==
  IF i < ring.sff_w THEN ring.pkts[i] # NULL /\ ring.pkts[i].n = k - ring.sff_w + i + 1
  ELSE IF k = ring.sff_w THEN ring.pkts[i] = NULL
  ELSE ring.pkts[i] # NULL /\ ring.pkts[i].n = k - ring.sff_w + i + 1 - N
Filled(ring, k) == Laps(k, ring.sff_w) /\ \A i \in Slots : Holds(ring, k, i)
Behind(k, w, l, r) == l <= k /\ Laps(k - l, w - r)

Numbered(c) == ctx[c].state = "RECEIVE_DATA" => Filled(ctx[c].sff, Newest(c))
Tracked(c) ==
  ctx[c].state # "FREE" /\ ~ctx[c].post =>
    /\ ctx[c].buffer # NULL /\ ctx[c].buffer.kind # "header" => ctx[c].buffer.n = played[c].last
    /\ ctx[c].feed_ctx = NULL => /\ ctx[c].sff_r = 0 /\ played[c].last = 0 /\ ctx[c].buffer = NULL
                                 /\ ctx[c].state = "WAIT_REQUEST" \/ played[c].early
    /\ ctx[c].feed_ctx # NULL =>
         Behind(Newest(ctx[c].feed_ctx), ctx[ctx[c].feed_ctx].sff.sff_w, played[c].last, ctx[c].sff_r)
Sent(k, l) == k - l = 0 \/ k - l >= N
Drained(c) ==
  ctx[c].state = "SEND_DATA_TRAILER" /\ ctx[c].feed_ctx # NULL /\ ~played[c].early =>
    ended[ctx[c].feed_ctx] /\ Sent(Newest(ctx[c].feed_ctx), played[c].last)
DrainInv == \A c \in Conns : Numbered(c) /\ Tracked(c) /\ Drained(c)

LEMMA RingStep ==
  ASSUME NEW i \in Slots
  PROVE  /\ NextSlot(i) = IF i = N - 1 THEN 0 ELSE i + 1
         /\ NextSlot(i) \in Slots /\ i \in Nat /\ i < N /\ N \in Nat
<1>1. NextSlot(i) = IF i = N - 1 THEN 0 ELSE i + 1
  <2>1. CASE i = N - 1
    BY <2>1, RingAssumption DEF NextSlot, Slots
  <2>2. CASE i # N - 1
    BY <2>2, RingAssumption DEF NextSlot, Slots
  <2> QED BY <2>1, <2>2
<1> QED BY <1>1, RingAssumption DEF Slots

LEMMA FilledNew == Filled(NewRing, 0)
  BY RingAssumption DEF Filled, Holds, Laps, NewRing, Slots

LEMMA FilledHeader ==
  ASSUME NEW ring \in Rings, NEW k, Filled(ring, k), NEW p
  PROVE  Filled(WriteHeader(ring, p), k) /\ WriteHeader(ring, p).sff_w = ring.sff_w
<1>1. /\ WriteHeader(ring, p).pkts = ring.pkts /\ WriteHeader(ring, p).sff_w = ring.sff_w
  BY DEF WriteHeader, Rings
<1> QED BY <1>1 DEF Filled, Holds

LEMMA FilledWrite ==
  ASSUME NEW ring \in Rings, NEW k \in Nat, Filled(ring, k), NEW p \in DataPackets, p.n = k + 1
  PROVE  Filled(WriteData(ring, p), k + 1) /\ WriteData(ring, p).sff_w = NextSlot(ring.sff_w)
<1>1. PICK w : w = ring.sff_w
  OBVIOUS
<1>2. PICK v : v = NextSlot(w)
  OBVIOUS
<1>3. /\ w \in Slots /\ w \in Nat /\ w < N /\ N \in Nat /\ v = IF w = N - 1 THEN 0 ELSE w + 1
  BY <1>1, <1>2, RingStep DEF Rings
<1>4. PICK q : q = WriteData(ring, p)
  OBVIOUS
<1>5. q.sff_w = v /\ q.pkts = [ring.pkts EXCEPT ![w] = p]
  BY <1>1, <1>2, <1>4 DEF WriteData, Rings
<1>6. /\ q.pkts[w] = p /\ \A i \in Slots \ {w} : q.pkts[i] = ring.pkts[i]
  BY <1>3, <1>5 DEF Rings
<1>7. p # NULL
  BY NullNotConn DEF Packets
<1>8. Laps(k, w)
  BY <1>1 DEF Filled
<1>9. Laps(k + 1, v)
  BY <1>3, <1>8 DEF Laps
<1>10. ASSUME NEW i \in Slots
       PROVE  IF i < v THEN q.pkts[i] # NULL /\ q.pkts[i].n = (k + 1) - v + i + 1
              ELSE IF k + 1 = v THEN q.pkts[i] = NULL
              ELSE q.pkts[i] # NULL /\ q.pkts[i].n = (k + 1) - v + i + 1 - N
  <2>1. i \in Nat /\ i < N
    BY RingStep
  <2>2. CASE i = w
    <3>1. q.pkts[i] # NULL /\ q.pkts[i].n = k + 1
      BY <1>6, <1>7, <2>2
    <3>2. IF i < v THEN k + 1 = (k + 1) - v + i + 1
          ELSE k + 1 # v /\ k + 1 = (k + 1) - v + i + 1 - N
      BY <1>3, <2>1, <2>2
    <3> QED BY <3>1, <3>2
  <2>3. CASE i # w
    <3>1. q.pkts[i] = ring.pkts[i]
      BY <1>6, <2>3
    <3>2. IF i < w THEN ring.pkts[i] # NULL /\ ring.pkts[i].n = k - w + i + 1
          ELSE IF k = w THEN ring.pkts[i] = NULL
          ELSE ring.pkts[i] # NULL /\ ring.pkts[i].n = k - w + i + 1 - N
      BY <1>1 DEF Filled, Holds
    <3>3. CASE w = N - 1
      <4>1. /\ i < w /\ ~(i < v) /\ k + 1 # v
            /\ (k + 1) - v + i + 1 - N = k - w + i + 1
        BY <1>3, <2>1, <2>3, <3>3
      <4> QED BY <3>1, <3>2, <4>1
    <3>4. CASE w # N - 1
      <4>1. /\ i < v <=> i < w
            /\ k + 1 = v <=> k = w
            /\ (k + 1) - v + i + 1 = k - w + i + 1
            /\ (k + 1) - v + i + 1 - N = k - w + i + 1 - N
        BY <1>3, <2>1, <2>3, <3>4
      <4> QED BY <3>1, <3>2, <4>1
    <3> QED BY <3>3, <3>4
  <2> QED BY <2>2, <2>3
<1>11. Filled(q, k + 1)
  <2>1. q.sff_w = v
    BY <1>5
  <2>2. Laps(k + 1, q.sff_w)
    BY <1>9, <2>1
  <2>3. ASSUME NEW i \in Slots PROVE Holds(q, k + 1, i)
    BY <1>10, <2>1 DEF Holds
  <2> QED BY <2>2, <2>3 DEF Filled
<1> QED BY <1>1, <1>2, <1>4, <1>5, <1>11

\* One packet more: nobody is nearer, and who is as far as the ring says stays so.
LEMMA BehindWrite ==
  ASSUME NEW k \in Nat, NEW w \in Slots, NEW l \in Nat, NEW r \in Slots, Behind(k, w, l, r)
  PROVE  Behind(k + 1, NextSlot(w), l, r)
<1>1. PICK v : v = NextSlot(w)
  OBVIOUS
<1>2. w \in Nat /\ r \in Nat /\ w < N /\ r < N /\ N \in Nat /\ v = IF w = N - 1 THEN 0 ELSE w + 1
  BY <1>1, RingStep
<1>3. Behind(k + 1, v, l, r)
  BY <1>2 DEF Behind, Laps
<1> QED BY <1>1, <1>3

\* A read: nothing is there only when all is read or the player is a ring or more behind, and
\* what is there is the packet the player stands at.
LEMMA BehindRead ==
  ASSUME NEW ring \in Rings, NEW k \in Nat, Filled(ring, k), NEW l \in Nat, NEW r \in Slots,
         Behind(k, ring.sff_w, l, r)
  PROVE  /\ ReadData(ring, r) = NULL => Sent(k, l)
         /\ ReadData(ring, r) # NULL =>
              LET n == ReadData(ring, r).n
              IN /\ Behind(k, ring.sff_w, n, NextSlot(r))
                 /\ l < n /\ n > k - N /\ (n = l + 1 \/ k - l > N)
<1>1. PICK w, v : w = ring.sff_w /\ v = NextSlot(r)
  OBVIOUS
<1>2. /\ w \in Nat /\ r \in Nat /\ w < N /\ r < N /\ N \in Nat
      /\ v = IF r = N - 1 THEN 0 ELSE r + 1
  BY <1>1, RingStep DEF Rings
<1>3. Behind(k, w, l, r)
  BY <1>1
<1>4. CASE r = w
  <2>1. ReadData(ring, r) = NULL
    BY <1>1, <1>4 DEF ReadData
  <2>2. Sent(k, l)
    BY <1>2, <1>3, <1>4 DEF Behind, Laps, Sent
  <2> QED BY <2>1, <2>2
<1>5. CASE r # w
  <2>1. PICK p : p = ReadData(ring, r)
    OBVIOUS
  <2>2. p = ring.pkts[r]
    BY <1>1, <1>5, <2>1 DEF ReadData
  <2>3. Laps(k, w)
    BY <1>1 DEF Filled
  <2>4. IF r < w THEN p # NULL /\ p.n = k - w + r + 1
        ELSE IF k = w THEN p = NULL
        ELSE p # NULL /\ p.n = k - w + r + 1 - N
    BY <1>1, <2>2 DEF Filled, Holds
  <2> DEFINE After(n) == Behind(k, w, n, v) /\ l < n /\ n > k - N /\ (n = l + 1 \/ k - l > N)
  <2>5. CASE r < w
    <3>1. After(p.n)
      BY <1>2, <1>3, <2>4, <2>5 DEF Behind, Laps
    <3> QED BY <1>1, <2>1, <2>4, <2>5, <3>1
  <2>6. CASE r > w
    <3>1. k # w
      BY <1>2, <1>3, <2>6 DEF Behind, Laps
    <3>2. p # NULL /\ p.n = k - w + r + 1 - N
      BY <1>2, <2>4, <2>6, <3>1
    <3>3. After(p.n)
      BY <1>2, <1>3, <2>3, <2>6, <3>1, <3>2 DEF Behind, Laps
    <3> QED BY <1>1, <2>1, <3>2, <3>3
  <2> QED BY <1>2, <1>5, <2>5, <2>6
<1> QED BY <1>4, <1>5

LEMMA BehindStart ==
  ASSUME NEW ring \in Rings, NEW k \in Nat, Filled(ring, k)
  PROVE  Behind(k, ring.sff_w, 0, 0)
<1>1. PICK w : w = ring.sff_w
  OBVIOUS
<1>2. w \in Nat /\ w < N /\ N \in Nat
  BY <1>1, RingStep DEF Rings
<1>3. Laps(k, w)
  BY <1>1 DEF Filled
<1>4. Behind(k, w, 0, 0)
  BY <1>2, <1>3 DEF Behind, Laps
<1> QED BY <1>1, <1>4

\* What the arguments of these lemmas are.
LEMMA DrainTypes ==
  ASSUME LinkInv
  PROVE  \A c \in Conns : /\ Newest(c) \in Nat /\ played[c].last \in Nat /\ sent[c] \in Nat
                          /\ ctx[c].sff \in Rings /\ ctx[c].sff.sff_w \in Slots
                          /\ ctx[c].sff_r \in Slots /\ ctx[c].feed_ctx \in Conns \cup {NULL}
<1> SUFFICES ASSUME NEW c \in Conns
             PROVE  /\ Newest(c) \in Nat /\ played[c].last \in Nat /\ sent[c] \in Nat
                    /\ ctx[c].sff \in Rings /\ ctx[c].sff.sff_w \in Slots
                    /\ ctx[c].sff_r \in Slots /\ ctx[c].feed_ctx \in Conns \cup {NULL}
  OBVIOUS
<1>1. sent[c] \in 0 .. MaxPackets + 1 /\ played[c].last \in 0 .. MaxPackets
  BY DEF LinkInv, TypeOK
<1>2. sent[c] \in Nat /\ played[c].last \in Nat
  BY <1>1, FeedAssumption
<1>3. Newest(c) \in Nat
  BY <1>2 DEF Newest
<1>4. /\ ctx[c].sff \in Rings /\ ctx[c].sff_r \in Slots /\ ctx[c].feed_ctx \in Conns \cup {NULL}
  BY DEF LinkInv, TypeOK, Contexts
<1> QED BY <1>2, <1>3, <1>4 DEF Rings

LEMMA DrainInit == Init => DrainInv
<1> SUFFICES ASSUME Init PROVE DrainInv
  OBVIOUS
<1>1. \A c \in Conns : ctx[c].state = "FREE"
  BY DEF Init, Freed
<1> QED BY <1>1 DEF DrainInv, Numbered, Tracked, Drained

\* A connection nobody points at changes or goes: nothing changes for the others.
LEMMA OthersDrain ==
  ASSUME QuietInv, DrainInv, NEW c \in Conns, Pointing(ctx, c) = {},
         \A d \in Conns \ {c} : /\ Kept(ctx[d], ctx'[d]) /\ sent'[d] = sent[d]
                                /\ played'[d] = played[d] /\ ended'[d] = ended[d]
  PROVE  \A d \in Conns \ {c} : Numbered(d)' /\ Tracked(d)' /\ Drained(d)'
<1> SUFFICES ASSUME NEW d \in Conns \ {c} PROVE Numbered(d)' /\ Tracked(d)' /\ Drained(d)'
  OBVIOUS
<1>1. Numbered(d) /\ Tracked(d) /\ Drained(d)
  BY DEF DrainInv
<1>2. Kept(ctx[d], ctx'[d]) /\ sent'[d] = sent[d] /\ played'[d] = played[d]
  OBVIOUS
<1> DEFINE f == ctx[d].feed_ctx
<1>3. f # NULL => f \in Conns \ {c}
  BY DrainTypes DEF QuietInv, Pointing
<1>4. f # NULL => /\ sent'[f] = sent[f] /\ ended'[f] = ended[f] /\ ctx'[f].sff = ctx[f].sff
                  /\ Newest(f)' = Newest(f)
  BY <1>3 DEF Kept, Newest
<1>5. Newest(d)' = Newest(d)
  BY <1>2 DEF Newest
<1>6. Numbered(d)'
  BY <1>1, <1>2, <1>5 DEF Numbered, Kept
<1>7. /\ ctx'[d].state = ctx[d].state /\ ctx'[d].post = ctx[d].post /\ ctx'[d].feed_ctx = f
      /\ ctx'[d].sff_r = ctx[d].sff_r /\ ctx'[d].buffer = ctx[d].buffer
  BY <1>2 DEF Kept
<1> HIDE DEF f
<1>8. Tracked(d)'
  BY <1>1, <1>2, <1>4, <1>7 DEF Tracked, f
<1>9. Drained(d)'
  BY <1>1, <1>2, <1>4, <1>7 DEF Drained, f
<1> QED BY <1>6, <1>8, <1>9

\* A connection that goes.
LEMMA FreedDrain ==
  ASSUME QuietInv, DrainInv, NEW c \in Conns, Pointing(ctx, c) = {}, ctx'[c] = Freed,
         \A d \in Conns \ {c} : /\ Kept(ctx[d], ctx'[d]) /\ sent'[d] = sent[d]
                                /\ played'[d] = played[d] /\ ended'[d] = ended[d]
  PROVE  DrainInv'
<1>1. ctx'[c].state = "FREE"
  BY DEF Freed
<1>2. Numbered(c)' /\ Tracked(c)' /\ Drained(c)'
  BY <1>1 DEF Numbered, Tracked, Drained
<1> QED BY <1>2, OthersDrain DEF DrainInv

\* A step of a player.
LEMMA PlayerDrain ==
  ASSUME QuietInv, DrainInv, NEW c \in Conns, ctx[c].state # "RECEIVE_DATA",
         \/ Stays(c) /\ ctx'[c].state # "RECEIVE_DATA" /\ Tracked(c)' /\ Drained(c)'
         \/ Leaves(c),
         UNCHANGED <<sent, ended>>, \A d \in Conns \ {c} : played'[d] = played[d]
  PROVE  DrainInv'
<1>1. Pointing(ctx, c) = {}
  BY NobodyPoints DEF QuietInv, Core
<1>2. CASE Stays(c) /\ ctx'[c].state # "RECEIVE_DATA" /\ Tracked(c)' /\ Drained(c)'
  <2>1. Numbered(c)'
    BY <1>2 DEF Numbered
  <2>2. \A d \in Conns \ {c} : Kept(ctx[d], ctx'[d])
    BY <1>2 DEF Stays, Local, Kept
  <2>3. \A d \in Conns \ {c} : Numbered(d)' /\ Tracked(d)' /\ Drained(d)'
    BY <1>1, <2>2, OthersDrain
  <2> QED BY <1>2, <2>1, <2>3 DEF DrainInv
<1>3. CASE Leaves(c)
  BY <1>1, <1>3, LeavesAlone, FreedDrain
<1> QED BY <1>2, <1>3

\* A feeder's call.
LEMMA WokeDrain ==
  ASSUME QuietInv, DrainInv, NEW c \in Conns, ctx[c].state = "RECEIVE_DATA", NEW to \in Sending,
         Woke(ctx', c, to), LinkInv', UNCHANGED played,
         \A d \in Conns \ {c} : sent'[d] = sent[d] /\ ended'[d] = ended[d],
         Numbered(c)',
         \A l \in Nat, r \in Slots : Behind(Newest(c), ctx[c].sff.sff_w, l, r)
                                     => Behind(Newest(c)', ctx'[c].sff.sff_w, l, r),
         \/ to # "SEND_DATA_TRAILER" /\ ~ended[c]
         \/ to = "SEND_DATA_TRAILER" /\ ended[c] /\ UNCHANGED <<sent, ended>>
  PROVE  DrainInv'
<1>1. /\ ctx'[c].state = "RECEIVE_DATA" /\ ctx'[c].post = ctx[c].post /\ ctx[c].post
  BY DEF Woke, QuietInv, Core, Posting
<1>2. Numbered(c)' /\ Tracked(c)' /\ Drained(c)'
  BY <1>1 DEF Tracked, Drained
<1>3. Behind(Newest(c)', ctx'[c].sff.sff_w, 0, 0)
  <2>1. Newest(c)' \in Nat /\ ctx'[c].sff \in Rings
    <3>1. sent'[c] \in 0 .. MaxPackets + 1 /\ ctx'[c] \in Contexts
      BY DEF LinkInv, TypeOK
    <3>2. sent'[c] \in Nat
      BY <3>1, FeedAssumption
    <3> QED BY <3>1, <3>2 DEF Newest, Contexts
  <2>2. Filled(ctx'[c].sff, Newest(c)')
    BY <1>1 DEF Numbered
  <2> QED BY <2>1, <2>2, BehindStart
<1>4. to \notin {"FREE", "WAIT_REQUEST", "RECEIVE_DATA", "WAIT_FEED"}
  BY DEF Sending
<1>5. ASSUME NEW d \in Conns \ {c} PROVE Numbered(d)' /\ Tracked(d)' /\ Drained(d)'
  <2> DEFINE f == ctx[d].feed_ctx
             l == played[d].last
  <2>1. /\ Numbered(d) /\ Tracked(d) /\ Drained(d) /\ played'[d] = played[d]
        /\ Newest(d)' = Newest(d)
    BY DEF DrainInv, Newest
  <2>2. l \in Nat /\ ctx[d].sff_r \in Slots
    BY DrainTypes DEF QuietInv
  <2>3. CASE ctx'[d] = ctx[d] /\ ~(ctx[d].state = "WAIT_FEED" /\ f = c)
    <3>1. Numbered(d)'
      BY <2>1, <2>3 DEF Numbered
    <3>2. f # NULL /\ f # c => /\ f \in Conns \ {c} /\ ctx'[f].sff = ctx[f].sff
                               /\ Newest(f)' = Newest(f) /\ ended'[f] = ended[f]
      <4> SUFFICES ASSUME f # NULL, f # c
                   PROVE  /\ f \in Conns \ {c} /\ ctx'[f].sff = ctx[f].sff
                          /\ Newest(f)' = Newest(f) /\ ended'[f] = ended[f]
        OBVIOUS
      <4>1. f \in Conns \ {c}
        BY DrainTypes DEF QuietInv
      <4>2. ctx'[f].sff = ctx[f].sff
        BY <4>1 DEF Woke, Woken
      <4> QED BY <2>3, <4>1, <4>2 DEF Newest
    <3>3. Tracked(d)'
      BY <2>1, <2>2, <2>3, <3>2 DEF Tracked
    <3>4. Drained(d)'
      <4> SUFFICES ASSUME ctx[d].state = "SEND_DATA_TRAILER", f # NULL, ~played[d].early
                   PROVE  ended'[f] /\ Sent(Newest(f)', l)
        BY <2>1, <2>3 DEF Drained
      <4>1. ended[f] /\ Sent(Newest(f), l)
        BY <2>1 DEF Drained
      <4>2. CASE f = c
        BY <2>3, <4>1, <4>2 DEF Newest
      <4>3. CASE f # c
        BY <3>2, <4>1, <4>3
      <4> QED BY <4>2, <4>3
    <3> QED BY <3>1, <3>3, <3>4
  <2>4. CASE ctx[d].state = "WAIT_FEED" /\ Woken(ctx[d], ctx'[d], c, to) /\ f \in {c, NULL}
    <3>1. /\ ctx'[d].state = to /\ ctx'[d].post = ctx[d].post /\ ctx'[d].feed_ctx = c
          /\ ctx'[d].sff_r = ctx[d].sff_r /\ ctx'[d].buffer = ctx[d].buffer
      BY <2>4 DEF Woken
    <3>2. Numbered(d)'
      BY <1>4, <3>1 DEF Numbered
    <3>3. ~ctx[d].post
      BY <2>4 DEF QuietInv, Core, Posting
    <3>4. c # NULL
      BY NullNotConn
    <3>5. /\ f = NULL => ctx[d].sff_r = 0 /\ l = 0 /\ played[d].early
          /\ f = c => Behind(Newest(c), ctx[c].sff.sff_w, l, ctx[d].sff_r)
          /\ ctx[d].buffer # NULL /\ ctx[d].buffer.kind # "header" => ctx[d].buffer.n = l
      BY <2>1, <2>4, <3>3, <3>4 DEF Tracked
    <3>6. Behind(Newest(c)', ctx'[c].sff.sff_w, l, ctx[d].sff_r)
      <4>1. CASE f = NULL
        BY <1>3, <3>5, <4>1
      <4>2. CASE f = c
        BY <2>2, <3>5, <4>2
      <4> QED BY <2>4, <4>1, <4>2
    <3>7. Tracked(d)'
      BY <2>1, <3>1, <3>4, <3>5, <3>6 DEF Tracked
    <3>8. Drained(d)'
      <4> SUFFICES ASSUME to = "SEND_DATA_TRAILER", ~played[d].early
                   PROVE  ended'[c] /\ Sent(Newest(c)', l)
        BY <2>1, <3>1 DEF Drained
      <4>1. ended[c] /\ ended'[c] = ended[c] /\ Newest(c)' = Newest(c)
        BY DEF Newest
      <4>2. f = c
        BY <2>4, <3>5
      <4>3. ReadData(ctx[c].sff, ctx[d].sff_r) = NULL
        BY <2>4, <3>4, <4>2 DEF QuietInv, Unread
      <4>4. /\ ctx[c].sff \in Rings /\ Newest(c) \in Nat /\ Filled(ctx[c].sff, Newest(c))
        BY DrainTypes DEF QuietInv, DrainInv, Numbered
      <4>5. Sent(Newest(c), l)
        BY <2>2, <3>5, <4>2, <4>3, <4>4, BehindRead
      <4> QED BY <4>1, <4>5
    <3> QED BY <3>2, <3>7, <3>8
  <2> QED BY <2>3, <2>4 DEF Woke
<1> QED BY <1>2, <1>5 DEF DrainInv

LEMMA AcceptDrain == ASSUME QuietInv, DrainInv, Accept PROVE DrainInv'
<1>1. PICK c \in Conns : /\ ctx[c].state = "FREE"
                         /\ ctx' = [ctx EXCEPT ![c] = Fresh]
                         /\ sent' = [sent EXCEPT ![c] = 0]
                         /\ ended' = [ended EXCEPT ![c] = FALSE]
                         /\ played' = [played EXCEPT ![c] = Nothing]
  BY DEF Accept
<1>2. Sound(ctx) /\ Rest /\ Pointing(ctx, c) = {}
  BY <1>1, LinkInvParts, NobodyPoints DEF QuietInv, Core
<1>3. /\ ctx'[c] = Fresh /\ played'[c] = Nothing
      /\ \A d \in Conns \ {c} : /\ ctx'[d] = ctx[d] /\ sent'[d] = sent[d]
                                /\ played'[d] = played[d] /\ ended'[d] = ended[d]
  BY <1>1, <1>2 DEF Sound, Memory, Rest
<1>4. \A d \in Conns \ {c} : Kept(ctx[d], ctx'[d])
  BY <1>3 DEF Kept
<1>5. /\ ctx'[c].state = "WAIT_REQUEST" /\ ctx'[c].feed_ctx = NULL
      /\ ctx'[c].buffer = NULL /\ ctx'[c].sff_r = 0 /\ played'[c].last = 0
  BY <1>3 DEF Fresh, Freed, Nothing
<1>6. Numbered(c)' /\ Tracked(c)' /\ Drained(c)'
  BY <1>5 DEF Numbered, Tracked, Drained
<1>7. \A d \in Conns \ {c} : Numbered(d)' /\ Tracked(d)' /\ Drained(d)'
  BY <1>2, <1>3, <1>4, OthersDrain
<1> QED BY <1>6, <1>7 DEF DrainInv

LEMMA PostDrain ==
  ASSUME QuietInv, DrainInv, NEW c \in Conns, NEW url \in Urls, PostStream(c, url)
  PROVE  DrainInv'
<1>1. /\ Pointing(ctx, c) = {} /\ ctx \in Memory /\ ctx[c] \in Contexts
      /\ ctx[c].state = "WAIT_REQUEST"
  BY LinkInvParts, NobodyPoints DEF QuietInv, Core, Sound, Memory, PostStream
<1>2. /\ UNCHANGED <<sent, ended, played>> /\ \A d \in Conns \ {c} : ctx'[d] = ctx[d]
      /\ ctx'[c].post /\ ctx'[c].sff = ctx[c].sff
      /\ ctx'[c].state \in {"SEND_HEADER", "RECEIVE_DATA"}
  BY <1>1 DEF PostStream, Memory, Contexts
<1>3. \A d \in Conns \ {c} : Kept(ctx[d], ctx'[d])
  BY <1>2 DEF Kept
<1>4. sent'[c] = 0 /\ ctx'[c].sff = NewRing
  BY <1>1, <1>2 DEF QuietInv, Core, Started
<1>5. Numbered(c)'
  <2>1. Newest(c)' = 0
    BY <1>4 DEF Newest
  <2> QED BY <1>4, <2>1, FilledNew DEF Numbered
<1>6. Tracked(c)' /\ Drained(c)'
  BY <1>2 DEF Tracked, Drained
<1>7. \A d \in Conns \ {c} : Numbered(d)' /\ Tracked(d)' /\ Drained(d)'
  BY <1>1, <1>2, <1>3, OthersDrain
<1> QED BY <1>5, <1>6, <1>7 DEF DrainInv

LEMMA GetDrain ==
  ASSUME QuietInv, DrainInv, NEW c \in Conns, NEW url \in Urls, GetStream(c, url)
  PROVE  DrainInv'
<1> DEFINE f == find_feed(ctx, url)
<1>1. /\ ctx[c].state = "WAIT_REQUEST" /\ f # c
      /\ f = NULL \/ (f \in Conns /\ ctx[f].post)
      /\ \A d \in Conns \ {c} : Kept(ctx[d], ctx'[d])
      /\ ctx'[c].state = "SEND_HEADER" /\ ctx'[c].feed_ctx = f
      /\ ctx'[c].buffer = ctx[c].buffer /\ ctx'[c].sff_r = ctx[c].sff_r
  BY GetOutcome DEF QuietInv
<1>2. Rest /\ UNCHANGED <<sent, ended>> /\ played' = [played EXCEPT ![c].early = (f = NULL)]
  BY LinkInvParts DEF QuietInv, GetStream
<1> HIDE DEF f
<1>3. Pointing(ctx, c) = {} /\ ~ctx[c].post /\ ctx[c].feed_ctx = NULL
  BY <1>1, NobodyPoints DEF QuietInv, Core, LinkInv, Linked
<1>4. /\ \A d \in Conns \ {c} : played'[d] = played[d]
      /\ played'[c].early = (f = NULL) /\ played'[c].last = played[c].last
  BY <1>2 DEF Rest
<1>5. ctx[c].sff_r = 0 /\ played[c].last = 0 /\ ctx[c].buffer = NULL
  <2>1. Tracked(c)
    BY DEF DrainInv
  <2> QED BY <1>1, <1>3, <2>1 DEF Tracked
<1>6. f # NULL => Behind(Newest(f), ctx[f].sff.sff_w, 0, 0) /\ ctx'[f].sff = ctx[f].sff
  <2> SUFFICES ASSUME f # NULL
               PROVE  Behind(Newest(f), ctx[f].sff.sff_w, 0, 0) /\ ctx'[f].sff = ctx[f].sff
    OBVIOUS
  <2>1. f \in Conns \ {c} /\ ctx[f].state = "RECEIVE_DATA"
    BY <1>1 DEF QuietInv, Core, Posting
  <2>2. ctx[f].sff \in Rings /\ Newest(f) \in Nat /\ Filled(ctx[f].sff, Newest(f))
    BY <2>1, DrainTypes DEF QuietInv, DrainInv, Numbered
  <2>3. ctx'[f].sff = ctx[f].sff
    BY <1>1, <2>1 DEF Kept
  <2> QED BY <2>2, <2>3, BehindStart
<1>7. Tracked(c)'
  <2>1. ctx'[c].state # "WAIT_REQUEST"
    BY <1>1
  <2>2. CASE f = NULL
    BY <1>1, <1>4, <1>5, <2>2 DEF Tracked
  <2>3. CASE f # NULL
    <3>1. ctx'[c].feed_ctx # NULL
      BY <1>1, <2>3
    <3>2. Newest(ctx[c].feed_ctx)' = Newest(f)
      BY <1>1, <1>2 DEF Newest
    <3>3. /\ played'[c].last = 0 /\ ctx'[c].sff_r = 0 /\ ctx'[c].buffer = NULL
          /\ ctx'[ctx'[c].feed_ctx].sff.sff_w = ctx[f].sff.sff_w
      BY <1>1, <1>4, <1>5, <1>6, <2>3
    <3>4. Behind(Newest(f), ctx[f].sff.sff_w, 0, 0)
      BY <1>6, <2>3
    <3> QED BY <3>1, <3>2, <3>3, <3>4 DEF Tracked
  <2> QED BY <2>2, <2>3
<1>8. Numbered(c)' /\ Drained(c)'
  BY <1>1 DEF Numbered, Drained
<1>9. \A d \in Conns \ {c} : Numbered(d)' /\ Tracked(d)' /\ Drained(d)'
  BY <1>1, <1>2, <1>3, <1>4, OthersDrain
<1> QED BY <1>7, <1>8, <1>9 DEF DrainInv

\* What a player's own step leaves of it: it stands where it stood, or one packet further.
LEMMA StaysTracked ==
  ASSUME QuietInv, DrainInv, NEW c \in Conns, ~ctx[c].post,
         ctx[c].state \in States \ {"WAIT_REQUEST"}, Stays(c), UNCHANGED <<sent, ended>>,
         played'[c].early = played[c].early,
         ctx'[c].buffer # NULL /\ ctx'[c].buffer.kind # "header"
           => ctx'[c].buffer.n = played'[c].last,
         \/ /\ ctx'[c].sff_r = ctx[c].sff_r /\ played'[c].last = played[c].last
            /\ ctx'[c].buffer # NULL => ctx[c].feed_ctx # NULL
         \/ /\ ctx[c].feed_ctx # NULL
            /\ LET p == ReadData(ctx[ctx[c].feed_ctx].sff, ctx[c].sff_r)
               IN p # NULL /\ played'[c].last = p.n /\ ctx'[c].sff_r = NextSlot(ctx[c].sff_r)
  PROVE  Tracked(c)'
<1> DEFINE f == ctx[c].feed_ctx
<1>1. ctx'[c].feed_ctx = f /\ ctx'[c].state # "WAIT_REQUEST" /\ ctx[c].state # "FREE"
  BY DEF Stays, Local, States, Sending
<1>2. Tracked(c)
  BY DEF DrainInv
<1>3. CASE f = NULL
  <2>1. ctx[c].sff_r = 0 /\ played[c].last = 0 /\ ctx[c].buffer = NULL /\ played[c].early
    BY <1>2, <1>3, <1>1 DEF Tracked
  <2> QED BY <1>1, <1>3, <2>1 DEF Tracked
<1>4. CASE f # NULL
  <2>1. f \in Conns /\ f # c
    BY <1>4, DrainTypes DEF QuietInv, Core, Alive, Posting
  <2>2. ctx[f].state = "RECEIVE_DATA"
    BY <1>4 DEF QuietInv, Core, Alive
  <2>3. /\ ctx[f].sff \in Rings /\ Newest(f) \in Nat /\ Filled(ctx[f].sff, Newest(f))
        /\ played[c].last \in Nat /\ ctx[c].sff_r \in Slots
    BY <2>1, <2>2, DrainTypes DEF QuietInv, DrainInv, Numbered
  <2>4. Behind(Newest(f), ctx[f].sff.sff_w, played[c].last, ctx[c].sff_r)
    BY <1>1, <1>2, <1>4 DEF Tracked
  <2>5. Behind(Newest(f), ctx[f].sff.sff_w, played'[c].last, ctx'[c].sff_r)
    <3>1. CASE ctx'[c].sff_r = ctx[c].sff_r /\ played'[c].last = played[c].last
      BY <2>4, <3>1
    <3>2. CASE LET p == ReadData(ctx[f].sff, ctx[c].sff_r)
               IN p # NULL /\ played'[c].last = p.n /\ ctx'[c].sff_r = NextSlot(ctx[c].sff_r)
      BY <2>3, <2>4, <3>2, BehindRead
    <3> QED BY <3>1, <3>2
  <2>6. ctx'[f].sff = ctx[f].sff
    BY <2>1 DEF Stays, Local
  <2>7. Newest(ctx[c].feed_ctx)' = Newest(f)
    BY <1>1 DEF Newest
  <2> QED BY <1>1, <1>4, <2>5, <2>6, <2>7 DEF Tracked
<1> QED BY <1>3, <1>4

LEMMA PacketDrain ==
  ASSUME QuietInv, DrainInv, NEW c \in Conns, ReceivePacket(c), LinkInv'
  PROVE  DrainInv'
<1>1. /\ Rest /\ LinkInv /\ ~ended[c]
  BY LinkInvParts DEF QuietInv, ReceivePacket
<1>2. /\ UNCHANGED played /\ ctx[c].state = "RECEIVE_DATA"
      /\ sent' = [sent EXCEPT ![c] = sent[c] + 1]
  BY <1>1, PacketOutcome
<1>3. /\ sent'[c] = sent[c] + 1 /\ sent[c] \in Nat
      /\ \A d \in Conns \ {c} : sent'[d] = sent[d]
  BY <1>1, <1>2, DrainTypes DEF Rest
<1>4. /\ ctx[c].sff \in Rings /\ ctx[c].sff.sff_w \in Slots /\ Newest(c) \in Nat
      /\ Filled(ctx[c].sff, Newest(c))
  BY <1>1, <1>2, DrainTypes DEF DrainInv, Numbered
<1>5. "SEND_DATA_HEADER" \in Sending /\ "SEND_DATA" \in Sending
  BY DEF Sending
<1>6. CASE /\ sent[c] = 0 /\ Woke(ctx', c, "SEND_DATA_HEADER") /\ UNCHANGED ended
           /\ \E p : ctx'[c].sff = WriteHeader(ctx[c].sff, p)
  <2>1. Newest(c)' = Newest(c)
    BY <1>3, <1>6 DEF Newest
  <2>2. Filled(ctx'[c].sff, Newest(c)) /\ ctx'[c].sff.sff_w = ctx[c].sff.sff_w
    BY <1>4, <1>6, FilledHeader
  <2>3. Numbered(c)'
    BY <2>1, <2>2 DEF Numbered
  <2>4. \A l \in Nat, r \in Slots : Behind(Newest(c), ctx[c].sff.sff_w, l, r)
                                    => Behind(Newest(c)', ctx'[c].sff.sff_w, l, r)
    BY <2>1, <2>2
  <2> QED BY <1>1, <1>2, <1>3, <1>5, <1>6, <2>3, <2>4, WokeDrain
<1>7. CASE /\ sent[c] > 0 /\ Woke(ctx', c, "SEND_DATA")
           /\ \A d \in Conns \ {c} : ended'[d] = ended[d]
           /\ \E p \in DataPackets : p.n = sent[c] /\ ctx'[c].sff = WriteData(ctx[c].sff, p)
  <2>1. Newest(c)' = Newest(c) + 1 /\ sent[c] = Newest(c) + 1
    BY <1>3, <1>7 DEF Newest
  <2>2. PICK p \in DataPackets : p.n = Newest(c) + 1 /\ ctx'[c].sff = WriteData(ctx[c].sff, p)
    BY <1>7, <2>1
  <2>3. /\ Filled(ctx'[c].sff, Newest(c) + 1)
        /\ ctx'[c].sff.sff_w = NextSlot(ctx[c].sff.sff_w)
    BY <1>4, <2>2, FilledWrite
  <2>4. Numbered(c)'
    BY <2>1, <2>3 DEF Numbered
  <2>5. \A l \in Nat, r \in Slots : Behind(Newest(c), ctx[c].sff.sff_w, l, r)
                                    => Behind(Newest(c)', ctx'[c].sff.sff_w, l, r)
    BY <1>4, <2>1, <2>3, BehindWrite
  <2> QED BY <1>1, <1>2, <1>3, <1>5, <1>7, <2>4, <2>5, WokeDrain
<1>8. \/ /\ sent[c] = 0 /\ Woke(ctx', c, "SEND_DATA_HEADER") /\ UNCHANGED ended
         /\ \E p : ctx'[c].sff = WriteHeader(ctx[c].sff, p)
      \/ /\ sent[c] > 0 /\ Woke(ctx', c, "SEND_DATA")
         /\ \A d \in Conns \ {c} : ended'[d] = ended[d]
         /\ \E p \in DataPackets : p.n = sent[c] /\ ctx'[c].sff = WriteData(ctx[c].sff, p)
  BY <1>1, PacketOutcome
<1> QED BY <1>6, <1>7, <1>8

LEMMA EndDrain ==
  ASSUME ~Hangups, QuietInv, DrainInv, NEW c \in Conns, ReceiveEnd(c), LinkInv'
  PROVE  DrainInv'
<1> DEFINE n == wake_others(ctx, c, "SEND_DATA_TRAILER")
<1>1. /\ UNCHANGED <<sent, ended, played>> /\ ended[c]
      /\ ctx[c].state = "RECEIVE_DATA" /\ Woke(n, c, "SEND_DATA_TRAILER")
      /\ n[c].sff = ctx[c].sff
      /\ \/ Close(n, c) /\ n[c].sff_ref_cnt <= 0
         \/ ctx' = n /\ UNCHANGED list
  BY EndOutcome DEF QuietInv, ReceiveEnd
<1> HIDE DEF n
<1>2. "SEND_DATA_TRAILER" \in Sending
  BY DEF Sending
<1>3. CASE Close(n, c) /\ n[c].sff_ref_cnt <= 0
  <2>1. /\ Pointing(ctx, c) = {} /\ ctx'[c] = Freed
        /\ \A d \in Conns \ {c} : Kept(ctx[d], ctx'[d])
    BY <1>1, <1>2, <1>3, EndAlone
  <2> QED BY <1>1, <2>1, FreedDrain
<1>4. CASE ctx' = n
  <2>1. Newest(c)' = Newest(c) /\ ctx'[c].sff = ctx[c].sff /\ Numbered(c)
    BY <1>1, <1>4 DEF Newest, DrainInv
  <2>2. Numbered(c)'
    BY <1>1, <2>1 DEF Numbered
  <2>3. \A l \in Nat, r \in Slots : Behind(Newest(c), ctx[c].sff.sff_w, l, r)
                                    => Behind(Newest(c)', ctx'[c].sff.sff_w, l, r)
    BY <2>1
  <2>4. Woke(ctx', c, "SEND_DATA_TRAILER")
    BY <1>1, <1>4
  <2> QED BY <1>1, <1>2, <2>2, <2>3, <2>4, WokeDrain
<1> QED BY <1>1, <1>3, <1>4

LEMMA DrainNext ==
  ASSUME ~Hangups, ~DuplicatePosts
  PROVE  QuietInv /\ QuietInv' /\ DrainInv /\ [Next]_vars => DrainInv'
<1> SUFFICES ASSUME QuietInv, LinkInv', DrainInv, [Next]_vars PROVE DrainInv'
  BY DEF QuietInv
<1>a. LinkInv /\ Rest /\ \A c \in Conns : ctx[c] \in Contexts
  BY LinkInvParts, TypeFacts DEF QuietInv, LinkInv
<1>b. \A c \in Conns : ctx[c].state \in Sending \cup {"SEND_HEADER"} =>
        /\ ~ctx[c].post /\ ctx[c].state # "RECEIVE_DATA"
        /\ ctx[c].state \in States \ {"WAIT_REQUEST"}
  BY DEF QuietInv, Core, Posting, Sending, States
<1>1. CASE Accept
  BY <1>1, AcceptDrain
<1>2. ASSUME NEW c \in Conns, NEW url \in Urls, PostStream(c, url) \/ GetStream(c, url)
      PROVE  DrainInv'
  BY <1>2, PostDrain, GetDrain
<1>3. ASSUME NEW c \in Conns, SendHeader(c) PROVE DrainInv'
  <2>1. /\ ctx[c].state = "SEND_HEADER" /\ UNCHANGED <<sent, ended, played>>
        /\ \/ Leaves(c)
           \/ /\ Stays(c) /\ ctx'[c].state = "SEND_DATA_HEADER"
              /\ ctx'[c].sff_r = ctx[c].sff_r /\ ctx'[c].buffer = ctx[c].buffer
    BY <1>a, <1>3, SendHeaderOutcome DEF SendHeader
  <2>2. ~ctx[c].post /\ ctx[c].state \in States \ {"WAIT_REQUEST"} /\ Tracked(c)
    BY <1>b, <2>1 DEF DrainInv
  <2>3. CASE /\ Stays(c) /\ ctx'[c].state = "SEND_DATA_HEADER"
             /\ ctx'[c].sff_r = ctx[c].sff_r /\ ctx'[c].buffer = ctx[c].buffer
    <3>1. /\ ctx[c].buffer # NULL => ctx[c].feed_ctx # NULL
          /\ ctx[c].buffer # NULL /\ ctx[c].buffer.kind # "header"
               => ctx[c].buffer.n = played[c].last
      BY <2>1, <2>2 DEF Tracked
    <3>2. Tracked(c)'
      BY <2>1, <2>2, <2>3, <3>1, StaysTracked
    <3>3. Drained(c)' /\ ctx'[c].state # "RECEIVE_DATA"
      BY <2>3 DEF Drained
    <3> QED BY <2>1, <2>3, <3>2, <3>3, PlayerDrain
  <2>4. CASE Leaves(c)
    BY <2>1, <2>4, PlayerDrain
  <2> QED BY <2>1, <2>3, <2>4
<1>4. ASSUME NEW c \in Conns, SendRest(c) PROVE DrainInv'
  <2> DEFINE p == ctx[c].buffer
  <2>1. ctx[c].state \in Sending /\ p \in Packets /\ p # NULL
    BY <1>a, <1>4 DEF SendRest, Contexts
  <2>2. Local(ctx, ctx, c)
    BY <1>a, <2>1, TypeFacts DEF Local, States, Sending, LinkInv
  <2>3. /\ UNCHANGED <<sent, ended>>
        /\ \/ Leaves(c)
           \/ /\ Stays(c) /\ ctx'[c].state = ctx[c].state /\ ctx'[c].sff_r = ctx[c].sff_r
              /\ ctx'[c].buffer \in {NULL, p}
    BY <1>a, <1>4, <2>1, <2>2, SendOutcome DEF SendRest
  <2>4. /\ ~ctx[c].post /\ ctx[c].state # "RECEIVE_DATA"
        /\ ctx[c].state \in States \ {"WAIT_REQUEST"} /\ Tracked(c) /\ Drained(c)
    BY <1>b, <2>1 DEF DrainInv
  <2>5. /\ ctx[c].feed_ctx # NULL
        /\ p.kind # "header" => p.n = played[c].last
    BY <2>1, <2>4 DEF Tracked, Sending
  <2>6. /\ \A d \in Conns \ {c} : played'[d] = played[d]
        /\ played'[c].early = played[c].early
        /\ played'[c].last = IF p.kind = "header" THEN played[c].last ELSE p.n
    BY <1>a, <1>4 DEF SendRest, Send, Rest
  <2>7. played'[c].last = played[c].last
    BY <2>5, <2>6
  <2> HIDE DEF p
  <2>8. ASSUME Stays(c), ctx'[c].state = ctx[c].state, ctx'[c].sff_r = ctx[c].sff_r,
               ctx'[c].buffer \in {NULL, p}
        PROVE  Tracked(c)' /\ Drained(c)'
    <3>1. ctx'[c].buffer # NULL /\ ctx'[c].buffer.kind # "header"
            => ctx'[c].buffer.n = played'[c].last
      BY <2>5, <2>7, <2>8
    <3>2. Tracked(c)'
      BY <2>3, <2>4, <2>5, <2>6, <2>7, <2>8, <3>1, StaysTracked
    <3>3. ctx'[c].feed_ctx = ctx[c].feed_ctx
      BY <2>8 DEF Stays, Local
    <3>4. Drained(c)'
      BY <2>3, <2>4, <2>6, <2>7, <2>8, <3>3 DEF Drained, Newest
    <3> QED BY <3>2, <3>4
  <2> QED BY <2>3, <2>4, <2>6, <2>8, PlayerDrain
<1>5. ASSUME NEW c \in Conns, NEW all \in BOOLEAN, SendDataHeader(c, all) PROVE DrainInv'
  <2>1. ctx[c].state = "SEND_DATA_HEADER" /\ ctx[c].buffer = NULL
    BY <1>5 DEF SendDataHeader
  <2>2. /\ UNCHANGED <<sent, ended>> /\ Stays(c) /\ ctx'[c].sff_r = ctx[c].sff_r
        /\ \/ /\ ctx'[c].state = "WAIT_FEED" /\ UNCHANGED played
              /\ ctx'[c].buffer = ctx[c].buffer
           \/ /\ ctx'[c].state = "SEND_DATA" /\ ctx[c].feed_ctx # NULL
              /\ ctx'[c].buffer = NULL \/ ctx'[c].buffer.kind = "header"
              /\ played' = [played EXCEPT ![c].header = TRUE]
    BY <1>a, <1>5, SendDataHeaderOutcome
  <2>3. ~ctx[c].post /\ ctx[c].state # "RECEIVE_DATA" /\ ctx[c].state \in States \ {"WAIT_REQUEST"}
    BY <1>b, <2>1 DEF Sending
  <2>4. /\ played'[c].last = played[c].last /\ played'[c].early = played[c].early
        /\ \A d \in Conns \ {c} : played'[d] = played[d]
    BY <1>a, <2>2 DEF Rest
  <2>5. /\ ctx'[c].buffer # NULL => ctx[c].feed_ctx # NULL
        /\ ctx'[c].buffer # NULL => ctx'[c].buffer.kind = "header"
    BY <2>1, <2>2
  <2>6. Tracked(c)'
    BY <2>2, <2>3, <2>4, <2>5, StaysTracked
  <2>7. Drained(c)' /\ ctx'[c].state # "RECEIVE_DATA"
    BY <2>2 DEF Drained
  <2> QED BY <2>2, <2>3, <2>4, <2>6, <2>7, PlayerDrain
<1>6. ASSUME NEW c \in Conns, NEW all \in BOOLEAN, SendData(c, all) PROVE DrainInv'
  <2> DEFINE p == ReadData(ctx[ctx[c].feed_ctx].sff, ctx[c].sff_r)
  <2>1. ctx[c].state = "SEND_DATA" /\ ctx[c].buffer = NULL
    BY <1>6 DEF SendData
  <2>2. /\ UNCHANGED <<sent, ended>>
        /\ \/ /\ Stays(c) /\ ctx'[c].state = "WAIT_FEED" /\ ctx'[c].sff_r = ctx[c].sff_r
              /\ UNCHANGED played /\ ctx'[c].buffer = ctx[c].buffer
           \/ /\ \A d \in Conns \ {c} : played'[d] = played[d]
              /\ ctx[c].feed_ctx # NULL /\ Reads(c, p)
    BY <1>a, <1>6, SendDataOutcome
  <2>3. ~ctx[c].post /\ ctx[c].state # "RECEIVE_DATA" /\ ctx[c].state \in States \ {"WAIT_REQUEST"}
    BY <1>b, <2>1 DEF Sending
  <2>4. CASE /\ Stays(c) /\ ctx'[c].state = "WAIT_FEED" /\ ctx'[c].sff_r = ctx[c].sff_r
             /\ UNCHANGED played /\ ctx'[c].buffer = ctx[c].buffer
    <3>1. ctx'[c].buffer = NULL
      BY <2>1, <2>4
    <3>2. Tracked(c)'
      BY <2>2, <2>3, <2>4, <3>1, StaysTracked
    <3>3. Drained(c)' /\ ctx'[c].state # "RECEIVE_DATA"
      BY <2>4 DEF Drained
    <3> QED BY <2>2, <2>3, <2>4, <3>2, <3>3, PlayerDrain
  <2>5. CASE /\ \A d \in Conns \ {c} : played'[d] = played[d]
             /\ ctx[c].feed_ctx # NULL /\ Reads(c, p)
    <3> HIDE DEF p
    <3>1. p # NULL /\ played'[c].last = p.n /\ played'[c].early = played[c].early
      BY <2>5 DEF Reads
    <3>2. CASE Leaves(c)
      BY <2>2, <2>3, <2>5, <3>2, PlayerDrain
    <3>3. CASE /\ Stays(c) /\ ctx'[c].state = "SEND_DATA"
               /\ ctx'[c].sff_r = NextSlot(ctx[c].sff_r) /\ ctx'[c].buffer \in {NULL, p}
      <4>1. ctx'[c].buffer # NULL /\ ctx'[c].buffer.kind # "header"
              => ctx'[c].buffer.n = played'[c].last
        BY <3>1, <3>3
      <4>2. Tracked(c)'
        BY <2>2, <2>3, <2>5, <3>1, <3>3, <4>1, StaysTracked DEF p
      <4>3. Drained(c)' /\ ctx'[c].state # "RECEIVE_DATA"
        BY <3>3 DEF Drained
      <4> QED BY <2>2, <2>3, <2>5, <3>3, <4>2, <4>3, PlayerDrain
    <3> QED BY <2>5, <3>2, <3>3 DEF Reads
  <2> QED BY <2>2, <2>4, <2>5
<1>7. ASSUME NEW c \in Conns, SendTrailer(c) \/ Drop(c) PROVE DrainInv'
  BY <1>a, <1>7, SendTrailerOutcome, PlayerDrain
<1>8. ASSUME NEW c \in Conns, ReceivePacket(c) PROVE DrainInv'
  BY <1>8, PacketDrain
<1>9. ASSUME NEW c \in Conns, PeerEnds(c) PROVE DrainInv'
  <2>1. UNCHANGED <<ctx, sent, played>> /\ ended' = [ended EXCEPT ![c] = TRUE]
    BY <1>9 DEF PeerEnds
  <2>2. \A d \in Conns : ended[d] => ended'[d]
    BY <1>a, <2>1 DEF Rest
  <2> SUFFICES ASSUME NEW d \in Conns PROVE Numbered(d)' /\ Tracked(d)' /\ Drained(d)'
    BY DEF DrainInv
  <2>3. Numbered(d) /\ Tracked(d) /\ Drained(d) /\ ctx[d].feed_ctx \in Conns \cup {NULL}
    BY <1>a, DrainTypes DEF DrainInv
  <2>4. Numbered(d)' /\ Tracked(d)'
    BY <2>1, <2>3 DEF Numbered, Tracked, Newest
  <2>5. Drained(d)'
    BY <2>1, <2>2, <2>3 DEF Drained, Newest
  <2> QED BY <2>4, <2>5
<1>10. ASSUME NEW c \in Conns, ReceiveEnd(c) PROVE DrainInv'
  BY <1>10, EndDrain
<1>11. CASE UNCHANGED vars
  BY <1>11 DEF vars, DrainInv, Numbered, Tracked, Drained, Newest
<1>12. ASSUME NEW c \in Conns, HangUp(c) PROVE DrainInv'
  BY <1>12 DEF HangUp
<1> QED BY <1>1, <1>2, <1>3, <1>4, <1>5, <1>6, <1>7, <1>8, <1>9, <1>10, <1>11, <1>12
        DEF Next, Serve

\* When a player's response is ended, either the player has been sent every packet that its
\* feeder has received or it has fallen a whole ring behind.
THEOREM FeedDrained == ASSUME ~Hangups, ~DuplicatePosts PROVE Spec => DrainedAtTrailer
<1>1. QuietInv /\ DrainInv /\ [Next]_vars =>
        [\A c \in Conns : SendTrailer(c) /\ ctx[c].feed_ctx # NULL /\ ~played[c].early =>
           LET unread == Newest(ctx[c].feed_ctx) - played[c].last
           IN unread = 0 \/ unread >= N]_vars
  BY DEF DrainInv, Drained, Sent, SendTrailer
<1> QED BY <1>1, QuietInvInit, QuietInvNext, DrainInit, DrainNext, PTL DEF Spec, DrainedAtTrailer

-----------------------------------------------------------------------------
(* FeedServer implements LiveFeeds *)

\* A connection has a url from its request on.
Nameless == \A c \in Conns : ctx[c].state \in {"FREE", "WAIT_REQUEST"} => ctx[c].url = NULL

\* What the abstract specification sees of a connection's memory stays, and so does whether the
\* connection has made its request.
Shown(d) == /\ ctx'[d].url = ctx[d].url /\ ctx'[d].feed_ctx = ctx[d].feed_ctx
            /\ ctx'[d].state = "RECEIVE_DATA" <=> ctx[d].state = "RECEIVE_DATA"
            /\ ctx'[d].state \in {"FREE", "WAIT_REQUEST"} => ctx'[d].state = ctx[d].state
Unseen(c) == \A d \in Conns \ {c} : Shown(d) /\ sent'[d] = sent[d] /\ played'[d] = played[d]

LEMMA NamelessStays ==
  ASSUME Nameless, NEW c \in Conns, \A d \in Conns \ {c} : Shown(d),
         Shown(c) \/ (ctx'[c].state \in {"FREE", "WAIT_REQUEST"} => ctx'[c].url = NULL)
  PROVE  Nameless'
BY DEF Nameless, Shown

LEMMA WokeNames ==
  ASSUME Nameless, NEW c \in Conns, NEW to \in Sending, ctx[c].state = "RECEIVE_DATA",
         Woke(ctx', c, to)
  PROVE  Nameless'
BY DEF Nameless, Woke, Woken, Sending

LEMMA FeedStutters ==
  ASSUME NEW c \in Conns, Unseen(c), Shown(c), sent'[c] = sent[c],
         played'[c].last = played[c].last
  PROVE  UNCHANGED LiveFeed!lvars
<1>1. \A d \in Conns : /\ Shown(d) /\ sent'[d] = sent[d] /\ played'[d].last = played[d].last
                       /\ Newest(d)' = Newest(d)
  BY DEF Unseen, Newest
<1> QED BY <1>1 DEF LiveFeed!lvars, Shown

LEMMA FeedLeaves ==
  ASSUME NEW c \in Conns, Pointing(ctx, c) = {}, ctx'[c] = Freed, Unseen(c),
         played'[c].last = played[c].last
  PROVE  LiveFeed!Next
<1>1. /\ ctx'[c].url = NULL /\ ctx'[c].feed_ctx = NULL /\ ctx'[c].state = "FREE"
      /\ \A d \in Conns : ctx[d].feed_ctx # c
  BY DEF Freed, Pointing
<1>2. \A d \in Conns \ {c} : Newest(d)' = Newest(d)
  BY DEF Unseen, Newest
<1>3. LiveFeed!Leave(c)
  BY <1>1, <1>2 DEF LiveFeed!Leave, LiveFeed!Off, Unseen, Shown
<1> QED BY <1>3 DEF LiveFeed!Next

\* The players a feeder takes in a step.
Adopted(c) == {d \in Conns \ {c} : ctx[d].feed_ctx = NULL /\ ctx'[d].feed_ctx = c}

\* A feeder's call: the players that came before it are taken.
LEMMA FeedFeeds ==
  ASSUME QuietInv, DrainInv, NEW c \in Conns, ctx[c].state = "RECEIVE_DATA",
         NEW to \in Sending, Woke(ctx', c, to), UNCHANGED played,
         NEW n \in {0, 1}, Newest(c)' = Newest(c) + n,
         \A d \in Conns \ {c} : sent'[d] = sent[d]
  PROVE  LiveFeed!Next
<1>1. /\ ctx'[c].state = "RECEIVE_DATA" /\ ctx'[c].url = ctx[c].url
      /\ ctx[c].feed_ctx = NULL /\ ctx'[c].feed_ctx = NULL
  BY DEF Woke, QuietInv, LinkInv, Linked, Core, Posting
<1>2. ASSUME NEW d \in Conns \ {c}
      PROVE  /\ ctx'[d].url = ctx[d].url
             /\ ctx'[d].state = "RECEIVE_DATA" <=> ctx[d].state = "RECEIVE_DATA"
             /\ ctx'[d].feed_ctx = IF d \in Adopted(c) THEN c ELSE ctx[d].feed_ctx
  BY DEF Woke, Woken, Sending, Adopted
<1>3. ASSUME NEW d \in Adopted(c)
      PROVE  /\ d \in Conns /\ d # c /\ ctx[d].feed_ctx = NULL
             /\ ctx[d].state # "RECEIVE_DATA" /\ ctx[d].url = ctx[c].url /\ played[d].last = 0
  <2>1. /\ d \in Conns \ {c} /\ ctx[d].feed_ctx = NULL /\ ctx'[d].feed_ctx = c
    BY DEF Adopted
  <2>2. ctx[d].state = "WAIT_FEED" /\ ctx[d].url = ctx[c].url
    BY <2>1, NullNotConn DEF Woke
  <2>3. ~ctx[d].post /\ Tracked(d)
    BY <2>1, <2>2 DEF QuietInv, Core, Posting, DrainInv
  <2> QED BY <2>1, <2>2, <2>3 DEF Tracked
<1>4. \A d \in Conns \ {c} : Newest(d)' = Newest(d)
  BY DEF Newest
<1>5. Newest(c) \in Nat
  BY DrainTypes DEF QuietInv
<1>6. Adopted(c) \in SUBSET Conns /\ c \notin Adopted(c)
  BY DEF Adopted
<1> DEFINE on(d) == IF ctx[d].state = "RECEIVE_DATA" THEN Newest(d) ELSE -1
<1>7. on(c)' = on(c) + n /\ on(c) # -1
  BY <1>1, <1>5
<1>8. \A d \in Conns \ {c} : on(d)' = on(d)
  BY <1>2, <1>4
<1>9. [d \in Conns |-> on(d)]' = [[d \in Conns |-> on(d)] EXCEPT ![c] = @ + n]
  <2> HIDE DEF on
  <2> QED BY <1>7, <1>8
<1>10. [d \in Conns |-> ctx[d].feed_ctx]'
         = [d \in Conns |-> IF d \in Adopted(c) THEN c ELSE [e \in Conns |-> ctx[e].feed_ctx][d]]
  BY <1>1, <1>2, <1>6
<1>11. [d \in Conns |-> ctx[d].url]' = [d \in Conns |-> ctx[d].url]
  BY <1>1, <1>2
<1>12. [d \in Conns |-> on(d)][c] # -1 /\ \A d \in Adopted(c) : [e \in Conns |-> on(e)][d] = -1
  BY <1>3, <1>7
<1>13. LiveFeed!Feed(c, n, Adopted(c))
  BY <1>3, <1>6, <1>9, <1>10, <1>11, <1>12 DEF LiveFeed!Feed, LiveFeed!OnAir, LiveFeed!Off
<1> QED BY <1>6, <1>13 DEF LiveFeed!Next, LiveFeed!Feed

\* The steps of a connection, up to its request.
LEMMA AcceptFeeds ==
  ASSUME QuietInv, Nameless, Accept
  PROVE  LiveFeed!Next /\ Nameless'
<1>1. PICK c \in Conns : /\ ctx[c].state = "FREE"
                         /\ ctx' = [ctx EXCEPT ![c] = Fresh]
                         /\ sent' = [sent EXCEPT ![c] = 0]
                         /\ played' = [played EXCEPT ![c] = Nothing]
  BY DEF Accept
<1>2. ctx \in Memory /\ Rest /\ ctx[c].url = NULL /\ ctx[c].feed_ctx = NULL
  BY <1>1, LinkInvParts DEF QuietInv, Sound, Linked, Nameless
<1>3. /\ ctx'[c] = Fresh /\ played'[c] = Nothing
      /\ \A d \in Conns \ {c} : ctx'[d] = ctx[d] /\ sent'[d] = sent[d] /\ played'[d] = played[d]
  BY <1>1, <1>2 DEF Memory, Rest
<1>4. /\ ctx'[c].state = "WAIT_REQUEST" /\ ctx'[c].url = NULL /\ ctx'[c].feed_ctx = NULL
      /\ played'[c].last = 0
  BY <1>3 DEF Fresh, Freed, Nothing
<1>5. \A d \in Conns \ {c} : Shown(d) /\ Newest(d)' = Newest(d)
  BY <1>3 DEF Shown, Newest
<1>6. \A d \in Conns : /\ ctx'[d].url = ctx[d].url /\ ctx'[d].feed_ctx = ctx[d].feed_ctx
                       /\ ctx'[d].state = "RECEIVE_DATA" <=> ctx[d].state = "RECEIVE_DATA"
                       /\ ctx[d].state = "RECEIVE_DATA" => Newest(d)' = Newest(d)
                       /\ played'[d].last = IF d = c THEN 0 ELSE played[d].last
  BY <1>1, <1>2, <1>3, <1>4, <1>5 DEF Shown
<1>7. LiveFeed!Arrive(c)
  BY <1>2, <1>6 DEF LiveFeed!Arrive
<1>8. LiveFeed!Next
  BY <1>7 DEF LiveFeed!Next
<1>9. Nameless'
  BY <1>4, <1>5, NamelessStays
<1> QED BY <1>8, <1>9

LEMMA PostFeeds ==
  ASSUME QuietInv, Nameless, ~DuplicatePosts, NEW c \in Conns, NEW url \in Urls, PostStream(c, url)
  PROVE  LiveFeed!Next /\ Nameless'
<1>1. /\ ctx[c].state = "WAIT_REQUEST" /\ ~IsFed(url) /\ UNCHANGED <<sent, played>>
      /\ ctx'[c] = [ctx[c] EXCEPT !.post = TRUE, !.url = url, !.state = "RECEIVE_DATA"]
      /\ \A d \in Conns \ {c} : ctx'[d] = ctx[d]
  BY PostOutcome
<1>2. ctx[c] \in Contexts /\ ctx[c].url = NULL /\ sent[c] = 0
  BY <1>1, LinkInvParts DEF QuietInv, Sound, Memory, Nameless, Core, Started
<1>3. /\ ctx'[c].state = "RECEIVE_DATA" /\ ctx'[c].url = url
      /\ ctx'[c].feed_ctx = ctx[c].feed_ctx /\ Newest(c)' = 0
  BY <1>1, <1>2 DEF Contexts, Newest
<1>4. \A d \in Conns \ {c} : Shown(d) /\ Newest(d)' = Newest(d)
  BY <1>1 DEF Shown, Newest
<1>5. \A g \in Conns : ctx[g].state = "RECEIVE_DATA" => ctx[g].url # url
  BY <1>1 DEF IsFed, Feeding
<1>6. LiveFeed!Start(c, url)
  BY <1>1, <1>2, <1>3, <1>4, <1>5, ZenonT(60) DEF LiveFeed!Start, LiveFeed!OnAir, LiveFeed!Off, Shown
<1>7. LiveFeed!Next
  BY <1>6 DEF LiveFeed!Next, LiveFeed!Start
<1>8. Nameless'
  BY <1>3, <1>4, NamelessStays
<1> QED BY <1>7, <1>8

LEMMA GetFeeds ==
  ASSUME QuietInv, Nameless, NEW c \in Conns, NEW url \in Urls, GetStream(c, url)
  PROVE  LiveFeed!Next /\ Nameless'
<1> DEFINE f == find_feed(ctx, url)
<1>1. /\ ctx[c].state = "WAIT_REQUEST" /\ f # c
      /\ f = NULL \/ (f \in Conns /\ ctx[f].post /\ ctx[f].url = url)
      /\ \A d \in Conns \ {c} : Kept(ctx[d], ctx'[d])
      /\ ctx'[c].state = "SEND_HEADER" /\ ctx'[c].feed_ctx = f /\ ctx'[c].url = url
  BY GetOutcome DEF QuietInv
<1>2. Rest /\ UNCHANGED sent /\ played' = [played EXCEPT ![c].early = (f = NULL)]
  BY LinkInvParts DEF QuietInv, GetStream
<1> HIDE DEF f
<1>3. \A d \in Conns : played'[d].last = played[d].last /\ Newest(d)' = Newest(d)
  BY <1>2 DEF Rest, Newest
<1>4. ctx[c].url = NULL /\ played[c].last = 0
  BY <1>1 DEF Nameless, QuietInv, Core, Started, Nothing
<1>5. f = NULL \/ (f \in Conns /\ ctx[f].state = "RECEIVE_DATA" /\ ctx[f].url = url)
  BY <1>1 DEF QuietInv, Core, Posting
<1>6. f # NULL => Newest(f) # -1
  BY <1>5, DrainTypes DEF QuietInv
<1>7. \A d \in Conns \ {c} : Shown(d)
  BY <1>1 DEF Shown, Kept
<1>8. LiveFeed!Ask(c, url, f)
  BY <1>1, <1>3, <1>4, <1>5, <1>6, <1>7 DEF LiveFeed!Ask, LiveFeed!OnAir, LiveFeed!Off, Shown
<1>9. LiveFeed!Next
  BY <1>5, <1>8 DEF LiveFeed!Next, LiveFeed!Ask
<1>10. Nameless'
  BY <1>1, <1>7, NamelessStays
<1> QED BY <1>9, <1>10

\* A player's own steps: it goes, is given a packet, or nothing that can be seen happens.
LEMMA PlayerStutters ==
  ASSUME Nameless, NEW c \in Conns, Stays(c),
         ctx[c].state # "RECEIVE_DATA", ctx'[c].state # "RECEIVE_DATA", UNCHANGED sent,
         \A d \in Conns \ {c} : played'[d] = played[d], played'[c].last = played[c].last
  PROVE  UNCHANGED LiveFeed!lvars /\ Nameless'
<1>1. Unseen(c) /\ Shown(c)
  BY DEF Stays, Local, Unseen, Shown, States, Sending
<1>2. UNCHANGED LiveFeed!lvars
  BY <1>1, FeedStutters
<1> QED BY <1>1, <1>2, NamelessStays DEF Unseen

LEMMA PlayerLeaves ==
  ASSUME QuietInv, Nameless, NEW c \in Conns, Leaves(c), ctx[c].state # "RECEIVE_DATA",
         UNCHANGED sent, \A d \in Conns \ {c} : played'[d] = played[d],
         played'[c].last = played[c].last
  PROVE  LiveFeed!Next /\ Nameless'
<1>1. /\ Pointing(ctx, c) = {} /\ ctx'[c] = Freed
      /\ \A d \in Conns \ {c} : Kept(ctx[d], ctx'[d])
  BY NobodyPoints, LeavesAlone DEF QuietInv, Core
<1>2. Unseen(c) /\ ctx'[c].url = NULL
  BY <1>1 DEF Unseen, Shown, Kept, Freed
<1>3. LiveFeed!Next
  BY <1>1, <1>2, FeedLeaves
<1> QED BY <1>2, <1>3, NamelessStays DEF Unseen

LEMMA ReadFeeds ==
  ASSUME QuietInv, DrainInv, Nameless, NEW c \in Conns, NEW all \in BOOLEAN, SendData(c, all)
  PROVE  [LiveFeed!Next]_(LiveFeed!lvars) /\ Nameless'
<1> DEFINE f == ctx[c].feed_ctx
           p == ReadData(ctx[f].sff, ctx[c].sff_r)
<1>1. ctx[c].state = "SEND_DATA" /\ ~ctx[c].post
  BY DEF SendData, QuietInv, Core, Posting
<1>2. /\ UNCHANGED <<sent, ended>>
      /\ \/ Stays(c) /\ ctx'[c].state = "WAIT_FEED" /\ UNCHANGED played
         \/ (\A d \in Conns \ {c} : played'[d] = played[d]) /\ f # NULL /\ Reads(c, p)
  BY SendDataOutcome DEF QuietInv
<1>3. CASE Stays(c) /\ ctx'[c].state = "WAIT_FEED" /\ UNCHANGED played
  BY <1>1, <1>2, <1>3, PlayerStutters
<1>4. CASE (\A d \in Conns \ {c} : played'[d] = played[d]) /\ f # NULL /\ Reads(c, p)
  <2>1. f \in Conns /\ ctx[f].state = "RECEIVE_DATA" /\ Tracked(c)
    BY <1>4, DrainTypes DEF QuietInv, Core, Alive, DrainInv
  <2>2. Filled(ctx[f].sff, Newest(f)) /\ Behind(Newest(f), ctx[f].sff.sff_w, played[c].last, ctx[c].sff_r)
    BY <1>1, <1>4, <2>1 DEF Tracked, DrainInv, Numbered
  <2>3. /\ Newest(f) \in Nat /\ played[c].last \in Nat
        /\ ctx[f].sff \in Rings /\ ctx[c].sff_r \in Slots
    BY <2>1, DrainTypes DEF QuietInv
  <2>4. p # NULL /\ p \in DataPackets /\ played'[c].last = p.n
    BY <1>4 DEF Reads
  <2> DEFINE k == p.n
  <2>5. k \in Nat
    BY <2>4, FeedAssumption DEF DataPackets
  <2>6. /\ Behind(Newest(f), ctx[f].sff.sff_w, k, NextSlot(ctx[c].sff_r))
        /\ played[c].last < k /\ k > Newest(f) - N
        /\ k = played[c].last + 1 \/ Newest(f) - played[c].last > N
    BY <2>2, <2>3, <2>4, BehindRead
  <2> HIDE DEF p
  <2>7. k \in played[c].last + 1 .. Newest(f)
    BY <2>3, <2>5, <2>6 DEF Behind
  <2>8. \A d \in Conns : Newest(d)' = Newest(d)
    BY <1>2 DEF Newest
  <2>9. \E ends \in BOOLEAN :
          /\ ctx'[c].url = (IF ends THEN NULL ELSE ctx[c].url)
          /\ ctx'[c].feed_ctx = (IF ends THEN NULL ELSE f)
          /\ ctx'[c].state # "RECEIVE_DATA" /\ Unseen(c)
          /\ ctx'[c].state \in {"FREE", "WAIT_REQUEST"} => ctx'[c].url = NULL
    <3>1. CASE Leaves(c)
      <4>1. /\ Pointing(ctx, c) = {} /\ ctx'[c] = Freed
            /\ \A d \in Conns \ {c} : Kept(ctx[d], ctx'[d])
        BY <1>1, <3>1, NobodyPoints, LeavesAlone DEF QuietInv, Core
      <4>2. Unseen(c)
        BY <1>2, <1>4, <4>1 DEF Unseen, Shown, Kept
      <4>3. ctx'[c].url = NULL /\ ctx'[c].feed_ctx = NULL /\ ctx'[c].state = "FREE"
        BY <4>1 DEF Freed
      <4> WITNESS TRUE \in BOOLEAN
      <4> QED BY <4>2, <4>3
    <3>2. CASE Stays(c) /\ ctx'[c].state = "SEND_DATA"
      BY <1>2, <1>4, <3>2 DEF Stays, Local, Unseen, Shown
    <3> QED BY <1>4, <3>1, <3>2 DEF Reads
  <2>10. PICK ends \in BOOLEAN :
          /\ ctx'[c].url = (IF ends THEN NULL ELSE ctx[c].url)
          /\ ctx'[c].feed_ctx = (IF ends THEN NULL ELSE f)
          /\ ctx'[c].state # "RECEIVE_DATA" /\ Unseen(c)
          /\ ctx'[c].state \in {"FREE", "WAIT_REQUEST"} => ctx'[c].url = NULL
    BY <2>9
  <2> HIDE DEF f, k
  <2>11. LiveFeed!Deliver(c, f, k, ends)
    <3>1. ctx[c].feed_ctx = f /\ played'[c].last = k
      BY <2>4 DEF f, k
    <3>2. \A d \in Conns \ {c} : /\ ctx'[d].url = ctx[d].url /\ ctx'[d].feed_ctx = ctx[d].feed_ctx
                                 /\ ctx'[d].state = "RECEIVE_DATA" <=> ctx[d].state = "RECEIVE_DATA"
                                 /\ played'[d] = played[d]
      BY <2>10 DEF Unseen, Shown
    <3>3. \A d \in Conns : ctx'[d].state = "RECEIVE_DATA" <=> ctx[d].state = "RECEIVE_DATA"
      BY <1>1, <2>10, <3>2
    <3> QED BY <2>1, <2>6, <2>8, <2>10, <3>1, <3>2, <3>3, ZenonT(60) DEF LiveFeed!Deliver, LiveFeed!Unread
  <2>12. LiveFeed!Next
    <3>1. f \in Conns /\ k \in [d \in Conns |-> played[d].last][c] + 1 ..
                 [d \in Conns |-> IF ctx[d].state = "RECEIVE_DATA" THEN Newest(d) ELSE -1][f]
      BY <2>1, <2>7
    <3> QED BY <2>11, <3>1 DEF LiveFeed!Next, LiveFeed!Deliver
  <2> QED BY <2>10, <2>12, NamelessStays DEF Unseen
<1> QED BY <1>2, <1>3, <1>4

\* A feeder's steps: a packet, and the end of the stream.
LEMMA PacketFeeds ==
  ASSUME QuietInv, DrainInv, Nameless, NEW c \in Conns, ReceivePacket(c)
  PROVE  LiveFeed!Next /\ Nameless'
<1>1. /\ UNCHANGED played /\ ctx[c].state = "RECEIVE_DATA"
      /\ sent' = [sent EXCEPT ![c] = sent[c] + 1]
      /\ \/ sent[c] = 0 /\ Woke(ctx', c, "SEND_DATA_HEADER")
         \/ sent[c] > 0 /\ Woke(ctx', c, "SEND_DATA")
  BY PacketOutcome DEF QuietInv
<1>2. /\ sent'[c] = sent[c] + 1 /\ sent[c] \in Nat
      /\ \A d \in Conns \ {c} : sent'[d] = sent[d]
  BY <1>1, LinkInvParts, DrainTypes DEF QuietInv, Rest
<1>3. PICK to \in Sending : Woke(ctx', c, to)
  BY <1>1 DEF Sending
<1>4. PICK n \in {0, 1} : Newest(c)' = Newest(c) + n
  BY <1>2 DEF Newest
<1>5. LiveFeed!Next
  BY <1>1, <1>2, <1>3, <1>4, FeedFeeds
<1>6. Nameless'
  BY <1>1, <1>3, WokeNames
<1> QED BY <1>5, <1>6

LEMMA EndFeeds ==
  ASSUME ~Hangups, QuietInv, DrainInv, Nameless, NEW c \in Conns, ReceiveEnd(c)
  PROVE  LiveFeed!Next /\ Nameless'
<1> DEFINE n == wake_others(ctx, c, "SEND_DATA_TRAILER")
<1>1. /\ UNCHANGED <<sent, played>>
      /\ ctx[c].state = "RECEIVE_DATA" /\ Woke(n, c, "SEND_DATA_TRAILER")
      /\ (Close(n, c) /\ n[c].sff_ref_cnt <= 0) \/ ctx' = n
  BY EndOutcome DEF QuietInv
<1> HIDE DEF n
<1>2. "SEND_DATA_TRAILER" \in Sending
  BY DEF Sending
<1>3. CASE Close(n, c) /\ n[c].sff_ref_cnt <= 0
  <2>1. /\ Pointing(ctx, c) = {} /\ ctx'[c] = Freed
        /\ \A d \in Conns \ {c} : Kept(ctx[d], ctx'[d])
    BY <1>1, <1>2, <1>3, EndAlone
  <2>2. Unseen(c) /\ ctx'[c].url = NULL
    BY <1>1, <2>1 DEF Unseen, Shown, Kept, Freed
  <2>3. LiveFeed!Next
    BY <1>1, <2>1, <2>2, FeedLeaves
  <2> QED BY <2>2, <2>3, NamelessStays DEF Unseen
<1>4. CASE ctx' = n
  <2>1. Newest(c)' = Newest(c) + 0
    <3>1. Newest(c) \in Nat
      BY DrainTypes DEF QuietInv
    <3> QED BY <1>1, <3>1 DEF Newest
  <2>2. Woke(ctx', c, "SEND_DATA_TRAILER")
    BY <1>1, <1>4
  <2>3. LiveFeed!Next
    BY <1>1, <1>2, <2>1, <2>2, FeedFeeds
  <2> QED BY <1>1, <1>2, <2>2, <2>3, WokeNames
<1> QED BY <1>1, <1>3, <1>4

\* The refinement: the initial states, and every step.
LEMMA FeedStarts == Init => LiveFeed!Init /\ Nameless
<1> SUFFICES ASSUME Init PROVE LiveFeed!Init /\ Nameless
  OBVIOUS
<1>1. \A c \in Conns : /\ ctx[c].state = "FREE" /\ ctx[c].url = NULL /\ ctx[c].feed_ctx = NULL
                       /\ played[c].last = 0
  BY DEF Init, Freed, Nothing
<1> QED BY <1>1 DEF LiveFeed!Init, LiveFeed!Off, Nameless

LEMMA FeedRefines ==
  ASSUME ~Hangups, ~DuplicatePosts
  PROVE  QuietInv /\ DrainInv /\ Nameless /\ [Next]_vars
           => [LiveFeed!Next]_(LiveFeed!lvars) /\ Nameless'
<1> SUFFICES ASSUME QuietInv, DrainInv, Nameless, [Next]_vars
             PROVE  [LiveFeed!Next]_(LiveFeed!lvars) /\ Nameless'
  OBVIOUS
<1> DEFINE Goal == [LiveFeed!Next]_(LiveFeed!lvars) /\ Nameless'
<1>a. LinkInv /\ Rest /\ \A c \in Conns : ctx[c] \in Contexts
  BY LinkInvParts, TypeFacts DEF QuietInv, LinkInv
<1>b. \A c \in Conns : ctx[c].state \in Sending \cup {"SEND_HEADER"} =>
        ~ctx[c].post /\ ctx[c].state # "RECEIVE_DATA"
  BY DEF QuietInv, Core, Posting, Sending
<1>1. CASE Accept
  BY <1>1, AcceptFeeds
<1>2. ASSUME NEW c \in Conns, NEW url \in Urls, PostStream(c, url) \/ GetStream(c, url)
      PROVE  Goal
  BY <1>2, PostFeeds, GetFeeds
<1>3. ASSUME NEW c \in Conns, SendHeader(c) PROVE Goal
  <2>1. /\ ctx[c].state = "SEND_HEADER" /\ UNCHANGED <<sent, played>>
        /\ Leaves(c) \/ (Stays(c) /\ ctx'[c].state = "SEND_DATA_HEADER")
    BY <1>a, <1>3, SendHeaderOutcome DEF SendHeader
  <2> QED BY <2>1, PlayerStutters, PlayerLeaves
<1>4. ASSUME NEW c \in Conns, SendRest(c) PROVE Goal
  <2>1. /\ ctx[c].state \in Sending /\ ctx[c].buffer \in Packets /\ ctx[c].buffer # NULL
        /\ ~ctx[c].post /\ ctx[c].state # "RECEIVE_DATA"
    BY <1>a, <1>b, <1>4 DEF SendRest, Contexts
  <2>2. Local(ctx, ctx, c)
    BY <1>a, <2>1, TypeFacts DEF Local, States, Sending, LinkInv
  <2>3. /\ UNCHANGED <<sent, ended>>
        /\ Leaves(c) \/ (Stays(c) /\ ctx'[c].state = ctx[c].state)
    BY <1>a, <1>4, <2>1, <2>2, SendOutcome DEF SendRest
  <2>4. /\ \A d \in Conns \ {c} : played'[d] = played[d]
        /\ played'[c].last = IF ctx[c].buffer.kind = "header" THEN played[c].last
                             ELSE ctx[c].buffer.n
    BY <1>a, <1>4 DEF SendRest, Send, Rest
  <2>5. played'[c].last = played[c].last
    <3>1. Tracked(c)
      BY DEF DrainInv
    <3> QED BY <2>1, <2>4, <3>1 DEF Tracked, Sending
  <2> QED BY <2>1, <2>3, <2>4, <2>5, PlayerStutters, PlayerLeaves
<1>5. ASSUME NEW c \in Conns, NEW all \in BOOLEAN, SendDataHeader(c, all) PROVE Goal
  <2>1. /\ UNCHANGED <<sent, ended>> /\ Stays(c)
        /\ \/ ctx'[c].state = "WAIT_FEED" /\ UNCHANGED played
           \/ ctx'[c].state = "SEND_DATA" /\ played' = [played EXCEPT ![c].header = TRUE]
    BY <1>a, <1>5, SendDataHeaderOutcome
  <2>2. played'[c].last = played[c].last /\ \A d \in Conns \ {c} : played'[d] = played[d]
    BY <1>a, <2>1 DEF Rest
  <2>3. ctx[c].state = "SEND_DATA_HEADER"
    BY <1>5 DEF SendDataHeader
  <2> QED BY <2>1, <2>2, <2>3, PlayerStutters
<1>6. ASSUME NEW c \in Conns, NEW all \in BOOLEAN, SendData(c, all) PROVE Goal
  BY <1>6, ReadFeeds
<1>7. ASSUME NEW c \in Conns, SendTrailer(c) \/ Drop(c) PROVE Goal
  BY <1>a, <1>7, SendTrailerOutcome, PlayerLeaves
<1>8. ASSUME NEW c \in Conns, ReceivePacket(c) PROVE Goal
  BY <1>8, PacketFeeds
<1>9. ASSUME NEW c \in Conns, ReceiveEnd(c) PROVE Goal
  BY <1>9, EndFeeds
<1>10. CASE UNCHANGED <<ctx, sent, played>>
  BY <1>10 DEF LiveFeed!lvars, Newest, Nameless
<1>11. ASSUME NEW c \in Conns, PeerEnds(c) PROVE UNCHANGED <<ctx, sent, played>>
  BY <1>11 DEF PeerEnds
<1>12. ASSUME NEW c \in Conns, HangUp(c) PROVE FALSE
  BY <1>12 DEF HangUp
<1> QED BY <1>1, <1>2, <1>3, <1>4, <1>5, <1>6, <1>7, <1>8, <1>9, <1>10, <1>11, <1>12
        DEF Next, Serve, vars

\* Rings, links, counts and wake-ups together keep the promise of LiveFeeds, for every number of
\* connections and streams and every size of the ring: whoever comes and goes, a player is given
\* packets of one feeder of its stream, in order, and misses some only where it is a ring behind.
THEOREM FeedImplementsLiveFeeds ==
  ASSUME ~Hangups, ~DuplicatePosts PROVE Spec => ImplementsLiveFeeds
BY QuietInvInit, QuietInvNext, DrainInit, DrainNext, FeedStarts, FeedRefines, PTL
   DEF Spec, ImplementsLiveFeeds, LiveFeed!Spec
=============================================================================
