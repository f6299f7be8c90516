------------------------- MODULE ConnectionPoolProofs -------------------------
(***************************************************************************)
(* Proofs about the event loop for every limit, every set of addresses and *)
(* every build.  PoolInv is inductive: Listed and Counted relate the list, *)
(* the contexts and nb_connections; Visited says what holds of the         *)
(* connections that a round has already handled and of those it has not;   *)
(* Turns relates the position poll_entry has reached to the table that was *)
(* filled at the beginning of the round.                                   *)
(***************************************************************************)
EXTENDS ConnectionPool, FiniteSetTheorems, SequenceTheorems, TLAPS

Contexts == [Conns -> [state : States \cup {"FREE"}, left : -1 .. Timeout]]
InTime(m) == m.state = "WAIT_REQUEST" => m.left >= 0

\* The first entries of a table filled when the control connection was fd.
Control(fd) == If("ctl" \in opt, Fd("ctl", 0)) \o If(fd # 0, Fd("ctl2", fd))
Table(fd) == Control(fd) \o If("http" \in opt, Fd("http", 0))
               \o If("https" \in opt, Fd("https", 0)) \o If("ssdp" \in opt, Fd("ssdp", 0))

Listed == \A c \in Conns : c \in conns <=> ctx[c].state # "FREE"
Counted == /\ IsFiniteSet(conns)
           /\ nb_connections = Cardinality(conns)
           /\ nb_connections <= nb_max_connections
Visited == /\ pc # "handle" => todo = {}
           /\ pc = "handle" => \A c \in todo : entry[c] # NULL
           /\ \A c \in conns \ todo : InTime(ctx[c])
Turns ==
  /\ at >= 1 /\ (pc \in {"poll", "handle", "ctl"} => at = 1)
  /\ pc # "poll" => ready \subseteq DOMAIN head /\ \E fd \in Int : head = Table(fd)
  /\ pc \in {"handle", "ctl"} /\ "ctl" \in opt /\ 1 \in ready => backlog["ctl"] > 0
  /\ pc = "https" /\ "http" \in opt => head[at - 1] = Fd("http", 0) /\ at > 1

PoolInv == TypeOK /\ Listed /\ Counted /\ Visited /\ Turns

-----------------------------------------------------------------------------
(* The poll table *)

Fds == {"ctl", "ctl2", "http", "https", "ssdp"} \X Int

\* The control channel comes first, and nothing else is in that part of the table.
LEMMA ControlShape ==
  ASSUME NEW fd \in Int
  PROVE  /\ Control(fd) \in Seq(Fds)
         /\ \A i \in 1 .. Len(Control(fd)) : Control(fd)[i][1] \in {"ctl", "ctl2"}
         /\ "ctl" \in opt => Len(Control(fd)) >= 1 /\ Control(fd)[1] = Fd("ctl", 0)
<1> DEFINE s == If("ctl" \in opt, Fd("ctl", 0))
           t == If(fd # 0, Fd("ctl2", fd))
<1>1. Fd("ctl", 0) \in Fds /\ Fd("ctl2", fd) \in Fds
  BY DEF Fd, Fds
<1>2. /\ s \in Seq(Fds) /\ Len(s) = (IF "ctl" \in opt THEN 1 ELSE 0)
      /\ "ctl" \in opt => s[1] = Fd("ctl", 0)
  BY <1>1 DEF If
<1>3. /\ t \in Seq(Fds) /\ Len(t) = (IF fd # 0 THEN 1 ELSE 0)
      /\ fd # 0 => t[1] = Fd("ctl2", fd)
  BY <1>1 DEF If
<1> HIDE DEF s, t
<1>4. /\ s \o t \in Seq(Fds)
      /\ Len(s \o t) = Len(s) + Len(t)
      /\ \A i \in 1 .. Len(s) + Len(t) :
           (s \o t)[i] = IF i <= Len(s) THEN s[i] ELSE t[i - Len(s)]
  BY <1>2, <1>3, ConcatProperties
<1>5. \A i \in 1 .. Len(s \o t) : (s \o t)[i] \in {Fd("ctl", 0), Fd("ctl2", fd)}
  BY <1>2, <1>3, <1>4
<1>6. \A i \in 1 .. Len(s \o t) : (s \o t)[i][1] \in {"ctl", "ctl2"}
  BY <1>5 DEF Fd
<1>7. "ctl" \in opt => Len(s \o t) >= 1 /\ (s \o t)[1] = Fd("ctl", 0)
  BY <1>2, <1>3, <1>4
<1> QED BY <1>4, <1>6, <1>7 DEF Control, s, t

\* Where http is served, its entry is the one after the control part, and that of https
\* comes next.
LEMMA TableShape ==
  ASSUME NEW fd \in Int
  PROVE  /\ Table(fd) \in Seq(Fds)
         /\ "ctl" \in opt => 1 \in DOMAIN Table(fd) /\ Table(fd)[1] = Fd("ctl", 0)
         /\ "http" \in opt /\ "https" \in opt =>
              \A i \in DOMAIN Table(fd) : i > 1 /\ Table(fd)[i - 1] = Fd("http", 0)
                                            => Table(fd)[i] = Fd("https", 0)
<1> DEFINE k == Control(fd)
           s == If("http" \in opt, Fd("http", 0))
           t == If("https" \in opt, Fd("https", 0))
           u == If("ssdp" \in opt, Fd("ssdp", 0))
<1>1. /\ Fd("http", 0) \in Fds /\ Fd("https", 0) \in Fds /\ Fd("ssdp", 0) \in Fds
  BY DEF Fd, Fds
<1>2. /\ k \in Seq(Fds)
      /\ \A i \in 1 .. Len(k) : k[i][1] \in {"ctl", "ctl2"}
      /\ "ctl" \in opt => Len(k) >= 1 /\ k[1] = Fd("ctl", 0)
  BY ControlShape
<1>3. /\ s \in Seq(Fds) /\ Len(s) = (IF "http" \in opt THEN 1 ELSE 0)
      /\ "http" \in opt => s[1] = Fd("http", 0)
  BY <1>1 DEF If
<1>4. /\ t \in Seq(Fds) /\ Len(t) = (IF "https" \in opt THEN 1 ELSE 0)
      /\ "https" \in opt => t[1] = Fd("https", 0)
  BY <1>1 DEF If
<1>5. /\ u \in Seq(Fds) /\ Len(u) = (IF "ssdp" \in opt THEN 1 ELSE 0)
      /\ "ssdp" \in opt => u[1] = Fd("ssdp", 0)
  BY <1>1 DEF If
<1>6. Table(fd) = k \o s \o t \o u
  BY DEF Table
<1> HIDE DEF k, s, t, u
<1>7. /\ k \o s \in Seq(Fds)
      /\ Len(k \o s) = Len(k) + Len(s)
      /\ \A i \in 1 .. Len(k) + Len(s) :
           (k \o s)[i] = IF i <= Len(k) THEN k[i] ELSE s[i - Len(k)]
  BY <1>2, <1>3, ConcatProperties
<1>8. /\ k \o s \o t \in Seq(Fds)
      /\ Len(k \o s \o t) = Len(k \o s) + Len(t)
      /\ \A i \in 1 .. Len(k \o s) + Len(t) :
           (k \o s \o t)[i] = IF i <= Len(k \o s) THEN (k \o s)[i] ELSE t[i - Len(k \o s)]
  BY <1>4, <1>7, ConcatProperties
<1>9. /\ k \o s \o t \o u \in Seq(Fds)
      /\ Len(k \o s \o t \o u) = Len(k \o s \o t) + Len(u)
      /\ \A i \in 1 .. Len(k \o s \o t) + Len(u) :
           (k \o s \o t \o u)[i] =
             IF i <= Len(k \o s \o t) THEN (k \o s \o t)[i] ELSE u[i - Len(k \o s \o t)]
  BY <1>5, <1>8, ConcatProperties, ZenonT(60)
<1> DEFINE n == Len(k)
           T == k \o s \o t \o u
<1>10. /\ n \in Nat /\ DOMAIN T = 1 .. Len(T)
       /\ Len(T) = n + Len(s) + Len(t) + Len(u)
       /\ \A i \in 1 .. n : T[i] = k[i]
       /\ \A i \in 1 .. Len(s) : T[n + i] = s[i]
       /\ \A i \in 1 .. Len(t) : T[n + Len(s) + i] = t[i]
       /\ \A i \in 1 .. Len(u) : T[n + Len(s) + Len(t) + i] = u[i]
  <2>1. n \in Nat
    BY <1>2
  <2>2. T \in Seq(Fds) /\ DOMAIN T = 1 .. Len(T)
    BY <1>9
  <2>3. Len(T) = n + Len(s) + Len(t) + Len(u)
    BY <1>7, <1>8, <1>9
  <2>4. \A i \in 1 .. n : T[i] = k[i]
    BY <2>1, <1>3, <1>4, <1>5, <1>7, <1>8, <1>9
  <2>5. \A i \in 1 .. Len(s) : T[n + i] = s[i]
    BY <2>1, <1>3, <1>4, <1>5, <1>7, <1>8, <1>9
  <2>6. \A i \in 1 .. Len(t) : T[n + Len(s) + i] = t[i]
    BY <2>1, <1>3, <1>4, <1>5, <1>7, <1>8, <1>9
  <2>7. \A i \in 1 .. Len(u) : T[n + Len(s) + Len(t) + i] = u[i]
    <3>1. Len(k \o s \o t) = n + Len(s) + Len(t) /\ Len(s) \in Nat /\ Len(t) \in Nat
      BY <1>3, <1>4, <1>7, <1>8
    <3> QED BY <2>1, <3>1, <1>5, <1>9
  <2> QED BY <2>1, <2>2, <2>3, <2>4, <2>5, <2>6, <2>7
<1>11. T = Table(fd) /\ n = Len(k) /\ T \in Seq(Fds)
  BY <1>6, <1>9
<1> HIDE DEF T, n
<1>12. ASSUME "ctl" \in opt PROVE 1 \in DOMAIN T /\ T[1] = Fd("ctl", 0)
  <2>1. Len(s) >= 0 /\ Len(t) >= 0 /\ Len(u) >= 0
    BY <1>3, <1>4, <1>5
  <2>2. Len(s) \in Nat /\ Len(t) \in Nat /\ Len(u) \in Nat
    BY <1>3, <1>4, <1>5
  <2>3. n >= 1 /\ Len(T) >= 1
    BY <2>1, <2>2, <1>2, <1>10, <1>11, <1>12
  <2>4. T[1] = k[1]
    BY <2>3, <1>10
  <2> QED BY <2>3, <2>4, <1>2, <1>10, <1>11, <1>12
<1>13. ASSUME "http" \in opt, "https" \in opt, NEW i \in DOMAIN T,
              i > 1, T[i - 1] = Fd("http", 0)
       PROVE  T[i] = Fd("https", 0)
  <2>1. /\ T[n + 1] = Fd("http", 0) /\ T[n + 2] = Fd("https", 0)
        /\ Len(T) \in {n + 2, n + 3}
        /\ Len(T) = n + 3 => T[n + 3] = Fd("ssdp", 0)
    BY <1>3, <1>4, <1>5, <1>10, <1>13
  <2>2. i - 1 # n + 2
    BY <1>13, <2>1 DEF Fd
  <2>3. i - 1 \notin 1 .. n
    <3>1. SUFFICES ASSUME i - 1 \in 1 .. n PROVE FALSE
      OBVIOUS
    <3>2. k[i - 1][1] \in {"ctl", "ctl2"} /\ k[i - 1] = Fd("http", 0)
      BY <1>2, <1>10, <1>13, <1>11, <3>1
    <3> QED BY <3>2 DEF Fd
  <2>4. i - 1 = n + 1
    BY <1>10, <1>13, <2>1, <2>2, <2>3
  <2> QED BY <2>1, <2>4, <1>10
<1> QED BY <1>11, <1>12, <1>13

-----------------------------------------------------------------------------
(* What a call of handle_connection leaves behind *)

\* Contexts in which the connections are those of the list, and what has been handled
\* in this round is in time.
Same(m) == /\ m \in Contexts
           /\ \A d \in Conns : d \in conns <=> m[d].state # "FREE"
           /\ \A d \in conns \ todo : InTime(m[d])

Outcome(c) ==
  \E rest \in {conns, conns \ {c}} :
    /\ conns' = rest
    /\ nb_connections' = IF c \in rest THEN nb_connections ELSE nb_connections - 1
    /\ ctx' \in Contexts
    /\ \A d \in Conns : d \in rest <=> ctx'[d].state # "FREE"
    /\ \A d \in rest \ (todo \ {c}) : InTime(ctx'[d])

LEMMA CtxSame == PoolInv => Same(ctx)
BY DEF PoolInv, TypeOK, Contexts, Listed, Visited, Same

LEMMA WokenSame ==
  ASSUME PoolInv, NEW W \in SUBSET Waiting
  PROVE  Same(Woken(W)) /\ \A d \in Conns \ W : Woken(W)[d] = ctx[d]
<1>1. Same(ctx)
  BY CtxSame
<1>2. \A d \in Conns : Woken(W)[d] = IF d \in W THEN [ctx[d] EXCEPT !.state = "SEND_DATA"]
                                                ELSE ctx[d]
  BY DEF Woken
<1>3. \A d \in W : d \in conns /\ ctx[d].state = "WAIT_FEED"
  BY DEF Waiting
<1>4. Woken(W) \in Contexts
  BY <1>1 DEF Same, Woken, Contexts, States
<1>5. \A d \in Conns : d \in conns <=> Woken(W)[d].state # "FREE"
  BY <1>1, <1>2, <1>3 DEF Same, Contexts
<1>6. \A d \in conns \ todo : InTime(Woken(W)[d])
  BY <1>1, <1>2, <1>3 DEF Same, Contexts, InTime, PoolInv, TypeOK
<1> QED BY <1>2, <1>4, <1>5, <1>6 DEF Same

LEMMA CloseOutcome ==
  ASSUME NEW m, Same(m), NEW c \in conns, conns \subseteq Conns, Close(c, m)
  PROVE  Outcome(c)
<1>1. /\ conns' = conns \ {c} /\ nb_connections' = nb_connections - 1
      /\ ctx' = [m EXCEPT ![c] = Freed]
  BY DEF Close
<1>2. ctx' \in Contexts
  BY <1>1, PoolAssumption DEF Same, Contexts, Freed
<1>3. \A d \in Conns : ctx'[d] = IF d = c THEN Freed ELSE m[d]
  BY <1>1 DEF Same, Contexts
<1>4. \A d \in Conns : d \in conns \ {c} <=> ctx'[d].state # "FREE"
  BY <1>3 DEF Same, Freed
<1>5. \A d \in (conns \ {c}) \ (todo \ {c}) : InTime(ctx'[d])
  BY <1>3 DEF Same
<1> QED BY <1>1, <1>2, <1>4, <1>5 DEF Outcome

\* A connection that stays, in a state where it waits for no request or in time.
LEMMA StayOutcome ==
  ASSUME NEW m, Same(m), NEW c \in conns, conns \subseteq Conns,
         NEW r \in [state : States, left : -1 .. Timeout], InTime(r),
         ctx' = [m EXCEPT ![c] = r], UNCHANGED <<conns, nb_connections>>
  PROVE  Outcome(c)
<1>1. ctx' \in Contexts
  BY DEF Same, Contexts
<1>2. \A d \in Conns : ctx'[d] = IF d = c THEN r ELSE m[d]
  BY DEF Same, Contexts
<1>3. \A d \in Conns : d \in conns <=> ctx'[d].state # "FREE"
  BY <1>2 DEF Same, States
<1>4. \A d \in conns \ (todo \ {c}) : InTime(ctx'[d])
  BY <1>2 DEF Same
<1> QED BY <1>1, <1>3, <1>4 DEF Outcome

LEMMA ContextUpdate ==
  ASSUME NEW m \in [state : States, left : -1 .. Timeout], NEW state, NEW left
  PROVE  [[m EXCEPT !.state = state] EXCEPT !.left = left] = [state |-> state, left |-> left]
<1>1. [m EXCEPT !.state = state] = [state |-> state, left |-> m.left]
  OBVIOUS
<1>2. [[state |-> state, left |-> m.left] EXCEPT !.left = left]
        = [state |-> state, left |-> left]
  OBVIOUS
<1> QED BY <1>1, <1>2

LEMMA HandleOutcome ==
  ASSUME PoolInv, NEW c \in Conns, Handle(c)
  PROVE  Outcome(c)
<1>1. /\ c \in todo /\ c \in conns /\ conns \subseteq Conns /\ todo \subseteq conns
      /\ Timeout \in Nat
  BY PoolAssumption DEF Handle, PoolInv, TypeOK
<1>2. Same(ctx) /\ ctx[c] \in [state : States, left : -1 .. Timeout]
  BY <1>1, CtxSame DEF PoolInv, TypeOK, Listed
<1>3. ASSUME Unmoved, InTime(ctx[c]) PROVE Outcome(c)
  <2>1. ctx' = [ctx EXCEPT ![c] = ctx[c]] /\ UNCHANGED <<conns, nb_connections>>
    BY <1>2, <1>3 DEF Unmoved, Same, Contexts
  <2> QED BY <1>1, <1>2, <1>3, <2>1, StayOutcome
<1>4. ASSUME NEW state \in States, Keep(c, state) PROVE Outcome(c)
  <2> DEFINE r == [state |-> state, left |-> 0]
  <2>1. r \in [state : States, left : -1 .. Timeout] /\ InTime(r)
    BY <1>1 DEF InTime
  <2>2. /\ ctx' = [ctx EXCEPT ![c].state = state, ![c].left = 0]
        /\ UNCHANGED <<conns, nb_connections>>
    BY <1>4 DEF Keep
  <2>3. [[ctx[c] EXCEPT !.state = state] EXCEPT !.left = 0] = r
    BY <1>2, ContextUpdate
  <2>4. ctx' = [ctx EXCEPT ![c] = r]
    BY <1>1, <1>2, <2>2, <2>3 DEF Same, Contexts
  <2> QED BY <1>1, <1>2, <2>1, <2>2, <2>4, StayOutcome
<1>5. ASSUME Again(c) PROVE Outcome(c)
  <2> DEFINE r == [state |-> "WAIT_REQUEST", left |-> Timeout]
  <2>1. r \in [state : States, left : -1 .. Timeout] /\ InTime(r)
    BY <1>1 DEF InTime, States
  <2>2. /\ ctx' = [ctx EXCEPT ![c].state = "WAIT_REQUEST", ![c].left = Timeout]
        /\ UNCHANGED <<conns, nb_connections>>
    BY <1>5 DEF Again
  <2>3. [[ctx[c] EXCEPT !.state = "WAIT_REQUEST"] EXCEPT !.left = Timeout] = r
    BY <1>2, ContextUpdate
  <2>4. ctx' = [ctx EXCEPT ![c] = r]
    BY <1>1, <1>2, <2>2, <2>3 DEF Same, Contexts
  <2> QED BY <1>1, <1>2, <2>1, <2>2, <2>4, StayOutcome
<1>6. ASSUME Close(c, ctx) PROVE Outcome(c)
  BY <1>1, <1>2, <1>6, CloseOutcome
<1>7. CASE ctx[c].state = "WAIT_REQUEST"
  <2>1. WaitRequest(c)
    BY <1>7 DEF Handle
  <2>2. CASE Close(c, ctx)
    BY <2>2, <1>6
  <2>3. CASE ctx[c].left >= 0 /\ Unmoved
    BY <2>3, <1>3 DEF InTime
  <2>4. CASE \E state \in {"SEND_HEADER", "RECEIVE_DATA"} : Keep(c, state)
    BY <2>4, <1>4 DEF States
  <2> QED BY <2>1, <2>2, <2>3, <2>4 DEF WaitRequest
<1>8. ASSUME NEW states \in SUBSET States, Sending(c, states), ctx[c].state # "WAIT_REQUEST"
      PROVE  Outcome(c)
  <2>1. CASE Close(c, ctx)
    BY <2>1, <1>6
  <2>2. CASE Unmoved
    BY <2>2, <1>3, <1>8 DEF InTime
  <2>3. CASE Again(c)
    BY <2>3, <1>5
  <2>4. CASE \E state \in states : Keep(c, state)
    BY <2>4, <1>4
  <2> QED BY <1>8, <2>1, <2>2, <2>3, <2>4 DEF Sending
<1>9. CASE ctx[c].state = "SEND_HEADER"
  <2>1. Sending(c, {"SEND_HEADER", "SEND_DATA", "RECEIVE_DATA"})
    BY <1>9 DEF Handle
  <2> QED BY <2>1, <1>8, <1>9 DEF States
<1>10. CASE ctx[c].state = "SEND_DATA"
  <2>1. Sending(c, {"SEND_DATA", "WAIT_FEED"})
    BY <1>10 DEF Handle
  <2> QED BY <2>1, <1>8, <1>10 DEF States
<1>11. CASE ctx[c].state = "RECEIVE_DATA"
  <2>1. Receiving(c)
    BY <1>11 DEF Handle
  <2>2. CASE Unmoved
    BY <2>2, <1>3, <1>11 DEF InTime
  <2>3. ASSUME NEW W \in SUBSET Waiting, Close(c, Woken(W)) PROVE Outcome(c)
    BY <2>3, <1>1, WokenSame, CloseOutcome
  <2>4. ASSUME NEW W \in SUBSET Waiting, NEW state \in {"RECEIVE_DATA", "SEND_HEADER"},
               ctx' = [Woken(W) EXCEPT ![c].state = state],
               UNCHANGED <<conns, nb_connections>>
        PROVE  Outcome(c)
    <3> DEFINE r == [Woken(W)[c] EXCEPT !.state = state]
    <3>1. Same(Woken(W)) /\ Woken(W)[c] \in [state : States \cup {"FREE"}, left : -1 .. Timeout]
      BY <1>1, WokenSame DEF Same, Contexts
    <3>2. r \in [state : States, left : -1 .. Timeout] /\ InTime(r)
      BY <3>1 DEF InTime, States
    <3>3. ctx' = [Woken(W) EXCEPT ![c] = r]
      BY <2>4
    <3> QED BY <1>1, <2>4, <3>1, <3>2, <3>3, StayOutcome
  <2> QED BY <2>1, <2>2, <2>3, <2>4 DEF Receiving
<1>12. CASE ctx[c].state = "WAIT_FEED"
  <2>1. Close(c, ctx) \/ Unmoved
    BY <1>12 DEF Handle, WaitFeed
  <2> QED BY <2>1, <1>3, <1>6, <1>12 DEF InTime
<1> QED BY <1>2, <1>7, <1>9, <1>10, <1>11, <1>12 DEF States

-----------------------------------------------------------------------------
(* What a listening socket leaves behind *)

Pooled == /\ conns' \subseteq Conns /\ ctx' \in Contexts
          /\ Listed' /\ Counted'
          /\ \A d \in conns' : InTime(ctx'[d])

LEMMA PoolOutcome ==
  ASSUME PoolInv, pc # "handle", new_connection \/ UNCHANGED pool
  PROVE  Pooled
<1>1. /\ conns \subseteq Conns /\ Same(ctx) /\ Listed /\ Counted
      /\ \A d \in conns : InTime(ctx[d])
  BY CtxSame DEF PoolInv, TypeOK, Visited
<1>2. CASE UNCHANGED pool
  <2>1. Listed' /\ Counted'
    BY <1>1, <1>2 DEF Listed, Counted, pool
  <2> QED BY <1>1, <1>2, <2>1 DEF Pooled, Same, pool
<1>3. ASSUME NEW c \in Conns \ conns, ~Full, Add(c) PROVE Pooled
  <2>1. Timeout \in Nat /\ nb_max_connections \in Nat
    BY PoolAssumption
  <2> DEFINE r == [state |-> "WAIT_REQUEST", left |-> Timeout]
  <2>2. /\ conns' = conns \cup {c} /\ nb_connections' = nb_connections + 1
        /\ ctx' = [ctx EXCEPT ![c] = r]
    BY <1>3 DEF Add
  <2>3. r \in [state : States, left : -1 .. Timeout] /\ InTime(r) /\ r.state # "FREE"
    BY <2>1 DEF States, InTime
  <2> HIDE DEF r
  <2>4. ctx' \in Contexts /\ \A d \in Conns : ctx'[d] = IF d = c THEN r ELSE ctx[d]
    BY <1>1, <2>2, <2>3 DEF Same, Contexts
  <2>5. Listed'
    BY <1>1, <2>2, <2>3, <2>4 DEF Listed
  <2>6. /\ IsFiniteSet(conns) /\ nb_connections = Cardinality(conns)
        /\ nb_connections \in Nat /\ nb_connections < nb_max_connections
    BY <1>1, <1>3, <2>1, FS_CardinalityType DEF Counted, Full
  <2>7. IsFiniteSet(conns') /\ Cardinality(conns') = Cardinality(conns) + 1
    BY <1>3, <2>2, <2>6, FS_AddElement
  <2>8. Counted'
    BY <2>1, <2>2, <2>6, <2>7 DEF Counted
  <2>9. \A d \in conns' : InTime(ctx'[d])
    BY <1>1, <2>2, <2>3, <2>4
  <2> QED BY <1>1, <2>2, <2>4, <2>5, <2>8, <2>9 DEF Pooled
<1> QED BY <1>2, <1>3 DEF new_connection

\* Who is accepted comes from the backlog of the socket whose turn it is.
LEMMA Taken ==
  ASSUME TypeOK, NEW l \in Listeners, accept(l) \/ UNCHANGED backlog
  PROVE  /\ backlog' \in [Listeners -> Nat]
         /\ \A k \in Listeners : backlog'[k] < backlog[k] => k = l /\ l \in opt /\ at \in ready
<1>1. backlog \in [Listeners -> Nat]
  BY DEF TypeOK
<1>2. CASE UNCHANGED backlog
  BY <1>1, <1>2
<1>3. CASE accept(l)
  <2>1. /\ backlog[l] \in Nat /\ backlog[l] > 0 /\ backlog' = [backlog EXCEPT ![l] = @ - 1]
        /\ l \in opt /\ at \in ready
    BY <1>1, <1>3 DEF accept, Due
  <2> QED BY <1>1, <2>1
<1> QED BY <1>2, <1>3

-----------------------------------------------------------------------------
LEMMA PoolInvInit == Init => PoolInv
<1> SUFFICES ASSUME Init PROVE PoolInv
  OBVIOUS
<1>1. TypeOK
  BY PoolAssumption DEF Init, TypeOK, Freed, Listeners
<1>2. Listed
  BY DEF Init, Listed, Freed
<1>3. Counted
  BY PoolAssumption, FS_EmptySet DEF Init, Counted
<1>4. Visited /\ Turns
  BY DEF Init, Visited, Turns
<1> QED BY <1>1, <1>2, <1>3, <1>4 DEF PoolInv

-----------------------------------------------------------------------------
(* One lemma per step of the loop. *)

\* Between two polls the table stays what it was.
LEMMA SameTable ==
  ASSUME UNCHANGED <<opt, head>>, \E fd \in Int : head = Table(fd)
  PROVE  (\E fd \in Int : head = Table(fd))'
BY DEF Table, Control

LEMMA ConnectPreserves ==
  ASSUME PoolInv, NEW l \in Listeners, Connect(l)
  PROVE  PoolInv'
<1> USE DEF Connect, PoolInv
<1>1. /\ backlog' \in [Listeners -> Nat]
      /\ backlog["ctl"] > 0 => backlog'["ctl"] > 0
  BY DEF TypeOK, Listeners
<1>2. TypeOK'
  BY <1>1 DEF TypeOK
<1>3. Listed' /\ Counted' /\ Visited'
  BY DEF Listed, Counted, Visited
<1>4. Turns'
  BY <1>1 DEF Turns, Table, Control
<1> QED BY <1>2, <1>3, <1>4

LEMMA DescriptorsTable == Descriptors = Table(ctrl_fd2)
BY DEF Descriptors, Table, Control

LEMMA PollPreserves ==
  ASSUME PoolInv, Poll
  PROVE  PoolInv'
<1>1. /\ pc = "poll" /\ pc' = "handle" /\ todo' = conns /\ todo = {}
      /\ head' = Table(ctrl_fd2) /\ ready' \in SUBSET DOMAIN Table(ctrl_fd2)
      /\ UNCHANGED <<opt, at, ctrl_fd2, conns, nb_connections, backlog>>
      /\ Timeout \in Nat /\ ctrl_fd2 \in Int /\ conns \subseteq Conns
      /\ backlog \in [Listeners -> Nat]
  BY DescriptorsTable, PoolAssumption DEF Poll, PoolInv, Visited, TypeOK
<1>2. PICK t \in 0 .. Timeout + 1 : ctx' = [c \in Conns |-> Later(ctx[c], t)]
  BY DEF Poll
<1>3. ASSUME NEW c \in Conns
      PROVE  /\ Later(ctx[c], t) \in [state : States \cup {"FREE"}, left : -1 .. Timeout]
             /\ Later(ctx[c], t).state = ctx[c].state
  <2>1. ctx[c] \in [state : States \cup {"FREE"}, left : -1 .. Timeout]
    BY DEF PoolInv, TypeOK
  <2>2. (IF t > ctx[c].left THEN -1 ELSE ctx[c].left - t) \in -1 .. Timeout
    BY <1>1, <2>1
  <2> QED BY <2>1, <2>2 DEF Later
<1>4. TypeOK'
  BY <1>1, <1>2, <1>3 DEF PoolInv, TypeOK
<1>5. Listed' /\ Counted'
  BY <1>1, <1>2, <1>3 DEF PoolInv, Listed, Counted
<1>6. Visited'
  <2>1. \A c \in conns : entry'[c] # NULL
    <3>1. SUFFICES ASSUME NEW c \in conns PROVE entry'[c] # NULL
      OBVIOUS
    <3>2. entry'[c] \in Reported(c)
      BY <1>1 DEF Poll
    <3>3. Asked(ctx[c].state) \in {"in", "out"}
      BY DEF Asked
    <3> QED BY <3>2, <3>3, PoolAssumption DEF Reported
  <2> QED BY <1>1, <2>1 DEF Visited
<1>7. Turns'
  <2>1. head' = Table(ctrl_fd2)'
    BY <1>1 DEF Table, Control
  <2>2. "ctl" \in opt /\ 1 \in ready' => backlog["ctl"] > 0
    <3>1. ASSUME "ctl" \in opt, 1 \in ready' PROVE backlog["ctl"] > 0
      <4>1. Descriptors[1] = Fd("ctl", 0) /\ 1 \in DOMAIN Descriptors
        BY <1>1, <3>1, TableShape, DescriptorsTable
      <4>2. Reports(Descriptors[1], 1 \in ready')
        BY <4>1 DEF Poll
      <4>3. Descriptors[1][1] = "ctl"
        BY <4>1 DEF Fd
      <4> QED BY <3>1, <4>2, <4>3 DEF Reports, Listeners
    <3> QED BY <3>1
  <2> QED BY <1>1, <2>1, <2>2 DEF PoolInv, Turns
<1> QED BY <1>4, <1>5, <1>6, <1>7 DEF PoolInv

LEMMA HandlePreserves ==
  ASSUME PoolInv, NEW c \in Conns, Handle(c)
  PROVE  PoolInv'
<1>1. /\ pc = "handle" /\ c \in todo /\ todo' = todo \ {c} /\ todo \subseteq conns
      /\ UNCHANGED <<opt, pc, head, ready, at, ctrl_fd2, entry, backlog, peers>>
      /\ conns \subseteq Conns
  BY DEF Handle, PoolInv, TypeOK
<1>2. PICK rest \in {conns, conns \ {c}} :
        /\ conns' = rest
        /\ nb_connections' = IF c \in rest THEN nb_connections ELSE nb_connections - 1
        /\ ctx' \in Contexts
        /\ \A d \in Conns : d \in rest <=> ctx'[d].state # "FREE"
        /\ \A d \in rest \ (todo \ {c}) : InTime(ctx'[d])
  BY HandleOutcome DEF Outcome
<1>3. TypeOK'
  BY <1>1, <1>2 DEF PoolInv, TypeOK, Contexts
<1>4. Listed'
  BY <1>2 DEF Listed
<1>5. Counted'
  <2>1. /\ IsFiniteSet(conns) /\ nb_connections = Cardinality(conns)
        /\ nb_connections \in Nat /\ nb_connections <= nb_max_connections
        /\ nb_max_connections \in Nat
    BY FS_CardinalityType, PoolAssumption DEF PoolInv, Counted
  <2>2. /\ IsFiniteSet(conns \ {c}) /\ Cardinality(conns \ {c}) = Cardinality(conns) - 1
    BY <1>1, <2>1, FS_RemoveElement
  <2>3. CASE rest = conns
    BY <1>1, <1>2, <2>1, <2>3 DEF Counted
  <2>4. CASE rest = conns \ {c}
    BY <1>2, <2>1, <2>2, <2>4 DEF Counted
  <2> QED BY <2>3, <2>4
<1>6. Visited'
  BY <1>1, <1>2 DEF PoolInv, Visited
<1>7. Turns'
  BY <1>1 DEF PoolInv, Turns, Table, Control
<1> QED BY <1>3, <1>4, <1>5, <1>6, <1>7 DEF PoolInv

LEMMA HandledPreserves ==
  ASSUME PoolInv, Handled
  PROVE  PoolInv'
<1> USE DEF Handled, PoolInv
<1>1. TypeOK' /\ Listed' /\ Counted'
  BY DEF TypeOK, Listed, Counted
<1>2. Visited'
  BY DEF Visited
<1>3. Turns'
  BY DEF Turns, Table, Control
<1> QED BY <1>1, <1>2, <1>3

LEMMA CtlPreserves ==
  ASSUME PoolInv, Ctl
  PROVE  PoolInv'
<1>1. /\ pc = "ctl" /\ pc' = "ctl2" /\ at = 1 /\ at' \in Nat
      /\ UNCHANGED <<opt, conns, ctx, entry, todo, nb_connections, head, ready>>
  BY DEF Ctl, Unpooled, PoolInv, Turns
<1>2. ctrl_fd2' \in -1 .. 2 /\ backlog' \in [Listeners -> Nat]
  <2>1. ctrl_fd2' \in -1 .. 2
    BY DEF Ctl, ctl_msg_open, PoolInv, TypeOK
  <2> QED BY <2>1, Taken DEF Ctl, ctl_msg_open, Listeners, PoolInv
<1>3. TypeOK'
  BY <1>1, <1>2 DEF PoolInv, TypeOK
<1>4. Listed' /\ Counted' /\ Visited'
  BY <1>1 DEF PoolInv, Listed, Counted, Visited
<1>5. Turns'
  <2>1. at' \in {1, 2}
    BY <1>1 DEF Ctl
  <2>2. ready' \subseteq DOMAIN head' /\ (\E fd \in Int : head = Table(fd))'
    BY <1>1, SameTable DEF PoolInv, Turns
  <2> QED BY <1>1, <2>1, <2>2 DEF Turns
<1> QED BY <1>3, <1>4, <1>5 DEF PoolInv

LEMMA CtlMessagesPreserves ==
  ASSUME PoolInv, CtlMessages
  PROVE  PoolInv'
<1>1. /\ pc = "ctl2" /\ pc' = "http" /\ at \in Nat /\ at >= 1 /\ at' \in {at, at + 1}
      /\ UNCHANGED <<opt, conns, ctx, entry, todo, nb_connections, ctrl_fd2, head, ready, backlog>>
  BY DEF CtlMessages, Unpooled, PoolInv, TypeOK, Turns
<1>2. TypeOK'
  BY <1>1 DEF PoolInv, TypeOK
<1>3. Listed' /\ Counted' /\ Visited'
  BY <1>1 DEF PoolInv, Listed, Counted, Visited
<1>4. Turns'
  <2>1. at' >= 1
    BY <1>1
  <2>2. ready' \subseteq DOMAIN head' /\ (\E fd \in Int : head = Table(fd))'
    BY <1>1, SameTable DEF PoolInv, Turns
  <2> QED BY <1>1, <2>1, <2>2 DEF Turns
<1> QED BY <1>2, <1>3, <1>4 DEF PoolInv

LEMMA SkipPreserves ==
  ASSUME PoolInv, Skip
  PROVE  PoolInv'
<1> USE DEF Skip, Round, Unpooled, PoolInv
<1>1. TypeOK'
  BY DEF TypeOK
<1>2. Listed' /\ Counted' /\ Visited'
  BY DEF Listed, Counted, Visited
<1>3. Turns'
  BY DEF Turns, Table, Control
<1> QED BY <1>1, <1>2, <1>3

LEMMA HttpPreserves ==
  ASSUME PoolInv, Http
  PROVE  PoolInv'
<1>1. /\ pc = "http" /\ pc' = "https" /\ todo = {} /\ "http" \in Listeners
      /\ UNCHANGED <<opt, ctrl_fd2, todo, head, ready>>
      /\ at \in Nat /\ at' = IF "http" \in opt THEN at + 1 ELSE at
      /\ "http" \in opt => head[at] = Fd("http", 0)
  BY DEF Http, BadEntry, PoolInv, Visited, TypeOK, Listeners
<1>2. Pooled /\ backlog' \in [Listeners -> Nat]
  <2>1. new_connection \/ UNCHANGED pool
    BY DEF Http
  <2>2. accept("http") \/ UNCHANGED backlog
    BY DEF Http
  <2> QED BY <1>1, <2>1, <2>2, PoolOutcome, Taken DEF PoolInv
<1>3. TypeOK'
  BY <1>1, <1>2 DEF Pooled, PoolInv, TypeOK, Contexts
<1>4. Visited'
  BY <1>1, <1>2 DEF Pooled, Visited
<1>5. Turns'
  <2>1. "http" \in opt => at' - 1 = at /\ at' > 1
    <3>1. at >= 1
      BY DEF PoolInv, Turns
    <3> QED BY <1>1, <3>1
  <2>2. at' >= 1
    BY <1>1, <2>1 DEF PoolInv, Turns
  <2>3. ready' \subseteq DOMAIN head' /\ (\E fd \in Int : head = Table(fd))'
    BY <1>1, SameTable DEF PoolInv, Turns
  <2>4. "http" \in opt' => head'[at' - 1] = Fd("http", 0)
    BY <1>1, <2>1
  <2> QED BY <1>1, <2>1, <2>2, <2>3, <2>4 DEF Turns
<1> QED BY <1>2, <1>3, <1>4, <1>5 DEF Pooled, PoolInv

LEMMA HttpsPreserves ==
  ASSUME PoolInv, Https
  PROVE  PoolInv'
<1>1. /\ pc = "https" /\ todo = {} /\ "https" \in Listeners
      /\ UNCHANGED <<opt, pool, ctrl_fd2, todo, peers>>
      /\ \/ pc' = "tls" /\ UNCHANGED <<head, ready, at>>
         \/ pc' = "poll" /\ at' = 1
  BY DEF Https, Round, PoolInv, Visited, Listeners
<1>2. backlog' \in [Listeners -> Nat]
  BY <1>1, Taken DEF Https, PoolInv
<1>3. TypeOK'
  BY <1>1, <1>2 DEF PoolInv, TypeOK, pool
<1>4. Listed' /\ Counted' /\ Visited'
  BY <1>1 DEF PoolInv, Listed, Counted, Visited, pool
<1>5. Turns'
  <2>1. CASE pc' = "tls" /\ UNCHANGED <<head, ready, at>>
    BY <1>1, <2>1, SameTable DEF PoolInv, Turns
  <2>2. CASE pc' = "poll" /\ at' = 1
    BY <2>2 DEF Turns
  <2> QED BY <1>1, <2>1, <2>2
<1> QED BY <1>3, <1>4, <1>5 DEF PoolInv

LEMMA HandshakePreserves ==
  ASSUME PoolInv, Handshake
  PROVE  PoolInv'
<1>1. /\ pc = "tls" /\ pc' = "poll" /\ todo = {} /\ at' = 1
      /\ UNCHANGED <<opt, ctrl_fd2, todo, backlog>>
  BY DEF Handshake, Round, PoolInv, Visited
<1>2. Pooled
  BY <1>1, PoolOutcome DEF Handshake
<1>3. TypeOK'
  BY <1>1, <1>2 DEF Pooled, PoolInv, TypeOK, Contexts
<1>4. Visited'
  BY <1>1, <1>2 DEF Pooled, Visited
<1>5. Turns'
  BY <1>1 DEF Turns
<1> QED BY <1>2, <1>3, <1>4, <1>5 DEF Pooled, PoolInv

LEMMA PoolInvNext == PoolInv /\ [Next]_vars => PoolInv'
<1> SUFFICES ASSUME PoolInv, [Next]_vars PROVE PoolInv'
  OBVIOUS
<1>1. CASE UNCHANGED vars
  <2>1. TypeOK' /\ Listed' /\ Counted' /\ Visited'
    BY <1>1 DEF vars, PoolInv, TypeOK, Listed, Counted, Visited
  <2>2. Turns'
    BY <1>1 DEF vars, PoolInv, Turns, Table, Control
  <2> QED BY <2>1, <2>2 DEF PoolInv
<1>2. CASE Poll
  BY <1>2, PollPreserves
<1>3. ASSUME NEW c \in Conns, Handle(c) PROVE PoolInv'
  BY <1>3, HandlePreserves
<1>4. CASE Handled
  BY <1>4, HandledPreserves
<1>5. CASE Ctl
  BY <1>5, CtlPreserves
<1>6. CASE CtlMessages
  BY <1>6, CtlMessagesPreserves
<1>7. CASE Skip
  BY <1>7, SkipPreserves
<1>8. CASE Http
  BY <1>8, HttpPreserves
<1>9. CASE Https
  BY <1>9, HttpsPreserves
<1>10. ASSUME NEW l \in Listeners, Connect(l) PROVE PoolInv'
  BY <1>10, ConnectPreserves
<1>11. CASE Handshake
  BY <1>11, HandshakePreserves
<1> QED BY <1>1, <1>2, <1>3, <1>4, <1>5, <1>6, <1>7, <1>8, <1>9, <1>10, <1>11 DEF Next, Server

-----------------------------------------------------------------------------
(* The theorems *)

\* The inductive invariant: at every moment of every round the list, the contexts, the
\* counter, the table and the position in it agree.
THEOREM PoolInvariant == Spec => []PoolInv
BY PoolInvInit, PoolInvNext, PTL DEF Spec

\* nb_connections counts the list that new_connection and close_connection keep, stays
\* within nb_max_connections, and leaves room in the poll table for one descriptor
\* more, for all limits parse_config may set.
THEOREM PoolTableFits == Spec => []TableFits
<1>1. PoolInv => TableFits
  <2> SUFFICES ASSUME PoolInv PROVE TableFits
    OBVIOUS
  <2>1. ctrl_fd2 \in Int /\ nb_max_connections \in Nat /\ nb_max_http_connections \in Nat
    BY PoolAssumption DEF PoolInv, TypeOK
  <2>2. /\ nb_connections = Cardinality(conns) /\ Cardinality(conns) \in Nat
        /\ nb_connections <= nb_max_connections
        /\ nb_max_connections <= nb_max_http_connections
    BY PoolAssumption, FS_CardinalityType DEF PoolInv, Counted
  <2>3. Len(Descriptors) \in Nat
    BY <2>1, DescriptorsTable, TableShape
  <2>4. Len(Descriptors) <= 1 =>
          Len(Descriptors) + Cardinality(conns) <= nb_max_http_connections + 1
    BY <2>1, <2>2, <2>3
  <2> QED BY <2>2, <2>4 DEF TableFits, PoolInv, Listed
<1> QED BY <1>1, PoolInvariant, PTL

\* handle_connection never follows the poll_entry of a connection that got none in this
\* round: new_connection adds only after all have been handled.
THEOREM PoolPolled == Spec => []Polled
<1>1. PoolInv => Polled
  BY DEF PoolInv, Visited, Polled
<1> QED BY <1>1, PoolInvariant, PTL

\* A peer that owes its request past its time does not survive the round in which
\* handle_connection looks at it.
THEOREM PoolRequestInTime == Spec => []RequestInTime
<1>1. PoolInv => RequestInTime
  BY DEF PoolInv, Visited, RequestInTime, InTime
<1> QED BY <1>1, PoolInvariant, PTL

\* http_server finds the entry of a listening socket again, for every build that serves
\* http, whichever other sockets it serves and whatever the control channel did.
THEOREM PoolEntriesMatch == Spec => EntriesMatch
<1> DEFINE A == \A l \in Listeners : "http" \in opt /\ backlog'[l] < backlog[l] => head[at] = Fd(l, 0)
<1>1. PoolInv /\ [Next]_vars => [A]_vars
  <2> SUFFICES ASSUME PoolInv, Next, NEW l \in Listeners, "http" \in opt, backlog'[l] < backlog[l]
               PROVE  head[at] = Fd(l, 0)
    OBVIOUS
  <2>1. backlog \in [Listeners -> Nat] /\ at \in Nat /\ at >= 1
    BY DEF PoolInv, TypeOK, Turns
  <2>2. backlog' # backlog
    BY <2>1
  <2>3. CASE \/ Poll \/ (\E c \in Conns : Handle(c)) \/ Handled \/ CtlMessages \/ Skip
             \/ Handshake
    BY <2>2, <2>3 DEF Poll, Handle, Handled, CtlMessages, Skip, Handshake
  <2>4. CASE \E k \in Listeners : Connect(k)
    BY <2>1, <2>4 DEF Connect
  <2>5. CASE Ctl
    <3>1. pc = "ctl" /\ accept("ctl")
      BY <2>2, <2>5 DEF Ctl, ctl_msg_open
    <3>2. l = "ctl" /\ "ctl" \in opt
      BY <3>1, Taken DEF PoolInv, Listeners
    <3>3. PICK fd \in Int : head = Table(fd)
      BY <3>1 DEF PoolInv, Turns
    <3>4. at = 1
      BY <3>1 DEF PoolInv, Turns
    <3> QED BY <3>2, <3>3, <3>4, TableShape
  <2>6. CASE Http
    <3>1. /\ pc = "http" /\ "http" \in Listeners /\ head[at] = Fd("http", 0)
          /\ accept("http") \/ UNCHANGED backlog
      BY <2>6 DEF Http, BadEntry, Listeners
    <3> QED BY <3>1, Taken DEF PoolInv
  <2>7. CASE Https
    <3>1. /\ pc = "https" /\ "https" \in Listeners
          /\ accept("https") \/ UNCHANGED backlog
      BY <2>7 DEF Https, Listeners
    <3>2. l = "https" /\ "https" \in opt /\ at \in ready
      BY <3>1, Taken DEF PoolInv
    <3>3. /\ at > 1 /\ head[at - 1] = Fd("http", 0) /\ at \in DOMAIN head
      BY <3>1, <3>2 DEF PoolInv, Turns
    <3>4. PICK fd \in Int : head = Table(fd)
      BY <3>1 DEF PoolInv, Turns
    <3> QED BY <3>2, <3>3, <3>4, TableShape
  <2> QED BY <2>3, <2>4, <2>5, <2>6, <2>7 DEF Next, Server
<1> QED BY <1>1, PoolInvariant, PTL DEF Spec, EntriesMatch
=============================================================================
