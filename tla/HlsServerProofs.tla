-------------------------- MODULE HlsServerProofs --------------------------
(***************************************************************************)
(* Proofs about the HLS slots for every number of connections, slots,      *)
(* channels, uploads and chunks, and every size of SEG_INC_SIZE.  HlsInv   *)
(* holds in every environment; Owned and Marked say where no two uploads   *)
(* and no switch meet in a slot what it holds and who fills it; Partway    *)
(* adds how far each player is where slots are not posted again under it,  *)
(* and Told that the end of an upload reaches its players.  With all of    *)
(* them each step of HlsServer is one of HlsRelay, or none.                *)
(***************************************************************************)
EXTENDS HlsServer, SequenceTheorems, TLAPS

Chunk == Nat \X Nat
PlayStates == Sending \cup {"SEND_HEADER", "WAIT_FEED"}
Blank == {"FREE", "WAIT_REQUEST"}

Slots == [data : Seq(Chunk), msize : Nat, flag : 0 .. 2, upload : Nat]
Contexts == [state : States \cup {"FREE"}, post : BOOLEAN, chan : Channels \cup {NULL},
             hls_idx : HlsSlots \cup {NULL}, hls_rpos : Nat, hls_wpos : Nat,
             feed_ctx : Conns \cup {NULL}, upload : Nat, buffer : BOOLEAN]

Types ==
  /\ env \in Disturbances
  /\ slot \in [HlsSlots -> Slots]
  /\ name \in Channels \cup {NULL}
  /\ ctx \in [Conns -> Contexts]
  /\ accepted \in 0 .. MaxAccepts[env] /\ uploads \in 0 .. MaxUploads
  /\ ended \in [1 .. MaxUploads -> Int]
  /\ got \in [Conns -> Seq(Chunk)]

\* What a context says in each of its states.
RoleOf(c) ==
  /\ ctx[c].hls_wpos <= MaxChunks[env]
  /\ ctx[c].state \in Blank =>
       ~ctx[c].post /\ ctx[c].feed_ctx = NULL /\ ctx[c].hls_rpos = 0 /\ ctx[c].hls_wpos = 0
  /\ ctx[c].state \in PlayStates => ctx[c].hls_idx \in HlsSlots /\ ~ctx[c].post
  /\ ctx[c].state = "RECEIVE_DATA" =>
       ctx[c].hls_idx \in HlsSlots /\ ctx[c].post /\ ctx[c].upload \in 1 .. uploads
Roles == \A c \in Conns : RoleOf(c)

\* The data of a slot fits its memory, and a slot that was not claimed is empty.
Room ==
  \A i \in HlsSlots :
    /\ csize(slot[i]) <= slot[i].msize /\ slot[i].msize % SegInc = 0
    /\ slot[i].upload <= uploads

HlsInv == Types /\ Roles /\ Room /\ NoLostWakeup

\* The chunks of s are the first of upload u.
Begins(s, u) == \A k \in 1 .. Len(s) : s[k] = <<u, k>>

\* A slot holds what its uploader has sent, and no other uploader is at it.
OneUploader ==
  \A c, d \in Conns : ctx[c].state = "RECEIVE_DATA" /\ ctx[d].state = "RECEIVE_DATA"
                         /\ ctx[c].hls_idx = ctx[d].hls_idx => c = d
FillsIts(c) ==
  ctx[c].state = "RECEIVE_DATA" =>
    /\ slot[ctx[c].hls_idx].flag = 1
    /\ slot[ctx[c].hls_idx].upload = ctx[c].upload
    /\ csize(slot[ctx[c].hls_idx]) = ctx[c].hls_wpos
HoldsIts(i) ==
  /\ Begins(slot[i].data, slot[i].upload)
  /\ slot[i].flag = 0 => slot[i].data = <<>>
  /\ slot[i].flag # 0 => slot[i].upload # 0
  /\ slot[i].flag = 2 /\ "hangup" \notin env => ended[slot[i].upload] = csize(slot[i])
Distinct ==
  \A i, j \in HlsSlots : i # j /\ slot[i].upload = slot[j].upload => slot[i].upload = 0
Undisturbed == env \cap {"overlap", "switch"} = {}
Filling == \A c \in Conns : FillsIts(c)
Holding == \A i \in HlsSlots : HoldsIts(i)
Owned == Undisturbed => OneUploader /\ Filling /\ Holding /\ Distinct

\* A player has been handed the beginning of what its slot holds.
SentSoFar(c) ==
  /\ ctx[c].state \in PlayStates =>
       /\ Len(got[c]) = ctx[c].hls_rpos
       /\ ctx[c].hls_rpos <= csize(slot[ctx[c].hls_idx])
       /\ Begins(got[c], slot[ctx[c].hls_idx].upload)
  /\ ctx[c].state \in {"WAIT_REQUEST", "RECEIVE_DATA"} => got[c] = <<>>
Sent == \A c \in Conns : SentSoFar(c)
Partway == Steady => Sent

\* Until the upload of its slot is completed, the feed of a player is the uploader.
FollowsIts(c) ==
  ctx[c].state \in PlayStates =>
    /\ ctx[c].feed_ctx # NULL /\ slot[ctx[c].hls_idx].flag # 2 =>
         /\ ctx[ctx[c].feed_ctx].state = "RECEIVE_DATA"
         /\ ctx[ctx[c].feed_ctx].hls_idx = ctx[c].hls_idx
    /\ ctx[c].state = "SEND_DATA_TRAILER" => slot[ctx[c].hls_idx].flag = 2
Following == \A c \in Conns : FollowsIts(c)
Told == Steady => Following

\* An empty slot has had no upload, and one that is marked as being written is.
MarkOf(i) == /\ slot[i].flag = 0 => slot[i].upload = 0
             /\ slot[i].flag = 1 => Uploading(i) # {}
Marked == Undisturbed => \A i \in HlsSlots : MarkOf(i)

AllInv == HlsInv /\ Owned /\ Partway /\ Told /\ Marked

-----------------------------------------------------------------------------
(* Data *)

\* What a player has been handed, with the rest of the slot.
LEMMA SentBegins ==
  ASSUME NEW a \in Seq(Chunk), NEW b \in Seq(Chunk), Len(a) <= Len(b),
         NEW u, Begins(a, u), Begins(b, u)
  PROVE  LET t == a \o SubSeq(b, Len(a) + 1, Len(b))
         IN Len(t) = Len(b) /\ Begins(t, u)
<1> DEFINE rest == SubSeq(b, Len(a) + 1, Len(b))
<1>1. Len(a) \in Nat /\ Len(b) \in Nat /\ \A k \in 1 .. Len(b) : b[k] \in Chunk
  BY LenProperties
<1>2. /\ rest \in Seq(Chunk) /\ Len(rest) = Len(b) - Len(a)
      /\ \A k \in 1 .. Len(rest) : rest[k] = b[Len(a) + k]
  <2>1. \A k \in Len(a) + 1 .. Len(b) : b[k] \in Chunk
    BY <1>1
  <2>2. /\ rest \in Seq(Chunk)
        /\ Len(rest) = IF Len(a) + 1 <= Len(b) THEN Len(b) - (Len(a) + 1) + 1 ELSE 0
        /\ \A k \in 1 .. Len(b) - (Len(a) + 1) + 1 : rest[k] = b[Len(a) + 1 + k - 1]
    BY <1>1, <2>1, SubSeqProperties
  <2> HIDE DEF rest
  <2> QED BY <1>1, <2>2
<1> HIDE DEF rest
<1>3. /\ Len(a \o rest) = Len(b)
      /\ \A k \in 1 .. Len(b) : (a \o rest)[k] = IF k <= Len(a) THEN a[k] ELSE rest[k - Len(a)]
  BY <1>1, <1>2, ConcatProperties
<1>4. Begins(a \o rest, u)
  <2>1. ASSUME NEW k \in 1 .. Len(a \o rest) PROVE (a \o rest)[k] = <<u, k>>
    <3>1. CASE k <= Len(a)
      BY <1>1, <1>3, <3>1 DEF Begins
    <3>2. CASE k > Len(a)
      <4>1. k - Len(a) \in 1 .. Len(rest) /\ Len(a) + (k - Len(a)) = k /\ k \in 1 .. Len(b)
        BY <1>1, <1>2, <1>3, <3>2
      <4>2. (a \o rest)[k] = b[k]
        BY <1>1, <1>2, <1>3, <3>2, <4>1
      <4> QED BY <4>1, <4>2 DEF Begins
    <3> QED BY <1>1, <1>3, <3>1, <3>2
  <2> QED BY <2>1 DEF Begins
<1> QED BY <1>3, <1>4 DEF rest

LEMMA RestTyped ==
  ASSUME NEW b \in Seq(Chunk), NEW n \in Nat
  PROVE  SubSeq(b, n + 1, Len(b)) \in Seq(Chunk)
<1>1. Len(b) \in Nat /\ \A k \in n + 1 .. Len(b) : b[k] \in Chunk
  BY LenProperties
<1> QED BY <1>1, SubSeqProperties

LEMMA AppendBegins ==
  ASSUME NEW a \in Seq(Chunk), NEW u \in Nat, Begins(a, u)
  PROVE  Begins(Append(a, <<u, Len(a) + 1>>), u)
<1>1. Len(a) \in Nat /\ <<u, Len(a) + 1>> \in Chunk
  BY LenProperties DEF Chunk
<1> DEFINE next == <<u, Len(a) + 1>>
<1>2. /\ Len(Append(a, next)) = Len(a) + 1
      /\ \A k \in 1 .. Len(a) : Append(a, next)[k] = a[k]
      /\ Append(a, next)[Len(a) + 1] = next
  BY <1>1, AppendProperties
<1> HIDE DEF next
<1>3. ASSUME NEW k \in 1 .. Len(Append(a, next)) PROVE Append(a, next)[k] = <<u, k>>
  <2>1. CASE k <= Len(a)
    BY <1>1, <1>2, <2>1 DEF Begins
  <2>2. CASE k = Len(a) + 1
    BY <1>2, <2>2 DEF next
  <2> QED BY <1>1, <1>2, <2>1, <2>2
<1> QED BY <1>3 DEF Begins, next

LEMMA MultipleMod ==
  ASSUME NEW q \in Nat, NEW n \in Nat, n > 0
  PROVE  (q * n) % n = 0
  BY SMT

\* hls_write: the memory of a slot grows by whole increments, enough for the chunk.
LEMMA WriteShape ==
  ASSUME NEW s \in Slots, csize(s) <= s.msize, s.msize % SegInc = 0, NEW chunk \in Chunk
  PROVE  LET t == hls_write(s, chunk)
         IN /\ t \in Slots /\ t.data = Append(s.data, chunk) /\ csize(t) = csize(s) + 1
            /\ t.flag = s.flag /\ t.upload = s.upload
            /\ csize(t) <= t.msize /\ t.msize % SegInc = 0
<1> DEFINE inc == (csize(s) + 1 - s.msize + SegInc) \div SegInc
           msize == IF csize(s) + 1 > s.msize THEN s.msize + inc * SegInc ELSE s.msize
           t == hls_write(s, chunk)
<1>1. csize(s) \in Nat /\ s.msize \in Nat /\ SegInc \in Nat /\ SegInc > 0
  BY LenProperties, HlsAssumption DEF csize, Slots
<1>2. msize \in Nat /\ csize(s) + 1 <= msize /\ msize % SegInc = 0
  <2>1. CASE csize(s) + 1 > s.msize
    <3>1. csize(s) = s.msize
      BY <1>1, <2>1
    <3>2. inc \in Nat /\ inc >= 1
      BY <1>1, <3>1
    <3> HIDE DEF inc
    <3>3. inc * SegInc \in Nat /\ inc * SegInc >= 1
      BY <1>1, <3>2
    <3>4. (s.msize + inc * SegInc) % SegInc = 0
      <4>1. PICK q \in Nat : s.msize = q * SegInc
        <5> DEFINE d == s.msize \div SegInc
        <5>1. d \in Nat /\ s.msize = (SegInc * d) + (s.msize % SegInc)
          BY <1>1, SMT
        <5> HIDE DEF d
        <5>2. s.msize = d * SegInc
          BY <1>1, <5>1, SMT
        <5> QED BY <5>1, <5>2
      <4>2. s.msize + inc * SegInc = (q + inc) * SegInc
        BY <1>1, <3>2, <4>1, SMT
      <4>3. (q + inc) \in Nat
        BY <3>2
      <4> QED BY <1>1, <4>2, <4>3, MultipleMod
    <3> QED BY <1>1, <2>1, <3>1, <3>3, <3>4
  <2>2. CASE ~(csize(s) + 1 > s.msize)
    BY <1>1, <2>2
  <2> QED BY <2>1, <2>2
<1>3. /\ Append(s.data, chunk) \in Seq(Chunk)
      /\ Len(Append(s.data, chunk)) = Len(s.data) + 1
  BY AppendProperties DEF Slots
<1>4. t = [s EXCEPT !.data = Append(s.data, chunk), !.msize = msize]
  BY DEF hls_write, Slots
<1> HIDE DEF msize, t
<1>5. /\ t \in Slots /\ t.data = Append(s.data, chunk) /\ t.msize = msize
      /\ t.flag = s.flag /\ t.upload = s.upload
  BY <1>2, <1>3, <1>4 DEF Slots
<1> QED BY <1>2, <1>3, <1>5 DEF csize, t

\* wake_others, as another connection d sees it.
WokenAt(m, w, c, to, d) ==
  /\ w[d].post = m[d].post /\ w[d].hls_idx = m[d].hls_idx /\ w[d].upload = m[d].upload
  /\ w[d].hls_rpos = m[d].hls_rpos /\ w[d].hls_wpos = m[d].hls_wpos
  /\ m[d].state # "WAIT_FEED" => w[d].state = m[d].state /\ w[d].feed_ctx = m[d].feed_ctx
  /\ m[d].state = "WAIT_FEED" =>
       /\ w[d].state \in {"WAIT_FEED", to}
       /\ m[d].hls_idx = m[c].hls_idx => w[d].state = to
       /\ w[d].state = to => m[d].hls_idx = m[c].hls_idx \/ m[d].feed_ctx = c
       /\ \/ w[d].feed_ctx = m[d].feed_ctx
          \/ w[d].feed_ctx = c /\ m[d].hls_idx = m[c].hls_idx

Woken(m, w, c, to) == \A d \in Conns \ {c} : WokenAt(m, w, c, to, d)

LEMMA WakeShape ==
  ASSUME NEW m \in [Conns -> Contexts], NEW c \in Conns, NEW to \in Sending
  PROVE  LET w == wake_others(m, c, to)
         IN /\ w \in [Conns -> Contexts] /\ Woken(m, w, c, to)
            /\ m[c].state # "WAIT_FEED" => w[c] = m[c]
<1> DEFINE w == wake_others(m, c, to)
           adopted(d) == /\ m[d].state = "WAIT_FEED" /\ m[d].feed_ctx = NULL /\ ~m[d].post
                         /\ m[d].chan = m[c].chan /\ m[d].hls_idx = m[c].hls_idx
           feed(d) == IF adopted(d) THEN c ELSE m[d].feed_ctx
           state(d) == IF \/ adopted(d) \/ m[d].feed_ctx = c
                          \/ m[d].hls_idx = m[c].hls_idx THEN to ELSE m[d].state
<1>1. ASSUME NEW d \in Conns
      PROVE  /\ m[d].state # "WAIT_FEED" => w[d] = m[d]
             /\ m[d].state = "WAIT_FEED" =>
                  w[d] = [m[d] EXCEPT !.feed_ctx = feed(d), !.state = state(d)]
  BY DEF wake_others
<1>2. w = [d \in Conns |-> w[d]]
  BY DEF wake_others
<1> HIDE DEF w, adopted
<1>3. to \in States /\ to # "WAIT_FEED"
  BY DEF Sending, States
<1>4. ASSUME NEW d \in Conns PROVE w[d] \in Contexts
  <2>1. m[d] \in Contexts
    OBVIOUS
  <2>2. CASE m[d].state = "WAIT_FEED"
    <3>0. m[d].feed_ctx \in Conns \cup {NULL} /\ m[d].state \in States \cup {"FREE"}
      BY <2>1 DEF Contexts
    <3>1. feed(d) \in {c, m[d].feed_ctx} /\ state(d) \in {to, m[d].state}
      OBVIOUS
    <3> HIDE DEF feed, state
    <3>3. feed(d) \in Conns \cup {NULL} /\ state(d) \in States \cup {"FREE"}
      BY <1>3, <3>0, <3>1
    <3>2. w[d] = [m[d] EXCEPT !.feed_ctx = feed(d), !.state = state(d)]
      BY <1>1, <2>2
    <3> QED BY <2>1, <3>2, <3>3 DEF Contexts
  <2> QED BY <1>1, <2>1, <2>2
<1>5. Woken(m, w, c, to)
  <2>1. ASSUME NEW d \in Conns \ {c}
        PROVE  WokenAt(m, w, c, to, d)
    <3>1. m[d] \in Contexts /\ d \in Conns
      OBVIOUS
    <3>2. CASE m[d].state = "WAIT_FEED"
      <4>1. w[d] = [m[d] EXCEPT !.feed_ctx = feed(d), !.state = state(d)]
        BY <1>1, <3>1, <3>2
      <4>2. /\ w[d].post = m[d].post /\ w[d].hls_idx = m[d].hls_idx
            /\ w[d].upload = m[d].upload
            /\ w[d].hls_rpos = m[d].hls_rpos /\ w[d].hls_wpos = m[d].hls_wpos
            /\ w[d].state = state(d) /\ w[d].feed_ctx = feed(d)
        <5> HIDE DEF feed, state
        <5> QED BY <3>1, <4>1 DEF Contexts
      <4> QED BY <1>3, <3>2, <4>1, <4>2 DEF WokenAt, adopted, feed, state
    <3> QED BY <1>1, <3>1, <3>2 DEF WokenAt
  <2> QED BY <2>1 DEF Woken
<1>6. w \in [Conns -> Contexts]
  BY <1>2, <1>4
<1> QED BY <1>1, <1>5, <1>6 DEF w
-----------------------------------------------------------------------------
(* What each operation does, as the invariants see it. *)

OnlyAt(c) == \A d \in Conns \ {c} : ctx'[d] = ctx[d] /\ got'[d] = got[d]
OnlySlot(i) == \A j \in HlsSlots \ {i} : slot'[j] = slot[j]

\* Accept, and the steps of a connection that uploads nothing.
OwnStep(c) ==
  LET s == slot[ctx[c].hls_idx]
  IN /\ UNCHANGED <<env, slot, uploads, ended>>
     /\ OnlyAt(c)
     /\ ctx[c].state # "RECEIVE_DATA" /\ ctx'[c].state # "RECEIVE_DATA"
     /\ ctx'[c].hls_wpos \in {0, ctx[c].hls_wpos}
     /\ ctx'[c].state \in Blank =>
          /\ ~ctx'[c].post /\ ctx'[c].feed_ctx = NULL
          /\ ctx'[c].hls_rpos = 0 /\ ctx'[c].hls_wpos = 0
          /\ ctx'[c].state = "WAIT_REQUEST" => got'[c] = <<>>
     /\ ctx'[c].state \in PlayStates =>
          /\ ctx[c].state \in PlayStates
          /\ ctx'[c].hls_idx = ctx[c].hls_idx /\ ctx'[c].post = ctx[c].post
          /\ ctx'[c].feed_ctx = ctx[c].feed_ctx
          /\ \/ ctx'[c].hls_rpos = ctx[c].hls_rpos /\ got'[c] = got[c]
             \/ /\ ctx'[c].hls_rpos = csize(s) /\ ctx[c].hls_rpos < csize(s)
                /\ got'[c] = got[c] \o unsent(c)
          /\ ctx'[c].state = "SEND_DATA_TRAILER" => ctx[c].state = "SEND_DATA_TRAILER"
          /\ ctx'[c].state = "WAIT_FEED" => csize(s) <= ctx'[c].hls_rpos /\ s.flag # 2

PostStep(c, i) ==
  /\ UNCHANGED <<env, ended, got>> /\ uploads' = uploads + 1
  /\ OnlyAt(c) /\ OnlySlot(i)
  /\ "overlap" \in env \/ Uploading(i) = {}
  /\ "reuse" \in env \/ Playing(i) = {} \/ slot[i].flag = 0
  /\ ctx[c].state = "WAIT_REQUEST"
  /\ ctx'[c].state = "RECEIVE_DATA" /\ ctx'[c].post /\ ctx'[c].hls_idx = i
  /\ ctx'[c].upload = uploads + 1 /\ ctx'[c].hls_wpos = 0
  /\ slot'[i].data = <<>> /\ slot'[i].flag = 1 /\ slot'[i].upload = uploads + 1
  /\ slot'[i].msize % SegInc = 0

GetStep(c, i) ==
  /\ UNCHANGED <<env, uploads, ended, got>>
  /\ OnlyAt(c)
  /\ ctx[c].state = "WAIT_REQUEST"
  /\ ctx'[c].state = "SEND_HEADER" /\ ~ctx'[c].post /\ ctx'[c].hls_idx = i
  /\ ctx'[c].feed_ctx = NULL /\ ctx'[c].hls_rpos = 0 /\ ctx'[c].hls_wpos = 0
  /\ \A j \in HlsSlots :
       /\ slot'[j].upload = slot[j].upload /\ slot'[j].msize = slot[j].msize
       /\ \/ slot'[j].data = slot[j].data /\ slot'[j].flag = slot[j].flag
          \/ /\ slot'[j].data = <<>> /\ slot'[j].flag = 0
             /\ "switch" \in env \/ slot[j].flag = 0

ChunkStep(c) ==
  LET i == ctx[c].hls_idx
      k == ctx[c].hls_wpos + 1
  IN /\ UNCHANGED <<env, uploads, ended, got>>
     /\ OnlySlot(i)
     /\ slot'[i].data = Append(slot[i].data, <<ctx[c].upload, k>>)
     /\ csize(slot'[i]) = csize(slot[i]) + 1
     /\ slot'[i].flag = slot[i].flag /\ slot'[i].upload = slot[i].upload
     /\ csize(slot'[i]) <= slot'[i].msize /\ slot'[i].msize % SegInc = 0
     /\ ctx[c].state = "RECEIVE_DATA" /\ k <= MaxChunks[env]
     /\ ctx'[c].state = "RECEIVE_DATA" /\ ctx'[c].post = ctx[c].post
     /\ ctx'[c].hls_idx = i /\ ctx'[c].upload = ctx[c].upload /\ ctx'[c].hls_wpos = k
     /\ Woken(ctx, ctx', c, "SEND_DATA")

EndStep(c) ==
  LET i == ctx[c].hls_idx
  IN /\ UNCHANGED <<env, uploads, got>>
     /\ \/ ended' = [ended EXCEPT ![ctx[c].upload] = ctx[c].hls_wpos]
        \/ "hangup" \in env
     /\ OnlySlot(i)
     /\ slot'[i].data = slot[i].data /\ slot'[i].msize = slot[i].msize
     /\ slot'[i].upload = slot[i].upload /\ slot'[i].flag = 2
     /\ ctx[c].state = "RECEIVE_DATA" /\ ctx'[c] = Freed
     /\ Woken(ctx, ctx', c, "SEND_DATA_TRAILER")

LEMMA FreedTyped == Freed \in Contexts
  BY DEF Freed, Contexts

LEMMA AcceptOutcome ==
  ASSUME Types, Roles, Accept
  PROVE  Types' /\ \E c \in Conns : OwnStep(c)
<1>1. PICK c \in Conns \ Live :
        /\ accepted < MaxAccepts[env] /\ accepted' = accepted + 1
        /\ ctx' = [ctx EXCEPT ![c].state = "WAIT_REQUEST"]
        /\ got' = [got EXCEPT ![c] = <<>>]
        /\ UNCHANGED <<env, slot, name, uploads, ended>>
  BY DEF Accept
<1>2. c \in Conns /\ ctx[c] \in Contexts /\ ctx[c].state = "FREE"
  BY <1>1 DEF Live, Types
<1>3. /\ ctx'[c] \in Contexts /\ ctx'[c].state = "WAIT_REQUEST"
      /\ ctx'[c].post = ctx[c].post /\ ctx'[c].feed_ctx = ctx[c].feed_ctx
      /\ ctx'[c].hls_rpos = ctx[c].hls_rpos /\ ctx'[c].hls_wpos = ctx[c].hls_wpos
  BY <1>1, <1>2 DEF Types, Contexts, States
<1>4. OnlyAt(c) /\ got'[c] = <<>>
  BY <1>1 DEF OnlyAt, Types
<1>5. OwnStep(c)
  BY <1>1, <1>2, <1>3, <1>4 DEF OwnStep, Roles, RoleOf, Blank, PlayStates, Sending
<1>6. Types'
  <2>1. MaxAccepts[env] \in Nat
    BY HlsAssumption DEF Types
  <2>2. ctx' \in [Conns -> Contexts]
    BY <1>1, <1>3 DEF Types
  <2>3. got' \in [Conns -> Seq(Chunk)]
    BY <1>1 DEF Types
  <2> QED BY <1>1, <2>1, <2>2, <2>3 DEF Types
<1> QED BY <1>2, <1>5, <1>6

LEMMA CloseOutcome ==
  ASSUME Types, NEW c \in Conns, Close(ctx, c)
  PROVE  /\ ctx' \in [Conns -> Contexts] /\ ctx'[c] = Freed
         /\ \A d \in Conns \ {c} : ctx'[d] = ctx[d]
BY FreedTyped DEF Types, Close

LEMMA DropOutcome ==
  ASSUME Types, NEW c \in Conns, Drop(c)
  PROVE  Types' /\ OwnStep(c)
<1>1. /\ ctx' \in [Conns -> Contexts] /\ ctx'[c] = Freed
      /\ \A d \in Conns \ {c} : ctx'[d] = ctx[d]
  BY CloseOutcome DEF Drop
<1>2. Types'
  BY <1>1 DEF Types, Drop
<1>3. OwnStep(c)
  BY <1>1 DEF Drop, OwnStep, OnlyAt, Freed, Blank, PlayStates, Sending
<1> QED BY <1>2, <1>3

LEMMA SendHeaderOutcome ==
  ASSUME Types, NEW c \in Conns, SendHeader(c)
  PROVE  Types' /\ OwnStep(c)
<1>1. ctx[c] \in Contexts
  BY DEF Types
<1>2. /\ ctx'[c] \in Contexts /\ ctx'[c].state = "SEND_DATA_HEADER"
      /\ ctx'[c].post = ctx[c].post /\ ctx'[c].feed_ctx = ctx[c].feed_ctx
      /\ ctx'[c].hls_idx = ctx[c].hls_idx
      /\ ctx'[c].hls_rpos = ctx[c].hls_rpos /\ ctx'[c].hls_wpos = ctx[c].hls_wpos
  BY <1>1 DEF SendHeader, Types, Contexts, States, Sending
<1>3. Types'
  BY <1>2 DEF Types, SendHeader
<1>4. OwnStep(c)
  BY <1>2 DEF SendHeader, Types, OwnStep, OnlyAt, Blank, PlayStates, Sending
<1> QED BY <1>3, <1>4

LEMMA SendRestOutcome ==
  ASSUME Types, Roles, NEW c \in Conns, SendRest(c)
  PROVE  Types' /\ OwnStep(c)
<1>1. ctx[c] \in Contexts
  BY DEF Types
<1>2. /\ ctx'[c] \in Contexts /\ ctx'[c].state = ctx[c].state
      /\ ctx'[c].post = ctx[c].post /\ ctx'[c].feed_ctx = ctx[c].feed_ctx
      /\ ctx'[c].hls_idx = ctx[c].hls_idx
      /\ ctx'[c].hls_rpos = ctx[c].hls_rpos /\ ctx'[c].hls_wpos = ctx[c].hls_wpos
  BY <1>1 DEF SendRest, Types, Contexts
<1>3. Types'
  BY <1>2 DEF Types, SendRest
<1>4. OwnStep(c)
  BY <1>2 DEF SendRest, Types, OwnStep, OnlyAt, Blank, PlayStates, Sending
<1> QED BY <1>3, <1>4

LEMMA SendDataOutcome ==
  ASSUME Types, Roles, NEW c \in Conns, NEW all \in BOOLEAN, SendData(c, all)
  PROVE  Types' /\ OwnStep(c)
<1> DEFINE s == slot[ctx[c].hls_idx]
           left == csize(s) - ctx[c].hls_rpos
<1>1. /\ ctx[c].state \in Sending
      /\ \/ left <= 0 /\ Close(ctx, c) /\ UNCHANGED got
         \/ /\ left <= 0 /\ ~completed(s)
            /\ ctx' = [ctx EXCEPT ![c].state = "WAIT_FEED"] /\ UNCHANGED got
         \/ /\ left > 0
            /\ got' = [got EXCEPT ![c] = @ \o unsent(c)]
            /\ \/ Close(ctx, c)
               \/ ctx' = [ctx EXCEPT ![c].hls_rpos = csize(s), ![c].buffer = ~all]
      /\ UNCHANGED <<env, slot, name, accepted, uploads, ended>>
  BY DEF SendData
<1>2. ctx[c] \in Contexts /\ s \in Slots /\ csize(s) \in Nat /\ ctx[c].hls_rpos \in Nat
  BY <1>1, LenProperties DEF Types, Roles, RoleOf, PlayStates, Contexts, Slots, csize
<1>3. unsent(c) \in Seq(Chunk) /\ got[c] \o unsent(c) \in Seq(Chunk)
  <2>1. got[c] \in Seq(Chunk) /\ s.data \in Seq(Chunk)
    BY <1>2 DEF Types, Slots
  <2>2. unsent(c) = SubSeq(s.data, ctx[c].hls_rpos + 1, Len(s.data))
    BY DEF unsent, csize
  <2>3. unsent(c) \in Seq(Chunk)
    BY <1>2, <2>1, <2>2, RestTyped
  <2> QED BY <2>1, <2>3, ConcatProperties
<1>4. ctx[c].state # "RECEIVE_DATA" /\ ctx[c].state \in PlayStates /\ ctx[c].state \notin Blank
  BY <1>1 DEF Sending, PlayStates, Blank
<1>5. got' \in [Conns -> Seq(Chunk)] /\ \A d \in Conns \ {c} : got'[d] = got[d]
  BY <1>1, <1>3 DEF Types
<1>6. CASE Close(ctx, c)
  <2>1. /\ ctx' \in [Conns -> Contexts] /\ ctx'[c] = Freed
        /\ \A d \in Conns \ {c} : ctx'[d] = ctx[d]
    BY <1>6, CloseOutcome
  <2>2. Types'
    BY <1>1, <1>5, <2>1 DEF Types
  <2>3. OwnStep(c)
    BY <1>1, <1>4, <1>5, <2>1 DEF OwnStep, OnlyAt, Freed, Blank, PlayStates, Sending
  <2> QED BY <2>2, <2>3
<1>7. CASE left <= 0 /\ ~completed(s)
           /\ ctx' = [ctx EXCEPT ![c].state = "WAIT_FEED"] /\ UNCHANGED got
  <2>1. /\ ctx'[c] \in Contexts /\ ctx'[c].state = "WAIT_FEED"
        /\ ctx'[c].post = ctx[c].post /\ ctx'[c].feed_ctx = ctx[c].feed_ctx
        /\ ctx'[c].hls_idx = ctx[c].hls_idx
        /\ ctx'[c].hls_rpos = ctx[c].hls_rpos /\ ctx'[c].hls_wpos = ctx[c].hls_wpos
        /\ \A d \in Conns \ {c} : ctx'[d] = ctx[d]
    BY <1>2, <1>7 DEF Types, Contexts, States
  <2>2. Types'
    BY <1>1, <1>5, <1>7, <2>1 DEF Types
  <2>3. csize(s) <= ctx'[c].hls_rpos /\ s.flag # 2
    BY <1>2, <1>7, <2>1 DEF completed
  <2>4. OwnStep(c)
    BY <1>1, <1>4, <1>5, <1>7, <2>1, <2>3 DEF OwnStep, OnlyAt, Blank, PlayStates, Sending
  <2> QED BY <2>2, <2>4
<1>8. CASE /\ left > 0
           /\ got' = [got EXCEPT ![c] = @ \o unsent(c)]
           /\ ctx' = [ctx EXCEPT ![c].hls_rpos = csize(s), ![c].buffer = ~all]
  <2> HIDE DEF s
  <2>1. /\ ctx'[c] \in Contexts /\ ctx'[c].state = ctx[c].state
        /\ ctx'[c].post = ctx[c].post /\ ctx'[c].feed_ctx = ctx[c].feed_ctx
        /\ ctx'[c].hls_idx = ctx[c].hls_idx
        /\ ctx'[c].hls_rpos = csize(s) /\ ctx'[c].hls_wpos = ctx[c].hls_wpos
        /\ \A d \in Conns \ {c} : ctx'[d] = ctx[d]
    BY <1>2, <1>8 DEF Types, Contexts
  <2>2. Types'
    BY <1>1, <1>5, <1>8, <2>1 DEF Types
  <2>3. ctx[c].hls_rpos < csize(s) /\ got'[c] = got[c] \o unsent(c)
    BY <1>2, <1>8 DEF Types
  <2>4. OwnStep(c)
    BY <1>1, <1>4, <1>5, <2>1, <2>3 DEF s, OwnStep, OnlyAt, Blank, PlayStates, Sending
  <2> QED BY <2>2, <2>4
<1> QED BY <1>1, <1>6, <1>7, <1>8

LEMMA PostOutcome ==
  ASSUME Types, Roles, NEW c \in Conns, NEW chan \in Channels, NEW i \in HlsSlots,
         Room, Post(c, chan, i)
  PROVE  Types' /\ PostStep(c, i)
<1>1. ctx[c] \in Contexts /\ ctx[c].state = "WAIT_REQUEST" /\ uploads \in Nat
      /\ slot[i] \in Slots /\ slot[i].msize % SegInc = 0 /\ uploads < MaxUploads
  BY HlsAssumption DEF Types, Room, Post
<1>2. /\ ctx'[c] \in Contexts /\ ctx'[c].state = "RECEIVE_DATA" /\ ctx'[c].post
      /\ ctx'[c].hls_idx = i /\ ctx'[c].upload = uploads + 1
      /\ ctx'[c].hls_wpos = ctx[c].hls_wpos
      /\ \A d \in Conns \ {c} : ctx'[d] = ctx[d]
  <2>1. ctx'[c] = [ctx[c] EXCEPT !.state = "RECEIVE_DATA", !.post = TRUE, !.chan = chan,
                                 !.hls_idx = i, !.upload = uploads + 1]
    BY DEF Post, Types
  <2>2. "RECEIVE_DATA" \in States /\ uploads + 1 \in Nat
    BY <1>1 DEF States
  <2>3. \A d \in Conns \ {c} : ctx'[d] = ctx[d]
    BY DEF Post, Types
  <2> DEFINE r == ctx[c]
             u == uploads + 1
             t == [r EXCEPT !.state = "RECEIVE_DATA", !.post = TRUE, !.chan = chan,
                            !.hls_idx = i, !.upload = u]
  <2>4. r \in Contexts /\ u \in Nat /\ ctx'[c] = t
    BY <1>1, <2>1, <2>2
  <2> HIDE DEF r, u
  <2>5. t \in Contexts
    BY <2>2, <2>4 DEF Contexts
  <2>6. /\ t.state = "RECEIVE_DATA" /\ t.post /\ t.hls_idx = i /\ t.upload = u
        /\ t.hls_wpos = r.hls_wpos
    BY <2>4 DEF Contexts
  <2> QED BY <2>3, <2>4, <2>5, <2>6 DEF r, u
<1>3. /\ slot'[i] \in Slots /\ slot'[i].data = <<>> /\ slot'[i].flag = 1
      /\ slot'[i].upload = uploads + 1
      /\ slot'[i].msize = (IF slot[i].msize = 0 THEN SegInc ELSE slot[i].msize)
      /\ \A j \in HlsSlots \ {i} : slot'[j] = slot[j]
  <2>1. slot' = [slot EXCEPT ![i] = claim(slot[i], uploads + 1)]
    BY DEF Post
  <2>2. slot'[i] = claim(slot[i], uploads + 1) /\ \A j \in HlsSlots \ {i} : slot'[j] = slot[j]
    BY <2>1 DEF Types
  <2>3. <<>> \in Seq(Chunk) /\ SegInc \in Nat
    BY HlsAssumption
  <2> DEFINE msize == IF slot[i].msize = 0 THEN SegInc ELSE slot[i].msize
  <2>4. claim(slot[i], uploads + 1) = [slot[i] EXCEPT !.data = <<>>, !.flag = 1,
                                         !.upload = uploads + 1, !.msize = msize]
    BY <1>1 DEF claim, Slots
  <2>5. msize \in Nat /\ uploads + 1 \in Nat /\ 1 \in 0 .. 2
    BY <1>1, <2>3 DEF Slots
  <2> HIDE DEF msize
  <2> DEFINE t == claim(slot[i], uploads + 1)
  <2>6. slot[i] \in Slots
    BY <1>1
  <2> HIDE DEF t
  <2>7. t = [slot[i] EXCEPT !.data = <<>>, !.flag = 1, !.upload = uploads + 1, !.msize = msize]
    BY <2>4 DEF t
  <2>8. /\ t \in Slots /\ t.data = <<>> /\ t.flag = 1
        /\ t.upload = uploads + 1 /\ t.msize = msize
    BY <2>3, <2>5, <2>6, <2>7 DEF Slots
  <2>9. slot'[i] = t
    BY <2>2 DEF t
  <2> QED BY <2>2, <2>8, <2>9 DEF msize
<1>4. SegInc % SegInc = 0
  BY HlsAssumption, SMT
<1>5. Types'
  BY <1>1, <1>2, <1>3, HlsAssumption DEF Types, Post
<1>6. ctx[c].hls_wpos = 0
  BY <1>1 DEF Roles, RoleOf, Blank
<1>7. PostStep(c, i)
  <2>1. /\ env' = env /\ ended' = ended /\ got' = got /\ uploads' = uploads + 1
        /\ "overlap" \in env \/ Uploading(i) = {}
        /\ "reuse" \in env \/ Playing(i) = {} \/ slot[i].flag = 0
        /\ ctx[c].state = "WAIT_REQUEST"
    BY DEF Post
  <2>2. /\ OnlyAt(c) /\ ctx'[c].state = "RECEIVE_DATA" /\ ctx'[c].post
        /\ ctx'[c].hls_idx = i /\ ctx'[c].upload = uploads + 1 /\ ctx'[c].hls_wpos = 0
    BY <1>2, <1>6, <2>1 DEF OnlyAt
  <2>3. slot'[i].msize % SegInc = 0
    BY <1>1, <1>3, <1>4
  <2> QED BY <1>3, <2>1, <2>2, <2>3 DEF PostStep, OnlySlot
<1> QED BY <1>5, <1>7

LEMMA GetOutcome ==
  ASSUME Types, Roles, NEW c \in Conns, NEW chan \in Channels, NEW i \in HlsSlots,
         NEW is_first \in BOOLEAN, Get(c, chan, i, is_first)
  PROVE  Types' /\ GetStep(c, i)
<1> DEFINE switch == is_first /\ i = S /\ chan # name
<1>1. /\ ctx[c].state = "WAIT_REQUEST"
      /\ switch => "switch" \in env \/ \A j \in HlsSlots : slot[j].flag = 0
      /\ slot' = IF switch THEN hls_close ELSE slot
      /\ name' = IF switch THEN chan ELSE name
      /\ ctx' = [ctx EXCEPT ![c].state = "SEND_HEADER", ![c].chan = chan,
                            ![c].hls_idx = i, ![c].hls_rpos = 0]
      /\ UNCHANGED <<env, accepted, uploads, ended, got>>
  BY DEF Get
<1> HIDE DEF switch
<1>2. ctx[c] \in Contexts
  BY DEF Types
<1>3. /\ ctx'[c] \in Contexts /\ ctx'[c].state = "SEND_HEADER"
      /\ ctx'[c].post = ctx[c].post /\ ctx'[c].hls_idx = i
      /\ ctx'[c].feed_ctx = ctx[c].feed_ctx /\ ctx'[c].hls_rpos = 0
      /\ ctx'[c].hls_wpos = ctx[c].hls_wpos
      /\ \A d \in Conns \ {c} : ctx'[d] = ctx[d]
  BY <1>1, <1>2 DEF Types, Contexts, States
<1>4. /\ slot' \in [HlsSlots -> Slots]
      /\ \A j \in HlsSlots :
           /\ slot'[j].upload = slot[j].upload /\ slot'[j].msize = slot[j].msize
           /\ \/ slot'[j].data = slot[j].data /\ slot'[j].flag = slot[j].flag
              \/ /\ slot'[j].data = <<>> /\ slot'[j].flag = 0
                 /\ "switch" \in env \/ slot[j].flag = 0
  <2>1. CASE ~switch
    BY <1>1, <2>1 DEF Types
  <2>2. CASE switch
    <3>1. ASSUME NEW j \in HlsSlots
          PROVE  /\ slot'[j] \in Slots
                 /\ slot'[j].upload = slot[j].upload /\ slot'[j].msize = slot[j].msize
                 /\ slot'[j].data = <<>> /\ slot'[j].flag = 0
      <4>1. slot'[j] = [slot[j] EXCEPT !.data = <<>>, !.flag = 0] /\ slot[j] \in Slots
        BY <1>1, <2>2 DEF hls_close, Types
      <4>2. <<>> \in Seq(Chunk)
        OBVIOUS
      <4>3. 0 \in 0 .. 2
        OBVIOUS
      <4> DEFINE none == <<>>
      <4>4. slot'[j] = [slot[j] EXCEPT !.data = none, !.flag = 0] /\ none \in Seq(Chunk)
        BY <4>1, <4>2
      <4> HIDE DEF none
      <4>5. /\ slot'[j] \in Slots
            /\ slot'[j].upload = slot[j].upload /\ slot'[j].msize = slot[j].msize
            /\ slot'[j].data = none /\ slot'[j].flag = 0
        BY <4>1, <4>3, <4>4 DEF Slots
      <4> QED BY <4>5 DEF none
    <3>2. slot' = [j \in HlsSlots |-> slot'[j]]
      BY <1>1, <2>2 DEF hls_close
    <3> QED BY <1>1, <2>2, <3>1, <3>2
  <2> QED BY <2>1, <2>2
<1>5. Types'
  BY <1>1, <1>3, <1>4 DEF Types
<1>6. GetStep(c, i)
  BY <1>1, <1>3, <1>4 DEF GetStep, OnlyAt, Roles, RoleOf, Blank
<1> QED BY <1>5, <1>6

LEMMA ChunkOutcome ==
  ASSUME Types, Roles, Room, NEW c \in Conns, ReceiveChunk(c)
  PROVE  Types' /\ ChunkStep(c)
<1> DEFINE i == ctx[c].hls_idx
           k == ctx[c].hls_wpos + 1
           chunk == <<ctx[c].upload, k>>
           m == [ctx EXCEPT ![c].hls_wpos = k]
<1>1. /\ ctx[c].state = "RECEIVE_DATA" /\ k <= MaxChunks[env]
      /\ slot' = [slot EXCEPT ![i] = hls_write(slot[i], chunk)]
      /\ ctx' = wake_others(m, c, "SEND_DATA")
      /\ UNCHANGED <<env, name, accepted, uploads, ended, got>>
  BY DEF ReceiveChunk
<1>2. ctx[c] \in Contexts /\ i \in HlsSlots /\ k \in Nat /\ ctx[c].upload \in Nat
  BY <1>1 DEF Types, Roles, RoleOf, Contexts
<1>3. slot[i] \in Slots /\ csize(slot[i]) <= slot[i].msize /\ slot[i].msize % SegInc = 0
  BY <1>2 DEF Types, Room
<1>4. chunk \in Chunk
  BY <1>2 DEF Chunk
<1> HIDE DEF k, chunk
<1>5. LET t == hls_write(slot[i], chunk)
      IN /\ t \in Slots /\ t.data = Append(slot[i].data, chunk) /\ csize(t) = csize(slot[i]) + 1
         /\ t.flag = slot[i].flag /\ t.upload = slot[i].upload
         /\ csize(t) <= t.msize /\ t.msize % SegInc = 0
  BY <1>3, <1>4, WriteShape
<1>6. /\ slot'[i] = hls_write(slot[i], chunk)
      /\ \A j \in HlsSlots \ {i} : slot'[j] = slot[j]
  BY <1>1, <1>2 DEF Types
<1>7. slot' \in [HlsSlots -> Slots]
  BY <1>1, <1>5, <1>6 DEF Types
<1>8. /\ m[c] \in Contexts /\ m[c].state = ctx[c].state /\ m[c].post = ctx[c].post
      /\ m[c].hls_idx = i /\ m[c].upload = ctx[c].upload /\ m[c].hls_wpos = k
      /\ \A d \in Conns \ {c} : m[d] = ctx[d]
  BY <1>2 DEF Types, Contexts
<1>9. m \in [Conns -> Contexts]
  BY <1>8 DEF Types
<1> HIDE DEF m
<1>10. /\ ctx' \in [Conns -> Contexts] /\ Woken(m, ctx', c, "SEND_DATA")
       /\ ctx'[c] = m[c]
  <2>1. "SEND_DATA" \in Sending /\ m[c].state # "WAIT_FEED"
    BY <1>1, <1>8 DEF Sending
  <2> QED BY <1>1, <1>9, <2>1, WakeShape
<1>11. Woken(ctx, ctx', c, "SEND_DATA")
  BY <1>8, <1>10 DEF Woken, WokenAt, i
<1>12. Types'
  BY <1>1, <1>7, <1>10 DEF Types
<1>13. ChunkStep(c)
  BY <1>1, <1>5, <1>6, <1>8, <1>10, <1>11 DEF ChunkStep, OnlySlot, i, k, chunk
<1> QED BY <1>12, <1>13

LEMMA EndOutcome ==
  ASSUME Types, Roles, NEW c \in Conns, ReceiveEnd(c) \/ HangUp(c)
  PROVE  Types' /\ EndStep(c)
<1> DEFINE i == ctx[c].hls_idx
           w == wake_others(ctx, c, "SEND_DATA_TRAILER")
<1>1. /\ ctx[c].state = "RECEIVE_DATA"
      /\ slot' = [slot EXCEPT ![i].flag = 2]
      /\ Close(w, c)
      /\ UNCHANGED <<env, name, accepted, uploads, got>>
      /\ \/ ended' = [ended EXCEPT ![ctx[c].upload] = ctx[c].hls_wpos]
         \/ "hangup" \in env /\ ended' = ended
  BY DEF ReceiveEnd, HangUp, EndUpload
<1>2. ctx[c] \in Contexts /\ i \in HlsSlots /\ slot[i] \in Slots
  BY <1>1 DEF Types, Roles, RoleOf
<1>3. /\ slot'[i] \in Slots /\ slot'[i].data = slot[i].data /\ slot'[i].msize = slot[i].msize
      /\ slot'[i].upload = slot[i].upload /\ slot'[i].flag = 2
      /\ \A j \in HlsSlots \ {i} : slot'[j] = slot[j]
  <2>1. slot'[i] = [slot[i] EXCEPT !.flag = 2] /\ \A j \in HlsSlots \ {i} : slot'[j] = slot[j]
    BY <1>1, <1>2 DEF Types
  <2>2. 2 \in 0 .. 2
    OBVIOUS
  <2> QED BY <1>2, <2>1, <2>2 DEF Slots
<1>4. slot' \in [HlsSlots -> Slots]
  BY <1>1, <1>3 DEF Types
<1>5. w \in [Conns -> Contexts] /\ Woken(ctx, w, c, "SEND_DATA_TRAILER")
  <2>1. "SEND_DATA_TRAILER" \in Sending
    BY DEF Sending
  <2> QED BY <2>1, WakeShape DEF Types
<1> HIDE DEF w
<1>6. /\ ctx' \in [Conns -> Contexts] /\ ctx'[c] = Freed
      /\ \A d \in Conns \ {c} : ctx'[d] = w[d]
  BY <1>1, <1>5, FreedTyped DEF Close
<1>7. Woken(ctx, ctx', c, "SEND_DATA_TRAILER")
  BY <1>5, <1>6 DEF Woken, WokenAt
<1>8. ended' \in [1 .. MaxUploads -> Int]
  BY <1>1, <1>2 DEF Types, Contexts
<1>9. Types'
  BY <1>1, <1>4, <1>6, <1>8 DEF Types
<1>10. EndStep(c)
  BY <1>1, <1>3, <1>6, <1>7 DEF EndStep, OnlySlot, i
<1> QED BY <1>9, <1>10
-----------------------------------------------------------------------------
(* HlsInv is kept in every environment. *)

LEMMA StateFacts ==
  /\ Blank \cap PlayStates = {} /\ "RECEIVE_DATA" \notin Blank \cup PlayStates
  /\ States \cup {"FREE"} = Blank \cup PlayStates \cup {"RECEIVE_DATA"}
  /\ "WAIT_FEED" \in PlayStates /\ Sending \subseteq PlayStates /\ "WAIT_FEED" \notin Sending
  /\ "SEND_HEADER" \in PlayStates /\ {"WAIT_REQUEST", "FREE"} = Blank
  /\ "SEND_DATA" \in Sending /\ "SEND_DATA_TRAILER" \in Sending
BY DEF Blank, PlayStates, States, Sending

LEMMA OwnInv ==
  ASSUME HlsInv, Types', NEW c \in Conns, OwnStep(c)
  PROVE  HlsInv'
<1>1. \A d \in Conns \ {c} : ctx'[d] = ctx[d]
  BY DEF OwnStep, OnlyAt
<1>2. MaxChunks[env] \in Nat
  BY HlsAssumption DEF HlsInv, Types
<1>3. Roles'
  <2>1. env' = env /\ uploads' = uploads /\ \A d \in Conns : RoleOf(d)
    BY DEF HlsInv, Roles, OwnStep
  <2>2. ASSUME NEW d \in Conns \ {c} PROVE RoleOf(d)'
    BY <1>1, <2>1 DEF RoleOf
  <2>3. RoleOf(c)'
    BY <1>2, <2>1, StateFacts DEF RoleOf, OwnStep
  <2> QED BY <2>2, <2>3 DEF Roles
<1>4. Room'
  BY DEF HlsInv, Room, OwnStep, csize
<1>5. NoLostWakeup'
  <2> SUFFICES ASSUME NEW d \in Conns, ctx'[d].state = "WAIT_FEED"
               PROVE  /\ csize(slot[ctx'[d].hls_idx]) <= ctx'[d].hls_rpos
                      /\ slot[ctx'[d].hls_idx].flag # 2
    BY DEF NoLostWakeup, Live, OwnStep, csize
  <2>1. CASE d # c
    BY <1>1, <2>1 DEF HlsInv, NoLostWakeup, Live
  <2>2. CASE d = c
    BY <2>2, StateFacts DEF OwnStep
  <2> QED BY <2>1, <2>2
<1> QED BY <1>3, <1>4, <1>5 DEF HlsInv

LEMMA PostInv ==
  ASSUME HlsInv, Types', NEW c \in Conns, NEW i \in HlsSlots, PostStep(c, i)
  PROVE  HlsInv'
<1>1. \A d \in Conns \ {c} : ctx'[d] = ctx[d]
  BY DEF PostStep, OnlyAt
<1>2. \A j \in HlsSlots \ {i} : slot'[j] = slot[j]
  BY DEF PostStep, OnlySlot
<1>3. MaxChunks[env] \in Nat /\ uploads \in Nat /\ env' = env /\ uploads' = uploads + 1
  BY HlsAssumption DEF HlsInv, Types, PostStep
<1>4. Roles'
  <2>1. \A d \in Conns : RoleOf(d)
    BY DEF HlsInv, Roles
  <2>2. ASSUME NEW d \in Conns \ {c} PROVE RoleOf(d)'
    BY <1>1, <1>3, <2>1 DEF RoleOf
  <2>3. RoleOf(c)'
    BY <1>3, StateFacts DEF RoleOf, PostStep
  <2> QED BY <2>2, <2>3 DEF Roles
<1>5. Room'
  <2> SUFFICES ASSUME NEW j \in HlsSlots
               PROVE  /\ csize(slot'[j]) <= slot'[j].msize /\ slot'[j].msize % SegInc = 0
                      /\ slot'[j].upload <= uploads + 1
    BY <1>3 DEF Room, csize
  <2>1. CASE j # i
    <3>1. slot[j].upload \in Nat
      BY DEF HlsInv, Types, Slots
    <3> QED BY <1>2, <1>3, <2>1, <3>1 DEF HlsInv, Room
  <2>2. CASE j = i
    <3>1. slot'[i].msize \in Nat /\ Len(slot'[i].data) = 0
      BY DEF Types, Slots, PostStep
    <3> QED BY <1>3, <2>2, <3>1 DEF PostStep, csize
  <2> QED BY <2>1, <2>2
<1>6. NoLostWakeup'
  <2> SUFFICES ASSUME NEW d \in Conns, ctx'[d].state = "WAIT_FEED"
               PROVE  /\ csize(slot'[ctx'[d].hls_idx]) <= ctx'[d].hls_rpos
                      /\ slot'[ctx'[d].hls_idx].flag # 2
    BY DEF NoLostWakeup, Live, csize
  <2>1. d # c /\ ctx'[d] = ctx[d]
    BY <1>1 DEF PostStep
  <2>2. ctx[d] \in Contexts /\ ctx[d].hls_idx \in HlsSlots /\ ctx[d].hls_rpos \in Nat
    BY <2>1, StateFacts DEF HlsInv, Types, Roles, RoleOf, Contexts
  <2>3. csize(slot[ctx[d].hls_idx]) <= ctx[d].hls_rpos /\ slot[ctx[d].hls_idx].flag # 2
    BY <2>1 DEF HlsInv, NoLostWakeup, Live
  <2>4. CASE ctx[d].hls_idx = i
    <3>1. csize(slot'[i]) = 0
      BY DEF PostStep, csize
    <3> QED BY <2>1, <2>2, <2>4, <3>1 DEF PostStep
  <2> QED BY <1>2, <2>1, <2>2, <2>3, <2>4
<1> QED BY <1>4, <1>5, <1>6 DEF HlsInv

LEMMA GetInv ==
  ASSUME HlsInv, Types', NEW c \in Conns, NEW i \in HlsSlots, GetStep(c, i)
  PROVE  HlsInv'
<1>1. \A d \in Conns \ {c} : ctx'[d] = ctx[d]
  BY DEF GetStep, OnlyAt
<1>2. MaxChunks[env] \in Nat /\ env' = env /\ uploads' = uploads
  BY HlsAssumption DEF HlsInv, Types, GetStep
<1>3. \A j \in HlsSlots :
        \/ slot'[j].data = slot[j].data /\ slot'[j].flag = slot[j].flag
        \/ csize(slot'[j]) = 0 /\ slot'[j].flag = 0
  BY DEF GetStep, csize
<1>4. \A j \in HlsSlots : slot[j] \in Slots /\ csize(slot[j]) \in Nat /\ slot[j].msize \in Nat
  BY LenProperties DEF HlsInv, Types, Slots, csize
<1>5. Roles'
  <2>1. \A d \in Conns : RoleOf(d)
    BY DEF HlsInv, Roles
  <2>2. ASSUME NEW d \in Conns \ {c} PROVE RoleOf(d)'
    BY <1>1, <1>2, <2>1 DEF RoleOf
  <2>3. RoleOf(c)'
    BY <1>2, StateFacts DEF RoleOf, GetStep
  <2> QED BY <2>2, <2>3 DEF Roles
<1>6. Room'
  <2> SUFFICES ASSUME NEW j \in HlsSlots
               PROVE  /\ csize(slot'[j]) <= slot'[j].msize /\ slot'[j].msize % SegInc = 0
                      /\ slot'[j].upload <= uploads
    BY <1>2 DEF Room, csize
  <2>1. slot'[j].upload = slot[j].upload /\ slot'[j].msize = slot[j].msize
    BY DEF GetStep
  <2> QED BY <1>3, <1>4, <2>1 DEF HlsInv, Room, csize
<1>7. NoLostWakeup'
  <2> SUFFICES ASSUME NEW d \in Conns, ctx'[d].state = "WAIT_FEED"
               PROVE  /\ csize(slot'[ctx'[d].hls_idx]) <= ctx'[d].hls_rpos
                      /\ slot'[ctx'[d].hls_idx].flag # 2
    BY DEF NoLostWakeup, Live, csize
  <2>1. d # c /\ ctx'[d] = ctx[d]
    BY <1>1 DEF GetStep
  <2>2. ctx[d] \in Contexts /\ ctx[d].hls_idx \in HlsSlots /\ ctx[d].hls_rpos \in Nat
    BY <2>1, StateFacts DEF HlsInv, Types, Roles, RoleOf, Contexts
  <2>3. csize(slot[ctx[d].hls_idx]) <= ctx[d].hls_rpos /\ slot[ctx[d].hls_idx].flag # 2
    BY <2>1 DEF HlsInv, NoLostWakeup, Live
  <2> QED BY <1>3, <2>1, <2>2, <2>3 DEF csize
<1> QED BY <1>5, <1>6, <1>7 DEF HlsInv

\* A chunk changes its uploader's slot and no other, and lengthens that slot by one.
LEMMA ChunkSlots ==
  ASSUME HlsInv, NEW c \in Conns, ChunkStep(c), NEW i, i = ctx[c].hls_idx
  PROVE  /\ i \in HlsSlots /\ slot \in [HlsSlots -> Slots]
         /\ \A j \in HlsSlots \ {i} : slot'[j] = slot[j]
         /\ slot'[i].flag = slot[i].flag /\ slot'[i].upload = slot[i].upload
         /\ slot'[i].data = Append(slot[i].data, <<ctx[c].upload, ctx[c].hls_wpos + 1>>)
         /\ csize(slot[i]) \in Nat /\ csize(slot'[i]) = csize(slot[i]) + 1
         /\ csize(slot'[i]) <= slot'[i].msize /\ slot'[i].msize % SegInc = 0
<1>1. ctx[c].state = "RECEIVE_DATA" /\ RoleOf(c)
  BY DEF ChunkStep, HlsInv, Roles
<1>2. i \in HlsSlots /\ slot \in [HlsSlots -> Slots]
  BY <1>1 DEF RoleOf, HlsInv, Types
<1>3. slot[i].data \in Seq(Chunk)
  BY <1>2 DEF Slots
<1>4. csize(slot[i]) \in Nat
  BY <1>3, LenProperties DEF csize
<1>5. /\ OnlySlot(i)
      /\ slot'[i].flag = slot[i].flag /\ slot'[i].upload = slot[i].upload
      /\ slot'[i].data = Append(slot[i].data, <<ctx[c].upload, ctx[c].hls_wpos + 1>>)
      /\ csize(slot'[i]) = csize(slot[i]) + 1
      /\ csize(slot'[i]) <= slot'[i].msize /\ slot'[i].msize % SegInc = 0
  BY DEF ChunkStep
<1> QED BY <1>2, <1>4, <1>5 DEF OnlySlot

\* What a chunk leaves alone.
LEMMA ChunkRest ==
  ASSUME NEW c \in Conns, ChunkStep(c)
  PROVE  /\ env' = env /\ uploads' = uploads /\ ended' = ended /\ got' = got
         /\ ctx[c].state = "RECEIVE_DATA" /\ ctx'[c].state = "RECEIVE_DATA"
         /\ ctx'[c].hls_idx = ctx[c].hls_idx /\ ctx'[c].upload = ctx[c].upload
         /\ ctx'[c].hls_wpos = ctx[c].hls_wpos + 1
         /\ \A d \in Conns \ {c} : WokenAt(ctx, ctx', c, "SEND_DATA", d)
  BY DEF ChunkStep, Woken

LEMMA ChunkInv ==
  ASSUME HlsInv, Types', NEW c \in Conns, ChunkStep(c)
  PROVE  HlsInv'
<1>0. PICK i : i = ctx[c].hls_idx
  OBVIOUS
<1>1. i \in HlsSlots /\ \A j \in HlsSlots \ {i} : slot'[j] = slot[j]
  BY <1>0, ChunkSlots
<1>2. MaxChunks[env] \in Nat /\ env' = env /\ uploads' = uploads
  BY HlsAssumption, ChunkRest DEF HlsInv, Types
<1>3. Roles'
  <2>1. \A d \in Conns : RoleOf(d) /\ ctx[d] \in Contexts
    BY DEF HlsInv, Roles, Types
  <2>2. ASSUME NEW d \in Conns \ {c} PROVE RoleOf(d)'
    <3>1. WokenAt(ctx, ctx', c, "SEND_DATA", d)
      BY DEF ChunkStep, Woken
    <3>2. CASE ctx[d].state = "WAIT_FEED"
      BY <1>2, <2>1, <3>1, <3>2, StateFacts DEF RoleOf, WokenAt
    <3>3. CASE ctx[d].state # "WAIT_FEED"
      BY <1>2, <2>1, <3>1, <3>3 DEF RoleOf, WokenAt
    <3> QED BY <3>2, <3>3
  <2>3. RoleOf(c)'
    BY <1>2, <2>1, StateFacts DEF RoleOf, ChunkStep
  <2> QED BY <2>2, <2>3 DEF Roles
<1>4. Room'
  <2> SUFFICES ASSUME NEW j \in HlsSlots
               PROVE  /\ csize(slot'[j]) <= slot'[j].msize /\ slot'[j].msize % SegInc = 0
                      /\ slot'[j].upload <= uploads
    BY <1>2 DEF Room, csize
  <2>1. CASE j # i
    BY <1>1, <2>1 DEF HlsInv, Room
  <2>2. CASE j = i
    BY <1>0, <2>2, ChunkSlots DEF HlsInv, Room
  <2> QED BY <2>1, <2>2
<1>5. NoLostWakeup'
  <2> SUFFICES ASSUME NEW d \in Conns, ctx'[d].state = "WAIT_FEED"
               PROVE  /\ csize(slot'[ctx'[d].hls_idx]) <= ctx'[d].hls_rpos
                      /\ slot'[ctx'[d].hls_idx].flag # 2
    BY DEF NoLostWakeup, Live, csize
  <2>1. d \in Conns \ {c}
    BY DEF ChunkStep
  <2>2. WokenAt(ctx, ctx', c, "SEND_DATA", d)
    BY <2>1 DEF ChunkStep, Woken
  <2>3. ctx[d].state = "WAIT_FEED" /\ ctx'[d].hls_idx = ctx[d].hls_idx
        /\ ctx'[d].hls_rpos = ctx[d].hls_rpos /\ ctx[d].hls_idx # i
    BY <1>0, <2>2 DEF WokenAt
  <2>4. ctx[d].hls_idx \in HlsSlots
    BY <2>3, StateFacts DEF HlsInv, Roles, RoleOf
  <2>5. csize(slot[ctx[d].hls_idx]) <= ctx[d].hls_rpos /\ slot[ctx[d].hls_idx].flag # 2
    BY <2>3 DEF HlsInv, NoLostWakeup, Live
  <2> QED BY <1>1, <2>3, <2>4, <2>5
<1> QED BY <1>3, <1>4, <1>5 DEF HlsInv

LEMMA EndInv ==
  ASSUME HlsInv, Types', NEW c \in Conns, EndStep(c)
  PROVE  HlsInv'
<1> DEFINE i == ctx[c].hls_idx
<1>1. i \in HlsSlots /\ \A j \in HlsSlots \ {i} : slot'[j] = slot[j]
  BY DEF EndStep, OnlySlot, HlsInv, Roles, RoleOf
<1>2. MaxChunks[env] \in Nat /\ env' = env /\ uploads' = uploads
  BY HlsAssumption DEF HlsInv, Types, EndStep
<1>3. Roles'
  <2>1. \A d \in Conns : RoleOf(d) /\ ctx[d] \in Contexts
    BY DEF HlsInv, Roles, Types
  <2>2. ASSUME NEW d \in Conns \ {c} PROVE RoleOf(d)'
    <3>1. WokenAt(ctx, ctx', c, "SEND_DATA_TRAILER", d)
      BY DEF EndStep, Woken
    <3>2. CASE ctx[d].state = "WAIT_FEED"
      BY <1>2, <2>1, <3>1, <3>2, StateFacts DEF RoleOf, WokenAt
    <3>3. CASE ctx[d].state # "WAIT_FEED"
      BY <1>2, <2>1, <3>1, <3>3 DEF RoleOf, WokenAt
    <3> QED BY <3>2, <3>3
  <2>3. RoleOf(c)'
    BY <1>2, StateFacts DEF RoleOf, EndStep, Freed
  <2> QED BY <2>2, <2>3 DEF Roles
<1>4. Room'
  <2> SUFFICES ASSUME NEW j \in HlsSlots
               PROVE  /\ csize(slot'[j]) <= slot'[j].msize /\ slot'[j].msize % SegInc = 0
                      /\ slot'[j].upload <= uploads
    BY <1>2 DEF Room, csize
  <2>1. CASE j # i
    BY <1>1, <2>1 DEF HlsInv, Room
  <2>2. CASE j = i
    BY <2>2 DEF HlsInv, Room, EndStep, csize
  <2> QED BY <2>1, <2>2
<1>5. NoLostWakeup'
  <2> SUFFICES ASSUME NEW d \in Conns, ctx'[d].state = "WAIT_FEED"
               PROVE  /\ csize(slot'[ctx'[d].hls_idx]) <= ctx'[d].hls_rpos
                      /\ slot'[ctx'[d].hls_idx].flag # 2
    BY DEF NoLostWakeup, Live, csize
  <2>1. d \in Conns \ {c}
    BY DEF EndStep, Freed
  <2>2. WokenAt(ctx, ctx', c, "SEND_DATA_TRAILER", d)
    BY <2>1 DEF EndStep, Woken
  <2>3. ctx[d].state = "WAIT_FEED" /\ ctx'[d].hls_idx = ctx[d].hls_idx
        /\ ctx'[d].hls_rpos = ctx[d].hls_rpos /\ ctx[d].hls_idx # i
    BY <2>2 DEF WokenAt
  <2>4. ctx[d].hls_idx \in HlsSlots
    BY <2>3, StateFacts DEF HlsInv, Roles, RoleOf
  <2>5. csize(slot[ctx[d].hls_idx]) <= ctx[d].hls_rpos /\ slot[ctx[d].hls_idx].flag # 2
    BY <2>3 DEF HlsInv, NoLostWakeup, Live
  <2> QED BY <1>1, <2>3, <2>4, <2>5
<1> QED BY <1>3, <1>4, <1>5 DEF HlsInv
-----------------------------------------------------------------------------
(* Owned is kept. *)

LEMMA OwnOwned ==
  ASSUME Owned, NEW c \in Conns, OwnStep(c)
  PROVE  Owned'
<1>0. Undisturbed' => Undisturbed
  BY DEF OwnStep, Undisturbed
<1> SUFFICES ASSUME Undisturbed
             PROVE  OneUploader' /\ Filling' /\ Holding' /\ Distinct'
  BY <1>0 DEF Owned
<1>1. /\ OneUploader /\ \A d \in Conns : FillsIts(d)
      /\ \A i \in HlsSlots : HoldsIts(i) /\ Distinct
  BY DEF Owned, Filling, Holding
<1>2. /\ slot' = slot /\ ended' = ended /\ env' = env
      /\ \A d \in Conns : ctx'[d].state = "RECEIVE_DATA" => ctx'[d] = ctx[d]
  BY DEF OwnStep, OnlyAt
<1>3. OneUploader'
  BY <1>1, <1>2 DEF OneUploader
<1>4. \A d \in Conns : FillsIts(d)'
  BY <1>1, <1>2 DEF FillsIts, csize
<1>5. \A i \in HlsSlots : HoldsIts(i)'
  BY <1>1, <1>2 DEF HoldsIts, csize
<1>6. Distinct'
  BY <1>1, <1>2 DEF Distinct
<1> QED BY <1>3, <1>4, <1>5, <1>6 DEF Filling, Holding

LEMMA PostOwned ==
  ASSUME HlsInv, Owned, NEW c \in Conns, NEW i \in HlsSlots, PostStep(c, i)
  PROVE  Owned'
<1> SUFFICES ASSUME Undisturbed
             PROVE  OneUploader' /\ Filling' /\ Holding' /\ Distinct'
  BY DEF Owned, Undisturbed, PostStep
<1>1. /\ OneUploader /\ \A d \in Conns : FillsIts(d)
      /\ \A j \in HlsSlots : HoldsIts(j) /\ Distinct
  BY DEF Owned, Filling, Holding
<1>2. /\ ended' = ended /\ env' = env /\ uploads \in Nat
      /\ \A d \in Conns \ {c} : ctx'[d] = ctx[d]
      /\ \A j \in HlsSlots \ {i} : slot'[j] = slot[j]
      /\ ctx'[c].state = "RECEIVE_DATA" /\ ctx'[c].hls_idx = i
      /\ ctx'[c].upload = uploads + 1 /\ ctx'[c].hls_wpos = 0
      /\ slot'[i].data = <<>> /\ slot'[i].flag = 1 /\ slot'[i].upload = uploads + 1
  BY HlsAssumption DEF PostStep, OnlyAt, OnlySlot, HlsInv, Types
<1>3. \A d \in Conns : ~(ctx[d].state = "RECEIVE_DATA" /\ ctx[d].hls_idx = i)
  BY DEF PostStep, Undisturbed, Uploading
<1>4. OneUploader'
  BY <1>1, <1>2, <1>3 DEF OneUploader
<1>5. ASSUME NEW d \in Conns PROVE FillsIts(d)'
  <2>1. CASE d = c
    BY <1>2, <2>1 DEF FillsIts, csize
  <2>2. CASE d # c /\ ctx[d].state = "RECEIVE_DATA"
    <3>1. ctx[d].hls_idx \in HlsSlots \ {i}
      BY <1>3, <2>2 DEF HlsInv, Roles, RoleOf
    <3> QED BY <1>1, <1>2, <2>2, <3>1 DEF FillsIts, csize
  <2>3. CASE d # c /\ ctx[d].state # "RECEIVE_DATA"
    BY <1>2, <2>3 DEF FillsIts
  <2> QED BY <2>1, <2>2, <2>3
<1>6. ASSUME NEW j \in HlsSlots PROVE HoldsIts(j)'
  <2>1. CASE j = i
    BY <1>2, <2>1 DEF HoldsIts, Begins
  <2>2. CASE j # i
    BY <1>1, <1>2, <2>2 DEF HoldsIts, csize
  <2> QED BY <2>1, <2>2
<1>7. Distinct'
  <2>1. \A j \in HlsSlots : slot[j].upload \in Nat /\ slot[j].upload <= uploads
    BY DEF HlsInv, Types, Slots, Room
  <2> QED BY <1>1, <1>2, <2>1 DEF Distinct
<1> QED BY <1>4, <1>5, <1>6, <1>7 DEF Filling, Holding

LEMMA GetOwned ==
  ASSUME HlsInv, Owned, NEW c \in Conns, NEW i \in HlsSlots, GetStep(c, i)
  PROVE  Owned'
<1> SUFFICES ASSUME Undisturbed
             PROVE  OneUploader' /\ Filling' /\ Holding' /\ Distinct'
  BY DEF Owned, Undisturbed, GetStep
<1>1. /\ OneUploader /\ \A d \in Conns : FillsIts(d)
      /\ \A j \in HlsSlots : HoldsIts(j) /\ Distinct
  BY DEF Owned, Filling, Holding
<1>2. /\ ended' = ended /\ env' = env
      /\ \A d \in Conns : ctx'[d].state = "RECEIVE_DATA" => ctx'[d] = ctx[d]
  BY DEF GetStep, OnlyAt
<1>3. \A j \in HlsSlots : /\ slot'[j].data = slot[j].data /\ slot'[j].flag = slot[j].flag
                          /\ slot'[j].upload = slot[j].upload
  BY <1>1 DEF GetStep, Undisturbed, HoldsIts
<1>4. OneUploader'
  BY <1>1, <1>2 DEF OneUploader
<1>5. ASSUME NEW d \in Conns, ctx'[d].state = "RECEIVE_DATA" PROVE FillsIts(d)'
  <2>1. ctx[d].hls_idx \in HlsSlots /\ ctx'[d] = ctx[d]
    BY <1>2, <1>5 DEF HlsInv, Roles, RoleOf
  <2> QED BY <1>1, <1>3, <1>5, <2>1 DEF FillsIts, csize
<1>6. \A j \in HlsSlots : HoldsIts(j)'
  BY <1>1, <1>2, <1>3 DEF HoldsIts, csize
<1>7. Distinct'
  BY <1>1, <1>3 DEF Distinct
<1> QED BY <1>4, <1>5, <1>6, <1>7 DEF Filling, Holding, FillsIts

LEMMA ChunkOwned ==
  ASSUME HlsInv, Owned, NEW c \in Conns, ChunkStep(c)
  PROVE  Owned'
<1>0. Undisturbed' => Undisturbed
  BY DEF ChunkStep, Undisturbed
<1> SUFFICES ASSUME Undisturbed
             PROVE  OneUploader' /\ Filling' /\ Holding' /\ Distinct'
  BY <1>0 DEF Owned
<1>i. PICK i : i = ctx[c].hls_idx
  OBVIOUS
<1>1. /\ OneUploader /\ \A d \in Conns : FillsIts(d)
      /\ \A j \in HlsSlots : HoldsIts(j) /\ Distinct
  BY DEF Owned, Filling, Holding
<1>2. /\ ended' = ended /\ env' = env /\ i \in HlsSlots
      /\ \A j \in HlsSlots \ {i} : slot'[j] = slot[j]
      /\ slot'[i].flag = slot[i].flag /\ slot'[i].upload = slot[i].upload
  BY <1>i, ChunkSlots, ChunkRest
<1>w. /\ slot[i].flag = 1 /\ slot[i].upload = ctx[c].upload /\ csize(slot[i]) = ctx[c].hls_wpos
      /\ csize(slot'[i]) = ctx[c].hls_wpos + 1
  BY <1>1, <1>i, ChunkSlots, ChunkRest DEF FillsIts
<1>3. ASSUME NEW d \in Conns, d # c, ctx'[d].state = "RECEIVE_DATA"
      PROVE  /\ ctx[d].state = "RECEIVE_DATA" /\ ctx'[d].hls_idx = ctx[d].hls_idx
             /\ ctx'[d].upload = ctx[d].upload /\ ctx'[d].hls_wpos = ctx[d].hls_wpos
             /\ ctx[d].hls_idx \in HlsSlots \ {i}
  <2>1. WokenAt(ctx, ctx', c, "SEND_DATA", d)
    BY <1>3, ChunkRest
  <2>2. ctx[d].state = "RECEIVE_DATA"
    BY <1>3, <2>1 DEF WokenAt
  <2>3. /\ ctx'[d].hls_idx = ctx[d].hls_idx /\ ctx'[d].upload = ctx[d].upload
        /\ ctx'[d].hls_wpos = ctx[d].hls_wpos
    BY <2>1 DEF WokenAt
  <2>4. ctx[d].hls_idx \in HlsSlots
    BY <2>2 DEF HlsInv, Roles, RoleOf
  <2>5. ctx[d].hls_idx # i
    BY <1>1, <1>3, <1>i, <2>2, ChunkRest DEF OneUploader
  <2> QED BY <2>2, <2>3, <2>4, <2>5
<1>4. ctx'[c].hls_idx = i /\ ctx'[c].upload = ctx[c].upload /\ ctx'[c].hls_wpos = ctx[c].hls_wpos + 1
  BY <1>i, ChunkRest
<1>5. OneUploader'
  BY <1>1, <1>3, <1>4 DEF OneUploader
<1>6. ASSUME NEW d \in Conns, ctx'[d].state = "RECEIVE_DATA" PROVE FillsIts(d)'
  <2>1. CASE d = c
    <3>1. /\ slot'[ctx'[c].hls_idx].flag = 1 /\ slot'[ctx'[c].hls_idx].upload = ctx'[c].upload
          /\ csize(slot'[ctx'[c].hls_idx]) = ctx'[c].hls_wpos
      BY <1>2, <1>w, <1>4
    <3> QED BY <2>1, <3>1 DEF FillsIts, csize
  <2>2. CASE d # c
    <3>1. /\ slot[ctx[d].hls_idx].flag = 1 /\ slot[ctx[d].hls_idx].upload = ctx[d].upload
          /\ csize(slot[ctx[d].hls_idx]) = ctx[d].hls_wpos
      BY <1>1, <1>3, <1>6, <2>2 DEF FillsIts
    <3>2. slot'[ctx'[d].hls_idx] = slot[ctx[d].hls_idx]
      BY <1>2, <1>3, <1>6, <2>2
    <3>3. /\ slot'[ctx'[d].hls_idx].flag = 1 /\ slot'[ctx'[d].hls_idx].upload = ctx'[d].upload
          /\ csize(slot'[ctx'[d].hls_idx]) = ctx'[d].hls_wpos
      BY <1>3, <1>6, <2>2, <3>1, <3>2
    <3> QED BY <3>3 DEF FillsIts, csize
  <2> QED BY <2>1, <2>2
<1>7. ASSUME NEW j \in HlsSlots PROVE HoldsIts(j)'
  <2>1. CASE j = i
    <3>1. slot[i].data \in Seq(Chunk) /\ slot[i].upload \in Nat
      BY <1>2 DEF HlsInv, Types, Slots
    <3>2. Begins(slot[i].data, slot[i].upload) /\ slot[i].upload # 0
      BY <1>1, <1>2, <1>w DEF HoldsIts
    <3>3. slot'[i].data = Append(slot[i].data, <<slot[i].upload, Len(slot[i].data) + 1>>)
      <4>1. slot'[i].data = Append(slot[i].data, <<ctx[c].upload, ctx[c].hls_wpos + 1>>)
        BY <1>i, ChunkSlots
      <4>2. ctx[c].upload = slot[i].upload /\ ctx[c].hls_wpos = Len(slot[i].data)
        BY <1>w DEF csize
      <4> QED BY <4>1, <4>2
    <3>4. Begins(slot'[i].data, slot[i].upload)
      BY <3>1, <3>2, <3>3, AppendBegins
    <3>5. slot'[i].flag = 1 /\ slot'[i].upload = slot[i].upload
      BY <1>2, <1>w
    <3> QED BY <2>1, <3>2, <3>4, <3>5 DEF HoldsIts
  <2>2. CASE j # i
    <3>1. slot'[j] = slot[j] /\ HoldsIts(j)
      BY <1>1, <1>2, <2>2
    <3> QED BY <1>2, <3>1 DEF HoldsIts, csize
  <2> QED BY <2>1, <2>2
<1>8. Distinct'
  BY <1>1, <1>2 DEF Distinct
<1> QED BY <1>5, <1>6, <1>7, <1>8 DEF Filling, Holding, FillsIts

LEMMA EndOwned ==
  ASSUME HlsInv, Owned, NEW c \in Conns, EndStep(c)
  PROVE  Owned'
<1>0. Undisturbed' => Undisturbed
  BY DEF EndStep, Undisturbed
<1> SUFFICES ASSUME Undisturbed
             PROVE  OneUploader' /\ Filling' /\ Holding' /\ Distinct'
  BY <1>0 DEF Owned
<1> DEFINE i == ctx[c].hls_idx
<1>1. /\ OneUploader /\ \A d \in Conns : FillsIts(d)
      /\ \A j \in HlsSlots : HoldsIts(j) /\ Distinct
  BY DEF Owned, Filling, Holding
<1>2. /\ env' = env /\ i \in HlsSlots
      /\ \A j \in HlsSlots \ {i} : slot'[j] = slot[j]
      /\ slot'[i].data = slot[i].data /\ slot'[i].flag = 2 /\ slot'[i].upload = slot[i].upload
      /\ slot[i].flag = 1 /\ slot[i].upload = ctx[c].upload /\ csize(slot[i]) = ctx[c].hls_wpos
  BY <1>1 DEF EndStep, OnlySlot, HlsInv, Roles, RoleOf, FillsIts
<1>3. ASSUME NEW d \in Conns, ctx'[d].state = "RECEIVE_DATA"
      PROVE  /\ ctx[d].state = "RECEIVE_DATA" /\ ctx'[d].hls_idx = ctx[d].hls_idx
             /\ ctx'[d].upload = ctx[d].upload /\ ctx'[d].hls_wpos = ctx[d].hls_wpos
             /\ ctx[d].hls_idx \in HlsSlots \ {i}
  <2>1. d # c /\ ctx[c].state = "RECEIVE_DATA"
    BY <1>3 DEF EndStep, Freed
  <2>2. WokenAt(ctx, ctx', c, "SEND_DATA_TRAILER", d)
    BY <2>1 DEF EndStep, Woken
  <2>3. ctx[d].state = "RECEIVE_DATA"
    BY <1>3, <2>2 DEF WokenAt
  <2> QED BY <1>1, <2>1, <2>2, <2>3 DEF WokenAt, OneUploader, HlsInv, Roles, RoleOf
<1>4. OneUploader'
  BY <1>1, <1>3 DEF OneUploader
<1>5. ASSUME NEW d \in Conns, ctx'[d].state = "RECEIVE_DATA" PROVE FillsIts(d)'
  BY <1>1, <1>2, <1>3, <1>5 DEF FillsIts, csize
<1>6. ASSUME NEW j \in HlsSlots PROVE HoldsIts(j)'
  <2>1. ctx[c].upload \in 1 .. MaxUploads /\ slot[i].upload # 0
    BY <1>2, HlsAssumption DEF EndStep, HlsInv, Types, Roles, RoleOf
  <2>2. CASE j = i
    <3>1. "hangup" \notin env => ended'[ctx[c].upload] = ctx[c].hls_wpos
      BY <2>1 DEF EndStep, HlsInv, Types
    <3>2. Begins(slot[i].data, slot[i].upload) /\ csize(slot'[i]) = ctx[c].hls_wpos
      BY <1>1, <1>2 DEF HoldsIts, csize
    <3> HIDE DEF i
    <3> QED BY <1>2, <2>1, <2>2, <3>1, <3>2 DEF HoldsIts
  <2>3. CASE j # i
    <3>1. slot[j].upload # slot[i].upload
      BY <1>1, <1>2, <2>1, <2>3 DEF Distinct
    <3>2. slot[j].flag = 2 => slot[j].upload \in 1 .. MaxUploads
      BY <1>1, HlsAssumption DEF HoldsIts, HlsInv, Types, Room, Slots
    <3>3. slot[j].flag = 2 /\ "hangup" \notin env =>
            ended'[slot[j].upload] = ended[slot[j].upload]
      BY <1>2, <2>1, <3>1, <3>2 DEF EndStep, HlsInv, Types
    <3> QED BY <1>1, <1>2, <2>3, <3>3 DEF HoldsIts, csize
  <2> QED BY <2>2, <2>3
<1>7. Distinct'
  BY <1>1, <1>2 DEF Distinct
<1> QED BY <1>4, <1>5, <1>6, <1>7 DEF Filling, Holding, FillsIts
-----------------------------------------------------------------------------
(* Partway is kept. *)

LEMMA SteadyOwned ==
  ASSUME Owned, Steady
  PROVE  Undisturbed /\ OneUploader /\ Filling /\ Holding /\ Distinct
<1>1. Undisturbed
  BY DEF Undisturbed, Steady
<1> QED BY <1>1 DEF Owned

LEMMA OwnPartway ==
  ASSUME HlsInv, Owned, Partway, NEW c \in Conns, OwnStep(c)
  PROVE  Partway'
<1>0. env' = env
  BY DEF OwnStep
<1> SUFFICES ASSUME Steady PROVE Sent'
  BY <1>0 DEF Partway, Steady
<1>1. Sent /\ Holding /\ slot' = slot
  BY SteadyOwned DEF Partway, OwnStep
<1>2. ASSUME NEW d \in Conns \ {c} PROVE SentSoFar(d)'
  <2>1. SentSoFar(d) /\ ctx'[d] = ctx[d] /\ got'[d] = got[d]
    BY <1>1 DEF Sent, OwnStep, OnlyAt
  <2> QED BY <1>1, <2>1 DEF SentSoFar, csize
<1>3. SentSoFar(c)'
  <2>1. CASE ctx'[c].state \in PlayStates
    <3> DEFINE s == slot[ctx[c].hls_idx]
    <3>1. /\ ctx[c].state \in PlayStates /\ ctx'[c].hls_idx = ctx[c].hls_idx
          /\ \/ ctx'[c].hls_rpos = ctx[c].hls_rpos /\ got'[c] = got[c]
             \/ ctx'[c].hls_rpos = csize(s) /\ got'[c] = got[c] \o unsent(c)
      BY <2>1 DEF OwnStep
    <3>2. /\ Len(got[c]) = ctx[c].hls_rpos /\ ctx[c].hls_rpos <= csize(s)
          /\ Begins(got[c], s.upload)
      BY <1>1, <3>1 DEF Sent, SentSoFar
    <3>3. ctx[c].hls_idx \in HlsSlots
      BY <3>1 DEF HlsInv, Roles, RoleOf
    <3>4. Begins(s.data, s.upload) /\ s.data \in Seq(Chunk) /\ got[c] \in Seq(Chunk)
      BY <1>1, <3>3 DEF Holding, HoldsIts, HlsInv, Types, Slots
    <3>5. unsent(c) = SubSeq(s.data, Len(got[c]) + 1, Len(s.data))
      BY <3>2 DEF unsent, csize
    <3>6. Len(got[c] \o unsent(c)) = csize(s) /\ Begins(got[c] \o unsent(c), s.upload)
      <4>1. Len(got[c]) <= Len(s.data) /\ Begins(got[c], s.upload)
        BY <3>2 DEF csize
      <4> HIDE DEF s
      <4>2. LET t == got[c] \o SubSeq(s.data, Len(got[c]) + 1, Len(s.data))
            IN Len(t) = Len(s.data) /\ Begins(t, s.upload)
        BY <3>4, <4>1, SentBegins
      <4> QED BY <3>5, <4>2 DEF csize
    <3>7. csize(s) \in Nat
      BY <3>4, LenProperties DEF csize
    <3> HIDE DEF s
    <3>8. /\ Len(got'[c]) = ctx'[c].hls_rpos /\ ctx'[c].hls_rpos <= csize(s)
          /\ Begins(got'[c], s.upload)
      <4>1. CASE ctx'[c].hls_rpos = ctx[c].hls_rpos /\ got'[c] = got[c]
        BY <3>2, <4>1
      <4>2. CASE ctx'[c].hls_rpos = csize(s) /\ got'[c] = got[c] \o unsent(c)
        BY <3>6, <3>7, <4>2
      <4> QED BY <3>1, <4>1, <4>2
    <3> QED BY <1>1, <2>1, <3>1, <3>8, StateFacts DEF s, SentSoFar, csize
  <2>2. CASE ctx'[c].state \notin PlayStates
    BY <2>2, StateFacts DEF SentSoFar, OwnStep
  <2> QED BY <2>1, <2>2
<1> QED BY <1>2, <1>3 DEF Sent

LEMMA PostPartway ==
  ASSUME HlsInv, Owned, Partway, NEW c \in Conns, NEW i \in HlsSlots, PostStep(c, i)
  PROVE  Partway'
<1>0. env' = env
  BY DEF PostStep
<1> SUFFICES ASSUME Steady PROVE Sent'
  BY <1>0 DEF Partway, Steady
<1>1. Sent /\ Holding /\ got' = got
  BY SteadyOwned DEF Partway, PostStep
<1>2. Playing(i) = {} \/ slot[i].flag = 0
  BY DEF Steady, PostStep
<1>3. SentSoFar(c)'
  <2>1. got[c] = <<>>
    BY <1>1 DEF Sent, SentSoFar, PostStep
  <2> QED BY <1>1, <2>1, StateFacts DEF SentSoFar, PostStep
<1>4. ASSUME NEW d \in Conns \ {c} PROVE SentSoFar(d)'
  <2>1. SentSoFar(d) /\ ctx'[d] = ctx[d] /\ got'[d] = got[d]
    BY <1>1 DEF Sent, PostStep, OnlyAt
  <2>2. CASE ctx[d].state \notin PlayStates
    BY <2>1, <2>2 DEF SentSoFar
  <2>3. CASE ctx[d].state \in PlayStates /\ ctx[d].hls_idx = i
    <3>1. d \in Playing(i)
      BY <2>3, StateFacts DEF Playing, Live, HlsInv, Roles, RoleOf, Blank
    <3>2. csize(slot[i]) = 0
      BY <1>1, <1>2, <3>1 DEF Holding, HoldsIts, csize
    <3>3. ctx[d].hls_rpos = 0 /\ Len(got[d]) = 0
      BY <2>1, <2>3, <3>2 DEF SentSoFar, HlsInv, Types, Contexts
    <3>4. csize(slot'[i]) = 0 /\ Begins(got[d], slot'[i].upload)
      BY <3>3 DEF PostStep, csize, Begins
    <3> QED BY <2>1, <2>3, <3>3, <3>4, StateFacts DEF SentSoFar, csize
  <2>4. CASE ctx[d].state \in PlayStates /\ ctx[d].hls_idx # i
    <3>1. slot'[ctx[d].hls_idx] = slot[ctx[d].hls_idx]
      BY <2>4 DEF PostStep, OnlySlot, HlsInv, Roles, RoleOf
    <3> QED BY <2>1, <2>4, <3>1 DEF SentSoFar, csize
  <2> QED BY <2>2, <2>3, <2>4
<1> QED BY <1>3, <1>4 DEF Sent

LEMMA GetPartway ==
  ASSUME HlsInv, Owned, Partway, NEW c \in Conns, NEW i \in HlsSlots, GetStep(c, i)
  PROVE  Partway'
<1>0. env' = env
  BY DEF GetStep
<1> SUFFICES ASSUME Steady PROVE Sent'
  BY <1>0 DEF Partway, Steady
<1>1. Sent /\ Holding /\ got' = got
  BY SteadyOwned DEF Partway, GetStep
<1>2. \A j \in HlsSlots : slot'[j].data = slot[j].data /\ slot'[j].upload = slot[j].upload
  BY <1>1 DEF Steady, GetStep, Holding, HoldsIts
<1>3. SentSoFar(c)'
  <2>1. got[c] = <<>> /\ Len(got[c]) = 0
    BY <1>1 DEF Sent, SentSoFar, GetStep
  <2>2. csize(slot[i]) \in Nat
    BY LenProperties DEF HlsInv, Types, Slots, csize
  <2>3. Begins(got[c], slot'[i].upload)
    BY <2>1 DEF Begins
  <2> QED BY <1>1, <1>2, <2>1, <2>2, <2>3, StateFacts DEF SentSoFar, GetStep, csize
<1>4. ASSUME NEW d \in Conns \ {c} PROVE SentSoFar(d)'
  <2>1. SentSoFar(d) /\ ctx'[d] = ctx[d] /\ got'[d] = got[d]
    BY <1>1 DEF Sent, GetStep, OnlyAt
  <2>2. ctx[d].state \in PlayStates => ctx[d].hls_idx \in HlsSlots
    BY DEF HlsInv, Roles, RoleOf
  <2> QED BY <1>2, <2>1, <2>2 DEF SentSoFar, csize
<1> QED BY <1>3, <1>4 DEF Sent

LEMMA ChunkPartway ==
  ASSUME HlsInv, Owned, Partway, NEW c \in Conns, ChunkStep(c)
  PROVE  Partway'
<1>0. env' = env
  BY DEF ChunkStep
<1> SUFFICES ASSUME Steady PROVE Sent'
  BY <1>0 DEF Partway, Steady
<1>i. PICK i : i = ctx[c].hls_idx
  OBVIOUS
<1>1. Sent /\ got' = got
  BY DEF Partway, ChunkStep
<1>2. \A j \in HlsSlots : /\ csize(slot[j]) \in Nat /\ csize(slot'[j]) \in Nat
                          /\ csize(slot[j]) <= csize(slot'[j])
                          /\ slot'[j].upload = slot[j].upload
  <2>1. \A j \in HlsSlots : csize(slot[j]) \in Nat
    BY LenProperties DEF HlsInv, Types, Slots, csize
  <2>2. /\ \A j \in HlsSlots \ {i} : slot'[j] = slot[j]
        /\ slot'[i].upload = slot[i].upload
        /\ csize(slot'[i]) \in Nat /\ csize(slot[i]) <= csize(slot'[i])
    <3>1. /\ \A j \in HlsSlots \ {i} : slot'[j] = slot[j]
          /\ slot'[i].upload = slot[i].upload
          /\ csize(slot[i]) \in Nat /\ csize(slot'[i]) = csize(slot[i]) + 1
      BY <1>i, ChunkSlots
    <3> QED BY <3>1
  <2>3. ASSUME NEW j \in HlsSlots, j # i
        PROVE  /\ csize(slot'[j]) \in Nat /\ csize(slot[j]) <= csize(slot'[j])
               /\ slot'[j].upload = slot[j].upload
    BY <2>1, <2>2, <2>3
  <2> QED BY <2>1, <2>2, <2>3
<1>3. SentSoFar(c)'
  BY <1>1, StateFacts DEF Sent, SentSoFar, ChunkStep
<1>4. ASSUME NEW d \in Conns \ {c} PROVE SentSoFar(d)'
  <2>1. SentSoFar(d) /\ got'[d] = got[d]
    BY <1>1 DEF Sent
  <2>2. WokenAt(ctx, ctx', c, "SEND_DATA", d)
    BY ChunkRest
  <2>3. /\ ctx'[d].hls_idx = ctx[d].hls_idx /\ ctx'[d].hls_rpos = ctx[d].hls_rpos
        /\ ctx'[d].state \in PlayStates => ctx[d].state \in PlayStates
        /\ ctx'[d].state \in {"WAIT_REQUEST", "RECEIVE_DATA"} => ctx'[d].state = ctx[d].state
    BY <2>2, StateFacts DEF WokenAt
  <2>4. ctx[d].state \in PlayStates => ctx[d].hls_idx \in HlsSlots
    BY DEF HlsInv, Roles, RoleOf
  <2>5. ctx[d].hls_rpos \in Nat
    BY DEF HlsInv, Types, Contexts
  <2>6. CASE ctx'[d].state \in PlayStates
    <3> DEFINE j == ctx[d].hls_idx
    <3>0. j \in HlsSlots
      BY <2>3, <2>4, <2>6
    <3>1. csize(slot[j]) \in Nat /\ csize(slot'[j]) \in Nat /\ csize(slot[j]) <= csize(slot'[j])
          /\ slot'[j].upload = slot[j].upload
      BY <1>2, <3>0
    <3>2. /\ Len(got[d]) = ctx[d].hls_rpos /\ ctx[d].hls_rpos <= csize(slot[j])
          /\ Begins(got[d], slot[j].upload)
      BY <2>1, <2>3, <2>6 DEF SentSoFar
    <3>3. ctx[d].hls_rpos <= csize(slot'[j])
      BY <2>5, <3>1, <3>2
    <3>4. /\ Len(got'[d]) = ctx'[d].hls_rpos /\ ctx'[d].hls_rpos <= Len(slot'[ctx'[d].hls_idx].data)
          /\ Begins(got'[d], slot'[ctx'[d].hls_idx].upload)
      BY <2>1, <2>3, <3>1, <3>2, <3>3 DEF csize
    <3> QED BY <2>6, <3>4, StateFacts DEF SentSoFar, csize
  <2>7. CASE ctx'[d].state \notin PlayStates
    BY <2>1, <2>3, <2>7 DEF SentSoFar
  <2> QED BY <2>6, <2>7
<1> QED BY <1>3, <1>4 DEF Sent

LEMMA EndPartway ==
  ASSUME HlsInv, Owned, Partway, NEW c \in Conns, EndStep(c)
  PROVE  Partway'
<1>0. env' = env
  BY DEF EndStep
<1> SUFFICES ASSUME Steady PROVE Sent'
  BY <1>0 DEF Partway, Steady
<1>1. Sent /\ got' = got
  BY DEF Partway, EndStep
<1>2. \A j \in HlsSlots : slot'[j].data = slot[j].data /\ slot'[j].upload = slot[j].upload
  BY DEF EndStep, OnlySlot
<1>3. SentSoFar(c)'
  BY StateFacts DEF SentSoFar, EndStep, Freed
<1>4. ASSUME NEW d \in Conns \ {c} PROVE SentSoFar(d)'
  <2>1. SentSoFar(d) /\ got'[d] = got[d]
    BY <1>1 DEF Sent
  <2>2. WokenAt(ctx, ctx', c, "SEND_DATA_TRAILER", d)
    BY DEF EndStep, Woken
  <2>3. /\ ctx'[d].hls_idx = ctx[d].hls_idx /\ ctx'[d].hls_rpos = ctx[d].hls_rpos
        /\ ctx'[d].state \in PlayStates => ctx[d].state \in PlayStates
        /\ ctx'[d].state \in {"WAIT_REQUEST", "RECEIVE_DATA"} => ctx'[d].state = ctx[d].state
    BY <2>2, StateFacts DEF WokenAt
  <2>4. ctx[d].state \in PlayStates => ctx[d].hls_idx \in HlsSlots
    BY DEF HlsInv, Roles, RoleOf
  <2> QED BY <1>2, <2>1, <2>3, <2>4 DEF SentSoFar, csize
<1> QED BY <1>3, <1>4 DEF Sent
-----------------------------------------------------------------------------
(* Told is kept. *)

\* A step that leaves the slot and the feed of player d as they are.
LEMMA StillFollows ==
  ASSUME HlsInv, NEW d \in Conns, FollowsIts(d),
         ctx'[d].state \in PlayStates => ctx[d].state \in PlayStates,
         ctx'[d].hls_idx = ctx[d].hls_idx, ctx'[d].feed_ctx = ctx[d].feed_ctx,
         ctx'[d].state = "SEND_DATA_TRAILER" => ctx[d].state = "SEND_DATA_TRAILER",
         ctx[d].state \in PlayStates => slot'[ctx[d].hls_idx].flag = slot[ctx[d].hls_idx].flag,
         \A e \in Conns : ctx[e].state = "RECEIVE_DATA" =>
           ctx'[e].state = "RECEIVE_DATA" /\ ctx'[e].hls_idx = ctx[e].hls_idx
  PROVE  FollowsIts(d)'
<1>1. ctx[d].feed_ctx \in Conns \cup {NULL}
  BY DEF HlsInv, Types, Contexts
<1> QED BY <1>1 DEF FollowsIts

LEMMA OwnTold ==
  ASSUME HlsInv, Owned, Told, NEW c \in Conns, OwnStep(c)
  PROVE  Told'
<1>0. env' = env
  BY DEF OwnStep
<1> SUFFICES ASSUME Steady PROVE Following'
  BY <1>0 DEF Told, Steady
<1>1. Following /\ slot' = slot
  BY DEF Told, OwnStep
<1>2. ASSUME NEW e \in Conns, ctx[e].state = "RECEIVE_DATA" PROVE ctx'[e] = ctx[e]
  BY <1>2 DEF OwnStep, OnlyAt
<1>3. ASSUME NEW d \in Conns, ctx'[d].state \in PlayStates PROVE FollowsIts(d)'
  <2>1. FollowsIts(d)
    BY <1>1 DEF Following
  <2>2. /\ ctx[d].state \in PlayStates /\ ctx'[d].hls_idx = ctx[d].hls_idx
        /\ ctx'[d].feed_ctx = ctx[d].feed_ctx
        /\ ctx'[d].state = "SEND_DATA_TRAILER" => ctx[d].state = "SEND_DATA_TRAILER"
    BY <1>3 DEF OwnStep, OnlyAt
  <2> QED BY <1>1, <1>2, <2>1, <2>2, StillFollows
<1> QED BY <1>3 DEF Following, FollowsIts

LEMMA PostTold ==
  ASSUME HlsInv, Owned, Told, NEW c \in Conns, NEW i \in HlsSlots, PostStep(c, i)
  PROVE  Told'
<1>0. env' = env
  BY DEF PostStep
<1> SUFFICES ASSUME Steady PROVE Following'
  BY <1>0 DEF Told, Steady
<1>1. Following /\ (Playing(i) = {} \/ slot[i].flag = 0) /\ Uploading(i) = {}
  BY DEF Told, Steady, PostStep
<1>2. ASSUME NEW e \in Conns, ctx[e].state = "RECEIVE_DATA" PROVE ctx'[e] = ctx[e]
  BY <1>2 DEF PostStep, OnlyAt
<1>3. ASSUME NEW d \in Conns, ctx'[d].state \in PlayStates PROVE FollowsIts(d)'
  <2>1. FollowsIts(d)
    BY <1>1 DEF Following
  <2>2. d # c /\ ctx'[d] = ctx[d]
    BY <1>3, StateFacts DEF PostStep, OnlyAt
  <2>3. CASE ctx[d].hls_idx # i
    <3>1. slot'[ctx[d].hls_idx] = slot[ctx[d].hls_idx]
      BY <1>3, <2>2, <2>3 DEF PostStep, OnlySlot, HlsInv, Roles, RoleOf
    <3> QED BY <1>2, <1>3, <2>1, <2>2, <3>1, StillFollows
  <2>4. CASE ctx[d].hls_idx = i
    <3>1. d \in Playing(i)
      BY <1>3, <2>2, <2>4, StateFacts DEF Playing, Live, HlsInv, Roles, RoleOf, Blank
    <3>2. slot[i].flag = 0
      BY <1>1, <3>1
    <3>3. ctx[d].feed_ctx \in Conns \cup {NULL}
      BY DEF HlsInv, Types, Contexts
    <3>4. ctx[d].feed_ctx = NULL /\ ctx[d].state # "SEND_DATA_TRAILER"
      BY <1>1, <1>3, <2>1, <2>2, <2>4, <3>2, <3>3 DEF FollowsIts, Uploading
    <3> QED BY <2>2, <3>4 DEF FollowsIts
  <2> QED BY <2>3, <2>4
<1> QED BY <1>3 DEF Following, FollowsIts

LEMMA GetTold ==
  ASSUME HlsInv, Owned, Told, NEW c \in Conns, NEW i \in HlsSlots, GetStep(c, i)
  PROVE  Told'
<1>0. env' = env
  BY DEF GetStep
<1> SUFFICES ASSUME Steady PROVE Following'
  BY <1>0 DEF Told, Steady
<1>1. Following /\ \A j \in HlsSlots : slot'[j].flag = slot[j].flag
  BY DEF Told, Steady, GetStep
<1>2. ASSUME NEW e \in Conns, ctx[e].state = "RECEIVE_DATA" PROVE ctx'[e] = ctx[e]
  BY <1>2 DEF GetStep, OnlyAt
<1>3. ASSUME NEW d \in Conns, ctx'[d].state \in PlayStates PROVE FollowsIts(d)'
  <2>1. CASE d = c
    BY <2>1 DEF FollowsIts, GetStep
  <2>2. CASE d # c
    <3>1. FollowsIts(d) /\ ctx'[d] = ctx[d]
      BY <1>1, <2>2 DEF Following, GetStep, OnlyAt
    <3>2. ctx[d].hls_idx \in HlsSlots
      BY <1>3, <3>1 DEF HlsInv, Roles, RoleOf
    <3> QED BY <1>1, <1>2, <3>1, <3>2, StillFollows
  <2> QED BY <2>1, <2>2
<1> QED BY <1>3 DEF Following, FollowsIts

LEMMA ChunkTold ==
  ASSUME HlsInv, Owned, Told, NEW c \in Conns, ChunkStep(c)
  PROVE  Told'
<1>0. env' = env
  BY DEF ChunkStep
<1> SUFFICES ASSUME Steady PROVE Following'
  BY <1>0 DEF Told, Steady
<1>1. Following /\ \A j \in HlsSlots : slot'[j].flag = slot[j].flag
  BY DEF Told, ChunkStep, OnlySlot
<1>2. ASSUME NEW e \in Conns, ctx[e].state = "RECEIVE_DATA"
      PROVE  ctx'[e].state = "RECEIVE_DATA" /\ ctx'[e].hls_idx = ctx[e].hls_idx
  <2>1. CASE e = c
    BY <2>1 DEF ChunkStep
  <2>2. CASE e # c
    BY <1>2, <2>2 DEF ChunkStep, Woken, WokenAt
  <2> QED BY <2>1, <2>2
<1>3. ASSUME NEW d \in Conns, ctx'[d].state \in PlayStates PROVE FollowsIts(d)'
  <2>1. d \in Conns \ {c}
    BY <1>3, StateFacts DEF ChunkStep
  <2>2. WokenAt(ctx, ctx', c, "SEND_DATA", d)
    BY <2>1 DEF ChunkStep, Woken
  <2>3. FollowsIts(d)
    BY <1>1 DEF Following
  <2>4. /\ ctx[d].state \in PlayStates /\ ctx'[d].hls_idx = ctx[d].hls_idx
        /\ ctx'[d].state = "SEND_DATA_TRAILER" => ctx[d].state = "SEND_DATA_TRAILER"
        /\ \/ ctx'[d].feed_ctx = ctx[d].feed_ctx
           \/ ctx'[d].feed_ctx = c /\ ctx[d].hls_idx = ctx[c].hls_idx
    BY <1>3, <2>2, StateFacts DEF WokenAt
  <2>5. ctx[d].hls_idx \in HlsSlots
    BY <2>4 DEF HlsInv, Roles, RoleOf
  <2>6. CASE ctx'[d].feed_ctx = ctx[d].feed_ctx
    BY <1>1, <1>2, <2>3, <2>4, <2>5, <2>6, StillFollows
  <2>7. CASE ctx'[d].feed_ctx = c /\ ctx[d].hls_idx = ctx[c].hls_idx
    <3>1. ctx'[c].state = "RECEIVE_DATA" /\ ctx'[c].hls_idx = ctx[c].hls_idx
      BY DEF ChunkStep
    <3> QED BY <1>1, <2>3, <2>4, <2>5, <2>7, <3>1 DEF FollowsIts
  <2> QED BY <2>4, <2>6, <2>7
<1> QED BY <1>3 DEF Following, FollowsIts

LEMMA EndTold ==
  ASSUME HlsInv, Owned, Told, NEW c \in Conns, EndStep(c)
  PROVE  Told'
<1>0. env' = env
  BY DEF EndStep
<1> SUFFICES ASSUME Steady PROVE Following'
  BY <1>0 DEF Told, Steady
<1> DEFINE i == ctx[c].hls_idx
<1>1. /\ Following /\ i \in HlsSlots /\ slot'[i].flag = 2
      /\ \A j \in HlsSlots \ {i} : slot'[j] = slot[j]
  BY DEF Told, EndStep, OnlySlot, HlsInv, Roles, RoleOf
<1>2. ASSUME NEW d \in Conns, ctx'[d].state \in PlayStates PROVE FollowsIts(d)'
  <2>1. d \in Conns \ {c}
    BY <1>2, StateFacts DEF EndStep, Freed
  <2>2. WokenAt(ctx, ctx', c, "SEND_DATA_TRAILER", d)
    BY <2>1 DEF EndStep, Woken
  <2>3. FollowsIts(d)
    BY <1>1 DEF Following
  <2>4. ctx[d].state \in PlayStates /\ ctx'[d].hls_idx = ctx[d].hls_idx
    BY <1>2, <2>2, StateFacts DEF WokenAt
  <2>5. ctx[d].hls_idx \in HlsSlots
    BY <2>4 DEF HlsInv, Roles, RoleOf
  <2>6. CASE ctx[d].hls_idx = i
    BY <1>1, <2>4, <2>6 DEF FollowsIts
  <2>7. CASE ctx[d].hls_idx # i
    <3>1. slot'[ctx[d].hls_idx] = slot[ctx[d].hls_idx] /\ ctx'[d].feed_ctx = ctx[d].feed_ctx
      BY <1>1, <2>2, <2>5, <2>7 DEF WokenAt
    <3>2. ctx[d].feed_ctx \in Conns \cup {NULL}
      BY DEF HlsInv, Types, Contexts
    <3>3. ctx'[d].state = "SEND_DATA_TRAILER" => slot[ctx[d].hls_idx].flag = 2
      <4>1. CASE ctx[d].state = "WAIT_FEED"
        <5>1. slot[ctx[d].hls_idx].flag # 2
          BY <4>1 DEF HlsInv, NoLostWakeup, Live
        <5>2. ctx[d].feed_ctx # c
          BY <2>3, <2>4, <2>7, <5>1, HlsAssumption DEF FollowsIts
        <5> QED BY <2>2, <2>7, <4>1, <5>2 DEF WokenAt
      <4>2. CASE ctx[d].state # "WAIT_FEED"
        BY <2>2, <2>3, <2>4, <4>2 DEF WokenAt, FollowsIts
      <4> QED BY <4>1, <4>2
    <3>4. ASSUME ctx[d].feed_ctx # NULL, slot[ctx[d].hls_idx].flag # 2
          PROVE  /\ ctx'[ctx[d].feed_ctx].state = "RECEIVE_DATA"
                 /\ ctx'[ctx[d].feed_ctx].hls_idx = ctx[d].hls_idx
      <4> DEFINE e == ctx[d].feed_ctx
      <4>1. ctx[e].state = "RECEIVE_DATA" /\ ctx[e].hls_idx = ctx[d].hls_idx
        BY <2>3, <2>4, <3>4 DEF FollowsIts
      <4>2. e \in Conns \ {c}
        BY <2>7, <3>2, <3>4, <4>1
      <4>3. WokenAt(ctx, ctx', c, "SEND_DATA_TRAILER", e)
        BY <4>2 DEF EndStep, Woken
      <4> QED BY <4>1, <4>3 DEF WokenAt
    <3> QED BY <2>4, <3>1, <3>3, <3>4 DEF FollowsIts
  <2> QED BY <2>6, <2>7
<1> QED BY <1>2 DEF Following, FollowsIts
-----------------------------------------------------------------------------
(* Marked is kept. *)

LEMMA OwnMarked ==
  ASSUME Marked, NEW c \in Conns, OwnStep(c)
  PROVE  Marked'
<1>1. /\ env' = env /\ slot' = slot
      /\ \A e \in Conns : ctx[e].state = "RECEIVE_DATA" => ctx'[e] = ctx[e]
  BY DEF OwnStep, OnlyAt
<1> QED BY <1>1 DEF Marked, Undisturbed, MarkOf, Uploading

LEMMA PostMarked ==
  ASSUME Marked, NEW c \in Conns, NEW i \in HlsSlots, PostStep(c, i)
  PROVE  Marked'
<1>1. /\ env' = env /\ slot'[i].flag = 1
      /\ ctx'[c].state = "RECEIVE_DATA" /\ ctx'[c].hls_idx = i
      /\ \A j \in HlsSlots \ {i} : slot'[j] = slot[j]
      /\ \A e \in Conns : ctx[e].state = "RECEIVE_DATA" => ctx'[e] = ctx[e]
  BY DEF PostStep, OnlyAt, OnlySlot
<1> SUFFICES ASSUME Undisturbed, NEW j \in HlsSlots PROVE MarkOf(j)'
  BY <1>1 DEF Marked, Undisturbed
<1>2. CASE j = i
  BY <1>1, <1>2 DEF MarkOf, Uploading
<1>3. CASE j # i
  BY <1>1, <1>3 DEF Marked, MarkOf, Uploading
<1> QED BY <1>2, <1>3

LEMMA GetMarked ==
  ASSUME Marked, NEW c \in Conns, NEW i \in HlsSlots, GetStep(c, i)
  PROVE  Marked'
<1>1. /\ env' = env
      /\ \A e \in Conns : ctx[e].state = "RECEIVE_DATA" => ctx'[e] = ctx[e]
  BY DEF GetStep, OnlyAt
<1> SUFFICES ASSUME Undisturbed, NEW j \in HlsSlots PROVE MarkOf(j)'
  BY <1>1 DEF Marked, Undisturbed
<1>2. slot'[j].flag = slot[j].flag /\ slot'[j].upload = slot[j].upload
  BY DEF GetStep, Undisturbed
<1> QED BY <1>1, <1>2 DEF Marked, MarkOf, Uploading

LEMMA ChunkMarked ==
  ASSUME Marked, NEW c \in Conns, ChunkStep(c)
  PROVE  Marked'
<1>1. /\ env' = env
      /\ \A j \in HlsSlots : slot'[j].flag = slot[j].flag /\ slot'[j].upload = slot[j].upload
  BY DEF ChunkStep, OnlySlot
<1>2. ASSUME NEW e \in Conns, ctx[e].state = "RECEIVE_DATA"
      PROVE  ctx'[e].state = "RECEIVE_DATA" /\ ctx'[e].hls_idx = ctx[e].hls_idx
  <2>1. CASE e = c
    BY <2>1, ChunkRest
  <2>2. CASE e # c
    BY <1>2, <2>2 DEF ChunkStep, Woken, WokenAt
  <2> QED BY <2>1, <2>2
<1> QED BY <1>1, <1>2 DEF Marked, Undisturbed, MarkOf, Uploading

LEMMA EndMarked ==
  ASSUME Marked, NEW c \in Conns, EndStep(c)
  PROVE  Marked'
<1>1. /\ env' = env /\ slot'[ctx[c].hls_idx].flag = 2
      /\ \A j \in HlsSlots \ {ctx[c].hls_idx} : slot'[j] = slot[j]
  BY DEF EndStep, OnlySlot
<1>2. ASSUME NEW e \in Conns \ {c}, ctx[e].state = "RECEIVE_DATA"
      PROVE  ctx'[e].state = "RECEIVE_DATA" /\ ctx'[e].hls_idx = ctx[e].hls_idx
  BY <1>2 DEF EndStep, Woken, WokenAt
<1> SUFFICES ASSUME Undisturbed, NEW j \in HlsSlots PROVE MarkOf(j)'
  BY <1>1 DEF Marked, Undisturbed
<1>3. CASE j = ctx[c].hls_idx
  BY <1>1, <1>3 DEF MarkOf
<1>4. CASE j # ctx[c].hls_idx
  BY <1>1, <1>2, <1>4 DEF Marked, MarkOf, Uploading
<1> QED BY <1>3, <1>4

-----------------------------------------------------------------------------
(* The invariant, and what follows. *)

LEMMA InitAll == Init => AllInv
<1> SUFFICES ASSUME Init PROVE AllInv
  OBVIOUS
<1>1. /\ env \in Disturbances /\ name = NULL /\ accepted = 0 /\ uploads = 0
      /\ \A i \in HlsSlots : slot[i] = [data |-> <<>>, msize |-> 0, flag |-> 0, upload |-> 0]
      /\ \A c \in Conns : ctx[c] = Freed /\ got[c] = <<>>
  BY DEF Init
<1>2. /\ MaxAccepts[env] \in Nat /\ MaxChunks[env] \in Nat /\ MaxUploads \in Nat
      /\ SegInc \in Nat \ {0} /\ 0 % SegInc = 0
  BY <1>1, HlsAssumption
<1>3. Types
  <2>1. slot \in [HlsSlots -> Slots]
    <3>1. [data |-> <<>>, msize |-> 0, flag |-> 0, upload |-> 0] \in Slots
      <4>1. <<>> \in Seq(Chunk) /\ 0 \in 0 .. 2
        OBVIOUS
      <4> QED BY <4>1 DEF Slots
    <3> QED BY <3>1 DEF Init
  <2>2. ctx \in [Conns -> Contexts] /\ got \in [Conns -> Seq(Chunk)]
    BY FreedTyped DEF Init
  <2>3. ended \in [1 .. MaxUploads -> Int]
    BY DEF Init
  <2> QED BY <1>1, <1>2, <2>1, <2>2, <2>3 DEF Types
<1>4. Roles
  BY <1>1, <1>2, StateFacts DEF Roles, RoleOf, Freed
<1>5. \A i \in HlsSlots : /\ csize(slot[i]) = 0 /\ slot[i].msize = 0 /\ slot[i].upload = 0
                          /\ slot[i].flag = 0 /\ slot[i].data = <<>>
  BY <1>1 DEF csize
<1>6. Room
  BY <1>1, <1>2, <1>5 DEF Room
<1>7. \A c \in Conns : ctx[c].state = "FREE"
  BY <1>1 DEF Freed
<1>8. NoLostWakeup /\ OneUploader /\ Filling /\ Sent /\ Following
  <2>1. NoLostWakeup /\ OneUploader
    BY <1>7 DEF NoLostWakeup, Live, OneUploader
  <2>2. Filling
    BY <1>7 DEF Filling, FillsIts
  <2>3. Sent /\ Following
    BY <1>7, StateFacts DEF Sent, SentSoFar, Following, FollowsIts
  <2> QED BY <2>1, <2>2, <2>3
<1>9. Holding /\ Distinct
  BY <1>5 DEF Holding, HoldsIts, Distinct, Begins
<1>10. Marked
  BY <1>5 DEF Marked, MarkOf
<1> QED BY <1>3, <1>4, <1>6, <1>8, <1>9, <1>10 DEF AllInv, HlsInv, Owned, Partway, Told

LEMMA OwnAll ==
  ASSUME AllInv, NEW c \in Conns, Types' /\ OwnStep(c)
  PROVE  AllInv'
BY OwnInv, OwnOwned, OwnPartway, OwnTold, OwnMarked DEF AllInv

LEMMA StepAll == AllInv /\ [Next]_vars => AllInv'
<1> SUFFICES ASSUME AllInv, [Next]_vars PROVE AllInv'
  OBVIOUS
<1>1. Types /\ Roles /\ Room
  BY DEF AllInv, HlsInv
<1>2. CASE Accept
  BY <1>1, <1>2, AcceptOutcome, OwnAll
<1>3. ASSUME NEW c \in Conns, NEW chan \in Channels, NEW i \in HlsSlots, Post(c, chan, i)
      PROVE  AllInv'
  <2>1. Types' /\ PostStep(c, i)
    BY <1>1, <1>3, PostOutcome
  <2> QED BY <2>1, PostInv, PostOwned, PostPartway, PostTold, PostMarked DEF AllInv
<1>4. ASSUME NEW c \in Conns, NEW chan \in Channels, NEW i \in HlsSlots,
             NEW is_first \in BOOLEAN, Get(c, chan, i, is_first)
      PROVE  AllInv'
  <2>1. Types' /\ GetStep(c, i)
    BY <1>1, <1>4, GetOutcome
  <2> QED BY <2>1, GetInv, GetOwned, GetPartway, GetTold, GetMarked DEF AllInv
<1>5. ASSUME NEW c \in Conns, SendHeader(c) PROVE AllInv'
  BY <1>1, <1>5, SendHeaderOutcome, OwnAll
<1>6. ASSUME NEW c \in Conns, SendRest(c) PROVE AllInv'
  BY <1>1, <1>6, SendRestOutcome, OwnAll
<1>7. ASSUME NEW c \in Conns, NEW all \in BOOLEAN, SendData(c, all) PROVE AllInv'
  BY <1>1, <1>7, SendDataOutcome, OwnAll
<1>8. ASSUME NEW c \in Conns, Drop(c) PROVE AllInv'
  BY <1>1, <1>8, DropOutcome, OwnAll
<1>9. ASSUME NEW c \in Conns, ReceiveChunk(c) PROVE AllInv'
  <2>1. Types' /\ ChunkStep(c)
    BY <1>1, <1>9, ChunkOutcome
  <2> QED BY <2>1, ChunkInv, ChunkOwned, ChunkPartway, ChunkTold, ChunkMarked DEF AllInv
<1>10. ASSUME NEW c \in Conns, ReceiveEnd(c) \/ HangUp(c) PROVE AllInv'
  <2>1. Types' /\ EndStep(c)
    BY <1>1, <1>10, EndOutcome
  <2> QED BY <2>1, EndInv, EndOwned, EndPartway, EndTold, EndMarked DEF AllInv
<1>11. CASE UNCHANGED vars
  BY <1>11 DEF vars, AllInv, HlsInv, Types, Roles, RoleOf, Room, NoLostWakeup, Live, csize,
       Owned, Undisturbed, OneUploader, Filling, FillsIts, Holding, HoldsIts, Distinct,
       Partway, Steady, Sent, SentSoFar, Told, Following, FollowsIts, Marked, MarkOf, Uploading
<1>12. CASE Next
  BY <1>2, <1>3, <1>4, <1>5, <1>6, <1>7, <1>8, <1>9, <1>10, <1>12 DEF Next, Serve
<1> QED BY <1>11, <1>12

LEMMA HlsAll == Spec => []AllInv
BY InitAll, StepAll, PTL DEF Spec

LEMMA BeginsIs ==
  ASSUME NEW s \in Seq(Chunk), NEW u, Begins(s, u)
  PROVE  s = Upload(u, Len(s))
<1>1. s = [k \in 1 .. Len(s) |-> s[k]]
  BY SeqDef
<1> QED BY <1>1 DEF Begins, Upload

\* In every environment, and however uploads, switches and hang-ups interleave, a
\* player never sleeps over data it could be sent, nor on a completed slot.
THEOREM HlsNoLostWakeup == Spec => []NoLostWakeup
<1>1. AllInv => NoLostWakeup
  BY DEF AllInv, HlsInv
<1> QED BY <1>1, HlsAll, PTL

\* A slot is marked completed only when the upload that owns it has ended, and then
\* holds the whole of it, where no other upload and no switch meets it.
THEOREM HlsCompletedIsEnded == Spec => []CompletedIsEnded
<1>1. AllInv => CompletedIsEnded
  <2> SUFFICES ASSUME AllInv PROVE CompletedIsEnded
    OBVIOUS
  <2>1. TypeOK
    <3>1. MaxAccepts[env] \in Nat /\ MaxChunks[env] \in Nat
      BY HlsAssumption DEF AllInv, HlsInv, Types
    <3>2. ASSUME NEW i \in HlsSlots
          PROVE  /\ slot[i].flag \in 0 .. 2 /\ csize(slot[i]) <= slot[i].msize
                 /\ slot[i].msize % SegInc = 0 /\ slot[i].upload \in 0 .. uploads
      BY HlsAssumption DEF AllInv, HlsInv, Types, Slots, Room
    <3>3. ASSUME NEW c \in Conns
          PROVE  /\ ctx[c].state \in States \cup {"FREE"}
                 /\ ctx[c].hls_idx \in HlsSlots \cup {NULL}
                 /\ ctx[c].feed_ctx \in Conns \cup {NULL}
                 /\ ctx[c].hls_wpos \in 0 .. MaxChunks[env]
      <4>1. ctx[c] \in Contexts /\ RoleOf(c)
        BY DEF AllInv, HlsInv, Types, Roles
      <4> QED BY <3>1, <4>1 DEF Contexts, RoleOf
    <3> QED BY <3>1, <3>2, <3>3 DEF TypeOK, AllInv, HlsInv, Types
  <2>2. ASSUME env \subseteq {"reuse"}, NEW i \in HlsSlots, slot[i].flag = 2
        PROVE  /\ ended[slot[i].upload] >= 0
               /\ slot[i].data = Upload(slot[i].upload, ended[slot[i].upload])
    <3>1. Holding /\ "hangup" \notin env
      BY <2>2 DEF AllInv, Owned, Undisturbed
    <3>2. ended[slot[i].upload] = csize(slot[i]) /\ Begins(slot[i].data, slot[i].upload)
      BY <2>2, <3>1 DEF Holding, HoldsIts
    <3>3. slot[i].data \in Seq(Chunk)
      BY DEF AllInv, HlsInv, Types, Slots
    <3> QED BY <3>2, <3>3, BeginsIs, LenProperties DEF csize
  <2> QED BY <2>1, <2>2 DEF CompletedIsEnded
<1> QED BY <1>1, HlsAll, PTL

\* What a player has been handed is at all times the beginning of one upload, also
\* where uploads are cut short.
THEOREM HlsPlayerPrefix == Spec => []PlayerPrefix
<1>1. AllInv => PlayerPrefix
  <2> SUFFICES ASSUME AllInv, env \subseteq {"hangup"}, NEW c \in Live
               PROVE  \E u \in 0 .. uploads : got[c] = Upload(u, Len(got[c]))
    BY DEF PlayerPrefix, Steady
  <2>1. /\ c \in Conns /\ ctx[c] \in Contexts /\ ctx[c].state # "FREE" /\ SentSoFar(c)
        /\ got[c] \in Seq(Chunk) /\ uploads \in Nat
    BY HlsAssumption DEF Live, AllInv, HlsInv, Types, Partway, Steady, Sent
  <2>2. CASE ctx[c].state \in PlayStates
    <3> DEFINE u == slot[ctx[c].hls_idx].upload
    <3>1. u \in 0 .. uploads
      BY <2>1, <2>2 DEF AllInv, HlsInv, Types, Roles, RoleOf, Room, Slots
    <3>2. Begins(got[c], u)
      BY <2>1, <2>2 DEF SentSoFar
    <3> QED BY <2>1, <3>1, <3>2, BeginsIs
  <2>3. CASE ctx[c].state \in {"WAIT_REQUEST", "RECEIVE_DATA"}
    <3>1. got[c] = <<>>
      BY <2>1, <2>3 DEF SentSoFar
    <3>2. Begins(got[c], 0) /\ 0 \in 0 .. uploads
      BY <2>1, <3>1 DEF Begins
    <3> QED BY <2>1, <3>2, BeginsIs
  <2> QED BY <2>1, <2>2, <2>3, StateFacts DEF Contexts
<1> QED BY <1>1, HlsAll, PTL

\* Where nothing disturbs the slots, a response the server ends is the whole of an
\* upload that its peer has finished.
THEOREM HlsWholeUpload == Spec => WholeUpload
<1> DEFINE whole == \A c \in Conns : env = {} /\ SendData(c, TRUE) /\ ctx'[c].state = "FREE" =>
                      \E u \in 1 .. uploads : ended[u] >= 0 /\ got'[c] = Upload(u, ended[u])
<1>1. AllInv /\ [Next]_vars => [whole]_vars
  <2> SUFFICES ASSUME AllInv, NEW c \in Conns, env = {}, SendData(c, TRUE), ctx'[c].state = "FREE"
               PROVE  \E u \in 1 .. uploads : ended[u] >= 0 /\ got'[c] = Upload(u, ended[u])
    OBVIOUS
  <2> DEFINE i == ctx[c].hls_idx
             u == slot[i].upload
  <2>1. /\ Types /\ Roles /\ Room /\ Holding /\ SentSoFar(c) /\ FollowsIts(c)
        /\ "hangup" \notin env
    BY SteadyOwned DEF AllInv, HlsInv, Partway, Steady, Sent, Told, Following
  <2>2. ctx[c].state \in Sending /\ ctx[c].state \in PlayStates
    BY StateFacts DEF SendData
  <2>3. i \in HlsSlots /\ slot[i] \in Slots /\ ctx[c] \in Contexts /\ got[c] \in Seq(Chunk)
    BY <2>1, <2>2 DEF Roles, RoleOf, Types
  <2>4. /\ Len(got[c]) = ctx[c].hls_rpos /\ ctx[c].hls_rpos <= csize(slot[i])
        /\ Begins(got[c], u) /\ Begins(slot[i].data, u)
    BY <2>1, <2>2, <2>3 DEF SentSoFar, Holding, HoldsIts
  <2>5. csize(slot[i]) \in Nat /\ ctx[c].hls_rpos \in Nat /\ slot[i].data \in Seq(Chunk)
    BY <2>3, LenProperties DEF Slots, Contexts, csize
  <2>6. \/ csize(slot[i]) - ctx[c].hls_rpos <= 0 /\ completed(slot[i]) /\ got' = got
        \/ /\ csize(slot[i]) - ctx[c].hls_rpos > 0 /\ ctx[c].state = "SEND_DATA_TRAILER"
           /\ got' = [got EXCEPT ![c] = @ \o unsent(c)]
    <3> DEFINE left == csize(slot[i]) - ctx[c].hls_rpos
    <3>1. \/ left <= 0 /\ completed(slot[i]) /\ got' = got
          \/ left <= 0 /\ ctx' = [ctx EXCEPT ![c].state = "WAIT_FEED"]
          \/ /\ left > 0
             /\ got' = [got EXCEPT ![c] = @ \o unsent(c)]
             /\ \/ ctx[c].state = "SEND_DATA_TRAILER"
                \/ ctx' = [ctx EXCEPT ![c].hls_rpos = csize(slot[i]), ![c].buffer = FALSE]
      BY DEF SendData
    <3>2. ctx' # [ctx EXCEPT ![c].state = "WAIT_FEED"]
      BY <2>1, <2>3 DEF Types, Contexts
    <3>3. ctx' # [ctx EXCEPT ![c].hls_rpos = csize(slot[i]), ![c].buffer = FALSE]
      <4>1. ctx[c].state # "FREE"
        BY <2>2 DEF Sending
      <4> QED BY <2>1, <2>3, <4>1 DEF Types, Contexts
    <3> QED BY <3>1, <3>2, <3>3
  <2>7. slot[i].flag = 2
    BY <2>1, <2>2, <2>6 DEF completed, FollowsIts
  <2>8. ended[u] = csize(slot[i]) /\ u \in 1 .. uploads
    BY <2>1, <2>3, <2>7, HlsAssumption DEF Holding, HoldsIts, Room, Slots, Types
  <2>9. got'[c] \in Seq(Chunk) /\ Len(got'[c]) = csize(slot[i]) /\ Begins(got'[c], u)
    <3>1. CASE csize(slot[i]) - ctx[c].hls_rpos <= 0 /\ got' = got
      BY <2>3, <2>4, <2>5, <3>1
    <3>2. CASE got' = [got EXCEPT ![c] = @ \o unsent(c)]
      <4>1. unsent(c) = SubSeq(slot[i].data, Len(got[c]) + 1, Len(slot[i].data))
        BY <2>4 DEF unsent, csize
      <4>2. got'[c] = got[c] \o SubSeq(slot[i].data, Len(got[c]) + 1, Len(slot[i].data))
        BY <2>1, <3>2, <4>1 DEF Types
      <4>3. Len(got[c]) <= Len(slot[i].data)
        BY <2>4 DEF csize
      <4> HIDE DEF u
      <4>4. LET t == got[c] \o SubSeq(slot[i].data, Len(got[c]) + 1, Len(slot[i].data))
            IN Len(t) = Len(slot[i].data) /\ Begins(t, u)
        BY <2>3, <2>4, <2>5, <4>3, SentBegins
      <4>5. got'[c] \in Seq(Chunk)
        BY <2>3, <2>5, <4>2, RestTyped, ConcatProperties, LenProperties
      <4> QED BY <4>2, <4>4, <4>5 DEF csize
    <3> QED BY <2>6, <3>1, <3>2
  <2> HIDE DEF u
  <2>10. got'[c] = Upload(u, ended[u]) /\ ended[u] >= 0
    BY <2>5, <2>8, <2>9, BeginsIs
  <2> QED BY <2>8, <2>10
<1>2. WholeUpload <=> [][whole]_vars
  BY DEF WholeUpload
<1> QED BY <1>1, <1>2, HlsAll, PTL DEF Spec

-----------------------------------------------------------------------------
(* HlsServer implements HlsRelay *)

\* The place a connection has asked for, as the abstract specification sees it, and what it
\* sees of the slots.
PlaceOf(c) == IF ctx[c].state \in PlayStates THEN ctx[c].hls_idx ELSE NULL
SamePlaces(P) == \A d \in P : PlaceOf(d)' = PlaceOf(d)
SameSlot(i) == /\ slot'[i].upload = slot[i].upload /\ csize(slot'[i]) = csize(slot[i])
               /\ slot'[i].flag = 2 <=> slot[i].flag = 2
SameSlots(P) == \A i \in P : SameSlot(i)

LEMMA RelayStutters ==
  ASSUME SamePlaces(Conns), SameSlots(HlsSlots), UNCHANGED <<uploads, got>>
  PROVE  UNCHANGED Relay!rvars
<1>1. /\ [i \in HlsSlots |-> slot[i].upload]' = [i \in HlsSlots |-> slot[i].upload]
      /\ [i \in HlsSlots |-> csize(slot[i])]' = [i \in HlsSlots |-> csize(slot[i])]
      /\ [i \in HlsSlots |-> slot[i].flag = 2]' = [i \in HlsSlots |-> slot[i].flag = 2]
  BY DEF SameSlots, SameSlot
<1>2. [c \in Conns |-> PlaceOf(c)]' = [c \in Conns |-> PlaceOf(c)]
  BY DEF SamePlaces
<1> QED BY <1>1, <1>2 DEF Relay!rvars, PlaceOf, PlayStates

\* A connection leaves, or ends without having asked.
LEMMA RelayLeaves ==
  ASSUME NEW c \in Conns, ctx'[c] = Freed, SamePlaces(Conns \ {c}), SameSlots(HlsSlots),
         UNCHANGED <<uploads, got>>
  PROVE  Relay!Next
<1>1. /\ [i \in HlsSlots |-> slot[i].upload]' = [i \in HlsSlots |-> slot[i].upload]
      /\ [i \in HlsSlots |-> csize(slot[i])]' = [i \in HlsSlots |-> csize(slot[i])]
      /\ [i \in HlsSlots |-> slot[i].flag = 2]' = [i \in HlsSlots |-> slot[i].flag = 2]
  BY DEF SameSlots, SameSlot
<1>2. PlaceOf(c)' = NULL
  BY StateFacts DEF PlaceOf, Freed
<1>3. [d \in Conns |-> PlaceOf(d)]' = [[d \in Conns |-> PlaceOf(d)] EXCEPT ![c] = NULL]
  BY <1>2 DEF SamePlaces
<1>4. Relay!Leave(c)
  BY <1>1, <1>3 DEF Relay!Leave, PlaceOf, PlayStates
<1> QED BY <1>4 DEF Relay!Next

LEMMA AcceptRelays ==
  ASSUME Types, Accept
  PROVE  Relay!Next
<1>1. PICK c \in Conns \ Live :
        /\ ctx' = [ctx EXCEPT ![c].state = "WAIT_REQUEST"]
        /\ got' = [got EXCEPT ![c] = <<>>]
        /\ UNCHANGED <<slot, uploads>>
  BY DEF Accept
<1>2. c \in Conns /\ ctx[c] \in Contexts /\ ctx[c].state = "FREE"
  BY <1>1 DEF Live, Types
<1>3. ctx'[c].state = "WAIT_REQUEST" /\ \A d \in Conns \ {c} : ctx'[d] = ctx[d]
  BY <1>1, <1>2 DEF Types, Contexts
<1>4. PlaceOf(c) = NULL /\ PlaceOf(c)' = NULL /\ \A d \in Conns \ {c} : PlaceOf(d)' = PlaceOf(d)
  BY <1>2, <1>3, StateFacts DEF PlaceOf
<1>5. [d \in Conns |-> PlaceOf(d)]' = [d \in Conns |-> PlaceOf(d)]
  BY <1>4
<1>6. /\ [i \in HlsSlots |-> slot[i].upload]' = [i \in HlsSlots |-> slot[i].upload]
      /\ [i \in HlsSlots |-> csize(slot[i])]' = [i \in HlsSlots |-> csize(slot[i])]
      /\ [i \in HlsSlots |-> slot[i].flag = 2]' = [i \in HlsSlots |-> slot[i].flag = 2]
  BY <1>1
<1>7. Relay!Arrive(c)
  BY <1>1, <1>2, <1>4, <1>5, <1>6 DEF Relay!Arrive, PlaceOf, PlayStates
<1> QED BY <1>2, <1>7 DEF Relay!Next

\* The slots as the abstract specification sees them when a step touches one.
LEMMA OneSlot ==
  ASSUME NEW i \in HlsSlots, SameSlots(HlsSlots \ {i})
  PROVE  /\ [j \in HlsSlots |-> slot[j].upload]'
              = [[j \in HlsSlots |-> slot[j].upload] EXCEPT ![i] = slot'[i].upload]
         /\ [j \in HlsSlots |-> csize(slot[j])]'
              = [[j \in HlsSlots |-> csize(slot[j])] EXCEPT ![i] = csize(slot'[i])]
         /\ [j \in HlsSlots |-> slot[j].flag = 2]'
              = [[j \in HlsSlots |-> slot[j].flag = 2] EXCEPT ![i] = (slot'[i].flag = 2)]
<1>1. \A j \in HlsSlots \ {i} : SameSlot(j)
  BY DEF SameSlots
<1>2. [j \in HlsSlots |-> slot[j].upload]'
        = [[j \in HlsSlots |-> slot[j].upload] EXCEPT ![i] = slot'[i].upload]
  BY <1>1 DEF SameSlot
<1>3. [j \in HlsSlots |-> csize(slot[j])]'
        = [[j \in HlsSlots |-> csize(slot[j])] EXCEPT ![i] = csize(slot'[i])]
  BY <1>1 DEF SameSlot
<1>4. [j \in HlsSlots |-> slot[j].flag = 2]'
        = [[j \in HlsSlots |-> slot[j].flag = 2] EXCEPT ![i] = (slot'[i].flag = 2)]
  BY <1>1, Zenon DEF SameSlot
<1> QED BY <1>2, <1>3, <1>4

\* A request that posts begins an upload; one that gets asks for a place.
LEMMA PostRelays ==
  ASSUME AllInv, Steady, NEW c \in Conns, NEW i \in HlsSlots, PostStep(c, i)
  PROVE  Relay!Next
<1>1. /\ got' = got /\ uploads' = uploads + 1
      /\ Uploading(i) = {} /\ (Playing(i) = {} \/ slot[i].flag = 0)
      /\ ctx[c].state = "WAIT_REQUEST" /\ ctx'[c].state = "RECEIVE_DATA"
      /\ \A d \in Conns \ {c} : ctx'[d] = ctx[d]
      /\ slot'[i].upload = uploads + 1 /\ slot'[i].data = <<>> /\ slot'[i].flag = 1
      /\ \A j \in HlsSlots \ {i} : slot'[j] = slot[j]
  BY DEF PostStep, Steady, OnlyAt, OnlySlot
<1>2. /\ slot[i] \in Slots /\ MarkOf(i)
      /\ \A d \in Conns : ctx[d].state \in PlayStates => ~ctx[d].post
  BY DEF AllInv, HlsInv, Types, Roles, RoleOf, Marked, Undisturbed, Steady
<1>3. [d \in Conns |-> PlaceOf(d)]' = [d \in Conns |-> PlaceOf(d)]
  BY <1>1, StateFacts DEF PlaceOf
<1>4. slot[i].upload = 0 \/ (slot[i].flag = 2 /\ \A d \in Conns : PlaceOf(d) # i)
  <2>1. CASE slot[i].flag = 0
    BY <1>2, <2>1 DEF MarkOf
  <2>2. CASE slot[i].flag # 0
    <3>1. slot[i].flag = 2 /\ Playing(i) = {}
      BY <1>1, <1>2, <2>2 DEF MarkOf, Slots
    <3>2. ASSUME NEW d \in Conns PROVE PlaceOf(d) # i
      <4>1. NULL # i
        BY HlsAssumption DEF HlsSlots
      <4> QED BY <1>2, <3>1, <4>1, StateFacts DEF PlaceOf, Playing, Live, Blank
    <3> QED BY <3>1, <3>2
  <2> QED BY <2>1, <2>2
<1>5. /\ [j \in HlsSlots |-> slot[j].upload]'
           = [[j \in HlsSlots |-> slot[j].upload] EXCEPT ![i] = uploads + 1]
      /\ [j \in HlsSlots |-> csize(slot[j])]' = [[j \in HlsSlots |-> csize(slot[j])] EXCEPT ![i] = 0]
      /\ [j \in HlsSlots |-> slot[j].flag = 2]'
           = [[j \in HlsSlots |-> slot[j].flag = 2] EXCEPT ![i] = FALSE]
  <2>1. SameSlots(HlsSlots \ {i})
    BY <1>1 DEF SameSlots, SameSlot
  <2>2. csize(slot'[i]) = 0 /\ (slot'[i].flag = 2) = FALSE
    BY <1>1 DEF csize
  <2> QED BY <1>1, <2>1, <2>2, OneSlot
<1>6. Relay!Begin(i)
  BY <1>1, <1>3, <1>4, <1>5 DEF Relay!Begin, PlaceOf, PlayStates
<1> QED BY <1>6 DEF Relay!Next

LEMMA GetRelays ==
  ASSUME AllInv, Steady, NEW c \in Conns, NEW i \in HlsSlots, GetStep(c, i)
  PROVE  Relay!Next
<1>1. /\ UNCHANGED <<uploads, got>>
      /\ ctx[c].state = "WAIT_REQUEST" /\ ctx'[c].state = "SEND_HEADER" /\ ctx'[c].hls_idx = i
      /\ \A d \in Conns \ {c} : ctx'[d] = ctx[d]
  BY DEF GetStep, OnlyAt
<1>2. SameSlots(HlsSlots)
  <2> SUFFICES ASSUME NEW j \in HlsSlots PROVE SameSlot(j)
    BY DEF SameSlots
  <2>1. /\ slot'[j].upload = slot[j].upload
        /\ \/ slot'[j].data = slot[j].data /\ slot'[j].flag = slot[j].flag
           \/ slot'[j].data = <<>> /\ slot'[j].flag = 0 /\ slot[j].flag = 0
    BY DEF GetStep, Steady
  <2>2. slot[j].flag = 0 => slot[j].data = <<>>
    BY SteadyOwned DEF AllInv, Holding, HoldsIts
  <2> QED BY <2>1, <2>2 DEF SameSlot, csize
<1>3. /\ [j \in HlsSlots |-> slot[j].upload]' = [j \in HlsSlots |-> slot[j].upload]
      /\ [j \in HlsSlots |-> csize(slot[j])]' = [j \in HlsSlots |-> csize(slot[j])]
      /\ [j \in HlsSlots |-> slot[j].flag = 2]' = [j \in HlsSlots |-> slot[j].flag = 2]
  BY <1>2 DEF SameSlots, SameSlot
<1>4. got[c] = <<>>
  BY <1>1 DEF AllInv, Partway, Sent, SentSoFar
<1>5. PlaceOf(c) = NULL /\ PlaceOf(c)' = i /\ \A d \in Conns \ {c} : PlaceOf(d)' = PlaceOf(d)
  BY <1>1, StateFacts DEF PlaceOf
<1>6. [d \in Conns |-> PlaceOf(d)]' = [[d \in Conns |-> PlaceOf(d)] EXCEPT ![c] = i]
  BY <1>5
<1>7. Relay!Ask(c, i)
  BY <1>1, <1>3, <1>4, <1>5, <1>6 DEF Relay!Ask, PlaceOf, PlayStates
<1> QED BY <1>7 DEF Relay!Next

\* A player that an uploader wakes, or passes, stays at the place it asked for.
LEMMA WokenPlaces ==
  ASSUME NEW c \in Conns, NEW to \in Sending, Woken(ctx, ctx', c, to)
  PROVE  SamePlaces(Conns \ {c})
<1> SUFFICES ASSUME NEW d \in Conns \ {c} PROVE PlaceOf(d)' = PlaceOf(d)
  BY DEF SamePlaces
<1>1. WokenAt(ctx, ctx', c, to, d)
  BY DEF Woken
<1> QED BY <1>1, StateFacts DEF WokenAt, PlaceOf

LEMMA ChunkRelays ==
  ASSUME AllInv, Steady, NEW c \in Conns, ChunkStep(c)
  PROVE  Relay!Next
<1>0. PICK i : i = ctx[c].hls_idx
  OBVIOUS
<1>1. /\ i \in HlsSlots /\ \A j \in HlsSlots \ {i} : slot'[j] = slot[j]
      /\ slot'[i].flag = slot[i].flag /\ slot'[i].upload = slot[i].upload
      /\ csize(slot'[i]) = csize(slot[i]) + 1
  BY <1>0, ChunkSlots DEF AllInv
<1>2. ctx[c].state = "RECEIVE_DATA" /\ slot[i].flag = 1 /\ slot[i].upload # 0
  BY <1>0, <1>1, ChunkRest, SteadyOwned DEF AllInv, Filling, FillsIts, Holding, HoldsIts
<1>3. [d \in Conns |-> PlaceOf(d)]' = [d \in Conns |-> PlaceOf(d)]
  <2>1. PlaceOf(c)' = PlaceOf(c)
    BY ChunkRest, StateFacts DEF PlaceOf
  <2>2. SamePlaces(Conns \ {c})
    BY WokenPlaces, StateFacts DEF ChunkStep
  <2> QED BY <2>1, <2>2 DEF SamePlaces
<1>4. SameSlots(HlsSlots \ {i})
  BY <1>1 DEF SameSlots, SameSlot
<1>5. /\ [j \in HlsSlots |-> slot[j].upload]' = [j \in HlsSlots |-> slot[j].upload]
      /\ [j \in HlsSlots |-> slot[j].flag = 2]' = [j \in HlsSlots |-> slot[j].flag = 2]
  <2>1. \A j \in HlsSlots : slot'[j].upload = slot[j].upload /\ slot'[j].flag = slot[j].flag
    BY <1>1
  <2> QED BY <2>1
<1>6. [j \in HlsSlots |-> csize(slot[j])]' = [[j \in HlsSlots |-> csize(slot[j])] EXCEPT ![i] = @ + 1]
  BY <1>1, <1>4, OneSlot
<1>7. UNCHANGED <<uploads, got>>
  BY ChunkRest
<1>8. Relay!Running(i)
  <2>1. [j \in HlsSlots |-> slot[j].upload][i] # 0
    BY <1>1, <1>2
  <2>2. [j \in HlsSlots |-> slot[j].flag = 2][i] = (slot[i].flag = 2)
    BY <1>1, <1>2, Zenon
  <2>3. slot[i].flag # 2
    BY <1>2
  <2> QED BY <2>1, <2>2, <2>3 DEF Relay!Running
<1>9. Relay!Extend(i)
  BY <1>3, <1>5, <1>6, <1>7, <1>8 DEF Relay!Extend, PlaceOf, PlayStates
<1> QED BY <1>1, <1>9 DEF Relay!Next

LEMMA EndRelays ==
  ASSUME AllInv, Steady, NEW c \in Conns, EndStep(c)
  PROVE  Relay!Next
<1>0. PICK i : i = ctx[c].hls_idx
  OBVIOUS
<1>1. /\ UNCHANGED <<uploads, got>>
      /\ \A j \in HlsSlots \ {i} : slot'[j] = slot[j]
      /\ slot'[i].data = slot[i].data /\ slot'[i].upload = slot[i].upload /\ slot'[i].flag = 2
      /\ ctx[c].state = "RECEIVE_DATA" /\ ctx'[c] = Freed
  BY <1>0 DEF EndStep, OnlySlot
<1>2. i \in HlsSlots /\ slot[i].flag = 1 /\ slot[i].upload # 0
  <2>1. i \in HlsSlots
    BY <1>0, <1>1 DEF AllInv, HlsInv, Roles, RoleOf
  <2> QED BY <1>0, <1>1, <2>1, SteadyOwned DEF AllInv, Filling, FillsIts, Holding, HoldsIts
<1>3. [d \in Conns |-> PlaceOf(d)]' = [d \in Conns |-> PlaceOf(d)]
  <2>1. PlaceOf(c)' = PlaceOf(c)
    BY <1>1, StateFacts DEF PlaceOf, Freed
  <2>2. SamePlaces(Conns \ {c})
    BY WokenPlaces, StateFacts DEF EndStep
  <2> QED BY <2>1, <2>2 DEF SamePlaces
<1>4. SameSlots(HlsSlots \ {i})
  BY <1>1 DEF SameSlots, SameSlot
<1>5. /\ [j \in HlsSlots |-> slot[j].upload]' = [j \in HlsSlots |-> slot[j].upload]
      /\ [j \in HlsSlots |-> csize(slot[j])]' = [j \in HlsSlots |-> csize(slot[j])]
  <2>1. \A j \in HlsSlots : slot'[j].upload = slot[j].upload /\ slot'[j].data = slot[j].data
    BY <1>1
  <2> QED BY <2>1 DEF csize
<1>6. [j \in HlsSlots |-> slot[j].flag = 2]' = [[j \in HlsSlots |-> slot[j].flag = 2] EXCEPT ![i] = TRUE]
  <2>1. (slot'[i].flag = 2) = TRUE
    BY <1>1
  <2> QED BY <1>2, <1>4, <2>1, OneSlot
<1>7. Relay!Running(i)
  <2>1. [j \in HlsSlots |-> slot[j].upload][i] # 0
    BY <1>2
  <2>2. [j \in HlsSlots |-> slot[j].flag = 2][i] = (slot[i].flag = 2)
    BY <1>2, Zenon
  <2>3. slot[i].flag # 2
    BY <1>2
  <2> QED BY <2>1, <2>2, <2>3 DEF Relay!Running
<1>8. Relay!End(i)
  BY <1>1, <1>3, <1>5, <1>6, <1>7 DEF Relay!End, PlaceOf, PlayStates
<1> QED BY <1>2, <1>8 DEF Relay!Next

\* What a player is handed next is the rest of what its slot holds of the upload.
LEMMA DataRelays ==
  ASSUME AllInv, Steady, NEW c \in Conns, NEW all \in BOOLEAN, SendData(c, all)
  PROVE  Relay!Next \/ UNCHANGED Relay!rvars
<1>0. PICK i : i = ctx[c].hls_idx
  OBVIOUS
<1>1. /\ Types /\ RoleOf(c) /\ SentSoFar(c) /\ FollowsIts(c) /\ Holding
      /\ ctx[c] \in Contexts /\ got[c] \in Seq(Chunk) /\ got \in [Conns -> Seq(Chunk)]
      /\ ctx \in [Conns -> Contexts]
  BY SteadyOwned DEF AllInv, HlsInv, Types, Roles, Partway, Sent, Told, Following
<1>2. ctx[c].state \in Sending /\ ctx[c].state \in PlayStates /\ UNCHANGED <<slot, uploads>>
  BY StateFacts DEF SendData
<1>3. i \in HlsSlots /\ slot[i] \in Slots /\ slot[i].data \in Seq(Chunk)
  BY <1>0, <1>1, <1>2 DEF RoleOf, Types, Slots
<1>4. /\ csize(slot[i]) \in Nat /\ ctx[c].hls_rpos \in Nat /\ Len(got[c]) = ctx[c].hls_rpos
      /\ Begins(got[c], slot[i].upload) /\ Begins(slot[i].data, slot[i].upload)
  BY <1>0, <1>1, <1>2, <1>3, LenProperties DEF SentSoFar, Holding, HoldsIts, Contexts, csize
<1>5. SameSlots(HlsSlots)
  BY <1>2 DEF SameSlots, SameSlot
<1>6. /\ [j \in HlsSlots |-> slot[j].upload]' = [j \in HlsSlots |-> slot[j].upload]
      /\ [j \in HlsSlots |-> csize(slot[j])]' = [j \in HlsSlots |-> csize(slot[j])]
      /\ [j \in HlsSlots |-> slot[j].flag = 2]' = [j \in HlsSlots |-> slot[j].flag = 2]
  BY <1>2
<1>7. CASE UNCHANGED got /\ Close(ctx, c)
  <2>1. ctx'[c] = Freed /\ \A d \in Conns \ {c} : ctx'[d] = ctx[d]
    BY <1>1, <1>7, CloseOutcome
  <2>2. SamePlaces(Conns \ {c})
    BY <2>1 DEF SamePlaces, PlaceOf
  <2> QED BY <1>2, <1>5, <1>7, <2>1, <2>2, RelayLeaves
<1>8. CASE UNCHANGED got /\ ctx' = [ctx EXCEPT ![c].state = "WAIT_FEED"]
  <2>1. /\ ctx'[c].state = "WAIT_FEED" /\ ctx'[c].hls_idx = ctx[c].hls_idx
        /\ \A d \in Conns \ {c} : ctx'[d] = ctx[d]
    BY <1>1, <1>8 DEF Contexts
  <2>2. SamePlaces(Conns)
    BY <1>2, <2>1, StateFacts DEF SamePlaces, PlaceOf
  <2> QED BY <1>2, <1>5, <1>8, <2>2, RelayStutters
<1>9. ASSUME csize(slot[i]) - ctx[c].hls_rpos > 0,
             got' = [got EXCEPT ![c] = @ \o unsent(c)],
             NEW ends \in BOOLEAN, ends = (ctx[c].state = "SEND_DATA_TRAILER"),
             IF ends THEN Close(ctx, c)
             ELSE ctx' = [ctx EXCEPT ![c].hls_rpos = csize(slot[i]), ![c].buffer = ~all]
      PROVE  Relay!Next
  <2> DEFINE n == csize(slot[i])
             u == slot[i].upload
  <2>1. n \in 1 .. csize(slot[i]) /\ n \in Len(got[c]) + 1 .. csize(slot[i])
    BY <1>4, <1>9
  <2>2. got[c] = Upload(u, Len(got[c]))
    BY <1>1, <1>4, BeginsIs
  <2>3. got' = [got EXCEPT ![c] = Upload(u, n)]
    <3> DEFINE t == got[c] \o SubSeq(slot[i].data, Len(got[c]) + 1, Len(slot[i].data))
    <3>1. got' = [got EXCEPT ![c] = t]
      BY <1>0, <1>1, <1>4, <1>9 DEF unsent, csize
    <3>2. Len(got[c]) <= Len(slot[i].data)
      BY <1>4, <1>9 DEF csize
    <3> HIDE DEF u
    <3>3. Len(t) = Len(slot[i].data) /\ Begins(t, u)
      BY <1>1, <1>3, <1>4, <3>2, SentBegins DEF u
    <3>4. t \in Seq(Chunk)
      BY <1>1, <1>3, <1>4, RestTyped, ConcatProperties, LenProperties
    <3> HIDE DEF t
    <3>5. t = Upload(u, n)
      BY <3>3, <3>4, BeginsIs DEF csize
    <3> QED BY <3>1, <3>5
  <2>4. ends => slot[i].flag = 2
    BY <1>0, <1>1, <1>2, <1>9 DEF FollowsIts
  <2>5. PlaceOf(c) = i
    BY <1>0, <1>2 DEF PlaceOf
  <2>6. /\ PlaceOf(c)' = IF ends THEN NULL ELSE i
        /\ \A d \in Conns \ {c} : PlaceOf(d)' = PlaceOf(d)
    <3>1. CASE ends
      <4>1. ctx'[c] = Freed /\ \A d \in Conns \ {c} : ctx'[d] = ctx[d]
        BY <1>1, <1>9, <3>1, CloseOutcome
      <4> QED BY <3>1, <4>1, StateFacts DEF PlaceOf, Freed
    <3>2. CASE ~ends
      <4>1. /\ ctx'[c].state = ctx[c].state /\ ctx'[c].hls_idx = ctx[c].hls_idx
            /\ \A d \in Conns \ {c} : ctx'[d] = ctx[d]
        BY <1>1, <1>9, <3>2 DEF Contexts
      <4> QED BY <1>0, <1>2, <3>2, <4>1 DEF PlaceOf
    <3> QED BY <3>1, <3>2
  <2>7. [d \in Conns |-> PlaceOf(d)]'
          = [[d \in Conns |-> PlaceOf(d)] EXCEPT ![c] = IF ends THEN NULL ELSE i]
    BY <2>6
  <2>8. Relay!Hand(c, i, n, ends)
    BY <1>2, <1>3, <1>6, <2>1, <2>2, <2>3, <2>4, <2>5, <2>7
       DEF Relay!Hand, Relay!Part, Upload, PlaceOf, PlayStates
  <2> QED BY <1>3, <1>9, <2>1, <2>8 DEF Relay!Next
<1> QED BY <1>0, <1>7, <1>8, <1>9 DEF SendData

LEMMA RelayRefines ==
  ASSUME AllInv, Steady, [Next]_vars
  PROVE  [Relay!Next]_(Relay!rvars)
<1>1. Types /\ Roles /\ Room
  BY DEF AllInv, HlsInv
<1>2. CASE Accept
  BY <1>1, <1>2, AcceptRelays
<1>3. ASSUME NEW c \in Conns, NEW chan \in Channels, NEW i \in HlsSlots, Post(c, chan, i)
      PROVE  Relay!Next
  BY <1>1, <1>3, PostOutcome, PostRelays
<1>4. ASSUME NEW c \in Conns, NEW chan \in Channels, NEW i \in HlsSlots,
             NEW is_first \in BOOLEAN, Get(c, chan, i, is_first)
      PROVE  Relay!Next
  BY <1>1, <1>4, GetOutcome, GetRelays
<1>5. ASSUME NEW c \in Conns, SendHeader(c) \/ SendRest(c) PROVE UNCHANGED Relay!rvars
  <2>1. /\ ctx[c].state \in PlayStates /\ ctx'[c].state \in PlayStates
        /\ ctx'[c].hls_idx = ctx[c].hls_idx
        /\ \A d \in Conns \ {c} : ctx'[d] = ctx[d]
        /\ UNCHANGED <<slot, uploads, got>>
    BY <1>1, <1>5, StateFacts DEF SendHeader, SendRest, Types, Contexts, Sending, PlayStates
  <2>2. SamePlaces(Conns) /\ SameSlots(HlsSlots)
    BY <2>1 DEF SamePlaces, PlaceOf, SameSlots, SameSlot
  <2> QED BY <2>1, <2>2, RelayStutters
<1>6. ASSUME NEW c \in Conns, Drop(c) PROVE Relay!Next
  <2>1. ctx'[c] = Freed /\ \A d \in Conns \ {c} : ctx'[d] = ctx[d]
    BY <1>1, <1>6, CloseOutcome DEF Drop
  <2>2. SamePlaces(Conns \ {c}) /\ SameSlots(HlsSlots) /\ UNCHANGED <<uploads, got>>
    BY <1>6, <2>1 DEF Drop, SamePlaces, PlaceOf, SameSlots, SameSlot
  <2> QED BY <2>1, <2>2, RelayLeaves
<1>7. ASSUME NEW c \in Conns, ReceiveChunk(c) PROVE Relay!Next
  BY <1>1, <1>7, ChunkOutcome, ChunkRelays
<1>8. ASSUME NEW c \in Conns, ReceiveEnd(c) \/ HangUp(c) PROVE Relay!Next
  BY <1>1, <1>8, EndOutcome, EndRelays
<1>9. CASE UNCHANGED vars
  <2>1. SamePlaces(Conns) /\ SameSlots(HlsSlots) /\ UNCHANGED <<uploads, got>>
    BY <1>9 DEF vars, SamePlaces, PlaceOf, SameSlots, SameSlot
  <2> QED BY <2>1, RelayStutters
<1>10. CASE Next
  BY <1>2, <1>3, <1>4, <1>5, <1>6, <1>7, <1>8, <1>10, DataRelays DEF Next, Serve
<1> QED BY <1>9, <1>10

LEMMA EnvStays == [Next]_vars => env' = env
<1> SUFFICES ASSUME [Next]_vars PROVE env' = env
  OBVIOUS
<1>1. CASE Accept
  BY <1>1 DEF Accept
<1>2. ASSUME NEW c \in Conns, NEW chan \in Channels, NEW i \in HlsSlots, Post(c, chan, i)
      PROVE  env' = env
  BY <1>2 DEF Post
<1>3. ASSUME NEW c \in Conns, NEW chan \in Channels, NEW i \in HlsSlots,
             NEW is_first \in BOOLEAN, Get(c, chan, i, is_first)
      PROVE  env' = env
  BY <1>3 DEF Get
<1>4. ASSUME NEW c \in Conns, SendHeader(c) \/ SendRest(c) PROVE env' = env
  BY <1>4 DEF SendHeader, SendRest
<1>5. ASSUME NEW c \in Conns, NEW all \in BOOLEAN, SendData(c, all) PROVE env' = env
  BY <1>5 DEF SendData
<1>6. ASSUME NEW c \in Conns, Drop(c) PROVE env' = env
  BY <1>6 DEF Drop
<1>7. ASSUME NEW c \in Conns, ReceiveChunk(c) PROVE env' = env
  BY <1>7 DEF ReceiveChunk
<1>8. ASSUME NEW c \in Conns, ReceiveEnd(c) \/ HangUp(c) PROVE env' = env
  BY <1>8 DEF ReceiveEnd, HangUp, EndUpload
<1>9. CASE UNCHANGED vars
  BY <1>9 DEF vars
<1> QED BY <1>1, <1>2, <1>3, <1>4, <1>5, <1>6, <1>7, <1>8, <1>9 DEF Next, Serve

\* Where slots are neither posted nor switched while they are in use, what players are handed
\* of the uploads is what HlsRelay promises, whatever steps it takes, also when uploads are
\* cut short.
THEOREM HlsImplementsRelay ==
  Spec => ImplementsRelay /\ (Steady => Relay!Spec)
<1>1. Init => Relay!Init
  <2> SUFFICES ASSUME Init PROVE Relay!Init
    OBVIOUS
  <2>1. /\ \A c \in Conns : PlaceOf(c) = NULL /\ got[c] = <<>>
        /\ \A i \in HlsSlots : slot[i].upload = 0 /\ csize(slot[i]) = 0 /\ ~(slot[i].flag = 2)
    BY StateFacts DEF Init, PlaceOf, Freed, csize
  <2>2. /\ [i \in HlsSlots |-> slot[i].upload] = [i \in HlsSlots |-> 0]
        /\ [i \in HlsSlots |-> csize(slot[i])] = [i \in HlsSlots |-> 0]
    BY <2>1
  <2>3. [i \in HlsSlots |-> slot[i].flag = 2] = [i \in HlsSlots |-> FALSE]
    BY <2>1, Zenon
  <2>4. [c \in Conns |-> PlaceOf(c)] = [c \in Conns |-> NULL]
    BY <2>1
  <2>5. uploads = 0 /\ got = [c \in Conns |-> <<>>]
    BY DEF Init
  <2> QED BY <2>2, <2>3, <2>4, <2>5 DEF Relay!Init, PlaceOf, PlayStates
<1>2. AllInv /\ [Next]_vars => [Steady => [Relay!Next]_(Relay!rvars)]_vars
  BY RelayRefines
<1>3. Steady /\ [Next]_vars => Steady'
  BY EnvStays DEF Steady
<1>4. Spec => ImplementsRelay
  BY <1>1, <1>2, HlsAll, PTL DEF Spec, ImplementsRelay
<1>5. AllInv /\ Steady /\ [Next]_vars => [Relay!Next]_(Relay!rvars)
  BY RelayRefines
<1>6. Spec => (Steady => Relay!Spec)
  BY <1>1, <1>3, <1>5, HlsAll, PTL DEF Spec, Relay!Spec
<1> QED BY <1>4, <1>6
=============================================================================
