---------------------------- MODULE PostedProofs ----------------------------
(***************************************************************************)
(* What becomes of a posted packet: the ring that keeps it for the players *)
(* (SffRing), and before that the bytes it arrives in (PostBody).          *)
(*                                                                         *)
(* The ring, for every ring size N >= 2, every set of players and every    *)
(* number of packets.  RingInv is inductive: RingShape says what each slot *)
(* holds in terms of the two counters, which turns the modular index       *)
(* arithmetic of sff_write and sff_read into linear facts.                 *)
(*                                                                         *)
(* The body, for every base, size field, buffer size, limit and set of     *)
(* payloads.  PostInv is inductive: the bytes not yet read are those of    *)
(* the bodies posted, from one position on (WireInv), and that position    *)
(* agrees with what the reader is about to read and with what it has       *)
(* already taken or stored (UploadInv, FeedInv).                           *)
(***************************************************************************)
EXTENDS SffRing, PostBody, SequenceTheorems, FiniteSetTheorems, WellFoundedInduction, TLAPS

-----------------------------------------------------------------------------
(* The ring *)

\* The index arithmetic of sff_write and sff_read wraps at the last slot.
LEMMA NextSlotValue ==
  ASSUME NEW i \in Slots
  PROVE  /\ NextSlot(i) = IF i = N - 1 THEN 0 ELSE i + 1
         /\ NextSlot(i) \in Slots
<1>1. NextSlot(i) = IF i = N - 1 THEN 0 ELSE i + 1
  <2>1. CASE i = N - 1
    BY <2>1, RingAssumption DEF NextSlot, Slots
  <2>2. CASE i # N - 1
    BY <2>2, RingAssumption DEF NextSlot, Slots
  <2> QED BY <2>1, <2>2
<1> QED BY <1>1, RingAssumption DEF Slots

\* What sff_write changes: one slot, and the write index.
LEMMA WriteDataFields ==
  ASSUME TypeOK, NEW p
  PROVE  /\ WriteData(ring, p).pkts = [ring.pkts EXCEPT ![ring.sff_w] = p]
         /\ WriteData(ring, p).sff_w = NextSlot(ring.sff_w)
         /\ WriteData(ring, p).header = ring.header
         /\ DOMAIN WriteData(ring, p) = {"pkts", "header", "sff_w"}
BY DEF TypeOK, WriteData

-----------------------------------------------------------------------------
LEMMA RingInvInit == RingInit => RingInv
<1> SUFFICES ASSUME RingInit PROVE RingInv
  OBVIOUS
<1> USE RingAssumption DEF RingInit, NewRing, Slots
<1>1. TypeOK
  BY DEF TypeOK
<1>2. RingShape
  BY DEF RingShape
<1>3. ReaderShape
  BY DEF ReaderShape, Pending
<1> QED BY <1>1, <1>2, <1>3 DEF RingInv

-----------------------------------------------------------------------------
(* One lemma per action. *)

LEMMA WritePreserves == RingInv /\ Write => RingInv'
<1> SUFFICES ASSUME TypeOK, RingShape, ReaderShape, Write PROVE RingInv'
  BY DEF RingInv
<1> DEFINE w == ring.sff_w
<1>1. /\ ring'.pkts = [ring.pkts EXCEPT ![w] = written]
      /\ ring'.sff_w = NextSlot(w)
      /\ ring'.header = NULL
      /\ ring' = [ring EXCEPT !.pkts[ring.sff_w] = written,
                              !.sff_w = NextSlot(ring.sff_w)]
  BY WriteDataFields DEF Write, TypeOK, WriteData
<1>2. /\ w \in Slots /\ written \in Nat
      /\ ring.pkts \in [Slots -> Nat \cup {NULL}]
      /\ ring'.sff_w = IF w = N - 1 THEN 0 ELSE w + 1
      /\ ring'.sff_w \in Slots
  BY <1>1, NextSlotValue DEF TypeOK
<1>3. /\ written' = written + 1
      /\ sff_r' = sff_r /\ last' = last /\ buffer' = buffer
  BY DEF Write
<1>4. TypeOK'
  <2>1. ring' \in [pkts : [Slots -> Nat \cup {NULL}], header : {NULL}, sff_w : Slots]
    BY <1>1, <1>2 DEF TypeOK
  <2> QED BY <2>1, <1>3 DEF TypeOK
<1>5. RingShape'
  <2>1. (written = ring.sff_w \/ written - ring.sff_w >= N)'
    BY <1>2, <1>3, RingAssumption DEF RingShape, Slots
  <2>2. ASSUME NEW i \in Slots
        PROVE  ring'.pkts[i] = IF i < ring'.sff_w THEN written' - ring'.sff_w + i
                               ELSE IF written' = ring'.sff_w THEN NULL
                               ELSE written' - ring'.sff_w + i - N
    <3> i \in 0 .. N - 1 /\ w \in 0 .. N - 1 /\ N \in Nat /\ N >= 2
      BY <1>2, RingAssumption DEF Slots
    <3>1. written = w \/ written - w >= N
      BY DEF RingShape
    <3>2. CASE i = w
      <4>1. ring'.pkts[i] = written
        BY <3>2, <1>1, <1>2
      <4>2. CASE w = N - 1
        <5>1. ~(i < ring'.sff_w) /\ written' # ring'.sff_w
          BY <4>2, <3>2, <1>2, <1>3
        <5>2. written' - ring'.sff_w + i - N = written
          BY <4>2, <3>2, <1>2, <1>3
        <5> QED BY <5>1, <5>2, <4>1
      <4>3. CASE w # N - 1
        BY <4>1, <4>3, <3>2, <1>2, <1>3
      <4> QED BY <4>2, <4>3
    <3>3. CASE i # w
      <4>1. ring'.pkts[i] = IF i < w THEN written - w + i
                            ELSE IF written = w THEN NULL
                            ELSE written - w + i - N
        BY <3>3, <1>1, <1>2 DEF RingShape
      <4>2. CASE w = N - 1
        <5>1. i < w /\ ~(i < ring'.sff_w) /\ written' # ring'.sff_w
          BY <4>2, <3>3, <1>2, <1>3
        <5>2. written' - ring'.sff_w + i - N = written - w + i
          BY <4>2, <1>2, <1>3
        <5> QED BY <5>1, <5>2, <4>1
      <4>3. CASE w # N - 1
        <5>1. i < w <=> i < ring'.sff_w
          BY <4>3, <3>3, <1>2
        <5>2. written = w <=> written' = ring'.sff_w
          BY <4>3, <1>2, <1>3
        <5>3. written' - ring'.sff_w = written - w
          BY <4>3, <1>2, <1>3
        <5> QED BY <5>1, <5>2, <5>3, <4>1
      <4> QED BY <4>2, <4>3
    <3> QED BY <3>2, <3>3
  <2> QED BY <2>1, <2>2 DEF RingShape
<1>6. ReaderShape'
  <2> SUFFICES ASSUME NEW r \in Readers
               PROVE  /\ written' = ring'.sff_w => sff_r'[r] <= ring'.sff_w
                      /\ \/ Pending(r)' = last'[r] + 1
                         \/ Pending(r)' >= last'[r] + 1 + N
                      /\ buffer'[r] # NULL => buffer'[r] = last'[r]
    BY DEF ReaderShape
  <2> DEFINE x == sff_r[r]
  <2>1. x \in Slots /\ sff_r'[r] = x /\ last'[r] = last[r] /\ last[r] \in Nat \cup {-1}
    BY <1>3 DEF TypeOK
  <2>2. /\ written = w => x <= w
        /\ \/ Pending(r) = last[r] + 1
           \/ Pending(r) >= last[r] + 1 + N
        /\ buffer[r] # NULL => buffer[r] = last[r]
    BY DEF ReaderShape
  <2>3. written' = ring'.sff_w => x <= ring'.sff_w
    BY <1>2, <1>3, <2>1, <2>2, RingAssumption DEF RingShape, Slots
  <2>4. Pending(r)' = last[r] + 1 \/ Pending(r)' >= last[r] + 1 + N
    <3>1. CASE x = w
      <4>1. ring'.sff_w # x /\ Pending(r) = written
        BY <3>1, <1>2, RingAssumption DEF Slots, Pending
      <4>2. Pending(r)' = written
        BY <4>1, <3>1, <2>1, <1>1, <1>2 DEF Pending
      <4> QED BY <4>1, <4>2, <2>2
    <3>2. CASE x # w /\ x # ring'.sff_w
      <4>1. Pending(r)' = ring.pkts[x] /\ Pending(r) = ring.pkts[x]
        BY <3>2, <2>1, <1>1, <1>2 DEF Pending
      <4> QED BY <4>1, <2>2
    <3>3. CASE x # w /\ x = ring'.sff_w
      <4>1. Pending(r)' = written + 1 /\ Pending(r) = ring.pkts[x]
        BY <3>3, <2>1, <1>3 DEF Pending
      <4>2. ring.pkts[x] = written + 1 - N
        <5>1. ring.pkts[x] = IF x < w THEN written - w + x
                             ELSE IF written = w THEN NULL
                             ELSE written - w + x - N
          BY <2>1 DEF RingShape
        <5>2. N \in Nat /\ N >= 2 /\ w \in 0 .. N - 1 /\ x \in 0 .. N - 1
          BY <2>1, <1>2, RingAssumption DEF Slots
        <5>3. CASE w = N - 1
          BY <5>1, <5>2, <5>3, <3>3, <1>2
        <5>4. CASE w # N - 1
          <6>1. x = w + 1 /\ written # w
            BY <5>2, <5>4, <3>3, <2>2, <1>2
          <6> QED BY <6>1, <5>1, <5>2, <1>2
        <5> QED BY <5>3, <5>4
      <4> QED BY <4>1, <4>2, <2>1, <2>2, <1>2, RingAssumption
    <3> QED BY <3>1, <3>2, <3>3
  <2> QED BY <2>1, <2>2, <2>3, <2>4, <1>3
<1> QED BY <1>4, <1>5, <1>6 DEF RingInv

LEMMA ReadPreserves ==
  ASSUME RingInv, NEW q \in Readers, Read(q)
  PROVE  RingInv'
<1> USE DEF RingInv
<1> DEFINE w == ring.sff_w
           x == sff_r[q]
           p == ring.pkts[x]
<1>1. /\ w \in 0 .. N - 1 /\ x \in 0 .. N - 1 /\ written \in Nat
      /\ N \in Nat /\ N >= 2
  BY RingAssumption DEF TypeOK, Slots
<1>2. /\ x # w /\ p # NULL /\ p \in Nat
      /\ last' = [last EXCEPT ![q] = p]
      /\ buffer' = [buffer EXCEPT ![q] = p]
      /\ sff_r' = [sff_r EXCEPT ![q] = NextSlot(x)]
      /\ ring' = ring /\ written' = written
  BY <1>1 DEF Read, ReadData, TypeOK, Slots
<1>3. NextSlot(x) = (IF x = N - 1 THEN 0 ELSE x + 1) /\ NextSlot(x) \in Slots
  BY <1>1, NextSlotValue DEF Slots
<1>4. TypeOK'
  BY <1>2, <1>3 DEF TypeOK
<1>5. RingShape'
  BY <1>2 DEF RingShape
<1>6. ReaderShape'
  <2> SUFFICES ASSUME NEW r \in Readers
               PROVE  /\ written' = ring'.sff_w => sff_r'[r] <= ring'.sff_w
                      /\ \/ Pending(r)' = last'[r] + 1
                         \/ Pending(r)' >= last'[r] + 1 + N
                      /\ buffer'[r] # NULL => buffer'[r] = last'[r]
    BY DEF ReaderShape
  <2>1. CASE r # q
    <3>1. sff_r'[r] = sff_r[r] /\ last'[r] = last[r] /\ buffer'[r] = buffer[r]
      BY <2>1, <1>2 DEF TypeOK
    <3> QED BY <3>1, <1>2 DEF ReaderShape, Pending
  <2>2. CASE r = q
    <3>1. sff_r'[r] = NextSlot(x) /\ last'[r] = p /\ buffer'[r] = p
      BY <2>2, <1>2 DEF TypeOK
    <3>2. written = w => x <= w
      BY DEF ReaderShape
    <3>3. written = w => NextSlot(x) <= w
      BY <3>2, <1>1, <1>2, <1>3
    <3>4. p = IF x < w THEN written - w + x
              ELSE IF written = w THEN NULL ELSE written - w + x - N
      BY <1>1 DEF RingShape, Slots
    <3>5. Pending(r)' = IF NextSlot(x) = w THEN written ELSE ring.pkts[NextSlot(x)]
      BY <3>1, <1>2 DEF Pending
    <3>6. Pending(r)' = p + 1
      <4>1. CASE NextSlot(x) = w
        <5>1. CASE x = N - 1
          BY <5>1, <4>1, <3>4, <3>5, <3>2, <1>1, <1>2, <1>3
        <5>2. CASE x # N - 1
          BY <5>2, <4>1, <3>4, <3>5, <1>1, <1>2, <1>3
        <5> QED BY <5>1, <5>2
      <4>2. CASE NextSlot(x) # w
        <5> DEFINE y == NextSlot(x)
        <5>1. ring.pkts[y] = IF y < w THEN written - w + y
                             ELSE IF written = w THEN NULL
                             ELSE written - w + y - N
          BY <1>3 DEF RingShape
        <5>2. y \in 0 .. N - 1
          BY <1>3 DEF Slots
        <5>3. written = w => y < w
          BY <5>2, <4>2, <3>3, <1>1
        <5>4. CASE x = N - 1
          <6>1. y = 0 /\ y < w /\ written # w /\ ~(x < w)
            BY <5>4, <4>2, <3>2, <1>1, <1>2, <1>3
          <6> QED BY <6>1, <5>1, <5>4, <4>2, <3>4, <3>5, <1>1
        <5>5. CASE x # N - 1
          <6>1. y = x + 1
            BY <5>5, <1>3
          <6>2. CASE x < w
            BY <6>1, <6>2, <5>1, <4>2, <3>4, <3>5, <1>1
          <6>3. CASE ~(x < w)
            <7>1. ~(y < w) /\ written # w
              BY <6>1, <6>3, <5>3, <1>1
            <7> QED BY <7>1, <6>1, <6>3, <5>1, <4>2, <3>4, <3>5, <1>1
          <6> QED BY <6>2, <6>3
        <5> QED BY <5>4, <5>5
      <4> QED BY <4>1, <4>2
    <3> QED BY <3>1, <3>3, <3>6, <1>2
  <2> QED BY <2>1, <2>2
<1> QED BY <1>4, <1>5, <1>6

LEMMA SentPreserves ==
  ASSUME RingInv, NEW q \in Readers, Sent(q)
  PROVE  RingInv'
<1>1. TypeOK'
  BY DEF RingInv, TypeOK, Sent
<1>2. RingShape'
  BY DEF RingInv, RingShape, Sent
<1>3. ReaderShape'
  BY DEF RingInv, ReaderShape, Pending, Sent, TypeOK
<1> QED BY <1>1, <1>2, <1>3 DEF RingInv

LEMMA RingInvNext == RingInv /\ [RingNext]_ringVars => RingInv'
<1> SUFFICES ASSUME RingInv, [RingNext]_ringVars PROVE RingInv'
  OBVIOUS
<1>1. CASE Write
  BY <1>1, WritePreserves
<1>2. ASSUME NEW r \in Readers, Read(r) PROVE RingInv'
  BY <1>2, ReadPreserves
<1>3. ASSUME NEW r \in Readers, Sent(r) PROVE RingInv'
  BY <1>3, SentPreserves
<1>4. CASE UNCHANGED ringVars
  BY <1>4 DEF RingInv, TypeOK, RingShape, ReaderShape, Pending, ringVars
<1> QED BY <1>1, <1>2, <1>3, <1>4 DEF RingNext

\* The value of a slot a player may read: one of the N newest packets.
LEMMA ReadableValue ==
  ASSUME RingInv, NEW i \in Slots, i # ring.sff_w,
         written = ring.sff_w => i <= ring.sff_w
  PROVE  /\ ring.pkts[i] \in Nat
         /\ ring.pkts[i] >= written - N
         /\ ring.pkts[i] < written
<1> DEFINE w == ring.sff_w
<1>1. /\ w \in 0 .. N - 1 /\ i \in 0 .. N - 1 /\ written \in Nat
      /\ N \in Nat /\ N >= 2
  BY RingAssumption DEF RingInv, TypeOK, Slots
<1>2. ring.pkts[i] = IF i < w THEN written - w + i
                     ELSE IF written = w THEN NULL
                     ELSE written - w + i - N
  BY DEF RingInv, RingShape
<1>3. written = w \/ written - w >= N
  BY DEF RingInv, RingShape
<1>4. CASE i < w
  <2>1. ring.pkts[i] = written - w + i
    BY <1>2, <1>4
  <2> QED BY <2>1, <1>1, <1>3, <1>4
<1>5. CASE ~(i < w)
  <2>1. written # w
    BY <1>1, <1>5
  <2>2. ring.pkts[i] = written - w + i - N
    BY <1>2, <1>5, <2>1
  <2> QED BY <2>1, <2>2, <1>1, <1>3, <1>5
<1> QED BY <1>4, <1>5

-----------------------------------------------------------------------------
\* The ring keeps its shape and every player its place in it.
THEOREM RingInvariant == RingSpec => []RingInv
BY RingInvInit, RingInvNext, PTL DEF RingSpec

\* Type correctness of the ring, the players and their buffers.
THEOREM RingTypeOK == RingSpec => []TypeOK
<1>1. RingInv => TypeOK
  BY DEF RingInv
<1> QED BY <1>1, RingInvariant, PTL

\* A slot that sff_read may look at is never empty, for every ring size and
\* however far the feeder is ahead: the NULL test of sff_read never decides.
THEOREM ReadableSlot == RingSpec => []NeverNullSlot
<1>1. RingInv => NeverNullSlot
  <2> SUFFICES ASSUME RingInv, NEW r \in Readers, sff_r[r] # ring.sff_w
               PROVE  ring.pkts[sff_r[r]] # NULL
    BY DEF NeverNullSlot
  <2>1. sff_r[r] \in Slots /\ (written = ring.sff_w => sff_r[r] <= ring.sff_w)
    BY DEF RingInv, TypeOK, ReaderShape
  <2> QED BY <2>1, ReadableValue, RingAssumption
<1> QED BY <1>1, RingInvariant, PTL

\* The bytes that a player is sending (buffer_ptr, not referenced) are those of a packet
\* still in the ring until N packets are stored after it, and no longer, whatever N is.
THEOREM BufferWindow == RingSpec => []SafeWithinWindow
<1>1. RingInv => SafeWithinWindow
  <2> SUFFICES ASSUME RingInv, NEW r \in Readers, buffer[r] # NULL
               PROVE  buffer[r] \in Owned(ring) <=> written - buffer[r] <= N
    BY DEF SafeWithinWindow
  <2> DEFINE w == ring.sff_w
             k == buffer[r]
  <2>1. /\ w \in 0 .. N - 1 /\ written \in Nat
        /\ N \in Nat /\ N >= 2 /\ NULL \notin Nat
        /\ k \in Nat /\ k = last[r]
    BY RingAssumption DEF RingInv, TypeOK, ReaderShape, Slots
  <2>2. k < written
    <3>1. Pending(r) = k + 1 \/ Pending(r) >= k + 1 + N
      BY <2>1 DEF RingInv, ReaderShape
    <3>2. sff_r[r] \in Slots /\ (written = w => sff_r[r] <= w)
      BY DEF RingInv, TypeOK, ReaderShape
    <3>3. CASE sff_r[r] = w
      BY <3>1, <3>3, <2>1 DEF Pending
    <3>4. CASE sff_r[r] # w
      BY <3>1, <3>2, <3>4, <2>1, ReadableValue DEF Pending
    <3> QED BY <3>3, <3>4
  <2>3. written = w \/ written - w >= N
    BY DEF RingInv, RingShape
  <2>4. \A i \in 0 .. N - 1 :
          ring.pkts[i] = IF i < w THEN written - w + i
                         ELSE IF written = w THEN NULL
                         ELSE written - w + i - N
    BY DEF RingInv, RingShape, Slots
  <2>5. ASSUME written - k <= N PROVE \E i \in 0 .. N - 1 : ring.pkts[i] = k
    <3>1. CASE k >= written - w
      <4> DEFINE i == k - (written - w)
      <4>1. i \in 0 .. N - 1 /\ i < w
        BY <3>1, <2>1, <2>2, <2>5
      <4>2. ring.pkts[i] = written - w + i
        BY <4>1, <2>4
      <4> QED BY <4>1, <4>2, <2>1
    <3>2. CASE ~(k >= written - w)
      <4> DEFINE i == k - (written - w - N)
      <4>1. i \in 0 .. N - 1 /\ ~(i < w) /\ written # w
        BY <3>2, <2>1, <2>2, <2>5
      <4>2. ring.pkts[i] = written - w + i - N
        BY <4>1, <2>4
      <4> QED BY <4>1, <4>2, <2>1
    <3> QED BY <3>1, <3>2
  <2>6. ASSUME NEW i \in 0 .. N - 1, ring.pkts[i] = k PROVE written - k <= N
    <3>1. k = written - w + i \/ (w <= i /\ k = written - w + i - N)
      BY <2>1, <2>4, <2>6
    <3> QED BY <2>1, <3>1
  <2>7. k \in Owned(ring) <=> \E i \in 0 .. N - 1 : ring.pkts[i] = k
    BY <2>1 DEF Owned, Slots
  <2> QED BY <2>5, <2>6, <2>7
<1> QED BY <1>1, RingInvariant, PTL

-----------------------------------------------------------------------------
(* Refinement: what the players are handed is a lossy feed of window N. *)

LEMMA RingInitMaps == RingInit => Feed!Init
BY DEF RingInit, Feed!Init

LEMMA RingStepMaps == RingInv /\ [RingNext]_ringVars => [Feed!Next]_(Feed!fvars)
<1> SUFFICES ASSUME RingInv, [RingNext]_ringVars
             PROVE  Feed!Next \/ UNCHANGED Feed!fvars
  BY DEF Feed!fvars
<1>1. CASE Write
  BY <1>1 DEF Write, Feed!Next, Feed!Publish
<1>2. ASSUME NEW r \in Readers, Read(r) PROVE Feed!Deliver(r)
  <2> DEFINE k == ring.pkts[sff_r[r]]
  <2>1. /\ sff_r[r] # ring.sff_w /\ sff_r[r] \in Slots
        /\ written = ring.sff_w => sff_r[r] <= ring.sff_w
        /\ last' = [last EXCEPT ![r] = k] /\ written' = written
    BY <1>2 DEF Read, ReadData, RingInv, TypeOK, ReaderShape
  <2>2. k \in Nat /\ k >= written - N /\ k < written
    BY <2>1, ReadableValue
  <2>3. k = last[r] + 1 \/ k >= last[r] + 1 + N
    BY <2>1 DEF RingInv, ReaderShape, Pending
  <2>4. last[r] \in Int /\ written \in Nat /\ N \in Nat
    BY RingAssumption DEF RingInv, TypeOK
  <2>5. k \in last[r] + 1 .. written - 1
    BY <2>2, <2>3, <2>4
  <2>6. k = last[r] + 1 \/ Feed!Unread(r) > N
    BY <2>2, <2>3, <2>4 DEF Feed!Unread
  <2> QED BY <2>1, <2>2, <2>5, <2>6 DEF Feed!Deliver
<1>3. ASSUME NEW r \in Readers, Sent(r) PROVE UNCHANGED Feed!fvars
  BY <1>3 DEF Sent, Feed!fvars
<1>4. CASE UNCHANGED ringVars
  BY <1>4 DEF ringVars, Feed!fvars
<1> QED BY <1>1, <1>2, <1>3, <1>4 DEF RingNext, Feed!Next

\* The ring implements the lossy feed: increasing order, nothing older than the
\* N newest packets, and no packet skipped unless more than N were unread.
THEOREM RingImplementsFeed == RingSpec => ImplementsFeed
BY RingInitMaps, RingStepMaps, RingInvariant, PTL DEF RingSpec, Feed!Spec, ImplementsFeed

-----------------------------------------------------------------------------
(* Induction and recursion *)

\* A set of numbers that is not empty has a least one.
LEMMA LeastNat ==
  ASSUME NEW T \in SUBSET Nat, T # {}
  PROVE  \E n \in T : \A m \in T : n <= m
<1> DEFINE R == OpToRel(<, Nat)
<1>1. IsWellFoundedOn(R, Nat)
  BY NatLessThanWellFounded, Zenon
<1> HIDE DEF R
<1>2. PICK n \in T : \A m \in T : ~ (<<m, n>> \in R)
  BY <1>1, WFMin, Zenon
<1>3. \A m, k \in Nat : <<m, k>> \in R <=> m < k
  BY DEF R, OpToRel
<1>4. ASSUME NEW m \in T PROVE n <= m
  <2>1. n \in Nat /\ m \in Nat /\ ~ (<<m, n>> \in R)
    BY <1>2
  <2>2. ~(m < n)
    BY <1>3, <2>1
  <2> QED BY <2>1, <2>2
<1> QED BY <1>4

\* Induction with a set for the property: an operator could not be a parameter.
LEMMA SetInduction ==
  ASSUME NEW P, 0 \in P, \A n \in Nat : n \in P => n + 1 \in P
  PROVE  \A n \in Nat : n \in P
<1> SUFFICES ASSUME NEW k \in Nat, k \notin P PROVE FALSE
  OBVIOUS
<1> DEFINE T == {n \in Nat : n \notin P}
<1>1. T # {} /\ T \in SUBSET Nat
  OBVIOUS
<1>2. PICK n \in T : \A m \in T : n <= m
  BY <1>1, LeastNat
<1>3. n # 0 /\ n \in Nat
  BY <1>2
<1>4. n - 1 \in Nat /\ n - 1 \notin T
  BY <1>2, <1>3
<1>5. n - 1 + 1 \in P
  BY <1>4
<1> QED BY <1>2, <1>3, <1>5

\* The same with the step from n - 1.
LEMMA SetInductionBack ==
  ASSUME NEW P, 0 \in P, \A n \in Nat \ {0} : n - 1 \in P => n \in P
  PROVE  \A n \in Nat : n \in P
<1>1. ASSUME NEW n \in Nat, n \in P PROVE n + 1 \in P
  <2>1. n + 1 \in Nat \ {0} /\ n + 1 - 1 = n
    OBVIOUS
  <2>2. n + 1 - 1 \in P => n + 1 \in P
    BY <2>1
  <2> QED BY <1>1, <2>1, <2>2
<1> QED BY <1>1, SetInduction

\* A function that is defined by recursion exists, here on 0 .. n.
Recurs(V, a, n, step) ==
  \E f \in [0 .. n -> V] : f[0] = a /\ \A i \in 1 .. n : f[i] = step[<<i, f[i - 1]>>]

LEMMA Recursion ==
  ASSUME NEW V, NEW a \in V, NEW n \in Nat, NEW step \in [(1 .. n) \X V -> V]
  PROVE  Recurs(V, a, n, step)
<1> DEFINE Q(m, f) == f[0] = a /\ \A i \in 1 .. m : f[i] = step[<<i, f[i - 1]>>]
           P == {m \in Nat : m <= n => \E f \in [0 .. m -> V] : Q(m, f)}
<1>1. 0 \in P
  <2>1. [i \in 0 .. 0 |-> a] \in [0 .. 0 -> V] /\ Q(0, [i \in 0 .. 0 |-> a])
    OBVIOUS
  <2> HIDE DEF Q
  <2> QED BY <2>1
<1>2. ASSUME NEW m \in Nat, m \in P PROVE m + 1 \in P
  <2> SUFFICES ASSUME m + 1 <= n PROVE \E f \in [0 .. m + 1 -> V] : Q(m + 1, f)
    OBVIOUS
  <2>1. PICK f \in [0 .. m -> V] : Q(m, f)
    BY <1>2
  <2> DEFINE g == [i \in 0 .. m + 1 |-> IF i = m + 1 THEN step[<<m + 1, f[m]>>] ELSE f[i]]
  <2>2. step[<<m + 1, f[m]>>] \in V
    BY <2>1
  <2>3. g \in [0 .. m + 1 -> V]
    BY <2>1, <2>2
  <2>4. \A i \in 0 .. m : g[i] = f[i]
    OBVIOUS
  <2>5. g[m + 1] = step[<<m + 1, g[m]>>]
    <3>1. m + 1 \in 0 .. m + 1 /\ m \in 0 .. m
      OBVIOUS
    <3>2. g[m + 1] = step[<<m + 1, f[m]>>] /\ g[m] = f[m]
      BY <2>4, <3>1
    <3> HIDE DEF g
    <3> QED BY <3>2
  <2>6. ASSUME NEW i \in 1 .. m + 1 PROVE g[i] = step[<<i, g[i - 1]>>]
    <3>1. CASE i = m + 1
      BY <2>5, <3>1
    <3>2. CASE i # m + 1
      <4>1. i \in 0 .. m /\ i - 1 \in 0 .. m /\ i \in 1 .. m
        BY <3>2
      <4> HIDE DEF g
      <4> QED BY <2>1, <2>4, <4>1
    <3> QED BY <3>1, <3>2
  <2>7. g[0] = a
    BY <2>1, <2>4
  <2> HIDE DEF g
  <2> QED BY <2>3, <2>6, <2>7
<1> HIDE DEF P
<1>3. n \in P
  BY <1>1, <1>2, SetInduction
<1> QED BY <1>3 DEF P, Recurs

\* Two functions that agree at 0, and at i if at i - 1, agree.
AgreeOn(f, g, n) == /\ f[0] = g[0]
                    /\ \A i \in 1 .. n : f[i - 1] = g[i - 1] => f[i] = g[i]

\* Two functions that follow the same recursion are the same.
LEMMA Agreement ==
  ASSUME NEW f, NEW g, NEW n \in Nat, AgreeOn(f, g, n)
  PROVE  \A i \in 0 .. n : f[i] = g[i]
<1> USE DEF AgreeOn
<1> DEFINE P == {i \in Nat : i <= n => f[i] = g[i]}
<1>1. 0 \in P
  OBVIOUS
<1>2. ASSUME NEW i \in Nat, i \in P PROVE i + 1 \in P
  <2>1. CASE i + 1 <= n
    <3>1. i + 1 \in 1 .. n /\ f[i + 1 - 1] = g[i + 1 - 1]
      BY <1>2, <2>1
    <3> QED BY <3>1
  <2> QED BY <2>1
<1> HIDE DEF P
<1>3. \A i \in Nat : i \in P
  BY <1>1, <1>2, SetInduction
<1> QED BY <1>3 DEF P

-----------------------------------------------------------------------------
(* Sequences of sequences, one after the other *)

\* What FlattenSeq(s) is made of.
Partial(V, n, s) ==
  \E f \in [0 .. n -> Seq(V)] :
    /\ f[0] = <<>> /\ FlattenSeq(s) = f[n]
    /\ \A i \in 1 .. n : f[i] = f[i - 1] \o s[i]

\* What FlattenSeq, which the library defines by recursion, computes.
LEMMA FlattenIs ==
  ASSUME NEW V, NEW n \in Nat, NEW s \in [1 .. n -> Seq(V)]
  PROVE  Partial(V, n, s)
<1> DEFINE step == [p \in (1 .. n) \X Seq(V) |-> p[2] \o s[p[1]]]
<1>1. step \in [(1 .. n) \X Seq(V) -> Seq(V)]
  OBVIOUS
<1>2. PICK f \in [0 .. n -> Seq(V)] :
        f[0] = <<>> /\ \A i \in 1 .. n : f[i] = step[<<i, f[i - 1]>>]
  <2> HIDE DEF step
  <2>1. <<>> \in Seq(V)
    OBVIOUS
  <2>2. Recurs(Seq(V), <<>>, n, step)
    BY <1>1, <2>1, Recursion
  <2> QED BY <2>2 DEF Recurs
<1>3. ASSUME NEW i \in 1 .. n PROVE f[i] = f[i - 1] \o s[i]
  <2>1. <<i, f[i - 1]>> \in (1 .. n) \X Seq(V)
    BY <1>2, SMTT(30)
  <2> QED BY <1>2, <2>1
<1> HIDE DEF step
<1>4. FlattenSeq(s) = f[n]
  <2>1. Len(s) = n /\ s \in Seq(Seq(V))
    BY LenProperties, IsASeq
  <2>2. CASE n = 0
    <3>1. s = <<>>
      BY <2>1, <2>2, EmptySeq
    <3> QED BY <1>2, <2>1, <2>2, <3>1 DEF FlattenSeq
  <2>3. CASE n # 0
    <3> DEFINE flatten == CHOOSE g : g = [i \in 1 .. n |-> IF i = 1 THEN s[i] ELSE g[i - 1] \o s[i]]
               h == [i \in 1 .. n |-> f[i]]
    <3>1. FlattenSeq(s) = flatten[n]
      BY <2>1, <2>3 DEF FlattenSeq
    <3>2. h = [i \in 1 .. n |-> IF i = 1 THEN s[i] ELSE h[i - 1] \o s[i]]
      <4>1. ASSUME NEW i \in 1 .. n PROVE h[i] = IF i = 1 THEN s[i] ELSE h[i - 1] \o s[i]
        <5>1. CASE i = 1
          <6>1. f[i] = f[i - 1] \o s[i] /\ s[i] \in Seq(V)
            BY <1>3
          <6>2. i - 1 = 0
            BY <5>1
          <6>3. f[i] = <<>> \o s[i]
            BY <1>2, <6>1, <6>2
          <6> QED BY <5>1, <6>1, <6>3, ConcatEmptySeq
        <5>2. CASE i # 1
          <6>1. i - 1 \in 1 .. n
            BY <5>2
          <6> QED BY <1>3, <5>2, <6>1
        <5> QED BY <5>1, <5>2
      <4> HIDE DEF h
      <4>2. h = [i \in 1 .. n |-> h[i]]
        BY DEF h
      <4> QED BY <4>1, <4>2
    <3> HIDE DEF h
    <3>3. flatten = [i \in 1 .. n |-> IF i = 1 THEN s[i] ELSE flatten[i - 1] \o s[i]]
      BY <3>2
    <3> HIDE DEF flatten
    <3> DEFINE p == [i \in 0 .. n |-> IF i = 0 THEN <<>> ELSE flatten[i]]
    <3>4. ASSUME NEW i \in 1 .. n, f[i - 1] = p[i - 1] PROVE f[i] = p[i]
      <4>1. p[i] = flatten[i] /\ flatten[i] = IF i = 1 THEN s[i] ELSE flatten[i - 1] \o s[i]
        <5>1. i # 0 /\ i \in 0 .. n
          OBVIOUS
        <5>2. p[i] = flatten[i]
          BY <5>1
        <5> HIDE DEF p
        <5> QED BY <3>3, <5>2
      <4>2. CASE i = 1
        <5>1. s[i] \in Seq(V) /\ i - 1 = 0 /\ f[i] = f[i - 1] \o s[i]
          BY <1>3, <4>2
        <5>2. f[i] = <<>> \o s[i]
          BY <1>2, <5>1
        <5> HIDE DEF p
        <5> QED BY <4>1, <4>2, <5>1, <5>2, ConcatEmptySeq
      <4>3. CASE i # 1
        <5>1. p[i - 1] = flatten[i - 1]
          BY <4>3
        <5> QED BY <1>3, <3>4, <4>1, <4>3, <5>1
      <4> QED BY <4>2, <4>3
    <3>5. f[0] = p[0]
      BY <1>2
    <3>6. f[n] = p[n]
      <4> HIDE DEF p
      <4>1. AgreeOn(f, p, n)
        BY <3>4, <3>5 DEF AgreeOn
      <4>2. \A i \in 0 .. n : f[i] = p[i]
        BY <4>1, Agreement
      <4> QED BY <4>2
    <3> QED BY <2>3, <3>1, <3>6
  <2> QED BY <2>2, <2>3
<1> QED BY <1>2, <1>3, <1>4 DEF Partial

\* The last sequence comes last.
LEMMA FlattenLast ==
  ASSUME NEW V, NEW n \in Nat \ {0}, NEW s \in [1 .. n -> Seq(V)]
  PROVE  /\ FlattenSeq([i \in 1 .. n - 1 |-> s[i]]) \in Seq(V)
         /\ FlattenSeq(s) = FlattenSeq([i \in 1 .. n - 1 |-> s[i]]) \o s[n]
<1> DEFINE t == [i \in 1 .. n - 1 |-> s[i]]
<1>1. t \in [1 .. n - 1 -> Seq(V)] /\ \A i \in 1 .. n - 1 : t[i] = s[i]
  OBVIOUS
<1> HIDE DEF t
<1>2. PICK f \in [0 .. n -> Seq(V)] :
        /\ f[0] = <<>> /\ FlattenSeq(s) = f[n]
        /\ \A i \in 1 .. n : f[i] = f[i - 1] \o s[i]
  <2>1. Partial(V, n, s)
    BY FlattenIs
  <2> QED BY <2>1 DEF Partial
<1>3. PICK g \in [0 .. n - 1 -> Seq(V)] :
        /\ g[0] = <<>> /\ FlattenSeq(t) = g[n - 1]
        /\ \A i \in 1 .. n - 1 : g[i] = g[i - 1] \o t[i]
  <2>1. n - 1 \in Nat
    OBVIOUS
  <2>2. Partial(V, n - 1, t)
    BY <1>1, <2>1, FlattenIs
  <2> QED BY <2>2 DEF Partial
<1>4. ASSUME NEW i \in 1 .. n - 1, f[i - 1] = g[i - 1] PROVE f[i] = g[i]
  <2>1. i \in 1 .. n /\ t[i] = s[i]
    BY <1>1
  <2>2. f[i] = f[i - 1] \o s[i]
    BY <1>2, <2>1
  <2>3. g[i] = g[i - 1] \o t[i]
    BY <1>3
  <2> QED BY <1>4, <2>1, <2>2, <2>3
<1>5. AgreeOn(f, g, n - 1) /\ n - 1 \in Nat
  BY <1>2, <1>3, <1>4 DEF AgreeOn
<1>6. f[n - 1] = g[n - 1]
  <2>1. \A i \in 0 .. n - 1 : f[i] = g[i]
    BY <1>5, Agreement
  <2> QED BY <1>5, <2>1
<1>7. f[n] = f[n - 1] \o s[n] /\ g[n - 1] \in Seq(V)
  <2>1. n \in 1 .. n /\ n - 1 \in 0 .. n - 1
    OBVIOUS
  <2>2. g[n - 1] \in Seq(V)
    BY <2>1
  <2>3. f[n] = f[n - 1] \o s[n]
    BY <1>2, <2>1
  <2> QED BY <2>2, <2>3
<1> QED BY <1>2, <1>3, <1>6, <1>7 DEF t

-----------------------------------------------------------------------------
(* The first k of the sequences f[1], f[2], ..., one after the other *)

Joined(f, k) == FlattenSeq([i \in 1 .. k |-> f[i]])

Seqs(V, k, f) == k \in Nat /\ \A i \in 1 .. k : f[i] \in Seq(V)

LEMMA JoinedEmpty == ASSUME NEW f PROVE Joined(f, 0) = <<>>
<1>1. [i \in 1 .. 0 |-> f[i]] = <<>>
  OBVIOUS
<1> QED BY <1>1 DEF Joined, FlattenSeq

\* Joined, unfolded at its end.
LEMMA JoinedNext ==
  ASSUME NEW V, NEW k \in Nat \ {0}, NEW f, Seqs(V, k, f)
  PROVE  /\ Joined(f, k - 1) \in Seq(V) /\ f[k] \in Seq(V) /\ Joined(f, k) \in Seq(V)
         /\ Joined(f, k) = Joined(f, k - 1) \o f[k]
<1> DEFINE s == [i \in 1 .. k |-> f[i]]
<1>1. s \in [1 .. k -> Seq(V)] /\ s[k] = f[k] /\ f[k] \in Seq(V)
  BY DEF Seqs
<1>2. [i \in 1 .. k - 1 |-> s[i]] = [i \in 1 .. k - 1 |-> f[i]]
  OBVIOUS
<1>3. Joined(f, k) = FlattenSeq(s)
  BY DEF Joined
<1> HIDE DEF s
<1>4. /\ Joined(f, k - 1) \in Seq(V)
      /\ Joined(f, k) = Joined(f, k - 1) \o f[k]
  BY <1>1, <1>2, <1>3, FlattenLast DEF Joined
<1> QED BY <1>1, <1>4, ConcatProperties

LEMMA JoinedType ==
  ASSUME NEW V, NEW k, NEW f, Seqs(V, k, f)
  PROVE  Joined(f, k) \in Seq(V)
<1>1. CASE k = 0
  BY <1>1, JoinedEmpty, EmptySeq
<1>2. CASE k \in Nat \ {0}
  BY <1>2, JoinedNext
<1> QED BY <1>1, <1>2 DEF Seqs

\* Joined looks at the first k sequences only.
LEMMA JoinedSame ==
  ASSUME NEW k \in Nat, NEW f, NEW g, \A i \in 1 .. k : f[i] = g[i]
  PROVE  Joined(f, k) = Joined(g, k)
BY DEF Joined

\* u is s followed by t, of the lengths a and b.
Follows(V, s, t, u, a, b) ==
  /\ u \in Seq(V) /\ Len(u) = a + b
  /\ \A i \in 1 .. a : i \in 1 .. a + b /\ u[i] = s[i]
  /\ \A i \in 1 .. b : a + i \in 1 .. a + b /\ u[a + i] = t[i]

\* Where the elements of s \o t come from.
LEMMA ConcatAt ==
  ASSUME NEW V, NEW s \in Seq(V), NEW t \in Seq(V)
  PROVE  Follows(V, s, t, s \o t, Len(s), Len(t))
<1>0. PICK a \in Nat, b \in Nat : a = Len(s) /\ b = Len(t)
  BY LenProperties
<1>1. /\ s \o t \in Seq(V) /\ Len(s \o t) = a + b
      /\ \A i \in 1 .. a + b : (s \o t)[i] = IF i <= a THEN s[i] ELSE t[i - a]
  BY <1>0, ConcatProperties
<1>2. ASSUME NEW i \in 1 .. a PROVE i \in 1 .. a + b /\ (s \o t)[i] = s[i]
  BY <1>0, <1>1
<1>3. ASSUME NEW i \in 1 .. b PROVE a + i \in 1 .. a + b /\ (s \o t)[a + i] = t[i]
  <2>1. a + i \in 1 .. a + b /\ ~(a + i <= a) /\ a + i - a = i
    OBVIOUS
  <2>2. (s \o t)[a + i] = t[a + i - a]
    BY <1>1, <2>1
  <2> QED BY <2>1, <2>2
<1>4. Follows(V, s, t, s \o t, a, b)
  BY <1>1, <1>2, <1>3 DEF Follows
<1> QED BY <1>0, <1>4

LEMMA SeqIs ==
  ASSUME NEW V, NEW n \in Nat, NEW f \in [1 .. n -> V]
  PROVE  f \in Seq(V) /\ Len(f) = n
<1>1. f = [i \in 1 .. n |-> f[i]] /\ \A i \in 1 .. n : f[i] \in V
  OBVIOUS
<1>2. DOMAIN f = 1 .. n
  OBVIOUS
<1>3. f \in Seq(V)
  BY SeqDef
<1> QED BY <1>2, <1>3, LenProperties

\* Something may follow s in t.
Begins(V, s, t) == s \in Seq(V) /\ t \in Seq(V) /\ \E u \in Seq(V) : t = s \o u

\* Beginnings of a sequence that grows.
LEMMA BeginsNext ==
  ASSUME NEW V, NEW s, NEW t, NEW u \in Seq(V), Begins(V, s, t)
  PROVE  Begins(V, s, t \o u)
<1>1. PICK v \in Seq(V) : t = s \o v
  BY DEF Begins
<1>2. s \in Seq(V) /\ t \in Seq(V)
  BY DEF Begins
<1>3. t \o u = s \o (v \o u) /\ v \o u \in Seq(V)
  BY <1>1, <1>2, ConcatAssociative, ConcatProperties
<1>4. t \o u \in Seq(V)
  BY <1>2, ConcatProperties
<1> QED BY <1>2, <1>3, <1>4 DEF Begins

LEMMA BeginsLess ==
  ASSUME NEW V, NEW x \in Seq(V), NEW u \in Seq(V), NEW v \in Seq(V), NEW y,
         Begins(V, x \o (u \o v), y)
  PROVE  Begins(V, x \o u, y)
<1>1. PICK t \in Seq(V) : y = (x \o (u \o v)) \o t
  BY DEF Begins
<1>2. PICK s \in Seq(V) : s = x \o u
  BY ConcatProperties
<1>3. x \o (u \o v) = s \o v
  BY <1>2, ConcatAssociative
<1>4. y = s \o (v \o t) /\ v \o t \in Seq(V)
  <2>1. (s \o v) \o t = s \o (v \o t)
    BY ConcatAssociative, SMTT(30)
  <2>2. v \o t \in Seq(V)
    BY ConcatProperties
  <2> QED BY <1>1, <1>3, <2>1, <2>2
<1>5. y \in Seq(V)
  BY DEF Begins
<1> QED BY <1>2, <1>4, <1>5 DEF Begins

\* The first k are where they were when there are n of them.
LEMMA JoinedPart ==
  ASSUME NEW V, NEW n, NEW k \in 0 .. n, NEW f, Seqs(V, n, f)
  PROVE  Begins(V, Joined(f, k), Joined(f, n))
<1> n \in Nat /\ k \in Nat
  BY DEF Seqs
<1> DEFINE P == {m \in Nat : k <= m /\ m <= n => Begins(V, Joined(f, k), Joined(f, m))}
<1>1. Joined(f, k) \in Seq(V)
  <2>1. Seqs(V, k, f)
    BY DEF Seqs
  <2> QED BY <2>1, JoinedType
<1>2. Begins(V, Joined(f, k), Joined(f, k))
  <2>1. Joined(f, k) = Joined(f, k) \o <<>> /\ <<>> \in Seq(V)
    BY <1>1, ConcatEmptySeq, EmptySeq
  <2> QED BY <1>1, <2>1 DEF Begins
<1>3. 0 \in P
  <2>1. k <= 0 => k = 0
    OBVIOUS
  <2> QED BY <1>2, <2>1
<1>4. ASSUME NEW m \in Nat \ {0}, m - 1 \in P PROVE m \in P
  <2> SUFFICES ASSUME k < m, m <= n PROVE Begins(V, Joined(f, k), Joined(f, m))
    BY <1>2
  <2>1. Begins(V, Joined(f, k), Joined(f, m - 1))
    BY <1>4
  <2>2. Seqs(V, m, f)
    BY DEF Seqs
  <2>3. f[m] \in Seq(V) /\ Joined(f, m) = Joined(f, m - 1) \o f[m]
    BY <2>2, JoinedNext
  <2> QED BY <2>1, <2>3, BeginsNext
<1> HIDE DEF P
<1>5. \A m \in Nat : m \in P
  BY <1>3, <1>4, SetInductionBack
<1>6. n \in P
  BY <1>5
<1> QED BY <1>6 DEF P

\* Begins is what the community modules call IsPrefix.
LEMMA BeginsAt ==
  ASSUME NEW V, NEW s, NEW t, Begins(V, s, t)
  PROVE  /\ Len(s) \in Nat /\ Len(t) \in Nat /\ Len(s) <= Len(t) /\ IsPrefix(s, t)
         /\ \A i \in 1 .. Len(s) : t[i] = s[i]
<1>1. PICK u \in Seq(V) : t = s \o u
  BY DEF Begins
<1>2. s \in Seq(V) /\ t \in Seq(V)
  BY DEF Begins
<1>3. Len(s) \in Nat /\ Len(u) \in Nat /\ Len(t) = Len(s) + Len(u)
  BY <1>1, <1>2, LenProperties, ConcatProperties
<1>4. \A i \in 1 .. Len(s) : t[i] = s[i]
  <2>1. \A i \in 1 .. Len(s) + Len(u) : t[i] = IF i <= Len(s) THEN s[i] ELSE u[i - Len(s)]
    BY <1>1, <1>2, ConcatProperties
  <2> QED BY <1>3, <2>1
<1>5. SubSeq(s, 1, Len(s)) = SubSeq(t, 1, Len(s))
  <2> DEFINE n == Len(s)
  <2>1. n \in Nat /\ n <= Len(t) /\ \A i \in 1 .. n : t[i] = s[i] /\ s[i] \in V
    BY <1>2, <1>3, <1>4, ElementOfSeq
  <2> HIDE DEF n
  <2>2. SubSeq(s, 1, n) = [i \in 1 .. n |-> s[i]] /\ SubSeq(t, 1, n) = [i \in 1 .. n |-> t[i]]
    BY <2>1 DEF SubSeq
  <2>3. SubSeq(s, 1, n) = SubSeq(t, 1, n)
    BY <2>1, <2>2
  <2> QED BY <2>3 DEF n
<1> QED BY <1>3, <1>4, <1>5 DEF IsPrefix

\* The i-th element of the k-th.
Within(f, k, n) ==
  /\ Len(Joined(f, k - 1)) \in Nat /\ Len(Joined(f, k)) \in Nat
  /\ Len(Joined(f, n)) \in Nat /\ Len(f[k]) \in Nat
  /\ Len(Joined(f, k)) = Len(Joined(f, k - 1)) + Len(f[k])
  /\ Len(Joined(f, k)) <= Len(Joined(f, n))
  /\ \A i \in 1 .. Len(f[k]) : Joined(f, n)[Len(Joined(f, k - 1)) + i] = f[k][i]

\* Element x of the sequence number k in all of them, and what stands before it.
LEMMA JoinedAt ==
  ASSUME NEW V, NEW n, NEW k \in 1 .. n, NEW f, Seqs(V, n, f)
  PROVE  Within(f, k, n)
<1>1. n \in Nat /\ k \in Nat \ {0} /\ Seqs(V, k, f) /\ k \in 0 .. n
  BY DEF Seqs
<1>2. Joined(f, k - 1) \in Seq(V) /\ f[k] \in Seq(V) /\ Joined(f, k) = Joined(f, k - 1) \o f[k]
  BY <1>1, JoinedNext
<1>3. Begins(V, Joined(f, k), Joined(f, n))
  BY <1>1, JoinedPart
<1>4. PICK a \in Nat, b \in Nat :
        a = Len(Joined(f, k - 1)) /\ b = Len(f[k])
  BY <1>2, LenProperties
<1>5. /\ Len(Joined(f, k)) = a + b
      /\ \A i \in 1 .. b : a + i \in 1 .. a + b /\ Joined(f, k)[a + i] = f[k][i]
  <2>1. Follows(V, Joined(f, k - 1), f[k], Joined(f, k), a, b)
    BY <1>2, <1>4, ConcatAt
  <2> QED BY <2>1 DEF Follows
<1>6. /\ Len(Joined(f, n)) \in Nat /\ Len(Joined(f, k)) <= Len(Joined(f, n))
      /\ \A i \in 1 .. Len(Joined(f, k)) : Joined(f, n)[i] = Joined(f, k)[i]
  BY <1>3, BeginsAt
<1>7. ASSUME NEW i \in 1 .. b PROVE Joined(f, n)[a + i] = f[k][i]
  <2>1. a + i \in 1 .. a + b /\ Joined(f, k)[a + i] = f[k][i]
    BY <1>5
  <2> QED BY <1>5, <1>6, <2>1
<1>8. Len(Joined(f, k)) \in Nat
  <2>1. a + b \in Nat
    OBVIOUS
  <2> QED BY <1>5, <2>1
<1> QED BY <1>4, <1>5, <1>6, <1>7, <1>8 DEF Within

-----------------------------------------------------------------------------
(* Numbers on the wire *)

\* Quotients of numbers by the base.
LEMMA Division ==
  ASSUME NEW n \in Nat
  PROVE  /\ n \div Base \in Nat /\ n % Base \in Nat /\ n = (n \div Base) * Base + (n % Base)
         /\ n > 0 => n \div Base < n
<1>1. Base \in Nat /\ Base > 1
  BY PostAssumption
<1>2. n \div Base \in Nat /\ n % Base \in Nat /\ n = Base * (n \div Base) + (n % Base)
  BY <1>1
<1>3. PICK q \in Nat, r \in Nat : q = n \div Base /\ r = n % Base
  BY <1>2
<1>4. n = Base * q + r
  BY <1>2, <1>3
<1>5. n > 0 => q < n
  BY <1>1, <1>4
<1>6. Base * q = q * Base
  BY <1>1
<1> QED BY <1>3, <1>4, <1>5, <1>6

\* n without its last digits, as a function of how many of them.
Shifted(n, k, d) == /\ d \in [0 .. k -> Nat] /\ d[0] = n
                    /\ \A i \in 1 .. k : d[i] = d[i - 1] \div Base

\* What Shift computes: k divisions by the base.
LEMMA ShiftIs ==
  ASSUME NEW n \in Nat, NEW k \in Nat
  PROVE  \E d : Shifted(n, k, d) /\ Shift(n, k) = d[k]
<1> DEFINE d == CHOOSE f : f = [i \in 0 .. k |-> IF i = 0 THEN n ELSE f[i - 1] \div Base]
<1>1. Shift(n, k) = d[k]
  BY DEF Shift
<1>2. \E f : f = [i \in 0 .. k |-> IF i = 0 THEN n ELSE f[i - 1] \div Base]
  <2> DEFINE step == [p \in (1 .. k) \X Nat |-> p[2] \div Base]
  <2>1. step \in [(1 .. k) \X Nat -> Nat]
    BY Division
  <2>2. PICK f \in [0 .. k -> Nat] : f[0] = n /\ \A i \in 1 .. k : f[i] = step[<<i, f[i - 1]>>]
    <3> HIDE DEF step
    <3>1. Recurs(Nat, n, k, step)
      BY <2>1, Recursion
    <3> QED BY <3>1 DEF Recurs
  <2>3. ASSUME NEW i \in 1 .. k PROVE f[i] = f[i - 1] \div Base
    <3>1. <<i, f[i - 1]>> \in (1 .. k) \X Nat
      OBVIOUS
    <3> QED BY <2>2, <3>1
  <2>4. \A i \in 0 .. k : f[i] = IF i = 0 THEN n ELSE f[i - 1] \div Base
    BY <2>2, <2>3
  <2>5. f = [i \in 0 .. k |-> IF i = 0 THEN n ELSE f[i - 1] \div Base]
    BY <2>4
  <2> QED BY <2>5
<1>3. d = [i \in 0 .. k |-> IF i = 0 THEN n ELSE d[i - 1] \div Base]
  BY <1>2
<1> HIDE DEF d
<1>4. d[0] = n /\ \A i \in 1 .. k : d[i] = d[i - 1] \div Base
  BY <1>3
<1>5. \A i \in 0 .. k : d[i] \in Nat
  <2> DEFINE P == {i \in Nat : i <= k => d[i] \in Nat}
  <2>1. 0 \in P
    BY <1>4
  <2>2. ASSUME NEW i \in Nat \ {0}, i - 1 \in P PROVE i \in P
    <3> SUFFICES ASSUME i <= k PROVE d[i] \in Nat
      OBVIOUS
    <3>1. d[i - 1] \in Nat /\ d[i] = d[i - 1] \div Base
      BY <1>4, <2>2
    <3> QED BY <3>1, Division
  <2> HIDE DEF P
  <2>3. \A i \in Nat : i \in P
    BY <2>1, <2>2, SetInductionBack
  <2> QED BY <2>3 DEF P
<1>6. d \in [0 .. k -> Nat]
  BY <1>3, <1>5
<1> QED BY <1>1, <1>4, <1>6 DEF Shifted

\* However many digits the function covers, it is the same.
LEMMA ShiftedSame ==
  ASSUME NEW n \in Nat, NEW k \in Nat, NEW l \in 0 .. k, NEW d, NEW e,
         Shifted(n, k, d), Shifted(n, l, e)
  PROVE  d[l] = e[l]
<1>1. d[0] = e[0] /\ l \in Nat
  BY DEF Shifted
<1>2. ASSUME NEW i \in 1 .. l, d[i - 1] = e[i - 1] PROVE d[i] = e[i]
  <2>1. i \in 1 .. k
    OBVIOUS
  <2> QED BY <1>2, <2>1 DEF Shifted
<1>3. AgreeOn(d, e, l)
  BY <1>1, <1>2 DEF AgreeOn
<1>4. \A i \in 0 .. l : d[i] = e[i]
  BY <1>1, <1>3, Agreement
<1> QED BY <1>1, <1>4

\* One division more.
LEMMA ShiftNext ==
  ASSUME NEW n \in Nat, NEW k \in Nat
  PROVE  /\ Shift(n, k) \in Nat
         /\ k = 0 => Shift(n, k) = n
         /\ k > 0 => Shift(n, k) = Shift(n, k - 1) \div Base
<1>1. PICK d : Shifted(n, k, d) /\ Shift(n, k) = d[k]
  BY ShiftIs
<1>2. Shift(n, k) \in Nat /\ (k = 0 => Shift(n, k) = n)
  BY <1>1 DEF Shifted
<1>3. ASSUME k > 0 PROVE Shift(n, k) = Shift(n, k - 1) \div Base
  <2>1. k - 1 \in Nat /\ k - 1 \in 0 .. k
    BY <1>3
  <2>2. PICK e : Shifted(n, k - 1, e) /\ Shift(n, k - 1) = e[k - 1]
    BY <2>1, ShiftIs
  <2>3. d[k - 1] = e[k - 1]
    BY <1>1, <2>1, <2>2, ShiftedSame
  <2>4. d[k] = d[k - 1] \div Base
    BY <1>1, <1>3 DEF Shifted
  <2> QED BY <1>1, <2>2, <2>3, <2>4
<1> QED BY <1>2, <1>3

\* Base > 1: every digit that is left out makes it less.
LEMMA ShiftLess ==
  ASSUME NEW n \in Nat
  PROVE  \A k \in Nat : Shift(n, k) = 0 \/ Shift(n, k) + k <= n
<1> DEFINE P == {k \in Nat : Shift(n, k) = 0 \/ Shift(n, k) + k <= n}
<1>1. 0 \in P
  BY ShiftNext
<1>2. ASSUME NEW k \in Nat \ {0}, k - 1 \in P PROVE k \in P
  <2>1. PICK a \in Nat, b \in Nat : a = Shift(n, k - 1) /\ b = Shift(n, k) /\ b = a \div Base
    <3>1. k - 1 \in Nat
      OBVIOUS
    <3>2. Shift(n, k - 1) \in Nat
      BY <3>1, ShiftNext
    <3>3. Shift(n, k) \in Nat /\ Shift(n, k) = Shift(n, k - 1) \div Base
      BY ShiftNext
    <3> QED BY <3>2, <3>3
  <2>2. a = 0 \/ a + (k - 1) <= n
    BY <1>2, <2>1
  <2>3. a > 0 => b < a
    BY <2>1, Division
  <2>4. a = 0 => b = 0
    BY <2>1, PostAssumption
  <2>5. b = 0 \/ b + k <= n
    BY <2>2, <2>3, <2>4
  <2> QED BY <2>1, <2>5
<1> HIDE DEF P
<1>3. \A k \in Nat : k \in P
  BY <1>1, <1>2, SetInductionBack
<1> QED BY <1>3 DEF P

\* Each of the digits ds makes f[i] of f[i - 1].
Counts(k, ds, f) == /\ ds \in [1 .. k -> Nat] /\ Len(ds) = k
                    /\ f \in [0 .. k -> Nat] /\ f[0] = 0
                    /\ \A i \in 1 .. k : f[i] = f[i - 1] * Base + ds[i]

\* What Value computes, given its partial results.
LEMMA ValueBy ==
  ASSUME NEW k \in Nat, NEW ds, NEW f, Counts(k, ds, f)
  PROVE  Value(ds) = f[k]
<1> USE DEF Counts
<1> DEFINE v == CHOOSE g : g = [i \in 0 .. k |-> IF i = 0 THEN 0 ELSE g[i - 1] * Base + ds[i]]
<1>1. Value(ds) = v[k]
  BY DEF Value
<1>2. f = [i \in 0 .. k |-> IF i = 0 THEN 0 ELSE f[i - 1] * Base + ds[i]]
  <2>1. \A i \in 0 .. k : f[i] = IF i = 0 THEN 0 ELSE f[i - 1] * Base + ds[i]
    OBVIOUS
  <2> QED BY <2>1
<1>3. v = [i \in 0 .. k |-> IF i = 0 THEN 0 ELSE v[i - 1] * Base + ds[i]]
  BY <1>2
<1> HIDE DEF v
<1>4. ASSUME NEW i \in 1 .. k, f[i - 1] = v[i - 1] PROVE f[i] = v[i]
  <2>1. v[i] = v[i - 1] * Base + ds[i]
    BY <1>3
  <2> QED BY <1>4, <2>1
<1>5. v[0] = 0
  BY <1>3
<1>6. AgreeOn(f, v, k)
  BY <1>4, <1>5 DEF AgreeOn
<1>7. \A i \in 0 .. k : f[i] = v[i]
  BY <1>6, Agreement
<1> QED BY <1>1, <1>7

LEMMA DigitsAre ==
  ASSUME NEW n \in Nat, NEW k \in Nat
  PROVE  /\ Digits(n, k) \in [1 .. k -> Nat] /\ Digits(n, k) \in Seq(Nat)
         /\ Len(Digits(n, k)) = k
<1>1. ASSUME NEW i \in 1 .. k PROVE Shift(n, k - i) % Base \in Nat
  <2>1. k - i \in Nat
    OBVIOUS
  <2>2. Shift(n, k - i) \in Nat
    BY <2>1, ShiftNext
  <2> QED BY <2>2, Division
<1>2. Digits(n, k) \in [1 .. k -> Nat]
  BY <1>1 DEF Digits
<1> QED BY <1>2, SeqIs

\* A number that fits into k digits is read as it was written.
LEMMA DigitsValue ==
  ASSUME NEW n \in Nat, NEW k \in Nat, Shift(n, k) = 0
  PROVE  Value(Digits(n, k)) = n
<1> DEFINE f == [i \in 0 .. k |-> Shift(n, k - i)]
<1>1. ASSUME NEW i \in 1 .. k
      PROVE  Shift(n, k - i) = Shift(n, k - (i - 1)) * Base + (Shift(n, k - i) % Base)
  <2>1. k - i \in Nat /\ k - (i - 1) \in Nat /\ k - (i - 1) > 0 /\ k - (i - 1) - 1 = k - i
    OBVIOUS
  <2>2. Shift(n, k - (i - 1)) = Shift(n, k - i) \div Base
    BY <2>1, ShiftNext
  <2>3. Shift(n, k - i) \in Nat
    BY <2>1, ShiftNext
  <2> QED BY <2>2, <2>3, Division
<1>2. Digits(n, k) \in [1 .. k -> Nat] /\ Len(Digits(n, k)) = k
  BY DigitsAre
<1>3. f \in [0 .. k -> Nat]
  <2>1. ASSUME NEW i \in 0 .. k PROVE Shift(n, k - i) \in Nat
    <3>1. k - i \in Nat
      OBVIOUS
    <3> QED BY <3>1, ShiftNext
  <2> QED BY <2>1
<1>4. ASSUME NEW i \in 1 .. k PROVE f[i] = f[i - 1] * Base + Digits(n, k)[i]
  <2>1. f[i] = Shift(n, k - i) /\ f[i - 1] = Shift(n, k - (i - 1))
    OBVIOUS
  <2>2. Digits(n, k)[i] = Shift(n, k - i) % Base
    BY DEF Digits
  <2> HIDE DEF f
  <2> QED BY <1>1, <2>1, <2>2
<1>5. f[0] = 0 /\ f[k] = n
  <2>1. k - 0 = k /\ k - k = 0 /\ Shift(n, 0) = n
    BY ShiftNext
  <2>2. f[0] = Shift(n, k - 0) /\ f[k] = Shift(n, k - k)
    OBVIOUS
  <2> HIDE DEF f
  <2> QED BY <2>1, <2>2
<1> HIDE DEF f
<1>6. Value(Digits(n, k)) = f[k]
  <2>1. Counts(k, Digits(n, k), f)
    BY <1>2, <1>3, <1>4, <1>5 DEF Counts
  <2> QED BY <2>1, ValueBy
<1> QED BY <1>5, <1>6

\* "%x" writes enough digits.
LEMMA WidthFits ==
  ASSUME NEW n \in Nat
  PROVE  Width(n) \in Nat \ {0} /\ Shift(n, Width(n)) = 0
<1> DEFINE T == {k \in 1 .. n + 1 : Shift(n, k) = 0}
<1>1. n + 1 \in T
  <2>1. n + 1 \in Nat /\ Shift(n, n + 1) \in Nat
    BY ShiftNext
  <2>2. Shift(n, n + 1) = 0 \/ Shift(n, n + 1) + (n + 1) <= n
    BY <2>1, ShiftLess
  <2> QED BY <2>1, <2>2
<1>2. PICK k \in T : \A m \in T : k <= m
  <2>1. T # {} /\ T \in SUBSET Nat
    BY <1>1
  <2> QED BY <2>1, LeastNat
<1>3. k > 1 => Shift(n, k - 1) # 0
  <2> SUFFICES ASSUME k > 1, Shift(n, k - 1) = 0 PROVE FALSE
    OBVIOUS
  <2>1. k - 1 \in T
    BY <1>2
  <2> QED BY <1>2, <2>1
<1>4. \E j \in 1 .. n + 1 : Shift(n, j) = 0 /\ (j > 1 => Shift(n, j - 1) # 0)
  BY <1>2, <1>3
<1>5. Width(n) \in 1 .. n + 1 /\ Shift(n, Width(n)) = 0
  BY <1>4 DEF Width
<1> QED BY <1>5

-----------------------------------------------------------------------------
(* What is on the wire *)

\* A byte that has not been read yet.
WireByte == [b : Nat, glued : BOOLEAN]

\* The bytes of f are those of h and of d, which have the lengths a and b.
MadeOf(f, h, d, a, b) ==
  /\ f \in Seq(WireByte) /\ Len(f) = a + b
  /\ \A i \in 1 .. a + b : f[i].glued <=> i < a
  /\ \A i \in 1 .. a : f[i].b = h[i]
  /\ \A i \in 1 .. b : f[a + i].b = d[i]

\* A framed message: its bytes, and which of them arrive together.
LEMMA FramedIs ==
  ASSUME NEW h \in Seq(Nat), NEW d \in Seq(Nat)
  PROVE  MadeOf(Framed(h, d), h, d, Len(h), Len(d))
<1>1. PICK a \in Nat, b \in Nat : a = Len(h) /\ b = Len(d)
  BY LenProperties
<1>2. /\ h \o d \in Seq(Nat) /\ Len(h \o d) = a + b
      /\ \A i \in 1 .. a : i \in 1 .. a + b /\ (h \o d)[i] = h[i]
      /\ \A i \in 1 .. b : a + i \in 1 .. a + b /\ (h \o d)[a + i] = d[i]
  <2>1. Follows(Nat, h, d, h \o d, a, b)
    BY <1>1, ConcatAt
  <2> QED BY <2>1 DEF Follows
<1>3. PICK n \in Nat : n = a + b
  OBVIOUS
<1>4. \A i \in 1 .. n : (h \o d)[i] \in Nat
  BY <1>2, <1>3, ElementOfSeq
<1>5. Framed(h, d) = [i \in 1 .. n |-> [b |-> (h \o d)[i], glued |-> i < a]]
  BY <1>1, <1>3 DEF Framed
<1>6. /\ Framed(h, d) \in Seq(WireByte) /\ Len(Framed(h, d)) = n
      /\ \A i \in 1 .. n : Framed(h, d)[i].b = (h \o d)[i] /\ Framed(h, d)[i].glued = (i < a)
  <2> DEFINE g == [i \in 1 .. n |-> [b |-> (h \o d)[i], glued |-> i < a]]
  <2>1. ASSUME NEW i \in 1 .. n PROVE [b |-> (h \o d)[i], glued |-> i < a] \in WireByte
    <3>1. (h \o d)[i] \in Nat
      BY <1>4
    <3>2. (i < a) \in BOOLEAN
      <4>1. CASE i < a
        <5>1. (i < a) = TRUE
          BY <4>1
        <5> QED BY <5>1, Zenon
      <4>2. CASE ~(i < a)
        <5>1. (i < a) = FALSE
          BY <4>2
        <5> QED BY <5>1, Zenon
      <4> QED BY <4>1, <4>2
    <3> QED BY <3>1, <3>2, Zenon DEF WireByte
  <2>2. g \in [1 .. n -> WireByte]
    BY <2>1
  <2>4. \A i \in 1 .. n : g[i].b = (h \o d)[i] /\ g[i].glued = (i < a)
    OBVIOUS
  <2> HIDE DEF g
  <2>3. g \in Seq(WireByte) /\ Len(g) = n
    BY <2>2, SeqIs
  <2>5. Framed(h, d) = g
    BY <1>5 DEF g
  <2> QED BY <2>3, <2>4, <2>5
<1>7. \A i \in 1 .. a : Framed(h, d)[i].b = h[i]
  BY <1>2, <1>3, <1>6
<1>8. ASSUME NEW i \in 1 .. b PROVE Framed(h, d)[a + i].b = d[i]
  <2>1. a + i \in 1 .. n /\ (h \o d)[a + i] = d[i]
    BY <1>2, <1>3
  <2> QED BY <1>6, <2>1
<1> QED BY <1>1, <1>3, <1>6, <1>7, <1>8 DEF MadeOf

\* The header of a block.
BlockHeader(type, n) == <<chS, chF, chF, ch0 + type>> \o Digits(n, SizeBytes)

\* The header of a block: sync word, type and size.
LEMMA BlockHeaderIs ==
  ASSUME NEW t \in 0 .. 9, NEW n \in Nat
  PROVE  /\ BlockHeader(t, n) \in Seq(Nat) /\ Len(BlockHeader(t, n)) = 4 + SizeBytes
         /\ BlockHeader(t, n)[1] = chS /\ BlockHeader(t, n)[2] = chF
         /\ BlockHeader(t, n)[3] = chF /\ BlockHeader(t, n)[4] = ch0 + t
         /\ Shift(n, SizeBytes) = 0 => Value([i \in 1 .. SizeBytes |-> BlockHeader(t, n)[4 + i]]) = n
<1> DEFINE w == <<chS, chF, chF, ch0 + t>>
           ds == Digits(n, SizeBytes)
<1>1. w \in Seq(Nat) /\ Len(w) = 4 /\ w[1] = chS /\ w[2] = chF /\ w[3] = chF /\ w[4] = ch0 + t
  BY DEF chS, chF, ch0
<1>2. SizeBytes \in Nat
  BY PostAssumption
<1>3. ds \in Seq(Nat) /\ Len(ds) = SizeBytes /\ (Shift(n, SizeBytes) = 0 => Value(ds) = n)
  BY <1>2, DigitsAre, DigitsValue
<1>4. BlockHeader(t, n) = w \o ds
  BY DEF BlockHeader
<1> HIDE DEF w, ds
<1>5. /\ w \o ds \in Seq(Nat) /\ Len(w \o ds) = 4 + SizeBytes
      /\ \A i \in 1 .. 4 : (w \o ds)[i] = w[i]
      /\ \A i \in 1 .. SizeBytes : (w \o ds)[4 + i] = ds[i]
  <2>1. Follows(Nat, w, ds, w \o ds, 4, SizeBytes)
    BY <1>1, <1>3, ConcatAt
  <2> QED BY <2>1 DEF Follows
<1>6. [i \in 1 .. SizeBytes |-> (w \o ds)[4 + i]] = ds
  <2>1. ds = [i \in 1 .. SizeBytes |-> ds[i]]
    BY <1>3, LenProperties
  <2> QED BY <1>5, <2>1
<1>7. 1 \in 1 .. 4 /\ 2 \in 1 .. 4 /\ 3 \in 1 .. 4 /\ 4 \in 1 .. 4
  OBVIOUS
<1>8. /\ BlockHeader(t, n)[1] = w[1] /\ BlockHeader(t, n)[2] = w[2]
      /\ BlockHeader(t, n)[3] = w[3] /\ BlockHeader(t, n)[4] = w[4]
  <2>1. PICK s : s = w \o ds
    OBVIOUS
  <2>2. \A i \in 1 .. 4 : s[i] = w[i]
    BY <1>5, <2>1
  <2>3. s[1] = w[1] /\ s[2] = w[2] /\ s[3] = w[3] /\ s[4] = w[4]
    BY <2>2
  <2> QED BY <1>4, <2>1, <2>3
<1> QED BY <1>1, <1>3, <1>4, <1>5, <1>6, <1>8

\* The header of a chunk: digits, CR and LF.
ChunkHead(n) == Hex(n) \o <<CR, LF>>

\* The header of a chunk: its digits, then CRLF.
LEMMA ChunkHeadIs ==
  ASSUME NEW n \in Nat, NEW w, w = Width(n)
  PROVE  /\ w \in Nat \ {0} /\ ChunkHead(n) \in Seq(Nat) /\ Len(ChunkHead(n)) = w + 2
         /\ \A i \in 1 .. w : ChunkHead(n)[i] \notin {CR, LF}
         /\ ChunkHead(n)[w + 1] = CR /\ ChunkHead(n)[w + 2] = LF
         /\ Value([i \in 1 .. w |-> ChunkHead(n)[i] - ch0]) = n
<1>1. w \in Nat \ {0} /\ Shift(n, w) = 0
  BY WidthFits
<1>2. /\ Digits(n, w) \in Seq(Nat) /\ Len(Digits(n, w)) = w /\ Value(Digits(n, w)) = n
      /\ \A i \in 1 .. w : Digits(n, w)[i] \in Nat
  BY <1>1, DigitsAre, DigitsValue, ElementOfSeq
<1>3. Hex(n) = [i \in 1 .. w |-> ch0 + Digits(n, w)[i]]
  BY DEF Hex
<1>4. Hex(n) \in Seq(Nat) /\ Len(Hex(n)) = w /\ \A i \in 1 .. w : Hex(n)[i] = ch0 + Digits(n, w)[i]
  <2> DEFINE g == [i \in 1 .. w |-> ch0 + Digits(n, w)[i]]
  <2>1. g \in [1 .. w -> Nat]
    BY <1>1, <1>2 DEF ch0
  <2>2. g \in Seq(Nat) /\ Len(g) = w /\ \A i \in 1 .. w : g[i] = ch0 + Digits(n, w)[i]
    BY <1>1, <2>1
  <2> QED BY <1>3, <2>2
<1>5. <<CR, LF>> \in Seq(Nat) /\ Len(<<CR, LF>>) = 2 /\ <<CR, LF>>[1] = CR /\ <<CR, LF>>[2] = LF
  BY DEF CR, LF
<1>6. PICK s : s = <<CR, LF>>
  OBVIOUS
<1>7. /\ ChunkHead(n) \in Seq(Nat) /\ Len(ChunkHead(n)) = w + 2
      /\ \A i \in 1 .. w : ChunkHead(n)[i] = Hex(n)[i]
      /\ \A i \in 1 .. 2 : ChunkHead(n)[w + i] = s[i]
  <2>1. Follows(Nat, Hex(n), s, Hex(n) \o s, w, 2)
    BY <1>4, <1>5, <1>6, ConcatAt
  <2>2. ChunkHead(n) = Hex(n) \o s
    BY <1>6 DEF ChunkHead
  <2> QED BY <2>1, <2>2 DEF Follows
<1>8. ChunkHead(n)[w + 1] = CR /\ ChunkHead(n)[w + 2] = LF
  BY <1>5, <1>6, <1>7
<1>9. ASSUME NEW i \in 1 .. w PROVE ChunkHead(n)[i] \notin {CR, LF}
  <2>1. PICK x \in Nat : x = Digits(n, w)[i]
    BY <1>2
  <2>2. ChunkHead(n)[i] = ch0 + x
    BY <1>4, <1>7, <2>1
  <2>3. ch0 + x \notin {CR, LF}
    BY DEF ch0, CR, LF
  <2> QED BY <2>2, <2>3
<1>10. [i \in 1 .. w |-> ChunkHead(n)[i] - ch0] = Digits(n, w)
  <2>1. \A i \in 1 .. w : ChunkHead(n)[i] - ch0 = Digits(n, w)[i]
    BY <1>2, <1>4, <1>7 DEF ch0
  <2>2. Digits(n, w) = [i \in 1 .. w |-> Digits(n, w)[i]]
    BY <1>2, LenProperties
  <2> QED BY <2>1, <2>2
<1> QED BY <1>1, <1>2, <1>7, <1>8, <1>9, <1>10

-----------------------------------------------------------------------------
(* Where the server is in what was sent *)

\* The blocks or chunks on the wire: the last chunk is one without data.
Message == [type : 0 .. 9, data : Payloads \cup {<<>>}]
LastMessage == [type |-> 0, data |-> <<>>]
Messages == IF body.tr_encoding = 1 /\ tx = "closed" THEN Append(posted, LastMessage) ELSE posted

FrameHeader(m) == IF body.kind = "feed" THEN BlockHeader(m.type, Len(m.data))
                  ELSE ChunkHead(Len(m.data))
FrameRest(m) == IF body.kind = "feed" THEN m.data ELSE m.data \o <<CR, LF>>
Frames == [k \in DOMAIN Messages |-> Framed(FrameHeader(Messages[k]), FrameRest(Messages[k]))]
Parts == [k \in DOMAIN Messages |-> Messages[k].data]

InFrames == body.kind = "feed" \/ body.tr_encoding = 1

\* What is not yet read is the end of what was sent.
OnWire == LET all == Joined(Frames, Len(Messages))
          IN /\ Len(wire) <= Len(all)
             /\ \A i \in 1 .. Len(wire) : wire[i] = all[Len(all) - Len(wire) + i]

\* The byte to be read next is number j + 1 of message k, counted from its header; the
\* bytes -1 and 0 of a chunk are the CR and LF of the one before.
At(k, j) == /\ k \in 1 .. Len(Messages) + 1 /\ j \in Int
            /\ Len(Joined(Frames, k - 1)) + j + Len(wire) = Len(Joined(Frames, Len(Messages)))

HeaderLen(k) == Len(FrameHeader(Messages[k]))
DataLen(k) == Len(Messages[k].data)

\* A header arrives as a whole.
Unsplit == arrived = 0 \/ ~wire[arrived].glued
HeaderHere(k, j) == j \in 1 .. HeaderLen(k) - 1 => arrived >= HeaderLen(k) - j

TypeInv ==
  /\ body \in Bodies /\ tx \in {"header", "packets", "closed", "cut"}
  /\ posted \in Seq([type : 0 .. 9, data : Payloads])
  /\ wire \in Seq(WireByte) /\ arrived \in 0 .. Len(wire)
  /\ c \in [pc : {"poll", "sync", "F", "FF", "type", "size", "data", "chunk", "body", "over"},
            buf : [1 .. SizeBytes -> Nat], type : Int,
            sff : [type : Int, size : Nat, data : Seq(Nat)], head : Seq(Nat),
            chunk_size : Int, data_count : Nat]
  /\ taken \in Seq([type : Int, data : Seq(Nat)]) /\ stored \in Seq(Nat)

WireInv == Unsplit /\ (InFrames => OnWire)

-----------------------------------------------------------------------------
(* A feed *)

Smalls == [k \in DOMAIN posted |-> IF Small(posted[k]) THEN <<posted[k]>> ELSE <<>>]

\* Looking for a sync word, at the beginning of a block or in data that is too large.
Seeking(k, j) == /\ c.pc \in {"poll", "sync"} /\ c.sff = NoSff
                 /\ j > 0 => j >= HeaderLen(k) /\ ~Small(Messages[k])
Word == <<"F", "FF", "type", "size">>
InWord(k, j) == /\ k <= Len(Messages) /\ j \in 1 .. 4 /\ c.pc = Word[j] /\ c.sff = NoSff
                /\ HeaderHere(k, j)
                /\ c.pc = "size" => c.type = Messages[k].type
InData(k, j) == /\ k <= Len(Messages) /\ j >= HeaderLen(k) /\ Small(Messages[k])
                /\ c.pc \in {"poll", "data"}
                /\ c.sff = [type |-> Messages[k].type, size |-> DataLen(k),
                            data |-> SubSeq(Messages[k].data, 1, j - HeaderLen(k))]

FeedReader(k, j) == /\ At(k, j) /\ j >= 0
                    /\ j > 0 => k <= Len(Messages) /\ j < Len(Frames[k])
                    /\ taken = Joined(Smalls, k - 1)
                    /\ Seeking(k, j) \/ InWord(k, j) \/ InData(k, j)

FeedInv ==
  body.kind = "feed" =>
    /\ c.data_count = 0
    /\ IF c.pc = "over" THEN tx \in {"closed", "cut"} /\ taken = Joined(Smalls, Len(posted))
       ELSE \E k \in Nat, j \in Int : FeedReader(k, j)

-----------------------------------------------------------------------------
(* An upload in chunks *)

\* The byte number i of chunk k, as recv_chunked puts it in its header.
HeaderByte(k, i) == IF i = -1 THEN CR ELSE IF i = 0 THEN LF ELSE FrameHeader(Messages[k])[i]
HeadFrom(k, j, a) == a <= j /\ c.head = [i \in 1 .. j - a |-> HeaderByte(k, a + i)]

InHead(k, j) == /\ c.pc \in {"poll", "chunk"} /\ c.chunk_size = 0 /\ j >= -2
                /\ j < 0 => k > 1
                /\ j > 0 => k <= Len(Messages) /\ j < HeaderLen(k) /\ HeaderHere(k, j) /\ c.pc = "chunk"
                /\ c.pc = "chunk" => \E a \in {-2, -1, 0} : HeadFrom(k, j, a)
                /\ stored = Joined(Parts, k - 1)
InPart(k, j) == /\ c.pc \in {"poll", "body"} /\ k <= Len(Messages)
                /\ j >= HeaderLen(k) /\ c.chunk_size > 0
                /\ c.chunk_size = DataLen(k) - (j - HeaderLen(k))
                /\ stored = Joined(Parts, k - 1) \o SubSeq(Messages[k].data, 1, j - HeaderLen(k))

ChunkReader(k, j) == At(k, j) /\ (InHead(k, j) \/ InPart(k, j))

PlainReader == /\ c.pc \in {"poll", "body"} /\ c.chunk_size = 0
               /\ Contents = stored \o [i \in 1 .. Len(wire) |-> wire[i].b]

\* All was read: no more will be posted.
Finished == /\ stored = Contents
            /\ tx = "packets" => body.content_length > 0 /\ Len(Contents) = body.content_length

\* No more is posted than was announced, and what is stored of a file is counted.
Counted == /\ tx # "header"
           /\ c.data_count = IF body.kind = "file" THEN Len(stored) ELSE 0
           /\ body.content_length > 0 => Len(Contents) <= body.content_length

UploadInv ==
  body.kind # "feed" =>
    /\ Counted
    /\ IF c.pc = "over" THEN Finished
       ELSE IF body.tr_encoding = 0 THEN PlainReader
       ELSE \E k \in Nat, j \in Int : ChunkReader(k, j)

LEMMA PayloadIs ==
  /\ Payloads \subseteq Seq(Nat)
  /\ \A p \in Payloads : Len(p) \in Nat \ {0}
<1>1. Byte \subseteq Nat
  BY DEF Byte
<1>2. ASSUME NEW p \in Payloads PROVE p \in Seq(Nat) /\ Len(p) \in Nat \ {0}
  <2>1. p \in Seq(Byte) /\ p # <<>>
    BY PostAssumption
  <2> QED BY <1>1, <2>1, EmptySeq, SeqMonotonic
<1> QED BY <1>2

LEMMA MessagesAre ==
  ASSUME TypeInv
  PROVE  /\ Messages \in Seq(Message) /\ Len(Messages) \in Nat
         /\ DOMAIN Messages = 1 .. Len(Messages)
         /\ Len(posted) \in Nat /\ Len(posted) <= Len(Messages)
         /\ \A k \in 1 .. Len(Messages) :
              /\ Messages[k].type \in 0 .. 9
              /\ Messages[k].data \in Seq(Nat) /\ DataLen(k) \in Nat
         /\ \A k \in 1 .. Len(posted) : Messages[k] = posted[k] /\ DataLen(k) > 0
         /\ \A k \in 1 .. Len(Messages) :
              k > Len(posted) => Messages[k] = LastMessage /\ DataLen(k) = 0 /\ k = Len(Messages)
         /\ Len(Messages) > Len(posted) => tx = "closed" /\ body.tr_encoding = 1
<1>1. posted \in Seq([type : 0 .. 9, data : Payloads])
  BY DEF TypeInv
<1>2. PICK n \in Nat : n = Len(posted)
  BY <1>1, LenProperties
<1>3. \A k \in 1 .. n : posted[k] \in [type : 0 .. 9, data : Payloads]
  BY <1>1, <1>2, ElementOfSeq
<1>4. posted \in Seq(Message)
  <2>1. [type : 0 .. 9, data : Payloads] \subseteq Message
    BY DEF Message
  <2> QED BY <1>1, <2>1, SeqMonotonic
<1>5. LastMessage \in Message /\ LastMessage.data = <<>> /\ Len(LastMessage.data) = 0
  BY EmptySeq DEF LastMessage, Message
<1>6. \A m \in Message : m.type \in 0 .. 9 /\ m.data \in Seq(Nat) /\ Len(m.data) \in Nat
  BY PayloadIs, EmptySeq DEF Message
<1>7. \A k \in 1 .. n : Len(posted[k].data) \in Nat /\ Len(posted[k].data) > 0
  BY <1>3, PayloadIs
<1>8. CASE body.tr_encoding = 1 /\ tx = "closed"
  <2>1. Messages = Append(posted, LastMessage)
    BY <1>8 DEF Messages
  <2>2. /\ Messages \in Seq(Message) /\ Len(Messages) = n + 1
        /\ \A k \in 1 .. n : Messages[k] = posted[k]
        /\ Messages[n + 1] = LastMessage
    BY <1>2, <1>4, <1>5, <2>1, AppendProperties
  <2>3. \A k \in 1 .. n + 1 : Messages[k] \in Message
    BY <2>2, ElementOfSeq
  <2>4. DOMAIN Messages = 1 .. n + 1
    BY <2>2, LenProperties
  <2>5. \A k \in 1 .. n + 1 : k > n => k = n + 1
    OBVIOUS
  <2> QED BY <1>2, <1>5, <1>6, <1>7, <1>8, <2>2, <2>3, <2>4, <2>5 DEF DataLen
<1>9. CASE ~(body.tr_encoding = 1 /\ tx = "closed")
  <2>1. Messages = posted
    BY <1>9 DEF Messages
  <2>3. \A k \in 1 .. n : Messages[k] \in Message
    BY <1>2, <1>4, <2>1, ElementOfSeq
  <2>4. DOMAIN Messages = 1 .. n
    BY <1>2, <1>4, <2>1, LenProperties
  <2> QED BY <1>2, <1>4, <1>6, <1>7, <2>1, <2>3, <2>4 DEF DataLen
<1> QED BY <1>8, <1>9

\* A header h, the data d and what follows them in the frame f.
IsFrame(f, h, d, tail) ==
  /\ f \in Seq(WireByte) /\ Len(f) = h + d + tail /\ h \in Nat /\ d \in Nat /\ tail \in Nat
  /\ \A i \in 1 .. h + d + tail : f[i].glued <=> i < h

\* The size of a block fits into its field: it has four bytes, and a frame's size is an int.
FeedSizes == \A p \in Payloads : Shift(Len(p), SizeBytes) = 0

\* What a feeder sends for a block.
LEMMA FeedFrame ==
  ASSUME TypeInv, body.kind = "feed", NEW k \in 1 .. Len(Messages)
  PROVE  /\ IsFrame(Frames[k], HeaderLen(k), DataLen(k), 0)
         /\ HeaderLen(k) = 4 + SizeBytes
         /\ Frames[k][1].b = chS /\ Frames[k][2].b = chF /\ Frames[k][3].b = chF
         /\ Frames[k][4].b = ch0 + Messages[k].type
         /\ FeedSizes => Value([i \in 1 .. SizeBytes |-> Frames[k][4 + i].b]) = DataLen(k)
         /\ \A i \in 1 .. DataLen(k) : Frames[k][HeaderLen(k) + i].b = Messages[k].data[i]
<1> DEFINE h == BlockHeader(Messages[k].type, DataLen(k))
           d == Messages[k].data
<1>1. /\ Messages[k].type \in 0 .. 9 /\ d \in Seq(Nat) /\ DataLen(k) \in Nat
      /\ DOMAIN Messages = 1 .. Len(Messages)
  BY MessagesAre
<1>2. FeedSizes => Shift(DataLen(k), SizeBytes) = 0
  <2>1. body.tr_encoding = 0
    BY PostAssumption DEF TypeInv
  <2>2. Messages = posted
    BY <2>1 DEF Messages
  <2>3. posted[k] \in [type : 0 .. 9, data : Payloads]
    BY <2>2, ElementOfSeq DEF TypeInv
  <2> QED BY <2>2, <2>3 DEF FeedSizes, DataLen
<1>3. /\ h \in Seq(Nat) /\ Len(h) = 4 + SizeBytes
      /\ h[1] = chS /\ h[2] = chF /\ h[3] = chF /\ h[4] = ch0 + Messages[k].type
      /\ FeedSizes => Value([i \in 1 .. SizeBytes |-> h[4 + i]]) = DataLen(k)
  BY <1>1, <1>2, BlockHeaderIs
<1>4. Frames[k] = Framed(h, d) /\ HeaderLen(k) = Len(h) /\ DataLen(k) = Len(d)
  BY <1>1 DEF Frames, FrameHeader, FrameRest, HeaderLen, DataLen
<1> HIDE DEF h, d
<1>5. PICK n \in Nat, l \in Nat : n = Len(h) /\ l = Len(d) /\ n = 4 + SizeBytes
  BY <1>1, <1>3, LenProperties
<1>6. /\ Framed(h, d) \in Seq(WireByte) /\ Len(Framed(h, d)) = n + l
      /\ \A i \in 1 .. n + l : Framed(h, d)[i].glued <=> i < n
      /\ \A i \in 1 .. n : Framed(h, d)[i].b = h[i]
      /\ \A i \in 1 .. l : Framed(h, d)[n + i].b = d[i]
  <2>1. MadeOf(Framed(h, d), h, d, n, l)
    BY <1>1, <1>3, <1>5, FramedIs
  <2> QED BY <2>1 DEF MadeOf
<1>7. IsFrame(Frames[k], HeaderLen(k), DataLen(k), 0)
  <2>1. n + l + 0 = n + l
    OBVIOUS
  <2> QED BY <1>4, <1>5, <1>6, <2>1 DEF IsFrame
<1>8. SizeBytes \in Nat \ {0}
  BY PostAssumption
<1>9. 1 \in 1 .. n /\ 2 \in 1 .. n /\ 3 \in 1 .. n /\ 4 \in 1 .. n
  BY <1>5, <1>8
<1>10. ASSUME NEW i \in 1 .. SizeBytes PROVE Frames[k][4 + i].b = h[4 + i]
  <2>1. 4 + i \in 1 .. n
    BY <1>5, <1>8
  <2> QED BY <1>4, <1>6, <2>1
<1>11. FeedSizes => Value([i \in 1 .. SizeBytes |-> Frames[k][4 + i].b]) = DataLen(k)
  <2>1. [i \in 1 .. SizeBytes |-> Frames[k][4 + i].b] = [i \in 1 .. SizeBytes |-> h[4 + i]]
    BY <1>10
  <2> QED BY <1>3, <2>1
<1>12. \A i \in 1 .. DataLen(k) : Frames[k][HeaderLen(k) + i].b = Messages[k].data[i]
  BY <1>4, <1>5, <1>6 DEF d
<1> QED BY <1>3, <1>4, <1>6, <1>7, <1>9, <1>11, <1>12

\* What a client sends for a chunk.
LEMMA ChunkFrame ==
  ASSUME TypeInv, body.kind # "feed", NEW k \in 1 .. Len(Messages)
  PROVE  /\ IsFrame(Frames[k], HeaderLen(k), DataLen(k), 2)
         /\ HeaderLen(k) > 2
         /\ \A i \in 1 .. HeaderLen(k) :
              /\ Frames[k][i].b = FrameHeader(Messages[k])[i]
              /\ i <= HeaderLen(k) - 2 => Frames[k][i].b \notin {CR, LF}
         /\ Frames[k][HeaderLen(k) - 1].b = CR /\ Frames[k][HeaderLen(k)].b = LF
         /\ Value([i \in 1 .. HeaderLen(k) - 2 |-> FrameHeader(Messages[k])[i] - ch0]) = DataLen(k)
         /\ \A i \in 1 .. DataLen(k) : Frames[k][HeaderLen(k) + i].b = Messages[k].data[i]
         /\ Frames[k][HeaderLen(k) + DataLen(k) + 1].b = CR
         /\ Frames[k][HeaderLen(k) + DataLen(k) + 2].b = LF
<1> DEFINE h == ChunkHead(DataLen(k))
           d == Messages[k].data
           crlf == <<CR, LF>>
           rest == d \o crlf
<1>1. d \in Seq(Nat) /\ DataLen(k) \in Nat /\ DOMAIN Messages = 1 .. Len(Messages)
  BY MessagesAre
<1>2. PICK w : w = Width(DataLen(k))
  OBVIOUS
<1>3. /\ w \in Nat \ {0} /\ h \in Seq(Nat) /\ Len(h) = w + 2
      /\ \A i \in 1 .. w : h[i] \notin {CR, LF}
      /\ h[w + 1] = CR /\ h[w + 2] = LF
      /\ Value([i \in 1 .. w |-> h[i] - ch0]) = DataLen(k)
  BY <1>1, <1>2, ChunkHeadIs
<1>4. crlf \in Seq(Nat) /\ Len(crlf) = 2 /\ crlf[1] = CR /\ crlf[2] = LF
  BY DEF CR, LF
<1>5. /\ Frames[k] = Framed(h, rest) /\ HeaderLen(k) = Len(h) /\ DataLen(k) = Len(d)
      /\ FrameHeader(Messages[k]) = h
  BY <1>1 DEF Frames, FrameHeader, FrameRest, HeaderLen, DataLen
<1> HIDE DEF h, crlf
<1>6. PICK l \in Nat : l = DataLen(k)
  BY <1>1
<1>7. /\ rest \in Seq(Nat) /\ Len(rest) = l + 2
      /\ \A i \in 1 .. l : i \in 1 .. l + 2 /\ rest[i] = d[i]
      /\ \A i \in 1 .. 2 : l + i \in 1 .. l + 2 /\ rest[l + i] = crlf[i]
  <2>1. Follows(Nat, d, crlf, rest, l, 2)
    BY <1>1, <1>4, <1>5, <1>6, ConcatAt
  <2> QED BY <2>1 DEF Follows
<1> HIDE DEF d, rest
<1>8. PICK n \in Nat : n = w + 2
  BY <1>3
<1>9. PICK r \in Nat : r = l + 2
  OBVIOUS
<1>10. /\ Frames[k] \in Seq(WireByte) /\ Len(Frames[k]) = n + r
       /\ \A i \in 1 .. n + r : Frames[k][i].glued <=> i < n
       /\ \A i \in 1 .. n : Frames[k][i].b = h[i]
       /\ \A i \in 1 .. r : Frames[k][n + i].b = rest[i]
  <2>1. MadeOf(Framed(h, rest), h, rest, n, r)
    BY <1>3, <1>7, <1>8, <1>9, FramedIs
  <2> QED BY <1>5, <2>1 DEF MadeOf
<1>11. HeaderLen(k) = n /\ DataLen(k) = l
  BY <1>3, <1>5, <1>6, <1>8
<1>12. IsFrame(Frames[k], n, l, 2)
  <2>1. n + l + 2 = n + r
    BY <1>9
  <2> QED BY <1>10, <2>1 DEF IsFrame
<1>13. ASSUME NEW i \in 1 .. n
       PROVE  Frames[k][i].b = h[i] /\ (i <= n - 2 => Frames[k][i].b \notin {CR, LF})
  <2>1. i <= n - 2 => i \in 1 .. w
    BY <1>3, <1>8
  <2> QED BY <1>3, <1>10, <2>1
<1>14. Frames[k][n - 1].b = CR /\ Frames[k][n].b = LF
  <2>1. n - 1 = w + 1 /\ n = w + 2 /\ w + 1 \in 1 .. n /\ w + 2 \in 1 .. n
    BY <1>3, <1>8
  <2>2. Frames[k][w + 1].b = CR /\ Frames[k][w + 2].b = LF
    BY <1>3, <1>10, <2>1
  <2> QED BY <2>1, <2>2
<1>15. Value([i \in 1 .. n - 2 |-> h[i] - ch0]) = DataLen(k)
  <2>1. n - 2 = w
    BY <1>3, <1>8
  <2> QED BY <1>3, <2>1
<1>16. ASSUME NEW i \in 1 .. l PROVE Frames[k][n + i].b = d[i]
  <2>1. i \in 1 .. r /\ rest[i] = d[i]
    BY <1>7, <1>9
  <2> QED BY <1>10, <2>1
<1>17. Frames[k][n + l + 1].b = CR /\ Frames[k][n + l + 2].b = LF
  <2>1. /\ l + 1 \in 1 .. r /\ l + 2 \in 1 .. r
        /\ n + l + 1 = n + (l + 1) /\ n + l + 2 = n + (l + 2)
    BY <1>9
  <2>2. rest[l + 1] = CR /\ rest[l + 2] = LF
    BY <1>4, <1>7
  <2>3. Frames[k][n + (l + 1)].b = CR /\ Frames[k][n + (l + 2)].b = LF
    BY <1>10, <2>1, <2>2
  <2> QED BY <2>1, <2>3
<1>18. n > 2
  BY <1>3, <1>8
<1> QED BY <1>5, <1>11, <1>12, <1>13, <1>14, <1>15, <1>16, <1>17, <1>18 DEF d

\* All the frames are sequences of bytes.
LEMMA FramesAre ==
  ASSUME TypeInv
  PROVE  Seqs(WireByte, Len(Messages), Frames)
<1>1. Len(Messages) \in Nat
  BY MessagesAre
<1>2. ASSUME NEW k \in 1 .. Len(Messages) PROVE Frames[k] \in Seq(WireByte)
  <2>1. CASE body.kind = "feed"
    BY <2>1, FeedFrame DEF IsFrame
  <2>2. CASE body.kind # "feed"
    BY <2>2, ChunkFrame DEF IsFrame
  <2> QED BY <2>1, <2>2
<1> QED BY <1>1, <1>2 DEF Seqs

LEMMA PartsAre ==
  ASSUME TypeInv
  PROVE  /\ Seqs(Nat, Len(Messages), Parts)
         /\ \A k \in 1 .. Len(Messages) : Parts[k] = Messages[k].data
BY MessagesAre DEF Seqs, Parts

LEMMA SmallsAre ==
  ASSUME TypeInv
  PROVE  /\ Seqs([type : Int, data : Seq(Nat)], Len(posted), Smalls)
         /\ \A k \in 1 .. Len(posted) :
              Smalls[k] = IF Small(posted[k]) THEN <<posted[k]>> ELSE <<>>
<1> DEFINE B == [type : Int, data : Seq(Nat)]
<1>1. Len(posted) \in Nat /\ DOMAIN posted = 1 .. Len(posted)
  BY LenProperties DEF TypeInv
<1>2. \A k \in 1 .. Len(posted) :
        Smalls[k] = IF Small(posted[k]) THEN <<posted[k]>> ELSE <<>>
  BY <1>1 DEF Smalls
<1>3. ASSUME NEW k \in 1 .. Len(posted) PROVE Smalls[k] \in Seq(B)
  <2>1. posted[k] \in [type : 0 .. 9, data : Payloads]
    BY ElementOfSeq DEF TypeInv
  <2>2. posted[k] \in B
    BY <2>1, PayloadIs
  <2> HIDE DEF B
  <2>3. <<posted[k]>> \in Seq(B) /\ <<>> \in Seq(B)
    BY <2>2
  <2> QED BY <1>2, <2>3
<1> QED BY <1>1, <1>2, <1>3 DEF Seqs

\* The next bytes to be read are those of message k from byte j + 1 on.
LEMMA Facing ==
  ASSUME TypeInv, OnWire, NEW k \in 1 .. Len(Messages), NEW j \in Int, At(k, j)
  PROVE  /\ Len(wire) \in Nat /\ Len(Frames[k]) \in Nat /\ Len(Frames[k]) - j <= Len(wire)
         /\ \A i \in 1 .. Len(wire) :
              j + i \in 1 .. Len(Frames[k]) => wire[i] = Frames[k][j + i]
<1> DEFINE all == Joined(Frames, Len(Messages))
           before == Joined(Frames, k - 1)
<1>1. Seqs(WireByte, Len(Messages), Frames)
  BY FramesAre
<1>2. /\ Len(before) \in Nat /\ Len(Joined(Frames, k)) \in Nat
      /\ Len(all) \in Nat /\ Len(Frames[k]) \in Nat
      /\ Len(Joined(Frames, k)) = Len(before) + Len(Frames[k])
      /\ Len(Joined(Frames, k)) <= Len(all)
      /\ \A i \in 1 .. Len(Frames[k]) : all[Len(before) + i] = Frames[k][i]
  <2>1. Within(Frames, k, Len(Messages))
    BY <1>1, JoinedAt
  <2> QED BY <2>1 DEF Within
<1>3. Len(before) + j + Len(wire) = Len(all)
  BY DEF At
<1>4. \A i \in 1 .. Len(wire) : wire[i] = all[Len(all) - Len(wire) + i]
  BY DEF OnWire
<1>5. Len(wire) \in Nat
  BY LenProperties DEF TypeInv
<1> HIDE DEF all, before
<1>6. PICK a \in Nat, b \in Nat, n \in Nat, w \in Nat :
        a = Len(before) /\ b = Len(Frames[k]) /\ n = Len(all) /\ w = Len(wire)
  BY <1>2, <1>5
<1>7. a + b <= n /\ a + j + w = n
  BY <1>2, <1>3, <1>6
<1>8. b - j <= w
  BY <1>7
<1>9. ASSUME NEW i \in 1 .. w, j + i \in 1 .. b PROVE wire[i] = Frames[k][j + i]
  <2>1. wire[i] = all[n - w + i]
    BY <1>4, <1>6
  <2>2. n - w + i = a + (j + i)
    BY <1>7
  <2>3. all[a + (j + i)] = Frames[k][j + i]
    BY <1>2, <1>6, <1>9
  <2> QED BY <2>1, <2>2, <2>3
<1> QED BY <1>6, <1>8, <1>9

\* At the end of a message one is at the beginning of the next.
LEMMA AtNext ==
  ASSUME TypeInv, NEW k \in 1 .. Len(Messages), NEW j \in Int
  PROVE  At(k, j) <=> At(k + 1, j - Len(Frames[k]))
<1>1. Seqs(WireByte, Len(Messages), Frames) /\ Len(Messages) \in Nat /\ Len(wire) \in Nat
  BY FramesAre, MessagesAre, LenProperties DEF TypeInv
<1>2. /\ Len(Joined(Frames, k - 1)) \in Nat /\ Len(Joined(Frames, k)) \in Nat
      /\ Len(Joined(Frames, Len(Messages))) \in Nat /\ Len(Frames[k]) \in Nat
      /\ Len(Joined(Frames, k)) = Len(Joined(Frames, k - 1)) + Len(Frames[k])
  <2>1. Within(Frames, k, Len(Messages))
    BY <1>1, JoinedAt
  <2> QED BY <2>1 DEF Within
<1>3. PICK a \in Nat, b \in Nat, l \in Nat, n \in Nat, w \in Nat, m \in Nat :
        /\ a = Len(Joined(Frames, k - 1)) /\ b = Len(Joined(Frames, k)) /\ l = Len(Frames[k])
        /\ n = Len(Joined(Frames, Len(Messages))) /\ w = Len(wire) /\ m = Len(Messages)
  BY <1>1, <1>2
<1>4. b = a + l
  BY <1>2, <1>3
<1>5. k \in 1 .. m + 1 /\ k + 1 \in 1 .. m + 1 /\ j - l \in Int /\ k + 1 - 1 = k
  BY <1>3
<1>6. At(k, j) <=> a + j + w = n
  BY <1>3, <1>5 DEF At
<1>7. At(k + 1, j - l) <=> b + (j - l) + w = n
  BY <1>3, <1>5 DEF At
<1>8. a + j + w = b + (j - l) + w
  BY <1>4
<1> QED BY <1>3, <1>6, <1>7, <1>8

\* Reading n bytes of message k moves the position by n.
LEMMA ReadBytes ==
  ASSUME TypeInv, OnWire, NEW k, NEW j, At(k, j), NEW n \in 0 .. Len(wire),
         wire' = SubSeq(wire, n + 1, Len(wire)), UNCHANGED <<body, tx, posted>>
  PROVE  OnWire' /\ At(k, j + n)'
<1> DEFINE all == Joined(Frames, Len(Messages))
<1>1. Messages' = Messages
  BY DEF Messages
<1>2. Frames' = Frames
  BY <1>1 DEF Frames, FrameHeader, FrameRest
<1>3. all' = all
  BY <1>1, <1>2
<1>4. Len(all) \in Nat
  BY FramesAre, JoinedType, LenProperties
<1>5. \A i \in 1 .. Len(wire) : wire[i] = all[Len(all) - Len(wire) + i]
  BY DEF OnWire
<1>6. Len(Joined(Frames, k - 1)) + j + Len(wire) = Len(all) /\ Len(wire) <= Len(all)
      /\ k \in 1 .. Len(Messages) + 1 /\ j \in Int
  BY DEF At, OnWire
<1>7. Len(Joined(Frames, k - 1)) \in Nat
  <2>1. k - 1 \in Nat /\ Seqs(WireByte, k - 1, Frames)
    <3>1. Seqs(WireByte, Len(Messages), Frames) /\ Len(Messages) \in Nat
      BY FramesAre, MessagesAre
    <3>2. k - 1 \in Nat /\ k - 1 <= Len(Messages)
      BY <1>6, <3>1
    <3> QED BY <3>1, <3>2 DEF Seqs
  <2> QED BY <2>1, JoinedType, LenProperties
<1> HIDE DEF all
<1>8. PICK w \in Nat, m \in Nat, a \in Nat :
        w = Len(wire) /\ m = Len(all) /\ a = Len(Joined(Frames, k - 1))
  BY <1>4, <1>7, LenProperties DEF TypeInv
<1>9. Len(wire') = w - n /\ \A i \in 1 .. w - n : wire'[i] = wire[n + i]
  <2>1. n + 1 \in Int /\ w \in Int /\ wire \in Seq(WireByte)
    BY <1>8 DEF TypeInv
  <2>2. \A i \in n + 1 .. w : wire[i] \in WireByte
    BY <1>8, <2>1, ElementOfSeq
  <2>3. wire' = SubSeq(wire, n + 1, w)
    BY <1>8
  <2>4. /\ Len(wire') = IF n + 1 <= w THEN w - (n + 1) + 1 ELSE 0
        /\ \A i \in 1 .. w - (n + 1) + 1 : wire'[i] = wire[n + 1 + i - 1]
    BY <2>1, <2>2, <2>3, SubSeqProperties
  <2>5. n \in 0 .. w
    BY <1>8
  <2>6. w - (n + 1) + 1 = w - n /\ (~(n + 1 <= w) => w - n = 0)
    BY <2>5
  <2>7. ASSUME NEW i \in 1 .. w - n PROVE wire'[i] = wire[n + i]
    <3>1. n + 1 + i - 1 = n + i
      BY <2>5
    <3> QED BY <2>4, <2>6, <3>1
  <2> QED BY <2>4, <2>6, <2>7
<1>10. ASSUME NEW i \in 1 .. w - n PROVE wire'[i] = all[m - (w - n) + i]
  <2>1. n + i \in 1 .. w /\ m - w + (n + i) = m - (w - n) + i
    BY <1>8
  <2>2. wire[n + i] = all[m - w + (n + i)]
    BY <1>5, <1>8, <2>1
  <2> QED BY <1>9, <2>1, <2>2
<1>11. OnWire'
  <2>1. w - n <= m
    BY <1>6, <1>8
  <2>2. \A i \in 1 .. Len(wire') : wire'[i] = all[Len(all) - Len(wire') + i]
    BY <1>8, <1>9, <1>10
  <2> QED BY <1>3, <1>8, <1>9, <2>1, <2>2 DEF OnWire, all
<1>12. At(k, j + n)'
  <2>0. a + j + w = m /\ j \in Int /\ n \in Int
    BY <1>6, <1>8
  <2>1. a + (j + n) + (w - n) = m /\ j + n \in Int
    BY <2>0
  <2> QED BY <1>1, <1>2, <1>3, <1>6, <1>8, <1>9, <2>1 DEF At, all
<1> QED BY <1>11, <1>12

LEMMA FrameType ==
  ASSUME NEW m \in Message
  PROVE  Framed(FrameHeader(m), FrameRest(m)) \in Seq(WireByte)
<1>1. m.type \in 0 .. 9 /\ m.data \in Seq(Nat) /\ Len(m.data) \in Nat
  BY PayloadIs, EmptySeq DEF Message
<1>2. FrameHeader(m) \in Seq(Nat)
  <2>1. CASE body.kind = "feed"
    BY <1>1, <2>1, BlockHeaderIs DEF FrameHeader
  <2>2. CASE body.kind # "feed"
    <3>1. PICK w : w = Width(Len(m.data))
      OBVIOUS
    <3> QED BY <1>1, <2>2, <3>1, ChunkHeadIs DEF FrameHeader
  <2> QED BY <2>1, <2>2
<1>3. FrameRest(m) \in Seq(Nat)
  <2>1. <<CR, LF>> \in Seq(Nat)
    BY DEF CR, LF
  <2> QED BY <1>1, <2>1, ConcatProperties DEF FrameRest
<1>4. MadeOf(Framed(FrameHeader(m), FrameRest(m)), FrameHeader(m), FrameRest(m),
             Len(FrameHeader(m)), Len(FrameRest(m)))
  BY <1>2, <1>3, FramedIs
<1> QED BY <1>4 DEF MadeOf

\* A message that is sent goes to the end of the wire; the position stays.
LEMMA SendFrame ==
  ASSUME TypeInv, OnWire, NEW m \in Message, NEW f \in Seq(WireByte),
         f = Framed(FrameHeader(m), FrameRest(m)),
         body' = body, Messages' = Append(Messages, m), wire' = wire \o f
  PROVE  /\ OnWire' /\ Len(Messages') = Len(Messages) + 1
         /\ \A k \in 1 .. Len(Messages) : Messages'[k] = Messages[k] /\ Frames'[k] = Frames[k]
         /\ \A k \in 0 .. Len(Messages) : Joined(Parts', k) = Joined(Parts, k)
         /\ \A k, j : At(k, j) => At(k, j)'
<1>1. PICK n \in Nat : n = Len(Messages)
  BY MessagesAre
<1>2. /\ Messages' \in Seq(Message) /\ Len(Messages') = n + 1
      /\ \A k \in 1 .. n : Messages'[k] = Messages[k]
      /\ Messages'[n + 1] = m
  BY <1>1, MessagesAre, AppendProperties
<1>3. DOMAIN Messages' = 1 .. n + 1 /\ DOMAIN Messages = 1 .. n
  BY <1>1, <1>2, MessagesAre, LenProperties
<1>4. ASSUME NEW k \in 1 .. n PROVE Frames'[k] = Frames[k]
  <2>1. k \in DOMAIN Messages /\ k \in DOMAIN Messages' /\ Messages'[k] = Messages[k]
    BY <1>2, <1>3
  <2> QED BY <2>1 DEF Frames, FrameHeader, FrameRest
<1>5. Frames'[n + 1] = f
  <2>1. n + 1 \in DOMAIN Messages' /\ Messages'[n + 1] = m
    BY <1>2, <1>3
  <2> QED BY <2>1 DEF Frames, FrameHeader, FrameRest
<1>6. Seqs(WireByte, n, Frames)
  BY <1>1, FramesAre
<1>7. Seqs(WireByte, n + 1, Frames')
  <2>1. ASSUME NEW k \in 1 .. n + 1 PROVE Frames'[k] \in Seq(WireByte)
    <3>1. CASE k = n + 1
      BY <1>5, <3>1
    <3>2. CASE k # n + 1
      <4>1. k \in 1 .. n
        BY <3>2
      <4> QED BY <1>4, <1>6, <4>1 DEF Seqs
    <3> QED BY <3>1, <3>2
  <2> QED BY <2>1 DEF Seqs
<1>8. ASSUME NEW k \in 0 .. n PROVE Joined(Frames', k) = Joined(Frames, k)
  <2>1. k \in Nat /\ \A i \in 1 .. k : Frames'[i] = Frames[i]
    BY <1>4
  <2> QED BY <2>1, JoinedSame
<1> DEFINE all == Joined(Frames, n)
           new == Joined(Frames', n + 1)
<1>9. all \in Seq(WireByte) /\ new \in Seq(WireByte) /\ new = all \o f
  <2>1. n + 1 \in Nat \ {0} /\ n + 1 - 1 = n /\ n \in 0 .. n
    OBVIOUS
  <2>2. /\ Joined(Frames', n + 1 - 1) \in Seq(WireByte) /\ new \in Seq(WireByte)
        /\ new = Joined(Frames', n + 1 - 1) \o Frames'[n + 1]
    <3>1. PICK q, g : q \in Nat \ {0} /\ q = n + 1 /\ g = Frames'
      BY <2>1
    <3>2. Seqs(WireByte, q, g)
      BY <1>7, <3>1
    <3>3. /\ Joined(g, q - 1) \in Seq(WireByte) /\ Joined(g, q) \in Seq(WireByte)
          /\ Joined(g, q) = Joined(g, q - 1) \o g[q]
      BY <3>1, <3>2, JoinedNext
    <3> QED BY <3>1, <3>3
  <2>3. Joined(Frames', n + 1 - 1) = all
    BY <1>8, <2>1
  <2> QED BY <1>5, <2>2, <2>3
<1> HIDE DEF all, new
<1>10. PICK a \in Nat, b \in Nat, w \in Nat : a = Len(all) /\ b = Len(f) /\ w = Len(wire)
  BY <1>9, LenProperties DEF TypeInv
<1>11. /\ new \in Seq(WireByte) /\ Len(new) = a + b
       /\ \A i \in 1 .. a : i \in 1 .. a + b /\ new[i] = all[i]
       /\ \A i \in 1 .. b : a + i \in 1 .. a + b /\ new[a + i] = f[i]
  <2>1. Follows(WireByte, all, f, new, a, b)
    BY <1>9, <1>10, ConcatAt
  <2> QED BY <2>1 DEF Follows
<1>12. /\ Len(wire') = w + b
       /\ \A i \in 1 .. w : i \in 1 .. w + b /\ wire'[i] = wire[i]
       /\ \A i \in 1 .. b : w + i \in 1 .. w + b /\ wire'[w + i] = f[i]
  <2>1. wire \in Seq(WireByte)
    BY DEF TypeInv
  <2>2. Follows(WireByte, wire, f, wire', w, b)
    BY <1>10, <2>1, ConcatAt
  <2> QED BY <2>2 DEF Follows
<1>13. w <= a /\ \A i \in 1 .. w : wire[i] = all[a - w + i]
  BY <1>1, <1>10 DEF OnWire, all
<1>14. ASSUME NEW i \in 1 .. w + b PROVE wire'[i] = new[a + b - (w + b) + i]
  <2>1. CASE i <= w
    <3>1. i \in 1 .. w /\ a - w + i \in 1 .. a /\ a + b - (w + b) + i = a - w + i
      BY <1>13, <2>1
    <3> QED BY <1>11, <1>12, <1>13, <3>1
  <2>2. CASE ~(i <= w)
    <3>1. PICK l \in 1 .. b : i = w + l
      <4>1. i - w \in 1 .. b /\ i = w + (i - w)
        BY <2>2
      <4> QED BY <4>1
    <3>2. a + b - (w + b) + i = a + l
      BY <3>1
    <3> QED BY <1>11, <1>12, <3>1, <3>2
  <2> QED BY <2>1, <2>2
<1>15. OnWire'
  <2>1. Len(wire') <= Len(new)
    BY <1>11, <1>12, <1>13
  <2>2. \A i \in 1 .. Len(wire') : wire'[i] = new[Len(new) - Len(wire') + i]
    BY <1>11, <1>12, <1>14
  <2> QED BY <1>2, <2>1, <2>2 DEF OnWire, new
<1>16. ASSUME NEW k, NEW j, At(k, j) PROVE At(k, j)'
  <2>1. k \in 1 .. n + 1 /\ j \in Int /\ Len(Joined(Frames, k - 1)) + j + w = a
    BY <1>1, <1>10, <1>16 DEF At, all
  <2>2. k - 1 \in 0 .. n /\ k \in 1 .. n + 1 + 1
    BY <2>1
  <2>3. Joined(Frames', k - 1) = Joined(Frames, k - 1)
    BY <1>8, <2>2
  <2>4. Len(Joined(Frames, k - 1)) \in Nat
    <3>1. k - 1 \in Nat /\ Seqs(WireByte, k - 1, Frames)
      BY <1>6, <2>2 DEF Seqs
    <3> QED BY <3>1, JoinedType, LenProperties
  <2>5. PICK l \in Nat : l = Len(Joined(Frames, k - 1))
    BY <2>4
  <2>6. l + j + (w + b) = a + b
    <3>1. j \in Int /\ l + j + w = a
      BY <2>1, <2>5
    <3> QED BY <3>1
  <2> QED BY <1>2, <1>11, <1>12, <2>1, <2>2, <2>3, <2>5, <2>6 DEF At, new
<1>17. ASSUME NEW k \in 0 .. n PROVE Joined(Parts', k) = Joined(Parts, k)
  <2>1. ASSUME NEW i \in 1 .. k PROVE Parts'[i] = Parts[i]
    <3>1. i \in DOMAIN Messages /\ i \in DOMAIN Messages' /\ Messages'[i] = Messages[i]
      BY <1>2, <1>3
    <3> QED BY <3>1 DEF Parts
  <2>2. k \in Nat
    OBVIOUS
  <2> QED BY <2>1, <2>2, JoinedSame
<1> QED BY <1>1, <1>2, <1>4, <1>15, <1>16, <1>17

-----------------------------------------------------------------------------
(* What was posted *)

LEMMA ContentsAre ==
  ASSUME TypeInv
  PROVE  /\ Contents \in Seq(Nat) /\ Contents = Joined(Parts, Len(Messages))
<1>1. PICK n \in Nat : n = Len(posted)
  BY MessagesAre
<1>2. Seqs(Nat, Len(Messages), Parts) /\ \A k \in 1 .. Len(Messages) : Parts[k] = Messages[k].data
  BY PartsAre
<1>3. n <= Len(Messages) /\ Len(Messages) \in Nat /\ \A k \in 1 .. n : Messages[k] = posted[k]
  BY <1>1, MessagesAre
<1>4. Seqs(Nat, n, Parts)
  BY <1>2, <1>3 DEF Seqs
<1>5. Contents = Joined(Parts, n)
  <2>1. DOMAIN posted = 1 .. n
    BY <1>1, LenProperties DEF TypeInv
  <2>2. \A k \in 1 .. n : Parts[k] = posted[k].data
    BY <1>2, <1>3
  <2>3. [k \in DOMAIN posted |-> posted[k].data] = [k \in 1 .. n |-> Parts[k]]
    BY <2>1, <2>2
  <2> QED BY <2>3 DEF Contents, Joined
<1>6. Contents \in Seq(Nat)
  BY <1>4, <1>5, JoinedType
<1>7. CASE Len(Messages) = n
  BY <1>5, <1>6, <1>7
<1>8. CASE Len(Messages) # n
  <2>1. PICK k \in Nat \ {0} : k = Len(Messages) /\ k > n
    BY <1>3, <1>8
  <2>2. k \in 1 .. Len(Messages) /\ k > Len(posted)
    BY <1>1, <2>1
  <2>3. Messages[k] = LastMessage
    BY <2>2, MessagesAre
  <2>4. Parts[k] = <<>>
    BY <1>2, <2>2, <2>3 DEF LastMessage
  <2>5. k - 1 = n
    <3> SUFFICES ASSUME k - 1 # n PROVE FALSE
      OBVIOUS
    <3>1. k - 1 \in 1 .. Len(Messages) /\ k - 1 > Len(posted) /\ k - 1 # Len(Messages)
      BY <1>1, <2>1
    <3> QED BY <3>1, MessagesAre
  <2>6. Joined(Parts, k - 1) \in Seq(Nat) /\ Joined(Parts, k) = Joined(Parts, k - 1) \o Parts[k]
    BY <1>2, <2>1, JoinedNext
  <2>7. Joined(Parts, k) = Joined(Parts, k - 1)
    BY <2>4, <2>6, ConcatEmptySeq
  <2> QED BY <1>5, <1>6, <2>1, <2>5, <2>7
<1> QED BY <1>7, <1>8

\* Posting adds to the contents.
LEMMA ContentsPost ==
  ASSUME TypeInv, NEW t \in 0 .. 9, NEW p \in Payloads,
         posted' = Append(posted, [type |-> t, data |-> p])
  PROVE  Contents' = Contents \o p
<1> DEFINE m == [type |-> t, data |-> p]
           B == [type : 0 .. 9, data : Payloads]
<1>1. PICK n \in Nat : n = Len(posted)
  BY MessagesAre
<1>2. m \in B /\ posted \in Seq(B) /\ m.data = p
  BY DEF TypeInv
<1>3. posted' = Append(posted, m)
  OBVIOUS
<1> HIDE DEF m, B
<1>4. /\ posted' \in Seq(B) /\ Len(posted') = n + 1
      /\ \A k \in 1 .. n : posted'[k] = posted[k]
      /\ posted'[n + 1] = m
  BY <1>1, <1>2, <1>3, AppendProperties
<1> DEFINE s == [k \in 1 .. n + 1 |-> posted'[k].data]
<1>5. ASSUME NEW k \in 1 .. n + 1 PROVE posted'[k].data \in Seq(Nat)
  <2>1. posted'[k] \in B
    BY <1>4, ElementOfSeq
  <2> QED BY <2>1, PayloadIs DEF B
<1>6. s \in [1 .. n + 1 -> Seq(Nat)]
  BY <1>5
<1>7. s[n + 1] = p
  BY <1>2, <1>4
<1>8. [i \in 1 .. n |-> s[i]] = [k \in 1 .. n |-> posted[k].data]
  BY <1>4
<1>9. Contents' = FlattenSeq(s)
  <2>1. DOMAIN posted' = 1 .. n + 1
    BY <1>4, LenProperties
  <2> QED BY <2>1 DEF Contents
<1>10. Contents = FlattenSeq([k \in 1 .. n |-> posted[k].data])
  <2>1. DOMAIN posted = 1 .. n
    BY <1>1, <1>2, LenProperties
  <2> QED BY <2>1 DEF Contents
<1> HIDE DEF s
<1>11. PICK q \in Nat \ {0} : q = n + 1 /\ q - 1 = n
  OBVIOUS
<1>12. FlattenSeq(s) = FlattenSeq([i \in 1 .. q - 1 |-> s[i]]) \o s[q]
  <2>1. s \in [1 .. q -> Seq(Nat)]
    BY <1>6, <1>11
  <2> QED BY <2>1, FlattenLast
<1> QED BY <1>7, <1>8, <1>9, <1>10, <1>11, <1>12

\* The first d bytes of message k, after all those of the messages before it.
LEMMA StoredPart ==
  ASSUME TypeInv, NEW k \in 1 .. Len(Messages), NEW d \in 0 .. DataLen(k), NEW s,
         s = Joined(Parts, k - 1) \o SubSeq(Messages[k].data, 1, d)
  PROVE  /\ Begins(Nat, s, Contents)
         /\ d = 0 => s = Joined(Parts, k - 1)
         /\ d = DataLen(k) => s = Joined(Parts, k)
<1>1. /\ Seqs(Nat, Len(Messages), Parts) /\ Len(Messages) \in Nat
      /\ Parts[k] = Messages[k].data /\ Messages[k].data \in Seq(Nat) /\ DataLen(k) \in Nat
  BY PartsAre, MessagesAre
<1>2. PICK p, x : p = Messages[k].data /\ x = Joined(Parts, k - 1)
  OBVIOUS
<1>3. k \in Nat \ {0} /\ k \in 0 .. Len(Messages) /\ Seqs(Nat, k, Parts)
  BY <1>1 DEF Seqs
<1>4. x \in Seq(Nat) /\ Joined(Parts, k) = x \o p /\ p \in Seq(Nat)
  BY <1>1, <1>2, <1>3, JoinedNext
<1>5. Begins(Nat, Joined(Parts, k), Contents)
  BY <1>1, <1>3, JoinedPart, ContentsAre
<1>6. PICK l \in Nat : l = Len(p) /\ l = DataLen(k) /\ d \in 0 .. l
  BY <1>1, <1>2 DEF DataLen
<1>7. /\ p = SubSeq(p, 1, d) \o SubSeq(p, d + 1, l)
      /\ SubSeq(p, 1, d) \in Seq(Nat) /\ SubSeq(p, d + 1, l) \in Seq(Nat)
  <2>1. 1 \in 1 .. l + 1 /\ d \in 0 .. l /\ l \in d .. l /\ d \in 1 - 1 .. l
    BY <1>6
  <2>2. SubSeq(p, 1, d) \o SubSeq(p, d + 1, l) = SubSeq(p, 1, l)
    BY <1>4, <1>6, <2>1, ConcatAdjacentSubSeq
  <2>3. SubSeq(p, 1, l) = p
    BY <1>4, <1>6, SubSeqFull
  <2>4. \A i \in 1 .. l : p[i] \in Nat
    BY <1>4, <1>6, ElementOfSeq
  <2>5. SubSeq(p, 1, d) \in Seq(Nat)
    BY <1>6, <2>4, SubSeqProperties
  <2>6. SubSeq(p, d + 1, l) \in Seq(Nat)
    BY <1>6, <2>4, SubSeqProperties
  <2> QED BY <2>2, <2>3, <2>5, <2>6
<1>8. PICK u \in Seq(Nat), v \in Seq(Nat) : u = SubSeq(p, 1, d) /\ v = SubSeq(p, d + 1, l) /\ p = u \o v
  BY <1>7
<1>9. s = x \o u
  BY <1>2, <1>8
<1>11. Begins(Nat, s, Contents)
  <2>1. Begins(Nat, x \o (u \o v), Contents)
    BY <1>4, <1>5, <1>8
  <2>2. Begins(Nat, x \o u, Contents)
    BY <1>4, <2>1, BeginsLess
  <2> QED BY <1>9, <2>2
<1>12. d = 0 => s = x
  <2> SUFFICES ASSUME d = 0 PROVE s = x
    OBVIOUS
  <2>1. u = <<>>
    BY <1>8, SubSeqEmpty
  <2> QED BY <1>4, <1>9, <2>1, ConcatEmptySeq
<1>13. d = l => s = x \o p
  <2>1. SubSeq(p, 1, l) = p
    BY <1>4, <1>6, SubSeqFull
  <2> QED BY <1>8, <1>9, <2>1
<1> QED BY <1>2, <1>4, <1>6, <1>11, <1>12, <1>13

LEMMA StoredParts ==
  ASSUME TypeInv, NEW k \in 0 .. Len(Messages)
  PROVE  Begins(Nat, Joined(Parts, k), Contents)
BY PartsAre, JoinedPart, ContentsAre

-----------------------------------------------------------------------------
(* recv *)

\* What recv returns.
LEMMA RecvIs ==
  ASSUME TypeInv, NEW n \in Nat
  PROVE  /\ lesser(n, arrived) \in 0 .. arrived /\ lesser(n, arrived) <= n /\ arrived \in Nat
         /\ Recv(n) \in Seq(Nat) /\ Len(Recv(n)) = lesser(n, arrived)
         /\ \A i \in 1 .. lesser(n, arrived) : Recv(n)[i] = wire[i].b
         /\ Recv(n) = <<>> <=> lesser(n, arrived) = 0
         /\ Recv(n) = <<>> <=> n = 0 \/ arrived = 0
<1>1. arrived \in Nat /\ arrived <= Len(wire) /\ Len(wire) \in Nat
  BY LenProperties DEF TypeInv
<1>2. PICK m \in Nat : m = lesser(n, arrived) /\ m <= n /\ m <= arrived /\ (m = 0 <=> n = 0 \/ arrived = 0)
  BY <1>1 DEF lesser
<1>3. ASSUME NEW i \in 1 .. m PROVE wire[i].b \in Nat
  <2>1. i \in 1 .. Len(wire)
    BY <1>1, <1>2
  <2>2. wire[i] \in WireByte
    BY <2>1, ElementOfSeq DEF TypeInv
  <2> QED BY <2>2 DEF WireByte
<1>4. Recv(n) = [i \in 1 .. m |-> wire[i].b] /\ Recv(n) \in [1 .. m -> Nat]
  BY <1>2, <1>3 DEF Recv
<1>5. Recv(n) \in Seq(Nat) /\ Len(Recv(n)) = m
  BY <1>4, SeqIs
<1>6. Recv(n) = <<>> <=> m = 0
  BY <1>5, EmptySeq
<1> QED BY <1>1, <1>2, <1>4, <1>5, <1>6

\* What recv leaves.
LEMMA TakeIs ==
  ASSUME TypeInv, Unsplit, NEW n \in 0 .. arrived, NEW bytes, Len(bytes) = n, Take(bytes)
  PROVE  /\ n \in 0 .. Len(wire) /\ wire' = SubSeq(wire, n + 1, Len(wire)) /\ wire' \in Seq(WireByte)
         /\ Len(wire') = Len(wire) - n /\ \A i \in 1 .. Len(wire) - n : wire'[i] = wire[n + i]
         /\ arrived' = arrived - n /\ arrived' \in 0 .. Len(wire') /\ Unsplit'
<1>1. arrived \in Nat /\ arrived <= Len(wire) /\ wire \in Seq(WireByte)
  BY LenProperties DEF TypeInv
<1>2. PICK w \in Nat : w = Len(wire)
  BY <1>1, LenProperties
<1>3. wire' = SubSeq(wire, n + 1, w) /\ arrived' = arrived - n
  BY <1>2 DEF Take
<1>4. \A i \in n + 1 .. w : wire[i] \in WireByte
  <2>1. \A i \in n + 1 .. w : i \in 1 .. Len(wire)
    BY <1>1, <1>2
  <2> QED BY <1>1, <2>1, ElementOfSeq
<1>5. /\ wire' \in Seq(WireByte) /\ Len(wire') = IF n + 1 <= w THEN w - (n + 1) + 1 ELSE 0
      /\ \A i \in 1 .. w - (n + 1) + 1 : wire'[i] = wire[n + 1 + i - 1]
  <2>1. n + 1 \in Int
    BY <1>1
  <2> QED BY <1>3, <1>4, <2>1, SubSeqProperties
<1>6. n \in Nat /\ n <= arrived /\ n <= w
  BY <1>1, <1>2
<1>7. Len(wire') = w - n
  BY <1>5, <1>6
<1>8. ASSUME NEW i \in 1 .. w - n PROVE wire'[i] = wire[n + i]
  <2>1. i \in 1 .. w - (n + 1) + 1 /\ n + 1 + i - 1 = n + i
    BY <1>6
  <2> QED BY <1>5, <2>1
<1>9. arrived' \in 0 .. Len(wire')
  BY <1>1, <1>2, <1>3, <1>6, <1>7
<1>10. Unsplit'
  <2> SUFFICES ASSUME arrived' # 0 PROVE ~wire'[arrived'].glued
    BY DEF Unsplit
  <2>1. arrived' \in 1 .. w - n /\ n + arrived' = arrived /\ arrived # 0
    BY <1>1, <1>3, <1>6, <1>7, <1>9
  <2>2. wire'[arrived'] = wire[arrived]
    BY <1>8, <2>1
  <2> QED BY <2>1, <2>2 DEF Unsplit
<1> QED BY <1>2, <1>3, <1>5, <1>6, <1>7, <1>8, <1>9, <1>10

\* A message is written: the type, and what the socket holds.
LEMMA PostIs ==
  ASSUME TypeInv, Unsplit, NEW t \in 0 .. 9, NEW p \in Payloads, NEW f \in Seq(WireByte),
         Post(t, p, f)
  PROVE  /\ posted' \in Seq([type : 0 .. 9, data : Payloads])
         /\ posted' = Append(posted, [type |-> t, data |-> p])
         /\ wire' \in Seq(WireByte) /\ arrived' \in 0 .. Len(wire') /\ Unsplit'
         /\ wire' = wire \o f /\ UNCHANGED <<body, arrived, c, taken, stored>>
<1>1. [type |-> t, data |-> p] \in [type : 0 .. 9, data : Payloads]
  OBVIOUS
<1>2. posted' \in Seq([type : 0 .. 9, data : Payloads])
  BY <1>1, AppendProperties DEF Post, TypeInv
<1>3. wire \in Seq(WireByte) /\ wire' = wire \o f
  BY DEF Post, TypeInv
<1>4. PICK w \in Nat, b \in Nat : w = Len(wire) /\ b = Len(f)
  BY <1>3, LenProperties
<1>5. /\ wire' \in Seq(WireByte) /\ Len(wire') = w + b
      /\ \A i \in 1 .. w : wire'[i] = wire[i]
  <2>1. Follows(WireByte, wire, f, wire', w, b)
    BY <1>3, <1>4, ConcatAt
  <2> QED BY <2>1 DEF Follows
<1>6. arrived \in 0 .. w /\ arrived' = arrived
  BY <1>4 DEF TypeInv, Post
<1>7. arrived' \in 0 .. Len(wire')
  BY <1>5, <1>6
<1>8. Unsplit'
  <2>1. CASE arrived = 0
    BY <1>6, <2>1 DEF Unsplit
  <2>2. CASE arrived # 0
    <3>1. wire'[arrived] = wire[arrived]
      BY <1>5, <1>6, <2>2
    <3> QED BY <1>6, <2>2, <3>1 DEF Unsplit
  <2> QED BY <2>1, <2>2
<1> QED BY <1>2, <1>3, <1>5, <1>7, <1>8 DEF Post

-----------------------------------------------------------------------------
(* TypeInv *)

Pcs == {"poll", "sync", "F", "FF", "type", "size", "data", "chunk", "body", "over"}
CType == [pc : Pcs, buf : [1 .. SizeBytes -> Nat], type : Int,
          sff : [type : Int, size : Nat, data : Seq(Nat)], head : Seq(Nat),
          chunk_size : Int, data_count : Nat]

LEMMA TypeIs == TypeInv <=>
  /\ body \in Bodies /\ tx \in {"header", "packets", "closed", "cut"}
  /\ posted \in Seq([type : 0 .. 9, data : Payloads])
  /\ wire \in Seq(WireByte) /\ arrived \in 0 .. Len(wire) /\ c \in CType
  /\ taken \in Seq([type : Int, data : Seq(Nat)]) /\ stored \in Seq(Nat)
BY DEF TypeInv, CType, Pcs

\* The test at the end of http_receive_data changes pc only.
LEMMA CheckIs ==
  ASSUME NEW m \in CType, NEW len, NEW errno, Check(m, len, errno)
  PROVE  c' \in CType /\ c' = [m EXCEPT !.pc = c'.pc]
         /\ c'.pc = IF Over(m, len, errno) THEN "over" ELSE "poll"
BY DEF Check, CType, Pcs

LEMMA InitType == Init => TypeInv
<1> SUFFICES ASSUME Init PROVE TypeInv
  OBVIOUS
<1>1. Zeros \in [1 .. SizeBytes -> Nat]
  BY DEF Zeros
<1>2. c \in CType
  BY <1>1, EmptySeq DEF Init, CType, Pcs, NoSff
<1>3. /\ body \in Bodies /\ tx \in {"header", "packets", "closed", "cut"}
      /\ arrived = 0 /\ posted = <<>> /\ wire = <<>> /\ taken = <<>> /\ stored = <<>>
  BY DEF Init
<1>4. arrived \in 0 .. Len(wire)
  BY <1>3, EmptySeq
<1> QED BY <1>2, <1>3, <1>4, EmptySeq, TypeIs

LEMMA PostStep ==
  ASSUME TypeInv, Unsplit, NEW t \in 0 .. 9, NEW p \in Payloads, NEW f \in Seq(WireByte),
         Post(t, p, f), tx' \in {"header", "packets", "closed", "cut"}
  PROVE  TypeInv' /\ Unsplit'
BY PostIs DEF TypeInv

LEMMA TakeStep ==
  ASSUME TypeInv, Unsplit, NEW bytes, NEW n \in 0 .. arrived, Len(bytes) = n, Take(bytes),
         UNCHANGED <<body, tx, posted>>, c' \in CType,
         taken' \in Seq([type : Int, data : Seq(Nat)]), stored' \in Seq(Nat)
  PROVE  TypeInv' /\ Unsplit'
<1>1. wire' \in Seq(WireByte) /\ arrived' \in 0 .. Len(wire') /\ Unsplit'
  BY TakeIs
<1> QED BY <1>1 DEF TypeInv, CType, Pcs

LEMMA SffBlockType ==
  ASSUME NEW t \in 0 .. 9, NEW p \in Payloads
  PROVE  sff_write_block(t, p) \in Seq(WireByte)
<1>1. p \in Seq(Nat) /\ Len(p) \in Nat
  BY PayloadIs
<1>2. BlockHeader(t, Len(p)) \in Seq(Nat)
  BY <1>1, BlockHeaderIs
<1>3. MadeOf(Framed(BlockHeader(t, Len(p)), p), BlockHeader(t, Len(p)), p,
             Len(BlockHeader(t, Len(p))), Len(p))
  BY <1>1, <1>2, FramedIs
<1> QED BY <1>3 DEF MadeOf, sff_write_block, BlockHeader

LEMMA ChunkType ==
  ASSUME NEW d \in Seq(Nat)
  PROVE  Chunk(d) \in Seq(WireByte)
<1>1. PICK n, w : n \in Nat /\ n = Len(d) /\ w = Width(n)
  BY LenProperties
<1>2. ChunkHead(n) \in Seq(Nat)
  BY <1>1, ChunkHeadIs
<1>3. d \o <<CR, LF>> \in Seq(Nat)
  <2>1. <<CR, LF>> \in Seq(Nat)
    BY DEF CR, LF
  <2> QED BY <2>1, ConcatProperties
<1>4. MadeOf(Framed(ChunkHead(n), d \o <<CR, LF>>), ChunkHead(n), d \o <<CR, LF>>,
             Len(ChunkHead(n)), Len(d \o <<CR, LF>>))
  BY <1>2, <1>3, FramedIs
<1> QED BY <1>1, <1>4 DEF MadeOf, Chunk, ChunkHead

LEMMA PlainType ==
  ASSUME NEW d \in Seq(Nat)
  PROVE  /\ Framed(<<>>, d) \in Seq(WireByte) /\ Len(Framed(<<>>, d)) = Len(d)
         /\ \A i \in 1 .. Len(d) : Framed(<<>>, d)[i].b = d[i]
<1>1. <<>> \in Seq(Nat) /\ Len(<<>>) = 0 /\ Len(d) \in Nat
  BY EmptySeq, LenProperties
<1>2. MadeOf(Framed(<<>>, d), <<>>, d, 0, Len(d))
  BY <1>1, FramedIs
<1>3. PICK n \in Nat : n = Len(d)
  BY <1>1
<1>4. Len(Framed(<<>>, d)) = n
  BY <1>2, <1>3 DEF MadeOf
<1>5. ASSUME NEW i \in 1 .. n PROVE Framed(<<>>, d)[i].b = d[i]
  <2>1. Framed(<<>>, d)[0 + i].b = d[i]
    BY <1>2, <1>3 DEF MadeOf
  <2> QED BY <2>1
<1> QED BY <1>2, <1>3, <1>4, <1>5 DEF MadeOf

LEMMA RecvType ==
  ASSUME TypeInv, NEW n \in Int
  PROVE  Recv(n) \in Seq(Nat) /\ Len(Recv(n)) \in 0 .. arrived
<1>1. CASE n \in Nat
  BY <1>1, RecvIs
<1>2. CASE n \notin Nat
  <2>1. arrived \in Nat
    BY LenProperties DEF TypeInv
  <2>2. lesser(n, arrived) = n /\ 1 .. n = {}
    BY <1>2, <2>1 DEF lesser
  <2>3. Recv(n) = <<>>
    BY <2>2 DEF Recv
  <2> QED BY <2>1, <2>3, EmptySeq
<1> QED BY <1>1, <1>2

LEMMA FirstNat == ASSUME NEW s \in Seq(Nat), s # <<>> PROVE s[1] \in Nat
<1>1. Len(s) \in Nat /\ 1 \in 1 .. Len(s)
  BY LenProperties, EmptySeq
<1> QED BY <1>1, ElementOfSeq

LEMMA SyncType ==
  ASSUME TypeInv, Unsplit, Sync
  PROVE  TypeInv' /\ Unsplit'
<1>1. PICK byte : byte = Recv(1)
  OBVIOUS
<1>2. byte \in Seq(Nat) /\ Len(byte) \in 0 .. arrived
  BY <1>1, RecvType
<1>3. c \in CType
  BY TypeIs
<1>4. c' \in CType
  <2>1. CASE byte = <<>>
    <3>1. Check(c, Length(byte), "EAGAIN")
      BY <1>1, <2>1 DEF Sync
    <3> QED BY <1>3, <3>1, CheckIs
  <2>2. CASE byte # <<>>
    <3>1. byte[1] \in Nat
      BY <1>2, <2>2, FirstNat
    <3>2. c' = [c EXCEPT !.buf[1] = byte[1], !.pc = IF byte[1] = chS THEN "F" ELSE "sync"]
      BY <1>1, <2>2 DEF Sync
    <3> QED BY <1>3, <3>1, <3>2 DEF CType, Pcs
  <2> QED BY <2>1, <2>2
<1>5. Take(byte) /\ UNCHANGED <<body, tx, posted, taken, stored>>
  BY <1>1 DEF Sync
<1>6. taken' \in Seq([type : Int, data : Seq(Nat)]) /\ stored' \in Seq(Nat)
  BY <1>5, TypeIs
<1> QED BY <1>2, <1>4, <1>5, <1>6, TakeStep

LEMMA SyncWordType ==
  ASSUME TypeInv, Unsplit, SyncWord
  PROVE  TypeInv' /\ Unsplit'
<1>1. PICK byte, ptr : byte = Recv(1) /\ ptr = IF byte = <<>> THEN c.buf[1] ELSE byte[1]
  OBVIOUS
<1>2. byte \in Seq(Nat) /\ Len(byte) \in 0 .. arrived
  BY <1>1, RecvType
<1>3. c \in CType
  BY TypeIs
<1>4. 1 \in 1 .. SizeBytes
  BY PostAssumption
<1>5. ptr \in Nat
  BY <1>1, <1>2, <1>3, <1>4, FirstNat DEF CType
<1>6. c' = [c EXCEPT !.buf[1] = ptr,
                     !.type = IF c.pc = "type" THEN ptr - ch0 ELSE @,
                     !.pc = IF ptr \in Wanted(c.pc) THEN NextOf(c.pc) ELSE "sync"]
  BY <1>1 DEF SyncWord
<1>7. c.pc \in {"F", "FF", "type"}
  BY DEF SyncWord
<1>8. c' \in CType
  <2>1. PICK pc : pc = IF ptr \in Wanted(c.pc) THEN NextOf(c.pc) ELSE "sync"
    OBVIOUS
  <2>2. PICK t : t = IF c.pc = "type" THEN ptr - ch0 ELSE c.type
    OBVIOUS
  <2>3. PICK b : b = [c.buf EXCEPT ![1] = ptr]
    OBVIOUS
  <2>4. pc \in Pcs
    BY <1>7, <2>1 DEF Pcs, NextOf
  <2>5. t \in Int
    BY <1>3, <1>5, <2>2 DEF CType, ch0
  <2>6. b \in [1 .. SizeBytes -> Nat]
    BY <1>3, <1>5, <2>3 DEF CType
  <2>7. c' = [c EXCEPT !.buf = b, !.type = t, !.pc = pc]
    BY <1>6, <2>1, <2>2, <2>3
  <2> QED BY <1>3, <2>4, <2>5, <2>6, <2>7 DEF CType
<1>9. Take(byte) /\ UNCHANGED <<body, tx, posted, taken, stored>>
  BY <1>1 DEF SyncWord
<1>10. taken' \in Seq([type : Int, data : Seq(Nat)]) /\ stored' \in Seq(Nat)
  BY <1>9, TypeIs
<1> QED BY <1>2, <1>8, <1>9, <1>10, TakeStep

LEMMA ValueType ==
  ASSUME NEW k \in Nat, NEW ds \in [1 .. k -> Nat], Len(ds) = k
  PROVE  Value(ds) \in Nat
<1> DEFINE step == [p \in (1 .. k) \X Nat |-> p[2] * Base + ds[p[1]]]
<1>0. Base \in Nat
  BY PostAssumption
<1>1. step \in [(1 .. k) \X Nat -> Nat]
  BY <1>0, SMTT(30)
<1>2. PICK f \in [0 .. k -> Nat] : f[0] = 0 /\ \A i \in 1 .. k : f[i] = step[<<i, f[i - 1]>>]
  <2> HIDE DEF step
  <2>1. Recurs(Nat, 0, k, step)
    BY <1>1, Recursion
  <2> QED BY <2>1 DEF Recurs
<1>3. ASSUME NEW i \in 1 .. k PROVE f[i] = f[i - 1] * Base + ds[i]
  <2>1. f[i - 1] \in Nat
    OBVIOUS
  <2>2. step[<<i, f[i - 1]>>] = f[i - 1] * Base + ds[i]
    BY <2>1
  <2> QED BY <1>2, <2>2
<1>4. Counts(k, ds, f)
  BY <1>2, <1>3 DEF Counts
<1>5. Value(ds) = f[k]
  BY <1>4, ValueBy
<1> QED BY <1>5

\* The bytes of a whole recv are the buffer, and their value is a number.
LEMMA SizeIs ==
  ASSUME TypeInv, NEW bytes, bytes = Recv(SizeBytes), NEW buf,
         buf = bytes \o SubSeq(c.buf, Len(bytes) + 1, SizeBytes)
  PROVE  /\ buf \in [1 .. SizeBytes -> Nat] /\ Len(buf) = SizeBytes
         /\ Len(bytes) = SizeBytes => buf = bytes
         /\ Value(buf) \in Nat
<1>1. PICK n \in Nat \ {0} : n = SizeBytes
  BY PostAssumption
<1>2. /\ bytes \in Seq(Nat) /\ Len(bytes) \in 0 .. n
  <2>1. Len(bytes) = lesser(n, arrived) /\ lesser(n, arrived) <= n /\ lesser(n, arrived) \in 0 .. arrived
        /\ arrived \in Nat /\ bytes \in Seq(Nat)
    BY <1>1, RecvIs
  <2> QED BY <2>1
<1>3. PICK m \in 0 .. n : m = Len(bytes)
  BY <1>2
<1>4. c.buf \in [1 .. n -> Nat] /\ c.buf \in Seq(Nat) /\ Len(c.buf) = n
  BY <1>1, SeqIs, TypeIs DEF CType
<1>5. PICK rest : rest = SubSeq(c.buf, m + 1, n)
  OBVIOUS
<1>6. rest \in Seq(Nat) /\ Len(rest) = n - m
  <2>1. \A i \in m + 1 .. n : c.buf[i] \in Nat
    BY <1>4
  <2>2. rest \in Seq(Nat) /\ Len(rest) = IF m + 1 <= n THEN n - (m + 1) + 1 ELSE 0
    BY <1>5, <2>1, SubSeqProperties
  <2> QED BY <2>2
<1>7. buf = bytes \o rest
  BY <1>1, <1>3, <1>5
<1>8. buf \in Seq(Nat) /\ Len(buf) = m + (n - m)
  BY <1>2, <1>3, <1>6, <1>7, ConcatProperties
<1>9. Len(buf) = n
  BY <1>8
<1>10. buf \in [1 .. n -> Nat]
  BY <1>8, <1>9, LenProperties, ElementOfSeq
<1>11. m = n => buf = bytes
  <2> SUFFICES ASSUME m = n PROVE buf = bytes
    OBVIOUS
  <2>1. rest = <<>>
    BY <1>6, EmptySeq
  <2> QED BY <1>2, <1>7, <2>1, ConcatEmptySeq
<1>12. Value(buf) \in Nat
  BY <1>9, <1>10, ValueType
<1> QED BY <1>1, <1>3, <1>9, <1>10, <1>11, <1>12

LEMMA SizeType ==
  ASSUME TypeInv, Unsplit, Size
  PROVE  TypeInv' /\ Unsplit'
<1>1. PICK bytes : bytes = Recv(SizeBytes)
  OBVIOUS
<1>2. PICK buf : buf = bytes \o SubSeq(c.buf, Len(bytes) + 1, SizeBytes)
  OBVIOUS
<1>3. bytes \in Seq(Nat) /\ Len(bytes) \in 0 .. arrived
  <2>1. SizeBytes \in Int
    BY PostAssumption
  <2> QED BY <1>1, <2>1, RecvType
<1>4. buf \in [1 .. SizeBytes -> Nat] /\ Value(buf) \in Nat
  BY <1>1, <1>2, SizeIs
<1>5. c \in CType
  BY TypeIs
<1>6. c' = IF Fits(Value(buf))
           THEN [c EXCEPT !.buf = buf, !.pc = "data",
                          !.sff = [type |-> c.type, size |-> Value(buf), data |-> <<>>]]
           ELSE [c EXCEPT !.buf = buf, !.pc = "sync"]
  BY <1>1, <1>2 DEF Size
<1>7. c' \in CType
  <2>1. [type |-> c.type, size |-> Value(buf), data |-> <<>>] \in [type : Int, size : Nat, data : Seq(Nat)]
    BY <1>4, <1>5, EmptySeq DEF CType
  <2> QED BY <1>4, <1>5, <1>6, <2>1 DEF CType, Pcs
<1>8. Take(bytes) /\ UNCHANGED <<body, tx, posted, taken, stored>>
  BY <1>1 DEF Size
<1>9. taken' \in Seq([type : Int, data : Seq(Nat)]) /\ stored' \in Seq(Nat)
  BY <1>8, TypeIs
<1> QED BY <1>3, <1>7, <1>8, <1>9, TakeStep

LEMMA DataType ==
  ASSUME TypeInv, Unsplit, Data
  PROVE  TypeInv' /\ Unsplit'
<1>1. PICK bytes : bytes = Recv(c.sff.size - Len(c.sff.data))
  OBVIOUS
<1>2. PICK data : data = c.sff.data \o bytes
  OBVIOUS
<1>3. c \in CType
  BY TypeIs
<1>4. c.sff.data \in Seq(Nat) /\ c.sff.size \in Nat /\ c.sff.type \in Int
  BY <1>3 DEF CType
<1>5. bytes \in Seq(Nat) /\ Len(bytes) \in 0 .. arrived
  <2>1. c.sff.size - Len(c.sff.data) \in Int
    BY <1>4, LenProperties
  <2> QED BY <1>1, <2>1, RecvType
<1>6. data \in Seq(Nat)
  BY <1>2, <1>4, <1>5, ConcatProperties
<1>7. PICK m : m = [c EXCEPT !.sff = IF Len(data) = c.sff.size THEN NoSff ELSE [@ EXCEPT !.data = data]]
  OBVIOUS
<1>8. NoSff \in [type : Int, size : Nat, data : Seq(Nat)]
  BY EmptySeq DEF NoSff
<1>9. m \in CType
  BY <1>3, <1>6, <1>7, <1>8 DEF CType
<1>10. Check(m, Length(bytes), "EAGAIN")
  BY <1>1, <1>2, <1>7 DEF Data
<1>11. c' \in CType
  BY <1>9, <1>10, CheckIs
<1>12. Take(bytes) /\ UNCHANGED <<body, tx, posted, stored>>
  BY <1>1 DEF Data
<1>13. taken' \in Seq([type : Int, data : Seq(Nat)])
  <2>1. taken' = IF Len(data) = c.sff.size
                 THEN Append(taken, [type |-> c.sff.type, data |-> data]) ELSE taken
    BY <1>1, <1>2 DEF Data
  <2>2. [type |-> c.sff.type, data |-> data] \in [type : Int, data : Seq(Nat)]
    BY <1>4, <1>6
  <2>3. taken \in Seq([type : Int, data : Seq(Nat)])
    BY TypeIs
  <2> QED BY <2>1, <2>2, <2>3, AppendProperties
<1>14. stored' \in Seq(Nat)
  BY <1>12, TypeIs
<1> QED BY <1>5, <1>11, <1>12, <1>13, <1>14, TakeStep

\* A chunk header that ends is a number.
HeadCounts == /\ c.pc = "chunk" /\ Recv(1) # <<>>
              /\ HeaderEnds(c.head \o Recv(1))
              => strtol(c.head \o Recv(1)) \in Nat

LEMMA ChunkHeaderType ==
  ASSUME TypeInv, Unsplit, ChunkHeader, HeadCounts
  PROVE  TypeInv' /\ Unsplit'
<1>1. PICK byte : byte = Recv(1)
  OBVIOUS
<1>2. PICK head : head = c.head \o byte
  OBVIOUS
<1>3. c \in CType /\ c.head \in Seq(Nat)
  BY TypeIs DEF CType
<1>4. byte \in Seq(Nat) /\ Len(byte) \in 0 .. arrived
  BY <1>1, RecvType
<1>5. head \in Seq(Nat)
  BY <1>2, <1>3, <1>4, ConcatProperties
<1>6. c' \in CType
  <2>1. CASE byte = <<>>
    <3>1. PICK errno : Check(c, -1, errno)
      BY <1>1, <2>1 DEF ChunkHeader
    <3> QED BY <1>3, <3>1, CheckIs
  <2>2. CASE byte # <<>> /\ HeaderEnds(head)
    <3>1. strtol(head) \in Nat
      BY <1>1, <1>2, <2>2 DEF HeadCounts, ChunkHeader
    <3>2. CASE strtol(head) = 0
      <4>1. Check([c EXCEPT !.head = head], 0, "EAGAIN")
        BY <1>1, <1>2, <2>2, <3>2 DEF ChunkHeader
      <4>2. [c EXCEPT !.head = head] \in CType
        BY <1>3, <1>5 DEF CType
      <4> QED BY <4>1, <4>2, CheckIs
    <3>3. CASE strtol(head) # 0
      <4>1. PICK size \in Int : size = strtol(head)
        BY <3>1
      <4>2. c' = [c EXCEPT !.head = head, !.chunk_size = size, !.pc = "body"]
        BY <1>1, <1>2, <2>2, <3>3, <4>1 DEF ChunkHeader
      <4>3. PICK pc \in Pcs : pc = "body"
        BY DEF Pcs
      <4>4. c' = [c EXCEPT !.head = head, !.chunk_size = size, !.pc = pc]
        BY <4>2, <4>3
      <4> QED BY <1>3, <1>5, <4>4 DEF CType
    <3> QED BY <3>2, <3>3
  <2>3. CASE byte # <<>> /\ ~HeaderEnds(head)
    <3>1. c' = [c EXCEPT !.head = head]
      BY <1>1, <1>2, <2>3 DEF ChunkHeader
    <3> QED BY <1>3, <1>5, <3>1 DEF CType
  <2> QED BY <2>1, <2>2, <2>3
<1>7. Take(byte) /\ UNCHANGED <<body, tx, posted, taken, stored>>
  BY <1>1 DEF ChunkHeader
<1>8. taken' \in Seq([type : Int, data : Seq(Nat)]) /\ stored' \in Seq(Nat)
  BY <1>7, TypeIs
<1> QED BY <1>4, <1>6, <1>7, <1>8, TakeStep

LEMMA BodyDataType ==
  ASSUME TypeInv, Unsplit, BodyData, body.kind # "feed"
  PROVE  TypeInv' /\ Unsplit'
<1>1. PICK n : n = IF body.tr_encoding = 1 THEN lesser(c.chunk_size, buffer_size) ELSE buffer_size
  OBVIOUS
<1>2. PICK bytes : bytes = Recv(n)
  OBVIOUS
<1>3. PICK m : m = Chunked(c, Len(bytes))
  OBVIOUS
<1>4. c \in CType
  BY TypeIs
<1>5. bytes \in Seq(Nat) /\ Len(bytes) \in 0 .. arrived
  <2>1. n \in Int
    BY <1>1, <1>4, PostAssumption DEF lesser, CType
  <2> QED BY <1>2, <2>1, RecvType
<1>6. Len(bytes) \in Nat
  BY <1>5, LenProperties
<1>7. m \in CType
  <2>1. CASE body.tr_encoding = 1
    <3>1. PICK size \in Int : size = c.chunk_size - Len(bytes)
      BY <1>4, <1>6 DEF CType
    <3>2. m = [c EXCEPT !.chunk_size = size]
      BY <1>3, <2>1, <3>1 DEF Chunked
    <3> QED BY <1>4, <3>2 DEF CType
  <2>2. CASE body.tr_encoding # 1
    BY <1>3, <1>4, <2>2 DEF Chunked
  <2> QED BY <2>1, <2>2
<1>8. c' \in CType
  <2>1. body.kind \in {"slot", "file"}
    BY TypeIs, PostAssumption DEF Body
  <2>2. CASE Check(m, Length(bytes), "EAGAIN")
    BY <1>7, <2>2, CheckIs
  <2>3. CASE c' = [m EXCEPT !.data_count = @ + Len(bytes), !.head = <<>>,
                            !.pc = IF body.tr_encoding = 1 /\ m.chunk_size = 0
                                   THEN "chunk" ELSE "body"]
    <3>1. PICK pc \in Pcs : pc = IF body.tr_encoding = 1 /\ m.chunk_size = 0 THEN "chunk" ELSE "body"
      BY DEF Pcs
    <3>2. PICK count \in Nat : count = m.data_count + Len(bytes)
      BY <1>6, <1>7 DEF CType
    <3>3. PICK head \in Seq(Nat) : head = <<>>
      BY EmptySeq
    <3>4. c' = [m EXCEPT !.data_count = count, !.head = head, !.pc = pc]
      BY <2>3, <3>1, <3>2, <3>3
    <3> QED BY <1>7, <3>4 DEF CType
  <2> QED BY <1>1, <1>2, <1>3, <2>1, <2>2, <2>3 DEF BodyData
<1>9. Take(bytes) /\ stored' = stored \o bytes /\ UNCHANGED <<body, tx, posted, taken>>
  BY <1>1, <1>2 DEF BodyData
<1>10. taken' \in Seq([type : Int, data : Seq(Nat)]) /\ stored' \in Seq(Nat)
  BY <1>5, <1>9, TypeIs, ConcatProperties
<1> QED BY <1>5, <1>8, <1>9, <1>10, TakeStep

LEMMA PeerType ==
  ASSUME TypeInv, Unsplit, Peer
  PROVE  TypeInv' /\ Unsplit'
<1> DEFINE Txs == {"header", "packets", "closed", "cut"}
<1>1. CASE sff_write_header
  <2>1. PICK p \in Payloads : Post(1, p, sff_write_block(1, p))
    BY <1>1 DEF sff_write_header
  <2>2. sff_write_block(1, p) \in Seq(WireByte) /\ tx' \in Txs /\ 1 \in 0 .. 9
    BY <1>1, SffBlockType DEF sff_write_header
  <2> QED BY <2>1, <2>2, PostStep
<1>2. CASE sff_write_packet
  <2>1. PICK p \in Payloads : Post(2, p, sff_write_block(2, p))
    BY <1>2 DEF sff_write_packet
  <2>2. sff_write_block(2, p) \in Seq(WireByte) /\ tx' \in Txs /\ 2 \in 0 .. 9
    BY <1>2, SffBlockType DEF sff_write_packet
  <2> QED BY <2>1, <2>2, PostStep
<1>3. CASE WriteBody
  <2>1. PICK p \in Payloads :
          Post(0, p, IF body.tr_encoding = 1 THEN Chunk(p) ELSE Framed(<<>>, p))
    BY <1>3 DEF WriteBody
  <2>2. PICK f : f = IF body.tr_encoding = 1 THEN Chunk(p) ELSE Framed(<<>>, p)
    OBVIOUS
  <2>3. f \in Seq(WireByte) /\ tx' \in Txs /\ 0 \in 0 .. 9
    BY <1>3, <2>2, PayloadIs, ChunkType, PlainType DEF WriteBody
  <2>4. Post(0, p, f)
    BY <2>1, <2>2
  <2> QED BY <2>3, <2>4, PostStep
<1>4. CASE Close
  <2>1. UNCHANGED <<body, posted, arrived, c, taken, stored>> /\ tx' \in Txs
    BY <1>4 DEF Close
  <2>2. CASE wire' = wire
    BY <2>1, <2>2 DEF TypeInv, Unsplit
  <2>3. CASE wire' = wire \o LastChunk
    <3>1. LastChunk \in Seq(WireByte) /\ wire \in Seq(WireByte)
      BY EmptySeq, ChunkType, TypeIs DEF LastChunk
    <3>2. PICK w \in Nat, b \in Nat : w = Len(wire) /\ b = Len(LastChunk)
      BY <3>1, LenProperties
    <3>3. Follows(WireByte, wire, LastChunk, wire', w, b)
      BY <2>3, <3>1, <3>2, ConcatAt
    <3>4. wire' \in Seq(WireByte) /\ Len(wire') = w + b /\ \A i \in 1 .. w : wire'[i] = wire[i]
      BY <3>3 DEF Follows
    <3>5. arrived \in 0 .. w /\ arrived' \in 0 .. Len(wire')
      BY <2>1, <3>2, <3>4, TypeIs
    <3>6. Unsplit'
      <4>1. arrived # 0 => wire'[arrived] = wire[arrived]
        BY <3>4, <3>5
      <4> QED BY <2>1, <4>1 DEF Unsplit
    <3> QED BY <2>1, <3>4, <3>5, <3>6 DEF TypeInv
  <2> QED BY <1>4, <2>2, <2>3 DEF Close
<1> QED BY <1>1, <1>2, <1>3, <1>4 DEF Peer

\* The type invariant, one lemma per step.
LEMMA ArriveType ==
  ASSUME TypeInv, ~SplitHeaders, Arrive
  PROVE  TypeInv' /\ Unsplit'
<1>1. PICK n \in arrived + 1 .. Len(wire) : (SplitHeaders \/ ~wire[n].glued) /\ arrived' = n
  BY DEF Arrive
<1>2. UNCHANGED <<body, tx, posted, wire, c, taken, stored>>
  BY DEF Arrive
<1>3. arrived \in Nat /\ Len(wire) \in Nat
  BY LenProperties, TypeIs
<1>4. arrived' \in 0 .. Len(wire')
  BY <1>1, <1>2, <1>3
<1>5. Unsplit'
  BY <1>1, <1>2 DEF Unsplit
<1> QED BY <1>2, <1>4, <1>5 DEF TypeInv

LEMMA BeginType ==
  ASSUME TypeInv, Unsplit, Begin
  PROVE  TypeInv' /\ Unsplit'
<1>1. UNCHANGED <<body, tx, posted, wire, arrived, taken, stored>>
  BY DEF Begin
<1>2. Zeros \in [1 .. SizeBytes -> Nat] /\ c \in CType
  BY TypeIs DEF Zeros
<1>3. PICK pc \in Pcs : c' = [c EXCEPT !.buf = Zeros, !.head = <<>>, !.pc = pc]
  <2>1. PICK pc : pc = CASE body.kind = "feed" /\ c.sff # NoSff -> "data"
                         [] body.kind = "feed" /\ c.sff = NoSff -> "sync"
                         [] OTHER -> IF body.tr_encoding = 1 /\ c.chunk_size = 0
                                     THEN "chunk" ELSE "body"
    OBVIOUS
  <2>2. pc \in Pcs
    BY <2>1 DEF Pcs
  <2> QED BY <2>1, <2>2 DEF Begin
<1>4. c' \in CType
  BY <1>2, <1>3, EmptySeq DEF CType
<1> QED BY <1>1, <1>4 DEF TypeInv, Unsplit, CType, Pcs

LEMMA TypeStep ==
  ASSUME TypeInv, Unsplit, ~SplitHeaders, [Next]_vars, HeadCounts,
         c.pc = "body" => body.kind # "feed"
  PROVE  TypeInv' /\ Unsplit'
<1>1. CASE UNCHANGED vars
  BY <1>1 DEF vars, TypeInv, Unsplit
<1>2. CASE BodyData
  BY <1>2, BodyDataType DEF BodyData
<1> QED BY <1>1, <1>2, PeerType, ArriveType, BeginType, SyncType, SyncWordType, SizeType,
           DataType, ChunkHeaderType DEF Next, Server

-----------------------------------------------------------------------------
(* What the peer does *)

\* More was written: what was there is as it was.
Grown ==
  /\ OnWire' /\ UNCHANGED <<body, arrived, c, taken, stored>>
  /\ Len(Messages) <= Len(Messages') /\ Len(posted) <= Len(posted')
  /\ \A k \in 1 .. Len(Messages) :
       /\ Messages'[k] = Messages[k] /\ Frames'[k] = Frames[k]
       /\ HeaderLen(k)' = HeaderLen(k) /\ DataLen(k)' = DataLen(k)
  /\ \A k \in 0 .. Len(Messages) : Joined(Parts', k) = Joined(Parts, k)
  /\ \A k \in 0 .. Len(posted) : Joined(Smalls', k) = Joined(Smalls, k)
  /\ \A k, j : At(k, j) => At(k, j)'

\* A step that sends nothing leaves the messages as they were.
LEMMA SameGrown ==
  ASSUME TypeInv, OnWire, UNCHANGED <<body, posted, wire, arrived, c, taken, stored>>,
         Messages' = Messages
  PROVE  Grown
<1>1. Frames' = Frames /\ Parts' = Parts
  BY DEF Frames, Parts, FrameHeader, FrameRest
<1>2. Smalls' = Smalls
  BY DEF Smalls
<1>3. ASSUME NEW k PROVE HeaderLen(k)' = HeaderLen(k) /\ DataLen(k)' = DataLen(k)
  BY DEF HeaderLen, DataLen, FrameHeader
<1>4. ASSUME NEW k, NEW j, At(k, j) PROVE At(k, j)'
  BY <1>1, <1>4 DEF At
<1>5. OnWire'
  BY <1>1 DEF OnWire
<1>6. Len(Messages) <= Len(Messages') /\ Len(posted) <= Len(posted')
  <2>1. Len(Messages) \in Nat /\ Len(posted) \in Nat
    BY MessagesAre
  <2> QED BY <2>1
<1> QED BY <1>1, <1>2, <1>3, <1>4, <1>5, <1>6 DEF Grown

LEMMA SmallsKept ==
  ASSUME TypeInv, NEW t \in 0 .. 9, NEW p \in Payloads,
         posted' = Append(posted, [type |-> t, data |-> p])
  PROVE  /\ Len(posted') = Len(posted) + 1
         /\ \A k \in 0 .. Len(posted) : Joined(Smalls', k) = Joined(Smalls, k)
<1> DEFINE m == [type |-> t, data |-> p]
           B == [type : 0 .. 9, data : Payloads]
<1>1. PICK n \in Nat : n = Len(posted)
  BY MessagesAre
<1>2. m \in B /\ posted \in Seq(B)
  BY DEF TypeInv
<1>3. posted' = Append(posted, m)
  OBVIOUS
<1> HIDE DEF m, B
<1>4. /\ posted' \in Seq(B) /\ Len(posted') = n + 1
      /\ \A k \in 1 .. n : posted'[k] = posted[k]
  BY <1>1, <1>2, <1>3, AppendProperties
<1>5. DOMAIN posted = 1 .. n /\ DOMAIN posted' = 1 .. n + 1
  BY <1>1, <1>2, <1>4, LenProperties
<1>6. ASSUME NEW k \in 0 .. n PROVE Joined(Smalls', k) = Joined(Smalls, k)
  <2>1. ASSUME NEW i \in 1 .. k PROVE Smalls'[i] = Smalls[i]
    <3>1. i \in DOMAIN posted /\ i \in DOMAIN posted' /\ posted'[i] = posted[i]
      BY <1>4, <1>5
    <3> QED BY <3>1 DEF Smalls, Small
  <2>2. k \in Nat
    OBVIOUS
  <2> QED BY <2>1, <2>2, JoinedSame
<1> QED BY <1>1, <1>4, <1>6

LEMMA PostGrown ==
  ASSUME TypeInv, Unsplit, OnWire, NEW t \in 0 .. 9, NEW p \in Payloads,
         NEW f, f = Framed(FrameHeader([type |-> t, data |-> p]), FrameRest([type |-> t, data |-> p])),
         tx \in {"header", "packets"}, tx' = "packets", Post(t, p, f)
  PROVE  Grown
<1> DEFINE m == [type |-> t, data |-> p]
<1>1. m \in Message
  BY DEF Message
<1>2. f \in Seq(WireByte)
  BY <1>1, FrameType
<1>3. /\ posted' = Append(posted, m) /\ wire' = wire \o f
      /\ UNCHANGED <<body, arrived, c, taken, stored>>
  BY DEF Post
<1>4. Messages = posted /\ Messages' = posted'
  BY DEF Messages
<1>5. f = Framed(FrameHeader(m), FrameRest(m))
  OBVIOUS
<1>6. /\ Len(posted') = Len(posted) + 1
      /\ \A k \in 0 .. Len(posted) : Joined(Smalls', k) = Joined(Smalls, k)
  BY <1>3, SmallsKept
<1> HIDE DEF m
<1>7. Messages' = Append(Messages, m)
  BY <1>3, <1>4
<1>8. /\ OnWire' /\ Len(Messages') = Len(Messages) + 1
      /\ \A k \in 1 .. Len(Messages) : Messages'[k] = Messages[k] /\ Frames'[k] = Frames[k]
      /\ \A k \in 0 .. Len(Messages) : Joined(Parts', k) = Joined(Parts, k)
      /\ \A k, j : At(k, j) => At(k, j)'
  BY <1>1, <1>2, <1>3, <1>5, <1>7, SendFrame
<1>9. ASSUME NEW k \in 1 .. Len(Messages)
      PROVE  HeaderLen(k)' = HeaderLen(k) /\ DataLen(k)' = DataLen(k)
  BY <1>3, <1>8 DEF HeaderLen, DataLen, FrameHeader
<1>10. Len(Messages) <= Len(Messages') /\ Len(posted) <= Len(posted')
  <2>1. Len(Messages) \in Nat /\ Len(posted) \in Nat
    BY MessagesAre
  <2> QED BY <1>6, <1>8, <2>1
<1> QED BY <1>3, <1>6, <1>8, <1>9, <1>10 DEF Grown

\* Every step of the peer adds to what was sent or leaves it.
LEMMA PeerGrown ==
  ASSUME TypeInv, Unsplit, OnWire, InFrames, Peer, tx = "header" => body.kind = "feed"
  PROVE  Grown
<1>0. body \in Body /\ (body.kind = "feed" => body.tr_encoding = 0)
  BY TypeIs, PostAssumption
<1>1. CASE sff_write_header
  <2>1. PICK p \in Payloads : Post(1, p, sff_write_block(1, p))
    BY <1>1 DEF sff_write_header
  <2>2. tx = "header" /\ tx' = "packets" /\ body.kind = "feed"
    BY <1>1 DEF sff_write_header
  <2>3. sff_write_block(1, p)
          = Framed(FrameHeader([type |-> 1, data |-> p]), FrameRest([type |-> 1, data |-> p]))
    BY <2>2 DEF sff_write_block, FrameHeader, FrameRest, BlockHeader
  <2> QED BY <2>1, <2>2, <2>3, PostGrown
<1>2. CASE sff_write_packet
  <2>1. PICK p \in Payloads : Post(2, p, sff_write_block(2, p))
    BY <1>2 DEF sff_write_packet
  <2>2. tx = "packets" /\ tx' = "packets" /\ body.kind = "feed"
    BY <1>2 DEF sff_write_packet
  <2>3. sff_write_block(2, p)
          = Framed(FrameHeader([type |-> 2, data |-> p]), FrameRest([type |-> 2, data |-> p]))
    BY <2>2 DEF sff_write_block, FrameHeader, FrameRest, BlockHeader
  <2> QED BY <2>1, <2>2, <2>3, PostGrown
<1>3. CASE WriteBody
  <2>1. tx = "packets" /\ tx' = "packets" /\ body.kind # "feed" /\ body.tr_encoding = 1
    BY <1>3 DEF WriteBody, InFrames
  <2>2. PICK p \in Payloads : Post(0, p, Chunk(p))
    BY <1>3, <2>1 DEF WriteBody
  <2>3. Chunk(p) = Framed(FrameHeader([type |-> 0, data |-> p]), FrameRest([type |-> 0, data |-> p]))
    BY <2>1 DEF Chunk, FrameHeader, FrameRest, ChunkHead
  <2> QED BY <2>1, <2>2, <2>3, PostGrown
<1>4. CASE Close
  <2>1. /\ UNCHANGED <<body, posted, arrived, c, taken, stored>> /\ tx = "packets"
        /\ Messages = posted
    BY <1>4 DEF Close, Messages
  <2>2. CASE tx' = "cut" \/ body.tr_encoding # 1
    <3>1. wire' = wire /\ Messages' = posted'
      BY <1>4, <2>2 DEF Close, Messages
    <3> QED BY <2>1, <3>1, SameGrown
  <2>3. CASE tx' = "closed" /\ body.tr_encoding = 1
    <3>1. wire' = wire \o LastChunk
      BY <1>4, <2>3 DEF Close
    <3>2. body.kind # "feed"
      BY <1>0, <2>3
    <3>3. LastChunk = Framed(FrameHeader(LastMessage), FrameRest(LastMessage))
      BY <3>2 DEF LastChunk, Chunk, FrameHeader, FrameRest, ChunkHead, LastMessage
    <3>4. LastMessage \in Message
      BY DEF LastMessage, Message
    <3>5. LastChunk \in Seq(WireByte)
      BY <3>3, <3>4, FrameType
    <3>6. Messages' = Append(Messages, LastMessage)
      BY <2>1, <2>3 DEF Messages
    <3>7. /\ OnWire' /\ Len(Messages') = Len(Messages) + 1
          /\ \A k \in 1 .. Len(Messages) : Messages'[k] = Messages[k] /\ Frames'[k] = Frames[k]
          /\ \A k \in 0 .. Len(Messages) : Joined(Parts', k) = Joined(Parts, k)
          /\ \A k, j : At(k, j) => At(k, j)'
      BY <2>1, <3>1, <3>3, <3>4, <3>5, <3>6, SendFrame
    <3>8. ASSUME NEW k \in 1 .. Len(Messages)
          PROVE  HeaderLen(k)' = HeaderLen(k) /\ DataLen(k)' = DataLen(k)
      BY <2>1, <3>7 DEF HeaderLen, DataLen, FrameHeader
    <3>9. Len(Messages) <= Len(Messages') /\ Len(posted) <= Len(posted')
      <4>1. Len(Messages) \in Nat /\ Len(posted) \in Nat
        BY MessagesAre
      <4> QED BY <2>1, <3>7, <4>1
    <3>10. Smalls' = Smalls
      BY <2>1 DEF Smalls
    <3> QED BY <2>1, <3>7, <3>8, <3>9, <3>10 DEF Grown
  <2> QED BY <1>4, <2>2, <2>3 DEF Close
<1> QED BY <1>1, <1>2, <1>3, <1>4 DEF Peer

-----------------------------------------------------------------------------
(* What a recv does *)

\* n bytes were read.
Advanced(n) ==
  /\ n \in 0 .. arrived /\ arrived' = arrived - n /\ Len(wire') = Len(wire) - n
  /\ UNCHANGED <<body, tx, posted>> /\ Messages' = Messages
  /\ Frames' = Frames /\ Parts' = Parts /\ Smalls' = Smalls
  /\ \A k : HeaderLen(k)' = HeaderLen(k) /\ DataLen(k)' = DataLen(k)
  /\ OnWire' /\ \A k, j : At(k, j) => At(k, j + n)'

\* A recv moves the position by what it returns.
LEMMA Advance ==
  ASSUME TypeInv, Unsplit, OnWire, NEW bytes, NEW n \in 0 .. arrived, Len(bytes) = n,
         Take(bytes), UNCHANGED <<body, tx, posted>>
  PROVE  Advanced(n)
<1>1. /\ n \in 0 .. Len(wire) /\ wire' = SubSeq(wire, n + 1, Len(wire))
      /\ Len(wire') = Len(wire) - n /\ arrived' = arrived - n
  BY TakeIs
<1>2. Messages' = Messages
  BY DEF Messages
<1>3. Frames' = Frames /\ Parts' = Parts /\ Smalls' = Smalls
  BY <1>2 DEF Frames, Parts, Smalls, FrameHeader, FrameRest
<1>4. ASSUME NEW k PROVE HeaderLen(k)' = HeaderLen(k) /\ DataLen(k)' = DataLen(k)
  BY <1>2 DEF HeaderLen, DataLen, FrameHeader
<1>5. ASSUME NEW k, NEW j, At(k, j) PROVE At(k, j + n)'
  BY <1>1, <1>5, ReadBytes
<1>6. OnWire'
  <2>1. Len(Joined(Frames', Len(Messages'))) = Len(Joined(Frames, Len(Messages)))
    BY <1>2, <1>3
  <2>2. At(1, Len(Joined(Frames, Len(Messages))) - Len(wire))
    <3>1. PICK a \in Nat, w \in Nat : a = Len(Joined(Frames, Len(Messages))) /\ w = Len(wire)
      BY FramesAre, JoinedType, LenProperties DEF TypeInv
    <3>2. Joined(Frames, 1 - 1) = <<>> /\ Len(<<>>) = 0
      BY JoinedEmpty, EmptySeq
    <3>3. a - w \in Int /\ 0 + (a - w) + w = a
      OBVIOUS
    <3>4. 1 \in 1 .. Len(Messages) + 1
      <4>1. Len(Messages) \in Nat
        BY MessagesAre
      <4> QED BY <4>1
    <3> QED BY <3>1, <3>2, <3>3, <3>4 DEF At
  <2> QED BY <1>1, <2>2, ReadBytes
<1> QED BY <1>1, <1>2, <1>3, <1>4, <1>5, <1>6 DEF Advanced

\* The byte read is the one at j + 1 of frame k.
LEMMA ReadByte ==
  ASSUME TypeInv, OnWire, NEW k \in 1 .. Len(Messages), NEW j \in Int, At(k, j),
         j + 1 \in 1 .. Len(Frames[k]), arrived > 0
  PROVE  /\ Recv(1) # <<>> /\ Len(Recv(1)) = 1 /\ Recv(1)[1] = Frames[k][j + 1].b
         /\ arrived >= 1 /\ ~(Unsplit /\ arrived = 1 /\ Frames[k][j + 1].glued)
<1>1. arrived \in Nat /\ arrived <= Len(wire) /\ Len(wire) \in Nat
  BY LenProperties, TypeIs
<1>2. lesser(1, arrived) = 1
  BY <1>1 DEF lesser
<1>3. Recv(1) # <<>> /\ Len(Recv(1)) = 1 /\ Recv(1)[1] = wire[1].b
  <2>1. /\ Len(Recv(1)) = lesser(1, arrived) /\ (Recv(1) = <<>> <=> lesser(1, arrived) = 0)
        /\ \A i \in 1 .. lesser(1, arrived) : Recv(1)[i] = wire[i].b
    BY RecvIs
  <2>2. 1 \in 1 .. lesser(1, arrived) /\ lesser(1, arrived) # 0
    BY <1>2
  <2> QED BY <1>2, <2>1, <2>2
<1>4. wire[1] = Frames[k][j + 1]
  <2>1. 1 \in 1 .. Len(wire)
    BY <1>1
  <2> QED BY <2>1, Facing
<1> QED BY <1>1, <1>3, <1>4 DEF Unsplit

-----------------------------------------------------------------------------
(* A feed *)

\* A block with more than MaxSff bytes of data holds no 'S'.
NoSyncInLarge == \A p \in Payloads : Len(p) > MaxSff => \A i \in 1 .. Len(p) : p[i] # chS

\* A feed has no last message of its own.
LEMMA FeedMessages ==
  ASSUME TypeInv, body.kind = "feed"
  PROVE  /\ body.tr_encoding = 0 /\ Messages = posted /\ Len(Messages) \in Nat
         /\ SizeBytes \in Nat \ {0} /\ MaxSff \in Nat
         /\ \A k \in 1 .. Len(Messages) :
              /\ Messages[k] \in [type : 0 .. 9, data : Payloads]
              /\ DataLen(k) \in Nat \ {0} /\ HeaderLen(k) = 4 + SizeBytes
              /\ Len(Frames[k]) = 4 + SizeBytes + DataLen(k)
<1>1. body.tr_encoding = 0 /\ SizeBytes \in Nat \ {0} /\ MaxSff \in Nat
  BY TypeIs, PostAssumption
<1>2. Messages = posted
  BY <1>1 DEF Messages
<1>3. Len(Messages) \in Nat
  BY MessagesAre
<1>4. ASSUME NEW k \in 1 .. Len(Messages)
      PROVE  /\ Messages[k] \in [type : 0 .. 9, data : Payloads]
             /\ DataLen(k) \in Nat \ {0} /\ HeaderLen(k) = 4 + SizeBytes
             /\ Len(Frames[k]) = 4 + SizeBytes + DataLen(k)
  <2>1. Messages[k] \in [type : 0 .. 9, data : Payloads]
    BY <1>2, ElementOfSeq, TypeIs
  <2>2. DataLen(k) \in Nat \ {0}
    BY <2>1, PayloadIs DEF DataLen
  <2>3. HeaderLen(k) = 4 + SizeBytes /\ IsFrame(Frames[k], HeaderLen(k), DataLen(k), 0)
    BY FeedFrame
  <2>4. Len(Frames[k]) = HeaderLen(k) + DataLen(k) + 0
    BY <2>3 DEF IsFrame
  <2> QED BY <1>1, <2>1, <2>2, <2>3, <2>4
<1> QED BY <1>1, <1>2, <1>3, <1>4

\* Nothing is left to read only after the last block.
LEMMA FeedPlace ==
  ASSUME TypeInv, OnWire, body.kind = "feed", NEW k, NEW j, At(k, j), j >= 0,
         j > 0 => k <= Len(Messages) /\ j < Len(Frames[k])
  PROVE  /\ k \in Nat /\ j \in Nat
         /\ \/ Len(wire) = 0 /\ k = Len(Messages) + 1 /\ j = 0
            \/ Len(wire) > 0 /\ k \in 1 .. Len(Messages) /\ j < Len(Frames[k])
<1>1. PICK n \in Nat, w \in Nat : n = Len(Messages) /\ w = Len(wire)
  BY FeedMessages, LenProperties, TypeIs
<1>2. k \in 1 .. n + 1 /\ j \in Int
  BY <1>1 DEF At
<1>3. CASE k = n + 1
  <2>1. j = 0
    BY <1>1, <1>2, <1>3
  <2>2. PICK a \in Nat : a = Len(Joined(Frames, n))
    BY <1>1, FramesAre, JoinedType, LenProperties
  <2>3. n + 1 - 1 = n
    OBVIOUS
  <2>4. a + 0 + w = a
    BY <1>1, <1>3, <2>1, <2>2, <2>3 DEF At
  <2> QED BY <1>1, <1>3, <2>1, <2>4
<1>4. CASE k # n + 1
  <2>1. k \in 1 .. n
    BY <1>2, <1>4
  <2>2. PICK l \in Nat : l = Len(Frames[k]) /\ l > 0
    <3>1. /\ Len(Frames[k]) = 4 + SizeBytes + DataLen(k)
          /\ SizeBytes \in Nat /\ DataLen(k) \in Nat
      BY <1>1, <2>1, FeedMessages
    <3>2. 4 + SizeBytes + DataLen(k) \in Nat /\ 4 + SizeBytes + DataLen(k) > 0
      BY <3>1
    <3> QED BY <3>1, <3>2
  <2>3. j < l
    BY <1>1, <1>2, <2>1, <2>2
  <2>4. l - j <= w
    BY <1>1, <1>2, <2>1, <2>2, Facing
  <2> QED BY <1>1, <1>2, <2>1, <2>2, <2>3, <2>4
<1> QED BY <1>3, <1>4

\* The blocks that are not too large, with one more of them.
LEMMA SmallsNext ==
  ASSUME TypeInv, body.kind = "feed", NEW k \in 1 .. Len(Messages)
  PROVE  /\ Joined(Smalls, k - 1) \in Seq([type : Int, data : Seq(Nat)])
         /\ Joined(Smalls, k) = IF Small(Messages[k]) THEN Append(Joined(Smalls, k - 1), Messages[k])
                                ELSE Joined(Smalls, k - 1)
<1> DEFINE B == [type : Int, data : Seq(Nat)]
<1>1. /\ Messages = posted /\ Len(posted) \in Nat
      /\ Messages[k] \in [type : 0 .. 9, data : Payloads]
  BY FeedMessages
<1>2. Messages[k] \in B
  BY <1>1, PayloadIs
<1> HIDE DEF B
<1>3. /\ Seqs(B, Len(posted), Smalls)
      /\ Smalls[k] = IF Small(Messages[k]) THEN <<Messages[k]>> ELSE <<>>
  BY <1>1, SmallsAre DEF B
<1>4. k \in Nat \ {0} /\ Seqs(B, k, Smalls)
  BY <1>1, <1>3 DEF Seqs
<1>5. PICK x \in Seq(B) : x = Joined(Smalls, k - 1) /\ Joined(Smalls, k) = x \o Smalls[k]
  BY <1>4, JoinedNext
<1>6. x \o <<Messages[k]>> = Append(x, Messages[k])
  BY <1>2, AppendIsConcat
<1>7. x \o <<>> = x
  BY ConcatEmptySeq
<1> QED BY <1>3, <1>5, <1>6, <1>7 DEF B

\* A reader stands where it stood as long as what it reads of stays.
LEMMA FeedKept ==
  ASSUME NEW k \in Nat, NEW j \in Int, FeedReader(k, j)', c'.data_count = 0, c'.pc # "over"
  PROVE  FeedInv'
BY DEF FeedInv

\* FeedInv, one lemma per step: the peer, and then the calls of http_receive_data.
LEMMA FeedPeer ==
  ASSUME TypeInv, Unsplit, OnWire, FeedInv, body.kind = "feed", Peer
  PROVE  FeedInv'
<1>1. Grown
  BY PeerGrown DEF InFrames
<1>2. tx \in {"header", "packets"} /\ c.pc # "over" /\ c.data_count = 0
  BY DEF FeedInv, Peer, sff_write_header, sff_write_packet, WriteBody, Close
<1>3. PICK k \in Nat, j \in Int : FeedReader(k, j)
  BY <1>2 DEF FeedInv
<1>4. At(k, j) /\ j >= 0 /\ (j > 0 => k <= Len(Messages) /\ j < Len(Frames[k]))
  BY <1>3 DEF FeedReader
<1>5. PICK n \in Nat : n = Len(Messages) /\ k \in 1 .. n + 1 /\ k - 1 \in 0 .. n /\ Messages = posted
  <2>1. k \in 1 .. Len(Messages) + 1
    BY <1>4 DEF At
  <2> QED BY <2>1, FeedMessages
<1>6. At(k, j)' /\ taken' = Joined(Smalls', k - 1) /\ n <= Len(Messages') /\ Len(Messages') \in Int
  <2>1. taken = Joined(Smalls, k - 1)
    BY <1>3 DEF FeedReader
  <2>2. Len(Messages') \in Int
    <3>1. CASE Messages' = posted'
      <4>1. TypeInv'
        BY PeerType
      <4> QED BY <3>1, <4>1, LenProperties DEF TypeInv
    <3>2. CASE Messages' # posted'
      <4>1. body'.tr_encoding = 1
        BY <3>2 DEF Messages
      <4> QED BY <1>1, <4>1, FeedMessages DEF Grown
    <3> QED BY <3>1, <3>2
  <2> QED BY <1>1, <1>4, <1>5, <2>1, <2>2 DEF Grown
<1>7. CASE j = 0
  <2>1. Seeking(k, j)
    <3>1. ~InWord(k, j)
      BY <1>7 DEF InWord
    <3>2. ~InData(k, j)
      <4> SUFFICES ASSUME InData(k, j) PROVE FALSE
        OBVIOUS
      <4>1. k \in 1 .. n /\ j >= HeaderLen(k)
        BY <1>5 DEF InData
      <4>2. HeaderLen(k) = 4 + SizeBytes /\ SizeBytes \in Nat
        BY <1>5, <4>1, FeedMessages
      <4> QED BY <1>7, <4>1, <4>2
    <3> QED BY <1>3, <3>1, <3>2 DEF FeedReader
  <2>2. Seeking(k, j)'
    BY <1>1, <1>7, <2>1 DEF Seeking, Grown
  <2>3. FeedReader(k, j)'
    BY <1>6, <1>7, <2>2 DEF FeedReader
  <2> QED BY <1>1, <1>2, <2>3, FeedKept DEF Grown
<1>8. CASE j # 0
  <2>1. j > 0 /\ k \in 1 .. n /\ j < Len(Frames[k])
    BY <1>4, <1>5, <1>8
  <2>2. /\ Messages'[k] = Messages[k] /\ Frames'[k] = Frames[k] /\ HeaderLen(k)' = HeaderLen(k)
        /\ DataLen(k)' = DataLen(k) /\ c' = c /\ arrived' = arrived
    BY <1>1, <1>5, <2>1 DEF Grown
  <2>3. k <= Len(Messages')
    BY <1>6, <2>1
  <2>4. Seeking(k, j) => Seeking(k, j)'
    BY <2>2 DEF Seeking, Small
  <2>5. InWord(k, j) => InWord(k, j)'
    BY <2>2, <2>3 DEF InWord, HeaderHere
  <2>6. InData(k, j) => InData(k, j)'
    BY <2>2, <2>3 DEF InData, Small
  <2>7. Seeking(k, j)' \/ InWord(k, j)' \/ InData(k, j)'
    BY <1>3, <2>4, <2>5, <2>6 DEF FeedReader
  <2>8. FeedReader(k, j)'
    BY <1>4, <1>6, <2>1, <2>2, <2>3, <2>7 DEF FeedReader
  <2> QED BY <1>2, <2>2, <2>8, FeedKept
<1> QED BY <1>7, <1>8

\* A reader at byte j of block k of a feed.
LEMMA FeedAt ==
  ASSUME TypeInv, OnWire, body.kind = "feed", FeedInv, c.pc # "over"
  PROVE  /\ c.data_count = 0
         /\ \E k \in Nat, j \in Nat :
              /\ FeedReader(k, j) /\ At(k, j) /\ taken = Joined(Smalls, k - 1)
              /\ \/ Len(wire) = 0 /\ k = Len(Messages) + 1 /\ j = 0
                 \/ Len(wire) > 0 /\ k \in 1 .. Len(Messages) /\ j < Len(Frames[k])
<1>1. PICK k \in Nat, j \in Int : FeedReader(k, j) /\ c.data_count = 0
  BY DEF FeedInv
<1>2. /\ At(k, j) /\ j >= 0 /\ (j > 0 => k <= Len(Messages) /\ j < Len(Frames[k]))
      /\ taken = Joined(Smalls, k - 1)
  BY <1>1 DEF FeedReader
<1>3. /\ j \in Nat
      /\ \/ Len(wire) = 0 /\ k = Len(Messages) + 1 /\ j = 0
         \/ Len(wire) > 0 /\ k \in 1 .. Len(Messages) /\ j < Len(Frames[k])
  BY <1>2, FeedPlace
<1> QED BY <1>1, <1>2, <1>3

\* More arrives; a header all at once.
LEMMA FeedArrive ==
  ASSUME TypeInv, OnWire, FeedInv, body.kind = "feed", Arrive
  PROVE  FeedInv'
<1>1. UNCHANGED <<body, tx, posted, wire, c, taken, stored>> /\ arrived' >= arrived
      /\ arrived \in Nat /\ arrived' \in Nat
  <2>1. arrived \in Nat /\ Len(wire) \in Nat
    BY LenProperties, TypeIs
  <2>2. arrived' \in arrived + 1 .. Len(wire)
    BY DEF Arrive
  <2> QED BY <2>1, <2>2 DEF Arrive
<1>2. Messages' = Messages
  BY <1>1 DEF Messages
<1>3. Frames' = Frames /\ Smalls' = Smalls
  BY <1>1, <1>2 DEF Frames, Smalls, FrameHeader, FrameRest
<1>4. ASSUME NEW k PROVE HeaderLen(k)' = HeaderLen(k) /\ DataLen(k)' = DataLen(k)
  BY <1>1, <1>2 DEF HeaderLen, DataLen, FrameHeader
<1>5. CASE c.pc = "over"
  BY <1>1, <1>3, <1>5 DEF FeedInv
<1>6. CASE c.pc # "over"
  <2>1. PICK k \in Nat, j \in Nat :
          /\ FeedReader(k, j)
          /\ \/ Len(wire) = 0 /\ k = Len(Messages) + 1 /\ j = 0
             \/ Len(wire) > 0 /\ k \in 1 .. Len(Messages) /\ j < Len(Frames[k])
    BY <1>6, FeedAt
  <2>2. At(k, j)'
    BY <1>1, <1>2, <1>3, <2>1 DEF FeedReader, At
  <2>3. Seeking(k, j) => Seeking(k, j)'
    BY <1>1, <1>2, <1>4 DEF Seeking, Small
  <2>4. InData(k, j) => InData(k, j)'
    BY <1>1, <1>2, <1>4 DEF InData, Small
  <2>5. InWord(k, j) => InWord(k, j)'
    <3> SUFFICES ASSUME InWord(k, j) PROVE InWord(k, j)'
      OBVIOUS
    <3>1. k \in 1 .. Len(Messages)
      <4>1. j # 0
        BY DEF InWord
      <4> QED BY <2>1, <4>1
    <3>2. PICK h \in Nat : h = HeaderLen(k)
      BY <3>1, FeedMessages
    <3>3. HeaderHere(k, j)'
      BY <1>1, <1>4, <3>2 DEF InWord, HeaderHere
    <3> QED BY <1>1, <1>2, <3>3 DEF InWord
  <2>6. FeedReader(k, j)'
    BY <1>1, <1>2, <1>3, <2>1, <2>2, <2>3, <2>4, <2>5 DEF FeedReader
  <2>7. c'.data_count = 0 /\ c'.pc # "over"
    BY <1>1, <1>6 DEF FeedInv
  <2> QED BY <2>6, <2>7, FeedKept
<1> QED BY <1>5, <1>6

LEMMA FeedBegin ==
  ASSUME TypeInv, OnWire, FeedInv, body.kind = "feed", Begin
  PROVE  FeedInv'
<1>1. UNCHANGED <<body, tx, posted, wire, arrived, taken, stored>> /\ c.pc = "poll"
  BY DEF Begin
<1>2. Messages' = Messages
  BY <1>1 DEF Messages
<1>3. Frames' = Frames /\ Smalls' = Smalls
  BY <1>1, <1>2 DEF Frames, Smalls, FrameHeader, FrameRest
<1>4. ASSUME NEW k PROVE HeaderLen(k)' = HeaderLen(k) /\ DataLen(k)' = DataLen(k)
  BY <1>1, <1>2 DEF HeaderLen, DataLen, FrameHeader
<1>5. PICK k \in Nat, j \in Nat :
        /\ c.data_count = 0 /\ FeedReader(k, j)
        /\ \/ Len(wire) = 0 /\ k = Len(Messages) + 1 /\ j = 0
           \/ Len(wire) > 0 /\ k \in 1 .. Len(Messages) /\ j < Len(Frames[k])
  BY <1>1, FeedAt
<1>6. At(k, j)'
  BY <1>1, <1>2, <1>3, <1>5 DEF FeedReader, At
<1>7. c \in CType
  BY TypeIs
<1>8. c'.sff = c.sff /\ c'.data_count = c.data_count
      /\ c'.pc = IF c.sff # NoSff THEN "data" ELSE "sync"
  BY <1>7 DEF Begin, CType
<1>9. ~InWord(k, j)
  BY <1>1 DEF InWord, Word
<1>10. Seeking(k, j) => Seeking(k, j)'
  BY <1>1, <1>2, <1>4, <1>8 DEF Seeking, Small
<1>11. InData(k, j) => InData(k, j)'
  <2> SUFFICES ASSUME InData(k, j) PROVE InData(k, j)'
    OBVIOUS
  <2>1. k \in 1 .. Len(Messages)
    <3>1. k <= Len(Messages) /\ Len(Messages) \in Nat
      BY FeedMessages DEF InData
    <3> QED BY <1>5, <3>1
  <2>2. DataLen(k) # 0 /\ c.sff.size = DataLen(k)
    BY <2>1, FeedMessages DEF InData
  <2>3. c.sff # NoSff
    BY <2>2 DEF NoSff
  <2> QED BY <1>2, <1>4, <1>8, <2>3 DEF InData, Small
<1>12. FeedReader(k, j)'
  BY <1>1, <1>2, <1>3, <1>5, <1>6, <1>9, <1>10, <1>11 DEF FeedReader
<1> QED BY <1>5, <1>8, <1>12, FeedKept

\* After n more bytes a reader is further in the same block, or at the next one.
LEMMA FeedNext ==
  ASSUME TypeInv, OnWire, body.kind = "feed", NEW n, Advanced(n),
         NEW k \in 1 .. Len(Messages), NEW j \in Nat, At(k, j),
         j + n <= Len(Frames[k])
  PROVE  /\ n \in Nat /\ j + n \in Nat /\ k \in Nat /\ k + 1 \in Nat /\ k <= Len(Messages')
         /\ At(k, j + n)'
         /\ j + n = Len(Frames[k]) => At(k + 1, 0)'
<1>1. n \in Nat /\ Messages' = Messages
  BY LenProperties, TypeIs DEF Advanced
<1>2. PICK q \in Nat, l \in Nat : q = Len(Messages) /\ k \in 1 .. q /\ l = Len(Frames[k])
  BY FeedMessages
<1>3. At(k, j + n)'
  BY DEF Advanced
<1>4. ASSUME j + n = l PROVE At(k + 1, 0)'
  <2>1. At(k + 1, j - l)
    BY <1>2, AtNext
  <2>2. At(k + 1, (j - l) + n)'
    BY <2>1 DEF Advanced
  <2>3. (j - l) + n = 0
    BY <1>1, <1>4
  <2> QED BY <2>2, <2>3
<1> QED BY <1>1, <1>2, <1>3, <1>4

LEMMA FeedOver ==
  ASSUME TypeInv, OnWire, body.kind = "feed", PeerClosed,
         NEW k, k = Len(Messages) + 1, taken = Joined(Smalls, k - 1)
  PROVE  tx \in {"closed", "cut"} /\ taken = Joined(Smalls, Len(posted))
<1>1. Messages = posted /\ Len(Messages) \in Nat
  BY FeedMessages
<1>2. k - 1 = Len(posted)
  BY <1>1
<1> QED BY <1>2 DEF PeerClosed

\* What check makes of a recv of a feeder.
LEMMA FeedCheck ==
  ASSUME TypeInv, body.kind = "feed", NEW m \in CType, m.data_count = 0, NEW bytes,
         bytes \in Seq(Nat), Check(m, Length(bytes), "EAGAIN")
  PROVE  /\ c' \in CType /\ c' = [m EXCEPT !.pc = c'.pc] /\ c'.data_count = 0
         /\ c'.sff = m.sff
         /\ c'.pc = IF bytes = <<>> /\ PeerClosed THEN "over" ELSE "poll"
<1>1. /\ c' \in CType /\ c' = [m EXCEPT !.pc = c'.pc]
      /\ c'.pc = IF Over(m, Length(bytes), "EAGAIN") THEN "over" ELSE "poll"
  BY CheckIs
<1>2. Over(m, Length(bytes), "EAGAIN") <=> bytes = <<>> /\ PeerClosed
  <2>1. body.content_length \in Nat
    BY TypeIs, PostAssumption DEF Body
  <2>2. ~(0 < body.content_length /\ m.data_count >= body.content_length)
    BY <2>1
  <2>3. Over(m, Length(bytes), "EAGAIN") <=> Length(bytes) = 0
    BY <2>2 DEF Over
  <2>4. CASE bytes # <<>>
    <3>1. Length(bytes) = Len(bytes) /\ Len(bytes) # 0
      BY <2>4, EmptySeq DEF Length
    <3> QED BY <2>3, <2>4, <3>1
  <2>5. CASE bytes = <<>>
    <3>1. Length(bytes) = IF PeerClosed THEN 0 ELSE -1
      BY <2>5 DEF Length
    <3> QED BY <2>3, <2>5, <3>1
  <2> QED BY <2>4, <2>5
<1> QED BY <1>1, <1>2 DEF CType

LEMMA FeedReaderIs ==
  ASSUME NEW k, NEW j, At(k, j)', j >= 0, j > 0 => k <= Len(Messages') /\ j < Len(Frames'[k]),
         taken' = Joined(Smalls', k - 1), Seeking(k, j)' \/ InWord(k, j)' \/ InData(k, j)'
  PROVE  FeedReader(k, j)'
BY DEF FeedReader

\* A recv of one byte.
LEMMA RecvOne ==
  ASSUME TypeInv
  PROVE  /\ Recv(1) = <<>> <=> arrived = 0
         /\ Recv(1) # <<>> => Len(Recv(1)) = 1 /\ arrived > 0
<1>1. arrived \in Nat
  <2>1. arrived \in 0 .. Len(wire) /\ Len(wire) \in Nat
    BY LenProperties DEF TypeInv
  <2> QED BY <2>1
<1>2. /\ Len(Recv(1)) = lesser(1, arrived)
      /\ Recv(1) = <<>> <=> lesser(1, arrived) = 0
  BY RecvIs
<1>3. CASE arrived = 0
  <2>1. lesser(1, arrived) = 0
    BY <1>3 DEF lesser
  <2> QED BY <1>2, <1>3, <2>1
<1>4. CASE arrived # 0
  <2>1. lesser(1, arrived) = 1
    BY <1>1, <1>4 DEF lesser
  <2>2. arrived > 0
    BY <1>1, <1>4
  <2> QED BY <1>2, <1>4, <2>1, <2>2
<1> QED BY <1>3, <1>4

\* The header of a block is there as soon as its first byte is.
LEMMA HeaderWhole ==
  ASSUME TypeInv, Unsplit, OnWire, body.kind = "feed", NEW k \in 1 .. Len(Messages), At(k, 0),
         arrived > 0
  PROVE  arrived >= HeaderLen(k)
<1>1. /\ IsFrame(Frames[k], HeaderLen(k), DataLen(k), 0)
      /\ HeaderLen(k) \in Nat /\ DataLen(k) \in Nat
  BY FeedFrame DEF IsFrame
<1>2. PICK h \in Nat, d \in Nat : h = HeaderLen(k) /\ d = DataLen(k)
  BY <1>1
<1>3. Len(Frames[k]) = h + d /\ \A i \in 1 .. h + d : Frames[k][i].glued <=> i < h
  <2>1. h + d + 0 = h + d
    OBVIOUS
  <2> QED BY <1>1, <1>2, <2>1 DEF IsFrame
<1>4. arrived \in Nat /\ arrived <= Len(wire) /\ Len(wire) \in Nat
  BY LenProperties, TypeIs
<1> SUFFICES ASSUME arrived < h PROVE FALSE
  BY <1>2, <1>4
<1>5. arrived \in 1 .. Len(wire) /\ arrived \in 1 .. h + d
  BY <1>4
<1>6. wire[arrived] = Frames[k][arrived]
  <2>1. 0 + arrived = arrived
    BY <1>4
  <2> QED BY <1>3, <1>5, <2>1, Facing, SMTT(30)
<1>7. wire[arrived].glued
  BY <1>3, <1>5, <1>6
<1> QED BY <1>7 DEF Unsplit

\* The search passes over the data of a block too large, and finds the next 'S' where a block begins.
LEMMA FeedSync ==
  ASSUME TypeInv, Unsplit, OnWire, FeedInv, body.kind = "feed", NoSyncInLarge, Sync
  PROVE  FeedInv'
<1>1. PICK byte : byte = Recv(1)
  OBVIOUS
<1>2. /\ c.pc = "sync" /\ Take(byte) /\ UNCHANGED <<body, tx, posted, taken, stored>>
  BY <1>1 DEF Sync
<1>3. byte \in Seq(Nat) /\ Len(byte) \in 0 .. arrived
  BY <1>1, RecvType
<1>4. PICK k \in Nat, j \in Nat :
        /\ c.data_count = 0 /\ FeedReader(k, j) /\ At(k, j) /\ taken = Joined(Smalls, k - 1)
        /\ \/ Len(wire) = 0 /\ k = Len(Messages) + 1 /\ j = 0
           \/ Len(wire) > 0 /\ k \in 1 .. Len(Messages) /\ j < Len(Frames[k])
  BY <1>2, FeedAt
<1>5. Seeking(k, j)
  BY <1>2, <1>4 DEF FeedReader, InWord, InData, Word
<1>6. c \in CType /\ arrived \in Nat
  BY TypeIs, LenProperties
<1>7. CASE byte = <<>>
  <2>1. Advanced(0)
    <3>1. Len(byte) = 0 /\ 0 \in 0 .. arrived
      BY <1>6, <1>7, EmptySeq
    <3> QED BY <1>2, <3>1, Advance
  <2>2. Check(c, Length(byte), "EAGAIN")
    BY <1>1, <1>7 DEF Sync
  <2>3. /\ c'.data_count = 0 /\ c'.sff = c.sff
        /\ c'.pc = IF PeerClosed THEN "over" ELSE "poll"
    BY <1>3, <1>4, <1>6, <1>7, <2>2, FeedCheck
  <2>4. CASE PeerClosed
    <3>1. Len(wire) = 0
      BY <2>4, EmptySeq DEF PeerClosed
    <3>2. tx \in {"closed", "cut"} /\ taken = Joined(Smalls, Len(posted))
      BY <1>4, <2>4, <3>1, FeedOver
    <3> QED BY <1>2, <2>1, <2>3, <2>4, <3>2 DEF FeedInv, Advanced
  <2>5. CASE ~PeerClosed
    <3>1. At(k, j)'
      <4>1. j + 0 = j
        OBVIOUS
      <4> QED BY <1>4, <2>1, <4>1 DEF Advanced
    <3>2. Seeking(k, j)'
      BY <1>5, <2>1, <2>3, <2>5 DEF Advanced, Seeking, Small
    <3>3. FeedReader(k, j)'
      BY <1>2, <1>4, <2>1, <3>1, <3>2 DEF Advanced, FeedReader
    <3> QED BY <2>3, <2>5, <3>3, FeedKept
  <2> QED BY <2>4, <2>5
<1>8. CASE byte # <<>>
  <2>1. arrived > 0 /\ Len(byte) = 1
    BY <1>1, <1>8, RecvOne
  <2>2. k \in 1 .. Len(Messages) /\ j < Len(Frames[k])
    <3>1. arrived <= Len(wire) /\ Len(wire) \in Nat
      BY TypeIs, LenProperties
    <3> QED BY <1>4, <1>6, <2>1, <3>1
  <2>3. PICK l \in Nat, h \in Nat, d \in Nat :
          l = Len(Frames[k]) /\ h = HeaderLen(k) /\ d = DataLen(k) /\ l = h + d /\ h > 4 /\ d > 0
    <3>1. /\ HeaderLen(k) = 4 + SizeBytes /\ Len(Frames[k]) = 4 + SizeBytes + DataLen(k)
          /\ SizeBytes \in Nat \ {0} /\ DataLen(k) \in Nat \ {0}
      BY <2>2, FeedMessages
    <3> QED BY <3>1
  <2>4. j < l /\ j + 1 \in 1 .. l
    BY <2>2, <2>3
  <2>5. byte[1] = Frames[k][j + 1].b
    <3>1. j \in Int /\ j + 1 \in 1 .. Len(Frames[k])
      BY <2>3, <2>4
    <3>2. Recv(1)[1] = Frames[k][j + 1].b
      BY <1>4, <2>1, <2>2, <3>1, ReadByte
    <3> QED BY <1>1, <3>2
  <2>6. Advanced(1)
    <3>1. 1 \in 0 .. arrived
      BY <1>6, <2>1
    <3> QED BY <1>2, <2>1, <3>1, Advance
  <2>7. /\ At(k, j + 1)' /\ k <= Len(Messages') /\ (j + 1 = l => At(k + 1, 0)')
        /\ j + 1 \in Nat /\ k + 1 \in Nat
    <3>1. j + 1 <= Len(Frames[k])
      BY <2>3, <2>4
    <3> QED BY <1>4, <2>2, <2>3, <2>6, <3>1, FeedNext
  <2>8. c' = [c EXCEPT !.buf[1] = byte[1], !.pc = IF byte[1] = chS THEN "F" ELSE "sync"]
    BY <1>1, <1>8 DEF Sync
  <2>9. /\ c'.data_count = 0 /\ c'.sff = c.sff
        /\ c'.pc = IF byte[1] = chS THEN "F" ELSE "sync"
    BY <1>4, <1>6, <2>8 DEF CType
  <2>10. CASE j = 0
    <3>1. byte[1] = chS
      <4>1. j + 1 = 1
        BY <2>10
      <4> QED BY <2>2, <2>5, <4>1, FeedFrame
    <3>2. arrived >= h
      BY <1>4, <2>1, <2>2, <2>3, <2>10, HeaderWhole
    <3>3. arrived' = arrived - 1 /\ HeaderLen(k)' = h
      BY <2>3, <2>6 DEF Advanced
    <3>4. HeaderHere(k, 1)'
      <4>1. arrived - 1 >= h - 1
        BY <1>6, <3>2
      <4> QED BY <3>3, <4>1 DEF HeaderHere
    <3>5. InWord(k, 1)'
      BY <1>5, <2>7, <2>9, <3>1, <3>4 DEF InWord, Word, Seeking
    <3>6. FeedReader(k, 1)'
      <4>1. At(k, 1)' /\ 1 < l
        <5>1. j + 1 = 1
          BY <2>10
        <5>2. At(k, 1)'
          BY <2>7, <5>1
        <5> QED BY <2>3, <5>2
      <4>2. Frames' = Frames /\ Smalls' = Smalls
        BY <2>6 DEF Advanced
      <4>3. 1 < Len(Frames'[k]) /\ taken' = Joined(Smalls', k - 1)
        BY <1>2, <1>4, <2>3, <4>1, <4>2
      <4> QED BY <2>7, <3>5, <4>1, <4>3, FeedReaderIs
    <3> QED BY <1>4, <2>9, <3>1, <3>6, FeedKept
  <2>11. CASE j # 0
    <3>1. j >= h /\ ~Small(Messages[k])
      BY <1>5, <2>3, <2>11 DEF Seeking
    <3>2. PICK i \in 1 .. d : j + 1 = h + i
      <4>1. j + 1 - h \in 1 .. d /\ j + 1 = h + (j + 1 - h)
        BY <2>3, <2>4, <3>1
      <4> QED BY <4>1
    <3>3. Frames[k][h + i].b = Messages[k].data[i]
      BY <2>2, <2>3, <3>2, FeedFrame
    <3>4. byte[1] # chS
      <4>1. Messages[k].data \in Payloads /\ ~(Len(Messages[k].data) <= MaxSff) /\ MaxSff \in Nat
        BY <2>2, <3>1, FeedMessages DEF Small
      <4>2. Len(Messages[k].data) = d
        BY <2>3 DEF DataLen
      <4>3. Messages[k].data[i] # chS
        BY <3>2, <4>1, <4>2 DEF NoSyncInLarge
      <4> QED BY <2>5, <3>2, <3>3, <4>3
    <3>5. c'.pc = "sync" /\ c'.sff = NoSff
      BY <1>5, <2>9, <3>4 DEF Seeking
    <3>6. Frames' = Frames /\ Smalls' = Smalls /\ Messages' = Messages /\ HeaderLen(k)' = h
      BY <2>3, <2>6 DEF Advanced
    <3>7. CASE j + 1 = l
      <4>1. Joined(Smalls, k) = Joined(Smalls, k - 1)
        BY <2>2, <3>1, SmallsNext
      <4>2. taken' = Joined(Smalls', k + 1 - 1)
        <5>1. k + 1 - 1 = k
          OBVIOUS
        <5> QED BY <1>2, <1>4, <3>6, <4>1, <5>1
      <4>3. Seeking(k + 1, 0)'
        BY <3>5 DEF Seeking
      <4>4. FeedReader(k + 1, 0)'
        BY <2>7, <3>7, <4>2, <4>3 DEF FeedReader
      <4> QED BY <2>7, <2>9, <3>5, <4>4, FeedKept
    <3>8. CASE j + 1 # l
      <4>1. j + 1 < l /\ j + 1 >= h
        BY <2>4, <3>1, <3>8
      <4>2. Seeking(k, j + 1)'
        BY <3>1, <3>5, <3>6, <4>1 DEF Seeking, Small
      <4>3. FeedReader(k, j + 1)'
        <5>1. j + 1 < Len(Frames'[k]) /\ taken' = Joined(Smalls', k - 1) /\ j + 1 >= 0
          <6>1. Frames'[k] = Frames[k] /\ Joined(Smalls', k - 1) = Joined(Smalls, k - 1)
            BY <3>6
          <6>2. j + 1 < Len(Frames'[k])
            BY <2>3, <4>1, <6>1
          <6>3. taken' = Joined(Smalls', k - 1)
            BY <1>2, <1>4, <6>1
          <6> QED BY <6>2, <6>3
        <5> QED BY <2>7, <4>2, <5>1, FeedReaderIs
      <4> QED BY <2>7, <2>9, <3>5, <4>3, FeedKept
    <3> QED BY <3>7, <3>8
  <2> QED BY <2>10, <2>11
<1> QED BY <1>7, <1>8

\* After the 'S' of a header its other bytes are there, so the word is complete.
LEMMA FeedWord ==
  ASSUME TypeInv, Unsplit, OnWire, FeedInv, body.kind = "feed", SyncWord
  PROVE  FeedInv'
<1>1. PICK byte : byte = Recv(1)
  OBVIOUS
<1>2. /\ c.pc \in {"F", "FF", "type"} /\ Take(byte)
      /\ UNCHANGED <<body, tx, posted, taken, stored>>
  BY <1>1 DEF SyncWord
<1>3. PICK k \in Nat, j \in Nat :
        /\ c.data_count = 0 /\ FeedReader(k, j) /\ At(k, j) /\ taken = Joined(Smalls, k - 1)
        /\ \/ Len(wire) = 0 /\ k = Len(Messages) + 1 /\ j = 0
           \/ Len(wire) > 0 /\ k \in 1 .. Len(Messages) /\ j < Len(Frames[k])
  BY <1>2, FeedAt
<1>4. InWord(k, j)
  BY <1>2, <1>3 DEF FeedReader, Seeking, InData
<1>5. k \in 1 .. Len(Messages) /\ j < Len(Frames[k])
  <2>1. j # 0
    BY <1>4 DEF InWord
  <2> QED BY <1>3, <2>1
<1>6. /\ j \in 1 .. 3
      /\ c.pc = (IF j = 1 THEN "F" ELSE IF j = 2 THEN "FF" ELSE "type")
      /\ c.sff = NoSff /\ HeaderHere(k, j)
  <2>1. j \in 1 .. 4 /\ c.pc = Word[j] /\ c.sff = NoSff /\ HeaderHere(k, j)
    BY <1>4 DEF InWord
  <2>2. Word[1] = "F" /\ Word[2] = "FF" /\ Word[3] = "type" /\ Word[4] = "size"
    BY DEF Word
  <2>3. j = 1 \/ j = 2 \/ j = 3 \/ j = 4
    BY <2>1
  <2>4. j # 4
    BY <1>2, <2>1, <2>2
  <2> QED BY <1>2, <2>1, <2>2, <2>3, <2>4
<1>7. PICK l \in Nat, h \in Nat, d \in Nat :
        l = Len(Frames[k]) /\ h = HeaderLen(k) /\ d = DataLen(k) /\ l = h + d /\ h > 4 /\ d > 0
  <2>1. /\ HeaderLen(k) = 4 + SizeBytes /\ Len(Frames[k]) = 4 + SizeBytes + DataLen(k)
        /\ SizeBytes \in Nat \ {0} /\ DataLen(k) \in Nat \ {0}
    BY <1>5, FeedMessages
  <2> QED BY <2>1
<1>8. c \in CType /\ arrived \in Nat
  BY TypeIs, LenProperties
<1>9. arrived >= h - j /\ arrived > 0
  <2>1. j \in 1 .. h - 1
    BY <1>6, <1>7
  <2> QED BY <1>6, <1>7, <1>8, <2>1 DEF HeaderHere
<1>10. j + 1 \in 1 .. l /\ j + 1 < l
  BY <1>6, <1>7
<1>11. byte # <<>> /\ Len(byte) = 1 /\ byte[1] = Frames[k][j + 1].b
  <2>1. j \in Int /\ j + 1 \in 1 .. Len(Frames[k])
    BY <1>7, <1>10
  <2>2. Recv(1) # <<>> /\ Len(Recv(1)) = 1 /\ Recv(1)[1] = Frames[k][j + 1].b
    BY <1>3, <1>5, <1>9, <2>1, ReadByte
  <2> QED BY <1>1, <2>2
<1>12. Advanced(1)
  <2>1. 1 \in 0 .. arrived
    BY <1>8, <1>9
  <2> QED BY <1>2, <1>11, <2>1, Advance
<1>13. At(k, j + 1)' /\ k <= Len(Messages') /\ j + 1 \in Nat
  <2>1. j + 1 <= Len(Frames[k])
    BY <1>7, <1>10
  <2> QED BY <1>3, <1>5, <1>12, <2>1, FeedNext
<1>14. /\ byte[1] \in Wanted(c.pc)
       /\ j = 3 => byte[1] = ch0 + Messages[k].type /\ Messages[k].type \in 0 .. 9
  <2>1. /\ Frames[k][2].b = chF /\ Frames[k][3].b = chF
        /\ Frames[k][4].b = ch0 + Messages[k].type /\ Messages[k].type \in 0 .. 9
    BY <1>5, FeedFrame, FeedMessages
  <2>2. CASE j = 1
    <3>1. byte[1] = chF
      BY <1>11, <2>1, <2>2
    <3> QED BY <1>6, <2>2, <3>1 DEF Wanted
  <2>3. CASE j = 2
    <3>1. byte[1] = chF
      BY <1>11, <2>1, <2>3
    <3> QED BY <1>6, <2>3, <3>1 DEF Wanted
  <2>4. CASE j = 3
    <3>1. byte[1] = ch0 + Messages[k].type
      BY <1>11, <2>1, <2>4
    <3>2. byte[1] \in ch0 .. ch0 + 9
      BY <2>1, <3>1 DEF ch0
    <3> QED BY <1>6, <2>1, <2>4, <3>1, <3>2 DEF Wanted
  <2> QED BY <1>6, <2>2, <2>3, <2>4
<1>15. c' = [c EXCEPT !.buf[1] = byte[1],
                      !.type = IF c.pc = "type" THEN byte[1] - ch0 ELSE @,
                      !.pc = NextOf(c.pc)]
  <2>1. c' = [c EXCEPT !.buf[1] = byte[1],
                       !.type = IF c.pc = "type" THEN byte[1] - ch0 ELSE @,
                       !.pc = IF byte[1] \in Wanted(c.pc) THEN NextOf(c.pc) ELSE "sync"]
    BY <1>1, <1>11 DEF SyncWord
  <2> QED BY <1>14, <2>1
<1>16. /\ c'.data_count = 0 /\ c'.sff = c.sff /\ c'.pc = NextOf(c.pc)
       /\ c.pc = "type" => c'.type = byte[1] - ch0
  BY <1>3, <1>8, <1>15 DEF CType
<1>17. c'.pc = Word[j + 1] /\ c'.pc \in {"FF", "type", "size"} /\ (c'.pc = "size" => j = 3)
  <2>1. CASE j = 1
    BY <1>6, <1>16, <2>1 DEF NextOf, Word
  <2>2. CASE j = 2
    BY <1>6, <1>16, <2>2 DEF NextOf, Word
  <2>3. CASE j = 3
    BY <1>6, <1>16, <2>3 DEF NextOf, Word
  <2> QED BY <1>6, <2>1, <2>2, <2>3
<1>18. /\ Frames' = Frames /\ Smalls' = Smalls /\ Messages' = Messages /\ HeaderLen(k)' = h
       /\ arrived' = arrived - 1
  BY <1>7, <1>12 DEF Advanced
<1>19. InWord(k, j + 1)'
  <2>1. HeaderHere(k, j + 1)'
    <3>1. arrived - 1 >= h - (j + 1)
      BY <1>6, <1>8, <1>9
    <3> QED BY <1>18, <3>1 DEF HeaderHere
  <2>2. c'.pc = "size" => c'.type = Messages'[k].type
    <3> SUFFICES ASSUME c'.pc = "size" PROVE c'.type = Messages[k].type
      BY <1>18
    <3>1. c'.type = byte[1] - ch0 /\ byte[1] = ch0 + Messages[k].type /\ Messages[k].type \in 0 .. 9
      BY <1>6, <1>14, <1>16, <1>17
    <3> QED BY <3>1 DEF ch0
  <2>3. j + 1 \in 1 .. 4
    BY <1>6
  <2> QED BY <1>6, <1>13, <1>16, <1>17, <2>1, <2>2, <2>3 DEF InWord
<1>20. FeedReader(k, j + 1)'
  <2>1. j + 1 < Len(Frames'[k]) /\ taken' = Joined(Smalls', k - 1) /\ j + 1 >= 0
    <3>1. Frames'[k] = Frames[k] /\ Joined(Smalls', k - 1) = Joined(Smalls, k - 1)
      BY <1>18
    <3>2. j + 1 < Len(Frames'[k])
      BY <1>7, <1>10, <3>1
    <3>3. taken' = Joined(Smalls', k - 1)
      BY <1>2, <1>3, <3>1
    <3> QED BY <3>2, <3>3
  <2> QED BY <1>13, <1>19, <2>1, FeedReaderIs
<1> QED BY <1>13, <1>16, <1>17, <1>20, FeedKept

LEMMA FeedLens ==
  ASSUME TypeInv, body.kind = "feed", NEW k \in 1 .. Len(Messages)
  PROVE  \E l \in Nat, h \in Nat, d \in Nat :
           /\ l = Len(Frames[k]) /\ h = HeaderLen(k) /\ d = DataLen(k)
           /\ l = h + d /\ h = 4 + SizeBytes /\ h > 4 /\ d > 0
<1>1. /\ HeaderLen(k) = 4 + SizeBytes /\ Len(Frames[k]) = 4 + SizeBytes + DataLen(k)
      /\ SizeBytes \in Nat \ {0} /\ DataLen(k) \in Nat \ {0}
  BY FeedMessages
<1> QED BY <1>1

\* The size read is that of the block; too large, and the search goes on in its data.
LEMMA FeedSize ==
  ASSUME TypeInv, Unsplit, OnWire, FeedInv, body.kind = "feed", FeedSizes, Size
  PROVE  FeedInv'
<1>1. PICK bytes : bytes = Recv(SizeBytes)
  OBVIOUS
<1>2. c.pc = "size" /\ Take(bytes) /\ UNCHANGED <<body, tx, posted, taken, stored>>
  BY <1>1 DEF Size
<1>3. PICK k \in Nat, j \in Nat :
        /\ c.data_count = 0 /\ FeedReader(k, j) /\ At(k, j) /\ taken = Joined(Smalls, k - 1)
        /\ \/ Len(wire) = 0 /\ k = Len(Messages) + 1 /\ j = 0
           \/ Len(wire) > 0 /\ k \in 1 .. Len(Messages) /\ j < Len(Frames[k])
  BY <1>2, FeedAt
<1>4. InWord(k, j)
  BY <1>2, <1>3 DEF FeedReader, Seeking, InData
<1>5. k \in 1 .. Len(Messages)
  <2>1. j # 0
    BY <1>4 DEF InWord
  <2> QED BY <1>3, <2>1
<1>6. j = 4 /\ c.sff = NoSff /\ HeaderHere(k, 4) /\ c.type = Messages[k].type
  <2>1. /\ j \in 1 .. 4 /\ c.pc = Word[j] /\ c.sff = NoSff /\ HeaderHere(k, j)
        /\ c.pc = "size" => c.type = Messages[k].type
    BY <1>4 DEF InWord
  <2>2. Word[1] = "F" /\ Word[2] = "FF" /\ Word[3] = "type" /\ Word[4] = "size"
    BY DEF Word
  <2>3. j = 1 \/ j = 2 \/ j = 3 \/ j = 4
    BY <2>1
  <2>4. j = 4
    BY <1>2, <2>1, <2>2, <2>3
  <2> QED BY <1>2, <2>1, <2>4
<1>7. PICK l \in Nat, h \in Nat, d \in Nat :
        /\ l = Len(Frames[k]) /\ h = HeaderLen(k) /\ d = DataLen(k)
        /\ l = h + d /\ h = 4 + SizeBytes /\ h > 4 /\ d > 0
  BY <1>5, FeedLens
<1>8. c \in CType /\ arrived \in Nat /\ arrived <= Len(wire) /\ Len(wire) \in Nat
  BY TypeIs, LenProperties
<1>9. PICK s \in Nat : s = SizeBytes /\ s > 0
  BY PostAssumption
<1>10. arrived >= s
  <2>1. 4 \in 1 .. h - 1 /\ h - 4 = s
    BY <1>7, <1>9
  <2> QED BY <1>6, <1>7, <2>1 DEF HeaderHere
<1>11. /\ bytes \in Seq(Nat) /\ Len(bytes) = s
       /\ \A i \in 1 .. s : bytes[i] = Frames[k][4 + i].b
  <2>1. lesser(s, arrived) = s
    BY <1>8, <1>10 DEF lesser
  <2>2. /\ Recv(s) \in Seq(Nat) /\ Len(Recv(s)) = lesser(s, arrived)
        /\ \A i \in 1 .. lesser(s, arrived) : Recv(s)[i] = wire[i].b
    BY RecvIs
  <2>3. ASSUME NEW i \in 1 .. s PROVE wire[i] = Frames[k][4 + i]
    <3>1. i \in 1 .. Len(wire) /\ 4 + i \in 1 .. Len(Frames[k]) /\ At(k, 4)
      BY <1>3, <1>6, <1>7, <1>8, <1>9, <1>10
    <3> QED BY <1>5, <3>1, Facing
  <2> QED BY <1>1, <1>9, <2>1, <2>2, <2>3
<1>12. PICK buf : buf = bytes \o SubSeq(c.buf, Len(bytes) + 1, SizeBytes)
  OBVIOUS
<1>13. buf = bytes /\ Value(bytes) = d
  <2>1. buf = bytes
    BY <1>1, <1>9, <1>11, <1>12, SizeIs
  <2>2. bytes = [i \in 1 .. SizeBytes |-> Frames[k][4 + i].b]
    <3>1. bytes = [i \in 1 .. Len(bytes) |-> bytes[i]]
      <4>1. DOMAIN bytes = 1 .. Len(bytes) /\ bytes \in [1 .. Len(bytes) -> Nat]
        BY <1>11, LenProperties
      <4> QED BY <4>1
    <3>2. [i \in 1 .. s |-> bytes[i]] = [i \in 1 .. s |-> Frames[k][4 + i].b]
      BY <1>11
    <3> QED BY <1>9, <1>11, <3>1, <3>2
  <2>3. Value([i \in 1 .. SizeBytes |-> Frames[k][4 + i].b]) = DataLen(k)
    BY <1>5, FeedFrame
  <2> QED BY <1>7, <2>1, <2>2, <2>3
<1>14. Advanced(s)
  <2>1. s \in 0 .. arrived
    BY <1>8, <1>10
  <2> QED BY <1>2, <1>11, <2>1, Advance
<1>15. At(k, h)' /\ k <= Len(Messages') /\ h < l
  <2>1. j + s = h /\ h < l
    BY <1>6, <1>7, <1>9
  <2>2. j + s <= Len(Frames[k])
    BY <1>7, <2>1
  <2>3. At(k, j + s)' /\ k <= Len(Messages')
    BY <1>3, <1>5, <1>14, <2>2, FeedNext
  <2> QED BY <2>1, <2>3
<1>16. Fits(d) <=> Small(Messages[k])
  BY <1>7 DEF Fits, Small, DataLen
<1>17. /\ Frames' = Frames /\ Smalls' = Smalls /\ Messages' = Messages /\ HeaderLen(k)' = h
       /\ DataLen(k)' = d
  BY <1>7, <1>14 DEF Advanced
<1>18. c' = IF Fits(d)
            THEN [c EXCEPT !.buf = buf, !.pc = "data",
                           !.sff = [type |-> c.type, size |-> d, data |-> <<>>]]
            ELSE [c EXCEPT !.buf = buf, !.pc = "sync"]
  BY <1>1, <1>12, <1>13 DEF Size
<1>19. Seeking(k, h)' \/ InData(k, h)'
  <2>1. CASE Fits(d)
    <3>1. c'.pc = "data" /\ c'.sff = [type |-> c.type, size |-> d, data |-> <<>>]
      BY <1>8, <1>18, <2>1 DEF CType
    <3>2. SubSeq(Messages[k].data, 1, h - h) = <<>>
      <4>1. h - h = 0
        OBVIOUS
      <4> QED BY <4>1, SubSeqEmpty
    <3> QED BY <1>6, <1>15, <1>16, <1>17, <2>1, <3>1, <3>2 DEF InData, Small
  <2>2. CASE ~Fits(d)
    <3>1. c'.pc = "sync" /\ c'.sff = c.sff
      BY <1>8, <1>18, <2>2 DEF CType
    <3> QED BY <1>6, <1>16, <1>17, <2>2, <3>1 DEF Seeking, Small
  <2> QED BY <2>1, <2>2
<1>20. FeedReader(k, h)'
  <2>1. Frames'[k] = Frames[k] /\ Joined(Smalls', k - 1) = Joined(Smalls, k - 1)
    BY <1>17
  <2>2. h < Len(Frames'[k])
    BY <1>7, <1>15, <2>1
  <2>3. taken' = Joined(Smalls', k - 1)
    BY <1>2, <1>3, <2>1
  <2> QED BY <1>15, <1>19, <2>2, <2>3, FeedReaderIs
<1>21. c'.data_count = 0 /\ c'.pc # "over"
  BY <1>3, <1>8, <1>18 DEF CType
<1> QED BY <1>20, <1>21, FeedKept

\* A recv goes on where the data that is already there ends.
Resumes(bytes, n, p, x) == bytes \in Seq(Nat) /\ Len(bytes) = n /\ \A i \in 1 .. n : bytes[i] = p[x + i]

\* Bytes that go on where the data ended.
LEMMA DataNext ==
  ASSUME NEW d \in Nat, NEW p \in Seq(Nat), Len(p) = d, NEW x \in 0 .. d, NEW n \in 0 .. d - x,
         NEW bytes, Resumes(bytes, n, p, x)
  PROVE  /\ SubSeq(p, 1, x) \o bytes = SubSeq(p, 1, x + n)
         /\ Len(SubSeq(p, 1, x)) = x /\ Len(SubSeq(p, 1, x + n)) = x + n
         /\ SubSeq(p, 1, x) \in Seq(Nat) /\ SubSeq(p, 1, x + n) \in Seq(Nat)
<1>0. bytes \in Seq(Nat) /\ Len(bytes) = n /\ \A i \in 1 .. n : bytes[i] = p[x + i]
  BY DEF Resumes
<1>1. x \in Nat /\ n \in Nat /\ x <= d /\ x + n <= d
  OBVIOUS
<1>2. \A i \in 1 .. d : p[i] \in Nat
  BY ElementOfSeq
<1>3. ASSUME NEW y \in 0 .. d
      PROVE  /\ SubSeq(p, 1, y) \in Seq(Nat) /\ Len(SubSeq(p, 1, y)) = y
             /\ \A i \in 1 .. y : SubSeq(p, 1, y)[i] = p[i]
  <2>1. \A i \in 1 .. y : p[i] \in Nat
    BY <1>2
  <2>2. /\ SubSeq(p, 1, y) \in Seq(Nat)
        /\ Len(SubSeq(p, 1, y)) = IF 1 <= y THEN y - 1 + 1 ELSE 0
        /\ \A i \in 1 .. y - 1 + 1 : SubSeq(p, 1, y)[i] = p[1 + i - 1]
    BY <2>1, SubSeqProperties
  <2> QED BY <2>2
<1>4. x + n \in 0 .. d
  BY <1>1
<1> DEFINE a == SubSeq(p, 1, x)
           b == SubSeq(p, 1, x + n)
<1>5. /\ a \in Seq(Nat) /\ Len(a) = x /\ \A i \in 1 .. x : a[i] = p[i]
      /\ b \in Seq(Nat) /\ Len(b) = x + n /\ \A i \in 1 .. x + n : b[i] = p[i]
  BY <1>3, <1>4
<1> HIDE DEF a, b
<1>6. /\ a \o bytes \in Seq(Nat) /\ Len(a \o bytes) = x + n
      /\ \A i \in 1 .. x : (a \o bytes)[i] = a[i]
      /\ \A i \in 1 .. n : (a \o bytes)[x + i] = bytes[i]
  <2>1. Follows(Nat, a, bytes, a \o bytes, x, n)
    BY <1>0, <1>5, ConcatAt
  <2> QED BY <2>1 DEF Follows
<1>7. ASSUME NEW i \in 1 .. x + n PROVE (a \o bytes)[i] = b[i]
  <2>1. CASE i <= x
    BY <1>5, <1>6, <2>1
  <2>2. CASE ~(i <= x)
    <3>1. PICK m \in 1 .. n : i = x + m
      <4>1. i - x \in 1 .. n /\ i = x + (i - x)
        BY <1>1, <2>2
      <4> QED BY <4>1
    <3> QED BY <1>0, <1>5, <1>6, <3>1
  <2> QED BY <2>1, <2>2
<1>8. a \o bytes = b
  <2>1. PICK u : u = a \o bytes
    OBVIOUS
  <2>2. u \in Seq(Nat) /\ b \in Seq(Nat) /\ Len(u) = Len(b)
        /\ \A i \in 1 .. Len(u) : u[i] = b[i]
    BY <1>5, <1>6, <1>7, <2>1
  <2>3. u = b
    BY <2>2, SeqEqual
  <2> QED BY <2>1, <2>3
<1> QED BY <1>5, <1>8 DEF a, b

LEMMA InDataIs ==
  ASSUME NEW k, NEW j, k <= Len(Messages'), j >= HeaderLen(k)', Small(Messages[k])',
         c'.pc \in {"poll", "data"}, NEW data, data = SubSeq(Messages'[k].data, 1, j - HeaderLen(k)'),
         c'.sff = [type |-> Messages'[k].type, size |-> DataLen(k)', data |-> data]
  PROVE  InData(k, j)'
BY DEF InData

\* The data of a block, in as many calls as it takes; the last byte hands it to sff_write.
LEMMA FeedData ==
  ASSUME TypeInv, Unsplit, OnWire, FeedInv, body.kind = "feed", Data
  PROVE  FeedInv'
<1>1. PICK bytes : bytes = Recv(c.sff.size - Len(c.sff.data))
  OBVIOUS
<1>2. c.pc = "data" /\ Take(bytes) /\ UNCHANGED <<body, tx, posted, stored>>
  BY <1>1 DEF Data
<1>3. PICK k \in Nat, j \in Nat :
        /\ c.data_count = 0 /\ FeedReader(k, j) /\ At(k, j) /\ taken = Joined(Smalls, k - 1)
        /\ \/ Len(wire) = 0 /\ k = Len(Messages) + 1 /\ j = 0
           \/ Len(wire) > 0 /\ k \in 1 .. Len(Messages) /\ j < Len(Frames[k])
  BY <1>2, FeedAt
<1>4. InData(k, j)
  BY <1>2, <1>3 DEF FeedReader, Seeking, InWord, Word
<1>5. k \in 1 .. Len(Messages) /\ j < Len(Frames[k]) /\ Len(wire) > 0
  <2>1. k <= Len(Messages) /\ Len(Messages) \in Nat
    BY <1>4, FeedMessages DEF InData
  <2> QED BY <1>3, <2>1
<1>6. PICK l \in Nat, h \in Nat, d \in Nat :
        /\ l = Len(Frames[k]) /\ h = HeaderLen(k) /\ d = DataLen(k)
        /\ l = h + d /\ h = 4 + SizeBytes /\ h > 4 /\ d > 0
  BY <1>5, FeedLens
<1>7. PICK p : p = Messages[k].data
  OBVIOUS
<1>8. p \in Seq(Nat) /\ Len(p) = d
  BY <1>5, <1>6, <1>7, MessagesAre DEF DataLen
<1>9. PICK x \in Nat : x = j - h /\ x < d /\ j = h + x
  <2>1. j >= h
    BY <1>4, <1>6 DEF InData
  <2>2. j - h \in Nat /\ j - h < d /\ j = h + (j - h)
    BY <1>5, <1>6, <2>1
  <2> QED BY <2>2
<1>10. /\ Small(Messages[k])
       /\ c.sff = [type |-> Messages[k].type, size |-> d, data |-> SubSeq(p, 1, x)]
  BY <1>4, <1>6, <1>7, <1>9 DEF InData
<1>11. c \in CType /\ arrived \in Nat /\ arrived <= Len(wire) /\ Len(wire) \in Nat
  BY TypeIs, LenProperties
<1>12. Len(SubSeq(p, 1, x)) = x
  <2>1. \A i \in 1 .. x : p[i] \in Nat
    <3>1. \A i \in 1 .. d : p[i] \in Nat
      BY <1>8, ElementOfSeq
    <3> QED BY <1>9, <3>1
  <2>2. Len(SubSeq(p, 1, x)) = IF 1 <= x THEN x - 1 + 1 ELSE 0
    BY <2>1, SubSeqProperties
  <2> QED BY <2>2
<1>13. PICK m \in Nat : m = d - x /\ m > 0 /\ bytes = Recv(m)
  <2>1. c.sff.size - Len(c.sff.data) = d - x
    BY <1>10, <1>12
  <2>2. d - x \in Nat /\ d - x > 0
    BY <1>9
  <2> QED BY <1>1, <2>1, <2>2
<1>14. PICK n \in Nat :
         /\ n = Len(bytes) /\ n <= arrived /\ n <= m /\ (bytes = <<>> <=> n = 0)
         /\ bytes \in Seq(Nat) /\ \A i \in 1 .. n : bytes[i] = wire[i].b
  <2>1. /\ lesser(m, arrived) \in 0 .. arrived /\ lesser(m, arrived) <= m
        /\ bytes \in Seq(Nat) /\ Len(bytes) = lesser(m, arrived)
        /\ \A i \in 1 .. lesser(m, arrived) : bytes[i] = wire[i].b
        /\ bytes = <<>> <=> lesser(m, arrived) = 0
    BY <1>13, RecvIs
  <2>2. PICK n : n = lesser(m, arrived)
    OBVIOUS
  <2>3. n \in Nat /\ n <= arrived
    BY <1>11, <2>1, <2>2
  <2> QED BY <2>1, <2>2, <2>3
<1>30. l = h + d /\ j = h + x /\ x < d /\ m = d - x /\ m > 0 /\ n <= m
  BY <1>6, <1>9, <1>13, <1>14
<1>15. ASSUME NEW i \in 1 .. n PROVE bytes[i] = p[x + i]
  <2>1. i \in 1 .. Len(wire) /\ j + i \in 1 .. Len(Frames[k]) /\ x + i \in 1 .. d
        /\ j + i = h + (x + i)
    <3>1. i \in 1 .. Len(wire)
      BY <1>11, <1>14
    <3>2. j + i \in 1 .. l /\ x + i \in 1 .. d /\ j + i = h + (x + i)
      BY <1>30
    <3> QED BY <1>6, <3>1, <3>2
  <2>2. wire[i] = Frames[k][j + i]
    BY <1>3, <1>5, <2>1, Facing
  <2>3. Frames[k][h + (x + i)].b = p[x + i]
    BY <1>5, <1>6, <1>7, <2>1, FeedFrame
  <2> QED BY <1>14, <2>1, <2>2, <2>3
<1>16. PICK data : data = c.sff.data \o bytes
  OBVIOUS
<1>17. data = SubSeq(p, 1, x + n) /\ Len(data) = x + n /\ data \in Seq(Nat)
  <2>1. x \in 0 .. d /\ n \in 0 .. d - x
    BY <1>30
  <2>3. Resumes(bytes, n, p, x)
    BY <1>14, <1>15 DEF Resumes
  <2>2. /\ SubSeq(p, 1, x) \o bytes = SubSeq(p, 1, x + n)
        /\ Len(SubSeq(p, 1, x + n)) = x + n /\ SubSeq(p, 1, x + n) \in Seq(Nat)
    BY <1>8, <2>1, <2>3, DataNext
  <2>4. data = SubSeq(p, 1, x) \o bytes
    BY <1>10, <1>16
  <2> QED BY <2>2, <2>4
<1>18. Advanced(n)
  <2>1. n \in 0 .. arrived
    BY <1>11, <1>14
  <2> QED BY <1>2, <1>14, <2>1, Advance
<1>19. /\ At(k, j + n)' /\ k <= Len(Messages') /\ j + n \in Nat /\ k + 1 \in Nat
       /\ j + n = l => At(k + 1, 0)'
  <2>1. j + n <= Len(Frames[k])
    <3>1. j + n <= l
      BY <1>30
    <3> QED BY <1>6, <3>1
  <2> QED BY <1>3, <1>5, <1>6, <1>18, <2>1, FeedNext
<1>20. /\ Frames' = Frames /\ Smalls' = Smalls /\ Messages' = Messages /\ HeaderLen(k)' = h
       /\ DataLen(k)' = d
  BY <1>6, <1>18 DEF Advanced
<1>21. ~PeerClosed
  BY <1>5, EmptySeq DEF PeerClosed
<1>22. PICK sff : sff = IF Len(data) = d THEN NoSff ELSE [c.sff EXCEPT !.data = data]
  OBVIOUS
<1>23. sff \in [type : Int, size : Nat, data : Seq(Nat)]
  <2>1. c.sff \in [type : Int, size : Nat, data : Seq(Nat)]
    BY <1>11 DEF CType
  <2>2. CASE Len(data) = d
    BY <1>22, <2>2, EmptySeq DEF NoSff
  <2>3. CASE Len(data) # d
    <3>1. sff = [c.sff EXCEPT !.data = data] /\ data \in Seq(Nat)
      BY <1>17, <1>22, <2>3
    <3> QED BY <2>1, <3>1
  <2> QED BY <2>2, <2>3
<1>24. PICK mm : mm = [c EXCEPT !.sff = sff]
  OBVIOUS
<1>25. mm \in CType /\ mm.sff = sff /\ mm.data_count = 0
  BY <1>3, <1>11, <1>23, <1>24 DEF CType
<1>26. Check(mm, Length(bytes), "EAGAIN")
  <2>1. Check([c EXCEPT !.sff = IF Len(data) = c.sff.size THEN NoSff ELSE [@ EXCEPT !.data = data]],
              Length(bytes), "EAGAIN")
    BY <1>1, <1>16 DEF Data
  <2>2. c.sff.size = d
    BY <1>10
  <2> QED BY <1>22, <1>24, <2>1, <2>2
<1>27. c'.data_count = 0 /\ c'.sff = sff /\ c'.pc = "poll"
  BY <1>14, <1>21, <1>25, <1>26, FeedCheck
<1>28. CASE x + n = d
  <2>1. sff = NoSff /\ j + n = l
    <3>1. Len(data) = d
      BY <1>17, <1>28
    <3>2. j + n = l
      BY <1>28, <1>30
    <3> QED BY <1>22, <3>1, <3>2
  <2>2. taken' = Append(taken, [type |-> c.sff.type, data |-> data])
    <3>1. Len(data) = c.sff.size
      BY <1>10, <1>17, <1>28
    <3> QED BY <1>1, <1>16, <3>1 DEF Data
  <2>3. [type |-> c.sff.type, data |-> data] = Messages[k]
    <3>1. Messages[k] \in [type : 0 .. 9, data : Payloads]
      BY <1>5, FeedMessages
    <3>2. data = p
      BY <1>8, <1>17, <1>28, SubSeqFull
    <3>3. c.sff.type = Messages[k].type
      BY <1>10
    <3> QED BY <1>7, <3>1, <3>2, <3>3
  <2>4. Joined(Smalls, k) = Append(Joined(Smalls, k - 1), Messages[k])
    BY <1>5, <1>10, SmallsNext
  <2>5. taken' = Joined(Smalls', k + 1 - 1)
    <3>1. k + 1 - 1 = k
      OBVIOUS
    <3> QED BY <1>3, <1>20, <2>2, <2>3, <2>4, <3>1
  <2>6. Seeking(k + 1, 0)'
    BY <1>27, <2>1 DEF Seeking
  <2>7. FeedReader(k + 1, 0)'
    BY <1>19, <2>1, <2>5, <2>6, FeedReaderIs
  <2> QED BY <1>19, <1>27, <2>7, FeedKept
<1>29. CASE x + n # d
  <2>1. j + n < l /\ j + n >= h /\ j + n - h = x + n
    BY <1>29, <1>30
  <2>2. taken' = taken
    <3>1. Len(data) # c.sff.size
      BY <1>10, <1>17, <1>29
    <3> QED BY <1>1, <1>16, <3>1 DEF Data
  <2>3. sff = [type |-> Messages[k].type, size |-> d, data |-> data]
    <3>0. Len(data) # d
      BY <1>17, <1>29
    <3>1. sff = [c.sff EXCEPT !.data = data]
      BY <1>22, <3>0
    <3> QED BY <1>10, <3>1
  <2>4. InData(k, j + n)'
    <3>1. PICK y \in Nat : y = j + n /\ y >= h /\ y - h = x + n
      BY <2>1
    <3>2. c'.sff = [type |-> Messages'[k].type, size |-> DataLen(k)', data |-> data]
      BY <1>20, <1>27, <2>3
    <3>3. Small(Messages[k])'
      BY <1>10, <1>20 DEF Small
    <3>4. data = SubSeq(Messages'[k].data, 1, y - HeaderLen(k)') /\ y >= HeaderLen(k)'
      <4>1. data = SubSeq(p, 1, y - h)
        BY <1>17, <3>1
      <4> QED BY <1>7, <1>20, <3>1, <4>1
    <3>5. k <= Len(Messages') /\ c'.pc \in {"poll", "data"}
      BY <1>19, <1>27
    <3>6. InData(k, y)'
      BY <3>2, <3>3, <3>4, <3>5, InDataIs
    <3> QED BY <3>1, <3>6
  <2>5. FeedReader(k, j + n)'
    <3>1. Frames'[k] = Frames[k] /\ Joined(Smalls', k - 1) = Joined(Smalls, k - 1)
      BY <1>20
    <3>2. j + n < Len(Frames'[k])
      BY <1>6, <2>1, <3>1
    <3>3. taken' = Joined(Smalls', k - 1)
      BY <1>3, <2>2, <3>1
    <3> QED BY <1>19, <2>4, <3>2, <3>3, FeedReaderIs
  <2> QED BY <1>19, <1>27, <2>5, FeedKept
<1> QED BY <1>28, <1>29

LEMMA FeedStep ==
  ASSUME TypeInv, Unsplit, OnWire, FeedInv, [Next]_vars, FeedSizes, NoSyncInLarge
  PROVE  FeedInv'
<1>1. body' = body
  BY DEF Next, Peer, Server, sff_write_header, sff_write_packet, WriteBody, Close, Arrive, Begin, Sync, SyncWord,
         Size, Data, ChunkHeader, BodyData, Post, vars
<1> SUFFICES ASSUME body.kind = "feed" PROVE FeedInv'
  BY <1>1 DEF FeedInv
<1>2. CASE UNCHANGED vars
  <2>1. Messages' = Messages
    BY <1>2 DEF vars, Messages
  <2>2. Frames' = Frames /\ Smalls' = Smalls
    BY <1>2, <2>1 DEF vars, Frames, Smalls, FrameHeader, FrameRest
  <2>3. ASSUME NEW k, NEW j, FeedReader(k, j) PROVE FeedReader(k, j)'
    BY <1>2, <2>1, <2>2, <2>3 DEF vars, FeedReader, At, Seeking, InWord, InData, HeaderHere,
       HeaderLen, DataLen, FrameHeader, Small
  <2> QED BY <1>2, <2>2, <2>3 DEF vars, FeedInv
<1>3. CASE ChunkHeader \/ BodyData
  <2>1. c.pc \in {"chunk", "body"}
    BY <1>3 DEF ChunkHeader, BodyData
  <2>2. PICK k \in Nat, j \in Nat : FeedReader(k, j)
    BY <2>1, FeedAt
  <2> QED BY <2>1, <2>2 DEF FeedReader, Seeking, InWord, InData, Word
<1> QED BY <1>2, <1>3, FeedPeer, FeedArrive, FeedBegin, FeedSync, FeedWord, FeedSize, FeedData
           DEF Next, Server

LEMMA FeedInit == Init => FeedInv
<1> SUFFICES ASSUME Init, body.kind = "feed" PROVE FeedInv
  BY DEF FeedInv
<1>1. TypeInv
  BY InitType
<1>2. /\ posted = <<>> /\ wire = <<>> /\ taken = <<>> /\ c.pc = "poll" /\ c.sff = NoSff
      /\ c.data_count = 0
  BY DEF Init
<1>3. Messages = <<>> /\ Len(<<>>) = 0
  BY <1>1, <1>2, FeedMessages, EmptySeq
<1>4. At(1, 0)
  <2>1. 1 \in 1 .. 0 + 1 /\ 1 - 1 = 0 /\ 0 \in Int
    OBVIOUS
  <2>2. Joined(Frames, 0) = <<>>
    BY JoinedEmpty
  <2> QED BY <1>2, <1>3, <2>1, <2>2 DEF At
<1>5. taken = Joined(Smalls, 1 - 1)
  <2>1. 1 - 1 = 0
    OBVIOUS
  <2> QED BY <1>2, <2>1, JoinedEmpty
<1>6. Seeking(1, 0)
  BY <1>2 DEF Seeking
<1>7. FeedReader(1, 0)
  BY <1>4, <1>5, <1>6 DEF FeedReader
<1> QED BY <1>2, <1>7 DEF FeedInv

-----------------------------------------------------------------------------
(* An upload *)

LEMMA UploadBody ==
  ASSUME TypeInv, body.kind # "feed"
  PROVE  /\ body.kind \in {"slot", "file"} /\ body.tr_encoding \in {0, 1}
         /\ body.content_length \in Nat /\ buffer_size \in Nat \ {0}
         /\ body.tr_encoding # 0 => InFrames
BY TypeIs, PostAssumption DEF Body, InFrames

\* The bytes of a chunk, and of what is around it.
ChunkSizes(k, l, h, d) ==
  /\ l = Len(Frames[k]) /\ h = HeaderLen(k) /\ d = DataLen(k)
  /\ l = h + d + 2 /\ h > 2

LEMMA ChunkLens ==
  ASSUME TypeInv, body.kind # "feed", NEW k \in 1 .. Len(Messages)
  PROVE  /\ \E l \in Nat, h \in Nat, d \in Nat : ChunkSizes(k, l, h, d)
         /\ \A i \in 1 .. Len(Frames[k]) : Frames[k][i].glued <=> i < HeaderLen(k)
<1>1. IsFrame(Frames[k], HeaderLen(k), DataLen(k), 2) /\ HeaderLen(k) > 2
  BY ChunkFrame
<1>2. PICK h \in Nat, d \in Nat : h = HeaderLen(k) /\ d = DataLen(k)
  BY <1>1 DEF IsFrame
<1>3. PICK l \in Nat : l = h + d + 2
  OBVIOUS
<1>4. Len(Frames[k]) = l /\ \A i \in 1 .. l : Frames[k][i].glued <=> i < h
  BY <1>1, <1>2, <1>3 DEF IsFrame
<1>5. ChunkSizes(k, l, h, d)
  BY <1>1, <1>2, <1>3, <1>4 DEF ChunkSizes
<1> QED BY <1>2, <1>4, <1>5

\* Nothing is left to read in front of a chunk only after the last one.
LEMMA ChunkPlace ==
  ASSUME TypeInv, OnWire, body.kind # "feed", NEW k, NEW j, At(k, j), Len(wire) = 0, j <= 0
  PROVE  k = Len(Messages) + 1
<1>1. PICK n \in Nat : n = Len(Messages) /\ k \in 1 .. n + 1 /\ j \in Int
  BY MessagesAre DEF At
<1> SUFFICES ASSUME k \in 1 .. n PROVE FALSE
  BY <1>1
<1>2. PICK l \in Nat, h \in Nat, d \in Nat : ChunkSizes(k, l, h, d)
  BY <1>1, ChunkLens
<1>3. l = Len(Frames[k]) /\ l > 0
  BY <1>2 DEF ChunkSizes
<1>4. l - j <= 0
  BY <1>1, <1>3, Facing
<1> QED BY <1>1, <1>3, <1>4

\* The bytes under way.
LEMMA PlainBytes ==
  ASSUME TypeInv
  PROVE  /\ [i \in 1 .. Len(wire) |-> wire[i].b] \in Seq(Nat)
         /\ Len([i \in 1 .. Len(wire) |-> wire[i].b]) = Len(wire) /\ Len(wire) \in Nat
<1>1. PICK n \in Nat : n = Len(wire)
  BY TypeIs, LenProperties
<1>2. ASSUME NEW i \in 1 .. n PROVE wire[i].b \in Nat
  <2>1. wire[i] \in WireByte
    BY <1>1, TypeIs, ElementOfSeq
  <2> QED BY <2>1 DEF WireByte
<1>3. [i \in 1 .. n |-> wire[i].b] \in [1 .. n -> Nat]
  BY <1>2
<1>4. [i \in 1 .. n |-> wire[i].b] \in Seq(Nat) /\ Len([i \in 1 .. n |-> wire[i].b]) = n
  BY <1>3, SeqIs
<1> QED BY <1>1, <1>4

\* x bytes of the data of a chunk are stored.
PartAt(k, j, x) == /\ j = HeaderLen(k) + x /\ x < DataLen(k) /\ x \in 0 .. DataLen(k)
                   /\ c.chunk_size = DataLen(k) - x
                   /\ stored = Joined(Parts, k - 1) \o SubSeq(Messages[k].data, 1, x)

LEMMA PartPlace ==
  ASSUME TypeInv, body.kind # "feed", NEW k, NEW j, At(k, j), InPart(k, j)
  PROVE  k \in 1 .. Len(Messages) /\ k \in Nat /\ \E x \in Nat : PartAt(k, j, x)
<1>1. PICK n \in Nat : n = Len(Messages) /\ k \in 1 .. n /\ j \in Int
  <2>1. Len(Messages) \in Nat /\ k \in 1 .. Len(Messages) + 1 /\ j \in Int /\ k <= Len(Messages)
    BY MessagesAre DEF At, InPart
  <2> QED BY <2>1
<1>2. PICK l \in Nat, h \in Nat, d \in Nat : h = HeaderLen(k) /\ d = DataLen(k)
  <2>1. \E l \in Nat, h \in Nat, d \in Nat : ChunkSizes(k, l, h, d)
    BY <1>1, ChunkLens
  <2> QED BY <2>1 DEF ChunkSizes
<1>3. /\ j >= h /\ c.chunk_size > 0 /\ c.chunk_size = d - (j - h)
      /\ stored = Joined(Parts, k - 1) \o SubSeq(Messages[k].data, 1, j - h)
  BY <1>2 DEF InPart
<1>4. PICK x \in Nat : x = j - h /\ j = h + x
  <2>1. j - h \in Nat /\ j = h + (j - h)
    BY <1>1, <1>3
  <2> QED BY <2>1
<1>5. x < d /\ x \in 0 .. d
  <2>1. d - x > 0
    BY <1>3, <1>4
  <2> QED BY <2>1
<1>6. /\ c.chunk_size = d - x
      /\ stored = Joined(Parts, k - 1) \o SubSeq(Messages[k].data, 1, x)
  BY <1>3, <1>4
<1>7. PartAt(k, j, x)
  BY <1>2, <1>4, <1>5, <1>6 DEF PartAt
<1> QED BY <1>1, <1>7

\* What is stored is the beginning of what was posted.
LEMMA StoredBegins ==
  ASSUME TypeInv, UploadInv, body.kind # "feed"
  PROVE  Begins(Nat, stored, Contents)
<1>1. CASE c.pc = "over"
  <2>1. stored = Contents /\ stored \in Seq(Nat)
    BY <1>1, TypeIs DEF UploadInv, Finished
  <2>2. Contents = stored \o <<>> /\ <<>> \in Seq(Nat)
    BY <2>1, ConcatEmptySeq, EmptySeq
  <2> QED BY <2>1, <2>2 DEF Begins
<1>2. CASE c.pc # "over" /\ body.tr_encoding = 0
  <2>1. Contents = stored \o [i \in 1 .. Len(wire) |-> wire[i].b]
    BY <1>2 DEF UploadInv, PlainReader
  <2>2. stored \in Seq(Nat) /\ Contents \in Seq(Nat)
    BY TypeIs, ContentsAre
  <2> QED BY <2>1, <2>2, PlainBytes DEF Begins
<1>3. CASE c.pc # "over" /\ body.tr_encoding # 0
  <2>1. PICK k \in Nat, j \in Int : At(k, j) /\ (InHead(k, j) \/ InPart(k, j))
    BY <1>3 DEF UploadInv, ChunkReader
  <2>2. CASE InHead(k, j)
    <3>1. stored = Joined(Parts, k - 1)
      BY <2>2 DEF InHead
    <3>2. k - 1 \in 0 .. Len(Messages)
      <4>1. k \in 1 .. Len(Messages) + 1 /\ Len(Messages) \in Nat
        BY <2>1, MessagesAre DEF At
      <4> QED BY <4>1
    <3> QED BY <3>1, <3>2, StoredParts
  <2>3. CASE InPart(k, j)
    <3>1. k \in 1 .. Len(Messages)
      BY <2>1, <2>3, PartPlace
    <3>2. PICK x \in 0 .. DataLen(k) :
            stored = Joined(Parts, k - 1) \o SubSeq(Messages[k].data, 1, x)
      <4>1. PICK x \in Nat : PartAt(k, j, x)
        BY <2>1, <2>3, PartPlace
      <4> QED BY <4>1 DEF PartAt
    <3> QED BY <3>1, <3>2, StoredPart
  <2> QED BY <2>1, <2>2, <2>3
<1> QED BY <1>1, <1>2, <1>3

\* All that was announced is stored.
LEMMA AllCounted ==
  ASSUME TypeInv, UploadInv, body.kind # "feed", body.content_length > 0,
         Len(stored) >= body.content_length
  PROVE  stored = Contents /\ Len(Contents) = body.content_length
<1>1. /\ Len(stored) \in Nat /\ Len(Contents) \in Nat /\ Len(stored) <= Len(Contents)
      /\ \A i \in 1 .. Len(stored) : Contents[i] = stored[i]
  BY StoredBegins, BeginsAt
<1>2. Len(Contents) <= body.content_length /\ body.content_length \in Nat
  BY UploadBody DEF UploadInv, Counted
<1>3. Len(stored) = Len(Contents) /\ Len(Contents) = body.content_length
  BY <1>1, <1>2
<1>4. stored \in Seq(Nat) /\ Contents \in Seq(Nat)
  BY TypeIs, ContentsAre
<1>5. \A i \in 1 .. Len(stored) : stored[i] = Contents[i]
  BY <1>1
<1> QED BY <1>3, <1>4, <1>5, SeqEqual

LEMMA ChunkKept ==
  ASSUME NEW k \in Nat, NEW j \in Int, At(k, j)', InHead(k, j)' \/ InPart(k, j)', Counted',
         c'.pc # "over", body'.tr_encoding # 0
  PROVE  UploadInv'
BY DEF UploadInv, ChunkReader

LEMMA PlainKept ==
  ASSUME PlainReader', Counted', c'.pc # "over", body'.tr_encoding = 0
  PROVE  UploadInv'
BY DEF UploadInv

LEMMA OverKept ==
  ASSUME Finished', Counted', c'.pc = "over"
  PROVE  UploadInv'
BY DEF UploadInv

\* A reader that has read nothing more stays where it is.
SamePlaces == /\ UNCHANGED <<body, c, stored>> /\ Len(Messages) <= Len(Messages')
              /\ arrived \in Nat /\ arrived' \in Nat /\ arrived <= arrived'
              /\ \A k \in 1 .. Len(Messages) :
                   /\ Messages'[k] = Messages[k]
                   /\ HeaderLen(k)' = HeaderLen(k) /\ DataLen(k)' = DataLen(k)
              /\ \A k \in 0 .. Len(Messages) : Joined(Parts', k) = Joined(Parts, k)

LEMMA HeadKept ==
  ASSUME NEW k \in Nat, NEW j \in Int, NEW a \in {-2, -1, 0}, HeadFrom(k, j, a), c'.head = c.head,
         j > 0 => FrameHeader(Messages[k])' = FrameHeader(Messages[k])
  PROVE  HeadFrom(k, j, a)'
<1>1. ASSUME NEW i \in 1 .. j - a PROVE HeaderByte(k, a + i)' = HeaderByte(k, a + i)
  <2>1. PICK x \in Int : x = a + i /\ x <= j /\ x >= -1
    OBVIOUS
  <2>2. HeaderByte(k, x)' = HeaderByte(k, x)
    BY <2>1 DEF HeaderByte
  <2> QED BY <2>1, <2>2
<1>2. [i \in 1 .. j - a |-> HeaderByte(k, a + i)]' = [i \in 1 .. j - a |-> HeaderByte(k, a + i)]
  BY <1>1
<1> QED BY <1>2 DEF HeadFrom

LEMMA ChunkSame ==
  ASSUME TypeInv, body.kind # "feed", SamePlaces,
         NEW k, NEW j, At(k, j), InHead(k, j) \/ InPart(k, j), Len(Messages') \in Nat
  PROVE  InHead(k, j)' \/ InPart(k, j)'
<1>1. PICK n \in Nat : n = Len(Messages) /\ k \in 1 .. n + 1 /\ k - 1 \in 0 .. n
                       /\ k \in Nat /\ j \in Int
  <2>1. Len(Messages) \in Nat /\ k \in 1 .. Len(Messages) + 1 /\ j \in Int
    BY MessagesAre DEF At
  <2> QED BY <2>1
<1>2. PICK n1 \in Nat : n1 = Len(Messages') /\ n <= n1
  BY <1>1 DEF SamePlaces
<1>3. Joined(Parts', k - 1) = Joined(Parts, k - 1) /\ UNCHANGED <<body, c, stored>>
  BY <1>1 DEF SamePlaces
<1>4. ASSUME k <= n
      PROVE  /\ Messages'[k] = Messages[k] /\ HeaderLen(k)' = HeaderLen(k)
             /\ DataLen(k)' = DataLen(k) /\ FrameHeader(Messages[k])' = FrameHeader(Messages[k])
  <2>1. k \in 1 .. n
    BY <1>1, <1>4
  <2>2. /\ Messages'[k] = Messages[k] /\ HeaderLen(k)' = HeaderLen(k)
        /\ DataLen(k)' = DataLen(k)
    BY <1>1, <2>1 DEF SamePlaces
  <2> QED BY <1>3, <2>2 DEF FrameHeader
<1>5. CASE InHead(k, j)
  <2>1. ASSUME j > 0 PROVE k <= n1 /\ j < HeaderLen(k)' /\ HeaderHere(k, j)' /\ c'.pc = "chunk"
    <3>1. k <= n /\ j < HeaderLen(k) /\ HeaderHere(k, j) /\ c.pc = "chunk"
      BY <1>1, <1>5, <2>1 DEF InHead
    <3>2. k \in 1 .. n /\ k <= n1
      BY <1>1, <1>2, <3>1
    <3>3. PICK h \in Nat : h = HeaderLen(k)
      <4>1. \E l \in Nat, h \in Nat, d \in Nat : ChunkSizes(k, l, h, d)
        BY <1>1, <3>2, ChunkLens
      <4> QED BY <4>1 DEF ChunkSizes
    <3>4. HeaderLen(k)' = h
      BY <1>4, <3>1, <3>3
    <3>5. HeaderHere(k, j)'
      BY <1>1, <3>1, <3>3, <3>4 DEF HeaderHere, SamePlaces
    <3> QED BY <1>3, <3>1, <3>2, <3>3, <3>4, <3>5
  <2>2. ASSUME c'.pc = "chunk" PROVE \E a \in {-2, -1, 0} : HeadFrom(k, j, a)'
    <3>1. PICK a \in {-2, -1, 0} : HeadFrom(k, j, a)
      BY <1>3, <1>5, <2>2 DEF InHead
    <3>2. j > 0 => FrameHeader(Messages[k])' = FrameHeader(Messages[k])
      BY <1>1, <1>4, <1>5 DEF InHead
    <3>3. HeadFrom(k, j, a)'
      BY <1>1, <1>3, <3>1, <3>2, HeadKept
    <3> QED BY <3>3
  <2>3. /\ c'.pc \in {"poll", "chunk"} /\ c'.chunk_size = 0 /\ j >= -2 /\ (j < 0 => k > 1)
        /\ stored' = Joined(Parts', k - 1)
    BY <1>3, <1>5 DEF InHead
  <2> QED BY <1>2, <2>1, <2>2, <2>3 DEF InHead
<1>6. CASE InPart(k, j)
  <2>1. k <= n
    BY <1>1, <1>6 DEF InPart
  <2>2. k <= n1
    BY <1>1, <1>2, <2>1
  <2> QED BY <1>2, <1>3, <1>4, <1>6, <2>1, <2>2 DEF InPart
<1> QED BY <1>5, <1>6

\* A client that announced a length keeps to it.
LEMMA PeerCounted ==
  ASSUME TypeInv, Unsplit, UploadInv, body.kind # "feed", Peer
  PROVE  /\ Counted' /\ UNCHANGED <<body, arrived, c, taken, stored>> /\ tx = "packets"
         /\ c.pc = "over" => Finished'
<1>1. UNCHANGED <<body, arrived, c, taken, stored>> /\ tx = "packets" /\ (WriteBody \/ Close)
  BY DEF Peer, sff_write_header, sff_write_packet, WriteBody, Close, Post, UploadInv, Counted
<1>2. CASE WriteBody
  <2>1. PICK p, f :
          /\ p \in Payloads
          /\ body.content_length > 0 => Len(Contents) + Len(p) <= body.content_length
          /\ Post(0, p, f) /\ tx' = tx
    BY <1>2 DEF WriteBody
  <2>2. Contents' = Contents \o p
    <3>1. 0 \in 0 .. 9 /\ posted' = Append(posted, [type |-> 0, data |-> p])
      BY <2>1 DEF Post
    <3> QED BY <2>1, <3>1, ContentsPost
  <2>3. Len(Contents') = Len(Contents) + Len(p) /\ Len(p) \in Nat \ {0} /\ Len(Contents) \in Nat
    BY <2>1, <2>2, ContentsAre, PayloadIs, ConcatProperties, LenProperties
  <2>4. body.content_length > 0 => Len(Contents') <= body.content_length
    BY <2>1, <2>3
  <2>5. c.pc # "over"
    <3>1. c.pc = "over" => body.content_length > 0 /\ Len(Contents) = body.content_length
      BY <1>1 DEF UploadInv, Finished
    <3> QED BY <2>1, <2>3, <3>1
  <2> QED BY <1>1, <2>1, <2>4, <2>5 DEF UploadInv, Counted
<1>3. CASE Close
  <2>1. posted' = posted /\ tx' \in {"closed", "cut"}
    BY <1>3 DEF Close
  <2>2. Contents' = Contents
    BY <2>1 DEF Contents
  <2> QED BY <1>1, <2>1, <2>2 DEF UploadInv, Counted, Finished
<1> QED BY <1>1, <1>2, <1>3

\* UploadInv, one lemma per step.
LEMMA UploadPeer ==
  ASSUME TypeInv, Unsplit, InFrames => OnWire, UploadInv, body.kind # "feed", Peer
  PROVE  UploadInv'
<1>1. Counted' /\ UNCHANGED <<body, arrived, c, taken, stored>> /\ tx = "packets"
  BY PeerCounted
<1>2. CASE c.pc = "over"
  BY <1>1, <1>2, PeerCounted, OverKept
<1>3. CASE c.pc # "over" /\ body.tr_encoding = 0
  <2>1. PlainReader
    BY <1>3 DEF UploadInv
  <2>2. CASE WriteBody
    <3>1. PICK p \in Payloads : Post(0, p, Framed(<<>>, p))
      BY <1>3, <2>2 DEF WriteBody
    <3>2. p \in Seq(Nat)
      BY PayloadIs
    <3>3. PICK f \in Seq(WireByte) : f = Framed(<<>>, p) /\ Len(f) = Len(p)
                                 /\ \A i \in 1 .. Len(p) : f[i].b = p[i]
      BY <3>2, PlainType
    <3>4. Contents' = Contents \o p /\ wire' = wire \o f
      <4>1. 0 \in 0 .. 9 /\ posted' = Append(posted, [type |-> 0, data |-> p])
        BY <3>1 DEF Post
      <4>2. Contents' = Contents \o p
        BY <4>1, ContentsPost
      <4> QED BY <3>1, <3>3, <4>2 DEF Post
    <3>5. PICK W : W = [i \in 1 .. Len(wire) |-> wire[i].b]
      OBVIOUS
    <3>6. W \in Seq(Nat) /\ Len(W) = Len(wire) /\ Len(wire) \in Nat /\ Len(p) \in Nat
      BY <3>2, <3>5, PlainBytes, LenProperties
    <3>7. PICK a \in Nat, b \in Nat : a = Len(wire) /\ b = Len(p)
      BY <3>6
    <3>8. Follows(WireByte, wire, f, wire', a, b) /\ Follows(Nat, W, p, W \o p, a, b)
      BY <3>2, <3>3, <3>4, <3>6, <3>7, ConcatAt, TypeIs
    <3>9. ASSUME NEW i \in 1 .. a + b PROVE wire'[i].b = (W \o p)[i]
      <4>3. i <= a \/ i > a
        OBVIOUS
      <4>1. CASE i <= a
        <5>1. i \in 1 .. a
          BY <3>7, <4>1
        <5> QED BY <3>5, <3>7, <3>8, <5>1 DEF Follows
      <4>2. CASE i > a
        <5>1. PICK x \in 1 .. b : i = a + x
          <6>1. i - a \in 1 .. b /\ i = a + (i - a)
            BY <3>7, <4>2
          <6> QED BY <6>1
        <5> QED BY <3>3, <3>7, <3>8, <5>1 DEF Follows
      <4> QED BY <4>1, <4>2, <4>3
    <3>10. Len(wire') = a + b /\ W \o p \in Seq(Nat) /\ Len(W \o p) = a + b
      BY <3>8 DEF Follows
    <3>11. W \o p = [i \in 1 .. a + b |-> wire'[i].b]
      <4>1. DOMAIN (W \o p) = 1 .. a + b /\ W \o p = [i \in DOMAIN (W \o p) |-> (W \o p)[i]]
        BY <3>10, LenProperties
      <4> QED BY <3>9, <4>1
    <3>12. Contents' = stored \o (W \o p)
      <4>1. Contents = stored \o W /\ stored \in Seq(Nat)
        BY <2>1, <3>5, TypeIs DEF PlainReader
      <4>2. (stored \o W) \o p = stored \o (W \o p)
        <5>1. stored \in Seq(Nat) /\ W \in Seq(Nat) /\ p \in Seq(Nat)
          BY <3>2, <3>6, <4>1
        <5> QED BY <5>1, ConcatAssociative
      <4> QED BY <3>4, <4>1, <4>2
    <3>13. PlainReader'
      BY <1>1, <2>1, <3>10, <3>11, <3>12 DEF PlainReader
    <3> QED BY <1>1, <1>3, <3>13, PlainKept
  <2>3. CASE ~WriteBody
    <3>1. posted' = posted /\ wire' = wire
      BY <1>1, <1>3, <2>3 DEF Peer, sff_write_header, sff_write_packet, Close
    <3>2. PlainReader'
      BY <1>1, <2>1, <3>1 DEF PlainReader, Contents
    <3> QED BY <1>1, <1>3, <3>2, PlainKept
  <2> QED BY <2>2, <2>3
<1>4. CASE c.pc # "over" /\ body.tr_encoding # 0
  <2>1. InFrames /\ OnWire
    BY <1>4, UploadBody
  <2>2. Grown
    BY <1>1, <2>1, PeerGrown
  <2>3. PICK k \in Nat, j \in Int : At(k, j) /\ (InHead(k, j) \/ InPart(k, j))
    BY <1>4 DEF UploadInv, ChunkReader
  <2>4. arrived \in Nat /\ Len(Messages') \in Nat
    <3>1. TypeInv'
      BY PeerType
    <3>2. Len(posted') \in Nat
      BY <3>1, LenProperties DEF TypeInv
    <3>3. Len(Append(posted', LastMessage)) = Len(posted') + 1
      <4>1. posted' \in Seq([type : 0 .. 9, data : Payloads])
        BY <3>1 DEF TypeInv
      <4>2. [type : 0 .. 9, data : Payloads] \subseteq Message
        BY DEF Message
      <4>3. posted' \in Seq(Message)
        BY <4>1, <4>2, SeqMonotonic
      <4>4. LastMessage \in Message
        BY DEF Message, LastMessage
      <4> QED BY <4>3, <4>4, AppendProperties
    <3>4. Messages' = posted' \/ Messages' = Append(posted', LastMessage)
      BY DEF Messages
    <3>5. arrived \in Nat
      BY RecvIs
    <3> QED BY <3>2, <3>3, <3>4, <3>5
  <2>5. SamePlaces
    BY <2>2, <2>4 DEF Grown, SamePlaces
  <2>6. InHead(k, j)' \/ InPart(k, j)'
    BY <2>3, <2>4, <2>5, ChunkSame
  <2>7. At(k, j)'
    BY <2>2, <2>3 DEF Grown
  <2> QED BY <1>1, <1>4, <2>6, <2>7, ChunkKept
<1> QED BY <1>2, <1>3, <1>4

\* Where nothing is posted and nothing is read.
LEMMA SameAll ==
  ASSUME UNCHANGED <<body, tx, posted>>
  PROVE  /\ Messages' = Messages /\ Frames' = Frames /\ Parts' = Parts /\ Contents' = Contents
         /\ \A k : HeaderLen(k)' = HeaderLen(k) /\ DataLen(k)' = DataLen(k)
<1>1. Messages' = Messages
  BY DEF Messages
<1>2. Frames' = Frames /\ Parts' = Parts /\ Contents' = Contents
  BY <1>1 DEF Frames, Parts, Contents, FrameHeader, FrameRest
<1>3. ASSUME NEW k PROVE HeaderLen(k)' = HeaderLen(k) /\ DataLen(k)' = DataLen(k)
  BY <1>1 DEF HeaderLen, DataLen, FrameHeader
<1> QED BY <1>1, <1>2, <1>3

LEMMA UploadArrive ==
  ASSUME TypeInv, UploadInv, body.kind # "feed",
         UNCHANGED <<body, tx, posted, wire, c, stored>>, arrived' \in Nat, arrived <= arrived'
  PROVE  UploadInv'
<1>1. /\ Messages' = Messages /\ Frames' = Frames /\ Parts' = Parts /\ Contents' = Contents
      /\ \A k : HeaderLen(k)' = HeaderLen(k) /\ DataLen(k)' = DataLen(k)
  BY SameAll
<1>2. Counted'
  BY <1>1 DEF UploadInv, Counted
<1>3. CASE c.pc = "over"
  <2>1. Finished'
    BY <1>1, <1>3 DEF UploadInv, Finished
  <2> QED BY <1>2, <1>3, <2>1, OverKept
<1>4. CASE c.pc # "over" /\ body.tr_encoding = 0
  <2>1. PlainReader'
    BY <1>1, <1>4 DEF UploadInv, PlainReader
  <2> QED BY <1>2, <1>4, <2>1, PlainKept
<1>5. CASE c.pc # "over" /\ body.tr_encoding # 0
  <2>1. PICK k \in Nat, j \in Int : At(k, j) /\ (InHead(k, j) \/ InPart(k, j))
    BY <1>5 DEF UploadInv, ChunkReader
  <2>2. At(k, j)'
    BY <1>1, <2>1 DEF At
  <2>3. arrived \in Nat /\ Len(Messages) \in Nat
    BY RecvIs, MessagesAre
  <2>4. SamePlaces /\ Len(Messages') \in Nat
    BY <1>1, <2>3 DEF SamePlaces
  <2>5. InHead(k, j)' \/ InPart(k, j)'
    BY <2>1, <2>4, ChunkSame
  <2> QED BY <1>2, <1>5, <2>2, <2>5, ChunkKept
<1> QED BY <1>3, <1>4, <1>5

LEMMA UploadBegin ==
  ASSUME TypeInv, UploadInv, body.kind # "feed", Begin
  PROVE  UploadInv'
<1>1. UNCHANGED <<body, tx, posted, wire, arrived, taken, stored>> /\ c.pc = "poll"
  BY DEF Begin
<1>2. /\ Messages' = Messages /\ Frames' = Frames /\ Parts' = Parts /\ Contents' = Contents
      /\ \A k : HeaderLen(k)' = HeaderLen(k) /\ DataLen(k)' = DataLen(k)
  BY <1>1, SameAll
<1>3. /\ c'.chunk_size = c.chunk_size /\ c'.data_count = c.data_count /\ c'.head = <<>>
      /\ c'.pc = IF body.tr_encoding = 1 /\ c.chunk_size = 0 THEN "chunk" ELSE "body"
  BY TypeIs DEF Begin, CType
<1>4. Counted' /\ c'.pc # "over"
  BY <1>1, <1>2, <1>3 DEF UploadInv, Counted
<1>5. CASE body.tr_encoding = 0
  <2>1. PlainReader'
    BY <1>1, <1>2, <1>3, <1>5 DEF UploadInv, PlainReader
  <2> QED BY <1>1, <1>4, <1>5, <2>1, PlainKept
<1>6. CASE body.tr_encoding # 0
  <2>1. PICK k \in Nat, j \in Int : At(k, j) /\ (InHead(k, j) \/ InPart(k, j))
    BY <1>1, <1>6 DEF UploadInv, ChunkReader
  <2>2. At(k, j)' /\ body.tr_encoding = 1
    BY <1>1, <1>2, <1>6, <2>1, UploadBody DEF At
  <2>3. CASE InHead(k, j)
    <3>1. /\ j >= -2 /\ ~(j > 0) /\ c.chunk_size = 0 /\ (j < 0 => k > 1)
          /\ stored = Joined(Parts, k - 1)
      BY <1>1, <2>3 DEF InHead
    <3>2. j \in {-2, -1, 0}
      BY <3>1
    <3>3. HeadFrom(k, j, j)'
      <4>1. [i \in 1 .. j - j |-> HeaderByte(k, j + i)'] = <<>>
        <5>1. j - j = 0 /\ 1 .. 0 = {}
          BY <3>2
        <5>2. 1 .. j - j = {}
          BY <5>1
        <5> QED BY <5>2
      <4> QED BY <1>3, <3>2, <4>1 DEF HeadFrom
    <3>4. InHead(k, j)'
      BY <1>1, <1>2, <1>3, <2>2, <3>1, <3>2, <3>3 DEF InHead
    <3> QED BY <1>1, <1>4, <1>6, <2>2, <3>4, ChunkKept
  <2>4. CASE InPart(k, j)
    <3>1. c.chunk_size # 0
      BY <2>4 DEF InPart
    <3>2. InPart(k, j)'
      BY <1>1, <1>2, <1>3, <2>4, <3>1 DEF InPart
    <3> QED BY <1>1, <1>4, <1>6, <2>2, <3>2, ChunkKept
  <2> QED BY <2>1, <2>3, <2>4
<1> QED BY <1>5, <1>6

\* Which step of the server an upload is at.
LEMMA UploadPc ==
  ASSUME UploadInv, body.kind # "feed"
  PROVE  /\ c.pc \in {"poll", "chunk", "body", "over"}
         /\ c.pc = "chunk" => body.tr_encoding # 0 /\ \E k \in Nat, j \in Int : At(k, j) /\ InHead(k, j)
BY DEF UploadInv, PlainReader, ChunkReader, InHead, InPart

\* What check makes of a recv of an upload.
LEMMA UploadCheck ==
  ASSUME TypeInv, body.kind # "feed", NEW m \in CType, NEW bytes \in Seq(Nat),
         Check(m, Length(bytes), "EAGAIN")
  PROVE  /\ c'.data_count = m.data_count /\ c'.head = m.head /\ c'.chunk_size = m.chunk_size
         /\ c'.pc \in {"poll", "over"}
         /\ c'.pc = "over" <=> \/ bytes = <<>> /\ PeerClosed
                               \/ body.content_length > 0 /\ m.data_count >= body.content_length
<1>1. /\ c' = [m EXCEPT !.pc = c'.pc]
      /\ c'.pc = IF Over(m, Length(bytes), "EAGAIN") THEN "over" ELSE "poll"
  BY CheckIs
<1>2. Length(bytes) = 0 <=> bytes = <<>> /\ PeerClosed
  <2>1. CASE bytes # <<>>
    <3>1. Length(bytes) = Len(bytes) /\ Len(bytes) # 0
      BY <2>1, EmptySeq DEF Length
    <3> QED BY <2>1, <3>1
  <2>2. CASE bytes = <<>>
    <3>1. Length(bytes) = IF PeerClosed THEN 0 ELSE -1
      BY <2>2 DEF Length
    <3> QED BY <2>2, <3>1
  <2> QED BY <2>1, <2>2
<1>3. body.content_length > 0 <=> 0 < body.content_length
  BY UploadBody
<1>4. Over(m, Length(bytes), "EAGAIN") <=>
        \/ bytes = <<>> /\ PeerClosed
        \/ body.content_length > 0 /\ m.data_count >= body.content_length
  BY <1>2, <1>3 DEF Over
<1> QED BY <1>1, <1>4 DEF CType

\* All the bytes that were announced are there.
LEMMA CountOver ==
  ASSUME TypeInv, UploadInv, body.kind # "feed", body.content_length > 0,
         c.data_count >= body.content_length
  PROVE  body.kind = "file" /\ Finished
<1>1. body.content_length \in Nat /\ body.content_length # 0
  BY UploadBody
<1>2. body.kind = "file" /\ c.data_count = Len(stored)
  BY <1>1 DEF UploadInv, Counted
<1> QED BY <1>1, <1>2, AllCounted DEF Finished

LEMMA PlainRead ==
  ASSUME TypeInv, Unsplit, UploadInv, body.kind # "feed", body.tr_encoding = 0, c.pc = "body",
         NEW bytes, bytes = Recv(buffer_size), Take(bytes), stored' = stored \o bytes
  PROVE  /\ stored' \in Seq(Nat) /\ Len(stored') = Len(stored) + Len(bytes)
         /\ Contents = stored' \o [i \in 1 .. Len(wire') |-> wire'[i].b]
         /\ wire = <<>> => stored' = Contents
<1>1. PICK n \in Nat : /\ n = Len(bytes) /\ n \in 0 .. arrived /\ bytes \in Seq(Nat)
                       /\ \A i \in 1 .. n : bytes[i] = wire[i].b
  <2>1. buffer_size \in Nat
    BY PostAssumption
  <2>2. /\ lesser(buffer_size, arrived) \in 0 .. arrived /\ arrived \in Nat
        /\ bytes \in Seq(Nat) /\ Len(bytes) = lesser(buffer_size, arrived)
        /\ \A i \in 1 .. lesser(buffer_size, arrived) : bytes[i] = wire[i].b
    BY <2>1, RecvIs
  <2>3. PICK n : n = lesser(buffer_size, arrived)
    OBVIOUS
  <2> QED BY <2>2, <2>3
<1>2. PICK W : W = [i \in 1 .. Len(wire) |-> wire[i].b]
  OBVIOUS
<1>3. PICK w \in Nat : w = Len(wire) /\ W \in Seq(Nat) /\ Len(W) = w
  BY <1>2, PlainBytes
<1>4. /\ n \in 0 .. w /\ Len(wire') = w - n
      /\ \A i \in 1 .. w - n : wire'[i] = wire[n + i]
  BY <1>1, <1>3, TakeIs
<1>5. PICK v \in Nat : v = w - n /\ w = n + v
  <2>1. w - n \in Nat /\ w = n + (w - n)
    BY <1>4
  <2> QED BY <2>1
<1>6. PICK X : X = [i \in 1 .. v |-> wire'[i].b]
  OBVIOUS
<1>7. ASSUME NEW i \in 1 .. v PROVE X[i] = W[n + i] /\ X[i] \in Nat
  <2>1. n + i \in 1 .. w
    BY <1>5
  <2>2. X[i] = W[n + i]
    BY <1>2, <1>3, <1>4, <1>5, <1>6, <2>1
  <2>3. W[n + i] \in Nat
    BY <1>3, <2>1, ElementOfSeq
  <2> QED BY <2>2, <2>3
<1>8. X \in Seq(Nat) /\ Len(X) = v
  <2>1. X \in [1 .. v -> Nat]
    BY <1>6, <1>7
  <2> QED BY <2>1, SeqIs
<1>9. Follows(Nat, bytes, X, bytes \o X, n, v)
  BY <1>1, <1>8, ConcatAt
<1>10. W = bytes \o X
  <2>1. bytes \o X \in Seq(Nat) /\ Len(bytes \o X) = w
    BY <1>5, <1>9 DEF Follows
  <2>2. ASSUME NEW i \in 1 .. w PROVE W[i] = (bytes \o X)[i]
    <3>3. i <= n \/ i > n
      OBVIOUS
    <3>1. CASE i <= n
      <4>1. i \in 1 .. n
        BY <3>1
      <4> QED BY <1>1, <1>2, <1>3, <1>9, <4>1 DEF Follows
    <3>2. CASE i > n
      <4>1. PICK y \in 1 .. v : i = n + y
        <5>1. i - n \in 1 .. v /\ i = n + (i - n)
          BY <1>5, <3>2
        <5> QED BY <5>1
      <4> QED BY <1>7, <1>9, <4>1 DEF Follows
    <3> QED BY <3>1, <3>2, <3>3
  <2> QED BY <1>3, <2>1, <2>2, SeqEqual
<1>11. Contents = stored \o W /\ stored \in Seq(Nat)
  BY <1>2, TypeIs DEF UploadInv, PlainReader
<1>12. stored' \in Seq(Nat) /\ Len(stored') = Len(stored) + n
  BY <1>1, <1>11, ConcatProperties
<1>13. Contents = stored' \o X
  <2>1. stored \in Seq(Nat) /\ bytes \in Seq(Nat) /\ X \in Seq(Nat)
    BY <1>1, <1>8, <1>11
  <2>2. (stored \o bytes) \o X = stored \o (bytes \o X)
    BY <2>1, ConcatAssociative, SMTT(30)
  <2> QED BY <1>10, <1>11, <2>2
<1>14. Contents = stored' \o [i \in 1 .. Len(wire') |-> wire'[i].b]
  BY <1>4, <1>5, <1>6, <1>13
<1>15. ASSUME wire = <<>> PROVE stored' = Contents
  <2>1. v = 0
    BY <1>3, <1>5, <1>15, EmptySeq
  <2>2. X = <<>>
    BY <1>8, <2>1, EmptySeq
  <2> QED BY <1>12, <1>13, <2>2, ConcatEmptySeq
<1> QED BY <1>1, <1>12, <1>14, <1>15

\* BodyData by the kind of the body.
BodyWants == IF body.tr_encoding = 1 THEN lesser(c.chunk_size, buffer_size) ELSE buffer_size
BodyRead(bytes, m) ==
  /\ c.pc = "body" /\ Take(bytes) /\ stored' = stored \o bytes
  /\ UNCHANGED <<body, tx, posted, taken>>
  /\ body.kind = "slot" => Check(m, Length(bytes), "EAGAIN")
  /\ body.kind = "file" /\ bytes = <<>> => Check(m, Length(bytes), "EAGAIN")
  /\ body.kind = "file" /\ bytes # <<>> =>
       c' = [m EXCEPT !.data_count = @ + Len(bytes), !.head = <<>>,
                      !.pc = IF body.tr_encoding = 1 /\ m.chunk_size = 0
                             THEN "chunk" ELSE "body"]

LEMMA BodyIs ==
  ASSUME BodyData, NEW bytes, NEW m, m = Chunked(c, Len(bytes)), bytes = Recv(BodyWants)
  PROVE  BodyRead(bytes, m)
<1>1. bytes = Recv(IF body.tr_encoding = 1 THEN lesser(c.chunk_size, buffer_size) ELSE buffer_size)
  BY DEF BodyWants
<1>2. c.pc = "body" /\ Take(bytes) /\ stored' = stored \o bytes /\ UNCHANGED <<body, tx, posted, taken>>
  BY <1>1 DEF BodyData
<1>3. (CASE body.kind = "slot" -> Check(m, Length(bytes), "EAGAIN")
        [] body.kind = "file" /\ bytes # <<>> ->
             c' = [m EXCEPT !.data_count = @ + Len(bytes), !.head = <<>>,
                            !.pc = IF body.tr_encoding = 1 /\ m.chunk_size = 0
                                   THEN "chunk" ELSE "body"]
        [] body.kind = "file" /\ bytes = <<>> -> Check(m, Length(bytes), "EAGAIN"))
  BY <1>1 DEF BodyData
<1> QED BY <1>2, <1>3 DEF BodyRead

\* A recv of a body without chunks.
LEMMA UploadPlain ==
  ASSUME TypeInv, Unsplit, UploadInv, body.kind # "feed", body.tr_encoding = 0, BodyData
  PROVE  UploadInv'
<1>1. PICK bytes : bytes = Recv(buffer_size)
  OBVIOUS
<1>2. PICK m : m = Chunked(c, Len(bytes))
  OBVIOUS
<1>3. /\ c.pc = "body" /\ Take(bytes) /\ stored' = stored \o bytes
      /\ UNCHANGED <<body, tx, posted, taken>>
      /\ body.kind = "slot" => Check(c, Length(bytes), "EAGAIN")
      /\ body.kind = "file" /\ bytes = <<>> => Check(c, Length(bytes), "EAGAIN")
      /\ body.kind = "file" /\ bytes # <<>> =>
           c' = [c EXCEPT !.data_count = @ + Len(bytes), !.head = <<>>, !.pc = "body"]
  <2>1. body.tr_encoding # 1 /\ m = c
    BY <1>2 DEF Chunked
  <2>2. bytes = Recv(BodyWants)
    BY <1>1, <2>1 DEF BodyWants
  <2>4. BodyRead(bytes, m)
    BY <1>2, <2>2, BodyIs
  <2>5. (IF body.tr_encoding = 1 /\ m.chunk_size = 0 THEN "chunk" ELSE "body") = "body"
    BY <2>1
  <2> QED BY <2>1, <2>4, <2>5 DEF BodyRead
<1>4. Contents' = Contents
  BY <1>3, SameAll
<1>5. /\ stored' \in Seq(Nat) /\ Len(stored') = Len(stored) + Len(bytes)
      /\ Contents = stored' \o [i \in 1 .. Len(wire') |-> wire'[i].b]
      /\ wire = <<>> => stored' = Contents
  BY <1>1, <1>3, PlainRead
<1>6. c \in CType /\ c.chunk_size = 0 /\ bytes \in Seq(Nat) /\ Len(bytes) \in Nat
  <2>1. buffer_size \in Int
    BY PostAssumption
  <2>2. bytes \in Seq(Nat)
    BY <1>1, <2>1, RecvType
  <2> QED BY <1>3, <2>2, TypeIs, LenProperties DEF UploadInv, PlainReader
<1>7. CASE body.kind = "file" /\ bytes # <<>>
  <2>1. c' = [c EXCEPT !.data_count = @ + Len(bytes), !.head = <<>>, !.pc = "body"]
    BY <1>3, <1>7
  <2>2. c'.data_count = c.data_count + Len(bytes) /\ c'.pc = "body" /\ c'.chunk_size = 0
    BY <1>6, <2>1 DEF CType
  <2>3. Counted'
    BY <1>3, <1>4, <1>5, <1>7, <2>2 DEF UploadInv, Counted
  <2>4. PlainReader'
    BY <1>4, <1>5, <2>2 DEF PlainReader
  <2> QED BY <1>3, <2>2, <2>3, <2>4, PlainKept
<1>8. CASE ~(body.kind = "file" /\ bytes # <<>>)
  <2>1. Check(c, Length(bytes), "EAGAIN") /\ (body.kind = "slot" \/ bytes = <<>>)
    BY <1>3, <1>8, UploadBody
  <2>2. /\ c'.data_count = c.data_count /\ c'.chunk_size = c.chunk_size
        /\ c'.pc \in {"poll", "over"}
        /\ c'.pc = "over" <=> \/ bytes = <<>> /\ PeerClosed
                              \/ body.content_length > 0 /\ c.data_count >= body.content_length
    BY <1>6, <2>1, UploadCheck
  <2>3. body.kind = "file" => Len(stored') = Len(stored) /\ stored' = stored
    <3>1. ASSUME bytes = <<>> PROVE Len(stored') = Len(stored) /\ stored' = stored
      BY <1>3, <3>1, TypeIs, ConcatEmptySeq
    <3> QED BY <2>1, <3>1
  <2>4. Counted'
    BY <1>3, <1>4, <2>2, <2>3 DEF UploadInv, Counted
  <2>5. CASE c'.pc = "poll"
    <3>1. PlainReader'
      BY <1>4, <1>5, <1>6, <2>2, <2>5 DEF PlainReader
    <3> QED BY <1>3, <2>4, <2>5, <3>1, PlainKept
  <2>6. CASE c'.pc = "over"
    <3>1. CASE PeerClosed
      <4>1. stored' = Contents' /\ tx' # "packets"
        BY <1>3, <1>4, <1>5, <3>1 DEF PeerClosed
      <4>2. Finished'
        BY <4>1 DEF Finished
      <4> QED BY <2>4, <2>6, <4>2, OverKept
    <3>2. CASE body.content_length > 0 /\ c.data_count >= body.content_length
      <4>1. body.kind = "file" /\ Finished
        BY <3>2, CountOver
      <4>2. Finished'
        BY <1>3, <1>4, <2>3, <4>1 DEF Finished
      <4> QED BY <2>4, <2>6, <4>2, OverKept
    <3> QED BY <2>2, <2>6, <3>1, <3>2
  <2> QED BY <2>2, <2>5, <2>6
<1> QED BY <1>7, <1>8

LEMMA BytesAssociative ==
  ASSUME NEW s \in Seq(Nat), NEW t \in Seq(Nat), NEW u \in Seq(Nat)
  PROVE  (s \o t) \o u = s \o (t \o u)
BY ConcatAssociative

\* n more bytes of a chunk that is stored up to byte x.
PartGot(k, j, x, bytes) ==
  /\ wire # <<>> /\ bytes \in Seq(Nat) /\ c.chunk_size = DataLen(k) - x
  /\ DataLen(k) \in Nat /\ HeaderLen(k) \in Nat /\ Len(Frames[k]) = HeaderLen(k) + DataLen(k) + 2
  /\ j = HeaderLen(k) + x
  /\ \E n \in Nat : /\ n = Len(bytes) /\ n \in 0 .. arrived /\ n <= DataLen(k) - x
                    /\ bytes = <<>> <=> n = 0
                    /\ stored \o bytes =
                         Joined(Parts, k - 1) \o SubSeq(Messages[k].data, 1, x + n)

\* A recv in the data of a chunk returns what comes next in it.
LEMMA PartRead ==
  ASSUME TypeInv, Unsplit, OnWire, UploadInv, body.kind # "feed", body.tr_encoding # 0,
         NEW k, NEW j, NEW x \in Nat, NEW bytes, At(k, j), k \in 1 .. Len(Messages), k \in Nat,
         PartAt(k, j, x), bytes = Recv(BodyWants)
  PROVE  PartGot(k, j, x, bytes)
<1>1. PICK l \in Nat, h \in Nat, d \in Nat : ChunkSizes(k, l, h, d)
  BY ChunkLens
<1>2. l = Len(Frames[k]) /\ h = HeaderLen(k) /\ d = DataLen(k) /\ l = h + d + 2
  BY <1>1 DEF ChunkSizes
<1>3. PICK p : p = Messages[k].data
  OBVIOUS
<1>4. p \in Seq(Nat) /\ Len(p) = d
  BY <1>2, <1>3, MessagesAre DEF DataLen
<1>5. /\ j = h + x /\ x < d /\ c.chunk_size = d - x
      /\ stored = Joined(Parts, k - 1) \o SubSeq(p, 1, x)
  BY <1>2, <1>3 DEF PartAt
<1>6. PICK r \in Nat : r = d - x /\ r > 0
  <2>1. d - x \in Nat /\ d - x > 0
    BY <1>5
  <2> QED BY <2>1
<1>7. PICK w \in Nat : w <= r /\ bytes = Recv(w)
  <2>1. body.tr_encoding = 1 /\ buffer_size \in Nat
    BY UploadBody
  <2>2. bytes = Recv(lesser(r, buffer_size))
    BY <1>5, <1>6, <2>1 DEF BodyWants
  <2>3. lesser(r, buffer_size) \in Nat /\ lesser(r, buffer_size) <= r
    BY <2>1 DEF lesser
  <2> QED BY <2>2, <2>3
<1>8. arrived \in Nat /\ arrived <= Len(wire) /\ Len(wire) \in Nat
  BY TypeIs, LenProperties
<1>9. PICK n \in Nat :
        /\ n = Len(bytes) /\ n <= arrived /\ n <= r /\ (bytes = <<>> <=> n = 0)
        /\ bytes \in Seq(Nat) /\ \A i \in 1 .. n : bytes[i] = wire[i].b
  <2>1. /\ lesser(w, arrived) \in 0 .. arrived /\ lesser(w, arrived) <= w
        /\ bytes \in Seq(Nat) /\ Len(bytes) = lesser(w, arrived)
        /\ \A i \in 1 .. lesser(w, arrived) : bytes[i] = wire[i].b
        /\ bytes = <<>> <=> lesser(w, arrived) = 0
    BY <1>7, RecvIs
  <2>2. PICK n : n = lesser(w, arrived)
    OBVIOUS
  <2>3. n \in Nat /\ n <= arrived /\ n <= r
    BY <1>7, <1>8, <2>1, <2>2
  <2> QED BY <2>1, <2>2, <2>3
<1>10. l = h + d + 2 /\ j = h + x /\ x < d /\ r = d - x /\ r > 0 /\ n <= r /\ j \in Int
  BY <1>2, <1>5, <1>6, <1>9, SMTT(30)
<1>11. Len(wire) > 0
  <2>1. l - j <= Len(wire)
    BY <1>2, <1>10, Facing
  <2> QED BY <1>8, <1>10, <2>1
<1>12. ASSUME NEW i \in 1 .. n PROVE bytes[i] = p[x + i]
  <2>1. i \in 1 .. Len(wire) /\ j + i \in 1 .. Len(Frames[k]) /\ x + i \in 1 .. d
        /\ j + i = h + (x + i)
    <3>1. i \in 1 .. Len(wire)
      BY <1>8, <1>9
    <3>2. j + i \in 1 .. l /\ x + i \in 1 .. d /\ j + i = h + (x + i)
      BY <1>10
    <3> QED BY <1>2, <3>1, <3>2
  <2>2. wire[i] = Frames[k][j + i]
    BY <1>10, <2>1, Facing
  <2>3. Frames[k][h + (x + i)].b = p[x + i]
    BY <1>2, <1>3, <2>1, ChunkFrame
  <2> QED BY <1>9, <2>1, <2>2, <2>3
<1>13. SubSeq(p, 1, x) \o bytes = SubSeq(p, 1, x + n) /\ SubSeq(p, 1, x) \in Seq(Nat)
  <2>1. x \in 0 .. d /\ n \in 0 .. d - x
    BY <1>10
  <2>2. Resumes(bytes, n, p, x)
    BY <1>9, <1>12 DEF Resumes
  <2> QED BY <1>4, <2>1, <2>2, DataNext, SMTT(60)
<1>14. PICK J \in Seq(Nat) : J = Joined(Parts, k - 1)
  <2>1. Seqs(Nat, Len(Messages), Parts) /\ k \in Nat \ {0}
    BY PartsAre
  <2>3. Len(Messages) \in Nat
    BY MessagesAre
  <2>4. Len(Messages) \in Nat /\ k <= Len(Messages)
    BY <2>3
  <2>5. 1 .. k \subseteq 1 .. Len(Messages)
    BY <2>1, <2>4
  <2>2. Seqs(Nat, k, Parts)
    BY <2>1, <2>5 DEF Seqs
  <2>6. Joined(Parts, k - 1) \in Seq(Nat)
    BY <2>1, <2>2, JoinedNext
  <2> QED BY <2>6
<1>15. stored \o bytes = J \o SubSeq(p, 1, x + n)
  <2>1. PICK q \in Seq(Nat) : q = SubSeq(p, 1, x)
    BY <1>13
  <2>2. (J \o q) \o bytes = J \o (q \o bytes)
    <3>1. J \in Seq(Nat) /\ q \in Seq(Nat) /\ bytes \in Seq(Nat)
      BY <1>9
    <3> QED BY <3>1, BytesAssociative
  <2> QED BY <1>5, <1>13, <1>14, <2>1, <2>2
<1>16. wire # <<>>
  BY <1>11, EmptySeq
<1>17. /\ n = Len(bytes) /\ n \in 0 .. arrived /\ n <= DataLen(k) - x
       /\ bytes = <<>> <=> n = 0
       /\ stored \o bytes = Joined(Parts, k - 1) \o SubSeq(Messages[k].data, 1, x + n)
  <2>1. n \in 0 .. arrived /\ n <= d - x
    BY <1>6, <1>8, <1>9
  <2> QED BY <1>2, <1>3, <1>9, <1>14, <1>15, <2>1
<1> QED BY <1>2, <1>5, <1>9, <1>16, <1>17 DEF PartGot

\* ... and where the server is then: in the same chunk, or at its end.
StoredTo(k, e) == stored = Joined(Parts, k - 1) \o SubSeq(Messages[k].data, 1, e)
PartPc == /\ c.pc \in {"poll", "chunk", "body"}
          /\ c.pc # "poll" => c.head = <<>> /\ (c.pc = "chunk" <=> c.chunk_size = 0)

\* The chunk goes on.
LEMMA PartKept ==
  ASSUME TypeInv, body'.tr_encoding # 0, Counted', PartPc',
         NEW k \in Nat, k \in 1 .. Len(Messages), NEW h \in Nat, NEW d \in Nat, NEW e \in 0 .. d,
         h = HeaderLen(k)', d = DataLen(k), Messages' = Messages, Parts' = Parts,
         At(k, h + e)', At(k + 1, e - (d + 2))', StoredTo(k, e)', c'.chunk_size = d - e
  PROVE  UploadInv'
<1>1. DataLen(k)' = d
  BY DEF DataLen
<1>2. k <= Len(Messages') /\ k + 1 \in Nat /\ k + 1 > 1 /\ k + 1 - 1 = k
  <2>1. Len(Messages) \in Nat
    BY MessagesAre
  <2>2. k <= Len(Messages)
    BY <2>1
  <2> QED BY <2>2
<1>3. CASE e = d
  <2>1. c'.chunk_size = 0 /\ e - (d + 2) = -2
    BY <1>3
  <2>2. stored' = Joined(Parts', k)
    <3>1. e \in 0 .. DataLen(k) /\ stored' = Joined(Parts, k - 1) \o SubSeq(Messages[k].data, 1, e)
      BY DEF StoredTo
    <3> QED BY <1>3, <3>1, StoredPart
  <2>3. c'.pc = "chunk" => c'.head = <<>>
    BY DEF PartPc
  <2>4. c'.pc \in {"poll", "chunk"}
    BY <2>1 DEF PartPc
  <2>5. PICK b \in Int : b = -2 /\ b - b = 0 /\ b >= -2 /\ ~(b > 0)
    OBVIOUS
  <2>6. ASSUME c'.pc = "chunk" PROVE HeadFrom(k + 1, b, b)'
    <3>1. 1 .. b - b = {}
      BY <2>5
    <3>2. [i \in 1 .. b - b |-> HeaderByte(k + 1, b + i)'] = <<>>
      BY <3>1
    <3> QED BY <2>3, <2>5, <2>6, <3>2 DEF HeadFrom
  <2>7. InHead(k + 1, b)'
    BY <1>2, <2>1, <2>2, <2>4, <2>5, <2>6 DEF InHead
  <2>8. At(k + 1, b)' /\ c'.pc # "over"
    BY <2>1, <2>4, <2>5
  <2> QED BY <1>2, <2>7, <2>8, ChunkKept
<1>4. CASE e # d
  <2>1. PICK y \in Int : y = h + e /\ y - h = e /\ y >= h
    <3>1. h + e \in Int /\ (h + e) - h = e /\ h + e >= h
      OBVIOUS
    <3> QED BY <3>1
  <2>2. c'.chunk_size > 0
    BY <1>4
  <2>3. c'.pc \in {"poll", "body"}
    BY <2>2 DEF PartPc
  <2>4. InPart(k, y)'
    BY <1>1, <1>2, <2>1, <2>2, <2>3 DEF InPart, StoredTo
  <2>5. At(k, y)' /\ c'.pc # "over"
    BY <2>1, <2>3
  <2> QED BY <2>4, <2>5, ChunkKept
<1> QED BY <1>3, <1>4

\* What BodyData makes of n bytes of a chunk.
LEMMA PartEnds ==
  ASSUME TypeInv, UploadInv, body.kind # "feed", body.tr_encoding # 0,
         NEW bytes \in Seq(Nat), NEW n \in Nat, n = Len(bytes), bytes = <<>> <=> n = 0, wire # <<>>,
         NEW m, m = Chunked(c, n), BodyRead(bytes, m)
  PROVE  /\ c'.chunk_size = c.chunk_size - n /\ Counted' /\ body' = body
         /\ c'.pc = "over" => Finished'
         /\ c'.pc # "over" => PartPc'
<1>1. c \in CType /\ stored \in Seq(Nat)
  BY TypeIs
<1>2. body.tr_encoding = 1 /\ body.kind \in {"slot", "file"}
  BY UploadBody
<1>3. m = [c EXCEPT !.chunk_size = @ - n]
  BY <1>2 DEF Chunked
<1>4. PICK z \in Int : z = c.chunk_size - n
  BY <1>1 DEF CType
<1>5. m \in CType /\ m.chunk_size = z /\ m.data_count = c.data_count
  BY <1>1, <1>3, <1>4 DEF CType
<1>6. UNCHANGED <<body, tx, posted>> /\ stored' = stored \o bytes
  BY DEF BodyRead
<1>7. Contents' = Contents
  BY <1>6, SameAll
<1>8. ~PeerClosed
  BY DEF PeerClosed
<1>9. c.data_count = IF body.kind = "file" THEN Len(stored) ELSE 0
  BY DEF UploadInv, Counted
<1>10. Len(stored) \in Nat /\ Len(stored') = Len(stored) + n
  BY <1>1, <1>6, ConcatProperties, LenProperties
<1>11. CASE body.kind = "file" /\ bytes # <<>>
  <2>1. c' = [m EXCEPT !.data_count = @ + n, !.head = <<>>,
                       !.pc = IF body.tr_encoding = 1 /\ m.chunk_size = 0 THEN "chunk" ELSE "body"]
    BY <1>11 DEF BodyRead
  <2>2. /\ c'.data_count = c.data_count + n /\ c'.head = <<>> /\ c'.chunk_size = z
        /\ c'.pc = IF z = 0 THEN "chunk" ELSE "body"
    BY <1>2, <1>5, <2>1 DEF CType
  <2>3. Counted'
    BY <1>6, <1>7, <1>9, <1>10, <1>11, <2>2 DEF UploadInv, Counted
  <2>4. PartPc'
    BY <2>2 DEF PartPc
  <2> QED BY <1>4, <1>6, <2>2, <2>3, <2>4
<1>12. CASE ~(body.kind = "file" /\ bytes # <<>>)
  <2>1. Check(m, Length(bytes), "EAGAIN") /\ (body.kind = "slot" \/ bytes = <<>>)
    BY <1>2, <1>12 DEF BodyRead
  <2>2. /\ c'.data_count = c.data_count /\ c'.chunk_size = z
        /\ c'.pc \in {"poll", "over"}
        /\ c'.pc = "over" <=> body.content_length > 0 /\ c.data_count >= body.content_length
    BY <1>5, <1>8, <2>1, UploadCheck
  <2>3. body.kind = "file" => Len(stored') = Len(stored) /\ stored' = stored
    BY <1>1, <1>6, <2>1, ConcatEmptySeq
  <2>4. Counted'
    BY <1>6, <1>7, <1>9, <2>2, <2>3 DEF UploadInv, Counted
  <2>5. ASSUME c'.pc = "over" PROVE Finished'
    <3>1. body.kind = "file" /\ Finished
      BY <2>2, <2>5, CountOver
    <3> QED BY <1>6, <1>7, <2>3, <3>1 DEF Finished
  <2>6. c'.pc # "over" => PartPc'
    BY <2>2 DEF PartPc
  <2> QED BY <1>4, <1>6, <2>2, <2>4, <2>5, <2>6
<1> QED BY <1>11, <1>12

\* A recv in the data of a chunk.
LEMMA UploadPart ==
  ASSUME TypeInv, Unsplit, OnWire, UploadInv, body.kind # "feed", body.tr_encoding # 0, BodyData
  PROVE  UploadInv'
<1>1. PICK bytes, m : bytes = Recv(BodyWants) /\ m = Chunked(c, Len(bytes))
  OBVIOUS
<1>2. BodyRead(bytes, m)
  BY <1>1, BodyIs
<1>3. c.pc = "body" /\ Take(bytes) /\ UNCHANGED <<body, tx, posted>> /\ stored' = stored \o bytes
  BY <1>2 DEF BodyRead
<1>4. PICK k \in Nat, j \in Int : At(k, j) /\ InPart(k, j)
  BY <1>3 DEF UploadInv, ChunkReader, InHead
<1>5. k \in 1 .. Len(Messages)
  BY <1>4, PartPlace
<1>6. PICK x \in Nat : PartAt(k, j, x)
  BY <1>4, PartPlace
<1>7. /\ wire # <<>> /\ bytes \in Seq(Nat) /\ c.chunk_size = DataLen(k) - x
      /\ DataLen(k) \in Nat /\ HeaderLen(k) \in Nat /\ Len(Frames[k]) = HeaderLen(k) + DataLen(k) + 2
      /\ j = HeaderLen(k) + x
      /\ \E n \in Nat : /\ n = Len(bytes) /\ n \in 0 .. arrived /\ n <= DataLen(k) - x
                        /\ bytes = <<>> <=> n = 0
                        /\ stored \o bytes =
                             Joined(Parts, k - 1) \o SubSeq(Messages[k].data, 1, x + n)
  <2>1. PartGot(k, j, x, bytes)
    BY <1>1, <1>4, <1>5, <1>6, PartRead
  <2> QED BY <2>1 DEF PartGot
<1>8. PICK h \in Nat, d \in Nat : h = HeaderLen(k) /\ d = DataLen(k)
  BY <1>7
<1>9. PICK n \in Nat : /\ n = Len(bytes) /\ n \in 0 .. arrived /\ n <= d - x
                       /\ bytes = <<>> <=> n = 0
                       /\ stored \o bytes = Joined(Parts, k - 1) \o SubSeq(Messages[k].data, 1, x + n)
  BY <1>7, <1>8
<1>10. Advanced(n)
  BY <1>3, <1>9, Advance
<1>11. /\ c'.chunk_size = c.chunk_size - n /\ Counted' /\ body' = body
       /\ c'.pc = "over" => Finished'
       /\ c'.pc # "over" => PartPc'
  BY <1>1, <1>2, <1>7, <1>9, PartEnds
<1>12. CASE c'.pc = "over"
  BY <1>11, <1>12, OverKept
<1>13. CASE c'.pc # "over"
  <2>1. PICK e \in Nat : e = x + n /\ e \in 0 .. d /\ j + n = h + e /\ j - (h + d + 2) + n = e - (d + 2)
                         /\ d - e = (d - x) - n
    <3>1. j = h + x /\ n <= d - x
      BY <1>7, <1>8, <1>9
    <3>2. x + n \in Nat /\ x + n \in 0 .. d /\ j + n = h + (x + n) /\ d - (x + n) = (d - x) - n
          /\ j - (h + d + 2) + n = (x + n) - (d + 2)
      BY <3>1
    <3> QED BY <3>2
  <2>2. At(k, h + e)'
    BY <1>4, <1>10, <2>1 DEF Advanced
  <2>3. At(k + 1, e - (d + 2))'
    <3>1. At(k + 1, j - (h + d + 2))
      BY <1>4, <1>5, <1>7, <1>8, AtNext
    <3>2. At(k + 1, j - (h + d + 2) + n)'
      BY <1>10, <3>1 DEF Advanced
    <3> QED BY <2>1, <3>2
  <2>4. Messages' = Messages /\ Parts' = Parts /\ HeaderLen(k)' = h
    BY <1>8, <1>10 DEF Advanced
  <2>5. StoredTo(k, e)'
    BY <1>3, <1>9, <2>1, <2>4 DEF StoredTo
  <2>6. c'.chunk_size = d - e
    BY <1>7, <1>8, <1>11, <2>1
  <2>7. body'.tr_encoding # 0 /\ PartPc' /\ Counted'
    BY <1>11, <1>13
  <2> QED BY <1>5, <1>8, <2>1, <2>2, <2>3, <2>4, <2>5, <2>6, <2>7, PartKept
<1> QED BY <1>12, <1>13

-----------------------------------------------------------------------------
(* The header of a chunk *)

LEMMA ChunkWhole ==
  ASSUME TypeInv, Unsplit, OnWire, body.kind # "feed", NEW k \in 1 .. Len(Messages), At(k, 0),
         arrived > 0
  PROVE  arrived >= HeaderLen(k)
<1>1. PICK l \in Nat, h \in Nat, d \in Nat : ChunkSizes(k, l, h, d)
  BY ChunkLens
<1>2. l = Len(Frames[k]) /\ h = HeaderLen(k) /\ l > h
  BY <1>1 DEF ChunkSizes
<1>3. \A i \in 1 .. l : Frames[k][i].glued <=> i < h
  BY <1>2, ChunkLens
<1>4. arrived \in Nat /\ arrived <= Len(wire) /\ Len(wire) \in Nat
  BY LenProperties, TypeIs
<1> SUFFICES ASSUME arrived < h PROVE FALSE
  BY <1>2, <1>4
<1>5. arrived \in 1 .. Len(wire) /\ arrived \in 1 .. l
  BY <1>2, <1>4
<1>6. wire[arrived] = Frames[k][arrived]
  <2>1. 0 + arrived = arrived
    BY <1>4
  <2> QED BY <1>2, <1>5, <2>1, Facing
<1>7. wire[arrived].glued
  BY <1>3, <1>5, <1>6
<1> QED BY <1>7 DEF Unsplit

\* The next byte of a reader in front of or in a chunk header.
LEMMA EndBytes ==
  ASSUME TypeInv, Unsplit, OnWire, body.kind # "feed", NEW k \in Nat, k > 1,
         k - 1 \in 1 .. Len(Messages), NEW j \in {-2, -1}, At(k, j), arrived > 0
  PROVE  Recv(1)[1] = HeaderByte(k, j + 1)
<1>1. PICK l \in Nat, h \in Nat, d \in Nat : ChunkSizes(k - 1, l, h, d)
  BY ChunkLens
<1>2. l = Len(Frames[k - 1]) /\ h = HeaderLen(k - 1) /\ d = DataLen(k - 1) /\ l = h + d + 2
  BY <1>1 DEF ChunkSizes
<1>3. PICK y \in Int : y = l + j /\ y - l = j /\ y + 1 \in 1 .. l /\ y + 1 = h + d + 3 + j
  <2>2. l = h + d + 2
    BY <1>2
  <2>1. l + j \in Int /\ (l + j) - l = j /\ (l + j) + 1 \in 1 .. l /\ (l + j) + 1 = h + d + 3 + j
    <3>1. CASE j = -2
      BY <2>2, <3>1
    <3>2. CASE j = -1
      BY <2>2, <3>2
    <3> QED BY <3>1, <3>2
  <2> QED BY <2>1
<1>4. At(k - 1, y)
  <2>1. At(k - 1, y) <=> At(k - 1 + 1, y - Len(Frames[k - 1]))
    BY AtNext
  <2>2. k - 1 + 1 = k /\ y - Len(Frames[k - 1]) = j
    BY <1>2, <1>3
  <2> QED BY <2>1, <2>2
<1>5. Recv(1)[1] = Frames[k - 1][y + 1].b
  BY <1>2, <1>3, <1>4, ReadByte
<1>6. Frames[k - 1][h + d + 1].b = CR /\ Frames[k - 1][h + d + 2].b = LF
  BY <1>2, ChunkFrame
<1>7. CASE j = -2
  <2>1. y + 1 = h + d + 1 /\ j + 1 = -1
    BY <1>3, <1>7
  <2> QED BY <1>5, <1>6, <2>1 DEF HeaderByte
<1>8. CASE j = -1
  <2>1. y + 1 = h + d + 2 /\ j + 1 = 0 /\ 0 # -1
    BY <1>3, <1>8
  <2> QED BY <1>5, <1>6, <2>1 DEF HeaderByte
<1> QED BY <1>7, <1>8

\* Where something is left to read, a reader in front of a chunk has one before it.
LEMMA HeadPlace ==
  ASSUME TypeInv, OnWire, body.kind # "feed", NEW k \in Nat, NEW j \in Int, At(k, j), InHead(k, j),
         arrived > 0
  PROVE  /\ j < 0 => j \in {-2, -1} /\ k > 1 /\ k - 1 \in 1 .. Len(Messages)
         /\ j >= 0 => k \in 1 .. Len(Messages) /\ j \in Nat /\ j < HeaderLen(k)
<1>1. PICK n \in Nat, w \in Nat : n = Len(Messages) /\ w = Len(wire) /\ w > 0
  <2>1. arrived <= Len(wire) /\ arrived \in Nat /\ Len(wire) \in Nat
    BY LenProperties, TypeIs
  <2>2. Len(wire) > 0
    BY <2>1
  <2>3. Len(Messages) \in Nat
    BY MessagesAre
  <2> QED BY <2>1, <2>2, <2>3
<1>2. k \in 1 .. n + 1 /\ j >= -2
  BY <1>1 DEF At, InHead
<1>3. ASSUME j < 0 PROVE j \in {-2, -1} /\ k > 1 /\ k - 1 \in 1 .. n
  <2>1. k > 1
    BY <1>3 DEF InHead
  <2> QED BY <1>2, <1>3, <2>1
<1>4. ASSUME j >= 0 PROVE k \in 1 .. n /\ j \in Nat /\ j < HeaderLen(k)
  <2>1. k # n + 1
    <3> SUFFICES ASSUME k = n + 1 PROVE FALSE
      OBVIOUS
    <3>1. PICK a \in Nat : a = Len(Joined(Frames, n))
      BY <1>1, FramesAre, JoinedType, LenProperties
    <3>2. n + 1 - 1 = n
      OBVIOUS
    <3>3. a + j + w = a
      BY <1>1, <3>1, <3>2 DEF At
    <3> QED BY <1>1, <1>4, <3>3
  <2>2. k \in 1 .. n
    BY <1>2, <2>1
  <2>3. PICK l \in Nat, h \in Nat, d \in Nat : ChunkSizes(k, l, h, d)
    BY <1>1, <2>2, ChunkLens
  <2>4. h = HeaderLen(k) /\ h > 2
    BY <2>3 DEF ChunkSizes
  <2>5. j > 0 => j < h
    BY <2>4 DEF InHead
  <2> QED BY <1>4, <2>2, <2>4, <2>5
<1> QED BY <1>1, <1>3, <1>4

\* A recv in a chunk header returns the next byte of it, or of the CRLF before it.
LEMMA HeadByte ==
  ASSUME TypeInv, Unsplit, OnWire, body.kind # "feed", NEW k \in Nat, NEW j \in Int, At(k, j),
         InHead(k, j), arrived > 0
  PROVE  /\ Recv(1) # <<>> /\ Len(Recv(1)) = 1 /\ Recv(1)[1] = HeaderByte(k, j + 1)
         /\ j >= 0 => arrived - 1 >= HeaderLen(k) - (j + 1)
<1>1. Recv(1) # <<>> /\ Len(Recv(1)) = 1 /\ arrived \in Nat
  <2>1. arrived # 0 /\ arrived \in Nat
    BY RecvIs
  <2> QED BY <2>1, RecvOne
<1>2. CASE j < 0
  <2>1. j \in {-2, -1} /\ k > 1 /\ k - 1 \in 1 .. Len(Messages)
    BY <1>2, HeadPlace
  <2>2. Recv(1)[1] = HeaderByte(k, j + 1)
    BY <2>1, EndBytes
  <2> QED BY <1>1, <1>2, <2>2
<1>3. CASE j >= 0
  <2>1. k \in 1 .. Len(Messages) /\ j \in Nat /\ j < HeaderLen(k)
    BY <1>3, HeadPlace
  <2>2. PICK l \in Nat, h \in Nat, d \in Nat : ChunkSizes(k, l, h, d)
    BY <2>1, ChunkLens
  <2>3. h = HeaderLen(k) /\ l = Len(Frames[k]) /\ l > h
    BY <2>2 DEF ChunkSizes
  <2>4. PICK y \in Nat : y = j + 1 /\ y \in 1 .. h /\ y \in 1 .. l /\ y # -1 /\ y # 0
    <3>1. j < h /\ l > h
      BY <2>1, <2>3
    <3>2. j + 1 \in Nat /\ j + 1 \in 1 .. h /\ j + 1 \in 1 .. l /\ j + 1 # -1 /\ j + 1 # 0
      BY <2>1, <3>1
    <3> QED BY <3>2
  <2>5. Recv(1)[1] = Frames[k][y].b
    <3>1. j + 1 \in 1 .. Len(Frames[k])
      BY <2>3, <2>4
    <3>2. Recv(1)[1] = Frames[k][j + 1].b
      BY <2>1, <3>1, ReadByte
    <3> QED BY <2>4, <3>2
  <2>6. Frames[k][y].b = FrameHeader(Messages[k])[y]
    BY <2>1, <2>3, <2>4, ChunkFrame
  <2>7. Recv(1)[1] = HeaderByte(k, j + 1)
    BY <2>4, <2>5, <2>6 DEF HeaderByte
  <2>8. arrived >= h - j
    <3>1. CASE j = 0
      <4>1. arrived >= h
        BY <2>1, <2>3, <3>1, ChunkWhole
      <4> QED BY <3>1, <4>1
    <3>2. CASE j # 0
      <4>1. j > 0
        BY <2>1, <3>2
      <4>2. HeaderHere(k, j)
        BY <4>1 DEF InHead
      <4>3. j \in 1 .. h - 1
        BY <2>1, <2>3, <4>1
      <4> QED BY <2>3, <4>2, <4>3 DEF HeaderHere
    <3> QED BY <3>1, <3>2
  <2>9. arrived - 1 >= h - (j + 1)
    BY <1>1, <2>1, <2>8
  <2> QED BY <1>1, <2>3, <2>7, <2>9
<1> QED BY <1>2, <1>3

\* The header read up to byte y of chunk k, from byte a + 1 on.
HeadOf(k, y, a, head) == /\ head \in Seq(Nat) /\ Len(head) = y - a /\ y - a \in Nat
                         /\ \A i \in 1 .. y - a : head[i] = HeaderByte(k, a + i)

\* The header read so far is one byte longer.
LEMMA HeadGrows ==
  ASSUME NEW k \in Nat, NEW j \in Int, NEW a \in {-2, -1, 0}, HeadFrom(k, j, a), c.head \in Seq(Nat),
         NEW byte \in Seq(Nat), Len(byte) = 1, byte[1] = HeaderByte(k, j + 1)
  PROVE  HeadOf(k, j + 1, a, c.head \o byte)
<1>1. PICK n \in Nat : n = j - a /\ j = n + a /\ j + 1 - a = n + 1 /\ a + (n + 1) = j + 1
  <2>1. a <= j
    BY DEF HeadFrom
  <2>2. j - a \in Nat /\ j = (j - a) + a /\ j + 1 - a = (j - a) + 1 /\ a + ((j - a) + 1) = j + 1
    BY <2>1
  <2> QED BY <2>2
<1>2. c.head = [i \in 1 .. n |-> HeaderByte(k, a + i)]
  BY <1>1 DEF HeadFrom
<1>3. Len(c.head) = n
  <2>1. DOMAIN c.head = 1 .. n
    BY <1>2
  <2> QED BY <2>1, LenProperties, <1>1
<1>4. PICK h \in Seq(Nat) : h = c.head \o byte /\ Len(h) = n + 1
                            /\ (\A i \in 1 .. n : h[i] = c.head[i]) /\ h[n + 1] = byte[1]
  <2>1. Follows(Nat, c.head, byte, c.head \o byte, n, 1)
    BY <1>3, ConcatAt
  <2>2. 1 \in 1 .. 1
    OBVIOUS
  <2> QED BY <2>1, <2>2 DEF Follows
<1>5. ASSUME NEW i \in 1 .. n + 1 PROVE h[i] = HeaderByte(k, a + i)
  <2>1. CASE i = n + 1
    BY <1>1, <1>4, <2>1
  <2>2. CASE i # n + 1
    <3>1. i \in 1 .. n
      BY <2>2
    <3> QED BY <1>2, <1>4, <3>1
  <2> QED BY <2>1, <2>2
<1>6. h \in Seq(Nat) /\ Len(h) = j + 1 - a /\ j + 1 - a \in Nat
  BY <1>1, <1>4
<1>7. ASSUME NEW i \in 1 .. j + 1 - a PROVE h[i] = HeaderByte(k, a + i)
  BY <1>1, <1>5
<1>8. HeadOf(k, j + 1, a, h)
  BY <1>6, <1>7 DEF HeadOf
<1> QED BY <1>4, <1>8

\* HeaderEnds looks at the last two bytes, and for three at least.
LEMMA EndsTwo ==
  ASSUME NEW s \in Seq(Nat), NEW n \in Nat, n = Len(s)
  PROVE  HeaderEnds(s) <=> n >= 3 /\ s[n - 1] = CR /\ s[n] = LF
<1>1. CASE n >= 3
  <2>1. PICK u : u = SubSeq(s, n - 1, n)
    OBVIOUS
  <2>2. n - 1 \in 1 .. n /\ n - 1 \in Nat /\ n - (n - 1) + 1 = 2 /\ n - 1 <= n
    BY <1>1
  <2>3. \A i \in n - 1 .. n : s[i] \in Nat
    <3>1. \A i \in n - 1 .. n : i \in 1 .. n
      BY <1>1
    <3> QED BY <3>1, ElementOfSeq
  <2>4. /\ u \in Seq(Nat) /\ Len(u) = 2
        /\ \A i \in 1 .. 2 : u[i] = s[n - 1 + i - 1]
    BY <2>1, <2>2, <2>3, SubSeqProperties
  <2>5. u[1] = s[n - 1] /\ u[2] = s[n]
    <3>1. n - 1 + 1 - 1 = n - 1 /\ n - 1 + 2 - 1 = n /\ 1 \in 1 .. 2 /\ 2 \in 1 .. 2
      OBVIOUS
    <3>2. u[1] = s[n - 1 + 1 - 1] /\ u[2] = s[n - 1 + 2 - 1]
      BY <2>4, <3>1
    <3> QED BY <3>1, <3>2
  <2>6. u = <<CR, LF>> <=> u[1] = CR /\ u[2] = LF
    <3>1. <<CR, LF>> \in Seq(Nat) /\ Len(<<CR, LF>>) = 2 /\ <<CR, LF>>[1] = CR /\ <<CR, LF>>[2] = LF
      BY DEF CR, LF
    <3>2. ASSUME u[1] = CR, u[2] = LF PROVE u = <<CR, LF>>
      <4>1. \A i \in 1 .. 2 : u[i] = <<CR, LF>>[i]
        <5>1. \A i \in 1 .. 2 : i = 1 \/ i = 2
          OBVIOUS
        <5> QED BY <3>1, <3>2, <5>1
      <4> QED BY <2>4, <3>1, <4>1, SeqEqual
    <3> QED BY <3>1, <3>2
  <2> QED BY <1>1, <2>1, <2>5, <2>6 DEF HeaderEnds
<1>2. CASE ~(n >= 3)
  BY <1>2 DEF HeaderEnds
<1> QED BY <1>1, <1>2

\* The bytes of a chunk header: no CR or LF but the last two.
LEMMA HeaderBytes ==
  ASSUME TypeInv, body.kind # "feed", NEW k \in 1 .. Len(Messages), NEW h \in Nat, h = HeaderLen(k),
         NEW y \in Int, y <= h
  PROVE  /\ h > 2
         /\ y >= 1 /\ y <= h - 2 => HeaderByte(k, y) \notin {CR, LF}
         /\ y >= 1 /\ y <= h - 2 => HeaderByte(k, y) = FrameHeader(Messages[k])[y]
         /\ y = h - 1 => HeaderByte(k, y) = CR
         /\ y = h => HeaderByte(k, y) = LF
<1>1. /\ h > 2 /\ Frames[k][h - 1].b = CR /\ Frames[k][h].b = LF
      /\ \A i \in 1 .. h : Frames[k][i].b = FrameHeader(Messages[k])[i]
      /\ \A i \in 1 .. h : i <= h - 2 => Frames[k][i].b \notin {CR, LF}
  BY ChunkFrame
<1>2. ASSUME y >= 1 PROVE y \in 1 .. h /\ HeaderByte(k, y) = Frames[k][y].b
                          /\ HeaderByte(k, y) = FrameHeader(Messages[k])[y]
  <2>1. y \in 1 .. h /\ y # -1 /\ y # 0
    BY <1>2
  <2> QED BY <1>1, <2>1 DEF HeaderByte
<1>3. h - 1 >= 1 /\ h >= 1
  BY <1>1
<1> QED BY <1>1, <1>2, <1>3

\* The header ends with its second CRLF, the one after its digits.
LEMMA EndsIs ==
  ASSUME TypeInv, body.kind # "feed", NEW k \in Nat, NEW y \in Int, NEW a \in {-2, -1, 0},
         NEW head, HeadOf(k, y, a, head),
         y > 0 => k \in 1 .. Len(Messages) /\ y <= HeaderLen(k)
  PROVE  HeaderEnds(head) <=> y > 0 /\ y = HeaderLen(k)
<1>1. PICK n \in Nat : n = y - a /\ head \in Seq(Nat) /\ Len(head) = n
                       /\ \A i \in 1 .. n : head[i] = HeaderByte(k, a + i)
  BY DEF HeadOf
<1>2. HeaderEnds(head) <=> n >= 3 /\ head[n - 1] = CR /\ head[n] = LF
  BY <1>1, EndsTwo
<1>3. y <= 0 => n < 3
  BY <1>1
<1>4. ASSUME y > 0 PROVE HeaderEnds(head) <=> y = HeaderLen(k)
  <2>1. PICK h \in Nat : h = HeaderLen(k)
    <3>1. \E l \in Nat, h \in Nat, d \in Nat : ChunkSizes(k, l, h, d)
      BY <1>4, ChunkLens
    <3> QED BY <3>1 DEF ChunkSizes
  <2>2. k \in 1 .. Len(Messages) /\ y <= h
    BY <1>4, <2>1
  <2>3. /\ h > 2
        /\ y >= 1 /\ y <= h - 2 => HeaderByte(k, y) \notin {CR, LF}
        /\ y = h - 1 => HeaderByte(k, y) = CR
        /\ y = h => HeaderByte(k, y) = LF
    BY <2>1, <2>2, HeaderBytes
  <2>4. n >= 1 /\ n \in 1 .. n /\ a + n = y
    BY <1>1, <1>4
  <2>5. head[n] = HeaderByte(k, y)
    BY <1>1, <2>4
  <2>6. CASE y = h
    <3>1. n >= 3 /\ n - 1 \in 1 .. n /\ a + (n - 1) = h - 1 /\ h - 1 \in Int /\ h - 1 <= h
      BY <1>1, <2>3, <2>6
    <3>2. head[n - 1] = HeaderByte(k, h - 1)
      BY <1>1, <3>1
    <3>3. HeaderByte(k, h - 1) = CR
      BY <2>1, <2>2, <3>1, HeaderBytes
    <3> QED BY <1>2, <2>1, <2>3, <2>5, <2>6, <3>1, <3>2, <3>3
  <2>7. CASE y # h
    <3>1. y <= h - 2 \/ y = h - 1
      BY <2>2, <2>7
    <3>2. HeaderByte(k, y) # LF
      <4>1. CR # LF
        BY DEF CR, LF
      <4>2. y >= 1
        BY <1>4
      <4> QED BY <2>3, <3>1, <4>1, <4>2
    <3> QED BY <1>2, <2>1, <2>5, <2>7, <3>2
  <2> QED BY <2>6, <2>7
<1>5. y <= 0 \/ y > 0
  OBVIOUS
<1> QED BY <1>2, <1>3, <1>4, <1>5

\* What strtol reads in a whole header: the length of the data.
LEMMA StrtolIs ==
  ASSUME TypeInv, body.kind # "feed", NEW k \in 1 .. Len(Messages), NEW h \in Nat, h = HeaderLen(k),
         NEW a \in {-2, -1, 0}, NEW head, HeadOf(k, h, a, head)
  PROVE  strtol(head) = DataLen(k)
<1>1. h > 2 /\ Value([i \in 1 .. h - 2 |-> FrameHeader(Messages[k])[i] - ch0]) = DataLen(k)
  BY ChunkFrame
<1>2. PICK b \in Nat : b = 0 - a /\ b \in {0, 1, 2}
  <2>1. 0 - a \in Nat /\ 0 - a \in {0, 1, 2}
    OBVIOUS
  <2> QED BY <2>1
<1>3. PICK n \in Nat : n = b + h /\ n = h - a /\ \A i \in Int : a + (b + i) = i
  <2>1. b + h \in Nat /\ b + h = h - a /\ \A i \in Int : a + (b + i) = i
    BY <1>2
  <2> QED BY <2>1
<1>4. head \in Seq(Nat) /\ Len(head) = n /\ DOMAIN head = 1 .. n
      /\ \A i \in 1 .. n : head[i] = HeaderByte(k, a + i)
  BY <1>3, LenProperties DEF HeadOf
<1>5. ASSUME NEW i \in 1 .. b PROVE i \in 1 .. n /\ head[i] \in {CR, LF}
  <2>1. i \in 1 .. n
    BY <1>3
  <2>2. a + i = -1 \/ a + i = 0
    BY <1>2
  <2> QED BY <1>4, <2>1, <2>2 DEF HeaderByte
<1>6. ASSUME NEW y \in 1 .. h PROVE b + y \in 1 .. n /\ head[b + y] = HeaderByte(k, y)
  <2>1. b + y \in 1 .. n /\ a + (b + y) = y
    BY <1>3
  <2> QED BY <1>4, <2>1
<1>7. ASSUME NEW y \in 1 .. h - 2
      PROVE  y \in 1 .. h /\ head[b + y] \notin {CR, LF} /\ head[b + y] = FrameHeader(Messages[k])[y]
  <2>1. y \in 1 .. h /\ y >= 1 /\ y <= h - 2 /\ y <= h /\ y \in Int
    OBVIOUS
  <2>2. HeaderByte(k, y) \notin {CR, LF} /\ HeaderByte(k, y) = FrameHeader(Messages[k])[y]
    BY <2>1, HeaderBytes
  <2> QED BY <1>6, <2>1, <2>2
<1>8. head[b + (h - 1)] = CR /\ head[b + h] = LF
  <2>1. h - 1 \in 1 .. h /\ h \in 1 .. h /\ h - 1 <= h /\ h <= h /\ h - 1 \in Int /\ h \in Int
    BY <1>1
  <2>2. HeaderByte(k, h - 1) = CR /\ HeaderByte(k, h) = LF
    BY <2>1, HeaderBytes
  <2> QED BY <1>6, <2>1, <2>2
<1>9. PICK digits : digits = {i \in DOMAIN head : head[i] \notin {CR, LF}}
  OBVIOUS
<1>10. digits = b + 1 .. b + (h - 2)
  <2>1. ASSUME NEW i \in digits PROVE i \in b + 1 .. b + (h - 2)
    <3>1. i \in 1 .. n /\ head[i] \notin {CR, LF}
      BY <1>4, <1>9
    <3>2. ~(i \in 1 .. b)
      BY <1>5, <3>1
    <3>3. i # b + (h - 1) /\ i # b + h
      BY <1>8, <3>1
    <3>4. i \in Int /\ i > b /\ i <= b + h
      <4>1. n = b + h
        BY <1>3
      <4> QED BY <3>1, <3>2, <4>1
    <3>5. i # b + h - 1
      BY <3>3
    <3> QED BY <3>3, <3>4, <3>5, SMTT(30)
  <2>2. ASSUME NEW i \in b + 1 .. b + (h - 2) PROVE i \in digits
    <3>1. PICK y \in 1 .. h - 2 : i = b + y
      <4>1. i - b \in 1 .. h - 2 /\ i = b + (i - b)
        OBVIOUS
      <4> QED BY <4>1
    <3>2. head[i] \notin {CR, LF} /\ y \in 1 .. h
      BY <1>7, <3>1
    <3>3. i \in 1 .. n
      BY <1>6, <3>1, <3>2
    <3> QED BY <1>4, <1>9, <3>2, <3>3
  <2> QED BY <2>1, <2>2
<1>11. Cardinality(digits) = h - 2
  <2>1. PICK u \in Int, v \in Int : u = b + 1 /\ v = b + (h - 2) /\ ~(u > v) /\ v - u + 1 = h - 2
    <3>1. b + 1 \in Int /\ b + (h - 2) \in Int /\ ~(b + 1 > b + (h - 2))
          /\ b + (h - 2) - (b + 1) + 1 = h - 2
      BY <1>1
    <3> QED BY <3>1
  <2>2. Cardinality(u .. v) = v - u + 1
    BY <2>1, FS_Interval
  <2> QED BY <1>10, <2>1, <2>2
<1>12. digits # {} /\ Min(digits) = b + 1
  <2>1. b + 1 \in digits
    BY <1>1, <1>10
  <2>2. \A y \in digits : b + 1 <= y /\ y \in Int
    BY <1>10
  <2>3. \A x \in digits : (\A y \in digits : x <= y) => x = b + 1
    <3>1. ASSUME NEW x \in digits, \A y \in digits : x <= y PROVE x = b + 1
      <4>1. x <= b + 1 /\ b + 1 <= x /\ x \in Int
        BY <2>1, <2>2, <3>1
      <4> QED BY <4>1
    <3> QED BY <3>1
  <2>4. Min(digits) \in digits /\ \A y \in digits : Min(digits) <= y
    <3>1. \E x \in digits : \A y \in digits : x <= y
      BY <2>1, <2>2
    <3> QED BY <3>1 DEF Min
  <2> QED BY <2>1, <2>3, <2>4
<1>13. strtol(head) = Value([i \in 1 .. h - 2 |-> head[b + 1 + i - 1] - ch0])
  <2>1. PICK first : first = IF digits = {} THEN 1 ELSE Min(digits)
    OBVIOUS
  <2>2. strtol(head) = Value([i \in 1 .. Cardinality(digits) |-> head[first + i - 1] - ch0])
    BY <1>9, <2>1 DEF strtol
  <2>3. first = b + 1
    BY <1>12, <2>1
  <2> QED BY <1>11, <2>2, <2>3
<1>14. ASSUME NEW i \in 1 .. h - 2 PROVE head[b + 1 + i - 1] = FrameHeader(Messages[k])[i]
  <2>1. b + 1 + i - 1 = b + i
    OBVIOUS
  <2> QED BY <1>7, <2>1
<1>15. [i \in 1 .. h - 2 |-> head[b + 1 + i - 1] - ch0] = [i \in 1 .. h - 2 |-> FrameHeader(Messages[k])[i] - ch0]
  BY <1>14
<1> QED BY <1>1, <1>13, <1>15

\* A reader that reads a byte of a header, or the CR and LF before it.
HeadAt(k, j, a) ==
  /\ At(k, j) /\ InHead(k, j) /\ HeadOf(k, j + 1, a, c.head \o Recv(1))
  /\ Recv(1) # <<>> /\ Len(Recv(1)) = 1
  /\ j >= 0 => /\ k \in 1 .. Len(Messages) /\ j < HeaderLen(k)
               /\ arrived - 1 >= HeaderLen(k) - (j + 1)

LEMMA HeadIsAt ==
  ASSUME TypeInv, Unsplit, InFrames => OnWire, UploadInv, body.kind # "feed", c.pc = "chunk",
         arrived > 0
  PROVE  OnWire /\ \E k \in Nat, j \in Int, a \in {-2, -1, 0} : HeadAt(k, j, a)
<1>1. body.tr_encoding # 0 /\ \E k \in Nat, j \in Int : At(k, j) /\ InHead(k, j)
  BY UploadPc
<1>2. OnWire
  BY <1>1, UploadBody
<1>3. PICK k \in Nat, j \in Int : At(k, j) /\ InHead(k, j)
  BY <1>1
<1>4. PICK a \in {-2, -1, 0} : HeadFrom(k, j, a)
  BY <1>3 DEF InHead
<1>5. /\ Recv(1) # <<>> /\ Len(Recv(1)) = 1 /\ Recv(1)[1] = HeaderByte(k, j + 1)
      /\ j >= 0 => arrived - 1 >= HeaderLen(k) - (j + 1)
  BY <1>2, <1>3, HeadByte
<1>6. j >= 0 => k \in 1 .. Len(Messages) /\ j < HeaderLen(k)
  BY <1>2, <1>3, HeadPlace
<1>7. Recv(1) \in Seq(Nat) /\ c.head \in Seq(Nat)
  BY RecvIs, TypeIs DEF CType
<1>8. HeadOf(k, j + 1, a, c.head \o Recv(1))
  BY <1>4, <1>5, <1>7, HeadGrows
<1>9. HeadAt(k, j, a)
  BY <1>3, <1>5, <1>6, <1>8 DEF HeadAt
<1> QED BY <1>2, <1>9

LEMMA HeadAtEnds ==
  ASSUME TypeInv, body.kind # "feed", NEW k \in Nat, NEW j \in Int, NEW a \in {-2, -1, 0},
         HeadAt(k, j, a)
  PROVE  /\ HeaderEnds(c.head \o Recv(1)) => /\ k \in 1 .. Len(Messages) /\ j >= 0
                                             /\ j + 1 = HeaderLen(k) /\ HeaderLen(k) \in Nat
                                             /\ strtol(c.head \o Recv(1)) = DataLen(k)
                                             /\ DataLen(k) \in Nat
         /\ ~HeaderEnds(c.head \o Recv(1)) => (j >= 0 => j + 1 < HeaderLen(k) /\ HeaderLen(k) \in Nat)
<1>1. PICK head : head = c.head \o Recv(1) /\ HeadOf(k, j + 1, a, head)
  BY DEF HeadAt
<1>2. PICK y \in Int : y = j + 1 /\ (y > 0 <=> j >= 0)
  <2>1. j + 1 \in Int /\ (j + 1 > 0 <=> j >= 0)
    OBVIOUS
  <2> QED BY <2>1
<1>3. ASSUME j >= 0
      PROVE  /\ k \in 1 .. Len(Messages) /\ HeaderLen(k) \in Nat /\ DataLen(k) \in Nat
             /\ y <= HeaderLen(k)
  <2>1. k \in 1 .. Len(Messages) /\ j < HeaderLen(k)
    BY <1>3 DEF HeadAt
  <2>2. PICK l \in Nat, h \in Nat, d \in Nat : ChunkSizes(k, l, h, d)
    BY <2>1, ChunkLens
  <2>3. h = HeaderLen(k) /\ d = DataLen(k)
    BY <2>2 DEF ChunkSizes
  <2>4. j < h
    BY <2>1, <2>3
  <2>5. y <= h
    BY <1>2, <2>4
  <2> QED BY <2>1, <2>3, <2>5
<1>4. HeadOf(k, y, a, head)
  BY <1>1, <1>2
<1>5. HeaderEnds(head) <=> y > 0 /\ y = HeaderLen(k)
  BY <1>2, <1>3, <1>4, EndsIs
<1>6. ASSUME HeaderEnds(head) PROVE strtol(head) = DataLen(k)
  <2>1. k \in 1 .. Len(Messages) /\ y = HeaderLen(k) /\ y \in Nat
    BY <1>2, <1>3, <1>5, <1>6
  <2> QED BY <1>4, <2>1, StrtolIs
<1>7. ASSUME ~HeaderEnds(head), j >= 0 PROVE y < HeaderLen(k)
  <2>1. y <= HeaderLen(k) /\ y # HeaderLen(k) /\ HeaderLen(k) \in Nat
    BY <1>2, <1>3, <1>5, <1>7
  <2> QED BY <2>1
<1> QED BY <1>1, <1>2, <1>3, <1>5, <1>6, <1>7

LEMMA UploadCounts ==
  ASSUME TypeInv, Unsplit, InFrames => OnWire, UploadInv, body.kind # "feed"
  PROVE  HeadCounts
<1> SUFFICES ASSUME c.pc = "chunk", Recv(1) # <<>>, HeaderEnds(c.head \o Recv(1))
             PROVE  strtol(c.head \o Recv(1)) \in Nat
  BY DEF HeadCounts
<1>1. arrived > 0
  BY RecvOne
<1>2. PICK k \in Nat, j \in Int, a \in {-2, -1, 0} : HeadAt(k, j, a)
  BY <1>1, HeadIsAt
<1> QED BY <1>2, HeadAtEnds

\* recv finds nothing.
LEMMA HeadEmpty ==
  ASSUME TypeInv, Unsplit, OnWire, UploadInv, body.kind # "feed", ChunkHeader, arrived = 0
  PROVE  UploadInv'
<1>1. Recv(1) = <<>>
  BY RecvOne
<1>2. c.pc = "chunk" /\ Take(<<>>) /\ UNCHANGED <<body, tx, posted, taken, stored>>
  BY <1>1 DEF ChunkHeader
<1>3. PICK errno : (errno = "EAGAIN" \/ PeerClosed) /\ Check(c, -1, errno)
  BY <1>1 DEF ChunkHeader
<1>4. c \in CType
  BY TypeIs
<1>5. /\ c' = [c EXCEPT !.pc = c'.pc]
      /\ c'.pc = IF Over(c, -1, errno) THEN "over" ELSE "poll"
  BY <1>3, <1>4, CheckIs
<1>6. c'.chunk_size = c.chunk_size /\ c'.data_count = c.data_count
  BY <1>4, <1>5 DEF CType
<1>7. Contents' = Contents
  BY <1>2, SameAll
<1>8. Counted'
  BY <1>2, <1>6, <1>7 DEF UploadInv, Counted
<1>9. body.tr_encoding # 0 /\ \E k \in Nat, j \in Int : At(k, j) /\ InHead(k, j)
  BY <1>2, UploadPc
<1>10. PICK k \in Nat, j \in Int : At(k, j) /\ InHead(k, j)
  BY <1>9
<1>11. ~(j > 0) /\ j >= -2 /\ (j < 0 => k > 1) /\ c.chunk_size = 0 /\ stored = Joined(Parts, k - 1)
  <2>1. ~(j > 0)
    <3> SUFFICES ASSUME j > 0 PROVE FALSE
      OBVIOUS
    <3>1. k <= Len(Messages) /\ j < HeaderLen(k) /\ HeaderHere(k, j)
      BY <1>10 DEF InHead
    <3>2. k \in 1 .. Len(Messages)
      <4>1. Len(Messages) \in Nat
        BY MessagesAre
      <4>2. k \in 1 .. Len(Messages) + 1
        BY <1>10 DEF At
      <4> QED BY <3>1, <4>1, <4>2
    <3>3. PICK l \in Nat, h \in Nat, d \in Nat : ChunkSizes(k, l, h, d)
      BY <3>2, ChunkLens
    <3>4. h = HeaderLen(k)
      BY <3>3 DEF ChunkSizes
    <3>5. j \in 1 .. h - 1 /\ h - j > 0
      BY <3>1, <3>4
    <3> QED BY <3>1, <3>4, <3>5 DEF HeaderHere
  <2> QED BY <1>10, <2>1 DEF InHead
<1>12. CASE c'.pc = "over"
  <2>1. errno # "EAGAIN" \/ (body.content_length > 0 /\ c.data_count >= body.content_length)
    <3>1. body.content_length \in Nat
      BY UploadBody
    <3>2. Over(c, -1, errno)
      BY <1>5, <1>12
    <3> QED BY <3>1, <3>2 DEF Over
  <2>2. CASE PeerClosed
    <3>1. Len(wire) = 0 /\ tx # "packets" /\ j <= 0
      BY <1>11, <2>2, EmptySeq DEF PeerClosed
    <3>2. k = Len(Messages) + 1
      BY <1>10, <3>1, ChunkPlace
    <3>3. k - 1 = Len(Messages)
      <4>1. Len(Messages) \in Nat
        BY MessagesAre
      <4> QED BY <3>2, <4>1
    <3>4. stored = Contents
      BY <1>11, <3>3, ContentsAre
    <3>5. Finished'
      BY <1>2, <1>7, <3>1, <3>4 DEF Finished
    <3> QED BY <1>8, <1>12, <3>5, OverKept
  <2>3. CASE body.content_length > 0 /\ c.data_count >= body.content_length
    <3>1. Finished
      BY <2>3, CountOver
    <3>2. Finished'
      BY <1>2, <1>7, <3>1 DEF Finished
    <3> QED BY <1>8, <1>12, <3>2, OverKept
  <2> QED BY <1>3, <2>1, <2>2, <2>3
<1>13. CASE c'.pc # "over"
  <2>1. Advanced(0)
    <3>1. 0 \in 0 .. arrived /\ Len(<<>>) = 0
      BY EmptySeq
    <3> QED BY <1>2, <3>1, Advance
  <2>2. At(k, j)' /\ Parts' = Parts
    <3>1. At(k, j + 0)' /\ j + 0 = j
      BY <1>10, <2>1 DEF Advanced
    <3> QED BY <2>1, <3>1 DEF Advanced
  <2>3. c'.pc = "poll"
    BY <1>5, <1>13
  <2>4. InHead(k, j)'
    BY <1>2, <1>6, <1>11, <2>2, <2>3 DEF InHead
  <2> QED BY <1>2, <1>8, <1>9, <1>13, <2>2, <2>4, ChunkKept
<1> QED BY <1>12, <1>13

\* A byte of a header that does not end it.
LEMMA HeadMore ==
  ASSUME TypeInv, UploadInv, body.kind # "feed", NEW k \in Nat, NEW j \in Int, NEW a \in {-2, -1, 0},
         HeadAt(k, j, a), j >= 0 => j + 1 < HeaderLen(k) /\ HeaderLen(k) \in Nat, c.pc = "chunk",
         Advanced(1), UNCHANGED <<taken, stored>>, c' = [c EXCEPT !.head = c.head \o Recv(1)]
  PROVE  UploadInv'
<1>1. PICK head : head = c.head \o Recv(1) /\ HeadOf(k, j + 1, a, head)
  BY DEF HeadAt
<1>2. PICK y \in Int : y = j + 1 /\ (j >= -2 => y >= -2) /\ (y < 0 => j < 0) /\ (y > 0 => j >= 0)
  <2>1. j + 1 \in Int /\ (j >= -2 => j + 1 >= -2) /\ (j + 1 < 0 => j < 0) /\ (j + 1 > 0 => j >= 0)
    OBVIOUS
  <2> QED BY <2>1
<1>3. head \in Seq(Nat) /\ Len(head) = y - a /\ y - a \in Nat
      /\ \A i \in 1 .. y - a : head[i] = HeaderByte(k, a + i)
  BY <1>1, <1>2 DEF HeadOf
<1>4. a <= y
  BY <1>3
<1>5. head = [i \in 1 .. y - a |-> HeaderByte(k, a + i)]
  <2>1. DOMAIN head = 1 .. y - a /\ head = [i \in DOMAIN head |-> head[i]]
    BY <1>3, LenProperties
  <2> QED BY <1>3, <2>1
<1>6. /\ Messages' = Messages /\ Parts' = Parts /\ UNCHANGED <<body, tx, posted>>
      /\ HeaderLen(k)' = HeaderLen(k) /\ At(k, j + 1)' /\ arrived' = arrived - 1
  BY DEF Advanced, HeadAt
<1>7. /\ c'.pc = "chunk" /\ c'.chunk_size = c.chunk_size /\ c'.data_count = c.data_count
      /\ c'.head = head
  BY <1>1, TypeIs DEF CType
<1>8. /\ j >= -2 /\ (j < 0 => k > 1) /\ c.chunk_size = 0 /\ stored = Joined(Parts, k - 1)
  BY DEF HeadAt, InHead
<1>9. ASSUME y > 0 PROVE k <= Len(Messages') /\ y < HeaderLen(k)' /\ HeaderHere(k, y)'
  <2>1. j >= 0 /\ k \in 1 .. Len(Messages) /\ arrived - 1 >= HeaderLen(k) - (j + 1)
    BY <1>2, <1>9 DEF HeadAt
  <2>2. k <= Len(Messages)
    <3>1. Len(Messages) \in Nat
      BY MessagesAre
    <3> QED BY <2>1, <3>1
  <2>3. y < HeaderLen(k)
    BY <1>2, <2>1
  <2>4. arrived' >= HeaderLen(k)' - y
    BY <1>2, <1>6, <2>1
  <2> QED BY <1>6, <2>2, <2>3, <2>4 DEF HeaderHere
<1>10. HeadFrom(k, y, a)'
  <2>1. \A i : HeaderByte(k, i)' = HeaderByte(k, i)
    BY <1>6 DEF HeaderByte, FrameHeader
  <2>2. c'.head = [i \in 1 .. y - a |-> HeaderByte(k, a + i)']
    BY <1>5, <1>7, <2>1
  <2> QED BY <1>4, <2>2 DEF HeadFrom
<1>11. InHead(k, y)'
  BY <1>2, <1>6, <1>7, <1>8, <1>9, <1>10 DEF InHead
<1>12. At(k, y)' /\ c'.pc # "over"
  BY <1>2, <1>6, <1>7
<1>13. Contents' = Contents
  BY <1>6, SameAll
<1>14. Counted'
  BY <1>6, <1>7, <1>13 DEF UploadInv, Counted
<1>15. body'.tr_encoding # 0
  BY <1>6, UploadPc
<1> QED BY <1>11, <1>12, <1>14, <1>15, ChunkKept

\* The last byte of a header: of the last chunk, or of one with data.
LEMMA HeadLast ==
  ASSUME TypeInv, UploadInv, body.kind # "feed", NEW k \in 1 .. Len(Messages), k \in Nat,
         DataLen(k) = 0, stored = Joined(Parts, k - 1)
  PROVE  stored = Contents /\ tx = "closed"
<1>1. PICK n \in Nat : n = Len(Messages)
  BY MessagesAre
<1>2. k > Len(posted)
  <2>1. Len(posted) \in Nat /\ \A i \in 1 .. Len(posted) : DataLen(i) > 0
    BY MessagesAre
  <2>2. ~(k \in 1 .. Len(posted))
    BY <2>1
  <2> QED BY <1>1, <2>1, <2>2
<1>3. Messages[k] = LastMessage /\ k = n
  BY <1>1, <1>2, MessagesAre
<1>4. tx = "closed"
  BY <1>1, <1>2, <1>3, MessagesAre
<1>5. Seqs(Nat, k, Parts) /\ Parts[k] = <<>> /\ k \in Nat \ {0}
  BY <1>1, <1>3, PartsAre DEF LastMessage
<1>6. Joined(Parts, k) = Joined(Parts, k - 1) \o Parts[k] /\ Joined(Parts, k - 1) \in Seq(Nat)
  BY <1>5, JoinedNext
<1>7. Joined(Parts, k) = Joined(Parts, k - 1)
  BY <1>5, <1>6, ConcatEmptySeq
<1>8. Contents = Joined(Parts, k)
  BY <1>1, <1>3, ContentsAre
<1> QED BY <1>4, <1>7, <1>8

\* The last byte of a header: the size is known, and 0 ends the body.
LEMMA HeadDone ==
  ASSUME TypeInv, UploadInv, body.kind # "feed", NEW k \in Nat, NEW j \in Int, NEW a \in {-2, -1, 0},
         HeadAt(k, j, a), c.pc = "chunk", Advanced(1), UNCHANGED <<taken, stored>>,
         k \in 1 .. Len(Messages), j + 1 = HeaderLen(k), HeaderLen(k) \in Nat,
         NEW m, m = [c EXCEPT !.head = c.head \o Recv(1)], NEW d \in Nat, d = DataLen(k),
         IF d = 0 THEN Check(m, 0, "EAGAIN")
         ELSE c' = [c EXCEPT !.head = c.head \o Recv(1), !.chunk_size = d, !.pc = "body"]
  PROVE  UploadInv'
<1>1. c \in CType /\ c.head \o Recv(1) \in Seq(Nat)
  BY TypeIs DEF HeadAt, HeadOf
<1>2. UNCHANGED <<body, tx, posted>> /\ Messages' = Messages /\ Parts' = Parts
      /\ HeaderLen(k)' = HeaderLen(k) /\ DataLen(k)' = d /\ At(k, j + 1)'
  BY DEF Advanced, HeadAt
<1>3. Contents' = Contents
  BY <1>2, SameAll
<1>4. stored = Joined(Parts, k - 1)
  BY DEF HeadAt, InHead
<1>5. CASE d = 0
  <2>1. m \in CType /\ m.data_count = c.data_count
    BY <1>1 DEF CType
  <2>2. Over(m, 0, "EAGAIN")
    BY DEF Over
  <2>3. c' = [m EXCEPT !.pc = c'.pc] /\ c'.pc = "over"
    BY <1>5, <2>1, <2>2, CheckIs
  <2>4. c'.data_count = c.data_count
    BY <2>1, <2>3 DEF CType
  <2>5. Counted'
    BY <1>2, <1>3, <2>4 DEF UploadInv, Counted
  <2>6. stored = Contents /\ tx = "closed"
    BY <1>4, <1>5, HeadLast
  <2>7. Finished'
    BY <1>2, <1>3, <2>6 DEF Finished
  <2> QED BY <2>3, <2>5, <2>7, OverKept
<1>6. CASE d # 0
  <2>1. c' = [c EXCEPT !.head = c.head \o Recv(1), !.chunk_size = d, !.pc = "body"]
    BY <1>6
  <2>2. c'.pc = "body" /\ c'.chunk_size = d /\ c'.data_count = c.data_count
    BY <1>1, <2>1 DEF CType
  <2>3. Counted'
    BY <1>2, <1>3, <2>2 DEF UploadInv, Counted
  <2>4. stored' = Joined(Parts', k - 1) \o SubSeq(Messages'[k].data, 1, 0)
    <3>1. PICK p \in Seq(Nat) : p = Messages[k].data /\ Len(p) = d
      BY MessagesAre DEF DataLen
    <3>2. Resumes(<<>>, 0, p, 0) /\ 0 \in 0 .. d /\ 0 \in 0 .. d - 0 /\ 0 + 0 = 0
      BY EmptySeq DEF Resumes
    <3>3. Len(SubSeq(p, 1, 0)) = 0 /\ SubSeq(p, 1, 0) \in Seq(Nat)
      BY <3>1, <3>2, DataNext
    <3>4. SubSeq(p, 1, 0) = <<>>
      BY <3>3, EmptySeq
    <3>5. Joined(Parts, k - 1) \in Seq(Nat)
      BY <1>4, TypeIs
    <3>6. Joined(Parts, k - 1) \o <<>> = Joined(Parts, k - 1)
      BY <3>5, ConcatEmptySeq
    <3> QED BY <1>2, <1>4, <3>1, <3>4, <3>6
  <2>5. PICK h \in Nat : h = HeaderLen(k) /\ j + 1 = h /\ h - h = 0 /\ d - 0 = d
    OBVIOUS
  <2>6. k <= Len(Messages')
    <3>1. Len(Messages) \in Nat
      BY MessagesAre
    <3> QED BY <1>2, <3>1
  <2>7. d > 0
    BY <1>6
  <2>8. InPart(k, h)'
    BY <1>2, <2>2, <2>4, <2>5, <2>6, <2>7 DEF InPart
  <2>9. At(k, h)' /\ c'.pc # "over" /\ body'.tr_encoding # 0
    BY <1>2, <2>2, <2>5, UploadPc
  <2> QED BY <2>3, <2>8, <2>9, ChunkKept
<1> QED BY <1>5, <1>6

\* A recv in a chunk header.
LEMMA UploadHead ==
  ASSUME TypeInv, Unsplit, InFrames => OnWire, UploadInv, body.kind # "feed", ChunkHeader
  PROVE  UploadInv'
<1>1. c.pc = "chunk" /\ Take(Recv(1)) /\ UNCHANGED <<body, tx, posted, taken, stored>>
  BY DEF ChunkHeader
<1>2. OnWire
  BY <1>1, UploadPc, UploadBody
<1>3. arrived \in Nat
  BY RecvIs
<1>4. CASE arrived = 0
  BY <1>2, <1>4, HeadEmpty
<1>5. CASE arrived > 0
  <2>1. PICK k \in Nat, j \in Int, a \in {-2, -1, 0} : HeadAt(k, j, a)
    BY <1>1, <1>5, HeadIsAt
  <2>2. Recv(1) # <<>> /\ Len(Recv(1)) = 1
    BY <2>1 DEF HeadAt
  <2>3. Advanced(1)
    <3>1. 1 \in 0 .. arrived
      BY <1>3, <1>5
    <3> QED BY <1>1, <1>2, <2>2, <3>1, Advance
  <2>4. PICK head : head = c.head \o Recv(1)
    OBVIOUS
  <2>5. IF HeaderEnds(head)
        THEN IF strtol(head) = 0 THEN Check([c EXCEPT !.head = head], 0, "EAGAIN")
             ELSE c' = [c EXCEPT !.head = head, !.chunk_size = strtol(head), !.pc = "body"]
        ELSE c' = [c EXCEPT !.head = head]
    BY <2>2, <2>4 DEF ChunkHeader
  <2>6. CASE HeaderEnds(head)
    <3>1. /\ k \in 1 .. Len(Messages) /\ j + 1 = HeaderLen(k) /\ HeaderLen(k) \in Nat
          /\ strtol(head) = DataLen(k) /\ DataLen(k) \in Nat
      BY <2>1, <2>4, <2>6, HeadAtEnds
    <3>4. PICK m : m = [c EXCEPT !.head = head]
      OBVIOUS
    <3>2. PICK d \in Nat : d = DataLen(k)
      BY <3>1
    <3>3. IF d = 0 THEN Check(m, 0, "EAGAIN")
          ELSE c' = [c EXCEPT !.head = head, !.chunk_size = d, !.pc = "body"]
      BY <2>5, <2>6, <3>1, <3>2, <3>4
    <3> QED BY <1>1, <2>1, <2>3, <2>4, <3>1, <3>2, <3>3, <3>4, HeadDone
  <2>7. CASE ~HeaderEnds(head)
    <3>1. j >= 0 => j + 1 < HeaderLen(k) /\ HeaderLen(k) \in Nat
      BY <2>1, <2>4, <2>7, HeadAtEnds
    <3>2. c' = [c EXCEPT !.head = c.head \o Recv(1)]
      BY <2>4, <2>5, <2>7
    <3> QED BY <1>1, <2>1, <2>3, <3>1, <3>2, HeadMore
  <2> QED BY <2>6, <2>7
<1> QED BY <1>3, <1>4, <1>5

LEMMA SameBody == [Next]_vars => body' = body
BY DEF Next, Peer, Server, sff_write_header, sff_write_packet, WriteBody, Close, Arrive, Begin, Sync, SyncWord,
       Size, Data, ChunkHeader, BodyData, Post, vars

LEMMA UploadStep ==
  ASSUME TypeInv, Unsplit, InFrames => OnWire, UploadInv, [Next]_vars
  PROVE  UploadInv'
<1> SUFFICES ASSUME body.kind # "feed" PROVE UploadInv'
  BY SameBody DEF UploadInv
<1>1. arrived \in Nat /\ arrived <= Len(wire) /\ Len(wire) \in Nat
  BY LenProperties, TypeIs
<1>2. CASE UNCHANGED vars
  <2>1. arrived' \in Nat /\ arrived <= arrived' /\ UNCHANGED <<body, tx, posted, wire, c, stored>>
    BY <1>1, <1>2 DEF vars
  <2> QED BY <2>1, UploadArrive
<1>3. CASE Arrive
  <2>1. arrived' \in arrived + 1 .. Len(wire) /\ UNCHANGED <<body, tx, posted, wire, c, stored>>
    BY <1>3 DEF Arrive
  <2>2. arrived' \in Nat /\ arrived <= arrived'
    BY <1>1, <2>1
  <2> QED BY <2>1, <2>2, UploadArrive
<1>4. CASE BodyData
  <2>1. CASE body.tr_encoding = 0
    BY <1>4, <2>1, UploadPlain
  <2>2. CASE body.tr_encoding # 0
    <3>1. OnWire
      BY <2>2, UploadBody
    <3> QED BY <1>4, <2>2, <3>1, UploadPart
  <2> QED BY <2>1, <2>2
<1>5. CASE Sync \/ SyncWord \/ Size \/ Data
  <2>1. c.pc \in {"sync", "F", "FF", "type", "size", "data"}
    BY <1>5 DEF Sync, SyncWord, Size, Data
  <2> QED BY <2>1, UploadPc
<1> QED BY <1>2, <1>3, <1>4, <1>5, UploadPeer, UploadBegin, UploadHead DEF Next, Server

LEMMA InitPlace ==
  ASSUME Init
  PROVE  OnWire /\ Messages = <<>> /\ At(1, 0)
<1>1. posted = <<>> /\ wire = <<>> /\ tx # "closed"
  BY DEF Init
<1>2. Messages = <<>> /\ Len(<<>>) = 0
  BY <1>1, EmptySeq DEF Messages
<1>3. Joined(Frames, 0) = <<>>
  BY JoinedEmpty
<1>4. OnWire
  <2>1. 1 .. 0 = {} /\ 0 <= 0
    OBVIOUS
  <2> QED BY <1>1, <1>2, <1>3, <2>1 DEF OnWire
<1>5. At(1, 0)
  <2>1. 1 \in 1 .. 0 + 1 /\ 1 - 1 = 0 /\ 0 \in Int
    OBVIOUS
  <2> QED BY <1>1, <1>2, <1>3, <2>1 DEF At
<1> QED BY <1>2, <1>4, <1>5

LEMMA UploadInit == Init => UploadInv
<1> SUFFICES ASSUME Init, body.kind # "feed" PROVE UploadInv
  BY DEF UploadInv
<1>1. TypeInv
  BY InitType
<1>2. /\ posted = <<>> /\ wire = <<>> /\ stored = <<>> /\ tx = "packets"
      /\ c.pc = "poll" /\ c.data_count = 0 /\ c.chunk_size = 0
  BY DEF Init
<1>3. Messages = <<>> /\ Len(<<>>) = 0 /\ At(1, 0)
  BY InitPlace, EmptySeq
<1>4. stored = Joined(Parts, 1 - 1)
  <2>1. 1 - 1 = 0
    OBVIOUS
  <2> QED BY <1>2, <2>1, JoinedEmpty
<1>5. Contents = <<>>
  BY <1>1, <1>2, <1>3, <1>4, ContentsAre, JoinedEmpty
<1>6. Counted
  <2>1. body.content_length > 0 => 0 <= body.content_length
    BY <1>1, UploadBody
  <2> QED BY <1>2, <1>3, <1>5, <2>1 DEF Counted
<1>7. PlainReader
  <2>1. [i \in 1 .. 0 |-> wire[i].b] = <<>>
    <3>1. 1 .. 0 = {}
      OBVIOUS
    <3> QED BY <3>1
  <2>2. <<>> \o <<>> = <<>>
    BY EmptySeq, ConcatEmptySeq
  <2> QED BY <1>2, <1>3, <1>5, <2>1, <2>2 DEF PlainReader
<1>8. ChunkReader(1, 0)
  <2>1. InHead(1, 0)
    BY <1>2, <1>4 DEF InHead
  <2> QED BY <1>3, <2>1 DEF ChunkReader
<1> QED BY <1>2, <1>6, <1>7, <1>8 DEF UploadInv

-----------------------------------------------------------------------------
(* The invariants together *)

\* Where the server takes bytes, they are as many as recv returned.
Takes == \E bytes : /\ Take(bytes) /\ Len(bytes) \in 0 .. arrived
                    /\ UNCHANGED <<body, tx, posted>>

LEMMA Taken ==
  ASSUME TypeInv, NEW n \in Int, Take(Recv(n)), UNCHANGED <<body, tx, posted>>
  PROVE  Takes
BY RecvType DEF Takes

LEMMA ServerTakes ==
  ASSUME TypeInv, Sync \/ SyncWord \/ Size \/ Data \/ ChunkHeader \/ BodyData
  PROVE  Takes
<1>1. CASE Sync \/ SyncWord \/ ChunkHeader
  <2>1. Take(Recv(1)) /\ UNCHANGED <<body, tx, posted>> /\ 1 \in Int
    BY <1>1 DEF Sync, SyncWord, ChunkHeader
  <2> QED BY <2>1, Taken
<1>2. CASE Size
  <2>1. Take(Recv(SizeBytes)) /\ UNCHANGED <<body, tx, posted>> /\ SizeBytes \in Int
    BY <1>2, PostAssumption DEF Size
  <2> QED BY <2>1, Taken
<1>3. CASE Data
  <2>1. c.sff.data \in Seq(Nat) /\ c.sff.size \in Nat
    BY TypeIs DEF CType
  <2>2. PICK n \in Int : n = c.sff.size - Len(c.sff.data)
    BY <2>1, LenProperties
  <2>3. Take(Recv(n)) /\ UNCHANGED <<body, tx, posted>>
    BY <1>3, <2>2 DEF Data
  <2> QED BY <2>3, Taken
<1>4. CASE BodyData
  <2>1. PICK n : n = IF body.tr_encoding = 1 THEN lesser(c.chunk_size, buffer_size) ELSE buffer_size
    OBVIOUS
  <2>2. n \in Int
    BY <2>1, TypeIs, PostAssumption DEF lesser, CType
  <2>3. Take(Recv(n)) /\ UNCHANGED <<body, tx, posted>>
    BY <1>4, <2>1 DEF BodyData
  <2> QED BY <2>2, <2>3, Taken
<1> QED BY <1>1, <1>2, <1>3, <1>4

\* The bytes under way stay in place.
LEMMA WireStep ==
  ASSUME TypeInv, Unsplit, InFrames, OnWire, [Next]_vars, tx = "header" => body.kind = "feed"
  PROVE  OnWire'
<1>1. CASE Peer
  BY <1>1, PeerGrown DEF Grown
<1>2. CASE UNCHANGED vars \/ Arrive \/ Begin
  <2>1. UNCHANGED <<body, tx, posted, wire>>
    BY <1>2 DEF vars, Arrive, Begin
  <2>2. Messages' = Messages /\ Frames' = Frames
    BY <2>1, SameAll
  <2> QED BY <2>1, <2>2 DEF OnWire
<1>3. CASE Sync \/ SyncWord \/ Size \/ Data \/ ChunkHeader \/ BodyData
  <2>1. PICK bytes : Take(bytes) /\ Len(bytes) \in 0 .. arrived /\ UNCHANGED <<body, tx, posted>>
    BY <1>3, ServerTakes DEF Takes
  <2>2. Advanced(Len(bytes))
    BY <2>1, Advance
  <2> QED BY <2>2 DEF Advanced
<1> QED BY <1>1, <1>2, <1>3 DEF Next, Server

\* A feeder's data is never taken for that of a segment or a file.
FeedPc == body.kind = "feed" => c.pc \notin {"chunk", "body"}

LEMMA FeedPcStep ==
  ASSUME TypeInv, FeedPc, [Next]_vars
  PROVE  FeedPc'
<1> SUFFICES ASSUME body.kind = "feed" PROVE c'.pc \notin {"chunk", "body"}
  BY SameBody DEF FeedPc
<1>1. c \in CType /\ c.pc \notin {"chunk", "body"}
  BY TypeIs DEF FeedPc
<1>2. CASE UNCHANGED vars \/ Arrive \/ Peer
  <2>1. c' = c
    BY <1>2 DEF vars, Arrive, Peer, sff_write_header, sff_write_packet, WriteBody, Close, Post
  <2> QED BY <1>1, <2>1
<1>3. CASE Begin
  <2>1. c'.pc = IF c.sff # NoSff THEN "data" ELSE "sync"
    BY <1>1, <1>3 DEF Begin, CType
  <2> QED BY <2>1
<1>4. CASE Sync
  <2>1. CASE Recv(1) = <<>>
    <3>1. Check(c, Length(Recv(1)), "EAGAIN")
      BY <1>4, <2>1 DEF Sync
    <3> QED BY <1>1, <3>1, CheckIs
  <2>2. CASE Recv(1) # <<>>
    <3>1. PICK byte : byte = Recv(1)
      OBVIOUS
    <3>2. c' = [c EXCEPT !.buf[1] = byte[1], !.pc = IF byte[1] = chS THEN "F" ELSE "sync"]
      BY <1>4, <2>2, <3>1 DEF Sync
    <3> QED BY <1>1, <3>2 DEF CType
  <2> QED BY <2>1, <2>2
<1>5. CASE SyncWord
  <2>1. c.pc \in {"F", "FF", "type"}
    BY <1>5 DEF SyncWord
  <2>2. NextOf(c.pc) \in {"FF", "type", "size"}
    BY <2>1 DEF NextOf
  <2>3. PICK ptr, type, pc : /\ c' = [c EXCEPT !.buf[1] = ptr, !.type = type, !.pc = pc]
                             /\ pc \in {NextOf(c.pc), "sync"}
    BY <1>5 DEF SyncWord
  <2>4. c'.pc = pc
    BY <1>1, <2>3 DEF CType
  <2> QED BY <2>2, <2>3, <2>4
<1>6. CASE Size
  <2>1. PICK buf, sff : \/ c' = [c EXCEPT !.buf = buf, !.pc = "data", !.sff = sff]
                        \/ c' = [c EXCEPT !.buf = buf, !.pc = "sync"]
    BY <1>6 DEF Size
  <2> QED BY <1>1, <2>1 DEF CType
<1>7. CASE Data
  <2>1. PICK m, bytes : m = [c EXCEPT !.sff = m.sff] /\ Check(m, Length(bytes), "EAGAIN")
    <3>1. PICK bytes : bytes = Recv(c.sff.size - Len(c.sff.data))
      OBVIOUS
    <3>2. PICK sff : sff = IF Len(c.sff.data \o bytes) = c.sff.size THEN NoSff
                           ELSE [c.sff EXCEPT !.data = c.sff.data \o bytes]
      OBVIOUS
    <3>3. PICK m : m = [c EXCEPT !.sff = sff]
      OBVIOUS
    <3>4. m.sff = sff
      BY <1>1, <3>3 DEF CType
    <3>5. Check(m, Length(bytes), "EAGAIN")
      BY <1>7, <3>1, <3>2, <3>3 DEF Data
    <3> QED BY <3>3, <3>4, <3>5
  <2>2. c'.pc \in {"over", "poll"}
    <3>1. c' = [m EXCEPT !.pc = IF Over(m, Length(bytes), "EAGAIN") THEN "over" ELSE "poll"]
      BY <2>1 DEF Check
    <3> QED BY <1>1, <2>1, <3>1 DEF CType
  <2> QED BY <2>2
<1>8. CASE ChunkHeader \/ BodyData
  BY <1>1, <1>8 DEF ChunkHeader, BodyData
<1> QED BY <1>2, <1>3, <1>4, <1>5, <1>6, <1>7, <1>8 DEF Next, Server

\* What every reachable state satisfies, whatever is posted.
PostInv == TypeInv /\ WireInv /\ UploadInv /\ FeedPc

LEMMA PostInvInit == Init => PostInv
<1> SUFFICES ASSUME Init PROVE PostInv
  OBVIOUS
<1>1. TypeInv /\ UploadInv /\ OnWire
  BY InitType, UploadInit, InitPlace
<1>2. Unsplit /\ FeedPc
  BY DEF Init, Unsplit, FeedPc
<1> QED BY <1>1, <1>2 DEF PostInv, WireInv

\* Every step keeps the invariant.
LEMMA PostInvStep ==
  ASSUME ~SplitHeaders, PostInv, [Next]_vars
  PROVE  PostInv'
<1>1. TypeInv /\ Unsplit /\ (InFrames => OnWire) /\ UploadInv /\ FeedPc
  BY DEF PostInv, WireInv
<1>2. HeadCounts
  <2>1. CASE body.kind = "feed"
    BY <1>1, <2>1 DEF FeedPc, HeadCounts
  <2>2. CASE body.kind # "feed"
    BY <1>1, <2>2, UploadCounts
  <2> QED BY <2>1, <2>2
<1>3. TypeInv' /\ Unsplit'
  <2>1. c.pc = "body" => body.kind # "feed"
    BY <1>1 DEF FeedPc
  <2> QED BY <1>1, <1>2, <2>1, TypeStep
<1>4. InFrames' => OnWire'
  <2>1. InFrames' <=> InFrames
    BY SameBody DEF InFrames
  <2>2. tx = "header" => body.kind = "feed"
    BY <1>1 DEF UploadInv, Counted
  <2> QED BY <1>1, <2>1, <2>2, WireStep
<1>5. UploadInv' /\ FeedPc'
  BY <1>1, UploadStep, FeedPcStep
<1> QED BY <1>3, <1>4, <1>5 DEF PostInv, WireInv

LEMMA PostAlways == ~SplitHeaders => (Spec => []PostInv)
<1>1. Init => PostInv
  BY PostInvInit
<1>2. ~SplitHeaders /\ PostInv /\ [Next]_vars => PostInv'
  BY PostInvStep
<1>3. ~SplitHeaders => [](~SplitHeaders)
  OBVIOUS
<1> QED BY <1>1, <1>2, <1>3, PTL DEF Spec

\* ... and of a feed, where a block's length fits its header and a block that is too
\* large holds no 'S'.
LEMMA FeedAlways ==
  ASSUME ~SplitHeaders, FeedSizes, NoSyncInLarge
  PROVE  Spec => [](PostInv /\ FeedInv)
<1>1. Init => FeedInv
  BY FeedInit
<1>2. PostInv /\ FeedInv /\ [Next]_vars => FeedInv'
  <2> SUFFICES ASSUME PostInv, FeedInv, [Next]_vars PROVE FeedInv'
    OBVIOUS
  <2>1. CASE body.kind = "feed"
    <3>1. TypeInv /\ Unsplit /\ OnWire
      BY <2>1 DEF PostInv, WireInv, InFrames
    <3> QED BY <3>1, FeedStep
  <2>2. CASE body.kind # "feed"
    BY <2>2, SameBody DEF FeedInv
  <2> QED BY <2>1, <2>2
<1>3. Spec => []PostInv
  BY PostAlways
<1> QED BY <1>1, <1>2, <1>3, PTL DEF Spec

\* The blocks that are not too large, as BlocksAsPosted writes them.
LEMMA SmallBlocksAre ==
  ASSUME TypeInv
  PROVE  SmallBlocks = Joined(Smalls, Len(posted))
<1>1. DOMAIN posted = 1 .. Len(posted)
  BY TypeIs, LenProperties
<1>2. [i \in 1 .. Len(posted) |-> Smalls[i]]
        = [k \in DOMAIN posted |-> IF Small(posted[k]) THEN <<posted[k]>> ELSE <<>>]
  BY <1>1 DEF Smalls
<1> QED BY <1>2 DEF SmallBlocks, Joined

\* The properties follow from the invariants.
LEMMA FeedBlocks ==
  ASSUME PostInv, FeedInv
  PROVE  BlocksAsPosted
<1> SUFFICES ASSUME body.kind = "feed" PROVE
      /\ IsPrefix(taken, SmallBlocks)
      /\ c.pc \in {"poll", "over"} /\ wire = <<>> => Len(taken) = Len(SmallBlocks)
  BY DEF BlocksAsPosted
<1>1. TypeInv /\ OnWire
  BY DEF PostInv, WireInv, InFrames
<1>2. SmallBlocks = Joined(Smalls, Len(posted)) /\ Messages = posted /\ Len(posted) \in Nat
  BY <1>1, SmallBlocksAre, FeedMessages
<1>3. \E k \in 0 .. Len(posted) :
        /\ taken = Joined(Smalls, k)
        /\ c.pc \in {"poll", "over"} /\ wire = <<>> => k = Len(posted)
  <2>1. CASE c.pc = "over"
    <3>1. taken = Joined(Smalls, Len(posted)) /\ Len(posted) \in 0 .. Len(posted)
      BY <1>2, <2>1 DEF FeedInv
    <3> QED BY <3>1
  <2>2. CASE c.pc # "over"
    <3>1. PICK k \in Nat, j \in Nat :
            /\ taken = Joined(Smalls, k - 1)
            /\ \/ Len(wire) = 0 /\ k = Len(Messages) + 1 /\ j = 0
               \/ Len(wire) > 0 /\ k \in 1 .. Len(Messages) /\ j < Len(Frames[k])
      BY <1>1, <2>2, FeedAt
    <3>2. k - 1 \in 0 .. Len(posted)
      BY <1>2, <3>1
    <3>3. wire = <<>> => k - 1 = Len(posted)
      <4>1. wire = <<>> => Len(wire) = 0
        BY EmptySeq
      <4> QED BY <1>2, <3>1, <4>1
    <3> QED BY <3>1, <3>2, <3>3
  <2> QED BY <2>1, <2>2
<1>4. PICK k \in 0 .. Len(posted) :
        /\ taken = Joined(Smalls, k)
        /\ c.pc \in {"poll", "over"} /\ wire = <<>> => k = Len(posted)
  BY <1>3
<1>5. Seqs([type : Int, data : Seq(Nat)], Len(posted), Smalls)
  BY <1>1, SmallsAre
<1>6. Begins([type : Int, data : Seq(Nat)], taken, SmallBlocks)
  <2>1. Begins([type : Int, data : Seq(Nat)], Joined(Smalls, k), Joined(Smalls, Len(posted)))
    BY <1>5, JoinedPart
  <2> QED BY <1>2, <1>4, <2>1
<1>7. IsPrefix(taken, SmallBlocks)
  BY <1>6, BeginsAt
<1> QED BY <1>2, <1>4, <1>7

LEMMA UploadBytes ==
  ASSUME PostInv
  PROVE  BodyAsPosted
<1> SUFFICES ASSUME body.kind # "feed"
             PROVE  IsPrefix(stored, Contents) /\ (c.pc = "over" => stored = Contents)
  BY DEF BodyAsPosted
<1>1. TypeInv /\ UploadInv
  BY DEF PostInv
<1>2. Begins(Nat, stored, Contents)
  BY <1>1, StoredBegins
<1>3. IsPrefix(stored, Contents)
  BY <1>2, BeginsAt
<1>4. c.pc = "over" => stored = Contents
  BY <1>1 DEF UploadInv, Finished
<1> QED BY <1>3, <1>4

\* Type correctness of the state of a body on its way: every number, byte and header the
\* server reads has the range its variable has room for.  Headers arrive whole.
THEOREM PostTypeCorrect ==
  ASSUME ~SplitHeaders
  PROVE  Spec => []TypeInv
<1>1. PostInv => TypeInv
  BY DEF PostInv
<1>2. Spec => []PostInv
  BY PostAlways
<1> QED BY <1>1, <1>2, PTL

\* "removed chunk header and tail": what http_receive_data stores of a segment or a file,
\* in chunks or not and however TCP hands it over, is what was posted as far as it was
\* read, and all of it when the server takes the body for finished.
THEOREM PostedBodyStored ==
  ASSUME ~SplitHeaders
  PROVE  Spec => []BodyAsPosted
<1>1. PostInv => BodyAsPosted
  BY UploadBytes
<1>2. Spec => []PostInv
  BY PostAlways
<1> QED BY <1>1, <1>2, PTL

\* "sync to current pkt": http_receive_data takes the blocks of a feed in order, without
\* those that are too large, and none is missing once everything has been read.
THEOREM PostedBlocksTaken ==
  ASSUME ~SplitHeaders, FeedSizes, NoSyncInLarge
  PROVE  Spec => []BlocksAsPosted
<1>1. PostInv /\ FeedInv => BlocksAsPosted
  BY FeedBlocks
<1>2. Spec => [](PostInv /\ FeedInv)
  BY FeedAlways
<1> QED BY <1>1, <1>2, PTL
=============================================================================
