--------------------------- MODULE CtlChannelProofs ---------------------------
(***************************************************************************)
(* Proofs about the control channel for every sequence of messages, every  *)
(* size of the buffers and every reading of a field that is none, where    *)
(* the two things the code counts on hold: TCP delivers what was sent in   *)
(* one piece (~Fragments), and every message finds room in sb_out (Roomy). *)
(* Without either DispatchedAsSent is false: TLC finds it violated in the  *)
(* instance of CtlWhole with Fragments = TRUE, and with msize = 30.        *)
(*                                                                         *)
(* The bytes of sb_in and then sb_out are the messages one after the       *)
(* other; off[m] is where message m ends.  sb_in ends where a message      *)
(* does, so that the parser, which stands at a known place of one message  *)
(* at each of its labels, always finds the rest of that message.           *)
(***************************************************************************)
EXTENDS CtlChannel, SequenceTheorems, TLAPS

\* Each message finds room in sb_out when it is sent.
size(m) == 12 + Messages[m].nlen + Messages[m].dlen
Roomy == ff_ctl_send => Len(sb_out) + size(sent + 1) <= msize

Byte == Nat \X Nat
Call(m) == <<m, Name(m), Data(m)>>
Calls == {Call(m) : m \in 1 .. Len(Messages)}

\* Where the messages 1 to n end, in the stream of all their bytes.
Ends(off, n) ==
  /\ off \in [0 .. n -> Nat] /\ off[0] = 0
  /\ \A m \in 1 .. n : off[m] = off[m - 1] + size(m)
  /\ \A a \in 0 .. n, b \in 0 .. n : a < b => off[a] < off[b]
\* The stream in and out holds those messages, each byte at its place.
Filled(off, n, in, out) ==
  /\ Len(in) + Len(out) = off[n]
  /\ \A m \in 1 .. n : \A k \in 1 .. size(m) : (in \o out)[off[m - 1] + k] = <<m, k>>

Typed == /\ sent \in 0 .. Len(Messages)
         /\ sb_in \in Seq(Byte) /\ sb_out \in Seq(Byte)
         /\ ptr \in Nat
         /\ dispatched \in Seq(Calls)
         /\ pc \in {"idle", "loop", "scan", "nlen", "dlen", "name", "data"}

InOrder == \A m \in 1 .. Len(dispatched) : dispatched[m] = Call(m)

\* k messages have been delivered, and the parser, which has dispatched d of them,
\* is at the place of message d + 1 that belongs to its label, with what it has read.
Read(cmd, nlen, dlen, name) == [cmd |-> cmd, nlen |-> nlen, dlen |-> dlen, name |-> name]
Place(off, k) ==
  LET d == Len(dispatched)
      m == Messages[d + 1]
  IN /\ k \in 0 .. sent /\ Len(sb_in) = off[k] /\ d <= k
     /\ pc = "idle" => d = k
     /\ pc \notin {"idle", "loop"} => d < k
     /\ pc \in {"idle", "loop", "scan"} => ptr = off[d] /\ msg = NoMsg
     /\ pc = "nlen" => ptr = off[d] + 4 /\ msg = Read(d + 1, 0, 0, <<>>)
     /\ pc = "dlen" => ptr = off[d] + 8 /\ msg = Read(d + 1, m.nlen, 0, <<>>)
     /\ pc = "name" => ptr = off[d] + 12 /\ msg = Read(d + 1, m.nlen, m.dlen, <<>>)
     /\ pc = "data" => /\ ptr = off[d] + 12 + m.nlen
                       /\ msg = Read(d + 1, m.nlen, m.dlen, Name(d + 1))

ChannelInv ==
  /\ Typed /\ InOrder
  /\ \E off : Ends(off, sent) /\ Filled(off, sent, sb_in, sb_out)
              /\ \E k \in 0 .. sent : Place(off, k)

-----------------------------------------------------------------------------
(* Bytes and messages *)

LEMMA MessageSize ==
  ASSUME NEW m \in 1 .. Len(Messages)
  PROVE  /\ Messages[m].nlen \in Nat \ {0} /\ Messages[m].dlen \in Nat \ {0}
         /\ size(m) \in Nat /\ size(m) >= 14
<1>1. Messages[m] \in Message
  BY ChannelAssumption, ElementOfSeq
<1>2. Messages[m].nlen \in Nat \ {0} /\ Messages[m].dlen \in Nat \ {0}
  BY <1>1 DEF Message
<1> QED BY <1>2 DEF size

LEMMA BytesShape ==
  ASSUME NEW m \in Nat, NEW from \in Nat \ {0}, NEW n \in Nat
  PROVE  /\ Bytes(m, from, n) \in Seq(Byte) /\ Len(Bytes(m, from, n)) = n
         /\ \A k \in 1 .. n : Bytes(m, from, n)[k] = <<m, from + k - 1>>
<1> DEFINE b == Bytes(m, from, n)
<1>1. b \in [1 .. n -> Byte] /\ \A k \in 1 .. n : b[k] = <<m, from + k - 1>>
  BY DEF Bytes, Byte
<1> HIDE DEF b
<1>2. b \in Seq(Byte) /\ Len(b) = n
  BY <1>1
<1> QED BY <1>1, <1>2 DEF b

\* Two pieces of messages are equal only where they are the same piece.
LEMMA BytesEqual ==
  ASSUME NEW m \in Nat, NEW f \in Nat \ {0}, NEW p \in Nat, NEW g \in Nat \ {0},
         NEW n \in Nat \ {0}, Bytes(m, f, n) = Bytes(p, g, n)
  PROVE  m = p /\ f = g
<1>1. Bytes(m, f, n)[1] = <<m, f + 1 - 1>> /\ Bytes(p, g, n)[1] = <<p, g + 1 - 1>>
  <2>1. n \in Nat /\ 1 \in 1 .. n
    OBVIOUS
  <2>2. Bytes(m, f, n)[1] = <<m, f + 1 - 1>>
    BY <2>1, BytesShape, ZenonT(40)
  <2>3. Bytes(p, g, n)[1] = <<p, g + 1 - 1>>
    BY <2>1, BytesShape, ZenonT(40)
  <2> QED BY <2>2, <2>3
<1>2. <<m, f + 1 - 1>> = <<p, g + 1 - 1>>
  BY <1>1
<1> QED BY <1>2

\* The three writes of ff_ctl_send, when there is room: the message follows what was there.
LEMMA ThreeWrites ==
  ASSUME NEW out \in Seq(Byte), NEW m \in 1 .. Len(Messages), Len(out) + size(m) <= msize
  PROVE  LET w == sb_write(sb_write(sb_write(out, Header(m)), Name(m)), Data(m))
         IN /\ w \in Seq(Byte) /\ Len(w) = Len(out) + size(m)
            /\ \A i \in 1 .. Len(out) : w[i] = out[i]
            /\ \A k \in 1 .. size(m) : w[Len(out) + k] = <<m, k>>
<1> DEFINE h == Header(m)
           n == Name(m)
           d == Data(m)
           a == Messages[m].nlen
           b == Messages[m].dlen
           w1 == sb_write(out, h)
           w2 == sb_write(w1, n)
           w3 == sb_write(w2, d)
           l == Len(out)
<1>1. /\ a \in Nat \ {0} /\ b \in Nat \ {0} /\ size(m) = 12 + a + b /\ m \in Nat
      /\ l \in Nat /\ msize \in Nat
  BY MessageSize, LenProperties, ChannelAssumption DEF size
<1>2. /\ h \in Seq(Byte) /\ Len(h) = 12 /\ \A k \in 1 .. 12 : h[k] = <<m, k>>
  <2>1. 1 \in Nat \ {0} /\ 12 \in Nat
    OBVIOUS
  <2>2. /\ h \in Seq(Byte) /\ Len(h) = 12 /\ \A k \in 1 .. 12 : h[k] = <<m, 1 + k - 1>>
    BY <1>1, <2>1, BytesShape, ZenonT(40) DEF Header
  <2>3. \A k \in 1 .. 12 : 1 + k - 1 = k
    OBVIOUS
  <2> QED BY <2>2, <2>3
<1>3. /\ n \in Seq(Byte) /\ Len(n) = a /\ \A k \in 1 .. a : n[k] = <<m, 12 + k>>
  <2>1. 13 \in Nat \ {0} /\ a \in Nat
    BY <1>1
  <2>2. /\ n \in Seq(Byte) /\ Len(n) = a /\ \A k \in 1 .. a : n[k] = <<m, 13 + k - 1>>
    BY <1>1, <2>1, BytesShape, ZenonT(40) DEF Name
  <2>3. \A k \in 1 .. a : 13 + k - 1 = 12 + k
    BY <1>1
  <2> QED BY <2>2, <2>3
<1>4. /\ d \in Seq(Byte) /\ Len(d) = b /\ \A k \in 1 .. b : d[k] = <<m, 12 + a + k>>
  <2>1. 13 + a \in Nat \ {0} /\ b \in Nat
    BY <1>1
  <2>2. /\ d \in Seq(Byte) /\ Len(d) = b /\ \A k \in 1 .. b : d[k] = <<m, (13 + a) + k - 1>>
    BY <1>1, <2>1, BytesShape, ZenonT(40) DEF Data
  <2>3. \A k \in 1 .. b : (13 + a) + k - 1 = 12 + a + k
    BY <1>1
  <2> QED BY <2>2, <2>3
<1> HIDE DEF h, n, d, a, b
<1>5. w1 = out \o h
  BY <1>1, <1>2, SMTT(30) DEF sb_write
<1>6. /\ w1 \in Seq(Byte) /\ Len(w1) = l + 12
      /\ \A i \in 1 .. l + 12 : w1[i] = IF i <= l THEN out[i] ELSE h[i - l]
  <2>1. /\ out \o h \in Seq(Byte) /\ Len(out \o h) = l + Len(h)
        /\ \A i \in 1 .. l + Len(h) : (out \o h)[i] = IF i <= l THEN out[i] ELSE h[i - l]
    BY <1>2, ConcatProperties, Zenon
  <2> QED BY <1>2, <1>5, <2>1
<1> HIDE DEF w1
<1>7. w2 = w1 \o n
  BY <1>1, <1>3, <1>6 DEF sb_write
<1>8. /\ w2 \in Seq(Byte) /\ Len(w2) = l + 12 + a
      /\ \A i \in 1 .. l + 12 + a : w2[i] = IF i <= l + 12 THEN w1[i] ELSE n[i - (l + 12)]
  BY <1>3, <1>6, <1>7, ConcatProperties
<1> HIDE DEF w2
<1>9. w3 = w2 \o d
  BY <1>1, <1>4, <1>8 DEF sb_write
<1>10. /\ w3 \in Seq(Byte) /\ Len(w3) = l + 12 + a + b
       /\ \A i \in 1 .. l + 12 + a + b :
            w3[i] = IF i <= l + 12 + a THEN w2[i] ELSE d[i - (l + 12 + a)]
  BY <1>4, <1>8, <1>9, ConcatProperties
<1> HIDE DEF w3, l
<1>11. ASSUME NEW i \in 1 .. l PROVE w3[i] = out[i]
  <2>1. w3[i] = w2[i] /\ w2[i] = w1[i] /\ w1[i] = out[i]
    BY <1>1, <1>6, <1>8, <1>10
  <2> QED BY <2>1
<1>12. ASSUME NEW k \in 1 .. 12 + a + b PROVE w3[l + k] = <<m, k>>
  <2>1. CASE k \in 1 .. 12
    <3>1. w3[l + k] = w2[l + k] /\ w2[l + k] = w1[l + k] /\ w1[l + k] = h[(l + k) - l]
      BY <1>1, <1>6, <1>8, <1>10, <2>1
    <3>2. (l + k) - l = k
      BY <1>1
    <3> QED BY <1>2, <2>1, <3>1, <3>2
  <2>2. CASE k \in 13 .. 12 + a
    <3>1. w3[l + k] = w2[l + k] /\ w2[l + k] = n[(l + k) - (l + 12)]
      BY <1>1, <1>8, <1>10, <2>2
    <3>2. /\ (l + k) - (l + 12) = k - 12 /\ k - 12 \in 1 .. a /\ 12 + (k - 12) = k
      BY <1>1, <2>2
    <3>3. n[k - 12] = <<m, 12 + (k - 12)>>
      BY <1>3, <3>2
    <3> QED BY <3>1, <3>2, <3>3
  <2>3. CASE k \in 13 + a .. 12 + a + b
    <3>1. w3[l + k] = d[(l + k) - (l + 12 + a)]
      BY <1>1, <1>10, <2>3
    <3>2. /\ (l + k) - (l + 12 + a) = k - 12 - a /\ k - 12 - a \in 1 .. b
          /\ 12 + a + (k - 12 - a) = k
      BY <1>1, <2>3
    <3>3. d[k - 12 - a] = <<m, 12 + a + (k - 12 - a)>>
      BY <1>4, <3>2
    <3> QED BY <3>1, <3>2, <3>3
  <2> QED BY <1>1, <2>1, <2>2, <2>3
<1>13. w3 = sb_write(sb_write(sb_write(out, Header(m)), Name(m)), Data(m))
  BY DEF w3, w2, w1, h, n, d
<1>14. Len(w3) = l + size(m) /\ size(m) = 12 + a + b
  BY <1>1, <1>10
<1> QED BY <1>10, <1>11, <1>12, <1>13, <1>14 DEF l

-----------------------------------------------------------------------------
(* The two ends of the connection *)

\* A message that is sent goes to the end of the stream.
LEMMA SendKeeps ==
  ASSUME ChannelInv, Roomy, ff_ctl_send
  PROVE  ChannelInv'
<1> DEFINE m == sent + 1
<1>0. PICK off : /\ Ends(off, sent) /\ Filled(off, sent, sb_in, sb_out)
                 /\ \E k \in 0 .. sent : Place(off, k)
  BY DEF ChannelInv
<1>1. PICK k \in 0 .. sent : /\ Ends(off, sent) /\ Filled(off, sent, sb_in, sb_out)
                             /\ Place(off, k)
  BY <1>0
<1>2. /\ m \in 1 .. Len(Messages) /\ sent \in Nat /\ sent' = m
      /\ Len(sb_out) + size(m) <= msize
      /\ sb_in \in Seq(Byte) /\ sb_out \in Seq(Byte)
  BY LenProperties, ChannelAssumption DEF ChannelInv, Typed, ff_ctl_send, Roomy
<1>3. /\ sb_out' \in Seq(Byte) /\ Len(sb_out') = Len(sb_out) + size(m)
      /\ \A i \in 1 .. Len(sb_out) : sb_out'[i] = sb_out[i]
      /\ \A j \in 1 .. size(m) : sb_out'[Len(sb_out) + j] = <<m, j>>
  <2>1. sb_out' = sb_write(sb_write(sb_write(sb_out, Header(m)), Name(m)), Data(m))
    BY <1>2 DEF ff_ctl_send
  <2> HIDE DEF m
  <2> QED BY <1>2, <2>1, ThreeWrites, Zenon
<1>4. UNCHANGED <<sb_in, ptr, msg, pc, dispatched>>
  BY DEF ff_ctl_send
<1>5. PICK next : next = [j \in 0 .. m |-> IF j <= sent THEN off[j] ELSE off[sent] + size(m)]
  OBVIOUS
<1>6. /\ size(m) \in Nat /\ size(m) >= 14
      /\ Len(sb_in) \in Nat /\ Len(sb_out) \in Nat
  BY <1>2, MessageSize, LenProperties
<1>7. Ends(next, m)
  <2>1. \A j \in 0 .. sent : off[j] \in Nat
    BY <1>1 DEF Ends
  <2>2. next \in [0 .. m -> Nat] /\ next[0] = 0 /\ next[m] = off[sent] + size(m)
        /\ \A j \in 0 .. sent : next[j] = off[j]
    BY <1>1, <1>2, <1>5, <1>6, <2>1 DEF Ends
  <2>3. ASSUME NEW j \in 1 .. m PROVE next[j] = next[j - 1] + size(j)
    <3>1. CASE j = m
      BY <1>2, <2>2, <3>1
    <3>2. CASE j # m
      <4>1. j \in 1 .. sent /\ j - 1 \in 0 .. sent
        BY <1>2, <3>2
      <4>2. off[j] = off[j - 1] + size(j)
        BY <1>1, <4>1 DEF Ends
      <4> QED BY <2>2, <4>1, <4>2
    <3> QED BY <3>1, <3>2
  <2>4. ASSUME NEW a \in 0 .. m, NEW b \in 0 .. m, a < b PROVE next[a] < next[b]
    <3>1. a \in 0 .. sent /\ next[a] = off[a]
      BY <1>2, <2>2, <2>4
    <3>2. off[a] <= off[sent]
      <4>1. sent \in 0 .. sent /\ (a < sent \/ a = sent)
        BY <1>2, <3>1
      <4>2. a < sent => off[a] < off[sent]
        BY <1>1, <3>1, <4>1 DEF Ends
      <4> QED BY <2>1, <3>1, <4>1, <4>2
    <3>3. CASE b = m
      BY <1>2, <1>6, <2>1, <2>2, <3>1, <3>2, <3>3
    <3>4. CASE b # m
      <4>1. b \in 0 .. sent
        BY <1>2, <3>4
      <4>2. off[a] < off[b]
        BY <1>1, <2>4, <3>1, <4>1 DEF Ends
      <4> QED BY <2>2, <3>1, <4>1, <4>2
    <3> QED BY <3>3, <3>4
  <2> QED BY <2>2, <2>3, <2>4 DEF Ends
<1>8. Filled(next, m, sb_in, sb_out')
  <2> DEFINE l == Len(sb_in)
             o == Len(sb_out)
  <2>1. /\ \A i \in 1 .. l + o : (sb_in \o sb_out)[i] = IF i <= l THEN sb_in[i] ELSE sb_out[i - l]
        /\ \A i \in 1 .. l + Len(sb_out') :
             (sb_in \o sb_out')[i] = IF i <= l THEN sb_in[i] ELSE sb_out'[i - l]
    BY <1>2, <1>3, ConcatProperties, Zenon
  <2>2. /\ l + o = off[sent] /\ next[m] = off[sent] + size(m) /\ next[sent] = off[sent]
        /\ \A j \in 0 .. sent : next[j] = off[j] /\ off[j] \in Nat
    BY <1>1, <1>2, <1>5 DEF Filled, Ends
  <2>3. l + Len(sb_out') = next[m]
    BY <1>3, <1>6, <2>2
  <2> HIDE DEF l, o
  <2>4. l \in Nat /\ o \in Nat
    BY <1>6 DEF l, o
  <2>5. ASSUME NEW i \in 1 .. l + o PROVE (sb_in \o sb_out')[i] = (sb_in \o sb_out)[i]
    <3>1. i \in 1 .. l + Len(sb_out')
      BY <1>6, <2>2, <2>3, <2>4
    <3>2. CASE i <= l
      BY <2>1, <3>1, <3>2
    <3>3. CASE ~(i <= l)
      <4>1. i - l \in 1 .. o
        BY <2>4, <3>3
      <4>2. sb_out'[i - l] = sb_out[i - l]
        BY <1>3, <4>1 DEF o
      <4> QED BY <2>1, <3>1, <3>3, <4>2
    <3> QED BY <3>2, <3>3
  <2>6. ASSUME NEW p \in 1 .. m, NEW j \in 1 .. size(p)
        PROVE  (sb_in \o sb_out')[next[p - 1] + j] = <<p, j>>
    <3>1. CASE p = m
      <4>1. next[p - 1] + j = l + o + j /\ l + o + j \in 1 .. l + Len(sb_out')
        BY <1>2, <1>6, <2>2, <2>3, <2>4, <3>1
      <4>2. ~(l + o + j <= l) /\ (l + o + j) - l = o + j
        BY <1>6, <2>4, <3>1
      <4>3. sb_out'[o + j] = <<m, j>>
        BY <1>3, <3>1 DEF o
      <4> QED BY <2>1, <3>1, <4>1, <4>2, <4>3
    <3>2. CASE p # m
      <4>1. p \in 1 .. sent /\ p - 1 \in 0 .. sent /\ p \in 0 .. sent /\ sent \in 0 .. sent
            /\ p \in 1 .. Len(Messages)
        BY <1>2, <3>2
      <4>2. off[p] = off[p - 1] + size(p) /\ off[p] <= off[sent]
        BY <1>1, <2>2, <4>1 DEF Ends
      <4>3. size(p) \in Nat
        BY <4>1, MessageSize
      <4>4. off[p - 1] + j \in 1 .. l + o
        BY <2>2, <4>1, <4>2, <4>3
      <4>5. (sb_in \o sb_out)[off[p - 1] + j] = <<p, j>>
        BY <1>1, <4>1 DEF Filled
      <4> QED BY <2>2, <2>5, <4>1, <4>4, <4>5
    <3> QED BY <3>1, <3>2
  <2> QED BY <2>3, <2>6 DEF Filled, l
<1>9. Place(next, k)'
  <2>1. Len(dispatched) \in Nat
    BY LenProperties DEF ChannelInv, Typed
  <2>2. /\ k \in 0 .. sent' /\ next[k] = off[k]
        /\ Len(dispatched) <= k /\ next[Len(dispatched)] = off[Len(dispatched)]
    BY <1>1, <1>2, <1>5, <2>1 DEF Place
  <2> HIDE DEF m
  <2> QED BY <1>1, <1>4, <2>2 DEF Place
<1>10. Typed' /\ InOrder'
  BY <1>2, <1>3, <1>4 DEF ChannelInv, Typed, InOrder
<1>11. k \in 0 .. sent' /\ Ends(next, sent') /\ Filled(next, sent', sb_in', sb_out')
  BY <1>2, <1>4, <1>7, <1>8
<1> QED BY <1>9, <1>10, <1>11 DEF ChannelInv

\* All of sb_out arrives: the stream is the same, and sb_in holds all of it.
LEMMA DeliverKeeps ==
  ASSUME ChannelInv, ~Fragments, Deliver
  PROVE  ChannelInv'
<1>0. PICK off : /\ Ends(off, sent) /\ Filled(off, sent, sb_in, sb_out)
                 /\ \E k \in 0 .. sent : Place(off, k)
  BY DEF ChannelInv
<1>1. PICK k \in 0 .. sent : /\ Ends(off, sent) /\ Filled(off, sent, sb_in, sb_out)
                             /\ Place(off, k)
  BY <1>0
<1>2. /\ sb_in \in Seq(Byte) /\ sb_out \in Seq(Byte) /\ Len(sb_out) \in Nat
      /\ sent \in Nat /\ Len(sb_in) \in Nat /\ pc = "idle" /\ pc' = "loop"
      /\ UNCHANGED <<sent, ptr, msg, dispatched>>
  BY LenProperties, ChannelAssumption DEF ChannelInv, Typed, Deliver
<1>3. /\ sb_in' = sb_in \o SubSeq(sb_out, 1, Len(sb_out))
      /\ sb_out' = SubSeq(sb_out, Len(sb_out) + 1, Len(sb_out))
  BY DEF Deliver
<1>4. sb_in' = sb_in \o sb_out /\ sb_out' = <<>>
  BY <1>2, <1>3, SubSeqFull, SubSeqEmpty
<1>5. /\ sb_in' \in Seq(Byte) /\ sb_out' \in Seq(Byte) /\ Len(sb_out') = 0
      /\ Len(sb_in') = Len(sb_in) + Len(sb_out) /\ sb_in' \o sb_out' = sb_in \o sb_out
  BY <1>2, <1>4, ConcatProperties, ConcatEmptySeq, EmptySeq
<1>6. Filled(off, sent', sb_in', sb_out')
  <2>1. Len(sb_in') + Len(sb_out') = off[sent]
    BY <1>1, <1>2, <1>5 DEF Filled
  <2>2. \A m \in 1 .. sent : \A j \in 1 .. size(m) : (sb_in' \o sb_out')[off[m - 1] + j] = <<m, j>>
    BY <1>1, <1>5, Zenon DEF Filled
  <2> QED BY <1>2, <2>1, <2>2 DEF Filled
<1>7. Place(off, sent)'
  <2>1. Len(sb_in') = off[sent'] /\ sent' = sent
    BY <1>1, <1>2, <1>5 DEF Filled
  <2>2. /\ k \in 0 .. sent /\ Len(dispatched) <= k
        /\ ptr = off[Len(dispatched)] /\ msg = NoMsg
    BY <1>1, <1>2 DEF Place
  <2>3. Len(dispatched) \in Nat
    BY LenProperties DEF ChannelInv, Typed
  <2> QED BY <1>2, <2>1, <2>2, <2>3 DEF Place
<1>8. Typed' /\ InOrder'
  BY <1>2, <1>5 DEF ChannelInv, Typed, InOrder
<1>9. sent \in 0 .. sent' /\ Ends(off, sent')
  BY <1>1, <1>2
<1> QED BY <1>2, <1>6, <1>7, <1>8, <1>9 DEF ChannelInv

-----------------------------------------------------------------------------
(* The parser *)

\* The arithmetic of a place inside a message: base is where the message begins.
LEMMA Inside ==
  ASSUME NEW base \in Nat, NEW total \in Nat, NEW from \in Nat, from > 0, NEW n \in Nat,
         from + n - 1 <= total, NEW stop \in Nat, base + total <= stop,
         NEW p \in Nat, p = base + from - 1
  PROVE  /\ p + n <= stop /\ (from + n - 1 < total => p + n < stop)
         /\ \A j \in 1 .. n : /\ (p + 1) + j - 1 = base + (from + j - 1)
                              /\ (p + 1) + j - 1 \in 1 .. stop
                              /\ from + j - 1 \in 1 .. total
  OBVIOUS

\* Where the parser reads inside the next message, it finds the bytes of that message.
LEMMA PeekPiece ==
  ASSUME Typed, NEW off, Ends(off, sent), Filled(off, sent, sb_in, sb_out),
         NEW k \in 0 .. sent, Len(sb_in) = off[k],
         NEW d \in Nat, d < k, NEW from \in Nat \ {0}, NEW n \in Nat,
         from + n - 1 <= size(d + 1), ptr = off[d] + from - 1
  PROVE  /\ Peek(n) = Bytes(d + 1, from, n)
         /\ ptr + n <= end /\ (from + n - 1 < size(d + 1) => ptr + n < end)
<1>1. /\ sent \in Nat /\ sent <= Len(Messages) /\ Len(Messages) \in Nat
      /\ sb_in \in Seq(Byte) /\ sb_out \in Seq(Byte) /\ Len(sb_in) \in Nat /\ Len(sb_out) \in Nat
  BY LenProperties, ChannelAssumption DEF Typed
<1>2. /\ d + 1 \in 1 .. sent /\ d + 1 \in 0 .. sent /\ d \in 0 .. sent
      /\ d + 1 \in 1 .. Len(Messages) /\ (d + 1) - 1 = d
  BY <1>1
<1>3. size(d + 1) \in Nat
  BY <1>2, MessageSize
<1>4. off[d] \in Nat /\ off[d + 1] \in Nat /\ off[k] \in Nat /\ off[d + 1] = off[d] + size(d + 1)
  BY <1>2 DEF Ends
<1>5. off[d + 1] <= off[k]
  <2>1. d + 1 < k => off[d + 1] < off[k]
    BY <1>2 DEF Ends
  <2> QED BY <1>4, <2>1
<1>6. end = off[k] /\ ptr \in Nat
  BY DEF end, Typed
<1>r. /\ ptr + n <= end /\ (from + n - 1 < size(d + 1) => ptr + n < end)
      /\ \A j \in 1 .. n : /\ (ptr + 1) + j - 1 = off[d] + (from + j - 1)
                           /\ (ptr + 1) + j - 1 \in 1 .. end
                           /\ from + j - 1 \in 1 .. size(d + 1)
  <2>1. from \in Nat /\ from > 0 /\ off[d] + size(d + 1) <= end /\ end \in Nat
    BY <1>4, <1>5, <1>6
  <2>2. PICK base, total, stop : base = off[d] /\ total = size(d + 1) /\ stop = end
    OBVIOUS
  <2>3. /\ base \in Nat /\ total \in Nat /\ stop \in Nat /\ ptr \in Nat
        /\ base + total <= stop /\ ptr = base + from - 1 /\ from + n - 1 <= total
    BY <1>3, <1>4, <1>6, <2>1, <2>2
  <2>4. /\ ptr + n <= stop /\ (from + n - 1 < total => ptr + n < stop)
        /\ \A j \in 1 .. n : /\ (ptr + 1) + j - 1 = base + (from + j - 1)
                             /\ (ptr + 1) + j - 1 \in 1 .. stop
                             /\ from + j - 1 \in 1 .. total
    BY <2>1, <2>3, Inside, SMTT(20)
  <2> QED BY <2>2, <2>4
<1>7. ptr + n <= end /\ (from + n - 1 < size(d + 1) => ptr + n < end)
  BY <1>r
<1>8. ASSUME NEW j \in 1 .. n PROVE sb_in[(ptr + 1) + j - 1] = <<d + 1, from + j - 1>>
  <2>1. from + j - 1 \in 1 .. size(d + 1)
    BY <1>r
  <2>2. (sb_in \o sb_out)[off[d] + (from + j - 1)] = <<d + 1, from + j - 1>>
    BY <1>2, <2>1 DEF Filled
  <2>3. (ptr + 1) + j - 1 = off[d] + (from + j - 1) /\ (ptr + 1) + j - 1 \in 1 .. Len(sb_in)
    BY <1>r DEF end
  <2>4. \A i \in 1 .. Len(sb_in) + Len(sb_out) :
          (sb_in \o sb_out)[i] = IF i <= Len(sb_in) THEN sb_in[i] ELSE sb_out[i - Len(sb_in)]
    BY <1>1, ConcatProperties
  <2>5. (sb_in \o sb_out)[(ptr + 1) + j - 1] = sb_in[(ptr + 1) + j - 1]
    BY <1>1, <2>3, <2>4
  <2> QED BY <2>2, <2>3, <2>5
<1>9. /\ Peek(n) \in Seq(Byte) /\ Len(Peek(n)) = n
      /\ \A j \in 1 .. n : Peek(n)[j] = <<d + 1, from + j - 1>>
  <2> DEFINE a == ptr + 1
             b == ptr + n
  <2>1. a \in Int /\ b \in Int /\ b - a + 1 = n /\ (a <= b => n = b - a + 1) /\ (a > b => n = 0)
    <3>1. ptr \in Nat
      BY <1>6
    <3> QED BY <3>1
  <2>2. \A i \in a .. b : sb_in[i] \in Byte
    <3>1. \A i \in a .. b : i \in 1 .. Len(sb_in)
      BY <1>6, <1>7 DEF end
    <3> QED BY <1>1, <3>1, ElementOfSeq
  <2> HIDE DEF a, b
  <2>3. /\ SubSeq(sb_in, a, b) \in Seq(Byte)
        /\ Len(SubSeq(sb_in, a, b)) = IF a <= b THEN b - a + 1 ELSE 0
        /\ \A i \in 1 .. b - a + 1 : SubSeq(sb_in, a, b)[i] = sb_in[a + i - 1]
    BY <2>1, <2>2, SubSeqProperties
  <2>4. Peek(n) = SubSeq(sb_in, a, b)
    BY DEF Peek, a, b
  <2>5. Len(Peek(n)) = n
    BY <2>1, <2>3, <2>4
  <2>6. ASSUME NEW j \in 1 .. n PROVE Peek(n)[j] = <<d + 1, from + j - 1>>
    <3>1. Peek(n)[j] = sb_in[a + j - 1]
      BY <2>1, <2>3, <2>4
    <3> QED BY <1>8, <3>1 DEF a
  <2> QED BY <2>3, <2>4, <2>5, <2>6
<1>10. /\ Bytes(d + 1, from, n) \in Seq(Byte) /\ Len(Bytes(d + 1, from, n)) = n
       /\ \A j \in 1 .. n : Bytes(d + 1, from, n)[j] = <<d + 1, from + j - 1>>
  <2>1. d + 1 \in Nat
    OBVIOUS
  <2> QED BY <2>1, BytesShape, ZenonT(40)
<1>11. Peek(n) = Bytes(d + 1, from, n)
  <2> DEFINE s == Peek(n)
             t == Bytes(d + 1, from, n)
  <2>1. s \in Seq(Byte) /\ t \in Seq(Byte) /\ Len(s) = Len(t)
        /\ \A j \in 1 .. Len(s) : s[j] = t[j]
    BY <1>9, <1>10
  <2> HIDE DEF s, t
  <2>2. s = t
    BY <2>1, SeqEqual
  <2> QED BY <2>2 DEF s, t
<1> QED BY <1>7, <1>11

\* AV_RB32 at the place of nlen or of dlen reads that length and nothing else.
LEMMA FieldRead ==
  ASSUME Typed, NEW p \in 1 .. sent, ptr + 4 <= end
  PROVE  /\ Peek(4) = Bytes(p, 5, 4) => Field = {Messages[p].nlen}
         /\ Peek(4) = Bytes(p, 9, 4) => Field = {Messages[p].dlen}
<1> DEFINE read == {m \in 1 .. sent : ptr + 4 <= end
                                      /\ Peek(4) \in {Bytes(m, 5, 4), Bytes(m, 9, 4)}}
<1>1. sent \in Nat /\ p \in Nat
  BY ChannelAssumption, LenProperties DEF Typed
<1>2. /\ 5 \in Nat \ {0} /\ 9 \in Nat \ {0} /\ 4 \in Nat \ {0} /\ 5 # 9
      /\ \A m \in 1 .. sent : m \in Nat
  BY <1>1
<1>3. ASSUME NEW m \in 1 .. sent
      PROVE  /\ Bytes(p, 5, 4) = Bytes(m, 5, 4) => p = m
             /\ Bytes(p, 9, 4) = Bytes(m, 9, 4) => p = m
             /\ Bytes(p, 5, 4) # Bytes(m, 9, 4) /\ Bytes(p, 9, 4) # Bytes(m, 5, 4)
  <2>0. m \in Nat
    BY <1>2
  <2>1. Bytes(p, 5, 4) = Bytes(m, 5, 4) => p = m
    BY <1>1, <1>2, <2>0, BytesEqual
  <2>2. Bytes(p, 9, 4) = Bytes(m, 9, 4) => p = m
    BY <1>1, <1>2, <2>0, BytesEqual
  <2>3. Bytes(p, 5, 4) # Bytes(m, 9, 4) /\ Bytes(p, 9, 4) # Bytes(m, 5, 4)
    BY <1>1, <1>2, <2>0, BytesEqual
  <2> QED BY <2>1, <2>2, <2>3
<1>4. Field = IF read = {} THEN Garbage
              ELSE {IF Peek(4) = Bytes(m, 5, 4) THEN Messages[m].nlen ELSE Messages[m].dlen : m \in read}
  BY DEF Field
<1>5. CASE Peek(4) = Bytes(p, 5, 4)
  <2>1. read = {p}
    BY <1>3, <1>5
  <2> HIDE DEF read
  <2> QED BY <1>3, <1>4, <1>5, <2>1
<1>6. CASE Peek(4) = Bytes(p, 9, 4)
  <2>1. read = {p}
    BY <1>3, <1>6
  <2> HIDE DEF read
  <2> QED BY <1>3, <1>4, <1>6, <2>1
<1> QED BY <1>5, <1>6

\* What each label of ff_ctl_recv finds, and the invariant after it.
LEMMA ParserKeeps ==
  ASSUME ChannelInv, ff_ctl_recv
  PROVE  ChannelInv'
<1>0. PICK off : /\ Ends(off, sent) /\ Filled(off, sent, sb_in, sb_out)
                 /\ \E k \in 0 .. sent : Place(off, k)
  BY DEF ChannelInv
<1>1. PICK k \in 0 .. sent : Place(off, k)
  BY <1>0
<1>2. PICK d : d = Len(dispatched)
  OBVIOUS
<1>3. UNCHANGED <<sent, sb_out, sb_in>> /\ Typed /\ InOrder
  BY DEF ChannelInv, ff_ctl_recv, Loop, Scan, ReadLength, ReadName, ReadData, At
<1>4. /\ sent \in Nat /\ sent <= Len(Messages) /\ Len(Messages) \in Nat /\ d \in Nat /\ d <= k
      /\ dispatched \in Seq(Calls) /\ Len(sb_in) = off[k] /\ end = off[k] /\ end' = end
  BY <1>1, <1>2, <1>3, LenProperties, ChannelAssumption DEF Typed, Place, end
<1>5. /\ Ends(off, sent') /\ Filled(off, sent', sb_in', sb_out') /\ k \in 0 .. sent'
  BY <1>0, <1>3
<1>6. SUFFICES Place(off, k)' /\ Typed' /\ InOrder'
  BY <1>5 DEF ChannelInv
<1> DEFINE m == Messages[d + 1]
<1>7. ASSUME d < k
      PROVE  /\ d + 1 \in 1 .. sent /\ d + 1 \in 1 .. Len(Messages)
             /\ m.nlen \in Nat \ {0} /\ m.dlen \in Nat \ {0} /\ size(d + 1) = 12 + m.nlen + m.dlen
             /\ off[d] \in Nat /\ off[d + 1] \in Nat /\ off[d + 1] = off[d] + size(d + 1)
  <2>1. d + 1 \in 1 .. sent /\ d + 1 \in 1 .. Len(Messages) /\ (d + 1) - 1 = d /\ d \in 0 .. sent
        /\ d + 1 \in 0 .. sent
    BY <1>4, <1>7
  <2>2. off[d] \in Nat /\ off[d + 1] \in Nat /\ off[d + 1] = off[d] + size(d + 1)
    BY <1>0, <2>1 DEF Ends
  <2> QED BY <2>1, <2>2, MessageSize DEF size
<1>8. ASSUME d < k, NEW from \in Nat \ {0}, NEW n \in Nat, from + n - 1 <= size(d + 1),
             ptr = off[d] + from - 1
      PROVE  /\ Peek(n) = Bytes(d + 1, from, n)
             /\ ptr + n <= end /\ (from + n - 1 < size(d + 1) => ptr + n < end)
  BY <1>0, <1>3, <1>4, <1>8, PeekPiece
<1> HIDE DEF m
<1>9. CASE Loop
  <2>1. /\ pc = "loop" /\ ptr = off[d] /\ msg = NoMsg
        /\ UNCHANGED <<ptr, msg, dispatched>>
    BY <1>1, <1>2, <1>9 DEF Place, Loop, At
  <2>2. CASE d < k
    <3>1. ptr + 4 < end
      <4>1. 1 + 5 - 1 <= size(d + 1) /\ 1 \in Nat \ {0} /\ 5 \in Nat /\ ptr = off[d] + 1 - 1
        BY <1>7, <2>1, <2>2
      <4>2. ptr + 5 <= end
        BY <1>8, <2>2, <4>1
      <4>3. ptr \in Nat /\ end \in Nat
        BY <1>3, LenProperties DEF Typed, end
      <4> QED BY <4>2, <4>3
    <3>2. pc' = "scan"
      <4>1. /\ msg.name = <<>> /\ msg.dlen = 0 /\ msg.nlen = 0 /\ msg.cmd = 0
        BY <2>1 DEF NoMsg
      <4>2. ~(ptr + 4 >= end)
        <5>1. ptr \in Nat /\ end \in Nat
          BY <1>3, LenProperties DEF Typed, end
        <5> QED BY <3>1, <5>1
      <4> QED BY <1>9, <3>1, <4>1, <4>2 DEF Loop
    <3> QED BY <1>1, <1>2, <1>3, <1>4, <2>1, <2>2, <3>2 DEF Place, Typed, InOrder
  <2>3. CASE d = k
    <3>1. ptr + 4 >= end
      BY <1>3, <1>4, <2>1, <2>3 DEF Typed
    <3>2. pc' = "idle"
      <4>1. end \in Nat /\ ptr \in Nat
        BY <1>3, LenProperties DEF Typed, end
      <4> QED BY <1>9, <3>1, <4>1 DEF Loop
    <3> QED BY <1>1, <1>2, <1>3, <1>4, <2>1, <2>3, <3>2 DEF Place, Typed, InOrder
  <2> QED BY <1>4, <2>2, <2>3
<1>10. CASE Scan
  <2>1. pc = "scan" /\ d < k /\ ptr = off[d] /\ msg = NoMsg /\ UNCHANGED dispatched
    BY <1>1, <1>2, <1>4, <1>10 DEF Place, Scan, At
  <2>2. Peek(3) = Bytes(d + 1, 1, 3)
    <3>1. 1 + 3 - 1 <= size(d + 1) /\ 1 \in Nat \ {0} /\ 3 \in Nat /\ ptr = off[d] + 1 - 1
      BY <1>7, <2>1
    <3> QED BY <1>8, <2>1, <3>1
  <2>3. PICK p \in 1 .. sent : /\ Peek(3) = Bytes(p, 1, 3)
                               /\ msg' = [msg EXCEPT !.cmd = p] /\ ptr' = ptr + 4 /\ pc' = "nlen"
    BY <1>7, <1>10, <2>1, <2>2 DEF Scan
  <2>4. p = d + 1
    <3>1. p \in Nat /\ d + 1 \in Nat /\ 1 \in Nat \ {0} /\ 3 \in Nat \ {0}
      BY <1>4
    <3> QED BY <2>2, <2>3, <3>1, BytesEqual
  <2>5. msg' = Read(d + 1, 0, 0, <<>>)
    BY <2>1, <2>3, <2>4 DEF NoMsg, Read
  <2>6. ptr' = off[d] + 4 /\ ptr' \in Nat
    BY <1>7, <2>1, <2>3
  <2> QED BY <1>1, <1>2, <1>3, <1>4, <2>1, <2>3, <2>5, <2>6 DEF Place, Typed, InOrder
<1>11. CASE ReadLength("nlen", "dlen")
  <2>1. /\ pc = "nlen" /\ d < k /\ ptr = off[d] + 4 /\ msg = Read(d + 1, 0, 0, <<>>)
        /\ UNCHANGED dispatched
    BY <1>1, <1>2, <1>4, <1>11 DEF Place, ReadLength, At
  <2>2. Peek(4) = Bytes(d + 1, 5, 4) /\ ptr + 4 < end
    <3>1. /\ 5 + 4 - 1 <= size(d + 1) /\ 5 + 4 - 1 < size(d + 1) /\ 5 \in Nat \ {0} /\ 4 \in Nat
          /\ ptr = off[d] + 5 - 1
      BY <1>7, <2>1
    <3> QED BY <1>8, <2>1, <3>1
  <2>3. ptr \in Nat /\ end \in Nat
    BY <1>3, LenProperties DEF Typed, end
  <2>4. Field = {m.nlen}
    <3>1. d + 1 \in 1 .. sent /\ ptr + 4 <= end
      BY <1>7, <2>1, <2>2, <2>3
    <3> QED BY <1>3, <2>2, <3>1, FieldRead, Zenon DEF m
  <2>5. msg' = [msg EXCEPT !.nlen = m.nlen] /\ ptr' = ptr + 4 /\ pc' = "dlen"
    BY <1>4, <1>11, <2>2, <2>3, <2>4 DEF ReadLength
  <2>6. msg' = Read(d + 1, m.nlen, 0, <<>>) /\ ptr' = off[d] + 8 /\ ptr' \in Nat
    <3>1. msg' = Read(d + 1, m.nlen, 0, <<>>)
      BY <2>1, <2>5 DEF Read
    <3>2. off[d] \in Nat /\ ptr' = off[d] + 4 + 4
      BY <1>7, <2>1, <2>5
    <3> QED BY <3>1, <3>2
  <2> QED BY <1>1, <1>2, <1>3, <1>4, <2>1, <2>5, <2>6 DEF Place, Typed, InOrder, m
<1>12. CASE ReadLength("dlen", "name")
  <2>1. /\ pc = "dlen" /\ d < k /\ ptr = off[d] + 8 /\ msg = Read(d + 1, m.nlen, 0, <<>>)
        /\ UNCHANGED dispatched
    BY <1>1, <1>2, <1>4, <1>12 DEF Place, ReadLength, At, m
  <2>2. Peek(4) = Bytes(d + 1, 9, 4) /\ ptr + 4 < end
    <3>1. /\ 9 + 4 - 1 <= size(d + 1) /\ 9 + 4 - 1 < size(d + 1) /\ 9 \in Nat \ {0} /\ 4 \in Nat
          /\ ptr = off[d] + 9 - 1
      BY <1>7, <2>1
    <3> QED BY <1>8, <2>1, <3>1
  <2>3. ptr \in Nat /\ end \in Nat
    BY <1>3, LenProperties DEF Typed, end
  <2>4. Field = {m.dlen}
    <3>1. d + 1 \in 1 .. sent /\ ptr + 4 <= end
      BY <1>7, <2>1, <2>2, <2>3
    <3> QED BY <1>3, <2>2, <3>1, FieldRead, Zenon DEF m
  <2>5. msg' = [msg EXCEPT !.dlen = m.dlen] /\ ptr' = ptr + 4 /\ pc' = "name"
    BY <1>4, <1>12, <2>2, <2>3, <2>4 DEF ReadLength
  <2>6. msg' = Read(d + 1, m.nlen, m.dlen, <<>>) /\ ptr' = off[d] + 12 /\ ptr' \in Nat
    <3>1. msg' = Read(d + 1, m.nlen, m.dlen, <<>>)
      BY <2>1, <2>5 DEF Read
    <3>2. off[d] \in Nat /\ ptr' = off[d] + 8 + 4
      BY <1>7, <2>1, <2>5
    <3> QED BY <3>1, <3>2
  <2> QED BY <1>1, <1>2, <1>3, <1>4, <2>1, <2>5, <2>6 DEF Place, Typed, InOrder, m
<1>13. CASE ReadName
  <2>1. /\ pc = "name" /\ d < k /\ ptr = off[d] + 12 /\ msg = Read(d + 1, m.nlen, m.dlen, <<>>)
        /\ UNCHANGED dispatched
    BY <1>1, <1>2, <1>4, <1>13 DEF Place, ReadName, At, m
  <2>2. Peek(m.nlen) = Bytes(d + 1, 13, m.nlen) /\ ptr + m.nlen < end
    <3>1. /\ 13 + m.nlen - 1 <= size(d + 1) /\ 13 + m.nlen - 1 < size(d + 1)
          /\ 13 \in Nat \ {0} /\ m.nlen \in Nat /\ ptr = off[d] + 13 - 1
      BY <1>7, <2>1
    <3> QED BY <1>8, <2>1, <3>1
  <2>3. ptr \in Nat /\ end \in Nat /\ m.nlen \in Nat /\ m.nlen > 0
    BY <1>3, <1>7, <2>1, LenProperties DEF Typed, end
  <2>4. msg.nlen = m.nlen
    BY <2>1 DEF Read
  <2>5. /\ msg' = [msg EXCEPT !.name = Peek(m.nlen)] /\ ptr' = ptr + m.nlen /\ pc' = "data"
    BY <1>4, <1>13, <2>2, <2>3, <2>4 DEF ReadName
  <2>6. Peek(m.nlen) = Name(d + 1)
    BY <2>2 DEF Name, m
  <2>7. msg' = Read(d + 1, m.nlen, m.dlen, Name(d + 1)) /\ ptr' = off[d] + 12 + m.nlen
        /\ ptr' \in Nat
    <3>1. msg' = Read(d + 1, m.nlen, m.dlen, Name(d + 1))
      BY <2>1, <2>5, <2>6 DEF Read
    <3>2. ptr' = off[d] + 12 + m.nlen /\ ptr' \in Nat
      BY <2>1, <2>3, <2>5
    <3> QED BY <3>1, <3>2
  <2> QED BY <1>1, <1>2, <1>3, <1>4, <2>1, <2>5, <2>7 DEF Place, Typed, InOrder, m
<1>14. CASE ReadData
  <2>1. /\ pc = "data" /\ d < k /\ ptr = off[d] + 12 + m.nlen
        /\ msg = Read(d + 1, m.nlen, m.dlen, Name(d + 1))
    BY <1>1, <1>2, <1>4, <1>14 DEF Place, ReadData, At, m
  <2>2. Peek(m.dlen) = Bytes(d + 1, 13 + m.nlen, m.dlen) /\ ptr + m.dlen <= end
    <3>1. /\ (13 + m.nlen) + m.dlen - 1 <= size(d + 1)
          /\ 13 + m.nlen \in Nat \ {0} /\ m.dlen \in Nat /\ ptr = off[d] + (13 + m.nlen) - 1
      <4>1. PICK a, b : a = m.nlen /\ b = m.dlen
        OBVIOUS
      <4>2. /\ a \in Nat /\ b \in Nat /\ size(d + 1) = 12 + a + b /\ off[d] \in Nat
            /\ ptr = off[d] + 12 + a
        BY <1>7, <2>1, <4>1
      <4>3. /\ (13 + a) + b - 1 <= 12 + a + b /\ 13 + a \in Nat \ {0}
            /\ ptr = off[d] + (13 + a) - 1
        BY <4>2
      <4> QED BY <4>1, <4>2, <4>3
    <3> QED BY <1>8, <2>1, <3>1
  <2>3. ptr \in Nat /\ end \in Nat /\ m.dlen \in Nat /\ m.dlen > 0
    BY <1>3, <1>7, <2>1, LenProperties DEF Typed, end
  <2>4. msg.cmd = d + 1 /\ msg.name = Name(d + 1) /\ msg.dlen = m.dlen
    BY <2>1 DEF Read
  <2>5. /\ dispatched' = Append(dispatched, <<d + 1, Name(d + 1), Peek(m.dlen)>>)
        /\ ptr' = ptr + m.dlen /\ msg' = NoMsg /\ pc' = "loop"
    BY <1>14, <2>2, <2>3, <2>4 DEF ReadData
  <2>6. Peek(m.dlen) = Data(d + 1)
    BY <2>2 DEF Data, m
  <2>7. dispatched' = Append(dispatched, Call(d + 1)) /\ Call(d + 1) \in Calls
    BY <1>7, <2>1, <2>5, <2>6 DEF Call, Calls
  <2>8. /\ dispatched' \in Seq(Calls) /\ Len(dispatched') = d + 1
        /\ \A i \in 1 .. d : dispatched'[i] = dispatched[i]
        /\ dispatched'[d + 1] = Call(d + 1)
    BY <1>2, <1>4, <2>7, AppendProperties
  <2>9. ptr' = off[d + 1] /\ ptr' \in Nat
    <3>1. PICK a, b : a = m.nlen /\ b = m.dlen
      OBVIOUS
    <3>2. /\ off[d] \in Nat /\ a \in Nat /\ b \in Nat /\ ptr' = (off[d] + 12 + a) + b
          /\ off[d + 1] = off[d] + (12 + a + b)
      BY <1>7, <2>1, <2>5, <3>1
    <3> QED BY <3>2
  <2>10. InOrder'
    <3>1. \A i \in 1 .. d + 1 : i \in 1 .. d \/ i = d + 1
      BY <1>4
    <3> QED BY <1>2, <1>3, <2>8, <3>1 DEF InOrder, Call
  <2>11. Place(off, k)'
    BY <1>1, <1>3, <1>4, <2>1, <2>5, <2>8, <2>9 DEF Place
  <2> QED BY <1>3, <2>5, <2>8, <2>9, <2>10, <2>11 DEF Typed
<1> QED BY <1>9, <1>10, <1>11, <1>12, <1>13, <1>14 DEF ff_ctl_recv

-----------------------------------------------------------------------------
LEMMA ChannelStarts == Init => ChannelInv
<1> SUFFICES ASSUME Init PROVE ChannelInv
  OBVIOUS
<1>1. PICK off : off = [j \in 0 .. 0 |-> 0]
  OBVIOUS
<1>2. Ends(off, sent)
  BY <1>1 DEF Ends, Init
<1>3. Filled(off, sent, sb_in, sb_out)
  BY <1>1 DEF Filled, Init
<1>4. Place(off, 0)
  BY <1>1 DEF Place, Init
<1>5. Typed /\ InOrder
  BY LenProperties, ChannelAssumption DEF Typed, InOrder, Init
<1>6. 0 \in 0 .. sent
  BY DEF Init
<1> QED BY <1>2, <1>3, <1>4, <1>5, <1>6 DEF ChannelInv

LEMMA ChannelMeans == ChannelInv => DispatchedAsSent
<1> SUFFICES ASSUME ChannelInv PROVE DispatchedAsSent
  OBVIOUS
<1>0. PICK off : /\ Ends(off, sent) /\ Filled(off, sent, sb_in, sb_out)
                 /\ \E k \in 0 .. sent : Place(off, k)
  BY DEF ChannelInv
<1>1. PICK k \in 0 .. sent : Place(off, k)
  BY <1>0
<1> DEFINE n == Len(dispatched)
           calls == [m \in 1 .. sent |-> <<m, Name(m), Data(m)>>]
<1>2. /\ sent \in Nat /\ sent <= Len(Messages) /\ n \in Nat /\ n <= k /\ n <= sent
      /\ dispatched \in Seq(Calls) /\ sb_in \in Seq(Byte)
  BY <1>1, LenProperties, ChannelAssumption DEF ChannelInv, Typed, Place
<1>3. calls \in Seq(Calls) /\ Len(calls) = sent /\ \A i \in 1 .. sent : calls[i] = Call(i)
  <2>1. calls \in [1 .. sent -> Calls]
    BY <1>2 DEF Calls, Call
  <2>2. \A i \in 1 .. sent : calls[i] = Call(i)
    BY DEF Call
  <2> HIDE DEF calls
  <2> QED BY <1>2, <2>1, <2>2
<1> HIDE DEF calls
<1>4. \A i \in 1 .. n : dispatched[i] = calls[i] /\ dispatched[i] \in Calls /\ calls[i] \in Calls
  <2>1. \A i \in 1 .. n : i \in 1 .. sent
    BY <1>2
  <2> QED BY <1>2, <1>3, <2>1, ElementOfSeq DEF ChannelInv, InOrder
<1>5. SubSeq(dispatched, 1, n) = SubSeq(calls, 1, n)
  <2> DEFINE s == SubSeq(dispatched, 1, n)
             t == SubSeq(calls, 1, n)
  <2> HIDE DEF n
  <2>1. /\ s \in Seq(Calls) /\ Len(s) = IF 1 <= n THEN n - 1 + 1 ELSE 0
        /\ \A i \in 1 .. n - 1 + 1 : s[i] = dispatched[1 + i - 1]
    BY <1>2, <1>4, SubSeqProperties
  <2>2. /\ t \in Seq(Calls) /\ Len(t) = IF 1 <= n THEN n - 1 + 1 ELSE 0
        /\ \A i \in 1 .. n - 1 + 1 : t[i] = calls[1 + i - 1]
    BY <1>2, <1>4, SubSeqProperties
  <2> HIDE DEF s, t
  <2>3. n - 1 + 1 = n /\ Len(s) = n /\ Len(t) = n /\ \A i \in 1 .. n : 1 + i - 1 = i
    BY <1>2, <2>1, <2>2
  <2>4. \A i \in 1 .. Len(s) : s[i] = t[i]
    BY <1>4, <2>1, <2>2, <2>3
  <2>5. s = t
    BY <2>1, <2>2, <2>3, <2>4, SeqEqual
  <2> QED BY <2>5 DEF s, t
<1>6. IsPrefix(dispatched, calls)
  BY <1>2, <1>3, <1>5 DEF IsPrefix
<1>7. ASSUME pc = "idle", sb_out = <<>> PROVE n = sent
  <2>1. Len(sb_in) = off[k] /\ n = k
    BY <1>1, <1>7 DEF Place
  <2>2. Len(sb_in) + Len(sb_out) = off[sent]
    BY <1>0 DEF Filled
  <2>3. Len(sb_out) = 0 /\ Len(sb_in) \in Nat
    BY <1>2, <1>7, EmptySeq, LenProperties
  <2>4. k < sent => off[k] < off[sent]
    <3>1. sent \in 0 .. sent
      BY <1>2
    <3> QED BY <1>0, <3>1 DEF Ends
  <2>5. off[k] = off[sent]
    BY <2>1, <2>2, <2>3
  <2> QED BY <1>2, <2>1, <2>3, <2>4, <2>5
<1> QED BY <1>6, <1>7 DEF DispatchedAsSent, calls

\* ff_ctl_send, ff_ctl_recv: for every sequence of messages with a name and data, every
\* size of the buffers and every garbage, the callback is given the messages as they were
\* sent, in order and none left behind, as long as a delivery brings all that was sent and
\* sb_out has room for each message.
THEOREM ChannelDispatches ==
  ASSUME ~Fragments
  PROVE  Spec /\ [][Roomy]_vars => []DispatchedAsSent
<1>1. ASSUME ChannelInv, [Next]_vars, [Roomy]_vars PROVE ChannelInv'
  <2>1. CASE ff_ctl_send
    <3>1. Roomy
      BY <1>1, <2>1, LenProperties, ChannelAssumption DEF vars, ff_ctl_send, ChannelInv, Typed
    <3> QED BY <1>1, <2>1, <3>1, SendKeeps
  <2>2. CASE Deliver
    BY <1>1, <2>2, DeliverKeeps
  <2>3. CASE ff_ctl_recv
    BY <1>1, <2>3, ParserKeeps
  <2>4. CASE UNCHANGED vars
    <3>1. /\ sent' = sent /\ sb_in' = sb_in /\ sb_out' = sb_out /\ ptr' = ptr /\ msg' = msg
          /\ pc' = pc /\ dispatched' = dispatched
      BY <2>4 DEF vars
    <3>2. Typed' /\ InOrder'
      BY <1>1, <3>1 DEF ChannelInv, Typed, InOrder
    <3>3. PICK off : /\ Ends(off, sent) /\ Filled(off, sent, sb_in, sb_out)
                     /\ \E k \in 0 .. sent : Place(off, k)
      BY <1>1 DEF ChannelInv
    <3>4. PICK k \in 0 .. sent : Place(off, k)
      BY <3>3
    <3>5. Place(off, k)'
      BY <3>1, <3>4 DEF Place
    <3> QED BY <3>1, <3>2, <3>3, <3>5 DEF ChannelInv
  <2> QED BY <1>1, <2>1, <2>2, <2>3, <2>4 DEF Next
<1> QED BY <1>1, ChannelStarts, ChannelMeans, PTL DEF Spec
=============================================================================
