------------------------------- MODULE PostBody -------------------------------
(***************************************************************************)
(* The body of a POST or PUT on its way to src/ffserver.c.  A feeder (as   *)
(* src/remuxing.c with do_sff) writes SFF blocks, which http_receive_data  *)
(* finds again by their sync word; the body of an HLS segment ("slot") or  *)
(* of an uploaded file may be chunked, which recv_chunked undoes.  TCP     *)
(* keeps the bytes in order but hands them over in any pieces.             *)
(*                                                                         *)
(* One action of the server is one call of recv, so bytes may arrive       *)
(* between any two of them.  A recv that finds nothing leaves its buffer   *)
(* as it was, and the code does not always look at what it returned.       *)
(*                                                                         *)
(* Bytes are numbers; a number on the wire has its digits to the base Base *)
(* (256 and SizeBytes = 4 in a block, 16 in a chunk header).               *)
(***************************************************************************)
EXTENDS Integers, Sequences, SequencesExt

CONSTANTS Payloads,      \* what a frame or a chunk may contain: sequences of bytes
          MaxBlocks,     \* bound: blocks or chunks posted
          Bodies,        \* which bodies are posted, see Body
          Base, SizeBytes,
          MaxSff,        \* 1E6
          buffer_size,
          SplitHeaders   \* whether a block or chunk header may arrive in pieces

Byte == 0 .. 255
\* kind "feed", "slot" (an HLS segment) or "file"; content_length 0: not announced.
Body == [kind : {"feed", "slot", "file"}, tr_encoding : {0, 1}, content_length : Nat]

ASSUME PostAssumption ==
  /\ Payloads \subseteq Seq(Byte) \ {<<>>} /\ Bodies \subseteq Body
  /\ {MaxBlocks, MaxSff} \subseteq Nat /\ {SizeBytes, buffer_size} \subseteq Nat \ {0}
  /\ Base \in Nat \ {0, 1} /\ SplitHeaders \in BOOLEAN
  /\ \A b \in Bodies : b.kind = "feed" => b.tr_encoding = 0    \* chunked_post is 0

VARIABLES body,      \* what is posted: a member of Bodies
          tx,        \* the peer: "header", "packets", "closed", "cut"
          posted,    \* the blocks or chunks written: [type, data]
          wire,      \* bytes under way and not yet read, [b, glued]
          arrived,   \* how many of them are in the server's socket
          c,         \* the HTTPContext and the locals of http_receive_data
          taken,     \* blocks given to sff_write
          stored     \* bytes given to hls_write or written to the file

vars == <<body, tx, posted, wire, arrived, c, taken, stored>>

chS == 83
chF == 70
ch0 == 48
CR == 13
LF == 10

NoSff == [type |-> 0, size |-> 0, data |-> <<>>]
Zeros == [i \in 1 .. SizeBytes |-> 0]

Init == /\ body \in Bodies
        /\ tx = IF body.kind = "feed" THEN "header" ELSE "packets"
        /\ posted = <<>> /\ wire = <<>> /\ arrived = 0
        /\ c = [pc |-> "poll", buf |-> Zeros, type |-> 0, sff |-> NoSff, head |-> <<>>,
                chunk_size |-> 0, data_count |-> 0]
        /\ taken = <<>> /\ stored = <<>>

lesser(a, b) == IF a < b THEN a ELSE b

-----------------------------------------------------------------------------
(* Numbers on the wire *)

\* AV_RB32, strtol: the value of the digits ds.
Value(ds) == LET v[i \in 0 .. Len(ds)] == IF i = 0 THEN 0 ELSE v[i - 1] * Base + ds[i]
             IN v[Len(ds)]
\* n without its last k digits.
Shift(n, k) == LET d[i \in 0 .. k] == IF i = 0 THEN n ELSE d[i - 1] \div Base
               IN d[k]
\* avio_wb32: n in k digits.
Digits(n, k) == [i \in 1 .. k |-> Shift(n, k - i) % Base]
\* "%x": n without leading zeros.
Width(n) == CHOOSE k \in 1 .. n + 1 : Shift(n, k) = 0 /\ (k > 1 => Shift(n, k - 1) # 0)
Hex(n) == [i \in 1 .. Width(n) |-> ch0 + Digits(n, Width(n))[i]]

\* The bytes of a header are glued to the byte after them, but for the last.
Framed(header, bytes) ==
  [i \in 1 .. Len(header) + Len(bytes) |->
     [b |-> (header \o bytes)[i], glued |-> i < Len(header)]]

-----------------------------------------------------------------------------
(* The peer *)

sff_write_block(type, data) ==
  Framed(<<chS, chF, chF, ch0 + type>> \o Digits(Len(data), SizeBytes), data)

\* A chunk as an HTTP client writes it, and the last one.
Chunk(data) == Framed(Hex(Len(data)) \o <<CR, LF>>, data \o <<CR, LF>>)
LastChunk == Chunk(<<>>)

Post(type, data, bytes) == /\ posted' = Append(posted, [type |-> type, data |-> data])
                           /\ wire' = wire \o bytes
                           /\ UNCHANGED <<body, arrived, c, taken, stored>>

\* The header of the stream, one block of type 1.
sff_write_header ==
  /\ tx = "header" /\ tx' = "packets"
  /\ \E p \in Payloads : Post(1, p, sff_write_block(1, p))

\* The loop of remuxing.c writes a block for a packet, unless the muxer keeps the frame
\* back.
sff_write_packet ==
  /\ body.kind = "feed" /\ tx = "packets" /\ Len(posted) < MaxBlocks
  /\ \E p \in Payloads : Post(2, p, sff_write_block(2, p))
  /\ UNCHANGED tx

\* All the data posted so far.
Contents == FlattenSeq([k \in DOMAIN posted |-> posted[k].data])

\* A client that uploads a segment or a file.
WriteBody ==
  /\ body.kind # "feed" /\ tx = "packets" /\ Len(posted) < MaxBlocks
  /\ \E p \in Payloads :
       /\ body.content_length > 0 => Len(Contents) + Len(p) <= body.content_length
       /\ Post(0, p, IF body.tr_encoding = 1 THEN Chunk(p) ELSE Framed(<<>>, p))
  /\ UNCHANGED tx

\* avio_close: all has been written.  A client may also close without the last chunk.
Close ==
  /\ tx = "packets"
  /\ body.content_length > 0 => Len(Contents) = body.content_length
  /\ \/ tx' = "closed" /\ wire' = IF body.tr_encoding = 1 THEN wire \o LastChunk ELSE wire
     \/ tx' = "cut" /\ body.tr_encoding = 1 /\ UNCHANGED wire
  /\ UNCHANGED <<body, posted, arrived, c, taken, stored>>

Arrive ==
  /\ \E n \in arrived + 1 .. Len(wire) :
       /\ SplitHeaders \/ ~wire[n].glued
       /\ arrived' = n
  /\ UNCHANGED <<body, tx, posted, wire, c, taken, stored>>

-----------------------------------------------------------------------------
(* recv *)

\* The bytes recv(fd, _, n, 0) returns, <<>> for 0 and for EAGAIN.
Recv(n) == [i \in 1 .. lesser(n, arrived) |-> wire[i].b]
Take(bytes) == /\ wire' = SubSeq(wire, Len(bytes) + 1, Len(wire))
               /\ arrived' = arrived - Len(bytes)
PeerClosed == tx \in {"closed", "cut"} /\ wire = <<>>

\* check: the body is over when recv returned 0, failed with another error than
\* EAGAIN, or all the announced bytes are there.  Mutant: a recv of 0 is not looked at.
Over_open(m, len, errno) ==
  \/ len < 0 /\ errno # "EAGAIN"
  \/ 0 < body.content_length /\ m.data_count >= body.content_length
Over(m, len, errno) ==
  \/ len = 0 \/ (len < 0 /\ errno # "EAGAIN")
  \/ (0 < body.content_length /\ m.data_count >= body.content_length)
Check(m, len, errno) ==
  c' = [m EXCEPT !.pc = IF Over(m, len, errno) THEN "over" ELSE "poll"]

\* What a recv that read bytes returned.
Length(bytes) == CASE bytes # <<>> -> Len(bytes)
                   [] bytes = <<>> /\ PeerClosed -> 0
                   [] OTHER -> -1

\* A call of http_receive_data, when poll reports POLLIN.
Begin ==
  /\ c.pc = "poll"
  /\ arrived > 0 \/ PeerClosed
  /\ c' = [c EXCEPT !.buf = Zeros, !.head = <<>>,
                    !.pc = CASE body.kind = "feed" /\ c.sff # NoSff -> "data"
                             [] body.kind = "feed" /\ c.sff = NoSff -> "sync"
                             [] OTHER -> IF body.tr_encoding = 1 /\ c.chunk_size = 0
                                         THEN "chunk" ELSE "body"]
  /\ UNCHANGED <<body, tx, posted, wire, arrived, taken, stored>>

-----------------------------------------------------------------------------
(* http_receive_data of a feeder *)

\* "sync to current pkt": bytes are dropped until an 'S'.
Sync ==
  LET byte == Recv(1)
  IN /\ c.pc = "sync"
     /\ Take(byte)
     /\ IF byte = <<>> THEN Check(c, Length(byte), "EAGAIN")
        ELSE c' = [c EXCEPT !.buf[1] = byte[1], !.pc = IF byte[1] = chS THEN "F" ELSE "sync"]
     /\ UNCHANGED <<body, tx, posted, taken, stored>>

\* The rest of the sync word.  Where nothing has arrived *ptr is the byte before.
NextOf(pc) == CASE pc = "F" -> "FF" [] pc = "FF" -> "type" [] pc = "type" -> "size"
Wanted(pc) == IF pc = "type" THEN ch0 .. ch0 + 9 ELSE {chF}

SyncWord ==
  LET byte == Recv(1)
      ptr  == IF byte = <<>> THEN c.buf[1] ELSE byte[1]
  IN /\ c.pc \in {"F", "FF", "type"}
     /\ Take(byte)
     /\ c' = [c EXCEPT !.buf[1] = ptr,
                       !.type = IF c.pc = "type" THEN ptr - ch0 ELSE @,
                       !.pc = IF ptr \in Wanted(c.pc) THEN NextOf(c.pc) ELSE "sync"]
     /\ UNCHANGED <<body, tx, posted, taken, stored>>

\* The size.  A block too large is not taken: the search goes on in its data.
\* Mutant: any size is taken.
Fits_any(size) == size # 0
Fits(size) == size # 0 /\ size <= MaxSff

Size ==
  LET bytes == Recv(SizeBytes)
      buf   == bytes \o SubSeq(c.buf, Len(bytes) + 1, SizeBytes)
      size  == Value(buf)
  IN /\ c.pc = "size"
     /\ Take(bytes)
     /\ c' = IF Fits(size)
             THEN [c EXCEPT !.buf = buf, !.pc = "data",
                            !.sff = [type |-> c.type, size |-> size, data |-> <<>>]]
             ELSE [c EXCEPT !.buf = buf, !.pc = "sync"]
     /\ UNCHANGED <<body, tx, posted, taken, stored>>

\* The data, or what remained of it at the call before; sff_write takes a whole block.
Data ==
  LET bytes == Recv(c.sff.size - Len(c.sff.data))
      data  == c.sff.data \o bytes
      whole == Len(data) = c.sff.size
  IN /\ c.pc = "data"
     /\ Take(bytes)
     /\ Check([c EXCEPT !.sff = IF whole THEN NoSff ELSE [@ EXCEPT !.data = data]],
              Length(bytes), "EAGAIN")
     /\ taken' = IF whole THEN Append(taken, [type |-> c.sff.type, data |-> data]) ELSE taken
     /\ UNCHANGED <<body, tx, posted, stored>>

-----------------------------------------------------------------------------
(* http_receive_data of a segment or a file *)

\* recv_chunked: the chunk header, read byte by byte, ends with the CRLF that is not
\* its beginning.  Mutant: the CRLF at its beginning ends it.
HeaderEnds_first(head) == Len(head) >= 2 /\ SubSeq(head, Len(head) - 1, Len(head)) = <<CR, LF>>
HeaderEnds(head) == Len(head) >= 3 /\ SubSeq(head, Len(head) - 1, Len(head)) = <<CR, LF>>
strtol(head) ==
  LET digits == {i \in DOMAIN head : head[i] \notin {CR, LF}}
      first  == IF digits = {} THEN 1 ELSE Min(digits)
  IN Value([i \in 1 .. Cardinality(digits) |-> head[first + i - 1] - ch0])

\* A recv of 0 makes recv_chunked return -1, with the errno of any earlier call.
ChunkHeader ==
  LET byte == Recv(1)
      head == c.head \o byte
  IN /\ c.pc = "chunk"
     /\ Take(byte)
     /\ IF byte = <<>> THEN \E errno \in IF PeerClosed THEN {"EAGAIN", "ECONNRESET"} ELSE {"EAGAIN"} :
                              Check(c, -1, errno)
        ELSE IF HeaderEnds(head)
        THEN IF strtol(head) = 0 THEN Check([c EXCEPT !.head = head], 0, "EAGAIN")
             ELSE c' = [c EXCEPT !.head = head, !.chunk_size = strtol(head), !.pc = "body"]
        ELSE c' = [c EXCEPT !.head = head]
     /\ UNCHANGED <<body, tx, posted, taken, stored>>

\* A segment is stored as it comes; a file until nothing is left to read.
Chunked(m, n) == IF body.tr_encoding = 1 THEN [m EXCEPT !.chunk_size = @ - n] ELSE m

BodyData ==
  LET bytes == Recv(IF body.tr_encoding = 1 THEN lesser(c.chunk_size, buffer_size)
                    ELSE buffer_size)
      m     == Chunked(c, Len(bytes))
  IN /\ c.pc = "body"
     /\ Take(bytes)
     /\ stored' = stored \o bytes
     /\ CASE body.kind = "slot" -> Check(m, Length(bytes), "EAGAIN")
          [] body.kind = "file" /\ bytes # <<>> ->
               c' = [m EXCEPT !.data_count = @ + Len(bytes), !.head = <<>>,
                              !.pc = IF body.tr_encoding = 1 /\ m.chunk_size = 0
                                     THEN "chunk" ELSE "body"]
          [] body.kind = "file" /\ bytes = <<>> -> Check(m, Length(bytes), "EAGAIN")
     /\ UNCHANGED <<body, tx, posted, taken>>

-----------------------------------------------------------------------------
Peer == sff_write_header \/ sff_write_packet \/ WriteBody \/ Close
Server == \/ Begin \/ Sync \/ SyncWord \/ Size \/ Data
          \/ ChunkHeader \/ BodyData

Next == Peer \/ Arrive \/ Server

Spec == Init /\ [][Next]_vars

\* What is sent arrives, and the server polls again and again.
FairSpec == Spec /\ WF_vars(Arrive) /\ WF_vars(Server)

-----------------------------------------------------------------------------
(* Properties *)

\* "sync to current pkt, drop any data between last pkt and current pkt": the blocks
\* taken are the posted ones in order, without those that are too large; and none is
\* missing once everything posted has been read.  (As long as what is dropped holds no
\* 'S': the byte after an 'S' is not looked at as the beginning of a sync word.)
Small(b) == Len(b.data) <= MaxSff
SmallBlocks == FlattenSeq([k \in DOMAIN posted |-> IF Small(posted[k]) THEN <<posted[k]>> ELSE <<>>])
BlocksAsPosted ==
  body.kind = "feed" =>
    /\ IsPrefix(taken, SmallBlocks)
    /\ c.pc \in {"poll", "over"} /\ wire = <<>> => Len(taken) = Len(SmallBlocks)

\* "removed chunk header and tail": what is stored of a segment or a file is what was
\* posted, up to where it has been read, and all of it when the server takes the body
\* for finished.
BodyAsPosted ==
  body.kind # "feed" => /\ IsPrefix(stored, Contents)
                        /\ c.pc = "over" => stored = Contents

\* The end of a body that was sent to its end is seen.  (Where a client leaves out the
\* last chunk, recv_chunked makes -1 of the end, and errno may be an old EAGAIN.)
EndSeen == (tx = "closed") ~> (c.pc = "over")
=============================================================================
