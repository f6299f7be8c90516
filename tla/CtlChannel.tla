----------------------------- MODULE CtlChannel -----------------------------
(***************************************************************************)
(* The control channel of src/stream_buffer.c: ff_ctl_send packs messages  *)
(* into sb_out, the two ends move bytes over a TCP connection, and         *)
(* ff_ctl_recv unpacks sb_in and calls back with each message.  The        *)
(* unpacking is resumed where it stopped, from the static msg, when more   *)
(* bytes arrive.                                                           *)
(*                                                                         *)
(* Byte k of message m is the pair <<m, k>>: "MSG" and the command are     *)
(* bytes 1 to 4, nlen 5 to 8, dlen 9 to 12, then the name and the data,    *)
(* which do not contain "MSG".  A four-byte field that is read where there *)
(* is no such field, or before it has arrived, may have any value.         *)
(***************************************************************************)
EXTENDS Integers, Sequences, SequencesExt

CONSTANTS Messages,    \* the messages to send, [nlen, dlen] each
          msize,       \* size of sb_out; sb_in, of that size too, is never full
          Garbage,     \* what a field that is none may be read as
          Fragments    \* environment: TCP may deliver part of what was sent

Message == [nlen : Nat \ {0}, dlen : Nat \ {0}]

ASSUME ChannelAssumption == /\ Messages \in Seq(Message)
                            /\ msize \in Nat /\ Garbage \subseteq Nat
                            /\ Fragments \in BOOLEAN

VARIABLES sent,         \* messages passed to ff_ctl_send
          sb_out,       \* what sb_out holds
          sb_in,        \* what has been written to sb_in, from the beginning
          ptr,          \* how much of it has been read
          msg,          \* the static msg of ff_ctl_recv
          pc,           \* where ff_ctl_recv is, "idle" outside of it
          dispatched    \* the messages given to the callback

vars == <<sent, sb_out, sb_in, ptr, msg, pc, dispatched>>

NoMsg == [cmd |-> 0, nlen |-> 0, dlen |-> 0, name |-> <<>>]

Init == /\ sent = 0
        /\ sb_out = <<>>
        /\ sb_in = <<>>
        /\ ptr = 0
        /\ msg = NoMsg
        /\ pc = "idle"
        /\ dispatched = <<>>

-----------------------------------------------------------------------------
Bytes(m, from, n) == [k \in 1 .. n |-> <<m, from + k - 1>>]
Header(m) == Bytes(m, 1, 12)
Name(m)   == Bytes(m, 13, Messages[m].nlen)
Data(m)   == Bytes(m, 13 + Messages[m].nlen, Messages[m].dlen)

\* sb_write: all of the bytes, or none when there is no room for them.
sb_write(sb, bytes) == IF Len(sb) + Len(bytes) <= msize THEN sb \o bytes ELSE sb

\* ff_ctl_send: three writes, whatever each of them returns.
ff_ctl_send ==
  /\ sent < Len(Messages)
  /\ sent' = sent + 1
  /\ sb_out' = sb_write(sb_write(sb_write(sb_out, Header(sent')), Name(sent')), Data(sent'))
  /\ UNCHANGED <<sb_in, ptr, msg, pc, dispatched>>

\* ctl_msg_send at one end, ctl_msg_recv and the call of ff_ctl_recv at the other.
Deliver ==
  /\ pc = "idle" /\ sb_out # <<>>
  /\ \E n \in IF Fragments THEN 1 .. Len(sb_out) ELSE {Len(sb_out)} :
       /\ sb_in' = sb_in \o SubSeq(sb_out, 1, n)
       /\ sb_out' = SubSeq(sb_out, n + 1, Len(sb_out))
  /\ pc' = "loop"
  /\ UNCHANGED <<sent, ptr, msg, dispatched>>

-----------------------------------------------------------------------------
(* ff_ctl_recv, one label after the other. *)

end == Len(sb_in)
Peek(n) == SubSeq(sb_in, ptr + 1, ptr + n)
At(label) == pc = label /\ UNCHANGED <<sent, sb_out, sb_in>>

\* while(ptr + 4 < end), and the gotos that resume a message.
Loop ==
  /\ At("loop")
  /\ pc' = CASE ptr + 4 >= end                          -> "idle"
             [] ptr + 4 < end /\ msg.name # <<>>        -> "data"
             [] ptr + 4 < end /\ msg.name = <<>> /\ msg.dlen # 0 -> "name"
             [] ptr + 4 < end /\ msg.dlen = 0 /\ msg.nlen # 0    -> "dlen"
             [] ptr + 4 < end /\ msg.nlen = 0 /\ msg.cmd # 0     -> "nlen"
             [] OTHER                                   -> "scan"
  /\ UNCHANGED <<ptr, msg, dispatched>>

Scan ==
  /\ At("scan")
  /\ \/ \E m \in 1 .. sent : /\ Peek(3) = Bytes(m, 1, 3)
                             /\ msg' = [msg EXCEPT !.cmd = m]
                             /\ ptr' = ptr + 4
                             /\ pc' = "nlen"
     \/ /\ \A m \in 1 .. sent : Peek(3) # Bytes(m, 1, 3)
        /\ ptr' = ptr + 1
        /\ pc' = "loop"
        /\ UNCHANGED msg
  /\ UNCHANGED dispatched

\* AV_RB32(ptr).  Mutant: the bytes are not swapped on a little-endian machine.
FieldNative == {16777216}
Field ==
  LET read == {m \in 1 .. sent : ptr + 4 <= end /\ Peek(4) \in {Bytes(m, 5, 4), Bytes(m, 9, 4)}}
  IN IF read = {} THEN Garbage
     ELSE {IF Peek(4) = Bytes(m, 5, 4) THEN Messages[m].nlen ELSE Messages[m].dlen : m \in read}

ReadLength(label, next) ==
  /\ At(label)
  /\ \E n \in Field : msg' = IF label = "nlen" THEN [msg EXCEPT !.nlen = n]
                             ELSE [msg EXCEPT !.dlen = n]
  /\ ptr' = ptr + 4
  /\ pc' = IF ptr' >= end THEN "idle" ELSE next
  /\ UNCHANGED dispatched

ReadName ==
  LET arrived == msg.nlen > 0 /\ ptr + msg.nlen <= end
  IN /\ At("name")
     /\ msg' = IF arrived THEN [msg EXCEPT !.name = Peek(msg.nlen)] ELSE msg
     /\ ptr' = IF arrived THEN ptr + msg.nlen ELSE ptr
     /\ pc' = IF ptr' >= end THEN "idle" ELSE "data"
     /\ UNCHANGED dispatched

\* Mutant: the message is not cleared.
ReadDataUncleared ==
  /\ At("data") /\ msg.dlen > 0 /\ ptr + msg.dlen <= end
  /\ dispatched' = Append(dispatched, <<msg.cmd, msg.name, Peek(msg.dlen)>>)
  /\ ptr' = ptr + msg.dlen
  /\ pc' = "loop"
  /\ UNCHANGED msg

ReadData ==
  /\ At("data")
  /\ IF msg.dlen > 0 /\ ptr + msg.dlen <= end
     THEN /\ dispatched' = Append(dispatched, <<msg.cmd, msg.name, Peek(msg.dlen)>>)
          /\ ptr' = ptr + msg.dlen
          /\ msg' = NoMsg
     ELSE UNCHANGED <<dispatched, ptr, msg>>
  /\ pc' = "loop"

ff_ctl_recv == \/ Loop \/ Scan \/ ReadLength("nlen", "dlen") \/ ReadLength("dlen", "name")
               \/ ReadName \/ ReadData

Next == ff_ctl_send \/ Deliver \/ ff_ctl_recv

Spec == Init /\ [][Next]_vars

\* The receiver keeps executing.
FairSpec == Spec /\ WF_vars(ff_ctl_recv)

-----------------------------------------------------------------------------
(* Properties *)

\* ff_ctl_recv: "unpack sb_in and dispatch messages in it" - the callback is given
\* the messages that were sent, in their order, each with its own name and data,
\* and once all that was sent has been delivered and unpacked, none is left behind
\* in the buffer.
DispatchedAsSent ==
  /\ IsPrefix(dispatched, [m \in 1 .. sent |-> <<m, Name(m), Data(m)>>])
  /\ pc = "idle" /\ sb_out = <<>> => Len(dispatched) = sent

\* ff_ctl_recv returns to the event loop of its program, which has other
\* connections to serve.
ParserReturns == pc # "idle" ~> pc = "idle"
=============================================================================
