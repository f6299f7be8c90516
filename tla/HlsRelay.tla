------------------------------- MODULE HlsRelay -------------------------------
(***************************************************************************)
(* What the server promises about segments and playlists, without          *)
(* connections that upload, sleepers, positions or memory: the uploads to  *)
(* a place follow one another, none begins while a player is at the one    *)
(* before, and a player is handed growing parts of one upload, from its    *)
(* beginning; what is handed over with the end of the response is the rest *)
(* of an upload that is over.                                              *)
(***************************************************************************)
EXTENDS Integers, Sequences

CONSTANTS Places, Players,
          None      \* no place

VARIABLES begun,    \* uploads begun so far, to any place
          current,  \* per place, the number of its upload, 0 before the first
          length,   \* per place, the chunks of that upload which have arrived
          over,     \* per place, whether no more will arrive
          asked,    \* per player, the place it asked for
          handed    \* per player, the chunks handed to it

rvars == <<begun, current, length, over, asked, handed>>

Part(u, n) == [k \in 1 .. n |-> <<u, k>>]

Init == /\ begun = 0
        /\ current = [i \in Places |-> 0]
        /\ length = [i \in Places |-> 0]
        /\ over = [i \in Places |-> FALSE]
        /\ asked = [c \in Players |-> None]
        /\ handed = [c \in Players |-> <<>>]

\* An upload begins where there was none, or where the last is over and read by nobody.
Begin(i) == /\ \/ current[i] = 0
               \/ over[i] /\ \A c \in Players : asked[c] # i
            /\ begun' = begun + 1
            /\ current' = [current EXCEPT ![i] = begun + 1]
            /\ length' = [length EXCEPT ![i] = 0]
            /\ over' = [over EXCEPT ![i] = FALSE]
            /\ UNCHANGED <<asked, handed>>

Running(i) == current[i] # 0 /\ ~over[i]

Extend(i) == /\ Running(i)
             /\ length' = [length EXCEPT ![i] = @ + 1]
             /\ UNCHANGED <<begun, current, over, asked, handed>>

End(i) == /\ Running(i)
          /\ over' = [over EXCEPT ![i] = TRUE]
          /\ UNCHANGED <<begun, current, length, asked, handed>>

\* A player comes, asks for a place, and goes: when its response has ended or before.
Arrive(c) == /\ asked[c] = None
             /\ handed' = [handed EXCEPT ![c] = <<>>]
             /\ UNCHANGED <<begun, current, length, over, asked>>

Ask(c, i) == /\ asked[c] = None /\ handed[c] = <<>>
             /\ asked' = [asked EXCEPT ![c] = i]
             /\ UNCHANGED <<begun, current, length, over, handed>>

Leave(c) == /\ asked' = [asked EXCEPT ![c] = None]
            /\ UNCHANGED <<begun, current, length, over, handed>>

\* A player is handed more of the upload, up to chunk n; its response may end with it.
Hand(c, i, n, ends) ==
  /\ asked[c] = i
  /\ n \in Len(handed[c]) + 1 .. length[i]
  /\ handed[c] = Part(current[i], Len(handed[c]))
  /\ ends => over[i] /\ n = length[i]
  /\ handed' = [handed EXCEPT ![c] = Part(current[i], n)]
  /\ asked' = [asked EXCEPT ![c] = IF ends THEN None ELSE i]
  /\ UNCHANGED <<begun, current, length, over>>

Next == \/ \E i \in Places : Begin(i) \/ Extend(i) \/ End(i)
        \/ \E c \in Players :
             \/ Arrive(c) \/ Leave(c)
             \/ \E i \in Places : \/ Ask(c, i)
                                  \/ \E n \in 1 .. length[i], ends \in BOOLEAN :
                                       Hand(c, i, n, ends)

Spec == Init /\ [][Next]_rvars
==============================================================================
