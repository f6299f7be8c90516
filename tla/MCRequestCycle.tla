--------------------------- MODULE MCRequestCycle ---------------------------
(* TLC instances of RequestCycle: files below, at and above the two size   *)
(* limits, and the request headers that change the handling.               *)
EXTENDS RequestCycle

R(kind, size, from, to, ka, v11) ==
  [kind |-> kind, size |-> size, from |-> from, to |-> to, keep_alive |-> ka,
   http11 |-> v11, expect |-> FALSE, inm |-> FALSE]

Whole(kind, sizes) ==
  {R(kind, n, 0, -1, ka, v) : n \in sizes, ka \in BOOLEAN, v \in BOOLEAN}
\* bytes=f-t, and bytes=f- as to = 0
Parts(n) == {R("GET", n, f, t, FALSE, TRUE) : f \in 0 .. n - 1, t \in 0 .. n}
Uploads(expect) ==
  {[R("PUT", n, 0, -1, FALSE, TRUE) EXCEPT !.expect = expect] : n \in {-1} \cup 1 .. 4}
Lists == {R("LIST", 2, 0, -1, ka, TRUE) : ka \in BOOLEAN}
Commands == {R("COMMAND", n, 0, -1, FALSE, TRUE) : n \in {0, 1}}
Streams == {R("STREAM", 0, 0, -1, TRUE, TRUE)}
Named == {[r EXCEPT !.inm = TRUE] : r \in Whole("GET", {1, 3})}

Proper(rs) == {r \in rs : r.to = 0 \/ r.from <= r.to}

FileRequests  == Whole("GET", {-1, 0, 1, 2, 3, 6}) \cup Named
                 \cup Proper(Parts(1) \cup Parts(2) \cup Parts(3))
                 \cup {R("GET", 6, 2, 0, FALSE, TRUE)}   \* a part that does not fit the buffer
CycleRequests == FileRequests \cup Uploads(TRUE) \cup Uploads(FALSE) \cup Streams
                 \cup Lists \cup Commands

\* What the theorem ReplyComplete assumes.
ASSUME SensibleRequests
=============================================================================
