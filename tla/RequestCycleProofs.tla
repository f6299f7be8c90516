-------------------------- MODULE RequestCycleProofs --------------------------
(***************************************************************************)
(* Proofs about the requests of one connection, for every set of requests, *)
(* any number of them, and every size of file, buffer and chunk limit.     *)
(*                                                                         *)
(* total_count and data_count are never reset between the requests of a    *)
(* connection, and a reply is cut short when data_count reaches            *)
(* total_count.  The argument is that this never happens (Uncounted): the  *)
(* reply that sets total_count is one on a connection that is not kept,    *)
(* because a file that does not fit the buffer is sent in chunks on one    *)
(* that is.  Answer then follows a reply from its head to its end.         *)
(***************************************************************************)
EXTENDS RequestCycle, TLAPS

Status == {0, 100, 200, 304, 403, 404, 417}
States == {"WAIT_REQUEST", "SEND_HEADER", "SEND_DATA_HEADER", "SEND_DATA", "RECEIVE_DATA", "CLOSED"}
Files == {"none", "done", "open"}
Contexts == [state : States, keep_alive : BOOLEAN, http_error : Status,
             only_header : BOOLEAN, local_fd : Files, left : Int,
             tr_encoding : {0, 1}, total_count : Int, data_count : Int,
             content_length : Int, inm : Int, head : Nat, body : Int]
Replies == [status : Status, length : Int, kept : BOOLEAN, sent : Int,
            ended : {"no", "kept", "closed"}]

Typed == /\ c \in Contexts /\ reply \in Replies /\ stored \in Int
         /\ peer \in {"here", "gone"} /\ requests \in 0 .. MaxRequests
         /\ req \in Requests \cup {NoRequest}

-----------------------------------------------------------------------------
(* Uploads *)

\* The connection before its first request, and the first request a plain upload.
Unused == requests = 0 => /\ c.state \in {"WAIT_REQUEST", "CLOSED"} /\ c.http_error = 0
                          /\ c.tr_encoding = 0 /\ c.data_count = 0 /\ req = NoRequest
FirstUpload == /\ requests = 1 /\ req # NoRequest /\ req.kind = "PUT" /\ req.size >= 0
               /\ ~req.expect /\ peer = "here"
Upload ==
  FirstUpload =>
    \/ /\ c.state = "RECEIVE_DATA" /\ c.http_error = 0 /\ c.tr_encoding = 0
       /\ c.content_length = req.size /\ c.data_count = stored
       /\ 0 <= stored /\ stored <= req.size
    \/ c.state \in {"SEND_HEADER", "WAIT_REQUEST", "CLOSED"} /\ c.http_error = 200 /\ stored = req.size

UploadInv == Typed /\ Unused /\ Upload

-----------------------------------------------------------------------------
(* Files and listings *)

Amounts == /\ c.left >= 0 /\ c.total_count >= 0 /\ c.data_count >= 0 /\ c.body >= 0
           /\ stored >= 0 /\ ~c.only_header

Uncounted ==
  c.total_count > 0 => /\ ~c.keep_alive
                       /\ \/ c.state = "SEND_HEADER" /\ c.http_error = 0 /\ c.local_fd # "none"
                          \/ c.state = "SEND_DATA_HEADER" /\ c.local_fd # "none"
                          \/ c.state = "CLOSED"

\* What the reply to req is to carry, and how far it is.
Wanted == IF reply.length = -1 THEN req.size ELSE wanted(req)
Asked == req # NoRequest /\ (req.kind = "LIST" \/ (req.kind = "GET" /\ Found(req)))
Named == req.kind = "GET" /\ c.inm = req.size
Heading ==
  /\ reply.sent = 0
  /\ \/ Named /\ c.http_error = 304 /\ c.body = 0
     \/ ~Named /\ c.http_error = 200 /\ c.body = Wanted
     \/ ~Named /\ c.http_error = 0 /\ c.local_fd = "open" /\ c.body + c.left = Wanted
Sending ==
  ~Named /\ \/ c.local_fd = "open" /\ reply.sent + c.left = Wanted
            \/ c.local_fd = "done" /\ reply.sent = Wanted
Whole == IF Named THEN reply.status = 304 /\ reply.sent = 0 ELSE reply.sent = Wanted
Answer ==
  /\ Asked /\ reply.ended = "no" => /\ c.state \in {"SEND_HEADER", "SEND_DATA_HEADER", "CLOSED"}
                                    /\ c.state = "SEND_HEADER" => Heading
                                    /\ c.state = "SEND_DATA_HEADER" => Sending
  /\ reply.ended # "no" => c.state \in {"WAIT_REQUEST", "CLOSED"} /\ (Asked => Whole)
  /\ req = NoRequest => reply.ended = "no" /\ c.state \in {"WAIT_REQUEST", "CLOSED"}

ReplyInv == Typed /\ Amounts /\ Uncounted /\ Answer

-----------------------------------------------------------------------------
(* What http_parse_request makes of the connection *)

LEMMA RequestTyped ==
  ASSUME NEW r \in Requests
  PROVE  /\ r \in Request /\ r.kind \in {"GET", "HEAD", "PUT", "STREAM", "LIST", "COMMAND"}
         /\ r.size \in Int /\ r.from \in Nat /\ r.to \in Int /\ r.keep_alive \in BOOLEAN
         /\ r.http11 \in BOOLEAN /\ r.expect \in BOOLEAN /\ r.inm \in BOOLEAN
         /\ wanted(r) \in Int /\ r # NoRequest
<1>1. r \in Request /\ r # NoRequest
  BY RequestAssumption
<1>2. r.size \in Int /\ r.from \in Nat /\ r.to \in Int
  BY <1>1 DEF Request
<1>3. off_end(r) \in Int
  BY <1>2 DEF off_end
<1>4. wanted(r) \in Int
  BY <1>2, <1>3 DEF wanted
<1> QED BY <1>1, <1>2, <1>4 DEF Request

\* The fields a request leaves as they are, whatever the answer.
Untouched(p, m) == /\ p.data_count = m.data_count /\ p.inm = m.inm
                   /\ p.only_header = m.only_header /\ p.content_length = m.content_length
\* ... and those only a file changes.
Uncut(p, m) == /\ p.total_count = m.total_count /\ p.left = m.left
               /\ p.tr_encoding = m.tr_encoding

LEMMA LineShape ==
  ASSUME c \in Contexts, NEW r \in Requests
  PROVE  LET m == handle_line(r)
         IN /\ m \in Contexts
            /\ m.keep_alive = (c.keep_alive \/ r.keep_alive)
            /\ m.only_header = (c.only_header \/ r.kind = "HEAD")
            /\ m.content_length = IF r.kind = "PUT" THEN r.size ELSE c.content_length
            /\ m.http_error = c.http_error /\ m.data_count = c.data_count /\ Uncut(m, c)
            /\ m.body = c.body
<1> DEFINE m == handle_line(r)
           k == c.keep_alive \/ r.keep_alive
           o == c.only_header \/ r.kind = "HEAD"
           i == IF r.inm THEN r.size ELSE c.inm
           l == IF r.kind = "PUT" THEN r.size ELSE c.content_length
<1>1. m = [c EXCEPT !.keep_alive = k, !.only_header = o, !.inm = i, !.content_length = l]
  BY DEF handle_line, Contexts
<1>2. k \in BOOLEAN /\ o \in BOOLEAN /\ i \in Int /\ l \in Int
  BY RequestTyped DEF Contexts
<1> HIDE DEF m, k, o, i, l
<1>3. /\ m \in Contexts /\ m.keep_alive = k /\ m.only_header = o /\ m.content_length = l
      /\ m.http_error = c.http_error /\ m.data_count = c.data_count /\ Uncut(m, c)
      /\ m.body = c.body
  BY <1>1, <1>2 DEF Contexts, Uncut
<1> QED BY <1>3 DEF m, k, o, l

LEMMA HeadShape ==
  ASSUME NEW m \in Contexts, NEW status \in Status
  PROVE  LET p == SendHeadOnly(m, status)
         IN /\ p \in Contexts /\ p.state = "SEND_HEADER" /\ p.http_error = status
            /\ p.head = 1 /\ p.body = 0 /\ p.keep_alive = m.keep_alive
            /\ p.local_fd = m.local_fd /\ Untouched(p, m) /\ Uncut(p, m)
<1> DEFINE p == SendHeadOnly(m, status)
<1>1. p = [m EXCEPT !.state = "SEND_HEADER", !.http_error = status, !.head = 1, !.body = 0]
  BY DEF SendHeadOnly
<1>2. "SEND_HEADER" \in States /\ 1 \in Nat /\ 0 \in Int
  BY DEF States
<1> HIDE DEF p
<1>3. p \in Contexts
  BY <1>1, <1>2 DEF Contexts
<1>4. /\ p.state = "SEND_HEADER" /\ p.http_error = status /\ p.head = 1 /\ p.body = 0
      /\ p.keep_alive = m.keep_alive /\ p.local_fd = m.local_fd
  BY <1>1 DEF Contexts
<1>5. Untouched(p, m) /\ Uncut(p, m)
  BY <1>1 DEF Contexts, Untouched, Uncut
<1> QED BY <1>3, <1>4, <1>5 DEF p

\* A file in chunks: all of it is left to send.
LEMMA ChunkedShape ==
  ASSUME NEW m \in Contexts, NEW r \in Requests
  PROVE  LET p == SendChunked(m, r)
         IN /\ p \in Contexts /\ p.state = "SEND_HEADER" /\ p.http_error = 0
            /\ p.head = 1 /\ p.body = 0 /\ p.local_fd = "open" /\ p.left = r.size
            /\ p.total_count = m.total_count /\ Untouched(p, m)
<1> DEFINE p == SendChunked(m, r)
           z == r.size
           k == r.http11
           e == IF r.http11 THEN 1 ELSE 0
<1>1. p = [m EXCEPT !.state = "SEND_HEADER", !.http_error = 0, !.tr_encoding = e,
                    !.keep_alive = k, !.local_fd = "open", !.left = z, !.head = 1, !.body = 0]
  BY DEF SendChunked
<1>2. z \in Int /\ k \in BOOLEAN /\ e \in {0, 1}
  BY RequestTyped
<1>3. "SEND_HEADER" \in States /\ 0 \in Status /\ "open" \in Files /\ 1 \in Nat /\ 0 \in Int
  BY DEF States, Status, Files
<1> HIDE DEF p, z, k, e
<1>4. p \in Contexts
  BY <1>1, <1>2, <1>3 DEF Contexts
<1>5. /\ p.state = "SEND_HEADER" /\ p.http_error = 0 /\ p.head = 1 /\ p.body = 0
      /\ p.local_fd = "open" /\ p.left = z /\ p.total_count = m.total_count
  BY <1>1 DEF Contexts
<1>6. Untouched(p, m)
  BY <1>1 DEF Contexts, Untouched
<1> QED BY <1>4, <1>5, <1>6 DEF p, z

\* A file that follows its head in the buffer: all that is wanted, or what fits.
LEMMA PartShape ==
  ASSUME NEW m \in Contexts, NEW r \in Requests
  PROVE  LET p     == SendPart(m, r)
             whole == wanted(r) < FileBuf
         IN /\ p \in Contexts /\ p.state = "SEND_HEADER" /\ p.head = 1
            /\ p.keep_alive = m.keep_alive /\ Untouched(p, m)
            /\ p.http_error = IF whole THEN 200 ELSE 0
            /\ whole => /\ p.total_count = m.total_count /\ p.left = m.left
                        /\ p.body = IF m.only_header THEN 0 ELSE wanted(r)
            /\ ~whole => /\ p.total_count = 1 + wanted(r) /\ p.local_fd = "open"
                         /\ p.left = r.size - r.from - (FileBuf - 1)
                         /\ p.body = IF m.only_header THEN 0 ELSE FileBuf - 1
<1> DEFINE n     == wanted(r)
           len   == lesser(lesser(n + 1, FileBuf) - 1, n)
           w     == n < FileBuf
           e     == IF w THEN 200 ELSE 0
           f     == IF w THEN "none" ELSE "open"
           a     == IF w THEN m.left ELSE r.size - r.from - len
           t     == IF w THEN m.total_count ELSE 1 + n
           b     == IF m.only_header THEN 0 ELSE len
           p     == SendPart(m, r)
<1>1. n \in Int /\ r.size \in Int /\ r.from \in Nat /\ FileBuf \in Nat /\ FileBuf > 1
  BY RequestTyped, RequestAssumption
<1>2. len = IF w THEN n ELSE FileBuf - 1
  <2> HIDE DEF n
  <2> QED BY <1>1 DEF lesser
<1>3. (len = n) = w
  <2> HIDE DEF n, len
  <2> QED BY <1>1, <1>2
<1>4. p = [m EXCEPT !.state = "SEND_HEADER", !.http_error = e, !.local_fd = f, !.left = a,
                    !.total_count = t, !.head = 1, !.body = b]
  BY <1>3, ZenonT(40) DEF SendPart
<1>5. len \in Int /\ a \in Int /\ t \in Int /\ b \in Int /\ e \in Status /\ f \in Files
  <2>1. m.left \in Int /\ m.total_count \in Int
    BY DEF Contexts
  <2> HIDE DEF n
  <2> QED BY <1>1, <1>2, <2>1 DEF Status, Files
<1> HIDE DEF p, a, t, b, e, f, len, n
<1>6. /\ p \in Contexts /\ p.state = "SEND_HEADER" /\ p.head = 1
      /\ p.keep_alive = m.keep_alive /\ Untouched(p, m)
      /\ p.http_error = e /\ p.local_fd = f /\ p.left = a /\ p.total_count = t /\ p.body = b
  <2>1. "SEND_HEADER" \in States /\ 1 \in Nat
    BY DEF States
  <2>2. p \in Contexts
    BY <1>4, <1>5, <2>1 DEF Contexts
  <2>3. p.state = "SEND_HEADER" /\ p.head = 1 /\ p.keep_alive = m.keep_alive
    BY <1>4 DEF Contexts
  <2>4. p.http_error = e /\ p.local_fd = f /\ p.left = a /\ p.total_count = t /\ p.body = b
    BY <1>4 DEF Contexts
  <2>5. Untouched(p, m)
    BY <1>4 DEF Contexts, Untouched
  <2> QED BY <2>2, <2>3, <2>4, <2>5
<1>7. CASE w
  BY <1>2, <1>5, <1>6, <1>7 DEF p, a, t, b, e, f, n
<1>8. CASE ~w
  BY <1>2, <1>5, <1>6, <1>8 DEF p, a, t, b, e, f, n
<1> QED BY <1>7, <1>8

\* Parsed, one kind of request at a time.
ByKind(p, m, r) ==
  /\ r.kind = "STREAM" => p = SendHeadOnly(m, 0)
  /\ r.kind = "LIST" => p = dir_list_local(m, r)
  /\ r.kind = "COMMAND" => p = SendHeadOnly(m, dir_delete_file(r))
  /\ r.kind = "PUT" /\ r.size < 0 => p = SendHeadOnly(m, 417)
  /\ r.kind = "PUT" /\ r.size >= 0 /\ r.expect =>
       p = [SendHeadOnly(m, 100) EXCEPT !.local_fd = "open"]
  /\ r.kind = "PUT" /\ r.size >= 0 /\ ~r.expect =>
       p = [m EXCEPT !.state = "RECEIVE_DATA", !.http_error = 0, !.local_fd = "open"]
  /\ Found(r) => p = prepare_local_file(m, r)
  /\ r.kind \in {"GET", "HEAD"} /\ ~Found(r) =>
       p = [SendHeadOnly(m, 404) EXCEPT !.keep_alive = FALSE]

LEMMA ParsedCases ==
  ASSUME NEW m, NEW r \in Requests
  PROVE  ByKind(Parsed(m, r), m, r)
<1>1. r.size \in Int /\ r.expect \in BOOLEAN
  BY RequestTyped
<1>2. CASE r.kind = "STREAM"
  BY <1>2 DEF ByKind, Parsed, Found
<1>3. CASE r.kind = "LIST"
  BY <1>3 DEF ByKind, Parsed, Found
<1>4. CASE r.kind = "COMMAND"
  BY <1>4 DEF ByKind, Parsed, Found
<1>5. CASE r.kind = "PUT"
  BY <1>1, <1>5 DEF ByKind, Parsed, Found
<1>6. CASE r.kind \in {"GET", "HEAD"}
  BY <1>1, <1>6 DEF ByKind, Parsed, Found
<1> QED BY <1>2, <1>3, <1>4, <1>5, <1>6, RequestTyped

\* The same for a file that is there.
LEMMA FileCases ==
  ASSUME NEW m, NEW r
  PROVE  /\ m.inm = r.size =>
              prepare_local_file(m, r) = [SendHeadOnly(m, 304) EXCEPT !.local_fd = "none"]
         /\ m.inm # r.size /\ Chunked(m, r) => prepare_local_file(m, r) = SendChunked(m, r)
         /\ m.inm # r.size /\ ~Chunked(m, r) => prepare_local_file(m, r) = SendPart(m, r)
<1>1. dir_is_modifed(m, r) <=> m.inm # r.size
  BY DEF dir_is_modifed
<1> HIDE DEF dir_is_modifed
<1>2. CASE m.inm = r.size
  BY <1>1, <1>2 DEF prepare_local_file
<1>3. CASE m.inm # r.size
  BY <1>1, <1>3 DEF prepare_local_file
<1> QED BY <1>2, <1>3

LEMMA ParsedTyped ==
  ASSUME c \in Contexts, NEW r \in Requests
  PROVE  LET p == Parsed(handle_line(r), r)
         IN /\ p \in Contexts
            /\ p.state \in {"SEND_HEADER", "RECEIVE_DATA"}
            /\ r.kind = "PUT" /\ r.size >= 0 /\ ~r.expect =>
                 /\ p.state = "RECEIVE_DATA" /\ p.http_error = 0
                 /\ p.tr_encoding = c.tr_encoding /\ p.data_count = c.data_count
                 /\ p.content_length = r.size
<1> DEFINE m == handle_line(r)
           p == Parsed(m, r)
<1> SUFFICES /\ p \in Contexts
             /\ p.state \in {"SEND_HEADER", "RECEIVE_DATA"}
             /\ r.kind = "PUT" /\ r.size >= 0 /\ ~r.expect =>
                  /\ p.state = "RECEIVE_DATA" /\ p.http_error = 0
                  /\ p.tr_encoding = c.tr_encoding /\ p.data_count = c.data_count
                  /\ p.content_length = r.size
  OBVIOUS
<1>1. /\ m \in Contexts /\ m.tr_encoding = c.tr_encoding /\ m.data_count = c.data_count
      /\ r.kind = "PUT" => m.content_length = r.size
  BY LineShape DEF Uncut
<1>2. r.size \in Int
  BY RequestTyped
<1>p. ByKind(p, m, r)
  BY ParsedCases
<1> HIDE DEF m, p
<1>3. \A status \in Status : /\ SendHeadOnly(m, status) \in Contexts
                              /\ SendHeadOnly(m, status).state = "SEND_HEADER"
  BY <1>1, HeadShape
<1>4. CASE r.kind \in {"STREAM", "COMMAND"} \/ (r.kind = "PUT" /\ r.size < 0)
  <2>1. {0, 403, 200, 417} \subseteq Status /\ dir_delete_file(r) \in Status
    BY DEF Status, dir_delete_file
  <2>2. \E status \in Status : p = SendHeadOnly(m, status)
    BY <1>4, <2>1, <1>p DEF ByKind
  <2> QED BY <1>2, <1>3, <1>4, <2>2
<1>5. CASE r.kind = "LIST"
  <2>1. PICK q : q = SendHeadOnly(m, 200)
    OBVIOUS
  <2>2. PICK b : b = IF m.only_header THEN 0 ELSE r.size
    OBVIOUS
  <2>3. q \in Contexts /\ q.state = "SEND_HEADER" /\ b \in Int
    BY <1>2, <1>3, <2>1, <2>2 DEF Status
  <2>4. p = [q EXCEPT !.local_fd = "none", !.body = b]
    BY <1>5, <2>1, <2>2, <1>p DEF ByKind, dir_list_local
  <2>5. p \in Contexts /\ p.state = "SEND_HEADER"
    BY <2>3, <2>4 DEF Contexts, Files
  <2> QED BY <1>5, <2>5
<1>6. CASE r.kind = "PUT" /\ r.size >= 0 /\ r.expect
  <2>1. PICK q : q = SendHeadOnly(m, 100)
    OBVIOUS
  <2>2. q \in Contexts /\ q.state = "SEND_HEADER"
    BY <1>3, <2>1 DEF Status
  <2>3. p = [q EXCEPT !.local_fd = "open"]
    BY <1>6, <2>1, <1>p DEF ByKind
  <2>4. p \in Contexts /\ p.state = "SEND_HEADER"
    BY <2>2, <2>3 DEF Contexts, Files
  <2> QED BY <1>6, <2>4
<1>7. CASE r.kind = "PUT" /\ r.size >= 0 /\ ~r.expect
  <2>1. p = [m EXCEPT !.state = "RECEIVE_DATA", !.http_error = 0, !.local_fd = "open"]
    BY <1>7, <1>p DEF ByKind
  <2>a. "RECEIVE_DATA" \in States /\ 0 \in Status /\ "open" \in Files
    BY DEF States, Status, Files
  <2>2. p \in Contexts
    BY <1>1, <2>1, <2>a DEF Contexts
  <2>3. /\ p.state = "RECEIVE_DATA" /\ p.http_error = 0 /\ p.tr_encoding = m.tr_encoding
        /\ p.data_count = m.data_count /\ p.content_length = m.content_length
    BY <1>1, <2>1 DEF Contexts
  <2> QED BY <1>1, <1>7, <2>2, <2>3
<1>8. CASE Found(r)
  <2>1. p = prepare_local_file(m, r) /\ r.kind # "PUT"
    BY <1>8, <1>p DEF ByKind, Found
  <2>2. PICK q : q = SendHeadOnly(m, 304)
    OBVIOUS
  <2>3. q \in Contexts /\ q.state = "SEND_HEADER"
    BY <1>3, <2>2 DEF Status
  <2>4. \/ p = [q EXCEPT !.local_fd = "none"] \/ p = SendChunked(m, r) \/ p = SendPart(m, r)
    BY <2>1, <2>2, FileCases
  <2>5. CASE p = [q EXCEPT !.local_fd = "none"]
    <3>1. p \in Contexts /\ p.state = "SEND_HEADER"
      BY <2>3, <2>5 DEF Contexts, Files
    <3> QED BY <2>1, <3>1
  <2>6. CASE p = SendChunked(m, r)
    BY <1>1, <2>1, <2>6, ChunkedShape
  <2>7. CASE p = SendPart(m, r)
    BY <1>1, <2>1, <2>7, PartShape
  <2> QED BY <2>4, <2>5, <2>6, <2>7
<1>9. CASE r.kind \in {"GET", "HEAD"} /\ ~Found(r)
  <2>1. PICK q : q = SendHeadOnly(m, 404)
    OBVIOUS
  <2>2. q \in Contexts /\ q.state = "SEND_HEADER"
    BY <1>3, <2>1 DEF Status
  <2>3. p = [q EXCEPT !.keep_alive = FALSE]
    BY <1>9, <2>1, <1>p DEF ByKind
  <2>4. p \in Contexts /\ p.state = "SEND_HEADER"
    BY <2>2, <2>3 DEF Contexts
  <2> QED BY <1>9, <2>4
<1> QED BY <1>2, <1>4, <1>5, <1>6, <1>7, <1>8, <1>9, RequestTyped

-----------------------------------------------------------------------------
(* Types *)

LEMMA TypedInit == Init => Typed
<1> SUFFICES ASSUME Init PROVE Typed
  OBVIOUS
<1>1. c \in Contexts
  BY DEF Init, Fresh, Contexts, States, Status, Files
<1>2. reply \in Replies
  BY DEF Init, NoReply, Replies, Status
<1> QED BY <1>1, <1>2, RequestAssumption DEF Init, Typed

LEMMA TypedParse ==
  ASSUME Typed, NEW r \in Requests, ParseRequest(r)
  PROVE  Typed'
<1>1. c' \in Contexts
  BY ParsedTyped DEF Typed, ParseRequest
<1>2. reply' \in Replies
  <2>1. PICK k, l : /\ k = c'.keep_alive /\ l \in {wanted(r), -1}
                    /\ reply' = [NoReply EXCEPT !.kept = k, !.length = l]
    BY Zenon DEF ParseRequest
  <2>2. k \in BOOLEAN /\ l \in Int
    BY <1>1, <2>1, RequestTyped DEF Contexts
  <2>3. NoReply \in Replies
    BY DEF NoReply, Replies, Status
  <2> QED BY <2>1, <2>2, <2>3 DEF Replies
<1>3. requests' \in 0 .. MaxRequests
  BY RequestAssumption DEF Typed, ParseRequest
<1> QED BY <1>1, <1>2, <1>3 DEF Typed, ParseRequest

\* SEND_HEADER: the connection after the head has been sent.
HeadGone(next, d, n, e) ==
  /\ next \in {"RECEIVE_DATA", "WAIT_REQUEST", "CLOSED", "SEND_DATA_HEADER"}
  /\ d = c.data_count + c.head + c.body /\ d \in Int
  /\ n = reply.sent + c.body /\ n \in Int
  /\ e \in {"no", "kept", "closed"}
  /\ e = CASE next = "WAIT_REQUEST" -> "kept" [] next = "CLOSED" -> "closed" [] OTHER -> "no"
  /\ c.http_error = 100 => next = "RECEIVE_DATA"
  /\ next = "RECEIVE_DATA" => c.http_error = 100
  /\ next = "WAIT_REQUEST" => c.keep_alive /\ c.total_count > 0
  /\ next = "CLOSED" => c.http_error # 0
  /\ next = "SEND_DATA_HEADER" => c.http_error = 0

LEMMA HeaderSent ==
  ASSUME Typed, SendHeader
  PROVE  \E next, d, n, e :
           /\ HeadGone(next, d, n, e)
           /\ c' = [c EXCEPT !.state = next, !.data_count = d, !.head = 0, !.body = 0]
           /\ reply' = [reply EXCEPT !.status = c.http_error, !.sent = n, !.ended = e]
<1> DEFINE m == [c EXCEPT !.data_count = @ + c.head + c.body, !.head = 0, !.body = 0]
<1>1. PICK d, n : d = c.data_count + c.head + c.body /\ n = reply.sent + c.body
  OBVIOUS
<1>2. d \in Int /\ n \in Int
  BY <1>1 DEF Typed, Contexts, Replies
<1>3. PICK next : next = CASE c.http_error = 100 -> "RECEIVE_DATA"
                [] c.http_error # 100 /\ Counted(m) -> "WAIT_REQUEST"
                [] c.http_error \notin {0, 100} /\ ~Counted(m) -> "CLOSED"
                [] c.http_error = 0 /\ ~Counted(m) -> "SEND_DATA_HEADER"
  OBVIOUS
<1>4. PICK e : e = CASE next = "WAIT_REQUEST" -> "kept" [] next = "CLOSED" -> "closed" [] OTHER -> "no"
  OBVIOUS
<1>5. /\ c' = [m EXCEPT !.state = next]
      /\ reply' = [reply EXCEPT !.status = c.http_error, !.sent = n, !.ended = e]
  BY <1>1, <1>3, <1>4, ZenonT(40) DEF SendHeader
<1>6. c' = [c EXCEPT !.state = next, !.data_count = d, !.head = 0, !.body = 0]
  BY <1>1, <1>5 DEF Typed, Contexts
<1>7. m.keep_alive = c.keep_alive /\ m.total_count = c.total_count
  BY DEF Typed, Contexts
<1> HIDE DEF m
<1>8. /\ next \in {"RECEIVE_DATA", "WAIT_REQUEST", "CLOSED", "SEND_DATA_HEADER"}
      /\ c.http_error = 100 => next = "RECEIVE_DATA"
      /\ next = "RECEIVE_DATA" => c.http_error = 100
      /\ next = "WAIT_REQUEST" => Counted(m)
      /\ next = "CLOSED" => c.http_error # 0
      /\ next = "SEND_DATA_HEADER" => c.http_error = 0
  BY <1>3
<1>9. e \in {"no", "kept", "closed"}
  BY <1>4
<1>10. Counted(m) => c.keep_alive /\ c.total_count > 0
  BY <1>7 DEF Counted
<1>11. HeadGone(next, d, n, e)
  BY <1>1, <1>2, <1>4, <1>8, <1>9, <1>10 DEF HeadGone
<1> QED BY <1>5, <1>6, <1>11

\* The connection after its upload is over.
LEMMA UploadedShape ==
  ASSUME Typed
  PROVE  /\ Uploaded \in Contexts /\ Uploaded.state = "SEND_HEADER" /\ Uploaded.http_error = 200
         /\ Uploaded.body = 0 /\ Uploaded.local_fd = "none" /\ Uploaded.keep_alive = c.keep_alive
         /\ Untouched(Uploaded, c) /\ Uncut(Uploaded, c)
<1>1. PICK q : q = [c EXCEPT !.local_fd = "none"]
  OBVIOUS
<1>2. /\ q \in Contexts /\ q.local_fd = "none" /\ q.keep_alive = c.keep_alive
      /\ Untouched(q, c) /\ Uncut(q, c)
  BY <1>1 DEF Typed, Contexts, Files, Untouched, Uncut
<1>3. PICK u : u = SendHeadOnly(q, 200)
  OBVIOUS
<1>4. /\ u \in Contexts /\ u.state = "SEND_HEADER" /\ u.http_error = 200 /\ u.body = 0
      /\ u.local_fd = q.local_fd /\ u.keep_alive = q.keep_alive /\ Untouched(u, q) /\ Uncut(u, q)
  <2>1. 200 \in Status
    BY DEF Status
  <2> QED BY <1>2, <1>3, <2>1, HeadShape
<1>5. Untouched(u, c) /\ Uncut(u, c)
  BY <1>2, <1>4 DEF Untouched, Uncut
<1>6. u = Uploaded
  BY <1>1, <1>3 DEF Uploaded
<1> QED BY <1>2, <1>4, <1>5, <1>6

\* What one read of an upload leaves: n more blocks, and the connection as it was or its
\* upload over.
LEMMA UploadStep ==
  ASSUME Typed, NEW n \in Int, NEW m \in {c, Uploaded}, c' = [m EXCEPT !.data_count = c.data_count + n]
  PROVE  /\ c' \in Contexts /\ c'.state = m.state /\ c'.http_error = m.http_error
         /\ c'.local_fd = m.local_fd /\ c'.body = m.body /\ c'.keep_alive = c.keep_alive
         /\ c'.data_count = c.data_count + n /\ c'.content_length = c.content_length
         /\ c'.only_header = c.only_header /\ c'.inm = c.inm /\ Uncut(c', c)
<1>1. m \in Contexts /\ c.data_count \in Int
  BY UploadedShape DEF Typed, Contexts
<1>2. m.keep_alive = c.keep_alive /\ Untouched(m, c) /\ Uncut(m, c)
  BY UploadedShape DEF Untouched, Uncut
<1>3. PICK d : d = c.data_count + n
  OBVIOUS
<1>4. PICK q : q = c'
  OBVIOUS
<1>5. d \in Int /\ q = [m EXCEPT !.data_count = d]
  BY <1>1, <1>3, <1>4
<1>6. q \in Contexts /\ q.data_count = d /\ Uncut(q, m)
  BY <1>1, <1>5 DEF Contexts, Uncut
<1>7. /\ q.state = m.state /\ q.http_error = m.http_error /\ q.local_fd = m.local_fd
      /\ q.body = m.body /\ q.keep_alive = m.keep_alive /\ q.content_length = m.content_length
      /\ q.only_header = m.only_header /\ q.inm = m.inm
  BY <1>1, <1>5 DEF Contexts
<1> QED BY <1>2, <1>3, <1>4, <1>6, <1>7 DEF Untouched, Uncut

LEMMA ReceiveShape ==
  ASSUME Typed, ReceiveData
  PROVE  \E n \in Int, m \in {c, Uploaded} :
           /\ 1 <= n /\ n <= req.size - stored /\ stored' = stored + n
           /\ c' = [m EXCEPT !.data_count = c.data_count + n]
           /\ m = IF over(c.data_count + n) THEN Uploaded ELSE c
<1>1. PICK n \in 1 .. req.size - stored :
         /\ stored' = stored + n
         /\ c' = [(IF over(c.data_count + n) THEN Uploaded ELSE c) EXCEPT !.data_count = c.data_count + n]
  BY DEF ReceiveData
<1>2. n \in Int /\ 1 <= n /\ n <= req.size - stored
  OBVIOUS
<1> QED BY <1>1, <1>2

LEMMA MisreadShape ==
  ASSUME Typed, ReceiveMisread
  PROVE  \E n \in Int, m \in {c, Uploaded} :
           /\ n >= 0 /\ stored' = stored + n /\ c' = [m EXCEPT !.data_count = c.data_count + n]
<1>1. PICK n \in 0 .. req.size - stored, m \in {c, Uploaded} :
         stored' = stored + n /\ c' = [m EXCEPT !.data_count = @ + n]
  BY DEF ReceiveMisread
<1>2. m.data_count = c.data_count
  BY UploadedShape DEF Untouched
<1> QED BY <1>1, <1>2

\* local_prepare_data: the file at its end, a block of it, or its closing.
LEMMA FileShape ==
  ASSUME Typed, SendData
  PROVE  \/ /\ c' = [c EXCEPT !.state = "WAIT_REQUEST"] /\ reply' = [reply EXCEPT !.ended = "kept"]
            /\ c.keep_alive /\ (c.total_count > 0 \/ c.local_fd = "done")
         \/ /\ c' = [c EXCEPT !.state = "CLOSED"] /\ reply' = [reply EXCEPT !.ended = "closed"]
            /\ c.local_fd = "done"
         \/ /\ c' = [c EXCEPT !.left = c.left - 1, !.data_count = c.data_count + 1]
            /\ reply' = [reply EXCEPT !.sent = reply.sent + 1]
            /\ c.local_fd = "open" /\ c.left > 0
         \/ /\ c' = [c EXCEPT !.local_fd = "done"] /\ reply' = reply
            /\ c.local_fd = "open" /\ c.left = 0
<1>1. CASE SendFileEnd
  BY <1>1 DEF SendFileEnd, End, Counted
<1>2. CASE SendFile
  BY <1>2 DEF SendFile
<1> QED BY <1>1, <1>2 DEF SendData

LEMMA TypedNext == Typed /\ [Next]_vars => Typed'
<1> SUFFICES ASSUME Typed, [Next]_vars PROVE Typed'
  OBVIOUS
<1>a. c \in Contexts /\ reply \in Replies
  BY DEF Typed
<1>1. ASSUME NEW r \in Requests, ParseRequest(r) PROVE Typed'
  BY <1>1, TypedParse
<1>2. CASE SendHeader
  <2>1. PICK next, d, n, e :
           /\ HeadGone(next, d, n, e)
           /\ c' = [c EXCEPT !.state = next, !.data_count = d, !.head = 0, !.body = 0]
           /\ reply' = [reply EXCEPT !.status = c.http_error, !.sent = n, !.ended = e]
    BY <1>2, HeaderSent
  <2>2. next \in States /\ d \in Int /\ n \in Int /\ e \in {"no", "kept", "closed"}
    BY <2>1 DEF HeadGone, States
  <2>3. c' \in Contexts
    <3>1. PICK q : q = c'
      OBVIOUS
    <3>2. q = [c EXCEPT !.state = next, !.data_count = d, !.head = 0, !.body = 0]
      BY <2>1, <3>1
    <3>3. next \in States /\ d \in Int /\ 0 \in Nat /\ 0 \in Int
      BY <2>2
    <3>4. q \in Contexts
      BY <1>a, <3>2, <3>3 DEF Contexts
    <3> QED BY <3>1, <3>4
  <2>4. c.http_error \in Status
    BY <1>a DEF Contexts
  <2>5. reply' \in Replies
    BY <1>a, <2>1, <2>2, <2>4 DEF Replies
  <2> QED BY <1>2, <2>3, <2>5 DEF SendHeader, Typed
<1>3. CASE SendData
  <2>1. c.left \in Int /\ c.data_count \in Int /\ reply.sent \in Int
    BY <1>a DEF Contexts, Replies
  <2>2. {"WAIT_REQUEST", "CLOSED"} \subseteq States /\ "done" \in Files
    BY DEF States, Files
  <2>a. PICK l, d, n : l = c.left - 1 /\ d = c.data_count + 1 /\ n = reply.sent + 1
    OBVIOUS
  <2>b. l \in Int /\ d \in Int /\ n \in Int
    BY <2>1, <2>a
  <2>c. \/ c' = [c EXCEPT !.state = "WAIT_REQUEST"] /\ reply' = [reply EXCEPT !.ended = "kept"]
        \/ c' = [c EXCEPT !.state = "CLOSED"] /\ reply' = [reply EXCEPT !.ended = "closed"]
        \/ c' = [c EXCEPT !.left = l, !.data_count = d] /\ reply' = [reply EXCEPT !.sent = n]
        \/ c' = [c EXCEPT !.local_fd = "done"] /\ reply' = reply
    BY <1>3, <2>a, FileShape, ZenonT(40)
  <2>3. c' \in Contexts
    BY <1>a, <2>b, <2>2, <2>c DEF Contexts
  <2>4. reply' \in Replies
    BY <1>a, <2>b, <2>c DEF Replies
  <2> QED BY <1>3, <2>3, <2>4 DEF SendData, Typed
<1>4. CASE ReceiveData
  <2>1. c' \in Contexts /\ stored' \in Int
    <3>1. PICK n \in Int, m \in {c, Uploaded} :
             stored' = stored + n /\ c' = [m EXCEPT !.data_count = c.data_count + n]
      BY <1>4, ReceiveShape
    <3>2. c' \in Contexts
      BY <3>1, UploadStep
    <3>3. stored' \in Int
      BY <3>1 DEF Typed
    <3> QED BY <3>2, <3>3
  <2> QED BY <1>4, <2>1 DEF ReceiveData, Typed
<1>5. CASE ReceiveMisread
  <2>1. c' \in Contexts /\ stored' \in Int
    <3>1. PICK n \in Int, m \in {c, Uploaded} :
             stored' = stored + n /\ c' = [m EXCEPT !.data_count = c.data_count + n]
      BY <1>5, MisreadShape
    <3>2. c' \in Contexts
      BY <3>1, UploadStep
    <3>3. stored' \in Int
      BY <3>1 DEF Typed
    <3> QED BY <3>2, <3>3
  <2> QED BY <1>5, <2>1 DEF ReceiveMisread, Typed
<1>6. CASE PlayStream
  <2>1. c' \in Contexts
    BY <1>a, <1>6 DEF PlayStream, Contexts, States
  <2> QED BY <1>6, <2>1 DEF PlayStream, Typed
<1>7. CASE UploadEnds
  <2>1. c' \in Contexts
    BY <1>7, UploadedShape DEF UploadEnds
  <2> QED BY <1>7, <2>1 DEF UploadEnds, Typed
<1>8. CASE Drop
  <2>1. c' \in Contexts
    BY <1>a, <1>8 DEF Drop, Contexts, States
  <2> QED BY <1>8, <2>1 DEF Drop, Typed
<1>9. CASE UNCHANGED vars
  BY <1>9 DEF vars, Typed
<1> QED BY <1>1, <1>2, <1>3, <1>4, <1>5, <1>6, <1>7, <1>8, <1>9 DEF Next, Serve

-----------------------------------------------------------------------------
(* Uploads *)

LEMMA UploadInit == Init => Unused /\ Upload
  BY DEF Init, Fresh, Unused, Upload, FirstUpload

LEMMA UploadParse ==
  ASSUME Typed, Unused, NEW r \in Requests, ParseRequest(r)
  PROVE  Unused' /\ Upload'
<1>1. requests \in Nat /\ requests' = requests + 1 /\ req' = r /\ stored' = 0
  BY DEF Typed, ParseRequest
<1>2. ASSUME FirstUpload' PROVE /\ c'.state = "RECEIVE_DATA" /\ c'.http_error = 0
                                /\ c'.tr_encoding = 0 /\ c'.content_length = r.size
                                /\ c'.data_count = 0 /\ 0 <= r.size
  <2>1. r.kind = "PUT" /\ r.size >= 0 /\ ~r.expect /\ requests = 0 /\ r.size \in Int
    BY <1>1, <1>2, RequestTyped DEF FirstUpload
  <2>2. c.tr_encoding = 0 /\ c.data_count = 0
    BY <2>1 DEF Unused
  <2>3. c' = Parsed(handle_line(r), r)
    BY DEF ParseRequest
  <2> QED BY <2>1, <2>2, <2>3, ParsedTyped DEF Typed
<1>3. Unused'
  BY <1>1 DEF Unused
<1>4. Upload'
  BY <1>1, <1>2 DEF Upload
<1> QED BY <1>3, <1>4

LEMMA UploadNext == Typed /\ Unused /\ Upload /\ [Next]_vars => Unused' /\ Upload'
<1> SUFFICES ASSUME Typed, Unused, Upload, [Next]_vars PROVE Unused' /\ Upload'
  OBVIOUS
<1>1. ASSUME NEW r \in Requests, ParseRequest(r) PROVE Unused' /\ Upload'
  BY <1>1, UploadParse
<1>2. CASE SendHeader
  <2>1. /\ c'.state \in {"RECEIVE_DATA", "WAIT_REQUEST", "CLOSED", "SEND_DATA_HEADER"}
        /\ c'.http_error = c.http_error
        /\ c'.state = "RECEIVE_DATA" => c.http_error = 100
        /\ c'.state = "SEND_DATA_HEADER" => c.http_error = 0
    <3>1. PICK next, d, n, e :
             /\ HeadGone(next, d, n, e)
             /\ c' = [c EXCEPT !.state = next, !.data_count = d, !.head = 0, !.body = 0]
      BY <1>2, HeaderSent
    <3>2. c'.state = next /\ c'.http_error = c.http_error
      BY <3>1 DEF Typed, Contexts
    <3> QED BY <3>1, <3>2 DEF HeadGone
  <2>2. UNCHANGED <<req, stored, peer, requests>> /\ c.state = "SEND_HEADER"
    BY <1>2 DEF SendHeader
  <2> QED BY <2>1, <2>2 DEF Unused, Upload, FirstUpload
<1>3. CASE SendData
  <2>1. UNCHANGED <<req, stored, peer, requests>> /\ c.state = "SEND_DATA_HEADER"
    BY <1>3 DEF SendData
  <2> QED BY <2>1 DEF Unused, Upload, FirstUpload
<1>4. CASE ReceiveData
  <2>1. UNCHANGED <<req, peer, requests>> /\ c.state = "RECEIVE_DATA"
    BY <1>4 DEF ReceiveData
  <2>2. PICK n \in Int, m \in {c, Uploaded} :
           /\ 1 <= n /\ n <= req.size - stored /\ stored' = stored + n
           /\ c' = [m EXCEPT !.data_count = c.data_count + n]
           /\ m = IF over(c.data_count + n) THEN Uploaded ELSE c
    BY <1>4, ReceiveShape
  <2>3. /\ c'.state = m.state /\ c'.http_error = m.http_error /\ c'.tr_encoding = c.tr_encoding
        /\ c'.data_count = c.data_count + n /\ c'.content_length = c.content_length
    BY <2>2, UploadStep DEF Uncut
  <2>4. Unused'
    BY <2>1 DEF Unused
  <2>5. ASSUME FirstUpload' PROVE Upload'
    <3>1. FirstUpload /\ req' = req
      BY <2>1, <2>5 DEF FirstUpload
    <3>2. /\ c.state = "RECEIVE_DATA" /\ c.http_error = 0 /\ c.tr_encoding = 0
          /\ c.content_length = req.size /\ c.data_count = stored
          /\ 0 <= stored /\ stored <= req.size
      BY <2>1, <3>1 DEF Upload
    <3>3. req.size \in Int /\ stored \in Int
      BY <3>1, RequestTyped DEF FirstUpload, Typed
    <3>4. CASE over(c.data_count + n)
      <4>1. stored' = req.size
        BY <2>2, <3>2, <3>3, <3>4 DEF over
      <4>2. c'.state = "SEND_HEADER" /\ c'.http_error = 200
        BY <2>2, <2>3, <3>4, UploadedShape
      <4> QED BY <3>1, <4>1, <4>2 DEF Upload
    <3>5. CASE ~over(c.data_count + n)
      <4>1. 0 <= stored' /\ stored' <= req.size
        BY <2>2, <3>2, <3>3
      <4> QED BY <2>2, <2>3, <3>1, <3>2, <3>5, <4>1 DEF Upload
    <3> QED BY <3>4, <3>5
  <2> QED BY <2>4, <2>5 DEF Upload
<1>5. CASE ReceiveMisread
  <2>1. UNCHANGED <<req, peer, requests>> /\ c.state = "RECEIVE_DATA" /\ c.tr_encoding = 1
    BY <1>5 DEF ReceiveMisread
  <2> QED BY <2>1 DEF Unused, Upload, FirstUpload
<1>6. CASE PlayStream
  <2>1. UNCHANGED <<req, stored, peer, requests>> /\ c.state = "SEND_DATA_HEADER"
    BY <1>6 DEF PlayStream
  <2> QED BY <2>1 DEF Unused, Upload, FirstUpload
<1>7. CASE UploadEnds
  <2>1. peer' = "gone" /\ UNCHANGED requests /\ c.state = "RECEIVE_DATA"
    BY <1>7 DEF UploadEnds
  <2> QED BY <2>1 DEF Unused, Upload, FirstUpload
<1>8. CASE Drop
  <2>1. peer' = "gone" /\ UNCHANGED <<req, requests>>
    BY <1>8 DEF Drop
  <2>2. /\ c'.state = "CLOSED" /\ c'.http_error = c.http_error
        /\ c'.tr_encoding = c.tr_encoding /\ c'.data_count = c.data_count
    BY <1>8 DEF Drop, Typed, Contexts
  <2> QED BY <2>1, <2>2 DEF Unused, Upload, FirstUpload
<1>9. CASE UNCHANGED vars
  BY <1>9 DEF vars, Unused, Upload, FirstUpload
<1> QED BY <1>1, <1>2, <1>3, <1>4, <1>5, <1>6, <1>7, <1>8, <1>9 DEF Next, Serve

\* Readme.txt: "curl --upload-file your-file".  When the client of the first upload of a
\* connection is told 200 (http_receive_data, Uploaded), the whole of it is in the file,
\* however many reads it took and whatever its size.
THEOREM UploadStored == Spec => []UploadWhole
<1>1. Init => UploadInv
  BY TypedInit, UploadInit DEF UploadInv
<1>2. UploadInv /\ [Next]_vars => UploadInv'
  BY TypedNext, UploadNext DEF UploadInv
<1>3. UploadInv => UploadWhole
  BY DEF UploadInv, Upload, FirstUpload, UploadWhole
<1> QED BY <1>1, <1>2, <1>3, PTL DEF Spec

-----------------------------------------------------------------------------
(* Files and listings *)

\* The connection as handle_line leaves it, and what Parsed makes of it for a request.
Ready(m) == /\ m \in Contexts /\ m.total_count = 0 /\ m.left >= 0 /\ m.data_count >= 0
            /\ m.body >= 0 /\ ~m.only_header
Prepared(p) == /\ p.left >= 0 /\ p.total_count >= 0 /\ p.data_count >= 0 /\ p.body >= 0
               /\ ~p.only_header
               /\ p.total_count > 0 => /\ ~p.keep_alive /\ p.state = "SEND_HEADER"
                                       /\ p.http_error = 0 /\ p.local_fd # "none"
Found304(p) == p.state = "SEND_HEADER" /\ p.http_error = 304 /\ p.body = 0
Carries(p, n) == /\ p.state = "SEND_HEADER"
                 /\ \/ p.http_error = 200 /\ p.body = n
                    \/ p.http_error = 0 /\ p.local_fd = "open" /\ p.body + p.left = n

LEMMA PreparedHead ==
  ASSUME NEW m, Ready(m), NEW status \in Status
  PROVE  /\ Prepared(SendHeadOnly(m, status)) /\ SendHeadOnly(m, status) \in Contexts
         /\ SendHeadOnly(m, status).total_count = 0 /\ SendHeadOnly(m, status).inm = m.inm
         /\ SendHeadOnly(m, status).state = "SEND_HEADER" /\ SendHeadOnly(m, status).body = 0
         /\ SendHeadOnly(m, status).http_error = status
  BY HeadShape DEF Ready, Prepared, Untouched, Uncut

LEMMA PreparedList ==
  ASSUME NEW m, Ready(m), NEW r \in Requests, Sensible(r), r.kind = "LIST"
  PROVE  /\ Prepared(dir_list_local(m, r)) /\ Carries(dir_list_local(m, r), r.size)
         /\ dir_list_local(m, r).inm = m.inm
<1>1. PICK q : q = SendHeadOnly(m, 200)
  OBVIOUS
<1>2. /\ Prepared(q) /\ q \in Contexts /\ q.total_count = 0 /\ q.inm = m.inm
      /\ q.state = "SEND_HEADER" /\ q.http_error = 200
  BY <1>1, PreparedHead DEF Status
<1>3. PICK z : z = r.size
  OBVIOUS
<1>4. z \in Int /\ z >= 0 /\ ~m.only_header
  BY <1>3, RequestTyped DEF Sensible, Ready
<1>5. PICK p : p = dir_list_local(m, r)
  OBVIOUS
<1>6. p = [q EXCEPT !.local_fd = "none", !.body = z]
  BY <1>1, <1>3, <1>4, <1>5 DEF dir_list_local
<1>7. /\ p.body = z /\ p.left = q.left /\ p.total_count = q.total_count
      /\ p.data_count = q.data_count /\ p.only_header = q.only_header
      /\ p.state = q.state /\ p.http_error = q.http_error /\ p.inm = q.inm
  BY <1>2, <1>6 DEF Contexts
<1> QED BY <1>2, <1>3, <1>4, <1>5, <1>7 DEF Prepared, Carries

LEMMA PreparedFile ==
  ASSUME NEW m, Ready(m), NEW r \in Requests, Sensible(r), Found(r)
  PROVE  LET p == prepare_local_file(m, r)
         IN /\ Prepared(p) /\ p.inm = m.inm
            /\ m.inm = r.size => Found304(p)
            /\ m.inm # r.size /\ Chunked(m, r) => Carries(p, r.size)
            /\ m.inm # r.size /\ ~Chunked(m, r) => Carries(p, wanted(r))
<1>1. PICK p : p = prepare_local_file(m, r)
  OBVIOUS
<1>2. m \in Contexts /\ m.total_count = 0 /\ ~m.only_header /\ m.data_count >= 0 /\ m.left >= 0
  BY DEF Ready
<1>3. /\ r.size \in Int /\ r.size >= 0 /\ r.from \in Nat /\ wanted(r) \in Int /\ wanted(r) >= 0
      /\ wanted(r) >= FileBuf => wanted(r) = r.size - r.from
  BY RequestTyped DEF Sensible, Found
<1>4. CASE m.inm = r.size
  <2>1. PICK q : q = SendHeadOnly(m, 304)
    OBVIOUS
  <2>2. /\ Prepared(q) /\ q \in Contexts /\ q.total_count = 0 /\ q.inm = m.inm
        /\ q.state = "SEND_HEADER" /\ q.http_error = 304 /\ q.body = 0
    BY <2>1, PreparedHead DEF Status
  <2>3. p = [q EXCEPT !.local_fd = "none"]
    BY <1>1, <1>4, <2>1, FileCases
  <2>4. /\ p.body = q.body /\ p.left = q.left /\ p.total_count = q.total_count
        /\ p.data_count = q.data_count /\ p.only_header = q.only_header
        /\ p.state = q.state /\ p.http_error = q.http_error /\ p.inm = q.inm
    BY <2>2, <2>3 DEF Contexts
  <2> QED BY <1>1, <1>4, <2>2, <2>4 DEF Prepared, Found304
<1>5. CASE m.inm # r.size /\ Chunked(m, r)
  <2>1. p = SendChunked(m, r)
    BY <1>1, <1>5, FileCases
  <2>2. /\ p.state = "SEND_HEADER" /\ p.http_error = 0 /\ p.body = 0 /\ p.local_fd = "open"
        /\ p.left = r.size /\ p.total_count = m.total_count /\ Untouched(p, m)
    BY <1>2, <2>1, ChunkedShape
  <2> QED BY <1>1, <1>2, <1>3, <1>5, <2>2 DEF Prepared, Carries, Untouched
<1>6. CASE m.inm # r.size /\ ~Chunked(m, r)
  <2>1. p = SendPart(m, r)
    BY <1>1, <1>6, FileCases
  <2>2. PICK w : w = wanted(r)
    OBVIOUS
  <2>3. /\ p.state = "SEND_HEADER" /\ p.keep_alive = m.keep_alive /\ Untouched(p, m)
        /\ p.http_error = IF w < FileBuf THEN 200 ELSE 0
        /\ w < FileBuf => p.total_count = 0 /\ p.left = m.left /\ p.body = w
        /\ ~(w < FileBuf) => /\ p.total_count = 1 + w /\ p.local_fd = "open"
                             /\ p.left = r.size - r.from - (FileBuf - 1) /\ p.body = FileBuf - 1
    BY <1>2, <2>1, <2>2, PartShape
  <2>4. CASE w < FileBuf
    BY <1>1, <1>2, <1>3, <1>6, <2>2, <2>3, <2>4 DEF Prepared, Carries, Untouched
  <2>5. CASE ~(w < FileBuf)
    <3>1. FileBuf \in Nat /\ ChunkedMin \in Nat /\ ChunkedMin <= FileBuf /\ FileBuf > 1
      BY RequestAssumption
    <3>2. w = r.size - r.from /\ r.size >= ChunkedMin
      BY <1>3, <2>2, <2>5, <3>1
    <3>3. ~p.keep_alive
      BY <1>6, <2>3, <3>2 DEF Chunked
    <3>4. p.left >= 0 /\ p.body >= 0 /\ p.body + p.left = w /\ p.total_count >= 0
      BY <1>3, <2>2, <2>3, <2>5, <3>1, <3>2
    <3> QED BY <1>1, <1>2, <1>6, <2>2, <2>3, <2>5, <3>3, <3>4 DEF Prepared, Carries, Untouched
  <2> QED BY <2>4, <2>5
<1> QED BY <1>4, <1>5, <1>6

LEMMA ReplyInit == Init => Amounts /\ Uncounted /\ Answer
  BY RequestAssumption DEF Init, Fresh, NoReply, Amounts, Uncounted, Answer, Asked

\* A new request: its reply is announced, and nothing of it is sent.
LEMMA ReplyParse ==
  ASSUME SensibleRequests, Typed, Amounts, Uncounted, NEW r \in Requests, ParseRequest(r)
  PROVE  Amounts' /\ Uncounted' /\ Answer'
<1>1. PICK m : m = handle_line(r)
  OBVIOUS
<1>2. PICK p : p = Parsed(m, r)
  OBVIOUS
<1>3. /\ c.state = "WAIT_REQUEST" /\ c' = p /\ req' = r /\ stored' = 0
      /\ reply'.sent = 0 /\ reply'.ended = "no"
      /\ reply'.length = IF r.kind = "LIST" \/ (Found(r) /\ dir_is_modifed(m, r) /\ ~Chunked(m, r))
                         THEN wanted(r) ELSE -1
  <2>1. /\ c.state = "WAIT_REQUEST" /\ c' = p /\ req' = r /\ stored' = 0
    BY <1>1, <1>2 DEF ParseRequest
  <2>2. PICK k, l : /\ l = (IF r.kind = "LIST" \/ (Found(r) /\ dir_is_modifed(m, r) /\ ~Chunked(m, r))
                            THEN wanted(r) ELSE -1)
                    /\ reply' = [NoReply EXCEPT !.kept = k, !.length = l]
    BY <1>1, ZenonT(40) DEF ParseRequest
  <2>3. reply'.sent = 0 /\ reply'.ended = "no" /\ reply'.length = l
    BY <2>2 DEF NoReply
  <2> QED BY <2>1, <2>2, <2>3
<1>4. /\ Sensible(r) /\ r.kind # "HEAD" /\ r # NoRequest /\ r.size \in Int /\ wanted(r) \in Int
      /\ r.kind \in {"GET", "PUT", "STREAM", "LIST", "COMMAND"}
  BY RequestTyped DEF SensibleRequests, Sensible
<1>5. Ready(m)
  <2>1. /\ m \in Contexts /\ m.only_header = (c.only_header \/ r.kind = "HEAD")
        /\ m.data_count = c.data_count /\ m.body = c.body /\ Uncut(m, c)
    BY <1>1, LineShape DEF Typed
  <2>2. c.total_count = 0
    BY <1>3 DEF Typed, Contexts, Amounts, Uncounted
  <2> QED BY <1>4, <2>1, <2>2 DEF Ready, Uncut, Amounts
<1>6. ByKind(p, m, r)
  BY <1>2, ParsedCases
<1>7. Prepared(p)
  <2>1. CASE r.kind \in {"STREAM", "COMMAND"} \/ (r.kind = "PUT" /\ r.size < 0)
    <3>1. {0, 403, 200, 417} \subseteq Status /\ dir_delete_file(r) \in Status
      BY DEF Status, dir_delete_file
    <3>2. \E status \in Status : p = SendHeadOnly(m, status)
      BY <1>6, <2>1, <3>1 DEF ByKind
    <3> QED BY <1>5, <3>2, PreparedHead
  <2>2. CASE r.kind = "LIST"
    BY <1>4, <1>5, <1>6, <2>2, PreparedList DEF ByKind
  <2>3. CASE r.kind = "PUT" /\ r.size >= 0
    <3>1. PICK q : q = SendHeadOnly(m, 100)
      OBVIOUS
    <3>2. q \in Contexts /\ Prepared(q) /\ q.total_count = 0
      BY <1>5, <3>1, PreparedHead DEF Status
    <3>3. r.expect \in BOOLEAN
      BY RequestTyped
    <3>4. \/ p = [q EXCEPT !.local_fd = "open"]
          \/ p = [m EXCEPT !.state = "RECEIVE_DATA", !.http_error = 0, !.local_fd = "open"]
      BY <1>6, <2>3, <3>1, <3>3 DEF ByKind
    <3>5. CASE p = [q EXCEPT !.local_fd = "open"]
      BY <3>2, <3>5 DEF Prepared, Contexts
    <3>6. CASE p = [m EXCEPT !.state = "RECEIVE_DATA", !.http_error = 0, !.local_fd = "open"]
      BY <1>5, <3>6 DEF Ready, Prepared, Contexts
    <3> QED BY <3>4, <3>5, <3>6
  <2>4. CASE r.kind = "GET" /\ ~Found(r)
    <3>1. PICK q : q = SendHeadOnly(m, 404)
      OBVIOUS
    <3>2. q \in Contexts /\ Prepared(q) /\ q.total_count = 0
      BY <1>5, <3>1, PreparedHead DEF Status
    <3>3. p = [q EXCEPT !.keep_alive = FALSE]
      BY <1>6, <2>4, <3>1 DEF ByKind
    <3> QED BY <3>2, <3>3 DEF Prepared, Contexts
  <2>5. CASE Found(r)
    BY <1>4, <1>5, <1>6, <2>5, PreparedFile DEF ByKind
  <2> QED BY <1>4, <2>1, <2>2, <2>3, <2>4, <2>5
<1>8. Amounts' /\ Uncounted'
  <2>1. c' = p /\ stored' = 0
    BY <1>3
  <2> QED BY <1>7, <2>1 DEF Prepared, Amounts, Uncounted
<1>9. ASSUME r.kind = "LIST" PROVE p.state = "SEND_HEADER" /\ Heading'
  <2>1. p = dir_list_local(m, r)
    BY <1>6, <1>9 DEF ByKind
  <2>2. Carries(p, r.size) /\ p.local_fd = "none"
    <3>1. PICK q, z : q = SendHeadOnly(m, 200) /\ p = [q EXCEPT !.local_fd = "none", !.body = z]
      BY <2>1, Zenon DEF dir_list_local
    <3>2. q \in Contexts
      BY <1>5, <3>1, PreparedHead DEF Status
    <3>3. p.local_fd = "none"
      BY <3>1, <3>2 DEF Contexts
    <3> QED BY <1>4, <1>5, <1>9, <2>1, <3>3, PreparedList
  <2>3. wanted(r) = r.size
    BY <1>4, <1>9, RequestTyped DEF Sensible, wanted
  <2>4. reply'.length = r.size
    BY <1>3, <1>9, <2>3
  <2>5. p.state = "SEND_HEADER" /\ p.http_error = 200 /\ p.body = r.size
    BY <2>2 DEF Carries
  <2>6. Wanted' = r.size /\ ~Named'
    BY <1>3, <1>9, <2>3, <2>4 DEF Wanted, Named
  <2> QED BY <1>3, <2>5, <2>6 DEF Heading
<1>10. ASSUME r.kind = "GET", Found(r) PROVE p.state = "SEND_HEADER" /\ Heading'
  <2>1. p = prepare_local_file(m, r)
    BY <1>6, <1>10 DEF ByKind
  <2>2. /\ p.inm = m.inm
        /\ m.inm = r.size => Found304(p)
        /\ m.inm # r.size /\ Chunked(m, r) => Carries(p, r.size)
        /\ m.inm # r.size /\ ~Chunked(m, r) => Carries(p, wanted(r))
    BY <1>4, <1>5, <1>10, <2>1, PreparedFile
  <2>3. Named' <=> m.inm = r.size
    BY <1>3, <1>10, <2>2 DEF Named
  <2>4. CASE m.inm = r.size
    BY <1>3, <2>2, <2>3, <2>4 DEF Heading, Found304
  <2>5. CASE m.inm # r.size /\ Chunked(m, r)
    <3>1. Wanted' = r.size
      BY <1>3, <1>10, <2>5 DEF Wanted
    <3> QED BY <1>3, <2>2, <2>3, <2>5, <3>1 DEF Heading, Carries
  <2>6. CASE m.inm # r.size /\ ~Chunked(m, r)
    <3>1. reply'.length = wanted(r) /\ wanted(r) >= 0
      BY <1>3, <1>4, <1>10, <2>6 DEF dir_is_modifed, Sensible
    <3>2. Wanted' = wanted(r)
      BY <1>3, <1>4, <3>1 DEF Wanted
    <3> QED BY <1>3, <2>2, <2>3, <2>6, <3>2 DEF Heading, Carries
  <2> QED BY <2>4, <2>5, <2>6
<1>11. Answer'
  <2>1. Asked' => c'.state = "SEND_HEADER" /\ Heading'
    BY <1>3, <1>9, <1>10 DEF Asked
  <2>2. reply'.ended = "no" /\ req' # NoRequest
    BY <1>3, <1>4
  <2> QED BY <2>1, <2>2 DEF Answer
<1> QED BY <1>8, <1>11

LEMMA ReplyHeader ==
  ASSUME Typed, Amounts, Uncounted, Answer, SendHeader
  PROVE  Amounts' /\ Uncounted' /\ Answer'
<1>1. PICK next, d, n, e :
         /\ HeadGone(next, d, n, e)
         /\ c' = [c EXCEPT !.state = next, !.data_count = d, !.head = 0, !.body = 0]
         /\ reply' = [reply EXCEPT !.status = c.http_error, !.sent = n, !.ended = e]
  BY HeaderSent
<1>2. /\ c'.state = next /\ c'.data_count = d /\ c'.body = 0 /\ c'.keep_alive = c.keep_alive
      /\ c'.http_error = c.http_error /\ c'.only_header = c.only_header /\ c'.local_fd = c.local_fd
      /\ c'.left = c.left /\ c'.total_count = c.total_count /\ c'.inm = c.inm
  BY <1>1 DEF Typed, Contexts
<1>3. /\ reply'.status = c.http_error /\ reply'.sent = n /\ reply'.ended = e
      /\ reply'.length = reply.length
  BY <1>1 DEF Typed, Replies
<1>4. c.state = "SEND_HEADER" /\ UNCHANGED <<req, stored>>
  BY DEF SendHeader
<1>5. /\ c.body \in Int /\ c.head \in Nat /\ c.data_count \in Int /\ c.left \in Int
      /\ c.total_count \in Int /\ reply.sent \in Int /\ c.keep_alive \in BOOLEAN
  BY DEF Typed, Contexts, Replies
<1>6. reply.ended = "no" /\ req # NoRequest
  BY <1>4 DEF Answer
<1>7. next # "WAIT_REQUEST"
  BY <1>1, <1>4 DEF HeadGone, Uncounted
<1>8. Amounts'
  <2>1. d >= 0
    BY <1>1, <1>5 DEF HeadGone, Amounts
  <2> QED BY <1>2, <1>4, <2>1 DEF Amounts
<1>9. Uncounted'
  <2>1. c.total_count > 0 => /\ ~c.keep_alive /\ c.http_error = 0 /\ c.local_fd # "none"
                             /\ next = "SEND_DATA_HEADER"
    BY <1>1, <1>4 DEF HeadGone, Uncounted
  <2> QED BY <1>2, <2>1 DEF Uncounted
<1>10. (Wanted' = Wanted) /\ (Named' <=> Named) /\ (Asked' <=> Asked)
  BY <1>2, <1>3, <1>4 DEF Wanted, Named, Asked
<1>11. next \in {"RECEIVE_DATA", "CLOSED", "SEND_DATA_HEADER"}
  BY <1>1, <1>7 DEF HeadGone
<1>12. e = IF next = "CLOSED" THEN "closed" ELSE "no"
  BY <1>1, <1>7 DEF HeadGone
<1>13. ASSUME Asked
       PROVE  \/ next = "CLOSED" /\ Whole'
              \/ next = "SEND_DATA_HEADER" /\ Sending'
  <2>1. Heading
    BY <1>4, <1>6, <1>13 DEF Answer
  <2>2. n = c.body
    BY <1>1, <1>5, <2>1 DEF HeadGone, Heading
  <2>3. CASE Named /\ c.http_error = 304 /\ c.body = 0
    <3>1. next = "CLOSED"
      BY <1>1, <1>11, <2>3 DEF HeadGone
    <3> QED BY <1>3, <1>10, <2>2, <2>3, <3>1 DEF Whole
  <2>4. CASE ~Named /\ c.http_error = 200 /\ c.body = Wanted
    <3>1. next = "CLOSED"
      BY <1>1, <1>11, <2>4 DEF HeadGone
    <3> QED BY <1>3, <1>10, <2>2, <2>4, <3>1 DEF Whole
  <2>5. CASE ~Named /\ c.http_error = 0 /\ c.local_fd = "open" /\ c.body + c.left = Wanted
    <3>1. next = "SEND_DATA_HEADER"
      BY <1>1, <1>11, <2>5 DEF HeadGone
    <3> QED BY <1>2, <1>3, <1>10, <2>2, <2>5, <3>1 DEF Sending
  <2> QED BY <2>1, <2>3, <2>4, <2>5 DEF Heading
<1>14. Answer'
  <2>1. CASE next = "CLOSED"
    <3>1. Asked => Whole'
      BY <1>13, <2>1
    <3> QED BY <1>2, <1>3, <1>4, <1>6, <1>10, <1>12, <2>1, <3>1 DEF Answer
  <2>2. CASE next = "SEND_DATA_HEADER"
    <3>1. Asked => Sending'
      BY <1>13, <2>2
    <3> QED BY <1>2, <1>3, <1>4, <1>6, <1>10, <1>12, <2>2, <3>1 DEF Answer
  <2>3. CASE next = "RECEIVE_DATA"
    <3>1. ~Asked
      BY <1>13, <2>3
    <3> QED BY <1>2, <1>3, <1>4, <1>6, <1>10, <1>12, <2>3, <3>1 DEF Answer
  <2> QED BY <1>11, <2>1, <2>2, <2>3
<1> QED BY <1>8, <1>9, <1>14

LEMMA ReplyFile ==
  ASSUME Typed, Amounts, Uncounted, Answer, SendData
  PROVE  Amounts' /\ Uncounted' /\ Answer'
<1>1. c.state = "SEND_DATA_HEADER" /\ c.local_fd # "none" /\ UNCHANGED <<req, stored>>
  BY DEF SendData
<1>2. reply.ended = "no" /\ req # NoRequest /\ (Asked => Sending)
  BY <1>1 DEF Answer
<1>3. /\ c.left \in Int /\ c.data_count \in Int /\ c.total_count \in Int
      /\ reply.sent \in Int /\ c.keep_alive \in BOOLEAN
  BY DEF Typed, Contexts, Replies
<1>5. ASSUME NEW state \in {"WAIT_REQUEST", "CLOSED"}, NEW e \in {"kept", "closed"},
             c' = [c EXCEPT !.state = state], reply' = [reply EXCEPT !.ended = e],
             c.local_fd = "done", c.total_count > 0 => state = "CLOSED"
      PROVE  Amounts' /\ Uncounted' /\ Answer'
  <2>1. /\ c'.state = state /\ c'.body = c.body /\ c'.keep_alive = c.keep_alive
        /\ c'.data_count = c.data_count /\ c'.only_header = c.only_header
        /\ c'.left = c.left /\ c'.total_count = c.total_count /\ c'.inm = c.inm
    BY <1>5 DEF Typed, Contexts
  <2>2. reply'.ended = e /\ reply'.sent = reply.sent /\ reply'.length = reply.length
    BY <1>5 DEF Typed, Replies
  <2>3. (Wanted' = Wanted) /\ (Named' <=> Named) /\ (Asked' <=> Asked)
    BY <1>1, <2>1, <2>2 DEF Wanted, Named, Asked
  <2>4. Asked' => Whole'
    BY <1>2, <1>5, <2>2, <2>3 DEF Sending, Whole
  <2>5. Amounts' /\ Uncounted'
    BY <1>1, <1>5, <2>1 DEF Amounts, Uncounted
  <2> QED BY <1>1, <1>2, <2>1, <2>2, <2>4, <2>5 DEF Answer
<1>6. ASSUME c'.state = c.state, c'.keep_alive = c.keep_alive, c'.inm = c.inm, c'.body = c.body,
             c'.only_header = c.only_header, c'.total_count = c.total_count,
             c'.local_fd # "none", reply'.ended = reply.ended, reply'.length = reply.length,
             c'.left >= 0, c'.data_count >= 0, Asked /\ ~Named => Sending'
      PROVE  Amounts' /\ Uncounted' /\ Answer'
  <2>1. (Wanted' = Wanted) /\ (Named' <=> Named) /\ (Asked' <=> Asked)
    BY <1>1, <1>6 DEF Wanted, Named, Asked
  <2>2. Asked' => Sending'
    BY <1>2, <1>6, <2>1 DEF Sending
  <2>3. Amounts' /\ Uncounted'
    BY <1>1, <1>6 DEF Amounts, Uncounted
  <2> QED BY <1>1, <1>2, <1>6, <2>2, <2>3 DEF Answer
<1>7. CASE /\ c' = [c EXCEPT !.state = "WAIT_REQUEST"] /\ reply' = [reply EXCEPT !.ended = "kept"]
           /\ c.keep_alive /\ (c.total_count > 0 \/ c.local_fd = "done")
  <2>1. ~(c.total_count > 0)
    BY <1>7 DEF Uncounted
  <2> QED BY <1>5, <1>7, <2>1
<1>8. CASE /\ c' = [c EXCEPT !.state = "CLOSED"] /\ reply' = [reply EXCEPT !.ended = "closed"]
           /\ c.local_fd = "done"
  BY <1>5, <1>8
<1>9. CASE /\ c' = [c EXCEPT !.left = c.left - 1, !.data_count = c.data_count + 1]
           /\ reply' = [reply EXCEPT !.sent = reply.sent + 1]
           /\ c.local_fd = "open" /\ c.left > 0
  <2>1. PICK l, d, n : l = c.left - 1 /\ d = c.data_count + 1 /\ n = reply.sent + 1
    OBVIOUS
  <2>2. c' = [c EXCEPT !.left = l, !.data_count = d] /\ reply' = [reply EXCEPT !.sent = n]
    BY <1>9, <2>1
  <2>3. /\ c'.state = c.state /\ c'.keep_alive = c.keep_alive /\ c'.inm = c.inm /\ c'.body = c.body
        /\ c'.only_header = c.only_header /\ c'.total_count = c.total_count
        /\ c'.local_fd = c.local_fd /\ c'.left = l /\ c'.data_count = d
    BY <2>2 DEF Typed, Contexts
  <2>4. reply'.ended = reply.ended /\ reply'.length = reply.length /\ reply'.sent = n
    BY <2>2 DEF Typed, Replies
  <2>5. l >= 0 /\ d >= 0 /\ n + l = reply.sent + c.left
    BY <1>3, <1>9, <2>1 DEF Amounts
  <2>6. Asked => Sending'
    BY <1>1, <1>2, <1>9, <2>3, <2>4, <2>5 DEF Sending, Wanted, Named
  <2> QED BY <1>6, <1>9, <2>3, <2>4, <2>5, <2>6
<1>10. CASE /\ c' = [c EXCEPT !.local_fd = "done"] /\ reply' = reply
            /\ c.local_fd = "open" /\ c.left = 0
  <2>1. /\ c'.state = c.state /\ c'.keep_alive = c.keep_alive /\ c'.inm = c.inm /\ c'.body = c.body
        /\ c'.only_header = c.only_header /\ c'.total_count = c.total_count
        /\ c'.local_fd = "done" /\ c'.left = c.left /\ c'.data_count = c.data_count
    BY <1>10 DEF Typed, Contexts
  <2>2. Asked => Sending'
    BY <1>1, <1>2, <1>3, <1>10, <2>1 DEF Sending, Wanted, Named
  <2> QED BY <1>6, <1>10, <2>1, <2>2 DEF Amounts
<1> QED BY <1>7, <1>8, <1>9, <1>10, FileShape

\* The steps of an upload: no reply that was asked for is on its way.
LEMMA ReplyUpload ==
  ASSUME Typed, Amounts, Uncounted, Answer, c.state = "RECEIVE_DATA",
         NEW n \in Int, n >= 0, stored' = stored + n, NEW m \in {c, Uploaded},
         c' = [m EXCEPT !.data_count = c.data_count + n], UNCHANGED <<req, reply>>
  PROVE  Amounts' /\ Uncounted' /\ Answer'
<1>1. /\ c'.state = m.state /\ c'.body = m.body /\ c'.data_count = c.data_count + n
      /\ c'.only_header = c.only_header /\ Uncut(c', c)
  BY UploadStep
<1>2. m.state \in {"RECEIVE_DATA", "SEND_HEADER"} /\ m.body >= 0
  BY UploadedShape DEF Amounts
<1>3. ~Asked /\ reply.ended = "no" /\ req # NoRequest /\ ~(c.total_count > 0)
  BY DEF Answer, Uncounted
<1>4. stored \in Int /\ c.data_count \in Int
  BY DEF Typed, Contexts
<1>5. Amounts'
  BY <1>1, <1>2, <1>4 DEF Amounts, Uncut
<1>6. Uncounted'
  BY <1>1, <1>3 DEF Uncounted, Uncut
<1>7. Answer'
  BY <1>3 DEF Answer, Asked
<1> QED BY <1>5, <1>6, <1>7

LEMMA ReplyNext ==
  SensibleRequests /\ Typed /\ Amounts /\ Uncounted /\ Answer /\ [Next]_vars
    => Amounts' /\ Uncounted' /\ Answer'
<1> SUFFICES ASSUME SensibleRequests, Typed, Amounts, Uncounted, Answer, [Next]_vars
             PROVE  Amounts' /\ Uncounted' /\ Answer'
  OBVIOUS
<1>1. ASSUME NEW r \in Requests, ParseRequest(r) PROVE Amounts' /\ Uncounted' /\ Answer'
  BY <1>1, ReplyParse
<1>2. CASE SendHeader
  BY <1>2, ReplyHeader
<1>3. CASE SendData
  BY <1>3, ReplyFile
<1>4. CASE ReceiveData
  <2>1. PICK n \in Int, m \in {c, Uploaded} :
           1 <= n /\ stored' = stored + n /\ c' = [m EXCEPT !.data_count = c.data_count + n]
    BY <1>4, ReceiveShape
  <2>2. n >= 0 /\ c.state = "RECEIVE_DATA" /\ UNCHANGED <<req, reply>>
    BY <1>4, <2>1 DEF ReceiveData
  <2> QED BY <2>1, <2>2, ReplyUpload
<1>5. CASE ReceiveMisread
  <2>1. PICK n \in Int, m \in {c, Uploaded} :
           n >= 0 /\ stored' = stored + n /\ c' = [m EXCEPT !.data_count = c.data_count + n]
    BY <1>5, MisreadShape
  <2>2. c.state = "RECEIVE_DATA" /\ UNCHANGED <<req, reply>>
    BY <1>5 DEF ReceiveMisread
  <2> QED BY <2>1, <2>2, ReplyUpload
<1>6. CASE PlayStream
  <2>1. /\ c.state = "SEND_DATA_HEADER" /\ c.local_fd = "none" /\ UNCHANGED <<req, reply, stored>>
        /\ c' = [c EXCEPT !.state = "SEND_DATA"]
    BY <1>6 DEF PlayStream
  <2>2. /\ c'.state = "SEND_DATA" /\ c'.body = c.body /\ c'.data_count = c.data_count
        /\ c'.only_header = c.only_header /\ c'.left = c.left /\ c'.total_count = c.total_count
    BY <2>1 DEF Typed, Contexts
  <2>3. ~Asked /\ reply.ended = "no" /\ req # NoRequest /\ ~(c.total_count > 0)
    BY <2>1 DEF Answer, Sending, Uncounted
  <2>4. Amounts' /\ Uncounted'
    BY <2>1, <2>2, <2>3 DEF Amounts, Uncounted
  <2>5. Answer'
    BY <2>1, <2>3 DEF Answer, Asked
  <2> QED BY <2>4, <2>5
<1>7. CASE UploadEnds
  <2>1. c.state = "RECEIVE_DATA" /\ c' = Uploaded /\ UNCHANGED <<req, reply, stored>>
    BY <1>7 DEF UploadEnds
  <2>2. /\ c'.state = "SEND_HEADER" /\ c'.body = 0 /\ Untouched(c', c) /\ Uncut(c', c)
    BY <2>1, UploadedShape
  <2>3. ~Asked /\ reply.ended = "no" /\ req # NoRequest /\ ~(c.total_count > 0)
    BY <2>1 DEF Answer, Uncounted
  <2>4. Amounts' /\ Uncounted'
    BY <2>1, <2>2, <2>3 DEF Amounts, Uncounted, Untouched, Uncut
  <2>5. Answer'
    BY <2>1, <2>3 DEF Answer, Asked
  <2> QED BY <2>4, <2>5
<1>8. CASE Drop
  <2>1. c' = [c EXCEPT !.state = "CLOSED"] /\ UNCHANGED <<req, reply, stored>>
    BY <1>8 DEF Drop
  <2>2. /\ c'.state = "CLOSED" /\ c'.body = c.body /\ c'.data_count = c.data_count
        /\ c'.only_header = c.only_header /\ c'.left = c.left /\ c'.total_count = c.total_count
        /\ c'.keep_alive = c.keep_alive /\ c'.inm = c.inm
    BY <2>1 DEF Typed, Contexts
  <2>3. Amounts' /\ Uncounted'
    BY <2>1, <2>2 DEF Amounts, Uncounted
  <2>4. (Whole' <=> Whole) /\ (Asked' <=> Asked)
    BY <2>1, <2>2 DEF Whole, Named, Wanted, Asked
  <2>5. Answer'
    BY <2>1, <2>2, <2>4 DEF Answer
  <2> QED BY <2>3, <2>5
<1>9. CASE UNCHANGED vars
  BY <1>9 DEF vars, Amounts, Uncounted, Answer, Asked, Heading, Sending, Whole, Named, Wanted
<1> QED BY <1>1, <1>2, <1>3, <1>4, <1>5, <1>6, <1>7, <1>8, <1>9 DEF Next, Serve

\* A finished reply to a GET of a file or directory carries exactly what was asked for,
\* whatever requests the connection has answered before and whatever they have left in
\* the HTTPContext (keep_alive, local_fd, data_count, total_count, tr_encoding, inm):
\* prepare_local_file, http_send_data and local_prepare_data, for requests as in Sensible.
THEOREM ReplyComplete ==
  ASSUME SensibleRequests
  PROVE  Spec => []ReplyWhole
<1>1. Init => ReplyInv
  BY TypedInit, ReplyInit DEF ReplyInv
<1>2. ReplyInv /\ [Next]_vars => ReplyInv'
  BY TypedNext, ReplyNext DEF ReplyInv
<1>3. ReplyInv => ReplyWhole
  <2> SUFFICES ASSUME ReplyInv PROVE ReplyWhole
    OBVIOUS
  <2>1. TypeOK
    BY DEF ReplyInv, Typed, Amounts, Contexts, States, Files, TypeOK
  <2>2. ASSUME reply.ended # "no", req.kind = "LIST" \/ (req.kind = "GET" /\ Found(req))
        PROVE  Whole
    BY <2>2 DEF ReplyInv, Answer, Asked
  <2> QED BY <2>1, <2>2 DEF ReplyWhole, Whole, Named, Wanted
<1> QED BY <1>1, <1>2, <1>3, PTL DEF Spec
=============================================================================
