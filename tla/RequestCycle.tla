---------------------------- MODULE RequestCycle ----------------------------
(***************************************************************************)
(* One connection of src/ffserver.c through its requests for local files   *)
(* and uploads: http_parse_request, prepare_local_file, the SEND_HEADER    *)
(* and SEND_DATA states, local_prepare_data, and http_receive_data of an   *)
(* upload.  The HTTPContext is reused by the next request of a kept-alive  *)
(* connection, and only some of its fields are reset in between; the model *)
(* keeps all the fields that decide what a reply looks like.               *)
(*                                                                         *)
(* Sizes are counted in blocks: one block is a response head, or what one  *)
(* read of a file into c->buffer returns.  Files of at least ChunkedMin    *)
(* blocks are MIN_SIZE_OF_LOCAL_FILE_FOR_CHUNKED and larger; FileBuf       *)
(* blocks are FILE_BUF_SIZE.  The tables of requests are in Requests.      *)
(***************************************************************************)
EXTENDS Integers

CONSTANTS Requests,      \* the requests a client may send, see Request
          MaxRequests,   \* bound: requests on the connection
          ChunkedMin, FileBuf,
          NoRequest

\* A request: the size of the file it names (-1: no such file; for a PUT the
\* content length, -1: an upload that is refused), the byte range it asks for
\* (to = -1: all of the file), and what handle_line reads from its headers; inm: an
\* If-None-Match that names the file as it is.  The size also stands for the etag of a
\* file, which it is a part of.  kind "STREAM" is a GET of a stream that is being fed,
\* "LIST" one of a directory, whose listing has that size, and "COMMAND" a DELETE or a
\* POST of sign_apk, which is refused when its size is 0.
Request == [kind : {"GET", "HEAD", "PUT", "STREAM", "LIST", "COMMAND"}, size : Int,
            from : Nat, to : Int, keep_alive : BOOLEAN, http11 : BOOLEAN,
            expect : BOOLEAN, inm : BOOLEAN]

ASSUME RequestAssumption ==
  /\ Requests \subseteq Request /\ NoRequest \notin Requests
  /\ MaxRequests \in Nat /\ {ChunkedMin, FileBuf} \subseteq Nat \ {0, 1}
  /\ ChunkedMin <= FileBuf   \* 8 KB and 2 MB

VARIABLES c,         \* the HTTPContext
          req,       \* the request being answered, or the last one answered
          reply,     \* what the client has been told and sent in answer to it
          stored,    \* blocks of the upload written to the file
          peer,      \* whether the client is "here" or "gone"
          requests   \* requests so far

vars == <<c, req, reply, stored, peer, requests>>

\* local_fd: "none" is -1, "done" is -2, "open" has left blocks before its end.
Fresh == [state |-> "WAIT_REQUEST", keep_alive |-> FALSE, http_error |-> 0,
          only_header |-> FALSE, local_fd |-> "none", left |-> 0,
          tr_encoding |-> 0, total_count |-> 0, data_count |-> 0,
          content_length |-> 0, inm |-> -1, head |-> 0, body |-> 0]

\* status, announced length (-1: none) and connection header of the reply, the
\* blocks of body sent, and how the reply ended.
NoReply == [status |-> 0, length |-> -1, kept |-> FALSE, sent |-> 0, ended |-> "no"]

Init == /\ c = Fresh
        /\ req = NoRequest
        /\ reply = NoReply
        /\ stored = 0
        /\ peer = "here"
        /\ requests = 0

-----------------------------------------------------------------------------
Found(r) == r.kind \in {"GET", "HEAD"} /\ r.size >= 0
lesser(a, b) == IF a < b THEN a ELSE b

\* handle_line: what the headers of r change; keep_alive, only_header and inm are set
\* and never cleared.
handle_line(r) ==
  [c EXCEPT !.keep_alive = @ \/ r.keep_alive,
            !.only_header = @ \/ r.kind = "HEAD",
            !.inm = IF r.inm THEN r.size ELSE @,
            !.content_length = IF r.kind = "PUT" THEN r.size ELSE @]

\* The last block a request for a part of the file asks for, and the number of
\* blocks a request asks for.
off_end(r) == IF r.to <= 0 \/ r.to >= r.size THEN r.size - 1 ELSE r.to
wanted(r) == IF r.to >= 0 THEN off_end(r) - r.from + 1 ELSE r.size

\* prepare_local_file, a file of at least ChunkedMin blocks on a connection to
\* be kept: the head alone, the file follows in chunks.
SendChunked(m, r) ==
  [m EXCEPT !.state = "SEND_HEADER", !.http_error = 0,
            !.tr_encoding = IF r.http11 THEN 1 ELSE 0,
            !.keep_alive = r.http11,
            !.local_fd = "open", !.left = r.size, !.head = 1, !.body = 0]

\* Mutant: a file that does not fit the buffer is sent again from its beginning.
SendPartRewound(m, r) ==
  LET len   == lesser(lesser(wanted(r) + 1, FileBuf) - 1, wanted(r))
      whole == len = wanted(r)
  IN [m EXCEPT !.state = "SEND_HEADER",
               !.http_error = IF whole THEN 200 ELSE 0,
               !.local_fd = IF whole THEN "none" ELSE "open",
               !.left = IF whole THEN @ ELSE r.size,
               !.head = 1, !.body = len]

\* prepare_local_file, any other file: the head and as much of the wanted part
\* as fits the buffer.
SendPart(m, r) ==
  LET len   == lesser(lesser(wanted(r) + 1, FileBuf) - 1, wanted(r))
      whole == len = wanted(r)
  IN [m EXCEPT !.state = "SEND_HEADER",
               !.http_error = IF whole THEN 200 ELSE 0,
               !.local_fd = IF whole THEN "none" ELSE "open",
               !.left = IF whole THEN @ ELSE r.size - r.from - len,
               !.total_count = IF whole THEN @ ELSE 1 + wanted(r),
               !.head = 1, !.body = IF m.only_header THEN 0 ELSE len]

\* The answers that are a head only: errors, the answer to an upload, and the
\* header of a stream.
SendHeadOnly(m, status) == [m EXCEPT !.state = "SEND_HEADER", !.http_error = status,
                                     !.head = 1, !.body = 0]

\* prepare_local_file: which files are sent in chunks.
Chunked(m, r) == r.size >= ChunkedMin /\ m.keep_alive

\* dir_is_modifed: inm is an array of the connection and so never NULL; ims is not
\* looked at.
dir_is_modifed(m, r) == m.inm # r.size

prepare_local_file(m, r) ==
  CASE ~dir_is_modifed(m, r) -> [SendHeadOnly(m, 304) EXCEPT !.local_fd = "none"]
    [] dir_is_modifed(m, r) /\ Chunked(m, r)  -> SendChunked(m, r)
    [] dir_is_modifed(m, r) /\ ~Chunked(m, r) -> SendPart(m, r)

\* The listing of a directory is written at once, "Connection: close".
dir_list_local(m, r) ==
  [SendHeadOnly(m, 200) EXCEPT !.local_fd = "none", !.body = IF m.only_header THEN 0 ELSE r.size]

\* The status of a command; 403 stands for 400 and 404 too.
dir_delete_file(r) == IF r.size = 0 THEN 403 ELSE 200

\* http_parse_request for a request of each kind.
Parsed(m, r) ==
  CASE r.kind = "STREAM" -> SendHeadOnly(m, 0)
    [] r.kind = "LIST" -> dir_list_local(m, r)
    [] r.kind = "COMMAND" -> SendHeadOnly(m, dir_delete_file(r))
    [] r.kind = "PUT" /\ r.size < 0 -> SendHeadOnly(m, 417)
    [] r.kind = "PUT" /\ r.size >= 0 /\ r.expect ->
         [SendHeadOnly(m, 100) EXCEPT !.local_fd = "open"]
    [] r.kind = "PUT" /\ r.size >= 0 /\ ~r.expect ->
         [m EXCEPT !.state = "RECEIVE_DATA", !.http_error = 0, !.local_fd = "open"]
    [] Found(r) -> prepare_local_file(m, r)
    [] OTHER -> [SendHeadOnly(m, 404) EXCEPT !.keep_alive = FALSE]

\* WAIT_REQUEST: a whole request has been read.
ParseRequest(r) ==
  LET m == handle_line(r)
  IN /\ c.state = "WAIT_REQUEST" /\ peer = "here"
     /\ requests < MaxRequests
     /\ requests' = requests + 1
     /\ req' = r
     /\ c' = Parsed(m, r)
     /\ reply' = [NoReply EXCEPT
          !.kept = c'.keep_alive,
          !.length = IF r.kind = "LIST" \/ (Found(r) /\ dir_is_modifed(m, r) /\ ~Chunked(m, r))
                     THEN wanted(r) ELSE -1]
     /\ stored' = 0
     /\ UNCHANGED peer

End(how) == reply' = [reply EXCEPT !.ended = how]

\* The reply to a request on a connection to be kept has been counted to its end.
Counted(m) == m.keep_alive /\ m.total_count > 0 /\ m.data_count >= m.total_count

\* SEND_HEADER once send() has taken the whole buffer.
SendHeader ==
  LET m == [c EXCEPT !.data_count = @ + c.head + c.body, !.head = 0, !.body = 0]
      next == CASE c.http_error = 100 -> "RECEIVE_DATA"
                [] c.http_error # 100 /\ Counted(m) -> "WAIT_REQUEST"
                [] c.http_error \notin {0, 100} /\ ~Counted(m) -> "CLOSED"
                [] c.http_error = 0 /\ ~Counted(m) -> "SEND_DATA_HEADER"
  IN /\ c.state = "SEND_HEADER"
     /\ c' = [m EXCEPT !.state = next]
     /\ reply' = [reply EXCEPT !.status = c.http_error, !.sent = @ + c.body,
                                !.ended = CASE next = "WAIT_REQUEST" -> "kept"
                                            [] next = "CLOSED" -> "closed"
                                            [] OTHER -> "no"]
     /\ UNCHANGED <<req, stored, peer, requests>>

\* local_prepare_data with the file at its end: the return to WAIT_REQUEST or the
\* close.  Mutant: a connection that is not kept stays open.
SendFileEndKept == /\ c.keep_alive /\ c.local_fd = "done"
                   /\ c' = [c EXCEPT !.state = "WAIT_REQUEST"]
                   /\ End("kept")
SendFileEnd ==
  \/ /\ c.keep_alive /\ (Counted(c) \/ c.local_fd = "done")
     /\ c' = [c EXCEPT !.state = "WAIT_REQUEST"]
     /\ End("kept")
  \/ /\ ~c.keep_alive /\ c.local_fd = "done"
     /\ c' = [c EXCEPT !.state = "CLOSED"]
     /\ End("closed")

\* ... else the next block of the file, or at its end the closing of the file.
SendFile ==
  /\ c.local_fd = "open" /\ ~Counted(c)
  /\ \/ /\ c.left > 0
        /\ c' = [c EXCEPT !.left = @ - 1, !.data_count = @ + 1]
        /\ reply' = [reply EXCEPT !.sent = @ + 1]
     \/ /\ c.left = 0
        /\ c' = [c EXCEPT !.local_fd = "done"]
        /\ UNCHANGED reply

\* http_send_data of a connection that sends a local file.
SendData ==
  /\ c.state = "SEND_DATA_HEADER"
  /\ c.local_fd # "none"
  /\ SendFileEnd \/ SendFile
  /\ UNCHANGED <<req, stored, peer, requests>>

\* The same states with local_fd = -1: the player of a stream has found its feed;
\* what follows is FeedServer.
PlayStream ==
  /\ c.state = "SEND_DATA_HEADER"
  /\ c.local_fd = "none"
  /\ c' = [c EXCEPT !.state = "SEND_DATA"]
  /\ UNCHANGED <<req, reply, stored, peer, requests>>

\* http_receive_data: the blocks counted are all of the upload.  Mutant: the last
\* block is not waited for.
over_early(d) == c.content_length > 0 /\ d + 1 >= c.content_length
over(d) == c.content_length > 0 /\ d >= c.content_length

\* http_receive_data of an upload: n blocks are read until recv would block; the
\* upload is over when as many as its content length have been counted.
Uploaded == SendHeadOnly([c EXCEPT !.local_fd = "none"], 200)

ReceiveData ==
  /\ c.state = "RECEIVE_DATA" /\ c.tr_encoding = 0 /\ peer = "here"
  /\ \E n \in 1 .. req.size - stored :
       LET d == c.data_count + n
       IN /\ stored' = stored + n
          /\ c' = [(IF over(d) THEN Uploaded ELSE c) EXCEPT !.data_count = d]
  /\ UNCHANGED <<req, reply, peer, requests>>

\* The same when a reply before was chunked: tr_encoding has survived, and the plain
\* body is taken for chunks, which may end at once, later, or never.
ReceiveMisread ==
  /\ c.state = "RECEIVE_DATA" /\ c.tr_encoding = 1 /\ peer = "here"
  /\ \E n \in 0 .. req.size - stored, m \in {c, Uploaded} :
       /\ stored' = stored + n
       /\ c' = [m EXCEPT !.data_count = @ + n]
  /\ UNCHANGED <<req, reply, peer, requests>>

\* The client goes away in the middle of its upload: recv returns 0, which ends
\* the upload too.
UploadEnds ==
  /\ c.state = "RECEIVE_DATA" /\ peer = "here"
  /\ peer' = "gone"
  /\ c' = Uploaded
  /\ UNCHANGED <<req, reply, stored, requests>>

\* The client goes away in any other state or, in WAIT_REQUEST, HTTP_REQUEST_TIMEOUT
\* passes without a request.
Drop == /\ c.state \notin {"CLOSED", "RECEIVE_DATA"}
        /\ c' = [c EXCEPT !.state = "CLOSED"]
        /\ peer' = "gone"
        /\ UNCHANGED <<req, reply, stored, requests>>

Serve == SendHeader \/ SendData \/ ReceiveData

Next == \/ \E r \in Requests : ParseRequest(r)
        \/ Serve \/ ReceiveMisread \/ PlayStream \/ UploadEnds \/ Drop

Spec == Init /\ [][Next]_vars

\* The peer keeps reading, and sending the upload it announced.
FairSpec == Spec /\ WF_vars(Serve)

-----------------------------------------------------------------------------
(* Properties *)

\* The types of the connection's fields; what is left of a file is never negative.
TypeOK ==
  /\ c.state \in {"WAIT_REQUEST", "SEND_HEADER", "SEND_DATA_HEADER", "SEND_DATA",
                  "RECEIVE_DATA", "CLOSED"}
  /\ c.local_fd \in {"none", "done", "open"} /\ c.left \in Nat
  /\ c.data_count \in Nat /\ c.total_count \in Nat
  /\ stored \in Nat /\ peer \in {"here", "gone"} /\ requests \in 0 .. MaxRequests
  /\ req \in Requests \cup {NoRequest}

\* The requests whose replies are complete: no HEAD, a part that begins inside its file and,
\* where it ends before the file does, fits the buffer (one that does not is sent to the end
\* of the file on a connection that is not kept); a listing is whole.
Sensible(r) == /\ r.kind # "HEAD"
               /\ Found(r) => wanted(r) >= 0
               /\ Found(r) /\ wanted(r) >= FileBuf => wanted(r) = r.size - r.from
               /\ r.kind = "LIST" => r.size >= 0 /\ r.to < 0
SensibleRequests == \A r \in Requests : Sensible(r)

\* A finished reply to a GET of a file or directory carries exactly what was asked for, whatever the
\* connection answered before; it is 304 without a body only when the client has named
\* this version of the file, in this request or the last that named one.  (A part of a
\* file that is sent chunked is not asked for: such a reply is the whole file.)
ReplyWhole ==
  /\ TypeOK
  /\ reply.ended # "no" /\ (req.kind = "LIST" \/ (req.kind = "GET" /\ Found(req))) =>
       IF req.kind = "GET" /\ c.inm = req.size THEN reply.status = 304 /\ reply.sent = 0
       ELSE reply.sent = IF reply.length = -1 THEN req.size ELSE wanted(req)

\* Readme.txt: "curl --upload-file your-file" - when the client is told that its
\* upload is done, the whole of it is in the file.  (Stated for the first request of a
\* connection and without Expect: what was sent before counts as received.)
UploadWhole ==
  req # NoRequest /\ requests = 1 /\ ~req.expect /\ peer = "here" =>
    (req.kind = "PUT" /\ req.size >= 0 /\ c.http_error = 200 => stored = req.size)

\* Every request for a file or upload is answered to its end, unless the upload follows
\* a chunked reply; the reply to one for a stream gets as far as the feed it depends on.
Answering == \/ c.state = "SEND_HEADER"
             \/ c.state = "RECEIVE_DATA" /\ c.tr_encoding = 0
             \/ c.state = "SEND_DATA_HEADER" /\ c.local_fd # "none"
Answered == Answering ~> ~Answering
=============================================================================
