-------------------------------- MODULE Http --------------------------------
(***************************************************************************)
(* One connection of an HttpServer or of a FileServer: HttpContext parses  *)
(* what has been read so far, a complete request is answered, and the      *)
(* connection is closed when the answer says so.                           *)
(*                                                                         *)
(* The bytes of a request are atoms: the request line, each header line,   *)
(* each CRLF and each byte of the body, which is no CRLF and no request.   *)
(* A read ends after any atom, also before a body or within it.            *)
(*                                                                         *)
(* The connection below is external: what the peer will receive is the     *)
(* responses in the order of send(), and the bytes of the file in sendFd_  *)
(* wherever the socket takes them, which may be behind a later response    *)
(* (ConnectionOutput has the connection itself).                           *)
(*                                                                         *)
(* Parsing is one step for each turn of the loop of parseRequest.          *)
(***************************************************************************)
EXTENDS Integers, Sequences, FiniteSets

CONSTANTS Requests,      \* what the peer may send, see IsRequest
          Files,         \* path -> what stat(2) says: [kind, size]
          Ranges,        \* value of a Range header -> [beg, end], -1 if left out
          Lengths,       \* value of a Content-Length header -> number
          Opens,         \* what open(2) of a regular file may say: a subset of BOOLEAN
          Windows,       \* numbers of requests a peer may have unanswered
          MaxRequests    \* bound: requests of one peer

Methods  == {"GET", "POST", "HEAD", "PUT", "DELETE"}
Versions == {"1.0", "1.1"}
Kinds    == {"directory", "regular", "other"}

IsRequest(r) == /\ DOMAIN r = {"method", "path", "query", "version", "headers", "body"}
                /\ r.body \in Nat
                /\ DOMAIN r.headers \subseteq {"Connection", "Range", "Content-Length"}
                /\ \A f \in DOMAIN r.headers : r.headers[f] # ""
                /\ (r.body > 0) = ("Content-Length" \in DOMAIN r.headers)
                /\ r.body > 0 => Lengths[r.headers["Content-Length"]] = r.body
                /\ "Range" \in DOMAIN r.headers => r.headers["Range"] \in DOMAIN Ranges

ASSUME HttpAssumption == /\ \A r \in Requests : IsRequest(r)
                         /\ \A p \in DOMAIN Files : Files[p].kind \in Kinds /\ Files[p].size \in Nat
                         /\ "" \notin DOMAIN Files
                         /\ \A v \in DOMAIN Ranges : /\ Ranges[v].beg \in Nat \cup {-1}
                                                     /\ Ranges[v].end \in Nat \cup {-1}
                                                     /\ Ranges[v].beg # -1 \/ Ranges[v].end # -1
                         /\ Opens \subseteq BOOLEAN
                         /\ Windows \subseteq Nat \ {0}
                         /\ MaxRequests \in Nat

VARIABLES
    server,        \* "HttpServer" or "FileServer"
    window,        \* how many unanswered requests this peer has at most
    sent,          \* history: requests the peer has sent
    got,           \* number of responses the peer has received
    wire,          \* atoms sent and not yet read
    inputBuffer,   \* TcpConnection::inputBuffer_
    connState,     \* TcpConnection::state_
    state,         \* HttpContext::state_
    request,       \* HttpContext::request_
    inCall,        \* is onMessage under way
    split,         \* history: the first request taken before all its body was read, or 0
    sending,       \* sendFd_ and sendLen_: whose file goes out, and how much is left
    out            \* responses handed to the connection, in order

httpVars == <<server, window, sent, got, wire, inputBuffer, connState, state, request, inCall, split,
              sending, out>>

NotSending == [of |-> 0, left |-> 0]

EmptyRequest == [method |-> "kInvalid", version |-> "kUnknown", path |-> "", query |-> "",
                 headers |-> <<>>, body |-> <<>>]

HttpInit ==
    /\ server \in {"HttpServer", "FileServer"}
    /\ window \in Windows
    /\ sent = <<>> /\ got = 0
    /\ wire = <<>> /\ inputBuffer = <<>>
    /\ connState = "kConnected"
    /\ state = "kExpectRequestLine"
    /\ request = EmptyRequest
    /\ inCall = FALSE
    /\ split = 0
    /\ sending = NotSending
    /\ out = <<>>

-----------------------------------------------------------------------------
(* The peer *)

CRLF == [atom |-> "CRLF"]
BodyByte == [atom |-> "byte"]

RequestLine(r) == [atom |-> "line", method |-> r.method, path |-> r.path, query |-> r.query,
                   version |-> r.version]

HeaderLine(f, v) == [atom |-> "header", field |-> f, value |-> v]

\* The header lines, in the order Connection, Range, Content-Length.
HeaderLines(r) ==
    LET Line(f) == IF f \in DOMAIN r.headers THEN <<HeaderLine(f, r.headers[f]), CRLF>> ELSE <<>>
    IN  Line("Connection") \o Line("Range") \o Line("Content-Length")

Atoms(r) == <<RequestLine(r), CRLF>> \o HeaderLines(r) \o <<CRLF>> \o [i \in 1..r.body |-> BodyByte]

PeerSends(r) ==
    /\ Len(sent) < MaxRequests
    /\ Len(sent) - got < window
    /\ \A i \in 1..got : ~out[i].close
    /\ sent' = Append(sent, r)
    /\ wire' = wire \o Atoms(r)
    /\ UNCHANGED <<server, window, got, inputBuffer, connState, state, request, inCall, split, sending, out>>

\* As many bytes have followed the head of a response as it announces.
Complete(r) == r.lengths = {} \/ r.lengths = {r.body + r.after.count}

\* Where a response has come into a file the peer may find the end anywhere.
PeerReceives ==
    /\ got < Len(out)
    /\ Complete(out[got + 1]) \/ \E i \in DOMAIN out : out[i].onto
    /\ got' = got + 1
    /\ UNCHANGED <<server, window, sent, wire, inputBuffer, connState, state, request, inCall, split>>
    /\ UNCHANGED <<sending, out>>

-----------------------------------------------------------------------------
(* HttpContext *)

\* A read of n atoms; the connection calls onMessage.
OnMessage(n) ==
    /\ ~inCall
    /\ inputBuffer' = inputBuffer \o SubSeq(wire, 1, n)
    /\ wire' = SubSeq(wire, n + 1, Len(wire))
    /\ inCall' = TRUE
    /\ UNCHANGED <<server, window, sent, got, connState, state, request, split, sending, out>>

HasCRLF == \E i \in DOMAIN inputBuffer : inputBuffer[i] = CRLF

LineEnd == CHOOSE i \in DOMAIN inputBuffer :
              inputBuffer[i] = CRLF /\ \A j \in 1 .. i - 1 : inputBuffer[j] # CRLF

Line == SubSeq(inputBuffer, 1, LineEnd - 1)

RetrieveUntil(i) == inputBuffer' = SubSeq(inputBuffer, i + 1, Len(inputBuffer))

IsA(what, line) == Len(line) = 1 /\ line[1].atom = what

GetHeader(req, field) == IF field \in DOMAIN req.headers THEN req.headers[field] ELSE ""

SetMethod(req, m) == [req EXCEPT !.method = IF m \in Methods THEN m ELSE "kInvalid"]

SetTarget(req, line) == [req EXCEPT !.path = line.path,
                                    !.query = IF line.query = "" THEN @ ELSE line.query]

SetVersion(req, v) == IF v \in Versions THEN [req EXCEPT !.version = v] ELSE req

\* What is left in request_ when the line is refused stays there.
ProcessRequestLine(req, line) ==
    IF ~IsA("line", line) THEN [ok |-> FALSE, request |-> SetMethod(req, "")]
    ELSE IF line[1].method \notin Methods
         THEN [ok |-> FALSE, request |-> SetMethod(req, line[1].method)]
         ELSE [ok |-> line[1].version \in Versions,
               request |-> SetVersion(SetTarget(SetMethod(req, line[1].method), line[1]),
                                      line[1].version)]

AddHeader(req, line) ==
    [req EXCEPT !.headers = [f \in DOMAIN req.headers \cup {line.field} |->
                                IF f = line.field THEN line.value ELSE req.headers[f]]]

Reset_Mutant(req) == [EmptyRequest EXCEPT !.body = req.body, !.headers = req.headers]  \* seeded bug: swap() leaves out headers_
\* reset() swaps request_ with a new one; swap() leaves out body_.
Reset(req) == [EmptyRequest EXCEPT !.body = req.body]

ParseRequestLine ==
    /\ inCall /\ state = "kExpectRequestLine" /\ HasCRLF
    /\ LET parsed == ProcessRequestLine(request, Line) IN
          /\ parsed.ok
          /\ request' = parsed.request
    /\ RetrieveUntil(LineEnd)
    /\ state' = "kExpectHeaders"
    /\ UNCHANGED <<server, window, sent, got, wire, connState, inCall, split, sending, out>>

\* A line without a colon ends the headers, whatever else is in it.
ParseHeader ==
    /\ inCall /\ state = "kExpectHeaders" /\ HasCRLF
    /\ IF IsA("header", Line)
       THEN request' = AddHeader(request, Line[1]) /\ UNCHANGED state
       ELSE state' = "kExpectBody" /\ UNCHANGED request
    /\ RetrieveUntil(LineEnd)
    /\ UNCHANGED <<server, window, sent, got, wire, connState, inCall, split, sending, out>>

MayTake_Mutant(len) == len > Len(inputBuffer)   \* seeded bug: a body that is just complete is not taken
MayTake(len) == len >= Len(inputBuffer)

\* The buffer ends before the body does, or within it.
BodyIsCut == /\ \A i \in DOMAIN inputBuffer : inputBuffer[i] = BodyByte
             /\ wire # <<>> /\ Head(wire) = BodyByte

\* setBody reads len bytes from the front, past the readable ones if there are
\* fewer; with more than len the loop of parseRequest goes round for ever.
ParseBody ==
    /\ inCall /\ state = "kExpectBody"
    /\ LET length == GetHeader(request, "Content-Length")
           len    == IF length = "" THEN 0 ELSE Lengths[length]
           beyond == [i \in 1 .. len - Len(inputBuffer) |-> [atom |-> "beyond"]]
       IN  IF length = ""
           THEN state' = "kGotAll" /\ UNCHANGED <<request, inputBuffer>>
           ELSE IF MayTake(len)
           THEN /\ request' = [request EXCEPT !.body = inputBuffer \o beyond]
                /\ inputBuffer' = <<>>
                /\ state' = "kGotAll"
           ELSE UNCHANGED <<state, request, inputBuffer>>
    /\ split' = IF split = 0 /\ BodyIsCut THEN Len(out) + 1 ELSE split
    /\ UNCHANGED <<server, window, sent, got, wire, connState, inCall, sending, out>>

\* The line is not complete: onMessage returns and waits for the next read.
NeedsMore ==
    /\ inCall /\ state \in {"kExpectRequestLine", "kExpectHeaders"} /\ ~HasCRLF
    /\ inCall' = FALSE
    /\ UNCHANGED <<server, window, sent, got, wire, inputBuffer, connState, state, request, split, sending, out>>

-----------------------------------------------------------------------------
(* The responses *)

NoFile == [path |-> "", offset |-> 0, count |-> 0]

\* What HttpResponse holds; lengths are the Content-Lengths it announces, body is the
\* size of the body, and file what sendFile is told to send.  The rest is history:
\* whether a file was going out before it, the bytes of a file that have followed it,
\* and why its file has not been sent to the end.
Response(close, status, body) ==
    [close |-> close, status |-> status, body |-> body, lengths |-> {}, file |-> NoFile,
     seen |-> EmptyRequest, onto |-> FALSE, after |-> NoFile, cut |-> "no"]

FileSlice_Mutant(p, size, range) ==     \* seeded bug: the last of a range is taken for its end
    LET asked == IF range = "" THEN [beg |-> 0, end |-> size - 1] ELSE Ranges[range]
        beg == IF asked.beg = -1 THEN size - asked.end ELSE asked.beg
        end == IF asked.beg = -1 \/ asked.end = -1 THEN size - 1 ELSE asked.end
    IN  [path |-> p, offset |-> IF beg < 0 THEN 0 ELSE beg, count |-> end - beg]

\* Where sendFile begins in the regular file p and how much it is told to send.
FileSlice(p, size, range) ==
    LET asked == IF range = "" THEN [beg |-> 0, end |-> size - 1] ELSE Ranges[range]
        beg == IF asked.beg = -1 THEN size - asked.end ELSE asked.beg
        end == IF asked.beg = -1 \/ asked.end = -1 THEN size - 1 ELSE asked.end
    IN  [path |-> p, offset |-> IF beg < 0 THEN 0 ELSE beg, count |-> end - beg + 1]

\* The headers speak of the file also when it could not be opened, and nothing follows.
SetResponseBody(req, close, opened) ==
    LET p == req.path
        range == GetHeader(req, "Range")
    IN  IF p \notin DOMAIN Files \/ Files[p].kind = "other" THEN Response(close, 404, 2)
        ELSE IF Files[p].kind = "directory" THEN Response(close, 200, 3)
        ELSE LET slice == FileSlice(p, Files[p].size, range) IN
             [Response(close, IF range = "" THEN 200 ELSE 206, 0)
                 EXCEPT !.file = slice, !.lengths = {slice.count}, !.cut = IF opened THEN "no" ELSE "unopened"]

NeedSendFile(response) == response.file # NoFile /\ response.cut # "unopened"

\* appendToBuffer: the length of a body is told when the connection is kept, besides
\* that of a file that could not be opened.
AppendToBuffer(response) ==
    IF response.close \/ NeedSendFile(response) THEN response
    ELSE [response EXCEPT !.lengths = @ \cup {response.body}]

WantsClose(req) ==
    \/ GetHeader(req, "Connection") = "close"
    \/ req.version = "1.0" /\ GetHeader(req, "Connection") # "Keep-Alive"

\* send(), sendFile() and shutdown() do nothing unless the connection is kConnected.
Send(response) ==
    out' = IF connState = "kConnected" THEN Append(out, [response EXCEPT !.onto = sending.left # 0]) ELSE out

Sending(i, n) == IF n = 0 THEN NotSending ELSE [of |-> i, left |-> n]

\* sendFile: the file that is still going out is forgotten.
SendFile(response) ==
    sending' = IF connState = "kConnected" /\ NeedSendFile(response)
               THEN Sending(Len(out) + 1, response.file.count) ELSE sending

ShutdownIf(close) == connState' = IF close /\ connState = "kConnected" THEN "kDisconnecting" ELSE connState

Answer(response) ==
    LET told == [AppendToBuffer(response) EXCEPT !.seen = request] IN
    /\ inCall /\ state = "kGotAll"
    /\ Send(told)
    /\ SendFile(told)
    /\ ShutdownIf(told.close)
    /\ request' = Reset(request)
    /\ state' = "kExpectRequestLine"
    /\ inCall' = FALSE
    /\ UNCHANGED <<server, window, sent, got, wire, inputBuffer, split>>

\* HttpServer::onRequest, with a callback that answers with a body of any size and
\* may ask for the connection to be closed; defaultHttpCallback always does.
HttpServerAnswers ==
    /\ server = "HttpServer"
    /\ \/ \E body \in 0..1, more \in BOOLEAN : Answer(Response(WantsClose(request) \/ more, 200, body))
       \/ Answer(Response(TRUE, 404, 0))

\* FileServer::onRequest.
FileServerAnswers ==
    /\ server = "FileServer"
    /\ \E opened \in Opens :
          Answer(IF request.path = "/favicon.ico" THEN Response(WantsClose(request), 200, 1)
                 ELSE SetResponseBody(request, WantsClose(request), opened))

\* The request line is refused: it stays in the buffer.
BadRequest ==
    /\ inCall /\ state = "kExpectRequestLine" /\ HasCRLF
    /\ LET parsed == ProcessRequestLine(request, Line) IN
          /\ ~parsed.ok
          /\ request' = parsed.request
    /\ Send(Response(TRUE, 400, 0))
    /\ ShutdownIf(TRUE)
    /\ inCall' = FALSE
    /\ UNCHANGED <<server, window, sent, got, wire, inputBuffer, state, split, sending>>

-----------------------------------------------------------------------------
(* The connection sends the file.                                          *)

fileGoesOn == <<server, window, sent, got, wire, inputBuffer, connState, state, request, inCall, split>>

\* How far the file that goes out has been read.
Position == LET file == out[sending.of].file
            IN  file.offset + IF sending.left < 0 THEN 0 ELSE file.count - sending.left

FileSize == Files[out[sending.of].file.path].size

Follows(after, n) ==
    [path |-> out[sending.of].file.path, offset |-> IF after.count = 0 THEN Position ELSE after.offset,
     count |-> after.count + n]

\* sendfile sends n bytes, which the peer gets behind the last response.
FileIsSent ==
    /\ \E n \in 1 .. sending.left :
          /\ Position + n <= FileSize
          /\ sending' = Sending(sending.of, sending.left - n)
          /\ out' = [out EXCEPT ![Len(out)].after = Follows(@, n)]
    /\ UNCHANGED fileGoesOn

\* sendfile finds nothing more, or it fails: a number of bytes below zero is refused.
FileIsGivenUp ==
    /\ sending.left # 0
    /\ \E why \in {"end", "error"} :
          /\ why = "end" => sending.left < 0 \/ Position >= FileSize
          /\ out' = [out EXCEPT ![sending.of].cut = why]
    /\ sending' = NotSending
    /\ UNCHANGED fileGoesOn

-----------------------------------------------------------------------------

Parse == ParseRequestLine \/ ParseHeader \/ ParseBody \/ NeedsMore \/ BadRequest

Handle == Parse \/ HttpServerAnswers \/ FileServerAnswers

Read == \E n \in DOMAIN wire : OnMessage(n)

HttpNext ==
    \/ \E r \in Requests : PeerSends(r)
    \/ PeerReceives
    \/ Read
    \/ Handle
    \/ FileIsSent
    \/ FileIsGivenUp

HttpSpec == HttpInit /\ [][HttpNext]_httpVars

\* The loop calls onMessage when there is something to read, and it returns.
HttpFairSpec == HttpSpec /\ WF_httpVars(Read) /\ WF_httpVars(Handle)

-----------------------------------------------------------------------------
(* Properties *)

\* What the request line of r deserves, and what r says of the connection.
Proper(r) == r.method \in Methods /\ r.version \in Versions

AsksForClose(r) ==
    LET wish == IF "Connection" \in DOMAIN r.headers THEN r.headers["Connection"] ELSE "none"
    IN  wish = "close" \/ (r.version = "1.0" /\ wish # "Keep-Alive")

\* The callback saw r, as the peer sent it.
HeadSeenAs(seen, r) ==
    /\ <<seen.method, seen.path, seen.query, seen.version>> = <<r.method, r.path, r.query, r.version>>
    /\ DOMAIN seen.headers = DOMAIN r.headers
    /\ \A f \in DOMAIN r.headers : seen.headers[f] = r.headers[f]

SeenAs(seen, r) == HeadSeenAs(seen, r) /\ (r.body > 0 => seen.body = [i \in 1 .. r.body |-> BodyByte])

Answers(response, r, cut) ==
    IF Proper(r)
    THEN /\ response.status # 400
         /\ IF cut THEN HeadSeenAs(response.seen, r) ELSE SeenAs(response.seen, r)
         /\ AsksForClose(r) => response.close
         /\ server = "FileServer" => response.close = AsksForClose(r)
    ELSE response.status = 400

\* There are never more responses than requests.  The i-th answers the i-th request,
\* which was handed over just as it was sent, whatever came before it on the same
\* context and however it was cut into reads, unless a body came later than its
\* headers: of that request the body is not the one that was sent, and of the
\* requests behind it nothing is said.  The connection goes on after a response only
\* if the request allows it.
AnswersInOrder ==
    /\ Len(out) <= Len(sent)
    /\ \A i \in 1 .. Len(out) :
          /\ split = 0 \/ i <= split => Answers(out[i], sent[i], i = split)
          /\ i < Len(out) => ~out[i].close

\* The bytes of a file of that size that a Range header asks for.
AskedBytes(size, range) ==
    {k \in 0 .. size - 1 :
       range = "" \/ LET r == Ranges[range] IN
                     IF r.beg = -1 THEN k >= size - r.end ELSE k >= r.beg /\ (r.end # -1 => k <= r.end)}

\* All bytes that it asks for are there, and there is one at least.
InFile(size, range) ==
    range = "" \/ LET r == Ranges[range] IN
                  IF r.beg = -1 THEN r.end \in 1 .. size
                  ELSE r.beg < size /\ (r.end # -1 => r.end \in r.beg .. size - 1)

SentBytes(file) == file.offset .. file.offset + file.count - 1

\* What follows the head of r, while its file goes out or afterwards: never more than
\* announced, and always from the front of what was asked for; all of it, unless the
\* file could not be opened or read.  It is less than announced if the file has less.
FollowedRightly(r, goesOut) ==
    LET asked == AskedBytes(Files[r.file.path].size, GetHeader(r.seen, "Range"))
        bytes == SentBytes(r.after)
    IN  IF r.file = NoFile
        THEN r.after = NoFile /\ r.cut = "no" /\ (r.lengths = {r.body} \/ (r.lengths = {} /\ r.close))
        ELSE /\ r.body = 0
             /\ r.cut # "unopened" => r.lengths = {r.file.count} /\ (r.after.count = 0 \/ r.after.count <= r.file.count)
             /\ r.after.count # 0 => r.after.path = r.file.path /\ r.cut # "unopened"
             /\ bytes \subseteq asked /\ (bytes # {} => \A k \in asked : k >= r.after.offset)
             /\ ~goesOut /\ r.cut \in {"no", "end"} => bytes = asked
             /\ ~goesOut /\ r.cut = "no" => r.after.count = r.file.count
             /\ r.cut = "end" => ~InFile(Files[r.file.path].size, GetHeader(r.seen, "Range"))

\* The peer can tell where a response ends, and gets the bytes of the file that it
\* asked for, as long as no response comes while a file goes out; and none does for
\* a peer that waits for one to be complete before it asks again.
Framed ==
    \A i \in 1 .. Len(out) :
        /\ ~out[i].onto /\ (i < Len(out) => ~out[i + 1].onto) =>
              FollowedRightly(out[i], sending.left # 0 /\ sending.of = i)
        /\ window = 1 => ~out[i].onto

\* Every request is answered, or the connection is closed, without a further read: a
\* peer that has at most w requests unanswered waits for w - 1 of them at most.
\* With a body and another request behind it in the buffer it may wait for ever.
Answered ==
    \A n \in 1 .. MaxRequests :
        Len(sent) = n ~> \/ Len(out) > n - window
                         \/ connState # "kConnected"
                         \/ window > 1 /\ \E i \in DOMAIN sent : sent[i].body > 0
=============================================================================
