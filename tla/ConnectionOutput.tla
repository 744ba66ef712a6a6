-------------------------- MODULE ConnectionOutput --------------------------
(***************************************************************************)
(* The output side of one TcpConnection: send, sendFile and shutdown, the  *)
(* output buffer, the file that is being sent, and handleWrite, which      *)
(* drains both when the socket is writable.  The connection's loop thread  *)
(* runs everything; other threads put functors into its queue.             *)
(*                                                                         *)
(* A message and a file are Size units long.  The socket takes any number  *)
(* of the units it is offered.  Nobody is told that a file has been sent,  *)
(* so callers may start something else while one goes out: overlaps        *)
(* records when they do.                                                   *)
(***************************************************************************)
EXTENDS Integers, Sequences

CONSTANTS Size,         \* units in a message and in a file
          HighWater,    \* highWaterMark_, in units
          MaxSends,     \* bound: calls of send
          MaxFiles,     \* bound: calls of sendFile
          PeerMayReset  \* may the peer reset the connection?

ASSUME OutputAssumption == /\ Size \in Nat \ {0}
                           /\ HighWater \in Nat \ {0}
                           /\ MaxSends \in Nat /\ MaxFiles \in Nat
                           /\ PeerMayReset \in BOOLEAN

VARIABLES
    state,      \* state_
    writing,    \* channel_->isWriting()
    outBuf,     \* outputBuffer_
    sendFd,     \* sendFd_: a file, or NoFile
    sendLen,    \* sendLen_
    shut,       \* the socket's write side is shut down
    broken,     \* the peer has reset the connection: every write fails
    queue,      \* functors of this connection pending on the loop
    sends,      \* calls of send so far
    files,      \* calls of sendFile so far
    filing,     \* files with which other threads are in sendFile, between sendFd_ and sendLen_
    openFds,    \* files that are open
    owed,       \* history: units the loop has taken up and the socket not taken
    astray,     \* history: the socket has taken a unit that was not the next one
    begun,      \* history: the loop has taken up the file in sendFd_
    overlaps,   \* history: what has been started before a file was through
    gaveUp,     \* history: a file has been given up
    paused      \* history: the high-water callback is due, and no write-complete callback since

fileVars == <<sendFd, sendLen, openFds, begun>>
owedVars == <<owed, astray>>
dataVars == <<outBuf, overlaps, gaveUp, fileVars, owedVars>>
vars == <<state, writing, shut, broken, queue, sends, files, filing, paused, dataVars>>

NoFile == 0
Messages == 1..MaxSends
FileIds == MaxSends + 1 .. MaxSends + MaxFiles
Units == (Messages \cup FileIds) \X (1..Size)

\* Units from the k-th on of a message or file.
From(id, k) == [i \in 1 .. Size - k + 1 |-> <<id, k + i - 1>>]
FileRest == IF begun THEN From(sendFd, Size - sendLen + 1) ELSE <<>>

Queued(what) == \E i \in DOMAIN queue : queue[i][1] = what
FileGoesOut == begun /\ sendLen > 0
FileNotThrough == filing # {} \/ sendLen > 0 \/ Queued("sendFile")

\* message: one has been taken up while a file went out.  file: one has been started before
\* another was through.  shutdown: it has been called while another thread was in sendFile, or
\* has come before the functor of that.
Overlaps == {"message", "file", "shutdown"}
Marks(what, when) == overlaps' = overlaps \cup (IF when THEN what ELSE {})

\* The order of the messages is followed; and that of the files, and that of both, as long as
\* nothing has overlapped that they do not survive.
Kinds == {"messages", "files", "both"}
Followed == {"messages"} \cup (IF "file" \in overlaps THEN {} ELSE {"files"})
                         \cup (IF overlaps \cap {"message", "file"} = {} THEN {"both"} ELSE {})

\* The loop takes up some units of a message or a file, and the socket takes some.
Moves(kind, new, taken) ==
    LET due(k) == IF k \in {kind, "both"} THEN owed[k] \o new ELSE owed[k]
        out(k) == IF k \in {kind, "both"} THEN taken ELSE <<>>
    IN /\ owed' = [k \in Kinds |->
                     IF k \in Followed' THEN SubSeq(due(k), Len(out(k)) + 1, Len(due(k))) ELSE <<>>]
       /\ astray' = (astray \/ \E k \in Followed' : SubSeq(due(k), 1, Len(out(k))) # out(k))

Init == /\ state = "kConnected"
        /\ writing = FALSE /\ shut = FALSE /\ broken = FALSE
        /\ outBuf = <<>>
        /\ sendFd = NoFile /\ sendLen = 0
        /\ queue = <<>>
        /\ sends = 0 /\ files = 0 /\ filing = {}
        /\ openFds = {}
        /\ owed = [k \in Kinds |-> <<>>] /\ astray = FALSE
        /\ begun = FALSE /\ overlaps = {} /\ gaveUp = FALSE
        /\ paused = FALSE
-----------------------------------------------------------------------------
(* What the handlers do to the loop's queue; each is given the queue it    *)
(* starts from.                                                            *)
QueueWriteComplete_Mutant(q) == queue' = q /\ UNCHANGED paused   \* seeded bug: not queued
QueueWriteComplete(q) == queue' = Append(q, <<"writeComplete", 0>>) /\ paused' = FALSE

RisingEdge(old, new) == old < HighWater /\ new >= HighWater

QueueHighWater(q, old, new) ==
    IF RisingEdge(old, new)
    THEN queue' = Append(q, <<"highWater", 0>>) /\ paused' = TRUE
    ELSE queue' = q /\ UNCHANGED paused

MayWriteDirectly_Mutant == ~writing \/ outBuf # <<>>   \* seeded bug: overtakes what is buffered
MayWriteDirectly == ~writing /\ outBuf = <<>>

KeepRest(id, k, q) ==
    /\ outBuf' = outBuf \o From(id, k)
    /\ writing' = TRUE
    /\ QueueHighWater(q, Len(outBuf), Len(outBuf) + Size - k + 1)

SendInLoop(id, q) ==
    \/ \* disconnected, or the write fails for good: the message is dropped
       /\ \/ state = "kDisconnected"
          \/ MayWriteDirectly /\ (shut \/ broken)
       /\ queue' = q
       /\ UNCHANGED <<writing, outBuf, owedVars, overlaps, paused>>
    \/ \* the socket takes n units; none is EWOULDBLOCK
       /\ state # "kDisconnected" /\ MayWriteDirectly /\ ~shut /\ ~broken
       /\ Marks({"message"}, FileGoesOut)
       /\ \E n \in 0..Size :
            /\ Moves("messages", From(id, 1), SubSeq(From(id, 1), 1, n))
            /\ IF n = Size
               THEN QueueWriteComplete(q) /\ UNCHANGED <<writing, outBuf>>
               ELSE KeepRest(id, n + 1, q)
    \/ \* something is still to be written
       /\ state # "kDisconnected" /\ ~MayWriteDirectly
       /\ KeepRest(id, 1, q)
       /\ Marks({"message"}, FileGoesOut)
       /\ Moves("messages", From(id, 1), <<>>)

ShutdownTest_Mutant == TRUE         \* seeded bug: isWriting() is not looked at
ShutdownTest == ~writing

ShutdownInLoop == shut' = (shut \/ ShutdownTest)
-----------------------------------------------------------------------------
(* The file.  Where the loop and another thread use sendFd_ and sendLen_   *)
(* at the same time, the loop may see either file, and either store may be *)
(* the one that stays: which units are sent then is not told apart.        *)
Racing == "file" \in overlaps /\ (filing # {} \/ Queued("sendFile"))
Seen(fd, open, racing) == IF racing THEN open \cup {fd} ELSE {fd}
Left(len, n, racing) == IF racing THEN 0..Size ELSE {len - n}

\* What the loop takes up when it comes to the file in sendFd_ for the first time.
TakenUp == IF begun \/ sendFd = NoFile THEN <<>> ELSE From(sendFd, 1)

\* sendfile takes n of the units that are left of a file.
Takes(new, fd, len, n) == Moves("files", new, SubSeq(From(fd, Size - len + 1), 1, n))

\* What is left of the file is offered to the socket if nothing else is being sent.
SendFileInLoop(fd, len, new, open, racing) ==
    \/ \* the socket takes n units; none is EWOULDBLOCK, or a file shorter than the caller said
       /\ MayWriteDirectly /\ ~broken /\ ~shut
       /\ \E seen \in Seen(fd, open, racing) \cap open : \E n \in 0..len :
            /\ Takes(new, seen, len, n)
            /\ sendLen' \in Left(len, n, racing)
            /\ openFds' = IF sendLen' = 0 THEN open \ {seen} ELSE open
       /\ writing' = (sendLen' > 0)
    \/ \* EPIPE, ECONNRESET: nobody watches the socket.  EBADF: handleWrite is to find it again
       /\ MayWriteDirectly
       /\ \E seen \in Seen(fd, open, racing) :
            /\ broken \/ shut \/ seen \notin open
            /\ writing' = (seen \notin open /\ len > 0)
       /\ sendLen' = len /\ openFds' = open
       /\ Moves("files", new, <<>>)
    \/ \* something else is being sent
       /\ ~MayWriteDirectly
       /\ writing' = (writing \/ len > 0)
       /\ sendLen' = len /\ openFds' = open
       /\ Moves("files", new, <<>>)
-----------------------------------------------------------------------------
(* Calls on the loop thread, from callbacks.                               *)

Send ==
    /\ state = "kConnected"
    /\ sends < MaxSends
    /\ sends' = sends + 1
    /\ SendInLoop(sends + 1, queue)
    /\ UNCHANGED <<state, shut, broken, files, filing, gaveUp, fileVars>>

NextFile == MaxSends + files + 1

\* sendFile.  Whoever calls it has opened the file.
SendFile ==
    /\ state = "kConnected"
    /\ files < MaxFiles
    /\ files' = files + 1
    /\ Marks({"file"}, FileNotThrough)
    /\ sendFd' = NextFile /\ begun' = TRUE
    /\ SendFileInLoop(NextFile, Size, From(NextFile, 1), openFds \cup {NextFile}, filing # {})
    /\ UNCHANGED <<state, shut, broken, outBuf, queue, sends, filing, paused, gaveUp>>

Shutdown ==
    /\ state = "kConnected"
    /\ state' = "kDisconnecting"
    /\ Marks({"shutdown"}, filing # {} \/ Queued("sendFile"))
    /\ ShutdownInLoop
    /\ UNCHANGED <<writing, broken, queue, sends, files, filing, paused, outBuf, gaveUp, fileVars, owedVars>>
-----------------------------------------------------------------------------
(* Calls on other threads.  Their test of state_ may be long past when     *)
(* they go on; that of shutdown and its store are one step (TcpServer has  *)
(* them apart).                                                            *)

QueueSend ==
    /\ sends < MaxSends
    /\ sends' = sends + 1
    /\ queue' = Append(queue, <<"send", sends + 1>>)
    /\ UNCHANGED <<state, writing, shut, broken, files, filing, paused, dataVars>>

\* sendFile: two assignments that the loop thread may come between, seen in their order, and
\* a functor.
SetSendFd ==
    /\ files < MaxFiles
    /\ files' = files + 1 /\ filing' = filing \cup {NextFile}
    /\ sendFd' = NextFile /\ openFds' = openFds \cup {NextFile}
    /\ begun' = FALSE
    /\ overlaps' = overlaps \cup (IF FileNotThrough THEN {"file"} ELSE {})
                            \cup (IF state # "kConnected" THEN {"shutdown"} ELSE {})
    /\ Moves("files", <<>>, <<>>)
    /\ UNCHANGED <<state, writing, shut, broken, outBuf, sendLen, queue, sends, gaveUp, paused>>

SetSendLen ==
    /\ \E f \in filing : filing' = filing \ {f}
    /\ sendLen' = Size
    /\ queue' = Append(queue, <<"sendFile", 0>>)
    /\ UNCHANGED <<state, writing, shut, broken, outBuf, sendFd, openFds, begun, sends, files>>
    /\ UNCHANGED <<overlaps, owedVars, gaveUp, paused>>

QueueShutdown ==
    /\ state = "kConnected"
    /\ state' = "kDisconnecting"
    /\ Marks({"shutdown"}, filing # {})
    /\ queue' = Append(queue, <<"shutdown", 0>>)
    /\ UNCHANGED <<writing, shut, broken, sends, files, filing, paused, outBuf, gaveUp, fileVars, owedVars>>
-----------------------------------------------------------------------------
(* The loop thread.                                                        *)

RunFunctor ==
    /\ queue # <<>>
    /\ LET f == Head(queue)
       IN \/ /\ f[1] = "send"
             /\ SendInLoop(f[2], Tail(queue))
             /\ UNCHANGED <<shut, fileVars>>
          \/ /\ f[1] = "sendFile" /\ state # "kDisconnected"
             /\ UNCHANGED overlaps
             /\ SendFileInLoop(sendFd, sendLen, TakenUp, openFds, Racing)
             /\ begun' = TRUE
             /\ queue' = Tail(queue)
             /\ UNCHANGED <<shut, outBuf, sendFd, paused>>
          \/ /\ f[1] = "sendFile" /\ state = "kDisconnected"
             /\ queue' = Tail(queue)
             /\ UNCHANGED <<writing, shut, outBuf, owedVars, overlaps, fileVars, paused>>
          \/ /\ f[1] = "shutdown"
             /\ ShutdownInLoop
             /\ queue' = Tail(queue)
             /\ UNCHANGED <<writing, outBuf, owedVars, overlaps, fileVars, paused>>
          \/ /\ f[1] \in {"writeComplete", "highWater"}
             /\ queue' = Tail(queue)
             /\ UNCHANGED <<writing, shut, outBuf, owedVars, overlaps, fileVars, paused>>
    /\ UNCHANGED <<state, broken, sends, files, filing, gaveUp>>

ShutdownAfterWrite == IF state = "kDisconnecting" THEN shut' = TRUE ELSE UNCHANGED shut

Drained_Mutant(rest) == rest = <<>>          \* seeded bug: the file is forgotten
Drained(rest) == rest = <<>> /\ sendLen = 0

\* handleWrite, the buffer: it comes before the file.  A failed write is only logged.
WriteBuffer ==
    /\ writing /\ ~broken /\ ~shut
    /\ outBuf # <<>>
    /\ UNCHANGED <<state, broken, sends, files, filing, overlaps, gaveUp, fileVars>>
    /\ \E n \in 1..Len(outBuf) :
         /\ Moves("messages", <<>>, SubSeq(outBuf, 1, n))
         /\ outBuf' = SubSeq(outBuf, n + 1, Len(outBuf))
         /\ IF Drained(outBuf')
            THEN /\ writing' = FALSE
                 /\ QueueWriteComplete(queue)
                 /\ ShutdownAfterWrite
            ELSE UNCHANGED <<writing, queue, paused, shut>>

CloseFile(fd) == openFds' = openFds \ {fd} /\ sendFd' = NoFile

\* handleWrite, the file.
WriteFile ==
    /\ writing /\ ~broken /\ ~shut
    /\ outBuf = <<>>
    /\ begun' = TRUE
    /\ UNCHANGED <<state, broken, queue, sends, files, filing, outBuf, overlaps, gaveUp, paused>>
    /\ \E fd \in Seen(sendFd, openFds, Racing) \cap openFds : \E n \in 1..sendLen :
         /\ Takes(TakenUp, fd, sendLen, n)
         /\ sendLen' \in Left(sendLen, n, Racing)
         /\ IF sendLen' = 0
            THEN writing' = FALSE /\ CloseFile(fd) /\ ShutdownAfterWrite
            ELSE UNCHANGED <<writing, sendFd, openFds, shut>>

\* sendfile returns 0, the file being shorter than the caller said, or fails.
GiveUpFile ==
    /\ writing
    /\ outBuf = <<>>
    /\ \E fd \in Seen(sendFd, openFds, Racing) : CloseFile(fd)
    /\ sendLen' = 0
    /\ writing' = FALSE
    /\ owed' = [k \in Kinds |-> <<>>] /\ gaveUp' = TRUE
    /\ UNCHANGED <<state, shut, broken, queue, sends, files, filing, outBuf, astray, begun, overlaps, paused>>

\* handleClose, as far as the output goes: disableAll.  The buffer is left as it is.
HandleClose ==
    /\ state # "kDisconnected"
    /\ state' = "kDisconnected"
    /\ writing' = FALSE
    /\ UNCHANGED <<shut, broken, queue, sends, files, filing, paused, dataVars>>

PeerResets ==
    /\ PeerMayReset /\ ~broken
    /\ broken' = TRUE
    /\ UNCHANGED <<state, writing, shut, queue, sends, files, filing, paused, dataVars>>
-----------------------------------------------------------------------------
HandleWrite == WriteBuffer \/ WriteFile \/ GiveUpFile

Next == \/ Send \/ SendFile \/ Shutdown
        \/ QueueSend \/ QueueShutdown \/ SetSendFd \/ SetSendLen
        \/ RunFunctor \/ HandleWrite \/ HandleClose \/ PeerResets

Spec == Init /\ [][Next]_vars

(* The loop runs its functors, and a peer that stays connected reads, so   *)
(* that the socket becomes writable and takes something.  When the peer    *)
(* has reset the connection the socket stays readable until handleRead     *)
(* closes it.  A thread goes on from one assignment to the next.  No other *)
(* action has to happen.                                                   *)
FairSpec == /\ Spec
            /\ WF_vars(RunFunctor) /\ WF_vars(HandleWrite) /\ WF_vars(SetSendLen)
            /\ WF_vars(broken /\ HandleClose)
-----------------------------------------------------------------------------
TypeOK ==
    /\ state \in {"kConnected", "kDisconnecting", "kDisconnected"}
    /\ writing \in BOOLEAN /\ shut \in BOOLEAN /\ broken \in BOOLEAN /\ paused \in BOOLEAN
    /\ outBuf \in Seq(Units)
    /\ sendFd \in FileIds \cup {NoFile}
    /\ sendLen \in 0..Size
    /\ queue \in Seq(({"send"} \X Messages) \cup ({"sendFile", "shutdown", "writeComplete", "highWater"} \X {0}))
    /\ sends \in 0..MaxSends /\ files \in 0..MaxFiles /\ filing \in SUBSET FileIds
    /\ owed \in [Kinds -> Seq(Units)] /\ astray \in BOOLEAN
    /\ openFds \in SUBSET FileIds /\ begun \in BOOLEAN /\ gaveUp \in BOOLEAN
    /\ overlaps \in SUBSET Overlaps

(* No byte is lost, repeated or reordered between the loop's taking it up  *)
(* and the socket: of the messages, whatever else goes on; of the files,   *)
(* unless one is started before another is through; and of the two         *)
(* together, unless a message is sent while a file goes out, too.          *)
NothingLostOrReordered ==
    /\ ~astray
    /\ owed["messages"] = outBuf
    /\ "files" \in Followed => owed["files"] = FileRest
    /\ "both" \in Followed => owed["both"] = outBuf \o FileRest

(* The channel watches for writability when there is something to write    *)
(* and only then: a missing watch would stall the output for ever, a       *)
(* superfluous one makes the level-triggered loop spin (DESIGN.md, on      *)
(* TcpConnection).                                                         *)
WatchesWhenNeeded ==
    state # "kDisconnected" /\ ~broken =>
        /\ writing => outBuf # <<>> \/ sendLen > 0
        /\ outBuf # <<>> => writing
        /\ sendLen > 0 /\ ~shut /\ ~Queued("sendFile") => writing

(* The write side is not shut down before what the connection has accepted *)
(* is written (DESIGN.md, on shutdown), unless the peer has reset it, or a *)
(* file of another thread comes when shutdown() has been called already.   *)
ShutAfterDrained ==
    shut /\ state # "kDisconnected" /\ ~broken /\ "shutdown" \notin overlaps =>
        outBuf = <<>> /\ sendLen = 0

(* A file handed to sendFile is closed as soon as it is sent or given up;  *)
(* until then it is the one in sendFd_, unless another is started.         *)
OpenFileIsKnown ==
    "file" \notin overlaps => openFds \subseteq (IF filing # {} \/ sendLen > 0 THEN {sendFd} ELSE {})

(* The write side and the file are closed in time and not before.          *)
ClosesInTime == TypeOK /\ ShutAfterDrained /\ OpenFileIsKnown

(* The high-water callback is where a producer stops and the               *)
(* write-complete callback is where it goes on (DESIGN.md, on flow         *)
(* control), so the second follows the first on a connection that sends no *)
(* file: a file that follows a message suppresses the callback.            *)
PausedResumes == (paused /\ files = 0) ~> (~paused \/ files > 0 \/ state = "kDisconnected")

(* After shutdown() the write side is shut down once the output is         *)
(* written, unless the connection is closed before that or a file has been *)
(* given up.                                                               *)
ShutdownHappens == (state = "kDisconnecting") ~> (shut \/ gaveUp \/ state = "kDisconnected")

(* Neither the producer nor shutdown() is forgotten.                       *)
OutputGoesOn == PausedResumes /\ ShutdownHappens
=============================================================================
