----------------------------- MODULE Connections ------------------------------
(***************************************************************************)
(* The network side of the WTF server and client: network_handler_thread   *)
(* and the listener (server/network.c), _poll_and_read and _poll_and_write *)
(* (common/netutil.c), the framing of messages (common/protocol.c) and     *)
(* send_request (client/network.c).                                        *)
(*                                                                         *)
(* A connection has a client at one end and one thread of the server at    *)
(* the other.  What the threads share is the server's table of             *)
(* descriptors, where the kernel always hands out the lowest that is free: *)
(* a descriptor closed twice may belong to somebody else by then.          *)
(*                                                                         *)
(* Bytes are counted, not named; with them goes the set of connections     *)
(* that sent them, so that a message put together from two streams shows.  *)
(***************************************************************************)
EXTENDS Integers, FiniteSets

CONSTANTS
    Conns,          \* connections; each has one client and one server thread
    Fds,            \* descriptors the process may use for connections and files
    Kinds,          \* the requests clients make, out of AllKinds
    Header,         \* bytes of a message's size field (8 in the code)
    Cap,            \* bytes a fresh network buffer holds (8192)
    Limit,          \* MAX_PACKET_SIZE
    PushSizes,      \* lengths of a push, which carries files
    ShortRequest,   \* length of a request that carries a name
    ReplySizes,     \* lengths of the replies that carry manifests or archives
    ShortReply,     \* length of a reply that is a status only
    SendBuffer,     \* bytes a socket takes before its peer reads them
    Late,           \* the requests whose clients may leave while they wait
    Splits          \* the requests whose replies may arrive in parts

\* history stands for the requests that read a version number (readFile), create
\* for those that write a file, push for both; destroy looks for a directory.  The client never finalizes a
\* destroy and the server never finalizes the reply to a push or a rollback.
\* parse_request refuses a malformed request.
AllKinds == {"history", "create", "push", "destroy", "malformed"}

ASSUME SizesAssumption ==
    /\ Header \in Nat \ {0}
    /\ Cap \in Nat /\ Cap >= Header
    /\ Limit \in Nat /\ Limit >= Header
    /\ ShortReply \in Nat /\ ShortReply >= Header /\ ShortReply <= Cap
    /\ SendBuffer \in Nat /\ SendBuffer >= ShortReply
    /\ PushSizes \subseteq Nat /\ \A n \in PushSizes : n >= Header
    /\ ShortRequest \in Nat /\ ShortRequest >= Header
    /\ ReplySizes \subseteq Nat /\ \A n \in ReplySizes : n >= Header
ASSUME FdsAssumption == Fds \subseteq Nat /\ IsFiniteSet(Fds)
ASSUME KindsAssumption == Kinds \subseteq AllKinds
ASSUME LateAssumption == Late \subseteq Kinds
ASSUME SplitsAssumption == Splits \subseteq Kinds

VARIABLES
    up,      \* does the server process run?
    table,   \* table[f]: what descriptor f of the server refers to
    pc,      \* pc[c]: where the thread of connection c is
    fd,      \* fd[c]: the thread's local variable fd
    file,    \* file[c]: the descriptor of a file or directory its handler has open
    buf,     \* buf[c]: its request_buffer
    reply,   \* reply[c]: length of its response, 0 while there is none
    absent,  \* the connections whose project the server could not find (999)
    wrote,   \* wrote[c]: write_accum
    cpc,     \* cpc[c]: where the client of connection c is in send_request
    kind,    \* kind[c]: its request
    size,    \* size[c]: the length of its request
    sent,    \* sent[c]: what it has written of it
    in,      \* in[c]: how many bytes the server's end of the stream holds
    out,     \* out[c]: the bytes the server's end has taken and the client not read
    got      \* got[c]: the client's response_buffer

server == <<up, table, pc, fd, file, buf, reply, absent, wrote>>
client == <<cpc, kind, size, sent, got>>
vars == <<server, client, in, out>>

-------------------------------------------------------------------------------
\* Streams and descriptors

\* A number of bytes and the connections whose senders wrote them.
Nothing == [len |-> 0, from |-> {}]
Plus(b, n, from) == [len |-> b.len + n, from |-> b.from \union from]
Minus(b, n) == IF n = b.len THEN Nothing ELSE [b EXCEPT !.len = @ - n]

Free == <<"free">>
Leaked == <<"leaked">>
Conn(c) == <<"connection", c>>
File(c) == <<"file", c>>
NoFd == -1

FreeFds == {f \in Fds : table[f] = Free}
Lowest == CHOOSE f \in FreeFds : \A g \in FreeFds : f <= g

\* close(f): f is free, whoever it belonged to; closing a closed one fails.
Closed(f) == IF f \in Fds THEN [table EXCEPT ![f] = Free] ELSE table

Least(m, n) == IF m <= n THEN m ELSE n

\* The size field of a request and of a reply.
Claims(c) == IF kind[c] = "destroy" THEN 0 ELSE size[c]
ReplyClaims(c) == IF kind[c] = "push" /\ c \notin absent THEN 0 ELSE reply[c]

\* What one read(2) may return of n bytes: any part, but the whole of a status that
\* was written at once, unless its request is among Splits.
Parts(k, n) == IF k \in Splits THEN 1..n ELSE {n}

\* The client's end has gone: the kernel answers what is sent to it with RST.
Gone(c) == cpc[c] \in {"done", "error", "gone"}

\* Not yet closed at the server: waiting to be accepted, or in the table.
Open(c) == up /\ (pc[c] = "backlog" \/ \E f \in Fds : table[f] = Conn(c))

\* The lengths of requests and of the replies to them.
RequestSizes(k) == IF k = "push" THEN PushSizes ELSE {ShortRequest}
RepliesTo(k) == IF k = "history" THEN ReplySizes ELSE {ShortReply}

\* parse_response: destroy's replies are built with is_two_payload = 2, which
\* says that a first payload follows, and end there.
WellFormedReply(c) == kind[c] # "destroy" \/ c \in absent
-------------------------------------------------------------------------------
\* The client: send_request

Connect(c, k, n) ==
    /\ cpc[c] = "idle" /\ up
    /\ cpc' = [cpc EXCEPT ![c] = "sending"]
    /\ kind' = [kind EXCEPT ![c] = k]
    /\ size' = [size EXCEPT ![c] = n]
    /\ pc' = [pc EXCEPT ![c] = "backlog"]
    /\ UNCHANGED <<up, table, fd, file, buf, reply, absent, wrote, sent, got, in, out>>

\* _poll_and_write of the request: any part of what is left.
Send(c, n) ==
    /\ cpc[c] = "sending" /\ Open(c)
    /\ sent' = [sent EXCEPT ![c] = @ + n]
    /\ in' = [in EXCEPT ![c] = @ + n]
    /\ cpc' = [cpc EXCEPT ![c] = IF sent[c] + n = size[c] THEN "size" ELSE "sending"]
    /\ UNCHANGED <<server, kind, size, got, out>>

\* The user interrupts the client, or its 300 s for a reply are over.
Leave(c) ==
    /\ cpc[c] = "sending" \/ (kind[c] \in Late /\ cpc[c] \in {"size", "body"})
    /\ cpc' = [cpc EXCEPT ![c] = "gone"]
    /\ UNCHANGED <<server, kind, size, sent, got, in, out>>

\* Where the client goes on with b in its buffer: the same two watermarks as in
\* the server.  d is a connection whose thread wrote the size field.
ClientAfter(c, b, d) ==
    IF b.len < Header THEN "size"
    ELSE IF ReplyClaims(d) > Limit THEN "gone"
    ELSE IF b.len < ReplyClaims(d) THEN "body"
    ELSE IF WellFormedReply(d) THEN "done" ELSE "error"

ClientRead(c) ==
    /\ cpc[c] \in {"size", "body"}
    /\ out[c].len > 0
    /\ \E d \in out[c].from :
         LET room == (IF cpc[c] = "size" THEN Cap ELSE ReplyClaims(d)) - got[c].len
         IN \E n \in Parts(kind[d], Least(room, out[c].len)) :
              LET b == Plus(got[c], n, out[c].from)
              IN /\ got' = [got EXCEPT ![c] = b]
                 /\ out' = [out EXCEPT ![c] = Minus(@, n)]
                 /\ cpc' = [cpc EXCEPT ![c] = ClientAfter(c, b, d)]
    /\ UNCHANGED <<server, kind, size, sent, in>>

\* read returns 0, or poll or write fail: the server has closed its end.
ClientFails(c) ==
    /\ cpc[c] \in {"sending", "size", "body"}
    /\ ~Open(c)
    /\ cpc[c] = "sending" \/ out[c].len = 0
    /\ cpc' = [cpc EXCEPT ![c] = "gone"]
    /\ UNCHANGED <<server, kind, size, sent, got, in, out>>
-------------------------------------------------------------------------------
\* The server: the listener and one thread per connection

\* With no descriptor left accept returns -1, the thread it starts polls -1 until
\* the time is out, and the connection stays in the backlog.
Accept(c) ==
    /\ up /\ pc[c] = "backlog" /\ FreeFds # {}
    /\ fd' = [fd EXCEPT ![c] = Lowest]
    /\ table' = [table EXCEPT ![Lowest] = Conn(c)]
    /\ pc' = [pc EXCEPT ![c] = "size"]
    /\ UNCHANGED <<up, file, buf, reply, absent, wrote, client, in, out>>

\* variant: what the first read brought is taken for the request.
AfterFirstRead(b, d) ==
    IF b.len < Header THEN "size" ELSE IF Claims(d) > Limit THEN "refuse" ELSE "parse"

\* variant: the watermark is passed only by one byte more.
AfterBeyond(b, d) ==
    IF b.len < Header THEN "size"
    ELSE IF Claims(d) > Limit THEN "refuse"
    ELSE IF b.len <= Claims(d) THEN "body" ELSE "parse"

\* Where the thread goes on with b in its buffer, whose size field d's client wrote.
After(b, d) ==
    IF b.len < Header THEN "size"
    ELSE IF Claims(d) > Limit THEN "refuse"
    ELSE IF b.len < Claims(d) THEN "body" ELSE "parse"

\* What the buffer has room for: it is resized to the claimed size.
Room(c, d) == (IF pc[c] = "size" THEN Cap ELSE Claims(d)) - buf[c].len

\* _poll_and_read: poll and read on whatever descriptor fd refers to by now.
Read(c, d) ==
    /\ up /\ pc[c] \in {"size", "body"}
    /\ table[fd[c]] = Conn(d)
    /\ \E n \in 1..Least(Room(c, d), in[d]) :
         LET b == Plus(buf[c], n, {d})
         IN /\ buf' = [buf EXCEPT ![c] = b]
            /\ in' = [in EXCEPT ![d] = @ - n]
            /\ pc' = [pc EXCEPT ![c] = After(b, d)]
    /\ UNCHANGED <<up, table, fd, file, reply, absent, wrote, client, out>>

\* variant: the thread closes once more what _poll_and_read has closed.
ReadFailedTwice(c) ==
    /\ table' = Closed(fd[c])
    /\ pc' = [pc EXCEPT ![c] = "close"]

\* The error path of _poll_and_read closes the descriptor and the thread ends.
ReadFailed(c) ==
    /\ table' = Closed(fd[c])
    /\ pc' = [pc EXCEPT ![c] = "exit"]

\* The client has gone, or 300 s have passed without a byte; or fd is not a
\* connection any more (poll says POLLNVAL of a closed one, which stays closed).
ReadFails(c) ==
    /\ up /\ pc[c] \in {"size", "body"}
    /\ \A d \in Conns : table[fd[c]] = Conn(d) => in[d] = 0
    /\ ReadFailed(c)
    /\ UNCHANGED <<up, fd, file, buf, reply, absent, wrote, client, in, out>>

\* variant: the thread ends without closing the connection it refuses.
RefuseOpen(c) ==
    /\ up /\ pc[c] = "refuse"
    /\ pc' = [pc EXCEPT ![c] = "exit"]
    /\ UNCHANGED <<up, table, fd, file, buf, reply, absent, wrote, client, in, out>>

\* network_handler_thread closes a connection it will not answer.
Refuse(c) ==
    /\ up /\ pc[c] = "refuse"
    /\ table' = Closed(fd[c])
    /\ pc' = [pc EXCEPT ![c] = "exit"]
    /\ UNCHANGED <<up, fd, file, buf, reply, absent, wrote, client, in, out>>

\* parse_request on the buffer.  d is the connection whose request it holds; what
\* is missing of it (the size field was 0) is read from beyond the buffer.
Parse(c, d) ==
    /\ up /\ pc[c] = "parse" /\ d \in buf[c].from
    /\ \/ /\ kind[d] = "malformed" \/ buf[c].len < size[d]
          /\ pc' = [pc EXCEPT ![c] = "refuse"]
          /\ UNCHANGED reply
       \/ /\ kind[d] # "malformed"
          /\ pc' = [pc EXCEPT ![c] = IF kind[d] = "create" THEN "store" ELSE "exists"]
          /\ \E n \in RepliesTo(kind[d]) : reply' = [reply EXCEPT ![c] = n]
    /\ UNCHANGED <<up, table, fd, file, buf, absent, wrote, client, in, out>>

\* The kind of the request in c's buffer.
Serves(c, k) == \E d \in buf[c].from : kind[d] = k

\* project_exist, and isDir again in destroy, hold the directory while they look;
\* writeFile opens, writes and closes.
OpenFile(c) ==
    /\ up /\ pc[c] \in {"exists", "store"} /\ FreeFds # {}
    /\ file' = [file EXCEPT ![c] = Lowest]
    /\ table' = [table EXCEPT ![Lowest] = File(c)]
    /\ pc' = [pc EXCEPT ![c] = IF pc[c] = "exists" THEN "found" ELSE "stored"]
    /\ UNCHANGED <<up, fd, buf, reply, absent, wrote, client, in, out>>

\* With no descriptor left a project that is there is not found, which is answered
\* with 999 and finalized; a file is not written and the handler goes on to its reply.
OpenFails(c) ==
    /\ up /\ pc[c] \in {"exists", "store"} /\ FreeFds = {}
    /\ absent' = IF pc[c] = "exists" THEN absent \union {c} ELSE absent
    /\ reply' = IF pc[c] = "exists" THEN [reply EXCEPT ![c] = ShortReply] ELSE reply
    /\ pc' = [pc EXCEPT ![c] = "write"]
    /\ UNCHANGED <<up, table, fd, file, buf, wrote, client, in, out>>

\* A handler that has found its project reads the version, or, in destroy, looks
\* for the directory once more.
CloseFile(c) ==
    /\ up /\ pc[c] \in {"found", "stored"}
    /\ table' = Closed(file[c])
    /\ file' = [file EXCEPT ![c] = NoFd]
    /\ pc' = [pc EXCEPT ![c] = IF pc[c] = "stored" THEN "write"
                              ELSE IF Serves(c, "destroy") THEN "store" ELSE "load"]
    /\ UNCHANGED <<up, fd, buf, reply, absent, wrote, client, in, out>>

\* get_latest_project_version: readFile opens Currentversion and never closes
\* it; if it cannot be opened the process exits.
Load(c) ==
    /\ up /\ pc[c] = "load"
    /\ up' = (FreeFds # {})
    /\ table' = IF FreeFds = {} THEN table ELSE [table EXCEPT ![Lowest] = Leaked]
    /\ pc' = [pc EXCEPT ![c] = IF Serves(c, "push") THEN "store" ELSE "write"]
    /\ UNCHANGED <<fd, file, buf, reply, absent, wrote, client, in, out>>

\* variant: every write starts from the beginning of the reply.
TakenAfresh(c, d) == Least(reply[c], SendBuffer - out[d].len)

\* What write(2) takes of the rest of the reply: sockets are blocking, and it
\* returns when all is taken, so that there is no time limit on a client that stays
\* and does not read.
Taken(c, d) == Least(reply[c] - wrote[c], SendBuffer - out[d].len)

\* _poll_and_write to a client that is there.
Write(c, d) ==
    /\ up /\ pc[c] = "write"
    /\ table[fd[c]] = Conn(d) /\ ~Gone(d)
    /\ Taken(c, d) > 0
    /\ out' = [out EXCEPT ![d] = Plus(@, Taken(c, d), {c})]
    /\ wrote' = [wrote EXCEPT ![c] = @ + Taken(c, d)]
    /\ pc' = [pc EXCEPT ![c] = IF wrote'[c] = reply[c] THEN "close" ELSE "write"]
    /\ UNCHANGED <<up, table, fd, file, buf, reply, absent, client, in>>

\* The client has gone.  If the socket takes the rest of the reply all is well
\* and the bytes are lost.  If not, its RST ends the write, poll reports the error
\* and _poll_and_write closes the connection.  (So it does when fd is not a
\* connection any more.)
WriteLost(c) ==
    /\ up /\ pc[c] = "write"
    /\ \A d \in Conns : table[fd[c]] = Conn(d) => Gone(d)
    /\ table' = IF \E d \in Conns : table[fd[c]] = Conn(d) /\ Taken(c, d) = reply[c] - wrote[c]
                THEN table ELSE Closed(fd[c])
    /\ pc' = [pc EXCEPT ![c] = "close"]
    /\ UNCHANGED <<up, fd, file, buf, reply, absent, wrote, client, in, out>>

\* network_handler_thread closes fd whatever _poll_and_write returned.
Close(c) ==
    /\ up /\ pc[c] = "close"
    /\ table' = Closed(fd[c])
    /\ pc' = [pc EXCEPT ![c] = "exit"]
    /\ UNCHANGED <<up, fd, file, buf, reply, absent, wrote, client, in, out>>
-------------------------------------------------------------------------------
ConnInit ==
    /\ up = TRUE
    /\ table = [f \in Fds |-> Free]
    /\ pc = [c \in Conns |-> "none"]
    /\ fd = [c \in Conns |-> NoFd]
    /\ file = [c \in Conns |-> NoFd]
    /\ buf = [c \in Conns |-> Nothing]
    /\ reply = [c \in Conns |-> 0]
    /\ absent = {}
    /\ wrote = [c \in Conns |-> 0]
    /\ cpc = [c \in Conns |-> "idle"]
    /\ kind = [c \in Conns |-> "none"]
    /\ size = [c \in Conns |-> 0]
    /\ sent = [c \in Conns |-> 0]
    /\ in = [c \in Conns |-> 0]
    /\ out = [c \in Conns |-> Nothing]
    /\ got = [c \in Conns |-> Nothing]

\* The steps of a thread once it is started.
Thread(c) ==
    \/ \E d \in Conns : Read(c, d)
    \/ ReadFails(c)
    \/ Refuse(c)
    \/ \E d \in Conns : Parse(c, d)
    \/ OpenFile(c)
    \/ OpenFails(c)
    \/ CloseFile(c)
    \/ Load(c)
    \/ \E d \in Conns : Write(c, d)
    \/ WriteLost(c)
    \/ Close(c)

ConnNext ==
    \E c \in Conns :
        \/ \E k \in Kinds : \E n \in RequestSizes(k) : Connect(c, k, n)
        \/ \E n \in 1..(size[c] - sent[c]) : Send(c, n)
        \/ Leave(c)
        \/ ClientRead(c)
        \/ ClientFails(c)
        \/ Accept(c)
        \/ Thread(c)

ConnSpec == ConnInit /\ [][ConnNext]_vars

\* The listener accepts in the order of the backlog, threads run, a reader reads
\* what is there and learns of a closed connection.  The 300 s of poll run out,
\* which makes ReadFails part of what a thread does in time.  Nothing says that a
\* client sends.
ConnFairness ==
    \A c \in Conns :
        /\ WF_vars(Accept(c))
        /\ WF_vars(Thread(c))
        /\ WF_vars(ClientRead(c))
        /\ WF_vars(ClientFails(c))

ConnFairSpec == ConnSpec /\ ConnFairness
-------------------------------------------------------------------------------
Bytes == [len : Nat, from : SUBSET Conns]
Uses == {Free, Leaked} \union {Conn(c) : c \in Conns} \union {File(c) : c \in Conns}

ConnTypeOK ==
    /\ up \in BOOLEAN
    /\ table \in [Fds -> Uses]
    /\ pc \in [Conns -> {"none", "backlog", "size", "body", "refuse", "parse", "exists",
                         "found", "load", "store", "stored", "write", "close", "exit"}]
    /\ fd \in [Conns -> Fds \union {NoFd}]
    /\ file \in [Conns -> Fds \union {NoFd}]
    /\ buf \in [Conns -> Bytes]
    /\ reply \in [Conns -> ReplySizes \union {0, ShortReply}]
    /\ absent \subseteq Conns
    /\ wrote \in [Conns -> Nat] /\ \A c \in Conns : wrote[c] <= reply[c]
    /\ cpc \in [Conns -> {"idle", "sending", "size", "body", "done", "error", "gone"}]
    /\ kind \in [Conns -> Kinds \union {"none"}]
    /\ size \in [Conns -> PushSizes \union {ShortRequest, 0}]
    /\ sent \in [Conns -> Nat] /\ \A c \in Conns : sent[c] <= size[c]
    /\ in \in [Conns -> Nat]
    /\ out \in [Conns -> Bytes] /\ \A c \in Conns : out[c].len <= SendBuffer
    /\ got \in [Conns -> Bytes]

\* While a thread goes on using its descriptor the descriptor is its connection's,
\* and while a handler has a file open that descriptor is the file's: no close of
\* another thread, and no second close of its own, has let it go to somebody
\* else (network.c:121 closes what _poll_and_write may have closed).
OwnDescriptor ==
    up => \A c \in Conns :
            /\ pc[c] \in {"size", "body", "refuse", "parse", "exists", "found", "load", "store",
                         "stored", "write", "close"}
               => fd[c] \in Fds /\ table[fd[c]] = Conn(c)
            /\ pc[c] \in {"found", "stored"} => file[c] \in Fds /\ table[file[c]] = File(c)

\* How far the exchange of c has come, for the promise of Exchange: served when a
\* thread took exactly the request c's client sent, answered when the client
\* took exactly the reply of that thread.
ExchangeStatus ==
    [c \in Conns |->
        CASE cpc[c] = "idle" -> "idle"
          [] cpc[c] \in {"gone", "error"} -> "dropped"
          [] cpc[c] = "done" ->
                IF got[c] = [len |-> reply[c], from |-> {c}] THEN "answered" ELSE "wrong reply"
          [] OTHER ->
                IF reply[c] = 0 THEN "asked"
                ELSE IF buf[c] = [len |-> size[c], from |-> {c}] THEN "served"
                ELSE "wrong request"]

Promise == INSTANCE Exchange WITH status <- ExchangeStatus

\* Whatever the chunks in which the streams arrive, and whatever other clients
\* do, a request is served as it was sent and answered with its own whole reply.
ImplementsExchange == Promise!Spec

\* Every connection that was accepted is closed in the end, so that its
\* descriptor can be used again, though clients stop sending at any point.
Released ==
    \A c \in Conns : (\E f \in Fds : table[f] = Conn(c)) ~> (\A f \in Fds : table[f] # Conn(c))

\* A client that has sent a whole request which the server does not refuse, and
\* that waits, has its reply in the end.
Answered ==
    \A c \in Conns :
        (cpc[c] = "size" /\ Open(c) /\ kind[c] \notin Late \union {"malformed"} /\ size[c] <= Limit)
            ~> (cpc[c] = "done")
===============================================================================
