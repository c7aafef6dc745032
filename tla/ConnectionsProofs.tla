--------------------------- MODULE ConnectionsProofs ---------------------------
(***************************************************************************)
(* What TLAPS proves of Connections, for any number of connections and     *)
(* descriptors, any lengths of messages and any sizes of buffers: no       *)
(* thread closes or uses a descriptor that is not its own, and Connections *)
(* implements Exchange.                                                    *)
(***************************************************************************)
EXTENDS Connections, WellFoundedInduction, TLAPS

\* Where this holds: requests and replies state their length (the client never
\* finalizes a destroy) or, those to a push, are read at once, replies pass the
\* limit of the client, and no client leaves a reply that may be larger than what a
\* socket takes at once.
Stated ==
    /\ "destroy" \notin Kinds
    /\ "history" \notin Late
    /\ "push" \notin Splits
    /\ \A n \in ReplySizes \union {ShortReply} : n <= Limit

-------------------------------------------------------------------------------
(* The strengthening, one connection at a time. *)

Whole(n, c) == [len |-> n, from |-> {c}]
Using(c) ==
    pc[c] \in {"size", "body", "refuse", "parse", "exists", "found", "load", "store", "stored",
              "write", "close"}

\* What the thread of c uses is its own.
Owns(c) ==
    /\ Using(c) => fd[c] \in Fds /\ table[fd[c]] = Conn(c)
    /\ pc[c] \in {"found", "stored"} => file[c] \in Fds /\ table[file[c]] = File(c)

\* Only bytes of c's ends are in its buffers and streams.
Pure(b, c) == b.from \subseteq {c} /\ (b.len > 0 => b.from = {c})

\* The request: what was sent and is not in the stream any more is in the buffer.
Asking(c) ==
    /\ cpc[c] = "idle" <=> pc[c] = "none"
    /\ cpc[c] = "idle" => sent[c] = 0
    /\ cpc[c] # "idle" => kind[c] \in Kinds /\ size[c] \in RequestSizes(kind[c])
    /\ cpc[c] = "sending" => sent[c] < size[c]
    /\ cpc[c] \in {"size", "body", "done", "error"} => sent[c] = size[c]
    /\ Pure(buf[c], c)
    /\ sent[c] = buf[c].len + in[c]
    /\ pc[c] \in {"none", "backlog"} => buf[c].len = 0
    /\ pc[c] = "size" => buf[c].len < Header
    /\ pc[c] = "body" => buf[c].len < size[c]
    /\ pc[c] \in {"parse", "exists", "found", "load", "store", "stored", "write"} => buf[c] = Whole(size[c], c)

\* The reply: what was written and is not in the stream any more has been read.
Answering(c) ==
    /\ pc[c] \in {"none", "backlog", "size", "body", "refuse", "parse"} => reply[c] = 0
    /\ pc[c] \in {"exists", "found", "load", "store", "stored", "write"} => reply[c] # 0
    /\ pc[c] \notin {"write", "close", "exit"} => wrote[c] = 0
    /\ pc[c] = "write" => wrote[c] < reply[c]
    /\ reply[c] # 0 => /\ reply[c] \in RepliesTo(kind[c]) \union {ShortReply}
                      /\ buf[c] = Whole(size[c], c)
    /\ Pure(out[c], c) /\ Pure(got[c], c)
    /\ out[c].len + got[c].len = wrote[c]
    /\ kind[c] # "history" => wrote[c] \in {0, reply[c]}
    /\ kind[c] = "push" => got[c].len \in {0, reply[c]}
    /\ cpc[c] \in {"idle", "sending"} => got[c].len = 0
    /\ cpc[c] = "size" => got[c].len < Header
    /\ cpc[c] = "body" => Header <= got[c].len /\ got[c].len < ReplyClaims(c)
    /\ cpc[c] = "done" => reply[c] # 0 /\ got[c] = Whole(reply[c], c)
    /\ cpc[c] # "error"

\* A client that went before its reply was written had sent a part of its request
\* only, or is one of those that may leave.
Left(c) ==
    (up /\ Gone(c) /\ pc[c] \in {"backlog", "size", "body", "parse", "exists", "found", "load", "store", "stored",
                                   "write"})
    => sent[c] < size[c] \/ kind[c] \in Late

ConnInv == ConnTypeOK /\ \A c \in Conns : Owns(c) /\ Asking(c) /\ Answering(c) /\ Left(c)

-------------------------------------------------------------------------------
(* Descriptors. *)

\* What a descriptor refers to tells threads, and connections from files, apart.
LEMMA Distinct ==
    ASSUME NEW c \in Conns, NEW e \in Conns
    PROVE  /\ Conn(c) # Free /\ File(c) # Free /\ Conn(c) # File(e)
           /\ Conn(c) # Leaked /\ File(c) # Leaked
           /\ c # e => Conn(c) # Conn(e) /\ File(c) # File(e)
  BY DEF Conn, File, Free, Leaked

\* There is a lowest of the free descriptors (FreeFds, Lowest).
LEMMA LowestIsFree ==
    ASSUME FreeFds # {}
    PROVE  Lowest \in FreeFds
  <1> DEFINE Less == OpToRel(<, Nat)
  <1>1. FreeFds \subseteq Nat
    BY FdsAssumption DEF FreeFds
  <1>0. \A m, n \in Nat : m < n => <<m, n>> \in Less
    BY DEF OpToRel
  <1> HIDE DEF Less
  <1>2. PICK f \in FreeFds : \A g \in FreeFds : ~(<<g, f>> \in Less)
    BY <1>1, NatLessThanWellFounded, WFMin DEF Less
  <1>3. ASSUME NEW g \in FreeFds
        PROVE  f <= g
    <2>1. f \in Nat /\ g \in Nat
      BY <1>1
    <2>2. ~(g < f)
      BY <1>0, <1>2, <2>1, Zenon
    <2> QED
      BY <2>1, <2>2
  <1> QED
    BY <1>3 DEF Lowest

\* A connection keeps what it owns when a free descriptor is taken.
LEMMA TakingKeeps ==
    ASSUME NEW e \in Conns, Owns(e), NEW what,
           table \in [Fds -> Uses],
           NEW f \in FreeFds,
           table' = [table EXCEPT ![f] = what],
           pc'[e] = pc[e], fd'[e] = fd[e], file'[e] = file[e]
    PROVE  Owns(e)'
  BY Distinct DEF Owns, Using, FreeFds

\* A connection keeps what it owns when a descriptor of another use is closed.
LEMMA ClosingKeeps ==
    ASSUME NEW e \in Conns, Owns(e),
           table \in [Fds -> Uses],
           NEW f \in Fds, table[f] # Conn(e), table[f] # File(e),
           table' = Closed(f),
           pc'[e] = pc[e], fd'[e] = fd[e], file'[e] = file[e]
    PROVE  Owns(e)'
  BY Distinct DEF Owns, Using, Closed

-------------------------------------------------------------------------------
(* The steps of others. *)

\* Nothing of e changes, and the server does not start again.
Same(e) ==
    /\ pc'[e] = pc[e] /\ fd'[e] = fd[e] /\ file'[e] = file[e] /\ buf'[e] = buf[e]
    /\ reply'[e] = reply[e] /\ wrote'[e] = wrote[e] /\ cpc'[e] = cpc[e] /\ kind'[e] = kind[e]
    /\ size'[e] = size[e] /\ sent'[e] = sent[e] /\ in'[e] = in[e] /\ out'[e] = out[e]
    /\ got'[e] = got[e]
    /\ (e \in absent') = (e \in absent)
    /\ up' => up

Local(e) == Asking(e) /\ Answering(e) /\ Left(e)

LEMMA SameKeeps ==
    ASSUME NEW e \in Conns, Same(e), Local(e)
    PROVE  Local(e)'
  <1>1. Asking(e)'
    BY DEF Same, Local, Asking, Pure, Whole
  <1>2. Answering(e)'
    BY DEF Same, Local, Answering, Pure, Whole, ReplyClaims
  <1>3. Left(e)'
    BY DEF Same, Local, Left, Gone
  <1> QED
    BY <1>1, <1>2, <1>3 DEF Local

\* A step of c that leaves the descriptors alone keeps what the others own.
LEMMA TableKeeps ==
    ASSUME NEW e \in Conns, Owns(e), table' = table,
           pc'[e] = pc[e], fd'[e] = fd[e], file'[e] = file[e]
    PROVE  Owns(e)'
  BY DEF Owns, Using

\* What is known of the lengths that occur.
LEMMA Lengths ==
    ASSUME NEW k \in Kinds
    PROVE  /\ RequestSizes(k) \subseteq Nat /\ \A n \in RequestSizes(k) : n >= Header
           /\ RepliesTo(k) \subseteq Nat /\ \A n \in RepliesTo(k) : n >= Header /\ n # 0
  BY SizesAssumption DEF RequestSizes, RepliesTo

\* What the variables count is a number of bytes.
LEMMA Numbers ==
    ASSUME ConnInv, NEW c \in Conns
    PROVE  /\ size[c] \in Nat /\ sent[c] \in Nat /\ reply[c] \in Nat /\ wrote[c] \in Nat
           /\ in[c] \in Nat /\ buf[c] \in Bytes /\ out[c] \in Bytes /\ got[c] \in Bytes
           /\ buf[c].len \in Nat /\ out[c].len \in Nat /\ got[c].len \in Nat
  <1>1. PushSizes \union {ShortRequest, 0} \subseteq Nat /\ ReplySizes \union {0, ShortReply} \subseteq Nat
    BY SizesAssumption
  <1>2. size[c] \in PushSizes \union {ShortRequest, 0} /\ reply[c] \in ReplySizes \union {0, ShortReply}
    BY DEF ConnInv, ConnTypeOK
  <1>3. sent[c] \in Nat /\ wrote[c] \in Nat /\ in[c] \in Nat
    BY DEF ConnInv, ConnTypeOK
  <1>4. buf[c] \in Bytes /\ out[c] \in Bytes /\ got[c] \in Bytes
    BY DEF ConnInv, ConnTypeOK
  <1> QED
    BY <1>1, <1>2, <1>3, <1>4 DEF Bytes

LEMMA ConnectStep ==
    ASSUME Stated, ConnInv, NEW c \in Conns, NEW k \in Kinds, NEW n \in RequestSizes(k), Connect(c, k, n)
    PROVE  ConnInv'
  <1>1. ConnTypeOK'
    BY SizesAssumption DEF ConnInv, ConnTypeOK, Connect, RequestSizes, Asking
  <1>2. ASSUME NEW e \in Conns, e # c
        PROVE  Owns(e)' /\ Local(e)'
    <2>1. Same(e) /\ table' = table
      BY <1>2 DEF Same, Connect, ConnInv, ConnTypeOK
    <2> QED
      BY <2>1, SameKeeps, TableKeeps DEF ConnInv, Local, Same
  <1>3. Owns(c)'
    BY DEF Connect, ConnInv, ConnTypeOK, Owns, Using
  <1>4. Asking(c)'
    BY SizesAssumption, Lengths DEF Connect, ConnInv, ConnTypeOK, Asking, Pure
  <1>5. Answering(c)'
    BY SizesAssumption, Lengths DEF Connect, ConnInv, ConnTypeOK, Asking, Answering, Pure
  <1>6. Left(c)'
    BY DEF Connect, ConnInv, ConnTypeOK, Left, Gone
  <1> QED
    BY <1>1, <1>2, <1>3, <1>4, <1>5, <1>6 DEF ConnInv, Local

\* The descriptor a thread uses is not another connection's.
LEMMA OwnOnly ==
    ASSUME ConnInv, NEW c \in Conns, NEW d \in Conns, Using(c), table[fd[c]] = Conn(d)
    PROVE  d = c
  BY Distinct DEF ConnInv, Owns

LEMMA SendStep ==
    ASSUME Stated, ConnInv, NEW c \in Conns, NEW n \in 1..(size[c] - sent[c]), Send(c, n)
    PROVE  ConnInv'
  <1>0. size[c] \in Nat /\ sent[c] \in Nat /\ n \in Nat /\ n > 0 /\ sent[c] + n <= size[c]
    <2>1. size[c] \in Nat /\ sent[c] \in Nat
      BY Numbers
    <2> QED
      BY <2>1
  <1>1. ConnTypeOK'
    BY <1>0 DEF ConnInv, ConnTypeOK, Send, server
  <1>2. ASSUME NEW e \in Conns, e # c
        PROVE  Owns(e)' /\ Local(e)'
    <2>1. Same(e) /\ table' = table
      BY <1>2 DEF Same, Send, server, ConnInv, ConnTypeOK
    <2> QED
      BY <2>1, SameKeeps, TableKeeps DEF ConnInv, Local, Same
  <1>3. Owns(c)'
    BY TableKeeps DEF Send, server, ConnInv
  <1>4. Asking(c)'
    BY <1>0 DEF Send, server, ConnInv, ConnTypeOK, Asking, Pure, Whole, Bytes
  <1>5. Answering(c)'
    BY <1>0, SizesAssumption DEF Send, server, ConnInv, ConnTypeOK, Asking, Answering, Pure, Whole, ReplyClaims
  <1>6. Left(c)'
    BY <1>0 DEF Send, server, ConnInv, ConnTypeOK, Left, Gone
  <1> QED
    BY <1>1, <1>2, <1>3, <1>4, <1>5, <1>6 DEF ConnInv, Local

LEMMA LeaveStep ==
    ASSUME Stated, ConnInv, NEW c \in Conns, Leave(c)
    PROVE  ConnInv'
  <1>1. ConnTypeOK'
    BY DEF ConnInv, ConnTypeOK, Leave, server
  <1>2. ASSUME NEW e \in Conns, e # c
        PROVE  Owns(e)' /\ Local(e)'
    <2>1. Same(e) /\ table' = table
      BY <1>2 DEF Same, Leave, server, ConnInv, ConnTypeOK
    <2> QED
      BY <2>1, SameKeeps, TableKeeps DEF ConnInv, Local, Same
  <1>3. Owns(c)'
    BY TableKeeps DEF Leave, server, ConnInv
  <1>4. Asking(c)'
    BY DEF Leave, server, ConnInv, ConnTypeOK, Asking, Pure, Whole
  <1>5. Answering(c)'
    BY DEF Leave, server, ConnInv, ConnTypeOK, Answering, Pure, Whole
  <1>6. Left(c)'
    BY DEF Leave, server, ConnInv, ConnTypeOK, Asking, Left, Gone
  <1> QED
    BY <1>1, <1>2, <1>3, <1>4, <1>5, <1>6 DEF ConnInv, Local

LEMMA AcceptStep ==
    ASSUME Stated, ConnInv, NEW c \in Conns, Accept(c)
    PROVE  ConnInv'
  <1>0. Lowest \in FreeFds /\ Lowest \in Fds /\ table[Lowest] = Free
    BY LowestIsFree DEF Accept, FreeFds
  <1>1. ConnTypeOK'
    BY <1>0 DEF ConnInv, ConnTypeOK, Accept, client, Uses
  <1>2. ASSUME NEW e \in Conns, e # c
        PROVE  Owns(e)' /\ Local(e)'
    <2>1. Same(e)
      BY <1>2 DEF Same, Accept, client, ConnInv, ConnTypeOK
    <2>2. Owns(e)'
      BY <1>0, <2>1, TakingKeeps DEF Accept, ConnInv, ConnTypeOK, Same
    <2> QED
      BY <2>1, <2>2, SameKeeps DEF ConnInv, Local
  <1>3. Owns(c)'
    BY <1>0 DEF Accept, ConnInv, ConnTypeOK, Owns, Using
  <1>4. Asking(c)'
    BY SizesAssumption DEF Accept, client, ConnInv, ConnTypeOK, Asking, Pure, Whole
  <1>5. Answering(c)'
    BY DEF Accept, client, ConnInv, ConnTypeOK, Answering, Pure, Whole, ReplyClaims
  <1>6. Left(c)'
    BY DEF Accept, client, ConnInv, ConnTypeOK, Left, Gone
  <1> QED
    BY <1>1, <1>2, <1>3, <1>4, <1>5, <1>6 DEF ConnInv, Local

LEMMA ReadStep ==
    ASSUME Stated, ConnInv, NEW c \in Conns, NEW d \in Conns, Read(c, d)
    PROVE  ConnInv'
  <1>1. d = c
    BY OwnOnly DEF Read, Using
  <1>0. PICK n \in 1..Least(Room(c, c), in[c]) :
          /\ buf' = [buf EXCEPT ![c] = Plus(buf[c], n, {c})]
          /\ in' = [in EXCEPT ![c] = @ - n]
          /\ pc' = [pc EXCEPT ![c] = After(Plus(buf[c], n, {c}), c)]
    BY <1>1 DEF Read
  <1> DEFINE b == Plus(buf[c], n, {c})
  <1>2. /\ pc[c] \in {"size", "body"} /\ table' = table
        /\ buf' = [buf EXCEPT ![c] = b]
        /\ in' = [in EXCEPT ![c] = @ - n]
        /\ pc' = [pc EXCEPT ![c] = After(b, c)]
    BY <1>0, <1>1 DEF Read
  <1>3. /\ kind[c] \in Kinds /\ Claims(c) = size[c] /\ Header \in Nat \ {0} /\ Cap \in Nat /\ Cap >= Header
        /\ sent[c] = buf[c].len + in[c] /\ sent[c] <= size[c] /\ buf[c].from \subseteq {c}
        /\ pc[c] = "size" => buf[c].len < Header
        /\ pc[c] = "body" => buf[c].len < size[c]
        /\ reply[c] = 0 /\ wrote[c] = 0 /\ cpc[c] # "idle"
    BY <1>2, SizesAssumption DEF ConnInv, ConnTypeOK, Stated, Claims, Asking, Answering, Pure
  <1>4. n \in Nat /\ n > 0 /\ n <= in[c]
    <2>1. Room(c, c) \in Int
      BY <1>2, <1>3, Numbers DEF Room
    <2>2. Least(Room(c, c), in[c]) \in Int /\ Least(Room(c, c), in[c]) <= in[c]
      BY <2>1, Numbers DEF Least
    <2> QED
      BY <2>2, Numbers
  <1>5. b = [len |-> buf[c].len + n, from |-> {c}] /\ b \in Bytes
    <2>1. buf[c].from \union {c} = {c}
      BY <1>3
    <2>2. b = [len |-> buf[c].len + n, from |-> {c}]
      BY <2>1 DEF Plus
    <2>3. buf[c].len + n \in Nat
      BY <1>4, Numbers
    <2> QED
      BY <2>2, <2>3 DEF Bytes
  <1> HIDE DEF b
  <1>6. /\ b.len \in Nat /\ b.len > 0 /\ b.from = {c}
        /\ b.len + (in[c] - n) = sent[c] /\ b.len <= size[c] /\ in[c] - n \in Nat
    BY <1>3, <1>4, <1>5, Numbers
  <1>7. /\ After(b, c) \in {"size", "body", "refuse", "parse"}
        /\ After(b, c) = "size" => b.len < Header
        /\ After(b, c) = "body" => b.len < size[c]
        /\ After(b, c) = "parse" => b = Whole(size[c], c)
    <2>1. After(b, c) = "parse" => b.len = size[c]
      BY <1>3, <1>6, Numbers DEF After
    <2>2. b.len = size[c] => b = Whole(size[c], c)
      BY <1>5 DEF Whole
    <2>3. After(b, c) = "size" => b.len < Header
      BY DEF After
    <2>4. After(b, c) = "body" => b.len < size[c]
      BY <1>3 DEF After
    <2> QED
      BY <2>1, <2>2, <2>3, <2>4 DEF After
  <1>8. ConnTypeOK'
    <2>1. pc' \in [Conns -> {"none", "backlog", "size", "body", "refuse", "parse", "exists",
                            "found", "load", "store", "stored", "write", "close", "exit"}]
      BY <1>2, <1>7 DEF ConnInv, ConnTypeOK
    <2>2. buf' \in [Conns -> Bytes] /\ in' \in [Conns -> Nat]
      BY <1>2, <1>5, <1>6 DEF ConnInv, ConnTypeOK
    <2> QED
      BY <1>2, <2>1, <2>2 DEF ConnInv, ConnTypeOK, Read, client
  <1>9. ASSUME NEW e \in Conns, e # c
        PROVE  Owns(e)' /\ Local(e)'
    <2>1. Same(e) /\ table' = table
      BY <1>2, <1>9 DEF Same, Read, client, ConnInv, ConnTypeOK
    <2> QED
      BY <2>1, SameKeeps, TableKeeps DEF ConnInv, Local, Same
  <1>10. Owns(c)'
    BY <1>2, <1>7 DEF Read, ConnInv, ConnTypeOK, Owns, Using
  <1>11. Asking(c)'
    <2>1. /\ buf'[c] = b /\ in'[c] = in[c] - n /\ pc'[c] = After(b, c)
          /\ cpc' = cpc /\ sent' = sent /\ kind' = kind /\ size' = size
      BY <1>2 DEF Read, client, ConnInv, ConnTypeOK
    <2>2. Asking(c) /\ pc[c] # "none"
      BY <1>2 DEF ConnInv
    <2>3. buf'[c].from = {c} /\ sent'[c] = buf'[c].len + in'[c]
      BY <1>6, <2>1, Numbers
    <2> QED
      BY <1>3, <1>7, <2>1, <2>2, <2>3 DEF Asking, Pure, Whole
  <1>12. Answering(c)'
    BY <1>2, <1>3, <1>7 DEF Read, client, ConnInv, ConnTypeOK, Answering, Pure, Whole, ReplyClaims
  <1>13. Left(c)'
    BY <1>2, <1>7 DEF Read, client, ConnInv, ConnTypeOK, Left, Gone
  <1> QED
    BY <1>8, <1>9, <1>10, <1>11, <1>12, <1>13 DEF ConnInv, Local

\* A thread that ends by closing its own descriptor (ReadFails, Refuse, Close).
LEMMA ClosingStep ==
    ASSUME Stated, ConnInv, NEW c \in Conns, Using(c),
           table' = Closed(fd[c]), pc' = [pc EXCEPT ![c] = "exit"],
           UNCHANGED <<up, fd, file, buf, reply, absent, wrote, client, in, out>>
    PROVE  ConnInv'
  <1>1. fd[c] \in Fds /\ table[fd[c]] = Conn(c) /\ pc[c] \notin {"none", "exit"}
    BY DEF ConnInv, Owns, Using
  <1>2. ConnTypeOK'
    BY <1>1 DEF ConnInv, ConnTypeOK, client, Closed, Uses
  <1>3. ASSUME NEW e \in Conns, e # c
        PROVE  Owns(e)' /\ Local(e)'
    <2>1. Same(e)
      BY <1>3 DEF Same, client, ConnInv, ConnTypeOK
    <2>2. Owns(e)'
      BY <1>1, <1>3, <2>1, ClosingKeeps, Distinct DEF ConnInv, ConnTypeOK, Same
    <2> QED
      BY <2>1, <2>2, SameKeeps DEF ConnInv, Local
  <1>4. Owns(c)'
    BY DEF ConnInv, ConnTypeOK, Owns, Using
  <1>5. Asking(c)'
    BY <1>1 DEF client, ConnInv, ConnTypeOK, Asking, Pure, Whole
  <1>6. Answering(c)'
    BY <1>1 DEF client, ConnInv, ConnTypeOK, Answering, Pure, Whole, ReplyClaims
  <1>7. Left(c)'
    BY DEF client, ConnInv, ConnTypeOK, Left, Gone
  <1> QED
    BY <1>2, <1>3, <1>4, <1>5, <1>6, <1>7 DEF ConnInv, Local

LEMMA ParseStep ==
    ASSUME Stated, ConnInv, NEW c \in Conns, NEW d \in Conns, Parse(c, d)
    PROVE  ConnInv'
  <1>1. pc[c] = "parse" /\ d = c /\ buf[c] = Whole(size[c], c) /\ reply[c] = 0 /\ wrote[c] = 0 /\ kind[c] \in Kinds
    BY DEF Parse, ConnInv, ConnTypeOK, Asking, Answering, Whole
  <1>2. /\ pc' = [pc EXCEPT ![c] = pc'[c]] /\ pc'[c] \in {"refuse", "exists", "store"}
        /\ reply' = [reply EXCEPT ![c] = reply'[c]]
        /\ pc'[c] = "refuse" => reply'[c] = 0
        /\ pc'[c] # "refuse" => reply'[c] \in RepliesTo(kind[c])
    BY <1>1 DEF Parse, ConnInv, ConnTypeOK
  <1>3. /\ reply'[c] \in ReplySizes \union {0, ShortReply} /\ wrote[c] <= reply'[c]
        /\ pc'[c] # "refuse" => reply'[c] # 0
    BY <1>1, <1>2, Lengths, SizesAssumption DEF RepliesTo
  <1>4. ConnTypeOK'
    BY <1>2, <1>3 DEF ConnInv, ConnTypeOK, Parse, client
  <1>5. ASSUME NEW e \in Conns, e # c
        PROVE  Owns(e)' /\ Local(e)'
    <2>1. Same(e)
      BY <1>5 DEF Same, Parse, client, ConnInv, ConnTypeOK
    <2>2. Owns(e)'
      BY <2>1, TableKeeps DEF ConnInv, Parse, Same
    <2> QED
      BY <2>1, <2>2, SameKeeps DEF ConnInv, Local
  <1>6. Owns(c)'
    BY <1>1, <1>2 DEF Parse, ConnInv, ConnTypeOK, Owns, Using
  <1>7. Asking(c)'
    BY <1>1, <1>2 DEF Parse, client, ConnInv, ConnTypeOK, Asking, Pure, Whole
  <1>8. Answering(c)'
    <2>1. wrote' = wrote /\ out' = out /\ got' = got /\ kind' = kind /\ size' = size /\ cpc' = cpc /\ buf' = buf
      BY DEF Parse, client
    <2>2. Answering(c) /\ got[c].len = 0
      <3>1. Answering(c)
        BY DEF ConnInv
      <3>2. out[c].len + got[c].len = 0
        BY <1>1, <3>1 DEF Answering
      <3> QED
        BY <3>1, <3>2, Numbers
    <2> QED
      BY <1>1, <1>2, <1>3, <2>1, <2>2, SizesAssumption DEF Answering, Pure, Whole, ReplyClaims
  <1>9. Left(c)'
    BY <1>1, <1>2 DEF Parse, client, ConnInv, ConnTypeOK, Left, Gone
  <1> QED
    BY <1>4, <1>5, <1>6, <1>7, <1>8, <1>9 DEF ConnInv, Local

\* A free descriptor is taken for a file, or for good (OpenFile, Load).
LEMMA OpeningKeeps ==
    ASSUME ConnInv, NEW what \in Uses, FreeFds # {},
           table' = [table EXCEPT ![Lowest] = what]
    PROVE  /\ table' \in [Fds -> Uses]
           /\ Lowest \in Fds /\ table'[Lowest] = what
           /\ \A e \in Conns :
                 pc'[e] = pc[e] /\ fd'[e] = fd[e] /\ file'[e] = file[e] => Owns(e)'
           /\ \A f \in Fds, e \in Conns : table[f] = Conn(e) => table'[f] = Conn(e)
  <1>1. Lowest \in FreeFds /\ Lowest \in Fds /\ table[Lowest] = Free
    BY LowestIsFree DEF FreeFds
  <1>2. table \in [Fds -> Uses]
    BY DEF ConnInv, ConnTypeOK
  <1>3. \A e \in Conns : pc'[e] = pc[e] /\ fd'[e] = fd[e] /\ file'[e] = file[e] => Owns(e)'
    BY <1>1, <1>2, TakingKeeps DEF ConnInv
  <1> QED
    BY <1>1, <1>2, <1>3, Distinct

LEMMA LoadStep ==
    ASSUME Stated, ConnInv, NEW c \in Conns, Load(c)
    PROVE  ConnInv'
  <1>1. /\ pc[c] = "load" /\ pc' = [pc EXCEPT ![c] = pc'[c]] /\ pc'[c] \in {"store", "write"}
        /\ up /\ Leaked \in Uses
    BY DEF Load, ConnInv, ConnTypeOK, Uses
  <1>2. /\ table' \in [Fds -> Uses]
        /\ \A e \in Conns : e # c => Owns(e)'
        /\ \A f \in Fds, e \in Conns : table[f] = Conn(e) => table'[f] = Conn(e)
    <2>1. \A e \in Conns : e # c => pc'[e] = pc[e] /\ fd'[e] = fd[e] /\ file'[e] = file[e]
      BY DEF Load, ConnInv, ConnTypeOK
    <2>2. CASE FreeFds = {}
      BY <2>1, <2>2, TableKeeps DEF Load, ConnInv, ConnTypeOK
    <2>3. CASE FreeFds # {}
      BY <1>1, <2>1, <2>3, OpeningKeeps DEF Load
    <2> QED
      BY <2>2, <2>3
  <1>3. ConnTypeOK'
    BY <1>1, <1>2 DEF ConnInv, ConnTypeOK, Load, client
  <1>4. ASSUME NEW e \in Conns, e # c
        PROVE  Owns(e)' /\ Local(e)'
    <2>1. Same(e)
      BY <1>1, <1>4 DEF Same, Load, client, ConnInv, ConnTypeOK
    <2> QED
      BY <1>2, <1>4, <2>1, SameKeeps DEF ConnInv, Local
  <1>5. Owns(c)'
    BY <1>1, <1>2 DEF Load, ConnInv, ConnTypeOK, Owns, Using
  <1>6. Asking(c)'
    BY <1>1 DEF Load, client, ConnInv, ConnTypeOK, Asking, Pure, Whole
  <1>7. Answering(c)'
    <2>1. wrote[c] = 0 /\ reply[c] # 0
      BY <1>1 DEF ConnInv, Answering
    <2>2. wrote[c] < reply[c]
      BY <2>1, Numbers
    <2> QED
      BY <1>1, <2>1, <2>2 DEF Load, client, ConnInv, ConnTypeOK, Answering, Pure, Whole, ReplyClaims
  <1>8. Left(c)'
    BY <1>1 DEF Load, client, ConnInv, ConnTypeOK, Left, Gone
  <1> QED
    BY <1>3, <1>4, <1>5, <1>6, <1>7, <1>8 DEF ConnInv, Local

LEMMA OpenFileStep ==
    ASSUME Stated, ConnInv, NEW c \in Conns, OpenFile(c)
    PROVE  ConnInv'
  <1>1. /\ pc[c] \in {"exists", "store"} /\ pc' = [pc EXCEPT ![c] = pc'[c]]
        /\ pc'[c] \in {"found", "stored"}
        /\ file' = [file EXCEPT ![c] = Lowest] /\ Lowest \in Fds
        /\ FreeFds # {} /\ table' = [table EXCEPT ![Lowest] = File(c)] /\ File(c) \in Uses
    <2>1. FreeFds # {} /\ Lowest \in Fds
      BY LowestIsFree DEF OpenFile, FreeFds
    <2> QED
      BY <2>1 DEF OpenFile, ConnInv, ConnTypeOK, Uses
  <1>2. ConnTypeOK'
    BY <1>1, OpeningKeeps DEF ConnInv, ConnTypeOK, OpenFile, client
  <1>3. ASSUME NEW e \in Conns, e # c
        PROVE  Owns(e)' /\ Local(e)'
    <2>1. Same(e)
      BY <1>1, <1>3 DEF Same, OpenFile, client, ConnInv, ConnTypeOK
    <2>2. Owns(e)'
      BY <1>1, <2>1, OpeningKeeps DEF Same
    <2> QED
      BY <2>1, <2>2, SameKeeps DEF ConnInv, Local
  <1>4. Owns(c)'
    <2>1. fd[c] \in Fds /\ table[fd[c]] = Conn(c)
      BY <1>1 DEF ConnInv, Owns, Using
    <2>2. table'[fd[c]] = Conn(c) /\ table'[Lowest] = File(c)
      BY <1>1, <2>1, OpeningKeeps
    <2>3. fd' = fd /\ file'[c] = Lowest
      BY <1>1 DEF OpenFile, ConnInv, ConnTypeOK
    <2> QED
      BY <1>1, <2>1, <2>2, <2>3 DEF Owns
  <1>5. Asking(c)'
    BY <1>1 DEF OpenFile, client, ConnInv, ConnTypeOK, Asking, Pure, Whole
  <1>6. Answering(c)'
    <2>1. wrote[c] = 0 /\ reply[c] # 0
      BY <1>1 DEF ConnInv, Answering
    <2> QED
      BY <1>1, <2>1 DEF OpenFile, client, ConnInv, ConnTypeOK, Answering, Pure, Whole, ReplyClaims
  <1>7. Left(c)'
    BY <1>1 DEF OpenFile, client, ConnInv, ConnTypeOK, Left, Gone
  <1> QED
    BY <1>2, <1>3, <1>4, <1>5, <1>6, <1>7 DEF ConnInv, Local

\* Nothing has been written yet when a project is not found, so that the other reply
\* takes the place of the first one.
LEMMA OpenFailsStep ==
    ASSUME Stated, ConnInv, NEW c \in Conns, OpenFails(c)
    PROVE  ConnInv'
  <1>1. /\ pc[c] \in {"exists", "store"} /\ pc' = [pc EXCEPT ![c] = "write"]
        /\ reply' = [reply EXCEPT ![c] = reply'[c]] /\ reply'[c] \in {reply[c], ShortReply}
        /\ absent' \in {absent, absent \union {c}}
        /\ wrote[c] = 0 /\ reply[c] # 0 /\ reply'[c] # 0 /\ up
        /\ UNCHANGED <<up, table, fd, file, buf, wrote, client, in, out>>
    <2>1. wrote[c] = 0 /\ reply[c] # 0 /\ ShortReply # 0
      BY SizesAssumption DEF OpenFails, ConnInv, Answering
    <2>2. reply' = [reply EXCEPT ![c] = reply'[c]] /\ reply'[c] \in {reply[c], ShortReply}
      BY DEF OpenFails, ConnInv, ConnTypeOK
    <2> QED
      BY <2>1, <2>2 DEF OpenFails
  <1>2. reply'[c] \in ReplySizes \union {0, ShortReply} /\ reply'[c] \in Nat /\ wrote[c] <= reply'[c]
        /\ wrote[c] < reply'[c]
    BY <1>1, SizesAssumption, Numbers DEF ConnInv, ConnTypeOK
  <1>3. ConnTypeOK'
    BY <1>1, <1>2 DEF ConnInv, ConnTypeOK, client
  <1>4. ASSUME NEW e \in Conns, e # c
        PROVE  Owns(e)' /\ Local(e)'
    <2>1. Same(e)
      BY <1>1, <1>4 DEF Same, client, ConnInv, ConnTypeOK
    <2>2. Owns(e)'
      BY <1>1, <2>1, TableKeeps DEF ConnInv, Same
    <2> QED
      BY <2>1, <2>2, SameKeeps DEF ConnInv, Local
  <1>5. Owns(c)'
    BY <1>1 DEF ConnInv, ConnTypeOK, Owns, Using
  <1>6. Asking(c)'
    BY <1>1 DEF client, ConnInv, ConnTypeOK, Asking, Pure, Whole
  <1>7. Answering(c)'
    <2>1. /\ Answering(c) /\ out[c].len = 0 /\ got[c].len = 0
      <3>1. Answering(c) /\ out[c].len + got[c].len = 0
        BY <1>1 DEF ConnInv, Answering
      <3> QED
        BY <3>1, Numbers
    <2>2. cpc[c] \notin {"body", "done"}
      BY <1>1, <2>1, SizesAssumption, Numbers DEF Answering, Whole
    <2> QED
      BY <1>1, <1>2, <2>1, <2>2 DEF client, ConnInv, ConnTypeOK, Answering, Pure, Whole
  <1>8. Left(c)'
    BY <1>1 DEF client, ConnInv, ConnTypeOK, Left, Gone
  <1> QED
    BY <1>3, <1>4, <1>5, <1>6, <1>7, <1>8 DEF ConnInv, Local

LEMMA CloseFileStep ==
    ASSUME Stated, ConnInv, NEW c \in Conns, CloseFile(c)
    PROVE  ConnInv'
  <1>1. /\ pc[c] \in {"found", "stored"} /\ pc' = [pc EXCEPT ![c] = pc'[c]]
        /\ pc'[c] \in {"store", "load", "write"}
        /\ file[c] \in Fds /\ table[file[c]] = File(c) /\ table' = Closed(file[c])
        /\ fd[c] \in Fds /\ table[fd[c]] = Conn(c) /\ fd[c] # file[c]
    BY Distinct DEF CloseFile, ConnInv, ConnTypeOK, Owns, Using
  <1>2. ConnTypeOK'
    BY <1>1 DEF ConnInv, ConnTypeOK, CloseFile, client, Closed, Uses
  <1>3. ASSUME NEW e \in Conns, e # c
        PROVE  Owns(e)' /\ Local(e)'
    <2>1. Same(e)
      BY <1>3 DEF Same, CloseFile, client, ConnInv, ConnTypeOK
    <2>2. Owns(e)'
      BY <1>1, <1>3, <2>1, ClosingKeeps, Distinct DEF ConnInv, ConnTypeOK, Same
    <2> QED
      BY <2>1, <2>2, SameKeeps DEF ConnInv, Local
  <1>4. Owns(c)'
    BY <1>1 DEF CloseFile, Closed, ConnInv, ConnTypeOK, Owns, Using
  <1>5. Asking(c)'
    BY <1>1 DEF CloseFile, client, ConnInv, ConnTypeOK, Asking, Pure, Whole
  <1>6. Answering(c)'
    <2>1. wrote[c] = 0 /\ reply[c] # 0
      BY <1>1 DEF ConnInv, Answering
    <2>2. wrote[c] < reply[c]
      BY <2>1, Numbers
    <2> QED
      BY <1>1, <2>1, <2>2 DEF CloseFile, client, ConnInv, ConnTypeOK, Answering, Pure, Whole, ReplyClaims
  <1>7. Left(c)'
    BY <1>1 DEF CloseFile, client, ConnInv, ConnTypeOK, Left, Gone
  <1> QED
    BY <1>2, <1>3, <1>4, <1>5, <1>6, <1>7 DEF ConnInv, Local

LEMMA WriteStep ==
    ASSUME Stated, ConnInv, NEW c \in Conns, NEW d \in Conns, Write(c, d)
    PROVE  ConnInv'
  <1> DEFINE n == Taken(c, c)
  <1>1. d = c
    BY OwnOnly DEF Write, Using
  <1>2. /\ up /\ pc[c] = "write" /\ ~Gone(c) /\ n > 0 /\ table' = table
        /\ out' = [out EXCEPT ![c] = Plus(@, n, {c})]
        /\ wrote' = [wrote EXCEPT ![c] = @ + n]
        /\ pc' = [pc EXCEPT ![c] = IF wrote'[c] = reply[c] THEN "close" ELSE "write"]
        /\ UNCHANGED <<up, table, fd, file, buf, reply, absent, client, in>>
    BY <1>1 DEF Write
  <1>3. /\ Asking(c) /\ Answering(c) /\ kind[c] \in Kinds /\ wrote[c] < reply[c]
        /\ reply[c] \in RepliesTo(kind[c]) \union {ShortReply}
        /\ out[c].from \subseteq {c} /\ out[c].len + got[c].len = wrote[c] /\ out[c].len <= SendBuffer
        /\ cpc[c] # "idle" /\ buf[c] = Whole(size[c], c)
    BY <1>2 DEF ConnInv, ConnTypeOK, Asking, Answering, Pure
  <1>4. n \in Nat /\ wrote[c] + n <= reply[c] /\ out[c].len + n <= SendBuffer
    <2>1. reply[c] - wrote[c] \in Int /\ SendBuffer - out[c].len \in Int
      BY SizesAssumption, Numbers
    <2>2. n \in Int /\ n <= reply[c] - wrote[c] /\ n <= SendBuffer - out[c].len
      BY <2>1 DEF Taken, Least
    <2> QED
      BY <1>2, <2>1, <2>2, SizesAssumption, Numbers
  <1>5. kind[c] # "history" => wrote[c] = 0 /\ wrote[c] + n = reply[c]
    <2>1. SUFFICES ASSUME kind[c] # "history"
                   PROVE  wrote[c] = 0 /\ wrote[c] + n = reply[c]
      OBVIOUS
    <2>2. wrote[c] = 0 /\ reply[c] = ShortReply
      BY <1>3, <2>1, Numbers DEF Answering, RepliesTo
    <2>3. out[c].len = 0
      BY <1>3, <2>2, Numbers
    <2> QED
      BY <2>2, <2>3, SizesAssumption DEF Taken, Least
  <1> HIDE DEF n
  <1>6. /\ out'[c] = [len |-> out[c].len + n, from |-> {c}] /\ out'[c] \in Bytes
        /\ wrote'[c] = wrote[c] + n
    <2>1. out[c].from \union {c} = {c}
      BY <1>3
    <2>2. out'[c] = [len |-> out[c].len + n, from |-> {c}] /\ wrote'[c] = wrote[c] + n
      BY <1>2, <2>1 DEF ConnInv, ConnTypeOK, Plus
    <2>3. out[c].len + n \in Nat
      BY <1>4, Numbers
    <2> QED
      BY <2>2, <2>3 DEF Bytes
  <1>7. ConnTypeOK'
    <2>1. out' \in [Conns -> Bytes] /\ \A e \in Conns : out'[e].len <= SendBuffer
      <3>1. out' = [out EXCEPT ![c] = out'[c]] /\ out'[c] \in Bytes /\ out'[c].len <= SendBuffer
        BY <1>2, <1>4, <1>6 DEF ConnInv, ConnTypeOK
      <3> QED
        BY <3>1 DEF ConnInv, ConnTypeOK
    <2>2. wrote' \in [Conns -> Nat] /\ \A e \in Conns : wrote'[e] <= reply[e]
      BY <1>2, <1>4, <1>6 DEF ConnInv, ConnTypeOK
    <2>3. pc' \in [Conns -> {"none", "backlog", "size", "body", "refuse", "parse", "exists",
                            "found", "load", "store", "stored", "write", "close", "exit"}]
      BY <1>2 DEF ConnInv, ConnTypeOK
    <2> QED
      BY <1>2, <2>1, <2>2, <2>3 DEF ConnInv, ConnTypeOK, client
  <1>8. ASSUME NEW e \in Conns, e # c
        PROVE  Owns(e)' /\ Local(e)'
    <2>1. Same(e)
      BY <1>2, <1>8 DEF Same, client, ConnInv, ConnTypeOK
    <2>2. Owns(e)'
      BY <1>2, <2>1, TableKeeps DEF ConnInv, Same
    <2> QED
      BY <2>1, <2>2, SameKeeps DEF ConnInv, Local
  <1>9. /\ pc'[c] \in {"close", "write"}
        /\ pc'[c] = "write" => wrote'[c] # reply[c]
        /\ buf' = buf /\ reply' = reply /\ cpc' = cpc /\ kind' = kind /\ size' = size /\ sent' = sent
        /\ absent' = absent /\ got' = got /\ in' = in /\ fd' = fd /\ file' = file
    BY <1>2 DEF ConnInv, ConnTypeOK, client
  <1>10. Owns(c)'
    BY <1>2, <1>9 DEF ConnInv, ConnTypeOK, Owns, Using
  <1>11. Asking(c)'
    BY <1>2, <1>3, <1>9 DEF Asking, Pure, Whole
  <1>12. Answering(c)'
    <2>1. wrote'[c] <= reply[c] /\ wrote'[c] \in Nat /\ out'[c].len + got[c].len = wrote'[c] /\ Pure(out[c], c)'
      BY <1>3, <1>4, <1>6, Numbers DEF Pure
    <2>2. pc'[c] = "write" => wrote'[c] < reply[c]
      BY <1>9, <2>1, Numbers
    <2>3. kind[c] # "history" => wrote'[c] \in {0, reply[c]}
      BY <1>5, <1>6
    <2> QED
      <3>1. pc[c] = "write" /\ cpc'[c] # "done" /\ reply[c] # 0
        BY <1>2, <1>3, <1>9, Numbers DEF Gone
      <3>2. wrote'[c] = 0 \/ pc'[c] \in {"write", "close", "exit"}
        BY <1>9
      <3> QED
        BY <1>3, <1>9, <2>1, <2>2, <2>3, <3>1, <3>2 DEF Answering, Pure, Whole, ReplyClaims
  <1>13. Left(c)'
    BY <1>2, <1>9 DEF ConnInv, Left, Gone
  <1> QED
    BY <1>7, <1>8, <1>10, <1>11, <1>12, <1>13 DEF ConnInv, Local

LEMMA WriteLostStep ==
    ASSUME Stated, ConnInv, NEW c \in Conns, WriteLost(c)
    PROVE  ConnInv'
  <1>1. pc[c] = "write" /\ fd[c] \in Fds /\ table[fd[c]] = Conn(c) /\ Gone(c) /\ up
    BY DEF WriteLost, ConnInv, Owns, Using
  <1>2. Taken(c, c) = reply[c] - wrote[c]
    <2>1. kind[c] \in Late
      <3>1. sent[c] = size[c] + in[c]
        <4>1. Asking(c)
          BY DEF ConnInv
        <4>2. sent[c] = buf[c].len + in[c] /\ buf[c] = Whole(size[c], c)
          BY <1>1, <4>1 DEF Asking
        <4> QED
          BY <4>2 DEF Whole
      <3>2. ~(sent[c] < size[c])
        BY <3>1, Numbers
      <3> QED
        BY <1>1, <3>2 DEF ConnInv, Left
    <2>2. wrote[c] = 0 /\ reply[c] = ShortReply /\ out[c].len + got[c].len = 0
      BY <1>1, <2>1, Numbers DEF ConnInv, Answering, RepliesTo, Stated
    <2>3. out[c].len = 0
      BY <2>2, Numbers
    <2> QED
      BY <2>2, <2>3, SizesAssumption DEF Taken, Least
  <1>3. table' = table /\ pc' = [pc EXCEPT ![c] = "close"]
    BY <1>1, <1>2 DEF WriteLost
  <1>4. ConnTypeOK'
    BY <1>3 DEF ConnInv, ConnTypeOK, WriteLost, client
  <1>5. ASSUME NEW e \in Conns, e # c
        PROVE  Owns(e)' /\ Local(e)'
    <2>1. Same(e)
      BY <1>5 DEF Same, WriteLost, client, ConnInv, ConnTypeOK
    <2>2. Owns(e)'
      BY <1>3, <2>1, TableKeeps DEF ConnInv, Same
    <2> QED
      BY <2>1, <2>2, SameKeeps DEF ConnInv, Local
  <1>6. Owns(c)'
    BY <1>1, <1>3 DEF WriteLost, ConnInv, ConnTypeOK, Owns, Using
  <1>7. Asking(c)'
    BY <1>1, <1>3 DEF WriteLost, client, ConnInv, ConnTypeOK, Asking, Pure, Whole
  <1>8. Answering(c)'
    BY <1>1, <1>3 DEF WriteLost, client, ConnInv, ConnTypeOK, Answering, Pure, Whole, ReplyClaims
  <1>9. Left(c)'
    BY <1>3 DEF WriteLost, client, ConnInv, ConnTypeOK, Left, Gone
  <1> QED
    BY <1>4, <1>5, <1>6, <1>7, <1>8, <1>9 DEF ConnInv, Local

LEMMA ClientFailsStep ==
    ASSUME Stated, ConnInv, NEW c \in Conns, ClientFails(c)
    PROVE  ConnInv'
  <1>1. ConnTypeOK'
    BY DEF ConnInv, ConnTypeOK, ClientFails, server
  <1>2. ASSUME NEW e \in Conns, e # c
        PROVE  Owns(e)' /\ Local(e)'
    <2>1. Same(e) /\ table' = table
      BY <1>2 DEF Same, ClientFails, server, ConnInv, ConnTypeOK
    <2> QED
      BY <2>1, SameKeeps, TableKeeps DEF ConnInv, Local, Same
  <1>3. Owns(c)'
    BY TableKeeps DEF ClientFails, server, ConnInv
  <1>4. Asking(c)'
    BY DEF ClientFails, server, ConnInv, ConnTypeOK, Asking, Pure, Whole
  <1>5. Answering(c)'
    BY DEF ClientFails, server, ConnInv, ConnTypeOK, Answering, Pure, Whole
  <1>6. Left(c)'
    BY DEF ClientFails, server, ConnInv, Owns, Using, Open, Left
  <1> QED
    BY <1>1, <1>2, <1>3, <1>4, <1>5, <1>6 DEF ConnInv, Local

LEMMA ClientReadStep ==
    ASSUME Stated, ConnInv, NEW c \in Conns, ClientRead(c)
    PROVE  ConnInv'
  <1> DEFINE room == (IF cpc[c] = "size" THEN Cap ELSE ReplyClaims(c)) - got[c].len
  <1>1. /\ Asking(c) /\ Answering(c) /\ cpc[c] \in {"size", "body"} /\ out[c].len > 0
        /\ out[c].from = {c} /\ got[c].from \subseteq {c}
        /\ kind[c] \in Kinds
    BY DEF ClientRead, ConnInv, Asking, Answering, Pure
  <1>0. PICK n \in Parts(kind[c], Least(room, out[c].len)) :
            /\ got' = [got EXCEPT ![c] = Plus(got[c], n, {c})]
            /\ out' = [out EXCEPT ![c] = Minus(out[c], n)]
            /\ cpc' = [cpc EXCEPT ![c] = ClientAfter(c, Plus(got[c], n, {c}), c)]
    <2>2. PICK d \in out[c].from :
            LET room_d == (IF cpc[c] = "size" THEN Cap ELSE ReplyClaims(d)) - got[c].len
            IN \E n_d \in Parts(kind[d], Least(room_d, out[c].len)) :
                 LET b_d == Plus(got[c], n_d, out[c].from)
                 IN /\ got' = [got EXCEPT ![c] = b_d]
                    /\ out' = [out EXCEPT ![c] = Minus(@, n_d)]
                    /\ cpc' = [cpc EXCEPT ![c] = ClientAfter(c, b_d, d)]
      BY DEF ClientRead
    <2>3. d = c /\ out[c].from = {c}
      BY <1>1
    <2> QED
      BY <2>2, <2>3
  <1> DEFINE b == Plus(got[c], n, {c})
             rest == Minus(out[c], n)
  <1>2. /\ got' = [got EXCEPT ![c] = b]
        /\ out' = [out EXCEPT ![c] = rest]
        /\ cpc' = [cpc EXCEPT ![c] = ClientAfter(c, b, c)]
        /\ UNCHANGED <<server, kind, size, sent, in>>
    BY <1>0 DEF ClientRead
  <1> HIDE DEF rest
  <1>3. /\ reply[c] # 0 /\ reply[c] \in RepliesTo(kind[c]) \union {ShortReply}
        /\ out[c].len + got[c].len = wrote[c] /\ wrote[c] <= reply[c]
        /\ out[c].len <= SendBuffer
        /\ Header \in Nat \ {0} /\ Cap \in Nat /\ Cap >= Header /\ ShortReply <= Cap /\ Limit \in Nat
        /\ reply[c] <= Limit /\ reply[c] >= Header
    <2>1. out[c].len + got[c].len = wrote[c] /\ wrote[c] <= reply[c] /\ out[c].len <= SendBuffer
      BY <1>1 DEF ConnInv, ConnTypeOK, Answering
    <2>2. reply[c] # 0
      BY <1>1, <2>1, Numbers
    <2>3. reply[c] \in RepliesTo(kind[c]) \union {ShortReply}
      BY <1>1, <2>2 DEF Answering
    <2>4. reply[c] <= Limit /\ reply[c] >= Header
      BY <1>1, <2>3, Lengths, SizesAssumption DEF Stated, RepliesTo
    <2> QED
      BY <2>1, <2>2, <2>3, <2>4, SizesAssumption
  <1>4. kind[c] = "push" => /\ cpc[c] = "size" /\ got[c].len = 0 /\ out[c].len = reply[c] /\ reply[c] <= Cap
                            /\ kind[c] \notin Splits
    <2>1. SUFFICES ASSUME kind[c] = "push"
                   PROVE  cpc[c] = "size" /\ got[c].len = 0 /\ out[c].len = reply[c] /\ reply[c] <= Cap
      BY DEF Stated
    <2>2. wrote[c] \in {0, reply[c]} /\ got[c].len \in {0, reply[c]} /\ reply[c] = ShortReply
      BY <1>1, <1>3, <2>1 DEF Answering, RepliesTo
    <2>3. got[c].len = 0 /\ out[c].len = reply[c]
      BY <1>1, <1>3, <2>2, Numbers
    <2>4. cpc[c] # "body"
      BY <1>1, <1>3, <2>3 DEF Answering
    <2> QED
      BY <1>1, <1>3, <2>2, <2>3, <2>4
  <1>5. /\ kind[c] # "push" => ReplyClaims(c) = reply[c]
        /\ ReplyClaims(c) \in Nat /\ ReplyClaims(c) <= Limit /\ ReplyClaims(c) <= reply[c]
    BY <1>3, Numbers DEF ReplyClaims
  <1>6. n \in Nat /\ n > 0 /\ n <= out[c].len /\ (kind[c] = "push" => n = reply[c])
    <2>1. room \in Int /\ room > 0 /\ (kind[c] = "push" => room = Cap)
      BY <1>1, <1>3, <1>4, <1>5, Numbers DEF Answering
    <2> DEFINE most == Least(room, out[c].len)
    <2>2. most \in Nat /\ most > 0 /\ most <= out[c].len
      BY <1>1, <2>1, Numbers DEF Least
    <2>3. kind[c] = "push" => most = reply[c]
      BY <1>3, <1>4, <2>1, Numbers DEF Least
    <2>4. n \in 1..most \/ n = most
      BY <1>0 DEF Parts
    <2>5. kind[c] = "push" => n = most
      BY <1>0, <1>4 DEF Parts
    <2>6. out[c].len \in Nat
      BY Numbers
    <2> HIDE DEF most
    <2>7. n \in Nat /\ n > 0 /\ n <= most
      BY <2>2, <2>4
    <2> QED
      BY <2>2, <2>3, <2>5, <2>6, <2>7
  <1> HIDE DEF room
  <1>7. b = [len |-> got[c].len + n, from |-> {c}] /\ b \in Bytes
    <2>1. got[c].from \union {c} = {c}
      BY <1>1
    <2>2. b = [len |-> got[c].len + n, from |-> {c}]
      BY <2>1 DEF Plus
    <2>3. got[c].len + n \in Nat
      BY <1>6, Numbers
    <2> HIDE DEF b
    <2> QED
      BY <2>2, <2>3 DEF Bytes
  <1> HIDE DEF b
  <1>8. rest \in Bytes /\ Pure(rest, c) /\ rest.len + b.len = wrote[c] /\ rest.len <= SendBuffer
    <2>1. CASE n = out[c].len
      <3>1. rest = [len |-> 0, from |-> {}]
        BY <2>1 DEF rest, Minus, Nothing
      <3>2. b.len = wrote[c] /\ SendBuffer \in Nat
        BY <1>3, <1>7, <2>1, SizesAssumption, Numbers
      <3> QED
        BY <1>7, <3>1, <3>2, Numbers DEF Bytes, Pure
    <2>2. CASE n # out[c].len
      <3>1. rest = [len |-> out[c].len - n, from |-> {c}]
        <4>1. out[c] = [len |-> out[c].len, from |-> {c}]
          BY <1>1, Numbers DEF Bytes
        <4>2. rest = [out[c] EXCEPT !.len = @ - n]
          BY <2>2 DEF rest, Minus
        <4> QED
          BY <4>1, <4>2
      <3>2. out[c].len - n \in Nat /\ out[c].len - n <= SendBuffer
            /\ (out[c].len - n) + (got[c].len + n) = wrote[c]
        BY <1>3, <1>6, SizesAssumption, Numbers
      <3> QED
        BY <1>7, <3>1, <3>2 DEF Bytes, Pure
    <2> QED
      BY <2>1, <2>2
  <1>9. /\ b.len \in Nat /\ b.len <= reply[c] /\ b.from = {c}
        /\ kind[c] = "push" => b.len = reply[c]
    BY <1>3, <1>4, <1>6, <1>7, <1>8, Numbers DEF Bytes
  <1>10. /\ ClientAfter(c, b, c) \in {"size", "body", "done"}
         /\ ClientAfter(c, b, c) = "size" => b.len < Header
         /\ ClientAfter(c, b, c) = "body" => Header <= b.len /\ b.len < ReplyClaims(c)
         /\ ClientAfter(c, b, c) = "done" => b = Whole(reply[c], c)
    <2>1. kind[c] # "destroy"
      BY <1>1 DEF Stated
    <2>2. ClientAfter(c, b, c) \in {"size", "body", "done"}
      <3>1. ~(ReplyClaims(c) > Limit)
        BY <1>3, <1>5
      <3> QED
        BY <2>1, <3>1 DEF ClientAfter, WellFormedReply
    <2>3. ClientAfter(c, b, c) = "done" => b.len = reply[c]
      BY <1>3, <1>5, <1>9, Numbers DEF ClientAfter
    <2>4. b.len = reply[c] => b = Whole(reply[c], c)
      BY <1>7 DEF Whole
    <2>5. ClientAfter(c, b, c) = "size" => b.len < Header
      BY DEF ClientAfter
    <2>6. ClientAfter(c, b, c) = "body" => Header <= b.len /\ b.len < ReplyClaims(c)
      BY <1>3, <1>9 DEF ClientAfter
    <2> QED
      BY <2>2, <2>3, <2>4, <2>5, <2>6
  <1>11. /\ got'[c] = b /\ out'[c] = rest /\ cpc'[c] = ClientAfter(c, b, c)
         /\ UNCHANGED <<up, table, pc, fd, file, buf, reply, absent, wrote, kind, size, sent, in>>
    BY <1>2 DEF ConnInv, ConnTypeOK, server
  <1>12. ConnTypeOK'
    <2>1. got' \in [Conns -> Bytes]
      BY <1>2, <1>7, <1>11 DEF ConnInv, ConnTypeOK
    <2>2. out' \in [Conns -> Bytes] /\ \A e \in Conns : out'[e].len <= SendBuffer
      BY <1>2, <1>8, <1>11 DEF ConnInv, ConnTypeOK
    <2>3. cpc' \in [Conns -> {"idle", "sending", "size", "body", "done", "error", "gone"}]
      BY <1>2, <1>10 DEF ConnInv, ConnTypeOK
    <2> QED
      BY <1>11, <2>1, <2>2, <2>3 DEF ConnInv, ConnTypeOK
  <1>13. ASSUME NEW e \in Conns, e # c
         PROVE  Owns(e)' /\ Local(e)'
    <2>1. Same(e) /\ table' = table
      BY <1>2, <1>11, <1>13 DEF Same, ConnInv, ConnTypeOK
    <2> QED
      BY <2>1, SameKeeps, TableKeeps DEF ConnInv, Local, Same
  <1>14. Owns(c)'
    BY <1>11, TableKeeps DEF ConnInv
  <1>15. Asking(c)'
    BY <1>1, <1>10, <1>11 DEF Asking, Pure, Whole
  <1>16. Answering(c)'
    <2>1. Pure(rest, c) /\ Pure(b, c) /\ rest.len + b.len = wrote[c]
      BY <1>8, <1>9 DEF Pure
    <2>2. ReplyClaims(c)' = ReplyClaims(c)
      BY <1>11 DEF ReplyClaims
    <2> QED
      BY <1>1, <1>3, <1>9, <1>10, <1>11, <2>1, <2>2 DEF Answering, Pure, Whole
  <1>17. Left(c)'
    <2>1. SUFFICES ASSUME Gone(c)', pc[c] \in {"backlog", "size", "body", "parse", "exists", "found", "load", "store", "stored",
                                   "write"}
                   PROVE  FALSE
      BY <1>11 DEF Left
    <2>2. b.len = reply[c]
      BY <1>10, <1>11, <2>1 DEF Gone, Whole
    <2>3. wrote[c] < reply[c]
      BY <1>1, <1>3, <2>1, Numbers DEF Answering
    <2> QED
      BY <1>7, <1>8, <2>2, <2>3, Numbers DEF Bytes
  <1> QED
    BY <1>12, <1>13, <1>14, <1>15, <1>16, <1>17 DEF ConnInv, Local

-------------------------------------------------------------------------------
(* The invariant, and what it says of descriptors. *)

LEMMA InitHolds ==
    ASSUME ConnInit
    PROVE  ConnInv
  <1>1. ConnTypeOK
    BY SizesAssumption DEF ConnInit, ConnTypeOK, Nothing, Bytes, Uses
  <1>2. ASSUME NEW c \in Conns
        PROVE  Owns(c) /\ Asking(c) /\ Answering(c) /\ Left(c)
    BY SizesAssumption DEF ConnInit, Owns, Using, Asking, Answering, Left, Pure, Nothing, Gone
  <1> QED
    BY <1>1, <1>2 DEF ConnInv

LEMMA StutterHolds ==
    ASSUME ConnInv, UNCHANGED vars
    PROVE  ConnInv'
  <1>1. ConnTypeOK'
    BY DEF ConnInv, ConnTypeOK, vars, server, client
  <1>2. ASSUME NEW e \in Conns
        PROVE  Owns(e)' /\ Local(e)'
    <2>1. Same(e) /\ table' = table
      BY DEF Same, vars, server, client
    <2> QED
      BY <2>1, SameKeeps, TableKeeps DEF ConnInv, Local, Same
  <1> QED
    BY <1>1, <1>2 DEF ConnInv, Local

LEMMA NextHolds ==
    ASSUME Stated, ConnInv, [ConnNext]_vars
    PROVE  ConnInv'
  <1>1. SUFFICES ASSUME ConnNext
                 PROVE  ConnInv'
    BY StutterHolds
  <1>2. PICK c \in Conns :
          \/ \E k \in Kinds : \E n \in RequestSizes(k) : Connect(c, k, n)
          \/ \E n \in 1..(size[c] - sent[c]) : Send(c, n)
          \/ Leave(c) \/ ClientRead(c) \/ ClientFails(c) \/ Accept(c) \/ Thread(c)
    BY <1>1 DEF ConnNext
  <1>3. CASE \E k \in Kinds : \E n \in RequestSizes(k) : Connect(c, k, n)
    BY <1>3, ConnectStep
  <1>4. CASE \E n \in 1..(size[c] - sent[c]) : Send(c, n)
    BY <1>4, SendStep
  <1>5. CASE Leave(c) \/ ClientRead(c) \/ ClientFails(c) \/ Accept(c)
    BY <1>5, LeaveStep, ClientReadStep, ClientFailsStep, AcceptStep
  <1>6. CASE Thread(c)
    <2>1. ASSUME NEW d \in Conns, Read(c, d) \/ Parse(c, d) \/ Write(c, d)
          PROVE  ConnInv'
      BY <2>1, ReadStep, ParseStep, WriteStep
    <2>2. CASE ReadFails(c)
      BY <2>2, ClosingStep DEF ReadFails, ReadFailed, Using
    <2>3. CASE Refuse(c)
      BY <2>3, ClosingStep DEF Refuse, Using
    <2>4. CASE Close(c)
      BY <2>4, ClosingStep DEF Close, Using
    <2>5. CASE OpenFile(c) \/ OpenFails(c) \/ CloseFile(c) \/ Load(c) \/ WriteLost(c)
      BY <2>5, OpenFileStep, OpenFailsStep, CloseFileStep, LoadStep, WriteLostStep
    <2> QED
      BY <1>6, <2>1, <2>2, <2>3, <2>4, <2>5 DEF Thread
  <1> QED
    BY <1>2, <1>3, <1>4, <1>5, <1>6

\* ConnInv is an inductive invariant of the threads and clients.
THEOREM ConnInvariant ==
    ASSUME Stated
    PROVE  ConnSpec => []ConnInv
  <1>1. ConnInit => ConnInv
    BY InitHolds
  <1>2. ConnInv /\ [ConnNext]_vars => ConnInv'
    BY NextHolds
  <1> QED
    BY <1>1, <1>2, PTL DEF ConnSpec

\* Every variable has its type in every state (ConnTypeOK): no thread counts more
\* bytes than a reply or a request has, nor fills a socket beyond its buffer.
THEOREM ConnTypeCorrect ==
    ASSUME Stated
    PROVE  ConnSpec => []ConnTypeOK
  <1>1. ConnInv => ConnTypeOK
    BY DEF ConnInv
  <1> QED
    BY <1>1, ConnInvariant, PTL

\* However many threads there are, and whatever clients send and when they go, a
\* thread uses and closes its own descriptors only (network_handler_thread,
\* _poll_and_read, _poll_and_write, writeFile).
THEOREM DescriptorsOwned ==
    ASSUME Stated
    PROVE  ConnSpec => []OwnDescriptor
  <1>1. ConnInv => OwnDescriptor
    BY DEF ConnInv, OwnDescriptor, Owns, Using
  <1> QED
    BY <1>1, ConnInvariant, PTL

-------------------------------------------------------------------------------
(* The exchange of one request and its reply. *)

\* What the status of an exchange depends on.
Unmoved(e) ==
    /\ cpc'[e] = cpc[e] /\ got'[e] = got[e] /\ reply'[e] = reply[e]
    /\ buf'[e] = buf[e] /\ size'[e] = size[e]

LEMMA UnmovedKeeps ==
    ASSUME NEW e \in Conns, Unmoved(e)
    PROVE  ExchangeStatus'[e] = ExchangeStatus[e]
  BY DEF Unmoved, ExchangeStatus

\* What the status of an exchange is, when the invariant holds: it never is wrong.
LEMMA StatusIs ==
    ASSUME ConnInv, NEW c \in Conns
    PROVE  /\ cpc[c] = "idle" => ExchangeStatus[c] = "idle"
           /\ cpc[c] = "gone" => ExchangeStatus[c] = "dropped"
           /\ cpc[c] = "done" => ExchangeStatus[c] = "answered"
           /\ cpc[c] \in {"sending", "size", "body"} =>
                ExchangeStatus[c] = IF reply[c] = 0 THEN "asked" ELSE "served"
           /\ cpc[c] \in {"idle", "sending", "size", "body", "done", "gone"}
  <1>1. Answering(c) /\ cpc[c] \in {"idle", "sending", "size", "body", "done", "gone"}
    BY DEF ConnInv, ConnTypeOK, Answering
  <1>2. /\ cpc[c] = "done" => got[c] = [len |-> reply[c], from |-> {c}]
        /\ reply[c] # 0 => buf[c] = [len |-> size[c], from |-> {c}]
    BY <1>1 DEF Answering, Whole
  <1> QED
    BY <1>1, <1>2 DEF ExchangeStatus

\* A step in which only the exchange of c may move, and moves as is promised.
LEMMA OneMoves ==
    ASSUME NEW c \in Conns,
           \A e \in Conns : e # c => ExchangeStatus'[e] = ExchangeStatus[e],
           \/ ExchangeStatus'[c] = ExchangeStatus[c]
           \/ <<ExchangeStatus[c], ExchangeStatus'[c]>> \in
                  {<<"idle", "asked">>, <<"asked", "served">>, <<"served", "answered">>,
                   <<"asked", "dropped">>, <<"served", "dropped">>}
    PROVE  [Promise!Next]_ExchangeStatus
  <1>1. /\ ExchangeStatus = [e \in Conns |-> ExchangeStatus[e]]
        /\ ExchangeStatus' = [e \in Conns |-> ExchangeStatus'[e]]
    BY DEF ExchangeStatus
  <1>2. CASE ExchangeStatus'[c] = ExchangeStatus[c]
    BY <1>1, <1>2
  <1>3. CASE ExchangeStatus'[c] # ExchangeStatus[c]
    <2>1. ExchangeStatus' = [ExchangeStatus EXCEPT ![c] = ExchangeStatus'[c]]
      BY <1>1
    <2> QED
      BY <1>3, <2>1 DEF Promise!Next, Promise!Ask, Promise!Serve, Promise!Answer, Promise!Drop, Promise!Move
  <1> QED
    BY <1>2, <1>3

\* The steps of c move no other exchange.
LEMMA OthersUnmoved ==
    ASSUME ConnInv, NEW c \in Conns, NEW d \in Conns, NEW k, NEW n,
           \/ Connect(c, k, n) \/ Send(c, n) \/ Leave(c) \/ ClientRead(c) \/ ClientFails(c) \/ Accept(c)
           \/ Read(c, d) \/ ReadFails(c) \/ Refuse(c) \/ Parse(c, d) \/ OpenFile(c) \/ OpenFails(c)
           \/ CloseFile(c) \/ Load(c) \/ Write(c, d) \/ WriteLost(c) \/ Close(c)
    PROVE  \A e \in Conns : e # c => ExchangeStatus'[e] = ExchangeStatus[e]
  <1>1. SUFFICES ASSUME NEW e \in Conns, e # c
                 PROVE  Unmoved(e)
    BY UnmovedKeeps
  <1>2. ConnTypeOK
    BY DEF ConnInv
  <1>3. CASE Connect(c, k, n) \/ Send(c, n) \/ Leave(c) \/ ClientFails(c)
    BY <1>1, <1>2, <1>3 DEF Unmoved, ConnTypeOK, Connect, Send, Leave, ClientFails, server
  <1>4. CASE ClientRead(c)
    BY <1>1, <1>2, <1>4 DEF Unmoved, ConnTypeOK, ClientRead, server
  <1>5. CASE Accept(c) \/ Read(c, d) \/ Parse(c, d) \/ Write(c, d)
    BY <1>1, <1>2, <1>5 DEF Unmoved, ConnTypeOK, Accept, Read, Parse, Write, client
  <1>6. CASE ReadFails(c) \/ Refuse(c) \/ OpenFile(c) \/ CloseFile(c) \/ Load(c) \/ WriteLost(c) \/ Close(c)
    BY <1>6 DEF Unmoved, ReadFails, Refuse, Load, OpenFile, CloseFile, WriteLost, Close, client
  <1>7. CASE OpenFails(c)
    BY <1>1, <1>2, <1>7 DEF Unmoved, ConnTypeOK, OpenFails, client
  <1> QED
    BY <1>3, <1>4, <1>5, <1>6, <1>7

\* How the exchange of c moves in its own steps.
LEMMA OwnMove ==
    ASSUME Stated, ConnInv, ConnInv', NEW c \in Conns, NEW d \in Conns, NEW k, NEW n,
           \/ Connect(c, k, n) \/ Send(c, n) \/ Leave(c) \/ ClientRead(c) \/ ClientFails(c) \/ Accept(c)
           \/ Read(c, d) \/ ReadFails(c) \/ Refuse(c) \/ Parse(c, d) \/ OpenFile(c) \/ OpenFails(c)
           \/ CloseFile(c) \/ Load(c) \/ Write(c, d) \/ WriteLost(c) \/ Close(c)
    PROVE  \/ ExchangeStatus'[c] = ExchangeStatus[c]
           \/ <<ExchangeStatus[c], ExchangeStatus'[c]>> \in
                  {<<"idle", "asked">>, <<"asked", "served">>, <<"served", "answered">>,
                   <<"asked", "dropped">>, <<"served", "dropped">>}
  <1> DEFINE Step(before, after) == ExchangeStatus[c] = before /\ ExchangeStatus'[c] = after
  <1>1. ConnTypeOK /\ Answering(c) /\ Asking(c)
    BY DEF ConnInv
  <1>2. /\ cpc'[c] = "idle" => ExchangeStatus'[c] = "idle"
        /\ cpc'[c] = "gone" => ExchangeStatus'[c] = "dropped"
        /\ cpc'[c] = "done" => ExchangeStatus'[c] = "answered"
        /\ cpc'[c] \in {"sending", "size", "body"} =>
             ExchangeStatus'[c] = IF reply'[c] = 0 THEN "asked" ELSE "served"
        /\ cpc'[c] \in {"idle", "sending", "size", "body", "done", "gone"}
    <2>1. Answering(c)' /\ cpc'[c] \in {"idle", "sending", "size", "body", "done", "gone"}
      BY DEF ConnInv, ConnTypeOK, Answering
    <2>2. /\ cpc'[c] = "done" => got'[c] = [len |-> reply'[c], from |-> {c}]
          /\ reply'[c] # 0 => buf'[c] = [len |-> size'[c], from |-> {c}]
      BY <2>1 DEF Answering, Whole
    <2> QED
      BY <2>1, <2>2 DEF ExchangeStatus
  <1>3. CASE Connect(c, k, n)
    <2>1. cpc[c] = "idle" /\ cpc'[c] = "sending" /\ reply'[c] = 0
      BY <1>1, <1>3 DEF Connect, ConnTypeOK, Asking, Answering
    <2> QED
      BY <1>2, <2>1, StatusIs
  <1>4. CASE Send(c, n)
    <2>1. cpc[c] = "sending" /\ cpc'[c] \in {"sending", "size"} /\ reply'[c] = reply[c]
      BY <1>1, <1>4 DEF Send, ConnTypeOK, server
    <2> QED
      BY <1>2, <2>1, StatusIs
  <1>5. CASE Leave(c) \/ ClientFails(c)
    <2>1. cpc[c] \in {"sending", "size", "body"} /\ cpc'[c] = "gone"
      BY <1>1, <1>5 DEF Leave, ClientFails, ConnTypeOK
    <2> QED
      BY <1>2, <2>1, StatusIs
  <1>6. CASE ClientRead(c)
    <2>1. cpc[c] \in {"size", "body"} /\ out[c].len > 0 /\ reply'[c] = reply[c]
      BY <1>6 DEF ClientRead, server
    <2>2. reply[c] # 0
      <3>1. out[c].len + got[c].len = wrote[c] /\ wrote[c] <= reply[c]
        BY <1>1 DEF ConnTypeOK, Answering
      <3> QED
        BY <2>1, <3>1, Numbers
    <2>3. cpc'[c] \in {"size", "body", "done", "gone"}
      <3>1. cpc'[c] \in {"size", "gone", "body", "done", "error"}
        BY <1>1, <1>6 DEF ClientRead, ClientAfter, ConnTypeOK
      <3> QED
        BY <1>2, <3>1
    <2> QED
      BY <1>2, <2>1, <2>2, <2>3, StatusIs
  <1>7. CASE Parse(c, d)
    <2>1. /\ reply[c] = 0 /\ cpc' = cpc /\ cpc[c] \notin {"idle", "done"}
      BY <1>1, <1>7 DEF Parse, client, Asking, Answering
    <2> QED
      BY <1>2, <2>1, StatusIs
  <1>8. CASE Read(c, d)
    <2>1. cpc' = cpc /\ reply' = reply
      BY <1>8 DEF Read, client
    <2> QED
      BY <1>2, <2>1, StatusIs
  <1>9. CASE \/ Accept(c) \/ ReadFails(c) \/ Refuse(c) \/ OpenFile(c) \/ CloseFile(c) \/ Load(c)
            \/ Write(c, d) \/ WriteLost(c) \/ Close(c)
    <2>1. cpc' = cpc /\ reply' = reply
      BY <1>9 DEF Accept, ReadFails, Refuse, Load, OpenFile, CloseFile, Write, WriteLost, Close, client
    <2> QED
      BY <1>2, <2>1, StatusIs
  <1>10. CASE OpenFails(c)
    <2>1. cpc' = cpc /\ cpc[c] # "idle" /\ reply[c] # 0
      BY <1>1, <1>10 DEF OpenFails, client, Asking, Answering
    <2>2. reply'[c] # 0
      BY <1>10, <2>1, SizesAssumption DEF OpenFails, ConnInv, Answering
    <2> QED
      BY <1>2, <2>1, <2>2, StatusIs
  <1> QED
    BY <1>3, <1>4, <1>5, <1>6, <1>7, <1>8, <1>9, <1>10

LEMMA NextIsPromised ==
    ASSUME Stated, ConnInv, ConnInv', [ConnNext]_vars
    PROVE  [Promise!Next]_ExchangeStatus
  <1>1. CASE UNCHANGED vars
    BY <1>1 DEF ExchangeStatus, vars, server, client
  <1>2. CASE ConnNext
    <2>1. PICK c \in Conns : \E d \in Conns : \E k, n :
             \/ Connect(c, k, n) \/ Send(c, n) \/ Leave(c) \/ ClientRead(c) \/ ClientFails(c) \/ Accept(c)
             \/ Read(c, d) \/ ReadFails(c) \/ Refuse(c) \/ Parse(c, d) \/ OpenFile(c) \/ OpenFails(c)
             \/ CloseFile(c) \/ Load(c) \/ Write(c, d) \/ WriteLost(c) \/ Close(c)
      BY <1>2, Zenon DEF ConnNext, Thread
    <2>2. \A e \in Conns : e # c => ExchangeStatus'[e] = ExchangeStatus[e]
      BY <2>1, OthersUnmoved
    <2>3. \/ ExchangeStatus'[c] = ExchangeStatus[c]
          \/ <<ExchangeStatus[c], ExchangeStatus'[c]>> \in
                 {<<"idle", "asked">>, <<"asked", "served">>, <<"served", "answered">>,
                  <<"asked", "dropped">>, <<"served", "dropped">>}
      BY <2>1, OwnMove
    <2> QED
      BY <2>2, <2>3, OneMoves
  <1> QED
    BY <1>1, <1>2

\* Connections implements Exchange: in whatever chunks requests and replies travel,
\* and however the threads interleave, a request is served as it was sent and
\* its client gets exactly its own reply or none (network_handler_thread,
\* send_request).
THEOREM ConnectionsKeepPromise ==
    ASSUME Stated
    PROVE  ConnSpec => ImplementsExchange
  <1>1. ConnInit => Promise!Init
    BY DEF ConnInit, Promise!Init, ExchangeStatus
  <1>2. ConnInv /\ ConnInv' /\ [ConnNext]_vars => [Promise!Next]_ExchangeStatus
    BY NextIsPromised
  <1> QED
    BY <1>1, <1>2, ConnInvariant, PTL DEF ConnSpec, ImplementsExchange, Promise!Spec
===============================================================================
