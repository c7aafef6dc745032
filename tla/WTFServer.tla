------------------------------ MODULE WTFServer ------------------------------
(***************************************************************************)
(* The WTF server (Asst3/server): the ten handlers of logic.c as the       *)
(* sequences of file-system steps they make, under the locks of            *)
(* ProjectLocks, with the process dying between any two steps.             *)
(*                                                                         *)
(* A project is a directory with Currentversion (the number of its latest  *)
(* version), a directory per version with .Manifest, files.tar and         *)
(* .Commit, and Curr with the latest .Manifest, .Commit and files.  A file *)
(* is its content: the version its manifest states and the push it came    *)
(* with.  The archive of a push holds its files, its manifest and its      *)
(* commit (client.c:586-596).                                              *)
(*                                                                         *)
(* A step is one call that changes the disk.  A child command              *)
(* (system("rm -rf ...")) is one step: it completes even when the server   *)
(* dies.                                                                   *)
(***************************************************************************)
EXTENDS ProjectLocks, Integers, Sequences

CONSTANTS
    Ops,          \* the operations clients send in this instance
    Ids,          \* pushes
    NoId,         \* no content: the payload is too short, or nothing pushed
    Args,         \* version numbers in requests
    MaxVersion,   \* bound on the version a push may state
    NoFile,       \* a file that is absent
    Truncated,    \* a file opened with O_TRUNC and not yet written
    TornWrites,   \* the process may die inside writeFile(Currentversion)
    Digits,       \* digits that may follow rollback's unterminated buffer
    Failing       \* the calls to the file system that may fail: pairs of an
                  \* operation and a step of it

ASSUME OpsAssumption ==
    Ops \subseteq {"create", "history", "currentversion", "destroy", "rollback",
                   "checkout", "update", "upgrade", "commit", "push"}
ASSUME ArgsAssumption == Args \subseteq Int /\ MaxVersion \in Nat /\ Digits \subseteq 0..9
ASSUME MarksAssumption ==
    /\ NoFile \notin Int /\ Truncated \notin Int /\ NoFile # Truncated
    /\ NoFile \notin [ver : Int, id : Ids \cup {NoId}]
ASSUME FailingAssumption ==
    Failing \subseteq {"create", "destroy", "rollback", "push"} \X STRING

VARIABLES
    disk,     \* project -> its directory
    call,     \* thread -> the request it serves
    at,       \* thread -> its next step inside process_logic
    latest,   \* thread -> latest_version, the local of the handlers
    target,   \* thread -> version, the local of rollback
    answer,   \* thread -> the response it built last
    life      \* "up", or how the process ended: "killed", "exit", "fault"

serverVars == <<lockVars, disk, call, at, latest, target, answer, life>>

----------------------------------------------------------------------------
(* Requests. *)

Writers == {"create", "destroy", "rollback", "push"}
PushShared(op) == IF op \in {"create", "destroy", "rollback"} THEN "wr" ELSE "rd"    \* variant
DestroyShared(op) == IF op \in {"create", "rollback", "push"} THEN "wr" ELSE "rd"    \* variant

Mode(op) == IF op \in Writers THEN "wr" ELSE "rd"

Calls ==
    [op : Ops \ {"push", "rollback", "upgrade"}, proj : Projects, arg : {0}, id : {NoId}] \cup
    [op : Ops \cap {"rollback", "upgrade"}, proj : Projects, arg : Args, id : {NoId}] \cup
    [op : Ops \cap {"push"}, proj : Projects, arg : 1..MaxVersion, id : Ids] \cup
    [op : Ops \cap {"push"}, proj : Projects, arg : {0}, id : {NoId}]

LockRequests(c) ==
    {[proj |-> c.proj, mode |-> Mode(c.op), tail |-> tail] :
        tail \in IF c.op = "push" THEN Tails ELSE {NoTail}}

NoResponse == [code |-> -1, val |-> << >>]
Response(code, val) == [code |-> code, val |-> val]

----------------------------------------------------------------------------
(* The disk. *)

Content(v, id) == [ver |-> v, id |-> id]
Initial == Content(0, NoId)

Absent == [dir |-> FALSE, cur |-> NoFile, vers |-> << >>,
           man |-> NoFile, com |-> NoFile, files |-> {}]
Fresh == [Absent EXCEPT !.dir = TRUE]
Created == [Fresh EXCEPT !.man = Initial, !.cur = 0]

NoVersion == [man |-> NoFile, tar |-> NoFile, com |-> NoFile]

\* What a file of version v holds; NoFile if there is no such directory.
FileOf(d, v, name) == IF v \in DOMAIN d.vers THEN d.vers[v][name] ELSE NoFile

\* mkdir of a version directory; an old one is kept.
WithVersion(vers, v) ==
    [w \in DOMAIN vers \cup {v} |-> IF w \in DOMAIN vers THEN vers[w] ELSE NoVersion]
MakeVersionBelow(d, v) == [d EXCEPT !.vers = WithVersion(d.vers, v - 1)]    \* variant
MakeVersion(d, v) == [d EXCEPT !.vers = WithVersion(d.vers, v)]

\* writeFile into a version directory; nothing without the directory.
PutFile(d, v, name, content) ==
    IF v \in DOMAIN d.vers THEN [d EXCEPT !.vers[v][name] = content] ELSE d

RemoveVersionAbove(d, v) ==    \* variant: named before it is counted down
    [d EXCEPT !.vers = [w \in DOMAIN d.vers \ {v + 1} |-> d.vers[w]]]
RemoveVersion(d, v) ==
    [d EXCEPT !.vers = [w \in DOMAIN d.vers \ {v} |-> d.vers[w]]]

\* tar_extract_all into Curr: what is there and not in the archive stays.
Extract(d, content) ==
    IF content = NoFile THEN d
    ELSE [d EXCEPT !.man = content, !.com = content, !.files = @ \cup {content}]

----------------------------------------------------------------------------
(* The writing handlers: their steps, and what each does to the project. *)

\* logic.c:41-71.  The directory of version 0 is never made: strncat copies
\* one character, and .Manifest lands in the project's directory, unread.
CreateStep(d, stage) ==
    CASE stage = "mkdir" -> Fresh
      [] stage = "curr" -> [d EXCEPT !.man = Initial]
      [] stage = "truncate" -> [d EXCEPT !.cur = Truncated]
      [] stage = "currentversion" -> [d EXCEPT !.cur = 0]

\* logic.c:280-318, new being latest_version + 1.
PushStep(d, stage, new, content) ==
    CASE stage = "mkdir" -> MakeVersion(d, new)
      [] stage = "manifest" -> PutFile(d, new, "man", content)
      [] stage = "tar" -> PutFile(d, new, "tar", content)
      [] stage = "clear" -> [d EXCEPT !.files = {}]
      [] stage = "untar" -> Extract(d, FileOf(d, new, "tar"))
      [] stage = "copycommit" -> PutFile(d, new, "com", d.com)
      [] stage = "copymanifest" -> [d EXCEPT !.man = FileOf(d, new, "man")]
      [] stage = "truncate" -> [d EXCEPT !.cur = Truncated]
      [] stage = "currentversion" -> [d EXCEPT !.cur = new]

\* logic.c:371-392.  "rm -rf .../curr" names a directory that is not there,
\* so Curr keeps its files; Currentversion gets the payload as it came.
RollbackStep(d, stage, old, version, payload) ==
    CASE stage = "delete" -> RemoveVersion(d, old)
      [] stage = "untar" -> Extract(d, FileOf(d, version, "tar"))
      [] stage = "truncate" -> [d EXCEPT !.cur = Truncated]
      [] stage = "currentversion" -> [d EXCEPT !.cur = payload]

PublishFirst ==    \* variant: the version is announced before it is stored
    <<"mkdir", "truncate", "currentversion", "manifest", "tar", "clear", "untar",
      "copycommit", "copymanifest">>
PushOrder ==
    <<"mkdir", "manifest", "tar", "clear", "untar", "copycommit", "copymanifest",
      "truncate", "currentversion">>

Scripts == [
    create   |-> <<"mkdir", "curr", "truncate", "currentversion">>,
    push     |-> PushOrder,
    rollback |-> <<"delete", "untar", "truncate", "currentversion">>,
    destroy  |-> <<"remove">>]

\* The step after one of a script.  The truncation of Currentversion is a step of
\* its own only where writes are torn.
Successor(script, stage) ==
    LET i == CHOOSE j \in DOMAIN script : script[j] = stage
    IN  IF i = Len(script) THEN "answered" ELSE script[i + 1]

Following(op, stage) ==
    LET next == Successor(Scripts[op], stage)
    IN  IF next = "truncate" /\ ~TornWrites THEN Successor(Scripts[op], next) ELSE next

Steps(op) == {Scripts[op][i] : i \in DOMAIN Scripts[op]}
StageSet == {"none", "exists", "version", "read", "answered"} \cup
            UNION {Steps(op) : op \in DOMAIN Scripts}

----------------------------------------------------------------------------
(* Threads. *)

Dir(t) == disk[call[t].proj]

ServerInit ==
    /\ \E r \in Requests : LockInit(r, 1)
    /\ disk \in [Projects -> {Absent, Created}]
    /\ call \in {[t \in Threads |-> c] : c \in {CHOOSE x \in Calls : TRUE}}
    /\ at = [t \in Threads |-> "none"]
    /\ latest = [t \in Threads |-> 0]
    /\ target = [t \in Threads |-> 0]
    /\ answer = [t \in Threads |-> NoResponse]
    /\ life = "up"

Arrive(t, c) ==
    /\ life = "up"
    /\ \E r \in LockRequests(c) : Receive(t, r)
    /\ call' = [call EXCEPT ![t] = c]
    /\ UNCHANGED <<disk, at, latest, target, answer, life>>

FindLock(t) ==
    /\ life = "up"
    /\ Lookup(t)
    /\ UNCHANGED <<disk, call, at, latest, target, answer, life>>

CallLock(t) ==
    /\ life = "up"
    /\ Request(t)
    /\ UNCHANGED <<disk, call, at, latest, target, answer, life>>

Enter(t) ==
    /\ life = "up"
    /\ Acquire(t)
    /\ at' = [at EXCEPT ![t] = "exists"]
    /\ UNCHANGED <<disk, call, latest, target, answer, life>>

\* The response is sent and the connection closed; the handler's locals go.
Leave(t) ==
    /\ life = "up" /\ at[t] = "answered"
    /\ Release(t)
    /\ at' = [at EXCEPT ![t] = "none"]
    /\ latest' = [latest EXCEPT ![t] = 0]
    /\ target' = [target EXCEPT ![t] = 0]
    /\ answer' = [answer EXCEPT ![t] = NoResponse]
    /\ UNCHANGED <<disk, call, life>>

\* A step inside the critical section.
Inner(t, stage) ==
    /\ life = "up" /\ pc[t] = "crit" /\ at[t] = stage
    /\ UNCHANGED <<lockVars, call>>

Respond(t, code, val) ==
    /\ answer' = [answer EXCEPT ![t] = Response(code, val)]
    /\ at' = [at EXCEPT ![t] = "answered"]

\* exit(0), or a fault: the process ends here.
End(how) ==
    /\ life' = how
    /\ UNCHANGED <<at, answer>>

Goto(t, stage) ==
    /\ at' = [at EXCEPT ![t] = stage]
    /\ UNCHANGED answer

\* project_exist in process_logic, before each handler.
Exists(t) ==
    LET op == call[t].op
        there == Dir(t).dir
    IN  /\ Inner(t, "exists")
        /\ UNCHANGED <<disk, latest, target, life>>
        /\ \/ op = "create" /\ there /\ Respond(t, 1, << >>)
           \/ op = "create" /\ ~there /\ Goto(t, "mkdir")
           \/ op # "create" /\ ~there /\ Respond(t, 999, << >>)
           \/ op = "destroy" /\ there /\ Goto(t, "remove")
           \/ op \in {"update", "commit"} /\ there /\ Goto(t, "read")
           \/ op = "push" /\ there /\ call[t].id = NoId /\ Respond(t, 901, << >>)
           \/ /\ op \in {"history", "currentversion", "checkout", "upgrade", "rollback", "push"}
              /\ there /\ ~(op = "push" /\ call[t].id = NoId)
              /\ Goto(t, "version")

\* get_latest_project_version: exit(0) without the file; an empty file leaves
\* the local uninitialized.
VersionsRead(d) == IF d.cur = Truncated THEN 0..MaxVersion ELSE {d.cur}

\* sscanf reads rollback's payload out of a buffer that is not terminated.
Parsed(arg) == {arg} \cup {10 * arg + digit : digit \in Digits}

\* get_latest_project_version, and the checks that follow it.
ReadVersion(t) ==
    LET op == call[t].op
        arg == call[t].arg
    IN  /\ Inner(t, "version")
        /\ UNCHANGED disk
        /\ \/ Dir(t).cur = NoFile /\ End("exit") /\ UNCHANGED <<latest, target>>
           \/ /\ Dir(t).cur # NoFile
              /\ UNCHANGED life
              /\ \E n \in VersionsRead(Dir(t)), version \in Parsed(arg) :
                    /\ latest' = [latest EXCEPT ![t] = n]
                    /\ target' = [target EXCEPT ![t] = IF op = "rollback" THEN version ELSE @]
                    /\ \/ op = "push" /\ arg # n + 1 /\ Respond(t, 902, << >>)
                       \/ op = "push" /\ arg = n + 1 /\ Goto(t, "mkdir")
                       \/ /\ op = "rollback" /\ (version > n \/ version = 0)
                          /\ Respond(t, 401, << >>)
                       \/ /\ op = "rollback" /\ version = n /\ version # 0
                          /\ Respond(t, 400, << >>)
                       \/ op = "rollback" /\ version < n /\ version # 0 /\ Goto(t, "delete")
                       \/ op \notin {"push", "rollback"} /\ Goto(t, "read")

\* The files that go into the response are read one by one; without one of them
\* the process exits.
SendFiles(t, code, files) ==
    IF NoFile \in {files[i] : i \in DOMAIN files}
    THEN End("exit")
    ELSE Respond(t, code, files) /\ UNCHANGED life

Decline(t, code) == Respond(t, code, << >>) /\ UNCHANGED life

\* The reading handlers, and what stops the server in them.
History(t, d, n) ==
    /\ call[t].op = "history"
    /\ IF n = 0 THEN Decline(t, 101)
       ELSE SendFiles(t, 100, [v \in 1..n |-> FileOf(d, v, "com")])

Currentversion(t, d, n) ==
    /\ call[t].op = "currentversion"
    /\ IF n = 0 THEN Decline(t, 201) ELSE SendFiles(t, 200, <<FileOf(d, n, "man")>>)

Checkout(t, d, n) ==
    /\ call[t].op = "checkout"
    /\ IF n = 0 THEN Decline(t, 502)
       ELSE IF FileOf(d, n, "tar") = NoFile THEN Decline(t, 501)
       ELSE SendFiles(t, 500, <<FileOf(d, n, "tar")>>)

Update(t, d) ==
    /\ call[t].op = "update"
    /\ IF d.man = NoFile
       THEN Decline(t, 601) \/ End("fault")    \* free(tmp), never set
       ELSE SendFiles(t, 600, <<d.man>>)

Upgrade(t, d, n) ==
    LET arg == call[t].arg
    IN  /\ call[t].op = "upgrade"
        /\ IF arg > n \/ arg < 0 THEN Decline(t, 702)
           ELSE IF arg = 0 THEN Decline(t, 701)
           ELSE SendFiles(t, 700, <<FileOf(d, arg, "man"), FileOf(d, arg, "tar")>>)

Commit(t, d) == call[t].op = "commit" /\ SendFiles(t, 800, <<d.man>>)

Read(t) ==
    /\ Inner(t, "read")
    /\ UNCHANGED <<disk, latest, target>>
    /\ \/ History(t, Dir(t), latest[t])
       \/ Currentversion(t, Dir(t), latest[t])
       \/ Checkout(t, Dir(t), latest[t])
       \/ Update(t, Dir(t))
       \/ Upgrade(t, Dir(t), latest[t])
       \/ Commit(t, Dir(t))

Change(t, d) == disk' = [disk EXCEPT ![call[t].proj] = d]

\* The handler goes on after a step, and answers with its success code after
\* the last.
Success == [create |-> 0, destroy |-> 300, rollback |-> 400, push |-> 900]
Succeed(t) == Respond(t, Success[call[t].op], << >>)

Proceed(t, stage) ==
    LET next == Following(call[t].op, stage)
    IN  IF next = "answered" THEN Succeed(t) ELSE Goto(t, next)

Create(t, stage) ==
    /\ call[t].op = "create" /\ Inner(t, stage)
    /\ Change(t, CreateStep(Dir(t), stage))
    /\ Proceed(t, stage)
    /\ UNCHANGED <<latest, target, life>>

Destroy(t) ==
    /\ call[t].op = "destroy" /\ Inner(t, "remove")
    /\ Change(t, Absent)
    /\ Proceed(t, "remove")
    /\ UNCHANGED <<latest, target, life>>

Push(t, stage) ==
    /\ call[t].op = "push" /\ Inner(t, stage)
    /\ Change(t, PushStep(Dir(t), stage, latest[t] + 1, Content(call[t].arg, call[t].id)))
    /\ Proceed(t, stage)
    /\ UNCHANGED <<latest, target, life>>

\* latest_version-- in the loop of rollback.
NotCounted(n) == n    \* variant
CountedDown(n) == n - 1

\* The loop deletes the versions above the target, the latest first, and goes on
\* to the target's archive.
GoOn(t, stage) ==
    \/ /\ stage = "delete"
       /\ latest' = [latest EXCEPT ![t] = CountedDown(@)]
       /\ Goto(t, IF CountedDown(latest[t]) > target[t] THEN "delete" ELSE "untar")
    \/ stage # "delete" /\ Proceed(t, stage) /\ UNCHANGED latest

Rollback(t, stage) ==
    /\ call[t].op = "rollback" /\ Inner(t, stage)
    /\ Change(t, RollbackStep(Dir(t), stage, latest[t], target[t], call[t].arg))
    /\ GoOn(t, stage)
    /\ UNCHANGED <<target, life>>

----------------------------------------------------------------------------
(* Calls that fail, and leave the disk as it is. *)

\* The archive that push and rollback extract.
Archive(t) == FileOf(Dir(t), IF call[t].op = "push" THEN latest[t] + 1 ELSE target[t], "tar")

\* tar_open fails and leaves t unset: the extraction is a fault (or finds nothing,
\* which is the step of Push and Rollback).
NoArchive(t) ==
    /\ call[t].op \in {"push", "rollback"} /\ Inner(t, "untar")
    /\ Archive(t) = NoFile \/ <<call[t].op, "untar">> \in Failing
    /\ End("fault")
    /\ UNCHANGED <<disk, latest, target>>

\* variant: the result of writeFile is not looked at.
UncheckedCreateFails(t, stage) == Proceed(t, stage)

\* createProject checks mkdir and each writeFile; what it has made stays there.
CreateFails(t, stage) == Respond(t, IF stage = "mkdir" THEN 2 ELSE 3, << >>)

\* A call fails.  push, rollback and destroy do not look at the result of any; a
\* file that was not opened (truncate) is not written either.
CallFails(t, stage) ==
    /\ <<call[t].op, stage>> \in Failing /\ Inner(t, stage)
    /\ IF call[t].op = "create" THEN CreateFails(t, stage) /\ UNCHANGED latest
       ELSE IF stage = "truncate" THEN Succeed(t) /\ UNCHANGED latest
       ELSE GoOn(t, stage)
    /\ UNCHANGED <<disk, target, life>>
----------------------------------------------------------------------------

Handler(t) ==
    \/ Exists(t)
    \/ ReadVersion(t)
    \/ Read(t)
    \/ Destroy(t)
    \/ \E stage \in Steps("create") : Create(t, stage)
    \/ \E stage \in Steps("push") : Push(t, stage)
    \/ \E stage \in Steps("rollback") : Rollback(t, stage)
    \/ NoArchive(t)
    \/ \E stage \in StageSet : CallFails(t, stage)

ThreadStep(t) == FindLock(t) \/ CallLock(t) \/ Enter(t) \/ Leave(t) \/ Handler(t)

\* SIGINT makes main return and the process ends: no handler goes on.  The machine
\* runs on, so that a command that was started (rm, cp) completes.
Kill ==
    /\ life = "up" /\ restarts < MaxRestarts
    /\ life' = "killed"
    /\ UNCHANGED <<lockVars, disk, call, at, latest, target, answer>>

Start ==
    /\ life # "up"
    /\ Restart
    /\ life' = "up"
    /\ at' = [t \in Threads |-> "none"]
    /\ latest' = [t \in Threads |-> 0]
    /\ target' = [t \in Threads |-> 0]
    /\ answer' = [t \in Threads |-> NoResponse]
    /\ UNCHANGED <<disk, call>>

ServerNext ==
    \/ \E t \in Threads : (\E c \in Calls : Arrive(t, c)) \/ ThreadStep(t)
    \/ Kill
    \/ Start

ServerSpec == ServerInit /\ [][ServerNext]_serverVars

ServerFairness == \A t \in Threads : WF_serverVars(ThreadStep(t))

FairServerSpec == ServerSpec /\ ServerFairness

----------------------------------------------------------------------------
Contents == [ver : 0..MaxVersion, id : Ids \cup {NoId}]
Versions == 0..MaxVersion
Stored == Contents \cup {NoFile}

ServerTypeOK ==
    /\ TypeOK
    /\ \A p \in Projects :
          LET d == disk[p]
          IN  /\ DOMAIN d = DOMAIN Absent
              /\ d.dir \in BOOLEAN
              /\ d.cur \in Versions \cup {NoFile, Truncated}
              /\ DOMAIN d.vers \subseteq 1..MaxVersion
              /\ \A v \in DOMAIN d.vers : d.vers[v] \in [man : Stored, tar : Stored, com : Stored]
              /\ d.man \in Stored /\ d.com \in Stored /\ d.files \subseteq Contents
    /\ call \in [Threads -> Calls]
    /\ at \in [Threads -> StageSet]
    /\ latest \in [Threads -> Versions] /\ target \in [Threads -> Int]
    /\ life \in {"up", "killed", "exit", "fault"}

\* The server never ends itself: no request finds the directory of a project
\* corrupted (serverutil.c:27-30 "this should never happen", logic.c:162-165,
\* 216-219, 514-517, 527-530, 564-567) and none faults.
NeverExits == life \notin {"exit", "fault"}

\* What one push stored as a version: its manifest, its archive and its commit.
VersionOf(content) == [name \in {"man", "tar", "com"} |-> content]

\* What a killed push or rollback left never counts as a version: each version up
\* to the current one whose directory is there holds the manifest, archive and
\* commit of one push, and states its own number (logic.c:271-318, 371-392).
VersionsWhole ==
    \A p \in Projects :
        disk[p].cur \in Versions
        => \A v \in DOMAIN disk[p].vers \cap (1..disk[p].cur) :
              \E id \in Ids : disk[p].vers[v] = VersionOf(Content(v, id))

\* An answer of success means that the disk has what was asked for and nothing of
\* what was there before, whatever calls of create failed and whatever a handler
\* that was killed before left: a project as it is when new (0); the version pushed,
\* whole, and Curr with its files and no others (900); after a destroy nothing (300).
SuccessIsStored ==
    \A t \in Threads :
        LET d == Dir(t)
            pushed == Content(call[t].arg, call[t].id)
        IN  CASE answer[t].code = 0 -> d = Created
              [] answer[t].code = 900 ->
                    /\ d.cur = pushed.ver
                    /\ d.cur \in DOMAIN d.vers /\ d.vers[d.cur] = VersionOf(pushed)
                    /\ d.man = pushed /\ d.com = pushed /\ d.files = {pushed}
              [] answer[t].code = 300 -> d = Absent
              [] OTHER -> TRUE

\* A rollback that is answered with success has gone back: the version asked for is
\* whole on the disk and is the last one there, Currentversion names it, and Curr has
\* its manifest, commit and files - also when it was the current one and nothing
\* was done (logic.c:367-393).  Files of the versions given up may stay in Curr.
RollbackRestores ==
    \A t \in Threads :
        LET d == Dir(t)
            n == call[t].arg
        IN  answer[t].code = 400
            => /\ d.cur = n
               /\ n \in DOMAIN d.vers /\ \A v \in DOMAIN d.vers : v <= n
               /\ \E id \in Ids :
                     /\ d.vers[n] = VersionOf(Content(n, id))
                     /\ d.man = Content(n, id) /\ d.com = Content(n, id)
                     /\ Content(n, id) \in d.files

\* A request whose handler has begun is answered, unless the process ends: the
\* scripts and the loop of rollback come to an end.
HandlersFinish ==
    \A t \in Threads : Inside(t) ~> (~Inside(t) \/ life # "up")

\* A request that waits to write a project gets there, though readers keep coming:
\* the lock is of the kind that prefers writers (server/ds.c:43).  While it waits a
\* writer comes to hold the lock, unless the process ends.
WriterNotStarved ==
    \A t \in Threads, l \in 1..MaxLocks :
        (pc[t] = "wait" /\ req[t].mode = "wr" /\ lock[t] = l)
            ~> (Holders(l, "wr") # {} \/ pc[t] = "idle" \/ life # "up")
=============================================================================
