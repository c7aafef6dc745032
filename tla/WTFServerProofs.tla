--------------------------- MODULE WTFServerProofs ---------------------------
(***************************************************************************)
(* What TLAPS proves of WTFServer.                                         *)
(*                                                                         *)
(* Its handlers leave the locks alone, so whatever is proved of the locks  *)
(* holds of the server, for any set of threads and projects and any number *)
(* of requests and deaths.                                                 *)
(*                                                                         *)
(* Of its disk, for any set of projects, pushes and version numbers: each  *)
(* version up to the current one is one push's, whole, and whoever is told *)
(* that a project was created or destroyed or a version pushed finds on    *)
(* the disk that and nothing else.                                         *)
(*                                                                         *)
(* Of its types, whatever runs together, dies or fails: no version number  *)
(* leaves its bounds, no file holds what no push sent, and no handler is   *)
(* at a step of another's script.                                          *)
(***************************************************************************)
EXTENDS WTFServer, ProjectLocksProofs

(* The locks. *)

\* The lock request process_logic makes for a call is one of ProjectLocks.
LEMMA LockRequestsAreRequests ==
    ASSUME NEW c \in Calls
    PROVE  LockRequests(c) \subseteq Requests
  <1>1. c.proj \in Projects
    BY DEF Calls
  <1>2. CASE c.op = "push"
    BY <1>1, <1>2 DEF LockRequests, Requests, Mode, Writers
  <1>3. CASE c.op # "push"
    BY <1>1, <1>3 DEF LockRequests, Requests, Mode
  <1> QED
    BY <1>2, <1>3

LEMMA InitUsesLocks == ServerInit => Init
  BY DEF ServerInit, Init

\* The steps inside a critical section leave the locks alone.
LEMMA HandlerKeepsLocks ==
    ASSUME NEW t \in Threads, Handler(t)
    PROVE  UNCHANGED lockVars
  <1>1. \A stage : Inner(t, stage) => UNCHANGED lockVars
    BY DEF Inner
  <1> QED
    BY <1>1 DEF Handler, Exists, ReadVersion, Read, History, Currentversion, Checkout, Update, Upgrade, Commit,
                SendFiles, Decline, Destroy, Create, Push, Rollback,
              NoArchive, CallFails

LEMMA StepUsesLocks ==
    ASSUME [ServerNext]_serverVars
    PROVE  [Next]_lockVars
  <1>1. CASE UNCHANGED serverVars
    BY <1>1 DEF serverVars
  <1>2. ASSUME NEW t \in Threads, NEW c \in Calls, Arrive(t, c)
        PROVE  Next
    <2>1. PICK r \in LockRequests(c) : Receive(t, r)
      BY <1>2 DEF Arrive
    <2>2. r \in Requests
      BY <2>1, LockRequestsAreRequests
    <2> QED
      BY <2>1, <2>2 DEF Next
  <1>3. ASSUME NEW t \in Threads, FindLock(t) \/ CallLock(t) \/ Enter(t) \/ Leave(t)
        PROVE  Next
    BY <1>3 DEF FindLock, CallLock, Enter, Leave, Next, LockStep
  <1>4. ASSUME NEW t \in Threads, Handler(t)
        PROVE  UNCHANGED lockVars
    BY <1>4, HandlerKeepsLocks
  <1>5. CASE Kill
    BY <1>5 DEF Kill
  <1>6. CASE Start
    BY <1>6 DEF Start, Next
  <1> QED
    BY <1>1, <1>2, <1>3, <1>4, <1>5, <1>6 DEF ServerNext, ThreadStep

LEMMA ServerUsesLocks == ServerSpec => Spec
  BY InitUsesLocks, StepUsesLocks, PTL DEF ServerSpec, Spec

\* Two handlers of one project whose requests came when the project was in the
\* table never run together if one of them writes to it, through any deaths of
\* the server (server/ds.c:28-56, logic.c:587-703).
THEOREM ServerExcludes == ServerSpec => []SettledExclusion
  BY ServerUsesLocks, SettledRequestsExclude, PTL

----------------------------------------------------------------------------
(* The disk. *)

\* Where this holds.  Requests for one project exclude one another: every name is
\* in the table and stays there, or requests come one at a time.  Only create's
\* calls may fail, rollback's number is read as it was sent, and a server that
\* may be started again does not die inside the write of Currentversion.
Stated ==
    /\ (Warm = Projects /\ MaxRestarts = 0) \/ (\A t, u \in Threads : t = u)
    /\ Failing \subseteq {"create"} \X STRING
    /\ TornWrites => Failing = {} /\ MaxRestarts = 0
    /\ Digits = {}

----------------------------------------------------------------------------
(* The strengthening: a project's directory, and a writer half-way. *)

Filed(vers) ==
    /\ vers = [v \in DOMAIN vers |-> vers[v]]
    /\ \A v \in DOMAIN vers :
          vers[v] = [man |-> vers[v].man, tar |-> vers[v].tar, com |-> vers[v].com]

Shaped(d) ==
    /\ d = [dir |-> d.dir, cur |-> d.cur, vers |-> d.vers,
            man |-> d.man, com |-> d.com, files |-> d.files]
    /\ Filed(d.vers)

Whole(d, v) == \E id \in Ids : d.vers[v] = VersionOf(Content(v, id))
WholeTo(d, n) == \A v \in (DOMAIN d.vers) \cap (1..n) : Whole(d, v)

\* What a push of content x as version new has done before the step stage.
PushAt(d, stage, new, x) ==
    /\ WholeTo(d, new - 1)
    /\ d.cur \in Int => d.cur = new - 1
    /\ stage # "mkdir" => new \in DOMAIN d.vers
    /\ stage \notin {"mkdir", "manifest"} => d.vers[new].man = x
    /\ stage \notin {"mkdir", "manifest", "tar"} => d.vers[new].tar = x
    /\ stage = "untar" => d.files = {}
    /\ stage \in {"copycommit", "copymanifest", "truncate", "currentversion"} =>
          d.com = x /\ d.files = {x}
    /\ stage \in {"copymanifest", "truncate", "currentversion"} => d.vers[new].com = x
    /\ stage \in {"truncate", "currentversion"} => d.man = x

CreateAt(d, stage) ==
    /\ stage # "mkdir" => d.dir = TRUE /\ d.vers = << >> /\ d.com = NoFile /\ d.files = {}
    /\ stage \in {"truncate", "currentversion"} => d.man = Initial

\* Content x was pushed as the latest version.
Pushed(d, x) ==
    /\ d.cur = x.ver /\ x.ver \in DOMAIN d.vers /\ d.vers[x.ver] = VersionOf(x)
    /\ d.man = x /\ d.com = x /\ d.files = {x}

\* What the disk has when op is answered with success.
Kept(d, c, code) ==
    /\ code = 0 => c.op = "create" /\ d = Created
    /\ code = 900 => c.op = "push" /\ Pushed(d, Content(c.arg, c.id))
    /\ code = 300 => c.op = "destroy" /\ d = Absent

\* The request of a thread and what its handler has done so far.
Progress(d, c, stage, n, v, code) ==
    /\ stage = "truncate" => TornWrites
    /\ stage = "version" =>
          c.op \in {"history", "currentversion", "checkout", "upgrade", "rollback", "push"}
    /\ stage = "read" =>
          c.op \in {"history", "currentversion", "checkout", "update", "upgrade", "commit"}
    /\ stage # "answered" => code = -1
    /\ stage = "answered" => Kept(d, c, code)
    /\ c.op = "push" /\ stage \notin {"exists", "answered"} => c.id \in Ids
    /\ c.op = "push" /\ stage \in Steps("push") =>
          n = c.arg - 1 /\ PushAt(d, stage, c.arg, Content(c.arg, c.id))
    /\ c.op = "rollback" /\ stage \in Steps("rollback") => v = c.arg /\ WholeTo(d, c.arg)
    /\ c.op = "create" /\ stage \in Steps("create") => CreateAt(d, stage)

Serving(t) ==
    /\ pc[t] # "idle" =>
          /\ call[t] \in Calls
          /\ req[t].proj = call[t].proj /\ req[t].mode = Mode(call[t].op)
    /\ pc[t] # "crit" => at[t] = "none" /\ answer[t].code = -1
    /\ pc[t] = "crit" => Progress(Dir(t), call[t], at[t], latest[t], target[t], answer[t].code)

\* Currentversion is empty only while a writer of the project is about to write it.
Writing(p) ==
    \E t \in Threads :
        /\ pc[t] = "crit" /\ at[t] = "currentversion"
        /\ call[t].proj = p /\ call[t].op \in Writers

DirOK(p) ==
    /\ Shaped(disk[p])
    /\ disk[p].cur \in Int \cup {NoFile, Truncated}
    /\ disk[p].cur \in Int => WholeTo(disk[p], disk[p].cur)
    /\ disk[p].cur = Truncated => TornWrites /\ Writing(p)

Domains ==
    /\ DOMAIN disk = Projects
    /\ DOMAIN call = Threads /\ DOMAIN at = Threads /\ DOMAIN latest = Threads
    /\ DOMAIN target = Threads /\ DOMAIN answer = Threads

StorageInv ==
    /\ Domains
    /\ \A p \in Projects : DirOK(p)
    /\ \A t \in Threads : Serving(t)

----------------------------------------------------------------------------
(* The scripts. *)

\* The steps of the scripts.
LEMMA ScriptSteps ==
    /\ Steps("create") = {"mkdir", "curr", "truncate", "currentversion"}
    /\ Steps("push") = {"mkdir", "manifest", "tar", "clear", "untar", "copycommit",
                        "copymanifest", "truncate", "currentversion"}
    /\ Steps("rollback") = {"delete", "untar", "truncate", "currentversion"}
    /\ Steps("destroy") = {"remove"}
  <1>1. Steps("create") = {"mkdir", "curr", "truncate", "currentversion"}
    BY DEF Steps, Scripts
  <1>2. Steps("push") = {"mkdir", "manifest", "tar", "clear", "untar", "copycommit",
                         "copymanifest", "truncate", "currentversion"}
    BY DEF Steps, Scripts, PushOrder
  <1>3. Steps("rollback") = {"delete", "untar", "truncate", "currentversion"}
    BY DEF Steps, Scripts
  <1>4. Steps("destroy") = {"remove"}
    BY DEF Steps, Scripts
  <1> QED
    BY <1>1, <1>2, <1>3, <1>4

\* Where no step occurs twice, the successor of one is the next in the list.
LEMMA SuccessorIs ==
    ASSUME NEW script, NEW i \in DOMAIN script,
           \A j \in DOMAIN script : script[j] = script[i] => j = i
    PROVE  Successor(script, script[i]) = IF i = Len(script) THEN "answered" ELSE script[i + 1]
  BY DEF Successor

\* The order of a push.
LEMMA PushFollowing ==
    /\ Following("push", "mkdir") = "manifest"
    /\ Following("push", "manifest") = "tar"
    /\ Following("push", "tar") = "clear"
    /\ Following("push", "clear") = "untar"
    /\ Following("push", "untar") = "copycommit"
    /\ Following("push", "copycommit") = "copymanifest"
    /\ Following("push", "copymanifest") = IF TornWrites THEN "truncate" ELSE "currentversion"
    /\ Following("push", "truncate") = "currentversion"
    /\ Following("push", "currentversion") = "answered"
  <1> DEFINE S == PushOrder
  <1>1. /\ DOMAIN S = 1..9 /\ Len(S) = 9
        /\ S[1] = "mkdir" /\ S[2] = "manifest" /\ S[3] = "tar"
        /\ S[4] = "clear" /\ S[5] = "untar" /\ S[6] = "copycommit"
        /\ S[7] = "copymanifest" /\ S[8] = "truncate"
        /\ S[9] = "currentversion"
    BY DEF PushOrder
  <1>2. Scripts["push"] = S
    BY DEF Scripts
  <1> HIDE DEF S
  <1>3. \A i, j \in 1..9 : S[i] = S[j] => i = j
    BY <1>1
  <1>4. \A i \in 1..9 : Successor(S, S[i]) = IF i = 9 THEN "answered" ELSE S[i + 1]
    <2> TAKE i \in 1..9
    <2>1. i \in DOMAIN S
      BY <1>1
    <2>2. \A j \in DOMAIN S : S[j] = S[i] => j = i
      BY <1>1, <1>3
    <2> QED
      BY <2>1, <2>2, <1>1, SuccessorIs
  <1>5. /\ Successor(S, "mkdir") = "manifest"
        /\ Successor(S, "manifest") = "tar"
        /\ Successor(S, "tar") = "clear"
        /\ Successor(S, "clear") = "untar"
        /\ Successor(S, "untar") = "copycommit"
        /\ Successor(S, "copycommit") = "copymanifest"
        /\ Successor(S, "copymanifest") = "truncate"
        /\ Successor(S, "truncate") = "currentversion"
        /\ Successor(S, "currentversion") = "answered"
    BY <1>1, <1>4
  <1> QED
    BY <1>2, <1>5 DEF Following

\* The order of a create.
LEMMA CreateFollowing ==
    /\ Following("create", "mkdir") = "curr"
    /\ Following("create", "curr") = IF TornWrites THEN "truncate" ELSE "currentversion"
    /\ Following("create", "truncate") = "currentversion"
    /\ Following("create", "currentversion") = "answered"
  <1> DEFINE S == Scripts["create"]
  <1>1. /\ DOMAIN S = 1..4 /\ Len(S) = 4
        /\ S[1] = "mkdir" /\ S[2] = "curr" /\ S[3] = "truncate" /\ S[4] = "currentversion"
    BY DEF Scripts
  <1> HIDE DEF S
  <1>2. \A i \in 1..4 : Successor(S, S[i]) = IF i = 4 THEN "answered" ELSE S[i + 1]
    <2> TAKE i \in 1..4
    <2>1. i \in DOMAIN S /\ \A j \in DOMAIN S : S[j] = S[i] => j = i
      BY <1>1
    <2> QED
      BY <2>1, <1>1, SuccessorIs
  <1>3. /\ Successor(S, "mkdir") = "curr" /\ Successor(S, "curr") = "truncate"
        /\ Successor(S, "truncate") = "currentversion"
        /\ Successor(S, "currentversion") = "answered"
    BY <1>1, <1>2
  <1> QED
    BY <1>3 DEF Following, S

\* The order of a rollback, after its loop.
LEMMA RollbackFollowing ==
    /\ Following("rollback", "untar") = IF TornWrites THEN "truncate" ELSE "currentversion"
    /\ Following("rollback", "truncate") = "currentversion"
    /\ Following("rollback", "currentversion") = "answered"
  <1> DEFINE S == Scripts["rollback"]
  <1>1. /\ DOMAIN S = 1..4 /\ Len(S) = 4
        /\ S[1] = "delete" /\ S[2] = "untar" /\ S[3] = "truncate" /\ S[4] = "currentversion"
    BY DEF Scripts
  <1> HIDE DEF S
  <1>2. \A i \in 1..4 : Successor(S, S[i]) = IF i = 4 THEN "answered" ELSE S[i + 1]
    <2> TAKE i \in 1..4
    <2>1. i \in DOMAIN S /\ \A j \in DOMAIN S : S[j] = S[i] => j = i
      BY <1>1
    <2> QED
      BY <2>1, <1>1, SuccessorIs
  <1>3. /\ Successor(S, "untar") = "truncate" /\ Successor(S, "truncate") = "currentversion"
        /\ Successor(S, "currentversion") = "answered"
    BY <1>1, <1>2
  <1> QED
    BY <1>3 DEF Following, S

\* A destroy has one step.
LEMMA DestroyFollowing == Following("destroy", "remove") = "answered"
  <1> DEFINE S == Scripts["destroy"]
  <1>1. DOMAIN S = 1..1 /\ Len(S) = 1 /\ S[1] = "remove"
    BY DEF Scripts
  <1> HIDE DEF S
  <1>2. 1 \in DOMAIN S /\ \A j \in DOMAIN S : S[j] = S[1] => j = 1
    BY <1>1
  <1>3. Successor(S, "remove") = "answered"
    BY <1>1, <1>2, SuccessorIs
  <1> QED
    BY <1>3 DEF Following, S

----------------------------------------------------------------------------
(* What a step does to a project's directory. *)

SetCur(d, x) == [d EXCEPT !.cur = x]
SetMan(d, x) == [d EXCEPT !.man = x]
SetFiles(d, x) == [d EXCEPT !.files = x]
SetVers(d, x) == [d EXCEPT !.vers = x]

\* A directory with one field replaced.
LEMMA ShapedFields ==
    ASSUME NEW d, Shaped(d), NEW x
    PROVE  /\ SetCur(d, x) = [dir |-> d.dir, cur |-> x, vers |-> d.vers,
                                      man |-> d.man, com |-> d.com, files |-> d.files]
           /\ SetMan(d, x) = [dir |-> d.dir, cur |-> d.cur, vers |-> d.vers,
                                      man |-> x, com |-> d.com, files |-> d.files]
           /\ SetFiles(d, x) = [dir |-> d.dir, cur |-> d.cur, vers |-> d.vers,
                                        man |-> d.man, com |-> d.com, files |-> x]
           /\ SetVers(d, x) = [dir |-> d.dir, cur |-> d.cur, vers |-> x,
                                       man |-> d.man, com |-> d.com, files |-> d.files]
  <1>1. d = [dir |-> d.dir, cur |-> d.cur, vers |-> d.vers,
             man |-> d.man, com |-> d.com, files |-> d.files]
    BY DEF Shaped
  <1> QED
    BY <1>1 DEF SetCur, SetMan, SetFiles, SetVers

\* A field other than vers is set.
LEMMA SetField ==
    ASSUME NEW d, Shaped(d), NEW x
    PROVE  /\ Shaped(SetCur(d, x))
           /\ SetCur(d, x).cur = x /\ SetCur(d, x).vers = d.vers
           /\ SetCur(d, x).man = d.man /\ SetCur(d, x).com = d.com
           /\ SetCur(d, x).dir = d.dir /\ SetCur(d, x).files = d.files
           /\ Shaped(SetMan(d, x))
           /\ SetMan(d, x).man = x /\ SetMan(d, x).vers = d.vers
           /\ SetMan(d, x).cur = d.cur /\ SetMan(d, x).com = d.com
           /\ SetMan(d, x).dir = d.dir /\ SetMan(d, x).files = d.files
           /\ Shaped(SetFiles(d, x))
           /\ SetFiles(d, x).man = d.man /\ SetFiles(d, x).vers = d.vers
           /\ SetFiles(d, x).cur = d.cur /\ SetFiles(d, x).com = d.com
           /\ SetFiles(d, x).dir = d.dir /\ SetFiles(d, x).files = x
  BY ShapedFields DEF Shaped

\* The versions are replaced.
LEMMA SetVersions ==
    ASSUME NEW d, Shaped(d), NEW f, Filed(f)
    PROVE  /\ Shaped(SetVers(d, f))
           /\ SetVers(d, f).vers = f /\ SetVers(d, f).cur = d.cur
           /\ SetVers(d, f).man = d.man /\ SetVers(d, f).com = d.com
           /\ SetVers(d, f).dir = d.dir /\ SetVers(d, f).files = d.files
  BY ShapedFields DEF Shaped

\* An archive is extracted into Curr.
LEMMA ExtractSets ==
    ASSUME NEW d, Shaped(d), NEW x
    PROVE  /\ Shaped(Extract(d, x))
           /\ Extract(d, x).vers = d.vers /\ Extract(d, x).cur = d.cur
           /\ Extract(d, x).dir = d.dir
           /\ x # NoFile => /\ Extract(d, x).man = x /\ Extract(d, x).com = x
                            /\ Extract(d, x).files = d.files \cup {x}
  <1>1. CASE x = NoFile
    BY <1>1 DEF Extract
  <1>2. CASE x # NoFile
    <2>1. d = [dir |-> d.dir, cur |-> d.cur, vers |-> d.vers,
               man |-> d.man, com |-> d.com, files |-> d.files]
      BY DEF Shaped
    <2>2. Extract(d, x) = [dir |-> d.dir, cur |-> d.cur, vers |-> d.vers,
                           man |-> x, com |-> x, files |-> d.files \cup {x}]
      BY <1>2, <2>1 DEF Extract
    <2> QED
      BY <1>2, <2>2 DEF Shaped
  <1> QED
    BY <1>1, <1>2

\* The directory of a version is made, if it is not there.
LEMMA MakeVersionSets ==
    ASSUME NEW d, Shaped(d), NEW v
    PROVE  /\ Shaped(MakeVersion(d, v))
           /\ MakeVersion(d, v).cur = d.cur /\ MakeVersion(d, v).dir = d.dir
           /\ DOMAIN MakeVersion(d, v).vers = DOMAIN d.vers \cup {v}
           /\ \A w \in DOMAIN d.vers : MakeVersion(d, v).vers[w] = d.vers[w]
  <1> DEFINE f == WithVersion(d.vers, v)
  <1>1. /\ DOMAIN f = DOMAIN d.vers \cup {v}
        /\ \A w \in DOMAIN d.vers : f[w] = d.vers[w]
        /\ v \notin DOMAIN d.vers => f[v] = NoVersion
        /\ f = [w \in DOMAIN f |-> f[w]]
    BY DEF WithVersion
  <1>2. NoVersion = [man |-> NoVersion.man, tar |-> NoVersion.tar, com |-> NoVersion.com]
    BY DEF NoVersion
  <1>3. MakeVersion(d, v) = SetVers(d, f)
    BY DEF MakeVersion, SetVers
  <1>4. \A w \in DOMAIN d.vers :
          d.vers[w] = [man |-> d.vers[w].man, tar |-> d.vers[w].tar, com |-> d.vers[w].com]
    BY DEF Shaped, Filed
  <1> HIDE DEF f
  <1>5. \A w \in DOMAIN f : f[w] = [man |-> f[w].man, tar |-> f[w].tar, com |-> f[w].com]
    <2> TAKE w \in DOMAIN f
    <2>1. CASE w \in DOMAIN d.vers
      BY <2>1, <1>1, <1>4
    <2>2. CASE w \notin DOMAIN d.vers
      BY <2>2, <1>1, <1>2
    <2> QED
      BY <2>1, <2>2
  <1>6. Filed(f)
    BY <1>1, <1>5 DEF Filed
  <1>7. /\ Shaped(SetVers(d, f))
        /\ SetVers(d, f).vers = f /\ SetVers(d, f).cur = d.cur
        /\ SetVers(d, f).man = d.man /\ SetVers(d, f).com = d.com
        /\ SetVers(d, f).dir = d.dir /\ SetVers(d, f).files = d.files
    BY <1>6, SetVersions
  <1> QED
    BY <1>1, <1>3, <1>7

\* A file is written into the directory of a version.
LEMMA PutFileSets ==
    ASSUME NEW d, Shaped(d), NEW v \in DOMAIN d.vers, NEW name \in {"man", "tar", "com"}, NEW x
    PROVE  /\ Shaped(PutFile(d, v, name, x))
           /\ PutFile(d, v, name, x).cur = d.cur
           /\ PutFile(d, v, name, x).com = d.com
           /\ PutFile(d, v, name, x).man = d.man
           /\ PutFile(d, v, name, x).dir = d.dir
           /\ PutFile(d, v, name, x).files = d.files
           /\ DOMAIN PutFile(d, v, name, x).vers = DOMAIN d.vers
           /\ \A w \in DOMAIN d.vers \ {v} : PutFile(d, v, name, x).vers[w] = d.vers[w]
           /\ PutFile(d, v, name, x).vers[v][name] = x
           /\ \A other \in {"man", "tar", "com"} \ {name} :
                 PutFile(d, v, name, x).vers[v][other] = d.vers[v][other]
  <1> DEFINE g == [d.vers[v] EXCEPT ![name] = x]
             f == [d.vers EXCEPT ![v] = g]
  <1>0. d.vers = [w \in DOMAIN d.vers |-> d.vers[w]]
    BY DEF Shaped, Filed
  <1>1. d.vers[v] = [man |-> d.vers[v].man, tar |-> d.vers[v].tar, com |-> d.vers[v].com]
    BY DEF Shaped, Filed
  <1>2. /\ g = [man |-> g.man, tar |-> g.tar, com |-> g.com]
        /\ g[name] = x
        /\ \A other \in {"man", "tar", "com"} \ {name} : g[other] = d.vers[v][other]
    BY <1>1
  <1>3. PutFile(d, v, name, x) = SetVers(d, f)
    <2>1. d = [dir |-> d.dir, cur |-> d.cur, vers |-> d.vers,
               man |-> d.man, com |-> d.com, files |-> d.files]
      BY DEF Shaped
    <2> QED
      BY <2>1 DEF PutFile, SetVers
  <1>4. \A w \in DOMAIN d.vers :
          d.vers[w] = [man |-> d.vers[w].man, tar |-> d.vers[w].tar, com |-> d.vers[w].com]
    BY DEF Shaped, Filed
  <1> HIDE DEF g
  <1>5. /\ DOMAIN f = DOMAIN d.vers /\ f[v] = g
        /\ \A w \in DOMAIN d.vers \ {v} : f[w] = d.vers[w]
        /\ f = [w \in DOMAIN f |-> f[w]]
    BY <1>0
  <1> HIDE DEF f
  <1>6. \A w \in DOMAIN f : f[w] = [man |-> f[w].man, tar |-> f[w].tar, com |-> f[w].com]
    BY <1>2, <1>4, <1>5
  <1>7. Filed(f)
    BY <1>5, <1>6 DEF Filed
  <1>8. /\ Shaped(SetVers(d, f))
        /\ SetVers(d, f).vers = f /\ SetVers(d, f).cur = d.cur
        /\ SetVers(d, f).man = d.man /\ SetVers(d, f).com = d.com
        /\ SetVers(d, f).dir = d.dir /\ SetVers(d, f).files = d.files
    BY <1>7, SetVersions
  <1> QED
    BY <1>2, <1>3, <1>5, <1>8

\* The directory of a version is removed.
LEMMA RemoveVersionSets ==
    ASSUME NEW d, Shaped(d), NEW v
    PROVE  /\ Shaped(RemoveVersion(d, v))
           /\ RemoveVersion(d, v).cur = d.cur /\ RemoveVersion(d, v).dir = d.dir
           /\ DOMAIN RemoveVersion(d, v).vers = DOMAIN d.vers \ {v}
           /\ \A w \in DOMAIN d.vers \ {v} : RemoveVersion(d, v).vers[w] = d.vers[w]
  <1> DEFINE f == [w \in DOMAIN d.vers \ {v} |-> d.vers[w]]
  <1>1. \A w \in DOMAIN f : f[w] = [man |-> f[w].man, tar |-> f[w].tar, com |-> f[w].com]
    BY DEF Shaped, Filed
  <1>2. /\ DOMAIN f = DOMAIN d.vers \ {v} /\ \A w \in DOMAIN f : f[w] = d.vers[w]
        /\ f = [w \in DOMAIN f |-> f[w]]
    OBVIOUS
  <1>3. RemoveVersion(d, v) = SetVers(d, f)
    BY DEF RemoveVersion, SetVers
  <1> HIDE DEF f
  <1>4. Filed(f)
    BY <1>1, <1>2 DEF Filed
  <1>5. /\ Shaped(SetVers(d, f))
        /\ SetVers(d, f).vers = f /\ SetVers(d, f).cur = d.cur
        /\ SetVers(d, f).man = d.man /\ SetVers(d, f).com = d.com
        /\ SetVers(d, f).dir = d.dir /\ SetVers(d, f).files = d.files
    BY <1>4, SetVersions
  <1> QED
    BY <1>2, <1>3, <1>5

\* Versions that the two directories have alike are whole in both.
LEMMA WholeAlike ==
    ASSUME NEW d, NEW e, NEW n \in Int, WholeTo(d, n),
           \A v \in (DOMAIN e.vers) \cap (1..n) : v \in DOMAIN d.vers /\ e.vers[v] = d.vers[v]
    PROVE  WholeTo(e, n)
  BY DEF WholeTo, Whole

\* A version that holds one push's content throughout.
LEMMA WholeVersion ==
    ASSUME NEW d, Shaped(d), NEW v \in DOMAIN d.vers, NEW x,
           d.vers[v].man = x, d.vers[v].tar = x, d.vers[v].com = x
    PROVE  d.vers[v] = VersionOf(x)
  <1> DEFINE f == [name \in {"man", "tar", "com"} |-> x]
  <1>1. d.vers[v] = [man |-> x, tar |-> x, com |-> x]
    BY DEF Shaped, Filed
  <1>2. f = [man |-> x, tar |-> x, com |-> x]
    OBVIOUS
  <1> QED
    BY <1>1, <1>2 DEF VersionOf

----------------------------------------------------------------------------
(* The scripts on a directory. *)

\* A push: the step and the state it leaves for the next one.
LEMMA PushMoves ==
    ASSUME NEW d, Shaped(d), NEW new \in Int, NEW id \in Ids,
           NEW stage \in Steps("push"), PushAt(d, stage, new, Content(new, id)),
           NEW e, e = PushStep(d, stage, new, Content(new, id)),
           NEW next, next = Following("push", stage)
    PROVE  /\ Shaped(e)
           /\ stage # "currentversion" =>
                 next \in Steps("push") /\ PushAt(e, next, new, Content(new, id))
           /\ stage \notin {"truncate", "currentversion"} => e.cur = d.cur
           /\ next = "truncate" => TornWrites
           /\ stage = "truncate" => e.cur = Truncated /\ next = "currentversion"
           /\ stage = "currentversion" =>
                 next = "answered" /\ Pushed(e, Content(new, id)) /\ WholeTo(e, new)
  <1> DEFINE x == Content(new, id)
  <1>0. /\ WholeTo(d, new - 1) /\ x # NoFile /\ Truncated \notin Int
    BY MarksAssumption DEF PushAt, Content
  <1> USE PushFollowing, ScriptSteps DEF PushAt
  <1> HIDE DEF x
  <1>1. CASE stage = "mkdir"
    <2>1. e = MakeVersion(d, new) /\ next = "manifest"
      BY <1>1 DEF PushStep
    <2>2. WholeTo(e, new - 1)
      BY <1>0, <2>1, MakeVersionSets, WholeAlike
    <2> QED
      BY <1>1, <2>1, <2>2, MakeVersionSets
  <1>2. CASE stage = "manifest"
    <2>1. e = PutFile(d, new, "man", x) /\ next = "tar"
      BY <1>2 DEF PushStep, x
    <2>2. WholeTo(e, new - 1)
      BY <1>0, <1>2, <2>1, PutFileSets, WholeAlike
    <2> QED
      BY <1>2, <2>1, <2>2, PutFileSets DEF x
  <1>3. CASE stage = "tar"
    <2>1. e = PutFile(d, new, "tar", x) /\ next = "clear"
      BY <1>3 DEF PushStep, x
    <2>2. WholeTo(e, new - 1)
      BY <1>0, <1>3, <2>1, PutFileSets, WholeAlike
    <2> QED
      BY <1>3, <2>1, <2>2, PutFileSets DEF x
  <1>4. CASE stage = "clear"
    <2>1. e = SetFiles(d, {}) /\ next = "untar"
      BY <1>4 DEF PushStep, SetFiles
    <2>2. WholeTo(e, new - 1)
      BY <1>0, <2>1, SetField, WholeAlike
    <2> QED
      BY <1>4, <2>1, <2>2, SetField
  <1>5. CASE stage = "untar"
    <2>1. e = Extract(d, x) /\ next = "copycommit"
      BY <1>5 DEF PushStep, FileOf, x
    <2>2. WholeTo(e, new - 1)
      BY <1>0, <2>1, ExtractSets, WholeAlike
    <2> QED
      BY <1>0, <1>5, <2>1, <2>2, ExtractSets DEF x
  <1>6. CASE stage = "copycommit"
    <2>1. e = PutFile(d, new, "com", x) /\ next = "copymanifest"
      BY <1>6 DEF PushStep, x
    <2>2. WholeTo(e, new - 1)
      BY <1>0, <1>6, <2>1, PutFileSets, WholeAlike
    <2> QED
      BY <1>6, <2>1, <2>2, PutFileSets DEF x
  <1>7. CASE stage = "copymanifest"
    <2>1. e = SetMan(d, x) /\ next = IF TornWrites THEN "truncate" ELSE "currentversion"
      BY <1>7 DEF PushStep, FileOf, SetMan, x
    <2>2. WholeTo(e, new - 1)
      BY <1>0, <2>1, SetField, WholeAlike
    <2> QED
      BY <1>7, <2>1, <2>2, SetField DEF x
  <1>8. CASE stage = "truncate"
    <2>1. e = SetCur(d, Truncated) /\ next = "currentversion"
      BY <1>8 DEF PushStep, SetCur
    <2>2. WholeTo(e, new - 1)
      BY <1>0, <2>1, SetField, WholeAlike
    <2> QED
      BY <1>0, <1>8, <2>1, <2>2, SetField
  <1>9. CASE stage = "currentversion"
    <2>1. e = SetCur(d, new) /\ next = "answered"
      BY <1>9 DEF PushStep, SetCur
    <2>2. /\ Shaped(e) /\ e.cur = new /\ e.vers = d.vers
          /\ e.man = x /\ e.com = x /\ e.files = {x}
          /\ new \in DOMAIN e.vers
          /\ e.vers[new].man = x /\ e.vers[new].tar = x /\ e.vers[new].com = x
      BY <1>9, <2>1, SetField DEF x
    <2>3. e.vers[new] = VersionOf(x) /\ Whole(e, new)
      BY <2>2, WholeVersion DEF x, Whole
    <2>4. WholeTo(e, new)
      <3> SUFFICES ASSUME NEW v \in (DOMAIN e.vers) \cap (1..new), v # new
                   PROVE  Whole(e, v)
        BY <2>3 DEF WholeTo
      <3>1. v \in (DOMAIN d.vers) \cap (1..(new - 1)) /\ e.vers[v] = d.vers[v]
        BY <2>2
      <3>2. Whole(d, v)
        BY <1>0, <3>1 DEF WholeTo
      <3> QED
        BY <3>1, <3>2 DEF Whole
    <2>5. x.ver = new
      BY DEF x, Content
    <2> QED
      BY <1>9, <2>1, <2>2, <2>3, <2>4, <2>5 DEF Pushed, x
  <1> QED
    BY <1>1, <1>2, <1>3, <1>4, <1>5, <1>6, <1>7, <1>8, <1>9

\* The directories of a project before, during and after its creation.
LEMMA FirstDirs ==
    /\ Absent = [dir |-> FALSE, cur |-> NoFile, vers |-> << >>,
                 man |-> NoFile, com |-> NoFile, files |-> {}]
    /\ Fresh = [dir |-> TRUE, cur |-> NoFile, vers |-> << >>,
                man |-> NoFile, com |-> NoFile, files |-> {}]
    /\ Created = [dir |-> TRUE, cur |-> 0, vers |-> << >>,
                  man |-> Initial, com |-> NoFile, files |-> {}]
  <1>1. Absent = [dir |-> FALSE, cur |-> NoFile, vers |-> << >>,
                  man |-> NoFile, com |-> NoFile, files |-> {}]
    BY DEF Absent
  <1> DEFINE a == Absent
             b == Fresh
  <1>2. b = [dir |-> TRUE, cur |-> NoFile, vers |-> << >>,
             man |-> NoFile, com |-> NoFile, files |-> {}]
    <2>1. b = [a EXCEPT !.dir = TRUE]
      BY DEF Fresh
    <2> HIDE DEF b
    <2> QED
      BY <1>1, <2>1
  <1>3. Created = [dir |-> TRUE, cur |-> 0, vers |-> << >>,
                   man |-> Initial, com |-> NoFile, files |-> {}]
    <2>1. Created = [b EXCEPT !.man = Initial, !.cur = 0]
      BY DEF Created
    <2> HIDE DEF b
    <2> QED
      BY <1>2, <2>1
  <1> QED
    BY <1>1, <1>2, <1>3

\* A create.
LEMMA CreateMoves ==
    ASSUME NEW d, NEW stage \in Steps("create"),
           stage # "mkdir" => Shaped(d), CreateAt(d, stage),
           NEW e, e = CreateStep(d, stage),
           NEW next, next = Following("create", stage)
    PROVE  /\ Shaped(e) /\ \A n \in Int : WholeTo(e, n)
           /\ stage # "currentversion" => next \in Steps("create") /\ CreateAt(e, next)
           /\ stage = "mkdir" => e.cur = NoFile
           /\ stage = "curr" => e.cur = d.cur
           /\ next = "truncate" => TornWrites
           /\ stage = "truncate" => e.cur = Truncated /\ next = "currentversion"
           /\ stage = "currentversion" => next = "answered" /\ e.cur = 0 /\ e = Created
  <1> USE CreateFollowing, ScriptSteps DEF CreateAt
  <1>0. /\ Filed(<< >>)
        /\ \A f : Shaped(f) /\ f.vers = << >> => \A n \in Int : WholeTo(f, n)
    BY DEF Filed, WholeTo
  <1>1. CASE stage = "mkdir"
    <2>1. e = [dir |-> TRUE, cur |-> NoFile, vers |-> << >>,
               man |-> NoFile, com |-> NoFile, files |-> {}] /\ next = "curr"
      BY <1>1, FirstDirs DEF CreateStep
    <2>2. Shaped(e)
      BY <1>0, <2>1 DEF Shaped
    <2> QED
      BY <1>0, <1>1, <2>1, <2>2
  <1>2. CASE stage = "curr"
    <2>1. e = SetMan(d, Initial) /\ next = IF TornWrites THEN "truncate" ELSE "currentversion"
      BY <1>2 DEF CreateStep, SetMan
    <2> QED
      BY <1>0, <1>2, <2>1, SetField
  <1>3. CASE stage = "truncate"
    <2>1. e = SetCur(d, Truncated) /\ next = "currentversion"
      BY <1>3 DEF CreateStep, SetCur
    <2> QED
      BY <1>0, <1>3, <2>1, SetField
  <1>4. CASE stage = "currentversion"
    <2>1. e = SetCur(d, 0) /\ next = "answered"
      BY <1>4 DEF CreateStep, SetCur
    <2>2. e = [dir |-> TRUE, cur |-> 0, vers |-> << >>,
               man |-> Initial, com |-> NoFile, files |-> {}]
      BY <1>4, <2>1, ShapedFields
    <2>3. e = Created
      BY <2>2, FirstDirs
    <2> QED
      BY <1>0, <1>4, <2>1, <2>3, SetField
  <1> QED
    BY <1>1, <1>2, <1>3, <1>4

\* A rollback to old, whose buffer was read as it was sent.
LEMMA RollbackMoves ==
    ASSUME NEW d, Shaped(d), NEW old \in Int, NEW latestOne, WholeTo(d, old),
           NEW stage \in Steps("rollback"),
           NEW e, e = RollbackStep(d, stage, latestOne, old, old),
           NEW next, next = Following("rollback", stage)
    PROVE  /\ Shaped(e) /\ WholeTo(e, old)
           /\ stage \in {"delete", "untar"} =>
                 e.cur = d.cur /\ \A n \in Int : WholeTo(d, n) => WholeTo(e, n)
           /\ stage = "untar" =>
                 next \in {"truncate", "currentversion"} /\ (next = "truncate" => TornWrites)
           /\ stage = "truncate" => e.cur = Truncated /\ next = "currentversion"
           /\ stage = "currentversion" => next = "answered" /\ e.cur = old
  <1> USE RollbackFollowing, ScriptSteps
  <1>1. CASE stage = "delete"
    <2>1. e = RemoveVersion(d, latestOne)
      BY <1>1 DEF RollbackStep
    <2>2. Shaped(e) /\ e.cur = d.cur /\ \A n \in Int : WholeTo(d, n) => WholeTo(e, n)
      BY <2>1, RemoveVersionSets, WholeAlike
    <2> QED
      BY <1>1, <2>2
  <1>2. CASE stage = "untar"
    <2>1. e = Extract(d, FileOf(d, old, "tar")) /\ next = Following("rollback", "untar")
      BY <1>2 DEF RollbackStep
    <2>2. Shaped(e) /\ e.cur = d.cur /\ \A n \in Int : WholeTo(d, n) => WholeTo(e, n)
      BY <2>1, ExtractSets, WholeAlike
    <2> QED
      BY <1>2, <2>1, <2>2
  <1>3. CASE stage = "truncate"
    <2>1. e = SetCur(d, Truncated) /\ next = "currentversion"
      BY <1>3 DEF RollbackStep, SetCur
    <2> QED
      BY <1>3, <2>1, SetField, WholeAlike
  <1>4. CASE stage = "currentversion"
    <2>1. e = SetCur(d, old) /\ next = "answered"
      BY <1>4 DEF RollbackStep, SetCur
    <2> QED
      BY <1>4, <2>1, SetField, WholeAlike
  <1> QED
    BY <1>1, <1>2, <1>3, <1>4

----------------------------------------------------------------------------
(* The exclusion of requests for one project. *)

\* Every name is in the table, and every request came when its project's was.
AllSettled ==
    /\ \A p \in Projects : Exact(p) \in DOMAIN table
    /\ \A t \in Threads : pc[t] # "idle" => settled[t]

\* It is so at first.
LEMMA AllSettledInit ==
    ASSUME Warm = Projects, Init
    PROVE  AllSettled
  <1> PICK r \in Requests : LockInit(r, 1)
    BY DEF Init
  <1>1. DOMAIN table = {Exact(p) : p \in Projects}
    BY DEF LockInit, WarmTables
  <1>2. \A t \in Threads : pc[t] = "idle"
    BY DEF LockInit
  <1> QED
    BY <1>1, <1>2 DEF AllSettled

\* It stays so without restarts: nothing leaves the table.
LEMMA AllSettledStep ==
    ASSUME MaxRestarts = 0, TypeOK, AllSettled, [Next]_lockVars
    PROVE  AllSettled'
  <1>1. CASE UNCHANGED lockVars
    BY <1>1 DEF lockVars, AllSettled
  <1>2. ASSUME NEW t \in Threads, NEW r \in Requests, Receive(t, r)
        PROVE  AllSettled'
    <2>1. r.proj \in Projects
      BY RequestFacts
    <2> QED
      BY <1>2, <2>1 DEF Receive, AllSettled, TypeOK
  <1>3. ASSUME NEW t \in Threads, Lookup(t)
        PROVE  AllSettled'
    <2>1. DOMAIN table \subseteq DOMAIN table'
      BY <1>3, EnteredFacts DEF Lookup
    <2>2. \A u \in Threads : pc'[u] # "idle" => pc[u] # "idle"
      BY <1>3 DEF Lookup, TypeOK
    <2> QED
      BY <1>3, <2>1, <2>2 DEF Lookup, AllSettled
  <1>4. ASSUME NEW t \in Threads, Request(t) \/ Acquire(t) \/ Release(t)
        PROVE  AllSettled'
    BY <1>4 DEF Request, Acquire, Release, AllSettled, TypeOK
  <1>5. ~Restart
    BY DEF Restart, TypeOK
  <1> QED
    BY <1>1, <1>2, <1>3, <1>4, <1>5 DEF Next, LockStep

\* Two requests for one project never run together if one of them writes
\* (server/ds.c:23-56).
THEOREM Exclusion ==
    ASSUME Stated
    PROVE  Spec => []ProjectExclusion
  <1>1. CASE Warm = Projects /\ MaxRestarts = 0
    <2>1. Init => AllSettled
      BY <1>1, AllSettledInit
    <2>2. TypeOK /\ AllSettled /\ [Next]_lockVars => AllSettled'
      BY <1>1, AllSettledStep
    <2>3. AllSettled /\ SettledExclusion => ProjectExclusion
      BY DEF AllSettled, SettledExclusion, ProjectExclusion, Inside
    <2> QED
      BY <2>1, <2>2, <2>3, TypeCorrect, SettledRequestsExclude, PTL DEF Spec
  <1>2. CASE \A t, u \in Threads : t = u
    <2>1. ProjectExclusion
      BY <1>2 DEF ProjectExclusion
    <2> QED
      BY <2>1, PTL
  <1> QED
    BY <1>1, <1>2 DEF Stated

\* A writer inside its handler is alone with its project.
LEMMA Alone ==
    ASSUME StorageInv, ProjectExclusion,
           NEW t \in Threads, NEW u \in Threads, t # u,
           pc[t] = "crit", pc[u] = "crit", call[t].op \in Writers
    PROVE  call[u].proj # call[t].proj
  BY DEF StorageInv, Serving, ProjectExclusion, Inside, Mode

\* No handler reads an empty Currentversion, or changes another file meanwhile.
LEMMA NotTruncated ==
    ASSUME StorageInv, ProjectExclusion, NEW t \in Threads, pc[t] = "crit",
           at[t] # "currentversion"
    PROVE  Dir(t).cur # Truncated
  <1> SUFFICES ASSUME Dir(t).cur = Truncated PROVE FALSE
    OBVIOUS
  <1>1. call[t].proj \in Projects
    BY DEF StorageInv, Serving, Calls
  <1>2. PICK u \in Threads : /\ pc[u] = "crit" /\ at[u] = "currentversion"
                            /\ call[u].proj = call[t].proj /\ call[u].op \in Writers
    BY <1>1 DEF StorageInv, DirOK, Dir, Writing
  <1> QED
    BY <1>2, Alone

----------------------------------------------------------------------------
(* The steps. *)

\* Only t's locals and the directory of its project change; its handler may
\* change the directory only if it writes.
Touches(t) ==
    /\ UNCHANGED <<pc, req, call>>
    /\ DOMAIN disk' = Projects /\ DOMAIN at' = Threads /\ DOMAIN latest' = Threads
    /\ DOMAIN target' = Threads /\ DOMAIN answer' = Threads
    /\ \A p \in Projects : p # call[t].proj => disk'[p] = disk[p]
    /\ \A u \in Threads : u # t =>
          /\ at'[u] = at[u] /\ latest'[u] = latest[u] /\ target'[u] = target[u]
          /\ answer'[u] = answer[u]

\* The other handlers see no change.
LEMMA OthersSee ==
    ASSUME StorageInv, ProjectExclusion, NEW t \in Threads, pc[t] = "crit", Touches(t),
           disk'[call[t].proj] # Dir(t) => call[t].op \in Writers,
           NEW u \in Threads, u # t, pc[u] = "crit"
    PROVE  Dir(u)' = Dir(u)
  <1>0. call[u].proj \in Projects /\ UNCHANGED call
    BY DEF StorageInv, Serving, Calls, Touches
  <1>1. CASE call[u].proj = call[t].proj
    <2>1. disk'[call[t].proj] = Dir(t)
      BY <1>1, Alone
    <2> QED
      BY <1>0, <1>1, <2>1 DEF Dir
  <1>2. CASE call[u].proj # call[t].proj
    BY <1>0, <1>2 DEF Touches, Dir
  <1> QED
    BY <1>1, <1>2

\* A step inside a handler keeps the invariant if it keeps it for its project.
LEMMA InsideStep ==
    ASSUME StorageInv, ProjectExclusion, NEW t \in Threads, pc[t] = "crit", Touches(t),
           NEW e, disk'[call[t].proj] = e,
           e # Dir(t) => call[t].op \in Writers,
           Shaped(e), e.cur \in Int \cup {NoFile, Truncated},
           e.cur \in Int => WholeTo(e, e.cur),
           e.cur = Truncated =>
              TornWrites /\ at'[t] = "currentversion" /\ call[t].op \in Writers,
           Progress(e, call[t], at'[t], latest'[t], target'[t], answer'[t].code)
    PROVE  StorageInv'
  <1>0. call[t].proj \in Projects
    BY DEF StorageInv, Serving, Calls
  <1>1. Domains'
    BY DEF StorageInv, Domains, Touches
  <1>2. ASSUME NEW p \in Projects
        PROVE  DirOK(p)'
    <2>1. CASE p = call[t].proj
      <3>1. disk'[p] = e
        BY <2>1
      <3>2. e.cur = Truncated => Writing(p)'
        BY <2>1 DEF Writing, Touches
      <3> QED
        BY <3>1, <3>2 DEF DirOK
    <2>2. CASE p # call[t].proj
      <3>1. disk'[p] = disk[p]
        BY <2>2 DEF Touches
      <3>2. Writing(p) => Writing(p)'
        BY <2>2 DEF Writing, Touches
      <3>3. DirOK(p)
        BY DEF StorageInv
      <3> QED
        BY <3>1, <3>2, <3>3 DEF DirOK
    <2> QED
      BY <2>1, <2>2
  <1>3. ASSUME NEW u \in Threads
        PROVE  Serving(u)'
    <2>0. Serving(u) /\ UNCHANGED <<pc, req, call>>
      BY DEF StorageInv, Touches
    <2>1. CASE u = t
      <3>1. Dir(u)' = e
        BY <2>1, <2>0 DEF Dir
      <3> QED
        BY <2>0, <2>1, <3>1 DEF Serving
    <2>2. CASE u # t
      <3>1. /\ at'[u] = at[u] /\ latest'[u] = latest[u] /\ target'[u] = target[u]
            /\ answer'[u] = answer[u]
        BY <2>2 DEF Touches
      <3>2. pc[u] = "crit" => Dir(u)' = Dir(u)
        BY <2>2, OthersSee
      <3> QED
        BY <2>0, <3>1, <3>2 DEF Serving
    <2> QED
      BY <2>1, <2>2
  <1> QED
    BY <1>1, <1>2, <1>3 DEF StorageInv

\* What holds of the project of a handler that is not about to write Currentversion.
LEMMA DirHere ==
    ASSUME StorageInv, ProjectExclusion, NEW t \in Threads, pc[t] = "crit"
    PROVE  /\ call[t] \in Calls /\ call[t].proj \in Projects
           /\ Shaped(Dir(t)) /\ Dir(t).cur \in Int \cup {NoFile, Truncated}
           /\ Dir(t).cur \in Int => WholeTo(Dir(t), Dir(t).cur)
           /\ at[t] # "currentversion" => Dir(t).cur # Truncated
           /\ Dir(t).cur = Truncated => TornWrites
           /\ Progress(Dir(t), call[t], at[t], latest[t], target[t], answer[t].code)
  <1>1. call[t] \in Calls /\ call[t].proj \in Projects
    BY DEF StorageInv, Serving, Calls
  <1> QED
    BY <1>1, NotTruncated DEF StorageInv, DirOK, Dir, Serving

\* Requests carry numbers.
LEMMA ArgNumbers ==
    ASSUME NEW c \in Calls
    PROVE  c.arg \in Int
  <1>1. c.arg \in {0} \/ c.arg \in Args \/ c.arg \in 1..MaxVersion
    BY DEF Calls
  <1>2. Args \subseteq Int /\ MaxVersion \in Nat
    BY ArgsAssumption
  <1>3. {0} \subseteq Int /\ 1..MaxVersion \subseteq Int
    BY <1>2
  <1> QED
    BY <1>1, <1>2, <1>3, Zenon

\* The steps inside the handlers, one after another.
LEMMA ExistsKeeps ==
    ASSUME StorageInv, ProjectExclusion, NEW t \in Threads, Exists(t)
    PROVE  StorageInv'
  <1> DEFINE d == Dir(t)
             c == call[t]
  <1>0. /\ pc[t] = "crit" /\ at[t] = "exists" /\ UNCHANGED <<lockVars, call, disk, latest, target>>
    BY DEF Exists, Inner
  <1>1. Touches(t)
    BY <1>0 DEF Exists, Touches, lockVars, Respond, Goto, StorageInv, Domains
  <1>2. /\ c \in Calls /\ c.proj \in Projects /\ Shaped(d)
        /\ d.cur \in Int \cup {NoFile, Truncated}
        /\ d.cur \in Int => WholeTo(d, d.cur)
        /\ d.cur # Truncated /\ answer[t].code = -1
    BY <1>0, DirHere DEF Progress
  <1>3. Progress(d, c, at'[t], latest'[t], target'[t], answer'[t].code)
    <2>1. CASE at'[t] = "answered" /\ answer'[t].code \in {1, 999, 901}
      BY <2>1, ScriptSteps DEF Progress, Kept
    <2>2. CASE c.op = "create" /\ at'[t] = "mkdir" /\ answer'[t].code = -1
      BY <2>2, ScriptSteps DEF Progress, CreateAt
    <2>3. CASE c.op = "destroy" /\ at'[t] = "remove" /\ answer'[t].code = -1
      BY <2>3, ScriptSteps DEF Progress
    <2>4. CASE c.op \in {"update", "commit"} /\ at'[t] = "read" /\ answer'[t].code = -1
      BY <2>4, ScriptSteps DEF Progress
    <2>5. CASE /\ c.op \in {"history", "currentversion", "checkout", "upgrade", "rollback", "push"}
               /\ ~(c.op = "push" /\ c.id = NoId)
               /\ at'[t] = "version" /\ answer'[t].code = -1
      <3>1. c.op = "push" => c.id \in Ids
        BY <1>2, <2>5 DEF Calls
      <3> QED
        BY <2>5, <3>1, ScriptSteps DEF Progress
    <2> QED
      BY <1>0, <1>2, <2>1, <2>2, <2>3, <2>4, <2>5
         DEF Exists, Respond, Response, Goto, StorageInv, Domains
  <1> QED
    BY <1>0, <1>1, <1>2, <1>3, InsideStep DEF Dir

LEMMA ReadVersionKeeps ==
    ASSUME Stated, StorageInv, ProjectExclusion, NEW t \in Threads, ReadVersion(t)
    PROVE  StorageInv'
  <1> DEFINE d == Dir(t)
             c == call[t]
  <1>0. pc[t] = "crit" /\ at[t] = "version" /\ UNCHANGED <<lockVars, call, disk>>
    BY DEF ReadVersion, Inner
  <1>1. Touches(t)
    BY <1>0 DEF ReadVersion, Touches, lockVars, Respond, Goto, End, StorageInv, Domains
  <1>2. /\ c \in Calls /\ c.proj \in Projects /\ Shaped(d)
        /\ d.cur \in Int \cup {NoFile, Truncated}
        /\ d.cur \in Int => WholeTo(d, d.cur)
        /\ d.cur # Truncated /\ answer[t].code = -1
        /\ Progress(d, c, "version", latest[t], target[t], -1)
    BY <1>0, DirHere DEF Progress
  <1>3. Progress(d, c, at'[t], latest'[t], target'[t], answer'[t].code)
    <2>1. CASE d.cur = NoFile
      BY <1>0, <1>2, <2>1 DEF ReadVersion, End
    <2>2. CASE d.cur # NoFile
      <3>1. d.cur \in Int /\ VersionsRead(d) = {d.cur} /\ Parsed(c.arg) = {c.arg}
        BY <1>2, <2>2 DEF VersionsRead, Parsed, Stated
      <3>2. /\ latest'[t] = d.cur
            /\ c.op = "rollback" => target'[t] = c.arg
            /\ \/ c.op = "push" /\ c.arg # d.cur + 1 /\ Respond(t, 902, << >>)
               \/ c.op = "push" /\ c.arg = d.cur + 1 /\ Goto(t, "mkdir")
               \/ c.op = "rollback" /\ Respond(t, 401, << >>)
               \/ c.op = "rollback" /\ c.arg = d.cur /\ Respond(t, 400, << >>)
               \/ c.op = "rollback" /\ c.arg < d.cur /\ Goto(t, "delete")
               \/ c.op \notin {"push", "rollback"} /\ Goto(t, "read")
        BY <2>2, <3>1 DEF ReadVersion, StorageInv, Domains
      <3>3. CASE at'[t] = "answered" /\ answer'[t].code \in {902, 401}
        BY <3>3, ScriptSteps DEF Progress, Kept
      <3>4. CASE /\ c.op = "push" /\ c.arg = d.cur + 1
                 /\ at'[t] = "mkdir" /\ answer'[t].code = -1
        BY <1>2, <3>1, <3>2, <3>4, ScriptSteps DEF Progress, PushAt
      <3>5. CASE /\ c.op = "rollback" /\ c.arg = d.cur
                 /\ at'[t] = "answered" /\ answer'[t].code = 400
        BY <3>5, ScriptSteps DEF Progress, Kept
      <3>6. CASE /\ c.op = "rollback" /\ c.arg < d.cur
                 /\ at'[t] = "delete" /\ answer'[t].code = -1
        <4>1. c.arg \in Int
          BY <1>2, ArgNumbers
        <4>2. WholeTo(d, c.arg)
          BY <1>2, <3>1, <3>6, <4>1 DEF WholeTo
        <4> QED
          BY <3>2, <3>6, <4>2, ScriptSteps DEF Progress
      <3>7. CASE /\ c.op \notin {"push", "rollback"}
                 /\ at'[t] = "read" /\ answer'[t].code = -1
        BY <1>2, <3>7, ScriptSteps DEF Progress
      <3> QED
        BY <1>2, <3>2, <3>3, <3>4, <3>5, <3>6, <3>7
           DEF Respond, Response, Goto, StorageInv, Domains
    <2> QED
      BY <2>1, <2>2
  <1> QED
    BY <1>0, <1>1, <1>2, <1>3, InsideStep DEF Dir

LEMMA ReadKeeps ==
    ASSUME StorageInv, ProjectExclusion, NEW t \in Threads, Read(t)
    PROVE  StorageInv'
  <1> DEFINE d == Dir(t)
             c == call[t]
  <1>0. pc[t] = "crit" /\ at[t] = "read" /\ UNCHANGED <<lockVars, call, disk, latest, target>>
    BY DEF Read, Inner
  <1>1. /\ c \in Calls /\ c.proj \in Projects /\ Shaped(d)
        /\ d.cur \in Int \cup {NoFile, Truncated}
        /\ d.cur \in Int => WholeTo(d, d.cur)
        /\ d.cur # Truncated /\ answer[t].code = -1
        /\ c.op \in {"history", "currentversion", "checkout", "update", "upgrade", "commit"}
        /\ Progress(d, c, "read", latest[t], target[t], -1)
    BY <1>0, DirHere DEF Progress
  <1>2. \/ UNCHANGED <<at, answer>>
        \/ \E code \in {101, 100, 201, 200, 502, 501, 500, 601, 600, 702, 701, 700, 800} :
           \E val : Respond(t, code, val)
    <2>1. CASE c.op = "history"
      BY <2>1 DEF Read, History, Currentversion, Checkout, Update, Upgrade, Commit,
                  SendFiles, Decline, End
    <2>2. CASE c.op = "currentversion"
      BY <2>2 DEF Read, History, Currentversion, Checkout, Update, Upgrade, Commit,
                  SendFiles, Decline, End
    <2>3. CASE c.op = "checkout"
      BY <2>3 DEF Read, History, Currentversion, Checkout, Update, Upgrade, Commit,
                  SendFiles, Decline, End
    <2>4. CASE c.op = "update"
      BY <2>4 DEF Read, History, Currentversion, Checkout, Update, Upgrade, Commit,
                  SendFiles, Decline, End
    <2>5. CASE c.op = "upgrade"
      BY <2>5 DEF Read, History, Currentversion, Checkout, Update, Upgrade, Commit,
                  SendFiles, Decline, End
    <2>6. CASE c.op = "commit"
      BY <2>6 DEF Read, History, Currentversion, Checkout, Update, Upgrade, Commit,
                  SendFiles, Decline, End
    <2> QED
      BY <1>1, <2>1, <2>2, <2>3, <2>4, <2>5, <2>6
  <1>3. Touches(t)
    BY <1>0, <1>2 DEF Touches, lockVars, Respond, StorageInv, Domains
  <1>4. Progress(d, c, at'[t], latest'[t], target'[t], answer'[t].code)
    <2>1. CASE UNCHANGED <<at, answer>>
      BY <1>0, <1>1, <2>1
    <2>2. CASE /\ at'[t] = "answered"
               /\ answer'[t].code \in {101, 100, 201, 200, 502, 501, 500, 601, 600, 702, 701, 700, 800}
      BY <2>2, ScriptSteps DEF Progress, Kept
    <2> QED
      BY <1>2, <2>1, <2>2 DEF Respond, Response, StorageInv, Domains
  <1> QED
    BY <1>0, <1>1, <1>3, <1>4, InsideStep DEF Dir

\* The handler goes on to the next step of its script, or answers.
LEMMA Proceeding ==
    ASSUME StorageInv, NEW t \in Threads, NEW stage, Proceed(t, stage),
           NEW next, next = Following(call[t].op, stage)
    PROVE  /\ DOMAIN at' = Threads /\ DOMAIN answer' = Threads
           /\ \A u \in Threads : u # t => at'[u] = at[u] /\ answer'[u] = answer[u]
           /\ at'[t] = next
           /\ next # "answered" => answer'[t] = answer[t]
           /\ next = "answered" => answer'[t].code = Success[call[t].op]
  BY DEF Proceed, Succeed, Goto, Respond, Response, StorageInv, Domains

\* The directory of the project is the only one to change.
LEMMA Changing ==
    ASSUME StorageInv, NEW t \in Threads, call[t].proj \in Projects, NEW e, Change(t, e)
    PROVE  /\ DOMAIN disk' = Projects /\ disk'[call[t].proj] = e
           /\ \A p \in Projects : p # call[t].proj => disk'[p] = disk[p]
  BY DEF Change, StorageInv, Domains

LEMMA CreateKeeps ==
    ASSUME StorageInv, ProjectExclusion,
           NEW t \in Threads, NEW stage \in Steps("create"), Create(t, stage)
    PROVE  StorageInv'
  <1> DEFINE d == Dir(t)
             c == call[t]
             e == CreateStep(d, stage)
             next == Following("create", stage)
  <1>0. /\ pc[t] = "crit" /\ at[t] = stage /\ c.op = "create"
        /\ UNCHANGED <<lockVars, call, latest, target>>
        /\ Change(t, e) /\ Proceed(t, stage)
    BY DEF Create, Inner
  <1>1. stage # "answered"
    BY ScriptSteps
  <1>2. /\ c \in Calls /\ c.proj \in Projects /\ Shaped(d)
        /\ d.cur \in Int \cup {NoFile, Truncated}
        /\ stage # "currentversion" => d.cur # Truncated
        /\ d.cur = Truncated => TornWrites
        /\ answer[t].code = -1 /\ CreateAt(d, stage) /\ (stage = "truncate" => TornWrites)
    BY <1>0, <1>1, DirHere DEF Progress
  <1>3. /\ DOMAIN at' = Threads /\ DOMAIN answer' = Threads
        /\ \A u \in Threads : u # t => at'[u] = at[u] /\ answer'[u] = answer[u]
        /\ at'[t] = next
        /\ next # "answered" => answer'[t] = answer[t]
        /\ next = "answered" => answer'[t].code = 0
    BY <1>0, Proceeding DEF Success
  <1> HIDE DEF e, next, d, c
  <1>4. /\ DOMAIN disk' = Projects /\ disk'[c.proj] = e
        /\ \A p \in Projects : p # c.proj => disk'[p] = disk[p]
    BY <1>0, <1>2, Changing DEF c
  <1>5. Touches(t)
    BY <1>0, <1>3, <1>4 DEF Touches, lockVars, StorageInv, Domains, c
  <1>6. /\ Shaped(e) /\ \A n \in Int : WholeTo(e, n)
        /\ stage # "currentversion" => next \in Steps("create") /\ CreateAt(e, next)
        /\ stage = "mkdir" => e.cur = NoFile
        /\ stage = "curr" => e.cur = d.cur
        /\ next = "truncate" => TornWrites
        /\ stage = "truncate" => e.cur = Truncated /\ next = "currentversion"
        /\ stage = "currentversion" => next = "answered" /\ e.cur = 0 /\ e = Created
    BY <1>2, CreateMoves DEF e, next
  <1>7. /\ e.cur \in Int \cup {NoFile, Truncated}
        /\ e.cur = Truncated => TornWrites /\ next = "currentversion"
    BY <1>2, <1>6, ScriptSteps, MarksAssumption
  <1>8. Progress(e, c, at'[t], latest'[t], target'[t], answer'[t].code)
    <2>1. CASE stage # "currentversion"
      BY <1>0, <1>2, <1>3, <1>6, <2>1, ScriptSteps DEF Progress, c
    <2>2. CASE stage = "currentversion"
      BY <1>0, <1>3, <1>6, <2>2, ScriptSteps DEF Progress, Kept, c
    <2> QED
      BY <2>1, <2>2
  <1> QED
    BY <1>0, <1>3, <1>4, <1>5, <1>6, <1>7, <1>8, InsideStep DEF Writers, c

LEMMA DestroyKeeps ==
    ASSUME StorageInv, ProjectExclusion, NEW t \in Threads, Destroy(t)
    PROVE  StorageInv'
  <1>0. /\ pc[t] = "crit" /\ at[t] = "remove" /\ call[t].op = "destroy"
        /\ UNCHANGED <<lockVars, call, latest, target>>
        /\ Change(t, Absent) /\ Proceed(t, "remove")
    BY DEF Destroy, Inner
  <1>1. call[t] \in Calls /\ call[t].proj \in Projects
    BY <1>0, DirHere
  <1>2. /\ DOMAIN at' = Threads /\ DOMAIN answer' = Threads
        /\ \A u \in Threads : u # t => at'[u] = at[u] /\ answer'[u] = answer[u]
        /\ at'[t] = "answered" /\ answer'[t].code = 300
    BY <1>0, Proceeding, DestroyFollowing DEF Success
  <1>3. /\ DOMAIN disk' = Projects /\ disk'[call[t].proj] = Absent
        /\ \A p \in Projects : p # call[t].proj => disk'[p] = disk[p]
    BY <1>0, <1>1, Changing
  <1>4. Touches(t)
    BY <1>0, <1>2, <1>3 DEF Touches, lockVars, StorageInv, Domains
  <1>5. Shaped(Absent) /\ Absent.cur = NoFile
    BY DEF Absent, Shaped, Filed
  <1>6. Progress(Absent, call[t], at'[t], latest'[t], target'[t], answer'[t].code)
    BY <1>0, <1>2, ScriptSteps DEF Progress, Kept
  <1> QED
    BY <1>0, <1>3, <1>4, <1>5, <1>6, InsideStep, MarksAssumption DEF Writers

LEMMA PushKeeps ==
    ASSUME StorageInv, ProjectExclusion,
           NEW t \in Threads, NEW stage \in Steps("push"), Push(t, stage)
    PROVE  StorageInv'
  <1> DEFINE d == Dir(t)
             c == call[t]
             x == Content(c.arg, c.id)
             e == PushStep(d, stage, c.arg, x)
             next == Following("push", stage)
  <1>1. stage # "answered" /\ stage # "exists"
    BY ScriptSteps
  <1>2. /\ pc[t] = "crit" /\ at[t] = stage /\ c.op = "push"
        /\ UNCHANGED <<lockVars, call, latest, target>> /\ Proceed(t, stage)
        /\ Change(t, PushStep(d, stage, latest[t] + 1, x))
    BY DEF Push, Inner
  <1>3. /\ c \in Calls /\ c.proj \in Projects /\ Shaped(d)
        /\ d.cur \in Int \cup {NoFile, Truncated}
        /\ stage # "currentversion" => d.cur # Truncated
        /\ d.cur = Truncated => TornWrites
        /\ answer[t].code = -1 /\ c.id \in Ids /\ latest[t] = c.arg - 1
        /\ PushAt(d, stage, c.arg, x) /\ (stage = "truncate" => TornWrites)
    BY <1>1, <1>2, DirHere DEF Progress
  <1>4. c.arg \in Int /\ latest[t] + 1 = c.arg
    <2>1. c.arg \in Int
      BY <1>3, ArgNumbers
    <2> QED
      BY <1>3, <2>1
  <1>5. /\ DOMAIN at' = Threads /\ DOMAIN answer' = Threads
        /\ \A u \in Threads : u # t => at'[u] = at[u] /\ answer'[u] = answer[u]
        /\ at'[t] = next
        /\ next # "answered" => answer'[t] = answer[t]
        /\ next = "answered" => answer'[t].code = 900
    BY <1>2, Proceeding DEF Success
  <1>6. Change(t, e)
    BY <1>2, <1>4
  <1> HIDE DEF e, next, d
  <1>7. /\ DOMAIN disk' = Projects /\ disk'[c.proj] = e
        /\ \A p \in Projects : p # c.proj => disk'[p] = disk[p]
    BY <1>3, <1>6, Changing
  <1>8. Touches(t)
    BY <1>2, <1>5, <1>7 DEF Touches, lockVars, StorageInv, Domains
  <1>9. /\ Shaped(e)
        /\ stage # "currentversion" => next \in Steps("push") /\ PushAt(e, next, c.arg, x)
        /\ stage \notin {"truncate", "currentversion"} => e.cur = d.cur
        /\ next = "truncate" => TornWrites
        /\ stage = "truncate" => e.cur = Truncated /\ next = "currentversion"
        /\ stage = "currentversion" =>
              /\ next = "answered" /\ e.cur = c.arg
              /\ Pushed(e, x) /\ WholeTo(e, c.arg)
    <2>1. x.ver = c.arg
      BY DEF Content
    <2> HIDE DEF x, c
    <2> QED
      BY <1>3, <1>4, <2>1, PushMoves DEF e, next, Pushed, x
  <1> HIDE DEF x
  <1>10. /\ e.cur \in Int \cup {NoFile, Truncated}
         /\ e.cur = Truncated => TornWrites /\ next = "currentversion"
    BY <1>3, <1>4, <1>9, MarksAssumption
  <1>11. e.cur \in Int => WholeTo(e, e.cur)
    <2>1. CASE stage # "currentversion"
      BY <1>9, <2>1 DEF PushAt
    <2>2. CASE stage = "currentversion"
      BY <1>9, <2>2
    <2> QED
      BY <2>1, <2>2
  <1>12. Progress(e, c, at'[t], latest'[t], target'[t], answer'[t].code)
    <2>1. CASE stage # "currentversion"
      BY <1>2, <1>3, <1>5, <1>9, <2>1, ScriptSteps DEF Progress, x
    <2>2. CASE stage = "currentversion"
      BY <1>2, <1>5, <1>9, <2>2, ScriptSteps DEF Progress, Kept, x
    <2> QED
      BY <2>1, <2>2
  <1> QED
    BY <1>2, <1>5, <1>7, <1>8, <1>9, <1>10, <1>11, <1>12, InsideStep DEF Writers

LEMMA RollbackKeeps ==
    ASSUME StorageInv, ProjectExclusion,
           NEW t \in Threads, NEW stage \in Steps("rollback"), Rollback(t, stage)
    PROVE  StorageInv'
  <1> DEFINE d == Dir(t)
             c == call[t]
             e == RollbackStep(d, stage, latest[t], c.arg, c.arg)
             next == Following("rollback", stage)
  <1>1. stage # "answered" /\ stage # "exists"
    BY ScriptSteps
  <1>2. /\ pc[t] = "crit" /\ at[t] = stage /\ c.op = "rollback"
        /\ UNCHANGED <<lockVars, call, target>> /\ GoOn(t, stage)
        /\ Change(t, RollbackStep(d, stage, latest[t], target[t], c.arg))
    BY DEF Rollback, Inner
  <1>3. /\ c \in Calls /\ c.proj \in Projects /\ Shaped(d)
        /\ d.cur \in Int \cup {NoFile, Truncated}
        /\ d.cur \in Int => WholeTo(d, d.cur)
        /\ stage # "currentversion" => d.cur # Truncated
        /\ d.cur = Truncated => TornWrites
        /\ answer[t].code = -1 /\ target[t] = c.arg /\ WholeTo(d, c.arg)
        /\ stage = "truncate" => TornWrites
    BY <1>1, <1>2, DirHere DEF Progress
  <1>4. c.arg \in Int
    BY <1>3, ArgNumbers
  <1>5. Change(t, e)
    BY <1>2, <1>3
  <1>6. /\ DOMAIN at' = Threads /\ DOMAIN answer' = Threads /\ DOMAIN latest' = Threads
        /\ \A u \in Threads : u # t =>
              at'[u] = at[u] /\ answer'[u] = answer[u] /\ latest'[u] = latest[u]
        /\ stage = "delete" =>
              at'[t] \in {"delete", "untar"} /\ answer'[t] = answer[t]
        /\ stage # "delete" =>
              /\ at'[t] = next
              /\ next # "answered" => answer'[t] = answer[t]
              /\ next = "answered" => answer'[t].code = 400
    <2>1. CASE stage = "delete"
      BY <1>2, <2>1 DEF GoOn, Goto, StorageInv, Domains
    <2>2. CASE stage # "delete"
      BY <1>2, <2>2, Proceeding DEF GoOn, Success, StorageInv, Domains
    <2> QED
      BY <2>1, <2>2
  <1> HIDE DEF e, next, d
  <1>7. /\ DOMAIN disk' = Projects /\ disk'[c.proj] = e
        /\ \A p \in Projects : p # c.proj => disk'[p] = disk[p]
    BY <1>3, <1>5, Changing
  <1>8. Touches(t)
    BY <1>2, <1>6, <1>7 DEF Touches, lockVars, StorageInv, Domains
  <1>9. /\ Shaped(e) /\ WholeTo(e, c.arg)
        /\ stage \in {"delete", "untar"} =>
              e.cur = d.cur /\ \A n \in Int : WholeTo(d, n) => WholeTo(e, n)
        /\ stage = "untar" =>
              next \in {"truncate", "currentversion"} /\ (next = "truncate" => TornWrites)
        /\ stage = "truncate" => e.cur = Truncated /\ next = "currentversion"
        /\ stage = "currentversion" => next = "answered" /\ e.cur = c.arg
    BY <1>3, <1>4, RollbackMoves DEF e, next
  <1>10. /\ e.cur \in Int \cup {NoFile, Truncated}
         /\ e.cur = Truncated => TornWrites /\ stage = "truncate"
         /\ e.cur \in Int => WholeTo(e, e.cur)
    BY <1>3, <1>4, <1>9, ScriptSteps, MarksAssumption
  <1>11. Progress(e, c, at'[t], latest'[t], target'[t], answer'[t].code)
    <2>1. CASE stage = "delete"
      BY <1>2, <1>3, <1>6, <1>9, <2>1, ScriptSteps DEF Progress
    <2>2. CASE stage \in {"untar", "truncate"}
      BY <1>2, <1>3, <1>6, <1>9, <2>2, ScriptSteps DEF Progress
    <2>3. CASE stage = "currentversion"
      BY <1>2, <1>6, <1>9, <2>3, ScriptSteps DEF Progress, Kept
    <2> QED
      BY <2>1, <2>2, <2>3, ScriptSteps
  <1> QED
    BY <1>2, <1>6, <1>7, <1>8, <1>9, <1>10, <1>11, InsideStep DEF Writers

LEMMA NoArchiveKeeps ==
    ASSUME StorageInv, ProjectExclusion, NEW t \in Threads, NoArchive(t)
    PROVE  StorageInv'
  <1>1. /\ pc[t] = "crit" /\ at[t] = "untar"
        /\ UNCHANGED <<lockVars, call, disk, latest, target, at, answer>>
    BY DEF NoArchive, Inner, End
  <1>2. Touches(t)
    BY <1>1 DEF Touches, lockVars, StorageInv, Domains
  <1> QED
    BY <1>1, <1>2, DirHere, InsideStep DEF Dir

\* Only create's calls fail, and their result is looked at.
LEMMA CallFailsKeeps ==
    ASSUME Stated, StorageInv, ProjectExclusion,
           NEW t \in Threads, NEW stage \in StageSet, CallFails(t, stage)
    PROVE  StorageInv'
  <1>1. call[t].op = "create" /\ ~TornWrites
    BY DEF Stated, CallFails
  <1>2. /\ pc[t] = "crit" /\ UNCHANGED <<lockVars, call, disk, latest, target>>
        /\ CreateFails(t, stage)
    BY <1>1 DEF CallFails, Inner
  <1>3. Touches(t)
    BY <1>2 DEF Touches, lockVars, CreateFails, Respond, StorageInv, Domains
  <1>4. at'[t] = "answered" /\ answer'[t].code \in {2, 3}
    BY <1>2 DEF CreateFails, Respond, Response, StorageInv, Domains
  <1>5. Progress(Dir(t), call[t], at'[t], latest'[t], target'[t], answer'[t].code)
    BY <1>4, ScriptSteps DEF Progress, Kept
  <1> QED
    BY <1>1, <1>2, <1>3, <1>5, DirHere, InsideStep DEF Dir

LEMMA HandlerKeeps ==
    ASSUME Stated, StorageInv, ProjectExclusion, NEW t \in Threads, Handler(t)
    PROVE  StorageInv'
  BY ExistsKeeps, ReadVersionKeeps, ReadKeeps, DestroyKeeps, CreateKeeps, PushKeeps,
     RollbackKeeps, NoArchiveKeeps, CallFailsKeeps DEF Handler

\* A step outside the handlers, of a thread that is not about to write Currentversion.
LEMMA OutsideStep ==
    ASSUME StorageInv, NEW t \in Threads, at[t] # "currentversion",
           UNCHANGED disk, Domains',
           \A u \in Threads : u # t =>
              /\ pc'[u] = pc[u] /\ req'[u] = req[u] /\ call'[u] = call[u] /\ at'[u] = at[u]
              /\ latest'[u] = latest[u] /\ target'[u] = target[u] /\ answer'[u] = answer[u],
           Serving(t)'
    PROVE  StorageInv'
  <1>1. ASSUME NEW p \in Projects
        PROVE  DirOK(p)'
    <2>1. Writing(p) => Writing(p)'
      BY DEF Writing
    <2> QED
      BY <2>1 DEF StorageInv, DirOK
  <1>2. ASSUME NEW u \in Threads, u # t
        PROVE  Serving(u)'
    <2>1. Dir(u)' = Dir(u)
      BY <1>2 DEF Dir
    <2> QED
      BY <1>2, <2>1 DEF StorageInv, Serving
  <1> QED
    BY <1>1, <1>2 DEF StorageInv

\* A request comes.
LEMMA ArriveKeeps ==
    ASSUME TypeOK, StorageInv, NEW t \in Threads, NEW c \in Calls, Arrive(t, c)
    PROVE  StorageInv'
  <1>1. PICK r \in LockRequests(c) : Receive(t, r)
    BY DEF Arrive
  <1>2. r.proj = c.proj /\ r.mode = Mode(c.op)
    BY DEF LockRequests
  <1>3. /\ pc[t] = "idle" /\ pc' = [pc EXCEPT ![t] = "lookup"]
        /\ req' = [req EXCEPT ![t] = r] /\ call' = [call EXCEPT ![t] = c]
        /\ UNCHANGED <<disk, at, latest, target, answer>>
    BY <1>1 DEF Arrive, Receive
  <1>4. /\ pc'[t] = "lookup" /\ req'[t] = r /\ call'[t] = c
        /\ \A u \in Threads : u # t => pc'[u] = pc[u] /\ req'[u] = req[u] /\ call'[u] = call[u]
    BY <1>3 DEF TypeOK, StorageInv, Domains
  <1>5. at[t] = "none" /\ answer[t].code = -1
    BY <1>3 DEF StorageInv, Serving
  <1>6. Serving(t)'
    BY <1>2, <1>3, <1>4, <1>5 DEF Serving
  <1>7. Domains'
    BY <1>3 DEF StorageInv, Domains
  <1> QED
    BY <1>3, <1>4, <1>5, <1>6, <1>7, OutsideStep

\* A thread looks up its lock and asks for it.
LEMMA WaitingKeeps ==
    ASSUME TypeOK, StorageInv, NEW t \in Threads, FindLock(t) \/ CallLock(t)
    PROVE  StorageInv'
  <1>1. /\ pc[t] \in {"lookup", "got"}
        /\ pc' = [pc EXCEPT ![t] = "got"] \/ pc' = [pc EXCEPT ![t] = "wait"]
        /\ UNCHANGED <<req, disk, call, at, latest, target, answer>>
    BY DEF FindLock, CallLock, Lookup, Request
  <1>2. pc'[t] \in {"got", "wait"} /\ \A u \in Threads : u # t => pc'[u] = pc[u]
    BY <1>1 DEF TypeOK
  <1>3. Serving(t)' /\ at[t] # "currentversion" /\ Domains'
    BY <1>1, <1>2 DEF StorageInv, Serving, Domains
  <1> QED
    BY <1>1, <1>2, <1>3, OutsideStep

\* A thread gets its lock, and its handler begins.
LEMMA EnterKeeps ==
    ASSUME TypeOK, StorageInv, NEW t \in Threads, Enter(t)
    PROVE  StorageInv'
  <1>1. /\ pc[t] = "wait" /\ pc' = [pc EXCEPT ![t] = "crit"]
        /\ at' = [at EXCEPT ![t] = "exists"]
        /\ UNCHANGED <<req, disk, call, latest, target, answer>>
    BY DEF Enter, Acquire
  <1>2. /\ pc'[t] = "crit" /\ at'[t] = "exists"
        /\ \A u \in Threads : u # t => pc'[u] = pc[u] /\ at'[u] = at[u]
    BY <1>1 DEF TypeOK, StorageInv, Domains
  <1>3. at[t] = "none" /\ answer[t].code = -1
    BY <1>1 DEF StorageInv, Serving
  <1>4. Progress(Dir(t)', call[t], "exists", latest[t], target[t], -1)
    BY ScriptSteps DEF Progress
  <1>5. Serving(t)' /\ Domains'
    BY <1>1, <1>2, <1>3, <1>4 DEF StorageInv, Serving, Domains
  <1> QED
    BY <1>1, <1>2, <1>3, <1>5, OutsideStep

\* A handler has answered; its thread ends.
LEMMA LeaveKeeps ==
    ASSUME TypeOK, StorageInv, NEW t \in Threads, Leave(t)
    PROVE  StorageInv'
  <1>1. /\ at[t] = "answered" /\ pc[t] = "crit" /\ pc' = [pc EXCEPT ![t] = "idle"]
        /\ at' = [at EXCEPT ![t] = "none"] /\ latest' = [latest EXCEPT ![t] = 0]
        /\ target' = [target EXCEPT ![t] = 0] /\ answer' = [answer EXCEPT ![t] = NoResponse]
        /\ UNCHANGED <<req, disk, call>>
    BY DEF Leave, Release
  <1>2. /\ pc'[t] = "idle" /\ at'[t] = "none" /\ answer'[t] = NoResponse
        /\ \A u \in Threads : u # t =>
              /\ pc'[u] = pc[u] /\ at'[u] = at[u] /\ latest'[u] = latest[u]
              /\ target'[u] = target[u] /\ answer'[u] = answer[u]
    BY <1>1 DEF TypeOK, StorageInv, Domains
  <1>3. Serving(t)' /\ Domains'
    BY <1>1, <1>2 DEF Serving, NoResponse, StorageInv, Domains
  <1> QED
    BY <1>1, <1>2, <1>3, OutsideStep

\* A server that is started again finds no empty Currentversion.
LEMMA StartKeeps ==
    ASSUME Stated, TypeOK, StorageInv, Start
    PROVE  StorageInv'
  <1>1. ~TornWrites
    BY BoundAssumption DEF Stated, TypeOK, Start, Restart
  <1>2. /\ pc' = [t \in Threads |-> "idle"] /\ at' = [t \in Threads |-> "none"]
        /\ latest' = [t \in Threads |-> 0] /\ target' = [t \in Threads |-> 0]
        /\ answer' = [t \in Threads |-> NoResponse] /\ UNCHANGED <<disk, call, req>>
    BY DEF Start, Restart
  <1>3. \A p \in Projects : DirOK(p)'
    BY <1>1, <1>2 DEF StorageInv, DirOK
  <1>4. \A t \in Threads : Serving(t)'
    BY <1>2 DEF Serving, NoResponse
  <1> QED
    BY <1>2, <1>3, <1>4 DEF StorageInv, Domains

LEMMA StorageStep ==
    ASSUME Stated, TypeOK, ProjectExclusion, StorageInv, [ServerNext]_serverVars
    PROVE  StorageInv'
  <1>1. CASE UNCHANGED serverVars
    BY <1>1 DEF serverVars, lockVars, StorageInv, Domains, DirOK, Writing, Serving, Dir
  <1>2. ASSUME NEW t \in Threads, NEW c \in Calls, Arrive(t, c)
        PROVE  StorageInv'
    BY <1>2, ArriveKeeps
  <1>3. ASSUME NEW t \in Threads, ThreadStep(t)
        PROVE  StorageInv'
    BY <1>3, WaitingKeeps, EnterKeeps, LeaveKeeps, HandlerKeeps DEF ThreadStep
  <1>4. CASE Kill
    BY <1>4 DEF Kill, lockVars, StorageInv, Domains, DirOK, Writing, Serving, Dir
  <1>5. CASE Start
    BY <1>5, StartKeeps
  <1> QED
    BY <1>1, <1>2, <1>3, <1>4, <1>5 DEF ServerNext

LEMMA StorageInit == ServerInit => StorageInv
  <1> SUFFICES ASSUME ServerInit PROVE StorageInv
    OBVIOUS
  <1>1. \A t \in Threads : pc[t] = "idle"
    BY DEF ServerInit, LockInit
  <1>2. Domains
    BY DEF ServerInit, Domains
  <1>3. \A d \in {Absent, Created} :
           /\ Shaped(d) /\ d.cur \in Int \cup {NoFile}
           /\ \A n \in Int : WholeTo(d, n)
    <2>1. Filed(<< >>)
      BY DEF Filed
    <2>2. /\ Shaped(Absent) /\ Absent.vers = << >> /\ Absent.cur = NoFile
          /\ Shaped(Created) /\ Created.vers = << >> /\ Created.cur = 0
      BY <2>1, FirstDirs DEF Shaped
    <2>3. \A d : d.vers = << >> => \A n \in Int : WholeTo(d, n)
      BY DEF WholeTo
    <2> QED
      BY <2>2, <2>3
  <1>4. \A p \in Projects : DirOK(p)
    BY <1>3, MarksAssumption DEF ServerInit, DirOK
  <1>5. \A t \in Threads : Serving(t)
    BY <1>1 DEF ServerInit, Serving, NoResponse
  <1> QED
    BY <1>2, <1>4, <1>5 DEF StorageInv

----------------------------------------------------------------------------

\* Two handlers of one project never run together if one of them writes it, where
\* every name is in the table and stays there (server/ds.c:28-56, logic.c:587-703).
THEOREM ServerExclusion ==
    ASSUME Stated
    PROVE  ServerSpec => []ProjectExclusion
  BY Exclusion, ServerUsesLocks, PTL

\* At every moment the directories are as the requests under way have left them
\* (logic.c:13-109, 246-407).
THEOREM StorageInvariance ==
    ASSUME Stated
    PROVE  ServerSpec => []StorageInv
  <1>1. ServerInit => StorageInv
    BY StorageInit
  <1>2. TypeOK /\ ProjectExclusion /\ StorageInv /\ [ServerNext]_serverVars => StorageInv'
    BY StorageStep
  <1> QED
    BY <1>1, <1>2, ServerUsesLocks, TypeCorrect, ServerExclusion, PTL DEF ServerSpec

\* Each version up to the current one that is there holds the manifest, archive and
\* commit of one push, whatever a killed push or rollback left (logic.c:271-318,
\* 371-392).
THEOREM VersionsStayWhole ==
    ASSUME Stated
    PROVE  ServerSpec => []VersionsWhole
  <1>1. Versions \subseteq Int
    BY DEF Versions
  <1>2. StorageInv => VersionsWhole
    BY <1>1 DEF StorageInv, DirOK, WholeTo, Whole, VersionsWhole
  <1> QED
    BY <1>2, StorageInvariance, PTL

\* An answer of success to a create, push or destroy means that the disk has what
\* was asked for and nothing of what was there before, whatever calls of create
\* failed and whatever a killed handler left (logic.c:41-71, 96-105, 280-318).
THEOREM SuccessStored ==
    ASSUME Stated
    PROVE  ServerSpec => []SuccessIsStored
  <1>1. ASSUME StorageInv, NEW t \in Threads
        PROVE  \/ answer[t].code \notin {0, 900, 300}
               \/ Kept(Dir(t), call[t], answer[t].code)
    BY <1>1 DEF StorageInv, Serving, Progress
  <1>2. \A v, id : Content(v, id).ver = v
    BY DEF Content
  <1>3. StorageInv => SuccessIsStored
    BY <1>1, <1>2 DEF Kept, Pushed, SuccessIsStored
  <1> QED
    BY <1>3, StorageInvariance, PTL

----------------------------------------------------------------------------
(* The types. *)

\* Where this holds.  Rollback's numbers are not negative (of -1 the code makes a
\* Currentversion of -1, logic.c:364); there is a request; a call that may fail is one
\* its handler makes.
Sensible ==
    /\ Args \subseteq Nat /\ Calls # {}
    /\ \A op \in Writers, stage \in StageSet : <<op, stage>> \in Failing => stage \in Steps(op)

----------------------------------------------------------------------------
(* The strengthening. *)

Files == [man : Stored, tar : Stored, com : Stored]

TypedVers(vers) ==
    /\ Filed(vers)
    /\ DOMAIN vers \subseteq 1..MaxVersion
    /\ \A v \in DOMAIN vers : vers[v] \in Files

TypedDir(d) ==
    /\ Shaped(d)
    /\ d.dir \in BOOLEAN
    /\ d.cur \in Versions \cup {NoFile, Truncated}
    /\ TypedVers(d.vers)
    /\ d.man \in Stored /\ d.com \in Stored /\ d.files \subseteq Contents

\* A handler is at a step of its own script, and its locals are in their bounds.
Placed(c, stage, n, v) ==
    /\ stage \in {"none", "exists", "version", "read", "answered"}
       \/ (c.op \in Writers /\ stage \in Steps(c.op))
    /\ stage = "version" =>
          c.op \in {"history", "currentversion", "checkout", "upgrade", "rollback", "push"}
    /\ stage = "read" =>
          c.op \in {"history", "currentversion", "checkout", "update", "upgrade", "commit"}
    /\ n \in Versions /\ v \in Int
    /\ c.op = "push" /\ stage \in Steps("push") => n + 1 = c.arg
    /\ c.op = "rollback" /\ stage \in Steps("rollback") => c.arg \in Versions
    /\ c.op = "rollback" /\ stage = "delete" => v \in Nat /\ v < n

TypeInv ==
    /\ disk = [p \in Projects |-> disk[p]] /\ \A p \in Projects : TypedDir(disk[p])
    /\ call \in [Threads -> Calls]
    /\ at \in [Threads -> StageSet]
    /\ latest \in [Threads -> Versions] /\ target \in [Threads -> Int]
    /\ life \in {"up", "killed", "exit", "fault"}
    /\ \A t \in Threads : Placed(call[t], at[t], latest[t], target[t])
    /\ \A t \in Threads : pc[t] # "crit" => at[t] = "none"
----------------------------------------------------------------------------
(* The data. *)

\* What requests carry.
LEMMA CallParts ==
    ASSUME Sensible, NEW c \in Calls
    PROVE  /\ c.proj \in Projects /\ c.arg \in Nat
           /\ c.op = "push" => c.arg \in Versions
           /\ c.op = "push" => Content(c.arg, c.id) \in Contents
  <1>1. MaxVersion \in Nat /\ Args \subseteq Nat
    BY ArgsAssumption DEF Sensible
  <1>2. /\ c.proj \in Projects /\ c.arg \in {0} \cup Args \cup 1..MaxVersion
        /\ c.id \in Ids \cup {NoId}
        /\ c.op = "push" => c.arg \in 0..MaxVersion
    <2>1. CASE c \in [op : Ops \ {"push", "rollback", "upgrade"}, proj : Projects,
                      arg : {0}, id : {NoId}]
      BY <2>1
    <2>2. CASE c \in [op : Ops \cap {"rollback", "upgrade"}, proj : Projects,
                      arg : Args, id : {NoId}]
      BY <2>2
    <2>3. CASE c \in [op : Ops \cap {"push"}, proj : Projects, arg : 1..MaxVersion, id : Ids]
      BY <2>3
    <2>4. CASE c \in [op : Ops \cap {"push"}, proj : Projects, arg : {0}, id : {NoId}]
      BY <2>4, <1>1
    <2> QED
      BY <2>1, <2>2, <2>3, <2>4 DEF Calls
  <1>3. {0} \cup Args \cup 1..MaxVersion \subseteq Nat
    BY <1>1
  <1>4. c.op = "push" => Content(c.arg, c.id) \in Contents
    BY <1>2 DEF Contents, Content
  <1> QED
    BY <1>1, <1>2, <1>3, <1>4 DEF Versions

\* A field other than vers is set.
LEMMA SetTyped ==
    ASSUME NEW d, TypedDir(d), NEW x
    PROVE  /\ x \in Versions \cup {NoFile, Truncated} => TypedDir(SetCur(d, x))
           /\ x \in Stored => TypedDir(SetMan(d, x))
           /\ x \subseteq Contents => TypedDir(SetFiles(d, x))
  <1>1. Shaped(d)
    BY DEF TypedDir
  <1> QED
    BY <1>1, ShapedFields DEF TypedDir, Shaped

LEMMA FreshTyped == TypedDir(Absent) /\ TypedDir(Fresh) /\ TypedDir(Created)
  <1>1. NoFile \in Stored /\ Initial \in Stored /\ 0 \in Versions
    BY ArgsAssumption DEF Stored, Contents, Initial, Content, Versions
  <1>2. TypedVers(<< >>)
    BY DEF TypedVers, Filed
  <1>3. ASSUME NEW dir \in BOOLEAN, NEW d,
               d = [dir |-> dir, cur |-> NoFile, vers |-> << >>,
                    man |-> NoFile, com |-> NoFile, files |-> {}]
        PROVE  TypedDir(d)
    <2>1. /\ d.dir = dir /\ d.cur = NoFile /\ d.vers = << >>
          /\ d.man = NoFile /\ d.com = NoFile /\ d.files = {}
      BY <1>3
    <2>2. Shaped(d)
      BY <1>2, <1>3, <2>1 DEF Shaped, TypedVers
    <2> QED
      BY <1>1, <1>2, <2>1, <2>2 DEF TypedDir
  <1>4. TypedDir(Absent)
    BY <1>3 DEF Absent
  <1>5. TypedDir(Fresh)
    <2> DEFINE e == CreateStep(Absent, "mkdir")
    <2>1. e = [dir |-> TRUE, cur |-> NoFile, vers |-> << >>,
               man |-> NoFile, com |-> NoFile, files |-> {}]
      BY DEF CreateStep, Fresh, Absent
    <2>2. Fresh = e
      BY DEF CreateStep
    <2> HIDE DEF e
    <2> QED
      BY <1>3, <2>1, <2>2
  <1>6. Created = SetCur(SetMan(Fresh, Initial), 0)
    BY DEF Created, SetCur, SetMan
  <1> QED
    BY <1>1, <1>4, <1>5, <1>6, SetTyped

\* The versions are replaced.
LEMMA VersTyped ==
    ASSUME NEW d, TypedDir(d), NEW f, TypedVers(f)
    PROVE  TypedDir(SetVers(d, f))
  <1>1. Shaped(d)
    BY DEF TypedDir
  <1> QED
    BY <1>1, ShapedFields DEF TypedDir, Shaped, TypedVers

\* What a file of a version holds.
LEMMA FileTyped ==
    ASSUME NEW d, TypedDir(d), NEW v, NEW name \in {"man", "tar", "com"}
    PROVE  FileOf(d, v, name) \in Stored
  BY DEF FileOf, TypedDir, TypedVers, Files, Stored

LEMMA ExtractTyped ==
    ASSUME NEW d, TypedDir(d), NEW x \in Stored
    PROVE  TypedDir(Extract(d, x))
  <1>1. CASE x = NoFile
    BY <1>1 DEF Extract
  <1>2. CASE x # NoFile
    <2>1. d = [dir |-> d.dir, cur |-> d.cur, vers |-> d.vers,
               man |-> d.man, com |-> d.com, files |-> d.files]
      BY DEF TypedDir, Shaped
    <2>2. Extract(d, x) = [dir |-> d.dir, cur |-> d.cur, vers |-> d.vers,
                           man |-> x, com |-> x, files |-> d.files \cup {x}]
      BY <1>2, <2>1 DEF Extract
    <2>3. x \in Contents
      BY <1>2 DEF Stored
    <2> QED
      BY <2>2, <2>3 DEF TypedDir, Shaped
  <1> QED
    BY <1>1, <1>2

LEMMA MakeVersionTyped ==
    ASSUME NEW d, TypedDir(d), NEW v \in 1..MaxVersion
    PROVE  TypedDir(MakeVersion(d, v))
  <1> DEFINE f == WithVersion(d.vers, v)
  <1>1. MakeVersion(d, v) = SetVers(d, f)
    BY DEF MakeVersion, SetVers
  <1>2. TypedVers(d.vers)
    BY DEF TypedDir
  <1>3. NoVersion \in Files
    BY DEF NoVersion, Files, Stored
  <1>4. DOMAIN f \subseteq 1..MaxVersion /\ \A w \in DOMAIN f : f[w] \in Files
    BY <1>2, <1>3 DEF TypedVers, WithVersion
  <1>5. f = [w \in DOMAIN f |-> f[w]]
    BY DEF WithVersion
  <1> HIDE DEF f
  <1>6. TypedVers(f)
    BY <1>4, <1>5 DEF TypedVers, Filed, Files
  <1> QED
    BY <1>1, <1>6, VersTyped

LEMMA PutFileTyped ==
    ASSUME NEW d, TypedDir(d), NEW v, NEW name \in {"man", "tar", "com"}, NEW x \in Stored
    PROVE  TypedDir(PutFile(d, v, name, x))
  <1>1. CASE v \notin DOMAIN d.vers
    BY <1>1 DEF PutFile
  <1>2. CASE v \in DOMAIN d.vers
    <2> DEFINE g == [d.vers[v] EXCEPT ![name] = x]
               f == [d.vers EXCEPT ![v] = g]
    <2>1. PutFile(d, v, name, x) = SetVers(d, f)
      <3>1. d = [dir |-> d.dir, cur |-> d.cur, vers |-> d.vers,
                 man |-> d.man, com |-> d.com, files |-> d.files]
        BY DEF TypedDir, Shaped
      <3> QED
        BY <1>2, <3>1 DEF PutFile, SetVers
    <2>2. TypedVers(d.vers)
      BY DEF TypedDir
    <2>3. g \in Files
      BY <1>2, <2>2 DEF TypedVers, Files
    <2> HIDE DEF g
    <2>4. /\ DOMAIN f = DOMAIN d.vers /\ f = [w \in DOMAIN f |-> f[w]]
          /\ \A w \in DOMAIN f : f[w] \in Files
      BY <2>2, <2>3 DEF TypedVers, Filed
    <2> HIDE DEF f
    <2>5. TypedVers(f)
      BY <2>2, <2>4 DEF TypedVers, Filed, Files
    <2> QED
      BY <2>1, <2>5, VersTyped
  <1> QED
    BY <1>1, <1>2

LEMMA RemoveVersionTyped ==
    ASSUME NEW d, TypedDir(d), NEW v
    PROVE  TypedDir(RemoveVersion(d, v))
  <1> DEFINE f == [w \in DOMAIN d.vers \ {v} |-> d.vers[w]]
  <1>1. RemoveVersion(d, v) = SetVers(d, f)
    BY DEF RemoveVersion, SetVers
  <1>2. TypedVers(d.vers)
    BY DEF TypedDir
  <1>3. TypedVers(f)
    BY <1>2 DEF TypedVers, Filed
  <1> HIDE DEF f
  <1> QED
    BY <1>1, <1>3, VersTyped

----------------------------------------------------------------------------
(* The scripts. *)

\* The step after one of a script is one of the same script.
LEMMA NextStep ==
    ASSUME NEW op \in Writers, NEW stage \in Steps(op)
    PROVE  \/ op = "rollback" /\ stage = "delete"
           \/ Following(op, stage) \in (Steps(op) \cup {"answered"}) \ {"delete"}
  <1>1. CASE op = "create"
    BY <1>1, ScriptSteps, CreateFollowing
  <1>2. CASE op = "push"
    BY <1>2, ScriptSteps, PushFollowing
  <1>3. CASE op = "rollback"
    BY <1>3, ScriptSteps, RollbackFollowing
  <1>4. CASE op = "destroy"
    BY <1>4, ScriptSteps, DestroyFollowing
  <1> QED
    BY <1>1, <1>2, <1>3, <1>4 DEF Writers

LEMMA CreateTyped ==
    ASSUME NEW d, TypedDir(d), NEW stage \in Steps("create")
    PROVE  TypedDir(CreateStep(d, stage))
  <1>1. Initial \in Stored /\ 0 \in Versions
    BY ArgsAssumption DEF Stored, Contents, Initial, Content, Versions
  <1>2. \/ stage = "mkdir" /\ CreateStep(d, stage) = Fresh
        \/ stage = "curr" /\ CreateStep(d, stage) = SetMan(d, Initial)
        \/ stage = "truncate" /\ CreateStep(d, stage) = SetCur(d, Truncated)
        \/ stage = "currentversion" /\ CreateStep(d, stage) = SetCur(d, 0)
    BY ScriptSteps DEF CreateStep, SetMan, SetCur
  <1> QED
    BY <1>1, <1>2, FreshTyped, SetTyped

LEMMA PushTyped ==
    ASSUME NEW d, TypedDir(d), NEW stage \in Steps("push"), NEW new \in 1..MaxVersion,
           NEW x \in Contents
    PROVE  TypedDir(PushStep(d, stage, new, x))
  <1> DEFINE e == PushStep(d, stage, new, x)
  <1>1. /\ x \in Stored /\ d.com \in Stored /\ new \in Versions
        /\ FileOf(d, new, "tar") \in Stored /\ FileOf(d, new, "man") \in Stored
    BY FileTyped DEF TypedDir, Stored, Versions
  <1>2. \/ e = MakeVersion(d, new)
        \/ e = PutFile(d, new, "man", x)
        \/ e = PutFile(d, new, "tar", x)
        \/ e = SetFiles(d, {})
        \/ e = Extract(d, FileOf(d, new, "tar"))
        \/ e = PutFile(d, new, "com", d.com)
        \/ e = SetMan(d, FileOf(d, new, "man"))
        \/ e = SetCur(d, Truncated)
        \/ e = SetCur(d, new)
    BY ScriptSteps DEF PushStep, SetMan, SetCur, SetFiles
  <1> HIDE DEF e
  <1>3. TypedDir(e)
    BY <1>1, <1>2, MakeVersionTyped, PutFileTyped, SetTyped, ExtractTyped
  <1> QED
    BY <1>3 DEF e

LEMMA RollbackTyped ==
    ASSUME NEW d, TypedDir(d), NEW stage \in Steps("rollback"), NEW old, NEW version,
           NEW payload \in Versions
    PROVE  TypedDir(RollbackStep(d, stage, old, version, payload))
  <1> DEFINE e == RollbackStep(d, stage, old, version, payload)
  <1>1. FileOf(d, version, "tar") \in Stored
    BY FileTyped
  <1>2. \/ e = RemoveVersion(d, old)
        \/ e = Extract(d, FileOf(d, version, "tar"))
        \/ e = SetCur(d, Truncated)
        \/ e = SetCur(d, payload)
    BY ScriptSteps DEF RollbackStep, SetCur
  <1> HIDE DEF e
  <1>3. TypedDir(e)
    BY <1>1, <1>2, RemoveVersionTyped, SetTyped, ExtractTyped
  <1> QED
    BY <1>3 DEF e

----------------------------------------------------------------------------
(* The handlers. *)

\* The names of the steps.
LEMMA StageNames ==
    /\ {"none", "exists", "version", "read", "answered"} \subseteq StageSet
    /\ \A op \in Writers : Steps(op) \subseteq StageSet
    /\ {"mkdir", "remove", "delete", "untar"} \subseteq StageSet
  <1>1. DOMAIN Scripts = {"create", "push", "rollback", "destroy"}
    BY DEF Scripts
  <1>2. {"none", "exists", "version", "read", "answered"} \subseteq StageSet
    BY DEF StageSet
  <1>3. \A op \in Writers : Steps(op) \subseteq StageSet
    BY <1>1 DEF StageSet, Writers
  <1> QED
    BY <1>2, <1>3, ScriptSteps DEF Writers

\* What a step inside a critical section leaves, from what it does to one thread and
\* one project.
LEMMA InsideTyped ==
    ASSUME TypeInv, NEW t \in Threads, pc[t] = "crit", UNCHANGED <<pc, call>>,
           NEW e, TypedDir(e), disk' = [disk EXCEPT ![call[t].proj] = e],
           NEW stage \in StageSet, at' = [at EXCEPT ![t] = stage],
           NEW n, latest' = [latest EXCEPT ![t] = n],
           NEW v, target' = [target EXCEPT ![t] = v],
           Placed(call[t], stage, n, v),
           life' \in {"up", "killed", "exit", "fault"}
    PROVE  TypeInv'
  <1>1. n \in Versions /\ v \in Int
    BY DEF Placed
  <1>2. /\ disk' = [p \in Projects |-> disk'[p]]
        /\ \A p \in Projects : disk'[p] = IF p = call[t].proj THEN e ELSE disk[p]
    BY DEF TypeInv
  <1>3. \A p \in Projects : TypedDir(disk'[p])
    BY <1>2 DEF TypeInv
  <1>4. /\ at' \in [Threads -> StageSet] /\ latest' \in [Threads -> Versions]
        /\ target' \in [Threads -> Int] /\ call' \in [Threads -> Calls]
    BY <1>1 DEF TypeInv
  <1>5. ASSUME NEW u \in Threads
        PROVE  /\ Placed(call'[u], at'[u], latest'[u], target'[u])
               /\ pc'[u] # "crit" => at'[u] = "none"
    BY DEF TypeInv
  <1> QED
    BY <1>2, <1>3, <1>4, <1>5 DEF TypeInv

\* The project of a thread, as a part of the disk.
LEMMA HereTyped ==
    ASSUME Sensible, TypeInv, NEW t \in Threads
    PROVE  /\ call[t] \in Calls /\ call[t].proj \in Projects
           /\ TypedDir(Dir(t)) /\ disk = [disk EXCEPT ![call[t].proj] = Dir(t)]
           /\ at[t] \in StageSet /\ at = [at EXCEPT ![t] = at[t]]
           /\ latest = [latest EXCEPT ![t] = latest[t]]
           /\ target = [target EXCEPT ![t] = target[t]]
           /\ Placed(call[t], at[t], latest[t], target[t])
  <1>1. call[t] \in Calls /\ call[t].proj \in Projects
    BY CallParts DEF TypeInv
  <1>2. TypedDir(Dir(t)) /\ disk = [disk EXCEPT ![call[t].proj] = Dir(t)]
    BY <1>1 DEF TypeInv, Dir
  <1>3. /\ at[t] \in StageSet /\ at = [at EXCEPT ![t] = at[t]]
        /\ latest = [latest EXCEPT ![t] = latest[t]]
        /\ target = [target EXCEPT ![t] = target[t]]
        /\ Placed(call[t], at[t], latest[t], target[t])
    BY DEF TypeInv
  <1> QED
    BY <1>1, <1>2, <1>3

LEMMA ExistsTyped ==
    ASSUME Sensible, TypeInv, NEW t \in Threads, Exists(t)
    PROVE  TypeInv'
  <1> DEFINE c == call[t]
             n == latest[t]
             v == target[t]
  <1>1. /\ pc[t] = "crit" /\ UNCHANGED <<pc, call, disk, latest, target, life>>
    BY DEF Exists, Inner, lockVars
  <1>2. \/ at' = [at EXCEPT ![t] = "answered"]
        \/ c.op = "create" /\ at' = [at EXCEPT ![t] = "mkdir"]
        \/ c.op = "destroy" /\ at' = [at EXCEPT ![t] = "remove"]
        \/ c.op \in {"update", "commit"} /\ at' = [at EXCEPT ![t] = "read"]
        \/ /\ c.op \in {"history", "currentversion", "checkout", "upgrade", "rollback", "push"}
           /\ at' = [at EXCEPT ![t] = "version"]
    BY DEF Exists, Respond, Goto
  <1>3. PICK stage \in StageSet :
          /\ at' = [at EXCEPT ![t] = stage]
          /\ \/ stage = "answered"
             \/ c.op \in {"update", "commit"} /\ stage = "read"
             \/ /\ c.op \in {"history", "currentversion", "checkout", "upgrade", "rollback", "push"}
                /\ stage = "version"
             \/ c.op = "create" /\ stage = "mkdir"
             \/ c.op = "destroy" /\ stage = "remove"
    BY <1>2, ScriptSteps, StageNames
  <1>4. n \in Versions /\ v \in Int /\ life' \in {"up", "killed", "exit", "fault"}
    BY <1>1 DEF TypeInv
  <1>5. Placed(c, stage, n, v)
    BY <1>3, <1>4, ScriptSteps DEF Placed, Writers
  <1>6. /\ TypedDir(Dir(t)) /\ disk' = [disk EXCEPT ![c.proj] = Dir(t)]
        /\ latest' = [latest EXCEPT ![t] = n] /\ target' = [target EXCEPT ![t] = v]
    BY <1>1, HereTyped
  <1> HIDE DEF c, n, v
  <1> QED
    BY <1>1, <1>3, <1>4, <1>5, <1>6, InsideTyped DEF c

LEMMA ReadVersionTyped ==
    ASSUME Sensible, TypeInv, NEW t \in Threads, ReadVersion(t)
    PROVE  TypeInv'
  <1> DEFINE c == call[t]
  <1>1. /\ pc[t] = "crit" /\ at[t] = "version" /\ UNCHANGED <<pc, call, disk>>
        /\ TypedDir(Dir(t)) /\ disk' = [disk EXCEPT ![c.proj] = Dir(t)]
        /\ c \in Calls
        /\ c.op \in {"history", "currentversion", "checkout", "upgrade", "rollback", "push"}
    BY HereTyped DEF ReadVersion, Inner, lockVars, Placed
  <1>2. CASE Dir(t).cur = NoFile
    <2>1. /\ life' = "exit" /\ UNCHANGED <<at, latest, target>>
      BY <1>2 DEF ReadVersion, End
    <2> QED
      BY <1>1, <2>1, HereTyped, InsideTyped
  <1>3. CASE Dir(t).cur # NoFile
    <2>1. PICK n \in VersionsRead(Dir(t)), version \in Parsed(c.arg) :
            /\ latest' = [latest EXCEPT ![t] = n]
            /\ target' = [target EXCEPT ![t] = IF c.op = "rollback" THEN version ELSE @]
            /\ \/ at' = [at EXCEPT ![t] = "answered"]
               \/ c.op = "push" /\ c.arg = n + 1 /\ at' = [at EXCEPT ![t] = "mkdir"]
               \/ /\ c.op = "rollback" /\ version < n /\ version # 0
                  /\ at' = [at EXCEPT ![t] = "delete"]
               \/ c.op \notin {"push", "rollback"} /\ at' = [at EXCEPT ![t] = "read"]
            /\ life' = life
      BY <1>3 DEF ReadVersion, Respond, Goto
    <2> DEFINE v == IF c.op = "rollback" THEN version ELSE target[t]
    <2>2. n \in Versions
      BY <1>1, <1>3 DEF VersionsRead, TypedDir, Versions
    <2>3. c.arg \in Nat /\ version \in Nat /\ c.arg <= version
      <3>1. c.arg \in Nat
        BY <1>1, CallParts
      <3>2. \A arg \in Nat, digit \in 0..9 : 10 * arg + digit \in Nat /\ arg <= 10 * arg + digit
        OBVIOUS
      <3>3. version = c.arg \/ \E digit \in 0..9 : version = 10 * c.arg + digit
        BY ArgsAssumption DEF Parsed
      <3> HIDE DEF c
      <3> QED
        BY <3>1, <3>2, <3>3
    <2>4. v \in Int /\ target' = [target EXCEPT ![t] = v]
      BY <2>1, <2>3 DEF TypeInv
    <2>5. PICK stage \in StageSet :
            /\ at' = [at EXCEPT ![t] = stage]
            /\ \/ stage = "answered"
               \/ c.op \notin {"push", "rollback"} /\ stage = "read"
               \/ c.op = "push" /\ c.arg = n + 1 /\ stage = "mkdir"
               \/ c.op = "rollback" /\ version < n /\ stage = "delete"
      BY <2>1, StageNames
    <2>6. c.op = "rollback" /\ version < n => c.arg \in Versions
      BY <2>2, <2>3, ArgsAssumption DEF Versions
    <2>7. Placed(c, stage, n, v)
      BY <1>1, <2>2, <2>3, <2>4, <2>5, <2>6, ScriptSteps DEF Placed, Writers
    <2>8. life' \in {"up", "killed", "exit", "fault"}
      BY <2>1 DEF TypeInv
    <2> HIDE DEF v, c
    <2> QED
      BY <1>1, <2>1, <2>4, <2>5, <2>7, <2>8, InsideTyped DEF c
  <1> QED
    BY <1>2, <1>3

LEMMA ReadTyped ==
    ASSUME Sensible, TypeInv, NEW t \in Threads, Read(t)
    PROVE  TypeInv'
  <1>1. /\ pc[t] = "crit" /\ at[t] = "read"
        /\ UNCHANGED <<pc, call, disk, latest, target>>
    BY DEF Read, Inner, lockVars
  <1>2. /\ \/ at' = [at EXCEPT ![t] = "answered"]
           \/ at' = at
        /\ life' \in {life, "exit", "fault"}
    <2>1. call[t].op \in {"history", "currentversion", "checkout", "update", "upgrade", "commit"}
      BY <1>1, HereTyped DEF Placed
    <2>2. CASE call[t].op = "history"
      BY <2>2 DEF Read, History, Currentversion, Checkout, Update, Upgrade, Commit,
                  SendFiles, Decline, Respond, End
    <2>3. CASE call[t].op = "currentversion"
      BY <2>3 DEF Read, History, Currentversion, Checkout, Update, Upgrade, Commit,
                  SendFiles, Decline, Respond, End
    <2>4. CASE call[t].op = "checkout"
      BY <2>4 DEF Read, History, Currentversion, Checkout, Update, Upgrade, Commit,
                  SendFiles, Decline, Respond, End
    <2>5. CASE call[t].op = "update"
      BY <2>5 DEF Read, History, Currentversion, Checkout, Update, Upgrade, Commit,
                  SendFiles, Decline, Respond, End
    <2>6. CASE call[t].op = "upgrade"
      BY <2>6 DEF Read, History, Currentversion, Checkout, Update, Upgrade, Commit,
                  SendFiles, Decline, Respond, End
    <2>7. CASE call[t].op = "commit"
      BY <2>7 DEF Read, History, Currentversion, Checkout, Update, Upgrade, Commit,
                  SendFiles, Decline, Respond, End
    <2> QED
      BY <2>1, <2>2, <2>3, <2>4, <2>5, <2>6, <2>7
  <1>3. PICK stage \in StageSet : at' = [at EXCEPT ![t] = stage] /\ stage \in {"answered", "read"}
    BY <1>1, <1>2, HereTyped, StageNames
  <1>4. Placed(call[t], stage, latest[t], target[t])
    BY <1>1, <1>3, ScriptSteps, HereTyped DEF Placed
  <1>5. life' \in {"up", "killed", "exit", "fault"}
    BY <1>2 DEF TypeInv
  <1> QED
    BY <1>1, <1>3, <1>4, <1>5, HereTyped, InsideTyped

\* The handler goes on to the next step of its script, or answers.
LEMMA ProceedTyped ==
    ASSUME Sensible, TypeInv, NEW t \in Threads, call[t].op \in Writers,
           NEW stage \in Steps(call[t].op), at[t] = stage, Proceed(t, stage),
           call[t].op # "rollback" \/ stage # "delete"
    PROVE  \E s \in StageSet :
              at' = [at EXCEPT ![t] = s] /\ Placed(call[t], s, latest[t], target[t])
  <1> DEFINE c == call[t]
             s == Following(c.op, stage)
  <1>1. Placed(c, stage, latest[t], target[t])
    BY HereTyped
  <1>2. at' = [at EXCEPT ![t] = s]
    BY DEF Proceed, Succeed, Respond, Goto
  <1>3. s \in Steps(c.op) \cup {"answered"} /\ s # "delete"
    BY NextStep
  <1>4. s \in StageSet
    BY <1>3, StageNames
  <1> HIDE DEF s
  <1>5. Placed(c, s, latest[t], target[t])
    BY <1>1, <1>3, ScriptSteps DEF Placed, Writers
  <1> QED
    BY <1>2, <1>4, <1>5

\* Where a handler has answered, nothing is asked of its locals but their types.
LEMMA AnsweredTyped ==
    ASSUME Sensible, TypeInv, NEW t \in Threads
    PROVE  Placed(call[t], "answered", latest[t], target[t])
  BY HereTyped, ScriptSteps DEF Placed

\* The loop of rollback counts down to its target.
LEMMA GoOnTyped ==
    ASSUME Sensible, TypeInv, NEW t \in Threads, call[t].op \in Writers,
           NEW stage \in Steps(call[t].op), at[t] = stage, GoOn(t, stage)
    PROVE  \E s \in StageSet, n \in Versions :
              /\ at' = [at EXCEPT ![t] = s] /\ latest' = [latest EXCEPT ![t] = n]
              /\ Placed(call[t], s, n, target[t])
  <1> DEFINE c == call[t]
             v == target[t]
  <1>1. Placed(c, stage, latest[t], v) /\ latest[t] \in Versions
    BY HereTyped DEF Placed
  <1>2. CASE stage = "delete"
    <2> DEFINE n == latest[t] - 1
               s == IF n > v THEN "delete" ELSE "untar"
    <2>1. c.op = "rollback"
      BY <1>2, ScriptSteps DEF Writers
    <2>2. v \in Nat /\ v < latest[t] /\ c.arg \in Versions
      BY <1>1, <1>2, <2>1 DEF Placed
    <2>3. n \in Versions
      BY <1>1, <2>2, ArgsAssumption DEF Versions
    <2>4. at' = [at EXCEPT ![t] = s] /\ latest' = [latest EXCEPT ![t] = n]
      BY <1>2 DEF GoOn, Goto, CountedDown
    <2>5. s \in StageSet
      BY StageNames
    <2>6. n \in Int /\ (s = "delete" => v < n) /\ s \in {"delete", "untar"}
      BY <2>2, <2>3 DEF Versions
    <2> HIDE DEF n, s
    <2>7. Placed(c, s, n, v)
      BY <2>1, <2>2, <2>3, <2>6, ScriptSteps DEF Placed, Writers
    <2> QED
      BY <2>3, <2>4, <2>5, <2>7
  <1>3. CASE stage # "delete"
    <2>1. Proceed(t, stage) /\ UNCHANGED latest
      BY <1>3 DEF GoOn
    <2> QED
      BY <1>1, <1>3, <2>1, ProceedTyped, HereTyped
  <1> QED
    BY <1>2, <1>3

LEMMA CreateKeepsTypes ==
    ASSUME Sensible, TypeInv, NEW t \in Threads, NEW stage \in Steps("create"), Create(t, stage)
    PROVE  TypeInv'
  <1> DEFINE e == CreateStep(Dir(t), stage)
  <1>1. /\ call[t].op = "create" /\ pc[t] = "crit" /\ at[t] = stage
        /\ UNCHANGED <<pc, call, latest, target, life>>
        /\ disk' = [disk EXCEPT ![call[t].proj] = e] /\ Proceed(t, stage)
    BY DEF Create, Inner, Change, lockVars
  <1>2. TypedDir(e)
    BY HereTyped, CreateTyped
  <1>3. PICK s \in StageSet :
          at' = [at EXCEPT ![t] = s] /\ Placed(call[t], s, latest[t], target[t])
    BY <1>1, ProceedTyped DEF Writers
  <1>4. life' \in {"up", "killed", "exit", "fault"}
    BY <1>1 DEF TypeInv
  <1> HIDE DEF e
  <1> QED
    BY <1>1, <1>2, <1>3, <1>4, HereTyped, InsideTyped

LEMMA DestroyKeepsTypes ==
    ASSUME Sensible, TypeInv, NEW t \in Threads, Destroy(t)
    PROVE  TypeInv'
  <1>1. /\ call[t].op = "destroy" /\ pc[t] = "crit" /\ at[t] = "remove"
        /\ UNCHANGED <<pc, call, latest, target, life>>
        /\ disk' = [disk EXCEPT ![call[t].proj] = Absent] /\ Proceed(t, "remove")
    BY DEF Destroy, Inner, Change, lockVars
  <1>2. PICK s \in StageSet :
          at' = [at EXCEPT ![t] = s] /\ Placed(call[t], s, latest[t], target[t])
    BY <1>1, ProceedTyped, ScriptSteps DEF Writers
  <1>3. life' \in {"up", "killed", "exit", "fault"}
    BY <1>1 DEF TypeInv
  <1> QED
    BY <1>1, <1>2, <1>3, FreshTyped, HereTyped, InsideTyped

LEMMA PushKeepsTypes ==
    ASSUME Sensible, TypeInv, NEW t \in Threads, NEW stage \in Steps("push"), Push(t, stage)
    PROVE  TypeInv'
  <1> DEFINE c == call[t]
             e == PushStep(Dir(t), stage, latest[t] + 1, Content(c.arg, c.id))
  <1>1. /\ c.op = "push" /\ pc[t] = "crit" /\ at[t] = stage
        /\ UNCHANGED <<pc, call, latest, target, life>>
        /\ disk' = [disk EXCEPT ![c.proj] = e] /\ Proceed(t, stage)
    BY DEF Push, Inner, Change, lockVars
  <1>2. latest[t] + 1 \in 1..MaxVersion
    <2>1. latest[t] \in Versions /\ latest[t] + 1 = c.arg
      BY <1>1, HereTyped DEF Placed
    <2>2. c.arg \in Versions
      BY <1>1, HereTyped, CallParts
    <2> QED
      BY <2>1, <2>2, ArgsAssumption DEF Versions
  <1>3. TypedDir(e)
    BY <1>1, <1>2, HereTyped, CallParts, PushTyped
  <1>4. PICK s \in StageSet :
          at' = [at EXCEPT ![t] = s] /\ Placed(c, s, latest[t], target[t])
    BY <1>1, ProceedTyped DEF Writers
  <1>5. life' \in {"up", "killed", "exit", "fault"}
    BY <1>1 DEF TypeInv
  <1> HIDE DEF e
  <1> QED
    BY <1>1, <1>3, <1>4, <1>5, HereTyped, InsideTyped

LEMMA RollbackKeepsTypes ==
    ASSUME Sensible, TypeInv, NEW t \in Threads, NEW stage \in Steps("rollback"),
           Rollback(t, stage)
    PROVE  TypeInv'
  <1> DEFINE c == call[t]
             e == RollbackStep(Dir(t), stage, latest[t], target[t], c.arg)
  <1>1. /\ c.op = "rollback" /\ pc[t] = "crit" /\ at[t] = stage
        /\ UNCHANGED <<pc, call, target, life>>
        /\ disk' = [disk EXCEPT ![c.proj] = e] /\ GoOn(t, stage)
    BY DEF Rollback, Inner, Change, lockVars
  <1>2. c.arg \in Versions
    BY <1>1, HereTyped DEF Placed
  <1>3. TypedDir(e)
    BY <1>2, HereTyped, RollbackTyped
  <1>4. PICK s \in StageSet, n \in Versions :
          /\ at' = [at EXCEPT ![t] = s] /\ latest' = [latest EXCEPT ![t] = n]
          /\ Placed(c, s, n, target[t])
    BY <1>1, GoOnTyped DEF Writers
  <1>5. life' \in {"up", "killed", "exit", "fault"}
    BY <1>1 DEF TypeInv
  <1> HIDE DEF e
  <1> QED
    BY <1>1, <1>3, <1>4, <1>5, HereTyped, InsideTyped

LEMMA NoArchiveKeepsTypes ==
    ASSUME Sensible, TypeInv, NEW t \in Threads, NoArchive(t)
    PROVE  TypeInv'
  <1>1. /\ pc[t] = "crit" /\ life' = "fault"
        /\ UNCHANGED <<pc, call, disk, at, latest, target>>
    BY DEF NoArchive, Inner, End, lockVars
  <1> QED
    BY <1>1, HereTyped, InsideTyped

LEMMA CallFailsKeepsTypes ==
    ASSUME Sensible, TypeInv, NEW t \in Threads, NEW stage \in StageSet, CallFails(t, stage)
    PROVE  TypeInv'
  <1> DEFINE c == call[t]
  <1>1. /\ pc[t] = "crit" /\ at[t] = stage /\ <<c.op, stage>> \in Failing
        /\ UNCHANGED <<pc, call, disk, target, life>>
    BY DEF CallFails, Inner, lockVars
  <1>2. c.op \in Writers
    BY <1>1, FailingAssumption DEF Writers
  <1>3. stage \in Steps(c.op)
    BY <1>1, <1>2 DEF Sensible
  <1>4. \/ at' = [at EXCEPT ![t] = "answered"] /\ UNCHANGED latest
        \/ GoOn(t, stage)
    BY DEF CallFails, CreateFails, Succeed, Respond
  <1>5. \E s \in StageSet, n \in Versions :
          /\ at' = [at EXCEPT ![t] = s] /\ latest' = [latest EXCEPT ![t] = n]
          /\ Placed(c, s, n, target[t])
    <2>1. CASE at' = [at EXCEPT ![t] = "answered"] /\ UNCHANGED latest
      <3>1. latest[t] \in Versions /\ Placed(c, "answered", latest[t], target[t])
        BY AnsweredTyped DEF TypeInv
      <3> QED
        BY <2>1, <3>1, HereTyped, StageNames
    <2>2. CASE GoOn(t, stage)
      BY <1>1, <1>2, <1>3, <2>2, GoOnTyped
    <2> QED
      BY <1>4, <2>1, <2>2
  <1>6. life' \in {"up", "killed", "exit", "fault"}
    BY <1>1 DEF TypeInv
  <1> QED
    BY <1>1, <1>5, <1>6, HereTyped, InsideTyped

----------------------------------------------------------------------------
(* The other steps. *)

LEMMA OutsideTyped ==
    ASSUME TypeOK, TypeInv, NEW t \in Threads,
           (\E c \in Calls : Arrive(t, c)) \/ FindLock(t) \/ CallLock(t)
    PROVE  TypeInv'
  <1>1. /\ pc[t] \in {"idle", "lookup", "got"}
        /\ pc' \in {[pc EXCEPT ![t] = next] : next \in {"lookup", "got", "wait"}}
        /\ call' = call \/ \E c \in Calls : call' = [call EXCEPT ![t] = c]
        /\ UNCHANGED <<disk, at, latest, target, life>>
    BY DEF Arrive, Receive, FindLock, CallLock, Lookup, Request
  <1>2. /\ pc'[t] # "crit" /\ at[t] = "none" /\ call' \in [Threads -> Calls]
        /\ \A u \in Threads : u # t => pc'[u] = pc[u] /\ call'[u] = call[u]
    BY <1>1 DEF TypeOK, TypeInv
  <1>3. \A u \in Threads : Placed(call'[u], at'[u], latest'[u], target'[u])
    <2> TAKE u \in Threads
    <2>1. CASE u = t
      BY <1>1, <1>2, <2>1, ScriptSteps DEF Placed, TypeInv
    <2>2. CASE u # t
      BY <1>1, <1>2, <2>2 DEF TypeInv
    <2> QED
      BY <2>1, <2>2
  <1> QED
    BY <1>1, <1>2, <1>3 DEF TypeInv

LEMMA EnterTyped ==
    ASSUME TypeOK, TypeInv, NEW t \in Threads, Enter(t)
    PROVE  TypeInv'
  <1>1. /\ pc' = [pc EXCEPT ![t] = "crit"] /\ at' = [at EXCEPT ![t] = "exists"]
        /\ UNCHANGED <<disk, call, latest, target, life>>
    BY DEF Enter, Acquire
  <1>2. at' \in [Threads -> StageSet]
    BY <1>1, StageNames DEF TypeInv
  <1>3. ASSUME NEW u \in Threads
        PROVE  /\ Placed(call'[u], at'[u], latest'[u], target'[u])
               /\ pc'[u] # "crit" => at'[u] = "none"
    <2>1. CASE u = t
      BY <1>1, <2>1, ScriptSteps DEF Placed, TypeInv, TypeOK
    <2>2. CASE u # t
      BY <1>1, <2>2 DEF TypeInv, TypeOK
    <2> QED
      BY <2>1, <2>2
  <1> QED
    BY <1>1, <1>2, <1>3 DEF TypeInv

LEMMA LeaveTyped ==
    ASSUME TypeOK, TypeInv, NEW t \in Threads, Leave(t)
    PROVE  TypeInv'
  <1>1. /\ pc' = [pc EXCEPT ![t] = "idle"] /\ at' = [at EXCEPT ![t] = "none"]
        /\ latest' = [latest EXCEPT ![t] = 0] /\ target' = [target EXCEPT ![t] = 0]
        /\ UNCHANGED <<disk, call, life>>
    BY DEF Leave, Release
  <1>2. 0 \in Versions
    BY ArgsAssumption DEF Versions
  <1>3. /\ at' \in [Threads -> StageSet] /\ latest' \in [Threads -> Versions]
        /\ target' \in [Threads -> Int]
    BY <1>1, <1>2, StageNames DEF TypeInv
  <1>4. ASSUME NEW u \in Threads
        PROVE  /\ Placed(call'[u], at'[u], latest'[u], target'[u])
               /\ pc'[u] # "crit" => at'[u] = "none"
    <2>1. CASE u = t
      BY <1>1, <1>2, <2>1, ScriptSteps DEF Placed, TypeInv, TypeOK
    <2>2. CASE u # t
      BY <1>1, <2>2 DEF TypeInv, TypeOK
    <2> QED
      BY <2>1, <2>2
  <1> QED
    BY <1>1, <1>3, <1>4 DEF TypeInv

LEMMA StartTyped ==
    ASSUME TypeInv, Start
    PROVE  TypeInv'
  <1>1. /\ at' = [t \in Threads |-> "none"] /\ latest' = [t \in Threads |-> 0]
        /\ target' = [t \in Threads |-> 0] /\ life' = "up" /\ UNCHANGED <<disk, call>>
    BY DEF Start
  <1>2. 0 \in Versions /\ "none" \in StageSet
    BY ArgsAssumption, StageNames DEF Versions
  <1>3. \A t \in Threads : Placed(call'[t], "none", 0, 0)
    BY <1>2, ScriptSteps DEF Placed
  <1> QED
    BY <1>1, <1>2, <1>3 DEF TypeInv

LEMMA TypeStep ==
    ASSUME Sensible, TypeOK, TypeInv, [ServerNext]_serverVars
    PROVE  TypeInv'
  <1>1. CASE UNCHANGED serverVars
    BY <1>1 DEF serverVars, lockVars, TypeInv
  <1>2. ASSUME NEW t \in Threads, Handler(t)
        PROVE  TypeInv'
    BY <1>2, ExistsTyped, ReadVersionTyped, ReadTyped, DestroyKeepsTypes, CreateKeepsTypes,
       PushKeepsTypes, RollbackKeepsTypes, NoArchiveKeepsTypes, CallFailsKeepsTypes
       DEF Handler
  <1>3. ASSUME NEW t \in Threads, (\E c \in Calls : Arrive(t, c)) \/ ThreadStep(t)
        PROVE  TypeInv'
    BY <1>2, <1>3, OutsideTyped, EnterTyped, LeaveTyped DEF ThreadStep
  <1>4. CASE Kill
    BY <1>4 DEF Kill, lockVars, TypeInv
  <1>5. CASE Start
    BY <1>5, StartTyped
  <1> QED
    BY <1>1, <1>3, <1>4, <1>5 DEF ServerNext

LEMMA TypeInit ==
    ASSUME Sensible, ServerInit
    PROVE  TypeInv
  <1>1. /\ disk \in [Projects -> {Absent, Created}]
        /\ call = [t \in Threads |-> CHOOSE x \in Calls : TRUE]
        /\ at = [t \in Threads |-> "none"] /\ latest = [t \in Threads |-> 0]
        /\ target = [t \in Threads |-> 0] /\ life = "up"
    BY DEF ServerInit
  <1>2. (CHOOSE x \in Calls : TRUE) \in Calls
    BY DEF Sensible
  <1>3. call \in [Threads -> Calls]
    BY <1>1, <1>2
  <1>4. 0 \in Versions /\ "none" \in StageSet
    BY ArgsAssumption, StageNames DEF Versions
  <1>5. \A t \in Threads : Placed(call[t], "none", 0, 0)
    BY <1>4, ScriptSteps DEF Placed
  <1>6. disk = [p \in Projects |-> disk[p]] /\ \A p \in Projects : TypedDir(disk[p])
    BY <1>1, FreshTyped
  <1> QED
    BY <1>1, <1>3, <1>4, <1>5, <1>6 DEF TypeInv

LEMMA TypedIsTypeOK ==
    ASSUME TypeOK, TypeInv
    PROVE  ServerTypeOK
  <1>1. ASSUME NEW d, TypedDir(d)
        PROVE  DOMAIN d = DOMAIN Absent
    <2>1. d = [dir |-> d.dir, cur |-> d.cur, vers |-> d.vers,
               man |-> d.man, com |-> d.com, files |-> d.files]
      BY <1>1 DEF TypedDir, Shaped
    <2> QED
      BY <2>1 DEF Absent
  <1> QED
    BY <1>1 DEF ServerTypeOK, TypeInv, TypedDir, TypedVers, Files

\* Whatever handlers run together, fail half-way or die, each version number stays
\* between 0 and the highest that was pushed, each file holds what some push sent or
\* nothing, and the countdown of rollback ends at its target (logic.c:354-392).
THEOREM ServerTypeCorrect ==
    ASSUME Sensible
    PROVE  ServerSpec => []ServerTypeOK
  <1>1. ServerInit => TypeInv
    BY TypeInit
  <1>2. TypeOK /\ TypeInv /\ [ServerNext]_serverVars => TypeInv'
    BY TypeStep
  <1>3. TypeOK /\ TypeInv => ServerTypeOK
    BY TypedIsTypeOK
  <1> QED
    BY <1>1, <1>2, <1>3, ServerUsesLocks, TypeCorrect, PTL DEF ServerSpec
==============================================================================
