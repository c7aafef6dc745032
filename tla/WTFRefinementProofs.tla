------------------------- MODULE WTFRefinementProofs -------------------------
(***************************************************************************)
(* What TLAPS proves of WTFServer against Repository, for any set of       *)
(* projects, pushes and version numbers: each operation acts at one        *)
(* instant on the sequence of a project's versions, and the server never   *)
(* ends itself.                                                            *)
(***************************************************************************)
EXTENDS WTFServerProofs, WTFServerRefinement, SequenceTheorems

\* Where this holds.  No call fails, rollback's numbers are not negative, no push has
\* the id that stands for no content; and either the server is not killed, or it is
\* with readers and pushes only, and not inside the write of Currentversion.
Promised ==
    /\ Stated /\ Failing = {} /\ Args \subseteq Nat /\ NoId \notin Ids /\ NoCall \notin Calls
    /\ \/ MaxRestarts = 0
       \/ /\ ~TornWrites
          /\ Ops \subseteq {"history", "currentversion", "checkout", "upgrade", "push"}

----------------------------------------------------------------------------
(* The strengthening. *)

\* The versions up to n are there, whole.
Complete(d, n) == \A v \in 1..n : v \in DOMAIN d.vers /\ Whole(d, v)

\* The content of version n, and of a project nothing was pushed to.
Top(d, n) == IF n = 0 THEN Initial ELSE FileOf(d, n, "tar")

\* The versions up to n, as clients see them.
Listed(d, n) == [v \in 1..n |-> FileOf(d, v, "tar")]

\* Curr has the files of version n, and no version comes after it.  (Not where a push
\* may have been killed, which leaves its own files and a version.)
CurrHolds(d, n) ==
    MaxRestarts = 0 =>
        /\ d.man = Top(d, n)
        /\ n # 0 => d.com = Top(d, n) /\ Top(d, n) \in d.files
UpTo(d, n) == MaxRestarts = 0 => DOMAIN d.vers \subseteq 1..n

\* A project no writer is at work in.
Rest(d) ==
    /\ d.dir =>
          /\ d.cur \in Nat /\ Complete(d, d.cur)
          /\ CurrHolds(d, d.cur) /\ UpTo(d, d.cur)
    /\ ~d.dir => d.cur = NoFile

\* A handler's script is under way.
Underway(c, stage) == c.op \in Writers /\ stage \in Steps(c.op)

Doing(d, c, stage, n, reply) ==
    /\ stage # "answered" => reply = NoResponse
    /\ stage = "answered" => reply.code # -1
    /\ stage = "answered" /\ reply.code = 400 => d.cur = c.arg /\ c.arg > 0
    /\ stage \in {"version", "read", "remove"} => d.dir
    /\ stage = "read" /\ c.op \notin {"update", "commit"} => n = d.cur
    /\ c.op = "destroy" /\ stage = "remove" => Rest(d)
    /\ c.op = "push" /\ stage \in Steps("push") =>
          /\ d.dir /\ c.arg > 0 /\ Complete(d, c.arg - 1) /\ UpTo(d, c.arg)
          /\ d.cur = c.arg - 1 \/ (stage = "currentversion" /\ TornWrites)
    /\ c.op = "rollback" /\ stage \in Steps("rollback") =>
          /\ d.dir /\ c.arg > 0 /\ Complete(d, c.arg)
          /\ stage = "delete" =>
                /\ n \in Int /\ d.cur \in Int /\ c.arg < n /\ n <= d.cur
                /\ Complete(d, n) /\ UpTo(d, n)
          /\ stage # "delete" => UpTo(d, c.arg)
          /\ stage \in {"truncate", "currentversion"} => CurrHolds(d, c.arg)
    /\ c.op = "create" /\ stage \in Steps("create") => d.cur \in {NoFile, Truncated}

Busy(p) ==
    \E t \in Threads : pc[t] = "crit" /\ call[t].proj = p /\ Underway(call[t], at[t])

RepoInv ==
    /\ \A p \in Projects : Rest(disk[p]) \/ Busy(p)
    /\ \A t \in Threads :
          /\ pc[t] = "crit" => Doing(Dir(t), call[t], at[t], latest[t], answer[t])
          /\ pc[t] # "crit" => answer[t] = NoResponse
    /\ life \in {"up", "killed"}
    /\ life = "killed" => MaxRestarts # 0

----------------------------------------------------------------------------
(* The data. *)

\* Requests carry natural numbers.
LEMMA ArgIsNat ==
    ASSUME Promised, NEW c \in Calls
    PROVE  c.arg \in Nat
  <1>1. c.arg \in {0} \/ c.arg \in Args \/ c.arg \in 1..MaxVersion
    BY DEF Calls
  <1>2. {0} \subseteq Nat /\ Args \subseteq Nat /\ 1..MaxVersion \subseteq Nat
    BY ArgsAssumption DEF Promised
  <1> QED
    BY <1>1, <1>2, Zenon

\* The files of a whole version are there, and are one content.
LEMMA WholeFiles ==
    ASSUME NEW d, NEW v \in Int, v \in DOMAIN d.vers, Whole(d, v)
    PROVE  /\ FileOf(d, v, "man") = FileOf(d, v, "tar")
           /\ FileOf(d, v, "com") = FileOf(d, v, "tar")
           /\ FileOf(d, v, "tar") # NoFile
  <1>1. PICK id \in Ids :
          d.vers[v] = [name \in {"man", "tar", "com"} |-> Content(v, id)]
    BY DEF Whole, VersionOf
  <1>2. /\ FileOf(d, v, "man") = Content(v, id) /\ FileOf(d, v, "tar") = Content(v, id)
        /\ FileOf(d, v, "com") = Content(v, id)
    BY <1>1 DEF FileOf
  <1> HIDE DEF FileOf
  <1>3. Content(v, id) # NoFile
    BY MarksAssumption DEF Content
  <1> QED
    BY <1>2, <1>3

\* A push changes one version, and keeps that one.
LEMMA PushLeaves ==
    ASSUME NEW d, Shaped(d), NEW new, NEW x, NEW stage \in Steps("push"),
           stage # "mkdir" => new \in DOMAIN d.vers,
           NEW e, e = PushStep(d, stage, new, x)
    PROVE  /\ e.dir = d.dir
           /\ DOMAIN e.vers = DOMAIN d.vers \cup {new}
           /\ \A v \in DOMAIN d.vers : v # new => v \in DOMAIN e.vers /\ e.vers[v] = d.vers[v]
  <1> USE ScriptSteps
  <1>1. CASE stage = "mkdir"
    BY <1>1, MakeVersionSets DEF PushStep
  <1>2. CASE stage = "manifest"
    BY <1>2, PutFileSets DEF PushStep
  <1>3. CASE stage = "tar"
    BY <1>3, PutFileSets DEF PushStep
  <1>4. CASE stage = "clear"
    <2>1. e = SetFiles(d, {})
      BY <1>4 DEF PushStep, SetFiles
    <2> QED
      BY <1>4, <2>1, SetField
  <1>5. CASE stage = "untar"
    BY <1>5, ExtractSets DEF PushStep
  <1>6. CASE stage = "copycommit"
    BY <1>6, PutFileSets DEF PushStep
  <1>7. CASE stage = "copymanifest"
    <2>1. e = SetMan(d, FileOf(d, new, "man"))
      BY <1>7 DEF PushStep, SetMan
    <2> QED
      BY <1>7, <2>1, SetField
  <1>8. CASE stage = "truncate"
    <2>1. e = SetCur(d, Truncated)
      BY <1>8 DEF PushStep, SetCur
    <2> QED
      BY <1>8, <2>1, SetField
  <1>9. CASE stage = "currentversion"
    <2>1. e = SetCur(d, new)
      BY <1>9 DEF PushStep, SetCur
    <2> QED
      BY <1>9, <2>1, SetField
  <1> QED
    BY <1>1, <1>2, <1>3, <1>4, <1>5, <1>6, <1>7, <1>8, <1>9

\* A rollback to old deletes the latest version, and nothing else.
LEMMA RollbackLeaves ==
    ASSUME NEW d, Shaped(d), NEW n, NEW old, NEW stage \in Steps("rollback"),
           FileOf(d, old, "tar") # NoFile,
           NEW e, e = RollbackStep(d, stage, n, old, old)
    PROVE  /\ e.dir = d.dir
           /\ stage = "delete" =>
                 /\ DOMAIN e.vers = DOMAIN d.vers \ {n}
                 /\ \A v \in DOMAIN e.vers : e.vers[v] = d.vers[v]
           /\ stage # "delete" => e.vers = d.vers
           /\ stage = "untar" =>
                 LET x == FileOf(d, old, "tar") IN e.man = x /\ e.com = x /\ x \in e.files
           /\ stage \in {"truncate", "currentversion"} =>
                 e.man = d.man /\ e.com = d.com /\ e.files = d.files
  <1> USE ScriptSteps
  <1>1. CASE stage = "delete"
    BY <1>1, RemoveVersionSets DEF RollbackStep
  <1>2. CASE stage = "untar"
    BY <1>2, ExtractSets DEF RollbackStep
  <1>3. CASE stage = "truncate"
    <2>1. e = SetCur(d, Truncated)
      BY <1>3 DEF RollbackStep, SetCur
    <2> QED
      BY <1>3, <2>1, SetField
  <1>4. CASE stage = "currentversion"
    <2>1. e = SetCur(d, old)
      BY <1>4 DEF RollbackStep, SetCur
    <2> QED
      BY <1>4, <2>1, SetField
  <1> QED
    BY <1>1, <1>2, <1>3, <1>4

\* Versions that the two directories have alike.
LEMMA CompleteAlike ==
    ASSUME NEW d, NEW e, NEW n \in Nat, Complete(d, n),
           \A v \in 1..n : v \in DOMAIN e.vers /\ e.vers[v] = d.vers[v]
    PROVE  Complete(e, n)
  BY DEF Complete, Whole

----------------------------------------------------------------------------
(* The steps. *)

\* No writer is at work in the project of a handler that is not at work itself.
LEMMA RestHere ==
    ASSUME StorageInv, ProjectExclusion, RepoInv, NEW t \in Threads, pc[t] = "crit",
           ~Underway(call[t], at[t])
    PROVE  Rest(Dir(t))
  <1> SUFFICES ASSUME ~Rest(Dir(t)) PROVE FALSE
    OBVIOUS
  <1>1. call[t].proj \in Projects
    BY DirHere
  <1>2. PICK u \in Threads : /\ pc[u] = "crit" /\ call[u].proj = call[t].proj
                            /\ Underway(call[u], at[u])
    BY <1>1 DEF RepoInv, Busy, Dir
  <1> QED
    BY <1>2, Alone DEF Underway

\* A step inside a handler keeps the invariant if it keeps it for its project.
LEMMA InsideRepo ==
    ASSUME StorageInv, ProjectExclusion, RepoInv, NEW t \in Threads, pc[t] = "crit",
           Touches(t), UNCHANGED life,
           NEW e, disk'[call[t].proj] = e,
           e # Dir(t) => call[t].op \in Writers,
           Rest(e) \/ Underway(call[t], at'[t]),
           Doing(e, call[t], at'[t], latest'[t], answer'[t])
    PROVE  RepoInv'
  <1>0. /\ call[t].proj \in Projects
        /\ UNCHANGED <<pc, call>>
        /\ \A p \in Projects : p # call[t].proj => disk'[p] = disk[p]
        /\ \A u \in Threads : u # t =>
              at'[u] = at[u] /\ latest'[u] = latest[u] /\ answer'[u] = answer[u]
    BY DirHere DEF Touches
  <1>1. ASSUME NEW p \in Projects
        PROVE  Rest(disk'[p]) \/ Busy(p)'
    <2>1. CASE p = call[t].proj
      BY <1>0, <2>1 DEF Busy
    <2>2. CASE p # call[t].proj
      <3>1. Busy(p) => Busy(p)'
        BY <1>0, <2>2 DEF Busy
      <3> QED
        BY <1>0, <2>2, <3>1 DEF RepoInv
    <2> QED
      BY <2>1, <2>2
  <1>2. ASSUME NEW u \in Threads
        PROVE  /\ pc'[u] = "crit" => Doing(Dir(u)', call'[u], at'[u], latest'[u], answer'[u])
               /\ pc'[u] # "crit" => answer'[u] = NoResponse
    <2>1. CASE u = t
      <3>1. Dir(u)' = e
        BY <1>0, <2>1 DEF Dir
      <3> QED
        BY <1>0, <2>1, <3>1
    <2>2. CASE u # t
      <3>1. pc[u] = "crit" => Dir(u)' = Dir(u)
        BY <2>2, OthersSee
      <3> QED
        BY <1>0, <2>2, <3>1 DEF RepoInv
    <2> QED
      BY <2>1, <2>2
  <1> QED
    BY <1>1, <1>2 DEF RepoInv

\* A step outside the handlers keeps it.
LEMMA OutsideRepo ==
    ASSUME RepoInv, NEW t \in Threads, pc[t] = "crit" => ~Underway(call[t], at[t]),
           UNCHANGED <<disk, life>>,
           \A u \in Threads : u # t =>
              /\ pc'[u] = pc[u] /\ call'[u] = call[u] /\ at'[u] = at[u]
              /\ latest'[u] = latest[u] /\ answer'[u] = answer[u],
           IF pc'[t] = "crit" THEN Doing(Dir(t)', call'[t], at'[t], latest'[t], answer'[t])
                              ELSE answer'[t] = NoResponse
    PROVE  RepoInv'
  <1>1. ASSUME NEW p \in Projects
        PROVE  Rest(disk'[p]) \/ Busy(p)'
    <2>1. Busy(p) => Busy(p)'
      BY DEF Busy
    <2> QED
      BY <2>1 DEF RepoInv
  <1>2. ASSUME NEW u \in Threads
        PROVE  /\ pc'[u] = "crit" => Doing(Dir(u)', call'[u], at'[u], latest'[u], answer'[u])
               /\ pc'[u] # "crit" => answer'[u] = NoResponse
    <2>1. CASE u # t
      <3>1. Dir(u)' = Dir(u)
        BY <2>1 DEF Dir
      <3> QED
        BY <2>1, <3>1 DEF RepoInv
    <2> QED
      BY <2>1
  <1> QED
    BY <1>1, <1>2 DEF RepoInv

LEMMA ExistsRepo ==
    ASSUME StorageInv, ProjectExclusion, RepoInv, NEW t \in Threads, Exists(t)
    PROVE  RepoInv'
  <1> DEFINE d == Dir(t)
             c == call[t]
  <1>1. /\ pc[t] = "crit" /\ at[t] = "exists"
        /\ UNCHANGED <<lockVars, call, disk, latest, target, life>>
    BY DEF Exists, Inner
  <1>2. Touches(t)
    BY <1>1 DEF Exists, Touches, lockVars, Respond, Goto, StorageInv, Domains
  <1>3. answer[t] = NoResponse
    BY <1>1 DEF RepoInv, Doing
  <1>4. Rest(d)
    BY <1>1, RestHere, ScriptSteps DEF Underway, Writers
  <1>5. \/ at'[t] = "answered" /\ answer'[t].code \in {1, 999, 901}
        \/ c.op = "create" /\ ~d.dir /\ at'[t] = "mkdir" /\ answer'[t] = NoResponse
        \/ c.op = "destroy" /\ d.dir /\ at'[t] = "remove" /\ answer'[t] = NoResponse
        \/ c.op \in {"update", "commit"} /\ d.dir /\ at'[t] = "read" /\ answer'[t] = NoResponse
        \/ d.dir /\ at'[t] = "version" /\ answer'[t] = NoResponse
    BY <1>1, <1>3 DEF Exists, Respond, Response, Goto, StorageInv, Domains
  <1>6. Doing(d, c, at'[t], latest'[t], answer'[t])
    BY <1>4, <1>5, ScriptSteps DEF Doing, Rest
  <1> QED
    BY <1>1, <1>2, <1>4, <1>6, InsideRepo DEF Dir

\* The read of Currentversion, which is there.
LEMMA VersionRead ==
    ASSUME Promised, StorageInv, ProjectExclusion, RepoInv, NEW t \in Threads, ReadVersion(t)
    PROVE  /\ Touches(t) /\ UNCHANGED <<lockVars, call, disk, life>>
           /\ pc[t] = "crit" /\ at[t] = "version" /\ answer[t] = NoResponse
           /\ Rest(Dir(t)) /\ Dir(t).dir /\ Dir(t).cur \in Nat /\ latest'[t] = Dir(t).cur
           /\ LET c == call[t]
                  n == Dir(t).cur
              IN  \/ c.op = "push" /\ c.arg # n + 1 /\ Respond(t, 902, << >>)
                  \/ c.op = "push" /\ c.arg = n + 1 /\ Goto(t, "mkdir")
                  \/ c.op = "rollback" /\ c.arg \notin 1..n /\ Respond(t, 401, << >>)
                  \/ c.op = "rollback" /\ c.arg = n /\ n # 0 /\ Respond(t, 400, << >>)
                  \/ c.op = "rollback" /\ c.arg \in 1..(n - 1) /\ Goto(t, "delete")
                  \/ c.op \notin {"push", "rollback"} /\ Goto(t, "read")
  <1> DEFINE d == Dir(t)
             c == call[t]
  <1>1. pc[t] = "crit" /\ at[t] = "version" /\ UNCHANGED <<lockVars, call, disk>>
    BY DEF ReadVersion, Inner
  <1>2. Touches(t)
    BY <1>1 DEF ReadVersion, Touches, lockVars, Respond, Goto, End, StorageInv, Domains
  <1>3. answer[t] = NoResponse /\ d.dir
    BY <1>1 DEF RepoInv, Doing
  <1>4. Rest(d)
    BY <1>1, RestHere, ScriptSteps DEF Underway, Writers
  <1>5. d.cur \in Nat /\ d.cur # NoFile /\ d.cur # Truncated
    BY <1>3, <1>4, MarksAssumption DEF Rest
  <1>6. c.arg \in Nat
    BY <1>1, DirHere, ArgIsNat
  <1>7. VersionsRead(d) = {d.cur} /\ Parsed(c.arg) = {c.arg}
    BY <1>5 DEF VersionsRead, Parsed, Promised, Stated
  <1>8. /\ UNCHANGED life /\ latest'[t] = d.cur
        /\ \/ c.op = "push" /\ c.arg # d.cur + 1 /\ Respond(t, 902, << >>)
           \/ c.op = "push" /\ c.arg = d.cur + 1 /\ Goto(t, "mkdir")
           \/ c.op = "rollback" /\ (c.arg > d.cur \/ c.arg = 0) /\ Respond(t, 401, << >>)
           \/ c.op = "rollback" /\ c.arg = d.cur /\ c.arg # 0 /\ Respond(t, 400, << >>)
           \/ c.op = "rollback" /\ c.arg < d.cur /\ c.arg # 0 /\ Goto(t, "delete")
           \/ c.op \notin {"push", "rollback"} /\ Goto(t, "read")
    BY <1>5, <1>7 DEF ReadVersion, StorageInv, Domains
  <1> HIDE DEF d, c
  <1>9. /\ (c.arg > d.cur \/ c.arg = 0) => c.arg \notin 1..d.cur
        /\ c.arg < d.cur /\ c.arg # 0 => c.arg \in 1..(d.cur - 1)
    BY <1>5, <1>6
  <1>10. c.arg = d.cur /\ c.arg # 0 => d.cur # 0
    OBVIOUS
  <1> QED
    BY <1>1, <1>2, <1>3, <1>4, <1>5, <1>8, <1>9, <1>10, ZenonT(40) DEF d, c

LEMMA ReadVersionRepo ==
    ASSUME Promised, StorageInv, ProjectExclusion, RepoInv, NEW t \in Threads, ReadVersion(t)
    PROVE  RepoInv'
  <1> DEFINE d == Dir(t)
             c == call[t]
  <1>1. /\ Touches(t) /\ UNCHANGED <<call, disk, life>> /\ pc[t] = "crit"
        /\ answer[t] = NoResponse /\ Rest(d) /\ d.dir /\ d.cur \in Nat /\ latest'[t] = d.cur
    BY VersionRead
  <1>2. c.arg \in Nat
    BY <1>1, DirHere, ArgIsNat
  <1>3. \/ at'[t] = "answered" /\ answer'[t].code \in {902, 401}
        \/ /\ c.op = "rollback" /\ c.arg = d.cur /\ d.cur # 0
           /\ at'[t] = "answered" /\ answer'[t].code = 400
        \/ /\ c.op = "push" /\ c.arg = d.cur + 1
           /\ at'[t] = "mkdir" /\ answer'[t] = NoResponse
        \/ /\ c.op = "rollback" /\ c.arg \in 1..(d.cur - 1)
           /\ at'[t] = "delete" /\ answer'[t] = NoResponse
        \/ c.op \notin Writers /\ at'[t] = "read" /\ answer'[t] = NoResponse
        \/ c.op \notin {"push", "rollback"} /\ at'[t] = "read" /\ answer'[t] = NoResponse
    BY <1>1, VersionRead DEF Respond, Response, Goto, StorageInv, Domains
  <1> HIDE DEF d, c
  <1>4. \A n \in 0..d.cur : Complete(d, n)
    BY <1>1 DEF Rest, Complete
  <1>5. Doing(d, c, at'[t], latest'[t], answer'[t])
    <2>1. CASE /\ at'[t] = "answered"
               /\ \/ answer'[t].code \in {902, 401}
                  \/ answer'[t].code = 400 /\ c.arg = d.cur /\ d.cur # 0
      BY <1>1, <2>1, ScriptSteps DEF Doing
    <2>2. CASE /\ c.op = "push" /\ c.arg = d.cur + 1
               /\ at'[t] = "mkdir" /\ answer'[t] = NoResponse
      <3>1. c.arg > 0 /\ c.arg - 1 = d.cur
        BY <1>1, <2>2
      <3>2. UpTo(d, c.arg)
        BY <1>1, <2>2 DEF Rest, UpTo
      <3> QED
        BY <1>1, <1>4, <2>2, <3>1, <3>2, ScriptSteps DEF Doing
    <2>3. CASE /\ c.op = "rollback" /\ c.arg \in 1..(d.cur - 1)
               /\ at'[t] = "delete" /\ answer'[t] = NoResponse
      <3>1. c.arg > 0 /\ c.arg < d.cur /\ c.arg \in 0..d.cur /\ d.cur \in 0..d.cur
        BY <1>1, <1>2, <2>3
      <3>2. UpTo(d, d.cur)
        BY <1>1 DEF Rest
      <3> QED
        BY <1>1, <1>4, <2>3, <3>1, <3>2, ScriptSteps DEF Doing
    <2>4. CASE c.op \notin {"push", "rollback"} /\ at'[t] = "read" /\ answer'[t] = NoResponse
      BY <1>1, <2>4, ScriptSteps DEF Doing
    <2> QED
      BY <1>3, <2>1, <2>2, <2>3, <2>4 DEF Writers
  <1> QED
    BY <1>1, <1>5, InsideRepo DEF Dir, d, c
\* The sequence of versions.
LEMMA ListedIs ==
    ASSUME NEW d, NEW n \in Nat
    PROVE  /\ Len(Listed(d, n)) = n /\ DOMAIN Listed(d, n) = 1..n
           /\ \A v \in 1..n : Listed(d, n)[v] = FileOf(d, v, "tar")
           /\ Listed(d, n) = << >> <=> n = 0
           /\ Repo!Last(Listed(d, n)) = Top(d, n)
  <1> DEFINE s == Listed(d, n)
  <1>1. DOMAIN s = 1..n /\ \A v \in 1..n : s[v] = FileOf(d, v, "tar")
    BY DEF Listed
  <1>2. s \in Seq({FileOf(d, v, "tar") : v \in 1..n})
    BY SeqDef, SMTT(30) DEF Listed
  <1>3. Len(s) = n
    BY <1>1, <1>2, LenProperties
  <1>4. s = << >> <=> n = 0
    BY <1>1, <1>2, <1>3, EmptySeq
  <1>5. Repo!Last(s) = Top(d, n)
    BY <1>1, <1>3, <1>4 DEF Repo!Last, Repo!Empty, Repo!Content, Top, Initial, Content
  <1> QED
    BY <1>1, <1>3, <1>4, <1>5
\* The operation of a request is one of the instance's.
LEMMA OpOf ==
    ASSUME NEW c \in Calls
    PROVE  c.op \in Ops
  <1>1. \/ c \in [op : Ops \ {"push", "rollback", "upgrade"}, proj : Projects, arg : {0}, id : {NoId}]
        \/ c \in [op : Ops \cap {"rollback", "upgrade"}, proj : Projects, arg : Args, id : {NoId}]
        \/ c \in [op : Ops \cap {"push"}, proj : Projects, arg : 1..MaxVersion, id : Ids]
        \/ c \in [op : Ops \cap {"push"}, proj : Projects, arg : {0}, id : {NoId}]
    BY DEF Calls
  <1> QED
    BY <1>1

\* The version on top is there.
LEMMA TopThere ==
    ASSUME NEW d, NEW n \in Nat, Complete(d, n)
    PROVE  Top(d, n) # NoFile
  <1>1. CASE n = 0
    BY <1>1, MarksAssumption DEF Top, Initial, Content
  <1>2. CASE n # 0
    BY <1>2, WholeFiles DEF Complete, Top
  <1> QED
    BY <1>1, <1>2

\* The handlers that read answer what the sequence of versions says.
LEMMA ReadAnswers ==
    ASSUME Promised, StorageInv, ProjectExclusion, RepoInv, NEW t \in Threads, Read(t)
    PROVE  /\ UNCHANGED <<lockVars, call, disk, latest, target, life>>
           /\ pc[t] = "crit" /\ at[t] = "read" /\ answer[t] = NoResponse
           /\ call[t].op \notin {"create", "destroy", "rollback", "push"}
           /\ Rest(Dir(t)) /\ Dir(t).dir /\ Dir(t).cur \in Nat
           /\ at' = [at EXCEPT ![t] = "answered"]
           /\ answer' = [answer EXCEPT
                            ![t] = Repo!AnswerTo(call[t], Listed(Dir(t), Dir(t).cur))]
  <1> DEFINE d == Dir(t)
             c == call[t]
             n == d.cur
             s == Listed(d, n)
  <1>1. pc[t] = "crit" /\ at[t] = "read" /\ UNCHANGED <<lockVars, call, disk, latest, target>>
    BY DEF Read, Inner
  <1>2. /\ c \in Calls
        /\ c.op \in {"history", "currentversion", "checkout", "update", "upgrade", "commit"}
    BY <1>1, DirHere DEF Progress
  <1>3. answer[t] = NoResponse /\ d.dir
        /\ (c.op \notin {"update", "commit"} => latest[t] = n)
    BY <1>1 DEF RepoInv, Doing
  <1>4. Rest(d)
    BY <1>1, RestHere, ScriptSteps DEF Underway, Writers
  <1>5. n \in Nat /\ Complete(d, n)
    BY <1>3, <1>4 DEF Rest
  <1>6. c.arg \in Nat
    BY <1>2, ArgIsNat
  <1>7. /\ Len(s) = n /\ DOMAIN s = 1..n
        /\ \A v \in 1..n : s[v] = FileOf(d, v, "tar")
        /\ Repo!Last(s) = Top(d, n) /\ Top(d, n) # NoFile
        /\ n # 0 => Top(d, n) = FileOf(d, n, "tar")
    BY <1>5, ListedIs, TopThere DEF Top
  <1>8. \A v \in 1..n : /\ FileOf(d, v, "man") = FileOf(d, v, "tar")
                        /\ FileOf(d, v, "com") = FileOf(d, v, "tar")
                        /\ FileOf(d, v, "tar") # NoFile
    BY <1>5, WholeFiles DEF Complete
  <1>9. Respond(t, Repo!AnswerTo(c, s).code, Repo!AnswerTo(c, s).val) /\ UNCHANGED life
        /\ Repo!AnswerTo(c, s) = Response(Repo!AnswerTo(c, s).code, Repo!AnswerTo(c, s).val)
    <2>1. CASE c.op = "history"
      <3>1. n = 0 => Respond(t, 101, << >>) /\ UNCHANGED life
        BY <1>3, <2>1 DEF Read, History, Currentversion, Checkout, Update, Upgrade, Commit,
                          SendFiles, Decline
      <3>2. ASSUME n # 0
            PROVE  Respond(t, 100, s) /\ UNCHANGED life
        <4> DEFINE files == [v \in 1..n |-> FileOf(d, v, "com")]
        <4>1. files = s
          BY <1>8 DEF Listed
        <4>2. NoFile \notin {files[i] : i \in DOMAIN files}
          BY <1>8
        <4> QED
          BY <1>3, <2>1, <3>2, <4>1, <4>2 DEF Read, History, Currentversion, Checkout, Update, Upgrade, Commit,
                                              SendFiles, Decline
      <3> QED
        BY <1>7, <2>1, <3>1, <3>2 DEF Repo!AnswerTo, Repo!Answer, Response
    <2>2. CASE c.op = "currentversion"
      <3>1. n = 0 => Respond(t, 201, << >>) /\ UNCHANGED life
        BY <1>3, <2>2 DEF Read, History, Currentversion, Checkout, Update, Upgrade, Commit,
                          SendFiles, Decline
      <3>2. ASSUME n # 0
            PROVE  Respond(t, 200, <<Top(d, n)>>) /\ UNCHANGED life
        <4>1. FileOf(d, n, "man") = Top(d, n)
          BY <1>5, <1>7, <1>8, <3>2
        <4> QED
          BY <1>3, <1>7, <2>2, <3>2, <4>1 DEF Read, History, Currentversion, Checkout, Update, Upgrade, Commit,
                                              SendFiles, Decline
      <3> QED
        BY <1>7, <2>2, <3>1, <3>2 DEF Repo!AnswerTo, Repo!Answer, Response
    <2>3. CASE c.op = "checkout"
      <3>1. n = 0 => Respond(t, 502, << >>) /\ UNCHANGED life
        BY <1>3, <2>3 DEF Read, History, Currentversion, Checkout, Update, Upgrade, Commit,
                          SendFiles, Decline
      <3>2. n # 0 => Respond(t, 500, <<Top(d, n)>>) /\ UNCHANGED life
        BY <1>3, <1>7, <2>3 DEF Read, History, Currentversion, Checkout, Update, Upgrade, Commit,
                                SendFiles, Decline
      <3> QED
        BY <1>7, <2>3, <3>1, <3>2 DEF Repo!AnswerTo, Repo!Answer, Response
    <2>4. CASE c.op \in {"update", "commit"}
      <3>1. MaxRestarts = 0
        BY <1>2, <2>4, OpOf DEF Promised
      <3>2. d.man = Top(d, n) /\ d.man # NoFile
        BY <1>3, <1>4, <1>7, <3>1 DEF Rest, CurrHolds
      <3>3. c.op = "update" => Respond(t, 600, <<Top(d, n)>>) /\ UNCHANGED life
        BY <3>2 DEF Read, History, Currentversion, Checkout, Update, Upgrade, Commit,
                    SendFiles, Decline
      <3>4. c.op = "commit" => Respond(t, 800, <<Top(d, n)>>) /\ UNCHANGED life
        BY <3>2 DEF Read, History, Currentversion, Checkout, Update, Upgrade, Commit,
                    SendFiles, Decline
      <3>5. CASE c.op = "update"
        <4>1. Repo!AnswerTo(c, s) = Response(600, <<Top(d, n)>>)
          BY <1>7, <3>5 DEF Repo!AnswerTo, Repo!Answer, Response
        <4> QED
          BY <3>3, <3>5, <4>1 DEF Response
      <3>6. CASE c.op = "commit"
        <4>1. Repo!AnswerTo(c, s) = Response(800, <<Top(d, n)>>)
          BY <1>7, <3>6 DEF Repo!AnswerTo, Repo!Answer, Response
        <4> QED
          BY <3>4, <3>6, <4>1 DEF Response
      <3> QED
        BY <2>4, <3>5, <3>6
    <2>5. CASE c.op = "upgrade"
      <3>1. c.arg = 0 => Respond(t, 701, << >>) /\ UNCHANGED life
        BY <1>3, <1>5, <2>5 DEF Read, History, Currentversion, Checkout, Update, Upgrade, Commit,
                                SendFiles, Decline
      <3>2. c.arg # 0 /\ c.arg \notin 1..n => Respond(t, 702, << >>) /\ UNCHANGED life
        BY <1>3, <1>5, <1>6, <2>5 DEF Read, History, Currentversion, Checkout, Update, Upgrade, Commit,
                                      SendFiles, Decline
      <3>3. ASSUME c.arg \in 1..n
            PROVE  Respond(t, 700, <<s[c.arg], s[c.arg]>>) /\ UNCHANGED life
        <4>1. /\ ~(c.arg > n \/ c.arg < 0) /\ c.arg # 0
              /\ FileOf(d, c.arg, "man") = s[c.arg] /\ FileOf(d, c.arg, "tar") = s[c.arg]
              /\ s[c.arg] # NoFile
          BY <1>5, <1>6, <1>7, <1>8, <3>3
        <4> QED
          BY <1>3, <2>5, <4>1 DEF Read, History, Currentversion, Checkout, Update, Upgrade, Commit,
                                  SendFiles, Decline
      <3> QED
        BY <1>5, <1>6, <1>7, <2>5, <3>1, <3>2, <3>3 DEF Repo!AnswerTo, Repo!Answer, Response
    <2> QED
      BY <1>2, <2>1, <2>2, <2>3, <2>4, <2>5
  <1> QED
    BY <1>1, <1>2, <1>3, <1>4, <1>5, <1>9 DEF Respond
LEMMA ReadRepo ==
    ASSUME Promised, StorageInv, ProjectExclusion, RepoInv, NEW t \in Threads, Read(t)
    PROVE  RepoInv'
  <1> DEFINE d == Dir(t)
             c == call[t]
             reply == Repo!AnswerTo(c, Listed(d, d.cur))
  <1>1. /\ UNCHANGED <<lockVars, call, disk, latest, target, life>>
        /\ pc[t] = "crit" /\ Rest(d) /\ c.op \notin {"create", "destroy", "rollback", "push"}
        /\ at' = [at EXCEPT ![t] = "answered"] /\ answer' = [answer EXCEPT ![t] = reply]
    BY ReadAnswers
  <1>2. c \in Calls /\ c.op \in Ops
    BY <1>1, DirHere, OpOf
  <1>3. reply.code \notin {-1, 400}
    BY <1>1, <1>2, OpsAssumption DEF Repo!AnswerTo, Repo!Answer
  <1> HIDE DEF reply
  <1>4. /\ Touches(t) /\ at'[t] = "answered" /\ answer'[t] = reply
    BY <1>1 DEF Touches, lockVars, StorageInv, Domains
  <1>5. Doing(d, c, at'[t], latest'[t], answer'[t])
    BY <1>3, <1>4, ScriptSteps DEF Doing
  <1> QED
    BY <1>1, <1>4, <1>5, InsideRepo DEF Dir


\* A handler goes on: what the next step is, and the answer after the last.
LEMMA GoesOn ==
    ASSUME StorageInv, RepoInv, NEW t \in Threads, NEW stage, stage # "answered",
           pc[t] = "crit", at[t] = stage, Proceed(t, stage),
           NEW next, next = Following(call[t].op, stage)
    PROVE  /\ answer[t] = NoResponse /\ at'[t] = next
           /\ answer'[t] = IF next = "answered" THEN Response(Success[call[t].op], << >>)
                                                ELSE NoResponse
           /\ DOMAIN at' = Threads /\ DOMAIN answer' = Threads
           /\ \A u \in Threads : u # t => at'[u] = at[u] /\ answer'[u] = answer[u]
  <1>1. answer[t] = NoResponse
    BY DEF RepoInv, Doing
  <1>2. CASE next = "answered"
    BY <1>1, <1>2 DEF Proceed, Succeed, Respond, StorageInv, Domains
  <1>3. CASE next # "answered"
    BY <1>1, <1>3 DEF Proceed, Goto, StorageInv, Domains
  <1> QED
    BY <1>2, <1>3

\* What the steps of the writing handlers change.
LEMMA CreateFacts ==
    ASSUME StorageInv, ProjectExclusion, RepoInv,
           NEW t \in Threads, NEW stage \in Steps("create"), Create(t, stage),
           NEW next, next = Following("create", stage)
    PROVE  /\ pc[t] = "crit" /\ at[t] = stage /\ call[t].op = "create"
           /\ UNCHANGED <<lockVars, call, latest, target, life>>
           /\ call[t] \in Calls /\ call[t].proj \in Projects
           /\ Touches(t) /\ disk'[call[t].proj] = CreateStep(Dir(t), stage)
           /\ answer[t] = NoResponse /\ at'[t] = next
           /\ answer'[t] = IF next = "answered" THEN Response(0, << >>) ELSE NoResponse
  <1>1. /\ pc[t] = "crit" /\ at[t] = stage /\ call[t].op = "create"
        /\ UNCHANGED <<lockVars, call, latest, target, life>>
        /\ Change(t, CreateStep(Dir(t), stage)) /\ Proceed(t, stage)
    BY DEF Create, Inner
  <1>2. call[t] \in Calls /\ call[t].proj \in Projects
    BY <1>1, DirHere
  <1>3. stage # "answered"
    BY ScriptSteps
  <1>4. /\ answer[t] = NoResponse /\ at'[t] = next
        /\ answer'[t] = IF next = "answered" THEN Response(0, << >>) ELSE NoResponse
        /\ DOMAIN at' = Threads /\ DOMAIN answer' = Threads
        /\ \A u \in Threads : u # t => at'[u] = at[u] /\ answer'[u] = answer[u]
    BY <1>1, <1>3, GoesOn DEF Success
  <1> QED
    BY <1>1, <1>2, <1>4, Changing DEF Touches, lockVars, StorageInv, Domains

LEMMA DestroyFacts ==
    ASSUME StorageInv, ProjectExclusion, RepoInv, NEW t \in Threads, Destroy(t)
    PROVE  /\ pc[t] = "crit" /\ at[t] = "remove" /\ call[t].op = "destroy"
           /\ UNCHANGED <<lockVars, call, latest, target, life>>
           /\ call[t] \in Calls /\ call[t].proj \in Projects
           /\ Touches(t) /\ disk'[call[t].proj] = Absent
           /\ answer[t] = NoResponse /\ at'[t] = "answered"
           /\ answer'[t] = Response(300, << >>)
  <1>1. /\ pc[t] = "crit" /\ at[t] = "remove" /\ call[t].op = "destroy"
        /\ UNCHANGED <<lockVars, call, latest, target, life>>
        /\ Change(t, Absent) /\ Proceed(t, "remove")
    BY DEF Destroy, Inner
  <1>2. call[t] \in Calls /\ call[t].proj \in Projects
    BY <1>1, DirHere
  <1>3. /\ answer[t] = NoResponse /\ at'[t] = "answered"
        /\ answer'[t] = Response(300, << >>)
        /\ DOMAIN at' = Threads /\ DOMAIN answer' = Threads
        /\ \A u \in Threads : u # t => at'[u] = at[u] /\ answer'[u] = answer[u]
    BY <1>1, GoesOn, DestroyFollowing DEF Success
  <1> QED
    BY <1>1, <1>2, <1>3, Changing DEF Touches, lockVars, StorageInv, Domains

\* A push of content x: where it stands, and what it leaves.
LEMMA PushFacts ==
    ASSUME StorageInv, ProjectExclusion, RepoInv,
           NEW t \in Threads, NEW stage \in Steps("push"), Push(t, stage),
           NEW x, x = Content(call[t].arg, call[t].id),
           NEW next, next = Following("push", stage)
    PROVE  /\ pc[t] = "crit" /\ at[t] = stage /\ call[t].op = "push"
           /\ UNCHANGED <<lockVars, call, latest, target, life>>
           /\ call[t] \in Calls /\ call[t].proj \in Projects
           /\ call[t].id \in Ids /\ call[t].arg \in Int /\ latest[t] = call[t].arg - 1
           /\ Shaped(Dir(t)) /\ PushAt(Dir(t), stage, call[t].arg, x)
           /\ Touches(t) /\ disk'[call[t].proj] = PushStep(Dir(t), stage, call[t].arg, x)
           /\ answer[t] = NoResponse /\ at'[t] = next
           /\ answer'[t] = IF next = "answered" THEN Response(900, << >>) ELSE NoResponse
  <1>1. /\ pc[t] = "crit" /\ at[t] = stage /\ call[t].op = "push"
        /\ UNCHANGED <<lockVars, call, latest, target, life>> /\ Proceed(t, stage)
        /\ Change(t, PushStep(Dir(t), stage, latest[t] + 1, x))
    BY DEF Push, Inner
  <1>2. stage # "answered" /\ stage # "exists"
    BY ScriptSteps
  <1>3. /\ call[t] \in Calls /\ call[t].proj \in Projects /\ Shaped(Dir(t))
        /\ call[t].id \in Ids /\ latest[t] = call[t].arg - 1
        /\ PushAt(Dir(t), stage, call[t].arg, x)
    BY <1>1, <1>2, DirHere DEF Progress
  <1>4. call[t].arg \in Int
    BY <1>3, ArgNumbers
  <1>5. latest[t] + 1 = call[t].arg
    BY <1>3, <1>4
  <1>6. /\ answer[t] = NoResponse /\ at'[t] = next
        /\ answer'[t] = IF next = "answered" THEN Response(900, << >>) ELSE NoResponse
        /\ DOMAIN at' = Threads /\ DOMAIN answer' = Threads
        /\ \A u \in Threads : u # t => at'[u] = at[u] /\ answer'[u] = answer[u]
    BY <1>1, <1>2, GoesOn DEF Success
  <1>7. /\ DOMAIN disk' = Projects
        /\ disk'[call[t].proj] = PushStep(Dir(t), stage, call[t].arg, x)
        /\ \A p \in Projects : p # call[t].proj => disk'[p] = disk[p]
    BY <1>1, <1>3, <1>5, Changing
  <1> QED
    BY <1>1, <1>3, <1>4, <1>6, <1>7 DEF Touches, lockVars, StorageInv, Domains
\* A rollback: where it stands, and what it leaves.
LEMMA RollbackFacts ==
    ASSUME Promised, StorageInv, ProjectExclusion, RepoInv,
           NEW t \in Threads, NEW stage \in Steps("rollback"), Rollback(t, stage),
           NEW next, next = Following("rollback", stage)
    PROVE  /\ pc[t] = "crit" /\ at[t] = stage /\ call[t].op = "rollback"
           /\ UNCHANGED <<lockVars, call, target, life>>
           /\ call[t] \in Calls /\ call[t].proj \in Projects
           /\ call[t].arg \in Nat /\ call[t].arg > 0 /\ target[t] = call[t].arg
           /\ Shaped(Dir(t)) /\ Dir(t).dir /\ Complete(Dir(t), call[t].arg)
           /\ WholeTo(Dir(t), call[t].arg) /\ FileOf(Dir(t), call[t].arg, "tar") # NoFile
           /\ stage = "delete" =>
                 /\ latest[t] \in Int /\ Dir(t).cur \in Int
                 /\ call[t].arg < latest[t] /\ latest[t] <= Dir(t).cur
                 /\ Complete(Dir(t), latest[t]) /\ UpTo(Dir(t), latest[t])
           /\ stage # "delete" => UpTo(Dir(t), call[t].arg)
           /\ stage \in {"truncate", "currentversion"} => CurrHolds(Dir(t), call[t].arg)
           /\ Touches(t)
           /\ disk'[call[t].proj] =
                 RollbackStep(Dir(t), stage, latest[t], call[t].arg, call[t].arg)
           /\ answer[t] = NoResponse
           /\ stage = "delete" =>
                 /\ latest'[t] = latest[t] - 1 /\ answer'[t] = NoResponse
                 /\ at'[t] = IF latest[t] - 1 > call[t].arg THEN "delete" ELSE "untar"
           /\ stage # "delete" =>
                 /\ latest'[t] = latest[t] /\ at'[t] = next
                 /\ answer'[t] = IF next = "answered" THEN Response(400, << >>) ELSE NoResponse
  <1> DEFINE d == Dir(t)
             c == call[t]
  <1>1. /\ pc[t] = "crit" /\ at[t] = stage /\ c.op = "rollback"
        /\ UNCHANGED <<lockVars, call, target, life>> /\ GoOn(t, stage)
        /\ Change(t, RollbackStep(d, stage, latest[t], target[t], c.arg))
    BY DEF Rollback, Inner
  <1>2. stage # "answered" /\ stage # "exists"
    BY ScriptSteps
  <1>3. /\ c \in Calls /\ c.proj \in Projects /\ Shaped(d)
        /\ target[t] = c.arg /\ WholeTo(d, c.arg)
    BY <1>1, <1>2, DirHere DEF Progress
  <1>4. /\ d.dir /\ c.arg > 0 /\ Complete(d, c.arg) /\ answer[t] = NoResponse
        /\ stage = "delete" =>
              /\ latest[t] \in Int /\ d.cur \in Int /\ c.arg < latest[t]
              /\ latest[t] <= d.cur /\ Complete(d, latest[t]) /\ UpTo(d, latest[t])
        /\ stage # "delete" => UpTo(d, c.arg)
        /\ stage \in {"truncate", "currentversion"} => CurrHolds(d, c.arg)
    BY <1>1, <1>2 DEF RepoInv, Doing
  <1>5. c.arg \in Nat
    BY <1>3, ArgIsNat
  <1>6. FileOf(d, c.arg, "tar") # NoFile
    BY <1>4, <1>5, WholeFiles DEF Complete
  <1>7. /\ DOMAIN at' = Threads /\ DOMAIN answer' = Threads /\ DOMAIN latest' = Threads
        /\ \A u \in Threads : u # t =>
              at'[u] = at[u] /\ answer'[u] = answer[u] /\ latest'[u] = latest[u]
        /\ stage = "delete" =>
              /\ latest'[t] = latest[t] - 1 /\ answer'[t] = NoResponse
              /\ at'[t] = IF latest[t] - 1 > c.arg THEN "delete" ELSE "untar"
        /\ stage # "delete" =>
              /\ latest'[t] = latest[t] /\ at'[t] = next
              /\ answer'[t] = IF next = "answered" THEN Response(400, << >>) ELSE NoResponse
    <2>1. CASE stage = "delete"
      BY <1>1, <1>3, <1>4, <2>1 DEF GoOn, Goto, CountedDown, StorageInv, Domains
    <2>2. CASE stage # "delete"
      BY <1>1, <1>2, <2>2, GoesOn DEF GoOn, Success, StorageInv, Domains
    <2> QED
      BY <2>1, <2>2
  <1>8. /\ DOMAIN disk' = Projects
        /\ disk'[c.proj] = RollbackStep(d, stage, latest[t], c.arg, c.arg)
        /\ \A p \in Projects : p # c.proj => disk'[p] = disk[p]
    BY <1>1, <1>3, Changing
  <1>9. Touches(t)
    BY <1>1, <1>7, <1>8 DEF Touches, lockVars, StorageInv, Domains
  <1> QED
    BY <1>1, <1>3, <1>4, <1>5, <1>6, <1>7, <1>8, <1>9

\* A project is at rest when it is new.
LEMMA CreatedRests == Rest(Created)
  <1>1. /\ Created.dir /\ Created.cur = 0 /\ Created.man = Initial
        /\ Created.vers = << >>
    BY FirstDirs
  <1> QED
    BY <1>1 DEF Rest, Complete, Top, CurrHolds, UpTo

LEMMA CreateRepo ==
    ASSUME StorageInv, ProjectExclusion, RepoInv,
           NEW t \in Threads, NEW stage \in Steps("create"), Create(t, stage)
    PROVE  RepoInv'
  <1> DEFINE d == Dir(t)
             c == call[t]
             e == CreateStep(d, stage)
             next == Following("create", stage)
  <1>1. /\ pc[t] = "crit" /\ at[t] = stage /\ c.op = "create" /\ UNCHANGED life
        /\ Touches(t) /\ disk'[c.proj] = e /\ at'[t] = next
        /\ answer'[t] = IF next = "answered" THEN Response(0, << >>) ELSE NoResponse
    BY CreateFacts
  <1>2. Shaped(d) /\ CreateAt(d, stage)
    BY <1>1, DirHere DEF Progress
  <1>3. d.cur \in {NoFile, Truncated}
    BY <1>1 DEF RepoInv, Doing
  <1> HIDE DEF d, c, e, next
  <1>4. /\ Shaped(e)
        /\ stage # "currentversion" => next \in Steps("create")
        /\ stage = "mkdir" => e.cur = NoFile
        /\ stage = "curr" => e.cur = d.cur
        /\ stage = "truncate" => e.cur = Truncated
        /\ stage = "currentversion" => next = "answered" /\ e = Created
    BY <1>2, CreateMoves DEF e, next
  <1>5. /\ Rest(e) \/ Underway(c, next)
        /\ Doing(e, c, next, latest'[t], answer'[t])
    <2>1. CASE stage # "currentversion"
      BY <1>1, <1>3, <1>4, <2>1, ScriptSteps DEF Doing, Underway, Writers
    <2>2. CASE stage = "currentversion"
      BY <1>1, <1>4, <2>2, CreatedRests, ScriptSteps DEF Doing, Response
    <2> QED
      BY <2>1, <2>2
  <1> QED
    BY <1>1, <1>5, InsideRepo DEF c, d, Writers

LEMMA DestroyRepo ==
    ASSUME StorageInv, ProjectExclusion, RepoInv, NEW t \in Threads, Destroy(t)
    PROVE  RepoInv'
  <1>1. Rest(Absent)
    BY DEF Rest, Absent
  <1>2. /\ pc[t] = "crit" /\ call[t].op = "destroy" /\ UNCHANGED life
        /\ Touches(t) /\ disk'[call[t].proj] = Absent
        /\ at'[t] = "answered" /\ answer'[t] = Response(300, << >>)
    BY DestroyFacts
  <1>3. Doing(Absent, call[t], at'[t], latest'[t], answer'[t])
    BY <1>2, ScriptSteps DEF Doing, Response
  <1> QED
    BY <1>1, <1>2, <1>3, InsideRepo DEF Writers

LEMMA PushRepo ==
    ASSUME StorageInv, ProjectExclusion, RepoInv,
           NEW t \in Threads, NEW stage \in Steps("push"), Push(t, stage)
    PROVE  RepoInv'
  <1> DEFINE d == Dir(t)
             c == call[t]
             x == Content(c.arg, c.id)
             e == PushStep(d, stage, c.arg, x)
             next == Following("push", stage)
  <1>1. /\ pc[t] = "crit" /\ at[t] = stage /\ c.op = "push" /\ UNCHANGED life
        /\ c.id \in Ids /\ c.arg \in Int /\ Shaped(d) /\ PushAt(d, stage, c.arg, x)
        /\ Touches(t) /\ disk'[c.proj] = e /\ at'[t] = next
        /\ answer'[t] = IF next = "answered" THEN Response(900, << >>) ELSE NoResponse
    BY PushFacts
  <1>2. /\ d.dir /\ c.arg > 0 /\ Complete(d, c.arg - 1) /\ UpTo(d, c.arg)
        /\ d.cur = c.arg - 1 \/ (stage = "currentversion" /\ TornWrites)
    BY <1>1 DEF RepoInv, Doing
  <1> HIDE DEF d, c, e, next
  <1>3. /\ Shaped(e)
        /\ stage # "currentversion" => next \in Steps("push")
        /\ stage \notin {"truncate", "currentversion"} => e.cur = d.cur
        /\ next = "truncate" => TornWrites
        /\ stage = "truncate" => next = "currentversion"
        /\ stage = "currentversion" =>
              next = "answered" /\ Pushed(e, x) /\ WholeTo(e, c.arg)
    BY <1>1, PushMoves DEF e, next
  <1>0. x.ver = c.arg
    BY DEF Content
  <1> HIDE DEF x
  <1>4. stage # "mkdir" => c.arg \in DOMAIN d.vers
    BY <1>1 DEF PushAt
  <1>5. /\ e.dir = d.dir /\ DOMAIN e.vers = DOMAIN d.vers \cup {c.arg}
        /\ \A v \in DOMAIN d.vers : v # c.arg => v \in DOMAIN e.vers /\ e.vers[v] = d.vers[v]
    BY <1>1, <1>4, PushLeaves DEF e
  <1>6. Complete(e, c.arg - 1)
    <2>1. c.arg - 1 \in Nat /\ \A v \in 1..(c.arg - 1) : v # c.arg
      BY <1>1, <1>2
    <2>2. \A v \in 1..(c.arg - 1) : v \in DOMAIN e.vers /\ e.vers[v] = d.vers[v]
      BY <1>2, <1>5, <2>1 DEF Complete
    <2> QED
      BY <1>2, <2>1, <2>2, CompleteAlike
  <1>7. UpTo(e, c.arg)
    BY <1>1, <1>2, <1>5 DEF UpTo
  <1>8. /\ Rest(e) \/ Underway(c, next)
        /\ Doing(e, c, next, latest'[t], answer'[t])
    <2>1. CASE stage # "currentversion"
      <3>1. stage = "truncate" => TornWrites
        BY <1>1, DirHere DEF Progress
      <3>2. e.cur = c.arg - 1 \/ (next = "currentversion" /\ TornWrites)
        BY <1>2, <1>3, <2>1, <3>1
      <3> QED
        BY <1>1, <1>2, <1>3, <1>5, <1>6, <1>7, <2>1, <3>2, ScriptSteps
           DEF Doing, Underway, Writers
    <2>2. CASE stage = "currentversion"
      <3>1. Complete(e, c.arg)
        <4>1. \A v \in 1..c.arg : v \in 1..(c.arg - 1) \/ v = c.arg
          BY <1>1
        <4> QED
          BY <1>3, <1>5, <1>6, <2>2, <4>1 DEF Complete, WholeTo
      <3>2. e.cur = c.arg /\ e.vers[c.arg] = VersionOf(x) /\ c.arg \in DOMAIN e.vers
            /\ e.man = x /\ e.com = x /\ x \in e.files
        BY <1>0, <1>3, <2>2 DEF Pushed
      <3>3. Top(e, c.arg) = x
        BY <1>2, <3>2 DEF Top, FileOf, VersionOf
      <3>4. CurrHolds(e, c.arg)
        BY <3>2, <3>3 DEF CurrHolds
      <3>5. Rest(e)
        BY <1>1, <1>2, <1>5, <1>7, <3>1, <3>2, <3>4 DEF Rest
      <3> QED
        BY <1>1, <1>3, <2>2, <3>5, ScriptSteps DEF Doing, Response
    <2> QED
      BY <2>1, <2>2
  <1> QED
    BY <1>1, <1>8, InsideRepo DEF c, d, Writers

LEMMA RollbackRepo ==
    ASSUME Promised, StorageInv, ProjectExclusion, RepoInv,
           NEW t \in Threads, NEW stage \in Steps("rollback"), Rollback(t, stage)
    PROVE  RepoInv'
  <1> DEFINE d == Dir(t)
             c == call[t]
             n == latest[t]
             old == c.arg
             e == RollbackStep(d, stage, n, old, old)
             next == Following("rollback", stage)
  <1>1. /\ pc[t] = "crit" /\ at[t] = stage /\ c.op = "rollback" /\ UNCHANGED life
        /\ old \in Nat /\ old > 0 /\ Shaped(d) /\ d.dir /\ Complete(d, old)
        /\ WholeTo(d, old) /\ FileOf(d, old, "tar") # NoFile
        /\ stage = "delete" =>
              /\ n \in Int /\ d.cur \in Int /\ old < n /\ n <= d.cur
              /\ Complete(d, n) /\ UpTo(d, n)
        /\ stage # "delete" => UpTo(d, old)
        /\ stage \in {"truncate", "currentversion"} => CurrHolds(d, old)
        /\ Touches(t) /\ disk'[c.proj] = e
        /\ stage = "delete" =>
              /\ latest'[t] = n - 1 /\ answer'[t] = NoResponse
              /\ at'[t] = IF n - 1 > old THEN "delete" ELSE "untar"
        /\ stage # "delete" =>
              /\ at'[t] = next
              /\ answer'[t] = IF next = "answered" THEN Response(400, << >>) ELSE NoResponse
    BY RollbackFacts
  <1> HIDE DEF d, c, n, old, e, next
  <1>2. /\ Shaped(e)
        /\ stage \in {"delete", "untar"} => e.cur = d.cur
        /\ stage = "untar" => next \in {"truncate", "currentversion"}
        /\ stage = "truncate" => next = "currentversion"
        /\ stage = "currentversion" => next = "answered" /\ e.cur = old
    BY <1>1, RollbackMoves DEF e, next
  <1>3. /\ e.dir = d.dir
        /\ stage = "delete" =>
              /\ DOMAIN e.vers = DOMAIN d.vers \ {n}
              /\ \A v \in DOMAIN e.vers : e.vers[v] = d.vers[v]
        /\ stage # "delete" => e.vers = d.vers
        /\ stage = "untar" =>
              LET x == FileOf(d, old, "tar") IN e.man = x /\ e.com = x /\ x \in e.files
        /\ stage \in {"truncate", "currentversion"} =>
              e.man = d.man /\ e.com = d.com /\ e.files = d.files
    <2>1. Shaped(d) /\ FileOf(d, old, "tar") # NoFile
      BY <1>1
    <2> QED
      BY <2>1, RollbackLeaves DEF e
  <1>4. /\ Rest(e) \/ Underway(c, at'[t])
        /\ Doing(e, c, at'[t], latest'[t], answer'[t])
    <2>1. CASE stage = "delete"
      <3>1. n - 1 \in Nat /\ n - 1 >= old /\ n - 1 <= e.cur /\ e.cur \in Int
        BY <1>1, <1>2, <2>1
      <3>2. \A v \in 1..(n - 1) : v \in 1..n /\ v # n
        BY <1>1, <2>1
      <3>3. \A v \in 1..(n - 1) : v \in DOMAIN e.vers /\ e.vers[v] = d.vers[v]
        BY <1>1, <1>3, <2>1, <3>2 DEF Complete
      <3>4. Complete(d, n - 1)
        BY <1>1, <2>1, <3>2 DEF Complete
      <3>5. Complete(e, n - 1)
        BY <3>1, <3>3, <3>4, CompleteAlike
      <3>6. Complete(e, old)
        BY <1>1, <3>1, <3>5 DEF Complete
      <3>7. e.dir /\ old > 0 /\ c.op = "rollback"
        BY <1>1, <1>3
      <3>8. /\ latest'[t] = n - 1 /\ answer'[t] = NoResponse
            /\ at'[t] \in {"delete", "untar"}
            /\ at'[t] = "delete" => n - 1 > old
        BY <1>1, <2>1
      <3>9. Underway(c, at'[t])
        BY <3>7, <3>8, ScriptSteps DEF Underway, Writers
      <3>10. UpTo(e, n - 1) /\ (at'[t] = "untar" => n - 1 = old)
        BY <1>1, <1>3, <2>1 DEF UpTo
      <3>11. Doing(e, c, at'[t], latest'[t], answer'[t])
        BY <3>1, <3>5, <3>6, <3>7, <3>8, <3>10, ScriptSteps DEF Doing, old
      <3> QED
        BY <3>9, <3>11
    <2>2. CASE stage # "delete"
      <3>1. Complete(e, old) /\ Top(e, old) = FileOf(d, old, "tar")
            /\ Top(d, old) = FileOf(d, old, "tar")
        BY <1>1, <1>3, <2>2 DEF Complete, Whole, Top, FileOf
      <3>2. stage # "currentversion" => next \in {"truncate", "currentversion"}
        BY <1>2, <2>2, ScriptSteps
      <3>3. CurrHolds(e, old) /\ UpTo(e, old)
        BY <1>1, <1>3, <2>2, <3>1, ScriptSteps DEF CurrHolds, UpTo
      <3>4. CASE stage # "currentversion"
        <4>1. e.dir /\ old > 0 /\ c.op = "rollback" /\ at'[t] \in {"truncate", "currentversion"}
              /\ answer'[t] = NoResponse
          BY <1>1, <1>3, <2>2, <3>2, <3>4
        <4>2. Underway(c, at'[t])
          BY <4>1, ScriptSteps DEF Underway, Writers
        <4>3. Doing(e, c, at'[t], latest'[t], answer'[t])
          BY <3>1, <3>3, <4>1, ScriptSteps DEF Doing, old
        <4> QED
          BY <4>2, <4>3
      <3>5. CASE stage = "currentversion"
        <4>1. Rest(e)
          BY <1>1, <1>2, <1>3, <3>1, <3>3, <3>5 DEF Rest
        <4> QED
          BY <1>1, <1>2, <3>5, <4>1, ScriptSteps DEF Doing, Response, old
      <3> QED
        BY <3>4, <3>5
    <2> QED
      BY <2>1, <2>2
  <1> QED
    BY <1>1, <1>4, InsideRepo DEF c, d, Writers

\* The archive that a push or a rollback extracts is there.
LEMMA ArchiveThere ==
    ASSUME Promised, StorageInv, ProjectExclusion, RepoInv, NEW t \in Threads
    PROVE  ~NoArchive(t)
  <1> SUFFICES ASSUME NoArchive(t) PROVE FALSE
    OBVIOUS
  <1> DEFINE d == Dir(t)
             c == call[t]
  <1>1. /\ c.op \in {"push", "rollback"} /\ pc[t] = "crit" /\ at[t] = "untar"
        /\ Archive(t) = NoFile
    BY DEF NoArchive, Inner, Promised
  <1>2. c \in Calls /\ Progress(d, c, "untar", latest[t], target[t], answer[t].code)
    BY <1>1, DirHere
  <1>3. c.arg \in Nat
    BY <1>2, ArgIsNat
  <1>4. CASE c.op = "push"
    <2>1. /\ latest[t] = c.arg - 1 /\ PushAt(d, "untar", c.arg, Content(c.arg, c.id))
          /\ c.id \in Ids
      BY <1>2, <1>4, ScriptSteps DEF Progress
    <2>2. latest[t] + 1 = c.arg
      BY <1>3, <2>1
    <2>3. Archive(t) = Content(c.arg, c.id)
      BY <1>4, <2>1, <2>2 DEF Archive, FileOf, PushAt
    <2> QED
      BY <1>1, <1>3, <2>1, <2>3, MarksAssumption DEF Content
  <1>5. CASE c.op = "rollback"
    <2>1. target[t] = c.arg
      BY <1>2, <1>5, ScriptSteps DEF Progress
    <2>2. c.arg > 0 /\ Complete(d, c.arg)
      BY <1>1, <1>5, ScriptSteps DEF RepoInv, Doing
    <2>3. FileOf(d, c.arg, "tar") # NoFile
      BY <1>3, <2>2, WholeFiles DEF Complete
    <2> QED
      BY <1>1, <1>5, <2>1, <2>3 DEF Archive
  <1> QED
    BY <1>1, <1>4, <1>5

\* A handler's step is one of those that do not fail.
LEMMA HandlerSteps ==
    ASSUME Promised, StorageInv, ProjectExclusion, RepoInv, NEW t \in Threads, Handler(t)
    PROVE  \/ Exists(t) \/ ReadVersion(t) \/ Read(t) \/ Destroy(t)
           \/ \E stage \in Steps("create") : Create(t, stage)
           \/ \E stage \in Steps("push") : Push(t, stage)
           \/ \E stage \in Steps("rollback") : Rollback(t, stage)
  BY ArchiveThere DEF Handler, CallFails, Promised

LEMMA HandlerRepo ==
    ASSUME Promised, StorageInv, ProjectExclusion, RepoInv, NEW t \in Threads, Handler(t)
    PROVE  RepoInv'
  BY HandlerSteps, ExistsRepo, ReadVersionRepo, ReadRepo, DestroyRepo, CreateRepo, PushRepo,
     RollbackRepo

\* The steps outside the handlers.
LEMMA LockRepo ==
    ASSUME TypeOK, StorageInv, RepoInv, NEW t \in Threads,
           (\E c \in Calls : Arrive(t, c)) \/ FindLock(t) \/ CallLock(t)
    PROVE  RepoInv'
  <1>1. /\ pc[t] \in {"idle", "lookup", "got"}
        /\ \/ pc' = [pc EXCEPT ![t] = "lookup"]
           \/ pc' = [pc EXCEPT ![t] = "got"]
           \/ pc' = [pc EXCEPT ![t] = "wait"]
        /\ call' = call \/ \E c \in Calls : call' = [call EXCEPT ![t] = c]
        /\ UNCHANGED <<disk, at, latest, answer, life>>
    BY DEF Arrive, Receive, FindLock, CallLock, Lookup, Request
  <1>2. /\ pc'[t] # "crit" /\ pc[t] # "crit"
        /\ \A u \in Threads : u # t => pc'[u] = pc[u] /\ call'[u] = call[u]
    BY <1>1 DEF TypeOK, StorageInv, Domains
  <1>3. answer[t] = NoResponse
    BY <1>2 DEF RepoInv
  <1> QED
    BY <1>1, <1>2, <1>3, OutsideRepo

LEMMA EnterRepo ==
    ASSUME TypeOK, StorageInv, RepoInv, NEW t \in Threads, Enter(t)
    PROVE  RepoInv'
  <1>1. /\ pc[t] = "wait" /\ pc' = [pc EXCEPT ![t] = "crit"]
        /\ at' = [at EXCEPT ![t] = "exists"]
        /\ UNCHANGED <<disk, call, latest, target, answer, life>>
    BY DEF Enter, Acquire
  <1>2. /\ pc'[t] = "crit" /\ at'[t] = "exists"
        /\ \A u \in Threads : u # t => pc'[u] = pc[u] /\ at'[u] = at[u]
    BY <1>1 DEF TypeOK, StorageInv, Domains
  <1>3. answer[t] = NoResponse
    BY <1>1 DEF RepoInv
  <1>4. Doing(Dir(t)', call'[t], at'[t], latest'[t], answer'[t])
    BY <1>1, <1>2, <1>3, ScriptSteps DEF Doing
  <1> QED
    BY <1>1, <1>2, <1>4, OutsideRepo

LEMMA LeaveRepo ==
    ASSUME TypeOK, StorageInv, RepoInv, NEW t \in Threads, Leave(t)
    PROVE  RepoInv'
  <1>1. /\ at[t] = "answered" /\ pc[t] = "crit" /\ pc' = [pc EXCEPT ![t] = "idle"]
        /\ at' = [at EXCEPT ![t] = "none"] /\ latest' = [latest EXCEPT ![t] = 0]
        /\ answer' = [answer EXCEPT ![t] = NoResponse] /\ UNCHANGED <<disk, call, life>>
    BY DEF Leave, Release
  <1>2. /\ pc'[t] = "idle" /\ answer'[t] = NoResponse
        /\ \A u \in Threads : u # t =>
              /\ pc'[u] = pc[u] /\ at'[u] = at[u] /\ latest'[u] = latest[u]
              /\ answer'[u] = answer[u]
    BY <1>1 DEF TypeOK, StorageInv, Domains
  <1>3. ~Underway(call[t], at[t])
    BY <1>1, ScriptSteps DEF Underway, Writers
  <1> QED
    BY <1>1, <1>2, <1>3, OutsideRepo

\* After a kill the projects are at rest: the only script that a kill can cut
\* short is a push, before the write of Currentversion.
LEMMA StartRepo ==
    ASSUME Promised, TypeOK, StorageInv, ProjectExclusion, RepoInv, Start
    PROVE  RepoInv'
  <1>1. /\ pc' = [t \in Threads |-> "idle"] /\ answer' = [t \in Threads |-> NoResponse]
        /\ UNCHANGED disk /\ life' = "up" /\ life # "up"
    BY DEF Start, Restart
  <1>2. /\ ~TornWrites
        /\ Ops \subseteq {"history", "currentversion", "checkout", "upgrade", "push"}
        /\ MaxRestarts # 0
    BY <1>1 DEF RepoInv, Promised
  <1>3. ASSUME NEW p \in Projects
        PROVE  Rest(disk[p])
    <2>1. CASE Busy(p)
      <3>1. PICK t \in Threads : /\ pc[t] = "crit" /\ call[t].proj = p
                                /\ Underway(call[t], at[t])
        BY <2>1 DEF Busy
      <3>2. call[t].op = "push" /\ call[t] \in Calls
        BY <1>2, <3>1, DirHere, OpOf DEF Underway, Writers
      <3>3. call[t].arg \in Nat
        BY <3>2, ArgIsNat
      <3>4. /\ disk[p].dir /\ call[t].arg > 0 /\ Complete(disk[p], call[t].arg - 1)
            /\ disk[p].cur = call[t].arg - 1
        BY <1>2, <3>1, <3>2 DEF RepoInv, Doing, Underway, Dir
      <3>5. disk[p].cur \in Nat
        BY <3>3, <3>4
      <3>6. CurrHolds(disk[p], disk[p].cur) /\ UpTo(disk[p], disk[p].cur)
        BY <1>2 DEF CurrHolds, UpTo
      <3> QED
        BY <3>4, <3>5, <3>6 DEF Rest
    <2> QED
      BY <2>1 DEF RepoInv
  <1> QED
    BY <1>1, <1>3 DEF RepoInv

LEMMA RepoStep ==
    ASSUME Promised, TypeOK, ProjectExclusion, StorageInv, RepoInv, [ServerNext]_serverVars
    PROVE  RepoInv'
  <1>1. CASE UNCHANGED serverVars
    BY <1>1 DEF serverVars, lockVars, RepoInv, Busy, Dir
  <1>2. ASSUME NEW t \in Threads, (\E c \in Calls : Arrive(t, c)) \/ ThreadStep(t)
        PROVE  RepoInv'
    BY <1>2, LockRepo, EnterRepo, LeaveRepo, HandlerRepo DEF ThreadStep
  <1>3. CASE Kill
    <2>1. /\ UNCHANGED <<pc, disk, call, at, latest, answer>> /\ life' = "killed"
          /\ restarts < MaxRestarts
      BY <1>3 DEF Kill, lockVars
    <2>2. MaxRestarts # 0
      BY <2>1 DEF TypeOK
    <2> QED
      BY <2>1, <2>2 DEF RepoInv, Busy, Dir
  <1>4. CASE Start
    BY <1>4, StartRepo
  <1> QED
    BY <1>1, <1>2, <1>3, <1>4 DEF ServerNext

LEMMA RepoInvInit ==
    ASSUME ServerInit
    PROVE  RepoInv
  <1>1. /\ \A t \in Threads : pc[t] = "idle" /\ answer[t] = NoResponse
        /\ \A p \in Projects : disk[p] \in {Absent, Created}
        /\ life = "up"
    BY DEF ServerInit, LockInit
  <1>2. Rest(Absent)
    BY DEF Rest, Absent
  <1> QED
    BY <1>1, <1>2, CreatedRests DEF RepoInv

\* At every moment each project is at rest, or one writer is at work in it.
THEOREM RepoInvariance ==
    ASSUME Promised
    PROVE  ServerSpec => []RepoInv
  <1>1. ServerInit => RepoInv
    BY RepoInvInit
  <1>2. Stated
    BY DEF Promised
  <1>3. TypeOK /\ ProjectExclusion /\ StorageInv /\ RepoInv /\ [ServerNext]_serverVars
        => RepoInv'
    BY RepoStep
  <1> QED
    BY <1>1, <1>2, <1>3, ServerUsesLocks, TypeCorrect, ServerExclusion, StorageInvariance, PTL
       DEF ServerSpec

\* No request makes the server end: none finds the directory of a project in the
\* state that "should never happen" (serverutil.c:27-30, logic.c:162-165, 216-219,
\* 514-517, 527-530, 564-567), and none extracts an archive that is not there.
THEOREM NeverEnds ==
    ASSUME Promised
    PROVE  ServerSpec => []NeverExits
  <1>1. RepoInv => NeverExits
    BY DEF RepoInv, NeverExits
  <1> QED
    BY <1>1, RepoInvariance, PTL

\* Where the server is not killed, a rollback that is answered with success has gone
\* back: the version asked for is whole, the last one there and the current one, and
\* Curr has its manifest, commit and files (logic.c:364-393).
THEOREM RollbackGoesBack ==
    ASSUME Promised, MaxRestarts = 0
    PROVE  ServerSpec => []RollbackRestores
  <1> SUFFICES ASSUME TypeOK, ProjectExclusion, StorageInv, RepoInv,
                      NEW t \in Threads, answer[t].code = 400
               PROVE  LET d == Dir(t)
                          n == call[t].arg
                      IN  /\ d.cur = n
                          /\ n \in DOMAIN d.vers /\ \A v \in DOMAIN d.vers : v <= n
                          /\ \E id \in Ids :
                                /\ d.vers[n] = VersionOf(Content(n, id))
                                /\ d.man = Content(n, id) /\ d.com = Content(n, id)
                                /\ Content(n, id) \in d.files
    <2>1. Stated
      BY DEF Promised
    <2>2. TypeOK /\ ProjectExclusion /\ StorageInv /\ RepoInv => RollbackRestores
      BY DEF RollbackRestores
    <2> QED
      BY <2>1, <2>2, ServerUsesLocks, TypeCorrect, ServerExclusion, StorageInvariance,
         RepoInvariance, PTL
  <1> DEFINE d == Dir(t)
             n == call[t].arg
  <1>1. pc[t] = "crit"
    BY DEF RepoInv, NoResponse
  <1>2. at[t] = "answered" /\ d.cur = n /\ n > 0
    BY <1>1 DEF RepoInv, Doing, NoResponse
  <1>3. n \in Nat
    BY <1>1, DirHere, ArgIsNat
  <1>4. Rest(d)
    BY <1>1, <1>2, RestHere, ScriptSteps DEF Underway, Writers
  <1>5. d.dir
    BY <1>2, <1>3, <1>4, MarksAssumption DEF Rest
  <1> HIDE DEF d
  <1>6. Complete(d, n) /\ CurrHolds(d, n) /\ UpTo(d, n)
    BY <1>2, <1>4, <1>5 DEF Rest
  <1>7. n \in DOMAIN d.vers /\ \A v \in DOMAIN d.vers : v <= n
    BY <1>2, <1>3, <1>6 DEF Complete, UpTo
  <1>8. PICK id \in Ids : d.vers[n] = VersionOf(Content(n, id))
    BY <1>2, <1>3, <1>6 DEF Complete, Whole
  <1>9. Top(d, n) = Content(n, id)
    BY <1>2, <1>7, <1>8 DEF Top, FileOf, VersionOf
  <1> QED
    BY <1>2, <1>6, <1>7, <1>8, <1>9 DEF CurrHolds, d
----------------------------------------------------------------------------
(* What clients see of a project. *)

\* The writer that decides what is seen, by what it has done so far.
UndoingAt(d, c, stage, n) ==
    /\ c.op = "rollback"
    /\ stage \in {"untar", "truncate", "currentversion"} \/ (stage = "delete" /\ n < d.cur)
PublishingAt(c, stage) == c.op = "push" /\ stage = "currentversion"

HeightAt(d, c, stage, n, v) ==
    IF UndoingAt(d, c, stage, n) THEN v ELSE IF PublishingAt(c, stage) THEN n ELSE d.cur

Shown(d, h) ==
    IF h \in {NoFile, Truncated} THEN Repo!NoProject ELSE Repo!Project(Listed(d, h))

Decides(t, p) == Handling(t, p) /\ (Undoing(t) \/ Publishing(t))

\* A handler sees its project at the height its own progress tells.
HeightSeen ==
    StorageInv /\ ProjectExclusion /\ life = "up" =>
        \A t \in Threads :
            pc[t] = "crit" =>
                Height(call[t].proj) = HeightAt(Dir(t), call[t], at[t], latest[t], target[t])

LEMMA HeightHere == HeightSeen
  <1> SUFFICES ASSUME StorageInv, ProjectExclusion, life = "up",
                      NEW t \in Threads, pc[t] = "crit"
               PROVE  Height(call[t].proj) =
                         HeightAt(Dir(t), call[t], at[t], latest[t], target[t])
    BY DEF HeightSeen
  <1> DEFINE p == call[t].proj
  <1>1. ASSUME NEW u \in Threads, Decides(u, p)
        PROVE  u = t
    <2>1. pc[u] = "crit" /\ call[u].proj = p /\ call[u].op \in Writers
      BY <1>1 DEF Decides, Handling, Undoing, Publishing, Inside, Writers
    <2> QED
      BY <2>1, Alone
  <1>2. /\ Handling(t, p) /\ Undoing(t) <=> UndoingAt(Dir(t), call[t], at[t], latest[t])
        /\ Handling(t, p) /\ Publishing(t) <=> PublishingAt(call[t], at[t])
    BY DEF Handling, Undoing, Publishing, Inside, UndoingAt, PublishingAt
  <1>3. CASE Undoing(t)
    <2>1. (CHOOSE u \in Threads : Handling(u, p) /\ Undoing(u)) = t
      BY <1>1, <1>2, <1>3 DEF Decides, Handling
    <2> QED
      BY <1>2, <1>3, <2>1 DEF Height, HeightAt, Handling
  <1>4. CASE ~Undoing(t) /\ Publishing(t)
    <2>1. (CHOOSE u \in Threads : Handling(u, p) /\ Publishing(u)) = t
      BY <1>1, <1>2, <1>4 DEF Decides, Handling
    <2>2. ~\E u \in Threads : Handling(u, p) /\ Undoing(u)
      BY <1>1, <1>4 DEF Decides
    <2> QED
      BY <1>2, <1>4, <2>1, <2>2 DEF Height, HeightAt, Handling
  <1>5. CASE ~Undoing(t) /\ ~Publishing(t)
    <2>1. /\ ~\E u \in Threads : Handling(u, p) /\ Undoing(u)
          /\ ~\E u \in Threads : Handling(u, p) /\ Publishing(u)
      BY <1>1, <1>5 DEF Decides
    <2>2. Height(p) = disk[p].cur
      BY <2>1 DEF Height
    <2> QED
      BY <1>2, <1>5, <2>2 DEF HeightAt, Handling, Dir
  <1> QED
    BY <1>3, <1>4, <1>5

LEMMA HeightThere == HeightSeen'
  BY HeightHere, PTL

\* What is seen of a project in which no writer decides.
LEMMA HeightFree ==
    ASSUME NEW p \in Projects
    PROVE  /\ (\A t \in Threads : ~Decides(t, p)) => Height(p) = disk[p].cur
           /\ (\A t \in Threads : ~Decides(t, p)') => Height(p)' = disk'[p].cur
  BY DEF Height, Decides

LEMMA SeenIs ==
    ASSUME NEW p \in Projects
    PROVE  RepoOf(p) = Shown(disk[p], Height(p)) /\ RepoOf(p)' = Shown(disk'[p], Height(p)')
  BY DEF RepoOf, Shown, Listed, Repo!NoProject, Repo!Project
\* What is seen of a project does not change if nothing of it does but the locals
\* of threads that do not decide.
LEMMA Unmoved ==
    ASSUME StorageInv, ProjectExclusion, StorageInv', ProjectExclusion',
           life = "up", life' = "up", NEW q \in Projects, disk'[q] = disk[q],
           \A u \in Threads :
              \/ /\ pc'[u] = pc[u] /\ call'[u] = call[u] /\ at'[u] = at[u]
                 /\ latest'[u] = latest[u] /\ target'[u] = target[u]
              \/ ~Decides(u, q) /\ ~Decides(u, q)'
    PROVE  RepoOf(q)' = RepoOf(q)
  <1>1. \A u \in Threads : Decides(u, q)' <=> Decides(u, q)
    BY DEF Decides, Handling, Undoing, Publishing, Inside, Dir
  <1>2. Height(q)' = Height(q)
    <2>1. ASSUME NEW u \in Threads, Decides(u, q)
          PROVE  Height(q)' = Height(q)
      <3>1. /\ pc[u] = "crit" /\ call[u].proj = q /\ Dir(u)' = Dir(u)
            /\ pc'[u] = pc[u] /\ call'[u] = call[u] /\ at'[u] = at[u]
            /\ latest'[u] = latest[u] /\ target'[u] = target[u]
        BY <2>1 DEF Decides, Handling, Undoing, Publishing, Inside, Dir
      <3>2. Height(q) = HeightAt(Dir(u), call[u], at[u], latest[u], target[u])
        BY <3>1, HeightHere DEF HeightSeen
      <3>3. Height(q)' = HeightAt(Dir(u)', call'[u], at'[u], latest'[u], target'[u])
        BY <3>1, HeightThere DEF HeightSeen
      <3> QED
        BY <3>1, <3>2, <3>3
    <2>2. CASE \A u \in Threads : ~Decides(u, q)
      BY <1>1, <2>2, HeightFree
    <2> QED
      BY <2>1, <2>2
  <1> QED
    BY <1>2, SeenIs

\* What is seen of the project of a handler, before and after its step.
ReplyAt(d, c, stage, n, reply) == IF UndoingAt(d, c, stage, n) THEN Response(400, << >>) ELSE reply
View(d, c, stage, n, v) == Shown(d, HeightAt(d, c, stage, n, v))

LEMMA InsideSeen ==
    ASSUME StorageInv, ProjectExclusion, StorageInv', ProjectExclusion',
           life = "up", life' = "up", NEW t \in Threads, pc[t] = "crit", Touches(t),
           NEW e, disk'[call[t].proj] = e, e # Dir(t) => call[t].op \in Writers
    PROVE  /\ RepoOf(call[t].proj) = View(Dir(t), call[t], at[t], latest[t], target[t])
           /\ RepoOf(call[t].proj)' = View(e, call[t], at'[t], latest'[t], target'[t])
           /\ \A q \in Projects : q # call[t].proj => RepoOf(q)' = RepoOf(q)
           /\ \A u \in Threads : TodoOf(u)' = TodoOf(u)
           /\ TodoOf(t) = call[t]
           /\ \A u \in Threads : u # t => DoneOf(u)' = DoneOf(u)
           /\ DoneOf(t) = ReplyAt(Dir(t), call[t], at[t], latest[t], answer[t])
           /\ DoneOf(t)' = ReplyAt(e, call[t], at'[t], latest'[t], answer'[t])
  <1> DEFINE p == call[t].proj
  <1>1. /\ p \in Projects /\ UNCHANGED <<pc, call>>
        /\ \A q \in Projects : q # p => disk'[q] = disk[q]
        /\ \A u \in Threads : u # t =>
              /\ at'[u] = at[u] /\ latest'[u] = latest[u] /\ target'[u] = target[u]
              /\ answer'[u] = answer[u]
    BY DirHere DEF Touches
  <1>2. Dir(t)' = e
    BY <1>1 DEF Dir
  <1>3. RepoOf(p) = View(Dir(t), call[t], at[t], latest[t], target[t])
    <2>1. Height(p) = HeightAt(Dir(t), call[t], at[t], latest[t], target[t])
      BY HeightHere DEF HeightSeen
    <2> QED
      BY <1>1, <2>1, SeenIs DEF View, Dir
  <1>4. RepoOf(p)' = View(e, call[t], at'[t], latest'[t], target'[t])
    <2>1. Height(p)' = HeightAt(e, call[t], at'[t], latest'[t], target'[t])
      BY <1>1, <1>2, HeightThere DEF HeightSeen
    <2> QED
      BY <1>1, <1>2, <2>1, SeenIs DEF View
  <1>5. ASSUME NEW q \in Projects, q # p
        PROVE  RepoOf(q)' = RepoOf(q)
    <2>1. ~Decides(t, q) /\ ~Decides(t, q)'
      BY <1>1, <1>5 DEF Decides, Handling
    <2> QED
      BY <1>1, <1>5, <2>1, Unmoved
  <1>6. /\ \A u \in Threads : TodoOf(u)' = TodoOf(u)
        /\ TodoOf(t) = call[t]
    BY <1>1 DEF TodoOf
  <1>7. ASSUME NEW u \in Threads, u # t
        PROVE  DoneOf(u)' = DoneOf(u)
    <2>1. pc[u] = "crit" => Dir(u)' = Dir(u)
      BY <1>7, OthersSee
    <2>2. Undoing(u)' <=> Undoing(u)
      BY <1>1, <1>7, <2>1 DEF Undoing, Inside
    <2> QED
      BY <1>1, <1>7, <2>2 DEF DoneOf
  <1>8. /\ DoneOf(t) = ReplyAt(Dir(t), call[t], at[t], latest[t], answer[t])
        /\ DoneOf(t)' = ReplyAt(e, call[t], at'[t], latest'[t], answer'[t])
    <2>1. /\ Undoing(t) <=> UndoingAt(Dir(t), call[t], at[t], latest[t])
          /\ Undoing(t)' <=> UndoingAt(e, call[t], at'[t], latest'[t])
      BY <1>1, <1>2 DEF Undoing, UndoingAt, Inside
    <2> QED
      BY <2>1 DEF DoneOf, ReplyAt
  <1> QED
    BY <1>1, <1>3, <1>4, <1>5, <1>6, <1>7, <1>8
\* The operation of c acts on a project that is seen as pre.
Performs(c, pre, post, reply) ==
    \/ /\ pre = Repo!NoProject /\ c.op = "create"
       /\ post = Repo!Project(<< >>) /\ reply = Repo!Answer(0, << >>)
    \/ pre = Repo!NoProject /\ c.op # "create" /\ post = pre /\ reply = Repo!Answer(999, << >>)
    \/ /\ pre # Repo!NoProject
       /\ post = IF c.op = "destroy" THEN Repo!NoProject
                 ELSE Repo!Project(Repo!VersionsAfter(c, pre[2]))
       /\ reply = Repo!AnswerTo(c, pre[2])

\* A step inside a handler either changes nothing that is seen, or its operation acts.
LEMMA InsideActs ==
    ASSUME Promised, StorageInv, ProjectExclusion, StorageInv', ProjectExclusion',
           life = "up", life' = "up", NEW t \in Threads, pc[t] = "crit", Touches(t), NEW c, c = call[t],
           NEW e, disk'[call[t].proj] = e, e # Dir(t) => call[t].op \in Writers,
           NEW pre, pre = View(Dir(t), call[t], at[t], latest[t], target[t]),
           NEW post, post = View(e, call[t], at'[t], latest'[t], target'[t]),
           NEW before, before = ReplyAt(Dir(t), call[t], at[t], latest[t], answer[t]),
           NEW after, after = ReplyAt(e, call[t], at'[t], latest'[t], answer'[t]),
           \/ post = pre /\ after = before
           \/ before = NoResponse /\ Performs(call[t], pre, post, after)
    PROVE  Repo!Act(t) \/ UNCHANGED Repo!repoVars
  <1> DEFINE repo == [p \in Projects |-> RepoOf(p)]
             todo == [u \in Threads |-> TodoOf(u)]
             done == [u \in Threads |-> DoneOf(u)]
  <1>1. c \in Calls /\ c.proj \in Projects /\ c # NoCall /\ call' = call
    BY DirHere DEF Promised, Touches
  <1>2. /\ RepoOf(c.proj) = pre /\ RepoOf(c.proj)' = post
        /\ \A q \in Projects : q # c.proj => RepoOf(q)' = RepoOf(q)
        /\ \A u \in Threads : TodoOf(u)' = TodoOf(u)
        /\ TodoOf(t) = c
        /\ \A u \in Threads : u # t => DoneOf(u)' = DoneOf(u)
        /\ DoneOf(t) = before /\ DoneOf(t)' = after
    BY <1>1, InsideSeen
  <1>3. todo' = todo /\ todo[t] = c
    BY <1>2
  <1>4. /\ repo[c.proj] = pre /\ done[t] = before
        /\ repo' = [repo EXCEPT ![c.proj] = post]
        /\ done' = [done EXCEPT ![t] = after]
        /\ post = pre => repo' = repo
        /\ after = before => done' = done
    <2>1. repo[c.proj] = pre /\ done[t] = before
      BY <1>1, <1>2
    <2>2. repo' = [repo EXCEPT ![c.proj] = post]
      BY <1>1, <1>2
    <2>3. done' = [done EXCEPT ![t] = after]
      BY <1>2
    <2>4. post = pre => repo' = repo
      BY <1>1, <1>2
    <2>5. after = before => done' = done
      BY <1>2
    <2> QED
      BY <2>1, <2>2, <2>3, <2>4, <2>5
  <1>5. CASE post = pre /\ after = before
    BY <1>3, <1>4, <1>5 DEF Repo!repoVars
  <1>6. CASE before = NoResponse /\ Performs(c, pre, post, after)
    <2>1. before = Repo!Unanswered
      BY <1>6 DEF NoResponse, Repo!Unanswered
    <2> HIDE DEF repo, todo, done
    <2>2. \/ /\ pre = Repo!NoProject /\ c.op = "create"
             /\ repo' = [repo EXCEPT ![c.proj] = Repo!Project(<< >>)]
             /\ done' = [done EXCEPT ![t] = Repo!Answer(0, << >>)]
          \/ /\ pre = Repo!NoProject /\ c.op # "create"
             /\ done' = [done EXCEPT ![t] = Repo!Answer(999, << >>)]
             /\ UNCHANGED repo
          \/ /\ pre # Repo!NoProject
             /\ repo' = [repo EXCEPT ![c.proj] =
                   IF c.op = "destroy" THEN Repo!NoProject
                   ELSE Repo!Project(Repo!VersionsAfter(c, pre[2]))]
             /\ done' = [done EXCEPT ![t] = Repo!AnswerTo(c, pre[2])]
      BY <1>4, <1>6, ZenonT(40) DEF Performs
    <2>3. /\ todo[t] = c /\ todo' = todo /\ repo[c.proj] = pre
          /\ done[t] = Repo!Unanswered /\ c # NoCall
      BY <1>1, <1>3, <1>4, <2>1
    <2>4. ASSUME /\ todo[t] # NoCall /\ done[t] = Repo!Unanswered
                 /\ \/ /\ repo[todo[t].proj] = Repo!NoProject /\ todo[t].op = "create"
                       /\ repo' = [repo EXCEPT ![todo[t].proj] = Repo!Project(<< >>)]
                       /\ done' = [done EXCEPT ![t] = Repo!Answer(0, << >>)]
                    \/ /\ repo[todo[t].proj] = Repo!NoProject /\ todo[t].op # "create"
                       /\ done' = [done EXCEPT ![t] = Repo!Answer(999, << >>)]
                       /\ UNCHANGED repo
                    \/ /\ repo[todo[t].proj] # Repo!NoProject
                       /\ repo' = [repo EXCEPT ![todo[t].proj] =
                             IF todo[t].op = "destroy" THEN Repo!NoProject
                             ELSE Repo!Project(
                                     Repo!VersionsAfter(todo[t], repo[todo[t].proj][2]))]
                       /\ done' = [done EXCEPT
                                      ![t] = Repo!AnswerTo(todo[t], repo[todo[t].proj][2])]
                 /\ UNCHANGED todo
          PROVE  Repo!Act(t)
      BY <2>4 DEF Repo!Act, repo, todo, done
    <2> QED
      BY <2>2, <2>3, <2>4
  <1> QED
    BY <1>5, <1>6
----------------------------------------------------------------------------
(* When each operation acts. *)

\* A project that exists is seen as its versions.
LEMMA ShownIs ==
    ASSUME NEW d, NEW h
    PROVE  /\ h \in Int => /\ Shown(d, h) = Repo!Project(Listed(d, h))
                           /\ Shown(d, h) # Repo!NoProject /\ Shown(d, h)[2] = Listed(d, h)
           /\ h \in {NoFile, Truncated} => Shown(d, h) = Repo!NoProject
  BY MarksAssumption DEF Shown, Repo!Project, Repo!NoProject

\* At the stages where no writer decides.
Quiet(d, c, stage, n) == ~UndoingAt(d, c, stage, n) /\ ~PublishingAt(c, stage)

LEMMA ViewIs ==
    ASSUME NEW d, NEW c, NEW n, NEW v, NEW stage, Quiet(d, c, stage, n)
    PROVE  View(d, c, stage, n, v) = Shown(d, d.cur)
  BY DEF View, HeightAt, Quiet

LEMMA ReplyIs ==
    ASSUME NEW d, NEW c, NEW n, NEW reply, NEW stage, Quiet(d, c, stage, n)
    PROVE  ReplyAt(d, c, stage, n, reply) = reply
  BY DEF ReplyAt, Quiet

LEMMA QuietStages ==
    ASSUME NEW d, NEW c, NEW n, NEW stage,
           \/ stage \in {"exists", "version", "read", "remove", "mkdir", "answered"}
           \/ stage = "delete" /\ ~(n < d.cur)
           \/ c.op \notin {"push", "rollback"}
    PROVE  Quiet(d, c, stage, n)
  BY DEF Quiet, UndoingAt, PublishingAt

LEMMA ExistsActs ==
    ASSUME Promised, StorageInv, ProjectExclusion, StorageInv', ProjectExclusion', RepoInv,
           life = "up", life' = "up", NEW t \in Threads, Exists(t)
    PROVE  Repo!Act(t) \/ UNCHANGED Repo!repoVars
  <1> DEFINE d == Dir(t)
  <1>0. PICK c \in Calls : c = call[t]
    BY DirHere DEF Exists, Inner
  <1>1. /\ pc[t] = "crit" /\ at[t] = "exists"
        /\ UNCHANGED <<lockVars, call, disk, latest, target, life>>
    BY DEF Exists, Inner
  <1>2. Touches(t) /\ disk'[call[t].proj] = d
    BY <1>1 DEF Exists, Touches, lockVars, Respond, Goto, StorageInv, Domains, Dir
  <1>3. answer[t] = NoResponse
    BY <1>1 DEF RepoInv, Doing
  <1>4. Rest(d)
    BY <1>1, RestHere, ScriptSteps DEF Underway, Writers
  <1>5. \/ /\ c.op = "create" /\ d.dir
           /\ at'[t] = "answered" /\ answer'[t] = Response(1, << >>)
        \/ c.op = "create" /\ ~d.dir /\ at'[t] = "mkdir" /\ answer'[t] = NoResponse
        \/ /\ c.op # "create" /\ ~d.dir
           /\ at'[t] = "answered" /\ answer'[t] = Response(999, << >>)
        \/ /\ c.op = "push" /\ c.id = NoId /\ d.dir
           /\ at'[t] = "answered" /\ answer'[t] = Response(901, << >>)
        \/ at'[t] \in {"remove", "read", "version"} /\ answer'[t] = NoResponse
    BY <1>0, <1>1, <1>3 DEF Exists, Respond, Goto, StorageInv, Domains
  <1> DEFINE pre == View(d, call[t], at[t], latest[t], target[t])
             post == View(d, call[t], at'[t], latest'[t], target'[t])
             before == ReplyAt(d, call[t], at[t], latest[t], answer[t])
             after == ReplyAt(d, call[t], at'[t], latest'[t], answer'[t])
  <1>6. pre = Shown(d, d.cur) /\ before = NoResponse
    BY <1>1, <1>3, QuietStages, ViewIs, ReplyIs
  <1>7. at'[t] \in {"mkdir", "answered", "remove", "read", "version"}
    BY <1>5
  <1>8. post = Shown(d, d.cur) /\ after = answer'[t]
    BY <1>7, QuietStages, ViewIs, ReplyIs
  <1> HIDE DEF d, pre, post, before, after
  <1>9. ASSUME d.dir
        PROVE  pre # Repo!NoProject /\ pre = Repo!Project(pre[2])
    BY <1>4, <1>6, <1>9, ShownIs DEF Rest
  <1>10. ASSUME ~d.dir
         PROVE  pre = Repo!NoProject
    BY <1>4, <1>6, <1>10, ShownIs DEF Rest
  <1>11. \/ post = pre /\ after = before
         \/ before = NoResponse /\ Performs(c, pre, post, after)
    <2>1. CASE answer'[t] = NoResponse
      BY <1>6, <1>8, <2>1
    <2>2. CASE c.op = "create" /\ d.dir /\ answer'[t] = Response(1, << >>)
      BY <1>6, <1>8, <1>9, <2>2
         DEF Performs, Repo!AnswerTo, Repo!VersionsAfter, Repo!Answer, Response
    <2>3. CASE c.op # "create" /\ ~d.dir /\ answer'[t] = Response(999, << >>)
      BY <1>6, <1>8, <1>10, <2>3 DEF Performs, Repo!Answer, Response
    <2>4. CASE c.op = "push" /\ c.id = NoId /\ d.dir /\ answer'[t] = Response(901, << >>)
      BY <1>6, <1>8, <1>9, <2>4
         DEF Performs, Repo!AnswerTo, Repo!VersionsAfter, Repo!Answer, Response
    <2> QED
      BY <1>5, <2>1, <2>2, <2>3, <2>4
  <1> QED
    BY <1>0, <1>1, <1>2, <1>11, InsideActs DEF d, pre, post, before, after

LEMMA ReadVersionActs ==
    ASSUME Promised, StorageInv, ProjectExclusion, StorageInv', ProjectExclusion', RepoInv,
           life = "up", life' = "up", NEW t \in Threads, ReadVersion(t)
    PROVE  Repo!Act(t) \/ UNCHANGED Repo!repoVars
  <1> DEFINE d == Dir(t)
             n == d.cur
             s == Listed(d, n)
  <1>0. PICK c \in Calls : c = call[t]
    BY DirHere DEF ReadVersion, Inner
  <1>1. /\ Touches(t) /\ UNCHANGED <<lockVars, call, disk, life>>
        /\ pc[t] = "crit" /\ at[t] = "version" /\ answer[t] = NoResponse
        /\ n \in Nat /\ latest'[t] = n
    BY VersionRead
  <1>2. \/ /\ c.op = "push" /\ c.arg # n + 1
           /\ at'[t] = "answered" /\ answer'[t] = Response(902, << >>)
        \/ /\ c.op = "rollback" /\ c.arg \notin 1..n
           /\ at'[t] = "answered" /\ answer'[t] = Response(401, << >>)
        \/ /\ c.op = "rollback" /\ c.arg = n /\ n # 0
           /\ at'[t] = "answered" /\ answer'[t] = Response(400, << >>)
        \/ at'[t] \in {"mkdir", "delete", "read"} /\ answer'[t] = NoResponse
    BY <1>0, <1>1, VersionRead DEF Respond, Goto, StorageInv, Domains
  <1>3. disk'[call[t].proj] = d
    BY <1>1 DEF Dir
  <1>4. c.op = "push" => c.id # NoId
    BY <1>0, <1>1, DirHere DEF Progress, Promised
  <1> DEFINE pre == View(d, call[t], at[t], latest[t], target[t])
             post == View(d, call[t], at'[t], latest'[t], target'[t])
             before == ReplyAt(d, call[t], at[t], latest[t], answer[t])
             after == ReplyAt(d, call[t], at'[t], latest'[t], answer'[t])
  <1>5. pre = Shown(d, n) /\ before = NoResponse
    BY <1>1, QuietStages, ViewIs, ReplyIs
  <1>6. at'[t] \in {"mkdir", "delete", "answered", "read"} /\ ~(latest'[t] < n)
    BY <1>1, <1>2
  <1>7. post = Shown(d, n) /\ after = answer'[t]
    BY <1>6, QuietStages, ViewIs, ReplyIs
  <1>8. /\ pre # Repo!NoProject /\ pre[2] = s /\ pre = Repo!Project(s)
        /\ Len(s) = n
    BY <1>1, <1>5, ShownIs, ListedIs
  <1>9. SubSeq(s, 1, n) = s
    <2>1. s \in Seq({FileOf(d, v, "tar") : v \in 1..n})
      BY <1>1, SeqDef DEF Listed
    <2> QED
      BY <1>8, <2>1, SubSeqFull
  <1> HIDE DEF d, s, n, pre, post, before, after
  <1>10. \/ post = pre /\ after = before
         \/ before = NoResponse /\ Performs(c, pre, post, after)
    <2>1. CASE answer'[t] = NoResponse
      BY <1>5, <1>7, <2>1
    <2>2. CASE c.op = "push" /\ c.arg # n + 1 /\ answer'[t] = Response(902, << >>)
      BY <1>4, <1>5, <1>7, <1>8, <2>2
         DEF Performs, Repo!AnswerTo, Repo!VersionsAfter, Repo!Answer, Response
    <2>3. CASE c.op = "rollback" /\ c.arg \notin 1..n /\ answer'[t] = Response(401, << >>)
      BY <1>5, <1>7, <1>8, <2>3
         DEF Performs, Repo!AnswerTo, Repo!VersionsAfter, Repo!Answer, Response
    <2>4. CASE /\ c.op = "rollback" /\ c.arg = n /\ n # 0
               /\ answer'[t] = Response(400, << >>)
      <3>1. c.arg \in 1..n
        BY <1>1, <2>4
      <3> QED
        BY <1>5, <1>7, <1>8, <1>9, <2>4, <3>1, ZenonT(40)
           DEF Performs, Repo!AnswerTo, Repo!VersionsAfter, Repo!Answer, Response
    <2> QED
      BY <1>2, <2>1, <2>2, <2>3, <2>4
  <1> QED
    BY <1>0, <1>1, <1>3, <1>10, InsideActs DEF d, pre, post, before, after
LEMMA ReadActs ==
    ASSUME Promised, StorageInv, ProjectExclusion, StorageInv', ProjectExclusion', RepoInv,
           life = "up", life' = "up", NEW t \in Threads, Read(t)
    PROVE  Repo!Act(t) \/ UNCHANGED Repo!repoVars
  <1> DEFINE d == Dir(t)
             s == Listed(d, d.cur)
  <1>0. PICK c \in Calls : c = call[t]
    BY DirHere DEF Read, Inner
  <1>1. /\ UNCHANGED <<lockVars, call, disk, latest, target, life>>
        /\ pc[t] = "crit" /\ at[t] = "read" /\ answer[t] = NoResponse
        /\ c.op \notin {"create", "destroy", "rollback", "push"} /\ d.cur \in Nat
        /\ at' = [at EXCEPT ![t] = "answered"]
        /\ answer' = [answer EXCEPT ![t] = Repo!AnswerTo(c, s)]
    BY <1>0, ReadAnswers
  <1>2. /\ Touches(t) /\ disk'[call[t].proj] = d
        /\ at'[t] = "answered" /\ answer'[t] = Repo!AnswerTo(c, s)
    BY <1>1 DEF Touches, lockVars, StorageInv, Domains, Dir
  <1> DEFINE pre == View(d, call[t], at[t], latest[t], target[t])
             post == View(d, call[t], at'[t], latest'[t], target'[t])
             before == ReplyAt(d, call[t], at[t], latest[t], answer[t])
             after == ReplyAt(d, call[t], at'[t], latest'[t], answer'[t])
  <1>3. pre = Shown(d, d.cur) /\ before = NoResponse
    BY <1>1, QuietStages, ViewIs, ReplyIs
  <1>4. post = Shown(d, d.cur) /\ after = Repo!AnswerTo(c, s)
    BY <1>2, QuietStages, ViewIs, ReplyIs
  <1>5. pre # Repo!NoProject /\ pre[2] = s /\ pre = Repo!Project(s)
    BY <1>1, <1>3, ShownIs
  <1> HIDE DEF d, s, pre, post, before, after
  <1>6. before = NoResponse /\ Performs(c, pre, post, after)
    BY <1>1, <1>3, <1>4, <1>5 DEF Performs, Repo!VersionsAfter
  <1> QED
    BY <1>0, <1>1, <1>2, <1>6, InsideActs DEF d, pre, post, before, after

LEMMA CreateActs ==
    ASSUME Promised, StorageInv, ProjectExclusion, StorageInv', ProjectExclusion', RepoInv,
           life = "up", life' = "up",
           NEW t \in Threads, NEW stage \in Steps("create"), Create(t, stage)
    PROVE  Repo!Act(t) \/ UNCHANGED Repo!repoVars
  <1> DEFINE d == Dir(t)
             e == CreateStep(d, stage)
             next == Following("create", stage)
  <1>0. PICK c : c = call[t]
    OBVIOUS
  <1>1. /\ pc[t] = "crit" /\ at[t] = stage /\ c.op = "create" /\ Touches(t)
        /\ disk'[call[t].proj] = e /\ answer[t] = NoResponse /\ at'[t] = next
        /\ answer'[t] = IF next = "answered" THEN Response(0, << >>) ELSE NoResponse
    BY <1>0, CreateFacts
  <1>2. Shaped(d) /\ CreateAt(d, stage)
    BY <1>0, <1>1, DirHere DEF Progress
  <1>3. d.cur \in {NoFile, Truncated}
    BY <1>0, <1>1 DEF RepoInv, Doing
  <1> DEFINE pre == View(d, call[t], at[t], latest[t], target[t])
             post == View(e, call[t], at'[t], latest'[t], target'[t])
             before == ReplyAt(d, call[t], at[t], latest[t], answer[t])
             after == ReplyAt(e, call[t], at'[t], latest'[t], answer'[t])
  <1>4. pre = Shown(d, d.cur) /\ before = NoResponse
    BY <1>0, <1>1, QuietStages, ViewIs, ReplyIs
  <1>5. post = Shown(e, e.cur) /\ after = answer'[t]
    BY <1>0, <1>1, QuietStages, ViewIs, ReplyIs
  <1>6. pre = Repo!NoProject
    BY <1>3, <1>4, ShownIs
  <1> HIDE DEF d, e, next, pre, post, before, after
  <1>7. /\ stage # "currentversion" => next \in Steps("create")
        /\ stage = "mkdir" => e.cur = NoFile
        /\ stage = "curr" => e.cur = d.cur
        /\ stage = "truncate" => e.cur = Truncated
        /\ stage = "currentversion" => next = "answered" /\ e.cur = 0
    BY <1>2, CreateMoves DEF e, next
  <1>8. CASE stage = "currentversion"
    <2>1. post = Repo!Project(<< >>)
      BY <1>5, <1>7, <1>8, ShownIs, ListedIs
    <2> QED
      BY <1>0, <1>1, <1>4, <1>5, <1>6, <1>7, <1>8, <2>1, InsideActs
         DEF Performs, Repo!Answer, Response, Writers, d, pre, post, before, after
  <1>9. CASE stage # "currentversion"
    <2>1. e.cur \in {NoFile, Truncated} /\ next # "answered"
      BY <1>3, <1>7, <1>9, ScriptSteps
    <2>2. post = pre /\ after = before
      BY <1>1, <1>4, <1>5, <1>6, <2>1, ShownIs
    <2> QED
      BY <1>0, <1>1, <2>2, InsideActs DEF Writers, d, pre, post, before, after
  <1> QED
    BY <1>8, <1>9

LEMMA DestroyActs ==
    ASSUME Promised, StorageInv, ProjectExclusion, StorageInv', ProjectExclusion', RepoInv,
           life = "up", life' = "up", NEW t \in Threads, Destroy(t)
    PROVE  Repo!Act(t) \/ UNCHANGED Repo!repoVars
  <1> DEFINE d == Dir(t)
  <1>0. PICK c : c = call[t]
    OBVIOUS
  <1>1. /\ pc[t] = "crit" /\ at[t] = "remove" /\ c.op = "destroy" /\ Touches(t)
        /\ disk'[call[t].proj] = Absent /\ answer[t] = NoResponse
        /\ at'[t] = "answered" /\ answer'[t] = Response(300, << >>)
    BY <1>0, DestroyFacts
  <1>2. Rest(d) /\ d.dir
    BY <1>0, <1>1 DEF RepoInv, Doing
  <1> DEFINE pre == View(d, call[t], at[t], latest[t], target[t])
             post == View(Absent, call[t], at'[t], latest'[t], target'[t])
             before == ReplyAt(d, call[t], at[t], latest[t], answer[t])
             after == ReplyAt(Absent, call[t], at'[t], latest'[t], answer'[t])
  <1>3. pre = Shown(d, d.cur) /\ before = NoResponse
    BY <1>1, QuietStages, ViewIs, ReplyIs
  <1>4. post = Shown(Absent, Absent.cur) /\ after = Response(300, << >>)
    BY <1>1, QuietStages, ViewIs, ReplyIs
  <1>5. Absent.cur = NoFile
    BY DEF Absent
  <1>6. pre # Repo!NoProject /\ post = Repo!NoProject
    BY <1>2, <1>3, <1>4, <1>5, ShownIs DEF Rest
  <1> HIDE DEF d, pre, post, before, after
  <1>7. Performs(c, pre, post, after)
    BY <1>1, <1>4, <1>6 DEF Performs, Repo!AnswerTo, Repo!Answer, Response
  <1> QED
    BY <1>0, <1>1, <1>3, <1>7, InsideActs DEF Writers, d, pre, post, before, after
\* The versions that two directories have alike are seen alike.
LEMMA ListedAlike ==
    ASSUME NEW d, NEW e, NEW n \in Nat,
           \A v \in 1..n : /\ v \in DOMAIN d.vers /\ v \in DOMAIN e.vers
                           /\ e.vers[v] = d.vers[v]
    PROVE  Listed(e, n) = Listed(d, n)
  BY DEF Listed, FileOf

\* Going back to a version, and adding one.
LEMMA ListedShorter ==
    ASSUME NEW d, NEW e, NEW n \in Nat, NEW old \in 1..n,
           \A v \in 1..old : /\ v \in DOMAIN d.vers /\ v \in DOMAIN e.vers
                             /\ e.vers[v] = d.vers[v]
    PROVE  Listed(e, old) = SubSeq(Listed(d, n), 1, old)
  <1> DEFINE s == Listed(d, n)
             S == {FileOf(d, v, "tar") : v \in 1..n}
  <1>1. s \in Seq(S) /\ Len(s) = n
    <2>1. s \in [1..n -> S]
      BY DEF Listed
    <2> HIDE DEF S
    <2> QED
      BY <2>1, SeqDef, ListedIs
  <1>2. Listed(e, old) = Listed(d, old)
    BY ListedAlike
  <1>3. old \in Nat /\ old <= n
    OBVIOUS
  <1>4. Listed(d, old) = SubSeq(s, 1, old)
    <2>1. \A v \in 1..old : v \in 1..n
      BY <1>3
    <2>2. \A v \in 1..old : s[v] = FileOf(d, v, "tar")
      BY <2>1, ListedIs
    <2>3. SubSeq(s, 1, old) = [v \in 1..old |-> s[v]]
      BY <1>1, <1>3, <2>1, SubSeqRestrict DEF Restrict
    <2> QED
      BY <2>2, <2>3 DEF Listed
  <1> QED
    BY <1>2, <1>4

LEMMA ListedLonger ==
    ASSUME NEW d, NEW e, NEW new \in Nat \ {0},
           \A v \in 1..(new - 1) : /\ v \in DOMAIN d.vers /\ v \in DOMAIN e.vers
                                   /\ e.vers[v] = d.vers[v]
    PROVE  Listed(e, new) = Append(Listed(d, new - 1), FileOf(e, new, "tar"))
  <1> DEFINE s == Listed(d, new - 1)
             x == FileOf(e, new, "tar")
             S == {FileOf(d, v, "tar") : v \in 1..(new - 1)} \cup {x}
  <1>0. new - 1 \in Nat
    OBVIOUS
  <1>1. s \in Seq(S) /\ x \in S /\ Len(s) = new - 1
    BY <1>0, SeqDef, ListedIs DEF Listed
  <1>2. Listed(e, new - 1) = s
    BY <1>0, ListedAlike
  <1> HIDE DEF s, x, S
  <1>3. /\ Append(s, x) \in Seq(S) /\ Len(Append(s, x)) = new
        /\ \A v \in 1..(new - 1) : Append(s, x)[v] = s[v]
        /\ Append(s, x)[new] = x
    <2>1. new - 1 + 1 = new
      OBVIOUS
    <2> QED
      BY <1>1, <2>1, AppendProperties
  <1>4. Listed(e, new) \in Seq(S) /\ Len(Listed(e, new)) = new
    <2>1. \A v \in 1..new : FileOf(e, v, "tar") \in S
      <3>1. \A v \in 1..(new - 1) : FileOf(e, v, "tar") = FileOf(d, v, "tar")
        BY DEF FileOf
      <3>2. \A v \in 1..new : v \in 1..(new - 1) \/ v = new
        OBVIOUS
      <3> QED
        BY <3>1, <3>2 DEF S, x
    <2>2. Listed(e, new) \in [1..new -> S]
      BY <2>1 DEF Listed
    <2> QED
      BY <2>2, SeqDef, ListedIs
  <1>5. \A v \in 1..new : Listed(e, new)[v] = Append(s, x)[v]
    <2> TAKE v \in 1..new
    <2>1. Listed(e, new)[v] = FileOf(e, v, "tar")
      BY ListedIs
    <2>2. CASE v = new
      BY <1>3, <2>1, <2>2 DEF x
    <2>3. CASE v # new
      <3>1. v \in 1..(new - 1)
        BY <2>3
      <3>2. s[v] = FileOf(e, v, "tar")
        BY <1>0, <1>2, <3>1, ListedIs
      <3> QED
        BY <1>3, <2>1, <3>1, <3>2
    <2> QED
      BY <2>2, <2>3
  <1>6. Listed(e, new) = Append(s, x)
    BY <1>3, <1>4, <1>5, SeqEqual
  <1> QED
    BY <1>6 DEF s, x
\* What is seen during a push, and during a rollback.
LEMMA PushView ==
    ASSUME NEW d, NEW c, c.op = "push", NEW stage, NEW n, NEW v
    PROVE  View(d, c, stage, n, v) = Shown(d, IF stage = "currentversion" THEN n ELSE d.cur)
  BY DEF View, HeightAt, UndoingAt, PublishingAt

LEMMA PushReply ==
    ASSUME NEW d, NEW c, c.op = "push", NEW stage, NEW n, NEW reply
    PROVE  ReplyAt(d, c, stage, n, reply) = reply
  BY DEF ReplyAt, UndoingAt

LEMMA RollbackView ==
    ASSUME NEW d, NEW c, c.op = "rollback", NEW stage, NEW n, NEW v
    PROVE  View(d, c, stage, n, v) = Shown(d, IF UndoingAt(d, c, stage, n) THEN v ELSE d.cur)
  BY DEF View, HeightAt, PublishingAt

\* A push acts when it writes Currentversion.
LEMMA PushActs ==
    ASSUME Promised, StorageInv, ProjectExclusion, StorageInv', ProjectExclusion', RepoInv,
           life = "up", life' = "up",
           NEW t \in Threads, NEW stage \in Steps("push"), Push(t, stage)
    PROVE  Repo!Act(t) \/ UNCHANGED Repo!repoVars
  <1> DEFINE d == Dir(t)
             x == Content(call[t].arg, call[t].id)
             e == PushStep(d, stage, call[t].arg, x)
             next == Following("push", stage)
  <1>0. PICK c : c = call[t]
    OBVIOUS
  <1>1. /\ pc[t] = "crit" /\ at[t] = stage /\ c.op = "push" /\ Touches(t)
        /\ c.id \in Ids /\ c.arg \in Int /\ latest[t] = c.arg - 1 /\ latest'[t] = latest[t]
        /\ Shaped(d) /\ PushAt(d, stage, c.arg, x)
        /\ disk'[call[t].proj] = e /\ answer[t] = NoResponse /\ at'[t] = next
        /\ answer'[t] = IF next = "answered" THEN Response(900, << >>) ELSE NoResponse
    BY <1>0, PushFacts
  <1>2. /\ c.arg > 0 /\ Complete(d, c.arg - 1)
        /\ d.cur = c.arg - 1 \/ stage = "currentversion"
    BY <1>0, <1>1 DEF RepoInv, Doing
  <1> DEFINE pre == View(d, call[t], at[t], latest[t], target[t])
             post == View(e, call[t], at'[t], latest'[t], target'[t])
             before == ReplyAt(d, call[t], at[t], latest[t], answer[t])
             after == ReplyAt(e, call[t], at'[t], latest'[t], answer'[t])
             s == Listed(d, c.arg - 1)
  <1>3. pre = Shown(d, c.arg - 1) /\ before = NoResponse
    BY <1>0, <1>1, <1>2, PushView, PushReply
  <1>4. /\ post = Shown(e, IF next = "currentversion" THEN c.arg - 1 ELSE e.cur)
        /\ after = answer'[t]
    BY <1>0, <1>1, PushView, PushReply
  <1>5. c.arg - 1 \in Nat /\ c.arg \in Nat \ {0}
    BY <1>1, <1>2
  <1>6. pre = Repo!Project(s) /\ pre # Repo!NoProject /\ pre[2] = s /\ Len(s) = c.arg - 1
    BY <1>3, <1>5, ShownIs, ListedIs
  <1> HIDE DEF d, e, next, pre, post, before, after, s
  <1>7. /\ stage # "currentversion" => next \in Steps("push")
        /\ stage \notin {"truncate", "currentversion"} => e.cur = d.cur
        /\ stage = "truncate" => next = "currentversion"
        /\ stage = "currentversion" =>
              next = "answered" /\ e.cur = c.arg /\ FileOf(e, c.arg, "tar") = x
    <2>1. /\ stage # "currentversion" => next \in Steps("push")
          /\ stage \notin {"truncate", "currentversion"} => e.cur = d.cur
          /\ stage = "truncate" => next = "currentversion"
          /\ stage = "currentversion" => next = "answered" /\ Pushed(e, x)
      BY <1>0, <1>1, PushMoves DEF e, next
    <2>2. x.ver = c.arg
      BY <1>0 DEF Content
    <2> HIDE DEF x
    <2>3. Pushed(e, x) => e.cur = c.arg /\ FileOf(e, c.arg, "tar") = x
      BY <2>2 DEF Pushed, FileOf, VersionOf
    <2> QED
      BY <2>1, <2>3
  <1> HIDE DEF x
  <1>8. stage # "mkdir" => c.arg \in DOMAIN d.vers
    BY <1>1 DEF PushAt
  <1>9. \A v \in DOMAIN d.vers : v # c.arg => v \in DOMAIN e.vers /\ e.vers[v] = d.vers[v]
    BY <1>0, <1>1, <1>8, PushLeaves DEF e
  <1>10. \A v \in 1..(c.arg - 1) : /\ v \in DOMAIN d.vers /\ v \in DOMAIN e.vers
                                   /\ e.vers[v] = d.vers[v]
    <2>1. \A v \in 1..(c.arg - 1) : v # c.arg
      BY <1>5
    <2> QED
      BY <1>2, <1>9, <2>1 DEF Complete
  <1>11. CASE stage # "currentversion"
    <2>1. (IF next = "currentversion" THEN c.arg - 1 ELSE e.cur) = c.arg - 1
      BY <1>2, <1>7, <1>11
    <2>2. Listed(e, c.arg - 1) = s
      BY <1>5, <1>10, ListedAlike DEF s
    <2>3. post = Repo!Project(s)
      BY <1>4, <1>5, <2>1, <2>2, ShownIs
    <2>4. next # "answered"
      BY <1>7, <1>11, ScriptSteps
    <2>5. post = pre /\ after = before
      BY <1>1, <1>3, <1>4, <1>6, <2>3, <2>4
    <2> QED
      BY <1>0, <1>1, <2>5, InsideActs DEF Writers, d, pre, post, before, after
  <1>12. CASE stage = "currentversion"
    <2>1. Listed(e, c.arg) = Append(s, x)
      <3>1. FileOf(e, c.arg, "tar") = x
        BY <1>7, <1>12
      <3>2. Listed(e, c.arg) = Append(Listed(d, c.arg - 1), FileOf(e, c.arg, "tar"))
        BY <1>5, <1>10, ListedLonger
      <3> QED
        BY <3>1, <3>2 DEF s
    <2>2. post = Repo!Project(Append(s, x))
      <3>1. (IF next = "currentversion" THEN c.arg - 1 ELSE e.cur) = c.arg
        BY <1>7, <1>12
      <3>2. Shown(e, c.arg) = Repo!Project(Listed(e, c.arg))
        BY <1>5, ShownIs
      <3> QED
        BY <1>4, <2>1, <3>1, <3>2
    <2>3. c.id # NoId /\ c.arg = Len(s) + 1
      BY <1>1, <1>6 DEF Promised
    <2>4. x = Repo!Content(c.arg, c.id)
      BY <1>0 DEF x, Content, Repo!Content
    <2>5. Repo!VersionsAfter(c, s) = Append(s, x)
      BY <1>1, <2>3, <2>4 DEF Repo!VersionsAfter
    <2>6. Repo!AnswerTo(c, s) = Response(900, << >>)
      BY <1>1, <2>3 DEF Repo!AnswerTo, Repo!Answer, Response
    <2>7. after = Response(900, << >>)
      BY <1>1, <1>4, <1>7, <1>12
    <2>8. before = NoResponse /\ Performs(c, pre, post, after)
      BY <1>1, <1>3, <1>6, <2>2, <2>5, <2>6, <2>7, ZenonT(40) DEF Performs
    <2> QED
      BY <1>0, <1>1, <2>8, InsideActs DEF Writers, d, pre, post, before, after
  <1> QED
    BY <1>11, <1>12

\* A rollback acts when it deletes the first version.
LEMMA RollbackActs ==
    ASSUME Promised, StorageInv, ProjectExclusion, StorageInv', ProjectExclusion', RepoInv,
           life = "up", life' = "up",
           NEW t \in Threads, NEW stage \in Steps("rollback"), Rollback(t, stage)
    PROVE  Repo!Act(t) \/ UNCHANGED Repo!repoVars
  <1> DEFINE d == Dir(t)
             n == latest[t]
             e == RollbackStep(d, stage, n, call[t].arg, call[t].arg)
             next == Following("rollback", stage)
  <1>0. PICK c : c = call[t]
    OBVIOUS
  <1>1. /\ pc[t] = "crit" /\ at[t] = stage /\ c.op = "rollback" /\ Touches(t)
        /\ c.arg \in Nat /\ c.arg > 0 /\ target[t] = c.arg /\ target'[t] = target[t]
        /\ Shaped(d) /\ Complete(d, c.arg) /\ WholeTo(d, c.arg)
        /\ FileOf(d, c.arg, "tar") # NoFile
        /\ stage = "delete" =>
              n \in Int /\ d.cur \in Int /\ c.arg < n /\ n <= d.cur /\ Complete(d, n)
        /\ disk'[call[t].proj] = e /\ answer[t] = NoResponse
        /\ stage = "delete" =>
              /\ latest'[t] = n - 1 /\ answer'[t] = NoResponse
              /\ at'[t] \in {"delete", "untar"}
        /\ stage # "delete" =>
              /\ at'[t] = next
              /\ answer'[t] = IF next = "answered" THEN Response(400, << >>) ELSE NoResponse
    BY <1>0, RollbackFacts
  <1> DEFINE pre == View(d, call[t], at[t], latest[t], target[t])
             post == View(e, call[t], at'[t], latest'[t], target'[t])
             before == ReplyAt(d, call[t], at[t], latest[t], answer[t])
             after == ReplyAt(e, call[t], at'[t], latest'[t], answer'[t])
             undoing == UndoingAt(d, call[t], at[t], latest[t])
             undone == UndoingAt(e, call[t], at'[t], latest'[t])
  <1>2. /\ undoing => pre = Shown(d, c.arg) /\ before = Response(400, << >>)
        /\ ~undoing => pre = Shown(d, d.cur) /\ before = NoResponse
    BY <1>0, <1>1, RollbackView DEF ReplyAt
  <1>3. /\ undone => post = Shown(e, c.arg) /\ after = Response(400, << >>)
        /\ ~undone => post = Shown(e, e.cur) /\ after = answer'[t]
    BY <1>0, <1>1, RollbackView DEF ReplyAt
  <1>4. undoing <=> stage \in {"untar", "truncate", "currentversion"} \/ n < d.cur
    BY <1>0, <1>1, ScriptSteps DEF UndoingAt
  <1>5. undone <=> \/ at'[t] \in {"untar", "truncate", "currentversion"}
                   \/ at'[t] = "delete" /\ latest'[t] < e.cur
    BY <1>0, <1>1 DEF UndoingAt
  <1> HIDE DEF d, n, e, next, pre, post, before, after, undoing, undone
  <1>6. /\ stage \in {"delete", "untar"} => e.cur = d.cur
        /\ stage = "untar" => next \in {"truncate", "currentversion"}
        /\ stage = "truncate" => next = "currentversion"
        /\ stage = "currentversion" => next = "answered" /\ e.cur = c.arg
    BY <1>0, <1>1, RollbackMoves DEF e, next
  <1>7. /\ stage = "delete" =>
              \A v \in DOMAIN d.vers : v # n => v \in DOMAIN e.vers /\ e.vers[v] = d.vers[v]
        /\ stage # "delete" => e.vers = d.vers
    BY <1>0, <1>1, RollbackLeaves DEF e
  <1>8. \A v \in 1..c.arg : /\ v \in DOMAIN d.vers /\ v \in DOMAIN e.vers
                            /\ e.vers[v] = d.vers[v]
    <2>1. stage = "delete" => \A v \in 1..c.arg : v # n
      BY <1>1
    <2> QED
      BY <1>1, <1>7, <2>1 DEF Complete
  <1>9. Listed(e, c.arg) = Listed(d, c.arg)
    BY <1>1, <1>8, ListedAlike
  <1>10. Shown(e, c.arg) = Repo!Project(Listed(d, c.arg))
         /\ Shown(d, c.arg) = Repo!Project(Listed(d, c.arg))
    BY <1>1, <1>9, ShownIs
  <1>11. CASE stage # "delete"
    <2>1. pre = Shown(d, c.arg) /\ before = Response(400, << >>)
      BY <1>2, <1>4, <1>11, ScriptSteps
    <2>2. post = Shown(e, c.arg) /\ after = Response(400, << >>)
      BY <1>1, <1>3, <1>5, <1>6, <1>11, ScriptSteps
    <2>3. post = pre /\ after = before
      BY <1>10, <2>1, <2>2
    <2> QED
      BY <1>0, <1>1, <2>3, InsideActs DEF Writers, d, pre, post, before, after
  <1>12. CASE stage = "delete"
    <2>1. undone
      BY <1>1, <1>5, <1>6, <1>12
    <2>2. CASE undoing
      <3>1. post = pre /\ after = before
        BY <1>2, <1>3, <1>10, <2>1, <2>2
      <3> QED
        BY <1>0, <1>1, <3>1, InsideActs DEF Writers, d, pre, post, before, after
    <2>3. CASE ~undoing
      <3> DEFINE s == Listed(d, d.cur)
      <3>1. d.cur \in Nat /\ c.arg \in 1..d.cur
        BY <1>1, <1>12
      <3>2. pre = Repo!Project(s) /\ pre # Repo!NoProject /\ pre[2] = s /\ Len(s) = d.cur
        BY <1>2, <2>3, <3>1, ShownIs, ListedIs
      <3>3. Listed(e, c.arg) = SubSeq(s, 1, c.arg)
        BY <1>8, <3>1, ListedShorter
      <3> HIDE DEF s
      <3>4. post = Repo!Project(SubSeq(s, 1, c.arg)) /\ after = Response(400, << >>)
        BY <1>3, <1>9, <1>10, <2>1, <3>3
      <3>5. Repo!VersionsAfter(c, s) = SubSeq(s, 1, c.arg)
        BY <1>1, <3>1, <3>2 DEF Repo!VersionsAfter
      <3>6. Repo!AnswerTo(c, s) = Response(400, << >>)
        BY <1>1, <3>1, <3>2 DEF Repo!AnswerTo, Repo!Answer, Response
      <3>7. before = NoResponse /\ Performs(c, pre, post, after)
        BY <1>1, <1>2, <2>3, <3>2, <3>4, <3>5, <3>6 DEF Performs
      <3> QED
        BY <1>0, <1>1, <3>7, InsideActs DEF Writers, d, pre, post, before, after
    <2> QED
      BY <2>2, <2>3
  <1> QED
    BY <1>11, <1>12
LEMMA HandlerActs ==
    ASSUME Promised, StorageInv, ProjectExclusion, StorageInv', ProjectExclusion', RepoInv,
           life = "up", life' = "up", NEW t \in Threads, Handler(t)
    PROVE  Repo!Act(t) \/ UNCHANGED Repo!repoVars
  BY HandlerSteps, ExistsActs, ReadVersionActs, ReadActs, CreateActs, DestroyActs, PushActs,
     RollbackActs

----------------------------------------------------------------------------
(* The steps outside the handlers. *)

\* Such a step changes nothing that is seen of a project.
LEMMA OutsideSeen ==
    ASSUME StorageInv, ProjectExclusion, StorageInv', ProjectExclusion',
           life = "up", life' = "up", NEW t \in Threads, UNCHANGED disk,
           pc[t] = "crit" => at[t] \in {"exists", "answered"},
           pc'[t] = "crit" => at'[t] \in {"exists", "answered"},
           \A u \in Threads : u # t =>
              /\ pc'[u] = pc[u] /\ call'[u] = call[u] /\ at'[u] = at[u]
              /\ latest'[u] = latest[u] /\ target'[u] = target[u] /\ answer'[u] = answer[u]
    PROVE  /\ \A q \in Projects : RepoOf(q)' = RepoOf(q)
           /\ \A u \in Threads : u # t => TodoOf(u)' = TodoOf(u) /\ DoneOf(u)' = DoneOf(u)
           /\ DoneOf(t) = answer[t] /\ DoneOf(t)' = answer'[t]
  <1>1. /\ ~Undoing(t) /\ ~Publishing(t)
        /\ ~Undoing(t)' /\ ~Publishing(t)'
    BY DEF Undoing, Publishing, Inside
  <1>2. ASSUME NEW q \in Projects
        PROVE  RepoOf(q)' = RepoOf(q)
    BY <1>1, Unmoved DEF Decides
  <1>3. ASSUME NEW u \in Threads, u # t
        PROVE  TodoOf(u)' = TodoOf(u) /\ DoneOf(u)' = DoneOf(u)
    BY <1>3 DEF TodoOf, DoneOf, Undoing, Inside, Dir
  <1>4. DoneOf(t) = answer[t] /\ DoneOf(t)' = answer'[t]
    BY <1>1 DEF DoneOf
  <1> QED
    BY <1>2, <1>3, <1>4

LEMMA ArriveActs ==
    ASSUME TypeOK, StorageInv, ProjectExclusion, StorageInv', ProjectExclusion',
           NEW t \in Threads, NEW c \in Calls, Arrive(t, c)
    PROVE  Repo!Call(t, c)
  <1>1. /\ life = "up" /\ life' = "up" /\ pc[t] = "idle" /\ pc' = [pc EXCEPT ![t] = "lookup"]
        /\ call' = [call EXCEPT ![t] = c]
        /\ UNCHANGED <<disk, at, latest, target, answer>>
    BY DEF Arrive, Receive
  <1>2. /\ pc'[t] = "lookup" /\ call'[t] = c
        /\ \A u \in Threads : u # t => pc'[u] = pc[u] /\ call'[u] = call[u]
    BY <1>1 DEF TypeOK, StorageInv, Domains
  <1>3. /\ \A q \in Projects : RepoOf(q)' = RepoOf(q)
        /\ \A u \in Threads : u # t => TodoOf(u)' = TodoOf(u) /\ DoneOf(u)' = DoneOf(u)
        /\ DoneOf(t) = answer[t] /\ DoneOf(t)' = answer'[t]
    BY <1>1, <1>2, OutsideSeen
  <1>4. TodoOf(t) = NoCall /\ TodoOf(t)' = c /\ DoneOf(t)' = DoneOf(t)
    BY <1>1, <1>2, <1>3 DEF TodoOf
  <1> QED
    BY <1>3, <1>4 DEF Repo!Call

LEMMA LockActs ==
    ASSUME TypeOK, StorageInv, ProjectExclusion, StorageInv', ProjectExclusion',
           NEW t \in Threads, FindLock(t) \/ CallLock(t) \/ Enter(t)
    PROVE  UNCHANGED Repo!repoVars
  <1>1. /\ life = "up" /\ life' = "up" /\ pc[t] \in {"lookup", "got", "wait"}
        /\ \/ pc' = [pc EXCEPT ![t] = "got"] /\ at' = at
           \/ pc' = [pc EXCEPT ![t] = "wait"] /\ at' = at
           \/ pc' = [pc EXCEPT ![t] = "crit"] /\ at' = [at EXCEPT ![t] = "exists"]
        /\ UNCHANGED <<disk, call, latest, target, answer>>
    BY DEF FindLock, CallLock, Enter, Lookup, Request, Acquire
  <1>2. /\ pc'[t] \in {"got", "wait", "crit"} /\ (pc'[t] = "crit" => at'[t] = "exists")
        /\ \A u \in Threads : u # t => pc'[u] = pc[u] /\ at'[u] = at[u]
    BY <1>1 DEF TypeOK, StorageInv, Domains
  <1>3. /\ \A q \in Projects : RepoOf(q)' = RepoOf(q)
        /\ \A u \in Threads : u # t => TodoOf(u)' = TodoOf(u) /\ DoneOf(u)' = DoneOf(u)
        /\ DoneOf(t) = answer[t] /\ DoneOf(t)' = answer'[t]
    BY <1>1, <1>2, OutsideSeen
  <1>4. TodoOf(t)' = TodoOf(t) /\ DoneOf(t)' = DoneOf(t)
    BY <1>1, <1>2, <1>3 DEF TodoOf
  <1> QED
    BY <1>3, <1>4 DEF Repo!repoVars

LEMMA LeaveActs ==
    ASSUME Promised, TypeOK, StorageInv, ProjectExclusion, StorageInv', ProjectExclusion',
           RepoInv, NEW t \in Threads, Leave(t)
    PROVE  Repo!Return(t)
  <1>1. /\ life = "up" /\ life' = "up" /\ at[t] = "answered" /\ pc[t] = "crit"
        /\ pc' = [pc EXCEPT ![t] = "idle"]
        /\ at' = [at EXCEPT ![t] = "none"] /\ latest' = [latest EXCEPT ![t] = 0]
        /\ target' = [target EXCEPT ![t] = 0] /\ answer' = [answer EXCEPT ![t] = NoResponse]
        /\ UNCHANGED <<disk, call>>
    BY DEF Leave, Release
  <1>2. /\ pc'[t] = "idle" /\ answer'[t] = NoResponse
        /\ \A u \in Threads : u # t =>
              /\ pc'[u] = pc[u] /\ at'[u] = at[u] /\ latest'[u] = latest[u]
              /\ target'[u] = target[u] /\ answer'[u] = answer[u]
    BY <1>1 DEF TypeOK, StorageInv, Domains
  <1>3. /\ \A q \in Projects : RepoOf(q)' = RepoOf(q)
        /\ \A u \in Threads : u # t => TodoOf(u)' = TodoOf(u) /\ DoneOf(u)' = DoneOf(u)
        /\ DoneOf(t) = answer[t] /\ DoneOf(t)' = answer'[t]
    BY <1>1, <1>2, OutsideSeen
  <1>4. TodoOf(t) # NoCall /\ TodoOf(t)' = NoCall
    BY <1>1, <1>2, DirHere DEF TodoOf, Promised
  <1>5. answer[t].code # -1
    BY <1>1 DEF RepoInv, Doing
  <1>6. DoneOf(t) # Repo!Unanswered /\ DoneOf(t)' = Repo!Unanswered
    BY <1>2, <1>3, <1>5 DEF NoResponse, Repo!Unanswered
  <1> QED
    BY <1>3, <1>4, <1>6 DEF Repo!Return

\* The height of a project does not change when the server dies: a push that was
\* about to write Currentversion has not happened.
LEMMA KillActs ==
    ASSUME Promised, TypeOK, StorageInv, ProjectExclusion, RepoInv, Kill
    PROVE  Repo!Die
  <1>1. /\ life = "up" /\ life' = "killed" /\ UNCHANGED <<pc, disk, call, at, latest, answer>>
        /\ restarts < MaxRestarts
    BY DEF Kill, lockVars
  <1>2. MaxRestarts # 0
    BY <1>1 DEF TypeOK
  <1>3. /\ ~TornWrites
        /\ Ops \subseteq {"history", "currentversion", "checkout", "upgrade", "push"}
    BY <1>2 DEF Promised
  <1>4. ASSUME NEW p \in Projects
        PROVE  RepoOf(p)' = RepoOf(p)
    <2>1. ASSUME NEW t \in Threads, Decides(t, p)
          PROVE  Height(p) = disk[p].cur
      <3>1. pc[t] = "crit" /\ call[t].proj = p /\ call[t] \in Calls /\ call[t].op \in Ops
        BY <2>1, DirHere, OpOf DEF Decides, Handling, Undoing, Publishing, Inside
      <3>2. call[t].op = "push" /\ at[t] = "currentversion"
        BY <1>3, <2>1, <3>1 DEF Decides, Undoing, Publishing
      <3>3. Dir(t).cur = call[t].arg - 1
        BY <1>3, <3>1, <3>2, ScriptSteps DEF RepoInv, Doing
      <3>4. latest[t] = call[t].arg - 1
        BY <3>1, <3>2, DirHere, ScriptSteps DEF Progress
      <3>5. Height(p) = HeightAt(Dir(t), call[t], at[t], latest[t], target[t])
        BY <1>1, <3>1, HeightHere DEF HeightSeen
      <3> QED
        BY <3>1, <3>2, <3>3, <3>4, <3>5 DEF HeightAt, UndoingAt, PublishingAt, Dir
    <2>2. Height(p) = disk[p].cur
      BY <2>1, HeightFree
    <2>3. \A t \in Threads : ~Decides(t, p)'
      BY <1>1 DEF Decides, Handling
    <2>4. Height(p)' = disk[p].cur
      BY <1>1, <2>3, HeightFree
    <2> QED
      BY <1>1, <2>2, <2>4, SeenIs
  <1>5. \A t \in Threads : TodoOf(t)' = NoCall /\ DoneOf(t)' = Repo!Unanswered
    BY <1>1 DEF TodoOf, DoneOf, NoResponse, Repo!Unanswered
  <1> QED
    BY <1>4, <1>5 DEF Repo!Die

LEMMA StartActs ==
    ASSUME StorageInv, Start
    PROVE  UNCHANGED Repo!repoVars
  <1>1. /\ life # "up" /\ life' = "up" /\ UNCHANGED disk
        /\ pc' = [t \in Threads |-> "idle"] /\ answer' = [t \in Threads |-> NoResponse]
    BY DEF Start, Restart
  <1>2. ASSUME NEW p \in Projects
        PROVE  RepoOf(p)' = RepoOf(p)
    <2>1. \A t \in Threads : ~Decides(t, p) /\ ~Decides(t, p)'
      BY <1>1 DEF Decides, Handling, Undoing, Publishing, Inside
    <2>2. Height(p) = disk[p].cur /\ Height(p)' = disk[p].cur
      BY <1>1, <2>1, HeightFree
    <2> QED
      BY <1>1, <2>2, SeenIs
  <1>3. \A t \in Threads : TodoOf(t)' = TodoOf(t) /\ DoneOf(t)' = DoneOf(t)
    BY <1>1 DEF TodoOf, DoneOf, Undoing, Inside
  <1> QED
    BY <1>2, <1>3 DEF Repo!repoVars

LEMMA StepActs ==
    ASSUME Promised, TypeOK, StorageInv, ProjectExclusion, RepoInv,
           StorageInv', ProjectExclusion', RepoInv', [ServerNext]_serverVars
    PROVE  [Repo!RepoNext]_Repo!repoVars
  <1>1. CASE UNCHANGED serverVars
    <2>1. /\ \A p \in Projects : RepoOf(p)' = RepoOf(p)
          /\ \A t \in Threads : TodoOf(t)' = TodoOf(t) /\ DoneOf(t)' = DoneOf(t)
      BY <1>1 DEF serverVars, lockVars, RepoOf, Height, TodoOf, DoneOf, Handling, Undoing,
                  Publishing, Inside, Dir
    <2> QED
      BY <2>1 DEF Repo!repoVars
  <1>2. ASSUME NEW t \in Threads, NEW c \in Calls, Arrive(t, c)
        PROVE  Repo!RepoNext
    BY <1>2, ArriveActs DEF Repo!RepoNext
  <1>3. ASSUME NEW t \in Threads, ThreadStep(t)
        PROVE  Repo!RepoNext \/ UNCHANGED Repo!repoVars
    <2>1. CASE FindLock(t) \/ CallLock(t) \/ Enter(t)
      BY <2>1, LockActs
    <2>2. CASE Leave(t)
      BY <2>2, LeaveActs DEF Repo!RepoNext
    <2>3. CASE Handler(t)
      <3>1. life = "up"
        BY <2>3 DEF Handler, Exists, ReadVersion, Read, History, Currentversion, Checkout, Update, Upgrade, Commit,
                    SendFiles, Decline, Destroy, Create, Push, Rollback,
                    NoArchive, CallFails, Inner
      <3>2. life' = "up"
        BY <2>3, <3>1, HandlerSteps, VersionRead, ReadAnswers
           DEF Exists, Destroy, Create, Push, Rollback
      <3> QED
        BY <2>3, <3>1, <3>2, HandlerActs DEF Repo!RepoNext
    <2> QED
      BY <1>3, <2>1, <2>2, <2>3 DEF ThreadStep
  <1>4. CASE Kill
    BY <1>4, KillActs DEF Repo!RepoNext
  <1>5. CASE Start
    BY <1>5, StartActs
  <1> QED
    BY <1>1, <1>2, <1>3, <1>4, <1>5 DEF ServerNext

LEMMA InitActs ==
    ASSUME ServerInit
    PROVE  Repo!RepoInit
  <1>1. /\ \A t \in Threads : pc[t] = "idle" /\ answer[t] = NoResponse
        /\ \A p \in Projects : disk[p] \in {Absent, Created}
        /\ life = "up"
    BY DEF ServerInit, LockInit
  <1>2. Absent.cur = NoFile
    BY DEF Absent
  <1>3. Created.cur = 0
    BY FirstDirs
  <1>4. ASSUME NEW p \in Projects
        PROVE  RepoOf(p) \in {Repo!NoProject, Repo!Project(<< >>)}
    <2>1. \A t \in Threads : ~Decides(t, p)
      BY <1>1 DEF Decides, Undoing, Publishing, Inside
    <2>2. RepoOf(p) = Shown(disk[p], disk[p].cur)
      BY <2>1, HeightFree, SeenIs
    <2>3. CASE disk[p] = Absent
      BY <1>2, <2>2, <2>3, ShownIs
    <2>4. CASE disk[p] = Created
      BY <1>3, <2>2, <2>4, ShownIs, ListedIs
    <2> QED
      BY <1>1, <2>3, <2>4
  <1>5. \A t \in Threads : TodoOf(t) = NoCall /\ DoneOf(t) = Repo!Unanswered
    BY <1>1 DEF TodoOf, DoneOf, Undoing, Inside, NoResponse, Repo!Unanswered
  <1> QED
    BY <1>4, <1>5 DEF Repo!RepoInit

\* Every operation acts at one instant on the sequence of a project's versions and
\* is answered accordingly: create and push when they write Currentversion, rollback
\* when it deletes the first version, destroy when it removes the directory, the
\* others when they read; a server that dies takes nothing else with it
\* (logic.c:41-71, 96-105, 139-577).
THEOREM Implements ==
    ASSUME Promised
    PROVE  ServerSpec => ImplementsRepository
  <1>1. ServerInit => Repo!RepoInit
    BY InitActs
  <1>2. Stated
    BY DEF Promised
  <1>3. /\ TypeOK /\ StorageInv /\ ProjectExclusion /\ RepoInv
        /\ StorageInv' /\ ProjectExclusion' /\ RepoInv' /\ [ServerNext]_serverVars
        => [Repo!RepoNext]_Repo!repoVars
    BY StepActs
  <1> QED
    BY <1>1, <1>2, <1>3, ServerUsesLocks, TypeCorrect, ServerExclusion, StorageInvariance,
       RepoInvariance, PTL
       DEF ServerSpec, ImplementsRepository, Repo!RepoSpec
=============================================================================
