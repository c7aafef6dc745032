---------------------------- MODULE ProjectLocks ----------------------------
(***************************************************************************)
(* The readers/writer locks of the WTF server (Asst3).                     *)
(*                                                                         *)
(* Every connection is served by a thread of its own.  process_logic       *)
(* (server/logic.c) first asks get_rwlock_for_project (server/ds.c) for    *)
(* the lock of the project the request names, takes it for reading or for  *)
(* writing, runs the handler and releases it.  The locks live in a hash    *)
(* table that maps a key to a lock: it is filled on demand, never emptied, *)
(* and gone when the process ends.                                         *)
(*                                                                         *)
(* A lookup searches for the project's name.  On a miss the new lock is    *)
(* entered under a key made by strcpy(e.key, project_name) (ds.c:46) from  *)
(* the request itself, where the name is followed by the payload-type      *)
(* byte.  That byte is 0 in a request with one payload and ends the key;   *)
(* it is 1 in a push (two payloads), whose key runs on into the bytes of   *)
(* the size of the first payload: the tail of the key.                     *)
(***************************************************************************)
EXTENDS Naturals, FiniteSets, TLC

CONSTANTS
    Threads,      \* connections the server can hold at one time
    Projects,     \* project names
    Tails,        \* what follows the name in a push: 1 and the size's bytes
    NoTail,       \* a key that ends with the project's name
    Warm,         \* projects whose name is in the table at Init
    TableSize,    \* entries the table can hold (hcreate(10000))
    MaxLocks,     \* bound on the locks one process allocates
    MaxRestarts   \* bound on restarts of the server

ASSUME TailsAssumption == NoTail \notin Tails
ASSUME WarmAssumption == Warm \subseteq Projects
ASSUME FiniteAssumption == IsFiniteSet(Projects)
ASSUME BoundAssumption == TableSize \in Nat /\ MaxLocks \in Nat /\ MaxRestarts \in Nat

VARIABLES
    table,     \* the hash table: key -> lock
    nlocks,    \* locks allocated by this process: 1..nlocks
    pc,        \* where each thread is
    req,       \* the request it serves
    lock,      \* the lock get_rwlock_for_project returned to it
    settled,   \* the project's name was in the table when its request came
    restarts

lockVars == <<table, nlocks, pc, req, lock, settled, restarts>>

Key(p, tail) == <<p, tail>>
Exact(p) == Key(p, NoTail)
Keys == {Key(p, tail) : p \in Projects, tail \in Tails \cup {NoTail}}

\* Operations 1, 2, 5, 6, 7, 8 read and 0, 3, 4 write with one payload;
\* push, 9, writes with two.
Requests ==
    [proj : Projects, mode : {"rd", "wr"}, tail : {NoTail}] \cup
    [proj : Projects, mode : {"wr"}, tail : Tails]

Stages == {"idle", "lookup", "got", "wait", "crit"}

----------------------------------------------------------------------------
\* Earlier requests, now answered, had the warm projects' names entered.
WarmTables ==
    {f \in [{Exact(p) : p \in Warm} -> 1..Cardinality(Warm)] :
        \A j, k \in DOMAIN f : f[j] = f[k] => j = k}

LockInit(anyReq, anyLock) ==
    /\ table \in WarmTables
    /\ nlocks = Cardinality(Warm)
    /\ pc = [t \in Threads |-> "idle"]
    /\ req = [t \in Threads |-> anyReq]
    /\ lock = [t \in Threads |-> anyLock]
    /\ settled = [t \in Threads |-> FALSE]
    /\ restarts = 0

\* A connection is accepted and its request parsed (network.c, protocol.c).
\* The bound counts the locks that the requests under way may still need.
Receive(t, r) ==
    /\ pc[t] = "idle"
    /\ nlocks + Cardinality({u \in Threads : pc[u] = "lookup"}) < MaxLocks
    /\ pc' = [pc EXCEPT ![t] = "lookup"]
    /\ req' = [req EXCEPT ![t] = r]
    /\ settled' = [settled EXCEPT ![t] = Exact(r.proj) \in DOMAIN table]
    /\ UNCHANGED <<table, nlocks, lock, restarts>>

\* get_rwlock_for_project: all of it runs under hashmap_mtx.  hsearch(ENTER)
\* keeps an entry that has the key already and refuses one when the table is
\* full; its result is ignored and the new lock is returned either way.
Entered(key, new) ==
    IF key \in DOMAIN table \/ Cardinality(DOMAIN table) >= TableSize
    THEN table
    ELSE [k \in DOMAIN table \cup {key} |-> IF k = key THEN new ELSE table[k]]

\* malloc and pthread_rwlock_init of a lock no other request has.
LastLock == nlocks    \* variant: one lock for all misses
NewLock == nlocks + 1

Lookup(t) ==
    LET r == req[t]
        found == Exact(r.proj) \in DOMAIN table
        new == NewLock
    IN  /\ pc[t] = "lookup"
        /\ pc' = [pc EXCEPT ![t] = "got"]
        /\ \/ /\ found
              /\ lock' = [lock EXCEPT ![t] = table[Exact(r.proj)]]
              /\ UNCHANGED <<table, nlocks>>
           \/ /\ ~found
              /\ table' = Entered(Key(r.proj, r.tail), new)
              /\ nlocks' = new
              /\ lock' = [lock EXCEPT ![t] = new]
        /\ UNCHANGED <<req, settled, restarts>>

\* The lock is a PREFER_WRITER_NONRECURSIVE one: a reader also stays out
\* while a writer waits.
Holders(l, mode) == {t \in Threads : pc[t] = "crit" /\ lock[t] = l /\ req[t].mode = mode}
WaitingWriters(l) == {t \in Threads : pc[t] = "wait" /\ lock[t] = l /\ req[t].mode = "wr"}

CanWriteAmongReaders(l) == Holders(l, "wr") = {}    \* variant: readers ignored
CanReadPastWriters(l) == Holders(l, "wr") = {}      \* variant: the default lock kind

CanWrite(l) == Holders(l, "rd") = {} /\ Holders(l, "wr") = {}
CanRead(l) == Holders(l, "wr") = {} /\ WaitingWriters(l) = {}

\* pthread_rwlock_rdlock or _wrlock is called: from here a writer counts as
\* waiting.
Request(t) ==
    /\ pc[t] = "got"
    /\ pc' = [pc EXCEPT ![t] = "wait"]
    /\ UNCHANGED <<table, nlocks, req, lock, settled, restarts>>

Acquire(t) ==
    /\ pc[t] = "wait"
    /\ req[t].mode = "wr" => CanWrite(lock[t])
    /\ req[t].mode = "rd" => CanRead(lock[t])
    /\ pc' = [pc EXCEPT ![t] = "crit"]
    /\ UNCHANGED <<table, nlocks, req, lock, settled, restarts>>

\* The handler is done; pthread_rwlock_unlock, then the connection closes.
Release(t) ==
    /\ pc[t] = "crit"
    /\ pc' = [pc EXCEPT ![t] = "idle"]
    /\ UNCHANGED <<table, nlocks, req, lock, settled, restarts>>

\* The process ends (SIGINT, exit(0) or a crash) and is started again: the
\* table and every thread are gone.
Restart ==
    /\ restarts < MaxRestarts
    /\ restarts' = restarts + 1
    /\ table' = << >>
    /\ nlocks' = 0
    /\ pc' = [t \in Threads |-> "idle"]
    /\ settled' = [t \in Threads |-> FALSE]
    /\ UNCHANGED <<req, lock>>

----------------------------------------------------------------------------
LockStep(t) == Lookup(t) \/ Request(t) \/ Acquire(t) \/ Release(t)

Init == \E r \in Requests : LockInit(r, 1)

Next ==
    \/ \E t \in Threads : (\E r \in Requests : Receive(t, r)) \/ LockStep(t)
    \/ Restart

Spec == Init /\ [][Next]_lockVars

\* A running thread goes on and a free lock is taken by one of its waiters;
\* nothing says which waiter, nor that a client ever sends a request.
Fairness ==
    \A t \in Threads : WF_lockVars(Lookup(t)) /\ WF_lockVars(Request(t))
                       /\ WF_lockVars(Acquire(t)) /\ WF_lockVars(Release(t))

FairSpec == Spec /\ Fairness

----------------------------------------------------------------------------
Locks == 1..nlocks
Inside(t) == pc[t] = "crit"
Locked(t) == pc[t] \in {"got", "wait", "crit"}

TypeOK ==
    /\ DOMAIN table \subseteq Keys
    /\ nlocks \in Nat
    /\ \A k \in DOMAIN table : table[k] \in Locks
    /\ pc \in [Threads -> Stages]
    /\ req \in [Threads -> Requests]
    /\ lock \in [Threads -> Nat]
    /\ settled \in [Threads -> BOOLEAN]
    /\ restarts \in 0..MaxRestarts

\* Two requests for one project are never inside their handlers together if
\* one of them writes (the contract of ds.c:23-26 that every handler of
\* logic.c relies on).  See the README: a first request that is a push breaks
\* it.
ProjectExclusion ==
    \A t, u \in Threads :
        /\ t # u /\ Inside(t) /\ Inside(u)
        /\ req[t].proj = req[u].proj
        => req[t].mode = "rd" /\ req[u].mode = "rd"

\* The exclusion holds among the requests that came when their project's name
\* was already in the table (ds.c:37-55, logic.c:587-703).
SettledExclusion ==
    \A t, u \in Threads :
        /\ t # u /\ Inside(t) /\ Inside(u)
        /\ settled[t] /\ settled[u]
        /\ req[t].proj = req[u].proj
        => req[t].mode = "rd" /\ req[u].mode = "rd"

\* No request ever waits for, or keeps out, a request for another project:
\* each lock serves one project (ds.c:41-49 allocates a lock per miss).
LocksNotShared ==
    \A t, u \in Threads :
        /\ Locked(t) /\ Locked(u)
        /\ req[t].proj # req[u].proj
        => lock[t] # lock[u]
=============================================================================
