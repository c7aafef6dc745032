------------------------- MODULE ProjectLocksProofs -------------------------
(***************************************************************************)
(* What TLAPS proves of ProjectLocks, for any set of threads, projects and *)
(* key tails, any table size and any bounds: the locks keep their types,   *)
(* no lock serves two projects, and the requests whose project was in the  *)
(* table when they came exclude one another as readers and writers.        *)
(***************************************************************************)
EXTENDS ProjectLocks, FiniteSetTheorems, TLAPS

----------------------------------------------------------------------------
(* The strengthening. *)

\* Entries have locks of their own, and an entry shares its lock only with
\* the requests for its project.
TableOwned ==
    /\ \A j, k \in DOMAIN table : table[j] = table[k] => j = k
    /\ \A t \in Threads, k \in DOMAIN table :
           Locked(t) /\ table[k] = lock[t] => k[1] = req[t].proj

LocksKnown == \A t \in Threads : Locked(t) => lock[t] \in Locks

\* A settled request finds, and then holds, the lock under its project's name.
SettledFinds ==
    \A t \in Threads : settled[t] /\ pc[t] # "idle" =>
        /\ Exact(req[t].proj) \in DOMAIN table
        /\ Locked(t) => lock[t] = table[Exact(req[t].proj)]

\* Each readers/writer lock does its work.
RWLocks ==
    \A t, u \in Threads :
        t # u /\ Inside(t) /\ Inside(u) /\ lock[t] = lock[u]
        => req[t].mode = "rd" /\ req[u].mode = "rd"

Inv == TypeOK /\ TableOwned /\ LocksNotShared /\ LocksKnown /\ SettledFinds /\ RWLocks

----------------------------------------------------------------------------
(* Facts about the operators. *)

\* The project a key belongs to can be read off the key.
LEMMA KeyFacts ==
    ASSUME NEW p, NEW tail
    PROVE  /\ Key(p, tail)[1] = p
           /\ Exact(p)[1] = p
           /\ p \in Projects => Exact(p) \in Keys
           /\ p \in Projects /\ tail \in Tails \cup {NoTail} => Key(p, tail) \in Keys
  BY DEF Key, Exact, Keys

\* A request names a project, and its tail is one of a key.
LEMMA RequestFacts ==
    ASSUME NEW r \in Requests
    PROVE  r.proj \in Projects /\ r.tail \in Tails \cup {NoTail} /\ r.mode \in {"rd", "wr"}
  BY DEF Requests

\* hsearch(ENTER) leaves the entries it finds and adds at most the given one
\* (ds.c:45-47).
LEMMA EnteredFacts ==
    ASSUME NEW key, NEW new
    PROVE  /\ DOMAIN table \subseteq DOMAIN Entered(key, new)
           /\ DOMAIN Entered(key, new) \subseteq DOMAIN table \cup {key}
           /\ \A k \in DOMAIN table : Entered(key, new)[k] = table[k]
           /\ \A k \in DOMAIN Entered(key, new) \ DOMAIN table :
                  k = key /\ Entered(key, new)[k] = new
  BY DEF Entered

LEMMA WarmFinite == Cardinality(Warm) \in Nat
  BY WarmAssumption, FiniteAssumption, FS_Subset, FS_CardinalityType

----------------------------------------------------------------------------
(* Initiation and the steps. *)

LEMMA InitInv == Init => Inv
  <1> SUFFICES ASSUME NEW r \in Requests, LockInit(r, 1) PROVE Inv
    BY DEF Init
  <1> USE DEF LockInit
  <1>1. TypeOK
    <2>1. DOMAIN table \subseteq Keys
      <3>1. {Exact(p) : p \in Warm} \subseteq Keys
        BY WarmAssumption DEF Exact, Key, Keys
      <3>2. DOMAIN table = {Exact(p) : p \in Warm}
        BY DEF WarmTables
      <3> QED
        BY <3>1, <3>2
    <2>2. \A k \in DOMAIN table : table[k] \in Locks
      BY DEF WarmTables, Locks
    <2> QED
      BY <2>1, <2>2, WarmFinite, BoundAssumption DEF TypeOK, Stages
  <1>2. TableOwned
    BY DEF TableOwned, WarmTables, Locked
  <1>3. LocksNotShared /\ LocksKnown /\ SettledFinds /\ RWLocks
    BY DEF LocksNotShared, LocksKnown, SettledFinds, RWLocks, Locked, Inside
  <1> QED
    BY <1>1, <1>2, <1>3 DEF Inv

LEMMA ReceiveInv ==
    ASSUME Inv, NEW t \in Threads, NEW r \in Requests, Receive(t, r)
    PROVE  Inv'
  <1> USE DEF Receive, Inv
  <1>1. TypeOK'
    BY DEF TypeOK, Stages, Locks
  <1>2. TableOwned'
    BY DEF TypeOK, TableOwned, Locked
  <1>3. LocksNotShared' /\ LocksKnown'
    BY DEF TypeOK, LocksNotShared, LocksKnown, Locked, Locks
  <1>4. SettledFinds'
    BY DEF TypeOK, SettledFinds, Locked
  <1>5. RWLocks'
    BY DEF TypeOK, RWLocks, Inside
  <1> QED
    BY <1>1, <1>2, <1>3, <1>4, <1>5

LEMMA LookupInv ==
    ASSUME Inv, NEW t \in Threads, Lookup(t)
    PROVE  Inv'
  <1> DEFINE r == req[t]
             key == Key(r.proj, r.tail)
             new == NewLock
  <1>0. /\ r \in Requests /\ r.proj \in Projects /\ Exact(r.proj) \in Keys /\ key \in Keys
        /\ key[1] = r.proj /\ Exact(r.proj)[1] = r.proj
    BY RequestFacts, KeyFacts DEF Inv, TypeOK
  <1>1. CASE Exact(r.proj) \in DOMAIN table
    <2>1. /\ lock' = [lock EXCEPT ![t] = table[Exact(r.proj)]]
          /\ pc' = [pc EXCEPT ![t] = "got"]
          /\ UNCHANGED <<table, nlocks, req, settled, restarts>>
      BY <1>1 DEF Lookup
    <2>2. TypeOK'
      BY <1>1, <2>1 DEF Inv, TypeOK, Stages, Locks
    <2>3. TableOwned'
      BY <1>0, <1>1, <2>1 DEF Inv, TypeOK, TableOwned, Locked
    <2>4. LocksNotShared'
      BY <1>0, <1>1, <2>1 DEF Inv, TypeOK, TableOwned, LocksNotShared, Locked
    <2>5. LocksKnown' /\ SettledFinds'
      BY <1>1, <2>1 DEF Inv, TypeOK, LocksKnown, SettledFinds, Locked, Locks
    <2>6. RWLocks'
      BY <2>1 DEF Inv, TypeOK, RWLocks, Inside
    <2> QED
      BY <2>2, <2>3, <2>4, <2>5, <2>6 DEF Inv
  <1>2. CASE Exact(r.proj) \notin DOMAIN table
    <2>1. /\ table' = Entered(key, new)
          /\ nlocks' = new
          /\ lock' = [lock EXCEPT ![t] = new]
          /\ pc' = [pc EXCEPT ![t] = "got"]
          /\ pc[t] = "lookup"
          /\ UNCHANGED <<req, settled, restarts>>
      BY <1>2 DEF Lookup
    <2>2. /\ DOMAIN table \subseteq DOMAIN table'
          /\ DOMAIN table' \subseteq DOMAIN table \cup {key}
          /\ \A k \in DOMAIN table : table'[k] = table[k]
          /\ \A k \in DOMAIN table' \ DOMAIN table : k = key /\ table'[k] = new
      BY <2>1, EnteredFacts
    <2>3. new \in Nat /\ Locks' = Locks \cup {new} /\ new \notin Locks
      BY <2>1 DEF Inv, TypeOK, Locks, NewLock
    <2>4. TypeOK'
      BY <1>0, <2>1, <2>2, <2>3 DEF Inv, TypeOK, Stages
    <2>5. TableOwned'
      <3>1. \A j, k \in DOMAIN table' : table'[j] = table'[k] => j = k
        BY <2>2, <2>3 DEF Inv, TypeOK, TableOwned
      <3>2. \A u \in Threads, k \in DOMAIN table' :
                Locked(u)' /\ table'[k] = lock'[u] => k[1] = req'[u].proj
        <4> TAKE u \in Threads, k \in DOMAIN table'
        <4> HAVE Locked(u)' /\ table'[k] = lock'[u]
        <4>1. CASE u = t
          BY <4>1, <1>0, <2>1, <2>2, <2>3 DEF Inv, TypeOK
        <4>2. CASE u # t
          BY <4>2, <2>1, <2>2, <2>3 DEF Inv, TypeOK, TableOwned, LocksKnown, Locked
        <4> QED
          BY <4>1, <4>2
      <3> QED
        BY <3>1, <3>2 DEF TableOwned
    <2>6. LocksNotShared' /\ LocksKnown'
      BY <2>1, <2>3 DEF Inv, TypeOK, LocksNotShared, LocksKnown, Locked
    <2>7. SettledFinds'
      BY <1>2, <2>1, <2>2 DEF Inv, TypeOK, SettledFinds, Locked
    <2>8. RWLocks'
      BY <2>1 DEF Inv, TypeOK, RWLocks, Inside
    <2> QED
      BY <2>4, <2>5, <2>6, <2>7, <2>8 DEF Inv
  <1> QED
    BY <1>1, <1>2

LEMMA RequestInv ==
    ASSUME Inv, NEW t \in Threads, Request(t)
    PROVE  Inv'
  <1> USE DEF Request, Inv
  <1>1. TypeOK' /\ TableOwned'
    BY DEF TypeOK, TableOwned, Stages, Locked, Locks
  <1>2. LocksNotShared' /\ LocksKnown' /\ SettledFinds'
    BY DEF TypeOK, LocksNotShared, LocksKnown, SettledFinds, Locked, Locks
  <1>3. RWLocks'
    BY DEF TypeOK, RWLocks, Inside
  <1> QED
    BY <1>1, <1>2, <1>3

LEMMA AcquireInv ==
    ASSUME Inv, NEW t \in Threads, Acquire(t)
    PROVE  Inv'
  <1> USE DEF Acquire, Inv
  <1>1. TypeOK' /\ TableOwned'
    BY DEF TypeOK, TableOwned, Stages, Locked, Locks
  <1>2. LocksNotShared' /\ LocksKnown' /\ SettledFinds'
    BY DEF TypeOK, LocksNotShared, LocksKnown, SettledFinds, Locked, Locks
  <1>3. RWLocks'
    <2> SUFFICES ASSUME NEW u \in Threads, u # t, Inside(u), lock[u] = lock[t]
                 PROVE  req[t].mode = "rd" /\ req[u].mode = "rd"
      BY DEF TypeOK, RWLocks, Inside
    <2>1. req[t].mode \in {"rd", "wr"} /\ req[u].mode \in {"rd", "wr"}
      BY RequestFacts DEF TypeOK
    <2>2. u \in Holders(lock[t], req[u].mode)
      BY DEF Holders, Inside
    <2> QED
      BY <2>1, <2>2 DEF CanRead, CanWrite
  <1> QED
    BY <1>1, <1>2, <1>3

LEMMA ReleaseInv ==
    ASSUME Inv, NEW t \in Threads, Release(t)
    PROVE  Inv'
  <1> USE DEF Release, Inv
  <1>1. TypeOK' /\ TableOwned'
    BY DEF TypeOK, TableOwned, Stages, Locked, Locks
  <1>2. LocksNotShared' /\ LocksKnown' /\ SettledFinds'
    BY DEF TypeOK, LocksNotShared, LocksKnown, SettledFinds, Locked, Locks
  <1>3. RWLocks'
    BY DEF TypeOK, RWLocks, Inside
  <1> QED
    BY <1>1, <1>2, <1>3

LEMMA RestartInv ==
    ASSUME Inv, Restart
    PROVE  Inv'
  <1> USE DEF Restart, Inv
  <1>1. TypeOK'
    BY BoundAssumption DEF TypeOK, Stages, Locks
  <1>2. TableOwned' /\ LocksNotShared' /\ LocksKnown' /\ SettledFinds' /\ RWLocks'
    BY DEF TableOwned, LocksNotShared, LocksKnown, SettledFinds, RWLocks, Locked, Inside
  <1> QED
    BY <1>1, <1>2

LEMMA StepInv == Inv /\ [Next]_lockVars => Inv'
  <1> SUFFICES ASSUME Inv, [Next]_lockVars PROVE Inv'
    OBVIOUS
  <1>1. CASE UNCHANGED lockVars
    BY <1>1 DEF lockVars, Inv, TypeOK, TableOwned, LocksNotShared, LocksKnown,
                SettledFinds, RWLocks, Locked, Inside, Locks
  <1>2. ASSUME NEW t \in Threads, NEW r \in Requests, Receive(t, r) PROVE Inv'
    BY <1>2, ReceiveInv
  <1>3. ASSUME NEW t \in Threads, LockStep(t) PROVE Inv'
    BY <1>3, LookupInv, RequestInv, AcquireInv, ReleaseInv DEF LockStep
  <1>4. CASE Restart
    BY <1>4, RestartInv
  <1> QED
    BY <1>1, <1>2, <1>3, <1>4 DEF Next

\* Two settled requests for one project have the same lock, the one under the
\* project's name, and a lock lets writers in alone.
LEMMA InvExcludes == Inv => SettledExclusion
  BY DEF Inv, SettledFinds, RWLocks, SettledExclusion, Inside, Locked

----------------------------------------------------------------------------
\* The invariant holds of every behaviour.
THEOREM Invariance == Spec => []Inv
  <1>1. Init => Inv
    BY InitInv
  <1>2. Inv /\ [Next]_lockVars => Inv'
    BY StepInv
  <1> QED
    BY <1>1, <1>2, PTL DEF Spec

\* The locks' state keeps its type (server/ds.c, logic.c:581-704).
THEOREM TypeCorrect == Spec => []TypeOK
  <1>1. Inv => TypeOK
    BY DEF Inv
  <1> QED
    BY <1>1, Invariance, PTL

\* Requests that came when their project was in the table exclude one another
\* as readers and writers, however many restarts, projects and pushes there
\* are (server/ds.c:28-56, logic.c:587-703).
THEOREM SettledRequestsExclude == Spec => []SettledExclusion
  BY InvExcludes, Invariance, PTL

\* No lock is shared by requests for two projects (server/ds.c:41-49).
THEOREM NoLockShared == Spec => []LocksNotShared
  <1>1. Inv => LocksNotShared
    BY DEF Inv
  <1> QED
    BY <1>1, Invariance, PTL
=============================================================================
