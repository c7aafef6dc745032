------------------------ MODULE WTFServerRefinement ------------------------
(***************************************************************************)
(* The server implements Repository: a project's versions are read off its *)
(* directory, and each operation acts when the step that makes it visible  *)
(* is taken - the write of Currentversion for create and push, the first   *)
(* deletion for rollback, "rm -rf" for destroy, the read for the others.   *)
(***************************************************************************)
EXTENDS WTFServer

CONSTANT NoCall

\* A rollback that has deleted a version: it can only go forward.
Undoing(t) ==
    /\ call[t].op = "rollback" /\ Inside(t)
    /\ \/ at[t] \in {"untar", "truncate", "currentversion"}
       \/ at[t] = "delete" /\ latest[t] < Dir(t).cur

\* A push that has truncated Currentversion and not written it.
Publishing(t) == call[t].op = "push" /\ Inside(t) /\ at[t] = "currentversion"

Handling(t, p) == life = "up" /\ call[t].proj = p

\* The number of the latest version clients can see.
Height(p) ==
    IF \E t \in Threads : Handling(t, p) /\ Undoing(t)
    THEN target[CHOOSE t \in Threads : Handling(t, p) /\ Undoing(t)]
    ELSE IF \E t \in Threads : Handling(t, p) /\ Publishing(t)
    THEN latest[CHOOSE t \in Threads : Handling(t, p) /\ Publishing(t)]
    ELSE disk[p].cur

RepoOf(p) ==
    IF Height(p) \in {NoFile, Truncated} THEN <<FALSE, << >>>>
    ELSE <<TRUE, [v \in 1..Height(p) |-> FileOf(disk[p], v, "tar")]>>

TodoOf(t) == IF life = "up" /\ pc[t] # "idle" THEN call[t] ELSE NoCall

DoneOf(t) ==
    IF life # "up" THEN NoResponse
    ELSE IF Undoing(t) THEN Response(400, << >>)
    ELSE answer[t]

Repo == INSTANCE Repository WITH
            Clients <- Threads,
            repo <- [p \in Projects |-> RepoOf(p)],
            todo <- [t \in Threads |-> TodoOf(t)],
            done <- [t \in Threads |-> DoneOf(t)]

\* Every operation acts at one instant on the sequence of a project's versions
\* and is answered accordingly; a process that dies loses no version that was
\* pushed and shows none by half (logic.c:139-577).
ImplementsRepository == Repo!RepoSpec
=============================================================================
