----------------------------- MODULE Repository -----------------------------
(***************************************************************************)
(* What the WTF server promises its clients: every project is a sequence   *)
(* of pushed versions, and each of the ten operations acts on it at one    *)
(* instant between its request and its answer.  A process that dies takes  *)
(* the outstanding requests with it, done or not, and nothing else.        *)
(***************************************************************************)
EXTENDS Integers, Sequences

CONSTANTS
    Clients,    \* connections
    Projects,
    Calls,      \* requests: records [op, proj, arg, id]
    NoCall,
    NoId        \* the id of the content of a project nothing was pushed to

VARIABLES
    repo,     \* project -> NoProject or <<TRUE, sequence of contents>>
    todo,     \* connection -> its request or NoCall
    done      \* connection -> the answer to its request, once it acted

repoVars == <<repo, todo, done>>

NoProject == <<FALSE, << >>>>
Project(versions) == <<TRUE, versions>>

Unanswered == [code |-> -1, val |-> << >>]
Answer(code, val) == [code |-> code, val |-> val]

\* A content is the version its manifest states and the push it came with.
Content(v, id) == [ver |-> v, id |-> id]
Empty == Content(0, NoId)

Last(versions) == IF versions = << >> THEN Empty ELSE versions[Len(versions)]

\* The answer to call c by a project with these versions, and the versions
\* it leaves.
AnswerTo(c, s) ==
    LET n == Len(s)
    IN  CASE c.op = "history" ->
               IF n = 0 THEN Answer(101, << >>) ELSE Answer(100, s)
          [] c.op = "currentversion" ->
               IF n = 0 THEN Answer(201, << >>) ELSE Answer(200, <<Last(s)>>)
          [] c.op = "checkout" ->
               IF n = 0 THEN Answer(502, << >>) ELSE Answer(500, <<Last(s)>>)
          [] c.op = "update" -> Answer(600, <<Last(s)>>)
          [] c.op = "upgrade" ->
               IF c.arg = 0 THEN Answer(701, << >>)
               ELSE IF c.arg \in 1..n THEN Answer(700, <<s[c.arg], s[c.arg]>>)
               ELSE Answer(702, << >>)
          [] c.op = "commit" -> Answer(800, <<Last(s)>>)
          [] c.op = "destroy" -> Answer(300, << >>)
          [] c.op = "rollback" ->
               IF c.arg \in 1..n THEN Answer(400, << >>) ELSE Answer(401, << >>)
          [] c.op = "push" ->
               IF c.id = NoId THEN Answer(901, << >>)
               ELSE IF c.arg = n + 1 THEN Answer(900, << >>)
               ELSE Answer(902, << >>)
          [] c.op = "create" -> Answer(1, << >>)

VersionsAfter(c, s) ==
    CASE c.op = "rollback" /\ c.arg \in 1..Len(s) -> SubSeq(s, 1, c.arg)
      [] c.op = "push" /\ c.id # NoId /\ c.arg = Len(s) + 1 -> Append(s, Content(c.arg, c.id))
      [] OTHER -> s

RepoInit ==
    /\ repo \in [Projects -> {NoProject, Project(<< >>)}]
    /\ todo = [t \in Clients |-> NoCall]
    /\ done = [t \in Clients |-> Unanswered]

Call(t, c) ==
    /\ todo[t] = NoCall
    /\ todo' = [todo EXCEPT ![t] = c]
    /\ UNCHANGED <<repo, done>>

\* The instant an operation acts.
Act(t) ==
    LET c == todo[t]
        project == repo[c.proj]
    IN  /\ c # NoCall /\ done[t] = Unanswered
        /\ \/ /\ project = NoProject /\ c.op = "create"
              /\ repo' = [repo EXCEPT ![c.proj] = Project(<< >>)]
              /\ done' = [done EXCEPT ![t] = Answer(0, << >>)]
           \/ /\ project = NoProject /\ c.op # "create"
              /\ done' = [done EXCEPT ![t] = Answer(999, << >>)]
              /\ UNCHANGED repo
           \/ /\ project # NoProject
              /\ repo' = [repo EXCEPT ![c.proj] =
                    IF c.op = "destroy" THEN NoProject
                    ELSE Project(VersionsAfter(c, project[2]))]
              /\ done' = [done EXCEPT ![t] = AnswerTo(c, project[2])]
        /\ UNCHANGED todo

Return(t) ==
    /\ todo[t] # NoCall /\ done[t] # Unanswered
    /\ todo' = [todo EXCEPT ![t] = NoCall]
    /\ done' = [done EXCEPT ![t] = Unanswered]
    /\ UNCHANGED repo

Die ==
    /\ todo' = [t \in Clients |-> NoCall]
    /\ done' = [t \in Clients |-> Unanswered]
    /\ UNCHANGED repo

RepoNext ==
    \/ \E t \in Clients : (\E c \in Calls : Call(t, c)) \/ Act(t) \/ Return(t)
    \/ Die

RepoSpec == RepoInit /\ [][RepoNext]_repoVars
=============================================================================
