------------------------------- MODULE Exchange -------------------------------
(***************************************************************************)
(* What a connection to the WTF server promises: one request, then one     *)
(* reply.  A client asks; the server takes the request as it was sent and  *)
(* serves it once; the client gets the whole reply to its own request, or  *)
(* finds the connection dropped.  Nothing one client does touches the      *)
(* exchange of another.  Connections is shown to implement this.           *)
(***************************************************************************)
CONSTANT Conns

VARIABLE status   \* status[c]: how far the exchange of connection c has come

Statuses == {"idle", "asked", "served", "answered", "dropped"}

Init == status = [c \in Conns |-> "idle"]

Move(c, before, after) ==
    /\ status[c] = before
    /\ status' = [status EXCEPT ![c] = after]

Ask(c) == Move(c, "idle", "asked")
Serve(c) == Move(c, "asked", "served")
Answer(c) == Move(c, "served", "answered")
Drop(c) == Move(c, "asked", "dropped") \/ Move(c, "served", "dropped")

Next == \E c \in Conns : Ask(c) \/ Serve(c) \/ Answer(c) \/ Drop(c)

Spec == Init /\ [][Next]_status
===============================================================================
