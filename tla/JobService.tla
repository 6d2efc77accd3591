------------------------------ MODULE JobService ------------------------------
(***************************************************************************)
(* What a session promises its user, without nodes, queues or counters.    *)
(* While the session is open the user's inputs are accepted; an accepted   *)
(* input is answered at most once, and only then.  A new configuration     *)
(* closes the session, and first every accepted input is answered.  The    *)
(* loss of the user's connection, or an invalid message, closes it at once.*)
(***************************************************************************)
CONSTANT Input

VARIABLES
    session,    \* "opening", "open", "draining" or "closed"
    status      \* per input: "new", "accepted" or "answered"

svars == <<session, status>>

Accepted == {i \in Input : status[i] = "accepted"}

Init ==
    /\ session = "opening"
    /\ status = [i \in Input |-> "new"]

Open ==
    /\ session = "opening"
    /\ session' = "open"
    /\ UNCHANGED status

Accept(i) ==
    /\ session = "open"
    /\ status[i] = "new"
    /\ status' = [status EXCEPT ![i] = "accepted"]
    /\ UNCHANGED session

Answer(i) ==
    /\ session \in {"open", "draining"}
    /\ status[i] = "accepted"
    /\ status' = [status EXCEPT ![i] = "answered"]
    /\ UNCHANGED session

StartDraining ==
    /\ session = "open"
    /\ session' = "draining"
    /\ UNCHANGED status

CloseDrained ==
    /\ session = "draining"
    /\ Accepted = {}
    /\ session' = "closed"
    /\ UNCHANGED status

Abort ==
    /\ session \in {"opening", "open"}
    /\ session' = "closed"
    /\ UNCHANGED status

Next ==
    \/ Open
    \/ \E i \in Input : Accept(i) \/ Answer(i)
    \/ StartDraining
    \/ CloseDrained
    \/ Abort

Spec == Init /\ [][Next]_svars

(* A service whose workers do not fail answers, and then closes if asked.  *)
FairSpec ==
    /\ Spec
    /\ \A i \in Input : WF_svars(Answer(i))
    /\ WF_svars(CloseDrained)
=============================================================================
