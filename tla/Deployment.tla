----------------------------- MODULE Deployment -----------------------------
(* The programs of src/server together: the server with its two acceptors    *)
(* (Server.hpp), the users (test_user.cpp, of any sizes) and the nodes       *)
(* (test_node.cpp).  A session is what JobService promises of it: it takes   *)
(* inputs, hands them to nodes, and passes results on; UserSession is its    *)
(* inside.  The inputs of one user differ in nothing but their id, and so    *)
(* they are counted.                                                         *)
EXTENDS MessageCodec, FiniteSets

CONSTANTS
  Node, User,
  Workloads,    \* per user, what it may ask for: [blocks, in, out, rbf, count]
  NoUser, NoWork,
  Mortal,       \* the nodes and users that may be killed
  MaxSent,      \* bound: the ten seconds have passed after so many inputs
  Capacity      \* bound: inputs on their way to the server

ASSUME DeploymentAssumption ==
  /\ IsFiniteSet(Node) /\ IsFiniteSet(User) /\ NoUser \notin User
  /\ MaxSent \in Nat \ {0} /\ Capacity \in Nat \ {0}
  /\ \A u \in User : \A w \in Workloads[u] :
       /\ w.in \in Nat \ {0} /\ w.out \in Nat \ {0}
       /\ w.blocks \in Nat /\ w.rbf \in Nat /\ w.count \in Nat

VARIABLES
  running,        \* ioc.run() has not returned
  node_server,    \* "accepting" or "returned"
  user_server,    \* "accepting", "serving" or "returned"
  session,        \* the user it serves, or NoUser
  stage,          \* of the session: "first", "nodes", "serving", "waiting"
  pending,        \* inputs the session accepted, and their results
  loops_left,     \* receiver loops run on a User that was destroyed
  node_pc,        \* per node: its program
  node_conn,      \* per node: where the server has its connection
  user_pc,        \* per user: its program
  user_conn,      \* per user: where the server has its connection
  socket,         \* per user: its own end is open
  work,           \* per user: its workload
  tx, rx,         \* per user: its two loops
  sending_done,   \* per user
  sent, received, \* per user: messages_sent, messages_received
  to_server,      \* per user: inputs on their way
  to_user         \* per user: results on their way

server  == <<running, node_server, user_server, session, stage, pending, loops_left>>
nodes   == <<node_pc, node_conn>>
loops   == <<tx, rx, sending_done, sent, received>>
wires   == <<to_server, to_user>>
users   == <<user_pc, user_conn, socket, work, loops, wires>>
vars    == <<server, nodes, users>>

------------------------------------------------------------------------------
(* The messages of a user.                                                   *)

ConfigOf(u) ==
  NewConfig(work[u].blocks, work[u].in, work[u].out, work[u].rbf)
InputOf(u)  == NewData(work[u].in, work[u].count)
OutputFor(input, config) ==
  NewData(config.output_size, BlockCount(input, config.input_size))
ResultOf(u) == OutputFor(Received(InputOf(u)), Received(ConfigOf(u)))

------------------------------------------------------------------------------
(* The user: co_main, sending_loop and receiving_loop of test_user.cpp.      *)

Closed(u) == user_conn[u] = "closed"

\* Connects to the backlog of the acceptor, open until the server's end, and
\* sends its configuration at once.
UserConnects(u) ==
  /\ running /\ user_pc[u] = "off"
  /\ user_conn' = [user_conn EXCEPT ![u] = "backlog"]
  /\ \E w \in Workloads[u] :
       LET sends == IsValidMessage(NewConfig(w.blocks, w.in, w.out, w.rbf))
       IN  /\ work' = [work EXCEPT ![u] = w]
           /\ user_pc' = [user_pc EXCEPT ![u] = IF sends THEN "response" ELSE "ended"]
           /\ socket' = [socket EXCEPT ![u] = sends]
  /\ UNCHANGED <<server, nodes, loops, wires>>

\* The process is killed.
UserDies(u) ==
  /\ u \in Mortal /\ user_pc[u] \in {"response", "testing"}
  /\ user_pc' = [user_pc EXCEPT ![u] = "killed"]
  /\ socket' = [socket EXCEPT ![u] = FALSE]
  /\ UNCHANGED <<server, nodes, user_conn, work, loops, wires>>

ResponseFails(u) ==
  /\ user_pc[u] = "response" /\ Closed(u)
  /\ user_pc' = [user_pc EXCEPT ![u] = "ended"]
  /\ socket' = [socket EXCEPT ![u] = FALSE]
  /\ UNCHANGED <<server, nodes, user_conn, work, loops, wires>>

\* The timer expires and a message is handed to send_message.
TimerExpires(u) ==
  /\ user_pc[u] = "testing" /\ tx[u] = "timer"
  /\ tx' = [tx EXCEPT ![u] = "sending"]
  /\ UNCHANGED <<server, nodes, user_pc, user_conn, socket, work, rx,
                 sending_done, sent, received, wires>>

\* A write to a connection that the server has closed may still succeed: the input
\* stays on its way for good.
CanSend(u) == socket[u] /\ IsValidMessage(InputOf(u))

\* (slip) The loop goes on when the time has passed.
SendCompletes_NoEnd(u) ==
  /\ user_pc[u] = "testing" /\ tx[u] = "sending" /\ CanSend(u)
  /\ to_server[u] < Capacity
  /\ to_server' = [to_server EXCEPT ![u] = @ + 1]
  /\ sent' = [sent EXCEPT ![u] = @ + 1]
  /\ sending_done' = [sending_done EXCEPT ![u] = sent[u] + 1 >= MaxSent]
  /\ tx' = [tx EXCEPT ![u] = "timer"]
  /\ UNCHANGED <<server, nodes, user_pc, user_conn, socket, work, rx, received,
                 to_user>>

SendCompletes(u) ==
  /\ user_pc[u] = "testing" /\ tx[u] = "sending" /\ CanSend(u)
  /\ to_server[u] < Capacity
  /\ to_server' = [to_server EXCEPT ![u] = @ + 1]
  /\ sent' = [sent EXCEPT ![u] = @ + 1]
  /\ \E elapsed \in IF sent[u] + 1 = MaxSent THEN {TRUE} ELSE BOOLEAN :
       /\ sending_done' = [sending_done EXCEPT ![u] = elapsed]
       /\ tx' = [tx EXCEPT ![u] = IF elapsed THEN "done" ELSE "timer"]
  /\ UNCHANGED <<server, nodes, user_pc, user_conn, socket, work, rx, received,
                 to_user>>

\* (slip) The connection is left open.
SendFails_Open(u) ==
  /\ user_pc[u] = "testing" /\ tx[u] = "sending"
  /\ ~CanSend(u) \/ Closed(u)
  /\ tx' = [tx EXCEPT ![u] = "failed"]
  /\ UNCHANGED <<server, nodes, user_pc, user_conn, socket, work, rx,
                 sending_done, sent, received, wires>>

SendFails(u) ==
  /\ user_pc[u] = "testing" /\ tx[u] = "sending"
  /\ ~CanSend(u) \/ Closed(u)
  /\ tx' = [tx EXCEPT ![u] = "failed"]
  /\ socket' = [socket EXCEPT ![u] = FALSE]
  /\ UNCHANGED <<server, nodes, user_pc, user_conn, work, rx, sending_done,
                 sent, received, wires>>

ResultIsValid(u) ==
  /\ IsValidData(Received(ResultOf(u)), work[u].out)
  /\ BlockCount(ResultOf(u), work[u].out) = work[u].count

\* (slip) The loop ends with the sending.
ReceivingEnds_Early(u, count) == sending_done[u] /\ count > 0

\* (slip) One more result is waited for.
ReceivingEnds_Late(u, count) == sending_done[u] /\ count > sent[u]

\* The test at the head of the loop, with the number of results so far.
ReceivingEnds(u, count) == sending_done[u] /\ count >= sent[u]

ReceiveResult(u) ==
  /\ user_pc[u] = "testing" /\ rx[u] = "receiving"
  /\ socket[u] /\ to_user[u] > 0 /\ ResultIsValid(u)
  /\ to_user' = [to_user EXCEPT ![u] = @ - 1]
  /\ received' = [received EXCEPT ![u] = @ + 1]
  /\ rx' = [rx EXCEPT ![u] =
              IF ReceivingEnds(u, received[u] + 1) THEN "done" ELSE @]
  /\ UNCHANGED <<server, nodes, user_pc, user_conn, socket, work, tx,
                 sending_done, sent, to_server>>

\* Its own end closed, the server's end closed, or a result that is refused.
ReceiveFails(u) ==
  /\ user_pc[u] = "testing" /\ rx[u] = "receiving"
  /\ \/ ~socket[u]
     \/ Closed(u)
     \/ to_user[u] > 0 /\ ~ResultIsValid(u)
  /\ rx' = [rx EXCEPT ![u] = "failed"]
  /\ socket' = [socket EXCEPT ![u] = FALSE]
  /\ UNCHANGED <<server, nodes, user_pc, user_conn, work, tx, sending_done,
                 sent, received, wires>>

\* Both loops have returned; co_main closes the connection.
UserEnds(u) ==
  /\ user_pc[u] = "testing"
  /\ tx[u] \in {"done", "failed"} /\ rx[u] \in {"done", "failed"}
  /\ user_pc' = [user_pc EXCEPT ![u] = "ended"]
  /\ socket' = [socket EXCEPT ![u] = FALSE]
  /\ UNCHANGED <<server, nodes, user_conn, work, loops, wires>>

------------------------------------------------------------------------------
(* The node: co_main of test_node.cpp.                                       *)

NodeConnects(n) ==
  /\ running /\ node_pc[n] = "off"
  /\ node_pc' = [node_pc EXCEPT ![n] = "config"]
  /\ node_conn' = [node_conn EXCEPT ![n] = "backlog"]
  /\ UNCHANGED <<server, users>>

NodeDies(n) ==
  /\ n \in Mortal /\ node_pc[n] \in {"config", "processing"}
  /\ node_pc' = [node_pc EXCEPT ![n] = "killed"]
  /\ UNCHANGED <<server, node_conn, users>>

\* A read meets the end of the connection: so do stats() || processing_loop().
NodeEnds(n) ==
  /\ node_pc[n] \in {"config", "processing"} /\ node_conn[n] = "closed"
  /\ node_pc' = [node_pc EXCEPT ![n] = "ended"]
  /\ UNCHANGED <<server, node_conn, users>>

------------------------------------------------------------------------------
(* The server's acceptors: Server::_start_node_server and _start_user_server.*)

Ready == {n \in Node : node_conn[n] = "ready"}

AcceptNode(n) ==
  /\ node_server = "accepting" /\ node_conn[n] = "backlog"
  /\ node_conn' = [node_conn EXCEPT ![n] = "listed"]
  /\ UNCHANGED <<server, node_pc, users>>

\* The nodes listed so far go to the session; the list starts anew.
AcceptUser(u) ==
  /\ user_server = "accepting" /\ user_conn[u] = "backlog"
  /\ user_server' = "serving"
  /\ session' = u
  /\ stage' = "first"
  /\ user_conn' = [user_conn EXCEPT ![u] = "session"]
  /\ node_conn' = [n \in Node |->
                    IF node_conn[n] = "listed" THEN "configuring" ELSE node_conn[n]]
  /\ UNCHANGED <<running, node_server, pending, loops_left, node_pc, user_pc,
                 socket, work, loops, wires>>

\* start() returns, and _start_user_server with it.  The User is destroyed, and
\* the connections of the nodes whose receiver loops do not run.
Returns ==
  /\ user_server' = "returned"
  /\ user_conn' = [user_conn EXCEPT ![session] = "closed"]
  /\ loops_left' \in BOOLEAN
  /\ loops_left' => \E n \in Node : node_conn[n] \in {"ready", "dropped"}
  /\ (\E n \in Ready : node_pc[n] = "processing") => loops_left'
  /\ node_conn' = [n \in Node |->
       IF \/ node_conn[n] \in {"configuring", "refused"}
          \/ node_conn[n] \in {"ready", "dropped"} /\ ~loops_left'
       THEN "closed" ELSE node_conn[n]]
  /\ UNCHANGED <<running, node_server, session, stage, pending, node_pc, user_pc,
                 socket, work, loops>>

\* (slip) The failed accept is taken for an error like any other.
AcceptorCancelled_Continues ==
  /\ user_server = "returned" /\ node_server = "accepting"
  /\ UNCHANGED vars

\* `||' cancels the other acceptor: its accept fails, and the next co_await of
\* its loop throws.
AcceptorCancelled ==
  /\ user_server = "returned" /\ node_server = "accepting"
  /\ node_server' = "returned"
  /\ UNCHANGED <<running, user_server, session, stage, pending, loops_left,
                 nodes, users>>

ConnectionsEnd ==
  /\ node_conn' = [n \in Node |->
                    IF node_conn[n] = "none" THEN "none" ELSE "closed"]
  /\ user_conn' = [u \in User |->
                    IF user_conn[u] = "none" THEN "none" ELSE "closed"]

\* Nothing is left to run; main() destroys the server.
ProcessEnds ==
  /\ running /\ node_server = "returned" /\ ~loops_left
  /\ running' = FALSE
  /\ ConnectionsEnd
  /\ UNCHANGED <<node_server, user_server, session, stage, pending, loops_left,
                 node_pc, user_pc, socket, work, loops, wires>>

\* The loops on a destroyed User end, or end the process.
LoopsEnd ==
  /\ running /\ loops_left
  /\ loops_left' = FALSE
  /\ \/ /\ running' = FALSE
        /\ ConnectionsEnd
     \/ /\ node_conn' = [n \in Node |-> IF node_conn[n] \in {"ready", "dropped"}
                                       THEN "closed" ELSE node_conn[n]]
        /\ UNCHANGED <<running, user_conn>>
  /\ UNCHANGED <<node_server, user_server, session, stage, pending, node_pc,
                 user_pc, socket, work, loops, wires>>

------------------------------------------------------------------------------
(* The session as the others see it.                                         *)

Serving(s) == user_server = "serving" /\ stage = s

FirstConfig ==
  /\ Serving("first")
  /\ IsValidMessage(ConfigOf(session))
  /\ IsValidConfig(Received(ConfigOf(session)))
  /\ stage' = "nodes"
  /\ UNCHANGED <<running, node_server, user_server, session, pending, loops_left,
                 nodes, users>>

FirstConfigFails ==
  /\ Serving("first") /\ ~socket[session]
  /\ Returns
  /\ UNCHANGED wires

\* _configure_node and the node's config_received.
ConfiguresNode(n) ==
  /\ Serving("nodes") /\ node_conn[n] = "configuring"
  /\ LET accepts == node_pc[n] = "config" /\ AcceptsConfig(Received(ConfigOf(session)))
     IN  /\ node_conn' = [node_conn EXCEPT ![n] = IF accepts THEN "ready" ELSE "refused"]
         /\ node_pc' = [node_pc EXCEPT ![n] = CASE accepts -> "processing"
                                               [] @ = "config" -> "ended"
                                               [] OTHER -> @]
  /\ UNCHANGED <<server, users>>

AllConfigured == \A n \in Node : node_conn[n] # "configuring"

\* The response says SUCCESS, however many nodes accepted.
ConfigAnswered ==
  /\ Serving("nodes") /\ AllConfigured
  /\ stage' = "serving"
  /\ user_pc' = [user_pc EXCEPT ![session] =
                 IF @ = "response" /\ IsValidConfigResp(Received(NewConfigResp))
                 THEN "testing" ELSE @]
  /\ UNCHANGED <<running, node_server, user_server, session, pending, loops_left,
                 nodes, user_conn, socket, work, loops, wires>>

ConfigResponseFails ==
  /\ Serving("nodes") /\ AllConfigured /\ ~socket[session]
  /\ Returns
  /\ UNCHANGED wires

InputIsValid == IsValidData(Received(InputOf(session)), work[session].in)

\* Without a ready node the main coroutine waits, and no node will come.
TakesInput ==
  /\ Serving("serving") /\ to_server[session] > 0 /\ InputIsValid
  /\ to_server' = [to_server EXCEPT ![session] = @ - 1]
  /\ pending' = pending + 1
  /\ stage' = IF Ready = {} THEN "waiting" ELSE "serving"
  /\ UNCHANGED <<running, node_server, user_server, session, loops_left, nodes,
                 user_pc, user_conn, socket, work, loops, to_user>>

RefusesInput ==
  /\ Serving("serving") /\ to_server[session] > 0 /\ ~InputIsValid
  /\ to_server' = [to_server EXCEPT ![session] = @ - 1]
  /\ Returns
  /\ UNCHANGED to_user

UserGone ==
  /\ Serving("serving") /\ ~socket[session]
  /\ Returns
  /\ UNCHANGED wires

\* (slip) The result is not counted off.
Answers_Uncounted ==
  /\ user_server = "serving" /\ pending > 0 /\ socket[session]
  /\ \E n \in Ready : node_pc[n] = "processing"
  /\ IsValidMessage(ResultOf(session))
  /\ IsValidData(Received(ResultOf(session)), work[session].out)
  /\ to_user' = [to_user EXCEPT ![session] = @ + 1]
  /\ UNCHANGED <<server, nodes, user_pc, user_conn, socket, work, loops, to_server>>

\* The node computes, the receiver loop passes the result on.
Answers ==
  /\ user_server = "serving" /\ pending > 0 /\ socket[session]
  /\ \E n \in Ready : node_pc[n] = "processing"
  /\ IsValidMessage(ResultOf(session))
  /\ IsValidData(Received(ResultOf(session)), work[session].out)
  /\ pending' = pending - 1
  /\ to_user' = [to_user EXCEPT ![session] = @ + 1]
  /\ UNCHANGED <<running, node_server, user_server, session, stage, loops_left,
                 nodes, user_pc, user_conn, socket, work, loops, to_server>>

\* An input was written to a node that is dead.
LosesInput ==
  /\ user_server = "serving" /\ pending > 0
  /\ \E n \in Ready : node_pc[n] = "killed"
  /\ pending' = pending - 1
  /\ UNCHANGED <<running, node_server, user_server, session, stage, loops_left,
                 nodes, users>>

\* The write failed: the node is not used again.
DropsNode(n) ==
  /\ user_server = "serving" /\ pending > 0
  /\ node_conn[n] = "ready" /\ node_pc[n] = "killed"
  /\ node_conn' = [node_conn EXCEPT ![n] = "dropped"]
  /\ UNCHANGED <<server, node_pc, users>>

------------------------------------------------------------------------------

Init ==
  /\ running = TRUE
  /\ node_server = "accepting" /\ user_server = "accepting"
  /\ session = NoUser /\ stage = "first" /\ pending = 0 /\ loops_left = FALSE
  /\ node_pc = [n \in Node |-> "off"] /\ node_conn = [n \in Node |-> "none"]
  /\ user_pc = [u \in User |-> "off"] /\ user_conn = [u \in User |-> "none"]
  /\ socket = [u \in User |-> FALSE]
  /\ work = [u \in User |-> NoWork]
  /\ tx = [u \in User |-> "timer"] /\ rx = [u \in User |-> "receiving"]
  /\ sending_done = [u \in User |-> FALSE]
  /\ sent = [u \in User |-> 0] /\ received = [u \in User |-> 0]
  /\ to_server = [u \in User |-> 0] /\ to_user = [u \in User |-> 0]

UserStep(u) ==
  \/ ResponseFails(u) \/ TimerExpires(u) \/ SendCompletes(u) \/ SendFails(u)
  \/ ReceiveResult(u) \/ ReceiveFails(u) \/ UserEnds(u)

Acceptors ==
  \/ \E n \in Node : AcceptNode(n)
  \/ \E u \in User : AcceptUser(u)

SessionStep ==
  \/ FirstConfig \/ FirstConfigFails
  \/ \E n \in Node : ConfiguresNode(n)
  \/ ConfigAnswered \/ ConfigResponseFails
  \/ TakesInput \/ RefusesInput \/ UserGone

ServerEnds == AcceptorCancelled \/ ProcessEnds

Next ==
  \/ \E u \in User : UserConnects(u) \/ UserDies(u) \/ UserStep(u)
  \/ \E n \in Node : NodeConnects(n) \/ NodeDies(n) \/ NodeEnds(n)
  \/ Acceptors \/ SessionStep \/ Answers \/ LosesInput
  \/ \E n \in Node : DropsNode(n)
  \/ ServerEnds \/ LoopsEnd

Spec == Init /\ [][Next]_vars

\* One thread per program runs whatever is ready.  Nothing is owed by those who
\* connect or die, nor by what runs on a destroyed User.
Fairness ==
  /\ \A u \in User :
       /\ WF_vars(ResponseFails(u)) /\ WF_vars(UserEnds(u))
       /\ WF_vars(TimerExpires(u) \/ SendCompletes(u) \/ SendFails(u))
       /\ WF_vars(ReceiveResult(u) \/ ReceiveFails(u))
  /\ \A n \in Node : WF_vars(NodeEnds(n))
  /\ WF_vars(Acceptors) /\ WF_vars(SessionStep) /\ WF_vars(Answers)
  /\ WF_vars(ServerEnds)

FairSpec == Spec /\ Fairness
=============================================================================
