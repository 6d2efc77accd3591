------------------------ MODULE DeploymentProperties ------------------------
(* What is claimed of the programs together (Deployment).                    *)
EXTENDS Deployment

\* Types and bounds of the state of the three programs (Server.hpp:104-111,
\* test_user.cpp:67-68).
TypeOK ==
  /\ running \in BOOLEAN /\ loops_left \in BOOLEAN
  /\ node_server \in {"accepting", "returned"}
  /\ user_server \in {"accepting", "serving", "returned"}
  /\ session \in User \cup {NoUser}
  /\ stage \in {"first", "nodes", "serving", "waiting"}
  /\ pending \in 0 .. MaxSent
  /\ node_pc \in [Node -> {"off", "config", "processing", "ended", "killed"}]
  /\ node_conn \in [Node -> {"none", "backlog", "listed", "configuring", "refused",
                             "ready", "dropped", "closed"}]
  /\ user_pc \in [User -> {"off", "response", "testing", "ended", "killed"}]
  /\ user_conn \in [User -> {"none", "backlog", "session", "closed"}]
  /\ socket \in [User -> BOOLEAN] /\ sending_done \in [User -> BOOLEAN]
  /\ DOMAIN work = User /\ \A u \in User : work[u] \in Workloads[u] \cup {NoWork}
  /\ tx \in [User -> {"timer", "sending", "done", "failed"}]
  /\ rx \in [User -> {"receiving", "done", "failed"}]
  /\ sent \in [User -> 0 .. MaxSent] /\ received \in [User -> 0 .. MaxSent]
  /\ to_server \in [User -> 0 .. Capacity] /\ to_user \in [User -> 0 .. MaxSent]

Processing == {n \in Node : node_conn[n] = "ready" /\ node_pc[n] = "processing"}

\* A configuration that the session takes from a user reaches the nodes with the
\* bitstream the user put in, and whatever the sizes, a node's result holds one
\* output for each input it was given: neither the sums of the constructors nor
\* the differences of the accessors wrap around on what the validators let
\* through (Message.hpp new_config, has_valid_payload_size, is_valid_config,
\* new_data; test_node.cpp config_received).  Of an input whose size wraps to less
\* than its id this is not true: is_valid_data lets it through, and get_data_size
\* wraps around.
SizesSurvive ==
  session # NoUser =>
    /\ stage # "first" =>
         RbfSize(Received(ConfigOf(session))) = work[session].rbf
    /\ Processing # {} /\ InputIsValid /\ InputOf(session).payload_size >= IdSize =>
         LET blocks == BlockCount(InputOf(session), work[session].in)
         IN  ResultOf(session).payload_size = IdSize + blocks * work[session].out

\* A test that ended with all it waited for leaves nothing behind: every input it
\* sent was taken and answered, and every result was read, although its two loops
\* share their counters (test_user.cpp sending_loop, receiving_loop).
NothingOutstanding ==
  \A u \in User : rx[u] = "done" =>
    /\ tx[u] = "done"
    /\ to_server[u] = 0 /\ to_user[u] = 0
    /\ session = u /\ user_server = "serving" => pending = 0

NobodyDies ==
  /\ \A n \in Node : node_pc[n] # "killed"
  /\ \A u \in User : user_pc[u] # "killed"

\* While nobody dies, a test that at least one node works for ends
\* (test_user.cpp co_main).
TestEnds ==
  []NobodyDies =>
    \A u \in User : user_pc[u] = "testing" /\ Processing # {} ~> user_pc[u] = "ended"

\* When one of the two loops of a test fails the test ends, whatever became of
\* the server and the nodes: the loop that failed closes the connection, and the
\* other one fails at its next use of it (test_user.cpp).
LoopsEndTogether ==
  \A u \in User :
    (tx[u] = "failed" \/ rx[u] = "failed") ~> user_pc[u] \in {"ended", "killed"}

\* Once the session has returned and no receiver loop is left, the server's
\* process ends, and with it every connection, of nodes and users that still
\* wait too: the other acceptor does not outlive it (Server::run).
ServerStops == user_server = "returned" /\ ~loops_left ~> ~running
------------------------------------------------------------------------------
(* The session as its user sees it implements JobService, as UserSession does. *)
(* The inputs of a user differ in nothing but their id: input i is the i-th.   *)

Taken    == IF InputIsValid THEN sent[session] - to_server[session] ELSE 0
Answered == received[session] + to_user[session]

sessionBar ==
  CASE user_server = "returned" -> "closed"
    [] user_server = "serving" /\ stage \in {"serving", "waiting"} -> "open"
    [] OTHER -> "opening"

statusBar ==
  [i \in 1 .. MaxSent |->
     CASE session = NoUser \/ i > Taken -> "new"
       [] session # NoUser /\ i <= Taken /\ i > Answered -> "accepted"
       [] OTHER -> "answered"]

Service ==
  INSTANCE JobService WITH Input <- 1 .. MaxSent, session <- sessionBar,
                           status <- statusBar

\* Whoever dies, whatever nodes refuse or lose, and however the sizes wrap, no
\* input is answered twice or before it was taken, and nothing is taken before the
\* configuration is answered or after the session ended (Server.hpp
\* _start_user_server, test_user.cpp, test_node.cpp).
ImplementsService == Service!Spec
=============================================================================
