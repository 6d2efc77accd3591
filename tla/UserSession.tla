----------------------------- MODULE UserSession -----------------------------
(***************************************************************************)
(* The session of one user: class User of src/server/User_Queue.hpp (and   *)
(* of User_Stack.hpp, the same code on a stack).                           *)
(*                                                                         *)
(* One thread runs every coroutine of the session, so a step of the model  *)
(* is what one coroutine does from one suspension point to the next.  The  *)
(* coroutines are                                                          *)
(*   - the main coroutine, start() and everything it awaits: `pc';         *)
(*   - for each node, first _configure_node and later _receiver_loop, which*)
(*     never run at the same time: `task[n]' and `received[n]';            *)
(*   - for each input, _send_input_to_node with the _dispatch_input that   *)
(*     starts it: `stage[i]' and `target[i]'.                              *)
(* The peers are the nodes (src/server/test_node.cpp) and the user.        *)
(*                                                                         *)
(* A configuration message is abstracted to its output_size, and every     *)
(* output is one block of the size the node was configured with.  Framing  *)
(* and partial reads and writes are below this module: a message arrives   *)
(* whole or its connection fails.                                          *)
(*                                                                         *)
(* A step with undefined behaviour (popping an empty container, using a    *)
(* destroyed object) sets `fault', and the model stops there.              *)
(***************************************************************************)
EXTENDS AsyncPrimitives, FiniteSets

CONSTANTS
    Node,               \* the nodes the server hands to the session
    Input,              \* the inputs the user may send, each at most once
    NoNode, NoInput,    \* no node, no input
    FirstOutputSize,    \* output_size of the first configuration: one of these
    NewOutputSize,      \* output_size of a later configuration; {}: none is sent
    FailingNodes,       \* the nodes that may refuse a configuration or go down
    UserMayLeave,       \* may the user close its connection or send garbage?
    Garbage             \* what the memory of a new Counter may hold

ASSUME NodeAssumption == IsFiniteSet(Node) /\ NoNode \notin Node
ASSUME InputAssumption == IsFiniteSet(Input) /\ NoInput \notin Input
ASSUME SizeAssumption ==
    FirstOutputSize \subseteq Nat \ {0} /\ NewOutputSize \subseteq Nat \ {0}
ASSUME FailingNodesAssumption == FailingNodes \subseteq Node
ASSUME UserMayLeaveAssumption == UserMayLeave \in BOOLEAN
ASSUME GarbageAssumption == Garbage \subseteq UInt

VARIABLES
    pc,                     \* where the main coroutine is suspended
    config,                 \* output_size of *_config, 0 before the first one
    nodes_queue,            \* _nodes_queue: the ready nodes, next one first
    waiting,                \* the inputs whose coroutine waits in async_pop
    woken,                  \* those whose wait was cancelled, not yet resumed
    config_counter,         \* config_counter of _configure_nodes
    data_counter,           \* _data_counter
    node_receiver_counter,  \* _node_receiver_counter
    task,                   \* per node: _configure_node, then _receiver_loop
    received,               \* per node: the input whose output its loop holds
    stage,                  \* per input: how far it got
    target,                 \* per input: the node it is being written to
    fault,                  \* the undefined behaviour met, if any
    node_up,                \* per node: is its process and connection alive?
    node_config,            \* per node: output_size it was configured with
    node_in,                \* per node: inputs it was sent and has not read
    node_out,               \* per node: outputs the server has not read
    user_up                 \* FALSE: the server's next read meets the end

mainVars == <<pc, config>>
poolVars == <<nodes_queue, waiting, woken>>
counterVars == <<config_counter, data_counter, node_receiver_counter>>
taskVars == <<task, received>>
inputVars == <<stage, target>>
nodeVars == <<node_up, node_config, node_in, node_out>>
vars == <<mainVars, poolVars, counterVars, taskVars, inputVars, fault,
          nodeVars, user_up>>

-----------------------------------------------------------------------------
PcState == {"first_config", "configuring", "config_resp", "loop", "dispatch",
            "drain", "join", "ended"}
TaskState == {"idle", "config_send", "config_wait", "failed", "configured",
              "recv", "got", "send", "cancelled", "exited"}
StageState == {"new", "main_pop", "retry_pop", "write", "sent", "answered"}
FaultState == {"none", "pop_empty", "dangling_counter", "dangling_user"}

Elements(s) == {s[k] : k \in 1 .. Len(s)}
Configuring == {n \in Node : task[n] \in {"config_send", "config_wait"}}
Receiving == {n \in Node : task[n] \in {"recv", "got", "send", "cancelled"}}
Writing == {i \in Input : stage[i] = "write"}
Pending == {i \in Input : stage[i] \notin {"new", "answered"}}

(* A coroutine other than the main one that uses the User or its nodes.    *)
LiveCoroutine == \/ Configuring # {}
                 \/ Receiving # {}
                 \/ \E i \in Input : stage[i] \in {"write", "retry_pop"}

Alive == fault = "none" /\ pc # "ended"

TypeOK ==
    /\ pc \in PcState
    /\ config \in Nat
    /\ nodes_queue \in Seq(Node)
    /\ waiting \in Seq(Input)
    /\ woken \in Seq(Input)
    /\ config_counter \in UInt
    /\ data_counter \in UInt
    /\ node_receiver_counter \in UInt
    /\ task \in [Node -> TaskState]
    /\ received \in [Node -> Input \cup {NoInput}]
    /\ stage \in [Input -> StageState]
    /\ target \in [Input -> Node \cup {NoNode}]
    /\ fault \in FaultState
    /\ node_up \in [Node -> BOOLEAN]
    /\ node_config \in [Node -> Nat]
    /\ node_in \in [Node -> Seq(Input)]
    /\ node_out \in [Node -> Seq(Input)]
    /\ user_up \in BOOLEAN

(* User::User; Counter's constructors leave _val as they find it. *)
Init ==
    /\ pc = "first_config"
    /\ config = 0
    /\ nodes_queue = <<>>
    /\ waiting = <<>>
    /\ woken = <<>>
    /\ config_counter = 0
    /\ data_counter \in Garbage
    /\ node_receiver_counter \in Garbage
    /\ task = [n \in Node |-> "idle"]
    /\ received = [n \in Node |-> NoInput]
    /\ stage = [i \in Input |-> "new"]
    /\ target = [i \in Input |-> NoNode]
    /\ fault = "none"
    /\ node_up = [n \in Node |-> TRUE]
    /\ node_config = [n \in Node |-> 0]
    /\ node_in = [n \in Node |-> <<>>]
    /\ node_out = [n \in Node |-> <<>>]
    /\ user_up = TRUE

-----------------------------------------------------------------------------
(* A step of the main coroutine that changes nothing else. *)
GoTo(next) ==
    /\ pc' = next
    /\ UNCHANGED <<config, poolVars, counterVars, taskVars, inputVars, fault,
                   nodeVars, user_up>>

(* Slip: push() does not cancel a waiter. *)
PushNode_NoNotify(n) ==
    nodes_queue' = Push(nodes_queue, n) /\ UNCHANGED <<waiting, woken>>

(* _nodes_queue.push(n): the oldest waiter, if any, is cancelled, which    *)
(* posts its resumption.  It does not hand the node over.                  *)
PushNode(n) ==
    /\ nodes_queue' = Push(nodes_queue, n)
    /\ IF waiting = <<>>
       THEN UNCHANGED <<waiting, woken>>
       ELSE /\ waiting' = Tail(waiting)
            /\ woken' = Append(woken, Head(waiting))

(* Slip: async_pop() does not return after its fast path. *)
Dispatch_NoReturn(i, popStage) ==
    /\ waiting' = Append(waiting, i)
    /\ IF nodes_queue # <<>>
       THEN /\ nodes_queue' = Pop(nodes_queue)
            /\ target' = [target EXCEPT ![i] = Head(nodes_queue)]
            /\ stage' = [stage EXCEPT ![i] = "write"]
       ELSE /\ target' = [target EXCEPT ![i] = NoNode]
            /\ stage' = [stage EXCEPT ![i] = popStage]
            /\ UNCHANGED nodes_queue
    /\ UNCHANGED woken

(* _dispatch_input(i) up to its first suspension: a ready node is taken at *)
(* once and the write to it is spawned, else the coroutine waits.          *)
Dispatch(i, popStage) ==
    /\ IF nodes_queue # <<>>
       THEN /\ nodes_queue' = Pop(nodes_queue)
            /\ target' = [target EXCEPT ![i] = Head(nodes_queue)]
            /\ stage' = [stage EXCEPT ![i] = "write"]
            /\ UNCHANGED waiting
       ELSE /\ waiting' = Append(waiting, i)
            /\ target' = [target EXCEPT ![i] = NoNode]
            /\ stage' = [stage EXCEPT ![i] = popStage]
            /\ UNCHANGED nodes_queue
    /\ UNCHANGED woken

(* is_valid_data(_config->output_size) of an output of node n. *)
ValidOutput(n) == node_config[n] % config = 0

-----------------------------------------------------------------------------
(* The main coroutine: start() and _configure_nodes(). *)

(* Slip: config_counter.incr() before the loop over the nodes, not in it. *)
ReceiveFirstConfig_OneIncr(c) ==
    /\ Alive
    /\ pc = "first_config"
    /\ user_up
    /\ config' = c
    /\ pc' = "configuring"
    /\ task' = [n \in Node |-> "config_send"]
    /\ \E garbage \in Garbage : config_counter' = Incr(garbage)
    /\ UNCHANGED <<poolVars, data_counter, node_receiver_counter, received,
                   inputVars, fault, nodeVars, user_up>>

(* The first configuration arrives; the nodes are pushed, and popped again *)
(* by _configure_nodes, which spawns _configure_node for each.             *)
ReceiveFirstConfig(c) ==
    /\ Alive
    /\ pc = "first_config"
    /\ user_up
    /\ config' = c
    /\ pc' = "configuring"
    /\ task' = [n \in Node |-> "config_send"]
    /\ \E garbage \in Garbage :
           config_counter' = IncrBy(garbage, Cardinality(Node))
    /\ UNCHANGED <<poolVars, data_counter, node_receiver_counter, received,
                   inputVars, fault, nodeVars, user_up>>

(* The read fails, or the message is no valid configuration. *)
FirstConfigFails ==
    /\ Alive
    /\ pc = "first_config"
    /\ UserMayLeave
    /\ GoTo("ended")

(* config_counter.async_wait_zero() returns; the response is being sent. *)
ConfigWaitZero ==
    /\ Alive
    /\ pc = "configuring"
    /\ config_counter = 0
    /\ GoTo("config_resp")

(* The response is sent, config_counter is destroyed, and _main_loop starts*)
(* a receiver loop for every node of the queue.                            *)
ConfigResponseSent ==
    /\ Alive
    /\ pc = "config_resp"
    /\ pc' = "loop"
    /\ task' = [n \in Node |-> IF n \in Elements(nodes_queue) THEN "recv"
                                                              ELSE task[n]]
    /\ node_receiver_counter' = IncrBy(node_receiver_counter, Len(nodes_queue))
    /\ nodes_queue' = Repushed(nodes_queue)
    /\ UNCHANGED <<config, waiting, woken, config_counter, data_counter,
                   received, inputVars, fault, nodeVars, user_up>>

ConfigResponseFails ==
    /\ Alive
    /\ pc = "config_resp"
    /\ ~user_up
    /\ GoTo("ended")

-----------------------------------------------------------------------------
(* The main coroutine: _main_loop(). *)

(* A valid input: counted, then dispatched; the loop reads no further      *)
(* message before the input has a node.                                    *)
ReceiveInput(i) ==
    /\ Alive
    /\ pc = "loop"
    /\ user_up
    /\ stage[i] = "new"
    /\ data_counter' = Incr(data_counter)
    /\ Dispatch(i, "main_pop")
    /\ pc' = IF nodes_queue # <<>> THEN "loop" ELSE "dispatch"
    /\ UNCHANGED <<config, config_counter, node_receiver_counter, taskVars,
                   fault, nodeVars, user_up>>

(* A new configuration replaces the one in use, and then the loop waits    *)
(* for the pending inputs.  The nodes are not told.                        *)
ReceiveConfig(c) ==
    /\ Alive
    /\ pc = "loop"
    /\ user_up
    /\ config' = c
    /\ pc' = "drain"
    /\ UNCHANGED <<poolVars, counterVars, taskVars, inputVars, fault, nodeVars,
                   user_up>>

(* Slip: the loops are stopped without waiting for the pending inputs. *)
Drained_NoWait ==
    /\ Alive
    /\ pc = "drain"
    /\ pc' = "join"
    /\ task' = [n \in Node |-> IF task[n] = "recv" THEN "cancelled" ELSE task[n]]
    /\ UNCHANGED <<config, poolVars, counterVars, received, inputVars, fault,
                   nodeVars, user_up>>

(* Slip: notify_one() in the place of notify_all(). *)
Drained_NotifyOne ==
    /\ Alive
    /\ pc = "drain"
    /\ data_counter = 0
    /\ pc' = "join"
    /\ \E n \in Node : task[n] = "recv" /\ task' = [task EXCEPT ![n] = "cancelled"]
    /\ UNCHANGED <<config, poolVars, counterVars, received, inputVars, fault,
                   nodeVars, user_up>>

(* _data_counter.async_wait_zero() returns: notify_all() cancels the event *)
(* wait of the loops that are in their wait, and of no other.              *)
Drained ==
    /\ Alive
    /\ pc = "drain"
    /\ data_counter = 0
    /\ pc' = "join"
    /\ task' = [n \in Node |-> IF task[n] = "recv" THEN "cancelled" ELSE task[n]]
    /\ UNCHANGED <<config, poolVars, counterVars, received, inputVars, fault,
                   nodeVars, user_up>>

(* Slip: _main_loop does not wait for the receiver loops it stopped. *)
Joined_NoWait ==
    /\ Alive
    /\ pc = "join"
    /\ GoTo("ended")

(* _node_receiver_counter.async_wait_zero() returns; start() calls         *)
(* _main_loop once, so the session ends.                                   *)
Joined ==
    /\ Alive
    /\ pc = "join"
    /\ node_receiver_counter = 0
    /\ GoTo("ended")

(* The read meets the end of the connection, or something receive_message  *)
(* refuses: _main_loop and start() return at once.                         *)
ReceiveFails ==
    /\ Alive
    /\ pc = "loop"
    /\ ~user_up \/ UserMayLeave
    /\ GoTo("ended")

(* A message that is neither input nor configuration ends the session of   *)
(* User_Queue.hpp; User_Stack.hpp reads on (no change of state).           *)
ReceiveInvalid ==
    /\ Alive
    /\ pc = "loop"
    /\ user_up
    /\ UserMayLeave
    /\ ~Lifo
    /\ GoTo("ended")

-----------------------------------------------------------------------------
(* The coroutines that bring inputs to nodes. *)

(* A woken async_pop resumes and pops, without looking whether the         *)
(* container still has an item.                                            *)
PopResumes ==
    /\ Alive
    /\ woken # <<>>
    /\ IF nodes_queue = <<>>
       THEN /\ fault' = "pop_empty"
            /\ UNCHANGED <<pc, nodes_queue, woken, inputVars>>
       ELSE /\ woken' = Tail(woken)
            /\ nodes_queue' = Pop(nodes_queue)
            /\ target' = [target EXCEPT ![Head(woken)] = Head(nodes_queue)]
            /\ stage' = [stage EXCEPT ![Head(woken)] = "write"]
            /\ pc' = IF stage[Head(woken)] = "main_pop" THEN "loop" ELSE pc
            /\ UNCHANGED fault
    /\ UNCHANGED <<config, waiting, counterVars, taskVars, nodeVars, user_up>>

(* Slip: the node was moved into the write, and a null one is pushed. *)
SendSucceeds_Moved(i) ==
    /\ Alive
    /\ stage[i] = "write"
    /\ stage' = [stage EXCEPT ![i] = "sent"]
    /\ target' = [target EXCEPT ![i] = NoNode]
    /\ PushNode(NoNode)
    /\ node_in' = [node_in EXCEPT ![target[i]] = Append(@, i)]
    /\ UNCHANGED <<mainVars, counterVars, taskVars, fault, node_up,
                   node_config, node_out, user_up>>

(* The input is written; the node goes back to the ready nodes.  Bytes     *)
(* written to a node that went down are lost.                              *)
SendSucceeds(i) ==
    /\ Alive
    /\ stage[i] = "write"
    /\ stage' = [stage EXCEPT ![i] = "sent"]
    /\ target' = [target EXCEPT ![i] = NoNode]
    /\ PushNode(target[i])
    /\ node_in' = IF node_up[target[i]]
                  THEN [node_in EXCEPT ![target[i]] = Append(@, i)]
                  ELSE node_in
    /\ UNCHANGED <<mainVars, counterVars, taskVars, fault, node_up,
                   node_config, node_out, user_up>>

(* The write fails: the node is dropped and the input dispatched again. *)
SendFails(i) ==
    /\ Alive
    /\ stage[i] = "write"
    /\ ~node_up[target[i]]
    /\ Dispatch(i, "retry_pop")
    /\ UNCHANGED <<mainVars, counterVars, taskVars, fault, nodeVars, user_up>>

-----------------------------------------------------------------------------
(* _configure_node(n) and its completion handler. *)

ConfigureSend(n) ==
    /\ Alive
    /\ task[n] = "config_send"
    /\ node_up[n]
    /\ task' = [task EXCEPT ![n] = "config_wait"]
    /\ node_config' = [node_config EXCEPT ![n] = config]
    /\ UNCHANGED <<mainVars, poolVars, counterVars, received, inputVars, fault,
                   node_up, node_in, node_out, user_up>>

(* config_counter.decr(): the counter is gone once _configure_nodes has    *)
(* returned.                                                               *)
ConfigCounterDecr ==
    IF pc \in {"configuring", "config_resp"}
    THEN config_counter' = Decr(config_counter) /\ UNCHANGED fault
    ELSE fault' = "dangling_counter" /\ UNCHANGED config_counter

(* The node answered SUCCESS: it becomes ready. *)
ConfigureSucceeds(n) ==
    /\ Alive
    /\ task[n] = "config_wait"
    /\ node_up[n]
    /\ task' = [task EXCEPT ![n] = "configured"]
    /\ PushNode(n)
    /\ ConfigCounterDecr
    /\ UNCHANGED <<mainVars, data_counter, node_receiver_counter, received,
                   inputVars, nodeVars, user_up>>

(* Slip: the completion handler pushes the node whatever the error code. *)
ConfigureFails_PushesNode(n) ==
    /\ Alive
    /\ task[n] \in {"config_send", "config_wait"} /\ n \in FailingNodes
    /\ task' = [task EXCEPT ![n] = "failed"]
    /\ node_up' = [node_up EXCEPT ![n] = FALSE]
    /\ PushNode(n)
    /\ ConfigCounterDecr
    /\ UNCHANGED <<mainVars, data_counter, node_receiver_counter, received,
                   inputVars, node_config, node_in, node_out, user_up>>

(* Slip: a failed configuration is not counted off. *)
ConfigureFails_NoDecr(n) ==
    /\ Alive
    /\ task[n] \in {"config_send", "config_wait"} /\ n \in FailingNodes
    /\ task' = [task EXCEPT ![n] = "failed"]
    /\ node_up' = [node_up EXCEPT ![n] = FALSE]
    /\ UNCHANGED <<mainVars, poolVars, counterVars, received, inputVars, fault,
                   node_config, node_in, node_out, user_up>>

(* The node answered ERROR and closed, or it went down. *)
ConfigureFails(n) ==
    /\ Alive
    /\ \/ task[n] = "config_wait" /\ n \in FailingNodes
       \/ task[n] = "config_send" /\ ~node_up[n]
    /\ task' = [task EXCEPT ![n] = "failed"]
    /\ node_up' = [node_up EXCEPT ![n] = FALSE]
    /\ ConfigCounterDecr
    /\ UNCHANGED <<mainVars, poolVars, data_counter, node_receiver_counter,
                   received, inputVars, node_config, node_in, node_out, user_up>>

-----------------------------------------------------------------------------
(* _receiver_loop(n) and its completion handler. *)

(* The read completes, which cancels the wait on the stop event; the loop  *)
(* resumes when both operations have completed.                            *)
ReceiverReads(n) ==
    /\ Alive
    /\ task[n] = "recv"
    /\ node_out[n] # <<>>
    /\ task' = [task EXCEPT ![n] = "got"]
    /\ received' = [received EXCEPT ![n] = Head(node_out[n])]
    /\ node_out' = [node_out EXCEPT ![n] = Tail(@)]
    /\ UNCHANGED <<mainVars, poolVars, counterVars, inputVars, fault, node_up,
                   node_config, node_in, user_up>>

(* The output has a valid size for the configuration now in use. *)
ReceiverAccepts(n) ==
    /\ Alive
    /\ task[n] = "got"
    /\ ValidOutput(n)
    /\ task' = [task EXCEPT ![n] = "send"]
    /\ UNCHANGED <<mainVars, poolVars, counterVars, received, inputVars, fault,
                   nodeVars, user_up>>

(* Slip: the completion handler does not count the loop off. *)
ReceiverExits_NoDecr(n) ==
    /\ task' = [task EXCEPT ![n] = "exited"]
    /\ received' = [received EXCEPT ![n] = NoInput]
    /\ UNCHANGED <<mainVars, poolVars, counterVars, inputVars, fault, nodeVars,
                   user_up>>

(* The loop ends and its completion handler counts it off. *)
ReceiverExits(n) ==
    /\ task' = [task EXCEPT ![n] = "exited"]
    /\ received' = [received EXCEPT ![n] = NoInput]
    /\ node_receiver_counter' = Decr(node_receiver_counter)
    /\ UNCHANGED <<mainVars, poolVars, config_counter, data_counter, inputVars,
                   fault, nodeVars, user_up>>

ReceiverRejects(n) ==
    /\ Alive
    /\ task[n] = "got"
    /\ ~ValidOutput(n)
    /\ ReceiverExits(n)

(* The result is written to the user and the input counted off. *)
ReceiverSent(n) ==
    /\ Alive
    /\ task[n] = "send"
    /\ task' = [task EXCEPT ![n] = "recv"]
    /\ received' = [received EXCEPT ![n] = NoInput]
    /\ stage' = [stage EXCEPT ![received[n]] = "answered"]
    /\ data_counter' = Decr(data_counter)
    /\ UNCHANGED <<mainVars, poolVars, config_counter, node_receiver_counter,
                   target, fault, nodeVars, user_up>>

ReceiverSendFails(n) ==
    /\ Alive
    /\ task[n] = "send"
    /\ ~user_up
    /\ ReceiverExits(n)

ReceiverEof(n) ==
    /\ Alive
    /\ task[n] = "recv"
    /\ ~node_up[n]
    /\ node_out[n] = <<>>
    /\ ReceiverExits(n)

ReceiverCancelled(n) ==
    /\ Alive
    /\ task[n] = "cancelled"
    /\ ReceiverExits(n)

-----------------------------------------------------------------------------
(* start() has returned and the server has destroyed the User; a coroutine *)
(* of the session that is still suspended resumes on it.                   *)
TouchesDestroyedUser ==
    /\ fault = "none"
    /\ pc = "ended"
    /\ LiveCoroutine
    /\ fault' = "dangling_user"
    /\ UNCHANGED <<mainVars, poolVars, counterVars, taskVars, inputVars,
                   nodeVars, user_up>>

-----------------------------------------------------------------------------
(* The peers. *)

(* The node computes the output of the oldest input it was sent. *)
NodeProcesses(n) ==
    /\ Alive
    /\ node_up[n]
    /\ node_in[n] # <<>>
    /\ node_in' = [node_in EXCEPT ![n] = Tail(@)]
    /\ node_out' = [node_out EXCEPT ![n] = Append(@, Head(node_in[n]))]
    /\ UNCHANGED <<mainVars, poolVars, counterVars, taskVars, inputVars, fault,
                   node_up, node_config, user_up>>

(* The node goes down: its inputs are lost, and so may be the last of its  *)
(* outputs.                                                                *)
NodeFails(n) ==
    /\ Alive
    /\ n \in FailingNodes
    /\ node_up[n]
    /\ node_up' = [node_up EXCEPT ![n] = FALSE]
    /\ node_in' = [node_in EXCEPT ![n] = <<>>]
    /\ \E len \in 0 .. Len(node_out[n]) :
           node_out' = [node_out EXCEPT ![n] = SubSeq(@, 1, len)]
    /\ UNCHANGED <<mainVars, poolVars, counterVars, taskVars, inputVars, fault,
                   node_config, user_up>>

UserCloses ==
    /\ Alive
    /\ UserMayLeave
    /\ user_up
    /\ user_up' = FALSE
    /\ UNCHANGED <<mainVars, poolVars, counterVars, taskVars, inputVars, fault,
                   nodeVars>>

-----------------------------------------------------------------------------
MainStep ==
    \/ \E c \in FirstOutputSize : ReceiveFirstConfig(c)
    \/ FirstConfigFails
    \/ ConfigWaitZero
    \/ ConfigResponseSent
    \/ ConfigResponseFails
    \/ \E i \in Input : ReceiveInput(i)
    \/ \E c \in NewOutputSize : ReceiveConfig(c)
    \/ Drained
    \/ Joined
    \/ ReceiveFails
    \/ ReceiveInvalid

SendStep ==
    \/ PopResumes
    \/ \E i \in Input : SendSucceeds(i) \/ SendFails(i)

NodeTaskStep(n) ==
    \/ ConfigureSend(n)
    \/ ConfigureSucceeds(n)
    \/ ConfigureFails(n)
    \/ ReceiverReads(n)
    \/ ReceiverAccepts(n)
    \/ ReceiverRejects(n)
    \/ ReceiverSent(n)
    \/ ReceiverSendFails(n)
    \/ ReceiverEof(n)
    \/ ReceiverCancelled(n)

PeerStep ==
    \/ \E n \in Node : NodeProcesses(n) \/ NodeFails(n)
    \/ UserCloses

Next ==
    \/ MainStep
    \/ SendStep
    \/ \E n \in Node : NodeTaskStep(n)
    \/ TouchesDestroyedUser
    \/ PeerStep

Spec == Init /\ [][Next]_vars

(***************************************************************************)
(* Fairness: io_context::run() runs every handler that is ready, a write   *)
(* to a peer that is up completes, and a node that is up answers.  The     *)
(* user need not send anything, and nothing has to fail.                   *)
(***************************************************************************)
Fairness ==
    /\ WF_vars(ConfigWaitZero)
    /\ WF_vars(ConfigResponseSent \/ ConfigResponseFails)
    /\ WF_vars(Drained)
    /\ WF_vars(Joined)
    /\ WF_vars(~user_up /\ ReceiveFails)
    /\ WF_vars(~user_up /\ FirstConfigFails)
    /\ WF_vars(PopResumes)
    /\ WF_vars(TouchesDestroyedUser)
    /\ \A i \in Input : WF_vars(SendSucceeds(i) \/ SendFails(i))
    /\ \A n \in Node : WF_vars(NodeTaskStep(n)) /\ WF_vars(NodeProcesses(n))

FairSpec == Spec /\ Fairness
=============================================================================
