------------------------ MODULE UserSessionProperties ------------------------
(***************************************************************************)
(* What is claimed of a session (UserSession), and what the comments and   *)
(* messages of the code claim.                                             *)
(***************************************************************************)
EXTENDS UserSession

-----------------------------------------------------------------------------
(* Safety.                                                                 *)

Distinct(s) == \A j, k \in 1 .. Len(s) : s[j] = s[k] => j = k

(* A node has one place: once in the container of ready nodes, or under    *)
(* one write of an input, or neither; a node that is not configured is in  *)
(* neither, since its _configure_node coroutine still uses the connection. *)
(* Two coroutines writing one Connection would mix the bytes of their      *)
(* messages (Connection.hpp, _write_exactly, is several async_write_some). *)
NodeHasOneWriter ==
    /\ Distinct(nodes_queue)
    /\ \A i \in Writing : target[i] \notin Elements(nodes_queue)
    /\ \A i, j \in Writing : target[i] = target[j] => i = j
    /\ \A n \in Node : task[n] \in {"idle", "config_send", "config_wait", "failed"}
           => /\ n \notin Elements(nodes_queue)
              /\ \A i \in Writing : target[i] # n

(* push() cancels one waiter and async_pop() waits only on an empty        *)
(* container, so while a coroutine waits uncancelled every ready node has  *)
(* a woken coroutine on its way to it: no ready node is left idle beside a *)
(* waiting input (Queue.hpp push and async_pop).                           *)
NoLostWakeup == waiting # <<>> => Len(nodes_queue) <= Len(woken)

(* How many times input i is held: waiting for a node, under a write, in   *)
(* the hands of a node or of a receiver loop.                              *)
Held(i) ==
    LET In(q) == Cardinality({k \in 1 .. Len(q) : q[k] = i})
        At(S) == Cardinality(S)
        Channels(c) == At({p \in Node \X (1 .. Cardinality(Input)) :
                             p[2] \in DOMAIN c[p[1]] /\ c[p[1]][p[2]] = i})
    IN  In(waiting) + In(woken) + Channels(node_in) + Channels(node_out)
          + At({n \in Node : target[i] = n}) + At({n \in Node : received[n] = i})

(* An accepted input is never duplicated by the retries: it is held in one *)
(* place until it is answered (in none once a node went down with it, or a *)
(* receiver loop refused its output), and an answered one is held nowhere, *)
(* so the user gets at most one result per input (_send_input_to_node,     *)
(* _receiver_loop).                                                        *)
InputHeldOnce ==
    \A i \in Input :
        /\ stage[i] \in {"new", "answered"} => Held(i) = 0
        /\ stage[i] \in {"main_pop", "retry_pop", "write"} => Held(i) = 1
        /\ stage[i] = "sent" => Held(i) <= 1

(* What a counter holds beside what it is there to count: configurations   *)
(* in progress, inputs accepted and not answered, receiver loops running.  *)
ConfigOffset == config_counter - Cardinality(Configuring)
DataOffset == data_counter - Cardinality(Pending)
LoopOffset == node_receiver_counter - Cardinality(Receiving)

(* Each counter is what it counts and what its memory held before the      *)
(* constructor, which leaves _val alone (Counter.hpp:79), and nothing else.*)
(* It is changed by coroutines that start and end in any order, and it is  *)
(* waited on to be zero before something is destroyed or announced.  Holds *)
(* while no incr() passes UIntMax.                                         *)
CountersExact ==
    /\ pc \in {"configuring", "config_resp"} => ConfigOffset \in Garbage
    /\ DataOffset \in Garbage
    /\ LoopOffset \in Garbage

(* While no write fails the main coroutine is the only one that pops, so a *)
(* woken async_pop finds its node, and no coroutine outlives the session of*)
(* a user that stays: no step has undefined behaviour.                     *)
NoFault == fault = "none"

(* Whatever fails, no completion handler of _configure_node runs after     *)
(* _configure_nodes has returned: the counter it decrements, in the frame  *)
(* of that coroutine, still exists.  Holds while no incr() passes UIntMax. *)
NothingDangling == fault # "dangling_counter"

(* _dispatch_input pops "one node from ready nodes stack"                  *)
(* (User_Queue.hpp:288): there is one to pop.                              *)
NoPopFromEmpty == fault # "pop_empty"

(* The user that has all its results closes its connection                 *)
(* (test_user.cpp:279) and the session ends ("User connection closed",     *)
(* User_Queue.hpp:234): no receiver loop is left on the destroyed User.    *)
NoDanglingUser == fault # "dangling_user"

-----------------------------------------------------------------------------
(* Action properties.                                                      *)

InUse(n) == n \in Elements(nodes_queue) \/ \E i \in Writing : target[i] = n

NoNodeComesBack ==
    \A n \in Node : InUse(n)' =>
        InUse(n) \/ (task[n] = "config_wait" /\ task'[n] = "configured")

(* A node whose write failed, or that was not configured, never gets       *)
(* another input: nodes enter the pool by a successful configuration only  *)
(* (_send_input_to_node returns without pushing the node back).            *)
DroppedNodeStaysOut == [][NoNodeComesBack]_vars

(* A session that ends through a new configuration has answered every      *)
(* input it accepted, and every coroutine on its nodes has returned        *)
(* (_main_loop waits for both counters).  Holds while no incr() passes     *)
(* UIntMax.                                                                *)
ReconfigurationIsClean ==
    [][pc = "join" /\ pc' = "ended" => Pending = {} /\ ~LiveCoroutine]_vars

(* What a counter held at first stays in it: no step changes a counter but *)
(* by as much as what it counts (incr and decr of Counter.hpp, and every   *)
(* completion handler that calls them).                                    *)
CounterOffsetsStay ==
    [][/\ {pc, pc'} \subseteq {"configuring", "config_resp"} =>
              ConfigOffset' = ConfigOffset
       /\ DataOffset' = DataOffset
       /\ LoopOffset' = LoopOffset]_vars

(* The data counter goes down by the answering of an input only: a retry,  *)
(* a failed node or a refused output never counts an input off             *)
(* (_receiver_loop decrements after the write to the user).  All else that *)
(* can lower it is an incr() at UIntMax.                                   *)
CountedOffWhenAnswered ==
    [][data_counter' < data_counter =>
         \/ \E i \in Input : stage[i] = "sent" /\ stage'[i] = "answered"
         \/ /\ data_counter = UIntMax
            /\ \E i \in Input : stage[i] = "new" /\ stage'[i] # "new"]_vars

-----------------------------------------------------------------------------
(* Scope: behaviours that some of the properties are about.                *)

(* Every incr() adds: none is called on a counter at UIntMax.              *)
IncrsAdd ==
    /\ \A c \in FirstOutputSize : ReceiveFirstConfig(c) =>
           config_counter' - Cardinality(Node) \in Garbage
    /\ \A i \in Input : ReceiveInput(i) => data_counter' = data_counter + 1
    /\ ConfigResponseSent =>
           node_receiver_counter' = node_receiver_counter + Len(nodes_queue)
NoCounterWraps == [][IncrsAdd]_vars

(* No write of an input to a node fails. *)
NoWriteFails == [][\A i \in Input : ~SendFails(i)]_vars

(* No read of _main_loop fails, and it meets no invalid message. *)
MainLoopReads == [][~ReceiveFails /\ ~ReceiveInvalid]_vars

-----------------------------------------------------------------------------
(* Liveness.                                                               *)

(* Every input the session accepted is answered (when no node fails, the   *)
(* user stays and a new configuration fits the nodes' output size).        *)
InputAnswered == \A i \in Input : i \in Pending ~> stage[i] = "answered"

(* An input whose write failed is written to another node, as long as one  *)
(* does not fail - unless the woken pop met an empty container, or the     *)
(* session ended (_send_input_to_node, _dispatch_input).                   *)
RetryDelivered ==
    \A i \in Input :
        stage[i] = "retry_pop" ~> stage[i] \in {"sent", "answered"} \/ ~Alive

(* The pending inputs are waited for ("Waiting for data counter to drop to *)
(* zero", User_Queue.hpp:265) and then the session ends.                   *)
ReconfigurationEnds == pc = "drain" ~> pc = "ended"

(* The end of the user's connection ends the session, whatever was pending *)
(* (_main_loop, start), when one node does not fail and the session is not *)
(* being reconfigured.                                                     *)
UserCloseEndsSession == ~user_up ~> ~Alive

(* The first configuration is answered, whichever nodes fail.              *)
ConfigurationEnds == pc = "configuring" ~> pc \in {"loop", "ended"} \/ ~Alive
=============================================================================
