-------------------------- MODULE UserSessionProofs --------------------------
(***************************************************************************)
(* Theorems about UserSession for every finite set of nodes and of inputs, *)
(* every content of uninitialised memory, and for queue and stack alike.   *)
(***************************************************************************)
EXTENDS UserSessionProperties, FiniteSetTheorems, TLAPS

-----------------------------------------------------------------------------
(* The operators of AsyncPrimitives. *)

(* Counter::incr yields a uint. *)
LEMMA IncrByType ==
    ASSUME NEW val \in UInt, NEW k \in Nat
    PROVE  IncrBy(val, k) \in UInt
  BY UIntMaxAssumption DEF UInt, IncrBy

(* Counter::decr yields a uint. *)
LEMMA DecrType ==
    ASSUME NEW val \in UInt
    PROVE  Decr(val) \in UInt
  BY UIntMaxAssumption DEF UInt, Decr

(* push adds its item and nothing else, to a queue as to a stack. *)
LEMMA PushLemma ==
    ASSUME NEW S, NEW q \in Seq(S), NEW x \in S
    PROVE  /\ Push(q, x) \in Seq(S)
           /\ Elements(Push(q, x)) = Elements(q) \cup {x}
           /\ Len(Push(q, x)) = Len(q) + 1
           /\ Distinct(q) /\ x \notin Elements(q) => Distinct(Push(q, x))
<1>1. CASE Lifo
  <2>1. Push(q, x) = <<x>> \o q
    BY <1>1 DEF Push
  <2>2. /\ <<x>> \o q \in Seq(S)
        /\ Len(<<x>> \o q) = Len(q) + 1
        /\ (<<x>> \o q)[1] = x
        /\ \A k \in 2 .. Len(q) + 1 : (<<x>> \o q)[k] = q[k - 1]
    OBVIOUS
  <2>3. \A k \in 1 .. Len(q) : (<<x>> \o q)[k + 1] = q[k]
    BY <2>2
  <2>4. Elements(<<x>> \o q) = Elements(q) \cup {x}
    BY <2>2, <2>3 DEF Elements
  <2>5. Distinct(q) /\ x \notin Elements(q) => Distinct(<<x>> \o q)
    BY <2>2, <2>3 DEF Elements, Distinct
  <2> QED BY <2>1, <2>2, <2>4, <2>5
<1>2. CASE ~Lifo
  <2>1. Push(q, x) = Append(q, x)
    BY <1>2 DEF Push
  <2>2. /\ Append(q, x) \in Seq(S)
        /\ Len(Append(q, x)) = Len(q) + 1
        /\ Append(q, x)[Len(q) + 1] = x
        /\ \A k \in 1 .. Len(q) : Append(q, x)[k] = q[k]
    OBVIOUS
  <2>3. Elements(Append(q, x)) = Elements(q) \cup {x}
    BY <2>2 DEF Elements
  <2>4. Distinct(q) /\ x \notin Elements(q) => Distinct(Append(q, x))
    BY <2>2 DEF Elements, Distinct
  <2> QED BY <2>1, <2>2, <2>3, <2>4
<1> QED BY <1>1, <1>2

(* pop takes one item out. *)
LEMMA PopLemma ==
    ASSUME NEW S, NEW q \in Seq(S), q # <<>>
    PROVE  /\ Pop(q) \in Seq(S)
           /\ Head(q) \in S
           /\ Head(q) \in Elements(q)
           /\ Elements(Pop(q)) \subseteq Elements(q)
           /\ Len(Pop(q)) = Len(q) - 1
           /\ Distinct(q) => Distinct(Pop(q)) /\ Head(q) \notin Elements(Pop(q))
<1>1. /\ Tail(q) \in Seq(S)
      /\ Len(q) \in Nat \ {0}
      /\ Len(Tail(q)) = Len(q) - 1
      /\ Head(q) = q[1]
      /\ \A k \in 1 .. Len(q) - 1 : Tail(q)[k] = q[k + 1]
  OBVIOUS
<1>2. Elements(Tail(q)) \subseteq Elements(q)
  BY <1>1 DEF Elements
<1>3. ASSUME Distinct(q)
      PROVE  Distinct(Tail(q)) /\ q[1] \notin Elements(Tail(q))
  BY <1>1, <1>3 DEF Elements, Distinct
<1>4. q[1] \in S /\ q[1] \in Elements(q)
  BY <1>1 DEF Elements
<1> QED BY <1>1, <1>2, <1>3, <1>4 DEF Pop

(* Popping everything and pushing it back keeps the items. *)
LEMMA RepushedLemma ==
    ASSUME NEW S, NEW q \in Seq(S)
    PROVE  /\ Repushed(q) \in Seq(S)
           /\ Elements(Repushed(q)) = Elements(q)
           /\ Len(Repushed(q)) = Len(q)
           /\ Distinct(q) => Distinct(Repushed(q))
<1>1. CASE Lifo
  <2> DEFINE r == [k \in 1 .. Len(q) |-> q[Len(q) + 1 - k]]
  <2>1. Repushed(q) = r
    BY <1>1 DEF Repushed
  <2>2. Len(q) \in Nat /\ r \in Seq(S) /\ Len(r) = Len(q)
    OBVIOUS
  <2>3. \A k \in 1 .. Len(q) : /\ r[k] = q[Len(q) + 1 - k]
                               /\ r[Len(q) + 1 - k] = q[k]
                               /\ Len(q) + 1 - k \in 1 .. Len(q)
    BY <2>2
  <2> HIDE DEF r
  <2>4. Elements(r) = Elements(q)
    <3>1. ASSUME NEW k \in 1 .. Len(q)
          PROVE  r[k] \in Elements(q) /\ q[k] \in Elements(r)
      <4>1. /\ r[k] = q[Len(q) + 1 - k] /\ q[k] = r[Len(q) + 1 - k]
            /\ Len(q) + 1 - k \in 1 .. Len(q)
        BY <2>3
      <4> QED BY <2>2, <4>1 DEF Elements
    <3> QED BY <2>2, <3>1 DEF Elements
  <2>5. Distinct(q) => Distinct(r)
    <3> SUFFICES ASSUME Distinct(q), NEW j \in 1 .. Len(q), NEW k \in 1 .. Len(q),
                        r[j] = r[k]
                 PROVE  j = k
      BY <2>2 DEF Distinct
    <3>1. q[Len(q) + 1 - j] = q[Len(q) + 1 - k]
      BY <2>3
    <3>2. Len(q) + 1 - j \in 1 .. Len(q) /\ Len(q) + 1 - k \in 1 .. Len(q)
      BY <2>3
    <3>3. Len(q) + 1 - j = Len(q) + 1 - k
      BY <3>1, <3>2 DEF Distinct
    <3> QED BY <2>2, <3>3
  <2> QED BY <2>1, <2>2, <2>4, <2>5
<1>2. CASE ~Lifo
  BY <1>2 DEF Repushed
<1> QED BY <1>1, <1>2

-----------------------------------------------------------------------------
(* Types. *)

(* A counter that holds a uint holds one after any of its operations, and  *)
(* so does a new one, whatever is in its memory.                           *)
LEMMA CounterTypes ==
    /\ \A val \in UInt : Incr(val) \in UInt /\ Decr(val) \in UInt
    /\ \A val \in Garbage : IncrBy(val, Cardinality(Node)) \in UInt
<1>1. Cardinality(Node) \in Nat
  BY NodeAssumption, FS_CardinalityType
<1>2. 1 \in Nat
  OBVIOUS
<1> QED BY <1>1, <1>2, IncrByType, DecrType, GarbageAssumption DEF Incr

(* Pushing a node keeps the types of what it changes. *)
LEMMA PushNodeType ==
    ASSUME TypeOK, NEW n \in Node, PushNode(n)
    PROVE  /\ nodes_queue' \in Seq(Node)
           /\ waiting' \in Seq(Input)
           /\ woken' \in Seq(Input)
<1>1. nodes_queue' \in Seq(Node)
  BY PushLemma DEF TypeOK, PushNode
<1>2. CASE waiting = <<>>
  BY <1>1, <1>2 DEF TypeOK, PushNode
<1>3. CASE waiting # <<>>
  <2>1. Tail(waiting) \in Seq(Input) /\ Head(waiting) \in Input
    BY <1>3 DEF TypeOK
  <2>2. Append(woken, Head(waiting)) \in Seq(Input)
    BY <2>1 DEF TypeOK
  <2> QED BY <1>1, <1>3, <2>1, <2>2 DEF PushNode
<1> QED BY <1>2, <1>3

(* Dispatching an input keeps the types of what it changes. *)
LEMMA DispatchType ==
    ASSUME TypeOK, NEW i \in Input, NEW popStage \in StageState, Dispatch(i, popStage)
    PROVE  /\ nodes_queue' \in Seq(Node)
           /\ waiting' \in Seq(Input)
           /\ woken' \in Seq(Input)
           /\ stage' \in [Input -> StageState]
           /\ target' \in [Input -> Node \cup {NoNode}]
<1>1. nodes_queue # <<>> => Pop(nodes_queue) \in Seq(Node) /\ Head(nodes_queue) \in Node
  BY PopLemma DEF TypeOK
<1>2. Append(waiting, i) \in Seq(Input)
  BY DEF TypeOK
<1> QED BY <1>1, <1>2 DEF TypeOK, Dispatch, StageState

(* The end of a receiver loop keeps every type. *)
LEMMA ReceiverExitsType ==
    ASSUME TypeOK, NEW n \in Node, ReceiverExits(n)
    PROVE  TypeOK'
  BY CounterTypes DEF TypeOK, ReceiverExits, TaskState,
                      mainVars, poolVars, counterVars, taskVars, inputVars, nodeVars

(* The target of a write is a node. *)
WritersHaveNode == \A i \in Writing : target[i] \in Node

(* Every step keeps the types; SendSucceeds pushes the target of its write,*)
(* which is a node only by WritersHaveNode.                                *)
LEMMA TypeStep == TypeOK /\ WritersHaveNode /\ [Next]_vars => TypeOK'
<1> SUFFICES ASSUME TypeOK, WritersHaveNode, [Next]_vars
             PROVE  TypeOK'
  OBVIOUS
<1> USE DEF mainVars, poolVars, counterVars, taskVars, inputVars, nodeVars
<1>1. CASE UNCHANGED vars
  BY <1>1 DEF TypeOK, vars
<1>2. ASSUME NEW c \in FirstOutputSize, ReceiveFirstConfig(c)
      PROVE  TypeOK'
  BY <1>2, CounterTypes, SizeAssumption DEF ReceiveFirstConfig, TypeOK, PcState,
          TaskState
<1>3. ASSUME FirstConfigFails
      PROVE  TypeOK'
  BY <1>3 DEF FirstConfigFails, GoTo, TypeOK, PcState
<1>4. ASSUME ConfigWaitZero
      PROVE  TypeOK'
  BY <1>4 DEF ConfigWaitZero, GoTo, TypeOK, PcState
<1>5. ASSUME ConfigResponseSent
      PROVE  TypeOK'
  <2>1. Repushed(nodes_queue) \in Seq(Node) /\ Len(nodes_queue) \in Nat
    BY RepushedLemma DEF TypeOK
  <2>2. IncrBy(node_receiver_counter, Len(nodes_queue)) \in UInt
    BY <2>1, IncrByType DEF TypeOK
  <2> QED BY <1>5, <2>1, <2>2 DEF ConfigResponseSent, TypeOK, PcState, TaskState
<1>6. ASSUME ConfigResponseFails
      PROVE  TypeOK'
  BY <1>6 DEF ConfigResponseFails, GoTo, TypeOK, PcState
<1>7. ASSUME NEW i \in Input, ReceiveInput(i)
      PROVE  TypeOK'
  <2>1. Dispatch(i, "main_pop") /\ "main_pop" \in StageState
    BY <1>7 DEF ReceiveInput, StageState
  <2> QED BY <1>7, <2>1, DispatchType, CounterTypes
          DEF ReceiveInput, TypeOK, PcState
<1>8. ASSUME NEW c \in NewOutputSize, ReceiveConfig(c)
      PROVE  TypeOK'
  BY <1>8, SizeAssumption DEF ReceiveConfig, TypeOK, PcState
<1>9. ASSUME Drained
      PROVE  TypeOK'
  BY <1>9 DEF Drained, TypeOK, PcState, TaskState
<1>10. ASSUME Joined
      PROVE  TypeOK'
  BY <1>10 DEF Joined, GoTo, TypeOK, PcState
<1>11. ASSUME ReceiveFails
      PROVE  TypeOK'
  BY <1>11 DEF ReceiveFails, GoTo, TypeOK, PcState
<1>12. ASSUME ReceiveInvalid
      PROVE  TypeOK'
  BY <1>12 DEF ReceiveInvalid, GoTo, TypeOK, PcState
<1>13. ASSUME PopResumes
      PROVE  TypeOK'
  <2>1. Tail(woken) \in Seq(Input) /\ Head(woken) \in Input
    BY <1>13 DEF PopResumes, TypeOK
  <2>2. nodes_queue # <<>> => /\ Pop(nodes_queue) \in Seq(Node)
                              /\ Head(nodes_queue) \in Node
    BY PopLemma DEF TypeOK
  <2> QED BY <1>13, <2>1, <2>2 DEF PopResumes, TypeOK, PcState, StageState, FaultState
<1>14. ASSUME NEW i \in Input, SendSucceeds(i)
      PROVE  TypeOK'
  <2> target[i] \in Node
    BY <1>14 DEF SendSucceeds, WritersHaveNode, Writing
  <2>1. PushNode(target[i])
    BY <1>14 DEF SendSucceeds
  <2>2. Append(node_in[target[i]], i) \in Seq(Input)
    BY <1>14 DEF TypeOK
  <2> QED BY <1>14, <2>1, <2>2, PushNodeType
          DEF SendSucceeds, TypeOK, StageState
<1>15. ASSUME NEW i \in Input, SendFails(i)
      PROVE  TypeOK'
  <2>1. Dispatch(i, "retry_pop") /\ "retry_pop" \in StageState
    BY <1>15 DEF SendFails, StageState
  <2> QED BY <1>15, <2>1, DispatchType DEF SendFails, TypeOK
<1>16. ASSUME NEW n \in Node, ConfigureSend(n)
      PROVE  TypeOK'
  BY <1>16 DEF ConfigureSend, TypeOK, TaskState
<1>17. ASSUME NEW n \in Node, ConfigureSucceeds(n)
      PROVE  TypeOK'
  BY <1>17, PushNodeType, CounterTypes DEF ConfigureSucceeds, ConfigCounterDecr,
          TypeOK, TaskState, FaultState
<1>18. ASSUME NEW n \in Node, ConfigureFails(n)
      PROVE  TypeOK'
  BY <1>18, CounterTypes DEF ConfigureFails, ConfigCounterDecr, TypeOK, TaskState,
          FaultState
<1>19. ASSUME NEW n \in Node, ReceiverReads(n)
      PROVE  TypeOK'
  <2>1. Head(node_out[n]) \in Input /\ Tail(node_out[n]) \in Seq(Input)
    BY <1>19 DEF ReceiverReads, TypeOK
  <2> QED BY <1>19, <2>1 DEF ReceiverReads, TypeOK, TaskState
<1>20. ASSUME NEW n \in Node, ReceiverAccepts(n)
      PROVE  TypeOK'
  BY <1>20 DEF ReceiverAccepts, TypeOK, TaskState
<1>21. ASSUME NEW n \in Node, ReceiverRejects(n)
      PROVE  TypeOK'
  BY <1>21, ReceiverExitsType DEF ReceiverRejects
<1>22. ASSUME NEW n \in Node, ReceiverSent(n)
      PROVE  TypeOK'
  BY <1>22, CounterTypes DEF ReceiverSent, TypeOK, TaskState, StageState
<1>23. ASSUME NEW n \in Node, ReceiverSendFails(n)
      PROVE  TypeOK'
  BY <1>23, ReceiverExitsType DEF ReceiverSendFails
<1>24. ASSUME NEW n \in Node, ReceiverEof(n)
      PROVE  TypeOK'
  BY <1>24, ReceiverExitsType DEF ReceiverEof
<1>25. ASSUME NEW n \in Node, ReceiverCancelled(n)
      PROVE  TypeOK'
  BY <1>25, ReceiverExitsType DEF ReceiverCancelled
<1>26. ASSUME TouchesDestroyedUser
      PROVE  TypeOK'
  BY <1>26 DEF TouchesDestroyedUser, TypeOK, FaultState
<1>27. ASSUME NEW n \in Node, NodeProcesses(n)
      PROVE  TypeOK'
  <2>1. /\ Tail(node_in[n]) \in Seq(Input)
        /\ Append(node_out[n], Head(node_in[n])) \in Seq(Input)
    BY <1>27 DEF NodeProcesses, TypeOK
  <2> QED BY <1>27, <2>1 DEF NodeProcesses, TypeOK
<1>28. ASSUME NEW n \in Node, NodeFails(n)
      PROVE  TypeOK'
  <2>1. \A len \in 0 .. Len(node_out[n]) : SubSeq(node_out[n], 1, len) \in Seq(Input)
    BY DEF TypeOK
  <2>2. <<>> \in Seq(Input)
    OBVIOUS
  <2> QED BY <1>28, <2>1, <2>2 DEF NodeFails, TypeOK
<1>29. ASSUME UserCloses
      PROVE  TypeOK'
  BY <1>29 DEF UserCloses, TypeOK
<1> QED BY <1>1, <1>2, <1>3, <1>4, <1>5, <1>6, <1>7, <1>8, <1>9, <1>10, <1>11,
        <1>12, <1>13, <1>14, <1>15, <1>16, <1>17, <1>18, <1>19, <1>20, <1>21, <1>22,
        <1>23, <1>24, <1>25, <1>26, <1>27, <1>28, <1>29
        DEF Next, MainStep, SendStep, NodeTaskStep, PeerStep

-----------------------------------------------------------------------------
(* One writer per node. *)

Unconfigured == {"idle", "config_send", "config_wait", "failed"}

(* NodeHasOneWriter is not inductive: ReceiveFirstConfig makes every node  *)
(* unconfigured, so it must be known that none is in the pool before.      *)
WriterInv ==
    /\ TypeOK
    /\ WritersHaveNode
    /\ NodeHasOneWriter
    /\ pc = "first_config" => \A n \in Node : task[n] = "idle"

(* A step that leaves the pool and the writes alone, makes no configured   *)
(* node unconfigured and does not go back to the first configuration.      *)
QuietStep ==
    /\ UNCHANGED <<nodes_queue, waiting, woken, stage, target>>
    /\ \A n \in Node : task'[n] \in Unconfigured => task[n] \in Unconfigured
    /\ pc' = "first_config" =>
           pc = "first_config" /\ \A n \in Node : task[n] = "idle" => task'[n] = "idle"

(* Writes may end, and the pool may shrink or change its order.            *)
LEMMA FewerKeepWriters ==
    ASSUME WriterInv, Distinct(nodes_queue'),
           Elements(nodes_queue') \subseteq Elements(nodes_queue),
           Writing' \subseteq Writing, \A i \in Writing' : target'[i] = target[i],
           \A n \in Node : task'[n] \in Unconfigured => task[n] \in Unconfigured
    PROVE  WritersHaveNode' /\ NodeHasOneWriter'
<1>1. WritersHaveNode'
  BY DEF WriterInv, WritersHaveNode
<1>2. \A i \in Writing' : target'[i] \notin Elements(nodes_queue')
  BY DEF WriterInv, NodeHasOneWriter
<1>3. \A i, j \in Writing' : target'[i] = target'[j] => i = j
  BY DEF WriterInv, NodeHasOneWriter
<1>4. \A n \in Node : task'[n] \in Unconfigured =>
          n \notin Elements(nodes_queue') /\ \A i \in Writing' : target'[i] # n
  BY DEF WriterInv, NodeHasOneWriter, Unconfigured
<1> QED BY <1>1, <1>2, <1>3, <1>4 DEF NodeHasOneWriter, Unconfigured, Elements

(* A quiet step keeps one writer per node. *)
LEMMA QuietKeepsWriters ==
    ASSUME WriterInv, QuietStep
    PROVE  WritersHaveNode' /\ NodeHasOneWriter'
<1>1. Writing' = Writing /\ Elements(nodes_queue') = Elements(nodes_queue)
  BY DEF QuietStep, Writing
<1>2. Distinct(nodes_queue')
  BY DEF WriterInv, NodeHasOneWriter, QuietStep
<1> QED BY <1>1, <1>2, FewerKeepWriters DEF QuietStep

(* Most steps are quiet; the others move a node between the pool and a     *)
(* write, or set the task of all nodes.                                    *)
LEMMA StepKinds ==
    ASSUME WriterInv, [Next]_vars
    PROVE  \/ QuietStep
           \/ \E c \in FirstOutputSize : ReceiveFirstConfig(c)
           \/ ConfigResponseSent
           \/ \E i \in Input : ReceiveInput(i) \/ SendFails(i) \/ SendSucceeds(i)
           \/ PopResumes
           \/ \E n \in Node : ConfigureSucceeds(n) \/ ReceiverSent(n)
<1> USE DEF QuietStep, Unconfigured, mainVars, poolVars, counterVars, taskVars,
        inputVars, nodeVars
<1>1. CASE UNCHANGED vars
  BY <1>1 DEF vars
<1>2. ASSUME FirstConfigFails \/ ConfigWaitZero \/ ConfigResponseFails \/ Joined
                \/ ReceiveFails \/ ReceiveInvalid
      PROVE  QuietStep
  BY <1>2 DEF FirstConfigFails, ConfigWaitZero, ConfigResponseFails, Joined, ReceiveFails,
              ReceiveInvalid, GoTo
<1>3. ASSUME (\E c \in NewOutputSize : ReceiveConfig(c)) \/ Drained \/ TouchesDestroyedUser
                \/ PeerStep
      PROVE  QuietStep
  BY <1>3 DEF WriterInv, TypeOK, ReceiveConfig, Drained, TouchesDestroyedUser, PeerStep,
              NodeProcesses, NodeFails, UserCloses
<1>4. ASSUME NEW n \in Node, ConfigureSend(n) \/ ConfigureFails(n)
      PROVE  QuietStep
  BY <1>4 DEF WriterInv, TypeOK, ConfigureSend, ConfigureFails
<1>5. ASSUME NEW n \in Node, ReceiverReads(n) \/ ReceiverAccepts(n)
      PROVE  QuietStep
  BY <1>5 DEF WriterInv, TypeOK, ReceiverReads, ReceiverAccepts
<1>6. ASSUME NEW n \in Node, ReceiverRejects(n) \/ ReceiverSendFails(n) \/ ReceiverEof(n)
                \/ ReceiverCancelled(n)
      PROVE  QuietStep
  BY <1>6 DEF WriterInv, TypeOK, ReceiverRejects, ReceiverSendFails, ReceiverEof,
              ReceiverCancelled, ReceiverExits
<1> QED BY <1>1, <1>2, <1>3, <1>4, <1>5, <1>6
        DEF Next, MainStep, SendStep, NodeTaskStep

(* Taking a node out of the pool for a write keeps one writer per node.    *)
LEMMA TakeKeepsWriters ==
    ASSUME WriterInv, TypeOK', UNCHANGED task, NEW i \in Input,
           nodes_queue # <<>>, nodes_queue' = Pop(nodes_queue),
           target' = [target EXCEPT ![i] = Head(nodes_queue)],
           stage' = [stage EXCEPT ![i] = "write"]
    PROVE  WritersHaveNode' /\ NodeHasOneWriter'
<1>1. /\ Head(nodes_queue) \in Node
      /\ Head(nodes_queue) \in Elements(nodes_queue)
      /\ Elements(nodes_queue') \subseteq Elements(nodes_queue)
      /\ Distinct(nodes_queue') /\ Head(nodes_queue) \notin Elements(nodes_queue')
  BY PopLemma DEF WriterInv, TypeOK, NodeHasOneWriter
<1>2. Writing' = Writing \cup {i}
  BY DEF WriterInv, TypeOK, Writing
<1>3. target'[i] = Head(nodes_queue) /\ \A j \in Input \ {i} : target'[j] = target[j]
  BY DEF WriterInv, TypeOK
<1>4. \A j \in Writing \ {i} : target[j] # Head(nodes_queue) /\ j \in Input
  BY <1>1 DEF WriterInv, NodeHasOneWriter, Writing
<1>5. WritersHaveNode'
  BY <1>1, <1>2, <1>3, <1>4 DEF WriterInv, WritersHaveNode
<1>6. \A j \in Writing' : target'[j] \notin Elements(nodes_queue')
  BY <1>1, <1>2, <1>3, <1>4 DEF WriterInv, NodeHasOneWriter
<1>7. \A j, k \in Writing' : target'[j] = target'[k] => j = k
  BY <1>2, <1>3, <1>4 DEF WriterInv, NodeHasOneWriter
<1>8. \A n \in Node : task'[n] \in Unconfigured =>
          n \notin Elements(nodes_queue') /\ \A j \in Writing' : target'[j] # n
  BY <1>1, <1>2, <1>3, <1>4 DEF WriterInv, NodeHasOneWriter, Unconfigured
<1> QED BY <1>1, <1>5, <1>6, <1>7, <1>8 DEF NodeHasOneWriter, Unconfigured, Elements

(* Putting back a node that is in no other place keeps one writer per node.*)
LEMMA PushKeepsWriters ==
    ASSUME WriterInv, NEW n \in Node, nodes_queue' = Push(nodes_queue, n),
           n \notin Elements(nodes_queue),
           Writing' \subseteq Writing, \A i \in Writing' : target'[i] = target[i],
           \A i \in Writing' : target[i] # n,
           \A m \in Node : task'[m] \in Unconfigured => task[m] \in Unconfigured /\ m # n
    PROVE  WritersHaveNode' /\ NodeHasOneWriter'
<1>1. Distinct(nodes_queue') /\ Elements(nodes_queue') = Elements(nodes_queue) \cup {n}
  <2>1. nodes_queue \in Seq(Node) /\ Distinct(nodes_queue)
    BY DEF WriterInv, TypeOK, NodeHasOneWriter
  <2>2. /\ Distinct(Push(nodes_queue, n))
        /\ Elements(Push(nodes_queue, n)) = Elements(nodes_queue) \cup {n}
    BY <2>1, PushLemma
  <2> QED BY <2>2
<1>2. WritersHaveNode'
  BY DEF WriterInv, WritersHaveNode
<1>3. \A i \in Writing' : target'[i] \notin Elements(nodes_queue')
  BY <1>1 DEF WriterInv, NodeHasOneWriter
<1>4. \A i, j \in Writing' : target'[i] = target'[j] => i = j
  BY DEF WriterInv, NodeHasOneWriter
<1>5. \A m \in Node : task'[m] \in Unconfigured =>
          m \notin Elements(nodes_queue') /\ \A i \in Writing' : target'[i] # m
  BY <1>1 DEF WriterInv, NodeHasOneWriter, Unconfigured
<1> QED BY <1>1, <1>2, <1>3, <1>4, <1>5 DEF NodeHasOneWriter, Unconfigured, Elements

(* _dispatch_input takes a node or waits without one. *)
LEMMA DispatchKeepsWriters ==
    ASSUME WriterInv, TypeOK', UNCHANGED task, NEW i \in Input,
           NEW popStage \in StageState \ {"write"}, Dispatch(i, popStage)
    PROVE  WritersHaveNode' /\ NodeHasOneWriter'
<1>1. CASE nodes_queue # <<>>
  BY <1>1, TakeKeepsWriters DEF Dispatch
<1>2. CASE nodes_queue = <<>>
  <2>1. /\ UNCHANGED nodes_queue
        /\ stage' = [stage EXCEPT ![i] = popStage]
        /\ target' = [target EXCEPT ![i] = NoNode]
    BY <1>2 DEF Dispatch
  <2>2. Writing' \subseteq Writing /\ \A j \in Writing' : target'[j] = target[j]
    BY <2>1 DEF WriterInv, TypeOK, Writing
  <2>3. Distinct(nodes_queue') /\ Elements(nodes_queue') = Elements(nodes_queue)
    BY <2>1 DEF WriterInv, NodeHasOneWriter
  <2> QED BY <2>2, <2>3, FewerKeepWriters
<1> QED BY <1>1, <1>2

(* Every step keeps one writer per node. *)
LEMMA WriterStep == WriterInv /\ [Next]_vars => WriterInv'
<1> SUFFICES ASSUME WriterInv, [Next]_vars
             PROVE  WriterInv'
  OBVIOUS
<1> USE DEF mainVars, poolVars, counterVars, taskVars, inputVars, nodeVars
<1>1. TypeOK'
  BY TypeStep DEF WriterInv
<1>2. CASE QuietStep
  <2>1. (pc = "first_config" => \A n \in Node : task[n] = "idle")'
    BY <1>2 DEF WriterInv, QuietStep
  <2> QED BY <1>1, <1>2, <2>1, QuietKeepsWriters DEF WriterInv
<1>3. ASSUME NEW c \in FirstOutputSize, ReceiveFirstConfig(c)
      PROVE  WriterInv'
  <2>1. /\ UNCHANGED <<nodes_queue, stage, target>>
        /\ pc = "first_config" /\ pc' = "configuring"
    BY <1>3 DEF ReceiveFirstConfig
  <2>2. \A n \in Node : task[n] = "idle"
    BY <2>1 DEF WriterInv
  <2>3. Writing' = Writing /\ \A n \in Node : task[n] \in Unconfigured
    BY <2>1, <2>2 DEF Writing, Unconfigured
  <2>4. WritersHaveNode' /\ NodeHasOneWriter'
    BY <2>1, <2>3, FewerKeepWriters DEF WriterInv, NodeHasOneWriter
  <2> QED BY <1>1, <2>1, <2>4 DEF WriterInv
<1>4. ASSUME ConfigResponseSent
      PROVE  WriterInv'
  <2>1. /\ nodes_queue' = Repushed(nodes_queue) /\ UNCHANGED <<stage, target>>
        /\ \A n \in Node : task'[n] = "recv" \/ task'[n] = task[n]
        /\ pc' = "loop"
    BY <1>4 DEF ConfigResponseSent
  <2>2. Distinct(nodes_queue') /\ Elements(nodes_queue') = Elements(nodes_queue)
    BY <2>1, RepushedLemma DEF WriterInv, TypeOK, NodeHasOneWriter
  <2>3. Writing' = Writing
    BY <2>1 DEF Writing
  <2>4. WritersHaveNode' /\ NodeHasOneWriter'
    BY <2>1, <2>2, <2>3, FewerKeepWriters DEF Unconfigured
  <2> QED BY <1>1, <2>1, <2>4 DEF WriterInv
<1>5. ASSUME NEW i \in Input, ReceiveInput(i)
      PROVE  WriterInv'
  <2>1. /\ Dispatch(i, "main_pop") /\ "main_pop" \in StageState \ {"write"}
        /\ UNCHANGED task /\ pc' # "first_config"
    BY <1>5 DEF ReceiveInput, StageState
  <2> QED BY <1>1, <2>1, DispatchKeepsWriters DEF WriterInv
<1>6. ASSUME NEW i \in Input, SendFails(i)
      PROVE  WriterInv'
  <2>1. /\ Dispatch(i, "retry_pop") /\ "retry_pop" \in StageState \ {"write"}
        /\ UNCHANGED <<task, pc>>
    BY <1>6 DEF SendFails, StageState
  <2> QED BY <1>1, <2>1, DispatchKeepsWriters DEF WriterInv
<1>7. ASSUME NEW i \in Input, SendSucceeds(i)
      PROVE  WriterInv'
  <2>1. /\ i \in Writing /\ target[i] \in Node
        /\ nodes_queue' = Push(nodes_queue, target[i])
        /\ stage' = [stage EXCEPT ![i] = "sent"]
        /\ target' = [target EXCEPT ![i] = NoNode]
        /\ UNCHANGED <<task, pc>>
    BY <1>7 DEF WriterInv, WritersHaveNode, SendSucceeds, PushNode, Writing
  <2>2. /\ Writing' = Writing \ {i}
        /\ \A j \in Writing' : target'[j] = target[j]
    BY <2>1 DEF WriterInv, TypeOK, Writing
  <2>3. /\ target[i] \notin Elements(nodes_queue)
        /\ \A j \in Writing' : target[j] # target[i]
        /\ \A m \in Node : task[m] \in Unconfigured => m # target[i]
    BY <2>1, <2>2 DEF WriterInv, NodeHasOneWriter, Unconfigured
  <2>4. WritersHaveNode' /\ NodeHasOneWriter'
    BY <2>1, <2>2, <2>3, PushKeepsWriters
  <2> QED BY <1>1, <2>1, <2>4 DEF WriterInv
<1>8. ASSUME PopResumes
      PROVE  WriterInv'
  <2>1. UNCHANGED task /\ (pc' = "first_config" => pc = "first_config")
    BY <1>8 DEF PopResumes
  <2>2. CASE nodes_queue = <<>>
    <3>1. UNCHANGED <<nodes_queue, waiting, woken, stage, target>>
      BY <1>8, <2>2 DEF PopResumes
    <3> QED BY <1>2, <2>1, <3>1 DEF WriterInv, QuietStep
  <2>3. CASE nodes_queue # <<>>
    <3>1. Head(woken) \in Input
      BY <1>8 DEF PopResumes, WriterInv, TypeOK
    <3>2. WritersHaveNode' /\ NodeHasOneWriter'
      BY <1>1, <1>8, <2>1, <2>3, <3>1, TakeKeepsWriters DEF PopResumes
    <3> QED BY <1>1, <2>1, <3>2 DEF WriterInv
  <2> QED BY <2>2, <2>3
<1>9. ASSUME NEW n \in Node, ConfigureSucceeds(n)
      PROVE  WriterInv'
  <2>1. /\ nodes_queue' = Push(nodes_queue, n) /\ UNCHANGED <<stage, target, pc>>
        /\ task[n] = "config_wait" /\ task' = [task EXCEPT ![n] = "configured"]
    BY <1>9 DEF ConfigureSucceeds, PushNode
  <2>2. Writing' = Writing
    BY <2>1 DEF Writing
  <2>3. n \notin Elements(nodes_queue) /\ \A i \in Writing : target[i] # n
    BY <2>1 DEF WriterInv, NodeHasOneWriter
  <2>4. \A m \in Node : task'[m] \in Unconfigured => task[m] \in Unconfigured /\ m # n
    BY <2>1 DEF WriterInv, TypeOK, Unconfigured
  <2>5. WritersHaveNode' /\ NodeHasOneWriter'
    BY <2>1, <2>2, <2>3, <2>4, PushKeepsWriters
  <2>6. pc # "first_config"
    BY <2>1 DEF WriterInv
  <2> QED BY <1>1, <2>1, <2>5, <2>6 DEF WriterInv
<1>10. ASSUME NEW n \in Node, ReceiverSent(n)
       PROVE  WriterInv'
  <2>1. /\ UNCHANGED <<nodes_queue, target, pc>>
        /\ task[n] = "send" /\ task' = [task EXCEPT ![n] = "recv"]
        /\ stage' = [stage EXCEPT ![received[n]] = "answered"]
    BY <1>10 DEF ReceiverSent
  <2>2. Writing' \subseteq Writing
    BY <2>1 DEF WriterInv, TypeOK, Writing
  <2>3. \A m \in Node : task'[m] \in Unconfigured => task[m] \in Unconfigured
    BY <2>1 DEF WriterInv, TypeOK, Unconfigured
  <2>4. Distinct(nodes_queue') /\ Elements(nodes_queue') = Elements(nodes_queue)
    BY <2>1 DEF WriterInv, NodeHasOneWriter
  <2>5. WritersHaveNode' /\ NodeHasOneWriter'
    BY <2>1, <2>2, <2>3, <2>4, FewerKeepWriters
  <2>6. pc # "first_config"
    BY <2>1 DEF WriterInv
  <2> QED BY <1>1, <2>1, <2>5, <2>6 DEF WriterInv
<1> QED BY <1>2, <1>3, <1>4, <1>5, <1>6, <1>7, <1>8, <1>9, <1>10, StepKinds

(* A new session has one writer per node: none. *)
LEMMA WriterInit == Init => WriterInv
<1> SUFFICES ASSUME Init
             PROVE  WriterInv
  OBVIOUS
<1>1. TypeOK
  <2>1. 0 \in UInt /\ Garbage \subseteq UInt
    BY UIntMaxAssumption, GarbageAssumption DEF UInt
  <2> QED BY <2>1 DEF Init, TypeOK, PcState, TaskState, StageState, FaultState
<1>2. Writing = {} /\ Elements(nodes_queue) = {} /\ Distinct(nodes_queue)
  BY DEF Init, Writing, Elements, Distinct
<1> QED BY <1>1, <1>2 DEF WriterInv, WritersHaveNode, NodeHasOneWriter, Init

(* Every reachable state satisfies the inductive invariant. *)
THEOREM SessionWriterInv == Spec => []WriterInv
<1>1. Init => WriterInv
  BY WriterInit
<1>2. WriterInv /\ [Next]_vars => WriterInv'
  BY WriterStep
<1> QED BY <1>1, <1>2, PTL DEF Spec

(* Counters stay uints, containers hold nodes and inputs: the session is   *)
(* type-correct for every content of uninitialised memory (Counter::_val). *)
THEOREM SessionTypeOK == Spec => []TypeOK
<1>1. WriterInv => TypeOK
  BY DEF WriterInv
<1> QED BY <1>1, SessionWriterInv, PTL

(* No Connection is ever written by two coroutines of the session, however *)
(* many nodes fail and inputs are retried (_dispatch_input,                *)
(* _send_input_to_node, _configure_node).                                  *)
THEOREM SessionNodeHasOneWriter == Spec => []NodeHasOneWriter
<1>1. WriterInv => NodeHasOneWriter
  BY DEF WriterInv
<1> QED BY <1>1, SessionWriterInv, PTL

-----------------------------------------------------------------------------
(* No lost wake-up. *)

(* A push and an async_pop keep the number of ready nodes within that of   *)
(* the woken coroutines while somebody waits.                              *)
LEMMA PushWakes ==
    ASSUME TypeOK, NoLostWakeup, NEW n \in Node, PushNode(n)
    PROVE  NoLostWakeup'
<1>1. Len(nodes_queue') = Len(nodes_queue) + 1
  BY PushLemma DEF TypeOK, PushNode
<1>2. CASE waiting = <<>>
  BY <1>2 DEF PushNode, NoLostWakeup
<1>3. CASE waiting # <<>>
  <2>1. Head(waiting) \in Input
    BY <1>3 DEF TypeOK
  <2>2. Len(woken') = Len(woken) + 1
    BY <1>3, <2>1 DEF TypeOK, PushNode
  <2>3. Len(nodes_queue) \in Nat /\ Len(woken) \in Nat /\ Len(nodes_queue) <= Len(woken)
    BY <1>3 DEF TypeOK, NoLostWakeup
  <2> QED BY <1>1, <2>2, <2>3 DEF NoLostWakeup
<1> QED BY <1>2, <1>3

(* The same of _dispatch_input. *)
LEMMA DispatchWakes ==
    ASSUME TypeOK, NoLostWakeup, NEW i \in Input, NEW popStage, Dispatch(i, popStage)
    PROVE  NoLostWakeup'
<1>1. CASE nodes_queue = <<>>
  <2>1. Len(nodes_queue') = 0 /\ Len(woken') \in Nat
    BY <1>1 DEF TypeOK, Dispatch
  <2> QED BY <2>1 DEF NoLostWakeup
<1>2. CASE nodes_queue # <<>>
  <2>1. Len(nodes_queue') = Len(nodes_queue) - 1 /\ UNCHANGED <<waiting, woken>>
    BY <1>2, PopLemma DEF TypeOK, Dispatch
  <2>2. Len(nodes_queue) \in Nat /\ Len(woken) \in Nat
    BY DEF TypeOK
  <2> QED BY <2>1, <2>2 DEF NoLostWakeup
<1> QED BY <1>1, <1>2

(* Every step keeps it. *)
LEMMA WakeupStep == WriterInv /\ NoLostWakeup /\ [Next]_vars => NoLostWakeup'
<1> SUFFICES ASSUME WriterInv, NoLostWakeup, [Next]_vars
             PROVE  NoLostWakeup'
  OBVIOUS
<1>1. TypeOK
  BY DEF WriterInv
<1>2. CASE QuietStep
  BY <1>2 DEF QuietStep, NoLostWakeup
<1>3. ASSUME (\E c \in FirstOutputSize : ReceiveFirstConfig(c))
                \/ (\E n \in Node : ReceiverSent(n))
      PROVE  NoLostWakeup'
  BY <1>3 DEF ReceiveFirstConfig, ReceiverSent, NoLostWakeup, mainVars, poolVars,
          counterVars, taskVars, inputVars, nodeVars
<1>4. ASSUME ConfigResponseSent
      PROVE  NoLostWakeup'
  <2>1. Len(nodes_queue') = Len(nodes_queue) /\ UNCHANGED <<waiting, woken>>
    BY <1>1, <1>4, RepushedLemma DEF ConfigResponseSent, TypeOK
  <2> QED BY <2>1 DEF NoLostWakeup
<1>5. ASSUME NEW i \in Input, ReceiveInput(i) \/ SendFails(i)
      PROVE  NoLostWakeup'
  BY <1>1, <1>5, DispatchWakes DEF ReceiveInput, SendFails
<1>6. ASSUME NEW i \in Input, SendSucceeds(i)
      PROVE  NoLostWakeup'
  <2>1. target[i] \in Node
    BY <1>6 DEF WriterInv, WritersHaveNode, Writing, SendSucceeds
  <2> QED BY <1>1, <1>6, <2>1, PushWakes DEF SendSucceeds
<1>7. ASSUME NEW n \in Node, ConfigureSucceeds(n)
      PROVE  NoLostWakeup'
  BY <1>1, <1>7, PushWakes DEF ConfigureSucceeds
<1>8. ASSUME PopResumes
      PROVE  NoLostWakeup'
  <2>1. CASE nodes_queue = <<>>
    BY <1>8, <2>1 DEF PopResumes, NoLostWakeup
  <2>2. CASE nodes_queue # <<>>
    <3>1. Len(nodes_queue') = Len(nodes_queue) - 1
      BY <1>1, <1>8, <2>2, PopLemma DEF PopResumes, TypeOK
    <3>2. Len(woken') = Len(woken) - 1 /\ UNCHANGED waiting
      BY <1>1, <1>8, <2>2 DEF PopResumes, TypeOK
    <3>3. Len(nodes_queue) \in Nat /\ Len(woken) \in Nat
      BY <1>1 DEF TypeOK
    <3> QED BY <3>1, <3>2, <3>3 DEF NoLostWakeup
  <2> QED BY <2>1, <2>2
<1> QED BY <1>2, <1>3, <1>4, <1>5, <1>6, <1>7, <1>8, StepKinds

(* While an input waits for a node, as many coroutines are on their way to *)
(* the pool as it has ready nodes: a wake-up is never lost, whatever the   *)
(* order of pushes, pops and retries (Queue.hpp, Stack.hpp).               *)
THEOREM SessionNoLostWakeup == Spec => []NoLostWakeup
<1>1. Init => NoLostWakeup
  BY DEF Init, NoLostWakeup
<1>2. WriterInv /\ NoLostWakeup /\ [Next]_vars => NoLostWakeup'
  BY WakeupStep
<1> QED BY <1>1, <1>2, SessionWriterInv, PTL DEF Spec

-----------------------------------------------------------------------------
(* Dropped nodes. *)

(* A step that only takes nodes out of the pool, for writes, brings none   *)
(* back.                                                                   *)
LEMMA PoolShrinks ==
    ASSUME Elements(nodes_queue') \subseteq Elements(nodes_queue),
           \A i \in Writing' : \/ i \in Writing /\ target'[i] = target[i]
                               \/ target'[i] \in Elements(nodes_queue)
    PROVE  NoNodeComesBack
  BY DEF NoNodeComesBack, InUse, Elements

(* _dispatch_input and the resumption of async_pop are such steps.         *)
LEMMA TakeBringsNoneBack ==
    ASSUME TypeOK, NEW i \in Input, nodes_queue # <<>>,
           nodes_queue' = Pop(nodes_queue),
           target' = [target EXCEPT ![i] = Head(nodes_queue)],
           stage' = [stage EXCEPT ![i] = "write"]
    PROVE  NoNodeComesBack
<1>1. /\ Elements(nodes_queue') \subseteq Elements(nodes_queue)
      /\ Head(nodes_queue) \in Elements(nodes_queue)
  BY PopLemma DEF TypeOK
<1>2. \A j \in Writing' : \/ j \in Writing /\ target'[j] = target[j]
                          \/ target'[j] = Head(nodes_queue)
  BY DEF TypeOK, Writing
<1> QED BY <1>1, <1>2, PoolShrinks

(* _dispatch_input, with a ready node or without. *)
LEMMA DispatchBringsNoneBack ==
    ASSUME TypeOK, NEW i \in Input, NEW popStage \in StageState \ {"write"},
           Dispatch(i, popStage)
    PROVE  NoNodeComesBack
<1>1. CASE nodes_queue # <<>>
  BY <1>1, TakeBringsNoneBack DEF Dispatch
<1>2. CASE nodes_queue = <<>>
  <2>1. /\ UNCHANGED nodes_queue
        /\ stage' = [stage EXCEPT ![i] = popStage]
        /\ target' = [target EXCEPT ![i] = NoNode]
    BY <1>2 DEF Dispatch
  <2>2. \A j \in Writing' : j \in Writing /\ target'[j] = target[j]
    BY <2>1 DEF TypeOK, Writing
  <2>3. Elements(nodes_queue') = Elements(nodes_queue)
    BY <2>1
  <2> QED BY <2>2, <2>3, PoolShrinks
<1> QED BY <1>1, <1>2

(* No step brings a node back into the pool. *)
LEMMA NoStepBringsNodeBack ==
    ASSUME WriterInv, [Next]_vars
    PROVE  NoNodeComesBack
<1>1. TypeOK
  BY DEF WriterInv
<1>2. ASSUME UNCHANGED <<nodes_queue, stage, target>>
      PROVE  NoNodeComesBack
  <2>1. Writing' = Writing /\ Elements(nodes_queue') = Elements(nodes_queue)
    BY <1>2 DEF Writing
  <2> QED BY <1>2, <2>1, PoolShrinks
<1>3. CASE QuietStep
  BY <1>2, <1>3 DEF QuietStep
<1>4. ASSUME NEW c \in FirstOutputSize, ReceiveFirstConfig(c)
      PROVE  NoNodeComesBack
  BY <1>2, <1>4 DEF ReceiveFirstConfig, poolVars, inputVars
<1>5. ASSUME ConfigResponseSent
      PROVE  NoNodeComesBack
  <2>1. nodes_queue' = Repushed(nodes_queue) /\ UNCHANGED <<stage, target>>
    BY <1>5 DEF ConfigResponseSent, inputVars
  <2>2. Elements(nodes_queue') = Elements(nodes_queue) /\ Writing' = Writing
    BY <1>1, <2>1, RepushedLemma DEF TypeOK, Writing
  <2> QED BY <2>1, <2>2, PoolShrinks
<1>6. ASSUME NEW i \in Input, ReceiveInput(i) \/ SendFails(i)
      PROVE  NoNodeComesBack
  <2>1. \E popStage \in StageState \ {"write"} : Dispatch(i, popStage)
    BY <1>6 DEF ReceiveInput, SendFails, StageState
  <2> QED BY <1>1, <2>1, DispatchBringsNoneBack
<1>7. ASSUME NEW i \in Input, SendSucceeds(i)
      PROVE  NoNodeComesBack
  <2>1. /\ i \in Writing /\ target[i] \in Node
        /\ nodes_queue' = Push(nodes_queue, target[i])
        /\ stage' = [stage EXCEPT ![i] = "sent"]
        /\ target' = [target EXCEPT ![i] = NoNode]
    BY <1>7 DEF WriterInv, WritersHaveNode, SendSucceeds, PushNode, Writing
  <2>2. Elements(nodes_queue') = Elements(nodes_queue) \cup {target[i]}
    <3>1. nodes_queue \in Seq(Node) /\ target[i] \in Node
      BY <1>1, <2>1 DEF TypeOK
    <3>2. \A n \in Node : Elements(Push(nodes_queue, n)) = Elements(nodes_queue) \cup {n}
      BY <3>1, PushLemma
    <3> QED BY <2>1, <3>1, <3>2
  <2>3. \A j \in Writing' : j \in Writing /\ target'[j] = target[j]
    BY <1>1, <2>1 DEF TypeOK, Writing
  <2> QED BY <2>1, <2>2, <2>3 DEF NoNodeComesBack, InUse, Elements
<1>8. ASSUME PopResumes
      PROVE  NoNodeComesBack
  <2>1. CASE nodes_queue = <<>>
    BY <1>2, <1>8, <2>1 DEF PopResumes, inputVars
  <2>2. CASE nodes_queue # <<>>
    <3>1. Head(woken) \in Input
      BY <1>1, <1>8 DEF PopResumes, TypeOK
    <3> QED BY <1>1, <1>8, <2>2, <3>1, TakeBringsNoneBack DEF PopResumes
  <2> QED BY <2>1, <2>2
<1>9. ASSUME NEW n \in Node, ConfigureSucceeds(n)
      PROVE  NoNodeComesBack
  <2>1. /\ nodes_queue' = Push(nodes_queue, n) /\ UNCHANGED <<stage, target>>
        /\ task[n] = "config_wait" /\ task'[n] = "configured"
    BY <1>1, <1>9 DEF ConfigureSucceeds, PushNode, TypeOK, inputVars
  <2>2. Elements(nodes_queue') = Elements(nodes_queue) \cup {n} /\ Writing' = Writing
    <3>1. nodes_queue \in Seq(Node)
      BY <1>1 DEF TypeOK
    <3>2. Elements(Push(nodes_queue, n)) = Elements(nodes_queue) \cup {n}
      BY <3>1, PushLemma
    <3> QED BY <2>1, <3>2 DEF Writing
  <2> QED BY <2>1, <2>2 DEF NoNodeComesBack, InUse, Elements
<1>10. ASSUME NEW n \in Node, ReceiverSent(n)
       PROVE  NoNodeComesBack
  <2>1. /\ UNCHANGED <<nodes_queue, target>>
        /\ stage' = [stage EXCEPT ![received[n]] = "answered"]
    BY <1>10 DEF ReceiverSent, poolVars
  <2>2. Writing' \subseteq Writing /\ Elements(nodes_queue') = Elements(nodes_queue)
    BY <1>1, <2>1 DEF TypeOK, Writing
  <2> QED BY <2>1, <2>2, PoolShrinks
<1> QED BY <1>3, <1>4, <1>5, <1>6, <1>7, <1>8, <1>9, <1>10, StepKinds

(* Once a node has left the pool because a write to it failed, or was not  *)
(* configured, it gets no further input (_send_input_to_node).             *)
THEOREM SessionDroppedNodeStaysOut == Spec => DroppedNodeStaysOut
<1>1. WriterInv /\ [Next]_vars => [NoNodeComesBack]_vars
  BY NoStepBringsNodeBack
<1> QED BY <1>1, SessionWriterInv, PTL DEF Spec, DroppedNodeStaysOut
=============================================================================
