----------------------- MODULE UserSessionCounterProofs -----------------------
(***************************************************************************)
(* What the counters of a session count, whatever their memory held before *)
(* it.  As long as no incr() passes UIntMax the session waits for all that *)
(* is in progress, so it implements the service its user sees; and how far *)
(* a session can go wrong is told by what fails in it.                     *)
(***************************************************************************)
EXTENDS UserSessionInputProofs, UserSessionRefinement

(* What a new Counter may hold leaves room for what it is to count. *)
CountersFit ==
    \A garbage \in Garbage : /\ garbage + Cardinality(Node) <= UIntMax
                             /\ garbage + Cardinality(Input) <= UIntMax

-----------------------------------------------------------------------------
(* The invariant, counter by counter. *)

(* The main coroutine dispatches one input at most, and none before the    *)
(* first configuration is answered.                                        *)
DispatchInv ==
    /\ \A i \in Input : stage[i] = "main_pop" => pc = "dispatch"
    /\ \A i, j \in Input : stage[i] = "main_pop" /\ stage[j] = "main_pop" => i = j
    /\ pc \in Early => Pending = {}

(* config_counter counts while _configure_nodes runs, and no coroutine of  *)
(* its outlives it.                                                        *)
ConfigCountInv ==
    /\ pc \in {"configuring", "config_resp"} =>
           ConfigOffset \in Garbage
    /\ pc # "configuring" => Configuring = {}
    /\ fault # "dangling_counter"

(* _data_counter counts, and the loops are stopped once it is zero. *)
DataCountInv ==
    /\ DataOffset \in Garbage
    /\ pc = "join" => Pending = {}

(* _node_receiver_counter counts. *)
LoopCountInv == LoopOffset \in Garbage

CountInv == PlaceInv /\ DispatchInv /\ ConfigCountInv /\ DataCountInv /\ LoopCountInv

-----------------------------------------------------------------------------
(* Counting. *)

(* What the counters count is finite. *)
LEMMA Finiteness ==
    /\ IsFiniteSet(Configuring) /\ Cardinality(Configuring) \in Nat
    /\ IsFiniteSet(Pending) /\ Cardinality(Pending) \in Nat
    /\ Cardinality(Pending) <= Cardinality(Input)
    /\ IsFiniteSet(Receiving) /\ Cardinality(Receiving) \in Nat
    /\ Cardinality(Node) \in Nat /\ Cardinality(Input) \in Nat
<1>1. /\ Configuring \in SUBSET Node /\ Receiving \in SUBSET Node
      /\ Pending \in SUBSET Input
  BY DEF Configuring, Receiving, Pending
<1>2. IsFiniteSet(Configuring) /\ IsFiniteSet(Receiving)
  BY <1>1, FS_Subset, NodeAssumption
<1>3. IsFiniteSet(Pending) /\ Cardinality(Pending) <= Cardinality(Input)
  BY <1>1, FS_Subset, InputAssumption
<1> QED BY <1>2, <1>3, FS_CardinalityType, NodeAssumption, InputAssumption

(* Without a wrap around, incr adds. *)
LEMMA IncrByAdds ==
    ASSUME NEW val \in Nat, NEW k \in Nat, val + k <= UIntMax
    PROVE  IncrBy(val, k) = val + k
  BY UIntMaxAssumption DEF IncrBy

(* A sequence without repetitions has as many items as it is long. *)
LEMMA DistinctCount ==
    ASSUME NEW S, IsFiniteSet(S), NEW q \in Seq(S), Distinct(q)
    PROVE  /\ Cardinality(Elements(q)) = Len(q)
           /\ Len(q) <= Cardinality(S)
<1>1. Len(q) \in Nat /\ q \in [1 .. Len(q) -> S]
  OBVIOUS
<1>2. IsFiniteSet(1 .. Len(q)) /\ Cardinality(1 .. Len(q)) = Len(q)
  BY <1>1, FS_Interval
<1>3. q \in [1 .. Len(q) -> Elements(q)]
  BY <1>1 DEF Elements
<1>4. q \in Bijection(1 .. Len(q), Elements(q))
  <2>1. \A x, y \in 1 .. Len(q) : q[x] = q[y] => x = y
    BY DEF Distinct
  <2>2. \A e \in Elements(q) : \E k \in 1 .. Len(q) : q[k] = e
    BY DEF Elements
  <2> QED BY <1>3, <2>1, <2>2 DEF Bijection, Injection, IsInjective, Surjection
<1>5. Cardinality(Elements(q)) = Len(q)
  BY <1>2, <1>4, FS_Bijection DEF ExistsBijection
<1>6. Elements(q) \in SUBSET S
  BY <1>1 DEF Elements
<1> QED BY <1>5, <1>6, FS_Subset

(* What a counter holds is a number. *)
LEMMA CounterNumbers ==
    /\ Garbage \subseteq Nat
    /\ TypeOK => /\ config_counter \in Nat /\ data_counter \in Nat
                 /\ node_receiver_counter \in Nat
  BY GarbageAssumption, UIntMaxAssumption DEF TypeOK, UInt

(* Counting one off. *)
LEMMA DecrCounts ==
    ASSUME NEW S, IsFiniteSet(S), NEW x \in S,
           NEW val \in Nat, val - Cardinality(S) \in Nat
    PROVE  Decr(val) - Cardinality(S \ {x}) = val - Cardinality(S)
<1>1. Cardinality(S) \in Nat /\ Cardinality(S) # 0
  BY FS_CardinalityType, FS_EmptySet
<1>2. Cardinality(S \ {x}) = Cardinality(S) - 1
  BY FS_RemoveElement
<1> QED BY <1>1, <1>2 DEF Decr

(* A counter at zero has nothing to count. *)
LEMMA ZeroCountsNothing ==
    ASSUME NEW S, IsFiniteSet(S), 0 - Cardinality(S) \in Garbage
    PROVE  S = {} /\ 0 \in Garbage
<1>1. Cardinality(S) \in Nat /\ 0 - Cardinality(S) \in Nat
  BY FS_CardinalityType, CounterNumbers
<1>2. Cardinality(S) = 0
  BY <1>1
<1> QED BY <1>2, FS_EmptySet

-----------------------------------------------------------------------------
(* The main coroutine waits for one node at most. *)

(* The input that a loop passes on was sent. *)
LEMMA AnsweredWasSent ==
    ASSUME PlaceInv, NEW n \in Node, ReceiverSent(n)
    PROVE  \E i \in Input : i = received[n] /\ stage[i] = "sent"
<1>1. received[n] \in Input
  BY DEF ReceiverSent, PlaceInv, WriterInv, LoopInv, TypeOK
<1>2. received[n] \in Hands(n)
  BY <1>1, InputAssumption DEF Hands
<1> QED BY <1>1, <1>2 DEF PlaceInv, HandsInv

(* A pop that lets the main coroutine go on finds it dispatching. *)
LEMMA PopMain ==
    ASSUME PlaceInv, DispatchInv, PopResumes
    PROVE  /\ pc' = pc \/ (pc = "dispatch" /\ pc' = "loop")
           /\ \/ UNCHANGED stage /\ pc' = pc
              \/ \E i \in Input : /\ stage[i] \in Popping
                                  /\ stage' = [stage EXCEPT ![i] = "write"]
                                  /\ pc' = IF stage[i] = "main_pop" THEN "loop" ELSE pc
<1>1. CASE nodes_queue = <<>>
  BY <1>1 DEF PopResumes, inputVars
<1>2. CASE nodes_queue # <<>>
  <2>1. Head(woken) \in Input /\ stage[Head(woken)] \in Popping
    BY <1>2, PopWaits DEF PlaceInv, WriterInv
  <2> QED BY <1>2, <2>1 DEF PopResumes, DispatchInv, Popping
<1> QED BY <1>1, <1>2

(* The main coroutine dispatches one input at most, after every step. *)
LEMMA DispatchStep ==
    ASSUME PlaceInv, DispatchInv, [Next]_vars
    PROVE  DispatchInv'
<1>0. TypeOK
  BY DEF PlaceInv, WriterInv
<1> USE DEF DispatchInv, Early, Pending
<1>1. CASE UNCHANGED vars \/ PeerStep \/ TouchesDestroyedUser
  BY <1>1 DEF vars, mainVars, inputVars, TouchesDestroyedUser, PeerStep, NodeProcesses,
              NodeFails, UserCloses
<1>2. ASSUME NEW c \in FirstOutputSize, ReceiveFirstConfig(c)
      PROVE  DispatchInv'
  BY <1>2 DEF ReceiveFirstConfig, inputVars
<1>3. CASE FirstConfigFails \/ ConfigWaitZero \/ ConfigResponseSent \/ ConfigResponseFails
              \/ Drained \/ Joined \/ ReceiveFails \/ ReceiveInvalid
  BY <1>3 DEF FirstConfigFails, ConfigWaitZero, ConfigResponseSent, ConfigResponseFails,
              Drained, Joined, ReceiveFails, ReceiveInvalid, GoTo, inputVars
<1>4. ASSUME NEW c \in NewOutputSize, ReceiveConfig(c)
      PROVE  DispatchInv'
  BY <1>4 DEF ReceiveConfig, inputVars
<1>5. ASSUME NEW i \in Input, ReceiveInput(i)
      PROVE  DispatchInv'
  <2>1. \A j \in Input \ {i} : stage'[j] = stage[j] /\ stage[j] # "main_pop"
    BY <1>0, <1>5 DEF ReceiveInput, Dispatch, TypeOK
  <2>2. \/ pc' = "loop" /\ stage'[i] = "write"
        \/ pc' = "dispatch" /\ stage'[i] = "main_pop"
    BY <1>0, <1>5 DEF ReceiveInput, Dispatch, TypeOK
  <2> QED BY <2>1, <2>2
<1>6. ASSUME NEW i \in Input, SendSucceeds(i) \/ SendFails(i)
      PROVE  DispatchInv'
  <2>1. \A j \in Input \ {i} : stage'[j] = stage[j]
    BY <1>0, <1>6 DEF SendSucceeds, SendFails, Dispatch, TypeOK
  <2>2. /\ stage[i] = "write" /\ stage'[i] \in {"sent", "write", "retry_pop"} /\ UNCHANGED pc
    BY <1>0, <1>6 DEF SendSucceeds, SendFails, Dispatch, TypeOK, mainVars
  <2> QED BY <2>1, <2>2
<1>7. CASE PopResumes
  <2>1. CASE UNCHANGED stage /\ pc' = pc
    BY <2>1
  <2>2. ASSUME NEW i \in Input, stage[i] \in Popping, stage' = [stage EXCEPT ![i] = "write"],
               pc' = IF stage[i] = "main_pop" THEN "loop" ELSE pc
        PROVE  DispatchInv'
    <3>1. /\ stage'[i] = "write"
          /\ \A j \in Input \ {i} : stage'[j] = stage[j]
      BY <1>0, <2>2 DEF TypeOK
    <3> QED BY <2>2, <3>1 DEF Popping
  <2> QED BY <1>7, <2>1, <2>2, PopMain
<1>8. ASSUME NEW n \in Node, NodeTaskStep(n), ~ReceiverSent(n)
      PROVE  DispatchInv'
  BY <1>8 DEF NodeTaskStep, ConfigureSend, ConfigureSucceeds, ConfigureFails, ReceiverReads,
              ReceiverAccepts, ReceiverRejects, ReceiverSendFails, ReceiverEof,
              ReceiverCancelled, ReceiverExits, mainVars, inputVars
<1>9. ASSUME NEW n \in Node, ReceiverSent(n)
      PROVE  DispatchInv'
  <2>1. PICK i \in Input : i = received[n] /\ stage[i] = "sent"
    BY <1>9, AnsweredWasSent
  <2>2. stage' = [stage EXCEPT ![i] = "answered"] /\ UNCHANGED pc
    BY <1>9, <2>1 DEF ReceiverSent, mainVars
  <2> QED BY <1>0, <2>1, <2>2 DEF TypeOK
<1> QED BY <1>1, <1>2, <1>3, <1>4, <1>5, <1>6, <1>7, <1>8, <1>9
        DEF Next, MainStep, SendStep

-----------------------------------------------------------------------------
(* The configurations. *)

(* Every step keeps the count of the configurations in progress. *)
LEMMA ConfigCountStep ==
    ASSUME CountInv, [Next]_vars, [IncrsAdd]_vars
    PROVE  /\ ConfigCountInv'
           /\ {pc, pc'} \subseteq {"configuring", "config_resp"} =>
                  ConfigOffset' = ConfigOffset
<1> DEFINE Goal == /\ ConfigCountInv'
                   /\ {pc, pc'} \subseteq {"configuring", "config_resp"} =>
                          ConfigOffset' = ConfigOffset
<1> SUFFICES Goal
  OBVIOUS
<1> USE DEF ConfigCountInv, ConfigOffset
<1>0. ConfigCountInv /\ TypeOK
  BY DEF CountInv, PlaceInv, WriterInv
<1>1. CASE UNCHANGED vars
  BY <1>0, <1>1 DEF vars, mainVars, counterVars, taskVars, Configuring
<1>2. ASSUME NEW c \in FirstOutputSize, ReceiveFirstConfig(c)
      PROVE  Goal
  <2>1. Configuring' = Node /\ pc' = "configuring" /\ UNCHANGED fault
    BY <1>2 DEF ReceiveFirstConfig, Configuring
  <2>2. config_counter' - Cardinality(Node) \in Garbage /\ pc # "configuring"
    BY <1>2 DEF ReceiveFirstConfig, IncrsAdd, vars, mainVars
  <2> QED BY <1>0, <1>2, <2>1, <2>2 DEF ReceiveFirstConfig
<1>3. CASE FirstConfigFails \/ Joined \/ ReceiveFails \/ ReceiveInvalid
  BY <1>0, <1>3 DEF FirstConfigFails, Joined, ReceiveFails, ReceiveInvalid, GoTo, counterVars,
                    taskVars, Configuring
<1>4. CASE ConfigWaitZero
  <2>1. /\ pc = "configuring" /\ config_counter = 0 /\ pc' = "config_resp"
        /\ UNCHANGED <<config_counter, task, fault>>
    BY <1>4 DEF ConfigWaitZero, GoTo, counterVars, taskVars
  <2>2. Configuring = {}
    BY <1>0, <2>1, ZeroCountsNothing, Finiteness
  <2> QED BY <1>0, <2>1, <2>2 DEF Configuring
<1>5. CASE ConfigResponseSent \/ ConfigResponseFails
  <2>1. /\ pc = "config_resp" /\ pc' \in {"loop", "ended"} /\ UNCHANGED fault
        /\ Configuring' \subseteq Configuring
    BY <1>0, <1>5 DEF ConfigResponseSent, ConfigResponseFails, GoTo, taskVars, Configuring, TypeOK
  <2> QED BY <1>0, <2>1
<1>6. ASSUME NEW i \in Input, ReceiveInput(i) \/ SendSucceeds(i) \/ SendFails(i)
      PROVE  Goal
  BY <1>0, <1>6 DEF ReceiveInput, SendSucceeds, SendFails, mainVars, counterVars, taskVars,
                    Configuring
<1>7. CASE PopResumes
  <2>1. /\ UNCHANGED <<config_counter, task>>
        /\ pc' = pc \/ (pc = "dispatch" /\ pc' = "loop")
        /\ fault' \in {fault, "pop_empty"}
    BY <1>7, PopMain DEF CountInv, PopResumes, counterVars, taskVars
  <2> QED BY <1>0, <2>1 DEF Configuring
<1>8. ASSUME NEW c \in NewOutputSize, ReceiveConfig(c)
      PROVE  Goal
  BY <1>0, <1>8 DEF ReceiveConfig, counterVars, taskVars, Configuring
<1>9. CASE Drained
  <2>1. Configuring' = Configuring
    BY <1>0, <1>9 DEF Drained, TypeOK, Configuring
  <2> QED BY <1>0, <1>9, <2>1 DEF Drained, counterVars
<1>10. CASE TouchesDestroyedUser
  BY <1>0, <1>10 DEF TouchesDestroyedUser, mainVars, counterVars, taskVars, Configuring
<1>11. CASE PeerStep
  BY <1>0, <1>11 DEF PeerStep, NodeProcesses, NodeFails, UserCloses, mainVars, counterVars,
                     taskVars, Configuring
<1>12. ASSUME NEW n \in Node, ConfigureSend(n)
       PROVE  Goal
  <2>1. Configuring' = Configuring
    BY <1>0, <1>12 DEF ConfigureSend, TypeOK, Configuring
  <2> QED BY <1>0, <1>12, <2>1 DEF ConfigureSend, mainVars, counterVars
<1>13. ASSUME NEW n \in Node, ConfigureSucceeds(n) \/ ConfigureFails(n)
       PROVE  Goal
  <2>1. /\ task[n] \in {"config_send", "config_wait"} /\ UNCHANGED pc
        /\ task' \in {[task EXCEPT ![n] = "configured"], [task EXCEPT ![n] = "failed"]}
        /\ ConfigCounterDecr
    BY <1>13 DEF ConfigureSucceeds, ConfigureFails, mainVars
  <2>2. n \in Configuring /\ Configuring' = Configuring \ {n}
    BY <1>0, <2>1 DEF Configuring, TypeOK
  <2>3. pc = "configuring" /\ ConfigOffset \in Garbage /\ ConfigOffset \in Nat
    <3>1. pc = "configuring"
      BY <1>0, <2>2
    <3>2. ConfigOffset \in Garbage
      BY <1>0, <3>1
    <3> HIDE DEF ConfigOffset
    <3> QED BY <3>1, <3>2, CounterNumbers
  <2>4. config_counter' = Decr(config_counter) /\ UNCHANGED fault
    BY <2>1, <2>3 DEF ConfigCounterDecr
  <2>5. ConfigOffset' = ConfigOffset
    BY <1>0, <2>2, <2>3, <2>4, DecrCounts, Finiteness, CounterNumbers
  <2> QED BY <1>0, <2>1, <2>2, <2>3, <2>4, <2>5
<1>14. ASSUME NEW n \in Node, ReceiverReads(n) \/ ReceiverAccepts(n) \/ ReceiverSent(n)
       PROVE  Goal
  <2>1. Configuring' = Configuring
    BY <1>0, <1>14 DEF ReceiverReads, ReceiverAccepts, ReceiverSent, TypeOK, Configuring
  <2> QED BY <1>0, <1>14, <2>1 DEF ReceiverReads, ReceiverAccepts, ReceiverSent, mainVars,
                                   counterVars
<1>15. ASSUME NEW n \in Node,
              ReceiverRejects(n) \/ ReceiverSendFails(n) \/ ReceiverEof(n) \/ ReceiverCancelled(n)
       PROVE  Goal
  <2>1. ReceiverExits(n) /\ task[n] \in {"got", "send", "recv", "cancelled"}
    BY <1>15 DEF ReceiverRejects, ReceiverSendFails, ReceiverEof, ReceiverCancelled
  <2>2. Configuring' = Configuring
    BY <1>0, <2>1 DEF ReceiverExits, TypeOK, Configuring
  <2> QED BY <1>0, <2>1, <2>2 DEF ReceiverExits, mainVars
<1> QED BY <1>1, <1>2, <1>3, <1>4, <1>5, <1>6, <1>7, <1>8, <1>9, <1>10, <1>11, <1>12, <1>13,
           <1>14, <1>15
        DEF Next, MainStep, SendStep, NodeTaskStep

-----------------------------------------------------------------------------
(* The inputs. *)

(* No input is accepted or answered. *)
LEMMA PendingStill ==
    ASSUME \A i \in Input : stage'[i] \in {"new", "answered"}
                               <=> stage[i] \in {"new", "answered"}
    PROVE  Pending' = Pending
  BY DEF Pending

(* An accepted input is counted. *)
LEMMA AcceptCounts ==
    ASSUME TypeOK, NEW i \in Input, ReceiveInput(i)
    PROVE  /\ Cardinality(Pending') = Cardinality(Pending) + 1
           /\ data_counter' = IncrBy(data_counter, 1)
<1>1. /\ \A j \in Input \ {i} : stage'[j] = stage[j]
      /\ stage[i] = "new" /\ stage'[i] \in {"write", "main_pop"}
      /\ data_counter' = IncrBy(data_counter, 1)
  BY DEF ReceiveInput, Dispatch, TypeOK, Incr
<1>2. i \notin Pending /\ Pending' = Pending \cup {i}
  BY <1>1 DEF Pending
<1> QED BY <1>1, <1>2, FS_AddElement, Finiteness

(* Every step keeps the count of the inputs in progress. *)
LEMMA DataCountStep ==
    ASSUME CountInv, [Next]_vars, [IncrsAdd]_vars
    PROVE  DataCountInv' /\ DataOffset' = DataOffset
<1>0. DataCountInv /\ TypeOK /\ PlaceInv /\ DispatchInv
  BY DEF CountInv, PlaceInv, WriterInv
<1> DEFINE Goal == DataOffset' = DataOffset /\ (pc' = "join" => Pending' = {})
<1> SUFFICES Goal
  BY <1>0 DEF DataCountInv
<1> USE DEF DataCountInv, DataOffset
<1>a. ASSUME Pending' = Pending, UNCHANGED data_counter, pc' = "join" => pc = "join"
      PROVE  Goal
  BY <1>0, <1>a
<1>1. CASE UNCHANGED vars \/ PeerStep \/ TouchesDestroyedUser
  BY <1>a, <1>1, PendingStill DEF vars, mainVars, inputVars, counterVars,
              TouchesDestroyedUser, PeerStep, NodeProcesses, NodeFails, UserCloses
<1>2. ASSUME NEW c \in FirstOutputSize, ReceiveFirstConfig(c)
      PROVE  Goal
  BY <1>a, <1>2, PendingStill DEF ReceiveFirstConfig, inputVars
<1>3. CASE FirstConfigFails \/ ConfigWaitZero \/ ConfigResponseSent \/ ConfigResponseFails
              \/ Joined \/ ReceiveFails \/ ReceiveInvalid
  BY <1>a, <1>3, PendingStill DEF FirstConfigFails, ConfigWaitZero, ConfigResponseSent,
              ConfigResponseFails, Joined, ReceiveFails, ReceiveInvalid, GoTo, inputVars,
              counterVars
<1>4. ASSUME NEW c \in NewOutputSize, ReceiveConfig(c)
      PROVE  Goal
  BY <1>a, <1>4, PendingStill DEF ReceiveConfig, inputVars, counterVars
<1>5. ASSUME NEW i \in Input, ReceiveInput(i)
      PROVE  Goal
  <2>1. Cardinality(Pending') = Cardinality(Pending) + 1
    BY <1>0, <1>5, AcceptCounts
  <2>2. data_counter' = data_counter + 1
    BY <1>0, <1>5 DEF IncrsAdd, vars, inputVars, ReceiveInput, Dispatch, TypeOK
  <2>3. pc' # "join"
    BY <1>5 DEF ReceiveInput
  <2> QED BY <1>0, <2>1, <2>2, <2>3, Finiteness DEF TypeOK, UInt
<1>6. ASSUME NEW i \in Input, SendSucceeds(i) \/ SendFails(i)
      PROVE  Goal
  <2>1. \A j \in Input \ {i} : stage'[j] = stage[j]
    BY <1>0, <1>6 DEF SendSucceeds, SendFails, Dispatch, TypeOK
  <2>2. /\ stage[i] = "write" /\ stage'[i] \in {"sent", "write", "retry_pop"}
        /\ UNCHANGED <<pc, data_counter>>
    BY <1>0, <1>6 DEF SendSucceeds, SendFails, Dispatch, TypeOK, mainVars, counterVars
  <2> QED BY <1>a, <2>1, <2>2, PendingStill
<1>7. CASE PopResumes
  <2>1. UNCHANGED data_counter /\ (pc' = "join" => pc = "join")
    BY <1>0, <1>7, PopMain DEF PopResumes, counterVars
  <2>2. Pending' = Pending
    <3>1. CASE UNCHANGED stage
      BY <3>1, PendingStill
    <3>2. ASSUME NEW i \in Input, stage[i] \in Popping, stage' = [stage EXCEPT ![i] = "write"]
          PROVE  Pending' = Pending
      BY <1>0, <3>2, PendingStill DEF TypeOK, Popping
    <3> QED BY <1>0, <1>7, <3>1, <3>2, PopMain
  <2> QED BY <1>a, <2>1, <2>2
<1>8. CASE Drained
  <2>1. data_counter = 0 /\ UNCHANGED <<stage, data_counter>>
    BY <1>8 DEF Drained, inputVars, counterVars
  <2>2. Pending = {} /\ Pending' = {}
    BY <1>0, <2>1, ZeroCountsNothing, Finiteness DEF Pending
  <2> QED BY <1>0, <2>1, <2>2
<1>9. ASSUME NEW n \in Node, NodeTaskStep(n), ~ReceiverSent(n)
      PROVE  Goal
  BY <1>a, <1>9, PendingStill DEF NodeTaskStep, ConfigureSend, ConfigureSucceeds,
              ConfigureFails, ReceiverReads, ReceiverAccepts, ReceiverRejects,
              ReceiverSendFails, ReceiverEof, ReceiverCancelled, ReceiverExits, mainVars,
              inputVars, counterVars
<1>10. ASSUME NEW n \in Node, ReceiverSent(n)
       PROVE  Goal
  <2>1. PICK i \in Input : i = received[n] /\ stage[i] = "sent"
    BY <1>0, <1>10, AnsweredWasSent
  <2>2. /\ stage' = [stage EXCEPT ![i] = "answered"] /\ UNCHANGED pc
        /\ data_counter' = Decr(data_counter)
    BY <1>10, <2>1 DEF ReceiverSent, mainVars
  <2>3. i \in Pending /\ Pending' = Pending \ {i}
    BY <1>0, <2>1, <2>2 DEF TypeOK, Pending
  <2>4. DataOffset \in Nat /\ data_counter \in Nat
    <3> HIDE DEF DataOffset
    <3> QED BY <1>0, CounterNumbers
  <2>5. DataOffset' = DataOffset
    BY <2>2, <2>3, <2>4, DecrCounts, Finiteness
  <2> QED BY <1>0, <2>2, <2>3, <2>5
<1> QED BY <1>1, <1>2, <1>3, <1>4, <1>5, <1>6, <1>7, <1>8, <1>9, <1>10
        DEF Next, MainStep, SendStep

-----------------------------------------------------------------------------
(* The receiver loops. *)

(* Every step keeps the count of the receiver loops. *)
LEMMA LoopCountStep ==
    ASSUME CountInv, [Next]_vars, [IncrsAdd]_vars
    PROVE  LoopCountInv' /\ LoopOffset' = LoopOffset
<1>0. LoopCountInv /\ TypeOK /\ PlaceInv
  BY DEF CountInv, PlaceInv, WriterInv
<1> DEFINE Goal == LoopOffset' = LoopOffset
<1> SUFFICES Goal
  BY <1>0 DEF LoopCountInv
<1> USE DEF LoopCountInv, LoopOffset
<1>a. ASSUME UNCHANGED <<task, node_receiver_counter>>
      PROVE  Goal
  BY <1>0, <1>a DEF Receiving
<1>1. CASE UNCHANGED vars \/ PeerStep \/ TouchesDestroyedUser
  BY <1>a, <1>1 DEF vars, taskVars, counterVars, TouchesDestroyedUser, PeerStep,
              NodeProcesses, NodeFails, UserCloses
<1>2. ASSUME NEW c \in FirstOutputSize, ReceiveFirstConfig(c)
      PROVE  Goal
  <2>1. Receiving = {} /\ Receiving' = {} /\ UNCHANGED node_receiver_counter
    BY <1>0, <1>2 DEF ReceiveFirstConfig, Receiving, PlaceInv, LoopInv
  <2> QED BY <1>0, <2>1
<1>3. CASE FirstConfigFails \/ ConfigWaitZero \/ ConfigResponseFails
              \/ Joined \/ ReceiveFails \/ ReceiveInvalid
  BY <1>a, <1>3 DEF FirstConfigFails, ConfigWaitZero, ConfigResponseFails, Joined,
              ReceiveFails, ReceiveInvalid, GoTo, taskVars, counterVars
<1>4. CASE ConfigResponseSent
  <2>1. Receiving = {}
    BY <1>0, <1>4 DEF ConfigResponseSent, PlaceInv, LoopInv
  <2>2. Receiving' = Elements(nodes_queue)
    <3>1. Elements(nodes_queue) \subseteq Node
      BY <1>0, ElementsLemma DEF TypeOK
    <3>2. \A n \in Node : task[n] \notin {"recv", "got", "send", "cancelled"}
      BY <2>1 DEF Receiving
    <3> HIDE DEF Elements
    <3> QED BY <1>4, <3>1, <3>2 DEF ConfigResponseSent, Receiving
  <2>3. node_receiver_counter' = node_receiver_counter + Len(nodes_queue)
    BY <1>4 DEF ConfigResponseSent, IncrsAdd, vars, mainVars
  <2>4. /\ Cardinality(Elements(nodes_queue)) = Len(nodes_queue)
        /\ Len(nodes_queue) <= Cardinality(Node)
    <3>1. nodes_queue \in Seq(Node) /\ Distinct(nodes_queue)
      BY <1>0 DEF PlaceInv, WriterInv, NodeHasOneWriter, TypeOK
    <3> QED BY <3>1, DistinctCount, NodeAssumption
  <2>5. Len(nodes_queue) \in Nat /\ node_receiver_counter \in Nat
    BY <1>0 DEF TypeOK, UInt
  <2>6. Cardinality(Receiving) = 0
    BY <2>1, FS_EmptySet
  <2> QED BY <2>2, <2>3, <2>4, <2>5, <2>6
<1>5. ASSUME NEW c \in NewOutputSize, ReceiveConfig(c)
      PROVE  Goal
  BY <1>a, <1>5 DEF ReceiveConfig, taskVars, counterVars
<1>6. CASE SendStep \/ \E i \in Input : ReceiveInput(i)
  BY <1>a, <1>6 DEF SendStep, PopResumes, SendSucceeds, SendFails, ReceiveInput, taskVars,
              counterVars
<1>7. CASE Drained
  <2>1. Receiving' = Receiving /\ UNCHANGED node_receiver_counter
    BY <1>0, <1>7 DEF Drained, TypeOK, Receiving, counterVars
  <2> QED BY <1>0, <2>1
<1>8. ASSUME NEW n \in Node, ConfigureSend(n) \/ ConfigureSucceeds(n) \/ ConfigureFails(n)
      PROVE  Goal
  <2>1. Receiving' = Receiving /\ UNCHANGED node_receiver_counter
    BY <1>0, <1>8 DEF ConfigureSend, ConfigureSucceeds, ConfigureFails, TypeOK, Receiving,
                      counterVars
  <2> QED BY <1>0, <2>1
<1>9. ASSUME NEW n \in Node, ReceiverReads(n) \/ ReceiverAccepts(n) \/ ReceiverSent(n)
      PROVE  Goal
  <2>1. Receiving' = Receiving /\ UNCHANGED node_receiver_counter
    BY <1>0, <1>9 DEF ReceiverReads, ReceiverAccepts, ReceiverSent, TypeOK, Receiving,
                      counterVars
  <2> QED BY <1>0, <2>1
<1>10. ASSUME NEW n \in Node,
              ReceiverRejects(n) \/ ReceiverSendFails(n) \/ ReceiverEof(n) \/ ReceiverCancelled(n)
       PROVE  Goal
  <2>1. /\ ReceiverExits(n) /\ task[n] \in {"got", "send", "recv", "cancelled"}
    BY <1>10 DEF ReceiverRejects, ReceiverSendFails, ReceiverEof, ReceiverCancelled
  <2>2. /\ n \in Receiving /\ Receiving' = Receiving \ {n}
        /\ node_receiver_counter' = Decr(node_receiver_counter)
    BY <1>0, <2>1 DEF ReceiverExits, TypeOK, Receiving
  <2>3. LoopOffset \in Nat /\ node_receiver_counter \in Nat
    <3> HIDE DEF LoopOffset
    <3> QED BY <1>0, CounterNumbers
  <2> QED BY <2>2, <2>3, DecrCounts, Finiteness
<1> QED BY <1>1, <1>2, <1>3, <1>4, <1>5, <1>6, <1>7, <1>8, <1>9, <1>10
        DEF Next, MainStep, NodeTaskStep

-----------------------------------------------------------------------------
(* What follows. *)

(* The counters hold what their memory held at first. *)
LEMMA CountInit == Init => CountInv
<1> SUFFICES ASSUME Init
             PROVE  CountInv
  OBVIOUS
<1>1. PlaceInv
  BY PlaceInit
<1>2. Configuring = {} /\ Pending = {} /\ Receiving = {}
  BY DEF Init, Configuring, Pending, Receiving
<1>3. DispatchInv /\ ConfigCountInv
  BY <1>2 DEF Init, DispatchInv, ConfigCountInv
<1>4. /\ Cardinality(Pending) = 0 /\ Cardinality(Receiving) = 0
      /\ data_counter \in Garbage /\ data_counter \in Nat
      /\ node_receiver_counter \in Garbage /\ node_receiver_counter \in Nat
  BY <1>2, FS_EmptySet, GarbageAssumption DEF Init, UInt
<1>5. DataOffset = data_counter /\ LoopOffset = node_receiver_counter
  BY <1>4 DEF DataOffset, LoopOffset
<1>6. DataCountInv /\ LoopCountInv
  BY <1>2, <1>4, <1>5 DEF DataCountInv, LoopCountInv
<1> QED BY <1>1, <1>3, <1>6 DEF CountInv

(* Every step in which incr() adds keeps the counters exact. *)
LEMMA CountStep == CountInv /\ [Next]_vars /\ [IncrsAdd]_vars => CountInv'
  BY PlaceStep, DispatchStep, ConfigCountStep, DataCountStep, LoopCountStep DEF CountInv

(* Whatever memory a new Counter finds (Counter.hpp:79), and whatever fails*)
(* in whatever order the coroutines start and end: as long as no incr()    *)
(* passes UIntMax, each counter is what it counts and what it held first.  *)
THEOREM CountersAreExact ==
    Spec /\ NoCounterWraps => []CountersExact /\ CounterOffsetsStay
<1>1. Init => CountInv
  BY CountInit
<1>2. CountInv /\ [Next]_vars /\ [IncrsAdd]_vars => CountInv'
  BY CountStep
<1>3. CountInv => CountersExact
  BY DEF CountInv, ConfigCountInv, DataCountInv, LoopCountInv, CountersExact
<1>4. CountInv /\ [Next]_vars /\ [IncrsAdd]_vars =>
          [/\ {pc, pc'} \subseteq {"configuring", "config_resp"} =>
                  ConfigOffset' = ConfigOffset
           /\ DataOffset' = DataOffset
           /\ LoopOffset' = LoopOffset]_vars
  BY ConfigCountStep, DataCountStep, LoopCountStep
<1> QED BY <1>1, <1>2, <1>3, <1>4, PTL DEF Spec, NoCounterWraps, CounterOffsetsStay

(* A counter with room for what it is to count does not pass UIntMax. *)
LEMMA FittingIncrsAdd ==
    ASSUME CountersFit, CountInv, [Next]_vars
    PROVE  [IncrsAdd]_vars
<1> SUFFICES IncrsAdd
  OBVIOUS
<1>0. TypeOK /\ PlaceInv
  BY DEF CountInv, PlaceInv, WriterInv
<1>1. ASSUME NEW c \in FirstOutputSize, ReceiveFirstConfig(c)
      PROVE  config_counter' - Cardinality(Node) \in Garbage
  <2>1. PICK garbage \in Garbage : config_counter' = IncrBy(garbage, Cardinality(Node))
    BY <1>1 DEF ReceiveFirstConfig
  <2>2. garbage \in Nat /\ garbage + Cardinality(Node) <= UIntMax
    BY GarbageAssumption DEF CountersFit, UInt
  <2>3. config_counter' = garbage + Cardinality(Node)
    BY <2>1, <2>2, IncrByAdds, Finiteness
  <2>4. config_counter' - Cardinality(Node) = garbage
    BY <2>2, <2>3, Finiteness
  <2> QED BY <2>4
<1>2. ASSUME NEW i \in Input, ReceiveInput(i)
      PROVE  data_counter' = data_counter + 1
  <2>1. /\ Cardinality(Pending') = Cardinality(Pending) + 1
        /\ data_counter' = IncrBy(data_counter, 1)
    BY <1>0, <1>2, AcceptCounts
  <2>2. Cardinality(Pending') <= Cardinality(Input)
    <3>1. Pending' \in SUBSET Input
      BY DEF Pending
    <3> QED BY <3>1, FS_Subset, InputAssumption
  <2>3. data_counter \in Nat /\ data_counter - Cardinality(Pending) \in Garbage
    BY <1>0 DEF TypeOK, UInt, CountInv, DataCountInv, DataOffset
  <2>4. data_counter - Cardinality(Pending) + Cardinality(Input) <= UIntMax
    BY <2>3 DEF CountersFit
  <2>5. data_counter + 1 <= UIntMax
    BY <2>1, <2>2, <2>3, <2>4, Finiteness, UIntMaxAssumption
  <2> QED BY <2>1, <2>3, <2>5, IncrByAdds
<1>3. ASSUME ConfigResponseSent
      PROVE  node_receiver_counter' = node_receiver_counter + Len(nodes_queue)
  <2>1. nodes_queue \in Seq(Node) /\ Len(nodes_queue) \in Nat
        /\ Len(nodes_queue) <= Cardinality(Node)
    BY <1>0, DistinctCount, NodeAssumption DEF PlaceInv, WriterInv, NodeHasOneWriter, TypeOK
  <2>2. Cardinality(Receiving) = 0
    BY <1>0, <1>3, FS_EmptySet DEF ConfigResponseSent, PlaceInv, LoopInv
  <2>3. node_receiver_counter \in Nat /\ node_receiver_counter \in Garbage
    BY <1>0, <2>2 DEF TypeOK, UInt, CountInv, LoopCountInv, LoopOffset
  <2>4. node_receiver_counter + Cardinality(Node) <= UIntMax
    BY <2>3 DEF CountersFit
  <2>5. node_receiver_counter + Len(nodes_queue) <= UIntMax
    BY <2>1, <2>3, <2>4, Finiteness, UIntMaxAssumption
  <2> QED BY <1>3, <2>1, <2>3, <2>5, IncrByAdds DEF ConfigResponseSent
<1> QED BY <1>1, <1>2, <1>3 DEF IncrsAdd

(* With 32 bits a counter passes UIntMax only if its memory held almost    *)
(* UIntMax: the theorems on sessions in which none does are about all the  *)
(* others, those whose counters start at zero among them.                  *)
THEOREM FittingCountersDoNotWrap ==
    ASSUME CountersFit
    PROVE  Spec => NoCounterWraps
<1>1. Init => CountInv
  BY CountInit
<1>2. CountInv /\ [Next]_vars => CountInv' /\ [IncrsAdd]_vars
  BY CountStep, FittingIncrsAdd
<1> QED BY <1>1, <1>2, PTL DEF Spec, NoCounterWraps

(* The counter that the completion handlers of _configure_node decrement   *)
(* exists as long as one of them may run, unless it passed UIntMax.        *)
THEOREM ConfigCounterOutlivesHandlers ==
    Spec /\ NoCounterWraps => []NothingDangling
<1>1. Init => CountInv
  BY CountInit
<1>2. CountInv /\ [Next]_vars /\ [IncrsAdd]_vars => CountInv'
  BY CountStep
<1>3. CountInv => NothingDangling
  BY DEF CountInv, ConfigCountInv, NothingDangling
<1> QED BY <1>1, <1>2, <1>3, PTL DEF Spec, NoCounterWraps

(* The session leaves "join" with nothing to do. *)
LEMMA JoinIsClean ==
    ASSUME CountInv, [Next]_vars, pc = "join", pc' = "ended"
    PROVE  Pending = {} /\ ~LiveCoroutine
<1>1. Joined
  <2>1. ~(UNCHANGED vars) /\ ~SendStep /\ ~TouchesDestroyedUser /\ ~PeerStep
    BY PopMain DEF vars, mainVars, SendStep, SendSucceeds, SendFails, TouchesDestroyedUser,
              PeerStep, NodeProcesses, NodeFails, UserCloses, CountInv
  <2>2. \A n \in Node : ~NodeTaskStep(n)
    BY DEF NodeTaskStep, ConfigureSend, ConfigureSucceeds, ConfigureFails, ReceiverReads,
              ReceiverAccepts, ReceiverRejects, ReceiverSent, ReceiverSendFails, ReceiverEof,
              ReceiverCancelled, ReceiverExits, mainVars
  <2>3. MainStep
    BY <2>1, <2>2 DEF Next
  <2> QED BY <2>3 DEF MainStep, ReceiveFirstConfig, FirstConfigFails, ConfigWaitZero,
              ConfigResponseSent, ConfigResponseFails, ReceiveInput, ReceiveConfig, Drained,
              ReceiveFails, ReceiveInvalid
<1>2. Receiving = {}
  BY <1>1, ZeroCountsNothing, Finiteness DEF Joined, CountInv, LoopCountInv, LoopOffset
<1>3. Pending = {} /\ Configuring = {}
  BY DEF CountInv, DataCountInv, ConfigCountInv
<1>4. \A i \in Input : stage[i] \notin {"write", "retry_pop"}
  BY <1>3 DEF Pending
<1> QED BY <1>2, <1>3, <1>4 DEF LiveCoroutine

(* The session that ends through a new configuration has answered every    *)
(* input and left no coroutine behind (_main_loop waits for both counters),*)
(* unless a counter passed UIntMax.                                        *)
THEOREM ReconfigurationEndsClean ==
    Spec /\ NoCounterWraps => ReconfigurationIsClean
<1>1. Init => CountInv
  BY CountInit
<1>2. CountInv /\ [Next]_vars /\ [IncrsAdd]_vars => CountInv'
  BY CountStep
<1>3. CountInv /\ [Next]_vars =>
          [pc = "join" /\ pc' = "ended" => Pending = {} /\ ~LiveCoroutine]_vars
  BY JoinIsClean
<1> QED BY <1>1, <1>2, <1>3, PTL DEF Spec, NoCounterWraps, ReconfigurationIsClean

(* Only the answering of an input counts one off. *)
LEMMA CountedOffByAnswer ==
    ASSUME PlaceInv, [Next]_vars, data_counter' < data_counter,
           \A i \in Input : ~ReceiveInput(i)
    PROVE  \E i \in Input : stage[i] = "sent" /\ stage'[i] = "answered"
<1>0. TypeOK /\ data_counter \in Nat
  BY DEF PlaceInv, WriterInv, TypeOK, UInt
<1>1. ~(UNCHANGED data_counter)
  BY <1>0
<1>2. ~(UNCHANGED vars) /\ ~SendStep /\ ~TouchesDestroyedUser /\ ~PeerStep
  BY <1>1 DEF vars, counterVars, SendStep, PopResumes, SendSucceeds, SendFails,
              TouchesDestroyedUser, PeerStep, NodeProcesses, NodeFails, UserCloses
<1>3. ~MainStep
  BY <1>1 DEF MainStep, ReceiveFirstConfig, FirstConfigFails, ConfigWaitZero,
              ConfigResponseSent, ConfigResponseFails, ReceiveConfig, Drained, Joined,
              ReceiveFails, ReceiveInvalid, GoTo, counterVars
<1>4. PICK n \in Node : NodeTaskStep(n)
  BY <1>2, <1>3 DEF Next
<1>5. ReceiverSent(n)
  BY <1>1, <1>4 DEF NodeTaskStep, ConfigureSend, ConfigureSucceeds, ConfigureFails,
              ReceiverReads, ReceiverAccepts, ReceiverRejects, ReceiverSendFails, ReceiverEof,
              ReceiverCancelled, ReceiverExits, counterVars
<1>6. PICK i \in Input : i = received[n] /\ stage[i] = "sent"
  BY <1>0, <1>5, AnsweredWasSent
<1>7. stage'[i] = "answered"
  BY <1>0, <1>5, <1>6 DEF ReceiverSent, TypeOK
<1> QED BY <1>6, <1>7

(* An accepted input lowers the counter only by passing UIntMax. *)
LEMMA CountedOffByWrap ==
    ASSUME TypeOK, NEW i \in Input, ReceiveInput(i), data_counter' < data_counter
    PROVE  data_counter = UIntMax /\ stage[i] = "new" /\ stage'[i] # "new"
<1>1. data_counter \in Nat /\ data_counter <= UIntMax
  BY UIntMaxAssumption DEF TypeOK, UInt
<1>2. data_counter' = IncrBy(data_counter, 1)
  BY AcceptCounts
<1>3. ~(data_counter + 1 <= UIntMax)
  BY <1>1, <1>2, IncrByAdds
<1>4. data_counter = UIntMax
  BY <1>1, <1>3, UIntMaxAssumption
<1>5. stage[i] = "new" /\ stage'[i] # "new"
  BY DEF ReceiveInput, Dispatch, TypeOK
<1> QED BY <1>4, <1>5

(* A retry, a failed node or a refused output never counts an input off:   *)
(* what the draining of a reconfiguration waits for is the answers.        *)
THEOREM AnswersCountInputsOff == Spec => CountedOffWhenAnswered
<1>1. Init => PlaceInv
  BY PlaceInit
<1>2. PlaceInv /\ [Next]_vars => PlaceInv'
  BY PlaceStep
<1>3. PlaceInv /\ [Next]_vars =>
          [data_counter' < data_counter =>
             \/ \E i \in Input : stage[i] = "sent" /\ stage'[i] = "answered"
             \/ /\ data_counter = UIntMax
                /\ \E i \in Input : stage[i] = "new" /\ stage'[i] # "new"]_vars
  BY CountedOffByAnswer, CountedOffByWrap DEF PlaceInv, WriterInv
<1> QED BY <1>1, <1>2, <1>3, PTL DEF Spec, CountedOffWhenAnswered

-----------------------------------------------------------------------------
(* The service that a session is to its user. *)

(* What the state of a session is to its user. *)
LEMMA SessionBar ==
    ASSUME TypeOK
    PROVE  /\ sessionBar = "opening" <=> pc \in Early
           /\ sessionBar = "open" <=> pc \in {"loop", "dispatch"}
           /\ sessionBar = "draining" <=> pc \in {"drain", "join"}
           /\ sessionBar = "closed" <=> pc = "ended"
           /\ sessionBar \in {"opening", "open", "draining", "closed"}
  BY DEF TypeOK, PcState, Early, sessionBar

(* What the state of an input is to its user. *)
LEMMA StatusBar ==
    /\ statusBar \in [Input -> {"new", "accepted", "answered"}]
    /\ \A i \in Input : /\ statusBar[i] = "new" <=> stage[i] = "new"
                        /\ statusBar[i] = "answered" <=> stage[i] = "answered"
  BY DEF statusBar

(* The status of no input changes, or of one. *)
LEMMA StatusStill ==
    ASSUME \A i \in Input : /\ stage'[i] = "new" <=> stage[i] = "new"
                            /\ stage'[i] = "answered" <=> stage[i] = "answered"
    PROVE  statusBar' = statusBar
  BY DEF statusBar

(* A step on one input changes what the user sees of that one only. *)
LEMMA StatusOfOne ==
    ASSUME NEW i \in Input, NEW value,
           statusBar'[i] = value,
           \A j \in Input \ {i} : stage'[j] = stage[j]
    PROVE  statusBar' = [statusBar EXCEPT ![i] = value]
<1>1. \A j \in Input : statusBar'[j] = IF j = i THEN value ELSE statusBar[j]
  BY DEF statusBar
<1>2. DOMAIN statusBar = Input /\ statusBar' = [j \in Input |-> statusBar'[j]]
  BY DEF statusBar
<1> QED BY <1>1, <1>2

(* A step of the session is a step of the service, or none. *)
LEMMA ServiceStep ==
    ASSUME CountInv, CountInv', [Next]_vars
    PROVE  [Service!Next]_(Service!svars)
<1>0. TypeOK /\ TypeOK' /\ PlaceInv
  BY DEF CountInv, PlaceInv, WriterInv
<1> DEFINE stutter == sessionBar' = sessionBar /\ statusBar' = statusBar
<1>a. stutter => [Service!Next]_(Service!svars)
  BY DEF Service!svars
<1>b. Service!Next => [Service!Next]_(Service!svars)
  OBVIOUS
<1>c. UNCHANGED pc /\ UNCHANGED stage => stutter
  BY StatusStill DEF sessionBar
<1> HIDE DEF stutter
<1>1. CASE UNCHANGED vars \/ PeerStep \/ TouchesDestroyedUser
  BY <1>a, <1>c, <1>1 DEF vars, mainVars, inputVars, PeerStep, NodeProcesses, NodeFails,
              UserCloses, TouchesDestroyedUser
<1>2. CASE ConfigWaitZero \/ Drained \/ \E c \in FirstOutputSize : ReceiveFirstConfig(c)
  <2>1. /\ UNCHANGED stage
        /\ \/ pc \in Early /\ pc' \in Early
           \/ pc = "drain" /\ pc' = "join"
    BY <1>2 DEF ConfigWaitZero, Drained, ReceiveFirstConfig, GoTo, inputVars, Early
  <2>2. statusBar' = statusBar
    BY <2>1, StatusStill
  <2>3. sessionBar' = sessionBar
    BY <2>1 DEF sessionBar, Early
  <2> QED BY <1>a, <2>2, <2>3 DEF stutter
<1>3. CASE ConfigResponseSent
  <2>1. pc \in Early /\ pc' = "loop" /\ UNCHANGED stage
    BY <1>3 DEF ConfigResponseSent, inputVars, Early
  <2>2. sessionBar = "opening" /\ sessionBar' = "open" /\ statusBar' = statusBar
    BY <2>1, StatusStill DEF sessionBar, Early
  <2> QED BY <1>b, <2>2 DEF Service!Next, Service!Open
<1>4. CASE FirstConfigFails \/ ConfigResponseFails \/ ReceiveFails \/ ReceiveInvalid
  <2>1. pc \in Early \cup {"loop"} /\ pc' = "ended" /\ UNCHANGED stage
    BY <1>4 DEF FirstConfigFails, ConfigResponseFails, ReceiveFails, ReceiveInvalid, GoTo,
                inputVars, Early
  <2>2. /\ sessionBar \in {"opening", "open"} /\ sessionBar' = "closed"
        /\ statusBar' = statusBar
    BY <2>1, StatusStill DEF sessionBar, Early
  <2> QED BY <1>b, <2>2 DEF Service!Next, Service!Abort
<1>5. ASSUME NEW c \in NewOutputSize, ReceiveConfig(c)
      PROVE  [Service!Next]_(Service!svars)
  <2>1. pc = "loop" /\ pc' = "drain" /\ UNCHANGED stage
    BY <1>5 DEF ReceiveConfig, inputVars
  <2>2. sessionBar = "open" /\ sessionBar' = "draining" /\ statusBar' = statusBar
    BY <2>1, StatusStill DEF sessionBar
  <2> QED BY <1>b, <2>2 DEF Service!Next, Service!StartDraining
<1>6. CASE Joined
  <2>1. pc = "join" /\ pc' = "ended" /\ UNCHANGED stage
    BY <1>6 DEF Joined, GoTo, inputVars
  <2>2. sessionBar = "draining" /\ sessionBar' = "closed" /\ statusBar' = statusBar
    BY <2>1, StatusStill DEF sessionBar
  <2>3. \A i \in Input : stage[i] \in {"new", "answered"}
    BY <2>1 DEF CountInv, DataCountInv, Pending
  <2>4. Service!Accepted = {}
    BY <2>3, StatusBar DEF Service!Accepted
  <2> QED BY <1>b, <2>2, <2>4 DEF Service!Next, Service!CloseDrained
<1>7. ASSUME NEW i \in Input, ReceiveInput(i)
      PROVE  [Service!Next]_(Service!svars)
  <2>1. /\ pc = "loop" /\ pc' \in {"loop", "dispatch"}
        /\ stage[i] = "new" /\ stage'[i] \in {"write", "main_pop"}
        /\ \A j \in Input \ {i} : stage'[j] = stage[j]
    BY <1>0, <1>7 DEF ReceiveInput, Dispatch, TypeOK
  <2>2. sessionBar = "open" /\ sessionBar' = "open"
    BY <2>1 DEF sessionBar
  <2>3. statusBar[i] = "new" /\ statusBar'[i] = "accepted"
    BY <2>1 DEF statusBar
  <2>4. statusBar' = [statusBar EXCEPT ![i] = "accepted"]
    BY <2>1, <2>3, StatusOfOne
  <2>5. Service!Accept(i)
    BY <2>2, <2>3, <2>4 DEF Service!Accept
  <2> QED BY <1>b, <2>5 DEF Service!Next
<1>8. ASSUME NEW i \in Input, SendSucceeds(i) \/ SendFails(i)
      PROVE  [Service!Next]_(Service!svars)
  <2>1. \A j \in Input \ {i} : stage'[j] = stage[j]
    BY <1>0, <1>8 DEF SendSucceeds, SendFails, Dispatch, TypeOK
  <2>2. /\ stage[i] = "write" /\ stage'[i] \in {"sent", "write", "retry_pop"}
        /\ UNCHANGED pc
    BY <1>0, <1>8 DEF SendSucceeds, SendFails, Dispatch, TypeOK, mainVars
  <2>3. statusBar' = statusBar
    BY <2>1, <2>2, StatusStill
  <2> QED BY <1>a, <2>2, <2>3 DEF stutter, sessionBar
<1>9. CASE PopResumes
  <2>1. sessionBar' = sessionBar
    <3>1. pc' = pc \/ (pc = "dispatch" /\ pc' = "loop")
      BY <1>9, PopMain DEF CountInv
    <3> QED BY <3>1 DEF sessionBar
  <2>2. statusBar' = statusBar
    <3>1. CASE UNCHANGED stage
      BY <3>1, StatusStill
    <3>2. ASSUME NEW i \in Input, stage[i] \in Popping, stage' = [stage EXCEPT ![i] = "write"]
          PROVE  statusBar' = statusBar
      BY <1>0, <3>2, StatusStill DEF TypeOK, Popping
    <3> QED BY <1>9, <3>1, <3>2, PopMain DEF CountInv
  <2> QED BY <1>a, <2>1, <2>2 DEF stutter
<1>10. ASSUME NEW n \in Node, NodeTaskStep(n), ~ReceiverSent(n)
       PROVE  [Service!Next]_(Service!svars)
  <2>1. UNCHANGED pc /\ UNCHANGED stage
    BY <1>10 DEF NodeTaskStep, ConfigureSend, ConfigureSucceeds, ConfigureFails,
              ReceiverReads, ReceiverAccepts, ReceiverRejects, ReceiverSendFails,
              ReceiverEof, ReceiverCancelled, ReceiverExits, mainVars, inputVars
  <2> QED BY <1>a, <1>c, <2>1
<1>11. ASSUME NEW n \in Node, ReceiverSent(n)
       PROVE  [Service!Next]_(Service!svars)
  <2>1. PICK i \in Input : i = received[n] /\ stage[i] = "sent"
    BY <1>0, <1>11, AnsweredWasSent
  <2>2. /\ stage'[i] = "answered" /\ UNCHANGED pc
        /\ \A j \in Input \ {i} : stage'[j] = stage[j]
    BY <1>0, <1>11, <2>1 DEF ReceiverSent, TypeOK, mainVars
  <2>3. pc \notin Early /\ pc # "ended"
    BY <1>11 DEF ReceiverSent, Alive, CountInv, PlaceInv, LoopInv, Receiving, Early
  <2>4. sessionBar \in {"open", "draining"} /\ sessionBar' = sessionBar
    BY <1>0, <2>2, <2>3, SessionBar DEF sessionBar
  <2>5. statusBar[i] = "accepted" /\ statusBar'[i] = "answered"
    BY <2>1, <2>2 DEF statusBar
  <2>6. statusBar' = [statusBar EXCEPT ![i] = "answered"]
    BY <2>2, <2>5, StatusOfOne
  <2>7. Service!Answer(i)
    BY <2>4, <2>5, <2>6 DEF Service!Answer
  <2> QED BY <1>b, <2>7 DEF Service!Next
<1> QED BY <1>1, <1>2, <1>3, <1>4, <1>5, <1>6, <1>7, <1>8, <1>9, <1>10, <1>11
        DEF Next, MainStep, SendStep

(* A session implements the service: no input is answered twice or unasked,*)
(* none is accepted after a new configuration, and a reconfigured session  *)
(* ends with every accepted input answered - unless a counter passed       *)
(* UIntMax.                                                                *)
THEOREM SessionImplementsService ==
    Spec /\ NoCounterWraps => ImplementsService
<1>1. Init => CountInv
  BY CountInit
<1>2. CountInv /\ [Next]_vars /\ [IncrsAdd]_vars => CountInv'
  BY CountStep
<1>3. Init => Service!Init
  BY DEF Init, Service!Init, sessionBar, statusBar
<1>4. CountInv /\ CountInv' /\ [Next]_vars => [Service!Next]_(Service!svars)
  BY ServiceStep
<1> QED BY <1>1, <1>2, <1>3, <1>4, PTL
        DEF Spec, NoCounterWraps, ImplementsService, Service!Spec

-----------------------------------------------------------------------------
(* What has to fail before a session can meet undefined behaviour. *)

(* As long as no write fails only the main coroutine waits for a node, and *)
(* nobody takes the one it was woken for.                                  *)
OnlyMainWaits ==
    /\ fault # "pop_empty"
    /\ \A i \in Input : stage[i] # "retry_pop"
    /\ woken # <<>> => nodes_queue # <<>>

(* The main coroutine alone can be woken, while it dispatches.             *)
LEMMA WokenIsMain ==
    ASSUME PlaceInv, DispatchInv, OnlyMainWaits
    PROVE  /\ pc # "dispatch" => woken = <<>>
           /\ woken # <<>> => Tail(woken) = <<>>
<1>1. woken \in Seq(Input) /\ Len(woken) \in Nat
  BY DEF PlaceInv, WriterInv, TypeOK
<1>2. \A k \in 1 .. Len(woken) : woken[k] \in Input /\ stage[woken[k]] = "main_pop"
  <2> SUFFICES ASSUME NEW k \in 1 .. Len(woken)
               PROVE  woken[k] \in Input /\ stage[woken[k]] = "main_pop"
    OBVIOUS
  <2>1. woken[k] \in Input /\ woken[k] \in Elements(woken)
    BY <1>1 DEF Elements
  <2> QED BY <2>1 DEF PlaceInv, WaitInv, OnlyMainWaits
<1>3. pc # "dispatch" => woken = <<>>
  <2> SUFFICES ASSUME woken # <<>>
               PROVE  pc = "dispatch"
    OBVIOUS
  <2>1. 1 \in 1 .. Len(woken)
    BY <1>1
  <2> QED BY <1>2, <2>1 DEF DispatchInv
<1>4. Len(woken) <= 1
  <2> SUFFICES ASSUME Len(woken) > 1
               PROVE  FALSE
    BY <1>1
  <2>1. 1 \in 1 .. Len(woken) /\ 2 \in 1 .. Len(woken)
    BY <1>1
  <2>2. woken[1] = woken[2]
    BY <1>2, <2>1 DEF DispatchInv
  <2> QED BY <2>1, <2>2 DEF PlaceInv, WaitInv, Distinct
<1>5. woken # <<>> => Tail(woken) = <<>>
  BY <1>1, <1>4
<1> QED BY <1>3, <1>5

(* A node that is pushed is there.                                         *)
LEMMA PushedIsThere ==
    ASSUME TypeOK, NEW n \in Node, PushNode(n)
    PROVE  nodes_queue' # <<>>
<1>1. nodes_queue \in Seq(Node) /\ nodes_queue' = Push(nodes_queue, n)
  BY DEF TypeOK, PushNode
<1>2. Len(nodes_queue') = Len(nodes_queue) + 1
  BY <1>1, PushLemma
<1>3. Len(nodes_queue) \in Nat /\ Len(<<>>) = 0
  BY <1>1
<1> QED BY <1>2, <1>3

(* Every step but a failing write keeps the pool to the main coroutine.    *)
LEMMA OnlyMainWaitsStep ==
    ASSUME PlaceInv, DispatchInv, OnlyMainWaits, [Next]_vars,
           [\A i \in Input : ~SendFails(i)]_vars
    PROVE  OnlyMainWaits'
<1>0. TypeOK /\ WritersHaveNode
  BY DEF PlaceInv, WriterInv
<1> USE DEF OnlyMainWaits
<1>1. CASE UNCHANGED vars
  BY <1>1 DEF vars, poolVars, inputVars
<1>2. CASE FirstConfigFails \/ ConfigWaitZero \/ ConfigResponseFails \/ Drained \/ Joined
              \/ ReceiveFails \/ ReceiveInvalid \/ TouchesDestroyedUser \/ PeerStep
  BY <1>2 DEF FirstConfigFails, ConfigWaitZero, ConfigResponseFails, Drained, Joined,
              ReceiveFails, ReceiveInvalid, TouchesDestroyedUser, PeerStep, NodeProcesses,
              NodeFails, UserCloses, GoTo, poolVars, inputVars
<1>3. ASSUME NEW c, ReceiveFirstConfig(c) \/ ReceiveConfig(c)
      PROVE  OnlyMainWaits'
  BY <1>3 DEF ReceiveFirstConfig, ReceiveConfig, poolVars, inputVars
<1>4. CASE ConfigResponseSent
  <2>1. woken = <<>>
    BY <1>4, WokenIsMain DEF ConfigResponseSent
  <2> QED BY <1>4, <2>1 DEF ConfigResponseSent, inputVars
<1>5. ASSUME NEW i \in Input, ReceiveInput(i)
      PROVE  OnlyMainWaits'
  <2>1. woken = <<>>
    BY <1>5, WokenIsMain DEF ReceiveInput
  <2>2. \A j \in Input : stage'[j] # "retry_pop"
    BY <1>0, <1>5 DEF ReceiveInput, Dispatch, TypeOK
  <2> QED BY <1>5, <2>1, <2>2 DEF ReceiveInput, Dispatch
<1>6. CASE PopResumes
  <2>1. nodes_queue # <<>> /\ woken' = <<>>
    BY <1>6, WokenIsMain DEF PopResumes
  <2>2. \A j \in Input : stage'[j] # "retry_pop"
    BY <1>0, <1>6, <2>1 DEF PopResumes, TypeOK
  <2> QED BY <1>6, <2>1, <2>2 DEF PopResumes
<1>7. ASSUME NEW i \in Input, SendSucceeds(i)
      PROVE  OnlyMainWaits'
  <2>1. nodes_queue' # <<>>
    <3>1. target[i] \in Node
      BY <1>0, <1>7 DEF SendSucceeds, WritersHaveNode, Writing
    <3> QED BY <1>0, <1>7, <3>1, PushedIsThere DEF SendSucceeds
  <2>2. \A j \in Input : stage'[j] # "retry_pop"
    BY <1>0, <1>7 DEF SendSucceeds, TypeOK
  <2> QED BY <1>7, <2>1, <2>2 DEF SendSucceeds
<1>8. ASSUME NEW i \in Input, SendFails(i)
      PROVE  OnlyMainWaits'
  BY <1>1, <1>8
<1>9. ASSUME NEW n \in Node, ConfigureSucceeds(n)
      PROVE  OnlyMainWaits'
  <2>1. nodes_queue' # <<>>
    BY <1>0, <1>9, PushedIsThere DEF ConfigureSucceeds
  <2> QED BY <1>9, <2>1 DEF ConfigureSucceeds, ConfigCounterDecr, inputVars
<1>10. ASSUME NEW n \in Node, NodeTaskStep(n), ~ConfigureSucceeds(n), ~ReceiverSent(n)
       PROVE  OnlyMainWaits'
  BY <1>10 DEF NodeTaskStep, ConfigureSend, ConfigureFails, ConfigCounterDecr, ReceiverReads,
               ReceiverAccepts, ReceiverRejects, ReceiverSendFails, ReceiverEof,
               ReceiverCancelled, ReceiverExits, poolVars, inputVars
<1>11. ASSUME NEW n \in Node, ReceiverSent(n)
       PROVE  OnlyMainWaits'
  <2>1. \A j \in Input : stage'[j] # "retry_pop"
    BY <1>0, <1>11 DEF ReceiverSent, TypeOK
  <2> QED BY <1>11, <2>1 DEF ReceiverSent, poolVars
<1> QED BY <1>1, <1>2, <1>3, <1>4, <1>5, <1>6, <1>7, <1>8, <1>9, <1>10, <1>11
        DEF Next, MainStep, SendStep

(* An async_pop meets an empty container (Queue.hpp:57) only in a session  *)
(* in which the write of an input to a node failed before: whatever memory *)
(* the counters find, whichever nodes refuse their configuration, go down  *)
(* without being written to, and whenever the user leaves.                 *)
THEOREM EmptyPopNeedsFailedWrite ==
    Spec /\ NoWriteFails => []NoPopFromEmpty
<1> DEFINE I == PlaceInv /\ DispatchInv /\ OnlyMainWaits
<1>1. Init => I
  <2>1. Init => PlaceInv /\ DispatchInv
    BY CountInit DEF CountInv
  <2> QED BY <2>1 DEF Init, OnlyMainWaits
<1>2. I /\ [Next]_vars /\ [\A i \in Input : ~SendFails(i)]_vars => I'
  BY PlaceStep, DispatchStep, OnlyMainWaitsStep
<1>3. I => NoPopFromEmpty
  BY DEF OnlyMainWaits, NoPopFromEmpty
<1> QED BY <1>1, <1>2, <1>3, PTL DEF Spec, NoWriteFails

(* The session has ended only with nothing left to run.                    *)
EndsClean ==
    /\ fault # "dangling_user"
    /\ pc = "ended" => ~LiveCoroutine

(* How the main coroutine ends.                                            *)
LEMMA WaysToEnd ==
    ASSUME PlaceInv, DispatchInv, [Next]_vars, pc # "ended", pc' = "ended"
    PROVE  \/ FirstConfigFails \/ ConfigResponseFails \/ Joined
           \/ ReceiveFails \/ ReceiveInvalid
<1>1. ~(UNCHANGED vars) /\ ~SendStep /\ ~TouchesDestroyedUser /\ ~PeerStep
  BY PopMain DEF vars, mainVars, SendStep, SendSucceeds, SendFails, TouchesDestroyedUser,
            PeerStep, NodeProcesses, NodeFails, UserCloses
<1>2. \A n \in Node : ~NodeTaskStep(n)
  BY DEF NodeTaskStep, ConfigureSend, ConfigureSucceeds, ConfigureFails, ReceiverReads,
            ReceiverAccepts, ReceiverRejects, ReceiverSent, ReceiverSendFails, ReceiverEof,
            ReceiverCancelled, ReceiverExits, mainVars
<1>3. MainStep
  BY <1>1, <1>2 DEF Next
<1> QED BY <1>3 DEF MainStep, ReceiveFirstConfig, ConfigWaitZero, ConfigResponseSent,
            ReceiveInput, ReceiveConfig, Drained, GoTo

(* Only what is still to run touches a destroyed User.                     *)
LEMMA WaysToDangle ==
    ASSUME [Next]_vars, fault # "dangling_user", fault' = "dangling_user"
    PROVE  TouchesDestroyedUser
<1>1. ~(UNCHANGED vars) /\ ~MainStep /\ ~SendStep /\ ~PeerStep
  BY DEF vars, MainStep, ReceiveFirstConfig, FirstConfigFails, ConfigWaitZero,
         ConfigResponseSent, ConfigResponseFails, ReceiveInput, ReceiveConfig, Drained,
         Joined, ReceiveFails, ReceiveInvalid, GoTo, SendStep, PopResumes, SendSucceeds,
         SendFails, PeerStep, NodeProcesses, NodeFails, UserCloses
<1>2. \A n \in Node : ~NodeTaskStep(n)
  BY DEF NodeTaskStep, ConfigureSend, ConfigureSucceeds, ConfigureFails, ConfigCounterDecr,
         ReceiverReads, ReceiverAccepts, ReceiverRejects, ReceiverSent, ReceiverSendFails,
         ReceiverEof, ReceiverCancelled, ReceiverExits
<1> QED BY <1>1, <1>2 DEF Next

(* Nothing runs on after the end of the session.                           *)
LEMMA EndedIsStill ==
    ASSUME [Next]_vars, pc = "ended"
    PROVE  UNCHANGED <<task, stage>>
<1>1. ~MainStep /\ ~SendStep /\ ~PeerStep /\ \A n \in Node : ~NodeTaskStep(n)
  BY DEF Alive, MainStep, ReceiveFirstConfig, FirstConfigFails, ConfigWaitZero,
         ConfigResponseSent, ConfigResponseFails, ReceiveInput, ReceiveConfig, Drained,
         Joined, ReceiveFails, ReceiveInvalid, SendStep, PopResumes, SendSucceeds,
         SendFails, PeerStep, NodeProcesses, NodeFails, UserCloses, NodeTaskStep,
         ConfigureSend, ConfigureSucceeds, ConfigureFails, ReceiverReads, ReceiverAccepts,
         ReceiverRejects, ReceiverSent, ReceiverSendFails, ReceiverEof, ReceiverCancelled
<1> QED BY <1>1 DEF Next, vars, taskVars, inputVars, TouchesDestroyedUser

(* Every step of a session whose main loop can read.                       *)
LEMMA EndsCleanStep ==
    ASSUME CountInv, EndsClean, [Next]_vars, [~ReceiveFails /\ ~ReceiveInvalid]_vars
    PROVE  EndsClean'
<1>1. fault' # "dangling_user"
  BY WaysToDangle DEF EndsClean, TouchesDestroyedUser
<1>2. ASSUME pc' = "ended"
      PROVE  ~LiveCoroutine'
  <2> SUFFICES ~LiveCoroutine /\ UNCHANGED <<task, stage>>
    BY DEF LiveCoroutine, Configuring, Receiving
  <2>1. CASE pc = "ended"
    BY <2>1, EndedIsStill DEF EndsClean
  <2>2. CASE pc # "ended"
    <3>1. FirstConfigFails \/ ConfigResponseFails \/ Joined
      BY <1>2, <2>2, WaysToEnd DEF CountInv, vars, mainVars
    <3>2. UNCHANGED <<task, stage>>
      BY <3>1 DEF FirstConfigFails, ConfigResponseFails, Joined, GoTo, taskVars, inputVars
    <3>3. CASE Joined
      BY <1>2, <3>2, <3>3, JoinIsClean DEF Joined
    <3>4. CASE FirstConfigFails \/ ConfigResponseFails
      <4>1. pc \in {"first_config", "config_resp"}
        BY <3>4 DEF FirstConfigFails, ConfigResponseFails
      <4>2. Configuring = {} /\ Receiving = {} /\ Pending = {}
        BY <4>1 DEF CountInv, ConfigCountInv, PlaceInv, LoopInv, DispatchInv, Early
      <4> QED BY <3>2, <4>2 DEF LiveCoroutine, Pending
    <3> QED BY <3>1, <3>3, <3>4
  <2> QED BY <2>1, <2>2
<1> QED BY <1>1, <1>2 DEF EndsClean

(* A coroutine resumes on a destroyed User only after a read of _main_loop *)
(* failed or returned an invalid message (User_Queue.hpp:229, 278): not    *)
(* after a reconfiguration, nor after a failure before the first input,    *)
(* whichever nodes fail.                                                   *)
THEOREM DanglingUserNeedsFailedRead ==
    Spec /\ NoCounterWraps /\ MainLoopReads => []NoDanglingUser
<1> DEFINE I == CountInv /\ EndsClean
<1>1. Init => I
  <2>1. Init => CountInv
    BY CountInit
  <2> QED BY <2>1 DEF Init, EndsClean
<1>2. I /\ [Next]_vars /\ [IncrsAdd]_vars /\ [~ReceiveFails /\ ~ReceiveInvalid]_vars => I'
  BY CountStep, EndsCleanStep
<1>3. I => NoDanglingUser
  BY DEF EndsClean, NoDanglingUser
<1> QED BY <1>1, <1>2, <1>3, PTL DEF Spec, NoCounterWraps, MainLoopReads

(* In a session in which no write to a node fails and the main loop can    *)
(* read, no coroutine runs into undefined behaviour: these failures, and a *)
(* counter that passes UIntMax, are all that leads to one.                 *)
THEOREM SessionWithoutFailures ==
    Spec /\ NoCounterWraps /\ NoWriteFails /\ MainLoopReads => []NoFault
<1>1. TypeOK /\ NothingDangling /\ NoPopFromEmpty /\ NoDanglingUser => NoFault
  BY DEF TypeOK, FaultState, NothingDangling, NoPopFromEmpty, NoDanglingUser, NoFault
<1> QED BY <1>1, SessionTypeOK, ConfigCounterOutlivesHandlers, EmptyPopNeedsFailedWrite,
           DanglingUserNeedsFailedRead, PTL

(* Peers that stay up: where the premises of the theorems above hold.      *)
PeersStay == user_up /\ \A n \in Node : node_up[n]

(* With nodes that do not fail and a user that stays, every write to a node*)
(* succeeds and the main loop reads (test_node.cpp, test_user.cpp).        *)
THEOREM StayingPeersDoNotFail ==
    ASSUME FailingNodes = {}, UserMayLeave = FALSE
    PROVE  Spec => NoWriteFails /\ MainLoopReads
<1> DEFINE I == WriterInv /\ PeersStay
<1>1. Init => I
  BY WriterInit DEF Init, PeersStay
<1>2. WriterInv /\ PeersStay /\ [Next]_vars => PeersStay'
  <2> SUFFICES ASSUME WriterInv, PeersStay, [Next]_vars
               PROVE  PeersStay'
    OBVIOUS
  <2>1. CASE UNCHANGED <<user_up, node_up>>
    BY <2>1 DEF PeersStay
  <2>2. ~UserCloses /\ \A n \in Node : ~NodeFails(n) /\ ~ConfigureFails(n)
    BY DEF UserCloses, NodeFails, ConfigureFails, PeersStay
  <2>3. ASSUME MainStep \/ SendStep \/ TouchesDestroyedUser
        PROVE  UNCHANGED <<user_up, node_up>>
    BY <2>3 DEF MainStep, ReceiveFirstConfig, FirstConfigFails, ConfigWaitZero,
           ConfigResponseSent, ConfigResponseFails, ReceiveInput, ReceiveConfig, Drained,
           Joined, ReceiveFails, ReceiveInvalid, GoTo, SendStep, PopResumes, SendSucceeds,
           SendFails, TouchesDestroyedUser, nodeVars
  <2>4. ASSUME NEW n \in Node, NodeTaskStep(n) \/ NodeProcesses(n)
        PROVE  UNCHANGED <<user_up, node_up>>
    BY <2>2, <2>4 DEF NodeTaskStep, NodeProcesses, ConfigureSend, ConfigureSucceeds,
           ReceiverReads, ReceiverAccepts, ReceiverRejects, ReceiverSent,
           ReceiverSendFails, ReceiverEof, ReceiverCancelled, ReceiverExits, nodeVars
  <2> QED BY <2>1, <2>2, <2>3, <2>4 DEF Next, PeerStep, vars, nodeVars
<1>3. I /\ [Next]_vars => I'
  BY <1>2, WriterStep
<1>4. I => \A i \in Input : ~SendFails(i)
  BY DEF SendFails, PeersStay, WriterInv, WritersHaveNode, Writing
<1>5. I => ~ReceiveFails /\ ~ReceiveInvalid
  BY DEF ReceiveFails, ReceiveInvalid, PeersStay
<1>6. I => [\A i \in Input : ~SendFails(i)]_vars /\ [~ReceiveFails /\ ~ReceiveInvalid]_vars
  BY <1>4, <1>5
<1> QED BY <1>1, <1>3, <1>6, PTL DEF Spec, NoWriteFails, MainLoopReads
===============================================================================
