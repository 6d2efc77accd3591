------------------------ MODULE UserSessionInputProofs ------------------------
(***************************************************************************)
(* Where each input is: it is held in one place at most, and no retry      *)
(* doubles it.                                                             *)
(***************************************************************************)
EXTENDS UserSessionProofs

-----------------------------------------------------------------------------
(* The invariant. *)

(* A coroutine waits for a node exactly while its input is in one of the   *)
(* two sequences, once.                                                    *)
WaitInv ==
    /\ Distinct(waiting)
    /\ Distinct(woken)
    /\ Elements(waiting) \cap Elements(woken) = {}
    /\ \A i \in Input : stage[i] \in {"main_pop", "retry_pop"}
                           <=> i \in Elements(waiting) \cup Elements(woken)

(* A coroutine has a node exactly while it writes. *)
TargetInv == \A i \in Input : stage[i] = "write" <=> target[i] \in Node

(* The inputs that node n, its connection and its receiver loop have. *)
Hands(n) ==
    Elements(node_in[n]) \cup Elements(node_out[n])
      \cup (IF received[n] = NoInput THEN {} ELSE {received[n]})

(* What a node has was sent; it has it once, and no other node has it. *)
HandsInv ==
    \A n \in Node :
        /\ Distinct(node_in[n])
        /\ Distinct(node_out[n])
        /\ Elements(node_in[n]) \cap Elements(node_out[n]) = {}
        /\ received[n] \notin Elements(node_in[n]) \cup Elements(node_out[n])
        /\ \A i \in Hands(n) : stage[i] = "sent"
        /\ \A m \in Node : m # n => Hands(m) \cap Hands(n) = {}

(* A receiver loop has an input exactly while it passes it on, and there   *)
(* are no loops before the first configuration is answered.                *)
LoopInv ==
    /\ \A n \in Node : task[n] \in {"got", "send"} <=> received[n] # NoInput
    /\ pc \in {"first_config", "configuring", "config_resp"} => Receiving = {}

PlaceInv == WriterInv /\ WaitInv /\ TargetInv /\ HandsInv /\ LoopInv

Popping == {"main_pop", "retry_pop"}
Early   == {"first_config", "configuring", "config_resp"}

-----------------------------------------------------------------------------
(* Sequences without repetitions. *)

(* An item appended is one more. *)
LEMMA AppendLemma ==
    ASSUME NEW S, NEW q \in Seq(S), NEW x \in S
    PROVE  /\ Append(q, x) \in Seq(S)
           /\ Elements(Append(q, x)) = Elements(q) \cup {x}
           /\ Distinct(q) /\ x \notin Elements(q) => Distinct(Append(q, x))
<1>1. /\ Append(q, x) \in Seq(S)
      /\ Len(Append(q, x)) = Len(q) + 1
      /\ Append(q, x)[Len(q) + 1] = x
      /\ \A k \in 1 .. Len(q) : Append(q, x)[k] = q[k]
  OBVIOUS
<1> QED BY <1>1 DEF Elements, Distinct

(* The head is in the sequence, and not in the tail. *)
LEMMA HeadTailLemma ==
    ASSUME NEW S, NEW q \in Seq(S), q # <<>>
    PROVE  /\ Head(q) \in S /\ Tail(q) \in Seq(S)
           /\ Elements(q) = {Head(q)} \cup Elements(Tail(q))
           /\ Distinct(q) => Distinct(Tail(q)) /\ Head(q) \notin Elements(Tail(q))
<1>1. /\ Tail(q) \in Seq(S)
      /\ Len(q) \in Nat \ {0}
      /\ Len(Tail(q)) = Len(q) - 1
      /\ Head(q) = q[1]
      /\ \A k \in 1 .. Len(q) - 1 : Tail(q)[k] = q[k + 1]
  OBVIOUS
<1>2. Elements(q) = {Head(q)} \cup Elements(Tail(q))
  <2>1. \A k \in 1 .. Len(q) : k = 1 \/ (k - 1 \in 1 .. Len(q) - 1 /\ q[k] = Tail(q)[k - 1])
    BY <1>1
  <2> QED BY <1>1, <2>1 DEF Elements
<1>3. Distinct(q) => Distinct(Tail(q)) /\ Head(q) \notin Elements(Tail(q))
  BY <1>1 DEF Elements, Distinct
<1>4. Head(q) \in S
  BY <1>1
<1> QED BY <1>1, <1>2, <1>3, <1>4

(* A prefix has some of the items. *)
LEMMA PrefixLemma ==
    ASSUME NEW S, NEW q \in Seq(S), NEW len \in 0 .. Len(q)
    PROVE  /\ Elements(SubSeq(q, 1, len)) \subseteq Elements(q)
           /\ Distinct(q) => Distinct(SubSeq(q, 1, len))
<1>1. /\ Len(SubSeq(q, 1, len)) = len
      /\ \A k \in 1 .. len : SubSeq(q, 1, len)[k] = q[k]
  OBVIOUS
<1> QED BY <1>1 DEF Elements, Distinct

(* The items of a sequence are of its type; an empty one has none. *)
LEMMA ElementsLemma ==
    /\ \A S : \A q \in Seq(S) : Elements(q) \subseteq S
    /\ Elements(<<>>) = {} /\ Distinct(<<>>)
  BY DEF Elements, Distinct

-----------------------------------------------------------------------------
(* Waiting for a node. *)

(* Nobody begins or ends to wait. *)
LEMMA WaitStill ==
    ASSUME WaitInv, UNCHANGED <<waiting, woken>>,
           \A i \in Input : stage'[i] \in Popping <=> stage[i] \in Popping
    PROVE  WaitInv'
  BY DEF WaitInv, Popping

(* _dispatch_input of an input that does not wait yet. *)
LEMMA DispatchWaits ==
    ASSUME TypeOK, WaitInv, NEW i \in Input, NEW popStage \in Popping,
           Dispatch(i, popStage), stage[i] \notin Popping
    PROVE  WaitInv'
<1>1. i \notin Elements(waiting) \cup Elements(woken)
  BY DEF WaitInv, Popping
<1>2. CASE nodes_queue # <<>>
  BY <1>2, WaitStill DEF TypeOK, Dispatch, Popping
<1>3. CASE nodes_queue = <<>>
  <2>1. /\ waiting' = Append(waiting, i) /\ UNCHANGED woken
        /\ stage' = [stage EXCEPT ![i] = popStage]
    BY <1>3 DEF Dispatch
  <2>2. Elements(waiting') = Elements(waiting) \cup {i} /\ Distinct(waiting')
    BY <1>1, <2>1, AppendLemma DEF TypeOK, WaitInv
  <2> QED BY <1>1, <2>1, <2>2 DEF TypeOK, WaitInv, Popping
<1> QED BY <1>2, <1>3

(* push() wakes one, who still waits for its turn. *)
LEMMA PushWaits ==
    ASSUME TypeOK, WaitInv, NEW n \in Node, PushNode(n),
           \A i \in Input : stage'[i] \in Popping <=> stage[i] \in Popping
    PROVE  WaitInv'
<1>1. CASE waiting = <<>>
  BY <1>1, WaitStill DEF PushNode
<1>2. CASE waiting # <<>>
  <2>1. waiting' = Tail(waiting) /\ woken' = Append(woken, Head(waiting))
    BY <1>2 DEF PushNode
  <2>2. /\ Head(waiting) \in Input
        /\ Elements(waiting) = {Head(waiting)} \cup Elements(waiting')
        /\ Distinct(waiting') /\ Head(waiting) \notin Elements(waiting')
    BY <1>2, <2>1, HeadTailLemma DEF TypeOK, WaitInv
  <2>3. Head(waiting) \notin Elements(woken)
    BY <2>2 DEF WaitInv
  <2>4. Elements(woken') = Elements(woken) \cup {Head(waiting)} /\ Distinct(woken')
    BY <2>1, <2>2, <2>3, AppendLemma DEF TypeOK, WaitInv
  <2> QED BY <2>2, <2>3, <2>4 DEF WaitInv, Popping
<1> QED BY <1>1, <1>2

(* A woken async_pop that finds a node. *)
LEMMA PopWaits ==
    ASSUME TypeOK, WaitInv, PopResumes, nodes_queue # <<>>
    PROVE  WaitInv' /\ stage[Head(woken)] \in Popping /\ Head(woken) \in Input
<1>1. /\ woken' = Tail(woken) /\ UNCHANGED waiting /\ woken # <<>>
      /\ stage' = [stage EXCEPT ![Head(woken)] = "write"]
  BY DEF PopResumes
<1>2. /\ Head(woken) \in Input
      /\ Elements(woken) = {Head(woken)} \cup Elements(woken')
      /\ Distinct(woken') /\ Head(woken) \notin Elements(woken')
  BY <1>1, HeadTailLemma DEF TypeOK, WaitInv
<1> QED BY <1>1, <1>2 DEF TypeOK, WaitInv, Popping

-----------------------------------------------------------------------------
(* In the hands of a node. *)

(* One node's hands change, or none. *)
LEMMA HandsStep ==
    ASSUME HandsInv, NEW n \in Node,
           \A m \in Node \ {n} : /\ node_in'[m] = node_in[m]
                                 /\ node_out'[m] = node_out[m]
                                 /\ received'[m] = received[m],
           Distinct(node_in'[n]), Distinct(node_out'[n]),
           Elements(node_in'[n]) \cap Elements(node_out'[n]) = {},
           received'[n] \notin Elements(node_in'[n]) \cup Elements(node_out'[n]),
           \A m \in Node \ {n} : Hands(m) \cap Hands(n)' = {},
           \A m \in Node : \A i \in Hands(m)' : stage'[i] = "sent"
    PROVE  HandsInv'
<1>1. \A m \in Node \ {n} : Hands(m)' = Hands(m)
  BY DEF Hands
<1>2. ASSUME NEW m \in Node
      PROVE  /\ Distinct(node_in'[m])
             /\ Distinct(node_out'[m])
             /\ Elements(node_in'[m]) \cap Elements(node_out'[m]) = {}
             /\ received'[m] \notin Elements(node_in'[m]) \cup Elements(node_out'[m])
             /\ \A k \in Node : k # m => Hands(k)' \cap Hands(m)' = {}
  <2>1. CASE m = n
    BY <1>1, <2>1
  <2>2. CASE m # n
    BY <1>1, <2>2 DEF HandsInv
  <2> QED BY <2>1, <2>2
<1> QED BY <1>2 DEF HandsInv

(* Nothing moves, and what was sent stays sent. *)
LEMMA HandsStill ==
    ASSUME HandsInv, UNCHANGED <<node_in, node_out, received>>,
           \A i \in Input : stage[i] = "sent" => stage'[i] = "sent",
           \A n \in Node : Hands(n) \subseteq Input
    PROVE  HandsInv'
<1>1. \A n \in Node : Hands(n)' = Hands(n)
  BY DEF Hands
<1> QED BY <1>1 DEF HandsInv

(* What a node has in its hands are inputs. *)
LEMMA HandsType == TypeOK => \A n \in Node : Hands(n) \subseteq Input
  BY ElementsLemma DEF TypeOK, Hands

-----------------------------------------------------------------------------
(* Every step keeps places. *)

(* A step that moves no input. *)
StillStep ==
    /\ UNCHANGED <<waiting, woken, stage, target, received, node_in, node_out>>
    /\ \A n \in Node : task'[n] \in {"got", "send"} <=> task[n] \in {"got", "send"}
    /\ pc' \in Early => Receiving' = {}

(* A step that moves no input keeps every input in its place. *)
LEMMA StillKeepsPlaces ==
    ASSUME PlaceInv, WriterInv', StillStep
    PROVE  PlaceInv'
<1>1. WaitInv'
  BY WaitStill DEF PlaceInv, StillStep
<1>2. TargetInv'
  BY DEF PlaceInv, TargetInv, StillStep
<1>3. HandsInv'
  BY HandsStill, HandsType DEF PlaceInv, WriterInv, StillStep
<1>4. LoopInv'
  BY DEF PlaceInv, LoopInv, StillStep, Early
<1> QED BY <1>1, <1>2, <1>3, <1>4 DEF PlaceInv

(* The steps that move an input; the others are still. *)
MovingStep ==
    \/ \E i \in Input : ReceiveInput(i) \/ SendSucceeds(i) \/ SendFails(i)
    \/ PopResumes
    \/ \E n \in Node :
         \/ ConfigureSucceeds(n) \/ ReceiverReads(n) \/ ReceiverRejects(n)
         \/ ReceiverSent(n) \/ ReceiverSendFails(n) \/ ReceiverEof(n)
         \/ ReceiverCancelled(n) \/ NodeProcesses(n) \/ NodeFails(n)

(* A step moves no input, or is one of those treated below. *)
LEMMA MovingOrStill ==
    ASSUME PlaceInv, [Next]_vars
    PROVE  StillStep \/ MovingStep
<1> USE DEF PlaceInv, WriterInv, LoopInv, StillStep, Early, Receiving, mainVars, poolVars,
        counterVars, taskVars, inputVars, nodeVars
<1>1. CASE UNCHANGED vars
  BY <1>1 DEF vars
<1>2. ASSUME NEW c \in FirstOutputSize, ReceiveFirstConfig(c)
      PROVE  StillStep
  BY <1>2 DEF ReceiveFirstConfig
<1>3. ASSUME FirstConfigFails \/ ConfigWaitZero \/ ConfigResponseFails \/ Joined
                \/ ReceiveFails \/ ReceiveInvalid
      PROVE  StillStep
  BY <1>3 DEF FirstConfigFails, ConfigWaitZero, ConfigResponseFails, Joined, ReceiveFails,
              ReceiveInvalid, GoTo
<1>4. ASSUME ConfigResponseSent
      PROVE  StillStep
  BY <1>4 DEF ConfigResponseSent
<1>5. ASSUME (\E c \in NewOutputSize : ReceiveConfig(c)) \/ TouchesDestroyedUser \/ UserCloses
      PROVE  StillStep
  BY <1>5 DEF ReceiveConfig, TouchesDestroyedUser, UserCloses
<1>6. ASSUME Drained
      PROVE  StillStep
  BY <1>6 DEF Drained, TypeOK
<1>7. ASSUME NEW n \in Node, ConfigureSend(n) \/ ConfigureFails(n)
      PROVE  StillStep
  BY <1>7 DEF ConfigureSend, ConfigureFails, TypeOK
<1>8. ASSUME NEW n \in Node, ReceiverAccepts(n)
      PROVE  StillStep
  BY <1>8 DEF ReceiverAccepts, TypeOK
<1> QED BY <1>1, <1>2, <1>3, <1>4, <1>5, <1>6, <1>7, <1>8
        DEF Next, MainStep, SendStep, NodeTaskStep, PeerStep, MovingStep

(* An input gets a node or begins to wait. *)
LEMMA DispatchKeepsPlaces ==
    ASSUME PlaceInv, WriterInv', NEW i \in Input, NEW popStage \in Popping,
           Dispatch(i, popStage), stage[i] \in {"new", "write"},
           UNCHANGED <<taskVars, node_in, node_out>>, pc' \in Early => pc \in Early
    PROVE  PlaceInv'
<1> USE DEF PlaceInv, WriterInv
<1>1. WaitInv'
  BY DispatchWaits DEF Popping
<1>2. /\ \A j \in Input \ {i} : stage'[j] = stage[j] /\ target'[j] = target[j]
      /\ \/ stage'[i] = "write" /\ target'[i] = Head(nodes_queue) /\ nodes_queue # <<>>
         \/ stage'[i] \in Popping /\ target'[i] = NoNode
  BY DEF Dispatch, TypeOK
<1>3. nodes_queue # <<>> => Head(nodes_queue) \in Node
  BY PopLemma DEF TypeOK
<1>4. TargetInv'
  BY <1>2, <1>3, NodeAssumption DEF TargetInv, Popping
<1>5. HandsInv'
  BY <1>2, HandsStill, HandsType DEF taskVars
<1>6. LoopInv'
  BY DEF LoopInv, Early, Receiving, taskVars
<1> QED BY <1>1, <1>4, <1>5, <1>6

(* One input more is in the hands of a node. *)
LEMMA SendKeepsPlaces ==
    ASSUME PlaceInv, WriterInv', NEW i \in Input, SendSucceeds(i)
    PROVE  PlaceInv'
<1> USE DEF PlaceInv, WriterInv
<1>0. PICK t \in Node : t = target[i]
  BY DEF SendSucceeds, TargetInv
<1>1. /\ stage[i] = "write"
      /\ stage' = [stage EXCEPT ![i] = "sent"]
      /\ target' = [target EXCEPT ![i] = NoNode]
      /\ PushNode(t)
      /\ UNCHANGED <<task, received, node_out, pc>>
  BY <1>0 DEF SendSucceeds, taskVars, mainVars
<1>2. WaitInv'
  BY <1>1, PushWaits DEF TypeOK, Popping
<1>3. TargetInv'
  BY <1>1, NodeAssumption DEF TargetInv, TypeOK
<1>4. \A n \in Node : i \notin Hands(n)
  BY <1>1 DEF HandsInv
<1>5. HandsInv'
  <2>1. CASE ~node_up[t]
    <3>1. UNCHANGED node_in
      BY <1>0, <2>1 DEF SendSucceeds
    <3> QED BY <1>1, <3>1, HandsStill, HandsType DEF TypeOK
  <2>2. CASE node_up[t]
    <3>1. node_in' = [node_in EXCEPT ![t] = Append(node_in[t], i)]
      BY <1>0, <2>2 DEF SendSucceeds
    <3>2. /\ node_in[t] \in Seq(Input) /\ node_in'[t] = Append(node_in[t], i)
          /\ \A m \in Node \ {t} : node_in'[m] = node_in[m]
      BY <1>1, <3>1 DEF TypeOK
    <3>3. i \notin Elements(node_in[t]) /\ i \notin Elements(node_out[t]) /\ received[t] # i
      BY <1>1, <1>4, InputAssumption DEF Hands
    <3>4. /\ Elements(node_in'[t]) = Elements(node_in[t]) \cup {i}
          /\ Distinct(node_in'[t])
      BY <1>1, <3>2, <3>3, AppendLemma DEF HandsInv
    <3>a. \A m \in Node \ {t} : /\ node_in'[m] = node_in[m]
                                 /\ node_out'[m] = node_out[m]
                                 /\ received'[m] = received[m]
      BY <1>1, <3>2
    <3>b. node_out'[t] = node_out[t] /\ received'[t] = received[t]
      BY <1>1
    <3>c. \A m \in Node \ {t} : Hands(m)' = Hands(m)
      BY <3>a DEF Hands
    <3>d. Hands(t)' = Hands(t) \cup {i}
      BY <3>b, <3>4 DEF Hands
    <3>5. /\ Hands(t)' = Hands(t) \cup {i}
          /\ \A m \in Node \ {t} : Hands(m)' = Hands(m)
      BY <3>c, <3>d
    <3>6. \A m \in Node \ {t} : Hands(m) \cap Hands(t)' = {}
      BY <1>1, <1>4, <3>5 DEF HandsInv
    <3>7. \A m \in Node : \A j \in Hands(m)' : stage'[j] = "sent"
      <4>1. \A j \in Input : stage'[j] = IF j = i THEN "sent" ELSE stage[j]
        BY <1>1 DEF TypeOK
      <4>2. \A m \in Node : Hands(m)' \subseteq Hands(m) \cup {i} /\ Hands(m) \subseteq Input
        BY <3>5, HandsType
      <4> QED BY <4>1, <4>2 DEF HandsInv
    <3>8. /\ Distinct(node_out'[t])
          /\ Elements(node_in'[t]) \cap Elements(node_out'[t]) = {}
          /\ received'[t] \notin Elements(node_in'[t]) \cup Elements(node_out'[t])
      BY <1>1, <3>3, <3>4 DEF HandsInv
    <3> HIDE DEF PlaceInv, WriterInv
    <3>10. HandsInv
      BY DEF PlaceInv
    <3> QED BY <3>a, <3>4, <3>6, <3>7, <3>8, <3>10, HandsStep
  <2> QED BY <2>1, <2>2
<1>6. LoopInv'
  BY <1>1 DEF LoopInv, Receiving
<1> QED BY <1>2, <1>3, <1>5, <1>6

(* One that waits gets a node. *)
LEMMA PopKeepsPlaces ==
    ASSUME PlaceInv, WriterInv', PopResumes
    PROVE  PlaceInv'
<1> USE DEF PlaceInv, WriterInv
<1>1. UNCHANGED <<task, received, node_in, node_out, waiting>> /\ (pc' \in Early => pc \in Early)
  BY DEF PopResumes, taskVars, nodeVars, Early
<1>2. LoopInv'
  BY <1>1 DEF LoopInv, Early, Receiving
<1>3. CASE nodes_queue = <<>>
  <2>1. UNCHANGED <<woken, stage, target>>
    BY <1>3 DEF PopResumes, inputVars
  <2> QED BY <1>1, <1>2, <2>1, WaitStill, HandsStill, HandsType DEF TargetInv
<1>4. CASE nodes_queue # <<>>
  <2> DEFINE i == Head(woken)
  <2>1. WaitInv' /\ stage[i] \in Popping /\ i \in Input
    BY <1>4, PopWaits
  <2>2. /\ stage' = [stage EXCEPT ![i] = "write"]
        /\ target' = [target EXCEPT ![i] = Head(nodes_queue)]
    BY <1>4 DEF PopResumes
  <2>3. Head(nodes_queue) \in Node
    BY <1>4, PopLemma DEF TypeOK
  <2>4. TargetInv'
    BY <2>1, <2>2, <2>3 DEF TargetInv, TypeOK
  <2>5. HandsInv'
    BY <1>1, <2>1, <2>2, HandsStill, HandsType DEF TypeOK, Popping
  <2> QED BY <1>2, <2>1, <2>4, <2>5
<1> QED BY <1>3, <1>4

(* A node is ready and may wake one that waits. *)
LEMMA ConfigureKeepsPlaces ==
    ASSUME PlaceInv, WriterInv', NEW n \in Node, ConfigureSucceeds(n)
    PROVE  PlaceInv'
<1> USE DEF PlaceInv, WriterInv
<1>1. /\ UNCHANGED <<pc, stage, target, received, node_in, node_out>>
      /\ task[n] = "config_wait" /\ task' = [task EXCEPT ![n] = "configured"]
      /\ PushNode(n)
  BY DEF ConfigureSucceeds, mainVars, inputVars, nodeVars
<1>2. WaitInv'
  BY <1>1, PushWaits
<1>3. HandsInv'
  BY <1>1, HandsStill, HandsType
<1>4. TargetInv' /\ LoopInv'
  BY <1>1 DEF TargetInv, LoopInv, Receiving, TypeOK
<1> QED BY <1>2, <1>3, <1>4

(* The hands of one node may lose an input; no coroutine of an input moves. *)
LEMMA HandsFewer ==
    ASSUME HandsInv, NEW n \in Node, UNCHANGED stage,
           \A m \in Node \ {n} : /\ node_in'[m] = node_in[m]
                                 /\ node_out'[m] = node_out[m]
                                 /\ received'[m] = received[m],
           Distinct(node_in'[n]), Distinct(node_out'[n]),
           Elements(node_in'[n]) \cap Elements(node_out'[n]) = {},
           received'[n] \notin Elements(node_in'[n]) \cup Elements(node_out'[n]),
           Hands(n)' \subseteq Hands(n)
    PROVE  HandsInv'
<1>1. \A m \in Node \ {n} : Hands(m)' = Hands(m)
  BY DEF Hands
<1>2. \A m \in Node \ {n} : Hands(m) \cap Hands(n)' = {}
  BY DEF HandsInv
<1>3. \A m \in Node : \A i \in Hands(m)' : stage'[i] = "sent"
  BY <1>1 DEF HandsInv
<1> QED BY <1>2, <1>3, HandsStep

(* An output comes from the connection to the loop. *)
LEMMA ReadKeepsPlaces ==
    ASSUME PlaceInv, WriterInv', NEW n \in Node, ReceiverReads(n)
    PROVE  PlaceInv'
<1> USE DEF PlaceInv, WriterInv
<1>1. /\ UNCHANGED <<pc, waiting, woken, stage, target, node_in>>
      /\ task[n] = "recv" /\ task' = [task EXCEPT ![n] = "got"]
      /\ received[n] = NoInput /\ received' = [received EXCEPT ![n] = Head(node_out[n])]
      /\ node_out[n] # <<>> /\ node_out' = [node_out EXCEPT ![n] = Tail(node_out[n])]
  BY DEF ReceiverReads, mainVars, poolVars, inputVars, LoopInv
<1>2. /\ received'[n] = Head(node_out[n]) /\ Head(node_out[n]) \in Input
      /\ node_out'[n] = Tail(node_out[n])
      /\ node_in'[n] = node_in[n]
      /\ \A m \in Node \ {n} : /\ node_in'[m] = node_in[m]
                               /\ node_out'[m] = node_out[m]
                               /\ received'[m] = received[m]
  BY <1>1, HeadTailLemma DEF TypeOK
<1>3. /\ Elements(node_out[n]) = {received'[n]} \cup Elements(node_out'[n])
      /\ Distinct(node_out'[n])
      /\ received'[n] \notin Elements(node_out'[n])
  BY <1>1, <1>2, HeadTailLemma DEF TypeOK, HandsInv
<1>4. Hands(n)' = Hands(n)
  BY <1>1, <1>2, <1>3, InputAssumption DEF Hands
<1>5. HandsInv'
  BY <1>1, <1>2, <1>3, <1>4, HandsFewer DEF HandsInv
<1>6. WaitInv' /\ TargetInv'
  BY <1>1, WaitStill DEF TargetInv
<1>7. LoopInv'
  BY <1>1, <1>2, InputAssumption DEF LoopInv, Receiving, TypeOK
<1> QED BY <1>5, <1>6, <1>7

(* A loop ends; what it had is answered no more. *)
LEMMA ExitKeepsPlaces ==
    ASSUME PlaceInv, WriterInv', NEW n \in Node, ReceiverExits(n)
    PROVE  PlaceInv'
<1> USE DEF PlaceInv, WriterInv
<1>1. /\ UNCHANGED <<pc, waiting, woken, stage, target, node_in, node_out>>
      /\ task' = [task EXCEPT ![n] = "exited"]
      /\ received' = [received EXCEPT ![n] = NoInput]
  BY DEF ReceiverExits, mainVars, poolVars, inputVars, nodeVars
<1>2. received'[n] = NoInput /\ \A m \in Node \ {n} : received'[m] = received[m]
  BY <1>1 DEF TypeOK
<1>3. NoInput \notin Elements(node_in[n]) \cup Elements(node_out[n])
  BY ElementsLemma, InputAssumption DEF TypeOK
<1>4. Hands(n)' \subseteq Hands(n)
  BY <1>1, <1>2 DEF Hands
<1>5. HandsInv'
  BY <1>1, <1>2, <1>3, <1>4, HandsFewer DEF HandsInv
<1>6. WaitInv' /\ TargetInv'
  BY <1>1, WaitStill DEF TargetInv
<1>7. LoopInv'
  BY <1>1 DEF LoopInv, Receiving, TypeOK
<1> QED BY <1>5, <1>6, <1>7

(* An answered input leaves the hands of its node. *)
LEMMA AnswerKeepsPlaces ==
    ASSUME PlaceInv, WriterInv', NEW n \in Node, ReceiverSent(n)
    PROVE  PlaceInv'
<1> USE DEF PlaceInv, WriterInv
<1>1. PICK i \in Input : i = received[n]
  BY DEF ReceiverSent, LoopInv, TypeOK
<1>2. /\ UNCHANGED <<pc, waiting, woken, target, node_in, node_out>>
      /\ task[n] = "send" /\ task' = [task EXCEPT ![n] = "recv"]
      /\ received' = [received EXCEPT ![n] = NoInput]
      /\ stage' = [stage EXCEPT ![i] = "answered"]
  BY <1>1 DEF ReceiverSent, mainVars, poolVars, nodeVars
<1>3. i \in Hands(n) /\ stage[i] = "sent"
  BY <1>1, InputAssumption DEF Hands, HandsInv
<1>4. /\ received'[n] = NoInput
      /\ \A m \in Node \ {n} : /\ node_in'[m] = node_in[m]
                               /\ node_out'[m] = node_out[m]
                               /\ received'[m] = received[m]
  BY <1>2 DEF TypeOK
<1>5. NoInput \notin Elements(node_in[n]) \cup Elements(node_out[n])
  BY ElementsLemma, InputAssumption DEF TypeOK
<1>6. /\ Hands(n)' = Hands(n) \ {i}
      /\ \A m \in Node \ {n} : Hands(m)' = Hands(m) /\ i \notin Hands(m)
  <2>1. i \notin Elements(node_in[n]) \cup Elements(node_out[n])
    BY <1>1 DEF HandsInv
  <2>2. Hands(n)' = Hands(n) \ {i}
    BY <1>1, <1>2, <1>4, <2>1, InputAssumption DEF Hands
  <2>3. \A m \in Node \ {n} : Hands(m)' = Hands(m)
    BY <1>4 DEF Hands
  <2> QED BY <1>3, <2>2, <2>3 DEF HandsInv
<1>7. \A m \in Node : \A j \in Hands(m)' : stage'[j] = "sent"
  <2>1. \A j \in Input \ {i} : stage'[j] = stage[j]
    BY <1>2 DEF TypeOK
  <2>2. \A m \in Node : Hands(m)' \subseteq Hands(m) \ {i} /\ Hands(m) \subseteq Input
    BY <1>6, HandsType
  <2> QED BY <2>1, <2>2 DEF HandsInv
<1>8. \A m \in Node \ {n} : Hands(m) \cap Hands(n)' = {}
  BY <1>6 DEF HandsInv
<1>9. HandsInv'
  BY <1>2, <1>4, <1>5, <1>7, <1>8, HandsStep DEF HandsInv
<1>10. WaitInv'
  BY <1>2, <1>3, WaitStill DEF TypeOK, Popping
<1>11. TargetInv'
  BY <1>2, <1>3 DEF TargetInv, TypeOK
<1>12. LoopInv'
  BY <1>2 DEF LoopInv, Receiving, TypeOK
<1> QED BY <1>9, <1>10, <1>11, <1>12

(* A node puts out the output of what it was sent. *)
LEMMA ProcessKeepsPlaces ==
    ASSUME PlaceInv, WriterInv', NEW n \in Node, NodeProcesses(n)
    PROVE  PlaceInv'
<1> USE DEF PlaceInv, WriterInv
<1>1. /\ UNCHANGED <<pc, waiting, woken, stage, target, task, received>>
      /\ node_in[n] # <<>> /\ node_in' = [node_in EXCEPT ![n] = Tail(node_in[n])]
      /\ node_out' = [node_out EXCEPT ![n] = Append(node_out[n], Head(node_in[n]))]
  BY DEF NodeProcesses, mainVars, poolVars, inputVars, taskVars
<1>2. /\ Head(node_in[n]) \in Input
      /\ node_in'[n] = Tail(node_in[n])
      /\ node_out'[n] = Append(node_out[n], Head(node_in[n]))
      /\ received'[n] = received[n]
      /\ \A m \in Node \ {n} : /\ node_in'[m] = node_in[m]
                               /\ node_out'[m] = node_out[m]
                               /\ received'[m] = received[m]
  BY <1>1, HeadTailLemma DEF TypeOK
<1>3. /\ Elements(node_in[n]) = {Head(node_in[n])} \cup Elements(node_in'[n])
      /\ Distinct(node_in'[n])
      /\ Head(node_in[n]) \notin Elements(node_in'[n])
  BY <1>1, <1>2, HeadTailLemma DEF TypeOK, HandsInv
<1>4. Head(node_in[n]) \notin Elements(node_out[n])
  BY <1>3 DEF HandsInv
<1>5. /\ Elements(node_out'[n]) = Elements(node_out[n]) \cup {Head(node_in[n])}
      /\ Distinct(node_out'[n])
  <2>1. node_out[n] \in Seq(Input) /\ Distinct(node_out[n])
    BY DEF TypeOK, HandsInv
  <2> QED BY <1>2, <1>4, <2>1, AppendLemma
<1>6. Hands(n)' = Hands(n)
  BY <1>2, <1>3, <1>5 DEF Hands
<1>7. /\ Elements(node_in'[n]) \cap Elements(node_out'[n]) = {}
      /\ received'[n] \notin Elements(node_in'[n]) \cup Elements(node_out'[n])
  BY <1>2, <1>3, <1>5 DEF HandsInv
<1>8. HandsInv'
  BY <1>1, <1>2, <1>3, <1>5, <1>6, <1>7, HandsFewer
<1>9. WaitInv' /\ TargetInv' /\ LoopInv'
  BY <1>1, WaitStill DEF TargetInv, LoopInv, Receiving
<1> QED BY <1>8, <1>9

(* A node that goes down loses its inputs and some of its outputs. *)
LEMMA FailKeepsPlaces ==
    ASSUME PlaceInv, WriterInv', NEW n \in Node, NodeFails(n)
    PROVE  PlaceInv'
<1> USE DEF PlaceInv, WriterInv
<1>1. PICK len \in 0 .. Len(node_out[n]) :
          node_out' = [node_out EXCEPT ![n] = SubSeq(node_out[n], 1, len)]
  BY DEF NodeFails
<1>2. /\ UNCHANGED <<pc, waiting, woken, stage, target, task, received>>
      /\ node_in' = [node_in EXCEPT ![n] = <<>>]
  BY DEF NodeFails, mainVars, poolVars, inputVars, taskVars
<1>3. /\ node_in'[n] = <<>>
      /\ node_out'[n] = SubSeq(node_out[n], 1, len)
      /\ received'[n] = received[n]
      /\ \A m \in Node \ {n} : /\ node_in'[m] = node_in[m]
                               /\ node_out'[m] = node_out[m]
                               /\ received'[m] = received[m]
  BY <1>1, <1>2 DEF TypeOK
<1>4. /\ Elements(node_in'[n]) = {} /\ Distinct(node_in'[n])
      /\ Elements(node_out'[n]) \subseteq Elements(node_out[n])
      /\ Distinct(node_out'[n])
  BY <1>3, ElementsLemma, PrefixLemma DEF TypeOK, HandsInv
<1>5. Hands(n)' \subseteq Hands(n)
  BY <1>3, <1>4 DEF Hands
<1>6. HandsInv'
  BY <1>2, <1>3, <1>4, <1>5, HandsFewer DEF HandsInv
<1>7. WaitInv' /\ TargetInv' /\ LoopInv'
  BY <1>2, WaitStill DEF TargetInv, LoopInv, Receiving
<1> QED BY <1>6, <1>7

(* Every step keeps every input in one place. *)
LEMMA PlaceStep == PlaceInv /\ [Next]_vars => PlaceInv'
<1> SUFFICES ASSUME PlaceInv, [Next]_vars
             PROVE  PlaceInv'
  OBVIOUS
<1>1. WriterInv'
  BY WriterStep DEF PlaceInv
<1>2. CASE StillStep
  BY <1>1, <1>2, StillKeepsPlaces
<1>3. ASSUME NEW i \in Input, ReceiveInput(i)
      PROVE  PlaceInv'
  <2>1. /\ Dispatch(i, "main_pop") /\ stage[i] = "new" /\ UNCHANGED <<taskVars, node_in, node_out>>
        /\ pc' \in {"loop", "dispatch"}
    BY <1>3 DEF ReceiveInput, nodeVars
  <2> QED BY <1>1, <2>1, DispatchKeepsPlaces DEF Popping, Early
<1>4. ASSUME NEW i \in Input, SendFails(i)
      PROVE  PlaceInv'
  <2>1. /\ Dispatch(i, "retry_pop") /\ stage[i] = "write"
        /\ UNCHANGED <<taskVars, node_in, node_out>> /\ UNCHANGED pc
    BY <1>4 DEF SendFails, nodeVars, mainVars
  <2> QED BY <1>1, <2>1, DispatchKeepsPlaces DEF Popping
<1>5. ASSUME NEW i \in Input, SendSucceeds(i)
      PROVE  PlaceInv'
  BY <1>1, <1>5, SendKeepsPlaces
<1>6. CASE PopResumes
  BY <1>1, <1>6, PopKeepsPlaces
<1>7. ASSUME NEW n \in Node, ConfigureSucceeds(n)
      PROVE  PlaceInv'
  BY <1>1, <1>7, ConfigureKeepsPlaces
<1>8. ASSUME NEW n \in Node, ReceiverReads(n)
      PROVE  PlaceInv'
  BY <1>1, <1>8, ReadKeepsPlaces
<1>9. ASSUME NEW n \in Node,
             ReceiverRejects(n) \/ ReceiverSendFails(n) \/ ReceiverEof(n) \/ ReceiverCancelled(n)
      PROVE  PlaceInv'
  <2>1. ReceiverExits(n)
    BY <1>9 DEF ReceiverRejects, ReceiverSendFails, ReceiverEof, ReceiverCancelled
  <2> QED BY <1>1, <2>1, ExitKeepsPlaces
<1>10. ASSUME NEW n \in Node, ReceiverSent(n)
       PROVE  PlaceInv'
  BY <1>1, <1>10, AnswerKeepsPlaces
<1>11. ASSUME NEW n \in Node, NodeProcesses(n)
       PROVE  PlaceInv'
  BY <1>1, <1>11, ProcessKeepsPlaces
<1>12. ASSUME NEW n \in Node, NodeFails(n)
       PROVE  PlaceInv'
  BY <1>1, <1>12, FailKeepsPlaces
<1> QED BY <1>2, <1>3, <1>4, <1>5, <1>6, <1>7, <1>8, <1>9, <1>10, <1>11, <1>12, MovingOrStill
        DEF MovingStep

(* No input is anywhere at first. *)
LEMMA PlaceInit == Init => PlaceInv
<1> SUFFICES ASSUME Init
             PROVE  PlaceInv
  OBVIOUS
<1>1. WriterInv
  BY WriterInit
<1>2. WaitInv /\ HandsInv
  BY ElementsLemma, InputAssumption DEF Init, WaitInv, HandsInv, Hands
<1>3. TargetInv /\ LoopInv
  BY NodeAssumption DEF Init, TargetInv, LoopInv, Receiving
<1> QED BY <1>1, <1>2, <1>3 DEF PlaceInv

-----------------------------------------------------------------------------
(* Held in one place. *)

(* A set without two different members. *)
LEMMA AtMostOne ==
    ASSUME NEW S, \A x, y \in S : x = y
    PROVE  /\ IsFiniteSet(S) /\ Cardinality(S) \in {0, 1}
           /\ S = {} => Cardinality(S) = 0
           /\ S # {} => Cardinality(S) = 1
<1>1. CASE S = {}
  BY <1>1, FS_EmptySet
<1>2. ASSUME NEW x \in S
      PROVE  IsFiniteSet(S) /\ Cardinality(S) = 1
  <2>1. S = {x}
    BY <1>2
  <2> QED BY <2>1, FS_Singleton
<1> QED BY <1>1, <1>2

(* The terms of Held. *)
InQueue(q, i) == {k \in 1 .. Len(q) : q[k] = i}
InChannel(c, i) ==
    {p \in Node \X (1 .. Cardinality(Input)) :
         p[2] \in DOMAIN c[p[1]] /\ c[p[1]][p[2]] = i}
AtTarget(i) == {n \in Node : target[i] = n}
AtReceiver(i) == {n \in Node : received[n] = i}

(* An input is counted once in a queue without repetitions, if it is there. *)
LEMMA QueueCount ==
    ASSUME NEW q \in Seq(Input), Distinct(q), NEW i
    PROVE  /\ Cardinality(InQueue(q, i)) \in {0, 1}
           /\ Cardinality(InQueue(q, i)) = 1 <=> i \in Elements(q)
<1>1. \A x, y \in InQueue(q, i) : x = y
  BY DEF InQueue, Distinct
<1>2. InQueue(q, i) # {} <=> i \in Elements(q)
  BY DEF InQueue, Elements
<1> HIDE DEF InQueue
<1> QED BY <1>1, <1>2, AtMostOne

(* And so in all queues together, when it is in one of them at most. *)
LEMMA ChannelCount ==
    ASSUME NEW c \in [Node -> Seq(Input)], NEW i,
           \A n \in Node : Distinct(c[n]),
           \A m, n \in Node : i \in Elements(c[m]) /\ i \in Elements(c[n]) => m = n
    PROVE  /\ Cardinality(InChannel(c, i)) \in {0, 1}
           /\ (\A n \in Node : i \notin Elements(c[n])) => Cardinality(InChannel(c, i)) = 0
<1>1. \A p \in InChannel(c, i) :
          /\ p = <<p[1], p[2]>> /\ p[1] \in Node /\ p[2] \in 1 .. Len(c[p[1]])
          /\ c[p[1]][p[2]] = i
  BY DEF InChannel
<1>2. \A p \in InChannel(c, i) : i \in Elements(c[p[1]])
  BY <1>1 DEF Elements
<1>3. ASSUME NEW p \in InChannel(c, i), NEW q \in InChannel(c, i)
      PROVE  p = q
  <2>1. p[1] = q[1]
    BY <1>1, <1>2
  <2>2. p[2] = q[2]
    BY <1>1, <2>1 DEF Distinct
  <2> QED BY <1>1, <2>1, <2>2
<1>4. (\A n \in Node : i \notin Elements(c[n])) => InChannel(c, i) = {}
  BY <1>1, <1>2
<1> HIDE DEF InChannel
<1> QED BY <1>3, <1>4, AtMostOne

(* Inputs in one place each are held once. *)
LEMMA HeldOnceInPlace ==
    ASSUME PlaceInv
    PROVE  InputHeldOnce
<1> SUFFICES ASSUME NEW i \in Input
             PROVE  /\ stage[i] \in {"new", "answered"} => Held(i) = 0
                    /\ stage[i] \in {"main_pop", "retry_pop", "write"} => Held(i) = 1
                    /\ stage[i] = "sent" => Held(i) <= 1
  BY DEF InputHeldOnce
<1> DEFINE w == Cardinality(InQueue(waiting, i))
           k == Cardinality(InQueue(woken, i))
           a == Cardinality(InChannel(node_in, i))
           o == Cardinality(InChannel(node_out, i))
           t == Cardinality(AtTarget(i))
           r == Cardinality(AtReceiver(i))
<1>1. Held(i) = w + k + a + o + t + r
  BY DEF Held, InQueue, InChannel, AtTarget, AtReceiver
<1>2. /\ waiting \in Seq(Input) /\ woken \in Seq(Input)
      /\ node_in \in [Node -> Seq(Input)] /\ node_out \in [Node -> Seq(Input)]
  BY DEF PlaceInv, WriterInv, TypeOK
<1>3. /\ w \in {0, 1} /\ (w = 1 <=> i \in Elements(waiting))
      /\ k \in {0, 1} /\ (k = 1 <=> i \in Elements(woken))
  BY <1>2, QueueCount DEF PlaceInv, WaitInv
<1>4. /\ w + k \in {0, 1}
      /\ w + k = 1 <=> stage[i] \in Popping
  BY <1>3 DEF PlaceInv, WaitInv, Popping
<1>5. t \in {0, 1} /\ (t = 1 <=> stage[i] = "write")
  <2>1. \A m, n \in AtTarget(i) : m = n
    BY DEF AtTarget
  <2>2. AtTarget(i) # {} <=> stage[i] = "write"
    BY DEF AtTarget, PlaceInv, TargetInv
  <2> HIDE DEF AtTarget
  <2> QED BY <2>1, <2>2, AtMostOne
<1>6. \A m, n \in Node : i \in Hands(m) /\ i \in Hands(n) => m = n
  BY DEF PlaceInv, HandsInv
<1>7. /\ a \in {0, 1}
      /\ (\A n \in Node : i \notin Elements(node_in[n])) => a = 0
  <2>1. \A m, n \in Node : i \in Elements(node_in[m]) /\ i \in Elements(node_in[n]) => m = n
    BY <1>6 DEF Hands
  <2> QED BY <1>2, <2>1, ChannelCount DEF PlaceInv, HandsInv
<1>8. /\ o \in {0, 1}
      /\ (\A n \in Node : i \notin Elements(node_out[n])) => o = 0
  <2>1. \A m, n \in Node : i \in Elements(node_out[m]) /\ i \in Elements(node_out[n]) => m = n
    BY <1>6 DEF Hands
  <2> QED BY <1>2, <2>1, ChannelCount DEF PlaceInv, HandsInv
<1>9. /\ r \in {0, 1}
      /\ (\A n \in Node : received[n] # i) => r = 0
  <2>1. \A m, n \in AtReceiver(i) : m = n
    BY <1>6, InputAssumption DEF AtReceiver, Hands
  <2>2. (\A n \in Node : received[n] # i) => AtReceiver(i) = {}
    BY DEF AtReceiver
  <2> HIDE DEF AtReceiver
  <2> QED BY <2>1, <2>2, AtMostOne
<1>10. /\ a + o + r \in {0, 1}
       /\ a + o + r = 1 => stage[i] = "sent"
  <2>1. CASE \A n \in Node : i \notin Hands(n)
    <3>1. \A n \in Node : /\ i \notin Elements(node_in[n]) /\ i \notin Elements(node_out[n])
                          /\ received[n] # i
      BY <2>1, InputAssumption DEF Hands
    <3> QED BY <3>1, <1>7, <1>8, <1>9
  <2>2. ASSUME NEW n \in Node, i \in Hands(n)
        PROVE  /\ a + o + r \in {0, 1}
               /\ stage[i] = "sent"
    <3>1. \A m \in Node \ {n} : /\ i \notin Elements(node_in[m])
                                /\ i \notin Elements(node_out[m]) /\ received[m] # i
      BY <1>6, <2>2, InputAssumption DEF Hands
    <3>2. /\ i \in Elements(node_in[n]) => i \notin Elements(node_out[n]) /\ received[n] # i
          /\ i \in Elements(node_out[n]) => i \notin Elements(node_in[n]) /\ received[n] # i
          /\ received[n] = i =>
                i \notin Elements(node_in[n]) /\ i \notin Elements(node_out[n])
      BY DEF PlaceInv, HandsInv
    <3>3. stage[i] = "sent"
      BY <2>2 DEF PlaceInv, HandsInv
    <3>4. /\ i \notin Elements(node_in[n]) => a = 0
          /\ i \notin Elements(node_out[n]) => o = 0
          /\ received[n] # i => r = 0
      BY <1>7, <1>8, <1>9, <3>1
    <3> QED BY <1>7, <1>8, <1>9, <3>2, <3>3, <3>4
  <2> QED BY <2>1, <2>2
<1>11. stage[i] \in StageState
  BY DEF PlaceInv, WriterInv, TypeOK
<1> HIDE DEF w, k, a, o, t, r
<1> QED BY <1>1, <1>3, <1>4, <1>5, <1>7, <1>8, <1>9, <1>10, <1>11 DEF StageState, Popping

(* Whatever fails, an accepted input is in one place at most: the retries  *)
(* of _send_input_to_node never duplicate it, and the user gets no second  *)
(* result for it.                                                          *)
THEOREM InputIsHeldOnce == Spec => []InputHeldOnce
<1>1. Init => PlaceInv
  BY PlaceInit
<1>2. PlaceInv /\ [Next]_vars => PlaceInv'
  BY PlaceStep
<1>3. PlaceInv => InputHeldOnce
  BY HeldOnceInPlace
<1> QED BY <1>1, <1>2, <1>3, PTL DEF Spec

=============================================================================
